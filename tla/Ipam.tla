-------------------------------- MODULE Ipam --------------------------------
(***************************************************************************)
(* IP address management (internal/ipam): subnets, reservations and stored *)
(* address records, as the REST, gRPC and MCP interfaces and the migration *)
(* importer use them, and the audit trail these leave.                     *)
(*                                                                         *)
(* An address is a number of IpamBits bits (32 in the code) and a CIDR is  *)
(* [addr, bits]; only a masked CIDR is a key of the store.  The engine has *)
(* no lock of its own: a request reads the trees it validates against and  *)
(* puts its record in a later transaction, and others run in between.      *)
(***************************************************************************)
EXTENDS Integers, Sequences, FiniteSets, SequencesExt, FiniteSetsExt

CONSTANTS
    IpamBits,       \* width of an address
    SubnetInputs,   \* bodies of subnet requests: [addr, bits, gw, vlan, dhcp, start, end]
    ReserveInputs,  \* bodies of reservation requests: [mac, ip, net]
    AddressRows,    \* address rows of an import: [ip, net, state, mac]
    LeaseInputs,    \* what the DHCP server and the sweeper store: [ip, mac, state, net]
    LeaseRows,      \* lease rows of an import, likewise
    NMacs,          \* MAC addresses are 1..NMacs
    PlanSizes,      \* numbers of addresses asked of plan_subnet
    IpamCallers,    \* concurrent requests
    IpamMaxFill,    \* the limit of 4096 addresses ListAddresses fills in
    IpamStarts      \* bound: starts of the process

NoNet == [addr |-> -1, bits |-> -1]     \* the empty CIDR text
NoAddr == -1                            \* the empty address text
NoMac == 0                              \* the empty MAC text
NoRec == [net |-> NoNet, state |-> "none", mac |-> NoMac]

\* 1 << n
Pow2[n \in Nat] == IF n = 0 THEN 1 ELSE 2 * Pow2[n - 1]

Addrs == 0..(Pow2[IpamBits] - 1)
IPStates == {"available", "dhcp", "reserved", "conflict", "quarantined"}

VARIABLES
    subnets,    \* tree subnets: masked CIDR -> [dhcp, start, end]
    resv,       \* tree reservations: MAC -> [ip, net]
    addrs,      \* tree addresses: IP -> record
    leases,     \* the lease store, by IP (its own model is DHCPv4)
    calls,      \* where each request stands
    mode,       \* what the process does: import (monsoon -migrate) or serve
    starts,     \* environment: starts so far
    racedNets,  \* history: subnets put after another subnet was put behind their validation
    racedRes,   \* history: likewise, MACs of reservations
    dropped     \* history: subnets that were deleted and not stored again

ipamVars == <<subnets, resv, addrs, leases, calls, mode, starts, racedNets, racedRes, dropped>>

Idle == [pc |-> "idle"]

(***************************************************************************)
(* CIDR arithmetic.                                                        *)
(***************************************************************************)

\* AddressCount, for a prefix of p.bits.
AddressCount(p) == Pow2[IpamBits - p.bits]

Masked(p) == [addr |-> p.addr - (p.addr % AddressCount(p)), bits |-> p.bits]

\* netip.Prefix.Contains: p may have host bits set.
PrefixContains(p, a) == Masked(p).addr <= a /\ a < Masked(p).addr + AddressCount(p)

\* Requests are well formed and an import refuses other states.  The subnet a
\* lease names is a text nobody checks: that of the configuration file, with
\* its host bits, or of an imported row.
ASSUME IpamInputsAssumption ==
    /\ IpamBits \in Nat \ {0} /\ NMacs \in Nat /\ IpamMaxFill \in Nat \ {0} /\ IpamStarts \in Nat
    /\ PlanSizes \subseteq Int
    /\ \A i \in SubnetInputs : i.addr \in Addrs /\ i.bits \in 0..IpamBits /\ i.dhcp \in BOOLEAN
    /\ \A i \in ReserveInputs : i.mac \in 1..NMacs /\ i.ip \in Addrs
    /\ \A i \in AddressRows : i.mac \in 0..NMacs /\ i.ip \in Addrs /\ i.state \in IPStates
    /\ \A i \in LeaseInputs \cup LeaseRows : i.mac \in 1..NMacs /\ i.ip \in Addrs

\* Mutant: only the first prefix is asked whether it contains the other.
Overlaps_OneWay(p, q) == PrefixContains(p, q.addr)

Overlaps(p, q) == PrefixContains(p, Masked(q).addr) \/ PrefixContains(q, Masked(p).addr)

ContainsPrefix(parent, child) == parent.bits <= child.bits /\ PrefixContains(parent, Masked(child).addr)

NthAddress(p, n) == IF n < AddressCount(p) THEN Masked(p).addr + n ELSE NoAddr

Nets == DOMAIN subnets

\* The first subnet in the order of the listing that contains ip.
InferSubnet(ip, nets) ==
    LET within == {p \in nets : PrefixContains(p, ip)}
    IN  IF within = {} THEN NoNet
        ELSE CHOOSE p \in within : \A q \in within : p.addr < q.addr \/ (p.addr = q.addr /\ p.bits <= q.bits)

\* The subnet a reservation or an address record is filed under; NoNet: refused.
ResolveNet(ip, net, nets) ==
    IF net = NoNet THEN InferSubnet(ip, nets)
    ELSE IF net \in nets /\ PrefixContains(net, ip) THEN net ELSE NoNet

(***************************************************************************)
(* Requests.                                                               *)
(***************************************************************************)

IpamTypeOK ==
    /\ \A p \in Nets : Masked(p) = p /\ DOMAIN subnets[p] = {"dhcp", "start", "end"}
    /\ DOMAIN resv \subseteq 1..NMacs /\ DOMAIN addrs \subseteq Addrs /\ DOMAIN leases \subseteq Addrs
    /\ \A m \in DOMAIN resv : PrefixContains(resv[m].net, resv[m].ip)
    /\ DOMAIN calls = IpamCallers /\ mode \in {"import", "serve"} /\ starts \in 0..IpamStarts
    /\ racedNets \subseteq Nets /\ racedRes \subseteq DOMAIN resv /\ dropped \cap Nets = {}

IpamInit ==
    /\ subnets = <<>> /\ resv = <<>> /\ addrs = <<>> /\ leases = <<>>
    /\ calls = [r \in IpamCallers |-> Idle]
    /\ mode = "import" /\ starts = 0
    /\ racedNets = {} /\ racedRes = {} /\ dropped = {}

Without(f, x) == [k \in DOMAIN f \ {x} |-> f[k]]
With(f, x, v) == [k \in DOMAIN f \cup {x} |-> IF k = x THEN v ELSE f[k]]

\* The requests at one of pcs have now missed a change to what they read.
Crosses(pcs) ==
    [q \in IpamCallers |-> IF calls[q].pc \in pcs THEN [calls[q] EXCEPT !.crossed = TRUE] ELSE calls[q]]

Releasing == {"relLease", "relDelete", "relRecord"}

\* A request can arrive.
Begins(r) == mode = "serve" /\ calls[r] = Idle

\* What the handler does once its record is stored: REST and MCP append an
\* audit entry, gRPC does not.
AfterPut(via) == IF via = "grpc" THEN Idle ELSE [pc |-> "audit"]

\* validateSubnet on the body of a request.
SubnetBodyOK(i) ==
    /\ i.gw = NoAddr \/ PrefixContains(i, i.gw)
    /\ i.dhcp => i.start \in Addrs /\ i.end \in Addrs /\ PrefixContains(i, i.start) /\ PrefixContains(i, i.end) /\ i.start <= i.end
    /\ i.vlan \in 0..4094

\* ValidateSubnet against the subnets that are listed.
SubnetFits(i, nets) ==
    /\ SubnetBodyOK(i)
    /\ \A p \in nets : p # Masked(i) => ~Overlaps(p, Masked(i))

SubnetOf(i) == [dhcp |-> i.dhcp, start |-> i.start, end |-> i.end]
CidrOf(i) == [addr |-> i.addr, bits |-> i.bits]

\* Mutant: the record is put under the CIDR as it was written.
KeyOf_Raw(i) == CidrOf(i)

KeyOf(i) == Masked(CidrOf(i))

\* UpsertSubnet up to the put, for REST (POST and PUT).
RestUpsertSubnet(r, i) ==
    /\ Begins(r)
    /\ SubnetFits(i, Nets)
    /\ calls' = [calls EXCEPT ![r] = [pc |-> "putSubnet", via |-> "rest", in |-> i, crossed |-> FALSE]]
    /\ UNCHANGED <<subnets, resv, addrs, leases, mode, starts, racedNets, racedRes, dropped>>

\* The same for the gRPC methods CreateSubnet and UpdateSubnet.
GrpcUpsertSubnet(r, i) ==
    /\ Begins(r)
    /\ SubnetFits(i, Nets)
    /\ calls' = [calls EXCEPT ![r] = [pc |-> "putSubnet", via |-> "grpc", in |-> i, crossed |-> FALSE]]
    /\ UNCHANGED <<subnets, resv, addrs, leases, mode, starts, racedNets, racedRes, dropped>>

\* The put of UpsertSubnet and the rest of the handler up to its audit entry.
SubnetPut(r) ==
    LET c == calls[r]
        p == KeyOf(c.in)
    IN  /\ c.pc = "putSubnet"
        /\ subnets' = With(subnets, p, SubnetOf(c.in))
        /\ racedNets' = IF c.crossed THEN racedNets \cup {p} ELSE racedNets \ {p}
        /\ dropped' = dropped \ {p}
        /\ calls' = [Crosses({"putSubnet"}) EXCEPT ![r] = AfterPut(c.via)]
        /\ UNCHANGED <<resv, addrs, leases, mode, starts, racedRes>>

\* DeleteSubnet: reservations and records filed under it stay.
DeleteSubnet(r, via, net) ==
    /\ Begins(r)
    /\ net \in Nets
    /\ subnets' = Without(subnets, net)
    /\ racedNets' = racedNets \ {net}
    /\ dropped' = dropped \cup {net}
    /\ calls' = [calls EXCEPT ![r] = AfterPut(via)]
    /\ UNCHANGED <<resv, addrs, leases, mode, starts, racedRes>>

\* ValidateReservation: the subnets are listed.
RestUpsertReservation(r, i) ==
    LET net == ResolveNet(i.ip, i.net, Nets)
    IN  /\ Begins(r)
        /\ net # NoNet
        /\ calls' = [calls EXCEPT ![r] = [pc |-> "taken", via |-> "rest", mac |-> i.mac, ip |-> i.ip, net |-> net]]
        /\ UNCHANGED <<subnets, resv, addrs, leases, mode, starts, racedNets, racedRes, dropped>>

\* The same for the gRPC method ReserveAddress.
GrpcReserveAddress(r, i) ==
    LET net == ResolveNet(i.ip, i.net, Nets)
    IN  /\ Begins(r)
        /\ net # NoNet
        /\ calls' = [calls EXCEPT ![r] = [pc |-> "taken", via |-> "grpc", mac |-> i.mac, ip |-> i.ip, net |-> net]]
        /\ UNCHANGED <<subnets, resv, addrs, leases, mode, starts, racedNets, racedRes, dropped>>

\* POST leases/{ip}/reservation: the lease is read, then UpsertReservation.
ReserveLease(r, ip) ==
    /\ Begins(r)
    /\ ip \in DOMAIN leases
    /\ LET l == leases[ip]
           net == ResolveNet(ip, l.net, Nets)
       IN  /\ net # NoNet
           /\ calls' = [calls EXCEPT ![r] = [pc |-> "taken", via |-> "rest", mac |-> l.mac, ip |-> ip, net |-> net]]
    /\ UNCHANGED <<subnets, resv, addrs, leases, mode, starts, racedNets, racedRes, dropped>>

ReservedByOther(mac, ip) == \E m \in DOMAIN resv \ {mac} : resv[m].ip = ip

\* ValidateReservation: the reservations are listed.
ReservationCheck(r) ==
    LET c == calls[r]
    IN  /\ c.pc = "taken"
        /\ calls' = [calls EXCEPT ![r] =
                IF ReservedByOther(c.mac, c.ip) THEN Idle
                ELSE [pc |-> "putReservation", via |-> c.via, mac |-> c.mac, ip |-> c.ip, net |-> c.net, crossed |-> FALSE]]
        /\ UNCHANGED <<subnets, resv, addrs, leases, mode, starts, racedNets, racedRes, dropped>>

\* UpsertReservation's put.
ReservationPut(r) ==
    LET c == calls[r]
    IN  /\ c.pc = "putReservation"
        /\ resv' = With(resv, c.mac, [ip |-> c.ip, net |-> c.net])
        /\ racedRes' = IF c.crossed THEN racedRes \cup {c.mac} ELSE racedRes \ {c.mac}
        /\ calls' = [Crosses(Releasing \cup {"putReservation"}) EXCEPT ![r] = AfterPut(c.via)]
        /\ UNCHANGED <<subnets, addrs, leases, mode, starts, racedNets, dropped>>

\* DELETE reservations.
DeleteReservation(r, mac) ==
    /\ Begins(r)
    /\ mac \in DOMAIN resv
    /\ resv' = Without(resv, mac)
    /\ racedRes' = racedRes \ {mac}
    /\ calls' = [Crosses(Releasing) EXCEPT ![r] = AfterPut("rest")]
    /\ UNCHANGED <<subnets, addrs, leases, mode, starts, racedNets, dropped>>

\* logAuditEntry at the end of a REST or MCP handler.
AuditEntry(r) ==
    /\ calls[r].pc = "audit"
    /\ calls' = [calls EXCEPT ![r] = Idle]
    /\ UNCHANGED <<subnets, resv, addrs, leases, mode, starts, racedNets, racedRes, dropped>>

(***************************************************************************)
(* Address records merged from the three trees.                            *)
(***************************************************************************)

\* Mutant: the ranks of reserved and available are swapped.
RankState_Swapped(s) ==
    CASE s = "conflict" -> 5 [] s = "dhcp" -> 4 [] s = "quarantined" -> 3 [] s = "reserved" -> 1 [] OTHER -> 2

RankState(s) ==
    CASE s = "conflict" -> 5 [] s = "dhcp" -> 4 [] s = "quarantined" -> 3 [] s = "reserved" -> 2 [] OTHER -> 1

LeaseToIPState(s) ==
    CASE s = "declined" -> "conflict"
      [] s \in {"quarantined", "expired", "released"} -> "quarantined"
      [] OTHER -> "dhcp"

\* Mutant: records that name different MACs do not conflict.
MergeRecord_Blind(cur, next) ==
    IF cur = NoRec THEN next
    ELSE [net |-> IF cur.net = NoNet THEN next.net ELSE cur.net,
          mac |-> IF cur.mac = NoMac THEN next.mac ELSE cur.mac,
          state |-> IF RankState(next.state) > RankState(cur.state) THEN next.state ELSE cur.state]

\* mergeAddressRecord; the first MAC and the first subnet named are kept.
MergeRecord(cur, next) ==
    LET mac == IF cur.mac = NoMac THEN next.mac ELSE cur.mac
    IN  IF cur = NoRec THEN next
        ELSE [net |-> IF cur.net = NoNet THEN next.net ELSE cur.net,
              mac |-> mac,
              state |-> IF mac # NoMac /\ next.mac # NoMac /\ mac # next.mac THEN "conflict"
                        ELSE IF RankState(next.state) > RankState(cur.state) THEN next.state ELSE cur.state]

StoredRecords(ip) == IF ip \in DOMAIN addrs THEN <<addrs[ip]>> ELSE <<>>

\* The reservations of ip in the order of ListReservations, by MAC.
ReservedRecords(ip) ==
    LET macs == {m \in DOMAIN resv : resv[m].ip = ip}
        nth(k) == CHOOSE m \in macs : Cardinality({n \in macs : n < m}) = k - 1
    IN  [k \in 1..Cardinality(macs) |-> [net |-> resv[nth(k)].net, state |-> "reserved", mac |-> nth(k)]]

\* The subnet the lease of ip is listed under.
LeaseNet(ip) == IF leases[ip].net = NoNet THEN InferSubnet(ip, Nets) ELSE leases[ip].net

LeaseRecords(ip) ==
    IF ip \notin DOMAIN leases THEN <<>>
    ELSE <<[net |-> LeaseNet(ip), state |-> LeaseToIPState(leases[ip].state), mac |-> leases[ip].mac]>>

\* The records of ip in the order in which they are merged.
RecordsOf(ip) == StoredRecords(ip) \o ReservedRecords(ip) \o LeaseRecords(ip)

Merge(cur, recs) == FoldLeft(MergeRecord, cur, recs)

\* GetAddress.
GetAddress(ip) ==
    LET rec == Merge(NoRec, RecordsOf(ip))
        net == InferSubnet(ip, Nets)
    IN  IF rec = NoRec /\ net # NoNet THEN [net |-> net, state |-> "available", mac |-> NoMac] ELSE rec

\* The addresses of the pool that ListAddresses fills in.
PoolFill(net) ==
    LET s == subnets[net]
    IN  IF s.dhcp THEN {a \in Addrs : s.start <= a /\ a <= s.end /\ a < s.start + IpamMaxFill} ELSE {}

\* The loops of ListAddresses: records of other subnets are skipped.
MergeOf(net, recs) == FoldLeft(LAMBDA cur, x : IF x.net = net THEN MergeRecord(cur, x) ELSE cur, NoRec, recs)

\* ListAddresses with a subnet filter; NoRec: not listed.
ListAddresses(net) ==
    LET listed(rec, ip) ==
            IF rec = NoRec /\ ip \in PoolFill(net) THEN [net |-> net, state |-> "available", mac |-> NoMac] ELSE rec
    IN  [ip \in Addrs |-> listed(MergeOf(net, RecordsOf(ip)), ip)]

\* The gRPC method NextAvailable and the MCP tool find_available_ip.
NextAvailable(list) ==
    LET free == {a \in Addrs : list[a].state = "available"}
    IN  IF free = {} THEN NoAddr ELSE Min(free)

\* computeUtilization of the MCP tools: the capacity left in a pool.
CapacityAvailable(s, list) ==
    LET used == {a \in s.start..s.end : list[a].state \notin {"none", "available"}}
        left == (s.end - s.start + 1) - Cardinality(used)
    IN  IF left < 0 THEN 0 ELSE left

(***************************************************************************)
(* Subnet planning (MCP plan_subnet).                                      *)
(***************************************************************************)

UsableHosts(p) == IF AddressCount(p) <= 2 THEN 0 ELSE AddressCount(p) - 2

\* smallestIPv4Prefix: the longest prefix, of at least two host bits, that is
\* large enough; -1 when there is none.
SmallestPrefix(required) ==
    LET fit == {b \in 1..(IpamBits - 2) : UsableHosts([addr |-> 0, bits |-> b]) >= required}
    IN  IF required <= 0 \/ fit = {} THEN -1 ELSE Max(fit)

\* Mutant: a block is free when no subnet starts in it.
CandidatePrefix_Starts(parent, bits) ==
    LET size == Pow2[IpamBits - bits]
        blocks == {[addr |-> NthAddress(parent, k * size), bits |-> bits] : k \in 0..(AddressCount(parent) \div size - 1)}
        free == {b \in blocks : ContainsPrefix(parent, b) /\ \A p \in Nets : ~PrefixContains(b, p.addr)}
    IN  IF free = {} THEN NoNet ELSE CHOOSE b \in free : \A c \in free : b.addr <= c.addr

\* findCandidatePrefix: the first aligned block of the parent that is free.
CandidatePrefix(parent, bits) ==
    LET size == Pow2[IpamBits - bits]
        blocks == {[addr |-> NthAddress(parent, k * size), bits |-> bits] : k \in 0..(AddressCount(parent) \div size - 1)}
        free == {b \in blocks : ContainsPrefix(parent, b) /\ \A p \in Nets : ~Overlaps(b, p)}
    IN  IF free = {} THEN NoNet ELSE CHOOSE b \in free : \A c \in free : b.addr <= c.addr

\* defaultPlanAddresses: the gateway and the pool proposed for a block.
PlanAddresses(p) ==
    LET last == NthAddress(p, AddressCount(p) - 2)
        start == NthAddress(p, IF UsableHosts(p) <= 20 THEN 2 ELSE 10)
        gw == NthAddress(p, 1)
    IN  [gw |-> gw, end |-> last, start |-> IF start = NoAddr \/ last < start THEN gw + 1 ELSE start]

\* plan_subnet as the body of the create_subnet request that follows it.
PlanSubnet(parent, required) ==
    LET bits == SmallestPrefix(required)
        p == CandidatePrefix(parent, bits)
        a == PlanAddresses(p)
    IN  IF bits < parent.bits \/ p = NoNet THEN {}
        ELSE {[addr |-> p.addr, bits |-> p.bits, gw |-> a.gw, vlan |-> 0, dhcp |-> TRUE, start |-> a.start, end |-> a.end]}

\* The MCP tool create_subnet, called with an earlier plan.
McpCreateSubnet(r, parent, required) ==
    /\ Begins(r)
    /\ \E i \in PlanSubnet(parent, required) :
          /\ SubnetFits(i, Nets)
          /\ calls' = [calls EXCEPT ![r] = [pc |-> "putSubnet", via |-> "mcp", in |-> i, crossed |-> FALSE]]
    /\ UNCHANGED <<subnets, resv, addrs, leases, mode, starts, racedNets, racedRes, dropped>>

(***************************************************************************)
(* gRPC ReleaseAddress: GetAddress reads the trees one after the other,    *)
(* then the reservation of the MAC it found and the record are deleted.    *)
(***************************************************************************)

ReleaseRead(r, ip) ==
    /\ Begins(r)
    /\ calls' = [calls EXCEPT ![r] =
          [pc |-> "relLease", ip |-> ip, rec |-> Merge(NoRec, StoredRecords(ip) \o ReservedRecords(ip)), crossed |-> FALSE]]
    /\ UNCHANGED <<subnets, resv, addrs, leases, mode, starts, racedNets, racedRes, dropped>>

ReleaseReadLease(r) ==
    LET c == calls[r]
        rec == Merge(c.rec, LeaseRecords(c.ip))
    IN  /\ c.pc = "relLease"
        /\ calls' = [calls EXCEPT ![r] =
              IF rec = NoRec /\ InferSubnet(c.ip, Nets) = NoNet THEN Idle
              ELSE [pc |-> "relDelete", ip |-> c.ip, rec |-> rec, crossed |-> c.crossed]]
        /\ UNCHANGED <<subnets, resv, addrs, leases, mode, starts, racedNets, racedRes, dropped>>

ReleaseReservation(r) ==
    LET c == calls[r]
    IN  /\ c.pc = "relDelete"
        /\ resv' = Without(resv, c.rec.mac)
        /\ racedRes' = racedRes \ {c.rec.mac}
        /\ calls' = [Crosses(Releasing) EXCEPT ![r] = [c EXCEPT !.pc = "relRecord"]]
        /\ UNCHANGED <<subnets, addrs, leases, mode, starts, racedNets, dropped>>

ReleaseRecord(r) ==
    LET c == calls[r]
    IN  /\ c.pc = "relRecord"
        /\ addrs' = Without(addrs, c.ip)
        /\ calls' = [calls EXCEPT ![r] = Idle]
        /\ UNCHANGED <<subnets, resv, leases, mode, starts, racedNets, racedRes, dropped>>

(***************************************************************************)
(* Environment, restart and import.                                        *)
(***************************************************************************)

\* The DHCP server and the sweeper change a lease (external to this module).
LeaseChanges(l) ==
    /\ mode = "serve"
    /\ leases' = With(leases, l.ip, [mac |-> l.mac, state |-> l.state, net |-> l.net])
    /\ calls' = Crosses(Releasing)
    /\ UNCHANGED <<subnets, resv, addrs, mode, starts, racedNets, racedRes, dropped>>

\* SeedFromConfig looks the subnet up under the text of the file and puts it
\* under the masked CIDR.
SeedFromConfig(i) ==
    IF CidrOf(i) \in Nets THEN subnets ELSE With(subnets, KeyOf(i), SubnetOf(i))

\* The process starts, with subnet i in its configuration file (a subnet that
\* does not fit ends it again): requests are gone, the trees are kept.
IpamStart(i) ==
    /\ starts < IpamStarts /\ starts' = starts + 1
    /\ mode' \in {"import", "serve"}
    /\ CidrOf(i) \in Nets \/ SubnetFits(i, Nets)
    /\ subnets' = SeedFromConfig(i)
    /\ calls' = [r \in IpamCallers |-> Idle]
    /\ racedNets' = IF subnets' = subnets THEN racedNets ELSE racedNets \ {KeyOf(i)}
    /\ dropped' = dropped \ DOMAIN subnets'
    /\ UNCHANGED <<resv, addrs, leases, racedRes>>

\* importSubnetRow; skip is the conflict policy.
ImportSubnet(i, skip) ==
    /\ mode = "import"
    /\ ~(skip /\ CidrOf(i) \in Nets)
    /\ SubnetFits(i, Nets)
    /\ subnets' = With(subnets, KeyOf(i), SubnetOf(i))
    /\ dropped' = dropped \ {KeyOf(i)}
    /\ UNCHANGED <<resv, addrs, leases, calls, mode, starts, racedNets, racedRes>>

\* importAddressRow.
ImportAddress(row, skip) ==
    LET net == ResolveNet(row.ip, row.net, Nets)
    IN  /\ mode = "import"
        /\ ~(skip /\ row.ip \in DOMAIN addrs)
        /\ net # NoNet
        /\ addrs' = With(addrs, row.ip, [net |-> net, state |-> row.state, mac |-> row.mac])
        /\ UNCHANGED <<subnets, resv, leases, calls, mode, starts, racedNets, racedRes, dropped>>

\* importReservationRow.
ImportReservation(i, skip) ==
    LET net == ResolveNet(i.ip, i.net, Nets)
    IN  /\ mode = "import"
        /\ ~(skip /\ i.mac \in DOMAIN resv)
        /\ net # NoNet /\ ~ReservedByOther(i.mac, i.ip)
        /\ resv' = With(resv, i.mac, [ip |-> i.ip, net |-> net])
        /\ UNCHANGED <<subnets, addrs, leases, calls, mode, starts, racedNets, racedRes, dropped>>

\* importLeaseRow, and the leases of the other formats: the subnet is stored as
\* it is written.
ImportLease(row, skip) ==
    /\ mode = "import"
    /\ ~(skip /\ row.ip \in DOMAIN leases)
    /\ leases' = With(leases, row.ip, [mac |-> row.mac, state |-> row.state, net |-> row.net])
    /\ UNCHANGED <<subnets, resv, addrs, calls, mode, starts, racedNets, racedRes, dropped>>

IpamNext ==
    \/ \E r \in IpamCallers :
          \/ \E i \in SubnetInputs : RestUpsertSubnet(r, i) \/ GrpcUpsertSubnet(r, i)
          \/ \E n \in PlanSizes : McpCreateSubnet(r, [addr |-> 0, bits |-> 0], n)
          \/ SubnetPut(r)
          \/ \E via \in {"rest", "grpc"}, p \in Nets : DeleteSubnet(r, via, p)
          \/ \E i \in ReserveInputs : RestUpsertReservation(r, i) \/ GrpcReserveAddress(r, i)
          \/ \E ip \in DOMAIN leases : ReserveLease(r, ip)
          \/ ReservationCheck(r) \/ ReservationPut(r)
          \/ \E m \in DOMAIN resv : DeleteReservation(r, m)
          \/ AuditEntry(r)
          \/ \E i \in ReserveInputs : ReleaseRead(r, i.ip)
          \/ ReleaseReadLease(r) \/ ReleaseReservation(r) \/ ReleaseRecord(r)
    \/ \E l \in LeaseInputs : LeaseChanges(l)
    \/ \E i \in SubnetInputs : IpamStart(i)
    \/ \E skip \in BOOLEAN :
          \/ \E i \in SubnetInputs : ImportSubnet(i, skip)
          \/ \E row \in AddressRows : ImportAddress(row, skip)
          \/ \E i \in ReserveInputs : ImportReservation(i, skip)
          \/ \E row \in LeaseRows : ImportLease(row, skip)

IpamSpec == IpamInit /\ [][IpamNext]_ipamVars

(***************************************************************************)
(* Properties.                                                             *)
(***************************************************************************)

\* Two stored subnets overlap only when one of them was put after another
\* subnet had been put behind its validation: requests that do not overlap in
\* time, restarts with any configuration and imports keep them disjoint.
SubnetsDisjoint ==
    \A p, q \in Nets : p # q /\ Overlaps(p, q) => p \in racedNets \/ q \in racedNets

\* An address is reserved for two clients only when the two requests crossed.
ReservedOnce ==
    \A m, n \in DOMAIN resv : m # n /\ resv[m].ip = resv[n].ip => m \in racedRes \/ n \in racedRes

\* The lease of ip names no stored subnet that contains ip: the text came from
\* an import or a file with host bits, or its subnet is gone.
Misfiled(ip) == leases[ip].net # NoNet /\ ~(leases[ip].net \in Nets /\ PrefixContains(leases[ip].net, ip))

\* An address NextAvailable proposes under net has no stored record of another
\* state and no reservation, unless that is filed under a subnet deleted since,
\* and no lease, unless that is misfiled; or two overlapping subnets raced.
ProposesFree ==
    \A net \in Nets :
        LET ip == NextAvailable(ListAddresses(net))
            raced(n) == {n, net} \cap racedNets # {}
        IN  ip # NoAddr =>
                /\ ip \in DOMAIN addrs /\ addrs[ip].state # "available" =>
                       addrs[ip].net \in dropped \/ raced(addrs[ip].net)
                /\ \A m \in DOMAIN resv : resv[m].ip = ip => resv[m].net \in dropped \/ raced(resv[m].net)
                /\ ip \in DOMAIN leases => Misfiled(ip) \/ raced(LeaseNet(ip))

\* The MCP tools agree: the capacity left in a pool is the number of addresses
\* of it that are listed as available, as far as the listing reaches.
AvailabilityAgrees ==
    \A net \in Nets :
        LET s == subnets[net]
            list == ListAddresses(net)
        IN  s.dhcp /\ s.end - s.start < IpamMaxFill =>
                CapacityAvailable(s, list) = Cardinality({a \in s.start..s.end : list[a].state = "available"})

\* A subnet that plan_subnet proposes passes the validation of create_subnet,
\* and a plan is refused only when no block of that size is free.
PlanAccepted ==
    \A n \in PlanSizes :
        LET plan == PlanSubnet([addr |-> 0, bits |-> 0], n)
            bits == SmallestPrefix(n)
        IN  IF plan = {} THEN bits > 0 => \A a \in Addrs : \E p \in Nets : Overlaps(p, [addr |-> a, bits |-> bits])
            ELSE \A i \in plan : SubnetFits(i, Nets) /\ KeyOf(i) \notin Nets /\ i.gw \notin i.start..i.end

\* An undisturbed ReleaseAddress leaves the address unreserved, unless its
\* lookup had reported a conflict between two clients.
ReleaseFrees ==
    [][\A r \in IpamCallers :
          ReleaseRecord(r) /\ ~calls[r].crossed /\ calls[r].rec.state # "conflict" =>
              \A m \in DOMAIN resv : resv[m].ip # calls[r].ip]_ipamVars

\* A restart changes no subnet that was edited through an interface, unless
\* its CIDR is written with host bits in the file.
RestartKeepsEdits ==
    [][\A i \in SubnetInputs : IpamStart(i) =>
          \A p \in Nets : subnets'[p] = subnets[p] \/ (p = KeyOf(i) /\ CidrOf(i) # p)]_ipamVars

\* Subnets do not overlap and addresses are not reserved twice, but for
\* requests that crossed.
NoDoubleBooking == SubnetsDisjoint /\ ReservedOnce

\* The listing of a subnet is right where the interfaces act on it: what they
\* propose is free, and the capacity they report is what it shows.
ListingRight == ProposesFree /\ AvailabilityAgrees

\* What two steps promise: a release frees its address, a restart keeps the
\* edits.
IpamSteps == ReleaseFrees /\ RestartKeepsEdits
=============================================================================

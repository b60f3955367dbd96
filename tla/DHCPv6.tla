------------------------------- MODULE DHCPv6 -------------------------------
(***************************************************************************)
(* The DHCPv6 server (internal/dhcpv6), the clients it serves and the     *)
(* lease sweeper beside it.  The server is one goroutine: a packet is      *)
(* handled and answered before the next one is read.  It keeps nothing in  *)
(* memory but the pools of the configuration; the leases are in the store, *)
(* whose own steps module DHCPv4 models, so an upsert is one step here.    *)
(*                                                                         *)
(* A client is its DUID.  Relayed messages carry the address of a link     *)
(* (selectPool finds the pool by it), others are served from the first     *)
(* pool.  Replies may get lost; RELEASE and DECLINE may be delayed,        *)
(* duplicated or lost.  Lifetimes are counted in ticks.                    *)
(***************************************************************************)
EXTENDS Naturals, Sequences, FiniteSets, FiniteSetsExt

CONSTANTS
    Duids,              \* clients
    Prefixes6,          \* sequence: the addresses, as numbers, of each pool's prefix
    Ranges6,            \* sequence: pool_start..pool_end of each pool
    LeaseTime6, Quarantine6,
    NoLease6,           \* no record of an address
    MaxTime6            \* bound on the clock

ASSUME DHCPv6Assumption ==
    /\ LeaseTime6 \in Nat \ {0} /\ Quarantine6 \in Nat /\ MaxTime6 \in Nat \ {0}
    /\ Prefixes6 \in Seq(SUBSET Nat) /\ Ranges6 \in Seq(SUBSET Nat)
    /\ Len(Prefixes6) = Len(Ranges6) /\ Len(Prefixes6) > 0
    /\ \A i \in DOMAIN Ranges6 : Ranges6[i] \subseteq Prefixes6[i]

VARIABLES
    now6,       \* the clock
    lease6,     \* address -> lease record or NoLease6
    hold6,      \* client -> address -> end of the lifetime the client was told, 0 if none
    net6,       \* RELEASE and DECLINE messages under way
    sweep6,     \* copies of lapsed leases the sweeper's tick has still to look at
    displaced6  \* addresses whose record was ended while its client used it

v6Vars == <<now6, lease6, hold6, net6, sweep6, displaced6>>

IPs6 == UNION {Prefixes6[i] : i \in DOMAIN Prefixes6}
Pools6 == DOMAIN Prefixes6
States6 == {"offered", "bound", "renewing", "released", "declined", "expired", "quarantined", "free"}
Leases6 == [duid : Duids, state : States6, expiry : Nat, until : Nat]

ASSUME NoLease6Assumption == NoLease6 \notin Leases6

-----------------------------------------------------------------------------
(* PoolManager                                                             *)

\* GetByClientID: the addresses whose record names the client, in any state.
GetByClientID(c) == {ip \in IPs6 : lease6[ip] # NoLease6 /\ lease6[ip].duid = c}

\* selectPool: by the requested address, then by the relay's link, then the first.
selectPool(requested, relay) ==
    LET having(a) == {i \in Pools6 : a \in Prefixes6[i]}
    IN  IF having(requested) # {} THEN Min(having(requested)) ELSE relay

\* Mutant: the address of a client that renews counts as available.
availableForClient_Renewing(ip, c) ==
    \/ lease6[ip] = NoLease6
    \/ lease6[ip].duid = c
    \/ lease6[ip].state \in {"released", "expired", "free", "renewing"}

availableForClient(ip, c) ==
    \/ lease6[ip] = NoLease6
    \/ lease6[ip].duid = c
    \/ lease6[ip].state \in {"released", "expired", "free"}

\* Allocate: an address the client has a record of, the requested one, or the
\* first available one of the range.
Allocate6(c, requested, relay) ==
    LET pool  == selectPool(requested, relay)
        known == GetByClientID(c) \cap Prefixes6[pool]
        free  == {ip \in Ranges6[pool] : availableForClient(ip, c)}
    IN  IF known # {} THEN {Min(known)}
        ELSE IF requested \in Prefixes6[pool] /\ availableForClient(requested, c) THEN {requested}
        ELSE IF free # {} THEN {Min(free)}
        ELSE {}

-----------------------------------------------------------------------------
(* Handler                                                                 *)

NoHold6 == [ip \in IPs6 |-> 0]

V6Init ==
    /\ now6 = 1
    /\ lease6 = [ip \in IPs6 |-> NoLease6]
    /\ hold6 = [c \in Duids |-> NoHold6]
    /\ net6 = {} /\ sweep6 = {} /\ displaced6 = {}

\* buildLeaseRecord
buildLeaseRecord(c, state) ==
    [duid |-> c, state |-> state, expiry |-> now6 + LeaseTime6, until |-> 0]

\* The reply reaches the client, which uses the address from now on, or not.
Replies(c, ip) ==
    hold6' \in {hold6, [hold6 EXCEPT ![c][ip] = now6 + LeaseTime6]}

\* The link a client that starts again does not use any more.
Forgets(c, pool) ==
    hold6' = [hold6 EXCEPT ![c] = [ip \in IPs6 |-> IF ip \in Prefixes6[pool] THEN 0 ELSE @[ip]]]

\* handleSolicit: ADVERTISE leaves an offered record, Rapid Commit a bound one.
HandleSolicit(c, requested, relay) ==
    /\ Forgets(c, selectPool(requested, relay))
    /\ \E ip \in Allocate6(c, requested, relay) :
          lease6' = [lease6 EXCEPT ![ip] = buildLeaseRecord(c, "offered")]
    /\ UNCHANGED <<now6, net6, sweep6, displaced6>>

HandleRapidCommit(c, requested, relay) ==
    /\ \A ip \in Prefixes6[selectPool(requested, relay)] : hold6[c][ip] <= now6
    /\ \E ip \in Allocate6(c, requested, relay) :
          /\ lease6' = [lease6 EXCEPT ![ip] = buildLeaseRecord(c, "bound")]
          /\ Replies(c, ip)
    /\ UNCHANGED <<now6, net6, sweep6, displaced6>>

\* handleRequest; without an address to give it answers NoAddrsAvail.
HandleRequest6(c, requested, relay) ==
    /\ \E ip \in Allocate6(c, requested, relay) :
          /\ lease6' = [lease6 EXCEPT ![ip] = buildLeaseRecord(c, "bound")]
          /\ Replies(c, ip)
    /\ UNCHANGED <<now6, net6, sweep6, displaced6>>

\* leases[0] of the client: the order of the index is that of the addresses.
FirstLease(c) == Min(GetByClientID(c))

\* handleRenew, for RENEW and REBIND.
HandleRenew(c) ==
    /\ \E ip \in IPs6 : hold6[c][ip] > now6
    /\ GetByClientID(c) # {}
    /\ LET ip == FirstLease(c) IN
       /\ lease6' = [lease6 EXCEPT ![ip].state = "renewing", ![ip].expiry = now6 + LeaseTime6]
       /\ Replies(c, ip)
    /\ UNCHANGED <<now6, net6, sweep6, displaced6>>

\* The client stops using its address on a link and says so.
ClientLeaves6(c, kind, pool) ==
    /\ \E ip \in Prefixes6[pool] : hold6[c][ip] > now6
    /\ Forgets(c, pool)
    /\ net6' = net6 \cup {[kind |-> kind, duid |-> c]}
    /\ UNCHANGED <<now6, lease6, sweep6, displaced6>>

Ended6(kind, l) ==
    IF kind = "release" THEN [l EXCEPT !.state = "released", !.expiry = now6]
    ELSE [l EXCEPT !.state = "declined", !.until = now6 + Quarantine6]

\* handleRelease and handleDecline end leases[0] of the client, whichever
\* address the message was about.
HandleLeaves(msg) ==
    /\ net6' \in {net6, net6 \ {msg}}
    /\ IF GetByClientID(msg.duid) = {} THEN UNCHANGED <<lease6, displaced6>>
       ELSE LET ip == FirstLease(msg.duid) IN
            /\ lease6' = [lease6 EXCEPT ![ip] = Ended6(msg.kind, @)]
            /\ displaced6' = IF hold6[msg.duid][ip] > now6 THEN displaced6 \cup {ip}
                             ELSE displaced6
    /\ UNCHANGED <<now6, hold6, sweep6>>

MessageLost6(msg) ==
    /\ net6' = net6 \ {msg}
    /\ UNCHANGED <<now6, lease6, hold6, sweep6, displaced6>>

-----------------------------------------------------------------------------
(* Time and the sweeper                                                    *)

\* A client stops using an address when its lifetime ends.
Tick6 ==
    /\ now6 < MaxTime6 /\ now6' = now6 + 1
    /\ hold6' = [c \in Duids |-> [ip \in IPs6 |-> IF hold6[c][ip] > now6' THEN hold6[c][ip] ELSE 0]]
    /\ UNCHANGED <<lease6, net6, sweep6, displaced6>>

\* Sweeper.tick lists the leases whose expiry lies before now.
SweepList6 ==
    /\ sweep6 = {}
    /\ \E ip \in IPs6 : lease6[ip] # NoLease6 /\ lease6[ip].expiry < now6
    /\ sweep6' = {[ip |-> ip, rec |-> lease6[ip], at |-> now6] :
                     ip \in {i \in IPs6 : lease6[i] # NoLease6 /\ lease6[i].expiry < now6}}
    /\ UNCHANGED <<now6, lease6, hold6, net6, displaced6>>

\* The record the tick writes for a copy; declined leases are not looked at.
Swept6(l, at) ==
    CASE l.state \in {"bound", "renewing", "offered"} ->
            [l EXCEPT !.state = "expired", !.until = at + Quarantine6]
      [] l.state = "expired" /\ l.until = 0 ->
            [l EXCEPT !.state = "quarantined", !.until = at + Quarantine6]
      [] l.state \in {"expired", "quarantined"} /\ l.until # 0 /\ at > l.until ->
            [l EXCEPT !.state = "free"]
      [] OTHER -> l

\* Upsert of one copy, whatever was written to the address since.
SweepOne6(b) ==
    /\ sweep6' = sweep6 \ {b}
    /\ IF Swept6(b.rec, b.at) = b.rec THEN UNCHANGED <<lease6, displaced6>>
       ELSE /\ lease6' = [lease6 EXCEPT ![b.ip] = Swept6(b.rec, b.at)]
            /\ displaced6' = IF lease6[b.ip] # b.rec THEN displaced6 \cup {b.ip}
                             ELSE displaced6
    /\ UNCHANGED <<now6, hold6, net6>>

V6Next ==
    \/ \E c \in Duids, requested \in IPs6 \cup {0}, relay \in Pools6 :
          \/ HandleSolicit(c, requested, relay)
          \/ HandleRapidCommit(c, requested, relay)
          \/ HandleRequest6(c, requested, relay)
    \/ \E c \in Duids : HandleRenew(c)
    \/ \E c \in Duids, kind \in {"release", "decline"}, pool \in Pools6 : ClientLeaves6(c, kind, pool)
    \/ \E msg \in net6 : HandleLeaves(msg) \/ MessageLost6(msg)
    \/ Tick6
    \/ SweepList6
    \/ \E b \in sweep6 : SweepOne6(b)

V6Spec == V6Init /\ [][V6Next]_v6Vars

-----------------------------------------------------------------------------
(* Properties                                                              *)

\* Every lease record the handlers and the sweeper write is one of a client
\* with a state of the lease package; clients are told lifetimes that end.
V6TypeOK ==
    /\ \A ip \in IPs6 : lease6[ip] = NoLease6 \/ lease6[ip] \in Leases6
    /\ \A c \in Duids, ip \in IPs6 : hold6[c][ip] \in 0..(MaxTime6 + LeaseTime6)
    /\ displaced6 \subseteq IPs6

\* While a client uses an address, the record of that address is a live lease
\* of this client lasting as long as the client was told, so nobody else is
\* given it: over lost replies, delayed and repeated RELEASE and DECLINE, the
\* sweeper between any two packets, and clients on several links.  Exceptions
\* are the records ended while in use: leases[0] ended for a message about
\* another address or an old one, or overwritten from the sweeper's old copy.
V6HoldBacked ==
    \A c \in Duids, ip \in IPs6 : hold6[c][ip] > now6 /\ ip \notin displaced6 =>
        /\ lease6[ip] # NoLease6 /\ lease6[ip].duid = c
        /\ lease6[ip].state \in {"bound", "renewing"}
        /\ lease6[ip].expiry >= hold6[c][ip]
=============================================================================

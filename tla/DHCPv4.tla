------------------------------- MODULE DHCPv4 -------------------------------
(***************************************************************************)
(* The lease life cycle of the DHCPv4 server: the address pool bitmap and  *)
(* the packet handlers (internal/dhcpv4), the lease store with its indexes *)
(* and the expiry sweeper (internal/lease), and the release request of the *)
(* REST and gRPC interfaces (internal/api).                                *)
(*                                                                         *)
(* Three goroutines write lease records: the packet loop ("server"), the   *)
(* sweeper and an API request.  Each one computes a record, then calls     *)
(* EngineStore.upsert, which reads the old record before it takes the      *)
(* engine lock and then applies its mutations one by one; readers do not   *)
(* wait for that lock.  One pool is modelled; the subnet and client id     *)
(* indexes, which no modelled code reads, are left out.                    *)
(*                                                                         *)
(* WAL.Append writes an entry before it syncs the file: a mutation that    *)
(* fails in Sync is refused to its caller and not applied in memory, yet   *)
(* its entry is in the log, and a restart may replay it.  Such mutations   *)
(* are kept in doubtLeases and doubtIndex until a later mutation of the    *)
(* same key succeeds.  (A torn entry that hides the ones behind it is      *)
(* StorageEngine's subject, `damaged'; here the log stays readable.)       *)
(***************************************************************************)
EXTENDS Integers, Sequences, FiniteSets, FiniteSetsExt

CONSTANTS
    IPs,                \* the addresses of the pool (uint32)
    Scope,              \* the addresses AllocationScope grants this node
    MACs,               \* clients
    Writers,            \* the goroutines at work, of "server", "sweeper", "api"
    LeaseTime,          \* pool.leaseDur
    Quarantine,         \* the sweeper's quarantine
    DeclineQuarantine,  \* the 15 minutes of handleDecline
    Leaving,            \* the messages clients send when they leave, of "release", "decline"
    MaxFaults,          \* bound: failed writes and restarts
    MaxTime             \* bound: the last instant modelled

ASSUME PoolAssumption == IPs \subseteq Nat /\ IsFiniteSet(IPs) /\ Scope \subseteq IPs
ASSUME WritersAssumption == "server" \in Writers /\ Writers \subseteq {"server", "sweeper", "api"}
ASSUME LeavingAssumption == Leaving \subseteq {"release", "decline"}
ASSUME TimeAssumption ==
    /\ LeaseTime \in Nat /\ Quarantine \in Nat /\ DeclineQuarantine \in Nat
    /\ MaxTime \in Nat /\ MaxFaults \in Nat

Zero == 0    \* the zero time.Time
States == {"free", "offered", "bound", "renewing", "released", "declined", "quarantined", "expired"}
Leases == [mac : MACs, state : States, expiry : Nat, until : Nat]
NoLease == [state |-> "none"]

VARIABLES
    now,        \* wall clock, seconds
    lease,      \* tree "leases"
    byMAC,      \* tree "leases_by_mac": <<mac, ip>>
    byExpiry,   \* tree "leases_by_expiry": <<expiry, ip>>
    doubtLeases, \* records a restart may bring back: <<ip, record>>
    doubtIndex, \* index mutations a restart may carry out: <<mutation, ip>>
    used,       \* the bits set in pool.bitmap
    job,        \* [Writers -> the upsert a goroutine has under way]
    tx,         \* the mutations the holder of the engine lock has still to apply
    sweep,      \* the sweeper's tick: its time, entries to fetch, leases to examine
    hold,       \* environment: the address each client uses, and until when
    faults,     \* environment: failed writes and restarts so far
    net,        \* environment: RELEASE and DECLINE messages under way
    displaced,  \* history: addresses released or declined in use, overwritten from an outdated copy,
                \* or taken from their user when a restart replayed a write that had failed
    orphaned,   \* history: addresses whose old index entries may not have been removed
    half        \* history: addresses whose last transaction was cut short, or whose record a
                \* restart replaced by one with other keys

storeVars == <<lease, byMAC, byExpiry, doubtLeases, doubtIndex>>
envVars == <<hold, net, faults>>
ghostVars == <<displaced, orphaned, half>>
vars == <<now, storeVars, used, job, tx, sweep, envVars, ghostVars>>

NoJob == [kind |-> "none"]
NoTx == [by |-> "nobody"]
NoSweep == [at |-> Zero, scan |-> {}, batch |-> {}]
NoHold == [holds |-> "nothing"]
Messages == [kind : {"release", "decline"}, ip : IPs]
Records == Leases \cup {NoLease}
Mutations == [tree : {"mac"}, put : BOOLEAN, key : MACs] \cup [tree : {"expiry"}, put : BOOLEAN, key : Nat]

TypeOK ==
    /\ now \in Nat
    /\ lease \in [IPs -> Records]
    /\ byMAC \subseteq MACs \X IPs
    /\ byExpiry \subseteq Nat \X IPs
    /\ doubtLeases \subseteq IPs \X Records
    /\ doubtIndex \subseteq Mutations \X IPs
    /\ used \subseteq IPs
    /\ job \in [Writers -> {NoJob} \cup
                [kind : {"offer", "ack", "release", "decline", "sweep", "api"},
                 step : {"read", "commit", "writing"}, ip : IPs, new : Leases,
                 fresh : BOOLEAN, old : {NoLease} \cup [mac : MACs, expiry : Nat]]]
    /\ tx \in {NoTx} \cup [by : Writers, ip : IPs, muts : Seq(Mutations)]
    /\ sweep \in [at : Nat, scan : SUBSET (Nat \X IPs), batch : SUBSET [ip : IPs, rec : Leases]]
    /\ hold \in [MACs -> {NoHold} \cup [ip : IPs, expiry : Nat]]
    /\ net \subseteq Messages /\ faults \in 0..MaxFaults
    /\ displaced \subseteq IPs /\ orphaned \subseteq IPs /\ half \subseteq IPs

Init ==
    /\ now = 1
    /\ lease = [ip \in IPs |-> NoLease]
    /\ byMAC = {} /\ byExpiry = {}
    /\ doubtLeases = {} /\ doubtIndex = {}
    /\ used = {}
    /\ job = [w \in Writers |-> NoJob]
    /\ tx = NoTx
    /\ sweep = NoSweep
    /\ hold = [m \in MACs |-> NoHold] /\ net = {} /\ faults = 0
    /\ displaced = {} /\ orphaned = {} /\ half = {}

Held(ip) == \E m \in MACs : hold[m] # NoHold /\ hold[m].ip = ip

\* A client stops using an address when its lease time is over.
Tick ==
    /\ now < MaxTime
    /\ now' = now + 1
    /\ hold' = [m \in MACs |-> IF hold[m] # NoHold /\ hold[m].expiry >= now' THEN hold[m] ELSE NoHold]
    /\ UNCHANGED <<storeVars, used, job, tx, sweep, net, faults, ghostVars>>

(***************************************************************************)
(* EngineStore.upsert.                                                     *)
(***************************************************************************)
Keyed(l) == IF l = NoLease THEN NoLease ELSE [mac |-> l.mac, expiry |-> l.expiry]

\* fresh: the new record was made from a copy of the record still stored.
StartUpsert(w, kind, ip, fresh, new) ==
    job' = [job EXCEPT ![w] = [kind |-> kind, step |-> "read", ip |-> ip,
                               new |-> new, fresh |-> fresh, old |-> NoLease]]

\* GetByIP, outside the transaction.
UpsertRead(w) ==
    /\ job[w] # NoJob /\ job[w].step = "read"
    /\ job' = [job EXCEPT ![w].old = Keyed(lease[job[w].ip]), ![w].step = "commit"]
    /\ UNCHANGED <<now, storeVars, used, tx, sweep, envVars, ghostVars>>

\* Mutant: the entries of the old record stay.
IndexMutations_AddOnly(old, new) ==
    <<[tree |-> "mac", put |-> TRUE, key |-> new.mac], [tree |-> "expiry", put |-> TRUE, key |-> new.expiry]>>

\* Mutant: the old entries are removed after the new ones were added.
IndexMutations_Swapped(old, new) ==
    LET Entries(l, put) == <<[tree |-> "mac", put |-> put, key |-> l.mac],
                             [tree |-> "expiry", put |-> put, key |-> l.expiry]>>
    IN  Entries(new, TRUE) \o (IF old = NoLease THEN <<>> ELSE Entries(old, FALSE))

\* The mutations behind the Put of the record: removeSecondaryIndexes(old),
\* addSecondaryIndexes(new).
IndexMutations(old, new) ==
    LET Entries(l, put) == <<[tree |-> "mac", put |-> put, key |-> l.mac],
                             [tree |-> "expiry", put |-> put, key |-> l.expiry]>>
    IN  (IF old = NoLease THEN <<>> ELSE Entries(old, FALSE)) \o Entries(new, TRUE)

\* The transaction takes the engine lock and puts the record.
UpsertPut(w) ==
    LET j == job[w] IN
    /\ j # NoJob /\ j.step = "commit"
    /\ tx = NoTx
    /\ lease' = [lease EXCEPT ![j.ip] = j.new]
    /\ doubtLeases' = {d \in doubtLeases : d[1] # j.ip}
    /\ tx' = [by |-> w, ip |-> j.ip, muts |-> IndexMutations(j.old, j.new)]
    /\ job' = [v \in Writers |->
                IF v = w THEN [j EXCEPT !.step = "writing"]
                ELSE IF job[v] # NoJob /\ job[v].ip = j.ip THEN [job[v] EXCEPT !.fresh = FALSE]
                ELSE job[v]]
    /\ displaced' = IF \/ j.kind \in {"release", "decline", "api"} /\ Held(j.ip)
                       \/ j.kind \notin {"offer", "ack"} /\ ~j.fresh
                    THEN displaced \cup {j.ip} ELSE displaced
    /\ orphaned' = IF j.old # Keyed(lease[j.ip]) THEN orphaned \cup {j.ip} ELSE orphaned
    /\ UNCHANGED <<now, byMAC, byExpiry, doubtIndex, used, sweep, envVars, half>>

Update(index, m) == IF m.put THEN index \cup {<<m.key, tx.ip>>} ELSE index \ {<<m.key, tx.ip>>}

UpsertIndex ==
    /\ tx # NoTx /\ tx.muts # <<>>
    /\ LET m == Head(tx.muts) IN
        /\ byMAC' = IF m.tree = "mac" THEN Update(byMAC, m) ELSE byMAC
        /\ byExpiry' = IF m.tree = "expiry" THEN Update(byExpiry, m) ELSE byExpiry
        /\ doubtIndex' = {d \in doubtIndex : ~(d[1].tree = m.tree /\ d[1].key = m.key /\ d[2] = tx.ip)}
    /\ tx' = [tx EXCEPT !.muts = Tail(@)]
    /\ UNCHANGED <<now, lease, doubtLeases, used, job, sweep, envVars, ghostVars>>

\* The transaction ends and the caller goes on: an ACK goes out (and may get
\* lost; the client counts the lease time from its request), handleRelease
\* frees the bit after the upsert.
UpsertDone ==
    /\ tx # NoTx /\ tx.muts = <<>>
    /\ LET j == job[tx.by] IN
        /\ used' = IF j.kind = "release" THEN used \ {tx.ip} ELSE used
        /\ hold' \in {hold} \cup IF j.kind # "ack" \/ j.new.expiry < now THEN {}
                                 ELSE {[hold EXCEPT ![j.new.mac] = [ip |-> tx.ip, expiry |-> j.new.expiry]]}
    /\ half' = half \ {tx.ip}
    /\ job' = [job EXCEPT ![tx.by] = NoJob]
    /\ tx' = NoTx
    /\ UNCHANGED <<now, storeVars, sweep, net, faults, displaced, orphaned>>

\* Upsert returns an error, before or after some of its mutations: no reply,
\* no change of the bitmap.  The mutation that failed may be in the log.
UpsertFail(w) ==
    LET j == job[w] IN
    /\ j # NoJob
    /\ faults < MaxFaults /\ faults' = faults + 1
    /\ \/ /\ j.step \in {"read", "commit"}
          /\ UNCHANGED <<tx, doubtLeases, doubtIndex, orphaned, half>>
       \/ /\ j.step = "commit" /\ tx = NoTx
          /\ doubtLeases' = doubtLeases \cup {<<j.ip, j.new>>}
          /\ UNCHANGED <<tx, doubtIndex, orphaned, half>>
       \/ /\ j.step = "writing" /\ tx.muts # <<>>
          /\ doubtIndex' \in {doubtIndex, doubtIndex \cup {<<Head(tx.muts), tx.ip>>}}
          /\ tx' = NoTx
          /\ orphaned' = orphaned \cup {tx.ip}
          /\ half' = half \cup {tx.ip}
          /\ UNCHANGED doubtLeases
    /\ job' = [job EXCEPT ![w] = NoJob]
    /\ UNCHANGED <<now, lease, byMAC, byExpiry, used, sweep, hold, net, displaced>>

(***************************************************************************)
(* PoolManager.Allocate and the packet handlers, one packet at a time.     *)
(***************************************************************************)
ServerIdle == job["server"] = NoJob

\* The leases GetByMAC finds that Allocate gives back to the client: it
\* compares neither the client's address nor its id with the record.
Reusable(mac) ==
    {ip \in IPs : /\ <<mac, ip>> \in byMAC
                  /\ lease[ip].state \in {"bound", "renewing", "offered"}
                  /\ lease[ip].expiry >= now}

Unused == Scope \ used

\* Mutant: tryAllocateSpecific does not look at the bitmap.
Allocate_IgnoresBitmap(mac, requested) ==
    IF Reusable(mac) # {} THEN Reusable(mac)
    ELSE IF requested \in Scope THEN {requested}
    ELSE IF Unused # {} THEN {Min(Unused)}
    ELSE {}

\* What Allocate may return; the empty set is its error.
Allocate(mac, requested) ==
    IF Reusable(mac) # {} THEN Reusable(mac)
    ELSE IF requested \in Unused THEN {requested}
    ELSE IF Unused # {} THEN {Min(Unused)}
    ELSE {}

NewLease(mac, state) == [mac |-> mac, state |-> state, expiry |-> now + LeaseTime, until |-> Zero]

\* A client that starts again (it uses no address now) broadcasts DISCOVER.
HandleDiscover(mac, requested, rapidCommit) ==
    /\ ServerIdle
    /\ hold' = [hold EXCEPT ![mac] = NoHold]
    /\ IF Allocate(mac, requested) = {}
       THEN UNCHANGED <<used, job>>    \* the error is logged, the client hears nothing
       ELSE \E ip \in Allocate(mac, requested) :
            /\ used' = used \cup {ip}
            /\ IF rapidCommit
               THEN StartUpsert("server", "ack", ip, FALSE, NewLease(mac, "bound"))
               ELSE StartUpsert("server", "offer", ip, FALSE, NewLease(mac, "offered"))
    /\ UNCHANGED <<now, storeVars, tx, sweep, net, faults, ghostVars>>

\* REQUEST, selecting, rebooting or renewing.
HandleRequest(mac, target) ==
    /\ ServerIdle
    /\ hold[mac] # NoHold => target = hold[mac].ip
    /\ IF Allocate(mac, target) = {}
       THEN \* NAK, which may get lost
            /\ hold' \in {hold, [hold EXCEPT ![mac] = NoHold]}
            /\ UNCHANGED <<used, job>>
       ELSE /\ \E ip \in Allocate(mac, target) :
                /\ used' = used \cup {ip}
                /\ StartUpsert("server", "ack", ip, FALSE, NewLease(mac, "bound"))
            /\ UNCHANGED hold
    /\ UNCHANGED <<now, storeVars, tx, sweep, net, faults, ghostVars>>

\* The sender of a RELEASE or DECLINE stops using its address; the message
\* may be delayed, duplicated or lost.
ClientLeaves(mac, kind) ==
    /\ hold[mac] # NoHold
    /\ ~(~ServerIdle /\ job["server"].kind = "ack" /\ job["server"].new.mac = mac)
    /\ net' = net \cup {[kind |-> kind, ip |-> hold[mac].ip]}
    /\ hold' = [hold EXCEPT ![mac] = NoHold]
    /\ UNCHANGED <<now, storeVars, used, job, tx, sweep, faults, ghostVars>>

MessageLost(msg) ==
    /\ net' = net \ {msg}
    /\ UNCHANGED <<now, storeVars, used, job, tx, sweep, hold, faults, ghostVars>>

Released(l) == [l EXCEPT !.state = "released", !.expiry = now]
Declined(l) == [l EXCEPT !.state = "declined", !.until = now + DeclineQuarantine]

\* Both look the record up by address alone.
HandleRelease(ip) ==
    /\ ServerIdle
    /\ [kind |-> "release", ip |-> ip] \in net
    /\ net' \in {net, net \ {[kind |-> "release", ip |-> ip]}}
    /\ IF lease[ip] = NoLease THEN UNCHANGED job
       ELSE StartUpsert("server", "release", ip, TRUE, Released(lease[ip]))
    /\ UNCHANGED <<now, storeVars, used, tx, sweep, hold, faults, ghostVars>>

HandleDecline(ip) ==
    /\ ServerIdle
    /\ [kind |-> "decline", ip |-> ip] \in net
    /\ net' \in {net, net \ {[kind |-> "decline", ip |-> ip]}}
    /\ IF lease[ip] = NoLease THEN UNCHANGED job
       ELSE StartUpsert("server", "decline", ip, TRUE, Declined(lease[ip]))
    /\ UNCHANGED <<now, storeVars, used, tx, sweep, hold, faults, ghostVars>>

\* POST /api/v1/leases/{ip}/release, and ReleaseLease of the gRPC service:
\* the record only, the bitmap is out of their reach.
ApiRelease(ip) ==
    /\ "api" \in Writers
    /\ job["api"] = NoJob
    /\ lease[ip] # NoLease
    /\ StartUpsert("api", "api", ip, TRUE, Released(lease[ip]))
    /\ UNCHANGED <<now, storeVars, used, tx, sweep, envVars, ghostVars>>

(***************************************************************************)
(* Sweeper.tick: list the index entries that have lapsed, fetch each       *)
(* lease, then write back the ones that change.                            *)
(***************************************************************************)
SweepList ==
    /\ "sweeper" \in Writers
    /\ sweep = NoSweep /\ job["sweeper"] = NoJob
    /\ \E e \in byExpiry : e[1] < now
    /\ sweep' = [at |-> now, scan |-> {e \in byExpiry : e[1] < now}, batch |-> {}]
    /\ UNCHANGED <<now, storeVars, used, job, tx, envVars, ghostVars>>

SweepFetch ==
    /\ \E e \in sweep.scan :
        LET ip == e[2] IN
        /\ sweep' = [sweep EXCEPT !.scan = @ \ {e},
                                  !.batch = @ \cup (IF lease[ip] = NoLease THEN {}
                                                    ELSE {[ip |-> ip, rec |-> lease[ip]]})]
        /\ displaced' = IF lease[ip] # NoLease /\ lease[ip].expiry # e[1]
                         THEN displaced \cup {ip} ELSE displaced
    /\ UNCHANGED <<now, storeVars, used, job, tx, envVars, orphaned, half>>

\* Mutant: the end of the quarantine is counted backwards.
Swept_Backwards(l, at) ==
    CASE l.state \in {"bound", "renewing", "offered"} ->
            [l EXCEPT !.state = "expired", !.until = at - 4 * Quarantine]
      [] OTHER -> l

\* The record the tick writes back.  It does not look at the expiry again.
Swept(l, at) ==
    CASE l.state \in {"bound", "renewing", "offered"} ->
            [l EXCEPT !.state = "expired", !.until = at + Quarantine]
      [] l.state = "expired" /\ l.until = Zero ->
            [l EXCEPT !.state = "quarantined", !.until = at + Quarantine]
      [] l.state \in {"expired", "quarantined"} /\ l.until # Zero /\ at > l.until ->
            [l EXCEPT !.state = "free"]
      [] OTHER -> l

SweepExamine ==
    /\ sweep.batch # {} /\ sweep.scan = {}
    /\ job["sweeper"] = NoJob
    /\ \E b \in sweep.batch :
        /\ sweep' = IF sweep.batch = {b} THEN NoSweep ELSE [sweep EXCEPT !.batch = @ \ {b}]
        /\ IF Swept(b.rec, sweep.at) = b.rec THEN UNCHANGED job
           ELSE StartUpsert("sweeper", "sweep", b.ip, b.rec = lease[b.ip], Swept(b.rec, sweep.at))
    /\ UNCHANGED <<now, storeVars, used, tx, envVars, ghostVars>>

\* Mutant: SyncFromLeases forgets the bound leases.
MarkedStates_NoBound == {"renewing", "offered", "quarantined", "declined"}

MarkedStates == {"bound", "renewing", "offered", "quarantined", "declined"}

\* What replay may leave of a record, and of an index: each mutation in doubt
\* is found in the log or is not.
Found(ip) == {lease[ip]} \cup {d[2] : d \in {x \in doubtLeases : x[1] = ip}}

InDoubt(tree, put) == {<<d[1].key, d[2]>> : d \in {x \in doubtIndex : x[1].tree = tree /\ x[1].put = put}}

Replayed(tree, index) ==
    {after \in SUBSET (index \cup InDoubt(tree, TRUE)) : index \ after \subseteq InDoubt(tree, FALSE)}

\* What replay carried out was not synced, and may be gone again next time.
Undoing(tree, before, after) ==
    {<<[tree |-> tree, put |-> TRUE, key |-> e[1]], e[2]>> : e \in before \ after}
    \cup {<<[tree |-> tree, put |-> FALSE, key |-> e[1]], e[2]>> : e \in after \ before}

\* The states of a record no client may rely on.
GivenUp(l) == l.state \in {"released", "declined", "quarantined", "expired", "free"}

\* The process dies and starts again: the log is replayed, and NewPoolManager
\* rebuilds the bitmap from the records (SyncFromLeases).
Restart ==
    /\ faults < MaxFaults /\ faults' = faults + 1
    /\ lease' \in {f \in [IPs -> UNION {Found(ip) : ip \in IPs}] : \A ip \in IPs : f[ip] \in Found(ip)}
    /\ byMAC' \in Replayed("mac", byMAC)
    /\ byExpiry' \in Replayed("expiry", byExpiry)
    /\ doubtLeases' = doubtLeases \cup {<<ip, lease[ip]>> : ip \in {i \in IPs : lease'[i] # lease[i]}}
    /\ doubtIndex' = doubtIndex \cup Undoing("mac", byMAC, byMAC') \cup Undoing("expiry", byExpiry, byExpiry')
    /\ used' = {ip \in IPs : lease'[ip].state \in MarkedStates}
    /\ job' = [w \in Writers |-> NoJob]
    /\ tx' = NoTx
    /\ sweep' = NoSweep
    /\ displaced' = displaced \cup {ip \in IPs : lease'[ip] # lease[ip] /\ GivenUp(lease'[ip]) /\ Held(ip)}
    /\ LET cut == {ip \in IPs : tx # NoTx /\ tx.muts # <<>> /\ tx.ip = ip}
           done == {ip \in IPs : tx # NoTx /\ tx.muts = <<>> /\ tx.ip = ip}
           rekeyed == {ip \in IPs : Keyed(lease'[ip]) # Keyed(lease[ip])}
       IN  /\ orphaned' = orphaned \cup cut \cup rekeyed
           /\ half' = (half \ done) \cup cut \cup rekeyed
    /\ UNCHANGED <<now, hold, net>>

Next ==
    \/ Tick
    \/ \E w \in Writers : UpsertRead(w) \/ UpsertPut(w) \/ UpsertFail(w)
    \/ UpsertIndex \/ UpsertDone
    \/ \E mac \in MACs, ip \in IPs :
          (\E rapidCommit \in BOOLEAN : HandleDiscover(mac, ip, rapidCommit)) \/ HandleRequest(mac, ip)
    \/ \E mac \in MACs, kind \in Leaving : ClientLeaves(mac, kind)
    \/ \E msg \in net : MessageLost(msg)
    \/ \E ip \in IPs : HandleRelease(ip) \/ HandleDecline(ip) \/ ApiRelease(ip)
    \/ SweepList \/ SweepFetch \/ SweepExamine
    \/ Restart

Spec == Init /\ [][Next]_vars

(***************************************************************************)
(* Properties.                                                             *)
(***************************************************************************)

\* An address a client uses is backed: its record is a bound lease of that
\* client that lasts at least as long as the client thinks, and its bit is set,
\* so no one else is offered it (two clients never use one address).  This holds
\* across restarts, failed writes and any schedule of the packet loop, the
\* sweeper and the API, unless the address was released or declined while in
\* use, overwritten from an outdated copy or by a failed write that a restart
\* replayed, or left with a foreign index entry.
HoldBacked ==
    \A m \in MACs : hold[m] # NoHold /\ hold[m].ip \notin displaced \cup orphaned =>
        LET l == lease[hold[m].ip] IN
        /\ l.state = "bound" /\ l.mac = m /\ l.expiry >= hold[m].expiry
        /\ hold[m].ip \in used

\* Whatever upserts interleave, a record is found by GetByMAC and by the sweeper
\* through the entries of its own client and expiry, except while a transaction
\* writes it, and after one that was cut short or a restart that replayed a failed
\* Put of a record with other keys, until the next complete one.
IndexCovers ==
    \A ip \in IPs : lease[ip] # NoLease /\ ip \notin half /\ (tx # NoTx => tx.ip # ip) =>
        <<lease[ip].mac, ip>> \in byMAC /\ <<lease[ip].expiry, ip>> \in byExpiry

\* removeSecondaryIndexes keeps up with the records: an index entry names the
\* client and expiry of the record, unless two upserts of the address overlapped,
\* one was cut short, or a restart replayed the failed Put of one.
IndexExact ==
    \A ip \in IPs : ip \notin orphaned /\ (tx # NoTx => tx.ip # ip) =>
        /\ \A m \in MACs : <<m, ip>> \in byMAC => lease[ip] # NoLease /\ lease[ip].mac = m
        /\ \A e \in byExpiry : e[2] = ip => lease[ip] # NoLease /\ lease[ip].expiry = e[1]

\* (SPECIFICATION 3.1.3: "QUARANTINE (grace period before reuse)")
\* Allocate gives out no address whose expired, declined or quarantined record
\* is still inside its quarantine.  The bit set when the address was given out
\* sees to that, unless the address was displaced; it does not after a restart,
\* nor for a DECLINE that arrives after a RELEASE (handleDecline sets no bit).
QuarantineHonoured ==
    [][LET j == job'["server"] IN
        job["server"] = NoJob /\ j # NoJob /\ j.kind \in {"offer", "ack"} /\ j.ip \notin displaced =>
            (lease[j.ip].state \in {"expired", "declined", "quarantined"} => now > lease[j.ip].until)]_vars

Service == INSTANCE LeaseService WITH
    Clients <- MACs, Addresses <- IPs, Duration <- LeaseTime, Unused <- NoHold,
    time <- now, uses <- hold, void <- displaced \cup orphaned

\* Whatever the bitmap, the records, their indexes and the goroutines that
\* write them do, with restarts, failed writes and messages that are late or
\* come twice: clients see a service that gives an address to one of them at a
\* time and never shortens a lease it extends (handleDiscover, handleRequest,
\* Allocate), for all addresses but the displaced and the orphaned ones.
ImplementsLeaseService == Service!ServiceSpec
=============================================================================

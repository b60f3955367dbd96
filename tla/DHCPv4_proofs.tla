---------------------------- MODULE DHCPv4_proofs ----------------------------
(***************************************************************************)
(* Proofs about DHCPv4, for every pool, set of clients and number of       *)
(* faults, and whichever of the sweeper and the API run beside the packet  *)
(* loop.                                                                   *)
(***************************************************************************)
EXTENDS DHCPv4, SequenceTheorems, WellFoundedInduction, TLAPS

Kinds == {"offer", "ack", "release", "decline", "sweep", "api"}
KeyedLeases == [mac : MACs, expiry : Nat]
Jobs == [kind : Kinds, step : {"read", "commit", "writing"}, ip : IPs, new : Leases,
         fresh : BOOLEAN, old : {NoLease} \cup KeyedLeases]
Holds == [ip : IPs, expiry : Nat]
Txs == [by : Writers, ip : IPs, muts : Seq(Mutations)]

(***************************************************************************)
(* Records that stand for nothing differ from the ones that stand for      *)
(* something.                                                              *)
(***************************************************************************)
LEMMA Distinct ==
    /\ \A j \in Jobs : j # NoJob
    /\ \A l \in Leases : l # NoLease
    /\ \A k \in KeyedLeases : k # NoLease
    /\ \A h \in Holds : h # NoHold
    /\ \A t \in Txs : t # NoTx
  <1>1. \A j \in Jobs : j # NoJob BY DEF Jobs, NoJob, Kinds
  <1>2. \A l \in Leases : l # NoLease BY DEF Leases, NoLease, States
  <1>3. \A k \in KeyedLeases : k # NoLease BY DEF KeyedLeases, NoLease
  <1>4. \A h \in Holds : h # NoHold BY DEF Holds, NoHold
  <1>5. \A t \in Txs : t # NoTx BY WritersAssumption DEF Txs, NoTx
  <1> QED BY <1>1, <1>2, <1>3, <1>4, <1>5

\* The smallest of a set of addresses is one of them.
LEMMA MinIsElement ==
    ASSUME NEW S \in SUBSET Nat, S # {} PROVE Min(S) \in S
  <1>1. PICK x \in S : \A y \in S : <<y, x>> \notin OpToRel(<, Nat)
    BY NatLessThanWellFounded, WFMin
  <1>2. ASSUME NEW y \in S PROVE x <= y
    <2>1. ASSUME y < x PROVE FALSE
      <3>1. <<y, x>> \in Nat \X Nat /\ <<y, x>>[1] < <<y, x>>[2] BY <2>1
      <3>2. <<y, x>> \in OpToRel(<, Nat) BY ONLY <3>1 DEF OpToRel
      <3> QED BY <1>1, <3>2
    <2> QED BY <2>1
  <1> QED BY <1>2 DEF Min

(***************************************************************************)
(* The index mutations of an upsert.  Item(old, new, r) is the one that is *)
(* followed by r - 1 more.                                                 *)
(***************************************************************************)
Item(old, new, r) ==
    IF r = 1 THEN [tree |-> "expiry", put |-> TRUE, key |-> new.expiry]
    ELSE IF r = 2 THEN [tree |-> "mac", put |-> TRUE, key |-> new.mac]
    ELSE IF r = 3 THEN [tree |-> "expiry", put |-> FALSE, key |-> old.expiry]
    ELSE [tree |-> "mac", put |-> FALSE, key |-> old.mac]

Total(old) == IF old = NoLease THEN 2 ELSE 4

LEMMA IndexMutationsShape ==
    ASSUME NEW old \in {NoLease} \cup KeyedLeases, NEW new \in Leases
    PROVE  /\ IndexMutations(old, new) \in Seq(Mutations)
           /\ Len(IndexMutations(old, new)) = Total(old)
           /\ \A i \in 1..Total(old) : IndexMutations(old, new)[i] = Item(old, new, Total(old) + 1 - i)
  <1> DEFINE Puts == <<[tree |-> "mac", put |-> TRUE, key |-> new.mac],
                       [tree |-> "expiry", put |-> TRUE, key |-> new.expiry]>>
             Dels == <<[tree |-> "mac", put |-> FALSE, key |-> old.mac],
                       [tree |-> "expiry", put |-> FALSE, key |-> old.expiry]>>
  <1>1. Puts \in Seq(Mutations) /\ Len(Puts) = 2
        /\ Puts[1] = Item(old, new, 2) /\ Puts[2] = Item(old, new, 1)
    <2>1. new.mac \in MACs /\ new.expiry \in Nat BY DEF Leases
    <2>2. [tree |-> "mac", put |-> TRUE, key |-> new.mac] \in Mutations
          /\ [tree |-> "expiry", put |-> TRUE, key |-> new.expiry] \in Mutations
      BY <2>1 DEF Mutations
    <2> QED BY <2>2 DEF Item
  <1>2. CASE old = NoLease
    <2>1. IndexMutations(old, new) = <<>> \o Puts BY <1>2 DEF IndexMutations
    <2>2. <<>> \o Puts = Puts BY <1>1
    <2> QED BY <1>1, <1>2, <2>1, <2>2 DEF Total
  <1>3. CASE old # NoLease
    <2>1. Dels \in Seq(Mutations) /\ Len(Dels) = 2
          /\ Dels[1] = Item(old, new, 4) /\ Dels[2] = Item(old, new, 3)
      <3>1. old.mac \in MACs /\ old.expiry \in Nat BY <1>3 DEF KeyedLeases
      <3>2. [tree |-> "mac", put |-> FALSE, key |-> old.mac] \in Mutations
            /\ [tree |-> "expiry", put |-> FALSE, key |-> old.expiry] \in Mutations
        BY <3>1 DEF Mutations
      <3> QED BY <3>2 DEF Item
    <2>2. IndexMutations(old, new) = Dels \o Puts BY <1>3 DEF IndexMutations
    <2> HIDE DEF Dels, Puts
    <2>3. /\ Dels \o Puts \in Seq(Mutations) /\ Len(Dels \o Puts) = 4
          /\ \A i \in 1..4 : (Dels \o Puts)[i] = IF i <= 2 THEN Dels[i] ELSE Puts[i - 2]
      BY <1>1, <2>1, ConcatProperties, SMTT(30)
    <2>4. ASSUME NEW i \in 1..4 PROVE (Dels \o Puts)[i] = Item(old, new, 5 - i)
      <3>1. i = 1 \/ i = 2 \/ i = 3 \/ i = 4 OBVIOUS
      <3> QED BY <1>1, <2>1, <2>3, <3>1
    <2>5. Total(old) = 4 BY <1>3 DEF Total
    <2> QED BY <2>2, <2>3, <2>4, <2>5
  <1> QED BY <1>2, <1>3

(***************************************************************************)
(* Type correctness.                                                       *)
(***************************************************************************)
\* The type invariant in terms of the sets of this module.
Types ==
    /\ now \in Nat
    /\ lease \in [IPs -> Leases \cup {NoLease}]
    /\ byMAC \subseteq MACs \X IPs /\ byExpiry \subseteq Nat \X IPs
    /\ doubtLeases \subseteq IPs \X (Leases \cup {NoLease}) /\ doubtIndex \subseteq Mutations \X IPs
    /\ used \subseteq IPs
    /\ job \in [Writers -> {NoJob} \cup Jobs]
    /\ tx \in {NoTx} \cup Txs
    /\ sweep \in [at : Nat, scan : SUBSET (Nat \X IPs), batch : SUBSET [ip : IPs, rec : Leases]]
    /\ hold \in [MACs -> {NoHold} \cup Holds]
    /\ net \subseteq Messages /\ faults \in 0..MaxFaults
    /\ displaced \subseteq IPs /\ orphaned \subseteq IPs /\ half \subseteq IPs

LEMMA TypesSuffice == Types => TypeOK
  BY DEF Types, TypeOK, Jobs, Kinds, KeyedLeases, Txs, Holds, Records

LEMMA TypeFacts ==
    ASSUME Types
    PROVE  /\ \A w \in Writers : job[w] # NoJob => job[w] \in Jobs
           /\ tx # NoTx => tx \in Txs
           /\ \A ip \in IPs : lease[ip] # NoLease => lease[ip] \in Leases
           /\ \A m \in MACs : hold[m] # NoHold => hold[m] \in Holds
  BY DEF Types

LEMMA NewLeaseTypes ==
    ASSUME Types
    PROVE  /\ \A m \in MACs, s \in States : NewLease(m, s) \in Leases
           /\ \A l \in Leases : /\ Released(l) \in Leases /\ Released(l).mac = l.mac
                                /\ Declined(l) \in Leases /\ Declined(l).mac = l.mac
  <1>1. now \in Nat /\ now + LeaseTime \in Nat /\ now + DeclineQuarantine \in Nat
    BY TimeAssumption DEF Types
  <1> QED BY <1>1 DEF NewLease, Released, Declined, Leases, States, Zero

\* The sweeper changes neither the client nor the expiry of a record.
LEMMA SweptKeeps ==
    ASSUME NEW l \in Leases, NEW at \in Nat
    PROVE  /\ Swept(l, at) \in Leases
           /\ Swept(l, at).mac = l.mac /\ Swept(l, at).expiry = l.expiry
  <1>1. at + Quarantine \in Nat BY TimeAssumption
  <1>2. "expired" \in States /\ "quarantined" \in States /\ "free" \in States BY DEF States
  <1>3. \/ Swept(l, at) = l
        \/ \E s \in States, u \in Nat : Swept(l, at) = [l EXCEPT !.state = s, !.until = u]
        \/ Swept(l, at) = [l EXCEPT !.state = "free"]
    BY <1>1, <1>2, Zenon DEF Swept
  <1> QED BY <1>2, <1>3 DEF Leases

LEMMA StartType ==
    ASSUME Types, NEW w \in Writers, NEW kind \in Kinds, NEW ip \in IPs, NEW fresh \in BOOLEAN,
           NEW new \in Leases, StartUpsert(w, kind, ip, fresh, new)
    PROVE  job' \in [Writers -> {NoJob} \cup Jobs]
  <1>1. [kind |-> kind, step |-> "read", ip |-> ip, new |-> new, fresh |-> fresh, old |-> NoLease]
            \in Jobs
    BY DEF Jobs
  <1> QED BY <1>1 DEF StartUpsert, Types

\* The goroutine that writes is the one that holds the engine lock, and the
\* record it put is there until it lets go.
LockOK ==
    /\ \A w \in Writers : job[w] # NoJob /\ job[w].step = "writing" => tx # NoTx /\ tx.by = w
    /\ tx # NoTx => /\ job[tx.by] # NoJob /\ job[tx.by].step = "writing" /\ job[tx.by].ip = tx.ip
                    /\ lease[tx.ip] = job[tx.by].new

\* Only a sweeper that runs has a tick under way.
SweeperOK == sweep.scan # {} \/ sweep.batch # {} => "sweeper" \in Writers

\* What Allocate returns is an address of the pool: one that GetByMAC found, or
\* one of this node's scope whose bit is not set.
LEMMA AllocateFacts ==
    ASSUME Types, NEW mac \in MACs, NEW requested \in IPs, NEW ip \in Allocate(mac, requested)
    PROVE  /\ ip \in IPs
           /\ ip \in Reusable(mac) \/ ip \notin used
  <1>1. Unused \subseteq Nat /\ Unused \subseteq IPs BY PoolAssumption DEF Unused
  <1>2. Unused # {} => Min(Unused) \in Unused BY <1>1, MinIsElement
  <1> QED BY <1>1, <1>2 DEF Allocate, Reusable, Unused

LEMMA TypesInit == Init => Types
  <1> SUFFICES ASSUME Init PROVE Types OBVIOUS
  <1>1. /\ lease \in [IPs -> Leases \cup {NoLease}] /\ job \in [Writers -> {NoJob} \cup Jobs]
        /\ hold \in [MACs -> {NoHold} \cup Holds]
    BY DEF Init
  <1>2. sweep \in [at : Nat, scan : SUBSET (Nat \X IPs), batch : SUBSET [ip : IPs, rec : Leases]]
    BY DEF Init, NoSweep, Zero
  <1> QED BY <1>1, <1>2, TimeAssumption DEF Init, Types

LEMMA TypesUpsert ==
    ASSUME Types, LockOK, NEW w \in Writers, UpsertRead(w) \/ UpsertPut(w) \/ UpsertFail(w)
    PROVE  Types'
  <1> USE DEF storeVars, envVars, ghostVars
  <1>1. CASE UpsertRead(w)
    <2>1. job[w] \in Jobs BY <1>1, TypeFacts DEF UpsertRead
    <2>2. job[w].ip \in IPs BY <2>1 DEF Jobs
    <2>3. Keyed(lease[job[w].ip]) \in {NoLease} \cup KeyedLeases
      BY <2>2, TypeFacts DEF Keyed, Leases, KeyedLeases
    <2>4. [job[w] EXCEPT !.old = Keyed(lease[job[w].ip]), !.step = "commit"] \in Jobs
      BY <2>1, <2>3 DEF Jobs
    <2>5. job' \in [Writers -> {NoJob} \cup Jobs] BY <1>1, <2>4 DEF UpsertRead, Types
    <2> QED BY <1>1, <2>5 DEF UpsertRead, Types
  <1>2. CASE UpsertPut(w)
    <2>1. job[w] \in Jobs BY <1>2, TypeFacts DEF UpsertPut
    <2>2. job[w].ip \in IPs /\ job[w].new \in Leases /\ job[w].old \in {NoLease} \cup KeyedLeases
      BY <2>1 DEF Jobs
    <2>3. tx' \in Txs BY <1>2, <2>2, IndexMutationsShape DEF UpsertPut, Txs
    <2>4. [job[w] EXCEPT !.step = "writing"] \in Jobs BY <2>1 DEF Jobs
    <2>5. \A v \in Writers : job[v] # NoJob => [job[v] EXCEPT !.fresh = FALSE] \in Jobs
      BY TypeFacts DEF Jobs
    <2>6. job' \in [Writers -> {NoJob} \cup Jobs] BY <1>2, <2>4, <2>5 DEF UpsertPut, Types
    <2>7. lease' \in [IPs -> Leases \cup {NoLease}] BY <1>2, <2>2 DEF UpsertPut, Types
    <2>9. doubtLeases' \subseteq doubtLeases BY <1>2 DEF UpsertPut
    <2>8. displaced' \subseteq IPs /\ orphaned' \subseteq IPs BY <1>2, <2>2 DEF UpsertPut, Types
    <2> QED BY <1>2, <2>3, <2>6, <2>7, <2>8, <2>9 DEF UpsertPut, Types
  <1>3. CASE UpsertFail(w)
    <2>1. faults' \in 0..MaxFaults BY <1>3, TimeAssumption DEF UpsertFail, Types
    <2>2. job' \in [Writers -> {NoJob} \cup Jobs] BY <1>3 DEF UpsertFail, Types
    <2>3. tx = NoTx \/ tx.ip \in IPs BY TypeFacts DEF Txs
    <2>4. CASE /\ UNCHANGED <<tx, doubtIndex, orphaned, half>>
               /\ doubtLeases' = doubtLeases \/ doubtLeases' = doubtLeases \cup {<<job[w].ip, job[w].new>>}
      <3>1. job[w] \in Jobs BY <1>3, TypeFacts DEF UpsertFail
      <3>2. <<job[w].ip, job[w].new>> \in IPs \X (Leases \cup {NoLease}) BY <3>1 DEF Jobs
      <3> QED BY <1>3, <2>1, <2>2, <2>4, <3>2 DEF UpsertFail, Types
    <2>5. CASE /\ job[w].step = "writing" /\ tx.muts # <<>> /\ tx' = NoTx
               /\ doubtIndex' \in {doubtIndex, doubtIndex \cup {<<Head(tx.muts), tx.ip>>}}
               /\ orphaned' = orphaned \cup {tx.ip} /\ half' = half \cup {tx.ip}
               /\ UNCHANGED doubtLeases
      <3>1. tx # NoTx BY <1>3, <2>5 DEF UpsertFail, LockOK
      <3>2. tx.muts \in Seq(Mutations) BY <3>1, TypeFacts DEF Txs
      <3>3. Head(tx.muts) \in Mutations BY <2>5, <3>2, HeadTailProperties
      <3>4. doubtIndex' \subseteq Mutations \X IPs BY <2>3, <2>5, <3>1, <3>3 DEF Types
      <3> QED BY <1>3, <2>1, <2>2, <2>3, <2>5, <3>1, <3>4 DEF UpsertFail, Types
    <2> QED BY <1>3, <2>4, <2>5 DEF UpsertFail
  <1> QED BY <1>1, <1>2, <1>3

LEMMA TypesTransaction ==
    ASSUME Types, LockOK, UpsertIndex \/ UpsertDone PROVE Types'
  <1> USE DEF storeVars, envVars, ghostVars
  <1>0. tx # NoTx /\ tx \in Txs /\ tx.ip \in IPs /\ tx.by \in Writers /\ tx.muts \in Seq(Mutations)
    BY TypeFacts DEF UpsertIndex, UpsertDone, Txs
  <1>1. CASE UpsertIndex
    <2> DEFINE m == Head(tx.muts)
    <2>1. m \in Mutations /\ Tail(tx.muts) \in Seq(Mutations)
      BY <1>0, <1>1, HeadTailProperties DEF UpsertIndex
    <2>2. (m.tree = "mac" => m.key \in MACs) /\ (m.tree = "expiry" => m.key \in Nat)
      BY <2>1 DEF Mutations
    <2>3. tx' \in Txs BY <1>0, <1>1, <2>1 DEF UpsertIndex, Txs
    <2>4. byMAC' \subseteq MACs \X IPs BY <1>0, <1>1, <2>2 DEF UpsertIndex, Update, Types
    <2>5. byExpiry' \subseteq Nat \X IPs BY <1>0, <1>1, <2>2 DEF UpsertIndex, Update, Types
    <2>6. doubtIndex' \subseteq doubtIndex BY <1>1 DEF UpsertIndex
    <2> QED BY <1>1, <2>3, <2>4, <2>5, <2>6 DEF UpsertIndex, Types
  <1>2. CASE UpsertDone
    <2>1. job[tx.by] \in Jobs BY <1>0, TypeFacts DEF LockOK
    <2>2. job[tx.by].new.mac \in MACs /\ job[tx.by].new.expiry \in Nat BY <2>1 DEF Jobs, Leases
    <2>3. [ip |-> tx.ip, expiry |-> job[tx.by].new.expiry] \in Holds BY <1>0, <2>2 DEF Holds
    <2>4. hold' \in [MACs -> {NoHold} \cup Holds] BY <1>2, <2>2, <2>3 DEF UpsertDone, Types
    <2>5. job' \in [Writers -> {NoJob} \cup Jobs] BY <1>2 DEF UpsertDone, Types
    <2>6. used' \subseteq IPs /\ half' \subseteq IPs BY <1>2 DEF UpsertDone, Types
    <2> QED BY <1>2, <2>4, <2>5, <2>6 DEF UpsertDone, Types
  <1> QED BY <1>1, <1>2

LEMMA TypesServer ==
    ASSUME Types, NEW mac \in MACs, NEW target \in IPs,
           (\E rapidCommit \in BOOLEAN : HandleDiscover(mac, target, rapidCommit))
           \/ HandleRequest(mac, target)
    PROVE  Types'
  <1> USE DEF storeVars, envVars, ghostVars
  <1>1. /\ job' \in [Writers -> {NoJob} \cup Jobs] /\ used' \subseteq IPs
    <2>1. CASE UNCHANGED <<used, job>> BY <2>1 DEF Types
    <2>2. ASSUME NEW ip \in Allocate(mac, target), NEW kind \in {"ack", "offer"},
                 NEW state \in {"bound", "offered"}, used' = used \cup {ip},
                 StartUpsert("server", kind, ip, FALSE, NewLease(mac, state))
          PROVE  job' \in [Writers -> {NoJob} \cup Jobs] /\ used' \subseteq IPs
      <3>1. ip \in IPs BY AllocateFacts
      <3>2. NewLease(mac, state) \in Leases BY NewLeaseTypes DEF States
      <3>3. kind \in Kinds /\ FALSE \in BOOLEAN BY DEF Kinds
      <3>4. job' \in [Writers -> {NoJob} \cup Jobs]
        BY <2>2, <3>1, <3>2, <3>3, StartType, WritersAssumption
      <3> QED BY <2>2, <3>1, <3>4 DEF Types
    <2> QED BY <2>1, <2>2 DEF HandleDiscover, HandleRequest
  <1>2. hold' \in [MACs -> {NoHold} \cup Holds] BY DEF HandleDiscover, HandleRequest, Types
  <1> QED BY <1>1, <1>2 DEF HandleDiscover, HandleRequest, Types

LEMMA TypesRelease ==
    ASSUME Types, NEW ip \in IPs, HandleRelease(ip) \/ HandleDecline(ip) \/ ApiRelease(ip)
    PROVE  Types'
  <1> USE DEF storeVars, envVars, ghostVars
  <1>1. job' \in [Writers -> {NoJob} \cup Jobs]
    <2>1. CASE UNCHANGED job BY <2>1 DEF Types
    <2>2. CASE job' # job
      <3>1. lease[ip] \in Leases BY <2>2, TypeFacts DEF HandleRelease, HandleDecline, ApiRelease
      <3>2. Released(lease[ip]) \in Leases /\ Declined(lease[ip]) \in Leases BY <3>1, NewLeaseTypes
      <3> QED BY <2>2, <3>2, StartType, WritersAssumption
          DEF HandleRelease, HandleDecline, ApiRelease, Kinds
    <2> QED BY <2>1, <2>2
  <1>2. net' \subseteq Messages BY DEF HandleRelease, HandleDecline, ApiRelease, Types
  <1> QED BY <1>1, <1>2 DEF HandleRelease, HandleDecline, ApiRelease, Types

LEMMA TypesSweep ==
    ASSUME Types, SweeperOK, SweepList \/ SweepFetch \/ SweepExamine PROVE Types'
  <1> USE DEF storeVars, envVars, ghostVars
  <1> DEFINE Sweeps == [at : Nat, scan : SUBSET (Nat \X IPs), batch : SUBSET [ip : IPs, rec : Leases]]
  <1>0. sweep.at \in Nat /\ sweep.scan \in SUBSET (Nat \X IPs) /\ sweep.batch \in SUBSET [ip : IPs, rec : Leases]
    BY DEF Types
  <1>1. CASE SweepList
    <2>1. sweep' \in Sweeps BY <1>1 DEF SweepList, Types
    <2> QED BY <1>1, <2>1 DEF SweepList, Types
  <1>2. CASE SweepFetch
    <2>1. PICK e \in sweep.scan :
            /\ sweep' = [sweep EXCEPT !.scan = @ \ {e},
                            !.batch = @ \cup (IF lease[e[2]] = NoLease THEN {}
                                              ELSE {[ip |-> e[2], rec |-> lease[e[2]]]})]
            /\ displaced' = IF lease[e[2]] # NoLease /\ lease[e[2]].expiry # e[1]
                            THEN displaced \cup {e[2]} ELSE displaced
      BY <1>2 DEF SweepFetch
    <2>2. e[2] \in IPs BY <1>0
    <2>3. lease[e[2]] # NoLease => lease[e[2]] \in Leases BY <2>2, TypeFacts
    <2> DEFINE more == IF lease[e[2]] = NoLease THEN {} ELSE {[ip |-> e[2], rec |-> lease[e[2]]]}
    <2>a. more \subseteq [ip : IPs, rec : Leases] BY <2>2, <2>3
    <2>4. sweep' \in Sweeps BY <2>1, <2>a DEF Types
    <2>5. displaced' \subseteq IPs BY <2>1, <2>2 DEF Types
    <2> QED BY <1>2, <2>4, <2>5 DEF SweepFetch, Types
  <1>3. CASE SweepExamine
    <2>1. PICK b \in sweep.batch :
            /\ sweep' = IF sweep.batch = {b} THEN NoSweep ELSE [sweep EXCEPT !.batch = @ \ {b}]
            /\ IF Swept(b.rec, sweep.at) = b.rec THEN UNCHANGED job
               ELSE StartUpsert("sweeper", "sweep", b.ip, b.rec = lease[b.ip], Swept(b.rec, sweep.at))
      BY <1>3 DEF SweepExamine
    <2>2. b.ip \in IPs /\ b.rec \in Leases BY <1>0
    <2>3. Swept(b.rec, sweep.at) \in Leases BY <1>0, <2>2, SweptKeeps
    <2>4. "sweeper" \in Writers BY <1>3 DEF SweepExamine, SweeperOK
    <2>5. job' \in [Writers -> {NoJob} \cup Jobs]
      BY <2>1, <2>2, <2>3, <2>4, StartType DEF Kinds, Types
    <2>6. sweep' \in Sweeps BY <2>1 DEF Types, NoSweep, Zero
    <2> QED BY <1>3, <2>5, <2>6 DEF SweepExamine, Types
  <1> QED BY <1>1, <1>2, <1>3

\* The mutations that put or delete an index entry.
Putting(tree, key) == [tree |-> tree, put |-> TRUE, key |-> key]
Deleting(tree, key) == [tree |-> tree, put |-> FALSE, key |-> key]

\* What a restart changes was in doubt, in either index.
LEMMA InDoubtFacts ==
    ASSUME Types, NEW tree \in {"mac", "expiry"}, NEW put \in BOOLEAN, NEW e \in InDoubt(tree, put)
    PROVE  <<[tree |-> tree, put |-> put, key |-> e[1]], e[2]>> \in doubtIndex /\ e = <<e[1], e[2]>>
  <1>1. PICK d \in doubtIndex : d[1].tree = tree /\ d[1].put = put /\ e = <<d[1].key, d[2]>>
    BY DEF InDoubt
  <1>2. d[1] \in Mutations /\ d = <<d[1], d[2]>> BY <1>1 DEF Types
  <1>3. d[1] = [tree |-> tree, put |-> put, key |-> d[1].key] BY <1>1, <1>2 DEF Mutations
  <1> QED BY <1>1, <1>2, <1>3

LEMMA ReplayedFacts ==
    ASSUME Types, NEW tree \in {"mac", "expiry"}, NEW index, NEW after \in Replayed(tree, index)
    PROVE  /\ \A e \in index \ after : <<Deleting(tree, e[1]), e[2]>> \in doubtIndex
           /\ \A e \in after \ index : <<Putting(tree, e[1]), e[2]>> \in doubtIndex /\ e = <<e[1], e[2]>>
  <1>1. FALSE \in BOOLEAN /\ TRUE \in BOOLEAN OBVIOUS
  <1>2. \A e \in index \ after : e \in InDoubt(tree, FALSE) BY DEF Replayed
  <1>3. \A e \in after \ index : e \in InDoubt(tree, TRUE) BY DEF Replayed
  <1> QED BY <1>1, <1>2, <1>3, InDoubtFacts DEF Deleting, Putting

\* A mutation in doubt after a restart was so before, or undoes what it changed.
Explained(d) ==
    \/ d \in doubtIndex
    \/ \E e \in byMAC \ byMAC' : d = <<Putting("mac", e[1]), e[2]>>
    \/ \E e \in byMAC' \ byMAC : d = <<Deleting("mac", e[1]), e[2]>>
    \/ \E e \in byExpiry \ byExpiry' : d = <<Putting("expiry", e[1]), e[2]>>
    \/ \E e \in byExpiry' \ byExpiry : d = <<Deleting("expiry", e[1]), e[2]>>

LEMMA RestartFacts ==
    ASSUME Types, Restart
    PROVE  /\ lease' \in [IPs -> Leases \cup {NoLease}]
           /\ \A ip \in IPs : lease'[ip] = lease[ip] \/ <<ip, lease'[ip]>> \in doubtLeases
           /\ \A e \in byMAC \ byMAC' : <<Deleting("mac", e[1]), e[2]>> \in doubtIndex
           /\ \A e \in byMAC' \ byMAC : <<Putting("mac", e[1]), e[2]>> \in doubtIndex /\ e = <<e[1], e[2]>>
           /\ \A e \in byExpiry \ byExpiry' : <<Deleting("expiry", e[1]), e[2]>> \in doubtIndex
           /\ \A e \in byExpiry' \ byExpiry : <<Putting("expiry", e[1]), e[2]>> \in doubtIndex /\ e = <<e[1], e[2]>>
           /\ \A d \in doubtIndex' : Explained(d)
  <1>1. /\ lease' \in [IPs -> UNION {Found(ip) : ip \in IPs}] /\ \A ip \in IPs : lease'[ip] \in Found(ip)
        /\ byMAC' \in Replayed("mac", byMAC) /\ byExpiry' \in Replayed("expiry", byExpiry)
        /\ doubtIndex' = doubtIndex \cup Undoing("mac", byMAC, byMAC') \cup Undoing("expiry", byExpiry, byExpiry')
    BY DEF Restart
  <1>2. ASSUME NEW ip \in IPs
        PROVE  /\ lease'[ip] = lease[ip] \/ <<ip, lease'[ip]>> \in doubtLeases
               /\ lease'[ip] \in Leases \cup {NoLease}
    <2>1. CASE lease'[ip] = lease[ip] BY <2>1 DEF Types
    <2>2. CASE lease'[ip] # lease[ip]
      <3>1. PICK d \in doubtLeases : d[1] = ip /\ lease'[ip] = d[2] BY <1>1, <2>2 DEF Found
      <3>2. d = <<d[1], d[2]>> /\ d[2] \in Leases \cup {NoLease} BY DEF Types
      <3> QED BY <3>1, <3>2
    <2> QED BY <2>1, <2>2
  <1>3. lease' \in [IPs -> Leases \cup {NoLease}] BY <1>1, <1>2
  <1>4. /\ \A e \in byMAC \ byMAC' : <<Deleting("mac", e[1]), e[2]>> \in doubtIndex
        /\ \A e \in byMAC' \ byMAC : <<Putting("mac", e[1]), e[2]>> \in doubtIndex /\ e = <<e[1], e[2]>>
    BY <1>1, ReplayedFacts
  <1>5. /\ \A e \in byExpiry \ byExpiry' : <<Deleting("expiry", e[1]), e[2]>> \in doubtIndex
        /\ \A e \in byExpiry' \ byExpiry : <<Putting("expiry", e[1]), e[2]>> \in doubtIndex /\ e = <<e[1], e[2]>>
    BY <1>1, ReplayedFacts
  <1>6. \A d \in doubtIndex' : Explained(d)
    BY <1>1, Zenon DEF Explained, Undoing, Putting, Deleting
  <1> QED BY <1>2, <1>3, <1>4, <1>5, <1>6

LEMMA MutationTypes ==
    /\ \A m \in MACs : Putting("mac", m) \in Mutations /\ Deleting("mac", m) \in Mutations
    /\ \A n \in Nat : Putting("expiry", n) \in Mutations /\ Deleting("expiry", n) \in Mutations
  BY DEF Mutations, Putting, Deleting

LEMMA TypesRestart == ASSUME Types, Restart PROVE Types'
  <1>1. lease' \in [IPs -> Leases \cup {NoLease}] BY RestartFacts
  <1>2. byMAC' \subseteq MACs \X IPs
    <2> SUFFICES ASSUME NEW e \in byMAC' \ byMAC PROVE e \in MACs \X IPs BY DEF Types
    <2>1. <<Putting("mac", e[1]), e[2]>> \in Mutations \X IPs /\ e = <<e[1], e[2]>>
      BY RestartFacts DEF Types
    <2>2. Putting("mac", e[1]) \in Mutations /\ e[2] \in IPs BY <2>1
    <2>3. e[1] \in MACs BY <2>2 DEF Putting, Mutations
    <2> QED BY <2>1, <2>2, <2>3
  <1>3. byExpiry' \subseteq Nat \X IPs
    <2> SUFFICES ASSUME NEW e \in byExpiry' \ byExpiry PROVE e \in Nat \X IPs BY DEF Types
    <2>1. <<Putting("expiry", e[1]), e[2]>> \in Mutations \X IPs /\ e = <<e[1], e[2]>>
      BY RestartFacts DEF Types
    <2>2. Putting("expiry", e[1]) \in Mutations /\ e[2] \in IPs BY <2>1
    <2>3. e[1] \in Nat BY <2>2 DEF Putting, Mutations
    <2> QED BY <2>1, <2>2, <2>3
  <1>4. doubtIndex' \subseteq Mutations \X IPs
    <2> SUFFICES ASSUME NEW d \in doubtIndex' PROVE d \in Mutations \X IPs OBVIOUS
    <2>1. CASE d \in doubtIndex BY <2>1 DEF Types
    <2>2. ASSUME NEW e \in MACs \X IPs, d = <<Putting("mac", e[1]), e[2]>> \/ d = <<Deleting("mac", e[1]), e[2]>>
          PROVE  d \in Mutations \X IPs
      BY <2>2, MutationTypes
    <2>3. ASSUME NEW e \in Nat \X IPs, d = <<Putting("expiry", e[1]), e[2]>> \/ d = <<Deleting("expiry", e[1]), e[2]>>
          PROVE  d \in Mutations \X IPs
      BY <2>3, MutationTypes
    <2>4. /\ byMAC \ byMAC' \subseteq MACs \X IPs /\ byMAC' \ byMAC \subseteq MACs \X IPs
          /\ byExpiry \ byExpiry' \subseteq Nat \X IPs /\ byExpiry' \ byExpiry \subseteq Nat \X IPs
      BY <1>2, <1>3 DEF Types
    <2>5. Explained(d) BY RestartFacts
    <2> QED BY <2>1, <2>2, <2>3, <2>4, <2>5 DEF Explained
  <1>5. doubtLeases' \subseteq IPs \X (Leases \cup {NoLease})
    <2>1. \A ip \in IPs : <<ip, lease[ip]>> \in IPs \X (Leases \cup {NoLease}) BY DEF Types
    <2> QED BY <2>1 DEF Restart, Types
  <1>6. faults' \in 0..MaxFaults BY TimeAssumption DEF Restart, Types
  <1>7. job' \in [Writers -> {NoJob} \cup Jobs] BY DEF Restart
  <1>8. sweep' \in [at : Nat, scan : SUBSET (Nat \X IPs), batch : SUBSET [ip : IPs, rec : Leases]]
    BY DEF Restart, NoSweep, Zero
  <1>9. orphaned' \subseteq IPs /\ half' \subseteq IPs /\ displaced' \subseteq IPs /\ used' \subseteq IPs
    BY DEF Restart, Types
  <1>10. UNCHANGED <<now, hold, net>> /\ tx' = NoTx BY DEF Restart
  <1> QED BY <1>1, <1>2, <1>3, <1>4, <1>5, <1>6, <1>7, <1>8, <1>9, <1>10 DEF Types

LEMMA TypesOther ==
    ASSUME Types, \/ Tick
                  \/ \E mac \in MACs, kind \in Leaving : ClientLeaves(mac, kind)
                  \/ \E msg \in net : MessageLost(msg)
    PROVE  Types'
  <1> USE DEF storeVars, envVars, ghostVars
  <1>1. CASE Tick
    <2>1. hold' \in [MACs -> {NoHold} \cup Holds] BY <1>1 DEF Tick, Types
    <2> QED BY <1>1, <2>1 DEF Tick, Types
  <1>3. ASSUME NEW mac \in MACs, NEW kind \in Leaving, ClientLeaves(mac, kind) PROVE Types'
    <2>1. hold[mac].ip \in IPs BY <1>3, TypeFacts DEF ClientLeaves, Holds
    <2>2. [kind |-> kind, ip |-> hold[mac].ip] \in Messages BY <2>1, LeavingAssumption DEF Messages
    <2>3. hold' \in [MACs -> {NoHold} \cup Holds] BY <1>3 DEF ClientLeaves, Types
    <2> QED BY <1>3, <2>2, <2>3 DEF ClientLeaves, Types
  <1>4. ASSUME NEW msg \in net, MessageLost(msg) PROVE Types'
    BY <1>4 DEF MessageLost, Types
  <1> QED BY <1>1, <1>3, <1>4

(***************************************************************************)
(* The indexes.  While a transaction writes the index entries of its       *)
(* address, what is there is told by the number of mutations left.         *)
(***************************************************************************)
Writing(w) == job[w] # NoJob /\ job[w].step = "writing"
Left == Len(tx.muts)
Old == job[tx.by].old
New == job[tx.by].new

TxShape ==
    tx # NoTx => /\ Left <= Total(Old)
                 /\ \A i \in 1..Left : tx.muts[i] = Item(Old, New, Left + 1 - i)

\* An index entry that is there, and that no restart takes away.
FirmMAC(m, ip) == <<m, ip>> \in byMAC /\ <<Deleting("mac", m), ip>> \notin doubtIndex
FirmExpiry(n, ip) == <<n, ip>> \in byExpiry /\ <<Deleting("expiry", n), ip>> \notin doubtIndex

CoversTx ==
    tx # NoTx => /\ Left < 2 => FirmMAC(New.mac, tx.ip)
                 /\ Left < 1 => FirmExpiry(New.expiry, tx.ip)

Covers ==
    \A ip \in IPs : lease[ip] # NoLease /\ ip \notin half /\ (tx # NoTx => tx.ip # ip) =>
        FirmMAC(lease[ip].mac, ip) /\ FirmExpiry(lease[ip].expiry, ip)

\* A mutation in doubt cut its transaction short.
DoubtsNoted == \A d \in doubtIndex : d[2] \in orphaned

ExactTx ==
    tx # NoTx /\ tx.ip \notin orphaned =>
        /\ \A m \in MACs : <<m, tx.ip>> \in byMAC =>
              (Left = 4 /\ m = Old.mac) \/ (Left <= 1 /\ m = New.mac)
        /\ \A n \in Nat : <<n, tx.ip>> \in byExpiry =>
              (Left >= 3 /\ n = Old.expiry) \/ (Left = 0 /\ n = New.expiry)

Exact ==
    \A ip \in IPs : ip \notin orphaned /\ (tx # NoTx => tx.ip # ip) =>
        /\ \A m \in MACs : <<m, ip>> \in byMAC => lease[ip] # NoLease /\ lease[ip].mac = m
        /\ \A n \in Nat : <<n, ip>> \in byExpiry => lease[ip] # NoLease /\ lease[ip].expiry = n

LEMMA ExactSuffices == ASSUME Types, Exact PROVE IndexExact
  <1> SUFFICES ASSUME NEW ip \in IPs, ip \notin orphaned, tx # NoTx => tx.ip # ip,
                      NEW e \in byExpiry, e[2] = ip
               PROVE  lease[ip] # NoLease /\ lease[ip].expiry = e[1]
    BY DEF Exact, IndexExact
  <1>1. e[1] \in Nat /\ e = <<e[1], ip>> BY DEF Types
  <1> QED BY <1>1 DEF Exact

IndexInv ==
    Types /\ SweeperOK /\ LockOK /\ TxShape /\ CoversTx /\ Covers /\ ExactTx /\ Exact /\ DoubtsNoted

\* A step that leaves the trees and the engine lock alone.
Bystander ==
    /\ UNCHANGED <<lease, byMAC, byExpiry, doubtIndex, tx, orphaned, half>>
    /\ \A w \in Writers : job'[w] = job[w] \/ (~Writing(w) /\ ~Writing(w)')

LEMMA BystanderKeeps ==
    ASSUME IndexInv, Bystander
    PROVE  LockOK' /\ TxShape' /\ CoversTx' /\ Covers' /\ ExactTx' /\ Exact' /\ DoubtsNoted'
  <1> USE DEF Bystander, IndexInv
  <1>1. tx # NoTx => tx.by \in Writers BY TypeFacts DEF Txs
  <1>2. tx # NoTx => job'[tx.by] = job[tx.by] BY <1>1 DEF LockOK, Writing
  <1>3. LockOK' BY <1>1, <1>2 DEF LockOK, Writing
  <1>4. tx # NoTx => Left' = Left /\ Old' = Old /\ New' = New BY <1>2 DEF Left, Old, New
  <1>5. TxShape' BY <1>4 DEF TxShape
  <1>6. CoversTx' BY <1>4 DEF CoversTx, FirmMAC, FirmExpiry
  <1>7. ExactTx' BY <1>4 DEF ExactTx
  <1>8. Covers' /\ Exact' /\ DoubtsNoted' BY DEF Covers, FirmMAC, FirmExpiry, Exact, DoubtsNoted
  <1> QED BY <1>3, <1>5, <1>6, <1>7, <1>8

\* A goroutine that writes nothing starts an upsert.
LEMMA StartIsBystander ==
    ASSUME Types, NEW w \in Writers, NEW kind, NEW ip, NEW fresh, NEW new,
           job[w] = NoJob, StartUpsert(w, kind, ip, fresh, new)
    PROVE  \A v \in Writers : job'[v] = job[v] \/ (~Writing(v) /\ ~Writing(v)')
  BY DEF StartUpsert, Writing, Types

LEMMA BystanderSteps ==
    ASSUME Types, SweeperOK,
           \/ Tick \/ SweepList \/ SweepFetch \/ SweepExamine
           \/ \E w \in Writers : UpsertRead(w) \/ (UpsertFail(w) /\ job[w].step # "writing")
           \/ \E mac \in MACs, ip \in IPs :
                 (\E rapidCommit \in BOOLEAN : HandleDiscover(mac, ip, rapidCommit)) \/ HandleRequest(mac, ip)
           \/ \E mac \in MACs, kind \in Leaving : ClientLeaves(mac, kind)
           \/ \E msg \in net : MessageLost(msg)
           \/ \E ip \in IPs : HandleRelease(ip) \/ HandleDecline(ip) \/ ApiRelease(ip)
    PROVE  Bystander
  <1> USE DEF storeVars, envVars, ghostVars
  <1>1. CASE Tick \/ SweepList \/ SweepFetch
    BY <1>1 DEF Tick, SweepList, SweepFetch, Bystander
  <1>2. CASE SweepExamine
    <2>1. "sweeper" \in Writers /\ job["sweeper"] = NoJob BY <1>2 DEF SweepExamine, SweeperOK
    <2> QED BY <1>2, <2>1, StartIsBystander DEF SweepExamine, Bystander
  <1>3. ASSUME NEW w \in Writers, UpsertRead(w) \/ (UpsertFail(w) /\ job[w].step # "writing")
        PROVE  Bystander
    <2>1. job[w] # NoJob /\ job[w] \in Jobs /\ job[w].step # "writing"
      BY <1>3, TypeFacts DEF UpsertRead, UpsertFail
    <2>2. \A v \in Writers : v # w => job'[v] = job[v] BY <1>3 DEF UpsertRead, UpsertFail, Types
    <2>3. ~Writing(w) BY <2>1 DEF Writing
    <2>4. ~Writing(w)' BY <1>3, <2>1 DEF UpsertRead, UpsertFail, Types, Writing, Jobs
    <2> QED BY <1>3, <2>1, <2>2, <2>3, <2>4 DEF UpsertRead, UpsertFail, Bystander
  <1>4. ASSUME NEW mac \in MACs, NEW ip \in IPs,
               (\E rapidCommit \in BOOLEAN : HandleDiscover(mac, ip, rapidCommit)) \/ HandleRequest(mac, ip)
        PROVE  Bystander
    BY <1>4, StartIsBystander, WritersAssumption DEF HandleDiscover, HandleRequest, ServerIdle, Bystander
  <1>5. ASSUME NEW mac \in MACs, NEW kind \in Leaving, ClientLeaves(mac, kind) PROVE Bystander
    BY <1>5 DEF ClientLeaves, Bystander
  <1>6. ASSUME NEW msg \in net, MessageLost(msg) PROVE Bystander
    BY <1>6 DEF MessageLost, Bystander
  <1>7. ASSUME NEW ip \in IPs, HandleRelease(ip) \/ HandleDecline(ip) \/ ApiRelease(ip) PROVE Bystander
    BY <1>7, StartIsBystander, WritersAssumption
       DEF HandleRelease, HandleDecline, ApiRelease, ServerIdle, Bystander
  <1> QED BY <1>1, <1>2, <1>3, <1>4, <1>5, <1>6, <1>7

LEMMA KeyedFacts ==
    ASSUME NEW l \in Leases \cup {NoLease}
    PROVE  /\ Keyed(l) = NoLease <=> l = NoLease
           /\ l # NoLease => Keyed(l).mac = l.mac /\ Keyed(l).expiry = l.expiry
  <1>1. l # NoLease => Keyed(l) \in KeyedLeases BY DEF Keyed, Leases, KeyedLeases
  <1> QED BY <1>1, Distinct DEF Keyed

LEMMA PutKeeps ==
    ASSUME IndexInv, NEW w \in Writers, UpsertPut(w)
    PROVE  LockOK' /\ TxShape' /\ CoversTx' /\ Covers' /\ ExactTx' /\ Exact' /\ DoubtsNoted'
  <1> USE DEF IndexInv
  <1> DEFINE j == job[w]
  <1>1. j \in Jobs BY TypeFacts DEF UpsertPut
  <1>2. j.ip \in IPs /\ j.new \in Leases /\ j.old \in {NoLease} \cup KeyedLeases BY <1>1 DEF Jobs
  <1>3. tx = NoTx /\ tx'.by = w /\ tx'.ip = j.ip /\ tx'.muts = IndexMutations(j.old, j.new)
    BY DEF UpsertPut
  <1>4. job'[w] = [j EXCEPT !.step = "writing"] BY DEF UpsertPut
  <1>5. job'[w].step = "writing" /\ job'[w].ip = j.ip /\ job'[w].new = j.new /\ job'[w].old = j.old
        /\ job'[w] # NoJob
    BY <1>1, <1>4, Distinct DEF Jobs
  <1>6. tx' # NoTx
    <2>1. tx' \in Txs BY <1>2, IndexMutationsShape DEF UpsertPut, Txs
    <2> QED BY <2>1, Distinct
  <1>7. lease'[j.ip] = j.new /\ \A ip \in IPs : ip # j.ip => lease'[ip] = lease[ip]
    BY <1>2 DEF UpsertPut, Types
  <1>8. UNCHANGED <<byMAC, byExpiry, doubtIndex, half>> BY DEF UpsertPut
  <1>9. LockOK'
    <2>1. ASSUME NEW v \in Writers, v # w, job'[v] # NoJob PROVE job'[v].step # "writing"
      <3>1. job[v] # NoJob /\ (job'[v] = job[v] \/ job'[v] = [job[v] EXCEPT !.fresh = FALSE])
        BY <2>1 DEF UpsertPut
      <3>2. job[v] \in Jobs /\ job[v].step # "writing" BY <1>3, <3>1, TypeFacts DEF LockOK
      <3> QED BY <3>1, <3>2 DEF Jobs
    <2> QED BY <1>3, <1>5, <1>6, <1>7, <2>1 DEF LockOK
  <1>10. Left' = Total(j.old) /\ Old' = j.old /\ New' = j.new
    BY <1>2, <1>3, <1>5, IndexMutationsShape DEF Left, Old, New
  <1>11. TxShape'
    <2>1. \A i \in 1..Total(j.old) : tx'.muts[i] = Item(j.old, j.new, Total(j.old) + 1 - i)
      BY <1>2, <1>3, IndexMutationsShape
    <2>2. Total(j.old) \in Nat BY DEF Total
    <2> QED BY <1>10, <2>1, <2>2 DEF TxShape
  <1>12. CoversTx' BY <1>10 DEF CoversTx, Total
  <1>13. Covers' BY <1>3, <1>6, <1>7, <1>8 DEF Covers, FirmMAC, FirmExpiry
  <1>16. DoubtsNoted'
    <2>1. orphaned \subseteq orphaned' BY DEF UpsertPut
    <2> QED BY <1>8, <2>1 DEF DoubtsNoted
  <1>14. Exact'
    <2>1. orphaned \subseteq orphaned' BY DEF UpsertPut
    <2> QED BY <1>3, <1>6, <1>7, <1>8, <2>1 DEF Exact
  <1>15. ExactTx'
    <2> SUFFICES ASSUME j.ip \notin orphaned'
                 PROVE  /\ \A m \in MACs : <<m, j.ip>> \in byMAC => Total(j.old) = 4 /\ m = j.old.mac
                        /\ \A n \in Nat : <<n, j.ip>> \in byExpiry => Total(j.old) = 4 /\ n = j.old.expiry
      BY <1>3, <1>8, <1>10 DEF ExactTx
    <2>1. j.ip \notin orphaned /\ j.old = Keyed(lease[j.ip]) BY DEF UpsertPut
    <2>2. lease[j.ip] \in Leases \cup {NoLease} BY <1>2 DEF Types
    <2>3. CASE lease[j.ip] = NoLease BY <1>2, <1>3, <2>1, <2>3 DEF Exact
    <2>4. CASE lease[j.ip] # NoLease
      <3>1. j.old # NoLease /\ j.old.mac = lease[j.ip].mac /\ j.old.expiry = lease[j.ip].expiry
        BY <2>1, <2>2, <2>4, KeyedFacts
      <3> QED BY <1>2, <1>3, <2>1, <3>1 DEF Exact, Total
    <2> QED BY <2>3, <2>4
  <1> QED BY <1>9, <1>11, <1>12, <1>13, <1>14, <1>15, <1>16

LEMMA IndexKeeps ==
    ASSUME IndexInv, UpsertIndex
    PROVE  LockOK' /\ TxShape' /\ CoversTx' /\ Covers' /\ ExactTx' /\ Exact' /\ DoubtsNoted'
  <1> USE DEF IndexInv
  <1> DEFINE m == Head(tx.muts)
  <1>1. tx # NoTx /\ tx \in Txs /\ tx.ip \in IPs /\ tx.by \in Writers /\ tx.muts \in Seq(Mutations)
        /\ tx.muts # <<>>
    BY TypeFacts DEF UpsertIndex, Txs
  <1>2. tx' \in Txs /\ tx'.by = tx.by /\ tx'.ip = tx.ip /\ tx'.muts = Tail(tx.muts)
    <2>1. Tail(tx.muts) \in Seq(Mutations) BY <1>1, HeadTailProperties
    <2> QED BY <1>1, <2>1 DEF UpsertIndex, Txs
  <1>3. tx' # NoTx BY <1>2, Distinct
  <1>4. UNCHANGED <<lease, job, orphaned, half>> BY DEF UpsertIndex, ghostVars
  <1>5. Left \in Nat /\ Left >= 1 /\ Left' = Left - 1 /\ Old' = Old /\ New' = New
        /\ \A i \in 1..Left - 1 : tx'.muts[i] = tx.muts[i + 1]
    <2>1. Len(tx.muts) \in Nat /\ Len(tx.muts) # 0 BY <1>1, EmptySeq
    <2>2. Len(Tail(tx.muts)) = Len(tx.muts) - 1
          /\ \A i \in 1..Len(tx.muts) - 1 : Tail(tx.muts)[i] = tx.muts[i + 1]
      BY <1>1, HeadTailProperties
    <2> QED BY <1>2, <1>4, <2>1, <2>2 DEF Left, Old, New
  <1>6. LockOK' BY <1>1, <1>2, <1>3, <1>4 DEF LockOK
  <1>7. Left <= Total(Old) /\ Total(Old) \in {2, 4} BY <1>1 DEF TxShape, Total
  <1>8. TxShape'
    <2>1. ASSUME NEW i \in 1..Left - 1 PROVE tx'.muts[i] = Item(Old, New, Left - 1 + 1 - i)
      <3>1. i + 1 \in 1..Left /\ Left + 1 - (i + 1) = Left - 1 + 1 - i BY <1>5
      <3>2. tx.muts[i + 1] = Item(Old, New, Left + 1 - (i + 1)) BY <1>1, <3>1 DEF TxShape
      <3> QED BY <1>5, <3>1, <3>2
    <2> QED BY <1>5, <1>7, <2>1 DEF TxShape
  <1>9. m = Item(Old, New, Left)
    <2>1. m = tx.muts[1] BY <1>1
    <2>2. 1 \in 1..Left /\ Left + 1 - 1 = Left BY <1>5
    <2>3. tx.muts[1] = Item(Old, New, Left + 1 - 1) BY <1>1, <2>2 DEF TxShape
    <2> QED BY <2>1, <2>2, <2>3
  <1>10. \A ip \in IPs : ip # tx.ip =>
            /\ \A x : <<x, ip>> \in byMAC' <=> <<x, ip>> \in byMAC
            /\ \A x : <<x, ip>> \in byExpiry' <=> <<x, ip>> \in byExpiry
    BY DEF UpsertIndex, Update
  <1>11. Left \in 1..4 BY <1>5, <1>7
  <1>12. /\ Left = 1 => byMAC' = byMAC /\ byExpiry' = byExpiry \cup {<<New.expiry, tx.ip>>}
         /\ Left = 2 => byMAC' = byMAC \cup {<<New.mac, tx.ip>>} /\ byExpiry' = byExpiry
         /\ Left = 3 => byMAC' = byMAC /\ byExpiry' = byExpiry \ {<<Old.expiry, tx.ip>>}
         /\ Left = 4 => byMAC' = byMAC \ {<<Old.mac, tx.ip>>} /\ byExpiry' = byExpiry
    BY <1>9 DEF UpsertIndex, Update, Item
  <1>17. /\ doubtIndex' \subseteq doubtIndex
         /\ \A d \in doubtIndex' : ~(d[1].tree = m.tree /\ d[1].key = m.key /\ d[2] = tx.ip)
    BY DEF UpsertIndex
  <1>18. /\ Left = 1 => <<Deleting("expiry", New.expiry), tx.ip>> \notin doubtIndex'
         /\ Left = 2 => <<Deleting("mac", New.mac), tx.ip>> \notin doubtIndex'
    BY <1>9, <1>17 DEF Item, Deleting
  <1>13. CoversTx'
    <2>1. CASE Left = 1
      <3>1. FirmMAC(New.mac, tx.ip) BY <1>1, <2>1 DEF CoversTx
      <3>2. FirmMAC(New.mac, tx.ip)' BY <1>2, <1>5, <1>12, <1>17, <2>1, <3>1 DEF FirmMAC
      <3>3. FirmExpiry(New.expiry, tx.ip)' BY <1>2, <1>5, <1>12, <1>18, <2>1 DEF FirmExpiry
      <3> QED BY <3>2, <3>3 DEF CoversTx
    <2>2. CASE Left = 2
      <3>1. FirmMAC(New.mac, tx.ip)' BY <1>2, <1>5, <1>12, <1>18, <2>2 DEF FirmMAC
      <3> QED BY <1>5, <2>2, <3>1 DEF CoversTx
    <2>3. CASE Left > 2 BY <1>5, <2>3 DEF CoversTx
    <2> QED BY <1>11, <2>1, <2>2, <2>3
  <1>14. Covers' BY <1>1, <1>2, <1>3, <1>4, <1>10, <1>17 DEF Covers, FirmMAC, FirmExpiry
  <1>19. DoubtsNoted' BY <1>4, <1>17 DEF DoubtsNoted
  <1>15. Exact' BY <1>1, <1>2, <1>3, <1>4, <1>10 DEF Exact
  <1>16. ExactTx'
    <2> SUFFICES ASSUME tx.ip \notin orphaned
                 PROVE  /\ \A x \in MACs : <<x, tx.ip>> \in byMAC' =>
                              (Left - 1 = 4 /\ x = Old.mac) \/ (Left - 1 <= 1 /\ x = New.mac)
                        /\ \A n \in Nat : <<n, tx.ip>> \in byExpiry' =>
                              (Left - 1 >= 3 /\ n = Old.expiry) \/ (Left - 1 = 0 /\ n = New.expiry)
      BY <1>2, <1>4, <1>5 DEF ExactTx
    <2>1. /\ \A x \in MACs : <<x, tx.ip>> \in byMAC =>
                (Left = 4 /\ x = Old.mac) \/ (Left <= 1 /\ x = New.mac)
          /\ \A n \in Nat : <<n, tx.ip>> \in byExpiry =>
                (Left >= 3 /\ n = Old.expiry) \/ (Left = 0 /\ n = New.expiry)
      BY <1>1 DEF ExactTx
    <2>2. Left = 1 \/ Left = 2 \/ Left = 3 \/ Left = 4 BY <1>11
    <2> QED BY <1>12, <2>1, <2>2
  <1> QED BY <1>6, <1>8, <1>13, <1>14, <1>15, <1>16, <1>19

\* The lock is let go: all mutations were applied, or the address is noted.
LEMMA UnlockKeeps ==
    ASSUME IndexInv,
           UpsertDone \/ \E w \in Writers : UpsertFail(w) /\ job[w].step = "writing"
    PROVE  LockOK' /\ TxShape' /\ CoversTx' /\ Covers' /\ ExactTx' /\ Exact' /\ DoubtsNoted'
  <1> USE DEF IndexInv
  <1>1. tx' = NoTx /\ UNCHANGED <<lease, byMAC, byExpiry>>
    BY DEF UpsertDone, UpsertFail, storeVars
  <1>2. \A w \in Writers : ~Writing(w)'
    <2>2. CASE UpsertDone
      <3>1. \A w \in Writers : w # tx.by => ~Writing(w) BY <2>2 DEF UpsertDone, LockOK, Writing
      <3> QED BY <2>2, <3>1 DEF UpsertDone, Types, Writing
    <2>3. ASSUME NEW v \in Writers, UpsertFail(v), job[v].step = "writing"
          PROVE  \A w \in Writers : ~Writing(w)'
      <3>1. tx # NoTx /\ tx.by = v BY <2>3 DEF UpsertFail, LockOK
      <3>2. \A w \in Writers : w # v => ~Writing(w) BY <3>1 DEF LockOK, Writing
      <3> QED BY <2>3, <3>2 DEF UpsertFail, Types, Writing
    <2> QED BY <2>2, <2>3
  <1>3. LockOK' /\ TxShape' /\ CoversTx' /\ ExactTx'
    BY <1>1, <1>2 DEF LockOK, TxShape, CoversTx, ExactTx, Writing
  <1>4. /\ orphaned \subseteq orphaned'
        /\ \A ip \in IPs : ip \notin half' =>
             ip \notin half \/ (tx # NoTx /\ tx.ip = ip /\ tx.muts = <<>>)
        /\ tx # NoTx => tx.muts = <<>> \/ (tx.ip \in orphaned' /\ tx.ip \in half')
        /\ \A d \in doubtIndex' : d \in doubtIndex \/ (d[2] \in orphaned' /\ d[2] \in half')
    <2>2. CASE UpsertDone BY <2>2 DEF UpsertDone, storeVars
    <2>3. ASSUME NEW v \in Writers, UpsertFail(v), job[v].step = "writing"
          PROVE  /\ orphaned \subseteq orphaned'
                 /\ \A ip \in IPs : ip \notin half' => ip \notin half
                 /\ tx # NoTx => tx.ip \in orphaned' /\ tx.ip \in half'
                 /\ \A d \in doubtIndex' : d \in doubtIndex \/ (d[2] \in orphaned' /\ d[2] \in half')
      BY <2>3 DEF UpsertFail
    <2> QED BY <2>2, <2>3
  <1>5. tx # NoTx /\ tx.muts = <<>> =>
            /\ tx.ip \in IPs /\ lease[tx.ip] = New /\ Left = 0
    BY TypeFacts DEF Txs, LockOK, New, Left
  <1>6. Covers'
    <2> SUFFICES ASSUME NEW ip \in IPs, lease[ip] # NoLease, ip \notin half'
                 PROVE  FirmMAC(lease[ip].mac, ip)' /\ FirmExpiry(lease[ip].expiry, ip)'
      BY <1>1 DEF Covers
    <2>1. FirmMAC(lease[ip].mac, ip) /\ FirmExpiry(lease[ip].expiry, ip)
      <3>1. CASE tx # NoTx /\ tx.ip = ip BY <1>4, <1>5, <3>1 DEF CoversTx
      <3>2. CASE ~(tx # NoTx /\ tx.ip = ip) BY <1>4, <3>2 DEF Covers
      <3> QED BY <3>1, <3>2
    <2>2. \A x : <<x, ip>> \in doubtIndex' => <<x, ip>> \in doubtIndex BY <1>4
    <2> QED BY <1>1, <2>1, <2>2 DEF FirmMAC, FirmExpiry
  <1>8. DoubtsNoted' BY <1>4 DEF DoubtsNoted
  <1>7. Exact'
    <2> SUFFICES ASSUME NEW ip \in IPs, ip \notin orphaned'
                 PROVE  /\ \A m \in MACs : <<m, ip>> \in byMAC => lease[ip] # NoLease /\ lease[ip].mac = m
                        /\ \A n \in Nat : <<n, ip>> \in byExpiry => lease[ip] # NoLease /\ lease[ip].expiry = n
      BY <1>1 DEF Exact
    <2>1. CASE tx # NoTx /\ tx.ip = ip
      <3>1. New \in Leases /\ New # NoLease BY <2>1, TypeFacts, Distinct DEF LockOK, New, Jobs, Txs
      <3> QED BY <1>4, <1>5, <2>1, <3>1 DEF ExactTx
    <2>2. CASE ~(tx # NoTx /\ tx.ip = ip) BY <1>4, <2>2 DEF Exact
    <2> QED BY <2>1, <2>2
  <1> QED BY <1>3, <1>6, <1>7, <1>8

\* Replay leaves the entries of every record alone that it does not rekey: what
\* is in doubt belongs to a transaction that was cut short.
LEMMA ReplayKeeps ==
    ASSUME IndexInv, Restart
    PROVE  LockOK' /\ TxShape' /\ CoversTx' /\ Covers' /\ ExactTx' /\ Exact' /\ DoubtsNoted'
  <1> USE DEF IndexInv
  <1>1. tx' = NoTx /\ \A w \in Writers : job'[w] = NoJob BY DEF Restart
  <1>2. LockOK' /\ TxShape' /\ CoversTx' /\ ExactTx'
    BY <1>1 DEF LockOK, TxShape, CoversTx, ExactTx
  <1>3. /\ orphaned \subseteq orphaned'
        /\ \A ip \in IPs : ip \notin half' =>
             ip \notin half \/ (tx # NoTx /\ tx.ip = ip /\ tx.muts = <<>>)
        /\ tx # NoTx => tx.muts = <<>> \/ tx.ip \notin IPs \/ (tx.ip \in orphaned' /\ tx.ip \in half')
        /\ \A ip \in IPs : ip \notin half' \/ ip \notin orphaned' => Keyed(lease'[ip]) = Keyed(lease[ip])
    BY DEF Restart
  <1>4. tx # NoTx => tx.ip \in IPs BY TypeFacts DEF Txs
  <1>5. tx # NoTx /\ tx.muts = <<>> => lease[tx.ip] = New /\ Left = 0
    BY TypeFacts DEF Txs, LockOK, New, Left
  <1>6. ASSUME NEW ip \in IPs, Keyed(lease'[ip]) = Keyed(lease[ip]), lease'[ip] # NoLease
        PROVE  lease[ip] # NoLease /\ lease'[ip].mac = lease[ip].mac /\ lease'[ip].expiry = lease[ip].expiry
    <2>1. lease[ip] \in Leases \cup {NoLease} /\ lease'[ip] \in Leases \cup {NoLease}
      BY RestartFacts DEF Types
    <2>2. /\ Keyed(lease[ip]) = NoLease <=> lease[ip] = NoLease
          /\ lease[ip] # NoLease => Keyed(lease[ip]).mac = lease[ip].mac /\ Keyed(lease[ip]).expiry = lease[ip].expiry
      BY <2>1, KeyedFacts
    <2>3. /\ Keyed(lease'[ip]) = NoLease <=> lease'[ip] = NoLease
          /\ lease'[ip] # NoLease => Keyed(lease'[ip]).mac = lease'[ip].mac /\ Keyed(lease'[ip]).expiry = lease'[ip].expiry
      BY <2>1, KeyedFacts
    <2> QED BY <1>6, <2>2, <2>3
  <1>7. ASSUME NEW ip \in IPs, NEW m, FirmMAC(m, ip)
        PROVE  <<m, ip>> \in byMAC' /\ <<Deleting("mac", m), ip>> \notin doubtIndex'
    <2>1. <<m, ip>> \in byMAC' BY <1>7, RestartFacts DEF FirmMAC
    <2>2. <<Deleting("mac", m), ip>> \notin doubtIndex'
      <3> SUFFICES ASSUME <<Deleting("mac", m), ip>> \in doubtIndex' PROVE FALSE OBVIOUS
      <3>1. <<Deleting("mac", m), ip>> \notin doubtIndex /\ <<m, ip>> \in byMAC BY <1>7 DEF FirmMAC
      <3>2. ASSUME NEW k PROVE Deleting("mac", m) # Putting("mac", k) /\ Deleting("mac", m) # Putting("expiry", k)
                               /\ Deleting("mac", m) # Deleting("expiry", k)
                               /\ (Deleting("mac", m) = Deleting("mac", k) => k = m)
        BY DEF Deleting, Putting
      <3>3. PICK e \in byMAC' \ byMAC : <<Deleting("mac", m), ip>> = <<Deleting("mac", e[1]), e[2]>>
        <4>1. Explained(<<Deleting("mac", m), ip>>) BY RestartFacts
        <4> QED BY <3>1, <3>2, <4>1 DEF Explained
      <3>4. e = <<e[1], e[2]>> BY <3>3, RestartFacts
      <3> QED BY <3>1, <3>2, <3>3, <3>4
    <2> QED BY <2>1, <2>2
  <1>8. ASSUME NEW ip \in IPs, NEW n, FirmExpiry(n, ip)
        PROVE  <<n, ip>> \in byExpiry' /\ <<Deleting("expiry", n), ip>> \notin doubtIndex'
    <2>1. <<n, ip>> \in byExpiry' BY <1>8, RestartFacts DEF FirmExpiry
    <2>2. <<Deleting("expiry", n), ip>> \notin doubtIndex'
      <3> SUFFICES ASSUME <<Deleting("expiry", n), ip>> \in doubtIndex' PROVE FALSE OBVIOUS
      <3>1. <<Deleting("expiry", n), ip>> \notin doubtIndex /\ <<n, ip>> \in byExpiry BY <1>8 DEF FirmExpiry
      <3>2. ASSUME NEW k PROVE Deleting("expiry", n) # Putting("mac", k) /\ Deleting("expiry", n) # Putting("expiry", k)
                               /\ Deleting("expiry", n) # Deleting("mac", k)
                               /\ (Deleting("expiry", n) = Deleting("expiry", k) => k = n)
        BY DEF Deleting, Putting
      <3>3. PICK e \in byExpiry' \ byExpiry : <<Deleting("expiry", n), ip>> = <<Deleting("expiry", e[1]), e[2]>>
        <4>1. Explained(<<Deleting("expiry", n), ip>>) BY RestartFacts
        <4> QED BY <3>1, <3>2, <4>1 DEF Explained
      <3>4. e = <<e[1], e[2]>> BY <3>3, RestartFacts
      <3> QED BY <3>1, <3>2, <3>3, <3>4
    <2> QED BY <2>1, <2>2
  <1>9. Covers'
    <2> SUFFICES ASSUME NEW ip \in IPs, lease'[ip] # NoLease, ip \notin half'
                 PROVE  /\ <<lease'[ip].mac, ip>> \in byMAC'
                        /\ <<Deleting("mac", lease'[ip].mac), ip>> \notin doubtIndex'
                        /\ <<lease'[ip].expiry, ip>> \in byExpiry'
                        /\ <<Deleting("expiry", lease'[ip].expiry), ip>> \notin doubtIndex'
      BY DEF Covers, FirmMAC, FirmExpiry
    <2>1. lease[ip] # NoLease /\ lease'[ip].mac = lease[ip].mac /\ lease'[ip].expiry = lease[ip].expiry
      BY <1>3, <1>6
    <2> DEFINE m == lease[ip].mac
               n == lease[ip].expiry
    <2>2. FirmMAC(m, ip) /\ FirmExpiry(n, ip)
      <3>1. CASE tx # NoTx /\ tx.ip = ip BY <1>3, <1>5, <3>1 DEF CoversTx
      <3>2. CASE ~(tx # NoTx /\ tx.ip = ip) BY <1>3, <2>1, <3>2 DEF Covers
      <3> QED BY <3>1, <3>2
    <2> HIDE DEF m, n
    <2>3. /\ <<m, ip>> \in byMAC' /\ <<Deleting("mac", m), ip>> \notin doubtIndex'
          /\ <<n, ip>> \in byExpiry' /\ <<Deleting("expiry", n), ip>> \notin doubtIndex'
      BY <1>7, <1>8, <2>2
    <2> QED BY <2>1, <2>3 DEF m, n
  <1>10. Exact'
    <2> SUFFICES ASSUME NEW ip \in IPs, ip \notin orphaned'
                 PROVE  /\ \A m \in MACs : <<m, ip>> \in byMAC' => lease'[ip] # NoLease /\ lease'[ip].mac = m
                        /\ \A n \in Nat : <<n, ip>> \in byExpiry' => lease'[ip] # NoLease /\ lease'[ip].expiry = n
      BY <1>1 DEF Exact
    <2>1. /\ \A m \in MACs : <<m, ip>> \in byMAC => lease[ip] # NoLease /\ lease[ip].mac = m
          /\ \A n \in Nat : <<n, ip>> \in byExpiry => lease[ip] # NoLease /\ lease[ip].expiry = n
      <3>1. CASE tx # NoTx /\ tx.ip = ip
        <4>1. New \in Leases /\ New # NoLease BY <3>1, TypeFacts, Distinct DEF LockOK, New, Jobs, Txs
        <4> QED BY <1>3, <1>5, <3>1, <4>1 DEF ExactTx
      <3>2. CASE ~(tx # NoTx /\ tx.ip = ip) BY <1>3, <3>2 DEF Exact
      <3> QED BY <3>1, <3>2
    <2>2. \A d \in doubtIndex : d[2] # ip BY <1>3 DEF DoubtsNoted
    <2>3. ASSUME NEW x
          PROVE  /\ <<x, ip>> \in byMAC' => <<x, ip>> \in byMAC
                 /\ <<x, ip>> \in byExpiry' => <<x, ip>> \in byExpiry
      <3>1. \A y : <<y, ip>> \notin doubtIndex BY <2>2
      <3>2. <<x, ip>>[2] = ip OBVIOUS
      <3>3. <<x, ip>> \notin byMAC' \ byMAC /\ <<x, ip>> \notin byExpiry' \ byExpiry
        BY <3>1, <3>2, RestartFacts
      <3> QED BY <3>3
    <2>4. Keyed(lease'[ip]) = Keyed(lease[ip]) BY <1>3
    <2>5. lease[ip] # NoLease => lease'[ip] # NoLease
      <3>1. lease[ip] \in Leases \cup {NoLease} /\ lease'[ip] \in Leases \cup {NoLease}
        BY RestartFacts DEF Types
      <3>2. (Keyed(lease[ip]) = NoLease <=> lease[ip] = NoLease)
            /\ (Keyed(lease'[ip]) = NoLease <=> lease'[ip] = NoLease)
        BY <3>1, KeyedFacts
      <3> QED BY <2>4, <3>2
    <2> QED BY <1>6, <2>1, <2>3, <2>4, <2>5
  <1>11. DoubtsNoted'
    <2> SUFFICES ASSUME NEW d \in doubtIndex' PROVE d[2] \in orphaned' BY DEF DoubtsNoted
    <2>1. CASE d \in doubtIndex BY <1>3, <2>1 DEF DoubtsNoted
    <2>2. CASE d \notin doubtIndex
      <3>1. Explained(d) BY RestartFacts
      <3>2. ASSUME NEW e, NEW x, NEW y, d = <<y, e[2]>>, <<x, e[2]>> \in doubtIndex
            PROVE  d[2] \in orphaned'
        <4>1. <<x, e[2]>>[2] \in orphaned BY <3>2 DEF DoubtsNoted
        <4> QED BY <1>3, <3>2, <4>1
      <3>3. CASE \E e \in byMAC \ byMAC' : d = <<Putting("mac", e[1]), e[2]>>
        <4>1. PICK e \in byMAC \ byMAC' : d = <<Putting("mac", e[1]), e[2]>> BY <3>3
        <4>2. <<Deleting("mac", e[1]), e[2]>> \in doubtIndex BY RestartFacts
        <4> QED BY <3>2, <4>1, <4>2
      <3>4. CASE \E e \in byMAC' \ byMAC : d = <<Deleting("mac", e[1]), e[2]>>
        <4>1. PICK e \in byMAC' \ byMAC : d = <<Deleting("mac", e[1]), e[2]>> BY <3>4
        <4>2. <<Putting("mac", e[1]), e[2]>> \in doubtIndex BY RestartFacts
        <4> QED BY <3>2, <4>1, <4>2
      <3>5. CASE \E e \in byExpiry \ byExpiry' : d = <<Putting("expiry", e[1]), e[2]>>
        <4>1. PICK e \in byExpiry \ byExpiry' : d = <<Putting("expiry", e[1]), e[2]>> BY <3>5
        <4>2. <<Deleting("expiry", e[1]), e[2]>> \in doubtIndex BY RestartFacts
        <4> QED BY <3>2, <4>1, <4>2
      <3>6. CASE \E e \in byExpiry' \ byExpiry : d = <<Deleting("expiry", e[1]), e[2]>>
        <4>1. PICK e \in byExpiry' \ byExpiry : d = <<Deleting("expiry", e[1]), e[2]>> BY <3>6
        <4>2. <<Putting("expiry", e[1]), e[2]>> \in doubtIndex BY RestartFacts
        <4> QED BY <3>2, <4>1, <4>2
      <3> QED BY <2>2, <3>1, <3>3, <3>4, <3>5, <3>6 DEF Explained
    <2> QED BY <2>1, <2>2
  <1> QED BY <1>2, <1>9, <1>10, <1>11

LEMMA IndexInit == Init => IndexInv
  <1> SUFFICES ASSUME Init PROVE IndexInv OBVIOUS
  <1>1. Types BY TypesInit
  <1>2. SweeperOK BY DEF Init, SweeperOK, NoSweep
  <1>3. LockOK /\ TxShape /\ CoversTx /\ ExactTx BY DEF Init, LockOK, TxShape, CoversTx, ExactTx
  <1>4. Covers /\ Exact /\ DoubtsNoted BY DEF Init, Covers, Exact, DoubtsNoted
  <1> QED BY <1>1, <1>2, <1>3, <1>4 DEF IndexInv

LEMMA IndexStep == IndexInv /\ [Next]_vars => IndexInv'
  <1> SUFFICES ASSUME IndexInv, [Next]_vars PROVE IndexInv' OBVIOUS
  <1>0. Types /\ LockOK /\ SweeperOK BY DEF IndexInv
  <1>1. Types'
    <2>1. CASE UNCHANGED vars
      BY <1>0, <2>1 DEF Types, vars, storeVars, envVars, ghostVars
    <2> QED BY <1>0, <2>1, TypesUpsert, TypesTransaction, TypesServer, TypesRelease, TypesSweep,
               TypesRestart, TypesOther DEF Next
  <1>2. SweeperOK'
    <2>1. CASE UNCHANGED sweep BY <1>0, <2>1 DEF SweeperOK
    <2>2. CASE Restart BY <2>2 DEF Restart, SweeperOK, NoSweep
    <2>3. CASE SweepList \/ SweepFetch \/ SweepExamine
      BY <1>0, <2>3 DEF SweepList, SweepFetch, SweepExamine, SweeperOK
    <2> QED BY <2>1, <2>2, <2>3
        DEF Next, vars, Tick, UpsertRead, UpsertPut, UpsertFail, UpsertIndex, UpsertDone, HandleDiscover,
            HandleRequest, ClientLeaves, MessageLost, HandleRelease, HandleDecline, ApiRelease
  <1>3. LockOK' /\ TxShape' /\ CoversTx' /\ Covers' /\ ExactTx' /\ Exact' /\ DoubtsNoted'
    <2>1. CASE UNCHANGED vars
      <3>1. Bystander BY <2>1 DEF Bystander, vars, storeVars, ghostVars
      <3> QED BY <3>1, BystanderKeeps
    <2>2. CASE Next
      <3>1. CASE Bystander BY <3>1, BystanderKeeps
      <3>2. ASSUME NEW w \in Writers, UpsertPut(w)
            PROVE  LockOK' /\ TxShape' /\ CoversTx' /\ Covers' /\ ExactTx' /\ Exact' /\ DoubtsNoted'
        BY <3>2, PutKeeps
      <3>3. CASE UpsertIndex BY <3>3, IndexKeeps
      <3>4. CASE UpsertDone \/ \E w \in Writers : UpsertFail(w) /\ job[w].step = "writing"
        BY <3>4, UnlockKeeps
      <3>5. CASE Restart BY <3>5, ReplayKeeps
      <3> QED BY <1>0, <2>2, <3>1, <3>2, <3>3, <3>4, <3>5, BystanderSteps DEF Next
    <2> QED BY <2>1, <2>2
  <1> QED BY <1>1, <1>2, <1>3 DEF IndexInv

\* Every reachable state of the DHCPv4 server, the lease store and the sweeper is
\* well typed.
THEOREM LeaseTypeCorrect == Spec => []TypeOK
  <1>1. IndexInv => TypeOK BY TypesSuffice DEF IndexInv
  <1> QED BY <1>1, IndexInit, IndexStep, PTL DEF Spec

\* EngineStore.upsert keeps every record findable through both indexes, whatever
\* upserts interleave, except while its transaction runs or after one cut short.
THEOREM IndexesCover == Spec => []IndexCovers
  <1>1. IndexInv => IndexCovers BY DEF IndexInv, Covers, FirmMAC, FirmExpiry, IndexCovers
  <1> QED BY <1>1, IndexInit, IndexStep, PTL DEF Spec

\* removeSecondaryIndexes leaves no foreign entry behind, unless two upserts of
\* the address overlapped or one was cut short.
THEOREM IndexesExact == Spec => []IndexExact
  <1>1. IndexInv => IndexExact BY ExactSuffices DEF IndexInv
  <1> QED BY <1>1, IndexInit, IndexStep, PTL DEF Spec

(***************************************************************************)
(* Addresses in use are backed.                                            *)
(***************************************************************************)
Gone == displaced \cup orphaned

\* What a grant under way will write: nobody else uses the address.
Grants(j) ==
    /\ j.ip \in used /\ j.new.expiry <= now + LeaseTime
    /\ j.kind = "ack" => j.new.state = "bound"
    /\ \A m \in MACs : hold[m] # NoHold /\ hold[m].ip = j.ip /\ j.ip \notin Gone =>
          j.kind = "ack" /\ j.new.mac = m /\ j.new.expiry >= hold[m].expiry

\* A fresh job was made from the record that is still stored; the sweeper
\* writes lapsed records only.
JobOK(w) ==
    LET j == job[w] IN
    j # NoJob =>
        /\ w = "server" => j.kind \in {"offer", "ack", "release", "decline"}
        /\ w = "sweeper" => j.kind = "sweep"
        /\ w = "api" => j.kind = "api"
        /\ j.fresh = TRUE /\ j.step # "writing" =>
              /\ lease[j.ip] # NoLease /\ lease[j.ip].mac = j.new.mac
              /\ j.kind = "sweep" => lease[j.ip].expiry = j.new.expiry
        /\ j.kind = "sweep" => j.ip \in displaced \/ j.new.expiry < now
        /\ j.kind \in {"offer", "ack"} => Grants(j)
        /\ j.kind \notin {"offer", "ack"} => GivenUp(j.new)
JobsOK == \A w \in Writers : JobOK(w)

TxOK ==
    tx # NoTx /\ tx.ip \notin Gone =>
        /\ job[tx.by].kind \notin {"offer", "ack"} => Old # NoLease /\ Old.mac = New.mac
        /\ job[tx.by].kind = "release" => ~Held(tx.ip)

SweepOK ==
    /\ sweep.at <= now
    /\ \A e \in sweep.scan : e[1] < sweep.at
    /\ \A b \in sweep.batch : b.ip \in displaced \/ b.rec.expiry < sweep.at

HoldTimes ==
    \A m \in MACs : hold[m] # NoHold => hold[m].expiry >= now /\ hold[m].expiry <= now + LeaseTime

\* A record that a restart may bring back says that it is given up, or backs
\* whoever uses the address; a Put that succeeded leaves none.
DoubtsBacked ==
    \A d \in doubtLeases : d[1] \notin Gone /\ ~GivenUp(d[2]) =>
        \A m \in MACs : hold[m] # NoHold /\ hold[m].ip = d[1] =>
            d[2].state = "bound" /\ d[2].mac = m /\ d[2].expiry >= hold[m].expiry
DoubtsAside == tx # NoTx => \A d \in doubtLeases : d[1] # tx.ip

HoldInv ==
    /\ IndexInv /\ JobsOK /\ TxOK /\ SweepOK /\ HoldTimes /\ HoldBacked
    /\ DoubtsBacked /\ DoubtsAside

\* A step that writes no record and starts no job: clients may leave, a job may
\* go on or be given up.
Quiet ==
    /\ UNCHANGED <<lease, used>>
    /\ now' \in Nat /\ now <= now'
    /\ \A m \in MACs : hold'[m] = NoHold \/ hold'[m] = hold[m]
    /\ displaced \subseteq displaced' /\ orphaned \subseteq orphaned'
    /\ \A w \in Writers : job'[w] # NoJob =>
          /\ job[w] # NoJob /\ job'[w].kind = job[w].kind /\ job'[w].ip = job[w].ip
          /\ job'[w].new = job[w].new /\ job'[w].fresh = job[w].fresh
          /\ job[w].step = "writing" => job'[w].step = "writing"
    /\ tx' # NoTx => tx # NoTx /\ tx'.by = tx.by /\ tx'.ip = tx.ip /\ job'[tx.by] = job[tx.by]

LEMMA HoldBackedParts ==
    ASSUME HoldBacked, NEW m \in MACs, hold[m] # NoHold, hold[m].ip \notin Gone
    PROVE  /\ lease[hold[m].ip].state = "bound" /\ lease[hold[m].ip].mac = m
           /\ lease[hold[m].ip].expiry >= hold[m].expiry /\ hold[m].ip \in used
  BY DEF HoldBacked, Gone

LEMMA QuietKeeps ==
    ASSUME HoldInv, IndexInv', Quiet
    PROVE  JobsOK' /\ TxOK' /\ HoldBacked'
  <1> USE DEF HoldInv
  <1>0. Types /\ now \in Nat /\ LeaseTime \in Nat BY TimeAssumption DEF IndexInv, Types
  <1>1. Gone \subseteq Gone' BY DEF Quiet, Gone
  <1>2. ASSUME NEW m \in MACs, hold'[m] # NoHold PROVE hold'[m] = hold[m] /\ hold[m] # NoHold
    BY <1>2 DEF Quiet
  <1>3. ASSUME NEW w \in Writers PROVE JobOK(w)'
    <2> SUFFICES ASSUME job'[w] # NoJob PROVE JobOK(w)' BY DEF JobOK
    <2>1. job[w] # NoJob /\ job[w] \in Jobs BY <1>0, TypeFacts DEF Quiet
    <2>2. JobOK(w) BY DEF JobsOK
    <2>3. /\ job'[w].kind = job[w].kind /\ job'[w].ip = job[w].ip
          /\ job'[w].new = job[w].new /\ job'[w].fresh = job[w].fresh
          /\ job[w].step = "writing" => job'[w].step = "writing"
      BY DEF Quiet
    <2>4. job[w].new.expiry \in Nat BY <2>1 DEF Jobs, Leases
    <2>5. Grants(job[w]) => Grants(job[w])'
      BY <1>0, <1>1, <1>2, <2>3, <2>4 DEF Grants, Quiet
    <2>6. job[w].kind = "sweep" => job[w].ip \in displaced' \/ job[w].new.expiry < now'
      BY <1>0, <2>1, <2>2, <2>4 DEF JobOK, Quiet
    <2>7. lease' = lease BY DEF Quiet
    <2> QED BY <2>1, <2>2, <2>3, <2>5, <2>6, <2>7 DEF JobOK
  <1>4. TxOK'
    <2> SUFFICES ASSUME tx' # NoTx, tx.ip \notin Gone'
                 PROVE  /\ job[tx.by].kind \notin {"offer", "ack"} => Old # NoLease /\ Old.mac = New.mac
                        /\ job[tx.by].kind = "release" => ~Held(tx.ip)'
      BY DEF TxOK, Quiet, Old, New, Held
    <2>1. tx # NoTx /\ tx.ip \notin Gone BY <1>1 DEF Quiet
    <2>2. Held(tx.ip)' => Held(tx.ip) BY <1>2 DEF Held, Quiet
    <2> QED BY <2>1, <2>2 DEF TxOK
  <1>5. HoldBacked'
    <2> SUFFICES ASSUME NEW m \in MACs, hold'[m] # NoHold, hold'[m].ip \notin Gone'
                 PROVE  /\ lease[hold'[m].ip].state = "bound" /\ lease[hold'[m].ip].mac = m
                        /\ lease[hold'[m].ip].expiry >= hold'[m].expiry /\ hold'[m].ip \in used
      BY DEF HoldBacked, Gone, Quiet
    <2> QED BY <1>1, <1>2, HoldBackedParts
  <1> QED BY <1>3, <1>4, <1>5 DEF JobsOK

LEMMA QuietSteps ==
    ASSUME IndexInv, IndexInv',
           \/ Tick \/ SweepList \/ SweepFetch \/ UpsertIndex
           \/ \E w \in Writers : UpsertRead(w) \/ UpsertFail(w)
           \/ \E mac \in MACs, kind \in Leaving : ClientLeaves(mac, kind)
           \/ \E msg \in net : MessageLost(msg)
    PROVE  Quiet
  <1> USE DEF storeVars, envVars, ghostVars
  <1>0. Types /\ now \in Nat /\ LockOK BY DEF IndexInv, Types
  <1>1. CASE Tick BY <1>0, <1>1 DEF Tick, Quiet
  <1>2. CASE SweepList BY <1>0, <1>2 DEF SweepList, Quiet
  <1>3. CASE SweepFetch
    <2>1. displaced \subseteq displaced' BY <1>3 DEF SweepFetch
    <2>2. UNCHANGED <<now, lease, used, job, tx, hold, orphaned>> BY <1>3 DEF SweepFetch
    <2> QED BY <1>0, <2>1, <2>2 DEF Quiet
  <1>4. CASE UpsertIndex
    <2>1. tx \in Txs BY <1>0, <1>4, TypeFacts DEF UpsertIndex
    <2>2. tx'.by = tx.by /\ tx'.ip = tx.ip BY <1>4, <2>1 DEF UpsertIndex, Txs
    <2> QED BY <1>0, <1>4, <2>2 DEF UpsertIndex, Quiet
  <1>5. ASSUME NEW w \in Writers, UpsertRead(w) PROVE Quiet
    <2>1. job[w] # NoJob /\ job[w] \in Jobs /\ job[w].step = "read"
      BY <1>0, <1>5, TypeFacts DEF UpsertRead
    <2>2. \A v \in Writers : v # w => job'[v] = job[v] BY <1>0, <1>5 DEF UpsertRead, Types
    <2>3. /\ job'[w].kind = job[w].kind /\ job'[w].ip = job[w].ip
          /\ job'[w].new = job[w].new /\ job'[w].fresh = job[w].fresh
      BY <1>0, <1>5, <2>1 DEF UpsertRead, Types, Jobs
    <2>4. tx # NoTx => tx.by # w /\ tx.by \in Writers BY <1>0, <2>1, TypeFacts DEF LockOK, Txs
    <2>5. UNCHANGED <<now, lease, used, tx, hold, displaced, orphaned>> BY <1>5 DEF UpsertRead
    <2>6. tx' # NoTx => tx # NoTx /\ tx'.by = tx.by /\ tx'.ip = tx.ip /\ job'[tx.by] = job[tx.by]
      BY <2>2, <2>4, <2>5
    <2>7. \A v \in Writers : job'[v] # NoJob =>
            /\ job[v] # NoJob /\ job'[v].kind = job[v].kind /\ job'[v].ip = job[v].ip
            /\ job'[v].new = job[v].new /\ job'[v].fresh = job[v].fresh
            /\ job[v].step = "writing" => job'[v].step = "writing"
      BY <2>1, <2>2, <2>3
    <2> QED BY <1>0, <2>5, <2>6, <2>7 DEF Quiet
  <1>6. ASSUME NEW w \in Writers, UpsertFail(w) PROVE Quiet
    <2>1. job'[w] = NoJob /\ \A v \in Writers : v # w => job'[v] = job[v]
      BY <1>0, <1>6 DEF UpsertFail, Types
    <2>2. tx' # NoTx => tx' = tx /\ job'[tx.by] = job[tx.by]
      <3> SUFFICES ASSUME tx' # NoTx PROVE tx' = tx /\ job'[tx.by] = job[tx.by] OBVIOUS
      <3>1. tx' = tx /\ job[w].step # "writing" BY <1>6 DEF UpsertFail
      <3>2. tx.by \in Writers /\ tx.by # w BY <1>0, <3>1, TypeFacts DEF LockOK, Txs
      <3> QED BY <2>1, <3>1, <3>2
    <2>3. orphaned \subseteq orphaned' BY <1>6 DEF UpsertFail
    <2> QED BY <1>0, <1>6, <2>1, <2>2, <2>3 DEF UpsertFail, Quiet
  <1>7. ASSUME NEW mac \in MACs, NEW kind \in Leaving, ClientLeaves(mac, kind) PROVE Quiet
    <2>1. \A m \in MACs : hold'[m] = NoHold \/ hold'[m] = hold[m] BY <1>0, <1>7 DEF ClientLeaves, Types
    <2> QED BY <1>0, <1>7, <2>1 DEF ClientLeaves, Quiet
  <1>8. ASSUME NEW msg \in net, MessageLost(msg) PROVE Quiet
    BY <1>0, <1>8 DEF MessageLost, Quiet
  <1> QED BY <1>1, <1>2, <1>3, <1>4, <1>5, <1>6, <1>7, <1>8

\* An idle goroutine starts an upsert that is as JobOK says.
LEMMA StartKeeps ==
    ASSUME HoldInv, IndexInv', NEW w \in Writers, NEW kind, NEW ip, NEW fresh \in BOOLEAN, NEW new,
           job[w] = NoJob, StartUpsert(w, kind, ip, fresh, new),
           UNCHANGED <<now, lease, tx, displaced, orphaned>>, used \subseteq used',
           \A m \in MACs : hold'[m] = NoHold \/ hold'[m] = hold[m],
           JobOK(w)'
    PROVE  JobsOK' /\ TxOK' /\ HoldBacked'
  <1> USE DEF HoldInv
  <1>0. Types /\ LockOK BY DEF IndexInv
  <1>1. Gone' = Gone BY DEF Gone
  <1>2. ASSUME NEW m \in MACs, hold'[m] # NoHold PROVE hold'[m] = hold[m] /\ hold[m] # NoHold
    BY <1>2
  <1>3. \A v \in Writers : v # w => job'[v] = job[v] BY <1>0 DEF StartUpsert, Types
  <1>4. ASSUME NEW v \in Writers, v # w PROVE JobOK(v)'
    <2>1. job'[v] = job[v] /\ JobOK(v) BY <1>3, <1>4 DEF JobsOK
    <2>2. Grants(job[v]) => Grants(job[v])' BY <1>1, <1>2, <2>1 DEF Grants
    <2> QED BY <2>1, <2>2 DEF JobOK
  <1>5. TxOK'
    <2> SUFFICES ASSUME tx # NoTx, tx.ip \notin Gone PROVE TxOK' BY <1>1 DEF TxOK
    <2>1. tx.by \in Writers /\ tx.by # w BY <1>0, TypeFacts DEF LockOK, Txs
    <2>2. job'[tx.by] = job[tx.by] BY <1>3, <2>1
    <2>3. Old' = Old /\ New' = New BY <2>2 DEF Old, New
    <2>4. Held(tx.ip)' => Held(tx.ip) BY <1>2 DEF Held
    <2> QED BY <1>1, <2>2, <2>3, <2>4 DEF TxOK
  <1>6. HoldBacked'
    <2> SUFFICES ASSUME NEW m \in MACs, hold'[m] # NoHold, hold'[m].ip \notin Gone
                 PROVE  /\ lease[hold'[m].ip].state = "bound" /\ lease[hold'[m].ip].mac = m
                        /\ lease[hold'[m].ip].expiry >= hold'[m].expiry /\ hold'[m].ip \in used'
      BY <1>1 DEF HoldBacked, Gone
    <2> QED BY <1>2, HoldBackedParts
  <1> QED BY <1>4, <1>5, <1>6 DEF JobsOK

\* GetByMAC compares nothing, and yet the entry it finds names the client of the
\* record while the packet loop is idle, unless the address is gone.
LEMMA IndexNamesOwner ==
    ASSUME HoldInv, ServerIdle, NEW mac \in MACs, NEW ip \in IPs, ip \notin Gone, <<mac, ip>> \in byMAC
    PROVE  lease[ip].mac = mac
  <1> USE DEF HoldInv
  <1>0. Types /\ LockOK /\ Exact /\ ExactTx BY DEF IndexInv
  <1>1. ip \notin orphaned BY DEF Gone
  <1>2. CASE tx = NoTx \/ tx.ip # ip BY <1>0, <1>1, <1>2 DEF Exact
  <1>3. CASE tx # NoTx /\ tx.ip = ip
    <2>1. tx.by \in Writers /\ tx.by # "server" /\ job[tx.by] # NoJob /\ lease[ip] = New
      BY <1>0, <1>3, TypeFacts DEF LockOK, Txs, ServerIdle, New
    <2>2. job[tx.by].kind \notin {"offer", "ack"}
      BY <2>1, WritersAssumption DEF JobsOK, JobOK
    <2>3. Old.mac = New.mac BY <1>3, <2>2 DEF TxOK
    <2> QED BY <1>0, <1>1, <1>3, <2>1, <2>3 DEF ExactTx
  <1> QED BY <1>2, <1>3

LEMMA StartedJob ==
    ASSUME Types, NEW w \in Writers, NEW kind, NEW ip, NEW fresh, NEW new,
           StartUpsert(w, kind, ip, fresh, new)
    PROVE  /\ job'[w].kind = kind /\ job'[w].ip = ip /\ job'[w].new = new /\ job'[w].fresh = fresh
  BY DEF StartUpsert, Types

\* Allocate gives out no address that somebody else uses.
LEMMA GrantKeeps ==
    ASSUME HoldInv, IndexInv', NEW mac \in MACs, NEW target \in IPs,
           (\E rapidCommit \in BOOLEAN : HandleDiscover(mac, target, rapidCommit))
           \/ HandleRequest(mac, target)
    PROVE  JobsOK' /\ TxOK' /\ HoldBacked'
  <1> USE DEF HoldInv, storeVars, envVars, ghostVars
  <1>0. Types /\ LockOK /\ now \in Nat /\ LeaseTime \in Nat /\ "server" \in Writers
    BY TimeAssumption, WritersAssumption DEF IndexInv, Types
  <1>1. /\ ServerIdle /\ UNCHANGED <<now, lease, tx, displaced, orphaned>>
        /\ \A m \in MACs : hold'[m] = NoHold \/ hold'[m] = hold[m]
    BY <1>0 DEF HandleDiscover, HandleRequest, Types
  <1>2. CASE UNCHANGED <<used, job>>
    <2>1. Quiet BY <1>0, <1>1, <1>2 DEF Quiet
    <2> QED BY <2>1, QuietKeeps
  <1>3. ASSUME NEW ip \in Allocate(mac, target), NEW kind \in {"ack", "offer"},
               NEW state \in {"bound", "offered"}, used' = used \cup {ip},
               StartUpsert("server", kind, ip, FALSE, NewLease(mac, state)),
               kind = "ack" => state = "bound",
               kind = "offer" => hold'[mac] = NoHold
        PROVE  JobsOK' /\ TxOK' /\ HoldBacked'
    <2>1. ip \in IPs /\ (ip \in Reusable(mac) \/ ip \notin used) BY <1>0, AllocateFacts
    <2> DEFINE j == job'["server"]
    <2>2. j.kind = kind /\ j.ip = ip /\ j.new = NewLease(mac, state) /\ j.fresh = FALSE
      BY <1>0, <1>3, StartedJob
    <2>3. j.new.mac = mac /\ j.new.state = state /\ j.new.expiry = now + LeaseTime
      BY <2>2 DEF NewLease
    <2>4. ASSUME NEW m \in MACs, hold'[m] # NoHold, hold'[m].ip = ip, ip \notin Gone
          PROVE  kind = "ack" /\ mac = m /\ now + LeaseTime >= hold'[m].expiry
      <3>1. hold[m] # NoHold /\ hold'[m] = hold[m] BY <1>1, <2>4
      <3>2. lease[ip].mac = m /\ ip \in used BY <2>4, <3>1, HoldBackedParts
      <3>3. <<mac, ip>> \in byMAC BY <2>1, <3>2 DEF Reusable
      <3>4. mac = m BY <1>1, <2>1, <2>4, <3>2, <3>3, IndexNamesOwner
      <3>5. kind = "ack" BY <1>3, <2>4, <3>4
      <3> QED BY <3>1, <3>4, <3>5 DEF HoldTimes
    <2>5. Gone' = Gone BY <1>1 DEF Gone
    <2>6. Grants(job["server"])'
      <3>1. j.ip \in used' BY <1>3, <2>2
      <3>2. j.new.expiry <= now' + LeaseTime BY <1>0, <1>1, <2>3
      <3>3. j.kind = "ack" => j.new.state = "bound" BY <1>3, <2>2, <2>3
      <3>4. \A m \in MACs : hold'[m] # NoHold /\ hold'[m].ip = j.ip /\ j.ip \notin Gone' =>
                j.kind = "ack" /\ j.new.mac = m /\ j.new.expiry >= hold'[m].expiry
        BY <2>2, <2>3, <2>4, <2>5
      <3> QED BY <3>1, <3>2, <3>3, <3>4 DEF Grants
    <2>7. JobOK("server")' BY <1>3, <2>2, <2>6 DEF JobOK
    <2>8. job["server"] = NoJob /\ used \subseteq used' /\ FALSE \in BOOLEAN BY <1>1, <1>3 DEF ServerIdle
    <2> QED BY <1>0, <1>1, <1>3, <2>7, <2>8, StartKeeps
  <1>4. ASSUME NEW rapidCommit \in BOOLEAN, HandleDiscover(mac, target, rapidCommit), ~UNCHANGED <<used, job>>
        PROVE  JobsOK' /\ TxOK' /\ HoldBacked'
    <2>1. hold'[mac] = NoHold BY <1>0, <1>4 DEF HandleDiscover, Types
    <2> QED BY <1>3, <1>4, <2>1 DEF HandleDiscover
  <1>5. CASE HandleRequest(mac, target) BY <1>2, <1>3, <1>5 DEF HandleRequest
  <1> QED BY <1>2, <1>4, <1>5

LEMMA ReleaseKeeps ==
    ASSUME HoldInv, IndexInv', NEW ip \in IPs, HandleRelease(ip) \/ HandleDecline(ip) \/ ApiRelease(ip)
    PROVE  JobsOK' /\ TxOK' /\ HoldBacked'
  <1> USE DEF HoldInv, storeVars, envVars, ghostVars
  <1>0. Types /\ now \in Nat /\ "server" \in Writers BY WritersAssumption DEF IndexInv, Types
  <1>1. UNCHANGED <<now, lease, tx, used, hold, displaced, orphaned>>
    BY DEF HandleRelease, HandleDecline, ApiRelease
  <1>2. CASE UNCHANGED job
    <2>1. Quiet BY <1>0, <1>1, <1>2 DEF Quiet
    <2> QED BY <2>1, QuietKeeps
  <1>3. ASSUME NEW w \in Writers, NEW kind, NEW new, job[w] = NoJob, lease[ip] # NoLease,
               StartUpsert(w, kind, ip, TRUE, new), new.mac = lease[ip].mac, GivenUp(new),
               (w = "server" /\ kind \in {"release", "decline"}) \/ (w = "api" /\ kind = "api")
        PROVE  JobsOK' /\ TxOK' /\ HoldBacked'
    <2>1. job'[w].kind = kind /\ job'[w].ip = ip /\ job'[w].new = new BY <1>0, <1>3, StartedJob, ZenonT(30)
    <2>2. JobOK(w)' BY <1>1, <1>3, <2>1 DEF JobOK
    <2>3. used \subseteq used' /\ TRUE \in BOOLEAN BY <1>1
    <2> QED BY <1>1, <1>3, <2>2, <2>3, StartKeeps
  <1>4. lease[ip] # NoLease => Released(lease[ip]).mac = lease[ip].mac /\ Declined(lease[ip]).mac = lease[ip].mac
    BY <1>0, TypeFacts, NewLeaseTypes
  <1>8. lease[ip] # NoLease => GivenUp(Released(lease[ip])) /\ GivenUp(Declined(lease[ip]))
    BY <1>0, TypeFacts DEF Released, Declined, GivenUp, Leases
  <1>5. CASE HandleRelease(ip) BY <1>0, <1>2, <1>3, <1>4, <1>5, <1>8 DEF HandleRelease, ServerIdle
  <1>6. CASE HandleDecline(ip) BY <1>0, <1>2, <1>3, <1>4, <1>6, <1>8 DEF HandleDecline, ServerIdle
  <1>7. CASE ApiRelease(ip) BY <1>3, <1>4, <1>7, <1>8 DEF ApiRelease
  <1> QED BY <1>5, <1>6, <1>7

LEMMA ExamineKeeps ==
    ASSUME HoldInv, IndexInv', SweepExamine
    PROVE  JobsOK' /\ TxOK' /\ HoldBacked'
  <1> USE DEF HoldInv, storeVars, envVars, ghostVars
  <1>0. /\ Types /\ now \in Nat /\ sweep.at \in Nat
        /\ "sweeper" \in Writers /\ job["sweeper"] = NoJob
    BY DEF IndexInv, Types, SweeperOK, SweepExamine
  <1>1. UNCHANGED <<now, lease, tx, used, hold, displaced, orphaned>> BY DEF SweepExamine
  <1>2. PICK b \in sweep.batch :
            \/ UNCHANGED job
            \/ /\ Swept(b.rec, sweep.at) # b.rec
               /\ StartUpsert("sweeper", "sweep", b.ip, b.rec = lease[b.ip], Swept(b.rec, sweep.at))
    BY DEF SweepExamine
  <1>3. CASE UNCHANGED job
    <2>1. Quiet BY <1>0, <1>1, <1>3 DEF Quiet
    <2> QED BY <2>1, QuietKeeps
  <1>4. CASE /\ Swept(b.rec, sweep.at) # b.rec
             /\ StartUpsert("sweeper", "sweep", b.ip, b.rec = lease[b.ip], Swept(b.rec, sweep.at))
    <2>8. GivenUp(Swept(b.rec, sweep.at))
      <3>1. b.rec \in Leases BY <1>0 DEF Types
      <3> QED BY <1>4, <3>1 DEF Swept, GivenUp, Leases
    <2>1. b.ip \in IPs /\ b.rec \in Leases BY <1>0 DEF Types
    <2>2. /\ Swept(b.rec, sweep.at).mac = b.rec.mac /\ Swept(b.rec, sweep.at).expiry = b.rec.expiry
      BY <1>0, <2>1, SweptKeeps
    <2> DEFINE j == job'["sweeper"]
    <2>3. j.kind = "sweep" /\ j.ip = b.ip /\ j.new = Swept(b.rec, sweep.at) /\ j.fresh = (b.rec = lease[b.ip])
      BY <1>0, <1>4, StartedJob
    <2>4. j.fresh = TRUE => lease[b.ip] = b.rec /\ lease[b.ip] # NoLease BY <2>1, <2>3, Distinct
    <2>5. b.ip \in displaced \/ b.rec.expiry < now
      <3>1. b.ip \in displaced \/ b.rec.expiry < sweep.at BY DEF SweepOK
      <3>2. b.rec.expiry \in Nat /\ sweep.at <= now BY <2>1 DEF Leases, SweepOK
      <3> QED BY <1>0, <3>1, <3>2
    <2>6. JobOK("sweeper")' BY <1>1, <2>2, <2>3, <2>4, <2>5, <2>8 DEF JobOK
    <2>7. used \subseteq used' /\ (b.rec = lease[b.ip]) \in BOOLEAN BY <1>1
    <2> QED BY <1>0, <1>1, <1>4, <2>6, <2>7, StartKeeps
  <1> QED BY <1>2, <1>3, <1>4

LEMMA PutBacked ==
    ASSUME HoldInv, IndexInv', NEW w \in Writers, UpsertPut(w)
    PROVE  JobsOK' /\ TxOK' /\ HoldBacked'
  <1> USE DEF HoldInv
  <1> DEFINE j == job[w]
  <1>0. Types /\ now \in Nat /\ LockOK BY DEF IndexInv, Types
  <1>1. j # NoJob /\ j \in Jobs /\ j.step = "commit" /\ tx = NoTx BY <1>0, TypeFacts DEF UpsertPut
  <1>2. j.ip \in IPs /\ j.new \in Leases /\ j.kind \in Kinds /\ j.fresh \in BOOLEAN BY <1>1 DEF Jobs
  <1>3. UNCHANGED <<now, used, hold>> BY DEF UpsertPut, envVars
  <1>4. lease'[j.ip] = j.new /\ \A ip \in IPs : ip # j.ip => lease'[ip] = lease[ip]
    BY <1>0, <1>2 DEF UpsertPut, Types
  <1>5. /\ displaced \subseteq displaced' /\ orphaned \subseteq orphaned'
        /\ j.kind \in {"release", "decline", "api"} /\ Held(j.ip) => j.ip \in displaced'
        /\ j.kind \notin {"offer", "ack"} /\ ~j.fresh => j.ip \in displaced'
        /\ j.old # Keyed(lease[j.ip]) => j.ip \in orphaned'
    BY DEF UpsertPut
  <1>6. Gone \subseteq Gone' BY <1>5 DEF Gone
  <1>7. JobOK(w) BY DEF JobsOK
  <1>8. /\ job'[w].step = "writing" /\ job'[w].ip = j.ip /\ job'[w].new = j.new /\ job'[w].old = j.old
        /\ job'[w].kind = j.kind
    BY <1>0, <1>1 DEF UpsertPut, Types, Jobs
  <1>9. ASSUME NEW v \in Writers PROVE JobOK(v)'
    <2> SUFFICES ASSUME job'[v] # NoJob PROVE JobOK(v)' BY DEF JobOK
    <2>1. JobOK(v) BY DEF JobsOK
    <2>2. job[v] # NoJob /\ job[v] \in Jobs BY <1>0, <1>1, TypeFacts DEF UpsertPut
    <2>3. /\ job'[v].kind = job[v].kind /\ job'[v].ip = job[v].ip /\ job'[v].new = job[v].new
      BY <1>0, <2>2 DEF UpsertPut, Types, Jobs
    <2>4. job[v].ip \in IPs BY <2>2 DEF Jobs
    <2>5. job'[v].step # "writing" /\ job'[v].fresh = TRUE =>
              job'[v] = job[v] /\ job[v].ip # j.ip
      <3>1. CASE v = w BY <1>8, <3>1
      <3>2. CASE v # w /\ job[v].ip = j.ip
        <4>1. job'[v] = [job[v] EXCEPT !.fresh = FALSE] BY <2>2, <3>2 DEF UpsertPut
        <4>2. job'[v].fresh = FALSE BY <2>2, <4>1 DEF Jobs
        <4> QED BY <4>2
      <3>3. CASE v # w /\ job[v].ip # j.ip BY <3>3 DEF UpsertPut
      <3> QED BY <3>1, <3>2, <3>3
    <2>6. Grants(job[v]) => Grants(job[v])' BY <1>3, <1>6, <2>3 DEF Grants
    <2> QED BY <1>3, <1>4, <1>5, <2>1, <2>2, <2>3, <2>4, <2>5, <2>6 DEF JobOK
  <1>10. tx'.by = w /\ tx'.ip = j.ip /\ Old' = j.old /\ New' = j.new
    BY <1>8 DEF UpsertPut, Old, New
  <1>11. TxOK'
    <2> SUFFICES ASSUME j.ip \notin Gone'
                 PROVE  /\ j.kind \notin {"offer", "ack"} => j.old # NoLease /\ j.old.mac = j.new.mac
                        /\ j.kind = "release" => ~Held(j.ip)'
      BY <1>8, <1>10 DEF TxOK
    <2>1. j.old = Keyed(lease[j.ip]) /\ j.ip \notin displaced' BY <1>5 DEF Gone
    <2>2. j.kind = "release" => ~Held(j.ip)' BY <1>3, <1>5, <1>8, <2>1 DEF Held
    <2>3. ASSUME j.kind \notin {"offer", "ack"} PROVE j.old # NoLease /\ j.old.mac = j.new.mac
      <3>1. j.fresh = TRUE BY <1>2, <1>5, <2>1, <2>3
      <3>2. lease[j.ip] # NoLease /\ lease[j.ip].mac = j.new.mac BY <1>1, <1>7, <3>1 DEF JobOK
      <3>3. lease[j.ip] \in Leases \cup {NoLease} BY <1>0, <1>2 DEF Types
      <3> QED BY <2>1, <3>2, <3>3, KeyedFacts
    <2> QED BY <2>2, <2>3
  <1>12. HoldBacked'
    <2> SUFFICES ASSUME NEW m \in MACs, hold[m] # NoHold, hold[m].ip \notin Gone'
                 PROVE  /\ lease'[hold[m].ip].state = "bound" /\ lease'[hold[m].ip].mac = m
                        /\ lease'[hold[m].ip].expiry >= hold[m].expiry /\ hold[m].ip \in used
      BY <1>3 DEF HoldBacked, Gone
    <2>1. hold[m].ip \in IPs /\ hold[m].expiry \in Nat BY <1>0, TypeFacts DEF Holds
    <2>2. /\ lease[hold[m].ip].state = "bound" /\ lease[hold[m].ip].mac = m
          /\ lease[hold[m].ip].expiry >= hold[m].expiry /\ hold[m].ip \in used
      BY <1>6, HoldBackedParts
    <2>3. CASE hold[m].ip # j.ip BY <1>4, <2>1, <2>2, <2>3
    <2>4. CASE hold[m].ip = j.ip
      <3>1. Held(j.ip) /\ j.ip \notin displaced' /\ j.ip \notin Gone BY <1>6, <2>4 DEF Held, Gone
      <3>2. j.kind \in {"offer", "ack", "sweep"} BY <1>2, <1>5, <3>1 DEF Kinds
      <3>3. CASE j.kind \in {"offer", "ack"}
        <4>1. Grants(j) BY <1>1, <1>7, <3>3 DEF JobOK
        <4> QED BY <1>4, <2>2, <2>4, <3>1, <4>1 DEF Grants
      <3>4. CASE j.kind = "sweep"
        <4>1. j.fresh = TRUE BY <1>2, <1>5, <3>1, <3>4
        <4>2. lease[j.ip].expiry = j.new.expiry /\ (j.ip \in displaced \/ j.new.expiry < now)
          BY <1>1, <1>7, <3>4, <4>1 DEF JobOK
        <4>3. j.new.expiry < now BY <1>5, <3>1, <4>2
        <4>4. hold[m].expiry >= now /\ j.new.expiry >= hold[m].expiry BY <2>2, <2>4, <4>2 DEF HoldTimes
        <4>5. j.new.expiry \in Nat BY <1>2 DEF Leases
        <4> QED BY <1>0, <2>1, <4>3, <4>4, <4>5
      <3> QED BY <3>2, <3>3, <3>4
    <2> QED BY <2>3, <2>4
  <1> QED BY <1>9, <1>11, <1>12 DEF JobsOK

LEMMA DoneBacked ==
    ASSUME HoldInv, IndexInv', UpsertDone
    PROVE  JobsOK' /\ TxOK' /\ HoldBacked' /\ HoldTimes'
  <1> USE DEF HoldInv
  <1>0. Types /\ now \in Nat /\ LockOK BY DEF IndexInv, Types
  <1>1. tx # NoTx /\ tx \in Txs BY <1>0, TypeFacts DEF UpsertDone
  <1>2. tx.by \in Writers /\ tx.ip \in IPs BY <1>1 DEF Txs
  <1> DEFINE j == job[tx.by]
  <1>3. j # NoJob /\ j \in Jobs /\ j.ip = tx.ip /\ lease[tx.ip] = j.new
    BY <1>0, <1>1, <1>2, TypeFacts DEF LockOK
  <1>4. j.new \in Leases /\ j.new.mac \in MACs /\ j.new.expiry \in Nat BY <1>3 DEF Jobs, Leases
  <1>5. JobOK(tx.by) BY <1>2 DEF JobsOK
  <1>6. UNCHANGED <<now, lease, displaced, orphaned>> /\ tx' = NoTx BY DEF UpsertDone, storeVars
  <1>7. Gone' = Gone BY <1>6 DEF Gone
  <1>8. j.kind \in {"ack", "release"} => tx.by = "server"
    BY <1>2, <1>3, <1>5, WritersAssumption DEF JobOK
  <1>9. used' = IF j.kind = "release" THEN used \ {tx.ip} ELSE used BY DEF UpsertDone
  <1>10. \/ hold' = hold
         \/ /\ j.kind = "ack" /\ j.new.expiry >= now
            /\ hold' = [hold EXCEPT ![j.new.mac] = [ip |-> tx.ip, expiry |-> j.new.expiry]]
    BY <1>0, <1>4 DEF UpsertDone
  <1>11. TxOK' BY <1>6 DEF TxOK
  <1>12. ASSUME NEW w \in Writers, job'[w] # NoJob PROVE JobOK(w)'
    <2>1. w # tx.by /\ job'[w] = job[w] BY <1>0, <1>12 DEF UpsertDone, Types
    <2>2. JobOK(w) BY DEF JobsOK
    <2>3. job[w].kind \in {"offer", "ack"} => w = "server"
      BY <1>12, <2>1, <2>2, WritersAssumption DEF JobOK
    <2>4. job[w].kind \in {"offer", "ack"} => Grants(job[w])'
      <3> SUFFICES ASSUME job[w].kind \in {"offer", "ack"} PROVE Grants(job[w])' OBVIOUS
      <3>1. hold' = hold /\ used' = used BY <1>8, <1>9, <1>10, <2>1, <2>3
      <3>2. Grants(job[w]) BY <1>12, <2>1, <2>2 DEF JobOK
      <3> QED BY <1>6, <1>7, <2>1, <3>1, <3>2 DEF Grants
    <2> QED BY <1>6, <2>1, <2>2, <2>4 DEF JobOK
  <1>13. JobsOK' BY <1>12 DEF JobsOK, JobOK
  <1>14. j.kind = "ack" => Grants(j) BY <1>3, <1>5 DEF JobOK
  <1>15. HoldTimes'
    <2>1. j.kind = "ack" => j.new.expiry <= now + LeaseTime BY <1>14 DEF Grants
    <2>2. \A m \in MACs : hold'[m] = hold[m] \/
              (j.kind = "ack" /\ j.new.expiry >= now /\ hold'[m].expiry = j.new.expiry)
      BY <1>0, <1>10 DEF Types
    <2> QED BY <1>6, <2>1, <2>2 DEF HoldTimes
  <1>16. HoldBacked'
    <2> SUFFICES ASSUME NEW m \in MACs, hold'[m] # NoHold, hold'[m].ip \notin Gone
                 PROVE  /\ lease[hold'[m].ip].state = "bound" /\ lease[hold'[m].ip].mac = m
                        /\ lease[hold'[m].ip].expiry >= hold'[m].expiry /\ hold'[m].ip \in used'
      BY <1>6, <1>7 DEF HoldBacked, Gone
    <2>1. CASE hold'[m] = hold[m]
      <3>1. hold[m].ip = tx.ip => j.kind # "release" BY <1>1, <2>1 DEF TxOK, Held
      <3> QED BY <1>9, <2>1, <3>1, HoldBackedParts
    <2>2. CASE hold'[m] # hold[m]
      <3>1. j.kind = "ack" /\ m = j.new.mac /\ hold'[m] = [ip |-> tx.ip, expiry |-> j.new.expiry]
        BY <1>0, <1>10, <2>2 DEF Types
      <3>2. j.new.state = "bound" /\ tx.ip \in used BY <1>3, <1>14, <3>1 DEF Grants
      <3>3. used' = used BY <1>9, <3>1
      <3> QED BY <1>3, <1>4, <3>1, <3>2, <3>3
    <2> QED BY <2>1, <2>2
  <1> QED BY <1>11, <1>13, <1>15, <1>16

\* SyncFromLeases marks every address that is in use: its record is the one that
\* was there, or one that backs its user as well.
LEMMA RestartBacked ==
    ASSUME HoldInv, IndexInv', Restart
    PROVE  JobsOK' /\ TxOK' /\ HoldBacked'
  <1> USE DEF HoldInv
  <1>0. Types BY DEF IndexInv
  <1>1. /\ tx' = NoTx /\ hold' = hold /\ displaced \subseteq displaced' /\ orphaned \subseteq orphaned'
        /\ \A w \in Writers : job'[w] = NoJob
    BY DEF Restart
  <1>2. HoldBacked'
    <2> SUFFICES ASSUME NEW m \in MACs, hold[m] # NoHold, hold[m].ip \notin Gone'
                 PROVE  /\ lease'[hold[m].ip].state = "bound" /\ lease'[hold[m].ip].mac = m
                        /\ lease'[hold[m].ip].expiry >= hold[m].expiry /\ hold[m].ip \in used'
      BY <1>1 DEF HoldBacked, Gone
    <2> DEFINE ip == hold[m].ip
    <2>1. ip \in IPs /\ ip \notin Gone /\ ip \notin displaced'
      BY <1>0, <1>1, TypeFacts DEF Holds, Gone
    <2>2. lease'[ip].state = "bound" /\ lease'[ip].mac = m /\ lease'[ip].expiry >= hold[m].expiry
      <3>1. CASE lease'[ip] = lease[ip] BY <2>1, <3>1, HoldBackedParts
      <3>2. CASE lease'[ip] # lease[ip]
        <4>1. Held(ip) BY DEF Held
        <4>2. ~GivenUp(lease'[ip]) BY <2>1, <3>2, <4>1 DEF Restart
        <4>3. <<ip, lease'[ip]>> \in doubtLeases BY <1>0, <2>1, <3>2, RestartFacts
        <4> QED BY <2>1, <4>2, <4>3 DEF DoubtsBacked
      <3> QED BY <3>1, <3>2
    <2>3. ip \in used' BY <2>1, <2>2 DEF Restart, MarkedStates
    <2> QED BY <2>2, <2>3
  <1> QED BY <1>1, <1>2 DEF JobsOK, JobOK, TxOK

\* Records come into doubt when a grant or a record that is given up cannot be
\* written, and when a restart replays one; they stay until the next Put.
LEMMA DoubtsKept ==
    ASSUME HoldInv, UNCHANGED doubtLeases, Gone \subseteq Gone',
           \A m \in MACs : hold'[m] = NoHold \/ hold'[m] = hold[m],
           tx' = NoTx \/ (tx # NoTx /\ tx'.ip = tx.ip)
    PROVE  DoubtsBacked' /\ DoubtsAside'
  <1>1. DoubtsBacked' BY DEF HoldInv, DoubtsBacked
  <1>2. DoubtsAside' BY DEF HoldInv, DoubtsAside
  <1> QED BY <1>1, <1>2

LEMMA FailDoubts ==
    ASSUME HoldInv, NEW w \in Writers, UpsertFail(w) PROVE DoubtsBacked' /\ DoubtsAside'
  <1> DEFINE j == job[w]
  <1>1. hold' = hold /\ displaced' = displaced BY DEF UpsertFail
  <1>2. CASE j.step = "commit" /\ tx = NoTx /\ doubtLeases' = doubtLeases \cup {<<j.ip, j.new>>}
             /\ UNCHANGED <<tx, orphaned>>
    <2>1. j # NoJob /\ j \in Jobs /\ JobOK(w) BY TypeFacts DEF UpsertFail, HoldInv, IndexInv, JobsOK
    <2>2. Gone' = Gone BY <1>1, <1>2 DEF Gone
    <2>3. j.ip \notin Gone /\ ~GivenUp(j.new) =>
              \A m \in MACs : hold[m] # NoHold /\ hold[m].ip = j.ip =>
                  j.new.state = "bound" /\ j.new.mac = m /\ j.new.expiry >= hold[m].expiry
      BY <2>1 DEF JobOK, Grants
    <2>4. DoubtsBacked'
      <3> SUFFICES ASSUME NEW d \in doubtLeases', d[1] \notin Gone, ~GivenUp(d[2]),
                          NEW m \in MACs, hold[m] # NoHold, hold[m].ip = d[1]
                   PROVE  d[2].state = "bound" /\ d[2].mac = m /\ d[2].expiry >= hold[m].expiry
        BY <1>1, <2>2 DEF DoubtsBacked
      <3>1. CASE d \in doubtLeases BY <3>1 DEF HoldInv, DoubtsBacked
      <3>2. CASE d = <<j.ip, j.new>>
        <4>1. d[1] = j.ip /\ d[2] = j.new BY <3>2
        <4> QED BY <2>3, <4>1
      <3> QED BY <1>2, <3>1, <3>2
    <2>5. DoubtsAside' BY <1>2 DEF DoubtsAside
    <2> QED BY <2>4, <2>5
  <1>3. CASE UNCHANGED doubtLeases
    <2>1. Gone \subseteq Gone' /\ (tx' = NoTx \/ tx' = tx) BY <1>1 DEF UpsertFail, Gone
    <2> QED BY <1>1, <1>3, <2>1, DoubtsKept
  <1> QED BY <1>2, <1>3 DEF UpsertFail

LEMMA PutDoubts ==
    ASSUME HoldInv, NEW w \in Writers, UpsertPut(w) PROVE DoubtsBacked' /\ DoubtsAside'
  <1>1. hold' = hold /\ displaced \subseteq displaced' /\ orphaned \subseteq orphaned'
        /\ tx'.ip = job[w].ip /\ doubtLeases' = {d \in doubtLeases : d[1] # job[w].ip}
    BY DEF UpsertPut, envVars
  <1>2. DoubtsBacked' BY <1>1 DEF HoldInv, DoubtsBacked, Gone
  <1>3. DoubtsAside' BY <1>1 DEF DoubtsAside
  <1> QED BY <1>2, <1>3

\* A client that gets an address gets one whose record is not in doubt.
LEMMA DoneDoubts == ASSUME HoldInv, UpsertDone PROVE DoubtsBacked' /\ DoubtsAside'
  <1>1. UNCHANGED <<doubtLeases, displaced, orphaned>> /\ tx # NoTx /\ tx' = NoTx BY DEF UpsertDone, storeVars
  <1>2. \A m \in MACs : hold'[m] = hold[m] \/ hold'[m].ip = tx.ip
    <2>1. hold \in [MACs -> {NoHold} \cup Holds] BY DEF HoldInv, IndexInv, Types
    <2> QED BY <2>1 DEF UpsertDone
  <1>3. DoubtsBacked'
    <2> SUFFICES ASSUME NEW d \in doubtLeases, d[1] \notin Gone, ~GivenUp(d[2]),
                        NEW m \in MACs, hold'[m] # NoHold, hold'[m].ip = d[1]
                 PROVE  d[2].state = "bound" /\ d[2].mac = m /\ d[2].expiry >= hold'[m].expiry
      BY <1>1 DEF DoubtsBacked, Gone
    <2>1. d[1] # tx.ip BY <1>1 DEF HoldInv, DoubtsAside
    <2>2. hold'[m] = hold[m] BY <1>2, <2>1
    <2> QED BY <2>2 DEF HoldInv, DoubtsBacked
  <1> QED BY <1>1, <1>3 DEF DoubtsAside

LEMMA RestartDoubts == ASSUME HoldInv, Restart PROVE DoubtsBacked' /\ DoubtsAside'
  <1>1. hold' = hold /\ tx' = NoTx /\ displaced \subseteq displaced' /\ orphaned \subseteq orphaned'
    BY DEF Restart
  <1>2. \A d \in doubtLeases' : d \in doubtLeases \/ \E ip \in IPs : d = <<ip, lease[ip]>> BY DEF Restart
  <1>3. Gone \subseteq Gone' BY <1>1 DEF Gone
  <1>4. DoubtsBacked'
    <2> SUFFICES ASSUME NEW d \in doubtLeases', d[1] \notin Gone, ~GivenUp(d[2]),
                        NEW m \in MACs, hold[m] # NoHold, hold[m].ip = d[1]
                 PROVE  d[2].state = "bound" /\ d[2].mac = m /\ d[2].expiry >= hold[m].expiry
      BY <1>1, <1>3 DEF DoubtsBacked
    <2>1. CASE d \in doubtLeases BY <2>1 DEF HoldInv, DoubtsBacked
    <2>2. ASSUME NEW ip \in IPs, d = <<ip, lease[ip]>>
          PROVE  d[2].state = "bound" /\ d[2].mac = m /\ d[2].expiry >= hold[m].expiry
      <3>1. d[1] = ip /\ d[2] = lease[ip] BY <2>2
      <3> QED BY <3>1, HoldBackedParts DEF HoldInv
    <2> QED BY <1>2, <2>1, <2>2
  <1> QED BY <1>1, <1>4 DEF DoubtsAside

LEMMA DoubtsStep == ASSUME HoldInv, [Next]_vars PROVE DoubtsBacked' /\ DoubtsAside'
  <1> USE DEF storeVars, envVars, ghostVars
  <1>0. Types BY DEF HoldInv, IndexInv
  <1>1. CASE /\ UNCHANGED <<doubtLeases, tx>> /\ displaced \subseteq displaced' /\ orphaned \subseteq orphaned'
             /\ \A m \in MACs : hold'[m] = NoHold \/ hold'[m] = hold[m]
    <2>1. Gone \subseteq Gone' BY <1>1 DEF Gone
    <2> QED BY <1>1, <2>1, DoubtsKept
  <1>2. CASE UpsertIndex
    <2>1. tx \in Txs BY <1>0, <1>2, TypeFacts DEF UpsertIndex
    <2>2. UNCHANGED <<doubtLeases, hold, displaced, orphaned>> /\ tx # NoTx /\ tx'.ip = tx.ip
      BY <1>2, <2>1 DEF UpsertIndex, Txs
    <2>3. Gone \subseteq Gone' BY <2>2 DEF Gone
    <2> QED BY <2>2, <2>3, DoubtsKept
  <1>3. CASE Tick BY <1>1, <1>3 DEF Tick
  <1>4. CASE SweepFetch
    <2>1. displaced \subseteq displaced' BY <1>4 DEF SweepFetch
    <2>2. UNCHANGED <<doubtLeases, tx, hold, orphaned>> BY <1>4 DEF SweepFetch
    <2> QED BY <1>1, <2>1, <2>2
  <1>5. ASSUME NEW mac \in MACs, NEW ip \in IPs,
               (\E rapidCommit \in BOOLEAN : HandleDiscover(mac, ip, rapidCommit)) \/ HandleRequest(mac, ip)
        PROVE  DoubtsBacked' /\ DoubtsAside'
    <2>1. \A m \in MACs : hold'[m] = NoHold \/ hold'[m] = hold[m]
      BY <1>0, <1>5 DEF HandleDiscover, HandleRequest, Types
    <2>2. UNCHANGED <<doubtLeases, tx, displaced, orphaned>> BY <1>5 DEF HandleDiscover, HandleRequest
    <2> QED BY <1>1, <2>1, <2>2
  <1>6. ASSUME NEW mac \in MACs, NEW kind \in Leaving, ClientLeaves(mac, kind)
        PROVE  DoubtsBacked' /\ DoubtsAside'
    <2>1. \A m \in MACs : hold'[m] = NoHold \/ hold'[m] = hold[m] BY <1>0, <1>6 DEF ClientLeaves, Types
    <2> QED BY <1>1, <1>6, <2>1 DEF ClientLeaves
  <1>7. CASE UNCHANGED <<doubtLeases, tx, hold, displaced, orphaned>> BY <1>1, <1>7
  <1> QED BY <1>2, <1>3, <1>4, <1>5, <1>6, <1>7, PutDoubts, FailDoubts, DoneDoubts, RestartDoubts
      DEF Next, vars, UpsertRead, MessageLost, HandleRelease, HandleDecline, ApiRelease, SweepList, SweepExamine

LEMMA SweepStep == ASSUME HoldInv, IndexInv', [Next]_vars PROVE SweepOK'
  <1> USE DEF HoldInv, storeVars, envVars, ghostVars
  <1>0. /\ Types /\ now \in Nat /\ sweep.at \in Nat
        /\ sweep.scan \subseteq Nat \X IPs /\ sweep.batch \subseteq [ip : IPs, rec : Leases]
    BY DEF IndexInv, Types
  <1>1. CASE UNCHANGED sweep /\ now' \in Nat /\ now <= now' /\ displaced \subseteq displaced'
    BY <1>0, <1>1 DEF SweepOK
  <1>2. CASE Tick BY <1>0, <1>1, <1>2 DEF Tick
  <1>3. ASSUME NEW w \in Writers, UpsertPut(w) PROVE SweepOK' BY <1>0, <1>1, <1>3 DEF UpsertPut
  <1>4. CASE UNCHANGED <<sweep, now, displaced>> BY <1>0, <1>1, <1>4
  <1>5. CASE Restart BY <1>0, <1>5 DEF Restart, SweepOK, NoSweep, Zero
  <1>6. CASE SweepList BY <1>0, <1>6 DEF SweepList, SweepOK
  <1>7. CASE SweepFetch
    <2>1. PICK e \in sweep.scan :
            /\ sweep' = [sweep EXCEPT !.scan = @ \ {e},
                            !.batch = @ \cup (IF lease[e[2]] = NoLease THEN {}
                                              ELSE {[ip |-> e[2], rec |-> lease[e[2]]]})]
            /\ displaced' = IF lease[e[2]] # NoLease /\ lease[e[2]].expiry # e[1]
                            THEN displaced \cup {e[2]} ELSE displaced
      BY <1>7 DEF SweepFetch
    <2>2. /\ sweep'.at = sweep.at /\ sweep'.scan \subseteq sweep.scan /\ now' = now
          /\ sweep'.batch = sweep.batch \cup (IF lease[e[2]] = NoLease THEN {}
                                              ELSE {[ip |-> e[2], rec |-> lease[e[2]]]})
      BY <1>0, <1>7, <2>1 DEF SweepFetch, Types
    <2>3. ASSUME NEW b \in sweep'.batch PROVE b.ip \in displaced' \/ b.rec.expiry < sweep'.at
      <3>1. CASE b \in sweep.batch BY <2>1, <2>2, <3>1 DEF SweepOK
      <3>2. CASE b \notin sweep.batch
        <4>1. lease[e[2]] # NoLease /\ b.ip = e[2] /\ b.rec = lease[e[2]] BY <2>2, <3>2
        <4>2. e[1] < sweep.at BY DEF SweepOK
        <4> QED BY <2>1, <2>2, <4>1, <4>2
      <3> QED BY <3>1, <3>2
    <2> QED BY <2>2, <2>3 DEF SweepOK
  <1>8. CASE SweepExamine
    <2>1. UNCHANGED <<now, displaced>> BY <1>8 DEF SweepExamine
    <2>2. \/ sweep' = NoSweep
          \/ sweep'.at = sweep.at /\ sweep'.scan = sweep.scan /\ sweep'.batch \subseteq sweep.batch
      BY <1>0, <1>8 DEF SweepExamine, Types
    <2> QED BY <1>0, <2>1, <2>2 DEF SweepOK, NoSweep, Zero
  <1> QED BY <1>2, <1>3, <1>4, <1>5, <1>6, <1>7, <1>8
      DEF Next, vars, UpsertRead, UpsertFail, UpsertIndex, UpsertDone, HandleDiscover,
          HandleRequest, ClientLeaves, MessageLost, HandleRelease, HandleDecline, ApiRelease

LEMMA HoldTimesStep == ASSUME HoldInv, IndexInv', [Next]_vars PROVE HoldTimes'
  <1> USE DEF HoldInv, storeVars, envVars, ghostVars
  <1>0. Types /\ now \in Nat /\ LeaseTime \in Nat BY TimeAssumption DEF IndexInv, Types
  <1>1. CASE now' = now /\ \A m \in MACs : hold'[m] = NoHold \/ hold'[m] = hold[m]
    BY <1>1 DEF HoldTimes
  <1>2. CASE Tick
    <2>1. ASSUME NEW m \in MACs, hold'[m] # NoHold PROVE hold'[m] = hold[m] /\ hold[m].expiry >= now'
      BY <1>2, <2>1 DEF Tick
    <2>2. \A m \in MACs : hold[m] # NoHold => hold[m].expiry \in Nat BY <1>0, TypeFacts DEF Holds
    <2> QED BY <1>0, <1>2, <2>1, <2>2 DEF HoldTimes, Tick
  <1>3. CASE UpsertDone BY <1>3, DoneBacked
  <1>4. ASSUME NEW mac \in MACs, NEW ip \in IPs,
               (\E rapidCommit \in BOOLEAN : HandleDiscover(mac, ip, rapidCommit)) \/ HandleRequest(mac, ip)
        PROVE  HoldTimes'
    <2>1. now' = now /\ \A m \in MACs : hold'[m] = NoHold \/ hold'[m] = hold[m]
      BY <1>0, <1>4 DEF HandleDiscover, HandleRequest, Types
    <2> QED BY <1>1, <2>1
  <1>5. ASSUME NEW mac \in MACs, NEW kind \in Leaving, ClientLeaves(mac, kind) PROVE HoldTimes'
    <2>1. now' = now /\ \A m \in MACs : hold'[m] = NoHold \/ hold'[m] = hold[m]
      BY <1>0, <1>5 DEF ClientLeaves, Types
    <2> QED BY <1>1, <2>1
  <1>6. CASE UNCHANGED <<now, hold>> BY <1>1, <1>6
  <1> QED BY <1>2, <1>3, <1>4, <1>5, <1>6
      DEF Next, vars, UpsertRead, UpsertPut, UpsertFail, UpsertIndex, MessageLost, HandleRelease,
          HandleDecline, ApiRelease, SweepList, SweepFetch, SweepExamine, Restart

LEMMA HoldInit == Init => HoldInv
  <1> SUFFICES ASSUME Init PROVE HoldInv OBVIOUS
  <1>1. JobsOK /\ TxOK BY DEF Init, JobsOK, JobOK, TxOK
  <1>2. SweepOK BY DEF Init, SweepOK, NoSweep, Zero
  <1>3. HoldTimes /\ HoldBacked /\ DoubtsBacked /\ DoubtsAside
    BY DEF Init, HoldTimes, HoldBacked, DoubtsBacked, DoubtsAside
  <1> QED BY <1>1, <1>2, <1>3, IndexInit DEF HoldInv

LEMMA HoldStep == HoldInv /\ [Next]_vars => HoldInv'
  <1> SUFFICES ASSUME HoldInv, [Next]_vars PROVE HoldInv' OBVIOUS
  <1>0. IndexInv /\ IndexInv' BY IndexStep DEF HoldInv
  <1>1. SweepOK' /\ HoldTimes' /\ DoubtsBacked' /\ DoubtsAside'
    BY <1>0, SweepStep, HoldTimesStep, DoubtsStep
  <1>2. JobsOK' /\ TxOK' /\ HoldBacked'
    <2>1. CASE UNCHANGED vars
      <3>1. now \in Nat BY <1>0 DEF IndexInv, Types
      <3>2. Quiet BY <2>1, <3>1 DEF Quiet, vars, storeVars, envVars, ghostVars
      <3> QED BY <1>0, <3>2, QuietKeeps
    <2>2. CASE Next
      <3>1. CASE Quiet BY <1>0, <3>1, QuietKeeps
      <3> QED BY <1>0, <2>2, <3>1, QuietSteps, GrantKeeps, ReleaseKeeps, ExamineKeeps, PutBacked,
                 DoneBacked, RestartBacked DEF Next
    <2> QED BY <2>1, <2>2
  <1> QED BY <1>0, <1>1, <1>2 DEF HoldInv

\* Whatever the packet loop, the sweeper and the API do at the same time, and
\* whatever fails or restarts, an address a client uses is backed by a bound
\* lease of that client and by its bit in the pool's bitmap.
THEOREM AddressesBacked == Spec => []HoldBacked
  <1>1. HoldInv => HoldBacked BY DEF HoldInv
  <1> QED BY <1>1, HoldInit, HoldStep, PTL DEF Spec

\* Two clients that use one address: it was released or declined while in use,
\* overwritten from an outdated copy or by a failed write that a restart replayed,
\* or left with a foreign index entry.
OneClient ==
    \A m, n \in MACs :
        hold[m] # NoHold /\ hold[n] # NoHold /\ hold[m].ip = hold[n].ip /\ hold[m].ip \notin Gone => m = n

\* Two clients never use one address, other than as OneClient says.
THEOREM NoTwoClients == Spec => []OneClient
  <1>1. HoldInv => OneClient
    <2> SUFFICES ASSUME HoldInv PROVE OneClient OBVIOUS
    <2> QED BY HoldBackedParts DEF HoldInv, OneClient
  <1> QED BY <1>1, HoldInit, HoldStep, PTL DEF Spec

(***************************************************************************)
(* Refinement: what clients see of the server is a LeaseService.  Initial  *)
(* states map to initial states, and every step of the server to a step of *)
(* the service or to a stuttering step.  HoldInv is what lets the end of   *)
(* an upsert map to Grant: nobody else uses the address.                   *)
(***************************************************************************)
LEMMA InitServes == Init => Service!ServiceInit
  <1> SUFFICES ASSUME Init PROVE Service!ServiceInit OBVIOUS
  <1>1. Gone = {} BY DEF Init, Gone
  <1> QED BY <1>1 DEF Init, Gone, Service!ServiceInit

\* Nothing clients see changes; the service may give up addresses.
Unseen == UNCHANGED <<now, hold>> /\ \E lost \in SUBSET IPs : Gone' = Gone \cup lost

LEMMA UnseenServes == Unseen => Service!ServiceNext \/ UNCHANGED Service!serviceVars
  <1> SUFFICES ASSUME Unseen PROVE Service!ServiceNext \/ UNCHANGED Service!serviceVars OBVIOUS
  <1>1. UNCHANGED now /\ UNCHANGED hold BY DEF Unseen
  <1>2. PICK lost \in SUBSET IPs : Gone' = Gone \cup lost BY DEF Unseen
  <1>3. Service!GiveUp(lost) BY <1>1, <1>2 DEF Gone, Service!GiveUp
  <1> QED BY <1>3 DEF Service!ServiceNext

LEMMA NoneLost == ASSUME UNCHANGED <<now, hold, displaced, orphaned>> PROVE Unseen
  <1>1. Gone' = Gone \cup {} /\ {} \in SUBSET IPs BY DEF Gone
  <1> QED BY <1>1 DEF Unseen

LEMMA PutUnseen == ASSUME Types, NEW w \in Writers, UpsertPut(w) PROVE Unseen
  <1>1. job[w].ip \in IPs BY TypeFacts DEF UpsertPut, Jobs
  <1>2. UNCHANGED <<now, hold>> BY DEF UpsertPut, envVars
  <1>3. displaced' = displaced \/ displaced' = displaced \cup {job[w].ip} BY Zenon DEF UpsertPut
  <1>4. orphaned' = orphaned \/ orphaned' = orphaned \cup {job[w].ip} BY Zenon DEF UpsertPut
  <1>5. Gone' = Gone \cup {} \/ Gone' = Gone \cup {job[w].ip} BY <1>3, <1>4 DEF Gone
  <1>6. {} \in SUBSET IPs /\ {job[w].ip} \in SUBSET IPs BY <1>1
  <1> QED BY <1>2, <1>5, <1>6 DEF Unseen

\* Clients do not see a write that fails, nor a process that dies.
LEMMA FaultUnseen == ASSUME IndexInv, Restart \/ (\E w \in Writers : UpsertFail(w)) PROVE Unseen
  <1>1. UNCHANGED <<now, hold>> /\ displaced \subseteq displaced' /\ orphaned \subseteq orphaned'
    BY DEF Restart, UpsertFail
  <1>2. displaced' \subseteq IPs /\ orphaned' \subseteq IPs
    <2>1. Types' BY TypesRestart, TypesUpsert DEF IndexInv
    <2> QED BY <2>1 DEF Types
  <1>3. Gone' = Gone \cup Gone' /\ Gone' \in SUBSET IPs BY <1>1, <1>2 DEF Gone
  <1> QED BY <1>1, <1>3 DEF Unseen

LEMMA FetchUnseen == ASSUME Types, SweepFetch PROVE Unseen
  <1>1. PICK e \in sweep.scan :
           displaced' = IF lease[e[2]] # NoLease /\ lease[e[2]].expiry # e[1]
                        THEN displaced \cup {e[2]} ELSE displaced
    BY DEF SweepFetch
  <1>2. e[2] \in IPs BY DEF Types
  <1>3. UNCHANGED <<now, hold, orphaned>> BY DEF SweepFetch, envVars
  <1>4. Gone' = Gone \cup {} \/ Gone' = Gone \cup {e[2]} BY <1>1, <1>3 DEF Gone
  <1>5. {} \in SUBSET IPs /\ {e[2]} \in SUBSET IPs BY <1>2
  <1> QED BY <1>3, <1>4, <1>5 DEF Unseen

LEMMA TickServes == Tick => Service!Pass
  <1> SUFFICES ASSUME Tick PROVE Service!Pass OBVIOUS
  <1>1. UNCHANGED <<displaced, orphaned>> BY DEF Tick, ghostVars
  <1> QED BY <1>1 DEF Tick, Service!Pass

\* A client that starts again, hears NAK or leaves.
LEMMA StopServes ==
    ASSUME NEW mac \in MACs, NEW ip \in IPs,
           \/ \E rapidCommit \in BOOLEAN : HandleDiscover(mac, ip, rapidCommit)
           \/ HandleRequest(mac, ip)
           \/ \E kind \in Leaving : ClientLeaves(mac, kind)
    PROVE  Service!ServiceNext \/ UNCHANGED Service!serviceVars
  <1>1. UNCHANGED <<now, displaced, orphaned>>
    BY DEF HandleDiscover, HandleRequest, ClientLeaves, ghostVars
  <1>2. hold' = hold \/ hold' = [hold EXCEPT ![mac] = NoHold]
    BY Zenon DEF HandleDiscover, HandleRequest, ClientLeaves
  <1>3. CASE hold' = hold BY <1>1, <1>3 DEF Service!serviceVars
  <1>4. CASE hold' = [hold EXCEPT ![mac] = NoHold]
    <2>1. Service!Stop(mac) BY <1>1, <1>4 DEF Service!Stop
    <2> QED BY <2>1 DEF Service!ServiceNext
  <1> QED BY <1>2, <1>3, <1>4

\* An ACK that arrives is a lease of an address that nobody else uses.
LEMMA DoneServes ==
    ASSUME HoldInv, UpsertDone
    PROVE  Service!ServiceNext \/ UNCHANGED Service!serviceVars
  <1> USE DEF HoldInv
  <1>0. Types /\ now \in Nat /\ LockOK /\ LeaseTime \in Nat
    BY TimeAssumption DEF IndexInv, Types
  <1>1. tx # NoTx /\ tx \in Txs BY <1>0, TypeFacts DEF UpsertDone
  <1>2. tx.by \in Writers /\ tx.ip \in IPs BY <1>1 DEF Txs
  <1> DEFINE j == job[tx.by]
  <1>3. j # NoJob /\ j \in Jobs /\ j.ip = tx.ip
    BY <1>0, <1>1, <1>2, TypeFacts DEF LockOK
  <1>4. j.new.mac \in MACs /\ j.new.expiry \in Nat BY <1>3 DEF Jobs, Leases
  <1>5. UNCHANGED <<now, displaced, orphaned>> BY DEF UpsertDone
  <1>6. \/ hold' = hold
        \/ /\ j.kind = "ack" /\ ~(j.new.expiry < now)
           /\ hold' = [hold EXCEPT ![j.new.mac] = [ip |-> tx.ip, expiry |-> j.new.expiry]]
    BY DEF UpsertDone
  <1>7. CASE hold' = hold BY <1>5, <1>7 DEF Service!serviceVars
  <1>8. CASE /\ j.kind = "ack" /\ ~(j.new.expiry < now)
             /\ hold' = [hold EXCEPT ![j.new.mac] = [ip |-> tx.ip, expiry |-> j.new.expiry]]
    <2>1. Grants(j) BY <1>2, <1>3, <1>8 DEF JobsOK, JobOK
    <2>2. j.new.expiry \in now..(now + LeaseTime) BY <1>0, <1>4, <1>8, <2>1 DEF Grants
    <2>3. ASSUME tx.ip \notin Gone
          PROVE  /\ \A d \in MACs \ {j.new.mac} : ~Service!UsedBy(d, tx.ip)
                 /\ Service!UsedBy(j.new.mac, tx.ip) => j.new.expiry >= hold[j.new.mac].expiry
      BY <1>3, <1>4, <2>1, <2>3 DEF Grants, Service!UsedBy
    <2>4. Service!Grant(j.new.mac, tx.ip, j.new.expiry)
      BY <1>5, <1>8, <2>2, <2>3 DEF Service!Grant, Gone
    <2> QED BY <1>2, <1>4, <2>2, <2>4 DEF Service!ServiceNext
  <1> QED BY <1>6, <1>7, <1>8

LEMMA StepServes == HoldInv /\ [Next]_vars => [Service!ServiceNext]_Service!serviceVars
  <1> SUFFICES ASSUME HoldInv, [Next]_vars
               PROVE  Service!ServiceNext \/ UNCHANGED Service!serviceVars
    OBVIOUS
  <1>0. Types /\ IndexInv BY DEF HoldInv, IndexInv
  <1>1. CASE Unseen BY <1>1, UnseenServes
  <1>2. CASE Tick BY <1>2, TickServes DEF Service!ServiceNext
  <1>3. CASE UpsertDone BY <1>3, DoneServes
  <1>4. CASE \/ Restart \/ SweepFetch \/ \E w \in Writers : UpsertPut(w) \/ UpsertFail(w)
    BY <1>0, <1>1, <1>4, PutUnseen, FaultUnseen, FetchUnseen
  <1>5. ASSUME NEW mac \in MACs, NEW ip \in IPs,
               (\E rapidCommit \in BOOLEAN : HandleDiscover(mac, ip, rapidCommit)) \/ HandleRequest(mac, ip)
        PROVE  Service!ServiceNext \/ UNCHANGED Service!serviceVars
    BY <1>5, StopServes
  <1>6. ASSUME NEW mac \in MACs, NEW kind \in Leaving, ClientLeaves(mac, kind)
        PROVE  Service!ServiceNext \/ UNCHANGED Service!serviceVars
    <2>1. hold[mac].ip \in IPs BY <1>0, <1>6, TypeFacts DEF ClientLeaves, Holds
    <2> QED BY <1>6, <2>1, StopServes
  <1>7. CASE UNCHANGED <<now, hold, displaced, orphaned>> BY <1>1, <1>7, NoneLost
  <1> QED BY <1>2, <1>3, <1>4, <1>5, <1>6, <1>7
      DEF Next, vars, storeVars, envVars, ghostVars, UpsertRead, UpsertIndex, MessageLost,
          HandleRelease, HandleDecline, ApiRelease, SweepList, SweepExamine

\* Clients see a service that gives an address to one of them at a time and
\* never shortens a lease it extends: every behaviour of the packet handlers,
\* the lease store, the sweeper, the API and their failures is one of
\* LeaseService, for every pool, lease time, set of clients and number of
\* restarts.
THEOREM ServerImplementsLeaseService == Spec => ImplementsLeaseService
  <1> QED
    BY HoldInit, HoldStep, InitServes, StepServes, PTL
    DEF Spec, ImplementsLeaseService, Service!ServiceSpec

\* The steps of the service alone: who uses what is a function of the clients,
\* and nobody shares an address that is not void.
Served == hold \in [MACs -> {NoHold} \cup Holds] /\ now \in Nat /\ Service!Exclusive

LEMMA ServedInit == Service!ServiceInit => Served
  BY DEF Service!ServiceInit, Served, Service!Exclusive

LEMMA GrantServed ==
    ASSUME Served, NEW c \in MACs, NEW ip \in IPs, NEW until \in now..(now + LeaseTime),
           Service!Grant(c, ip, until)
    PROVE  Served'
  <1>1. until \in Nat BY TimeAssumption DEF Served
  <1>2. hold' = [hold EXCEPT ![c] = [ip |-> ip, expiry |-> until]] /\ UNCHANGED now
        /\ (displaced \cup orphaned)' = displaced \cup orphaned
    BY DEF Service!Grant
  <1>3. [ip |-> ip, expiry |-> until] \in Holds BY <1>1 DEF Holds
  <1>4. hold' \in [MACs -> {NoHold} \cup Holds] /\ hold'[c].ip = ip
        /\ \A d \in MACs \ {c} : hold'[d] = hold[d]
    BY <1>2, <1>3 DEF Served
  <1>5. ip \notin displaced \cup orphaned => \A d \in MACs \ {c} : ~Service!UsedBy(d, ip)
    BY DEF Service!Grant
  <1>6. Service!Exclusive'
    <2> SUFFICES ASSUME NEW d \in MACs, NEW e \in MACs, d # e, hold'[d] # NoHold, hold'[e] # NoHold,
                        hold'[d].ip = hold'[e].ip, hold'[d].ip \notin displaced \cup orphaned
                 PROVE  FALSE
      BY <1>2 DEF Service!Exclusive, Service!UsedBy
    <2>1. CASE d = c \/ e = c BY <1>4, <1>5, <2>1 DEF Service!UsedBy
    <2>2. CASE d # c /\ e # c BY <1>4, <2>2 DEF Served, Service!Exclusive, Service!UsedBy
    <2> QED BY <2>1, <2>2
  <1> QED BY <1>2, <1>4, <1>6 DEF Served

LEMMA ServedStep == Served /\ [Service!ServiceNext]_Service!serviceVars => Served'
  <1> SUFFICES ASSUME Served, Service!ServiceNext \/ UNCHANGED Service!serviceVars PROVE Served'
    OBVIOUS
  <1>1. CASE /\ now' \in Nat /\ hold' \in [MACs -> {NoHold} \cup Holds]
             /\ \A c \in MACs : hold'[c] = NoHold \/ hold'[c] = hold[c]
             /\ displaced \cup orphaned \subseteq (displaced \cup orphaned)'
    BY <1>1 DEF Served, Service!Exclusive, Service!UsedBy
  <1>2. ASSUME NEW c \in MACs, Service!Stop(c) PROVE Served'
    BY <1>1, <1>2 DEF Served, Service!Stop
  <1>3. CASE Service!Pass
    <2>1. /\ now' = now + 1 /\ (displaced \cup orphaned)' = displaced \cup orphaned
          /\ hold' = [c \in MACs |-> IF hold[c] # NoHold /\ hold[c].expiry >= now' THEN hold[c] ELSE NoHold]
      BY <1>3 DEF Service!Pass
    <2>2. \A c \in MACs : hold'[c] = NoHold \/ hold'[c] = hold[c] BY <2>1
    <2>3. hold' \in [MACs -> {NoHold} \cup Holds] BY <2>1 DEF Served
    <2> QED BY <1>1, <2>1, <2>2, <2>3 DEF Served
  <1>4. ASSUME NEW lost \in SUBSET IPs, Service!GiveUp(lost) PROVE Served'
    BY <1>1, <1>4 DEF Served, Service!GiveUp
  <1>5. CASE UNCHANGED Service!serviceVars BY <1>1, <1>5 DEF Served, Service!serviceVars
  <1> QED BY <1>2, <1>3, <1>4, <1>5, GrantServed DEF Service!ServiceNext

\* What that service is worth to its clients: two of them never use one address
\* that is not void (the exclusive allocation PoolManager.Allocate is there for).
THEOREM ServiceIsExclusive == ImplementsLeaseService => []Service!Exclusive
  <1>1. Served => Service!Exclusive BY DEF Served
  <1> QED BY <1>1, ServedInit, ServedStep, PTL DEF ImplementsLeaseService, Service!ServiceSpec

(***************************************************************************)
(* Quarantine, while nothing restarts and no client declines an address.   *)
(***************************************************************************)
Undisturbed == MaxFaults = 0 /\ "decline" \notin Leaving

\* The bit is set while the record is neither released nor free; a sweep under
\* way started from such a record.
Marked ==
    \A ip \in IPs : ip \notin displaced /\ lease[ip] # NoLease /\ lease[ip].state \notin {"released", "free"} =>
        ip \in used

LapseOK(w) ==
    LET j == job[w] IN
    j # NoJob =>
        /\ j.kind # "decline"
        /\ j.kind \in {"release", "api"} => j.new.state = "released"
        /\ j.kind = "sweep" /\ j.fresh = TRUE /\ j.step # "writing" =>
              lease[j.ip].state \notin {"released", "free"}
LapsesOK == \A w \in Writers : LapseOK(w)

NoDeclines == \A msg \in net : msg.kind # "decline"

MarkInv == HoldInv /\ Marked /\ LapsesOK /\ NoDeclines

LEMMA MarkQuiet ==
    ASSUME MarkInv, Quiet PROVE Marked' /\ LapsesOK'
  <1>1. Marked' BY DEF MarkInv, Marked, Quiet
  <1>2. LapsesOK' BY DEF MarkInv, LapsesOK, LapseOK, Quiet
  <1> QED BY <1>1, <1>2

\* An idle goroutine starts an upsert that is as LapseOK says.
LEMMA MarkStart ==
    ASSUME MarkInv, NEW w \in Writers, NEW kind, NEW ip, NEW fresh, NEW new,
           StartUpsert(w, kind, ip, fresh, new),
           UNCHANGED <<lease, displaced>>, used \subseteq used', LapseOK(w)'
    PROVE  Marked' /\ LapsesOK'
  <1>1. Marked' BY DEF MarkInv, Marked
  <1>2. \A v \in Writers : v # w => job'[v] = job[v]
    BY DEF StartUpsert, MarkInv, HoldInv, IndexInv, Types
  <1>3. \A v \in Writers : v # w => LapseOK(v)' BY <1>2 DEF MarkInv, LapsesOK, LapseOK
  <1> QED BY <1>1, <1>3 DEF LapsesOK

LEMMA MarkGrant ==
    ASSUME MarkInv, NEW mac \in MACs, NEW target \in IPs,
           (\E rapidCommit \in BOOLEAN : HandleDiscover(mac, target, rapidCommit))
           \/ HandleRequest(mac, target)
    PROVE  Marked' /\ LapsesOK'
  <1> USE DEF storeVars, ghostVars
  <1>0. Types /\ "server" \in Writers BY WritersAssumption DEF MarkInv, HoldInv, IndexInv
  <1>1. UNCHANGED <<lease, displaced>> BY DEF HandleDiscover, HandleRequest
  <1>2. CASE UNCHANGED <<used, job>> BY <1>1, <1>2 DEF MarkInv, Marked, LapsesOK, LapseOK
  <1>3. ASSUME NEW ip, NEW kind \in {"ack", "offer"}, NEW new,
               used' = used \cup {ip}, StartUpsert("server", kind, ip, FALSE, new)
        PROVE  Marked' /\ LapsesOK'
    <2>1. job'["server"].kind = kind BY <1>0, <1>3, StartedJob
    <2>2. LapseOK("server")' BY <2>1 DEF LapseOK
    <2>3. used \subseteq used' BY <1>3
    <2> QED BY <1>0, <1>1, <1>3, <2>2, <2>3, MarkStart
  <1>4. CASE HandleRequest(mac, target) BY <1>2, <1>3, <1>4 DEF HandleRequest
  <1>5. ASSUME NEW rapidCommit \in BOOLEAN, HandleDiscover(mac, target, rapidCommit)
        PROVE  Marked' /\ LapsesOK'
    BY <1>2, <1>3, <1>5 DEF HandleDiscover
  <1> QED BY <1>4, <1>5

LEMMA MarkRelease ==
    ASSUME MarkInv, NEW ip \in IPs, HandleRelease(ip) \/ HandleDecline(ip) \/ ApiRelease(ip)
    PROVE  Marked' /\ LapsesOK'
  <1> USE DEF storeVars, envVars, ghostVars
  <1>0. Types /\ "server" \in Writers BY WritersAssumption DEF MarkInv, HoldInv, IndexInv
  <1>1. UNCHANGED <<lease, used, displaced>> BY DEF HandleRelease, HandleDecline, ApiRelease
  <1>2. CASE UNCHANGED job BY <1>1, <1>2 DEF MarkInv, Marked, LapsesOK, LapseOK
  <1>3. ASSUME NEW w \in Writers, NEW kind \in {"release", "api"}, lease[ip] # NoLease,
               StartUpsert(w, kind, ip, TRUE, Released(lease[ip]))
        PROVE  Marked' /\ LapsesOK'
    <2>1. job'[w].kind = kind /\ job'[w].new = Released(lease[ip]) BY <1>0, <1>3, StartedJob
    <2>2. Released(lease[ip]).state = "released" BY <1>0, <1>3, TypeFacts DEF Released, Leases
    <2>3. LapseOK(w)' BY <2>1, <2>2 DEF LapseOK
    <2>4. used \subseteq used' BY <1>1
    <2> QED BY <1>1, <1>3, <2>3, <2>4, MarkStart
  <1>4. CASE HandleRelease(ip) BY <1>0, <1>2, <1>3, <1>4 DEF HandleRelease
  <1>5. CASE ApiRelease(ip) BY <1>3, <1>5 DEF ApiRelease
  <1>6. ~HandleDecline(ip) BY DEF HandleDecline, MarkInv, NoDeclines
  <1> QED BY <1>4, <1>5, <1>6

LEMMA MarkExamine ==
    ASSUME MarkInv, SweepExamine PROVE Marked' /\ LapsesOK'
  <1> USE DEF storeVars, envVars, ghostVars
  <1>0. Types /\ sweep.at \in Nat /\ "sweeper" \in Writers
    BY DEF MarkInv, HoldInv, IndexInv, Types, SweeperOK, SweepExamine
  <1>1. UNCHANGED <<lease, used, displaced>> BY DEF SweepExamine
  <1>2. PICK b \in sweep.batch :
            IF Swept(b.rec, sweep.at) = b.rec THEN UNCHANGED job
            ELSE StartUpsert("sweeper", "sweep", b.ip, b.rec = lease[b.ip], Swept(b.rec, sweep.at))
    BY DEF SweepExamine
  <1>3. CASE UNCHANGED job BY <1>1, <1>3 DEF MarkInv, Marked, LapsesOK, LapseOK
  <1>4. CASE Swept(b.rec, sweep.at) # b.rec
    <2>1. StartUpsert("sweeper", "sweep", b.ip, b.rec = lease[b.ip], Swept(b.rec, sweep.at))
      BY <1>2, <1>4
    <2>2. b.rec.state \notin {"released", "free"} BY <1>4 DEF Swept
    <2>3. job'["sweeper"].kind = "sweep" /\ job'["sweeper"].ip = b.ip
          /\ job'["sweeper"].fresh = (b.rec = lease[b.ip])
      BY <1>0, <2>1, StartedJob
    <2>4. LapseOK("sweeper")' BY <1>1, <2>2, <2>3 DEF LapseOK
    <2>5. used \subseteq used' BY <1>1
    <2> QED BY <1>0, <1>1, <2>1, <2>4, <2>5, MarkStart
  <1> QED BY <1>2, <1>3, <1>4

LEMMA MarkPut ==
    ASSUME MarkInv, NEW w \in Writers, UpsertPut(w) PROVE Marked' /\ LapsesOK'
  <1> DEFINE j == job[w]
  <1>0. Types /\ JobsOK BY DEF MarkInv, HoldInv, IndexInv
  <1>1. j # NoJob /\ j \in Jobs /\ j.step = "commit" BY <1>0, TypeFacts DEF UpsertPut
  <1>2. j.ip \in IPs /\ j.kind \in Kinds /\ j.fresh \in BOOLEAN BY <1>1 DEF Jobs
  <1>3. lease'[j.ip] = j.new /\ \A ip \in IPs : ip # j.ip => lease'[ip] = lease[ip]
    BY <1>0, <1>2 DEF UpsertPut, Types
  <1>4. /\ used' = used /\ displaced \subseteq displaced'
        /\ j.kind \notin {"offer", "ack"} /\ ~j.fresh => j.ip \in displaced'
    BY DEF UpsertPut
  <1>5. LapseOK(w) /\ JobOK(w) BY <1>0 DEF JobsOK, MarkInv, LapsesOK
  <1>6. j.ip \notin displaced' /\ j.new.state \notin {"released", "free"} => j.ip \in used
    <2> SUFFICES ASSUME j.ip \notin displaced', j.new.state \notin {"released", "free"}
                 PROVE  j.ip \in used
      OBVIOUS
    <2>1. CASE j.kind \in {"offer", "ack"} BY <1>1, <1>5, <2>1 DEF JobOK, Grants
    <2>2. CASE j.kind = "sweep"
      <3>1. j.fresh = TRUE BY <1>2, <1>4, <2>2
      <3>2. lease[j.ip].state \notin {"released", "free"} /\ lease[j.ip] # NoLease
        BY <1>1, <1>5, <2>2, <3>1 DEF LapseOK, JobOK
      <3> QED BY <1>2, <1>4, <3>2 DEF MarkInv, Marked
    <2> QED BY <1>1, <1>2, <1>5, <2>1, <2>2 DEF LapseOK, Kinds
  <1>7. Marked' BY <1>2, <1>3, <1>4, <1>6 DEF MarkInv, Marked
  <1>8. ASSUME NEW v \in Writers, job'[v] # NoJob PROVE LapseOK(v)'
    <2>1. LapseOK(v) BY DEF MarkInv, LapsesOK
    <2>2. job[v] # NoJob /\ job[v] \in Jobs BY <1>0, <1>1, <1>8, TypeFacts DEF UpsertPut
    <2>3. /\ job'[v].kind = job[v].kind /\ job'[v].ip = job[v].ip /\ job'[v].new = job[v].new
      BY <1>0, <2>2 DEF UpsertPut, Types, Jobs
    <2>4. job'[v].step # "writing" /\ job'[v].fresh = TRUE => job'[v] = job[v] /\ job[v].ip # j.ip
      <3>1. CASE v = w
        <4>1. job'[v].step = "writing" BY <1>1, <3>1 DEF UpsertPut, Jobs
        <4> QED BY <4>1
      <3>2. CASE v # w /\ job[v].ip = j.ip
        <4>1. job'[v] = [job[v] EXCEPT !.fresh = FALSE] BY <2>2, <3>2 DEF UpsertPut
        <4>2. job'[v].fresh = FALSE BY <2>2, <4>1 DEF Jobs
        <4> QED BY <4>2
      <3>3. CASE v # w /\ job[v].ip # j.ip BY <3>3 DEF UpsertPut
      <3> QED BY <3>1, <3>2, <3>3
    <2>5. job[v].ip \in IPs BY <2>2 DEF Jobs
    <2> QED BY <1>3, <2>1, <2>2, <2>3, <2>4, <2>5 DEF LapseOK
  <1> QED BY <1>7, <1>8 DEF LapsesOK, LapseOK

LEMMA MarkDone ==
    ASSUME MarkInv, UpsertDone PROVE Marked' /\ LapsesOK'
  <1>0. Types /\ LockOK BY DEF MarkInv, HoldInv, IndexInv
  <1>1. tx # NoTx /\ tx.by \in Writers /\ tx.ip \in IPs BY <1>0, TypeFacts DEF UpsertDone, Txs
  <1>2. job[tx.by] # NoJob /\ lease[tx.ip] = job[tx.by].new BY <1>0, <1>1 DEF LockOK
  <1>3. UNCHANGED <<lease, displaced>> BY DEF UpsertDone, storeVars
  <1>4. Marked'
    <2>1. CASE job[tx.by].kind = "release"
      <3>1. lease[tx.ip].state = "released" BY <1>1, <1>2, <2>1 DEF MarkInv, LapsesOK, LapseOK
      <3>2. used' = used \ {tx.ip} BY <2>1 DEF UpsertDone
      <3> QED BY <1>3, <3>1, <3>2 DEF MarkInv, Marked
    <2>2. CASE job[tx.by].kind # "release"
      <3>1. used' = used BY <2>2 DEF UpsertDone
      <3> QED BY <1>3, <3>1 DEF MarkInv, Marked
    <2> QED BY <2>1, <2>2
  <1>5. \A w \in Writers : job'[w] # NoJob => job'[w] = job[w] BY <1>0 DEF UpsertDone, Types
  <1> QED BY <1>3, <1>4, <1>5 DEF MarkInv, LapsesOK, LapseOK

LEMMA MarkStep == ASSUME Undisturbed PROVE MarkInv /\ [Next]_vars => MarkInv'
  <1> SUFFICES ASSUME MarkInv, [Next]_vars PROVE MarkInv' OBVIOUS
  <1>0. HoldInv /\ HoldInv' /\ IndexInv /\ IndexInv' BY HoldStep DEF MarkInv, HoldInv
  <1>1. NoDeclines'
    <2>1. CASE net' \subseteq net BY <2>1 DEF MarkInv, NoDeclines
    <2>2. ASSUME NEW mac \in MACs, NEW kind \in Leaving, ClientLeaves(mac, kind) PROVE NoDeclines'
      <3>1. net' = net \cup {[kind |-> kind, ip |-> hold[mac].ip]} /\ kind # "decline"
        BY <2>2 DEF ClientLeaves, Undisturbed
      <3> QED BY <3>1 DEF MarkInv, NoDeclines
    <2> QED BY <2>1, <2>2
        DEF Next, vars, envVars, Tick, UpsertRead, UpsertPut, UpsertFail, UpsertIndex, UpsertDone,
            HandleDiscover, HandleRequest, MessageLost, HandleRelease, HandleDecline, ApiRelease,
            SweepList, SweepFetch, SweepExamine, Restart
  <1>2. Marked' /\ LapsesOK'
    <2>1. CASE UNCHANGED vars
      <3>1. now \in Nat BY <1>0 DEF IndexInv, Types
      <3>2. Quiet BY <2>1, <3>1 DEF Quiet, vars, storeVars, envVars, ghostVars
      <3> QED BY <3>2, MarkQuiet
    <2>2. CASE Next
      <3>1. CASE Quiet BY <3>1, MarkQuiet
      <3>2. ~Restart BY <1>0 DEF Restart, Undisturbed, IndexInv, Types
      <3> QED BY <1>0, <2>2, <3>1, <3>2, QuietSteps, MarkGrant, MarkRelease, MarkExamine, MarkPut,
                 MarkDone DEF Next
    <2> QED BY <2>1, <2>2
  <1> QED BY <1>0, <1>1, <1>2 DEF MarkInv

LEMMA MarkInit == Init => MarkInv
  <1> SUFFICES ASSUME Init PROVE MarkInv OBVIOUS
  <1>1. Marked /\ LapsesOK /\ NoDeclines BY DEF Init, Marked, LapsesOK, LapseOK, NoDeclines
  <1> QED BY <1>1, HoldInit DEF MarkInv

\* The packet loop starts a grant in no other step than the two handlers'.
LEMMA GrantSteps ==
    ASSUME Types, LockOK, Next, job["server"] = NoJob, job'["server"] # NoJob,
           job'["server"].kind \in {"offer", "ack"}
    PROVE  \E mac \in MACs, target \in IPs : \E ip \in Allocate(mac, target) : job'["server"].ip = ip
  <1>0. "server" \in Writers BY WritersAssumption
  <1>1. ASSUME NEW w \in Writers, UpsertRead(w) \/ UpsertPut(w) \/ UpsertFail(w) PROVE FALSE
    BY <1>0, <1>1 DEF UpsertRead, UpsertPut, UpsertFail, Types
  <1>2. ASSUME UpsertIndex \/ UpsertDone \/ Restart PROVE FALSE
    BY <1>0, <1>2 DEF UpsertIndex, UpsertDone, Restart, Types
  <1>3. ASSUME UNCHANGED job PROVE FALSE BY <1>3
  <1>4. ASSUME NEW w \in Writers, NEW kind, NEW ip, NEW fresh, NEW new, StartUpsert(w, kind, ip, fresh, new)
        PROVE  w = "server" /\ job'["server"].kind = kind /\ job'["server"].ip = ip
    BY <1>0, <1>4 DEF StartUpsert, Types
  <1>5. ASSUME NEW ip \in IPs, HandleRelease(ip) \/ HandleDecline(ip) \/ ApiRelease(ip) PROVE FALSE
    <2>1. ASSUME NEW w \in Writers, NEW kind \in {"release", "decline", "api"}, NEW new,
                 StartUpsert(w, kind, ip, TRUE, new)
          PROVE  FALSE
      BY <1>4, <2>1
    <2> QED BY <1>0, <1>3, <1>5, <2>1 DEF HandleRelease, HandleDecline, ApiRelease
  <1>6. ASSUME SweepExamine PROVE FALSE
    <2>1. PICK b \in sweep.batch :
              StartUpsert("sweeper", "sweep", b.ip, b.rec = lease[b.ip], Swept(b.rec, sweep.at))
      BY <1>3, <1>6 DEF SweepExamine
    <2>2. job'["server"] = job["server"] BY <1>0, <2>1 DEF StartUpsert, Types
    <2> QED BY <2>2
  <1>7. ASSUME NEW mac \in MACs, NEW target \in IPs,
               (\E rapidCommit \in BOOLEAN : HandleDiscover(mac, target, rapidCommit))
               \/ HandleRequest(mac, target)
        PROVE  \E ip \in Allocate(mac, target) : job'["server"].ip = ip
    BY <1>0, <1>3, <1>4, <1>7 DEF HandleDiscover, HandleRequest
  <1> QED BY <1>1, <1>2, <1>3, <1>5, <1>6, <1>7
      DEF Next, Tick, ClientLeaves, MessageLost, SweepList, SweepFetch

QuarantineStep ==
    LET j == job'["server"] IN
    job["server"] = NoJob /\ j # NoJob /\ j.kind \in {"offer", "ack"} /\ j.ip \notin displaced =>
        (lease[j.ip].state \in {"expired", "declined", "quarantined"} => now > lease[j.ip].until)

LEMMA QuarantineStepHolds == MarkInv /\ [Next]_vars => [QuarantineStep]_vars
  <1> SUFFICES ASSUME MarkInv, Next, job["server"] = NoJob, job'["server"] # NoJob,
                      job'["server"].kind \in {"offer", "ack"}, job'["server"].ip \notin displaced,
                      lease[job'["server"].ip].state \in {"expired", "declined", "quarantined"}
               PROVE  FALSE
    BY DEF QuarantineStep
  <1>0. Types /\ LockOK BY DEF MarkInv, HoldInv, IndexInv
  <1>a. PICK mac \in MACs, target \in IPs : \E ip \in Allocate(mac, target) : job'["server"].ip = ip
    BY <1>0, GrantSteps
  <1>1. PICK ip \in Allocate(mac, target) : job'["server"].ip = ip BY <1>a
  <1>2. ip \in IPs /\ (ip \in Reusable(mac) \/ ip \notin used) BY <1>0, AllocateFacts
  <1>3. ip \notin Reusable(mac) BY <1>1 DEF Reusable
  <1>4. lease[ip] # NoLease BY <1>1 DEF NoLease
  <1> QED BY <1>1, <1>2, <1>3, <1>4 DEF MarkInv, Marked

\* Allocate gives out no address whose record is still inside its quarantine, as
\* long as no upsert fails, nothing restarts and no client declines: both a
\* restart, after which SyncFromLeases sets no bit for an expired record, and a
\* DECLINE of a released address really break it.
THEOREM QuarantineKept == Undisturbed => (Spec => QuarantineHonoured)
  <1> SUFFICES ASSUME Undisturbed PROVE Spec => QuarantineHonoured OBVIOUS
  <1>1. MarkInv /\ [Next]_vars => MarkInv' BY MarkStep
  <1> QED BY <1>1, MarkInit, QuarantineStepHolds, PTL DEF Spec, QuarantineHonoured, QuarantineStep
=============================================================================

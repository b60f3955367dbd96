---------------------------- MODULE HASync_proofs ----------------------------
(***************************************************************************)
(* Proofs about HASync, for every set of addresses and leases, capacity of *)
(* the mutation channel and number of transactions and faults: type        *)
(* correctness, and that the secondary's leases are as recent as its       *)
(* sequence number claims.                                                 *)
(***************************************************************************)
EXTENDS HASync, SequenceTheorems, TLAPS

Steps == [step : {"idle", "wait", "list"}]
Requests == [step : {"idle", "asked", "applying"}]
Increments ==
    [kind : {"increment"}, step : {"classify", "apply", "mark"}, seq : 1..MaxSeq, ip : IPs,
     val : Vals \cup {Absent}, live : BOOLEAN]
Snapshots ==
    [kind : {"push", "requested"}, step : {"upsert", "prune", "mark"}, seq : 0..MaxSeq,
     map : Maps, asof : 0..MaxSeq, live : BOOLEAN]

LEMMA HandlerFacts ==
    ASSUME NEW h \in Handlers
    PROVE  /\ h.kind = "increment" => h \in Increments
           /\ h.kind # "increment" => h \in Snapshots
           /\ h.step \in {"upsert", "prune"} => h.kind # "increment"
           /\ h.step \in {"classify", "apply"} => h.kind = "increment"
  BY DEF Handlers, Increments, Snapshots

LEMMA DeafFacts ==
    ASSUME NEW h \in Handlers
    PROVE  /\ Deaf(h) \in Handlers
           /\ Deaf(h).kind = h.kind /\ Deaf(h).step = h.step /\ Deaf(h).seq = h.seq
           /\ h.kind = "increment" => Deaf(h).ip = h.ip /\ Deaf(h).val = h.val
           /\ h.kind # "increment" => Deaf(h).map = h.map /\ Deaf(h).asof = h.asof
  <1>1. CASE h \in Increments BY <1>1 DEF Deaf, Handlers, Increments
  <1>2. CASE h \in Snapshots BY <1>2 DEF Deaf, Handlers, Snapshots
  <1> QED BY <1>1, <1>2, HandlerFacts

\* A handler goes to its next step.
LEMMA NextStepFacts ==
    ASSUME NEW h \in Handlers, NEW s
    PROVE  LET g == [h EXCEPT !.step = s] IN
           /\ h.kind = "increment" /\ s \in {"apply", "mark"} => g \in Handlers
           /\ h.kind # "increment" /\ s \in {"prune", "mark"} => g \in Handlers
           /\ g.kind = h.kind /\ g.step = s /\ g.seq = h.seq
           /\ h.kind = "increment" => g.ip = h.ip /\ g.val = h.val
           /\ h.kind # "increment" => g.map = h.map /\ g.asof = h.asof
  <1>1. CASE h \in Increments BY <1>1 DEF Handlers, Increments
  <1>2. CASE h \in Snapshots BY <1>2 DEF Handlers, Snapshots
  <1> QED BY <1>1, <1>2, HandlerFacts

(***************************************************************************)
(* Type correctness.  Sequence numbers in the queue are those of past      *)
(* transactions: syncSeq stays behind seq.                                 *)
(***************************************************************************)
QueuePast == \A i \in 1..Len(queue) : queue[i].seq <= seq
Types == SyncTypeOK /\ QueuePast

LEMMA AnswerType ==
    ASSUME SyncTypeOK, NEW h \in work, NEW answer, Answer(h, answer)
    PROVE  loop' \in Steps \cup Listing /\ work' \subseteq Handlers
  BY DEF Answer, SyncTypeOK, Idle, Steps

LEMMA DeliverFacts ==
    ASSUME Types, NEW e \in Events
    PROVE  /\ Deliver(e) \in Seq(Events) /\ Len(Deliver(e)) <= QueueCap
           /\ \A i \in 1..Len(Deliver(e)) : Deliver(e)[i] = e \/ (i \in 1..Len(queue) /\ Deliver(e)[i] = queue[i])
  <1>1. queue \in Seq(Events) /\ Len(queue) \in Nat /\ Len(queue) <= QueueCap /\ QueueCap \in Nat
    BY SyncBoundsAssumption DEF Types, SyncTypeOK
  <1>2. CASE Len(queue) < QueueCap
    <2>1. Deliver(e) = Append(queue, e) BY <1>2 DEF Deliver
    <2>2. /\ Append(queue, e) \in Seq(Events) /\ Len(Append(queue, e)) = Len(queue) + 1
          /\ \A i \in 1..Len(queue) : Append(queue, e)[i] = queue[i]
          /\ Append(queue, e)[Len(queue) + 1] = e
      BY <1>1, AppendProperties
    <2> QED BY <1>1, <1>2, <2>1, <2>2
  <1>3. CASE ~(Len(queue) < QueueCap) BY <1>1, <1>3 DEF Deliver
  <1> QED BY <1>2, <1>3

LEMMA QueueFacts ==
    ASSUME Types
    PROVE  \A i \in 1..Len(queue) : queue[i] \in Events /\ queue[i].seq \in Nat /\ queue[i].seq <= seq
  <1> SUFFICES ASSUME NEW i \in 1..Len(queue)
               PROVE  queue[i] \in Events /\ queue[i].seq \in Nat /\ queue[i].seq <= seq
    OBVIOUS
  <1>1. queue \in Seq(Events) BY DEF Types, SyncTypeOK
  <1>2. queue[i] \in Events BY <1>1, ElementOfSeq
  <1>3. queue[i].seq \in Nat BY <1>2, SyncBoundsAssumption DEF Events
  <1> QED BY <1>2, <1>3 DEF Types, QueuePast

LEMMA TypesInit == SyncInit => Types
  <1> SUFFICES ASSUME SyncInit PROVE Types OBVIOUS
  <1>1. loop \in Steps \cup Listing /\ req \in Requests \cup Listing
    BY DEF SyncInit, Idle, Steps, Requests
  <1>2. hist \in Seq(Maps) /\ Len(hist) = 1 BY DEF SyncInit
  <1>3. queue \in Seq(Events) /\ Len(queue) = 0 BY DEF SyncInit
  <1>4. seq \in 0..MaxSeq /\ syncSeq \in 0..seq /\ applied \in 0..MaxSeq /\ faults \in 0..MaxFaults
    BY SyncBoundsAssumption DEF SyncInit
  <1>5. pconn \in BOOLEAN /\ sconn \in BOOLEAN /\ done \in BOOLEAN /\ mixed \in BOOLEAN
    BY DEF SyncInit
  <1>6. Len(hist) = seq + 1 /\ Len(queue) <= QueueCap BY <1>2, <1>3, SyncBoundsAssumption DEF SyncInit
  <1>7. pl \in Maps /\ sl \in Maps /\ work \subseteq Handlers BY DEF SyncInit
  <1>8. QueuePast BY <1>3 DEF QueuePast
  <1> QED BY <1>1, <1>2, <1>3, <1>4, <1>5, <1>6, <1>7, <1>8 DEF Types, SyncTypeOK, Steps, Requests

LEMMA TypesPrimary ==
    ASSUME Types,
           \/ \E ip \in IPs, val \in Vals \cup {Absent} : LeaseWrite(ip, val)
           \/ OtherTx \/ LoopTake \/ PushList \/ PushSend \/ LoopTimeout
    PROVE  Types'
  <1> USE DEF sVars, pVars
  <1>0. /\ seq \in Nat /\ seq \in 0..MaxSeq /\ MaxSeq \in Nat /\ syncSeq \in 0..seq /\ pl \in Maps
        /\ hist \in Seq(Maps) /\ Len(hist) = seq + 1 /\ faults \in 0..MaxFaults /\ MaxFaults \in Nat
    BY SyncBoundsAssumption DEF Types, SyncTypeOK
  <1>a. Fault => faults' \in 0..MaxFaults BY <1>0 DEF Fault
  <1>1. ASSUME NEW ip \in IPs, NEW val \in Vals \cup {Absent}, LeaseWrite(ip, val) PROVE Types'
    <2>1. pl' \in Maps BY <1>0, <1>1 DEF LeaseWrite, Maps
    <2>2. hist' \in Seq(Maps) /\ Len(hist') = seq' + 1
      BY <1>0, <1>1, <2>1, AppendProperties DEF LeaseWrite
    <2> DEFINE e == [seq |-> seq + 1, ip |-> ip, val |-> val]
    <2>3. e \in Events /\ e.seq = seq + 1 BY <1>0, <1>1 DEF LeaseWrite, Events
    <2>4. queue' = Deliver(e) /\ seq' = seq + 1 BY <1>1 DEF LeaseWrite
    <2>5. queue' \in Seq(Events) /\ Len(queue') <= QueueCap BY <2>3, <2>4, DeliverFacts
    <2>6. QueuePast'
      <3> SUFFICES ASSUME NEW i \in 1..Len(queue') PROVE queue'[i].seq <= seq' BY DEF QueuePast
      <3>1. queue'[i] = e \/ (i \in 1..Len(queue) /\ queue'[i] = queue[i]) BY <2>3, <2>4, DeliverFacts
      <3>2. i \in 1..Len(queue) => queue[i].seq \in Nat /\ queue[i].seq <= seq
        BY QueueFacts
      <3> QED BY <1>0, <2>3, <2>4, <3>1, <3>2
    <2>7. seq' \in 0..MaxSeq /\ syncSeq' \in 0..seq' BY <1>0, <1>1 DEF LeaseWrite
    <2> QED BY <1>1, <2>1, <2>2, <2>5, <2>6, <2>7 DEF LeaseWrite, Types, SyncTypeOK
  <1>2. CASE OtherTx
    <2>1. hist' \in Seq(Maps) /\ Len(hist') = seq' + 1 BY <1>0, <1>2, AppendProperties DEF OtherTx
    <2>2. seq' \in 0..MaxSeq /\ syncSeq' \in 0..seq' BY <1>0, <1>2 DEF OtherTx
    <2>3. QueuePast'
      <3>1. \A i \in 1..Len(queue) : queue[i].seq \in Nat /\ queue[i].seq <= seq
        BY QueueFacts
      <3> QED BY <1>0, <1>2, <3>1 DEF OtherTx, QueuePast
    <2> QED BY <1>2, <2>1, <2>2, <2>3 DEF OtherTx, Types, SyncTypeOK
  <1>3. CASE LoopTake
    <2>1. queue \in Seq(Events) /\ queue # <<>> /\ Len(queue) <= QueueCap /\ Len(queue) \in Nat
      BY <1>3 DEF LoopTake, Types, SyncTypeOK
    <2>2. /\ Head(queue) \in Events /\ Tail(queue) \in Seq(Events) /\ Len(Tail(queue)) = Len(queue) - 1
          /\ \A i \in 1..Len(queue) - 1 : Tail(queue)[i] = queue[i + 1]
          /\ Head(queue) = queue[1] /\ Len(queue) >= 1
      BY <2>1, HeadTailProperties, EmptySeq
    <2>3. Head(queue).seq \in 1..MaxSeq /\ Head(queue).seq <= seq
      BY <2>1, <2>2 DEF Types, QueuePast, Events
    <2>4. queue' \in Seq(Events) /\ Len(queue') <= QueueCap
      BY <1>3, <2>1, <2>2, SyncBoundsAssumption DEF LoopTake
    <2>5. QueuePast'
      <3>1. \A i \in 1..Len(queue) - 1 : queue[i + 1].seq <= seq BY <2>1 DEF Types, QueuePast
      <3> QED BY <1>3, <2>2, <3>1 DEF LoopTake, QueuePast
    <2>6. syncSeq' \in 0..seq BY <1>0, <1>3, <2>3 DEF LoopTake, MaxOf
    <2>7. Increment(Head(queue)) \in Handlers BY <2>2 DEF Increment, Events, Handlers
    <2>8. work' \subseteq Handlers BY <1>3, <2>7 DEF LoopTake, Types, SyncTypeOK
    <2>9. loop' \in Steps \cup Listing BY <1>3 DEF LoopTake, Types, SyncTypeOK, Steps
    <2>10. faults' \in 0..MaxFaults BY <1>0, <1>3, <1>a DEF LoopTake
    <2>11. mixed' \in BOOLEAN BY <1>3, Zenon DEF LoopTake, Types, SyncTypeOK
    <2> QED BY <1>3, <2>4, <2>5, <2>6, <2>8, <2>9, <2>10, <2>11 DEF LoopTake, Types, SyncTypeOK, Steps
  <1>4. CASE PushList
    <2>1. loop' \in Steps \cup Listing BY <1>0, <1>4 DEF PushList, Listing
    <2> QED BY <1>4, <2>1 DEF PushList, Types, SyncTypeOK, QueuePast, Steps
  <1>5. CASE PushSend
    <2>1. loop \in Listing BY <1>5 DEF PushSend, Types, SyncTypeOK
    <2>2. Snapshot("push", loop) \in Handlers BY <1>0, <2>1 DEF Snapshot, Listing, Handlers
    <2>3. work' \subseteq Handlers BY <1>5, <2>2 DEF PushSend, Types, SyncTypeOK
    <2>4. loop' \in Steps \cup Listing BY <1>5 DEF PushSend, Steps, Idle
    <2>5. faults' \in 0..MaxFaults BY <1>0, <1>5, <1>a DEF PushSend
    <2>6. mixed' \in BOOLEAN BY <1>5, Zenon DEF PushSend, Types, SyncTypeOK
    <2> QED BY <1>5, <2>3, <2>4, <2>5, <2>6 DEF PushSend, Types, SyncTypeOK, QueuePast, Steps
  <1>6. CASE LoopTimeout
    <2>1. work' \subseteq Handlers BY <1>6, DeafFacts DEF LoopTimeout, Types, SyncTypeOK
    <2>2. loop' \in Steps \cup Listing BY <1>6 DEF LoopTimeout, Steps, Idle
    <2> QED BY <1>6, <1>a, <2>1, <2>2 DEF LoopTimeout, Types, SyncTypeOK, QueuePast, Steps
  <1> QED BY <1>1, <1>2, <1>3, <1>4, <1>5, <1>6

LEMMA TypesWork ==
    ASSUME Types, NEW h \in work,
           \/ HandleClassify(h) \/ HandleApply(h) \/ HandleMark(h)
           \/ SnapshotUpsert(h) \/ SnapshotPrune(h) \/ SnapshotMark(h)
    PROVE  Types'
  <1> USE DEF pVars
  <1>0. /\ h \in Handlers /\ SyncTypeOK /\ applied \in 0..MaxSeq /\ MaxSeq \in Nat /\ sl \in Maps
        /\ faults \in 0..MaxFaults /\ MaxFaults \in Nat /\ work \subseteq Handlers
        /\ loop \in Steps \cup Listing /\ req \in Requests \cup Listing
    BY SyncBoundsAssumption DEF Types, SyncTypeOK, Steps, Requests
  <1>a. Fault => faults' \in 0..MaxFaults BY <1>0 DEF Fault
  <1>b. h.seq \in 0..MaxSeq BY <1>0 DEF Handlers
  <1>c. UNCHANGED <<pl, seq, queue, syncSeq, pconn, sconn, hist>>
    BY DEF HandleClassify, HandleApply, HandleMark, SnapshotUpsert, SnapshotPrune, SnapshotMark
  <1>d. \A answer : Answer(h, answer) => loop' \in Steps \cup Listing /\ work' \subseteq Handlers
    BY <1>0, AnswerType
  <1> SUFFICES /\ loop' \in Steps \cup Listing /\ work' \subseteq Handlers /\ req' \in Requests \cup Listing
               /\ sl' \in Maps /\ applied' \in 0..MaxSeq /\ faults' \in 0..MaxFaults
               /\ done' \in BOOLEAN /\ mixed' \in BOOLEAN
    BY <1>c DEF Types, SyncTypeOK, QueuePast, Steps, Requests
  <1>1. CASE HandleClassify(h)
    <2>1. work' \subseteq Handlers
      BY <1>0, <1>1, <1>d, NextStepFacts DEF HandleClassify
    <2>2. loop' \in Steps \cup Listing BY <1>0, <1>1, <1>d DEF HandleClassify
    <2>3. applied' \in 0..MaxSeq BY <1>0, <1>1 DEF HandleClassify
    <2>4. done' \in BOOLEAN BY <1>0, <1>1 DEF HandleClassify, SyncTypeOK
    <2>5. mixed' \in BOOLEAN BY <1>0, <1>1 DEF HandleClassify, SyncTypeOK
    <2> QED BY <1>0, <1>1, <2>1, <2>2, <2>3, <2>4, <2>5 DEF HandleClassify
  <1>2. CASE HandleApply(h)
    <2>1. work' \subseteq Handlers BY <1>0, <1>2, <1>d, NextStepFacts DEF HandleApply
    <2>2. loop' \in Steps \cup Listing BY <1>0, <1>2, <1>d DEF HandleApply
    <2>3. h.ip \in IPs /\ h.val \in Vals \cup {Absent}
      BY <1>0, <1>2, HandlerFacts DEF HandleApply, Increments
    <2>4. sl' \in Maps BY <1>0, <1>2, <2>3 DEF HandleApply, Maps
    <2>5. faults' \in 0..MaxFaults BY <1>0, <1>2, <1>a DEF HandleApply
    <2>6. done' \in BOOLEAN /\ mixed' \in BOOLEAN BY <1>0, <1>2 DEF HandleApply, SyncTypeOK
    <2> QED BY <1>0, <1>2, <2>1, <2>2, <2>4, <2>5, <2>6 DEF HandleApply
  <1>3. CASE HandleMark(h)
    <2>1. applied' \in 0..MaxSeq BY <1>0, <1>3, <1>b DEF HandleMark, SetAppliedSequence, MaxOf
    <2>2. done' \in BOOLEAN /\ mixed' \in BOOLEAN BY <1>0, <1>3 DEF HandleMark, SyncTypeOK
    <2> QED BY <1>0, <1>3, <1>d, <2>1, <2>2 DEF HandleMark
  <1>4. CASE SnapshotUpsert(h)
    <2>1. h.kind # "increment" /\ h.map \in Maps
      BY <1>0, <1>4, HandlerFacts DEF SnapshotUpsert, Snapshots
    <2>2. work' \subseteq Handlers BY <1>0, <1>4, <1>d, <2>1, NextStepFacts DEF SnapshotUpsert
    <2>3. loop' \in Steps \cup Listing BY <1>0, <1>4, <1>d DEF SnapshotUpsert
    <2>4. sl' \in Maps BY <1>0, <1>4, <2>1 DEF SnapshotUpsert, Maps
    <2>5. faults' \in 0..MaxFaults BY <1>0, <1>4, <1>a DEF SnapshotUpsert
    <2>6. req' \in Requests \cup Listing BY <1>0, <1>4 DEF SnapshotUpsert, Idle, Requests
    <2>7. done' \in BOOLEAN BY <1>0, <1>4 DEF SnapshotUpsert, SyncTypeOK
    <2>8. mixed' \in BOOLEAN BY <1>0, <1>4, Zenon DEF SnapshotUpsert, SyncTypeOK
    <2> QED BY <1>0, <1>4, <2>2, <2>3, <2>4, <2>5, <2>6, <2>7, <2>8 DEF SnapshotUpsert
  <1>5. CASE SnapshotPrune(h)
    <2>1. h.kind # "increment" BY <1>0, <1>5, HandlerFacts DEF SnapshotPrune
    <2>2. work' \subseteq Handlers BY <1>0, <1>5, <1>d, <2>1, NextStepFacts DEF SnapshotPrune
    <2>3. loop' \in Steps \cup Listing BY <1>0, <1>5, <1>d DEF SnapshotPrune
    <2>4. sl' \in Maps BY <1>0, <1>5 DEF SnapshotPrune, Maps
    <2>5. faults' \in 0..MaxFaults BY <1>0, <1>5, <1>a DEF SnapshotPrune
    <2>6. req' \in Requests \cup Listing BY <1>0, <1>5 DEF SnapshotPrune, Idle, Requests
    <2>7. done' \in BOOLEAN /\ mixed' \in BOOLEAN BY <1>0, <1>5 DEF SnapshotPrune, SyncTypeOK
    <2> QED BY <1>0, <1>5, <2>2, <2>3, <2>4, <2>5, <2>6, <2>7 DEF SnapshotPrune
  <1>6. CASE SnapshotMark(h)
    <2>1. applied' \in 0..MaxSeq BY <1>0, <1>6, <1>b DEF SnapshotMark, SetAppliedSequence, MaxOf
    <2>2. req' \in Requests \cup Listing BY <1>0, <1>6 DEF SnapshotMark, Idle, Requests
    <2>3. done' \in BOOLEAN BY <1>6 DEF SnapshotMark
    <2>4. mixed' \in BOOLEAN BY <1>0, <1>6 DEF SnapshotMark, SyncTypeOK
    <2> QED BY <1>0, <1>6, <1>d, <2>1, <2>2, <2>3, <2>4 DEF SnapshotMark
  <1> QED BY <1>1, <1>2, <1>3, <1>4, <1>5, <1>6

LEMMA TypesOther ==
    ASSUME Types,
           \/ ReqSend \/ ReqList \/ ReqReply \/ ReqFails
           \/ SecondaryLosesPeer \/ PrimaryLosesPeer \/ PeersMeet
           \/ PrimaryRestarts \/ SecondaryRestarts
    PROVE  Types'
  <1> USE DEF pVars, sVars
  <1>0. /\ SyncTypeOK /\ MaxSeq \in Nat /\ seq \in 0..MaxSeq /\ syncSeq \in 0..seq /\ pl \in Maps
        /\ faults \in 0..MaxFaults /\ MaxFaults \in Nat /\ work \subseteq Handlers
        /\ loop \in Steps \cup Listing /\ req \in Requests \cup Listing
    BY SyncBoundsAssumption DEF Types, SyncTypeOK, Steps, Requests
  <1>a. Fault => faults' \in 0..MaxFaults BY <1>0 DEF Fault
  <1>1. CASE ReqSend
    <2>1. req' \in Requests \cup Listing BY <1>1 DEF ReqSend, Requests
    <2> QED BY <1>1, <2>1 DEF ReqSend, Types, SyncTypeOK, QueuePast, Requests
  <1>2. CASE ReqList
    <2>1. req' \in Requests \cup Listing BY <1>0, <1>2 DEF ReqList, Listing
    <2> QED BY <1>2, <2>1 DEF ReqList, Types, SyncTypeOK, QueuePast, Requests
  <1>3. CASE ReqReply
    <2>1. req \in Listing BY <1>0, <1>3 DEF ReqReply, Requests
    <2>2. Snapshot("requested", req) \in Handlers BY <1>0, <2>1 DEF Snapshot, Listing, Handlers
    <2>3. work' \subseteq Handlers BY <1>0, <1>3, <2>2 DEF ReqReply
    <2>4. req' \in Requests \cup Listing BY <1>3 DEF ReqReply, Requests
    <2>5. mixed' \in BOOLEAN BY <1>3, Zenon DEF ReqReply
    <2> QED BY <1>3, <2>3, <2>4, <2>5 DEF ReqReply, Types, SyncTypeOK, QueuePast, Requests
  <1>4. CASE ReqFails
    <2>1. req' \in Requests \cup Listing BY <1>4 DEF ReqFails, Idle, Requests
    <2> QED BY <1>4, <1>a, <2>1 DEF ReqFails, Types, SyncTypeOK, QueuePast, Requests
  <1>5. CASE SecondaryLosesPeer
    <2>1. applied' \in 0..MaxSeq BY <1>0, <1>5 DEF SecondaryLosesPeer
    <2>2. sconn' \in BOOLEAN /\ done' \in BOOLEAN BY <1>5 DEF SecondaryLosesPeer
    <2>3. mixed' \in BOOLEAN BY <1>5, Zenon DEF SecondaryLosesPeer
    <2> QED BY <1>5, <1>a, <2>1, <2>2, <2>3 DEF SecondaryLosesPeer, Types, SyncTypeOK, QueuePast
  <1>6. CASE PrimaryLosesPeer
    <2>1. pconn' \in BOOLEAN BY <1>6 DEF PrimaryLosesPeer
    <2> QED BY <1>6, <1>a, <2>1 DEF PrimaryLosesPeer, Types, SyncTypeOK, QueuePast
  <1>7. CASE PeersMeet
    <2>1. pconn' \in BOOLEAN /\ sconn' \in BOOLEAN BY <1>7 DEF PeersMeet
    <2> QED BY <1>7, <2>1 DEF PeersMeet, Types, SyncTypeOK, QueuePast
  <1>8. CASE PrimaryRestarts
    <2>1. seq' \in 0..MaxSeq /\ syncSeq' \in 0..seq' BY <1>0, <1>8 DEF PrimaryRestarts
    <2>2. queue' \in Seq(Events) /\ Len(queue') = 0 BY <1>8 DEF PrimaryRestarts
    <2>3. hist' \in Seq(Maps) /\ Len(hist') = seq' + 1 BY <1>0, <1>8 DEF PrimaryRestarts
    <2>4. loop' \in Steps \cup Listing /\ req' \in Requests \cup Listing
      BY <1>0, <1>8 DEF PrimaryRestarts, Idle, Steps, Requests
    <2>5. work' \subseteq Handlers BY <1>0, <1>8, DeafFacts DEF PrimaryRestarts
    <2>6. pconn' \in BOOLEAN BY <1>8 DEF PrimaryRestarts
    <2>7. mixed' \in BOOLEAN BY <1>8, Zenon DEF PrimaryRestarts
    <2>8. QueuePast' /\ Len(queue') <= QueueCap BY <2>2, SyncBoundsAssumption DEF QueuePast
    <2>9. UNCHANGED <<pl, sl, applied, done, sconn>> /\ faults' \in 0..MaxFaults
      BY <1>8, <1>a DEF PrimaryRestarts
    <2> QED BY <2>1, <2>2, <2>3, <2>4, <2>5, <2>6, <2>7, <2>8, <2>9
        DEF Types, SyncTypeOK, Steps, Requests
  <1>9. CASE SecondaryRestarts
    <2>1. applied' \in 0..MaxSeq BY <1>0, <1>9 DEF SecondaryRestarts
    <2>2. done' \in BOOLEAN /\ sconn' \in BOOLEAN /\ mixed' \in BOOLEAN BY <1>9 DEF SecondaryRestarts
    <2>3. loop' \in Steps \cup Listing /\ req' \in Requests \cup Listing
      BY <1>0, <1>9 DEF SecondaryRestarts, Idle, Steps, Requests
    <2> QED BY <1>9, <1>a, <2>1, <2>2, <2>3 DEF SecondaryRestarts, Types, SyncTypeOK, QueuePast, Steps, Requests
  <1> QED BY <1>1, <1>2, <1>3, <1>4, <1>5, <1>6, <1>7, <1>8, <1>9

LEMMA TypesStep == Types /\ [SyncNext]_syncVars => Types'
  <1> SUFFICES ASSUME Types, [SyncNext]_syncVars PROVE Types' OBVIOUS
  <1>1. CASE UNCHANGED syncVars
    BY <1>1 DEF syncVars, pVars, sVars, Types, SyncTypeOK, QueuePast
  <1> QED BY <1>1, TypesPrimary, TypesWork, TypesOther DEF SyncNext, Work

\* Every reachable state of the lease synchronisation is well typed; the mutation
\* channel never holds more than its capacity.
THEOREM SyncTypeCorrect == SyncSpec => []SyncTypeOK
  <1>1. Types => SyncTypeOK BY DEF Types
  <1> QED BY <1>1, TypesInit, TypesStep, PTL DEF SyncSpec

(***************************************************************************)
(* The secondary's leases are as recent as its number claims.              *)
(***************************************************************************)

\* The event e tells what transaction e.seq changed.
EventOK(e) ==
    /\ e.seq \in 1..seq /\ hist[e.seq + 1][e.ip] = e.val
    /\ \A ip \in IPs \ {e.ip} : hist[e.seq + 1][ip] = hist[e.seq][ip]
ListedOK(x) == x.step = "listed" => x.asof <= seq /\ x.map = hist[x.asof + 1]
PrimaryOK ==
    /\ pl = hist[seq + 1]
    /\ ListedOK(loop) /\ ListedOK(req)
    /\ \A i \in 1..Len(queue) : EventOK(queue[i])

\* Every lease of the secondary is the primary's as of transaction n or later.
From(n) == \A ip \in IPs : \E j \in n..seq : sl[ip] = hist[j + 1][ip]

\* What a handler knows of the leases it has written so far.
HandlerOK(h) ==
    /\ h.kind = "increment" =>
          /\ EventOK(h)
          /\ done = TRUE /\ h.step # "classify" => applied = h.seq - 1
          /\ done = TRUE /\ h.step = "mark" => From(h.seq)
    /\ h.kind # "increment" =>
          /\ h.asof <= seq /\ h.map = hist[h.asof + 1] /\ h.seq <= h.asof
          /\ h.step # "upsert" => applied <= h.asof
          /\ h.step = "prune" => \A ip \in IPs : h.map[ip] # Absent => sl[ip] = h.map[ip]
          /\ h.step = "mark" => sl = h.map

SecondaryOK ==
    mixed = FALSE =>
        /\ \A g, h \in work : g = h
        /\ \A h \in work : HandlerOK(h)
        /\ done = TRUE => From(applied)

SyncInv == Types /\ PrimaryOK /\ SecondaryOK

Grows == seq' \in Nat /\ seq <= seq' /\ \A j \in 0..seq : hist'[j + 1] = hist[j + 1]

LEMMA GrowSteps ==
    ASSUME Types, [SyncNext]_syncVars PROVE Grows \/ PrimaryRestarts
  <1>0. seq \in Nat /\ hist \in Seq(Maps) /\ Len(hist) = seq + 1 /\ pl \in Maps
    BY SyncBoundsAssumption DEF Types, SyncTypeOK
  <1>1. CASE UNCHANGED <<seq, hist>> BY <1>0, <1>1 DEF Grows
  <1>2. ASSUME NEW m \in Maps, seq' = seq + 1, hist' = Append(hist, m) PROVE Grows
    <2>1. \A i \in 1..Len(hist) : Append(hist, m)[i] = hist[i] BY <1>0, AppendProperties
    <2> QED BY <1>0, <1>2, <2>1 DEF Grows
  <1>3. CASE OtherTx BY <1>0, <1>2, <1>3 DEF OtherTx
  <1>4. ASSUME NEW ip \in IPs, NEW val \in Vals \cup {Absent}, LeaseWrite(ip, val) PROVE Grows
    <2>1. pl' \in Maps BY <1>0, <1>4 DEF LeaseWrite, Maps
    <2> QED BY <1>2, <1>4, <2>1 DEF LeaseWrite
  <1> QED BY <1>1, <1>3, <1>4
      DEF SyncNext, Work, syncVars, pVars, LoopTake, PushList, PushSend, LoopTimeout, HandleClassify, HandleApply,
          HandleMark, SnapshotUpsert, SnapshotPrune, SnapshotMark, ReqSend, ReqList, ReqReply, ReqFails,
          SecondaryLosesPeer, PrimaryLosesPeer, PeersMeet, SecondaryRestarts

LEMMA GrowFacts ==
    ASSUME Types, Grows
    PROVE  /\ \A e \in Events : EventOK(e) => EventOK(e)'
           /\ \A e \in Increments : EventOK(e) => EventOK(e)'
           /\ \A n \in Nat : UNCHANGED sl /\ From(n) => From(n)'
  <1>0. seq \in Nat /\ MaxSeq \in Nat BY SyncBoundsAssumption DEF Types, SyncTypeOK
  <1>1. ASSUME NEW e, e.seq \in 1..MaxSeq, EventOK(e) PROVE EventOK(e)'
    <2>1. e.seq \in 1..seq /\ e.seq \in 0..seq /\ e.seq - 1 \in 0..seq /\ e.seq - 1 + 1 = e.seq
      BY <1>0, <1>1 DEF EventOK
    <2>2. hist'[e.seq + 1] = hist[e.seq + 1] /\ hist'[e.seq] = hist[e.seq] BY <2>1 DEF Grows
    <2>3. e.seq \in 1..seq' BY <1>0, <2>1 DEF Grows
    <2> QED BY <1>1, <2>2, <2>3 DEF EventOK
  <1>2. ASSUME NEW n \in Nat, UNCHANGED sl, From(n) PROVE From(n)'
    <2> SUFFICES ASSUME NEW ip \in IPs PROVE \E j \in n..seq' : sl[ip] = hist'[j + 1][ip]
      BY <1>2 DEF From
    <2>1. PICK j \in n..seq : sl[ip] = hist[j + 1][ip] BY <1>2 DEF From
    <2>2. j \in 0..seq /\ j \in n..seq' BY <1>0 DEF Grows
    <2> QED BY <2>1, <2>2 DEF Grows
  <1> QED BY <1>1, <1>2 DEF Events, Increments

\* Listings are made by PushList and ReqList.
LEMMA LoopLists ==
    ASSUME [SyncNext]_syncVars PROVE loop' = loop \/ loop'.step # "listed" \/ PushList
  <1> USE DEF pVars, sVars, Idle
  <1>1. ASSUME NEW h, NEW answer, Answer(h, answer) PROVE loop' = loop \/ loop'.step # "listed"
    BY <1>1 DEF Answer
  <1>2. ASSUME NEW h \in work,
               \/ HandleClassify(h) \/ HandleApply(h) \/ HandleMark(h)
               \/ SnapshotUpsert(h) \/ SnapshotPrune(h) \/ SnapshotMark(h)
        PROVE  loop' = loop \/ loop'.step # "listed"
    BY <1>1, <1>2 DEF HandleClassify, HandleApply, HandleMark, SnapshotUpsert, SnapshotPrune, SnapshotMark
  <1>3. CASE LoopTake \/ PushSend \/ LoopTimeout \/ PrimaryRestarts \/ SecondaryRestarts
    BY <1>3 DEF LoopTake, PushSend, LoopTimeout, PrimaryRestarts, SecondaryRestarts
  <1>4. CASE UNCHANGED loop BY <1>4
  <1> QED BY <1>2, <1>3, <1>4
      DEF SyncNext, Work, syncVars, LeaseWrite, OtherTx, ReqSend, ReqList, ReqReply, ReqFails,
          SecondaryLosesPeer, PrimaryLosesPeer, PeersMeet

LEMMA RequestLists ==
    ASSUME [SyncNext]_syncVars PROVE req' = req \/ req'.step # "listed" \/ ReqList
  <1> USE DEF pVars, sVars, Idle
  <1>1. ASSUME NEW h \in work,
               \/ HandleClassify(h) \/ HandleApply(h) \/ HandleMark(h)
               \/ SnapshotUpsert(h) \/ SnapshotPrune(h) \/ SnapshotMark(h)
        PROVE  req' = req \/ req'.step # "listed"
    BY <1>1 DEF HandleClassify, HandleApply, HandleMark, SnapshotUpsert, SnapshotPrune, SnapshotMark
  <1>2. CASE ReqSend \/ ReqReply \/ ReqFails \/ PrimaryRestarts \/ SecondaryRestarts
    BY <1>2 DEF ReqSend, ReqReply, ReqFails, PrimaryRestarts, SecondaryRestarts
  <1>3. CASE UNCHANGED req BY <1>3
  <1> QED BY <1>1, <1>2, <1>3
      DEF SyncNext, Work, syncVars, LeaseWrite, OtherTx, LoopTake, PushList, PushSend, LoopTimeout,
          SecondaryLosesPeer, PrimaryLosesPeer, PeersMeet

LEMMA PrimaryStep ==
    ASSUME SyncInv, Types', [SyncNext]_syncVars PROVE PrimaryOK'
  <1> USE DEF pVars, sVars
  <1>0. /\ Types /\ seq \in Nat /\ hist \in Seq(Maps) /\ Len(hist) = seq + 1 /\ pl \in Maps
        /\ loop \in Steps \cup Listing /\ req \in Requests \cup Listing
    BY SyncBoundsAssumption DEF SyncInv, Types, SyncTypeOK, Steps, Requests
  <1>1. CASE PrimaryRestarts
    <2>1. seq' = 0 /\ hist' = <<pl>> /\ pl' = pl /\ queue' = <<>> /\ loop'.step = "idle"
      BY <1>1 DEF PrimaryRestarts, Idle
    <2>2. req'.step # "listed" BY <1>0, <1>1 DEF PrimaryRestarts, Idle
    <2>3. hist'[1] = pl BY <2>1
    <2> QED BY <2>1, <2>2, <2>3 DEF PrimaryOK, ListedOK
  <1>2. CASE Grows
    <2>1. \A i \in 1..Len(queue) : queue[i] \in Events /\ EventOK(queue[i])
      BY <1>0, QueueFacts DEF SyncInv, PrimaryOK
    <2>2. \A i \in 1..Len(queue) : EventOK(queue[i])' \/ queue'[i] # queue[i]
      <3> SUFFICES ASSUME NEW i \in 1..Len(queue), queue'[i] = queue[i] PROVE EventOK(queue[i])' OBVIOUS
      <3>1. EventOK(queue[i]) /\ queue[i] \in Events BY <2>1
      <3>2. seq \in Nat /\ queue[i].seq \in 1..seq BY <1>0, <3>1 DEF EventOK
      <3>3. hist'[queue[i].seq + 1] = hist[queue[i].seq + 1] /\ hist'[queue[i].seq] = hist[queue[i].seq]
            /\ queue[i].seq \in 1..seq'
        <4>1. queue[i].seq \in 0..seq /\ queue[i].seq - 1 \in 0..seq /\ queue[i].seq - 1 + 1 = queue[i].seq
          BY <3>2
        <4> QED BY <1>0, <1>2, <3>2, <4>1 DEF Grows
      <3> QED BY <3>1, <3>3 DEF EventOK
    <2>3. ASSUME NEW x \in Listing, x.asof <= seq, x.map = hist[x.asof + 1]
          PROVE  x.asof <= seq' /\ x.map = hist'[x.asof + 1]
      <3>1. x.asof \in 0..seq BY <1>0, <2>3, SyncBoundsAssumption DEF Listing
      <3> QED BY <1>0, <1>2, <2>3, <3>1 DEF Grows
    <2>4. (loop' = loop => ListedOK(loop)') /\ (req' = req => ListedOK(req)')
      BY <1>0, <2>3 DEF SyncInv, PrimaryOK, ListedOK, Steps, Requests
    <2>5. loop'.step # "listed" => ListedOK(loop)' BY DEF ListedOK
    <2>6. req'.step # "listed" => ListedOK(req)' BY DEF ListedOK
    <2>7. CASE UNCHANGED <<pl, seq, hist>>
      <3>1. pl' = hist'[seq' + 1] BY <2>7 DEF SyncInv, PrimaryOK
      <3>2. ListedOK(loop)'
        <4>1. CASE PushList BY <1>0, <2>7, <4>1 DEF PushList, ListedOK, SyncInv, PrimaryOK
        <4>2. CASE ~PushList BY <2>4, <2>5, <4>2, LoopLists
        <4> QED BY <2>4, <4>1, <4>2
      <3>3. ListedOK(req)'
        <4>1. CASE ReqList BY <1>0, <2>7, <4>1 DEF ReqList, ListedOK, SyncInv, PrimaryOK
        <4>2. CASE ~ReqList BY <2>4, <2>6, <4>2, RequestLists
        <4> QED BY <2>4, <4>1, <4>2
      <3>4. \A i \in 1..Len(queue') : EventOK(queue'[i])
        <4>1. CASE queue' = queue BY <2>1, <4>1
        <4>2. CASE LoopTake
          <5>1. queue \in Seq(Events) /\ queue # <<>> /\ queue' = Tail(queue)
            BY <1>0, <4>2 DEF LoopTake, Types, SyncTypeOK
          <5>2. /\ Len(Tail(queue)) = Len(queue) - 1 /\ Len(queue) \in Nat
                /\ \A i \in 1..Len(Tail(queue)) : Tail(queue)[i] = queue[i + 1]
            BY <5>1, HeadTailProperties
          <5> QED BY <2>1, <5>1, <5>2
        <4>3. CASE PrimaryRestarts
          <5>1. queue' = <<>> BY <4>3 DEF PrimaryRestarts
          <5> QED BY <5>1
        <4>4. \A ip \in IPs, val \in Vals \cup {Absent} : ~LeaseWrite(ip, val)
          BY <1>0, <2>7 DEF LeaseWrite
        <4> QED BY <4>1, <4>2, <4>3, <4>4
            DEF SyncNext, Work, syncVars, OtherTx, PushList, PushSend,
                  LoopTimeout, HandleClassify, HandleApply, HandleMark, SnapshotUpsert, SnapshotPrune,
                  SnapshotMark, ReqSend, ReqList, ReqReply, ReqFails, SecondaryLosesPeer,
                  PrimaryLosesPeer, PeersMeet, SecondaryRestarts
      <3>5. \A i \in 1..Len(queue') : EventOK(queue[i])' BY <2>7, <3>4 DEF EventOK
      <3> QED BY <3>1, <3>2, <3>3, <3>5 DEF PrimaryOK
    <2>8. CASE OtherTx
      <3>1. UNCHANGED <<pl, queue, loop, req>> BY <2>8 DEF OtherTx
      <3>2. seq' = seq + 1 /\ hist' = Append(hist, pl) BY <2>8 DEF OtherTx
      <3>3. hist'[seq' + 1] = pl BY <1>0, <3>2, AppendProperties
      <3> QED BY <2>2, <2>4, <3>1, <3>3 DEF PrimaryOK
    <2>9. ASSUME NEW ip \in IPs, NEW val \in Vals \cup {Absent}, LeaseWrite(ip, val) PROVE PrimaryOK'
      <3> DEFINE e == [seq |-> seq + 1, ip |-> ip, val |-> val]
      <3>1. /\ UNCHANGED <<loop, req>> /\ seq' = seq + 1 /\ hist' = Append(hist, pl')
            /\ pl' = [pl EXCEPT ![ip] = val] /\ queue' = Deliver(e)
        BY <2>9 DEF LeaseWrite
      <3>2. pl' \in Maps BY <1>0, <3>1 DEF Maps
      <3>3. hist'[seq' + 1] = pl' /\ hist'[seq + 1] = hist[seq + 1]
        BY <1>0, <3>1, <3>2, AppendProperties
      <3>4. hist'[seq + 1] = pl BY <3>3 DEF SyncInv, PrimaryOK
      <3>5. e \in Events BY <1>0, <2>9, SyncBoundsAssumption DEF LeaseWrite, Events, Types, SyncTypeOK
      <3>6. ASSUME NEW i \in 1..Len(queue'), queue'[i] = e PROVE EventOK(queue[i])'
        <4>1. e.seq = seq + 1 /\ e.ip = ip /\ e.val = val OBVIOUS
        <4>2. pl'[ip] = val /\ \A a \in IPs \ {ip} : pl'[a] = pl[a] BY <1>0, <3>1 DEF Maps
        <4>3. e.seq \in 1..seq' /\ hist'[e.seq + 1] = pl' /\ hist'[e.seq] = pl BY <1>0, <3>1, <3>3, <3>4, <4>1
        <4> HIDE DEF e
        <4>4. queue'[i].seq \in 1..seq' /\ hist'[queue'[i].seq + 1][queue'[i].ip] = queue'[i].val
          BY <3>6, <4>1, <4>2, <4>3
        <4>5. \A a \in IPs \ {queue'[i].ip} : hist'[queue'[i].seq + 1][a] = hist'[queue'[i].seq][a]
          BY <3>6, <4>1, <4>2, <4>3
        <4> QED BY <4>4, <4>5 DEF EventOK
      <3>7. \A i \in 1..Len(queue') : EventOK(queue[i])'
        <4> SUFFICES ASSUME NEW i \in 1..Len(queue') PROVE EventOK(queue[i])' OBVIOUS
        <4>1. queue'[i] = e \/ (i \in 1..Len(queue) /\ queue'[i] = queue[i])
          BY <1>0, <3>1, <3>5, DeliverFacts
        <4> QED BY <2>2, <3>6, <4>1
      <3> QED BY <2>4, <3>1, <3>3, <3>7 DEF PrimaryOK
    <2> QED BY <2>7, <2>8, <2>9, <1>1
        DEF SyncNext, Work, syncVars, LoopTake, PushList, PushSend, LoopTimeout, HandleClassify, HandleApply,
          HandleMark, SnapshotUpsert, SnapshotPrune, SnapshotMark, ReqSend, ReqList, ReqReply, ReqFails,
          SecondaryLosesPeer, PrimaryLosesPeer, PeersMeet, SecondaryRestarts
  <1> QED BY <1>0, <1>1, <1>2, GrowSteps

LEMMA FromWeakens ==
    ASSUME Types, NEW m \in Nat, NEW n \in Nat, m <= n, From(n) PROVE From(m)
  <1>1. seq \in Nat BY SyncBoundsAssumption DEF Types, SyncTypeOK
  <1>2. \A j \in n..seq : j \in m..seq BY <1>1
  <1> QED BY <1>2 DEF From

\* Transactions of the primary disturb no handler of the secondary.
LEMMA HandlerGrows ==
    ASSUME Types, Grows, NEW h \in Handlers, HandlerOK(h), UNCHANGED <<sl, applied, done>>
    PROVE  HandlerOK(h)'
  <1>0. seq \in Nat /\ MaxSeq \in Nat BY SyncBoundsAssumption DEF Types, SyncTypeOK
  <1>1. CASE h.kind = "increment"
    <2>1. h \in Increments /\ h.seq \in Nat BY <1>1, HandlerFacts, SyncBoundsAssumption DEF Increments
    <2>2. EventOK(h)' BY <1>1, <2>1, GrowFacts DEF HandlerOK
    <2>3. From(h.seq) => From(h.seq)' BY <2>1, GrowFacts
    <2> QED BY <1>1, <2>2, <2>3 DEF HandlerOK
  <1>2. CASE h.kind # "increment"
    <2>1. h.asof \in 0..seq BY <1>0, <1>2, HandlerFacts DEF HandlerOK, Snapshots
    <2>2. h.asof <= seq' /\ hist'[h.asof + 1] = hist[h.asof + 1] BY <1>0, <2>1 DEF Grows
    <2> QED BY <1>2, <2>2 DEF HandlerOK
  <1> QED BY <1>1, <1>2

\* The secondary and its handlers do nothing.
LEMMA StillKeeps ==
    ASSUME SyncInv, Grows, UNCHANGED <<sl, applied, done, work, mixed>> PROVE SecondaryOK'
  <1> SUFFICES ASSUME mixed = FALSE
               PROVE  /\ \A g, h \in work : g = h
                      /\ \A h \in work : HandlerOK(h)'
                      /\ done = TRUE => From(applied)'
    BY DEF SecondaryOK
  <1>0. Types /\ work \subseteq Handlers /\ applied \in Nat
    BY SyncBoundsAssumption DEF SyncInv, Types, SyncTypeOK
  <1>1. /\ \A g, h \in work : g = h
        /\ \A h \in work : HandlerOK(h)
        /\ done = TRUE => From(applied)
    BY DEF SyncInv, SecondaryOK
  <1>2. \A h \in work : HandlerOK(h)' BY <1>0, <1>1, HandlerGrows
  <1>3. From(applied) => From(applied)'
    <2>1. ASSUME NEW n \in Nat, n = applied, From(n) PROVE From(applied)'
      <3>1. From(n)' BY <1>0, <2>1, GrowFacts
      <3> QED BY <2>1, <3>1
    <2> QED BY <1>0, <2>1
  <1> QED BY <1>1, <1>2, <1>3

\* A message arrives at a secondary that handles no other.
LEMMA ArriveKeeps ==
    ASSUME SyncInv, NEW g, work' = work \cup {g}, UNCHANGED <<sl, applied, done, seq, hist>>,
           mixed' = FALSE => mixed = FALSE /\ work = {} /\ HandlerOK(g)
    PROVE  SecondaryOK'
  <1> SUFFICES ASSUME mixed' = FALSE
               PROVE  /\ \A f, h \in work' : f = h
                      /\ \A h \in work' : HandlerOK(h)'
                      /\ done = TRUE => From(applied)'
    BY DEF SecondaryOK
  <1>1. work' = {g} /\ HandlerOK(g) /\ mixed = FALSE OBVIOUS
  <1>2. HandlerOK(g)' BY <1>1 DEF HandlerOK, EventOK, From
  <1>3. done = TRUE => From(applied)' BY <1>1 DEF SyncInv, SecondaryOK, From
  <1> QED BY <1>1, <1>2, <1>3

LEMMA SecondaryByPrimary ==
    ASSUME SyncInv, Grows,
           \/ \E ip \in IPs, val \in Vals \cup {Absent} : LeaseWrite(ip, val)
           \/ OtherTx \/ LoopTake \/ PushList \/ PushSend \/ LoopTimeout
           \/ ReqSend \/ ReqList \/ ReqReply \/ ReqFails
           \/ PrimaryLosesPeer \/ PeersMeet \/ UNCHANGED syncVars
    PROVE  SecondaryOK'
  <1> USE DEF pVars, sVars
  <1>0. /\ Types /\ seq \in Nat /\ work \subseteq Handlers /\ mixed \in BOOLEAN /\ syncSeq \in Nat
        /\ loop \in Steps \cup Listing /\ req \in Requests \cup Listing
    BY SyncBoundsAssumption DEF SyncInv, Types, SyncTypeOK, Steps, Requests
  <1>1. CASE UNCHANGED <<sl, applied, done, work, mixed>> BY <1>1, StillKeeps
  <1>2. ASSUME NEW kind \in {"push", "requested"}, NEW x \in Listing, ListedOK(x),
               work' = work \cup {Snapshot(kind, x)}, UNCHANGED <<sl, applied, done, seq, hist>>,
               mixed' = (mixed \/ work # {} \/ syncSeq > x.asof)
        PROVE  SecondaryOK'
    <2> DEFINE g == Snapshot(kind, x)
    <2>1. g.kind = kind /\ g.step = "upsert" /\ g.seq = syncSeq /\ g.map = x.map /\ g.asof = x.asof
      BY DEF Snapshot
    <2>2. x.step = "listed" /\ x.asof \in Nat BY <1>2, SyncBoundsAssumption DEF Listing
    <2>3. mixed' = FALSE => mixed = FALSE /\ work = {} /\ ~(syncSeq > x.asof) BY <1>0, <1>2, Zenon
    <2>4. ~(syncSeq > x.asof) => HandlerOK(g)
      <3> HIDE DEF g
      <3> QED BY <1>0, <1>2, <2>1, <2>2 DEF HandlerOK, ListedOK
    <2> QED BY <1>2, <2>3, <2>4, ArriveKeeps
  <1>3. CASE PushSend
    <2>1. loop \in Listing /\ ListedOK(loop) BY <1>0, <1>3 DEF PushSend, Steps, SyncInv, PrimaryOK
    <2> QED BY <1>1, <1>2, <1>3, <2>1 DEF PushSend
  <1>4. CASE ReqReply
    <2>1. req \in Listing /\ ListedOK(req) BY <1>0, <1>4 DEF ReqReply, Requests, SyncInv, PrimaryOK
    <2> QED BY <1>2, <1>4, <2>1 DEF ReqReply
  <1>5. CASE LoopTake
    <2>1. UNCHANGED <<sl, applied, done, seq, hist>> BY <1>5 DEF LoopTake
    <2>2. CASE UNCHANGED <<work, mixed>> BY <1>1, <2>1, <2>2
    <2>3. CASE work' = work \cup {Increment(Head(queue))} /\ mixed' = (mixed \/ work # {})
      <3> DEFINE g == Increment(Head(queue))
      <3>1. /\ g.kind = "increment" /\ g.step = "classify" /\ g.seq = Head(queue).seq
            /\ g.ip = Head(queue).ip /\ g.val = Head(queue).val
        BY DEF Increment
      <3>2. queue \in Seq(Events) /\ queue # <<>> BY <1>0, <1>5 DEF LoopTake, Types, SyncTypeOK
      <3>3. Head(queue) = queue[1] /\ 1 \in 1..Len(queue) BY <3>2, EmptySeq
      <3>4. EventOK(Head(queue)) BY <3>3 DEF SyncInv, PrimaryOK
      <3>5. HandlerOK(g)
        <4> HIDE DEF g
        <4> QED BY <3>1, <3>4 DEF HandlerOK, EventOK
      <3>6. mixed' = FALSE => mixed = FALSE /\ work = {} BY <1>0, <2>3, Zenon
      <3> QED BY <2>1, <2>3, <3>5, <3>6, ArriveKeeps
    <2> QED BY <1>5, <2>2, <2>3 DEF LoopTake
  <1>6. CASE LoopTimeout
    <2>1. /\ UNCHANGED <<sl, applied, done, seq, hist, mixed>>
          /\ work' = {IF h.kind = "requested" THEN h ELSE Deaf(h) : h \in work}
      BY <1>6 DEF LoopTimeout
    <2> SUFFICES ASSUME mixed = FALSE
                 PROVE  /\ \A g, h \in work' : g = h
                        /\ \A h \in work' : HandlerOK(h)'
                        /\ done = TRUE => From(applied)'
      BY <2>1 DEF SecondaryOK
    <2>2. /\ \A g, h \in work : g = h
          /\ \A h \in work : HandlerOK(h)
          /\ done = TRUE => From(applied)
      BY DEF SyncInv, SecondaryOK
    <2>3. \A g, h \in work' : g = h BY <2>1, <2>2
    <2>4. ASSUME NEW h \in work PROVE HandlerOK(h)' /\ HandlerOK(Deaf(h))'
      <3>1. HandlerOK(h)' BY <2>1, <2>2 DEF HandlerOK, EventOK, From
      <3>2. h \in Handlers BY <1>0
      <3> QED BY <3>1, <3>2, DeafFacts DEF HandlerOK, EventOK
    <2>5. done = TRUE => From(applied)' BY <2>1, <2>2 DEF From
    <2> QED BY <2>1, <2>3, <2>4, <2>5
  <1> QED BY <1>1, <1>3, <1>4, <1>5, <1>6
      DEF LeaseWrite, OtherTx, PushList, ReqSend, ReqList, ReqFails, PrimaryLosesPeer, PeersMeet, syncVars

\* The only handler of the secondary goes on to its next step, or ends.
LEMMA OnlyHandler ==
    ASSUME SyncInv, mixed = FALSE, NEW h \in work
    PROVE  work = {h} /\ h \in Handlers /\ HandlerOK(h) /\ (done = TRUE => From(applied))
  BY DEF SyncInv, SecondaryOK, Types, SyncTypeOK

LEMMA SecondaryByIncrement ==
    ASSUME SyncInv, NEW h \in work, HandleClassify(h) \/ HandleApply(h) \/ HandleMark(h)
    PROVE  SecondaryOK'
  <1>0. /\ Types /\ seq \in Nat /\ applied \in Nat /\ sl \in Maps /\ mixed \in BOOLEAN /\ done \in BOOLEAN
    BY SyncBoundsAssumption DEF SyncInv, Types, SyncTypeOK
  <1>1. UNCHANGED <<seq, hist, mixed>> BY DEF HandleClassify, HandleApply, HandleMark
  <1> SUFFICES ASSUME mixed = FALSE
               PROVE  /\ \A g, f \in work' : g = f
                      /\ \A g \in work' : HandlerOK(g)'
                      /\ done' = TRUE => From(applied)'
    BY <1>1 DEF SecondaryOK
  <1>2. work = {h} /\ h \in Handlers /\ HandlerOK(h) /\ (done = TRUE => From(applied)) BY OnlyHandler
  <1>3. h.kind = "increment" /\ h \in Increments /\ h.seq \in Nat /\ h.ip \in IPs
    BY <1>2, HandlerFacts, SyncBoundsAssumption DEF HandleClassify, HandleApply, HandleMark, Increments
  <1>4. EventOK(h) /\ h.seq \in 1..seq BY <1>2, <1>3 DEF HandlerOK, EventOK
  <1>5. ASSUME NEW answer, Answer(h, answer) PROVE work' = {} BY <1>2, <1>5 DEF Answer
  <1>6. CASE HandleClassify(h)
    <2>1. sl' = sl BY <1>6 DEF HandleClassify
    <2>2. CASE ClassifyIncremental(h.seq) = "resync"
      <3>1. work' = {} /\ done' = FALSE BY <1>5, <1>6, <2>2 DEF HandleClassify
      <3> QED BY <3>1
    <2>3. CASE ClassifyIncremental(h.seq) = "ack"
      <3>1. work' = {} /\ UNCHANGED <<done, applied>> BY <1>5, <1>6, <2>3 DEF HandleClassify
      <3> QED BY <1>1, <1>2, <2>1, <3>1 DEF From
    <2>4. CASE ClassifyIncremental(h.seq) = "apply"
      <3> DEFINE g == [h EXCEPT !.step = "apply"]
      <3>1. work' = {g} /\ UNCHANGED <<done, applied>> BY <1>2, <1>6, <2>4 DEF HandleClassify
      <3>2. g.kind = "increment" /\ g.step = "apply" /\ g.seq = h.seq /\ g.ip = h.ip /\ g.val = h.val
        BY <1>2, <1>3, NextStepFacts
      <3>3. applied = h.seq - 1 BY <1>0, <1>3, <2>4 DEF ClassifyIncremental
      <3>4. HandlerOK(g)'
        <4> HIDE DEF g
        <4> QED BY <1>1, <1>4, <3>1, <3>2, <3>3 DEF HandlerOK, EventOK
      <3>5. done' = TRUE => From(applied)' BY <1>1, <1>2, <2>1, <3>1 DEF From
      <3> QED BY <3>1, <3>4, <3>5
    <2> QED BY <1>6, <2>2, <2>3, <2>4 DEF HandleClassify
  <1>7. CASE HandleApply(h)
    <2>1. UNCHANGED <<done, applied>> BY <1>7 DEF HandleApply
    <2>2. CASE UNCHANGED sl /\ work' = {} BY <1>1, <1>2, <2>1, <2>2 DEF From
    <2>3. CASE /\ sl' = [sl EXCEPT ![h.ip] = h.val]
               /\ work' = (work \ {h}) \cup {[h EXCEPT !.step = "mark"]}
      <3> DEFINE g == [h EXCEPT !.step = "mark"]
      <3>1. work' = {g} BY <1>2, <2>3
      <3>2. g.kind = "increment" /\ g.step = "mark" /\ g.seq = h.seq /\ g.ip = h.ip /\ g.val = h.val
        BY <1>2, <1>3, NextStepFacts
      <3>3. done = TRUE => applied = h.seq - 1 BY <1>2, <1>3, <1>7 DEF HandlerOK, HandleApply
      <3>4. done = TRUE => From(h.seq)'
        <4> SUFFICES ASSUME done = TRUE, NEW ip \in IPs
                     PROVE  \E j \in h.seq..seq : sl'[ip] = hist[j + 1][ip]
          BY <1>1 DEF From
        <4>1. CASE ip = h.ip
          <5>1. sl'[ip] = h.val BY <1>0, <2>3, <4>1 DEF Maps
          <5>2. h.seq \in h.seq..seq BY <1>0, <1>4
          <5> QED BY <1>4, <4>1, <5>1, <5>2 DEF EventOK
        <4>2. CASE ip # h.ip
          <5>1. sl'[ip] = sl[ip] BY <1>0, <2>3, <4>2 DEF Maps
          <5>2. PICK j \in (h.seq - 1)..seq : sl[ip] = hist[j + 1][ip] BY <1>2, <3>3 DEF From
          <5>3. CASE j = h.seq - 1
            <6>1. hist[j + 1][ip] = hist[h.seq + 1][ip] BY <1>3, <1>4, <4>2, <5>3 DEF EventOK
            <6>2. h.seq \in h.seq..seq BY <1>0, <1>4
            <6> QED BY <5>1, <5>2, <6>1, <6>2
          <5>4. CASE j # h.seq - 1
            <6>1. j \in h.seq..seq BY <1>0, <1>3, <5>4
            <6> QED BY <5>1, <5>2, <6>1
          <5> QED BY <5>3, <5>4
        <4> QED BY <4>1, <4>2
      <3>5. HandlerOK(g)'
        <4> HIDE DEF g
        <4> QED BY <1>1, <1>4, <2>1, <3>2, <3>3, <3>4 DEF HandlerOK, EventOK
      <3>6. done' = TRUE => From(applied)'
        <4> SUFFICES ASSUME done = TRUE PROVE From(applied)' BY <2>1
        <4>1. \A j \in h.seq..seq : j \in applied..seq BY <1>0, <1>3, <3>3
        <4> QED BY <1>1, <2>1, <3>4, <4>1 DEF From
      <3> QED BY <3>1, <3>5, <3>6
    <2> QED BY <1>5, <1>7, <2>2, <2>3 DEF HandleApply
  <1>8. CASE HandleMark(h)
    <2>1. work' = {} /\ UNCHANGED <<sl, done>> BY <1>5, <1>8 DEF HandleMark
    <2>2. done = TRUE => applied = h.seq - 1 /\ From(h.seq) BY <1>2, <1>3, <1>8 DEF HandlerOK, HandleMark
    <2>3. done = TRUE => applied' = h.seq
      BY <1>0, <1>3, <1>8, <2>2 DEF HandleMark, SetAppliedSequence, MaxOf
    <2> QED BY <1>1, <2>1, <2>2, <2>3 DEF From
  <1> QED BY <1>6, <1>7, <1>8

LEMMA SecondaryBySnapshot ==
    ASSUME SyncInv, NEW h \in work, SnapshotUpsert(h) \/ SnapshotPrune(h) \/ SnapshotMark(h)
    PROVE  SecondaryOK'
  <1>0. /\ Types /\ seq \in Nat /\ applied \in Nat /\ sl \in Maps /\ mixed \in BOOLEAN /\ h \in Handlers
    BY SyncBoundsAssumption DEF SyncInv, Types, SyncTypeOK
  <1>1. UNCHANGED <<seq, hist>> BY DEF SnapshotUpsert, SnapshotPrune, SnapshotMark, pVars
  <1>2. h.kind # "increment" /\ h \in Snapshots /\ h.asof \in Nat /\ h.seq \in Nat /\ h.map \in Maps
    BY <1>0, HandlerFacts, SyncBoundsAssumption
       DEF SnapshotUpsert, SnapshotPrune, SnapshotMark, Snapshots
  <1>3. mixed' = FALSE => mixed = FALSE
    BY <1>0, Zenon DEF SnapshotUpsert, SnapshotPrune, SnapshotMark
  <1> SUFFICES ASSUME mixed' = FALSE
               PROVE  /\ \A g, f \in work' : g = f
                      /\ \A g \in work' : HandlerOK(g)'
                      /\ done' = TRUE => From(applied)'
    BY DEF SecondaryOK
  <1>4. work = {h} /\ HandlerOK(h) /\ (done = TRUE => From(applied)) BY <1>3, OnlyHandler
  <1>5. h.asof <= seq /\ h.map = hist[h.asof + 1] /\ h.seq <= h.asof BY <1>2, <1>4 DEF HandlerOK
  <1>6. ASSUME NEW answer, Answer(h, answer) PROVE work' = {} BY <1>4, <1>6 DEF Answer
  <1>7. ASSUME applied <= h.asof, UNCHANGED <<applied, done>>,
               \A ip \in IPs : sl'[ip] = sl[ip] \/ sl'[ip] = h.map[ip]
        PROVE  done' = TRUE => From(applied)'
    <2> SUFFICES ASSUME done = TRUE, NEW ip \in IPs
                 PROVE  \E j \in applied..seq : sl'[ip] = hist[j + 1][ip]
      BY <1>1, <1>7 DEF From
    <2>1. CASE sl'[ip] = sl[ip] BY <1>4, <2>1 DEF From
    <2>2. CASE sl'[ip] = h.map[ip]
      <3>1. h.asof \in applied..seq BY <1>0, <1>2, <1>5, <1>7
      <3> QED BY <1>5, <2>2, <3>1
    <2> QED BY <1>7, <2>1, <2>2
  <1>8. CASE SnapshotUpsert(h)
    <2>1. UNCHANGED <<applied, done>> BY <1>8 DEF SnapshotUpsert
    <2>2. applied <= h.asof
      <3>1. ~(applied > h.asof) BY <1>8, Zenon DEF SnapshotUpsert
      <3> QED BY <1>0, <1>2, <3>1
    <2>3. \A ip \in IPs : sl'[ip] = sl[ip] \/ sl'[ip] = h.map[ip] BY <1>8 DEF SnapshotUpsert
    <2>4. CASE work' = {} BY <1>7, <2>1, <2>2, <2>3, <2>4
    <2>5. CASE /\ sl' = [ip \in IPs |-> IF h.map[ip] # Absent THEN h.map[ip] ELSE sl[ip]]
               /\ work' = (work \ {h}) \cup {[h EXCEPT !.step = "prune"]}
      <3> DEFINE g == [h EXCEPT !.step = "prune"]
      <3>1. work' = {g} BY <1>4, <2>5
      <3>2. g.kind = h.kind /\ g.step = "prune" /\ g.seq = h.seq /\ g.map = h.map /\ g.asof = h.asof
        BY <1>0, <1>2, NextStepFacts
      <3>3. \A ip \in IPs : h.map[ip] # Absent => sl'[ip] = h.map[ip] BY <2>5
      <3>4. HandlerOK(g)'
        <4> HIDE DEF g
        <4> QED BY <1>1, <1>2, <1>5, <2>1, <2>2, <3>2, <3>3 DEF HandlerOK
      <3> QED BY <1>7, <2>1, <2>2, <2>3, <3>1, <3>4
    <2> QED BY <1>6, <1>8, <2>4, <2>5 DEF SnapshotUpsert
  <1>9. CASE SnapshotPrune(h)
    <2> DEFINE g == [h EXCEPT !.step = "mark"]
    <2>1. UNCHANGED <<applied, done>> BY <1>9 DEF SnapshotPrune
    <2>2. applied <= h.asof /\ \A ip \in IPs : h.map[ip] # Absent => sl[ip] = h.map[ip]
      BY <1>2, <1>4, <1>9 DEF HandlerOK, SnapshotPrune
    <2>3. \A ip \in IPs : sl'[ip] = sl[ip] \/ sl'[ip] = h.map[ip] BY <1>9 DEF SnapshotPrune
    <2>4. CASE work' = {} BY <1>7, <2>1, <2>2, <2>3, <2>4
    <2>5. CASE /\ sl' = [ip \in IPs |-> IF h.map[ip] = Absent THEN Absent ELSE sl[ip]]
               /\ work' = (work \ {h}) \cup {g}
      <3>1. work' = {g} BY <1>4, <2>5
      <3>2. g.kind = h.kind /\ g.step = "mark" /\ g.seq = h.seq /\ g.map = h.map /\ g.asof = h.asof
        BY <1>0, <1>2, NextStepFacts
      <3>3. \A ip \in IPs : sl'[ip] = h.map[ip] BY <2>2, <2>5
      <3>4. sl' = h.map BY <1>2, <2>5, <3>3 DEF Maps
      <3>5. HandlerOK(g)'
        <4> HIDE DEF g
        <4> QED BY <1>1, <1>2, <1>5, <2>1, <2>2, <3>2, <3>4 DEF HandlerOK
      <3> QED BY <1>7, <2>1, <2>2, <2>3, <3>1, <3>5
    <2> QED BY <1>6, <1>9, <2>4, <2>5 DEF SnapshotPrune
  <1>10. CASE SnapshotMark(h)
    <2>1. sl = h.map /\ applied <= h.asof /\ sl' = sl /\ work' = {}
      BY <1>2, <1>4, <1>6, <1>10 DEF HandlerOK, SnapshotMark
    <2>2. applied' \in Nat /\ applied' <= h.asof
      BY <1>0, <1>2, <1>5, <1>10, <2>1 DEF SnapshotMark, SetAppliedSequence, MaxOf
    <2>3. h.asof \in applied'..seq BY <1>0, <1>2, <1>5, <2>2
    <2>4. From(applied)' BY <1>1, <1>5, <2>1, <2>3 DEF From
    <2> QED BY <2>1, <2>4
  <1> QED BY <1>8, <1>9, <1>10

LEMMA SecondaryByFault ==
    ASSUME SyncInv, SecondaryLosesPeer \/ PrimaryRestarts \/ SecondaryRestarts PROVE SecondaryOK'
  <1> USE DEF pVars, sVars
  <1>0. /\ Types /\ mixed \in BOOLEAN /\ done \in BOOLEAN /\ work \subseteq Handlers /\ applied \in Nat
    BY SyncBoundsAssumption DEF SyncInv, Types, SyncTypeOK
  <1>1. CASE SecondaryRestarts
    <2>1. work' = {} /\ done' = FALSE BY <1>1 DEF SecondaryRestarts
    <2> QED BY <2>1 DEF SecondaryOK
  <1>2. CASE PrimaryRestarts
    <2>1. mixed' = FALSE => done = FALSE /\ work = {}
      BY <1>0, <1>2, Zenon DEF PrimaryRestarts
    <2>2. work = {} => work' = {} BY <1>2 DEF PrimaryRestarts
    <2>3. done' = done BY <1>2 DEF PrimaryRestarts
    <2> QED BY <2>1, <2>2, <2>3 DEF SecondaryOK
  <1>3. CASE SecondaryLosesPeer
    <2>1. UNCHANGED <<seq, hist, sl, work>> /\ applied' = 0 /\ done' = FALSE
      BY <1>3 DEF SecondaryLosesPeer
    <2>2. mixed' = FALSE => mixed = FALSE \/ work = {} BY <1>0, <1>3, Zenon DEF SecondaryLosesPeer
    <2>3. CASE work = {} BY <2>1, <2>3 DEF SecondaryOK
    <2>4. CASE mixed = FALSE
      <3>1. /\ \A g, h \in work : g = h
            /\ \A h \in work : HandlerOK(h)
        BY <2>4 DEF SyncInv, SecondaryOK
      <3>2. ASSUME NEW h \in work PROVE HandlerOK(h)'
        <4>1. h.kind # "increment" => h.asof \in Nat
          BY <1>0, HandlerFacts, SyncBoundsAssumption DEF Snapshots
        <4>2. h.kind # "increment" => 0 <= h.asof BY <4>1
        <4> QED BY <2>1, <3>1, <4>2 DEF HandlerOK, EventOK
      <3> QED BY <2>1, <3>1, <3>2 DEF SecondaryOK
    <2>5. CASE mixed' = TRUE BY <2>5 DEF SecondaryOK
    <2>6. mixed' \in BOOLEAN BY <1>3, Zenon DEF SecondaryLosesPeer
    <2> QED BY <2>2, <2>3, <2>4, <2>5, <2>6
  <1> QED BY <1>1, <1>2, <1>3

LEMMA SyncInvInit == SyncInit => SyncInv
  <1> SUFFICES ASSUME SyncInit PROVE SyncInv OBVIOUS
  <1>1. hist[seq + 1] = pl /\ Len(queue) = 0 /\ loop.step = "idle" /\ req.step = "idle"
    BY DEF SyncInit, Idle
  <1>2. PrimaryOK BY <1>1 DEF PrimaryOK, ListedOK
  <1>3. SecondaryOK BY DEF SyncInit, SecondaryOK
  <1> QED BY <1>2, <1>3, TypesInit DEF SyncInv

LEMMA SyncInvStep == SyncInv /\ [SyncNext]_syncVars => SyncInv'
  <1> SUFFICES ASSUME SyncInv, [SyncNext]_syncVars PROVE SyncInv' OBVIOUS
  <1>1. Types /\ Types' BY TypesStep DEF SyncInv
  <1>2. PrimaryOK' BY <1>1, PrimaryStep
  <1>3. SecondaryOK'
    <2>1. CASE PrimaryRestarts BY <2>1, SecondaryByFault
    <2>2. CASE Grows
      BY <2>1, <2>2, SecondaryByPrimary, SecondaryByIncrement, SecondaryBySnapshot, SecondaryByFault
         DEF SyncNext, Work
    <2> QED BY <1>1, <2>1, <2>2, GrowSteps
  <1> QED BY <1>1, <1>2, <1>3 DEF SyncInv

\* A secondary that has a snapshot and has applied transaction n shows for every
\* address the primary's lease as of transaction n or a later one, whatever events
\* were lost, resent or cut short, as long as no messages overlapped.
THEOREM ReplicaIsCurrent == SyncSpec => []ReplicaCurrent
  <1>1. SyncInv => ReplicaCurrent
    <2> SUFFICES ASSUME SyncInv, done, ~mixed PROVE \A ip \in IPs : \E j \in applied..seq : sl[ip] = hist[j + 1][ip]
      BY DEF ReplicaCurrent
    <2>1. done = TRUE /\ mixed = FALSE BY DEF SyncInv, Types, SyncTypeOK
    <2> QED BY <2>1 DEF SyncInv, SecondaryOK, From
  <1> QED BY <1>1, SyncInvInit, SyncInvStep, PTL DEF SyncSpec
=============================================================================

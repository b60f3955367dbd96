------------------------------- MODULE HASync -------------------------------
(***************************************************************************)
(* Lease synchronisation of the high-availability pair in active-passive   *)
(* mode (internal/ha/sync.go, the synchronisation half of failover.go and  *)
(* the mutation stream of internal/lease/store.go), for a period in which  *)
(* the roles do not change.                                                *)
(*                                                                         *)
(* The primary numbers its transactions (engine sequence), its             *)
(* leaseSyncLoop sends the lease mutations one by one and waits for each   *)
(* answer; the secondary asks for a snapshot from its heartbeat loop until *)
(* it has one.  Every message the secondary handles runs in a goroutine of *)
(* its own: work is the set of these.  The two channels between engine and *)
(* leaseSyncLoop are one queue here.                                       *)
(***************************************************************************)
EXTENDS Integers, Sequences, FiniteSets

CONSTANTS
    IPs,            \* leased addresses
    Vals,           \* lease records
    Absent,         \* no record
    QueueCap,       \* capacity of the mutation channel (32 in the code)
    MaxSeq,         \* bound: transactions of one process lifetime of the primary
    MaxFaults       \* bound: restarts, lost connections, timeouts, failed writes

ASSUME AbsentAssumption == Absent \notin Vals
ASSUME SyncBoundsAssumption == QueueCap \in Nat \ {0} /\ MaxSeq \in Nat /\ MaxFaults \in Nat

Maps == [IPs -> Vals \cup {Absent}]

VARIABLES
    pl,         \* the primary's leases
    seq,        \* its engine sequence
    queue,      \* mutation events on their way to leaseSyncLoop
    syncSeq,    \* its m.syncSequence
    loop,       \* where its leaseSyncLoop stands
    pconn,      \* it regards the peer as connected
    sl,         \* the secondary's leases
    applied,    \* its m.appliedSequence
    done,       \* its m.snapshotDone
    sconn,      \* it regards the peer as connected
    req,        \* the snapshot request of its heartbeat loop
    work,       \* the messages it handles
    faults,     \* environment: faults so far
    hist,       \* history: hist[j + 1] is the primary's lease map after transaction j
    mixed       \* history: messages overlapped, or numbers and leases of two times met

pVars == <<pl, seq, queue, syncSeq, loop, pconn>>
sVars == <<sl, applied, done, sconn, req, work>>
syncVars == <<pVars, sVars, faults, hist, mixed>>

Idle == [step |-> "idle"]
NoSnapshot == [ip \in IPs |-> Absent]

\* A message in a handler of the secondary.  live: the sender still waits for
\* the answer.  asof (history): the transaction after which a snapshot was listed.
Increment(e) == [kind |-> "increment", step |-> "classify", seq |-> e.seq, ip |-> e.ip, val |-> e.val, live |-> TRUE]
Snapshot(kind, s) ==
    [kind |-> kind, step |-> "upsert", seq |-> syncSeq, map |-> s.map, asof |-> s.asof,
     live |-> TRUE]

Events == [seq : 1..MaxSeq, ip : IPs, val : Vals \cup {Absent}]
Listing == [step : {"listed"}, map : Maps, asof : 0..MaxSeq]
Handlers ==
    [kind : {"increment"}, step : {"classify", "apply", "mark"}, seq : 1..MaxSeq, ip : IPs,
     val : Vals \cup {Absent}, live : BOOLEAN]
    \cup [kind : {"push", "requested"}, step : {"upsert", "prune", "mark"}, seq : 0..MaxSeq,
          map : Maps, asof : 0..MaxSeq, live : BOOLEAN]

SyncTypeOK ==
    /\ pl \in Maps /\ sl \in Maps
    /\ seq \in 0..MaxSeq /\ syncSeq \in 0..seq /\ applied \in 0..MaxSeq
    /\ queue \in Seq(Events) /\ Len(queue) <= QueueCap
    /\ loop \in [step : {"idle", "wait", "list"}] \cup Listing
    /\ req \in [step : {"idle", "asked", "applying"}] \cup Listing
    /\ pconn \in BOOLEAN /\ sconn \in BOOLEAN /\ done \in BOOLEAN /\ mixed \in BOOLEAN
    /\ work \subseteq Handlers
    /\ faults \in 0..MaxFaults
    /\ hist \in Seq(Maps) /\ Len(hist) = seq + 1

\* A pair that has just found each other; the secondary's leases are from an
\* earlier time.
SyncInit ==
    /\ pl \in Maps /\ sl \in Maps
    /\ seq = 0 /\ queue = <<>> /\ syncSeq = 0 /\ loop = Idle /\ pconn = TRUE
    /\ applied = 0 /\ done = FALSE /\ sconn = TRUE /\ req = Idle /\ work = {}
    /\ faults = 0 /\ hist = <<pl>> /\ mixed = FALSE

Fault == faults < MaxFaults /\ faults' = faults + 1

MaxOf(a, b) == IF a > b THEN a ELSE b

(***************************************************************************)
(* The primary: transactions and leaseSyncLoop.                            *)
(***************************************************************************)

\* Mutant: an event is also put into a channel that is already full.
Deliver_Overfull(e) == IF Len(queue) <= QueueCap THEN Append(queue, e) ELSE queue

\* Engine.notify and consumeTxEvents put without blocking: a full channel loses
\* the event.
Deliver(e) == IF Len(queue) < QueueCap THEN Append(queue, e) ELSE queue

\* Engine.tx with notify; extractLeaseMutation finds the lease mutation.
LeaseWrite(ip, val) ==
    /\ seq < MaxSeq
    /\ pl[ip] # val
    /\ pl' = [pl EXCEPT ![ip] = val]
    /\ seq' = seq + 1
    /\ queue' = Deliver([seq |-> seq + 1, ip |-> ip, val |-> val])
    /\ hist' = Append(hist, pl')
    /\ UNCHANGED <<syncSeq, loop, pconn, sVars, faults, mixed>>

\* A transaction without a lease mutation (sessions, audit entries, subnets):
\* it takes a number and consumeTxEvents drops it.
OtherTx ==
    /\ seq < MaxSeq
    /\ seq' = seq + 1
    /\ hist' = Append(hist, pl)
    /\ UNCHANGED <<pl, queue, syncSeq, loop, pconn, sVars, faults, mixed>>

\* The loop takes an event: shouldReplicateLocalChanges, observeSyncSequence,
\* sendSync.
LoopTake ==
    /\ loop = Idle
    /\ queue # <<>>
    /\ queue' = Tail(queue)
    /\ IF ~pconn
       THEN UNCHANGED <<syncSeq, loop, work, faults, mixed>>
       ELSE /\ syncSeq' = MaxOf(syncSeq, Head(queue).seq)
            /\ \/ /\ loop' = [step |-> "wait"]
                  /\ work' = work \cup {Increment(Head(queue))}
                  /\ mixed' = (mixed \/ work # {})
                  /\ UNCHANGED faults
               \/ /\ Fault    \* the connection cannot be made
                  /\ UNCHANGED <<loop, work, mixed>>
    /\ UNCHANGED <<pl, seq, pconn, sl, applied, done, sconn, req, hist>>

\* pushSnapshot, after a resync_required answer: ListAll, then the number.
PushList ==
    /\ loop = [step |-> "list"]
    /\ loop' = [step |-> "listed", map |-> pl, asof |-> seq]
    /\ UNCHANGED <<pl, seq, queue, syncSeq, pconn, sVars, faults, hist, mixed>>

PushSend ==
    /\ loop.step = "listed"
    /\ \/ /\ work' = work \cup {Snapshot("push", loop)}
          /\ loop' = [step |-> "wait"]
          /\ mixed' = (mixed \/ work # {} \/ syncSeq > loop.asof)
          /\ UNCHANGED faults
       \/ Fault /\ loop' = Idle /\ UNCHANGED <<work, mixed>>
    /\ UNCHANGED <<pl, seq, queue, syncSeq, pconn, sl, applied, done, sconn, req, hist>>

\* The read deadline of readSyncMessage passes while the peer still works.
Deaf(h) == [h EXCEPT !.live = FALSE]

LoopTimeout ==
    /\ loop = [step |-> "wait"]
    /\ Fault
    /\ loop' = Idle
    /\ work' = {IF h.kind = "requested" THEN h ELSE Deaf(h) : h \in work}
    /\ UNCHANGED <<pl, seq, queue, syncSeq, pconn, sl, applied, done, sconn, req, hist, mixed>>

(***************************************************************************)
(* The secondary: handleConn and the snapshot request.                     *)
(***************************************************************************)

\* Mutant: a gap in the numbers is not noticed.
ClassifyIncremental_NoGap(n) == IF n <= applied THEN "ack" ELSE "apply"

\* classifyIncrementalSequence.
ClassifyIncremental(n) ==
    IF applied = 0 THEN IF n = 1 THEN "apply" ELSE "resync"
    ELSE IF n <= applied THEN "ack"
    ELSE IF n = applied + 1 THEN "apply"
    ELSE "resync"

\* The handler of h has answered answer.
Answer(h, answer) ==
    /\ work' = work \ {h}
    /\ loop' = IF ~h.live \/ h.kind = "requested" THEN loop
               ELSE IF answer = "resync_required" THEN [step |-> "list"] ELSE Idle

HandleClassify(h) ==
    /\ h.kind = "increment" /\ h.step = "classify"
    /\ \/ /\ ClassifyIncremental(h.seq) = "resync"
          /\ done' = FALSE /\ applied' = 0
          /\ Answer(h, "resync_required")
       \/ /\ ClassifyIncremental(h.seq) = "ack"
          /\ Answer(h, "ack")
          /\ UNCHANGED <<done, applied>>
       \/ /\ ClassifyIncremental(h.seq) = "apply"
          /\ work' = (work \ {h}) \cup {[h EXCEPT !.step = "apply"]}
          /\ UNCHANGED <<done, applied, loop>>
    /\ UNCHANGED <<pl, seq, queue, syncSeq, pconn, sl, sconn, req, faults, hist, mixed>>

\* upsertLeaseReplica or deleteLeaseReplica; when it fails nothing is noted.
HandleApply(h) ==
    /\ h.kind = "increment" /\ h.step = "apply"
    /\ \/ /\ sl' = [sl EXCEPT ![h.ip] = h.val]
          /\ work' = (work \ {h}) \cup {[h EXCEPT !.step = "mark"]}
          /\ UNCHANGED <<loop, faults>>
       \/ Fault /\ Answer(h, "ack") /\ UNCHANGED sl
    /\ UNCHANGED <<pl, seq, queue, syncSeq, pconn, applied, done, sconn, req, hist, mixed>>

SetAppliedSequence(n) == MaxOf(applied, n)

HandleMark(h) ==
    /\ h.kind = "increment" /\ h.step = "mark"
    /\ applied' = SetAppliedSequence(h.seq)
    /\ Answer(h, "ack")
    /\ UNCHANGED <<pl, seq, queue, syncSeq, pconn, sl, done, sconn, req, faults, hist, mixed>>

\* applySnapshot: the snapshot's leases first, then everything else is removed.
SnapshotUpsert(h) ==
    /\ h.step = "upsert"
    /\ mixed' = (mixed \/ applied > h.asof)
    /\ \/ /\ sl' = [ip \in IPs |-> IF h.map[ip] # Absent THEN h.map[ip] ELSE sl[ip]]
          /\ work' = (work \ {h}) \cup {[h EXCEPT !.step = "prune"]}
          /\ UNCHANGED <<loop, req, faults>>
       \/ /\ Fault    \* some leases were written, the rest was not
          /\ \E part \in SUBSET IPs :
                sl' = [ip \in IPs |-> IF ip \in part /\ h.map[ip] # Absent THEN h.map[ip] ELSE sl[ip]]
          /\ Answer(h, "ack")
          /\ req' = IF h.kind = "requested" THEN Idle ELSE req
    /\ UNCHANGED <<pl, seq, queue, syncSeq, pconn, applied, done, sconn, hist>>

SnapshotPrune(h) ==
    /\ h.step = "prune"
    /\ \/ /\ sl' = [ip \in IPs |-> IF h.map[ip] = Absent THEN Absent ELSE sl[ip]]
          /\ work' = (work \ {h}) \cup {[h EXCEPT !.step = "mark"]}
          /\ UNCHANGED <<loop, req, faults>>
       \/ /\ Fault    \* some leases were removed, the rest was not
          /\ \E part \in SUBSET IPs :
                sl' = [ip \in IPs |-> IF ip \in part /\ h.map[ip] = Absent THEN Absent ELSE sl[ip]]
          /\ Answer(h, "ack")
          /\ req' = IF h.kind = "requested" THEN Idle ELSE req
    /\ UNCHANGED <<pl, seq, queue, syncSeq, pconn, applied, done, sconn, hist, mixed>>

\* markSnapshotDone.
SnapshotMark(h) ==
    /\ h.kind # "increment" /\ h.step = "mark"
    /\ done' = TRUE
    /\ applied' = SetAppliedSequence(h.seq)
    /\ Answer(h, "ack")
    /\ req' = IF h.kind = "requested" THEN Idle ELSE req
    /\ UNCHANGED <<pl, seq, queue, syncSeq, pconn, sl, sconn, faults, hist, mixed>>

\* Mutant: a snapshot is asked for only while nothing was ever applied.
ReqSend_OnlyAtFirst ==
    /\ req = Idle /\ sconn /\ ~done /\ applied = 0
    /\ req' = [step |-> "asked"]
    /\ UNCHANGED <<pVars, sl, applied, done, sconn, work, faults, hist, mixed>>

\* heartbeatLoop: shouldRequestSnapshot and not snapshotApplied.
ReqSend ==
    /\ req = Idle /\ sconn /\ ~done
    /\ req' = [step |-> "asked"]
    /\ UNCHANGED <<pVars, sl, applied, done, sconn, work, faults, hist, mixed>>

\* The primary's handler of snapshot_request: ListAll, then the number.
ReqList ==
    /\ req.step = "asked"
    /\ req' = [step |-> "listed", map |-> pl, asof |-> seq]
    /\ UNCHANGED <<pVars, sl, applied, done, sconn, work, faults, hist, mixed>>

ReqReply ==
    /\ req.step = "listed"
    /\ work' = work \cup {Snapshot("requested", req)}
    /\ req' = [step |-> "applying"]
    /\ mixed' = (mixed \/ work # {} \/ syncSeq > req.asof)
    /\ UNCHANGED <<pVars, sl, applied, done, sconn, faults, hist>>

ReqFails ==
    /\ req.step \in {"asked", "listed"}
    /\ Fault
    /\ req' = Idle
    /\ UNCHANGED <<pVars, sl, applied, done, sconn, work, hist, mixed>>

(***************************************************************************)
(* Connection state (see HAElection) and restarts.                         *)
(***************************************************************************)

\* markPeerDisconnected on the secondary, which waits for no handler.
SecondaryLosesPeer ==
    /\ sconn /\ Fault
    /\ sconn' = FALSE /\ done' = FALSE /\ applied' = 0
    /\ mixed' = (mixed /\ work # {})
    /\ UNCHANGED <<pVars, sl, req, work, hist>>

PrimaryLosesPeer ==
    /\ pconn /\ Fault
    /\ pconn' = FALSE
    /\ UNCHANGED <<pl, seq, queue, syncSeq, loop, sVars, hist, mixed>>

PeersMeet ==
    /\ ~sconn \/ ~pconn
    /\ sconn' = TRUE /\ pconn' = TRUE
    /\ UNCHANGED <<pl, seq, queue, syncSeq, loop, sl, applied, done, req, work, faults, hist, mixed>>

\* The engine of a restarted primary counts from zero again.  The secondary
\* notices only if one of its heartbeats falls into the gap.
PrimaryRestarts ==
    /\ Fault
    /\ seq' = 0 /\ syncSeq' = 0 /\ queue' = <<>> /\ loop' = Idle /\ pconn' = FALSE
    /\ req' = IF req.step \in {"asked", "listed"} THEN Idle ELSE req
    /\ work' = {Deaf(h) : h \in work}
    /\ hist' = <<pl>>
    /\ mixed' = (mixed \/ done \/ applied > 0 \/ work # {})
    /\ UNCHANGED <<pl, sl, applied, done, sconn>>

SecondaryRestarts ==
    /\ Fault
    /\ applied' = 0 /\ done' = FALSE /\ sconn' = FALSE
    /\ req' = Idle /\ work' = {}
    /\ loop' = IF loop.step = "wait" THEN Idle ELSE loop
    /\ mixed' = FALSE
    /\ UNCHANGED <<pl, seq, queue, syncSeq, pconn, sl, hist>>

Work ==
    \E h \in work :
        \/ HandleClassify(h) \/ HandleApply(h) \/ HandleMark(h)
        \/ SnapshotUpsert(h) \/ SnapshotPrune(h) \/ SnapshotMark(h)

SyncNext ==
    \/ \E ip \in IPs, val \in Vals \cup {Absent} : LeaseWrite(ip, val)
    \/ OtherTx
    \/ LoopTake \/ PushList \/ PushSend \/ LoopTimeout
    \/ Work
    \/ ReqSend \/ ReqList \/ ReqReply \/ ReqFails
    \/ SecondaryLosesPeer \/ PrimaryLosesPeer \/ PeersMeet
    \/ PrimaryRestarts \/ SecondaryRestarts

SyncSpec == SyncInit /\ [][SyncNext]_syncVars

\* The loops and handlers run on, and heartbeats bring the peers together.
SyncFairness ==
    /\ WF_syncVars(LoopTake) /\ WF_syncVars(PushList) /\ WF_syncVars(PushSend) /\ WF_syncVars(Work)
    /\ WF_syncVars(ReqSend) /\ WF_syncVars(ReqList) /\ WF_syncVars(ReqReply) /\ WF_syncVars(PeersMeet)

FairSyncSpec == SyncSpec /\ SyncFairness

(***************************************************************************)
(* Properties.                                                             *)
(***************************************************************************)

\* What the secondary's number claims is there: a secondary that has applied
\* transaction n on top of a snapshot shows for every address the primary's lease
\* as of transaction n or a later one, through lost events, gaps, resyncs, half
\* applied snapshots, lost connections and restarts of the secondary.  Left out
\* (mixed) are messages handled at the same time, a snapshot sent with a number
\* newer than its leases or applied after newer increments, and a restart of the
\* primary, until the secondary next starts over.
ReplicaCurrent ==
    applied > 0 /\ done /\ ~mixed =>
        \A ip \in IPs : \E j \in applied..seq : sl[ip] = hist[j + 1][ip]

\* Whatever was lost, the secondary ends up with a snapshot of the primary
\* (resync_required, and the request repeated by every heartbeat).
EventuallyBaselined == <>[]done
=============================================================================

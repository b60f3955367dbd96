--------------------------- MODULE StorageEngine ---------------------------
(***************************************************************************)
(* The embedded storage engine (internal/storage): in-memory trees, a      *)
(* segmented write-ahead log, the snapshot file, backups and restore, and  *)
(* the transaction watchers.                                               *)
(*                                                                         *)
(* The key of a tree and the name of the tree are one key here, as they    *)
(* are in the log (makeTreeKey).  A deletion is a write of NoVal.  The log *)
(* is one sequence: its segments are separated by NextSegment, and Torn    *)
(* stands for the bytes of an entry that was only partly written.          *)
(***************************************************************************)
EXTENDS Integers, Sequences, FiniteSets

CONSTANTS
    Keys,           \* combined tree keys
    Vals,           \* values
    NoVal,          \* "key absent"
    MaxTxLen,       \* bound: mutations of one transaction
    MaxWal,         \* bound: items of the log
    MaxSequence,    \* bound: notifying transactions of one process lifetime
    Snapshotters,   \* goroutines that run the CreateBackup request
    Watchers,       \* subscribers of WatchTx
    WatchCap        \* capacity of a watcher channel (32 in the code)

ASSUME NoValAssumption == NoVal \notin Vals
ASSUME BoundsAssumption ==
    /\ MaxTxLen \in Nat \ {0}
    /\ MaxWal \in Nat
    /\ MaxSequence \in Nat
    /\ WatchCap \in Nat \ {0}

Values == Vals \cup {NoVal}
Maps == [Keys -> Values]
EmptyMap == [k \in Keys |-> NoVal]

Mutations == [key : Keys, val : Values]
Entry(m) == [kind |-> "entry", key |-> m.key, val |-> m.val]
Torn == [kind |-> "torn"]
NextSegment == [kind |-> "segment"]
Items == [kind : {"entry"}, key : Keys, val : Values] \cup {Torn, NextSegment}

\* What snapshot.bin (or a backup file) can hold besides a readable map.
NoFile == [file |-> "none"]
BadFile == [file |-> "unreadable"]
GoodFile(map) == [file |-> "good", map |-> map]
Files == {NoFile, BadFile} \cup [file : {"good"}, map : Maps]

VARIABLES
    phase,      \* "down", "replaying", "open", "closed" or "failed" (OpenEngine returned an error)
    trees,      \* the in-memory content of all trees
    tx,         \* the transaction that holds e.mu, if any
    wal,        \* the log on disk, all segments
    synced,     \* how many items of wal survive a power loss
    walOpen,    \* the log's file handle is usable
    replayed,   \* during replay: how many items of wal have been read
    snap,       \* snapshot.bin
    snapper,    \* [Snapshotters -> progress of a CreateBackup request]
    clash,      \* two requests wrote snapshot.bin at the same time
    backup,     \* the newest file of the backup directory
    restore,    \* progress of RestoreSnapshot, which holds e.mu
    sequence,   \* e.sequence
    watch,      \* [Watchers -> subscription]
    acked,      \* history: the last acknowledged value of each key
    maybe,      \* history: values written since then and never acknowledged
    buried,     \* history: an item was appended behind a torn one in its segment
    gapped      \* history: a restore removed a segment before an older one

memVars == <<phase, trees, tx, replayed>>
diskVars == <<wal, synced, walOpen>>
fileVars == <<snap, snapper, clash, backup>>
eventVars == <<sequence, watch>>
ghostVars == <<acked, maybe>>
damageVars == <<buried, gapped>>
vars == <<memVars, diskVars, fileVars, restore, eventVars, ghostVars, damageVars>>

NoTx == [active |-> FALSE, muts |-> <<>>, done |-> 0, notify |-> FALSE]
NoRestore == [step |-> "none", map |-> EmptyMap]
Unsubscribed == [on |-> FALSE, queue |-> <<>>, seen |-> 0, lost |-> FALSE]

TxMutations == UNION {[1..n -> Mutations] : n \in 1..MaxTxLen}

TypeOK ==
    /\ phase \in {"down", "replaying", "open", "closed", "failed"}
    /\ trees \in Maps
    /\ tx \in [active : BOOLEAN, muts : Seq(Mutations), done : Nat, notify : BOOLEAN]
    /\ tx.done <= Len(tx.muts)
    /\ wal \in Seq(Items)
    /\ synced \in 0..Len(wal)
    /\ walOpen \in BOOLEAN
    /\ replayed \in Nat
    /\ snap \in Files
    /\ snapper \in [Snapshotters -> {"idle", "writing", "copying"}]
    /\ clash \in BOOLEAN
    /\ backup \in Files
    /\ restore \in [step : {"none", "truncated", "written", "removed"}, map : Maps]
    /\ sequence \in Nat
    /\ watch \in [Watchers -> [on : BOOLEAN, queue : Seq(Nat), seen : Nat, lost : BOOLEAN]]
    /\ acked \in Maps
    /\ maybe \in [Keys -> SUBSET Values]
    /\ buried \in BOOLEAN /\ gapped \in BOOLEAN

Init ==
    /\ phase = "down"
    /\ trees = EmptyMap
    /\ tx = NoTx
    /\ wal = <<>> /\ synced = 0 /\ walOpen = FALSE
    /\ replayed = 0
    /\ snap = NoFile /\ backup = NoFile
    /\ snapper = [s \in Snapshotters |-> "idle"] /\ clash = FALSE
    /\ restore = NoRestore
    /\ sequence = 0 /\ watch = [w \in Watchers |-> Unsubscribed]
    /\ acked = EmptyMap /\ maybe = [k \in Keys |-> {}]
    /\ buried = FALSE /\ gapped = FALSE

Writing == {s \in Snapshotters : snapper[s] = "writing"}

\* e.mu can be taken for writing: no transaction, no restore, no reader inside.
Unlocked == ~tx.active /\ restore.step = "none" /\ Writing = {}

(***************************************************************************)
(* OpenEngine: load the snapshot, open the newest segment for appending,   *)
(* then replay every segment.  An engine that fails to open ends the       *)
(* process; it may be started again.                                       *)
(***************************************************************************)
Base == IF snap.file = "good" THEN snap.map ELSE EmptyMap

OpenEngine ==
    /\ phase \in {"down", "failed"}
    /\ IF snap.file = "unreadable"
       THEN /\ phase' = "failed"
            /\ UNCHANGED <<trees, replayed, walOpen>>
       ELSE /\ phase' = "replaying"
            /\ trees' = Base
            /\ replayed' = 0
            /\ walOpen' = TRUE
    /\ UNCHANGED <<tx, wal, synced, fileVars, restore, eventVars, ghostVars, damageVars>>

\* The last item of the segment that item i belongs to.
IsSegmentEnd(i) == IF i < Len(wal) THEN wal[i + 1] = NextSegment ELSE TRUE

SegmentEnds(i) == {j \in i..Len(wal) : IsSegmentEnd(j) /\ \A x \in i..(j - 1) : ~IsSegmentEnd(x)}

\* Mutant: replayFile takes a short read at the end of the file for corruption.
ReplayItem_NoTruncatedTail ==
    /\ phase = "replaying"
    /\ replayed < Len(wal)
    /\ LET i == replayed + 1 IN
        /\ replayed' = i
        /\ trees' = IF wal[i].kind = "entry" THEN [trees EXCEPT ![wal[i].key] = wal[i].val] ELSE trees
        /\ phase' = IF wal[i] = Torn THEN "failed" ELSE phase
    /\ UNCHANGED <<tx, diskVars, fileVars, restore, eventVars, ghostVars, damageVars>>

\* One turn of the loop of replayFile.  At the bytes of a torn entry the
\* reader either runs out of file (or reads a zero length), which ends the
\* segment without an error, or, when more bytes follow in the segment, it
\* takes them for the rest of the payload and the checksum does not match.
ReplayItem ==
    /\ phase = "replaying"
    /\ replayed < Len(wal)
    /\ LET i == replayed + 1 IN
        \/ /\ wal[i].kind = "entry"
           /\ trees' = [trees EXCEPT ![wal[i].key] = wal[i].val]
           /\ replayed' = i
           /\ UNCHANGED phase
        \/ /\ wal[i] = NextSegment
           /\ replayed' = i
           /\ UNCHANGED <<trees, phase>>
        \/ /\ wal[i] = Torn
           /\ replayed' \in SegmentEnds(i)
           /\ UNCHANGED <<trees, phase>>
        \/ /\ wal[i] = Torn
           /\ ~IsSegmentEnd(i)
           /\ phase' = "failed"
           /\ UNCHANGED <<trees, replayed>>
    /\ UNCHANGED <<tx, diskVars, fileVars, restore, eventVars, ghostVars, damageVars>>

OpenDone ==
    /\ phase = "replaying"
    /\ replayed = Len(wal)
    /\ phase' = "open"
    /\ replayed' = 0
    /\ UNCHANGED <<trees, tx, diskVars, fileVars, restore, eventVars, ghostVars, damageVars>>

(***************************************************************************)
(* Engine.tx.  e.mu is held from TxBegin to TxCommit or TxFail; between    *)
(* two mutations the process can die, and Get, which only takes e.mu to    *)
(* find the tree, can read.                                                *)
(***************************************************************************)
TxBegin(muts, notify) ==
    /\ phase = "open"
    /\ Unlocked
    /\ notify => sequence < MaxSequence
    /\ Len(wal) + 2 * Len(muts) <= MaxWal
    /\ tx' = [active |-> TRUE, muts |-> muts, done |-> 0, notify |-> notify]
    /\ UNCHANGED <<phase, trees, replayed, diskVars, fileVars, restore, eventVars, ghostVars, damageVars>>

NextMutation == tx.muts[tx.done + 1]

\* rotateIfNeeded: entries differ in size, so any append to a segment that
\* holds something may be the one that starts the next segment.
CanRotate == wal # <<>> /\ wal[Len(wal)] # NextSegment
Rotated(rotate) == IF rotate THEN Append(wal, NextSegment) ELSE wal

\* Bytes written now land behind the bytes of a torn entry (O_APPEND).
Buries(rotate) == ~rotate /\ wal # <<>> /\ wal[Len(wal)] = Torn

WrittenUnacked == [maybe EXCEPT ![NextMutation.key] = @ \cup {NextMutation.val}]

\* Mutant: Append does not wait for fsync.
TxApply_NoSync(rotate) ==
    /\ tx.active
    /\ tx.done < Len(tx.muts)
    /\ walOpen
    /\ rotate => CanRotate
    /\ wal' = Append(Rotated(rotate), Entry(NextMutation))
    /\ trees' = [trees EXCEPT ![NextMutation.key] = NextMutation.val]
    /\ tx' = [tx EXCEPT !.done = @ + 1]
    /\ maybe' = WrittenUnacked
    /\ buried' = (buried \/ Buries(rotate))
    /\ UNCHANGED <<phase, synced, walOpen, replayed, fileVars, restore, eventVars, acked, gapped>>

\* Mutant: the loop over the mutations advances twice.
TxApply_SkipsOne(rotate) ==
    /\ tx.active
    /\ tx.done < Len(tx.muts)
    /\ walOpen
    /\ rotate => CanRotate
    /\ wal' = Append(Rotated(rotate), Entry(NextMutation))
    /\ synced' = Len(wal')
    /\ trees' = [trees EXCEPT ![NextMutation.key] = NextMutation.val]
    /\ tx' = [tx EXCEPT !.done = @ + 2]
    /\ maybe' = WrittenUnacked
    /\ buried' = (buried \/ Buries(rotate))
    /\ UNCHANGED <<phase, walOpen, replayed, fileVars, restore, eventVars, acked, gapped>>

\* wal.Append returns nil and the mutation is applied to its tree.
TxApply(rotate) ==
    /\ tx.active
    /\ tx.done < Len(tx.muts)
    /\ walOpen
    /\ rotate => CanRotate
    /\ wal' = Append(Rotated(rotate), Entry(NextMutation))
    /\ synced' = Len(wal')
    /\ trees' = [trees EXCEPT ![NextMutation.key] = NextMutation.val]
    /\ tx' = [tx EXCEPT !.done = @ + 1]
    /\ maybe' = WrittenUnacked
    /\ buried' = (buried \/ Buries(rotate))
    /\ UNCHANGED <<phase, walOpen, replayed, fileVars, restore, eventVars, acked, gapped>>

\* wal.Append returns an error: the transaction ends where it stands.
TxFail ==
    /\ tx.active
    /\ tx.done < Len(tx.muts)
    /\ tx' = NoTx
    /\ \/ \* nothing reached the file
          UNCHANGED <<wal, walOpen, maybe, buried>>
       \/ \* rotation closed the old segment and could not open the next
          /\ walOpen
          /\ CanRotate
          /\ walOpen' = FALSE
          /\ UNCHANGED <<wal, maybe, buried>>
       \/ \* Write failed after some bytes, or Sync failed after all of them
          \E rotate \in BOOLEAN, item \in {Torn, Entry(NextMutation)} :
              /\ walOpen
              /\ rotate => CanRotate
              /\ wal' = Append(Rotated(rotate), item)
              /\ maybe' = WrittenUnacked
              /\ buried' = (buried \/ Buries(rotate))
              /\ UNCHANGED walOpen
    /\ UNCHANGED <<phase, trees, replayed, synced, fileVars, restore, eventVars, acked, gapped>>

\* The non-blocking send to every watcher: a full channel loses the event.
Notify(seq) ==
    [w \in Watchers |->
        IF ~watch[w].on THEN watch[w]
        ELSE IF Len(watch[w].queue) < WatchCap
             THEN [watch[w] EXCEPT !.queue = Append(@, seq)]
             ELSE [watch[w] EXCEPT !.lost = TRUE]]

TxKeys == {tx.muts[i].key : i \in 1..Len(tx.muts)}

\* Mutant: transactions that tell no watcher take a sequence number too.
TxCommit_AlwaysCounts ==
    /\ tx.active
    /\ tx.done = Len(tx.muts)
    /\ sequence' = sequence + 1
    /\ watch' = IF tx.notify THEN Notify(sequence + 1) ELSE watch
    /\ tx' = NoTx
    /\ acked' = [k \in Keys |-> IF k \in TxKeys THEN trees[k] ELSE acked[k]]
    /\ maybe' = [k \in Keys |-> IF k \in TxKeys THEN {} ELSE maybe[k]]
    /\ UNCHANGED <<phase, trees, replayed, diskVars, fileVars, restore, damageVars>>

TxCommit ==
    /\ tx.active
    /\ tx.done = Len(tx.muts)
    /\ IF tx.notify
       THEN /\ sequence' = sequence + 1
            /\ watch' = Notify(sequence + 1)
       ELSE UNCHANGED eventVars
    /\ tx' = NoTx
    /\ acked' = [k \in Keys |-> IF k \in TxKeys THEN trees[k] ELSE acked[k]]
    /\ maybe' = [k \in Keys |-> IF k \in TxKeys THEN {} ELSE maybe[k]]
    /\ UNCHANGED <<phase, trees, replayed, diskVars, fileVars, restore, damageVars>>

(***************************************************************************)
(* WatchTx, its unsubscribe function and a receive from the channel.       *)
(***************************************************************************)
WatchTx(w) ==
    /\ phase = "open"
    /\ Unlocked
    /\ ~watch[w].on
    /\ watch' = [watch EXCEPT ![w] = [on |-> TRUE, queue |-> <<>>, seen |-> sequence, lost |-> FALSE]]
    /\ UNCHANGED <<memVars, diskVars, fileVars, restore, sequence, ghostVars, damageVars>>

Unwatch(w) ==
    /\ phase = "open"
    /\ Unlocked
    /\ watch[w].on
    /\ watch' = [watch EXCEPT ![w] = Unsubscribed]
    /\ UNCHANGED <<memVars, diskVars, fileVars, restore, sequence, ghostVars, damageVars>>

WatchReceive(w) ==
    /\ watch[w].on
    /\ watch[w].queue # <<>>
    /\ watch' = [watch EXCEPT ![w].queue = Tail(@), ![w].seen = Head(watch[w].queue)]
    /\ UNCHANGED <<memVars, diskVars, fileVars, restore, sequence, ghostVars, damageVars>>

(***************************************************************************)
(* CreateBackup: CreateSnapshot rewrites snapshot.bin in place under the   *)
(* read lock, which two requests can hold together; the copy into the      *)
(* backup directory reads the file after the lock was given up.            *)
(***************************************************************************)
SnapshotOpen(s) ==
    /\ phase \in {"open", "closed"}
    /\ ~tx.active
    /\ restore.step = "none"
    /\ snapper[s] = "idle"
    /\ snapper' = [snapper EXCEPT ![s] = "writing"]
    /\ snap' = BadFile
    /\ clash' = (Writing # {})
    /\ UNCHANGED <<memVars, diskVars, backup, restore, eventVars, ghostVars, damageVars>>

\* Each writer emits the trees in its own map order: interleaved writes may
\* leave bytes that are no snapshot.
SnapshotWritten(s) ==
    /\ snapper[s] = "writing"
    /\ snapper' = [snapper EXCEPT ![s] = "copying"]
    /\ IF Writing # {s}
       THEN UNCHANGED <<snap, clash>>
       ELSE /\ snap' \in {GoodFile(trees)} \cup (IF clash THEN {BadFile} ELSE {})
            /\ clash' = FALSE
    /\ UNCHANGED <<memVars, diskVars, backup, restore, eventVars, ghostVars, damageVars>>

SnapshotFail(s) ==
    /\ snapper[s] = "writing"
    /\ snapper' = [snapper EXCEPT ![s] = "idle"]
    /\ clash' = (clash /\ Writing # {s})
    /\ UNCHANGED <<memVars, diskVars, snap, backup, restore, eventVars, ghostVars, damageVars>>

BackupCopy(s) ==
    /\ snapper[s] = "copying"
    /\ snapper' = [snapper EXCEPT ![s] = "idle"]
    /\ backup' \in {snap, backup}    \* the copy may fail
    /\ UNCHANGED <<memVars, diskVars, snap, clash, restore, eventVars, ghostVars, damageVars>>

(***************************************************************************)
(* RestoreSnapshot: rewrite snapshot.bin, close and remove the log, open   *)
(* an empty one, swap the trees.  It tells no watcher.                     *)
(***************************************************************************)
RestoreBegin ==
    /\ phase = "open"
    /\ Unlocked
    /\ backup.file = "good"
    /\ restore' = [step |-> "truncated", map |-> backup.map]
    /\ snap' = BadFile
    /\ maybe' = [k \in Keys |-> maybe[k] \cup {backup.map[k]}]
    /\ UNCHANGED <<memVars, diskVars, snapper, clash, backup, eventVars, acked, damageVars>>

RestoreWritten ==
    /\ restore.step = "truncated"
    /\ restore' = [restore EXCEPT !.step = "written"]
    /\ snap' = GoodFile(restore.map)
    /\ UNCHANGED <<memVars, diskVars, snapper, clash, backup, eventVars, ghostVars, damageVars>>

\* os.RemoveAll deletes the segment files one by one, in directory order;
\* items lo..hi are one segment with the marker that separates it.
RestoreRemoveSegment(lo, hi) ==
    /\ restore.step = "written"
    /\ lo <= hi
    /\ \/ lo = 1 /\ (wal[hi] = NextSegment \/ hi = Len(wal))
          /\ \A i \in lo..(hi - 1) : wal[i] # NextSegment
       \/ wal[lo] = NextSegment /\ IsSegmentEnd(hi)
          /\ \A i \in (lo + 1)..hi : wal[i] # NextSegment
    /\ wal' = SubSeq(wal, 1, lo - 1) \o SubSeq(wal, hi + 1, Len(wal))
    /\ synced' = IF synced < lo THEN synced
                 ELSE IF synced > hi THEN synced - (hi - lo + 1) ELSE lo - 1
    /\ walOpen' = FALSE
    /\ gapped' = (gapped \/ lo > 1)
    /\ UNCHANGED <<memVars, fileVars, restore, eventVars, ghostVars, buried>>

\* Mutant: RestoreSnapshot leaves the old log in place.
RestoreRemovedWAL_KeepsLog ==
    /\ restore.step = "written"
    /\ restore' = [restore EXCEPT !.step = "removed"]
    /\ walOpen' = FALSE
    /\ UNCHANGED <<memVars, wal, synced, fileVars, eventVars, ghostVars, damageVars>>

RestoreRemovedWAL ==
    /\ restore.step = "written"
    /\ wal = <<>>
    /\ restore' = [restore EXCEPT !.step = "removed"]
    /\ walOpen' = FALSE
    /\ UNCHANGED <<memVars, wal, synced, fileVars, eventVars, ghostVars, damageVars>>

RestoreDone ==
    /\ restore.step = "removed"
    /\ restore' = NoRestore
    /\ trees' = restore.map
    /\ walOpen' = TRUE
    /\ acked' = restore.map
    /\ maybe' = [k \in Keys |-> {}]
    /\ buried' = FALSE /\ gapped' = FALSE
    /\ UNCHANGED <<phase, tx, replayed, wal, synced, fileVars, eventVars>>

\* Any step may return its error; after wal.Close the engine goes on with a
\* closed file handle.
RestoreFail ==
    /\ restore.step # "none"
    /\ restore' = NoRestore
    /\ walOpen' = (walOpen /\ restore.step = "truncated")
    /\ UNCHANGED <<memVars, wal, synced, fileVars, eventVars, ghostVars, damageVars>>

(***************************************************************************)
(* Close, and the two ways a process ends.                                 *)
(***************************************************************************)
Close ==
    /\ phase = "open"
    /\ Unlocked
    /\ phase' = "closed"
    /\ walOpen' = FALSE
    /\ watch' = [w \in Watchers |-> Unsubscribed]
    /\ UNCHANGED <<trees, tx, replayed, wal, synced, fileVars, restore, sequence, ghostVars, damageVars>>

\* What dies with the process.
ProcessEnds ==
    /\ phase # "down"
    /\ phase' = "down"
    /\ trees' = EmptyMap
    /\ tx' = NoTx
    /\ replayed' = 0
    /\ walOpen' = FALSE
    /\ snapper' = [s \in Snapshotters |-> "idle"]
    /\ clash' = FALSE
    /\ restore' = NoRestore
    /\ sequence' = 0
    /\ watch' = [w \in Watchers |-> Unsubscribed]

AppendInFlight == tx.active /\ tx.done < Len(tx.muts) /\ walOpen

Exit ==
    /\ ProcessEnds
    /\ UNCHANGED <<wal, synced, snap, backup, ghostVars, damageVars>>

\* The machine loses power: unsynced items may be gone, and the write that
\* was under way may have left some of its bytes.
PowerLoss ==
    /\ ProcessEnds
    /\ \E n \in synced..Len(wal), tear \in BOOLEAN :
        /\ tear => (n < Len(wal) \/ (AppendInFlight /\ n < MaxWal))
        /\ wal' = IF tear THEN Append(SubSeq(wal, 1, n), Torn) ELSE SubSeq(wal, 1, n)
        /\ buried' = (buried \/ (tear /\ n > 0 /\ wal[n] = Torn))
    /\ synced' = Len(wal')
    /\ UNCHANGED <<snap, backup, acked, maybe, gapped>>

Next ==
    \/ OpenEngine \/ ReplayItem \/ OpenDone
    \/ \E muts \in TxMutations, notify \in BOOLEAN : TxBegin(muts, notify)
    \/ \E rotate \in BOOLEAN : TxApply(rotate)
    \/ TxFail \/ TxCommit
    \/ \E w \in Watchers : WatchTx(w) \/ Unwatch(w) \/ WatchReceive(w)
    \/ \E s \in Snapshotters :
          SnapshotOpen(s) \/ SnapshotWritten(s) \/ SnapshotFail(s) \/ BackupCopy(s)
    \/ RestoreBegin \/ RestoreWritten
    \/ \E lo, hi \in 1..Len(wal) : RestoreRemoveSegment(lo, hi)
    \/ RestoreRemovedWAL \/ RestoreDone \/ RestoreFail
    \/ Close \/ Exit \/ PowerLoss

Spec == Init /\ [][Next]_vars

(***************************************************************************)
(* Properties.                                                             *)
(***************************************************************************)
Allowed(k) == {acked[k]} \cup maybe[k]

\* Durability (Engine.tx, OpenEngine, RestoreSnapshot): whatever crashed, failed
\* or was restored in between, a key of an open engine holds the value of the
\* last acknowledged transaction or restore that wrote it, or one written after
\* that by a transaction or restore that never answered.  The exceptions are an
\* engine that appended behind a torn log entry and one whose restore died after
\* it had removed a newer log segment before an older one.
AckedSurvives ==
    phase = "open" /\ ~buried /\ ~gapped => \A k \in Keys : trees[k] \in Allowed(k)

\* OpenEngine fails only on a snapshot file whose rewriting was interrupted or
\* on a log that went on behind a torn entry; a torn tail alone never keeps the
\* engine from opening (replayFile's "truncated tail" case).
OpensUnlessDamaged ==
    phase = "failed" => snap.file = "unreadable" \/ buried

\* The event stream of WatchTx: a subscriber whose channel was never full has
\* received or still has queued exactly the sequence numbers up to e.sequence,
\* in order and without a gap, whatever transactions failed meanwhile.
WatcherGapFree ==
    \A w \in Watchers :
        watch[w].on /\ ~watch[w].lost =>
            /\ Len(watch[w].queue) = sequence - watch[w].seen
            /\ \A i \in 1..Len(watch[w].queue) : watch[w].queue[i] = watch[w].seen + i

\* (README: "Crash Recovery - WAL replay from last checkpoint, fsync-on-commit")
\* Once acknowledged, a value is there whenever the engine is open.
AckedAlwaysSurvives ==
    phase = "open" => \A k \in Keys : trees[k] \in Allowed(k)

============================================================================

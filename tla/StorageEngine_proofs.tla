------------------------ MODULE StorageEngine_proofs ------------------------
(***************************************************************************)
(* Proofs about StorageEngine: durability of acknowledged writes for every *)
(* set of keys and values, every transaction length, every log length and  *)
(* any number of backup requests and watchers.                             *)
(***************************************************************************)
EXTENDS StorageRefinement, SequenceTheorems, TLAPS

(***************************************************************************)
(* The inductive invariant.                                                *)
(***************************************************************************)
EntryFor(w, i, k) == w[i].kind = "entry" /\ w[i].key = k

\* Item i of log w is the last one among the first n that writes k.
LastFor(w, i, n, k) ==
    /\ i \in 1..n
    /\ EntryFor(w, i, k)
    /\ \A j \in (i + 1)..n : ~EntryFor(w, j, k)

NoneFor(w, n, k) == \A i \in 1..n : ~EntryFor(w, i, k)

Sound == ~buried /\ ~gapped

\* What any power loss leaves of the log is, key by key, a value that may be read.
LogOK ==
    Sound => \A k \in Keys : \A n \in synced..Len(wal) : \A i \in 1..n :
        LastFor(wal, i, n, k) => wal[i].val \in Allowed(k)

\* A key the log may not mention after a power loss has a readable value in the snapshot.
SnapOK ==
    Sound /\ snap.file # "unreadable" => \A k \in Keys : \A n \in synced..Len(wal) :
        NoneFor(wal, n, k) => Base[k] \in Allowed(k)

\* Replay has rebuilt exactly the effect of the items it has read.
ReplayOK ==
    phase = "replaying" =>
        /\ snap.file # "unreadable"
        /\ replayed <= Len(wal)
        /\ Sound => \A k \in Keys :
              \/ \E i \in 1..replayed : LastFor(wal, i, replayed, k) /\ trees[k] = wal[i].val
              \/ NoneFor(wal, replayed, k) /\ trees[k] = Base[k]

MemOK ==
    phase \in {"open", "closed"} /\ Sound => \A k \in Keys : trees[k] \in Allowed(k)

\* Only the last bytes of a segment are torn, unless something was buried.
TearOK ==
    ~buried => \A i \in 1..(Len(wal) - 1) : wal[i] = Torn => wal[i + 1] = NextSegment

TxOK ==
    tx.active =>
        /\ phase = "open"
        /\ restore.step = "none"
        /\ tx.done > 0 => synced = Len(wal)
        /\ \A d \in 1..tx.done :
              \E i \in 1..Len(wal) :
                  LastFor(wal, i, Len(wal), tx.muts[d].key) /\ trees[tx.muts[d].key] = wal[i].val

RestoreOK ==
    restore.step # "none" =>
        /\ phase = "open"
        /\ \A k \in Keys : restore.map[k] \in Allowed(k)
        /\ restore.step \in {"written", "removed"} => snap = GoodFile(restore.map)
        /\ restore.step = "removed" => wal = <<>>

SnapperOK ==
    /\ phase \notin {"open", "closed"} => Writing = {}
    /\ (tx.active \/ restore.step # "none") => Writing = {}

FailedOK == phase = "failed" => snap.file = "unreadable" \/ buried

IInv == /\ TypeOK /\ LogOK /\ SnapOK /\ ReplayOK /\ MemOK /\ TearOK
        /\ TxOK /\ RestoreOK /\ SnapperOK /\ FailedOK

(***************************************************************************)
(* Facts about the log as a sequence.                                      *)
(***************************************************************************)
LEMMA ItemTypes ==
    /\ Torn \in Items /\ NextSegment \in Items
    /\ Torn # NextSegment
    /\ Torn.kind # "entry" /\ NextSegment.kind # "entry"
    /\ \A m \in Mutations : Entry(m) \in Items /\ Entry(m).kind = "entry"
                            /\ Entry(m).key = m.key /\ Entry(m).val = m.val
    /\ \A m \in Mutations : Entry(m) # Torn /\ Entry(m) # NextSegment
  <1>1. Torn.kind = "torn" /\ NextSegment.kind = "segment"
    BY DEF Torn, NextSegment
  <1>2. \A m \in Mutations : Entry(m).kind = "entry"
    BY DEF Entry
  <1>3. \A m \in Mutations : Entry(m) \in Items
    BY DEF Entry, Items, Mutations
  <1>4. \A m \in Mutations : Entry(m).key = m.key /\ Entry(m).val = m.val
    BY DEF Entry
  <1>5. Torn \in Items /\ NextSegment \in Items
    BY DEF Items
  <1> QED BY <1>1, <1>2, <1>3, <1>4, <1>5

LEMMA AppendFacts ==
    ASSUME NEW S, NEW w \in Seq(S), NEW e \in S
    PROVE  /\ Append(w, e) \in Seq(S)
           /\ Len(Append(w, e)) = Len(w) + 1
           /\ \A i \in 1..Len(w) : Append(w, e)[i] = w[i]
           /\ Append(w, e)[Len(w) + 1] = e
  OBVIOUS

LEMMA AppendTwoFacts ==
    ASSUME NEW S, NEW s \in Seq(S), NEW d \in S, NEW e \in S
    PROVE  /\ Append(Append(s, d), e) \in Seq(S)
           /\ Len(Append(Append(s, d), e)) = Len(s) + 2
           /\ \A i \in 1..Len(s) : Append(Append(s, d), e)[i] = s[i]
           /\ Append(Append(s, d), e)[Len(s) + 1] = d
           /\ Append(Append(s, d), e)[Len(s) + 2] = e
  <1> DEFINE r == Append(s, d)
  <1>1. /\ r \in Seq(S) /\ Len(r) = Len(s) + 1
        /\ \A i \in 1..Len(s) : r[i] = s[i]
        /\ r[Len(s) + 1] = d
    BY AppendFacts
  <1>2. Len(s) \in Nat BY LenProperties
  <1> HIDE DEF r
  <1> DEFINE t == Append(r, e)
  <1>3. /\ t \in Seq(S) /\ Len(t) = Len(r) + 1
        /\ \A i \in 1..Len(r) : t[i] = r[i]
        /\ t[Len(r) + 1] = e
    BY <1>1, AppendFacts
  <1> HIDE DEF t
  <1>4. /\ t \in Seq(S) /\ Len(t) = Len(s) + 2
        /\ \A i \in 1..Len(s) : t[i] = s[i]
        /\ t[Len(s) + 1] = d /\ t[Len(s) + 2] = e
    BY <1>1, <1>2, <1>3
  <1> QED BY <1>4 DEF t, r

\* What TxApply and TxFail make of the log: the old items, perhaps a segment
\* marker, then the new item.
LEMMA RotatedFacts ==
    ASSUME TypeOK, NEW rotate \in BOOLEAN, NEW item \in Items,
           NEW w \in {Append(Rotated(rotate), item)}
    PROVE  /\ w \in Seq(Items)
           /\ Len(w) = IF rotate THEN Len(wal) + 2 ELSE Len(wal) + 1
           /\ \A i \in 1..Len(wal) : w[i] = wal[i]
           /\ rotate => w[Len(wal) + 1] = NextSegment
           /\ w[Len(w)] = item
  <1>1. wal \in Seq(Items) BY DEF TypeOK
  <1>2. CASE rotate
    <2>1. Rotated(rotate) = Append(wal, NextSegment) BY <1>2 DEF Rotated
    <2>2. NextSegment \in Items BY ItemTypes
    <2>3. /\ w \in Seq(Items)
          /\ Len(w) = Len(wal) + 2
          /\ \A i \in 1..Len(wal) : w[i] = wal[i]
          /\ w[Len(wal) + 1] = NextSegment /\ w[Len(wal) + 2] = item
      BY <1>1, <2>1, <2>2, AppendTwoFacts, SMTT(30)
    <2> QED BY <1>2, <2>3
  <1>3. CASE ~rotate
    <2>1. Rotated(rotate) = wal BY <1>3 DEF Rotated
    <2> QED BY <1>1, <1>3, <2>1, AppendFacts
  <1> QED BY <1>2, <1>3

\* What a power loss leaves of the log.
LEMMA CutFacts ==
    ASSUME TypeOK, NEW n \in 0..Len(wal), NEW tear \in BOOLEAN,
           NEW w \in {IF tear THEN Append(SubSeq(wal, 1, n), Torn) ELSE SubSeq(wal, 1, n)}
    PROVE  /\ w \in Seq(Items)
           /\ Len(w) = IF tear THEN n + 1 ELSE n
           /\ \A i \in 1..n : w[i] = wal[i]
           /\ tear => w[n + 1] = Torn
  <1>1. wal \in Seq(Items) /\ Len(wal) \in Nat BY LenProperties DEF TypeOK
  <1>2. \A i \in 1..n : wal[i] \in Items BY <1>1, ElementOfSeq
  <1> DEFINE c == SubSeq(wal, 1, n)
  <1>3. c \in Seq(Items) /\ Len(c) = n /\ \A i \in 1..n : c[i] = wal[i]
    <2>1. 1 \in Int /\ n \in Int BY <1>1
    <2>2. /\ c \in Seq(Items)
          /\ Len(c) = IF 1 <= n THEN n - 1 + 1 ELSE 0
          /\ \A i \in 1..(n - 1 + 1) : c[i] = wal[1 + i - 1]
      BY <1>2, <2>1, SubSeqProperties
    <2> QED BY <2>2, <1>1
  <1> HIDE DEF c
  <1>4. w = IF tear THEN Append(c, Torn) ELSE c BY DEF c
  <1>5. CASE tear BY <1>3, <1>4, <1>5, ItemTypes, AppendFacts
  <1>6. CASE ~tear BY <1>3, <1>4, <1>6
  <1> QED BY <1>5, <1>6

LEMMA SubSeqFacts ==
    ASSUME NEW S, NEW s \in Seq(S), NEW m \in 1..(Len(s) + 1), NEW n \in 0..Len(s), m <= n + 1
    PROVE  /\ SubSeq(s, m, n) \in Seq(S)
           /\ Len(SubSeq(s, m, n)) = n - m + 1
           /\ \A i \in 1..(n - m + 1) : SubSeq(s, m, n)[i] = s[m + i - 1]
  <1>1. Len(s) \in Nat /\ \A i \in 1..Len(s) : s[i] \in S BY LenProperties, ElementOfSeq
  <1>2. m \in Int /\ n \in Int BY <1>1
  <1>3. \A i \in m..n : s[i] \in S BY <1>1
  <1>4. /\ SubSeq(s, m, n) \in Seq(S)
        /\ Len(SubSeq(s, m, n)) = IF m <= n THEN n - m + 1 ELSE 0
        /\ \A i \in 1..(n - m + 1) : SubSeq(s, m, n)[i] = s[m + i - 1]
    BY <1>2, <1>3, SubSeqProperties
  <1> QED BY <1>2, <1>4

\* What deleting items lo..hi makes of the log.
LEMMA RemoveFacts ==
    ASSUME TypeOK, NEW lo \in 1..Len(wal), NEW hi \in 1..Len(wal), lo <= hi
    PROVE  LET w == SubSeq(wal, 1, lo - 1) \o SubSeq(wal, hi + 1, Len(wal)) IN
           /\ w \in Seq(Items)
           /\ Len(w) = Len(wal) - (hi - lo + 1)
           /\ \A i \in 1..(lo - 1) : w[i] = wal[i]
           /\ \A i \in lo..Len(w) : w[i] = wal[i + (hi - lo + 1)]
  <1>1. wal \in Seq(Items) /\ Len(wal) \in Nat BY LenProperties DEF TypeOK
  <1> DEFINE a == SubSeq(wal, 1, lo - 1)
             b == SubSeq(wal, hi + 1, Len(wal))
             c == a \o b
  <1>2. /\ 1 \in 1..(Len(wal) + 1) /\ lo - 1 \in 0..Len(wal) /\ 1 <= (lo - 1) + 1
        /\ hi + 1 \in 1..(Len(wal) + 1) /\ Len(wal) \in 0..Len(wal) /\ hi + 1 <= Len(wal) + 1
    BY <1>1
  <1>3. /\ a \in Seq(Items) /\ Len(a) = (lo - 1) - 1 + 1
        /\ \A i \in 1..((lo - 1) - 1 + 1) : a[i] = wal[1 + i - 1]
    BY <1>1, <1>2, SubSeqFacts
  <1>4. /\ b \in Seq(Items) /\ Len(b) = Len(wal) - (hi + 1) + 1
        /\ \A i \in 1..(Len(wal) - (hi + 1) + 1) : b[i] = wal[(hi + 1) + i - 1]
    BY <1>1, <1>2, SubSeqFacts
  <1> HIDE DEF a, b
  <1>5. /\ c \in Seq(Items) /\ Len(c) = Len(a) + Len(b)
        /\ \A i \in 1..(Len(a) + Len(b)) : c[i] = IF i <= Len(a) THEN a[i] ELSE b[i - Len(a)]
    BY <1>3, <1>4, ConcatProperties
  <1> HIDE DEF c
  <1>6. Len(a) = lo - 1 /\ Len(b) = Len(wal) - hi /\ Len(c) = Len(wal) - (hi - lo + 1)
    BY <1>1, <1>3, <1>4, <1>5
  <1>7. ASSUME NEW i \in 1..(lo - 1) PROVE c[i] = wal[i]
    <2>1. i \in 1..(Len(a) + Len(b)) /\ i <= Len(a) /\ i \in 1..((lo - 1) - 1 + 1) /\ 1 + i - 1 = i
      BY <1>1, <1>6
    <2>2. c[i] = a[i] BY <1>5, <2>1
    <2> QED BY <1>3, <2>1, <2>2
  <1>8. ASSUME NEW i \in lo..Len(c) PROVE c[i] = wal[i + (hi - lo + 1)]
    <2>1. i \in 1..(Len(a) + Len(b)) /\ ~(i <= Len(a)) BY <1>1, <1>6
    <2>2. c[i] = b[i - Len(a)] BY <1>5, <2>1
    <2>3. i - Len(a) \in 1..(Len(wal) - (hi + 1) + 1) BY <1>1, <1>6
    <2>4. b[i - Len(a)] = wal[(hi + 1) + (i - Len(a)) - 1] BY <1>4, <2>3
    <2>5. (hi + 1) + (i - Len(a)) - 1 = i + (hi - lo + 1) BY <1>1, <1>6
    <2> QED BY <2>2, <2>4, <2>5
  <1> QED BY <1>5, <1>6, <1>7, <1>8 DEF a, b, c

(***************************************************************************)
(* Type correctness.                                                       *)
(***************************************************************************)
LEMMA EmptyMapType == EmptyMap \in Maps /\ [k \in Keys |-> {}] \in [Keys -> SUBSET Values]
  BY DEF EmptyMap, Maps, Values

LEMMA FileTypes ==
    /\ NoFile \in Files /\ BadFile \in Files
    /\ \A m \in Maps : GoodFile(m) \in Files /\ GoodFile(m).file = "good" /\ GoodFile(m).map = m
    /\ \A f \in Files : f.file = "good" => f.map \in Maps
    /\ NoFile.file = "none" /\ BadFile.file = "unreadable"
  BY DEF NoFile, BadFile, GoodFile, Files

LEMMA TypeInit == Init => TypeOK
  <1> SUFFICES ASSUME Init PROVE TypeOK OBVIOUS
  <1>1. trees \in Maps /\ acked \in Maps /\ maybe \in [Keys -> SUBSET Values]
    BY EmptyMapType DEF Init
  <1>2. snap \in Files /\ backup \in Files BY FileTypes DEF Init
  <1>3. restore \in [step : {"none", "truncated", "written", "removed"}, map : Maps]
    BY EmptyMapType DEF Init, NoRestore
  <1>4. wal \in Seq(Items) /\ synced \in 0..Len(wal) /\ replayed \in Nat
    BY DEF Init
  <1>5. /\ tx \in [active : BOOLEAN, muts : Seq(Mutations), done : Nat, notify : BOOLEAN]
        /\ tx.done <= Len(tx.muts)
    BY DEF Init, NoTx
  <1>6. watch \in [Watchers -> [on : BOOLEAN, queue : Seq(Nat), seen : Nat, lost : BOOLEAN]]
    BY DEF Init, Unsubscribed
  <1> QED BY <1>1, <1>2, <1>3, <1>4, <1>5, <1>6 DEF Init, TypeOK

\* The parts of the type invariant that most actions leave alone.
FilesType ==
    /\ snap \in Files
    /\ snapper \in [Snapshotters -> {"idle", "writing", "copying"}]
    /\ clash \in BOOLEAN
    /\ backup \in Files
WatchType ==
    /\ sequence \in Nat
    /\ watch \in [Watchers -> [on : BOOLEAN, queue : Seq(Nat), seen : Nat, lost : BOOLEAN]]
LogType ==
    /\ wal \in Seq(Items)
    /\ synced \in 0..Len(wal)
    /\ walOpen \in BOOLEAN
    /\ replayed \in Nat
TxType ==
    /\ tx \in [active : BOOLEAN, muts : Seq(Mutations), done : Nat, notify : BOOLEAN]
    /\ tx.done <= Len(tx.muts)
RestType ==
    /\ phase \in {"down", "replaying", "open", "closed", "failed"}
    /\ trees \in Maps
    /\ restore \in [step : {"none", "truncated", "written", "removed"}, map : Maps]
    /\ acked \in Maps
    /\ maybe \in [Keys -> SUBSET Values]
    /\ buried \in BOOLEAN /\ gapped \in BOOLEAN

LEMMA TypeParts == TypeOK <=> FilesType /\ WatchType /\ LogType /\ TxType /\ RestType
  BY DEF TypeOK, FilesType, WatchType, LogType, TxType, RestType

LEMMA NextMutationType ==
    ASSUME TypeOK, tx.done < Len(tx.muts)
    PROVE  NextMutation \in Mutations /\ NextMutation.key \in Keys /\ NextMutation.val \in Values
  <1>1. tx.muts \in Seq(Mutations) /\ tx.done \in Nat BY DEF TypeOK
  <1>2. Len(tx.muts) \in Nat BY <1>1, LenProperties
  <1>3. tx.done + 1 \in 1..Len(tx.muts) BY <1>1, <1>2
  <1>4. NextMutation \in Mutations BY <1>1, <1>3, ElementOfSeq DEF NextMutation
  <1> QED BY <1>4 DEF Mutations

LEMMA UnackedType ==
    ASSUME TypeOK, tx.done < Len(tx.muts)
    PROVE  WrittenUnacked \in [Keys -> SUBSET Values]
  BY NextMutationType DEF WrittenUnacked, TypeOK

LEMMA FilesStep == TypeOK /\ [Next]_vars => FilesType'
  <1> SUFFICES ASSUME TypeOK, [Next]_vars PROVE FilesType' OBVIOUS
  <1> USE DEF memVars, diskVars, fileVars, eventVars, ghostVars, damageVars
  <1>0. FilesType BY TypeParts
  <1>1. CASE UNCHANGED fileVars BY <1>0, <1>1 DEF FilesType
  <1>2. CASE ProcessEnds /\ UNCHANGED <<snap, backup>>
    BY <1>0, <1>2 DEF FilesType, ProcessEnds
  <1>3. ASSUME NEW s \in Snapshotters, SnapshotOpen(s) PROVE FilesType'
    BY <1>0, <1>3, FileTypes DEF FilesType, SnapshotOpen
  <1>4. ASSUME NEW s \in Snapshotters, SnapshotWritten(s) PROVE FilesType'
    <2>1. GoodFile(trees) \in Files BY FileTypes DEF TypeOK
    <2> QED BY <1>0, <1>4, <2>1, FileTypes DEF FilesType, SnapshotWritten
  <1>5. ASSUME NEW s \in Snapshotters, SnapshotFail(s) PROVE FilesType'
    BY <1>0, <1>5 DEF FilesType, SnapshotFail
  <1>6. ASSUME NEW s \in Snapshotters, BackupCopy(s) PROVE FilesType'
    BY <1>0, <1>6 DEF FilesType, BackupCopy
  <1>7. CASE RestoreBegin BY <1>0, <1>7, FileTypes DEF FilesType, RestoreBegin
  <1>8. CASE RestoreWritten
    <2>1. GoodFile(restore.map) \in Files BY FileTypes DEF TypeOK
    <2> QED BY <1>0, <1>8, <2>1 DEF FilesType, RestoreWritten
  <1> QED
    BY <1>1, <1>2, <1>3, <1>4, <1>5, <1>6, <1>7, <1>8
    DEF Next, vars, OpenEngine, ReplayItem, OpenDone, TxBegin, TxApply, TxFail, TxCommit,
        WatchTx, Unwatch, WatchReceive, RestoreRemoveSegment, RestoreRemovedWAL, RestoreDone,
        RestoreFail, Close, Exit, PowerLoss

LEMMA WatchStep == TypeOK /\ [Next]_vars => WatchType'
  <1> SUFFICES ASSUME TypeOK, [Next]_vars PROVE WatchType' OBVIOUS
  <1> USE DEF memVars, diskVars, fileVars, eventVars, ghostVars, damageVars
  <1> DEFINE Sub == [on : BOOLEAN, queue : Seq(Nat), seen : Nat, lost : BOOLEAN]
  <1>0. sequence \in Nat /\ watch \in [Watchers -> Sub] BY DEF TypeOK
  <1>a. Unsubscribed \in Sub BY DEF Unsubscribed
  <1>1. CASE UNCHANGED eventVars BY <1>0, <1>1 DEF WatchType
  <1>2. CASE ProcessEnds BY <1>2, <1>a DEF WatchType, ProcessEnds
  <1>3. CASE Close BY <1>0, <1>a, <1>3 DEF WatchType, Close
  <1>4. CASE TxCommit
    <2>1. CASE tx.notify
      <3>1. ASSUME NEW w \in Watchers PROVE Notify(sequence + 1)[w] \in Sub
        <4>1. watch[w] \in Sub BY <1>0
        <4>2. Append(watch[w].queue, sequence + 1) \in Seq(Nat) BY <1>0, <4>1, AppendFacts
        <4> QED BY <4>1, <4>2 DEF Notify
      <3>2. Notify(sequence + 1) \in [Watchers -> Sub] BY <3>1 DEF Notify
      <3> QED BY <1>0, <1>4, <2>1, <3>2 DEF WatchType, TxCommit
    <2>2. CASE ~tx.notify BY <1>0, <1>4, <2>2 DEF WatchType, TxCommit
    <2> QED BY <2>1, <2>2
  <1>5. ASSUME NEW w \in Watchers, WatchTx(w) PROVE WatchType'
    <2>1. [on |-> TRUE, queue |-> <<>>, seen |-> sequence, lost |-> FALSE] \in Sub BY <1>0
    <2> QED BY <1>0, <1>5, <2>1 DEF WatchType, WatchTx
  <1>6. ASSUME NEW w \in Watchers, Unwatch(w) PROVE WatchType'
    BY <1>0, <1>a, <1>6 DEF WatchType, Unwatch
  <1>7. ASSUME NEW w \in Watchers, WatchReceive(w) PROVE WatchType'
    <2>1. watch[w] \in Sub BY <1>0
    <2>2. watch[w].queue \in Seq(Nat) /\ watch[w].queue # <<>> BY <2>1, <1>7 DEF WatchReceive
    <2>3. Tail(watch[w].queue) \in Seq(Nat) /\ Head(watch[w].queue) \in Nat
      BY <2>2, HeadTailProperties
    <2> QED BY <1>0, <1>7, <2>1, <2>3 DEF WatchType, WatchReceive
  <1> QED
    BY <1>1, <1>2, <1>3, <1>4, <1>5, <1>6, <1>7
    DEF Next, vars, OpenEngine, ReplayItem, OpenDone, TxBegin, TxApply, TxFail,
        SnapshotOpen, SnapshotWritten, SnapshotFail, BackupCopy, RestoreBegin, RestoreWritten,
        RestoreRemoveSegment, RestoreRemovedWAL, RestoreDone, RestoreFail, Exit, PowerLoss

LEMMA LogStep == TypeOK /\ [Next]_vars => LogType'
  <1> SUFFICES ASSUME TypeOK, [Next]_vars PROVE LogType' OBVIOUS
  <1> USE DEF memVars, diskVars, fileVars, eventVars, ghostVars, damageVars
  <1>0. /\ wal \in Seq(Items) /\ Len(wal) \in Nat /\ synced \in 0..Len(wal)
        /\ walOpen \in BOOLEAN /\ replayed \in Nat
    BY LenProperties DEF TypeOK
  <1>1. CASE UNCHANGED <<wal, synced>> /\ replayed' \in Nat /\ walOpen' \in BOOLEAN
    BY <1>0, <1>1 DEF LogType
  <1>2. CASE OpenEngine
    <2>1. UNCHANGED <<wal, synced>> BY <1>2 DEF OpenEngine
    <2>2. replayed' \in Nat /\ walOpen' \in BOOLEAN
      <3>1. CASE snap.file = "unreadable" BY <1>0, <1>2, <3>1 DEF OpenEngine
      <3>2. CASE snap.file # "unreadable" BY <1>2, <3>2 DEF OpenEngine
      <3> QED BY <3>1, <3>2
    <2> QED BY <1>1, <2>1, <2>2
  <1>3. CASE ReplayItem
    <2>1. replayed' \in Nat /\ UNCHANGED diskVars
      BY <1>0, <1>3 DEF ReplayItem, SegmentEnds
    <2> QED BY <1>0, <2>1 DEF LogType
  <1>4. ASSUME NEW rotate \in BOOLEAN, TxApply(rotate) PROVE LogType'
    <2>1. Entry(NextMutation) \in Items
      BY <1>4, NextMutationType, ItemTypes DEF TxApply
    <2>2. wal' \in Seq(Items) /\ Len(wal') \in Nat /\ Len(wal') >= Len(wal)
      BY <1>0, <1>4, <2>1, RotatedFacts DEF TxApply
    <2> QED BY <1>0, <1>4, <2>2 DEF LogType, TxApply
  <1>5. CASE TxFail
    <2>1. Entry(NextMutation) \in Items
      BY <1>5, NextMutationType, ItemTypes DEF TxFail
    <2>2. CASE UNCHANGED wal BY <1>0, <1>5, <2>2 DEF LogType, TxFail
    <2>3. ASSUME NEW rotate \in BOOLEAN, NEW item \in {Torn, Entry(NextMutation)},
                 wal' = Append(Rotated(rotate), item), UNCHANGED walOpen
          PROVE  LogType'
      <3>1. item \in Items BY <2>1, ItemTypes
      <3>2. wal' \in Seq(Items) /\ Len(wal') \in Nat /\ Len(wal') >= Len(wal)
        BY <1>0, <2>3, <3>1, RotatedFacts
      <3> QED BY <1>0, <1>5, <2>3, <3>2 DEF LogType, TxFail
    <2> QED BY <1>5, <2>2, <2>3 DEF TxFail
  <1>6. ASSUME NEW lo \in 1..Len(wal), NEW hi \in 1..Len(wal), RestoreRemoveSegment(lo, hi)
        PROVE LogType'
    <2>1. lo <= hi /\ UNCHANGED replayed /\ walOpen' = FALSE BY <1>6 DEF RestoreRemoveSegment
    <2>2. wal' \in Seq(Items) /\ Len(wal') = Len(wal) - (hi - lo + 1)
      BY <1>6, <2>1, RemoveFacts DEF RestoreRemoveSegment
    <2>3. synced' \in 0..Len(wal')
      <3>1. synced' = IF synced < lo THEN synced
                      ELSE IF synced > hi THEN synced - (hi - lo + 1) ELSE lo - 1
        BY <1>6 DEF RestoreRemoveSegment
      <3> QED BY <1>0, <2>1, <2>2, <3>1
    <2> QED BY <1>0, <1>6, <2>1, <2>2, <2>3 DEF LogType
  <1>7. CASE PowerLoss
    <2>1. PICK n \in synced..Len(wal), tear \in BOOLEAN :
            wal' = IF tear THEN Append(SubSeq(wal, 1, n), Torn) ELSE SubSeq(wal, 1, n)
      BY <1>7 DEF PowerLoss
    <2>2. n \in 0..Len(wal) BY <1>0
    <2>3. wal' \in Seq(Items) /\ Len(wal') \in Nat BY <1>0, <2>1, <2>2, CutFacts
    <2>4. synced' = Len(wal') /\ replayed' = 0 /\ walOpen' = FALSE
      BY <1>7 DEF PowerLoss, ProcessEnds
    <2>5. synced' \in 0..Len(wal') BY <2>3, <2>4
    <2>6. replayed' \in Nat /\ walOpen' \in BOOLEAN BY <2>4
    <2> QED BY <2>3, <2>5, <2>6 DEF LogType
  <1>8. CASE OpenDone BY <1>0, <1>1, <1>8 DEF OpenDone
  <1>9. CASE RestoreRemovedWAL \/ RestoreDone \/ RestoreFail \/ Close
    BY <1>0, <1>1, <1>9 DEF RestoreRemovedWAL, RestoreDone, RestoreFail, Close
  <1>10. CASE Exit BY <1>1, <1>10 DEF Exit, ProcessEnds
  <1>11. CASE UNCHANGED <<diskVars, replayed>> BY <1>0, <1>1, <1>11
  <1> QED
    BY <1>2, <1>3, <1>4, <1>5, <1>6, <1>7, <1>8, <1>9, <1>10, <1>11
    DEF Next, vars, TxBegin, TxCommit, WatchTx, Unwatch, WatchReceive,
        SnapshotOpen, SnapshotWritten, SnapshotFail, BackupCopy, RestoreBegin, RestoreWritten

LEMMA TxStep == TypeOK /\ [Next]_vars => TxType'
  <1> SUFFICES ASSUME TypeOK, [Next]_vars PROVE TxType' OBVIOUS
  <1> USE DEF memVars, diskVars, fileVars, eventVars, ghostVars, damageVars
  <1>0. TxType /\ tx.muts \in Seq(Mutations) /\ tx.done \in Nat /\ Len(tx.muts) \in Nat
    BY TypeParts, LenProperties DEF TxType
  <1>1. CASE UNCHANGED tx BY <1>0, <1>1 DEF TxType
  <1>2. CASE tx' = NoTx BY <1>2 DEF TxType, NoTx
  <1>3. ASSUME NEW muts \in TxMutations, NEW notify \in BOOLEAN, TxBegin(muts, notify)
        PROVE  TxType'
    <2>1. PICK n \in 1..MaxTxLen : muts \in [1..n -> Mutations] BY <1>3 DEF TxMutations
    <2>2. n \in Nat BY BoundsAssumption
    <2>3. muts \in Seq(Mutations) /\ Len(muts) \in Nat BY <2>1, <2>2
    <2> QED BY <1>3, <2>3 DEF TxType, TxBegin
  <1>4. ASSUME NEW rotate \in BOOLEAN, TxApply(rotate) PROVE TxType'
    BY <1>0, <1>4, SMTT(30) DEF TxType, TxApply
  <1> QED
    BY <1>1, <1>2, <1>3, <1>4
    DEF Next, vars, OpenEngine, ReplayItem, OpenDone, TxFail, TxCommit, WatchTx, Unwatch,
        WatchReceive, SnapshotOpen, SnapshotWritten, SnapshotFail, BackupCopy, RestoreBegin,
        RestoreWritten, RestoreRemoveSegment, RestoreRemovedWAL, RestoreDone, RestoreFail,
        Close, Exit, PowerLoss, ProcessEnds

LEMMA RestStep == TypeOK /\ [Next]_vars => RestType'
  <1> SUFFICES ASSUME TypeOK, [Next]_vars PROVE RestType' OBVIOUS
  <1> USE DEF memVars, diskVars, fileVars, eventVars, ghostVars, damageVars
  <1>0. RestType BY TypeParts
  <1>a. trees \in Maps /\ acked \in Maps /\ maybe \in [Keys -> SUBSET Values] BY <1>0 DEF RestType
  <1>b. NoRestore \in [step : {"none", "truncated", "written", "removed"}, map : Maps]
    BY EmptyMapType DEF NoRestore
  <1>1. CASE UNCHANGED <<phase, trees, restore, acked, maybe, buried, gapped>>
    BY <1>0, <1>1 DEF RestType
  <1>2. CASE OpenEngine
    <2>1. Base \in Maps BY EmptyMapType, FileTypes DEF Base, TypeOK
    <2> QED BY <1>0, <1>2, <2>1 DEF RestType, OpenEngine
  <1>3. CASE ReplayItem
    <2>1. replayed \in Nat /\ Len(wal) \in Nat /\ wal \in Seq(Items)
      BY <1>3, LenProperties DEF TypeOK
    <2>2. wal[replayed + 1] \in Items
      <3>1. replayed + 1 \in 1..Len(wal) BY <1>3, <2>1 DEF ReplayItem
      <3> QED BY <2>1, <3>1, ElementOfSeq
    <2>3. CASE wal[replayed + 1].kind = "entry"
      <3>1. wal[replayed + 1].key \in Keys /\ wal[replayed + 1].val \in Values
        BY <2>2, <2>3, ItemTypes DEF Items
      <3>2. [trees EXCEPT ![wal[replayed + 1].key] = wal[replayed + 1].val] \in Maps
        BY <1>a, <3>1 DEF Maps
      <3> QED BY <1>0, <1>3, <3>2 DEF RestType, ReplayItem
    <2>4. CASE wal[replayed + 1].kind # "entry"
      BY <1>0, <1>3, <2>4 DEF RestType, ReplayItem
    <2> QED BY <2>3, <2>4
  <1>4. CASE OpenDone BY <1>0, <1>4 DEF RestType, OpenDone
  <1>5. ASSUME NEW rotate \in BOOLEAN, TxApply(rotate) PROVE RestType'
    <2>1. NextMutation.key \in Keys /\ NextMutation.val \in Values
          /\ WrittenUnacked \in [Keys -> SUBSET Values]
      BY <1>5, NextMutationType, UnackedType DEF TxApply
    <2>2. [trees EXCEPT ![NextMutation.key] = NextMutation.val] \in Maps
      BY <1>a, <2>1 DEF Maps
    <2>3. buried' \in BOOLEAN BY <1>5 DEF TxApply
    <2> QED BY <1>0, <1>5, <2>1, <2>2, <2>3 DEF RestType, TxApply
  <1>6. CASE TxFail
    <2>1. WrittenUnacked \in [Keys -> SUBSET Values] BY <1>6, UnackedType DEF TxFail
    <2>2. maybe' \in [Keys -> SUBSET Values] /\ buried' \in BOOLEAN
      BY <1>0, <1>6, <2>1 DEF RestType, TxFail
    <2> QED BY <1>0, <1>6, <2>2 DEF RestType, TxFail
  <1>7. CASE TxCommit
    <2>1. acked' \in Maps /\ maybe' \in [Keys -> SUBSET Values]
      BY <1>a, <1>7 DEF TxCommit, Maps
    <2> QED BY <1>0, <1>7, <2>1 DEF RestType, TxCommit
  <1>8. CASE RestoreBegin
    <2>1. backup.map \in Maps BY <1>8, FileTypes DEF RestoreBegin, TypeOK
    <2>2. maybe' \in [Keys -> SUBSET Values] BY <1>a, <1>8, <2>1 DEF RestoreBegin, Maps
    <2> QED BY <1>0, <1>8, <2>1, <2>2 DEF RestType, RestoreBegin
  <1>9. CASE RestoreWritten BY <1>0, <1>9 DEF RestType, RestoreWritten
  <1>10. ASSUME NEW lo \in 1..Len(wal), NEW hi \in 1..Len(wal), RestoreRemoveSegment(lo, hi)
         PROVE RestType'
    BY <1>0, <1>10 DEF RestType, RestoreRemoveSegment
  <1>11. CASE RestoreRemovedWAL BY <1>0, <1>11 DEF RestType, RestoreRemovedWAL
  <1>12. CASE RestoreDone
    <2>1. restore.map \in Maps BY <1>0 DEF RestType
    <2> QED BY <1>0, <1>b, <1>12, <2>1, EmptyMapType DEF RestType, RestoreDone
  <1>13. CASE RestoreFail BY <1>0, <1>b, <1>13 DEF RestType, RestoreFail
  <1>14. CASE Close BY <1>0, <1>14 DEF RestType, Close
  <1>15. CASE Exit BY <1>0, <1>b, <1>15, EmptyMapType DEF RestType, Exit, ProcessEnds
  <1>16. CASE PowerLoss
    <2>1. buried' \in BOOLEAN BY <1>16 DEF PowerLoss
    <2> QED BY <1>0, <1>b, <1>16, <2>1, EmptyMapType DEF RestType, PowerLoss, ProcessEnds
  <1> QED
    BY <1>1, <1>2, <1>3, <1>4, <1>5, <1>6, <1>7, <1>8, <1>9, <1>10, <1>11, <1>12, <1>13,
       <1>14, <1>15, <1>16
    DEF Next, vars, TxBegin, WatchTx, Unwatch, WatchReceive, SnapshotOpen, SnapshotWritten,
        SnapshotFail, BackupCopy

LEMMA TypeStep == TypeOK /\ [Next]_vars => TypeOK'
  <1> SUFFICES ASSUME TypeOK, [Next]_vars PROVE TypeOK' OBVIOUS
  <1>1. FilesType' /\ WatchType' /\ LogType' /\ TxType' /\ RestType'
    BY FilesStep, WatchStep, LogStep, TxStep, RestStep
  <1> QED BY <1>1 DEF TypeOK, FilesType, WatchType, LogType, TxType, RestType

(***************************************************************************)
(* Which item is the last for a key, before and after an append.           *)
(***************************************************************************)
Grown(w, item) ==
    /\ w \in Seq(Items)
    /\ Len(w) = Len(wal) + 1 \/ (Len(w) = Len(wal) + 2 /\ w[Len(wal) + 1] = NextSegment)
    /\ \A i \in 1..Len(wal) : w[i] = wal[i]
    /\ w[Len(w)] = item

LEMMA GrownByAppend ==
    ASSUME TypeOK, NEW rotate \in BOOLEAN, NEW item \in Items,
           NEW w \in {Append(Rotated(rotate), item)}
    PROVE  Grown(w, item)
  BY RotatedFacts, SMTT(30) DEF Grown

LEMMA LastInGrown ==
    ASSUME TypeOK, NEW w, NEW item, Grown(w, item), NEW k,
           NEW n \in 0..Len(w), NEW i \in 1..n, LastFor(w, i, n, k)
    PROVE  \/ i = Len(w) /\ EntryFor(w, i, k)
           \/ /\ i <= Len(wal) /\ w[i] = wal[i]
              /\ LastFor(wal, i, IF n <= Len(wal) THEN n ELSE Len(wal), k)
  <1>1. Len(wal) \in Nat /\ Len(w) \in Nat BY LenProperties DEF TypeOK, Grown
  <1>2. CASE i <= Len(wal)
    <2>1. i \in 1..Len(wal) BY <1>1, <1>2
    <2> DEFINE m == IF n <= Len(wal) THEN n ELSE Len(wal)
    <2>2. m \in Int /\ m <= n /\ m <= Len(wal) /\ i <= m BY <1>1, <1>2
    <2>3. EntryFor(wal, i, k) BY <2>1 DEF LastFor, EntryFor, Grown
    <2>4. ASSUME NEW j \in (i + 1)..m PROVE ~EntryFor(wal, j, k)
      <3>1. j \in 1..Len(wal) /\ j \in (i + 1)..n BY <1>1, <2>1, <2>2
      <3> QED BY <3>1 DEF LastFor, EntryFor, Grown
    <2>5. LastFor(wal, i, m, k) BY <2>1, <2>2, <2>3, <2>4 DEF LastFor
    <2> QED BY <2>1, <2>5, <1>2 DEF Grown
  <1>3. CASE i > Len(wal)
    <2>1. EntryFor(w, i, k) BY DEF LastFor
    <2>2. i # Len(w) => i = Len(wal) + 1 /\ w[i] = NextSegment BY <1>1, <1>3 DEF Grown
    <2>3. i = Len(w) BY <2>1, <2>2, ItemTypes DEF EntryFor
    <2> QED BY <2>1, <2>3
  <1> QED BY <1>1, <1>2, <1>3

LEMMA NoneInGrown ==
    ASSUME TypeOK, NEW w, NEW item, Grown(w, item), NEW k,
           NEW n \in 0..Len(w), NoneFor(w, n, k)
    PROVE  NoneFor(wal, IF n <= Len(wal) THEN n ELSE Len(wal), k)
  <1>1. Len(wal) \in Nat /\ Len(w) \in Nat BY LenProperties DEF TypeOK, Grown
  <1> DEFINE m == IF n <= Len(wal) THEN n ELSE Len(wal)
  <1>2. ASSUME NEW j \in 1..m PROVE ~EntryFor(wal, j, k)
    <2>1. j \in 1..Len(wal) /\ j \in 1..n BY <1>1
    <2> QED BY <2>1 DEF NoneFor, EntryFor, Grown
  <1> QED BY <1>2 DEF NoneFor

LEMMA LastKept ==
    ASSUME TypeOK, NEW w, NEW item, Grown(w, item), NEW k, NEW i \in 1..Len(wal),
           LastFor(wal, i, Len(wal), k), ~EntryFor(w, Len(w), k)
    PROVE  i \in 1..Len(w) /\ w[i] = wal[i] /\ LastFor(w, i, Len(w), k)
  <1>1. Len(wal) \in Nat /\ Len(w) \in Nat BY LenProperties DEF TypeOK, Grown
  <1>2. i \in 1..Len(w) /\ w[i] = wal[i] BY <1>1 DEF Grown
  <1>3. EntryFor(w, i, k) BY <1>2 DEF LastFor, EntryFor
  <1>4. ASSUME NEW j \in (i + 1)..Len(w) PROVE ~EntryFor(w, j, k)
    <2>1. CASE j <= Len(wal)
      <3>1. j \in 1..Len(wal) /\ j \in (i + 1)..Len(wal) BY <1>1, <2>1
      <3> QED BY <3>1 DEF LastFor, EntryFor, Grown
    <2>2. CASE j = Len(w) BY <2>2
    <2>3. CASE j > Len(wal) /\ j # Len(w)
      <3>1. j = Len(wal) + 1 /\ w[j] = NextSegment BY <1>1, <2>3 DEF Grown
      <3> QED BY <3>1, ItemTypes DEF EntryFor
    <2> QED BY <1>1, <2>1, <2>2, <2>3
  <1> QED BY <1>2, <1>3, <1>4 DEF LastFor

LEMMA LastIsNew ==
    ASSUME TypeOK, NEW w, NEW item, Grown(w, item), NEW k, EntryFor(w, Len(w), k)
    PROVE  Len(w) \in 1..Len(w) /\ LastFor(w, Len(w), Len(w), k)
  <1>1. Len(wal) \in Nat /\ Len(w) \in Nat /\ Len(w) >= 1 BY LenProperties DEF TypeOK, Grown
  <1> QED BY <1>1 DEF LastFor

LEMMA LastUnique ==
    ASSUME NEW w, NEW n \in Nat, NEW k, NEW i, NEW j, LastFor(w, i, n, k), LastFor(w, j, n, k)
    PROVE  i = j
  <1>1. i \in 1..n /\ j \in 1..n BY DEF LastFor
  <1>2. i < j => FALSE
    <2>1. i < j => j \in (i + 1)..n BY <1>1
    <2> QED BY <2>1 DEF LastFor
  <1>3. j < i => FALSE
    <2>1. j < i => i \in (j + 1)..n BY <1>1
    <2> QED BY <2>1 DEF LastFor
  <1> QED BY <1>1, <1>2, <1>3

(***************************************************************************)
(* Every step preserves the inductive invariant, conjunct by conjunct.     *)
(***************************************************************************)
LEMMA AllowedGrows ==
    ASSUME TypeOK, tx.done < Len(tx.muts), maybe' = WrittenUnacked, acked' = acked
    PROVE  /\ \A k \in Keys : Allowed(k) \subseteq Allowed(k)'
           /\ \A k \in Keys : k = NextMutation.key => NextMutation.val \in Allowed(k)'
  <1>1. maybe \in [Keys -> SUBSET Values] BY DEF TypeOK
  <1>2. NextMutation.key \in Keys BY NextMutationType
  <1>3. ASSUME NEW k \in Keys
        PROVE  /\ maybe[k] \subseteq maybe'[k]
               /\ k = NextMutation.key => NextMutation.val \in maybe'[k]
    BY <1>1, <1>2 DEF WrittenUnacked
  <1> QED BY <1>3 DEF Allowed

\* An append, acknowledged or not, keeps LogOK.
LEMMA LogOKGrown ==
    ASSUME IInv, Sound, tx.done < Len(tx.muts), NEW item \in {Torn, Entry(NextMutation)},
           Grown(wal', item), synced' \in synced..Len(wal'),
           maybe' = WrittenUnacked, acked' = acked,
           NEW k \in Keys, NEW n \in synced'..Len(wal'), NEW i \in 1..n, LastFor(wal', i, n, k)
    PROVE  wal'[i].val \in Allowed(k)'
  <1>0. TypeOK BY DEF IInv
  <1>1. Len(wal) \in Nat /\ Len(wal') \in Nat /\ synced \in 0..Len(wal)
    BY <1>0, LenProperties DEF TypeOK, Grown
  <1>2. n \in 0..Len(wal') BY <1>1
  <1>3. CASE i = Len(wal') /\ EntryFor(wal', i, k)
    <2>1. wal'[i] = item BY <1>3 DEF Grown
    <2>2. item = Entry(NextMutation) BY <1>3, <2>1, ItemTypes DEF EntryFor
    <2>3. wal'[i].val = NextMutation.val /\ NextMutation.key = k
      BY <1>0, <1>3, <2>1, <2>2, NextMutationType, ItemTypes DEF EntryFor
    <2> QED BY <1>0, <2>3, AllowedGrows
  <1>4. CASE /\ i <= Len(wal) /\ wal'[i] = wal[i]
             /\ LastFor(wal, i, IF n <= Len(wal) THEN n ELSE Len(wal), k)
    <2> DEFINE m == IF n <= Len(wal) THEN n ELSE Len(wal)
    <2>1. m \in synced..Len(wal) /\ i \in 1..m BY <1>1, <1>4
    <2>2. wal[i].val \in Allowed(k) BY <1>4, <2>1 DEF IInv, LogOK
    <2> QED BY <1>0, <1>4, <2>2, AllowedGrows
  <1>5. \/ i = Len(wal') /\ EntryFor(wal', i, k)
        \/ /\ i <= Len(wal) /\ wal'[i] = wal[i]
           /\ LastFor(wal, i, IF n <= Len(wal) THEN n ELSE Len(wal), k)
    BY <1>0, <1>2, LastInGrown
  <1> QED BY <1>3, <1>4, <1>5

\* ... and SnapOK.
LEMMA SnapOKGrown ==
    ASSUME IInv, Sound, tx.done < Len(tx.muts), NEW item \in {Torn, Entry(NextMutation)},
           Grown(wal', item), synced' \in synced..Len(wal'), UNCHANGED snap,
           maybe' = WrittenUnacked, acked' = acked, snap.file # "unreadable",
           NEW k \in Keys, NEW n \in synced'..Len(wal'), NoneFor(wal', n, k)
    PROVE  Base'[k] \in Allowed(k)'
  <1>0. TypeOK BY DEF IInv
  <1>1. Len(wal) \in Nat /\ Len(wal') \in Nat /\ synced \in 0..Len(wal)
    BY <1>0, LenProperties DEF TypeOK, Grown
  <1>2. n \in 0..Len(wal') BY <1>1
  <1> DEFINE m == IF n <= Len(wal) THEN n ELSE Len(wal)
  <1>3. NoneFor(wal, m, k) BY <1>0, <1>2, NoneInGrown
  <1>4. m \in synced..Len(wal) BY <1>1
  <1>5. Base[k] \in Allowed(k) BY <1>3, <1>4 DEF IInv, SnapOK
  <1>6. Base' = Base BY DEF Base
  <1> QED BY <1>0, <1>5, <1>6, AllowedGrows

LEMMA SyncedOnApply ==
    ASSUME TypeOK, NEW rotate \in BOOLEAN, TxApply(rotate)
    PROVE  /\ Grown(wal', Entry(NextMutation))
           /\ synced' = Len(wal') /\ synced' \in synced..Len(wal') /\ Len(wal') \in Nat
  <1>1. Entry(NextMutation) \in Items BY NextMutationType, ItemTypes DEF TxApply
  <1>2. Grown(wal', Entry(NextMutation)) BY <1>1, GrownByAppend DEF TxApply
  <1>3. Len(wal) \in Nat /\ Len(wal') \in Nat /\ Len(wal) <= Len(wal') /\ synced \in 0..Len(wal)
    BY <1>2, LenProperties DEF TypeOK, Grown
  <1>4. synced' = Len(wal') BY DEF TxApply
  <1> QED BY <1>2, <1>3, <1>4

\* A failed append leaves the log alone or adds one item nobody was promised.
LEMMA FailCases ==
    ASSUME TypeOK, TxFail
    PROVE  /\ UNCHANGED <<synced, acked, snap, trees, phase, gapped>> /\ tx' = NoTx
           /\ \/ UNCHANGED <<wal, maybe, buried>>
              \/ \E item \in {Torn, Entry(NextMutation)} :
                    /\ Grown(wal', item) /\ maybe' = WrittenUnacked
                    /\ synced' \in synced..Len(wal') /\ (~buried' => ~buried)
  <1>1. Entry(NextMutation) \in Items BY NextMutationType, ItemTypes DEF TxFail
  <1>2. UNCHANGED <<synced, acked, snap, trees, phase, gapped>> /\ tx' = NoTx
    BY DEF TxFail, fileVars
  <1>3. ASSUME NEW rotate \in BOOLEAN, NEW item \in {Torn, Entry(NextMutation)},
               wal' = Append(Rotated(rotate), item), maybe' = WrittenUnacked,
               buried' = (buried \/ Buries(rotate))
        PROVE  /\ Grown(wal', item) /\ maybe' = WrittenUnacked
               /\ synced' \in synced..Len(wal') /\ (~buried' => ~buried)
    <2>1. item \in Items BY <1>1, ItemTypes
    <2>2. Grown(wal', item) BY <1>3, <2>1, GrownByAppend
    <2>3. Len(wal) \in Nat /\ Len(wal') \in Nat /\ Len(wal) <= Len(wal') /\ synced \in 0..Len(wal)
      BY <2>2, LenProperties DEF TypeOK, Grown
    <2>4. synced' \in synced..Len(wal') BY <1>2, <2>3
    <2>5. ~buried' => ~buried BY <1>3
    <2> QED BY <1>3, <2>2, <2>4, <2>5
  <1>4. \/ UNCHANGED <<wal, maybe, buried>>
        \/ \E rotate \in BOOLEAN, item \in {Torn, Entry(NextMutation)} :
              /\ wal' = Append(Rotated(rotate), item) /\ maybe' = WrittenUnacked
              /\ buried' = (buried \/ Buries(rotate))
    BY DEF TxFail
  <1> QED BY <1>2, <1>3, <1>4

\* A commit: the keys it wrote have their value as the last item of a synced log.
LEMMA CommitFacts ==
    ASSUME IInv, TxCommit, NEW k \in Keys
    PROVE  \/ Allowed(k)' = Allowed(k)
           \/ /\ Allowed(k)' = {trees[k]} /\ synced = Len(wal)
              /\ \E i \in 1..Len(wal) : LastFor(wal, i, Len(wal), k) /\ trees[k] = wal[i].val
  <1>1. CASE k \notin TxKeys
    <2>1. acked'[k] = acked[k] /\ maybe'[k] = maybe[k] BY <1>1 DEF TxCommit
    <2> QED BY <2>1 DEF Allowed
  <1>2. CASE k \in TxKeys
    <2>1. acked'[k] = trees[k] /\ maybe'[k] = {} BY <1>2 DEF TxCommit
    <2>2. PICK d \in 1..Len(tx.muts) : k = tx.muts[d].key BY <1>2 DEF TxKeys
    <2>3. d \in 1..tx.done /\ tx.done > 0
      <3>1. tx.done = Len(tx.muts) /\ tx.done \in Nat BY DEF TxCommit, IInv, TypeOK
      <3> QED BY <3>1
    <2>4. synced = Len(wal)
          /\ \E i \in 1..Len(wal) : LastFor(wal, i, Len(wal), k) /\ trees[k] = wal[i].val
      BY <2>2, <2>3 DEF TxCommit, IInv, TxOK
    <2> QED BY <2>1, <2>4 DEF Allowed
  <1> QED BY <1>1, <1>2

\* The items that a removal in order (lo = 1) leaves, by their old positions.
LEMMA RemovedFirst ==
    ASSUME TypeOK, NEW lo \in 1..Len(wal), NEW hi \in 1..Len(wal),
           RestoreRemoveSegment(lo, hi), lo = 1
    PROVE  /\ Len(wal') = Len(wal) - hi /\ Len(wal') \in Nat
           /\ \A i \in 1..Len(wal') : wal'[i] = wal[i + hi]
           /\ \A n \in synced'..Len(wal') : n + hi \in synced..Len(wal) /\ n \in Nat
  <1>1. Len(wal) \in Nat /\ synced \in 0..Len(wal) BY LenProperties DEF TypeOK
  <1>2. lo <= hi BY DEF RestoreRemoveSegment
  <1>3. /\ Len(wal') = Len(wal) - (hi - lo + 1)
        /\ \A i \in lo..Len(wal') : wal'[i] = wal[i + (hi - lo + 1)]
    BY <1>2, RemoveFacts DEF RestoreRemoveSegment
  <1>4. hi - lo + 1 = hi BY <1>1
  <1>5. synced' = IF synced < lo THEN synced
                  ELSE IF synced > hi THEN synced - (hi - lo + 1) ELSE lo - 1
    BY DEF RestoreRemoveSegment
  <1> QED BY <1>1, <1>2, <1>3, <1>4, <1>5

LEMMA LogOKStep == IInv /\ [Next]_vars => LogOK'
  <1> SUFFICES ASSUME IInv, [Next]_vars, Sound',
                      NEW k \in Keys, NEW n \in synced'..Len(wal'), NEW i \in 1..n,
                      LastFor(wal', i, n, k)
               PROVE  wal'[i].val \in Allowed(k)'
    BY DEF LogOK, LastFor, EntryFor
  <1> USE DEF memVars, diskVars, fileVars, eventVars, ghostVars, damageVars
  <1>0. TypeOK /\ Len(wal) \in Nat /\ synced \in 0..Len(wal) BY LenProperties DEF IInv, TypeOK
  <1>1. CASE UNCHANGED <<wal, synced, acked, maybe, buried, gapped>>
    BY <1>1 DEF IInv, LogOK, Sound, Allowed
  <1>2. ASSUME NEW rotate \in BOOLEAN, TxApply(rotate) PROVE wal'[i].val \in Allowed(k)'
    <2>1. Sound /\ tx.done < Len(tx.muts) /\ maybe' = WrittenUnacked /\ acked' = acked
      BY <1>2 DEF TxApply, Sound
    <2>2. Grown(wal', Entry(NextMutation)) /\ synced' \in synced..Len(wal')
      BY <1>0, <1>2, SyncedOnApply
    <2> QED BY <2>1, <2>2, LogOKGrown
  <1>3. CASE TxFail
    <2>1. tx.done < Len(tx.muts) BY <1>3 DEF TxFail
    <2>2. CASE UNCHANGED <<wal, maybe, buried>> BY <1>0, <1>1, <1>3, <2>2, FailCases
    <2>3. ASSUME NEW item \in {Torn, Entry(NextMutation)}, Grown(wal', item),
                 maybe' = WrittenUnacked, synced' \in synced..Len(wal'), ~buried' => ~buried
          PROVE  wal'[i].val \in Allowed(k)'
      <3>1. Sound /\ acked' = acked BY <1>0, <1>3, <2>3, FailCases DEF Sound
      <3> QED BY <2>1, <2>3, <3>1, LogOKGrown
    <2> QED BY <1>0, <1>3, <2>2, <2>3, FailCases
  <1>4. CASE TxCommit
    <2>1. UNCHANGED <<wal, synced, buried, gapped>> BY <1>4 DEF TxCommit
    <2>2. LastFor(wal, i, n, k) /\ wal[i].val \in Allowed(k) /\ n \in synced..Len(wal)
      BY <2>1 DEF IInv, LogOK, Sound
    <2>3. CASE Allowed(k)' = Allowed(k) BY <2>1, <2>2, <2>3
    <2>4. CASE /\ Allowed(k)' = {trees[k]} /\ synced = Len(wal)
               /\ \E x \in 1..Len(wal) : LastFor(wal, x, Len(wal), k) /\ trees[k] = wal[x].val
      <3>1. n = Len(wal) BY <1>0, <2>2, <2>4
      <3>2. PICK x \in 1..Len(wal) : LastFor(wal, x, Len(wal), k) /\ trees[k] = wal[x].val BY <2>4
      <3>3. x = i BY <1>0, <2>2, <3>1, <3>2, LastUnique
      <3> QED BY <2>1, <2>4, <3>2, <3>3
    <2> QED BY <1>4, <2>3, <2>4, CommitFacts
  <1>5. CASE RestoreBegin
    <2>1. UNCHANGED <<wal, synced, buried, gapped>> BY <1>5 DEF RestoreBegin
    <2>2. wal[i].val \in Allowed(k) BY <2>1 DEF IInv, LogOK, Sound
    <2>3. acked'[k] = acked[k] /\ maybe[k] \subseteq maybe'[k] BY <1>5 DEF RestoreBegin
    <2> QED BY <2>1, <2>2, <2>3 DEF Allowed
  <1>6. ASSUME NEW lo \in 1..Len(wal), NEW hi \in 1..Len(wal), RestoreRemoveSegment(lo, hi)
        PROVE  wal'[i].val \in Allowed(k)'
    <2>1. lo = 1 /\ Sound /\ UNCHANGED <<acked, maybe>>
      <3>1. gapped' = (gapped \/ lo > 1) /\ UNCHANGED <<acked, maybe, buried>>
        BY <1>6 DEF RestoreRemoveSegment
      <3>2. ~gapped /\ ~buried /\ ~(lo > 1) BY <3>1 DEF Sound
      <3> QED BY <1>0, <3>1, <3>2 DEF Sound
    <2>2. /\ Len(wal') = Len(wal) - hi /\ Len(wal') \in Nat
          /\ \A x \in 1..Len(wal') : wal'[x] = wal[x + hi]
          /\ n + hi \in synced..Len(wal) /\ n \in Nat
      BY <1>0, <1>6, <2>1, RemovedFirst
    <2>3. i + hi \in 1..(n + hi) /\ i \in 1..Len(wal') BY <1>0, <2>2
    <2>4. EntryFor(wal, i + hi, k) BY <2>2, <2>3 DEF LastFor, EntryFor
    <2>5. ASSUME NEW y \in (i + hi + 1)..(n + hi) PROVE ~EntryFor(wal, y, k)
      <3>1. y - hi \in (i + 1)..n /\ y - hi \in 1..Len(wal') /\ (y - hi) + hi = y BY <1>0, <2>2, <2>3
      <3>2. wal'[y - hi] = wal[y] BY <2>2, <3>1
      <3> QED BY <3>1, <3>2 DEF LastFor, EntryFor
    <2>6. LastFor(wal, i + hi, n + hi, k) BY <2>3, <2>4, <2>5 DEF LastFor
    <2>7. wal[i + hi].val \in Allowed(k) BY <2>1, <2>2, <2>3, <2>6 DEF IInv, LogOK
    <2> QED BY <2>1, <2>2, <2>3, <2>7 DEF Allowed
  <1>7. CASE RestoreDone
    <2>1. wal' = <<>> BY <1>7 DEF RestoreDone, IInv, RestoreOK
    <2>2. Len(wal') = 0 BY <2>1
    <2> QED BY <1>0, <1>7, <2>2 DEF RestoreDone
  <1>8. CASE PowerLoss
    <2>1. PICK c \in synced..Len(wal), tear \in BOOLEAN :
            /\ wal' = IF tear THEN Append(SubSeq(wal, 1, c), Torn) ELSE SubSeq(wal, 1, c)
            /\ buried' = (buried \/ (tear /\ c > 0 /\ wal[c] = Torn))
      BY <1>8 DEF PowerLoss
    <2>2. c \in 0..Len(wal) BY <1>0
    <2>3. /\ wal' \in Seq(Items) /\ Len(wal') = (IF tear THEN c + 1 ELSE c)
          /\ \A x \in 1..c : wal'[x] = wal[x]
          /\ tear => wal'[c + 1] = Torn
      <3>1. wal' \in {IF tear THEN Append(SubSeq(wal, 1, c), Torn) ELSE SubSeq(wal, 1, c)} BY <2>1
      <3> QED BY <1>0, <2>2, <3>1, CutFacts
    <2>4. synced' = Len(wal') /\ UNCHANGED <<acked, maybe, gapped>> BY <1>8 DEF PowerLoss
    <2>5. Sound BY <2>1, <2>4 DEF Sound
    <2>6. n = Len(wal') BY <1>0, <2>2, <2>3, <2>4
    <2>7. i \in 1..c
      <3>1. i = c + 1 /\ tear => wal'[i] = Torn BY <2>3
      <3>2. EntryFor(wal', i, k) BY DEF LastFor
      <3>3. ~(i = c + 1 /\ tear) BY <3>1, <3>2, ItemTypes DEF EntryFor
      <3> QED BY <1>0, <2>2, <2>3, <2>6, <3>3
    <2>8. LastFor(wal, i, c, k)
      <3>1. EntryFor(wal, i, k) BY <2>3, <2>7 DEF LastFor, EntryFor
      <3>2. ASSUME NEW y \in (i + 1)..c PROVE ~EntryFor(wal, y, k)
        <4>1. y \in 1..c /\ y \in (i + 1)..n BY <1>0, <2>2, <2>3, <2>6, <2>7
        <4> QED BY <2>3, <4>1 DEF LastFor, EntryFor
      <3> QED BY <2>7, <3>1, <3>2 DEF LastFor
    <2>9. wal[i].val \in Allowed(k) BY <2>5, <2>7, <2>8 DEF IInv, LogOK
    <2> QED BY <2>3, <2>4, <2>7, <2>9 DEF Allowed
  <1> QED
    BY <1>1, <1>2, <1>3, <1>4, <1>5, <1>6, <1>7, <1>8
    DEF Next, vars, OpenEngine, ReplayItem, OpenDone, TxBegin, WatchTx, Unwatch, WatchReceive,
        SnapshotOpen, SnapshotWritten, SnapshotFail, BackupCopy, RestoreWritten,
        RestoreRemovedWAL, RestoreFail, Close, Exit

LEMMA SnapOKStep == IInv /\ [Next]_vars => SnapOK'
  <1> SUFFICES ASSUME IInv, [Next]_vars, Sound', snap'.file # "unreadable",
                      NEW k \in Keys, NEW n \in synced'..Len(wal'), NoneFor(wal', n, k)
               PROVE  Base'[k] \in Allowed(k)'
    BY DEF SnapOK, NoneFor, EntryFor
  <1> USE DEF memVars, diskVars, fileVars, eventVars, ghostVars, damageVars
  <1>0. TypeOK /\ Len(wal) \in Nat /\ synced \in 0..Len(wal) BY LenProperties DEF IInv, TypeOK
  <1>1. CASE UNCHANGED <<wal, synced, snap, acked, maybe, buried, gapped>>
    <2>1. Base' = Base /\ Allowed(k)' = Allowed(k) BY <1>1 DEF Base, Allowed
    <2>2. Base[k] \in Allowed(k) BY <1>1 DEF IInv, SnapOK, Sound
    <2> QED BY <2>1, <2>2
  <1>2. ASSUME NEW rotate \in BOOLEAN, TxApply(rotate) PROVE Base'[k] \in Allowed(k)'
    <2>1. Sound /\ tx.done < Len(tx.muts) /\ maybe' = WrittenUnacked /\ acked' = acked /\ UNCHANGED snap
      BY <1>2 DEF TxApply, Sound
    <2>2. Grown(wal', Entry(NextMutation)) /\ synced' \in synced..Len(wal')
      BY <1>0, <1>2, SyncedOnApply
    <2> QED BY <2>1, <2>2, SnapOKGrown
  <1>3. CASE TxFail
    <2>1. tx.done < Len(tx.muts) BY <1>3 DEF TxFail
    <2>2. CASE UNCHANGED <<wal, maybe, buried>> BY <1>0, <1>1, <1>3, <2>2, FailCases
    <2>3. ASSUME NEW item \in {Torn, Entry(NextMutation)}, Grown(wal', item),
                 maybe' = WrittenUnacked, synced' \in synced..Len(wal'), ~buried' => ~buried
          PROVE  Base'[k] \in Allowed(k)'
      <3>1. Sound /\ acked' = acked /\ UNCHANGED snap BY <1>0, <1>3, <2>3, FailCases DEF Sound
      <3> QED BY <2>1, <2>3, <3>1, SnapOKGrown
    <2> QED BY <1>0, <1>3, <2>2, <2>3, FailCases
  <1>4. CASE TxCommit
    <2>1. UNCHANGED <<wal, synced, snap, buried, gapped>> BY <1>4 DEF TxCommit
    <2>2. Base' = Base /\ n \in synced..Len(wal) /\ NoneFor(wal, n, k) BY <2>1 DEF Base
    <2>3. Base[k] \in Allowed(k) BY <2>1, <2>2 DEF IInv, SnapOK, Sound
    <2>4. CASE Allowed(k)' = Allowed(k) BY <2>2, <2>3, <2>4
    <2>5. CASE /\ Allowed(k)' = {trees[k]} /\ synced = Len(wal)
               /\ \E x \in 1..Len(wal) : LastFor(wal, x, Len(wal), k) /\ trees[k] = wal[x].val
      <3>1. n = Len(wal) BY <1>0, <2>2, <2>5
      <3> QED BY <2>2, <2>5, <3>1 DEF LastFor, NoneFor
    <2> QED BY <1>4, <2>4, <2>5, CommitFacts
  <1>5. ASSUME NEW s \in Snapshotters, SnapshotWritten(s), snap' # snap
        PROVE  Base'[k] \in Allowed(k)'
    <2>1. snap' \in {GoodFile(trees), BadFile} /\ UNCHANGED <<acked, maybe, buried, gapped>>
      BY <1>5 DEF SnapshotWritten
    <2>2. snap' = GoodFile(trees) BY <2>1, FileTypes
    <2>3. Base' = trees BY <1>0, <2>2, FileTypes DEF Base, TypeOK
    <2>4. phase \in {"open", "closed"}
      BY <1>5 DEF SnapshotWritten, IInv, SnapperOK, Writing
    <2>5. trees[k] \in Allowed(k) BY <2>1, <2>4 DEF IInv, MemOK, Sound
    <2> QED BY <2>1, <2>3, <2>5 DEF Allowed
  <1>6. ASSUME NEW s \in Snapshotters, SnapshotWritten(s), snap' = snap
        PROVE  Base'[k] \in Allowed(k)'
    BY <1>1, <1>6 DEF SnapshotWritten
  <1>7. ASSUME NEW s \in Snapshotters, SnapshotOpen(s) PROVE Base'[k] \in Allowed(k)'
    BY <1>7, FileTypes DEF SnapshotOpen
  <1>8. CASE RestoreBegin BY <1>8, FileTypes DEF RestoreBegin
  <1>9. CASE RestoreWritten
    <2>1. Base' = restore.map BY <1>0, <1>9, FileTypes DEF RestoreWritten, Base, TypeOK
    <2>2. restore.map[k] \in Allowed(k) BY <1>9 DEF RestoreWritten, IInv, RestoreOK
    <2>3. Allowed(k)' = Allowed(k) BY <1>9 DEF RestoreWritten, Allowed
    <2> QED BY <2>1, <2>2, <2>3
  <1>10. ASSUME NEW lo \in 1..Len(wal), NEW hi \in 1..Len(wal), RestoreRemoveSegment(lo, hi)
         PROVE  Base'[k] \in Allowed(k)'
    <2>1. restore.step = "written" /\ UNCHANGED <<snap, acked, maybe>>
      BY <1>10 DEF RestoreRemoveSegment
    <2>2. snap = GoodFile(restore.map) /\ restore.map[k] \in Allowed(k)
      BY <2>1 DEF IInv, RestoreOK
    <2>3. Base' = restore.map BY <1>0, <2>1, <2>2, FileTypes DEF Base, TypeOK
    <2> QED BY <2>1, <2>2, <2>3 DEF Allowed
  <1>11. CASE RestoreDone
    <2>1. snap = GoodFile(restore.map) /\ snap' = snap
      BY <1>11 DEF RestoreDone, IInv, RestoreOK
    <2>2. Base' = restore.map BY <1>0, <2>1, FileTypes DEF Base, TypeOK
    <2>3. acked'[k] = restore.map[k] BY <1>11 DEF RestoreDone
    <2> QED BY <2>2, <2>3 DEF Allowed
  <1>12. CASE PowerLoss
    <2>1. PICK c \in synced..Len(wal), tear \in BOOLEAN :
            /\ wal' = IF tear THEN Append(SubSeq(wal, 1, c), Torn) ELSE SubSeq(wal, 1, c)
            /\ buried' = (buried \/ (tear /\ c > 0 /\ wal[c] = Torn))
      BY <1>12 DEF PowerLoss
    <2>2. c \in 0..Len(wal) BY <1>0
    <2>3. /\ wal' \in Seq(Items) /\ Len(wal') = (IF tear THEN c + 1 ELSE c)
          /\ \A x \in 1..c : wal'[x] = wal[x]
      <3>1. wal' \in {IF tear THEN Append(SubSeq(wal, 1, c), Torn) ELSE SubSeq(wal, 1, c)} BY <2>1
      <3> QED BY <1>0, <2>2, <3>1, CutFacts
    <2>4. synced' = Len(wal') /\ UNCHANGED <<snap, acked, maybe, gapped>> BY <1>12 DEF PowerLoss
    <2>5. Sound BY <2>1, <2>4 DEF Sound
    <2>6. n = Len(wal') BY <1>0, <2>2, <2>3, <2>4
    <2>7. NoneFor(wal, c, k)
      <3>1. ASSUME NEW y \in 1..c PROVE ~EntryFor(wal, y, k)
        <4>1. y \in 1..n BY <1>0, <2>2, <2>3, <2>6
        <4> QED BY <2>3, <4>1 DEF NoneFor, EntryFor
      <3> QED BY <3>1 DEF NoneFor
    <2>8. Base[k] \in Allowed(k) BY <2>4, <2>5, <2>7 DEF IInv, SnapOK
    <2> QED BY <2>4, <2>8 DEF Allowed, Base
  <1> QED
    BY <1>1, <1>2, <1>3, <1>4, <1>5, <1>6, <1>7, <1>8, <1>9, <1>10, <1>11, <1>12
    DEF Next, vars, OpenEngine, ReplayItem, OpenDone, TxBegin, WatchTx, Unwatch, WatchReceive,
        SnapshotFail, BackupCopy, RestoreRemovedWAL, RestoreFail, Close, Exit

LEMMA ReplayOKStep == IInv /\ [Next]_vars => ReplayOK'
  <1> SUFFICES ASSUME IInv, [Next]_vars, phase' = "replaying" PROVE ReplayOK' BY DEF ReplayOK
  <1> USE DEF memVars, diskVars, fileVars, eventVars, ghostVars, damageVars
  <1>0. /\ TypeOK /\ wal \in Seq(Items) /\ Len(wal) \in Nat /\ replayed \in Nat
        /\ trees \in [Keys -> Values]
    BY LenProperties DEF IInv, TypeOK, Maps
  <1>1. CASE UNCHANGED <<phase, wal, trees, replayed, snap, buried, gapped>>
    <2>1. ReplayOK BY DEF IInv
    <2> QED BY <1>1, <2>1 DEF ReplayOK, Sound, LastFor, NoneFor, EntryFor, Base
  <1>2. CASE OpenEngine
    <2>1. /\ snap.file # "unreadable" /\ trees' = Base /\ replayed' = 0
          /\ UNCHANGED <<wal, snap>>
      BY <1>2 DEF OpenEngine
    <2>2. Base' = Base BY <2>1 DEF Base
    <2> QED BY <1>0, <2>1, <2>2 DEF ReplayOK, NoneFor
  <1>3. CASE ReplayItem
    <2> DEFINE i == replayed + 1
    <2>1. /\ phase = "replaying" /\ UNCHANGED <<wal, snap, buried, gapped, phase>>
          /\ i \in 1..Len(wal)
      BY <1>0, <1>3 DEF ReplayItem
    <2>2. snap.file # "unreadable" BY <2>1 DEF IInv, ReplayOK
    <2>3. replayed' \in i..Len(wal) BY <1>0, <1>3, <2>1 DEF ReplayItem, SegmentEnds
    <2>4. ASSUME Sound PROVE replayed' = i
      <3>1. wal[i] = Torn => IsSegmentEnd(i)
        <4>1. ~buried BY <2>4 DEF Sound
        <4>2. wal[i] = Torn /\ i < Len(wal) => wal[i + 1] = NextSegment
          BY <1>0, <2>1, <4>1 DEF IInv, TearOK
        <4> QED BY <4>2 DEF IsSegmentEnd
      <3>2. wal[i] = Torn => SegmentEnds(i) \subseteq {i}
        BY <1>0, <2>1, <3>1 DEF SegmentEnds
      <3> QED BY <1>3, <2>1, <3>2 DEF ReplayItem
    <2>5. ASSUME Sound, NEW k \in Keys
          PROVE  \/ \E x \in 1..i : LastFor(wal, x, i, k) /\ trees'[k] = wal[x].val
                 \/ NoneFor(wal, i, k) /\ trees'[k] = Base[k]
      <3>1. CASE EntryFor(wal, i, k)
        <4>1. trees'[k] = wal[i].val
          BY <1>0, <1>3, <3>1, ItemTypes DEF ReplayItem, EntryFor
        <4>2. i \in 1..i /\ LastFor(wal, i, i, k) BY <1>0, <2>1, <3>1 DEF LastFor
        <4> QED BY <4>1, <4>2
      <3>2. CASE ~EntryFor(wal, i, k)
        <4>1. trees'[k] = trees[k] BY <1>0, <1>3, <3>2 DEF ReplayItem, EntryFor
        <4>2. CASE NoneFor(wal, replayed, k) /\ trees[k] = Base[k]
          <5>1. NoneFor(wal, i, k) BY <1>0, <3>2, <4>2 DEF NoneFor
          <5> QED BY <4>1, <4>2, <5>1
        <4>3. ASSUME NEW x \in 1..replayed, LastFor(wal, x, replayed, k), trees[k] = wal[x].val
              PROVE  x \in 1..i /\ LastFor(wal, x, i, k)
          BY <1>0, <3>2, <4>3 DEF LastFor
        <4> QED BY <2>1, <2>5, <4>1, <4>2, <4>3 DEF IInv, ReplayOK
      <3> QED BY <3>1, <3>2
    <2>6. Base' = Base /\ Sound' = Sound BY <2>1 DEF Base, Sound
    <2>7. replayed' <= Len(wal') BY <1>0, <2>1, <2>3
    <2> QED BY <2>1, <2>2, <2>4, <2>5, <2>6, <2>7 DEF ReplayOK, LastFor, NoneFor, EntryFor
  <1>4. phase # "open" \/ phase' = phase BY DEF Next, vars, OpenEngine, ReplayItem, OpenDone,
        TxBegin, TxApply, TxFail, TxCommit, WatchTx, Unwatch, WatchReceive, SnapshotOpen,
        SnapshotWritten, SnapshotFail, BackupCopy, RestoreBegin, RestoreWritten,
        RestoreRemoveSegment, RestoreRemovedWAL, RestoreDone, RestoreFail, Close, Exit, PowerLoss,
        ProcessEnds
  <1>5. phase = "replaying" => ~tx.active /\ restore.step = "none" /\ Writing = {}
    BY DEF IInv, TxOK, RestoreOK, SnapperOK
  <1>6. phase = "replaying" => \A s \in Snapshotters : snapper[s] # "writing"
    BY <1>5 DEF Writing
  <1> QED
    BY <1>1, <1>2, <1>3, <1>4, <1>5, <1>6
    DEF Next, vars, OpenDone, TxBegin, TxApply, TxFail, TxCommit, WatchTx, Unwatch, WatchReceive,
        SnapshotOpen, SnapshotWritten, SnapshotFail, BackupCopy, RestoreBegin, RestoreWritten,
        RestoreRemoveSegment, RestoreRemovedWAL, RestoreDone, RestoreFail, Close, Exit, PowerLoss,
        ProcessEnds

LEMMA MemOKStep == IInv /\ [Next]_vars => MemOK'
  <1> SUFFICES ASSUME IInv, [Next]_vars, phase' \in {"open", "closed"}, Sound', NEW k \in Keys
               PROVE  trees'[k] \in Allowed(k)'
    BY DEF MemOK
  <1> USE DEF memVars, diskVars, fileVars, eventVars, ghostVars, damageVars
  <1>0. TypeOK /\ Len(wal) \in Nat /\ synced \in 0..Len(wal) /\ trees \in [Keys -> Values]
    BY LenProperties DEF IInv, TypeOK, Maps
  <1>1. CASE phase \in {"open", "closed"} /\ UNCHANGED <<trees, acked, maybe, buried, gapped>>
    BY <1>1 DEF IInv, MemOK, Sound, Allowed
  <1>2. CASE OpenDone
    <2>1. /\ phase = "replaying" /\ replayed = Len(wal)
          /\ UNCHANGED <<trees, acked, maybe, buried, gapped>>
      BY <1>2 DEF OpenDone
    <2>2. Sound /\ snap.file # "unreadable" BY <2>1 DEF Sound, IInv, ReplayOK
    <2>3. Len(wal) \in synced..Len(wal) BY <1>0
    <2>4. ASSUME NEW i \in 1..Len(wal), LastFor(wal, i, Len(wal), k) PROVE wal[i].val \in Allowed(k)
      BY <2>2, <2>3, <2>4 DEF IInv, LogOK
    <2>5. NoneFor(wal, Len(wal), k) => Base[k] \in Allowed(k)
      BY <2>2, <2>3 DEF IInv, SnapOK
    <2>6. trees[k] \in Allowed(k)
      BY <2>1, <2>2, <2>4, <2>5 DEF IInv, ReplayOK
    <2> QED BY <2>1, <2>6 DEF Allowed
  <1>3. ASSUME NEW rotate \in BOOLEAN, TxApply(rotate) PROVE trees'[k] \in Allowed(k)'
    <2>1. /\ tx.done < Len(tx.muts) /\ maybe' = WrittenUnacked /\ acked' = acked /\ Sound
          /\ trees' = [trees EXCEPT ![NextMutation.key] = NextMutation.val]
      BY <1>3 DEF TxApply, Sound
    <2>2. phase = "open" BY <1>3 DEF TxApply, IInv, TxOK
    <2>3. trees[k] \in Allowed(k) BY <2>1, <2>2 DEF IInv, MemOK
    <2> QED BY <1>0, <2>1, <2>3, AllowedGrows
  <1>4. CASE TxFail
    <2>1. phase = "open" /\ tx.done < Len(tx.muts) BY <1>4 DEF TxFail, IInv, TxOK
    <2>2. CASE UNCHANGED <<maybe, buried>> BY <1>0, <1>1, <1>4, <2>1, <2>2, FailCases
    <2>3. CASE maybe' = WrittenUnacked /\ (~buried' => ~buried)
      <3>1. UNCHANGED <<acked, trees, gapped>> BY <1>0, <1>4, FailCases
      <3>2. trees[k] \in Allowed(k) BY <2>1, <2>3, <3>1 DEF IInv, MemOK, Sound
      <3> QED BY <1>0, <2>1, <2>3, <3>1, <3>2, AllowedGrows
    <2> QED BY <1>0, <1>4, <2>2, <2>3, FailCases
  <1>5. CASE TxCommit
    <2>1. UNCHANGED <<trees, buried, gapped>> /\ phase = "open"
      BY <1>5 DEF TxCommit, IInv, TxOK
    <2>2. trees[k] \in Allowed(k) BY <2>1 DEF IInv, MemOK, Sound
    <2> QED BY <1>5, <2>1, <2>2, CommitFacts
  <1>6. CASE RestoreBegin
    <2>1. UNCHANGED <<trees, buried, gapped, acked>> /\ phase = "open" /\ maybe[k] \subseteq maybe'[k]
      BY <1>6 DEF RestoreBegin
    <2> QED BY <2>1 DEF IInv, MemOK, Sound, Allowed
  <1>7. CASE RestoreDone BY <1>7 DEF RestoreDone, Allowed
  <1>8. ASSUME NEW lo \in 1..Len(wal), NEW hi \in 1..Len(wal), RestoreRemoveSegment(lo, hi)
        PROVE  trees'[k] \in Allowed(k)'
    <2>1. gapped' = (gapped \/ lo > 1) /\ UNCHANGED <<phase, trees, acked, maybe, buried>>
      BY <1>8 DEF RestoreRemoveSegment
    <2>2. ~gapped BY <2>1 DEF Sound
    <2> QED BY <2>1, <2>2 DEF IInv, MemOK, Sound, Allowed
  <1> QED
    BY <1>1, <1>2, <1>3, <1>4, <1>5, <1>6, <1>7, <1>8
    DEF Next, vars, OpenEngine, ReplayItem, TxBegin, WatchTx, Unwatch, WatchReceive,
        SnapshotOpen, SnapshotWritten, SnapshotFail, BackupCopy, RestoreWritten,
        RestoreRemovedWAL, RestoreFail, Close, Exit, PowerLoss, ProcessEnds

LEMMA TearGrown ==
    ASSUME TypeOK, TearOK, NEW rotate \in BOOLEAN, NEW item \in Items,
           wal' = Append(Rotated(rotate), item), buried' = (buried \/ Buries(rotate)), ~buried',
           NEW i \in 1..(Len(wal') - 1), wal'[i] = Torn
    PROVE  wal'[i + 1] = NextSegment
  <1>1. wal \in Seq(Items) /\ Len(wal) \in Nat BY LenProperties DEF TypeOK
  <1>2. /\ Len(wal') = IF rotate THEN Len(wal) + 2 ELSE Len(wal) + 1
        /\ \A x \in 1..Len(wal) : wal'[x] = wal[x]
        /\ rotate => wal'[Len(wal) + 1] = NextSegment
    <2>1. wal' \in {Append(Rotated(rotate), item)} OBVIOUS
    <2> QED BY <2>1, RotatedFacts
  <1>3. ~buried /\ ~Buries(rotate) OBVIOUS
  <1>4. CASE i < Len(wal)
    <2>1. i \in 1..(Len(wal) - 1) /\ i \in 1..Len(wal) /\ i + 1 \in 1..Len(wal) BY <1>1, <1>4
    <2>2. wal[i] = Torn /\ wal'[i + 1] = wal[i + 1] BY <1>2, <2>1
    <2> QED BY <1>3, <2>1, <2>2 DEF TearOK
  <1>5. CASE i = Len(wal)
    <2>1. i \in 1..Len(wal) /\ wal # <<>> BY <1>1, <1>5
    <2>2. wal[Len(wal)] = Torn BY <1>2, <1>5, <2>1
    <2>3. rotate BY <1>3, <2>1, <2>2 DEF Buries
    <2> QED BY <1>2, <1>5, <2>3
  <1>6. CASE i > Len(wal)
    <2>1. rotate /\ i = Len(wal) + 1 BY <1>1, <1>2, <1>6
    <2> QED BY <1>2, <2>1, ItemTypes
  <1> QED BY <1>1, <1>4, <1>5, <1>6

LEMMA TearOKStep == IInv /\ [Next]_vars => TearOK'
  <1> SUFFICES ASSUME IInv, [Next]_vars, ~buried', NEW i \in 1..(Len(wal') - 1), wal'[i] = Torn
               PROVE  wal'[i + 1] = NextSegment
    BY DEF TearOK, Torn, NextSegment
  <1> USE DEF memVars, diskVars, fileVars, eventVars, ghostVars, damageVars
  <1>0. TypeOK /\ TearOK /\ Len(wal) \in Nat /\ synced \in 0..Len(wal)
    BY LenProperties DEF IInv, TypeOK
  <1>1. CASE UNCHANGED <<wal, buried>> BY <1>0, <1>1 DEF TearOK
  <1>2. ASSUME NEW rotate \in BOOLEAN, TxApply(rotate) PROVE wal'[i + 1] = NextSegment
    <2>1. Entry(NextMutation) \in Items BY <1>0, <1>2, NextMutationType, ItemTypes DEF TxApply
    <2>2. wal' = Append(Rotated(rotate), Entry(NextMutation)) /\ buried' = (buried \/ Buries(rotate))
      BY <1>2 DEF TxApply
    <2> QED BY <1>0, <2>1, <2>2, TearGrown
  <1>3. CASE TxFail
    <2>1. Entry(NextMutation) \in Items BY <1>0, <1>3, NextMutationType, ItemTypes DEF TxFail
    <2>2. ASSUME NEW rotate \in BOOLEAN, NEW item \in {Torn, Entry(NextMutation)},
                 wal' = Append(Rotated(rotate), item), buried' = (buried \/ Buries(rotate))
          PROVE  wal'[i + 1] = NextSegment
      <3>1. item \in Items BY <2>1, ItemTypes
      <3> QED BY <1>0, <2>2, <3>1, TearGrown
    <2> QED BY <1>1, <1>3, <2>2 DEF TxFail
  <1>4. ASSUME NEW lo \in 1..Len(wal), NEW hi \in 1..Len(wal), RestoreRemoveSegment(lo, hi)
        PROVE  wal'[i + 1] = NextSegment
    <2>1. lo <= hi /\ ~buried BY <1>4 DEF RestoreRemoveSegment
    <2>2. /\ Len(wal') = Len(wal) - (hi - lo + 1)
          /\ \A x \in 1..(lo - 1) : wal'[x] = wal[x]
          /\ \A x \in lo..Len(wal') : wal'[x] = wal[x + (hi - lo + 1)]
      BY <1>0, <1>4, <2>1, RemoveFacts DEF RestoreRemoveSegment
    <2>3. CASE i >= lo
      <3>1. i \in lo..Len(wal') /\ i + 1 \in lo..Len(wal') BY <1>0, <2>1, <2>2, <2>3
      <3> DEFINE d == i + (hi - lo + 1)
      <3>2. wal[d] = Torn /\ wal'[i + 1] = wal[d + 1]
        <4>1. (i + 1) + (hi - lo + 1) = d + 1 BY <1>0, <3>1
        <4>2. wal'[i] = wal[d] BY <2>2, <3>1
        <4>3. wal'[i + 1] = wal[(i + 1) + (hi - lo + 1)] BY <2>2, <3>1
        <4> QED BY <4>1, <4>2, <4>3
      <3>3. d \in 1..(Len(wal) - 1) BY <1>0, <2>1, <2>2, <3>1
      <3> QED BY <1>0, <2>1, <3>2, <3>3 DEF TearOK
    <2>4. CASE i + 1 < lo
      <3>1. i \in 1..(lo - 1) /\ i + 1 \in 1..(lo - 1) /\ i \in 1..(Len(wal) - 1)
        BY <1>0, <2>1, <2>2, <2>4
      <3>2. wal[i] = Torn /\ wal'[i + 1] = wal[i + 1] BY <2>2, <3>1
      <3> QED BY <1>0, <2>1, <3>1, <3>2 DEF TearOK
    <2>5. CASE i + 1 = lo
      <3>1. lo # 1 /\ i + 1 \in lo..Len(wal') /\ hi < Len(wal) BY <1>0, <2>1, <2>2, <2>5
      <3>2. wal'[i + 1] = wal[hi + 1]
        <4>1. (i + 1) + (hi - lo + 1) = hi + 1 BY <1>0, <2>5
        <4> QED BY <2>2, <3>1, <4>1
      <3>3. IsSegmentEnd(hi) BY <1>4, <3>1 DEF RestoreRemoveSegment
      <3> QED BY <3>1, <3>2, <3>3 DEF IsSegmentEnd
    <2> QED BY <1>0, <2>2, <2>3, <2>4, <2>5
  <1>5. CASE RestoreDone
    <2>1. wal' = <<>> BY <1>5 DEF RestoreDone, IInv, RestoreOK
    <2> QED BY <2>1
  <1>6. CASE PowerLoss
    <2>1. PICK c \in synced..Len(wal), tear \in BOOLEAN :
            /\ wal' = IF tear THEN Append(SubSeq(wal, 1, c), Torn) ELSE SubSeq(wal, 1, c)
            /\ buried' = (buried \/ (tear /\ c > 0 /\ wal[c] = Torn))
      BY <1>6 DEF PowerLoss
    <2>2. c \in 0..Len(wal) BY <1>0
    <2>3. /\ wal' \in Seq(Items) /\ Len(wal') = (IF tear THEN c + 1 ELSE c)
          /\ \A x \in 1..c : wal'[x] = wal[x]
      <3>1. wal' \in {IF tear THEN Append(SubSeq(wal, 1, c), Torn) ELSE SubSeq(wal, 1, c)} BY <2>1
      <3> QED BY <1>0, <2>2, <3>1, CutFacts
    <2>4. ~buried /\ ~(tear /\ c > 0 /\ wal[c] = Torn) BY <2>1
    <2>5. i \in 1..c /\ wal[i] = Torn
      <3>1. c \in Nat /\ i \in 1..c BY <1>0, <2>2, <2>3
      <3> QED BY <2>3, <3>1
    <2>6. i < c
      <3>1. i # c
        <4>1. SUFFICES ASSUME i = c PROVE FALSE OBVIOUS
        <4>2. tear /\ c > 0 BY <1>0, <2>2, <2>3, <4>1
        <4> QED BY <2>4, <2>5, <4>1, <4>2
      <3> QED BY <1>0, <2>2, <2>5, <3>1
    <2>7. i \in 1..(Len(wal) - 1) /\ i + 1 \in 1..c BY <1>0, <2>2, <2>5, <2>6
    <2>8. wal'[i + 1] = wal[i + 1] BY <2>3, <2>7
    <2> QED BY <1>0, <2>4, <2>5, <2>7, <2>8 DEF TearOK
  <1> QED
    BY <1>1, <1>2, <1>3, <1>4, <1>5, <1>6
    DEF Next, vars, OpenEngine, ReplayItem, OpenDone, TxBegin, TxCommit, WatchTx, Unwatch,
        WatchReceive, SnapshotOpen, SnapshotWritten, SnapshotFail, BackupCopy, RestoreBegin,
        RestoreWritten, RestoreRemovedWAL, RestoreFail, Close, Exit

LEMMA TxOKStep == IInv /\ [Next]_vars => TxOK'
  <1> SUFFICES ASSUME IInv, [Next]_vars, tx'.active PROVE TxOK' BY DEF TxOK
  <1> USE DEF memVars, diskVars, fileVars, eventVars, ghostVars, damageVars
  <1>0. /\ TypeOK /\ Len(wal) \in Nat /\ tx.done \in Nat /\ trees \in [Keys -> Values]
        /\ tx.muts \in Seq(Mutations) /\ Len(tx.muts) \in Nat
    BY LenProperties DEF IInv, TypeOK, Maps
  <1>1. CASE UNCHANGED <<tx, phase, restore, synced, wal, trees>>
    <2>1. TxOK BY DEF IInv
    <2> QED BY <1>1, <2>1 DEF TxOK, LastFor, EntryFor
  <1>2. ASSUME NEW muts \in TxMutations, NEW notify \in BOOLEAN, TxBegin(muts, notify)
        PROVE  TxOK'
    <2>1. tx'.done = 0 /\ phase' = "open" /\ restore'.step = "none" BY <1>2 DEF TxBegin, Unlocked
    <2> QED BY <2>1 DEF TxOK
  <1>3. ASSUME NEW rotate \in BOOLEAN, TxApply(rotate) PROVE TxOK'
    <2>1. /\ tx.active /\ tx.done < Len(tx.muts) /\ UNCHANGED <<phase, restore>>
          /\ tx' = [tx EXCEPT !.done = @ + 1]
          /\ trees' = [trees EXCEPT ![NextMutation.key] = NextMutation.val]
      BY <1>3 DEF TxApply
    <2>2. tx'.done = tx.done + 1 /\ tx'.muts = tx.muts
      BY <1>0, <2>1 DEF TypeOK
    <2>3. phase' = "open" /\ restore'.step = "none" BY <2>1 DEF IInv, TxOK
    <2>4. Grown(wal', Entry(NextMutation)) /\ synced' = Len(wal') BY <1>0, <1>3, SyncedOnApply
    <2>5. NextMutation \in Mutations /\ NextMutation.key \in Keys
      BY <1>0, <2>1, NextMutationType
    <2>6. wal'[Len(wal')] = Entry(NextMutation) BY <2>4 DEF Grown
    <2>7. ASSUME NEW d \in 1..(tx.done + 1)
          PROVE  \E i \in 1..Len(wal') :
                    LastFor(wal', i, Len(wal'), tx.muts[d].key)
                    /\ trees'[tx.muts[d].key] = wal'[i].val
      <3> DEFINE k == tx.muts[d].key
      <3>1. k \in Keys
        <4>1. d \in 1..Len(tx.muts) BY <1>0, <2>1
        <4>2. tx.muts[d] \in Mutations BY <1>0, <4>1, ElementOfSeq
        <4> QED BY <4>2 DEF Mutations
      <3>2. CASE k = NextMutation.key
        <4>1. EntryFor(wal', Len(wal'), k) /\ wal'[Len(wal')].val = NextMutation.val
          BY <2>5, <2>6, <3>2, ItemTypes DEF EntryFor
        <4>2. Len(wal') \in 1..Len(wal') /\ LastFor(wal', Len(wal'), Len(wal'), k)
          BY <1>0, <2>4, <4>1, LastIsNew
        <4>3. trees'[k] = NextMutation.val BY <1>0, <2>1, <2>5, <3>2
        <4> QED BY <4>1, <4>2, <4>3
      <3>3. CASE k # NextMutation.key
        <4>1. d \in 1..tx.done
          <5>1. d # tx.done + 1 BY <3>3 DEF NextMutation
          <5> QED BY <1>0, <5>1
        <4>2. PICK i \in 1..Len(wal) : LastFor(wal, i, Len(wal), k) /\ trees[k] = wal[i].val
          BY <2>1, <4>1 DEF IInv, TxOK
        <4>3. ~EntryFor(wal', Len(wal'), k)
          BY <2>5, <2>6, <3>3, ItemTypes DEF EntryFor
        <4>4. i \in 1..Len(wal') /\ wal'[i] = wal[i] /\ LastFor(wal', i, Len(wal'), k)
          BY <1>0, <2>4, <4>2, <4>3, LastKept
        <4>5. trees'[k] = trees[k] BY <1>0, <2>1, <3>1, <3>3
        <4> QED BY <4>2, <4>4, <4>5
      <3> QED BY <3>2, <3>3
    <2> QED BY <2>2, <2>3, <2>4, <2>7 DEF TxOK, LastFor, EntryFor
  <1>4. CASE tx' = NoTx BY <1>4 DEF NoTx
  <1>5. tx.active => phase = "open" /\ restore.step = "none" BY DEF IInv, TxOK
  <1> QED
    BY <1>1, <1>2, <1>3, <1>4, <1>5
    DEF Next, vars, OpenEngine, ReplayItem, OpenDone, TxFail, TxCommit, WatchTx, Unwatch,
        WatchReceive, SnapshotOpen, SnapshotWritten, SnapshotFail, BackupCopy, RestoreBegin,
        RestoreWritten, RestoreRemoveSegment, RestoreRemovedWAL, RestoreDone, RestoreFail, Close,
        Exit, PowerLoss, ProcessEnds, Unlocked

LEMMA RestoreOKStep == IInv /\ [Next]_vars => RestoreOK'
  <1> SUFFICES ASSUME IInv, [Next]_vars, restore'.step # "none" PROVE RestoreOK' BY DEF RestoreOK
  <1> USE DEF memVars, diskVars, fileVars, eventVars, ghostVars, damageVars
  <1>0. TypeOK /\ RestoreOK BY DEF IInv
  <1>1. CASE UNCHANGED <<restore, phase, acked, maybe, snap, wal>>
    BY <1>0, <1>1 DEF RestoreOK, Allowed
  <1>2. CASE RestoreBegin
    <2>1. phase' = "open" /\ restore' = [step |-> "truncated", map |-> backup.map]
          /\ maybe' = [k \in Keys |-> maybe[k] \cup {backup.map[k]}]
      BY <1>2 DEF RestoreBegin
    <2>2. restore'.step = "truncated" /\ restore'.map = backup.map BY <2>1
    <2>3. ASSUME NEW k \in Keys PROVE restore'.map[k] \in Allowed(k)'
      BY <2>1, <2>2 DEF Allowed
    <2> QED BY <2>1, <2>2, <2>3 DEF RestoreOK
  <1>3. CASE RestoreWritten
    <2>1. /\ restore.step = "truncated" /\ restore' = [restore EXCEPT !.step = "written"]
          /\ snap' = GoodFile(restore.map) /\ UNCHANGED <<phase, acked, maybe>>
      BY <1>3 DEF RestoreWritten
    <2>2. restore'.step = "written" /\ restore'.map = restore.map BY <1>0, <2>1 DEF TypeOK
    <2>3. snap' = GoodFile(restore.map)' BY <2>1, <2>2 DEF GoodFile
    <2> QED BY <1>0, <2>1, <2>2, <2>3 DEF RestoreOK, Allowed
  <1>4. ASSUME NEW lo \in 1..Len(wal), NEW hi \in 1..Len(wal), RestoreRemoveSegment(lo, hi)
        PROVE  RestoreOK'
    <2>1. restore.step = "written" /\ UNCHANGED <<restore, phase, acked, maybe, snap>>
      BY <1>4 DEF RestoreRemoveSegment
    <2> QED BY <1>0, <2>1 DEF RestoreOK, Allowed, GoodFile
  <1>5. CASE RestoreRemovedWAL
    <2>1. /\ restore.step = "written" /\ wal = <<>> /\ restore' = [restore EXCEPT !.step = "removed"]
          /\ UNCHANGED <<phase, acked, maybe, snap, wal>>
      BY <1>5 DEF RestoreRemovedWAL
    <2>2. restore'.step = "removed" /\ restore'.map = restore.map BY <1>0, <2>1 DEF TypeOK
    <2> QED BY <1>0, <2>1, <2>2 DEF RestoreOK, Allowed, GoodFile
  <1>6. CASE restore' = NoRestore BY <1>6 DEF NoRestore
  <1>7. restore.step # "none" => phase = "open" /\ ~tx.active /\ Writing = {}
    BY DEF IInv, RestoreOK, TxOK, SnapperOK
  <1>8. restore.step # "none" => \A s \in Snapshotters : snapper[s] # "writing"
    BY <1>7 DEF Writing
  <1> QED
    BY <1>1, <1>2, <1>3, <1>4, <1>5, <1>6, <1>7, <1>8
    DEF Next, vars, OpenEngine, ReplayItem, OpenDone, TxBegin, TxApply, TxFail, TxCommit, WatchTx,
        Unwatch, WatchReceive, SnapshotOpen, SnapshotWritten, SnapshotFail, BackupCopy,
        RestoreDone, RestoreFail, Close, Exit, PowerLoss, ProcessEnds, Unlocked

LEMMA SnapperOKStep == IInv /\ [Next]_vars => SnapperOK'
  <1> SUFFICES ASSUME IInv, [Next]_vars PROVE SnapperOK' OBVIOUS
  <1> USE DEF memVars, diskVars, fileVars, eventVars, ghostVars, damageVars
  <1>0. TypeOK /\ SnapperOK BY DEF IInv
  <1>a. /\ tx.active => phase = "open"
        /\ restore.step # "none" => phase = "open"
    BY DEF IInv, TxOK, RestoreOK
  <1>1. CASE UNCHANGED snapper /\ phase' = phase /\ UNCHANGED <<tx, restore>>
    BY <1>0, <1>1 DEF SnapperOK, Writing
  <1>2. CASE snapper' = [s \in Snapshotters |-> "idle"] BY <1>2 DEF SnapperOK, Writing
  <1>3. CASE UNCHANGED snapper /\ Writing = {} BY <1>3 DEF SnapperOK, Writing
  <1>4. CASE /\ UNCHANGED snapper /\ phase' = phase
             /\ (tx'.active => tx.active) /\ (restore'.step # "none" => restore.step # "none")
    BY <1>0, <1>4 DEF SnapperOK, Writing
  <1>5. ASSUME NEW s \in Snapshotters, SnapshotOpen(s) PROVE SnapperOK'
    BY <1>5 DEF SnapperOK, SnapshotOpen
  <1>6. ASSUME NEW s \in Snapshotters, UNCHANGED <<phase, tx, restore>>,
               NEW to \in {"idle", "copying"}, snapper' = [snapper EXCEPT ![s] = to]
        PROVE  SnapperOK'
    <2>1. Writing' \subseteq Writing BY <1>0, <1>6 DEF Writing, TypeOK
    <2> QED BY <1>0, <1>6, <2>1 DEF SnapperOK
  <1>7. ASSUME NEW rotate \in BOOLEAN, TxApply(rotate) PROVE SnapperOK'
    <2>1. tx.active /\ UNCHANGED snapper BY <1>7 DEF TxApply
    <2>2. Writing = {} BY <1>0, <2>1 DEF SnapperOK
    <2> QED BY <1>3, <2>1, <2>2
  <1>8. CASE Close BY <1>3, <1>8 DEF Close, Unlocked
  <1>9. CASE OpenEngine \/ ReplayItem \/ OpenDone
    <2>1. phase \notin {"open", "closed"} /\ UNCHANGED snapper
      BY <1>9 DEF OpenEngine, ReplayItem, OpenDone
    <2>2. Writing = {} BY <1>0, <2>1 DEF SnapperOK
    <2> QED BY <1>3, <2>1, <2>2
  <1> QED
    BY <1>0, <1>a, <1>1, <1>2, <1>3, <1>4, <1>5, <1>6, <1>7, <1>8, <1>9
    DEF Next, vars, TxBegin, TxFail, TxCommit, NoTx, WatchTx, Unwatch, WatchReceive,
        SnapshotWritten, SnapshotFail, BackupCopy, RestoreBegin, RestoreWritten,
        RestoreRemoveSegment, RestoreRemovedWAL, RestoreDone, RestoreFail, NoRestore, Exit,
        PowerLoss, ProcessEnds, Unlocked, SnapperOK

LEMMA FailedOKStep == IInv /\ [Next]_vars => FailedOK'
  <1> SUFFICES ASSUME IInv, [Next]_vars, phase' = "failed" PROVE FailedOK' BY DEF FailedOK
  <1> USE DEF memVars, diskVars, fileVars, eventVars, ghostVars, damageVars
  <1>0. TypeOK /\ FailedOK BY DEF IInv
  <1>1. CASE UNCHANGED <<phase, snap, buried>> BY <1>0, <1>1 DEF FailedOK
  <1>2. CASE OpenEngine BY <1>2 DEF OpenEngine, FailedOK
  <1>3. CASE ReplayItem
    <2>1. /\ wal[replayed + 1] = Torn /\ ~IsSegmentEnd(replayed + 1) /\ UNCHANGED buried
          /\ replayed < Len(wal)
      BY <1>3 DEF ReplayItem
    <2>2. replayed \in Nat /\ Len(wal) \in Nat BY <1>0, LenProperties DEF TypeOK
    <2>3. ~buried => FALSE
      <3>1. replayed + 1 < Len(wal) /\ wal[(replayed + 1) + 1] # NextSegment
        BY <2>1, <2>2 DEF IsSegmentEnd
      <3>2. replayed + 1 \in 1..(Len(wal) - 1) BY <2>2, <3>1
      <3> QED BY <2>1, <3>1, <3>2 DEF IInv, TearOK
    <2> QED BY <2>1, <2>3 DEF FailedOK
  <1>4. phase = "failed" => ~tx.active /\ restore.step = "none" /\ Writing = {}
    BY DEF IInv, TxOK, RestoreOK, SnapperOK
  <1>5. phase = "failed" => \A s \in Snapshotters : snapper[s] # "writing" BY <1>4 DEF Writing
  <1> QED
    BY <1>1, <1>2, <1>3, <1>4, <1>5
    DEF Next, vars, OpenDone, TxBegin, TxApply, TxFail, TxCommit, WatchTx, Unwatch, WatchReceive,
        SnapshotOpen, SnapshotWritten, SnapshotFail, BackupCopy, RestoreBegin, RestoreWritten,
        RestoreRemoveSegment, RestoreRemovedWAL, RestoreDone, RestoreFail, Close, Exit, PowerLoss,
        ProcessEnds, Unlocked

LEMMA IInvInit == Init => IInv
  <1> SUFFICES ASSUME Init PROVE IInv OBVIOUS
  <1>1. TypeOK BY TypeInit
  <1>2. Len(wal) = 0 /\ synced = 0 /\ phase = "down" BY DEF Init
  <1>3. LogOK /\ TearOK BY <1>2 DEF LogOK, TearOK
  <1>4. SnapOK
    <2>1. Base = EmptyMap /\ acked = EmptyMap BY FileTypes DEF Init, Base
    <2> QED BY <2>1 DEF SnapOK, Allowed
  <1>5. ReplayOK /\ MemOK /\ FailedOK BY <1>2 DEF ReplayOK, MemOK, FailedOK
  <1>6. TxOK /\ RestoreOK BY DEF Init, TxOK, RestoreOK, NoTx, NoRestore
  <1>7. SnapperOK BY DEF Init, SnapperOK, Writing
  <1> QED BY <1>1, <1>3, <1>4, <1>5, <1>6, <1>7 DEF IInv

LEMMA IInvStep == IInv /\ [Next]_vars => IInv'
  <1> SUFFICES ASSUME IInv, [Next]_vars PROVE IInv' OBVIOUS
  <1>1. TypeOK' BY TypeStep DEF IInv
  <1> QED
    BY <1>1, LogOKStep, SnapOKStep, ReplayOKStep, MemOKStep, TearOKStep, TxOKStep, RestoreOKStep,
       SnapperOKStep, FailedOKStep
    DEF IInv

\* The state of the engine is always well typed.
THEOREM TypeCorrect == Spec => []TypeOK
  <1>1. Init => TypeOK BY TypeInit
  <1>2. TypeOK /\ [Next]_vars => TypeOK' BY TypeStep
  <1> QED BY <1>1, <1>2, PTL DEF Spec

\* The inductive invariant holds in every reachable state.
THEOREM Inductive == Spec => []IInv
  <1> QED BY IInvInit, IInvStep, PTL DEF Spec

\* Durability: an open engine holds, for every key, the last acknowledged value
\* or one written after it and never acknowledged, through any sequence of
\* failed appends, rotations, crashes, power losses, backups and restores.
THEOREM Durability == Spec => []AckedSurvives
  <1>1. IInv => AckedSurvives
    BY DEF IInv, MemOK, AckedSurvives, Sound
  <1> QED BY Inductive, <1>1, PTL

\* OpenEngine fails only on an interrupted snapshot or a log continued behind a
\* torn entry.
THEOREM Reopens == Spec => []OpensUnlessDamaged
  <1>1. IInv => OpensUnlessDamaged
    BY DEF IInv, FailedOK, OpensUnlessDamaged
  <1> QED BY Inductive, <1>1, PTL

(***************************************************************************)
(* The event stream of WatchTx.                                            *)
(***************************************************************************)
GapFree(sub, seq) ==
    sub.on /\ ~sub.lost =>
        /\ Len(sub.queue) = seq - sub.seen
        /\ \A i \in 1..Len(sub.queue) : sub.queue[i] = sub.seen + i

LEMMA WatcherStep == TypeOK /\ WatcherGapFree /\ [Next]_vars => WatcherGapFree'
  <1> SUFFICES ASSUME TypeOK, WatcherGapFree, [Next]_vars, NEW w \in Watchers
               PROVE  GapFree(watch'[w], sequence')
    BY DEF WatcherGapFree, GapFree
  <1> USE DEF memVars, diskVars, fileVars, eventVars, ghostVars, damageVars
  <1> DEFINE Sub == [on : BOOLEAN, queue : Seq(Nat), seen : Nat, lost : BOOLEAN]
  <1>0. /\ sequence \in Nat /\ watch \in [Watchers -> Sub] /\ watch[w] \in Sub
        /\ watch[w].queue \in Seq(Nat) /\ Len(watch[w].queue) \in Nat /\ watch[w].seen \in Nat
    BY LenProperties DEF TypeOK
  <1>a. GapFree(watch[w], sequence) BY DEF WatcherGapFree, GapFree
  <1>1. CASE UNCHANGED eventVars BY <1>1, <1>a
  <1>2. CASE watch'[w] = Unsubscribed BY <1>2 DEF GapFree, Unsubscribed
  <1>3. CASE TxCommit /\ tx.notify
    <2>1. sequence' = sequence + 1 /\ watch' = Notify(sequence + 1) BY <1>3 DEF TxCommit
    <2>2. CASE ~watch[w].on
      <3>1. watch'[w] = watch[w] BY <2>1, <2>2 DEF Notify
      <3> QED BY <2>2, <3>1 DEF GapFree
    <2>3. CASE watch[w].on /\ Len(watch[w].queue) < WatchCap
      <3> DEFINE q == Append(watch[w].queue, sequence + 1)
      <3>1. watch'[w] = [watch[w] EXCEPT !.queue = q] BY <2>1, <2>3 DEF Notify
      <3>2. /\ watch'[w].queue = q /\ watch'[w].seen = watch[w].seen
            /\ watch'[w].on = watch[w].on /\ watch'[w].lost = watch[w].lost
        BY <1>0, <3>1
      <3>3. /\ Len(q) = Len(watch[w].queue) + 1
            /\ \A i \in 1..Len(watch[w].queue) : q[i] = watch[w].queue[i]
            /\ q[Len(watch[w].queue) + 1] = sequence + 1
        <4>1. sequence + 1 \in Nat BY <1>0
        <4> QED BY <1>0, <4>1, AppendFacts
      <3> HIDE DEF q
      <3>4. ASSUME ~watch[w].lost
            PROVE  /\ Len(q) = (sequence + 1) - watch[w].seen
                   /\ \A i \in 1..Len(q) : q[i] = watch[w].seen + i
        <4>1. /\ Len(watch[w].queue) = sequence - watch[w].seen
              /\ \A i \in 1..Len(watch[w].queue) : watch[w].queue[i] = watch[w].seen + i
          BY <1>a, <2>3, <3>4 DEF GapFree
        <4>2. ASSUME NEW i \in 1..Len(q) PROVE q[i] = watch[w].seen + i
          <5>1. CASE i = Len(watch[w].queue) + 1 BY <1>0, <3>3, <4>1, <5>1
          <5>2. CASE i \in 1..Len(watch[w].queue) BY <3>3, <4>1, <5>2
          <5> QED BY <1>0, <3>3, <5>1, <5>2
        <4> QED BY <1>0, <3>3, <4>1, <4>2
      <3> QED BY <2>1, <3>2, <3>4 DEF GapFree
    <2>4. CASE watch[w].on /\ ~(Len(watch[w].queue) < WatchCap)
      <3>1. watch'[w] = [watch[w] EXCEPT !.lost = TRUE] BY <2>1, <2>4 DEF Notify
      <3>2. watch'[w].lost BY <1>0, <3>1
      <3> QED BY <3>2 DEF GapFree
    <2> QED BY <2>2, <2>3, <2>4
  <1>4. ASSUME NEW v \in Watchers, WatchTx(v) PROVE GapFree(watch'[w], sequence')
    <2>1. CASE v = w
      <3>1. watch'[w] = [on |-> TRUE, queue |-> <<>>, seen |-> sequence, lost |-> FALSE]
            /\ sequence' = sequence
        BY <1>0, <1>4, <2>1 DEF WatchTx
      <3> QED BY <1>0, <3>1 DEF GapFree
    <2>2. CASE v # w
      <3>1. watch'[w] = watch[w] /\ sequence' = sequence BY <1>0, <1>4, <2>2 DEF WatchTx
      <3> QED BY <1>a, <3>1
    <2> QED BY <2>1, <2>2
  <1>5. ASSUME NEW v \in Watchers, Unwatch(v) PROVE GapFree(watch'[w], sequence')
    <2>1. v # w => watch'[w] = watch[w] /\ sequence' = sequence BY <1>0, <1>5 DEF Unwatch
    <2>2. v = w => watch'[w] = Unsubscribed BY <1>0, <1>5 DEF Unwatch
    <2> QED BY <1>a, <1>2, <2>1, <2>2
  <1>6. ASSUME NEW v \in Watchers, WatchReceive(v) PROVE GapFree(watch'[w], sequence')
    <2>1. CASE v # w
      <3>1. watch'[w] = watch[w] /\ sequence' = sequence BY <1>0, <1>6, <2>1 DEF WatchReceive
      <3> QED BY <1>a, <3>1
    <2>2. CASE v = w
      <3> DEFINE q == watch[w].queue
      <3>1. q # <<>> /\ sequence' = sequence
            /\ watch' = [watch EXCEPT ![w].queue = Tail(@), ![w].seen = Head(watch[w].queue)]
        BY <1>6, <2>2 DEF WatchReceive
      <3>2. /\ watch'[w].queue = Tail(q) /\ watch'[w].seen = Head(q)
            /\ watch'[w].on = watch[w].on /\ watch'[w].lost = watch[w].lost
        BY <1>0, <3>1
      <3>3. /\ Len(Tail(q)) = Len(q) - 1 /\ \A i \in 1..Len(Tail(q)) : Tail(q)[i] = q[i + 1]
            /\ Head(q) = q[1] /\ Len(q) \in Nat /\ Len(q) >= 1
        BY <1>0, <3>1, HeadTailProperties, EmptySeq
      <3>4. ASSUME watch[w].on, ~watch[w].lost
            PROVE  /\ Len(Tail(q)) = sequence - Head(q)
                   /\ \A i \in 1..Len(Tail(q)) : Tail(q)[i] = Head(q) + i
        <4>1. /\ Len(q) = sequence - watch[w].seen
              /\ \A i \in 1..Len(q) : q[i] = watch[w].seen + i
          BY <1>a, <3>4 DEF GapFree
        <4>2. Head(q) = watch[w].seen + 1 BY <3>3, <4>1
        <4>3. ASSUME NEW i \in 1..Len(Tail(q)) PROVE Tail(q)[i] = Head(q) + i
          <5>1. Tail(q)[i] = q[i + 1] /\ i + 1 \in 1..Len(q) BY <3>3
          <5>2. q[i + 1] = watch[w].seen + (i + 1) BY <4>1, <5>1
          <5> QED BY <1>0, <4>2, <5>1, <5>2
        <4> QED BY <1>0, <3>3, <4>1, <4>2, <4>3, SMTT(30)
      <3> QED BY <3>1, <3>2, <3>4 DEF GapFree
    <2> QED BY <2>1, <2>2
  <1>7. CASE TxCommit /\ ~tx.notify BY <1>1, <1>7 DEF TxCommit
  <1>8. CASE Close BY <1>2, <1>8 DEF Close
  <1>9. CASE ProcessEnds BY <1>2, <1>9 DEF ProcessEnds
  <1> QED
    BY <1>1, <1>3, <1>4, <1>5, <1>6, <1>7, <1>8, <1>9
    DEF Next, vars, OpenEngine, ReplayItem, OpenDone, TxBegin, TxApply, TxFail, SnapshotOpen,
        SnapshotWritten, SnapshotFail, BackupCopy, RestoreBegin, RestoreWritten,
        RestoreRemoveSegment, RestoreRemovedWAL, RestoreDone, RestoreFail, Exit, PowerLoss

\* A subscriber whose channel never overflowed misses no transaction and sees
\* them in order, for any number of watchers and any channel capacity.
THEOREM WatchersGapFree == Spec => []WatcherGapFree
  <1>1. Init => WatcherGapFree BY DEF Init, WatcherGapFree, Unsubscribed
  <1> QED BY <1>1, TypeCorrect, WatcherStep, PTL DEF Spec

(***************************************************************************)
(* Refinement: the engine implements the durable map, for every set of     *)
(* keys and values and any length of the log.  Initial states map to       *)
(* initial states, and every step of the engine to a step of DurableStore  *)
(* or to a stuttering step.  The inductive invariant of the engine is what *)
(* lets OpenDone map to DurableStarts and the transaction and restore      *)
(* steps map to steps of a store that answers.                             *)
(***************************************************************************)
Content == IF phase = "open" THEN trees ELSE EmptyMap

LEMMA InitMaps == Init => Durable!DurableInit
  <1> SUFFICES ASSUME Init PROVE Durable!DurableInit OBVIOUS
  <1>1. (phase = "open") = FALSE /\ (buried \/ gapped) = FALSE BY DEF Init
  <1>2. Content = EmptyMap BY DEF Init, Content
  <1> QED BY <1>1, <1>2 DEF Init, Content, Durable!DurableInit, Durable!Nothing, EmptyMap

\* What the abstract store shows does not change.
Hidden ==
    /\ (phase' = "open") = (phase = "open")
    /\ phase = "open" => trees' = trees
    /\ UNCHANGED ghostVars
    /\ UNCHANGED damageVars

LEMMA HiddenStutters == Hidden => UNCHANGED Durable!durableVars
  <1> SUFFICES ASSUME Hidden PROVE UNCHANGED Durable!durableVars OBVIOUS
  <1>1. Content' = Content BY DEF Hidden, Content, EmptyMap
  <1>2. (buried \/ gapped)' = (buried \/ gapped) BY DEF Hidden, damageVars
  <1>3. UNCHANGED <<acked, maybe>> BY DEF Hidden, ghostVars
  <1>4. (phase = "open")' = (phase = "open") BY DEF Hidden
  <1> QED BY <1>1, <1>2, <1>3, <1>4 DEF Content, Durable!durableVars

LEMMA HiddenSteps ==
    ASSUME IInv,
           \/ OpenEngine \/ ReplayItem \/ RestoreWritten \/ RestoreRemovedWAL \/ RestoreFail
           \/ \E muts \in TxMutations, notify \in BOOLEAN : TxBegin(muts, notify)
           \/ \E w \in Watchers : WatchTx(w) \/ Unwatch(w) \/ WatchReceive(w)
           \/ \E s \in Snapshotters :
                 SnapshotOpen(s) \/ SnapshotWritten(s) \/ SnapshotFail(s) \/ BackupCopy(s)
           \/ UNCHANGED vars
    PROVE  Hidden
  <1> USE DEF memVars, diskVars, fileVars, eventVars, ghostVars, damageVars
  <1>1. CASE OpenEngine \/ ReplayItem
    <2>1. phase # "open" /\ phase' # "open" BY <1>1 DEF OpenEngine, ReplayItem
    <2>2. UNCHANGED <<acked, maybe, buried, gapped>> BY <1>1 DEF OpenEngine, ReplayItem
    <2> QED BY <2>1, <2>2 DEF Hidden
  <1>2. CASE UNCHANGED <<phase, trees, acked, maybe, buried, gapped>> BY <1>2 DEF Hidden
  <1> QED
    BY <1>1, <1>2
    DEF RestoreWritten, RestoreRemovedWAL, RestoreFail, TxBegin, WatchTx, Unwatch, WatchReceive,
        SnapshotOpen, SnapshotWritten, SnapshotFail, BackupCopy, vars

LEMMA StartMaps == ASSUME IInv, IInv', OpenDone PROVE Durable!DurableStarts
  <1> USE DEF memVars, diskVars, fileVars, eventVars, ghostVars, damageVars
  <1>1. /\ phase = "replaying" /\ phase' = "open" /\ UNCHANGED <<trees, acked, maybe, buried, gapped>>
    BY DEF OpenDone
  <1>2. Content' = trees BY <1>1 DEF Content
  <1>3. trees \in Maps BY DEF IInv, TypeOK
  <1>4. DOMAIN Content' = Keys BY <1>2, <1>3 DEF Maps
  <1>5. buried \/ gapped \/ \A k \in Keys : Content'[k] \in {acked[k]} \cup maybe[k]
    <2>1. MemOK' BY DEF IInv
    <2> QED BY <1>1, <1>2, <2>1 DEF MemOK, Sound, Allowed
  <1>6. (phase = "open") = FALSE /\ (phase' = "open") = TRUE BY <1>1
  <1>7. (buried \/ gapped)' = (buried \/ gapped) BY <1>1
  <1> QED BY <1>1, <1>4, <1>5, <1>6, <1>7 DEF Durable!DurableStarts, Content

LEMMA ApplyMaps ==
    ASSUME IInv, NEW rotate \in BOOLEAN, TxApply(rotate)
    PROVE  Durable!DurableWrite(NextMutation.key, NextMutation.val)
  <1> USE DEF memVars, diskVars, fileVars, eventVars, ghostVars, damageVars
  <1>1. phase = "open" BY DEF IInv, TxOK, TxApply
  <1>2. /\ trees' = [trees EXCEPT ![NextMutation.key] = NextMutation.val]
        /\ maybe' = [maybe EXCEPT ![NextMutation.key] = @ \cup {NextMutation.val}]
        /\ UNCHANGED <<phase, acked, gapped>> /\ buried' = (buried \/ Buries(rotate))
    BY DEF TxApply, WrittenUnacked
  <1>3. Content = trees /\ Content' = trees' BY <1>1, <1>2 DEF Content
  <1>4. (buried \/ gapped) => (buried \/ gapped)' BY <1>2
  <1>5. (phase = "open")' = (phase = "open") BY <1>2
  <1> QED BY <1>1, <1>2, <1>3, <1>4, <1>5 DEF Durable!DurableWrite, Content

LEMMA FailMaps ==
    ASSUME IInv, TxFail
    PROVE  Hidden \/ Durable!DurableWriteFails(NextMutation.key, NextMutation.val)
  <1> USE DEF memVars, diskVars, fileVars, eventVars, ghostVars, damageVars
  <1>1. phase = "open" BY DEF IInv, TxOK, TxFail
  <1>2. UNCHANGED <<phase, trees, acked, gapped>> BY DEF TxFail
  <1>3. CASE UNCHANGED <<maybe, buried>> BY <1>2, <1>3 DEF Hidden
  <1>4. ASSUME NEW rotate \in BOOLEAN, maybe' = WrittenUnacked, buried' = (buried \/ Buries(rotate))
        PROVE  Durable!DurableWriteFails(NextMutation.key, NextMutation.val)
    <2>1. Content' = Content BY <1>2 DEF Content, EmptyMap
    <2>2. (buried \/ gapped) => (buried \/ gapped)' BY <1>2, <1>4
    <2>3. maybe' = [maybe EXCEPT ![NextMutation.key] = @ \cup {NextMutation.val}]
      BY <1>4 DEF WrittenUnacked
    <2>4. (phase = "open")' = (phase = "open") BY <1>2
    <2> QED BY <1>1, <1>2, <2>1, <2>2, <2>3, <2>4 DEF Durable!DurableWriteFails, Content
  <1> QED BY <1>3, <1>4 DEF TxFail

LEMMA CommitMaps == ASSUME IInv, TxCommit PROVE Durable!DurableAck(TxKeys)
  <1> USE DEF memVars, diskVars, fileVars, eventVars, ghostVars, damageVars
  <1>1. phase = "open" BY DEF IInv, TxOK, TxCommit
  <1>2. /\ UNCHANGED <<phase, trees, buried, gapped>>
        /\ acked' = [k \in Keys |-> IF k \in TxKeys THEN trees[k] ELSE acked[k]]
        /\ maybe' = [k \in Keys |-> IF k \in TxKeys THEN {} ELSE maybe[k]]
    BY DEF TxCommit
  <1>3. Content = trees /\ Content' = Content BY <1>1, <1>2 DEF Content
  <1>4. (phase = "open")' = (phase = "open") /\ (buried \/ gapped)' = (buried \/ gapped) BY <1>2
  <1> QED BY <1>1, <1>2, <1>3, <1>4 DEF Durable!DurableAck, Content

LEMMA RestoreMaps ==
    ASSUME IInv
    PROVE  /\ RestoreBegin => Durable!DurableReplaceBegins(backup.map)
           /\ RestoreDone => Durable!DurableReplaced(restore.map)
           /\ \A lo, hi \in 1..Len(wal) :
                 RestoreRemoveSegment(lo, hi) => Hidden \/ Durable!DurableDecays
  <1> USE DEF memVars, diskVars, fileVars, eventVars, ghostVars, damageVars
  <1>1. ASSUME RestoreBegin PROVE Durable!DurableReplaceBegins(backup.map)
    <2>1. /\ phase = "open" /\ UNCHANGED <<phase, trees, acked, buried, gapped>>
          /\ maybe' = [k \in Keys |-> maybe[k] \cup {backup.map[k]}]
      BY <1>1 DEF RestoreBegin
    <2>2. Content' = Content BY <2>1 DEF Content, EmptyMap
    <2>3. (phase = "open")' = (phase = "open") /\ (buried \/ gapped)' = (buried \/ gapped) BY <2>1
    <2> QED BY <2>1, <2>2, <2>3 DEF Durable!DurableReplaceBegins, Content
  <1>2. ASSUME RestoreDone PROVE Durable!DurableReplaced(restore.map)
    <2>1. phase = "open" BY <1>2 DEF IInv, RestoreOK, RestoreDone
    <2>2. /\ UNCHANGED phase /\ trees' = restore.map /\ acked' = restore.map
          /\ maybe' = [k \in Keys |-> {}] /\ buried' = FALSE /\ gapped' = FALSE
      BY <1>2 DEF RestoreDone
    <2>3. Content' = restore.map BY <2>1, <2>2 DEF Content
    <2>4. (phase = "open")' = (phase = "open") /\ (buried \/ gapped)' = FALSE BY <2>2
    <2> QED BY <2>1, <2>2, <2>3, <2>4 DEF Durable!DurableReplaced, Content
  <1>3. ASSUME NEW lo \in 1..Len(wal), NEW hi \in 1..Len(wal), RestoreRemoveSegment(lo, hi)
        PROVE  Hidden \/ Durable!DurableDecays
    <2>1. UNCHANGED <<phase, trees, acked, maybe, buried>> /\ gapped' = (gapped \/ lo > 1)
      BY <1>3 DEF RestoreRemoveSegment
    <2>2. gapped \in BOOLEAN BY DEF IInv, TypeOK
    <2>3. CASE gapped' = gapped BY <2>1, <2>3 DEF Hidden
    <2>4. CASE gapped' # gapped
      <3>1. (buried \/ gapped)' BY <2>1, <2>2, <2>4
      <3>2. Content' = Content BY <2>1 DEF Content, EmptyMap
      <3>3. (phase = "open")' = (phase = "open") BY <2>1
      <3> QED BY <2>1, <3>1, <3>2, <3>3 DEF Durable!DurableDecays, Content
    <2> QED BY <2>3, <2>4
  <1> QED BY <1>1, <1>2, <1>3

LEMMA StopMaps == ASSUME IInv, Close \/ Exit \/ PowerLoss PROVE Durable!DurableStops
  <1> USE DEF memVars, diskVars, fileVars, eventVars, ghostVars, damageVars
  <1>1. phase' # "open" BY DEF Close, Exit, PowerLoss, ProcessEnds
  <1>2. UNCHANGED <<acked, maybe, gapped>> BY DEF Close, Exit, PowerLoss
  <1>3. buried => buried'
    <2>1. CASE Close \/ Exit
      <3>1. buried' = buried BY <2>1 DEF Close, Exit
      <3> QED BY <3>1
    <2>2. CASE PowerLoss
      <3>1. PICK n \in synced..Len(wal), tear \in BOOLEAN :
                buried' = (buried \/ (tear /\ n > 0 /\ wal[n] = Torn))
        BY <2>2, Zenon DEF PowerLoss
      <3> QED BY <3>1, Zenon
    <2> QED BY <2>1, <2>2
  <1>4. Content' = EmptyMap BY <1>1 DEF Content, EmptyMap
  <1>5. (phase = "open")' = FALSE /\ ((buried \/ gapped) => (buried \/ gapped)')
    BY <1>1, <1>2, <1>3
  <1> QED BY <1>2, <1>4, <1>5 DEF Durable!DurableStops, Durable!Nothing, Content, EmptyMap

LEMMA StepMaps ==
    IInv /\ IInv' /\ [Next]_vars => [Durable!DurableNext]_Durable!durableVars
  <1> SUFFICES ASSUME IInv, IInv', [Next]_vars
               PROVE  Durable!DurableNext \/ UNCHANGED Durable!durableVars
    OBVIOUS
  <1>0. CASE Hidden BY <1>0, HiddenStutters
  <1>1. CASE OpenDone BY <1>1, StartMaps DEF Durable!DurableNext
  <1>2. ASSUME NEW rotate \in BOOLEAN, TxApply(rotate) PROVE Durable!DurableNext
    <2>1. NextMutation.key \in Keys /\ NextMutation.val \in Values
      BY <1>2, NextMutationType DEF IInv, TxApply
    <2> QED BY <1>2, <2>1, ApplyMaps DEF Durable!DurableNext
  <1>3. CASE TxFail
    <2>1. NextMutation.key \in Keys /\ NextMutation.val \in Values
      BY <1>3, NextMutationType DEF IInv, TxFail
    <2> QED BY <1>0, <1>3, <2>1, FailMaps DEF Durable!DurableNext
  <1>4. CASE TxCommit
    <2>1. TxKeys \subseteq Keys
      <3>1. tx.muts \in Seq(Mutations) BY DEF IInv, TypeOK
      <3>2. \A i \in 1..Len(tx.muts) : tx.muts[i] \in Mutations BY <3>1, ElementOfSeq
      <3> QED BY <3>2 DEF TxKeys, Mutations
    <2> QED BY <1>4, <2>1, CommitMaps DEF Durable!DurableNext
  <1>5. CASE RestoreBegin
    <2>1. backup.map \in [Keys -> Values]
      BY <1>5, FileTypes DEF IInv, TypeOK, RestoreBegin, Maps
    <2> QED BY <1>5, <2>1, RestoreMaps DEF Durable!DurableNext
  <1>6. CASE RestoreDone
    <2>1. restore.map \in [Keys -> Values] BY DEF IInv, TypeOK, Maps
    <2> QED BY <1>6, <2>1, RestoreMaps DEF Durable!DurableNext
  <1>7. ASSUME NEW lo \in 1..Len(wal), NEW hi \in 1..Len(wal), RestoreRemoveSegment(lo, hi)
        PROVE  Durable!DurableNext \/ UNCHANGED Durable!durableVars
    BY <1>0, <1>7, RestoreMaps DEF Durable!DurableNext
  <1>8. CASE Close \/ Exit \/ PowerLoss BY <1>8, StopMaps DEF Durable!DurableNext
  <1> QED
    BY <1>0, <1>1, <1>2, <1>3, <1>4, <1>5, <1>6, <1>7, <1>8, HiddenSteps DEF Next

\* Readers of the storage engine see a durable map: every behaviour of the
\* engine, through failed appends, crashes, power losses, backups and restores,
\* is one of DurableStore under the mapping of StorageRefinement.
THEOREM EngineImplementsDurableStore == Spec => ImplementsDurableStore
  <1>1. Spec => []IInv BY Inductive
  <1> QED BY <1>1, InitMaps, StepMaps, PTL DEF Spec, ImplementsDurableStore, Durable!DurableSpec
=============================================================================

----------------------------- MODULE Api_proofs -----------------------------
(***************************************************************************)
(* Proofs about the services behind the interfaces: ConfigReload,          *)
(* AuthService and ApiGate, and about these and Ipam beside each other.    *)
(* Each has its own specification and its own inductive invariant; they    *)
(* share no variable.                                                      *)
(***************************************************************************)
EXTENDS MCApi, Ipam_proofs, FiniteSetTheorems, TLAPS

(***************************************************************************)
(* ConfigReload.  A change that has run alone so far knows what is in the  *)
(* file and in the manager; while a change that was disturbed is under     *)
(* way, nothing is promised of the file.                                   *)
(***************************************************************************)
UpdatePcs == {"merge", "write", "bak", "place", "placeMoved"}
ReloadPcs == {"load", "set", "callbacks", "updated", "mark"}
Holding == {"write", "bak", "place", "placeMoved", "set"}
UpdateStates == [pc : UpdatePcs \cup ReloadPcs, before : Configs, next : Configs,
                 key : Keys, val : CfgVals, alone : BOOLEAN]
SignalStates == [pc : ReloadPcs, before : Configs, next : Configs, alone : BOOLEAN]

CfgData ==
    /\ cfgFile \in Configs \cup {Missing, Broken} /\ cfgBak \in Configs \cup {Missing, Broken}
    /\ mgrCfg \in Configs /\ mainCfg \in Configs
    /\ hot \in CfgVals /\ cold \in CfgVals /\ notice \in BOOLEAN /\ crossed \in BOOLEAN
    /\ wanted \in [Keys -> CfgVals \cup {"any"}]

CfgTypes ==
    /\ CfgData
    /\ cthr \in [Threads -> {Quiet} \cup UpdateStates \cup SignalStates]
    /\ \A t \in Updaters : cthr[t] \in {Quiet} \cup UpdateStates
    /\ cthr[Main] \in {Quiet} \cup SignalStates

\* The acknowledged values are in c.
Carries(w, c) == \A k \in Keys : w[k] # "any" => c \in Configs /\ c[k] = w[k]

\* A change c of thread t that has run alone.
Sound(t, c, w, file, bak, mgr) ==
    /\ Carries(w, mgr)
    /\ c.pc \in Holding => Carries(w, c.next)
    /\ IF c.pc = "placeMoved" THEN bak # Missing /\ Carries(w, bak) ELSE Carries(w, file)
    /\ t # Main =>
          /\ w[c.key] = "any"
          /\ c.pc \in Holding => c.next[c.key] = c.val
          /\ c.pc \in ReloadPcs => file \in Configs /\ file[c.key] = c.val
          /\ c.pc \in {"callbacks", "updated", "mark"} => mgr[c.key] = c.val

\* From the lock to the end of the callbacks the settings may lag behind.
HotOK(c, h, mgr) ==
    /\ c.pc = "callbacks" => c.next = mgr
    /\ c.pc \in {"updated", "mark"} => h = mgr["hot"]

CfgInv ==
    /\ CfgTypes
    /\ \A t, u \in Threads : t # u /\ cthr[t] # Quiet /\ cthr[u] # Quiet =>
          cthr[t].alone = FALSE /\ crossed = TRUE
    /\ \A t \in Threads : cthr[t] # Quiet /\ cthr[t].alone = FALSE => wanted = AnyValues
    /\ \A t \in Threads : cthr[t] # Quiet /\ cthr[t].alone = TRUE =>
          Sound(t, cthr[t], wanted, cfgFile, cfgBak, mgrCfg) /\ HotOK(cthr[t], hot, mgrCfg)
    /\ \A t \in Threads : cthr[t] # Quiet /\ crossed = FALSE =>
          HotOK(cthr[t], hot, mgrCfg) /\ (cthr[t].pc # "callbacks" => hot = mgrCfg["hot"])
    /\ AllQuiet => Carries(wanted, cfgFile) /\ Carries(wanted, mgrCfg)
    /\ AllQuiet /\ crossed = FALSE => hot = mgrCfg["hot"]

-----------------------------------------------------------------------------
LEMMA CfgNames ==
    /\ Main \notin Updaters /\ Updaters \subseteq Threads /\ Main \in Threads
    /\ Threads = Updaters \cup {Main}
    /\ "hot" \in Keys /\ "cold" \in Keys /\ DefaultConfig \in Configs
    /\ Missing \notin Configs /\ Broken \notin Configs /\ Missing # Broken
  <1>1. Keys = {"hot", "cold"} /\ Configs = [{"hot", "cold"} -> CfgVals]
    BY DEF Keys, Configs
  <1>2. DefaultConfig \in Configs
    BY CfgAssumption, SMT DEF DefaultConfig, Configs
  <1> QED  BY <1>1, <1>2, CfgAssumption, Zenon DEF Threads

\* A thread is quiet or in the middle of a change, which it can tell.
LEMMA CfgStates ==
    /\ Quiet \notin UpdateStates /\ Quiet \notin SignalStates
    /\ \A c \in UpdateStates : c # Quiet /\ c.pc \in UpdatePcs \cup ReloadPcs /\ c.alone \in BOOLEAN
                               /\ c.next \in Configs /\ c.before \in Configs /\ c.key \in Keys /\ c.val \in CfgVals
    /\ \A c \in SignalStates : c # Quiet /\ c.pc \in ReloadPcs /\ c.alone \in BOOLEAN
                               /\ c.next \in Configs /\ c.before \in Configs
    /\ \A c \in UpdateStates \cup SignalStates : c.pc # "quiet"
  <1>1. Quiet.pc = "quiet" /\ "quiet" \notin UpdatePcs \cup ReloadPcs
    BY SMT DEF Quiet, UpdatePcs, ReloadPcs
  <1>2. \A c \in UpdateStates : c.pc \in UpdatePcs \cup ReloadPcs /\ c.alone \in BOOLEAN
                               /\ c.next \in Configs /\ c.before \in Configs /\ c.key \in Keys /\ c.val \in CfgVals
    BY SMT DEF UpdateStates
  <1>3. \A c \in SignalStates : c.pc \in ReloadPcs /\ c.alone \in BOOLEAN
                               /\ c.next \in Configs /\ c.before \in Configs
    BY SMT DEF SignalStates
  <1> QED  BY <1>1, <1>2, <1>3, Zenon

LEMMA LoadValue ==
    ASSUME NEW f \in Configs \cup {Missing, Broken}, f # Broken
    PROVE  Load(f) \in Configs /\ (f \in Configs => Load(f) = f) /\ Loadable(f)
  BY CfgNames, Zenon DEF Load, Loadable

LEMMA CarriesLoaded ==
    ASSUME NEW w \in [Keys -> CfgVals \cup {"any"}], NEW f, Carries(w, f)
    PROVE  Carries(w, Load(f))
<1>1. ASSUME NEW k \in Keys, w[k] # "any" PROVE Load(f) \in Configs /\ Load(f)[k] = w[k]
  <2>1. f \in Configs /\ f[k] = w[k]
    BY <1>1 DEF Carries
  <2>2. Load(f) = f
    BY <2>1, CfgNames, Zenon DEF Load
  <2> QED  BY <2>1, <2>2
<1> QED  BY <1>1 DEF Carries

LEMMA CarriesNothing == \A c : Carries(AnyValues, c)
  BY SMT DEF Carries, AnyValues

\* A change that has run alone, or while the settings agree, is the only one.
LEMMA OthersQuiet ==
    ASSUME CfgInv, NEW t \in Threads, cthr[t] # Quiet, cthr[t].alone = TRUE \/ crossed = FALSE,
           NEW u \in Threads, u # t
    PROVE  cthr[u] = Quiet
  BY Zenon DEF CfgInv

\* Thread t goes from one step of a change to the next, or ends it.
Carried(t, c2) ==
    /\ cthr' = [cthr EXCEPT ![t] = c2]
    /\ c2 # Quiet => c2.alone = cthr[t].alone
    /\ UNCHANGED <<wanted, crossed>>

LEMMA CfgMoves ==
    ASSUME CfgInv, CfgTypes', NEW t \in Threads, NEW c2, cthr[t] # Quiet, Carried(t, c2),
           cthr[t].alone = TRUE =>
              IF c2 = Quiet THEN Carries(wanted, cfgFile') /\ Carries(wanted, mgrCfg')
              ELSE Sound(t, c2, wanted, cfgFile', cfgBak', mgrCfg'),
           c2 # Quiet /\ (cthr[t].alone = TRUE \/ crossed = FALSE) => HotOK(c2, hot', mgrCfg'),
           crossed = FALSE /\ (c2 = Quiet \/ c2.pc # "callbacks") => hot' = mgrCfg'["hot"]
    PROVE  CfgInv'
<1>1. /\ cthr'[t] = c2 /\ wanted' = wanted /\ crossed' = crossed
      /\ \A u \in Threads : u # t => cthr'[u] = cthr[u]
  BY SMT DEF Carried, CfgInv, CfgTypes
<1>2. crossed \in BOOLEAN /\ cthr[t].alone \in BOOLEAN
  BY CfgStates, Zenon DEF CfgInv, CfgTypes, CfgData
<1>3. cthr[t].alone = TRUE \/ crossed = FALSE => \A u \in Threads : u # t => cthr[u] = Quiet
  BY OthersQuiet, Zenon
<1>4. \A u, v \in Threads : u # v /\ cthr'[u] # Quiet /\ cthr'[v] # Quiet => cthr'[u].alone = FALSE /\ crossed' = TRUE
  <2>1. SUFFICES ASSUME NEW u \in Threads, NEW v \in Threads, u # v, cthr'[u] # Quiet, cthr'[v] # Quiet
                 PROVE  cthr'[u].alone = FALSE /\ crossed' = TRUE
    OBVIOUS
  <2>2. cthr[u] # Quiet /\ cthr[v] # Quiet /\ cthr'[u].alone = cthr[u].alone
    BY <1>1, <2>1, Zenon DEF Carried
  <2> QED  BY <1>1, <2>1, <2>2, Zenon DEF CfgInv
<1>5. \A u \in Threads : cthr'[u] # Quiet => cthr[u] # Quiet /\ cthr'[u].alone = cthr[u].alone
  BY <1>1, Zenon DEF Carried
<1>6. \A u \in Threads : cthr'[u] # Quiet /\ cthr'[u].alone = FALSE => wanted' = AnyValues
  BY <1>1, <1>5, Zenon DEF CfgInv
<1>7. ASSUME NEW u \in Threads, cthr'[u] # Quiet, cthr'[u].alone = TRUE
      PROVE  Sound(u, cthr'[u], wanted', cfgFile', cfgBak', mgrCfg') /\ HotOK(cthr'[u], hot', mgrCfg')
  <2>1. cthr[u] # Quiet /\ cthr[u].alone = TRUE
    BY <1>5, <1>7
  <2>2. u = t
    BY <2>1, OthersQuiet, Zenon
  <2> QED  BY <1>1, <1>7, <2>1, <2>2, Zenon
<1>8. ASSUME NEW u \in Threads, cthr'[u] # Quiet, crossed' = FALSE
      PROVE  HotOK(cthr'[u], hot', mgrCfg') /\ (cthr'[u].pc # "callbacks" => hot' = mgrCfg'["hot"])
  <2>1. u = t
    BY <1>1, <1>3, <1>8, Zenon
  <2> QED  BY <1>1, <1>8, <2>1, Zenon
<1>9. ASSUME AllQuiet'
      PROVE  Carries(wanted', cfgFile') /\ Carries(wanted', mgrCfg') /\ (crossed' = FALSE => hot' = mgrCfg'["hot"])
  <2>1. c2 = Quiet
    BY <1>1, <1>9, Zenon DEF AllQuiet
  <2>2. CASE cthr[t].alone = TRUE
    BY <1>1, <2>1, <2>2, Zenon
  <2>3. CASE cthr[t].alone = FALSE
    <3>1. wanted = AnyValues
      BY <2>3, Zenon DEF CfgInv
    <3> QED  BY <1>1, <2>1, <3>1, CarriesNothing, Zenon
  <2> QED  BY <1>2, <2>2, <2>3, Zenon
<1> QED  BY <1>4, <1>6, <1>7, <1>8, <1>9, Zenon DEF CfgInv

\* The states of thread t.
StatesOf(t) == IF t = Main THEN SignalStates ELSE UpdateStates
ThreadTypes(th) ==
    /\ th \in [Threads -> {Quiet} \cup UpdateStates \cup SignalStates]
    /\ \A t \in Updaters : th[t] \in {Quiet} \cup UpdateStates
    /\ th[Main] \in {Quiet} \cup SignalStates

LEMMA ThreadKeepsTypes ==
    ASSUME CfgTypes, NEW t \in Threads, NEW c2 \in StatesOf(t) \cup {Quiet}, cthr' = [cthr EXCEPT ![t] = c2]
    PROVE  ThreadTypes(cthr')
<1>1. \A u \in Threads : cthr'[u] = IF u = t THEN c2 ELSE cthr[u]
  BY SMT DEF CfgTypes
<1>2. cthr' \in [Threads -> {Quiet} \cup UpdateStates \cup SignalStates]
  BY SMT DEF CfgTypes, StatesOf
<1>3. \A u \in Updaters : cthr'[u] \in {Quiet} \cup UpdateStates
  BY <1>1, CfgNames, SMT DEF CfgTypes, StatesOf
<1>4. cthr'[Main] \in {Quiet} \cup SignalStates
  BY <1>1, CfgNames, SMT DEF CfgTypes, StatesOf
<1> QED  BY <1>2, <1>3, <1>4 DEF ThreadTypes

\* A thread in the middle of a change.
LEMMA InChange ==
    ASSUME CfgTypes, NEW t \in Threads, cthr[t].pc # "quiet"
    PROVE  /\ cthr[t] \in StatesOf(t) /\ cthr[t] # Quiet
           /\ t # Main => t \in Updaters
<1>1. Quiet.pc = "quiet"
  BY DEF Quiet
<1>2. cthr[t] # Quiet /\ (t = Main \/ t \in Updaters)
  BY <1>1, CfgNames, Zenon
<1> QED  BY <1>2, CfgNames, Zenon DEF CfgTypes, StatesOf

\* Record r is c at the step p with the configuration n in hand.
Edited(t, c, r, p, n) ==
    /\ r \in StatesOf(t) /\ r # Quiet /\ r.pc = p /\ r.next = n /\ r.alone = c.alone
    /\ t # Main => r.key = c.key /\ r.val = c.val

LEMMA EditPc ==
    ASSUME NEW t \in Threads, NEW c \in StatesOf(t), NEW p \in UpdatePcs \cup ReloadPcs, t = Main => p \in ReloadPcs
    PROVE  Edited(t, c, [c EXCEPT !.pc = p], p, c.next)
<1>1. CASE t = Main
  <2>1. c \in SignalStates
    BY <1>1 DEF StatesOf
  <2>2. [c EXCEPT !.pc = p] \in SignalStates
    BY <1>1, <2>1, SMT DEF SignalStates
  <2>3. [c EXCEPT !.pc = p].pc = p /\ [c EXCEPT !.pc = p].next = c.next /\ [c EXCEPT !.pc = p].alone = c.alone
    BY <2>1, SMT DEF SignalStates
  <2> QED  BY <1>1, <2>2, <2>3, CfgStates, Zenon DEF Edited, StatesOf
<1>2. CASE t # Main
  <2>1. c \in UpdateStates
    BY <1>2 DEF StatesOf
  <2>2. [c EXCEPT !.pc = p] \in UpdateStates
    BY <2>1, SMT DEF UpdateStates
  <2>3. /\ [c EXCEPT !.pc = p].pc = p /\ [c EXCEPT !.pc = p].next = c.next /\ [c EXCEPT !.pc = p].alone = c.alone
        /\ [c EXCEPT !.pc = p].key = c.key /\ [c EXCEPT !.pc = p].val = c.val
    BY <2>1, SMT DEF UpdateStates
  <2> QED  BY <1>2, <2>2, <2>3, CfgStates, Zenon DEF Edited, StatesOf
<1> QED  BY <1>1, <1>2

LEMMA EditNext ==
    ASSUME NEW t \in Threads, NEW c \in StatesOf(t), NEW n \in Configs
    PROVE  Edited(t, c, [c EXCEPT !.next = n], c.pc, n)
<1>1. CASE t = Main
  <2>1. c \in SignalStates
    BY <1>1 DEF StatesOf
  <2>2. [c EXCEPT !.next = n] \in SignalStates
    BY <2>1, SMT DEF SignalStates
  <2>3. [c EXCEPT !.next = n].pc = c.pc /\ [c EXCEPT !.next = n].next = n /\ [c EXCEPT !.next = n].alone = c.alone
    BY <2>1, SMT DEF SignalStates
  <2> QED  BY <1>1, <2>2, <2>3, CfgStates, Zenon DEF Edited, StatesOf
<1>2. CASE t # Main
  <2>1. c \in UpdateStates
    BY <1>2 DEF StatesOf
  <2>2. [c EXCEPT !.next = n] \in UpdateStates
    BY <2>1, SMT DEF UpdateStates
  <2>3. /\ [c EXCEPT !.next = n].pc = c.pc /\ [c EXCEPT !.next = n].next = n /\ [c EXCEPT !.next = n].alone = c.alone
        /\ [c EXCEPT !.next = n].key = c.key /\ [c EXCEPT !.next = n].val = c.val
    BY <2>1, SMT DEF UpdateStates
  <2> QED  BY <1>2, <2>2, <2>3, CfgStates, Zenon DEF Edited, StatesOf
<1> QED  BY <1>1, <1>2

LEMMA EditBefore ==
    ASSUME NEW t \in Threads, NEW c \in StatesOf(t), NEW b \in Configs
    PROVE  Edited(t, c, [c EXCEPT !.before = b], c.pc, c.next)
<1>1. CASE t = Main
  <2>1. c \in SignalStates
    BY <1>1 DEF StatesOf
  <2>2. [c EXCEPT !.before = b] \in SignalStates
    BY <2>1, SMT DEF SignalStates
  <2>3. [c EXCEPT !.before = b].pc = c.pc /\ [c EXCEPT !.before = b].next = c.next /\ [c EXCEPT !.before = b].alone = c.alone
    BY <2>1, SMT DEF SignalStates
  <2> QED  BY <1>1, <2>2, <2>3, CfgStates, Zenon DEF Edited, StatesOf
<1>2. CASE t # Main
  <2>1. c \in UpdateStates
    BY <1>2 DEF StatesOf
  <2>2. [c EXCEPT !.before = b] \in UpdateStates
    BY <2>1, SMT DEF UpdateStates
  <2>3. /\ [c EXCEPT !.before = b].pc = c.pc /\ [c EXCEPT !.before = b].next = c.next /\ [c EXCEPT !.before = b].alone = c.alone
        /\ [c EXCEPT !.before = b].key = c.key /\ [c EXCEPT !.before = b].val = c.val
    BY <2>1, SMT DEF UpdateStates
  <2> QED  BY <1>2, <2>2, <2>3, CfgStates, Zenon DEF Edited, StatesOf
<1> QED  BY <1>1, <1>2

\* The second of two values of f at t.
LEMMA Twice ==
    ASSUME NEW S, NEW T, NEW f \in [S -> T], NEW t \in S, NEW x, NEW y
    PROVE  /\ [[f EXCEPT ![t] = x] EXCEPT ![t] = y] = [f EXCEPT ![t] = y]
           /\ [f EXCEPT ![t] = x][t] = x
<1>1. PICK g : g = [f EXCEPT ![t] = x]
  OBVIOUS
<1>2. g = [u \in S |-> IF u = t THEN x ELSE f[u]]
  BY <1>1, Zenon
<1>3. [g EXCEPT ![t] = y] = [u \in S |-> IF u = t THEN y ELSE g[u]]
  BY <1>2, SMT
<1>4. [f EXCEPT ![t] = y] = [u \in S |-> IF u = t THEN y ELSE f[u]]
  BY Zenon
<1>5. \A u \in S : (IF u = t THEN y ELSE g[u]) = IF u = t THEN y ELSE f[u]
  BY <1>2, SMT
<1>6. [g EXCEPT ![t] = y] = [f EXCEPT ![t] = y]
  BY <1>3, <1>4, <1>5, Zenon
<1>7. g[t] = x
  BY <1>2, SMT
<1> QED  BY <1>1, <1>6, <1>7, Zenon

\* Thread t goes to the step p, with n in hand, with b before the change.
LEMMA GoesTo ==
    ASSUME CfgTypes, NEW t \in Threads, NEW p \in UpdatePcs \cup ReloadPcs, t = Main => p \in ReloadPcs,
           cthr[t].pc # "quiet", CfgGoes(t, p)
    PROVE  \E r : Edited(t, cthr[t], r, p, cthr[t].next) /\ cthr' = [cthr EXCEPT ![t] = r]
<1>1. cthr[t] \in StatesOf(t)
  BY InChange, Zenon
<1>2. PICK r1 : r1 = [cthr[t] EXCEPT !.pc = p]
  OBVIOUS
<1>3. PICK f1 : f1 = [cthr EXCEPT ![t].pc = p]
  OBVIOUS
<1>4. cthr \in [Threads -> {Quiet} \cup UpdateStates \cup SignalStates]
  BY Zenon DEF CfgTypes
<1>5. f1 = [cthr EXCEPT ![t] = r1] /\ f1[t] = r1
  <2>1. f1 = [cthr EXCEPT ![t] = r1]
    BY <1>2, <1>3, Zenon
  <2> QED  BY <1>4, <2>1, Twice, Zenon
<1>6. Edited(t, cthr[t], r1, p, cthr[t].next)
  BY <1>1, <1>2, EditPc, Zenon
<1> QED  BY <1>3, <1>5, <1>6, Zenon DEF CfgGoes

CfgGoesWith(t, p, n) == cthr' = [cthr EXCEPT ![t].pc = p, ![t].next = n]
CfgGoesAfter(t, p, n, b) == cthr' = [cthr EXCEPT ![t].pc = p, ![t].next = n, ![t].before = b]

LEMMA GoesWith ==
    ASSUME CfgTypes, NEW t \in Threads, NEW p \in UpdatePcs \cup ReloadPcs, t = Main => p \in ReloadPcs,
           NEW n \in Configs, cthr[t].pc # "quiet", CfgGoesWith(t, p, n)
    PROVE  \E r : Edited(t, cthr[t], r, p, n) /\ cthr' = [cthr EXCEPT ![t] = r]
<1>1. cthr[t] \in StatesOf(t)
  BY InChange, Zenon
<1>2. PICK r1 : r1 = [cthr[t] EXCEPT !.pc = p]
  OBVIOUS
<1>3. PICK f1 : f1 = [cthr EXCEPT ![t].pc = p]
  OBVIOUS
<1>4. cthr \in [Threads -> {Quiet} \cup UpdateStates \cup SignalStates]
  BY Zenon DEF CfgTypes
<1>5. f1 = [cthr EXCEPT ![t] = r1] /\ f1[t] = r1
  <2>1. f1 = [cthr EXCEPT ![t] = r1]
    BY <1>2, <1>3, Zenon
  <2> QED  BY <1>4, <2>1, Twice, Zenon
<1>6. Edited(t, cthr[t], r1, p, cthr[t].next)
  BY <1>1, <1>2, EditPc, Zenon
<1>7. PICK r2 : r2 = [r1 EXCEPT !.next = n]
  OBVIOUS
<1>8. PICK f2 : f2 = [f1 EXCEPT ![t].next = n]
  OBVIOUS
<1>9. f2 = [cthr EXCEPT ![t] = r2] /\ f2[t] = r2
  <2>1. f2 = [f1 EXCEPT ![t] = r2]
    BY <1>5, <1>7, <1>8, Zenon
  <2>2. f2 = [cthr EXCEPT ![t] = r2]
    BY <1>4, <1>5, <2>1, Twice, Zenon
  <2> QED  BY <1>4, <2>2, Twice, Zenon
<1>10. Edited(t, r1, r2, p, n)
  <2>1. r1 \in StatesOf(t) /\ r1.pc = p
    BY <1>6 DEF Edited
  <2>2. Edited(t, r1, r2, r1.pc, n)
    BY <1>7, <2>1, EditNext, Zenon
  <2> QED  BY <2>1, <2>2, Zenon
<1>11. Edited(t, cthr[t], r2, p, n)
  BY <1>6, <1>10, Zenon DEF Edited
<1>12. cthr' = f2
  BY <1>3, <1>8, Zenon DEF CfgGoesWith
<1> QED  BY <1>9, <1>11, <1>12, Zenon

LEMMA GoesAfter ==
    ASSUME CfgTypes, NEW t \in Threads, NEW p \in UpdatePcs \cup ReloadPcs, t = Main => p \in ReloadPcs,
           NEW n \in Configs, NEW b \in Configs, cthr[t].pc # "quiet",
           CfgGoesAfter(t, p, n, b)
    PROVE  \E r : Edited(t, cthr[t], r, p, n) /\ cthr' = [cthr EXCEPT ![t] = r]
<1>1. cthr[t] \in StatesOf(t)
  BY InChange, Zenon
<1>2. PICK r1 : r1 = [cthr[t] EXCEPT !.pc = p]
  OBVIOUS
<1>3. PICK f1 : f1 = [cthr EXCEPT ![t].pc = p]
  OBVIOUS
<1>4. cthr \in [Threads -> {Quiet} \cup UpdateStates \cup SignalStates]
  BY Zenon DEF CfgTypes
<1>5. f1 = [cthr EXCEPT ![t] = r1] /\ f1[t] = r1
  <2>1. f1 = [cthr EXCEPT ![t] = r1]
    BY <1>2, <1>3, Zenon
  <2> QED  BY <1>4, <2>1, Twice, Zenon
<1>6. Edited(t, cthr[t], r1, p, cthr[t].next)
  BY <1>1, <1>2, EditPc, Zenon
<1>7. PICK r2 : r2 = [r1 EXCEPT !.next = n]
  OBVIOUS
<1>8. PICK f2 : f2 = [f1 EXCEPT ![t].next = n]
  OBVIOUS
<1>9. f2 = [cthr EXCEPT ![t] = r2] /\ f2[t] = r2
  <2>1. f2 = [f1 EXCEPT ![t] = r2]
    BY <1>5, <1>7, <1>8, Zenon
  <2>2. f2 = [cthr EXCEPT ![t] = r2]
    BY <1>4, <1>5, <2>1, Twice, Zenon
  <2> QED  BY <1>4, <2>2, Twice, Zenon
<1>10. Edited(t, r1, r2, p, n)
  <2>1. r1 \in StatesOf(t) /\ r1.pc = p
    BY <1>6 DEF Edited
  <2>2. Edited(t, r1, r2, r1.pc, n)
    BY <1>7, <2>1, EditNext, Zenon
  <2> QED  BY <2>1, <2>2, Zenon
<1>11. Edited(t, cthr[t], r2, p, n)
  BY <1>6, <1>10, Zenon DEF Edited
<1>12. PICK r3 : r3 = [r2 EXCEPT !.before = b]
  OBVIOUS
<1>13. PICK f3 : f3 = [f2 EXCEPT ![t].before = b]
  OBVIOUS
<1>14. f3 = [cthr EXCEPT ![t] = r3]
  <2>1. f3 = [f2 EXCEPT ![t] = r3]
    BY <1>9, <1>12, <1>13, Zenon
  <2> QED  BY <1>4, <1>9, <2>1, Twice, Zenon
<1>15. Edited(t, r2, r3, p, n)
  <2>1. r2 \in StatesOf(t) /\ r2.pc = p /\ r2.next = n
    BY <1>11 DEF Edited
  <2>2. Edited(t, r2, r3, r2.pc, r2.next)
    BY <1>12, <2>1, EditBefore, Zenon
  <2> QED  BY <2>1, <2>2, Zenon
<1>16. Edited(t, cthr[t], r3, p, n)
  BY <1>11, <1>15, Zenon DEF Edited
<1>17. cthr' = f3
  BY <1>3, <1>8, <1>13, Zenon DEF CfgGoesAfter
<1> QED  BY <1>14, <1>16, <1>17, Zenon

\* What CfgInv says of one thread.
LEMMA OfThread ==
    ASSUME CfgInv, NEW t \in Threads, cthr[t] # Quiet
    PROVE  /\ cthr[t].alone = TRUE =>
                 Sound(t, cthr[t], wanted, cfgFile, cfgBak, mgrCfg) /\ HotOK(cthr[t], hot, mgrCfg)
           /\ cthr[t].alone = FALSE => wanted = AnyValues
           /\ crossed = FALSE =>
                 HotOK(cthr[t], hot, mgrCfg) /\ (cthr[t].pc # "callbacks" => hot = mgrCfg["hot"])
  BY Zenon DEF CfgInv

\* Thread t goes on to r, at the step p with the configuration n in hand.
LEMMA CfgGoesOn ==
    ASSUME CfgInv, CfgData', NEW t \in Threads, NEW r, NEW p, NEW n, cthr[t].pc # "quiet",
           Edited(t, cthr[t], r, p, n), cthr' = [cthr EXCEPT ![t] = r], UNCHANGED <<wanted, crossed>>,
           cthr[t].alone = TRUE => Sound(t, r, wanted, cfgFile', cfgBak', mgrCfg'),
           cthr[t].alone = TRUE \/ crossed = FALSE => HotOK(r, hot', mgrCfg'),
           crossed = FALSE /\ p # "callbacks" => hot' = mgrCfg'["hot"]
    PROVE  CfgInv'
<1>1. CfgTypes /\ cthr[t] # Quiet
  BY InChange, Zenon DEF CfgInv
<1>2. r # Quiet /\ r \in StatesOf(t) /\ r.pc = p /\ r.alone = cthr[t].alone
  BY Zenon DEF Edited
<1>3. ThreadTypes(cthr')
  BY <1>1, <1>2, ThreadKeepsTypes, Zenon
<1>4. CfgTypes'
  BY <1>3, Zenon DEF CfgTypes, ThreadTypes
<1>5. Carried(t, r)
  BY <1>2, Zenon DEF Carried
<1> QED  BY <1>1, <1>2, <1>4, <1>5, CfgMoves, Zenon

\* Thread t is done.
LEMMA CfgFinishes ==
    ASSUME CfgInv, CfgData', NEW t \in Threads, cthr[t].pc # "quiet", CfgEnds(t), UNCHANGED <<wanted, crossed>>,
           cthr[t].alone = TRUE => Carries(wanted, cfgFile') /\ Carries(wanted, mgrCfg'),
           crossed = FALSE => hot' = mgrCfg'["hot"]
    PROVE  CfgInv'
<1>1. CfgTypes /\ cthr[t] # Quiet
  BY InChange, Zenon DEF CfgInv
<1>2. cthr' = [cthr EXCEPT ![t] = Quiet]
  BY DEF CfgEnds
<1>3. ThreadTypes(cthr')
  BY <1>1, <1>2, ThreadKeepsTypes, Zenon
<1>4. CfgTypes'
  BY <1>3, Zenon DEF CfgTypes, ThreadTypes
<1>5. Carried(t, Quiet)
  BY <1>2, Zenon DEF Carried
<1> QED  BY <1>1, <1>4, <1>5, CfgMoves, Zenon

LEMMA MergeKeeps ==
    ASSUME CfgInv, NEW t \in Updaters, UpdateMerge(t)
    PROVE  CfgInv'
<1>1. t \in Threads /\ t # Main /\ CfgTypes /\ CfgData
  BY CfgNames, Zenon DEF CfgInv, CfgTypes
<1>2. PICK c \in UpdateStates : c = cthr[t] /\ c.pc = "merge" /\ c # Quiet
  BY <1>1, InChange, Zenon DEF UpdateMerge, CfgAt, StatesOf
<1>3. PICK n : n = [mgrCfg EXCEPT ![c.key] = c.val]
  OBVIOUS
<1>4. n \in Configs /\ n[c.key] = c.val /\ \A k \in Keys : k # c.key => n[k] = mgrCfg[k]
  BY <1>1, <1>2, <1>3, CfgStates, SMT DEF CfgData, Configs
<1>5. c \in StatesOf(t) /\ "write" \in UpdatePcs \cup ReloadPcs
  BY <1>1, <1>2, SMT DEF StatesOf, UpdatePcs
<1>6. CfgGoesWith(t, "write", n) /\ UNCHANGED <<cfgFile, cfgBak, procVars, cleft, wanted, crossed>>
  BY <1>2, <1>3, Zenon DEF UpdateMerge, mergeConfigPayload, CfgGoesWith
<1>7. PICK r : Edited(t, c, r, "write", n) /\ cthr' = [cthr EXCEPT ![t] = r]
  <2>1. cthr[t].pc # "quiet" /\ (t = Main => "write" \in ReloadPcs)
    BY <1>1, <1>2
  <2>2. \E r : Edited(t, cthr[t], r, "write", n) /\ cthr' = [cthr EXCEPT ![t] = r]
    BY <1>1, <1>4, <1>5, <1>6, <2>1, GoesWith, ZenonT(30)
  <2> QED  BY <1>2, <2>2, Zenon
<1>8. UNCHANGED <<cfgFile, cfgBak, mgrCfg, hot, crossed, wanted>> /\ CfgData'
  BY <1>1, <1>6, Zenon DEF procVars, CfgData
<1>9. r.pc = "write" /\ r.next = n /\ r.key = c.key /\ r.val = c.val
  BY <1>1, <1>7, Zenon DEF Edited
<1>10. ASSUME c.alone = TRUE PROVE Sound(t, r, wanted, cfgFile, cfgBak, mgrCfg)
  <2>1. Sound(t, c, wanted, cfgFile, cfgBak, mgrCfg)
    BY <1>1, <1>2, <1>10, OfThread, Zenon
  <2>2. Carries(wanted, mgrCfg) /\ Carries(wanted, cfgFile) /\ wanted[c.key] = "any"
    BY <1>1, <1>2, <2>1, SMT DEF Sound
  <2>3. Carries(wanted, n)
    BY <1>4, <2>2, SMT DEF Carries
  <2> QED  BY <1>4, <1>9, <2>2, <2>3, SMT DEF Sound, ReloadPcs
<1>11. HotOK(r, hot, mgrCfg) /\ (crossed = FALSE => hot = mgrCfg["hot"])
  <2>1. HotOK(r, hot, mgrCfg) /\ c.pc # "callbacks"
    BY <1>2, <1>9, SMT DEF HotOK
  <2> QED  BY <1>1, <1>2, <2>1, OfThread, Zenon
<1> QED  BY <1>1, <1>2, <1>6, <1>7, <1>8, <1>10, <1>11, CfgGoesOn, Zenon

\* What the thread t, in the middle of a change, may rely on.
LEMMA CfgContext ==
    ASSUME CfgInv, NEW t \in Threads, cthr[t].pc # "quiet"
    PROVE  /\ CfgTypes /\ CfgData /\ cthr[t] # Quiet /\ cthr[t] \in StatesOf(t) /\ cthr[t].next \in Configs
           /\ cthr[t].alone \in BOOLEAN /\ (t # Main => t \in Updaters /\ cthr[t] \in UpdateStates)
<1>1. CfgTypes /\ CfgData
  BY Zenon DEF CfgInv, CfgTypes
<1>2. cthr[t] # Quiet /\ cthr[t] \in StatesOf(t) /\ (t # Main => t \in Updaters)
  BY <1>1, InChange, Zenon
<1> QED  BY <1>1, <1>2, CfgStates, Zenon DEF StatesOf

\* Outside the callbacks, and while no changes have crossed, the settings are the manager's.
LEMMA HotSettled ==
    ASSUME CfgInv, NEW t \in Threads, cthr[t].pc # "quiet", cthr[t].pc # "callbacks", crossed = FALSE
    PROVE  hot = mgrCfg["hot"]
<1>1. cthr[t] # Quiet
  BY CfgContext, Zenon
<1> QED  BY <1>1, OfThread, Zenon

LEMMA WriteKeeps ==
    ASSUME CfgInv, NEW t \in Updaters, UpdateWrite(t)
    PROVE  CfgInv'
<1>1. t \in Threads /\ t # Main /\ cthr[t].pc = "write" /\ cthr[t].pc # "quiet"
  BY CfgNames, SMT DEF UpdateWrite, CfgAt
<1>2. PICK c : c = cthr[t]
  OBVIOUS
<1>3. CfgTypes /\ CfgData /\ c \in UpdateStates /\ c # Quiet /\ c.next \in Configs
  BY <1>1, <1>2, CfgContext, Zenon
<1>4. UNCHANGED <<cfgBak, mgrCfg, mainCfg, hot, cold, notice, crossed, wanted>>
  BY Zenon DEF UpdateWrite, procVars
<1>5. ASSUME c.alone = TRUE
      PROVE  /\ Carries(wanted, mgrCfg) /\ Carries(wanted, cfgFile) /\ Carries(wanted, c.next)
             /\ wanted[c.key] = "any" /\ c.next[c.key] = c.val
  <2>1. Sound(t, c, wanted, cfgFile, cfgBak, mgrCfg)
    BY <1>1, <1>2, <1>3, <1>5, OfThread, Zenon
  <2> QED  BY <1>1, <1>2, <2>1, SMT DEF Sound, Holding
<1>6. crossed = FALSE => hot = mgrCfg["hot"]
  <2>1. cthr[t].pc # "callbacks"
    BY <1>1
  <2> QED  BY <1>1, <2>1, HotSettled, Zenon
<1>7. CASE cfgFile' = c.next /\ CfgGoes(t, "load")
  <2>1. CfgData'
    BY <1>3, <1>4, <1>7, Zenon DEF CfgData
  <2>2. "load" \in UpdatePcs \cup ReloadPcs /\ (t = Main => "load" \in ReloadPcs)
    BY SMT DEF ReloadPcs
  <2>3. PICK r : Edited(t, cthr[t], r, "load", cthr[t].next) /\ cthr' = [cthr EXCEPT ![t] = r]
    BY <1>1, <1>3, <1>7, <2>2, GoesTo, Zenon
  <2>4. r.pc = "load" /\ r.key = c.key /\ r.val = c.val
    BY <1>1, <1>2, <2>3, Zenon DEF Edited
  <2>5. c.alone = TRUE => Sound(t, r, wanted, cfgFile', cfgBak', mgrCfg')
    <3>1. SUFFICES ASSUME c.alone = TRUE PROVE Sound(t, r, wanted, cfgFile', cfgBak', mgrCfg')
      OBVIOUS
    <3>2. Carries(wanted, mgrCfg) /\ Carries(wanted, c.next) /\ wanted[c.key] = "any" /\ c.next[c.key] = c.val
      BY <1>5, <3>1, Zenon
    <3> QED  BY <1>3, <1>4, <1>5, <3>1, <3>2, <1>7, <2>4, SMT DEF Sound, Holding, ReloadPcs
  <2>6. HotOK(r, hot', mgrCfg')
    BY <2>4, SMT DEF HotOK
  <2>7. crossed = FALSE => hot' = mgrCfg'["hot"]
    BY <1>4, <1>6, Zenon
  <2> QED  BY <1>1, <1>2, <1>4, <2>1, <2>3, <2>5, <2>6, <2>7, CfgGoesOn, Zenon
<1>8. CASE CfgEnds(t) /\ UNCHANGED cfgFile
  <2>1. CfgData'
    BY <1>3, <1>4, <1>8, Zenon DEF CfgData
  <2> QED  BY <1>1, <1>2, <1>4, <1>5, <1>6, <1>8, <2>1, CfgFinishes, Zenon
<1>9. CASE CfgGoes(t, "bak") /\ UNCHANGED cfgFile
  <2>1. CfgData'
    BY <1>3, <1>4, <1>9, Zenon DEF CfgData
  <2>2. "bak" \in UpdatePcs \cup ReloadPcs /\ (t = Main => "bak" \in ReloadPcs)
    BY <1>1, SMT DEF UpdatePcs
  <2>3. PICK r : Edited(t, cthr[t], r, "bak", cthr[t].next) /\ cthr' = [cthr EXCEPT ![t] = r]
    BY <1>1, <1>3, <1>9, <2>2, GoesTo, Zenon
  <2>4. r.pc = "bak" /\ r.key = c.key /\ r.val = c.val /\ r.next = c.next
    BY <1>1, <1>2, <2>3, Zenon DEF Edited
  <2>5. c.alone = TRUE => Sound(t, r, wanted, cfgFile', cfgBak', mgrCfg')
    <3>1. SUFFICES ASSUME c.alone = TRUE PROVE Sound(t, r, wanted, cfgFile', cfgBak', mgrCfg')
      OBVIOUS
    <3>2. Carries(wanted, mgrCfg) /\ Carries(wanted, c.next) /\ wanted[c.key] = "any" /\ c.next[c.key] = c.val
      BY <1>5, <3>1, Zenon
    <3>3. Carries(wanted, cfgFile') /\ Carries(wanted, mgrCfg')
      BY <1>4, <1>5, <1>9, <3>1, Zenon
    <3> QED  BY <2>4, <3>2, <3>3, SMT DEF Sound, ReloadPcs
  <2>6. HotOK(r, hot', mgrCfg')
    BY <2>4, SMT DEF HotOK
  <2>7. crossed = FALSE => hot' = mgrCfg'["hot"]
    BY <1>4, <1>6, Zenon
  <2> QED  BY <1>1, <1>2, <1>4, <2>1, <2>3, <2>5, <2>6, <2>7, CfgGoesOn, Zenon
<1> QED  BY <1>2, <1>7, <1>8, <1>9, Zenon DEF UpdateWrite

LEMMA BakKeeps ==
    ASSUME CfgInv, NEW t \in Updaters, UpdateBak(t)
    PROVE  CfgInv'
<1>1. t \in Threads /\ t # Main /\ cthr[t].pc = "bak" /\ cthr[t].pc # "quiet"
  BY CfgNames, SMT DEF UpdateBak, CfgAt
<1>2. PICK c : c = cthr[t]
  OBVIOUS
<1>3. CfgTypes /\ CfgData /\ c \in UpdateStates /\ c # Quiet /\ c.next \in Configs
  BY <1>1, <1>2, CfgContext, Zenon
<1>4. UNCHANGED <<mgrCfg, mainCfg, hot, cold, notice, crossed, wanted>>
  BY Zenon DEF UpdateBak, procVars
<1>5. ASSUME c.alone = TRUE
      PROVE  /\ Carries(wanted, mgrCfg) /\ Carries(wanted, cfgFile) /\ Carries(wanted, c.next)
             /\ wanted[c.key] = "any" /\ c.next[c.key] = c.val
  <2>1. Sound(t, c, wanted, cfgFile, cfgBak, mgrCfg)
    BY <1>1, <1>2, <1>3, <1>5, OfThread, Zenon
  <2> QED  BY <1>1, <1>2, <2>1, SMT DEF Sound, Holding
<1>6. crossed = FALSE => hot = mgrCfg["hot"]
  <2>1. cthr[t].pc # "callbacks"
    BY <1>1
  <2> QED  BY <1>1, <2>1, HotSettled, Zenon
<1>7. CASE /\ cfgBak' = cfgFile /\ cfgFile' = Missing
           /\ cthr' = [cthr EXCEPT ![t].pc = IF cfgFile = Missing THEN "place" ELSE "placeMoved"]
  <2>1. CfgData'
    BY <1>3, <1>4, <1>7, Zenon DEF CfgData
  <2>2. PICK p : p = IF cfgFile = Missing THEN "place" ELSE "placeMoved"
    OBVIOUS
  <2>3. p \in UpdatePcs \cup ReloadPcs /\ (t = Main => p \in ReloadPcs) /\ p \notin ReloadPcs /\ CfgGoes(t, p)
    <3>1. CfgGoes(t, p)
      BY <1>7, <2>2, Zenon DEF CfgGoes
    <3> QED  BY <1>1, <2>2, <3>1, SMT DEF UpdatePcs, ReloadPcs
  <2>4. PICK r : Edited(t, cthr[t], r, p, cthr[t].next) /\ cthr' = [cthr EXCEPT ![t] = r]
    BY <1>1, <1>3, <2>3, GoesTo, Zenon
  <2>5. r.pc = p /\ r.key = c.key /\ r.val = c.val /\ r.next = c.next
    BY <1>1, <1>2, <2>4, Zenon DEF Edited
  <2>6. c.alone = TRUE => Sound(t, r, wanted, cfgFile', cfgBak', mgrCfg')
    <3>1. SUFFICES ASSUME c.alone = TRUE PROVE Sound(t, r, wanted, cfgFile', cfgBak', mgrCfg')
      OBVIOUS
    <3>2. Carries(wanted, mgrCfg) /\ Carries(wanted, c.next) /\ wanted[c.key] = "any" /\ c.next[c.key] = c.val
      BY <1>5, <3>1, Zenon
    <3>3. Carries(wanted, mgrCfg') /\ Carries(wanted, cfgFile)
      BY <1>4, <1>5, <3>1, Zenon
    <3>4. p = "placeMoved" => cfgBak' # Missing /\ Carries(wanted, cfgBak')
      BY <1>7, <2>2, <3>3, SMT
    <3>5. p # "placeMoved" => p = "place" /\ Carries(wanted, cfgFile')
      BY <1>7, <2>2, <3>3, SMT
    <3> QED  BY <2>3, <2>5, <3>2, <3>3, <3>4, <3>5, SMT DEF Sound, ReloadPcs
  <2>7. HotOK(r, hot', mgrCfg')
    BY <2>2, <2>5, SMT DEF HotOK
  <2>8. crossed = FALSE => hot' = mgrCfg'["hot"]
    BY <1>4, <1>6, Zenon
  <2> QED  BY <1>1, <1>2, <1>4, <2>1, <2>4, <2>6, <2>7, <2>8, CfgGoesOn, Zenon
<1>8. CASE CfgEnds(t) /\ cfgBak' = Missing /\ UNCHANGED cfgFile
  <2>1. CfgData'
    BY <1>3, <1>4, <1>8, Zenon DEF CfgData
  <2> QED  BY <1>1, <1>2, <1>4, <1>5, <1>6, <1>8, <2>1, CfgFinishes, Zenon
<1> QED  BY <1>7, <1>8, Zenon DEF UpdateBak

LEMMA PlaceKeeps ==
    ASSUME CfgInv, NEW t \in Updaters, UpdatePlace(t)
    PROVE  CfgInv'
<1>1. t \in Threads /\ t # Main /\ cthr[t].pc \in {"place", "placeMoved"} /\ cthr[t].pc # "quiet"
  BY CfgNames, SMT DEF UpdatePlace
<1>2. PICK c : c = cthr[t]
  OBVIOUS
<1>3. CfgTypes /\ CfgData /\ c \in UpdateStates /\ c # Quiet /\ c.next \in Configs
  BY <1>1, <1>2, CfgContext, Zenon
<1>4. UNCHANGED <<mgrCfg, mainCfg, hot, cold, notice, crossed, wanted>>
  BY Zenon DEF UpdatePlace, procVars
<1>5. ASSUME c.alone = TRUE
      PROVE  /\ Carries(wanted, mgrCfg) /\ Carries(wanted, c.next)
             /\ IF c.pc = "placeMoved" THEN cfgBak # Missing /\ Carries(wanted, cfgBak) ELSE Carries(wanted, cfgFile)
             /\ wanted[c.key] = "any" /\ c.next[c.key] = c.val
  <2>1. Sound(t, c, wanted, cfgFile, cfgBak, mgrCfg)
    BY <1>1, <1>2, <1>3, <1>5, OfThread, Zenon
  <2> QED  BY <1>1, <1>2, <2>1, SMT DEF Sound, Holding
<1>6. crossed = FALSE => hot = mgrCfg["hot"]
  <2>1. cthr[t].pc # "callbacks"
    BY <1>1
  <2> QED  BY <1>1, <2>1, HotSettled, Zenon
<1>7. CASE /\ cfgFile' = c.next /\ cfgBak' = IF CfgAt(t, "placeMoved") THEN Missing ELSE cfgBak
           /\ CfgGoes(t, "load")
  <2>1. CfgData'
    BY <1>3, <1>4, <1>7, Zenon DEF CfgData
  <2>2. "load" \in UpdatePcs \cup ReloadPcs /\ (t = Main => "load" \in ReloadPcs)
    BY SMT DEF ReloadPcs
  <2>3. PICK r : Edited(t, cthr[t], r, "load", cthr[t].next) /\ cthr' = [cthr EXCEPT ![t] = r]
    BY <1>1, <1>3, <1>7, <2>2, GoesTo, Zenon
  <2>4. r.pc = "load" /\ r.key = c.key /\ r.val = c.val
    BY <1>1, <1>2, <2>3, Zenon DEF Edited
  <2>5. c.alone = TRUE => Sound(t, r, wanted, cfgFile', cfgBak', mgrCfg')
    <3>1. SUFFICES ASSUME c.alone = TRUE PROVE Sound(t, r, wanted, cfgFile', cfgBak', mgrCfg')
      OBVIOUS
    <3>2. Carries(wanted, mgrCfg) /\ Carries(wanted, c.next) /\ wanted[c.key] = "any" /\ c.next[c.key] = c.val
      BY <1>5, <3>1, Zenon
    <3> QED  BY <1>3, <1>4, <1>5, <3>1, <3>2, <1>7, <2>4, SMT DEF Sound, Holding, ReloadPcs
  <2>6. HotOK(r, hot', mgrCfg')
    BY <2>4, SMT DEF HotOK
  <2>7. crossed = FALSE => hot' = mgrCfg'["hot"]
    BY <1>4, <1>6, Zenon
  <2> QED  BY <1>1, <1>2, <1>4, <2>1, <2>3, <2>5, <2>6, <2>7, CfgGoesOn, Zenon
<1>8. CASE /\ CfgEnds(t)
           /\ IF CfgAt(t, "placeMoved") /\ cfgBak # Missing
              THEN cfgFile' = cfgBak /\ cfgBak' = Missing
              ELSE UNCHANGED <<cfgFile, cfgBak>>
  <2>1. CfgData'
    BY <1>3, <1>4, <1>8, Zenon DEF CfgData
  <2>2. c.alone = TRUE => Carries(wanted, cfgFile') /\ Carries(wanted, mgrCfg')
    BY <1>2, <1>4, <1>5, <1>8, Zenon DEF CfgAt
  <2>3. crossed = FALSE => hot' = mgrCfg'["hot"]
    BY <1>4, <1>6, Zenon
  <2> QED  BY <1>1, <1>2, <1>4, <1>8, <2>1, <2>2, <2>3, CfgFinishes, Zenon
<1> QED  BY <1>2, <1>7, <1>8, Zenon DEF UpdatePlace

LEMMA LoadKeeps ==
    ASSUME CfgInv, NEW t \in Threads, ReloadLoad(t)
    PROVE  CfgInv'
<1>1. cthr[t].pc = "load" /\ cthr[t].pc # "quiet"
  BY SMT DEF ReloadLoad, CfgAt
<1>2. PICK c : c = cthr[t]
  OBVIOUS
<1>3. CfgTypes /\ CfgData /\ c # Quiet /\ c.next \in Configs
  BY <1>1, <1>2, CfgContext, Zenon
<1>4. UNCHANGED <<cfgFile, cfgBak, mgrCfg, mainCfg, hot, cold, notice, crossed, wanted>> /\ CfgData'
  BY <1>3, Zenon DEF ReloadLoad, procVars, CfgData
<1>5. ASSUME c.alone = TRUE
      PROVE  /\ Carries(wanted, mgrCfg) /\ Carries(wanted, cfgFile)
             /\ t # Main => wanted[c.key] = "any" /\ cfgFile \in Configs /\ cfgFile[c.key] = c.val
  <2>1. Sound(t, c, wanted, cfgFile, cfgBak, mgrCfg)
    BY <1>1, <1>2, <1>3, <1>5, OfThread, Zenon
  <2> QED  BY <1>1, <1>2, <2>1, SMT DEF Sound, ReloadPcs
<1>6. crossed = FALSE => hot = mgrCfg["hot"]
  <2>1. cthr[t].pc # "callbacks"
    BY <1>1
  <2> QED  BY <1>1, <2>1, HotSettled, Zenon
<1>7. CASE Loadable(cfgFile)
  <2>1. PICK n : n = Load(cfgFile)
    OBVIOUS
  <2>2. CfgGoesWith(t, "set", n)
    BY <1>7, <2>1, Zenon DEF ReloadLoad, CfgGoesWith
  <2>3. n \in Configs /\ (cfgFile \in Configs => n = cfgFile)
    <3>1. cfgFile \in Configs \cup {Missing, Broken} /\ cfgFile # Broken
      BY <1>3, <1>7, Zenon DEF CfgData, Loadable
    <3> QED  BY <2>1, <3>1, LoadValue, Zenon
  <2>4. "set" \in UpdatePcs \cup ReloadPcs /\ (t = Main => "set" \in ReloadPcs)
    BY SMT DEF ReloadPcs
  <2>5. PICK r : Edited(t, cthr[t], r, "set", n) /\ cthr' = [cthr EXCEPT ![t] = r]
    BY <1>1, <1>3, <2>2, <2>3, <2>4, GoesWith, Zenon
  <2>6. r.pc = "set" /\ r.next = n /\ (t # Main => r.key = c.key /\ r.val = c.val)
    BY <1>2, <2>5, Zenon DEF Edited
  <2>7. c.alone = TRUE => Sound(t, r, wanted, cfgFile', cfgBak', mgrCfg')
    <3>1. SUFFICES ASSUME c.alone = TRUE PROVE Sound(t, r, wanted, cfgFile', cfgBak', mgrCfg')
      OBVIOUS
    <3>2. Carries(wanted, n)
      <4>1. wanted \in [Keys -> CfgVals \cup {"any"}] /\ Carries(wanted, cfgFile)
        BY <1>3, <1>5, <3>1, Zenon DEF CfgData
      <4> QED  BY <2>1, <4>1, CarriesLoaded, Zenon
    <3>3. Carries(wanted, mgrCfg') /\ Carries(wanted, cfgFile')
      BY <1>4, <1>5, <3>1, Zenon
    <3>4. t # Main => wanted[r.key] = "any" /\ cfgFile' \in Configs /\ cfgFile'[r.key] = r.val /\ n[r.key] = r.val
      BY <1>4, <1>5, <2>3, <2>6, <3>1, Zenon
    <3> QED  BY <2>6, <3>2, <3>3, <3>4, SMT DEF Sound, Holding, ReloadPcs
  <2>8. HotOK(r, hot', mgrCfg')
    BY <2>6, SMT DEF HotOK
  <2>9. crossed = FALSE => hot' = mgrCfg'["hot"]
    BY <1>4, <1>6, Zenon
  <2> QED  BY <1>1, <1>2, <1>4, <2>5, <2>7, <2>8, <2>9, CfgGoesOn, Zenon
<1>8. CASE ~Loadable(cfgFile)
  <2>1. CfgEnds(t)
    BY <1>8, Zenon DEF ReloadLoad
  <2> QED  BY <1>1, <1>2, <1>4, <1>5, <1>6, <2>1, CfgFinishes, Zenon
<1> QED  BY <1>7, <1>8

LEMMA SetKeeps ==
    ASSUME CfgInv, NEW t \in Threads, ReloadSet(t)
    PROVE  CfgInv'
<1>1. cthr[t].pc = "set" /\ cthr[t].pc # "quiet"
  BY SMT DEF ReloadSet, CfgAt
<1>2. PICK c : c = cthr[t]
  OBVIOUS
<1>3. CfgTypes /\ CfgData /\ c # Quiet /\ c.next \in Configs
  BY <1>1, <1>2, CfgContext, Zenon
<1>4. UNCHANGED <<cfgFile, cfgBak, mainCfg, hot, cold, notice, crossed, wanted>> /\ mgrCfg' = c.next
  BY <1>2, Zenon DEF ReloadSet
<1>5. CfgData'
  BY <1>3, <1>4, Zenon DEF CfgData
<1>6. "callbacks" \in UpdatePcs \cup ReloadPcs /\ (t = Main => "callbacks" \in ReloadPcs) /\ CfgGoes(t, "callbacks")
  BY SMT DEF ReloadPcs, ReloadSet
<1>7. PICK r : Edited(t, cthr[t], r, "callbacks", cthr[t].next) /\ cthr' = [cthr EXCEPT ![t] = r]
  BY <1>1, <1>3, <1>6, GoesTo, Zenon
<1>8. r.pc = "callbacks" /\ r.next = c.next /\ (t # Main => r.key = c.key /\ r.val = c.val)
  BY <1>2, <1>7, Zenon DEF Edited
<1>9. c.alone = TRUE => Sound(t, r, wanted, cfgFile', cfgBak', mgrCfg')
  <2>1. SUFFICES ASSUME c.alone = TRUE PROVE Sound(t, r, wanted, cfgFile', cfgBak', mgrCfg')
    OBVIOUS
  <2>2. Sound(t, c, wanted, cfgFile, cfgBak, mgrCfg)
    BY <1>1, <1>2, <1>3, <2>1, OfThread, Zenon
  <2>3. /\ Carries(wanted, cfgFile) /\ Carries(wanted, c.next)
        /\ t # Main => /\ wanted[c.key] = "any" /\ cfgFile \in Configs /\ cfgFile[c.key] = c.val
                       /\ c.next[c.key] = c.val
    BY <1>1, <1>2, <2>2, SMT DEF Sound, Holding, ReloadPcs
  <2>4. /\ Carries(wanted, mgrCfg') /\ Carries(wanted, cfgFile')
        /\ t # Main => /\ wanted[r.key] = "any" /\ cfgFile' \in Configs /\ cfgFile'[r.key] = r.val
                       /\ mgrCfg'[r.key] = r.val
    BY <1>4, <1>8, <2>3, Zenon
  <2> QED  BY <1>8, <2>4, SMT DEF Sound, Holding
<1>10. HotOK(r, hot', mgrCfg')
  BY <1>4, <1>8, SMT DEF HotOK
<1> QED  BY <1>1, <1>2, <1>4, <1>5, <1>7, <1>9, <1>10, CfgGoesOn, Zenon

LEMMA CallbacksKeep ==
    ASSUME CfgInv, NEW t \in Threads, ReloadCallbacks(t)
    PROVE  CfgInv'
<1>1. cthr[t].pc = "callbacks" /\ cthr[t].pc # "quiet"
  BY SMT DEF ReloadCallbacks, CfgAt
<1>2. PICK c : c = cthr[t]
  OBVIOUS
<1>3. CfgTypes /\ CfgData /\ c # Quiet /\ c.next \in Configs /\ c.alone \in BOOLEAN
  BY <1>1, <1>2, CfgContext, Zenon
<1>4. UNCHANGED <<cfgFile, cfgBak, mgrCfg, mainCfg, cold, notice, crossed, wanted>> /\ hot' = c.next["hot"]
  BY <1>2, Zenon DEF ReloadCallbacks
<1>5. CfgData'
  <2>1. c.next["hot"] \in CfgVals
    BY <1>3, SMT DEF Configs, Keys
  <2> QED  BY <1>3, <1>4, <2>1, Zenon DEF CfgData
<1>6. "updated" \in UpdatePcs \cup ReloadPcs /\ (t = Main => "updated" \in ReloadPcs) /\ CfgGoes(t, "updated")
  BY SMT DEF ReloadPcs, ReloadCallbacks
<1>7. PICK r : Edited(t, cthr[t], r, "updated", cthr[t].next) /\ cthr' = [cthr EXCEPT ![t] = r]
  BY <1>1, <1>3, <1>6, GoesTo, Zenon
<1>8. r.pc = "updated" /\ (t # Main => r.key = c.key /\ r.val = c.val)
  BY <1>2, <1>7, Zenon DEF Edited
<1>9. c.alone = TRUE => Sound(t, r, wanted, cfgFile', cfgBak', mgrCfg')
  <2>1. SUFFICES ASSUME c.alone = TRUE PROVE Sound(t, r, wanted, cfgFile', cfgBak', mgrCfg')
    OBVIOUS
  <2>2. Sound(t, c, wanted, cfgFile, cfgBak, mgrCfg)
    BY <1>1, <1>2, <1>3, <2>1, OfThread, Zenon
  <2>3. /\ Carries(wanted, cfgFile) /\ Carries(wanted, mgrCfg)
        /\ t # Main => /\ wanted[c.key] = "any" /\ cfgFile \in Configs /\ cfgFile[c.key] = c.val
                       /\ mgrCfg[c.key] = c.val
    BY <1>1, <1>2, <2>2, SMT DEF Sound, ReloadPcs
  <2>4. /\ Carries(wanted, mgrCfg') /\ Carries(wanted, cfgFile')
        /\ t # Main => /\ wanted[r.key] = "any" /\ cfgFile' \in Configs /\ cfgFile'[r.key] = r.val
                       /\ mgrCfg'[r.key] = r.val
    BY <1>4, <1>8, <2>3, Zenon
  <2> QED  BY <1>8, <2>4, SMT DEF Sound, Holding
<1>10. c.alone = TRUE \/ crossed = FALSE => hot' = mgrCfg'["hot"] /\ HotOK(r, hot', mgrCfg')
  <2>1. SUFFICES ASSUME c.alone = TRUE \/ crossed = FALSE PROVE hot' = mgrCfg'["hot"] /\ HotOK(r, hot', mgrCfg')
    OBVIOUS
  <2>2. HotOK(c, hot, mgrCfg)
    BY <1>2, <1>3, <2>1, OfThread, Zenon
  <2>3. c.next = mgrCfg
    BY <1>1, <1>2, <2>2, SMT DEF HotOK
  <2>4. hot' = mgrCfg'["hot"]
    BY <1>4, <2>3
  <2> QED  BY <1>8, <2>4, SMT DEF HotOK
<1> QED  BY <1>1, <1>2, <1>4, <1>5, <1>7, <1>9, <1>10, CfgGoesOn, Zenon

LEMMA GetKeeps ==
    ASSUME CfgInv, NEW t \in Threads, ReloadGet(t)
    PROVE  CfgInv'
<1>1. cthr[t].pc = "updated" /\ cthr[t].pc # "quiet"
  BY SMT DEF ReloadGet, CfgAt
<1>2. PICK c : c = cthr[t]
  OBVIOUS
<1>3. CfgTypes /\ CfgData /\ c # Quiet /\ c.next \in Configs /\ c.alone \in BOOLEAN /\ c \in StatesOf(t)
  BY <1>1, <1>2, CfgContext, Zenon
<1>4. UNCHANGED <<cfgFile, cfgBak, mgrCfg, cold, notice, crossed, wanted>>
  BY Zenon DEF ReloadGet
<1>5. IF t = Main THEN mainCfg' = mgrCfg /\ hot' = mgrCfg["hot"] ELSE UNCHANGED <<mainCfg, hot>>
  BY Zenon DEF ReloadGet
<1>6. CfgData'
  <2>1. mgrCfg["hot"] \in CfgVals
    BY <1>3, SMT DEF Configs, Keys, CfgData
  <2> QED  BY <1>3, <1>4, <1>5, <2>1, Zenon DEF CfgData
<1>7. PICK b : b = IF t = Main THEN mainCfg ELSE c.before
  OBVIOUS
<1>8. b \in Configs /\ mgrCfg \in Configs
  BY <1>3, <1>7, CfgStates, Zenon DEF CfgData, StatesOf
<1>9. CfgGoesAfter(t, "mark", mgrCfg, b)
  BY <1>2, <1>7, Zenon DEF ReloadGet, CfgGoesAfter
<1>10. "mark" \in UpdatePcs \cup ReloadPcs /\ (t = Main => "mark" \in ReloadPcs)
  BY SMT DEF ReloadPcs
<1>11. PICK r : Edited(t, cthr[t], r, "mark", mgrCfg) /\ cthr' = [cthr EXCEPT ![t] = r]
  BY <1>1, <1>3, <1>8, <1>9, <1>10, GoesAfter, Zenon
<1>12. r.pc = "mark" /\ (t # Main => r.key = c.key /\ r.val = c.val)
  BY <1>2, <1>11, Zenon DEF Edited
<1>13. c.alone = TRUE => Sound(t, r, wanted, cfgFile', cfgBak', mgrCfg')
  <2>1. SUFFICES ASSUME c.alone = TRUE PROVE Sound(t, r, wanted, cfgFile', cfgBak', mgrCfg')
    OBVIOUS
  <2>2. Sound(t, c, wanted, cfgFile, cfgBak, mgrCfg)
    BY <1>1, <1>2, <1>3, <2>1, OfThread, Zenon
  <2>3. /\ Carries(wanted, cfgFile) /\ Carries(wanted, mgrCfg)
        /\ t # Main => /\ wanted[c.key] = "any" /\ cfgFile \in Configs /\ cfgFile[c.key] = c.val
                       /\ mgrCfg[c.key] = c.val
    BY <1>1, <1>2, <2>2, SMT DEF Sound, ReloadPcs
  <2>4. /\ Carries(wanted, mgrCfg') /\ Carries(wanted, cfgFile')
        /\ t # Main => /\ wanted[r.key] = "any" /\ cfgFile' \in Configs /\ cfgFile'[r.key] = r.val
                       /\ mgrCfg'[r.key] = r.val
    BY <1>4, <1>12, <2>3, Zenon
  <2> QED  BY <1>12, <2>4, SMT DEF Sound, Holding
<1>14. c.alone = TRUE \/ crossed = FALSE => hot' = mgrCfg'["hot"] /\ HotOK(r, hot', mgrCfg')
  <2>1. SUFFICES ASSUME c.alone = TRUE \/ crossed = FALSE PROVE hot' = mgrCfg'["hot"] /\ HotOK(r, hot', mgrCfg')
    OBVIOUS
  <2>2. HotOK(c, hot, mgrCfg)
    BY <1>2, <1>3, <2>1, OfThread, Zenon
  <2>3. hot = mgrCfg["hot"]
    BY <1>1, <1>2, <2>2, SMT DEF HotOK
  <2>4. hot' = mgrCfg'["hot"]
    BY <1>4, <1>5, <2>3, Zenon
  <2> QED  BY <1>12, <2>4, SMT DEF HotOK
<1> QED  BY <1>1, <1>2, <1>4, <1>6, <1>11, <1>13, <1>14, CfgGoesOn, Zenon

LEMMA MarkKeeps ==
    ASSUME CfgInv, NEW t \in Threads, ReloadMark(t)
    PROVE  CfgInv'
<1>1. cthr[t].pc = "mark" /\ cthr[t].pc # "quiet" /\ CfgEnds(t)
  BY SMT DEF ReloadMark, CfgAt
<1>2. PICK c : c = cthr[t]
  OBVIOUS
<1>3. CfgTypes /\ CfgData /\ c # Quiet /\ c.next \in Configs /\ c.alone \in BOOLEAN /\ (t # Main => c \in UpdateStates)
  BY <1>1, <1>2, CfgContext, Zenon
<1>4. UNCHANGED <<cfgFile, cfgBak, mgrCfg, mainCfg, hot, cold>> /\ crossed' = (crossed /\ ~c.alone)
  BY <1>2, Zenon DEF ReloadMark
<1>5. wanted' = IF t # Main /\ c.alone THEN [wanted EXCEPT ![c.key] = c.val] ELSE wanted
  BY <1>2, Zenon DEF ReloadMark
<1>6. CfgData'
  <2>1. notice' \in BOOLEAN
    BY Zenon DEF ReloadMark, restartRequired
  <2>2. wanted' \in [Keys -> CfgVals \cup {"any"}]
    <3>1. t # Main => c.key \in Keys /\ c.val \in CfgVals
      BY <1>3, CfgStates, Zenon
    <3> QED  BY <1>3, <1>5, <3>1, SMT DEF CfgData
  <2>3. crossed' \in BOOLEAN
    BY <1>4, Zenon
  <2> QED  BY <1>3, <1>4, <2>1, <2>2, <2>3, Zenon DEF CfgData
<1>7. CASE c.alone = FALSE
  <2>1. UNCHANGED <<wanted, crossed>>
    <3>1. crossed \in BOOLEAN
      BY <1>3 DEF CfgData
    <3> QED  BY <1>4, <1>5, <1>7, <3>1, Zenon
  <2>2. crossed = FALSE => hot' = mgrCfg'["hot"]
    <3>1. cthr[t].pc # "callbacks"
      BY <1>1
    <3> QED  BY <1>1, <1>4, <3>1, HotSettled, Zenon
  <2>3. cthr[t].alone # TRUE
    BY <1>2, <1>7
  <2> QED  BY <1>1, <1>6, <2>1, <2>2, <2>3, CfgFinishes, Zenon
<1>8. CASE c.alone = TRUE
  <2>1. \A u \in Threads : cthr'[u] = Quiet
    <3>1. \A u \in Threads : u # t => cthr[u] = Quiet
      BY <1>2, <1>3, <1>8, OthersQuiet, Zenon
    <3>2. \A u \in Threads : cthr'[u] = IF u = t THEN Quiet ELSE cthr[u]
      BY <1>1, <1>3, SMT DEF CfgEnds, CfgTypes
    <3> QED  BY <3>1, <3>2, Zenon
  <2>2. CfgTypes'
    <3>1. ThreadTypes(cthr')
      BY <1>1, <1>3, ThreadKeepsTypes, Zenon DEF CfgEnds
    <3> QED  BY <1>6, <3>1, Zenon DEF CfgTypes, ThreadTypes
  <2>3. Sound(t, c, wanted, cfgFile, cfgBak, mgrCfg) /\ HotOK(c, hot, mgrCfg)
    BY <1>2, <1>3, <1>8, OfThread, Zenon
  <2>4. /\ Carries(wanted, cfgFile) /\ Carries(wanted, mgrCfg)
        /\ t # Main => /\ cfgFile \in Configs /\ cfgFile[c.key] = c.val /\ mgrCfg[c.key] = c.val
    BY <1>1, <1>2, <2>3, SMT DEF Sound, ReloadPcs
  <2>5. hot = mgrCfg["hot"]
    BY <1>1, <1>2, <2>3, SMT DEF HotOK
  <2>6. Carries(wanted', cfgFile) /\ Carries(wanted', mgrCfg)
    <3>1. CASE t = Main
      BY <1>5, <2>4, <3>1
    <3>2. CASE t # Main
      <4>1. c.key \in Keys /\ mgrCfg \in Configs /\ wanted \in [Keys -> CfgVals \cup {"any"}]
        BY <1>3, <3>2, CfgStates, Zenon DEF CfgData
      <4>2. wanted' = [wanted EXCEPT ![c.key] = c.val]
        BY <1>5, <1>8, <3>2
      <4>3. \A k \in Keys : wanted'[k] = IF k = c.key THEN c.val ELSE wanted[k]
        BY <4>1, <4>2, SMT
      <4> QED  BY <2>4, <3>2, <4>1, <4>3, Zenon DEF Carries
    <3> QED  BY <3>1, <3>2
  <2>7. Carries(wanted', cfgFile') /\ Carries(wanted', mgrCfg') /\ hot' = mgrCfg'["hot"]
    BY <1>4, <2>5, <2>6, Zenon
  <2> QED  BY <2>1, <2>2, <2>7, Zenon DEF CfgInv
<1> QED  BY <1>3, <1>7, <1>8, Zenon

-----------------------------------------------------------------------------
(* The start of a change, and what happens between changes.                *)

\* A thread that another one disturbs keeps its place.
LEMMA Disturbs ==
    ASSUME CfgTypes
    PROVE  /\ ThreadTypes(Disturbed)
           /\ \A t \in Threads : Disturbed[t] # Quiet =>
                 /\ cthr[t] # Quiet /\ Disturbed[t].alone = FALSE
                 /\ Disturbed[t].pc = cthr[t].pc /\ Disturbed[t].next = cthr[t].next
           /\ \A t \in Threads : cthr[t] = Quiet <=> Disturbed[t] = Quiet
<1>1. \A t \in Threads : Disturbed[t] = IF cthr[t] = Quiet THEN Quiet ELSE [cthr[t] EXCEPT !.alone = FALSE]
  BY SMT DEF Disturbed
<1>2. PICK a \in BOOLEAN : a = FALSE
  OBVIOUS
<1>3. \A t \in Threads : cthr[t] # Quiet => Disturbed[t] = [cthr[t] EXCEPT !.alone = a]
  BY <1>1, <1>2, Zenon
<1>4. \A t \in Threads : cthr[t] \in {Quiet} \cup UpdateStates \cup SignalStates
  BY SMT DEF CfgTypes
<1>5. ASSUME NEW t \in Threads, cthr[t] \in UpdateStates
      PROVE  /\ Disturbed[t] \in UpdateStates /\ cthr[t] # Quiet /\ Disturbed[t].alone = a
             /\ Disturbed[t].pc = cthr[t].pc /\ Disturbed[t].next = cthr[t].next
  <2>1. cthr[t] # Quiet
    BY <1>5, CfgStates, Zenon
  <2>2. PICK c \in UpdateStates : c = cthr[t]
    BY <1>5
  <2>3. PICK r : r = [c EXCEPT !.alone = a]
    OBVIOUS
  <2>4. r \in UpdateStates
    BY <2>3, SMT DEF UpdateStates
  <2>5. r.alone = a /\ r.pc = c.pc /\ r.next = c.next
    BY <2>3, SMT DEF UpdateStates
  <2>6. Disturbed[t] = r
    BY <1>3, <2>1, <2>2, <2>3, Zenon
  <2> QED  BY <2>1, <2>2, <2>4, <2>5, <2>6
<1>6. ASSUME NEW t \in Threads, cthr[t] \in SignalStates
      PROVE  /\ Disturbed[t] \in SignalStates /\ cthr[t] # Quiet /\ Disturbed[t].alone = a
             /\ Disturbed[t].pc = cthr[t].pc /\ Disturbed[t].next = cthr[t].next
  <2>1. cthr[t] # Quiet
    BY <1>6, CfgStates, Zenon
  <2>2. PICK c \in SignalStates : c = cthr[t]
    BY <1>6
  <2>3. PICK r : r = [c EXCEPT !.alone = a]
    OBVIOUS
  <2>4. r \in SignalStates
    BY <2>3, SMT DEF SignalStates
  <2>5. r.alone = a /\ r.pc = c.pc /\ r.next = c.next
    BY <2>3, SMT DEF SignalStates
  <2>6. Disturbed[t] = r
    BY <1>3, <2>1, <2>2, <2>3, Zenon
  <2> QED  BY <2>1, <2>2, <2>4, <2>5, <2>6
<1>7. \A t \in Threads : cthr[t] = Quiet => Disturbed[t] = Quiet
  BY <1>1
<1>8. Disturbed \in [Threads -> {Quiet} \cup UpdateStates \cup SignalStates]
  <2>1. \A t \in Threads : Disturbed[t] \in {Quiet} \cup UpdateStates \cup SignalStates
    BY <1>4, <1>5, <1>6, <1>7, Zenon
  <2> QED  BY <2>1, SMT DEF Disturbed
<1>9. (\A t \in Updaters : Disturbed[t] \in {Quiet} \cup UpdateStates) /\ Disturbed[Main] \in {Quiet} \cup SignalStates
  <2>1. Updaters \subseteq Threads /\ Main \in Threads
    BY CfgNames, Zenon
  <2>2. (\A t \in Updaters : cthr[t] \in {Quiet} \cup UpdateStates) /\ cthr[Main] \in {Quiet} \cup SignalStates
    BY Zenon DEF CfgTypes
  <2> QED  BY <2>1, <2>2, <1>5, <1>6, <1>7, Zenon
<1>10. \A t \in Threads : cthr[t] = Quiet <=> Disturbed[t] = Quiet
  BY <1>4, <1>5, <1>6, <1>7, CfgStates, Zenon
<1>11. \A t \in Threads : Disturbed[t] # Quiet =>
                 /\ cthr[t] # Quiet /\ Disturbed[t].alone = FALSE
                 /\ Disturbed[t].pc = cthr[t].pc /\ Disturbed[t].next = cthr[t].next
  BY <1>2, <1>4, <1>5, <1>6, <1>7, Zenon
<1> QED  BY <1>8, <1>9, <1>10, <1>11, Zenon DEF ThreadTypes

\* A change begins at cur, reading only.
LEMMA CfgBeginsKeeps ==
    ASSUME CfgInv, CfgData', NEW t \in Threads, NEW cur \in StatesOf(t), CfgBegins(t, cur),
           AllQuiet => cur.alone = TRUE, ~AllQuiet => cur.alone = FALSE, cur.pc \in {"merge", "load"},
           UNCHANGED <<cfgFile, cfgBak, mgrCfg, hot>>,
           ~AllQuiet => wanted' = AnyValues,
           AllQuiet => Carries(wanted', cfgFile) /\ Carries(wanted', mgrCfg),
           AllQuiet /\ t # Main => cur.pc = "merge" /\ wanted'[cur.key] = "any"
    PROVE  CfgInv'
<1>1. CfgTypes /\ CfgData /\ cur # Quiet /\ cthr[t] = Quiet /\ AllQuiet \in BOOLEAN
  BY CfgStates, Zenon DEF CfgInv, CfgTypes, StatesOf, CfgBegins, AllQuiet
<1>2. crossed \in BOOLEAN /\ crossed' = (crossed \/ ~AllQuiet)
  BY <1>1, Zenon DEF CfgBegins, CfgData
<1>3. ThreadTypes(Disturbed)
  BY <1>1, Disturbs, Zenon
<1>4. \A u \in Threads : cthr'[u] = IF u = t THEN cur ELSE Disturbed[u]
  BY <1>3, SMT DEF CfgBegins, ThreadTypes
<1>5. CfgTypes'
  <2>1. cthr' \in [Threads -> {Quiet} \cup UpdateStates \cup SignalStates]
    BY <1>3, SMT DEF CfgBegins, ThreadTypes, StatesOf
  <2>2. \A u \in Updaters : cthr'[u] \in {Quiet} \cup UpdateStates
    BY <1>3, <1>4, CfgNames, SMT DEF ThreadTypes, StatesOf
  <2>3. cthr'[Main] \in {Quiet} \cup SignalStates
    BY <1>3, <1>4, CfgNames, SMT DEF ThreadTypes, StatesOf
  <2> QED  BY <2>1, <2>2, <2>3, Zenon DEF CfgTypes
<1>6. ~AllQuiet'
  BY <1>1, <1>4, Zenon DEF AllQuiet
<1>7. CASE ~AllQuiet
  <2>1. crossed' = TRUE
    BY <1>2, <1>7, Zenon
  <2>2. \A u \in Threads : cthr'[u] # Quiet => cthr'[u].alone = FALSE
    BY <1>1, <1>4, <1>7, Disturbs, Zenon
  <2>3. wanted' = AnyValues
    BY <1>7
  <2> QED  BY <1>5, <1>6, <2>1, <2>2, <2>3, Zenon DEF CfgInv
<1>8. CASE AllQuiet
  <2>1. \A u \in Threads : u # t => cthr'[u] = Quiet
    BY <1>1, <1>4, <1>8, Disturbs, Zenon DEF AllQuiet
  <2>2. cthr'[t] = cur /\ cur.alone = TRUE /\ crossed' = crossed
    BY <1>2, <1>4, <1>8, Zenon
  <2>3. crossed = FALSE => hot' = mgrCfg'["hot"]
    BY <1>8, Zenon DEF CfgInv
  <2>4. HotOK(cur, hot', mgrCfg') /\ cur.pc # "callbacks"
    BY SMT DEF HotOK
  <2>5. Carries(wanted', cfgFile') /\ Carries(wanted', mgrCfg')
    BY <1>8, Zenon
  <2>6. t # Main => cur.pc = "merge" /\ wanted'[cur.key] = "any"
    BY <1>8
  <2>7. Sound(t, cur, wanted', cfgFile', cfgBak', mgrCfg')
    BY <2>5, <2>6, SMT DEF Sound, Holding, ReloadPcs
  <2> QED  BY <1>5, <1>6, <2>1, <2>2, <2>3, <2>4, <2>7, Zenon DEF CfgInv
<1> QED  BY <1>7, <1>8

LEMMA BeforeKeeps ==
    ASSUME CfgInv, NEW t \in Updaters, NEW k \in Keys, NEW v \in CfgVals, UpdateBefore(t, k, v)
    PROVE  CfgInv'
<1>1. t \in Threads /\ t # Main /\ CfgData
  BY CfgNames, Zenon DEF CfgInv, CfgTypes
<1>2. PICK cur : cur = [pc |-> "merge", before |-> mgrCfg, next |-> mgrCfg, key |-> k, val |-> v, alone |-> AllQuiet]
  OBVIOUS
<1>3. PICK a \in BOOLEAN : a = AllQuiet
  BY Zenon DEF AllQuiet
<1>4. cur \in UpdateStates /\ cur.pc = "merge" /\ cur.key = k
      /\ (AllQuiet => cur.alone = TRUE) /\ (~AllQuiet => cur.alone = FALSE)
  <2>1. cur = [pc |-> "merge", before |-> mgrCfg, next |-> mgrCfg, key |-> k, val |-> v, alone |-> a]
    BY <1>2, <1>3, Zenon
  <2>2. cur \in UpdateStates /\ cur.pc = "merge" /\ cur.key = k /\ cur.alone = a
    BY <1>1, <2>1, SMT DEF UpdateStates, UpdatePcs, CfgData
  <2>3. (AllQuiet => a = TRUE) /\ (~AllQuiet => a = FALSE)
    BY <1>3
  <2> QED  BY <2>2, <2>3, Zenon
<1>5. cur \in StatesOf(t) /\ CfgBegins(t, cur)
  BY <1>1, <1>2, <1>4, Zenon DEF StatesOf, UpdateBefore
<1>6. UNCHANGED <<cfgFile, cfgBak, mgrCfg, hot, cold, mainCfg, notice>>
      /\ wanted' = IF AllQuiet THEN [wanted EXCEPT ![k] = "any"] ELSE AnyValues
  BY Zenon DEF UpdateBefore, procVars
<1>7. wanted' \in [Keys -> CfgVals \cup {"any"}] /\ AnyValues \in [Keys -> CfgVals \cup {"any"}]
  BY <1>1, <1>6, SMT DEF CfgData, AnyValues
<1>8. CfgData'
  <2>1. crossed' \in BOOLEAN
    BY <1>5, Zenon DEF CfgBegins
  <2> QED  BY <1>1, <1>6, <1>7, <2>1, Zenon DEF CfgData
<1>9. AllQuiet => Carries(wanted', cfgFile) /\ Carries(wanted', mgrCfg) /\ wanted'[k] = "any"
  <2>1. SUFFICES ASSUME AllQuiet PROVE Carries(wanted', cfgFile) /\ Carries(wanted', mgrCfg) /\ wanted'[k] = "any"
    OBVIOUS
  <2>2. Carries(wanted, cfgFile) /\ Carries(wanted, mgrCfg)
    BY <2>1, Zenon DEF CfgInv
  <2>3. wanted' = [wanted EXCEPT ![k] = "any"]
    BY <1>6, <2>1
  <2>4. \A j \in Keys : wanted'[j] = IF j = k THEN "any" ELSE wanted[j]
    BY <1>1, <2>3, SMT DEF CfgData
  <2> QED  BY <2>2, <2>4, Zenon DEF Carries
<1>10. cur.pc \in {"merge", "load"}
  BY <1>4
<1> QED  BY <1>1, <1>4, <1>5, <1>6, <1>8, <1>9, <1>10, CfgBeginsKeeps, Zenon

LEMMA SighupKeeps ==
    ASSUME CfgInv, Sighup
    PROVE  CfgInv'
<1>1. Main \in Threads /\ CfgData
  BY CfgNames, Zenon DEF CfgInv, CfgTypes
<1>2. PICK cur : cur = [pc |-> "load", before |-> mainCfg, next |-> mainCfg, alone |-> AllQuiet]
  OBVIOUS
<1>3. PICK a \in BOOLEAN : a = AllQuiet
  BY Zenon DEF AllQuiet
<1>4. cur \in SignalStates /\ cur.pc = "load"
      /\ (AllQuiet => cur.alone = TRUE) /\ (~AllQuiet => cur.alone = FALSE)
  <2>1. cur = [pc |-> "load", before |-> mainCfg, next |-> mainCfg, alone |-> a]
    BY <1>2, <1>3, Zenon
  <2>2. cur \in SignalStates /\ cur.pc = "load" /\ cur.alone = a
    BY <1>1, <2>1, SMT DEF SignalStates, ReloadPcs, CfgData
  <2>3. (AllQuiet => a = TRUE) /\ (~AllQuiet => a = FALSE)
    BY <1>3
  <2> QED  BY <2>2, <2>3, Zenon
<1>5. cur \in StatesOf(Main) /\ CfgBegins(Main, cur)
  BY <1>2, <1>4, Zenon DEF StatesOf, Sighup
<1>6. UNCHANGED <<cfgFile, cfgBak, mgrCfg, hot, cold, mainCfg, notice>>
      /\ wanted' = IF AllQuiet THEN wanted ELSE AnyValues
  BY Zenon DEF Sighup, procVars
<1>7. wanted' \in [Keys -> CfgVals \cup {"any"}]
  BY <1>1, <1>6, SMT DEF CfgData, AnyValues
<1>8. CfgData'
  <2>1. crossed' \in BOOLEAN
    BY <1>5, Zenon DEF CfgBegins
  <2> QED  BY <1>1, <1>6, <1>7, <2>1, Zenon DEF CfgData
<1>9. AllQuiet => Carries(wanted', cfgFile) /\ Carries(wanted', mgrCfg)
  BY <1>6, Zenon DEF CfgInv
<1>10. cur.pc \in {"merge", "load"}
  BY <1>4
<1> QED  BY <1>1, <1>4, <1>5, <1>6, <1>8, <1>9, <1>10, CfgBeginsKeeps, Zenon

LEMMA EditKeeps ==
    ASSUME CfgInv, NEW f \in Configs \cup {Missing, Broken}, EditFile(f)
    PROVE  CfgInv'
<1>1. CfgTypes /\ CfgData
  BY Zenon DEF CfgInv, CfgTypes
<1>2. /\ cfgFile' = f /\ wanted' = AnyValues /\ cthr' = Disturbed
      /\ UNCHANGED <<cfgBak, mgrCfg, hot, cold, mainCfg, notice, crossed>>
  BY Zenon DEF EditFile, procVars
<1>3. CfgTypes'
  <2>1. AnyValues \in [Keys -> CfgVals \cup {"any"}]
    BY SMT DEF AnyValues
  <2>2. CfgData'
    BY <1>1, <1>2, <2>1, Zenon DEF CfgData
  <2>3. ThreadTypes(cthr')
    BY <1>1, <1>2, Disturbs, Zenon
  <2> QED  BY <2>2, <2>3, Zenon DEF CfgTypes, ThreadTypes
<1>4. \A u \in Threads : cthr'[u] # Quiet =>
          cthr[u] # Quiet /\ cthr'[u].alone = FALSE /\ cthr'[u].pc = cthr[u].pc /\ cthr'[u].next = cthr[u].next
  BY <1>1, <1>2, Disturbs, Zenon
<1>5. AllQuiet' => AllQuiet
  BY <1>1, <1>2, Disturbs, Zenon DEF AllQuiet
<1>6. \A t, u \in Threads : t # u /\ cthr'[t] # Quiet /\ cthr'[u] # Quiet => cthr'[t].alone = FALSE /\ crossed' = TRUE
  BY <1>2, <1>4, Zenon DEF CfgInv
<1>7. ASSUME NEW u \in Threads, cthr'[u] # Quiet, crossed' = FALSE
      PROVE  HotOK(cthr'[u], hot', mgrCfg') /\ (cthr'[u].pc # "callbacks" => hot' = mgrCfg'["hot"])
  <2>1. cthr[u] # Quiet /\ crossed = FALSE /\ cthr'[u].pc = cthr[u].pc /\ cthr'[u].next = cthr[u].next
    BY <1>2, <1>4, <1>7, Zenon
  <2>2. HotOK(cthr[u], hot, mgrCfg) /\ (cthr[u].pc # "callbacks" => hot = mgrCfg["hot"])
    BY <2>1, OfThread, Zenon
  <2>3. HotOK(cthr'[u], hot, mgrCfg)
    BY <2>1, <2>2, Zenon DEF HotOK
  <2> QED  BY <1>2, <2>1, <2>2, <2>3, Zenon
<1>8. AllQuiet' /\ crossed' = FALSE => hot' = mgrCfg'["hot"]
  BY <1>2, <1>5, Zenon DEF CfgInv
<1>9. Carries(wanted', cfgFile') /\ Carries(wanted', mgrCfg')
  BY <1>2, CarriesNothing, Zenon
<1> QED  BY <1>2, <1>3, <1>4, <1>6, <1>7, <1>8, <1>9, Zenon DEF CfgInv

\* The process starts from the file f.
LEMMA QuietKeeps ==
    ASSUME CfgData, cthr = [t \in Threads |-> Quiet], Carries(wanted, cfgFile), Carries(wanted, mgrCfg),
           hot = mgrCfg["hot"]
    PROVE  CfgInv
<1>1. \A t \in Threads : cthr[t] = Quiet
  BY SMT
<1>2. CfgTypes
  BY <1>1, CfgNames, SMT DEF CfgTypes
<1> QED  BY <1>1, <1>2, Zenon DEF CfgInv

LEMMA CfgInitOK == CfgInit => CfgInv
<1>1. SUFFICES ASSUME CfgInit PROVE CfgInv
  OBVIOUS
<1>2. PICK n : n = Load(cfgFile)
  OBVIOUS
<1>3. n \in Configs
  BY <1>1, <1>2, LoadValue, CfgNames, Zenon DEF CfgInit
<1>4. mgrCfg = n /\ mainCfg = n /\ hot = n["hot"] /\ cold = n["cold"] /\ notice = FALSE
  BY <1>1, <1>2, Zenon DEF CfgInit, StartedFrom
<1>5. n["hot"] \in CfgVals /\ n["cold"] \in CfgVals
  BY <1>3, SMT DEF Configs, Keys
<1>6. AnyValues \in [Keys -> CfgVals \cup {"any"}]
  BY SMT DEF AnyValues
<1>7. CfgData
  BY <1>1, <1>3, <1>4, <1>5, <1>6, Zenon DEF CfgInit, CfgData
<1>8. Carries(wanted, cfgFile) /\ Carries(wanted, mgrCfg) /\ cthr = [t \in Threads |-> Quiet]
  BY <1>1, CarriesNothing, Zenon DEF CfgInit
<1> QED  BY <1>4, <1>7, <1>8, QuietKeeps, Zenon

LEMMA RestartKeeps ==
    ASSUME CfgInv, CfgRestart
    PROVE  CfgInv'
<1>1. CfgTypes /\ CfgData
  BY Zenon DEF CfgInv, CfgTypes
<1>2. PICK n : n = Load(cfgFile)
  OBVIOUS
<1>3. n \in Configs
  <2>1. cfgFile \in Configs \cup {Missing, Broken} /\ cfgFile # Broken
    BY <1>1, Zenon DEF CfgData, CfgRestart, Loadable
  <2> QED  BY <1>2, <2>1, LoadValue, Zenon
<1>4. /\ mgrCfg' = n /\ mainCfg' = n /\ hot' = n["hot"] /\ cold' = n["cold"] /\ notice' = FALSE /\ crossed' = FALSE
      /\ UNCHANGED <<cfgFile, cfgBak>> /\ cthr' = [t \in Threads |-> Quiet]
      /\ wanted' = IF AllQuiet THEN wanted ELSE AnyValues
  BY <1>2, Zenon DEF CfgRestart
<1>5. n["hot"] \in CfgVals /\ n["cold"] \in CfgVals
  BY <1>3, SMT DEF Configs, Keys
<1>6. wanted' \in [Keys -> CfgVals \cup {"any"}]
  BY <1>1, <1>4, SMT DEF CfgData, AnyValues
<1>7. CfgData'
  BY <1>1, <1>3, <1>4, <1>5, <1>6, Zenon DEF CfgData
<1>8. Carries(wanted', cfgFile') /\ Carries(wanted', mgrCfg')
  <2>1. CASE AllQuiet
    <3>1. Carries(wanted, cfgFile) /\ wanted \in [Keys -> CfgVals \cup {"any"}]
      BY <1>1, <2>1, Zenon DEF CfgInv, CfgData
    <3>2. Carries(wanted, n)
      BY <1>2, <3>1, CarriesLoaded, Zenon
    <3> QED  BY <1>4, <2>1, <3>1, <3>2, Zenon
  <2>2. CASE ~AllQuiet
    BY <1>4, <2>2, CarriesNothing, Zenon
  <2> QED  BY <2>1, <2>2
<1>9. \A t \in Threads : cthr'[t] = Quiet
  BY <1>4, SMT
<1>10. CfgTypes'
  BY <1>4, <1>7, <1>9, CfgNames, SMT DEF CfgTypes
<1> QED  BY <1>4, <1>8, <1>9, <1>10, Zenon DEF CfgInv

LEMMA CfgStutters == CfgInv /\ UNCHANGED cfgVars => CfgInv'
<1>1. SUFFICES ASSUME CfgInv, UNCHANGED cfgVars PROVE CfgInv'
  OBVIOUS
<1>2. UNCHANGED <<cfgFile, cfgBak, mgrCfg, hot, cold, mainCfg, notice, cthr, wanted, crossed>>
  BY <1>1, Zenon DEF cfgVars
<1>3. CfgTypes'
  BY <1>1, <1>2, Zenon DEF CfgInv, CfgTypes, CfgData
<1>4. AllQuiet' = AllQuiet
  BY <1>2 DEF AllQuiet
<1> QED  BY <1>1, <1>2, <1>3, <1>4 DEF CfgInv

LEMMA CfgStep == CfgInv /\ [CfgNext]_cfgVars => CfgInv'
<1>1. SUFFICES ASSUME CfgInv, [CfgNext]_cfgVars PROVE CfgInv'
  OBVIOUS
<1>2. ASSUME NEW t \in Updaters, NEW k \in Keys, NEW v \in CfgVals, UpdateBefore(t, k, v) PROVE CfgInv'
  BY <1>1, <1>2, BeforeKeeps
<1>3. ASSUME NEW t \in Updaters, UpdateMerge(t) \/ UpdateWrite(t) \/ UpdateBak(t) \/ UpdatePlace(t) PROVE CfgInv'
  BY <1>1, <1>3, MergeKeeps, WriteKeeps, BakKeeps, PlaceKeeps
<1>4. ASSUME NEW t \in Threads,
             ReloadLoad(t) \/ ReloadSet(t) \/ ReloadCallbacks(t) \/ ReloadGet(t) \/ ReloadMark(t)
      PROVE  CfgInv'
  BY <1>1, <1>4, LoadKeeps, SetKeeps, CallbacksKeep, GetKeeps, MarkKeeps
<1>5. CASE Sighup
  BY <1>1, <1>5, SighupKeeps
<1>6. ASSUME NEW f \in Configs \cup {Missing, Broken}, EditFile(f) PROVE CfgInv'
  BY <1>1, <1>6, EditKeeps
<1>7. CASE CfgRestart
  BY <1>1, <1>7, RestartKeeps
<1>8. CASE UNCHANGED cfgVars
  BY <1>1, <1>8, CfgStutters
<1> QED  BY <1>1, <1>2, <1>3, <1>4, <1>5, <1>6, <1>7, <1>8, Zenon DEF CfgNext

\* The parts of the configuration have their types, and a request under way
\* holds the configuration it compares with.
THEOREM CfgTypeCorrect == CfgSpec => []CfgTypeOK
<1>1. CfgInv => CfgTypeOK
  <2>1. SUFFICES ASSUME CfgInv PROVE CfgTypeOK
    OBVIOUS
  <2>2. CfgTypes /\ CfgData
    BY <2>1, Zenon DEF CfgInv, CfgTypes
  <2>3. ASSUME NEW t \in Threads, cthr[t] # Quiet, t # Main PROVE cthr[t].before \in Configs
    BY <2>2, <2>3, CfgNames, CfgStates, Zenon DEF CfgTypes
  <2> QED  BY <2>2, <2>3, Zenon DEF CfgTypeOK, CfgData
<1> QED  BY <1>1, CfgInitOK, CfgStep, PTL DEF CfgSpec

\* UpdateConfig and Reload: for every number of requests, keys' values, edits
\* and faults, an acknowledged update is in the file whenever no change is
\* under way, and the settings in force are the manager's unless two changes
\* overlapped.
THEOREM ConfigIsKept == CfgSpec => []ConfigKept
<1>1. CfgInv => ConfigKept
  <2>1. SUFFICES ASSUME CfgInv PROVE ConfigKept
    OBVIOUS
  <2>2. UpdatesKept
    BY <2>1, Zenon DEF CfgInv, UpdatesKept, Carries
  <2>3. crossed \in BOOLEAN
    BY <2>1, Zenon DEF CfgInv, CfgTypes, CfgData
  <2>4. RuntimeCurrent
    BY <2>1, <2>3, Zenon DEF CfgInv, RuntimeCurrent
  <2> QED  BY <2>2, <2>4 DEF ConfigKept
<1> QED  BY <1>1, CfgInitOK, CfgStep, PTL DEF CfgSpec

(***************************************************************************)
(* ApiGate.  Each request is sound for itself; a bucket's level and what   *)
(* it admitted since some moment add up to its burst and what flowed in.   *)
(***************************************************************************)
SlotPcs == {"free", "csrf", "authLimit", "limit", "auth", "handler", "handled",
            "rejected", "limited", "unauthorized", "forbidden"}
Waiting == {"csrf", "authLimit", "limit", "auth"}
PastCSRF == {"authLimit", "limit", "auth", "handler", "handled"}
Ranked == {"none", "viewer", "operator", "admin"}
SlotHosts == GateHosts \cup {FreeSlot.host}
SlotStates == [pc : SlotPcs, ep : {"health", "login", "subnets", "tokens"}, cred : Credentials, role : Ranked,
               cross : BOOLEAN, host : SlotHosts, enforced : BOOLEAN, identity : Ranked,
               watched : BOOLEAN]

\* The role q's endpoint requires is behind q.
Entitled(q) == RoleRank[q.role] >= RoleRank[Endpoint[q.ep].role]

\* A request q under the settings s.
SlotOK(q, s) ==
    /\ q.pc # "free" => q.host \in GateHosts
    /\ q.identity \in {"none", q.role}
    /\ q.pc \in Waiting /\ q.watched = TRUE => s.enforced = TRUE
    /\ q.pc = "handler" /\ q.watched = TRUE => q.enforced = TRUE
    /\ q.pc \in PastCSRF /\ Endpoint[q.ep].unsafe = TRUE /\ q.cross = TRUE => q.cred \in {"none", "bearer"}
    /\ q.pc = "handled" /\ RoleRank[Endpoint[q.ep].role] > 0 /\ (q.watched = TRUE \/ Endpoint[q.ep].strict = TRUE)
          => Entitled(q)

\* What bucket k admitted in from..to, and what it holds now.
AdmittedIn(k, from, to) == {a \in admitted : a.k = k /\ a.at \in from..to}
Level(k) == Refilled(buckets[k], k[4])

SlotsInv ==
    /\ gset \in GateSettings
    /\ greq \in [GateSlots -> SlotStates]
    /\ \A r \in GateSlots : SlotOK(greq[r], gset)

BucketsInv ==
    /\ gnow \in Nat
    /\ buckets \in [BucketKeys -> [tokens : Int, last : Int]]
    /\ \A k \in BucketKeys : buckets[k] # NoBucket =>
          buckets[k].tokens \in 0..(k[4] * GTicks) /\ buckets[k].last \in 0..gnow
    /\ IsFiniteSet(admitted) /\ \A a \in admitted : a.at \in 0..gnow
    /\ \A k \in BucketKeys, from \in 0..gnow :
          Cardinality(AdmittedIn(k, from, gnow)) * GTicks + Level(k) <= k[4] * GTicks + k[4] * (gnow - from)
    /\ RateBounded

GateInv == SlotsInv /\ BucketsInv

LEMMA BucketKeyParts ==
    ASSUME NEW k \in BucketKeys
    PROVE  k[4] \in Nat \ {0}
<1>1. k[4] \in UNION {{s.rate, s.authRate} : s \in GateSettings}
  BY Zenon DEF BucketKeys
<1> QED  BY <1>1, ApiGateAssumption, SMT

\* What a request is does not change on its way.
SameRequest(q, r) ==
    /\ r.ep = q.ep /\ r.cred = q.cred /\ r.role = q.role /\ r.cross = q.cross /\ r.host = q.host
    /\ r.enforced = q.enforced /\ r.identity = q.identity /\ r.watched = q.watched

LEMMA SlotGoes ==
    ASSUME SlotsInv, NEW r \in GateSlots, NEW p \in SlotPcs, GateTo(r, p)
    PROVE  \E q \in SlotStates : greq' = [greq EXCEPT ![r] = q] /\ q.pc = p /\ SameRequest(greq[r], q)
<1>1. PICK c \in SlotStates : c = greq[r]
  BY SMT DEF SlotsInv
<1>2. PICK q : q = [c EXCEPT !.pc = p]
  OBVIOUS
<1>3. q \in SlotStates
  BY <1>2, SMT DEF SlotStates
<1>4. q.pc = p /\ SameRequest(c, q)
  BY <1>2, SMT DEF SlotStates, SameRequest
<1>5. greq' = [greq EXCEPT ![r] = q]
  BY <1>1, <1>2, Zenon DEF GateTo
<1> QED  BY <1>1, <1>3, <1>4, <1>5, Zenon

LEMMA SlotMoves ==
    ASSUME SlotsInv, NEW r \in GateSlots, NEW q \in SlotStates, greq' = [greq EXCEPT ![r] = q],
           UNCHANGED gset, SlotOK(q, gset)
    PROVE  SlotsInv'
<1>1. greq' \in [GateSlots -> SlotStates]
  BY SMT DEF SlotsInv
<1>2. \A u \in GateSlots : greq'[u] = IF u = r THEN q ELSE greq[u]
  BY SMT DEF SlotsInv
<1>3. \A u \in GateSlots : SlotOK(greq'[u], gset)
  BY <1>2, Zenon DEF SlotsInv
<1> QED  BY <1>1, <1>3, Zenon DEF SlotsInv

LEMMA SlotOf ==
    ASSUME SlotsInv, NEW r \in GateSlots
    PROVE  greq[r] \in SlotStates /\ SlotOK(greq[r], gset) /\ gset \in GateSettings /\ gset.enforced \in BOOLEAN
<1>1. gset \in GateSettings /\ gset.enforced \in BOOLEAN
  BY ApiGateAssumption, Zenon DEF SlotsInv
<1> QED  BY <1>1, SMT DEF SlotsInv

\* A request that goes on with nothing to show for it.
LEMMA SlotGoesOn ==
    ASSUME SlotsInv, NEW r \in GateSlots, NEW p \in SlotPcs \ {"free", "handler", "handled"}, GateTo(r, p), UNCHANGED gset,
           p \in Waiting => greq[r].pc \in Waiting, greq[r].pc # "free",
           p \in PastCSRF => \/ greq[r].pc \in PastCSRF
                             \/ Endpoint[greq[r].ep].unsafe = TRUE /\ greq[r].cross = TRUE => greq[r].cred \in {"none", "bearer"}
    PROVE  SlotsInv'
<1>1. PICK c \in SlotStates : c = greq[r] /\ SlotOK(c, gset)
  BY SlotOf, Zenon
<1>2. PICK q \in SlotStates : greq' = [greq EXCEPT ![r] = q] /\ q.pc = p /\ SameRequest(c, q)
  BY <1>1, SlotGoes, Zenon
<1>3. SlotOK(q, gset)
  BY <1>1, <1>2, SMT DEF SlotOK, SameRequest
<1> QED  BY <1>2, <1>3, SlotMoves, Zenon

\* The fields of a free slot.
LEMMA FreeFields ==
    \E h \in SlotHosts : FreeSlot = [pc |-> "free", ep |-> "health", cred |-> "none", role |-> "none", cross |-> FALSE,
                        host |-> h, enforced |-> FALSE, identity |-> "none", watched |-> FALSE]
<1>1. PICK h : h = FreeSlot.host
  OBVIOUS
<1>2. h \in SlotHosts
  BY <1>1, Zenon DEF SlotHosts
<1>3. FreeSlot = [pc |-> "free", ep |-> "health", cred |-> "none", role |-> "none", cross |-> FALSE,
                        host |-> h, enforced |-> FALSE, identity |-> "none", watched |-> FALSE]
  BY <1>1, Zenon DEF FreeSlot
<1> QED  BY <1>2, <1>3

\* AuthMiddleware passes request c, without and with an identity.
PassedAs(c, p, e) == [c EXCEPT !.pc = p, !.enforced = e]
IdentifiedAs(c, p, e, i) == [c EXCEPT !.pc = p, !.enforced = e, !.identity = i]

\* Request q is c at the step p, with what AuthMiddleware found.
Passed(c, q, p, e, i) ==
    /\ q \in SlotStates /\ q.pc = p /\ q.enforced = e /\ q.identity = i
    /\ q.ep = c.ep /\ q.cred = c.cred /\ q.role = c.role /\ q.cross = c.cross /\ q.host = c.host
    /\ q.watched = c.watched

LEMMA EnforcedFields ==
    ASSUME NEW c \in SlotStates, NEW p \in SlotPcs, NEW e \in BOOLEAN, NEW i \in Ranked
    PROVE  Passed(c, PassedAs(c, p, e), p, e, c.identity) /\ Passed(c, IdentifiedAs(c, p, e, i), p, e, i)
<1>1. PICK q1 : q1 = [c EXCEPT !.pc = p]
  OBVIOUS
<1>2. q1 \in SlotStates /\ q1.pc = p /\ SameRequest(c, q1)
  <2>1. q1 \in SlotStates
    BY <1>1, SMT DEF SlotStates
  <2>2. q1.pc = p /\ SameRequest(c, q1)
    BY <1>1, SMT DEF SlotStates, SameRequest
  <2> QED  BY <2>1, <2>2
<1>3. PICK q : q = [q1 EXCEPT !.enforced = e]
  OBVIOUS
<1>4. q \in SlotStates
  BY <1>2, <1>3, SMT DEF SlotStates
<1>5. /\ q.pc = p /\ q.enforced = e
      /\ q.ep = q1.ep /\ q.cred = q1.cred /\ q.role = q1.role /\ q.cross = q1.cross /\ q.host = q1.host
      /\ q.identity = q1.identity /\ q.watched = q1.watched
  BY <1>2, <1>3, SMT DEF SlotStates
<1>6. PICK q2 : q2 = [q EXCEPT !.identity = i]
  OBVIOUS
<1>7. q2 \in SlotStates
  BY <1>4, <1>6, SMT DEF SlotStates
<1>8. /\ q2.pc = p /\ q2.enforced = e
      /\ q2.ep = q.ep /\ q2.cred = q.cred /\ q2.role = q.role /\ q2.cross = q.cross /\ q2.host = q.host
      /\ q2.identity = i /\ q2.watched = q.watched
  BY <1>4, <1>5, <1>6, SMT DEF SlotStates
<1>9. q = PassedAs(c, p, e)
  BY <1>1, <1>3, Zenon DEF PassedAs
<1>10. q2 = IdentifiedAs(c, p, e, i)
  BY <1>1, <1>3, <1>6, Zenon DEF IdentifiedAs
<1>11. /\ q.ep = c.ep /\ q.cred = c.cred /\ q.role = c.role /\ q.cross = c.cross /\ q.host = c.host
       /\ q.identity = c.identity /\ q.watched = c.watched
  BY <1>2, <1>5, Zenon DEF SameRequest
<1>12. /\ q2.ep = c.ep /\ q2.cred = c.cred /\ q2.role = c.role /\ q2.cross = c.cross /\ q2.host = c.host
       /\ q2.watched = c.watched
  BY <1>8, <1>11, Zenon
<1>13. Passed(c, q, p, e, c.identity)
  BY <1>4, <1>5, <1>11, Zenon DEF Passed
<1>14. Passed(c, q2, p, e, i)
  BY <1>7, <1>8, <1>12, Zenon DEF Passed
<1> QED  BY <1>9, <1>10, <1>13, <1>14, Zenon

\* What the chain asks of an endpoint.
LEMMA EndpointParts ==
    ASSUME NEW e \in {"health", "login", "subnets", "tokens"}
    PROVE  /\ Endpoint[e].unsafe \in BOOLEAN /\ Endpoint[e].strict \in BOOLEAN /\ Endpoint[e].public \in BOOLEAN
           /\ Endpoint[e].role \in Ranked
           /\ Endpoint[e].public = TRUE => Endpoint[e].role = "none"
<1>1. CASE e = "health"
  BY <1>1, Zenon DEF Endpoint, Ranked
<1>2. CASE e = "login"
  BY <1>2, Zenon DEF Endpoint, Ranked
<1>3. CASE e = "subnets"
  BY <1>3, Zenon DEF Endpoint, Ranked
<1>4. CASE e = "tokens"
  BY <1>4, Zenon DEF Endpoint, Ranked
<1> QED  BY <1>1, <1>2, <1>3, <1>4

LEMMA RanksOrdered == RoleRank["none"] = 0 /\ \A x \in Ranked : RoleRank[x] \in Nat
  BY SMT DEF RoleRank, Ranked

-----------------------------------------------------------------------------
(* The steps of a request.                                                 *)

LEMMA ArriveKeeps ==
    ASSUME SlotsInv, NEW r \in GateSlots, NEW ep \in Endpoints, NEW cred \in Credentials,
           NEW role \in {"none", "viewer", "operator", "admin"}, NEW cross \in BOOLEAN, NEW host \in GateHosts,
           GateArrive(r, ep, cred, role, cross, host)
    PROVE  SlotsInv'
<1>1. gset.enforced \in BOOLEAN /\ ep \in {"health", "login", "subnets", "tokens"} /\ role \in Ranked
  BY SlotOf, ApiGateAssumption, Zenon DEF Ranked
<1>2. PICK w \in BOOLEAN : w = gset.enforced
  BY <1>1
<1>3. PICK q : q = [pc |-> "csrf", ep |-> ep, cred |-> cred, role |-> role, cross |-> cross, host |-> host,
                    enforced |-> FALSE, identity |-> "none", watched |-> w]
  OBVIOUS
<1>4. host \in SlotHosts
  BY Zenon DEF SlotHosts
<1>5. q \in SlotStates
  BY <1>1, <1>3, <1>4, SMT DEF SlotStates, SlotPcs, Ranked
<1>6. q.pc = "csrf" /\ q.host = host /\ q.identity = "none" /\ q.watched = w
  BY <1>3, SMT
<1>7. SlotOK(q, gset)
  BY <1>2, <1>6, SMT DEF SlotOK, PastCSRF
<1>8. greq' = [greq EXCEPT ![r] = q] /\ UNCHANGED gset
  BY <1>2, <1>3, Zenon DEF GateArrive
<1> QED  BY <1>5, <1>7, <1>8, SlotMoves, Zenon

LEMMA CSRFKeeps ==
    ASSUME SlotsInv, NEW r \in GateSlots, CSRFGate(r)
    PROVE  SlotsInv'
<1>1. PICK c \in SlotStates : c = greq[r] /\ SlotOK(c, gset)
  BY SlotOf, Zenon
<1>2. c.pc = "csrf" /\ UNCHANGED gset /\ EndpointOf(r) = Endpoint[c.ep]
  BY <1>1, Zenon DEF CSRFGate, GateAt, EndpointOf
<1>3. CASE Endpoint[c.ep].unsafe /\ c.cred \in {"session", "both"} /\ c.cross
  <2>1. GateTo(r, "rejected")
    BY <1>1, <1>2, <1>3, Zenon DEF CSRFGate
  <2>2. "rejected" \in SlotPcs \ {"free", "handler", "handled"} /\ "rejected" \notin Waiting /\ "rejected" \notin PastCSRF
    BY SMT DEF SlotPcs, Waiting, PastCSRF
  <2>3. greq[r].pc # "free"
    BY <1>1, <1>2
  <2> QED  BY <1>2, <2>1, <2>2, <2>3, SlotGoesOn, Zenon
<1>4. CASE ~(Endpoint[c.ep].unsafe /\ c.cred \in {"session", "both"} /\ c.cross)
  <2>1. GateTo(r, "authLimit")
    BY <1>1, <1>2, <1>4, Zenon DEF CSRFGate
  <2>2. "authLimit" \in SlotPcs \ {"free", "handler", "handled"}
    BY SMT DEF SlotPcs
  <2>3. greq[r].pc # "free" /\ greq[r].pc \in Waiting
    BY <1>1, <1>2, SMT DEF Waiting
  <2>4. c.cred \in Credentials
    BY SMT DEF SlotStates
  <2>5. Endpoint[c.ep].unsafe = TRUE /\ c.cross = TRUE => c.cred \in {"none", "bearer"}
    BY <1>4, <2>4, Zenon DEF Credentials
  <2> QED  BY <1>1, <1>2, <2>1, <2>2, <2>3, <2>5, SlotGoesOn, Zenon
<1> QED  BY <1>3, <1>4

\* A limiter lets the request on, or refuses it.
LEMMA LimiterGoes ==
    ASSUME SlotsInv, NEW r \in GateSlots, NEW lim, NEW key, NEW rate, NEW next \in {"limit", "auth"},
           Limiter(r, lim, key, rate, next), greq[r].pc \in {"authLimit", "limit"}
    PROVE  SlotsInv'
<1>1. GateTo(r, next) \/ GateTo(r, "limited")
  BY Zenon DEF Limiter
<1>2. UNCHANGED gset
  BY Zenon DEF Limiter
<1>3. greq[r].pc # "free" /\ greq[r].pc \in Waiting /\ greq[r].pc \in PastCSRF
  BY SMT DEF Waiting, PastCSRF
<1>4. next \in SlotPcs \ {"free", "handler", "handled"} /\ "limited" \in SlotPcs \ {"free", "handler", "handled"}
  BY SMT DEF SlotPcs
<1> QED  BY <1>1, <1>2, <1>3, <1>4, SlotGoesOn, Zenon

LEMMA LimitsKeepSlots ==
    ASSUME SlotsInv, NEW r \in GateSlots, AuthRateLimit(r) \/ RateLimit(r)
    PROVE  SlotsInv'
<1>1. CASE AuthRateLimit(r) /\ EndpointOf(r).key = FreeSlot.host
  <2>1. GateTo(r, "limit") /\ UNCHANGED gset
    BY <1>1, Zenon DEF AuthRateLimit, FreeSlot
  <2>2. greq[r].pc = "authLimit"
    BY <1>1, Zenon DEF AuthRateLimit, GateAt
  <2>3. greq[r].pc # "free" /\ greq[r].pc \in Waiting /\ greq[r].pc \in PastCSRF
    BY <2>2, SMT DEF Waiting, PastCSRF
  <2>4. "limit" \in SlotPcs \ {"free", "handler", "handled"}
    BY SMT DEF SlotPcs
  <2> QED  BY <2>1, <2>3, <2>4, SlotGoesOn, Zenon
<1>2. CASE AuthRateLimit(r) /\ EndpointOf(r).key # FreeSlot.host
  <2>1. Limiter(r, "auth", EndpointOf(r).key, gset.authRate, "limit") /\ greq[r].pc = "authLimit"
    BY <1>2, Zenon DEF AuthRateLimit, GateAt, FreeSlot
  <2> QED  BY <2>1, LimiterGoes, Zenon
<1>3. CASE RateLimit(r)
  <2>1. greq[r].pc = "limit" /\ \E key : Limiter(r, "all", key, gset.rate, "auth")
    BY <1>3, Zenon DEF RateLimit, GateAt
  <2> QED  BY <2>1, LimiterGoes, Zenon
<1> QED  BY <1>1, <1>2, <1>3

LEMMA AuthGateKeeps ==
    ASSUME SlotsInv, NEW r \in GateSlots, AuthGate(r)
    PROVE  SlotsInv'
<1>1. PICK c \in SlotStates : c = greq[r] /\ SlotOK(c, gset)
  BY SlotOf, Zenon
<1>2. c.pc = "auth" /\ UNCHANGED gset /\ EndpointOf(r) = Endpoint[c.ep] /\ resolveIdentity(r) = c.role
  BY <1>1, Zenon DEF AuthGate, GateAt, EndpointOf, resolveIdentity
<1>3. c.role \in Ranked /\ c.host \in GateHosts
  <2>1. c.host \in GateHosts
    BY <1>1, <1>2, SMT DEF SlotOK
  <2> QED  BY <2>1, SMT DEF SlotStates
<1>4. c.watched = TRUE => gset.enforced = TRUE
  BY <1>1, <1>2, SMT DEF SlotOK, Waiting
<1>5. c.identity \in {"none", c.role}
        /\ (Endpoint[c.ep].unsafe = TRUE /\ c.cross = TRUE => c.cred \in {"none", "bearer"})
  BY <1>1, <1>2, SMT DEF SlotOK, PastCSRF
<1>6. ASSUME NEW e \in BOOLEAN, NEW i \in {"none", c.role}, NEW q, greq' = [greq EXCEPT ![r] = q],
             Passed(c, q, "handler", e, i), c.watched = TRUE => e = TRUE
      PROVE  SlotsInv'
  <2>1. SlotOK(q, gset)
    BY <1>3, <1>5, <1>6, SMT DEF SlotOK, Waiting, Passed
  <2>2. q \in SlotStates
    BY <1>6, Zenon DEF Passed
  <2> QED  BY <1>2, <1>6, <2>1, <2>2, SlotMoves, Zenon
<1>7. "handler" \in SlotPcs /\ "unauthorized" \in SlotPcs \ {"free", "handler", "handled"}
      /\ "unauthorized" \notin Waiting /\ "unauthorized" \notin PastCSRF
  BY SMT DEF SlotPcs, Waiting, PastCSRF
<1>8. PICK e \in BOOLEAN, f \in BOOLEAN : e = FALSE /\ f = TRUE
  OBVIOUS
<1>9. CASE ~gset.enforced
  <2>1. greq' = [greq EXCEPT ![r] = PassedAs(c, "handler", e)]
    BY <1>1, <1>8, <1>9, Zenon DEF AuthGate, PassedAs
  <2>2. Passed(c, PassedAs(c, "handler", e), "handler", e, c.identity)
    BY <1>3, <1>7, EnforcedFields, Zenon
  <2>3. c.watched = TRUE => e = TRUE
    BY <1>4, <1>9
  <2> QED  BY <1>5, <1>6, <2>1, <2>2, <2>3, Zenon
<1>10. CASE gset.enforced /\ EndpointOf(r).public
  <2>1. greq' = [greq EXCEPT ![r] = PassedAs(c, "handler", f)]
    BY <1>1, <1>8, <1>10, Zenon DEF AuthGate, PassedAs
  <2>2. Passed(c, PassedAs(c, "handler", f), "handler", f, c.identity)
    BY <1>3, <1>7, EnforcedFields, Zenon
  <2> QED  BY <1>5, <1>6, <1>8, <2>1, <2>2, Zenon
<1>11. CASE gset.enforced /\ ~EndpointOf(r).public /\ c.role = "none"
  <2>1. greq' = [greq EXCEPT ![r] = [c EXCEPT !.pc = "unauthorized"]]
    BY <1>1, <1>2, <1>11, Zenon DEF AuthGate
  <2>2. GateTo(r, "unauthorized") /\ greq[r].pc # "free"
    BY <1>1, <1>2, <2>1, Zenon DEF GateTo
  <2> QED  BY <1>2, <1>7, <2>2, SlotGoesOn, Zenon
<1>12. CASE gset.enforced /\ ~EndpointOf(r).public /\ c.role # "none"
  <2>1. greq' = [greq EXCEPT ![r] = IdentifiedAs(c, "handler", f, c.role)]
    BY <1>1, <1>2, <1>8, <1>12, Zenon DEF AuthGate, IdentifiedAs
  <2>2. Passed(c, IdentifiedAs(c, "handler", f, c.role), "handler", f, c.role)
    BY <1>3, <1>7, EnforcedFields, Zenon
  <2> QED  BY <1>5, <1>6, <1>8, <2>1, <2>2, Zenon
<1> QED  BY <1>9, <1>10, <1>11, <1>12

LEMMA HandleKeeps ==
    ASSUME SlotsInv, NEW r \in GateSlots, HandleRequest(r)
    PROVE  SlotsInv'
<1>1. PICK c \in SlotStates : c = greq[r] /\ SlotOK(c, gset)
  BY SlotOf, Zenon
<1>2. c.pc = "handler" /\ UNCHANGED gset /\ EndpointOf(r) = Endpoint[c.ep] /\ resolveIdentity(r) = c.role
  BY <1>1, Zenon DEF HandleRequest, GateAt, EndpointOf, resolveIdentity
<1>3. /\ c.ep \in {"health", "login", "subnets", "tokens"} /\ c.role \in Ranked
  BY SMT DEF SlotStates
<1>4. PICK passes \in BOOLEAN : passes =
        (EndpointOf(r).role = "none" \/ IF EndpointOf(r).strict THEN requireRoleWithService(r) ELSE requireRole(r))
  BY Zenon DEF requireRoleWithService, requireRole
<1>5. CASE passes = TRUE
  <2>1. GateTo(r, "handled")
    BY <1>4, <1>5, Zenon DEF HandleRequest
  <2>2. "handled" \in SlotPcs
    BY SMT DEF SlotPcs
  <2>3. PICK q \in SlotStates : greq' = [greq EXCEPT ![r] = q] /\ q.pc = "handled" /\ SameRequest(c, q)
    BY <1>1, <2>1, <2>2, SlotGoes, Zenon
  <2>4. RoleRank[Endpoint[c.ep].role] > 0 /\ (c.watched = TRUE \/ Endpoint[c.ep].strict = TRUE) => Entitled(c)
    <3>1. SUFFICES ASSUME RoleRank[Endpoint[c.ep].role] > 0, c.watched = TRUE \/ Endpoint[c.ep].strict = TRUE
                   PROVE  Entitled(c)
      OBVIOUS
    <3>2. Endpoint[c.ep].role # "none"
      BY <3>1, RanksOrdered, SMT
    <3>3. c.watched = TRUE => c.enforced = TRUE
      BY <1>1, <1>2, SMT DEF SlotOK
    <3>4. c.identity \in {"none", c.role}
      BY <1>1, SMT DEF SlotOK
    <3>5. IF EndpointOf(r).strict THEN requireRoleWithService(r) ELSE requireRole(r)
      BY <1>2, <1>4, <1>5, <3>2, Zenon
    <3>6. CASE Endpoint[c.ep].strict = TRUE
      <4>1. requireRoleWithService(r)
        BY <1>2, <3>5, <3>6, Zenon
      <4>2. (IF c.identity = "none" THEN c.role ELSE c.identity) = c.role
        BY <3>4
      <4> QED  BY <1>1, <1>2, <4>1, <4>2, Zenon DEF requireRoleWithService, Entitled
    <3>7. CASE Endpoint[c.ep].strict # TRUE
      <4>1. requireRole(r)
        BY <1>2, <1>3, <3>5, <3>7, EndpointParts, Zenon
      <4>2. c.enforced = TRUE
        BY <3>1, <3>3, <3>7
      <4>3. c.identity = c.role
        BY <1>1, <3>4, <4>1, <4>2, Zenon DEF requireRole
      <4>4. CASE c.identity = "none"
        BY <1>1, <4>1, <4>2, <4>4, Zenon DEF requireRole
      <4>5. CASE c.identity # "none"
        BY <1>1, <1>2, <4>1, <4>3, <4>5, Zenon DEF requireRole, Entitled
      <4> QED  BY <4>4, <4>5
    <3> QED  BY <3>6, <3>7
  <2>5. SlotOK(q, gset)
    <3>1. q.identity \in {"none", q.role} /\ q.host \in GateHosts
            /\ (Endpoint[q.ep].unsafe = TRUE /\ q.cross = TRUE => q.cred \in {"none", "bearer"})
      BY <1>1, <1>2, <2>3, SMT DEF SlotOK, PastCSRF, SameRequest
    <3>2. RoleRank[Endpoint[q.ep].role] > 0 /\ (q.watched = TRUE \/ Endpoint[q.ep].strict = TRUE) => Entitled(q)
      BY <2>3, <2>4, Zenon DEF SameRequest, Entitled
    <3>3. q.pc # "handler" /\ q.pc \notin Waiting
      BY <2>3, SMT DEF Waiting
    <3> QED  BY <3>1, <3>2, <3>3, Zenon DEF SlotOK
  <2> QED  BY <1>2, <2>3, <2>5, SlotMoves, Zenon
<1>6. CASE passes = FALSE
  <2>1. GateTo(r, "forbidden")
    BY <1>4, <1>6, Zenon DEF HandleRequest
  <2>2. "forbidden" \in SlotPcs \ {"free", "handler", "handled"} /\ "forbidden" \notin Waiting /\ "forbidden" \notin PastCSRF
    BY SMT DEF SlotPcs, Waiting, PastCSRF
  <2>3. greq[r].pc # "free"
    BY <1>1, <1>2
  <2> QED  BY <1>2, <2>1, <2>2, <2>3, SlotGoesOn, Zenon
<1> QED  BY <1>5, <1>6

LEMMA SettingsKeepSlots ==
    ASSUME SlotsInv, NEW s \in GateSettings, ApplySettings(s)
    PROVE  SlotsInv'
<1>1. s.enforced \in BOOLEAN
  BY ApiGateAssumption, Zenon
<1>2. ASSUME NEW r \in GateSlots
      PROVE  greq'[r] \in SlotStates /\ SlotOK(greq'[r], s)
  <2>1. PICK c \in SlotStates : c = greq[r] /\ SlotOK(c, gset)
    BY SlotOf, Zenon
  <2>2. c.watched \in BOOLEAN
    BY SMT DEF SlotStates
  <2>3. PICK w \in BOOLEAN : w = (c.watched /\ (s.enforced \/ c.pc \in {"handler", "handled"}))
    BY <2>2, Zenon
  <2>4. PICK q : q = [c EXCEPT !.watched = w]
    OBVIOUS
  <2>5. greq'[r] = q
    BY <1>2, <2>1, <2>3, <2>4, Zenon DEF ApplySettings
  <2>6. q \in SlotStates
    BY <2>4, SMT DEF SlotStates
  <2>7. /\ q.pc = c.pc /\ q.ep = c.ep /\ q.cred = c.cred /\ q.role = c.role /\ q.cross = c.cross /\ q.host = c.host
        /\ q.enforced = c.enforced /\ q.identity = c.identity /\ q.watched = w
    BY <2>4, SMT DEF SlotStates
  <2>8. w = TRUE => c.watched = TRUE /\ (s.enforced = TRUE \/ c.pc \in {"handler", "handled"})
    BY <1>1, <2>2, <2>3
  <2>9. SlotOK(q, s)
    BY <2>1, <2>7, <2>8, SMT DEF SlotOK, Entitled, Waiting
  <2> QED  BY <2>5, <2>6, <2>9, Zenon
<1>3. greq' \in [GateSlots -> SlotStates]
  BY <1>2, SMT DEF ApplySettings
<1>4. gset' = s
  BY Zenon DEF ApplySettings
<1> QED  BY <1>2, <1>3, <1>4, Zenon DEF SlotsInv

-----------------------------------------------------------------------------
(* The buckets.                                                            *)

\* What BucketsInv says of bucket k.
LEMMA OfBucket ==
    ASSUME BucketsInv, NEW k \in BucketKeys
    PROVE  /\ k[4] \in Nat \ {0} /\ GTicks \in Nat \ {0} /\ gnow \in Nat
           /\ buckets[k] = NoBucket \/
                 (buckets[k].tokens \in 0..(k[4] * GTicks) /\ buckets[k].last \in 0..gnow)
           /\ Level(k) \in 0..(k[4] * GTicks)
<1>1. PICK d, T : d = k[4] /\ T = GTicks
  OBVIOUS
<1>2. d \in Nat \ {0} /\ T \in Nat \ {0} /\ gnow \in Nat
  BY <1>1, BucketKeyParts, ApiGateAssumption, Zenon DEF BucketsInv
<1>3. buckets[k] = NoBucket \/ (buckets[k].tokens \in 0..(d * T) /\ buckets[k].last \in 0..gnow)
  BY <1>1, Zenon DEF BucketsInv
<1>4. d * T \in Nat
  BY <1>2, SMT
<1>5. CASE buckets[k] = NoBucket
  <2>1. Level(k) = d * T
    BY <1>1, <1>5, Zenon DEF Level, Refilled
  <2> QED  BY <1>1, <1>2, <1>3, <1>4, <2>1, SMT
<1>6. CASE buckets[k] # NoBucket
  <2>1. PICK n, l : n = buckets[k].tokens /\ l = buckets[k].last
    OBVIOUS
  <2>2. n \in 0..(d * T) /\ l \in 0..gnow
    BY <1>3, <1>6, <2>1, Zenon
  <2>3. PICK f : f = (gnow - l) * d
    OBVIOUS
  <2>4. f \in Nat
    BY <1>2, <2>2, <2>3, SMT
  <2>5. Level(k) = IF n + f > d * T THEN d * T ELSE n + f
    BY <1>1, <1>6, <2>1, <2>3, Zenon DEF Level, Refilled
  <2> QED  BY <1>1, <1>2, <1>3, <1>4, <2>2, <2>4, <2>5, SMT
<1> QED  BY <1>5, <1>6

LEMMA AdmittedFinite ==
    ASSUME BucketsInv, NEW k, NEW from, NEW to
    PROVE  IsFiniteSet(AdmittedIn(k, from, to)) /\ Cardinality(AdmittedIn(k, from, to)) \in Nat
<1>1. AdmittedIn(k, from, to) \subseteq admitted
  BY Zenon DEF AdmittedIn
<1>2. IsFiniteSet(admitted)
  BY Zenon DEF BucketsInv
<1> QED  BY <1>1, <1>2, FS_Subset, FS_CardinalityType, Zenon

\* The bound for requests up to the present.
Spent(k, from, to) ==
    Cardinality(AdmittedIn(k, from, to)) * GTicks <= k[4] * GTicks + k[4] * (to - from)

LEMMA RateBoundedSpent ==
    RateBounded <=> \A k \in BucketKeys, from \in 0..gnow, to \in 0..gnow : from <= to => Spent(k, from, to)
  BY DEF RateBounded, Spent, AdmittedIn

\* Now: what was admitted since from, and the level, add up.
Budget(k, from, now, level) ==
    Cardinality(AdmittedIn(k, from, now)) * GTicks + level <= k[4] * GTicks + k[4] * (now - from)

LEMMA BudgetSpent ==
    ASSUME NEW k \in BucketKeys, NEW now \in Nat, NEW from \in 0..now, NEW level \in Nat, Budget(k, from, now, level),
           Cardinality(AdmittedIn(k, from, now)) \in Nat
    PROVE  Spent(k, from, now)
<1>1. PICK n, b : n = Cardinality(AdmittedIn(k, from, now)) * GTicks /\ b = k[4] * GTicks + k[4] * (now - from)
  OBVIOUS
<1>2. n \in Int /\ b \in Int
  BY <1>1, BucketKeyParts, ApiGateAssumption, SMT
<1>3. n + level <= b
  BY <1>1, Zenon DEF Budget
<1>4. n <= b
  BY <1>2, <1>3, SMT
<1> QED  BY <1>1, <1>4, Zenon DEF Spent

LEMMA BucketsRest ==
    ASSUME BucketsInv, UNCHANGED <<buckets, gnow, admitted>>
    PROVE  BucketsInv'
<1>1. buckets' = buckets /\ gnow' = gnow /\ admitted' = admitted
  OBVIOUS
<1> QED  BY <1>1 DEF BucketsInv, Level, Refilled, AdmittedIn, RateBounded

\* A tick lets at most k[4] flow into bucket k.
LEMMA LevelGrows ==
    ASSUME BucketsInv, NEW k \in BucketKeys, gnow' = gnow + 1, buckets' = buckets
    PROVE  Level(k)' \in 0..(k[4] * GTicks) /\ Level(k)' <= Level(k) + k[4]
<1>1. PICK d, T, c : d = k[4] /\ T = GTicks /\ c = d * T
  OBVIOUS
<1>2. d \in Nat \ {0} /\ T \in Nat \ {0} /\ gnow \in Nat
  BY <1>1, OfBucket, Zenon
<1>3. c \in Nat
  BY <1>1, <1>2, SMT
<1>4. buckets[k] = NoBucket \/ (buckets[k].tokens \in 0..c /\ buckets[k].last \in 0..gnow)
  BY <1>1, OfBucket, Zenon
<1>5. CASE buckets[k] = NoBucket
  <2>1. Level(k) = c /\ Level(k)' = c
    BY <1>1, <1>5, Zenon DEF Level, Refilled
  <2> QED  BY <1>1, <1>2, <1>3, <2>1, SMT
<1>6. CASE buckets[k] # NoBucket
  <2>1. PICK n, l : n = buckets[k].tokens /\ l = buckets[k].last
    OBVIOUS
  <2>2. n \in 0..c /\ l \in 0..gnow
    BY <1>4, <1>6, <2>1, Zenon
  <2>3. PICK f, g : f = (gnow - l) * d /\ g = (gnow' - l) * d
    OBVIOUS
  <2>4. f \in Nat /\ g = f + d
    BY <1>2, <2>2, <2>3, SMT
  <2>5. Level(k) = IF n + f > c THEN c ELSE n + f
    BY <1>1, <1>6, <2>1, <2>3, Zenon DEF Level, Refilled
  <2>6. Level(k)' = IF n + g > c THEN c ELSE n + g
    BY <1>1, <1>6, <2>1, <2>3, Zenon DEF Level, Refilled
  <2> QED  BY <1>1, <1>2, <1>3, <2>2, <2>4, <2>5, <2>6, SMT
<1> QED  BY <1>5, <1>6

LEMMA TickKeepsBuckets ==
    ASSUME BucketsInv, GateTick
    PROVE  BucketsInv'
<1>1. gnow' = gnow + 1 /\ buckets' = buckets /\ admitted' = admitted /\ gnow \in Nat
  BY Zenon DEF GateTick, BucketsInv
<1>2. gnow' \in Nat /\ gnow \in 0..gnow' /\ \A i : i \in 0..gnow' <=> i \in 0..gnow \/ i = gnow'
  BY <1>1, SMT
<1>3. \A k, from, to : AdmittedIn(k, from, to)' = AdmittedIn(k, from, to)
  BY <1>1, Zenon DEF AdmittedIn
<1>4. ASSUME NEW k \in BucketKeys, NEW from \in 0..gnow'
      PROVE  Budget(k, from, gnow', Level(k)')
  <2>1. PICK L, M, d, T : L = Level(k) /\ M = Level(k)' /\ d = k[4] /\ T = GTicks
    OBVIOUS
  <2>2. d \in Nat \ {0} /\ T \in Nat \ {0} /\ L \in 0..(d * T) /\ M \in 0..(d * T) /\ M <= L + d
    <3>1. Level(k)' \in 0..(k[4] * GTicks) /\ Level(k)' <= Level(k) + k[4]
      BY <1>1, LevelGrows, Zenon
    <3> QED  BY <2>1, <3>1, OfBucket, Zenon
  <2>3. CASE from \in 0..gnow
    <3>1. AdmittedIn(k, from, gnow') = AdmittedIn(k, from, gnow)
      <4>1. \A a \in admitted : a.at \in from..gnow' <=> a.at \in from..gnow
        <5>1. ASSUME NEW a \in admitted PROVE a.at \in from..gnow' <=> a.at \in from..gnow
          <6>1. PICK i : i = a.at
            OBVIOUS
          <6>2. i \in 0..gnow
            BY <6>1, Zenon DEF BucketsInv
          <6>3. i \in from..gnow' <=> i \in from..gnow
            BY <1>1, <2>3, <6>2, SMT
          <6> QED  BY <6>1, <6>3
        <5> QED  BY <5>1
      <4> QED  BY <4>1, Zenon DEF AdmittedIn
    <3>2. PICK n : n = Cardinality(AdmittedIn(k, from, gnow))
      OBVIOUS
    <3>3. n \in Nat
      BY <3>2, AdmittedFinite, Zenon
    <3>4. n * T + L <= d * T + d * (gnow - from)
      BY <2>1, <2>3, <3>2, Zenon DEF BucketsInv
    <3>5. n * T + M <= d * T + d * (gnow + 1 - from)
      <4>1. PICK x, y, z : x = n * T /\ y = d * T /\ z = d * (gnow - from)
        OBVIOUS
      <4>2. x \in Int /\ y \in Int /\ z \in Int /\ d * (gnow + 1 - from) = z + d
        BY <1>1, <2>2, <2>3, <3>3, <4>1, SMT
      <4>3. x + M <= y + (z + d)
        BY <2>2, <3>4, <4>1, <4>2, SMT
      <4> QED  BY <4>1, <4>2, <4>3, Zenon
    <3>6. Cardinality(AdmittedIn(k, from, gnow')) = n
      BY <3>1, <3>2
    <3>7. n * T + M <= d * T + d * (gnow' - from)
      BY <1>1, <3>5
    <3> QED  BY <2>1, <3>6, <3>7, Zenon DEF Budget
  <2>4. CASE from = gnow'
    <3>1. AdmittedIn(k, from, gnow') = {}
      <4>1. ASSUME NEW a \in admitted PROVE a.at \notin from..gnow'
        <5>1. PICK i : i = a.at
          OBVIOUS
        <5>2. i \in 0..gnow
          BY <5>1, Zenon DEF BucketsInv
        <5>3. i \notin from..gnow'
          BY <1>1, <2>4, <5>2, SMT
        <5> QED  BY <5>1, <5>3
      <4> QED  BY <4>1, Zenon DEF AdmittedIn
    <3>2. Cardinality(AdmittedIn(k, from, gnow')) = 0
      BY <3>1, FS_EmptySet, Zenon
    <3>3. 0 * T + M <= d * T + d * (gnow' - from)
      <4>1. gnow' - from = 0
        BY <1>1, <2>4, SMT
      <4>2. 0 * T = 0 /\ d * 0 = 0 /\ d * T \in Int
        BY <2>2, SMT
      <4>3. 0 + M <= d * T + 0
        BY <2>2, <4>2, SMT
      <4> QED  BY <4>1, <4>2, <4>3, Zenon
    <3> QED  BY <2>1, <3>2, <3>3, Zenon DEF Budget
  <2> QED  BY <1>2, <1>4, <2>3, <2>4, Zenon
<1>5. ASSUME NEW k \in BucketKeys, NEW from \in 0..gnow', NEW to \in 0..gnow', from <= to
      PROVE  Spent(k, from, to)
  <2>1. CASE to = gnow'
    <3>1. PICK M : M = Level(k)'
      OBVIOUS
    <3>2. M \in Nat
      <4>1. M \in 0..(k[4] * GTicks)
        BY <1>1, <3>1, LevelGrows, Zenon
      <4>2. k[4] * GTicks \in Nat
        BY BucketKeyParts, ApiGateAssumption, SMT
      <4> QED  BY <4>1, <4>2, SMT
    <3>3. Budget(k, from, gnow', M) /\ Cardinality(AdmittedIn(k, from, gnow')) \in Nat
      BY <1>4, <3>1, AdmittedFinite, Zenon
    <3>4. PICK now \in Nat : now = gnow'
      BY <1>2, Zenon
    <3> QED  BY <2>1, <3>2, <3>3, <3>4, BudgetSpent, Zenon
  <2>2. CASE to \in 0..gnow
    <3>1. from \in 0..gnow
      BY <1>1, <1>5, <2>2, SMT
    <3> QED  BY <1>5, <2>2, <3>1, RateBoundedSpent, Zenon DEF BucketsInv
  <2> QED  BY <1>2, <2>1, <2>2, Zenon
<1>6. RateBounded'
  <2>1. \A k \in BucketKeys, from \in 0..gnow', to \in 0..gnow' : from <= to =>
           LET n == Cardinality(AdmittedIn(k, from, to)') IN n * GTicks <= k[4] * GTicks + k[4] * (to - from)
    BY <1>3, <1>5, Zenon DEF Spent
  <2> QED  BY <2>1 DEF RateBounded, AdmittedIn
<1>7. \A k \in BucketKeys, from \in 0..gnow' :
          Cardinality(AdmittedIn(k, from, gnow)') * GTicks + Level(k)' <= k[4] * GTicks + k[4] * (gnow' - from)
  <2>1. ASSUME NEW k \in BucketKeys, NEW from \in 0..gnow'
        PROVE  Cardinality(AdmittedIn(k, from, gnow)') * GTicks + Level(k)' <= k[4] * GTicks + k[4] * (gnow' - from)
    <3>1. AdmittedIn(k, from, gnow)' = AdmittedIn(k, from, gnow')
      BY <1>1, Zenon DEF AdmittedIn
    <3> QED  BY <1>4, <2>1, <3>1, Zenon DEF Budget
  <2> QED  BY <2>1
<1>8. \A k \in BucketKeys : buckets'[k] # NoBucket =>
          buckets'[k].tokens \in 0..(k[4] * GTicks) /\ buckets'[k].last \in 0..gnow'
  BY <1>1, <1>2, Zenon DEF BucketsInv
<1>9. IsFiniteSet(admitted') /\ \A a \in admitted' : a.at \in 0..gnow'
  BY <1>1, <1>2, Zenon DEF BucketsInv
<1>10. buckets' \in [BucketKeys -> [tokens : Int, last : Int]]
  BY <1>1, Zenon DEF BucketsInv
<1> QED  BY <1>2, <1>6, <1>7, <1>8, <1>9, <1>10, Zenon DEF BucketsInv

\* A limiter finds t in bucket k and admits x, if that is enough.
TakesFrom(k, t, x) ==
    /\ t = Level(k) /\ x.k = k /\ x.at = gnow
    /\ IF t >= GTicks
       THEN /\ buckets' = [buckets EXCEPT ![k] = [tokens |-> t - GTicks, last |-> gnow]]
            /\ admitted' = admitted \cup {x}
       ELSE /\ buckets' = [buckets EXCEPT ![k] = [tokens |-> t, last |-> gnow]]
            /\ admitted' = admitted
    /\ UNCHANGED gnow

LEMMA LimiterBucket ==
    ASSUME BucketsInv, SlotsInv, NEW r \in GateSlots, NEW lim \in {"auth", "all"}, NEW key, NEW rate, NEW next,
           Limiter(r, lim, key, rate, next), <<lim, greq[r].host, key, rate>> \in BucketKeys
    PROVE  \E k \in BucketKeys : \E x, t : TakesFrom(k, t, x)
<1>1. PICK k \in BucketKeys : k = <<lim, greq[r].host, key, rate>>
  OBVIOUS
<1>2. k[4] = rate
  BY <1>1, SMT
<1>3. PICK x : x = [k |-> k, req |-> r, at |-> gnow]
  OBVIOUS
<1>4. x.k = k /\ x.at = gnow
  BY <1>3, SMT
<1>5. PICK t : t = Level(k)
  OBVIOUS
<1>6. t = Refilled(buckets[k], rate)
  BY <1>2, <1>5, Zenon DEF Level
<1>7. UNCHANGED gnow
  BY Zenon DEF Limiter
<1>8. CASE t >= GTicks
  <2>1. /\ buckets' = [buckets EXCEPT ![k] = [tokens |-> t - GTicks, last |-> gnow]]
        /\ admitted' = admitted \cup {x}
    BY <1>1, <1>3, <1>6, <1>8, Zenon DEF Limiter
  <2> QED  BY <1>4, <1>5, <1>7, <1>8, <2>1, Zenon DEF TakesFrom
<1>9. CASE ~(t >= GTicks)
  <2>1. buckets' = [buckets EXCEPT ![k] = [tokens |-> t, last |-> gnow]] /\ admitted' = admitted
    BY <1>1, <1>6, <1>9, Zenon DEF Limiter
  <2> QED  BY <1>4, <1>5, <1>7, <1>9, <2>1, Zenon DEF TakesFrom
<1> QED  BY <1>8, <1>9

\* Bucket k is left with m, after it admitted more requests or not.
LEMMA BucketTaken ==
    ASSUME BucketsInv, NEW k \in BucketKeys, NEW m \in 0..(k[4] * GTicks),
           buckets' = [buckets EXCEPT ![k] = [tokens |-> m, last |-> gnow]], UNCHANGED gnow
    PROVE  /\ buckets' \in [BucketKeys -> [tokens : Int, last : Int]]
           /\ \A j \in BucketKeys : buckets'[j] # NoBucket =>
                 buckets'[j].tokens \in 0..(j[4] * GTicks) /\ buckets'[j].last \in 0..gnow'
           /\ Level(k)' = m
           /\ \A j \in BucketKeys : j # k => Level(j)' = Level(j)
<1>1. PICK b : b = [tokens |-> m, last |-> gnow]
  OBVIOUS
<1>2. PICK c \in Nat : c = k[4] * GTicks
  BY BucketKeyParts, ApiGateAssumption, SMT
<1>3. gnow \in Nat /\ m \in 0..c /\ gnow' = gnow
  BY <1>2, Zenon DEF BucketsInv
<1>4. b.tokens = m /\ b.last = gnow /\ b \in [tokens : Int, last : Int] /\ b # NoBucket
  <2>1. NoBucket.tokens = -1
    BY SMT DEF NoBucket
  <2>2. b.tokens = m /\ b.last = gnow /\ b \in [tokens : Int, last : Int] /\ m # -1
    BY <1>1, <1>3, SMT
  <2> QED  BY <2>1, <2>2
<1>5. /\ buckets' \in [BucketKeys -> [tokens : Int, last : Int]]
      /\ \A j \in BucketKeys : buckets'[j] = IF j = k THEN b ELSE buckets[j]
  <2>1. buckets \in [BucketKeys -> [tokens : Int, last : Int]] /\ buckets' = [buckets EXCEPT ![k] = b]
    BY <1>1, Zenon DEF BucketsInv
  <2> QED  BY <1>4, <2>1, SMT
<1>6. \A j \in BucketKeys : buckets'[j] # NoBucket =>
                 buckets'[j].tokens \in 0..(j[4] * GTicks) /\ buckets'[j].last \in 0..gnow'
  <2>1. SUFFICES ASSUME NEW j \in BucketKeys, buckets'[j] # NoBucket
                 PROVE  buckets'[j].tokens \in 0..(j[4] * GTicks) /\ buckets'[j].last \in 0..gnow'
    OBVIOUS
  <2>2. CASE j = k
    <3>1. gnow \in 0..gnow
      BY <1>3, SMT
    <3> QED  BY <1>2, <1>3, <1>4, <1>5, <2>2, <3>1, Zenon
  <2>3. CASE j # k
    BY <1>3, <1>5, <2>1, <2>3, Zenon DEF BucketsInv
  <2> QED  BY <2>2, <2>3
<1>7. Level(k)' = m
  <2>1. PICK d, f : d = k[4] /\ f = (gnow' - gnow) * d
    OBVIOUS
  <2>2. f = 0 /\ m + f = m /\ ~(m + f > c)
    <3>1. d \in Nat
      BY <2>1, BucketKeyParts, Zenon
    <3>2. f = 0
      BY <1>3, <2>1, <3>1, SMT
    <3> QED  BY <1>3, <3>2, SMT
  <2>3. Level(k)' = IF m + f > c THEN c ELSE m + f
    BY <1>2, <1>4, <1>5, <2>1, Zenon DEF Level, Refilled
  <2> QED  BY <2>2, <2>3
<1>8. \A j \in BucketKeys : j # k => Level(j)' = Level(j)
  BY <1>3, <1>5, Zenon DEF Level, Refilled
<1> QED  BY <1>5, <1>6, <1>7, <1>8

LEMMA LevelLeft ==
    ASSUME NEW n \in Nat, NEW k \in BucketKeys, NEW d \in Int, NEW level \in Nat,
           n * GTicks + level <= k[4] * GTicks + k[4] * d
    PROVE  n * GTicks <= k[4] * GTicks + k[4] * d
<1>1. PICK x, y : x = n * GTicks /\ y = k[4] * GTicks + k[4] * d
  OBVIOUS
<1>2. x \in Int /\ y \in Int
  BY <1>1, BucketKeyParts, ApiGateAssumption, SMT
<1> QED  BY <1>1, <1>2, SMT

\* One more request at the present, and GTicks less in the bucket.
LEMMA LimiterKeepsBuckets ==
    ASSUME BucketsInv, SlotsInv, NEW r \in GateSlots, NEW lim \in {"auth", "all"}, NEW key, NEW rate, NEW next,
           Limiter(r, lim, key, rate, next), <<lim, greq[r].host, key, rate>> \in BucketKeys
    PROVE  BucketsInv'
<1>1. PICK k \in BucketKeys : \E x, t : TakesFrom(k, t, x)
  BY LimiterBucket, Zenon
<1>2. PICK x, t :
              /\ t = Level(k) /\ x.k = k /\ x.at = gnow
              /\ IF t >= GTicks
                 THEN /\ buckets' = [buckets EXCEPT ![k] = [tokens |-> t - GTicks, last |-> gnow]]
                      /\ admitted' = admitted \cup {x}
                 ELSE /\ buckets' = [buckets EXCEPT ![k] = [tokens |-> t, last |-> gnow]]
                      /\ admitted' = admitted
              /\ UNCHANGED gnow
  BY <1>1, Zenon DEF TakesFrom
<1>3. PICK m : m = IF t >= GTicks THEN t - GTicks ELSE t
  OBVIOUS
<1>4. buckets' = [buckets EXCEPT ![k] = [tokens |-> m, last |-> gnow]] /\ gnow' = gnow /\ gnow \in Nat
  BY <1>2, <1>3, Zenon DEF BucketsInv
<1>5. PICK c \in Nat : c = k[4] * GTicks
  BY BucketKeyParts, ApiGateAssumption, SMT
<1>6. t \in 0..c /\ GTicks \in Nat \ {0}
  BY <1>2, <1>5, OfBucket, Zenon
<1>7. m \in 0..c
  BY <1>3, <1>6, SMT
<1>8. /\ buckets' \in [BucketKeys -> [tokens : Int, last : Int]]
      /\ \A j \in BucketKeys : buckets'[j] # NoBucket =>
            buckets'[j].tokens \in 0..(j[4] * GTicks) /\ buckets'[j].last \in 0..gnow'
      /\ Level(k)' = m
      /\ \A j \in BucketKeys : j # k => Level(j)' = Level(j)
  BY <1>4, <1>5, <1>7, BucketTaken, Zenon
<1>9. IsFiniteSet(admitted') /\ \A a \in admitted' : a.at \in 0..gnow'
  <2>1. admitted' = admitted \/ admitted' = admitted \cup {x}
    BY <1>2
  <2>2. IsFiniteSet(admitted')
    <3>1. IsFiniteSet(admitted)
      BY DEF BucketsInv
    <3>2. IsFiniteSet(admitted \cup {x})
      BY <3>1, FS_AddElement, Zenon
    <3> QED  BY <2>1, <3>1, <3>2
  <2>3. gnow \in 0..gnow
    BY <1>4, SMT
  <2> QED  BY <1>2, <1>4, <2>1, <2>2, <2>3, Zenon DEF BucketsInv
<1>10. ASSUME NEW j \in BucketKeys, NEW from, NEW to, j # k \/ gnow \notin from..to
      PROVE  AdmittedIn(j, from, to)' = AdmittedIn(j, from, to)
  <2>1. CASE admitted' = admitted
    BY <2>1, Zenon DEF AdmittedIn
  <2>2. CASE admitted' = admitted \cup {x}
    <3>1. ~(x.k = j /\ x.at \in from..to)
      BY <1>2, <1>10, Zenon
    <3> QED  BY <2>2, <3>1, Zenon DEF AdmittedIn
  <2> QED  BY <1>2, <2>1, <2>2
<1>11. PICK now : now = gnow
  OBVIOUS
<1>12. ASSUME NEW from \in 0..gnow
       PROVE  /\ Cardinality(AdmittedIn(k, from, now)') \in Nat
              /\ Cardinality(AdmittedIn(k, from, now)') * GTicks + m <= k[4] * GTicks + k[4] * (gnow - from)
  <2>1. PICK S, U, n, z : /\ S = AdmittedIn(k, from, gnow) /\ U = AdmittedIn(k, from, now)' /\ n = Cardinality(S)
                          /\ z = k[4] * GTicks + k[4] * (gnow - from)
    OBVIOUS
  <2>2. IsFiniteSet(S) /\ n \in Nat
    BY <2>1, AdmittedFinite, Zenon
  <2>3. n * GTicks + t <= z
    BY <1>2, <1>12, <2>1, Zenon DEF BucketsInv
  <2>4. z \in Int
    BY <1>4, <1>12, <2>1, BucketKeyParts, ApiGateAssumption, SMT
  <2>5. CASE t >= GTicks
    <3>1. admitted' = admitted \cup {x} /\ m = t - GTicks
      BY <1>2, <1>3, <2>5
    <3>2. U \subseteq S \cup {x}
      BY <1>11, <2>1, <3>1, Zenon DEF AdmittedIn
    <3>3. /\ IsFiniteSet(S \cup {x})
          /\ Cardinality(S \cup {x}) = n \/ Cardinality(S \cup {x}) = n + 1
      BY <2>1, <2>2, FS_AddElement, Zenon
    <3>4. IsFiniteSet(U) /\ Cardinality(U) <= Cardinality(S \cup {x}) /\ Cardinality(U) \in Nat
      BY <3>2, <3>3, FS_Subset, FS_CardinalityType, Zenon
    <3>5. PICK u \in Nat : u = Cardinality(U) /\ u <= n + 1
      BY <2>2, <3>3, <3>4, SMT
    <3>6. u * GTicks <= n * GTicks + GTicks
      BY <1>6, <2>2, <3>5, SMT
    <3>7. u * GTicks + m <= z
      <4>1. PICK a, b : a = u * GTicks /\ b = n * GTicks
        OBVIOUS
      <4>2. a \in Int /\ b \in Int
        BY <1>6, <2>2, <4>1, SMT
      <4> QED  BY <1>6, <2>3, <2>4, <3>1, <3>6, <4>1, <4>2, SMT
    <3> QED  BY <2>1, <3>5, <3>7, Zenon
  <2>6. CASE ~(t >= GTicks)
    <3>1. admitted' = admitted /\ m = t
      BY <1>2, <1>3, <2>6
    <3>2. U = S
      BY <1>11, <2>1, <3>1, Zenon DEF AdmittedIn
    <3> QED  BY <2>1, <2>2, <2>3, <3>1, <3>2, Zenon
  <2> QED  BY <2>5, <2>6
<1>13. ASSUME NEW j \in BucketKeys, NEW from \in 0..gnow
       PROVE  /\ Cardinality(AdmittedIn(j, from, now)') \in Nat
              /\ Cardinality(AdmittedIn(j, from, now)') * GTicks + Level(j)' <= j[4] * GTicks + j[4] * (gnow - from)
  <2>1. CASE j = k
    BY <1>8, <1>12, <2>1, Zenon
  <2>2. CASE j # k
    <3>1. AdmittedIn(j, from, now)' = AdmittedIn(j, from, gnow) /\ Level(j)' = Level(j)
      BY <1>11, <1>8, <1>10, <2>2, Zenon
    <3>2. Cardinality(AdmittedIn(j, from, gnow)) * GTicks + Level(j) <= j[4] * GTicks + j[4] * (gnow - from)
      BY <1>13, Zenon DEF BucketsInv
    <3> QED  BY <3>1, <3>2, AdmittedFinite, Zenon
  <2> QED  BY <2>1, <2>2
<1>14. ASSUME NEW j \in BucketKeys, NEW from \in 0..gnow, NEW to \in 0..gnow, from <= to
       PROVE  Cardinality(AdmittedIn(j, from, to)') * GTicks <= j[4] * GTicks + j[4] * (to - from)
  <2>1. CASE to = gnow
    <3>1. PICK L : L = Level(j)'
      OBVIOUS
    <3>2. L \in Nat
      <4>1. PICK e \in Nat : e = j[4] * GTicks
        BY BucketKeyParts, ApiGateAssumption, SMT
      <4>2. L \in 0..c \/ L \in 0..e
        BY <1>7, <1>8, <3>1, <4>1, OfBucket, Zenon
      <4> QED  BY <4>2, SMT
    <3>3. PICK n \in Nat : n = Cardinality(AdmittedIn(j, from, now)')
      BY <1>13, <1>14, Zenon
    <3>4. PICK d \in Int : d = gnow - from
      BY <1>4, SMT
    <3>5. n * GTicks + L <= j[4] * GTicks + j[4] * d
      BY <1>13, <1>14, <3>1, <3>3, <3>4, Zenon
    <3>6. n * GTicks <= j[4] * GTicks + j[4] * d
      BY <3>2, <3>5, LevelLeft, Zenon
    <3> QED  BY <1>11, <2>1, <3>3, <3>4, <3>6, Zenon
  <2>2. CASE to # gnow
    <3>1. gnow \notin from..to
      BY <1>4, <1>14, <2>2, SMT
    <3>2. AdmittedIn(j, from, to)' = AdmittedIn(j, from, to)
      BY <1>10, <3>1, Zenon
    <3>3. Spent(j, from, to)
      BY <1>14, RateBoundedSpent, Zenon DEF BucketsInv
    <3> QED  BY <3>2, <3>3, Zenon DEF Spent
  <2> QED  BY <2>1, <2>2
<1>15. RateBounded'
  BY <1>4, <1>14 DEF RateBounded, AdmittedIn
<1>16. \A j \in BucketKeys, from \in 0..gnow' :
          Cardinality(AdmittedIn(j, from, gnow)') * GTicks + Level(j)' <= j[4] * GTicks + j[4] * (gnow' - from)
  <2>1. \A j, from : AdmittedIn(j, from, gnow)' = AdmittedIn(j, from, now)'
    BY <1>11, <1>4, Zenon DEF AdmittedIn
  <2> QED  BY <1>4, <1>13, <2>1, Zenon
<1>17. gnow' \in Nat
  BY <1>4
<1> QED  BY <1>8, <1>9, <1>15, <1>16, <1>17, Zenon DEF BucketsInv

\* The key of a request's bucket.
LEMMA LimiterKeys ==
    ASSUME SlotsInv, NEW r \in GateSlots, greq[r].pc \in {"authLimit", "limit"}
    PROVE  /\ <<"auth", greq[r].host, EndpointOf(r).key, gset.authRate>> \in BucketKeys
           /\ <<"all", greq[r].host, FreeSlot.host, gset.rate>> \in BucketKeys
<1>1. PICK c \in SlotStates : c = greq[r] /\ SlotOK(c, gset)
  BY SlotOf, Zenon
<1>2. c.host \in GateHosts /\ c.ep \in {"health", "login", "subnets", "tokens"}
  BY <1>1, SMT DEF SlotOK, SlotStates
<1>3. FreeSlot.host = ""
  BY Zenon DEF FreeSlot
<1>4. EndpointOf(r).key \in {FreeSlot.host, "login", "tokens.create"}
  <2>1. EndpointOf(r) = Endpoint[c.ep]
    BY <1>1 DEF EndpointOf
  <2>2. CASE c.ep = "health"
    <3>1. Endpoint["health"].key = ""
      BY Zenon DEF Endpoint
    <3> QED  BY <1>3, <2>1, <2>2, <3>1, Zenon
  <2>3. CASE c.ep = "login"
    <3>1. Endpoint["login"].key = "login"
      BY Zenon DEF Endpoint
    <3> QED  BY <1>3, <2>1, <2>3, <3>1, Zenon
  <2>4. CASE c.ep = "subnets"
    <3>1. Endpoint["subnets"].key = ""
      BY Zenon DEF Endpoint
    <3> QED  BY <1>3, <2>1, <2>4, <3>1, Zenon
  <2>5. CASE c.ep = "tokens"
    <3>1. Endpoint["tokens"].key = "tokens.create"
      BY Zenon DEF Endpoint
    <3> QED  BY <1>3, <2>1, <2>5, <3>1, Zenon
  <2> QED  BY <1>2, <2>2, <2>3, <2>4, <2>5
<1>5. gset.rate \in UNION {{s.rate, s.authRate} : s \in GateSettings}
      /\ gset.authRate \in UNION {{s.rate, s.authRate} : s \in GateSettings}
  BY SMT DEF SlotsInv
<1> QED  BY <1>1, <1>2, <1>4, <1>5, <1>3, Zenon DEF BucketKeys

LEMMA GateInitOK == GateInit => GateInv
<1>1. SUFFICES ASSUME GateInit PROVE GateInv
  OBVIOUS
<1>2. SlotsInv
  <2>1. PICK h \in SlotHosts :
          FreeSlot = [pc |-> "free", ep |-> "health", cred |-> "none", role |-> "none", cross |-> FALSE,
                        host |-> h, enforced |-> FALSE, identity |-> "none", watched |-> FALSE]
    BY FreeFields, Zenon
  <2>2. FreeSlot \in SlotStates
    BY <2>1, SMT DEF SlotStates, SlotPcs, Credentials, Ranked
  <2>3. FreeSlot.pc = "free" /\ FreeSlot.identity = "none"
    BY <2>1, SMT
  <2>4. SlotOK(FreeSlot, gset)
    BY <2>3, SMT DEF SlotOK, Waiting, PastCSRF
  <2>5. greq \in [GateSlots -> SlotStates] /\ \A r \in GateSlots : greq[r] = FreeSlot
    BY <1>1, <2>2, SMT DEF GateInit
  <2>6. gset \in GateSettings
    BY <1>1 DEF GateInit
  <2> QED  BY <2>4, <2>5, <2>6, Zenon DEF SlotsInv
<1>3. gnow = 0 /\ admitted = {} /\ buckets = [k \in BucketKeys |-> NoBucket]
  BY <1>1, Zenon DEF GateInit
<1>4. buckets \in [BucketKeys -> [tokens : Int, last : Int]] /\ \A k \in BucketKeys : buckets[k] = NoBucket
  <2>1. NoBucket \in [tokens : Int, last : Int]
    BY SMT DEF NoBucket
  <2> QED  BY <1>3, <2>1, SMT
<1>5. \A k, from, to : AdmittedIn(k, from, to) = {}
  BY <1>3, Zenon DEF AdmittedIn
<1>6. \A k, from, to : Cardinality(AdmittedIn(k, from, to)) = 0
  BY <1>5, FS_EmptySet, Zenon
<1>7. ASSUME NEW k \in BucketKeys, NEW from \in 0..gnow, NEW to \in 0..gnow, from <= to
      PROVE  Spent(k, from, to)
  <2>1. 0 * GTicks <= k[4] * GTicks + k[4] * (to - from)
    <3>1. PICK x, y, d : d = to - from /\ x = k[4] * GTicks /\ y = k[4] * d
      OBVIOUS
    <3>2. d = 0
      BY <1>3, <1>7, <3>1, SMT
    <3>3. x \in Nat /\ y = 0 /\ 0 * GTicks = 0
      BY <3>1, <3>2, BucketKeyParts, ApiGateAssumption, SMT
    <3>4. 0 <= x + y
      BY <3>3, SMT
    <3> QED  BY <3>1, <3>3, <3>4, Zenon
  <2> QED  BY <1>6, <2>1, Zenon DEF Spent
<1>8. ASSUME NEW k \in BucketKeys, NEW from \in 0..gnow
      PROVE  Cardinality(AdmittedIn(k, from, gnow)) * GTicks + Level(k) <= k[4] * GTicks + k[4] * (gnow - from)
  <2>1. PICK x, y, d : d = gnow - from /\ x = k[4] * GTicks /\ y = k[4] * d
    OBVIOUS
  <2>2. Level(k) = x
    BY <1>4, <2>1, Zenon DEF Level, Refilled
  <2>3. d = 0
    <3>1. gnow = 0
      BY <1>3
    <3>2. from \in 0..0
      BY <1>8, <3>1
    <3>3. from = 0
      BY <3>2, SMT
    <3> QED  BY <2>1, <3>1, <3>3, SMT
  <2>4. x \in Nat /\ y = 0 /\ 0 * GTicks = 0
    BY <2>1, <2>3, BucketKeyParts, ApiGateAssumption, SMT
  <2>5. 0 + x <= x + y
    BY <2>4, SMT
  <2> QED  BY <1>6, <2>1, <2>2, <2>4, <2>5, Zenon
<1>9. RateBounded
  BY <1>7, RateBoundedSpent, Zenon
<1>10. gnow \in Nat /\ IsFiniteSet(admitted) /\ \A a \in admitted : a.at \in 0..gnow
  BY <1>3, FS_EmptySet, SMT
<1>11. BucketsInv
  BY <1>4, <1>8, <1>9, <1>10, Zenon DEF BucketsInv
<1> QED  BY <1>2, <1>11 DEF GateInv

LEMMA GateStep == GateInv /\ [GateNext]_gateVars => GateInv'
<1>1. SUFFICES ASSUME SlotsInv, BucketsInv, [GateNext]_gateVars PROVE SlotsInv' /\ BucketsInv'
  BY DEF GateInv
<1>2. ASSUME NEW s \in GateSettings, ApplySettings(s) PROVE SlotsInv' /\ BucketsInv'
  <2>1. UNCHANGED <<buckets, gnow, admitted>>
    BY <1>2, Zenon DEF ApplySettings
  <2> QED  BY <1>1, <1>2, <2>1, SettingsKeepSlots, BucketsRest
<1>3. CASE GateTick
  <2>1. gset' = gset /\ greq' = greq
    BY <1>3, Zenon DEF GateTick
  <2>2. SlotsInv'
    BY <1>1, <2>1, Zenon DEF SlotsInv
  <2> QED  BY <1>1, <1>3, <2>2, TickKeepsBuckets
<1>4. ASSUME NEW r \in GateSlots, NEW ep \in Endpoints, NEW cred \in Credentials,
             NEW role \in {"none", "viewer", "operator", "admin"}, NEW cross \in BOOLEAN, NEW host \in GateHosts,
             GateArrive(r, ep, cred, role, cross, host)
      PROVE  SlotsInv' /\ BucketsInv'
  <2>1. UNCHANGED <<buckets, gnow, admitted>>
    BY <1>4, Zenon DEF GateArrive
  <2>2. SlotsInv'
    BY <1>1, <1>4, ArriveKeeps, Zenon
  <2> QED  BY <1>1, <2>1, <2>2, BucketsRest
<1>5. ASSUME NEW r \in GateSlots, CSRFGate(r) \/ AuthGate(r) \/ HandleRequest(r)
      PROVE  SlotsInv' /\ BucketsInv'
  <2>1. UNCHANGED <<buckets, gnow, admitted>>
    BY <1>5, Zenon DEF CSRFGate, AuthGate, HandleRequest
  <2>2. SlotsInv'
    BY <1>1, <1>5, CSRFKeeps, AuthGateKeeps, HandleKeeps, Zenon
  <2> QED  BY <1>1, <2>1, <2>2, BucketsRest
<1>6. ASSUME NEW r \in GateSlots, AuthRateLimit(r) \/ RateLimit(r)
      PROVE  SlotsInv' /\ BucketsInv'
  <2>1. greq[r].pc \in {"authLimit", "limit"}
    BY <1>6, Zenon DEF AuthRateLimit, RateLimit, GateAt
  <2>2. /\ <<"auth", greq[r].host, EndpointOf(r).key, gset.authRate>> \in BucketKeys
        /\ <<"all", greq[r].host, FreeSlot.host, gset.rate>> \in BucketKeys
    BY <1>1, <2>1, LimiterKeys, Zenon
  <2>3. \/ UNCHANGED <<buckets, gnow, admitted>>
        \/ Limiter(r, "auth", EndpointOf(r).key, gset.authRate, "limit")
        \/ Limiter(r, "all", FreeSlot.host, gset.rate, "auth")
    <3>1. FreeSlot.host = ""
      BY Zenon DEF FreeSlot
    <3> QED  BY <1>6, <3>1, Zenon DEF AuthRateLimit, RateLimit
  <2>4. BucketsInv'
    BY <1>1, <2>2, <2>3, BucketsRest, LimiterKeepsBuckets, Zenon
  <2> QED  BY <1>1, <1>6, <2>4, LimitsKeepSlots, Zenon
<1>7. CASE UNCHANGED gateVars
  <2>1. gset' = gset /\ greq' = greq /\ UNCHANGED <<buckets, gnow, admitted>>
    BY <1>7, Zenon DEF gateVars
  <2>2. SlotsInv'
    BY <1>1, <2>1, Zenon DEF SlotsInv
  <2> QED  BY <1>1, <2>1, <2>2, BucketsRest
<1> QED  BY <1>1, <1>2, <1>3, <1>4, <1>5, <1>6, <1>7, Zenon DEF GateNext

\* A bucket holds between nothing and its burst, and a request has no identity
\* but the one behind its credentials.
THEOREM GateTypeCorrect == GateSpec => []GateTypeOK
<1>1. GateInv => GateTypeOK
  <2>1. SUFFICES ASSUME GateInv PROVE GateTypeOK
    OBVIOUS
  <2>2. \A r \in GateSlots : greq[r].identity \in {"none", greq[r].role}
    BY <2>1, Zenon DEF GateInv, SlotsInv, SlotOK
  <2> QED  BY <2>1, <2>2, Zenon DEF GateTypeOK, GateInv, SlotsInv, BucketsInv
<1> QED  BY <1>1, GateInitOK, GateStep, PTL DEF GateSpec

\* The middleware chain: for every number of requests, addresses and settings,
\* and every length of a second, a handler that needs a role runs only for a
\* request that carries it, whatever is reloaded meanwhile, no cross-site
\* request acts on a session, and no bucket lets more through than its burst
\* and what flowed in.
THEOREM GateIsGuarded == GateSpec => []GateGuards
<1>1. GateInv => GateGuards
  <2>1. SUFFICES ASSUME GateInv PROVE GateGuards
    OBVIOUS
  <2>2. RateBounded
    BY <2>1, Zenon DEF GateInv, BucketsInv
  <2>3. ASSUME NEW r \in GateSlots, GateAt(r, "handled")
        PROVE  /\ RoleRank[EndpointOf(r).role] > 0 /\ (greq[r].watched \/ EndpointOf(r).strict) =>
                     RoleRank[greq[r].role] >= RoleRank[EndpointOf(r).role]
               /\ EndpointOf(r).unsafe /\ greq[r].cross => greq[r].cred \in {"none", "bearer"}
    <3>1. PICK c \in SlotStates : c = greq[r] /\ SlotOK(c, gset)
      BY <2>1, SlotOf, Zenon DEF GateInv
    <3>2. c.pc = "handled" /\ EndpointOf(r) = Endpoint[c.ep]
      BY <2>3, <3>1, Zenon DEF GateAt, EndpointOf
    <3>3. c.watched \in BOOLEAN /\ c.cross \in BOOLEAN /\ c.ep \in {"health", "login", "subnets", "tokens"}
      BY SMT DEF SlotStates
    <3>4. Endpoint[c.ep].unsafe \in BOOLEAN /\ Endpoint[c.ep].strict \in BOOLEAN
      BY <3>3, EndpointParts, Zenon
    <3>5. RoleRank[Endpoint[c.ep].role] > 0 /\ (c.watched = TRUE \/ Endpoint[c.ep].strict = TRUE) => Entitled(c)
      BY <3>1, <3>2, Zenon DEF SlotOK
    <3>6. Endpoint[c.ep].unsafe = TRUE /\ c.cross = TRUE => c.cred \in {"none", "bearer"}
      BY <3>1, <3>2, SMT DEF SlotOK, PastCSRF
    <3>7. RoleRank[EndpointOf(r).role] > 0 /\ (greq[r].watched \/ EndpointOf(r).strict) =>
                     RoleRank[greq[r].role] >= RoleRank[EndpointOf(r).role]
      BY <3>1, <3>2, <3>3, <3>4, <3>5, Zenon DEF Entitled
    <3>8. EndpointOf(r).unsafe /\ greq[r].cross => greq[r].cred \in {"none", "bearer"}
      BY <3>1, <3>2, <3>3, <3>4, <3>6, Zenon
    <3> QED  BY <3>7, <3>8
  <2>4. GateHolds
    BY <2>3, Zenon DEF GateHolds
  <2> QED  BY <2>2, <2>4 DEF GateGuards
<1> QED  BY <1>1, GateInitOK, GateStep, PTL DEF GateSpec

(***************************************************************************)
(* AuthService.  Four groups of variables, each with an invariant of its   *)
(* own: passwords and who may set the first one, sessions in memory and in *)
(* the store, tokens, and the lockout with the passwords guessed.          *)
(***************************************************************************)
Compared == {"right", "create", "set", "revoke"}
AccountPcs == {"bootstrap", "compare", "wrong"} \cup Compared
AuthPcs == {"rest", "record", "note", "delete", "unhash"} \cup AccountPcs

\* What a request is about.
Bootstraps == [pc : {"bootstrap"}, user : Users, known : Passwords]
Logins == [pc : {"compare", "wrong", "right", "create"}, op : {"login"}, user : Users, known : Passwords]
PasswordChanges == [pc : {"compare", "wrong"} \cup Compared, op : {"change"}, user : Users, known : Passwords,
                    new : Passwords]
Bearers == [pc : {"record", "note"}, token : Tokens, late : BOOLEAN]
Revokers == [pc : {"delete", "unhash"}, token : Tokens]
AuthThreads == {Resting} \cup Bootstraps \cup Logins \cup PasswordChanges \cup Bearers \cup Revokers

AuthTypes ==
    /\ AuthTypeOK
    /\ thr \in [Requests -> AuthThreads]

\* BootstrapAdmin: the request between the check and the write is the one that
\* holds the mutex, and there is no user yet.  A request past the comparison is
\* about a user with a password.
UsersInv ==
    /\ \A r \in Requests : At(r, "bootstrap") => svcMu = r /\ ~HasUsers
    /\ \A r \in Requests : thr[r].pc \in Compared => pw[thr[r].user] # None
    /\ \A u, v \in Users : pw[u] # None /\ pw[v] # None => u = v

\* A session in memory is in the store, and a stored one in memory, but for
\* those whose deletion from the store failed.
SessionsMirror ==
    \A s \in Sids :
        /\ mem[s] # None => stored[s] = mem[s]
        /\ stored[s] # None /\ s \notin undeleted => mem[s] = stored[s]

SessionsInv == SessionsMirror /\ EndedStaysOut /\ OldPasswordLoggedOut

\* A revoked token is not found by its hash, and none that is looked at was
\* revoked when the request began.
TokensInv ==
    /\ byHash \cap revoked = {}
    /\ \A r \in Requests : thr[r].pc \in {"record", "note"} => thr[r].late = FALSE

\* While an account is locked no further request passes the check; until then
\* each wrong guess that is not yet counted has its request at "wrong".
AtFor(pc, u) == {r \in Requests : At(r, pc) /\ thr[r].user = u}
GuessesOK(u) ==
    IF locked[u] > 0
    THEN guesses[u] + Cardinality(AtFor("compare", u)) <= MaxFailedAttempts - 1 + Cardinality(Requests)
    ELSE /\ fails[u] <= MaxFailedAttempts - 1
         /\ guesses[u] <= fails[u] + Cardinality(AtFor("wrong", u))
GuessInv == \A u \in Users : GuessesOK(u)

AuthInv == AuthTypes /\ UsersInv /\ SessionsInv /\ TokensInv /\ GuessInv

-----------------------------------------------------------------------------
(* The threads.                                                            *)

LEMMA ThreadParts ==
    ASSUME NEW q \in AuthThreads
    PROVE  /\ q.pc \in AuthPcs
           /\ q.pc \in AccountPcs => q.user \in Users /\ q.known \in Passwords
           /\ q.pc = "set" => q.new \in Passwords
           /\ q.pc \in {"compare", "wrong", "right"} => q.op \in {"login", "change"}
           /\ q.pc \in {"record", "note", "delete", "unhash"} => q.token \in Tokens
           /\ q.pc = "rest" => q = Resting
<1> USE DEF AuthPcs, AccountPcs, Compared
<1>1. CASE q = Resting  BY <1>1, SMT DEF Resting
<1>2. CASE q \in Bootstraps  BY <1>2, SMT DEF Bootstraps
<1>3. CASE q \in Logins  BY <1>3, SMT DEF Logins
<1>4. CASE q \in PasswordChanges  BY <1>4, SMT DEF PasswordChanges
<1>5. CASE q \in Bearers  BY <1>5, SMT DEF Bearers
<1>6. CASE q \in Revokers  BY <1>6, SMT DEF Revokers
<1> QED  BY <1>1, <1>2, <1>3, <1>4, <1>5, <1>6, Zenon DEF AuthThreads

\* A request goes from one point to another, the others stay where they are.
Turns(r, from, to) ==
    /\ thr' \in [Requests -> AuthThreads]
    /\ thr[r].pc = from /\ thr'[r].pc = to
    /\ from \in AccountPcs /\ to \in AccountPcs => thr'[r].user = thr[r].user
    /\ \A x \in Requests : x # r => thr'[x] = thr[x]

LEMMA TurnTo ==
    ASSUME AuthTypes, NEW r \in Requests, NEW q \in AuthThreads, thr' = [thr EXCEPT ![r] = q],
           thr[r].pc \in AccountPcs /\ q.pc \in AccountPcs => q.user = thr[r].user
    PROVE  Turns(r, thr[r].pc, q.pc)
BY SMT DEF AuthTypes, Turns

LEMMA RequestGoesOn ==
    ASSUME AuthTypes, NEW r \in Requests, NEW p, Goes(r, p),
           \/ At(r, "compare") /\ p \in {"right", "wrong"}
           \/ At(r, "right") /\ p = IF thr[r].op = "login" THEN "create" ELSE "set"
           \/ At(r, "revoke") /\ p = "create"
           \/ At(r, "record") /\ p = "note"
           \/ At(r, "delete") /\ p = "unhash"
    PROVE  Turns(r, thr[r].pc, p)
<1>1. PICK c \in AuthThreads : c = thr[r]
  BY SMT DEF AuthTypes
<1>2. PICK q : q = [c EXCEPT !.pc = p]
  OBVIOUS
<1>3. q \in AuthThreads /\ q.pc = p /\ (c.pc \in AccountPcs => q.user = c.user)
  <2>1. \/ c.pc = "compare" /\ p \in {"right", "wrong"}
        \/ c.pc = "right" /\ p = IF c.op = "login" THEN "create" ELSE "set"
        \/ c.pc = "revoke" /\ p = "create"
        \/ c.pc = "record" /\ p = "note"
        \/ c.pc = "delete" /\ p = "unhash"
    BY <1>1, Zenon DEF At
  <2>2. CASE c \in Logins
    BY <1>2, <2>1, <2>2, SMT DEF Logins, AuthThreads, Compared, AccountPcs
  <2>3. CASE c \in PasswordChanges
    BY <1>2, <2>1, <2>3, SMT DEF PasswordChanges, AuthThreads, Compared, AccountPcs
  <2>4. CASE c \in Bearers
    BY <1>2, <2>1, <2>4, SMT DEF Bearers, AuthThreads, Compared, AccountPcs
  <2>5. CASE c \in Revokers
    BY <1>2, <2>1, <2>5, SMT DEF Revokers, AuthThreads, Compared, AccountPcs
  <2>6. CASE c \in Bootstraps \cup {Resting}
    BY <2>1, <2>6, SMT DEF Bootstraps, Resting
  <2> QED  BY <2>2, <2>3, <2>4, <2>5, <2>6, SMT DEF AuthThreads
<1>4. thr' = [thr EXCEPT ![r] = q]
  BY <1>1, <1>2, Zenon DEF Goes
<1>5. q.pc = p
  BY <1>3
<1>6. thr[r].pc \in AccountPcs /\ q.pc \in AccountPcs => q.user = thr[r].user
  BY <1>1, <1>3, Zenon
<1>7. Turns(r, thr[r].pc, q.pc)
  BY <1>3, <1>4, <1>6, TurnTo, Zenon
<1> QED  BY <1>5, <1>7, Zenon

LEMMA GoesToRest ==
    ASSUME AuthTypes, NEW r \in Requests, Ends(r)
    PROVE  Turns(r, thr[r].pc, "rest") /\ thr'[r] = Resting
<1>1. Resting \in AuthThreads /\ Resting.pc = "rest" /\ Resting.pc \notin AccountPcs
  BY SMT DEF AuthThreads, Resting, AccountPcs, Compared
<1>2. Turns(r, thr[r].pc, Resting.pc)
  BY <1>1, TurnTo, Zenon DEF Ends
<1> QED  BY <1>1, <1>2, SMT DEF Ends, AuthTypes

LEMMA Arrives ==
    ASSUME AuthTypes, NEW r \in Requests, Starts(r), NEW q \in AuthThreads, thr' = [thr EXCEPT ![r] = q]
    PROVE  Turns(r, "rest", q.pc) /\ thr'[r] = q
<1>1. thr[r].pc = "rest" /\ "rest" \notin AccountPcs
  BY SMT DEF Starts, Resting, AccountPcs, Compared
<1>2. Turns(r, thr[r].pc, q.pc)
  BY <1>1, TurnTo, Zenon
<1> QED  BY <1>1, <1>2, SMT DEF AuthTypes

\* Where each operation takes its request.
LEMMA OpeningTurns ==
    ASSUME AuthTypes, NEW r \in Requests
    PROVE  /\ \A u \in Users, p \in Passwords : BootstrapCheck(r, u, p) =>
                 Turns(r, "rest", "bootstrap") /\ thr'[r].user = u
           /\ \A u \in Users, p \in Passwords : LoginStart(r, u, p) =>
                 Turns(r, "rest", "compare") /\ thr'[r].user = u
           /\ \A s \in Sids, p, q \in Passwords : ChangeStart(r, s, p, q) =>
                 Turns(r, "rest", "compare") /\ thr'[r].user = mem[s].user /\ mem[s].user \in Users
           /\ \A k \in Tokens : BearerHash(r, k) =>
                 Turns(r, "rest", "record") /\ (thr'[r].late = TRUE => k \in revoked)
           /\ \A k \in Tokens : RevokeGet(r, k) => Turns(r, "rest", "delete")
<1>1. ASSUME NEW u \in Users, NEW p \in Passwords, BootstrapCheck(r, u, p)
      PROVE  Turns(r, "rest", "bootstrap") /\ thr'[r].user = u
  <2>1. PICK q : q = [pc |-> "bootstrap", user |-> u, known |-> p]  OBVIOUS
  <2>2. q \in AuthThreads /\ q.pc = "bootstrap" /\ q.user = u  BY <2>1, SMT DEF AuthThreads, Bootstraps
  <2>3. Starts(r) /\ thr' = [thr EXCEPT ![r] = q]  BY <1>1, <2>1, Zenon DEF BootstrapCheck
  <2> QED  BY <2>2, <2>3, Arrives, Zenon
<1>2. ASSUME NEW u \in Users, NEW p \in Passwords, LoginStart(r, u, p)
      PROVE  Turns(r, "rest", "compare") /\ thr'[r].user = u
  <2>1. PICK q : q = [pc |-> "compare", op |-> "login", user |-> u, known |-> p]  OBVIOUS
  <2>2. q \in AuthThreads /\ q.pc = "compare" /\ q.user = u  BY <2>1, SMT DEF AuthThreads, Logins
  <2>3. Starts(r) /\ thr' = [thr EXCEPT ![r] = q]  BY <1>2, <2>1, Zenon DEF LoginStart
  <2> QED  BY <2>2, <2>3, Arrives, Zenon
<1>3. ASSUME NEW s \in Sids, NEW old \in Passwords, NEW new \in Passwords, ChangeStart(r, s, old, new)
      PROVE  Turns(r, "rest", "compare") /\ thr'[r].user = mem[s].user /\ mem[s].user \in Users
  <2>1. PICK q : q = [pc |-> "compare", op |-> "change", user |-> mem[s].user, known |-> old, new |-> new]
    OBVIOUS
  <2>2. Starts(r) /\ thr' = [thr EXCEPT ![r] = q]  BY <1>3, <2>1, Zenon DEF ChangeStart
  <2>3. mem[s].user \in Users
    <3>1. mem[s] \in SessionEntries  BY <1>3, SMT DEF ChangeStart, AuthTypes, AuthTypeOK
    <3> QED  BY <3>1, SMT DEF SessionEntries
  <2>4. q \in AuthThreads /\ q.pc = "compare" /\ q.user = mem[s].user
    BY <2>1, <2>3, SMT DEF AuthThreads, PasswordChanges
  <2> QED  BY <2>2, <2>3, <2>4, Arrives, Zenon
<1>4. ASSUME NEW k \in Tokens, BearerHash(r, k)
      PROVE  Turns(r, "rest", "record") /\ (thr'[r].late = TRUE => k \in revoked)
  <2>1. PICK l \in BOOLEAN : l = (k \in revoked)
    <3>1. (k \in revoked) \in BOOLEAN  OBVIOUS
    <3> QED  BY <3>1, Zenon
  <2>2. PICK q : q = [pc |-> "record", token |-> k, late |-> l]  OBVIOUS
  <2>3. q \in AuthThreads /\ q.pc = "record" /\ q.late = l  BY <2>1, <2>2, SMT DEF AuthThreads, Bearers
  <2>4. Starts(r) /\ thr' = [thr EXCEPT ![r] = q]  BY <1>4, <2>1, <2>2, Zenon DEF BearerHash
  <2>5. Turns(r, "rest", "record") /\ thr'[r].late = l  BY <2>3, <2>4, Arrives, Zenon
  <2>6. l = TRUE => k \in revoked  BY <2>1, Zenon
  <2> QED  BY <2>5, <2>6, Zenon
<1>5. ASSUME NEW k \in Tokens, RevokeGet(r, k)
      PROVE  Turns(r, "rest", "delete")
  <2>1. PICK q : q = [pc |-> "delete", token |-> k]  OBVIOUS
  <2>2. q \in AuthThreads /\ q.pc = "delete"  BY <2>1, SMT DEF AuthThreads, Revokers
  <2>3. Starts(r) /\ thr' = [thr EXCEPT ![r] = q]  BY <1>5, <2>1, Zenon DEF RevokeGet
  <2> QED  BY <2>2, <2>3, Arrives, Zenon
<1> QED  BY <1>1, <1>2, <1>3, <1>4, <1>5, Zenon

LEMMA MiddleTurns ==
    ASSUME AuthTypes, NEW r \in Requests
    PROVE  /\ Compare(r) => Turns(r, "compare", "right") \/ Turns(r, "compare", "wrong")
           /\ ResetLock(r) => Turns(r, "right", "create") \/ Turns(r, "right", "set")
           /\ SetPassword(r) => Turns(r, "set", "revoke") \/ (Turns(r, "set", "rest") /\ UNCHANGED pw)
           /\ RevokeSessionsForUser(r) => Turns(r, "revoke", "create")
           /\ BearerRecord(r) => \/ Turns(r, "record", "note") /\ thr'[r].late = thr[r].late
                                 \/ Turns(r, "record", "rest")
           /\ RevokeRecord(r) => Turns(r, "delete", "unhash")
<1>1. ASSUME Compare(r) PROVE Turns(r, "compare", "right") \/ Turns(r, "compare", "wrong")
  BY <1>1, RequestGoesOn, Zenon DEF Compare, At
<1>2. ASSUME ResetLock(r) PROVE Turns(r, "right", "create") \/ Turns(r, "right", "set")
  <2>1. At(r, "right") /\ Goes(r, IF thr[r].op = "login" THEN "create" ELSE "set")
    BY <1>2, Zenon DEF ResetLock
  <2>2. PICK p : p = IF thr[r].op = "login" THEN "create" ELSE "set"  OBVIOUS
  <2>3. Goes(r, p)  BY <2>1, <2>2, Zenon
  <2>4. Turns(r, thr[r].pc, p)  BY <2>1, <2>2, <2>3, RequestGoesOn, Zenon
  <2> QED  BY <2>1, <2>2, <2>4, Zenon DEF At
<1>3. ASSUME SetPassword(r)
      PROVE  Turns(r, "set", "revoke") \/ (Turns(r, "set", "rest") /\ UNCHANGED pw)
  <2>1. CASE thr' = [thr EXCEPT ![r].pc = "revoke", ![r].known = thr[r].new]
    <3>1. PICK c \in AuthThreads : c = thr[r]  BY SMT DEF AuthTypes
    <3>2. c \in PasswordChanges /\ c.pc = "set"
      BY <1>3, <3>1, SMT DEF SetPassword, At, AuthThreads, Resting, Bootstraps, Logins, Bearers, Revokers
    <3>3. PICK d : d = [c EXCEPT !.pc = "revoke"]  OBVIOUS
    <3>4. PICK q : q = [d EXCEPT !.known = c.new]  OBVIOUS
    <3>5. q \in AuthThreads /\ q.pc = "revoke" /\ q.user = c.user
      <4>1. d \in PasswordChanges /\ d.pc = "revoke" /\ d.user = c.user /\ c.new \in Passwords
        BY <3>2, <3>3, SMT DEF PasswordChanges, Compared
      <4>2. q \in PasswordChanges /\ q.pc = "revoke" /\ q.user = c.user
        BY <3>4, <4>1, SMT DEF PasswordChanges
      <4> QED  BY <4>2, Zenon DEF AuthThreads
    <3>6. thr' = [thr EXCEPT ![r] = q]
      BY <2>1, <3>1, <3>3, <3>4, Zenon
    <3>7. Turns(r, thr[r].pc, q.pc)
      BY <3>1, <3>5, <3>6, TurnTo, Zenon
    <3> QED  BY <3>1, <3>2, <3>5, <3>7, Zenon
  <2>2. CASE Ends(r) /\ UNCHANGED pw
    BY <1>3, <2>2, GoesToRest, Zenon DEF SetPassword, At
  <2> QED  BY <1>3, <2>1, <2>2, Zenon DEF SetPassword
<1>4. ASSUME RevokeSessionsForUser(r) PROVE Turns(r, "revoke", "create")
  BY <1>4, RequestGoesOn, Zenon DEF RevokeSessionsForUser, At
<1>5. ASSUME BearerRecord(r)
      PROVE  \/ Turns(r, "record", "note") /\ thr'[r].late = thr[r].late
             \/ Turns(r, "record", "rest")
  <2>1. CASE Goes(r, "note")
    <3>1. Turns(r, "record", "note")
      BY <1>5, <2>1, RequestGoesOn, Zenon DEF BearerRecord, At
    <3>2. thr[r] \in Bearers
      BY <1>5, SMT DEF BearerRecord, At, AuthTypes, AuthThreads, Resting, Bootstraps, Logins, PasswordChanges,
                       Revokers, Compared
    <3>3. PICK c \in Bearers : c = thr[r]  BY <3>2
    <3>4. PICK q : q = [c EXCEPT !.pc = "note"]  OBVIOUS
    <3>5. q.late = c.late  BY <3>4, SMT DEF Bearers
    <3>6. thr' = [thr EXCEPT ![r] = q]  BY <2>1, <3>3, <3>4, Zenon DEF Goes
    <3>7. thr'[r] = q  BY <3>6, SMT DEF AuthTypes
    <3> QED  BY <3>1, <3>3, <3>5, <3>7, Zenon
  <2>2. CASE Ends(r)
    BY <1>5, <2>2, GoesToRest, Zenon DEF BearerRecord, At
  <2> QED  BY <1>5, <2>1, <2>2, Zenon DEF BearerRecord
<1>6. ASSUME RevokeRecord(r) PROVE Turns(r, "delete", "unhash")
  BY <1>6, RequestGoesOn, Zenon DEF RevokeRecord, At
<1> QED  BY <1>1, <1>2, <1>3, <1>4, <1>5, <1>6, Zenon

LEMMA ClosingTurns ==
    ASSUME AuthTypes, NEW r \in Requests
    PROVE  /\ BootstrapPut(r) => Turns(r, "bootstrap", "rest")
           /\ RecordFailure(r) => Turns(r, "wrong", "rest")
           /\ \A s \in Sids : CreateSession(r, s) => Turns(r, "create", "rest")
           /\ BearerNote(r) => Turns(r, "note", "rest")
           /\ RevokeHash(r) => Turns(r, "unhash", "rest")
BY GoesToRest, Zenon DEF BootstrapPut, RecordFailure, CreateSession, BearerNote, RevokeHash, At

-----------------------------------------------------------------------------
(* What each group of variables asks of a step.                            *)

LEMMA UsersTurn ==
    ASSUME UsersInv, NEW r \in Requests, NEW from, NEW to, Turns(r, from, to), UNCHANGED <<pw, svcMu>>,
           to # "bootstrap", to \in Compared => pw[thr'[r].user] # None
    PROVE  UsersInv'
<1>1. \A x \in Requests : x # r => thr'[x] = thr[x]
  BY Zenon DEF Turns
<1>2. thr'[r].pc = to
  BY Zenon DEF Turns
<1>3. \A x \in Requests : At(x, "bootstrap")' => svcMu' = x /\ ~HasUsers'
  BY <1>1, <1>2, SMT DEF UsersInv, At, HasUsers
<1>4. \A x \in Requests : thr'[x].pc \in Compared => pw'[thr'[x].user] # None
  BY <1>1, <1>2, SMT DEF UsersInv
<1> QED  BY <1>3, <1>4, Zenon DEF UsersInv

LEMMA UsersStay ==
    ASSUME UsersInv, UNCHANGED <<pw, svcMu, thr>>
    PROVE  UsersInv'
BY SMT DEF UsersInv, At, HasUsers

LEMMA SessionsTurn ==
    ASSUME SessionsInv, NEW r \in Requests, NEW from, NEW to, Turns(r, from, to), UNCHANGED <<pw, sessionVars>>,
           from # "revoke"
    PROVE  SessionsInv'
<1>1. SessionsMirror' /\ EndedStaysOut'
  BY SMT DEF SessionsInv, SessionsMirror, EndedStaysOut, sessionVars
<1>2. ASSUME NEW s \in Sids, mem[s] # None, mem[s].known # pw[mem[s].user], ~mem[s].raced, s \notin undeleted
      PROVE  \E x \in Requests : At(x, "revoke")' /\ thr'[x].user = mem[s].user
  <2>1. PICK x \in Requests : At(x, "revoke") /\ thr[x].user = mem[s].user
    BY <1>2, Zenon DEF SessionsInv, OldPasswordLoggedOut
  <2>2. x # r
    BY <2>1, Zenon DEF Turns, At
  <2> QED  BY <2>1, <2>2, Zenon DEF Turns, At
<1>3. OldPasswordLoggedOut'
  BY <1>2, Zenon DEF OldPasswordLoggedOut, sessionVars
<1> QED  BY <1>1, <1>3, Zenon DEF SessionsInv

LEMMA SessionsStay ==
    ASSUME SessionsInv, UNCHANGED <<pw, sessionVars, thr>>
    PROVE  SessionsInv'
<1>1. SessionsMirror' /\ EndedStaysOut'
  BY SMT DEF SessionsInv, SessionsMirror, EndedStaysOut, sessionVars
<1>2. OldPasswordLoggedOut'
  BY Zenon DEF SessionsInv, OldPasswordLoggedOut, sessionVars, At
<1> QED  BY <1>1, <1>2, Zenon DEF SessionsInv

LEMMA TokensTurn ==
    ASSUME TokensInv, NEW r \in Requests, NEW from, NEW to, Turns(r, from, to),
           (byHash \cap revoked)' = {}, to \in {"record", "note"} => thr'[r].late = FALSE
    PROVE  TokensInv'
<1>1. \A x \in Requests : thr'[x].pc \in {"record", "note"} => thr'[x].late = FALSE
  <2> SUFFICES ASSUME NEW x \in Requests, thr'[x].pc \in {"record", "note"} PROVE thr'[x].late = FALSE
    OBVIOUS
  <2>1. CASE x = r  BY <2>1, Zenon DEF Turns
  <2>2. CASE x # r  BY <2>2, Zenon DEF Turns, TokensInv
  <2> QED  BY <2>1, <2>2
<1> QED  BY <1>1, Zenon DEF TokensInv

LEMMA TokensStay ==
    ASSUME TokensInv, UNCHANGED thr, (byHash \cap revoked)' = {}
    PROVE  TokensInv'
BY Zenon DEF TokensInv

\* The requests for an account at the two points that count.
LEMMA AtForTurn ==
    ASSUME NEW r \in Requests, NEW from, NEW to, Turns(r, from, to), NEW u, NEW pc
    PROVE  /\ from # pc /\ to # pc => AtFor(pc, u)' = AtFor(pc, u)
           /\ from # pc /\ to = pc /\ thr'[r].user = u => AtFor(pc, u)' = AtFor(pc, u) \cup {r} /\ r \notin AtFor(pc, u)
           /\ from # pc /\ to = pc /\ thr'[r].user # u => AtFor(pc, u)' = AtFor(pc, u)
           /\ from = pc /\ to # pc /\ thr[r].user = u => AtFor(pc, u)' = AtFor(pc, u) \ {r} /\ r \in AtFor(pc, u)
           /\ from = pc /\ to # pc /\ thr[r].user # u => AtFor(pc, u)' = AtFor(pc, u)
<1>1. \A x \in Requests : x # r => thr'[x] = thr[x]
  BY Zenon DEF Turns
<1>2. thr[r].pc = from /\ thr'[r].pc = to
  BY Zenon DEF Turns
<1>3. AtFor(pc, u) = {x \in Requests : thr[x].pc = pc /\ thr[x].user = u}
  BY DEF AtFor, At
<1>4. AtFor(pc, u)' = {x \in Requests : thr'[x].pc = pc /\ thr'[x].user = u}
  BY DEF AtFor, At
<1> QED  BY <1>1, <1>2, <1>3, <1>4, SMT

LEMMA GuessTurn ==
    ASSUME GuessInv, NEW r \in Requests, NEW from, NEW to, Turns(r, from, to), UNCHANGED lockVars,
           {from, to} \cap {"compare", "wrong"} = {}
    PROVE  GuessInv'
<1> SUFFICES ASSUME NEW u \in Users PROVE GuessesOK(u)'
  BY Zenon DEF GuessInv
<1>1. AtFor("compare", u)' = AtFor("compare", u) /\ AtFor("wrong", u)' = AtFor("wrong", u)
  <2>1. from # "compare" /\ to # "compare" /\ from # "wrong" /\ to # "wrong"  OBVIOUS
  <2>2. AtFor("compare", u)' = AtFor("compare", u)  BY <2>1, AtForTurn, SMT
  <2>3. AtFor("wrong", u)' = AtFor("wrong", u)  BY <2>1, AtForTurn, SMT
  <2> QED  BY <2>2, <2>3
<1>2. GuessesOK(u)
  BY Zenon DEF GuessInv
<1> QED  BY <1>1, <1>2, Zenon DEF GuessesOK, lockVars

LEMMA GuessStay ==
    ASSUME GuessInv, UNCHANGED <<lockVars, thr>>
    PROVE  GuessInv'
BY Zenon DEF GuessInv, GuessesOK, AtFor, At, lockVars

-----------------------------------------------------------------------------
(* Types.                                                                  *)

StoreTypes ==
    /\ pw \in [Users -> Passwords \cup {None}]
    /\ rec \subseteq Tokens /\ byHash \subseteq Tokens /\ revoked \subseteq Tokens
SessionTypes ==
    /\ mem \in [Sids -> SessionEntries \cup {None}] /\ stored \in [Sids -> SessionEntries \cup {None}]
    /\ out \subseteq Sids /\ undeleted \subseteq out
LockTypes ==
    /\ fails \in [Users -> 0..MaxFailedAttempts]
    /\ locked \in [Users -> 0..(AuthMaxTime + LockoutDuration)]
    /\ guesses \in [Users -> Nat]
EnvTypes == svcMu \in Requests \cup {None} /\ clock \in 0..AuthMaxTime /\ aFaults \in 0..AuthMaxFaults

LEMMA AuthTypeParts ==
    AuthTypes <=> /\ StoreTypes /\ SessionTypes /\ LockTypes /\ EnvTypes
                  /\ thr \in [Requests -> AuthThreads]
BY Zenon DEF AuthTypes, AuthTypeOK, StoreTypes, SessionTypes, LockTypes, EnvTypes

LEMMA TurnKeepsTypes ==
    ASSUME NEW r \in Requests, NEW from, NEW to, Turns(r, from, to),
           StoreTypes', SessionTypes', LockTypes', EnvTypes'
    PROVE  AuthTypes'
<1>1. thr' \in [Requests -> AuthThreads]
  BY Zenon DEF Turns
<1> QED  BY <1>1, Zenon DEF AuthTypes, AuthTypeOK, StoreTypes, SessionTypes, LockTypes, EnvTypes

LEMMA FaultTypes ==
    ASSUME EnvTypes, AuthFine \/ AuthFault
    PROVE  aFaults' \in 0..AuthMaxFaults
BY AuthNumbersAssumption, SMT DEF EnvTypes, AuthFine, AuthFault

LEMMA CheckLockTypes ==
    ASSUME LockTypes, EnvTypes, NEW u \in Users, CheckLock(u)
    PROVE  LockTypes'
<1>1. fails' \in [Users -> 0..MaxFailedAttempts]
  BY AuthNumbersAssumption, SMT DEF LockTypes, CheckLock
<1>2. locked' \in [Users -> 0..(AuthMaxTime + LockoutDuration)]
  BY AuthNumbersAssumption, SMT DEF LockTypes, CheckLock
<1>3. guesses' \in [Users -> Nat]
  BY SMT DEF LockTypes, CheckLock
<1> QED  BY <1>1, <1>2, <1>3, Zenon DEF LockTypes

LEMMA EndSessionsTypes ==
    ASSUME SessionTypes, EnvTypes, NEW gone \in SUBSET Sids, NEW kept, EndSessions(gone, kept)
    PROVE  SessionTypes' /\ aFaults' \in 0..AuthMaxFaults
<1>1. mem' \in [Sids -> SessionEntries \cup {None}]
  BY SMT DEF SessionTypes, EndSessions
<1>2. stored' \in [Sids -> SessionEntries \cup {None}]
  BY SMT DEF SessionTypes, EndSessions
<1>3. out' \subseteq Sids /\ undeleted' \subseteq out'
  BY SMT DEF SessionTypes, EndSessions
<1>4. aFaults' \in 0..AuthMaxFaults
  BY FaultTypes, Zenon DEF EndSessions
<1> QED  BY <1>1, <1>2, <1>3, <1>4, Zenon DEF SessionTypes

LEMMA NewSessionType ==
    ASSUME AuthTypes, NEW r \in Requests, At(r, "create")
    PROVE  /\ NewSession(r) \in SessionEntries
           /\ NewSession(r).user = thr[r].user /\ NewSession(r).known = thr[r].known
           /\ pw[thr[r].user] # thr[r].known => NewSession(r).raced
<1>1. thr[r] \in AuthThreads /\ clock \in 0..AuthMaxTime
  BY SMT DEF AuthTypes, AuthTypeOK
<1>2. thr[r].user \in Users /\ thr[r].known \in Passwords
  BY <1>1, ThreadParts, SMT DEF At, AccountPcs, Compared
<1>3. PICK until \in 0..(AuthMaxTime + SessionTTL) : until = clock + SessionTTL
  BY <1>1, AuthNumbersAssumption, SMT
<1>4. PICK l \in BOOLEAN : l = (pw[thr[r].user] # thr[r].known)
  <2>1. (pw[thr[r].user] # thr[r].known) \in BOOLEAN  OBVIOUS
  <2> QED  BY <2>1, Zenon
<1>5. PICK u \in Users, p \in Passwords : u = thr[r].user /\ p = thr[r].known
  BY <1>2, Zenon
<1>6. NewSession(r) = [user |-> u, until |-> until, known |-> p, raced |-> l]
  BY <1>3, <1>4, <1>5, Zenon DEF NewSession
<1>7. [user |-> u, until |-> until, known |-> p, raced |-> l] \in SessionEntries
  BY SMT DEF SessionEntries
<1>8. pw[thr[r].user] # thr[r].known => l
  BY <1>4, Zenon
<1>9. NewSession(r).user = u /\ NewSession(r).known = p
  BY <1>6
<1>10. NewSession(r).raced = l
  BY <1>6, SMT
<1>11. pw[thr[r].user] # thr[r].known => NewSession(r).raced
  BY <1>8, <1>10, Zenon
<1>12. NewSession(r) \in SessionEntries
  BY <1>6, <1>7, Zenon
<1> QED  BY <1>5, <1>9, <1>11, <1>12, Zenon

-----------------------------------------------------------------------------
(* Bootstrap.                                                              *)

LEMMA BootstrapCheckKeeps ==
    ASSUME AuthInv, NEW r \in Requests, NEW u \in Users, NEW p \in Passwords, BootstrapCheck(r, u, p)
    PROVE  AuthInv'
<1>1. AuthTypes /\ UsersInv /\ SessionsInv /\ TokensInv /\ GuessInv
  BY Zenon DEF AuthInv
<1>2. Turns(r, "rest", "bootstrap")
  BY <1>1, OpeningTurns, Zenon
<1>3. AuthTypes'
  <2>1. StoreTypes' /\ SessionTypes' /\ LockTypes'
    BY <1>1, AuthTypeParts, Zenon
    DEF BootstrapCheck, StoreTypes, SessionTypes, LockTypes, storeVars, sessionVars, lockVars
  <2>2. EnvTypes'
    BY <1>1, AuthTypeParts, Zenon DEF BootstrapCheck, EnvTypes
  <2> QED  BY <1>2, <2>1, <2>2, TurnKeepsTypes, Zenon
<1>4. UsersInv'
  <2>1. UNCHANGED pw /\ svcMu = None /\ svcMu' = r /\ ~HasUsers
    BY Zenon DEF BootstrapCheck, storeVars
  <2>2. \A x \in Requests : ~At(x, "bootstrap")
    BY <1>1, <2>1, AuthNoneAssumption, Zenon DEF UsersInv
  <2>3. \A x \in Requests : At(x, "bootstrap")' => svcMu' = x /\ ~HasUsers'
    BY <1>2, <2>1, <2>2, Zenon DEF Turns, At, HasUsers
  <2>4. \A x \in Requests : thr'[x].pc \in Compared => pw'[thr'[x].user] # None
    <3>1. "bootstrap" \notin Compared  BY DEF Compared
    <3> QED  BY <1>1, <1>2, <2>1, <3>1, Zenon DEF Turns, UsersInv
  <2> QED  BY <1>1, <2>1, <2>3, <2>4, Zenon DEF UsersInv
<1>5. SessionsInv'
  <2>1. "rest" # "revoke"  OBVIOUS
  <2> QED  BY <1>1, <1>2, <2>1, SessionsTurn, Zenon DEF BootstrapCheck, storeVars
<1>6. TokensInv'
  <2>1. "bootstrap" \notin {"record", "note"}  OBVIOUS
  <2>2. (byHash \cap revoked)' = {}
    BY <1>1, Zenon DEF BootstrapCheck, storeVars, TokensInv
  <2> QED  BY <1>1, <1>2, <2>1, <2>2, TokensTurn, Zenon
<1>7. GuessInv'
  <2>1. {"rest", "bootstrap"} \cap {"compare", "wrong"} = {}  OBVIOUS
  <2> QED  BY <1>1, <1>2, <2>1, GuessTurn, Zenon DEF BootstrapCheck
<1> QED  BY <1>3, <1>4, <1>5, <1>6, <1>7, Zenon DEF AuthInv

\* Without a user there is no request past the comparison, and no session whose
\* password is out of date but one that is excused.
LEMMA NobodyYet ==
    ASSUME AuthInv, ~HasUsers
    PROVE  /\ \A x \in Requests : thr[x].pc \notin Compared
           /\ \A s \in Sids : mem[s] = None \/ mem[s].raced \/ s \in undeleted
<1>1. AuthTypes /\ UsersInv /\ SessionsInv
  BY Zenon DEF AuthInv
<1>2. \A x \in Requests : thr[x].pc \notin Compared
  <2> SUFFICES ASSUME NEW x \in Requests, thr[x].pc \in Compared PROVE FALSE
    OBVIOUS
  <2>1. thr[x] \in AuthThreads
    BY <1>1, SMT DEF AuthTypes
  <2>2. thr[x].user \in Users
    BY <2>1, ThreadParts, Zenon DEF AccountPcs
  <2> QED  BY <1>1, <2>2, Zenon DEF UsersInv, HasUsers
<1>3. ASSUME NEW s \in Sids, mem[s] # None, ~mem[s].raced, s \notin undeleted
      PROVE  FALSE
  <2>1. mem[s] \in SessionEntries
    BY <1>1, <1>3, SMT DEF AuthTypes, AuthTypeOK
  <2>2. mem[s].user \in Users /\ mem[s].known \in Passwords
    BY <2>1, SMT DEF SessionEntries
  <2>3. mem[s].known # pw[mem[s].user]
    BY <2>2, AuthNoneAssumption, Zenon DEF HasUsers
  <2>4. PICK x \in Requests : At(x, "revoke")
    BY <1>1, <1>3, <2>3, Zenon DEF SessionsInv, OldPasswordLoggedOut
  <2>5. "revoke" \in Compared  BY DEF Compared
  <2> QED  BY <1>2, <2>4, <2>5, Zenon DEF At
<1> QED  BY <1>2, <1>3, Zenon

LEMMA BootstrapPutKeeps ==
    ASSUME AuthInv, NEW r \in Requests, BootstrapPut(r)
    PROVE  AuthInv'
<1>1. AuthTypes /\ UsersInv /\ SessionsInv /\ TokensInv /\ GuessInv
  BY Zenon DEF AuthInv
<1>2. Turns(r, "bootstrap", "rest")
  BY <1>1, ClosingTurns, Zenon
<1>3. PICK u \in Users, p \in Passwords : u = thr[r].user /\ p = thr[r].known
  <2>1. thr[r] \in AuthThreads  BY <1>1, SMT DEF AuthTypes
  <2>2. "bootstrap" \in AccountPcs  BY DEF AccountPcs
  <2> QED  BY <1>2, <2>1, <2>2, ThreadParts, Zenon DEF Turns
<1>4. pw' = [pw EXCEPT ![u] = p] \/ pw' = pw
  BY <1>3, Zenon DEF BootstrapPut
<1>5. ~HasUsers /\ svcMu = r /\ svcMu' = None
  BY <1>1, Zenon DEF BootstrapPut, UsersInv
<1>6. AuthTypes'
  <2>1. StoreTypes'
    <3>1. pw \in [Users -> Passwords \cup {None}]  BY <1>1, Zenon DEF AuthTypes, AuthTypeOK
    <3>2. pw' \in [Users -> Passwords \cup {None}]  BY <1>4, <3>1, SMT
    <3> QED  BY <1>1, <3>2, AuthTypeParts, Zenon DEF BootstrapPut, StoreTypes
  <2>2. SessionTypes' /\ LockTypes'
    BY <1>1, AuthTypeParts, Zenon DEF BootstrapPut, SessionTypes, LockTypes, sessionVars, lockVars
  <2>3. aFaults' \in 0..AuthMaxFaults
    BY <1>1, AuthTypeParts, FaultTypes, Zenon DEF BootstrapPut
  <2>4. EnvTypes'
    BY <1>1, <1>5, <2>3, AuthTypeParts, Zenon DEF BootstrapPut, EnvTypes
  <2> QED  BY <1>2, <2>1, <2>2, <2>4, TurnKeepsTypes, Zenon
<1>7. UsersInv'
  <2>1. \A x \in Requests : ~At(x, "bootstrap")'
    <3>1. \A x \in Requests : x # r => ~At(x, "bootstrap")
      BY <1>1, <1>5, Zenon DEF UsersInv
    <3> QED  BY <1>2, <3>1, SMT DEF Turns, At
  <2>2. \A x \in Requests : thr'[x].pc \notin Compared
    <3>1. "rest" \notin Compared  BY DEF Compared
    <3> QED  BY <1>2, <1>5, <3>1, NobodyYet, Zenon DEF Turns
  <2>3. \A v, w \in Users : pw'[v] # None /\ pw'[w] # None => v = w
    <3>1. pw \in [Users -> Passwords \cup {None}]  BY <1>1, Zenon DEF AuthTypes, AuthTypeOK
    <3> QED  BY <1>4, <1>5, <3>1, SMT DEF HasUsers
  <2> QED  BY <2>1, <2>2, <2>3, Zenon DEF UsersInv
<1>8. SessionsInv'
  <2>1. UNCHANGED sessionVars  BY Zenon DEF BootstrapPut
  <2>2. SessionsMirror' /\ EndedStaysOut'
    BY <1>1, <2>1, SMT DEF SessionsInv, SessionsMirror, EndedStaysOut, sessionVars
  <2>3. OldPasswordLoggedOut'
    BY <1>5, <2>1, NobodyYet, Zenon DEF OldPasswordLoggedOut, sessionVars
  <2> QED  BY <2>2, <2>3, Zenon DEF SessionsInv
<1>9. TokensInv'
  <2>1. "rest" \notin {"record", "note"}  OBVIOUS
  <2>2. (byHash \cap revoked)' = {}
    BY <1>1, Zenon DEF BootstrapPut, TokensInv
  <2> QED  BY <1>1, <1>2, <2>1, <2>2, TokensTurn, Zenon
<1>10. GuessInv'
  <2>1. {"bootstrap", "rest"} \cap {"compare", "wrong"} = {}  OBVIOUS
  <2> QED  BY <1>1, <1>2, <2>1, GuessTurn, Zenon DEF BootstrapPut
<1> QED  BY <1>6, <1>7, <1>8, <1>9, <1>10, Zenon DEF AuthInv

LEMMA EnsureAdminKeeps ==
    ASSUME AuthInv, NEW u \in Users, NEW p \in Passwords, EnsureAdmin(u, p)
    PROVE  AuthInv'
<1>1. AuthTypes /\ UsersInv /\ SessionsInv /\ TokensInv /\ GuessInv
  BY Zenon DEF AuthInv
<1>2. UNCHANGED <<rec, byHash, sessionVars, lockVars, svcMu, thr, clock, aFaults, revoked>>
  BY Zenon DEF EnsureAdmin
<1>3. ~HasUsers /\ pw' = [pw EXCEPT ![u] = p] /\ \A s \in Sids : mem[s] = None
  BY SMT DEF EnsureAdmin
<1>4. AuthTypes'
  <2>1. pw \in [Users -> Passwords \cup {None}]  BY <1>1, Zenon DEF AuthTypes, AuthTypeOK
  <2>2. pw' \in [Users -> Passwords \cup {None}]  BY <1>3, <2>1, SMT
  <2> QED
    BY <1>1, <1>2, <2>2, Zenon DEF AuthTypes, AuthTypeOK, sessionVars, lockVars
<1>5. UsersInv'
  <2>1. \A r \in Requests : thr[r].pc = "rest"
    BY SMT DEF EnsureAdmin, Starts, Resting
  <2>2. "rest" # "bootstrap" /\ "rest" \notin Compared  BY DEF Compared
  <2>3. \A v, w \in Users : pw'[v] # None /\ pw'[w] # None => v = w
    <3>1. pw \in [Users -> Passwords \cup {None}]  BY <1>1, Zenon DEF AuthTypes, AuthTypeOK
    <3> QED  BY <1>3, <3>1, SMT DEF HasUsers
  <2> QED  BY <1>2, <2>1, <2>2, <2>3, Zenon DEF UsersInv, At
<1>6. SessionsInv'
  <2>1. SessionsMirror' /\ EndedStaysOut'
    BY <1>1, <1>2, SMT DEF SessionsInv, SessionsMirror, EndedStaysOut, sessionVars
  <2>2. OldPasswordLoggedOut'
    BY <1>2, <1>3, Zenon DEF OldPasswordLoggedOut, sessionVars
  <2> QED  BY <2>1, <2>2, Zenon DEF SessionsInv
<1>7. TokensInv'
  BY <1>1, <1>2, TokensStay, Zenon DEF TokensInv
<1>8. GuessInv'
  BY <1>1, <1>2, GuessStay, Zenon
<1> QED  BY <1>4, <1>5, <1>6, <1>7, <1>8, Zenon DEF AuthInv

-----------------------------------------------------------------------------
(* Login, password changes and the lockout.                                *)

LEMMA AtForFinite ==
    ASSUME NEW u
    PROVE  LET c == AtFor("compare", u)
               w == AtFor("wrong", u)
               n == Cardinality(Requests)
           IN  /\ IsFiniteSet(c) /\ IsFiniteSet(w)
               /\ Cardinality(c) \in Nat /\ Cardinality(w) \in Nat /\ n \in Nat
               /\ Cardinality(c) + Cardinality(w) <= n
               /\ \A r \in Requests : r \notin c => Cardinality(c) + 1 <= n
<1> DEFINE c == AtFor("compare", u)
           w == AtFor("wrong", u)
           n == Cardinality(Requests)
<1>1. IsFiniteSet(Requests)  BY AuthNumbersAssumption
<1>2. c \subseteq Requests /\ w \subseteq Requests /\ c \cap w = {}
  BY SMT DEF AtFor, At
<1> HIDE DEF c, w
<1>3. IsFiniteSet(c) /\ IsFiniteSet(w)
  BY <1>1, <1>2, FS_Subset, Zenon
<1>4. Cardinality(c) \in Nat /\ Cardinality(w) \in Nat /\ n \in Nat
  BY <1>1, <1>3, FS_CardinalityType, Zenon
<1>5. IsFiniteSet(c \cup w) /\ Cardinality(c \cup w) = Cardinality(c) + Cardinality(w) - Cardinality(c \cap w)
  BY <1>3, FS_Union, Zenon
<1>6. Cardinality(c \cap w) = 0
  BY <1>2, FS_EmptySet, Zenon
<1>7. Cardinality(c \cup w) <= n
  <2>1. c \cup w \subseteq Requests  BY <1>2
  <2> QED  BY <1>1, <2>1, FS_Subset, Zenon
<1>8. Cardinality(c) + Cardinality(w) <= n
  BY <1>4, <1>5, <1>6, <1>7, SMT
<1>9. ASSUME NEW r \in Requests, r \notin c PROVE Cardinality(c) + 1 <= n
  <2>1. IsFiniteSet(c \cup {r}) /\ Cardinality(c \cup {r}) = Cardinality(c) + 1
    BY <1>3, <1>9, FS_AddElement, Zenon
  <2>2. c \cup {r} \subseteq Requests  BY <1>2, <1>9, Zenon
  <2>3. Cardinality(c \cup {r}) <= n
    BY <1>1, <2>2, FS_Subset, Zenon
  <2> QED  BY <2>1, <2>3, SMT
<1> QED  BY <1>3, <1>4, <1>8, <1>9, Zenon DEF c, w

\* One request more or less at a point.
LEMMA AtForMore ==
    ASSUME NEW r \in Requests, NEW from, NEW pc \in {"compare", "wrong"}, Turns(r, from, pc), from # pc,
           NEW u, thr'[r].user = u
    PROVE  Cardinality(AtFor(pc, u)') = Cardinality(AtFor(pc, u)) + 1
<1>1. IsFiniteSet(AtFor(pc, u))
  BY AtForFinite, Zenon
<1>2. AtFor(pc, u)' = AtFor(pc, u) \cup {r} /\ r \notin AtFor(pc, u)
  BY AtForTurn, SMT
<1> QED  BY <1>1, <1>2, FS_AddElement, Zenon

LEMMA AtForLess ==
    ASSUME NEW r \in Requests, NEW to, NEW pc \in {"compare", "wrong"}, Turns(r, pc, to), to # pc,
           NEW u, thr[r].user = u
    PROVE  Cardinality(AtFor(pc, u)') = Cardinality(AtFor(pc, u)) - 1
<1>1. IsFiniteSet(AtFor(pc, u))
  BY AtForFinite, Zenon
<1>2. AtFor(pc, u)' = AtFor(pc, u) \ {r} /\ r \in AtFor(pc, u)
  BY AtForTurn, SMT
<1> QED  BY <1>1, <1>2, FS_RemoveElement, Zenon

\* GuessesOK of one account as a fact about five numbers: when it is locked, its
\* failures and guesses, and the requests at "compare" and at "wrong".
WithinLimit(l, f, g, c, w) ==
    IF l > 0
    THEN g + c <= MaxFailedAttempts - 1 + Cardinality(Requests)
    ELSE f <= MaxFailedAttempts - 1 /\ g <= f + w

LEMMA GuessesAre ==
    ASSUME NEW u
    PROVE  /\ GuessesOK(u) <=> WithinLimit(locked[u], fails[u], guesses[u], Cardinality(AtFor("compare", u)),
                                           Cardinality(AtFor("wrong", u)))
           /\ GuessesOK(u)' <=> WithinLimit(locked'[u], fails'[u], guesses'[u], Cardinality(AtFor("compare", u)'),
                                            Cardinality(AtFor("wrong", u)'))
BY Zenon DEF GuessesOK, WithinLimit

LEMMA SameGuesses ==
    ASSUME NEW v, GuessesOK(v), locked'[v] = locked[v], fails'[v] = fails[v], guesses'[v] = guesses[v],
           AtFor("compare", v)' = AtFor("compare", v), AtFor("wrong", v)' = AtFor("wrong", v)
    PROVE  GuessesOK(v)'
BY Zenon DEF GuessesOK

LEMMA LockNumbers ==
    ASSUME LockTypes, EnvTypes, NEW u \in Users
    PROVE  /\ locked[u] \in Nat /\ fails[u] \in 0..MaxFailedAttempts /\ guesses[u] \in Nat /\ clock \in Nat
           /\ MaxFailedAttempts \in Nat \ {0} /\ LockoutDuration \in Nat \ {0}
BY AuthNumbersAssumption, SMT DEF LockTypes, EnvTypes

\* lockoutTracker.Check lets a request pass only if the account is not locked.
LEMMA CheckKeepsGuesses ==
    ASSUME AuthTypes, GuessInv, NEW r \in Requests, NEW u \in Users, CheckLock(u),
           Turns(r, "rest", "compare"), thr'[r].user = u
    PROVE  GuessInv'
<1> SUFFICES ASSUME NEW v \in Users PROVE GuessesOK(v)'
  BY Zenon DEF GuessInv
<1>1. LockTypes /\ EnvTypes /\ GuessesOK(v)
  BY AuthTypeParts, Zenon DEF GuessInv
<1>2. AtFor("wrong", v)' = AtFor("wrong", v)
  <2>1. "rest" # "wrong" /\ "compare" # "wrong"  OBVIOUS
  <2> QED  BY <2>1, AtForTurn, SMT
<1>3. CASE v # u
  <2>1. AtFor("compare", v)' = AtFor("compare", v)
    <3>1. "rest" # "compare"  OBVIOUS
    <3> QED  BY <1>3, <3>1, AtForTurn, SMT
  <2>2. locked'[v] = locked[v] /\ fails'[v] = fails[v] /\ guesses'[v] = guesses[v]
    BY <1>1, <1>3, SMT DEF CheckLock, LockTypes
  <2> QED  BY <1>1, <1>2, <2>1, <2>2, SameGuesses, Zenon
<1>4. CASE v = u
  <2>1. PICK w \in Nat : w = Cardinality(AtFor("wrong", v)) /\ w = Cardinality(AtFor("wrong", v)')
    BY <1>2, AtForFinite, Zenon
  <2>2. PICK c : c = Cardinality(AtFor("compare", v))  OBVIOUS
  <2>3. PICK d : d = Cardinality(AtFor("compare", v)')  OBVIOUS
  <2>4. WithinLimit(locked[v], fails[v], guesses[v], c, w)
    BY <1>1, <2>1, <2>2, GuessesAre, Zenon
  <2>5. WithinLimit(locked'[v], fails'[v], guesses'[v], d, w)
    <3>1. CASE LockExpired(u)
      <4>1. locked'[v] = 0 /\ fails'[v] = 0 /\ guesses'[v] = 0
        BY <1>1, <1>4, <3>1, SMT DEF CheckLock, LockTypes
      <4> QED  BY <4>1, <2>1, AuthNumbersAssumption, SMT DEF WithinLimit
    <3>2. CASE ~LockExpired(u)
      <4>1. locked'[v] = locked[v] /\ fails'[v] = fails[v] /\ guesses'[v] = guesses[v]
        BY <3>2, Zenon DEF CheckLock
      <4>2. locked[v] = 0
        BY <1>1, <1>4, <3>2, LockNumbers, SMT DEF CheckLock, LockExpired
      <4> QED  BY <2>4, <4>1, <4>2, SMT DEF WithinLimit
    <3> QED  BY <3>1, <3>2
  <2> QED  BY <2>1, <2>3, <2>5, GuessesAre, Zenon
<1> QED  BY <1>3, <1>4

LEMMA OpeningKeeps ==
    ASSUME AuthInv, NEW r \in Requests, NEW u \in Users, CheckLock(u), Turns(r, "rest", "compare"), thr'[r].user = u,
           UNCHANGED <<storeVars, sessionVars, svcMu, clock, aFaults, revoked>>
    PROVE  AuthInv'
<1>1. AuthTypes /\ UsersInv /\ SessionsInv /\ TokensInv /\ GuessInv
  BY Zenon DEF AuthInv
<1>2. AuthTypes'
  <2>1. StoreTypes' /\ SessionTypes' /\ EnvTypes'
    BY <1>1, AuthTypeParts, Zenon DEF StoreTypes, SessionTypes, EnvTypes, storeVars, sessionVars
  <2>2. LockTypes'
    BY <1>1, AuthTypeParts, CheckLockTypes, Zenon
  <2> QED  BY <2>1, <2>2, TurnKeepsTypes, Zenon
<1>3. UsersInv'
  <2>1. "compare" # "bootstrap" /\ "compare" \notin Compared  BY DEF Compared
  <2> QED  BY <1>1, <2>1, UsersTurn, Zenon DEF storeVars
<1>4. SessionsInv'
  <2>1. "rest" # "revoke"  OBVIOUS
  <2> QED  BY <1>1, <2>1, SessionsTurn, Zenon DEF storeVars
<1>5. TokensInv'
  <2>1. "compare" \notin {"record", "note"}  OBVIOUS
  <2>2. (byHash \cap revoked)' = {}
    BY <1>1, Zenon DEF storeVars, TokensInv
  <2> QED  BY <1>1, <2>1, <2>2, TokensTurn, Zenon
<1>6. GuessInv'
  BY <1>1, CheckKeepsGuesses, Zenon
<1> QED  BY <1>2, <1>3, <1>4, <1>5, <1>6, Zenon DEF AuthInv

LEMMA LoginStartKeeps ==
    ASSUME AuthInv, NEW r \in Requests, NEW u \in Users, NEW p \in Passwords, LoginStart(r, u, p)
    PROVE  AuthInv'
<1>1. AuthTypes
  BY Zenon DEF AuthInv
<1>2. Turns(r, "rest", "compare") /\ thr'[r].user = u
  BY <1>1, OpeningTurns, Zenon
<1> QED  BY <1>2, OpeningKeeps, Zenon DEF LoginStart

LEMMA ChangeStartKeeps ==
    ASSUME AuthInv, NEW r \in Requests, NEW s \in Sids, NEW old \in Passwords, NEW new \in Passwords,
           ChangeStart(r, s, old, new)
    PROVE  AuthInv'
<1>1. AuthTypes
  BY Zenon DEF AuthInv
<1>2. Turns(r, "rest", "compare") /\ thr'[r].user = mem[s].user /\ mem[s].user \in Users
  BY <1>1, OpeningTurns, Zenon
<1>3. PICK u \in Users : u = mem[s].user
  BY <1>2
<1> QED  BY <1>2, <1>3, OpeningKeeps, Zenon DEF ChangeStart

LEMMA CompareKeeps ==
    ASSUME AuthInv, NEW r \in Requests, Compare(r)
    PROVE  AuthInv'
<1>1. AuthTypes /\ UsersInv /\ SessionsInv /\ TokensInv /\ GuessInv
  BY Zenon DEF AuthInv
<1>2. PICK u \in Users, p \in Passwords : u = thr[r].user /\ p = thr[r].known
  <2>1. thr[r] \in AuthThreads  BY <1>1, SMT DEF AuthTypes
  <2>2. "compare" \in AccountPcs  BY DEF AccountPcs
  <2> QED  BY <2>1, <2>2, ThreadParts, Zenon DEF Compare, At
<1>3. \/ Turns(r, "compare", "right") /\ pw[u] = p /\ UNCHANGED guesses
      \/ Turns(r, "compare", "wrong") /\ guesses' = [guesses EXCEPT ![u] = @ + 1]
  <2>1. CASE pw[u] = p
    BY <1>1, <1>2, <2>1, RequestGoesOn, Zenon DEF Compare, At
  <2>2. CASE pw[u] # p
    BY <1>1, <1>2, <2>2, RequestGoesOn, Zenon DEF Compare, At
  <2> QED  BY <2>1, <2>2
<1>4. PICK to \in {"right", "wrong"} : Turns(r, "compare", to) /\ (to = "right" => pw[u] = p)
  BY <1>3
<1>5. UNCHANGED <<storeVars, sessionVars, fails, locked, svcMu, clock, aFaults, revoked>>
  BY Zenon DEF Compare
<1>6. thr'[r].user = u
  <2>1. {"compare", "right", "wrong"} \subseteq AccountPcs  BY DEF AccountPcs, Compared
  <2> QED  BY <1>2, <1>4, <2>1, SMT DEF Turns
<1>7. AuthTypes'
  <2>1. StoreTypes' /\ SessionTypes' /\ EnvTypes'
    BY <1>1, <1>5, AuthTypeParts, Zenon DEF StoreTypes, SessionTypes, EnvTypes, storeVars, sessionVars
  <2>2. LockTypes'
    BY <1>1, <1>3, <1>5, AuthTypeParts, SMT DEF LockTypes
  <2> QED  BY <1>4, <2>1, <2>2, TurnKeepsTypes, Zenon
<1>8. UsersInv'
  <2>1. to \in Compared => pw[thr'[r].user] # None
    <3>1. "wrong" \notin Compared  BY DEF Compared
    <3> QED  BY <1>4, <1>6, <3>1, AuthNoneAssumption, SMT
  <2>2. to # "bootstrap"  BY <1>4
  <2> QED  BY <1>1, <1>4, <1>5, <2>1, <2>2, UsersTurn, Zenon DEF storeVars
<1>9. SessionsInv'
  <2>1. "compare" # "revoke"  OBVIOUS
  <2> QED  BY <1>1, <1>4, <1>5, <2>1, SessionsTurn, Zenon DEF storeVars
<1>10. TokensInv'
  <2>1. to \notin {"record", "note"}  BY <1>4
  <2>2. (byHash \cap revoked)' = {}
    BY <1>1, <1>5, Zenon DEF storeVars, TokensInv
  <2> QED  BY <1>1, <1>4, <2>1, <2>2, TokensTurn, Zenon
<1>11. GuessInv'
  <2> SUFFICES ASSUME NEW v \in Users PROVE GuessesOK(v)'
    BY Zenon DEF GuessInv
  <2>1. LockTypes /\ EnvTypes /\ GuessesOK(v)
    BY <1>1, AuthTypeParts, Zenon DEF GuessInv
  <2>2. thr[r].pc = "compare" /\ thr[r].user = u
    BY <1>2, <1>4, Zenon DEF Turns
  <2>3. CASE v # u
    <3>1. AtFor("compare", v)' = AtFor("compare", v)
      BY <1>4, <2>2, <2>3, AtForTurn, SMT
    <3>2. AtFor("wrong", v)' = AtFor("wrong", v)
      BY <1>4, <1>6, <2>3, AtForTurn, SMT
    <3>3. locked'[v] = locked[v] /\ fails'[v] = fails[v] /\ guesses'[v] = guesses[v]
      BY <1>3, <1>5, <2>1, <2>3, SMT DEF LockTypes
    <3> QED  BY <2>1, <3>1, <3>2, <3>3, SameGuesses, Zenon
  <2>4. CASE v = u
    <3>1. PICK c \in Nat : c = Cardinality(AtFor("compare", u))  BY AtForFinite, Zenon
    <3>2. PICK w \in Nat : w = Cardinality(AtFor("wrong", u))  BY AtForFinite, Zenon
    <3>3. Cardinality(AtFor("compare", u)') = c - 1
      <4>1. to # "compare"  BY <1>4
      <4> QED  BY <1>4, <2>2, <3>1, <4>1, AtForLess, Zenon
    <3>4. WithinLimit(locked[u], fails[u], guesses[u], c, w)
      BY <2>1, <2>4, <3>1, <3>2, GuessesAre, Zenon
    <3>5. PICK g \in Nat : g = guesses[u]
      BY <2>1, LockNumbers, Zenon
    <3>6. locked'[u] = locked[u] /\ fails'[u] = fails[u]
      BY <1>5
    <3>7. Cardinality(Requests) \in Nat
      BY AtForFinite, Zenon
    <3>8. CASE Turns(r, "compare", "right") /\ UNCHANGED guesses
      <4>1. Cardinality(AtFor("wrong", u)') = w
        <5>1. AtFor("wrong", u)' = AtFor("wrong", u)  BY <3>8, AtForTurn, SMT
        <5> QED  BY <3>2, <5>1, Zenon
      <4>2. WithinLimit(locked[u], fails[u], g, c - 1, w)
        BY <2>1, <3>4, <3>5, <3>7, LockNumbers, SMT DEF WithinLimit
      <4> QED  BY <2>4, <3>3, <3>5, <3>6, <3>8, <4>1, <4>2, GuessesAre, Zenon
    <3>9. CASE Turns(r, "compare", "wrong") /\ guesses' = [guesses EXCEPT ![u] = @ + 1]
      <4>1. Cardinality(AtFor("wrong", u)') = w + 1
        <5>1. "compare" # "wrong"  OBVIOUS
        <5> QED  BY <1>6, <3>2, <3>9, <5>1, AtForMore, Zenon
      <4>2. guesses'[u] = g + 1
        BY <2>1, <3>5, <3>9, SMT DEF LockTypes
      <4>3. WithinLimit(locked[u], fails[u], g + 1, c - 1, w + 1)
        BY <2>1, <3>4, <3>5, <3>7, LockNumbers, SMT DEF WithinLimit
      <4> QED  BY <2>4, <3>3, <3>6, <4>1, <4>2, <4>3, GuessesAre, Zenon
    <3> QED  BY <1>3, <3>8, <3>9
  <2> QED  BY <2>3, <2>4
<1> QED  BY <1>7, <1>8, <1>9, <1>10, <1>11, Zenon DEF AuthInv

LEMMA RecordFailureKeeps ==
    ASSUME AuthInv, NEW r \in Requests, RecordFailure(r)
    PROVE  AuthInv'
<1>1. AuthTypes /\ UsersInv /\ SessionsInv /\ TokensInv /\ GuessInv
  BY Zenon DEF AuthInv
<1>2. Turns(r, "wrong", "rest")
  BY <1>1, ClosingTurns, Zenon
<1>3. PICK u \in Users : u = thr[r].user
  <2>1. thr[r] \in AuthThreads  BY <1>1, SMT DEF AuthTypes
  <2>2. "wrong" \in AccountPcs  BY DEF AccountPcs
  <2> QED  BY <1>2, <2>1, <2>2, ThreadParts, Zenon DEF Turns
<1>4. UNCHANGED <<storeVars, sessionVars, svcMu, clock, aFaults, revoked>>
  BY Zenon DEF RecordFailure
<1>5. LockTypes /\ EnvTypes
  BY <1>1, AuthTypeParts, Zenon
<1>6. PICK n : n = IF LockExpired(u) THEN 1 ELSE fails[u] + 1
  OBVIOUS
<1>7. IF locked[u] > clock
      THEN UNCHANGED <<fails, locked>>
      ELSE /\ fails' = [fails EXCEPT ![u] = n]
           /\ locked' = [locked EXCEPT ![u] = IF LocksAt(n) THEN clock + LockoutDuration ELSE 0]
  BY <1>3, <1>6, Zenon DEF RecordFailure
<1>8. guesses' = IF LockExpired(u) THEN [guesses EXCEPT ![u] = 1] ELSE guesses
  BY <1>3, Zenon DEF RecordFailure
<1>9. PICK c \in Nat : c = Cardinality(AtFor("compare", u)) /\ c = Cardinality(AtFor("compare", u)')
  <2>1. AtFor("compare", u)' = AtFor("compare", u)  BY <1>2, AtForTurn, SMT
  <2> QED  BY <2>1, AtForFinite, Zenon
<1>10. PICK w \in Nat : w = Cardinality(AtFor("wrong", u))  BY AtForFinite, Zenon
<1>11. Cardinality(AtFor("wrong", u)') = w - 1
  <2>1. "rest" # "wrong" /\ thr[r].user = u  BY <1>3
  <2> QED  BY <1>2, <1>10, <2>1, AtForLess, Zenon
<1>12. WithinLimit(locked[u], fails[u], guesses[u], c, w)
  BY <1>1, <1>9, <1>10, GuessesAre, Zenon DEF GuessInv
\* r was among the requests at "wrong", so it is not one of those at "compare".
<1>13. PICK m \in Nat : m = Cardinality(Requests) /\ c + w <= m /\ c + 1 <= m
  <2>1. r \notin AtFor("compare", u)  BY <1>2, SMT DEF Turns, AtFor, At
  <2> QED  BY <1>9, <1>10, <2>1, AtForFinite, Zenon
<1>14. locked[u] > clock \/ n \in 1..MaxFailedAttempts
  BY <1>5, <1>6, <1>12, LockNumbers, SMT DEF WithinLimit, LockExpired
<1>15. AuthTypes'
  <2>1. StoreTypes' /\ SessionTypes' /\ EnvTypes'
    BY <1>1, <1>4, AuthTypeParts, Zenon DEF StoreTypes, SessionTypes, EnvTypes, storeVars, sessionVars
  <2>2. fails' \in [Users -> 0..MaxFailedAttempts]
    BY <1>5, <1>7, <1>14, SMT DEF LockTypes
  <2>3. locked' \in [Users -> 0..(AuthMaxTime + LockoutDuration)]
    <3>1. clock + LockoutDuration \in 0..(AuthMaxTime + LockoutDuration) /\ 0 \in 0..(AuthMaxTime + LockoutDuration)
      BY <1>5, AuthNumbersAssumption, SMT DEF EnvTypes
    <3> QED  BY <1>5, <1>7, <3>1, SMT DEF LockTypes
  <2>4. guesses' \in [Users -> Nat]
    BY <1>5, <1>8, SMT DEF LockTypes
  <2>5. LockTypes'
    BY <2>2, <2>3, <2>4, Zenon DEF LockTypes
  <2> QED  BY <1>2, <2>1, <2>5, TurnKeepsTypes, Zenon
<1>16. UsersInv'
  <2>1. "rest" # "bootstrap" /\ "rest" \notin Compared  BY DEF Compared
  <2> QED  BY <1>1, <1>2, <1>4, <2>1, UsersTurn, Zenon DEF storeVars
<1>17. SessionsInv'
  <2>1. "wrong" # "revoke"  OBVIOUS
  <2> QED  BY <1>1, <1>2, <1>4, <2>1, SessionsTurn, Zenon DEF storeVars
<1>18. TokensInv'
  <2>1. "rest" \notin {"record", "note"}  OBVIOUS
  <2>2. (byHash \cap revoked)' = {}
    BY <1>1, <1>4, Zenon DEF storeVars, TokensInv
  <2> QED  BY <1>1, <1>2, <2>1, <2>2, TokensTurn, Zenon
<1>19. GuessInv'
  <2> SUFFICES ASSUME NEW v \in Users PROVE GuessesOK(v)'
    BY Zenon DEF GuessInv
  <2>1. CASE v # u
    <3>1. AtFor("compare", v)' = AtFor("compare", v)
      BY <1>2, AtForTurn, SMT
    <3>2. AtFor("wrong", v)' = AtFor("wrong", v)
      BY <1>2, <1>3, <2>1, AtForTurn, SMT
    <3>3. locked'[v] = locked[v] /\ fails'[v] = fails[v] /\ guesses'[v] = guesses[v]
      BY <1>5, <1>7, <1>8, <2>1, SMT DEF LockTypes
    <3>4. GuessesOK(v)
      BY <1>1, Zenon DEF GuessInv
    <3> QED  BY <3>1, <3>2, <3>3, <3>4, SameGuesses, Zenon
  <2>2. CASE v = u
    <3>1. PICK l, f, g : l = locked[u] /\ f = fails[u] /\ g = guesses[u]
      OBVIOUS
    <3>2. l \in Nat /\ f \in 0..MaxFailedAttempts /\ g \in Nat /\ WithinLimit(l, f, g, c, w)
      BY <1>5, <1>12, <3>1, LockNumbers, Zenon
    <3>3. CASE l > clock
      <4>1. locked'[u] = l /\ fails'[u] = f /\ guesses'[u] = g
        BY <1>5, <1>7, <1>8, <3>1, <3>2, <3>3, LockNumbers, SMT DEF LockExpired
      <4>2. WithinLimit(l, f, g, c, w - 1)
        BY <1>5, <3>2, <3>3, LockNumbers, SMT DEF WithinLimit
      <4> QED  BY <1>9, <1>11, <2>2, <4>1, <4>2, GuessesAre, Zenon
    <3>4. CASE ~(l > clock)
      <4>1. PICK k : k = IF LocksAt(n) THEN clock + LockoutDuration ELSE 0  OBVIOUS
      <4>2. fails'[u] = n /\ locked'[u] = k
        BY <1>5, <1>7, <3>1, <3>4, <4>1, SMT DEF LockTypes
      <4>3. CASE LockExpired(u)
        <5>1. guesses'[u] = 1
          BY <1>5, <1>8, <4>3, SMT DEF LockTypes
        <5>2. WithinLimit(k, n, 1, c, w - 1)
          <6>1. n = 1  BY <1>6, <4>3
          <6>2. w >= 1
            <7>1. Cardinality(AtFor("wrong", u)') \in Nat
              <8>1. IsFiniteSet(AtFor("wrong", u))  BY AtForFinite, Zenon
              <8>2. AtFor("wrong", u)' = AtFor("wrong", u) \ {r}  BY <1>2, <1>3, AtForTurn, SMT
              <8>3. IsFiniteSet(AtFor("wrong", u)')  BY <8>1, <8>2, FS_Subset, SMT
              <8> QED  BY <8>3, FS_CardinalityType, Zenon
            <7> QED  BY <1>10, <1>11, <7>1, SMT
          <6> QED
            BY <1>5, <1>9, <1>10, <1>13, <4>1, <6>1, <6>2, LockNumbers, SMT DEF WithinLimit, LocksAt
        <5> QED  BY <1>9, <1>11, <2>2, <4>2, <5>1, <5>2, GuessesAre, Zenon
      <4>4. CASE ~LockExpired(u)
        <5>1. guesses'[u] = g /\ n = f + 1 /\ l = 0
          BY <1>5, <1>6, <1>8, <3>1, <3>2, <3>4, <4>4, LockNumbers, SMT DEF LockExpired
        <5>2. WithinLimit(k, n, g, c, w - 1)
          BY <1>5, <1>13, <3>2, <4>1, <5>1, LockNumbers, SMT DEF WithinLimit, LocksAt
        <5> QED  BY <1>9, <1>11, <2>2, <4>2, <5>1, <5>2, GuessesAre, Zenon
      <4> QED  BY <4>3, <4>4
    <3> QED  BY <3>3, <3>4
  <2> QED  BY <2>1, <2>2
<1> QED  BY <1>15, <1>16, <1>17, <1>18, <1>19, Zenon DEF AuthInv

LEMMA ResetLockKeeps ==
    ASSUME AuthInv, NEW r \in Requests, ResetLock(r)
    PROVE  AuthInv'
<1>1. AuthTypes /\ UsersInv /\ SessionsInv /\ TokensInv /\ GuessInv
  BY Zenon DEF AuthInv
<1>2. PICK to \in {"create", "set"} : Turns(r, "right", to)
  BY <1>1, MiddleTurns, Zenon
<1>3. PICK u \in Users : u = thr[r].user
  <2>1. thr[r] \in AuthThreads  BY <1>1, SMT DEF AuthTypes
  <2>2. "right" \in AccountPcs  BY DEF AccountPcs, Compared
  <2> QED  BY <1>2, <2>1, <2>2, ThreadParts, Zenon DEF Turns
<1>4. UNCHANGED <<storeVars, sessionVars, svcMu, clock, aFaults, revoked>>
  BY Zenon DEF ResetLock
<1>5. /\ fails' = [fails EXCEPT ![u] = 0]
      /\ locked' = [locked EXCEPT ![u] = 0]
      /\ guesses' = [guesses EXCEPT ![u] = 0]
  BY <1>3, Zenon DEF ResetLock
<1>6. LockTypes
  BY <1>1, AuthTypeParts, Zenon
<1>7. AuthTypes'
  <2>1. StoreTypes' /\ SessionTypes' /\ EnvTypes'
    BY <1>1, <1>4, AuthTypeParts, Zenon DEF StoreTypes, SessionTypes, EnvTypes, storeVars, sessionVars
  <2>2. LockTypes'
    BY <1>5, <1>6, AuthNumbersAssumption, SMT DEF LockTypes
  <2> QED  BY <1>2, <2>1, <2>2, TurnKeepsTypes, Zenon
<1>8. UsersInv'
  <2>1. {"right", "create", "set"} \subseteq AccountPcs /\ "right" \in Compared  BY DEF AccountPcs, Compared
  <2>2. thr'[r].user = thr[r].user /\ thr[r].pc = "right"
    BY <1>2, <2>1, SMT DEF Turns
  <2>3. pw[thr'[r].user] # None
    BY <1>1, <2>1, <2>2, Zenon DEF UsersInv
  <2>4. to # "bootstrap"  BY <1>2
  <2> QED  BY <1>1, <1>2, <1>4, <2>3, <2>4, UsersTurn, Zenon DEF storeVars
<1>9. SessionsInv'
  <2>1. "right" # "revoke"  OBVIOUS
  <2> QED  BY <1>1, <1>2, <1>4, <2>1, SessionsTurn, Zenon DEF storeVars
<1>10. TokensInv'
  <2>1. to \notin {"record", "note"}  BY <1>2
  <2>2. (byHash \cap revoked)' = {}
    BY <1>1, <1>4, Zenon DEF storeVars, TokensInv
  <2> QED  BY <1>1, <1>2, <2>1, <2>2, TokensTurn, Zenon
<1>11. GuessInv'
  <2> SUFFICES ASSUME NEW v \in Users PROVE GuessesOK(v)'
    BY Zenon DEF GuessInv
  <2>1. AtFor("compare", v)' = AtFor("compare", v) /\ AtFor("wrong", v)' = AtFor("wrong", v)
    <3>1. to # "compare" /\ to # "wrong"  BY <1>2
    <3>2. AtFor("compare", v)' = AtFor("compare", v)  BY <1>2, <3>1, AtForTurn, SMT
    <3>3. AtFor("wrong", v)' = AtFor("wrong", v)  BY <1>2, <3>1, AtForTurn, SMT
    <3> QED  BY <3>2, <3>3
  <2>2. CASE v # u
    <3>1. locked'[v] = locked[v] /\ fails'[v] = fails[v] /\ guesses'[v] = guesses[v]
      BY <1>5, <1>6, <2>2, SMT DEF LockTypes
    <3>2. GuessesOK(v)
      BY <1>1, Zenon DEF GuessInv
    <3> QED  BY <2>1, <3>1, <3>2, SameGuesses, Zenon
  <2>3. CASE v = u
    <3>1. locked'[v] = 0 /\ fails'[v] = 0 /\ guesses'[v] = 0
      BY <1>5, <1>6, <2>3, SMT DEF LockTypes
    <3>2. PICK w \in Nat : w = Cardinality(AtFor("wrong", v)')
      BY <2>1, AtForFinite, Zenon
    <3>3. PICK c : c = Cardinality(AtFor("compare", v)')  OBVIOUS
    <3>4. WithinLimit(0, 0, 0, c, w)
      BY <3>2, AuthNumbersAssumption, SMT DEF WithinLimit
    <3> QED  BY <3>1, <3>2, <3>3, <3>4, GuessesAre, Zenon
  <2> QED  BY <2>2, <2>3
<1> QED  BY <1>7, <1>8, <1>9, <1>10, <1>11, Zenon DEF AuthInv

-----------------------------------------------------------------------------
(* Sessions.                                                               *)

\* What EndSessions does to one session.
LEMMA EndedFacts ==
    ASSUME AuthTypes, NEW gone \in SUBSET Sids, NEW kept, EndSessions(gone, kept), NEW s \in Sids
    PROVE  /\ s \in gone => mem'[s] = None
           /\ s \notin gone => mem'[s] = mem[s] /\ stored'[s] = stored[s]
           /\ s \in gone /\ s \notin kept => stored'[s] = None /\ s \notin undeleted'
           /\ s \in kept => s \in undeleted'
           /\ s \in out' <=> s \in out \/ s \in gone
           /\ s \notin gone => (s \in undeleted' <=> s \in undeleted)
BY SMT DEF EndSessions

\* Ended sessions disturb no invariant but the last part of SessionsInv, and
\* that only if the request that revokes sessions goes on.
LEMMA EndSessionsKeeps ==
    ASSUME AuthTypes, SessionsInv, NEW gone \in SUBSET Sids, NEW kept, EndSessions(gone, kept), UNCHANGED pw,
           \A s \in Sids, x \in Requests :
              s \notin gone /\ mem[s] # None /\ At(x, "revoke") /\ thr[x].user = mem[s].user
                 => At(x, "revoke")' /\ thr'[x].user = thr[x].user
    PROVE  SessionsInv'
<1>1. SessionsMirror'
  <2> SUFFICES ASSUME NEW s \in Sids
               PROVE  /\ mem'[s] # None => stored'[s] = mem'[s]
                      /\ stored'[s] # None /\ s \notin undeleted' => mem'[s] = stored'[s]
    BY Zenon DEF SessionsMirror
  <2>1. /\ mem[s] # None => stored[s] = mem[s]
        /\ stored[s] # None /\ s \notin undeleted => mem[s] = stored[s]
    BY Zenon DEF SessionsInv, SessionsMirror
  <2>2. kept \subseteq gone  BY Zenon DEF EndSessions
  <2> QED  BY <2>1, <2>2, EndedFacts, SMT
<1>2. EndedStaysOut'
  <2> SUFFICES ASSUME NEW s \in Sids, s \in out', s \notin undeleted' PROVE mem'[s] = None /\ stored'[s] = None
    <3>1. out' \subseteq Sids
      <4>1. out \subseteq Sids  BY Zenon DEF AuthTypes, AuthTypeOK
      <4> QED  BY <4>1, SMT DEF EndSessions
    <3> QED  BY <3>1, SMT DEF EndedStaysOut
  <2>1. s \in out /\ s \notin undeleted => mem[s] = None /\ stored[s] = None
    BY SMT DEF SessionsInv, EndedStaysOut
  <2>2. kept \subseteq gone  BY Zenon DEF EndSessions
  <2> QED  BY <2>1, <2>2, EndedFacts, SMT
<1>3. ASSUME NEW s \in Sids, mem'[s] # None, mem'[s].known # pw'[mem'[s].user], ~mem'[s].raced, s \notin undeleted'
      PROVE  \E x \in Requests : At(x, "revoke")' /\ thr'[x].user = mem'[s].user
  <2>1. s \notin gone /\ mem'[s] = mem[s] /\ s \notin undeleted
    BY <1>3, EndedFacts, ZenonT(30)
  <2>2. PICK x \in Requests : At(x, "revoke") /\ thr[x].user = mem[s].user
    BY <1>3, <2>1, Zenon DEF SessionsInv, OldPasswordLoggedOut
  <2> QED  BY <1>3, <2>1, <2>2, Zenon
<1>4. OldPasswordLoggedOut'
  BY <1>3, Zenon DEF OldPasswordLoggedOut
<1> QED  BY <1>1, <1>2, <1>4, Zenon DEF SessionsInv

\* Logout and ValidateExpired.
LEMMA OneEndedKeeps ==
    ASSUME AuthInv, NEW s \in Sids, \E kept \in SUBSET {s} : EndSessions({s}, kept),
           UNCHANGED <<storeVars, lockVars, svcMu, thr, clock, revoked>>
    PROVE  AuthInv'
<1>1. AuthTypes /\ UsersInv /\ SessionsInv /\ TokensInv /\ GuessInv
  BY Zenon DEF AuthInv
<1>2. PICK kept \in SUBSET {s} : EndSessions({s}, kept)
  OBVIOUS
<1>3. {s} \in SUBSET Sids
  OBVIOUS
<1>4. SessionTypes' /\ aFaults' \in 0..AuthMaxFaults
  BY <1>1, <1>2, <1>3, AuthTypeParts, EndSessionsTypes, Zenon
<1>5. AuthTypes'
  BY <1>1, <1>4, Zenon DEF AuthTypes, AuthTypeOK, SessionTypes, storeVars, lockVars
<1>6. SessionsInv'
  <2>1. UNCHANGED pw  BY DEF storeVars
  <2>2. \A t \in Sids, x \in Requests :
           t \notin {s} /\ mem[t] # None /\ At(x, "revoke") /\ thr[x].user = mem[t].user
              => At(x, "revoke")' /\ thr'[x].user = thr[x].user
    BY Zenon DEF At
  <2> QED  BY <1>1, <1>2, <1>3, <2>1, <2>2, EndSessionsKeeps, Zenon
<1>7. UsersInv'  BY <1>1, UsersStay, Zenon DEF storeVars
<1>8. TokensInv'
  <2>1. (byHash \cap revoked)' = {}  BY <1>1, Zenon DEF TokensInv, storeVars
  <2> QED  BY <1>1, <2>1, TokensStay, Zenon
<1>9. GuessInv'  BY <1>1, GuessStay, Zenon
<1> QED  BY <1>5, <1>6, <1>7, <1>8, <1>9, Zenon DEF AuthInv

LEMMA RevokeSessionsKeeps ==
    ASSUME AuthInv, NEW r \in Requests, RevokeSessionsForUser(r)
    PROVE  AuthInv'
<1>1. AuthTypes /\ UsersInv /\ SessionsInv /\ TokensInv /\ GuessInv
  BY Zenon DEF AuthInv
<1>2. Turns(r, "revoke", "create")
  BY <1>1, MiddleTurns, Zenon
<1>3. PICK gone : gone = SessionsOf(thr[r].user)
  OBVIOUS
<1>4. PICK kept : EndSessions(gone, kept)
  BY <1>3, Zenon DEF RevokeSessionsForUser
<1>5. gone \in SUBSET Sids /\ \A s \in Sids : mem[s] # None /\ mem[s].user = thr[r].user => s \in gone
  BY <1>3, Zenon DEF SessionsOf
<1>6. UNCHANGED <<storeVars, lockVars, svcMu, clock, revoked>>
  BY Zenon DEF RevokeSessionsForUser
<1>7. SessionTypes' /\ aFaults' \in 0..AuthMaxFaults
  BY <1>1, <1>4, <1>5, AuthTypeParts, EndSessionsTypes, Zenon
<1>8. AuthTypes'
  <2>1. StoreTypes' /\ LockTypes'
    BY <1>1, <1>6, AuthTypeParts, Zenon DEF StoreTypes, LockTypes, storeVars, lockVars
  <2>2. EnvTypes'
    BY <1>1, <1>6, <1>7, AuthTypeParts, Zenon DEF EnvTypes
  <2> QED  BY <1>2, <1>7, <2>1, <2>2, TurnKeepsTypes, Zenon
<1>9. UsersInv'
  <2>1. {"revoke", "create"} \subseteq AccountPcs /\ "revoke" \in Compared  BY DEF AccountPcs, Compared
  <2>2. thr'[r].user = thr[r].user /\ thr[r].pc = "revoke"
    BY <1>2, <2>1, SMT DEF Turns
  <2>3. pw[thr'[r].user] # None
    BY <1>1, <2>1, <2>2, Zenon DEF UsersInv
  <2>4. "create" # "bootstrap"  OBVIOUS
  <2> QED  BY <1>1, <1>2, <1>6, <2>3, <2>4, UsersTurn, Zenon DEF storeVars
<1>10. SessionsInv'
  <2>1. UNCHANGED pw  BY <1>6 DEF storeVars
  <2>2. ASSUME NEW s \in Sids, NEW x \in Requests, s \notin gone, mem[s] # None, At(x, "revoke"),
               thr[x].user = mem[s].user
        PROVE  At(x, "revoke")' /\ thr'[x].user = thr[x].user
    <3>1. x # r  BY <1>5, <2>2, Zenon
    <3> QED  BY <1>2, <2>2, <3>1, Zenon DEF Turns, At
  <2> QED  BY <1>1, <1>4, <1>5, <2>1, <2>2, EndSessionsKeeps, Zenon
<1>11. TokensInv'
  <2>1. "create" \notin {"record", "note"}  OBVIOUS
  <2>2. (byHash \cap revoked)' = {}  BY <1>1, <1>6, Zenon DEF storeVars, TokensInv
  <2> QED  BY <1>1, <1>2, <2>1, <2>2, TokensTurn, Zenon
<1>12. GuessInv'
  <2>1. {"revoke", "create"} \cap {"compare", "wrong"} = {}  OBVIOUS
  <2> QED  BY <1>1, <1>2, <1>6, <2>1, GuessTurn, Zenon
<1> QED  BY <1>8, <1>9, <1>10, <1>11, <1>12, Zenon DEF AuthInv

LEMMA CreateSessionKeeps ==
    ASSUME AuthInv, NEW r \in Requests, NEW s \in Sids, CreateSession(r, s)
    PROVE  AuthInv'
<1>1. AuthTypes /\ UsersInv /\ SessionsInv /\ TokensInv /\ GuessInv
  BY Zenon DEF AuthInv
<1>2. Turns(r, "create", "rest")
  BY <1>1, ClosingTurns, Zenon
<1>3. PICK e \in SessionEntries : e = NewSession(r) /\ (pw[e.user] # e.known => e.raced)
  <2>1. At(r, "create")  BY Zenon DEF CreateSession
  <2> QED  BY <1>1, <2>1, NewSessionType, Zenon
<1>4. \/ mem' = [mem EXCEPT ![s] = e] /\ stored' = [stored EXCEPT ![s] = e]
      \/ UNCHANGED <<mem, stored>>
  BY <1>3, Zenon DEF CreateSession
<1>5. UNCHANGED <<storeVars, lockVars, svcMu, clock, revoked, out, undeleted>> /\ s \notin out /\ UNCHANGED pw
  BY Zenon DEF CreateSession, storeVars
<1>6. aFaults' \in 0..AuthMaxFaults
  BY <1>1, AuthTypeParts, FaultTypes, Zenon DEF CreateSession
<1>7. SessionTypes /\ s \notin undeleted
  BY <1>1, <1>5, AuthTypeParts, SMT DEF SessionTypes
<1>8. \A t \in Sids : \/ mem'[t] = mem[t] /\ stored'[t] = stored[t]
                      \/ t = s /\ mem'[t] = e /\ stored'[t] = e
  BY <1>4, <1>7, SMT DEF SessionTypes
<1>9. AuthTypes'
  <2>1. StoreTypes' /\ LockTypes'
    BY <1>1, <1>5, AuthTypeParts, Zenon DEF StoreTypes, LockTypes, storeVars, lockVars
  <2>2. EnvTypes'
    BY <1>1, <1>5, <1>6, AuthTypeParts, Zenon DEF EnvTypes
  <2>3. mem' \in [Sids -> SessionEntries \cup {None}] /\ stored' \in [Sids -> SessionEntries \cup {None}]
    BY <1>4, <1>7, SMT DEF SessionTypes
  <2>4. SessionTypes'
    BY <1>5, <1>7, <2>3, Zenon DEF SessionTypes
  <2> QED  BY <1>2, <2>1, <2>2, <2>4, TurnKeepsTypes, Zenon
<1>10. UsersInv'
  <2>1. "rest" # "bootstrap" /\ "rest" \notin Compared  BY DEF Compared
  <2> QED  BY <1>1, <1>2, <1>5, <2>1, UsersTurn, Zenon
<1>11. SessionsInv'
  <2>1. SessionsMirror'
    BY <1>1, <1>5, <1>8, Zenon DEF SessionsInv, SessionsMirror
  <2>2. EndedStaysOut'
    <3>1. out \subseteq Sids  BY <1>7, SMT DEF SessionTypes
    <3> QED  BY <1>1, <1>5, <1>8, <3>1, SMT DEF SessionsInv, EndedStaysOut
  <2>3. ASSUME NEW t \in Sids, mem'[t] # None, mem'[t].known # pw'[mem'[t].user], ~mem'[t].raced, t \notin undeleted'
        PROVE  \E x \in Requests : At(x, "revoke")' /\ thr'[x].user = mem'[t].user
    <3>1. mem'[t] = mem[t]
      BY <1>3, <1>5, <1>8, <2>3, Zenon
    <3>2. PICK x \in Requests : At(x, "revoke") /\ thr[x].user = mem[t].user
      BY <1>1, <1>5, <2>3, <3>1, Zenon DEF SessionsInv, OldPasswordLoggedOut
    <3>3. x # r
      <4>1. "revoke" # "create"  OBVIOUS
      <4> QED  BY <1>2, <3>2, <4>1, Zenon DEF Turns, At
    <3> QED  BY <1>2, <3>1, <3>2, <3>3, Zenon DEF Turns, At
  <2>4. OldPasswordLoggedOut'
    BY <2>3, Zenon DEF OldPasswordLoggedOut
  <2> QED  BY <2>1, <2>2, <2>4, Zenon DEF SessionsInv
<1>12. TokensInv'
  <2>1. "rest" \notin {"record", "note"}  OBVIOUS
  <2>2. (byHash \cap revoked)' = {}  BY <1>1, <1>5, Zenon DEF storeVars, TokensInv
  <2> QED  BY <1>1, <1>2, <2>1, <2>2, TokensTurn, Zenon
<1>13. GuessInv'
  <2>1. {"create", "rest"} \cap {"compare", "wrong"} = {}  OBVIOUS
  <2> QED  BY <1>1, <1>2, <1>5, <2>1, GuessTurn, Zenon
<1> QED  BY <1>9, <1>10, <1>11, <1>12, <1>13, Zenon DEF AuthInv

LEMMA SetPasswordKeeps ==
    ASSUME AuthInv, NEW r \in Requests, SetPassword(r)
    PROVE  AuthInv'
<1>1. AuthTypes /\ UsersInv /\ SessionsInv /\ TokensInv /\ GuessInv
  BY Zenon DEF AuthInv
<1>2. Turns(r, "set", "revoke") \/ (Turns(r, "set", "rest") /\ UNCHANGED pw)
  BY <1>1, MiddleTurns, Zenon
<1>3. thr[r].pc = "set"
  BY <1>2, Zenon DEF Turns
<1>4. PICK u \in Users, p \in Passwords : u = thr[r].user /\ p = thr[r].new
  <2>1. thr[r] \in AuthThreads  BY <1>1, SMT DEF AuthTypes
  <2>2. "set" \in AccountPcs  BY DEF AccountPcs, Compared
  <2> QED  BY <1>3, <2>1, <2>2, ThreadParts, Zenon
<1>5. pw' = [pw EXCEPT ![u] = p] \/ UNCHANGED pw
  BY <1>4, Zenon DEF SetPassword
<1>6. pw[u] # None
  <2>1. "set" \in Compared  BY DEF Compared
  <2> QED  BY <1>1, <1>3, <1>4, <2>1, Zenon DEF UsersInv
<1>7. pw \in [Users -> Passwords \cup {None}]
  BY <1>1, Zenon DEF AuthTypes, AuthTypeOK
<1>8. UNCHANGED <<rec, byHash, sessionVars, lockVars, svcMu, clock, revoked>>
  BY Zenon DEF SetPassword
<1>9. \A v \in Users : (pw'[v] # None <=> pw[v] # None) /\ (v # u => pw'[v] = pw[v])
  BY <1>5, <1>6, <1>7, AuthNoneAssumption, SMT
<1>10. PICK to \in {"revoke", "rest"} : Turns(r, "set", to)
  BY <1>2
<1>11. AuthTypes'
  <2>1. StoreTypes'
    <3>1. pw' \in [Users -> Passwords \cup {None}]  BY <1>5, <1>7, SMT
    <3> QED  BY <1>1, <1>8, <3>1, AuthTypeParts, Zenon DEF StoreTypes
  <2>2. SessionTypes' /\ LockTypes'
    BY <1>1, <1>8, AuthTypeParts, Zenon DEF SessionTypes, LockTypes, sessionVars, lockVars
  <2>3. aFaults' \in 0..AuthMaxFaults
    BY <1>1, AuthTypeParts, FaultTypes, Zenon DEF SetPassword
  <2>4. EnvTypes'
    BY <1>1, <1>8, <2>3, AuthTypeParts, Zenon DEF EnvTypes
  <2> QED  BY <1>10, <2>1, <2>2, <2>4, TurnKeepsTypes, Zenon
<1>12. UsersInv'
  <2>1. \A x \in Requests : ~At(x, "bootstrap")
    BY <1>1, <1>6, Zenon DEF UsersInv, HasUsers
  <2>2. \A x \in Requests : ~At(x, "bootstrap")'
    <3>1. to # "bootstrap"  BY <1>10
    <3> QED  BY <1>10, <2>1, <3>1, Zenon DEF Turns, At
  <2>3. ASSUME NEW x \in Requests, thr'[x].pc \in Compared PROVE pw'[thr'[x].user] # None
    <3>1. CASE x = r
      <4>1. "rest" \notin Compared /\ {"set", "revoke"} \subseteq AccountPcs  BY DEF AccountPcs, Compared
      <4>2. thr'[r].user = u
        BY <1>4, <1>10, <2>3, <3>1, <4>1, SMT DEF Turns
      <4> QED  BY <1>6, <1>9, <3>1, <4>2, Zenon
    <3>2. CASE x # r
      <4>1. thr'[x] = thr[x]  BY <1>10, <3>2, Zenon DEF Turns
      <4>2. thr[x] \in AuthThreads  BY <1>1, SMT DEF AuthTypes
      <4>3. thr[x].user \in Users  BY <2>3, <4>1, <4>2, ThreadParts, Zenon DEF AccountPcs
      <4> QED  BY <1>1, <1>9, <2>3, <4>1, <4>3, Zenon DEF UsersInv
    <3> QED  BY <3>1, <3>2
  <2>4. \A v, w \in Users : pw'[v] # None /\ pw'[w] # None => v = w
    BY <1>1, <1>9, Zenon DEF UsersInv
  <2> QED  BY <2>2, <2>3, <2>4, Zenon DEF UsersInv
<1>13. SessionsInv'
  <2>1. SessionsMirror' /\ EndedStaysOut'
    BY <1>1, <1>8, SMT DEF SessionsInv, SessionsMirror, EndedStaysOut, sessionVars
  <2>2. UNCHANGED <<mem, undeleted>>  BY <1>8 DEF sessionVars
  <2>3. ASSUME NEW s \in Sids, mem[s] # None, mem[s].known # pw'[mem[s].user], ~mem[s].raced, s \notin undeleted
        PROVE  \E x \in Requests : At(x, "revoke")' /\ thr'[x].user = mem[s].user
    <3>1. mem[s].user \in Users
      <4>1. mem[s] \in SessionEntries  BY <1>1, <2>3, SMT DEF AuthTypes, AuthTypeOK
      <4> QED  BY <4>1, SMT DEF SessionEntries
    <3>2. CASE mem[s].known # pw[mem[s].user]
      <4>1. PICK x \in Requests : At(x, "revoke") /\ thr[x].user = mem[s].user
        BY <1>1, <2>3, <3>2, Zenon DEF SessionsInv, OldPasswordLoggedOut
      <4>2. x # r  BY <1>3, <4>1 DEF At
      <4> QED  BY <1>10, <4>1, <4>2, Zenon DEF Turns, At
    <3>3. CASE mem[s].known = pw[mem[s].user]
      <4>1. pw'[mem[s].user] # pw[mem[s].user]  BY <2>3, <3>3
      <4>2. mem[s].user = u /\ ~(UNCHANGED pw)  BY <1>9, <3>1, <4>1
      <4>3. Turns(r, "set", "revoke")  BY <1>2, <4>2
      <4>4. {"set", "revoke"} \subseteq AccountPcs  BY DEF AccountPcs, Compared
      <4>5. thr'[r].user = u  BY <1>4, <4>3, <4>4, SMT DEF Turns
      <4> QED  BY <4>2, <4>3, <4>5, Zenon DEF Turns, At
    <3> QED  BY <3>2, <3>3
  <2>4. OldPasswordLoggedOut'
    BY <2>2, <2>3, Zenon DEF OldPasswordLoggedOut
  <2> QED  BY <2>1, <2>4, Zenon DEF SessionsInv
<1>14. TokensInv'
  <2>1. to \notin {"record", "note"}  BY <1>10
  <2>2. (byHash \cap revoked)' = {}  BY <1>1, <1>8, Zenon DEF TokensInv
  <2> QED  BY <1>1, <1>10, <2>1, <2>2, TokensTurn, Zenon
<1>15. GuessInv'
  <2>1. {"set", to} \cap {"compare", "wrong"} = {}  BY <1>10
  <2> QED  BY <1>1, <1>8, <1>10, <2>1, GuessTurn, Zenon
<1> QED  BY <1>11, <1>12, <1>13, <1>14, <1>15, Zenon DEF AuthInv

-----------------------------------------------------------------------------
(* Tokens.                                                                 *)

\* A step of a request about a token: passwords, sessions and lockouts stay as
\* they are.
LEMMA TokenTurnKeeps ==
    ASSUME AuthInv, NEW r \in Requests, NEW from \in {"rest", "record", "note", "delete", "unhash"},
           NEW to \in {"rest", "record", "note", "delete", "unhash"}, Turns(r, from, to),
           UNCHANGED <<pw, sessionVars, lockVars, svcMu, clock>>,
           rec' \subseteq Tokens, byHash' \subseteq Tokens, revoked' \subseteq Tokens,
           aFaults' \in 0..AuthMaxFaults,
           (byHash \cap revoked)' = {}, to \in {"record", "note"} => thr'[r].late = FALSE
    PROVE  AuthInv'
<1>1. AuthTypes /\ UsersInv /\ SessionsInv /\ TokensInv /\ GuessInv
  BY Zenon DEF AuthInv
<1>2. AuthTypes'
  <2>1. StoreTypes' /\ EnvTypes'
    BY <1>1, AuthTypeParts, Zenon DEF StoreTypes, EnvTypes
  <2>2. SessionTypes' /\ LockTypes'
    BY <1>1, AuthTypeParts, Zenon DEF SessionTypes, LockTypes, sessionVars, lockVars
  <2> QED  BY <2>1, <2>2, TurnKeepsTypes, Zenon
<1>3. UsersInv'
  <2>1. to # "bootstrap" /\ to \notin Compared  BY DEF Compared
  <2> QED  BY <1>1, <2>1, UsersTurn, Zenon
<1>4. SessionsInv'
  <2>1. from # "revoke"  OBVIOUS
  <2> QED  BY <1>1, <2>1, SessionsTurn, Zenon
<1>5. TokensInv'  BY <1>1, TokensTurn, Zenon
<1>6. GuessInv'
  <2>1. {from, to} \cap {"compare", "wrong"} = {}  OBVIOUS
  <2> QED  BY <1>1, <2>1, GuessTurn, Zenon
<1> QED  BY <1>2, <1>3, <1>4, <1>5, <1>6, Zenon DEF AuthInv

LEMMA TokenThread ==
    ASSUME AuthTypes, NEW r \in Requests, thr[r].pc \in {"record", "note", "delete", "unhash"}
    PROVE  thr[r].token \in Tokens
<1>1. thr[r] \in AuthThreads  BY SMT DEF AuthTypes
<1> QED  BY <1>1, ThreadParts, Zenon

LEMMA BearersKeep ==
    ASSUME AuthInv, NEW r \in Requests,
           (\E k \in Tokens : BearerHash(r, k) \/ RevokeGet(r, k)) \/ BearerRecord(r) \/ BearerNote(r)
    PROVE  AuthInv'
<1>1. AuthTypes /\ TokensInv /\ rec \subseteq Tokens /\ byHash \subseteq Tokens /\ revoked \subseteq Tokens
      /\ aFaults \in 0..AuthMaxFaults /\ EnvTypes
  BY AuthTypeParts, Zenon DEF AuthInv, StoreTypes, EnvTypes
<1>2. ASSUME NEW k \in Tokens, BearerHash(r, k) PROVE AuthInv'
  <2>1. Turns(r, "rest", "record") /\ (thr'[r].late = TRUE => k \in revoked)
    BY <1>1, <1>2, OpeningTurns, Zenon
  <2>2. k \notin revoked
    BY <1>1, <1>2, Zenon DEF BearerHash, TokensInv
  <2>3. thr'[r].late = FALSE
    <3>1. thr'[r] \in Bearers
      <4>1. thr'[r] \in AuthThreads /\ thr'[r].pc = "record"  BY <2>1, SMT DEF Turns
      <4> QED
        BY <4>1, SMT DEF AuthThreads, Resting, Bootstraps, Logins, PasswordChanges, Revokers, Compared
    <3>2. thr'[r].late \in BOOLEAN  BY <3>1, SMT DEF Bearers
    <3> QED  BY <2>1, <2>2, <3>2, Zenon
  <2>4. /\ UNCHANGED <<pw, sessionVars, lockVars, svcMu, clock>>
        /\ UNCHANGED <<rec, byHash, revoked, aFaults>>
    BY <1>2, Zenon DEF BearerHash, storeVars
  <2>5. (byHash \cap revoked)' = {}  BY <1>1, <2>4, Zenon DEF TokensInv
  <2> QED  BY <1>1, <2>1, <2>3, <2>4, <2>5, TokenTurnKeeps, Zenon
<1>3. ASSUME NEW k \in Tokens, RevokeGet(r, k) PROVE AuthInv'
  <2>1. Turns(r, "rest", "delete") /\ "delete" \notin {"record", "note"}
    BY <1>1, <1>3, OpeningTurns, Zenon
  <2>2. /\ UNCHANGED <<pw, sessionVars, lockVars, svcMu, clock>>
        /\ UNCHANGED <<rec, byHash, revoked, aFaults>>
    BY <1>3, Zenon DEF RevokeGet, storeVars
  <2>3. (byHash \cap revoked)' = {}  BY <1>1, <2>2, Zenon DEF TokensInv
  <2> QED  BY <1>1, <2>1, <2>2, <2>3, TokenTurnKeeps, Zenon
<1>4. ASSUME BearerRecord(r) PROVE AuthInv'
  <2>1. /\ UNCHANGED <<pw, sessionVars, lockVars, svcMu, clock>>
        /\ UNCHANGED <<rec, byHash, revoked, aFaults>>
    BY <1>4, Zenon DEF BearerRecord, storeVars
  <2>2. (byHash \cap revoked)' = {}  BY <1>1, <2>1, Zenon DEF TokensInv
  <2>3. CASE Turns(r, "record", "note") /\ thr'[r].late = thr[r].late
    <3>1. thr'[r].late = FALSE  BY <1>1, <2>3, Zenon DEF Turns, TokensInv
    <3> QED  BY <1>1, <2>1, <2>2, <2>3, <3>1, TokenTurnKeeps, Zenon
  <2>4. CASE Turns(r, "record", "rest")
    <3>1. "rest" \notin {"record", "note"}  OBVIOUS
    <3> QED  BY <1>1, <2>1, <2>2, <2>4, <3>1, TokenTurnKeeps, Zenon
  <2> QED  BY <1>1, <1>4, <2>3, <2>4, MiddleTurns, Zenon
<1>5. ASSUME BearerNote(r) PROVE AuthInv'
  <2>1. Turns(r, "note", "rest") /\ "rest" \notin {"record", "note"}
    BY <1>1, <1>5, ClosingTurns, Zenon
  <2>2. thr[r].token \in Tokens
    <3>1. thr[r].pc = "note"  BY <2>1, Zenon DEF Turns
    <3> QED  BY <1>1, <3>1, TokenThread, Zenon
  <2>3. rec' \subseteq Tokens
    <3>1. rec' = rec \cup {thr[r].token} \/ rec' = rec  BY <1>5, Zenon DEF BearerNote
    <3> QED  BY <1>1, <2>2, <3>1
  <2>4. UNCHANGED <<pw, sessionVars, lockVars, svcMu, clock>> /\ UNCHANGED <<byHash, revoked>>
    BY <1>5, Zenon DEF BearerNote
  <2>5. aFaults' \in 0..AuthMaxFaults
    BY <1>1, <1>5, FaultTypes, Zenon DEF BearerNote
  <2>6. (byHash \cap revoked)' = {}  BY <1>1, <2>4, Zenon DEF TokensInv
  <2> QED  BY <1>1, <2>1, <2>3, <2>4, <2>5, <2>6, TokenTurnKeeps, Zenon
<1> QED  BY <1>2, <1>3, <1>4, <1>5, Zenon

LEMMA RevokeKeeps ==
    ASSUME AuthInv, NEW r \in Requests, RevokeRecord(r) \/ RevokeHash(r)
    PROVE  AuthInv'
<1>1. AuthTypes /\ TokensInv /\ rec \subseteq Tokens /\ byHash \subseteq Tokens /\ revoked \subseteq Tokens
      /\ aFaults \in 0..AuthMaxFaults /\ EnvTypes
  BY AuthTypeParts, Zenon DEF AuthInv, StoreTypes, EnvTypes
<1>2. ASSUME RevokeRecord(r) PROVE AuthInv'
  <2>1. Turns(r, "delete", "unhash") /\ "unhash" \notin {"record", "note"}
    BY <1>1, <1>2, MiddleTurns, Zenon
  <2>2. /\ UNCHANGED <<pw, sessionVars, lockVars, svcMu, clock>>
        /\ UNCHANGED <<byHash, revoked, aFaults>>
    BY <1>2, Zenon DEF RevokeRecord
  <2>3. rec' = rec \ {thr[r].token}  BY <1>2, Zenon DEF RevokeRecord
  <2>4. rec' \subseteq Tokens  BY <1>1, <2>3
  <2>5. (byHash \cap revoked)' = {}  BY <1>1, <2>2, Zenon DEF TokensInv
  <2> QED  BY <1>1, <2>1, <2>2, <2>4, <2>5, TokenTurnKeeps, Zenon
<1>3. ASSUME RevokeHash(r) PROVE AuthInv'
  <2>1. Turns(r, "unhash", "rest") /\ "rest" \notin {"record", "note"}
    BY <1>1, <1>3, ClosingTurns, Zenon
  <2>2. thr[r].token \in Tokens
    <3>1. thr[r].pc = "unhash"  BY <2>1, Zenon DEF Turns
    <3> QED  BY <1>1, <3>1, TokenThread, Zenon
  <2>3. \/ byHash' = byHash \ {thr[r].token} /\ revoked' = revoked \cup {thr[r].token}
        \/ UNCHANGED <<byHash, revoked>>
    BY <1>3, Zenon DEF RevokeHash
  <2>4. UNCHANGED <<pw, sessionVars, lockVars, svcMu, clock>> /\ UNCHANGED rec
    BY <1>3, Zenon DEF RevokeHash
  <2>5. aFaults' \in 0..AuthMaxFaults
    BY <1>1, <1>3, FaultTypes, Zenon DEF RevokeHash
  <2>6. byHash' \subseteq Tokens /\ revoked' \subseteq Tokens
    BY <1>1, <2>2, <2>3
  <2>7. (byHash \cap revoked)' = {}
    <3>1. byHash \cap revoked = {}  BY <1>1, Zenon DEF TokensInv
    <3> QED  BY <2>3, <3>1
  <2> QED  BY <1>1, <2>1, <2>4, <2>5, <2>6, <2>7, TokenTurnKeeps, Zenon
<1> QED  BY <1>2, <1>3

LEMMA CreateTokenKeeps ==
    ASSUME AuthInv, NEW k \in Tokens, CreateToken(k)
    PROVE  AuthInv'
<1>1. AuthTypes /\ UsersInv /\ SessionsInv /\ TokensInv /\ GuessInv
  BY Zenon DEF AuthInv
<1>2. UNCHANGED <<pw, sessionVars, lockVars, svcMu, thr, clock, revoked>>
  BY Zenon DEF CreateToken
<1>3. rec' = rec \cup {k} /\ byHash' \subseteq byHash \cup {k} /\ k \notin revoked
  BY Zenon DEF CreateToken
<1>4. AuthTypes'
  <2>1. rec' \subseteq Tokens /\ byHash' \subseteq Tokens
    <3>1. rec \subseteq Tokens /\ byHash \subseteq Tokens  BY <1>1, Zenon DEF AuthTypes, AuthTypeOK
    <3> QED  BY <1>3, <3>1
  <2>2. aFaults' \in 0..AuthMaxFaults
    BY <1>1, AuthTypeParts, FaultTypes, Zenon DEF CreateToken
  <2> QED  BY <1>1, <1>2, <2>1, <2>2, Zenon DEF AuthTypes, AuthTypeOK, sessionVars, lockVars
<1>5. TokensInv'
  <2>1. byHash \cap revoked = {}  BY <1>1, Zenon DEF TokensInv
  <2>2. (byHash \cap revoked)' = {}  BY <1>2, <1>3, <2>1
  <2> QED  BY <1>1, <1>2, <2>2, TokensStay, Zenon
<1>6. UsersInv'  BY <1>1, <1>2, UsersStay, Zenon
<1>7. SessionsInv'  BY <1>1, <1>2, SessionsStay, Zenon
<1>8. GuessInv'  BY <1>1, <1>2, GuessStay, Zenon
<1> QED  BY <1>4, <1>5, <1>6, <1>7, <1>8, Zenon DEF AuthInv

-----------------------------------------------------------------------------
(* Restart and time.                                                       *)

\* With no request anywhere and no failure counted nobody has guessed too often.
LEMMA NoGuesses ==
    ASSUME NEW u \in Users, locked'[u] = 0, fails'[u] = 0, guesses'[u] = 0
    PROVE  GuessesOK(u)'
<1>1. AtFor("wrong", u)' \subseteq Requests
  BY DEF AtFor
<1>2. IsFiniteSet(AtFor("wrong", u)')
  BY <1>1, AuthNumbersAssumption, FS_Subset, Zenon
<1>3. PICK w \in Nat : w = Cardinality(AtFor("wrong", u)')
  BY <1>2, FS_CardinalityType, Zenon
<1>4. PICK c : c = Cardinality(AtFor("compare", u)')  OBVIOUS
<1>5. WithinLimit(0, 0, 0, c, w)
  BY <1>3, AuthNumbersAssumption, SMT DEF WithinLimit
<1> QED  BY <1>3, <1>4, <1>5, GuessesAre, Zenon

LEMMA AuthRestartKeeps ==
    ASSUME AuthInv, AuthRestart
    PROVE  AuthInv'
<1>1. AuthTypes /\ UsersInv /\ SessionsInv /\ TokensInv /\ GuessInv
  BY Zenon DEF AuthInv
<1>2. PICK cut : cut = {s \in Sids : \E r \in Requests :
                         At(r, "revoke") /\ stored[s] # None /\ stored[s].user = thr[r].user}
  OBVIOUS
<1>3. PICK back : back = [s \in Sids |-> IF stored[s] # None /\ clock <= stored[s].until THEN stored[s] ELSE None]
  OBVIOUS
<1>4. /\ mem' = [s \in Sids |-> IF s \in cut /\ back[s] # None THEN [back[s] EXCEPT !.raced = TRUE] ELSE back[s]]
      /\ stored' = mem'
  BY <1>2, <1>3, Zenon DEF AuthRestart
<1>5. /\ UNCHANGED <<storeVars, clock, revoked, out, undeleted>>
      /\ fails' = [u \in Users |-> 0] /\ locked' = [u \in Users |-> 0] /\ guesses' = [u \in Users |-> 0]
      /\ svcMu' = None /\ thr' = [r \in Requests |-> Resting]
  BY Zenon DEF AuthRestart
<1>6. stored \in [Sids -> SessionEntries \cup {None}]
  BY <1>1, Zenon DEF AuthTypes, AuthTypeOK
\* A session is back as it was stored, or marked.
<1>7. ASSUME NEW s \in Sids
      PROVE  /\ mem'[s] \in SessionEntries \cup {None}
             /\ stored[s] = None => mem'[s] = None
             /\ \/ mem'[s] = None
                \/ mem'[s] = stored[s] /\ s \notin cut
                \/ mem'[s].raced = TRUE
  <2>1. back[s] = stored[s] \/ back[s] = None
    BY <1>3
  <2>2. CASE s \in cut /\ back[s] # None
    <3>1. PICK e \in SessionEntries : e = back[s]
      BY <1>6, <2>1, <2>2
    <3>2. PICK t \in BOOLEAN : t = TRUE  OBVIOUS
    <3>3. PICK f : f = [e EXCEPT !.raced = t]  OBVIOUS
    <3>4. f \in SessionEntries /\ f.raced = t
      BY <3>3, SMT DEF SessionEntries
    <3>5. mem'[s] = f
      BY <1>4, <2>2, <3>1, <3>2, <3>3, Zenon
    <3>6. stored[s] # None  BY <2>1, <2>2
    <3> QED  BY <3>2, <3>4, <3>5, <3>6, Zenon
  <2>3. CASE s \notin cut \/ back[s] = None
    <3>1. mem'[s] = back[s]
      BY <1>4, <2>3, SMT
    <3>2. stored[s] \in SessionEntries \cup {None}  BY <1>6
    <3>3. mem'[s] \in SessionEntries \cup {None}  BY <2>1, <3>1, <3>2, Zenon
    <3>4. stored[s] = None => mem'[s] = None  BY <2>1, <3>1
    <3>5. CASE back[s] = None
      <4>1. mem'[s] = None  BY <3>1, <3>5
      <4> QED  BY <3>3, <4>1, Zenon
    <3>6. CASE back[s] # None
      <4>1. s \notin cut /\ mem'[s] = stored[s]  BY <2>1, <2>3, <3>1, <3>6
      <4> QED  BY <3>3, <3>4, <4>1, Zenon
    <3> QED  BY <3>5, <3>6, Zenon
  <2> QED  BY <2>2, <2>3, Zenon
<1>8. AuthTypes'
  <2>1. mem' \in [Sids -> SessionEntries \cup {None}]
    <3>1. mem' = [s \in Sids |-> mem'[s]]  BY <1>4
    <3>2. \A s \in Sids : mem'[s] \in SessionEntries \cup {None}  BY <1>7, Zenon
    <3> QED  BY <3>1, <3>2
  <2>2. SessionTypes'
    BY <1>1, <1>4, <1>5, <2>1, AuthTypeParts, Zenon DEF SessionTypes
  <2>3. LockTypes'
    BY <1>5, AuthNumbersAssumption, SMT DEF LockTypes
  <2>4. StoreTypes'
    BY <1>1, <1>5, AuthTypeParts, Zenon DEF StoreTypes, storeVars
  <2>5. EnvTypes'
    <3>1. aFaults' \in 0..AuthMaxFaults
      BY <1>1, AuthTypeParts, FaultTypes, Zenon DEF AuthRestart
    <3> QED  BY <1>1, <1>5, <3>1, AuthTypeParts, Zenon DEF EnvTypes
  <2>6. thr' \in [Requests -> AuthThreads]
    BY <1>5, SMT DEF AuthThreads
  <2> QED  BY <2>2, <2>3, <2>4, <2>5, <2>6, Zenon
           DEF AuthTypes, AuthTypeOK, StoreTypes, SessionTypes, LockTypes, EnvTypes
<1>9. \A r \in Requests : thr'[r].pc = "rest"
  BY <1>5, SMT DEF Resting
<1>10. UsersInv'
  <2>1. "rest" # "bootstrap" /\ "rest" \notin Compared  BY DEF Compared
  <2>2. \A u, v \in Users : pw'[u] # None /\ pw'[v] # None => u = v
    BY <1>1, <1>5, Zenon DEF UsersInv, storeVars
  <2> QED  BY <1>9, <2>1, <2>2, Zenon DEF UsersInv, At
<1>11. SessionsInv'
  <2>1. SessionsMirror'
    BY <1>4, Zenon DEF SessionsMirror
  <2>2. EndedStaysOut'
    <3>1. out \subseteq Sids  BY <1>1, Zenon DEF AuthTypes, AuthTypeOK
    <3>2. \A s \in out \ undeleted : mem[s] = None /\ stored[s] = None
      BY <1>1, Zenon DEF SessionsInv, EndedStaysOut
    <3>3. \A s \in Sids : stored[s] = None => mem'[s] = None  BY <1>7, Zenon
    <3> QED  BY <1>4, <1>5, <3>1, <3>2, <3>3, SMT DEF EndedStaysOut
  <2>3. ASSUME NEW s \in Sids, mem'[s] # None, mem'[s].known # pw'[mem'[s].user], ~mem'[s].raced, s \notin undeleted'
        PROVE  FALSE
    <3>1. mem'[s] = stored[s] /\ s \notin cut
      BY <1>7, <2>3, Zenon
    <3>2. mem[s] = stored[s]
      BY <1>1, <1>5, <2>3, <3>1, Zenon DEF SessionsInv, SessionsMirror
    <3>3. pw' = pw  BY <1>5 DEF storeVars
    <3>4. PICK x \in Requests : At(x, "revoke") /\ thr[x].user = mem[s].user
      BY <1>1, <1>5, <2>3, <3>1, <3>2, <3>3, Zenon DEF SessionsInv, OldPasswordLoggedOut
    <3> QED  BY <1>2, <2>3, <3>1, <3>2, <3>4, Zenon
  <2>4. OldPasswordLoggedOut'
    BY <2>3, Zenon DEF OldPasswordLoggedOut
  <2> QED  BY <2>1, <2>2, <2>4, Zenon DEF SessionsInv
<1>12. TokensInv'
  <2>1. "rest" \notin {"record", "note"}  OBVIOUS
  <2>2. (byHash \cap revoked)' = {}  BY <1>1, <1>5, Zenon DEF TokensInv, storeVars
  <2> QED  BY <1>9, <2>1, <2>2, Zenon DEF TokensInv
<1>13. GuessInv'
  <2>1. \A u \in Users : locked'[u] = 0 /\ fails'[u] = 0 /\ guesses'[u] = 0
    BY <1>5
  <2> QED  BY <2>1, NoGuesses, Zenon DEF GuessInv
<1> QED  BY <1>8, <1>10, <1>11, <1>12, <1>13, Zenon DEF AuthInv

LEMMA AuthTickKeeps ==
    ASSUME AuthInv, AuthTick
    PROVE  AuthInv'
<1>1. AuthTypes /\ UsersInv /\ SessionsInv /\ TokensInv /\ GuessInv
  BY Zenon DEF AuthInv
<1>2. UNCHANGED <<storeVars, sessionVars, lockVars, svcMu, thr, aFaults, revoked>> /\ UNCHANGED pw
  BY Zenon DEF AuthTick, storeVars
<1>3. clock' \in 0..AuthMaxTime
  <2>1. clock \in 0..AuthMaxTime  BY <1>1, Zenon DEF AuthTypes, AuthTypeOK
  <2> QED  BY <2>1, AuthNumbersAssumption, SMT DEF AuthTick
<1>4. AuthTypes'
  BY <1>1, <1>2, <1>3, Zenon DEF AuthTypes, AuthTypeOK, storeVars, sessionVars, lockVars
<1>5. TokensInv'
  <2>1. (byHash \cap revoked)' = {}  BY <1>1, <1>2, Zenon DEF TokensInv, storeVars
  <2> QED  BY <1>1, <1>2, <2>1, TokensStay, Zenon
<1>6. UsersInv'  BY <1>1, <1>2, UsersStay, Zenon
<1>7. SessionsInv'  BY <1>1, <1>2, SessionsStay, Zenon
<1>8. GuessInv'  BY <1>1, <1>2, GuessStay, Zenon
<1> QED  BY <1>4, <1>5, <1>6, <1>7, <1>8, Zenon DEF AuthInv

-----------------------------------------------------------------------------
(* What the authentication routes guarantee.                               *)

LEMMA AuthStart == AuthInit => AuthInv
<1> SUFFICES ASSUME AuthInit PROVE AuthInv
  OBVIOUS
<1>1. \A r \in Requests : thr[r] = Resting /\ thr[r].pc = "rest"
  BY SMT DEF AuthInit, Resting
<1>2. \A s \in Sids : mem[s] = None /\ stored[s] = None
  BY SMT DEF AuthInit
<1>3. AuthTypes
  <2>1. thr \in [Requests -> AuthThreads]  BY SMT DEF AuthInit, AuthThreads
  <2>2. StoreTypes  BY SMT DEF AuthInit, StoreTypes
  <2>3. SessionTypes  BY SMT DEF AuthInit, SessionTypes
  <2>4. LockTypes  BY AuthNumbersAssumption, SMT DEF AuthInit, LockTypes
  <2>5. EnvTypes  BY AuthNumbersAssumption, SMT DEF AuthInit, EnvTypes
  <2> QED  BY <2>1, <2>2, <2>3, <2>4, <2>5, AuthTypeParts, Zenon
<1>4. UsersInv
  <2>1. "rest" # "bootstrap" /\ "rest" \notin Compared  BY DEF Compared
  <2>2. \A u \in Users : pw[u] = None  BY SMT DEF AuthInit
  <2> QED  BY <1>1, <2>1, <2>2, Zenon DEF UsersInv, At
<1>5. SessionsInv
  <2>1. SessionsMirror  BY <1>2, Zenon DEF SessionsMirror
  <2>2. EndedStaysOut  BY SMT DEF AuthInit, EndedStaysOut
  <2>3. OldPasswordLoggedOut  BY <1>2, Zenon DEF OldPasswordLoggedOut
  <2> QED  BY <2>1, <2>2, <2>3, Zenon DEF SessionsInv
<1>6. TokensInv
  <2>1. "rest" \notin {"record", "note"}  OBVIOUS
  <2>2. byHash \cap revoked = {}  BY SMT DEF AuthInit
  <2> QED  BY <1>1, <2>1, <2>2, Zenon DEF TokensInv
<1>7. GuessInv
  <2> SUFFICES ASSUME NEW u \in Users PROVE GuessesOK(u)
    BY Zenon DEF GuessInv
  <2>1. locked[u] = 0 /\ fails[u] = 0 /\ guesses[u] = 0  BY SMT DEF AuthInit
  <2>2. PICK w \in Nat : w = Cardinality(AtFor("wrong", u))  BY AtForFinite, Zenon
  <2>3. PICK c : c = Cardinality(AtFor("compare", u))  OBVIOUS
  <2>4. WithinLimit(0, 0, 0, c, w)  BY <2>2, AuthNumbersAssumption, SMT DEF WithinLimit
  <2> QED  BY <2>1, <2>2, <2>3, <2>4, GuessesAre, Zenon
<1> QED  BY <1>3, <1>4, <1>5, <1>6, <1>7, Zenon DEF AuthInv

LEMMA AuthSteps == AuthInv /\ [AuthNext]_authVars => AuthInv'
<1> SUFFICES ASSUME AuthInv, [AuthNext]_authVars PROVE AuthInv'
  OBVIOUS
<1>1. CASE UNCHANGED authVars
  <2>1. /\ UNCHANGED <<storeVars, sessionVars, lockVars, svcMu, thr, clock, aFaults, revoked>>
        /\ UNCHANGED pw
    BY <1>1, Zenon DEF authVars, storeVars
  <2>2. AuthTypes /\ UsersInv /\ SessionsInv /\ TokensInv /\ GuessInv
    BY Zenon DEF AuthInv
  <2>3. AuthTypes'
    BY <2>1, <2>2, Zenon DEF AuthTypes, AuthTypeOK, storeVars, sessionVars, lockVars
  <2>4. TokensInv'
    <3>1. (byHash \cap revoked)' = {}  BY <2>1, <2>2, Zenon DEF TokensInv, storeVars
    <3> QED  BY <2>1, <2>2, <3>1, TokensStay, Zenon
  <2>5. UsersInv'  BY <2>1, <2>2, UsersStay, Zenon
  <2>6. SessionsInv'  BY <2>1, <2>2, SessionsStay, Zenon
  <2>7. GuessInv'  BY <2>1, <2>2, GuessStay, Zenon
  <2> QED  BY <2>3, <2>4, <2>5, <2>6, <2>7, Zenon DEF AuthInv
<1>2. ASSUME NEW r \in Requests, NEW u \in Users, NEW p \in Passwords,
             BootstrapCheck(r, u, p) \/ LoginStart(r, u, p)
      PROVE  AuthInv'
  BY <1>2, BootstrapCheckKeeps, LoginStartKeeps, Zenon
<1>3. ASSUME NEW r \in Requests, NEW s \in Sids, NEW p \in Passwords, NEW q \in Passwords, ChangeStart(r, s, p, q)
      PROVE  AuthInv'
  BY <1>3, ChangeStartKeeps, Zenon
<1>4. ASSUME NEW r \in Requests, NEW s \in Sids, CreateSession(r, s) PROVE AuthInv'
  BY <1>4, CreateSessionKeeps, Zenon
<1>5. ASSUME NEW r \in Requests, NEW k \in Tokens, BearerHash(r, k) \/ RevokeGet(r, k) PROVE AuthInv'
  BY <1>5, BearersKeep, Zenon
<1>6. ASSUME NEW r \in Requests,
             \/ BootstrapPut(r) \/ Compare(r) \/ RecordFailure(r) \/ ResetLock(r)
             \/ SetPassword(r) \/ RevokeSessionsForUser(r)
      PROVE  AuthInv'
  BY <1>6, BootstrapPutKeeps, CompareKeeps, RecordFailureKeeps, ResetLockKeeps, SetPasswordKeeps,
     RevokeSessionsKeeps, Zenon
<1>7. ASSUME NEW r \in Requests, BearerRecord(r) \/ BearerNote(r) \/ RevokeRecord(r) \/ RevokeHash(r)
      PROVE  AuthInv'
  BY <1>7, BearersKeep, RevokeKeeps, Zenon
<1>8. ASSUME NEW s \in Sids, Logout(s) \/ ValidateExpired(s) PROVE AuthInv'
  BY <1>8, OneEndedKeeps, Zenon DEF Logout, ValidateExpired
<1>9. CASE \E k \in Tokens : CreateToken(k)
  BY <1>9, CreateTokenKeeps, Zenon
<1>10. CASE \E u \in Users, p \in Passwords : EnsureAdmin(u, p)
  BY <1>10, EnsureAdminKeeps, Zenon
<1>11. CASE AuthRestart  BY <1>11, AuthRestartKeeps, Zenon
<1>12. CASE AuthTick  BY <1>12, AuthTickKeeps, Zenon
<1> QED
  BY <1>1, <1>2, <1>3, <1>4, <1>5, <1>6, <1>7, <1>8, <1>9, <1>10, <1>11, <1>12, Zenon DEF AuthNext

\* Users, sessions, tokens and lockouts keep their types; a failure counter
\* never exceeds the limit (lockoutTracker), and a session whose deletion
\* failed is one that was ended.
THEOREM AuthTypeCorrect == AuthSpec => []AuthTypeOK
<1>1. AuthInv => AuthTypeOK  BY Zenon DEF AuthInv, AuthTypes
<1> QED  BY <1>1, AuthStart, AuthSteps, PTL DEF AuthSpec

\* Credentials that were ended are refused, whatever requests interleave and
\* whatever fails or restarts: RevokeSessionsForUser ends the sessions of the
\* old password, Revoke and Validate end theirs for good unless the store kept
\* them, and RevokeToken leaves no hash behind.
THEOREM EndedAreRefused == AuthSpec => []EndedCredentialsRefused
<1>1. AuthInv => EndedCredentialsRefused
  <2>1. TokensInv => RevokedRefused  BY Zenon DEF TokensInv, RevokedRefused, At
  <2> QED  BY <2>1, Zenon DEF AuthInv, SessionsInv, EndedCredentialsRefused
<1> QED  BY <1>1, AuthStart, AuthSteps, PTL DEF AuthSpec

\* BootstrapAdmin makes one administrator, and the passwords tried between two
\* resets of an account's lockout are bounded by the limit and the number of
\* requests at once, for any number of both.
THEOREM LoginsAreGuarded == AuthSpec => []LoginGuards
<1>1. AuthInv => LoginGuards
  <2> SUFFICES ASSUME AuthInv PROVE LoginGuards
    OBVIOUS
  <2>1. AuthTypes /\ UsersInv /\ GuessInv  BY Zenon DEF AuthInv
  <2>2. BootstrapOnce
    <3>1. PICK made : made = {u \in Users : pw[u] # None}  OBVIOUS
    <3>2. \A u, v \in made : u = v  BY <2>1, <3>1, Zenon DEF UsersInv
    <3>3. CASE made = {}
      <4>1. Cardinality(made) = 0  BY <3>3, FS_EmptySet
      <4> QED  BY <3>1, <4>1 DEF BootstrapOnce
    <3>4. CASE made # {}
      <4>1. PICK u : u \in made  BY <3>4
      <4>2. made = {u}  BY <3>2, <4>1
      <4>3. Cardinality(made) = 1  BY <4>2, FS_Singleton
      <4> QED  BY <3>1, <4>3 DEF BootstrapOnce
    <3> QED  BY <3>3, <3>4
  <2>3. ASSUME NEW u \in Users PROVE guesses[u] <= MaxFailedAttempts + Cardinality(Requests) - 1
    <3>1. PICK c \in Nat, w \in Nat, n \in Nat :
             c = Cardinality(AtFor("compare", u)) /\ w = Cardinality(AtFor("wrong", u)) /\ n = Cardinality(Requests)
      BY AtForFinite, Zenon
    <3>2. c + w <= n
      BY <3>1, AtForFinite, Zenon
    <3>3. WithinLimit(locked[u], fails[u], guesses[u], c, w)
      BY <2>1, <3>1, GuessesAre, Zenon DEF GuessInv
    <3>4. LockTypes /\ EnvTypes  BY <2>1, AuthTypeParts, Zenon
    <3> QED  BY <3>1, <3>2, <3>3, <3>4, LockNumbers, SMT DEF WithinLimit
  <2> QED  BY <2>2, <2>3, Zenon DEF LoginGuards, GuessesBounded
<1> QED  BY <1>1, AuthStart, AuthSteps, PTL DEF AuthSpec

-----------------------------------------------------------------------------
(***************************************************************************)
(* The services side by side.  A focus lets one of them move at a time, so *)
(* what the run explores are behaviours of each service's specification.   *)
(***************************************************************************)
LEMMA FocusMovesOne ==
    ASSUME [MCNext]_mcVars
    PROVE  [AuthNext]_authVars /\ [GateNext]_gateVars /\ [CfgNext]_cfgVars /\ [IpamNext]_ipamVars
<1>1. CASE UNCHANGED mcVars  BY <1>1, Zenon DEF mcVars
<1>2. CASE (Accounts /\ OthersRest("accounts")) \/ (TokensOnly /\ OthersRest("tokens"))
  <2>1. AuthNext  BY <1>2, Zenon DEF Accounts, TokensOnly
  <2>2. OthersRest("accounts") \/ OthersRest("tokens")  BY <1>2, Zenon
  <2> QED  BY <2>1, <2>2, Zenon DEF OthersRest
<1>3. CASE (Limits /\ OthersRest("limits")) \/ (Roles /\ OthersRest("roles"))
  <2>1. GateNext  BY <1>3, Zenon DEF Limits, Roles
  <2>2. OthersRest("limits") \/ OthersRest("roles")  BY <1>3, Zenon
  <2> QED  BY <2>1, <2>2, Zenon DEF OthersRest
<1>4. CASE Changes /\ OthersRest("config")
  <2>1. CfgNext  BY <1>4, Zenon DEF Changes
  <2> QED  BY <1>4, <2>1, Zenon DEF OthersRest
<1>5. CASE (OneCaller /\ OthersRest("ipam")) \/ (TwoCallers /\ OthersRest("race"))
  <2>1. IpamNext  BY <1>5, Zenon DEF OneCaller, TwoCallers
  <2>2. OthersRest("ipam") \/ OthersRest("race")  BY <1>5, Zenon
  <2> QED  BY <2>1, <2>2, Zenon DEF OthersRest
<1> QED  BY <1>1, <1>2, <1>3, <1>4, <1>5, Zenon DEF MCNext

\* Every behaviour of the instance is one of the specification of each
\* service: authentication, the middleware chain, configuration and IPAM share
\* no state, and what is proved of one of them holds beside the others.
THEOREM ServicesRunBeside == MCSpec => AuthSpec /\ GateSpec /\ CfgSpec /\ IpamSpec
<1>1. MCInit => AuthInit /\ GateInit /\ CfgInit /\ IpamInit  BY Zenon DEF MCInit
<1> QED  BY <1>1, FocusMovesOne, PTL DEF MCSpec, AuthSpec, GateSpec, CfgSpec, IpamSpec

\* The state of every service keeps its type while the services run side by
\* side.
THEOREM ApiTypeCorrect == MCSpec => []ApiTypeOK
<1>1. AuthTypeOK /\ GateTypeOK /\ CfgTypeOK /\ IpamTypeOK => ApiTypeOK  BY Zenon DEF ApiTypeOK
<1> QED  BY <1>1, ServicesRunBeside, AuthTypeCorrect, GateTypeCorrect, CfgTypeCorrect, IpamTypeCorrect, PTL
=============================================================================

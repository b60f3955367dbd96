---------------------------- MODULE ConfigReload ----------------------------
(***************************************************************************)
(* The configuration: its file, the manager (internal/config/reload.go),   *)
(* the settings that follow a reload (cmd/monsoon/runtime_config.go), the  *)
(* notice that a restart is needed, and the two ways to change it: PUT     *)
(* /api/v1/system/config (Updaters, each request a goroutine) and a SIGHUP *)
(* after an edit of the file (the thread Main).                            *)
(*                                                                         *)
(* A configuration has two keys: "hot" stands for the ones                 *)
(* runtimeSettings.Apply takes over, "cold" for the ones                   *)
(* restartRequiredConfigChanges compares, which the process reads at its   *)
(* start only.  A payload mergeConfigPayload or Validate refuses changes   *)
(* nothing and is left out; an edited file may be one Load refuses.        *)
(***************************************************************************)
EXTENDS Integers, FiniteSets

CONSTANTS
    Updaters,       \* concurrent PUT requests
    Main,           \* the thread that handles signals
    CfgVals,        \* values of a key
    CfgDefault,     \* the value DefaultConfig gives a key
    Missing,        \* there is no file
    Broken,         \* a file Load refuses
    CfgMaxEdits,    \* bound: edits of the file
    CfgMaxFaults    \* bound: failing renames and restarts

ASSUME CfgAssumption ==
    /\ CfgDefault \in CfgVals /\ "any" \notin CfgVals /\ Main \notin Updaters
    /\ Missing # Broken /\ {Missing, Broken} \cap [{"hot", "cold"} -> CfgVals] = {}
    /\ CfgMaxEdits \in Nat /\ CfgMaxFaults \in Nat

Keys == {"hot", "cold"}
Configs == [Keys -> CfgVals]
DefaultConfig == [k \in Keys |-> CfgDefault]
Threads == Updaters \cup {Main}

VARIABLES
    cfgFile,    \* the file
    cfgBak,     \* the file's .bak
    mgrCfg,     \* Manager.cfg
    hot,        \* runtimeSettings
    cold,       \* what the process was started with
    mainCfg,    \* main's variable cfg
    notice,     \* runtimeReloadState.restartRequired is not empty
    cthr,       \* where each thread stands
    cleft,      \* environment: edits and faults left
    wanted,     \* history: last acknowledged value of each key, or "any"
    crossed     \* history: changes overlapped since the last one that ran alone

cfgVars == <<cfgFile, cfgBak, mgrCfg, hot, cold, mainCfg, notice, cthr, cleft, wanted, crossed>>
procVars == <<mgrCfg, hot, cold, mainCfg, notice>>

Quiet == [pc |-> "quiet"]
AnyValues == [k \in Keys |-> "any"]
CfgAt(t, pc) == cthr[t].pc = pc
CfgGoes(t, pc) == cthr' = [cthr EXCEPT ![t].pc = pc]
CfgEnds(t) == cthr' = [cthr EXCEPT ![t] = Quiet]
CfgFault == cleft.faults > 0 /\ cleft' = [cleft EXCEPT !.faults = @ - 1]
AllQuiet == \A t \in Threads : cthr[t] = Quiet

Loadable(f) == f # Broken

\* Load: no file means the defaults; a file that is refused has no value.
Load(f) == IF f = Missing THEN DefaultConfig ELSE f

\* main up to the serving of requests, from the file f.
StartedFrom(f) ==
    /\ mgrCfg = Load(f) /\ mainCfg = Load(f)
    /\ hot = Load(f)["hot"] /\ cold = Load(f)["cold"]
    /\ notice = FALSE

CfgInit ==
    /\ cfgFile \in Configs \cup {Missing} /\ cfgBak = Missing
    /\ StartedFrom(cfgFile)
    /\ cthr = [t \in Threads |-> Quiet]
    /\ cleft = [edits |-> CfgMaxEdits, faults |-> CfgMaxFaults]
    /\ wanted = AnyValues /\ crossed = FALSE

\* Thread t begins a change at cur: it runs alone, or it overlaps the others.
Disturbed == [t \in Threads |-> IF cthr[t] = Quiet THEN Quiet ELSE [cthr[t] EXCEPT !.alone = FALSE]]
CfgBegins(t, cur) ==
    /\ cthr[t] = Quiet
    /\ cthr' = [Disturbed EXCEPT ![t] = cur]
    /\ crossed' = (crossed \/ ~AllQuiet)

(***************************************************************************)
(* UpdateConfig.                                                           *)
(***************************************************************************)

\* beforeReload
UpdateBefore(t, k, v) ==
    /\ CfgBegins(t, [pc |-> "merge", before |-> mgrCfg, next |-> mgrCfg, key |-> k, val |-> v, alone |-> AllQuiet])
    /\ wanted' = IF AllQuiet THEN [wanted EXCEPT ![k] = "any"] ELSE AnyValues
    /\ UNCHANGED <<cfgFile, cfgBak, procVars, cleft>>

\* Mutant: the payload is merged into the defaults.
mergeConfigPayload_Defaults(c, k, v) == [DefaultConfig EXCEPT ![k] = v]

\* mergeConfigPayload, mergeMaps: keys the payload does not name stay.
mergeConfigPayload(c, k, v) == [c EXCEPT ![k] = v]

UpdateMerge(t) ==
    /\ CfgAt(t, "merge")
    /\ cthr' = [cthr EXCEPT ![t].pc = "write", ![t].next = mergeConfigPayload(mgrCfg, cthr[t].key, cthr[t].val)]
    /\ UNCHANGED <<cfgFile, cfgBak, procVars, cleft, wanted, crossed>>

\* atomicWriteFile: the rename of the temporary file; or writing that file
\* fails, which ends the request; or the rename fails.
UpdateWrite(t) ==
    /\ CfgAt(t, "write")
    /\ \/ cfgFile' = cthr[t].next /\ CfgGoes(t, "load") /\ UNCHANGED cleft
       \/ CfgFault /\ CfgEnds(t) /\ UNCHANGED cfgFile
       \/ CfgFault /\ CfgGoes(t, "bak") /\ UNCHANGED cfgFile
    /\ UNCHANGED <<cfgBak, procVars, wanted, crossed>>

\* The current file makes room as .bak; failing that the request ends.
UpdateBak(t) ==
    /\ CfgAt(t, "bak")
    /\ \/ /\ cfgBak' = cfgFile /\ cfgFile' = Missing
          /\ cthr' = [cthr EXCEPT ![t].pc = IF cfgFile = Missing THEN "place" ELSE "placeMoved"]
          /\ UNCHANGED cleft
       \/ CfgFault /\ cfgBak' = Missing /\ CfgEnds(t) /\ UNCHANGED cfgFile
    /\ UNCHANGED <<procVars, wanted, crossed>>

\* The second rename; failing that the current file is put back.
UpdatePlace(t) ==
    /\ cthr[t].pc \in {"place", "placeMoved"}
    /\ \/ /\ cfgFile' = cthr[t].next
          /\ cfgBak' = IF CfgAt(t, "placeMoved") THEN Missing ELSE cfgBak
          /\ CfgGoes(t, "load") /\ UNCHANGED cleft
       \/ /\ CfgFault /\ CfgEnds(t)
          /\ IF CfgAt(t, "placeMoved") /\ cfgBak # Missing
             THEN cfgFile' = cfgBak /\ cfgBak' = Missing
             ELSE UNCHANGED <<cfgFile, cfgBak>>
    /\ UNCHANGED <<procVars, wanted, crossed>>

(***************************************************************************)
(* Manager.Reload, of a request or of the signal handler.                  *)
(***************************************************************************)

ReloadLoad(t) ==
    /\ CfgAt(t, "load")
    /\ IF Loadable(cfgFile)
       THEN cthr' = [cthr EXCEPT ![t].pc = "set", ![t].next = Load(cfgFile)]
       ELSE CfgEnds(t)
    /\ UNCHANGED <<cfgFile, cfgBak, procVars, cleft, wanted, crossed>>

\* Under the lock.
ReloadSet(t) ==
    /\ CfgAt(t, "set")
    /\ mgrCfg' = cthr[t].next
    /\ CfgGoes(t, "callbacks")
    /\ UNCHANGED <<cfgFile, cfgBak, hot, cold, mainCfg, notice, cleft, wanted, crossed>>

\* After the lock: runtimeSettings.Apply.
ReloadCallbacks(t) ==
    /\ CfgAt(t, "callbacks")
    /\ hot' = cthr[t].next["hot"]
    /\ CfgGoes(t, "updated")
    /\ UNCHANGED <<cfgFile, cfgBak, mgrCfg, cold, mainCfg, notice, cleft, wanted, crossed>>

\* Get after the reload.  The signal handler compares with main's cfg, keeps
\* the new one there and applies it once more.
ReloadGet(t) ==
    /\ CfgAt(t, "updated")
    /\ cthr' = [cthr EXCEPT ![t].pc = "mark", ![t].next = mgrCfg,
                            ![t].before = IF t = Main THEN mainCfg ELSE @]
    /\ IF t = Main THEN mainCfg' = mgrCfg /\ hot' = mgrCfg["hot"] ELSE UNCHANGED <<mainCfg, hot>>
    /\ UNCHANGED <<cfgFile, cfgBak, mgrCfg, cold, notice, cleft, wanted, crossed>>

\* restartRequiredConfigChanges
restartRequired(before, after) == before["cold"] # after["cold"]

\* runtimeReloadState.Mark; a request is acknowledged.
ReloadMark(t) ==
    /\ CfgAt(t, "mark")
    /\ notice' = restartRequired(cthr[t].before, cthr[t].next)
    /\ wanted' = IF t # Main /\ cthr[t].alone THEN [wanted EXCEPT ![cthr[t].key] = cthr[t].val] ELSE wanted
    /\ crossed' = (crossed /\ ~cthr[t].alone)
    /\ CfgEnds(t)
    /\ UNCHANGED <<cfgFile, cfgBak, mgrCfg, hot, cold, mainCfg, cleft>>

\* SIGHUP: the handler runs one signal at a time.
Sighup ==
    /\ CfgBegins(Main, [pc |-> "load", before |-> mainCfg, next |-> mainCfg, alone |-> AllQuiet])
    /\ wanted' = IF AllQuiet THEN wanted ELSE AnyValues
    /\ UNCHANGED <<cfgFile, cfgBak, procVars, cleft>>

\* An administrator replaces the file.
EditFile(f) ==
    /\ cleft.edits > 0
    /\ cfgFile' = f
    /\ cleft' = [cleft EXCEPT !.edits = @ - 1]
    /\ wanted' = AnyValues /\ cthr' = Disturbed
    /\ UNCHANGED <<cfgBak, procVars, crossed>>

\* A crash, and the start after it if the file is accepted.  A crash between
\* the two renames leaves no file: the defaults come into force.
CfgRestart ==
    /\ CfgFault
    /\ Loadable(cfgFile)
    /\ mgrCfg' = Load(cfgFile) /\ mainCfg' = Load(cfgFile)
    /\ hot' = Load(cfgFile)["hot"] /\ cold' = Load(cfgFile)["cold"]
    /\ notice' = FALSE
    /\ cthr' = [t \in Threads |-> Quiet]
    /\ wanted' = IF AllQuiet THEN wanted ELSE AnyValues
    /\ crossed' = FALSE
    /\ UNCHANGED <<cfgFile, cfgBak>>

CfgNext ==
    \/ \E t \in Updaters :
        \/ \E k \in Keys, v \in CfgVals : UpdateBefore(t, k, v)
        \/ UpdateMerge(t) \/ UpdateWrite(t) \/ UpdateBak(t) \/ UpdatePlace(t)
    \/ \E t \in Threads :
        ReloadLoad(t) \/ ReloadSet(t) \/ ReloadCallbacks(t) \/ ReloadGet(t) \/ ReloadMark(t)
    \/ Sighup
    \/ \E f \in Configs \cup {Missing, Broken} : EditFile(f)
    \/ CfgRestart

CfgSpec == CfgInit /\ [][CfgNext]_cfgVars

-----------------------------------------------------------------------------
(* Properties                                                              *)

\* Types, and the notice is only up in a process whose configuration changed.
CfgTypeOK ==
    /\ cfgFile \in Configs \cup {Missing, Broken} /\ cfgBak \in Configs \cup {Missing, Broken}
    /\ mgrCfg \in Configs /\ mainCfg \in Configs
    /\ hot \in CfgVals /\ cold \in CfgVals /\ notice \in BOOLEAN /\ crossed \in BOOLEAN
    /\ wanted \in [Keys -> CfgVals \cup {"any"}]
    /\ \A t \in Threads : cthr[t] # Quiet /\ t # Main => cthr[t].before \in Configs

\* The settings in force are those of the manager whenever no change is under
\* way, unless two changes overlapped: Reload calls the callbacks after it
\* released the lock, and the later configuration may be applied first.
RuntimeCurrent == AllQuiet /\ ~crossed => hot = mgrCfg["hot"]

\* An acknowledged update is in the file and stays there over later updates of
\* other keys, failing writes, signals and restarts, as long as nobody else
\* edits the file and changes do not overlap: each update merges into what it
\* read, and a signal may find no file between the two renames.
UpdatesKept ==
    AllQuiet => \A k \in Keys : wanted[k] # "any" =>
        cfgFile \in Configs /\ cfgFile[k] = wanted[k]

\* Acknowledged updates stay in the file, and the settings in force are those
\* of the manager.
ConfigKept == UpdatesKept /\ RuntimeCurrent
=============================================================================

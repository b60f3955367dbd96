----------------------------- MODULE HAElection -----------------------------
(***************************************************************************)
(* Role election of the two high-availability peers (internal/ha): the     *)
(* heartbeat exchange, the watchdog, manual failover and fencing with the  *)
(* shared witness file.                                                    *)
(*                                                                         *)
(* Time is kept as ages: how long ago a node heard from its peer, how old  *)
(* the witness record is, how long ago a goroutine took the time it is to  *)
(* write there, how long a manual step-down still lasts.  An age stops     *)
(* growing once it is past the limit it is compared with.  The             *)
(* heartbeat and the watchdog goroutine of a node share its mutex m.mu,    *)
(* which is free between any two steps except while the watchdog claims    *)
(* the witness; the nodes share nothing but the network and the witness.   *)
(***************************************************************************)
EXTENDS Integers, FiniteSets

CONSTANTS
    Nodes,          \* the two peers
    Priority,       \* [Nodes -> configured priority], lower wins
    Name,           \* [Nodes -> host name], as its place in lexical order
    Mode,           \* "active-passive" or "load-sharing"
    HasWitness,     \* a witness path is configured
    Punctual,       \* the loops that never take longer than an interval
    Timeout,        \* failover timeout, in heartbeat intervals
    WitnessHold,    \* witness hold, in heartbeat intervals
    RefreshTime,    \* bound: intervals between the time a node takes for its record and its write
    StepDownTime,   \* duration of a manual step-down, in heartbeat intervals
    MaxCuts,        \* bound: network partitions
    MaxCrashes,     \* bound: node crashes
    MaxManual,      \* bound: manual failovers
    MaxWitnessErrors \* bound: failed accesses to the witness file

ASSUME PeersAssumption ==
    /\ IsFiniteSet(Nodes) /\ Cardinality(Nodes) = 2
    /\ Priority \in [Nodes -> Nat \ {0}]
    /\ Name \in [Nodes -> Nat]
    /\ \A m, n \in Nodes : m # n => <<Priority[m], Name[m]>> # <<Priority[n], Name[n]>>
ASSUME PunctualAssumption == Punctual \subseteq {"heartbeat", "watchdog"}
ASSUME ModeAssumption == Mode \in {"active-passive", "load-sharing"} /\ HasWitness \in BOOLEAN
ASSUME LimitsAssumption ==
    /\ Timeout \in Nat \ {0} /\ WitnessHold \in Nat \ {0} /\ StepDownTime \in Nat \ {0}
    /\ RefreshTime \in Nat
    /\ MaxCuts \in Nat /\ MaxCrashes \in Nat /\ MaxManual \in Nat /\ MaxWitnessErrors \in Nat

Loops == {"heartbeat", "watchdog"}
Never == -1        \* lastHeartbeatAt is zero: older than no timeout
Nobody == "nobody" \* the witness file does not exist
ASSUME NobodyAssumption == Nobody \notin Nodes

VARIABLES
    link,       \* the network between the peers works
    up,         \* [Nodes -> the process runs]
    role, peer, fenced,  \* the fields of each Manager
    heardAge,   \* [Nodes -> age of lastHeartbeatAt]
    stepDown,   \* [Nodes -> what is left of manualStepDownUntil]
    pc,         \* [Nodes -> [Loops -> where the goroutine stands]]
    stamp,      \* [Nodes -> [Loops -> age of the time the goroutine took for its next record]]
    pong,       \* [Nodes -> the Draining flag of the pong on its way to the node]
    ran,        \* the loops that have had their turn in this interval
    witness,    \* the witness record: its owner and its age
    cuts, crashes, manuals, errors,  \* environment: faults so far
    settled     \* history: one node served, the other followed it, no manual failover, crash or witness error since

nodeVars == <<up, role, peer, fenced, heardAge, stepDown>>
loopVars == <<pc, stamp, pong, ran>>
faultVars == <<cuts, crashes, manuals, errors>>
vars == <<link, nodeVars, loopVars, witness, faultVars, settled>>

Peer(n) == CHOOSE p \in Nodes : p # n

TypeOK ==
    /\ link \in BOOLEAN
    /\ up \in [Nodes -> BOOLEAN]
    /\ role \in [Nodes -> {"primary", "secondary"}]
    /\ peer \in [Nodes -> {"unknown", "connected", "disconnected"}]
    /\ fenced \in [Nodes -> BOOLEAN]
    /\ heardAge \in [Nodes -> Never..(Timeout + 1)]
    /\ stepDown \in [Nodes -> 0..StepDownTime]
    /\ pc \in [Nodes -> [Loops -> {"idle", "pong", "claim", "refresh", "write"}]]
    /\ stamp \in [Nodes -> [Loops -> 0..(WitnessHold + 1)]]
    /\ pong \in [Nodes -> BOOLEAN]
    /\ ran \subseteq Nodes \X Loops
    /\ witness \in [owner : Nodes \cup {Nobody}, age : 0..(WitnessHold + 1)]
    /\ cuts \in 0..MaxCuts /\ crashes \in 0..MaxCrashes
    /\ manuals \in 0..MaxManual /\ errors \in 0..MaxWitnessErrors
    /\ settled \in BOOLEAN

\* NewManager: every node starts as a primary that knows nothing of its peer.
\* Start ends with a refreshWitnessState of its own.
FreshPc == [l \in Loops |-> IF l = "watchdog" THEN "refresh" ELSE "idle"]

Init ==
    /\ link = TRUE
    /\ up = [n \in Nodes |-> TRUE]
    /\ role = [n \in Nodes |-> "primary"]
    /\ peer = [n \in Nodes |-> "unknown"]
    /\ fenced = [n \in Nodes |-> FALSE]
    /\ heardAge = [n \in Nodes |-> Never]
    /\ stepDown = [n \in Nodes |-> 0]
    /\ pc = [n \in Nodes |-> FreshPc]
    /\ stamp = [n \in Nodes |-> [l \in Loops |-> 0]]
    /\ pong = [n \in Nodes |-> FALSE]
    /\ ran = {}
    /\ witness = [owner |-> Nobody, age |-> 0]
    /\ cuts = 0 /\ crashes = 0 /\ manuals = 0 /\ errors = 0
    /\ settled = FALSE

\* AllocationScope: the part of every pool the node allocates from.
AllocationScope(n) ==
    IF ~up[n] \/ fenced[n] THEN {}
    ELSE IF Mode = "load-sharing"
         THEN IF peer[n] # "connected" THEN {"lower", "upper"}
              ELSE IF role[n] = "primary" THEN {"lower"} ELSE {"upper"}
         ELSE IF role[n] = "primary" THEN {"lower", "upper"} ELSE {}

Serving == {n \in Nodes : AllocationScope(n) # {}}

\* Mutant: the host name tie-break is forgotten.
Preferred_NoTieBreak(n) == Priority[n] <= Priority[Peer(n)]

\* The order electRole falls back on: priority, then host name.
Preferred(n) ==
    LET p == Peer(n) IN
    Priority[n] < Priority[p] \/ (Priority[n] = Priority[p] /\ Name[n] <= Name[p])

\* The pair is at rest: the preferred node serves, the other one follows it
\* and is not about to write the witness, no one drains.
AtRest ==
    \E n \in Nodes :
        LET p == Peer(n) IN
        /\ Preferred(n)
        /\ up[n] /\ role[n] = "primary" /\ ~fenced[n]
        /\ up[p] /\ role[p] = "secondary"
        /\ \A l \in Loops : pc[p][l] \notin {"claim", "write"}
        /\ \A x \in Nodes : peer[x] = "connected" /\ stepDown[x] = 0 /\ ~pong[x]
        /\ HasWitness => witness = [owner |-> n, age |-> 0]

\* Part of every action: keeps the history variable.
Note == settled' = ((settled \/ AtRest) /\ UNCHANGED <<manuals, crashes, errors>>)

MutexFree(n) == pc[n]["watchdog"] # "claim"

At(n, l, where) == up[n] /\ pc[n][l] = where
Move(n, l, where) == pc' = [pc EXCEPT ![n][l] = where]

\* The goroutine goes on, and takes the time now.
Goto(n, l, where) == Move(n, l, where) /\ stamp' = [stamp EXCEPT ![n][l] = 0]
TurnOver(n, l) == Goto(n, l, "idle") /\ ran' = ran \cup {<<n, l>>}

(***************************************************************************)
(* heartbeatLoop.                                                          *)
(***************************************************************************)

\* The ping arrives: the peer notes the heartbeat (handleConn) and answers
\* with its Draining flag.
Ping(n) ==
    LET p == Peer(n) IN
    /\ At(n, "heartbeat", "idle") /\ <<n, "heartbeat">> \notin ran
    /\ link /\ up[p] /\ MutexFree(p)
    /\ peer' = [peer EXCEPT ![p] = "connected"]
    /\ heardAge' = [heardAge EXCEPT ![p] = 0]
    /\ pong' = [pong EXCEPT ![n] = stepDown[p] > 0]
    /\ Goto(n, "heartbeat", "pong")
    /\ UNCHANGED <<link, up, role, fenced, stepDown, ran, witness, faultVars>>
    /\ Note

\* electRole, with the peer connected.
ElectRole(n, peerDraining) ==
    IF stepDown[n] > 0 THEN "secondary"
    ELSE IF peerDraining \/ Preferred(n) THEN "primary"
    ELSE "secondary"

\* recordHeartbeat and applyElection.
Pong(n) ==
    /\ At(n, "heartbeat", "pong")
    /\ link /\ MutexFree(n)
    /\ peer' = [peer EXCEPT ![n] = "connected"]
    /\ heardAge' = [heardAge EXCEPT ![n] = 0]
    /\ role' = [role EXCEPT ![n] = ElectRole(n, pong[n])]
    /\ pong' = [pong EXCEPT ![n] = FALSE]
    /\ Goto(n, "heartbeat", "refresh")
    /\ UNCHANGED <<link, up, fenced, stepDown, ran, witness, faultVars>>
    /\ Note

\* dialAndExchange fails, before or after the peer saw the ping:
\* markPeerDisconnected.
HeartbeatFails(n) ==
    /\ (At(n, "heartbeat", "idle") /\ <<n, "heartbeat">> \notin ran) \/ At(n, "heartbeat", "pong")
    /\ ~link \/ ~up[Peer(n)]
    /\ MutexFree(n)
    /\ peer' = [peer EXCEPT ![n] = "disconnected"]
    /\ stepDown' = [stepDown EXCEPT ![n] = 0]
    /\ pong' = [pong EXCEPT ![n] = FALSE]
    /\ TurnOver(n, "heartbeat")
    /\ UNCHANGED <<link, up, role, fenced, heardAge, witness, faultVars>>
    /\ Note

(***************************************************************************)
(* watchdogLoop.                                                           *)
(***************************************************************************)
\* Mutant: the comparison of the witness owner with the node is inverted.
Owned_Inverted(n) == witness.owner = n /\ witness.age <= WitnessHold

\* witnessOwner, and the owner is the other node.
Owned(n) == witness.owner \notin {Nobody, n} /\ witness.age <= WitnessHold

WitnessError == errors < MaxWitnessErrors /\ errors' = errors + 1

\* Mutant: a peer the heartbeat loop has already given up is not looked at.
Silent_OnlyConnected(n) == heardAge[n] > Timeout /\ peer[n] = "connected"

Silent(n) == heardAge[n] > Timeout

\* One turn up to the end of canPromoteLocked's look at the witness.
Watchdog(n) ==
    /\ At(n, "watchdog", "idle") /\ <<n, "watchdog">> \notin ran
    /\ IF Silent(n)
       THEN /\ peer' = [peer EXCEPT ![n] = "disconnected"]
            /\ stepDown' = [stepDown EXCEPT ![n] = 0]
            /\ \/ /\ role[n] = "primary"
                  /\ Goto(n, "watchdog", "refresh")
                  /\ UNCHANGED <<role, fenced, errors>>
               \/ /\ role[n] # "primary" /\ ~HasWitness
                  /\ role' = [role EXCEPT ![n] = "primary"]
                  /\ fenced' = [fenced EXCEPT ![n] = FALSE]
                  /\ Goto(n, "watchdog", "refresh")
                  /\ UNCHANGED errors
               \/ /\ role[n] # "primary" /\ HasWitness
                  /\ WitnessError \/ (Owned(n) /\ UNCHANGED errors)
                  /\ fenced' = [fenced EXCEPT ![n] = TRUE]
                  /\ Goto(n, "watchdog", "refresh")
                  /\ UNCHANGED role
               \/ /\ role[n] # "primary" /\ HasWitness
                  /\ ~Owned(n)
                  /\ fenced' = [fenced EXCEPT ![n] = FALSE]
                  /\ Goto(n, "watchdog", "claim")
                  /\ UNCHANGED <<role, errors>>
       ELSE /\ Goto(n, "watchdog", "refresh")
            /\ UNCHANGED <<role, peer, fenced, stepDown, errors>>
    /\ UNCHANGED <<link, up, heardAge, pong, ran, witness, cuts, crashes, manuals>>
    /\ Note

\* The rest of canPromoteLocked: write the record, with the time the turn began
\* with, and become primary.
Claim(n) ==
    /\ At(n, "watchdog", "claim")
    /\ \/ /\ witness' = [owner |-> n, age |-> stamp[n]["watchdog"]]
          /\ role' = [role EXCEPT ![n] = "primary"]
          /\ UNCHANGED <<fenced, errors>>
       \/ /\ WitnessError
          /\ fenced' = [fenced EXCEPT ![n] = TRUE]
          /\ UNCHANGED <<role, witness>>
    /\ Goto(n, "watchdog", "refresh")
    /\ UNCHANGED <<link, up, peer, heardAge, stepDown, pong, ran, cuts, crashes, manuals>>
    /\ Note

(***************************************************************************)
(* refreshWitnessState, called at the end of both loops: it takes the time *)
(* and looks at the node's role first, and writes the file afterwards with *)
(* the time it took.                                                       *)
(***************************************************************************)
RefreshStatus(n, l) ==
    /\ At(n, l, "refresh")
    /\ MutexFree(n)
    /\ IF HasWitness /\ role[n] = "primary" /\ ~fenced[n]
       THEN /\ Move(n, l, "write")
            /\ \E s \in 0..stamp[n][l] : stamp' = [stamp EXCEPT ![n][l] = s]
            /\ UNCHANGED ran
       ELSE TurnOver(n, l)
    /\ UNCHANGED <<link, nodeVars, pong, witness, faultVars>>
    /\ Note

RefreshWrite(n, l) ==
    /\ At(n, l, "write")
    /\ MutexFree(n)
    /\ \/ /\ witness' = [owner |-> n, age |-> stamp[n][l]]
          /\ fenced' = [fenced EXCEPT ![n] = FALSE]
          /\ UNCHANGED <<role, errors>>
       \/ /\ WitnessError
          /\ role' = [role EXCEPT ![n] = "secondary"]
          /\ fenced' = [fenced EXCEPT ![n] = TRUE]
          /\ UNCHANGED witness
    /\ TurnOver(n, l)
    /\ UNCHANGED <<up, peer, heardAge, stepDown>>
    /\ UNCHANGED <<link, pong, cuts, crashes, manuals>>
    /\ Note

(***************************************************************************)
(* TriggerManualFailover, and what the environment does.                   *)
(***************************************************************************)
\* Mutant: the role is cleared instead of handed over.
TriggerManualFailover_Unknown(n) ==
    /\ manuals < MaxManual /\ manuals' = manuals + 1
    /\ up[n] /\ MutexFree(n)
    /\ peer[n] = "connected" /\ role[n] = "primary"
    /\ stepDown' = [stepDown EXCEPT ![n] = StepDownTime]
    /\ role' = [role EXCEPT ![n] = "unknown"]
    /\ UNCHANGED <<link, up, peer, fenced, heardAge, loopVars, witness, cuts, crashes, errors>>
    /\ Note

TriggerManualFailover(n) ==
    /\ manuals < MaxManual /\ manuals' = manuals + 1
    /\ up[n] /\ MutexFree(n)
    /\ peer[n] = "connected" /\ role[n] = "primary"
    /\ stepDown' = [stepDown EXCEPT ![n] = StepDownTime]
    /\ role' = [role EXCEPT ![n] = "secondary"]
    /\ UNCHANGED <<link, up, peer, fenced, heardAge, loopVars, witness, cuts, crashes, errors>>
    /\ Note

Older(age, limit) == IF age \in 0..limit THEN age + 1 ELSE age

\* A goroutine that holds a time for its next record.
Refreshing(n, l) == up[n] /\ pc[n][l] \in {"claim", "refresh", "write"}

\* An interval passes: every ticker fires again.
Tick ==
    /\ \A n \in Nodes, l \in Punctual : up[n] => <<n, l>> \in ran
    /\ \A n \in Nodes, l \in Loops : Refreshing(n, l) => stamp[n][l] < RefreshTime
    /\ stamp' = [n \in Nodes |-> [l \in Loops |->
                    IF Refreshing(n, l) THEN Older(stamp[n][l], WitnessHold) ELSE stamp[n][l]]]
    /\ ran' = {}
    /\ heardAge' = [n \in Nodes |-> Older(heardAge[n], Timeout)]
    /\ stepDown' = [n \in Nodes |-> IF stepDown[n] > 0 THEN stepDown[n] - 1 ELSE 0]
    /\ witness' = [witness EXCEPT !.age = Older(@, WitnessHold)]
    /\ UNCHANGED <<link, up, role, peer, fenced, pc, pong, faultVars>>
    /\ Note

Cut ==
    /\ cuts < MaxCuts /\ cuts' = cuts + 1
    /\ link /\ link' = FALSE
    /\ UNCHANGED <<nodeVars, loopVars, witness, crashes, manuals, errors>>
    /\ Note

Heal ==
    /\ ~link /\ link' = TRUE
    /\ UNCHANGED <<nodeVars, loopVars, witness, faultVars>>
    /\ Note

Crash(n) ==
    /\ crashes < MaxCrashes /\ crashes' = crashes + 1
    /\ up[n] /\ up' = [up EXCEPT ![n] = FALSE]
    /\ pc' = [pc EXCEPT ![n] = FreshPc]
    /\ stamp' = [stamp EXCEPT ![n] = [l \in Loops |-> 0]]
    /\ pong' = [pong EXCEPT ![n] = FALSE]
    /\ ran' = ran \ ({n} \X Loops)
    /\ UNCHANGED <<link, role, peer, fenced, heardAge, stepDown, witness, cuts, manuals, errors>>
    /\ Note

Start(n) ==
    /\ ~up[n] /\ up' = [up EXCEPT ![n] = TRUE]
    /\ role' = [role EXCEPT ![n] = "primary"]
    /\ peer' = [peer EXCEPT ![n] = "unknown"]
    /\ fenced' = [fenced EXCEPT ![n] = FALSE]
    /\ heardAge' = [heardAge EXCEPT ![n] = Never]
    /\ stepDown' = [stepDown EXCEPT ![n] = 0]
    /\ UNCHANGED <<link, loopVars, witness, faultVars>>
    /\ Note

LoopStep(n) ==
    \/ Ping(n) \/ Pong(n) \/ HeartbeatFails(n)
    \/ Watchdog(n) \/ Claim(n)
    \/ \E l \in Loops : RefreshStatus(n, l) \/ RefreshWrite(n, l)

Next ==
    \/ \E n \in Nodes : LoopStep(n) \/ TriggerManualFailover(n) \/ Crash(n) \/ Start(n)
    \/ Tick \/ Cut \/ Heal

Spec == Init /\ [][Next]_vars

\* Both loops of a running node are driven by tickers and every call in them
\* has a deadline; time goes on.
Fairness ==
    /\ \A n \in Nodes :
        /\ WF_vars(Ping(n)) /\ WF_vars(Pong(n)) /\ WF_vars(HeartbeatFails(n))
        /\ WF_vars(Watchdog(n)) /\ WF_vars(Claim(n))
        /\ \A l \in Loops : WF_vars(RefreshStatus(n, l)) /\ WF_vars(RefreshWrite(n, l))
    /\ WF_vars(Tick)

FairSpec == Spec /\ Fairness

(***************************************************************************)
(* Properties.                                                             *)
(***************************************************************************)

\* (SPECIFICATION 9.2: "Split-brain protection via ... shared witness")
\* Once the pair has come to rest, no partition, healing or delayed heartbeat
\* makes both nodes allocate from the same part of a pool, as long as the witness
\* can be accessed and no node is restarted or told to step down.  A record is
\* dated before the look at the role that precedes its write, so this takes a
\* write that is not delayed until the record it leaves is past its hold.
NoSplitBrain ==
    settled => \A m, n \in Nodes : m # n => AllocationScope(m) \cap AllocationScope(n) = {}

\* (IMPLEMENTATION M12: "Simple leader election: lowest configured priority wins")
\* When the network stays up and both nodes run, the election comes to an end:
\* from some time on one node is primary and allocates, and the other does not
\* allocate from its part.
Converges ==
    <>[](link /\ \A n \in Nodes : up[n]) =>
        <>[](\E n \in Nodes : /\ role[n] = "primary" /\ role[Peer(n)] = "secondary"
                              /\ AllocationScope(n) # {}
                              /\ AllocationScope(n) \cap AllocationScope(Peer(n)) = {})

\* (IMPLEMENTATION M12: "If no heartbeat for failover_timeout, secondary promotes
\* to primary")  A node whose peer is gone for good ends up allocating.
Takeover ==
    \A n \in Nodes : <>[](up[n] /\ ~up[Peer(n)]) => <>[](n \in Serving)

=============================================================================

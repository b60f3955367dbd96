------------------------- MODULE HAElection_proofs -------------------------
(***************************************************************************)
(* Proofs about HAElection: type correctness of the pair, and the absence  *)
(* of split brain of an active-passive pair with a witness, for all        *)
(* priorities, host names, timeouts and numbers of faults.                 *)
(***************************************************************************)
EXTENDS HAElection, FiniteSetTheorems, TLAPS

(***************************************************************************)
(* The two peers.                                                          *)
(***************************************************************************)
LEMMA PeerFacts ==
    ASSUME NEW n \in Nodes
    PROVE  /\ Peer(n) \in Nodes /\ Peer(n) # n
           /\ \A m \in Nodes : m # n => m = Peer(n)
           /\ Peer(Peer(n)) = n
  <1>1. \E a, b \in Nodes : a # b /\ Nodes = {a, b}
    <2>1. IsFiniteSet(Nodes) /\ Cardinality(Nodes) = 2 BY PeersAssumption
    <2>2. IsFiniteSet(Nodes \ {n}) /\ Cardinality(Nodes \ {n}) = 1
      BY <2>1, FS_RemoveElement
    <2>3. PICK m : Nodes \ {n} = {m} BY <2>2, FS_Singleton
    <2> QED BY <2>3
  <1> QED BY <1>1 DEF Peer

\* Exactly one of the two peers is preferred: priorities and names differ.
LEMMA OnePreferred ==
    ASSUME NEW n \in Nodes, Preferred(n) PROVE ~Preferred(Peer(n))
  <1>1. Peer(n) \in Nodes /\ Peer(n) # n /\ Peer(Peer(n)) = n BY PeerFacts
  <1>2. /\ Priority[n] \in Nat /\ Priority[Peer(n)] \in Nat
        /\ Name[n] \in Nat /\ Name[Peer(n)] \in Nat
        /\ Priority[n] # Priority[Peer(n)] \/ Name[n] # Name[Peer(n)]
    BY <1>1, PeersAssumption
  <1> QED BY <1>1, <1>2 DEF Preferred

(***************************************************************************)
(* Type correctness.                                                       *)
(***************************************************************************)
Places == {"idle", "pong", "claim", "refresh", "write"}

LEMMA GotoType ==
    ASSUME TypeOK, NEW n \in Nodes, NEW l \in Loops, NEW where \in Places, Goto(n, l, where)
    PROVE  /\ pc' \in [Nodes -> [Loops -> Places]]
           /\ stamp' \in [Nodes -> [Loops -> 0..(WitnessHold + 1)]]
  <1>1. pc' \in [Nodes -> [Loops -> Places]] BY DEF Goto, Move, TypeOK, Places
  <1>2. 0 \in 0..(WitnessHold + 1) BY LimitsAssumption
  <1>3. stamp' \in [Nodes -> [Loops -> 0..(WitnessHold + 1)]] BY <1>2 DEF Goto, Move, TypeOK
  <1> QED BY <1>1, <1>3

LEMMA TypeInit == Init => TypeOK
  <1> SUFFICES ASSUME Init PROVE TypeOK OBVIOUS
  <1>1. FreshPc \in [Loops -> Places] BY DEF FreshPc, Places, Loops
  <1>2. pc \in [Nodes -> [Loops -> Places]] BY <1>1 DEF Init
  <1>3. /\ heardAge \in [Nodes -> Never..(Timeout + 1)] /\ stepDown \in [Nodes -> 0..StepDownTime]
        /\ stamp \in [Nodes -> [Loops -> 0..(WitnessHold + 1)]]
        /\ witness \in [owner : Nodes \cup {Nobody}, age : 0..(WitnessHold + 1)]
        /\ cuts \in 0..MaxCuts /\ crashes \in 0..MaxCrashes
        /\ manuals \in 0..MaxManual /\ errors \in 0..MaxWitnessErrors
    BY LimitsAssumption DEF Init, Never
  <1> QED BY <1>2, <1>3 DEF Init, TypeOK, Places

LEMMA TypeStep == TypeOK /\ [Next]_vars => TypeOK'
  <1> SUFFICES ASSUME TypeOK, [Next]_vars PROVE TypeOK' OBVIOUS
  <1> USE DEF nodeVars, loopVars, faultVars
  <1>0. CASE UNCHANGED vars BY <1>0 DEF TypeOK, vars
  <1>a. Note => settled' \in BOOLEAN BY DEF Note
  <1>b. "heartbeat" \in Loops /\ "watchdog" \in Loops BY DEF Loops
  <1>1. ASSUME NEW n \in Nodes, Ping(n) PROVE TypeOK'
    <2>1. Peer(n) \in Nodes BY PeerFacts
    <2>2. /\ pc' \in [Nodes -> [Loops -> Places]]
          /\ stamp' \in [Nodes -> [Loops -> 0..(WitnessHold + 1)]]
      BY <1>1, <1>b, GotoType DEF Ping, Places
    <2>3. heardAge' \in [Nodes -> Never..(Timeout + 1)]
      BY <1>1, <2>1, LimitsAssumption DEF Ping, TypeOK, Never
    <2>4. pong' \in [Nodes -> BOOLEAN] BY <1>1 DEF Ping, TypeOK
    <2> QED BY <1>1, <1>a, <2>1, <2>2, <2>3, <2>4 DEF Ping, TypeOK, Places
  <1>2. ASSUME NEW n \in Nodes, Pong(n) PROVE TypeOK'
    <2>1. ElectRole(n, pong[n]) \in {"primary", "secondary"} BY DEF ElectRole
    <2>2. /\ pc' \in [Nodes -> [Loops -> Places]]
          /\ stamp' \in [Nodes -> [Loops -> 0..(WitnessHold + 1)]]
      BY <1>2, <1>b, GotoType DEF Pong, Places
    <2>3. heardAge' \in [Nodes -> Never..(Timeout + 1)]
      BY <1>2, LimitsAssumption DEF Pong, TypeOK, Never
    <2>4. pong' \in [Nodes -> BOOLEAN] BY <1>2 DEF Pong, TypeOK
    <2> QED BY <1>2, <1>a, <2>1, <2>2, <2>3, <2>4 DEF Pong, TypeOK, Places
  <1>3. ASSUME NEW n \in Nodes, HeartbeatFails(n) PROVE TypeOK'
    <2>1. /\ pc' \in [Nodes -> [Loops -> Places]]
          /\ stamp' \in [Nodes -> [Loops -> 0..(WitnessHold + 1)]]
      BY <1>3, <1>b, GotoType DEF HeartbeatFails, TurnOver, Places
    <2>2. ran' \subseteq Nodes \X Loops BY <1>3, <1>b DEF HeartbeatFails, TurnOver, TypeOK
    <2>3. stepDown' \in [Nodes -> 0..StepDownTime] BY <1>3, LimitsAssumption DEF HeartbeatFails, TypeOK
    <2>4. pong' \in [Nodes -> BOOLEAN] BY <1>3 DEF HeartbeatFails, TypeOK
    <2> QED BY <1>3, <1>a, <2>1, <2>2, <2>3, <2>4 DEF HeartbeatFails, TypeOK, Places
  <1>4. ASSUME NEW n \in Nodes, Watchdog(n) PROVE TypeOK'
    <2>1. /\ pc' \in [Nodes -> [Loops -> Places]]
          /\ stamp' \in [Nodes -> [Loops -> 0..(WitnessHold + 1)]]
      BY <1>4, <1>b, GotoType DEF Watchdog, Places
    <2>2. errors' \in 0..MaxWitnessErrors
      BY <1>4, LimitsAssumption DEF Watchdog, WitnessError, TypeOK
    <2>3. fenced' \in [Nodes -> BOOLEAN] BY <1>4 DEF Watchdog, TypeOK
    <2>4. role' \in [Nodes -> {"primary", "secondary"}]
          /\ peer' \in [Nodes -> {"unknown", "connected", "disconnected"}]
      BY <1>4 DEF Watchdog, TypeOK
    <2>5. stepDown' \in [Nodes -> 0..StepDownTime]
      <3>1. stepDown' = stepDown \/ stepDown' = [stepDown EXCEPT ![n] = 0] BY <1>4 DEF Watchdog
      <3>2. 0 \in 0..StepDownTime BY LimitsAssumption
      <3> QED BY <3>1, <3>2 DEF TypeOK
    <2> QED BY <1>4, <1>a, <2>1, <2>2, <2>3, <2>4, <2>5 DEF Watchdog, TypeOK, Places
  <1>5. ASSUME NEW n \in Nodes, Claim(n) PROVE TypeOK'
    <2>1. /\ pc' \in [Nodes -> [Loops -> Places]]
          /\ stamp' \in [Nodes -> [Loops -> 0..(WitnessHold + 1)]]
      BY <1>5, <1>b, GotoType DEF Claim, Places
    <2>2. errors' \in 0..MaxWitnessErrors
          /\ witness' \in [owner : Nodes \cup {Nobody}, age : 0..(WitnessHold + 1)]
      <3>1. stamp[n]["watchdog"] \in 0..(WitnessHold + 1) BY <1>b DEF TypeOK
      <3>2. witness' = witness \/ witness' = [owner |-> n, age |-> stamp[n]["watchdog"]]
        BY <1>5 DEF Claim
      <3>3. errors' \in 0..MaxWitnessErrors
        BY <1>5, LimitsAssumption DEF Claim, WitnessError, TypeOK
      <3> QED BY <3>1, <3>2, <3>3 DEF TypeOK
    <2>3. fenced' \in [Nodes -> BOOLEAN] BY <1>5 DEF Claim, TypeOK
    <2>4. role' \in [Nodes -> {"primary", "secondary"}] BY <1>5 DEF Claim, TypeOK
    <2> QED BY <1>5, <1>a, <2>1, <2>2, <2>3, <2>4 DEF Claim, TypeOK, Places
  <1>6. ASSUME NEW n \in Nodes, NEW l \in Loops, RefreshStatus(n, l) PROVE TypeOK'
    <2>1. /\ pc' \in [Nodes -> [Loops -> Places]]
          /\ stamp' \in [Nodes -> [Loops -> 0..(WitnessHold + 1)]]
      <3>1. CASE Goto(n, l, "idle") BY <3>1, <1>6, GotoType DEF Places
      <3>2. CASE Move(n, l, "write") /\ \E s \in 0..stamp[n][l] : stamp' = [stamp EXCEPT ![n][l] = s]
        <4>1. PICK s \in 0..stamp[n][l] : stamp' = [stamp EXCEPT ![n][l] = s] BY <3>2
        <4>2. s \in 0..(WitnessHold + 1) BY <1>6, LimitsAssumption DEF TypeOK
        <4>3. stamp' \in [Nodes -> [Loops -> 0..(WitnessHold + 1)]] BY <4>1, <4>2 DEF TypeOK
        <4>4. pc' \in [Nodes -> [Loops -> Places]] BY <1>6, <3>2 DEF Move, TypeOK, Places
        <4> QED BY <4>3, <4>4
      <3> QED BY <1>6, <3>1, <3>2 DEF RefreshStatus, TurnOver
    <2>2. ran' \subseteq Nodes \X Loops BY <1>6 DEF RefreshStatus, TurnOver, TypeOK
    <2> QED BY <1>6, <1>a, <2>1, <2>2 DEF RefreshStatus, TypeOK, Places
  <1>7. ASSUME NEW n \in Nodes, NEW l \in Loops, RefreshWrite(n, l) PROVE TypeOK'
    <2>1. /\ pc' \in [Nodes -> [Loops -> Places]]
          /\ stamp' \in [Nodes -> [Loops -> 0..(WitnessHold + 1)]]
      BY <1>7, GotoType DEF RefreshWrite, TurnOver, Places
    <2>2. ran' \subseteq Nodes \X Loops BY <1>7 DEF RefreshWrite, TurnOver, TypeOK
    <2>3. errors' \in 0..MaxWitnessErrors
          /\ witness' \in [owner : Nodes \cup {Nobody}, age : 0..(WitnessHold + 1)]
      BY <1>7, LimitsAssumption DEF RefreshWrite, WitnessError, TypeOK
    <2>4. fenced' \in [Nodes -> BOOLEAN] BY <1>7 DEF RefreshWrite, TypeOK
    <2>5. role' \in [Nodes -> {"primary", "secondary"}] BY <1>7 DEF RefreshWrite, TypeOK
    <2> QED BY <1>7, <1>a, <2>1, <2>2, <2>3, <2>4, <2>5 DEF RefreshWrite, TypeOK, Places
  <1>8. ASSUME NEW n \in Nodes, TriggerManualFailover(n) PROVE TypeOK'
    BY <1>8, <1>a, LimitsAssumption DEF TriggerManualFailover, TypeOK
  <1>9. ASSUME NEW n \in Nodes, Crash(n) PROVE TypeOK'
    <2>1. FreshPc \in [Loops -> Places] BY DEF FreshPc, Places, Loops
    <2>2. pc' \in [Nodes -> [Loops -> Places]] BY <1>9, <2>1 DEF Crash, TypeOK, Places
    <2>3. stamp' \in [Nodes -> [Loops -> 0..(WitnessHold + 1)]]
      BY <1>9, LimitsAssumption DEF Crash, TypeOK
    <2> QED BY <1>9, <1>a, <2>2, <2>3, LimitsAssumption DEF Crash, TypeOK, Places
  <1>10. ASSUME NEW n \in Nodes, Start(n) PROVE TypeOK'
    BY <1>10, <1>a, LimitsAssumption DEF Start, TypeOK, Never
  <1>11. CASE Tick
    <2>1. \A n \in Nodes : Older(heardAge[n], Timeout) \in Never..(Timeout + 1)
      BY LimitsAssumption DEF TypeOK, Older, Never
    <2>2. witness' \in [owner : Nodes \cup {Nobody}, age : 0..(WitnessHold + 1)]
      <3>1. witness' = [witness EXCEPT !.age = Older(witness.age, WitnessHold)] BY <1>11 DEF Tick
      <3>2. witness.age \in 0..(WitnessHold + 1) BY DEF TypeOK
      <3>3. Older(witness.age, WitnessHold) \in 0..(WitnessHold + 1)
        BY <3>2, LimitsAssumption DEF Older
      <3> QED BY <3>1, <3>3 DEF TypeOK
    <2>3. stepDown' \in [Nodes -> 0..StepDownTime]
      BY <1>11, LimitsAssumption DEF Tick, TypeOK
    <2>4. heardAge' \in [Nodes -> Never..(Timeout + 1)]
      BY <1>11, <2>1 DEF Tick
    <2>5. stamp' \in [Nodes -> [Loops -> 0..(WitnessHold + 1)]]
      <3>1. \A n \in Nodes, l \in Loops : Older(stamp[n][l], WitnessHold) \in 0..(WitnessHold + 1)
        BY LimitsAssumption DEF TypeOK, Older
      <3> QED BY <1>11, <3>1 DEF Tick, TypeOK
    <2> QED BY <1>11, <1>a, <2>2, <2>3, <2>4, <2>5 DEF Tick, TypeOK
  <1>12. CASE Cut
    <2>1. cuts' \in 0..MaxCuts BY <1>12, LimitsAssumption DEF Cut, TypeOK
    <2> QED BY <1>12, <1>a, <2>1 DEF Cut, TypeOK
  <1>13. CASE Heal BY <1>13, <1>a DEF Heal, TypeOK
  <1> QED
    BY <1>0, <1>1, <1>2, <1>3, <1>4, <1>5, <1>6, <1>7, <1>8, <1>9, <1>10, <1>11, <1>12, <1>13
    DEF Next, LoopStep

\* Roles, ages, fault counters and the places of the loops of both nodes keep
\* their types, for all limits.
THEOREM PairTypeCorrect == Spec => []TypeOK
  BY TypeInit, TypeStep, PTL DEF Spec

(***************************************************************************)
(* Split brain.                                                            *)
(***************************************************************************)

\* The configuration split-brain protection is for: an active-passive pair with
\* a witness file, whose watchdog loops take at most an interval for a turn, and
\* that writes a record before the time it put there is as old as the hold.
WitnessedPair ==
    /\ Mode = "active-passive" /\ HasWitness /\ "watchdog" \in Punctual
    /\ RefreshTime < WitnessHold

\* Node n is the one that serves: what AtRest leaves behind and every step but
\* a manual failover, a crash and a witness error keeps.  The record of n is
\* renewed by each turn of its watchdog, and the write that is made last may be
\* a delayed one: its age stays within an interval of RefreshTime.
Leads(n) ==
    /\ Preferred(n)
    /\ up[n] /\ role[n] = "primary" /\ ~fenced[n]
    /\ up[Peer(n)] /\ role[Peer(n)] = "secondary"
    /\ \A l \in Loops : pc[Peer(n)][l] \notin {"claim", "write"}
    /\ \A x \in Nodes : stepDown[x] = 0 /\ ~pong[x]
    /\ witness.owner = n
    /\ witness.age <= IF <<n, "watchdog">> \in ran THEN RefreshTime ELSE RefreshTime + 1

\* No goroutine holds a time for its record longer than the bound.
StampsBounded == \A n \in Nodes, l \in Loops : stamp[n][l] <= RefreshTime

SplitInv == TypeOK /\ StampsBounded /\ (settled => \E n \in Nodes : Leads(n))

LEMMA RestLeads ==
    ASSUME TypeOK, WitnessedPair, AtRest PROVE \E n \in Nodes : Leads(n)
  <1>1. PICK n \in Nodes :
          /\ Preferred(n)
          /\ up[n] /\ role[n] = "primary" /\ ~fenced[n]
          /\ up[Peer(n)] /\ role[Peer(n)] = "secondary"
          /\ \A l \in Loops : pc[Peer(n)][l] \notin {"claim", "write"}
          /\ \A x \in Nodes : peer[x] = "connected" /\ stepDown[x] = 0 /\ ~pong[x]
          /\ HasWitness => witness = [owner |-> n, age |-> 0]
    BY DEF AtRest
  <1>2. witness.owner = n /\ witness.age = 0 BY <1>1 DEF WitnessedPair
  <1>3. RefreshTime \in Nat BY LimitsAssumption
  <1> QED BY <1>1, <1>2, <1>3 DEF Leads

LEMMA StampsStep ==
    ASSUME TypeOK, WitnessedPair, StampsBounded, [Next]_vars PROVE StampsBounded'
  <1> USE DEF nodeVars, loopVars, faultVars
  <1>r. RefreshTime \in Nat /\ WitnessHold \in Nat /\ RefreshTime < WitnessHold
    BY LimitsAssumption DEF WitnessedPair
  <1>t. stamp \in [Nodes -> [Loops -> Nat]] BY LimitsAssumption DEF TypeOK
  <1>g. ASSUME NEW n \in Nodes, NEW l \in Loops, NEW where, Goto(n, l, where) PROVE StampsBounded'
    BY <1>g, <1>r, <1>t DEF Goto, StampsBounded
  <1>b. "heartbeat" \in Loops /\ "watchdog" \in Loops BY DEF Loops
  <1>0. CASE UNCHANGED stamp BY <1>0 DEF StampsBounded
  <1>1. ASSUME NEW n \in Nodes, LoopStep(n) PROVE StampsBounded'
    <2>1. CASE Ping(n) BY <1>b, <1>g, <2>1 DEF Ping
    <2>2. CASE Pong(n) BY <1>b, <1>g, <2>2 DEF Pong
    <2>3. CASE HeartbeatFails(n) BY <1>b, <1>g, <2>3 DEF HeartbeatFails, TurnOver
    <2>4. CASE Watchdog(n)
      <3>1. Goto(n, "watchdog", "refresh") \/ Goto(n, "watchdog", "claim") BY <2>4 DEF Watchdog
      <3> QED BY <1>b, <1>g, <3>1
    <2>5. CASE Claim(n) BY <1>b, <1>g, <2>5 DEF Claim
    <2>6. ASSUME NEW l \in Loops, RefreshStatus(n, l) PROVE StampsBounded'
      <3>1. CASE Goto(n, l, "idle") BY <1>g, <3>1
      <3>2. CASE \E s \in 0..stamp[n][l] : stamp' = [stamp EXCEPT ![n][l] = s]
        <4>1. PICK s \in 0..stamp[n][l] : stamp' = [stamp EXCEPT ![n][l] = s] BY <3>2
        <4>2. s \in Nat /\ s <= RefreshTime BY <1>r, <1>t DEF StampsBounded
        <4> QED BY <1>r, <1>t, <4>1, <4>2 DEF StampsBounded
      <3> QED BY <2>6, <3>1, <3>2 DEF RefreshStatus, TurnOver
    <2>7. ASSUME NEW l \in Loops, RefreshWrite(n, l) PROVE StampsBounded'
      BY <1>g, <2>7 DEF RefreshWrite, TurnOver
    <2> QED BY <1>1, <2>1, <2>2, <2>3, <2>4, <2>5, <2>6, <2>7 DEF LoopStep
  <1>2. CASE Tick
    <2> SUFFICES ASSUME NEW n \in Nodes, NEW l \in Loops PROVE stamp'[n][l] <= RefreshTime
      BY DEF StampsBounded
    <2>1. stamp'[n][l] = IF Refreshing(n, l) THEN Older(stamp[n][l], WitnessHold) ELSE stamp[n][l]
      BY <1>2 DEF Tick
    <2>2. stamp[n][l] \in Nat /\ stamp[n][l] <= RefreshTime BY <1>t DEF StampsBounded
    <2>3. Refreshing(n, l) => stamp[n][l] < RefreshTime BY <1>2 DEF Tick
    <2>4. Older(stamp[n][l], WitnessHold) = stamp[n][l] + 1 BY <1>r, <2>2 DEF Older
    <2> QED BY <1>r, <2>1, <2>2, <2>3, <2>4
  <1>3. ASSUME NEW n \in Nodes, Crash(n) PROVE StampsBounded'
    <2>1. stamp' = [stamp EXCEPT ![n] = [l \in Loops |-> 0]] BY <1>3 DEF Crash
    <2> QED BY <1>r, <1>t, <2>1 DEF StampsBounded
  <1> QED
    BY <1>0, <1>1, <1>2, <1>3 DEF Next, vars, TriggerManualFailover, Start, Cut, Heal

\* While n leads, its peer finds a fresh record of n in the witness.
LEMMA PeerFenced ==
    ASSUME TypeOK, WitnessedPair, NEW n \in Nodes, Leads(n) PROVE Owned(Peer(n))
  <1>1. witness.owner = n /\ witness.age \in Nat /\ witness.age <= WitnessHold
    BY LimitsAssumption DEF Leads, TypeOK, WitnessedPair
  <1>2. n # Nobody /\ n # Peer(n) BY NobodyAssumption, PeerFacts
  <1> QED BY <1>1, <1>2, LimitsAssumption DEF Owned

LEMMA LeadsStep ==
    ASSUME TypeOK, WitnessedPair, StampsBounded, NEW n \in Nodes, Leads(n), [Next]_vars,
           UNCHANGED <<manuals, crashes, errors>>
    PROVE  Leads(n)'
  <1> USE DEF nodeVars, loopVars, faultVars
  <1> DEFINE p == Peer(n)
  <1>p. p \in Nodes /\ p # n /\ Peer(p) = n /\ \A m \in Nodes : m = n \/ m = p BY PeerFacts
  <1> HIDE DEF p
  <1>a. /\ Preferred(n) /\ up[n] /\ role[n] = "primary" /\ ~fenced[n]
        /\ up[p] /\ role[p] = "secondary"
        /\ \A l \in Loops : pc[p][l] \notin {"claim", "write"}
        /\ \A x \in Nodes : stepDown[x] = 0 /\ ~pong[x]
        /\ witness.owner = n /\ witness.age \in Nat
        /\ witness.age <= RefreshTime + 1
        /\ (<<n, "watchdog">> \in ran => witness.age <= RefreshTime)
    BY LimitsAssumption DEF Leads, TypeOK, p
  <1>s. \A l \in Loops : stamp[n][l] \in Nat /\ stamp[n][l] <= RefreshTime
    BY DEF TypeOK, StampsBounded
  <1>r. RefreshTime \in Nat /\ WitnessHold \in Nat /\ RefreshTime < WitnessHold
    BY LimitsAssumption DEF WitnessedPair
  <1>b. Owned(p) /\ ~Preferred(p) BY PeerFenced, OnePreferred, <1>a DEF p
  <1>c. "heartbeat" \in Loops /\ "watchdog" \in Loops /\ "heartbeat" # "watchdog" BY DEF Loops
  <1> SUFFICES
        /\ up'[n] /\ role'[n] = "primary" /\ ~fenced'[n]
        /\ up'[p] /\ role'[p] = "secondary"
        /\ \A l \in Loops : pc'[p][l] \notin {"claim", "write"}
        /\ \A x \in Nodes : stepDown'[x] = 0 /\ ~pong'[x]
        /\ witness'.owner = n
        /\ witness'.age <= IF <<n, "watchdog">> \in ran' THEN RefreshTime ELSE RefreshTime + 1
    BY <1>a DEF Leads, p, Preferred, Peer
  <1>e. errors \in Nat /\ manuals \in Nat /\ crashes \in Nat BY DEF TypeOK
  <1>f. ~WitnessError BY <1>e DEF WitnessError
  <1>0. CASE UNCHANGED vars BY <1>0, <1>a DEF vars
  <1>1. ASSUME NEW m \in Nodes, Ping(m)
        PROVE  /\ UNCHANGED <<up, role, fenced, stepDown, witness, ran>>
               /\ \A l \in Loops : pc'[p][l] \notin {"claim", "write"}
               /\ \A x \in Nodes : ~pong'[x]
    <2>1. Peer(m) \in Nodes BY PeerFacts
    <2>2. ~(stepDown[Peer(m)] > 0) BY <1>a, <2>1
    <2>3. \A x \in Nodes : ~pong'[x] BY <1>1, <1>a, <2>2 DEF Ping, TypeOK
    <2>4. \A l \in Loops : pc'[p][l] \notin {"claim", "write"}
      BY <1>1, <1>a, <1>p DEF Ping, Goto, Move, TypeOK
    <2> QED BY <1>1, <2>3, <2>4 DEF Ping
  <1>2. ASSUME NEW m \in Nodes, Pong(m)
        PROVE  /\ UNCHANGED <<up, fenced, stepDown, witness, ran>>
               /\ role'[n] = "primary" /\ role'[p] = "secondary"
               /\ \A l \in Loops : pc'[p][l] \notin {"claim", "write"}
               /\ \A x \in Nodes : ~pong'[x]
    <2>1. ElectRole(n, pong[n]) = "primary" /\ ElectRole(p, pong[p]) = "secondary"
      BY <1>a, <1>b, <1>p DEF ElectRole
    <2>2. role'[n] = "primary" /\ role'[p] = "secondary"
      BY <1>2, <1>a, <1>p, <2>1 DEF Pong, TypeOK
    <2>3. \A x \in Nodes : ~pong'[x] BY <1>2, <1>a DEF Pong, TypeOK
    <2>4. \A l \in Loops : pc'[p][l] \notin {"claim", "write"}
      BY <1>2, <1>a, <1>p DEF Pong, Goto, Move, TypeOK
    <2> QED BY <1>2, <2>2, <2>3, <2>4 DEF Pong
  <1>3. ASSUME NEW m \in Nodes, HeartbeatFails(m)
        PROVE  /\ UNCHANGED <<up, role, fenced, witness>>
               /\ <<n, "watchdog">> \in ran' => <<n, "watchdog">> \in ran
               /\ \A l \in Loops : pc'[p][l] \notin {"claim", "write"}
               /\ \A x \in Nodes : stepDown'[x] = 0 /\ ~pong'[x]
    <2>1. \A x \in Nodes : ~pong'[x] BY <1>3, <1>a DEF HeartbeatFails, TypeOK
    <2>2. \A x \in Nodes : stepDown'[x] = 0 BY <1>3, <1>a DEF HeartbeatFails, TypeOK
    <2>3. \A l \in Loops : pc'[p][l] \notin {"claim", "write"}
      BY <1>3, <1>a, <1>p DEF HeartbeatFails, TurnOver, Goto, Move, TypeOK
    <2>4. <<n, "watchdog">> \in ran' => <<n, "watchdog">> \in ran
      BY <1>3, <1>c DEF HeartbeatFails, TurnOver
    <2> QED BY <1>3, <2>1, <2>2, <2>3, <2>4 DEF HeartbeatFails
  <1>4. ASSUME NEW m \in Nodes, Watchdog(m)
        PROVE  /\ UNCHANGED <<up, role, witness, ran, pong>>
               /\ ~fenced'[n]
               /\ \A l \in Loops : pc'[p][l] \notin {"claim", "write"}
               /\ \A x \in Nodes : stepDown'[x] = 0
    <2>1. \A x \in Nodes : stepDown'[x] = 0 BY <1>4, <1>a DEF Watchdog, TypeOK
    <2>2. CASE m = n
      <3>1. UNCHANGED <<role, fenced>> /\ Goto(n, "watchdog", "refresh")
        BY <1>4, <1>a, <2>2 DEF Watchdog
      <3>2. \A l \in Loops : pc'[p][l] = pc[p][l] BY <3>1, <1>p DEF Goto, Move, TypeOK
      <3> QED BY <1>4, <1>a, <2>1, <3>1, <3>2 DEF Watchdog
    <2>3. CASE m = p
      <3>1. role[p] # "primary" /\ HasWitness BY <1>a DEF WitnessedPair
      <3>2. Goto(p, "watchdog", "refresh") /\ UNCHANGED role
            /\ fenced' \in {fenced, [fenced EXCEPT ![p] = TRUE]}
        BY <1>4, <1>b, <1>f, <2>3, <3>1 DEF Watchdog
      <3>3. \A l \in Loops : pc'[p][l] \notin {"claim", "write"} BY <1>a, <1>p, <3>2 DEF Goto, Move, TypeOK
      <3>4. fenced'[n] = fenced[n] BY <1>p, <3>2 DEF TypeOK
      <3> QED BY <1>4, <1>a, <2>1, <3>2, <3>3, <3>4 DEF Watchdog
    <2> QED BY <1>p, <2>2, <2>3
  <1>5. ASSUME NEW m \in Nodes, Claim(m)
        PROVE  /\ UNCHANGED <<up, fenced, stepDown, pong, ran>>
               /\ witness'.owner = n /\ witness'.age \in Nat /\ witness'.age <= RefreshTime
               /\ role'[n] = "primary" /\ role'[p] = "secondary"
               /\ \A l \in Loops : pc'[p][l] \notin {"claim", "write"}
    <2>1. m = n BY <1>5, <1>a, <1>c, <1>p DEF Claim, At
    <2>2. witness' = [owner |-> n, age |-> stamp[n]["watchdog"]] /\ role' = [role EXCEPT ![n] = "primary"]
          /\ UNCHANGED fenced
      BY <1>5, <1>f, <2>1 DEF Claim
    <2>3. \A l \in Loops : pc'[p][l] = pc[p][l] BY <1>5, <1>p, <2>1 DEF Claim, Goto, Move, TypeOK
    <2>4. role'[n] = "primary" /\ role'[p] = "secondary" BY <1>a, <1>p, <2>2 DEF TypeOK
    <2> QED BY <1>5, <1>a, <1>c, <1>s, <2>2, <2>3, <2>4 DEF Claim
  <1>6. ASSUME NEW m \in Nodes, NEW l \in Loops, RefreshStatus(m, l)
        PROVE  /\ UNCHANGED <<up, role, fenced, stepDown, pong, witness>>
               /\ <<n, "watchdog">> \in ran' => <<n, "watchdog">> \in ran
               /\ \A k \in Loops : pc'[p][k] \notin {"claim", "write"}
    <2>1. CASE m = n
      <3>1. Move(n, l, "write") /\ UNCHANGED ran
        BY <1>6, <1>a, <2>1 DEF RefreshStatus, WitnessedPair
      <3>2. \A k \in Loops : pc'[p][k] = pc[p][k] BY <3>1, <1>p DEF Goto, Move, TypeOK
      <3> QED BY <1>6, <1>a, <3>1, <3>2 DEF RefreshStatus
    <2>2. CASE m = p
      <3>1. Goto(p, l, "idle") /\ ran' = ran \cup {<<p, l>>}
        BY <1>6, <1>a, <2>2 DEF RefreshStatus, TurnOver
      <3>2. \A k \in Loops : pc'[p][k] \notin {"claim", "write"} BY <1>a, <1>p, <3>1 DEF Goto, Move, TypeOK
      <3> QED BY <1>6, <1>p, <3>1, <3>2 DEF RefreshStatus
    <2> QED BY <1>p, <2>1, <2>2
  <1>7. ASSUME NEW m \in Nodes, NEW l \in Loops, RefreshWrite(m, l)
        PROVE  /\ UNCHANGED <<up, role, stepDown, pong>> /\ ~fenced'[n]
               /\ witness'.owner = n /\ witness'.age \in Nat /\ witness'.age <= RefreshTime
               /\ \A k \in Loops : pc'[p][k] \notin {"claim", "write"}
    <2>1. m = n BY <1>7, <1>a, <1>p DEF RefreshWrite, At
    <2>2. /\ witness' = [owner |-> n, age |-> stamp[n][l]] /\ fenced' = [fenced EXCEPT ![n] = FALSE]
          /\ UNCHANGED <<up, role, stepDown, pong>> /\ Goto(n, l, "idle")
      BY <1>7, <1>f, <2>1 DEF RefreshWrite, TurnOver
    <2>3. \A k \in Loops : pc'[p][k] = pc[p][k] BY <2>2, <1>p DEF Goto, Move, TypeOK
    <2>4. ~fenced'[n] BY <2>2 DEF TypeOK
    <2> QED BY <1>a, <1>s, <2>2, <2>3, <2>4
  <1>8. CASE Tick
    <2>1. <<n, "watchdog">> \in ran BY <1>8, <1>a DEF Tick, WitnessedPair
    <2>2. witness.age <= RefreshTime BY <1>a, <2>1
    <2>3. Older(witness.age, WitnessHold) = witness.age + 1 BY <1>a, <1>r, <2>2 DEF Older
    <2>4. witness' = [witness EXCEPT !.age = Older(witness.age, WitnessHold)] BY <1>8 DEF Tick
    <2>5. witness'.owner = n /\ witness'.age = witness.age + 1
      <3>1. witness'.owner = witness.owner /\ witness'.age = Older(witness.age, WitnessHold)
        BY <2>4 DEF TypeOK
      <3> QED BY <1>a, <2>2, <2>3, <3>1
    <2>6. \A x \in Nodes : stepDown'[x] = 0 BY <1>8, <1>a DEF Tick
    <2>7. <<n, "watchdog">> \notin ran' BY <1>8 DEF Tick
    <2> QED BY <1>8, <1>a, <1>r, <2>2, <2>5, <2>6, <2>7 DEF Tick
  <1>9. CASE Cut \/ Heal BY <1>9, <1>a DEF Cut, Heal
  <1>10. ASSUME NEW m \in Nodes, TriggerManualFailover(m) PROVE FALSE
    BY <1>10, <1>e DEF TriggerManualFailover
  <1>11. ASSUME NEW m \in Nodes, Crash(m) PROVE FALSE BY <1>11, <1>e DEF Crash
  <1>12. ASSUME NEW m \in Nodes, Start(m) PROVE FALSE BY <1>12, <1>a, <1>p DEF Start
  <1>13. ASSUME NEW m \in Nodes, LoopStep(m) PROVE
        /\ up'[n] /\ role'[n] = "primary" /\ ~fenced'[n]
        /\ up'[p] /\ role'[p] = "secondary"
        /\ \A l \in Loops : pc'[p][l] \notin {"claim", "write"}
        /\ \A x \in Nodes : stepDown'[x] = 0 /\ ~pong'[x]
        /\ witness'.owner = n
        /\ witness'.age <= IF <<n, "watchdog">> \in ran' THEN RefreshTime ELSE RefreshTime + 1
    <2>1. CASE Ping(m) BY <1>1, <1>a, <2>1
    <2>2. CASE Pong(m) BY <1>2, <1>a, <2>2
    <2>3. CASE HeartbeatFails(m) BY <1>3, <1>a, <2>3
    <2>4. CASE Watchdog(m) BY <1>4, <1>a, <2>4
    <2>5. CASE Claim(m) BY <1>5, <1>a, <1>r, <2>5
    <2>6. ASSUME NEW l \in Loops, RefreshStatus(m, l) PROVE
        /\ UNCHANGED <<up, role, fenced, stepDown, pong, witness>>
        /\ <<n, "watchdog">> \in ran' => <<n, "watchdog">> \in ran
        /\ \A k \in Loops : pc'[p][k] \notin {"claim", "write"}
      BY <1>6, <2>6
    <2>7. CASE \E l \in Loops : RefreshStatus(m, l) BY <1>a, <2>6, <2>7
    <2>8. CASE \E l \in Loops : RefreshWrite(m, l) BY <1>a, <1>r, <1>7, <2>8
    <2> QED BY <1>13, <2>1, <2>2, <2>3, <2>4, <2>5, <2>7, <2>8 DEF LoopStep
  <1> QED BY <1>0, <1>8, <1>9, <1>10, <1>11, <1>12, <1>13 DEF Next

LEMMA SplitStep == WitnessedPair => (SplitInv /\ [Next]_vars => SplitInv')
  <1> SUFFICES ASSUME WitnessedPair, SplitInv, [Next]_vars, settled'
               PROVE  \E n \in Nodes : Leads(n)'
    BY TypeStep, StampsStep DEF SplitInv
  <1>1. TypeOK /\ StampsBounded BY DEF SplitInv
  <1>2. (settled \/ AtRest) /\ UNCHANGED <<manuals, crashes, errors>>
    <2>1. CASE UNCHANGED vars BY <2>1 DEF vars, faultVars
    <2>2. CASE Next
      <3>1. Note
        BY <2>2 DEF Next, LoopStep, Ping, Pong, HeartbeatFails, Watchdog, Claim, RefreshStatus,
           RefreshWrite, TriggerManualFailover, Crash, Start, Tick, Cut, Heal
      <3> QED BY <3>1 DEF Note
    <2> QED BY <2>1, <2>2
  <1>3. PICK n \in Nodes : Leads(n) BY <1>1, <1>2, RestLeads DEF SplitInv
  <1>4. Leads(n)' BY <1>1, <1>2, <1>3, LeadsStep
  <1> QED BY <1>4

LEMMA LeadsAlone == WitnessedPair => (SplitInv => NoSplitBrain)
  <1> SUFFICES ASSUME WitnessedPair, SplitInv, settled, NEW m \in Nodes, NEW n \in Nodes, m # n
               PROVE  AllocationScope(m) \cap AllocationScope(n) = {}
    BY DEF NoSplitBrain
  <1>1. PICK x \in Nodes : Leads(x) BY DEF SplitInv
  <1>2. Peer(x) = m \/ Peer(x) = n BY PeerFacts
  <1>3. AllocationScope(Peer(x)) = {} BY <1>1 DEF Leads, AllocationScope, WitnessedPair
  <1> QED BY <1>2, <1>3

\* A pair with a witness that has come to rest never allocates on both sides:
\* whatever is cut, healed, delayed or lost, as long as no one fails over by
\* hand, no node crashes and the witness can be accessed (settled).
THEOREM SplitBrainProtection == WitnessedPair => (Spec => []NoSplitBrain)
  <1> SUFFICES ASSUME WitnessedPair PROVE Spec => []NoSplitBrain OBVIOUS
  <1>1. Init => SplitInv BY TypeInit, LimitsAssumption DEF Init, SplitInv, StampsBounded
  <1>2. SplitInv /\ [Next]_vars => SplitInv' BY SplitStep
  <1>3. SplitInv => NoSplitBrain BY LeadsAlone
  <1> QED BY <1>1, <1>2, <1>3, PTL DEF Spec
=============================================================================

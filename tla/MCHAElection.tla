---------------------------- MODULE MCHAElection ----------------------------
(* Model-checking instances of HAElection: two peers, a before b.            *)
EXTENDS HAElection, TLC

CONSTANTS a, b

TwoNodes == {a, b}
NameOrder == a :> 1 @@ b :> 2
LowerWins == a :> 1 @@ b :> 2
SamePriority == a :> 1 @@ b :> 1
=============================================================================

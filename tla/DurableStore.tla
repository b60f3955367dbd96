---------------------------- MODULE DurableStore ----------------------------
(***************************************************************************)
(* What the storage engine promises the lease store, the address           *)
(* management, the accounts and the discovery, which all treat it as a     *)
(* map: a value that was acknowledged is there again after every restart,  *)
(* one whose write never answered may be there.  Of a damaged store        *)
(* nothing is promised until it is replaced as a whole.                    *)
(***************************************************************************)
CONSTANTS DKeys, DVals, DNone

VARIABLES
    available,  \* the store answers
    content,    \* what it answers; DNone everywhere while it does not
    sure,       \* the acknowledged value of each key
    unsure,     \* values whose write got no answer since
    damaged     \* the promise is void

durableVars == <<available, content, sure, unsure, damaged>>

Nothing == [k \in DKeys |-> DNone]

DurableInit ==
    /\ available = FALSE /\ content = Nothing
    /\ sure = Nothing /\ unsure = [k \in DKeys |-> {}]
    /\ damaged = FALSE

\* A value is written; readers see it before the writer has its answer.
DurableWrite(k, v) ==
    /\ available
    /\ content' = [content EXCEPT ![k] = v]
    /\ unsure' = [unsure EXCEPT ![k] = @ \cup {v}]
    /\ damaged => damaged'
    /\ UNCHANGED <<available, sure>>

\* A write fails: it may have left its value, but readers do not see it.
DurableWriteFails(k, v) ==
    /\ available
    /\ unsure' = [unsure EXCEPT ![k] = @ \cup {v}]
    /\ damaged => damaged'
    /\ UNCHANGED <<available, content, sure>>

\* The writer of the keys in K has its answer.
DurableAck(K) ==
    /\ available
    /\ sure' = [k \in DKeys |-> IF k \in K THEN content[k] ELSE sure[k]]
    /\ unsure' = [k \in DKeys |-> IF k \in K THEN {} ELSE unsure[k]]
    /\ UNCHANGED <<available, content, damaged>>

\* All of the store is about to be replaced by the map m, and then is.
DurableReplaceBegins(m) ==
    /\ available
    /\ unsure' = [k \in DKeys |-> unsure[k] \cup {m[k]}]
    /\ UNCHANGED <<available, content, sure, damaged>>

DurableReplaced(m) ==
    /\ available
    /\ content' = m /\ sure' = m
    /\ unsure' = [k \in DKeys |-> {}]
    /\ damaged' = FALSE
    /\ UNCHANGED available

\* The store goes away and comes back.
DurableStops ==
    /\ available' = FALSE /\ content' = Nothing
    /\ damaged => damaged'
    /\ UNCHANGED <<sure, unsure>>

DurableStarts ==
    /\ ~available /\ available'
    /\ damaged \/ \A k \in DKeys : content'[k] \in {sure[k]} \cup unsure[k]
    /\ DOMAIN content' = DKeys
    /\ UNCHANGED <<sure, unsure, damaged>>

\* The log is damaged behind the reader's back.
DurableDecays == damaged' /\ UNCHANGED <<available, content, sure, unsure>>

DurableNext ==
    \/ \E k \in DKeys, v \in DVals : DurableWrite(k, v) \/ DurableWriteFails(k, v)
    \/ \E K \in SUBSET DKeys : DurableAck(K)
    \/ \E m \in [DKeys -> DVals] : DurableReplaceBegins(m) \/ DurableReplaced(m)
    \/ DurableStops \/ DurableStarts \/ DurableDecays

DurableSpec == DurableInit /\ [][DurableNext]_durableVars
=============================================================================

-------------------------- MODULE MCStorageEngine --------------------------
(***************************************************************************)
(* Instances of StorageEngine.  Each behaviour keeps to one of the things  *)
(* clients do beside transactions (Foci names the ones a run takes), so    *)
(* that the state space is their sum and not their product: nothing        *)
(* ("crash"), watching ("watch"), or backups and restores ("restore"); in  *)
(* the last two a transaction has one mutation, of the key in use.         *)
(***************************************************************************)
EXTENDS StorageRefinement, TLC

CONSTANT Foci
VARIABLE focus
mcVars == <<vars, focus>>

OneKey ==
    tx'.active => /\ Len(tx'.muts) = 1
                  /\ \A k \in Keys \ {tx'.muts[1].key} : trees[k] = NoVal /\ maybe[k] = {}
NoWatchers == \A w \in Watchers : ~watch'[w].on
NoBackups == \A s \in Snapshotters : snapper'[s] = "idle"

\* Bound on the log, besides MaxWal, which lets a transaction begin.
MaxWalOf == [crash |-> 4, watch |-> 4, restore |-> 3]

\* A transaction begins only when the log has room for it within the bound.
Fits == tx'.active /\ ~tx.active => Len(wal) + 2 <= MaxWalOf[focus]

Symmetric == Permutations(Keys) \cup Permutations(Snapshotters) \cup Permutations(Watchers)

MCInit == Init /\ focus \in Foci
MCNext ==
    /\ Next
    /\ UNCHANGED focus
    /\ Len(wal') <= MaxWalOf[focus]
    /\ CASE focus = "crash"   -> NoWatchers /\ NoBackups /\ ~tx'.notify
         [] focus = "watch"   -> NoBackups /\ OneKey
         [] focus = "restore" -> NoWatchers /\ ~tx'.notify /\ OneKey /\ Fits
MCSpec == MCInit /\ [][MCNext]_mcVars
============================================================================

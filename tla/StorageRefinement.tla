------------------------- MODULE StorageRefinement -------------------------
(***************************************************************************)
(* The storage engine implements DurableStore.  The store answers while    *)
(* the engine is open, with the content of the trees, be they loaded from  *)
(* the snapshot and the log or written since; the log, the snapshot file,  *)
(* the backups and the steps of a transaction are hidden.                  *)
(***************************************************************************)
EXTENDS StorageEngine

Durable == INSTANCE DurableStore WITH
    DKeys <- Keys,
    DVals <- Values,
    DNone <- NoVal,
    available <- phase = "open",
    content <- IF phase = "open" THEN trees ELSE EmptyMap,
    sure <- acked,
    unsure <- maybe,
    damaged <- buried \/ gapped

\* Every behaviour of the engine, with its crashes, failing writes, snapshots,
\* backups and restores, is one of a durable map: OpenEngine brings back what
\* Engine.tx and RestoreSnapshot acknowledged, a transaction shows its values
\* one by one and acknowledges them together, and nothing else (a snapshot, a
\* backup, a log rotation, a failed restore) changes what readers see.
ImplementsDurableStore == Durable!DurableSpec
=============================================================================

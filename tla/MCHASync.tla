------------------------------ MODULE MCHASync ------------------------------
(***************************************************************************)
(* Model-checking instance of HASync: every address is leased on the       *)
(* primary at first, so that a release and a new grant both happen within  *)
(* MaxSeq; the secondary starts with any leases.                           *)
(***************************************************************************)
EXTENDS HASync

MCInit == SyncInit /\ \A ip \in IPs : pl[ip] # Absent

MCSpec == MCInit /\ [][SyncNext]_syncVars /\ SyncFairness
=============================================================================

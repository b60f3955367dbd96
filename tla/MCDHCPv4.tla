------------------------------ MODULE MCDHCPv4 ------------------------------
(***************************************************************************)
(* Instances of DHCPv4.  Clients are interchangeable.  Each behaviour      *)
(* keeps to one focus of Foci, so that the state space is their sum:       *)
(* "all" takes every step the constants allow; "sweep" has clients leave   *)
(* and the sweeper run over one address, without requests of the API;      *)
(* "api" has requests of the API on all addresses up to time ApiTime,      *)
(* without sweeper and without leaving clients.                            *)
(***************************************************************************)
EXTENDS DHCPv4, TLC

CONSTANTS Foci, ApiTime
VARIABLE focus
mcVars == <<vars, focus>>

Symmetry == Permutations(MACs)

MCInit == Init /\ focus \in Foci
MCNext ==
    /\ Next
    /\ UNCHANGED focus
    /\ CASE focus = "sweep" -> used' \subseteq {Min(IPs)} /\ job'["api"] = NoJob
         [] focus = "api"   -> /\ now' <= ApiTime /\ net' = {} /\ sweep' = sweep
                               /\ job'["api"] # NoJob => job'["api"].ip = Min(IPs)
         [] focus = "all"   -> TRUE
MCSpec == MCInit /\ [][MCNext]_mcVars
=============================================================================

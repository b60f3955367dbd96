---------------------------- MODULE LeaseService ----------------------------
(***************************************************************************)
(* What the DHCPv4 server promises its clients: an address is used by one  *)
(* client at a time, never longer than a lease time, and a renewal never   *)
(* takes back what was promised before.  Of an address that was taken from *)
(* its user by other means, or whose records can no longer be trusted,     *)
(* nothing is promised.                                                    *)
(***************************************************************************)
EXTENDS Naturals

CONSTANTS Clients, Addresses, Duration, Unused

VARIABLES
    time,
    uses,       \* the address each client uses, and until when, or Unused
    void        \* addresses of which nothing is promised any more

serviceVars == <<time, uses, void>>

ServiceInit == time = 1 /\ uses = [c \in Clients |-> Unused] /\ void = {}

UsedBy(c, ip) == uses[c] # Unused /\ uses[c].ip = ip

\* A client gets an address, or a longer lease of the one it uses.
Grant(c, ip, until) ==
    /\ until \in time..(time + Duration)
    /\ ip \notin void => /\ \A d \in Clients \ {c} : ~UsedBy(d, ip)
                         /\ UsedBy(c, ip) => until >= uses[c].expiry
    /\ uses' = [uses EXCEPT ![c] = [ip |-> ip, expiry |-> until]]
    /\ UNCHANGED <<time, void>>

\* A client starts anew, is refused, or leaves.
Stop(c) == uses' = [uses EXCEPT ![c] = Unused] /\ UNCHANGED <<time, void>>

\* Who has reached the end of its lease stops.
Pass ==
    /\ time' = time + 1
    /\ uses' = [c \in Clients |-> IF uses[c] # Unused /\ uses[c].expiry >= time' THEN uses[c] ELSE Unused]
    /\ UNCHANGED void

\* The promise about some addresses ends, and nobody's use changes.
GiveUp(lost) == void' = void \cup lost /\ UNCHANGED <<time, uses>>

ServiceNext ==
    \/ \E c \in Clients, ip \in Addresses, until \in time..(time + Duration) : Grant(c, ip, until)
    \/ \E c \in Clients : Stop(c)
    \/ Pass
    \/ \E lost \in SUBSET Addresses : GiveUp(lost)

ServiceSpec == ServiceInit /\ [][ServiceNext]_serviceVars

\* No two clients use one address that is not void.
Exclusive ==
    \A c, d \in Clients : c # d /\ uses[c] # Unused /\ uses[c].ip \notin void => ~UsedBy(d, uses[c].ip)
=============================================================================

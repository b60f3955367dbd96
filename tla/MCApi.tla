------------------------------- MODULE MCApi -------------------------------
(***************************************************************************)
(* The services behind the REST, gRPC and MCP interfaces.  They share no   *)
(* state beyond the store, so each behaviour exercises one of them, the    *)
(* focus, and the state space is the sum of theirs:                        *)
(*   accounts, tokens - AuthService: users and sessions, or API tokens     *)
(*   limits, roles    - ApiGate: two unauthenticated logins over time, or  *)
(*                      one request of any kind                            *)
(*   config           - ConfigReload, from the defaults                    *)
(*   ipam, race       - Ipam: one caller at a time, leases and restarts, or *)
(*                      two that create subnets and reservations at once   *)
(***************************************************************************)
EXTENDS AuthService, ApiGate, ConfigReload, Ipam, TLC

CONSTANT Foci
VARIABLE focus

mcVars == <<authVars, gateVars, cfgVars, ipamVars, focus>>

(* Values of the constants *)
MCSettings == {[enforced |-> e, rate |-> 1, authRate |-> a] : e \in BOOLEAN, a \in {1, 2}}
FirstSlot == "r1"
FirstCaller == "i1"

Net(a, b) == [addr |-> a, bits |-> b]
SubnetInput(a, b, gw, d, s, e) ==
    [addr |-> a, bits |-> b, gw |-> gw, vlan |-> 0, dhcp |-> d, start |-> s, end |-> e]
MCSubnets ==
    {SubnetInput(0, 0, -1, TRUE, 1, 5), SubnetInput(1, 1, 1, TRUE, 2, 3), SubnetInput(4, 1, 5, FALSE, -1, -1)}
MCReservations ==
    {[mac |-> m, ip |-> 2, net |-> NoNet] : m \in 1..2} \cup {[mac |-> 1, ip |-> 5, net |-> Net(4, 1)]}
MCRows == {[ip |-> 2, net |-> NoNet, state |-> "available", mac |-> 2]}
MCLeases ==
    {[ip |-> 2, mac |-> 1, state |-> "bound", net |-> NoNet], [ip |-> 2, mac |-> 1, state |-> "released", net |-> Net(0, 1)]}
MCLeaseRows == {[ip |-> 2, mac |-> 2, state |-> "bound", net |-> Net(4, 1)]}

(* The foci *)
\* Names that are interchangeable are used in order: sessions are drawn one
\* after the other, r1 is the first request to act and u1 the first user, with
\* password p1; u2 only races for the bootstrap.
Drawn(s) == mem'[s] # None \/ stored'[s] # None \/ s \in out'
Comparing(r) == thr'[r].pc = "compare"
Accounts ==
    /\ AuthNext
    /\ rec' = rec
    /\ Drawn("s2") => Drawn("s1")
    /\ \A r \in Requests : thr[r] = Resting /\ thr'[r] # Resting =>
          /\ r = "r1" \/ thr["r1"] # Resting
          /\ IF thr'[r].pc = "bootstrap"
             THEN thr'[r].known = "p1" /\ (thr'[r].user = "u1") = (r = "r1")
             ELSE thr'[r].user = "u1"
    /\ pw'["u2"] # None => pw["u2"] # None \/ \E r \in Requests : thr[r].pc = "bootstrap"
    /\ pw["u1"] = None => pw'["u1"] # "p2"
TokensOnly == AuthNext /\ pw' = pw /\ \A r \in Requests : ~Comparing(r)

Used(r) == greq'[r] # FreeSlot
Limits ==
    /\ GateNext
    /\ gset'.enforced = gset.enforced
    /\ \A r \in GateSlots : Used(r) => /\ greq'[r].ep = "login" /\ greq'[r].cred = "none" /\ ~greq'[r].cross
                                       /\ Used(FirstSlot)
Roles ==
    /\ GateNext
    /\ gnow' = 0 /\ gset'.authRate = gset.authRate
    /\ \A r \in GateSlots \ {FirstSlot} : ~Used(r)

OneCaller == IpamNext /\ \A r \in IpamCallers \ {FirstCaller} : calls'[r] = Idle
TwoCallers ==
    /\ IpamNext
    /\ starts' <= 1 /\ UNCHANGED <<leases, addrs>>
    /\ mode' = "import" => UNCHANGED <<subnets, resv>>
    /\ DOMAIN subnets \subseteq DOMAIN subnets' /\ DOMAIN resv \subseteq DOMAIN resv'
    /\ \A r \in IpamCallers : calls[r] = Idle /\ calls'[r] # Idle =>
          /\ calls'[r].pc \in {"putSubnet", "taken"} /\ calls'[r].via = "rest"
          /\ r = FirstCaller \/ calls[FirstCaller] # Idle

\* An update changes something and a signal finds a changed file; an edit leaves a file with both keys changed,
\* or a file that is refused; there are two disturbances, edits or faults.
Changes ==
    /\ CfgNext
    /\ \A t \in Updaters : cthr[t] = Quiet /\ cthr'[t] # Quiet =>
          cthr'[t].val # mgrCfg[cthr'[t].key] /\ (cthr'[t].key = "cold" => cthr'[t].val = "y")
    /\ cthr[Main] = Quiet /\ cthr'[Main] # Quiet => cfgFile # mgrCfg
    /\ cleft'.edits < cleft.edits => cfgFile' \in {Broken, [k \in Keys |-> "y"]}
    /\ cleft'.edits + cleft'.faults >= 1

MCInit ==
    /\ focus \in Foci
    /\ AuthInit /\ GateInit /\ CfgInit /\ IpamInit
    /\ focus = "config" => cfgFile = DefaultConfig
    /\ focus # "config" => cfgFile = Missing
    /\ focus \notin {"limits", "roles"} => ~gset.enforced /\ gset.authRate = 1

OthersRest(f) ==
    /\ UNCHANGED focus
    /\ f \in {"accounts", "tokens"} \/ UNCHANGED authVars
    /\ f \in {"limits", "roles"} \/ UNCHANGED gateVars
    /\ f = "config" \/ UNCHANGED cfgVars
    /\ f \in {"ipam", "race"} \/ UNCHANGED ipamVars

MCNext ==
    \/ focus = "accounts" /\ Accounts /\ OthersRest("accounts")
    \/ focus = "tokens" /\ TokensOnly /\ OthersRest("tokens")
    \/ focus = "limits" /\ Limits /\ OthersRest("limits")
    \/ focus = "roles" /\ Roles /\ OthersRest("roles")
    \/ focus = "config" /\ Changes /\ OthersRest("config")
    \/ focus = "ipam" /\ OneCaller /\ OthersRest("ipam")
    \/ focus = "race" /\ TwoCallers /\ OthersRest("race")

MCSpec == MCInit /\ [][MCNext]_mcVars

\* The type invariants of the four services.
ApiTypeOK == AuthTypeOK /\ GateTypeOK /\ CfgTypeOK /\ IpamTypeOK
============================================================================

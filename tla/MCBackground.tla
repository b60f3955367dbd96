---------------------------- MODULE MCBackground ----------------------------
(***************************************************************************)
(* The parts that work beside the DHCPv4 server.  They share no state      *)
(* beyond the store and the broker, so each behaviour exercises one of     *)
(* them, the focus, and the state space is the sum of theirs:              *)
(*   webhooks, sockets - EventBus: the dispatcher, or one websocket client *)
(*                       and the event stream                              *)
(*   scans, locks      - Discovery: what scans store while subnets change, *)
(*                       or scans, Status and the rogue detector at e.mu   *)
(*   roam6, sweep6     - DHCPv6: clients on two links and late messages,   *)
(*                       or one link and the sweeper                       *)
(*   ddns              - DDNS                                              *)
(*   mcp               - McpServer                                         *)
(***************************************************************************)
EXTENDS EventBus, Discovery, DHCPv6, DDNS, McpServer

CONSTANT Foci
VARIABLE focus

mcVars == <<busVars, discVars, v6Vars, ddnsVars, mcpVars, focus>>

(* Values of the constants *)
MCEventTypes == {<<"subnet", "upserted">>, <<"discovery", "scan_completed">>}
MCHooks == <<{<<"*", "*">>}, {<<"subnet", "*">>}>>
MCSubPatterns == {{}, {<<"subnet", "*">>}}

MCNets == [s \in Subnets |-> IF s = "n1" THEN {1, 2} ELSE {3}]
MCPools == [s \in Subnets |-> IF s = "n1" THEN <<1, 2>> ELSE <<3, 3>>]
MCRequests == {{}, {"n1"}, {"n1", "n2"}}
MCLeaseTables == {<<>>, [ip \in {1, 3} |-> [mac |-> "A", subnet |-> IF ip = 3 THEN "n1" ELSE DNone]]}
MCReservationTables == {[ip \in {1} |-> "B"]}
MCArpTables == {<<>>}

\* Host names and addresses of DDNS are interchangeable.
MCSymmetry == Permutations(DnsHosts) \cup Permutations(DnsIPs)

MCPrefixes == <<{1}, {2}>>
MCRanges == <<{1}, {2}>>

(* The foci *)
\* The hub and the dispatcher only share the published events: of the part that
\* is not looked at the events are sent first and then rest, until the shutdown.
SentFirst(s) ==
    (\E e \in Events : <<e, s>> \in sending) => \E e \in Events : <<e, s>> \in sending \ sending'
HubRests == ~cancelled \/ hub.pc = "done" \/ (hub.pc = "closing" /\ hub.todo = {} /\ sending # {})
\* Both webhooks want the first event, one of them the second.
Webhooks ==
    /\ BusNext /\ ws' = ws /\ stream' = stream /\ hub'.pc # "broadcast"
    /\ \A e \in Events' : (etype'[e] = <<"subnet", "upserted">>) <=> (e = 1)
    /\ hub' # hub \/ (SentFirst("hub") /\ (HubRests \/ sending' # sending))
Sockets ==
    /\ BusNext /\ disp' = disp /\ sender' = sender /\ SentFirst("hooks")
    /\ stream'.at = "out" \/ \A c \in Clients : ws'[c].at = "out"

\* Two scans are interchangeable: s1 is called first.
InOrder == \A i \in Scans : dscan'[i].pc # "none" => i = "s1" \/ dscan'["s1"].pc # "none"
ScanData == DiscNext /\ InOrder /\ poll' = poll /\ drogue' = drogue
ScanLocks ==
    /\ DiscNext /\ InOrder /\ ipamNets' = ipamNets
    /\ \A i \in Scans : /\ dscan[i].pc = "persist" => dscan'[i].pc # "completed"
                        /\ (dscan'[i].pc = "trigger" => dscan'[i].scope = {})
                        /\ DOMAIN dscan'[i].hosts \subseteq {1}
                        /\ DOMAIN dscan'[i].known \subseteq {1}

Roam6 == V6Next /\ sweep6' = sweep6 /\ now6' <= 2 /\ Cardinality(net6') <= 1
Sweep6 == V6Next /\ net6' = net6 /\ lease6'[2] = lease6[2]

OthersRest(part) ==
    /\ UNCHANGED focus
    /\ part = "bus" \/ UNCHANGED busVars
    /\ part = "discovery" \/ UNCHANGED discVars
    /\ part = "v6" \/ UNCHANGED v6Vars
    /\ part = "ddns" \/ UNCHANGED ddnsVars
    /\ part = "mcp" \/ UNCHANGED mcpVars

MCInit == focus \in Foci /\ BusInit /\ DiscInit /\ V6Init /\ DdnsInit /\ McpInit

MCNext ==
    \/ focus = "webhooks" /\ Webhooks /\ OthersRest("bus")
    \/ focus = "sockets" /\ Sockets /\ OthersRest("bus")
    \/ focus = "scans" /\ ScanData /\ OthersRest("discovery")
    \/ focus = "locks" /\ ScanLocks /\ OthersRest("discovery")
    \/ focus = "roam6" /\ Roam6 /\ OthersRest("v6")
    \/ focus = "sweep6" /\ Sweep6 /\ OthersRest("v6")
    \/ focus = "ddns" /\ DdnsNext /\ OthersRest("ddns")
    \/ focus = "mcp" /\ McpNext /\ OthersRest("mcp")

MCSpec == MCInit /\ [][MCNext]_mcVars

\* The fairness of the three components with liveness properties.  Nothing they
\* promise to do can be done while they rest.
MCFairSpec == MCSpec /\ BusFairness /\ DiscFairness /\ McpFairness

\* The type invariants of the parts.
BackgroundTypeOK == BusTypeOK /\ DiscTypeOK /\ V6TypeOK /\ DdnsTypeOK /\ McpTypeOK
============================================================================

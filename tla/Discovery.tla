----------------------------- MODULE Discovery -----------------------------
(***************************************************************************)
(* The discovery engine (internal/discovery): scans triggered by the      *)
(* interfaces and by the scheduler, the status calls that poll it, the     *)
(* detector of rogue DHCP servers, and what the engine keeps in memory     *)
(* (under e.mu) and in the store (trees discovery_scans and                *)
(* discovery_meta).                                                        *)
(*                                                                         *)
(* e.mu is a sync.RWMutex: a writer that waits keeps new readers out, also *)
(* a reader that already holds the lock and takes it again, as Status      *)
(* does.  A section between Lock and Unlock does not block and is one      *)
(* step; the only reader that holds the lock over several steps is Status. *)
(*                                                                         *)
(* A scan is named by the call of TriggerScan that asks for it.  An        *)
(* address is a number, a subnet a set of addresses with a pool (lo..hi,   *)
(* empty when DHCP is disabled); tables of reservations and ARP neighbours *)
(* map some addresses to a MAC, tables of leases to a MAC and the subnet   *)
(* the lease names, or none.  Times, vendors, host names and percentages   *)
(* are left out.                                                           *)
(***************************************************************************)
EXTENDS Naturals, Sequences, FiniteSets, Functions

CONSTANTS
    Scans,              \* calls of TriggerScan
    Pollers,            \* goroutines that call Status
    Subnets,            \* CIDRs a request may name
    Nets,               \* addresses of each subnet
    Pools,              \* <<lo, hi>> of each subnet
    Requests,           \* sets of subnets a request names
    LeaseTables, ReservationTables, ArpTables,
    Methods,            \* discovery methods of the configuration
    MaxTargetsPerSubnet,
    RogueIPs, RogueCap, \* rogue servers and the length of latestRogue
    DNone,              \* no thread, no scan
    DMaxEdits,          \* bound on changes of the subnets in IPAM
    DMaxRogues,         \* bound on rogue reports
    DMaxFaults          \* bound on failed transactions and restarts

ASSUME DiscoveryAssumption ==
    /\ DNone \notin Scans \cup Pollers \cup Subnets \cup RogueIPs
    /\ RogueCap \in Nat \ {0, 1} /\ MaxTargetsPerSubnet \in Nat \ {0}
    /\ Requests \subseteq SUBSET Subnets
    /\ DMaxEdits \in Nat /\ DMaxRogues \in Nat /\ DMaxFaults \in Nat

VARIABLES
    dmem,       \* Engine: scanning, inProgress, phase, latestID, rogue
    ddisk,      \* discovery_scans and discovery_meta
    dscan,      \* one record per call of TriggerScan
    poll,       \* Pollers -> "idle", "held"
    waiter,     \* the writer that waits for e.mu, or DNone
    drogue,     \* the goroutine of the rogue detector
    reported,   \* rogue servers published as discovery.rogue_dhcp
    ipamNets,   \* subnets IPAM holds
    dleft       \* edits, reports and faults left

discVars == <<dmem, ddisk, dscan, poll, waiter, drogue, reported, ipamNets, dleft>>

IPs == UNION {Nets[s] : s \in Subnets}
HostStates == {"known", "new", "changed", "missing"}

\* Leases, reservations and neighbours have addresses of the subnets, and a
\* pool lies in its subnet.  A lease may name a subnet its address is not in.
ASSUME TablesAssumption ==
    /\ \A t \in LeaseTables \cup ReservationTables \cup ArpTables : DOMAIN t \subseteq IPs
    /\ \A l \in LeaseTables : \A ip \in DOMAIN l : l[ip].subnet \in Subnets \cup {DNone}
    /\ \A s \in Subnets : Pools[s][1]..Pools[s][2] \subseteq Nets[s]

NoScan == [pc |-> "none", scope |-> {}, resolved |-> {}, prev |-> <<>>,
           known |-> <<>>, conflicts |-> {}, hosts |-> <<>>]

-----------------------------------------------------------------------------
(* The lock                                                                *)

\* Goroutines inside Status, which hold a read lock.
Readers == {p \in Pollers : poll[p] = "held"}

\* RLock returns at once: no writer waits.
CanRLock == waiter = DNone

\* Lock returns: no reader is left, and no other writer is ahead.
CanLock(t) == Readers = {} /\ waiter \in {DNone, t}

\* Lock waits for the readers; from now on new readers wait as well.
Await(t) == /\ Readers # {} /\ waiter = DNone
            /\ waiter' = t
            /\ UNCHANGED <<dmem, ddisk, dscan, poll, drogue, reported, ipamNets, dleft>>

\* A section under Lock that the scan or the detector enters.
Locked(t) == CanLock(t) /\ waiter' = DNone

-----------------------------------------------------------------------------
(* What a scan computes                                                    *)

\* ipMatchesSubnets
ipMatchesSubnets(ip, sub, nets) ==
    nets = {} \/ sub \in nets \/ \E s \in nets : ip \in Nets[s]

\* resolveTargetSubnets: the requested subnets that IPAM holds.
resolveTargetSubnets(req) == IF req = {} THEN ipamNets ELSE req \cap ipamNets

HomeOf(ip) == CHOOSE s \in Subnets : ip \in Nets[s]

\* collectKnownHosts: leases first, reservations fill what is missing.
collectKnownHosts(l, r) ==
    LET named(ip) == ip \in DOMAIN l /\ l[ip].subnet # DNone
    IN  [ip \in DOMAIN l \cup DOMAIN r |->
            [mac |-> IF ip \in DOMAIN l THEN l[ip].mac ELSE r[ip],
             subnet |-> IF named(ip) THEN l[ip].subnet ELSE IF ip \in DOMAIN r THEN HomeOf(ip) ELSE DNone]]

\* The ARP neighbours inside the scanned subnets, added to the known hosts.
WithARP(known, a, nets) ==
    LET new == {ip \in DOMAIN a \ DOMAIN known : ipMatchesSubnets(ip, DNone, nets)}
    IN  [ip \in DOMAIN known \cup new |->
            IF ip \in new THEN [mac |-> a[ip], subnet |-> DNone] ELSE known[ip]]

\* collectConflictMap and filterConflictMapForSubnets
collectConflicts(l, r, nets) ==
    {ip \in DOMAIN l \cap DOMAIN r : l[ip].mac # r[ip] /\ ipMatchesSubnets(ip, DNone, nets)}

\* filterKnownHostsForSubnets, filterObservedHostsForSubnets
filterHosts(hosts, nets) ==
    Restrict(hosts, {ip \in DOMAIN hosts : ipMatchesSubnets(ip, hosts[ip].subnet, nets)})

hasActiveProbe == Methods \cap {"ping", "tcp", "arp"} # {}

\* poolBounds: the first addresses of the pool.
PoolTargets(s) == {ip \in Pools[s][1]..Pools[s][2] : ip - Pools[s][1] < MaxTargetsPerSubnet}

\* buildTargets
buildTargets(nets, known, prev) ==
    DOMAIN known \cup DOMAIN prev
    \cup (IF hasActiveProbe THEN UNION {PoolTargets(s) : s \in nets} ELSE {})

\* deriveState
deriveState(ip, known, prev, alive, named) ==
    CASE /\ ip \in DOMAIN prev /\ ip \in DOMAIN known
         /\ prev[ip].mac # DNone /\ prev[ip].mac # known[ip].mac -> "changed"
      [] ip \notin DOMAIN known -> "new"
      [] ip \in named \ alive   -> "missing"
      [] OTHER                  -> "known"

\* runScan, from the outcomes of the probes to the list of hosts.
ObservedHosts(known, prev, targets, alive, named) ==
    LET seen == {ip \in targets : ip \in DOMAIN known \cup alive}
    IN  [ip \in seen \cup DOMAIN prev |->
            IF ip \in seen
            THEN [mac |-> IF ip \in DOMAIN known THEN known[ip].mac ELSE DNone,
                  subnet |-> IF ip \in DOMAIN known THEN known[ip].subnet ELSE DNone,
                  state |-> deriveState(ip, known, prev, alive, named)]
            ELSE [prev[ip] EXCEPT !.state = "missing"]]

\* Mutant: latest_hosts is replaced by the hosts of the scan.
PersistedHosts_Replaces(old, scope, hosts) == hosts

\* persistResult: what latest_hosts becomes.
PersistedHosts(old, scope, hosts) ==
    LET kept == {ip \in DOMAIN old :
                    scope # {} /\ ~ipMatchesSubnets(ip, old[ip].subnet, scope)}
    IN  [ip \in kept \cup DOMAIN hosts |-> IF ip \in DOMAIN hosts THEN hosts[ip] ELSE old[ip]]

-----------------------------------------------------------------------------
(* TriggerScan and runScan                                                 *)

NoHosts == [ip \in {} |-> [mac |-> DNone, subnet |-> DNone, state |-> "new"]]

\* NewEngineWithOptions over an empty store.
DiscInit ==
    /\ dmem = [scanning |-> FALSE, inProgress |-> FALSE, phase |-> "idle",
               latestID |-> DNone, rogue |-> <<>>]
    /\ ddisk = [scans |-> {}, hosts |-> NoHosts, latest |-> DNone, rogue |-> <<>>]
    /\ dscan = [i \in Scans |-> NoScan]
    /\ poll = [p \in Pollers |-> "idle"]
    /\ waiter = DNone
    /\ drogue = [pc |-> "idle", ip |-> DNone]
    /\ reported = {}
    /\ ipamNets = Subnets
    /\ dleft = [edits |-> DMaxEdits, rogues |-> DMaxRogues, faults |-> DMaxFaults]

Moves(i, pc) == dscan' = [dscan EXCEPT ![i].pc = pc]

\* An interface or the scheduler calls TriggerScan.
CallTrigger(i, req) ==
    /\ dscan[i].pc = "none"
    /\ dscan' = [dscan EXCEPT ![i].pc = "trigger", ![i].scope = req]
    /\ UNCHANGED <<dmem, ddisk, poll, waiter, drogue, reported, ipamNets, dleft>>

\* The first section of TriggerScan refuses a second scan.
Trigger(i) ==
    /\ dscan[i].pc = "trigger" /\ Locked(i)
    /\ IF dmem.scanning
       THEN Moves(i, "refused") /\ UNCHANGED dmem
       ELSE /\ Moves(i, "named")
            /\ dmem' = [dmem EXCEPT !.scanning = TRUE, !.inProgress = TRUE,
                                    !.phase = "initializing"]
    /\ UNCHANGED <<ddisk, poll, drogue, reported, ipamNets, dleft>>

\* updateProgress between two parts of a scan.
ProgressAfter ==
    [named |-> <<"collecting", "context">>, targets |-> <<"probing", "probe">>,
     outcomes |-> <<"analyzing", "rogue">>, analyzed |-> <<"persisting", "persist">>]

UpdateProgress(i) ==
    /\ dscan[i].pc \in DOMAIN ProgressAfter /\ Locked(i)
    /\ dmem' = [dmem EXCEPT !.phase = ProgressAfter[dscan[i].pc][1]]
    /\ Moves(i, ProgressAfter[dscan[i].pc][2])
    /\ UNCHANGED <<ddisk, poll, drogue, reported, ipamNets, dleft>>

\* resolveScanContext and snapshotRogueServers take the read lock; runScan
\* reads onComplete under it and publishes discovery.scan_completed.
ReadAfter == [context |-> "collect", rogue |-> "analyzed", publish |-> "finish"]

ReadLocked(i) ==
    /\ dscan[i].pc \in DOMAIN ReadAfter /\ CanRLock
    /\ Moves(i, ReadAfter[dscan[i].pc])
    /\ UNCHANGED <<dmem, ddisk, poll, waiter, drogue, reported, ipamNets, dleft>>

\* runScan reads leases, reservations, subnets, earlier hosts and neighbours.
Collect(i, l, r, a) ==
    LET asked == dscan[i].scope
        nets  == resolveTargetSubnets(asked)
        known == filterHosts(collectKnownHosts(l, r), nets)
    IN  /\ dscan[i].pc = "collect"
        /\ dscan' = [dscan EXCEPT
               ![i] = [@ EXCEPT !.pc = "targets",
                                !.scope = IF asked = {} THEN nets ELSE asked,
                                !.resolved = nets,
                                !.prev = filterHosts(ddisk.hosts, nets),
                                !.known = IF "arp" \in Methods THEN WithARP(known, a, nets)
                                                               ELSE known,
                                !.conflicts = collectConflicts(l, r, nets)]]
        /\ UNCHANGED <<dmem, ddisk, poll, waiter, drogue, reported, ipamNets, dleft>>

\* probeTargets and the analysis of its outcomes.
Probe(i, alive, named) ==
    LET s == dscan[i]
        targets == buildTargets(s.resolved, s.known, s.prev)
    IN  /\ s.pc = "probe"
        /\ alive \subseteq (IF Methods \cap {"ping", "tcp"} # {} THEN targets ELSE {})
        /\ named \subseteq (IF "dns" \in Methods THEN targets ELSE {})
        /\ dscan' = [dscan EXCEPT
               ![i] = [@ EXCEPT !.pc = "outcomes", !.prev = <<>>, !.known = <<>>,
                                !.hosts = ObservedHosts(s.known, s.prev, targets, alive, named)]]
        /\ UNCHANGED <<dmem, ddisk, poll, waiter, drogue, reported, ipamNets, dleft>>

\* Mutant: latest_scan_id is put before the scan.
PersistPuts_LatestFirst(i) ==
    <<[ddisk EXCEPT !.latest = i],
      [ddisk EXCEPT !.latest = i, !.scans = @ \cup {<<i, dscan[i].conflicts>>}],
      [ddisk EXCEPT !.scans = @ \cup {<<i, dscan[i].conflicts>>},
                    !.hosts = PersistedHosts(@, dscan[i].scope, dscan[i].hosts),
                    !.latest = i]>>

\* The mutations of persistResult's transaction, in the order it puts them.
PersistPuts(i) ==
    <<[ddisk EXCEPT !.scans = @ \cup {<<i, dscan[i].conflicts>>}],
      [ddisk EXCEPT !.scans = @ \cup {<<i, dscan[i].conflicts>>},
                    !.hosts = PersistedHosts(@, dscan[i].scope, dscan[i].hosts)],
      [ddisk EXCEPT !.scans = @ \cup {<<i, dscan[i].conflicts>>},
                    !.hosts = PersistedHosts(@, dscan[i].scope, dscan[i].hosts),
                    !.latest = i]>>

\* persistResult: the transaction, or as much of it as was logged when an
\* append failed; runScan ignores the error.
Persist(i, n) ==
    /\ dscan[i].pc = "persist"
    /\ n < 3 => dleft.faults > 0
    /\ dleft' = [dleft EXCEPT !.faults = IF n < 3 THEN @ - 1 ELSE @]
    /\ ddisk' = IF n = 0 THEN ddisk ELSE PersistPuts(i)[n]
    /\ Moves(i, IF n = 3 THEN "stored" ELSE "completed")
    /\ UNCHANGED <<dmem, poll, waiter, drogue, reported, ipamNets>>

\* persistResult after the transaction, then the last updateProgress.
SetLatest(i) ==
    /\ dscan[i].pc = "stored" /\ Locked(i)
    /\ dmem' = [dmem EXCEPT !.latestID = i]
    /\ Moves(i, "completed")
    /\ UNCHANGED <<ddisk, poll, drogue, reported, ipamNets, dleft>>

Completed(i) ==
    /\ dscan[i].pc = "completed" /\ Locked(i)
    /\ dmem' = [dmem EXCEPT !.phase = "completed", !.inProgress = FALSE]
    /\ Moves(i, "publish")
    /\ UNCHANGED <<ddisk, poll, drogue, reported, ipamNets, dleft>>

\* Mutant: markScanDone is not deferred: a scan that ends leaves scanning set.
MarkScanDone_Forgets(i) ==
    /\ dscan[i].pc = "finish" /\ Locked(i)
    /\ UNCHANGED <<dmem, dscan, ddisk, poll, drogue, reported, ipamNets, dleft>>

\* markScanDone, deferred by runScan.
MarkScanDone(i) ==
    /\ dscan[i].pc = "finish" /\ Locked(i)
    /\ dmem' = [dmem EXCEPT !.scanning = FALSE, !.inProgress = FALSE]
    /\ dscan' = [dscan EXCEPT ![i] = [NoScan EXCEPT !.pc = "ended"]]
    /\ UNCHANGED <<ddisk, poll, drogue, reported, ipamNets, dleft>>

LockPoints == {"trigger", "stored", "completed", "finish"} \cup DOMAIN ProgressAfter

\* A scan that needs the lock while Status holds it.
AwaitLock(i) == dscan[i].pc \in LockPoints /\ Await(i)

-----------------------------------------------------------------------------
(* Status, rogue servers, IPAM, restarts                                   *)

\* Status takes the read lock and reads the fields.
StatusEnter(p) ==
    /\ poll[p] = "idle" /\ CanRLock
    /\ poll' = [poll EXCEPT ![p] = "held"]
    /\ UNCHANGED <<dmem, ddisk, dscan, waiter, drogue, reported, ipamNets, dleft>>

\* LatestResult, called by Status, takes it again; then both are released.
StatusLeave(p) ==
    /\ poll[p] = "held" /\ CanRLock
    /\ poll' = [poll EXCEPT ![p] = "idle"]
    /\ UNCHANGED <<dmem, ddisk, dscan, waiter, drogue, reported, ipamNets, dleft>>

\* inspectPacket: an OFFER whose server is not one of the configured ones.
InspectPacket(ip) ==
    /\ drogue.pc = "idle" /\ dleft.rogues > 0
    /\ drogue' = [pc |-> "lock", ip |-> ip]
    /\ dleft' = [dleft EXCEPT !.rogues = @ - 1]
    /\ UNCHANGED <<dmem, ddisk, dscan, poll, waiter, reported, ipamNets>>

\* RecordRogueServer: newest first, one entry per address; the loop over the
\* earlier ones ends when there are RogueCap (16 in the code).
MergeRogue(list, ip) ==
    LET merged[k \in 0..Len(list)] ==
            IF k = 0 THEN <<ip>>
            ELSE IF list[k] = ip \/ Len(merged[k - 1]) = RogueCap THEN merged[k - 1]
            ELSE Append(merged[k - 1], list[k])
    IN  merged[Len(list)]

RecordRogue ==
    /\ drogue.pc = "lock" /\ Locked("rogue")
    /\ dmem' = [dmem EXCEPT !.rogue = MergeRogue(@, drogue.ip)]
    /\ drogue' = [drogue EXCEPT !.pc = "tx"]
    /\ UNCHANGED <<ddisk, dscan, poll, reported, ipamNets, dleft>>

AwaitRogue == drogue.pc = "lock" /\ Await("rogue")

\* Mutant: the rogue server is announced whether or not the list was stored.
RogueTx_Announces(ok) ==
    /\ drogue.pc = "tx"
    /\ ~ok => dleft.faults > 0
    /\ dleft' = [dleft EXCEPT !.faults = IF ok THEN @ ELSE @ - 1]
    /\ ddisk' = IF ok THEN [ddisk EXCEPT !.rogue = dmem.rogue] ELSE ddisk
    /\ reported' = reported \cup {drogue.ip}
    /\ drogue' = [pc |-> "idle", ip |-> DNone]
    /\ UNCHANGED <<dmem, dscan, poll, waiter, ipamNets>>

\* RecordRogueServer stores the list; the event is published if that worked.
RogueTx(ok) ==
    /\ drogue.pc = "tx"
    /\ ~ok => dleft.faults > 0
    /\ dleft' = [dleft EXCEPT !.faults = IF ok THEN @ ELSE @ - 1]
    /\ ddisk' = IF ok THEN [ddisk EXCEPT !.rogue = dmem.rogue] ELSE ddisk
    /\ reported' = IF ok THEN reported \cup {drogue.ip} ELSE reported
    /\ drogue' = [pc |-> "idle", ip |-> DNone]
    /\ UNCHANGED <<dmem, dscan, poll, waiter, ipamNets>>

\* A subnet is created or deleted in IPAM.
EditSubnet(s) ==
    /\ dleft.edits > 0
    /\ dleft' = [dleft EXCEPT !.edits = @ - 1]
    /\ ipamNets' = IF s \in ipamNets THEN ipamNets \ {s} ELSE ipamNets \cup {s}
    /\ UNCHANGED <<dmem, ddisk, dscan, poll, waiter, drogue, reported>>

\* The process ends and starts again: loadMeta.
loadMeta ==
    [scanning |-> FALSE, inProgress |-> FALSE, phase |-> "idle",
     latestID |-> ddisk.latest, rogue |-> ddisk.rogue]

RestartDiscovery ==
    /\ dleft.faults > 0
    /\ dleft' = [dleft EXCEPT !.faults = @ - 1]
    /\ dmem' = loadMeta
    /\ dscan' = [i \in Scans |-> IF dscan[i].pc = "none" THEN NoScan
                                 ELSE [NoScan EXCEPT !.pc = "ended"]]
    /\ poll' = [p \in Pollers |-> "idle"]
    /\ waiter' = DNone
    /\ drogue' = [pc |-> "idle", ip |-> DNone]
    /\ UNCHANGED <<ddisk, reported, ipamNets>>

CollectInput(i) ==
    \E l \in LeaseTables, r \in ReservationTables, a \in ArpTables : Collect(i, l, r, a)
ProbeOutcome(i) == \E alive, named \in SUBSET IPs : Probe(i, alive, named)
PersistOutcome(i) == \E n \in 0..3 : Persist(i, n)

ScanStep(i) ==
    \/ Trigger(i) \/ UpdateProgress(i) \/ ReadLocked(i) \/ CollectInput(i)
    \/ ProbeOutcome(i) \/ PersistOutcome(i) \/ SetLatest(i) \/ Completed(i)
    \/ MarkScanDone(i) \/ AwaitLock(i)

RogueStep == RecordRogue \/ AwaitRogue \/ \E ok \in BOOLEAN : RogueTx(ok)

DiscNext ==
    \/ \E i \in Scans : ScanStep(i) \/ \E req \in Requests : CallTrigger(i, req)
    \/ \E p \in Pollers : StatusEnter(p) \/ StatusLeave(p)
    \/ \E ip \in RogueIPs : InspectPacket(ip)
    \/ RogueStep
    \/ \E s \in Subnets : EditSubnet(s)
    \/ RestartDiscovery

\* Goroutines run; sync.RWMutex starves neither readers nor writers.
DiscFairness ==
    /\ \A i \in Scans : SF_discVars(ScanStep(i))
    /\ \A p \in Pollers : SF_discVars(StatusLeave(p))
    /\ SF_discVars(RogueStep)

DiscSpec == DiscInit /\ [][DiscNext]_discVars /\ DiscFairness

-----------------------------------------------------------------------------
(* Properties                                                              *)

MacsOf(l) == {l[ip].mac : ip \in DOMAIN l}
KnownMacs == {DNone} \cup (UNION {MacsOf(l) : l \in LeaseTables})
                     \cup (UNION {Range(t) : t \in ReservationTables \cup ArpTables})
HostRecords == [mac : KnownMacs, subnet : Subnets \cup {DNone}, state : HostStates]

\* Hosts are recorded with one of the four states a scan gives, for known
\* addresses only; latestID, the lock's queue and the counters keep their type.
DiscTypeOK ==
    /\ dmem.scanning \in BOOLEAN /\ dmem.inProgress \in BOOLEAN
    /\ dmem.latestID \in Scans \cup {DNone}
    /\ DOMAIN ddisk.hosts \subseteq IPs
    /\ \A ip \in DOMAIN ddisk.hosts : ddisk.hosts[ip] \in HostRecords
    /\ waiter \in Scans \cup {"rogue", DNone}
    /\ dleft \in [edits : 0..DMaxEdits, rogues : 0..DMaxRogues, faults : 0..DMaxFaults]

\* A call of TriggerScan that got past the check until markScanDone.
Running(i) == dscan[i].pc \notin {"none", "trigger", "refused", "ended"}

\* TriggerScan answers "scan already in progress" while a scan runs: two
\* scans never run at once, so nobody writes latest_hosts between a scan's
\* reading it and its writing it; and progress says "in progress" only then.
OneScan ==
    /\ \A i, j \in Scans : Running(i) /\ Running(j) => i = j
    /\ dmem.scanning <=> \E i \in Scans : Running(i)
    /\ dmem.inProgress => dmem.scanning

\* LatestResult looks the scan named by latestID up among the stored ones:
\* in memory, and in the store after a failed transaction or a crash, the
\* scan named as the latest one is stored.
LatestStored ==
    \A id \in {dmem.latestID, ddisk.latest} \ {DNone} : \E c \in SUBSET IPs : <<id, c>> \in ddisk.scans

\* The step in which scan i stores its hosts.
Stores(i) == dscan[i].pc = "persist" /\ dscan'[i].pc # "persist"

\* No host ever vanishes from latest_hosts (one that stops answering becomes
\* "missing"), and a scan of some subnets leaves the hosts outside them
\* alone: a host is in a subnet that contains its address, or that it was or
\* now is recorded under.  Two requests are exceptions.  Next to a subnet IPAM
\* holds, one it does not hold loses its hosts: runScan reads the hosts of the
\* resolved subnets, persistResult replaces those of all requested ones.  And
\* if IPAM holds no requested subnet, the scan covers every host.
HostsKept ==
    [][\A ip \in DOMAIN ddisk.hosts :
          \/ ip \in DOMAIN ddisk'.hosts /\ ddisk'.hosts[ip] = ddisk.hosts[ip]
          \/ \E i \in Scans :
                LET in(host) == ipMatchesSubnets(ip, host.subnet, dscan[i].scope)
                IN  /\ Stores(i)
                    /\ IF ip \in DOMAIN ddisk'.hosts
                       THEN in(ddisk.hosts[ip]) \/ in(ddisk'.hosts[ip]) \/ dscan[i].resolved = {}
                       ELSE /\ in(ddisk.hosts[ip]) /\ dscan[i].resolved # {}
                            /\ ~(dscan[i].scope \subseteq dscan[i].resolved)
      ]_discVars

\* A rogue server that was announced stays in the list, over restarts too,
\* until RogueCap newer ones push it out; the list holds no address twice.
RoguesRemembered ==
    /\ Cardinality(Range(dmem.rogue)) = Len(dmem.rogue)
    /\ \A ip \in reported : ip \in Range(dmem.rogue) \/ Len(dmem.rogue) = RogueCap

\* While nobody is inside Status, a scan that was triggered ends: its result
\* is stored or the transaction failed, and the next scan can be triggered.
ScanEndsUnpolled ==
    [](Readers = {}) => \A i \in Scans : Running(i) ~> ~Running(i)

\* A scan that was triggered ends whoever asks for the status meanwhile.
ScanEnds == \A i \in Scans : Running(i) ~> ~Running(i)

\* At most one scan runs, and the scan named as the latest one is stored.
ScansConsistent == OneScan /\ LatestStored
=============================================================================

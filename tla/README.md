# Monsoon: TLA+ models, model checking and proofs

Monsoon is a DHCP server with address management, written in Go: an embedded
storage engine, DHCPv4 and DHCPv6 servers on a lease store, a two-node
high-availability pair, and REST, gRPC, MCP and websocket interfaces.  This
directory models the parts whose correctness depends on interleavings, crashes
and time.  Every definition is a translation of the Go code; `PROJECT.json`
gives the lines behind each one (`map`), what can go wrong in them (`hazards`)
and where the code and its documents disagree (`findings`).

## 1. The system

| Component | State | Operations | Hard behaviour |
|---|---|---|---|
| storage engine (`internal/storage`) | trees, log segments, `snapshot.bin`, sequence, watchers | `OpenEngine`, `Tx`/`TxSilent`, `WatchTx`, `CreateSnapshot`, `RestoreSnapshot`, `Close` | crash between mutations, torn writes, files rewritten in place, bounded channels |
| lease store (`internal/lease/store.go`) | lease records and MAC, client id, subnet, expiry indexes | `Upsert`, `Delete`, `GetBy…`, `ListExpiringBefore`, `WatchMutations` | the old record is read outside the transaction, half-written transactions |
| lease sweeper (`internal/lease/expiry.go`) | none of its own | `tick` | acts on copies while the packet loops renew |
| DHCPv4 server (`internal/dhcpv4`) | pool bitmap | DISCOVER, REQUEST, RELEASE, DECLINE, INFORM | lost, delayed, duplicated messages; bitmap against records; restart |
| DHCPv6 server (`internal/dhcpv6`) | none: the records decide | SOLICIT, REQUEST, RENEW, REBIND, RELEASE, DECLINE | clients on several links, the sweeper between two packets |
| HA pair (`internal/ha`) | role, peer state, fencing, step-down, sequence numbers | heartbeat, watchdog, witness, manual failover, lease sync | partition, restart, stale witness, reordered snapshots |
| authentication (`internal/auth`) | users, sessions, tokens, lockouts | bootstrap, login, logout, password, tokens | check-then-act, deletions that fail, restart |
| middleware chain (`api/rest/middleware.go`) | token buckets, runtime settings | CSRF, two limits, authentication, roles | settings switched under a request |
| configuration (`internal/config`, `cmd/monsoon`) | file, manager, settings in force, restart notice | PUT, SIGHUP, reload | read-merge-write, two renames, callbacks outside the lock |
| IPAM (`internal/ipam`) | subnets, reservations, address records | create, update, delete, list, plan, import | validate-then-put, records merged from three trees |
| events, webhooks, websocket | subscriber channels, queue, clients | publish, deliver, retry, close | full channels, retries, shutdown |
| discovery (`internal/discovery`) | scan state, latest hosts, rogue servers | trigger, probe, persist, status | a lock taken twice, subnets that change under a scan |
| dynamic DNS | queue, two zones | upsert, delete | full queue, half-done updates, two producers |
| MCP transport (`api/mcp/server.go`) | sessions, channels of answers | stream, post | streams that end under a call |

The packet loops, the sweeper, API requests and HA replication all write leases
through the lease store, which writes through the storage engine; the HA manager
limits the pool through `AllocationScope` and follows the store through
`WatchMutations`.  The interfaces call IPAM, discovery, authentication and the
configuration, each of which keeps its own trees in the storage engine; they,
the DHCP servers and the sweeper publish to the broker, and the DHCP servers and
the sweeper queue DNS updates.  What makes each part correct:

* storage: it is a durable map; subscribers can tell a lost event from none;
* leases: an address a client uses belongs to that client alone, the indexes
  find the records, quarantines are waited out;
* HA: two nodes never allocate the same addresses, the election ends, a lone
  node takes over, the replica is what its sequence number says;
* interfaces: ended credentials are refused, roles and limits hold, updates
  stay, nothing is booked twice, what is proposed is free;
* background work: streams keep their order, nothing vanishes unseen, scans and
  workers end.

## 2. Modules

| Module | Models | Runs / proofs |
|---|---|---|
| `StorageEngine` | `internal/storage`, backup and restore of `cmd/monsoon` | `storage_*`; `StorageEngine_proofs` |
| `DurableStore`, `StorageRefinement` | the map the other components take the engine for; the refinement mapping | `storage_crash`; `StorageEngine_proofs` |
| `DHCPv4` | packet handlers, pool bitmap, lease store, sweeper, API release | `dhcp_*`; `DHCPv4_proofs` |
| `LeaseService` | the service DHCPv4 clients see | `dhcp_faults`; `DHCPv4_proofs` |
| `DHCPv6` | packet handlers, pools, clients, sweeper | `background`; `Background_proofs` |
| `HAElection` | heartbeat, election, watchdog, witness, manual failover, allocation scope | `ha_witness`, `ha_elect`, `ha_outage`; `HAElection_proofs` |
| `HASync` | mutation stream, increments, snapshots, restarts | `ha_sync`; `HASync_proofs` |
| `AuthService`, `ApiGate`, `ConfigReload`, `Ipam` | the services behind the interfaces | `api_services`; `Api_proofs`, `Ipam_proofs` |
| `EventBus`, `Discovery`, `DDNS`, `McpServer` | the work beside the DHCP servers | `background`, `workers`, `discovery_scan_ends`; `EventBus_proofs`, `Background_proofs` |
| `MC…` | instances for TLC (foci, symmetry, priorities, values of constants) | that `MCApi` and `MCBackground` put their parts side by side unchanged: `Api_proofs`, `Background_proofs` |

Operators whose name has a suffix (`TxApply_NoSync`) are mutants: forms a
plausible bug would give the operator they precede.  No specification uses them;
they are listed in `PROJECT.json`, and putting one in place of its original must
make TLC report the property named there.

Components that share no state beyond the store are checked side by side in one
run: a variable `focus`, chosen in the initial state, says which of them a
behaviour exercises, so that the state space is the sum of theirs and not the
product.  A focus may also narrow a component to one of its uses (only tokens,
only one address); the MC modules say how.

### StorageEngine

`trees` is the content of all in-memory trees keyed as the log keys them
(`makeTreeKey`), `wal` the log with its segments, `synced` how much of it a power
loss cannot take, `snap` and `backup` the files.  `Torn` stands for the bytes of
an entry that was only partly written.  A transaction holds the engine lock from
`TxBegin` to `TxCommit` or `TxFail`; each `TxApply` is one turn of the loop of
`Engine.tx`, with rotation, append, fsync and the change of the tree.  `TxFail`
covers an append that failed with nothing, some or all of its bytes written and
a rotation that could not open the next segment.  `ReplayItem` is one turn of
`replayFile`: at torn bytes with more bytes behind them both outcomes the length
field can produce are possible.  Entries differ in size, so rotation may happen
at any append to a segment with content.  `CreateBackup` opens, writes and
copies in separate steps; a restore removes the segments one by one in any
order, as `os.RemoveAll` does.

History variables: `acked` and `maybe` say which values a reader may find,
`buried` that something was appended behind torn bytes, `gapped` that a restore
removed a segment before an older one.  The two latter are the exceptions of
`AckedSurvives`; `storage_torn_tail` shows that the first exception is needed.

`DurableStore` states what is left of all this for its users: a map with
acknowledged values and values in doubt, that goes away and comes back.
`ImplementsDurableStore` maps the engine to it (`acked` to `sure`, `maybe` to
`unsure`, `buried \/ gapped` to `damaged`): a transaction shows its values one by
one and acknowledges them together, everything else is a stuttering step.

### DHCPv4

The packet loop is one goroutine, so one packet is handled at a time; the
sweeper and API requests run beside it.  A handler computes a record and starts
an upsert: `UpsertRead` (outside the transaction), `UpsertPut` (takes the engine
lock, puts the record), `UpsertIndex` (one index mutation per step, readers see
each), `UpsertDone` (reply, bitmap).  The subnet and client id indexes are left
out because nothing modelled reads them.  Clients count their lease from their
request and stop using an address at its end; replies, RELEASE and DECLINE may
be lost, RELEASE and DECLINE delayed and duplicated.  `Restart` rebuilds the
bitmap as `SyncFromLeases` does, after whatever part of a transaction reached
the log.  One pool and one scope are modelled: pools do not share state.

History variables: `displaced` (released or declined while in use, or
overwritten from an outdated copy), `orphaned` (old index entries may remain)
and `half` (the last transaction was cut short) name the cases in which a
property makes no claim; a reader should take them as the list of ways in which
the code gives up its guarantee.

`LeaseService` is what is left of this for clients: an address, the time until
which it is used, and the addresses of which nothing is promised any more.
`ImplementsLeaseService` maps the server to it (`now` to `time`, `hold` to
`uses`, `displaced \cup orphaned` to `void`).  Only the end of an upsert can be a
`Grant`, which the service allows if nobody else uses the address and if a
renewal does not end before what the client was told last; steps on records,
indexes, bitmap and messages are stuttering steps, or give up one address.

### DHCPv6

The server keeps no bitmap: `availableForClient` looks at the record of an
address.  An upsert is one step, since its own steps are those of `DHCPv4`; the
sweeper works on copies as there.  RELEASE, DECLINE and RENEW act on
`leases[0]` of the client, whatever address the message is about; `displaced6`
records the leases that end in this way while they are used.

### HAElection

Time is kept as ages in heartbeat intervals, capped one past the limit they are
compared with, so the state space is finite without a clock.  Both loops of a
node are modelled step by step: `Ping`, `Pong` or `HeartbeatFails`; `Watchdog`
and `Claim`, between which the node's mutex is held but the other node can act;
`RefreshStatus` and `RefreshWrite`, between which it is not held.  `Tick` ends an
interval.  A loop named in `Punctual` has its turn in every interval; the other
may be late by any time.  Three assumptions of `NoSplitBrain` deserve attention:
the watchdog, which refreshes the witness, is punctual, the witness hold is
longer than the failover timeout (it is twice as long in the code's default), and
`settled`: the pair has once come to rest and since then no node was restarted
or told to step down and no access to the witness failed.

### HASync

One primary and one secondary whose roles do not change.  Every message the
secondary handles runs in a goroutine of its own: `work` is the set of these, and
handlers interleave between classification, write and mark.  `hist` remembers the
primary's leases after each transaction, so that `ReplicaCurrent` can say what a
sequence number claims.  `mixed` names the cases in which the code gives that up:
messages handled at the same time, a snapshot older than its number or applied
after newer increments, and a restart of the primary, whose numbers begin again.

### AuthService, ApiGate, ConfigReload, Ipam

A request is a thread with a program counter; it stops wherever the code lets go
of a lock or reads the store. `AuthService` separates the lockout check, the
slow comparison and the counting of a failure, and the two reads and the write
back of a bearer token. `ApiGate` passes a request through the chain one
middleware at a time while settings change; time is counted in ticks and tokens
in fractions of a tick, so refills are exact. `ConfigReload` has one key of each
kind, taken over by a reload or at a start only, and the renames of
`atomicWriteFile` as separate steps. `Ipam` has addresses of `IpamBits` bits
(three in the runs); CIDR arithmetic (over `Pow2`, a table of powers), the plan
and the listing (folds over the records of an address) follow the Go functions;
validation and put are separate steps. Its inputs are those the handlers let
through: an address row of an import has one of the states `ValidateAddress`
accepts (`ipam/engine.go:556`), and a lease record that names a subnet lies in
it (`dhcpv6/pool.go:200`, `migrate/isc_dhcp.go:749`).

### EventBus, Discovery, DDNS, McpServer

Channels are sequences with the non-blocking or blocking send the code uses, and
each goroutine is a program counter.  `Discovery` models `sync.RWMutex` as Go
implements it: a writer that waits keeps new readers out.  What a probe finds is
chosen freely.  `MergeRogue` is the loop of `RecordRogueServer`, whose limit
`RogueCap` (16 in the code) is compared after an append and is therefore at
least two.  `DDNS` has a server that applies updates of the two zones, and
failures with and without effect.  In `McpServer` the handler of a call and the
goroutine of the stream share the channel of a session.

## 3. Runs

| Run | Checks | Bounds and why |
|---|---|---|
| `storage_crash` | `TypeOK`, `AckedSurvives`, `OpensUnlessDamaged`, `WatcherGapFree`, `ImplementsDurableStore` | two keys, transactions of two mutations and four log items (two transactions with a rotation and a torn entry), two watchers with channels of two and three notifying transactions (one more than a channel holds), or two backup requests and restores over a log of two segments; any number of exits and power losses |
| `dhcp_sweep` | `TypeOK`, `HoldBacked`, `IndexExact`, `QuarantineHonoured` | two clients; one address with RELEASE delayed and duplicated and the sweeper, or two addresses with API releases; times to 3: a lease, its expiry, its reuse |
| `dhcp_faults` | `ImplementsLeaseService`, `IndexCovers` | two clients on one address, DECLINE, two failed writes or restarts at any step, times to 4 |
| `ha_witness` | `TypeOK`, `NoSplitBrain` | one partition, one manual failover, one witness error, heartbeats of any delay |
| `ha_elect` | `Converges`, `Takeover` | equal priorities, one partition, one crash, two manual failovers |
| `ha_sync` | `SyncTypeOK`, `ReplicaCurrent`, `EventuallyBaselined` | two addresses, two transactions, a channel of one, one fault: an overflow, a gap and the resync that follows it |
| `api_services` | `ApiTypeOK`, `EndedCredentialsRefused`, `LoginGuards`, `GateGuards`, `ConfigKept`, `NoDoubleBooking`, `ListingRight`, `PlanAccepted`, `IpamSteps` | two concurrent requests of each service (of the configuration, an update and a signal), one or two faults or restarts, eight addresses with three subnets that overlap |
| `background` | `BackgroundTypeOK`, `StreamsInOrder`, `HubLeavesNone`, `ScansConsistent`, `V6HoldBacked`, `DnsFollowsLeases`, `McpAnswersOnce`, `HostsKept` | channels of one or two with one event more, two scans of two subnets with an edit, two DHCPv6 clients on two links, two host names on two addresses with four lease events, three MCP calls on a channel of one |
| `workers` | `WebhooksDeliver`, `RoguesRemembered`, `BusShutsDown`, `ScanEndsUnpolled`, `McpAnswered` | two webhooks, three events, two attempts; two scans, one poller and the rogue detector, with two servers and a full list, at one lock; two MCP calls |

A listed property may be the conjunction of named parts (`ConfigKept` is
`UpdatesKept /\ RuntimeCurrent`); the module states each part.

Expected to be violated, each one a finding:

* `storage_torn_tail` (`AckedAlwaysSurvives`): an acknowledged write behind a
  torn entry is lost.
* `ha_outage` (`Converges`, with a witness): a fenced node that is elected
  primary stays fenced for ever, and nobody allocates.
* `discovery_scan_ends` (`ScanEnds`): `Status` takes the read lock twice; a scan
  that comes to write in between waits for `Status` and `Status` for it.

### Known behaviours no run is spent on

The models contain them, and the exceptions in the properties name them.

* A process that dies while `snapshot.bin` is rewritten in place cannot open its
  store (the exception of `OpensUnlessDamaged`); two backup requests can leave an
  unreadable backup.
* A lease that the sweeper makes free, or that is declined or released over the
  API, keeps its bit in the DHCPv4 bitmap until the next restart.
* A restart forgets the bits of expired leases and with them their quarantine,
  and a DECLINE after a RELEASE sets no bit (so `QuarantineHonoured` is checked
  without either).
* Every node starts as primary and writes the witness without looking at it: two
  nodes that lose each other right after their start both allocate.  A
  load-sharing node takes the whole range at its first failed heartbeat.
* After a restart of the primary, whose numbers begin again, a secondary that
  did not notice acknowledges increments without applying them; the databases
  differ until the connection is next lost or the lease is written again.
* A reload overwrites the restart notice of an earlier one.
* gRPC requests change subnets and reservations without an audit entry.
* An API release queues no DNS update; a lost or failed update is never
  repeated.
* A call to an MCP tool that has run is answered "session queue full" when 16
  answers wait; an answer accepted for a stream that is ending is not written.
* A scan that names a subnet IPAM does not hold, next to one it holds, removes
  the hosts of the former.

### Fairness

The safety properties need none.  `FairSpec` of `HAElection` assumes weak
fairness of every loop step and of time: the loops are driven by tickers, every
dial and read has a deadline, and the mutex is held for bounded work.  Faults,
healing and restarts are not fair; `Converges` and `Takeover` speak of behaviours
in which the network stays up, or the peer stays down, from some time on.
`SyncFairness` assumes the same of the synchronisation loops and handlers and of
the heartbeat that brings the peers together; faults are bounded.  `BusFairness`,
`DiscFairness` and `McpFairness` assume that goroutines that can go on do: HTTP
deliveries and writes to clients have deadlines or fail, probes have timeouts.
Nothing is assumed of clients, of callers of `Status`, or of who gets a lock.
Symmetry (keys, watchers, backup requests, clients) is used only in runs that
check safety properties.

## 4. Proofs

The theorems hold for every value of the constants that the `ASSUME`s of the
modules allow; the proofs are in eight modules, next to the models they are
about.  Every safety property and action property of a passing run has a
theorem, `NoSplitBrain` and `QuarantineHonoured` under the conditions of their
runs.  Listed below is what each module proves and the invariant that carries
it.

### StorageEngine_proofs

`TypeCorrect`, `Durability` (`AckedSurvives`), `Reopens` (`OpensUnlessDamaged`),
`WatchersGapFree` (`WatcherGapFree`); assumptions `NoValAssumption`,
`BoundsAssumption`.  `AckedSurvives` is not inductive: it speaks of an open
engine, while what can go wrong happens on disk before.  The inductive invariant
`IInv` therefore says what every disk state that a power loss can leave means:
for every cut `n` between `synced` and the end of the log, the last entry of a
key among the first `n` items has a permitted value (`LogOK`), and a key without
one has a permitted value in the snapshot (`SnapOK`); replay has rebuilt exactly
the effect of the items it has read (`ReplayOK`); an engine that runs a
transaction has synced everything it has applied (`TxOK`); torn bytes are last in
their segment unless something was buried (`TearOK`); and a restore's map is
permitted from its first step on (`RestoreOK`).  Lemmas on `Append`, `SubSeq` and
the last entry of a key carry these over each action.

`EngineImplementsDurableStore` is the refinement `Spec => ImplementsDurableStore`.
The initial state maps to the initial state of `DurableStore`; `TxApply`,
`TxFail`, `TxCommit`, the end of an open, a restore and the ways to stop each map
to the abstract action with the same meaning, all others (`Hidden`: writes to
files, rotation, replay, delivery to watchers) to stuttering.  `IInv` is needed
where an open ends: that the rebuilt map is one `DurableStore` may come back with
is what durability means.

### DHCPv4_proofs

Assumptions `PoolAssumption`, `WritersAssumption`, `LeavingAssumption`,
`TimeAssumption`.

* `LeaseTypeCorrect` (`TypeOK`), with the shape of a running transaction.
* `IndexesCover` (`IndexCovers`) and `IndexesExact` (`IndexExact`).  Between two
  mutations of an upsert the indexes are neither those of the old record nor
  those of the new one.  `IndexInv` counts the mutations that are left (`Left`):
  `TxShape` says which they are, `CoversTx` and `ExactTx` what the indexes hold at
  each count.
* `AddressesBacked` (`HoldBacked`).  `HoldInv` adds what a job between its read
  and its write knows (`JobOK`: unless it was overtaken, it acts for the client
  of the stored record; a sweep acts on a lapsed record, a grant on an address
  nobody else uses), that a transaction that grants nothing rewrites a record of
  the same client (`TxOK`), that the sweeper's copies had lapsed when it listed
  them (`SweepOK`), and that no client counts on more than a lease time from now
  (`HoldTimes`); all but for addresses in `displaced` or `orphaned`.
* `NoTwoClients`: no two clients use one address outside `displaced` and
  `orphaned`, a consequence of `HoldBacked` worth stating by itself.
* `ServerImplementsLeaseService`: `Spec => ImplementsLeaseService`.  `Tick` maps
  to `Pass`, a client that starts again, hears NAK or leaves to `Stop`, an ACK
  that arrives to `Grant`, a step that adds to the history variables to `GiveUp`,
  all others (`Unseen`) to stuttering.  `HoldInv` is needed at the ACK, which
  leaves long after `Allocate` chose the address: `Grants` of the job says that
  nobody else has come to use it meanwhile and that the client's own use does not
  outlast the new lease.  `ServiceIsExclusive` is what the abstract service is
  worth: it never lets two clients use one address that is not void.
* `QuarantineKept`: `Undisturbed => (Spec => QuarantineHonoured)`.
  `Undisturbed` means no failed write or restart, and no DECLINE (the constants
  of `dhcp_sweep`); section 3 says how these break the property.  `MarkInv` adds
  to `HoldInv` that an address whose record is neither released nor free is
  marked in the bitmap, and that a sweep under way started from such a record.

### HAElection_proofs

Assumptions `PeersAssumption`, `PunctualAssumption`, `ModeAssumption`,
`LimitsAssumption`, `NobodyAssumption`.  `PairTypeCorrect` (`TypeOK`), and
`SplitBrainProtection`: `WitnessedPair => (Spec => []NoSplitBrain)`, where
`WitnessedPair` is an active-passive pair with a witness and a punctual watchdog
(the constants of `ha_witness`).  `NoSplitBrain` compares the roles of two
nodes; why they differ lies in the witness.  `SplitInv` says that one node
`Leads`: it would win the election, is primary and not fenced, the other is
secondary and neither about to claim the role nor to write the witness, and the
witness is the leader's and at most one interval old, so that the other's claim
is refused before the hold ends.

### HASync_proofs

Assumptions `AbsentAssumption`, `SyncBoundsAssumption`.  `SyncTypeCorrect`
(`SyncTypeOK`) and `ReplicaIsCurrent` (`ReplicaCurrent`).  The invariant follows
a change from the primary to the secondary: an event in the channel or a message
tells what its transaction changed, a snapshot what the leases were at its
number (`PrimaryOK`); a handler that has written has made the address as recent
as its number (`HandlerOK`); and the secondary's leases are from `applied` or
later (`From(applied)`), except where the run is `mixed`.

### Background_proofs

* `DHCPv6` (`DHCPv6Assumption`, `NoLease6Assumption`): `V6TypeCorrect`,
  `V6AddressesBacked` (`V6HoldBacked`).  `V6Inv` bounds the lifetimes clients were
  told by the clock and says that the sweeper's copies had lapsed when they were
  taken.  `V6NoTwoClients` draws the consequence: no two clients use one address
  outside `displaced6`.
* `McpServer` (`McpAssumption`): `McpTypeCorrect`, `McpAnswersEachOnce`
  (`McpAnswersOnce`).  What a stream has taken is what it has written, what it
  holds and what its channel holds, in this order, each answer once (`McpInv`).
* `Discovery` (`DiscoveryAssumption`, `TablesAssumption`): `DiscTypeCorrect`,
  `ScansStayConsistent` (`ScansConsistent`) and the action property
  `HostsAreKept` (`HostsKept`).  `OneOrNone` ties the flags of the engine to the
  program counters of all scans; `ScanOK` relates what a scan has collected,
  probed and merged to the stored hosts at each of its steps.
  `RoguesAreRemembered` (`RoguesRemembered`): `RogueInv` says it of the list in
  memory and of the stored one, which a restart brings back, and that the server
  about to be announced is in the list stored with it.  What `MergeRogue`
  computes, for any list, is proved by induction on the turns of its loop.
* `DDNS` (`DDNSAssumption`): `DdnsTypeCorrect`, `RecordsFollowLeases`
  (`DnsFollowsLeases`).  The property speaks of an idle worker; `Tracks` says of a
  full line of requests that the record's content was, or will be, set by one of
  them, that none behind it concerns the same name, and that a record whose lease
  has gone still has its deletion to come.
* `PartsRunBeside`: a behaviour of `MCBackground` is one of each part, with any
  choice of the focus and whatever the others do, so that every theorem above
  holds of the instance; `BackgroundTypeCorrect` (`BackgroundTypeOK`) follows.

### EventBus_proofs

Assumptions `EventBusAssumption`, `HooksAssumption`.  `BusTypeCorrect`;
`StreamsKeepOrder` (`StreamsInOrder`) and `HubClosesAll` (`HubLeavesNone`) from
`SocketInv`: what a client has got comes before its send channel, that before
the hub's messages and these before the broker channel, and a closing hub
remembers every client (`Leaving`).  `WebhooksAreServed` (`WebhooksDeliver`) from
`HookInv`: deliveries are in the order of event and webhook from the receivers
through the retry and the queue to the dispatcher, received copies are at most
the attempts made, and what the dispatcher is past is in one of these places.

### Api_proofs

* `ConfigReload` (`CfgAssumption`): `CfgTypeCorrect`, `ConfigIsKept`
  (`ConfigKept`).  `CfgInv` gives each program counter of a change that ran alone
  the state of file, copies and manager it has produced (`Sound`); a change that
  was disturbed has set the expectation to "any", as the property's own exception
  does.
* `ApiGate` (`ApiGateAssumption`): `GateTypeCorrect`, `GateIsGuarded`
  (`GateGuards`).  `SlotOK` says what a request that has passed a middleware has
  shown; `BucketsInv` that in any interval the requests admitted and the tokens
  left are at most the burst and what has flowed in, which also holds while
  settings change.  The bound is a sum over a set of admissions; lemmas bound it
  by cardinalities.
* `AuthService` (`AuthNoneAssumption`, `AuthNumbersAssumption`):
  `AuthTypeCorrect`, `EndedAreRefused` (`EndedCredentialsRefused`),
  `LoginsAreGuarded` (`LoginGuards`).  `AuthInv` says that a bootstrap between its
  check and its write holds the service's mutex and finds no user (`UsersInv`);
  that sessions in memory are those of the store but for failed deletions
  (`SessionsMirror`); that a token once revoked stays out of the index, so that no
  request that comes later can find it (`TokensInv`); and, per account, that
  guesses and requests still comparing stay within the limit and the number of
  requests once the account is locked, and within the counted failures and those
  about to be counted before (`GuessInv`).
* `ServicesRunBeside`: a behaviour of `MCApi` is one of each service, `Ipam`
  included, whatever the focus; `ApiTypeCorrect` (`ApiTypeOK`) follows.

### Ipam_proofs

Assumption `IpamInputsAssumption`.

* `NothingBookedTwice` (`NoDoubleBooking`).  Requests validate in one transaction
  and put in another.  `BookInv` says that a request between the two that has
  crossed no other put knows that its record still fits, and that imports run
  while no request is there.
* `PlansAreAccepted` (`PlanAccepted`). A planned subnet overlaps no stored one
  and passes the validation of the creation that follows, its pool and gateway
  included, and a plan is refused only when no block of the size is free, for
  any width of an address: `Pow2[m + n]` is the product of `Pow2[m]` and
  `Pow2[n]`, so that a block of the wanted size is the whole of what its masked
  first address stands for (`AlignedIsMasked`, `CandidateIs`, `PlanFits`).
* `ListingsAreRight` (`ListingRight`).  The merge of the records of an address is
  unrolled as a table of its turns (`MergeRuns`); from turn to turn the state is
  the one of the highest rank so far and a name once filled in stays
  (`MergedState`, `MergeNames`).  What is proposed is then an address of which
  no tree has another record, and the capacity reported is what the listing
  shows.  This needs `StoresOK`: a stored record lies in the subnet it names and
  has one of the known states.
* `ReleasesAndRestarts` (`IpamSteps`): an undisturbed release leaves its address
  unreserved, and a start keeps the subnets that were edited.
* `IpamTypeCorrect`.  `FitInv` (`StoresOK`, and for each request that what it
  carries from one transaction to the next fits) and `RestInv` complete `BookInv`
  to the inductive invariant `IpamInv` of all of them.

Recursive functions and folds over a table are within the prover's reach although
its induction theorems are not: a set of numbers that contains 0 and with each
number the next is all of `Nat`, because its complement has no least element
(`LeastExists`, `Induct`, from the well-foundedness of `<`).  The proofs first
show that the table of a recursion exists and is unique, then argue from row to
row.

### Only model-checked

* `Converges`, `Takeover`, `EventuallyBaselined`, `McpAnswered`, `BusShutsDown`,
  `ScanEndsUnpolled`: liveness, and the prover handles neither fairness nor
  `ENABLED`.
* The violations of section 3 are statements about the bounded instances.

## 5. Not modelled

* Packet codecs, protobuf messages, HTTP decoding, gRPC framing, websocket
  frames, TSIG: byte formats without state.
* Parsers of other servers' configuration files (`internal/migrate`): sequential
  text processing; what an import writes is in `Ipam`.
* `IndexManager` (`storage/index.go`): no index is ever registered.
* Metrics, dashboard, UI settings, logging: nothing depends on them.
* The audit log beyond its place in the handlers: entries are appended and never
  changed.
* Listing, filtering and pagination in the interfaces, except where a plan or a
  proposal rests on them.
* Role changes during lease synchronisation: `HASync` fixes the roles that
  `HAElection` decides.

## 6. Plan

What is left to do is beyond the properties above: `HASync` and `DHCPv6` take an
upsert for one step and rest for it on the steps of `DHCPv4`; an abstract store
of records and indexes between the two, as `DurableStore` is for the engine,
would say so in the language.

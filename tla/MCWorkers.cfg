CONSTANTS
    Foci = {"webhooks", "locks", "mcp"}
    EventTypes <- MCEventTypes
    HookPatterns <- MCHooks
    Clients = {c1}
    SubPatterns <- MCSubPatterns
    BrokerCap = 1
    WebhookCap = 1
    ClientCap = 2
    MaxAttempts = 2
    MaxConflicts = 2
    MaxEvents = 2
    Scans = {"s1", "s2"}
    Pollers = {p1}
    Subnets = {"n1", "n2"}
    Nets <- MCNets
    Pools <- MCPools
    Requests <- MCRequests
    LeaseTables <- MCLeaseTables
    ReservationTables <- MCReservationTables
    ArpTables <- MCArpTables
    Methods = {"tcp"}
    MaxTargetsPerSubnet = 1
    RogueIPs = {"r1", "r2"}
    RogueCap = 2
    DNone = DNone
    DMaxEdits = 1
    DMaxRogues = 2
    DMaxFaults = 2
    Duids = {d1, d2}
    Prefixes6 <- MCPrefixes
    Ranges6 <- MCRanges
    LeaseTime6 = 1
    Quarantine6 = 1
    NoLease6 = NoLease6
    MaxTime6 = 5
    DnsHosts = {h1, h2}
    DnsIPs = {a1, a2}
    Nameless = Nameless
    NoHost = NoHost
    DdnsQueueCap = 2
    DnsMaxEvents = 4
    DnsMaxFaults = 1
    McpStreams = {m1}
    McpCalls = {k1, k2}
    NoStream = NoStream
    McpCap = 1
SPECIFICATION MCFairSpec
INVARIANTS
    WebhooksDeliver RoguesRemembered
PROPERTIES BusShutsDown ScanEndsUnpolled McpAnswered
CHECK_DEADLOCK FALSE

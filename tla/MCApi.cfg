CONSTANTS
    Foci = {"accounts", "tokens", "limits", "roles", "config", "ipam", "race"}
    Requests = {"r1", "r2"}
    Users = {"u1", "u2"}
    Passwords = {"p1", "p2"}
    Sids = {"s1", "s2"}
    Tokens = {k1}
    None = None
    MaxFailedAttempts = 2
    LockoutDuration = 1
    SessionTTL = 0
    AuthMaxTime = 1
    AuthMaxFaults = 1
    GateSlots = {"r1", "r2"}
    GateHosts = {"h1"}
    GateSettings <- MCSettings
    Endpoints = {"health", "login", "subnets", "tokens"}
    GTicks = 2
    GMaxTime = 3
    Updaters = {c1}
    Main = main
    CfgVals = {"x", "y"}
    CfgDefault = "x"
    Missing = Missing
    Broken = Broken
    CfgMaxEdits = 1
    CfgMaxFaults = 2
    IpamBits = 3
    SubnetInputs <- MCSubnets
    ReserveInputs <- MCReservations
    AddressRows <- MCRows
    LeaseInputs <- MCLeases
    LeaseRows <- MCLeaseRows
    NMacs = 2
    PlanSizes = {2}
    IpamCallers = {"i1", "i2"}
    IpamMaxFill = 4
    IpamStarts = 2
SPECIFICATION MCSpec
INVARIANTS
    ApiTypeOK EndedCredentialsRefused LoginGuards GateGuards ConfigKept
    NoDoubleBooking ListingRight PlanAccepted
PROPERTIES IpamSteps
CHECK_DEADLOCK FALSE

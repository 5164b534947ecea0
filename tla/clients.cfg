SPECIFICATION Spec
CONSTANTS
    None = None
    NoTask = NoTask
    Torn = Torn
    WorkRequests = {"w1", "w2"}
    StatusRequests = {"s1"}
    DeployRequests = {"d1", "d2"}
    Packages = {"p", "q"}
    Codes = {"a"}
    OneWriter = TRUE
    GatewayFaults = {"crash", "stale", "refused", "late", "rejected", "quarantine"}
    MaxConcurrency = 2
    MaxPolls = 2
    MaxGatewayFaults = 2
    Daemons = {1}
    Proposers = {1}
    Voters = {1}
    Works = {1, 2}
    Assignments = {{1}, {0, 1}}
    BadBundle = {}
    Unrefinable = {}
    Lanes = 2
    DaemonFaults = {"timeout", "crash", "gateway", "rpc", "hang", "expire"}
    MaxDaemonFaults = 1
    MaxRounds = 2
    MaxVersion = 1
INVARIANTS  BundlesServed  ReportsExact VotesSound
CHECK_DEADLOCK FALSE

SPECIFICATION Spec
CONSTANTS
    None = None
    MaxFaults = 1
    Threads = {"t1", "t2"}
    StateKeys = {"k1"}
    OtherKeys = {"k2"}
    Values = {10, 11}
    MaxHead = 1
    MaxBatch = 2
    MaxCalls = 2
    AddressSpace = 4
    Readable = {0, 1, 2}
    Writable = {1, 2}
    Pointers = {0, 2, 5}
    Lengths = {0, 2}
    HashLen = 1
    MaxSteps = 3
    HostNone = None
    Workers = {"w1", "w2"}
    Packages = {"p", "q"}
    Data = {"d", "e"}
    Sizes = {2}
    MaxBundleBytes = 2
    Callers = {"p", "q"}
    Accounts = {"alice"}
    Contents = {"c", "d"}
    Size = 1
    Transactions = 2
    GrantBytes = 1
    MaxGrants = 2
    Retention = 1
    MaxBlock = 2
    Users = {"alice", "bob"}
    EscrowAccount = "escrow"
    Transfers = {0, 1, 2, 3}
    OutboundNonces = {0, 5, 6}
    MaxInboundNonce = 3
    Endowment = 4
    EscrowEndowments = {0, 1}
    ED = 1
    MaxForks = 3
    Subjects = {"work", "allocation", "preimage", "op"}
INVARIANTS   AssignmentExact FinalAnswersKept OverlayExact BundlesAgree 
PROPERTIES IngressSteps PoolLedger DeltaExact HostCallsContained
CHECK_DEADLOCK FALSE

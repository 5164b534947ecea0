CONSTANTS
    a1 = a1  a2 = a2  a3 = a3  relay = relay  p1 = p1  p2 = p2  p3 = p3
    Accounts = {a1, relay}
    WorkIds <- TwoWorks
    Rounds <- TwoRounds
    Packages = {p1, p2}
    MaxCandidates = 2
    MinimumStake = 1
    EpochLength = 2
    TopWorkers = 2
    WorkersPerWork = 1
    MaxWorksPerRound = 2
    MaxDutiesPerWorkerPerRound = 1
    SupportThreshold = 1
    OpposeThreshold = 1
    MaxOpenVotes = 1
    TimelyVoteReward = 0
    AbsenceSlash = 0
    MinimumAbsenceSlash = 0
    EquivocationSlash = 50
    EquivocationSuspension = 1
    GenesisWorkers <- OneWorker
    GenesisFree <- Rich
    GenesisPool = 4
    StakeAmounts = {}
    Equivocators = {}
    MaxCandidateRounds = 2
    MaxPendingWorks = 2
    MaxExecutionReports = 1
    ReportSubmissionDeadline = 0
    VoteWindow = 1
    WorkDeposit = 2
    CandidateBond = 2
    CandidateRejectionSlash = 1
    AcceptedSubmitterReward = 1
    Relayers = {a1}
    RootCalls = {}
    GenesisRelayer = relay
    MaxBlock = 6
SYMMETRY PackageSymmetry
SPECIFICATION MCSpec
INVARIANTS StorageInv DutiesBounded HoldsExact
PROPERTIES KeepsWorkLife

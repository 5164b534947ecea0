CONSTANTS
    a1 = a1  a2 = a2  a3 = a3  relay = relay  p1 = p1  p2 = p2  p3 = p3
    Accounts = {a1, a2, relay}
    WorkIds <- TwoWorks
    Rounds <- TwoRounds
    Packages = {p1, p2}
    MaxCandidates = 2
    MinimumStake = 2
    EpochLength = 2
    TopWorkers = 1
    WorkersPerWork = 1
    MaxWorksPerRound = 2
    MaxDutiesPerWorkerPerRound = 1
    SupportThreshold = 1
    OpposeThreshold = 1
    MaxOpenVotes = 1
    TimelyVoteReward = 0
    AbsenceSlash = 0
    MinimumAbsenceSlash = 0
    EquivocationSlash = 50
    EquivocationSuspension = 2
    GenesisWorkers <- OneWorker
    GenesisFree <- Rich
    GenesisPool = 2
    StakeAmounts = {5}
    Equivocators = {0, 1}
    MaxCandidateRounds = 2
    MaxPendingWorks = 2
    MaxExecutionReports = 1
    ReportSubmissionDeadline = 1
    VoteWindow = 1
    WorkDeposit = 2
    CandidateBond = 20
    CandidateRejectionSlash = 0
    AcceptedSubmitterReward = 0
    Relayers = {}
    RootCalls = {}
    GenesisRelayer = relay
    MaxBlock = 6
SPECIFICATION MCSpec
INVARIANTS AssignedWorkersActive

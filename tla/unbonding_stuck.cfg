CONSTANTS
    a1 = a1  a2 = a2  a3 = a3  relay = relay  p1 = p1  p2 = p2  p3 = p3
    Accounts = {a1, relay}
    WorkIds <- OneWork
    Rounds <- OneRound
    Packages = {p1}
    MaxCandidates = 1
    MinimumStake = 2
    EpochLength = 1
    TopWorkers = 1
    WorkersPerWork = 1
    MaxWorksPerRound = 1
    MaxDutiesPerWorkerPerRound = 1
    SupportThreshold = 1
    OpposeThreshold = 1
    MaxOpenVotes = 1
    TimelyVoteReward = 1
    AbsenceSlash = 50
    MinimumAbsenceSlash = 1
    EquivocationSlash = 50
    EquivocationSuspension = 1
    GenesisWorkers <- OneWorker
    GenesisFree <- Rich
    GenesisPool = 2
    StakeAmounts = {2, 6}
    Equivocators = {0}
    MaxCandidateRounds = 1
    MaxPendingWorks = 1
    MaxExecutionReports = 1
    ReportSubmissionDeadline = 1
    VoteWindow = 1
    WorkDeposit = 2
    CandidateBond = 2
    CandidateRejectionSlash = 1
    AcceptedSubmitterReward = 1
    Relayers = {}
    RootCalls = {}
    GenesisRelayer = relay
    MaxBlock = 10
SPECIFICATION MCSpec
INVARIANTS MaturedStakeReleased

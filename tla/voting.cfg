CONSTANTS
    a1 = a1  a2 = a2  a3 = a3  relay = relay  p1 = p1  p2 = p2  p3 = p3
    Accounts = {a1, a2, a3, relay}
    WorkIds <- OneWork
    Rounds <- TwoRounds
    Packages = {p1}
    MaxCandidates = 3
    MinimumStake = 1
    EpochLength = 4
    TopWorkers = 3
    WorkersPerWork = 3
    MaxWorksPerRound = 2
    MaxDutiesPerWorkerPerRound = 2
    SupportThreshold = 2
    OpposeThreshold = 2
    MaxOpenVotes = 1
    TimelyVoteReward = 1
    AbsenceSlash = 10
    MinimumAbsenceSlash = 1
    EquivocationSlash = 50
    EquivocationSuspension = 1
    GenesisWorkers <- ThreeWorkers
    GenesisFree <- Rich
    GenesisPool = 2
    StakeAmounts = {}
    Equivocators = {}
    MaxCandidateRounds = 2
    MaxPendingWorks = 2
    MaxExecutionReports = 1
    ReportSubmissionDeadline = 1
    VoteWindow = 1
    WorkDeposit = 2
    CandidateBond = 2
    CandidateRejectionSlash = 1
    AcceptedSubmitterReward = 1
    Relayers = {}
    RootCalls = {}
    GenesisRelayer = relay
    MaxBlock = 6
SPECIFICATION MCSpec
INVARIANTS VotingSound TasksServable
PROPERTIES DecisionsHonoured SlashedForCause RoundsFollowEngine

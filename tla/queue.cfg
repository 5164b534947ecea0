CONSTANTS
    a1 = a1  a2 = a2  a3 = a3  relay = relay  p1 = p1  p2 = p2  p3 = p3
    Accounts = {a1, relay}
    WorkIds <- ThreeWorks
    Rounds <- OneRound
    Packages = {p1, p2, p3}
    MaxCandidates = 1
    MinimumStake = 1
    EpochLength = 2
    TopWorkers = 2
    WorkersPerWork = 1
    MaxWorksPerRound = 3
    MaxDutiesPerWorkerPerRound = 3
    SupportThreshold = 1
    OpposeThreshold = 1
    MaxOpenVotes = 2
    TimelyVoteReward = 0
    AbsenceSlash = 0
    MinimumAbsenceSlash = 0
    EquivocationSlash = 50
    EquivocationSuspension = 1
    GenesisWorkers <- OneWorker
    GenesisFree <- Rich
    GenesisPool = 4
    StakeAmounts = {}
    Equivocators = {}
    MaxCandidateRounds = 1
    MaxPendingWorks = 2
    MaxExecutionReports = 1
    ReportSubmissionDeadline = 0
    VoteWindow = 1
    WorkDeposit = 2
    CandidateBond = 2
    CandidateRejectionSlash = 0
    AcceptedSubmitterReward = 0
    Relayers = {relay}
    RootCalls = {"pause_execution", "quarantine_pending"}
    GenesisRelayer = relay
    MaxBlock = 5
SYMMETRY PackageSymmetry
SPECIFICATION MCSpec
INVARIANTS QueueSound NeverHalted
PROPERTIES ImportedOnce

SPECIFICATION MCSpec
CONSTANTS
    Nodes = {1, 2}
    Peers = {1, 2, 3}
    Static = {"s"}
    Limits = {2, 3}
    MaxEnabledSync = 1
    MaxFaults = 1
    StratumMiners = {1, 2}
    BadAddress = {2}
    Requests = {"r1", "r2"}
    MaxSoon = 1
    Signers = {1, 2}
    MaxHeight = 2
    MaxOutages = 2
    MaxStops = 1
    MergedMiners = {1}
    Nonces = {1}
    Pollers = {1}
    MaxBtc = 1
    MaxHtr = 1
    MaxJobs = 1
    MaxSubmitting = 1
    MaxShares = 1
    MaxErrors = 1
    GapLimit = 2
    WindowSizes = {0, 1, 2}
    MaxPending = 2
    MaxSeq = 6
    CachedTxs = {t1, t2}
    Capacities = {1, 2}
    MaxVersion = 2
    Mine = {1, 2, 4}
    MaxQueue = 5
    Stored = {1, 2}
    Indexes = {1, 2, 3}
    InMemory = {3}
    EnabledChoices = {{1, 3}, {1, 2, 3}}
    Migrations = {1, 2}
    MaxStarts = 3
    MaxVersions = 2
    Contracts = {"a", "b"}
    Tokens = {"t"}
    Htr = "htr"
    Amounts = {1, 3}
    RightSets = {{"mint", "melt"}}
    Unit = 2
    MaxDepth = 2
    MaxCalls = 2
    MaxUpdates = 1
    MaxExecutions = 2
INVARIANTS
    EndsAgreeAtRest CrossedDialsLeaveOne EnabledSyncsAreBounded
    NoIdleMiner OnlyOutagesOrTiesStall
    SharesAreRemembered StreamNeverStalls LastSaveSurvives WalletMatchesLedger
    RunsOnSoundStorage TrieRepresentsMap BooksBalance
SYMMETRY CacheSymmetry
CHECK_DEADLOCK FALSE

\* One transaction per block, no empty block, one crash.
SPECIFICATION AppSpec
CONSTANTS
    Voters = {v1, v2}
    Renewing = {v1}
    a = a
    None = None
    Ballots <- MCBallots
    Owner <- MCOwner
    Options <- MCOptions
    ChoiceLists <- MCChoiceLists
    PollConfigs <- MCPollConfigs
    Named <- MCOwnNamed
    Granted = {v1}
    AttestationMode = "none"
    RollingThreshold = 2
    MaxTime = 1
    MaxBatch = 1
    MaxCasts = 2
    CreateEmptyBlocks = FALSE
    MaxMempool = 2
    MaxBlockTxs = 1
    MaxBlocks = 4
    MaxRestarts = 1
INVARIANTS
    ListsSurviveRestart
CHECK_DEADLOCK FALSE

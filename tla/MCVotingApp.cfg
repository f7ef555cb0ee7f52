\* Two voters, one of them with two nonces, four blocks of up to two
\* transactions.
SPECIFICATION AppSpec
CONSTANTS
    Voters = {v1, v2}
    Renewing = {v1}
    a = a
    None = None
    Ballots <- MCBallots
    Owner <- MCOwner
    Options <- MCOptions
    ChoiceLists <- MCChoiceLists
    PollConfigs <- MCPollConfigs
    Named <- MCNamed
    Granted = {v1}
    AttestationMode = "none"
    RollingThreshold = 2
    MaxTime = 1
    MaxBatch = 1
    MaxCasts = 2
    CreateEmptyBlocks = TRUE
    MaxMempool = 2
    MaxBlockTxs = 2
    MaxBlocks = 4
    MaxRestarts = 1
INVARIANTS
    AppTypeOK
    UndisturbedLinked
    Durable
    ClosedIffTallied
    ClosedForGood
CHECK_DEADLOCK FALSE

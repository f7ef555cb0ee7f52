\* One voter with two nonces, four blocks of up to three transactions.
SPECIFICATION AppSpec
CONSTANTS
    Voters = {v1}
    Renewing = {v1}
    a = a
    None = None
    Ballots <- MCBallots
    Owner <- MCOwner
    Options <- MCOptions
    ChoiceLists <- MCChoiceLists
    PollConfigs <- MCNoAuthority
    Named = {}
    Granted = {}
    AttestationMode = "none"
    RollingThreshold = 2
    MaxTime = 1
    MaxBatch = 1
    MaxCasts = 2
    CreateEmptyBlocks = TRUE
    MaxMempool = 3
    MaxBlockTxs = 3
    MaxBlocks = 4
    MaxRestarts = 1
INVARIANTS
    SomeBlockClaimRight
CHECK_DEADLOCK FALSE

\* A sealed ballot is counted again, or keeps its poll open for ever.
SPECIFICATION FairSpec
CONSTANTS
    Voters = {v1, v2}
    Renewing = {}
    a = a
    b = b
    None = None
    Ballots <- MCBallots
    Owner <- MCOwner
    Options <- MCOptions
    ChoiceLists <- MCChoiceLists
    PollConfigs <- MCPollConfigs
    Named <- MCOwnNamed
    Granted = {}
    AttestationMode = "rolling"
    RollingThreshold = 2
    MaxTime = 2
    MaxBatch = 2
    MaxCasts = 2
PROPERTIES
    SomeSealClaimRight
CHECK_DEADLOCK FALSE

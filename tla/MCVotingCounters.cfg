\* A voter who sealed and confirmed a ballot withdraws it.
SPECIFICATION Spec
CONSTANTS
    Voters = {v1, v2}
    Renewing = {v1}
    a = a
    b = b
    None = None
    Ballots <- MCBallots
    Owner <- MCOwner
    Options <- MCOptions
    ChoiceLists <- MCChoiceLists
    PollConfigs <- MCPollConfigs
    Named <- MCNamed
    Granted = {}
    AttestationMode = "rolling"
    RollingThreshold = 2
    MaxTime = 2
    MaxBatch = 2
    MaxCasts = 2
INVARIANTS
    SomeCounterRight
CHECK_DEADLOCK FALSE

\* A restore grant is never used up, and an update may name any ballot.
SPECIFICATION Spec
CONSTANTS
    Voters = {v1, v2}
    Renewing = {v1}
    a = a
    b = b
    None = None
    Ballots <- MCBallots
    Owner <- MCOwner
    Options <- MCOptions
    ChoiceLists <- MCChoiceLists
    PollConfigs <- MCPollConfigs
    Named <- MCNamed
    Granted = {v1}
    AttestationMode = "rolling"
    RollingThreshold = 2
    MaxTime = 2
    MaxBatch = 2
    MaxCasts = 4
INVARIANTS
    SomeListClaimRight
CHECK_DEADLOCK FALSE

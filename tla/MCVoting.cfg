\* Two voters, one of them with two nonces, three casts, batches of up to two.
\* No symmetry, because of PollCloses.
SPECIFICATION FairSpec
CONSTANTS
    Voters = {v1, v2}
    Renewing = {v1}
    a = a
    b = b
    None = None
    Ballots <- MCBallots
    Owner <- MCOwner
    Options <- MCOptions
    ChoiceLists <- MCChoiceLists
    PollConfigs <- MCPollConfigs
    Named <- MCNamed
    Granted = {}
    AttestationMode = "rolling"
    RollingThreshold = 2
    MaxTime = 2
    MaxBatch = 2
    MaxCasts = 3
INVARIANTS
    TypeOK
    OneBallotPerVoter
    CountMatch
    ConfirmsRegistered
    CountersAccount
    TallyFaithful
    RollingAccounting
PROPERTIES
    ClosedOnlyRescinds
    SealedStaysSealed
    ImplementsBallotBox
    PollCloses
CHECK_DEADLOCK FALSE

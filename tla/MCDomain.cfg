\* Two participants, three submissions, two validators, two action IDs;
\* four blocks of up to two transactions and a restart.
SPECIFICATION DomainSpec
CONSTANTS
    p1 = p1
    p2 = p2
    k1 = k1
    k2 = k2
    None = None
    Participants <- MCParticipants
    Submissions <- MCSubmissions
    Owner <- MCOwner
    ValidatorKeys <- MCValidatorKeys
    Powers = {0, 2}
    Genesis <- MCGenesis
    AttestationMode = "rolling"
    RollingThreshold = 2
    WriteOnly = FALSE
    PlainIdentity = TRUE
    EndTimes = {0, 1}
    DefaultWindow = 2
    Surfaces = {"mail"}
    MaxTime = 1
    Categories = {"cat1", "cat2"}
    ActionIDs = {"act1", "act2"}
    AuthorityKeys = TRUE
    Traffics <- MCTraffics
    MaxMempool = 2
    MaxBlockTxs = 2
    MaxBlocks = 4
    MaxRestarts = 1
INVARIANTS
    DomainTypeOK
    PairedUnlessResurrected
    ClosureCommitsLists
    CheckpointCadence
    ValidatorsMirrored
    DeliveryRepeatsClosure
    SuppressedNotRevealed
    AllowListHolds
PROPERTIES
    RestartKeepsCommitted
SYMMETRY ValidatorSymmetry
CHECK_DEADLOCK FALSE

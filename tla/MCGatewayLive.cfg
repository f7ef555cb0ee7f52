\* Progress of a queued ballot: two requests, so a second ballot of the same
\* voter or an update, one fault and two events on the ledger (a rescission and
\* its restore, say).
SPECIFICATION GatewayFairSpec
CONSTANTS
    v1 = v1
    v2 = v2
    f1 = f1
    f2 = f2
    None = None
    Voters <- MCVoters
    Ballots <- MCBallots
    Owner <- MCOwner
    Keys <- MCVoters
    Key <- MCKey
    Bad = {}
    ViaRelay = {}
    Flushers <- MCFlushers
    Tokens = {"trusted"}
    AttesterOn = TRUE
    PermanentWriteOnly = FALSE
    FallbackMissing = TRUE
    FallbackUntrusted = TRUE
    NoncePlusPayload = TRUE
    MaxRequests = 2
    MaxFaults = 1
    MaxEvents = 2
PROPERTIES
    QueuedReachesLedger
CHECK_DEADLOCK FALSE

\* Two voters, three ballots, two concurrent flushes, one fault, one event on
\* the ledger; one voter's ballot may come through the relay.
SPECIFICATION GatewaySpec
CONSTANTS
    v1 = v1
    v2 = v2
    f1 = f1
    f2 = f2
    None = None
    Voters <- MCVoters
    Ballots <- MCBallots
    Owner <- MCOwner
    Keys <- MCVoters
    Key <- MCKey
    Bad = {}
    ViaRelay <- MCViaRelay
    Flushers <- MCFlushers
    Tokens = {"trusted"}
    AttesterOn = TRUE
    PermanentWriteOnly = FALSE
    FallbackMissing = TRUE
    FallbackUntrusted = TRUE
    NoncePlusPayload = TRUE
    MaxRequests = 3
    MaxFaults = 1
    MaxEvents = 1
INVARIANTS
    GatewayTypeOK
    AcceptedNotLost
    
    WriteOnlyNoReceipt
    ReceiptsMatchLedger
CHECK_DEADLOCK FALSE

------------------------------ MODULE ShyStore -----------------------------
(***************************************************************************)
(* domain/state/shystore/state.go: buckets of sealed secrets on top of     *)
(* TwoListBase, with reveals and two-party adverse actions.  Buckets,      *)
(* reveal events, the authority-action log and suppressions are in memory  *)
(* only, and neither a reveal nor an adverse action marks the base dirty.  *)
(* Inputs are those of honest devices and authorities.                     *)
(***************************************************************************)
EXTENDS TwoListBase

CONSTANTS
    Categories,         \* secret categories
    ActionIDs,          \* H(action nonce)
    AuthorityKeys       \* are both authority keys configured?

VARIABLES
    bucket,             \* AllowedCategories of the BucketRecord, or None
    revealEvents,       \* secrets with a RevealEventRecord
    authorityActions,   \* IDs in the authority-action log
    suppressed          \* suppressedIdentities

storeVars == <<bucket, revealEvents, authorityActions, suppressed>>

SecretStoreTxs == [type : {"SecretStore"}, new : Submissions,
                   category : Categories]
SecretRevealTxs == [type : {"SecretReveal"}, secret : Submissions]
SecretRotateTxs ==
    {t \in [type : {"SecretRotate"}, old : Submissions, new : Submissions] :
        t.old # t.new /\ Owner[t.old] = Owner[t.new]}
BucketCloseTxs == [type : {"BucketClose"}]
StoreValidatorTxs == [type : {"StoreValidator"}, key : ValidatorKeys,
                      power : Powers]
AdverseActionTxs ==
    {t \in [type : {"AdverseAction"}, id : ActionIDs, target : Participants,
            action : {"suppress", "restore"}, ref : ActionIDs \cup {None}] :
        t.action = "suppress" => t.ref = None}

StoreTxs == SecretStoreTxs \cup SecretRevealTxs \cup SecretRotateTxs
            \cup BucketCloseTxs \cup StoreValidatorTxs \cup AdverseActionTxs

StoreInit ==
    bucket = None /\ revealEvents = {} /\ authorityActions = {}
    /\ suppressed = {}

-----------------------------------------------------------------------------
\* NewBucket is a call of the operator, outside any transaction.
NewBucket(categories) ==
    /\ period.status = "none"
    /\ CreatePeriod(0)
    /\ bucket' = categories
    /\ UNCHANGED <<revealEvents, authorityActions, suppressed>>

\* Mutant of ValidateSecretStore: no allow-list.
StoreAnyCategory(t) ==
    /\ beaconKnown
    /\ period.status = "open"
    /\ Owner[t.new] \notin participants

\* A bucket without a record in memory, or with an empty list, takes every
\* category.
ValidateSecretStore(t) ==
    /\ beaconKnown
    /\ period.status = "open"
    /\ bucket \notin {None, {}} => t.category \in bucket
    /\ Owner[t.new] \notin participants

ExecuteSecretStore(t) ==
    SubmitToLists(t.new, Owner[t.new]) /\ UNCHANGED storeVars

\* Mutant of ValidateSecretReveal: no suppression check.
RevealAlways(t) ==
    /\ period.status # "none"
    /\ Owner[t.secret] \in participants
    /\ t.secret \in submissions

\* Closed buckets still reveal.
ValidateSecretReveal(t) ==
    /\ period.status # "none"
    /\ RederivedIdentity(Owner[t.secret]) \in participants
    /\ t.secret \in submissions
    /\ RederivedIdentity(Owner[t.secret]) \notin suppressed

ExecuteSecretReveal(t) ==
    /\ revealEvents' = revealEvents \cup {t.secret}
    /\ UNCHANGED <<baseVars, bucket, authorityActions, suppressed>>

ValidateSecretRotate(t) ==
    /\ ~ WriteOnly
    /\ beaconKnown
    /\ period.status = "open"
    /\ t.old \in submissions
    /\ Owner[t.old] \in participants

ExecuteSecretRotate(t) ==
    UpdateSubmission(t.old, t.new) /\ UNCHANGED storeVars

ValidateBucketClose == period.status = "open"

ExecuteBucketClose == ClosePeriod /\ UNCHANGED storeVars

ValidateAdverseAction(t) ==
    /\ AuthorityKeys
    /\ t.id \notin authorityActions
    /\ t.target \in participants
    /\ t.action = "restore" /\ t.ref # None => t.ref \in authorityActions

ExecuteAdverseAction(t) ==
    /\ authorityActions' = authorityActions \cup {t.id}
    /\ suppressed' = IF t.action = "suppress" THEN suppressed \cup {t.target}
                     ELSE suppressed \ {t.target}
    /\ UNCHANGED <<baseVars, bucket, revealEvents>>

StoreValidateTx(t) ==
    CASE t.type = "SecretStore" -> ValidateSecretStore(t)
      [] t.type = "SecretReveal" -> ValidateSecretReveal(t)
      [] t.type = "SecretRotate" -> ValidateSecretRotate(t)
      [] t.type = "BucketClose" -> ValidateBucketClose
      [] t.type = "StoreValidator" -> TRUE
      [] t.type = "AdverseAction" -> ValidateAdverseAction(t)

StoreExecuteTx(t) ==
    \/ t.type = "SecretStore" /\ ExecuteSecretStore(t)
    \/ t.type = "SecretReveal" /\ ExecuteSecretReveal(t)
    \/ t.type = "SecretRotate" /\ ExecuteSecretRotate(t)
    \/ t.type = "BucketClose" /\ ExecuteBucketClose
    \/ /\ t.type = "StoreValidator"
       /\ RegisterValidator(t.key, t.power)
       /\ UNCHANGED storeVars
    \/ t.type = "AdverseAction" /\ ExecuteAdverseAction(t)

\* NewStoreStateWithOptions: all four maps start empty.
StoreRestart ==
    bucket' = None /\ revealEvents' = {} /\ authorityActions' = {}
    /\ suppressed' = {}

=============================================================================

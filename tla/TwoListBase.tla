---------------------------- MODULE TwoListBase ----------------------------
(***************************************************************************)
(* protocol/submission/base.go: the two lists that the shychat and shystore*)
(* state machines embed, for one period (every operation reads and writes  *)
(* only keys that begin with its period ID; validators are global).        *)
(* An operation whose code returns an error leaves everything unchanged.   *)
(***************************************************************************)
EXTENDS Integers, FiniteSets, Sequences

CONSTANTS
    Participants,       \* identity hashes
    Submissions,        \* submission IDs, H(beacon, nonce)
    Owner,              \* whose device drew the nonce: on no list
    ValidatorKeys,
    Powers,             \* powers a registration may give
    Genesis,            \* validators CometBFT starts with
    None,
    AttestationMode,    \* "rolling", "period_close" or "none"
    RollingThreshold,
    WriteOnly,          \* the coercion-resistant posture
    PlainIdentity       \* does the verifier identify by H(key, period), as
                        \* Didit's does?  The others hash something else.

ASSUME BaseConstants ==
    /\ IsFiniteSet(Participants) /\ IsFiniteSet(Submissions)
    /\ Owner \in [Submissions -> Participants]
    /\ Powers \subseteq Nat
    /\ Genesis \subseteq ValidatorKeys
    /\ AttestationMode \in {"rolling", "period_close", "none"}
    /\ RollingThreshold \in Nat \ {0}
    /\ WriteOnly \in BOOLEAN /\ PlainIdentity \in BOOLEAN
    /\ None \notin Participants
    /\ None \notin [l1 : SUBSET Submissions, l2 : SUBSET Participants,
                     total : Nat]

VARIABLES
    period,             \* PeriodRecord: status and end time (0: none)
    submissions,        \* List 1
    participants,       \* List 2
    closure,            \* ClosureRecord or None
    checkpoints,        \* AttestationCheckpoints, in memory only
    submissionCount,    \* accepted since the last one, in memory only
    validators,         \* registered powers, 0 when there is no record
    pendingUpdates,     \* ValidatorUpdates queued for the end of the block
    beaconKnown,        \* is any block hash in the beacon window?
    dirty,
    db                  \* what LevelDB holds

lists == <<submissions, participants>>
rolling == <<checkpoints, submissionCount>>
power == <<validators, pendingUpdates>>
baseVars == <<period, lists, closure, rolling, power, beaconKnown, dirty, db>>

\* Withdrawals and reveals do not ask the verifier: they hash key and period
\* themselves, and find nobody when the verifier had another formula.
RederivedIdentity(p) == IF PlainIdentity THEN p ELSE None

NoPeriod == [status |-> "none", end |-> 0]

BaseInit ==
    /\ period = NoPeriod
    /\ submissions = {} /\ participants = {}
    /\ closure = None
    /\ checkpoints = <<>> /\ submissionCount = 0
    /\ validators = [k \in ValidatorKeys |-> 0] /\ pendingUpdates = <<>>
    /\ beaconKnown = FALSE
    /\ dirty = FALSE
    /\ db = [period |-> NoPeriod, submissions |-> {}, participants |-> {},
             closure |-> None, validators |-> validators]

-----------------------------------------------------------------------------
CreatePeriod(end) ==
    /\ IF period.status = "none"
       THEN /\ period' = [status |-> "open", end |-> end]
            /\ dirty' = TRUE
       ELSE UNCHANGED <<period, dirty>>
    /\ UNCHANGED <<lists, closure, rolling, power, beaconKnown, db>>

\* collectPeriodLists: no code sets Superseded, so every entry counts.
CountMatches(l1, l2) == Cardinality(l1) = Cardinality(l2)

\* Both Merkle roots and the total: what an attestation commits to.
Attested(l1, l2) == [l1 |-> l1, l2 |-> l2, total |-> Cardinality(l1)]

\* Mutant of SubmitToLists: the execute path trusts the earlier validation.
SubmitUnguarded(s, p) ==
    /\ submissions' = submissions \cup {s}
    /\ participants' = participants \cup {p}
    /\ dirty' = TRUE
    /\ UNCHANGED <<period, closure, rolling, power, beaconKnown, db>>

\* Mutant of SubmitToLists: the counter is not reset at a checkpoint.
SubmitNoReset(s, p) ==
    /\ submissions' = submissions \cup {s}
    /\ participants' = participants \cup {p}
    /\ submissionCount' = submissionCount + 1
    /\ checkpoints' = IF submissionCount' >= RollingThreshold
                      THEN Append(checkpoints,
                                  Attested(submissions', participants'))
                      ELSE checkpoints
    /\ dirty' = TRUE
    /\ UNCHANGED <<period, closure, power, beaconKnown, db>>

\* SubmitToListsWithSealedAttrs with CommitRollingAttestation: period and
\* closure are not looked at; a checkpoint that fails is only logged, after
\* the counter was reset.
SubmitToLists(s, p) ==
    \/ p \in participants /\ UNCHANGED baseVars
    \/ /\ p \notin participants
       /\ submissions' = submissions \cup {s}
       /\ participants' = participants \cup {p}
       /\ dirty' = TRUE
       /\ IF AttestationMode = "rolling"
          THEN LET due == submissionCount + 1 >= RollingThreshold IN
               /\ submissionCount' = IF due THEN 0 ELSE submissionCount + 1
               /\ checkpoints' =
                     IF due /\ CountMatches(submissions', participants')
                     THEN Append(checkpoints,
                                 Attested(submissions', participants'))
                     ELSE checkpoints
          ELSE UNCHANGED rolling
       /\ UNCHANGED <<period, closure, power, beaconKnown, db>>

\* UpdateSubmission asks for neither the period nor the identity.
UpdateSubmission(old, new) ==
    \/ (WriteOnly \/ old \notin submissions) /\ UNCHANGED baseVars
    \/ /\ ~ WriteOnly /\ old \in submissions
       /\ submissions' = (submissions \ {old}) \cup {new}
       /\ dirty' = TRUE
       /\ UNCHANGED <<period, participants, closure, rolling, power,
                      beaconKnown, db>>

WithdrawFromLists(s, p) ==
    \/ (s \notin submissions \/ p \notin participants) /\ UNCHANGED baseVars
    \/ /\ s \in submissions /\ p \in participants
       /\ submissions' = submissions \ {s}
       /\ participants' = participants \ {p}
       /\ dirty' = TRUE
       /\ UNCHANGED <<period, closure, rolling, power, beaconKnown, db>>

\* A signer that fails degrades the signature and does not stop the close.
CanClose == period.status = "open" /\ closure = None
            /\ CountMatches(submissions, participants)

ClosePeriod ==
    /\ IF CanClose
       THEN /\ period' = [period EXCEPT !.status = "closed"]
            /\ closure' = Attested(submissions, participants)
            /\ dirty' = TRUE
       ELSE UNCHANGED <<period, closure, dirty>>
    /\ UNCHANGED <<lists, rolling, power, beaconKnown, db>>

\* Mutant of RegisterValidator: the record is kept when the power is 0.
RegisterKeepsRecord(k, p) ==
    /\ validators' = IF p = 0 THEN validators ELSE [validators EXCEPT ![k] = p]
    /\ pendingUpdates' = Append(pendingUpdates, [key |-> k, power |-> p])
    /\ dirty' = TRUE
    /\ UNCHANGED <<period, lists, closure, rolling, beaconKnown, db>>

RegisterValidator(k, p) ==
    /\ validators' = [validators EXCEPT ![k] = p]
    /\ pendingUpdates' = Append(pendingUpdates, [key |-> k, power |-> p])
    /\ dirty' = TRUE
    /\ UNCHANGED <<period, lists, closure, rolling, beaconKnown, db>>

\* The window keeps more blocks than a transaction waits in the mempool, so
\* only whether it was filled since the start is told apart.
RecordBeacon ==
    /\ beaconKnown' = TRUE
    /\ UNCHANGED <<period, lists, closure, rolling, power, dirty, db>>

\* Mutant of Persisted: Commit forgets the closures.
PersistedNoClosure ==
    [period |-> period, submissions |-> db.submissions \cup submissions,
     participants |-> db.participants \cup participants,
     closure |-> db.closure, validators |-> validators]

\* Commit sets keys and never deletes one: what an update or a withdrawal
\* removed, and a validator with power 0, stay in the database.
Persisted ==
    [period |-> IF period.status = "none" THEN db.period ELSE period,
     submissions |-> db.submissions \cup submissions,
     participants |-> db.participants \cup participants,
     closure |-> IF closure = None THEN db.closure ELSE closure,
     validators |-> [k \in ValidatorKeys |->
                       IF validators[k] = 0 THEN db.validators[k]
                       ELSE validators[k]]]

\* GetPendingValidatorUpdates and Commit, at the end of a block.
Commit ==
    /\ pendingUpdates' = <<>>
    /\ db' = IF dirty THEN Persisted ELSE db
    /\ dirty' = FALSE
    /\ UNCHANGED <<period, lists, closure, rolling, validators, beaconKnown>>

\* What the app hash covers: not the checkpoints.
Hashed == <<period, submissions, participants, closure, validators>>

\* NewTwoListBase and loadState: checkpoints, the counter and the beacon
\* window start empty.
LoadState ==
    /\ period' = db.period
    /\ submissions' = db.submissions
    /\ participants' = db.participants
    /\ closure' = db.closure
    /\ validators' = db.validators
    /\ checkpoints' = <<>> /\ submissionCount' = 0
    /\ pendingUpdates' = <<>>
    /\ beaconKnown' = FALSE
    /\ dirty' = FALSE
    /\ UNCHANGED db

-----------------------------------------------------------------------------
BaseTypeOK ==
    /\ period.status \in {"none", "open", "closed"}
    /\ submissions \subseteq Submissions
    /\ participants \subseteq Participants
    /\ submissionCount \in 0..RollingThreshold
    /\ validators \in [ValidatorKeys -> Powers \cup {0}]
    /\ dirty \in BOOLEAN /\ beaconKnown \in BOOLEAN

\* The submissions of participant p, through the nonces only p's device knows.
OwnSubmissions(p) == {s \in submissions : Owner[s] = p}

\* p is on List 2 exactly when one submission of p is on List 1.
Paired(p) ==
    IF p \in participants THEN Cardinality(OwnSubmissions(p)) = 1
                          ELSE OwnSubmissions(p) = {}

=============================================================================

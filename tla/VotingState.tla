---------------------------- MODULE VotingState ----------------------------
(***************************************************************************)
(* The canonical two-list state machine of domain/state, scoped to one     *)
(* poll.  List 1 (voteDirections) holds anonymous ballots, List 2          *)
(* (voterRegistry) holds the identities that took part; nothing in the     *)
(* state links an entry of one list to an entry of the other.              *)
(*                                                                         *)
(* Every transaction type has a Validate operator (the validateX method,   *)
(* called from CheckTx) and an Execute action (the executeX method, called *)
(* from FinalizeBlock).  Spec is the state machine driven one transaction  *)
(* at a time, validated against the very state it executes on; module      *)
(* VotingApp drives the same Execute actions the way app.App does.         *)
(*                                                                         *)
(* Every handler reads and writes only keys that start with its own        *)
(* transaction's poll ID, so one poll is modelled.                         *)
(***************************************************************************)
EXTENDS Integers, FiniteSets, Sequences

CONSTANTS
    Voters,            \* identity hashes, as the identity verifier derives them
    Ballots,           \* ballot IDs: hashes of nonces drawn on voters' devices
    Owner,             \* whose device drew the nonce; never in canonical state
    Options,           \* the options of the poll
    ChoiceLists,       \* the lists of choices ballots may carry
    PollConfigs,       \* the poll definitions operators may submit
    Named,             \* <<v, b>>: the device of v may name b in an update
    Granted,           \* voters for whom the authorities may sign a restore
    AttestationMode,   \* "rolling", "period_close" or "none"
    RollingThreshold,  \* submissions per rolling attestation
    MaxTime,           \* bound: the last tick of the clock
    MaxBatch,          \* bound: submissions in one flush
    MaxCasts,          \* bound: submissions ever flushed
    None               \* a missing map entry

Methods == {"plurality", "approval", "ranked"}

PollDefinitions ==
    [method : Methods, start : 0..MaxTime, end : 0..MaxTime, authority : BOOLEAN]

VoteRecords == [choices : ChoiceLists, sealed : BOOLEAN, keyed : BOOLEAN]

Tallies == [counts : [Options -> Int], total : Int, confirmed : Nat,
            degraded : BOOLEAN, rescissionCount : Nat]

ASSUME VotersFinite == IsFiniteSet(Voters) /\ IsFiniteSet(Ballots)
ASSUME OwnerAssumption == Owner \in [Ballots -> Voters]
ASSUME ChoiceAssumption == ChoiceLists \subseteq Seq(Options) \ {<<>>}
ASSUME ConfigAssumption == PollConfigs \subseteq PollDefinitions
ASSUME GrantedAssumption == Granted \subseteq Voters
ASSUME NamedAssumption == Named \subseteq Voters \X Ballots
ASSUME ModeAssumption == AttestationMode \in {"rolling", "period_close", "none"}
ASSUME BoundAssumption ==
    /\ RollingThreshold \in Nat \ {0} /\ MaxTime \in Nat
    /\ MaxBatch \in Nat /\ MaxCasts \in Nat
ASSUME NoneAssumption ==
    None \notin VoteRecords /\ None \notin Tallies /\ None \notin ChoiceLists

VARIABLES
    now,              \* time.Now()
    poll,             \* polls[pollID]; status "none" while it does not exist
    voteDirections,   \* List 1: ballot ID -> VoteRecord or None
    voterRegistry,    \* List 2: the registered identities
    tally,            \* tallies[pollID] or None
    confirms,         \* identities with a ConfirmRecord
    rescissions,      \* ballot IDs with a RescindRecord
    restores,         \* identities with a RestoreRecord
    submissionCount,  \* submissions since the last rolling attestation
    checkpoints,      \* rolling attestations committed so far
    dirty,            \* does Commit have anything to write?
    result            \* did the last executed transaction return an error?

(* History variables: what happened, for the properties only. *)
VARIABLES
    crossed,          \* voters of updates that named another voter's ballot
    rewritten,        \* did a ballot land on the ID of another one in List 1?
    withdrawals       \* withdrawals executed

lists == <<voteDirections, voterRegistry>>
audit == <<confirms, rescissions, restores>>
rolling == <<submissionCount, checkpoints>>
marks == <<crossed, rewritten, withdrawals>>
stateVars == <<poll, voteDirections, voterRegistry, tally, confirms,
               rescissions, restores, submissionCount, checkpoints, dirty,
               result, marks>>
vars == <<now, stateVars>>

-----------------------------------------------------------------------------
(* Transactions.  Signatures and attestations of the enumerated inputs are  *)
(* valid: a device signs with its own key and draws its own nonces, which   *)
(* it may use again, and the authorities sign for the identity that really  *)
(* owns the ballot.  The old ballot ID of an update is what the device says *)
(* it is: no handler relates it to the identity of the submitter.           *)

Submissions == [ballot : Ballots, choices : ChoiceLists]

PollCreateTxs == {[type |-> "PollCreate", config |-> c] : c \in PollConfigs}

BatchFlushTxs ==
    {[type |-> "BatchFlush", submissions |-> s] :
        s \in {s \in SUBSET Submissions : Cardinality(s) \in 1..MaxBatch}}

\* The device of a voter replaces a ballot or, with empty choices, withdraws
\* one.  The nonce of a withdrawal is not looked at.
ChangeTxs ==
    {t \in [type : {"UpdateBallot"}, voter : Voters, old : Ballots,
            new : Ballots, choices : ChoiceLists] : Owner[t.new] = t.voter}

WithdrawTxs ==
    [type : {"UpdateBallot"}, voter : Voters, old : Ballots, choices : {<<>>}]

UpdateBallotTxs ==
    {t \in ChangeTxs \cup WithdrawTxs : <<t.voter, t.old>> \in Named}

ConfirmReceiptTxs == [type : {"ConfirmReceipt"}, voter : Voters]

PollCloseTxs == [type : {"PollClose"}]

ResealVoteTxs == [type : {"ResealVote"}, ballot : Ballots]

AuthorityRescindTxs == [type : {"AuthorityRescind"}, ballot : Ballots]

AuthorityRestoreTxs ==
    {t \in [type : {"AuthorityRestore"}, ballot : Ballots] :
        Owner[t.ballot] \in Granted}

Txs == PollCreateTxs \cup BatchFlushTxs \cup UpdateBallotTxs
       \cup ConfirmReceiptTxs \cup PollCloseTxs \cup ResealVoteTxs
       \cup AuthorityRescindTxs \cup AuthorityRestoreTxs

-----------------------------------------------------------------------------
(* The two lists.                                                           *)

NoPoll == [status |-> "none", method |-> "plurality", start |-> 0, end |-> 0,
           authority |-> FALSE, sealedCount |-> 0, reattestationCount |-> 0,
           idvCastCount |-> 0]

\* Ballot IDs present in List 1.
L1(votes) == {b \in Ballots : votes[b] # None}

\* collectPollLists: ballots in the sealed partition are skipped ...
Counted(votes) == {b \in L1(votes) : ~ votes[b].sealed}

\* ... while every List 2 entry is counted.
CountsMatch(votes, registry) ==
    Cardinality(Counted(votes)) = Cardinality(registry)

\* Mutant of Contributes: every method counts all the choices of a ballot.
ContributesAll(method, choices, o) ==
    \E i \in 1..Len(choices) : choices[i] = o

\* collectPollLists: approval counts every choice, other methods the first.
Contributes(method, choices, o) ==
    IF method = "approval"
    THEN \E i \in 1..Len(choices) : choices[i] = o
    ELSE choices[1] = o

TallyCounts(method, votes) ==
    [o \in Options |->
        Cardinality({b \in Counted(votes) :
                        Contributes(method, votes[b].choices, o)})]

\* Mutant of GivesBack: a rescission gives back all choices in every method.
GivesBackAll(method, choices, o) ==
    \E i \in 1..Len(choices) : choices[i] = o

\* executeAuthorityRescind: ranked gives back the first choice, others all.
GivesBack(method, choices, o) ==
    IF method = "ranked"
    THEN choices[1] = o
    ELSE \E i \in 1..Len(choices) : choices[i] = o

\* validateChoices
ValidChoices(choices) ==
    /\ choices # <<>>
    /\ \A i \in 1..Len(choices) : choices[i] \in Options
    /\ \A i, j \in 1..Len(choices) : choices[i] = choices[j] => i = j
    /\ poll.method = "plurality" => Len(choices) = 1

\* The poll exists, has started, has not ended and is not closed.
Votable ==
    /\ poll.status \notin {"none", "closed"}
    /\ poll.start <= now /\ now < poll.end

\* validateBallotCast flips a started poll from pending to open as it looks.
Opened == IF Votable THEN [poll EXCEPT !.status = "open"] ELSE poll

HasRestoreGrant(v) == v \in restores

-----------------------------------------------------------------------------
(* PollCreate                                                               *)

ValidatePollCreate(t) ==
    /\ poll.status = "none"
    /\ t.config.start >= now
    /\ t.config.end > t.config.start

ExecutePollCreate(t) ==
    /\ poll' = [status |-> "pending", method |-> t.config.method,
                start |-> t.config.start, end |-> t.config.end,
                authority |-> t.config.authority, sealedCount |-> 0,
                reattestationCount |-> 0, idvCastCount |-> 0]
    /\ dirty' = TRUE /\ result' = "ok"
    /\ UNCHANGED <<lists, tally, audit, rolling>>

-----------------------------------------------------------------------------
(* BatchFlush: the only way ballots reach the lists (a bare BallotCast is   *)
(* rejected by ValidateTx and by ExecuteTx).                                *)

\* Mutant of ValidateBallotCast: the duplicate check on List 2 is missing.
ValidateBallotCastNoDedup(s) == Votable /\ ValidChoices(s.choices)

ValidateBallotCast(s) ==
    /\ Votable
    /\ ValidChoices(s.choices)
    /\ Owner[s.ballot] \in voterRegistry => HasRestoreGrant(Owner[s.ballot])

\* Mutant of ValidateBatchFlush: one identity may come twice in a batch.
ValidateBatchFlushNoDedup(t) ==
    /\ poll.status \notin {"none", "closed"}
    /\ \A s \in t.submissions : ValidateBallotCast(s)

ValidateBatchFlush(t) ==
    /\ poll.status \notin {"none", "closed"}
    /\ \A s \in t.submissions : ValidateBallotCast(s)
    /\ \A s1, s2 \in t.submissions :
          s1 # s2 => /\ s1.ballot # s2.ballot
                     /\ Owner[s1.ballot] # Owner[s2.ballot]

\* Submissions are sorted by ballot ID before they are written; validated
\* batches have distinct IDs and identities, so the order leaves no trace.
FlushedVotes(t) ==
    [b \in Ballots |->
        IF \E s \in t.submissions : s.ballot = b
        THEN LET s == CHOOSE s \in t.submissions : s.ballot = b
             IN [choices |-> s.choices, sealed |-> FALSE, keyed |-> TRUE]
        ELSE voteDirections[b]]

\* Mutant of RollingAttestation: the counter restarts from zero.
RollingAttestationResets(pending) ==
    IF pending < RollingThreshold \/ ~ CountsMatch(voteDirections', voterRegistry')
    THEN submissionCount' = pending /\ result' = "ok" /\ UNCHANGED checkpoints
    ELSE /\ submissionCount' = 0
         /\ checkpoints' = checkpoints + (pending \div RollingThreshold)
         /\ result' = "ok"

\* Every RollingThreshold submissions commitRollingAttestation signs both
\* lists.  It refuses lists of different sizes; the flush then returns an
\* error although both lists and the counters have been written.
RollingAttestation(pending) ==
    IF AttestationMode # "rolling" \/ pending < RollingThreshold
    THEN /\ submissionCount' = IF AttestationMode = "rolling" THEN pending
                               ELSE submissionCount
         /\ result' = "ok"
         /\ UNCHANGED checkpoints
    ELSE IF CountsMatch(voteDirections', voterRegistry')
         THEN /\ submissionCount' = pending % RollingThreshold
              /\ checkpoints' = checkpoints + (pending \div RollingThreshold)
              /\ result' = "ok"
         ELSE /\ submissionCount' = pending - RollingThreshold
              /\ result' = "error"
              /\ UNCHANGED checkpoints

\* p is the poll as validation left it on this node.
ExecuteBatchFlush(t, p) ==
    /\ voteDirections' = FlushedVotes(t)
    /\ voterRegistry' =
          voterRegistry \cup {Owner[s.ballot] : s \in t.submissions}
    /\ poll' = IF p.status = "none" THEN p
               ELSE [p EXCEPT !.idvCastCount = @ + Cardinality(t.submissions)]
    /\ dirty' = TRUE
    /\ RollingAttestation(submissionCount + Cardinality(t.submissions))
    /\ UNCHANGED <<tally, audit>>

-----------------------------------------------------------------------------
(* UpdateBallot: a new direction, or a withdrawal from both lists.          *)

\* Mutant of ValidateBallotUpdate: the old ballot need not exist.
ValidateBallotUpdateBlind(t) ==
    /\ Votable
    /\ t.voter \in voterRegistry
    /\ t.choices # <<>> => ValidChoices(t.choices)

ValidateBallotUpdate(t) ==
    /\ Votable
    /\ voteDirections[t.old] # None
    /\ t.voter \in voterRegistry
    /\ t.choices # <<>> => ValidChoices(t.choices)

ExecuteBallotUpdate(t) ==
    /\ dirty' = TRUE /\ result' = "ok"
    /\ IF t.choices = <<>>
       THEN /\ voteDirections' = [voteDirections EXCEPT ![t.old] = None]
            /\ voterRegistry' = voterRegistry \ {t.voter}
            /\ confirms' = confirms \ {t.voter}
            /\ tally' = IF tally = None THEN None
                        ELSE [tally EXCEPT !.confirmed = Cardinality(confirms')]
       ELSE /\ voteDirections' =
                  [voteDirections EXCEPT
                      ![t.old] = None,
                      ![t.new] = [choices |-> t.choices, sealed |-> FALSE,
                                  keyed |-> FALSE]]
            /\ UNCHANGED <<voterRegistry, confirms, tally>>
    /\ UNCHANGED <<poll, rescissions, restores, rolling>>

-----------------------------------------------------------------------------
(* ConfirmReceipt                                                           *)

\* Mutant of ValidateConfirmReceipt: the voter need not be registered.
ValidateConfirmReceiptBlind(t) ==
    poll.status # "none" /\ now >= poll.start /\ t.voter \notin confirms

ValidateConfirmReceipt(t) ==
    /\ poll.status # "none"
    /\ now >= poll.start
    /\ t.voter \in voterRegistry
    /\ t.voter \notin confirms

\* Mutant of ExecuteConfirmReceipt: the state is not marked dirty.
ExecuteConfirmReceiptClean(t) ==
    /\ confirms' = confirms \cup {t.voter}
    /\ poll' = [poll EXCEPT !.reattestationCount = @ + 1]
    /\ result' = "ok"
    /\ UNCHANGED <<lists, tally, rescissions, restores, rolling, dirty>>

ExecuteConfirmReceipt(t) ==
    /\ confirms' = confirms \cup {t.voter}
    /\ poll' = IF poll.status = "none" THEN poll
               ELSE [poll EXCEPT !.reattestationCount = @ + 1]
    /\ tally' = IF tally = None THEN None
                ELSE [tally EXCEPT !.confirmed = Cardinality(confirms')]
    /\ dirty' = TRUE /\ result' = "ok"
    /\ UNCHANGED <<lists, rescissions, restores, rolling>>

-----------------------------------------------------------------------------
(* PollClose                                                                *)

ValidatePollClose(t) ==
    /\ poll.status \notin {"none", "closed"}
    /\ now >= poll.end
    /\ tally = None

\* The signer may be unavailable: the tally is then stored as degraded.
ExecutePollClose(t) ==
    IF CountsMatch(voteDirections, voterRegistry)
    THEN /\ \E degraded \in (IF AttestationMode = "none" THEN {FALSE}
                             ELSE BOOLEAN) :
               tally' = [counts |-> TallyCounts(poll.method, voteDirections),
                         total |-> Cardinality(Counted(voteDirections)),
                         confirmed |-> Cardinality(confirms),
                         degraded |-> degraded,
                         rescissionCount |-> 0]
         /\ poll' = [poll EXCEPT !.status = "closed"]
         /\ dirty' = TRUE /\ result' = "ok"
         /\ UNCHANGED <<lists, audit, rolling>>
    ELSE /\ result' = "error"
         /\ UNCHANGED <<poll, lists, tally, audit, rolling, dirty>>

-----------------------------------------------------------------------------
(* ResealVote: the voter moves its ballot to the sealed partition.          *)

\* Mutant of ValidateResealVote: the poll may be closed.
ValidateResealVoteLate(t) ==
    /\ voteDirections[t.ballot] # None
    /\ ~ voteDirections[t.ballot].sealed
    /\ voteDirections[t.ballot].keyed

ValidateResealVote(t) ==
    /\ poll.status \notin {"none", "closed"}
    /\ voteDirections[t.ballot] # None
    /\ ~ voteDirections[t.ballot].sealed
    /\ voteDirections[t.ballot].keyed

ExecuteResealVote(t) ==
    IF t.ballot \in Counted(voteDirections)
    THEN /\ voteDirections' = [voteDirections EXCEPT ![t.ballot].sealed = TRUE]
         /\ poll' = [poll EXCEPT !.sealedCount = @ + 1]
         /\ dirty' = TRUE /\ result' = "ok"
         /\ UNCHANGED <<voterRegistry, tally, audit, rolling>>
    ELSE /\ result' = "error"
         /\ UNCHANGED <<poll, lists, tally, audit, rolling, dirty>>

-----------------------------------------------------------------------------
(* AuthorityRescind and AuthorityRestore, co-signed by both authorities.    *)

ValidateAuthorityRescind(t) ==
    /\ poll.status # "none"
    /\ poll.authority
    /\ voteDirections[t.ballot] # None
    /\ Owner[t.ballot] \in voterRegistry
    /\ t.ballot \notin rescissions

\* A tally with no ballot behind it: voteRecord is nil and dereferenced.
RescindPanics(t) == tally # None /\ voteDirections[t.ballot] = None

RescindedTally(choices) ==
    [tally EXCEPT
        !.total = @ - 1,
        !.counts = [o \in Options |->
                       IF GivesBack(poll.method, choices, o)
                       THEN tally.counts[o] - 1 ELSE tally.counts[o]],
        !.rescissionCount = @ + 1,
        !.degraded = TRUE]

\* Mutant of ReattestationAfter: both conditions are missing.
ReattestationAfterUnguarded(v) == poll.reattestationCount - 1

\* ReattestationCount once v is rescinded.
ReattestationAfter(v) ==
    IF v \in confirms /\ poll.reattestationCount > 0
    THEN poll.reattestationCount - 1
    ELSE poll.reattestationCount

\* Mutant of SealedAfter: the partition of the ballot is not looked at.
SealedAfterAny(vote) ==
    IF poll.sealedCount > 0 THEN poll.sealedCount - 1 ELSE poll.sealedCount

\* SealedCount once the ballot with this record is rescinded.
SealedAfter(vote) ==
    IF vote # None /\ vote.sealed /\ poll.sealedCount > 0
    THEN poll.sealedCount - 1
    ELSE poll.sealedCount

ExecuteAuthorityRescind(t) ==
    LET v == Owner[t.ballot]
        vote == voteDirections[t.ballot]
    IN /\ ~ RescindPanics(t)
       /\ voteDirections' = [voteDirections EXCEPT ![t.ballot] = None]
       /\ voterRegistry' = voterRegistry \ {v}
       /\ confirms' = confirms \ {v}
       /\ poll' = [poll EXCEPT
                      !.reattestationCount = ReattestationAfter(v),
                      !.sealedCount = SealedAfter(vote)]
       /\ tally' = IF tally = None THEN None ELSE RescindedTally(vote.choices)
       /\ rescissions' = rescissions \cup {t.ballot}
       /\ dirty' = TRUE /\ result' = "ok"
       /\ UNCHANGED <<restores, rolling>>

ValidateAuthorityRestore(t) ==
    /\ poll.status # "none"
    /\ poll.authority
    /\ t.ballot \in rescissions
    /\ Owner[t.ballot] \notin restores

ExecuteAuthorityRestore(t) ==
    /\ restores' = restores \cup {Owner[t.ballot]}
    /\ dirty' = TRUE /\ result' = "ok"
    /\ UNCHANGED <<poll, lists, tally, confirms, rescissions, rolling>>

-----------------------------------------------------------------------------
(* ValidateTx and ExecuteTx dispatch on the transaction type.               *)

ValidateTx(t) ==
    \/ t.type = "PollCreate" /\ ValidatePollCreate(t)
    \/ t.type = "BatchFlush" /\ ValidateBatchFlush(t)
    \/ t.type = "UpdateBallot" /\ ValidateBallotUpdate(t)
    \/ t.type = "ConfirmReceipt" /\ ValidateConfirmReceipt(t)
    \/ t.type = "PollClose" /\ ValidatePollClose(t)
    \/ t.type = "ResealVote" /\ ValidateResealVote(t)
    \/ t.type = "AuthorityRescind" /\ ValidateAuthorityRescind(t)
    \/ t.type = "AuthorityRestore" /\ ValidateAuthorityRestore(t)

ExecuteTx(t, p) ==
    \/ t.type = "PollCreate" /\ ExecutePollCreate(t)
    \/ t.type = "BatchFlush" /\ ExecuteBatchFlush(t, p)
    \/ t.type = "UpdateBallot" /\ ExecuteBallotUpdate(t)
    \/ t.type = "ConfirmReceipt" /\ ExecuteConfirmReceipt(t)
    \/ t.type = "PollClose" /\ ExecutePollClose(t)
    \/ t.type = "ResealVote" /\ ExecuteResealVote(t)
    \/ t.type = "AuthorityRescind" /\ ExecuteAuthorityRescind(t)
    \/ t.type = "AuthorityRestore" /\ ExecuteAuthorityRestore(t)

\* The voters concerned when an update names another voter's ballot.
Crossing(t) ==
    IF t.type = "UpdateBallot" /\ t.voter # Owner[t.old]
    THEN {t.voter, Owner[t.old]} ELSE {}

\* The transaction writes a ballot to an ID that another one has in List 1.
Overwrites(t) ==
    \/ /\ t.type = "BatchFlush"
       /\ \E s \in t.submissions : voteDirections[s.ballot] # None
    \/ /\ t.type = "UpdateBallot" /\ t.choices # <<>>
       /\ t.new # t.old /\ voteDirections[t.new] # None

Remember(t) ==
    /\ crossed' = crossed \cup Crossing(t)
    /\ rewritten' = (rewritten \/ Overwrites(t))
    /\ withdrawals' = IF t.type = "UpdateBallot" /\ t.choices = <<>>
                      THEN withdrawals + 1 ELSE withdrawals

\* Bound on the casts a run considers.
WithinBounds(t) ==
    t.type = "BatchFlush" =>
        poll.idvCastCount + Cardinality(t.submissions) <= MaxCasts

-----------------------------------------------------------------------------
Init ==
    /\ now = 0
    /\ poll = NoPoll
    /\ voteDirections = [b \in Ballots |-> None]
    /\ voterRegistry = {}
    /\ tally = None
    /\ confirms = {} /\ rescissions = {} /\ restores = {}
    /\ submissionCount = 0 /\ checkpoints = 0
    /\ dirty = FALSE /\ result = "ok"
    /\ crossed = {} /\ rewritten = FALSE /\ withdrawals = 0

Tick == now < MaxTime /\ now' = now + 1 /\ UNCHANGED stateVars

\* One transaction per block: validated, then executed on the same state.
Apply(t) ==
    /\ WithinBounds(t)
    /\ ValidateTx(t)
    /\ ExecuteTx(t, Opened)
    /\ Remember(t)
    /\ UNCHANGED now

Next == Tick \/ \E t \in Txs : Apply(t)

Spec == Init /\ [][Next]_vars

\* Time passes, and the operator submits PollClose until it is accepted.
FairSpec ==
    Spec /\ WF_vars(Tick) /\ WF_vars(\E t \in PollCloseTxs : Apply(t))

-----------------------------------------------------------------------------
(* Properties                                                               *)

PollRecords ==
    [status : {"none", "pending", "open", "closed"}, method : Methods,
     start : Nat, end : Nat, authority : BOOLEAN, sealedCount : Nat,
     reattestationCount : Nat, idvCastCount : Nat]

MarksTypeOK ==
    crossed \subseteq Voters /\ rewritten \in BOOLEAN /\ withdrawals \in Nat

\* The maps, counters and flags of State hold values of their Go types.
TypeOK ==
    /\ now \in 0..MaxTime
    /\ poll \in PollRecords
    /\ voteDirections \in [Ballots -> VoteRecords \cup {None}]
    /\ voterRegistry \subseteq Voters
    /\ tally \in Tallies \cup {None}
    /\ confirms \subseteq Voters
    /\ rescissions \subseteq Ballots
    /\ restores \subseteq Granted
    /\ submissionCount \in Nat /\ checkpoints \in Nat
    /\ dirty \in BOOLEAN /\ result \in {"ok", "error"}
    /\ MarksTypeOK

\* The ballots that the device of v has in List 1.
BallotsOf(v) == {b \in L1(voteDirections) : Owner[b] = v}

\* v is registered exactly when it has a ballot, and it never has two.
Linked(v) ==
    /\ v \in voterRegistry <=> BallotsOf(v) # {}
    /\ \A b1, b2 \in BallotsOf(v) : b1 = b2

\* The hidden link between the lists: although the state never relates a
\* ballot to an identity, flushes, direction changes, withdrawals, seals and
\* rescissions keep exactly one ballot per registered voter, also when devices
\* use a nonce again, for every voter without a restore grant.  An update that
\* names another voter's ballot harms these two voters and no one else.
OneBallotPerVoter == \A v \in Voters \ (restores \cup crossed) : Linked(v)

\* Count-match (doc.go): as long as no restore has been granted and no ballot
\* written over another one, List 1 and List 2 have the same size after every
\* executed transaction, whosever ballots the updates named.
CountMatch ==
    restores = {} /\ ~ rewritten =>
        Cardinality(L1(voteDirections)) = Cardinality(voterRegistry)

\* A receipt confirmation never outlives the registration it confirms: a
\* withdrawal or a rescission of the voter removes both.
ConfirmsRegistered == confirms \subseteq voterRegistry

\* The casts of which the state, or the count of withdrawals, has a trace.
Accounted ==
    Cardinality(voterRegistry) + Cardinality(rescissions) + withdrawals

\* The audit counters of the poll account for what happened.  Every cast
\* counted by IDVCastCount is registered, rescinded or withdrawn, unless a
\* restore grant let somebody cast twice; ReattestationCount is the number of
\* confirmations as long as nobody withdrew; and no counter ever reports less
\* than there is.  (What they report beyond it: see the violation runs.)
CountersAccount ==
    /\ poll.idvCastCount >= Accounted
    /\ restores = {} => poll.idvCastCount = Accounted
    /\ poll.reattestationCount >= Cardinality(confirms)
    /\ withdrawals = 0 => poll.reattestationCount = Cardinality(confirms)
    /\ poll.sealedCount >=
          Cardinality(L1(voteDirections) \ Counted(voteDirections))

\* A published tally keeps describing the lists: rescissions after the close
\* take exactly the rescinded ballot out of TotalVotes and of the counts,
\* whatever the voting method.
TallyFaithful ==
    tally # None /\ restores = {} /\ ~ rewritten =>
        /\ tally.total = Cardinality(L1(voteDirections))
        /\ tally.total = Cardinality(voterRegistry)
        /\ tally.counts = TallyCounts(poll.method, voteDirections)

\* Attested and pending submissions never exceed the casts, and as long as no
\* ballot was sealed, rescinded or restored every RollingThreshold-th
\* submission was attested, across batches of any size.
RollingAccounting ==
    AttestationMode = "rolling" =>
        /\ checkpoints * RollingThreshold + submissionCount
              <= poll.idvCastCount
        /\ poll.sealedCount = 0 /\ rescissions = {} /\ restores = {}
           /\ ~ rewritten =>
              /\ submissionCount < RollingThreshold
              /\ poll.idvCastCount =
                    checkpoints * RollingThreshold + submissionCount

\* What a step may do to a closed poll.
ClosedStep ==
    poll.status = "closed" =>
        LET gone == L1(voteDirections) \ L1(voteDirections')
        IN /\ poll'.status = "closed"
           /\ \A b \in L1(voteDirections') :
                 voteDirections'[b] = voteDirections[b]
           /\ gone = rescissions' \ rescissions
           /\ voterRegistry' = voterRegistry \ {Owner[b] : b \in gone}

\* Once a poll is closed only rescissions touch it: it stays closed, no
\* record appears or changes, and whatever leaves the lists leaves with its
\* owner and with a new rescission record.
ClosedOnlyRescinds == [][ClosedStep]_vars

\* A device changes a ballot under the nonce it already has.
Resent(b) == \E t \in ChangeTxs : t.old = b /\ t.new = b /\ Apply(t)

\* What a step may do to a sealed ballot of a voter without a restore grant
\* and not crossed with another one.
SealedStep ==
    \A b \in Ballots :
        /\ voteDirections[b] # None /\ voteDirections'[b] # None
        /\ Owner[b] \notin restores \cup crossed'
        /\ voteDirections[b].sealed
        => voteDirections'[b].sealed \/ Resent(b)

\* A sealed ballot is never counted again while it stays in List 1 (reseal.go:
\* the migration cannot be reversed), unless the voter's own device changes it
\* under the same ID: flushes and changes of other ballots do not land on it.
SealedStaysSealed == [][SealedStep]_vars

\* A poll closes: once no ballot of it is left in the sealed partition for
\* good, whatever was flushed, changed, sealed, withdrawn or rescinded before,
\* the count-match test in executePollClose cannot refuse the close for ever,
\* short of a ballot written over another one.
PollCloses ==
    <>[](/\ poll.status # "none" /\ ~ rewritten
         /\ Counted(voteDirections) = L1(voteDirections))
        => <>(poll.status = "closed")

(* What comments and tests claim and the code does not keep.  Claims about  *)
(* one matter are asked for together: one state, or one behaviour, then     *)
(* fails them all.                                                          *)

\* poll.go: the total participant cardinality is always
\* |L2| = counted-partition L1 count + SealedCount.
SealedInvariant ==
    restores = {} /\ ~ rewritten =>
        Cardinality(voterRegistry) =
            Cardinality(Counted(voteDirections)) + poll.sealedCount

\* poll.go: ReattestationCount can never exceed the current voter count.
ReattestationCapped == poll.reattestationCount <= Cardinality(voterRegistry)

\* poll.go: at any point before rescissions IDVCastCount == |L2|.
CastCountExact ==
    rescissions = {} => poll.idvCastCount = Cardinality(voterRegistry)

\* At least one of what poll.go says of its three audit counters is true.
SomeCounterRight == SealedInvariant \/ ReattestationCapped \/ CastCountExact

\* authority_rescind.go: after a restore the count-match invariant is
\* preserved throughout.  (An update moves both sizes alike or neither.)
CountMatchThroughRestore ==
    ~ rewritten => Cardinality(L1(voteDirections)) = Cardinality(voterRegistry)

\* state_test.go: a voter cannot update another voter's ballot, which is still
\* present in List 1 after the attempt.
RegisteredKeepBallots ==
    \A v \in voterRegistry \ restores : BallotsOf(v) # {}

\* The lists match in size, or every voter without a grant has kept a ballot.
SomeListClaimRight == CountMatchThroughRestore \/ RegisteredKeepBallots

\* reseal.go: a sealed record is excluded from all subsequent tally
\* computations, for as long as it is in List 1 ...
SealedForGood ==
    \A b \in Ballots :
        [](b \in L1(voteDirections) \ Counted(voteDirections) =>
              [](b \notin Counted(voteDirections)) \/ <>(b \notin L1(voteDirections)))

\* ... and from counted-partition count-match aggregations, so that sealing a
\* ballot does not stop a poll from closing.
EveryPollCloses == poll.status # "none" ~> poll.status = "closed"

\* One half or the other of that sentence of reseal.go is true.
SomeSealClaimRight == SealedForGood \/ EveryPollCloses

=============================================================================

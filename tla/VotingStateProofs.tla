------------------------- MODULE VotingStateProofs -------------------------
(***************************************************************************)
(* Theorems about the two-list state machine, for any finite sets of       *)
(* voters and ballots, any options, poll definitions, attestation mode and *)
(* bounds: its types; the hidden link between the two lists (one ballot    *)
(* per registered voter); and what follows for confirmations, sealed       *)
(* ballots and closed polls.                                               *)
(***************************************************************************)
EXTENDS VotingState, FiniteSetTheorems, TLAPS

-----------------------------------------------------------------------------
(* Cardinalities of subsets of the finite constants.                        *)

\* Sets of identities are finite, so their size is a number.
LEMMA VoterSets ==
    ASSUME NEW S \in SUBSET Voters
    PROVE  IsFiniteSet(S) /\ Cardinality(S) \in Nat
  BY FS_Subset, FS_CardinalityType, VotersFinite

\* Sets of ballot IDs are finite, so their size is a number.
LEMMA BallotSets ==
    ASSUME NEW S \in SUBSET Ballots
    PROVE  IsFiniteSet(S) /\ Cardinality(S) \in Nat
  BY FS_Subset, FS_CardinalityType, VotersFinite

-----------------------------------------------------------------------------
(* Type correctness: every handler preserves it, validated or not.          *)

\* NewState on an empty database is well-typed.
LEMMA InitTypeOK == Init => TypeOK
  <1> SUFFICES ASSUME Init PROVE TypeOK
    OBVIOUS
  <1>1. poll \in PollRecords
    BY DEF Init, NoPoll, PollRecords, Methods
  <1>2. now \in 0..MaxTime
    BY BoundAssumption DEF Init
  <1>3. dirty \in BOOLEAN /\ result \in {"ok", "error"}
    BY DEF Init
  <1> QED
    BY <1>1, <1>2, <1>3 DEF Init, TypeOK, MarksTypeOK

\* executePollCreate stores a well-typed poll.
LEMMA TypePollCreate ==
    ASSUME TypeOK, NEW t \in PollCreateTxs, ExecutePollCreate(t), now' = now, MarksTypeOK'
    PROVE  TypeOK'
  <1>1. t.config \in PollDefinitions
    BY ConfigAssumption DEF PollCreateTxs
  <1>2. poll' \in PollRecords
    BY <1>1, BoundAssumption
       DEF ExecutePollCreate, PollRecords, PollDefinitions, Methods
  <1> QED
    BY <1>2 DEF TypeOK, ExecutePollCreate, lists, audit, rolling

\* What a batch flush writes to List 1 are vote records.
LEMMA FlushedVotesType ==
    ASSUME TypeOK, NEW t \in BatchFlushTxs
    PROVE  FlushedVotes(t) \in [Ballots -> VoteRecords \cup {None}]
  <1>1. t.submissions \subseteq Submissions
    BY DEF BatchFlushTxs
  <1>2. ASSUME NEW b \in Ballots, \E s \in t.submissions : s.ballot = b
        PROVE  (CHOOSE s \in t.submissions : s.ballot = b) \in Submissions
    BY <1>1, <1>2
  <1> QED
    BY <1>2 DEF FlushedVotes, TypeOK, Submissions, VoteRecords

\* executeBatchFlush keeps the state well-typed, also where the rolling
\* attestation fails after the lists are written.
LEMMA TypeBatchFlush ==
    ASSUME TypeOK, NEW t \in BatchFlushTxs, NEW p \in PollRecords,
           ExecuteBatchFlush(t, p), now' = now, MarksTypeOK'
    PROVE  TypeOK'
  <1> DEFINE n == Cardinality(t.submissions)
  <1>1. t.submissions \subseteq Submissions /\ n \in Nat
    BY BoundAssumption DEF BatchFlushTxs
  <1>2. voterRegistry' \subseteq Voters
    BY <1>1, OwnerAssumption DEF ExecuteBatchFlush, TypeOK, Submissions
  <1>3. poll' \in PollRecords
    BY <1>1 DEF ExecuteBatchFlush, PollRecords
  <1>4. /\ submissionCount' \in Nat /\ checkpoints' \in Nat
        /\ result' \in {"ok", "error"}
    <2> DEFINE m == submissionCount + n
    <2>1. m \in Nat /\ submissionCount \in Nat /\ checkpoints \in Nat
      BY <1>1 DEF TypeOK
    <2>2. m % RollingThreshold \in Nat /\ m \div RollingThreshold \in Nat
      BY <2>1, BoundAssumption
    <2>3. RollingAttestation(m)
      BY DEF ExecuteBatchFlush
    <2> HIDE DEF m
    <2> QED
      BY <2>1, <2>2, <2>3, BoundAssumption DEF RollingAttestation
  <1>5. voteDirections' \in [Ballots -> VoteRecords \cup {None}]
    BY FlushedVotesType DEF ExecuteBatchFlush
  <1> QED
    BY <1>2, <1>3, <1>4, <1>5 DEF TypeOK, ExecuteBatchFlush, audit

\* executeBallotUpdate keeps the state well-typed, replacing or withdrawing.
LEMMA TypeBallotUpdate ==
    ASSUME TypeOK, NEW t \in UpdateBallotTxs, ExecuteBallotUpdate(t),
           now' = now, MarksTypeOK'
    PROVE  TypeOK'
  <1>1. /\ t.old \in Ballots /\ t.voter \in Voters
        /\ t.choices # <<>> => t.choices \in ChoiceLists /\ t.new \in Ballots
    BY DEF UpdateBallotTxs, ChangeTxs, WithdrawTxs
  <1>2. voteDirections' \in [Ballots -> VoteRecords \cup {None}]
    <2>1. CASE t.choices = <<>>
      BY <1>1, <2>1 DEF ExecuteBallotUpdate, TypeOK
    <2>2. CASE t.choices # <<>>
      <3> DEFINE r == [choices |-> t.choices, sealed |-> FALSE, keyed |-> FALSE]
      <3>1. r \in VoteRecords
        BY <1>1, <2>2 DEF VoteRecords
      <3>2. voteDirections' =
               [voteDirections EXCEPT ![t.old] = None, ![t.new] = r]
        BY <2>2 DEF ExecuteBallotUpdate
      <3> QED
        BY <1>1, <3>1, <3>2 DEF TypeOK
    <2> QED
      BY <2>1, <2>2
  <1>3. voterRegistry' \subseteq Voters /\ confirms' \subseteq Voters
    BY DEF ExecuteBallotUpdate, TypeOK
  <1>4. tally' \in Tallies \cup {None}
    BY <1>3, VoterSets DEF ExecuteBallotUpdate, TypeOK, Tallies
  <1> QED
    BY <1>2, <1>3, <1>4 DEF TypeOK, ExecuteBallotUpdate, rolling

\* executeConfirmReceipt keeps the state well-typed.
LEMMA TypeConfirmReceipt ==
    ASSUME TypeOK, NEW t \in ConfirmReceiptTxs, ExecuteConfirmReceipt(t),
           now' = now, MarksTypeOK'
    PROVE  TypeOK'
  <1>1. confirms' \subseteq Voters
    BY DEF ExecuteConfirmReceipt, TypeOK, ConfirmReceiptTxs
  <1>2. poll' \in PollRecords
    BY DEF ExecuteConfirmReceipt, TypeOK, PollRecords
  <1>3. tally' \in Tallies \cup {None}
    BY <1>1, VoterSets DEF ExecuteConfirmReceipt, TypeOK, Tallies
  <1> QED
    BY <1>1, <1>2, <1>3 DEF TypeOK, ExecuteConfirmReceipt, lists, rolling

\* collectPollLists counts ballots: its counts are numbers.
LEMMA CountsType ==
    ASSUME NEW m, NEW votes
    PROVE  /\ TallyCounts(m, votes) \in [Options -> Int]
           /\ Cardinality(Counted(votes)) \in Nat
  <1>1. Counted(votes) \in SUBSET Ballots
    BY DEF Counted, L1
  <1>2. \A o \in Options :
           Cardinality({b \in Counted(votes) :
                          Contributes(m, votes[b].choices, o)}) \in Int
    BY <1>1, BallotSets
  <1> QED
    BY <1>1, <1>2, BallotSets DEF TallyCounts

\* executePollClose keeps the state well-typed, closing or refusing.
LEMMA TypePollClose ==
    ASSUME TypeOK, NEW t \in PollCloseTxs, ExecutePollClose(t), now' = now, MarksTypeOK'
    PROVE  TypeOK'
  <1>1. Cardinality(confirms) \in Nat
    BY VoterSets DEF TypeOK
  <1>2. tally' \in Tallies \cup {None}
    <2>1. CASE ~ CountsMatch(voteDirections, voterRegistry)
      BY <2>1 DEF ExecutePollClose, TypeOK
    <2>2. CASE CountsMatch(voteDirections, voterRegistry)
      <3>1. PICK d \in BOOLEAN :
               tally' = [counts |-> TallyCounts(poll.method, voteDirections),
                         total |-> Cardinality(Counted(voteDirections)),
                         confirmed |-> Cardinality(confirms),
                         degraded |-> d, rescissionCount |-> 0]
        BY <2>2, Zenon DEF ExecutePollClose
      <3>2. /\ TallyCounts(poll.method, voteDirections) \in [Options -> Int]
            /\ Cardinality(Counted(voteDirections)) \in Int
        BY CountsType
      <3> QED
        BY <1>1, <3>1, <3>2 DEF Tallies
    <2> QED
      BY <2>1, <2>2
  <1>3. poll' \in PollRecords
    BY DEF ExecutePollClose, TypeOK, PollRecords
  <1> QED
    BY <1>2, <1>3 DEF TypeOK, ExecutePollClose, lists, audit, rolling

\* executeResealVote keeps the state well-typed, sealing or refusing.
LEMMA TypeResealVote ==
    ASSUME TypeOK, NEW t \in ResealVoteTxs, ExecuteResealVote(t), now' = now, MarksTypeOK'
    PROVE  TypeOK'
  <1>1. t.ballot \in Ballots
    BY DEF ResealVoteTxs
  <1>2. voteDirections' \in [Ballots -> VoteRecords \cup {None}]
    <2>1. CASE t.ballot \notin Counted(voteDirections)
      BY <2>1 DEF ExecuteResealVote, TypeOK, lists
    <2>2. CASE t.ballot \in Counted(voteDirections)
      <3> DEFINE r == [voteDirections[t.ballot] EXCEPT !.sealed = TRUE]
      <3>1. r \in VoteRecords
        BY <1>1, <2>2 DEF Counted, L1, TypeOK, VoteRecords
      <3>2. voteDirections' = [voteDirections EXCEPT ![t.ballot] = r]
        BY <2>2 DEF ExecuteResealVote
      <3> QED
        BY <1>1, <3>1, <3>2 DEF TypeOK
    <2> QED
      BY <2>1, <2>2
  <1>3. poll' \in PollRecords
    BY DEF ExecuteResealVote, TypeOK, PollRecords
  <1> QED
    BY <1>2, <1>3 DEF TypeOK, ExecuteResealVote, lists, audit, rolling

\* executeAuthorityRescind keeps the state well-typed; its conditions keep
\* ReattestationCount and SealedCount from going below zero.
LEMMA TypeAuthorityRescind ==
    ASSUME TypeOK, NEW t \in AuthorityRescindTxs, ExecuteAuthorityRescind(t),
           now' = now, MarksTypeOK'
    PROVE  TypeOK'
  <1>1. t.ballot \in Ballots
    BY DEF AuthorityRescindTxs
  <1>2. voteDirections' \in [Ballots -> VoteRecords \cup {None}]
    BY <1>1 DEF ExecuteAuthorityRescind, TypeOK
  <1>3. poll' \in PollRecords
    <2>1. /\ ReattestationAfter(Owner[t.ballot]) \in Nat
          /\ SealedAfter(voteDirections[t.ballot]) \in Nat
      BY DEF TypeOK, PollRecords, ReattestationAfter, SealedAfter
    <2> QED
      BY <2>1 DEF ExecuteAuthorityRescind, TypeOK, PollRecords
  <1>4. tally' \in Tallies \cup {None}
    <2> DEFINE c == voteDirections[t.ballot].choices
               k == [o \in Options |->
                       IF GivesBack(poll.method, c, o)
                       THEN tally.counts[o] - 1 ELSE tally.counts[o]]
    <2>1. CASE tally = None
      BY <2>1 DEF ExecuteAuthorityRescind
    <2>2. CASE tally # None
      <3>1. tally \in Tallies
        BY <2>2 DEF TypeOK
      <3>2. k \in [Options -> Int]
        BY <3>1 DEF Tallies
      <3>3. tally' = [tally EXCEPT !.total = @ - 1, !.counts = k,
                        !.rescissionCount = @ + 1, !.degraded = TRUE]
        BY <2>2 DEF ExecuteAuthorityRescind, RescindedTally
      <3> HIDE DEF k
      <3>4. tally' = [counts |-> k, total |-> tally.total - 1,
                      confirmed |-> tally.confirmed, degraded |-> TRUE,
                      rescissionCount |-> tally.rescissionCount + 1]
        BY <3>1, <3>3 DEF Tallies
      <3>5. /\ tally.total - 1 \in Int /\ tally.confirmed \in Nat
            /\ tally.rescissionCount + 1 \in Nat
        BY <3>1 DEF Tallies
      <3> QED
        BY <3>2, <3>4, <3>5 DEF Tallies
    <2> QED
      BY <2>1, <2>2
  <1> QED
    BY <1>1, <1>2, <1>3, <1>4 DEF TypeOK, ExecuteAuthorityRescind, rolling

\* executeAuthorityRestore keeps the state well-typed.
LEMMA TypeAuthorityRestore ==
    ASSUME TypeOK, NEW t \in AuthorityRestoreTxs, ExecuteAuthorityRestore(t),
           now' = now, MarksTypeOK'
    PROVE  TypeOK'
  BY DEF TypeOK, ExecuteAuthorityRestore, AuthorityRestoreTxs, lists, rolling

\* The record that validation leaves is a poll record.
LEMMA OpenedType == TypeOK => Opened \in PollRecords
  BY DEF TypeOK, Opened, PollRecords

\* A transaction and the handler of its type.
LEMMA TxCases ==
    ASSUME NEW t \in Txs, NEW p, ExecuteTx(t, p)
    PROVE  \/ t \in PollCreateTxs /\ ExecutePollCreate(t)
           \/ t \in BatchFlushTxs /\ ExecuteBatchFlush(t, p)
           \/ t \in UpdateBallotTxs /\ ExecuteBallotUpdate(t)
           \/ t \in ConfirmReceiptTxs /\ ExecuteConfirmReceipt(t)
           \/ t \in PollCloseTxs /\ ExecutePollClose(t)
           \/ t \in ResealVoteTxs /\ ExecuteResealVote(t)
           \/ t \in AuthorityRescindTxs /\ ExecuteAuthorityRescind(t)
           \/ t \in AuthorityRestoreTxs /\ ExecuteAuthorityRestore(t)
  <1>1. /\ t \in PollCreateTxs => t.type = "PollCreate"
        /\ t \in BatchFlushTxs => t.type = "BatchFlush"
        /\ t \in UpdateBallotTxs => t.type = "UpdateBallot"
        /\ t \in ConfirmReceiptTxs => t.type = "ConfirmReceipt"
        /\ t \in PollCloseTxs => t.type = "PollClose"
        /\ t \in ResealVoteTxs => t.type = "ResealVote"
        /\ t \in AuthorityRescindTxs => t.type = "AuthorityRescind"
        /\ t \in AuthorityRestoreTxs => t.type = "AuthorityRestore"
    BY DEF PollCreateTxs, BatchFlushTxs, UpdateBallotTxs, ChangeTxs,
           WithdrawTxs, ConfirmReceiptTxs, PollCloseTxs,
           ResealVoteTxs, AuthorityRescindTxs, AuthorityRestoreTxs
  <1> QED
    BY <1>1 DEF Txs, ExecuteTx

\* ExecuteTx keeps the state well-typed for every transaction, validated or
\* not, which is how FinalizeBlock calls it.
LEMMA ExecuteTypeOK ==
    ASSUME TypeOK, NEW t \in Txs, NEW p \in PollRecords, ExecuteTx(t, p),
           now' = now, MarksTypeOK'
    PROVE  TypeOK'
  BY TxCases, TypePollCreate, TypeBatchFlush, TypeBallotUpdate,
     TypeConfirmReceipt, TypePollClose, TypeResealVote, TypeAuthorityRescind,
     TypeAuthorityRestore

\* The owner of a ballot ID is a voter.
LEMMA Owners == \A b \in Ballots : Owner[b] \in Voters
  BY OwnerAssumption

\* The history variables keep their types.
LEMMA RememberTypeOK ==
    ASSUME MarksTypeOK, NEW t \in Txs, Remember(t)
    PROVE  MarksTypeOK'
  <1>1. Crossing(t) \subseteq Voters
    <2>1. CASE t.type = "UpdateBallot"
      <3>1. t \in UpdateBallotTxs
        BY <2>1 DEF Txs, PollCreateTxs, BatchFlushTxs, ConfirmReceiptTxs,
                    PollCloseTxs, ResealVoteTxs, AuthorityRescindTxs,
                    AuthorityRestoreTxs
      <3>2. t.voter \in Voters /\ t.old \in Ballots
        BY <3>1 DEF UpdateBallotTxs, ChangeTxs, WithdrawTxs
      <3> QED
        BY <3>2, Owners DEF Crossing
    <2>2. CASE t.type # "UpdateBallot"
      BY <2>2 DEF Crossing
    <2> QED
      BY <2>1, <2>2
  <1> QED
    BY <1>1 DEF MarksTypeOK, Remember, Overwrites

\* Every step keeps the state well-typed.
LEMMA NextTypeOK == TypeOK /\ [Next]_vars => TypeOK'
  <1> SUFFICES ASSUME TypeOK, [Next]_vars PROVE TypeOK'
    OBVIOUS
  <1>1. CASE Tick
    BY <1>1, BoundAssumption DEF Tick, TypeOK, MarksTypeOK, stateVars, marks
  <1>2. ASSUME NEW t \in Txs, Apply(t) PROVE TypeOK'
    <2>1. MarksTypeOK'
      BY <1>2, RememberTypeOK DEF Apply, TypeOK
    <2> QED
      BY <1>2, <2>1, OpenedType, ExecuteTypeOK DEF Apply
  <1>3. CASE UNCHANGED vars
    BY <1>3 DEF vars, stateVars, marks, TypeOK, MarksTypeOK
  <1> QED
    BY <1>1, <1>2, <1>3 DEF Next

\* Type correctness of domain/state: every map, counter and flag keeps its
\* type through every sequence of transactions, in particular SealedCount and
\* ReattestationCount never become negative.
THEOREM TypeCorrect == Spec => []TypeOK
  BY InitTypeOK, NextTypeOK, PTL DEF Spec

-----------------------------------------------------------------------------
(* Transactions.                                                            *)

\* A validated transaction, its validation and its handler.
LEMMA ApplyCases ==
    ASSUME NEW t \in Txs, Apply(t)
    PROVE  \/ t \in PollCreateTxs /\ ValidatePollCreate(t)
              /\ ExecutePollCreate(t)
           \/ t \in BatchFlushTxs /\ ValidateBatchFlush(t)
              /\ ExecuteBatchFlush(t, Opened)
           \/ t \in UpdateBallotTxs /\ ValidateBallotUpdate(t)
              /\ ExecuteBallotUpdate(t)
           \/ t \in ConfirmReceiptTxs /\ ValidateConfirmReceipt(t)
              /\ ExecuteConfirmReceipt(t)
           \/ t \in PollCloseTxs /\ ValidatePollClose(t) /\ ExecutePollClose(t)
           \/ t \in ResealVoteTxs /\ ValidateResealVote(t)
              /\ ExecuteResealVote(t)
           \/ t \in AuthorityRescindTxs /\ ValidateAuthorityRescind(t)
              /\ ExecuteAuthorityRescind(t)
           \/ t \in AuthorityRestoreTxs /\ ValidateAuthorityRestore(t)
              /\ ExecuteAuthorityRestore(t)
  <1>1. ValidateTx(t) /\ ExecuteTx(t, Opened)
    BY DEF Apply
  <1>2. /\ t \in PollCreateTxs => t.type = "PollCreate"
        /\ t \in BatchFlushTxs => t.type = "BatchFlush"
        /\ t \in UpdateBallotTxs => t.type = "UpdateBallot"
        /\ t \in ConfirmReceiptTxs => t.type = "ConfirmReceipt"
        /\ t \in PollCloseTxs => t.type = "PollClose"
        /\ t \in ResealVoteTxs => t.type = "ResealVote"
        /\ t \in AuthorityRescindTxs => t.type = "AuthorityRescind"
        /\ t \in AuthorityRestoreTxs => t.type = "AuthorityRestore"
    BY DEF PollCreateTxs, BatchFlushTxs, UpdateBallotTxs, ChangeTxs,
           WithdrawTxs, ConfirmReceiptTxs, PollCloseTxs,
           ResealVoteTxs, AuthorityRescindTxs, AuthorityRestoreTxs
  <1> QED
    BY <1>1, <1>2 DEF Txs, ValidateTx, ExecuteTx

-----------------------------------------------------------------------------
(* One ballot per voter.                                                    *)

\* BallotsOf and Linked, for given lists.
Own(votes, v) == {b \in L1(votes) : Owner[b] = v}

LinkedIn(votes, registry, v) ==
    /\ v \in registry <=> Own(votes, v) # {}
    /\ \A b1, b2 \in Own(votes, v) : b1 = b2

\* Empty lists are linked.
LEMMA LinkInit == Init => OneBallotPerVoter
  BY DEF Init, OneBallotPerVoter, Linked, BallotsOf, L1

\* Handlers that leave the keys of both lists alone.
LEMMA LinkSameKeys ==
    ASSUME OneBallotPerVoter, L1(voteDirections') = L1(voteDirections),
           voterRegistry' = voterRegistry, restores \subseteq restores',
           crossed \subseteq crossed'
    PROVE  OneBallotPerVoter'
  BY DEF OneBallotPerVoter, Linked, BallotsOf

\* A validated flush gives each new identity one ballot: its submissions name
\* distinct identities, none of them registered.
LEMMA LinkBatchFlush ==
    ASSUME TypeOK, OneBallotPerVoter, NEW t \in BatchFlushTxs, NEW p,
           ValidateBatchFlush(t), ExecuteBatchFlush(t, p),
           crossed \subseteq crossed'
    PROVE  OneBallotPerVoter'
  <1>1. \A s \in t.submissions :
           s \in Submissions /\ s.ballot \in Ballots /\ s.choices \in ChoiceLists
    BY DEF BatchFlushTxs, Submissions
  <1>2. \A b \in Ballots :
           b \in L1(voteDirections') <=>
              b \in L1(voteDirections) \/ \E s \in t.submissions : s.ballot = b
    <2> SUFFICES ASSUME NEW b \in Ballots
                 PROVE  voteDirections'[b] # None <=>
                           \/ voteDirections[b] # None
                           \/ \E s \in t.submissions : s.ballot = b
      BY DEF L1
    <2>1. CASE \E s \in t.submissions : s.ballot = b
      <3>1. PICK s \in t.submissions :
               voteDirections'[b] =
                  [choices |-> s.choices, sealed |-> FALSE, keyed |-> TRUE]
        BY <2>1 DEF ExecuteBatchFlush, FlushedVotes
      <3>2. voteDirections'[b] \in VoteRecords
        BY <3>1, <1>1 DEF VoteRecords
      <3> QED
        BY <2>1, <3>2, NoneAssumption
    <2>2. CASE ~ \E s \in t.submissions : s.ballot = b
      BY <2>2 DEF ExecuteBatchFlush, FlushedVotes
    <2> QED
      BY <2>1, <2>2
  <1>3. /\ voterRegistry' = voterRegistry \cup
                               {Owner[s.ballot] : s \in t.submissions}
        /\ restores' = restores
    BY DEF ExecuteBatchFlush, audit
  <1>4. /\ \A s \in t.submissions :
              Owner[s.ballot] \in voterRegistry => Owner[s.ballot] \in restores
        /\ \A s1, s2 \in t.submissions :
              Owner[s1.ballot] = Owner[s2.ballot] => s1 = s2
    BY DEF ValidateBatchFlush, ValidateBallotCast, HasRestoreGrant
  <1> SUFFICES ASSUME NEW v \in Voters \ (restores \cup crossed)
               PROVE  Linked(v)'
    BY <1>3 DEF OneBallotPerVoter
  <1>5. Linked(v)
    BY DEF OneBallotPerVoter
  <1>6. CASE \E s \in t.submissions : Owner[s.ballot] = v
    <2>1. PICK s \in t.submissions : Owner[s.ballot] = v
      BY <1>6
    <2>2. \A b \in L1(voteDirections) : Owner[b] # v
      BY <2>1, <1>4, <1>5 DEF Linked, BallotsOf
    <2>3. \A b \in L1(voteDirections') : Owner[b] = v => b = s.ballot
      BY <2>1, <2>2, <1>2, <1>4 DEF L1
    <2>4. s.ballot \in L1(voteDirections') /\ v \in voterRegistry'
      BY <2>1, <1>1, <1>2, <1>3
    <2> QED
      BY <2>1, <2>3, <2>4 DEF Linked, BallotsOf
  <1>7. CASE ~ \E s \in t.submissions : Owner[s.ballot] = v
    <2>1. v \in voterRegistry' <=> v \in voterRegistry
      BY <1>3, <1>7
    <2>2. \A b \in Ballots : Owner[b] = v =>
             (b \in L1(voteDirections') <=> b \in L1(voteDirections))
      BY <1>2, <1>7
    <2>3. L1(voteDirections) \subseteq Ballots /\ L1(voteDirections') \subseteq Ballots
      BY DEF L1
    <2> QED
      BY <2>1, <2>2, <2>3, <1>5 DEF Linked, BallotsOf
  <1> QED
    BY <1>6, <1>7

\* A direction change moves a ballot to another key of its owner or leaves it
\* where it is, a withdrawal removes ballot and registration together, unless
\* the update crosses two voters.
LEMMA LinkBallotUpdate ==
    ASSUME TypeOK, OneBallotPerVoter, NEW t \in UpdateBallotTxs,
           ValidateBallotUpdate(t), ExecuteBallotUpdate(t), Remember(t)
    PROVE  OneBallotPerVoter'
  <1>1. /\ t.type = "UpdateBallot" /\ t.old \in Ballots /\ t.voter \in Voters
        /\ t.choices # <<>> => /\ t.choices \in ChoiceLists /\ t.new \in Ballots
                               /\ Owner[t.new] = t.voter
    BY DEF UpdateBallotTxs, ChangeTxs, WithdrawTxs
  <1>2. t.old \in L1(voteDirections) /\ restores' = restores
    BY <1>1 DEF ValidateBallotUpdate, ExecuteBallotUpdate, L1
  <1> SUFFICES ASSUME NEW v \in Voters, v \notin restores, v \notin crossed'
               PROVE  Linked(v)'
    BY <1>2 DEF OneBallotPerVoter
  <1>3. Linked(v)
    BY DEF OneBallotPerVoter, Remember
  <1>6. t.voter = Owner[t.old] \/ (v # t.voter /\ v # Owner[t.old])
    BY <1>1 DEF Remember, Crossing
  <1>4. CASE t.choices = <<>>
    <2>1. L1(voteDirections') = L1(voteDirections) \ {t.old}
      BY <1>1, <1>4 DEF ExecuteBallotUpdate, TypeOK, L1
    <2>2. voterRegistry' = voterRegistry \ {t.voter}
      BY <1>4 DEF ExecuteBallotUpdate
    <2> QED
      BY <1>2, <1>3, <1>6, <2>1, <2>2 DEF Linked, BallotsOf
  <1>5. CASE t.choices # <<>>
    <2> DEFINE r == [choices |-> t.choices, sealed |-> FALSE, keyed |-> FALSE]
    <2>0. r \in VoteRecords
      BY <1>1, <1>5 DEF VoteRecords
    <2>1. r # None
      BY <2>0, NoneAssumption
    <2>2. voteDirections' = [voteDirections EXCEPT ![t.old] = None, ![t.new] = r]
      BY <1>5 DEF ExecuteBallotUpdate
    <2>3. L1(voteDirections') = (L1(voteDirections) \ {t.old}) \cup {t.new}
      BY <1>1, <1>5, <2>1, <2>2 DEF TypeOK, L1
    <2>4. voterRegistry' = voterRegistry
      BY <1>5 DEF ExecuteBallotUpdate
    <2> QED
      BY <1>1, <1>2, <1>3, <1>5, <1>6, <2>3, <2>4 DEF Linked, BallotsOf
  <1> QED
    BY <1>4, <1>5

\* Sealing a ballot leaves the keys of both lists alone.
LEMMA LinkResealVote ==
    ASSUME TypeOK, OneBallotPerVoter, NEW t \in ResealVoteTxs,
           ExecuteResealVote(t), crossed \subseteq crossed'
    PROVE  OneBallotPerVoter'
  <1>1. CASE t.ballot \notin Counted(voteDirections)
    BY <1>1, LinkSameKeys DEF ExecuteResealVote, lists, audit
  <1>2. CASE t.ballot \in Counted(voteDirections)
    <2> DEFINE r == [voteDirections[t.ballot] EXCEPT !.sealed = TRUE]
    <2>1. r \in VoteRecords /\ voteDirections[t.ballot] # None
      BY <1>2 DEF Counted, L1, TypeOK, VoteRecords
    <2>2. voteDirections' = [voteDirections EXCEPT ![t.ballot] = r]
      BY <1>2 DEF ExecuteResealVote
    <2>3. L1(voteDirections') = L1(voteDirections)
      BY <2>1, <2>2, NoneAssumption DEF L1, TypeOK
    <2> QED
      BY <1>2, <2>3, LinkSameKeys DEF ExecuteResealVote, audit
  <1> QED
    BY <1>1, <1>2

\* A rescission removes ballot and registration together.
LEMMA LinkAuthorityRescind ==
    ASSUME TypeOK, OneBallotPerVoter, NEW t \in AuthorityRescindTxs,
           ValidateAuthorityRescind(t), ExecuteAuthorityRescind(t),
           crossed \subseteq crossed'
    PROVE  OneBallotPerVoter'
  <1>1. t.ballot \in L1(voteDirections)
    BY DEF ValidateAuthorityRescind, AuthorityRescindTxs, L1
  <1>2. /\ L1(voteDirections') = L1(voteDirections) \ {t.ballot}
        /\ voterRegistry' = voterRegistry \ {Owner[t.ballot]}
        /\ restores' = restores
    BY DEF ExecuteAuthorityRescind, TypeOK, L1
  <1> QED
    BY <1>1, <1>2 DEF OneBallotPerVoter, Linked, BallotsOf

\* Every step keeps exactly one ballot per registered voter without a grant
\* who is not crossed with another one.
LEMMA LinkNext == TypeOK /\ OneBallotPerVoter /\ [Next]_vars => OneBallotPerVoter'
  <1> SUFFICES ASSUME TypeOK, OneBallotPerVoter, [Next]_vars
               PROVE  OneBallotPerVoter'
    OBVIOUS
  <1>1. CASE Tick \/ UNCHANGED vars
    BY <1>1, LinkSameKeys DEF Tick, vars, stateVars, marks
  <1>2. ASSUME NEW t \in Txs, Apply(t) PROVE OneBallotPerVoter'
    <2>0. Remember(t) /\ crossed \subseteq crossed'
      BY <1>2 DEF Apply, Remember
    <2>1. CASE t \in PollCreateTxs /\ ExecutePollCreate(t)
      BY <2>0, <2>1, LinkSameKeys DEF ExecutePollCreate, lists, audit
    <2>2. CASE t \in ConfirmReceiptTxs /\ ExecuteConfirmReceipt(t)
      BY <2>0, <2>2, LinkSameKeys DEF ExecuteConfirmReceipt, lists
    <2>3. CASE t \in PollCloseTxs /\ ExecutePollClose(t)
      BY <2>0, <2>3, LinkSameKeys DEF ExecutePollClose, lists, audit
    <2>4. CASE t \in AuthorityRestoreTxs /\ ExecuteAuthorityRestore(t)
      BY <2>0, <2>4, LinkSameKeys DEF ExecuteAuthorityRestore, lists
    <2> QED
      BY <1>2, <2>0, <2>1, <2>2, <2>3, <2>4, ApplyCases, LinkBatchFlush,
         LinkBallotUpdate, LinkResealVote, LinkAuthorityRescind
  <1> QED
    BY <1>1, <1>2 DEF Next

\* Flushes, direction changes, withdrawals, seals and rescissions never leave
\* a registered voter without a ballot, a ballot without a registered voter,
\* or a voter with two ballots, however many voters and ballots there are and
\* whatever nonces their devices use again.  Updates may name any ballot: one
\* that names another voter's harms these two voters only.
THEOREM OneBallot == Spec => []OneBallotPerVoter
  BY TypeCorrect, LinkInit, LinkNext, PTL DEF Spec

-----------------------------------------------------------------------------
(* Confirmations follow registrations.                                      *)

\* Every step removes a confirmation whenever it removes a registration.
LEMMA ConfirmsNext ==
    TypeOK /\ ConfirmsRegistered /\ [Next]_vars => ConfirmsRegistered'
  <1> SUFFICES ASSUME TypeOK, ConfirmsRegistered, [Next]_vars
               PROVE  ConfirmsRegistered'
    OBVIOUS
  <1>1. CASE Tick \/ UNCHANGED vars
    BY <1>1 DEF Tick, vars, stateVars, ConfirmsRegistered
  <1>2. ASSUME NEW t \in Txs, Apply(t) PROVE ConfirmsRegistered'
    <2>1. CASE t \in PollCreateTxs /\ ExecutePollCreate(t)
      BY <2>1 DEF ExecutePollCreate, lists, audit, ConfirmsRegistered
    <2>2. CASE t \in BatchFlushTxs /\ ExecuteBatchFlush(t, Opened)
      BY <2>2 DEF ExecuteBatchFlush, audit, ConfirmsRegistered
    <2>3. CASE t \in UpdateBallotTxs /\ ExecuteBallotUpdate(t)
      BY <2>3 DEF ExecuteBallotUpdate, ConfirmsRegistered
    <2>4. CASE t \in ConfirmReceiptTxs /\ ValidateConfirmReceipt(t)
               /\ ExecuteConfirmReceipt(t)
      BY <2>4 DEF ValidateConfirmReceipt, ExecuteConfirmReceipt, lists,
                  ConfirmsRegistered
    <2>5. CASE t \in PollCloseTxs /\ ExecutePollClose(t)
      BY <2>5 DEF ExecutePollClose, lists, audit, ConfirmsRegistered
    <2>6. CASE t \in ResealVoteTxs /\ ExecuteResealVote(t)
      BY <2>6 DEF ExecuteResealVote, lists, audit, ConfirmsRegistered
    <2>7. CASE t \in AuthorityRescindTxs /\ ExecuteAuthorityRescind(t)
      BY <2>7 DEF ExecuteAuthorityRescind, ConfirmsRegistered
    <2>8. CASE t \in AuthorityRestoreTxs /\ ExecuteAuthorityRestore(t)
      BY <2>8 DEF ExecuteAuthorityRestore, lists, ConfirmsRegistered
    <2> QED
      BY <1>2, <2>1, <2>2, <2>3, <2>4, <2>5, <2>6, <2>7, <2>8, ApplyCases
  <1> QED
    BY <1>1, <1>2 DEF Next

\* No receipt confirmation outlives the registration it confirms, with or
\* without restore grants.
THEOREM ConfirmsFollow == Spec => []ConfirmsRegistered
  <1>1. Init => ConfirmsRegistered
    BY DEF Init, ConfirmsRegistered
  <1> QED
    BY <1>1, TypeCorrect, ConfirmsNext, PTL DEF Spec

-----------------------------------------------------------------------------
(* Sealed ballots stay sealed.                                              *)

\* A validated flush never lands on the key of a sealed ballot: its owner is
\* registered.
LEMMA SealedBatchFlush ==
    ASSUME TypeOK, OneBallotPerVoter, NEW t \in BatchFlushTxs, NEW p,
           ValidateBatchFlush(t), ExecuteBatchFlush(t, p),
           crossed \subseteq crossed'
    PROVE  SealedStep
  <1> SUFFICES ASSUME NEW b \in Ballots, voteDirections[b] # None,
                      Owner[b] \notin restores, Owner[b] \notin crossed
               PROVE  voteDirections'[b] = voteDirections[b]
    BY DEF SealedStep
  <1>1. Owner[b] \in voterRegistry
    BY OwnerAssumption DEF OneBallotPerVoter, Linked, BallotsOf, L1
  <1>2. \A s \in t.submissions : s.ballot # b
    BY <1>1 DEF ValidateBatchFlush, ValidateBallotCast, HasRestoreGrant
  <1> QED
    BY <1>2 DEF ExecuteBatchFlush, FlushedVotes

\* A direction change removes the sealed ballot and writes another key, or it
\* is sent for the ballot itself: the owner has no second one to land on.
LEMMA SealedBallotUpdate ==
    ASSUME TypeOK, OneBallotPerVoter, NEW t \in UpdateBallotTxs, Apply(t),
           ValidateBallotUpdate(t), ExecuteBallotUpdate(t)
    PROVE  SealedStep
  <1> SUFFICES ASSUME NEW b \in Ballots, voteDirections[b] # None,
                      voteDirections'[b] # None, Owner[b] \notin restores,
                      Owner[b] \notin crossed'
               PROVE  voteDirections'[b] = voteDirections[b] \/ Resent(b)
    BY DEF SealedStep
  <1>1. /\ t.type = "UpdateBallot" /\ t.old \in Ballots
        /\ t.choices # <<>> => /\ t \in ChangeTxs /\ t.new \in Ballots
                               /\ Owner[t.new] = t.voter
        /\ voteDirections[t.old] # None
    BY DEF UpdateBallotTxs, ChangeTxs, WithdrawTxs, ValidateBallotUpdate
  <1>2. CASE t.choices = <<>>
    BY <1>1, <1>2 DEF ExecuteBallotUpdate, TypeOK
  <1>3. CASE t.choices # <<>> /\ b # t.new
    BY <1>1, <1>3 DEF ExecuteBallotUpdate, TypeOK
  <1>4. CASE t.choices # <<>> /\ b = t.new
    <2>1. Owner[b] \in Voters \ (restores \cup crossed) /\ Owner[t.old] = Owner[b]
      BY <1>1, <1>4, Owners DEF Apply, Remember, Crossing
    <2>2. {b, t.old} \subseteq BallotsOf(Owner[b])
      BY <1>1, <2>1 DEF BallotsOf, L1
    <2>3. t.old = b
      BY <2>1, <2>2 DEF OneBallotPerVoter, Linked
    <2> QED
      BY <1>1, <1>4, <2>3 DEF Resent
  <1> QED
    BY <1>2, <1>3, <1>4

\* Sealing one ballot unseals no other.
LEMMA SealedResealVote ==
    ASSUME TypeOK, NEW t \in ResealVoteTxs, ExecuteResealVote(t)
    PROVE  SealedStep
  <1> SUFFICES ASSUME NEW b \in Ballots, voteDirections[b] # None,
                      voteDirections[b].sealed
               PROVE  voteDirections'[b].sealed
    BY DEF SealedStep
  <1>1. b # t.ballot \/ voteDirections'[b] = voteDirections[b]
    BY DEF ExecuteResealVote, Counted, lists
  <1>2. voteDirections'[b] = voteDirections[b]
    BY <1>1 DEF ExecuteResealVote, TypeOK, lists
  <1> QED
    BY <1>2

\* No step returns a sealed ballot to the counted partition.
LEMMA SealedNext ==
    TypeOK /\ OneBallotPerVoter /\ [Next]_vars => [SealedStep]_vars
  <1> SUFFICES ASSUME TypeOK, OneBallotPerVoter, Next
               PROVE  SealedStep
    OBVIOUS
  <1>0. ASSUME voteDirections' = voteDirections PROVE SealedStep
    BY <1>0 DEF SealedStep
  <1>1. CASE Tick
    BY <1>0, <1>1 DEF Tick, stateVars
  <1>2. ASSUME NEW t \in Txs, Apply(t) PROVE SealedStep
    <2>0. crossed \subseteq crossed'
      BY <1>2 DEF Apply, Remember
    <2>1. CASE t \in PollCreateTxs /\ ExecutePollCreate(t)
      BY <1>0, <2>1 DEF ExecutePollCreate, lists
    <2>2. CASE t \in ConfirmReceiptTxs /\ ExecuteConfirmReceipt(t)
      BY <1>0, <2>2 DEF ExecuteConfirmReceipt, lists
    <2>3. CASE t \in PollCloseTxs /\ ExecutePollClose(t)
      BY <1>0, <2>3 DEF ExecutePollClose, lists
    <2>4. CASE t \in AuthorityRestoreTxs /\ ExecuteAuthorityRestore(t)
      BY <1>0, <2>4 DEF ExecuteAuthorityRestore, lists
    <2>5. CASE t \in AuthorityRescindTxs /\ ExecuteAuthorityRescind(t)
      BY <2>5 DEF ExecuteAuthorityRescind, SealedStep, TypeOK
    <2> QED
      BY <1>2, <2>0, <2>1, <2>2, <2>3, <2>4, <2>5, ApplyCases, SealedBatchFlush,
         SealedBallotUpdate, SealedResealVote
  <1> QED
    BY <1>1, <1>2 DEF Next

\* No transaction moves a sealed ballot of a voter without a restore grant and
\* not crossed with another one back to the counted partition, but a change
\* that its own device sends under the nonce it already has: no flush and no
\* other change lands on its key.
THEOREM SealsHold == Spec => SealedStaysSealed
  BY TypeCorrect, OneBallot, SealedNext, PTL DEF Spec, SealedStaysSealed

-----------------------------------------------------------------------------
(* Closed polls.                                                            *)

\* What each step does to a closed poll: only rescissions pass validation and
\* touch the lists.
LEMMA ClosedNext == TypeOK /\ [Next]_vars => [ClosedStep]_vars
  <1> SUFFICES ASSUME TypeOK, Next, poll.status = "closed"
               PROVE  ClosedStep
    BY DEF ClosedStep
  <1>0. ASSUME poll'.status = "closed", voteDirections' = voteDirections,
               voterRegistry' = voterRegistry, rescissions' = rescissions
        PROVE  ClosedStep
    BY <1>0 DEF ClosedStep
  <1>1. CASE Tick
    BY <1>0, <1>1 DEF Tick, stateVars
  <1>2. ASSUME NEW t \in Txs, Apply(t) PROVE ClosedStep
    <2>1. CASE t \in PollCreateTxs /\ ValidatePollCreate(t)
      BY <2>1 DEF ValidatePollCreate
    <2>2. CASE t \in BatchFlushTxs /\ ValidateBatchFlush(t)
      BY <2>2 DEF ValidateBatchFlush
    <2>3. CASE t \in UpdateBallotTxs /\ ValidateBallotUpdate(t)
      BY <2>3 DEF ValidateBallotUpdate, Votable
    <2>4. CASE t \in ConfirmReceiptTxs /\ ExecuteConfirmReceipt(t)
      <3>1. poll'.status = poll.status
        BY <2>4 DEF ExecuteConfirmReceipt, TypeOK, PollRecords
      <3> QED
        BY <1>0, <2>4, <3>1 DEF ExecuteConfirmReceipt, lists
    <2>5. CASE t \in PollCloseTxs /\ ValidatePollClose(t)
      BY <2>5 DEF ValidatePollClose
    <2>6. CASE t \in ResealVoteTxs /\ ValidateResealVote(t)
      BY <2>6 DEF ValidateResealVote
    <2>7. CASE t \in AuthorityRescindTxs /\ ValidateAuthorityRescind(t)
               /\ ExecuteAuthorityRescind(t)
      <3>1. t.ballot \in L1(voteDirections) /\ t.ballot \notin rescissions
        BY <2>7 DEF ValidateAuthorityRescind, AuthorityRescindTxs, L1
      <3>2. poll'.status = poll.status
        BY <2>7 DEF ExecuteAuthorityRescind, TypeOK, PollRecords
      <3>3. /\ L1(voteDirections') = L1(voteDirections) \ {t.ballot}
            /\ \A b \in L1(voteDirections') :
                  voteDirections'[b] = voteDirections[b]
        BY <2>7 DEF ExecuteAuthorityRescind, TypeOK, L1
      <3>4. /\ rescissions' = rescissions \cup {t.ballot}
            /\ voterRegistry' = voterRegistry \ {Owner[t.ballot]}
        BY <2>7 DEF ExecuteAuthorityRescind
      <3>5. /\ L1(voteDirections) \ L1(voteDirections') = {t.ballot}
            /\ rescissions' \ rescissions = {t.ballot}
        BY <3>1, <3>3, <3>4
      <3>6. {Owner[b] : b \in {t.ballot}} = {Owner[t.ballot]}
        OBVIOUS
      <3> QED
        BY <3>2, <3>3, <3>4, <3>5, <3>6 DEF ClosedStep
    <2>8. CASE t \in AuthorityRestoreTxs /\ ExecuteAuthorityRestore(t)
      BY <1>0, <2>8 DEF ExecuteAuthorityRestore, lists
    <2> QED
      BY <1>2, <2>1, <2>2, <2>3, <2>4, <2>5, <2>6, <2>7, <2>8, ApplyCases
  <1> QED
    BY <1>1, <1>2 DEF Next

\* A closed poll stays closed and only rescissions change its lists, always
\* both of them and always with an audit record.
THEOREM ClosedPolls == Spec => ClosedOnlyRescinds
  BY TypeCorrect, ClosedNext, PTL DEF Spec, ClosedOnlyRescinds

=============================================================================

------------------------- MODULE VotingCountProofs -------------------------
(***************************************************************************)
(* The sizes of the two lists, the audit counters, the rolling             *)
(* attestations and the published tally of the two-list state machine, and *)
(* its refinement of the ballot box, for every value of the constants.     *)
(***************************************************************************)
EXTENDS VotingStateProofs, VotingBallotBox

-----------------------------------------------------------------------------
(* What the handlers do, once for all the invariants below.                 *)

\* A validated batch has one submission per ballot ID, so it is finite, and
\* writes a fresh record under the ID of each submission.
LEMMA FlushFacts ==
    ASSUME TypeOK, NEW t \in BatchFlushTxs, ValidateBatchFlush(t),
           ExecuteBatchFlush(t, Opened)
    PROVE  /\ IsFiniteSet(t.submissions) /\ Cardinality(t.submissions) \in Nat
           /\ \A s \in t.submissions :
                 s.ballot \in Ballots /\ s.choices \in ChoiceLists
           /\ poll.status \notin {"none", "closed"}
           /\ poll'.status \notin {"none", "closed"}
           /\ poll'.idvCastCount = poll.idvCastCount + Cardinality(t.submissions)
           /\ poll'.method = poll.method /\ poll'.sealedCount = poll.sealedCount
           /\ poll'.reattestationCount = poll.reattestationCount
           /\ \A b \in Ballots :
                 \/ /\ \A s \in t.submissions : s.ballot # b
                    /\ voteDirections'[b] = voteDirections[b]
                 \/ \E s \in t.submissions :
                      /\ s.ballot = b
                      /\ voteDirections'[b] = [choices |-> s.choices,
                                               sealed |-> FALSE, keyed |-> TRUE]
           /\ UNCHANGED <<tally, confirms, rescissions, restores>>
  <1>1. \A s \in t.submissions : s.ballot \in Ballots /\ s.choices \in ChoiceLists
    BY DEF BatchFlushTxs, Submissions
  <1>2. IsFiniteSet(t.submissions) /\ Cardinality(t.submissions) \in Nat
    <2> DEFINE f == [s \in t.submissions |-> s.ballot]
    <2>1. f \in [t.submissions -> Ballots]
      BY <1>1
    <2>2. \A a, b \in t.submissions : f[a] = f[b] => a = b
      BY DEF ValidateBatchFlush
    <2> HIDE DEF f
    <2>3. f \in Injection(t.submissions, Ballots)
      BY <2>1, <2>2 DEF Injection, IsInjective
    <2> QED
      BY <2>3, VotersFinite, FS_Injection, FS_CardinalityType
  <1>3. /\ poll.status \notin {"none", "closed"} /\ poll \in PollRecords
        /\ Opened \in PollRecords /\ Opened.status \notin {"none", "closed"}
        /\ Opened.idvCastCount = poll.idvCastCount /\ Opened.method = poll.method
        /\ Opened.sealedCount = poll.sealedCount
        /\ Opened.reattestationCount = poll.reattestationCount
    BY OpenedType DEF ValidateBatchFlush, Opened, TypeOK, PollRecords
  <1>4. poll' = [Opened EXCEPT !.idvCastCount = @ + Cardinality(t.submissions)]
    BY <1>3 DEF ExecuteBatchFlush
  <1>5. /\ poll'.status = Opened.status /\ poll'.method = Opened.method
        /\ poll'.sealedCount = Opened.sealedCount
        /\ poll'.reattestationCount = Opened.reattestationCount
        /\ poll'.idvCastCount = Opened.idvCastCount + Cardinality(t.submissions)
    BY <1>3, <1>4 DEF PollRecords
  <1>6. ASSUME NEW b \in Ballots
        PROVE  \/ /\ \A s \in t.submissions : s.ballot # b
                  /\ voteDirections'[b] = voteDirections[b]
               \/ \E s \in t.submissions :
                    /\ s.ballot = b
                    /\ voteDirections'[b] = [choices |-> s.choices,
                                             sealed |-> FALSE, keyed |-> TRUE]
    <2>1. CASE \E s \in t.submissions : s.ballot = b
      <3> DEFINE s == CHOOSE s \in t.submissions : s.ballot = b
      <3>1. s \in t.submissions /\ s.ballot = b
        BY <2>1
      <3>2. voteDirections'[b] = [choices |-> s.choices, sealed |-> FALSE,
                                  keyed |-> TRUE]
        BY <2>1 DEF ExecuteBatchFlush, FlushedVotes
      <3> QED
        BY <3>1, <3>2
    <2>2. CASE ~ \E s \in t.submissions : s.ballot = b
      BY <2>2 DEF ExecuteBatchFlush, FlushedVotes
    <2> QED
      BY <2>1, <2>2
  <1> QED
    BY <1>1, <1>2, <1>3, <1>5, <1>6 DEF ExecuteBatchFlush, audit

\* A record written by a flush or a direction change is not None.
LEMMA RecordsExist ==
    ASSUME NEW c \in ChoiceLists, NEW k \in BOOLEAN, NEW d \in BOOLEAN
    PROVE  [choices |-> c, sealed |-> d, keyed |-> k] # None
  <1>1. [choices |-> c, sealed |-> d, keyed |-> k] \in VoteRecords
    BY DEF VoteRecords
  <1> QED
    BY <1>1, NoneAssumption

\* The lists after a validated direction change or withdrawal.
LEMMA UpdateFacts ==
    ASSUME TypeOK, NEW t \in UpdateBallotTxs, ValidateBallotUpdate(t),
           ExecuteBallotUpdate(t)
    PROVE  /\ t.type = "UpdateBallot"
           /\ t.old \in L1(voteDirections) /\ t.voter \in voterRegistry
           /\ poll.status \notin {"none", "closed"} /\ poll' = poll
           /\ UNCHANGED <<rescissions, restores, submissionCount, checkpoints>>
           /\ \/ /\ t.choices = <<>>
                 /\ voteDirections' = [voteDirections EXCEPT ![t.old] = None]
                 /\ L1(voteDirections') = L1(voteDirections) \ {t.old}
                 /\ voterRegistry' = voterRegistry \ {t.voter}
                 /\ confirms' = confirms \ {t.voter}
                 /\ tally = None => tally' = None
              \/ /\ t.choices # <<>> /\ t.choices \in ChoiceLists
                 /\ t.new \in Ballots
                 /\ Owner[t.new] = t.voter /\ ValidChoices(t.choices)
                 /\ t.new # t.old => voteDirections'[t.old] = None
                 /\ voteDirections'[t.new] = [choices |-> t.choices,
                                              sealed |-> FALSE, keyed |-> FALSE]
                 /\ voteDirections'[t.new] # None
                 /\ \A b \in Ballots \ {t.old, t.new} :
                       voteDirections'[b] = voteDirections[b]
                 /\ L1(voteDirections') = (L1(voteDirections) \ {t.old}) \cup {t.new}
                 /\ UNCHANGED <<voterRegistry, confirms, tally>>
  <1>1. /\ t.type = "UpdateBallot" /\ t.old \in Ballots /\ t.voter \in Voters
        /\ t.choices # <<>> => /\ t.choices \in ChoiceLists /\ t.new \in Ballots
                               /\ Owner[t.new] = t.voter
    BY DEF UpdateBallotTxs, ChangeTxs, WithdrawTxs
  <1>2. /\ t.old \in L1(voteDirections) /\ t.voter \in voterRegistry
        /\ poll.status \notin {"none", "closed"}
        /\ t.choices # <<>> => ValidChoices(t.choices)
    BY <1>1 DEF ValidateBallotUpdate, Votable, L1
  <1>3. poll' = poll /\ UNCHANGED <<rescissions, restores, submissionCount, checkpoints>>
    BY DEF ExecuteBallotUpdate, rolling
  <1>4. CASE t.choices = <<>>
    <2>1. voteDirections' = [voteDirections EXCEPT ![t.old] = None]
      BY <1>4 DEF ExecuteBallotUpdate
    <2>2. L1(voteDirections') = L1(voteDirections) \ {t.old}
      BY <1>1, <2>1 DEF TypeOK, L1
    <2> QED
      BY <1>1, <1>2, <1>3, <1>4, <2>1, <2>2 DEF ExecuteBallotUpdate
  <1>5. CASE t.choices # <<>>
    <2> DEFINE w == [choices |-> t.choices, sealed |-> FALSE, keyed |-> FALSE]
    <2>1. /\ voteDirections' = [voteDirections EXCEPT ![t.old] = None, ![t.new] = w]
          /\ UNCHANGED <<voterRegistry, confirms, tally>>
      BY <1>5 DEF ExecuteBallotUpdate
    <2>2. w # None
      BY <1>1, <1>5, RecordsExist
    <2> HIDE DEF w
    <2>3. /\ t.new # t.old => voteDirections'[t.old] = None
          /\ voteDirections'[t.new] = w
          /\ \A b \in Ballots \ {t.old, t.new} :
                voteDirections'[b] = voteDirections[b]
      BY <1>1, <1>5, <2>1 DEF TypeOK
    <2>4. L1(voteDirections') = (L1(voteDirections) \ {t.old}) \cup {t.new}
      BY <1>1, <1>5, <2>2, <2>3 DEF L1
    <2> QED
      BY <1>1, <1>2, <1>3, <1>5, <2>1, <2>2, <2>3, <2>4 DEF w
  <1> QED
    BY <1>4, <1>5

\* What sealing a ballot changes.
LEMMA ResealFacts ==
    ASSUME TypeOK, NEW t \in ResealVoteTxs, ValidateResealVote(t),
           ExecuteResealVote(t)
    PROVE  /\ t.ballot \in Counted(voteDirections)
           /\ poll.status \notin {"none", "closed"}
           /\ \A b \in Ballots \ {t.ballot} : voteDirections'[b] = voteDirections[b]
           /\ voteDirections'[t.ballot] = [voteDirections[t.ballot] EXCEPT !.sealed = TRUE]
           /\ voteDirections'[t.ballot] \in VoteRecords
           /\ voteDirections'[t.ballot].choices = voteDirections[t.ballot].choices
           /\ voteDirections'[t.ballot].sealed
           /\ L1(voteDirections') = L1(voteDirections)
           /\ Counted(voteDirections') = Counted(voteDirections) \ {t.ballot}
           /\ poll' = [poll EXCEPT !.sealedCount = @ + 1]
           /\ UNCHANGED <<voterRegistry, tally, confirms, rescissions, restores,
                          submissionCount, checkpoints>>
  <1>1. t.ballot \in Ballots /\ t.ballot \in Counted(voteDirections)
        /\ poll.status \notin {"none", "closed"}
    BY DEF ResealVoteTxs, ValidateResealVote, Counted, L1
  <1> DEFINE r == [voteDirections[t.ballot] EXCEPT !.sealed = TRUE]
  <1>2. /\ r \in VoteRecords /\ r.choices = voteDirections[t.ballot].choices
        /\ r.sealed = TRUE
    BY <1>1 DEF Counted, L1, TypeOK, VoteRecords
  <1>3. voteDirections' = [voteDirections EXCEPT ![t.ballot] = r]
    BY <1>1 DEF ExecuteResealVote
  <1>4. /\ \A b \in Ballots \ {t.ballot} : voteDirections'[b] = voteDirections[b]
        /\ voteDirections'[t.ballot] = r
    BY <1>1, <1>3 DEF TypeOK
  <1>5. r # None
    BY <1>2, NoneAssumption
  <1>6. /\ poll' = [poll EXCEPT !.sealedCount = @ + 1]
        /\ UNCHANGED <<voterRegistry, tally, confirms, rescissions, restores,
                       submissionCount, checkpoints>>
    BY <1>1 DEF ExecuteResealVote, audit, rolling
  <1> HIDE DEF r
  <1>7. /\ L1(voteDirections') = L1(voteDirections)
        /\ Counted(voteDirections') = Counted(voteDirections) \ {t.ballot}
    BY <1>1, <1>2, <1>4, <1>5 DEF L1, Counted
  <1> QED
    BY <1>1, <1>2, <1>4, <1>6, <1>7 DEF r

\* What a validated rescission changes.
LEMMA RescindFacts ==
    ASSUME TypeOK, NEW t \in AuthorityRescindTxs, ValidateAuthorityRescind(t),
           ExecuteAuthorityRescind(t)
    PROVE  /\ t.ballot \in L1(voteDirections) /\ poll.status # "none"
           /\ Owner[t.ballot] \in voterRegistry
           /\ L1(voteDirections') = L1(voteDirections) \ {t.ballot}
           /\ \A b \in L1(voteDirections') : voteDirections'[b] = voteDirections[b]
           /\ voterRegistry' = voterRegistry \ {Owner[t.ballot]}
           /\ confirms' = confirms \ {Owner[t.ballot]}
           /\ poll'.status = poll.status /\ poll'.method = poll.method
           /\ poll'.idvCastCount = poll.idvCastCount
           /\ poll'.reattestationCount = ReattestationAfter(Owner[t.ballot])
           /\ poll'.sealedCount = SealedAfter(voteDirections[t.ballot])
           /\ rescissions' = rescissions \cup {t.ballot}
           /\ UNCHANGED <<restores, submissionCount, checkpoints>>
           /\ tally' = IF tally = None THEN None
                       ELSE RescindedTally(voteDirections[t.ballot].choices)
  <1>1. t.ballot \in L1(voteDirections)
    BY DEF ValidateAuthorityRescind, AuthorityRescindTxs, L1
  <1>2. /\ L1(voteDirections') = L1(voteDirections) \ {t.ballot}
        /\ \A b \in L1(voteDirections') : voteDirections'[b] = voteDirections[b]
    BY <1>1 DEF ExecuteAuthorityRescind, TypeOK, L1
  <1>3. /\ poll'.status = poll.status /\ poll'.method = poll.method
        /\ poll'.idvCastCount = poll.idvCastCount
        /\ poll'.reattestationCount = ReattestationAfter(Owner[t.ballot])
        /\ poll'.sealedCount = SealedAfter(voteDirections[t.ballot])
    BY DEF ExecuteAuthorityRescind, TypeOK, PollRecords
  <1> QED
    BY <1>1, <1>2, <1>3 DEF ValidateAuthorityRescind, ExecuteAuthorityRescind, rolling

\* What a rescission after the close takes out of the published tally.
LEMMA RescindedTallyFacts ==
    ASSUME TypeOK, NEW t \in AuthorityRescindTxs, ValidateAuthorityRescind(t),
           ExecuteAuthorityRescind(t), tally # None
    PROVE  /\ tally' # None /\ tally'.total = tally.total - 1
           /\ tally'.counts =
                 [o \in Options |->
                    IF GivesBack(poll.method, voteDirections[t.ballot].choices, o)
                    THEN tally.counts[o] - 1 ELSE tally.counts[o]]
  <1> DEFINE k == [o \in Options |->
                     IF GivesBack(poll.method, voteDirections[t.ballot].choices, o)
                     THEN tally.counts[o] - 1 ELSE tally.counts[o]]
  <1>1. tally \in Tallies
    BY DEF TypeOK
  <1>2. k \in [Options -> Int]
    BY <1>1 DEF Tallies
  <1>3. tally' = [tally EXCEPT !.total = @ - 1, !.counts = k,
                    !.rescissionCount = @ + 1, !.degraded = TRUE]
    <2>1. tally' = RescindedTally(voteDirections[t.ballot].choices)
      BY RescindFacts
    <2> QED
      BY <2>1 DEF RescindedTally
  <1> HIDE DEF k
  <1>4. tally' = [counts |-> k, total |-> tally.total - 1,
                  confirmed |-> tally.confirmed, degraded |-> TRUE,
                  rescissionCount |-> tally.rescissionCount + 1]
    BY <1>1, <1>3 DEF Tallies
  <1>5. /\ tally.total - 1 \in Int /\ tally.confirmed \in Nat
        /\ tally.rescissionCount + 1 \in Nat
    BY <1>1 DEF Tallies
  <1>6. tally' \in Tallies
    BY <1>2, <1>4, <1>5 DEF Tallies
  <1> QED
    BY <1>4, <1>6, NoneAssumption DEF k

-----------------------------------------------------------------------------
(* Count-match: every step adds to both lists or takes from both.           *)

\* A validated batch writes as many ballot IDs and names as many identities as
\* it has submissions; none of the identities is registered, short of grants.
LEMMA FlushSizes ==
    ASSUME TypeOK, NEW t \in BatchFlushTxs, ValidateBatchFlush(t),
           ExecuteBatchFlush(t, Opened)
    PROVE  LET ids == {s.ballot : s \in t.submissions}
               owners == {Owner[s.ballot] : s \in t.submissions}
           IN /\ ids \in SUBSET Ballots /\ owners \in SUBSET Voters
              /\ Cardinality(ids) = Cardinality(t.submissions)
              /\ Cardinality(owners) = Cardinality(t.submissions)
              /\ L1(voteDirections') = L1(voteDirections) \cup ids
              /\ voterRegistry' = voterRegistry \cup owners
              /\ restores = {} => voterRegistry \cap owners = {}
  <1> DEFINE ids == {s.ballot : s \in t.submissions}
             owners == {Owner[s.ballot] : s \in t.submissions}
             f == [s \in t.submissions |-> s.ballot]
             g == [s \in t.submissions |-> Owner[s.ballot]]
  <1>1. /\ IsFiniteSet(t.submissions) /\ Cardinality(t.submissions) \in Nat
        /\ \A s \in t.submissions : s.ballot \in Ballots /\ s.choices \in ChoiceLists
        /\ \A b \in Ballots :
              \/ /\ \A s \in t.submissions : s.ballot # b
                 /\ voteDirections'[b] = voteDirections[b]
              \/ \E s \in t.submissions :
                   /\ s.ballot = b
                   /\ voteDirections'[b] = [choices |-> s.choices,
                                            sealed |-> FALSE, keyed |-> TRUE]
    BY FlushFacts
  <1>2. ids \in SUBSET Ballots /\ owners \in SUBSET Voters
    BY <1>1, Owners
  <1>3. \A a, b \in t.submissions :
           a # b => a.ballot # b.ballot /\ Owner[a.ballot] # Owner[b.ballot]
    BY DEF ValidateBatchFlush
  <1>4. \A s \in t.submissions :
           Owner[s.ballot] \in voterRegistry => Owner[s.ballot] \in restores
    BY DEF ValidateBatchFlush, ValidateBallotCast, HasRestoreGrant
  <1>5. L1(voteDirections') = L1(voteDirections) \cup ids
    <2>1. ASSUME NEW b \in Ballots
          PROVE  voteDirections'[b] # None <=> voteDirections[b] # None \/ b \in ids
      <3>1. CASE b \in ids
        <4>1. PICK s \in t.submissions :
                 voteDirections'[b] = [choices |-> s.choices, sealed |-> FALSE,
                                       keyed |-> TRUE]
          BY <1>1, <3>1
        <4> QED
          BY <1>1, <3>1, <4>1, RecordsExist
      <3>2. CASE b \notin ids
        BY <1>1, <3>2
      <3> QED
        BY <3>1, <3>2
    <2> QED
      BY <1>2, <2>1 DEF L1
  <1>6. voterRegistry' = voterRegistry \cup owners
    BY DEF ExecuteBatchFlush
  <1>7. restores = {} => voterRegistry \cap owners = {}
    BY <1>4
  <1>8. /\ f \in [t.submissions -> ids] /\ \A x \in ids : \E s \in t.submissions : f[s] = x
        /\ \A a, b \in t.submissions : f[a] = f[b] => a = b
    BY <1>3
  <1>9. /\ g \in [t.submissions -> owners]
        /\ \A x \in owners : \E s \in t.submissions : g[s] = x
        /\ \A a, b \in t.submissions : g[a] = g[b] => a = b
    BY <1>3
  <1> HIDE DEF f, g, ids, owners
  <1>10. /\ f \in Bijection(t.submissions, ids)
         /\ g \in Bijection(t.submissions, owners)
    BY <1>8, <1>9 DEF Bijection, Injection, Surjection, IsInjective
  <1>11. /\ Cardinality(ids) = Cardinality(t.submissions)
         /\ Cardinality(owners) = Cardinality(t.submissions)
    BY <1>1, <1>10, FS_Bijection DEF ExistsBijection
  <1> QED
    BY <1>2, <1>5, <1>6, <1>7, <1>11 DEF ids, owners

\* The size of a disjoint union, of a set without one of its elements, and of
\* a set where one element replaces another.
LEMMA Sizes ==
    ASSUME NEW S, IsFiniteSet(S)
    PROVE  /\ \A T : IsFiniteSet(T) /\ S \cap T = {} =>
                 Cardinality(S \cup T) = Cardinality(S) + Cardinality(T)
           /\ \A x \in S : Cardinality(S \ {x}) = Cardinality(S) - 1
           /\ \A x \in S : \A y : y \notin S =>
                 Cardinality((S \ {x}) \cup {y}) = Cardinality(S)
  <1>1. ASSUME NEW T, IsFiniteSet(T), S \cap T = {}
        PROVE  Cardinality(S \cup T) = Cardinality(S) + Cardinality(T)
    <2>1. Cardinality(S \cup T) =
             Cardinality(S) + Cardinality(T) - Cardinality(S \cap T)
      BY <1>1, FS_Union
    <2>2. Cardinality(S \cap T) = 0
      BY <1>1, FS_EmptySet
    <2> QED
      BY <1>1, <2>1, <2>2, FS_CardinalityType
  <1>2. ASSUME NEW x \in S PROVE Cardinality(S \ {x}) = Cardinality(S) - 1
    BY FS_RemoveElement
  <1>3. ASSUME NEW x \in S, NEW y, y \notin S
        PROVE  Cardinality((S \ {x}) \cup {y}) = Cardinality(S)
    <2>1. IsFiniteSet(S \ {x}) /\ y \notin S \ {x}
      BY <1>3, FS_RemoveElement
    <2>2. Cardinality((S \ {x}) \cup {y}) = Cardinality(S \ {x}) + 1
      BY <2>1, FS_AddElement
    <2> QED
      BY <1>2, <1>3, <2>2, FS_CardinalityType
  <1> QED
    BY <1>1, <1>2, <1>3

\* Every step keeps the lists at the same size, unless it writes a ballot over
\* another one or a restore grant lets somebody cast twice.
LEMMA CountNext ==
    ASSUME TypeOK, CountMatch, [Next]_vars
    PROVE  CountMatch'
  <1> SUFFICES ASSUME restores' = {}, ~ rewritten'
               PROVE  Cardinality(L1(voteDirections')) = Cardinality(voterRegistry')
    BY DEF CountMatch
  <1>0. /\ IsFiniteSet(L1(voteDirections)) /\ IsFiniteSet(voterRegistry)
        /\ Cardinality(L1(voteDirections)) \in Nat /\ Cardinality(voterRegistry) \in Nat
    <2>1. L1(voteDirections) \in SUBSET Ballots /\ voterRegistry \in SUBSET Voters
      BY DEF L1, TypeOK
    <2> QED
      BY <2>1, BallotSets, VoterSets
  <1>1. ASSUME L1(voteDirections') = L1(voteDirections),
               voterRegistry' = voterRegistry, restores = {}, ~ rewritten
        PROVE  Cardinality(L1(voteDirections')) = Cardinality(voterRegistry')
    BY <1>1 DEF CountMatch
  <1>2. CASE Tick \/ UNCHANGED vars
    BY <1>1, <1>2 DEF Tick, vars, stateVars, marks
  <1>3. ASSUME NEW t \in Txs, Apply(t)
        PROVE  Cardinality(L1(voteDirections')) = Cardinality(voterRegistry')
    <2>0. ~ rewritten /\ ~ Overwrites(t)
      BY <1>3 DEF Apply, Remember
    <2>1. CASE t \in PollCreateTxs /\ ExecutePollCreate(t)
      BY <1>1, <2>0, <2>1 DEF ExecutePollCreate, lists, audit
    <2>2. CASE t \in BatchFlushTxs /\ ValidateBatchFlush(t)
               /\ ExecuteBatchFlush(t, Opened)
      <3> DEFINE ids == {s.ballot : s \in t.submissions}
                 owners == {Owner[s.ballot] : s \in t.submissions}
      <3>1. restores = {} /\ t.type = "BatchFlush"
        BY <2>2, FlushFacts DEF BatchFlushTxs
      <3>2. L1(voteDirections) \cap ids = {}
        BY <2>0, <3>1 DEF Overwrites, L1
      <3>3. /\ ids \in SUBSET Ballots /\ owners \in SUBSET Voters
            /\ Cardinality(ids) = Cardinality(owners)
            /\ L1(voteDirections') = L1(voteDirections) \cup ids
            /\ voterRegistry' = voterRegistry \cup owners
            /\ voterRegistry \cap owners = {}
        BY <2>2, <3>1, FlushSizes
      <3> HIDE DEF ids, owners
      <3>4. /\ IsFiniteSet(ids) /\ IsFiniteSet(owners)
            /\ Cardinality(ids) \in Nat
        BY <3>3, BallotSets, VoterSets
      <3>5. /\ Cardinality(L1(voteDirections')) =
                  Cardinality(L1(voteDirections)) + Cardinality(ids)
            /\ Cardinality(voterRegistry') =
                  Cardinality(voterRegistry) + Cardinality(owners)
        BY <1>0, <3>2, <3>3, <3>4, Sizes
      <3> QED
        BY <2>0, <3>1, <3>3, <3>5 DEF CountMatch
    <2>3. CASE t \in UpdateBallotTxs /\ ValidateBallotUpdate(t)
               /\ ExecuteBallotUpdate(t)
      <3>1. /\ restores = {} /\ t.old \in L1(voteDirections)
            /\ t.voter \in voterRegistry /\ t.type = "UpdateBallot"
        BY <2>3, UpdateFacts
      <3>2. CASE t.choices = <<>>
        <4>1. /\ L1(voteDirections') = L1(voteDirections) \ {t.old}
              /\ voterRegistry' = voterRegistry \ {t.voter}
          BY <2>3, <3>2, UpdateFacts
        <4>2. /\ Cardinality(L1(voteDirections')) = Cardinality(L1(voteDirections)) - 1
              /\ Cardinality(voterRegistry') = Cardinality(voterRegistry) - 1
          BY <1>0, <3>1, <4>1, Sizes
        <4> QED
          BY <2>0, <3>1, <4>2 DEF CountMatch
      <3>3. CASE t.choices # <<>>
        <4>1. /\ t.new \in Ballots /\ voterRegistry' = voterRegistry
              /\ L1(voteDirections') = (L1(voteDirections) \ {t.old}) \cup {t.new}
          BY <2>3, <3>3, UpdateFacts
        <4>2. t.new = t.old \/ t.new \notin L1(voteDirections)
          BY <2>0, <3>1, <3>3 DEF Overwrites, L1
        <4>3. Cardinality(L1(voteDirections')) = Cardinality(L1(voteDirections))
          <5>1. CASE t.new = t.old
            <6>1. L1(voteDirections') = L1(voteDirections)
              BY <3>1, <4>1, <5>1
            <6> QED
              BY <6>1
          <5>2. CASE t.new \notin L1(voteDirections)
            BY <1>0, <3>1, <4>1, <5>2, Sizes
          <5> QED
            BY <4>2, <5>1, <5>2
        <4> QED
          BY <2>0, <3>1, <4>1, <4>3 DEF CountMatch
      <3> QED
        BY <3>2, <3>3
    <2>4. CASE t \in ConfirmReceiptTxs /\ ExecuteConfirmReceipt(t)
      BY <1>1, <2>0, <2>4 DEF ExecuteConfirmReceipt, lists
    <2>5. CASE t \in PollCloseTxs /\ ExecutePollClose(t)
      BY <1>1, <2>0, <2>5 DEF ExecutePollClose, lists, audit
    <2>6. CASE t \in ResealVoteTxs /\ ValidateResealVote(t) /\ ExecuteResealVote(t)
      BY <1>1, <2>0, <2>6, ResealFacts
    <2>7. CASE t \in AuthorityRescindTxs /\ ValidateAuthorityRescind(t)
               /\ ExecuteAuthorityRescind(t)
      <3>1. /\ restores = {} /\ t.ballot \in L1(voteDirections)
            /\ Owner[t.ballot] \in voterRegistry
            /\ L1(voteDirections') = L1(voteDirections) \ {t.ballot}
            /\ voterRegistry' = voterRegistry \ {Owner[t.ballot]}
        BY <2>7, RescindFacts
      <3>2. /\ Cardinality(L1(voteDirections')) = Cardinality(L1(voteDirections)) - 1
            /\ Cardinality(voterRegistry') = Cardinality(voterRegistry) - 1
        BY <1>0, <3>1, Sizes
      <3> QED
        BY <2>0, <3>1, <3>2 DEF CountMatch
    <2>8. CASE t \in AuthorityRestoreTxs /\ ExecuteAuthorityRestore(t)
      BY <1>1, <2>0, <2>8 DEF ExecuteAuthorityRestore, lists
    <2> QED
      BY <1>3, <2>1, <2>2, <2>3, <2>4, <2>5, <2>6, <2>7, <2>8, ApplyCases
  <1> QED
    BY <1>2, <1>3 DEF Next

\* Count-match (doc.go): as long as no restore has been granted and no ballot
\* written over another one both lists have the same size after every executed
\* transaction, also where updates name other voters' ballots.
THEOREM CountsAlwaysMatch == Spec => []CountMatch
  <1>1. Init => CountMatch
    <2> SUFFICES ASSUME Init PROVE CountMatch
      OBVIOUS
    <2>1. L1(voteDirections) = {} /\ voterRegistry = {}
      BY DEF Init, L1
    <2> QED
      BY <2>1 DEF CountMatch
  <1>2. TypeOK /\ CountMatch /\ [Next]_vars => CountMatch'
    BY CountNext
  <1> QED
    BY <1>1, <1>2, TypeCorrect, PTL DEF Spec

-----------------------------------------------------------------------------
(* The life of the poll                                                     *)

\* Without a poll there is nothing else; a poll is closed exactly when it has
\* a tally; plurality ballots carry one choice; and a poll whose lists match
\* can only have been closed with no ballot in the sealed partition.
PollInv ==
    /\ poll.status = "none" =>
          /\ L1(voteDirections) = {} /\ voterRegistry = {} /\ confirms = {}
          /\ rescissions = {} /\ restores = {}
          /\ submissionCount = 0 /\ checkpoints = 0 /\ withdrawals = 0
    /\ tally # None <=> poll.status = "closed"
    /\ poll.method = "plurality" =>
          \A b \in L1(voteDirections) : Len(voteDirections[b].choices) = 1
    /\ tally # None /\ restores = {} /\ ~ rewritten =>
          Counted(voteDirections) = L1(voteDirections)

\* Before the poll is created nothing is cast or tallied.
LEMMA PollInvInit == Init => PollInv
  <1> SUFFICES ASSUME Init PROVE PollInv
    OBVIOUS
  <1>1. L1(voteDirections) = {}
    BY DEF Init, L1
  <1> QED
    BY <1>1 DEF Init, PollInv, NoPoll

\* executePollClose publishes a tally, or does nothing.
LEMMA CloseFacts ==
    ASSUME TypeOK, NEW t \in PollCloseTxs, ExecutePollClose(t)
    PROVE  \/ UNCHANGED <<poll, tally>>
           \/ /\ CountsMatch(voteDirections, voterRegistry)
              /\ tally' \in Tallies /\ tally' # None
              /\ tally'.counts = TallyCounts(poll.method, voteDirections)
              /\ tally'.total = Cardinality(Counted(voteDirections))
              /\ poll' = [poll EXCEPT !.status = "closed"]
  <1>1. CASE ~ CountsMatch(voteDirections, voterRegistry)
    BY <1>1 DEF ExecutePollClose
  <1>2. CASE CountsMatch(voteDirections, voterRegistry)
    <2>1. PICK d \in BOOLEAN :
             tally' = [counts |-> TallyCounts(poll.method, voteDirections),
                       total |-> Cardinality(Counted(voteDirections)),
                       confirmed |-> Cardinality(confirms),
                       degraded |-> d, rescissionCount |-> 0]
      BY <1>2, Zenon DEF ExecutePollClose
    <2>2. /\ TallyCounts(poll.method, voteDirections) \in [Options -> Int]
          /\ Cardinality(Counted(voteDirections)) \in Int
      BY CountsType
    <2>3. Cardinality(confirms) \in Nat
      BY VoterSets DEF TypeOK
    <2>4. tally' \in Tallies
      BY <2>1, <2>2, <2>3 DEF Tallies
    <2>5. poll' = [poll EXCEPT !.status = "closed"]
      BY <1>2 DEF ExecutePollClose
    <2> QED
      BY <1>2, <2>1, <2>4, <2>5, NoneAssumption
  <1> QED
    BY <1>1, <1>2

\* When the counted partition and List 2 have one size and so have List 1 and
\* List 2, no ballot is sealed.
LEMMA AllCounted ==
    ASSUME NEW votes, NEW registry, CountsMatch(votes, registry),
           Cardinality(L1(votes)) = Cardinality(registry)
    PROVE  Counted(votes) = L1(votes)
  <1>1. L1(votes) \in SUBSET Ballots /\ Counted(votes) \in SUBSET L1(votes)
    BY DEF L1, Counted
  <1> QED
    BY <1>1, BallotSets, FS_Subset DEF CountsMatch

\* Every step keeps PollInv.
LEMMA PollInvNext ==
    ASSUME TypeOK, CountMatch, PollInv, [Next]_vars
    PROVE  PollInv'
  <1>0. poll \in PollRecords
    BY DEF TypeOK
  <1>1. CASE Tick \/ UNCHANGED vars
    BY <1>1 DEF Tick, vars, stateVars, marks, PollInv
  <1>2. ASSUME NEW t \in Txs, Apply(t) PROVE PollInv'
    <2>0. rewritten => rewritten'
      BY <1>2 DEF Apply, Remember
    <2>1. CASE t \in PollCreateTxs /\ ValidatePollCreate(t) /\ ExecutePollCreate(t)
      <3>1. poll.status = "none" /\ poll'.status = "pending"
            /\ UNCHANGED <<voteDirections, tally, restores>>
        BY <2>1 DEF ValidatePollCreate, ExecutePollCreate, lists, audit
      <3>2. L1(voteDirections') = {}
        BY <3>1 DEF PollInv
      <3> QED
        BY <2>0, <3>1, <3>2 DEF PollInv
    <2>2. CASE t \in BatchFlushTxs /\ ValidateBatchFlush(t)
               /\ ExecuteBatchFlush(t, Opened)
      <3>1. ASSUME poll.method = "plurality", NEW b \in L1(voteDirections')
            PROVE  Len(voteDirections'[b].choices) = 1
        <4>1. \A s \in t.submissions : Len(s.choices) = 1
          BY <2>2, <3>1 DEF ValidateBatchFlush, ValidateBallotCast, ValidChoices
        <4>2. b \in Ballots /\ voteDirections'[b] # None
          BY <3>1 DEF L1
        <4>3. CASE voteDirections'[b] = voteDirections[b]
          BY <3>1, <4>2, <4>3 DEF PollInv, L1
        <4>4. CASE \E s \in t.submissions :
                      voteDirections'[b] = [choices |-> s.choices,
                                            sealed |-> FALSE, keyed |-> TRUE]
          BY <4>1, <4>4
        <4> QED
          BY <2>2, <4>2, <4>3, <4>4, FlushFacts
      <3> QED
        BY <2>0, <2>2, <3>1, FlushFacts DEF PollInv
    <2>3. CASE t \in UpdateBallotTxs /\ ValidateBallotUpdate(t)
               /\ ExecuteBallotUpdate(t)
      <3>1. tally = None /\ tally' = None /\ poll' = poll
            /\ poll.status \notin {"none", "closed"}
        BY <2>3, UpdateFacts DEF PollInv
      <3>2. ASSUME poll.method = "plurality", NEW b \in L1(voteDirections')
            PROVE  Len(voteDirections'[b].choices) = 1
        <4>1. b \in Ballots /\ voteDirections'[b] # None
          BY <3>2 DEF L1
        <4>2. CASE voteDirections'[b] = voteDirections[b]
          BY <3>2, <4>1, <4>2 DEF PollInv, L1
        <4>3. CASE voteDirections'[b] # voteDirections[b]
          <5>1. ValidChoices(t.choices)
                /\ voteDirections'[b] = [choices |-> t.choices,
                                         sealed |-> FALSE, keyed |-> FALSE]
            BY <2>3, <4>1, <4>3, UpdateFacts DEF TypeOK
          <5> QED
            BY <3>2, <5>1 DEF ValidChoices
        <4> QED
          BY <4>2, <4>3
      <3> QED
        BY <3>1, <3>2 DEF PollInv
    <2>4. CASE t \in ConfirmReceiptTxs /\ ValidateConfirmReceipt(t)
               /\ ExecuteConfirmReceipt(t)
      <3>1. poll.status # "none" /\ poll'.status = poll.status
            /\ poll'.method = poll.method
        BY <1>0, <2>4 DEF ValidateConfirmReceipt, ExecuteConfirmReceipt, PollRecords
      <3>2. tally' = None <=> tally = None
        <4>1. tally # None => tally' \in Tallies
          <5>1. Cardinality(confirms') \in Nat
            BY <2>4, VoterSets DEF ExecuteConfirmReceipt, ConfirmReceiptTxs, TypeOK
          <5> QED
            BY <2>4, <5>1 DEF ExecuteConfirmReceipt, TypeOK, Tallies
        <4> QED
          BY <2>4, <4>1, NoneAssumption DEF ExecuteConfirmReceipt
      <3> QED
        BY <2>0, <2>4, <3>1, <3>2 DEF ExecuteConfirmReceipt, lists, PollInv
    <2>5. CASE t \in PollCloseTxs /\ ValidatePollClose(t) /\ ExecutePollClose(t)
      <3>1. UNCHANGED <<voteDirections, voterRegistry, confirms, rescissions,
                        restores, submissionCount, checkpoints>>
        BY <2>5 DEF ExecutePollClose, lists, audit, rolling
      <3>2. CASE UNCHANGED <<poll, tally>>
        <4>1. poll.status # "none"
          BY <2>5 DEF ValidatePollClose
        <4> QED
          BY <2>0, <3>1, <3>2, <4>1 DEF PollInv
      <3>3. CASE /\ CountsMatch(voteDirections, voterRegistry) /\ tally' # None
                 /\ poll' = [poll EXCEPT !.status = "closed"]
        <4>1. restores = {} /\ ~ rewritten' =>
                 Counted(voteDirections) = L1(voteDirections)
          BY <2>0, <3>3, AllCounted DEF CountMatch
        <4>2. poll'.status = "closed" /\ poll'.method = poll.method
          BY <1>0, <3>3 DEF PollRecords
        <4> QED
          BY <3>1, <3>3, <4>1, <4>2 DEF PollInv
      <3> QED
        BY <2>5, <3>2, <3>3, CloseFacts
    <2>6. CASE t \in ResealVoteTxs /\ ValidateResealVote(t) /\ ExecuteResealVote(t)
      <3>1. poll'.status = poll.status /\ poll'.method = poll.method
        BY <1>0, <2>6, ResealFacts DEF PollRecords
      <3>2. \A b \in L1(voteDirections') :
               voteDirections'[b].choices = voteDirections[b].choices
        BY <2>6, ResealFacts DEF L1
      <3>3. tally = None /\ tally' = None /\ L1(voteDirections') = L1(voteDirections)
        BY <2>6, ResealFacts DEF PollInv
      <3> QED
        BY <2>6, <3>1, <3>2, <3>3, ResealFacts DEF PollInv
    <2>7. CASE t \in AuthorityRescindTxs /\ ValidateAuthorityRescind(t)
               /\ ExecuteAuthorityRescind(t)
      <3>1. tally' = None <=> tally = None
        BY <2>7, RescindFacts, RescindedTallyFacts
      <3>2. Counted(voteDirections) = L1(voteDirections) =>
               Counted(voteDirections') = L1(voteDirections')
        <4>1. Counted(voteDirections') = Counted(voteDirections) \ {t.ballot}
          BY <2>7, RescindFacts DEF Counted
        <4> QED
          BY <2>7, <4>1, RescindFacts
      <3>3. \A b \in L1(voteDirections') :
               b \in L1(voteDirections) /\ voteDirections'[b] = voteDirections[b]
        BY <2>7, RescindFacts
      <3> QED
        BY <2>0, <2>7, <3>1, <3>2, <3>3, RescindFacts DEF PollInv
    <2>8. CASE t \in AuthorityRestoreTxs /\ ValidateAuthorityRestore(t)
               /\ ExecuteAuthorityRestore(t)
      BY <2>0, <2>8
         DEF ExecuteAuthorityRestore, ValidateAuthorityRestore, lists, PollInv
    <2> QED
      BY <1>2, <2>1, <2>2, <2>3, <2>4, <2>5, <2>6, <2>7, <2>8, ApplyCases
  <1> QED
    BY <1>1, <1>2 DEF Next

-----------------------------------------------------------------------------
(* The audit counters                                                       *)

\* The ballots in the sealed partition.
Sealed(votes) == L1(votes) \ Counted(votes)

\* Fewer elements, smaller size.
LEMMA SmallerSets ==
    /\ \A S \in SUBSET Voters : \A T \in SUBSET S :
          Cardinality(S) \in Nat /\ Cardinality(T) \in Nat
          /\ Cardinality(T) <= Cardinality(S)
    /\ \A S \in SUBSET Ballots : \A T \in SUBSET S :
          Cardinality(S) \in Nat /\ Cardinality(T) \in Nat
          /\ Cardinality(T) <= Cardinality(S)
  <1>1. ASSUME NEW S \in SUBSET Voters, NEW T \in SUBSET S
        PROVE  /\ Cardinality(S) \in Nat /\ Cardinality(T) \in Nat
               /\ Cardinality(T) <= Cardinality(S)
    BY VoterSets, FS_Subset
  <1>2. ASSUME NEW S \in SUBSET Ballots, NEW T \in SUBSET S
        PROVE  /\ Cardinality(S) \in Nat /\ Cardinality(T) \in Nat
               /\ Cardinality(T) <= Cardinality(S)
    BY BallotSets, FS_Subset
  <1> QED
    BY <1>1, <1>2

\* What a step does to the numbers of the account.
LEMMA AccountTypes ==
    ASSUME TypeOK
    PROVE  /\ poll \in PollRecords /\ poll.idvCastCount \in Nat
           /\ poll.reattestationCount \in Nat /\ poll.sealedCount \in Nat
           /\ voterRegistry \in SUBSET Voters /\ confirms \in SUBSET Voters
           /\ rescissions \in SUBSET Ballots
           /\ Sealed(voteDirections) \in SUBSET Ballots
           /\ IsFiniteSet(voterRegistry) /\ Cardinality(voterRegistry) \in Nat
           /\ IsFiniteSet(confirms) /\ Cardinality(confirms) \in Nat
           /\ IsFiniteSet(rescissions) /\ Cardinality(rescissions) \in Nat
           /\ IsFiniteSet(Sealed(voteDirections))
           /\ Cardinality(Sealed(voteDirections)) \in Nat
           /\ withdrawals \in Nat
  <1>1. voterRegistry \in SUBSET Voters /\ confirms \in SUBSET Voters
        /\ rescissions \in SUBSET Ballots /\ Sealed(voteDirections) \in SUBSET Ballots
    BY DEF TypeOK, Sealed, L1
  <1> QED
    BY <1>1, VoterSets, BallotSets DEF TypeOK, MarksTypeOK, PollRecords

\* Every cast is registered, rescinded or withdrawn after every step, short of
\* casts under a grant.
LEMMA CastsNext ==
    ASSUME TypeOK, PollInv, CountersAccount, [Next]_vars
    PROVE  /\ poll'.idvCastCount >= Accounted'
           /\ restores' = {} => poll'.idvCastCount = Accounted'
  <1> DEFINE Goal == /\ poll'.idvCastCount >= Accounted'
                     /\ restores' = {} => poll'.idvCastCount = Accounted'
  <1>0. /\ poll.idvCastCount >= Accounted
        /\ restores = {} => poll.idvCastCount = Accounted
    BY DEF CountersAccount
  <1>1. ASSUME UNCHANGED <<voterRegistry, rescissions, withdrawals>>,
               poll'.idvCastCount = poll.idvCastCount, restores \subseteq restores'
        PROVE  Goal
    BY <1>0, <1>1 DEF Accounted
  <1>2. CASE Tick \/ UNCHANGED vars
    BY <1>1, <1>2 DEF Tick, vars, stateVars, marks
  <1>3. ASSUME NEW t \in Txs, Apply(t) PROVE Goal
    <2>0. /\ withdrawals' = IF t.type = "UpdateBallot" /\ t.choices = <<>>
                            THEN withdrawals + 1 ELSE withdrawals
          /\ poll \in PollRecords
      BY <1>3, AccountTypes DEF Apply, Remember
    <2>1. CASE t \in PollCreateTxs /\ ValidatePollCreate(t) /\ ExecutePollCreate(t)
      <3>1. poll'.idvCastCount = 0 /\ t.type = "PollCreate"
        BY <2>1 DEF ExecutePollCreate, PollCreateTxs
      <3>2. voterRegistry' = {} /\ rescissions' = {} /\ withdrawals' = 0
        BY <2>0, <2>1, <3>1
           DEF ExecutePollCreate, ValidatePollCreate, PollInv, lists, audit
      <3> QED
        BY <3>1, <3>2, FS_EmptySet DEF Accounted
    <2>2. CASE t \in BatchFlushTxs /\ ValidateBatchFlush(t)
               /\ ExecuteBatchFlush(t, Opened)
      <3> DEFINE n == Cardinality(t.submissions)
                 owners == {Owner[s.ballot] : s \in t.submissions}
      <3>1. /\ n \in Nat /\ poll'.idvCastCount = poll.idvCastCount + n
            /\ UNCHANGED <<rescissions, restores, withdrawals>>
        <4>1. t.type = "BatchFlush"
          BY <2>2 DEF BatchFlushTxs
        <4> QED
          BY <2>0, <2>2, <4>1, FlushFacts
      <3>2. /\ owners \in SUBSET Voters /\ Cardinality(owners) = n
            /\ voterRegistry' = voterRegistry \cup owners
            /\ restores = {} => voterRegistry \cap owners = {}
        BY <2>2, FlushSizes
      <3> HIDE DEF n, owners
      <3>3. /\ IsFiniteSet(owners) /\ voterRegistry \cap owners \in SUBSET Voters
            /\ voterRegistry \cup owners \in SUBSET Voters
        BY <3>2, VoterSets, AccountTypes
      <3>4. Cardinality(voterRegistry') =
               Cardinality(voterRegistry) + n - Cardinality(voterRegistry \cap owners)
        BY <3>2, <3>3, AccountTypes, FS_Union
      <3>5. /\ Cardinality(voterRegistry \cap owners) \in Nat
            /\ restores = {} => Cardinality(voterRegistry \cap owners) = 0
            /\ Cardinality(voterRegistry') \in Nat
        BY <3>2, <3>3, VoterSets, FS_EmptySet
      <3> QED
        BY <1>0, <3>1, <3>4, <3>5, AccountTypes DEF Accounted
    <2>3. CASE t \in UpdateBallotTxs /\ ValidateBallotUpdate(t)
               /\ ExecuteBallotUpdate(t)
      <3>1. /\ t.type = "UpdateBallot" /\ t.voter \in voterRegistry /\ poll' = poll
            /\ UNCHANGED <<rescissions, restores>>
        BY <2>3, UpdateFacts
      <3>2. CASE t.choices = <<>>
        <4>1. voterRegistry' = voterRegistry \ {t.voter}
              /\ withdrawals' = withdrawals + 1
          BY <2>0, <2>3, <3>1, <3>2, UpdateFacts
        <4>2. Cardinality(voterRegistry') = Cardinality(voterRegistry) - 1
          BY <3>1, <4>1, AccountTypes, Sizes
        <4> QED
          BY <1>0, <3>1, <4>1, <4>2, AccountTypes DEF Accounted
      <3>3. CASE t.choices # <<>>
        <4>1. voterRegistry' = voterRegistry
          BY <2>3, <3>3, UpdateFacts
        <4> QED
          BY <1>1, <2>0, <3>1, <3>3, <4>1
      <3> QED
        BY <3>2, <3>3
    <2>4. CASE t \in ConfirmReceiptTxs /\ ValidateConfirmReceipt(t)
               /\ ExecuteConfirmReceipt(t)
      <3>1. poll'.idvCastCount = poll.idvCastCount /\ t.type = "ConfirmReceipt"
        BY <2>0, <2>4 DEF ExecuteConfirmReceipt, PollRecords, ConfirmReceiptTxs
      <3> QED
        BY <1>1, <2>0, <2>4, <3>1 DEF ExecuteConfirmReceipt, lists
    <2>5. CASE t \in PollCloseTxs /\ ExecutePollClose(t)
      <3>1. poll'.idvCastCount = poll.idvCastCount /\ t.type = "PollClose"
        BY <2>0, <2>5, CloseFacts DEF PollRecords, PollCloseTxs
      <3> QED
        BY <1>1, <2>0, <2>5, <3>1 DEF ExecutePollClose, lists, audit
    <2>6. CASE t \in ResealVoteTxs /\ ValidateResealVote(t) /\ ExecuteResealVote(t)
      <3>1. poll'.idvCastCount = poll.idvCastCount /\ t.type = "ResealVote"
        BY <2>0, <2>6, ResealFacts DEF PollRecords, ResealVoteTxs
      <3> QED
        BY <1>1, <2>0, <2>6, <3>1, ResealFacts
    <2>7. CASE t \in AuthorityRescindTxs /\ ValidateAuthorityRescind(t)
               /\ ExecuteAuthorityRescind(t)
      <3>1. /\ Owner[t.ballot] \in voterRegistry
            /\ voterRegistry' = voterRegistry \ {Owner[t.ballot]}
            /\ rescissions' = rescissions \cup {t.ballot}
            /\ poll'.idvCastCount = poll.idvCastCount /\ restores' = restores
        BY <2>7, RescindFacts
      <3>2. t.ballot \notin rescissions /\ withdrawals' = withdrawals
        BY <2>0, <2>7 DEF ValidateAuthorityRescind, AuthorityRescindTxs
      <3>3. Cardinality(voterRegistry') = Cardinality(voterRegistry) - 1
        BY <3>1, AccountTypes, Sizes
      <3>4. Cardinality(rescissions') = Cardinality(rescissions) + 1
        BY <3>1, <3>2, AccountTypes, FS_AddElement
      <3> QED
        BY <1>0, <3>1, <3>2, <3>3, <3>4, AccountTypes DEF Accounted
    <2>8. CASE t \in AuthorityRestoreTxs /\ ExecuteAuthorityRestore(t)
      <3>1. t.type = "AuthorityRestore"
        BY <2>8 DEF AuthorityRestoreTxs
      <3> QED
        BY <1>1, <2>0, <2>8, <3>1 DEF ExecuteAuthorityRestore, lists
    <2> QED
      BY <1>3, <2>1, <2>2, <2>3, <2>4, <2>5, <2>6, <2>7, <2>8, ApplyCases
  <1> QED
    BY <1>2, <1>3 DEF Next

\* ReattestationCount follows the confirmations up, and down with rescissions,
\* but not with withdrawals.
LEMMA ReattestedNext ==
    ASSUME TypeOK, PollInv, CountersAccount, [Next]_vars
    PROVE  /\ poll'.reattestationCount >= Cardinality(confirms')
           /\ withdrawals' = 0 =>
                 poll'.reattestationCount = Cardinality(confirms')
  <1> DEFINE Goal == /\ poll'.reattestationCount >= Cardinality(confirms')
                     /\ withdrawals' = 0 =>
                           poll'.reattestationCount = Cardinality(confirms')
  <1>0. /\ poll.reattestationCount >= Cardinality(confirms)
        /\ withdrawals = 0 => poll.reattestationCount = Cardinality(confirms)
    BY DEF CountersAccount
  <1>1. ASSUME confirms' = confirms, withdrawals' = 0 => withdrawals = 0,
               poll'.reattestationCount = poll.reattestationCount
        PROVE  Goal
    BY <1>0, <1>1
  <1>2. CASE Tick \/ UNCHANGED vars
    BY <1>1, <1>2 DEF Tick, vars, stateVars, marks
  <1>3. ASSUME NEW t \in Txs, Apply(t) PROVE Goal
    <2>0. /\ withdrawals' = IF t.type = "UpdateBallot" /\ t.choices = <<>>
                            THEN withdrawals + 1 ELSE withdrawals
          /\ poll \in PollRecords
      BY <1>3, AccountTypes DEF Apply, Remember
    <2>00. withdrawals' = 0 => withdrawals = 0
      BY <2>0, AccountTypes
    <2>1. CASE t \in PollCreateTxs /\ ValidatePollCreate(t) /\ ExecutePollCreate(t)
      <3>1. poll'.reattestationCount = 0 /\ confirms' = {}
        BY <2>1 DEF ExecutePollCreate, ValidatePollCreate, PollInv, audit
      <3> QED
        BY <3>1, FS_EmptySet
    <2>2. CASE t \in BatchFlushTxs /\ ValidateBatchFlush(t)
               /\ ExecuteBatchFlush(t, Opened)
      BY <1>1, <2>00, <2>2, FlushFacts
    <2>3. CASE t \in UpdateBallotTxs /\ ValidateBallotUpdate(t)
               /\ ExecuteBallotUpdate(t)
      <3>1. t.type = "UpdateBallot" /\ poll' = poll
        BY <2>3, UpdateFacts
      <3>2. CASE t.choices = <<>>
        <4>1. confirms' \in SUBSET confirms /\ withdrawals' # 0
          <5>1. confirms' = confirms \ {t.voter}
            BY <2>3, <3>2, UpdateFacts
          <5> QED
            BY <2>0, <3>1, <3>2, <5>1, AccountTypes
        <4>2. Cardinality(confirms') \in Nat
              /\ Cardinality(confirms') <= Cardinality(confirms)
          BY <4>1, AccountTypes, SmallerSets
        <4> QED
          BY <1>0, <3>1, <4>1, <4>2, AccountTypes
      <3>3. CASE t.choices # <<>>
        BY <1>1, <2>00, <2>3, <3>1, <3>3, UpdateFacts
      <3> QED
        BY <3>2, <3>3
    <2>4. CASE t \in ConfirmReceiptTxs /\ ValidateConfirmReceipt(t)
               /\ ExecuteConfirmReceipt(t)
      <3>1. poll'.reattestationCount = poll.reattestationCount + 1
        BY <2>0, <2>4 DEF ValidateConfirmReceipt, ExecuteConfirmReceipt, PollRecords
      <3>2. confirms' = confirms \cup {t.voter} /\ t.voter \notin confirms
        BY <2>4 DEF ValidateConfirmReceipt, ExecuteConfirmReceipt
      <3>3. Cardinality(confirms') = Cardinality(confirms) + 1
        BY <3>2, AccountTypes, FS_AddElement
      <3> QED
        BY <1>0, <2>00, <3>1, <3>3, AccountTypes
    <2>5. CASE t \in PollCloseTxs /\ ExecutePollClose(t)
      <3>1. poll'.reattestationCount = poll.reattestationCount
        BY <2>0, <2>5, CloseFacts DEF PollRecords
      <3> QED
        BY <1>1, <2>00, <2>5, <3>1 DEF ExecutePollClose, audit
    <2>6. CASE t \in ResealVoteTxs /\ ValidateResealVote(t) /\ ExecuteResealVote(t)
      <3>1. poll'.reattestationCount = poll.reattestationCount
        BY <2>0, <2>6, ResealFacts DEF PollRecords
      <3> QED
        BY <1>1, <2>00, <2>6, <3>1, ResealFacts
    <2>7. CASE t \in AuthorityRescindTxs /\ ValidateAuthorityRescind(t)
               /\ ExecuteAuthorityRescind(t)
      <3> DEFINE v == Owner[t.ballot]
      <3>1. /\ confirms' = confirms \ {v}
            /\ poll'.reattestationCount = ReattestationAfter(v)
        BY <2>7, RescindFacts
      <3>2. /\ Cardinality(confirms') \in Nat
            /\ Cardinality(confirms') = IF v \in confirms THEN Cardinality(confirms) - 1
                                        ELSE Cardinality(confirms)
        <4>1. v \notin confirms => confirms' = confirms
          BY <3>1
        <4>2. IsFiniteSet(confirms') /\ Cardinality(confirms') \in Nat
          BY <3>1, AccountTypes, FS_Difference, FS_CardinalityType
        <4>3. v \in confirms => Cardinality(confirms') = Cardinality(confirms) - 1
          BY <3>1, AccountTypes, Sizes
        <4> QED
          BY <4>1, <4>2, <4>3
      <3> QED
        BY <1>0, <2>00, <3>1, <3>2, AccountTypes DEF ReattestationAfter
    <2>8. CASE t \in AuthorityRestoreTxs /\ ExecuteAuthorityRestore(t)
      BY <1>1, <2>00, <2>8 DEF ExecuteAuthorityRestore
    <2> QED
      BY <1>3, <2>1, <2>2, <2>3, <2>4, <2>5, <2>6, <2>7, <2>8, ApplyCases
  <1> QED
    BY <1>2, <1>3 DEF Next

\* SealedCount stays at or above the sealed ballots.
LEMMA SealedCountNext ==
    ASSUME TypeOK, PollInv, CountersAccount, [Next]_vars
    PROVE  poll'.sealedCount >= Cardinality(Sealed(voteDirections'))
  <1> DEFINE Goal == poll'.sealedCount >= Cardinality(Sealed(voteDirections'))
  <1>0. /\ poll.sealedCount >= Cardinality(Sealed(voteDirections))
        /\ poll \in PollRecords
    BY AccountTypes DEF CountersAccount, Sealed
  <1>1. ASSUME voteDirections' = voteDirections,
               poll'.sealedCount = poll.sealedCount
        PROVE  Goal
    BY <1>0, <1>1
  <1>2. CASE Tick \/ UNCHANGED vars
    BY <1>1, <1>2 DEF Tick, vars, stateVars
  <1>4. ASSUME \A b \in Ballots :
                  voteDirections'[b] # None /\ voteDirections'[b].sealed =>
                     voteDirections'[b] = voteDirections[b],
               poll'.sealedCount = poll.sealedCount
        PROVE  Goal
    <2>1. Sealed(voteDirections') \in SUBSET Sealed(voteDirections)
      BY <1>4 DEF Sealed, L1, Counted
    <2>2. Cardinality(Sealed(voteDirections')) \in Nat
          /\ Cardinality(Sealed(voteDirections')) <= Cardinality(Sealed(voteDirections))
      BY <2>1, AccountTypes, SmallerSets
    <2> QED
      BY <1>0, <1>4, <2>2, AccountTypes
  <1>3. ASSUME NEW t \in Txs, Apply(t) PROVE Goal
    <2>1. CASE t \in PollCreateTxs /\ ValidatePollCreate(t) /\ ExecutePollCreate(t)
      <3>1. poll'.sealedCount = 0 /\ Sealed(voteDirections') = {}
        BY <2>1 DEF ExecutePollCreate, ValidatePollCreate, PollInv, Sealed, lists
      <3> QED
        BY <3>1, FS_EmptySet
    <2>2. CASE t \in BatchFlushTxs /\ ValidateBatchFlush(t)
               /\ ExecuteBatchFlush(t, Opened)
      <3>1. \A s : [choices |-> s, sealed |-> FALSE, keyed |-> TRUE].sealed = FALSE
        OBVIOUS
      <3>2. \A b \in Ballots :
               voteDirections'[b] # None /\ voteDirections'[b].sealed =>
                  voteDirections'[b] = voteDirections[b]
        <4>1. \A b \in Ballots :
                 \/ voteDirections'[b] = voteDirections[b]
                 \/ \E s \in t.submissions :
                      voteDirections'[b] = [choices |-> s.choices,
                                            sealed |-> FALSE, keyed |-> TRUE]
          BY <2>2, FlushFacts
        <4> QED
          BY <3>1, <4>1
      <3> QED
        BY <1>4, <2>2, <3>2, FlushFacts
    <2>3. CASE t \in UpdateBallotTxs /\ ValidateBallotUpdate(t)
               /\ ExecuteBallotUpdate(t)
      <3>1. ASSUME NEW b \in Ballots, voteDirections'[b] # None,
                   voteDirections'[b].sealed
            PROVE  voteDirections'[b] = voteDirections[b]
        <4>1. CASE t.choices = <<>>
          <5>1. voteDirections' = [voteDirections EXCEPT ![t.old] = None]
            BY <2>3, <4>1, UpdateFacts
          <5> QED
            BY <3>1, <5>1 DEF TypeOK
        <4>2. CASE t.choices # <<>>
          <5>1. /\ t.new # t.old => voteDirections'[t.old] = None
                /\ voteDirections'[t.new] = [choices |-> t.choices,
                                             sealed |-> FALSE, keyed |-> FALSE]
                /\ \A c \in Ballots \ {t.old, t.new} :
                      voteDirections'[c] = voteDirections[c]
            BY <2>3, <4>2, UpdateFacts
          <5>2. voteDirections'[t.new].sealed = FALSE
            BY <5>1
          <5> QED
            BY <3>1, <5>1, <5>2
        <4> QED
          BY <4>1, <4>2
      <3> QED
        BY <1>4, <2>3, <3>1, UpdateFacts
    <2>4. CASE t \in ConfirmReceiptTxs /\ ValidateConfirmReceipt(t)
               /\ ExecuteConfirmReceipt(t)
      <3>1. poll'.sealedCount = poll.sealedCount
        BY <1>0, <2>4 DEF ExecuteConfirmReceipt, PollRecords
      <3> QED
        BY <1>1, <2>4, <3>1 DEF ExecuteConfirmReceipt, lists
    <2>5. CASE t \in PollCloseTxs /\ ExecutePollClose(t)
      <3>1. poll'.sealedCount = poll.sealedCount
        BY <1>0, <2>5, CloseFacts DEF PollRecords
      <3> QED
        BY <1>1, <2>5, <3>1 DEF ExecutePollClose, lists
    <2>6. CASE t \in ResealVoteTxs /\ ValidateResealVote(t) /\ ExecuteResealVote(t)
      <3>1. /\ Sealed(voteDirections') = Sealed(voteDirections) \cup {t.ballot}
            /\ t.ballot \notin Sealed(voteDirections)
        BY <2>6, ResealFacts DEF Sealed, Counted
      <3>2. Cardinality(Sealed(voteDirections')) = Cardinality(Sealed(voteDirections)) + 1
        BY <3>1, AccountTypes, FS_AddElement
      <3>3. poll'.sealedCount = poll.sealedCount + 1
        BY <1>0, <2>6, ResealFacts DEF PollRecords
      <3> QED
        BY <1>0, <3>2, <3>3, AccountTypes
    <2>7. CASE t \in AuthorityRescindTxs /\ ValidateAuthorityRescind(t)
               /\ ExecuteAuthorityRescind(t)
      <3>1. poll'.sealedCount = SealedAfter(voteDirections[t.ballot])
            /\ voteDirections[t.ballot] # None
        BY <2>7, RescindFacts DEF L1
      <3>2. Sealed(voteDirections') = Sealed(voteDirections) \ {t.ballot}
        BY <2>7, RescindFacts DEF Sealed, Counted
      <3>3. t.ballot \in Sealed(voteDirections) <=> voteDirections[t.ballot].sealed
        BY <2>7, RescindFacts DEF Sealed, Counted
      <3>4. Cardinality(Sealed(voteDirections')) \in Nat
            /\ Cardinality(Sealed(voteDirections')) =
                  IF t.ballot \in Sealed(voteDirections)
                  THEN Cardinality(Sealed(voteDirections)) - 1
                  ELSE Cardinality(Sealed(voteDirections))
        BY <3>2, AccountTypes, FS_RemoveElement, SmallerSets
      <3>5. SealedAfter(voteDirections[t.ballot]) =
               IF t.ballot \in Sealed(voteDirections) /\ poll.sealedCount > 0
               THEN poll.sealedCount - 1 ELSE poll.sealedCount
        BY <3>1, <3>3 DEF SealedAfter
      <3> QED
        BY <1>0, <3>1, <3>4, <3>5, AccountTypes
    <2>8. CASE t \in AuthorityRestoreTxs /\ ExecuteAuthorityRestore(t)
      BY <1>1, <2>8 DEF ExecuteAuthorityRestore, lists
    <2> QED
      BY <1>3, <2>1, <2>2, <2>3, <2>4, <2>5, <2>6, <2>7, <2>8, ApplyCases
  <1> QED
    BY <1>2, <1>3 DEF Next

\* Empty lists, counters at zero.
LEMMA AccountInit == Init => CountersAccount
  <1> SUFFICES ASSUME Init PROVE CountersAccount
    OBVIOUS
  <1>1. /\ poll.idvCastCount = 0 /\ poll.reattestationCount = 0
        /\ poll.sealedCount = 0 /\ voterRegistry = {} /\ confirms = {}
        /\ rescissions = {} /\ withdrawals = 0
    BY DEF Init, NoPoll
  <1>2. L1(voteDirections) \ Counted(voteDirections) = {}
    BY DEF Init, L1
  <1>3. Cardinality({}) = 0
    BY FS_EmptySet
  <1> QED
    BY <1>1, <1>2, <1>3 DEF CountersAccount, Accounted

\* The poll's life, as an invariant of the state machine.
LEMMA PollInvAlways == Spec => []PollInv
  BY PollInvInit, PollInvNext, TypeCorrect, CountsAlwaysMatch, PTL DEF Spec

\* The audit counters of a poll account for what happened, through batches,
\* withdrawals, rescissions and restores: every cast is registered, rescinded
\* or withdrawn unless a grant let somebody cast twice, re-attestations are
\* the confirmations until somebody withdraws, and no counter ever reports
\* less than there is.
THEOREM CountersAlwaysAccount == Spec => []CountersAccount
  <1>1. TypeOK /\ PollInv /\ CountersAccount /\ [Next]_vars => CountersAccount'
    BY CastsNext, ReattestedNext, SealedCountNext DEF CountersAccount, Sealed
  <1> QED
    BY <1>1, AccountInit, TypeCorrect, PollInvAlways, PTL DEF Spec

-----------------------------------------------------------------------------
(* Rolling attestations                                                     *)

\* Quotient and remainder.
LEMMA DivMod ==
    ASSUME NEW m \in Nat, NEW n \in Nat \ {0}
    PROVE  /\ m \div n \in Nat /\ m % n \in Nat /\ m % n < n
           /\ m = (m \div n) * n + (m % n)
  OBVIOUS

\* Every step keeps the account; without sealed, rescinded or restored
\* ballots the lists match, so the attestation of a full threshold never fails.
LEMMA RollingNext ==
    ASSUME TypeOK, PollInv, RollingAccounting, CountMatch', CountersAccount',
           AttestationMode = "rolling", [Next]_vars
    PROVE  RollingAccounting'
  <1>0. /\ poll \in PollRecords /\ poll.idvCastCount \in Nat
        /\ poll.sealedCount \in Nat
        /\ submissionCount \in Nat /\ checkpoints \in Nat
        /\ RollingThreshold \in Nat \ {0}
        /\ checkpoints * RollingThreshold \in Nat
    <2>1. /\ poll \in PollRecords /\ poll.idvCastCount \in Nat
          /\ poll.sealedCount \in Nat
          /\ submissionCount \in Nat /\ checkpoints \in Nat
          /\ RollingThreshold \in Nat \ {0}
      BY BoundAssumption DEF TypeOK, PollRecords
    <2> QED
      BY <2>1
  <1>1. /\ checkpoints * RollingThreshold + submissionCount <= poll.idvCastCount
        /\ poll.sealedCount = 0 /\ rescissions = {} /\ restores = {}
           /\ ~ rewritten =>
              /\ submissionCount < RollingThreshold
              /\ poll.idvCastCount = checkpoints * RollingThreshold + submissionCount
    BY DEF RollingAccounting
  <1>2. ASSUME UNCHANGED <<submissionCount, checkpoints>>,
               poll'.idvCastCount = poll.idvCastCount,
               rewritten => rewritten',
               poll'.sealedCount = 0 /\ rescissions' = {} /\ restores' = {} =>
                  poll.sealedCount = 0 /\ rescissions = {} /\ restores = {}
        PROVE  RollingAccounting'
    BY <1>1, <1>2 DEF RollingAccounting
  <1>3. CASE Tick \/ UNCHANGED vars
    BY <1>2, <1>3 DEF Tick, vars, stateVars, marks
  <1>4. ASSUME NEW t \in Txs, Apply(t) PROVE RollingAccounting'
    <2>0. rewritten => rewritten'
      BY <1>4 DEF Apply, Remember
    <2>1. CASE t \in PollCreateTxs /\ ValidatePollCreate(t) /\ ExecutePollCreate(t)
      <3>1. poll'.idvCastCount = 0 /\ submissionCount' = 0 /\ checkpoints' = 0
        BY <2>1 DEF ValidatePollCreate, ExecutePollCreate, PollInv, rolling
      <3> QED
        BY <1>0, <3>1 DEF RollingAccounting
    <2>2. CASE t \in BatchFlushTxs /\ ValidateBatchFlush(t)
               /\ ExecuteBatchFlush(t, Opened)
      <3> DEFINE n == Cardinality(t.submissions)
                 m == submissionCount + n
      <3>1. /\ n \in Nat /\ poll'.idvCastCount = poll.idvCastCount + n
            /\ poll'.sealedCount = poll.sealedCount
            /\ UNCHANGED <<rescissions, restores>>
        BY <2>2, FlushFacts
      <3>2. RollingAttestation(m)
        BY <2>2 DEF ExecuteBatchFlush
      <3> HIDE DEF n
      <3>3. CASE m < RollingThreshold
        <4>1. submissionCount' = m /\ checkpoints' = checkpoints
          BY <3>2, <3>3 DEF RollingAttestation
        <4> QED
          BY <1>0, <1>1, <2>0, <3>1, <3>3, <4>1 DEF RollingAccounting
      <3>4. CASE ~ (m < RollingThreshold) /\ CountsMatch(voteDirections', voterRegistry')
        <4> DEFINE q == m \div RollingThreshold
                   r == m % RollingThreshold
        <4>1. submissionCount' = r /\ checkpoints' = checkpoints + q
          BY <3>2, <3>4 DEF RollingAttestation
        <4>2. /\ q \in Nat /\ r \in Nat /\ r < RollingThreshold
              /\ m = q * RollingThreshold + r
          <5>1. m \in Nat
            BY <1>0, <3>1
          <5> HIDE DEF m
          <5> QED
            BY <1>0, <5>1, DivMod
        <4> HIDE DEF q, r
        <4>3. checkpoints' * RollingThreshold =
                 checkpoints * RollingThreshold + q * RollingThreshold
          BY <1>0, <4>1, <4>2
        <4>4. q * RollingThreshold \in Nat
          BY <1>0, <4>2
        <4>5. checkpoints' * RollingThreshold + submissionCount' =
                 checkpoints * RollingThreshold + submissionCount + n
          BY <1>0, <3>1, <4>1, <4>2, <4>3, <4>4
        <4>6. /\ checkpoints' * RollingThreshold + submissionCount' <= poll'.idvCastCount
              /\ poll'.sealedCount = 0 /\ rescissions' = {} /\ restores' = {}
                 /\ ~ rewritten' =>
                   poll'.idvCastCount =
                      checkpoints' * RollingThreshold + submissionCount'
          BY <1>0, <1>1, <2>0, <3>1, <4>5
        <4>7. submissionCount' < RollingThreshold
          BY <4>1, <4>2
        <4> QED
          BY <4>6, <4>7 DEF RollingAccounting
      <3>5. CASE ~ (m < RollingThreshold) /\ ~ CountsMatch(voteDirections', voterRegistry')
        <4>1. submissionCount' = m - RollingThreshold /\ checkpoints' = checkpoints
          BY <3>2, <3>5 DEF RollingAttestation
        <4>2. ~ (poll'.sealedCount = 0 /\ restores' = {} /\ ~ rewritten')
          <5> SUFFICES ASSUME poll'.sealedCount = 0, restores' = {}, ~ rewritten'
                       PROVE  FALSE
            OBVIOUS
          <5>1. Sealed(voteDirections') \in SUBSET Ballots
            BY DEF Sealed, L1
          <5>2. Cardinality(Sealed(voteDirections')) = 0
            BY <5>1, BallotSets DEF CountersAccount, Sealed
          <5>3. Sealed(voteDirections') = {}
            BY <5>1, <5>2, BallotSets, FS_EmptySet
          <5>4. Counted(voteDirections') = L1(voteDirections')
            BY <5>3 DEF Sealed, Counted
          <5>5. Cardinality(L1(voteDirections')) = Cardinality(voterRegistry')
            BY DEF CountMatch
          <5> QED
            BY <3>5, <5>4, <5>5 DEF CountsMatch
        <4> QED
          BY <1>0, <1>1, <3>1, <4>1, <4>2 DEF RollingAccounting
      <3> QED
        BY <3>3, <3>4, <3>5
    <2>3. CASE t \in UpdateBallotTxs /\ ValidateBallotUpdate(t)
               /\ ExecuteBallotUpdate(t)
      BY <1>2, <2>0, <2>3, UpdateFacts
    <2>4. CASE t \in ConfirmReceiptTxs /\ ExecuteConfirmReceipt(t)
      <3>1. poll'.idvCastCount = poll.idvCastCount /\ poll'.sealedCount = poll.sealedCount
        BY <1>0, <2>4 DEF ExecuteConfirmReceipt, PollRecords
      <3> QED
        BY <1>2, <2>0, <2>4, <3>1 DEF ExecuteConfirmReceipt, rolling
    <2>5. CASE t \in PollCloseTxs /\ ExecutePollClose(t)
      <3>1. poll'.idvCastCount = poll.idvCastCount /\ poll'.sealedCount = poll.sealedCount
        BY <1>0, <2>5, CloseFacts DEF PollRecords
      <3> QED
        BY <1>2, <2>0, <2>5, <3>1 DEF ExecutePollClose, audit, rolling
    <2>6. CASE t \in ResealVoteTxs /\ ValidateResealVote(t) /\ ExecuteResealVote(t)
      <3>1. poll'.idvCastCount = poll.idvCastCount
            /\ poll'.sealedCount = poll.sealedCount + 1
        <4>1. poll' = [poll EXCEPT !.sealedCount = @ + 1]
          BY <2>6, ResealFacts
        <4> QED
          BY <1>0, <4>1 DEF PollRecords
      <3>2. poll'.sealedCount # 0
        BY <1>0, <3>1
      <3> QED
        BY <1>2, <2>0, <2>6, <3>1, <3>2, ResealFacts
    <2>7. CASE t \in AuthorityRescindTxs /\ ValidateAuthorityRescind(t)
               /\ ExecuteAuthorityRescind(t)
      BY <1>2, <2>0, <2>7, RescindFacts
    <2>8. CASE t \in AuthorityRestoreTxs /\ ExecuteAuthorityRestore(t)
      BY <1>2, <2>0, <2>8 DEF ExecuteAuthorityRestore, rolling
    <2> QED
      BY <1>4, <2>1, <2>2, <2>3, <2>4, <2>5, <2>6, <2>7, <2>8, ApplyCases
  <1> QED
    BY <1>3, <1>4 DEF Next

\* Attested and pending submissions never exceed the casts; as long as no
\* ballot was sealed, rescinded, restored or written over none is missing,
\* whatever the sizes of the batches and the threshold.
THEOREM RollingAccounted == Spec => []RollingAccounting
  <1>1. Init => PollInv /\ RollingAccounting
    <2> SUFFICES ASSUME Init PROVE PollInv /\ RollingAccounting
      OBVIOUS
    <2>1. poll.idvCastCount = 0 /\ submissionCount = 0 /\ checkpoints = 0
      BY DEF Init, NoPoll
    <2>2. RollingAccounting
      BY <2>1, BoundAssumption DEF RollingAccounting
    <2> QED
      BY <2>2, PollInvInit
  <1>2. TypeOK /\ PollInv /\ RollingAccounting /\ CountMatch'
        /\ CountersAccount' /\ [Next]_vars => RollingAccounting'
    <2>1. AttestationMode # "rolling" => RollingAccounting'
      BY DEF RollingAccounting
    <2> QED
      BY <2>1, RollingNext
  <1> QED
    BY <1>1, <1>2, TypeCorrect, PollInvAlways, CountsAlwaysMatch,
       CountersAlwaysAccount, PTL DEF Spec

-----------------------------------------------------------------------------
(* The published tally                                                      *)

\* What a rescission gives back is what the ballot contributed: the two loops
\* treat plurality differently, but a plurality ballot has one choice.
LEMMA GivesBackContribution ==
    ASSUME NEW m \in Methods, NEW c, NEW o, m = "plurality" => Len(c) = 1
    PROVE  GivesBack(m, c, o) <=> Contributes(m, c, o)
  <1>1. CASE m = "plurality"
    <2>0. Len(c) = 1
      BY <1>1
    <2>1. \A i : i \in 1..Len(c) <=> i = 1
      BY <2>0
    <2>2. GivesBack(m, c, o) <=> \E i \in 1..Len(c) : c[i] = o
      BY <1>1 DEF GivesBack
    <2>3. Contributes(m, c, o) <=> c[1] = o
      BY <1>1 DEF Contributes
    <2> QED
      BY <2>1, <2>2, <2>3
  <1>2. CASE m # "plurality"
    BY <1>2 DEF Methods, GivesBack, Contributes
  <1> QED
    BY <1>1, <1>2

\* The counts after one counted ballot has left List 1.
LEMMA CountsWithout ==
    ASSUME NEW m, NEW v1, NEW v2, NEW x \in Counted(v1),
           Counted(v2) = Counted(v1) \ {x},
           \A b \in Counted(v2) : v2[b] = v1[b]
    PROVE  \A o \in Options :
              TallyCounts(m, v2)[o] =
                 IF Contributes(m, v1[x].choices, o)
                 THEN TallyCounts(m, v1)[o] - 1 ELSE TallyCounts(m, v1)[o]
  <1> SUFFICES ASSUME NEW o \in Options
               PROVE  TallyCounts(m, v2)[o] =
                         IF Contributes(m, v1[x].choices, o)
                         THEN TallyCounts(m, v1)[o] - 1 ELSE TallyCounts(m, v1)[o]
    OBVIOUS
  <1> DEFINE S == {b \in Counted(v1) : Contributes(m, v1[b].choices, o)}
             T == {b \in Counted(v2) : Contributes(m, v2[b].choices, o)}
  <1>1. TallyCounts(m, v1)[o] = Cardinality(S) /\ TallyCounts(m, v2)[o] = Cardinality(T)
    BY DEF TallyCounts
  <1>2. T = S \ {x}
    OBVIOUS
  <1>3. x \in S <=> Contributes(m, v1[x].choices, o)
    OBVIOUS
  <1>4. S \in SUBSET Ballots
    BY DEF Counted, L1
  <1> HIDE DEF S, T
  <1>5. Cardinality(T) = IF x \in S THEN Cardinality(S) - 1 ELSE Cardinality(S)
    BY <1>2, <1>4, BallotSets, FS_RemoveElement
  <1> QED
    BY <1>1, <1>3, <1>5

\* Every step keeps the published tally in step with the lists.
LEMMA TallyNext ==
    ASSUME TypeOK, PollInv, PollInv', CountMatch', TallyFaithful, [Next]_vars
    PROVE  TallyFaithful'
  <1> SUFFICES ASSUME tally' # None, restores' = {}, ~ rewritten'
               PROVE  /\ tally'.total = Cardinality(L1(voteDirections'))
                      /\ tally'.counts = TallyCounts(poll'.method, voteDirections')
    BY DEF TallyFaithful, CountMatch
  <1>0. poll \in PollRecords
    BY DEF TypeOK
  <1>1. ASSUME tally # None, tally'.total = tally.total,
               tally'.counts = tally.counts, poll'.method = poll.method,
               voteDirections' = voteDirections, restores = {}, ~ rewritten
        PROVE  /\ tally'.total = Cardinality(L1(voteDirections'))
               /\ tally'.counts = TallyCounts(poll'.method, voteDirections')
    BY <1>1 DEF TallyFaithful
  <1>2. CASE Tick \/ UNCHANGED vars
    BY <1>1, <1>2 DEF Tick, vars, stateVars, marks
  <1>3. ASSUME NEW t \in Txs, Apply(t)
        PROVE  /\ tally'.total = Cardinality(L1(voteDirections'))
               /\ tally'.counts = TallyCounts(poll'.method, voteDirections')
    <2>0. ~ rewritten
      BY <1>3 DEF Apply, Remember
    <2>1. CASE t \in PollCreateTxs /\ ValidatePollCreate(t) /\ ExecutePollCreate(t)
      BY <2>1 DEF ValidatePollCreate, ExecutePollCreate, PollInv
    <2>2. CASE t \in BatchFlushTxs /\ ValidateBatchFlush(t)
               /\ ExecuteBatchFlush(t, Opened)
      BY <2>2, FlushFacts DEF PollInv
    <2>3. CASE t \in UpdateBallotTxs /\ ValidateBallotUpdate(t)
               /\ ExecuteBallotUpdate(t)
      BY <2>3, UpdateFacts DEF PollInv
    <2>4. CASE t \in ConfirmReceiptTxs /\ ExecuteConfirmReceipt(t)
      <3>1. tally # None /\ tally'.total = tally.total /\ tally'.counts = tally.counts
        BY <2>4 DEF ExecuteConfirmReceipt, TypeOK, Tallies
      <3>2. poll'.method = poll.method
        BY <1>0, <2>4 DEF ExecuteConfirmReceipt, PollRecords
      <3> QED
        BY <1>1, <2>0, <2>4, <3>1, <3>2 DEF ExecuteConfirmReceipt, lists
    <2>5. CASE t \in PollCloseTxs /\ ValidatePollClose(t) /\ ExecutePollClose(t)
      <3>1. voteDirections' = voteDirections
        BY <2>5 DEF ExecutePollClose, lists
      <3>2. /\ tally'.counts = TallyCounts(poll.method, voteDirections)
            /\ tally'.total = Cardinality(Counted(voteDirections))
            /\ poll' = [poll EXCEPT !.status = "closed"]
        BY <2>5, CloseFacts DEF ValidatePollClose
      <3>3. poll'.method = poll.method
        BY <1>0, <3>2 DEF PollRecords
      <3>4. Counted(voteDirections') = L1(voteDirections')
        BY DEF PollInv
      <3> QED
        BY <3>1, <3>2, <3>3, <3>4
    <2>6. CASE t \in ResealVoteTxs /\ ValidateResealVote(t) /\ ExecuteResealVote(t)
      BY <2>6, ResealFacts DEF PollInv
    <2>7. CASE t \in AuthorityRescindTxs /\ ValidateAuthorityRescind(t)
               /\ ExecuteAuthorityRescind(t)
      <3> DEFINE x == t.ballot
                 c == voteDirections[x].choices
      <3>1. tally # None /\ restores = {} /\ poll'.method = poll.method
        BY <2>7, RescindFacts
      <3>2. /\ tally.total = Cardinality(L1(voteDirections)) /\ tally \in Tallies
            /\ tally.counts = TallyCounts(poll.method, voteDirections)
            /\ Counted(voteDirections) = L1(voteDirections)
            /\ Counted(voteDirections') = L1(voteDirections')
        BY <2>0, <3>1 DEF TallyFaithful, PollInv, TypeOK
      <3>3. /\ x \in L1(voteDirections)
            /\ L1(voteDirections') = L1(voteDirections) \ {x}
            /\ \A b \in L1(voteDirections') : voteDirections'[b] = voteDirections[b]
        BY <2>7, RescindFacts
      <3>4. tally'.total = Cardinality(L1(voteDirections'))
        <4>1. IsFiniteSet(L1(voteDirections)) /\ Cardinality(L1(voteDirections)) \in Nat
          BY BallotSets DEF L1
        <4>2. Cardinality(L1(voteDirections) \ {x}) = Cardinality(L1(voteDirections)) - 1
          BY <3>3, <4>1, FS_RemoveElement
        <4> QED
          BY <2>7, <3>1, <3>2, <3>3, <4>2, RescindedTallyFacts
      <3>5. \A o \in Options :
               TallyCounts(poll.method, voteDirections')[o] =
                  IF Contributes(poll.method, c, o)
                  THEN tally.counts[o] - 1 ELSE tally.counts[o]
        BY <3>2, <3>3, CountsWithout
      <3>6. \A o \in Options :
               GivesBack(poll.method, c, o) <=> Contributes(poll.method, c, o)
        <4>1. poll.method = "plurality" => Len(c) = 1
          BY <3>3 DEF PollInv
        <4>2. poll.method \in Methods
          BY <1>0 DEF PollRecords
        <4> HIDE DEF c
        <4> QED
          BY <4>1, <4>2, GivesBackContribution
      <3>7. tally'.counts = [o \in Options |->
                               IF GivesBack(poll.method, c, o)
                               THEN tally.counts[o] - 1 ELSE tally.counts[o]]
        BY <2>7, <3>1, RescindedTallyFacts
      <3> HIDE DEF c, x
      <3>8. tally'.counts = TallyCounts(poll.method, voteDirections')
        <4>1. TallyCounts(poll.method, voteDirections') \in [Options -> Int]
          BY CountsType
        <4> QED
          BY <3>5, <3>6, <3>7, <4>1
      <3> QED
        BY <3>1, <3>4, <3>8
    <2>8. CASE t \in AuthorityRestoreTxs /\ ExecuteAuthorityRestore(t)
      BY <2>8 DEF ExecuteAuthorityRestore
    <2> QED
      BY <1>3, <2>1, <2>2, <2>3, <2>4, <2>5, <2>6, <2>7, <2>8, ApplyCases
  <1> QED
    BY <1>2, <1>3 DEF Next

\* A published tally describes the lists for good: rescissions after the close
\* take exactly the rescinded ballot out of the total and of the counts, for
\* every voting method, as long as no restore was granted and no ballot
\* written over another one.
THEOREM TallyStaysFaithful == Spec => []TallyFaithful
  <1>1. Init => TallyFaithful
    BY DEF Init, TallyFaithful
  <1>2. TypeOK /\ PollInv /\ PollInv' /\ CountMatch' /\ TallyFaithful /\ [Next]_vars
           => TallyFaithful'
    BY TallyNext
  <1> QED
    BY <1>1, <1>2, TypeCorrect, PollInvAlways, CountsAlwaysMatch, PTL DEF Spec

-----------------------------------------------------------------------------
(* The refinement of the ballot box                                         *)

\* The refinement mapping, by name.
Phase == IF poll.status = "pending" THEN "open" ELSE poll.status
Papers == [v \in Voters |-> PaperOf(v)]
Published == IF tally = None THEN None ELSE tally.counts

\* PaperOf, for given lists.
PaperIn(votes, registry, v) ==
    IF v \in registry THEN votes[CHOOSE b \in Own(votes, v) : TRUE].choices
    ELSE None

\* The paper of a linked voter is what their one ballot says.
LEMMA PaperIs ==
    ASSUME NEW votes, NEW registry, NEW v, LinkedIn(votes, registry, v),
           NEW b \in Own(votes, v)
    PROVE  v \in registry /\ PaperIn(votes, registry, v) = votes[b].choices
  <1>1. (CHOOSE c \in Own(votes, v) : TRUE) \in Own(votes, v)
    OBVIOUS
  <1> QED
    BY <1>1 DEF LinkedIn, PaperIn

\* A linked voter has a paper exactly when registered.
LEMMA PaperType ==
    ASSUME NEW votes \in [Ballots -> VoteRecords \cup {None}], NEW registry, NEW v,
           LinkedIn(votes, registry, v)
    PROVE  /\ v \in registry => PaperIn(votes, registry, v) \in ChoiceLists
           /\ v \in registry => PaperIn(votes, registry, v) # None
           /\ v \notin registry => PaperIn(votes, registry, v) = None
  <1>1. CASE v \in registry
    <2>1. PICK b \in Own(votes, v) : TRUE
      BY <1>1 DEF LinkedIn
    <2>2. votes[b] \in VoteRecords
      BY <2>1 DEF Own, L1
    <2>3. votes[b].choices \in ChoiceLists
      BY <2>2 DEF VoteRecords
    <2> QED
      BY <1>1, <2>1, <2>3, PaperIs, NoneAssumption
  <1>2. CASE v \notin registry
    BY <1>2 DEF PaperIn
  <1> QED
    BY <1>1, <1>2

\* A voter whose ballot keeps its choices keeps the paper.
LEMMA PaperKept ==
    ASSUME NEW votes1, NEW registry1, NEW votes2, NEW registry2, NEW v,
           LinkedIn(votes1, registry1, v), LinkedIn(votes2, registry2, v),
           v \in registry1 <=> v \in registry2,
           \A b \in Own(votes1, v) :
              b \in Own(votes2, v) /\ votes2[b].choices = votes1[b].choices
    PROVE  PaperIn(votes2, registry2, v) = PaperIn(votes1, registry1, v)
  <1>1. CASE v \in registry1
    <2>1. PICK b \in Own(votes1, v) : TRUE
      BY <1>1 DEF LinkedIn
    <2>2. PaperIn(votes1, registry1, v) = votes1[b].choices
      BY <2>1, PaperIs
    <2>3. PaperIn(votes2, registry2, v) = votes2[b].choices
      BY <2>1, PaperIs
    <2> QED
      BY <2>1, <2>2, <2>3
  <1>2. CASE v \notin registry1
    BY <1>2 DEF PaperIn
  <1> QED
    BY <1>1, <1>2

\* Counting papers is counting ballots when no ballot is sealed.
LEMMA PapersCounted ==
    ASSUME NEW votes \in [Ballots -> VoteRecords \cup {None}],
           NEW registry \in SUBSET Voters, NEW m,
           \A v \in Voters : LinkedIn(votes, registry, v),
           Counted(votes) = L1(votes)
    PROVE  Box!Counts(m, [v \in Voters |-> PaperIn(votes, registry, v)])
              = TallyCounts(m, votes)
  <1> DEFINE papers == [v \in Voters |-> PaperIn(votes, registry, v)]
             S(o) == {v \in Voters :
                        /\ papers[v] # None
                        /\ IF m = "approval"
                           THEN \E i \in 1..Len(papers[v]) : papers[v][i] = o
                           ELSE papers[v][1] = o}
             T(o) == {b \in Counted(votes) : Contributes(m, votes[b].choices, o)}
  <1>1. ASSUME NEW o \in Options PROVE Cardinality(S(o)) = Cardinality(T(o))
    <2> DEFINE f == [b \in T(o) |-> Owner[b]]
    <2>1. \A v \in Voters : papers[v] # None => v \in registry
      BY PaperType
    <2>2. ASSUME NEW b \in L1(votes)
          PROVE  /\ Owner[b] \in Voters /\ papers[Owner[b]] = votes[b].choices
                 /\ papers[Owner[b]] # None
      <3>1. b \in Ballots /\ Owner[b] \in Voters /\ b \in Own(votes, Owner[b])
        BY <2>2, OwnerAssumption DEF L1, Own
      <3>2. Owner[b] \in registry
            /\ PaperIn(votes, registry, Owner[b]) = votes[b].choices
        BY <3>1, PaperIs
      <3> QED
        BY <3>1, <3>2, PaperType
    <2>3. ASSUME NEW b \in T(o) PROVE Owner[b] \in S(o)
      <3>1. b \in L1(votes) /\ Contributes(m, votes[b].choices, o)
        BY <2>3
      <3> HIDE DEF papers
      <3> QED
        BY <2>2, <3>1 DEF Contributes
    <2>4. f \in [T(o) -> S(o)]
      BY <2>3
    <2>5. ASSUME NEW a \in T(o), NEW b \in T(o), f[a] = f[b] PROVE a = b
      <3>1. a \in L1(votes) /\ b \in L1(votes) /\ Owner[a] = Owner[b]
        BY <2>5
      <3>2. Owner[a] \in Voters
        BY <2>2, <3>1
      <3> QED
        BY <3>1, <3>2 DEF LinkedIn, Own
    <2>6. ASSUME NEW v \in S(o) PROVE \E b \in T(o) : f[b] = v
      <3>1. v \in Voters /\ v \in registry
        BY <2>1, <2>6
      <3>2. PICK b \in Own(votes, v) : TRUE
        BY <3>1 DEF LinkedIn
      <3>3. b \in L1(votes) /\ Owner[b] = v
        BY <3>2 DEF Own
      <3>4. papers[v] = votes[b].choices
        BY <2>2, <3>3
      <3>5. Contributes(m, votes[b].choices, o)
        <4> HIDE DEF papers
        <4> QED
          BY <2>6, <3>4 DEF Contributes
      <3>6. b \in T(o)
        BY <3>3, <3>5
      <3> QED
        BY <3>3, <3>6
    <2>7. T(o) \in SUBSET Ballots
      BY DEF Counted, L1
    <2> HIDE DEF f, S, T
    <2>8. f \in Bijection(T(o), S(o))
      BY <2>4, <2>5, <2>6 DEF Bijection, Injection, Surjection, IsInjective
    <2> QED
      BY <2>7, <2>8, BallotSets, FS_Bijection DEF ExistsBijection
  <1>2. Box!Counts(m, papers) = [o \in Options |-> Cardinality(S(o))]
    BY DEF Box!Counts, Box!Cardinality, Cardinality
  <1>3. TallyCounts(m, votes) = [o \in Options |-> Cardinality(T(o))]
    BY DEF TallyCounts
  <1> HIDE DEF S, T, papers
  <1> QED
    BY <1>1, <1>2, <1>3 DEF papers

\* The state of the ballot box before and after a step, in terms of the lists.
LEMMA Mapped ==
    ASSUME TypeOK, TypeOK', OneBallotPerVoter, OneBallotPerVoter'
    PROVE  /\ \A v \in Voters \ Spoilt :
                 /\ LinkedIn(voteDirections, voterRegistry, v)
                 /\ Papers[v] = PaperIn(voteDirections, voterRegistry, v)
           /\ \A v \in Voters \ Spoilt' :
                 /\ LinkedIn(voteDirections', voterRegistry', v)
                 /\ Papers'[v] = PaperIn(voteDirections', voterRegistry', v)
           /\ \A v \in Voters : v \in Spoilt => Papers[v] = None
           /\ \A v \in Voters : v \in Spoilt' => Papers'[v] = None
           /\ Papers = [v \in Voters |-> Papers[v]]
           /\ Papers' = [v \in Voters |-> Papers'[v]]
  <1>1. \A v \in Voters \ Spoilt : LinkedIn(voteDirections, voterRegistry, v)
    BY DEF OneBallotPerVoter, Linked, LinkedIn, BallotsOf, Own, Spoilt
  <1>2. \A v \in Voters \ Spoilt' : LinkedIn(voteDirections', voterRegistry', v)
    BY DEF OneBallotPerVoter, Linked, LinkedIn, BallotsOf, Own, Spoilt
  <1>3. \A v \in Voters \ Spoilt :
           Papers[v] = PaperIn(voteDirections, voterRegistry, v)
    BY DEF Papers, PaperOf, PaperIn, BallotsOf, Own
  <1>4. \A v \in Voters \ Spoilt' :
           Papers'[v] = PaperIn(voteDirections', voterRegistry', v)
    BY DEF Papers, PaperOf, PaperIn, BallotsOf, Own
  <1>5. /\ \A v \in Voters : v \in Spoilt => Papers[v] = None
        /\ \A v \in Voters : v \in Spoilt' => Papers'[v] = None
    BY DEF Papers, PaperOf
  <1>6. /\ Papers = [v \in Voters |-> Papers[v]]
        /\ Papers' = [v \in Voters |-> Papers'[v]]
    BY DEF Papers
  <1> QED
    BY <1>1, <1>2, <1>3, <1>4, <1>5, <1>6

\* A voter whose registration and ballots a step leaves alone keeps the paper.
LEMMA PaperSame ==
    ASSUME TypeOK, TypeOK', OneBallotPerVoter, OneBallotPerVoter',
           NEW v \in Voters, v \in Spoilt' <=> v \in Spoilt,
           v \notin Spoilt =>
              /\ v \in voterRegistry <=> v \in voterRegistry'
              /\ \A b \in Own(voteDirections, v) :
                    /\ b \in Own(voteDirections', v)
                    /\ voteDirections'[b].choices = voteDirections[b].choices
    PROVE  Papers'[v] = Papers[v]
  <1>1. CASE v \in Spoilt
    BY <1>1, Mapped
  <1>2. CASE v \notin Spoilt
    <2>1. /\ LinkedIn(voteDirections, voterRegistry, v)
          /\ LinkedIn(voteDirections', voterRegistry', v)
          /\ Papers[v] = PaperIn(voteDirections, voterRegistry, v)
          /\ Papers'[v] = PaperIn(voteDirections', voterRegistry', v)
      BY <1>2, Mapped
    <2> QED
      BY <1>2, <2>1, PaperKept
  <1> QED
    BY <1>1, <1>2

\* An unspoilt voter has a paper exactly when registered.
LEMMA PaperOfRegistered ==
    ASSUME TypeOK, TypeOK', OneBallotPerVoter, OneBallotPerVoter'
    PROVE  /\ \A v \in Voters \ Spoilt :
                 Papers[v] # None <=> v \in voterRegistry
           /\ \A v \in Voters \ Spoilt' : v \in voterRegistry' =>
                 Papers'[v] \in ChoiceLists
  <1>1. /\ voteDirections \in [Ballots -> VoteRecords \cup {None}]
        /\ voteDirections' \in [Ballots -> VoteRecords \cup {None}]
    BY DEF TypeOK
  <1> QED
    BY <1>1, Mapped, PaperType

\* A flush deposits one paper for each unspoilt identity of the batch.
LEMMA FlushDeposits ==
    ASSUME TypeOK, TypeOK', OneBallotPerVoter, OneBallotPerVoter',
           NEW t \in BatchFlushTxs, ValidateBatchFlush(t),
           ExecuteBatchFlush(t, Opened), Spoilt' = Spoilt
    PROVE  \E vs \in SUBSET {v \in Voters \ Spoilt : Papers[v] = None} :
              \E papers \in [vs -> ChoiceLists] :
                 Papers' = [v \in Voters |-> IF v \in vs THEN papers[v] ELSE Papers[v]]
  <1> DEFINE owners == {Owner[s.ballot] : s \in t.submissions}
             vs == owners \ Spoilt
             papers == [v \in vs |-> Papers'[v]]
  <1>1. /\ \A s \in t.submissions :
              s.ballot \in Ballots /\ s.choices \in ChoiceLists
        /\ \A b \in Ballots :
              \/ /\ \A s \in t.submissions : s.ballot # b
                 /\ voteDirections'[b] = voteDirections[b]
              \/ \E s \in t.submissions :
                   /\ s.ballot = b
                   /\ voteDirections'[b] = [choices |-> s.choices,
                                            sealed |-> FALSE, keyed |-> TRUE]
    BY FlushFacts
  <1>2. voterRegistry' = voterRegistry \cup owners
    BY DEF ExecuteBatchFlush
  <1>3. \A v \in vs : v \in Voters /\ v \notin voterRegistry
    BY <1>1, Owners
       DEF ValidateBatchFlush, ValidateBallotCast, HasRestoreGrant, Spoilt
  <1>4. vs \in SUBSET {v \in Voters \ Spoilt : Papers[v] = None}
    BY <1>3, PaperOfRegistered
  <1>5. papers \in [vs -> ChoiceLists]
    <2> SUFFICES ASSUME NEW v \in vs PROVE Papers'[v] \in ChoiceLists
      OBVIOUS
    <2>1. v \in Voters \ Spoilt' /\ v \in voterRegistry'
      BY <1>2, <1>3
    <2> QED
      BY <2>1, PaperOfRegistered
  <1>6. ASSUME NEW v \in Voters, v \notin vs PROVE Papers'[v] = Papers[v]
    <2>1. ASSUME v \notin Spoilt
          PROVE  /\ v \in voterRegistry <=> v \in voterRegistry'
                 /\ \A b \in Own(voteDirections, v) :
                       /\ b \in Own(voteDirections', v)
                       /\ voteDirections'[b].choices = voteDirections[b].choices
      <3>1. v \in voterRegistry <=> v \in voterRegistry'
        BY <1>2, <1>6, <2>1
      <3>2. ASSUME NEW b \in Own(voteDirections, v)
            PROVE  /\ b \in Own(voteDirections', v)
                   /\ voteDirections'[b] = voteDirections[b]
        <4>1. b \in Ballots /\ voteDirections[b] # None /\ Owner[b] = v
          BY DEF Own, L1
        <4>2. \A s \in t.submissions : s.ballot # b
          BY <1>6, <2>1, <4>1
        <4>3. voteDirections'[b] = voteDirections[b]
          BY <1>1, <4>1, <4>2
        <4> QED
          BY <4>1, <4>3 DEF Own, L1
      <3> QED
        BY <3>1, <3>2
    <2> QED
      BY <2>1, PaperSame
  <1>7. Papers' = [v \in Voters |-> IF v \in vs THEN papers[v] ELSE Papers[v]]
    <2>1. Papers' = [v \in Voters |-> Papers'[v]]
      BY DEF Papers
    <2> HIDE DEF vs
    <2> QED
      BY <1>6, <2>1
  <1> QED
    BY <1>4, <1>5, <1>7

\* When a voter's ballot leaves List 1 with the registration, and nothing
\* else changes, exactly that paper leaves the box.
LEMMA PaperTakenOut ==
    ASSUME TypeOK, TypeOK', OneBallotPerVoter, OneBallotPerVoter',
           Spoilt' = Spoilt, NEW x \in L1(voteDirections),
           L1(voteDirections') = L1(voteDirections) \ {x},
           \A b \in L1(voteDirections') : voteDirections'[b] = voteDirections[b],
           voterRegistry' = voterRegistry \ {Owner[x]}
    PROVE  /\ Owner[x] \in Voters
           /\ Owner[x] \in Spoilt => Papers' = Papers
           /\ Owner[x] \notin Spoilt => /\ Papers[Owner[x]] # None
                                        /\ Papers' = [Papers EXCEPT ![Owner[x]] = None]
  <1>1. x \in Ballots /\ Owner[x] \in Voters /\ x \in Own(voteDirections, Owner[x])
    BY Owners DEF L1, Own
  <1>2. ASSUME NEW v \in Voters, v # Owner[x] \/ v \in Spoilt
        PROVE  Papers'[v] = Papers[v]
    <2>1. ASSUME v \notin Spoilt
          PROVE  /\ v \in voterRegistry <=> v \in voterRegistry'
                 /\ \A b \in Own(voteDirections, v) :
                       /\ b \in Own(voteDirections', v)
                       /\ voteDirections'[b].choices = voteDirections[b].choices
      BY <1>2, <2>1 DEF Own
    <2> QED
      BY <2>1, PaperSame
  <1>3. CASE Owner[x] \in Spoilt
    BY <1>1, <1>2, <1>3, Mapped
  <1>4. CASE Owner[x] \notin Spoilt
    <2>1. Owner[x] \in voterRegistry
      BY <1>1, <1>4, Mapped, PaperIs
    <2>2. Papers[Owner[x]] # None
      BY <1>1, <1>4, <2>1, PaperOfRegistered
    <2>3. Papers'[Owner[x]] = None
      BY <1>1, <1>4, Mapped DEF PaperIn
    <2> QED
      BY <1>1, <1>2, <1>4, <2>2, <2>3, Mapped
  <1> QED
    BY <1>1, <1>3, <1>4

\* An update takes or touches no paper but those of the submitter and of the
\* owner of the ballot it names.
LEMMA UpdateKeeps ==
    ASSUME TypeOK, TypeOK', OneBallotPerVoter, OneBallotPerVoter',
           NEW t \in UpdateBallotTxs, ValidateBallotUpdate(t),
           ExecuteBallotUpdate(t),
           NEW v \in Voters, v # t.voter, v # Owner[t.old],
           v \in Spoilt' <=> v \in Spoilt
    PROVE  Papers'[v] = Papers[v]
  <1>1. v \in voterRegistry <=> v \in voterRegistry'
    BY UpdateFacts
  <1>2. ASSUME NEW b \in Own(voteDirections, v)
        PROVE  /\ b \in Own(voteDirections', v)
               /\ voteDirections'[b].choices = voteDirections[b].choices
    <2>1. b \in Ballots /\ voteDirections[b] # None /\ Owner[b] = v /\ b # t.old
      BY DEF Own, L1
    <2>2. CASE t.choices = <<>>
      <3>1. voteDirections' = [voteDirections EXCEPT ![t.old] = None]
        BY <2>2, UpdateFacts
      <3>2. voteDirections'[b] = voteDirections[b]
        BY <2>1, <3>1 DEF TypeOK
      <3> QED
        BY <2>1, <3>2 DEF Own, L1
    <2>3. CASE t.choices # <<>>
      <3>1. /\ Owner[t.new] = t.voter
            /\ \A c \in Ballots \ {t.old, t.new} :
                  voteDirections'[c] = voteDirections[c]
        BY <2>3, UpdateFacts
      <3>2. voteDirections'[b] = voteDirections[b]
        BY <2>1, <3>1
      <3> QED
        BY <2>1, <3>2 DEF Own, L1
    <2> QED
      BY <2>2, <2>3
  <1> QED
    BY <1>1, <1>2, PaperSame

\* A direction change of an unspoilt voter replaces one paper.
LEMMA UpdateReplaces ==
    ASSUME TypeOK, TypeOK', OneBallotPerVoter, OneBallotPerVoter',
           NEW t \in UpdateBallotTxs, ValidateBallotUpdate(t),
           ExecuteBallotUpdate(t), t.choices # <<>>, t.voter = Owner[t.old],
           t.voter \notin Spoilt, Spoilt' = Spoilt
    PROVE  /\ t.voter \in Voters /\ Papers[t.voter] # None
           /\ t.choices \in ChoiceLists
           /\ Papers' = [Papers EXCEPT ![t.voter] = t.choices]
  <1>1. /\ t.voter \in voterRegistry /\ t.choices \in ChoiceLists
        /\ t.new \in Ballots /\ Owner[t.new] = t.voter
        /\ voteDirections'[t.new] = [choices |-> t.choices, sealed |-> FALSE,
                                     keyed |-> FALSE]
        /\ voteDirections'[t.new] # None
    BY UpdateFacts
  <1>2. t.voter \in Voters
    BY <1>1, Owners
  <1>3. Papers[t.voter] # None
    BY <1>1, <1>2, PaperOfRegistered
  <1>4. Papers'[t.voter] = t.choices
    <2>1. /\ LinkedIn(voteDirections', voterRegistry', t.voter)
          /\ Papers'[t.voter] = PaperIn(voteDirections', voterRegistry', t.voter)
      BY <1>2, Mapped
    <2>2. t.new \in Own(voteDirections', t.voter)
      BY <1>1 DEF Own, L1
    <2>3. PaperIn(voteDirections', voterRegistry', t.voter)
             = voteDirections'[t.new].choices
      BY <2>1, <2>2, PaperIs
    <2>4. voteDirections'[t.new].choices = t.choices
      BY <1>1
    <2> QED
      BY <2>1, <2>3, <2>4
  <1>5. \A v \in Voters : v # t.voter => Papers'[v] = Papers[v]
    BY UpdateKeeps
  <1> QED
    BY <1>1, <1>2, <1>3, <1>4, <1>5, Mapped

\* Sealing a ballot does not touch its paper.
LEMMA ResealKeeps ==
    ASSUME TypeOK, TypeOK', OneBallotPerVoter, OneBallotPerVoter',
           NEW t \in ResealVoteTxs, ValidateResealVote(t), ExecuteResealVote(t),
           Spoilt' = Spoilt
    PROVE  Papers' = Papers
  <1>1. ASSUME NEW v \in Voters PROVE Papers'[v] = Papers[v]
    <2>1. v \in voterRegistry <=> v \in voterRegistry'
      BY ResealFacts
    <2>2. \A b \in Own(voteDirections, v) :
             /\ b \in Own(voteDirections', v)
             /\ voteDirections'[b].choices = voteDirections[b].choices
      BY ResealFacts DEF Own, L1
    <2> QED
      BY <2>1, <2>2, PaperSame
  <1> QED
    BY <1>1, Mapped

\* A ballot is written over another one only when somebody is spoilt.
RewrittenInv == rewritten => Spoilt # {}

\* No voter ever ceases to be spoilt.
LEMMA SpoiltGrows ==
    ASSUME TypeOK, NEW t \in Txs, Apply(t)
    PROVE  /\ crossed' = crossed \cup Crossing(t)
           /\ t \in AuthorityRestoreTxs \/ restores' = restores
           /\ restores \subseteq restores'
  <1>1. crossed' = crossed \cup Crossing(t)
    BY DEF Apply, Remember
  <1>2. \/ t \in AuthorityRestoreTxs /\ ExecuteAuthorityRestore(t)
        \/ restores' = restores
    <2>1. CASE t \in PollCreateTxs /\ ExecutePollCreate(t)
      BY <2>1 DEF ExecutePollCreate, audit
    <2>2. CASE t \in BatchFlushTxs /\ ExecuteBatchFlush(t, Opened)
      BY <2>2 DEF ExecuteBatchFlush, audit
    <2>3. CASE t \in UpdateBallotTxs /\ ExecuteBallotUpdate(t)
      BY <2>3 DEF ExecuteBallotUpdate
    <2>4. CASE t \in ConfirmReceiptTxs /\ ExecuteConfirmReceipt(t)
      BY <2>4 DEF ExecuteConfirmReceipt
    <2>5. CASE t \in PollCloseTxs /\ ExecutePollClose(t)
      BY <2>5 DEF ExecutePollClose, audit
    <2>6. CASE t \in ResealVoteTxs /\ ExecuteResealVote(t)
      BY <2>6 DEF ExecuteResealVote, audit
    <2>7. CASE t \in AuthorityRescindTxs /\ ExecuteAuthorityRescind(t)
      BY <2>7 DEF ExecuteAuthorityRescind
    <2>8. CASE t \in AuthorityRestoreTxs /\ ExecuteAuthorityRestore(t)
      BY <2>8
    <2> QED
      BY <2>1, <2>2, <2>3, <2>4, <2>5, <2>6, <2>7, <2>8, ApplyCases
  <1> QED
    BY <1>1, <1>2 DEF ExecuteAuthorityRestore

\* Where nobody is spoilt, the link between the lists keeps flushes and
\* changes away from the IDs of other ballots.
LEMMA RewrittenNext ==
    ASSUME TypeOK, OneBallotPerVoter, RewrittenInv, [Next]_vars
    PROVE  RewrittenInv'
  <1>1. CASE Tick \/ UNCHANGED vars
    BY <1>1 DEF Tick, vars, stateVars, marks, RewrittenInv, Spoilt
  <1>2. ASSUME NEW t \in Txs, Apply(t), rewritten', Spoilt' = {} PROVE FALSE
    <2>1. Spoilt = {} /\ crossed' = {}
      BY <1>2, SpoiltGrows DEF Spoilt
    <2>2. Overwrites(t)
      BY <1>2, <2>1 DEF RewrittenInv, Apply, Remember
    <2>3. \A v \in Voters : Linked(v)
      BY <2>1 DEF OneBallotPerVoter, Spoilt
    <2>4. CASE t \in BatchFlushTxs /\ ValidateBatchFlush(t)
      <3>1. PICK s \in t.submissions : voteDirections[s.ballot] # None
        BY <2>2, <2>4 DEF Overwrites, BatchFlushTxs
      <3>2. s.ballot \in Ballots /\ Owner[s.ballot] \in Voters
        BY <2>4, Owners DEF BatchFlushTxs, Submissions
      <3>3. Owner[s.ballot] \in voterRegistry
        BY <2>3, <3>1, <3>2 DEF Linked, BallotsOf, L1
      <3> QED
        BY <2>1, <2>4, <3>3
           DEF ValidateBatchFlush, ValidateBallotCast, HasRestoreGrant, Spoilt
    <2>5. CASE t \in UpdateBallotTxs /\ ValidateBallotUpdate(t)
               /\ ExecuteBallotUpdate(t)
      <3>1. /\ t.type = "UpdateBallot" /\ t.choices # <<>> /\ t.new # t.old
            /\ voteDirections[t.new] # None
        BY <2>2, <2>5, UpdateFacts DEF Overwrites
      <3>2. /\ t.old \in L1(voteDirections) /\ t.new \in Ballots
            /\ Owner[t.new] = t.voter
        BY <2>5, <3>1, UpdateFacts
      <3>3. t.voter = Owner[t.old]
        BY <1>2, <2>1, <3>1, SpoiltGrows DEF Crossing
      <3>4. t.voter \in Voters /\ t.old \in BallotsOf(t.voter)
            /\ t.new \in BallotsOf(t.voter)
        BY <3>1, <3>2, <3>3, Owners DEF BallotsOf, L1
      <3> QED
        BY <2>3, <3>1, <3>4 DEF Linked
    <2>6. t \in BatchFlushTxs \/ t \in UpdateBallotTxs
      <3>1. t.type \in {"BatchFlush", "UpdateBallot"}
        BY <2>2 DEF Overwrites
      <3> QED
        BY <3>1 DEF Txs, PollCreateTxs, ConfirmReceiptTxs, PollCloseTxs,
                    ResealVoteTxs, AuthorityRescindTxs, AuthorityRestoreTxs
    <2>7. /\ t \in BatchFlushTxs => t.type = "BatchFlush"
          /\ t \in UpdateBallotTxs => t.type = "UpdateBallot"
      BY DEF BatchFlushTxs, UpdateBallotTxs, ChangeTxs, WithdrawTxs
    <2> QED
      BY <1>2, <2>4, <2>5, <2>6, <2>7 DEF Apply, ValidateTx, ExecuteTx
  <1> QED
    BY <1>1, <1>2 DEF Next, RewrittenInv

\* The result is a count for every option and, where nobody is spoilt, the
\* count of the papers in the box.
PublishedInv ==
    tally # None =>
        /\ Published \in [Options -> Int]
        /\ Spoilt = {} => Published = Box!Counts(poll.method, Papers)

\* A published tally holds the counts of the papers in the box.
LEMMA PublishedCounts ==
    ASSUME TypeOK, OneBallotPerVoter, PollInv, TallyFaithful, RewrittenInv
    PROVE  PublishedInv
  <1> SUFFICES ASSUME tally # None
               PROVE  /\ Published \in [Options -> Int]
                      /\ Spoilt = {} => Published = Box!Counts(poll.method, Papers)
    BY DEF PublishedInv
  <1>1. Published \in [Options -> Int]
    BY DEF Published, TypeOK, Tallies
  <1>2. ASSUME Spoilt = {} PROVE Published = Box!Counts(poll.method, Papers)
    <2>1. restores = {} /\ ~ rewritten
      BY <1>2 DEF Spoilt, RewrittenInv
    <2>2. \A v \in Voters : LinkedIn(voteDirections, voterRegistry, v)
      BY <1>2 DEF OneBallotPerVoter, Linked, LinkedIn, BallotsOf, Own, Spoilt
    <2>3. Papers = [v \in Voters |-> PaperIn(voteDirections, voterRegistry, v)]
      BY <1>2 DEF Papers, PaperOf, PaperIn, BallotsOf, Own
    <2>4. Counted(voteDirections) = L1(voteDirections)
      BY <2>1 DEF PollInv
    <2>5. /\ voteDirections \in [Ballots -> VoteRecords \cup {None}]
          /\ voterRegistry \in SUBSET Voters
      BY DEF TypeOK
    <2>6. Box!Counts(poll.method, Papers) = TallyCounts(poll.method, voteDirections)
      BY <2>2, <2>3, <2>4, <2>5, PapersCounted
    <2> QED
      BY <2>1, <2>6 DEF TallyFaithful, Published
  <1> QED
    BY <1>1, <1>2

\* Every step of the two-list state machine is a step of the ballot box.
LEMMA BoxStep ==
    ASSUME TypeOK, TypeOK', OneBallotPerVoter, OneBallotPerVoter', PollInv,
           PollInv', PublishedInv', [Next]_vars
    PROVE  [Box!Next]_(Box!boxVars)
  <1>0. poll \in PollRecords
    BY DEF TypeOK
  <1>1. ASSUME Phase' = Phase, poll'.method = poll.method, Papers' = Papers,
               Published' = Published, Spoilt' = Spoilt
        PROVE  [Box!Next]_(Box!boxVars)
    BY <1>1 DEF Box!boxVars, Phase, Papers, Published
  <1>2. lists' = lists /\ Spoilt' = Spoilt => Papers' = Papers
    BY DEF lists, Papers, PaperOf, BallotsOf, L1
  <1>3. CASE Tick \/ UNCHANGED vars
    BY <1>1, <1>2, <1>3
       DEF Tick, vars, stateVars, marks, lists, Phase, Published, Spoilt
  <1>4. ASSUME NEW x \in L1(voteDirections), poll.status # "none",
               poll'.status = poll.status, poll'.method = poll.method,
               L1(voteDirections') = L1(voteDirections) \ {x},
               \A b \in L1(voteDirections') : voteDirections'[b] = voteDirections[b],
               voterRegistry' = voterRegistry \ {Owner[x]},
               tally = None => tally' = None, Spoilt' = Spoilt
        PROVE  [Box!Next]_(Box!boxVars)
    <2>1. /\ Owner[x] \in Voters
          /\ Owner[x] \in Spoilt => Papers' = Papers
          /\ Owner[x] \notin Spoilt => /\ Papers[Owner[x]] # None
                                       /\ Papers' = [Papers EXCEPT ![Owner[x]] = None]
      BY <1>4, PaperTakenOut
    <2>2. Phase' = Phase /\ Phase # "none"
      BY <1>4 DEF Phase
    <2>3. CASE poll.status = "closed"
      <3>1. Phase = "closed" /\ tally' # None
        BY <1>4, <2>3 DEF Phase, PollInv
      <3>2. /\ Published' \in [Options -> Int]
            /\ Spoilt = {} => Published' = Box!Counts(poll.method, Papers')
        BY <1>4, <3>1 DEF PublishedInv
      <3>3. CASE Owner[x] \notin Spoilt
        BY <1>4, <2>1, <2>2, <3>1, <3>2, <3>3
           DEF Box!Next, Box!TakeOut, Box!Publish, Phase, Papers, Published
      <3>4. CASE Owner[x] \in Spoilt
        BY <1>4, <2>1, <2>2, <3>1, <3>2, <3>4
           DEF Box!Next, Box!Correct, Box!Publish, Phase, Papers, Published
      <3> QED
        BY <3>3, <3>4
    <2>4. CASE poll.status # "closed"
      <3>1. Phase # "closed" /\ tally = None /\ tally' = None
        BY <1>4, <2>4 DEF Phase, PollInv
      <3>2. Published' = Published
        BY <3>1 DEF Published
      <3>3. CASE Owner[x] \notin Spoilt
        BY <1>4, <2>1, <2>2, <3>1, <3>2, <3>3
           DEF Box!Next, Box!TakeOut, Phase, Papers, Published
      <3>4. CASE Owner[x] \in Spoilt
        BY <1>1, <1>4, <2>1, <2>2, <3>2, <3>4
      <3> QED
        BY <3>3, <3>4
    <2> QED
      BY <2>3, <2>4
  <1>5. ASSUME NEW t \in Txs, Apply(t) PROVE [Box!Next]_(Box!boxVars)
    <2>0. /\ t \in AuthorityRestoreTxs \/ restores' = restores
          /\ crossed' = crossed \cup Crossing(t)
          /\ t.type # "UpdateBallot" => crossed' = crossed
      BY <1>5, SpoiltGrows DEF Crossing
    <2>00. t \notin UpdateBallotTxs /\ t \notin AuthorityRestoreTxs => Spoilt' = Spoilt
      <3>1. t \notin UpdateBallotTxs => t.type # "UpdateBallot"
        BY DEF Txs, PollCreateTxs, BatchFlushTxs, ConfirmReceiptTxs, PollCloseTxs,
               ResealVoteTxs, AuthorityRescindTxs, AuthorityRestoreTxs
      <3> QED
        BY <2>0, <3>1 DEF Spoilt
    <2>000. /\ t \in UpdateBallotTxs => t.type = "UpdateBallot"
            /\ t \in AuthorityRestoreTxs => t.type = "AuthorityRestore"
      BY DEF UpdateBallotTxs, ChangeTxs, WithdrawTxs, AuthorityRestoreTxs
    <2>1. CASE t \in PollCreateTxs /\ ValidatePollCreate(t) /\ ExecutePollCreate(t)
      <3>0. Spoilt' = Spoilt
        BY <2>00, <2>000, <2>1 DEF PollCreateTxs
      <3>1. Phase = "none" /\ Phase' = "open"
        BY <2>1 DEF ValidatePollCreate, ExecutePollCreate, Phase
      <3>2. poll'.method \in {"plurality", "approval", "ranked"}
        BY DEF TypeOK, PollRecords, Methods
      <3>3. Papers' = Papers /\ Published' = Published
        BY <1>2, <2>1, <3>0 DEF ExecutePollCreate, Published
      <3> QED
        BY <3>0, <3>1, <3>2, <3>3 DEF Box!Next, Box!Open, Phase, Papers, Published
    <2>2. CASE t \in BatchFlushTxs /\ ValidateBatchFlush(t)
               /\ ExecuteBatchFlush(t, Opened)
      <3>1. /\ poll.status \notin {"none", "closed"}
            /\ poll'.status \notin {"none", "closed"}
            /\ poll'.method = poll.method /\ tally' = tally
        BY <2>2, FlushFacts
      <3>2. Phase = "open" /\ Phase' = "open" /\ Published' = Published
        BY <1>0, <3>1 DEF TypeOK, PollRecords, Phase, Published
      <3>0. Spoilt' = Spoilt
        BY <2>00, <2>000, <2>2 DEF BatchFlushTxs
      <3>3. \E vs \in SUBSET {v \in Voters \ Spoilt : Papers[v] = None} :
              \E papers \in [vs -> ChoiceLists] :
                 Papers' = [v \in Voters |-> IF v \in vs THEN papers[v] ELSE Papers[v]]
        BY <2>2, <3>0, FlushDeposits
      <3> QED
        BY <3>0, <3>1, <3>2, <3>3 DEF Box!Next, Box!Deposit, Phase, Papers, Published
    <2>3. CASE t \in UpdateBallotTxs /\ ValidateBallotUpdate(t)
               /\ ExecuteBallotUpdate(t)
      <3>1. /\ t.old \in L1(voteDirections) /\ poll' = poll
            /\ poll.status \notin {"none", "closed"}
            /\ t.voter \in Voters /\ Owner[t.old] \in Voters
        BY <2>3, UpdateFacts, Owners DEF L1, TypeOK
      <3>2. tally = None /\ tally' = None /\ Published' = Published
        BY <2>3, <3>1, UpdateFacts DEF PollInv, Published
      <3>3. Phase = "open" /\ Phase' = Phase
        BY <1>0, <3>1 DEF PollRecords, Phase
      <3>4. CASE t.voter # Owner[t.old]
        <4> DEFINE vs == {t.voter, Owner[t.old]}
        <4>1. Spoilt' = Spoilt \cup vs
          BY <2>0, <2>000, <2>3, <3>4 DEF Spoilt, Crossing, AuthorityRestoreTxs
        <4>2. \A v \in Voters : v \notin vs => Papers'[v] = Papers[v]
          BY <2>3, <4>1, UpdateKeeps
        <4>3. \A v \in Voters : v \in vs => Papers'[v] = None
          BY <4>1, Mapped
        <4>4. Papers' = [v \in Voters |-> IF v \in vs THEN None ELSE Papers[v]]
          BY <4>2, <4>3, Mapped
        <4>5. vs \in SUBSET Voters
          BY <3>1
        <4> HIDE DEF vs
        <4> QED
          BY <3>1, <3>2, <3>3, <4>1, <4>4, <4>5
             DEF Box!Next, Box!Spoil, Phase, Papers, Published
      <3>5. CASE t.voter = Owner[t.old]
        <4>0. Spoilt' = Spoilt
          BY <2>0, <2>000, <2>3, <3>5 DEF Spoilt, Crossing
        <4>1. CASE t.choices = <<>>
          <5>1. /\ voteDirections' = [voteDirections EXCEPT ![t.old] = None]
                /\ L1(voteDirections') = L1(voteDirections) \ {t.old}
                /\ voterRegistry' = voterRegistry \ {Owner[t.old]}
            BY <2>3, <3>5, <4>1, UpdateFacts
          <5>2. \A b \in L1(voteDirections') :
                   voteDirections'[b] = voteDirections[b]
            BY <3>1, <5>1 DEF L1, TypeOK
          <5> QED
            BY <1>4, <3>1, <3>2, <4>0, <5>1, <5>2
        <4>2. CASE t.choices # <<>> /\ t.voter \notin Spoilt
          <5>1. /\ Papers[t.voter] # None /\ t.choices \in ChoiceLists
                /\ Papers' = [Papers EXCEPT ![t.voter] = t.choices]
            BY <2>3, <3>5, <4>0, <4>2, UpdateReplaces
          <5> QED
            BY <3>1, <3>2, <3>3, <4>0, <5>1
               DEF Box!Next, Box!Replace, Phase, Papers, Published
        <4>3. CASE t.voter \in Spoilt
          <5>1. \A v \in Voters : Papers'[v] = Papers[v]
            BY <2>3, <3>5, <4>0, <4>3, UpdateKeeps, Mapped
          <5>2. Papers' = Papers
            BY <5>1, Mapped
          <5> QED
            BY <1>1, <3>1, <3>2, <3>3, <4>0, <5>2
        <4> QED
          BY <4>1, <4>2, <4>3
      <3> QED
        BY <3>4, <3>5
    <2>4. CASE t \in ConfirmReceiptTxs /\ ExecuteConfirmReceipt(t)
      <3>0. Spoilt' = Spoilt
        BY <2>00, <2>000, <2>4 DEF ConfirmReceiptTxs
      <3>1. poll'.status = poll.status /\ poll'.method = poll.method
        BY <1>0, <2>4 DEF ExecuteConfirmReceipt, PollRecords
      <3>2. CASE tally = None
        BY <1>1, <1>2, <2>4, <3>0, <3>1, <3>2 DEF ExecuteConfirmReceipt, Phase, Published
      <3>3. CASE tally # None
        <4>1. tally \in Tallies
          BY <3>3 DEF TypeOK
        <4>2. tally' = [tally EXCEPT !.confirmed = Cardinality(confirms')]
          BY <2>4, <3>3 DEF ExecuteConfirmReceipt
        <4>3. tally'.counts = tally.counts
          BY <4>1, <4>2 DEF Tallies
        <4>4. tally' # None
          BY <1>0, <3>1, <3>3 DEF PollInv
        <4>5. Published' = Published
          BY <3>3, <4>3, <4>4 DEF Published
        <4> QED
          BY <1>1, <1>2, <2>4, <3>0, <3>1, <4>5 DEF ExecuteConfirmReceipt, Phase
      <3> QED
        BY <3>2, <3>3
    <2>5. CASE t \in PollCloseTxs /\ ValidatePollClose(t) /\ ExecutePollClose(t)
      <3>0. Spoilt' = Spoilt
        BY <2>00, <2>000, <2>5 DEF PollCloseTxs
      <3>1. Papers' = Papers
        BY <1>2, <2>5, <3>0 DEF ExecutePollClose
      <3>2. CASE UNCHANGED <<poll, tally>>
        BY <1>1, <3>0, <3>1, <3>2 DEF Phase, Published
      <3>3. CASE tally' # None /\ poll' = [poll EXCEPT !.status = "closed"]
        <4>1. Phase = "open" /\ Phase' = "closed" /\ poll'.method = poll.method
          BY <1>0, <2>5, <3>3 DEF ValidatePollClose, PollRecords, Phase
        <4>2. /\ Published' \in [Options -> Int]
              /\ Spoilt = {} => Published' = Box!Counts(poll.method, Papers)
          BY <3>0, <3>1, <3>3, <4>1 DEF PublishedInv
        <4> QED
          BY <3>0, <3>1, <4>1, <4>2
             DEF Box!Next, Box!Close, Box!Publish, Phase, Papers, Published
      <3> QED
        BY <2>5, <3>2, <3>3, CloseFacts
    <2>6. CASE t \in ResealVoteTxs /\ ValidateResealVote(t) /\ ExecuteResealVote(t)
      <3>0. Spoilt' = Spoilt
        BY <2>00, <2>000, <2>6 DEF ResealVoteTxs
      <3>1. poll' = [poll EXCEPT !.sealedCount = @ + 1] /\ tally' = tally
        BY <2>6, ResealFacts
      <3>2. poll'.status = poll.status /\ poll'.method = poll.method
        BY <1>0, <3>1 DEF PollRecords
      <3> QED
        BY <1>1, <2>6, <3>0, <3>1, <3>2, ResealKeeps DEF Phase, Published
    <2>7. CASE t \in AuthorityRescindTxs /\ ValidateAuthorityRescind(t)
               /\ ExecuteAuthorityRescind(t)
      <3>0. Spoilt' = Spoilt
        BY <2>00, <2>000, <2>7 DEF AuthorityRescindTxs
      <3> QED
        BY <1>4, <2>7, <3>0, RescindFacts
    <2>8. CASE t \in AuthorityRestoreTxs /\ ValidateAuthorityRestore(t)
               /\ ExecuteAuthorityRestore(t)
      <3> DEFINE vs == {Owner[t.ballot]}
      <3>1. vs \in SUBSET Voters
        BY <2>8, Owners DEF AuthorityRestoreTxs
      <3>2. Spoilt' = Spoilt \cup vs
        BY <2>0, <2>000, <2>8 DEF ExecuteAuthorityRestore, Spoilt
      <3>3. /\ poll' = poll /\ tally' = tally /\ lists' = lists
            /\ poll.status # "none"
        BY <2>8 DEF ExecuteAuthorityRestore, ValidateAuthorityRestore
      <3>4. \A v \in Voters : v \notin vs => Papers'[v] = Papers[v]
        BY <3>2, <3>3, PaperSame DEF lists
      <3>5. \A v \in Voters : v \in vs => Papers'[v] = None
        BY <3>2, Mapped
      <3>6. Papers' = [v \in Voters |-> IF v \in vs THEN None ELSE Papers[v]]
        BY <3>4, <3>5, Mapped
      <3>7. Phase' = Phase /\ Phase # "none" /\ Published' = Published
        BY <3>3 DEF Phase, Published
      <3> HIDE DEF vs
      <3> QED
        BY <3>1, <3>2, <3>3, <3>6, <3>7
           DEF Box!Next, Box!Spoil, Phase, Papers, Published
    <2> QED
      BY <1>5, <2>1, <2>2, <2>3, <2>4, <2>5, <2>6, <2>7, <2>8, ApplyCases
  <1> QED
    BY <1>3, <1>5 DEF Next

\* The two lists implement the ballot box: every flush, update, close and
\* rescission does to the papers of the voters what it would do to a box in
\* which ballots and identities had never been separated, and the published
\* result is the count of those papers.  A restore grant, or an update that
\* names another voter's ballot, spoils the voters concerned and only them.
THEOREM ListsImplementBox == Spec => ImplementsBallotBox
  <1>1. Init => Box!Init /\ RewrittenInv
    <2> SUFFICES ASSUME Init PROVE Box!Init /\ RewrittenInv
      OBVIOUS
    <2>1. Papers = [v \in Voters |-> None] /\ Spoilt = {}
      BY DEF Init, Papers, PaperOf, Spoilt
    <2> QED
      BY <2>1 DEF Init, NoPoll, Box!Init, Papers, RewrittenInv
  <1>2. TypeOK /\ OneBallotPerVoter /\ RewrittenInv /\ [Next]_vars => RewrittenInv'
    BY RewrittenNext
  <1>3. TypeOK /\ OneBallotPerVoter /\ PollInv /\ TallyFaithful /\ RewrittenInv
        => PublishedInv
    BY PublishedCounts
  <1>4. TypeOK /\ TypeOK' /\ OneBallotPerVoter /\ OneBallotPerVoter' /\ PollInv
        /\ PollInv' /\ PublishedInv' /\ [Next]_vars => [Box!Next]_(Box!boxVars)
    BY BoxStep
  <1> QED
    BY <1>1, <1>2, <1>3, <1>4, TypeCorrect, OneBallot, PollInvAlways,
       TallyStaysFaithful, PTL DEF Spec, Box!Spec, ImplementsBallotBox

=============================================================================

-------------------------- MODULE VotingAppProofs --------------------------
(***************************************************************************)
(* Theorems about the application around the two-list state machine: what  *)
(* FinalizeBlock without validation, Commit without deletion, crashes at   *)
(* any point and CometBFT's replay leave intact, for every value of the    *)
(* constants and any number of blocks and restarts.                        *)
(***************************************************************************)
EXTENDS VotingApp, VotingStateProofs

-----------------------------------------------------------------------------
(* Types                                                                    *)

\* What List 1 is in memory and in the database.
VoteMaps == [Ballots -> VoteRecords \cup {None}]

Hashes == PollRecords \X VoteMaps \X (SUBSET Voters) \X (Tallies \cup {None})
          \X (SUBSET Voters) \X (SUBSET Ballots)

DbRecords ==
    [poll : PollRecords, votes : VoteMaps, registry : SUBSET Voters,
     tally : Tallies \cup {None}, confirms : SUBSET Voters,
     rescissions : SUBSET Ballots, restores : SUBSET Granted,
     appHash : Hashes \cup {None}]

Blocks == [txs : Seq(Txs), hash : Hashes \cup {None}]

\* The type invariant, with what is needed to prove it: the database holds
\* what the maps held, and every decided block is in stored until a commit
\* has counted it.
AppTypeInv ==
    /\ AppTypeOK
    /\ db \in DbRecords
    /\ stored \in Seq(Blocks)
    /\ appHash \in Hashes \cup {None}
    /\ txi \in Nat \ {0}
    /\ blocks \in 0..MaxBlocks /\ height + Len(stored) = blocks

\* A sequence without its head.
LEMMA TailFacts ==
    ASSUME NEW S, NEW s \in Seq(S), Len(s) > 0
    PROVE  /\ Tail(s) \in Seq(S) /\ Len(Tail(s)) = Len(s) - 1
           /\ \A i \in 1..Len(Tail(s)) : Tail(s)[i] = s[i + 1]
  OBVIOUS

\* The voters of a transaction are voters.
LEMMA VotersOfType ==
    ASSUME NEW t \in Txs PROVE VotersOf(t) \subseteq Voters
  <1>1. CASE t \in BatchFlushTxs
    <2>1. \A s \in t.submissions : s.ballot \in Ballots
      BY <1>1 DEF BatchFlushTxs, Submissions
    <2>2. VotersOf(t) = {Owner[s.ballot] : s \in t.submissions}
      BY <1>1 DEF VotersOf, BatchFlushTxs
    <2> QED
      BY <2>1, <2>2, OwnerAssumption
  <1>2. CASE t \in UpdateBallotTxs
    <2>1. /\ t.old \in Ballots /\ t.voter \in Voters
          /\ VotersOf(t) = {t.voter, Owner[t.old]}
      BY <1>2 DEF VotersOf, UpdateBallotTxs, ChangeTxs, WithdrawTxs
    <2> QED
      BY <2>1, OwnerAssumption
  <1>3. CASE t \in AuthorityRescindTxs
    <2>1. t.ballot \in Ballots /\ VotersOf(t) = {Owner[t.ballot]}
      BY <1>3 DEF VotersOf, AuthorityRescindTxs
    <2> QED
      BY <2>1, OwnerAssumption
  <1>4. CASE t \in PollCreateTxs \cup ConfirmReceiptTxs \cup PollCloseTxs
                     \cup ResealVoteTxs \cup AuthorityRestoreTxs
    BY <1>4 DEF VotersOf, PollCreateTxs, ConfirmReceiptTxs, PollCloseTxs,
                ResealVoteTxs, AuthorityRestoreTxs
  <1> QED
    BY <1>1, <1>2, <1>3, <1>4 DEF Txs

\* So are the two of an update across voters.
LEMMA CrossingType ==
    ASSUME NEW t \in Txs PROVE Crossing(t) \subseteq Voters
  <1>1. CASE t \in UpdateBallotTxs
    <2>1. t.old \in Ballots /\ t.voter \in Voters
      BY <1>1 DEF UpdateBallotTxs, ChangeTxs, WithdrawTxs
    <2> QED
      BY <2>1, Owners DEF Crossing
  <1>2. CASE t \notin UpdateBallotTxs
    <2>1. t.type # "UpdateBallot"
      BY <1>2 DEF Txs, PollCreateTxs, BatchFlushTxs, ConfirmReceiptTxs, PollCloseTxs,
                  ResealVoteTxs, AuthorityRescindTxs, AuthorityRestoreTxs
    <2> QED
      BY <2>1 DEF Crossing
  <1> QED
    BY <1>1, <1>2

\* So are the voters of a block.
LEMMA VotersInType ==
    ASSUME NEW txs \in Seq(Txs) PROVE VotersIn(txs) \subseteq Voters
  <1>1. \A i \in 1..Len(txs) : txs[i] \in Txs
    OBVIOUS
  <1> QED
    BY <1>1, VotersOfType DEF VotersIn

\* A node starts well-typed.
LEMMA AppInitType == AppInit => AppTypeInv
  <1> SUFFICES ASSUME AppInit PROVE AppTypeInv
    OBVIOUS
  <1>1. TypeOK
    BY InitTypeOK DEF AppInit
  <1>2. NoPoll \in PollRecords
    BY DEF NoPoll, PollRecords, Methods
  <1>3. db \in DbRecords
    BY <1>2 DEF AppInit, DbRecords, VoteMaps
  <1>4. DOMAIN db = {"poll", "votes", "registry", "tally", "confirms",
                     "rescissions", "restores", "appHash"}
    BY DEF AppInit
  <1>5. {panicked, saved, closed, recreated} \subseteq BOOLEAN
    BY DEF AppInit
  <1>6. /\ stored \in Seq(Blocks) /\ Len(stored) = 0 /\ height = 0 /\ blocks = 0
        /\ next = 1 /\ txi = 1
    BY DEF AppInit
  <1>7. /\ height \in 0..MaxBlocks /\ next \in 1..(Len(stored) + 1)
        /\ blocks \in 0..MaxBlocks /\ height + Len(stored) = blocks
    BY <1>6, AppBounds
  <1> QED
    BY <1>1, <1>3, <1>4, <1>5, <1>6, <1>7 DEF AppInit, AppTypeInv, AppTypeOK

\* What the application hash covers is well-typed.
LEMMA HashType == TypeOK => ComputeAppHash \in Hashes
  BY DEF TypeOK, ComputeAppHash, Hashes, VoteMaps

\* What Commit writes is well-typed.
LEMMA PersistedType ==
    ASSUME TypeOK, db \in DbRecords
    PROVE  /\ Persisted \in DbRecords
           /\ DOMAIN Persisted = {"poll", "votes", "registry", "tally", "confirms",
                                  "rescissions", "restores", "appHash"}
  <1>1. (IF poll.status = "none" THEN db.poll ELSE poll) \in PollRecords
    BY DEF TypeOK, DbRecords
  <1>2. [b \in Ballots |-> IF voteDirections[b] = None THEN db.votes[b]
                           ELSE voteDirections[b]] \in VoteMaps
    BY DEF TypeOK, DbRecords, VoteMaps
  <1>3. /\ db.registry \cup voterRegistry \in SUBSET Voters
        /\ db.confirms \cup confirms \in SUBSET Voters
        /\ db.rescissions \cup rescissions \in SUBSET Ballots
        /\ db.restores \cup restores \in SUBSET Granted
    BY DEF TypeOK, DbRecords
  <1>4. (IF tally = None THEN db.tally ELSE tally) \in Tallies \cup {None}
    BY DEF TypeOK, DbRecords
  <1>5. ComputeAppHash \in Hashes \cup {None}
    BY HashType
  <1>6. Persisted \in DbRecords
    BY <1>1, <1>2, <1>3, <1>4, <1>5 DEF Persisted, DbRecords
  <1> QED
    BY <1>6 DEF Persisted

\* The block being executed is one of the stored ones.
LEMMA CurrentBlock ==
    ASSUME AppTypeInv, saved, ~ Idle
    PROVE  /\ next \in 1..Len(stored) /\ Len(stored) \in Nat /\ Len(stored) > 0
           /\ stored[next] \in Blocks /\ stored[next].txs \in Seq(Txs)
           /\ \A i \in 1..Len(stored[next].txs) : stored[next].txs[i] \in Txs
  <1>1. /\ stored \in Seq(Blocks) /\ next \in 1..(Len(stored) + 1)
        /\ next # Len(stored) + 1
    BY DEF AppTypeInv, AppTypeOK, Idle
  <1>2. Len(stored) \in Nat /\ next \in 1..Len(stored) /\ Len(stored) > 0
    BY <1>1
  <1>3. stored[next] \in Blocks
    BY <1>1, <1>2
  <1>4. stored[next].txs \in Seq(Txs)
    BY <1>3 DEF Blocks
  <1> QED
    BY <1>2, <1>3, <1>4

\* Clock and CheckTx touch nothing but the clock, the mempool and the poll.
LEMMA TypeFront ==
    ASSUME AppTypeInv, Clock \/ \E t \in Txs : CheckTx(t)
    PROVE  AppTypeInv'
  <1>1. TypeOK'
    <2>1. CASE Clock
      BY <2>1, NextTypeOK DEF Clock, Next, AppTypeInv, AppTypeOK
    <2>2. CASE \E t \in Txs : CheckTx(t)
      <3>1. poll' \in PollRecords
        BY <2>2, OpenedType DEF CheckTx, AppTypeInv, AppTypeOK, TypeOK
      <3> QED
        BY <2>2, <3>1 DEF CheckTx, AppTypeInv, AppTypeOK, TypeOK, MarksTypeOK,
                             lists, audit, rolling, marks
    <2> QED
      BY <2>1, <2>2
  <1>2. mempool' \subseteq Txs
    BY DEF Clock, CheckTx, AppTypeInv, AppTypeOK
  <1>3. UNCHANGED <<db, height, appHash, stored, next, txi, saved, panicked, blocks,
                    stale, disturbed, closed, recreated>>
    BY DEF Clock, CheckTx, dbVars, chain, bounds, history
  <1> QED
    BY <1>1, <1>2, <1>3 DEF AppTypeInv, AppTypeOK

\* A decided block holds transactions of the mempool.
LEMMA TypeDecide ==
    ASSUME AppTypeInv, DecideBlock
    PROVE  AppTypeInv'
  <1>1. PICK n \in Nat : \E txs \in [1..n -> mempool] :
                            stored' = Append(stored, [txs |-> txs, hash |-> None])
    <2>1. PICK n \in (IF CreateEmptyBlocks THEN 0 ELSE 1)..MaxBlockTxs :
             \E txs \in [1..n -> mempool] :
                stored' = Append(stored, [txs |-> txs, hash |-> None])
      BY DEF DecideBlock
    <2>2. n \in Nat
      BY AppBounds
    <2> QED
      BY <2>1, <2>2
  <1>2. PICK txs \in [1..n -> mempool] :
                            stored' = Append(stored, [txs |-> txs, hash |-> None])
    BY <1>1
  <1>3. txs \in Seq(Txs)
    BY DEF AppTypeInv, AppTypeOK
  <1>4. [txs |-> txs, hash |-> None] \in Blocks
    BY <1>3 DEF Blocks
  <1>5. stored' \in Seq(Blocks) /\ Len(stored') = Len(stored) + 1 /\ Len(stored) \in Nat
    BY <1>2, <1>4 DEF AppTypeInv
  <1>6. UNCHANGED <<vars, mempool, db, height, appHash, next, txi, saved, panicked,
                    stale, disturbed, closed, recreated>>
        /\ blocks < MaxBlocks /\ blocks' = blocks + 1
    BY DEF DecideBlock, dbVars, history
  <1>7. TypeOK'
    BY <1>6, NextTypeOK DEF AppTypeInv, AppTypeOK
  <1>8. next' \in 1..(Len(stored') + 1)
    BY <1>5, <1>6 DEF AppTypeInv, AppTypeOK
  <1>9. blocks' \in 0..MaxBlocks /\ height' + Len(stored') = blocks'
    <2>1. /\ blocks \in 0..MaxBlocks /\ height + Len(stored) = blocks
          /\ height \in Nat /\ MaxBlocks \in Nat
      BY AppBounds DEF AppTypeInv, AppTypeOK
    <2> QED
      BY <1>5, <1>6, <2>1
  <1> QED
    BY <1>5, <1>6, <1>7, <1>8, <1>9 DEF AppTypeInv, AppTypeOK

\* Executing a transaction, or panicking in it, keeps the types.
LEMMA TypeDeliver ==
    ASSUME AppTypeInv, DeliverTx
    PROVE  AppTypeInv'
  <1> DEFINE t == stored[next].txs[txi]
  <1>1. t \in Txs /\ stored[next].txs \in Seq(Txs)
    BY CurrentBlock DEF DeliverTx, AppTypeInv
  <1>2. TypeOK /\ poll \in PollRecords
    BY DEF AppTypeInv, AppTypeOK, TypeOK
  <1>3. TypeOK'
    <2>1. CASE UNCHANGED stateVars
      BY <1>2, <2>1, NextTypeOK DEF DeliverTx, vars
    <2>2. CASE /\ ExecuteTx(t, poll) /\ crossed' = crossed \cup Crossing(t)
               /\ UNCHANGED <<rewritten, withdrawals>>
      <3>1. Crossing(t) \subseteq Voters
        BY <1>1, CrossingType
      <3>2. MarksTypeOK'
        BY <1>2, <2>2, <3>1 DEF TypeOK, MarksTypeOK
      <3> QED
        BY <1>1, <1>2, <2>2, <3>2, ExecuteTypeOK DEF DeliverTx
    <2> QED
      BY <2>1, <2>2 DEF DeliverTx
  <1>4. disturbed' \subseteq Voters
    BY <1>1, VotersOfType DEF DeliverTx, AppTypeInv, AppTypeOK
  <1>5. panicked' \in BOOLEAN /\ recreated' \in BOOLEAN
    BY DEF DeliverTx, AppTypeInv, AppTypeOK
  <1>6. UNCHANGED <<mempool, db, height, appHash, stored, next, saved, blocks,
                    stale, closed>> /\ txi' = txi + 1
    BY DEF DeliverTx, dbVars, bounds
  <1>7. txi' \in Nat \ {0}
    BY <1>6 DEF AppTypeInv
  <1> QED
    BY <1>3, <1>4, <1>5, <1>6, <1>7 DEF AppTypeInv, AppTypeOK

\* The end of a block, with and without a commit.
LEMMA TypeEnd ==
    ASSUME AppTypeInv, EndBlock
    PROVE  AppTypeInv'
  <1>0. TypeOK /\ db \in DbRecords /\ dirty \in BOOLEAN
    BY DEF AppTypeInv, AppTypeOK, TypeOK
  <1>1. TypeOK'
    BY <1>0 DEF EndBlock, TypeOK, MarksTypeOK, lists, audit, rolling, marks
  <1>2. next \in 1..Len(stored) /\ Len(stored) \in Nat /\ Len(stored) > 0
    BY CurrentBlock DEF EndBlock
  <1>3. /\ db' \in DbRecords
        /\ DOMAIN db' = {"poll", "votes", "registry", "tally", "confirms",
                         "rescissions", "restores", "appHash"}
        /\ appHash' \in Hashes \cup {None}
    BY <1>0, PersistedType, HashType DEF EndBlock, dbVars, AppTypeInv, AppTypeOK
  <1>4. /\ stored' \in Seq(Blocks) /\ height' \in 0..MaxBlocks
        /\ next' \in 1..(Len(stored') + 1)
        /\ height' + Len(stored') = blocks
    <2>1. stored \in Seq(Blocks) /\ height \in Nat /\ height + Len(stored) = blocks
          /\ blocks \in 0..MaxBlocks
      BY AppBounds DEF AppTypeInv, AppTypeOK
    <2>2. CASE dirty
      <3>1. /\ stored' = Tail(stored) /\ next' = next /\ height' = height + 1
        BY <2>2 DEF EndBlock
      <3>2. Tail(stored) \in Seq(Blocks) /\ Len(Tail(stored)) = Len(stored) - 1
        BY <1>2, <2>1, TailFacts
      <3> QED
        BY <1>2, <2>1, <3>1, <3>2, AppBounds
    <2>3. CASE ~ dirty
      BY <1>2, <2>1, <2>3, AppBounds DEF EndBlock, dbVars
    <2> QED
      BY <2>2, <2>3
  <1>5. panicked' \in BOOLEAN /\ closed' \in BOOLEAN /\ saved' \in BOOLEAN
    BY DEF EndBlock, HandshakeRefuses
  <1>6. stale' \subseteq Voters
    <2>1. L1(db'.votes) \subseteq Ballots /\ db'.registry \subseteq Voters
      BY <1>3 DEF L1, DbRecords
    <2> QED
      BY <2>1, OwnerAssumption DEF EndBlock
  <1>7. UNCHANGED <<mempool, blocks, disturbed, recreated>> /\ txi' = 1
    BY DEF EndBlock, bounds
  <1> QED
    BY <1>1, <1>3, <1>4, <1>5, <1>6, <1>7 DEF AppTypeInv, AppTypeOK

\* Saving the outcome writes a hash into a stored block.
LEMMA TypeSave ==
    ASSUME AppTypeInv, SaveBlock
    PROVE  AppTypeInv'
  <1>0. TypeOK /\ stored \in Seq(Blocks) /\ next \in 1..(Len(stored) + 1)
        /\ Len(stored) \in Nat /\ appHash \in Hashes \cup {None}
    BY DEF AppTypeInv, AppTypeOK
  <1>1. poll' \in PollRecords
    BY <1>0, OpenedType DEF SaveBlock, TypeOK
  <1>2. TypeOK'
    BY <1>0, <1>1 DEF SaveBlock, TypeOK, MarksTypeOK, lists, audit, rolling, marks
  <1>3. stored' \in Seq(Blocks) /\ Len(stored') = Len(stored)
    <2>1. CASE next = 1
      BY <1>0, <2>1 DEF SaveBlock
    <2>2. CASE next # 1
      <3> DEFINE r == [stored[next - 1] EXCEPT !.hash = appHash]
      <3>1. next - 1 \in 1..Len(stored)
        BY <1>0, <2>2
      <3>2. r \in Blocks
        <4>1. stored[next - 1] \in Blocks
          BY <1>0, <3>1
        <4> QED
          BY <1>0, <4>1 DEF Blocks
      <3>3. stored' = [stored EXCEPT ![next - 1] = r]
        BY <2>2 DEF SaveBlock
      <3> HIDE DEF r
      <3> QED
        BY <1>0, <3>1, <3>2, <3>3
    <2> QED
      BY <2>1, <2>2
  <1>4. mempool' \subseteq Txs
    BY DEF SaveBlock, AppTypeInv, AppTypeOK
  <1>5. UNCHANGED <<db, height, appHash, next, txi, panicked, blocks, stale,
                    disturbed, closed, recreated>> /\ saved' = TRUE
    BY DEF SaveBlock, dbVars, bounds, history
  <1> QED
    BY <1>2, <1>3, <1>4, <1>5 DEF AppTypeInv, AppTypeOK

\* What loadState reads is what the maps held.
LEMMA TypeRestart ==
    ASSUME AppTypeInv, Restart
    PROVE  AppTypeInv'
  <1>0. TypeOK /\ db \in DbRecords /\ stored \in Seq(Blocks)
        /\ next \in 1..(Len(stored) + 1) /\ Len(stored) \in Nat
    BY DEF AppTypeInv, AppTypeOK
  <1>1. /\ db.poll \in PollRecords /\ db.votes \in VoteMaps
        /\ db.registry \subseteq Voters /\ db.tally \in Tallies \cup {None}
        /\ db.confirms \subseteq Voters /\ db.rescissions \subseteq Ballots
        /\ db.restores \subseteq Granted /\ db.appHash \in Hashes \cup {None}
    BY <1>0 DEF DbRecords
  <1>2. TypeOK'
    BY <1>0, <1>1 DEF Restart, TypeOK, MarksTypeOK, marks, VoteMaps
  <1>3. disturbed' \subseteq Voters
    <2>1. \A i \in 1..(next - 1) : stored[i].txs \in Seq(Txs)
      <3>1. \A i \in 1..(next - 1) : stored[i] \in Blocks
        BY <1>0
      <3> QED
        BY <3>1 DEF Blocks
    <2>2. \A i \in 1..(next - 1) : VotersIn(stored[i].txs) \subseteq Voters
      BY <2>1, VotersInType
    <2> QED
      BY <2>2 DEF Restart, AppTypeInv, AppTypeOK
  <1>4. UNCHANGED <<db, height, stored, panicked, blocks, stale, closed, recreated>>
        /\ mempool' = {} /\ next' = 1 /\ txi' = 1 /\ saved' = TRUE
        /\ appHash' = db.appHash
    BY DEF Restart
  <1>5. next' \in 1..(Len(stored') + 1)
    BY <1>0, <1>4
  <1> QED
    BY <1>1, <1>2, <1>3, <1>4, <1>5 DEF AppTypeInv, AppTypeOK

\* Every step of the application keeps the types.
LEMMA AppTypeNext == AppTypeInv /\ [AppNext]_appVars => AppTypeInv'
  <1> SUFFICES ASSUME AppTypeInv, [AppNext]_appVars PROVE AppTypeInv'
    OBVIOUS
  <1>1. CASE UNCHANGED appVars
    <2>1. UNCHANGED <<vars, mempool, db, height, appHash, stored, next, txi, saved,
                      panicked, blocks, stale, disturbed, closed, recreated>>
      BY <1>1 DEF appVars, dbVars, chain, bounds, history
    <2>2. TypeOK'
      BY <2>1, NextTypeOK DEF AppTypeInv, AppTypeOK
    <2> QED
      BY <2>1, <2>2 DEF AppTypeInv, AppTypeOK
  <1> QED
    BY <1>1, TypeFront, TypeDecide, TypeDeliver, TypeEnd, TypeSave, TypeRestart
       DEF AppNext

\* The application's state keeps its types through blocks, crashes and
\* replays; in particular the height never passes the number of blocks.
THEOREM AppTypes == AppSpec => []AppTypeOK
  <1>1. AppTypeInv => AppTypeOK
    BY DEF AppTypeInv
  <1> QED
    BY <1>1, AppInitType, AppTypeNext, PTL DEF AppSpec

\* The same for the stronger invariant, for later use.
LEMMA AppTypeAlways == AppSpec => []AppTypeInv
  BY AppInitType, AppTypeNext, PTL DEF AppSpec

-----------------------------------------------------------------------------
(* Memory and database                                                      *)

\* Every transaction of every stored block creates the poll.
OnlyCreates ==
    \A i \in 1..Len(stored) : \A j \in 1..Len(stored[i].txs) :
        stored[i].txs[j] \in PollCreateTxs

\* What Durable says of a clean state.
Clean ==
    /\ \A b \in L1(voteDirections) : db.votes[b] = voteDirections[b]
    /\ voterRegistry \subseteq db.registry
    /\ confirms \subseteq db.confirms
    /\ rescissions = db.rescissions /\ restores = db.restores
    /\ tally = db.tally
    /\ [poll EXCEPT !.status = db.poll.status] = db.poll

\* The state is clean unless it is marked dirty, which it is only inside a
\* block; audit records and the tally are never taken back in memory; and as
\* long as the database has no poll, nothing but creations can be executed.
SyncInv ==
    /\ ~ dirty => Clean /\ ((poll.status = "none") <=> (db.poll.status = "none"))
    /\ Idle \/ ~ saved => ~ dirty /\ txi = 1
    /\ db.rescissions \subseteq rescissions /\ db.restores \subseteq restores
    /\ tally = None => db.tally = None
    /\ poll.status = "none" => ~ dirty /\ db.poll.status = "none"
    /\ db.poll.status = "none" => mempool \subseteq PollCreateTxs /\ OnlyCreates

\* closed reports the database, and in memory as on disk a poll is closed
\* exactly when it has a tally unless its creation was replayed too late.
ClosedInv ==
    /\ closed <=> db.tally # None
    /\ ~ recreated =>
          /\ tally # None <=> poll.status = "closed"
          /\ db.tally # None <=> db.poll.status = "closed"

\* A tally with another number of confirmations is a tally.
LEMMA ConfirmedTally ==
    ASSUME NEW y \in Tallies, NEW n \in Nat
    PROVE  [y EXCEPT !.confirmed = n] # None
  <1>1. [y EXCEPT !.confirmed = n] \in Tallies
    BY DEF Tallies
  <1> QED
    BY <1>1, NoneAssumption

\* So is a tally after a rescission.
LEMMA RescindedNotNone ==
    ASSUME TypeOK, NEW t \in AuthorityRescindTxs, ExecuteAuthorityRescind(t),
           tally # None
    PROVE  tally' # None
  <1> DEFINE c == voteDirections[t.ballot].choices
             k == [o \in Options |->
                     IF GivesBack(poll.method, c, o)
                     THEN tally.counts[o] - 1 ELSE tally.counts[o]]
  <1>1. tally \in Tallies
    BY DEF TypeOK
  <1>2. k \in [Options -> Int]
    BY <1>1 DEF Tallies
  <1>3. tally' = RescindedTally(c)
    BY DEF ExecuteAuthorityRescind
  <1>4. tally' = [tally EXCEPT !.total = @ - 1, !.counts = k,
                    !.rescissionCount = @ + 1, !.degraded = TRUE]
    BY <1>3 DEF RescindedTally
  <1> HIDE DEF k, c
  <1>5. tally' = [counts |-> k, total |-> tally.total - 1,
                  confirmed |-> tally.confirmed, degraded |-> TRUE,
                  rescissionCount |-> tally.rescissionCount + 1]
    BY <1>1, <1>4 DEF Tallies
  <1>6. /\ tally.total - 1 \in Int /\ tally.confirmed \in Nat
        /\ tally.rescissionCount + 1 \in Nat
    BY <1>1 DEF Tallies
  <1>7. tally' \in Tallies
    BY <1>2, <1>5, <1>6 DEF Tallies
  <1> QED
    BY <1>7, NoneAssumption

\* What the handlers have in common: none takes back a poll, a tally or an
\* audit record, only a creation reopens a poll, and one that leaves the state
\* clean leaves it alone.
LEMMA ExecuteFacts ==
    ASSUME TypeOK, TypeOK', NEW t \in Txs, ExecuteTx(t, poll)
    PROVE  /\ poll.status # "none" => poll'.status # "none"
           /\ t \in PollCreateTxs =>
                 /\ poll'.status = "pending" /\ tally' = tally
                 /\ dirty' = TRUE /\ t.type = "PollCreate"
           /\ tally # None => tally' # None
           /\ rescissions \subseteq rescissions' /\ restores \subseteq restores'
           /\ dirty' = TRUE \/ UNCHANGED <<poll, voteDirections, voterRegistry, tally,
                                           confirms, rescissions, restores, dirty>>
           /\ t \notin PollCreateTxs /\ (tally # None <=> poll.status = "closed")
                 => (tally' # None <=> poll'.status = "closed")
  <1> USE DEF lists, audit, rolling
  <1>0. /\ poll \in PollRecords /\ poll' \in PollRecords
        /\ tally # None => tally \in Tallies
    BY DEF TypeOK
  <1>1. CASE t \in PollCreateTxs /\ ExecutePollCreate(t)
    BY <1>1 DEF ExecutePollCreate, PollCreateTxs
  <1>2. CASE t \in BatchFlushTxs /\ ExecuteBatchFlush(t, poll)
    <2>1. poll'.status = poll.status
      BY <1>0, <1>2 DEF ExecuteBatchFlush, PollRecords
    <2> QED
      BY <1>2, <2>1 DEF ExecuteBatchFlush, BatchFlushTxs, PollCreateTxs
  <1>3. CASE t \in UpdateBallotTxs /\ ExecuteBallotUpdate(t)
    <2>1. Cardinality(confirms') \in Nat
      BY VoterSets DEF TypeOK
    <2>2. tally = None <=> tally' = None
      BY <1>0, <1>3, <2>1, ConfirmedTally DEF ExecuteBallotUpdate
    <2> QED
      BY <1>3, <2>2 DEF ExecuteBallotUpdate, UpdateBallotTxs, ChangeTxs, WithdrawTxs,
                        PollCreateTxs
  <1>4. CASE t \in ConfirmReceiptTxs /\ ExecuteConfirmReceipt(t)
    <2>1. poll'.status = poll.status
      BY <1>0, <1>4 DEF ExecuteConfirmReceipt, PollRecords
    <2>2. Cardinality(confirms') \in Nat
      BY VoterSets DEF TypeOK
    <2>3. tally = None <=> tally' = None
      BY <1>0, <1>4, <2>2, ConfirmedTally DEF ExecuteConfirmReceipt
    <2> QED
      BY <1>4, <2>1, <2>3 DEF ExecuteConfirmReceipt, ConfirmReceiptTxs, PollCreateTxs
  <1>5. CASE t \in PollCloseTxs /\ ExecutePollClose(t)
    <2>1. CASE ~ CountsMatch(voteDirections, voterRegistry)
      BY <1>5, <2>1 DEF ExecutePollClose, PollCloseTxs, PollCreateTxs
    <2>2. CASE CountsMatch(voteDirections, voterRegistry)
      <3>1. PICK d \in BOOLEAN :
               tally' = [counts |-> TallyCounts(poll.method, voteDirections),
                         total |-> Cardinality(Counted(voteDirections)),
                         confirmed |-> Cardinality(confirms),
                         degraded |-> d, rescissionCount |-> 0]
        BY <1>5, <2>2, Zenon DEF ExecutePollClose
      <3>2. /\ TallyCounts(poll.method, voteDirections) \in [Options -> Int]
            /\ Cardinality(Counted(voteDirections)) \in Int
        BY CountsType
      <3>3. Cardinality(confirms) \in Nat
        BY VoterSets DEF TypeOK
      <3>4. tally' \in Tallies
        BY <3>1, <3>2, <3>3 DEF Tallies
      <3>5. poll' = [poll EXCEPT !.status = "closed"] /\ dirty' = TRUE
            /\ UNCHANGED <<rescissions, restores>>
        BY <1>5, <2>2 DEF ExecutePollClose
      <3>6. poll'.status = "closed"
        BY <1>0, <3>5 DEF PollRecords
      <3> QED
        BY <1>5, <3>4, <3>5, <3>6, NoneAssumption DEF PollCloseTxs, PollCreateTxs
    <2> QED
      BY <2>1, <2>2
  <1>6. CASE t \in ResealVoteTxs /\ ExecuteResealVote(t)
    <2>1. poll'.status = poll.status
      BY <1>0, <1>6 DEF ExecuteResealVote, PollRecords
    <2> QED
      BY <1>6, <2>1 DEF ExecuteResealVote, ResealVoteTxs, PollCreateTxs
  <1>7. CASE t \in AuthorityRescindTxs /\ ExecuteAuthorityRescind(t)
    <2>1. poll'.status = poll.status
      BY <1>0, <1>7 DEF ExecuteAuthorityRescind, PollRecords
    <2>2. tally # None => tally' # None
      BY <1>0, <1>7, RescindedNotNone
    <2>3. tally = None => tally' = None
      BY <1>7 DEF ExecuteAuthorityRescind
    <2> QED
      BY <1>7, <2>1, <2>2, <2>3
         DEF ExecuteAuthorityRescind, AuthorityRescindTxs, PollCreateTxs
  <1>8. CASE t \in AuthorityRestoreTxs /\ ExecuteAuthorityRestore(t)
    BY <1>8 DEF ExecuteAuthorityRestore, AuthorityRestoreTxs, PollCreateTxs
  <1> QED
    BY <1>1, <1>2, <1>3, <1>4, <1>5, <1>6, <1>7, <1>8, TxCases

\* validateBallotCast changes nothing but the status, and neither creates nor
\* reopens a poll by it.
LEMMA OpenedFacts ==
    ASSUME TypeOK
    PROVE  /\ Opened.status = "none" <=> poll.status = "none"
           /\ Opened.status = "closed" <=> poll.status = "closed"
           /\ \A x : [Opened EXCEPT !.status = x] = [poll EXCEPT !.status = x]
  <1>1. poll \in PollRecords
    BY DEF TypeOK
  <1>2. CASE Votable
    <2>1. Opened = [poll EXCEPT !.status = "open"]
      BY <1>2 DEF Opened
    <2>2. poll.status \notin {"none", "closed"}
      BY <1>2 DEF Votable
    <2>3. Opened.status = "open"
      BY <1>1, <2>1 DEF PollRecords
    <2>4. ASSUME NEW x PROVE [Opened EXCEPT !.status = x] = [poll EXCEPT !.status = x]
      BY <1>1, <2>1 DEF PollRecords
    <2> QED
      BY <2>2, <2>3, <2>4
  <1>3. CASE ~ Votable
    BY <1>3 DEF Opened
  <1> QED
    BY <1>2, <1>3

\* Only creations are valid while there is no poll.
LEMMA NoPollValidates ==
    ASSUME NEW t \in Txs, ValidateTx(t), poll.status = "none"
    PROVE  t \in PollCreateTxs
  <1>1. t.type = "PollCreate"
    BY DEF ValidateTx, ValidateBatchFlush, ValidateBallotUpdate, Votable,
           ValidateConfirmReceipt, ValidatePollClose, ValidateResealVote,
           ValidateAuthorityRescind, ValidateAuthorityRestore
  <1> QED
    BY <1>1 DEF Txs, BatchFlushTxs, UpdateBallotTxs, ChangeTxs, WithdrawTxs,
                ConfirmReceiptTxs, PollCloseTxs, ResealVoteTxs,
                AuthorityRescindTxs, AuthorityRestoreTxs

\* Steps that leave lists, tally, audit records and database alone.
LEMMA SyncSame ==
    ASSUME TypeOK, SyncInv, poll' = poll \/ poll' = Opened,
           UNCHANGED <<db, voteDirections, voterRegistry, tally, confirms,
                       rescissions, restores, dirty>>
    PROVE  /\ ~ dirty' => /\ Clean'
                          /\ (poll'.status = "none") <=> (db'.poll.status = "none")
           /\ db'.rescissions \subseteq rescissions' /\ db'.restores \subseteq restores'
           /\ tally' = None => db'.tally = None
           /\ poll'.status = "none" => ~ dirty' /\ db'.poll.status = "none"
  <1>1. /\ poll'.status = "none" <=> poll.status = "none"
        /\ [poll' EXCEPT !.status = db.poll.status] = [poll EXCEPT !.status = db.poll.status]
    BY OpenedFacts
  <1>2. L1(voteDirections') = L1(voteDirections)
    OBVIOUS
  <1> QED
    BY <1>1, <1>2 DEF SyncInv, Clean

\* The clock, CheckTx and the re-check keep memory and database in step.
LEMMA SyncFront ==
    ASSUME AppTypeInv, SyncInv, Clock \/ SaveBlock \/ \E t \in Txs : CheckTx(t)
    PROVE  SyncInv'
  <1>0. TypeOK
    BY DEF AppTypeInv, AppTypeOK
  <1>1. /\ poll' = poll \/ poll' = Opened
        /\ UNCHANGED <<db, voteDirections, voterRegistry, tally, confirms,
                       rescissions, restores, dirty>>
    BY DEF Clock, Tick, stateVars, SaveBlock, CheckTx, dbVars, lists, audit
  <1>2. Idle' \/ ~ saved' => ~ dirty' /\ txi' = 1
    <2>1. CASE Clock \/ \E t \in Txs : CheckTx(t)
      BY <1>1, <2>1 DEF Clock, CheckTx, chain, SyncInv, Idle
    <2>2. CASE SaveBlock
      BY <1>1, <2>2 DEF SaveBlock, SyncInv
    <2> QED
      BY <2>1, <2>2
  <1>3. db.poll.status = "none" => mempool' \subseteq PollCreateTxs
    <2>1. CASE Clock \/ SaveBlock
      BY <2>1 DEF Clock, SaveBlock, SyncInv
    <2>2. ASSUME NEW t \in Txs, CheckTx(t), db.poll.status = "none"
          PROVE  mempool' \subseteq PollCreateTxs
      <3>1. Idle /\ mempool' \subseteq mempool \cup {t}
            /\ (t \in mempool' => t \in mempool \/ ValidateTx(t))
        BY <2>2 DEF CheckTx
      <3>2. poll.status = "none" /\ mempool \subseteq PollCreateTxs
        BY <2>2, <3>1 DEF SyncInv
      <3> QED
        BY <2>2, <3>1, <3>2, NoPollValidates
    <2> QED
      BY <2>1, <2>2
  <1>4. OnlyCreates => OnlyCreates'
    <2>1. CASE stored' = stored
      BY <2>1 DEF OnlyCreates
    <2>2. CASE SaveBlock /\ next # 1
      <3>1. /\ stored \in Seq(Blocks) /\ next \in 1..(Len(stored) + 1)
            /\ next - 1 \in 1..Len(stored)
        BY <2>2 DEF AppTypeInv, AppTypeOK
      <3>2. stored' = [stored EXCEPT ![next - 1] =
                          [stored[next - 1] EXCEPT !.hash = appHash]]
        BY <2>2 DEF SaveBlock
      <3>3. Len(stored') = Len(stored)
        BY <3>1, <3>2
      <3>4. \A i \in 1..Len(stored) : stored[i] \in Blocks
        BY <3>1
      <3>5. \A i \in 1..Len(stored) : stored'[i].txs = stored[i].txs
        BY <3>1, <3>2, <3>4 DEF Blocks
      <3> QED
        BY <3>3, <3>5 DEF OnlyCreates
    <2> QED
      BY <2>1, <2>2 DEF Clock, CheckTx, SaveBlock, chain
  <1>5. db' = db
    BY <1>1
  <1> QED
    BY <1>0, <1>1, <1>2, <1>3, <1>4, <1>5, SyncSame DEF SyncInv

\* A block holds what the mempool held.
LEMMA SyncDecide ==
    ASSUME AppTypeInv, SyncInv, DecideBlock
    PROVE  SyncInv'
  <1>0. TypeOK /\ stored \in Seq(Blocks) /\ Len(stored) \in Nat
    BY DEF AppTypeInv, AppTypeOK
  <1>1. PICK n \in Nat : \E txs \in [1..n -> mempool] :
                            stored' = Append(stored, [txs |-> txs, hash |-> None])
    <2>1. PICK n \in (IF CreateEmptyBlocks THEN 0 ELSE 1)..MaxBlockTxs :
             \E txs \in [1..n -> mempool] :
                stored' = Append(stored, [txs |-> txs, hash |-> None])
      BY DEF DecideBlock
    <2>2. n \in Nat
      BY AppBounds
    <2> QED
      BY <2>1, <2>2
  <1>2. PICK txs \in [1..n -> mempool] :
                            stored' = Append(stored, [txs |-> txs, hash |-> None])
    BY <1>1
  <1>3. /\ UNCHANGED <<poll, db, voteDirections, voterRegistry, tally, confirms,
                       rescissions, restores, dirty, mempool, saved, next, txi>>
        /\ Idle
    BY DEF DecideBlock, vars, stateVars, dbVars
  <1>4. Idle' \/ ~ saved' => ~ dirty' /\ txi' = 1
    BY <1>3 DEF SyncInv
  <1>5. db.poll.status = "none" => OnlyCreates'
    <2> SUFFICES ASSUME db.poll.status = "none",
                        NEW i \in 1..Len(stored'), NEW j \in 1..Len(stored'[i].txs)
                 PROVE  stored'[i].txs[j] \in PollCreateTxs
      BY DEF OnlyCreates
    <2>1. Len(stored') = Len(stored) + 1
      BY <1>0, <1>2
    <2>2. CASE i = Len(stored) + 1
      <3>1. stored'[i] = [txs |-> txs, hash |-> None]
        BY <1>0, <1>2, <2>2
      <3>2. stored'[i].txs = txs
        BY <3>1
      <3>3. j \in 1..n
        BY <3>2
      <3>4. mempool \subseteq PollCreateTxs
        BY DEF SyncInv
      <3> QED
        BY <3>2, <3>3, <3>4
    <2>3. CASE i # Len(stored) + 1
      <3>1. i \in 1..Len(stored) /\ stored'[i] = stored[i]
        BY <1>0, <1>2, <2>1, <2>3
      <3>2. j \in 1..Len(stored[i].txs)
        BY <3>1
      <3> QED
        BY <3>1, <3>2 DEF SyncInv, OnlyCreates
    <2> QED
      BY <2>2, <2>3
  <1> QED
    BY <1>0, <1>3, <1>4, <1>5, SyncSame DEF SyncInv

\* Executing a transaction changes nothing or marks the state dirty.
LEMMA SyncDeliver ==
    ASSUME AppTypeInv, AppTypeInv', SyncInv, DeliverTx
    PROVE  SyncInv'
  <1> DEFINE t == stored[next].txs[txi]
  <1>0. TypeOK /\ TypeOK'
    BY DEF AppTypeInv, AppTypeOK
  <1>1. t \in Txs /\ next \in 1..Len(stored) /\ txi \in 1..Len(stored[next].txs)
    BY CurrentBlock DEF DeliverTx, AppTypeInv
  <1>2. /\ UNCHANGED <<db, mempool, stored, next, saved>> /\ saved /\ ~ Idle
    BY DEF DeliverTx, dbVars
  <1>3. ~ (Idle' \/ ~ saved')
    BY <1>2 DEF Idle
  <1>4. OnlyCreates' <=> OnlyCreates
    BY <1>2 DEF OnlyCreates
  <1>5. CASE UNCHANGED stateVars
    BY <1>0, <1>2, <1>3, <1>4, <1>5, SyncSame DEF SyncInv, stateVars
  <1>6. CASE ExecuteTx(t, poll)
    <2>1. poll.status = "none" => t \in PollCreateTxs
      BY <1>1 DEF SyncInv, OnlyCreates
    <2>2. poll'.status # "none"
      BY <1>0, <1>1, <1>6, <2>1, ExecuteFacts
    <2>3. CASE dirty' = TRUE
      <3>1. /\ db.rescissions \subseteq rescissions' /\ db.restores \subseteq restores'
            /\ tally' = None => db.tally = None
        BY <1>0, <1>1, <1>6, ExecuteFacts DEF SyncInv
      <3> QED
        BY <1>2, <1>3, <1>4, <2>2, <2>3, <3>1 DEF SyncInv
    <2>4. CASE UNCHANGED <<poll, voteDirections, voterRegistry, tally,
                           confirms, rescissions, restores, dirty>>
      BY <1>0, <1>2, <1>3, <1>4, <2>4, SyncSame DEF SyncInv
    <2> QED
      BY <1>0, <1>1, <1>6, <2>3, <2>4, ExecuteFacts
  <1> QED
    BY <1>5, <1>6 DEF DeliverTx

\* Commit writes everything a block may have changed.
LEMMA SyncEnd ==
    ASSUME AppTypeInv, SyncInv, EndBlock
    PROVE  SyncInv'
  <1>0. TypeOK /\ db \in DbRecords
    BY DEF AppTypeInv, AppTypeOK
  <1>1. /\ UNCHANGED <<poll, voteDirections, voterRegistry, tally, confirms,
                       rescissions, restores, mempool>>
        /\ dirty' = FALSE /\ txi' = 1
    BY DEF EndBlock, lists, audit, marks
  <1>2. CASE dirty
    <2>1. db' = Persisted /\ poll.status # "none" /\ stored' = Tail(stored)
      BY <1>2 DEF EndBlock, SyncInv
    <2>2. /\ db'.poll = poll /\ db'.registry = db.registry \cup voterRegistry
          /\ db'.confirms = db.confirms \cup confirms
          /\ db'.rescissions = db.rescissions \cup rescissions
          /\ db'.restores = db.restores \cup restores
          /\ db'.tally = IF tally = None THEN db.tally ELSE tally
          /\ db'.votes = [b \in Ballots |-> IF voteDirections[b] = None
                                            THEN db.votes[b] ELSE voteDirections[b]]
      BY <2>1 DEF Persisted
    <2>3. db'.rescissions = rescissions /\ db'.restores = restores /\ db'.tally = tally
      BY <2>2 DEF SyncInv
    <2>4. \A b \in L1(voteDirections) : db'.votes[b] = voteDirections[b]
      BY <2>2 DEF L1
    <2>5. [poll EXCEPT !.status = db'.poll.status] = db'.poll
      BY <1>0, <2>2 DEF TypeOK, PollRecords
    <2>6. Clean'
      BY <1>1, <2>2, <2>3, <2>4, <2>5 DEF Clean
    <2> QED
      BY <1>1, <2>1, <2>2, <2>3, <2>6 DEF SyncInv
  <1>3. CASE ~ dirty
    <2>1. UNCHANGED <<db, stored, dirty>>
      BY <1>0, <1>1, <1>3 DEF EndBlock, dbVars, TypeOK
    <2>2. OnlyCreates' <=> OnlyCreates
      BY <2>1 DEF OnlyCreates
    <2> QED
      BY <1>0, <1>1, <1>3, <2>1, <2>2, SyncSame DEF SyncInv
  <1> QED
    BY <1>2, <1>3

\* A restart reads the database.
LEMMA SyncRestart ==
    ASSUME AppTypeInv, SyncInv, Restart
    PROVE  SyncInv'
  <1>0. db \in DbRecords /\ db.poll \in PollRecords
    BY DEF AppTypeInv, DbRecords
  <1>1. /\ poll' = db.poll /\ voteDirections' = db.votes /\ voterRegistry' = db.registry
        /\ tally' = db.tally /\ confirms' = db.confirms
        /\ rescissions' = db.rescissions /\ restores' = db.restores
        /\ dirty' = FALSE /\ txi' = 1 /\ mempool' = {} /\ db' = db /\ stored' = stored
    BY DEF Restart
  <1>2. [db.poll EXCEPT !.status = db.poll.status] = db.poll
    BY <1>0 DEF PollRecords
  <1>3. Clean'
    BY <1>1, <1>2 DEF Clean
  <1>4. OnlyCreates' <=> OnlyCreates
    BY <1>1 DEF OnlyCreates
  <1> QED
    BY <1>1, <1>3, <1>4 DEF SyncInv

\* The same for every step.
LEMMA SyncNext ==
    AppTypeInv /\ AppTypeInv' /\ SyncInv /\ [AppNext]_appVars => SyncInv'
  <1> SUFFICES ASSUME AppTypeInv, AppTypeInv', SyncInv, [AppNext]_appVars PROVE SyncInv'
    OBVIOUS
  <1>1. CASE UNCHANGED appVars
    <2>1. UNCHANGED <<poll, db, voteDirections, voterRegistry, tally, confirms,
                      rescissions, restores, dirty, mempool, stored, next, txi, saved>>
      BY <1>1 DEF appVars, vars, stateVars, dbVars, chain
    <2> QED
      BY <2>1, SyncSame DEF SyncInv, Idle, OnlyCreates, AppTypeInv, AppTypeOK
  <1> QED
    BY <1>1, SyncFront, SyncDecide, SyncDeliver, SyncEnd, SyncRestart DEF AppNext

\* A new node has nothing in memory and nothing on disk.
LEMMA SyncInit == AppInit => SyncInv
  <1> SUFFICES ASSUME AppInit PROVE SyncInv
    OBVIOUS
  <1>1. /\ poll = NoPoll /\ db.poll = NoPoll /\ voteDirections = [b \in Ballots |-> None]
        /\ voterRegistry = {} /\ tally = None /\ db.tally = None /\ confirms = {}
        /\ rescissions = {} /\ db.rescissions = {} /\ restores = {} /\ db.restores = {}
        /\ dirty = FALSE /\ txi = 1 /\ mempool = {} /\ stored = <<>>
    BY DEF AppInit, Init
  <1>2. [NoPoll EXCEPT !.status = NoPoll.status] = NoPoll /\ NoPoll.status = "none"
    BY DEF NoPoll
  <1>3. L1(voteDirections) = {}
    BY <1>1 DEF L1
  <1>4. Clean
    BY <1>1, <1>2, <1>3 DEF Clean
  <1>5. OnlyCreates
    BY <1>1 DEF OnlyCreates
  <1> QED
    BY <1>1, <1>2, <1>4, <1>5 DEF SyncInv

\* Memory and database stay in step.
LEMMA SyncAlways == AppSpec => []SyncInv
  BY SyncInit, SyncNext, AppTypeAlways, PTL DEF AppSpec

\* Between blocks, everything that queries show would survive a crash: no
\* handler, validated or not, changes a map without marking the state dirty,
\* and Commit writes every map.
THEOREM DurableBetweenBlocks == AppSpec => []Durable
  <1>1. SyncInv => Durable
    BY DEF SyncInv, Clean, Durable
  <1> QED
    BY <1>1, SyncAlways, PTL

-----------------------------------------------------------------------------
(* Closed polls                                                             *)

\* Steps that change neither tally nor database, and no status that matters.
LEMMA ClosedSame ==
    ASSUME TypeOK, ClosedInv, poll' = poll \/ poll' = Opened,
           UNCHANGED <<tally, db, closed, recreated>>
    PROVE  ClosedInv'
  BY OpenedFacts DEF ClosedInv

\* Every step keeps status and tally together, in memory and on disk.
LEMMA ClosedInvNext ==
    AppTypeInv /\ AppTypeInv' /\ SyncInv /\ ClosedInv /\ [AppNext]_appVars => ClosedInv'
  <1> SUFFICES ASSUME AppTypeInv, AppTypeInv', SyncInv, ClosedInv, [AppNext]_appVars
               PROVE  ClosedInv'
    OBVIOUS
  <1>0. TypeOK /\ TypeOK' /\ db \in DbRecords
    BY DEF AppTypeInv, AppTypeOK
  <1>1. CASE UNCHANGED appVars \/ DecideBlock
    BY <1>0, <1>1, ClosedSame DEF appVars, DecideBlock, vars, stateVars, dbVars, history
  <1>2. CASE Clock \/ SaveBlock \/ \E t \in Txs : CheckTx(t)
    BY <1>0, <1>2, ClosedSame
       DEF Clock, Tick, stateVars, SaveBlock, CheckTx, dbVars, history
  <1>3. CASE DeliverTx
    <2> DEFINE t == stored[next].txs[txi]
    <2>1. t \in Txs
      BY <1>3, CurrentBlock DEF DeliverTx, AppTypeInv
    <2>2. db' = db /\ closed' = closed
          /\ recreated' = (recreated \/ (t.type = "PollCreate" /\ tally # None))
      BY <1>3 DEF DeliverTx, dbVars
    <2>3. CASE UNCHANGED stateVars
      <3>1. poll' = poll /\ tally' = tally
        BY <2>3 DEF stateVars
      <3>2. recreated => recreated'
        <4> HIDE DEF t
        <4> QED
          BY <2>2, Zenon
      <3> QED
        BY <2>2, <3>1, <3>2 DEF ClosedInv
    <2>4. CASE ExecuteTx(t, poll)
      <3>1. CASE t \in PollCreateTxs
        BY <1>0, <2>1, <2>2, <2>4, <3>1, ExecuteFacts DEF ClosedInv
      <3>2. CASE t \notin PollCreateTxs
        <4>1. (tally # None <=> poll.status = "closed")
                 => (tally' # None <=> poll'.status = "closed")
          BY <1>0, <2>1, <2>4, <3>2, ExecuteFacts
        <4> QED
          BY <2>2, <4>1 DEF ClosedInv
      <3> QED
        BY <3>1, <3>2
    <2> QED
      BY <1>3, <2>3, <2>4 DEF DeliverTx
  <1>4. CASE EndBlock
    <2>1. /\ poll' = poll /\ tally' = tally /\ recreated' = recreated
          /\ closed' = (db'.tally # None)
      BY <1>4 DEF EndBlock
    <2>2. CASE dirty
      <3>1. db' = Persisted /\ poll.status # "none"
        BY <1>4, <2>2 DEF EndBlock, SyncInv
      <3>2. /\ db'.poll = poll
            /\ db'.tally = IF tally = None THEN db.tally ELSE tally
        BY <3>1 DEF Persisted
      <3>3. db'.tally = tally
        BY <3>2 DEF SyncInv
      <3> QED
        BY <2>1, <3>2, <3>3 DEF ClosedInv
    <2>3. CASE ~ dirty
      <3>1. db' = db
        BY <1>4, <2>3 DEF EndBlock, dbVars
      <3> QED
        BY <2>1, <3>1 DEF ClosedInv
    <2> QED
      BY <2>2, <2>3
  <1>5. CASE Restart
    BY <1>5 DEF Restart, ClosedInv
  <1> QED
    BY <1>1, <1>2, <1>3, <1>4, <1>5 DEF AppNext

\* There is no tally to begin with.
LEMMA ClosedInvInit == AppInit => ClosedInv
  <1> SUFFICES ASSUME AppInit PROVE ClosedInv
    OBVIOUS
  <1>1. /\ poll = NoPoll /\ db.poll = NoPoll /\ tally = None /\ db.tally = None
        /\ closed = FALSE
    BY DEF AppInit, Init
  <1> QED
    BY <1>1 DEF ClosedInv, NoPoll

\* Status and tally stay together.
LEMMA ClosedInvAlways == AppSpec => []ClosedInv
  BY ClosedInvInit, ClosedInvNext, AppTypeAlways, SyncAlways, PTL DEF AppSpec

\* A poll is closed exactly when it has a tally, through unvalidated blocks,
\* crashes and replays, unless its creation was replayed over the tally.
THEOREM ClosedWithTally == AppSpec => []ClosedIffTallied
  <1>1. ClosedInv => ClosedIffTallied
    BY DEF ClosedInv, ClosedIffTallied
  <1> QED
    BY <1>1, ClosedInvAlways, PTL

\* Once a close has reached the database, no block, crash or replay loses the
\* tally, and only a replayed creation reopens the poll.
THEOREM ClosesAreFinal == AppSpec => []ClosedForGood
  <1>1. SyncInv /\ ClosedInv => ClosedForGood
    BY DEF SyncInv, ClosedInv, ClosedForGood
  <1> QED
    BY <1>1, SyncAlways, ClosedInvAlways, PTL

-----------------------------------------------------------------------------
(* The hidden link                                                          *)

\* Whether t, a transaction about v, still applies to the entries of v.  Of an
\* update that names another voter's ballot nothing is asked.
Applies(votes, registry, t, v) ==
    /\ t.type = "BatchFlush" =>
          /\ v \notin registry
          /\ \A s1, s2 \in t.submissions :
                Owner[s1.ballot] = Owner[s2.ballot] => s1 = s2
    /\ t.type = "UpdateBallot" /\ t.voter = Owner[t.old] =>
          t.old \in L1(votes) /\ v \in registry
    /\ t.type = "AuthorityRescind" => t.ballot \in L1(votes) /\ v \in registry

\* Database and memory hold entries of v under the same keys.
SameKeys(v) ==
    /\ Own(db.votes, v) = Own(voteDirections, v)
    /\ v \in db.registry <=> v \in voterRegistry

\* Memory is linked for the undisturbed, and so is the database for those of
\* them who have nothing stale in it.
LinkedBoth ==
    /\ \A v \in Voters \ (disturbed \cup restores \cup crossed) :
          LinkedIn(voteDirections, voterRegistry, v)
    /\ \A v \in Voters \ (disturbed \cup stale \cup db.restores \cup crossed) :
          LinkedIn(db.votes, db.registry, v)
    /\ ~ dirty => \A v \in Voters \ stale : SameKeys(v)

\* Between blocks the mempool applies to the undisturbed.
MempoolApplies ==
    Idle => \A t \in mempool : \A v \in VotersOf(t) \ (disturbed \cup restores) :
               Applies(voteDirections, voterRegistry, t, v)

\* Of the blocks to execute all but the last were executed before, and their
\* voters count as disturbed.
ReplaysDisturb ==
    \A i \in next..(Len(stored) - 1) : VotersIn(stored[i].txs) \subseteq disturbed

\* What is still to execute applies to the database, should the node crash ...
BlocksApplyToDb ==
    \A i \in next..Len(stored) : \A j \in 1..Len(stored[i].txs) :
        \A v \in VotersOf(stored[i].txs[j]) \ (disturbed \cup stale \cup db.restores) :
            Applies(db.votes, db.registry, stored[i].txs[j], v)

\* ... and to memory, for the voters that the block has not touched yet.
BlocksApply ==
    \A i \in next..Len(stored) : \A j \in 1..Len(stored[i].txs) :
        \A v \in VotersOf(stored[i].txs[j]) \ (disturbed \cup restores) :
            (i = next => j >= txi /\ v \notin VotersIn(SubSeq(stored[i].txs, 1, txi - 1)))
                => Applies(voteDirections, voterRegistry, stored[i].txs[j], v)

LinkInv ==
    ~ panicked =>
        /\ LinkedBoth /\ MempoolApplies /\ ReplaysDisturb
        /\ BlocksApplyToDb /\ BlocksApply

\* What each handler, validated or not, does to the keys of the lists.
LEMMA KeysFlush ==
    ASSUME TypeOK, NEW t \in BatchFlushTxs, ExecuteBatchFlush(t, poll)
    PROVE  /\ \A s \in t.submissions : s.ballot \in Ballots
           /\ \A b \in Ballots :
                 b \in L1(voteDirections') <=>
                    b \in L1(voteDirections) \/ \E s \in t.submissions : s.ballot = b
           /\ voterRegistry' =
                 voterRegistry \cup {Owner[s.ballot] : s \in t.submissions}
           /\ t.type = "BatchFlush"
           /\ VotersOf(t) = {Owner[s.ballot] : s \in t.submissions}
  <1>1. \A s \in t.submissions : s.ballot \in Ballots /\ s.choices \in ChoiceLists
    BY DEF BatchFlushTxs, Submissions
  <1>2. ASSUME NEW b \in Ballots
        PROVE  b \in L1(voteDirections') <=>
                  b \in L1(voteDirections) \/ \E s \in t.submissions : s.ballot = b
    <2>1. CASE \E s \in t.submissions : s.ballot = b
      <3>1. PICK s \in t.submissions :
               voteDirections'[b] =
                  [choices |-> s.choices, sealed |-> FALSE, keyed |-> TRUE]
        BY <2>1 DEF ExecuteBatchFlush, FlushedVotes
      <3>2. voteDirections'[b] \in VoteRecords
        BY <3>1, <1>1 DEF VoteRecords
      <3> QED
        BY <2>1, <3>2, NoneAssumption DEF L1
    <2>2. CASE ~ \E s \in t.submissions : s.ballot = b
      BY <2>2 DEF ExecuteBatchFlush, FlushedVotes, L1
    <2> QED
      BY <2>1, <2>2
  <1> QED
    BY <1>1, <1>2 DEF ExecuteBatchFlush, BatchFlushTxs, VotersOf

\* An update takes the ballot it names away, and removes its voter or gives the
\* voter a ballot.
LEMMA KeysUpdate ==
    ASSUME TypeOK, NEW t \in UpdateBallotTxs, ExecuteBallotUpdate(t)
    PROVE  /\ t.old \in Ballots /\ t.type = "UpdateBallot"
           /\ VotersOf(t) = {t.voter, Owner[t.old]}
           /\ \/ /\ L1(voteDirections') = L1(voteDirections) \ {t.old}
                 /\ voterRegistry' = voterRegistry \ {t.voter}
              \/ /\ L1(voteDirections') = (L1(voteDirections) \ {t.old}) \cup {t.new}
                 /\ t.new \in Ballots /\ Owner[t.new] = t.voter
                 /\ voterRegistry' = voterRegistry
  <1>1. /\ t.old \in Ballots /\ t.type = "UpdateBallot"
        /\ t.choices # <<>> => /\ t.choices \in ChoiceLists /\ t.new \in Ballots
                               /\ Owner[t.new] = t.voter
    BY DEF UpdateBallotTxs, ChangeTxs, WithdrawTxs
  <1>2. VotersOf(t) = {t.voter, Owner[t.old]}
    BY <1>1 DEF VotersOf
  <1>3. CASE t.choices = <<>>
    <2>1. L1(voteDirections') = L1(voteDirections) \ {t.old}
      BY <1>1, <1>3 DEF ExecuteBallotUpdate, TypeOK, L1
    <2>2. voterRegistry' = voterRegistry \ {t.voter}
      BY <1>3 DEF ExecuteBallotUpdate
    <2> QED
      BY <1>1, <1>2, <2>1, <2>2
  <1>4. CASE t.choices # <<>>
    <2> DEFINE r == [choices |-> t.choices, sealed |-> FALSE, keyed |-> FALSE]
    <2>1. r \in VoteRecords
      BY <1>1, <1>4 DEF VoteRecords
    <2>2. r # None
      BY <2>1, NoneAssumption
    <2>3. voteDirections' = [voteDirections EXCEPT ![t.old] = None, ![t.new] = r]
          /\ voterRegistry' = voterRegistry
      BY <1>4 DEF ExecuteBallotUpdate
    <2> HIDE DEF r
    <2>4. L1(voteDirections') = (L1(voteDirections) \ {t.old}) \cup {t.new}
      BY <1>1, <1>4, <2>2, <2>3 DEF TypeOK, L1
    <2> QED
      BY <1>1, <1>2, <1>4, <2>3, <2>4
  <1> QED
    BY <1>3, <1>4

\* A rescission removes the entries of the voter it names.
LEMMA KeysRescind ==
    ASSUME TypeOK, NEW t \in AuthorityRescindTxs, ExecuteAuthorityRescind(t)
    PROVE  /\ t.ballot \in Ballots /\ t.type = "AuthorityRescind"
           /\ VotersOf(t) = {Owner[t.ballot]}
           /\ L1(voteDirections') = L1(voteDirections) \ {t.ballot}
           /\ voterRegistry' = voterRegistry \ {Owner[t.ballot]}
  <1>1. t.ballot \in Ballots /\ t.type = "AuthorityRescind"
    BY DEF AuthorityRescindTxs
  <1>2. VotersOf(t) = {Owner[t.ballot]}
    BY <1>1 DEF VotersOf
  <1>3. L1(voteDirections') = L1(voteDirections) \ {t.ballot}
    BY <1>1 DEF ExecuteAuthorityRescind, TypeOK, L1
  <1> QED
    BY <1>1, <1>2, <1>3 DEF ExecuteAuthorityRescind

\* Everything else leaves the keys alone.
LEMMA KeysOther ==
    ASSUME TypeOK, NEW t \in Txs, ExecuteTx(t, poll), t \notin BatchFlushTxs,
           t \notin UpdateBallotTxs, t \notin AuthorityRescindTxs
    PROVE  L1(voteDirections') = L1(voteDirections) /\ voterRegistry' = voterRegistry
  <1>1. CASE t \in ResealVoteTxs /\ ExecuteResealVote(t)
    <2>1. CASE t.ballot \notin Counted(voteDirections)
      BY <1>1, <2>1 DEF ExecuteResealVote, lists
    <2>2. CASE t.ballot \in Counted(voteDirections)
      <3> DEFINE r == [voteDirections[t.ballot] EXCEPT !.sealed = TRUE]
      <3>1. r \in VoteRecords /\ t.ballot \in L1(voteDirections)
        BY <2>2 DEF Counted, L1, TypeOK, VoteRecords
      <3>2. r # None
        BY <3>1, NoneAssumption
      <3>3. voteDirections' = [voteDirections EXCEPT ![t.ballot] = r]
            /\ voterRegistry' = voterRegistry
        BY <1>1, <2>2 DEF ExecuteResealVote
      <3> HIDE DEF r
      <3> QED
        BY <3>1, <3>2, <3>3 DEF TypeOK, L1
    <2> QED
      BY <2>1, <2>2
  <1>2. CASE \/ ExecutePollCreate(t) \/ ExecuteConfirmReceipt(t)
             \/ ExecutePollClose(t) \/ ExecuteAuthorityRestore(t)
    BY <1>2 DEF ExecutePollCreate, ExecuteConfirmReceipt, ExecutePollClose,
                ExecuteAuthorityRestore, lists
  <1> QED
    BY <1>1, <1>2, TxCases

\* TxCases for the transactions that touch the lists.
LEMMA TxTyped ==
    ASSUME NEW t \in Txs, ExecuteTx(t, poll)
    PROVE  \/ t \in BatchFlushTxs /\ ExecuteBatchFlush(t, poll)
           \/ t \in UpdateBallotTxs /\ ExecuteBallotUpdate(t)
           \/ t \in AuthorityRescindTxs /\ ExecuteAuthorityRescind(t)
           \/ t \notin BatchFlushTxs /\ t \notin UpdateBallotTxs
              /\ t \notin AuthorityRescindTxs
  <1>1. /\ \A x \in BatchFlushTxs : x.type = "BatchFlush"
        /\ \A x \in UpdateBallotTxs : x.type = "UpdateBallot"
        /\ \A x \in AuthorityRescindTxs : x.type = "AuthorityRescind"
    BY DEF BatchFlushTxs, UpdateBallotTxs, ChangeTxs, WithdrawTxs, AuthorityRescindTxs
  <1> QED
    BY <1>1 DEF ExecuteTx

\* A transaction leaves the entries of everyone it is not about alone.
LEMMA OthersKept ==
    ASSUME TypeOK, NEW t \in Txs, ExecuteTx(t, poll),
           NEW v \in Voters, v \notin VotersOf(t)
    PROVE  /\ Own(voteDirections', v) = Own(voteDirections, v)
           /\ v \in voterRegistry' <=> v \in voterRegistry
  <1>0. L1(voteDirections) \subseteq Ballots /\ L1(voteDirections') \subseteq Ballots
    BY DEF L1
  <1>1. CASE t \in BatchFlushTxs /\ ExecuteBatchFlush(t, poll)
    <2>1. \A b \in Ballots : Owner[b] = v =>
             (b \in L1(voteDirections') <=> b \in L1(voteDirections))
      BY <1>1, KeysFlush
    <2>2. v \in voterRegistry' <=> v \in voterRegistry
      BY <1>1, KeysFlush
    <2> QED
      BY <1>0, <2>1, <2>2 DEF Own
  <1>2. CASE t \in UpdateBallotTxs /\ ExecuteBallotUpdate(t)
    BY <1>2, KeysUpdate DEF Own
  <1>3. CASE t \in AuthorityRescindTxs /\ ExecuteAuthorityRescind(t)
    BY <1>3, KeysRescind DEF Own
  <1>4. CASE t \notin BatchFlushTxs /\ t \notin UpdateBallotTxs
             /\ t \notin AuthorityRescindTxs
    BY <1>4, KeysOther DEF Own
  <1> QED
    BY <1>1, <1>2, <1>3, <1>4, TxTyped

\* A transaction that applies to a linked voter leaves them linked.
LEMMA AppliedLinked ==
    ASSUME TypeOK, NEW t \in Txs, ExecuteTx(t, poll), NEW v \in VotersOf(t),
           LinkedIn(voteDirections, voterRegistry, v), v \notin Crossing(t),
           Applies(voteDirections, voterRegistry, t, v)
    PROVE  LinkedIn(voteDirections', voterRegistry', v)
  <1>0. L1(voteDirections) \subseteq Ballots /\ L1(voteDirections') \subseteq Ballots
    BY DEF L1
  <1>1. CASE t \in BatchFlushTxs /\ ExecuteBatchFlush(t, poll)
    <2>1. PICK s \in t.submissions : Owner[s.ballot] = v
      BY <1>1, KeysFlush
    <2>2. /\ v \notin voterRegistry
          /\ \A s1, s2 \in t.submissions : Owner[s1.ballot] = Owner[s2.ballot] => s1 = s2
      BY <1>1, KeysFlush DEF Applies
    <2>3. Own(voteDirections, v) = {}
      BY <2>2 DEF LinkedIn
    <2>4. \A b \in L1(voteDirections') : Owner[b] = v => b = s.ballot
      BY <1>0, <1>1, <2>1, <2>2, <2>3, KeysFlush DEF Own
    <2>5. s.ballot \in L1(voteDirections') /\ v \in voterRegistry'
      BY <1>1, <2>1, KeysFlush
    <2> QED
      BY <2>1, <2>4, <2>5 DEF LinkedIn, Own
  <1>2. CASE t \in UpdateBallotTxs /\ ExecuteBallotUpdate(t)
    <2>0. v = Owner[t.old] /\ v = t.voter /\ t.type = "UpdateBallot"
      BY <1>2, KeysUpdate DEF Crossing
    <2>1. t.old \in L1(voteDirections) /\ v \in voterRegistry
      BY <2>0 DEF Applies
    <2>2. t.old \in Own(voteDirections, v)
      BY <2>0, <2>1 DEF Own
    <2>3. \A b \in L1(voteDirections) : Owner[b] = v => b = t.old
      BY <2>2 DEF LinkedIn, Own
    <2>4. CASE /\ L1(voteDirections') = L1(voteDirections) \ {t.old}
               /\ voterRegistry' = voterRegistry \ {t.voter}
      BY <2>0, <2>3, <2>4 DEF LinkedIn, Own
    <2>5. CASE /\ L1(voteDirections') = (L1(voteDirections) \ {t.old}) \cup {t.new}
               /\ Owner[t.new] = t.voter /\ voterRegistry' = voterRegistry
      BY <2>0, <2>1, <2>3, <2>5 DEF LinkedIn, Own
    <2> QED
      BY <1>2, <2>4, <2>5, KeysUpdate
  <1>3. CASE t \in AuthorityRescindTxs /\ ExecuteAuthorityRescind(t)
    <2>1. v = Owner[t.ballot] /\ t.ballot \in L1(voteDirections)
      BY <1>3, KeysRescind DEF Applies
    <2>2. t.ballot \in Own(voteDirections, v)
      BY <2>1 DEF Own
    <2>3. \A b \in L1(voteDirections) : Owner[b] = v => b = t.ballot
      BY <2>2 DEF LinkedIn, Own
    <2> QED
      BY <1>3, <2>1, <2>3, KeysRescind DEF LinkedIn, Own
  <1>4. CASE t \notin BatchFlushTxs /\ t \notin UpdateBallotTxs
             /\ t \notin AuthorityRescindTxs
    BY <1>4, KeysOther DEF LinkedIn, Own
  <1> QED
    BY <1>1, <1>2, <1>3, <1>4, TxTyped

\* Whether a transaction applies to a voter depends on the keys of that voter.
LEMMA AppliesKept ==
    ASSUME NEW votes1, NEW registry1, NEW votes2, NEW registry2, NEW t \in Txs,
           NEW v \in VotersOf(t), Own(votes1, v) = Own(votes2, v),
           v \in registry1 <=> v \in registry2,
           Applies(votes1, registry1, t, v)
    PROVE  Applies(votes2, registry2, t, v)
  <1>1. t.type = "UpdateBallot" /\ t.voter = Owner[t.old] => v = Owner[t.old]
    BY DEF VotersOf
  <1>2. t.type = "AuthorityRescind" => v = Owner[t.ballot]
    BY DEF VotersOf
  <1> QED
    BY <1>1, <1>2 DEF Applies, Own

\* CheckTx accepts what applies.
LEMMA ValidApplies ==
    ASSUME NEW t \in Txs, ValidateTx(t), NEW v \in VotersOf(t), v \notin restores
    PROVE  Applies(voteDirections, voterRegistry, t, v)
  <1>1. CASE t.type = "BatchFlush"
    <2>1. PICK s \in t.submissions : Owner[s.ballot] = v
      BY <1>1 DEF VotersOf
    <2>2. ValidateBatchFlush(t)
      BY <1>1 DEF ValidateTx
    <2> QED
      BY <1>1, <2>1, <2>2
         DEF Applies, ValidateBatchFlush, ValidateBallotCast, HasRestoreGrant
  <1>2. CASE t.type = "UpdateBallot"
    <2>1. /\ v \in {t.voter, Owner[t.old]} /\ ValidateBallotUpdate(t)
          /\ t.old \in Ballots
      BY <1>2 DEF VotersOf, ValidateTx, Txs, PollCreateTxs, BatchFlushTxs,
                  UpdateBallotTxs, ChangeTxs, WithdrawTxs, ConfirmReceiptTxs, PollCloseTxs, ResealVoteTxs,
                  AuthorityRescindTxs, AuthorityRestoreTxs
    <2> QED
      BY <1>2, <2>1 DEF Applies, ValidateBallotUpdate, L1
  <1>3. CASE t.type = "AuthorityRescind"
    <2>1. v = Owner[t.ballot] /\ ValidateAuthorityRescind(t) /\ t.ballot \in Ballots
      BY <1>3 DEF VotersOf, ValidateTx, Txs, PollCreateTxs, BatchFlushTxs,
                  UpdateBallotTxs, ChangeTxs, WithdrawTxs, ConfirmReceiptTxs,
                  PollCloseTxs, ResealVoteTxs, AuthorityRescindTxs,
                  AuthorityRestoreTxs
    <2> QED
      BY <1>3, <2>1 DEF Applies, ValidateAuthorityRescind, L1
  <1> QED
    BY <1>1, <1>2, <1>3 DEF Applies

\* The transactions of the stored blocks are transactions.
LEMMA StoredTxs ==
    ASSUME AppTypeInv, NEW i \in 1..Len(stored)
    PROVE  /\ stored[i].txs \in Seq(Txs)
           /\ \A j \in 1..Len(stored[i].txs) :
                 /\ stored[i].txs[j] \in Txs
                 /\ VotersOf(stored[i].txs[j]) \subseteq VotersIn(stored[i].txs)
                 /\ VotersOf(stored[i].txs[j]) \subseteq Voters
  <1>1. stored[i] \in Blocks
    BY DEF AppTypeInv
  <1>2. stored[i].txs \in Seq(Txs)
    BY <1>1 DEF Blocks
  <1> QED
    BY <1>2, VotersOfType DEF VotersIn

\* The voters that the first n transactions of a block are about.
LEMMA EarlierVoters ==
    ASSUME NEW txs \in Seq(Txs), NEW n \in 1..Len(txs)
    PROVE  VotersIn(SubSeq(txs, 1, n)) =
              VotersIn(SubSeq(txs, 1, n - 1)) \cup VotersOf(txs[n])
  <1>1. /\ Len(SubSeq(txs, 1, n)) = n /\ Len(SubSeq(txs, 1, n - 1)) = n - 1
        /\ \A i \in 1..n : SubSeq(txs, 1, n)[i] = txs[i]
        /\ \A i \in 1..(n - 1) : SubSeq(txs, 1, n - 1)[i] = txs[i]
    OBVIOUS
  <1>2. VotersIn(SubSeq(txs, 1, n)) = UNION {VotersOf(txs[i]) : i \in 1..n}
    BY <1>1 DEF VotersIn
  <1>3. VotersIn(SubSeq(txs, 1, n - 1)) = UNION {VotersOf(txs[i]) : i \in 1..(n - 1)}
    BY <1>1 DEF VotersIn
  <1>4. \A i : i \in 1..n <=> i \in 1..(n - 1) \/ i = n
    OBVIOUS
  <1> QED
    BY <1>2, <1>3, <1>4

\* The keys of clean memory and of the database agree for those without stale
\* entries.
LEMMA CleanKeys ==
    ASSUME LinkedBoth, SyncInv, ~ dirty, NEW v \in Voters \ stale
    PROVE  SameKeys(v) /\ restores = db.restores
  BY DEF LinkedBoth, SyncInv, Clean

\* The clock, CheckTx and the re-check of the mempool keep the link.
LEMMA LinkFront ==
    ASSUME AppTypeInv, LinkInv, Clock \/ SaveBlock \/ \E t \in Txs : CheckTx(t)
    PROVE  LinkInv'
  <1>0. ~ panicked /\ panicked' = panicked
        /\ LinkedBoth /\ MempoolApplies /\ ReplaysDisturb /\ BlocksApplyToDb /\ BlocksApply
    BY DEF LinkInv, Clock, SaveBlock, CheckTx
  <1>1. UNCHANGED <<voteDirections, voterRegistry, restores, dirty, db, next, txi,
                    disturbed, stale, crossed>>
    BY DEF Clock, Tick, stateVars, marks, SaveBlock, CheckTx, lists, audit, dbVars,
           chain, history
  <1>2. Len(stored') = Len(stored) /\ \A i \in 1..Len(stored) : stored'[i].txs = stored[i].txs
    <2>1. CASE stored' = stored
      BY <2>1
    <2>2. CASE SaveBlock /\ next # 1
      <3>1. /\ stored \in Seq(Blocks) /\ next \in 1..(Len(stored) + 1)
            /\ next - 1 \in 1..Len(stored)
        BY <2>2 DEF AppTypeInv, AppTypeOK
      <3>2. stored' = [stored EXCEPT ![next - 1] =
                          [stored[next - 1] EXCEPT !.hash = appHash]]
        BY <2>2 DEF SaveBlock
      <3>3. \A i \in 1..Len(stored) : stored[i] \in Blocks
        BY <3>1
      <3>4. \A i \in 1..Len(stored) : stored'[i].txs = stored[i].txs
        BY <3>1, <3>2, <3>3 DEF Blocks
      <3> QED
        BY <3>1, <3>2, <3>4
    <2> QED
      BY <2>1, <2>2 DEF Clock, CheckTx, SaveBlock, chain
  <1>3. next \in Nat /\ next >= 1 /\ Len(stored) \in Nat
    BY DEF AppTypeInv, AppTypeOK
  <1>4. LinkedBoth'
    <2>1. \A v : SameKeys(v)' <=> SameKeys(v)
      BY <1>1 DEF SameKeys
    <2> QED
      BY <1>0, <1>1, <2>1 DEF LinkedBoth
  <1>5. MempoolApplies'
    <2> SUFFICES ASSUME Idle', NEW t \in mempool',
                        NEW v \in VotersOf(t) \ (disturbed \cup restores)
                 PROVE  Applies(voteDirections, voterRegistry, t, v)
      BY <1>1 DEF MempoolApplies
    <2>1. CASE Clock
      BY <1>0, <2>1 DEF Clock, MempoolApplies
    <2>2. CASE SaveBlock
      <3>1. t \in Txs /\ ValidateTx(t)
        BY <2>2 DEF SaveBlock, AppTypeInv, AppTypeOK
      <3> QED
        BY <3>1, ValidApplies
    <2>3. ASSUME NEW u \in Txs, CheckTx(u)
          PROVE  Applies(voteDirections, voterRegistry, t, v)
      <3>1. CASE t \in mempool
        BY <1>0, <2>3, <3>1 DEF CheckTx, MempoolApplies
      <3>2. CASE t \notin mempool
        <4>1. t \in Txs /\ ValidateTx(t)
          BY <2>3, <3>2 DEF CheckTx
        <4> QED
          BY <4>1, ValidApplies
      <3> QED
        BY <3>1, <3>2
    <2> QED
      BY <2>1, <2>2, <2>3
  <1>6. ReplaysDisturb'
    <2>1. \A i \in next..(Len(stored) - 1) : stored'[i].txs = stored[i].txs
      BY <1>2, <1>3
    <2> QED
      BY <1>0, <1>1, <1>2, <2>1 DEF ReplaysDisturb
  <1>7. \A i \in next..Len(stored) : stored'[i].txs = stored[i].txs
    BY <1>2, <1>3
  <1>8. BlocksApplyToDb'
    BY <1>0, <1>1, <1>2, <1>7 DEF BlocksApplyToDb
  <1>9. BlocksApply'
    BY <1>0, <1>1, <1>2, <1>7 DEF BlocksApply
  <1> QED
    BY <1>4, <1>5, <1>6, <1>8, <1>9 DEF LinkInv

\* A new block applies because the mempool does.
LEMMA LinkDecide ==
    ASSUME AppTypeInv, SyncInv, LinkInv, DecideBlock
    PROVE  LinkInv'
  <1>0. ~ panicked /\ Idle
        /\ LinkedBoth /\ MempoolApplies /\ ReplaysDisturb /\ BlocksApplyToDb /\ BlocksApply
    BY DEF LinkInv, DecideBlock
  <1>1. UNCHANGED <<voteDirections, voterRegistry, restores, dirty, db, next, txi,
                    disturbed, stale, crossed, mempool, saved>>
    BY DEF DecideBlock, vars, stateVars, marks, dbVars, history
  <1>2. PICK n \in Nat : \E txs \in [1..n -> mempool] :
                            stored' = Append(stored, [txs |-> txs, hash |-> None])
    <2>1. PICK n \in (IF CreateEmptyBlocks THEN 0 ELSE 1)..MaxBlockTxs :
             \E txs \in [1..n -> mempool] :
                stored' = Append(stored, [txs |-> txs, hash |-> None])
      BY DEF DecideBlock
    <2>2. n \in Nat
      BY AppBounds
    <2> QED
      BY <2>1, <2>2
  <1>3. PICK txs \in [1..n -> mempool] :
                            stored' = Append(stored, [txs |-> txs, hash |-> None])
    BY <1>2
  <1>4. /\ stored \in Seq(Blocks) /\ Len(stored) \in Nat /\ next = Len(stored) + 1
        /\ Len(stored') = next
    BY <1>0, <1>3 DEF AppTypeInv, Idle
  <1>5. stored'[next] = [txs |-> txs, hash |-> None]
    BY <1>3, <1>4
  <1>6. stored'[next].txs = txs /\ \A j \in 1..Len(txs) : txs[j] \in mempool
    BY <1>5
  <1>7. ~ dirty /\ restores = db.restores /\ mempool \subseteq Txs
    BY <1>0 DEF SyncInv, Clean, AppTypeInv, AppTypeOK
  <1>8. LinkedBoth'
    <2>1. \A v : SameKeys(v)' <=> SameKeys(v)
      BY <1>1 DEF SameKeys
    <2> QED
      BY <1>0, <1>1, <2>1 DEF LinkedBoth
  <1>9. MempoolApplies' /\ ReplaysDisturb'
    BY <1>1, <1>4 DEF MempoolApplies, Idle, ReplaysDisturb
  <1>10. \A i \in next..Len(stored') : i = next
    BY <1>4
  <1>11. ASSUME NEW j \in 1..Len(txs), NEW v \in VotersOf(txs[j]) \ (disturbed \cup restores)
         PROVE  Applies(voteDirections, voterRegistry, txs[j], v)
    BY <1>0, <1>6 DEF MempoolApplies
  <1>12. BlocksApply'
    BY <1>1, <1>6, <1>10, <1>11 DEF BlocksApply
  <1>13. ASSUME NEW j \in 1..Len(txs),
                NEW v \in VotersOf(txs[j]) \ (disturbed \cup stale \cup db.restores)
         PROVE  Applies(db.votes, db.registry, txs[j], v)
    <2>1. txs[j] \in Txs
      BY <1>6, <1>7
    <2>2. v \in Voters \ stale
      BY <2>1, VotersOfType
    <2>3. SameKeys(v)
      BY <1>0, <1>7, <2>2, CleanKeys
    <2>4. Applies(voteDirections, voterRegistry, txs[j], v)
      BY <1>7, <1>11
    <2> QED
      BY <2>1, <2>3, <2>4, AppliesKept DEF SameKeys
  <1>14. BlocksApplyToDb'
    BY <1>1, <1>6, <1>10, <1>13 DEF BlocksApplyToDb
  <1> QED
    BY <1>8, <1>9, <1>12, <1>14 DEF LinkInv

\* Executing a transaction: whoever is touched the second time in the block
\* counts as disturbed, for the others it applied.
LEMMA LinkDeliver ==
    ASSUME AppTypeInv, AppTypeInv', LinkInv, DeliverTx
    PROVE  LinkInv'
  <1> SUFFICES ASSUME ~ panicked'
               PROVE  /\ LinkedBoth' /\ MempoolApplies' /\ ReplaysDisturb'
                      /\ BlocksApplyToDb' /\ BlocksApply'
    BY DEF LinkInv
  <1> DEFINE txs == stored[next].txs
             t == txs[txi]
             ex == VotersIn(SubSeq(txs, 1, txi - 1))
  <1>0. /\ ~ panicked /\ saved /\ ~ Idle
        /\ LinkedBoth /\ ReplaysDisturb /\ BlocksApplyToDb /\ BlocksApply
    BY DEF LinkInv, DeliverTx
  <1>1. /\ UNCHANGED <<db, stored, next, stale, saved>> /\ txi' = txi + 1
        /\ disturbed' = disturbed \cup (VotersOf(t) \cap ex)
    BY DEF DeliverTx, dbVars
  <1>2. /\ next \in 1..Len(stored) /\ Len(stored) \in Nat /\ txs \in Seq(Txs)
        /\ txi \in 1..Len(txs) /\ t \in Txs
    BY <1>0, CurrentBlock DEF DeliverTx, AppTypeInv
  <1>3. ExecuteTx(t, poll) /\ crossed' = crossed \cup Crossing(t)
    BY DEF DeliverTx
  <1>4. TypeOK /\ TypeOK'
    BY DEF AppTypeInv, AppTypeOK
  <1>5. /\ restores \subseteq restores'
        /\ dirty' = TRUE \/ UNCHANGED <<voteDirections, voterRegistry, dirty>>
    BY <1>2, <1>3, <1>4, ExecuteFacts
  <1>6. VotersOf(t) \subseteq Voters
    BY <1>2, VotersOfType
  <1>7. ASSUME NEW v \in Voters \ VotersOf(t)
        PROVE  /\ Own(voteDirections', v) = Own(voteDirections, v)
               /\ v \in voterRegistry' <=> v \in voterRegistry
    BY <1>2, <1>3, <1>4, OthersKept
  <1>8. VotersIn(SubSeq(txs, 1, txi)) = ex \cup VotersOf(t)
    BY <1>2, EarlierVoters
  <1> HIDE DEF t, txs, ex
  <1>9. ASSUME NEW v \in Voters \ (disturbed' \cup restores' \cup crossed')
        PROVE  LinkedIn(voteDirections', voterRegistry', v)
    <2>1. v \notin disturbed /\ v \notin restores /\ v \notin Crossing(t)
          /\ LinkedIn(voteDirections, voterRegistry, v)
      BY <1>0, <1>1, <1>3, <1>5 DEF LinkedBoth
    <2>2. CASE v \notin VotersOf(t)
      BY <1>7, <2>1, <2>2 DEF LinkedIn
    <2>3. CASE v \in VotersOf(t)
      <3>1. v \notin ex
        BY <1>1, <2>3
      <3>2. next \in next..Len(stored)
        BY <1>2
      <3>3. Applies(voteDirections, voterRegistry, t, v)
        BY <1>0, <1>2, <2>1, <2>3, <3>1, <3>2 DEF BlocksApply, t, txs, ex
      <3> QED
        BY <1>2, <1>3, <1>4, <2>1, <2>3, <3>3, AppliedLinked
    <2> QED
      BY <2>2, <2>3
  <1>10. LinkedBoth'
    <2>1. \A v \in Voters \ (disturbed' \cup stale' \cup db'.restores \cup crossed') :
             LinkedIn(db'.votes, db'.registry, v)
      BY <1>0, <1>1, <1>3 DEF LinkedBoth
    <2>2. ~ dirty' => \A v \in Voters \ stale' : SameKeys(v)'
      BY <1>0, <1>1, <1>5 DEF LinkedBoth, SameKeys
    <2> QED
      BY <1>9, <2>1, <2>2 DEF LinkedBoth
  <1>11. MempoolApplies' /\ ReplaysDisturb'
    BY <1>0, <1>1 DEF MempoolApplies, ReplaysDisturb, Idle
  <1>12. BlocksApplyToDb'
    BY <1>0, <1>1 DEF BlocksApplyToDb
  <1>13. BlocksApply'
    <2> SUFFICES ASSUME NEW i \in next..Len(stored), NEW j \in 1..Len(stored[i].txs),
                        NEW v \in VotersOf(stored[i].txs[j]) \ (disturbed' \cup restores'),
                        i = next => /\ j >= txi + 1
                                    /\ v \notin VotersIn(SubSeq(stored[i].txs, 1, txi))
                 PROVE  Applies(voteDirections', voterRegistry', stored[i].txs[j], v)
      <3>1. txi' - 1 = txi
        BY <1>1, <1>2
      <3> QED
        BY <1>1, <3>1 DEF BlocksApply
    <2>1. i \in 1..Len(stored)
      BY <1>2
    <2>2. stored[i].txs[j] \in Txs /\ v \in Voters
      BY <2>1, StoredTxs
    <2>3. v \notin disturbed /\ v \notin restores
      BY <1>1, <1>5
    <2>4. v \notin VotersOf(t) /\ (i = next => v \notin ex)
      <3>1. CASE i = next
        BY <1>8, <3>1 DEF txs
      <3>2. CASE i # next
        <4>1. next \in next..(Len(stored) - 1)
          BY <1>2, <3>2
        <4>2. VotersIn(txs) \subseteq disturbed
          BY <1>0, <4>1 DEF ReplaysDisturb, txs
        <4>3. VotersOf(t) \subseteq VotersIn(txs)
          BY <1>2, StoredTxs DEF t, txs
        <4> QED
          BY <2>3, <3>2, <4>2, <4>3
      <3> QED
        BY <3>1, <3>2
    <2>5. i = next => j >= txi /\ v \notin VotersIn(SubSeq(stored[i].txs, 1, txi - 1))
      BY <1>2, <2>4 DEF ex, txs
    <2>6. Applies(voteDirections, voterRegistry, stored[i].txs[j], v)
      BY <1>0, <2>3, <2>5 DEF BlocksApply
    <2> QED
      BY <1>7, <2>2, <2>4, <2>6, AppliesKept
  <1> QED
    BY <1>10, <1>11, <1>12, <1>13

\* The end of a block: afterwards whoever is not stale has the same keys in
\* memory and in the database, and the blocks left are those after this one.
LEMMA LinkEnd ==
    ASSUME AppTypeInv, AppTypeInv', SyncInv', LinkInv, EndBlock
    PROVE  LinkInv'
  <1>0. /\ ~ panicked /\ saved /\ ~ Idle
        /\ LinkedBoth /\ ReplaysDisturb /\ BlocksApplyToDb /\ BlocksApply
    BY DEF LinkInv, EndBlock
  <1>1. /\ UNCHANGED <<voteDirections, voterRegistry, restores, disturbed, crossed>>
        /\ dirty' = FALSE /\ saved' = FALSE /\ txi' = 1
        /\ stale' = {Owner[b] : b \in L1(db'.votes) \ L1(voteDirections)}
                    \cup (db'.registry \ voterRegistry)
    BY DEF EndBlock, lists, audit, marks
  <1>2. /\ next \in 1..Len(stored) /\ Len(stored) \in Nat /\ Len(stored) > 0
        /\ stored \in Seq(Blocks)
    BY <1>0, CurrentBlock DEF AppTypeInv
  <1>3. /\ \A b \in L1(voteDirections) : db'.votes[b] = voteDirections[b]
        /\ voterRegistry \subseteq db'.registry /\ restores = db'.restores
    BY <1>1 DEF SyncInv, Clean
  <1>4. L1(voteDirections) \subseteq L1(db'.votes)
    BY <1>3 DEF L1
  <1>5. ASSUME NEW v \in Voters \ stale' PROVE SameKeys(v)'
    <2>1. Own(db'.votes, v) = Own(voteDirections, v)
      BY <1>1, <1>4 DEF Own
    <2>2. v \in db'.registry <=> v \in voterRegistry
      BY <1>1, <1>3
    <2> QED
      BY <1>1, <2>1, <2>2 DEF SameKeys
  <1>6. LinkedBoth'
    <2>1. \A v \in Voters \ (disturbed' \cup restores' \cup crossed') :
             LinkedIn(voteDirections', voterRegistry', v)
      BY <1>0, <1>1 DEF LinkedBoth
    <2>2. ASSUME NEW v \in Voters
                              \ (disturbed' \cup stale' \cup db'.restores \cup crossed')
          PROVE  LinkedIn(db'.votes, db'.registry, v)
      <3>1. SameKeys(v)'
        BY <1>5
      <3>2. LinkedIn(voteDirections', voterRegistry', v)
        BY <1>1, <1>3, <2>1
      <3> QED
        BY <3>1, <3>2 DEF SameKeys, LinkedIn
    <2> QED
      BY <1>5, <2>1, <2>2 DEF LinkedBoth
  <1>7. /\ Len(stored') \in Nat
        /\ \A i \in next'..Len(stored') : \E k \in (next + 1)..Len(stored) :
              stored'[i] = stored[k] /\ (i < Len(stored') => k < Len(stored))
    <2>1. CASE dirty
      <3>1. stored' = Tail(stored) /\ next' = next
        BY <2>1 DEF EndBlock
      <3>2. /\ Len(stored') = Len(stored) - 1
            /\ \A i \in 1..Len(stored') : stored'[i] = stored[i + 1]
        BY <1>2, <3>1, TailFacts
      <3>3. ASSUME NEW i \in next'..Len(stored')
            PROVE  /\ i + 1 \in (next + 1)..Len(stored) /\ stored'[i] = stored[i + 1]
                   /\ i < Len(stored') => i + 1 < Len(stored)
        BY <1>2, <3>1, <3>2
      <3> QED
        BY <1>2, <3>2, <3>3
    <2>2. CASE ~ dirty
      <3>1. stored' = stored /\ next' = next + 1
        BY <2>2 DEF EndBlock
      <3> QED
        BY <1>2, <3>1
    <2> QED
      BY <2>1, <2>2
  <1>8. MempoolApplies'
    BY <1>1 DEF MempoolApplies, Idle
  <1>9. ReplaysDisturb'
    <2> SUFFICES ASSUME NEW i \in next'..(Len(stored') - 1)
                 PROVE  VotersIn(stored'[i].txs) \subseteq disturbed
      BY <1>1 DEF ReplaysDisturb
    <2>1. next' \in Int /\ i \in next'..Len(stored') /\ i < Len(stored')
      BY <1>7 DEF AppTypeInv, AppTypeOK
    <2>2. PICK k \in (next + 1)..Len(stored) : stored'[i] = stored[k] /\ k < Len(stored)
      BY <1>7, <2>1
    <2>3. k \in next..(Len(stored) - 1)
      BY <1>2, <2>2
    <2> QED
      BY <1>0, <2>2, <2>3 DEF ReplaysDisturb
  <1>10. ASSUME NEW i \in next'..Len(stored'), NEW j \in 1..Len(stored'[i].txs),
                NEW v \in VotersOf(stored'[i].txs[j]) \ (disturbed \cup restores)
         PROVE  /\ Applies(voteDirections, voterRegistry, stored'[i].txs[j], v)
                /\ stored'[i].txs[j] \in Txs /\ v \in Voters
    <2>1. PICK k \in (next + 1)..Len(stored) : stored'[i] = stored[k]
      BY <1>7
    <2>2. k \in next..Len(stored) /\ k # next /\ k \in 1..Len(stored)
      BY <1>2, <2>1
    <2>3. stored[k].txs[j] \in Txs /\ v \in Voters
      BY <2>1, <2>2, StoredTxs
    <2> QED
      BY <1>0, <2>1, <2>2, <2>3 DEF BlocksApply
  <1>11. BlocksApply'
    BY <1>1, <1>10 DEF BlocksApply
  <1>12. BlocksApplyToDb'
    <2> SUFFICES ASSUME NEW i \in next'..Len(stored'), NEW j \in 1..Len(stored'[i].txs),
                        NEW v \in VotersOf(stored'[i].txs[j])
                                     \ (disturbed' \cup stale' \cup db'.restores)
                 PROVE  Applies(db'.votes, db'.registry, stored'[i].txs[j], v)
      BY DEF BlocksApplyToDb
    <2>1. /\ Applies(voteDirections, voterRegistry, stored'[i].txs[j], v)
          /\ stored'[i].txs[j] \in Txs /\ v \in Voters
      BY <1>1, <1>3, <1>10
    <2>2. SameKeys(v)'
      BY <1>5, <2>1
    <2> QED
      BY <1>1, <2>1, <2>2, AppliesKept DEF SameKeys
  <1> QED
    BY <1>6, <1>8, <1>9, <1>11, <1>12 DEF LinkInv

\* A crash: memory becomes the database, and whoever had stale entries in it
\* or is in a block that will be executed again counts as disturbed.
LEMMA LinkRestart ==
    ASSUME AppTypeInv, LinkInv, Restart
    PROVE  LinkInv'
  <1>0. /\ ~ panicked
        /\ LinkedBoth /\ ReplaysDisturb /\ BlocksApplyToDb
    BY DEF LinkInv, Restart
  <1>1. /\ voteDirections' = db.votes /\ voterRegistry' = db.registry
        /\ restores' = db.restores /\ mempool' = {} /\ next' = 1 /\ txi' = 1
        /\ disturbed' = disturbed \cup stale
                        \cup UNION {VotersIn(stored[i].txs) : i \in 1..(next - 1)}
        /\ UNCHANGED <<db, stored, stale, crossed>>
    BY DEF Restart, marks
  <1>2. next \in 1..(Len(stored) + 1) /\ Len(stored) \in Nat
    BY DEF AppTypeInv, AppTypeOK
  <1>3. LinkedBoth'
    <2>1. \A v \in Voters \ (disturbed' \cup restores' \cup crossed') :
             LinkedIn(voteDirections', voterRegistry', v)
      BY <1>0, <1>1 DEF LinkedBoth
    <2>2. \A v : SameKeys(v)'
      BY <1>1 DEF SameKeys
    <2>3. \A v \in Voters \ (disturbed' \cup stale' \cup db'.restores \cup crossed') :
             LinkedIn(db'.votes, db'.registry, v)
      BY <1>1, <2>1
    <2> QED
      BY <2>1, <2>2, <2>3 DEF LinkedBoth
  <1>4. MempoolApplies'
    BY <1>1 DEF MempoolApplies
  <1>5. ReplaysDisturb'
    <2> SUFFICES ASSUME NEW i \in 1..(Len(stored) - 1)
                 PROVE  VotersIn(stored[i].txs) \subseteq disturbed'
      BY <1>1 DEF ReplaysDisturb
    <2>1. CASE i \in 1..(next - 1)
      BY <1>1, <2>1
    <2>2. CASE i \notin 1..(next - 1)
      <3>1. i \in next..(Len(stored) - 1)
        BY <1>2, <2>2
      <3> QED
        BY <1>0, <1>1, <3>1 DEF ReplaysDisturb
    <2> QED
      BY <2>1, <2>2
  <1>6. ASSUME NEW i \in 1..Len(stored), NEW j \in 1..Len(stored[i].txs),
               NEW v \in VotersOf(stored[i].txs[j]) \ (disturbed' \cup db.restores)
        PROVE  Applies(db.votes, db.registry, stored[i].txs[j], v)
    <2>1. v \notin disturbed /\ v \notin stale
      BY <1>1
    <2>2. i \notin 1..(next - 1)
      <3>1. v \in VotersIn(stored[i].txs)
        BY StoredTxs
      <3> QED
        BY <1>1, <3>1
    <2>3. i \in next..Len(stored)
      BY <1>2, <2>2
    <2> QED
      BY <1>0, <2>1, <2>3 DEF BlocksApplyToDb
  <1>7. BlocksApply'
    BY <1>1, <1>6 DEF BlocksApply
  <1>8. BlocksApplyToDb'
    BY <1>1, <1>6 DEF BlocksApplyToDb
  <1> QED
    BY <1>3, <1>4, <1>5, <1>7, <1>8 DEF LinkInv

\* Every step keeps the link.
LEMMA LinkInvNext ==
    AppTypeInv /\ AppTypeInv' /\ SyncInv /\ SyncInv' /\ LinkInv /\ [AppNext]_appVars
        => LinkInv'
  <1> SUFFICES ASSUME AppTypeInv, AppTypeInv', SyncInv, SyncInv', LinkInv,
                      [AppNext]_appVars
               PROVE  LinkInv'
    OBVIOUS
  <1>1. CASE UNCHANGED appVars
    <2>1. UNCHANGED <<voteDirections, voterRegistry, restores, dirty, db, next, txi,
                      disturbed, stale, crossed, mempool, stored, saved, panicked>>
      BY <1>1 DEF appVars, vars, stateVars, marks, dbVars, chain, history
    <2>2. (\A v : SameKeys(v)' <=> SameKeys(v)) /\ (Idle' <=> Idle)
      BY <2>1 DEF SameKeys, Idle
    <2>3. LinkedBoth => LinkedBoth'
      BY <2>1, <2>2 DEF LinkedBoth
    <2>4. MempoolApplies => MempoolApplies'
      BY <2>1, <2>2 DEF MempoolApplies
    <2>5. ReplaysDisturb => ReplaysDisturb'
      BY <2>1 DEF ReplaysDisturb
    <2>6. BlocksApplyToDb => BlocksApplyToDb'
      BY <2>1 DEF BlocksApplyToDb
    <2>7. BlocksApply => BlocksApply'
      BY <2>1 DEF BlocksApply
    <2> QED
      BY <2>1, <2>3, <2>4, <2>5, <2>6, <2>7 DEF LinkInv
  <1> QED
    BY <1>1, LinkFront, LinkDecide, LinkDeliver, LinkEnd, LinkRestart DEF AppNext

\* Empty lists are linked.
LEMMA LinkInvInit == AppInit => LinkInv
  <1> SUFFICES ASSUME AppInit PROVE LinkInv
    OBVIOUS
  <1>1. /\ voteDirections = [b \in Ballots |-> None] /\ voterRegistry = {}
        /\ db.votes = [b \in Ballots |-> None] /\ db.registry = {}
        /\ mempool = {} /\ stored = <<>> /\ next = 1
    BY DEF AppInit, Init
  <1>2. \A v : Own(voteDirections, v) = {} /\ Own(db.votes, v) = {}
    BY <1>1 DEF Own, L1
  <1>3. LinkedBoth
    BY <1>1, <1>2 DEF LinkedBoth, LinkedIn, SameKeys
  <1>4. MempoolApplies /\ ReplaysDisturb /\ BlocksApplyToDb /\ BlocksApply
    BY <1>1 DEF MempoolApplies, ReplaysDisturb, BlocksApplyToDb, BlocksApply
  <1> QED
    BY <1>3, <1>4 DEF LinkInv

\* Whatever the order of the transactions in the blocks, wherever the node
\* crashes and whatever is replayed, every voter whose entries were not touched
\* twice in a block, left behind by Commit before a restart, replayed, covered
\* by a restore grant or crossed with another voter's by an update has exactly
\* one ballot while registered and none otherwise.
THEOREM UndisturbedStayLinked == AppSpec => []UndisturbedLinked
  <1>1. LinkInv => UndisturbedLinked
    BY DEF LinkInv, LinkedBoth, UndisturbedLinked, Linked, LinkedIn, BallotsOf, Own
  <1> QED
    BY <1>1, LinkInvInit, LinkInvNext, AppTypeAlways, SyncAlways, PTL DEF AppSpec

=============================================================================

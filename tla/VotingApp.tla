----------------------------- MODULE VotingApp -----------------------------
(***************************************************************************)
(* The ABCI application (app/app.go) around the two-list state machine, on *)
(* one node: CheckTx fills the mempool, CometBFT decides blocks,           *)
(* FinalizeBlock executes them without validating again, Commit writes the *)
(* maps to LevelDB, and a crash reloads them and has CometBFT replay the   *)
(* blocks above the height the application reports.  CometBFT's part (the  *)
(* mempool, deciding blocks, the handshake) is external.                   *)
(***************************************************************************)
EXTENDS VotingState

CONSTANTS
    CreateEmptyBlocks,  \* CometBFT's create_empty_blocks
    MaxMempool,         \* bound: transactions waiting
    MaxBlockTxs,        \* bound: transactions in a block
    MaxBlocks,          \* bound: blocks decided
    MaxRestarts         \* bound: crashes

ASSUME AppBounds ==
    /\ CreateEmptyBlocks \in BOOLEAN
    /\ {MaxMempool, MaxBlockTxs, MaxBlocks, MaxRestarts} \subseteq Nat

VARIABLES
    mempool,    \* transactions CheckTx accepted; each stands for any number
                \* of copies that differ in signature, timestamp or reference
    db,         \* what LevelDB holds
    height,     \* State.height: commits that had something to write
    appHash,    \* State.appHash: what the last such commit hashed, or None
    stored,     \* the decided blocks numbered above height, each with the app
                \* hash CometBFT saved for it, or None
    next,       \* index in stored of the first block not executed yet
    txi,        \* index of the next transaction of that block
    saved,      \* has CometBFT saved the outcome of the last executed block?
    panicked,   \* the node is down for good: executing a block panics, or the
                \* handshake refuses the application's hash
    blocks,     \* bound counter: blocks decided
    restarts    \* bound counter: restarts

(* History variables: what happened, for the properties only. *)
VARIABLES
    stale,      \* voters whose deleted records are still in the database
    disturbed,  \* voters a known hazard has hit (see DeliverTx and Restart)
    closed,     \* has a close reached the database?
    recreated,  \* was a creation replayed over a poll that had its tally?
    committed   \* the two lists as the last completed block left them

dbVars == <<db, height, appHash>>
chain == <<stored, next, txi, saved>>
bounds == <<blocks, restarts>>
history == <<stale, disturbed, closed, recreated, committed>>
appVars == <<vars, mempool, dbVars, chain, panicked, bounds, history>>

\* No block is being executed or replayed.
Idle == saved /\ next = Len(stored) + 1

\* The voters whose list entries a transaction adds, replaces or deletes.
VotersOf(t) ==
    CASE t.type = "BatchFlush" -> {Owner[s.ballot] : s \in t.submissions}
      [] t.type = "UpdateBallot" -> {t.voter, Owner[t.old]}
      [] t.type = "AuthorityRescind" -> {Owner[t.ballot]}
      [] OTHER -> {}

VotersIn(txs) == UNION {VotersOf(txs[i]) : i \in 1..Len(txs)}

-----------------------------------------------------------------------------
AppInit ==
    /\ Init
    /\ mempool = {}
    /\ db = [poll |-> NoPoll, votes |-> [b \in Ballots |-> None],
             registry |-> {}, tally |-> None, confirms |-> {},
             rescissions |-> {}, restores |-> {}, appHash |-> None]
    /\ height = 0 /\ appHash = None
    /\ stored = <<>> /\ next = 1 /\ txi = 1 /\ saved = TRUE
    /\ panicked = FALSE
    /\ blocks = 0 /\ restarts = 0
    /\ stale = {} /\ disturbed = {} /\ closed = FALSE /\ recreated = FALSE
    /\ committed = <<voteDirections, voterRegistry>>

Clock ==
    /\ Idle /\ ~ panicked
    /\ Tick
    /\ UNCHANGED <<mempool, dbVars, chain, panicked, bounds, history>>

\* CheckTx never runs while FinalizeBlock does (one mutex for both).  Looking
\* at a flush opens a started poll in memory, accepted or not.
CheckTx(t) ==
    /\ Idle /\ ~ panicked
    /\ Cardinality(mempool) < MaxMempool
    /\ WithinBounds(t)
    /\ mempool' = IF ValidateTx(t) THEN mempool \cup {t} ELSE mempool
    /\ poll' = IF t.type = "BatchFlush" THEN Opened ELSE poll
    /\ UNCHANGED <<now, lists, tally, audit, rolling, dirty, result, marks>>
    /\ UNCHANGED <<dbVars, chain, panicked, bounds, history>>

\* CometBFT decides a block of mempool transactions, in any order.
DecideBlock ==
    /\ Idle /\ ~ panicked
    /\ blocks < MaxBlocks /\ blocks' = blocks + 1
    /\ \E n \in (IF CreateEmptyBlocks THEN 0 ELSE 1)..MaxBlockTxs :
          \E txs \in [1..n -> mempool] :
             stored' = Append(stored, [txs |-> txs, hash |-> None])
    /\ UNCHANGED <<vars, mempool, dbVars, next, txi, saved, panicked, restarts,
                   history>>

\* One turn of the loop in FinalizeBlock.  ExecuteTx is called on whatever
\* the earlier transactions of the block left.
DeliverTx ==
    /\ saved /\ ~ Idle /\ ~ panicked
    /\ txi <= Len(stored[next].txs)
    /\ LET txs == stored[next].txs
           t == txs[txi]
           earlier == VotersIn(SubSeq(txs, 1, txi - 1))
       IN /\ IF t.type = "AuthorityRescind" /\ RescindPanics(t)
             THEN panicked' = TRUE /\ UNCHANGED stateVars
             ELSE /\ ExecuteTx(t, poll)
                  /\ crossed' = crossed \cup Crossing(t)
                  /\ UNCHANGED <<panicked, rewritten, withdrawals>>
          /\ disturbed' = disturbed \cup (VotersOf(t) \cap earlier)
          /\ recreated' = (recreated \/ (t.type = "PollCreate" /\ tally # None))
    /\ txi' = txi + 1
    /\ UNCHANGED <<now, mempool, dbVars, stored, next, saved, bounds, stale,
                   closed, committed>>

\* computeAppHash: restores, counters of submissions and checkpoints are not
\* hashed.  (Heights and wall-clock times in the records are abstracted.)
ComputeAppHash ==
    <<poll, voteDirections, voterRegistry, tally, confirms, rescissions>>

\* Mutants of Persisted: Commit forgets the voter registry, the tallies, or
\* polls it has written before.
PersistedNoRegistry ==
    [poll |-> poll, votes |-> voteDirections, registry |-> db.registry,
     tally |-> tally, confirms |-> confirms, rescissions |-> rescissions,
     restores |-> restores, appHash |-> ComputeAppHash]

PersistedNoTally ==
    [poll |-> poll, votes |-> voteDirections, registry |-> voterRegistry,
     tally |-> db.tally, confirms |-> confirms, rescissions |-> rescissions,
     restores |-> restores, appHash |-> ComputeAppHash]

PersistedPollOnce ==
    [poll |-> IF db.poll.status = "none" THEN poll ELSE db.poll,
     votes |-> voteDirections, registry |-> voterRegistry, tally |-> tally,
     confirms |-> confirms, rescissions |-> rescissions,
     restores |-> restores, appHash |-> ComputeAppHash]

\* Commit only ever sets keys: what was deleted from a map stays in the DB.
Persisted ==
    [poll |-> IF poll.status = "none" THEN db.poll ELSE poll,
     votes |-> [b \in Ballots |-> IF voteDirections[b] = None THEN db.votes[b]
                                  ELSE voteDirections[b]],
     registry |-> db.registry \cup voterRegistry,
     tally |-> IF tally = None THEN db.tally ELSE tally,
     confirms |-> db.confirms \cup confirms,
     rescissions |-> db.rescissions \cup rescissions,
     restores |-> db.restores \cup restores,
     appHash |-> ComputeAppHash]

\* The handshake compares a replayed block's hash with the one it saved, but
\* for the last executed block when another one waits to be executed.
HandshakeRefuses(hash) ==
    /\ stored[next].hash \notin {None, hash}
    /\ next < Len(stored) => stored[next + 1].hash # None

\* The end of FinalizeBlock: Commit, which does nothing (not even advance the
\* height) unless the block dirtied the state.
EndBlock ==
    /\ saved /\ ~ Idle /\ ~ panicked
    /\ txi > Len(stored[next].txs)
    /\ IF dirty
       THEN /\ db' = Persisted
            /\ height' = height + 1
            /\ appHash' = ComputeAppHash
            /\ stored' = Tail(stored)
            /\ next' = next
       ELSE /\ next' = next + 1
            /\ UNCHANGED <<dbVars, stored>>
    /\ dirty' = FALSE
    /\ txi' = 1
    /\ saved' = FALSE
    /\ panicked' = HandshakeRefuses(appHash')
    /\ stale' = {Owner[b] : b \in L1(db'.votes) \ L1(voteDirections)}
                \cup (db'.registry \ voterRegistry)
    /\ closed' = (db'.tally # None)
    /\ committed' = <<voteDirections, voterRegistry>>
    /\ UNCHANGED <<now, poll, lists, tally, audit, rolling, result, marks, mempool,
                   bounds, disturbed, recreated>>

\* CometBFT saves the outcome and re-runs CheckTx on what is left in the
\* mempool.
SaveBlock ==
    /\ ~ saved /\ ~ panicked
    /\ saved' = TRUE
    /\ stored' = IF next = 1 THEN stored
                 ELSE [stored EXCEPT ![next - 1].hash = appHash]
    /\ mempool' = {t \in mempool : ValidateTx(t)}
    /\ poll' = IF \E t \in mempool : t.type = "BatchFlush" THEN Opened ELSE poll
    /\ UNCHANGED <<now, lists, tally, audit, rolling, dirty, result, marks, dbVars,
                   next, txi, panicked, bounds, history>>

\* The process dies, at any point, and NewState/loadState read the database.
\* CometBFT asks Info for the height and replays every block above it.
Restart ==
    /\ ~ panicked
    /\ restarts < MaxRestarts /\ restarts' = restarts + 1
    /\ poll' = db.poll
    /\ voteDirections' = db.votes
    /\ voterRegistry' = db.registry
    /\ tally' = db.tally
    /\ confirms' = db.confirms
    /\ rescissions' = db.rescissions
    /\ restores' = db.restores
    /\ appHash' = db.appHash
    /\ submissionCount' = 0 /\ checkpoints' = 0
    /\ dirty' = FALSE /\ result' = "ok"
    /\ mempool' = {}
    /\ next' = 1 /\ txi' = 1 /\ saved' = TRUE
    /\ disturbed' = disturbed \cup stale
                    \cup UNION {VotersIn(stored[i].txs) : i \in 1..(next - 1)}
    /\ UNCHANGED <<now, marks, db, height, stored, panicked, blocks, stale, closed,
                   recreated, committed>>

AppNext ==
    \/ Clock \/ DecideBlock \/ DeliverTx \/ EndBlock \/ SaveBlock
    \/ Restart
    \/ \E t \in Txs : CheckTx(t)

AppSpec == AppInit /\ [][AppNext]_appVars

-----------------------------------------------------------------------------
(* Properties                                                               *)

\* The application's own variables hold values of their types.
AppTypeOK ==
    /\ TypeOK
    /\ mempool \subseteq Txs
    /\ DOMAIN db = {"poll", "votes", "registry", "tally", "confirms",
                    "rescissions", "restores", "appHash"}
    /\ height \in 0..MaxBlocks
    /\ next \in 1..(Len(stored) + 1)
    /\ {panicked, saved, closed, recreated} \subseteq BOOLEAN
    /\ stale \subseteq Voters /\ disturbed \subseteq Voters

\* FinalizeBlock does not validate again and Commit does not delete, but the
\* damage stays with the voters concerned: anyone whose entries were not
\* touched twice in one block, not left behind in the database before a
\* restart, not replayed, not covered by a restore grant and not crossed with
\* another voter's by an update has exactly one ballot while registered and
\* none otherwise, through crashes in the middle of a block and their replay.
UndisturbedLinked ==
    ~ panicked =>
        \A v \in Voters \ (disturbed \cup restores \cup crossed) : Linked(v)

\* Between blocks nothing that the lists, the tally, the audit records or the
\* counters show is missing from the database: no handler changes the state
\* without marking it dirty, and Commit writes every map.
Durable ==
    Idle /\ ~ panicked =>
        /\ \A b \in L1(voteDirections) : db.votes[b] = voteDirections[b]
        /\ voterRegistry \subseteq db.registry
        /\ confirms \subseteq db.confirms
        /\ rescissions = db.rescissions /\ restores = db.restores
        /\ tally = db.tally
        /\ [poll EXCEPT !.status = db.poll.status] = db.poll

\* A poll is closed exactly when it has a tally, whatever else was in the
\* block that closed it, wherever the node crashed and whatever it replayed,
\* unless the block that created the poll was replayed after the close.
ClosedIffTallied ==
    Idle /\ ~ panicked /\ ~ recreated =>
        ((poll.status = "closed") <=> (tally # None))

\* A close that reached the database is final: no later block, crash or
\* replay (of an unfinished block or of one that was executed before) loses
\* the tally on a node that is up, and none but a replayed creation reopens
\* the poll.
ClosedForGood ==
    Idle /\ ~ panicked /\ closed =>
        /\ tally # None
        /\ ~ recreated => poll.status = "closed"

(* What the comments claim and the code does not keep.                      *)

\* doc.go: on every committed block len(voteDirections) = len(voterRegistry),
\* a transaction that would break it is rejected.
CountMatchEveryBlock ==
    Idle /\ ~ panicked /\ restores \cup crossed = {} =>
        Cardinality(L1(voteDirections)) = Cardinality(voterRegistry)

\* state.go: /tally/{poll_id} serves the tally for a closed poll; poll.go: the
\* tally is final modulo rescissions.  No poll with a tally is open to ballots.
TallyOfClosedPoll ==
    Idle /\ ~ panicked /\ tally # None => poll.status = "closed"

\* Whatever a block did, one of the two is true: a state in which both fail is
\* one that a block with two casts of one voter left behind and its replay too.
SomeBlockClaimRight == CountMatchEveryBlock \/ TallyOfClosedPoll

\* executeBallotUpdate: a withdrawn voter leaves no on-chain trace; doc.go:
\* Commit persists state to LevelDB.  A restarted node that has caught up has
\* the lists it had.
ListsSurviveRestart ==
    Idle /\ ~ panicked => committed = <<voteDirections, voterRegistry>>

=============================================================================

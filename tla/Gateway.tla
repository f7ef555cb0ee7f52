------------------------------ MODULE Gateway ------------------------------
(***************************************************************************)
(* The REST gateway (api/server/router.go) with its ballot queue, the      *)
(* receipt store it writes (services/reconcile), the relay in front of it  *)
(* (api/relay/server.go) and the voting ledger behind it (domain/state),   *)
(* for one poll.  Handlers run concurrently and hold the queue's mutex     *)
(* only while they touch it.  Of the ledger this module keeps what answers *)
(* the gateway: the two lists, the checks of a batch, blocks that execute  *)
(* without checking again, and the authorities' transactions.              *)
(* CometBFT (broadcast_tx_commit, abci_query, the mempool and its cache)   *)
(* is external.                                                            *)
(***************************************************************************)
EXTENDS Integers, Sequences, FiniteSets, SequencesExt

CONSTANTS
    Voters,             \* identities on the ledger
    Ballots,            \* ballot casts, each with its own nonce
    Owner,              \* the voter of a ballot
    Keys,
    Key,                \* the identity the gateway derives for a ballot
    Bad,                \* ballots with a signature, an attestation or choices
                        \* only the ledger finds fault with
    ViaRelay,           \* ballots clients may send through the relay
    Flushers,           \* concurrent POST /polls/{id}/flush requests
    None,
    Tokens,             \* verdicts on X-Attest-Token that occur
    AttesterOn,         \* WithAttester was called
    PermanentWriteOnly, \* posture coercion_resistant
    FallbackMissing,    \* write_only_on_missing_play_integrity
    FallbackUntrusted,  \* write_only_on_untrusted_device_attestation
    NoncePlusPayload,   \* the submission identifier derivation
    MaxRequests,        \* bound: submissions and updates
    MaxFaults,          \* bound: lost replies, failed queries, writes and
                        \* attestations, crashes
    MaxEvents           \* bound: the poll's end, expired beacons, rescissions
                        \* and restores

ASSUME GatewayConstants ==
    /\ Owner \in [Ballots -> Voters] /\ Key \in [Ballots -> Keys]
    /\ Bad \subseteq Ballots /\ ViaRelay \subseteq Ballots
    /\ Tokens \subseteq {"missing", "invalid", "untrusted", "trusted"}
    /\ {AttesterOn, PermanentWriteOnly, FallbackMissing, FallbackUntrusted,
        NoncePlusPayload} \subseteq BOOLEAN
    /\ {MaxRequests, MaxFaults, MaxEvents} \subseteq Nat

\* None is neither a ballot nor a queue, a batch item or a ballot ID.
ASSUME GatewayNone ==
    /\ None \notin Ballots \cup [ballot : Ballots, receipt : BOOLEAN]
    /\ None \notin Seq(Ballots)
    /\ None \notin {"nonce", "nonce+payload", "beacon+nonce"} \X Ballots

VARIABLES
    request,        \* submitBallot handlers past the registration query: what
                    \* they will enqueue
    queue,          \* ballotQueue
    flush,          \* flushQueuedBallots handlers: where they are, their batch
    receipts,       \* the reconciliation store
    update,         \* updateBallot handler past the receipt lookup, or None
    relayQueue,     \* the relay's queue
    relayBatch      \* what the relay's flushPoll still has to post, or None

(* The ledger and CometBFT's mempool. *)
VARIABLES
    votes,          \* voteDirections: the ballots on List 1
    registry,       \* voterRegistry: List 2
    ended,          \* the poll is past its end or closed
    unfit,          \* ballots that fail a check of their own: the bad ones, and
                    \* those whose beacon left the window
    rescinded,      \* rescissions
    granted,        \* restores
    pending,        \* batches in the mempool
    cache           \* batches in the transaction cache

VARIABLES
    requests, faults, events    \* bound counters

(* History variables: what happened, for the properties only. *)
VARIABLES
    accepted,       \* ballots answered "queued" by the gateway
    relayed,        \* ballots answered "queued" by the relay
    everCast,       \* ballots that reached the ledger
    dropped,        \* ballots lost in a crash or reported flushed unseen
    relayLost,      \* ballots the relay lost
    doubled,        \* voters accepted again while a ballot of theirs was on
                    \* its way, on the ledger or queued under another key
    putBack,        \* voters whose batch was put back although the ledger had
                    \* it or could still take it
    withReceipt,    \* ballots accepted in the recoverable posture
    removed,        \* ballots an update took off List 1
    renamed,        \* keys whose receipt an update rewrote
    misread         \* ballots of a flush reported done that were not on the
                    \* ledger

lists == <<votes, registry>>
rules == <<ended, unfit, rescinded, granted>>
mempool == <<pending, cache>>
ledger == <<lists, rules, mempool>>
relay == <<relayQueue, relayBatch>>
bounds == <<requests, faults, events>>
history == <<accepted, relayed, everCast, dropped, relayLost, doubled, putBack,
             withReceipt, removed, renamed, misread>>
gatewayVars == <<request, queue, flush, receipts, update, relay, ledger, bounds,
                 history>>

-----------------------------------------------------------------------------
\* Mutant of CastID: the derivation the ballot asks for is ignored.
CastIDNonce(b) == <<"nonce", b>>

\* Ballot IDs: the gateway leaves the beacon out of the hash, and its update
\* path the payload too.
CastID(b) == IF NoncePlusPayload THEN <<"nonce+payload", b>>
             ELSE <<"nonce", b>>

UpdateID(b) == <<"nonce", b>>

\* deriveBallotIDWithBeacon
LedgerID(b) == IF NoncePlusPayload THEN <<"nonce+payload", b>>
               ELSE <<"beacon+nonce", b>>

VotersOf(batch) == {Owner[batch[i].ballot] : i \in 1..Len(batch)}
BallotsOf(batch) == {batch[i].ballot : i \in 1..Len(batch)}

\* validateBatchFlush, with validateBallotCast for every ballot, on a ledger
\* with List 2 as given.
ValidWith(batch, voters) ==
    /\ ~ ended
    /\ \A b \in BallotsOf(batch) : b \notin unfit
    /\ \A v \in VotersOf(batch) : v \in voters => v \in granted
    /\ \A i, j \in 1..Len(batch) :
          Owner[batch[i].ballot] = Owner[batch[j].ballot] => i = j

BatchValid(batch) == ValidWith(batch, registry)

Idle == [pc |-> "idle", batch |-> <<>>]

\* A handler with a batch it may still put back.
Held(f) == flush[f].pc \in {"dequeued", "sent", "failed"}

\* Ballots a flush handler holds or CometBFT may still commit.
OnTheirWay == (UNION {BallotsOf(flush[f].batch) : f \in {g \in Flushers : Held(g)}})
              \cup (UNION {BallotsOf(p.batch) : p \in pending})

\* The ballots of bs that are not on the ledger, or no longer.
NotOnLedger(bs) == {b \in bs : b \notin votes \/ Owner[b] \notin registry}

GatewayInit ==
    /\ request = [b \in Ballots |-> None]
    /\ queue = <<>>
    /\ flush = [f \in Flushers |-> Idle]
    /\ receipts = [k \in Keys |-> None]
    /\ update = None
    /\ relayQueue = <<>> /\ relayBatch = None
    /\ votes = {} /\ registry = {}
    /\ ended = FALSE /\ unfit = Bad /\ rescinded = {} /\ granted = {}
    /\ pending = {} /\ cache = {}
    /\ requests = 0 /\ faults = 0 /\ events = 0
    /\ accepted = {} /\ relayed = {} /\ everCast = {} /\ dropped = {}
    /\ relayLost = {} /\ doubled = {} /\ putBack = {} /\ withReceipt = {}
    /\ removed = {} /\ renamed = {} /\ misread = {}

Request == requests < MaxRequests /\ requests' = requests + 1
Fault == faults < MaxFaults /\ faults' = faults + 1
Event == events < MaxEvents /\ events' = events + 1

-----------------------------------------------------------------------------
(* submitBallot                                                             *)

\* The attestation check and the posture of the request.
Posture(token) ==
    CASE ~ AttesterOn -> IF PermanentWriteOnly THEN "write_only" ELSE "receipt"
      [] AttesterOn /\ token = "missing" ->
            IF PermanentWriteOnly \/ FallbackMissing THEN "write_only"
            ELSE "refuse"
      [] AttesterOn /\ token = "invalid" -> "refuse"
      [] AttesterOn /\ token = "untrusted" ->
            IF PermanentWriteOnly \/ FallbackUntrusted THEN "write_only"
            ELSE "receipt"
      [] OTHER -> IF PermanentWriteOnly THEN "write_only" ELSE "receipt"

\* The query for a registered voter, under the gateway's name for them; when
\* it fails the ballot goes on.
QueryPasses(b) == \/ Key[b] \notin registry /\ UNCHANGED faults
                  \/ Fault

Submit(b, token) ==
    /\ Request
    /\ request[b] = None
    /\ Posture(token) # "refuse"
    /\ QueryPasses(b)
    /\ request' = [request EXCEPT ![b] =
                     [ballot |-> b, receipt |-> Posture(token) = "receipt"]]
    /\ UNCHANGED <<queue, flush, receipts, update, relay, ledger, events,
                   history>>

\* Mutant of InQueue: duplicates are looked for by ballot ID only.
InQueueByBallot(item) ==
    \E i \in 1..Len(queue) : queue[i].ballot = item.ballot

\* Two ballots of one key, or one ballot twice.
InQueue(item) ==
    \E i \in 1..Len(queue) : Key[queue[i].ballot] = Key[item.ballot]

\* Is a ballot of the same voter already on its way, cast, or in the queue
\* under another key?
SecondOf(b) ==
    \/ Owner[b] \in registry
    \/ \E c \in OnTheirWay : Owner[c] = Owner[b]
    \/ \E c \in BallotsOf(queue) : Owner[c] = Owner[b] /\ Key[c] # Key[b]

Accept(item) ==
    /\ queue' = Append(queue, item)
    /\ accepted' = accepted \cup {item.ballot}
    /\ dropped' = dropped \ {item.ballot}
    /\ doubled' = IF SecondOf(item.ballot)
                  THEN doubled \cup {Owner[item.ballot]} ELSE doubled
    /\ withReceipt' = IF item.receipt THEN withReceipt \cup {item.ballot}
                      ELSE withReceipt

\* enqueueBallot, under the mutex, and the answer.
Enqueue(b) ==
    /\ request[b] # None
    /\ request' = [request EXCEPT ![b] = None]
    /\ \/ ~ InQueue(request[b]) /\ Accept(request[b])
       \/ InQueue(request[b])
          /\ UNCHANGED <<queue, accepted, dropped, doubled, withReceipt>>
    /\ UNCHANGED <<flush, receipts, update, relay, ledger, bounds, relayed,
                   everCast, relayLost, putBack, removed, renamed, misread>>

-----------------------------------------------------------------------------
(* flushQueuedBallots                                                       *)

\* Mutant of Dequeue: the empty queue is not refused.
DequeueEmpty(f) ==
    /\ flush[f].pc = "idle"
    /\ flush' = [flush EXCEPT ![f] = [pc |-> "dequeued", batch |-> queue]]
    /\ queue' = <<>>
    /\ UNCHANGED <<request, receipts, update, relay, ledger, bounds, history>>

\* Mutant of Dequeue: the test for the empty queue is off by one.
DequeueMany(f) ==
    /\ flush[f].pc = "idle" /\ Len(queue) > 1
    /\ flush' = [flush EXCEPT ![f] = [pc |-> "dequeued", batch |-> queue]]
    /\ queue' = <<>>
    /\ UNCHANGED <<request, receipts, update, relay, ledger, bounds, history>>

\* dequeueBallotsForFlush: everything queued at once.
Dequeue(f) ==
    /\ flush[f].pc = "idle" /\ queue # <<>>
    /\ flush' = [flush EXCEPT ![f] = [pc |-> "dequeued", batch |-> queue]]
    /\ queue' = <<>>
    /\ UNCHANGED <<request, receipts, update, relay, ledger, bounds, history>>

\* broadcast_tx_commit: the transaction enters the mempool, or the check
\* fails.  A batch already in the cache gets a JSON-RPC error, which has no
\* result codes, and so does not look like a failure to txFailed.
Broadcast(f) ==
    LET batch == flush[f].batch IN
    /\ flush[f].pc = "dequeued"
    /\ \/ /\ batch \in cache
          /\ flush' = [flush EXCEPT ![f].pc = "done"]
          /\ dropped' = dropped \cup NotOnLedger(BallotsOf(batch))
          /\ misread' = misread \cup NotOnLedger(BallotsOf(batch))
          /\ UNCHANGED mempool
       \/ /\ batch \notin cache /\ BatchValid(batch)
          /\ flush' = [flush EXCEPT ![f].pc = "sent"]
          /\ pending' = pending \cup {[by |-> f, batch |-> batch]}
          /\ cache' = cache \cup {batch}
          /\ UNCHANGED <<dropped, misread>>
       \/ /\ batch \notin cache /\ ~ BatchValid(batch)
          /\ flush' = [flush EXCEPT ![f].pc = "failed"]
          /\ UNCHANGED <<mempool, dropped, misread>>
    /\ UNCHANGED <<request, queue, receipts, update, relay, lists, rules, bounds,
                   accepted, relayed, everCast, relayLost, doubled, putBack,
                   withReceipt, removed, renamed>>

\* The handler waiting for p hears of it in this block.
Answers(S, f) == flush[f].pc = "sent" /\ [by |-> f, batch |-> flush[f].batch] \in S

\* A block executes the batches of S without checking them again
\* (executeBatchFlush).  For some the rolling attestation fails after the
\* writes; their handlers are told of a failure.  Then the mempool is checked
\* again: what became invalid leaves it and the cache, and nobody is told.
CommitBlock(S) ==
    /\ S \subseteq pending
    /\ votes' = votes \cup UNION {BallotsOf(p.batch) : p \in S}
    /\ registry' = registry \cup UNION {VotersOf(p.batch) : p \in S}
    /\ everCast' = everCast \cup UNION {BallotsOf(p.batch) : p \in S}
    /\ \E failing \in SUBSET S :
          /\ \/ failing = {} /\ UNCHANGED faults
             \/ failing # {} /\ Fault
          /\ LET stale == {q \in pending \ S : ~ ValidWith(q.batch, registry')}
             IN /\ pending' = (pending \ S) \ stale
                /\ cache' = cache \ {q.batch : q \in stale \cup failing}
          /\ flush' = [f \in Flushers |->
                IF Answers(failing, f) THEN [flush[f] EXCEPT !.pc = "failed"]
                ELSE IF Answers(S, f) THEN [flush[f] EXCEPT !.pc = "done"]
                ELSE flush[f]]
          /\ putBack' = putBack \cup UNION {VotersOf(p.batch) : p \in failing}
    /\ UNCHANGED <<request, queue, receipts, update, relay, rules, requests,
                   events, accepted, relayed, dropped, relayLost, doubled,
                   withReceipt, removed, renamed, misread>>

\* Mutant of Restore: ballots of voters who are in the queue again are not put
\* back.
RestoreMerged(batch) ==
    SelectSeq(batch, LAMBDA item : ~ InQueue(item)) \o queue

\* restoreQueuedBallots: in front of the queue, duplicates or not.
Restore(batch) == batch \o queue

\* The check or the execution failed: the batch is put back.
FlushFailed(f) ==
    /\ flush[f].pc = "failed"
    /\ queue' = Restore(flush[f].batch)
    /\ flush' = [flush EXCEPT ![f] = Idle]
    /\ UNCHANGED <<request, receipts, update, relay, ledger, bounds, history>>

\* The HTTP client gives up on a transaction that may be committed later.
FlushTimedOut(f) ==
    /\ flush[f].pc = "sent" /\ Fault
    /\ queue' = Restore(flush[f].batch)
    /\ flush' = [flush EXCEPT ![f] = Idle]
    /\ putBack' = putBack \cup VotersOf(flush[f].batch)
    /\ UNCHANGED <<request, receipts, update, relay, ledger, requests, events,
                   accepted, relayed, everCast, dropped, relayLost, doubled,
                   withReceipt, removed, renamed, misread>>

\* CometBFT's wait for the block ends first, or no block can answer any more:
\* its JSON-RPC error counts as success.
FlushReported(f) ==
    /\ flush' = [flush EXCEPT ![f].pc = "done"]
    /\ dropped' = dropped \cup BallotsOf(flush[f].batch)
    /\ misread' = misread \cup BallotsOf(flush[f].batch)
    /\ UNCHANGED <<request, queue, receipts, update, relay, ledger, requests,
                   events, accepted, relayed, everCast, relayLost, doubled,
                   putBack, withReceipt, removed, renamed>>

FlushMisread(f) == flush[f].pc = "sent" /\ Fault /\ FlushReported(f)

FlushUnanswered(f) ==
    /\ flush[f].pc = "sent" /\ ~ Answers(pending, f)
    /\ FlushReported(f) /\ UNCHANGED faults

\* Mutant of Receipted: every ballot of the batch gets a receipt.
ReceiptedAll(batch) == 1..Len(batch)

\* The items of a batch that get a receipt.
Receipted(batch) == {i \in 1..Len(batch) : batch[i].receipt}

\* The last of the stored items with key k is item i.
LastOf(batch, stored, k, i) ==
    /\ Key[batch[i].ballot] = k
    /\ \A j \in stored : Key[batch[j].ballot] = k => j <= i

\* storeReceiptForBallot for every item, in their order; a write that fails
\* three times is only recorded in the trace.
FlushDone(f) ==
    LET batch == flush[f].batch IN
    /\ flush[f].pc = "done"
    /\ \E stored \in SUBSET Receipted(batch) :
          /\ \/ stored = Receipted(batch) /\ UNCHANGED faults
             \/ stored # Receipted(batch) /\ Fault
          /\ receipts' = [k \in Keys |->
                IF \E i \in stored : LastOf(batch, stored, k, i)
                THEN CastID(batch[CHOOSE i \in stored :
                                    LastOf(batch, stored, k, i)].ballot)
                ELSE receipts[k]]
    /\ flush' = [flush EXCEPT ![f] = Idle]
    /\ UNCHANGED <<request, queue, update, relay, ledger, requests, events,
                   history>>

-----------------------------------------------------------------------------
(* updateBallot                                                             *)

\* validateBallotUpdate: nothing says whose ballot the old one is.  None as
\* the new ballot withdraws.
UpdateValid(v, old, new) ==
    ~ ended /\ v \in registry /\ old \in votes /\ new \notin unfit

\* executeBallotUpdate
UpdateExecuted(v, old, new) ==
    /\ votes' = (votes \ {old}) \cup ({new} \ {None})
    /\ registry' = IF new = None THEN registry \ {v} ELSE registry
    /\ everCast' = everCast \cup ({new} \ {None})
    /\ removed' = removed \cup {old}

\* Device-receipt path: the transaction is passed on, checked and executed.
DeviceUpdate(v, old, new) ==
    /\ Request
    /\ UpdateValid(v, old, new) /\ UpdateExecuted(v, old, new)
    /\ UNCHANGED <<request, queue, flush, receipts, update, relay, rules,
                   mempool, faults, events, accepted, relayed, dropped,
                   relayLost, doubled, putBack, withReceipt, renamed, misread>>

\* Reconciled path: the old ballot ID comes from the store, under the identity
\* hash in the request.
ReconciledLookup(k, v, new) ==
    /\ Request
    /\ update = None /\ receipts[k] # None
    /\ update' = [key |-> k, voter |-> v, old |-> receipts[k], new |-> new]
    /\ UNCHANGED <<request, queue, flush, receipts, relay, ledger, faults,
                   events, history>>

\* The ledger's part of the broadcast.
UpdateDecided ==
    LET taken(old) == /\ LedgerID(old) = update.old
                      /\ UpdateValid(update.voter, old, update.new)
    IN \/ \E old \in votes :
             taken(old) /\ UpdateExecuted(update.voter, old, update.new)
       \/ /\ \A old \in votes : ~ taken(old)
          /\ UNCHANGED <<lists, everCast, removed>>

\* The store brought in line whatever the ledger answered.
StoreSynced ==
    /\ receipts' = [receipts EXCEPT ![update.key] =
                      IF update.new = None THEN None ELSE UpdateID(update.new)]
    /\ renamed' = renamed \cup {update.key}

\* The broadcast and the store; without an answer, or when the store fails,
\* the receipt is left alone.
ReconciledUpdate ==
    /\ update # None /\ update' = None
    /\ UpdateDecided
    /\ \/ StoreSynced /\ UNCHANGED faults
       \/ Fault /\ UNCHANGED <<receipts, renamed>>
    /\ UNCHANGED <<request, queue, flush, relay, rules, mempool, requests,
                   events, accepted, relayed, dropped, relayLost, doubled,
                   putBack, withReceipt, misread>>

\* The transaction never reaches CometBFT.
ReconciledUnsent ==
    /\ update # None /\ update' = None /\ Fault
    /\ UNCHANGED <<request, queue, flush, receipts, relay, ledger, requests,
                   events, history>>

-----------------------------------------------------------------------------
(* What else happens on the ledger                                          *)

\* The end time passes, or the poll is closed.
PollEnds ==
    /\ Event /\ ~ ended /\ ended' = TRUE
    /\ UNCHANGED <<request, queue, flush, receipts, update, relay, lists, unfit,
                   rescinded, granted, mempool, requests, faults, history>>

\* RecordBeacon: the window of recent blocks moves on.
BeaconExpires(b) ==
    /\ Event /\ b \notin unfit /\ unfit' = unfit \cup {b}
    /\ UNCHANGED <<request, queue, flush, receipts, update, relay, lists, ended,
                   rescinded, granted, mempool, requests, faults, history>>

\* AuthorityRescind of a ballot and its voter; the receipt store is not told.
Rescind(b) ==
    /\ Event
    /\ b \in votes /\ Owner[b] \in registry /\ b \notin rescinded
    /\ votes' = votes \ {b}
    /\ registry' = registry \ {Owner[b]}
    /\ rescinded' = rescinded \cup {b}
    /\ UNCHANGED <<request, queue, flush, receipts, update, relay, ended, unfit,
                   granted, mempool, requests, faults, history>>

\* AuthorityRestore: the voter of a rescinded ballot may cast again.
GrantRestore(b) ==
    /\ Event
    /\ b \in rescinded /\ Owner[b] \notin granted
    /\ granted' = granted \cup {Owner[b]}
    /\ UNCHANGED <<request, queue, flush, receipts, update, relay, lists, ended,
                   unfit, rescinded, mempool, requests, faults, history>>

-----------------------------------------------------------------------------
(* The relay                                                                *)

RelaySubmit(b) ==
    /\ Request /\ b \in ViaRelay
    /\ relayQueue' = Append(relayQueue, b)
    /\ relayed' = relayed \cup {b}
    /\ relayLost' = relayLost \ {b}
    /\ UNCHANGED <<request, queue, flush, receipts, update, relayBatch, ledger,
                   faults, events, accepted, everCast, dropped, doubled, putBack,
                   withReceipt, removed, renamed, misread>>

\* dequeue and shuffle.
RelayFlush ==
    /\ relayBatch = None /\ relayQueue # <<>>
    /\ relayBatch' \in {s \in [1..Len(relayQueue) -> ToSet(relayQueue)] :
                          \A b \in ToSet(relayQueue) :
                             Cardinality({i \in DOMAIN s : s[i] = b})
                             = Cardinality({i \in DOMAIN relayQueue :
                                              relayQueue[i] = b})}
    /\ relayQueue' = <<>>
    /\ UNCHANGED <<request, queue, flush, receipts, update, ledger, bounds,
                   history>>

\* The relay sends no attestation token.
RelayItem(b) == [ballot |-> b, receipt |-> Posture("missing") = "receipt"]

\* What the gateway answers once its registration query lets b pass.
UpstreamTakes(b) == Posture("missing") # "refuse" /\ ~ InQueue(RelayItem(b))

\* The whole submitBallot of the gateway.
UpstreamAccepts(b) == UpstreamTakes(b) /\ Accept(RelayItem(b))

UpstreamLeaves == UNCHANGED <<queue, accepted, dropped, doubled, withReceipt>>

\* restore(pollID, batch[i:])
RelayRestored == /\ relayQueue' = relayBatch \o relayQueue
                 /\ relayBatch' = None
                 /\ UNCHANGED relayLost

\* One turn of the loop in flushPoll.  A reply that is no JSON counts as
\* success, whatever the gateway did.
RelayPost ==
    /\ relayBatch \notin {None, <<>>}
    /\ LET b == Head(relayBatch)
           passedOn == relayBatch' = Tail(relayBatch) /\ UNCHANGED relayQueue
       IN \/ /\ UpstreamAccepts(b) /\ QueryPasses(b)      \* queued upstream
             /\ passedOn /\ UNCHANGED relayLost
          \/ /\ ~ UpstreamTakes(b) \/ Key[b] \in registry \* refused upstream
             /\ UpstreamLeaves /\ RelayRestored /\ UNCHANGED faults
          \/ /\ Fault /\ UpstreamLeaves                  \* not delivered
             /\ RelayRestored
          \/ /\ Fault /\ UpstreamAccepts(b)              \* the reply is lost
             /\ RelayRestored
          \/ /\ Fault /\ UpstreamLeaves                  \* an error page
             /\ passedOn /\ relayLost' = relayLost \cup {b}
    /\ UNCHANGED <<request, flush, receipts, update, ledger, requests, events,
                   relayed, everCast, putBack, removed, renamed, misread>>

\* Everything is upstream: flush there, or find nothing to flush, or nobody.
\* Whatever comes of it, the relay keeps nothing.
RelayFlushUpstream ==
    /\ relayBatch = <<>>
    /\ relayBatch' = None
    /\ \/ queue = <<>> /\ UNCHANGED <<flush, queue, faults>>
       \/ Fault /\ UNCHANGED <<flush, queue>>
       \/ \E f \in Flushers :
             /\ flush[f].pc = "idle" /\ queue # <<>>
             /\ flush' = [flush EXCEPT ![f] =
                            [pc |-> "dequeued", batch |-> queue]]
             /\ queue' = <<>> /\ UNCHANGED faults
    /\ UNCHANGED <<request, receipts, update, relayQueue, ledger, requests,
                   events, history>>

\* The relay process dies: its queue is in memory only.
RelayCrash ==
    /\ Fault
    /\ relayLost' = relayLost \cup ToSet(relayQueue)
                    \cup IF relayBatch = None THEN {} ELSE ToSet(relayBatch)
    /\ relayQueue' = <<>> /\ relayBatch' = None
    /\ UNCHANGED <<request, queue, flush, receipts, update, ledger, requests,
                   events, accepted, relayed, everCast, dropped, doubled, putBack,
                   withReceipt, removed, renamed, misread>>

\* The gateway process dies: queue and handlers are gone.
GatewayCrash ==
    /\ Fault
    /\ dropped' = dropped \cup NotOnLedger(BallotsOf(queue))
                  \cup NotOnLedger(UNION {BallotsOf(flush[f].batch) :
                                            f \in Flushers})
    /\ request' = [b \in Ballots |-> None]
    /\ queue' = <<>>
    /\ flush' = [f \in Flushers |-> Idle]
    /\ update' = None
    /\ UNCHANGED <<receipts, relay, ledger, requests, events, accepted, relayed,
                   everCast, relayLost, doubled, putBack, withReceipt, removed,
                   renamed, misread>>

\* What an update may put in the place of a ballot.
Replacements(v) == {b \in Ballots : Owner[b] = v} \cup {None}

GatewayNext ==
    \/ \E b \in Ballots : \/ \E token \in Tokens : Submit(b, token)
                          \/ Enqueue(b) \/ RelaySubmit(b)
                          \/ BeaconExpires(b) \/ Rescind(b) \/ GrantRestore(b)
    \/ \E f \in Flushers : Dequeue(f) \/ Broadcast(f) \/ FlushFailed(f)
                           \/ FlushTimedOut(f) \/ FlushMisread(f)
                           \/ FlushUnanswered(f) \/ FlushDone(f)
    \/ \E S \in SUBSET pending : CommitBlock(S)
    \/ \E v \in Voters : \E new \in Replacements(v) :
          \/ \E old \in Ballots : DeviceUpdate(v, old, new)
          \/ \E k \in Keys : ReconciledLookup(k, v, new)
    \/ ReconciledUpdate \/ ReconciledUnsent
    \/ RelayFlush \/ RelayPost \/ RelayFlushUpstream
    \/ PollEnds \/ RelayCrash \/ GatewayCrash

GatewaySpec == GatewayInit /\ [][GatewayNext]_gatewayVars

\* Handlers run to their end, CometBFT puts waiting batches into blocks, and
\* somebody keeps asking for flushes (the gateway has no timer of its own).
GatewayFairSpec ==
    /\ GatewaySpec
    /\ \A f \in Flushers : WF_gatewayVars(Dequeue(f) \/ Broadcast(f)
                                          \/ FlushFailed(f) \/ FlushDone(f)
                                          \/ FlushUnanswered(f))
    /\ WF_gatewayVars(\E S \in SUBSET pending : S # {} /\ CommitBlock(S))

-----------------------------------------------------------------------------
(* Properties                                                               *)

\* Types of the handlers' state and of what is outside.
GatewayTypeOK ==
    /\ \A b \in Ballots : request[b] = None \/ request[b].ballot = b
    /\ BallotsOf(queue) \subseteq Ballots
    /\ \A f \in Flushers :
          /\ flush[f].pc \in {"idle", "dequeued", "sent", "failed", "done"}
          /\ flush[f].pc = "idle" <=> flush[f].batch = <<>>
    /\ ToSet(relayQueue) \subseteq Ballots
    /\ votes \subseteq Ballots /\ registry \subseteq Voters
    /\ faults \in 0..MaxFaults

\* A ballot answered "queued" is in the queue, with a flush handler or was put
\* on the ledger, unless a crash or a misread reply lost it, through failed and
\* timed-out flushes and attestations that fail after the writes; and one the
\* relay took is with the relay or was queued by the gateway, unless the relay
\* crashed or took an error page for an answer.
AcceptedNotLost ==
    /\ accepted \subseteq BallotsOf(queue) \cup everCast \cup dropped
           \cup UNION {BallotsOf(flush[f].batch) : f \in Flushers}
    /\ relayed \subseteq ToSet(relayQueue) \cup accepted \cup relayLost
                         \cup IF relayBatch = None THEN {}
                              ELSE ToSet(relayBatch)

\* The batches that wait for the ledger.
Waiting == {queue} \cup {flush[f].batch : f \in {g \in Flushers : Held(g)}}

\* One ballot the ledger refuses holds up everyone in its batch, for the batch
\* is put back whole.  It takes the poll's end, a ballot that is bad or whose
\* beacon expired, a voter whose second ballot was accepted while the first
\* was on its way or on the ledger (the registration query and the queue's
\* duplicate check leave that gap) or queued under a key the gateway cannot
\* tell to be theirs, or a batch put back although it was or would be executed.
PoisonHasCause ==
    \A batch \in Waiting :
        BatchValid(batch) \/ ended \/ BallotsOf(batch) \cap unfit # {}
        \/ VotersOf(batch) \cap (doubled \cup putBack) # {}

\* A ballot cast in the write-only posture never gets a receipt, through
\* failed flushes, retries and restores.
WriteOnlyNoReceipt ==
    \A k \in Keys \ renamed : \A b \in Ballots \ withReceipt :
        receipts[k] # CastID(b)

\* A receipt names a ballot of its key under the ID the ledger has it under,
\* and the ballot is on List 1, unless an update or a rescission took it off,
\* or the flush was reported done without it, or an update rewrote the receipt;
\* casting twice, timed-out flushes, failed attestations, restores and crashes
\* do not break it.
ReceiptsMatchLedger ==
    NoncePlusPayload =>
        \A k \in Keys \ renamed :
            \/ receipts[k] = None
            \/ \E b \in votes \cup removed \cup rescinded \cup misread :
                  Key[b] = k /\ receipts[k] = LedgerID(b)

\* Under fairness, a voter whose ballot is queued is on the ledger at some
\* later point, unless the batch they wait in becomes one the ledger refuses
\* (for the causes above) or the ballot was dropped.
QueuedReachesLedger ==
    \A v \in Voters :
        v \in VotersOf(queue) ~>
            \/ v \in registry
            \/ \E batch \in Waiting : v \in VotersOf(batch) /\ ~ BatchValid(batch)
            \/ \E b \in dropped : Owner[b] = v

=============================================================================

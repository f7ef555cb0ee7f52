--------------------------- MODULE GatewayProofs ---------------------------
(***************************************************************************)
(* Theorems about the gateway, for any number of voters, keys, ballots,    *)
(* concurrent flushes, requests, faults and events on the ledger, and any  *)
(* posture.                                                                *)
(***************************************************************************)
EXTENDS Gateway, FiniteSetTheorems, SequenceTheorems, TLAPS

Items == [ballot : Ballots, receipt : BOOLEAN]
IDs == {"nonce", "nonce+payload", "beacon+nonce"} \X Ballots
Handlers == [pc : {"idle", "dequeued", "sent", "failed", "done"},
             batch : Seq(Items)]
Updates == [key : Keys, voter : Voters, old : IDs \cup {None},
            new : Ballots \cup {None}]

-----------------------------------------------------------------------------
(* Types                                                                    *)

\* Types of the handlers: what they hold are batches of items.
HandlerTypes ==
    /\ request \in [Ballots -> Items \cup {None}]
    /\ \A b \in Ballots : request[b] # None => request[b].ballot = b
    /\ queue \in Seq(Items)
    /\ flush \in [Flushers -> Handlers]
    /\ \A f \in Flushers : flush[f].pc = "idle" <=> flush[f].batch = <<>>
    /\ faults \in 0..MaxFaults

\* Types of the receipt store, the relay and the ledger.
StoreTypes ==
    /\ receipts \in [Keys -> IDs \cup {None}]
    /\ update \in Updates \cup {None}
    /\ votes \subseteq Ballots /\ registry \subseteq Voters
    /\ pending \subseteq [by : Flushers, batch : Seq(Items)]
    /\ relayQueue \in Seq(Ballots)
    /\ relayBatch \in Seq(Ballots) \cup {None}

GTypeInv == HandlerTypes /\ StoreTypes

\* Every step that appends to the gateway's queue appends an item.
LEMMA AcceptTypes ==
    ASSUME GTypeInv, NEW item \in Items, Accept(item)
    PROVE  queue' \in Seq(Items)
  BY DEF Accept, GTypeInv, HandlerTypes

\* Batches name ballots.
LEMMA BallotsOfItems ==
    ASSUME NEW batch \in Seq(Items)
    PROVE  /\ BallotsOf(batch) \subseteq Ballots
           /\ VotersOf(batch) \subseteq Voters
           /\ \A i \in 1..Len(batch) : batch[i] \in Items /\ batch[i].ballot \in Ballots
  <1>1. \A i \in 1..Len(batch) : batch[i] \in Items
    OBVIOUS
  <1>2. \A i \in 1..Len(batch) : batch[i].ballot \in Ballots
    BY <1>1 DEF Items
  <1> QED
    BY <1>1, <1>2, GatewayConstants DEF BallotsOf, VotersOf

\* An idle handler holds nothing.
LEMMA IdleTypes == Idle \in Handlers /\ Idle.pc = "idle" /\ Idle.batch = <<>>
  BY DEF Idle, Handlers

\* Ballot IDs are tuples.
LEMMA IDTypes ==
    \A b \in Ballots : /\ CastID(b) \in IDs /\ UpdateID(b) \in IDs
                       /\ LedgerID(b) \in IDs
                       /\ CastID(b) # None /\ LedgerID(b) # None
  BY GatewayNone DEF CastID, UpdateID, LedgerID, IDs

\* The empty gateway.
LEMMA InitTypes == GatewayInit => GTypeInv
  <1> SUFFICES ASSUME GatewayInit PROVE GTypeInv
    OBVIOUS
  <1>1. HandlerTypes
    BY IdleTypes, GatewayConstants DEF GatewayInit, HandlerTypes
  <1>2. StoreTypes
    BY DEF GatewayInit, StoreTypes
  <1> QED
    BY <1>1, <1>2 DEF GTypeInv

\* Faults are counted up to their bound.
LEMMA FaultTypes ==
    ASSUME GTypeInv, UNCHANGED faults \/ Fault
    PROVE  faults' \in 0..MaxFaults
  BY GatewayConstants DEF Fault, GTypeInv, HandlerTypes

\* Dequeuing moves the queue to an idle handler.
LEMMA DequeueTypes ==
    ASSUME GTypeInv, NEW f \in Flushers, queue # <<>>,
           flush' = [flush EXCEPT ![f] = [pc |-> "dequeued", batch |-> queue]]
    PROVE  /\ flush' \in [Flushers -> Handlers]
           /\ \A g \in Flushers : flush'[g].pc = "idle" <=> flush'[g].batch = <<>>
  <1>1. [pc |-> "dequeued", batch |-> queue] \in Handlers
    BY DEF GTypeInv, HandlerTypes, Handlers
  <1> QED
    BY <1>1 DEF GTypeInv, HandlerTypes

\* A handler that moves on with its batch.
LEMMA MoveOnTypes ==
    ASSUME GTypeInv, NEW f \in Flushers, flush[f].pc # "idle",
           NEW pc \in {"sent", "failed", "done"},
           flush' = [flush EXCEPT ![f].pc = pc]
    PROVE  /\ flush' \in [Flushers -> Handlers]
           /\ \A g \in Flushers : flush'[g].pc = "idle" <=> flush'[g].batch = <<>>
           /\ flush'[f].pc = pc /\ flush'[f].batch = flush[f].batch
           /\ \A g \in Flushers : g # f => flush'[g] = flush[g]
  <1>1. flush[f] \in Handlers
    BY DEF GTypeInv, HandlerTypes
  <1>2. /\ [flush[f] EXCEPT !.pc = pc] \in Handlers
        /\ [flush[f] EXCEPT !.pc = pc].pc = pc
        /\ [flush[f] EXCEPT !.pc = pc].batch = flush[f].batch
    BY <1>1 DEF Handlers
  <1>3. flush' = [flush EXCEPT ![f] = [flush[f] EXCEPT !.pc = pc]]
    BY DEF GTypeInv, HandlerTypes
  <1> QED
    BY <1>2, <1>3 DEF GTypeInv, HandlerTypes

\* A handler that ends.
LEMMA EndTypes ==
    ASSUME GTypeInv, NEW f \in Flushers, flush' = [flush EXCEPT ![f] = Idle]
    PROVE  /\ flush' \in [Flushers -> Handlers]
           /\ \A g \in Flushers : flush'[g].pc = "idle" <=> flush'[g].batch = <<>>
           /\ flush'[f].batch = <<>> /\ flush'[f].pc = "idle"
           /\ \A g \in Flushers : g # f => flush'[g] = flush[g]
  BY IdleTypes DEF GTypeInv, HandlerTypes

\* What a block leaves each handler with.
LEMMA CommitHandlers ==
    ASSUME GTypeInv, NEW S \in SUBSET pending, CommitBlock(S)
    PROVE  /\ flush' \in [Flushers -> Handlers]
           /\ \A f \in Flushers :
                 /\ flush'[f].batch = flush[f].batch
                 /\ ~ Answers(S, f) => flush'[f].pc = flush[f].pc
                 /\ Answers(S, f) => flush'[f].pc \in {"done", "failed"}
                 /\ flush'[f].pc = "failed" /\ Answers(S, f) =>
                       VotersOf(flush[f].batch) \subseteq putBack'
           /\ putBack \subseteq putBack'
           /\ UNCHANGED faults \/ Fault
  <1>1. PICK failing \in SUBSET S :
          /\ UNCHANGED faults \/ Fault
          /\ flush' = [f \in Flushers |->
                IF Answers(failing, f) THEN [flush[f] EXCEPT !.pc = "failed"]
                ELSE IF Answers(S, f) THEN [flush[f] EXCEPT !.pc = "done"]
                ELSE flush[f]]
          /\ putBack' = putBack \cup UNION {VotersOf(p.batch) : p \in failing}
    BY DEF CommitBlock
  <1>2. ASSUME NEW f \in Flushers
        PROVE  /\ flush'[f] \in Handlers
               /\ flush'[f].batch = flush[f].batch
               /\ ~ Answers(S, f) => flush'[f].pc = flush[f].pc
               /\ Answers(S, f) => flush'[f].pc \in {"done", "failed"}
               /\ flush'[f].pc = "failed" /\ Answers(S, f) => Answers(failing, f)
    <2>1. flush[f] \in Handlers
      BY DEF GTypeInv, HandlerTypes
    <2>2. /\ [flush[f] EXCEPT !.pc = "done"] \in Handlers
          /\ [flush[f] EXCEPT !.pc = "failed"] \in Handlers
          /\ [flush[f] EXCEPT !.pc = "done"].batch = flush[f].batch
          /\ [flush[f] EXCEPT !.pc = "failed"].batch = flush[f].batch
          /\ [flush[f] EXCEPT !.pc = "done"].pc = "done"
          /\ [flush[f] EXCEPT !.pc = "failed"].pc = "failed"
      BY <2>1 DEF Handlers
    <2>3. CASE Answers(failing, f)
      <3>1. Answers(S, f)
        BY <2>3 DEF Answers
      <3> QED
        BY <1>1, <2>2, <2>3, <3>1
    <2>4. CASE ~ Answers(failing, f) /\ Answers(S, f)
      BY <1>1, <2>2, <2>4
    <2>5. CASE ~ Answers(failing, f) /\ ~ Answers(S, f)
      BY <1>1, <2>1, <2>5
    <2> QED
      BY <2>3, <2>4, <2>5
  <1>3. ASSUME NEW f \in Flushers, Answers(failing, f)
        PROVE  VotersOf(flush[f].batch) \subseteq putBack'
    <2>1. PICK p \in failing : p = [by |-> f, batch |-> flush[f].batch]
      BY <1>3 DEF Answers
    <2>2. p.batch = flush[f].batch
      BY <2>1
    <2> QED
      BY <1>1, <2>2
  <1>4. flush' \in [Flushers -> Handlers]
    BY <1>1, <1>2
  <1> QED
    BY <1>1, <1>2, <1>3, <1>4

\* Queues put together are queues.
LEMMA RestoreTypes ==
    ASSUME GTypeInv, NEW f \in Flushers
    PROVE  Restore(flush[f].batch) \in Seq(Items)
  <1>1. flush[f].batch \in Seq(Items) /\ queue \in Seq(Items)
    BY DEF GTypeInv, HandlerTypes, Handlers
  <1> QED
    BY <1>1 DEF Restore

\* Requests keep the types.
LEMMA SubmitStepTypes ==
    ASSUME GTypeInv, NEW b \in Ballots,
           Enqueue(b) \/ RelaySubmit(b) \/ \E token \in Tokens : Submit(b, token)
    PROVE  GTypeInv'
  <1>1. ASSUME NEW token \in Tokens, Submit(b, token) PROVE GTypeInv'
    <2>1. [ballot |-> b, receipt |-> Posture(token) = "receipt"] \in Items
      BY DEF Items
    <2>2. [ballot |-> b, receipt |-> Posture(token) = "receipt"].ballot = b
      OBVIOUS
    <2>3. faults' \in 0..MaxFaults
      BY <1>1, FaultTypes DEF Submit, QueryPasses
    <2>4. /\ request' \in [Ballots -> Items \cup {None}]
          /\ \A c \in Ballots : request'[c] # None => request'[c].ballot = c
      BY <1>1, <2>1, <2>2 DEF Submit, GTypeInv, HandlerTypes
    <2> QED
      BY <1>1, <2>3, <2>4 DEF Submit, GTypeInv, HandlerTypes, StoreTypes, relay, ledger,
         lists, mempool
  <1>2. CASE Enqueue(b)
    <2>1. request[b] \in Items
      BY <1>2 DEF Enqueue, GTypeInv, HandlerTypes
    <2>2. queue' \in Seq(Items)
      <3>1. CASE Accept(request[b])
        BY <2>1, <3>1, AcceptTypes
      <3>2. CASE UNCHANGED queue
        BY <3>2 DEF GTypeInv, HandlerTypes
      <3> QED
        BY <1>2, <3>1, <3>2 DEF Enqueue
    <2>3. /\ request' \in [Ballots -> Items \cup {None}]
          /\ \A c \in Ballots : request'[c] # None => request'[c].ballot = c
      BY <1>2 DEF Enqueue, GTypeInv, HandlerTypes
    <2> QED
      BY <1>2, <2>2, <2>3 DEF Enqueue, GTypeInv, HandlerTypes, StoreTypes, relay, ledger,
         lists, mempool, bounds
  <1>3. CASE RelaySubmit(b)
    BY <1>3 DEF RelaySubmit, GTypeInv, HandlerTypes, StoreTypes, ledger, lists, mempool
  <1> QED
    BY <1>1, <1>2, <1>3

\* A step that changes handlers and queue only.
LEMMA HandlerStepTypes ==
    ASSUME GTypeInv, queue' \in Seq(Items), flush' \in [Flushers -> Handlers],
           \A g \in Flushers : flush'[g].pc = "idle" <=> flush'[g].batch = <<>>,
           faults' \in 0..MaxFaults,
           pending' \subseteq [by : Flushers, batch : Seq(Items)],
           receipts' \in [Keys -> IDs \cup {None}],
           UNCHANGED <<request, update, relay, lists>>
    PROVE  GTypeInv'
  BY DEF GTypeInv, HandlerTypes, StoreTypes, relay, lists

\* What the receipts of a flush are.
LEMMA ReceiptsWritten ==
    ASSUME GTypeInv, NEW f \in Flushers, FlushDone(f)
    PROVE  /\ receipts' \in [Keys -> IDs \cup {None}]
           /\ \A k \in Keys :
                 \/ receipts'[k] = receipts[k]
                 \/ \E i \in Receipted(flush[f].batch) :
                       /\ Key[flush[f].batch[i].ballot] = k
                       /\ receipts'[k] = CastID(flush[f].batch[i].ballot)
  <1> DEFINE batch == flush[f].batch
             mine(stored, k) == CHOOSE i \in stored : LastOf(batch, stored, k, i)
  <1>1. PICK stored \in SUBSET Receipted(batch) :
          receipts' = [k \in Keys |->
             IF \E i \in stored : LastOf(batch, stored, k, i)
             THEN CastID(batch[mine(stored, k)].ballot) ELSE receipts[k]]
    BY DEF FlushDone
  <1>2. ASSUME NEW k \in Keys, \E i \in stored : LastOf(batch, stored, k, i)
        PROVE  mine(stored, k) \in stored /\ Key[batch[mine(stored, k)].ballot] = k
    <2>1. mine(stored, k) \in stored /\ LastOf(batch, stored, k, mine(stored, k))
      BY <1>2
    <2> QED
      BY <2>1 DEF LastOf
  <1>3. \A i \in Receipted(batch) : CastID(batch[i].ballot) \in IDs
    <2>1. batch \in Seq(Items)
      BY DEF GTypeInv, HandlerTypes, Handlers
    <2>2. \A i \in Receipted(batch) : batch[i].ballot \in Ballots
      BY <2>1, BallotsOfItems DEF Receipted
    <2> HIDE DEF batch
    <2> QED
      BY <2>2, IDTypes
  <1> HIDE DEF batch, mine
  <1>4. ASSUME NEW k \in Keys
        PROVE  /\ receipts'[k] \in IDs \cup {None}
               /\ \/ receipts'[k] = receipts[k]
                  \/ \E i \in Receipted(batch) :
                        Key[batch[i].ballot] = k /\ receipts'[k] = CastID(batch[i].ballot)
    <2>1. CASE \E i \in stored : LastOf(batch, stored, k, i)
      BY <1>1, <1>2, <1>3, <2>1
    <2>2. CASE ~ \E i \in stored : LastOf(batch, stored, k, i)
      BY <1>1, <2>2 DEF GTypeInv, StoreTypes
    <2> QED
      BY <2>1, <2>2
  <1>5. receipts' \in [Keys -> IDs \cup {None}]
    BY <1>1, <1>4
  <1> QED
    BY <1>4, <1>5 DEF batch

\* The steps of a flush keep the types.
LEMMA FlushStepTypes ==
    ASSUME GTypeInv, NEW f \in Flushers,
           \/ Dequeue(f) \/ Broadcast(f) \/ FlushFailed(f) \/ FlushTimedOut(f)
           \/ FlushMisread(f) \/ FlushUnanswered(f) \/ FlushDone(f)
    PROVE  GTypeInv'
  <1>t. /\ queue \in Seq(Items) /\ faults \in 0..MaxFaults
        /\ pending \subseteq [by : Flushers, batch : Seq(Items)]
        /\ receipts \in [Keys -> IDs \cup {None}]
        /\ flush[f].batch \in Seq(Items)
    BY DEF GTypeInv, HandlerTypes, StoreTypes, Handlers
  <1>1. CASE Dequeue(f)
    <2>1. /\ flush' \in [Flushers -> Handlers]
          /\ \A g \in Flushers : flush'[g].pc = "idle" <=> flush'[g].batch = <<>>
      BY <1>1, DequeueTypes DEF Dequeue
    <2>2. /\ queue' \in Seq(Items)
          /\ UNCHANGED <<request, update, relay, lists, faults, pending, receipts>>
      BY <1>1 DEF Dequeue, ledger, mempool, bounds
    <2> QED
      BY <1>t, <2>1, <2>2, HandlerStepTypes
  <1>2. CASE Broadcast(f)
    <2>1. /\ flush' \in [Flushers -> Handlers]
          /\ \A g \in Flushers : flush'[g].pc = "idle" <=> flush'[g].batch = <<>>
      BY <1>2, MoveOnTypes DEF Broadcast
    <2>2. pending' \subseteq [by : Flushers, batch : Seq(Items)]
      BY <1>2, <1>t DEF Broadcast, mempool
    <2>3. UNCHANGED <<request, queue, update, relay, lists, faults, receipts>>
      BY <1>2 DEF Broadcast, bounds
    <2> QED
      BY <1>t, <2>1, <2>2, <2>3, HandlerStepTypes
  <1>3. CASE FlushFailed(f) \/ FlushTimedOut(f)
    <2>1. /\ queue' \in Seq(Items)
          /\ flush' \in [Flushers -> Handlers]
          /\ \A g \in Flushers : flush'[g].pc = "idle" <=> flush'[g].batch = <<>>
      BY <1>3, EndTypes, RestoreTypes DEF FlushFailed, FlushTimedOut
    <2>2. faults' \in 0..MaxFaults
      BY <1>3, FaultTypes DEF FlushFailed, FlushTimedOut, bounds
    <2>3. UNCHANGED <<request, update, relay, lists, pending, receipts>>
      BY <1>3 DEF FlushFailed, FlushTimedOut, ledger, mempool
    <2> QED
      BY <1>t, <2>1, <2>2, <2>3, HandlerStepTypes
  <1>4. CASE FlushMisread(f) \/ FlushUnanswered(f)
    <2>1. /\ flush' \in [Flushers -> Handlers]
          /\ \A g \in Flushers : flush'[g].pc = "idle" <=> flush'[g].batch = <<>>
      BY <1>4, MoveOnTypes DEF FlushMisread, FlushUnanswered, FlushReported
    <2>2. faults' \in 0..MaxFaults
      BY <1>4, FaultTypes DEF FlushMisread, FlushUnanswered
    <2>3. UNCHANGED <<request, queue, update, relay, lists, pending, receipts>>
      BY <1>4 DEF FlushMisread, FlushUnanswered, FlushReported, ledger, mempool
    <2> QED
      BY <1>t, <2>1, <2>2, <2>3, HandlerStepTypes
  <1>5. CASE FlushDone(f)
    <2>1. faults' \in 0..MaxFaults
      <3>1. UNCHANGED faults \/ Fault
        BY <1>5 DEF FlushDone
      <3> QED
        BY <3>1, FaultTypes
    <2>2. receipts' \in [Keys -> IDs \cup {None}]
      BY <1>5, ReceiptsWritten
    <2>3. UNCHANGED <<request, queue, update, relay, lists, pending>>
          /\ flush' = [flush EXCEPT ![f] = Idle]
      BY <1>5 DEF FlushDone, ledger, mempool
    <2>4. /\ flush' \in [Flushers -> Handlers]
          /\ \A g \in Flushers : flush'[g].pc = "idle" <=> flush'[g].batch = <<>>
      BY <2>3, EndTypes
    <2> QED
      BY <1>t, <2>1, <2>2, <2>3, <2>4, HandlerStepTypes
  <1> QED
    BY <1>1, <1>2, <1>3, <1>4, <1>5

\* A block keeps the types.
LEMMA CommitStepTypes ==
    ASSUME GTypeInv, NEW S \in SUBSET pending, CommitBlock(S)
    PROVE  GTypeInv'
  <1>1. /\ flush' \in [Flushers -> Handlers]
        /\ \A g \in Flushers : flush'[g].pc = "idle" <=> flush'[g].batch = <<>>
        /\ faults' \in 0..MaxFaults
    <2>1. \A g \in Flushers : Answers(S, g) => flush[g].pc = "sent"
      BY DEF Answers
    <2> QED
      BY <2>1, CommitHandlers, FaultTypes DEF GTypeInv, HandlerTypes
  <1>2. \A p \in S : /\ BallotsOf(p.batch) \subseteq Ballots
                     /\ VotersOf(p.batch) \subseteq Voters
    BY BallotsOfItems DEF GTypeInv, StoreTypes
  <1>3. votes' \subseteq Ballots /\ registry' \subseteq Voters
    BY <1>2 DEF CommitBlock, GTypeInv, StoreTypes
  <1>4. pending' \subseteq pending
    BY DEF CommitBlock
  <1>5. UNCHANGED <<request, queue, receipts, update, relayQueue, relayBatch>>
    BY DEF CommitBlock, relay
  <1> QED
    BY <1>1, <1>3, <1>4, <1>5 DEF GTypeInv, HandlerTypes, StoreTypes

\* What an update leaves on the ledger.
LEMMA ExecutedTypes ==
    ASSUME GTypeInv, NEW v \in Voters, NEW old, NEW new \in Ballots \cup {None},
           UpdateExecuted(v, old, new)
    PROVE  /\ votes' \subseteq Ballots /\ registry' \subseteq registry
           /\ everCast \subseteq everCast' /\ removed \subseteq removed'
           /\ votes \ {old} \subseteq votes' /\ old \in removed'
           /\ everCast' \subseteq everCast \cup votes'
  BY DEF UpdateExecuted, GTypeInv, StoreTypes

\* The same for the update that waits for its broadcast.
LEMMA DecidedTypes ==
    ASSUME GTypeInv, update # None, UpdateDecided
    PROVE  /\ votes' \subseteq Ballots /\ registry' \subseteq registry
           /\ everCast \subseteq everCast' /\ removed \subseteq removed'
           /\ votes \subseteq votes' \cup removed'
           /\ everCast' \subseteq everCast \cup votes'
  <1>1. update.voter \in Voters /\ update.new \in Ballots \cup {None}
    BY DEF GTypeInv, StoreTypes, Updates
  <1>2. ASSUME NEW old, UpdateExecuted(update.voter, old, update.new)
        PROVE  /\ votes' \subseteq Ballots /\ registry' \subseteq registry
               /\ everCast \subseteq everCast' /\ removed \subseteq removed'
               /\ votes \subseteq votes' \cup removed'
               /\ everCast' \subseteq everCast \cup votes'
    BY <1>1, <1>2, ExecutedTypes
  <1>3. CASE UNCHANGED <<lists, everCast, removed>>
    BY <1>3 DEF lists, GTypeInv, StoreTypes
  <1> QED
    BY <1>2, <1>3 DEF UpdateDecided

\* Updates keep the types.
LEMMA UpdateStepTypes ==
    ASSUME GTypeInv,
           \/ \E v \in Voters : \E new \in Replacements(v) :
                 \/ \E old \in Ballots : DeviceUpdate(v, old, new)
                 \/ \E k \in Keys : ReconciledLookup(k, v, new)
           \/ ReconciledUpdate \/ ReconciledUnsent
    PROVE  GTypeInv'
  <1>1. ASSUME NEW v \in Voters, NEW new \in Replacements(v), NEW old \in Ballots,
               DeviceUpdate(v, old, new)
        PROVE  GTypeInv'
    <2>1. new \in Ballots \cup {None} /\ UpdateExecuted(v, old, new)
      BY <1>1 DEF DeviceUpdate, Replacements
    <2>2. votes' \subseteq Ballots /\ registry' \subseteq Voters
      BY <2>1, ExecutedTypes DEF GTypeInv, StoreTypes
    <2> QED
      BY <1>1, <2>2 DEF DeviceUpdate, GTypeInv, HandlerTypes, StoreTypes, relay, mempool
  <1>2. ASSUME NEW v \in Voters, NEW new \in Replacements(v), NEW k \in Keys,
               ReconciledLookup(k, v, new)
        PROVE  GTypeInv'
    <2> DEFINE u == [key |-> k, voter |-> v, old |-> receipts[k], new |-> new]
    <2>1. u \in Updates
      BY <1>2 DEF GTypeInv, StoreTypes, Updates, Replacements
    <2>2. update' = u
      BY <1>2 DEF ReconciledLookup
    <2> HIDE DEF u
    <2> QED
      BY <1>2, <2>1, <2>2 DEF ReconciledLookup, GTypeInv, HandlerTypes, StoreTypes, relay,
         ledger, lists, mempool
  <1>3. ASSUME ReconciledUpdate
        PROVE  GTypeInv'
    <2>1. update.key \in Keys /\ update.new \in Ballots \cup {None}
      BY <1>3 DEF ReconciledUpdate, GTypeInv, StoreTypes, Updates
    <2>2. votes' \subseteq Ballots /\ registry' \subseteq Voters
      BY <1>3, DecidedTypes DEF ReconciledUpdate, GTypeInv, StoreTypes
    <2>3. receipts' \in [Keys -> IDs \cup {None}]
      BY <1>3, <2>1, IDTypes DEF ReconciledUpdate, StoreSynced, GTypeInv, StoreTypes
    <2>4. faults' \in 0..MaxFaults
      BY <1>3, FaultTypes DEF ReconciledUpdate
    <2> QED
      BY <1>3, <2>2, <2>3, <2>4 DEF ReconciledUpdate, GTypeInv, HandlerTypes, StoreTypes,
         relay, mempool
  <1>4. CASE ReconciledUnsent
    <2>1. faults' \in 0..MaxFaults
      BY <1>4, FaultTypes DEF ReconciledUnsent
    <2> QED
      BY <1>4, <2>1 DEF ReconciledUnsent, GTypeInv, HandlerTypes, StoreTypes, relay, ledger,
         lists, mempool
  <1> QED
    BY <1>1, <1>2, <1>3, <1>4

\* A sequence with as many of each as another one has all of them.
LEMMA ShuffleKeeps ==
    ASSUME NEW S, NEW q \in Seq(S), NEW s \in [1..Len(q) -> ToSet(q)],
           \A b \in ToSet(q) : Cardinality({i \in DOMAIN s : s[i] = b})
                               = Cardinality({i \in DOMAIN q : q[i] = b})
    PROVE  ToSet(s) = ToSet(q) /\ s \in Seq(S) /\ Len(s) = Len(q)
  <1>1. DOMAIN s = 1..Len(q) /\ DOMAIN q = 1..Len(q) /\ Len(q) \in Nat
    OBVIOUS
  <1>2. ToSet(s) \subseteq ToSet(q)
    BY <1>1 DEF ToSet
  <1>3. ToSet(q) \subseteq S
    BY <1>1 DEF ToSet
  <1>4. s \in Seq(S) /\ Len(s) = Len(q)
    BY <1>1, <1>3
  <1>5. ASSUME NEW b \in ToSet(q) PROVE b \in ToSet(s)
    <2> DEFINE qs == {i \in DOMAIN q : q[i] = b}
               ss == {i \in DOMAIN s : s[i] = b}
    <2>1. IsFiniteSet(1..Len(q))
      BY <1>1, FS_Interval
    <2>2. IsFiniteSet(qs) /\ IsFiniteSet(ss)
      BY <1>1, <2>1, FS_Subset
    <2>3. qs # {}
      BY DEF ToSet
    <2>4. Cardinality(ss) = Cardinality(qs)
      OBVIOUS
    <2>5. ss # {}
      <3> HIDE DEF qs, ss
      <3> QED
        BY <2>2, <2>3, <2>4, FS_EmptySet
    <2> QED
      BY <2>5 DEF ToSet
  <1> QED
    BY <1>2, <1>4, <1>5

\* The relay's steps keep the types.
LEMMA RelayStepTypes ==
    ASSUME GTypeInv, RelayFlush \/ RelayPost \/ RelayFlushUpstream \/ RelayCrash
    PROVE  GTypeInv'
  <1>1. CASE RelayFlush
    <2>1. relayBatch' \in Seq(Ballots)
      BY <1>1, ShuffleKeeps DEF RelayFlush, GTypeInv, StoreTypes
    <2>2. relayQueue' \in Seq(Ballots)
      BY <1>1 DEF RelayFlush
    <2>3. UNCHANGED <<request, queue, flush, receipts, update, votes, registry, pending,
                      faults>>
      BY <1>1 DEF RelayFlush, ledger, lists, mempool, bounds
    <2> QED
      BY <2>1, <2>2, <2>3 DEF GTypeInv, HandlerTypes, StoreTypes
  <1>2. CASE RelayPost
    <2>1. /\ relayBatch \in Seq(Ballots) /\ relayBatch # <<>>
          /\ relayQueue \in Seq(Ballots)
      BY <1>2 DEF RelayPost, GTypeInv, StoreTypes
    <2>2. /\ Head(relayBatch) \in Ballots /\ Tail(relayBatch) \in Seq(Ballots)
          /\ relayBatch \o relayQueue \in Seq(Ballots)
      BY <2>1
    <2>3. RelayItem(Head(relayBatch)) \in Items
      BY <2>2 DEF RelayItem, Items
    <2>4. queue' \in Seq(Items)
      <3>1. CASE Accept(RelayItem(Head(relayBatch)))
        BY <2>3, <3>1, AcceptTypes
      <3>2. CASE UNCHANGED queue
        BY <3>2 DEF GTypeInv, HandlerTypes
      <3> QED
        BY <1>2, <3>1, <3>2 DEF RelayPost, UpstreamAccepts, UpstreamLeaves
    <2>5. relayBatch' \in Seq(Ballots) \cup {None} /\ relayQueue' \in Seq(Ballots)
      BY <1>2, <2>1, <2>2 DEF RelayPost, RelayRestored
    <2>6. faults' \in 0..MaxFaults
      <3>1. UNCHANGED faults \/ Fault
        BY <1>2 DEF RelayPost, QueryPasses
      <3> QED
        BY <3>1, FaultTypes
    <2>7. UNCHANGED <<request, flush, receipts, update, votes, registry, pending>>
      BY <1>2 DEF RelayPost, ledger, lists, mempool
    <2> QED
      BY <2>4, <2>5, <2>6, <2>7 DEF GTypeInv, HandlerTypes, StoreTypes
  <1>3. CASE RelayFlushUpstream
    <2>1. /\ UNCHANGED <<request, receipts, update, relayQueue, votes, registry, pending>>
          /\ relayBatch' = None
      BY <1>3 DEF RelayFlushUpstream, ledger, lists, mempool
    <2>2. faults' \in 0..MaxFaults
      <3>1. UNCHANGED faults \/ Fault
        BY <1>3 DEF RelayFlushUpstream
      <3> QED
        BY <3>1, FaultTypes
    <2>3. CASE UNCHANGED <<flush, queue>>
      BY <2>1, <2>2, <2>3 DEF GTypeInv, HandlerTypes, StoreTypes
    <2>4. ASSUME NEW f \in Flushers, queue # <<>>, queue' = <<>>,
                 flush' = [flush EXCEPT ![f] = [pc |-> "dequeued", batch |-> queue]]
          PROVE  GTypeInv'
      <3>1. /\ flush' \in [Flushers -> Handlers]
            /\ \A g \in Flushers : flush'[g].pc = "idle" <=> flush'[g].batch = <<>>
        BY <2>4, DequeueTypes
      <3>2. queue' \in Seq(Items)
        BY <2>4
      <3> QED
        BY <2>1, <2>2, <3>1, <3>2 DEF GTypeInv, HandlerTypes, StoreTypes
    <2> QED
      BY <1>3, <2>3, <2>4 DEF RelayFlushUpstream
  <1>4. CASE RelayCrash
    <2>1. faults' \in 0..MaxFaults
      BY <1>4, FaultTypes DEF RelayCrash
    <2> QED
      BY <1>4, <2>1 DEF RelayCrash, GTypeInv, HandlerTypes, StoreTypes, ledger, lists, mempool
  <1> QED
    BY <1>1, <1>2, <1>3, <1>4

\* What else happens on the ledger keeps the types and takes nobody in.
LEMMA EventSteps ==
    ASSUME GTypeInv, NEW b \in Ballots,
           PollEnds \/ BeaconExpires(b) \/ Rescind(b) \/ GrantRestore(b)
    PROVE  /\ GTypeInv'
           /\ UNCHANGED <<request, queue, flush, receipts, update, relay, pending, history>>
           /\ registry' \subseteq registry
           /\ votes \subseteq votes' \cup rescinded' /\ rescinded \subseteq rescinded'
  <1>1. /\ UNCHANGED <<request, queue, flush, receipts, update, relay, pending, history,
                      faults>>
        /\ registry' \subseteq registry /\ votes' \subseteq votes
        /\ votes \subseteq votes' \cup rescinded' /\ rescinded \subseteq rescinded'
    BY DEF PollEnds, BeaconExpires, Rescind, GrantRestore, lists, mempool
  <1> QED
    BY <1>1 DEF GTypeInv, HandlerTypes, StoreTypes, relay

\* Every step keeps the types.
LEMMA StepTypes ==
    ASSUME GTypeInv, [GatewayNext]_gatewayVars
    PROVE  GTypeInv'
  <1>1. CASE GatewayCrash
    <2>1. faults' \in 0..MaxFaults
      BY <1>1, FaultTypes DEF GatewayCrash
    <2>2. /\ flush' \in [Flushers -> Handlers]
          /\ \A g \in Flushers : flush'[g].pc = "idle" <=> flush'[g].batch = <<>>
      BY <1>1, IdleTypes DEF GatewayCrash
    <2>3. /\ request' \in [Ballots -> Items \cup {None}]
          /\ \A c \in Ballots : request'[c] = None
          /\ queue' \in Seq(Items) /\ update' = None
      BY <1>1 DEF GatewayCrash
    <2>4. UNCHANGED <<receipts, relayQueue, relayBatch, votes, registry, pending>>
      BY <1>1 DEF GatewayCrash, relay, ledger, lists, mempool
    <2> QED
      BY <2>1, <2>2, <2>3, <2>4 DEF GTypeInv, HandlerTypes, StoreTypes
  <1>2. CASE UNCHANGED gatewayVars
    BY <1>2 DEF gatewayVars, relay, ledger, lists, mempool, bounds, GTypeInv, HandlerTypes,
       StoreTypes
  <1>3. CASE PollEnds
    BY <1>3 DEF PollEnds, GTypeInv, HandlerTypes, StoreTypes, relay, lists, mempool
  <1> QED
    BY <1>1, <1>2, <1>3, SubmitStepTypes, FlushStepTypes, CommitStepTypes, UpdateStepTypes,
       RelayStepTypes, EventSteps DEF GatewayNext

\* Types hold for any instance: every handler's batch stays with it until it
\* ends, and faults stay within their bound.
THEOREM GatewayTypes == GatewaySpec => []GatewayTypeOK
  <1>1. GTypeInv => GatewayTypeOK
    <2> SUFFICES ASSUME GTypeInv PROVE GatewayTypeOK
      OBVIOUS
    <2>1. BallotsOf(queue) \subseteq Ballots
      BY BallotsOfItems DEF GTypeInv, HandlerTypes
    <2>2. ToSet(relayQueue) \subseteq Ballots
      BY DEF GTypeInv, StoreTypes, ToSet
    <2>3. \A f \in Flushers :
              flush[f].pc \in {"idle", "dequeued", "sent", "failed", "done"}
      BY DEF GTypeInv, HandlerTypes, Handlers
    <2> QED
      BY <2>1, <2>2, <2>3 DEF GTypeInv, HandlerTypes, StoreTypes, GatewayTypeOK
  <1> QED
    BY <1>1, InitTypes, StepTypes, PTL DEF GatewaySpec

-----------------------------------------------------------------------------
(* Nothing accepted is lost                                                 *)

\* The ballots of batches that are extended, put together or empty.
LEMMA BatchBallots ==
    /\ BallotsOf(<<>>) = {}
    /\ \A s \in Seq(Items) : \A item \in Items :
          BallotsOf(Append(s, item)) = BallotsOf(s) \cup {item.ballot}
    /\ \A s, t \in Seq(Items) : BallotsOf(s \o t) = BallotsOf(s) \cup BallotsOf(t)
    /\ \A s \in Seq(Items) : VotersOf(s) = {Owner[b] : b \in BallotsOf(s)}
  <1>1. BallotsOf(<<>>) = {}
    BY DEF BallotsOf
  <1>2. ASSUME NEW s \in Seq(Items), NEW item \in Items
        PROVE  BallotsOf(Append(s, item)) = BallotsOf(s) \cup {item.ballot}
    <2>1. /\ Len(Append(s, item)) = Len(s) + 1 /\ Len(s) \in Nat
          /\ Append(s, item)[Len(s) + 1] = item
          /\ \A i \in 1..Len(s) : Append(s, item)[i] = s[i]
      OBVIOUS
    <2>2. 1..Len(Append(s, item)) = 1..Len(s) \cup {Len(s) + 1}
      BY <2>1
    <2> QED
      BY <2>1, <2>2 DEF BallotsOf
  <1>3. ASSUME NEW s \in Seq(Items), NEW t \in Seq(Items)
        PROVE  BallotsOf(s \o t) = BallotsOf(s) \cup BallotsOf(t)
    <2>1. /\ Len(s \o t) = Len(s) + Len(t) /\ Len(s) \in Nat /\ Len(t) \in Nat
          /\ \A i \in 1..Len(s) : (s \o t)[i] = s[i]
          /\ \A i \in 1..Len(t) : (s \o t)[Len(s) + i] = t[i]
      OBVIOUS
    <2>2. ASSUME NEW i \in 1..Len(s \o t)
          PROVE  i \in 1..Len(s) \/ \E j \in 1..Len(t) : i = Len(s) + j
      <3>1. CASE i <= Len(s)
        BY <2>1, <3>1
      <3>2. CASE i > Len(s)
        <4>1. i - Len(s) \in 1..Len(t) /\ i = Len(s) + (i - Len(s))
          BY <2>1, <3>2
        <4> QED
          BY <4>1
      <3> QED
        BY <2>1, <3>1, <3>2
    <2>3. /\ \A i \in 1..Len(s) : i \in 1..Len(s \o t)
          /\ \A j \in 1..Len(t) : Len(s) + j \in 1..Len(s \o t)
      BY <2>1
    <2>4. ASSUME NEW i \in 1..Len(s \o t)
          PROVE  (s \o t)[i].ballot \in BallotsOf(s) \cup BallotsOf(t)
      BY <2>1, <2>2 DEF BallotsOf
    <2>5. \A i \in 1..Len(s) : s[i].ballot \in BallotsOf(s \o t)
      BY <2>1, <2>3 DEF BallotsOf
    <2>6. ASSUME NEW j \in 1..Len(t) PROVE t[j].ballot \in BallotsOf(s \o t)
      <3>1. (s \o t)[Len(s) + j].ballot = t[j].ballot
        BY <2>1
      <3> QED
        BY <2>3, <3>1 DEF BallotsOf
    <2>7. BallotsOf(s \o t) \subseteq BallotsOf(s) \cup BallotsOf(t)
      BY <2>4 DEF BallotsOf
    <2>8. BallotsOf(s) \subseteq BallotsOf(s \o t)
      BY <2>5 DEF BallotsOf
    <2>9. BallotsOf(t) \subseteq BallotsOf(s \o t)
      BY <2>6 DEF BallotsOf
    <2> QED
      BY <2>7, <2>8, <2>9
  <1>4. ASSUME NEW s \in Seq(Items)
        PROVE  VotersOf(s) = {Owner[b] : b \in BallotsOf(s)}
    BY DEF VotersOf, BallotsOf
  <1> QED
    BY <1>1, <1>2, <1>3, <1>4

\* The ballot waits in the queue or with a handler that still has to send it
\* or to learn what became of it.
Circulates(b) ==
    \/ b \in BallotsOf(queue)
    \/ \E f \in Flushers : flush[f].pc # "done" /\ b \in BallotsOf(flush[f].batch)

\* Handlers that are done need not be counted, nor what is in the mempool: a
\* batch is given up only when all of it is on the ledger or noted as dropped.
LiveInv == \A b \in accepted : Circulates(b) \/ b \in everCast \cup dropped

\* With the relay it is either there or was accepted, or the relay lost it.
RelayInv == relayed \subseteq ToSet(relayQueue) \cup accepted \cup relayLost
                              \cup IF relayBatch = None THEN {} ELSE ToSet(relayBatch)

\* What is on List 1 was put there.
CastInv == votes \subseteq everCast

\* Every step that writes to List 1 records it.
LEMMA StepCast ==
    ASSUME GTypeInv, CastInv, [GatewayNext]_gatewayVars
    PROVE  CastInv' /\ everCast \subseteq everCast'
  <1>1. ASSUME votes' \subseteq votes, everCast' = everCast
        PROVE  CastInv' /\ everCast \subseteq everCast'
    BY <1>1 DEF CastInv
  <1>2. ASSUME NEW v, NEW old, NEW new, UpdateExecuted(v, old, new)
        PROVE  CastInv' /\ everCast \subseteq everCast'
    BY <1>2 DEF UpdateExecuted, CastInv
  <1>3. ASSUME NEW S \in SUBSET pending, CommitBlock(S)
        PROVE  CastInv' /\ everCast \subseteq everCast'
    BY <1>3 DEF CommitBlock, CastInv
  <1>4. ASSUME NEW b \in Ballots,
               \/ Enqueue(b) \/ RelaySubmit(b) \/ BeaconExpires(b) \/ Rescind(b)
               \/ GrantRestore(b) \/ \E token \in Tokens : Submit(b, token)
        PROVE  votes' \subseteq votes /\ everCast' = everCast
    BY <1>4 DEF Enqueue, RelaySubmit, BeaconExpires, Rescind, GrantRestore, Submit, ledger,
       lists, history
  <1>5. ASSUME NEW f \in Flushers,
               \/ Dequeue(f) \/ Broadcast(f) \/ FlushFailed(f) \/ FlushTimedOut(f)
               \/ FlushMisread(f) \/ FlushUnanswered(f) \/ FlushDone(f)
        PROVE  votes' \subseteq votes /\ everCast' = everCast
    BY <1>5 DEF Dequeue, Broadcast, FlushFailed, FlushTimedOut, FlushMisread, FlushReported,
       FlushUnanswered, FlushDone, ledger, lists, history
  <1>6. ASSUME NEW v \in Voters, NEW new \in Replacements(v),
               \/ \E old \in Ballots : DeviceUpdate(v, old, new)
               \/ \E k \in Keys : ReconciledLookup(k, v, new)
        PROVE  CastInv' /\ everCast \subseteq everCast'
    BY <1>1, <1>2, <1>6 DEF DeviceUpdate, ReconciledLookup, ledger, lists, history
  <1>7. CASE ReconciledUpdate
    BY <1>1, <1>2, <1>7 DEF ReconciledUpdate, UpdateDecided, lists
  <1>8. CASE \/ ReconciledUnsent \/ RelayFlush \/ RelayPost \/ RelayFlushUpstream \/ PollEnds
             \/ RelayCrash \/ GatewayCrash \/ UNCHANGED gatewayVars
    <2>1. votes' = votes /\ everCast' = everCast
      BY <1>8 DEF ReconciledUnsent, RelayFlush, RelayPost, RelayFlushUpstream, PollEnds,
         RelayCrash, GatewayCrash, gatewayVars, ledger, lists, history
    <2> QED
      BY <1>1, <2>1
  <1> QED
    BY <1>1, <1>3, <1>4, <1>5, <1>6, <1>7, <1>8 DEF GatewayNext

\* Steps that accept no ballot keep each one where it is, or give it up only
\* to the ledger or with a note.
LEMMA CirculationKeeps ==
    ASSUME LiveInv, accepted' = accepted, everCast \subseteq everCast',
           dropped \subseteq dropped',
           \A b : Circulates(b) => Circulates(b)' \/ b \in everCast' \cup dropped'
    PROVE  LiveInv'
  BY DEF LiveInv

\* A ballot that is accepted enters the queue.
LEMMA AcceptLive ==
    ASSUME GTypeInv, LiveInv, NEW item \in Items, Accept(item),
           UNCHANGED <<flush, everCast>>
    PROVE  LiveInv' /\ item.ballot \in accepted' /\ accepted \subseteq accepted'
  <1>1. BallotsOf(queue') = BallotsOf(queue) \cup {item.ballot}
    BY BatchBallots DEF Accept, GTypeInv, HandlerTypes
  <1>2. accepted' = accepted \cup {item.ballot} /\ dropped' = dropped \ {item.ballot}
    BY DEF Accept
  <1>3. \A b : Circulates(b) => Circulates(b)'
    BY <1>1 DEF Circulates
  <1>4. Circulates(item.ballot)'
    BY <1>1 DEF Circulates
  <1> QED
    BY <1>2, <1>3, <1>4 DEF LiveInv

\* Dequeuing moves the queue to a handler that held nothing.
LEMMA DequeueLive ==
    ASSUME GTypeInv, LiveInv, NEW f \in Flushers, flush[f].pc = "idle",
           flush' = [flush EXCEPT ![f] = [pc |-> "dequeued", batch |-> queue]],
           queue' = <<>>, UNCHANGED <<accepted, everCast, dropped>>
    PROVE  LiveInv'
  <1>1. flush[f].batch = <<>>
    BY DEF GTypeInv, HandlerTypes
  <1>2. /\ flush'[f].pc = "dequeued" /\ flush'[f].batch = queue
        /\ \A g \in Flushers : g # f => flush'[g] = flush[g]
    BY DEF GTypeInv, HandlerTypes
  <1>3. ASSUME NEW b, Circulates(b) PROVE Circulates(b)'
    <2>1. CASE b \in BallotsOf(queue)
      BY <1>2, <2>1 DEF Circulates
    <2>2. CASE \E g \in Flushers : flush[g].pc # "done" /\ b \in BallotsOf(flush[g].batch)
      BY <1>1, <1>2, <2>2, BatchBallots DEF Circulates
    <2> QED
      BY <1>3, <2>1, <2>2 DEF Circulates
  <1> QED
    BY <1>3, CirculationKeeps

\* The steps of a flush.
LEMMA FlushLive ==
    ASSUME GTypeInv, LiveInv, CastInv, NEW f \in Flushers,
           \/ Dequeue(f) \/ Broadcast(f) \/ FlushFailed(f) \/ FlushTimedOut(f)
           \/ FlushMisread(f) \/ FlushUnanswered(f) \/ FlushDone(f)
    PROVE  LiveInv'
  <1>t. flush[f].batch \in Seq(Items) /\ queue \in Seq(Items)
    BY DEF GTypeInv, HandlerTypes, Handlers
  <1>1. CASE Dequeue(f)
    BY <1>1, DequeueLive DEF Dequeue, history
  <1>2. CASE Broadcast(f)
    <2>1. /\ accepted' = accepted /\ everCast' = everCast /\ dropped \subseteq dropped'
          /\ queue' = queue
      BY <1>2 DEF Broadcast
    <2>2. /\ flush'[f].batch = flush[f].batch
          /\ flush'[f].pc = "done" => BallotsOf(flush[f].batch) \subseteq everCast \cup dropped'
          /\ \A g \in Flushers : g # f => flush'[g] = flush[g]
      <3>1. CASE flush' = [flush EXCEPT ![f].pc = "done"]
                 /\ dropped' = dropped \cup NotOnLedger(BallotsOf(flush[f].batch))
        BY <1>2, <3>1, MoveOnTypes DEF Broadcast, NotOnLedger, CastInv
      <3>2. CASE flush' = [flush EXCEPT ![f].pc = "sent"]
        BY <1>2, <3>2, MoveOnTypes DEF Broadcast
      <3>3. CASE flush' = [flush EXCEPT ![f].pc = "failed"]
        BY <1>2, <3>3, MoveOnTypes DEF Broadcast
      <3> QED
        BY <1>2, <3>1, <3>2, <3>3 DEF Broadcast
    <2>3. \A b : Circulates(b) => Circulates(b)' \/ b \in everCast' \cup dropped'
      BY <2>1, <2>2 DEF Circulates
    <2> QED
      BY <2>1, <2>3, CirculationKeeps
  <1>3. ASSUME queue' = Restore(flush[f].batch), flush' = [flush EXCEPT ![f] = Idle],
               UNCHANGED <<accepted, everCast, dropped>>
        PROVE  LiveInv'
    <2>1. BallotsOf(queue') = BallotsOf(flush[f].batch) \cup BallotsOf(queue)
      BY <1>3, <1>t, BatchBallots DEF Restore
    <2>2. \A g \in Flushers : g # f => flush'[g] = flush[g]
      BY <1>3, EndTypes
    <2>3. \A b : Circulates(b) => Circulates(b)'
      BY <2>1, <2>2 DEF Circulates
    <2> QED
      BY <1>3, <2>3, CirculationKeeps
  <1>4. CASE FlushFailed(f)
    BY <1>3, <1>4 DEF FlushFailed, history
  <1>5. CASE FlushTimedOut(f)
    BY <1>3, <1>5 DEF FlushTimedOut
  <1>6. CASE FlushMisread(f) \/ FlushUnanswered(f)
    <2>1. /\ flush'[f].batch = flush[f].batch
          /\ \A g \in Flushers : g # f => flush'[g] = flush[g]
      BY <1>6, MoveOnTypes DEF FlushMisread, FlushUnanswered, FlushReported
    <2>2. /\ accepted' = accepted /\ everCast' = everCast /\ queue' = queue
          /\ dropped' = dropped \cup BallotsOf(flush[f].batch)
      BY <1>6 DEF FlushMisread, FlushUnanswered, FlushReported
    <2>3. \A b : Circulates(b) => Circulates(b)' \/ b \in dropped'
      BY <2>1, <2>2 DEF Circulates
    <2> QED
      BY <2>2, <2>3, CirculationKeeps
  <1>7. CASE FlushDone(f)
    <2>1. flush' = [flush EXCEPT ![f] = Idle] /\ flush[f].pc = "done"
          /\ UNCHANGED <<queue, accepted, everCast, dropped>>
      BY <1>7 DEF FlushDone, history
    <2>2. \A g \in Flushers : g # f => flush'[g] = flush[g]
      BY <2>1, EndTypes
    <2>3. \A b : Circulates(b) => Circulates(b)'
      BY <2>1, <2>2 DEF Circulates
    <2> QED
      BY <2>1, <2>3, CirculationKeeps
  <1> QED
    BY <1>1, <1>2, <1>4, <1>5, <1>6, <1>7

\* Every step keeps every accepted ballot in circulation, on the ledger or
\* noted.
LEMMA StepLive ==
    ASSUME GTypeInv, LiveInv, CastInv, [GatewayNext]_gatewayVars
    PROVE  LiveInv'
  <1>1. ASSUME UNCHANGED <<queue, flush, accepted, dropped>>, everCast \subseteq everCast'
        PROVE  LiveInv'
    <2>1. \A b : Circulates(b) => Circulates(b)'
      BY <1>1 DEF Circulates
    <2> QED
      BY <1>1, <2>1, CirculationKeeps
  <1>2. ASSUME NEW b \in Ballots, Enqueue(b) PROVE LiveInv'
    <2>1. CASE Accept(request[b])
      <3>1. request[b] \in Items /\ UNCHANGED <<flush, everCast>>
        BY <1>2 DEF Enqueue, GTypeInv, HandlerTypes
      <3> QED
        BY <2>1, <3>1, AcceptLive
    <2>2. CASE UNCHANGED <<queue, accepted, dropped, doubled, withReceipt>>
      BY <1>1, <1>2, <2>2 DEF Enqueue
    <2> QED
      BY <1>2, <2>1, <2>2 DEF Enqueue
  <1>3. ASSUME NEW S \in SUBSET pending, CommitBlock(S) PROVE LiveInv'
    <2>1. /\ accepted' = accepted /\ dropped' = dropped /\ queue' = queue
          /\ everCast' = everCast \cup UNION {BallotsOf(p.batch) : p \in S}
      BY <1>3 DEF CommitBlock
    <2>2. ASSUME NEW f \in Flushers
          PROVE  /\ flush'[f].batch = flush[f].batch
                 /\ flush'[f].pc = "done" /\ flush[f].pc # "done" =>
                       BallotsOf(flush[f].batch) \subseteq everCast'
      <3>1. ASSUME Answers(S, f) PROVE BallotsOf(flush[f].batch) \subseteq everCast'
        <4>1. PICK p \in S : p = [by |-> f, batch |-> flush[f].batch]
          BY <3>1 DEF Answers
        <4>2. p.batch = flush[f].batch
          BY <4>1
        <4> QED
          BY <2>1, <4>2
      <3> QED
        BY <1>3, <3>1, CommitHandlers
    <2>3. \A b : Circulates(b) => Circulates(b)' \/ b \in everCast'
      BY <2>1, <2>2 DEF Circulates
    <2> QED
      BY <2>1, <2>3, CirculationKeeps
  <1>4. CASE RelayPost
    <2> DEFINE item == RelayItem(Head(relayBatch))
    <2>1. UNCHANGED <<flush, everCast>>
      BY <1>4 DEF RelayPost
    <2>2. CASE Accept(item)
      <3>1. Head(relayBatch) \in Ballots
        BY <1>4 DEF RelayPost, GTypeInv, StoreTypes
      <3>2. item \in Items
        BY <3>1 DEF RelayItem, Items
      <3> HIDE DEF item
      <3> QED
        BY <2>1, <2>2, <3>2, AcceptLive
    <2>3. CASE UNCHANGED <<queue, accepted, dropped, doubled, withReceipt>>
      BY <1>1, <2>1, <2>3
    <2> QED
      BY <1>4, <2>2, <2>3 DEF RelayPost, UpstreamAccepts, UpstreamLeaves
  <1>5. CASE RelayFlushUpstream
    <2>1. UNCHANGED <<accepted, everCast, dropped>>
      BY <1>5 DEF RelayFlushUpstream, history
    <2> QED
      BY <1>1, <1>5, <2>1, DequeueLive DEF RelayFlushUpstream
  <1>6. CASE GatewayCrash
    <2>1. /\ accepted' = accepted /\ everCast' = everCast
          /\ dropped' = dropped \cup NotOnLedger(BallotsOf(queue))
                  \cup NotOnLedger(UNION {BallotsOf(flush[f].batch) : f \in Flushers})
      BY <1>6 DEF GatewayCrash
    <2>2. \A b : Circulates(b) => b \in everCast \cup dropped'
      BY <2>1 DEF Circulates, NotOnLedger, CastInv
    <2> QED
      BY <2>1, <2>2, CirculationKeeps
  <1>7. ASSUME NEW b \in Ballots,
               \/ RelaySubmit(b) \/ BeaconExpires(b) \/ Rescind(b) \/ GrantRestore(b)
               \/ \E token \in Tokens : Submit(b, token)
        PROVE  LiveInv'
    BY <1>1, <1>7 DEF RelaySubmit, BeaconExpires, Rescind, GrantRestore, Submit, history
  <1>8. ASSUME NEW v \in Voters, NEW new \in Replacements(v),
               \/ \E old \in Ballots : DeviceUpdate(v, old, new)
               \/ \E k \in Keys : ReconciledLookup(k, v, new)
        PROVE  LiveInv'
    <2>1. UNCHANGED <<queue, flush, accepted, dropped>>
      BY <1>8 DEF DeviceUpdate, ReconciledLookup, history
    <2>2. everCast \subseteq everCast'
      BY <1>8, StepCast DEF GatewayNext
    <2> QED
      BY <1>1, <2>1, <2>2
  <1>9. CASE ReconciledUpdate
    <2>1. UNCHANGED <<queue, flush, accepted, dropped>>
      BY <1>9 DEF ReconciledUpdate
    <2>2. everCast \subseteq everCast'
      BY <1>9, StepCast DEF GatewayNext
    <2> QED
      BY <1>1, <2>1, <2>2
  <1>10. CASE \/ ReconciledUnsent \/ RelayFlush \/ PollEnds \/ RelayCrash
              \/ UNCHANGED gatewayVars
    BY <1>1, <1>10 DEF ReconciledUnsent, RelayFlush, PollEnds, RelayCrash, gatewayVars,
       history
  <1> QED
    BY <1>2, <1>3, <1>4, <1>5, <1>6, <1>7, <1>8, <1>9, <1>10, FlushLive DEF GatewayNext

\* The relay keeps a ballot until the gateway has answered "queued", unless it
\* crashes or takes an error page for that answer.
LEMMA StepRelay ==
    ASSUME GTypeInv, RelayInv, [GatewayNext]_gatewayVars
    PROVE  RelayInv'
  <1>1. ASSUME UNCHANGED <<relayQueue, relayBatch, relayed, relayLost>>, accepted \subseteq accepted'
        PROVE  RelayInv'
    BY <1>1 DEF RelayInv
  <1>2. ASSUME NEW b \in Ballots, RelaySubmit(b) PROVE RelayInv'
    <2>1. ToSet(relayQueue') = ToSet(relayQueue) \cup {b}
      <3>1. relayQueue \in Seq(Ballots) /\ relayQueue' = Append(relayQueue, b)
        BY <1>2 DEF RelaySubmit, GTypeInv, StoreTypes
      <3>2. /\ DOMAIN relayQueue' = (DOMAIN relayQueue) \cup {Len(relayQueue) + 1}
            /\ relayQueue'[Len(relayQueue) + 1] = b
            /\ \A i \in DOMAIN relayQueue : relayQueue'[i] = relayQueue[i]
        BY <3>1
      <3> QED
        BY <3>2 DEF ToSet
    <2>2. /\ UNCHANGED <<relayBatch, accepted>> /\ relayed' = relayed \cup {b}
          /\ relayLost' = relayLost \ {b}
      BY <1>2 DEF RelaySubmit
    <2> QED
      BY <2>1, <2>2 DEF RelayInv
  <1>3. CASE RelayFlush
    <2>1. relayBatch = None /\ relayQueue \in Seq(Ballots)
          /\ UNCHANGED <<accepted, relayed, relayLost>>
      BY <1>3 DEF RelayFlush, history, GTypeInv, StoreTypes
    <2>2. ToSet(relayBatch') = ToSet(relayQueue) /\ relayBatch' \in Seq(Ballots)
      BY <1>3, <2>1, ShuffleKeeps DEF RelayFlush
    <2>3. relayBatch' # None
      BY <2>2, GatewayNone
    <2> QED
      BY <2>1, <2>2, <2>3 DEF RelayInv
  <1>4. CASE RelayPost
    <2> DEFINE b == Head(relayBatch)
    <2>1. /\ relayBatch \in Seq(Ballots) /\ relayBatch # <<>> /\ relayBatch # None
          /\ relayQueue \in Seq(Ballots) /\ relayed' = relayed
      BY <1>4 DEF RelayPost, GTypeInv, StoreTypes
    <2>2. ToSet(relayBatch) = {b} \cup ToSet(Tail(relayBatch))
          /\ Tail(relayBatch) \in Seq(Ballots) /\ Tail(relayBatch) # None
      <3>1. /\ Len(relayBatch) \in Nat \ {0} /\ b = relayBatch[1]
            /\ Tail(relayBatch) \in Seq(Ballots)
            /\ Len(Tail(relayBatch)) = Len(relayBatch) - 1
            /\ \A i \in 1..(Len(relayBatch) - 1) : Tail(relayBatch)[i] = relayBatch[i + 1]
        BY <2>1
      <3>2. \A i \in 2..Len(relayBatch) : /\ i - 1 \in 1..(Len(relayBatch) - 1)
                                          /\ relayBatch[i] = Tail(relayBatch)[i - 1]
        BY <3>1
      <3>3. /\ DOMAIN relayBatch = 1..Len(relayBatch)
            /\ DOMAIN Tail(relayBatch) = 1..(Len(relayBatch) - 1)
            /\ 1..Len(relayBatch) = {1} \cup 2..Len(relayBatch)
            /\ \A i \in 1..(Len(relayBatch) - 1) : i + 1 \in 1..Len(relayBatch)
        BY <3>1
      <3>4. ToSet(relayBatch) \subseteq {b} \cup ToSet(Tail(relayBatch))
        <4>1. ASSUME NEW i \in DOMAIN relayBatch
              PROVE  relayBatch[i] \in {b} \cup ToSet(Tail(relayBatch))
          <5>1. CASE i = 1
            BY <3>1, <5>1
          <5>2. CASE i \in 2..Len(relayBatch)
            <6>1. /\ i - 1 \in DOMAIN Tail(relayBatch)
                  /\ relayBatch[i] = Tail(relayBatch)[i - 1]
              BY <3>2, <3>3, <5>2
            <6> QED
              BY <6>1 DEF ToSet
          <5> QED
            BY <3>3, <5>1, <5>2
        <4> QED
          BY <4>1 DEF ToSet
      <3>5. {b} \cup ToSet(Tail(relayBatch)) \subseteq ToSet(relayBatch)
        BY <3>1, <3>3 DEF ToSet
      <3> QED
        BY <3>1, <3>4, <3>5, GatewayNone
    <2>3. ToSet(relayBatch \o relayQueue) = ToSet(relayBatch) \cup ToSet(relayQueue)
      <3> DEFINE s == relayBatch
                 t == relayQueue
      <3>1. /\ Len(s \o t) = Len(s) + Len(t) /\ Len(s) \in Nat /\ Len(t) \in Nat
            /\ \A i \in 1..Len(s) : (s \o t)[i] = s[i] /\ i \in DOMAIN (s \o t)
            /\ \A i \in 1..Len(t) : (s \o t)[Len(s) + i] = t[i]
                                    /\ Len(s) + i \in DOMAIN (s \o t)
            /\ DOMAIN s = 1..Len(s) /\ DOMAIN t = 1..Len(t)
            /\ DOMAIN (s \o t) = 1..(Len(s) + Len(t))
        BY <2>1
      <3>2. ASSUME NEW i \in DOMAIN (s \o t)
            PROVE  (s \o t)[i] \in ToSet(s) \cup ToSet(t)
        <4>1. CASE i <= Len(s)
          BY <3>1, <4>1 DEF ToSet
        <4>2. CASE i > Len(s)
          <5>1. i - Len(s) \in 1..Len(t) /\ i = Len(s) + (i - Len(s))
            BY <3>1, <4>2
          <5> QED
            BY <3>1, <5>1 DEF ToSet
        <4> QED
          BY <3>1, <4>1, <4>2
      <3>3. ToSet(s \o t) \subseteq ToSet(s) \cup ToSet(t)
        BY <3>2 DEF ToSet
      <3>4. ASSUME NEW i \in DOMAIN s PROVE s[i] \in ToSet(s \o t)
        <4>1. (s \o t)[i] = s[i] /\ i \in DOMAIN (s \o t)
          BY <3>1
        <4> QED
          BY <4>1 DEF ToSet
      <3>5. ASSUME NEW i \in DOMAIN t PROVE t[i] \in ToSet(s \o t)
        <4>1. (s \o t)[Len(s) + i] = t[i] /\ Len(s) + i \in DOMAIN (s \o t)
          BY <3>1
        <4> QED
          BY <4>1 DEF ToSet
      <3>6. ToSet(s) \subseteq ToSet(s \o t)
        BY <3>4 DEF ToSet
      <3>7. ToSet(t) \subseteq ToSet(s \o t)
        BY <3>5 DEF ToSet
      <3> QED
        BY <3>3, <3>6, <3>7
    <2>4. /\ accepted \subseteq accepted' /\ relayLost \subseteq relayLost'
          /\ \/ /\ b \in accepted' \cup relayLost'
                /\ relayBatch' = Tail(relayBatch) /\ relayQueue' = relayQueue
             \/ relayBatch' = None /\ relayQueue' = relayBatch \o relayQueue
      <3>1. RelayItem(b).ballot = b
        BY DEF RelayItem
      <3> QED
        BY <1>4, <3>1 DEF RelayPost, RelayRestored, UpstreamAccepts, UpstreamLeaves, Accept
    <2> QED
      BY <2>1, <2>2, <2>3, <2>4 DEF RelayInv
  <1>5. CASE RelayFlushUpstream
    <2>1. relayBatch = <<>> /\ relayBatch' = None
          /\ UNCHANGED <<relayQueue, accepted, relayed, relayLost>>
      BY <1>5 DEF RelayFlushUpstream, history
    <2>2. ToSet(<<>>) = {}
      BY DEF ToSet
    <2> QED
      BY <2>1, <2>2 DEF RelayInv
  <1>6. ASSUME NEW b \in Ballots,
               \/ Enqueue(b) \/ BeaconExpires(b) \/ Rescind(b) \/ GrantRestore(b)
               \/ \E token \in Tokens : Submit(b, token)
        PROVE  RelayInv'
    BY <1>1, <1>6 DEF Enqueue, Accept, BeaconExpires, Rescind, GrantRestore, Submit, relay,
       history
  <1>7. ASSUME NEW f \in Flushers,
               \/ Dequeue(f) \/ Broadcast(f) \/ FlushFailed(f) \/ FlushTimedOut(f)
               \/ FlushMisread(f) \/ FlushUnanswered(f) \/ FlushDone(f)
        PROVE  RelayInv'
    <2>1. UNCHANGED <<relayQueue, relayBatch, relayed, relayLost, accepted>>
      BY <1>7 DEF Dequeue, Broadcast, FlushFailed, FlushTimedOut, FlushMisread,
         FlushUnanswered, FlushReported, FlushDone, relay, history
    <2> QED
      BY <1>1, <2>1
  <1>8. ASSUME NEW S \in SUBSET pending, CommitBlock(S) PROVE RelayInv'
    BY <1>1, <1>8 DEF CommitBlock, relay
  <1>9. ASSUME NEW v \in Voters, NEW new \in Replacements(v),
               \/ \E old \in Ballots : DeviceUpdate(v, old, new)
               \/ \E k \in Keys : ReconciledLookup(k, v, new)
        PROVE  RelayInv'
    BY <1>1, <1>9 DEF DeviceUpdate, ReconciledLookup, relay, history
  <1>10. CASE \/ ReconciledUpdate \/ ReconciledUnsent \/ PollEnds \/ GatewayCrash
              \/ UNCHANGED gatewayVars
    BY <1>1, <1>10 DEF ReconciledUpdate, ReconciledUnsent, PollEnds, GatewayCrash,
       gatewayVars, relay, history
  <1>11. CASE RelayCrash
    BY <1>11 DEF RelayCrash, RelayInv
  <1> QED
    BY <1>2, <1>3, <1>4, <1>5, <1>6, <1>7, <1>8, <1>9, <1>10, <1>11 DEF GatewayNext

\* A ballot answered "queued", by the gateway or the relay, is never lost but
\* in the ways recorded, whatever flushes run concurrently and whichever
\* replies are lost.
THEOREM AcceptedSafe == GatewaySpec => []AcceptedNotLost
  <1> DEFINE Inv == GTypeInv /\ CastInv /\ LiveInv /\ RelayInv
  <1>1. GatewayInit => Inv
    BY InitTypes DEF GatewayInit, CastInv, LiveInv, RelayInv
  <1>2. Inv /\ [GatewayNext]_gatewayVars => Inv'
    BY StepTypes, StepCast, StepLive, StepRelay
  <1>3. Inv => AcceptedNotLost
    BY DEF LiveInv, RelayInv, Circulates, AcceptedNotLost
  <1> QED
    BY <1>1, <1>2, <1>3, PTL DEF GatewaySpec

-----------------------------------------------------------------------------
(* What blocks a poll's queue                                               *)

\* The batch has one ballot of the voter at most.
Once(v, batch) ==
    \A i, j \in 1..Len(batch) :
        Owner[batch[i].ballot] = v /\ Owner[batch[j].ballot] = v => i = j

\* A handler may still put a ballot of the voter back.
Holds(v, f) == Held(f) /\ v \in VotersOf(flush[f].batch)

\* The voter is in one place only: once in the queue, or once with one handler,
\* or on List 2.  In the mempool they are at most once too, and then only the
\* handler that waits for that batch may hold them.
PlaceInv(v) ==
    /\ v \in VotersOf(queue) =>
          /\ v \notin registry /\ Once(v, queue)
          /\ \A f \in Flushers : ~ Holds(v, f)
          /\ \A p \in pending : v \notin VotersOf(p.batch)
    /\ \A f \in Flushers : Holds(v, f) =>
          /\ v \notin registry /\ Once(v, flush[f].batch)
          /\ \A g \in Flushers : Holds(v, g) => g = f
          /\ \A p \in pending : v \in VotersOf(p.batch) =>
                flush[f].pc = "sent" /\ p = [by |-> f, batch |-> flush[f].batch]
    /\ \A p \in pending : v \in VotersOf(p.batch) =>
          /\ v \notin registry
          /\ \A q \in pending : v \in VotersOf(q.batch) => q = p

\* That is so of every voter who was not accepted a second time and whose batch
\* was not put back by mistake.
ApartInv == \A v \in Voters \ (doubled \cup putBack) : PlaceInv(v)

\* The voters of batches that are extended, put together or empty.
LEMMA BatchVoters ==
    /\ VotersOf(<<>>) = {} /\ \A v : Once(v, <<>>)
    /\ \A s \in Seq(Items) : VotersOf(s) \subseteq Voters
    /\ \A s \in Seq(Items) : \A item \in Items :
          /\ VotersOf(Append(s, item)) = VotersOf(s) \cup {Owner[item.ballot]}
          /\ \A v : Once(v, s) /\ (v = Owner[item.ballot] => v \notin VotersOf(s))
                => Once(v, Append(s, item))
    /\ \A s, t \in Seq(Items) :
          /\ VotersOf(s \o t) = VotersOf(s) \cup VotersOf(t)
          /\ \A v : Once(v, s) /\ Once(v, t) /\ v \notin VotersOf(s) \cap VotersOf(t)
                => Once(v, s \o t)
  <1>1. VotersOf(<<>>) = {} /\ \A v : Once(v, <<>>)
    BY DEF VotersOf, Once
  <1>2. ASSUME NEW s \in Seq(Items) PROVE VotersOf(s) \subseteq Voters
    BY BallotsOfItems
  <1>3. ASSUME NEW s \in Seq(Items), NEW item \in Items
        PROVE  /\ VotersOf(Append(s, item)) = VotersOf(s) \cup {Owner[item.ballot]}
               /\ \A v : Once(v, s) /\ (v = Owner[item.ballot] => v \notin VotersOf(s))
                     => Once(v, Append(s, item))
    <2>0. Append(s, item) \in Seq(Items)
      OBVIOUS
    <2>1. BallotsOf(Append(s, item)) = BallotsOf(s) \cup {item.ballot}
      BY BatchBallots
    <2>2. VotersOf(Append(s, item)) = VotersOf(s) \cup {Owner[item.ballot]}
      <3>1. /\ VotersOf(s) = {Owner[b] : b \in BallotsOf(s)}
            /\ VotersOf(Append(s, item)) = {Owner[b] : b \in BallotsOf(Append(s, item))}
        BY <2>0, BatchBallots
      <3> QED
        BY <2>1, <3>1
    <2>3. ASSUME NEW v, Once(v, s), v = Owner[item.ballot] => v \notin VotersOf(s)
          PROVE  Once(v, Append(s, item))
      <3>1. /\ Len(Append(s, item)) = Len(s) + 1 /\ Len(s) \in Nat
            /\ Append(s, item)[Len(s) + 1] = item
            /\ \A i \in 1..Len(s) : Append(s, item)[i] = s[i]
        OBVIOUS
      <3>2. v = Owner[item.ballot] => \A i \in 1..Len(s) : Owner[s[i].ballot] # v
        BY <2>3 DEF VotersOf
      <3>3. SUFFICES ASSUME NEW i \in 1..(Len(s) + 1), NEW j \in 1..(Len(s) + 1),
                            Owner[Append(s, item)[i].ballot] = v,
                            Owner[Append(s, item)[j].ballot] = v
                     PROVE  i = j
        BY <3>1 DEF Once
      <3>4. CASE i \in 1..Len(s) /\ j \in 1..Len(s)
        BY <2>3, <3>1, <3>3, <3>4 DEF Once
      <3>5. CASE i \in 1..Len(s) /\ j = Len(s) + 1
        BY <3>1, <3>2, <3>3, <3>5
      <3>6. CASE i = Len(s) + 1 /\ j \in 1..Len(s)
        BY <3>1, <3>2, <3>3, <3>6
      <3>7. CASE i = Len(s) + 1 /\ j = Len(s) + 1
        BY <3>7
      <3> QED
        BY <3>1, <3>4, <3>5, <3>6, <3>7
    <2> QED
      BY <2>2, <2>3
  <1>4. ASSUME NEW s \in Seq(Items), NEW t \in Seq(Items)
        PROVE  /\ VotersOf(s \o t) = VotersOf(s) \cup VotersOf(t)
               /\ \A v : Once(v, s) /\ Once(v, t) /\ v \notin VotersOf(s) \cap VotersOf(t)
                     => Once(v, s \o t)
    <2>0. s \o t \in Seq(Items)
      OBVIOUS
    <2>1. BallotsOf(s \o t) = BallotsOf(s) \cup BallotsOf(t)
      BY BatchBallots
    <2>2. VotersOf(s \o t) = VotersOf(s) \cup VotersOf(t)
      <3>1. /\ VotersOf(s) = {Owner[b] : b \in BallotsOf(s)}
            /\ VotersOf(t) = {Owner[b] : b \in BallotsOf(t)}
            /\ VotersOf(s \o t) = {Owner[b] : b \in BallotsOf(s \o t)}
        BY <2>0, BatchBallots
      <3> QED
        BY <2>1, <3>1
    <2>3. ASSUME NEW v, Once(v, s), Once(v, t), v \notin VotersOf(s) \cap VotersOf(t)
          PROVE  Once(v, s \o t)
      <3>1. /\ Len(s \o t) = Len(s) + Len(t) /\ Len(s) \in Nat /\ Len(t) \in Nat
            /\ \A i \in 1..Len(s) : (s \o t)[i] = s[i]
            /\ \A i \in (Len(s) + 1)..(Len(s) + Len(t)) :
                  (s \o t)[i] = t[i - Len(s)] /\ i - Len(s) \in 1..Len(t)
        OBVIOUS
      <3>2. \A i \in 1..Len(s) : \A j \in 1..Len(t) :
               ~ (Owner[s[i].ballot] = v /\ Owner[t[j].ballot] = v)
        BY <2>3 DEF VotersOf
      <3>3. SUFFICES ASSUME NEW i \in 1..(Len(s) + Len(t)), NEW j \in 1..(Len(s) + Len(t)),
                            Owner[(s \o t)[i].ballot] = v, Owner[(s \o t)[j].ballot] = v
                     PROVE  i = j
        BY <3>1 DEF Once
      <3>4. CASE i \in 1..Len(s) /\ j \in 1..Len(s)
        BY <2>3, <3>1, <3>3, <3>4 DEF Once
      <3>5. CASE i \in 1..Len(s) /\ j \in (Len(s) + 1)..(Len(s) + Len(t))
        BY <3>1, <3>2, <3>3, <3>5
      <3>6. CASE i \in (Len(s) + 1)..(Len(s) + Len(t)) /\ j \in 1..Len(s)
        BY <3>1, <3>2, <3>3, <3>6
      <3>7. CASE /\ i \in (Len(s) + 1)..(Len(s) + Len(t))
                 /\ j \in (Len(s) + 1)..(Len(s) + Len(t))
        <4>1. i - Len(s) = j - Len(s)
          BY <2>3, <3>1, <3>3, <3>7 DEF Once
        <4> QED
          BY <3>1, <3>7, <4>1
      <3> QED
        BY <3>1, <3>4, <3>5, <3>6, <3>7
    <2> QED
      BY <2>2, <2>3
  <1> QED
    BY <1>1, <1>2, <1>3, <1>4

\* A step that moves nothing and takes nobody in.
LEMMA QuietPlaces ==
    ASSUME NEW v, PlaceInv(v), UNCHANGED <<queue, flush, pending>>,
           registry' \subseteq registry
    PROVE  PlaceInv(v)'
  BY DEF PlaceInv, Holds, Held

\* A ballot enters the queue: a voter who has one on its way, in the queue or
\* on the ledger is noted.
LEMMA AcceptPlaces ==
    ASSUME GTypeInv, NEW v \in Voters, PlaceInv(v), v \notin doubled',
           NEW item \in Items, ~ InQueue(item), Accept(item),
           UNCHANGED <<flush, pending, registry>>
    PROVE  PlaceInv(v)'
  <1>t. queue \in Seq(Items) /\ queue' = Append(queue, item)
    BY DEF GTypeInv, HandlerTypes, Accept
  <1>v. VotersOf(queue') = VotersOf(queue) \cup {Owner[item.ballot]}
    BY <1>t, BatchVoters
  <1>1. CASE Owner[item.ballot] # v
    <2>1. v \in VotersOf(queue') <=> v \in VotersOf(queue)
      BY <1>v, <1>1
    <2>2. Once(v, queue) => Once(v, queue')
      BY <1>t, <1>1, BatchVoters
    <2> QED
      BY <2>1, <2>2 DEF PlaceInv, Holds, Held
  <1>2. CASE Owner[item.ballot] = v
    <2>1. ~ SecondOf(item.ballot)
      BY <1>2 DEF Accept
    <2>2. v \notin registry
      BY <1>2, <2>1 DEF SecondOf
    <2>3. v \notin VotersOf(queue)
      BY <1>2, <2>1 DEF SecondOf, InQueue, VotersOf, BallotsOf
    <2>4. ASSUME NEW f \in Flushers PROVE ~ Holds(v, f)
      BY <1>2, <2>1 DEF SecondOf, OnTheirWay, Holds, VotersOf, BallotsOf
    <2>5. ASSUME NEW p \in pending PROVE v \notin VotersOf(p.batch)
      BY <1>2, <2>1 DEF SecondOf, OnTheirWay, VotersOf, BallotsOf
    <2>6. Once(v, queue)
      BY <2>3 DEF Once, VotersOf
    <2>7. Once(v, queue')
      BY <1>t, <2>3, <2>6, BatchVoters
    <2>8. /\ v \notin registry'
          /\ \A f \in Flushers : ~ Holds(v, f)'
          /\ \A p \in pending' : v \notin VotersOf(p.batch)
      BY <2>2, <2>4, <2>5 DEF Holds, Held
    <2> QED
      BY <2>7, <2>8 DEF PlaceInv
  <1> QED
    BY <1>1, <1>2

\* Dequeuing moves the queue to one handler.
LEMMA DequeuePlaces ==
    ASSUME GTypeInv, NEW v, PlaceInv(v), NEW f \in Flushers, flush[f].pc = "idle",
           flush' = [flush EXCEPT ![f] = [pc |-> "dequeued", batch |-> queue]],
           queue' = <<>>, UNCHANGED <<pending, registry>>
    PROVE  PlaceInv(v)'
  <1>1. /\ flush'[f].pc = "dequeued" /\ flush'[f].batch = queue
        /\ \A g \in Flushers : g # f => flush'[g] = flush[g]
    BY DEF GTypeInv, HandlerTypes
  <1>2. /\ Holds(v, f)' <=> v \in VotersOf(queue)
        /\ \A g \in Flushers : g # f => (Holds(v, g)' <=> Holds(v, g))
        /\ ~ Holds(v, f)
    BY <1>1 DEF Holds, Held
  <1>3. v \notin VotersOf(queue')
    BY BatchVoters
  <1> QED
    BY <1>1, <1>2, <1>3 DEF PlaceInv

\* A handler that ends without putting its batch back, or a crash.
LEMMA ReleasePlaces ==
    ASSUME NEW v, PlaceInv(v), UNCHANGED <<pending, registry>>,
           queue' = queue \/ queue' = <<>>,
           \A g \in Flushers : Holds(v, g)' => flush'[g] = flush[g] /\ Holds(v, g)
    PROVE  PlaceInv(v)'
  <1>1. v \in VotersOf(queue') => v \in VotersOf(queue) /\ queue' = queue
    BY BatchVoters
  <1> QED
    BY <1>1 DEF PlaceInv

\* A failed batch goes back in front of the queue: nobody waits there twice.
LEMMA FailedPlaces ==
    ASSUME GTypeInv, NEW v, PlaceInv(v), NEW f \in Flushers, FlushFailed(f)
    PROVE  PlaceInv(v)'
  <1>t. queue \in Seq(Items) /\ flush[f].batch \in Seq(Items)
    BY DEF GTypeInv, HandlerTypes, Handlers
  <1>1. /\ queue' = flush[f].batch \o queue /\ flush[f].pc = "failed"
        /\ UNCHANGED <<pending, registry>>
        /\ flush'[f].pc = "idle" /\ \A g \in Flushers : g # f => flush'[g] = flush[g]
    BY EndTypes DEF FlushFailed, Restore, ledger, lists, mempool
  <1>2. VotersOf(queue') = VotersOf(flush[f].batch) \cup VotersOf(queue)
    BY <1>t, <1>1, BatchVoters
  <1>3. /\ ~ Holds(v, f)' /\ Holds(v, f) <=> v \in VotersOf(flush[f].batch)
        /\ \A g \in Flushers : Holds(v, g)' <=> (Holds(v, g) /\ g # f)
    BY <1>1 DEF Holds, Held
  <1>4. v \in VotersOf(queue') => Once(v, queue')
    <2>1. SUFFICES ASSUME v \in VotersOf(queue') PROVE Once(v, queue')
      OBVIOUS
    <2>2. v \notin VotersOf(flush[f].batch) \cap VotersOf(queue)
      BY <1>3 DEF PlaceInv
    <2>3. v \notin VotersOf(queue) => Once(v, queue)
      BY DEF Once, VotersOf
    <2>4. v \notin VotersOf(flush[f].batch) => Once(v, flush[f].batch)
      BY DEF Once, VotersOf
    <2>5. Once(v, queue) /\ Once(v, flush[f].batch)
      BY <1>3, <2>3, <2>4 DEF PlaceInv
    <2> QED
      BY <1>t, <1>1, <2>2, <2>5, BatchVoters
  <1>5. v \in VotersOf(queue') =>
          /\ v \notin registry
          /\ \A g \in Flushers : ~ Holds(v, g)'
          /\ \A p \in pending : v \notin VotersOf(p.batch)
    <2>1. CASE v \in VotersOf(queue)
      BY <1>3, <2>1 DEF PlaceInv
    <2>2. CASE v \in VotersOf(flush[f].batch)
      BY <1>1, <1>3, <2>2 DEF PlaceInv
    <2> QED
      BY <1>2, <2>1, <2>2
  <1> QED
    BY <1>1, <1>3, <1>4, <1>5 DEF PlaceInv

\* A batch enters the mempool while its handler still waits for it.
LEMMA SentPlaces ==
    ASSUME GTypeInv, NEW v, PlaceInv(v), NEW f \in Flushers, flush[f].pc = "dequeued",
           flush' = [flush EXCEPT ![f].pc = "sent"],
           pending' = pending \cup {[by |-> f, batch |-> flush[f].batch]},
           UNCHANGED <<queue, registry>>
    PROVE  PlaceInv(v)'
  <1> DEFINE new == [by |-> f, batch |-> flush[f].batch]
  <1>1. /\ flush'[f].pc = "sent" /\ flush'[f].batch = flush[f].batch
        /\ \A g \in Flushers : g # f => flush'[g] = flush[g]
    BY MoveOnTypes
  <1>2. \A g \in Flushers : /\ Holds(v, g)' <=> Holds(v, g)
                            /\ flush'[g].batch = flush[g].batch
    BY <1>1 DEF Holds, Held
  <1>3. new.batch = flush[f].batch /\ pending' = pending \cup {new}
    OBVIOUS
  <1> HIDE DEF new
  <1>4. Holds(v, f) <=> v \in VotersOf(new.batch)
    BY <1>3 DEF Holds, Held
  <1>5. CASE ~ Holds(v, f)
    <2>1. \A p \in pending' : v \in VotersOf(p.batch) => p \in pending
      BY <1>3, <1>4, <1>5
    <2>2. \A g \in Flushers : Holds(v, g) => flush'[g] = flush[g]
      BY <1>1, <1>5
    <2> QED
      BY <1>2, <2>1, <2>2 DEF PlaceInv
  <1>6. CASE Holds(v, f)
    <2>1. \A p \in pending : v \notin VotersOf(p.batch)
      BY <1>6 DEF PlaceInv
    <2>2. \A p \in pending' : v \in VotersOf(p.batch) => p = new
      BY <1>3, <2>1
    <2>3. v \notin registry /\ v \notin VotersOf(queue)
      BY <1>6 DEF PlaceInv
    <2>4. \A g \in Flushers : Holds(v, g) => g = f
      BY <1>6 DEF PlaceInv
    <2>5. Once(v, flush[f].batch)
      BY <1>6 DEF PlaceInv
    <2>6. new = [by |-> f, batch |-> flush'[f].batch]
      BY <1>1 DEF new
    <2> QED
      BY <1>1, <1>2, <2>2, <2>3, <2>4, <2>5, <2>6 DEF PlaceInv
  <1> QED
    BY <1>5, <1>6

\* A handler learns that its batch was refused.
LEMMA RefusedPlaces ==
    ASSUME GTypeInv, NEW v, PlaceInv(v), NEW f \in Flushers, flush[f].pc = "dequeued",
           flush' = [flush EXCEPT ![f].pc = "failed"], UNCHANGED <<queue, pending, registry>>
    PROVE  PlaceInv(v)'
  <1>1. /\ flush'[f].pc = "failed" /\ flush'[f].batch = flush[f].batch
        /\ \A g \in Flushers : g # f => flush'[g] = flush[g]
    BY MoveOnTypes
  <1>2. \A g \in Flushers : Holds(v, g)' <=> Holds(v, g)
    BY <1>1 DEF Holds, Held
  <1> QED
    BY <1>1, <1>2 DEF PlaceInv

\* The steps of a flush.
LEMMA FlushPlaces ==
    ASSUME GTypeInv, NEW v, PlaceInv(v), v \notin putBack', NEW f \in Flushers,
           \/ Dequeue(f) \/ Broadcast(f) \/ FlushFailed(f) \/ FlushTimedOut(f)
           \/ FlushMisread(f) \/ FlushUnanswered(f) \/ FlushDone(f)
    PROVE  PlaceInv(v)'
  <1>t. queue \in Seq(Items) /\ flush[f].batch \in Seq(Items)
    BY DEF GTypeInv, HandlerTypes, Handlers
  <1>1. CASE Dequeue(f)
    BY <1>1, DequeuePlaces DEF Dequeue, ledger, lists, mempool
  <1>2. ASSUME flush[f].pc # "idle", flush' = [flush EXCEPT ![f].pc = "done"],
               UNCHANGED <<queue, pending, registry>>
        PROVE  PlaceInv(v)'
    <2>1. /\ flush'[f].pc = "done" /\ \A g \in Flushers : g # f => flush'[g] = flush[g]
      BY <1>2, MoveOnTypes
    <2>2. \A g \in Flushers : Holds(v, g)' => flush'[g] = flush[g] /\ Holds(v, g)
      BY <2>1 DEF Holds, Held
    <2> QED
      BY <1>2, <2>2, ReleasePlaces
  <1>3. CASE Broadcast(f)
    <2>1. flush[f].pc = "dequeued" /\ UNCHANGED <<queue, registry>>
      BY <1>3 DEF Broadcast, lists
    <2> QED
      BY <1>2, <1>3, <2>1, SentPlaces, RefusedPlaces DEF Broadcast, mempool
  <1>4. CASE FlushFailed(f)
    BY <1>4, FailedPlaces
  <1>5. CASE FlushTimedOut(f)
    <2>1. /\ queue' = flush[f].batch \o queue /\ UNCHANGED <<pending, registry>>
          /\ putBack' = putBack \cup VotersOf(flush[f].batch)
          /\ flush'[f].pc = "idle" /\ \A g \in Flushers : g # f => flush'[g] = flush[g]
      BY <1>5, EndTypes DEF FlushTimedOut, Restore, ledger, lists, mempool
    <2>2. v \notin VotersOf(flush[f].batch)
      BY <2>1
    <2>3. v \in VotersOf(queue') <=> v \in VotersOf(queue)
      BY <1>t, <2>1, <2>2, BatchVoters
    <2>4. Once(v, flush[f].batch)
      BY <2>2 DEF Once, VotersOf
    <2>5. Once(v, queue) => Once(v, queue')
      BY <1>t, <2>1, <2>2, <2>4, BatchVoters
    <2>6. \A g \in Flushers : /\ Holds(v, g)' <=> Holds(v, g)
                              /\ Holds(v, g) => flush'[g] = flush[g]
      BY <2>1, <2>2 DEF Holds, Held
    <2> QED
      BY <2>1, <2>3, <2>5, <2>6 DEF PlaceInv
  <1>6. CASE FlushMisread(f) \/ FlushUnanswered(f)
    BY <1>2, <1>6 DEF FlushMisread, FlushUnanswered, FlushReported, ledger, lists, mempool
  <1>7. CASE FlushDone(f)
    <2>1. flush' = [flush EXCEPT ![f] = Idle] /\ UNCHANGED <<queue, pending, registry>>
      BY <1>7 DEF FlushDone, ledger, lists, mempool
    <2>2. /\ flush'[f].pc = "idle" /\ \A g \in Flushers : g # f => flush'[g] = flush[g]
      BY <2>1, EndTypes
    <2>3. \A g \in Flushers : Holds(v, g)' => flush'[g] = flush[g] /\ Holds(v, g)
      BY <2>2 DEF Holds, Held
    <2> QED
      BY <2>1, <2>3, ReleasePlaces
  <1> QED
    BY <1>1, <1>3, <1>4, <1>5, <1>6, <1>7

\* A block: a voter who gets on List 2 leaves the handler that waited for it,
\* or is noted as put back.
LEMMA CommitPlaces ==
    ASSUME GTypeInv, NEW v, PlaceInv(v), v \notin putBack',
           NEW S \in SUBSET pending, CommitBlock(S)
    PROVE  PlaceInv(v)'
  <1>1. /\ pending' \subseteq pending \ S /\ queue' = queue
        /\ registry' = registry \cup UNION {VotersOf(p.batch) : p \in S}
    BY DEF CommitBlock
  <1>2. \A f \in Flushers : /\ flush'[f].batch = flush[f].batch
                            /\ Holds(v, f)' => /\ Holds(v, f) /\ ~ Answers(S, f)
                                               /\ flush'[f].pc = flush[f].pc
    <2>1. \A f \in Flushers : Answers(S, f) => flush[f].pc = "sent"
      BY DEF Answers
    <2> QED
      BY <2>1, CommitHandlers DEF Holds, Held
  <1>3. CASE \A p \in S : v \notin VotersOf(p.batch)
    <2>1. v \in registry' => v \in registry
      BY <1>1, <1>3
    <2> QED
      BY <1>1, <1>2, <2>1 DEF PlaceInv
  <1>4. ASSUME NEW p \in S, v \in VotersOf(p.batch) PROVE PlaceInv(v)'
    <2>1. \A q \in pending' : v \notin VotersOf(q.batch)
      BY <1>1, <1>4 DEF PlaceInv
    <2>2. v \notin VotersOf(queue')
      BY <1>1, <1>4 DEF PlaceInv
    <2>3. ASSUME NEW f \in Flushers, Holds(v, f)' PROVE FALSE
      <3>1. flush[f].pc = "sent" /\ p = [by |-> f, batch |-> flush[f].batch]
        BY <1>2, <1>4, <2>3 DEF PlaceInv
      <3>2. Answers(S, f)
        BY <3>1 DEF Answers
      <3> QED
        BY <1>2, <2>3, <3>2
    <2> QED
      BY <2>1, <2>2, <2>3 DEF PlaceInv
  <1> QED
    BY <1>3, <1>4

\* Causes are never forgotten.
LEMMA CausesKept ==
    ASSUME GTypeInv, [GatewayNext]_gatewayVars
    PROVE  doubled \subseteq doubled' /\ putBack \subseteq putBack'
  <1>1. ASSUME NEW b \in Ballots,
               \/ Enqueue(b) \/ RelaySubmit(b) \/ BeaconExpires(b) \/ Rescind(b)
               \/ GrantRestore(b) \/ \E token \in Tokens : Submit(b, token)
        PROVE  doubled \subseteq doubled' /\ putBack \subseteq putBack'
    BY <1>1 DEF Enqueue, Accept, RelaySubmit, BeaconExpires, Rescind, GrantRestore, Submit,
       history
  <1>2. ASSUME NEW f \in Flushers,
               \/ Dequeue(f) \/ Broadcast(f) \/ FlushFailed(f) \/ FlushTimedOut(f)
               \/ FlushMisread(f) \/ FlushUnanswered(f) \/ FlushDone(f)
        PROVE  doubled \subseteq doubled' /\ putBack \subseteq putBack'
    BY <1>2 DEF Dequeue, Broadcast, FlushFailed, FlushTimedOut, FlushMisread, FlushUnanswered,
       FlushReported, FlushDone, history
  <1>3. ASSUME NEW S \in SUBSET pending, CommitBlock(S)
        PROVE  doubled \subseteq doubled' /\ putBack \subseteq putBack'
    BY <1>3 DEF CommitBlock
  <1>4. ASSUME NEW v \in Voters, NEW new \in Replacements(v),
               \/ \E old \in Ballots : DeviceUpdate(v, old, new)
               \/ \E k \in Keys : ReconciledLookup(k, v, new)
        PROVE  doubled \subseteq doubled' /\ putBack \subseteq putBack'
    BY <1>4 DEF DeviceUpdate, ReconciledLookup, history
  <1>5. CASE RelayPost
    BY <1>5 DEF RelayPost, UpstreamAccepts, UpstreamLeaves, Accept
  <1>6. CASE \/ ReconciledUpdate \/ ReconciledUnsent \/ RelayFlush \/ RelayFlushUpstream
             \/ PollEnds \/ RelayCrash \/ GatewayCrash \/ UNCHANGED gatewayVars
    BY <1>6 DEF ReconciledUpdate, ReconciledUnsent, RelayFlush, RelayFlushUpstream, PollEnds,
       RelayCrash, GatewayCrash, gatewayVars, history
  <1> QED
    BY <1>1, <1>2, <1>3, <1>4, <1>5, <1>6 DEF GatewayNext

\* Every step keeps every voter without a cause in one place.
LEMMA StepApart ==
    ASSUME GTypeInv, ApartInv, [GatewayNext]_gatewayVars
    PROVE  ApartInv'
  <1> SUFFICES ASSUME NEW v \in Voters, v \notin doubled', v \notin putBack'
               PROVE  PlaceInv(v)'
    BY DEF ApartInv
  <1>0. PlaceInv(v)
    BY CausesKept DEF ApartInv
  <1>1. ASSUME NEW b \in Ballots, Enqueue(b) PROVE PlaceInv(v)'
    <2>1. request[b] \in Items /\ UNCHANGED <<flush, pending, registry>>
      BY <1>1 DEF Enqueue, GTypeInv, HandlerTypes, ledger, lists, mempool
    <2>2. CASE ~ InQueue(request[b]) /\ Accept(request[b])
      BY <1>0, <2>1, <2>2, AcceptPlaces
    <2>3. CASE UNCHANGED <<queue, accepted, dropped, doubled, withReceipt>>
      BY <1>0, <2>1, <2>3, QuietPlaces
    <2> QED
      BY <1>1, <2>2, <2>3 DEF Enqueue
  <1>2. CASE RelayPost
    <2> DEFINE item == RelayItem(Head(relayBatch))
    <2>1. UNCHANGED <<flush, pending, registry>>
      BY <1>2 DEF RelayPost, ledger, lists, mempool
    <2>2. CASE UpstreamAccepts(Head(relayBatch))
      <3>1. Head(relayBatch) \in Ballots
        BY <1>2 DEF RelayPost, GTypeInv, StoreTypes
      <3>2. item \in Items
        BY <3>1 DEF RelayItem, Items
      <3>3. ~ InQueue(item) /\ Accept(item)
        BY <2>2 DEF UpstreamAccepts, UpstreamTakes
      <3> HIDE DEF item
      <3> QED
        BY <1>0, <2>1, <3>2, <3>3, AcceptPlaces
    <2>3. CASE UpstreamLeaves
      BY <1>0, <2>1, <2>3, QuietPlaces DEF UpstreamLeaves
    <2> QED
      BY <1>2, <2>2, <2>3 DEF RelayPost
  <1>3. ASSUME NEW b \in Ballots,
               \/ RelaySubmit(b) \/ BeaconExpires(b) \/ Rescind(b) \/ GrantRestore(b)
               \/ \E token \in Tokens : Submit(b, token)
        PROVE  PlaceInv(v)'
    <2>1. UNCHANGED <<queue, flush, pending>> /\ registry' \subseteq registry
      BY <1>3 DEF RelaySubmit, BeaconExpires, Rescind, GrantRestore, Submit, ledger, lists,
         mempool
    <2> QED
      BY <1>0, <2>1, QuietPlaces
  <1>4. ASSUME NEW w \in Voters, NEW new \in Replacements(w),
               \/ \E old \in Ballots : DeviceUpdate(w, old, new)
               \/ \E k \in Keys : ReconciledLookup(k, w, new)
        PROVE  PlaceInv(v)'
    <2>1. UNCHANGED <<queue, flush, pending>> /\ registry' \subseteq registry
      BY <1>4 DEF DeviceUpdate, UpdateExecuted, ReconciledLookup, ledger, lists, mempool
    <2> QED
      BY <1>0, <2>1, QuietPlaces
  <1>5. CASE ReconciledUpdate
    <2>1. registry' \subseteq registry
      BY <1>5, DecidedTypes DEF ReconciledUpdate
    <2>2. UNCHANGED <<queue, flush, pending>>
      BY <1>5 DEF ReconciledUpdate, mempool
    <2> QED
      BY <1>0, <2>1, <2>2, QuietPlaces
  <1>6. CASE ReconciledUnsent \/ RelayFlush \/ PollEnds \/ RelayCrash \/ UNCHANGED gatewayVars
    <2>1. UNCHANGED <<queue, flush, pending, registry>>
      BY <1>6 DEF ReconciledUnsent, RelayFlush, PollEnds, RelayCrash, gatewayVars, ledger,
         lists, mempool
    <2> QED
      BY <1>0, <2>1, QuietPlaces
  <1>7. CASE RelayFlushUpstream
    <2>1. UNCHANGED <<pending, registry>>
      BY <1>7 DEF RelayFlushUpstream, ledger, lists, mempool
    <2> QED
      BY <1>0, <1>7, <2>1, QuietPlaces, DequeuePlaces DEF RelayFlushUpstream
  <1>8. CASE GatewayCrash
    <2>1. UNCHANGED <<pending, registry>> /\ queue' = <<>>
      BY <1>8 DEF GatewayCrash, ledger, lists, mempool
    <2>2. \A g \in Flushers : ~ Holds(v, g)'
      BY <1>8, IdleTypes DEF GatewayCrash, Holds, Held
    <2> QED
      BY <1>0, <2>1, <2>2, ReleasePlaces
  <1> QED
    BY <1>0, <1>1, <1>2, <1>3, <1>4, <1>5, <1>6, <1>7, <1>8, FlushPlaces, CommitPlaces
       DEF GatewayNext

\* A batch the ledger refuses has one of the causes named, whatever flushes
\* run side by side, time out, fail after their writes or are cut off by a
\* crash, and whatever updates, rescissions and restores happen meanwhile.
THEOREM PoisonExplained == GatewaySpec => []PoisonHasCause
  <1> DEFINE Inv == GTypeInv /\ ApartInv
  <1>1. GatewayInit => Inv
    <2> SUFFICES ASSUME GatewayInit, NEW v PROVE PlaceInv(v)
      BY InitTypes DEF ApartInv
    <2>1. v \notin VotersOf(queue) /\ pending = {}
      BY BatchVoters DEF GatewayInit
    <2>2. \A f \in Flushers : ~ Holds(v, f)
      BY IdleTypes DEF GatewayInit, Holds, Held
    <2> QED
      BY <2>1, <2>2 DEF PlaceInv
  <1>2. Inv /\ [GatewayNext]_gatewayVars => Inv'
    BY StepTypes, StepApart
  <1>3. Inv => PoisonHasCause
    <2> SUFFICES ASSUME Inv, NEW batch \in Waiting, ~ ended,
                        BallotsOf(batch) \cap unfit = {},
                        VotersOf(batch) \cap (doubled \cup putBack) = {}
                 PROVE  BatchValid(batch)
      BY DEF PoisonHasCause
    <2>1. batch \in Seq(Items)
      BY DEF Waiting, GTypeInv, HandlerTypes, Handlers
    <2>2. VotersOf(batch) \subseteq Voters
      BY <2>1, BatchVoters
    <2>3. \A v \in VotersOf(batch) : PlaceInv(v)
      BY <2>2 DEF ApartInv
    <2>4. ASSUME NEW v \in VotersOf(batch) PROVE v \notin registry /\ Once(v, batch)
      <3>1. CASE batch = queue
        BY <2>3, <3>1 DEF PlaceInv
      <3>2. ASSUME NEW f \in Flushers, Held(f), batch = flush[f].batch
            PROVE  v \notin registry /\ Once(v, batch)
        <4>1. Holds(v, f)
          BY <3>2 DEF Holds
        <4> QED
          BY <2>3, <3>2, <4>1 DEF PlaceInv
      <3> QED
        BY <3>1, <3>2 DEF Waiting
    <2>5. \A i, j \in 1..Len(batch) :
             Owner[batch[i].ballot] = Owner[batch[j].ballot] => i = j
      BY <2>4 DEF Once, VotersOf
    <2> QED
      BY <2>4, <2>5 DEF BatchValid, ValidWith
  <1> QED
    BY <1>1, <1>2, <1>3, PTL DEF GatewaySpec

-----------------------------------------------------------------------------
(* Receipts                                                                 *)

\* The items that respect the postures of the accepted ballots S: marked for
\* a receipt only if in S.
Marked(S) == {item \in Items : item.receipt => item.ballot \in S}

\* Whatever batch an item is in, the mark it carries is that of its acceptance;
\* and receipts no update rewrote are receipts of ballots accepted with one.
MarkInv ==
    /\ queue \in Seq(Marked(withReceipt))
    /\ \A f \in Flushers : flush[f].batch \in Seq(Marked(withReceipt))
    /\ \A k \in Keys \ renamed : receipts[k] # None =>
          \E b \in withReceipt : receipts[k] = CastID(b)

\* Accepting more ballots with a receipt leaves marked batches marked.
LEMMA MarkedGrows ==
    ASSUME NEW S, NEW T, S \subseteq T, NEW s \in Seq(Marked(S))
    PROVE  s \in Seq(Marked(T))
  <1>1. Marked(S) \subseteq Marked(T)
    BY DEF Marked
  <1> QED
    BY <1>1

\* Marked batches put together are marked, and so is the empty one.
LEMMA MarkedBatches ==
    ASSUME NEW S
    PROVE  /\ <<>> \in Seq(Marked(S))
           /\ \A s, t \in Seq(Marked(S)) : s \o t \in Seq(Marked(S))
  <1> DEFINE M == Marked(S)
  <1> HIDE DEF M
  <1>1. <<>> \in Seq(M) /\ \A s, t \in Seq(M) : s \o t \in Seq(M)
    OBVIOUS
  <1> QED
    BY <1>1 DEF M

\* Accepting a ballot marks it as its posture says.
LEMMA AcceptMarks ==
    ASSUME GTypeInv, MarkInv, NEW item \in Items, Accept(item),
           UNCHANGED <<flush, receipts, renamed>>
    PROVE  MarkInv'
  <1>1. withReceipt \subseteq withReceipt' /\ item \in Marked(withReceipt')
    BY DEF Accept, Marked
  <1>2. queue' = Append(queue, item)
    BY DEF Accept
  <1>3. queue \in Seq(Marked(withReceipt'))
    BY <1>1, MarkedGrows DEF MarkInv
  <1>4. queue' \in Seq(Marked(withReceipt'))
    BY <1>1, <1>2, <1>3
  <1>5. \A f \in Flushers : flush[f].batch \in Seq(Marked(withReceipt'))
    BY <1>1, MarkedGrows DEF MarkInv
  <1> QED
    BY <1>1, <1>4, <1>5 DEF MarkInv

\* Batches move between the queue and the handlers with their marks, and only
\* a flush that is done and an update write receipts.
LEMMA StepMarks ==
    ASSUME GTypeInv, MarkInv, [GatewayNext]_gatewayVars
    PROVE  MarkInv'
  <1>0. ASSUME UNCHANGED <<receipts, renamed, withReceipt>>,
               queue' \in Seq(Marked(withReceipt)),
               \A f \in Flushers : flush'[f].batch \in Seq(Marked(withReceipt))
        PROVE  MarkInv'
    BY <1>0 DEF MarkInv
  <1>1. ASSUME UNCHANGED <<queue, flush, receipts, renamed, withReceipt>> PROVE MarkInv'
    BY <1>1 DEF MarkInv
  <1>d. ASSUME NEW f \in Flushers, queue # <<>>, queue' = <<>>,
               flush' = [flush EXCEPT ![f] = [pc |-> "dequeued", batch |-> queue]],
               UNCHANGED history, UNCHANGED receipts
        PROVE  MarkInv'
    <2>1. \A g \in Flushers : flush'[g].batch \in {flush[g].batch, queue}
      BY <1>d DEF GTypeInv, HandlerTypes
    <2>2. \A g \in Flushers : flush'[g].batch \in Seq(Marked(withReceipt))
      BY <2>1 DEF MarkInv
    <2>3. queue' \in Seq(Marked(withReceipt))
      BY <1>d
    <2> QED
      BY <1>0, <1>d, <2>2, <2>3 DEF history
  <1>2. ASSUME NEW b \in Ballots, Enqueue(b) PROVE MarkInv'
    <2>1. request[b] \in Items /\ UNCHANGED <<flush, receipts, renamed>>
      BY <1>2 DEF Enqueue, GTypeInv, HandlerTypes
    <2> QED
      BY <1>1, <1>2, <2>1, AcceptMarks DEF Enqueue
  <1>3. ASSUME NEW S \in SUBSET pending, CommitBlock(S) PROVE MarkInv'
    <2>1. \A f \in Flushers : flush'[f].batch = flush[f].batch
      BY <1>3, CommitHandlers
    <2>2. UNCHANGED <<queue, receipts, renamed, withReceipt>>
      BY <1>3 DEF CommitBlock
    <2> QED
      BY <1>0, <2>1, <2>2 DEF MarkInv
  <1>4. CASE RelayPost
    <2> DEFINE item == RelayItem(Head(relayBatch))
    <2>1. UNCHANGED <<flush, receipts, renamed>>
      BY <1>4 DEF RelayPost
    <2>2. CASE Accept(item)
      <3>1. Head(relayBatch) \in Ballots
        BY <1>4 DEF RelayPost, GTypeInv, StoreTypes
      <3>2. item \in Items
        BY <3>1 DEF RelayItem, Items
      <3> HIDE DEF item
      <3> QED
        BY <2>1, <2>2, <3>2, AcceptMarks
    <2>3. CASE UNCHANGED <<queue, accepted, dropped, doubled, withReceipt>>
      BY <1>1, <2>1, <2>3
    <2> QED
      BY <1>4, <2>2, <2>3 DEF RelayPost, UpstreamAccepts, UpstreamLeaves
  <1>5. CASE RelayFlushUpstream
    <2>1. UNCHANGED history /\ UNCHANGED receipts
      BY <1>5 DEF RelayFlushUpstream
    <2> QED
      BY <1>1, <1>d, <1>5, <2>1 DEF RelayFlushUpstream, history
  <1>6. CASE GatewayCrash
    <2>1. queue' = <<>> /\ \A f \in Flushers : flush'[f].batch = <<>>
      BY <1>6, IdleTypes DEF GatewayCrash
    <2>2. /\ queue' \in Seq(Marked(withReceipt))
          /\ \A f \in Flushers : flush'[f].batch \in Seq(Marked(withReceipt))
      BY <2>1, MarkedBatches
    <2>3. UNCHANGED <<receipts, renamed, withReceipt>>
      BY <1>6 DEF GatewayCrash
    <2> QED
      BY <1>0, <2>2, <2>3
  <1>7. ASSUME NEW b \in Ballots,
               \/ RelaySubmit(b) \/ BeaconExpires(b) \/ Rescind(b) \/ GrantRestore(b)
               \/ \E token \in Tokens : Submit(b, token)
        PROVE  MarkInv'
    BY <1>1, <1>7 DEF RelaySubmit, BeaconExpires, Rescind, GrantRestore, Submit, history
  <1>8. ASSUME NEW v \in Voters, NEW new \in Replacements(v),
               \/ \E old \in Ballots : DeviceUpdate(v, old, new)
               \/ \E k \in Keys : ReconciledLookup(k, v, new)
        PROVE  MarkInv'
    BY <1>1, <1>8 DEF DeviceUpdate, ReconciledLookup, history
  <1>9. CASE ReconciledUpdate
    <2>1. /\ UNCHANGED <<queue, flush, withReceipt>> /\ renamed \subseteq renamed'
          /\ \A k \in Keys \ renamed' : receipts'[k] = receipts[k]
      BY <1>9 DEF ReconciledUpdate, StoreSynced, GTypeInv, StoreTypes
    <2> QED
      BY <2>1 DEF MarkInv
  <1>10. CASE \/ ReconciledUnsent \/ RelayFlush \/ PollEnds \/ RelayCrash
              \/ UNCHANGED gatewayVars
    BY <1>1, <1>10 DEF ReconciledUnsent, RelayFlush, PollEnds, RelayCrash, gatewayVars,
       history
  <1>11. ASSUME NEW f \in Flushers, Dequeue(f) PROVE MarkInv'
    BY <1>d, <1>11 DEF Dequeue
  <1>12. ASSUME NEW f \in Flushers, Broadcast(f) \/ FlushMisread(f) \/ FlushUnanswered(f)
         PROVE  MarkInv'
    <2>1. PICK pc \in {"sent", "failed", "done"} : flush' = [flush EXCEPT ![f].pc = pc]
      BY <1>12 DEF Broadcast, FlushMisread, FlushUnanswered, FlushReported
    <2>2. flush[f].pc # "idle"
      BY <1>12 DEF Broadcast, FlushMisread, FlushUnanswered
    <2>3. \A g \in Flushers : flush'[g].batch = flush[g].batch
      BY <2>1, <2>2, MoveOnTypes
    <2>4. UNCHANGED <<queue, receipts, renamed, withReceipt>>
      BY <1>12 DEF Broadcast, FlushMisread, FlushUnanswered, FlushReported
    <2> QED
      BY <1>0, <2>3, <2>4 DEF MarkInv
  <1>13. ASSUME NEW f \in Flushers, FlushFailed(f) \/ FlushTimedOut(f) PROVE MarkInv'
    <2>1. queue' \in Seq(Marked(withReceipt))
      <3>1. queue' = flush[f].batch \o queue
        BY <1>13 DEF FlushFailed, FlushTimedOut, Restore
      <3> QED
        BY <3>1, MarkedBatches DEF MarkInv
    <2>2. \A g \in Flushers : flush'[g].batch \in {flush[g].batch, <<>>}
      BY <1>13, EndTypes DEF FlushFailed, FlushTimedOut
    <2>3. \A g \in Flushers : flush'[g].batch \in Seq(Marked(withReceipt))
      BY <2>2, MarkedBatches DEF MarkInv
    <2> QED
      BY <1>0, <1>13, <2>1, <2>3 DEF FlushFailed, FlushTimedOut, history
  <1>14. ASSUME NEW f \in Flushers, FlushDone(f) PROVE MarkInv'
    <2>1. /\ UNCHANGED <<queue, renamed, withReceipt>>
          /\ \A g \in Flushers : flush'[g].batch \in {flush[g].batch, <<>>}
      BY <1>14, EndTypes DEF FlushDone, history
    <2>2. \A g \in Flushers : flush'[g].batch \in Seq(Marked(withReceipt))
      BY <2>1, MarkedBatches DEF MarkInv
    <2>3. ASSUME NEW i \in Receipted(flush[f].batch)
          PROVE  flush[f].batch[i].ballot \in withReceipt
      <3>1. flush[f].batch[i] \in Marked(withReceipt) /\ flush[f].batch[i].receipt
        BY DEF MarkInv, Receipted
      <3> QED
        BY <3>1 DEF Marked
    <2>4. ASSUME NEW k \in Keys \ renamed, receipts'[k] # None
          PROVE  \E b \in withReceipt : receipts'[k] = CastID(b)
      BY <1>14, <2>3, <2>4, ReceiptsWritten DEF MarkInv
    <2> QED
      BY <2>1, <2>2, <2>4 DEF MarkInv
  <1> QED
    BY <1>2, <1>3, <1>4, <1>5, <1>6, <1>7, <1>8, <1>9, <1>10, <1>11, <1>12, <1>13, <1>14
       DEF GatewayNext

\* A ballot cast in the write-only posture never gets a receipt that no update
\* rewrote, whatever flushes fail, time out, are restored or crash.
THEOREM WriteOnlyKept == GatewaySpec => []WriteOnlyNoReceipt
  <1> DEFINE Inv == GTypeInv /\ MarkInv
  <1>1. GatewayInit => Inv
    <2> SUFFICES ASSUME GatewayInit PROVE MarkInv
      BY InitTypes
    <2>1. queue = <<>> /\ \A f \in Flushers : flush[f].batch = <<>>
      BY IdleTypes DEF GatewayInit
    <2> QED
      BY <2>1, MarkedBatches DEF GatewayInit, MarkInv
  <1>2. Inv /\ [GatewayNext]_gatewayVars => Inv'
    BY StepTypes, StepMarks
  <1>3. Inv => WriteOnlyNoReceipt
    <2> SUFFICES ASSUME Inv, NEW k \in Keys \ renamed, NEW b \in Ballots \ withReceipt,
                        receipts[k] = CastID(b)
                 PROVE  FALSE
      BY DEF WriteOnlyNoReceipt
    <2>1. PICK c \in withReceipt : CastID(b) = CastID(c)
      BY IDTypes DEF MarkInv
    <2>2. b = c
      BY <2>1 DEF CastID
    <2> QED
      BY <2>1, <2>2
  <1> QED
    BY <1>1, <1>2, <1>3, PTL DEF GatewaySpec

\* What reached the ledger is there, unless an update or a rescission took it
\* off.
ListedInv == everCast \subseteq votes \cup removed \cup rescinded

\* A handler that is done has its batch on the ledger once, and so had every
\* receipt no update rewrote, short of what was reported flushed and was not.
ReceiptInv ==
    /\ \A f \in Flushers : flush[f].pc = "done" =>
          BallotsOf(flush[f].batch) \subseteq everCast \cup misread
    /\ \A k \in Keys \ renamed : receipts[k] # None =>
          \E b \in everCast \cup misread : Key[b] = k /\ receipts[k] = CastID(b)

\* Whatever takes a ballot off List 1 leaves a trace.
LEMMA StepListed ==
    ASSUME GTypeInv, ListedInv, [GatewayNext]_gatewayVars
    PROVE  ListedInv'
  <1>1. ASSUME UNCHANGED <<votes, everCast, removed, rescinded>> PROVE ListedInv'
    BY <1>1 DEF ListedInv
  <1>2. ASSUME NEW v, NEW old, NEW new, UpdateExecuted(v, old, new), UNCHANGED rescinded
        PROVE  ListedInv'
    BY <1>2 DEF UpdateExecuted, ListedInv
  <1>3. ASSUME NEW S \in SUBSET pending, CommitBlock(S) PROVE ListedInv'
    BY <1>3 DEF CommitBlock, ListedInv, rules
  <1>4. ASSUME NEW b \in Ballots,
               \/ Enqueue(b) \/ RelaySubmit(b) \/ BeaconExpires(b) \/ GrantRestore(b)
               \/ \E token \in Tokens : Submit(b, token)
        PROVE  ListedInv'
    <2>1. UNCHANGED <<votes, everCast, removed, rescinded>>
      BY <1>4 DEF Enqueue, RelaySubmit, BeaconExpires, GrantRestore, Submit, ledger, lists,
         rules, history
    <2> QED
      BY <1>1, <2>1
  <1>5. ASSUME NEW b \in Ballots, Rescind(b) PROVE ListedInv'
    BY <1>5 DEF Rescind, ListedInv, history
  <1>6. ASSUME NEW f \in Flushers,
               \/ Dequeue(f) \/ Broadcast(f) \/ FlushFailed(f) \/ FlushTimedOut(f)
               \/ FlushMisread(f) \/ FlushUnanswered(f) \/ FlushDone(f)
        PROVE  ListedInv'
    <2>1. UNCHANGED <<votes, everCast, removed, rescinded>>
      BY <1>6 DEF Dequeue, Broadcast, FlushFailed, FlushTimedOut, FlushMisread, FlushReported,
         FlushUnanswered, FlushDone, ledger, lists, rules, history
    <2> QED
      BY <1>1, <2>1
  <1>7. ASSUME NEW v \in Voters, NEW new \in Replacements(v),
               \/ \E old \in Ballots : DeviceUpdate(v, old, new)
               \/ \E k \in Keys : ReconciledLookup(k, v, new)
        PROVE  ListedInv'
    BY <1>1, <1>2, <1>7 DEF DeviceUpdate, ReconciledLookup, ledger, lists, rules, history
  <1>8. CASE ReconciledUpdate
    BY <1>1, <1>2, <1>8 DEF ReconciledUpdate, UpdateDecided, lists, rules
  <1>9. CASE \/ ReconciledUnsent \/ RelayFlush \/ RelayPost \/ RelayFlushUpstream \/ PollEnds
             \/ RelayCrash \/ GatewayCrash \/ UNCHANGED gatewayVars
    <2>1. UNCHANGED <<votes, everCast, removed, rescinded>>
      BY <1>9 DEF ReconciledUnsent, RelayFlush, RelayPost, RelayFlushUpstream, PollEnds,
         RelayCrash, GatewayCrash, gatewayVars, ledger, lists, rules, history
    <2> QED
      BY <1>1, <2>1
  <1> QED
    BY <1>3, <1>4, <1>5, <1>6, <1>7, <1>8, <1>9 DEF GatewayNext

\* The steps of a flush: it is reported done when its ballots are on the
\* ledger or noted as missing there.
LEMMA FlushReceipts ==
    ASSUME GTypeInv, CastInv, ReceiptInv, NEW f \in Flushers,
           \/ Dequeue(f) \/ Broadcast(f) \/ FlushFailed(f) \/ FlushTimedOut(f)
           \/ FlushMisread(f) \/ FlushUnanswered(f) \/ FlushDone(f)
    PROVE  ReceiptInv'
  <1>0. ASSUME UNCHANGED <<everCast, receipts, renamed>>, misread \subseteq misread',
               \A g \in Flushers : flush'[g].pc = "done" =>
                  BallotsOf(flush'[g].batch) \subseteq everCast \cup misread'
        PROVE  ReceiptInv'
    BY <1>0 DEF ReceiptInv
  <1>1. CASE Dequeue(f)
    <2>1. \A g \in Flushers : flush'[g].pc = "done" => flush'[g] = flush[g]
      BY <1>1 DEF Dequeue, GTypeInv, HandlerTypes
    <2>2. UNCHANGED <<everCast, receipts, renamed, misread>>
      BY <1>1 DEF Dequeue, history
    <2> QED
      BY <1>0, <2>1, <2>2 DEF ReceiptInv
  <1>2. CASE FlushFailed(f) \/ FlushTimedOut(f)
    <2>1. \A g \in Flushers : flush'[g].pc = "done" => flush'[g] = flush[g]
      BY <1>2, EndTypes DEF FlushFailed, FlushTimedOut
    <2>2. UNCHANGED <<everCast, receipts, renamed, misread>>
      BY <1>2 DEF FlushFailed, FlushTimedOut, history
    <2> QED
      BY <1>0, <2>1, <2>2 DEF ReceiptInv
  <1>3. ASSUME NEW pc \in {"sent", "failed", "done"}, flush[f].pc # "idle",
               flush' = [flush EXCEPT ![f].pc = pc],
               UNCHANGED <<everCast, receipts, renamed>>, misread \subseteq misread',
               pc = "done" => BallotsOf(flush[f].batch) \subseteq everCast \cup misread'
        PROVE  ReceiptInv'
    <2>1. /\ flush'[f].pc = pc /\ flush'[f].batch = flush[f].batch
          /\ \A g \in Flushers : g # f => flush'[g] = flush[g]
      BY <1>3, MoveOnTypes
    <2>2. \A g \in Flushers : flush'[g].pc = "done" =>
             BallotsOf(flush'[g].batch) \subseteq everCast \cup misread'
      BY <1>3, <2>1 DEF ReceiptInv
    <2> QED
      BY <1>0, <1>3, <2>2
  <1>4. CASE FlushMisread(f) \/ FlushUnanswered(f)
    BY <1>3, <1>4 DEF FlushMisread, FlushUnanswered, FlushReported
  <1>5. CASE Broadcast(f)
    <2>1. flush[f].pc # "idle" /\ UNCHANGED <<everCast, receipts, renamed>>
      BY <1>5 DEF Broadcast
    <2>2. CASE flush' = [flush EXCEPT ![f].pc = "done"]
               /\ misread' = misread \cup NotOnLedger(BallotsOf(flush[f].batch))
      <3>1. BallotsOf(flush[f].batch) \subseteq everCast \cup misread'
        BY <2>2 DEF NotOnLedger, CastInv
      <3> QED
        BY <1>3, <2>1, <2>2, <3>1
    <2>3. CASE UNCHANGED misread /\ \/ flush' = [flush EXCEPT ![f].pc = "sent"]
                                    \/ flush' = [flush EXCEPT ![f].pc = "failed"]
      BY <1>3, <2>1, <2>3
    <2> QED
      BY <1>5, <2>2, <2>3 DEF Broadcast
  <1>6. CASE FlushDone(f)
    <2>1. /\ UNCHANGED <<everCast, renamed, misread>> /\ flush[f].pc = "done"
          /\ \A g \in Flushers : flush'[g].pc = "done" => flush'[g] = flush[g]
      BY <1>6, EndTypes DEF FlushDone, history
    <2>2. ASSUME NEW k \in Keys \ renamed, receipts'[k] # None
          PROVE  \E b \in everCast \cup misread : Key[b] = k /\ receipts'[k] = CastID(b)
      <3>1. CASE receipts'[k] = receipts[k]
        BY <2>2, <3>1 DEF ReceiptInv
      <3>2. CASE receipts'[k] # receipts[k]
        <4>1. PICK i \in Receipted(flush[f].batch) :
                 /\ Key[flush[f].batch[i].ballot] = k
                 /\ receipts'[k] = CastID(flush[f].batch[i].ballot)
          BY <1>6, <3>2, ReceiptsWritten
        <4>2. flush[f].batch[i].ballot \in BallotsOf(flush[f].batch)
          BY DEF BallotsOf, Receipted
        <4> QED
          BY <2>1, <4>1, <4>2 DEF ReceiptInv
      <3> QED
        BY <3>1, <3>2
    <2> QED
      BY <2>1, <2>2 DEF ReceiptInv
  <1> QED
    BY <1>1, <1>2, <1>4, <1>5, <1>6

\* Every step keeps the done flushes and the receipts with the ledger.
LEMMA StepReceipts ==
    ASSUME GTypeInv, CastInv, ReceiptInv, [GatewayNext]_gatewayVars
    PROVE  ReceiptInv'
  <1>0. everCast \subseteq everCast'
    BY StepCast
  <1>1. ASSUME UNCHANGED <<receipts, renamed, misread>>,
               \A f \in Flushers : flush'[f].pc = "done" => flush'[f] = flush[f]
        PROVE  ReceiptInv'
    BY <1>0, <1>1 DEF ReceiptInv
  <1>2. ASSUME NEW S \in SUBSET pending, CommitBlock(S) PROVE ReceiptInv'
    <2>1. /\ UNCHANGED <<receipts, renamed, misread>>
          /\ everCast' = everCast \cup UNION {BallotsOf(p.batch) : p \in S}
      BY <1>2 DEF CommitBlock
    <2>2. ASSUME NEW f \in Flushers, flush'[f].pc = "done"
          PROVE  BallotsOf(flush'[f].batch) \subseteq everCast' \cup misread'
      <3>1. flush'[f].batch = flush[f].batch
        BY <1>2, CommitHandlers
      <3>2. CASE Answers(S, f)
        <4>1. PICK p \in S : p = [by |-> f, batch |-> flush[f].batch]
          BY <3>2 DEF Answers
        <4>2. p.batch = flush[f].batch
          BY <4>1
        <4> QED
          BY <2>1, <3>1, <4>2
      <3>3. CASE ~ Answers(S, f)
        <4>1. flush[f].pc = "done"
          BY <1>2, <2>2, <3>3, CommitHandlers
        <4> QED
          BY <2>1, <3>1, <4>1 DEF ReceiptInv
      <3> QED
        BY <3>2, <3>3
    <2> QED
      BY <1>0, <2>1, <2>2 DEF ReceiptInv
  <1>3. CASE ReconciledUpdate
    <2>1. /\ UNCHANGED <<flush, misread>> /\ renamed \subseteq renamed'
          /\ \A k \in Keys \ renamed' : receipts'[k] = receipts[k]
      BY <1>3 DEF ReconciledUpdate, StoreSynced, GTypeInv, StoreTypes
    <2> QED
      BY <1>0, <2>1 DEF ReceiptInv
  <1>4. ASSUME NEW b \in Ballots,
               \/ Enqueue(b) \/ RelaySubmit(b) \/ BeaconExpires(b) \/ Rescind(b)
               \/ GrantRestore(b) \/ \E token \in Tokens : Submit(b, token)
        PROVE  ReceiptInv'
    <2>1. UNCHANGED <<flush, receipts, renamed, misread>>
      BY <1>4 DEF Enqueue, RelaySubmit, BeaconExpires, Rescind, GrantRestore, Submit, history
    <2> QED
      BY <1>1, <2>1
  <1>5. ASSUME NEW v \in Voters, NEW new \in Replacements(v),
               \/ \E old \in Ballots : DeviceUpdate(v, old, new)
               \/ \E k \in Keys : ReconciledLookup(k, v, new)
        PROVE  ReceiptInv'
    <2>1. UNCHANGED <<flush, receipts, renamed, misread>>
      BY <1>5 DEF DeviceUpdate, ReconciledLookup, history
    <2> QED
      BY <1>1, <2>1
  <1>6. CASE \/ ReconciledUnsent \/ RelayFlush \/ RelayPost \/ PollEnds \/ RelayCrash
             \/ UNCHANGED gatewayVars
    <2>1. UNCHANGED <<flush, receipts, renamed, misread>>
      BY <1>6 DEF ReconciledUnsent, RelayFlush, RelayPost, PollEnds, RelayCrash, gatewayVars,
         history
    <2> QED
      BY <1>1, <2>1
  <1>7. CASE RelayFlushUpstream
    <2>1. UNCHANGED <<receipts, renamed, misread>>
      BY <1>7 DEF RelayFlushUpstream, history
    <2>2. \A f \in Flushers : flush'[f].pc = "done" => flush'[f] = flush[f]
      BY <1>7 DEF RelayFlushUpstream, GTypeInv, HandlerTypes
    <2> QED
      BY <1>1, <2>1, <2>2
  <1>8. CASE GatewayCrash
    <2>1. UNCHANGED <<receipts, renamed, misread>>
      BY <1>8 DEF GatewayCrash
    <2>2. \A f \in Flushers : flush'[f].pc # "done"
      BY <1>8, IdleTypes DEF GatewayCrash
    <2> QED
      BY <1>1, <2>1, <2>2
  <1> QED
    BY <1>2, <1>3, <1>4, <1>5, <1>6, <1>7, <1>8, FlushReceipts DEF GatewayNext

\* With the identifier derivation that leaves nothing out, a receipt names a
\* ballot of its key that is on List 1, unless an update or a rescission took
\* it off, its flush was misread, or an update rewrote the receipt.
THEOREM ReceiptsTrue == GatewaySpec => []ReceiptsMatchLedger
  <1> DEFINE Inv == GTypeInv /\ CastInv /\ ListedInv /\ ReceiptInv
  <1>1. GatewayInit => Inv
    <2> SUFFICES ASSUME GatewayInit PROVE CastInv /\ ListedInv /\ ReceiptInv
      BY InitTypes
    <2>1. \A f \in Flushers : flush[f].pc = "idle"
      BY IdleTypes DEF GatewayInit
    <2> QED
      BY <2>1 DEF GatewayInit, CastInv, ListedInv, ReceiptInv
  <1>2. Inv /\ [GatewayNext]_gatewayVars => Inv'
    BY StepTypes, StepCast, StepListed, StepReceipts
  <1>3. Inv => ReceiptsMatchLedger
    <2> SUFFICES ASSUME Inv, NoncePlusPayload, NEW k \in Keys \ renamed, receipts[k] # None
                 PROVE  \E b \in votes \cup removed \cup rescinded \cup misread :
                           Key[b] = k /\ receipts[k] = LedgerID(b)
      BY DEF ReceiptsMatchLedger
    <2>1. PICK b \in everCast \cup misread : Key[b] = k /\ receipts[k] = CastID(b)
      BY DEF ReceiptInv
    <2>2. CastID(b) = LedgerID(b)
      BY DEF CastID, LedgerID
    <2> QED
      BY <2>1, <2>2 DEF ListedInv
  <1> QED
    BY <1>1, <1>2, <1>3, PTL DEF GatewaySpec

=============================================================================

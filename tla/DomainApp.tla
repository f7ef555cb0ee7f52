----------------------------- MODULE DomainApp -----------------------------
(***************************************************************************)
(* A node that runs shychat or shystore under an ABCI host that works like *)
(* app/app.go (the repository embeds both state machines in no host of its *)
(* own): CheckTx validates against the last committed state, FinalizeBlock *)
(* executes without validating again and commits, CometBFT applies the     *)
(* validator updates and re-checks what is left in the mempool.  A restart *)
(* happens between blocks; VotingApp covers crashes inside one.            *)
(***************************************************************************)
EXTENDS ShyChat, ShyStore

CONSTANTS
    Traffics,       \* sets of transaction types clients send in one behaviour
    MaxMempool, MaxBlockTxs, MaxBlocks, MaxRestarts             \* bounds

ASSUME DomainBounds ==
    {MaxTime, MaxMempool, MaxBlockTxs, MaxBlocks, MaxRestarts} \subseteq Nat

VARIABLES
    domain,         \* which state machine the node runs
    traffic,        \* the transaction types its clients send
    mempool,        \* transactions CheckTx accepted
    inBlock,        \* is a block being executed?
    delivered,      \* transactions of the block executed so far
    comet,          \* CometBFT's validator set: powers, 0 for no member
    halted,         \* CometBFT refused the validator updates of a block
    blocks, restarts

(* History variables: what happened, for the properties only. *)
VARIABLES
    resurrected,    \* whose deleted entries a restart brought back
    ghosts,         \* removed validators a restart brought back
    touched,        \* validators registered or removed so far
    closedIn,       \* the block of the close
    late,           \* participants whose entries changed after the close, in
                    \* the same block
    accepted,       \* submissions accepted since the last restart
    allowed,        \* the allow-list the bucket was created with
    outside,        \* participants who stored another category
    inForce,        \* participants the executed actions leave suppressed
    justSuppressed, \* those suppressed in the current block
    forgotten,      \* those whose suppression a restart forgot
    lastReveal      \* whose secret the last step revealed, or None

node == <<domain, traffic>>
host == <<mempool, inBlock, delivered, comet, halted, blocks, restarts>>
storeHistory == <<allowed, outside, inForce, justSuppressed, forgotten>>
history == <<resurrected, ghosts, touched, closedIn, late, accepted,
             storeHistory, lastReveal>>
domainVars == <<node, now, baseVars, chatVars, storeVars, host, history>>

Txs == {t \in IF domain = "shychat" THEN ChatTxs ELSE StoreTxs :
            t.type \in traffic}

DomainInit ==
    /\ domain \in {"shychat", "shystore"}
    /\ traffic \in Traffics
    /\ Txs # {}
    /\ now = 0
    /\ BaseInit /\ ChatInit /\ StoreInit
    /\ mempool = {} /\ inBlock = FALSE /\ delivered = 0
    /\ comet = [k \in ValidatorKeys |-> IF k \in Genesis THEN 1 ELSE 0]
    /\ halted = FALSE /\ blocks = 0 /\ restarts = 0
    /\ resurrected = {} /\ ghosts = {} /\ touched = {} /\ closedIn = None
    /\ late = {} /\ accepted = 0 /\ allowed = {} /\ outside = {}
    /\ inForce = {} /\ justSuppressed = {} /\ forgotten = {}
    /\ lastReveal = None

Idle == ~ inBlock /\ ~ halted

ValidateTx(t) ==
    IF domain = "shychat" THEN ChatValidateTx(t) ELSE StoreValidateTx(t)

Clock ==
    /\ Idle /\ domain = "shychat"
    /\ now < MaxTime /\ now' = now + 1
    /\ UNCHANGED <<node, baseVars, chatVars, storeVars, host, history>>

OperatorNewBucket ==
    /\ Idle /\ domain = "shystore"
    /\ \E categories \in SUBSET Categories :
          NewBucket(categories) /\ allowed' = categories
    /\ UNCHANGED <<node, now, chatVars, host, resurrected, ghosts, touched,
                   closedIn, late, accepted, outside, inForce, justSuppressed,
                   forgotten, lastReveal>>

CheckTx(t) ==
    /\ Idle /\ t \notin mempool /\ Cardinality(mempool) < MaxMempool
    /\ ValidateTx(t)
    /\ mempool' = mempool \cup {t}
    /\ lastReveal' = None
    /\ UNCHANGED <<node, now, baseVars, chatVars, storeVars, inBlock,
                   delivered, comet, halted, blocks, restarts, resurrected,
                   ghosts, touched, closedIn, late, accepted, storeHistory>>

BeginBlock ==
    /\ Idle /\ blocks < MaxBlocks
    /\ inBlock' = TRUE /\ blocks' = blocks + 1 /\ delivered' = 0
    /\ RecordBeacon
    /\ UNCHANGED <<node, now, chatVars, storeVars, mempool, comet, halted,
                   restarts, history>>

\* What an executed transaction means for the history.
Note(t) ==
    /\ touched' = IF t.type \in {"ChatValidator", "StoreValidator"}
                  THEN touched \cup {t.key} ELSE touched
    /\ closedIn' = IF closure = None /\ closure' # None THEN blocks
                   ELSE closedIn
    /\ late' = IF closure # None /\ closedIn = blocks
                  /\ t.type \in {"MessageDispatch", "MessageUpdate",
                                 "SecretStore", "SecretRotate"}
               THEN late \cup {Owner[t.new]}
               ELSE IF closure # None /\ closedIn = blocks
                       /\ t.type = "MessageWithdraw"
               THEN late \cup {Owner[t.old]} ELSE late
    /\ accepted' = IF participants' \ participants # {} THEN accepted + 1
                   ELSE accepted
    /\ outside' = IF t.type = "SecretStore" /\ allowed # {}
                     /\ t.category \notin allowed
                  THEN outside \cup {Owner[t.new]} ELSE outside
    /\ IF t.type = "AdverseAction"
       THEN LET now_suppressed == t.action = "suppress" IN
            /\ inForce' = IF now_suppressed THEN inForce \cup {t.target}
                          ELSE inForce \ {t.target}
            /\ justSuppressed' = IF now_suppressed
                                 THEN justSuppressed \cup {t.target}
                                 ELSE justSuppressed
            /\ forgotten' = forgotten \ {t.target}
       ELSE UNCHANGED <<inForce, justSuppressed, forgotten>>
    /\ lastReveal' = IF t.type = "SecretReveal" THEN Owner[t.secret] ELSE None
    /\ UNCHANGED <<resurrected, ghosts, allowed>>

\* One turn of the loop in FinalizeBlock.
DeliverTx(t) ==
    /\ inBlock /\ t \in mempool /\ delivered < MaxBlockTxs
    /\ IF domain = "shychat" THEN ChatExecuteTx(t) /\ UNCHANGED storeVars
                             ELSE StoreExecuteTx(t) /\ UNCHANGED chatVars
    /\ delivered' = delivered + 1
    /\ mempool' = mempool \ {t}
    /\ Note(t)
    /\ UNCHANGED <<node, now, inBlock, comet, halted, blocks,
                   restarts>>

\* CometBFT refuses a block's updates when a key occurs twice, an unknown
\* validator is removed or nobody is left.
UpdatedSet(updates) ==
    [k \in ValidatorKeys |->
        IF \E i \in 1..Len(updates) : updates[i].key = k
        THEN updates[CHOOSE i \in 1..Len(updates) : updates[i].key = k].power
        ELSE comet[k]]

UpdatesAcceptable(updates) ==
    /\ \A i, j \in 1..Len(updates) : updates[i].key = updates[j].key => i = j
    /\ \A i \in 1..Len(updates) :
          updates[i].power = 0 => comet[updates[i].key] > 0
    /\ updates = <<>> \/ \E k \in ValidatorKeys : UpdatedSet(updates)[k] > 0

\* The end of FinalizeBlock, what CometBFT does with its results, and the
\* re-check of the mempool.
EndBlock ==
    /\ inBlock
    /\ Commit
    /\ inBlock' = FALSE
    /\ delivered' = 0
    /\ IF UpdatesAcceptable(pendingUpdates)
       THEN comet' = UpdatedSet(pendingUpdates) /\ UNCHANGED halted
       ELSE halted' = TRUE /\ UNCHANGED comet
    /\ mempool' = {t \in mempool : ValidateTx(t)}
    /\ justSuppressed' = {}
    /\ lastReveal' = None
    /\ UNCHANGED <<node, now, chatVars, storeVars, blocks, restarts,
                   resurrected, ghosts, touched, closedIn, late, accepted,
                   allowed, outside, inForce, forgotten>>

Restart ==
    /\ Idle /\ restarts < MaxRestarts /\ restarts' = restarts + 1
    /\ LoadState /\ ChatRestart /\ StoreRestart
    /\ mempool' = {}
    /\ resurrected' = resurrected
         \cup {Owner[s] : s \in db.submissions \ submissions}
         \cup (db.participants \ participants)
    /\ ghosts' = ghosts
         \cup {k \in ValidatorKeys : db.validators[k] # validators[k]}
    /\ accepted' = 0
    /\ forgotten' = forgotten \cup inForce
    /\ lastReveal' = None
    /\ UNCHANGED <<node, now, inBlock, delivered, comet, halted, blocks,
                   touched, closedIn, late, allowed, outside, inForce,
                   justSuppressed>>

DomainNext ==
    \/ Clock \/ OperatorNewBucket \/ BeginBlock \/ EndBlock \/ Restart
    \/ \E t \in Txs : CheckTx(t) \/ DeliverTx(t)

DomainSpec == DomainInit /\ [][DomainNext]_domainVars

-----------------------------------------------------------------------------
(* Properties                                                               *)

\* Types of the base, of both domains and of the host.
DomainTypeOK ==
    /\ BaseTypeOK
    /\ mailbox \in Surfaces \cup {None}
    /\ bucket = None \/ bucket \subseteq Categories
    /\ revealEvents \subseteq Submissions
    /\ authorityActions \subseteq ActionIDs
    /\ suppressed \subseteq Participants
    /\ mempool \subseteq Txs
    /\ comet \in [ValidatorKeys -> Nat]

\* Unlike the voting ledger, TwoListBase repeats its guards when it executes:
\* in any order of transactions, within a block too, every participant is on
\* List 2 exactly when one of their submissions is on List 1, so the lists
\* have the same size.  Only a restart, which brings deleted entries back,
\* breaks that, and only for the participants concerned.
PairedUnlessResurrected ==
    \A p \in Participants \ resurrected : Paired(p)

\* A closure record commits to the lists for good: afterwards nobody's
\* entries change, but for transactions that were checked before the close
\* and executed after it in the same block, and for resurrected entries.
ClosureCommitsLists ==
    closure # None =>
        \A p \in Participants \ (late \cup resurrected) :
            /\ p \in participants <=> p \in closure.l2
            /\ OwnSubmissions(p) = {s \in closure.l1 : Owner[s] = p}

\* A checkpoint is taken on every RollingThreshold-th accepted submission and
\* attests lists of the same size, as long as nothing was resurrected.
CheckpointCadence ==
    AttestationMode = "rolling" /\ resurrected = {} =>
        /\ accepted = RollingThreshold * Len(checkpoints) + submissionCount
        /\ \A i \in 1..Len(checkpoints) :
              Cardinality(checkpoints[i].l2) = checkpoints[i].total

\* A restart loses nothing that was committed: period, closure and validators
\* are as before, and the lists can only grow by entries deleted earlier.
RestartKeepsCommitted ==
    [][restarts' # restarts /\ ~ dirty =>
          /\ period' = period /\ closure' = closure
          /\ submissions \subseteq submissions'
          /\ participants \subseteq participants'
          /\ resurrected' = {} /\ ghosts' = {} => Hashed' = Hashed]_domainVars

\* The validators the state machine knows are the ones CometBFT has, for each
\* key registered so far, unless CometBFT refused an update or a restart
\* brought a removed validator back.
ValidatorsMirrored ==
    Idle => \A k \in touched \ ghosts : validators[k] = comet[k]

\* A mailbox's delivery record repeats its closure; it is missing only after
\* a restart.
DeliveryRepeatsClosure ==
    domain = "shychat" =>
        /\ delivery # None => closure # None /\ delivery.total = closure.total
        /\ closure # None /\ delivery = None => restarts > 0

\* A suppressed participant's secret is not revealed, unless the reveal
\* passed its check before the suppression was executed in the same block,
\* or a restart forgot the suppression.
SuppressedNotRevealed ==
    lastReveal \notin inForce \ (justSuppressed \cup forgotten)

\* Only categories of the allow-list are stored until a restart forgets the
\* list.
AllowListHolds == outside # {} => bucket = None

=============================================================================

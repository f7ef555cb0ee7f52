---------------------------- MODULE DomainProofs ----------------------------
(***************************************************************************)
(* Theorems about the two lists under shychat and shystore, for any finite *)
(* sets of participants and submissions, any validators, traffic and       *)
(* bounds, and any number of blocks and restarts.                          *)
(***************************************************************************)
EXTENDS DomainApp, FiniteSetTheorems, TLAPS

-----------------------------------------------------------------------------
(* Types                                                                    *)

Periods == [status : {"none", "open", "closed"}, end : Int]

Attestations == [l1 : SUBSET Submissions, l2 : SUBSET Participants, total : Nat]

Databases ==
    [period : Periods, submissions : SUBSET Submissions,
     participants : SUBSET Participants, closure : Attestations \cup {None},
     validators : [ValidatorKeys -> Powers \cup {0}]]

Updates == [key : ValidatorKeys, power : Powers]

\* BaseTypeOK and the types of the records it leaves open.
BaseTypes ==
    /\ BaseTypeOK
    /\ period \in Periods /\ db \in Databases
    /\ closure \in Attestations \cup {None}
    /\ checkpoints \in Seq(Attestations) /\ submissionCount < RollingThreshold
    /\ pendingUpdates \in Seq(Updates)

\* The same for both domains, the host and the history.
TypeInv ==
    /\ DomainTypeOK /\ BaseTypes
    /\ domain \in {"shychat", "shystore"} /\ inBlock \in BOOLEAN
    /\ now \in Int /\ blocks \in Nat /\ restarts \in Nat /\ accepted \in Nat
    /\ inForce \subseteq Participants

\* The parts of BaseConstants the proofs use.
LEMMA Constants ==
    /\ Owner \in [Submissions -> Participants] /\ None \notin Participants
    /\ Powers \subseteq Nat /\ RollingThreshold \in Nat /\ RollingThreshold > 0
  BY BaseConstants

\* Sets of submissions are finite.
LEMMA SubmissionSets ==
    ASSUME NEW S \in SUBSET Submissions
    PROVE  IsFiniteSet(S) /\ Cardinality(S) \in Nat
  BY FS_Subset, FS_CardinalityType, BaseConstants

\* What an attestation commits to is an attestation record.
LEMMA AttestedType ==
    ASSUME NEW l1 \in SUBSET Submissions, NEW l2 \in SUBSET Participants
    PROVE  Attested(l1, l2) \in Attestations /\ Attested(l1, l2) # None
  <1>1. Attested(l1, l2) \in Attestations
    BY SubmissionSets DEF Attested, Attestations
  <1> QED
    BY <1>1, BaseConstants DEF Attestations

\* Transactions and their types, which tell the kinds apart.
LEMMA TxTypes ==
    /\ \A t \in MailboxCreateTxs : t.type = "MailboxCreate" /\ t.end \in EndTimes
                                   /\ t.surface \in Surfaces
    /\ \A t \in MessageDispatchTxs : t.type = "MessageDispatch"
                                     /\ t.new \in Submissions
    /\ \A t \in MailboxCloseTxs : t.type = "MailboxClose"
    /\ \A t \in MessageUpdateTxs :
          /\ t.type = "MessageUpdate" /\ t.old \in Submissions
          /\ t.new \in Submissions /\ Owner[t.old] = Owner[t.new]
    /\ \A t \in MessageWithdrawTxs : t.type = "MessageWithdraw"
                                     /\ t.old \in Submissions
    /\ \A t \in ChatValidatorTxs : t.type = "ChatValidator"
                                   /\ t.key \in ValidatorKeys /\ t.power \in Powers
    /\ \A t \in SecretStoreTxs : t.type = "SecretStore" /\ t.new \in Submissions
                                 /\ t.category \in Categories
    /\ \A t \in SecretRevealTxs : t.type = "SecretReveal"
                                  /\ t.secret \in Submissions
    /\ \A t \in SecretRotateTxs :
          /\ t.type = "SecretRotate" /\ t.old \in Submissions
          /\ t.new \in Submissions /\ Owner[t.old] = Owner[t.new]
    /\ \A t \in BucketCloseTxs : t.type = "BucketClose"
    /\ \A t \in StoreValidatorTxs : t.type = "StoreValidator"
                                    /\ t.key \in ValidatorKeys /\ t.power \in Powers
    /\ \A t \in AdverseActionTxs : t.type = "AdverseAction" /\ t.id \in ActionIDs
                                   /\ t.target \in Participants
  BY DEF MailboxCreateTxs, MessageDispatchTxs, MailboxCloseTxs, MessageUpdateTxs,
         MessageWithdrawTxs, ChatValidatorTxs, SecretStoreTxs, SecretRevealTxs,
         SecretRotateTxs, BucketCloseTxs, StoreValidatorTxs, AdverseActionTxs

\* What executing a transaction does to the two lists and the rest of the
\* base: one of the operations of TwoListBase, or nothing.
BaseStep(t) ==
    \/ /\ t.type \in {"SecretReveal", "AdverseAction"}
       /\ UNCHANGED baseVars
    \/ /\ t.type = "MailboxCreate"
       /\ CreatePeriod(IF t.end = 0 THEN now + DefaultWindow ELSE t.end)
    \/ /\ t.type \in {"MessageDispatch", "SecretStore"}
       /\ t.new \in Submissions
       /\ SubmitToLists(t.new, Owner[t.new])
    \/ /\ t.type \in {"MessageUpdate", "SecretRotate"}
       /\ t.old \in Submissions /\ t.new \in Submissions
       /\ Owner[t.old] = Owner[t.new]
       /\ UpdateSubmission(t.old, t.new)
    \/ /\ t.type = "MessageWithdraw"
       /\ t.old \in Submissions
       /\ WithdrawFromLists(t.old, RederivedIdentity(Owner[t.old]))
    \/ t.type \in {"MailboxClose", "BucketClose"} /\ ClosePeriod
    \/ /\ t.type \in {"ChatValidator", "StoreValidator"}
       /\ t.key \in ValidatorKeys /\ t.power \in Powers
       /\ RegisterValidator(t.key, t.power)

\* Both ExecuteTx dispatchers end in an operation of the base.
LEMMA ExecuteBase ==
    ASSUME NEW t \in Txs, DeliverTx(t)
    PROVE  BaseStep(t)
  <1>1. CASE domain = "shychat"
    <2>1. t \in ChatTxs /\ ChatExecuteTx(t)
      BY <1>1 DEF Txs, DeliverTx
    <2> QED
      BY <2>1, TxTypes DEF ChatTxs, ChatExecuteTx, BaseStep, ExecuteMailboxCreate,
         ExecuteMessageDispatch, ExecuteMailboxClose, ExecuteMessageUpdate,
         ExecuteMessageWithdraw
  <1>2. CASE domain # "shychat"
    <2>1. t \in StoreTxs /\ StoreExecuteTx(t)
      BY <1>2 DEF Txs, DeliverTx
    <2> QED
      BY <2>1, TxTypes DEF StoreTxs, StoreExecuteTx, BaseStep, ExecuteSecretStore,
         ExecuteSecretReveal, ExecuteSecretRotate, ExecuteBucketClose,
         ExecuteAdverseAction
  <1> QED
    BY <1>1, <1>2

\* NewTwoListBase over an empty database.
LEMMA InitTypes == DomainInit => TypeInv
  <1> SUFFICES ASSUME DomainInit PROVE TypeInv
    OBVIOUS
  <1>1. NoPeriod \in Periods
    BY DEF NoPeriod, Periods
  <1>2. /\ period = NoPeriod /\ submissions = {} /\ participants = {}
        /\ closure = None /\ checkpoints = <<>> /\ submissionCount = 0
        /\ validators = [k \in ValidatorKeys |-> 0] /\ pendingUpdates = <<>>
        /\ beaconKnown = FALSE /\ dirty = FALSE
        /\ db = [period |-> NoPeriod, submissions |-> {}, participants |-> {},
                 closure |-> None, validators |-> validators]
    BY DEF DomainInit, BaseInit
  <1>3. validators \in [ValidatorKeys -> Powers \cup {0}]
    BY <1>2
  <1>4. db \in Databases
    BY <1>1, <1>2, <1>3 DEF Databases
  <1>5. BaseTypes
    <2>1. period.status \in {"none", "open", "closed"}
      BY <1>2 DEF NoPeriod
    <2>2. submissionCount \in 0..RollingThreshold /\ submissionCount < RollingThreshold
      BY <1>2, Constants
    <2>3. dirty \in BOOLEAN /\ beaconKnown \in BOOLEAN
      BY <1>2
    <2>4. checkpoints \in Seq(Attestations) /\ pendingUpdates \in Seq(Updates)
      BY <1>2
    <2> QED
      BY <1>1, <1>2, <1>3, <1>4, <2>1, <2>2, <2>3, <2>4 DEF BaseTypes, BaseTypeOK
  <1>6. comet \in [ValidatorKeys -> Nat]
    BY DEF DomainInit
  <1>7. DomainTypeOK
    BY <1>5, <1>6 DEF DomainInit, ChatInit, StoreInit, DomainTypeOK, BaseTypes
  <1>8. /\ domain \in {"shychat", "shystore"} /\ inBlock = FALSE /\ now = 0
        /\ blocks = 0 /\ restarts = 0 /\ accepted = 0 /\ inForce = {}
    BY DEF DomainInit
  <1>9. inBlock \in BOOLEAN
    BY <1>8
  <1> QED
    BY <1>5, <1>7, <1>8, <1>9 DEF TypeInv

\* Every operation of TwoListBase keeps its types, whatever its arguments.
LEMMA StepBaseTypes ==
    ASSUME BaseTypes, now \in Int, NEW t \in Txs, BaseStep(t)
    PROVE  BaseTypes'
  <1> USE DEF BaseTypes, BaseTypeOK
  <1>1. CASE UNCHANGED baseVars
    BY <1>1 DEF baseVars, lists, rolling, power
  <1>2. CASE /\ t.type = "MailboxCreate"
             /\ CreatePeriod(IF t.end = 0 THEN now + DefaultWindow ELSE t.end)
    <2>1. t.end \in Int
      BY <1>2, TxTypes, ChatConstants DEF Txs, ChatTxs, StoreTxs
    <2> DEFINE e == IF t.end = 0 THEN now + DefaultWindow ELSE t.end
    <2>2. e \in Int
      BY <2>1, ChatConstants
    <2> HIDE DEF e
    <2>3. CreatePeriod(e)
      BY <1>2 DEF e
    <2>4. period' \in Periods
      BY <2>2, <2>3 DEF CreatePeriod, Periods
    <2>5. dirty' \in BOOLEAN
      BY <2>3 DEF CreatePeriod
    <2> QED
      BY <2>3, <2>4, <2>5 DEF CreatePeriod, lists, rolling, power, Periods
  <1>3. ASSUME NEW s \in Submissions, SubmitToLists(s, Owner[s])
        PROVE  BaseTypes'
    <2>1. submissions' \in SUBSET Submissions /\ participants' \in SUBSET Participants
      BY <1>3, Constants DEF SubmitToLists, baseVars, lists
    <2>2. Attested(submissions', participants') \in Attestations
      BY <2>1, AttestedType
    <2>3. /\ checkpoints' \in Seq(Attestations)
          /\ submissionCount' \in 0..RollingThreshold
          /\ submissionCount' < RollingThreshold
      <3>1. CASE UNCHANGED rolling
        BY <3>1 DEF rolling
      <3>2. CASE /\ submissionCount' =
                       IF submissionCount + 1 >= RollingThreshold THEN 0
                       ELSE submissionCount + 1
                 /\ \/ checkpoints' = checkpoints
                    \/ checkpoints' = Append(checkpoints,
                                             Attested(submissions', participants'))
        BY <3>2, <2>2, Constants
      <3> QED
        BY <1>3, <3>1, <3>2 DEF SubmitToLists, baseVars, rolling
    <2> QED
      BY <1>3, <2>1, <2>3 DEF SubmitToLists, baseVars, lists, power
  <1>4. ASSUME NEW old \in Submissions, NEW new \in Submissions,
               UpdateSubmission(old, new)
        PROVE  BaseTypes'
    BY <1>4 DEF UpdateSubmission, baseVars, lists, rolling, power
  <1>5. ASSUME NEW old, NEW p, WithdrawFromLists(old, p)
        PROVE  BaseTypes'
    BY <1>5 DEF WithdrawFromLists, baseVars, lists, rolling, power
  <1>6. CASE ClosePeriod
    <2>1. closure' \in Attestations \cup {None}
      BY <1>6, AttestedType DEF ClosePeriod
    <2>2. period' \in Periods
      BY <1>6 DEF ClosePeriod, Periods
    <2> QED
      BY <1>6, <2>1, <2>2 DEF ClosePeriod, lists, rolling, power, Periods
  <1>7. ASSUME NEW k \in ValidatorKeys, NEW p \in Powers, RegisterValidator(k, p)
        PROVE  BaseTypes'
    <2>1. [key |-> k, power |-> p] \in Updates
      BY DEF Updates
    <2>2. validators' \in [ValidatorKeys -> Powers \cup {0}]
      BY <1>7 DEF RegisterValidator
    <2> QED
      BY <1>7, <2>1, <2>2 DEF RegisterValidator, lists, rolling
  <1> QED
    BY <1>1, <1>2, <1>3, <1>4, <1>5, <1>6, <1>7 DEF BaseStep

\* CometBFT's powers stay numbers.
LEMMA UpdatedSetType ==
    ASSUME TypeInv
    PROVE  UpdatedSet(pendingUpdates) \in [ValidatorKeys -> Nat]
  <1>1. \A i \in 1..Len(pendingUpdates) : pendingUpdates[i].power \in Nat
    <2>1. \A i \in 1..Len(pendingUpdates) : pendingUpdates[i] \in Updates
      BY DEF TypeInv, BaseTypes
    <2> QED
      BY <2>1, Constants DEF Updates
  <1>2. \A k \in ValidatorKeys : comet[k] \in Nat
    BY DEF TypeInv, DomainTypeOK
  <1>3. ASSUME NEW k \in ValidatorKeys,
               \E i \in 1..Len(pendingUpdates) : pendingUpdates[i].key = k
        PROVE  (CHOOSE i \in 1..Len(pendingUpdates) : pendingUpdates[i].key = k)
                  \in 1..Len(pendingUpdates)
    BY <1>3
  <1> QED
    BY <1>1, <1>2, <1>3 DEF UpdatedSet

\* The maps of the two domains keep their types when a transaction is executed.
LEMMA DeliverDomain ==
    ASSUME TypeInv, NEW t \in Txs, DeliverTx(t)
    PROVE  /\ mailbox' \in Surfaces \cup {None}
           /\ bucket' = bucket
           /\ revealEvents' \subseteq Submissions
           /\ authorityActions' \subseteq ActionIDs
           /\ suppressed' \subseteq Participants
  <1> USE DEF TypeInv, DomainTypeOK
  <1>1. CASE domain = "shychat"
    <2>1. t \in ChatTxs /\ ChatExecuteTx(t) /\ UNCHANGED storeVars
      BY <1>1 DEF Txs, DeliverTx
    <2> QED
      BY <2>1, TxTypes DEF ChatTxs, ChatExecuteTx, ExecuteMailboxCreate,
         ExecuteMessageDispatch, ExecuteMailboxClose, ExecuteMessageUpdate,
         ExecuteMessageWithdraw, chatVars, storeVars
  <1>2. CASE domain # "shychat"
    <2>1. t \in StoreTxs /\ StoreExecuteTx(t) /\ UNCHANGED chatVars
      BY <1>2 DEF Txs, DeliverTx
    <2> QED
      BY <2>1, TxTypes DEF StoreTxs, StoreExecuteTx, ExecuteSecretStore,
         ExecuteSecretReveal, ExecuteSecretRotate, ExecuteBucketClose,
         ExecuteAdverseAction, chatVars, storeVars
  <1> QED
    BY <1>1, <1>2

\* Every step keeps the types.
LEMMA NextTypes == TypeInv /\ [DomainNext]_domainVars => TypeInv'
  <1> SUFFICES ASSUME TypeInv, [DomainNext]_domainVars PROVE TypeInv'
    OBVIOUS
  <1>1. CASE UNCHANGED domainVars
    BY <1>1 DEF domainVars, node, baseVars, lists, rolling, power, chatVars,
       storeVars, host, history, storeHistory, TypeInv, BaseTypes, BaseTypeOK,
       DomainTypeOK, Txs
  <1>2. CASE Clock
    BY <1>2 DEF Clock, node, baseVars, lists, rolling, power, chatVars,
       storeVars, host, history, storeHistory, TypeInv, BaseTypes, BaseTypeOK,
       DomainTypeOK, Txs
  <1>3. CASE OperatorNewBucket
    <2>1. PICK c \in SUBSET Categories : NewBucket(c)
      BY <1>3 DEF OperatorNewBucket
    <2>2. period' \in Periods
      BY <2>1 DEF NewBucket, CreatePeriod, TypeInv, BaseTypes, Periods
    <2>3. dirty' \in BOOLEAN
      BY <2>1 DEF NewBucket, CreatePeriod, TypeInv, BaseTypes, BaseTypeOK
    <2>4. BaseTypes'
      BY <2>1, <2>2, <2>3 DEF NewBucket, CreatePeriod, lists, rolling, power,
         TypeInv, BaseTypes, BaseTypeOK, Periods
    <2> QED
      BY <1>3, <2>1, <2>4 DEF OperatorNewBucket, NewBucket, node, chatVars, host,
         TypeInv, BaseTypes, DomainTypeOK, Txs
  <1>4. ASSUME NEW t \in Txs, CheckTx(t) PROVE TypeInv'
    BY <1>4 DEF CheckTx, node, baseVars, lists, rolling, power, chatVars,
       storeVars, storeHistory, TypeInv, BaseTypes, BaseTypeOK,
       DomainTypeOK, Txs
  <1>5. CASE BeginBlock
    <2>1. BaseTypes'
      BY <1>5 DEF BeginBlock, RecordBeacon, lists, rolling, power, TypeInv,
         BaseTypes, BaseTypeOK
    <2> QED
      BY <1>5, <2>1 DEF BeginBlock, node, chatVars, storeVars, history,
         storeHistory, TypeInv, BaseTypes, DomainTypeOK, Txs
  <1>6. ASSUME NEW t \in Txs, DeliverTx(t) PROVE TypeInv'
    <2>1. BaseTypes'
      BY <1>6, ExecuteBase, StepBaseTypes DEF TypeInv
    <2>2. /\ mailbox' \in Surfaces \cup {None}
          /\ bucket' = None \/ bucket' \subseteq Categories
          /\ revealEvents' \subseteq Submissions
          /\ authorityActions' \subseteq ActionIDs
          /\ suppressed' \subseteq Participants
      BY <1>6, DeliverDomain DEF TypeInv, DomainTypeOK
    <2>3. accepted' \in Nat
      BY <1>6 DEF DeliverTx, Note, TypeInv
    <2>4. inForce' \subseteq Participants
      BY <1>6, TxTypes DEF DeliverTx, Note, Txs, ChatTxs, StoreTxs, TypeInv
    <2> QED
      BY <1>6, <2>1, <2>2, <2>3, <2>4 DEF DeliverTx, node, TypeInv, BaseTypes,
         DomainTypeOK, Txs
  <1>7. CASE EndBlock
    <2>1. db' \in Databases
      <3>1. Persisted \in Databases
        <4>1. db \in Databases /\ period \in Periods
              /\ closure \in Attestations \cup {None}
              /\ submissions \subseteq Submissions
              /\ participants \subseteq Participants
              /\ validators \in [ValidatorKeys -> Powers \cup {0}]
          BY DEF TypeInv, BaseTypes, BaseTypeOK
        <4> QED
          BY <4>1 DEF Persisted, Databases
      <3> QED
        BY <1>7, <3>1 DEF EndBlock, Commit, TypeInv, BaseTypes
    <2>2. dirty' \in BOOLEAN
      BY <1>7 DEF EndBlock, Commit
    <2>3. BaseTypes'
      BY <1>7, <2>1, <2>2 DEF EndBlock, Commit, lists, rolling, TypeInv,
         BaseTypes, BaseTypeOK
    <2>4. comet' \in [ValidatorKeys -> Nat]
      BY <1>7, UpdatedSetType DEF EndBlock, TypeInv, DomainTypeOK
    <2>5. inBlock' \in BOOLEAN
      BY <1>7 DEF EndBlock
    <2> QED
      BY <1>7, <2>3, <2>4, <2>5 DEF EndBlock, node, chatVars, storeVars, TypeInv,
         BaseTypes, DomainTypeOK, Txs
  <1>8. CASE Restart
    <2>1. db \in Databases
      BY DEF TypeInv, BaseTypes
    <2>2. /\ period' \in Periods /\ submissions' \subseteq Submissions
          /\ participants' \subseteq Participants
          /\ closure' \in Attestations \cup {None}
          /\ validators' \in [ValidatorKeys -> Powers \cup {0}]
          /\ db' \in Databases
      BY <1>8, <2>1 DEF Restart, LoadState, Databases
    <2>3. dirty' \in BOOLEAN /\ beaconKnown' \in BOOLEAN
      BY <1>8 DEF Restart, LoadState
    <2>4. /\ submissionCount' \in 0..RollingThreshold
          /\ submissionCount' < RollingThreshold
          /\ checkpoints' \in Seq(Attestations) /\ pendingUpdates' \in Seq(Updates)
      BY <1>8, Constants DEF Restart, LoadState
    <2>5. BaseTypes'
      BY <2>2, <2>3, <2>4 DEF BaseTypes, BaseTypeOK, Periods
    <2> QED
      BY <1>8, <2>5 DEF Restart, ChatRestart, StoreRestart, node, TypeInv,
         BaseTypes, DomainTypeOK, Txs
  <1> QED
    BY <1>1, <1>2, <1>3, <1>4, <1>5, <1>6, <1>7, <1>8 DEF DomainNext

\* Every map, counter and flag of TwoListBase, of both domains and of the host
\* keeps its type, through every order of transactions and every restart.
THEOREM DomainTypes == DomainSpec => []DomainTypeOK
  <1>1. TypeInv => DomainTypeOK
    BY DEF TypeInv
  <1> QED
    BY <1>1, InitTypes, NextTypes, PTL DEF DomainSpec

-----------------------------------------------------------------------------
(* What one step does to the entries of one participant.                    *)

\* The list entries of p are as before.
Kept(p) == /\ p \in participants' <=> p \in participants
           /\ OwnSubmissions(p)' = OwnSubmissions(p)

\* The transactions that change list entries, and whose.
ListTypes == {"MessageDispatch", "SecretStore", "MessageUpdate", "SecretRotate",
              "MessageWithdraw"}

Writer(t) == IF t.type = "MessageWithdraw" THEN Owner[t.old] ELSE Owner[t.new]

\* Paired, with the one submission named.
LEMMA PairedForm ==
    ASSUME NEW S \in SUBSET Submissions
    PROVE  Cardinality(S) = 1 <=> \E s : S = {s}
  BY SubmissionSets, FS_Singleton

\* An executed transaction changes entries of its writer only, and keeps them
\* paired: the guards TwoListBase repeats are enough.
LEMMA ListStep ==
    ASSUME TypeInv, NEW t \in Txs, BaseStep(t), NEW p \in Participants
    PROVE  \/ Kept(p)
           \/ /\ t.type \in ListTypes /\ p = Writer(t)
              /\ Paired(p) => Paired(p)'
  <1> DEFINE own == OwnSubmissions(p)
  <1>0. /\ submissions \in SUBSET Submissions /\ own \in SUBSET Submissions
        /\ Owner \in [Submissions -> Participants] /\ None \notin Participants
        /\ participants \subseteq Participants
    BY Constants DEF TypeInv, DomainTypeOK, BaseTypeOK, OwnSubmissions
  <1>1. ASSUME UNCHANGED <<submissions, participants>> PROVE Kept(p)
    BY <1>1 DEF Kept, OwnSubmissions
  <1>2. ASSUME t.type \in {"MessageDispatch", "SecretStore"},
               t.new \in Submissions, SubmitToLists(t.new, Owner[t.new])
        PROVE  Kept(p) \/ (p = Writer(t) /\ (Paired(p) => Paired(p)'))
    <2>1. CASE UNCHANGED baseVars
      BY <1>1, <2>1 DEF baseVars, lists
    <2>2. CASE /\ Owner[t.new] \notin participants
               /\ submissions' = submissions \cup {t.new}
               /\ participants' = participants \cup {Owner[t.new]}
      <3>1. CASE p # Owner[t.new]
        BY <2>2, <3>1 DEF Kept, OwnSubmissions
      <3>2. CASE p = Owner[t.new]
        <4>1. Paired(p) => OwnSubmissions(p)' = {t.new} /\ p \in participants'
          BY <2>2, <3>2 DEF Paired, OwnSubmissions
        <4>2. Cardinality({t.new}) = 1
          BY FS_Singleton
        <4> QED
          BY <1>2, <3>2, <4>1, <4>2 DEF Paired, Writer
      <3> QED
        BY <3>1, <3>2
    <2> QED
      BY <1>2, <2>1, <2>2 DEF SubmitToLists
  <1>3. ASSUME t.type \in {"MessageUpdate", "SecretRotate"},
               t.old \in Submissions, t.new \in Submissions,
               Owner[t.old] = Owner[t.new], UpdateSubmission(t.old, t.new)
        PROVE  Kept(p) \/ (p = Writer(t) /\ (Paired(p) => Paired(p)'))
    <2>1. CASE UNCHANGED baseVars
      BY <1>1, <2>1 DEF baseVars, lists
    <2>2. CASE /\ t.old \in submissions
               /\ submissions' = (submissions \ {t.old}) \cup {t.new}
               /\ participants' = participants
      <3>1. CASE p # Owner[t.new]
        BY <1>3, <2>2, <3>1 DEF Kept, OwnSubmissions
      <3>2. CASE p = Owner[t.new]
        <4>1. t.old \in own
          BY <1>3, <2>2, <3>2 DEF OwnSubmissions
        <4>2. ASSUME Paired(p)
              PROVE  p \in participants /\ own = {t.old}
          BY <1>0, <4>1, <4>2, PairedForm DEF Paired
        <4>3. Paired(p) => OwnSubmissions(p)' = {t.new} /\ p \in participants'
          BY <1>3, <2>2, <3>2, <4>2 DEF OwnSubmissions
        <4>4. Cardinality({t.new}) = 1
          BY FS_Singleton
        <4> QED
          BY <1>3, <3>2, <4>3, <4>4 DEF Paired, Writer
      <3> QED
        BY <3>1, <3>2
    <2> QED
      BY <1>3, <2>1, <2>2 DEF UpdateSubmission
  <1>4. ASSUME t.type = "MessageWithdraw", t.old \in Submissions,
               WithdrawFromLists(t.old, RederivedIdentity(Owner[t.old]))
        PROVE  Kept(p) \/ (p = Writer(t) /\ (Paired(p) => Paired(p)'))
    <2>1. CASE UNCHANGED baseVars
      BY <1>1, <2>1 DEF baseVars, lists
    <2>2. CASE /\ t.old \in submissions
               /\ RederivedIdentity(Owner[t.old]) \in participants
               /\ submissions' = submissions \ {t.old}
               /\ participants' = participants \ {RederivedIdentity(Owner[t.old])}
      <3>0. RederivedIdentity(Owner[t.old]) = Owner[t.old]
        BY <1>0, <2>2 DEF RederivedIdentity
      <3>1. CASE p # Owner[t.old]
        BY <2>2, <3>0, <3>1 DEF Kept, OwnSubmissions
      <3>2. CASE p = Owner[t.old]
        <4>1. t.old \in own /\ p \in participants
          BY <2>2, <3>0, <3>2 DEF OwnSubmissions
        <4>2. Paired(p) => own = {t.old}
          BY <1>0, <4>1, PairedForm DEF Paired
        <4>3. Paired(p) => OwnSubmissions(p)' = {} /\ p \notin participants'
          BY <2>2, <3>0, <3>2, <4>2 DEF OwnSubmissions
        <4> QED
          BY <1>4, <3>2, <4>3 DEF Paired, Writer
      <3> QED
        BY <3>1, <3>2
    <2> QED
      BY <1>4, <2>1, <2>2 DEF WithdrawFromLists
  <1>5. CASE t.type \notin ListTypes
    <2>1. UNCHANGED <<submissions, participants>>
      BY <1>5 DEF BaseStep, ListTypes, baseVars, CreatePeriod, ClosePeriod,
         RegisterValidator, lists
    <2> QED
      BY <2>1, <1>1
  <1> QED
    BY <1>2, <1>3, <1>4, <1>5 DEF BaseStep, ListTypes

-----------------------------------------------------------------------------
(* The inductive invariants                                                 *)

\* Between blocks, and in a block that changed nothing so far, the database
\* has every list entry that memory has.
ListsSaved ==
    ~ inBlock \/ ~ dirty =>
        submissions \subseteq db.submissions /\ participants \subseteq db.participants

PairInv == PairedUnlessResurrected /\ ListsSaved

\* A period is closed exactly when it has a closure record, in memory and in
\* the database, and only an open period nobody committed yet can be lost.
PeriodInv ==
    /\ closure # None <=> period.status = "closed"
    /\ db.closure # None <=> db.period.status = "closed"
    /\ period.status = "none" => period = NoPeriod
    /\ db.period.status = "none" => db.period = NoPeriod
    /\ db.period.status # "none" => period.status # "none"
    /\ db.closure # None => closure = db.closure
    /\ ~ inBlock \/ ~ dirty => closure = db.closure
    /\ ~ dirty => period = db.period
    /\ ~ inBlock /\ dirty => period.status = "open"

\* Once the block of the close is over, the re-check leaves nothing in the
\* mempool that changes list entries.
ClosureInv ==
    /\ ClosureCommitsLists
    /\ closure # None /\ (~ inBlock \/ closedIn # blocks) =>
          \A t \in mempool : t.type \notin ListTypes

\* A key with no pending update is mirrored already, one with a single
\* pending update will be when CometBFT applies it.
ValidatorInv ==
    /\ ~ inBlock => pendingUpdates = <<>>
    /\ touched \subseteq ValidatorKeys
    /\ \A i \in 1..Len(pendingUpdates) : pendingUpdates[i].key \in touched
    /\ ~ halted =>
         \A k \in touched \ ghosts :
            /\ (\A i \in 1..Len(pendingUpdates) : pendingUpdates[i].key # k)
                  => validators[k] = comet[k]
            /\ \A i \in 1..Len(pendingUpdates) :
                  /\ pendingUpdates[i].key = k
                  /\ \A j \in 1..Len(pendingUpdates) :
                        pendingUpdates[j].key = k => j = i
                  => validators[k] = pendingUpdates[i].power

\* What is suppressed and not forgotten is in the map the check reads, and
\* no checked reveal waits for its owner, but for those of this block.
SuppressInv ==
    /\ SuppressedNotRevealed
    /\ inForce \ forgotten \subseteq suppressed
    /\ \A t \in mempool : t.type = "SecretReveal" =>
          Owner[t.secret] \notin inForce \ (justSuppressed \cup forgotten)

\* The record in memory is the list the bucket was created with; a category
\* outside of it was stored only after a restart without the record, so the
\* bucket's period exists and NewBucket cannot run again.
AllowInv ==
    /\ AllowListHolds
    /\ bucket \in {None, allowed}
    /\ \A t \in mempool : t.type = "SecretStore" =>
          /\ period.status # "none"
          /\ bucket \notin {None, {}} => t.category \in bucket
    /\ outside # {} =>
          /\ period.status # "none"
          /\ db.period.status # "none" \/ (inBlock /\ dirty)

\* The steps, with those that only move the clock or stutter as one.
Quiet == UNCHANGED <<node, baseVars, chatVars, storeVars, host, history>>

\* Every step is one of these kinds; refusals change nothing.
LEMMA StepKinds ==
    ASSUME [DomainNext]_domainVars
    PROVE  \/ Quiet \/ OperatorNewBucket \/ BeginBlock \/ EndBlock \/ Restart
           \/ \E t \in Txs : CheckTx(t)
           \/ \E t \in Txs : DeliverTx(t)
  BY DEF DomainNext, domainVars, Clock, Quiet

\* No transaction writes the database, and one that changes the lists, the
\* period or the closure marks the base dirty; a closure is never replaced.
LEMMA BaseFrame ==
    ASSUME TypeInv, NEW t \in Txs, BaseStep(t)
    PROVE  /\ db' = db
           /\ dirty' = dirty \/ dirty' = TRUE
           /\ dirty' # TRUE => UNCHANGED <<period, closure, submissions, participants>>
           /\ \/ UNCHANGED <<period, closure>>
              \/ /\ period.status = "none" /\ period'.status = "open"
                 /\ UNCHANGED closure
              \/ /\ t.type \in {"MailboxClose", "BucketClose"} /\ CanClose
                 /\ UNCHANGED <<submissions, participants>>
                 /\ period'.status = "closed"
                 /\ closure' = Attested(submissions, participants)
  <1>1. period \in Periods /\ dirty \in BOOLEAN
    BY DEF TypeInv, BaseTypes, BaseTypeOK
  <1>2. CASE UNCHANGED baseVars
    BY <1>1, <1>2 DEF baseVars, lists
  <1>3. ASSUME NEW e, CreatePeriod(e)
        PROVE  /\ db' = db
               /\ \/ UNCHANGED <<period, closure, submissions, participants, dirty>>
                  \/ /\ period.status = "none" /\ period'.status = "open"
                     /\ UNCHANGED <<closure, submissions, participants>>
                     /\ dirty' = TRUE
    BY <1>3 DEF CreatePeriod, lists
  <1>4. ASSUME NEW s, NEW p, SubmitToLists(s, p)
        PROVE  /\ UNCHANGED <<period, closure, db>>
               /\ \/ UNCHANGED <<submissions, participants, dirty>>
                  \/ dirty' = TRUE
    BY <1>4 DEF SubmitToLists, baseVars, lists
  <1>5. ASSUME NEW s, NEW p, UpdateSubmission(s, p)
        PROVE  /\ UNCHANGED <<period, closure, db>>
               /\ \/ UNCHANGED <<submissions, participants, dirty>>
                  \/ dirty' = TRUE
    BY <1>5 DEF UpdateSubmission, baseVars, lists
  <1>6. ASSUME NEW s, NEW p, WithdrawFromLists(s, p)
        PROVE  /\ UNCHANGED <<period, closure, db>>
               /\ \/ UNCHANGED <<submissions, participants, dirty>>
                  \/ dirty' = TRUE
    BY <1>6 DEF WithdrawFromLists, baseVars, lists
  <1>7. ASSUME ClosePeriod
        PROVE  /\ db' = db /\ UNCHANGED <<submissions, participants>>
               /\ \/ UNCHANGED <<period, closure, dirty>>
                  \/ /\ CanClose /\ period'.status = "closed"
                     /\ closure' = Attested(submissions, participants)
                     /\ dirty' = TRUE
    BY <1>1, <1>7 DEF ClosePeriod, lists, Periods
  <1>8. ASSUME NEW k, NEW p, RegisterValidator(k, p)
        PROVE  UNCHANGED <<period, closure, db, submissions, participants>>
               /\ dirty' = TRUE
    BY <1>8 DEF RegisterValidator, lists
  <1> QED
    BY <1>2, <1>3, <1>4, <1>5, <1>6, <1>7, <1>8 DEF BaseStep, baseVars, lists

-----------------------------------------------------------------------------
(* Pairing                                                                  *)

\* An empty ledger is paired and saved.
LEMMA InitPair == DomainInit => PairInv
  BY DEF DomainInit, BaseInit, PairInv, PairedUnlessResurrected, Paired,
     OwnSubmissions, ListsSaved

\* Whoever has the same entries as before is as paired as before.
LEMMA KeptPaired ==
    ASSUME NEW p, Kept(p), Paired(p)
    PROVE  Paired(p)'
  BY DEF Kept, Paired

\* Every step keeps the pairing: transactions by ListStep, a restart because
\* the database holds whatever memory does, so that the participants whose
\* entries it changes are resurrected ones.
LEMMA NextPair ==
    ASSUME TypeInv, PairInv, [DomainNext]_domainVars
    PROVE  PairInv'
  <1>1. ASSUME UNCHANGED <<submissions, participants, resurrected>>
        PROVE  PairedUnlessResurrected'
    BY <1>1 DEF PairInv, PairedUnlessResurrected, Paired, OwnSubmissions
  <1>2. CASE Quiet
    BY <1>1, <1>2 DEF Quiet, baseVars, lists, host, history, PairInv, ListsSaved
  <1>3. CASE OperatorNewBucket
    BY <1>1, <1>3 DEF OperatorNewBucket, NewBucket, CreatePeriod, lists, host,
       Idle, PairInv, ListsSaved
  <1>4. CASE BeginBlock
    BY <1>1, <1>4 DEF BeginBlock, RecordBeacon, lists, history, Idle, PairInv,
       ListsSaved
  <1>5. CASE \E t \in Txs : CheckTx(t)
    BY <1>1, <1>5 DEF CheckTx, baseVars, lists, PairInv, ListsSaved
  <1>6. ASSUME NEW t \in Txs, DeliverTx(t) PROVE PairInv'
    <2>1. BaseStep(t)
      BY <1>6, ExecuteBase
    <2>2. resurrected' = resurrected /\ inBlock /\ inBlock'
      BY <1>6 DEF DeliverTx, Note
    <2>3. PairedUnlessResurrected'
      <3>1. ASSUME NEW p \in Participants \ resurrected PROVE Paired(p)'
        <4>1. Paired(p)
          BY <3>1 DEF PairInv, PairedUnlessResurrected
        <4> QED
          BY <4>1, <2>1, ListStep, KeptPaired
      <3> QED
        BY <2>2, <3>1 DEF PairedUnlessResurrected
    <2>4. ListsSaved'
      BY <2>1, <2>2, BaseFrame DEF PairInv, ListsSaved
    <2> QED
      BY <2>3, <2>4 DEF PairInv
  <1>7. CASE EndBlock
    <2>1. UNCHANGED <<submissions, participants, resurrected>>
      BY <1>7 DEF EndBlock, Commit, lists
    <2>2. ListsSaved'
      BY <1>7 DEF EndBlock, Commit, lists, Persisted, PairInv, ListsSaved,
         TypeInv, DomainTypeOK, BaseTypeOK
    <2> QED
      BY <1>1, <2>1, <2>2 DEF PairInv
  <1>8. CASE Restart
    <2>1. /\ submissions' = db.submissions /\ participants' = db.participants
          /\ db' = db /\ submissions \subseteq db.submissions
          /\ participants \subseteq db.participants
          /\ resurrected' = resurrected
                 \cup {Owner[s] : s \in db.submissions \ submissions}
                 \cup (db.participants \ participants)
      BY <1>8 DEF Restart, LoadState, Idle, PairInv, ListsSaved
    <2>2. ASSUME NEW p \in Participants \ resurrected' PROVE Paired(p)'
      <3>1. Kept(p)
        BY <2>1, <2>2 DEF Kept, OwnSubmissions
      <3> QED
        BY <3>1, <2>1, <2>2, KeptPaired DEF PairInv, PairedUnlessResurrected
    <2> QED
      BY <2>1, <2>2 DEF PairInv, PairedUnlessResurrected, ListsSaved
  <1> QED
    BY StepKinds, <1>2, <1>3, <1>4, <1>5, <1>6, <1>7, <1>8

\* In any order of transactions, within a block too, a participant is on List
\* 2 exactly when one of their submissions is on List 1; a restart breaks that
\* only for participants whose deleted entries it brings back.
THEOREM PairedAlways == DomainSpec => []PairedUnlessResurrected
  <1>1. PairInv => PairedUnlessResurrected
    BY DEF PairInv
  <1>2. DomainInit => TypeInv /\ PairInv
    BY InitTypes, InitPair
  <1>3. TypeInv /\ PairInv /\ [DomainNext]_domainVars => (TypeInv /\ PairInv)'
    BY NextTypes, NextPair
  <1> QED
    BY <1>1, <1>2, <1>3, PTL DEF DomainSpec

-----------------------------------------------------------------------------
(* The period and its closure                                               *)

\* No period has been created, so none is closed.
LEMMA InitPeriod == DomainInit => PeriodInv
  BY DEF DomainInit, BaseInit, PeriodInv, NoPeriod

\* Every step keeps PeriodInv.
LEMMA NextPeriod ==
    ASSUME TypeInv, PeriodInv, [DomainNext]_domainVars
    PROVE  PeriodInv'
  <1> USE DEF PeriodInv
  <1>0. /\ period \in Periods /\ db \in Databases
        /\ submissions \in SUBSET Submissions /\ participants \in SUBSET Participants
        /\ dirty \in BOOLEAN
    BY DEF TypeInv, BaseTypes, BaseTypeOK
  <1>1. CASE Quiet
    BY <1>1 DEF Quiet, baseVars, host
  <1>2. CASE OperatorNewBucket
    BY <1>0, <1>2 DEF OperatorNewBucket, NewBucket, CreatePeriod, host, Idle, Periods
  <1>3. CASE BeginBlock
    BY <1>3 DEF BeginBlock, RecordBeacon, Idle
  <1>4. CASE \E t \in Txs : CheckTx(t)
    BY <1>4 DEF CheckTx, baseVars
  <1>5. ASSUME NEW t \in Txs, DeliverTx(t) PROVE PeriodInv'
    <2>1. BaseStep(t) /\ inBlock /\ inBlock'
      BY <1>5, ExecuteBase DEF DeliverTx
    <2>2. Attested(submissions, participants) # None
      BY <1>0, AttestedType
    <2>3. CASE UNCHANGED <<period, closure>>
      BY <1>0, <2>1, <2>3, BaseFrame
    <2>4. CASE /\ period.status = "none" /\ period'.status = "open"
               /\ UNCHANGED closure
      BY <1>0, <2>1, <2>4, BaseFrame
    <2>5. CASE /\ CanClose /\ period'.status = "closed"
               /\ closure' = Attested(submissions, participants)
      BY <1>0, <2>1, <2>2, <2>5, BaseFrame DEF CanClose
    <2> QED
      BY <2>1, <2>3, <2>4, <2>5, BaseFrame
  <1>6. CASE EndBlock
    <2>1. UNCHANGED <<period, closure>> /\ dirty' = FALSE /\ inBlock' = FALSE
      BY <1>6 DEF EndBlock, Commit
    <2>2. CASE dirty
      <3>1. /\ db'.period = (IF period.status = "none" THEN db.period ELSE period)
            /\ db'.closure = (IF closure = None THEN db.closure ELSE closure)
        BY <1>6, <2>2 DEF EndBlock, Commit, Persisted
      <3> QED
        BY <1>0, <2>1, <3>1
    <2>3. CASE ~ dirty
      BY <1>6, <2>1, <2>3 DEF EndBlock, Commit
    <2> QED
      BY <2>2, <2>3
  <1>7. CASE Restart
    BY <1>0, <1>7 DEF Restart, LoadState, Idle
  <1> QED
    BY StepKinds, <1>1, <1>2, <1>3, <1>4, <1>5, <1>6, <1>7

\* A restart loses nothing that was committed: with nothing pending, period
\* and closure are as before and the lists can only grow; and when no deleted
\* entry and no removed validator comes back, the app hash is the same.
THEOREM RestartKeeps == DomainSpec => RestartKeepsCommitted
  <1> DEFINE I == TypeInv /\ PairInv /\ PeriodInv
  <1>1. DomainInit => I
    BY InitTypes, InitPair, InitPeriod
  <1>2. I /\ [DomainNext]_domainVars => I'
    BY NextTypes, NextPair, NextPeriod
  <1>3. I /\ [DomainNext]_domainVars =>
           [restarts' # restarts /\ ~ dirty =>
              /\ period' = period /\ closure' = closure
              /\ submissions \subseteq submissions'
              /\ participants \subseteq participants'
              /\ resurrected' = {} /\ ghosts' = {} => Hashed' = Hashed]_domainVars
    <2> SUFFICES ASSUME I, [DomainNext]_domainVars, restarts' # restarts, ~ dirty
                 PROVE  /\ period' = period /\ closure' = closure
                        /\ submissions \subseteq submissions'
                        /\ participants \subseteq participants'
                        /\ resurrected' = {} /\ ghosts' = {} => Hashed' = Hashed
      OBVIOUS
    <2>1. Restart
      BY StepKinds DEF Quiet, host, OperatorNewBucket, BeginBlock, EndBlock,
         CheckTx, DeliverTx
    <2>2. /\ period' = db.period /\ closure' = db.closure
          /\ submissions' = db.submissions /\ participants' = db.participants
          /\ validators' = db.validators /\ ~ inBlock
      BY <2>1 DEF Restart, LoadState, Idle
    <2>3. period' = period /\ closure' = closure
      BY <2>2 DEF PeriodInv
    <2>4. submissions \subseteq submissions' /\ participants \subseteq participants'
      BY <2>2 DEF PairInv, ListsSaved
    <2>5. ASSUME resurrected' = {}, ghosts' = {} PROVE Hashed' = Hashed
      <3>1. submissions' = submissions /\ participants' = participants
        BY <2>1, <2>2, <2>4, <2>5 DEF Restart
      <3>2. validators' = validators
        <4>1. /\ validators \in [ValidatorKeys -> Powers \cup {0}]
              /\ db.validators \in [ValidatorKeys -> Powers \cup {0}]
          BY DEF TypeInv, BaseTypes, BaseTypeOK, Databases
        <4>2. \A k \in ValidatorKeys : db.validators[k] = validators[k]
          BY <2>1, <2>5 DEF Restart
        <4> QED
          BY <2>2, <4>1, <4>2
      <3> QED
        BY <2>3, <3>1, <3>2 DEF Hashed
    <2> QED
      BY <2>3, <2>4, <2>5
  <1> QED
    BY <1>1, <1>2, <1>3, PTL DEF DomainSpec, RestartKeepsCommitted

\* What changes list entries passes CheckTx only while the period is open.
LEMMA ValidOpen ==
    ASSUME NEW t \in Txs, ValidateTx(t), t.type \in ListTypes
    PROVE  period.status = "open"
  <1>1. CASE domain = "shychat"
    BY <1>1, TxTypes DEF Txs, ChatTxs, ValidateTx, ChatValidateTx, ListTypes,
       ValidateMessageDispatch, ValidateMessageUpdate, ValidateMessageWithdraw
  <1>2. CASE domain # "shychat"
    BY <1>2, TxTypes DEF Txs, StoreTxs, ValidateTx, StoreValidateTx, ListTypes,
       ValidateSecretStore, ValidateSecretRotate
  <1> QED
    BY <1>1, <1>2

\* The closure commits to the entries of whoever keeps them.
LEMMA KeptCommitted ==
    ASSUME ClosureCommitsLists, closure # None, closure' = closure,
           NEW p \in Participants \ (late \cup resurrected), Kept(p)
    PROVE  /\ p \in participants' <=> p \in closure'.l2
           /\ OwnSubmissions(p)' = {s \in closure'.l1 : Owner[s] = p}
  BY DEF ClosureCommitsLists, Kept

\* There is no closure yet to disagree with the lists.
LEMMA InitClosure == DomainInit => ClosureInv
  BY DEF DomainInit, BaseInit, ClosureInv, ClosureCommitsLists

\* Every step keeps ClosureInv.
LEMMA NextClosure ==
    ASSUME TypeInv, PairInv, PeriodInv, ClosureInv, [DomainNext]_domainVars
    PROVE  ClosureInv'
  <1>1. ASSUME UNCHANGED <<submissions, participants, closure, late, resurrected>>
        PROVE  ClosureCommitsLists'
    BY <1>1 DEF ClosureInv, ClosureCommitsLists, OwnSubmissions
  <1>2. CASE Quiet
    BY <1>1, <1>2 DEF Quiet, baseVars, lists, host, history, ClosureInv
  <1>3. CASE OperatorNewBucket
    BY <1>1, <1>3 DEF OperatorNewBucket, NewBucket, CreatePeriod, lists, host,
       ClosureInv
  <1>4. CASE BeginBlock
    BY <1>1, <1>4 DEF BeginBlock, RecordBeacon, lists, history, Idle, ClosureInv
  <1>5. ASSUME NEW t \in Txs, CheckTx(t) PROVE ClosureInv'
    <2>1. t.type \in ListTypes => closure = None
      BY <1>5, ValidOpen DEF CheckTx, PeriodInv
    <2> QED
      BY <1>1, <1>5, <2>1 DEF CheckTx, baseVars, lists, ClosureInv
  <1>6. ASSUME NEW t \in Txs, DeliverTx(t) PROVE ClosureInv'
    <2>1. BaseStep(t)
      BY <1>6, ExecuteBase
    <2>2. /\ inBlock /\ inBlock' /\ blocks' = blocks /\ t \in mempool
          /\ mempool' \subseteq mempool /\ resurrected' = resurrected
          /\ closedIn' = (IF closure = None /\ closure' # None THEN blocks
                          ELSE closedIn)
      BY <1>6 DEF DeliverTx, Note
    <2>3. CASE closure' = None
      BY <2>3 DEF ClosureInv, ClosureCommitsLists
    <2>4. CASE closure = None /\ closure' # None
      <3>1. /\ closure' = Attested(submissions, participants)
            /\ UNCHANGED <<submissions, participants>>
        BY <2>1, <2>4, BaseFrame
      <3>2. /\ closure'.l1 = submissions' /\ closure'.l2 = participants'
        BY <3>1 DEF Attested
      <3>3. ClosureCommitsLists'
        BY <3>2 DEF ClosureCommitsLists, OwnSubmissions
      <3> QED
        BY <2>2, <2>4, <3>3 DEF ClosureInv
    <2>5. CASE closure # None /\ closure' # None
      <3>1. closure' = closure
        BY <2>1, <2>5, BaseFrame DEF CanClose
      <3>2. ASSUME NEW p \in Participants \ (late' \cup resurrected')
            PROVE  p \in Participants \ (late \cup resurrected) /\ Kept(p)
        <4>1. p \in Participants \ (late \cup resurrected)
          BY <1>6, <2>2, <3>2 DEF DeliverTx, Note
        <4>2. CASE closedIn = blocks
          <5>1. t.type \in ListTypes => p # Writer(t)
            BY <1>6, <2>5, <3>2, <4>2 DEF DeliverTx, Note, ListTypes, Writer
          <5> QED
            BY <2>1, <4>1, <5>1, ListStep
        <4>3. CASE closedIn # blocks
          <5>1. t.type \notin ListTypes
            BY <2>2, <2>5, <4>3 DEF ClosureInv
          <5> QED
            BY <2>1, <4>1, <5>1, ListStep
        <4> QED
          BY <4>1, <4>2, <4>3
      <3>3. ClosureCommitsLists'
        BY <2>5, <3>1, <3>2, KeptCommitted DEF ClosureInv, ClosureCommitsLists
      <3> QED
        BY <2>2, <2>5, <3>1, <3>3 DEF ClosureInv
    <2> QED
      BY <2>3, <2>4, <2>5
  <1>7. CASE EndBlock
    <2>1. UNCHANGED <<submissions, participants, closure, late, resurrected>>
      BY <1>7 DEF EndBlock, Commit, lists
    <2>2. mempool' = {t \in mempool : ValidateTx(t)} /\ mempool \subseteq Txs
      BY <1>7 DEF EndBlock, TypeInv, DomainTypeOK
    <2>3. closure # None => \A t \in mempool' : t.type \notin ListTypes
      BY <2>2, ValidOpen DEF PeriodInv
    <2> QED
      BY <1>1, <2>1, <2>3 DEF ClosureInv
  <1>8. CASE Restart
    <2>1. /\ submissions' = db.submissions /\ participants' = db.participants
          /\ closure' = db.closure /\ closure = db.closure
          /\ submissions \subseteq db.submissions
          /\ participants \subseteq db.participants
          /\ resurrected' = resurrected
                 \cup {Owner[s] : s \in db.submissions \ submissions}
                 \cup (db.participants \ participants)
          /\ late' = late /\ mempool' = {}
      BY <1>8 DEF Restart, LoadState, Idle, PairInv, ListsSaved, PeriodInv
    <2>2. ASSUME NEW p \in Participants \ (late' \cup resurrected')
          PROVE  p \in Participants \ (late \cup resurrected) /\ Kept(p)
      BY <2>1, <2>2 DEF Kept, OwnSubmissions
    <2>3. ClosureCommitsLists'
      BY <2>1, <2>2, KeptCommitted DEF ClosureInv, ClosureCommitsLists
    <2> QED
      BY <2>1, <2>3 DEF ClosureInv
  <1> QED
    BY StepKinds, <1>2, <1>3, <1>4, <1>5, <1>6, <1>7, <1>8

\* A closure record commits to the lists for good: nobody's entries change
\* afterwards, but for transactions executed after the close in its own block
\* and for entries a restart brings back.
THEOREM ClosureCommits == DomainSpec => []ClosureCommitsLists
  <1> DEFINE I == TypeInv /\ PairInv /\ PeriodInv /\ ClosureInv
  <1>1. I => ClosureCommitsLists
    BY DEF ClosureInv
  <1>2. DomainInit => I
    BY InitTypes, InitPair, InitPeriod, InitClosure
  <1>3. I /\ [DomainNext]_domainVars => I'
    BY NextTypes, NextPair, NextPeriod, NextClosure
  <1> QED
    BY <1>1, <1>2, <1>3, PTL DEF DomainSpec

-----------------------------------------------------------------------------
(* Rolling checkpoints                                                      *)

\* Lists in which everybody is paired have the same size: sending each
\* submission to its owner is a bijection.
LEMMA PairedCounts ==
    ASSUME NEW S \in SUBSET Submissions, NEW P \in SUBSET Participants,
           \A p \in Participants :
              IF p \in P THEN Cardinality({s \in S : Owner[s] = p}) = 1
                         ELSE {s \in S : Owner[s] = p} = {}
    PROVE  Cardinality(S) = Cardinality(P)
  <1> DEFINE own(p) == {s \in S : Owner[s] = p}
             f == [s \in S |-> Owner[s]]
  <1>1. Owner \in [Submissions -> Participants]
    BY Constants
  <1>2. f \in [S -> P]
    BY <1>1
  <1>3. ASSUME NEW p \in P PROVE \E s : own(p) = {s}
    <2>1. own(p) \in SUBSET Submissions /\ Cardinality(own(p)) = 1
      OBVIOUS
    <2> HIDE DEF own
    <2> QED
      BY <2>1, PairedForm
  <1>4. \A a, b \in S : f[a] = f[b] => a = b
    <2> SUFFICES ASSUME NEW a \in S, NEW b \in S, f[a] = f[b] PROVE a = b
      OBVIOUS
    <2>1. a \in own(f[a]) /\ b \in own(f[a]) /\ f[a] \in P
      BY <1>2
    <2> QED
      BY <1>3, <2>1
  <1>5. \A p \in P : \E s \in S : f[s] = p
    BY <1>3
  <1> HIDE DEF f
  <1>6. f \in Bijection(S, P)
    BY <1>2, <1>4, <1>5 DEF Bijection, Injection, Surjection, IsInjective
  <1> QED
    BY <1>6, SubmissionSets, FS_Bijection DEF ExistsBijection

\* No submission has been counted or attested.
LEMMA InitCadence == DomainInit => CheckpointCadence
  <1> SUFFICES ASSUME DomainInit PROVE CheckpointCadence
    OBVIOUS
  <1>1. accepted = 0 /\ checkpoints = <<>> /\ submissionCount = 0
    BY DEF DomainInit, BaseInit
  <1> QED
    BY <1>1, Constants DEF CheckpointCadence

\* Every step keeps the cadence; only SubmitToLists counts, and by the pairing
\* its CountMatches never fails.
LEMMA NextCadence ==
    ASSUME TypeInv, PairInv, PairInv', CheckpointCadence, [DomainNext]_domainVars
    PROVE  CheckpointCadence'
  <1>1. ASSUME UNCHANGED <<checkpoints, submissionCount, accepted, resurrected>>
        PROVE  CheckpointCadence'
    BY <1>1 DEF CheckpointCadence
  <1>2. CASE Quiet
    BY <1>1, <1>2 DEF Quiet, baseVars, rolling, history
  <1>3. CASE OperatorNewBucket
    BY <1>1, <1>3 DEF OperatorNewBucket, NewBucket, CreatePeriod, rolling
  <1>4. CASE BeginBlock
    BY <1>1, <1>4 DEF BeginBlock, RecordBeacon, rolling, history
  <1>5. CASE \E t \in Txs : CheckTx(t)
    BY <1>1, <1>5 DEF CheckTx, baseVars, rolling
  <1>6. ASSUME NEW t \in Txs, DeliverTx(t) PROVE CheckpointCadence'
    <2>1. BaseStep(t) /\ resurrected' = resurrected
      BY <1>6, ExecuteBase DEF DeliverTx, Note
    <2>2. accepted' = (IF participants' \ participants # {} THEN accepted + 1
                       ELSE accepted)
      BY <1>6 DEF DeliverTx, Note
    <2>3. ASSUME UNCHANGED <<checkpoints, submissionCount>>,
                 participants' \subseteq participants
          PROVE  CheckpointCadence'
      BY <1>1, <2>1, <2>2, <2>3
    <2>4. ASSUME t.new \in Submissions, SubmitToLists(t.new, Owner[t.new])
          PROVE  CheckpointCadence'
      <3>1. CASE UNCHANGED baseVars
        BY <2>3, <3>1 DEF baseVars, rolling, lists
      <3>2. CASE ~ UNCHANGED baseVars
        <4> SUFFICES ASSUME AttestationMode = "rolling", resurrected = {}
                     PROVE  CheckpointCadence'
          BY <2>1 DEF CheckpointCadence
        <4>1. /\ submissions' = submissions \cup {t.new}
              /\ participants' = participants \cup {Owner[t.new]}
              /\ Owner[t.new] \notin participants
              /\ submissionCount' =
                    (IF submissionCount + 1 >= RollingThreshold THEN 0
                     ELSE submissionCount + 1)
              /\ checkpoints' =
                    (IF submissionCount + 1 >= RollingThreshold
                        /\ CountMatches(submissions', participants')
                     THEN Append(checkpoints, Attested(submissions', participants'))
                     ELSE checkpoints)
          BY <2>4, <3>2 DEF SubmitToLists
        <4>2. accepted' = accepted + 1
          BY <2>2, <4>1
        <4>3. /\ submissions' \in SUBSET Submissions
              /\ participants' \in SUBSET Participants
          BY <2>4, <4>1, Constants DEF TypeInv, DomainTypeOK, BaseTypeOK
        <4>4. \A p \in Participants : Paired(p)'
          BY <2>1 DEF PairInv, PairedUnlessResurrected
        <4>5. CountMatches(submissions', participants')
          <5>1. Cardinality(submissions') = Cardinality(participants')
            BY <4>3, <4>4, PairedCounts DEF Paired, OwnSubmissions
          <5> QED
            BY <5>1 DEF CountMatches
        <4>6. /\ accepted = RollingThreshold * Len(checkpoints) + submissionCount
              /\ \A i \in 1..Len(checkpoints) :
                    Cardinality(checkpoints[i].l2) = checkpoints[i].total
          BY DEF CheckpointCadence
        <4>7. /\ checkpoints \in Seq(Attestations) /\ submissionCount \in Nat
              /\ submissionCount < RollingThreshold /\ accepted \in Nat
              /\ RollingThreshold \in Nat
          BY Constants DEF TypeInv, BaseTypes, BaseTypeOK
        <4>8. CASE submissionCount + 1 >= RollingThreshold
          <5> DEFINE c == Attested(submissions', participants')
          <5>1. c.total = Cardinality(submissions') /\ c.l2 = participants'
            BY DEF Attested
          <5>2. c \in Attestations
            BY <4>3, AttestedType
          <5> HIDE DEF c
          <5>3. checkpoints' = Append(checkpoints, c) /\ submissionCount' = 0
            BY <4>1, <4>5, <4>8 DEF c
          <5>4. Len(checkpoints') = Len(checkpoints) + 1 /\ Len(checkpoints) \in Nat
            BY <4>7, <5>2, <5>3
          <5>5. \A n \in Nat : RollingThreshold * (n + 1)
                                  = RollingThreshold * n + RollingThreshold
            BY <4>7
          <5>6. RollingThreshold * Len(checkpoints')
                   = RollingThreshold * Len(checkpoints) + RollingThreshold
            BY <5>4, <5>5
          <5>7. accepted' = RollingThreshold * Len(checkpoints') + submissionCount'
            <6>1. RollingThreshold * Len(checkpoints) \in Nat
              BY <4>7, <5>4
            <6> QED
              BY <4>2, <4>6, <4>7, <4>8, <5>3, <5>6, <6>1
          <5>8. ASSUME NEW i \in 1..Len(checkpoints')
                PROVE  Cardinality(checkpoints'[i].l2) = checkpoints'[i].total
            <6>1. CASE i \in 1..Len(checkpoints)
              BY <4>6, <4>7, <5>2, <5>3, <6>1
            <6>2. CASE i = Len(checkpoints) + 1
              BY <4>5, <4>7, <5>1, <5>2, <5>3, <6>2 DEF CountMatches
            <6> QED
              BY <5>4, <5>8, <6>1, <6>2
          <5> QED
            BY <5>7, <5>8 DEF CheckpointCadence
        <4>9. CASE ~ (submissionCount + 1 >= RollingThreshold)
          <5>1. checkpoints' = checkpoints /\ submissionCount' = submissionCount + 1
            BY <4>1, <4>9
          <5>2. RollingThreshold * Len(checkpoints) \in Nat
            BY <4>7
          <5>3. accepted' = RollingThreshold * Len(checkpoints') + submissionCount'
            BY <4>2, <4>6, <4>7, <5>1, <5>2
          <5> QED
            BY <4>6, <5>1, <5>3 DEF CheckpointCadence
        <4> QED
          BY <4>8, <4>9
      <3> QED
        BY <3>1, <3>2
    <2>5. CASE ~ (t.new \in Submissions /\ SubmitToLists(t.new, Owner[t.new]))
      BY <2>1, <2>3, <2>5 DEF BaseStep, baseVars, rolling, lists, CreatePeriod,
         UpdateSubmission, WithdrawFromLists, ClosePeriod, RegisterValidator
    <2> QED
      BY <2>4, <2>5
  <1>7. CASE EndBlock
    BY <1>1, <1>7 DEF EndBlock, Commit, rolling
  <1>8. CASE Restart
    <2>1. accepted' = 0 /\ checkpoints' = <<>> /\ submissionCount' = 0
      BY <1>8 DEF Restart, LoadState
    <2> QED
      BY <2>1, Constants DEF CheckpointCadence
  <1> QED
    BY StepKinds, <1>2, <1>3, <1>4, <1>5, <1>6, <1>7, <1>8

\* In the rolling mode a checkpoint is taken on exactly every
\* RollingThreshold-th accepted submission since the start, and attests lists
\* of the same size, as long as nothing was resurrected.
THEOREM Cadence == DomainSpec => []CheckpointCadence
  <1> DEFINE I == TypeInv /\ PairInv /\ CheckpointCadence
  <1>1. DomainInit => I
    BY InitTypes, InitPair, InitCadence
  <1>2. I /\ [DomainNext]_domainVars => I'
    BY NextTypes, NextPair, NextCadence
  <1> QED
    BY <1>1, <1>2, PTL DEF DomainSpec

-----------------------------------------------------------------------------
(* Validators                                                               *)

\* The application starts with the validators of the genesis set.
LEMMA InitValidator == DomainInit => ValidatorInv
  BY DEF DomainInit, BaseInit, ValidatorInv

\* Every step keeps ValidatorInv.
LEMMA NextValidator ==
    ASSUME TypeInv, ValidatorInv, [DomainNext]_domainVars
    PROVE  ValidatorInv'
  <1>1. ASSUME UNCHANGED <<validators, pendingUpdates, comet, halted, touched, ghosts>>,
               inBlock' = inBlock \/ inBlock'
        PROVE  ValidatorInv'
    BY <1>1 DEF ValidatorInv
  <1>2. CASE Quiet
    BY <1>1, <1>2 DEF Quiet, baseVars, power, host, history
  <1>3. CASE OperatorNewBucket
    BY <1>1, <1>3 DEF OperatorNewBucket, NewBucket, CreatePeriod, power, host
  <1>4. CASE BeginBlock
    BY <1>1, <1>4 DEF BeginBlock, RecordBeacon, power, history
  <1>5. CASE \E t \in Txs : CheckTx(t)
    BY <1>1, <1>5 DEF CheckTx, baseVars, power
  <1>6. ASSUME NEW t \in Txs, DeliverTx(t) PROVE ValidatorInv'
    <2>1. BaseStep(t) /\ inBlock' /\ UNCHANGED <<comet, halted, ghosts>>
      BY <1>6, ExecuteBase DEF DeliverTx, Note
    <2>2. CASE t.type \in {"ChatValidator", "StoreValidator"}
      <3>1. /\ t.key \in ValidatorKeys /\ t.power \in Powers
            /\ RegisterValidator(t.key, t.power)
        BY <2>1, <2>2 DEF BaseStep
      <3>2. touched' = touched \cup {t.key}
        BY <1>6, <2>2 DEF DeliverTx, Note
      <3> DEFINE u == [key |-> t.key, power |-> t.power]
      <3>3. u \in Updates /\ u.key = t.key /\ u.power = t.power
        BY <3>1 DEF Updates
      <3> HIDE DEF u
      <3>4. /\ pendingUpdates \in Seq(Updates)
            /\ validators \in [ValidatorKeys -> Powers \cup {0}]
        BY DEF TypeInv, BaseTypes, BaseTypeOK
      <3>5. /\ pendingUpdates' = Append(pendingUpdates, u)
            /\ validators' = [validators EXCEPT ![t.key] = t.power]
        BY <3>1 DEF RegisterValidator, u
      <3>6. /\ Len(pendingUpdates') = Len(pendingUpdates) + 1
            /\ Len(pendingUpdates) \in Nat
            /\ pendingUpdates'[Len(pendingUpdates) + 1] = u
            /\ \A i \in 1..Len(pendingUpdates) :
                  pendingUpdates'[i] = pendingUpdates[i]
        BY <3>3, <3>4, <3>5
      <3>7. touched' \subseteq ValidatorKeys
            /\ \A i \in 1..Len(pendingUpdates') : pendingUpdates'[i].key \in touched'
        BY <3>1, <3>2, <3>3, <3>6 DEF ValidatorInv
      <3>8. ASSUME ~ halted, NEW k \in touched' \ ghosts, k # t.key
            PROVE  /\ (\A i \in 1..Len(pendingUpdates') : pendingUpdates'[i].key # k)
                        => validators'[k] = comet[k]
                   /\ \A i \in 1..Len(pendingUpdates') :
                        /\ pendingUpdates'[i].key = k
                        /\ \A j \in 1..Len(pendingUpdates') :
                              pendingUpdates'[j].key = k => j = i
                        => validators'[k] = pendingUpdates'[i].power
        <4>1. k \in touched \ ghosts /\ k \in ValidatorKeys
              /\ validators'[k] = validators[k]
          BY <3>2, <3>4, <3>5, <3>7, <3>8
        <4> QED
          BY <3>3, <3>6, <3>8, <4>1 DEF ValidatorInv
      <3>9. /\ \E i \in 1..Len(pendingUpdates') : pendingUpdates'[i].key = t.key
            /\ \A i \in 1..Len(pendingUpdates') :
                  /\ pendingUpdates'[i].key = t.key
                  /\ \A j \in 1..Len(pendingUpdates') :
                        pendingUpdates'[j].key = t.key => j = i
                  => validators'[t.key] = pendingUpdates'[i].power
        <4>1. validators'[t.key] = t.power
          BY <3>1, <3>4, <3>5
        <4> QED
          BY <3>3, <3>6, <4>1
      <3> QED
        BY <2>1, <3>7, <3>8, <3>9 DEF ValidatorInv
    <2>3. CASE t.type \notin {"ChatValidator", "StoreValidator"}
      <3>1. UNCHANGED power
        BY <2>1, <2>3 DEF BaseStep, baseVars, CreatePeriod, SubmitToLists,
           UpdateSubmission, WithdrawFromLists, ClosePeriod
      <3>2. touched' = touched
        BY <1>6, <2>3 DEF DeliverTx, Note
      <3> QED
        BY <1>1, <2>1, <3>1, <3>2 DEF power
    <2> QED
      BY <2>2, <2>3
  <1>7. CASE EndBlock
    <2>1. /\ pendingUpdates' = <<>> /\ UNCHANGED <<validators, touched, ghosts>>
      BY <1>7 DEF EndBlock, Commit
    <2>2. Len(pendingUpdates') = 0
      BY <2>1
    <2>3. ASSUME ~ halted', NEW k \in touched \ ghosts
          PROVE  validators[k] = comet'[k]
      <3>1. UpdatesAcceptable(pendingUpdates) /\ ~ halted
            /\ comet' = UpdatedSet(pendingUpdates)
        BY <1>7, <2>3 DEF EndBlock
      <3>2. k \in ValidatorKeys
        BY DEF ValidatorInv
      <3>3. CASE \E i \in 1..Len(pendingUpdates) : pendingUpdates[i].key = k
        <4> DEFINE i == CHOOSE i \in 1..Len(pendingUpdates) : pendingUpdates[i].key = k
        <4>1. i \in 1..Len(pendingUpdates) /\ pendingUpdates[i].key = k
          BY <3>3
        <4>2. comet'[k] = pendingUpdates[i].power
          BY <3>1, <3>2, <3>3 DEF UpdatedSet
        <4> HIDE DEF i
        <4>3. \A j \in 1..Len(pendingUpdates) : pendingUpdates[j].key = k => j = i
          BY <3>1, <4>1 DEF UpdatesAcceptable
        <4> QED
          BY <2>3, <3>1, <4>1, <4>2, <4>3 DEF ValidatorInv
      <3>4. CASE ~ \E i \in 1..Len(pendingUpdates) : pendingUpdates[i].key = k
        <4>1. comet'[k] = comet[k]
          BY <3>1, <3>2, <3>4 DEF UpdatedSet
        <4> QED
          BY <3>1, <3>4, <4>1 DEF ValidatorInv
      <3> QED
        BY <3>3, <3>4
    <2> QED
      BY <2>1, <2>2, <2>3 DEF ValidatorInv
  <1>8. CASE Restart
    <2>1. /\ pendingUpdates = <<>> /\ ~ halted /\ ~ inBlock
          /\ pendingUpdates' = <<>> /\ validators' = db.validators
          /\ UNCHANGED <<inBlock, comet, halted, touched>>
          /\ ghosts' = ghosts
                 \cup {k \in ValidatorKeys : db.validators[k] # validators[k]}
      BY <1>8 DEF Restart, LoadState, Idle, ValidatorInv
    <2>2. Len(pendingUpdates) = 0 /\ Len(pendingUpdates') = 0
      BY <2>1
    <2>3. ASSUME NEW k \in touched \ ghosts' PROVE validators'[k] = comet[k]
      BY <2>1, <2>2, <2>3 DEF ValidatorInv
    <2> QED
      BY <2>1, <2>2, <2>3 DEF ValidatorInv
  <1> QED
    BY StepKinds, <1>2, <1>3, <1>4, <1>5, <1>6, <1>7, <1>8

\* Between blocks the powers the state machine recorded are CometBFT's, for
\* every key a transaction ever registered or removed, whatever the order and
\* the number of registrations, unless CometBFT refused a block's updates or
\* a restart brought a removed validator back.
THEOREM Mirrored == DomainSpec => []ValidatorsMirrored
  <1> DEFINE I == TypeInv /\ ValidatorInv
  <1>1. I => ValidatorsMirrored
    <2> SUFFICES ASSUME I, Idle PROVE \A k \in touched \ ghosts : validators[k] = comet[k]
      BY DEF ValidatorsMirrored
    <2>1. Len(pendingUpdates) = 0 /\ ~ halted
      BY DEF Idle, ValidatorInv
    <2> QED
      BY <2>1 DEF ValidatorInv
  <1>2. DomainInit => I
    BY InitTypes, InitValidator
  <1>3. I /\ [DomainNext]_domainVars => I'
    BY NextTypes, NextValidator
  <1> QED
    BY <1>1, <1>2, <1>3, PTL DEF DomainSpec

-----------------------------------------------------------------------------
(* Deliveries of shychat                                                    *)

\* What a chat transaction does to the delivery record: only a close that
\* succeeds writes one, from its closure.
LEMMA ChatStep ==
    ASSUME NEW t \in Txs, DeliverTx(t), domain = "shychat"
    PROVE  \/ delivery' = delivery /\ (closure' = closure \/ ~ CanClose)
           \/ /\ CanClose /\ closure' = Attested(submissions, participants)
              /\ delivery' = [total |-> closure'.total, surface |-> mailbox]
  <1>1. ChatExecuteTx(t)
    BY DEF DeliverTx
  <1>2. CASE t.type = "MailboxClose"
    BY <1>1, <1>2 DEF ChatExecuteTx, ExecuteMailboxClose, ClosePeriod
  <1>3. CASE t.type # "MailboxClose"
    BY <1>1, <1>3 DEF ChatExecuteTx, ExecuteMailboxCreate, ExecuteMessageDispatch,
       ExecuteMessageUpdate, ExecuteMessageWithdraw, chatVars, CreatePeriod,
       SubmitToLists, UpdateSubmission, WithdrawFromLists, RegisterValidator,
       baseVars
  <1> QED
    BY <1>2, <1>3

\* Every step keeps the delivery record and the closure together.
LEMMA NextDelivery ==
    ASSUME TypeInv, DeliveryRepeatsClosure, [DomainNext]_domainVars
    PROVE  DeliveryRepeatsClosure'
  <1>1. ASSUME UNCHANGED <<domain, delivery, closure, restarts>>
        PROVE  DeliveryRepeatsClosure'
    BY <1>1 DEF DeliveryRepeatsClosure
  <1>2. CASE Quiet
    BY <1>1, <1>2 DEF Quiet, node, baseVars, chatVars, host
  <1>3. CASE OperatorNewBucket
    BY <1>1, <1>3 DEF OperatorNewBucket, NewBucket, CreatePeriod, node, chatVars, host
  <1>4. CASE BeginBlock
    BY <1>1, <1>4 DEF BeginBlock, RecordBeacon, node, chatVars
  <1>5. CASE \E t \in Txs : CheckTx(t)
    BY <1>1, <1>5 DEF CheckTx, baseVars, node, chatVars
  <1>6. ASSUME NEW t \in Txs, DeliverTx(t), domain = "shychat"
        PROVE  DeliveryRepeatsClosure'
    <2>1. BaseStep(t) /\ UNCHANGED <<domain, restarts>>
      BY <1>6, ExecuteBase DEF DeliverTx, node
    <2>2. CASE delivery' = delivery /\ (closure' = closure \/ ~ CanClose)
      <3>1. closure' = closure
        BY <2>1, <2>2, BaseFrame
      <3> QED
        BY <1>1, <2>1, <2>2, <3>1
    <2>3. CASE /\ CanClose /\ closure' = Attested(submissions, participants)
               /\ delivery' = [total |-> closure'.total, surface |-> mailbox]
      <3>1. closure' \in Attestations /\ closure' # None
        BY <2>3, AttestedType DEF TypeInv, DomainTypeOK, BaseTypeOK
      <3>2. closure'.total \in Nat /\ mailbox \in Surfaces \cup {None}
        BY <3>1 DEF Attestations, TypeInv, DomainTypeOK
      <3>3. delivery' # None /\ delivery'.total = closure'.total
        BY <2>3, <3>2, ChatConstants
      <3> QED
        BY <3>1, <3>3 DEF DeliveryRepeatsClosure
    <2> QED
      BY <1>6, <2>2, <2>3, ChatStep
  <1>7. CASE domain # "shychat" /\ \E t \in Txs : DeliverTx(t)
    BY <1>7 DEF DeliverTx, node, DeliveryRepeatsClosure
  <1>8. CASE EndBlock
    BY <1>1, <1>8 DEF EndBlock, Commit, node, chatVars
  <1>9. CASE Restart
    <2>1. delivery' = None /\ restarts' = restarts + 1 /\ restarts \in Nat
      BY <1>9 DEF Restart, ChatRestart, TypeInv
    <2> QED
      BY <2>1 DEF DeliveryRepeatsClosure
  <1> QED
    BY StepKinds, <1>2, <1>3, <1>4, <1>5, <1>6, <1>7, <1>8, <1>9

\* A mailbox's delivery record repeats the total of its closure, and is
\* missing only when a restart forgot it.
THEOREM DeliveryRepeats == DomainSpec => []DeliveryRepeatsClosure
  <1> DEFINE I == TypeInv /\ DeliveryRepeatsClosure
  <1>1. DomainInit => I
    BY InitTypes DEF DomainInit, BaseInit, ChatInit, DeliveryRepeatsClosure
  <1>2. I /\ [DomainNext]_domainVars => I'
    BY NextTypes, NextDelivery
  <1> QED
    BY <1>1, <1>2, PTL DEF DomainSpec

-----------------------------------------------------------------------------
(* Suppressions of shystore                                                 *)

\* A reveal passes its check only if its owner is not suppressed.
LEMMA ValidReveal ==
    ASSUME TypeInv, NEW t \in Txs, ValidateTx(t), t.type = "SecretReveal"
    PROVE  Owner[t.secret] \notin suppressed
  <1>1. domain # "shychat" /\ t \in StoreTxs
    BY TxTypes DEF Txs, ChatTxs
  <1>2. ValidateSecretReveal(t)
    BY <1>1, TxTypes DEF StoreTxs, ValidateTx, StoreValidateTx
  <1>3. RederivedIdentity(Owner[t.secret]) = Owner[t.secret]
    BY <1>2, Constants DEF ValidateSecretReveal, RederivedIdentity, TypeInv,
       DomainTypeOK, BaseTypeOK
  <1> QED
    BY <1>2, <1>3 DEF ValidateSecretReveal

\* Nothing is suppressed or revealed.
LEMMA InitSuppress == DomainInit => SuppressInv
  BY DEF DomainInit, StoreInit, SuppressInv, SuppressedNotRevealed

\* Every step keeps SuppressInv.
LEMMA NextSuppress ==
    ASSUME TypeInv, SuppressInv, [DomainNext]_domainVars
    PROVE  SuppressInv'
  <1> USE DEF SuppressInv, SuppressedNotRevealed
  <1>1. CASE Quiet
    BY <1>1 DEF Quiet, storeVars, host, history, storeHistory
  <1>2. CASE OperatorNewBucket
    BY <1>2 DEF OperatorNewBucket, NewBucket, host
  <1>3. CASE BeginBlock
    BY <1>3 DEF BeginBlock, storeVars, history, storeHistory
  <1>4. ASSUME NEW t \in Txs, CheckTx(t) PROVE SuppressInv'
    <2>1. t.type = "SecretReveal" => Owner[t.secret] \notin suppressed
      BY <1>4, ValidReveal DEF CheckTx
    <2>2. None \notin inForce
      BY Constants DEF TypeInv
    <2> QED
      BY <1>4, <2>1, <2>2 DEF CheckTx, storeVars, storeHistory
  <1>5. ASSUME NEW t \in Txs, DeliverTx(t) PROVE SuppressInv'
    <2>1. t \in mempool /\ mempool' \subseteq mempool
      BY <1>5 DEF DeliverTx
    <2>2. lastReveal' = IF t.type = "SecretReveal" THEN Owner[t.secret] ELSE None
      BY <1>5 DEF DeliverTx, Note
    <2>3. CASE t.type = "AdverseAction"
      <3>1. t \in AdverseActionTxs /\ ExecuteAdverseAction(t)
        BY <1>5, <2>3, TxTypes DEF DeliverTx, Txs, ChatTxs, StoreTxs, StoreExecuteTx
      <3>2. suppressed' = IF t.action = "suppress" THEN suppressed \cup {t.target}
                          ELSE suppressed \ {t.target}
        BY <3>1 DEF ExecuteAdverseAction
      <3>3. /\ inForce' = IF t.action = "suppress" THEN inForce \cup {t.target}
                          ELSE inForce \ {t.target}
            /\ justSuppressed' = IF t.action = "suppress"
                                 THEN justSuppressed \cup {t.target}
                                 ELSE justSuppressed
            /\ forgotten' = forgotten \ {t.target}
        BY <1>5, <2>3 DEF DeliverTx, Note
      <3>4. None \notin inForce'
        <4>1. t.target # None
          BY <3>1, TxTypes, Constants
        <4> QED
          BY <3>3, <4>1, Constants DEF TypeInv
      <3>5. lastReveal' \notin inForce' \ (justSuppressed' \cup forgotten')
        BY <2>2, <2>3, <3>4
      <3>6. inForce' \ forgotten' \subseteq suppressed'
        BY <3>2, <3>3
      <3>7. \A r \in mempool' : r.type = "SecretReveal" =>
               Owner[r.secret] \notin inForce' \ (justSuppressed' \cup forgotten')
        BY <2>1, <3>3
      <3> QED
        BY <3>5, <3>6, <3>7
    <2>4. CASE t.type # "AdverseAction"
      <3>1. UNCHANGED <<inForce, justSuppressed, forgotten>>
        BY <1>5, <2>4 DEF DeliverTx, Note
      <3>2. suppressed' = suppressed
        BY <1>5, <2>4 DEF DeliverTx, StoreExecuteTx, ExecuteSecretStore,
           ExecuteSecretReveal, ExecuteSecretRotate, ExecuteBucketClose, storeVars
      <3>3. None \notin inForce
        BY Constants DEF TypeInv
      <3> QED
        BY <2>1, <2>2, <3>1, <3>2, <3>3
    <2> QED
      BY <2>3, <2>4
  <1>6. CASE EndBlock
    <2>1. mempool' = {t \in mempool : ValidateTx(t)} /\ mempool \subseteq Txs
      BY <1>6 DEF EndBlock, TypeInv, DomainTypeOK
    <2>2. /\ UNCHANGED <<suppressed, inForce, forgotten>>
          /\ justSuppressed' = {} /\ lastReveal' = None
      BY <1>6 DEF EndBlock, storeVars
    <2>3. \A t \in mempool' : t.type = "SecretReveal" =>
             Owner[t.secret] \notin suppressed
      BY <2>1, ValidReveal
    <2>4. None \notin inForce
      BY Constants DEF TypeInv
    <2> QED
      BY <2>2, <2>3, <2>4
  <1>7. CASE Restart
    BY <1>7 DEF Restart
  <1> QED
    BY StepKinds, <1>1, <1>2, <1>3, <1>4, <1>5, <1>6, <1>7

\* A suppressed participant's secret is not revealed, unless the reveal passed
\* its check before the suppression of the same block, or a restart forgot the
\* suppression.
THEOREM SuppressionHolds == DomainSpec => []SuppressedNotRevealed
  <1> DEFINE I == TypeInv /\ SuppressInv
  <1>1. I => SuppressedNotRevealed
    BY DEF SuppressInv
  <1>2. DomainInit => I
    BY InitTypes, InitSuppress
  <1>3. I /\ [DomainNext]_domainVars => I'
    BY NextTypes, NextSuppress
  <1> QED
    BY <1>1, <1>2, <1>3, PTL DEF DomainSpec

-----------------------------------------------------------------------------
(* The allow-list of shystore                                               *)

\* A secret passes its check only in an open bucket whose list allows it.
LEMMA ValidStore ==
    ASSUME NEW t \in Txs, ValidateTx(t), t.type = "SecretStore"
    PROVE  /\ period.status = "open"
           /\ bucket \notin {None, {}} => t.category \in bucket
  <1>1. domain # "shychat" /\ t \in StoreTxs
    BY TxTypes DEF Txs, ChatTxs
  <1> QED
    BY <1>1, TxTypes DEF StoreTxs, ValidateTx, StoreValidateTx, ValidateSecretStore

\* Nothing is stored, so nothing is stored outside the allow-list.
LEMMA InitAllow == DomainInit => AllowInv
  BY DEF DomainInit, BaseInit, StoreInit, AllowInv, AllowListHolds

\* Every step keeps AllowInv.
LEMMA NextAllow ==
    ASSUME TypeInv, PeriodInv, AllowInv, [DomainNext]_domainVars
    PROVE  AllowInv'
  <1> USE DEF AllowInv, AllowListHolds
  <1>1. CASE Quiet
    BY <1>1 DEF Quiet, baseVars, storeVars, host, history, storeHistory
  <1>2. CASE OperatorNewBucket
    <2>1. period.status = "none" /\ mempool' = mempool /\ outside' = outside
          /\ bucket' = allowed'
      BY <1>2 DEF OperatorNewBucket, NewBucket, host
    <2> QED
      BY <2>1
  <1>3. CASE BeginBlock
    BY <1>3 DEF BeginBlock, RecordBeacon, storeVars, history, storeHistory, Idle
  <1>4. ASSUME NEW t \in Txs, CheckTx(t) PROVE AllowInv'
    <2>1. t.type = "SecretStore" =>
             /\ period.status # "none"
             /\ bucket \notin {None, {}} => t.category \in bucket
      BY <1>4, ValidStore DEF CheckTx
    <2> QED
      BY <1>4, <2>1 DEF CheckTx, baseVars, storeVars, storeHistory
  <1>5. ASSUME NEW t \in Txs, DeliverTx(t) PROVE AllowInv'
    <2>1. /\ BaseStep(t) /\ inBlock /\ inBlock' /\ t \in mempool
          /\ mempool' \subseteq mempool /\ bucket' = bucket /\ allowed' = allowed
      BY <1>5, ExecuteBase, DeliverDomain DEF DeliverTx, Note
    <2>2. outside' = IF t.type = "SecretStore" /\ allowed # {}
                        /\ t.category \notin allowed
                     THEN outside \cup {Owner[t.new]} ELSE outside
      BY <1>5 DEF DeliverTx, Note
    <2>3. /\ period.status # "none" => period'.status # "none"
          /\ db' = db /\ dirty \in BOOLEAN /\ (dirty => dirty')
      BY <2>1, BaseFrame DEF TypeInv, BaseTypes, BaseTypeOK
    <2>4. CASE outside' = outside
      BY <2>1, <2>3, <2>4
    <2>5. CASE outside' # outside
      <3>1. /\ t.type = "SecretStore" /\ allowed # {} /\ t.category \notin allowed
        BY <2>2, <2>5
      <3>2. bucket = None /\ period.status # "none"
        BY <2>1, <3>1
      <3>3. db.period.status # "none" \/ dirty
        BY <3>2 DEF PeriodInv
      <3> QED
        BY <2>1, <2>3, <3>2, <3>3
    <2> QED
      BY <2>4, <2>5
  <1>6. CASE EndBlock
    <2>1. /\ UNCHANGED <<period, bucket, allowed, outside>>
          /\ mempool' \subseteq mempool
      BY <1>6 DEF EndBlock, Commit, storeVars
    <2>2. outside # {} => db'.period.status # "none"
      <3>1. CASE dirty
        <4>1. db'.period = IF period.status = "none" THEN db.period ELSE period
          BY <1>6, <3>1 DEF EndBlock, Commit, Persisted
        <4> QED
          BY <4>1
      <3>2. CASE ~ dirty
        BY <1>6, <3>2 DEF EndBlock, Commit
      <3> QED
        BY <3>1, <3>2
    <2> QED
      BY <2>1, <2>2
  <1>7. CASE Restart
    BY <1>7 DEF Restart, LoadState, StoreRestart, Idle
  <1> QED
    BY StepKinds, <1>1, <1>2, <1>3, <1>4, <1>5, <1>6, <1>7

\* Until a restart forgets the bucket's record, only categories of its
\* allow-list are stored, however checks and executions interleave.
THEOREM AllowList == DomainSpec => []AllowListHolds
  <1> DEFINE I == TypeInv /\ PeriodInv /\ AllowInv
  <1>1. I => AllowListHolds
    BY DEF AllowInv
  <1>2. DomainInit => I
    BY InitTypes, InitPeriod, InitAllow
  <1>3. I /\ [DomainNext]_domainVars => I'
    BY NextTypes, NextPeriod, NextAllow
  <1> QED
    BY <1>1, <1>2, <1>3, PTL DEF DomainSpec

=============================================================================

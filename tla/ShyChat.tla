------------------------------ MODULE ShyChat ------------------------------
(***************************************************************************)
(* domain/state/shychat/state.go: mailboxes on top of TwoListBase.  Inputs *)
(* are those of honest devices: signatures, nonces and attestations verify *)
(* and a device names its own messages.  The mailbox and delivery maps are *)
(* in memory only: nothing writes them to the database.                    *)
(***************************************************************************)
EXTENDS TwoListBase

CONSTANTS
    EndTimes,           \* end times a creator may ask for; 0 stands for none
    DefaultWindow,      \* the one-year window given instead of none
    Surfaces,           \* surface models: "mail", "chat"
    MaxTime             \* bound of the clock

ASSUME ChatConstants ==
    /\ EndTimes \subseteq Int /\ DefaultWindow \in Int
    /\ None \notin [total : Nat, surface : Surfaces \cup {None}]

VARIABLES
    now,                \* the clock, time.Now()
    mailbox,            \* MailboxRecord's surface model, or None
    delivery            \* DeliveryRecord, or None

chatVars == <<mailbox, delivery>>

MailboxCreateTxs == [type : {"MailboxCreate"}, end : EndTimes,
                     surface : Surfaces]
MessageDispatchTxs == [type : {"MessageDispatch"}, new : Submissions]
MailboxCloseTxs == [type : {"MailboxClose"}]
MessageUpdateTxs ==
    {t \in [type : {"MessageUpdate"}, old : Submissions, new : Submissions] :
        t.old # t.new /\ Owner[t.old] = Owner[t.new]}
MessageWithdrawTxs == [type : {"MessageWithdraw"}, old : Submissions]
ChatValidatorTxs == [type : {"ChatValidator"}, key : ValidatorKeys,
                     power : Powers]

ChatTxs == MailboxCreateTxs \cup MessageDispatchTxs \cup MailboxCloseTxs
           \cup MessageUpdateTxs \cup MessageWithdrawTxs
           \cup ChatValidatorTxs

ChatInit == mailbox = None /\ delivery = None

-----------------------------------------------------------------------------
ValidateMailboxCreate == period.status = "none"

ExecuteMailboxCreate(t) ==
    /\ CreatePeriod(IF t.end = 0 THEN now + DefaultWindow ELSE t.end)
    /\ mailbox' = IF period.status = "none" THEN t.surface ELSE mailbox
    /\ UNCHANGED delivery

\* Mutant of ValidateMessageDispatch: the mailbox need not be open.
DispatchToAnyMailbox(t) ==
    /\ beaconKnown
    /\ period.status # "none"
    /\ Owner[t.new] \notin participants

ValidateMessageDispatch(t) ==
    /\ beaconKnown
    /\ period.status = "open"
    /\ period.end > 0 => now < period.end
    /\ Owner[t.new] \notin participants

ExecuteMessageDispatch(t) ==
    SubmitToLists(t.new, Owner[t.new]) /\ UNCHANGED chatVars

ValidateMailboxClose == period.status = "open"

\* Mutant of ExecuteMailboxClose: a delivery is recorded though the close
\* failed.
CloseAlwaysDelivers ==
    /\ ClosePeriod
    /\ delivery' = [total |-> Cardinality(submissions), surface |-> mailbox]
    /\ UNCHANGED mailbox

ExecuteMailboxClose ==
    /\ ClosePeriod
    /\ delivery' = IF CanClose
                   THEN [total |-> closure'.total, surface |-> mailbox]
                   ELSE delivery
    /\ UNCHANGED mailbox

\* Unlike a dispatch, an update is accepted after the end time.
ValidateMessageUpdate(t) ==
    /\ ~ WriteOnly
    /\ beaconKnown
    /\ period.status = "open"
    /\ t.old \in submissions
    /\ Owner[t.old] \in participants

ExecuteMessageUpdate(t) ==
    UpdateSubmission(t.old, t.new) /\ UNCHANGED chatVars

\* A withdrawal needs no beacon and is allowed in the write-only posture.
ValidateMessageWithdraw(t) ==
    /\ period.status = "open"
    /\ t.old \in submissions
    /\ RederivedIdentity(Owner[t.old]) \in participants

ExecuteMessageWithdraw(t) ==
    /\ WithdrawFromLists(t.old, RederivedIdentity(Owner[t.old]))
    /\ UNCHANGED chatVars

ChatValidateTx(t) ==
    CASE t.type = "MailboxCreate" -> ValidateMailboxCreate
      [] t.type = "MessageDispatch" -> ValidateMessageDispatch(t)
      [] t.type = "MailboxClose" -> ValidateMailboxClose
      [] t.type = "MessageUpdate" -> ValidateMessageUpdate(t)
      [] t.type = "MessageWithdraw" -> ValidateMessageWithdraw(t)
      [] t.type = "ChatValidator" -> TRUE

ChatExecuteTx(t) ==
    \/ t.type = "MailboxCreate" /\ ExecuteMailboxCreate(t)
    \/ t.type = "MessageDispatch" /\ ExecuteMessageDispatch(t)
    \/ t.type = "MailboxClose" /\ ExecuteMailboxClose
    \/ t.type = "MessageUpdate" /\ ExecuteMessageUpdate(t)
    \/ t.type = "MessageWithdraw" /\ ExecuteMessageWithdraw(t)
    \/ /\ t.type = "ChatValidator"
       /\ RegisterValidator(t.key, t.power)
       /\ UNCHANGED chatVars

\* NewChatState: both maps start empty.
ChatRestart == mailbox' = None /\ delivery' = None

=============================================================================

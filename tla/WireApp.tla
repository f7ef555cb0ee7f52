------------------------------ MODULE WireApp ------------------------------
(***************************************************************************)
(* The shywire ABCI application (embodiments/shywire/app/app.go) on one    *)
(* node: CheckTx validates against the last committed state, FinalizeBlock *)
(* executes the block's transactions without validating them again and     *)
(* commits to LevelDB, and Commit advances the height only when a block    *)
(* changed something.  CometBFT (mempool, deciding blocks, replaying the   *)
(* blocks above the height Info reports) is external.  Times enter the app *)
(* hash, so a handshake may refuse a replayed block: the behaviour then    *)
(* ends there.                                                             *)
(***************************************************************************)
EXTENDS WireCustody

CONSTANTS
    Profiles,           \* kinds of traffic, one per behaviour
    Traffic,            \* profile -> the transactions clients send
    Opening,            \* profile -> opening balances, or None for an empty
                        \* ledger
    MaxTxs,             \* bound, per profile: transactions decided
    MaxMempool, MaxBlockTxs, MaxEmptyBlocks, MaxRestarts    \* bounds

ASSUME WireAppConstants ==
    /\ \A p \in Profiles : \A t \in Traffic[p] :
          t \in LedgerTxs \/ t \in CustodyTxs
    /\ \A p \in Profiles : Opening[p] = None
                           \/ Opening[p] \in [Commitments -> Nat]
    /\ {MaxMempool, MaxBlockTxs, MaxEmptyBlocks, MaxRestarts} \subseteq Nat

VARIABLES
    profile,
    db,         \* what LevelDB holds
    height,     \* State.height
    mempool,
    stored,     \* the decided blocks numbered above height
    next,       \* index in stored of the first block not executed yet
    txi,        \* index of the next transaction of that block
    decided, empties, restarts  \* bound counters

(* History variables: what happened, for the properties only. *)
VARIABLES
    last,       \* the transaction the last step executed, or None
    claimed,    \* what the current block's transactions have claimed so far
    contended,  \* what two transactions of one block have claimed
    reused,     \* nonces used by more than one transaction
    rebased,    \* assets registered again after something was minted
    lost,       \* asset -> value that left the accounts without a burn
    savedLost,  \* the same as of the last commit
    replayed    \* have transactions been executed again after a restart?

chain == <<mempool, stored, next, txi>>
bounds == <<decided, empties, restarts>>
history == <<last, claimed, contended, reused, rebased, lost, savedLost,
             replayed>>
wireVars == <<profile, ledgerVars, custodyVars, db, height, chain, bounds,
              history>>

Persisted == <<LedgerPersisted, CustodyPersisted>>

\* The state after the transactions that register the assets and that
\* register and fund the accounts.
OpenInit(balances) ==
    /\ assets = [a \in Assets |-> Total(balances)]
    /\ supply = [a \in Assets |-> [minted |-> Total(balances), burned |-> 0,
                                   total |-> Total(balances)]]
    /\ accounts = [k \in AccountKeys |->
                     [NewAccount EXCEPT !.balance =
                        IF k[1] = "_" THEN 0 ELSE balances[k[2]]]]
    /\ transferRecords = [x \in Nonces |-> None]
    /\ participants = [n \in Nullifiers |-> None]
    /\ contracts = [c \in Contracts |-> None]
    /\ contractExecutions = [x \in Nonces |-> None]
    /\ authorityActions = {}
    /\ enrollmentRecords = [t \in EnrollmentTokens |-> None]
    /\ validators = [k \in ValidatorKeys |-> None]
    /\ pendingValidatorUpdates = <<>>
    /\ dirty = FALSE

WireInit ==
    /\ profile \in Profiles
    /\ IF Opening[profile] = None THEN LedgerInit ELSE OpenInit(Opening[profile])
    /\ CustodyInit
    /\ db = Persisted
    /\ height = 0
    /\ mempool = {} /\ stored = <<>> /\ next = 1 /\ txi = 1
    /\ decided = 0 /\ empties = 0 /\ restarts = 0
    /\ last = None /\ claimed = {} /\ contended = {} /\ reused = {}
    /\ rebased = {}
    /\ lost = [a \in Assets |-> 0] /\ savedLost = lost /\ replayed = FALSE

\* No block is being executed or replayed.
Idle == next = Len(stored) + 1

LedgerTypes == {"RegisterAsset", "Mint", "Burn", "Transfer", "RegisterAccount",
                "RegisterValidator", "RegisterContract", "ActivateContract",
                "ExecuteContract", "AdverseAction"}

ValidateTx(t) == IF t.type \in LedgerTypes THEN LedgerValidateTx(t)
                 ELSE CustodyValidateTx(t)

ExecuteTx(t) == \/ LedgerExecuteTx(t) /\ UNCHANGED custodyVars
                \/ CustodyExecuteTx(t, height)

CheckTx(t) ==
    /\ Idle /\ t \notin mempool /\ Cardinality(mempool) < MaxMempool
    /\ decided + Cardinality(mempool) < MaxTxs[profile]
    /\ ValidateTx(t)
    /\ mempool' = mempool \cup {t}
    /\ last' = None
    /\ UNCHANGED <<profile, ledgerVars, custodyVars, db, height, stored, next,
                   txi, bounds, claimed, contended, reused, rebased, lost,
                   savedLost, replayed>>

\* CometBFT decides a block of waiting transactions, or an empty one.
DecideBlock ==
    /\ Idle
    /\ \E n \in 0..MaxBlockTxs :
          /\ n <= Cardinality(mempool)
          /\ n = 0 => empties < MaxEmptyBlocks
          /\ \E txs \in {s \in [1..n -> mempool] :
                           \A i, j \in 1..n : s[i] = s[j] => i = j} :
                /\ stored' = Append(stored, txs)
                /\ mempool' = mempool \ {txs[i] : i \in 1..n}
          /\ decided' = decided + n
          /\ empties' = IF n = 0 THEN empties + 1 ELSE empties
    /\ last' = None
    /\ UNCHANGED <<profile, ledgerVars, custodyVars, db, height, next, txi,
                   restarts, claimed, contended, reused, rebased, lost,
                   savedLost, replayed>>

\* What a transaction counts on having to itself: the balance it debits and
\* the identifiers that were free when it was checked.
Claims(t) ==
    CASE t.type = "Burn" -> {<<"account", t.asset, t.account>>}
      [] t.type = "Transfer" -> {<<"account", t.asset, t.from>>,
                                 <<"nullifier", t.nullifier>>}
      [] t.type = "ExecuteContract" ->
            {<<"nullifier", t.nullifier>>}
            \cup IF MovesValue(t) THEN {<<"account", t.asset, t.party>>} ELSE {}
      [] t.type = "AdverseAction" /\ t.kind = "redeem_forced" ->
            {<<"account", a, t.target>> : a \in Assets}
      [] t.type = "RecordCustodyIntakeLot" -> {<<"lot", t.lot>>}
      [] t.type = "SettleCustodyRedemption" ->
            LET request == redemptionRequests[t.request]
            IN  {<<"account", request.pool[1], request.account>>,
                 <<"pool", request.pool>>, <<"request", t.request>>,
                 <<"settlement", t.settlement>>}
      [] t.type = "ApplyCustodyDemurrage" -> {<<"account", t.asset, t.account>>}
      [] OTHER -> {}

\* What the accounts of an asset lose to nobody.
Vanishes(t, a) ==
    CASE t.type = "ExecuteContract" /\ MovesValue(t) /\ t.asset = a
            /\ t.counterparty = None -> t.amount
      [] t.type = "AdverseAction" /\ t.kind = "redeem_forced"
            /\ t.scope \in {None, a} /\ accounts[<<a, t.target>>] # None ->
            accounts[<<a, t.target>>].balance
      [] OTHER -> 0

Note(t) ==
    /\ last' = t
    /\ claimed' = claimed \cup Claims(t)
    /\ contended' = contended \cup (claimed \cap Claims(t))
    /\ reused' = IF t.type \in {"Transfer", "ExecuteContract"}
                    /\ transferRecords[t.nonce] # None
                 THEN reused \cup {t.nonce} ELSE reused
    /\ rebased' = IF t.type = "RegisterAsset" /\ supply[t.asset] # None
                     /\ supply[t.asset].minted > 0
                  THEN rebased \cup {t.asset} ELSE rebased
    /\ lost' = [a \in Assets |-> lost[a] + Vanishes(t, a)]
    /\ UNCHANGED <<savedLost, replayed>>

\* One turn of the loop in FinalizeBlock.
DeliverTx ==
    /\ ~ Idle /\ txi <= Len(stored[next])
    /\ ExecuteTx(stored[next][txi])
    /\ Note(stored[next][txi])
    /\ txi' = txi + 1
    /\ UNCHANGED <<profile, db, height, mempool, stored, next, bounds>>

\* Commit does nothing, not even advance the height, unless the block changed
\* something.
Commit ==
    IF dirty
    THEN /\ db' = Persisted /\ height' = height + 1
         /\ stored' = Tail(stored) /\ next' = next
    ELSE /\ next' = next + 1
         /\ UNCHANGED <<db, height, stored>>

\* The end of FinalizeBlock, and CometBFT's re-check of the mempool.
EndBlock ==
    /\ ~ Idle /\ txi > Len(stored[next])
    /\ Commit
    /\ txi' = 1
    /\ dirty' = FALSE /\ pendingValidatorUpdates' = <<>>
    /\ mempool' = {t \in mempool : ValidateTx(t)}
    /\ last' = None /\ claimed' = {} /\ savedLost' = lost
    /\ UNCHANGED <<profile, assets, supply, accounts, lists, contractVars,
                   authorityActions, enrollmentRecords, validators,
                   custodyVars, bounds, contended, reused, rebased, lost, replayed>>

\* The process dies at any point, loadState reads the database, and CometBFT
\* replays every block above the height Info reports.
Restart ==
    /\ restarts < MaxRestarts /\ restarts' = restarts + 1
    /\ LedgerLoaded(db[1]) /\ CustodyLoaded(db[2])
    /\ mempool' = {} /\ next' = 1 /\ txi' = 1
    /\ last' = None /\ claimed' = {} /\ lost' = savedLost
    /\ replayed' = (replayed \/ \E i \in 1..(next - 1) : stored[i] # <<>>)
    /\ UNCHANGED <<profile, db, height, stored, decided, empties, contended,
                   reused, rebased, savedLost>>

WireNext ==
    \/ \E t \in Traffic[profile] : CheckTx(t)
    \/ DecideBlock \/ DeliverTx \/ EndBlock \/ Restart

WireSpec == WireInit /\ [][WireNext]_wireVars

-----------------------------------------------------------------------------
(* Properties                                                               *)

\* Types of the ledger, of custody and of the chain.
WireTypeOK ==
    /\ \A k \in AccountKeys : accounts[k] = None
          \/ accounts[k] \in [balance : Int, disabled : BOOLEAN, frozen : BOOLEAN]
    /\ \A a \in Assets : assets[a] = None <=> supply[a] = None
    /\ participants \in [Nullifiers -> Nonces \cup {None}]
    /\ contractExecutions \in [Nonces -> Contracts \cup {None}]
    /\ authorityActions \subseteq Actions
    /\ enrollmentRecords \in [EnrollmentTokens -> Commitments \cup {None}]
    /\ currentCustodyPolicyID \in Policies \cup {None}
    /\ mempool \subseteq Traffic[profile]
    /\ next \in 1..(Len(stored) + 1) /\ txi \in Nat

\* The sum of an asset's balances.
Circulating(a) ==
    Total([c \in Commitments |-> IF accounts[<<a, c>>] = None THEN 0
                                 ELSE accounts[<<a, c>>].balance])

\* The asset record, the supply record and its two sums say the same; and the
\* supply an asset reports is in its accounts, but for what executions without
\* counterparty and forced redemptions took out of them, unless a restart
\* executed the asset's registration again over its supply.  An asset that is
\* called like the prefix of registrations shares their accounts.
SupplyAccounted ==
    \A a \in Assets \ {"_"} : supply[a] # None =>
        /\ supply[a].total = supply[a].minted - supply[a].burned
        /\ assets[a] = supply[a].total
        /\ a \in rebased \/ supply[a].total = Circulating(a) + lost[a]

\* An account is overdrawn only if two transactions of one block debited it,
\* or a restart executed a debit again.
NoOverdraft ==
    \A k \in AccountKeys :
        accounts[k] # None /\ accounts[k].balance < 0 =>
            replayed \/ <<"account", k[1], k[2]>> \in contended

\* Every transfer on List 1 has its one participant on List 2, except where
\* clients shared a nonce or one block used a nullifier twice.
ListsPaired ==
    (\A n \in Nullifiers : <<"nullifier", n>> \notin contended) =>
        \A x \in Nonces \ reused :
            Cardinality({n \in Nullifiers : participants[n] = x})
            = IF transferRecords[x] = None THEN 0 ELSE 1

\* The account was disabled or frozen when the current block began.
Held(key) == db[1][3][key] # None
             /\ (db[1][3][key].disabled \/ db[1][3][key].frozen)

\* A transfer that waits in the mempool while its sender is disabled or frozen
\* is never executed in a later block.
HeldDoNotSend ==
    last # None /\ last.type = "Transfer" =>
        replayed \/ ~ Held(<<last.asset, last.from>>)

\* What "disable" promises (tx.go), asked of contract executions: none takes
\* value from a party whose account was disabled when the block began.
DisabledBlocksAll ==
    last # None /\ last.type = "ExecuteContract" /\ MovesValue(last) =>
        LET key == <<last.asset, last.party>>
        IN  db[1][3][key] # None => ~ db[1][3][key].disabled

\* A contract's execution count is the number of its executions, except where
\* clients shared a nonce or a restart executed some again.
ContractCounts ==
    reused = {} /\ ~ replayed =>
        \A c \in Contracts : contracts[c] # None =>
            contracts[c].count
            = Cardinality({x \in Nonces : contractExecutions[x] = c})

\* Between blocks the database holds the whole state, so a restart changes
\* nothing; and blocks are executed again only if empty ones were decided.
Durable ==
    /\ Idle => db = Persisted
    /\ replayed => empties > 0

\* Goods leave the lots by settlements only: what the lots of a pool have lost
\* is what the settlements were given, and every settlement was given what it
\* says, unless another one of its block drew on the same pool.
LotAccounting ==
    /\ \A l \in Lots : intakeLots[l] # None =>
          intakeLots[l].remaining \in 0..intakeLots[l].quantity
    /\ (\A i \in Lots : <<"lot", i>> \notin contended)
       /\ (\A s \in Settlements : <<"settlement", s>> \notin contended)
       /\ ~ replayed =>
          LET settled == {s \in Settlements : redemptionSettlements[s] # None}
              given(l) == Total([s \in settled |->
                                   redemptionSettlements[s].allocated[l]])
          IN  /\ \A l \in Lots : intakeLots[l] # None =>
                    intakeLots[l].quantity = intakeLots[l].remaining + given(l)
              /\ \A s \in settled :
                    \/ Total(redemptionSettlements[s].allocated)
                       = redemptionSettlements[s].quantity
                    \/ \E r \in Requests : r = redemptionSettlements[s].request
                          /\ <<"pool", redemptionRequests[r].pool>> \in contended

\* A settled request has exactly one settlement, and a pending one none, unless
\* one block settled it twice or used a settlement ID twice.  While blocks are
\* executed again a settled request may be pending for a moment.
SettledOnce ==
    (\A s \in Settlements : <<"settlement", s>> \notin contended) =>
        \A r \in Requests : redemptionRequests[r] # None =>
            \/ <<"request", r>> \in contended
            \/ replayed /\ ~ Idle
            \/ Cardinality({s \in Settlements :
                              redemptionSettlements[s] # None
                              /\ redemptionSettlements[s].request = r})
               = IF redemptionRequests[r].status = "settled" THEN 1 ELSE 0

=============================================================================

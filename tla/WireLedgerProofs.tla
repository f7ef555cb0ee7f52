-------------------------- MODULE WireLedgerProofs --------------------------
(***************************************************************************)
(* Theorems about shywire's money, contracts and two lists.  FinalizeBlock *)
(* does not validate again, so each rests on what CheckTx and the re-check *)
(* after every block establish of the database, and on how far memory can  *)
(* move away from the database within one block.                           *)
(***************************************************************************)
EXTENDS WireProofs

-----------------------------------------------------------------------------
(* What a checked transaction may count on                                  *)

IsDebit(t) ==
    \/ t.type \in {"Burn", "Transfer", "ApplyCustodyDemurrage", "SettleCustodyRedemption"}
    \/ t.type = "ExecuteContract" /\ MovesValue(t)

DebitKey(t, rq) ==
    IF t.type \in {"Burn", "ApplyCustodyDemurrage"} THEN <<t.asset, t.account>>
    ELSE IF t.type = "Transfer" THEN <<t.asset, t.from>>
    ELSE IF t.type = "ExecuteContract" THEN <<t.asset, t.party>>
    ELSE <<rq[t.request].pool[1], rq[t.request].account>>

DebitAmount(t) == IF t.type = "SettleCustodyRedemption" THEN t.burn ELSE t.amount

\* The lots of a pool that have goods left, and how much.
StockIn(lo, pool) == {l \in Lots : /\ lo[l] # None /\ lo[l].pool = pool
                                   /\ lo[l].remaining > 0 /\ lo[l].status # "exhausted"}
Stock(lo, pool) == Total([l \in StockIn(lo, pool) |-> lo[l].remaining])

\* What validation saw of accounts, contracts, requests, lots and settlements.
Checked(t, ac, co, rq, lo, se) ==
    /\ IsDebit(t) => /\ ac[DebitKey(t, rq)] # None
                     /\ ac[DebitKey(t, rq)].balance >= DebitAmount(t)
    /\ t.type = "Transfer" => ~ ac[<<t.asset, t.from>>].disabled
                              /\ ~ ac[<<t.asset, t.from>>].frozen
    /\ t.type = "RegisterAccount" => ac[<<"_", t.account>>] = None
    /\ t.type = "RegisterContract" => co[t.contract] = None
    /\ t.type = "RequestCustodyRedemption" => rq[t.request] = None
    /\ t.type = "RecordCustodyIntakeLot" => lo[t.lot] = None
    /\ t.type = "SettleCustodyRedemption" =>
          /\ se[t.settlement] = None /\ rq[t.request].status = "pending"
          /\ Stock(lo, rq[t.request].pool) >= t.quantity

MemChecked(t) == Checked(t, accounts, contracts, redemptionRequests, intakeLots,
                         redemptionSettlements)
DbChecked(t) == Checked(t, db[1][3], db[1][6], db[2][6], db[2][5], db[2][7])

\* What waits, and unless blocks have been executed again what is decided and
\* not yet executed, has been checked against the database; and only the last
\* block can hold transactions.
FreshInv ==
    /\ dirty => stored[next] # <<>>
    /\ \A t \in mempool : DbChecked(t)
    /\ ~ replayed =>
          /\ \A i \in next..Len(stored) : \A j \in 1..Len(stored[i]) : DbChecked(stored[i][j])
          /\ \A i \in next..(Len(stored) - 1) : stored[i] = <<>>

\* What validation establishes.
LEMMA ValidChecked ==
    ASSUME NEW t \in Txs, ValidateTx(t)
    PROVE  MemChecked(t)
  <1>1. /\ t.type = "Burn" => ValidateBurn(t)
        /\ t.type = "Transfer" => ValidateTransfer(t)
        /\ t.type = "RegisterAccount" => ValidateRegisterAccount(t)
        /\ t.type = "RegisterContract" => ValidateRegisterContract(t)
        /\ t.type = "ExecuteContract" => ValidateExecuteContract(t)
    BY DEF ValidateTx, LedgerTypes, LedgerValidateTx
  <1>2. /\ t.type = "RequestCustodyRedemption" => ValidateRedemption(t)
        /\ t.type = "SettleCustodyRedemption" => ValidateSettle(t)
        /\ t.type = "ApplyCustodyDemurrage" => ValidateDemurrage(t)
        /\ t.type = "RecordCustodyIntakeLot" => ValidateIntakeLot(t)
    BY DEF ValidateTx, LedgerTypes, CustodyValidateTx
  <1>3. /\ t.type = "Transfer" => ~ accounts[<<t.asset, t.from>>].disabled
                                  /\ ~ accounts[<<t.asset, t.from>>].frozen
        /\ t.type = "RegisterAccount" => accounts[<<"_", t.account>>] = None
        /\ t.type = "RegisterContract" => contracts[t.contract] = None
        /\ t.type = "RequestCustodyRedemption" => redemptionRequests[t.request] = None
    BY <1>1, <1>2 DEF ValidateTransfer, MaySend, ValidateRegisterAccount,
       ValidateRegisterContract, ValidateRedemption
  <1>4. IsDebit(t) =>
          /\ accounts[DebitKey(t, redemptionRequests)] # None
          /\ accounts[DebitKey(t, redemptionRequests)].balance >= DebitAmount(t)
    BY <1>1, <1>2 DEF IsDebit, DebitKey, DebitAmount, ValidateBurn, ValidateTransfer,
       ValidateExecuteContract, ValidateSettle, ValidateDemurrage, Holds
  <1>5. /\ t.type = "RecordCustodyIntakeLot" => intakeLots[t.lot] = None
        /\ t.type = "SettleCustodyRedemption" =>
              /\ redemptionSettlements[t.settlement] = None
              /\ redemptionRequests[t.request].status = "pending"
              /\ AvailableCustodyInventory(redemptionRequests[t.request].pool) >= t.quantity
    BY <1>2 DEF ValidateIntakeLot, ValidateSettle
  <1>6. \A pool : AvailableCustodyInventory(pool) = Stock(intakeLots, pool)
    BY DEF AvailableCustodyInventory, RemainingIn, InventoryLots, Stock, StockIn
  <1> QED
    BY <1>3, <1>4, <1>5, <1>6 DEF MemChecked, Checked

\* Every step keeps what was checked, and a transfer is executed only if its
\* sender was not held.
LEMMA StepFresh ==
    ASSUME NodeTypes, DirtyInv, FreshInv, HeldDoNotSend, [WireNext]_wireVars
    PROVE  FreshInv' /\ HeldDoNotSend'
  <1> DEFINE C(x) == Checked(x, db[1][3], db[1][6], db[2][6], db[2][5], db[2][7])
             D(x) == Checked(x, db'[1][3], db'[1][6], db'[2][6], db'[2][5], db'[2][7])
  <1>g. ASSUME /\ dirty' => stored'[next'] # <<>>
               /\ \A t \in mempool' : D(t)
               /\ ~ replayed' =>
                     /\ \A i \in next'..Len(stored') : \A j \in 1..Len(stored'[i]) :
                           D(stored'[i][j])
                     /\ \A i \in next'..(Len(stored') - 1) : stored'[i] = <<>>
        PROVE  FreshInv'
    BY <1>g DEF FreshInv, DbChecked
  <1>h. /\ dirty => stored[next] # <<>>
        /\ \A t \in mempool : C(t)
        /\ ~ replayed =>
              /\ \A i \in next..Len(stored) : \A j \in 1..Len(stored[i]) : C(stored[i][j])
              /\ \A i \in next..(Len(stored) - 1) : stored[i] = <<>>
    BY DEF FreshInv, DbChecked
  <1>u. db' = db => \A x : C(x) <=> D(x)
    OBVIOUS
  <1>n. last' = None => HeldDoNotSend'
    BY DEF HeldDoNotSend
  <1>t. Len(stored) \in Nat /\ next \in 1..(Len(stored) + 1) /\ stored \in Seq(Seq(Txs))
    BY DEF NodeTypes
  <1>c. /\ db = Persisted => \A x : MemChecked(x) => C(x)
        /\ db' = Persisted => \A x : MemChecked(x) => D(x)
    BY DEF MemChecked, Persisted, LedgerPersisted, CustodyPersisted
  <1> HIDE DEF C, D
  <1>1. ASSUME NEW t \in Traffic[profile], CheckTx(t) PROVE FreshInv' /\ HeldDoNotSend'
    <2>1. UNCHANGED <<db, stored, next, replayed, dirty>> /\ last' = None
          /\ mempool' = mempool \cup {t} /\ ValidateTx(t) /\ Idle
      BY <1>1 DEF CheckTx, ledgerVars
    <2>2. C(t)
      BY <1>c, <2>1, ValidChecked, TrafficTxs DEF DirtyInv
    <2> QED
      BY <1>g, <1>h, <1>u, <1>n, <2>1, <2>2
  <1>2. CASE DecideBlock
    <2>1. UNCHANGED <<db, next, replayed, dirty>> /\ last' = None /\ Idle /\ ~ dirty
      BY <1>2 DEF DecideBlock, ledgerVars, DirtyInv
    <2>2. PICK txs \in Seq(Txs) :
              /\ \A j \in 1..Len(txs) : txs[j] \in mempool
              /\ stored' = Append(stored, txs)
              /\ mempool' \subseteq mempool
      BY <1>2, DecidedBlock
    <2>3. Len(stored') = Len(stored) + 1 /\ stored'[Len(stored) + 1] = txs
      BY <1>t, <2>2
    <2>4. next' = Len(stored')
      BY <2>1, <2>3 DEF Idle
    <2>5. \A i \in next'..Len(stored') : i = Len(stored) + 1
      BY <1>t, <2>3, <2>4
    <2>6. \A i \in next'..Len(stored') : \A j \in 1..Len(stored'[i]) : D(stored'[i][j])
      BY <1>h, <1>u, <2>1, <2>2, <2>3, <2>5
    <2>7. \A i \in next'..(Len(stored') - 1) : FALSE
      BY <1>t, <2>3, <2>4
    <2> QED
      BY <1>g, <1>h, <1>u, <1>n, <2>1, <2>2, <2>6, <2>7
  <1>3. CASE DeliverTx
    <2>1. UNCHANGED <<db, mempool, stored, next, replayed>> /\ last' = stored[next][txi]
      BY <1>3 DEF DeliverTx, Note
    <2>2. next \in 1..Len(stored) /\ txi \in 1..Len(stored[next])
      BY <1>3, DeliverEffects
    <2>3. ~ replayed => C(stored[next][txi])
      BY <1>h, <1>t, <2>2
    <2>4. HeldDoNotSend'
      BY <2>1, <2>3 DEF HeldDoNotSend, Held, C, Checked
    <2>5. stored[next] # <<>>
      BY <2>2
    <2> QED
      BY <1>g, <1>h, <1>u, <2>1, <2>4, <2>5
  <1>4. CASE EndBlock
    <2>1. /\ db' = Persisted
          /\ next \in 1..Len(stored)
          /\ \/ /\ dirty /\ next' = next
                /\ Len(stored') = Len(stored) - 1
                /\ \A i \in 1..Len(stored') : stored'[i] = stored[i + 1]
             \/ ~ dirty /\ next' = next + 1 /\ stored' = stored /\ stored[next] = <<>>
      BY <1>4, EndBlockSaves
    <2>2. /\ UNCHANGED replayed /\ last' = None /\ dirty' = FALSE
          /\ mempool' = {t \in mempool : ValidateTx(t)}
      BY <1>4 DEF EndBlock
    <2>3. \A t \in mempool' : D(t)
      BY <1>c, <2>1, <2>2, ValidChecked, TrafficTxs
    <2>4. ASSUME ~ replayed'
          PROVE  /\ \A i \in next'..Len(stored') : \A j \in 1..Len(stored'[i]) : D(stored'[i][j])
                 /\ \A i \in next'..(Len(stored') - 1) : stored'[i] = <<>>
      <3>1. CASE ~ dirty
        <4>1. db' = db /\ next' = next + 1 /\ stored' = stored
          BY <2>1, <3>1 DEF DirtyInv
        <4>2. \A i \in next'..Len(stored') : i \in next..Len(stored)
          BY <1>t, <4>1
        <4>3. \A i \in next'..(Len(stored') - 1) : i \in next..(Len(stored) - 1)
          BY <1>t, <4>1
        <4> QED
          BY <1>h, <1>u, <2>2, <2>4, <4>1, <4>2, <4>3
      <3>2. CASE dirty
        <4>1. CASE next = Len(stored)
          <5>1. next' = Len(stored') + 1
            BY <1>t, <2>1, <3>2, <4>1
          <5>2. Len(stored') \in Nat
            BY <1>t, <2>1, <3>2, <4>1
          <5> QED
            BY <5>1, <5>2
        <4>2. CASE next # Len(stored)
          <5>1. next \in next..(Len(stored) - 1)
            BY <1>t, <2>1, <4>2
          <5> QED
            BY <1>h, <2>2, <2>4, <3>2, <5>1
        <4> QED
          BY <4>1, <4>2
      <3> QED
        BY <3>1, <3>2
    <2> QED
      BY <1>g, <1>n, <2>2, <2>3, <2>4
  <1>5. CASE Restart
    <2>1. /\ UNCHANGED <<db, stored>> /\ mempool' = {} /\ next' = 1 /\ last' = None
          /\ replayed' = (replayed \/ \E i \in 1..(next - 1) : stored[i] # <<>>)
          /\ dirty' = FALSE
      BY <1>5 DEF Restart, LedgerLoaded
    <2>2. ASSUME ~ replayed'
          PROVE  /\ \A i \in next'..Len(stored') : \A j \in 1..Len(stored'[i]) : D(stored'[i][j])
                 /\ \A i \in next'..(Len(stored') - 1) : stored'[i] = <<>>
      <3>1. ~ replayed /\ \A i \in 1..(next - 1) : stored[i] = <<>>
        BY <2>1, <2>2
      <3>2. \A i \in 1..Len(stored) : i \in 1..(next - 1) \/ i \in next..Len(stored)
        BY <1>t
      <3>3. \A i \in 1..(next - 1) : Len(stored[i]) = 0
        BY <3>1
      <3>4. \A i \in 1..Len(stored) : \A j \in 1..Len(stored[i]) : C(stored[i][j])
        BY <1>h, <3>1, <3>2, <3>3
      <3>5. \A i \in 1..(Len(stored) - 1) : i \in 1..(next - 1) \/ i \in next..(Len(stored) - 1)
        BY <1>t
      <3> QED
        BY <1>h, <1>u, <2>1, <3>1, <3>4, <3>5
    <2> QED
      BY <1>g, <1>n, <2>1, <2>2
  <1>6. CASE UNCHANGED wireVars
    <2>1. UNCHANGED <<db, mempool, stored, next, replayed, last, dirty>>
      BY <1>6 DEF wireVars, chain, history, ledgerVars
    <2>2. HeldDoNotSend'
      BY <2>1 DEF HeldDoNotSend, Held
    <2> QED
      BY <1>g, <1>h, <1>u, <2>1, <2>2
  <1> QED
    BY <1>1, <1>2, <1>3, <1>4, <1>5, <1>6 DEF WireNext

\* The invariant about what was checked.
LEMMA FreshInvariant == WireSpec => [](NodeTypes /\ DirtyInv /\ FreshInv /\ HeldDoNotSend)
  <1>1. WireInit => NodeTypes /\ DirtyInv
    BY InitNode
  <1>2. WireInit => FreshInv /\ HeldDoNotSend
    <2> SUFFICES ASSUME WireInit PROVE FreshInv /\ HeldDoNotSend
      OBVIOUS
    <2>1. mempool = {} /\ stored = <<>> /\ next = 1 /\ last = None
      BY DEF WireInit
    <2>2. ~ dirty
      BY <1>1, <2>1 DEF DirtyInv, Idle
    <2>3. Len(stored) = 0
      BY <2>1
    <2>4. /\ \A i \in next..Len(stored) : FALSE
          /\ \A i \in next..(Len(stored) - 1) : FALSE
      BY <2>1, <2>3
    <2> QED
      BY <2>1, <2>2, <2>4 DEF FreshInv, HeldDoNotSend
  <1>3. NodeTypes /\ DirtyInv /\ FreshInv /\ HeldDoNotSend /\ [WireNext]_wireVars
        => (NodeTypes /\ DirtyInv /\ FreshInv /\ HeldDoNotSend)'
    BY StepNode, StepDirty, StepFresh
  <1> QED
    BY <1>1, <1>2, <1>3, PTL DEF WireSpec

\* However long a transfer waits, it is not executed in a block that began with
\* its sender disabled or frozen: FinalizeBlock does not look, but the re-check
\* of the mempool after every block does.
THEOREM HeldAccountsDoNotSend == WireSpec => []HeldDoNotSend
  BY FreshInvariant, PTL

-----------------------------------------------------------------------------
(* Balances                                                                 *)

AccountClaim(k) == <<"account", k[1], k[2]>>

\* What a transaction claims: the account it debits, the accounts a forced
\* redemption empties, and the nullifier it spends.
LEMMA ClaimFacts ==
    ASSUME NEW t \in Txs
    PROVE  /\ IsDebit(t) => AccountClaim(DebitKey(t, redemptionRequests)) \in Claims(t)
           /\ t.type = "AdverseAction" /\ t.kind = "redeem_forced" =>
                 \A a \in Assets : <<"account", a, t.target>> \in Claims(t)
           /\ t.type \in {"Transfer", "ExecuteContract"} =>
                 <<"nullifier", t.nullifier>> \in Claims(t)
  <1>1. t.type = "Burn" => Claims(t) = {<<"account", t.asset, t.account>>}
    BY DEF Claims
  <1>2. t.type = "Transfer" => Claims(t) = {<<"account", t.asset, t.from>>,
                                            <<"nullifier", t.nullifier>>}
    BY DEF Claims
  <1>3. t.type = "ExecuteContract" => Claims(t) =
            {<<"nullifier", t.nullifier>>}
            \cup IF MovesValue(t) THEN {<<"account", t.asset, t.party>>} ELSE {}
    BY DEF Claims
  <1>4. t.type = "AdverseAction" /\ t.kind = "redeem_forced" =>
            Claims(t) = {<<"account", a, t.target>> : a \in Assets}
    BY DEF Claims
  <1>5. t.type = "SettleCustodyRedemption" =>
            <<"account", redemptionRequests[t.request].pool[1],
              redemptionRequests[t.request].account>> \in Claims(t)
    BY DEF Claims
  <1>6. t.type = "ApplyCustodyDemurrage" => Claims(t) = {<<"account", t.asset, t.account>>}
    BY DEF Claims
  <1> QED
    BY <1>1, <1>2, <1>3, <1>4, <1>5, <1>6 DEF IsDebit, DebitKey, AccountClaim

\* What a transaction does to a balance: nothing or a credit, an opening, a
\* debit it claims, or setting it to zero.
AccountStep(t, k) ==
    \/ accounts[k] # None /\ accounts'[k].balance >= accounts[k].balance
    \/ accounts[k] = None /\ accounts'[k].balance >= 0
    \/ /\ IsDebit(t) /\ k = DebitKey(t, redemptionRequests) /\ k[1] \in Assets
       /\ accounts[k] # None
       /\ accounts'[k].balance >= accounts[k].balance - DebitAmount(t)
    \/ /\ accounts'[k].balance = 0
       /\ \/ t.type = "AdverseAction" /\ t.kind = "redeem_forced" /\ k[2] = t.target
          \/ t.type = "RegisterAccount" /\ k = <<"_", t.account>>

\* A balance after a transaction.
LEMMA AccountEffects ==
    ASSUME MemLedger, MemCustody, NEW t \in Txs, MemGrounded(t), ExecuteTx(t),
           NEW k \in AccountKeys, accounts'[k] # None
    PROVE  AccountStep(t, k)
  <1>a. accounts \in AccountMaps
    BY DEF MemLedger, LedgerMaps
  <1>b. \A x \in AccountKeys : accounts[x] # None => accounts[x].balance \in Int
    BY <1>a DEF AccountMaps, AccountRecords
  <1>c. /\ accounts[k] # None /\ accounts'[k].balance >= accounts[k].balance => AccountStep(t, k)
        /\ accounts[k] = None /\ accounts'[k].balance >= 0 => AccountStep(t, k)
    BY DEF AccountStep
  <1>u. ASSUME accounts'[k] = accounts[k] PROVE AccountStep(t, k)
    <2>1. accounts[k] # None /\ accounts[k].balance \in Int
      BY <1>b, <1>u
    <2>2. accounts'[k].balance >= accounts[k].balance
      BY <1>u, <2>1
    <2> QED
      BY <1>c, <2>1, <2>2
  <1>1. CASE t.type = "Mint" /\ ExecuteMint(t)
    <2> DEFINE key == <<t.asset, t.account>>
               opened == IF accounts[key] # None THEN accounts
                         ELSE [accounts EXCEPT ![key] = NewAccount]
    <2>1. key \in AccountKeys /\ t.amount \in Int /\ t.amount > 0
      BY <1>1, TxFields
    <2>2. accounts' = Credited(opened, key, t.amount)
      BY <1>1 DEF ExecuteMint
    <2> HIDE DEF key
    <2>3. /\ opened \in AccountMaps /\ opened[key] # None
          /\ \A x \in AccountKeys \ {key} : opened[x] = accounts[x]
          /\ accounts[key] # None => opened[key] = accounts[key]
          /\ accounts[key] = None => opened[key].balance = 0
      BY <1>a, <2>1, NewAccountFacts DEF AccountMaps
    <2> HIDE DEF opened
    <2>4. /\ accounts'[key].balance = opened[key].balance + t.amount
          /\ \A x \in AccountKeys \ {key} : accounts'[x] = accounts[x]
      BY <2>1, <2>2, <2>3, CreditFacts
    <2>5. CASE k = key
      <3>1. accounts[key] # None => accounts'[key].balance >= accounts[key].balance
        BY <1>b, <2>1, <2>3, <2>4
      <3>2. accounts[key] = None => accounts'[key].balance >= 0
        BY <2>1, <2>3, <2>4
      <3> QED
        BY <1>c, <2>5, <3>1, <3>2
    <2> QED
      BY <1>u, <2>4, <2>5
  <1>2. CASE t.type \in {"Burn", "ApplyCustodyDemurrage"} /\ (ExecuteBurn(t) \/ ExecuteDemurrage(t))
    <2> DEFINE key == <<t.asset, t.account>>
    <2>1. key \in AccountKeys /\ t.amount \in Int /\ - t.amount \in Int /\ t.asset \in Assets
      BY <1>2, TxFields
    <2>2. accounts[key] # None
      BY <1>2 DEF MemGrounded, Grounded
    <2>3. accounts' = Credited(accounts, key, - t.amount)
      BY <1>2 DEF ExecuteBurn, ExecuteDemurrage
    <2>4. IsDebit(t) /\ key = DebitKey(t, redemptionRequests) /\ DebitAmount(t) = t.amount
          /\ key[1] \in Assets
      BY <1>2, <2>1 DEF IsDebit, DebitKey, DebitAmount
    <2> HIDE DEF key
    <2>5. /\ accounts'[key].balance = accounts[key].balance - t.amount
          /\ \A x \in AccountKeys \ {key} : accounts'[x] = accounts[x]
      BY <1>a, <1>b, <2>1, <2>2, <2>3, CreditFacts
    <2>6. CASE k = key
      <3>1. accounts'[key].balance >= accounts[key].balance - t.amount
        BY <1>b, <2>1, <2>2, <2>5
      <3> QED
        BY <2>2, <2>4, <2>6, <3>1 DEF AccountStep
    <2> QED
      BY <1>u, <2>5, <2>6
  <1>3. CASE t.type = "Transfer" /\ ExecuteTransfer(t)
    <2> DEFINE from == <<t.asset, t.from>>
               to == <<t.asset, t.to>>
               mid == Credited(accounts, from, - t.amount)
    <2>1. /\ from \in AccountKeys /\ to \in AccountKeys /\ t.amount \in Int
          /\ - t.amount \in Int /\ t.amount > 0 /\ t.asset \in Assets
      BY <1>3, TxFields
    <2>2. accounts[from] # None /\ accounts[to] # None
      BY <1>3 DEF MemGrounded, Grounded
    <2>3. accounts' = Credited(mid, to, t.amount)
      BY <1>3 DEF ExecuteTransfer
    <2>4. IsDebit(t) /\ from = DebitKey(t, redemptionRequests) /\ DebitAmount(t) = t.amount
          /\ from[1] \in Assets
      BY <1>3, <2>1 DEF IsDebit, DebitKey, DebitAmount
    <2> HIDE DEF from, to
    <2>5. /\ mid \in AccountMaps /\ mid[from] # None
          /\ mid[from].balance = accounts[from].balance - t.amount
          /\ \A x \in AccountKeys \ {from} : mid[x] = accounts[x]
      BY <1>a, <1>b, <2>1, <2>2, CreditFacts
    <2> HIDE DEF mid
    <2>6. mid[to] # None /\ mid[to].balance \in Int
      BY <2>1, <2>2, <2>5 DEF AccountMaps, AccountRecords
    <2>7. /\ accounts'[to].balance = mid[to].balance + t.amount
          /\ \A x \in AccountKeys \ {to} : accounts'[x] = mid[x]
      BY <2>1, <2>3, <2>5, <2>6, CreditFacts
    <2>8. CASE k = from
      <3>1. accounts'[from].balance >= accounts[from].balance - t.amount
        BY <1>b, <2>1, <2>2, <2>5, <2>6, <2>7
      <3> QED
        BY <2>2, <2>4, <2>8, <3>1 DEF AccountStep
    <2>9. CASE k # from /\ k = to
      <3>1. accounts'[to].balance >= accounts[to].balance
        BY <1>b, <2>1, <2>2, <2>5, <2>7, <2>9
      <3> QED
        BY <1>c, <2>2, <2>9, <3>1
    <2> QED
      BY <1>u, <2>5, <2>7, <2>8, <2>9
  <1>4. CASE t.type = "RegisterAccount" /\ ExecuteRegisterAccount(t)
    <2> DEFINE key == <<"_", t.account>>
    <2>1. key \in AccountKeys
      BY <1>4, TxFields
    <2>2. accounts' = [accounts EXCEPT ![key] = NewAccount]
      BY <1>4 DEF ExecuteRegisterAccount
    <2>3. accounts'[key] = NewAccount /\ \A x \in AccountKeys \ {key} : accounts'[x] = accounts[x]
      <3> HIDE DEF key
      <3> QED
        BY <1>a, <2>1, <2>2 DEF AccountMaps
    <2>4. CASE k = key
      BY <1>4, <2>3, <2>4, NewAccountFacts DEF AccountStep
    <2> QED
      BY <1>u, <2>3, <2>4
  <1>5. CASE t.type = "ExecuteContract" /\ ExecuteExecuteContract(t)
    <2> DEFINE from == <<t.asset, t.party>>
               to == <<t.asset, t.counterparty>>
               mid == Credited(accounts, from, - t.amount)
    <2>1. CASE ~ MovesValue(t)
      BY <1>5, <1>u, <2>1 DEF ExecuteExecuteContract
    <2>2. CASE MovesValue(t)
      <3>1. /\ from \in AccountKeys /\ t.amount \in Int /\ - t.amount \in Int /\ t.amount > 0
            /\ t.counterparty # None => to \in AccountKeys
            /\ t.asset \in Assets
        BY <1>5, <2>2, TxFields DEF MovesValue
      <3>2. accounts[from] # None /\ (t.counterparty # None => accounts[to] # None)
        BY <1>5, <2>2 DEF MemGrounded, Grounded
      <3>3. accounts' = IF t.counterparty = None THEN mid ELSE Credited(mid, to, t.amount)
        BY <1>5, <2>2 DEF ExecuteExecuteContract
      <3>4. IsDebit(t) /\ from = DebitKey(t, redemptionRequests) /\ DebitAmount(t) = t.amount
            /\ from[1] \in Assets
        BY <1>5, <2>2, <3>1 DEF IsDebit, DebitKey, DebitAmount
      <3> HIDE DEF from, to
      <3>5. /\ mid \in AccountMaps /\ mid[from] # None
            /\ mid[from].balance = accounts[from].balance - t.amount
            /\ \A x \in AccountKeys \ {from} : mid[x] = accounts[x]
        BY <1>a, <1>b, <3>1, <3>2, CreditFacts
      <3> HIDE DEF mid
      <3>6. CASE t.counterparty = None
        <4>1. accounts' = mid
          BY <3>3, <3>6
        <4>2. CASE k = from
          <5>1. accounts'[from].balance >= accounts[from].balance - t.amount
            BY <1>b, <3>1, <3>2, <3>5, <4>1
          <5> QED
            BY <3>2, <3>4, <4>2, <5>1 DEF AccountStep
        <4> QED
          BY <1>u, <3>5, <4>1, <4>2
      <3>7. CASE t.counterparty # None
        <4>0. accounts' = Credited(mid, to, t.amount) /\ to \in AccountKeys /\ accounts[to] # None
          BY <3>1, <3>2, <3>3, <3>7
        <4>1. mid[to] # None /\ mid[to].balance \in Int
          BY <3>5, <4>0 DEF AccountMaps, AccountRecords
        <4>2. /\ accounts'[to].balance = mid[to].balance + t.amount
              /\ \A x \in AccountKeys \ {to} : accounts'[x] = mid[x]
          BY <3>1, <3>5, <4>0, <4>1, CreditFacts
        <4>3. CASE k = from
          <5>1. accounts'[from].balance >= accounts[from].balance - t.amount
            BY <1>b, <3>1, <3>2, <3>5, <4>1, <4>2
          <5> QED
            BY <3>2, <3>4, <4>3, <5>1 DEF AccountStep
        <4>4. CASE k # from /\ k = to
          <5>1. accounts'[to].balance >= accounts[to].balance
            BY <1>b, <3>1, <3>5, <4>0, <4>2, <4>4
          <5> QED
            BY <1>c, <4>0, <4>4, <5>1
        <4> QED
          BY <1>u, <3>5, <4>2, <4>3, <4>4
      <3> QED
        BY <3>6, <3>7
    <2> QED
      BY <2>1, <2>2
  <1>6. CASE t.type = "AdverseAction" /\ ExecuteAdverseAction(t)
    <2>1. accounts'[k] = IF accounts[k] # None /\ k[2] = t.target
                            /\ (t.scope = None \/ k[1] = t.scope)
                         THEN Affected(accounts[k], t.kind) ELSE accounts[k]
      BY <1>6 DEF ExecuteAdverseAction
    <2>2. t.kind \in {"disable", "freeze", "rescind", "restore", "redeem_forced"}
      BY <1>6, TxKinds DEF AdverseActionTxs
    <2>3. CASE accounts[k] # None /\ k[2] = t.target /\ accounts'[k] = Affected(accounts[k], t.kind)
      <3>1. accounts[k] \in AccountRecords
        BY <1>a, <2>3 DEF AccountMaps
      <3>2. /\ t.kind # "redeem_forced" => accounts'[k].balance = accounts[k].balance
            /\ t.kind = "redeem_forced" => accounts'[k].balance = 0
        BY <2>2, <2>3, <3>1, AffectedFacts
      <3> QED
        BY <1>6, <1>b, <2>3, <3>2 DEF AccountStep
    <2> QED
      BY <1>u, <2>1, <2>3
  <1>7. CASE t.type = "SettleCustodyRedemption" /\ ExecuteSettle(t)
    <2> DEFINE q == redemptionRequests[t.request]
               key == <<q.pool[1], q.account>>
    <2>1. t.request \in Requests /\ t.burn \in Int /\ - t.burn \in Int
      BY <1>7, TxFields
    <2>2. q # None
      BY <1>7 DEF MemGrounded, Grounded
    <2>3. q \in RequestRecords /\ accounts[key] # None
      BY <2>1, <2>2 DEF MemCustody, CustodyMaps
    <2>4. key \in AccountKeys /\ q.pool[1] \in Assets
      BY <2>3 DEF RequestRecords, AccountKeys
    <2>5. accounts' = Credited(accounts, key, - t.burn)
      BY <1>7 DEF ExecuteSettle
    <2>6. IsDebit(t) /\ key = DebitKey(t, redemptionRequests) /\ DebitAmount(t) = t.burn
          /\ key[1] \in Assets
      BY <1>7, <2>4 DEF IsDebit, DebitKey, DebitAmount
    <2> HIDE DEF key
    <2>7. /\ accounts'[key].balance = accounts[key].balance - t.burn
          /\ \A x \in AccountKeys \ {key} : accounts'[x] = accounts[x]
      BY <1>a, <1>b, <2>1, <2>3, <2>4, <2>5, CreditFacts
    <2>8. CASE k = key
      <3>1. accounts'[key].balance >= accounts[key].balance - t.burn
        BY <1>b, <2>1, <2>3, <2>4, <2>7
      <3> QED
        BY <2>3, <2>6, <2>8, <3>1 DEF AccountStep
    <2> QED
      BY <1>u, <2>7, <2>8
  <1>8. CASE accounts' = accounts
    BY <1>u, <1>8
  <1>9. CASE LedgerExecuteTx(t)
    <2>1. \/ ExecuteRegisterAsset(t) \/ ExecuteRegisterValidator(t) \/ ExecuteRegisterContract(t)
          \/ ExecuteActivateContract(t)
          => accounts' = accounts
      BY DEF ExecuteRegisterAsset, ExecuteRegisterValidator, ExecuteRegisterContract,
         ExecuteActivateContract
    <2> QED
      BY <1>1, <1>2, <1>3, <1>4, <1>5, <1>6, <1>8, <1>9, <2>1 DEF LedgerExecuteTx
  <1>10. CASE CustodyExecuteTx(t, height)
    <2>1. \/ ExecuteWarehouseOperator(t) \/ ExecuteSkuClass(t) \/ ExecutePolicy(t)
          \/ ExecuteIntakeLot(t, height) \/ ExecuteRedemption(t)
          => accounts' = accounts
      BY DEF ExecuteWarehouseOperator, ExecuteSkuClass, ExecutePolicy, ExecuteIntakeLot,
         ExecuteRedemption, ledgerAside
    <2> QED
      BY <1>2, <1>7, <1>8, <1>10, <2>1 DEF CustodyExecuteTx
  <1> QED
    BY <1>9, <1>10 DEF ExecuteTx

\* Debited amounts are numbers.
LEMMA DebitNumbers ==
    ASSUME NEW t \in Txs, IsDebit(t)
    PROVE  DebitAmount(t) \in Int
  BY TxFields DEF IsDebit, DebitAmount

\* A request keeps its goods and its account unless it is made again.
LEMMA RequestEffects ==
    ASSUME MemLedger, MemCustody, NEW t \in Txs, MemGrounded(t), ExecuteTx(t),
           NEW r \in Requests, redemptionRequests[r] # None,
           ~ (t.type = "RequestCustodyRedemption" /\ t.request = r)
    PROVE  /\ redemptionRequests'[r].pool = redemptionRequests[r].pool
           /\ redemptionRequests'[r].account = redemptionRequests[r].account
  <1>r. redemptionRequests \in [Requests -> RequestRecords \cup {None}]
    BY DEF MemCustody, CustodyMaps
  <1>1. CASE redemptionRequests' = redemptionRequests
    BY <1>1
  <1>2. CASE t.type = "SettleCustodyRedemption" /\ ExecuteSettle(t)
    <2> DEFINE q == redemptionRequests[t.request]
               s == [q EXCEPT !.status = "settled"]
    <2>1. t.request \in Requests
      BY <1>2, TxFields
    <2>2. q # None
      BY <1>2 DEF MemGrounded, Grounded
    <2>3. q \in RequestRecords
      BY <1>r, <2>1, <2>2
    <2>4. redemptionRequests' = [redemptionRequests EXCEPT ![t.request].status = "settled"]
      BY <1>2 DEF ExecuteSettle
    <2>5. redemptionRequests' = [redemptionRequests EXCEPT ![t.request] = s]
      BY <1>r, <2>1, <2>4
    <2>6. s.pool = q.pool /\ s.account = q.account
      BY <2>3 DEF RequestRecords
    <2> HIDE DEF s
    <2> QED
      BY <1>r, <2>1, <2>5, <2>6
  <1>3. CASE t.type = "RequestCustodyRedemption" /\ ExecuteRedemption(t)
    <2>1. redemptionRequests'[r] = redemptionRequests[r]
      BY <1>3, <1>r DEF ExecuteRedemption
    <2> QED
      BY <2>1
  <1>4. CASE LedgerExecuteTx(t) /\ UNCHANGED custodyVars
    BY <1>1, <1>4 DEF custodyVars
  <1>5. CASE CustodyExecuteTx(t, height)
    <2>1. \/ ExecuteWarehouseOperator(t) \/ ExecuteSkuClass(t) \/ ExecutePolicy(t)
          \/ ExecuteIntakeLot(t, height) \/ ExecuteDemurrage(t)
          => redemptionRequests' = redemptionRequests
      BY DEF ExecuteWarehouseOperator, ExecuteSkuClass, ExecutePolicy, ExecuteIntakeLot,
         ExecuteDemurrage
    <2> QED
      BY <1>1, <1>2, <1>3, <1>5, <2>1 DEF CustodyExecuteTx
  <1> QED
    BY <1>4, <1>5 DEF ExecuteTx

\* Within a block memory moves below the database only on claimed accounts, and
\* below zero only on contended ones.
BalanceInv ==
    ~ replayed =>
      /\ \A k \in AccountKeys : db[1][3][k] # None /\ AccountClaim(k) \notin contended =>
            db[1][3][k].balance >= 0
      /\ \A k \in AccountKeys : accounts[k] # None /\ AccountClaim(k) \notin contended =>
            accounts[k].balance >= 0
      /\ \A k \in AccountKeys : k[1] \in Assets /\ db[1][3][k] # None
            /\ AccountClaim(k) \notin claimed \cup contended =>
               accounts[k].balance >= db[1][3][k].balance
      /\ \A r \in Requests : db[2][6][r] # None =>
            /\ redemptionRequests[r].pool = db[2][6][r].pool
            /\ redemptionRequests[r].account = db[2][6][r].account

\* Executing a transaction.
LEMMA DeliverBalance ==
    ASSUME NodeTypes, DirtyInv, FreshInv, BalanceInv, DeliverTx
    PROVE  BalanceInv'
  <1> SUFFICES ASSUME ~ replayed' PROVE BalanceInv'
    BY DEF BalanceInv
  <1> DEFINE t == stored[next][txi]
  <1>1. /\ UNCHANGED <<db, stored, next, replayed>> /\ ExecuteTx(t)
        /\ claimed' = claimed \cup Claims(t)
        /\ contended' = contended \cup (claimed \cap Claims(t))
    BY DEF DeliverTx, Note
  <1>2. t \in Txs /\ MemGrounded(t) /\ next \in 1..Len(stored) /\ txi \in 1..Len(stored[next])
    BY DeliverEffects
  <1>3. DbChecked(t) /\ DbGrounded(t)
    <2>1. next \in next..Len(stored)
      BY <1>2
    <2> QED
      BY <1>1, <1>2, <2>1 DEF FreshInv, NodeTypes
  <1> HIDE DEF t
  <1>4. /\ MemLedger /\ MemCustody /\ DbLedger /\ DbCustody
        /\ \A k \in AccountKeys : db[1][3][k] # None => accounts[k] # None
        /\ \A r \in Requests : db[2][6][r] # None => redemptionRequests[r] # None
    BY DEF NodeTypes, DbGrows, Grows
  <1>5. /\ \A k \in AccountKeys : accounts[k] # None => accounts[k].balance \in Int
        /\ \A k \in AccountKeys : db[1][3][k] # None => db[1][3][k].balance \in Int
    BY <1>4 DEF MemLedger, DbLedger, LedgerMaps, AccountMaps, AccountRecords
  <1>6. /\ \A k \in AccountKeys : accounts'[k] # None => accounts'[k].balance \in Int
        /\ \A k \in AccountKeys : accounts[k] # None => accounts'[k] # None
    <2>1. MemLedger' /\ MemGrows
      BY DeliverEffects
    <2> QED
      BY <2>1 DEF MemLedger, LedgerMaps, AccountMaps, AccountRecords, MemGrows, Grows
  <1>7. ASSUME NEW k \in AccountKeys, accounts'[k] # None, AccountClaim(k) \notin contended'
        PROVE  /\ accounts'[k].balance >= 0
               /\ k[1] \in Assets /\ db[1][3][k] # None /\ AccountClaim(k) \notin claimed' =>
                     accounts'[k].balance >= db[1][3][k].balance
    <2>0. /\ AccountClaim(k) \notin contended
          /\ AccountClaim(k) \in Claims(t) => AccountClaim(k) \notin claimed
          /\ AccountClaim(k) \notin claimed' => AccountClaim(k) \notin claimed
                                                /\ AccountClaim(k) \notin Claims(t)
      BY <1>1, <1>7
    <2>1. /\ accounts[k] # None => accounts[k].balance >= 0
          /\ k[1] \in Assets /\ db[1][3][k] # None /\ AccountClaim(k) \notin claimed =>
                accounts[k].balance >= db[1][3][k].balance
      BY <1>1, <2>0 DEF BalanceInv
    <2>s. AccountStep(t, k)
      BY <1>1, <1>2, <1>4, <1>7, AccountEffects
    <2>2. CASE accounts[k] # None /\ accounts'[k].balance >= accounts[k].balance
      <3>1. accounts'[k].balance >= 0
        BY <1>5, <1>6, <1>7, <2>1, <2>2
      <3>2. ASSUME k[1] \in Assets, db[1][3][k] # None, AccountClaim(k) \notin claimed'
            PROVE  accounts'[k].balance >= db[1][3][k].balance
        <4>1. accounts[k].balance >= db[1][3][k].balance
          BY <2>0, <2>1, <3>2
        <4> QED
          BY <1>5, <1>6, <1>7, <2>2, <3>2, <4>1
      <3> QED
        BY <3>1, <3>2
    <2>3. CASE accounts[k] = None /\ accounts'[k].balance >= 0
      BY <1>4, <2>3
    <2>4. CASE /\ IsDebit(t) /\ k = DebitKey(t, redemptionRequests) /\ k[1] \in Assets
               /\ accounts[k] # None
               /\ accounts'[k].balance >= accounts[k].balance - DebitAmount(t)
      <3>1. AccountClaim(k) \in Claims(t)
        BY <1>2, <2>4, ClaimFacts
      <3>2. AccountClaim(k) \notin claimed /\ AccountClaim(k) \in claimed'
        BY <1>1, <2>0, <3>1
      <3>3. DebitKey(t, redemptionRequests) = DebitKey(t, db[2][6])
        <4>1. CASE t.type = "SettleCustodyRedemption"
          <5>1. t.request \in Requests
            BY <1>2, <4>1, TxFields
          <5>2. db[2][6][t.request] # None
            BY <1>3, <4>1 DEF DbGrounded, Grounded
          <5> QED
            BY <1>1, <4>1, <5>1, <5>2 DEF BalanceInv, DebitKey
        <4>2. CASE t.type # "SettleCustodyRedemption"
          BY <2>4, <4>2 DEF DebitKey, IsDebit
        <4> QED
          BY <4>1, <4>2
      <3>4. db[1][3][k] # None /\ db[1][3][k].balance >= DebitAmount(t)
        BY <1>3, <2>4, <3>3 DEF DbChecked, Checked
      <3>5. accounts[k].balance >= db[1][3][k].balance
        BY <2>1, <2>4, <3>2, <3>4
      <3>6. DebitAmount(t) \in Int
        BY <1>2, <2>4, DebitNumbers
      <3>7. accounts'[k].balance >= 0
        BY <1>5, <1>6, <1>7, <2>4, <3>4, <3>5, <3>6
      <3> QED
        BY <3>2, <3>7
    <2>5. CASE /\ accounts'[k].balance = 0
               /\ t.type = "AdverseAction" /\ t.kind = "redeem_forced" /\ k[2] = t.target
      <3>1. k[1] \in Assets => AccountClaim(k) \in claimed'
        BY <1>1, <1>2, <2>5, ClaimFacts DEF AccountClaim
      <3>2. accounts'[k].balance >= 0
        BY <2>5
      <3> QED
        BY <3>1, <3>2
    <2>6. CASE /\ accounts'[k].balance = 0
               /\ t.type = "RegisterAccount" /\ k = <<"_", t.account>>
      <3>1. db[1][3][k] = None
        BY <1>3, <2>6 DEF DbChecked, Checked
      <3>2. accounts'[k].balance >= 0
        <4>1. accounts'[k].balance = 0
          BY <2>6
        <4> QED
          BY <4>1
      <3> QED
        BY <3>1, <3>2
    <2> QED
      BY <2>s, <2>2, <2>3, <2>4, <2>5, <2>6 DEF AccountStep
  <1>8. ASSUME NEW r \in Requests, db[2][6][r] # None
        PROVE  /\ redemptionRequests'[r].pool = db[2][6][r].pool
               /\ redemptionRequests'[r].account = db[2][6][r].account
    <2>1. ~ (t.type = "RequestCustodyRedemption" /\ t.request = r)
      BY <1>3, <1>8 DEF DbChecked, Checked
    <2>2. redemptionRequests[r] # None
      BY <1>4, <1>8
    <2>3. /\ redemptionRequests'[r].pool = redemptionRequests[r].pool
          /\ redemptionRequests'[r].account = redemptionRequests[r].account
      BY <1>1, <1>2, <1>4, <2>1, <2>2, RequestEffects
    <2> QED
      BY <1>1, <1>8, <2>3 DEF BalanceInv
  <1>9. \A k \in AccountKeys : db[1][3][k] # None /\ AccountClaim(k) \notin contended' =>
            db[1][3][k].balance >= 0
    BY <1>1 DEF BalanceInv
  <1>10. \A k \in AccountKeys : k[1] \in Assets /\ db[1][3][k] # None
            /\ AccountClaim(k) \notin claimed' \cup contended' =>
               accounts'[k].balance >= db[1][3][k].balance
    BY <1>4, <1>6, <1>7
  <1> QED
    BY <1>1, <1>7, <1>8, <1>9, <1>10 DEF BalanceInv, AccountClaim

\* Every step keeps the balances covered.
LEMMA StepBalance ==
    ASSUME NodeTypes, DirtyInv, FreshInv, BalanceInv, [WireNext]_wireVars
    PROVE  BalanceInv'
  <1>u. ASSUME UNCHANGED <<accounts, redemptionRequests, db, claimed, contended, replayed>>
        PROVE  BalanceInv'
    BY <1>u DEF BalanceInv
  <1>1. ASSUME NEW t \in Traffic[profile], CheckTx(t) PROVE BalanceInv'
    BY <1>1, <1>u DEF CheckTx, ledgerVars, custodyVars
  <1>2. CASE DecideBlock
    BY <1>2, <1>u DEF DecideBlock, ledgerVars, custodyVars
  <1>3. CASE DeliverTx
    BY <1>3, DeliverBalance
  <1>4. CASE EndBlock
    <2>1. db' = Persisted /\ UNCHANGED <<accounts, redemptionRequests>>
      BY <1>4, EndBlockSaves
    <2>2. db'[1][3] = accounts /\ db'[2][6] = redemptionRequests
      BY <2>1 DEF Persisted, LedgerPersisted, CustodyPersisted
    <2>3. UNCHANGED <<contended, replayed>>
      BY <1>4 DEF EndBlock
    <2>4. \A k \in AccountKeys : accounts[k] # None => accounts[k].balance >= accounts[k].balance
      BY DEF NodeTypes, MemLedger, LedgerMaps, AccountMaps, AccountRecords
    <2>5. ~ replayed => \A k \in AccountKeys : accounts[k] # None /\ AccountClaim(k) \notin contended =>
            accounts[k].balance >= 0
      BY DEF BalanceInv
    <2> QED
      BY <2>1, <2>2, <2>3, <2>4, <2>5 DEF BalanceInv, AccountClaim
  <1>5. CASE Restart
    <2>1. accounts' = db[1][3] /\ redemptionRequests' = db[2][6] /\ db' = db
      BY <1>5, RestartLoads
    <2>2. UNCHANGED contended /\ (replayed => replayed')
      BY <1>5 DEF Restart
    <2>3. \A k \in AccountKeys : db[1][3][k] # None => db[1][3][k].balance >= db[1][3][k].balance
      BY DEF NodeTypes, DbLedger, LedgerMaps, AccountMaps, AccountRecords
    <2>4. ~ replayed => \A k \in AccountKeys : db[1][3][k] # None /\ AccountClaim(k) \notin contended =>
            db[1][3][k].balance >= 0
      BY DEF BalanceInv
    <2> QED
      BY <2>1, <2>2, <2>3, <2>4 DEF BalanceInv, AccountClaim
  <1>6. CASE UNCHANGED wireVars
    BY <1>6, <1>u DEF wireVars, history, ledgerVars, custodyVars
  <1> QED
    BY <1>1, <1>2, <1>3, <1>4, <1>5, <1>6 DEF WireNext

\* Opening balances are not negative.
LEMMA InitBalance ==
    ASSUME WireInit
    PROVE  BalanceInv
  <1>1. db = Persisted
    BY DEF WireInit
  <1>2. db[1][3] = accounts /\ db[2][6] = redemptionRequests
    BY <1>1 DEF Persisted, LedgerPersisted, CustodyPersisted
  <1>3. \A k \in AccountKeys : accounts[k] # None =>
           accounts[k].balance \in Int /\ accounts[k].balance >= 0
    <2> SUFFICES ASSUME NEW k \in AccountKeys, accounts[k] # None
                 PROVE  accounts[k].balance \in Int /\ accounts[k].balance >= 0
      OBVIOUS
    <2>1. Opening[profile] # None /\ OpenInit(Opening[profile]) /\ profile \in Profiles
      BY DEF WireInit, LedgerInit
    <2> DEFINE b == Opening[profile]
               x == IF k[1] = "_" THEN 0 ELSE b[k[2]]
    <2>2. accounts[k] = [NewAccount EXCEPT !.balance = x]
      BY <2>1 DEF OpenInit
    <2>3. b \in [Commitments -> Nat]
      BY <2>1, WireAppConstants
    <2>4. k[2] \in Commitments
      BY DEF AccountKeys
    <2> HIDE DEF b
    <2>5. b[k[2]] \in Nat
      BY <2>3, <2>4
    <2>6. x = 0 \/ x = b[k[2]]
      BY Zenon DEF x
    <2> HIDE DEF x
    <2>7. x \in Int /\ x >= 0
      BY <2>5, <2>6
    <2>8. accounts[k].balance = x
      BY <2>2 DEF NewAccount
    <2> QED
      BY <2>7, <2>8
  <1>4. \A k \in AccountKeys : accounts[k] # None => accounts[k].balance >= accounts[k].balance
    BY <1>3
  <1> QED
    BY <1>2, <1>3, <1>4 DEF BalanceInv

\* The invariant about balances.
LEMMA BalanceInvariant == WireSpec => [](NodeTypes /\ BalanceInv)
  <1>1. WireInit => BalanceInv
    BY InitBalance
  <1>2. NodeTypes /\ DirtyInv /\ FreshInv /\ BalanceInv /\ [WireNext]_wireVars => BalanceInv'
    BY StepBalance
  <1> QED
    BY <1>1, <1>2, FreshInvariant, PTL DEF WireSpec

\* Without validation in FinalizeBlock an account is overdrawn only by a second
\* debit of its block or by an execution again after a restart: the balance
\* checked before is still there for the block's first debit.
THEOREM OverdraftExplained == WireSpec => []NoOverdraft
  <1>1. NodeTypes /\ BalanceInv => NoOverdraft
    <2> SUFFICES ASSUME NodeTypes, BalanceInv, ~ replayed, NEW k \in AccountKeys,
                        accounts[k] # None, accounts[k].balance < 0,
                        AccountClaim(k) \notin contended
                 PROVE  FALSE
      BY DEF NoOverdraft, AccountClaim
    <2>1. accounts[k].balance \in Int
      BY DEF NodeTypes, MemLedger, LedgerMaps, AccountMaps, AccountRecords
    <2>2. accounts[k].balance >= 0
      BY DEF BalanceInv
    <2> QED
      BY <2>1, <2>2
  <1> QED
    BY <1>1, BalanceInvariant, PTL

-----------------------------------------------------------------------------
(* Contracts                                                                *)

Spends(t) == t.type \in {"Transfer", "ExecuteContract"}

\* What a transaction does to the two lists and to contracts.
LEMMA RecordEffects ==
    ASSUME MemLedger, MemCustody, NEW t \in Txs, MemGrounded(t), ExecuteTx(t)
    PROVE  /\ ~ Spends(t) => UNCHANGED <<transferRecords, participants>>
           /\ Spends(t) => Recorded(t)
           /\ t.type # "ExecuteContract" => UNCHANGED contractExecutions
           /\ t.type = "ExecuteContract" =>
                 /\ contractExecutions' = [contractExecutions EXCEPT ![t.nonce] = t.contract]
                 /\ contracts'[t.contract] # None
                 /\ contracts'[t.contract].count = contracts[t.contract].count + 1
                 /\ \A c \in Contracts \ {t.contract} : contracts'[c] = contracts[c]
           /\ t.type = "RegisterContract" =>
                 /\ contracts'[t.contract] # None /\ contracts'[t.contract].count = 0
                 /\ \A c \in Contracts \ {t.contract} : contracts'[c] = contracts[c]
           /\ t.type \notin {"ExecuteContract", "RegisterContract"} =>
                 \A c \in Contracts : contracts[c] # None =>
                    contracts'[c] # None /\ contracts'[c].count = contracts[c].count
           /\ t.type \notin {"ExecuteContract", "RegisterContract"} =>
                 \A c \in Contracts : contracts[c] = None => contracts'[c] = None
  <1>c. contracts \in [Contracts -> ContractRecords \cup {None}]
    BY DEF MemLedger, LedgerMaps
  <1>1. CASE t.type = "Transfer" /\ ExecuteTransfer(t)
    BY <1>1 DEF ExecuteTransfer, Spends, contractVars
  <1>2. CASE t.type = "ExecuteContract" /\ ExecuteExecuteContract(t)
    <2>1. t.contract \in Contracts /\ t.amount \in Int
      BY <1>2, TxFields
    <2>2. contracts[t.contract] # None
      BY <1>2 DEF MemGrounded, Grounded
    <2>3. /\ Recorded(t)
          /\ contractExecutions' = [contractExecutions EXCEPT ![t.nonce] = t.contract]
          /\ contracts' = [contracts EXCEPT ![t.contract].count = @ + 1,
                                            ![t.contract].executed = @ + t.amount]
      BY <1>2 DEF ExecuteExecuteContract
    <2>4. /\ contracts'[t.contract] # None
          /\ contracts'[t.contract].count = contracts[t.contract].count + 1
          /\ \A c \in Contracts \ {t.contract} : contracts'[c] = contracts[c]
      BY <2>1, <2>2, <2>3, CountFacts
    <2> QED
      BY <1>2, <2>3, <2>4 DEF Spends
  <1>3. CASE t.type = "RegisterContract" /\ ExecuteRegisterContract(t)
    <2> DEFINE r == [asset |-> t.asset, expires |-> t.expires, count |-> 0, executed |-> 0,
                     status |-> IF t.pending THEN "pending_condition" ELSE "active"]
    <2>1. /\ t.contract \in Contracts /\ t.asset \in Assets \cup {None}
          /\ t.expires \in BOOLEAN
      BY <1>3, TxKinds DEF RegisterContractTxs
    <2>2. r \in ContractRecords /\ r.count = 0
      BY <2>1 DEF ContractRecords
    <2>3. r # None
      BY <2>2, LedgerNone DEF ContractRecords
    <2>4. /\ contracts' = [contracts EXCEPT ![t.contract] = r]
          /\ UNCHANGED <<transferRecords, participants, contractExecutions>>
      BY <1>3 DEF ExecuteRegisterContract, lists
    <2> HIDE DEF r
    <2>5. contracts'[t.contract] = r /\ \A c \in Contracts \ {t.contract} : contracts'[c] = contracts[c]
      BY <1>c, <2>1, <2>4
    <2> QED
      BY <1>3, <2>2, <2>3, <2>4, <2>5 DEF Spends
  <1>4. CASE t.type = "ActivateContract" /\ ExecuteActivateContract(t)
    <2> DEFINE r == [contracts[t.contract] EXCEPT !.status = "active"]
    <2>1. t.contract \in Contracts
      BY <1>4, TxFields
    <2>2. contracts[t.contract] # None
      BY <1>4 DEF MemGrounded, Grounded
    <2>3. contracts[t.contract] \in ContractRecords
      BY <1>c, <2>1, <2>2
    <2>4. r \in ContractRecords /\ r.count = contracts[t.contract].count
      BY <2>3 DEF ContractRecords
    <2>5. r # None
      BY <2>4, LedgerNone DEF ContractRecords
    <2>6. /\ contracts' = [contracts EXCEPT ![t.contract].status = "active"]
          /\ UNCHANGED <<transferRecords, participants, contractExecutions>>
      BY <1>4 DEF ExecuteActivateContract, lists
    <2>7. contracts' = [contracts EXCEPT ![t.contract] = r]
      BY <1>c, <2>1, <2>6
    <2> HIDE DEF r
    <2>8. contracts'[t.contract] = r /\ \A c \in Contracts \ {t.contract} : contracts'[c] = contracts[c]
      BY <1>c, <2>1, <2>7
    <2> QED
      BY <1>4, <2>2, <2>4, <2>5, <2>6, <2>8 DEF Spends
  <1>5. CASE /\ ~ Spends(t) /\ t.type # "RegisterContract"
             /\ UNCHANGED <<transferRecords, participants, contracts, contractExecutions>>
    BY <1>5 DEF Spends
  <1>6. CASE LedgerExecuteTx(t)
    <2>1. \/ ExecuteRegisterAsset(t) \/ ExecuteMint(t) \/ ExecuteBurn(t)
          \/ ExecuteRegisterAccount(t) \/ ExecuteRegisterValidator(t) \/ ExecuteAdverseAction(t)
          => UNCHANGED <<transferRecords, participants, contracts, contractExecutions>>
      BY DEF ExecuteRegisterAsset, ExecuteMint, ExecuteBurn, ExecuteRegisterAccount,
         ExecuteRegisterValidator, ExecuteAdverseAction, lists, contractVars
    <2>2. CASE \/ t.type = "RegisterAsset" /\ ExecuteRegisterAsset(t)
               \/ t.type = "Mint" /\ ExecuteMint(t)
               \/ t.type = "Burn" /\ ExecuteBurn(t)
               \/ t.type = "RegisterAccount" /\ ExecuteRegisterAccount(t)
               \/ t.type = "RegisterValidator" /\ ExecuteRegisterValidator(t)
               \/ t.type = "AdverseAction" /\ ExecuteAdverseAction(t)
      <3>1. ~ Spends(t) /\ t.type # "RegisterContract"
        BY <2>2 DEF Spends
      <3> QED
        BY <1>5, <2>1, <2>2, <3>1
    <2> QED
      BY <1>1, <1>2, <1>3, <1>4, <1>6, <2>2 DEF LedgerExecuteTx
  <1>7. CASE CustodyExecuteTx(t, height)
    <2>1. UNCHANGED <<transferRecords, participants, contracts, contractExecutions>>
      BY <1>7 DEF CustodyExecuteTx, ExecuteWarehouseOperator, ExecuteSkuClass, ExecutePolicy,
         ExecuteIntakeLot, ExecuteRedemption, ExecuteSettle, ExecuteDemurrage, ledgerAside,
         lists, contractVars
    <2>2. ~ Spends(t) /\ t.type # "RegisterContract"
      BY <1>7 DEF CustodyExecuteTx, Spends
    <2> QED
      BY <1>5, <2>1, <2>2
  <1> QED
    BY <1>6, <1>7 DEF ExecuteTx

\* The nonces of a contract's executions.
Executed(ex, c) == {x \in Nonces : ex[x] = c}

\* Executions are transfers of List 1, those of a contract are as many as it
\* says, and an unknown contract has none.
Counted(co, ex, tr) ==
    /\ \A x \in Nonces : ex[x] # None => tr[x] # None
    /\ \A c \in Contracts : co[c] = None => Executed(ex, c) = {}
    /\ \A c \in Contracts : co[c] # None =>
          IsFiniteSet(Executed(ex, c)) /\ co[c].count = Cardinality(Executed(ex, c))

CountInv ==
    reused = {} /\ ~ replayed =>
      /\ Counted(contracts, contractExecutions, transferRecords)
      /\ Counted(db[1][6], db[1][7], db[1][4])
      /\ \A c \in Contracts : db[1][6][c] = None => Executed(contractExecutions, c) = {}

\* Executing a transaction.
LEMMA DeliverCount ==
    ASSUME NodeTypes, DirtyInv, FreshInv, CountInv, DeliverTx
    PROVE  CountInv'
  <1> SUFFICES ASSUME reused' = {}, ~ replayed' PROVE CountInv'
    BY DEF CountInv
  <1> DEFINE t == stored[next][txi]
  <1>1. /\ UNCHANGED <<db, replayed>> /\ ExecuteTx(t)
        /\ reused' = IF t.type \in {"Transfer", "ExecuteContract"}
                        /\ transferRecords[t.nonce] # None
                     THEN reused \cup {t.nonce} ELSE reused
    BY DEF DeliverTx, Note
  <1>2. t \in Txs /\ MemGrounded(t) /\ next \in 1..Len(stored) /\ txi \in 1..Len(stored[next])
    BY DeliverEffects
  <1>3. DbChecked(t) /\ DbGrounded(t)
    <2>1. next \in next..Len(stored)
      BY <1>2
    <2> QED
      BY <1>1, <1>2, <2>1 DEF FreshInv, NodeTypes
  <1> HIDE DEF t
  <1>4. reused = {} /\ ~ replayed /\ (Spends(t) => transferRecords[t.nonce] = None)
    BY <1>1 DEF Spends
  <1>5. /\ Counted(contracts, contractExecutions, transferRecords)
        /\ Counted(db[1][6], db[1][7], db[1][4])
        /\ \A c \in Contracts : db[1][6][c] = None => Executed(contractExecutions, c) = {}
    BY <1>4 DEF CountInv
  <1>6. MemLedger /\ MemCustody
    BY DEF NodeTypes
  <1>7. /\ contractExecutions \in [Nonces -> Contracts \cup {None}]
        /\ transferRecords \in [Nonces -> TransferRecords \cup {None}]
    BY <1>6 DEF MemLedger, LedgerMaps
  <1>8. /\ ~ Spends(t) => UNCHANGED transferRecords
        /\ Spends(t) => Recorded(t)
        /\ t.type # "ExecuteContract" => UNCHANGED contractExecutions
        /\ t.type = "ExecuteContract" =>
                 /\ contractExecutions' = [contractExecutions EXCEPT ![t.nonce] = t.contract]
                 /\ contracts'[t.contract] # None
                 /\ contracts'[t.contract].count = contracts[t.contract].count + 1
                 /\ \A c \in Contracts \ {t.contract} : contracts'[c] = contracts[c]
        /\ t.type = "RegisterContract" =>
                 /\ contracts'[t.contract] # None /\ contracts'[t.contract].count = 0
                 /\ \A c \in Contracts \ {t.contract} : contracts'[c] = contracts[c]
        /\ t.type \notin {"ExecuteContract", "RegisterContract"} =>
              \A c \in Contracts :
                 /\ contracts[c] # None =>
                       contracts'[c] # None /\ contracts'[c].count = contracts[c].count
                 /\ contracts[c] = None => contracts'[c] = None
    BY <1>1, <1>2, <1>6, RecordEffects
  <1>9. \A x \in Nonces : transferRecords[x] # None => transferRecords'[x] # None
    <2>1. CASE ~ Spends(t)
      BY <1>8, <2>1
    <2>2. CASE Spends(t)
      <3> DEFINE r == [asset |-> t.asset, amount |-> t.amount]
      <3>1. t.nonce \in Nonces /\ t.asset \in Assets \cup {None} /\ t.amount \in Int
        BY <1>2, <2>2, TxFields DEF Spends
      <3>2. r # None
        BY <3>1, LedgerNone
      <3>3. transferRecords' = [transferRecords EXCEPT ![t.nonce] = r]
        BY <1>8, <2>2 DEF Recorded
      <3> HIDE DEF r
      <3> QED
        BY <1>7, <3>1, <3>2, <3>3
    <2> QED
      BY <2>1, <2>2
  <1>10. CASE t.type = "ExecuteContract"
    <2> DEFINE r == [asset |-> t.asset, amount |-> t.amount]
    <2>1. /\ t.contract \in Contracts /\ t.nonce \in Nonces /\ Spends(t)
          /\ t.asset \in Assets \cup {None} /\ t.amount \in Int
      BY <1>2, <1>10, TxFields DEF Spends
    <2>2. r # None
      BY <2>1, LedgerNone
    <2>3. transferRecords' = [transferRecords EXCEPT ![t.nonce] = r]
      BY <1>8, <2>1 DEF Recorded
    <2> HIDE DEF r
    <2>4. contractExecutions[t.nonce] = None
      BY <1>4, <1>5, <2>1 DEF Counted
    <2>5. /\ Executed(contractExecutions', t.contract)
             = Executed(contractExecutions, t.contract) \cup {t.nonce}
          /\ t.nonce \notin Executed(contractExecutions, t.contract)
          /\ \A c \in Contracts \ {t.contract} :
                Executed(contractExecutions', c) = Executed(contractExecutions, c)
      BY <1>7, <1>8, <1>10, <2>1, <2>4, WireConstants DEF Executed
    <2>6. db[1][6][t.contract] # None /\ contracts[t.contract] # None
      BY <1>2, <1>3, <1>10 DEF DbGrounded, MemGrounded, Grounded
    <2>7. /\ IsFiniteSet(Executed(contractExecutions, t.contract))
          /\ contracts[t.contract].count
             = Cardinality(Executed(contractExecutions, t.contract))
      BY <1>5, <2>1, <2>6 DEF Counted
    <2>8. /\ IsFiniteSet(Executed(contractExecutions', t.contract))
          /\ Cardinality(Executed(contractExecutions', t.contract))
             = Cardinality(Executed(contractExecutions, t.contract)) + 1
      BY <2>5, <2>7, FS_AddElement
    <2>9. \A x \in Nonces : contractExecutions'[x] # None => transferRecords'[x] # None
      BY <1>5, <1>7, <1>8, <1>10, <2>1, <2>2, <2>3 DEF Counted
    <2>10. ASSUME NEW c \in Contracts
           PROVE  /\ contracts'[c] = None => Executed(contractExecutions', c) = {}
                  /\ contracts'[c] # None =>
                        /\ IsFiniteSet(Executed(contractExecutions', c))
                        /\ contracts'[c].count = Cardinality(Executed(contractExecutions', c))
      <3>1. CASE c = t.contract
        <4>1. contracts'[c] # None /\ contracts'[c].count = contracts[c].count + 1
          BY <1>8, <1>10, <3>1
        <4> QED
          BY <2>7, <2>8, <3>1, <4>1
      <3>2. CASE c # t.contract
        <4>1. contracts'[c] = contracts[c]
          BY <1>8, <1>10, <3>2
        <4>2. Executed(contractExecutions', c) = Executed(contractExecutions, c)
          BY <2>5, <3>2
        <4> QED
          BY <1>5, <4>1, <4>2 DEF Counted
      <3> QED
        BY <3>1, <3>2
    <2>11. Counted(contracts', contractExecutions', transferRecords')
      BY <2>9, <2>10 DEF Counted
    <2>12. \A c \in Contracts : db[1][6][c] = None => Executed(contractExecutions', c) = {}
      BY <1>5, <2>5, <2>6
    <2> QED
      BY <1>1, <1>5, <2>11, <2>12 DEF CountInv
  <1>11. CASE t.type = "RegisterContract"
    <2>1. t.contract \in Contracts
      BY <1>2, <1>11, TxFields
    <2>2. db[1][6][t.contract] = None
      BY <1>3, <1>11 DEF DbChecked, Checked
    <2>3. Executed(contractExecutions, t.contract) = {}
      BY <1>5, <2>1, <2>2
    <2>4. UNCHANGED contractExecutions
      BY <1>8, <1>11
    <2>5. IsFiniteSet({}) /\ Cardinality({}) = 0
      BY FS_EmptySet
    <2>6. Counted(contracts', contractExecutions', transferRecords')
      BY <1>5, <1>8, <1>9, <1>11, <2>3, <2>4, <2>5 DEF Counted
    <2> QED
      BY <1>1, <1>5, <2>4, <2>6 DEF CountInv
  <1>12. CASE t.type \notin {"ExecuteContract", "RegisterContract"}
    <2>1. UNCHANGED contractExecutions
      BY <1>8, <1>12
    <2>2. Counted(contracts', contractExecutions', transferRecords')
      BY <1>5, <1>8, <1>9, <1>12, <2>1 DEF Counted
    <2> QED
      BY <1>1, <1>5, <2>1, <2>2 DEF CountInv
  <1> QED
    BY <1>10, <1>11, <1>12

\* Every step keeps the counts.
LEMMA StepCount ==
    ASSUME NodeTypes, DirtyInv, FreshInv, CountInv, [WireNext]_wireVars
    PROVE  CountInv'
  <1>u. ASSUME UNCHANGED <<contracts, contractExecutions, transferRecords, db, reused, replayed>>
        PROVE  CountInv'
    BY <1>u DEF CountInv
  <1>1. ASSUME NEW t \in Traffic[profile], CheckTx(t) PROVE CountInv'
    BY <1>1, <1>u DEF CheckTx, ledgerVars
  <1>2. CASE DecideBlock
    BY <1>2, <1>u DEF DecideBlock, ledgerVars
  <1>3. CASE DeliverTx
    BY <1>3, DeliverCount
  <1>4. CASE EndBlock
    <2>1. db' = Persisted /\ UNCHANGED <<contracts, contractExecutions, transferRecords>>
      BY <1>4, EndBlockSaves
    <2>2. db'[1][4] = transferRecords /\ db'[1][6] = contracts /\ db'[1][7] = contractExecutions
      BY <2>1 DEF Persisted, LedgerPersisted
    <2>3. UNCHANGED <<reused, replayed>>
      BY <1>4 DEF EndBlock
    <2> QED
      BY <2>1, <2>2, <2>3 DEF CountInv, Counted
  <1>5. CASE Restart
    <2>1. /\ contracts' = db[1][6] /\ contractExecutions' = db[1][7]
          /\ transferRecords' = db[1][4] /\ db' = db
      BY <1>5, RestartLoads
    <2>2. UNCHANGED reused /\ (replayed => replayed')
      BY <1>5 DEF Restart
    <2> QED
      BY <2>1, <2>2 DEF CountInv, Counted
  <1>6. CASE UNCHANGED wireVars
    BY <1>6, <1>u DEF wireVars, history, ledgerVars
  <1> QED
    BY <1>1, <1>2, <1>3, <1>4, <1>5, <1>6 DEF WireNext

\* No contract has been executed yet.
LEMMA InitCount ==
    ASSUME WireInit
    PROVE  CountInv
  <1>1. db = Persisted /\ contracts = [c \in Contracts |-> None]
        /\ contractExecutions = [x \in Nonces |-> None]
    BY DEF WireInit, LedgerInit, OpenInit
  <1>2. db[1][4] = transferRecords /\ db[1][6] = contracts /\ db[1][7] = contractExecutions
    BY <1>1 DEF Persisted, LedgerPersisted
  <1>3. \A c \in Contracts : Executed(contractExecutions, c) = {}
    BY <1>1, WireConstants DEF Executed
  <1>4. Counted(contracts, contractExecutions, transferRecords)
    BY <1>1, <1>3 DEF Counted
  <1> QED
    BY <1>2, <1>3, <1>4 DEF CountInv

\* A contract's execution count is the number of its executions, for every
\* interleaving of registrations and executions in blocks, and across crashes
\* within them.
THEOREM ExecutionsCounted == WireSpec => []ContractCounts
  <1>1. WireInit => CountInv
    BY InitCount
  <1>2. NodeTypes /\ DirtyInv /\ FreshInv /\ CountInv /\ [WireNext]_wireVars => CountInv'
    BY StepCount
  <1>3. CountInv => ContractCounts
    BY DEF CountInv, Counted, Executed, ContractCounts
  <1> QED
    BY <1>1, <1>2, <1>3, FreshInvariant, PTL DEF WireSpec

-----------------------------------------------------------------------------
(* The two lists                                                            *)

NullifierClaim(t) == <<"nullifier", t.nullifier>>

\* No block has used a nullifier twice.
SpentOnce == \A n \in Nullifiers : <<"nullifier", n>> \notin contended

\* A transfer that shares its nonce with no other has one participant, and a
\* participant belongs to a transfer.
Paired(pa, tr, re) ==
    \A x \in Nonces \ re :
        /\ tr[x] = None => \A n \in Nullifiers : pa[n] # x
        /\ tr[x] # None => \E n \in Nullifiers :
              pa[n] = x /\ \A m \in Nullifiers : pa[m] = x => m = n

\* Transaction j of block i, which may be executed again: in the database its
\* nullifier is free or its own, in memory too unless another transaction of
\* the current block took it; what the current block has executed is claimed,
\* and blocks before it are in the database.
SpendAt(i, j, t, dbp, memp, nx, ti, cl) ==
    Spends(t) =>
      /\ dbp[t.nullifier] \in {None, t.nonce}
      /\ \/ memp[t.nullifier] \in {None, t.nonce}
         \/ i = nx /\ j >= ti /\ NullifierClaim(t) \in cl
      /\ i = nx /\ j < ti => NullifierClaim(t) \in cl /\ memp[t.nullifier] # None
      /\ i < nx => dbp[t.nullifier] # None

\* Two blocks never share a nullifier.
BlocksApart(st) ==
    \A i, k \in 1..Len(st) : \A j \in 1..Len(st[i]), l \in 1..Len(st[k]) :
        i # k /\ Spends(st[i][j]) /\ Spends(st[k][l]) =>
            st[i][j].nullifier # st[k][l].nullifier

PairInv ==
    SpentOnce =>
      /\ Paired(participants, transferRecords, reused)
      /\ Paired(db[1][5], db[1][4], reused)
      /\ \A n \in Nullifiers : db[1][5][n] # None => participants[n] # None
      /\ \A t \in mempool : Spends(t) => db[1][5][t.nullifier] = None
      /\ \A i \in 1..Len(stored) : \A j \in 1..Len(stored[i]) :
            SpendAt(i, j, stored[i][j], db[1][5], participants, next, txi, claimed)
      /\ BlocksApart(stored)

\* A transaction that passes validation has a free nullifier.
LEMMA ValidSpends ==
    ASSUME NEW t \in Txs, ValidateTx(t), Spends(t)
    PROVE  participants[t.nullifier] = None
  <1>1. /\ t.type = "Transfer" => ValidateTransfer(t)
        /\ t.type = "ExecuteContract" => ValidateExecuteContract(t)
    BY DEF ValidateTx, LedgerTypes, LedgerValidateTx
  <1> QED
    BY <1>1 DEF Spends, ValidateTransfer, ValidateExecuteContract

\* Executing a transaction.
LEMMA DeliverPair ==
    ASSUME NodeTypes, DirtyInv, PairInv, DeliverTx
    PROVE  PairInv'
  <1> SUFFICES ASSUME SpentOnce' PROVE PairInv'
    BY DEF PairInv
  <1> DEFINE t == stored[next][txi]
  <1>1. /\ UNCHANGED <<db, mempool, stored, next>> /\ ExecuteTx(t) /\ txi' = txi + 1
        /\ claimed' = claimed \cup Claims(t)
        /\ contended' = contended \cup (claimed \cap Claims(t))
        /\ reused' = IF t.type \in {"Transfer", "ExecuteContract"}
                        /\ transferRecords[t.nonce] # None
                     THEN reused \cup {t.nonce} ELSE reused
    BY DEF DeliverTx, Note
  <1>2. t \in Txs /\ MemGrounded(t) /\ next \in 1..Len(stored) /\ txi \in 1..Len(stored[next])
    BY DeliverEffects
  <1>3. MemLedger /\ MemCustody /\ txi \in Nat
    BY DEF NodeTypes
  <1>4. /\ participants \in [Nullifiers -> Nonces \cup {None}]
        /\ transferRecords \in [Nonces -> TransferRecords \cup {None}]
    BY <1>3 DEF MemLedger, LedgerMaps
  <1>5. SpentOnce
    BY <1>1 DEF SpentOnce
  <1>6. /\ Paired(participants, transferRecords, reused)
        /\ Paired(db[1][5], db[1][4], reused)
        /\ \A n \in Nullifiers : db[1][5][n] # None => participants[n] # None
        /\ \A x \in mempool : Spends(x) => db[1][5][x.nullifier] = None
        /\ \A i \in 1..Len(stored) : \A j \in 1..Len(stored[i]) :
              SpendAt(i, j, stored[i][j], db[1][5], participants, next, txi, claimed)
        /\ BlocksApart(stored)
    BY <1>5 DEF PairInv
  <1>7. SpendAt(next, txi, t, db[1][5], participants, next, txi, claimed)
    BY <1>2, <1>6
  <1>8. Paired(db[1][5], db[1][4], reused')
    BY <1>1, <1>6 DEF Paired
  <1>9. \A i \in 1..Len(stored) : \A j \in 1..Len(stored[i]) :
           /\ i \in Nat /\ j \in Nat
           /\ i = next /\ j = txi => stored[i][j] = t
    OBVIOUS
  <1>10. CASE ~ Spends(t)
    <2>1. UNCHANGED <<participants, transferRecords>> /\ reused' = reused
      BY <1>1, <1>2, <1>3, <1>10, RecordEffects DEF Spends
    <2>2. ASSUME NEW i \in 1..Len(stored), NEW j \in 1..Len(stored[i])
          PROVE  SpendAt(i, j, stored[i][j], db[1][5], participants, next, txi + 1, claimed')
      <3>1. SpendAt(i, j, stored[i][j], db[1][5], participants, next, txi, claimed)
        BY <1>6
      <3>2. CASE i = next /\ j = txi
        BY <1>9, <1>10, <3>2 DEF SpendAt
      <3>3. CASE ~ (i = next /\ j = txi)
        <4>1. (i = next /\ j >= txi => i = next /\ j >= txi + 1)
              /\ (i = next /\ j < txi + 1 => i = next /\ j < txi)
          BY <1>3, <1>9, <3>3
        <4> QED
          BY <1>1, <3>1, <4>1 DEF SpendAt
      <3> QED
        BY <3>2, <3>3
    <2> QED
      BY <1>1, <1>6, <2>1, <2>2 DEF PairInv
  <1>11. CASE Spends(t)
    <2> DEFINE r == [asset |-> t.asset, amount |-> t.amount]
    <2>1. /\ t.nonce \in Nonces /\ t.nullifier \in Nullifiers
          /\ t.asset \in Assets \cup {None} /\ t.amount \in Int
      BY <1>2, <1>11, TxFields DEF Spends
    <2>2. r # None
      BY <2>1, LedgerNone
    <2>3. /\ transferRecords' = [transferRecords EXCEPT ![t.nonce] = r]
          /\ participants' = [participants EXCEPT ![t.nullifier] = t.nonce]
      BY <1>1, <1>2, <1>3, <1>11, RecordEffects DEF Recorded
    <2> HIDE DEF r, t
    <2>4. /\ transferRecords'[t.nonce] # None
          /\ \A x \in Nonces \ {t.nonce} : transferRecords'[x] = transferRecords[x]
          /\ participants'[t.nullifier] = t.nonce
          /\ \A n \in Nullifiers \ {t.nullifier} : participants'[n] = participants[n]
      BY <1>4, <2>1, <2>2, <2>3
    <2>5. NullifierClaim(t) \in Claims(t)
      BY <1>2, <1>11, ClaimFacts DEF Spends, NullifierClaim
    <2>6. NullifierClaim(t) \notin claimed /\ NullifierClaim(t) \in claimed'
      BY <1>1, <2>1, <2>5 DEF SpentOnce, NullifierClaim
    <2>7. participants[t.nullifier] \in {None, t.nonce} /\ t.nonce # None
      BY <1>7, <1>11, <2>1, <2>6, WireConstants DEF SpendAt
    <2>8. Paired(participants', transferRecords', reused')
      <3> SUFFICES ASSUME NEW x \in Nonces \ reused'
                   PROVE  /\ transferRecords'[x] = None => \A n \in Nullifiers : participants'[n] # x
                          /\ transferRecords'[x] # None => \E n \in Nullifiers :
                                participants'[n] = x
                                /\ \A m \in Nullifiers : participants'[m] = x => m = n
        BY DEF Paired
      <3>1. x \in Nonces \ reused
        BY <1>1
      <3>2. CASE x = t.nonce
        <4>1. transferRecords[x] = None
          BY <1>1, <1>11, <3>2 DEF Spends
        <4>2. \A n \in Nullifiers : participants[n] # x
          BY <1>6, <3>1, <4>1 DEF Paired
        <4> QED
          BY <2>1, <2>4, <3>2, <4>2
      <3>3. CASE x # t.nonce
        <4>1. x # None
          BY WireConstants
        <4>2. \A n \in Nullifiers : participants'[n] = x <=> participants[n] = x
          BY <2>1, <2>4, <2>7, <3>3, <4>1
        <4>3. transferRecords'[x] = transferRecords[x]
          BY <2>4, <3>3
        <4> QED
          BY <1>6, <3>1, <4>2, <4>3 DEF Paired
      <3> QED
        BY <3>2, <3>3
    <2>9. ASSUME NEW i \in 1..Len(stored), NEW j \in 1..Len(stored[i])
          PROVE  SpendAt(i, j, stored[i][j], db[1][5], participants', next, txi + 1, claimed')
      <3> DEFINE u == stored[i][j]
      <3>1. SpendAt(i, j, u, db[1][5], participants, next, txi, claimed)
        BY <1>6
      <3>2. i = next /\ j = txi => u = t
        BY <1>9
      <3>3. i # next => (Spends(u) => u.nullifier # t.nullifier)
        BY <1>2, <1>6, <1>11 DEF BlocksApart, t
      <3>4. Spends(u) => u.nullifier \in Nullifiers
        <4>1. u \in Txs
          BY DEF NodeTypes
        <4> QED
          BY <4>1, TxFields DEF Spends
      <3> SUFFICES SpendAt(i, j, u, db[1][5], participants', next, txi + 1, claimed')
        OBVIOUS
      <3> HIDE DEF u
      <3>g. ASSUME Spends(u) =>
                     /\ \/ participants'[u.nullifier] \in {None, u.nonce}
                        \/ i = next /\ j >= txi + 1 /\ NullifierClaim(u) \in claimed'
                     /\ i = next /\ j < txi + 1 =>
                           NullifierClaim(u) \in claimed' /\ participants'[u.nullifier] # None
            PROVE  SpendAt(i, j, u, db[1][5], participants', next, txi + 1, claimed')
        BY <3>1, <3>g DEF SpendAt
      <3>h. Spends(u) =>
                     /\ \/ participants[u.nullifier] \in {None, u.nonce}
                        \/ i = next /\ j >= txi /\ NullifierClaim(u) \in claimed
                     /\ i = next /\ j < txi =>
                           NullifierClaim(u) \in claimed /\ participants[u.nullifier] # None
        BY <3>1 DEF SpendAt
      <3>5. CASE i = next /\ j = txi
        <4>1. u = t /\ participants'[u.nullifier] = u.nonce /\ u.nonce # None
              /\ NullifierClaim(u) \in claimed'
          BY <2>4, <2>6, <2>7, <3>2, <3>5
        <4> QED
          BY <3>g, <4>1
      <3>6. CASE ~ (i = next /\ j = txi)
        <4>1. (i = next /\ j >= txi => i = next /\ j >= txi + 1)
              /\ (i = next /\ j < txi + 1 => i = next /\ j < txi)
              /\ (i = next => j >= txi \/ j < txi)
          BY <1>3, <1>9, <3>6
        <4>2. CASE u.nullifier = t.nullifier
          <5>1. i = next /\ j < txi /\ Spends(u) => FALSE
            BY <2>6, <3>h, <4>2 DEF NullifierClaim
          <5>2. NullifierClaim(u) \in claimed'
            BY <2>6, <4>2 DEF NullifierClaim
          <5>3. Spends(u) => i = next /\ j >= txi + 1 /\ ~ (j < txi + 1)
            BY <3>3, <4>1, <4>2, <5>1
          <5> QED
            BY <3>g, <5>2, <5>3
        <4>3. CASE u.nullifier # t.nullifier
          <5>1. Spends(u) => participants'[u.nullifier] = participants[u.nullifier]
            BY <2>4, <3>4, <4>3
          <5> QED
            BY <1>1, <3>g, <3>h, <4>1, <5>1
        <4> QED
          BY <4>2, <4>3
      <3> QED
        BY <3>5, <3>6
    <2>10. \A n \in Nullifiers : db[1][5][n] # None => participants'[n] # None
      BY <1>6, <2>4, <2>7
    <2> QED
      BY <1>1, <1>6, <1>8, <2>8, <2>9, <2>10 DEF PairInv
  <1> QED
    BY <1>10, <1>11

\* Every step keeps the lists paired.
LEMMA StepPair ==
    ASSUME NodeTypes, DirtyInv, PairInv, [WireNext]_wireVars
    PROVE  PairInv'
  <1>t. /\ Len(stored) \in Nat /\ next \in 1..(Len(stored) + 1) /\ stored \in Seq(Seq(Txs))
        /\ txi \in Nat
    BY DEF NodeTypes
  <1>n. \A i \in 1..Len(stored) : \A j \in 1..Len(stored[i]) : i \in Nat /\ j \in Nat /\ j >= 1
    OBVIOUS
  <1>h. SpentOnce =>
          /\ Paired(participants, transferRecords, reused)
          /\ Paired(db[1][5], db[1][4], reused)
          /\ \A n \in Nullifiers : db[1][5][n] # None => participants[n] # None
          /\ \A x \in mempool : Spends(x) => db[1][5][x.nullifier] = None
          /\ \A i \in 1..Len(stored) : \A j \in 1..Len(stored[i]) :
                SpendAt(i, j, stored[i][j], db[1][5], participants, next, txi, claimed)
          /\ BlocksApart(stored)
    BY DEF PairInv
  <1>s. UNCHANGED contended => (SpentOnce' <=> SpentOnce)
    BY DEF SpentOnce
  <1>1. ASSUME NEW t \in Traffic[profile], CheckTx(t) PROVE PairInv'
    <2>1. /\ UNCHANGED <<participants, transferRecords, reused, db, stored, next, txi, claimed,
                         contended>>
          /\ mempool' = mempool \cup {t} /\ ValidateTx(t) /\ Idle
      BY <1>1 DEF CheckTx, ledgerVars
    <2>2. db[1][5] = participants
      BY <2>1 DEF DirtyInv, Persisted, LedgerPersisted
    <2>3. Spends(t) => db[1][5][t.nullifier] = None
      BY <2>1, <2>2, ValidSpends, TrafficTxs
    <2> QED
      BY <1>h, <1>s, <2>1, <2>3 DEF PairInv
  <1>2. CASE DecideBlock
    <2>1. /\ UNCHANGED <<participants, transferRecords, reused, db, next, txi, claimed, contended>>
          /\ Idle
      BY <1>2 DEF DecideBlock, ledgerVars
    <2>2. db[1][5] = participants /\ txi = 1
      BY <2>1 DEF DirtyInv, Persisted, LedgerPersisted
    <2>3. PICK txs \in Seq(Txs) :
              /\ \A j \in 1..Len(txs) : txs[j] \in mempool
              /\ stored' = Append(stored, txs)
              /\ mempool' \subseteq mempool
      BY <1>2, DecidedBlock
    <2>4. /\ Len(stored') = Len(stored) + 1
          /\ \A i \in 1..Len(stored) : stored'[i] = stored[i]
          /\ stored'[Len(stored) + 1] = txs
          /\ \A i \in 1..Len(stored') : i \in 1..Len(stored) \/ i = Len(stored) + 1
          /\ \A i \in 1..Len(stored) : i # Len(stored) + 1 /\ i < next
          /\ next = Len(stored) + 1
      BY <1>t, <2>1, <2>3 DEF Idle
    <2> SUFFICES ASSUME SpentOnce PROVE PairInv'
      BY <1>s, <2>1 DEF PairInv
    <2>5. ASSUME NEW i \in 1..Len(stored'), NEW j \in 1..Len(stored'[i])
          PROVE  SpendAt(i, j, stored'[i][j], db[1][5], participants, next, txi, claimed)
      <3>1. CASE i \in 1..Len(stored)
        BY <1>h, <2>4, <3>1
      <3>2. CASE i = Len(stored) + 1
        <4> DEFINE u == stored'[i][j]
        <4>1. Spends(u) => db[1][5][u.nullifier] = None
          BY <1>h, <2>3, <2>4, <3>2
        <4>2. ~ (j < txi) /\ ~ (i < next)
          BY <1>t, <2>2, <2>3, <2>4, <3>2
        <4> HIDE DEF u
        <4>3. SpendAt(i, j, u, db[1][5], participants, next, txi, claimed)
          BY <2>2, <4>1, <4>2 DEF SpendAt
        <4> QED
          BY <4>3 DEF u
      <3> QED
        BY <2>4, <3>1, <3>2
    <2>6. ASSUME NEW i \in 1..Len(stored), NEW j \in 1..Len(stored[i]), NEW l \in 1..Len(txs),
                 Spends(stored[i][j]), Spends(txs[l])
          PROVE  stored[i][j].nullifier # txs[l].nullifier
      <3>1. db[1][5][stored[i][j].nullifier] # None
        BY <1>h, <2>4, <2>6 DEF SpendAt
      <3>2. db[1][5][txs[l].nullifier] = None
        BY <1>h, <2>3, <2>6
      <3> QED
        BY <3>1, <3>2
    <2>7. BlocksApart(stored')
      <3> SUFFICES ASSUME NEW i \in 1..Len(stored'), NEW k \in 1..Len(stored'),
                          NEW j \in 1..Len(stored'[i]), NEW l \in 1..Len(stored'[k]),
                          i # k, Spends(stored'[i][j]), Spends(stored'[k][l])
                   PROVE  stored'[i][j].nullifier # stored'[k][l].nullifier
        BY DEF BlocksApart
      <3>1. CASE i \in 1..Len(stored) /\ k \in 1..Len(stored)
        BY <1>h, <2>4, <3>1 DEF BlocksApart
      <3>2. CASE i \in 1..Len(stored) /\ k = Len(stored) + 1
        BY <2>4, <2>6, <3>2
      <3>3. CASE k \in 1..Len(stored) /\ i = Len(stored) + 1
        BY <2>4, <2>6, <3>3
      <3> QED
        BY <2>4, <3>1, <3>2, <3>3
    <2> QED
      BY <1>h, <2>1, <2>3, <2>5, <2>7 DEF PairInv
  <1>3. CASE DeliverTx
    BY <1>3, DeliverPair
  <1>4. CASE EndBlock
    <2>1. /\ db' = Persisted /\ UNCHANGED <<participants, transferRecords>>
          /\ next \in 1..Len(stored)
          /\ \/ /\ dirty /\ next' = next
                /\ Len(stored') = Len(stored) - 1
                /\ \A i \in 1..Len(stored') : stored'[i] = stored[i + 1]
             \/ ~ dirty /\ next' = next + 1 /\ stored' = stored /\ stored[next] = <<>>
      BY <1>4, EndBlockSaves
    <2>2. db'[1][4] = transferRecords /\ db'[1][5] = participants
      BY <2>1 DEF Persisted, LedgerPersisted
    <2>3. /\ UNCHANGED <<contended, reused>> /\ claimed' = {} /\ txi' = 1
          /\ mempool' = {t \in mempool : ValidateTx(t)}
          /\ txi > Len(stored[next])
      BY <1>4 DEF EndBlock
    <2> SUFFICES ASSUME SpentOnce PROVE PairInv'
      BY <1>s, <2>3 DEF PairInv
    <2>4. \A t \in mempool' : Spends(t) => participants[t.nullifier] = None
      BY <2>3, ValidSpends, TrafficTxs
    <2>5. ASSUME NEW i \in 1..Len(stored), NEW j \in 1..Len(stored[i]), Spends(stored[i][j])
          PROVE  /\ participants[stored[i][j].nullifier] \in {None, stored[i][j].nonce}
                 /\ i <= next => participants[stored[i][j].nullifier] # None
      <3> DEFINE u == stored[i][j]
      <3>1. SpendAt(i, j, u, db[1][5], participants, next, txi, claimed)
        BY <1>h
      <3>2. Len(stored[i]) \in Nat
        OBVIOUS
      <3>3. i = next => j < txi /\ ~ (j >= txi)
        BY <1>t, <2>3, <3>2
      <3>4. u.nullifier \in Nullifiers
        <4>1. u \in Txs
          BY DEF NodeTypes
        <4> QED
          BY <2>5, <4>1, TxFields DEF Spends
      <3>5. i <= next => i = next \/ i < next
        BY <1>t, <1>n
      <3>6. Spends(u)
        BY <2>5
      <3> HIDE DEF u
      <3>7. /\ participants[u.nullifier] \in {None, u.nonce}
            /\ i <= next => participants[u.nullifier] # None
        BY <1>h, <3>1, <3>3, <3>4, <3>5, <3>6 DEF SpendAt
      <3> QED
        BY <3>7 DEF u
    <2>6. ASSUME NEW i \in 1..Len(stored'), NEW j \in 1..Len(stored'[i])
          PROVE  SpendAt(i, j, stored'[i][j], participants, participants, next', 1, {})
      <3> DEFINE u == stored'[i][j]
      <3>1. Spends(u) => /\ participants[u.nullifier] \in {None, u.nonce}
                         /\ i < next' => participants[u.nullifier] # None
        <4>1. CASE dirty
          <5>1. i + 1 \in 1..Len(stored) /\ stored'[i] = stored[i + 1]
            BY <1>t, <2>1, <4>1
          <5>2. i < next' => i + 1 <= next
            BY <1>t, <2>1, <4>1
          <5> QED
            BY <2>5, <5>1, <5>2
        <4>2. CASE ~ dirty
          <5>1. i \in 1..Len(stored) /\ stored'[i] = stored[i]
            BY <2>1, <4>2
          <5>2. i < next' => i <= next
            BY <1>t, <2>1, <4>2
          <5> QED
            BY <2>5, <5>1, <5>2
        <4> QED
          BY <4>1, <4>2
      <3>2. ~ (j < 1)
        OBVIOUS
      <3> HIDE DEF u
      <3>3. SpendAt(i, j, u, participants, participants, next', 1, {})
        BY <3>1, <3>2 DEF SpendAt
      <3> QED
        BY <3>3 DEF u
    <2>7. BlocksApart(stored')
      <3>1. CASE stored' = stored
        BY <1>h, <3>1
      <3>2. CASE /\ Len(stored') = Len(stored) - 1
                 /\ \A i \in 1..Len(stored') : stored'[i] = stored[i + 1]
        <4>1. \A i \in 1..Len(stored') : i + 1 \in 1..Len(stored)
          BY <1>t, <3>2
        <4> SUFFICES ASSUME NEW i \in 1..Len(stored'), NEW k \in 1..Len(stored'),
                            NEW j \in 1..Len(stored'[i]), NEW l \in 1..Len(stored'[k]),
                            i # k, Spends(stored'[i][j]), Spends(stored'[k][l])
                     PROVE  stored'[i][j].nullifier # stored'[k][l].nullifier
          BY DEF BlocksApart
        <4>2. i + 1 # k + 1 /\ i + 1 \in 1..Len(stored) /\ k + 1 \in 1..Len(stored)
          BY <4>1
        <4>3. stored'[i] = stored[i + 1] /\ stored'[k] = stored[k + 1]
          BY <3>2
        <4> QED
          BY <1>h, <4>2, <4>3 DEF BlocksApart
      <3> QED
        BY <2>1, <3>1, <3>2
    <2> QED
      BY <1>h, <2>1, <2>2, <2>3, <2>4, <2>6, <2>7 DEF PairInv
  <1>5. CASE Restart
    <2>1. participants' = db[1][5] /\ transferRecords' = db[1][4] /\ db' = db
      BY <1>5, RestartLoads
    <2>2. /\ UNCHANGED <<contended, reused, stored>> /\ claimed' = {} /\ txi' = 1 /\ next' = 1
          /\ mempool' = {}
      BY <1>5 DEF Restart
    <2> SUFFICES ASSUME SpentOnce PROVE PairInv'
      BY <1>s, <2>2 DEF PairInv
    <2>3. ASSUME NEW i \in 1..Len(stored), NEW j \in 1..Len(stored[i])
          PROVE  SpendAt(i, j, stored[i][j], db[1][5], db[1][5], 1, 1, {})
      <3>1. ~ (j < 1) /\ ~ (i < 1)
        BY <1>n
      <3> QED
        BY <1>h, <3>1 DEF SpendAt
    <2> QED
      BY <1>h, <2>1, <2>2, <2>3 DEF PairInv
  <1>6. CASE UNCHANGED wireVars
    <2>1. UNCHANGED <<participants, transferRecords, reused, db, stored, next, txi, claimed,
                      contended, mempool>>
      BY <1>6 DEF wireVars, chain, history, ledgerVars
    <2> QED
      BY <1>h, <1>s, <2>1 DEF PairInv
  <1> QED
    BY <1>1, <1>2, <1>3, <1>4, <1>5, <1>6 DEF WireNext

\* Both lists are empty at first.
LEMMA InitPair ==
    ASSUME WireInit
    PROVE  PairInv
  <1>1. /\ db = Persisted /\ participants = [n \in Nullifiers |-> None]
        /\ transferRecords = [x \in Nonces |-> None]
        /\ mempool = {} /\ stored = <<>>
    BY DEF WireInit, LedgerInit, OpenInit
  <1>2. db[1][4] = transferRecords /\ db[1][5] = participants
    BY <1>1 DEF Persisted, LedgerPersisted
  <1>3. Paired(participants, transferRecords, reused)
    BY <1>1, WireConstants DEF Paired
  <1>4. Len(stored) = 0
    BY <1>1
  <1>5. \A i \in 1..Len(stored) : FALSE
    BY <1>4
  <1> QED
    BY <1>1, <1>2, <1>3, <1>5 DEF PairInv, BlocksApart

\* Every transfer on List 1 has exactly one participant on List 2 and every
\* participant a transfer, for any traffic, and although a restart may execute
\* blocks again that the database already holds.
THEOREM ListsStayPaired == WireSpec => []ListsPaired
  <1>1. WireInit => PairInv
    BY InitPair
  <1>2. NodeTypes /\ DirtyInv /\ PairInv /\ [WireNext]_wireVars => PairInv'
    BY StepPair
  <1>3. PairInv => ListsPaired
    <2> SUFFICES ASSUME PairInv, SpentOnce, NEW x \in Nonces \ reused
                 PROVE  Cardinality({n \in Nullifiers : participants[n] = x})
                        = IF transferRecords[x] = None THEN 0 ELSE 1
      BY DEF ListsPaired, SpentOnce
    <2>1. Paired(participants, transferRecords, reused)
      BY DEF PairInv
    <2>2. CASE transferRecords[x] = None
      <3>1. {n \in Nullifiers : participants[n] = x} = {}
        BY <2>1, <2>2 DEF Paired
      <3> QED
        BY <2>2, <3>1, FS_EmptySet
    <2>3. CASE transferRecords[x] # None
      <3>1. PICK n \in Nullifiers :
               participants[n] = x /\ \A m \in Nullifiers : participants[m] = x => m = n
        BY <2>1, <2>3 DEF Paired
      <3>2. {m \in Nullifiers : participants[m] = x} = {n}
        BY <3>1
      <3>3. Cardinality({n}) = 1
        BY FS_Singleton
      <3> QED
        BY <2>3, <3>2, <3>3
    <2> QED
      BY <2>2, <2>3
  <1> QED
    BY <1>1, <1>2, <1>3, NodeInvariant, PTL DEF WireSpec

-----------------------------------------------------------------------------
(* Supply                                                                   *)

\* The balances of an asset, and their sum.
Balances(ac, a) == [c \in Commitments |-> IF ac[<<a, c>>] = None THEN 0
                                          ELSE ac[<<a, c>>].balance]
InAccounts(ac, a) == Total(Balances(ac, a))

Minted(su, a) == su[a] # None /\ su[a].minted > 0

\* The books of an asset: its two totals agree; and unless its registration was
\* executed again over them they are in its accounts, and nothing has been
\* burned, held or lost before something is minted.
Books(as, su, ac, lo, re, a) ==
    /\ su[a] # None => /\ su[a].total = su[a].minted - su[a].burned
                       /\ as[a] = su[a].total
    /\ a \notin re =>
          /\ su[a] # None => su[a].minted >= 0 /\ su[a].total = InAccounts(ac, a) + lo[a]
          /\ ~ Minted(su, a) => /\ su[a] # None => su[a].burned = 0
                                /\ \A c \in Commitments : Balances(ac, a)[c] = 0
                                /\ lo[a] = 0

\* Something of the asset has been minted, or its books are not kept.
Backed(su, a, re) == a \in re \cup {"_"} \/ Minted(su, a)

\* A transaction that was checked against a balance of its asset.
Draws(t) == \/ IsDebit(t) /\ t.type # "SettleCustodyRedemption"
            \/ t.type = "RequestCustodyRedemption"

OwnAssets == Assets \ {"_"}

\* The books of all assets, and the assets of all requests.
SupplyKept(as, su, ac, rq, lo, re) ==
    /\ \A a \in OwnAssets : Books(as, su, ac, lo, re, a)
    /\ \A r \in Requests : rq[r] # None => Backed(su, rq[r].pool[1], re)

\* The books hold in memory and in the database, and what was checked against
\* a balance is of an asset of which something had been minted.
SupplyInv ==
    /\ lost \in [Assets -> Int] /\ savedLost \in [Assets -> Int]
    /\ SupplyKept(assets, supply, accounts, redemptionRequests, lost, rebased)
    /\ SupplyKept(db[1][1], db[1][2], db[1][3], db[2][6], savedLost, rebased)
    /\ \A a \in Assets : Backed(db[1][2], a, rebased) => Backed(supply, a, rebased)
    /\ \A t \in mempool : Draws(t) => Backed(db[1][2], t.asset, rebased)
    /\ \A i \in 1..Len(stored) : \A j \in 1..Len(stored[i]) :
          Draws(stored[i][j]) => Backed(db[1][2], stored[i][j].asset, rebased)

\* The two parts of an account's key.
LEMMA KeyParts ==
    ASSUME NEW k \in AccountKeys
    PROVE  k = <<k[1], k[2]>> /\ k[1] \in Assets \cup {"_"} /\ k[2] \in Commitments
  <1> DEFINE S == Assets \cup {"_"}
  <1>1. k \in S \X Commitments
    BY DEF AccountKeys
  <1> HIDE DEF S
  <1>2. k = <<k[1], k[2]>> /\ k[1] \in S /\ k[2] \in Commitments
    BY <1>1
  <1> QED
    BY <1>2 DEF S

\* Balances are numbers.
LEMMA BalanceNumbers ==
    ASSUME NEW ac \in AccountMaps, NEW a \in Assets
    PROVE  /\ Balances(ac, a) \in [Commitments -> Int]
           /\ InAccounts(ac, a) \in Int
           /\ (\A c \in Commitments : Balances(ac, a)[c] = 0) => InAccounts(ac, a) = 0
  <1>1. ASSUME NEW c \in Commitments
        PROVE  (IF ac[<<a, c>>] = None THEN 0 ELSE ac[<<a, c>>].balance) \in Int
    <2>1. <<a, c>> \in AccountKeys
      BY DEF AccountKeys
    <2> QED
      BY <2>1 DEF AccountMaps, AccountRecords
  <1>2. Balances(ac, a) \in [Commitments -> Int]
    BY <1>1 DEF Balances
  <1> QED
    BY <1>2, TotalType, WireConstants DEF InAccounts

\* The sum of natural numbers is one, and zero only if they all are.
LEMMA TotalNat ==
    ASSUME NEW S, IsFiniteSet(S), NEW f \in [S -> Nat]
    PROVE  /\ Total(f) \in Nat /\ Total(f) = Cardinality(Units(f))
           /\ Total(f) = 0 => \A x \in S : f[x] = 0
  <1>1. f \in [S -> Int]
    OBVIOUS
  <1>2. Total(f) \in Nat /\ Total(f) = Cardinality(Units(f)) /\ IsFiniteSet(Units(f))
    BY <1>1, TotalType, UnitsFinite
  <1>3. ASSUME Total(f) = 0, NEW x \in S
        PROVE  f[x] = 0
    <2>1. Units(f) = {}
      BY <1>2, <1>3, FS_EmptySet
    <2>2. {x} \X (1..f[x]) = {}
      BY <2>1 DEF Units
    <2>3. f[x] > 0 => <<x, 1>> \in {x} \X (1..f[x])
      OBVIOUS
    <2> QED
      BY <2>2, <2>3
  <1> QED
    BY <1>2, <1>3

\* A change of one account changes the sum of its asset by as much.
LEMMA HeldChange ==
    ASSUME NEW ac \in AccountMaps, NEW ac2 \in AccountMaps, NEW a \in Assets,
           NEW c \in Commitments,
           \A k \in AccountKeys \ {<<a, c>>} : ac2[k] = ac[k]
    PROVE  /\ InAccounts(ac2, a) = InAccounts(ac, a) + Balances(ac2, a)[c] - Balances(ac, a)[c]
           /\ \A d \in Commitments \ {c} : Balances(ac2, a)[d] = Balances(ac, a)[d]
  <1>1. \A d \in Commitments \ {c} : Balances(ac2, a)[d] = Balances(ac, a)[d]
    <2> SUFFICES ASSUME NEW d \in Commitments \ {c}
                 PROVE  Balances(ac2, a)[d] = Balances(ac, a)[d]
      OBVIOUS
    <2>1. <<a, d>> \in AccountKeys \ {<<a, c>>}
      BY DEF AccountKeys
    <2>2. ac2[<<a, d>>] = ac[<<a, d>>]
      BY <2>1
    <2> QED
      BY <2>2 DEF Balances
  <1>2. Balances(ac, a) \in [Commitments -> Int] /\ Balances(ac2, a) \in [Commitments -> Int]
    BY BalanceNumbers
  <1> QED
    BY <1>1, <1>2, TotalChange, WireConstants DEF InAccounts

\* A credit adds to its asset's sum and to no other.
LEMMA HeldCredit ==
    ASSUME NEW ac \in AccountMaps, NEW key \in AccountKeys, ac[key] # None,
           NEW amount \in Int, NEW a \in Assets
    PROVE  /\ Credited(ac, key, amount) \in AccountMaps
           /\ key[1] = a => InAccounts(Credited(ac, key, amount), a) = InAccounts(ac, a) + amount
           /\ key[1] # a => /\ InAccounts(Credited(ac, key, amount), a) = InAccounts(ac, a)
                            /\ Balances(Credited(ac, key, amount), a) = Balances(ac, a)
  <1> DEFINE ac2 == Credited(ac, key, amount)
  <1>1. /\ ac2 \in AccountMaps /\ ac2[key] # None
        /\ ac2[key].balance = ac[key].balance + amount
        /\ \A k \in AccountKeys \ {key} : ac2[k] = ac[k]
    BY CreditFacts
  <1>2. key[2] \in Commitments /\ key = <<key[1], key[2]>>
    BY KeyParts
  <1>3. ac[key].balance \in Int
    BY DEF AccountMaps, AccountRecords
  <1> HIDE DEF ac2
  <1>4. ASSUME key[1] = a PROVE InAccounts(ac2, a) = InAccounts(ac, a) + amount
    <2>1. key = <<a, key[2]>>
      BY <1>2, <1>4
    <2>2. InAccounts(ac2, a) = InAccounts(ac, a) + Balances(ac2, a)[key[2]] - Balances(ac, a)[key[2]]
      BY <1>1, <1>2, <2>1, HeldChange
    <2>3. Balances(ac2, a)[key[2]] = ac[key].balance + amount
          /\ Balances(ac, a)[key[2]] = ac[key].balance
      BY <1>1, <1>2, <2>1 DEF Balances
    <2>4. InAccounts(ac, a) \in Int
      BY BalanceNumbers
    <2> QED
      BY <1>3, <2>2, <2>3, <2>4
  <1>5. ASSUME key[1] # a PROVE Balances(ac2, a) = Balances(ac, a)
    <2>0. \A c \in Commitments : <<a, c>> # key
      BY <1>5
    <2>1. \A c \in Commitments : <<a, c>> \in AccountKeys \ {key}
      BY <2>0 DEF AccountKeys
    <2>2. \A c \in Commitments : ac2[<<a, c>>] = ac[<<a, c>>]
      BY <1>1, <2>1
    <2> QED
      BY <2>2 DEF Balances
  <1> QED
    BY <1>1, <1>4, <1>5 DEF ac2, InAccounts

\* The same for the balances of the state.
LEMMA HeldMove ==
    ASSUME NEW ac \in AccountMaps, NEW x, NEW key \in AccountKeys, key[1] = x, ac[key] # None,
           NEW amount \in Int, NEW ac2, ac2 = Credited(ac, key, amount), NEW a \in Assets
    PROVE  /\ x = a => InAccounts(ac2, a) = InAccounts(ac, a) + amount
           /\ x # a => /\ InAccounts(ac2, a) = InAccounts(ac, a)
                       /\ Balances(ac2, a) = Balances(ac, a)
  BY HeldCredit

\* Supply and balances of an asset after m was minted and b burned.
SupplyStep(t, a, m, b) ==
    /\ supply'[a] = [minted |-> supply[a].minted + m,
                     burned |-> supply[a].burned + b,
                     total |-> supply[a].minted + m - (supply[a].burned + b)]
    /\ assets'[a] = supply'[a].total
    /\ InAccounts(accounts', a) = InAccounts(accounts, a) + m - b
    /\ m > 0 \/ (IsDebit(t) /\ DebitKey(t, redemptionRequests)[1] = a)

\* What a transaction does to the books of an asset: a registration resets
\* them, a mint or a burn moves supply and balances together, and what else
\* leaves the balances is noted as lost.
BooksStep(t, a) ==
    \/ /\ supply'[a] = supply[a] /\ assets'[a] = assets[a]
       /\ Vanishes(t, a) \in Int
       /\ InAccounts(accounts', a) = InAccounts(accounts, a) - Vanishes(t, a)
       /\ \/ /\ (\A c \in Commitments : Balances(accounts, a)[c] = 0) =>
                   /\ \A c \in Commitments : Balances(accounts', a)[c] = 0
                   /\ Vanishes(t, a) = 0
          \/ IsDebit(t) /\ DebitKey(t, redemptionRequests)[1] = a
    \/ /\ t.type = "RegisterAsset" /\ t.asset = a
       /\ supply'[a] = [minted |-> 0, burned |-> 0, total |-> 0] /\ assets'[a] = 0
       /\ accounts' = accounts /\ Vanishes(t, a) = 0
    \/ /\ supply[a] # None /\ Vanishes(t, a) = 0
       /\ \E m, b \in Nat : SupplyStep(t, a, m, b)

\* Supply and asset record after a mint or burn.
LEMMA SupplyRow ==
    ASSUME MemLedger, MemCustody, NEW a \in Assets, assets[a] # None, NEW m, NEW b,
           SupplyChanged(a, m, b)
    PROVE  /\ supply[a] # None
           /\ supply'[a] = [minted |-> supply[a].minted + m,
                            burned |-> supply[a].burned + b,
                            total |-> supply[a].minted + m - (supply[a].burned + b)]
           /\ assets'[a] = supply'[a].total
           /\ \A x \in Assets \ {a} : supply'[x] = supply[x] /\ assets'[x] = assets[x]
  <1>1. supply \in [Assets -> SupplyRecords \cup {None}] /\ assets \in [Assets -> Int \cup {None}]
    BY DEF MemLedger, LedgerMaps
  <1>2. supply[a] # None
    BY DEF MemCustody, CustodyMaps
  <1> DEFINE r == [minted |-> supply[a].minted + m, burned |-> supply[a].burned + b,
                   total |-> supply[a].minted + m - (supply[a].burned + b)]
  <1>3. supply' = [supply EXCEPT ![a] = r]
    BY DEF SupplyChanged
  <1>4. supply'[a] = r /\ \A x \in Assets \ {a} : supply'[x] = supply[x]
    <2> HIDE DEF r
    <2> QED
      BY <1>1, <1>3
  <1>5. assets' = [assets EXCEPT ![a] = supply'[a].total]
    BY DEF SupplyChanged
  <1>6. assets'[a] = supply'[a].total /\ \A x \in Assets \ {a} : assets'[x] = assets[x]
    BY <1>1, <1>5
  <1> QED
    BY <1>2, <1>4, <1>6

\* What a transaction takes out of an asset's accounts for nobody.
LEMMA VanishFacts ==
    ASSUME NEW t, NEW a
    PROVE  /\ t.type \notin {"ExecuteContract", "AdverseAction"} => Vanishes(t, a) = 0
           /\ t.type = "ExecuteContract" =>
                 Vanishes(t, a) = IF MovesValue(t) /\ t.asset = a /\ t.counterparty = None
                                  THEN t.amount ELSE 0
           /\ t.type = "AdverseAction" =>
                 Vanishes(t, a) = IF /\ t.kind = "redeem_forced" /\ t.scope \in {None, a}
                                     /\ accounts[<<a, t.target>>] # None
                                  THEN accounts[<<a, t.target>>].balance ELSE 0
  <1>1. t.type \notin {"ExecuteContract", "AdverseAction"} => Vanishes(t, a) = 0
    BY DEF Vanishes
  <1>2. t.type = "ExecuteContract" =>
           Vanishes(t, a) = IF MovesValue(t) /\ t.asset = a /\ t.counterparty = None
                            THEN t.amount ELSE 0
    BY DEF Vanishes
  <1>3. t.type = "AdverseAction" =>
           Vanishes(t, a) = IF /\ t.kind = "redeem_forced" /\ t.scope \in {None, a}
                               /\ accounts[<<a, t.target>>] # None
                            THEN accounts[<<a, t.target>>].balance ELSE 0
    BY DEF Vanishes
  <1> QED
    BY <1>1, <1>2, <1>3

\* Executing a transaction.
LEMMA BooksEffects ==
    ASSUME MemLedger, MemCustody, NEW t \in Txs, MemGrounded(t), ExecuteTx(t),
           NEW a \in OwnAssets
    PROVE  BooksStep(t, a)
  <1>a. accounts \in AccountMaps /\ a \in Assets
    BY DEF MemLedger, LedgerMaps, OwnAssets
  <1>b. InAccounts(accounts, a) \in Int
    BY <1>a, BalanceNumbers
  <1>c. \A x \in AccountKeys : accounts[x] # None => accounts[x].balance \in Int
    BY <1>a DEF AccountMaps, AccountRecords
  <1>s. supply \in [Assets -> SupplyRecords \cup {None}] /\ assets \in [Assets -> Int \cup {None}]
    BY DEF MemLedger, LedgerMaps
  <1>u. ASSUME supply'[a] = supply[a], assets'[a] = assets[a], Vanishes(t, a) = 0,
               InAccounts(accounts', a) = InAccounts(accounts, a),
               Balances(accounts', a) = Balances(accounts, a)
        PROVE  BooksStep(t, a)
    <2>1. Vanishes(t, a) \in Int
          /\ InAccounts(accounts', a) = InAccounts(accounts, a) - Vanishes(t, a)
      BY <1>b, <1>u
    <2> QED
      BY <1>u, <2>1 DEF BooksStep
  <1>v. ASSUME supply' = supply, assets' = assets, accounts' = accounts, Vanishes(t, a) = 0
        PROVE  BooksStep(t, a)
    <2>1. supply'[a] = supply[a] /\ assets'[a] = assets[a]
      BY <1>v
    <2>2. Balances(accounts', a) = Balances(accounts, a)
          /\ InAccounts(accounts', a) = InAccounts(accounts, a)
      BY <1>v
    <2> QED
      BY <1>u, <1>v, <2>1, <2>2
  <1>1. CASE t.type = "RegisterAsset" /\ ExecuteRegisterAsset(t)
    <2> DEFINE z == [minted |-> 0, burned |-> 0, total |-> 0]
    <2>1. t.asset \in Assets /\ Vanishes(t, a) = 0
      BY <1>1, TxFields, VanishFacts
    <2>2. /\ assets' = [assets EXCEPT ![t.asset] = 0]
          /\ supply' = [supply EXCEPT ![t.asset] = z]
          /\ accounts' = accounts
      BY <1>1 DEF ExecuteRegisterAsset
    <2>3. CASE t.asset = a
      <3>1. supply'[a] = z /\ assets'[a] = 0
        <4> HIDE DEF z
        <4> QED
          BY <1>a, <1>s, <2>2, <2>3
      <3> QED
        BY <1>1, <2>1, <2>2, <2>3, <3>1 DEF BooksStep
    <2>4. CASE t.asset # a
      <3>1. supply'[a] = supply[a] /\ assets'[a] = assets[a]
        <4> HIDE DEF z
        <4> QED
          BY <1>a, <1>s, <2>1, <2>2, <2>4
      <3> QED
        BY <1>u, <2>1, <2>2, <3>1
    <2> QED
      BY <2>3, <2>4
  <1>2. CASE t.type = "Mint" /\ ExecuteMint(t)
    <2> DEFINE key == <<t.asset, t.account>>
               opened == IF accounts[key] # None THEN accounts
                         ELSE [accounts EXCEPT ![key] = NewAccount]
    <2>1. /\ t.asset \in Assets /\ key \in AccountKeys /\ t.amount \in Int /\ t.amount > 0
          /\ assets[t.asset] # None /\ key[1] = t.asset
      <3>1. t.asset \in Assets /\ key \in AccountKeys /\ t.amount \in Int /\ t.amount > 0
        BY <1>2, TxFields
      <3>2. assets[t.asset] # None
        BY <1>2 DEF MemGrounded, Grounded
      <3> QED
        BY <3>1, <3>2
    <2>2. accounts' = Credited(opened, key, t.amount) /\ SupplyChanged(t.asset, t.amount, 0)
      BY <1>2 DEF ExecuteMint
    <2>0. Vanishes(t, a) = 0
      BY <1>2, VanishFacts
    <2> HIDE DEF key
    <2>3. /\ opened \in AccountMaps /\ opened[key] # None
          /\ Balances(opened, a) = Balances(accounts, a)
      <3>1. CASE accounts[key] # None
        BY <1>a, <3>1
      <3>2. CASE accounts[key] = None
        <4>1. opened = [accounts EXCEPT ![key] = NewAccount]
          BY <3>2
        <4>2. opened \in AccountMaps /\ opened[key] # None /\ opened[key].balance = 0
              /\ \A k \in AccountKeys \ {key} : opened[k] = accounts[k]
          BY <1>a, <2>1, <4>1, NewAccountFacts DEF AccountMaps
        <4> HIDE DEF opened
        <4>3. \A c \in Commitments :
                 (IF opened[<<a, c>>] = None THEN 0 ELSE opened[<<a, c>>].balance)
                 = (IF accounts[<<a, c>>] = None THEN 0 ELSE accounts[<<a, c>>].balance)
          <5> SUFFICES ASSUME NEW c \in Commitments
                PROVE (IF opened[<<a, c>>] = None THEN 0 ELSE opened[<<a, c>>].balance)
                 = (IF accounts[<<a, c>>] = None THEN 0 ELSE accounts[<<a, c>>].balance)
            OBVIOUS
          <5>1. <<a, c>> \in AccountKeys
            BY <1>a DEF AccountKeys
          <5> QED
            BY <3>2, <4>2, <5>1
        <4> QED
          BY <4>2, <4>3 DEF Balances
      <3> QED
        BY <3>1, <3>2
    <2>4. InAccounts(opened, a) = InAccounts(accounts, a)
      BY <2>3 DEF InAccounts
    <2> HIDE DEF opened
    <2>5. /\ supply[t.asset] # None
          /\ supply'[t.asset] = [minted |-> supply[t.asset].minted + t.amount,
                            burned |-> supply[t.asset].burned + 0,
                            total |-> supply[t.asset].minted + t.amount
                                      - (supply[t.asset].burned + 0)]
          /\ assets'[t.asset] = supply'[t.asset].total
          /\ \A x \in Assets \ {t.asset} : supply'[x] = supply[x] /\ assets'[x] = assets[x]
      BY <2>1, <2>2, SupplyRow
    <2>6. CASE t.asset = a
      <3>1. InAccounts(accounts', a) = InAccounts(opened, a) + t.amount
        BY <1>a, <2>1, <2>2, <2>3, <2>6, HeldCredit
      <3>2. InAccounts(accounts', a) = InAccounts(accounts, a) + t.amount - 0
        BY <1>b, <2>1, <2>4, <3>1
      <3>3. t.amount \in Nat /\ 0 \in Nat
        BY <2>1
      <3>4. SupplyStep(t, a, t.amount, 0)
        <4>1. supply'[a] = [minted |-> supply[a].minted + t.amount,
                            burned |-> supply[a].burned + 0,
                            total |-> supply[a].minted + t.amount - (supply[a].burned + 0)]
              /\ assets'[a] = supply'[a].total
          BY <2>5, <2>6
        <4>2. t.amount > 0
          BY <2>1
        <4> QED
          BY <3>2, <4>1, <4>2 DEF SupplyStep
      <3>5. supply[a] # None
        BY <2>5, <2>6
      <3> QED
        BY <2>0, <3>3, <3>4, <3>5 DEF BooksStep
    <2>7. CASE t.asset # a
      <3>1. InAccounts(accounts', a) = InAccounts(accounts, a)
            /\ Balances(accounts', a) = Balances(accounts, a)
        BY <1>a, <2>1, <2>2, <2>3, <2>4, <2>7, HeldCredit
      <3> QED
        BY <1>a, <1>u, <2>0, <2>5, <2>7, <3>1
    <2> QED
      BY <2>6, <2>7
  <1>3. ASSUME NEW x \in Assets, NEW key \in AccountKeys, key[1] = x, assets[x] # None,
               accounts[key] # None, NEW n \in Int, n > 0, NEW d \in Int, d = - n,
               accounts' = Credited(accounts, key, d), SupplyChanged(x, 0, n),
               IsDebit(t), DebitKey(t, redemptionRequests) = key, Vanishes(t, a) = 0
        PROVE  BooksStep(t, a)
    <2>5. /\ supply[x] # None
          /\ supply'[x] = [minted |-> supply[x].minted + 0, burned |-> supply[x].burned + n,
                           total |-> supply[x].minted + 0 - (supply[x].burned + n)]
          /\ assets'[x] = supply'[x].total
          /\ \A y \in Assets \ {x} : supply'[y] = supply[y] /\ assets'[y] = assets[y]
      BY <1>3, SupplyRow
    <2>0. /\ x = a => InAccounts(accounts', a) = InAccounts(accounts, a) + d
          /\ x # a => /\ InAccounts(accounts', a) = InAccounts(accounts, a)
                      /\ Balances(accounts', a) = Balances(accounts, a)
      <3>1. key[1] = x /\ accounts[key] # None /\ accounts' = Credited(accounts, key, d)
        BY <1>3
      <3> QED
        BY <1>a, <3>1, HeldMove
    <2>6. CASE x = a
      <3>1. InAccounts(accounts', a) = InAccounts(accounts, a) + d
        BY <2>0, <2>6
      <3>2. InAccounts(accounts', a) = InAccounts(accounts, a) + 0 - n
        BY <1>b, <1>3, <3>1
      <3>3. n \in Nat /\ 0 \in Nat
        BY <1>3
      <3>4. SupplyStep(t, a, 0, n)
        BY <1>3, <2>5, <2>6, <3>2 DEF SupplyStep
      <3>5. supply[a] # None
        BY <2>5, <2>6
      <3> QED
        BY <1>3, <3>3, <3>4, <3>5 DEF BooksStep
    <2>7. CASE x # a
      <3>1. InAccounts(accounts', a) = InAccounts(accounts, a)
            /\ Balances(accounts', a) = Balances(accounts, a)
        BY <2>0, <2>7
      <3> QED
        BY <1>a, <1>u, <1>3, <2>5, <2>7, <3>1
    <2> QED
      BY <2>6, <2>7
  <1>4. CASE t.type \in {"Burn", "ApplyCustodyDemurrage"} /\ (ExecuteBurn(t) \/ ExecuteDemurrage(t))
    <2> DEFINE key == <<t.asset, t.account>>
    <2>1. /\ key \in AccountKeys /\ t.amount \in Int /\ - t.amount \in Int /\ t.asset \in Assets
          /\ t.amount > 0 /\ key[1] = t.asset
      BY <1>4, TxFields
    <2>2. accounts[key] # None /\ assets[t.asset] # None
      BY <1>4 DEF MemGrounded, Grounded
    <2>3. accounts' = Credited(accounts, key, - t.amount) /\ SupplyChanged(t.asset, 0, t.amount)
      BY <1>4 DEF ExecuteBurn, ExecuteDemurrage
    <2>4. IsDebit(t) /\ DebitKey(t, redemptionRequests) = key
      BY <1>4 DEF IsDebit, DebitKey
    <2>5. Vanishes(t, a) = 0
      BY <1>4, VanishFacts
    <2> HIDE DEF key
    <2> QED
      BY <1>3, <2>1, <2>2, <2>3, <2>4, <2>5
  <1>5. CASE t.type = "SettleCustodyRedemption" /\ ExecuteSettle(t)
    <2> DEFINE q == redemptionRequests[t.request]
               key == <<q.pool[1], q.account>>
    <2>1. t.request \in Requests /\ t.burn \in Int /\ - t.burn \in Int /\ t.burn > 0
      BY <1>5, TxFields
    <2>2. q # None
      BY <1>5 DEF MemGrounded, Grounded
    <2>3. q \in RequestRecords /\ accounts[key] # None /\ assets[q.pool[1]] # None
      BY <2>1, <2>2 DEF MemCustody, CustodyMaps
    <2>4. key \in AccountKeys /\ q.pool[1] \in Assets /\ key[1] = q.pool[1]
      BY <2>3 DEF RequestRecords, AccountKeys
    <2>5. accounts' = Credited(accounts, key, - t.burn) /\ SupplyChanged(q.pool[1], 0, t.burn)
      BY <1>5 DEF ExecuteSettle
    <2>6. IsDebit(t) /\ DebitKey(t, redemptionRequests) = key
      BY <1>5 DEF IsDebit, DebitKey
    <2>7. Vanishes(t, a) = 0
      BY <1>5, VanishFacts
    <2> HIDE DEF key, q
    <2> QED
      BY <1>3, <2>1, <2>3, <2>4, <2>5, <2>6, <2>7
  <1>6. CASE t.type = "Transfer" /\ ExecuteTransfer(t)
    <2> DEFINE from == <<t.asset, t.from>>
               to == <<t.asset, t.to>>
               less == - t.amount
               mid == Credited(accounts, from, less)
    <2>1. /\ from \in AccountKeys /\ to \in AccountKeys /\ t.amount \in Int
          /\ less \in Int /\ t.amount + less = 0 /\ t.amount > 0 /\ t.asset \in Assets
          /\ from[1] = t.asset /\ to[1] = t.asset
      <3>1. /\ from \in AccountKeys /\ to \in AccountKeys /\ t.amount \in Int
            /\ t.amount > 0 /\ t.asset \in Assets
        BY <1>6, TxFields
      <3>2. less \in Int /\ t.amount + less = 0
        BY <3>1
      <3> QED
        BY <3>1, <3>2
    <2>2. accounts[from] # None /\ accounts[to] # None
      BY <1>6 DEF MemGrounded, Grounded
    <2>3. accounts' = Credited(mid, to, t.amount) /\ UNCHANGED <<supply, assets>>
      BY <1>6 DEF ExecuteTransfer
    <2>4. IsDebit(t) /\ DebitKey(t, redemptionRequests) = from
      BY <1>6 DEF IsDebit, DebitKey
    <2>0. Vanishes(t, a) = 0
      BY <1>6, VanishFacts
    <2> HIDE DEF from, to, less
    <2>5. /\ mid \in AccountMaps /\ mid[from] # None
          /\ \A x \in AccountKeys \ {from} : mid[x] = accounts[x]
      BY <1>a, <2>1, <2>2, CreditFacts
    <2>6. /\ t.asset = a => InAccounts(mid, a) = InAccounts(accounts, a) + less
          /\ t.asset # a => /\ InAccounts(mid, a) = InAccounts(accounts, a)
                            /\ Balances(mid, a) = Balances(accounts, a)
      <3>1. from \in AccountKeys /\ from[1] = t.asset /\ less \in Int
        BY <2>1
      <3> QED
        BY <1>a, <2>2, <3>1, HeldMove
    <2> HIDE DEF mid
    <2>7. mid[to] # None
      BY <2>1, <2>2, <2>5
    <2>8. /\ t.asset = a => InAccounts(accounts', a) = InAccounts(mid, a) + t.amount
          /\ t.asset # a => /\ InAccounts(accounts', a) = InAccounts(mid, a)
                            /\ Balances(accounts', a) = Balances(mid, a)
      <3>1. to \in AccountKeys /\ to[1] = t.asset /\ t.amount \in Int
        BY <2>1
      <3>2. accounts' = Credited(mid, to, t.amount)
        BY <2>3
      <3> QED
        BY <1>a, <2>5, <2>7, <3>1, <3>2, HeldMove
    <2>9. CASE t.asset = a
      <3>1. InAccounts(accounts', a) = InAccounts(accounts, a) - 0
        BY <1>b, <2>1, <2>6, <2>8, <2>9
      <3>2. Vanishes(t, a) \in Int
        BY <2>0
      <3> QED
        BY <2>0, <2>1, <2>3, <2>4, <2>9, <3>1, <3>2 DEF BooksStep
    <2>10. CASE t.asset # a
      BY <1>u, <2>0, <2>3, <2>6, <2>8, <2>10
    <2> QED
      BY <2>9, <2>10
  <1>7. CASE t.type = "RegisterAccount" /\ ExecuteRegisterAccount(t)
    <2>1. <<"_", t.account>> \in AccountKeys
      BY <1>7, TxFields
    <2>2. /\ accounts' = [accounts EXCEPT ![<<"_", t.account>>] = NewAccount]
          /\ UNCHANGED <<supply, assets>>
      BY <1>7 DEF ExecuteRegisterAccount
    <2>3. \A c \in Commitments : <<a, c>> \in AccountKeys /\ <<a, c>> # <<"_", t.account>>
      BY <1>a DEF AccountKeys, OwnAssets
    <2>4. \A c \in Commitments : accounts'[<<a, c>>] = accounts[<<a, c>>]
      BY <1>a, <2>2, <2>3 DEF AccountMaps
    <2>5. Balances(accounts', a) = Balances(accounts, a)
      BY <2>4 DEF Balances
    <2>6. InAccounts(accounts', a) = InAccounts(accounts, a)
      BY <2>5 DEF InAccounts
    <2>7. Vanishes(t, a) = 0
      BY <1>7, VanishFacts
    <2> QED
      BY <1>u, <2>2, <2>5, <2>6, <2>7
  <1>8. CASE t.type = "ExecuteContract" /\ ExecuteExecuteContract(t)
    <2> DEFINE from == <<t.asset, t.party>>
               to == <<t.asset, t.counterparty>>
               less == - t.amount
               mid == Credited(accounts, from, less)
    <2>0. /\ UNCHANGED <<supply, assets>>
          /\ Vanishes(t, a) = IF MovesValue(t) /\ t.asset = a /\ t.counterparty = None
                              THEN t.amount ELSE 0
      BY <1>8, VanishFacts DEF ExecuteExecuteContract
    <2>1. CASE ~ MovesValue(t)
      <3>1. accounts' = accounts /\ Vanishes(t, a) = 0
        BY <1>8, <2>0, <2>1 DEF ExecuteExecuteContract
      <3> QED
        BY <1>v, <2>0, <3>1
    <2>2. CASE MovesValue(t)
      <3>1. /\ from \in AccountKeys /\ t.amount \in Int /\ t.amount > 0
            /\ less \in Int /\ t.amount + less = 0
            /\ t.counterparty # None => to \in AccountKeys
            /\ t.asset \in Assets /\ from[1] = t.asset /\ to[1] = t.asset
        <4>1. /\ from \in AccountKeys /\ t.amount \in Int /\ t.amount > 0
              /\ t.counterparty # None => to \in AccountKeys
              /\ t.asset \in Assets
          BY <1>8, <2>2, TxFields DEF MovesValue
        <4>2. less \in Int /\ t.amount + less = 0
          BY <4>1
        <4> QED
          BY <4>1, <4>2
      <3>2. accounts[from] # None /\ (t.counterparty # None => accounts[to] # None)
        BY <1>8, <2>2 DEF MemGrounded, Grounded
      <3>3. accounts' = IF t.counterparty = None THEN mid ELSE Credited(mid, to, t.amount)
        BY <1>8, <2>2 DEF ExecuteExecuteContract
      <3>4. IsDebit(t) /\ DebitKey(t, redemptionRequests) = from
        BY <1>8, <2>2 DEF IsDebit, DebitKey
      <3> HIDE DEF from, to, less
      <3>5. /\ mid \in AccountMaps /\ mid[from] # None
            /\ \A x \in AccountKeys \ {from} : mid[x] = accounts[x]
        BY <1>a, <3>1, <3>2, CreditFacts
      <3>6. /\ t.asset = a => InAccounts(mid, a) = InAccounts(accounts, a) + less
            /\ t.asset # a => /\ InAccounts(mid, a) = InAccounts(accounts, a)
                              /\ Balances(mid, a) = Balances(accounts, a)
        <4>1. from \in AccountKeys /\ from[1] = t.asset /\ less \in Int
          BY <3>1
        <4> QED
          BY <1>a, <3>2, <4>1, HeldMove
      <3> HIDE DEF mid
      <3>7. CASE t.counterparty = None
        <4>1. accounts' = mid
          BY <3>3, <3>7
        <4>2. CASE t.asset = a
          <5>1. Vanishes(t, a) = t.amount
            BY <2>0, <2>2, <3>7, <4>2
          <5>2. InAccounts(accounts', a) = InAccounts(accounts, a) - t.amount
            BY <1>b, <3>1, <3>6, <4>1, <4>2
          <5> QED
            BY <2>0, <3>1, <3>4, <4>2, <5>1, <5>2 DEF BooksStep
        <4>3. CASE t.asset # a
          <5>1. Vanishes(t, a) = 0
            BY <2>0, <4>3
          <5> QED
            BY <1>u, <2>0, <3>6, <4>1, <4>3, <5>1
        <4> QED
          BY <4>2, <4>3
      <3>8. CASE t.counterparty # None
        <4>1. accounts' = Credited(mid, to, t.amount) /\ to \in AccountKeys /\ mid[to] # None
          BY <3>1, <3>2, <3>3, <3>5, <3>8
        <4>2. /\ t.asset = a => InAccounts(accounts', a) = InAccounts(mid, a) + t.amount
              /\ t.asset # a => /\ InAccounts(accounts', a) = InAccounts(mid, a)
                                /\ Balances(accounts', a) = Balances(mid, a)
          <5>1. to \in AccountKeys /\ to[1] = t.asset /\ t.amount \in Int
            BY <3>1, <4>1
          <5> QED
            BY <1>a, <3>5, <4>1, <5>1, HeldMove
        <4>3. Vanishes(t, a) = 0
          BY <2>0, <3>8
        <4>4. CASE t.asset = a
          <5>1. InAccounts(accounts', a) = InAccounts(accounts, a) - 0
            BY <1>b, <3>1, <3>6, <4>2, <4>4
          <5>2. Vanishes(t, a) \in Int
            BY <4>3
          <5> QED
            BY <2>0, <3>1, <3>4, <4>3, <4>4, <5>1, <5>2 DEF BooksStep
        <4>5. CASE t.asset # a
          BY <1>u, <2>0, <3>6, <4>2, <4>3, <4>5
        <4> QED
          BY <4>4, <4>5
      <3> QED
        BY <3>7, <3>8
    <2> QED
      BY <2>1, <2>2
  <1>9. CASE t.type = "AdverseAction" /\ ExecuteAdverseAction(t)
    <2> DEFINE hit(k) == accounts[k] # None /\ k[2] = t.target /\ (t.scope = None \/ k[1] = t.scope)
               key == <<a, t.target>>
    <2>1. /\ accounts' = [k \in AccountKeys |->
                IF hit(k) THEN Affected(accounts[k], t.kind) ELSE accounts[k]]
          /\ UNCHANGED <<supply, assets>>
      BY <1>9 DEF ExecuteAdverseAction
    <2>2. t.kind \in {"disable", "freeze", "rescind", "restore", "redeem_forced"}
          /\ t.target \in Commitments
      BY <1>9, TxKinds DEF AdverseActionTxs
    <2>3. key \in AccountKeys
      BY <1>a, <2>2 DEF AccountKeys
    <2>4. Vanishes(t, a) = IF t.kind = "redeem_forced" /\ hit(key) THEN accounts[key].balance ELSE 0
      BY <1>9, VanishFacts
    <2>5. \A k \in AccountKeys : accounts[k] # None => Affected(accounts[k], t.kind) # None
      BY <1>a, <2>2, AffectedFacts DEF AccountMaps
    <2>6. /\ accounts[key] # None /\ t.kind # "redeem_forced" =>
                Affected(accounts[key], t.kind).balance = accounts[key].balance
          /\ accounts[key] # None /\ t.kind = "redeem_forced" =>
                Affected(accounts[key], t.kind).balance = 0
      BY <1>a, <2>2, <2>3, AffectedFacts DEF AccountMaps
    <2>7. ASSUME NEW c \in Commitments, c # t.target
          PROVE  Balances(accounts', a)[c] = Balances(accounts, a)[c]
      <3>1. <<a, c>> \in AccountKeys /\ ~ hit(<<a, c>>)
        BY <1>a, <2>7 DEF AccountKeys
      <3>2. accounts'[<<a, c>>] = accounts[<<a, c>>]
        BY <2>1, <3>1
      <3> QED
        BY <3>2 DEF Balances
    <2>8. Balances(accounts', a)[t.target] = Balances(accounts, a)[t.target] - Vanishes(t, a)
      <3>1. accounts'[key] = IF hit(key) THEN Affected(accounts[key], t.kind) ELSE accounts[key]
        BY <2>1, <2>3
      <3>2. /\ Balances(accounts', a)[t.target] = IF accounts'[key] = None THEN 0
                                                  ELSE accounts'[key].balance
            /\ Balances(accounts, a)[t.target] = IF accounts[key] = None THEN 0
                                                 ELSE accounts[key].balance
        BY <2>2 DEF Balances
      <3>3. accounts[key] # None => accounts[key].balance \in Int
        BY <1>c, <2>3
      <3>4. hit(key) => accounts[key] # None
        OBVIOUS
      <3> HIDE DEF hit, key
      <3>5. CASE ~ hit(key)
        <4>1. Balances(accounts', a)[t.target] = Balances(accounts, a)[t.target]
          BY <3>1, <3>2, <3>5
        <4>2. Balances(accounts, a)[t.target] \in Int
          BY <3>2, <3>3
        <4> QED
          BY <2>4, <3>5, <4>1, <4>2
      <3>6. CASE hit(key)
        <4>1. accounts'[key] # None
          BY <2>3, <2>5, <3>1, <3>4, <3>6
        <4> QED
          BY <2>2, <2>4, <2>6, <3>1, <3>2, <3>3, <3>4, <3>6, <4>1
      <3> QED
        BY <3>5, <3>6
    <2>9. accounts' \in AccountMaps
      <3>1. LedgerExecuteTx(t) /\ UNCHANGED custodyVars
        BY <1>9 DEF ExecuteTx, CustodyExecuteTx
      <3>2. MemLedger'
        BY <3>1, LedgerEffects
      <3> QED
        BY <3>2 DEF MemLedger, LedgerMaps
    <2>10. /\ Balances(accounts, a) \in [Commitments -> Int]
           /\ Balances(accounts', a) \in [Commitments -> Int]
      BY <1>a, <2>9, BalanceNumbers
    <2> HIDE DEF hit, key
    <2>11. InAccounts(accounts', a) = InAccounts(accounts, a) + Balances(accounts', a)[t.target]
                                      - Balances(accounts, a)[t.target]
      BY <2>2, <2>7, <2>10, TotalChange, WireConstants DEF InAccounts
    <2>12. Vanishes(t, a) \in Int
      BY <1>c, <2>3, <2>4 DEF hit
    <2>13. InAccounts(accounts', a) = InAccounts(accounts, a) - Vanishes(t, a)
      BY <1>b, <2>2, <2>8, <2>10, <2>11, <2>12
    <2>14. ASSUME \A c \in Commitments : Balances(accounts, a)[c] = 0
           PROVE  /\ \A c \in Commitments : Balances(accounts', a)[c] = 0
                  /\ Vanishes(t, a) = 0
      <3>1. Vanishes(t, a) = 0
        <4>1. hit(key) => Balances(accounts, a)[t.target] = accounts[key].balance
          BY <2>2 DEF Balances, hit, key
        <4> QED
          BY <2>2, <2>4, <2>14, <4>1
      <3>2. Balances(accounts', a)[t.target] = 0
        BY <2>2, <2>8, <2>14, <3>1
      <3> QED
        BY <2>7, <2>14, <3>1, <3>2
    <2> QED
      BY <2>1, <2>12, <2>13, <2>14 DEF BooksStep
  <1>10. CASE LedgerExecuteTx(t)
    <2>1. \/ ExecuteRegisterValidator(t) \/ ExecuteRegisterContract(t) \/ ExecuteActivateContract(t)
          => UNCHANGED <<supply, assets, accounts>>
      BY DEF ExecuteRegisterValidator, ExecuteRegisterContract, ExecuteActivateContract
    <2>2. t.type \notin {"ExecuteContract", "AdverseAction"} => Vanishes(t, a) = 0
      BY VanishFacts
    <2> QED
      BY <1>1, <1>2, <1>4, <1>6, <1>7, <1>8, <1>9, <1>10, <1>v, <2>1, <2>2 DEF LedgerExecuteTx
  <1>11. CASE CustodyExecuteTx(t, height)
    <2>1. \/ ExecuteWarehouseOperator(t) \/ ExecuteSkuClass(t) \/ ExecutePolicy(t)
          \/ ExecuteIntakeLot(t, height) \/ ExecuteRedemption(t)
          => UNCHANGED <<supply, assets, accounts>>
      BY DEF ExecuteWarehouseOperator, ExecuteSkuClass, ExecutePolicy, ExecuteIntakeLot,
         ExecuteRedemption, ledgerAside
    <2>2. t.type \notin {"ExecuteContract", "AdverseAction"} => Vanishes(t, a) = 0
      BY VanishFacts
    <2> QED
      BY <1>4, <1>5, <1>11, <1>v, <2>1, <2>2 DEF CustodyExecuteTx
  <1> QED
    BY <1>10, <1>11 DEF ExecuteTx

\* What vanishes is a number.
LEMMA VanishNumber ==
    ASSUME MemLedger, NEW t \in Txs, NEW a \in Assets
    PROVE  Vanishes(t, a) \in Int
  <1>1. CASE t.type = "ExecuteContract"
    <2>1. t.amount \in Int
      BY <1>1, TxFields
    <2>2. Vanishes(t, a) = IF MovesValue(t) /\ t.asset = a /\ t.counterparty = None
                           THEN t.amount ELSE 0
      BY <1>1, VanishFacts
    <2> QED
      BY <2>1, <2>2
  <1>2. CASE t.type = "AdverseAction"
    <2>1. <<a, t.target>> \in AccountKeys
      BY <1>2, TxKinds DEF AdverseActionTxs, AccountKeys
    <2>2. accounts[<<a, t.target>>] # None => accounts[<<a, t.target>>].balance \in Int
      BY <2>1 DEF MemLedger, LedgerMaps, AccountMaps, AccountRecords
    <2>3. Vanishes(t, a) = IF /\ t.kind = "redeem_forced" /\ t.scope \in {None, a}
                              /\ accounts[<<a, t.target>>] # None
                           THEN accounts[<<a, t.target>>].balance ELSE 0
      BY <1>2, VanishFacts
    <2> QED
      BY <2>2, <2>3
  <1>3. CASE t.type \notin {"ExecuteContract", "AdverseAction"}
    <2>1. Vanishes(t, a) = 0
      BY <1>3, VanishFacts
    <2> QED
      BY <2>1
  <1> QED
    BY <1>1, <1>2, <1>3

\* The requests after a transaction.
LEMMA RequestRows ==
    ASSUME MemLedger, MemCustody, NEW t \in Txs, MemGrounded(t), ExecuteTx(t),
           NEW r \in Requests
    PROVE  /\ t.type = "RequestCustodyRedemption" /\ t.request = r =>
                 /\ redemptionRequests'[r] # None
                 /\ redemptionRequests'[r].pool = <<t.asset, t.warehouse, t.sku>>
                 /\ redemptionRequests'[r].status = "pending"
           /\ t.type = "SettleCustodyRedemption" /\ t.request = r =>
                 redemptionRequests'[r].status = "settled"
           /\ ~ (t.type \in {"RequestCustodyRedemption", "SettleCustodyRedemption"}
                 /\ t.request = r) =>
                 redemptionRequests'[r] = redemptionRequests[r]
  <1>r. redemptionRequests \in [Requests -> RequestRecords \cup {None}]
    BY DEF MemCustody, CustodyMaps
  <1>1. CASE /\ redemptionRequests' = redemptionRequests
             /\ t.type \notin {"RequestCustodyRedemption", "SettleCustodyRedemption"}
    BY <1>1
  <1>2. CASE t.type = "SettleCustodyRedemption" /\ ExecuteSettle(t)
    <2> DEFINE q == redemptionRequests[t.request]
               s == [q EXCEPT !.status = "settled"]
    <2>1. t.request \in Requests
      BY <1>2, TxFields
    <2>2. q # None
      BY <1>2 DEF MemGrounded, Grounded
    <2>3. q \in RequestRecords
      BY <1>r, <2>1, <2>2
    <2>4. redemptionRequests' = [redemptionRequests EXCEPT ![t.request].status = "settled"]
      BY <1>2 DEF ExecuteSettle
    <2>5. redemptionRequests' = [redemptionRequests EXCEPT ![t.request] = s]
      BY <1>r, <2>1, <2>4
    <2>6. s.status = "settled"
      BY <2>3 DEF RequestRecords
    <2> HIDE DEF s
    <2> QED
      BY <1>2, <1>r, <2>1, <2>5, <2>6
  <1>3. CASE t.type = "RequestCustodyRedemption" /\ ExecuteRedemption(t)
    <2> DEFINE q == [pool |-> <<t.asset, t.warehouse, t.sku>>, account |-> t.account,
                     silo |-> t.silo, quantity |-> t.quantity, status |-> "pending"]
    <2>1. redemptionRequests' = [redemptionRequests EXCEPT ![t.request] = q]
      BY <1>3 DEF ExecuteRedemption
    <2>2. q.pool = <<t.asset, t.warehouse, t.sku>> /\ q.status = "pending" /\ q # None
      <3>1. q \in RequestRecords
        BY <1>3, TxKinds DEF RedemptionTxs, RequestRecords, Amounts, Quantities
      <3> QED
        BY <3>1, CustodyNone DEF RequestRecords
    <2> HIDE DEF q
    <2> QED
      BY <1>3, <1>r, <2>1, <2>2
  <1>4. CASE LedgerExecuteTx(t) /\ UNCHANGED custodyVars
    BY <1>1, <1>4 DEF custodyVars, LedgerExecuteTx
  <1>5. CASE CustodyExecuteTx(t, height)
    <2>1. \/ ExecuteWarehouseOperator(t) \/ ExecuteSkuClass(t) \/ ExecutePolicy(t)
          \/ ExecuteIntakeLot(t, height) \/ ExecuteDemurrage(t)
          => redemptionRequests' = redemptionRequests
      BY DEF ExecuteWarehouseOperator, ExecuteSkuClass, ExecutePolicy, ExecuteIntakeLot,
         ExecuteDemurrage
    <2> QED
      BY <1>1, <1>2, <1>3, <1>5, <2>1 DEF CustodyExecuteTx
  <1> QED
    BY <1>4, <1>5 DEF ExecuteTx

\* A drawing transaction names its asset.
LEMMA DrawnAsset ==
    ASSUME NEW t \in Txs, Draws(t)
    PROVE  t.asset \in Assets
  BY TxKinds DEF Draws, IsDebit, MovesValue, BurnTxs, TransferTxs, ExecuteContractTxs,
     DemurrageTxs, RedemptionTxs

\* A balance that covers something was minted.
LEMMA ValidBacked ==
    ASSUME MemLedger, NEW t \in Txs, ValidateTx(t), Draws(t), NEW lo, NEW re,
           \A a \in OwnAssets : Books(assets, supply, accounts, lo, re, a)
    PROVE  t.asset \in Assets /\ Backed(supply, t.asset, re)
  <1>1. /\ t.type = "Burn" => ValidateBurn(t)
        /\ t.type = "Transfer" => ValidateTransfer(t)
        /\ t.type = "ExecuteContract" => ValidateExecuteContract(t)
    BY DEF ValidateTx, LedgerTypes, LedgerValidateTx
  <1>2. /\ t.type = "RequestCustodyRedemption" => ValidateRedemption(t)
        /\ t.type = "ApplyCustodyDemurrage" => ValidateDemurrage(t)
    BY DEF ValidateTx, LedgerTypes, CustodyValidateTx
  <1>3. \E c \in Commitments, n \in Int :
           n > 0 /\ t.asset \in Assets /\ Holds(<<t.asset, c>>, n)
    <2>1. CASE t.type \in {"Burn", "ApplyCustodyDemurrage"}
      <3>1. t.asset \in Assets /\ t.account \in Commitments /\ t.amount \in Int /\ t.amount > 0
        BY <2>1, TxKinds, WireConstants DEF BurnTxs, DemurrageTxs, Amounts
      <3> QED
        BY <1>1, <1>2, <2>1, <3>1 DEF ValidateBurn, ValidateDemurrage
    <2>2. CASE t.type = "Transfer"
      <3>1. t.asset \in Assets /\ t.from \in Commitments /\ t.amount \in Int /\ t.amount > 0
        BY <2>2, TxKinds, WireConstants DEF TransferTxs, Amounts
      <3> QED
        BY <1>1, <2>2, <3>1 DEF ValidateTransfer
    <2>3. CASE t.type = "ExecuteContract"
      <3>1. MovesValue(t)
        BY <2>3 DEF Draws, IsDebit
      <3>2. t.asset \in Assets /\ t.party \in Commitments /\ t.amount \in Int /\ t.amount > 0
        BY <2>3, <3>1, TxKinds, WireConstants DEF ExecuteContractTxs, MovesValue
      <3> QED
        BY <1>1, <2>3, <3>1, <3>2 DEF ValidateExecuteContract
    <2>4. CASE t.type = "RequestCustodyRedemption"
      <3>1. t.asset \in Assets /\ t.account \in Commitments /\ t.silo \in Int /\ t.silo > 0
        BY <2>4, TxKinds, WireConstants DEF RedemptionTxs, Amounts
      <3> QED
        BY <1>2, <2>4, <3>1 DEF ValidateRedemption
    <2> QED
      BY <2>1, <2>2, <2>3, <2>4 DEF Draws, IsDebit
  <1>4. PICK c \in Commitments, n \in Int :
           n > 0 /\ t.asset \in Assets /\ Holds(<<t.asset, c>>, n)
    BY <1>3
  <1> DEFINE a == t.asset
  <1>5. accounts[<<a, c>>] # None /\ accounts[<<a, c>>].balance >= n
    BY <1>4 DEF Holds
  <1>6. <<a, c>> \in AccountKeys
    BY <1>4 DEF AccountKeys
  <1>7. accounts[<<a, c>>].balance \in Int
    BY <1>5, <1>6 DEF MemLedger, LedgerMaps, AccountMaps, AccountRecords
  <1>8. Balances(accounts, a)[c] # 0
    <2>1. Balances(accounts, a)[c] = accounts[<<a, c>>].balance
      BY <1>5 DEF Balances
    <2> QED
      BY <1>4, <1>5, <1>7, <2>1
  <1>9. a \in Assets
    BY <1>4
  <1> HIDE DEF a
  <1>10. a \in OwnAssets /\ a \notin re => Minted(supply, a)
    BY <1>8 DEF Books
  <1> QED
    BY <1>9, <1>10 DEF Backed, OwnAssets, a

\* Executing a transaction.
LEMMA DeliverSupply ==
    ASSUME NodeTypes, SupplyInv, DeliverTx
    PROVE  SupplyInv'
  <1> DEFINE t == stored[next][txi]
  <1>1. /\ UNCHANGED <<db, stored, mempool, savedLost>> /\ ExecuteTx(t)
        /\ rebased' = IF t.type = "RegisterAsset" /\ supply[t.asset] # None
                         /\ supply[t.asset].minted > 0
                      THEN rebased \cup {t.asset} ELSE rebased
        /\ lost' = [a \in Assets |-> lost[a] + Vanishes(t, a)]
    BY DEF DeliverTx, Note
  <1>2. t \in Txs /\ MemGrounded(t) /\ next \in 1..Len(stored) /\ txi \in 1..Len(stored[next])
    BY DeliverEffects
  <1>3. Draws(t) => Backed(db[1][2], t.asset, rebased)
    BY <1>2 DEF SupplyInv
  <1> HIDE DEF t
  <1>4. MemLedger /\ MemCustody /\ lost \in [Assets -> Int]
    BY DEF NodeTypes, SupplyInv
  <1>5. /\ \A a \in OwnAssets : Books(assets, supply, accounts, lost, rebased, a)
        /\ \A r \in Requests : redemptionRequests[r] # None =>
              Backed(supply, redemptionRequests[r].pool[1], rebased)
        /\ \A a \in Assets : Backed(db[1][2], a, rebased) => Backed(supply, a, rebased)
    BY DEF SupplyInv, SupplyKept
  <1>6. rebased \subseteq rebased'
        /\ \A a \in Assets : t.type = "RegisterAsset" /\ t.asset = a /\ Minted(supply, a) =>
              a \in rebased'
    BY <1>1 DEF Minted
  <1>7. lost' \in [Assets -> Int]
    BY <1>1, <1>2, <1>4, VanishNumber
  <1>8. \A a \in OwnAssets : BooksStep(t, a)
    BY <1>1, <1>2, <1>4, BooksEffects
  <1>s. \A a \in OwnAssets : a \in Assets /\ a # "_"
    BY DEF OwnAssets
  <1>m. \A a \in Assets : supply[a] # None =>
           supply[a].minted \in Int /\ supply[a].burned \in Int /\ supply[a].total \in Int
    BY <1>4 DEF MemLedger, LedgerMaps, SupplyRecords
  <1>z. \A a \in OwnAssets : supply'[a] = [minted |-> 0, burned |-> 0, total |-> 0] =>
           supply'[a] # None /\ supply'[a].minted = 0 /\ supply'[a].burned = 0
           /\ supply'[a].total = 0
    BY LedgerNone
  <1>y. ASSUME NEW a \in OwnAssets, NEW m \in Nat, NEW b \in Nat, supply[a] # None,
               SupplyStep(t, a, m, b)
        PROVE  /\ supply'[a] # None /\ supply'[a].minted = supply[a].minted + m
               /\ supply'[a].burned = supply[a].burned + b
               /\ supply'[a].total = supply'[a].minted - supply'[a].burned
               /\ assets'[a] = supply'[a].total
    <2> DEFINE mi == supply[a].minted + m
               bu == supply[a].burned + b
               su == supply[a].minted + m - (supply[a].burned + b)
               z == [minted |-> mi, burned |-> bu, total |-> su]
    <2>1. /\ assets'[a] = supply'[a].total
          /\ supply'[a] = [minted |-> supply[a].minted + m, burned |-> supply[a].burned + b,
                           total |-> supply[a].minted + m - (supply[a].burned + b)]
      BY <1>y DEF SupplyStep
    <2>5. supply'[a] = z
      BY <2>1, Zenon
    <2>0. mi \in Int /\ bu \in Int /\ su \in Int /\ su = mi - bu
      <3>1. supply[a].minted \in Int /\ supply[a].burned \in Int
        BY <1>m, <1>s, <1>y
      <3> QED
        BY <3>1
    <2> HIDE DEF mi, bu, su
    <2>2. z \in [minted : Int, burned : Int, total : Int]
      BY <2>0
    <2>3. z # None
      BY <2>2, LedgerNone
    <2>4. z.minted = mi /\ z.burned = bu /\ z.total = z.minted - z.burned
      BY <2>0
    <2> HIDE DEF z
    <2> QED
      BY <2>1, <2>3, <2>4, <2>5 DEF mi, bu
  <1>9. ASSUME NEW a \in Assets, Backed(supply, a, rebased)
        PROVE  Backed(supply', a, rebased')
    <2>1. CASE a \in rebased \cup {"_"}
      BY <1>6, <2>1 DEF Backed
    <2>2. CASE a \notin rebased \cup {"_"}
      <3>1. a \in OwnAssets /\ Minted(supply, a) /\ BooksStep(t, a)
        BY <1>8, <1>9, <2>2 DEF OwnAssets, Backed
      <3>2. CASE supply'[a] = supply[a]
        BY <3>1, <3>2 DEF Backed, Minted
      <3>3. CASE t.type = "RegisterAsset" /\ t.asset = a
        BY <1>6, <3>1, <3>3 DEF Backed
      <3>4. ASSUME NEW m \in Nat, NEW b \in Nat, SupplyStep(t, a, m, b)
            PROVE  Backed(supply', a, rebased')
        <4>1. supply[a] # None /\ supply[a].minted > 0
          BY <3>1 DEF Minted
        <4>2. supply'[a] # None /\ supply'[a].minted = supply[a].minted + m
          BY <1>y, <3>1, <3>4, <4>1
        <4>3. supply'[a].minted > 0
          BY <1>m, <4>1, <4>2
        <4> QED
          BY <4>2, <4>3 DEF Backed, Minted
      <3> QED
        BY <3>1, <3>2, <3>3, <3>4 DEF BooksStep
    <2> QED
      BY <2>1, <2>2
  <1>10. ASSUME NEW a \in OwnAssets, IsDebit(t), DebitKey(t, redemptionRequests)[1] = a
         PROVE  Backed(supply, a, rebased)
    <2>1. CASE t.type = "SettleCustodyRedemption"
      <3>1. t.request \in Requests
        BY <1>2, <2>1, TxFields
      <3>2. redemptionRequests[t.request] # None
        BY <1>2, <2>1 DEF MemGrounded, Grounded
      <3>3. DebitKey(t, redemptionRequests)[1] = redemptionRequests[t.request].pool[1]
        BY <2>1 DEF DebitKey
      <3> QED
        BY <1>5, <1>10, <3>1, <3>2, <3>3
    <2>2. CASE t.type # "SettleCustodyRedemption"
      <3>1. Draws(t)
        BY <1>10, <2>2 DEF Draws
      <3>2. DebitKey(t, redemptionRequests)[1] = t.asset
        BY <1>10, <2>2 DEF DebitKey, IsDebit
      <3> QED
        BY <1>3, <1>5, <1>10, <1>s, <3>1, <3>2
    <2> QED
      BY <2>1, <2>2
  <1>11. ASSUME NEW a \in OwnAssets
         PROVE  Books(assets', supply', accounts', lost', rebased', a)
    <2>1. Books(assets, supply, accounts, lost, rebased, a) /\ BooksStep(t, a) /\ a \in Assets
      BY <1>5, <1>8, <1>s
    <2>2. lost'[a] = lost[a] + Vanishes(t, a) /\ lost[a] \in Int
      BY <1>1, <1>4, <2>1
    <2>3. InAccounts(accounts, a) \in Int /\ ((\A c \in Commitments : Balances(accounts, a)[c] = 0)
             => InAccounts(accounts, a) = 0)
      BY <1>4, <2>1, BalanceNumbers DEF MemLedger, LedgerMaps
    <2>4. ASSUME IsDebit(t), DebitKey(t, redemptionRequests)[1] = a, a \notin rebased
          PROVE  Minted(supply, a)
      BY <1>10, <1>s, <2>4 DEF Backed
    <2>5. CASE /\ supply'[a] = supply[a] /\ assets'[a] = assets[a]
               /\ Vanishes(t, a) \in Int
               /\ InAccounts(accounts', a) = InAccounts(accounts, a) - Vanishes(t, a)
               /\ \/ (\A c \in Commitments : Balances(accounts, a)[c] = 0) =>
                         /\ \A c \in Commitments : Balances(accounts', a)[c] = 0
                         /\ Vanishes(t, a) = 0
                  \/ IsDebit(t) /\ DebitKey(t, redemptionRequests)[1] = a
      <3>1. supply'[a] # None => /\ supply'[a].total = supply'[a].minted - supply'[a].burned
                                 /\ assets'[a] = supply'[a].total
        BY <2>1, <2>5 DEF Books
      <3>2. ASSUME a \notin rebased', supply'[a] # None
            PROVE  /\ supply'[a].minted >= 0
                   /\ supply'[a].total = InAccounts(accounts', a) + lost'[a]
        <4>1. supply[a] # None /\ supply[a].minted >= 0
              /\ supply[a].total = InAccounts(accounts, a) + lost[a]
          BY <1>6, <2>1, <2>5, <3>2 DEF Books
        <4>2. supply[a].total = InAccounts(accounts', a) + lost'[a]
          BY <2>2, <2>3, <2>5, <4>1
        <4> QED
          BY <2>5, <4>1, <4>2
      <3>3. ASSUME a \notin rebased', ~ Minted(supply', a)
            PROVE  /\ supply'[a] # None => supply'[a].burned = 0
                   /\ \A c \in Commitments : Balances(accounts', a)[c] = 0
                   /\ lost'[a] = 0
        <4>1. a \notin rebased /\ ~ Minted(supply, a)
          BY <1>6, <2>5, <3>3 DEF Minted
        <4>2. /\ supply[a] # None => supply[a].burned = 0
              /\ \A c \in Commitments : Balances(accounts, a)[c] = 0
              /\ lost[a] = 0
          BY <2>1, <4>1 DEF Books
        <4>3. ~ (IsDebit(t) /\ DebitKey(t, redemptionRequests)[1] = a)
          BY <2>4, <4>1
        <4>4. (\A c \in Commitments : Balances(accounts', a)[c] = 0) /\ Vanishes(t, a) = 0
          BY <2>5, <4>2, <4>3
        <4>5. lost'[a] = 0
          BY <2>2, <4>2, <4>4
        <4> QED
          BY <2>5, <4>2, <4>4, <4>5
      <3> QED
        BY <3>1, <3>2, <3>3 DEF Books
    <2>6. CASE /\ t.type = "RegisterAsset" /\ t.asset = a
               /\ supply'[a] = [minted |-> 0, burned |-> 0, total |-> 0] /\ assets'[a] = 0
               /\ accounts' = accounts /\ Vanishes(t, a) = 0
      <3>1. supply'[a] # None /\ supply'[a].minted = 0 /\ supply'[a].burned = 0
            /\ supply'[a].total = 0 /\ assets'[a] = 0
        BY <1>z, <2>6
      <3>2. ASSUME a \notin rebased'
            PROVE  /\ \A c \in Commitments : Balances(accounts', a)[c] = 0
                   /\ InAccounts(accounts', a) = 0 /\ lost'[a] = 0
        <4>1. a \notin rebased /\ ~ Minted(supply, a)
          BY <1>6, <2>1, <2>6, <3>2
        <4>2. (\A c \in Commitments : Balances(accounts, a)[c] = 0) /\ lost[a] = 0
          BY <2>1, <4>1 DEF Books
        <4>3. InAccounts(accounts, a) = 0 /\ lost'[a] = 0
          BY <2>2, <2>3, <2>6, <4>2
        <4>4. accounts' = accounts
          BY <2>6
        <4> QED
          BY <4>2, <4>3, <4>4
      <3>3. supply'[a].total = supply'[a].minted - supply'[a].burned
            /\ supply'[a].minted >= 0
            /\ (a \notin rebased' => supply'[a].total = InAccounts(accounts', a) + lost'[a])
        BY <3>1, <3>2
      <3>4. assets'[a] = supply'[a].total
        BY <3>1
      <3> QED
        BY <3>1, <3>2, <3>3, <3>4 DEF Books
    <2>7. ASSUME supply[a] # None, Vanishes(t, a) = 0, NEW m \in Nat, NEW b \in Nat,
                 SupplyStep(t, a, m, b)
          PROVE  Books(assets', supply', accounts', lost', rebased', a)
      <3>1. /\ supply'[a] # None /\ supply'[a].minted = supply[a].minted + m
            /\ supply'[a].burned = supply[a].burned + b
            /\ supply'[a].total = supply'[a].minted - supply'[a].burned
            /\ assets'[a] = supply'[a].total
        BY <1>y, <2>7
      <3>2. /\ InAccounts(accounts', a) = InAccounts(accounts, a) + m - b
            /\ m > 0 \/ (IsDebit(t) /\ DebitKey(t, redemptionRequests)[1] = a)
        BY <2>7 DEF SupplyStep
      <3>3. supply[a].minted \in Int /\ supply[a].burned \in Int
        BY <1>m, <2>1, <2>7
      <3>4. ASSUME a \notin rebased'
            PROVE  /\ supply'[a].minted >= 0
                   /\ supply'[a].total = InAccounts(accounts', a) + lost'[a]
                   /\ Minted(supply', a)
        <4>1. /\ a \notin rebased /\ supply[a].minted >= 0
              /\ supply[a].total = supply[a].minted - supply[a].burned
              /\ supply[a].total = InAccounts(accounts, a) + lost[a]
          BY <1>6, <2>1, <2>7, <3>4 DEF Books
        <4>2. supply'[a].minted >= 0 /\ supply'[a].total = InAccounts(accounts', a) + lost'[a]
          BY <2>2, <2>3, <2>7, <3>1, <3>2, <3>3, <4>1
        <4>3. supply'[a].minted > 0
          <5>1. CASE m > 0
            BY <3>1, <3>3, <4>1, <5>1
          <5>2. CASE IsDebit(t) /\ DebitKey(t, redemptionRequests)[1] = a
            <6>1. supply[a].minted > 0
              BY <2>4, <4>1, <5>2 DEF Minted
            <6> QED
              BY <3>1, <3>3, <6>1
          <5> QED
            BY <3>2, <5>1, <5>2
        <4> QED
          BY <3>1, <4>2, <4>3 DEF Minted
      <3> QED
        BY <3>1, <3>4 DEF Books
    <2> QED
      BY <2>1, <2>5, <2>6, <2>7 DEF BooksStep
  <1>12. ASSUME NEW r \in Requests, redemptionRequests'[r] # None
         PROVE  Backed(supply', redemptionRequests'[r].pool[1], rebased')
    <2>1. CASE t.type = "RequestCustodyRedemption" /\ t.request = r
      <3>1. redemptionRequests'[r].pool = <<t.asset, t.warehouse, t.sku>>
        BY <1>1, <1>2, <1>4, <2>1, RequestRows
      <3>2. redemptionRequests'[r].pool[1] = t.asset
        BY <3>1
      <3>3. t.asset \in Assets
        BY <1>2, <2>1, TxKinds DEF RedemptionTxs
      <3>4. Backed(db[1][2], t.asset, rebased)
        BY <1>3, <2>1 DEF Draws
      <3> QED
        BY <1>5, <1>9, <3>2, <3>3, <3>4
    <2>2. CASE ~ (t.type = "RequestCustodyRedemption" /\ t.request = r)
      <3>1. redemptionRequests[r] # None
        <4>1. CASE t.type = "SettleCustodyRedemption" /\ t.request = r
          BY <1>2, <4>1 DEF MemGrounded, Grounded
        <4>2. CASE ~ (t.type = "SettleCustodyRedemption" /\ t.request = r)
          BY <1>1, <1>2, <1>4, <1>12, <2>2, <4>2, RequestRows
        <4> QED
          BY <4>1, <4>2
      <3>2. redemptionRequests'[r].pool = redemptionRequests[r].pool
        BY <1>1, <1>2, <1>4, <2>2, <3>1, RequestEffects
      <3>3. redemptionRequests[r].pool[1] \in Assets
        <4>1. redemptionRequests[r] \in RequestRecords
          BY <1>4, <3>1 DEF MemCustody, CustodyMaps
        <4> QED
          BY <4>1 DEF RequestRecords
      <3>4. Backed(supply, redemptionRequests[r].pool[1], rebased)
        BY <1>5, <3>1
      <3> QED
        BY <1>9, <3>2, <3>3, <3>4
    <2> QED
      BY <2>1, <2>2
  <1>13. \A su, a : Backed(su, a, rebased) => Backed(su, a, rebased')
    BY <1>6 DEF Backed
  <1>14. SupplyKept(db[1][1], db[1][2], db[1][3], db[2][6], savedLost, rebased')
    BY <1>6, <1>13 DEF SupplyInv, SupplyKept, Books
  <1>15. SupplyKept(assets', supply', accounts', redemptionRequests', lost', rebased')
    BY <1>11, <1>12 DEF SupplyKept
  <1>16. \A a \in Assets : Backed(db[1][2], a, rebased') => Backed(supply', a, rebased')
    <2> SUFFICES ASSUME NEW a \in Assets, Backed(db[1][2], a, rebased')
                 PROVE  Backed(supply', a, rebased')
      OBVIOUS
    <2>1. CASE a \in rebased'
      BY <2>1 DEF Backed
    <2>2. CASE a \notin rebased'
      <3>1. Backed(db[1][2], a, rebased)
        BY <2>2 DEF Backed
      <3> QED
        BY <1>5, <1>9, <3>1
    <2> QED
      BY <2>1, <2>2
  <1>17. /\ \A x \in mempool : Draws(x) => Backed(db[1][2], x.asset, rebased')
         /\ \A i \in 1..Len(stored) : \A j \in 1..Len(stored[i]) :
               Draws(stored[i][j]) => Backed(db[1][2], stored[i][j].asset, rebased')
    BY <1>13 DEF SupplyInv
  <1> QED
    BY <1>1, <1>7, <1>14, <1>15, <1>16, <1>17 DEF SupplyInv

\* Every step keeps the books.
LEMMA StepSupply ==
    ASSUME NodeTypes, DirtyInv, SupplyInv, [WireNext]_wireVars
    PROVE  SupplyInv'
  <1> DEFINE L(x, d, re) == Draws(x) => Backed(d[1][2], x.asset, re)
  <1>h. /\ lost \in [Assets -> Int] /\ savedLost \in [Assets -> Int]
        /\ SupplyKept(assets, supply, accounts, redemptionRequests, lost, rebased)
        /\ SupplyKept(db[1][1], db[1][2], db[1][3], db[2][6], savedLost, rebased)
        /\ \A a \in Assets : Backed(db[1][2], a, rebased) => Backed(supply, a, rebased)
        /\ \A t \in mempool : L(t, db, rebased)
        /\ \A i \in 1..Len(stored) : \A j \in 1..Len(stored[i]) : L(stored[i][j], db, rebased)
    BY DEF SupplyInv
  <1>g. ASSUME lost' \in [Assets -> Int], savedLost' \in [Assets -> Int],
               SupplyKept(assets', supply', accounts', redemptionRequests', lost', rebased'),
               SupplyKept(db'[1][1], db'[1][2], db'[1][3], db'[2][6], savedLost', rebased'),
               \A a \in Assets : Backed(db'[1][2], a, rebased') => Backed(supply', a, rebased'),
               \A t \in mempool' : L(t, db', rebased'),
               \A i \in 1..Len(stored') : \A j \in 1..Len(stored'[i]) :
                  L(stored'[i][j], db', rebased')
        PROVE  SupplyInv'
    BY <1>g DEF SupplyInv
  <1>b. \A a \in OwnAssets : Books(assets, supply, accounts, lost, rebased, a)
    BY <1>h DEF SupplyKept
  <1>t. Len(stored) \in Nat /\ stored \in Seq(Seq(Txs)) /\ MemLedger /\ mempool \subseteq Txs
    <2>1. mempool \subseteq Txs
      BY TrafficTxs
    <2> QED
      BY <2>1 DEF NodeTypes
  <1>v. ASSUME NEW t \in Txs, ValidateTx(t), NEW d, d[1][2] = supply
        PROVE  L(t, d, rebased)
    <2>1. Draws(t) => Backed(supply, t.asset, rebased)
      BY <1>b, <1>t, <1>v, ValidBacked
    <2> QED
      BY <1>v, <2>1
  <1> HIDE DEF L
  <1>1. ASSUME NEW t \in Traffic[profile], CheckTx(t) PROVE SupplyInv'
    <2>1. UNCHANGED <<assets, supply, accounts, redemptionRequests, lost, savedLost, rebased, db,
                      stored>> /\ mempool' = mempool \cup {t} /\ ValidateTx(t) /\ Idle
      BY <1>1 DEF CheckTx, ledgerVars, custodyVars
    <2>2. db[1][2] = supply
      BY <2>1 DEF DirtyInv, Persisted, LedgerPersisted
    <2>3. t \in Txs
      BY TrafficTxs
    <2>4. L(t, db, rebased)
      BY <1>v, <2>1, <2>2, <2>3
    <2> QED
      BY <1>g, <1>h, <2>1, <2>4
  <1>2. CASE DecideBlock
    <2>1. UNCHANGED <<assets, supply, accounts, redemptionRequests, lost, savedLost, rebased, db>>
      BY <1>2 DEF DecideBlock, ledgerVars, custodyVars
    <2>2. PICK txs \in Seq(Txs) :
              /\ \A j \in 1..Len(txs) : txs[j] \in mempool
              /\ stored' = Append(stored, txs)
              /\ mempool' \subseteq mempool
      BY <1>2, DecidedBlock
    <2>3. /\ Len(stored') = Len(stored) + 1 /\ stored'[Len(stored) + 1] = txs
          /\ \A i \in 1..Len(stored) : stored'[i] = stored[i]
      BY <1>t, <2>2
    <2>4. \A i \in 1..Len(stored') : i \in 1..Len(stored) \/ i = Len(stored) + 1
      BY <1>t, <2>3
    <2>5. \A i \in 1..Len(stored') : \A j \in 1..Len(stored'[i]) : L(stored'[i][j], db, rebased)
      BY <1>h, <2>2, <2>3, <2>4
    <2> QED
      BY <1>g, <1>h, <2>1, <2>2, <2>5
  <1>3. CASE DeliverTx
    BY <1>3, DeliverSupply
  <1>4. CASE EndBlock
    <2>1. /\ db' = Persisted
          /\ UNCHANGED <<assets, supply, accounts, redemptionRequests>>
          /\ \/ /\ Len(stored') = Len(stored) - 1
                /\ \A i \in 1..Len(stored') : stored'[i] = stored[i + 1]
             \/ stored' = stored
      BY <1>4, EndBlockSaves
    <2>2. /\ UNCHANGED <<lost, rebased>> /\ savedLost' = lost
          /\ mempool' = {t \in mempool : ValidateTx(t)}
      BY <1>4 DEF EndBlock
    <2>3. /\ db'[1][1] = assets /\ db'[1][2] = supply /\ db'[1][3] = accounts
          /\ db'[2][6] = redemptionRequests
      BY <2>1 DEF Persisted, LedgerPersisted, CustodyPersisted
    <2>4. \A t \in mempool' : L(t, db', rebased)
      BY <1>t, <1>v, <2>2, <2>3
    <2>5. \A i \in 1..Len(stored) : \A j \in 1..Len(stored[i]) :
             L(stored[i][j], db', rebased)
      <3> SUFFICES ASSUME NEW i \in 1..Len(stored), NEW j \in 1..Len(stored[i])
                   PROVE  L(stored[i][j], db', rebased)
        OBVIOUS
      <3> DEFINE x == stored[i][j]
      <3>1. x \in Txs
        BY <1>t
      <3>2. L(x, db, rebased)
        BY <1>h
      <3> HIDE DEF x
      <3>3. ASSUME Draws(x) PROVE x.asset \in Assets
        BY <3>1, <3>3, DrawnAsset
      <3>4. L(x, db', rebased)
        BY <1>h, <2>3, <3>2, <3>3 DEF L
      <3> QED
        BY <3>4 DEF x
    <2>6. \A i \in 1..Len(stored') : \A j \in 1..Len(stored'[i]) : L(stored'[i][j], db', rebased)
      <3>1. CASE stored' = stored
        BY <2>5, <3>1
      <3>2. CASE /\ Len(stored') = Len(stored) - 1
                 /\ \A i \in 1..Len(stored') : stored'[i] = stored[i + 1]
        <4>1. \A i \in 1..Len(stored') : i + 1 \in 1..Len(stored)
          BY <1>t, <3>2
        <4> QED
          BY <2>5, <3>2, <4>1
      <3> QED
        BY <2>1, <3>1, <3>2
    <2> QED
      BY <1>g, <1>h, <2>1, <2>2, <2>3, <2>4, <2>6
  <1>5. CASE Restart
    <2>1. /\ assets' = db[1][1] /\ supply' = db[1][2] /\ accounts' = db[1][3]
          /\ redemptionRequests' = db[2][6] /\ db' = db
      BY <1>5, RestartLoads
    <2>2. /\ UNCHANGED <<savedLost, rebased, stored>> /\ lost' = savedLost /\ mempool' = {}
      BY <1>5 DEF Restart
    <2> QED
      BY <1>g, <1>h, <2>1, <2>2
  <1>6. CASE UNCHANGED wireVars
    <2>1. UNCHANGED <<assets, supply, accounts, redemptionRequests, lost, savedLost, rebased, db,
                      stored, mempool>>
      BY <1>6 DEF wireVars, history, ledgerVars, custodyVars, chain
    <2> QED
      BY <1>g, <1>h, <2>1
  <1> QED
    BY <1>1, <1>2, <1>3, <1>4, <1>5, <1>6 DEF WireNext

\* The books of the opening state.
LEMMA InitSupply ==
    ASSUME WireInit
    PROVE  SupplyInv
  <1>1. /\ db = Persisted /\ mempool = {} /\ stored = <<>> /\ rebased = {}
        /\ lost = [a \in Assets |-> 0] /\ savedLost = lost /\ CustodyInit
    BY DEF WireInit
  <1>2. /\ db[1][1] = assets /\ db[1][2] = supply /\ db[1][3] = accounts
        /\ db[2][6] = redemptionRequests
    BY <1>1 DEF Persisted, LedgerPersisted, CustodyPersisted
  <1>3. Len(stored) = 0 /\ \A r \in Requests : redemptionRequests[r] = None
    BY <1>1 DEF CustodyInit
  <1>4. ASSUME NEW a \in OwnAssets
        PROVE  Books(assets, supply, accounts, lost, rebased, a)
    <2>0. a \in Assets /\ lost[a] = 0
      BY <1>1 DEF OwnAssets
    <2>1. CASE Opening[profile] = None
      <3>1. supply[a] = None
        BY <2>0, <2>1 DEF WireInit, LedgerInit
      <3>2. \A c \in Commitments : Balances(accounts, a)[c] = 0
        <4>1. \A c \in Commitments : <<a, c>> \in AccountKeys
          BY <2>0 DEF AccountKeys
        <4>2. \A c \in Commitments : accounts[<<a, c>>] = None
          BY <2>1, <4>1 DEF WireInit, LedgerInit
        <4> QED
          BY <4>2 DEF Balances
      <3> QED
        BY <2>0, <3>1, <3>2 DEF Books
    <2>2. CASE Opening[profile] # None
      <3> DEFINE b == Opening[profile]
                 n == Total(b)
                 z == [minted |-> n, burned |-> 0, total |-> n]
      <3>1. OpenInit(b) /\ profile \in Profiles
        BY <2>2 DEF WireInit
      <3>2. b \in [Commitments -> Nat]
        BY <2>2, <3>1, WireAppConstants
      <3>3. supply[a] = z /\ assets[a] = n
        BY <2>0, <3>1 DEF OpenInit
      <3>b. \A c \in Commitments : accounts[<<a, c>>] =
               [NewAccount EXCEPT !.balance = IF <<a, c>>[1] = "_" THEN 0 ELSE b[<<a, c>>[2]]]
        <4>1. \A c \in Commitments : <<a, c>> \in AccountKeys
          BY <2>0 DEF AccountKeys
        <4> QED
          BY <3>1, <4>1 DEF OpenInit
      <3> HIDE DEF b
      <3>4. Balances(accounts, a) = b
        <4>1. \A c \in Commitments : accounts[<<a, c>>] = [NewAccount EXCEPT !.balance = b[c]]
          BY <3>b DEF OwnAssets
        <4>2. ASSUME NEW c \in Commitments
              PROVE  accounts[<<a, c>>] # None /\ accounts[<<a, c>>].balance = b[c]
          <5> DEFINE y == b[c]
                     w == [NewAccount EXCEPT !.balance = y]
          <5>1. y \in Int
            BY <3>2
          <5>2. accounts[<<a, c>>] = w
            BY <4>1
          <5> HIDE DEF y
          <5>3. w \in AccountRecords /\ w.balance = y
            BY <5>1 DEF NewAccount, AccountRecords
          <5>4. w # None
            BY <5>3, LedgerNone DEF AccountRecords
          <5> HIDE DEF w
          <5> QED
            BY <5>2, <5>3, <5>4 DEF y
        <4>3. \A c \in Commitments :
                 (IF accounts[<<a, c>>] = None THEN 0 ELSE accounts[<<a, c>>].balance) = b[c]
          BY <4>2
        <4> QED
          BY <3>2, <4>3 DEF Balances
      <3>5. InAccounts(accounts, a) = n /\ n \in Nat /\ (n = 0 => \A c \in Commitments : b[c] = 0)
        BY <3>2, <3>4, WireConstants, TotalNat DEF InAccounts
      <3> HIDE DEF n
      <3>6. supply[a] # None /\ supply[a].minted = n /\ supply[a].burned = 0 /\ supply[a].total = n
        <4>1. z \in [minted : Int, burned : Int, total : Int]
          BY <3>5
        <4>2. z # None /\ z.minted = n /\ z.burned = 0 /\ z.total = n
          BY <4>1, LedgerNone
        <4> HIDE DEF z
        <4> QED
          BY <3>3, <4>2
      <3>7. supply[a].total = supply[a].minted - supply[a].burned /\ supply[a].minted >= 0
            /\ supply[a].total = InAccounts(accounts, a) + lost[a]
        BY <2>0, <3>5, <3>6
      <3>8. ~ Minted(supply, a) => \A c \in Commitments : Balances(accounts, a)[c] = 0
        BY <3>4, <3>5, <3>6 DEF Minted
      <3> QED
        BY <2>0, <3>3, <3>6, <3>7, <3>8 DEF Books
    <2> QED
      BY <2>1, <2>2
  <1>5. lost \in [Assets -> Int]
    BY <1>1
  <1>6. SupplyKept(assets, supply, accounts, redemptionRequests, lost, rebased)
    BY <1>3, <1>4 DEF SupplyKept
  <1>7. \A i \in 1..Len(stored) : FALSE
    BY <1>3
  <1> QED
    BY <1>1, <1>2, <1>5, <1>6, <1>7 DEF SupplyInv

\* Supply, asset record and accounts agree: mints, burns, settlements and
\* demurrage move them together, whatever order blocks and restarts bring them
\* in, and what other executions take out of the accounts is all that is
\* missing from them.  Only an asset registered again over its supply differs.
THEOREM SupplyIsAccounted == WireSpec => []SupplyAccounted
  <1>1. WireInit => SupplyInv
    BY InitSupply
  <1>2. NodeTypes /\ DirtyInv /\ SupplyInv /\ [WireNext]_wireVars => SupplyInv'
    BY StepSupply
  <1>3. SupplyInv => SupplyAccounted
    BY DEF SupplyInv, SupplyKept, SupplyAccounted, OwnAssets, Books, InAccounts, Circulating,
       Balances
  <1> QED
    BY <1>1, <1>2, <1>3, NodeInvariant, PTL DEF WireSpec

=============================================================================

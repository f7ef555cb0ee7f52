----------------------------- MODULE WireProofs -----------------------------
(***************************************************************************)
(* Theorems about the shywire node: what FinalizeBlock without validation, *)
(* a Commit that skips clean blocks, crashes at any point and CometBFT's   *)
(* replay leave intact, for every ledger, custody registry and traffic and *)
(* any number of blocks and restarts.                                      *)
(***************************************************************************)
EXTENDS WireApp, FiniteSetTheorems, TLAPS

-----------------------------------------------------------------------------
(* Sums                                                                     *)

\* Units as pairs.
LEMMA UnitsPairs ==
    ASSUME NEW S, NEW f \in [S -> Int]
    PROVE  Units(f) = {u \in S \X Int : u[2] \in 1..f[u[1]]}
  <1>1. ASSUME NEW u \in Units(f)
        PROVE  u \in S \X Int /\ u[2] \in 1..f[u[1]]
    <2>1. PICK x \in S : u \in {x} \X (1..f[x])
      BY DEF Units
    <2> QED
      BY <2>1
  <1>2. ASSUME NEW u \in S \X Int, u[2] \in 1..f[u[1]]
        PROVE  u \in Units(f)
    <2>1. u \in {u[1]} \X (1..f[u[1]]) /\ u[1] \in DOMAIN f
      BY <1>2
    <2> QED
      BY <2>1 DEF Units
  <1> QED
    BY <1>1, <1>2

\* There are finitely many.
LEMMA UnitsFinite ==
    ASSUME NEW S, IsFiniteSet(S), NEW f \in [S -> Int]
    PROVE  IsFiniteSet(Units(f)) /\ Cardinality(Units(f)) \in Nat
  <1> DEFINE T == {{x} \X (1..f[x]) : x \in DOMAIN f}
             g == [x \in S |-> {x} \X (1..f[x])]
  <1>1. g \in Surjection(S, T)
    BY DEF Surjection
  <1>2. IsFiniteSet(T)
    BY <1>1, FS_Surjection
  <1>3. ASSUME NEW A \in T PROVE IsFiniteSet(A)
    <2>1. PICK x \in S : A = {x} \X (1..f[x])
      OBVIOUS
    <2>2. IsFiniteSet({x}) /\ IsFiniteSet(1..f[x])
      <3>1. f[x] \in Int /\ 1 \in Int
        OBVIOUS
      <3> QED
        BY <3>1, FS_Singleton, FS_Interval
    <2> QED
      BY <2>1, <2>2, FS_Product
  <1> HIDE DEF T
  <1>4. IsFiniteSet(UNION T)
    BY <1>2, <1>3, FS_UNION
  <1>5. IsFiniteSet(Units(f))
    BY <1>4 DEF Units, T
  <1> QED
    BY <1>5, FS_CardinalityType

\* The units of one argument and the others.
LEMMA UnitsSplit ==
    ASSUME NEW S, IsFiniteSet(S), NEW f \in [S -> Int], NEW x \in S
    PROVE  LET R == {u \in Units(f) : u[1] # x}
           IN  /\ IsFiniteSet(R) /\ Cardinality(R) \in Nat
               /\ Cardinality(Units(f))
                  = Cardinality(R) + (IF f[x] > 0 THEN f[x] ELSE 0)
  <1> DEFINE R == {u \in Units(f) : u[1] # x}
             A == {x} \X (1..f[x])
  <1>1. Units(f) = {u \in S \X Int : u[2] \in 1..f[u[1]]}
    BY UnitsPairs
  <1>2. Units(f) = R \cup A /\ R \cap A = {}
    BY <1>1
  <1>3. IsFiniteSet(Units(f)) /\ R \in SUBSET Units(f) /\ A \in SUBSET Units(f)
    BY <1>2, UnitsFinite
  <1>4. IsFiniteSet(R) /\ Cardinality(R) \in Nat
    BY <1>3, FS_Subset, FS_CardinalityType
  <1>5. f[x] \in Int
    OBVIOUS
  <1>6. IsFiniteSet({x}) /\ Cardinality({x}) = 1
    BY FS_Singleton
  <1>7. IsFiniteSet(1..f[x]) /\ Cardinality(1..f[x]) = IF 1 > f[x] THEN 0 ELSE f[x] - 1 + 1
    BY <1>5, FS_Interval
  <1>8. IsFiniteSet(A) /\ Cardinality(A) = Cardinality({x}) * Cardinality(1..f[x])
    BY <1>6, <1>7, FS_Product
  <1>9. Cardinality(A) = IF f[x] > 0 THEN f[x] ELSE 0
    BY <1>5, <1>6, <1>7, <1>8
  <1> HIDE DEF R, A
  <1>10. Cardinality(R \cup A) = Cardinality(R) + Cardinality(A) - Cardinality(R \cap A)
    BY <1>4, <1>8, FS_Union
  <1>11. Cardinality(R \cap A) = 0
    BY <1>2, FS_EmptySet
  <1>12. Cardinality(Units(f)) = Cardinality(R) + Cardinality(A)
    BY <1>2, <1>4, <1>5, <1>9, <1>10, <1>11
  <1> QED
    BY <1>4, <1>9, <1>12 DEF R

\* The units of two functions that differ at one argument.
LEMMA UnitsChange ==
    ASSUME NEW S, IsFiniteSet(S), NEW f \in [S -> Int], NEW g \in [S -> Int], NEW x \in S,
           \A y \in S \ {x} : g[y] = f[y]
    PROVE  Cardinality(Units(g)) - (IF g[x] > 0 THEN g[x] ELSE 0)
           = Cardinality(Units(f)) - (IF f[x] > 0 THEN f[x] ELSE 0)
  <1> DEFINE R == {u \in Units(f) : u[1] # x}
  <1>1. R = {u \in Units(g) : u[1] # x}
    <2>1. Units(f) = {u \in S \X Int : u[2] \in 1..f[u[1]]}
      BY UnitsPairs
    <2>2. Units(g) = {u \in S \X Int : u[2] \in 1..g[u[1]]}
      BY UnitsPairs
    <2>3. \A u \in S \X Int : u[1] # x => g[u[1]] = f[u[1]]
      OBVIOUS
    <2> HIDE DEF R
    <2> QED
      BY <2>1, <2>2, <2>3 DEF R
  <1>2. /\ Cardinality(R) \in Nat
        /\ Cardinality(Units(f)) = Cardinality(R) + (IF f[x] > 0 THEN f[x] ELSE 0)
    BY UnitsSplit
  <1>3. Cardinality(Units(g)) = Cardinality({u \in Units(g) : u[1] # x})
                                + (IF g[x] > 0 THEN g[x] ELSE 0)
    BY UnitsSplit
  <1>4. Cardinality(Units(g)) = Cardinality(R) + (IF g[x] > 0 THEN g[x] ELSE 0)
    BY <1>1, <1>3
  <1>5. f[x] \in Int /\ g[x] \in Int
    OBVIOUS
  <1> HIDE DEF R
  <1> QED
    BY <1>2, <1>4, <1>5

\* A sum changes by what one argument changes.
LEMMA TotalChange ==
    ASSUME NEW S, IsFiniteSet(S), NEW f \in [S -> Int], NEW g \in [S -> Int], NEW x \in S,
           \A y \in S \ {x} : g[y] = f[y]
    PROVE  /\ Total(f) \in Int /\ Total(g) \in Int
           /\ Total(g) = Total(f) + g[x] - f[x]
  <1> DEFINE nf == [y \in S |-> - f[y]]
             ng == [y \in S |-> - g[y]]
  <1>1. nf \in [S -> Int] /\ ng \in [S -> Int] /\ nf[x] = - f[x] /\ ng[x] = - g[x]
        /\ \A y \in S \ {x} : ng[y] = nf[y]
    OBVIOUS
  <1>2. /\ Total(f) = Cardinality(Units(f)) - Cardinality(Units(nf))
        /\ Total(g) = Cardinality(Units(g)) - Cardinality(Units(ng))
    BY DEF Total
  <1> HIDE DEF nf, ng
  <1>3. /\ Cardinality(Units(f)) \in Nat /\ Cardinality(Units(nf)) \in Nat
        /\ Cardinality(Units(g)) \in Nat /\ Cardinality(Units(ng)) \in Nat
    BY <1>1, UnitsFinite
  <1>4. Cardinality(Units(g)) - (IF g[x] > 0 THEN g[x] ELSE 0)
        = Cardinality(Units(f)) - (IF f[x] > 0 THEN f[x] ELSE 0)
    BY UnitsChange
  <1>5. Cardinality(Units(ng)) - (IF ng[x] > 0 THEN ng[x] ELSE 0)
        = Cardinality(Units(nf)) - (IF nf[x] > 0 THEN nf[x] ELSE 0)
    BY <1>1, UnitsChange
  <1>6. f[x] \in Int /\ g[x] \in Int
    OBVIOUS
  <1>7. /\ Total(f) \in Int /\ Total(g) \in Int
    BY <1>2, <1>3
  <1>8. Total(g) = Total(f) + g[x] - f[x]
    BY <1>1, <1>2, <1>3, <1>4, <1>5, <1>6
  <1> QED
    BY <1>7, <1>8

\* A sum is a number; of naturals it counts their units.
LEMMA TotalType ==
    ASSUME NEW S, IsFiniteSet(S), NEW f \in [S -> Int]
    PROVE  /\ Total(f) \in Int
           /\ f \in [S -> Nat] => Total(f) \in Nat /\ Total(f) = Cardinality(Units(f))
           /\ (\A x \in S : f[x] = 0) => Total(f) = 0
  <1> DEFINE nf == [y \in S |-> - f[y]]
  <1>1. nf \in [S -> Int] /\ Total(f) = Cardinality(Units(f)) - Cardinality(Units(nf))
    BY DEF Total
  <1>2. Cardinality(Units(f)) \in Nat /\ Cardinality(Units(nf)) \in Nat
    BY <1>1, UnitsFinite
  <1>3. Units(f) = {u \in S \X Int : u[2] \in 1..f[u[1]]}
    BY UnitsPairs
  <1>4. Units(nf) = {u \in S \X Int : u[2] \in 1..nf[u[1]]}
    BY <1>1, UnitsPairs
  <1>5. ASSUME f \in [S -> Nat] PROVE Units(nf) = {}
    <2> SUFFICES ASSUME NEW u \in S \X Int, u[2] \in 1..nf[u[1]] PROVE FALSE
      BY <1>4
    <2>1. nf[u[1]] = - f[u[1]] /\ f[u[1]] \in Nat
      BY <1>5
    <2> HIDE DEF nf
    <2> QED
      BY <2>1
  <1>6. ASSUME f \in [S -> Nat] PROVE Total(f) \in Nat /\ Total(f) = Cardinality(Units(f))
    <2>1. Cardinality(Units(nf)) = 0
      BY <1>5, <1>6, FS_EmptySet
    <2> HIDE DEF nf
    <2> QED
      BY <1>1, <1>2, <2>1
  <1>7. ASSUME \A x \in S : f[x] = 0 PROVE Total(f) = 0
    <2>1. f \in [S -> Nat]
      BY <1>7
    <2>2. Units(f) = {}
      <3> SUFFICES ASSUME NEW u \in S \X Int, u[2] \in 1..f[u[1]] PROVE FALSE
        BY <1>3
      <3>1. f[u[1]] = 0
        BY <1>7
      <3> QED
        BY <3>1
    <2> QED
      BY <1>6, <2>1, <2>2, FS_EmptySet
  <1>8. Total(f) \in Int
    BY <1>1, <1>2
  <1> QED
    BY <1>6, <1>7, <1>8

-----------------------------------------------------------------------------
(* Types                                                                    *)

Txs == LedgerTxs \cup CustodyTxs

SupplyRecords == [minted : Int, burned : Int, total : Int]
AccountRecords == [balance : Int, disabled : BOOLEAN, frozen : BOOLEAN]
TransferRecords == [asset : Assets \cup {None}, amount : Int]
ContractRecords == [asset : Assets \cup {None}, expires : BOOLEAN, count : Int,
                    executed : Int, status : {"pending_condition", "active"}]
PolicyRecords == [asset : Assets, operators : SUBSET Operators,
                  skus : SUBSET SkuClasses, status : {"active", "superseded"}]
RequestRecords == [pool : Assets \X Warehouses \X SkuClasses,
                   account : Commitments, silo : 1..MaxAmount,
                   quantity : 1..MaxQuantity, status : {"pending", "settled"}]

AccountMaps == [AccountKeys -> AccountRecords \cup {None}]

\* Types of the ledger's maps, in memory or in the database.
LedgerMaps(as, su, ac, tr, pa, co, ex, aa, en) ==
    /\ as \in [Assets -> Int \cup {None}]
    /\ su \in [Assets -> SupplyRecords \cup {None}]
    /\ ac \in AccountMaps
    /\ tr \in [Nonces -> TransferRecords \cup {None}]
    /\ pa \in [Nullifiers -> Nonces \cup {None}]
    /\ co \in [Contracts -> ContractRecords \cup {None}]
    /\ ex \in [Nonces -> Contracts \cup {None}]
    /\ aa \in SUBSET Actions
    /\ en \in [EnrollmentTokens -> Commitments \cup {None}]

\* Types of custody's maps that the ledger depends on, and the records that
\* name others: a policy its asset, a request its asset and account.
CustodyMaps(as, su, ac, po, cu, rq) ==
    /\ po \in [Policies -> PolicyRecords \cup {None}]
    /\ cu \in Policies \cup {None}
    /\ rq \in [Requests -> RequestRecords \cup {None}]
    /\ \A a \in Assets : as[a] = None <=> su[a] = None
    /\ \A p \in Policies : po[p] # None => as[po[p].asset] # None
    /\ cu # None => po[cu] # None
    /\ \A r \in Requests : rq[r] # None =>
          /\ as[rq[r].pool[1]] # None
          /\ ac[<<rq[r].pool[1], rq[r].account>>] # None

\* What a checked transaction needs to be there when it is executed.
Grounded(t, as, ac, co, po, rq) ==
    /\ t.type \in {"Mint", "Burn", "RegisterConsortiumPolicy",
                   "RequestCustodyRedemption", "ApplyCustodyDemurrage"} =>
          as[t.asset] # None
    /\ t.type \in {"Burn", "RequestCustodyRedemption", "ApplyCustodyDemurrage"} =>
          ac[<<t.asset, t.account>>] # None
    /\ t.type = "Transfer" =>
          ac[<<t.asset, t.from>>] # None /\ ac[<<t.asset, t.to>>] # None
    /\ t.type \in {"ActivateContract", "ExecuteContract"} => co[t.contract] # None
    /\ t.type = "ExecuteContract" /\ MovesValue(t) =>
          /\ ac[<<t.asset, t.party>>] # None
          /\ t.counterparty # None => ac[<<t.asset, t.counterparty>>] # None
    /\ t.type = "SettleCustodyRedemption" => rq[t.request] # None

MemLedger == LedgerMaps(assets, supply, accounts, transferRecords, participants,
                        contracts, contractExecutions, authorityActions,
                        enrollmentRecords)
MemCustody == CustodyMaps(assets, supply, accounts, consortiumPolicies,
                          currentCustodyPolicyID, redemptionRequests)
MemGrounded(t) == Grounded(t, assets, accounts, contracts, consortiumPolicies,
                           redemptionRequests)

\* Nothing registered is removed.
Grows(as, ac, co, po, rq, as2, ac2, co2, po2, rq2) ==
    /\ \A a \in Assets : as[a] # None => as2[a] # None
    /\ \A k \in AccountKeys : ac[k] # None => ac2[k] # None
    /\ \A c \in Contracts : co[c] # None => co2[c] # None
    /\ \A p \in Policies : po[p] # None => po2[p] # None
    /\ \A r \in Requests : rq[r] # None => rq2[r] # None

MemGrows == Grows(assets, accounts, contracts, consortiumPolicies, redemptionRequests,
                  assets', accounts', contracts', consortiumPolicies',
                  redemptionRequests')

\* The kinds of transactions are told apart by their type.
LEMMA TxKinds ==
    ASSUME NEW t \in Txs
    PROVE  /\ t.type = "RegisterAsset" => t \in RegisterAssetTxs
           /\ t.type = "Mint" => t \in MintTxs
           /\ t.type = "Burn" => t \in BurnTxs
           /\ t.type = "Transfer" => t \in TransferTxs
           /\ t.type = "RegisterAccount" => t \in RegisterAccountTxs
           /\ t.type = "RegisterValidator" => t \in RegisterValidatorTxs
           /\ t.type = "RegisterContract" => t \in RegisterContractTxs
           /\ t.type = "ActivateContract" => t \in ActivateContractTxs
           /\ t.type = "ExecuteContract" => t \in ExecuteContractTxs
           /\ t.type = "AdverseAction" => t \in AdverseActionTxs
           /\ t.type = "RegisterWarehouseOperator" => t \in WarehouseOperatorTxs
           /\ t.type = "RegisterAcceptedSkuClass" => t \in SkuClassTxs
           /\ t.type = "RegisterConsortiumPolicy" => t \in PolicyTxs
           /\ t.type = "RecordCustodyIntakeLot" => t \in IntakeLotTxs
           /\ t.type = "RequestCustodyRedemption" => t \in RedemptionTxs
           /\ t.type = "SettleCustodyRedemption" => t \in SettleTxs
           /\ t.type = "ApplyCustodyDemurrage" => t \in DemurrageTxs
  <1>1. /\ t \in RegisterAssetTxs => t.type = "RegisterAsset"
        /\ t \in MintTxs => t.type = "Mint"
        /\ t \in BurnTxs => t.type = "Burn"
        /\ t \in TransferTxs => t.type = "Transfer"
        /\ t \in RegisterAccountTxs => t.type = "RegisterAccount"
        /\ t \in RegisterValidatorTxs => t.type = "RegisterValidator"
    BY DEF RegisterAssetTxs, MintTxs, BurnTxs, TransferTxs, RegisterAccountTxs,
           RegisterValidatorTxs
  <1>2. /\ t \in RegisterContractTxs => t.type = "RegisterContract"
        /\ t \in ActivateContractTxs => t.type = "ActivateContract"
        /\ t \in ExecuteContractTxs => t.type = "ExecuteContract"
        /\ t \in AdverseActionTxs => t.type = "AdverseAction"
    BY DEF RegisterContractTxs, ActivateContractTxs, ExecuteContractTxs, AdverseActionTxs
  <1>3. /\ t \in WarehouseOperatorTxs => t.type = "RegisterWarehouseOperator"
        /\ t \in SkuClassTxs => t.type = "RegisterAcceptedSkuClass"
        /\ t \in PolicyTxs => t.type = "RegisterConsortiumPolicy"
        /\ t \in IntakeLotTxs => t.type = "RecordCustodyIntakeLot"
        /\ t \in RedemptionTxs => t.type = "RequestCustodyRedemption"
        /\ t \in SettleTxs => t.type = "SettleCustodyRedemption"
        /\ t \in DemurrageTxs => t.type = "ApplyCustodyDemurrage"
    BY DEF WarehouseOperatorTxs, SkuClassTxs, PolicyTxs, IntakeLotTxs, RedemptionTxs,
           SettleTxs, DemurrageTxs
  <1> QED
    BY <1>1, <1>2, <1>3 DEF Txs, LedgerTxs, CustodyTxs

\* Fields of transactions.
LEMMA TxFields ==
    ASSUME NEW t \in Txs
    PROVE  /\ t.type = "RegisterAsset" => t.asset \in Assets
           /\ t.type \in {"Mint", "Burn", "ApplyCustodyDemurrage"} =>
                 /\ t.asset \in Assets /\ <<t.asset, t.account>> \in AccountKeys
                 /\ t.amount \in Int /\ t.amount > 0 /\ - t.amount \in Int
           /\ t.type = "Transfer" =>
                 /\ <<t.asset, t.from>> \in AccountKeys /\ <<t.asset, t.to>> \in AccountKeys
                 /\ t.amount \in Int /\ t.amount > 0 /\ - t.amount \in Int
                 /\ t.nonce \in Nonces /\ t.nullifier \in Nullifiers /\ t.asset \in Assets
           /\ t.type = "ExecuteContract" =>
                 /\ t.contract \in Contracts /\ t.amount \in Int /\ - t.amount \in Int
                 /\ t.nonce \in Nonces /\ t.nullifier \in Nullifiers
                 /\ t.asset \in Assets \cup {None}
                 /\ MovesValue(t) =>
                       /\ t.amount > 0 /\ <<t.asset, t.party>> \in AccountKeys
                       /\ t.counterparty # None =>
                             <<t.asset, t.counterparty>> \in AccountKeys
           /\ t.type = "SettleCustodyRedemption" =>
                 /\ t.request \in Requests /\ t.settlement \in Settlements
                 /\ t.burn \in Int /\ t.burn > 0 /\ - t.burn \in Int
           /\ t.type = "RegisterConsortiumPolicy" => t.asset \in Assets /\ t.policy \in Policies
           /\ t.type = "RequestCustodyRedemption" =>
                 /\ t.asset \in Assets /\ <<t.asset, t.account>> \in AccountKeys
                 /\ t.request \in Requests
           /\ t.type \in {"RegisterContract", "ActivateContract"} => t.contract \in Contracts
           /\ t.type = "RegisterAccount" =>
                 /\ <<"_", t.account>> \in AccountKeys /\ t.account \in Commitments
                 /\ t.token \in EnrollmentTokens \cup {None}
  <1>m. \A x \in Amounts : x \in Int /\ x > 0 /\ - x \in Int
    BY WireConstants DEF Amounts
  <1>n. \A x \in -1..MaxAmount : x \in Int /\ - x \in Int
    BY WireConstants
  <1> HIDE WireConstants
  <1>1. t.type = "RegisterAsset" => t.asset \in Assets
    BY TxKinds DEF RegisterAssetTxs
  <1>2. t.type \in {"Mint", "Burn", "ApplyCustodyDemurrage"} =>
                 /\ t.asset \in Assets /\ <<t.asset, t.account>> \in AccountKeys
                 /\ t.amount \in Amounts
    BY TxKinds DEF MintTxs, BurnTxs, DemurrageTxs, AccountKeys
  <1>3. t.type = "Transfer" =>
                 /\ <<t.asset, t.from>> \in AccountKeys /\ <<t.asset, t.to>> \in AccountKeys
                 /\ t.amount \in Amounts
                 /\ t.nonce \in Nonces /\ t.nullifier \in Nullifiers /\ t.asset \in Assets
    BY TxKinds DEF TransferTxs, AccountKeys
  <1>4. t.type = "ExecuteContract" =>
                 /\ t.contract \in Contracts /\ t.amount \in -1..MaxAmount
                 /\ t.nonce \in Nonces /\ t.nullifier \in Nullifiers
                 /\ t.asset \in Assets \cup {None}
                 /\ t.party \in Commitments
                 /\ t.counterparty \in Commitments \cup {None}
    BY TxKinds DEF ExecuteContractTxs
  <1>5. t.type = "ExecuteContract" /\ MovesValue(t) =>
                 /\ t.amount > 0 /\ <<t.asset, t.party>> \in AccountKeys
                 /\ t.counterparty # None => <<t.asset, t.counterparty>> \in AccountKeys
    BY <1>4 DEF MovesValue, AccountKeys
  <1>6. t.type = "SettleCustodyRedemption" =>
                 /\ t.request \in Requests /\ t.settlement \in Settlements
                 /\ t.burn \in Amounts
    BY TxKinds DEF SettleTxs
  <1>7. /\ t.type = "RegisterConsortiumPolicy" => t.asset \in Assets /\ t.policy \in Policies
        /\ t.type = "RequestCustodyRedemption" =>
                 /\ t.asset \in Assets /\ <<t.asset, t.account>> \in AccountKeys
                 /\ t.request \in Requests
    BY TxKinds DEF PolicyTxs, RedemptionTxs, AccountKeys
  <1>8. /\ t.type \in {"RegisterContract", "ActivateContract"} => t.contract \in Contracts
        /\ t.type = "RegisterAccount" =>
                 /\ <<"_", t.account>> \in AccountKeys /\ t.account \in Commitments
                 /\ t.token \in EnrollmentTokens \cup {None}
    BY TxKinds DEF RegisterContractTxs, ActivateContractTxs, RegisterAccountTxs, AccountKeys
  <1> QED
    BY <1>m, <1>n, <1>1, <1>2, <1>3, <1>4, <1>5, <1>6, <1>7, <1>8

\* A transaction finds what it needs in a ledger that has grown.
LEMMA GroundedGrows ==
    ASSUME NEW t \in Txs, NEW as, NEW ac, NEW co, NEW po, NEW rq,
           NEW as2, NEW ac2, NEW co2, NEW po2, NEW rq2,
           Grows(as, ac, co, po, rq, as2, ac2, co2, po2, rq2),
           Grounded(t, as, ac, co, po, rq)
    PROVE  Grounded(t, as2, ac2, co2, po2, rq2)
  BY TxFields DEF Grounded, Grows

\* Adding to a balance.
LEMMA CreditFacts ==
    ASSUME NEW accs \in AccountMaps, NEW key \in AccountKeys, accs[key] # None,
           NEW amount \in Int
    PROVE  /\ Credited(accs, key, amount) \in AccountMaps
           /\ Credited(accs, key, amount)[key] # None
           /\ Credited(accs, key, amount)[key].balance = accs[key].balance + amount
           /\ \A k \in AccountKeys \ {key} : Credited(accs, key, amount)[k] = accs[k]
  <1> DEFINE r == [accs[key] EXCEPT !.balance = @ + amount]
  <1>1. accs[key] \in AccountRecords
    BY DEF AccountMaps
  <1>2. r \in AccountRecords /\ r.balance = accs[key].balance + amount
    BY <1>1 DEF AccountRecords
  <1>3. Credited(accs, key, amount) = [accs EXCEPT ![key] = r]
    BY DEF Credited, AccountMaps
  <1>4. r # None
    BY <1>2, LedgerNone DEF AccountRecords
  <1> HIDE DEF r
  <1> QED
    BY <1>2, <1>3, <1>4 DEF AccountMaps

\* Changing the supply of a registered asset.
LEMMA SupplyFacts ==
    ASSUME MemLedger, MemCustody, NEW a \in Assets, assets[a] # None,
           NEW m \in Int, NEW b \in Int, SupplyChanged(a, m, b)
    PROVE  /\ assets' \in [Assets -> Int \cup {None}]
           /\ supply' \in [Assets -> SupplyRecords \cup {None}]
           /\ \A x \in Assets : assets'[x] = None <=> assets[x] = None
           /\ \A x \in Assets : supply'[x] = None <=> supply[x] = None
  <1> DEFINE r == [minted |-> supply[a].minted + m, burned |-> supply[a].burned + b,
                   total |-> supply[a].minted + m - (supply[a].burned + b)]
  <1>1. supply[a] # None
    BY DEF MemCustody, CustodyMaps
  <1>2. supply[a] \in SupplyRecords
    BY <1>1 DEF MemLedger, LedgerMaps
  <1>3. r \in SupplyRecords /\ r.total \in Int
    BY <1>2 DEF SupplyRecords
  <1>4. r # None /\ r.total # None
    BY <1>3, LedgerNone DEF SupplyRecords
  <1>5. supply' = [supply EXCEPT ![a] = r]
    BY DEF SupplyChanged
  <1>s. supply \in [Assets -> SupplyRecords \cup {None}] /\ assets \in [Assets -> Int \cup {None}]
    BY DEF MemLedger, LedgerMaps
  <1> HIDE DEF r
  <1>6. supply'[a] = r
    BY <1>5, <1>s
  <1>7. assets' = [assets EXCEPT ![a] = r.total]
    BY <1>6 DEF SupplyChanged
  <1> QED
    BY <1>1, <1>3, <1>4, <1>5, <1>7, <1>s

\* Records of custody still name what is there when nothing was removed.
LEMMA CustodyKeeps ==
    ASSUME MemCustody, MemGrows,
           UNCHANGED <<consortiumPolicies, currentCustodyPolicyID, redemptionRequests>>,
           \A a \in Assets : assets'[a] = None <=> supply'[a] = None
    PROVE  MemCustody'
  <1>1. \A r \in Requests : redemptionRequests[r] # None =>
           /\ redemptionRequests[r].pool[1] \in Assets
           /\ <<redemptionRequests[r].pool[1], redemptionRequests[r].account>> \in AccountKeys
    BY DEF MemCustody, CustodyMaps, RequestRecords, AccountKeys
  <1>2. \A p \in Policies : consortiumPolicies[p] # None =>
           consortiumPolicies[p].asset \in Assets
    BY DEF MemCustody, CustodyMaps, PolicyRecords
  <1> QED
    BY <1>1, <1>2 DEF MemCustody, CustodyMaps, MemGrows, Grows

\* New accounts.
LEMMA NewAccountFacts ==
    NewAccount \in AccountRecords /\ NewAccount # None /\ NewAccount.balance = 0
  <1>1. NewAccount \in AccountRecords /\ NewAccount.balance = 0
    BY DEF NewAccount, AccountRecords
  <1> QED
    BY <1>1, LedgerNone DEF AccountRecords

\* An account after an adverse action.
LEMMA AffectedFacts ==
    ASSUME NEW acct \in AccountRecords,
           NEW kind \in {"disable", "freeze", "rescind", "restore", "redeem_forced"}
    PROVE  /\ Affected(acct, kind) \in AccountRecords
           /\ Affected(acct, kind) # None
           /\ kind # "redeem_forced" => Affected(acct, kind).balance = acct.balance
           /\ kind = "redeem_forced" => Affected(acct, kind).balance = 0
  <1>1. /\ acct.disabled \in BOOLEAN /\ acct.frozen \in BOOLEAN /\ acct.balance \in Int
        /\ acct = [balance |-> acct.balance, disabled |-> acct.disabled,
                   frozen |-> acct.frozen]
    BY DEF AccountRecords
  <1>2. CASE kind \in {"disable", "rescind"}
    <2>1. Affected(acct, kind) = [acct EXCEPT !.disabled = TRUE, !.frozen = FALSE]
      BY <1>2 DEF Affected
    <2>2. /\ Affected(acct, kind) \in AccountRecords
          /\ Affected(acct, kind).balance = acct.balance
      BY <1>1, <2>1 DEF AccountRecords
    <2> QED
      BY <1>2, <2>2, LedgerNone DEF AccountRecords
  <1>3. CASE kind = "freeze"
    <2> DEFINE fr == acct.frozen \/ ~ acct.disabled
    <2>0. fr \in BOOLEAN
      OBVIOUS
    <2>1. Affected(acct, kind) = [acct EXCEPT !.frozen = fr]
      BY <1>3 DEF Affected
    <2> HIDE DEF fr
    <2>2. /\ Affected(acct, kind) \in AccountRecords
          /\ Affected(acct, kind).balance = acct.balance
      BY <1>1, <2>0, <2>1 DEF AccountRecords
    <2> QED
      BY <1>3, <2>2, LedgerNone DEF AccountRecords
  <1>4. CASE kind = "restore"
    <2>1. Affected(acct, kind) = [acct EXCEPT !.disabled = FALSE, !.frozen = FALSE]
      BY <1>4 DEF Affected
    <2>2. /\ Affected(acct, kind) \in AccountRecords
          /\ Affected(acct, kind).balance = acct.balance
      BY <1>1, <2>1 DEF AccountRecords
    <2> QED
      BY <1>4, <2>2, LedgerNone DEF AccountRecords
  <1>5. CASE kind = "redeem_forced"
    <2>1. Affected(acct, kind) = [acct EXCEPT !.disabled = TRUE, !.balance = 0]
      BY <1>5 DEF Affected
    <2> DEFINE r == [acct EXCEPT !.disabled = TRUE]
    <2>r. r \in AccountRecords
      BY DEF AccountRecords
    <2>e. Affected(acct, kind) = [r EXCEPT !.balance = 0]
      BY <2>1
    <2> HIDE DEF r
    <2>2. /\ Affected(acct, kind) \in AccountRecords
          /\ Affected(acct, kind).balance = 0
      BY <2>r, <2>e DEF AccountRecords
    <2> QED
      BY <1>5, <2>2, LedgerNone DEF AccountRecords
  <1> QED
    BY <1>2, <1>3, <1>4, <1>5

\* The contract after one more execution.
LEMMA CountFacts ==
    ASSUME MemLedger, NEW c \in Contracts, contracts[c] # None, NEW amount \in Int,
           contracts' = [contracts EXCEPT ![c].count = @ + 1,
                                          ![c].executed = @ + amount]
    PROVE  /\ contracts' \in [Contracts -> ContractRecords \cup {None}]
           /\ contracts'[c] # None /\ contracts'[c].count = contracts[c].count + 1
           /\ \A d \in Contracts \ {c} : contracts'[d] = contracts[d]
  <1> DEFINE r == [contracts[c] EXCEPT !.count = @ + 1]
             s == [r EXCEPT !.executed = @ + amount]
             mid == [contracts EXCEPT ![c] = r]
  <1>1. contracts \in [Contracts -> ContractRecords \cup {None}]
    BY DEF MemLedger, LedgerMaps
  <1>2. contracts[c] \in ContractRecords
    BY <1>1
  <1>3. r \in ContractRecords /\ r.count = contracts[c].count + 1
    BY <1>2 DEF ContractRecords
  <1>4. mid[c] = r /\ mid \in [Contracts -> ContractRecords \cup {None}]
        /\ \A d \in Contracts \ {c} : mid[d] = contracts[d]
    BY <1>1, <1>3
  <1>5. contracts' = [mid EXCEPT ![c].executed = @ + amount]
    BY <1>1
  <1> HIDE DEF r, mid
  <1>6. contracts' = [mid EXCEPT ![c] = s]
    BY <1>4, <1>5
  <1>7. s \in ContractRecords /\ s.count = contracts[c].count + 1
    BY <1>3 DEF ContractRecords
  <1>8. s # None
    BY <1>7, LedgerNone DEF ContractRecords
  <1> HIDE DEF s
  <1> QED
    BY <1>4, <1>6, <1>7, <1>8

\* What a transaction on the ledger does.
LEMMA LedgerEffects ==
    ASSUME MemLedger, MemCustody, NEW t \in Txs, MemGrounded(t), LedgerExecuteTx(t),
           UNCHANGED custodyVars
    PROVE  MemLedger' /\ MemCustody' /\ MemGrows /\ dirty' = TRUE
  <1>c. UNCHANGED <<consortiumPolicies, currentCustodyPolicyID, redemptionRequests>>
    BY DEF custodyVars, custodyRegistry
  <1>s. \A a \in Assets : assets[a] = None <=> supply[a] = None
    BY DEF MemCustody, CustodyMaps
  <1>a. accounts \in AccountMaps
    BY DEF MemLedger, LedgerMaps
  <1>0. ASSUME MemLedger', dirty' = TRUE,
               \A a \in Assets : assets'[a] = None <=> supply'[a] = None,
               \A a \in Assets : assets[a] # None => assets'[a] # None,
               \A k \in AccountKeys : accounts[k] # None => accounts'[k] # None,
               \A c \in Contracts : contracts[c] # None => contracts'[c] # None
        PROVE  MemLedger' /\ MemCustody' /\ MemGrows /\ dirty' = TRUE
    <2>1. MemGrows
      BY <1>0, <1>c DEF MemGrows, Grows
    <2> QED
      BY <1>0, <1>c, <2>1, CustodyKeeps
  <1>1. CASE t.type = "RegisterAsset" /\ ExecuteRegisterAsset(t)
    <2> DEFINE z == [minted |-> 0, burned |-> 0, total |-> 0]
    <2>1. t.asset \in Assets
      BY <1>1, TxKinds DEF RegisterAssetTxs
    <2>2. z \in SupplyRecords /\ z # None /\ 0 # None
      BY LedgerNone DEF SupplyRecords
    <2>3. /\ assets' = [assets EXCEPT ![t.asset] = 0]
          /\ supply' = [supply EXCEPT ![t.asset] = z]
          /\ UNCHANGED <<accounts, transferRecords, participants, contracts,
                         contractExecutions, authorityActions, enrollmentRecords>>
          /\ dirty' = TRUE
      BY <1>1 DEF ExecuteRegisterAsset, lists, contractVars, registries
    <2> HIDE DEF z
    <2>4. /\ assets' \in [Assets -> Int \cup {None}]
          /\ supply' \in [Assets -> SupplyRecords \cup {None}]
          /\ \A a \in Assets : assets'[a] = None <=> supply'[a] = None
          /\ \A a \in Assets : assets[a] # None => assets'[a] # None
      BY <1>s, <2>1, <2>2, <2>3 DEF MemLedger, LedgerMaps
    <2>5. MemLedger'
      BY <2>3, <2>4 DEF MemLedger, LedgerMaps
    <2> QED
      BY <1>0, <2>3, <2>4, <2>5
  <1>2. CASE t.type = "Mint" /\ ExecuteMint(t)
    <2> DEFINE key == <<t.asset, t.account>>
               opened == IF accounts[key] # None THEN accounts
                         ELSE [accounts EXCEPT ![key] = NewAccount]
    <2>1. /\ t.asset \in Assets /\ key \in AccountKeys /\ t.amount \in Int
          /\ assets[t.asset] # None
      <3>1. t.asset \in Assets /\ key \in AccountKeys /\ t.amount \in Int
        BY <1>2, TxFields
      <3>2. assets[t.asset] # None
        BY <1>2 DEF MemGrounded, Grounded
      <3> QED
        BY <3>1, <3>2
    <2>2. /\ accounts' = Credited(opened, key, t.amount)
          /\ SupplyChanged(t.asset, t.amount, 0)
          /\ UNCHANGED <<transferRecords, participants, contracts,
                         contractExecutions, authorityActions, enrollmentRecords>>
          /\ dirty' = TRUE
      BY <1>2 DEF ExecuteMint, lists, contractVars, registries
    <2> HIDE DEF key
    <2>3. /\ opened \in AccountMaps /\ opened[key] # None
          /\ \A k \in AccountKeys : accounts[k] # None => opened[k] # None
      BY <1>a, <2>1, NewAccountFacts DEF AccountMaps
    <2> HIDE DEF opened
    <2>4. accounts' \in AccountMaps
          /\ \A k \in AccountKeys : accounts[k] # None => accounts'[k] # None
      BY <2>1, <2>2, <2>3, CreditFacts
    <2>5. /\ assets' \in [Assets -> Int \cup {None}]
          /\ supply' \in [Assets -> SupplyRecords \cup {None}]
          /\ \A x \in Assets : assets'[x] = None <=> assets[x] = None
          /\ \A x \in Assets : supply'[x] = None <=> supply[x] = None
      BY <2>1, <2>2, SupplyFacts
    <2>6. MemLedger'
      BY <2>2, <2>4, <2>5 DEF MemLedger, LedgerMaps
    <2> QED
      BY <1>0, <1>s, <2>2, <2>4, <2>5, <2>6
  <1>3. CASE t.type = "Burn" /\ ExecuteBurn(t)
    <2> DEFINE key == <<t.asset, t.account>>
    <2>1. /\ t.asset \in Assets /\ key \in AccountKeys /\ t.amount \in Int
          /\ - t.amount \in Int
          /\ assets[t.asset] # None /\ accounts[key] # None
      <3>1. /\ t.asset \in Assets /\ key \in AccountKeys /\ t.amount \in Int
            /\ - t.amount \in Int
        BY <1>3, TxFields
      <3>2. assets[t.asset] # None /\ accounts[key] # None
        BY <1>3 DEF MemGrounded, Grounded
      <3> QED
        BY <3>1, <3>2
    <2>2. /\ accounts' = Credited(accounts, key, - t.amount)
          /\ SupplyChanged(t.asset, 0, t.amount)
          /\ UNCHANGED <<transferRecords, participants, contracts,
                         contractExecutions, authorityActions, enrollmentRecords>>
          /\ dirty' = TRUE
      BY <1>3 DEF ExecuteBurn, lists, contractVars, registries
    <2> HIDE DEF key
    <2>4. accounts' \in AccountMaps
          /\ \A k \in AccountKeys : accounts[k] # None => accounts'[k] # None
      BY <1>a, <2>1, <2>2, CreditFacts
    <2>5. /\ assets' \in [Assets -> Int \cup {None}]
          /\ supply' \in [Assets -> SupplyRecords \cup {None}]
          /\ \A x \in Assets : assets'[x] = None <=> assets[x] = None
          /\ \A x \in Assets : supply'[x] = None <=> supply[x] = None
      BY <2>1, <2>2, SupplyFacts
    <2>6. MemLedger'
      BY <2>2, <2>4, <2>5 DEF MemLedger, LedgerMaps
    <2> QED
      BY <1>0, <1>s, <2>2, <2>4, <2>5, <2>6
  <1>4. CASE t.type = "Transfer" /\ ExecuteTransfer(t)
    <2> DEFINE from == <<t.asset, t.from>>
               to == <<t.asset, t.to>>
               mid == Credited(accounts, from, - t.amount)
    <2>1. /\ from \in AccountKeys /\ to \in AccountKeys /\ t.amount \in Int
          /\ - t.amount \in Int /\ t.nonce \in Nonces /\ t.nullifier \in Nullifiers
          /\ t.asset \in Assets
      BY <1>4, TxFields
    <2>2. accounts[from] # None /\ accounts[to] # None
      BY <1>4 DEF MemGrounded, Grounded
    <2>3. /\ Recorded(t) /\ accounts' = Credited(mid, to, t.amount)
          /\ UNCHANGED <<assets, supply, contracts, contractExecutions, authorityActions,
                         enrollmentRecords>>
          /\ dirty' = TRUE
      BY <1>4 DEF ExecuteTransfer, contractVars, registries
    <2> HIDE DEF from, to
    <2>4. mid \in AccountMaps /\ \A k \in AccountKeys : accounts[k] # None => mid[k] # None
      BY <1>a, <2>1, <2>2, CreditFacts
    <2> HIDE DEF mid
    <2>5. /\ accounts' \in AccountMaps
          /\ \A k \in AccountKeys : accounts[k] # None => accounts'[k] # None
      BY <2>1, <2>2, <2>3, <2>4, CreditFacts
    <2>6. /\ transferRecords' \in [Nonces -> TransferRecords \cup {None}]
          /\ participants' \in [Nullifiers -> Nonces \cup {None}]
      BY <2>1, <2>3 DEF Recorded, MemLedger, LedgerMaps, TransferRecords
    <2>7. MemLedger'
      BY <2>3, <2>5, <2>6 DEF MemLedger, LedgerMaps
    <2> QED
      BY <1>0, <1>s, <2>3, <2>5, <2>7
  <1>5. CASE t.type = "RegisterAccount" /\ ExecuteRegisterAccount(t)
    <2>1. /\ <<"_", t.account>> \in AccountKeys /\ t.account \in Commitments
          /\ t.token \in EnrollmentTokens \cup {None}
      BY <1>5, TxFields
    <2> DEFINE key == <<"_", t.account>>
    <2>2. /\ accounts' = [accounts EXCEPT ![key] = NewAccount]
          /\ enrollmentRecords' = IF t.token = None THEN enrollmentRecords
                            ELSE [enrollmentRecords EXCEPT ![t.token] = t.account]
          /\ UNCHANGED <<assets, supply, transferRecords, participants, contracts,
                         contractExecutions, authorityActions>>
          /\ dirty' = TRUE
      BY <1>5 DEF ExecuteRegisterAccount, lists, contractVars
    <2>3. /\ accounts' \in AccountMaps
          /\ \A k \in AccountKeys : accounts[k] # None => accounts'[k] # None
      <3> HIDE DEF key
      <3> QED
        BY <1>a, <2>2, NewAccountFacts DEF AccountMaps
    <2>4. enrollmentRecords' \in [EnrollmentTokens -> Commitments \cup {None}]
      BY <2>1, <2>2 DEF MemLedger, LedgerMaps
    <2>5. MemLedger'
      BY <2>2, <2>3, <2>4 DEF MemLedger, LedgerMaps
    <2> QED
      BY <1>0, <1>s, <2>2, <2>3, <2>5
  <1>6. CASE t.type = "RegisterValidator" /\ ExecuteRegisterValidator(t)
    <2>1. /\ UNCHANGED <<assets, supply, accounts, transferRecords, participants,
                         contracts, contractExecutions, authorityActions,
                         enrollmentRecords>>
          /\ dirty' = TRUE
      BY <1>6 DEF ExecuteRegisterValidator, lists, contractVars
    <2>2. MemLedger'
      BY <2>1 DEF MemLedger
    <2> QED
      BY <1>0, <1>s, <2>1, <2>2
  <1>7. CASE t.type = "RegisterContract" /\ ExecuteRegisterContract(t)
    <2> DEFINE r == [asset |-> t.asset, expires |-> t.expires, count |-> 0, executed |-> 0,
                     status |-> IF t.pending THEN "pending_condition" ELSE "active"]
    <2>1. /\ t.contract \in Contracts /\ t.asset \in Assets \cup {None}
          /\ t.expires \in BOOLEAN
      BY <1>7, TxKinds DEF RegisterContractTxs
    <2>2. r \in ContractRecords
      BY <2>1 DEF ContractRecords
    <2>3. r # None
      BY <2>2, LedgerNone DEF ContractRecords
    <2>4. /\ contracts' = [contracts EXCEPT ![t.contract] = r]
          /\ UNCHANGED <<assets, supply, accounts, transferRecords, participants,
                         contractExecutions, authorityActions, enrollmentRecords>>
          /\ dirty' = TRUE
      BY <1>7 DEF ExecuteRegisterContract, lists, registries
    <2> HIDE DEF r
    <2>5. /\ contracts' \in [Contracts -> ContractRecords \cup {None}]
          /\ \A c \in Contracts : contracts[c] # None => contracts'[c] # None
      BY <2>2, <2>3, <2>4 DEF MemLedger, LedgerMaps
    <2>6. MemLedger'
      BY <2>4, <2>5 DEF MemLedger, LedgerMaps
    <2> QED
      BY <1>0, <1>s, <2>4, <2>5, <2>6
  <1>8. CASE t.type = "ActivateContract" /\ ExecuteActivateContract(t)
    <2> DEFINE r == [contracts[t.contract] EXCEPT !.status = "active"]
    <2>1. t.contract \in Contracts
      BY <1>8, TxFields
    <2>2. contracts[t.contract] # None
      BY <1>8 DEF MemGrounded, Grounded
    <2>3. r \in ContractRecords
      BY <2>1, <2>2 DEF MemLedger, LedgerMaps, ContractRecords
    <2>4. r # None
      BY <2>3, LedgerNone DEF ContractRecords
    <2>5. /\ contracts' = [contracts EXCEPT ![t.contract] = r]
          /\ UNCHANGED <<assets, supply, accounts, transferRecords, participants,
                         contractExecutions, authorityActions, enrollmentRecords>>
          /\ dirty' = TRUE
      BY <1>8 DEF ExecuteActivateContract, lists, registries
    <2> HIDE DEF r
    <2>6. /\ contracts' \in [Contracts -> ContractRecords \cup {None}]
          /\ \A c \in Contracts : contracts[c] # None => contracts'[c] # None
      BY <2>3, <2>4, <2>5 DEF MemLedger, LedgerMaps
    <2>7. MemLedger'
      BY <2>5, <2>6 DEF MemLedger, LedgerMaps
    <2> QED
      BY <1>0, <1>s, <2>5, <2>6, <2>7
  <1>9. CASE t.type = "ExecuteContract" /\ ExecuteExecuteContract(t)
    <2>1. /\ t.contract \in Contracts /\ t.amount \in Int /\ - t.amount \in Int
          /\ t.nonce \in Nonces /\ t.nullifier \in Nullifiers
          /\ t.asset \in Assets \cup {None}
      BY <1>9, TxFields
    <2>2. contracts[t.contract] # None
      BY <1>9 DEF MemGrounded, Grounded
    <2>3. /\ Recorded(t)
          /\ contractExecutions' = [contractExecutions EXCEPT ![t.nonce] = t.contract]
          /\ contracts' = [contracts EXCEPT ![t.contract].count = @ + 1,
                                            ![t.contract].executed = @ + t.amount]
          /\ UNCHANGED <<assets, supply, authorityActions, enrollmentRecords>>
          /\ dirty' = TRUE
      BY <1>9 DEF ExecuteExecuteContract, registries
    <2>4. /\ contracts' \in [Contracts -> ContractRecords \cup {None}]
          /\ \A c \in Contracts : contracts[c] # None => contracts'[c] # None
      BY <2>1, <2>2, <2>3, CountFacts
    <2>5. /\ transferRecords' \in [Nonces -> TransferRecords \cup {None}]
          /\ participants' \in [Nullifiers -> Nonces \cup {None}]
      BY <2>1, <2>3 DEF Recorded, MemLedger, LedgerMaps, TransferRecords
    <2>6. contractExecutions' \in [Nonces -> Contracts \cup {None}]
      BY <2>1, <2>3 DEF MemLedger, LedgerMaps
    <2>7. /\ accounts' \in AccountMaps
          /\ \A k \in AccountKeys : accounts[k] # None => accounts'[k] # None
      <3>1. CASE ~ MovesValue(t)
        BY <1>9, <1>a, <3>1 DEF ExecuteExecuteContract
      <3>2. CASE MovesValue(t)
        <4> DEFINE party == <<t.asset, t.party>>
                   other == <<t.asset, t.counterparty>>
                   mid == Credited(accounts, party, - t.amount)
        <4>1. party \in AccountKeys /\ (t.counterparty # None => other \in AccountKeys)
          BY <1>9, <3>2, TxFields
        <4>2. /\ accounts[party] # None
              /\ t.counterparty # None => accounts[other] # None
          BY <1>9, <3>2 DEF MemGrounded, Grounded
        <4>3. accounts' = IF t.counterparty = None THEN mid
                          ELSE Credited(mid, other, t.amount)
          BY <1>9, <3>2 DEF ExecuteExecuteContract
        <4> HIDE DEF party, other
        <4>4. /\ mid \in AccountMaps
              /\ \A k \in AccountKeys : accounts[k] # None => mid[k] # None
          BY <1>a, <2>1, <4>1, <4>2, CreditFacts
        <4> HIDE DEF mid
        <4>5. CASE t.counterparty = None
          BY <4>3, <4>4, <4>5
        <4>6. CASE t.counterparty # None
          <5>1. accounts' = Credited(mid, other, t.amount)
            BY <4>3, <4>6
          <5>2. other \in AccountKeys /\ mid[other] # None
            BY <4>1, <4>2, <4>4, <4>6
          <5> QED
            BY <2>1, <4>4, <5>1, <5>2, CreditFacts
        <4> QED
          BY <4>5, <4>6
      <3> QED
        BY <3>1, <3>2
    <2>8. MemLedger'
      BY <2>3, <2>4, <2>5, <2>6, <2>7 DEF MemLedger, LedgerMaps
    <2> QED
      BY <1>0, <1>s, <2>3, <2>4, <2>7, <2>8
  <1>10. CASE t.type = "AdverseAction" /\ ExecuteAdverseAction(t)
    <2>1. /\ t.action \in Actions
          /\ t.kind \in {"disable", "freeze", "rescind", "restore", "redeem_forced"}
      BY <1>10, TxKinds DEF AdverseActionTxs
    <2>2. /\ authorityActions' = authorityActions \cup {t.action}
          /\ accounts' = [k \in AccountKeys |->
                IF accounts[k] # None /\ k[2] = t.target
                   /\ (t.scope = None \/ k[1] = t.scope)
                THEN Affected(accounts[k], t.kind) ELSE accounts[k]]
          /\ UNCHANGED <<assets, supply, transferRecords, participants, contracts,
                         contractExecutions, enrollmentRecords>>
          /\ dirty' = TRUE
      BY <1>10 DEF ExecuteAdverseAction, lists, contractVars
    <2>3. \A k \in AccountKeys : accounts[k] # None =>
             /\ Affected(accounts[k], t.kind) \in AccountRecords
             /\ Affected(accounts[k], t.kind) # None
      BY <1>a, <2>1, AffectedFacts DEF AccountMaps
    <2>4. \A k \in AccountKeys : /\ accounts'[k] \in AccountRecords \cup {None}
                                 /\ accounts[k] # None => accounts'[k] # None
      BY <1>a, <2>2, <2>3 DEF AccountMaps
    <2>5. accounts' \in AccountMaps
      BY <2>2, <2>4 DEF AccountMaps
    <2>6. MemLedger'
      BY <2>1, <2>2, <2>5 DEF MemLedger, LedgerMaps
    <2> QED
      BY <1>0, <1>s, <2>2, <2>4, <2>6
  <1> QED
    BY <1>1, <1>2, <1>3, <1>4, <1>5, <1>6, <1>7, <1>8, <1>9, <1>10 DEF LedgerExecuteTx

\* What a transaction of custody does to these maps.
LEMMA CustodyEffects ==
    ASSUME MemLedger, MemCustody, NEW t \in Txs, MemGrounded(t), NEW at,
           CustodyExecuteTx(t, at)
    PROVE  MemLedger' /\ MemCustody' /\ MemGrows /\ dirty' = TRUE
  <1>s. \A a \in Assets : assets[a] = None <=> supply[a] = None
    BY DEF MemCustody, CustodyMaps
  <1>a. accounts \in AccountMaps
    BY DEF MemLedger, LedgerMaps
  <1>0. ASSUME UNCHANGED ledgerAside, dirty' = TRUE,
               UNCHANGED <<consortiumPolicies, currentCustodyPolicyID, redemptionRequests>>
        PROVE  MemLedger' /\ MemCustody' /\ MemGrows /\ dirty' = TRUE
    BY <1>0 DEF ledgerAside, lists, contractVars, registries, MemLedger, MemCustody,
       MemGrows, Grows
  <1>1. CASE \/ t.type = "RegisterWarehouseOperator" /\ ExecuteWarehouseOperator(t)
             \/ t.type = "RegisterAcceptedSkuClass" /\ ExecuteSkuClass(t)
             \/ t.type = "RecordCustodyIntakeLot" /\ ExecuteIntakeLot(t, at)
    BY <1>0, <1>1 DEF ExecuteWarehouseOperator, ExecuteSkuClass, ExecuteIntakeLot,
       custodyRegistry
  <1>2. CASE t.type = "RegisterConsortiumPolicy" /\ ExecutePolicy(t)
    <2> DEFINE cur == currentCustodyPolicyID
               mid == IF cur = None THEN consortiumPolicies
                      ELSE [consortiumPolicies EXCEPT ![cur].status = "superseded"]
               r == [asset |-> t.asset, operators |-> t.operators, skus |-> t.skus,
                     status |-> "active"]
    <2>1. /\ t.policy \in Policies /\ t.asset \in Assets /\ t.operators \subseteq Operators
          /\ t.skus \subseteq SkuClasses
      BY <1>2, TxKinds DEF PolicyTxs
    <2>2. assets[t.asset] # None
      BY <1>2 DEF MemGrounded, Grounded
    <2>3. /\ consortiumPolicies' = [mid EXCEPT ![t.policy] = r]
          /\ currentCustodyPolicyID' = t.policy
          /\ UNCHANGED <<assets, supply, accounts, transferRecords, participants, contracts,
                         contractExecutions, authorityActions, enrollmentRecords,
                         redemptionRequests>>
          /\ dirty' = TRUE
      BY <1>2 DEF ExecutePolicy, ledgerAside, lists, contractVars, registries
    <2>4. r \in PolicyRecords /\ r.asset = t.asset
      BY <2>1 DEF PolicyRecords
    <2>5. r # None
      BY <2>4, CustodyNone DEF PolicyRecords
    <2>p. /\ consortiumPolicies \in [Policies -> PolicyRecords \cup {None}]
          /\ cur \in Policies \cup {None} /\ (cur # None => consortiumPolicies[cur] # None)
          /\ \A p \in Policies : consortiumPolicies[p] # None =>
                assets[consortiumPolicies[p].asset] # None
      BY DEF MemCustody, CustodyMaps
    <2>6. /\ mid \in [Policies -> PolicyRecords \cup {None}]
          /\ \A p \in Policies : consortiumPolicies[p] # None => mid[p] # None
          /\ \A p \in Policies : mid[p] # None => assets[mid[p].asset] # None
      <3>1. CASE cur = None
        BY <2>p, <3>1
      <3>2. CASE cur # None
        <4> DEFINE u == [consortiumPolicies[cur] EXCEPT !.status = "superseded"]
        <4>1. cur \in Policies /\ consortiumPolicies[cur] \in PolicyRecords
          BY <2>p, <3>2
        <4>2. u \in PolicyRecords /\ u.asset = consortiumPolicies[cur].asset
          BY <4>1 DEF PolicyRecords
        <4>3. u # None
          BY <4>2, CustodyNone DEF PolicyRecords
        <4>4. mid = [consortiumPolicies EXCEPT ![cur] = u]
          BY <3>2, <4>1, <2>p
        <4> HIDE DEF u, mid, cur
        <4> QED
          BY <2>p, <3>2, <4>1, <4>2, <4>3, <4>4
      <3> QED
        BY <3>1, <3>2
    <2> HIDE DEF r, mid, cur
    <2>7. /\ consortiumPolicies' \in [Policies -> PolicyRecords \cup {None}]
          /\ \A p \in Policies : consortiumPolicies[p] # None => consortiumPolicies'[p] # None
          /\ \A p \in Policies : consortiumPolicies'[p] # None =>
                assets[consortiumPolicies'[p].asset] # None
          /\ consortiumPolicies'[t.policy] # None
      BY <2>1, <2>2, <2>3, <2>4, <2>5, <2>6
    <2>8. MemLedger'
      BY <2>3 DEF MemLedger
    <2>9. MemCustody'
      BY <2>1, <2>3, <2>7 DEF MemCustody, CustodyMaps
    <2> QED
      BY <2>3, <2>7, <2>8, <2>9 DEF MemGrows, Grows
  <1>3. CASE t.type = "RequestCustodyRedemption" /\ ExecuteRedemption(t)
    <2> DEFINE pool == <<t.asset, t.warehouse, t.sku>>
               r == [pool |-> pool, account |-> t.account,
                     silo |-> t.silo, quantity |-> t.quantity, status |-> "pending"]
    <2>1. /\ t.request \in Requests /\ pool \in Assets \X Warehouses \X SkuClasses
          /\ pool[1] = t.asset /\ t.account \in Commitments
          /\ t.silo \in 1..MaxAmount /\ t.quantity \in 1..MaxQuantity
      BY <1>3, TxKinds DEF RedemptionTxs, Amounts, Quantities
    <2>2. assets[t.asset] # None /\ accounts[<<t.asset, t.account>>] # None
      BY <1>3 DEF MemGrounded, Grounded
    <2>3. /\ redemptionRequests' = [redemptionRequests EXCEPT ![t.request] = r]
          /\ UNCHANGED <<assets, supply, accounts, transferRecords, participants, contracts,
                         contractExecutions, authorityActions, enrollmentRecords,
                         consortiumPolicies, currentCustodyPolicyID>>
          /\ dirty' = TRUE
      BY <1>3 DEF ExecuteRedemption, ledgerAside, lists, contractVars, registries,
         custodyRegistry
    <2> HIDE DEF pool
    <2>4. r \in RequestRecords /\ r.pool = pool /\ r.account = t.account
      BY <2>1 DEF RequestRecords
    <2>5. r # None
      BY <2>4, CustodyNone DEF RequestRecords
    <2> HIDE DEF r
    <2>r. /\ redemptionRequests \in [Requests -> RequestRecords \cup {None}]
          /\ \A q \in Requests : redemptionRequests[q] # None =>
                /\ assets[redemptionRequests[q].pool[1]] # None
                /\ accounts[<<redemptionRequests[q].pool[1],
                              redemptionRequests[q].account>>] # None
      BY DEF MemCustody, CustodyMaps
    <2>6. /\ redemptionRequests' \in [Requests -> RequestRecords \cup {None}]
          /\ \A q \in Requests : redemptionRequests[q] # None => redemptionRequests'[q] # None
          /\ \A q \in Requests : redemptionRequests'[q] # None =>
                /\ assets[redemptionRequests'[q].pool[1]] # None
                /\ accounts[<<redemptionRequests'[q].pool[1],
                              redemptionRequests'[q].account>>] # None
      BY <2>1, <2>2, <2>3, <2>4, <2>5, <2>r
    <2>7. MemLedger'
      BY <2>3 DEF MemLedger
    <2>8. MemCustody'
      BY <2>3, <2>6 DEF MemCustody, CustodyMaps
    <2> QED
      BY <2>3, <2>6, <2>7, <2>8 DEF MemGrows, Grows
  <1>4. CASE t.type = "SettleCustodyRedemption" /\ ExecuteSettle(t)
    <2> DEFINE q == redemptionRequests[t.request]
               key == <<q.pool[1], q.account>>
               r == [q EXCEPT !.status = "settled"]
    <2>1. /\ t.request \in Requests /\ t.burn \in Int /\ - t.burn \in Int
      BY <1>4, TxFields
    <2>2. q # None
      BY <1>4 DEF MemGrounded, Grounded
    <2>r. /\ redemptionRequests \in [Requests -> RequestRecords \cup {None}]
          /\ \A x \in Requests : redemptionRequests[x] # None =>
                /\ assets[redemptionRequests[x].pool[1]] # None
                /\ accounts[<<redemptionRequests[x].pool[1],
                              redemptionRequests[x].account>>] # None
      BY DEF MemCustody, CustodyMaps
    <2>3. /\ q \in RequestRecords /\ assets[q.pool[1]] # None /\ accounts[key] # None
      BY <2>1, <2>2, <2>r
    <2>4. q.pool[1] \in Assets /\ key \in AccountKeys
      BY <2>3 DEF RequestRecords, AccountKeys
    <2>5. /\ accounts' = Credited(accounts, key, - t.burn)
          /\ SupplyChanged(q.pool[1], 0, t.burn)
          /\ redemptionRequests' = [redemptionRequests EXCEPT ![t.request].status = "settled"]
          /\ UNCHANGED <<transferRecords, participants, contracts, contractExecutions,
                         authorityActions, enrollmentRecords, consortiumPolicies,
                         currentCustodyPolicyID>>
          /\ dirty' = TRUE
      BY <1>4 DEF ExecuteSettle, lists, contractVars, registries, custodyRegistry
    <2>6. redemptionRequests' = [redemptionRequests EXCEPT ![t.request] = r]
      BY <2>1, <2>5, <2>r
    <2>7. r \in RequestRecords /\ r.pool = q.pool /\ r.account = q.account
      BY <2>3 DEF RequestRecords
    <2>8. r # None
      BY <2>7, CustodyNone DEF RequestRecords
    <2> HIDE DEF r, key
    <2>9. /\ redemptionRequests' \in [Requests -> RequestRecords \cup {None}]
          /\ \A x \in Requests : redemptionRequests'[x] # None <=> redemptionRequests[x] # None
          /\ \A x \in Requests : redemptionRequests[x] # None =>
                /\ redemptionRequests'[x].pool = redemptionRequests[x].pool
                /\ redemptionRequests'[x].account = redemptionRequests[x].account
      BY <2>1, <2>2, <2>6, <2>7, <2>8, <2>r
    <2>10. accounts' \in AccountMaps
           /\ \A k \in AccountKeys : accounts[k] # None => accounts'[k] # None
      BY <1>a, <2>1, <2>3, <2>4, <2>5, CreditFacts
    <2>11. /\ assets' \in [Assets -> Int \cup {None}]
           /\ supply' \in [Assets -> SupplyRecords \cup {None}]
           /\ \A x \in Assets : assets'[x] = None <=> assets[x] = None
           /\ \A x \in Assets : supply'[x] = None <=> supply[x] = None
      BY <2>1, <2>3, <2>4, <2>5, SupplyFacts
    <2>12. MemLedger'
      BY <2>5, <2>10, <2>11 DEF MemLedger, LedgerMaps
    <2>13. MemGrows
      BY <2>5, <2>9, <2>10, <2>11 DEF MemGrows, Grows
    <2>14. MemCustody'
      <3>1. \A x \in Requests : redemptionRequests[x] # None =>
              /\ redemptionRequests[x].pool[1] \in Assets
              /\ <<redemptionRequests[x].pool[1], redemptionRequests[x].account>> \in AccountKeys
        BY <2>r DEF RequestRecords, AccountKeys
      <3>2. \A x \in Requests : redemptionRequests'[x] # None =>
              /\ assets'[redemptionRequests'[x].pool[1]] # None
              /\ accounts'[<<redemptionRequests'[x].pool[1],
                             redemptionRequests'[x].account>>] # None
        BY <2>r, <2>9, <2>10, <2>11, <3>1
      <3>3. \A p \in Policies : consortiumPolicies[p] # None =>
               consortiumPolicies[p].asset \in Assets
        BY DEF MemCustody, CustodyMaps, PolicyRecords
      <3> QED
        BY <1>s, <2>5, <2>9, <2>11, <3>2, <3>3 DEF MemCustody, CustodyMaps
    <2> QED
      BY <2>5, <2>12, <2>13, <2>14
  <1>5. CASE t.type = "ApplyCustodyDemurrage" /\ ExecuteDemurrage(t)
    <2> DEFINE key == <<t.asset, t.account>>
    <2>1. /\ t.asset \in Assets /\ key \in AccountKeys /\ t.amount \in Int
          /\ - t.amount \in Int
      BY <1>5, TxFields
    <2>2. assets[t.asset] # None /\ accounts[key] # None
      BY <1>5 DEF MemGrounded, Grounded
    <2>3. /\ accounts' = Credited(accounts, key, - t.amount)
          /\ SupplyChanged(t.asset, 0, t.amount)
          /\ UNCHANGED <<transferRecords, participants, contracts, contractExecutions,
                         authorityActions, enrollmentRecords, consortiumPolicies,
                         currentCustodyPolicyID, redemptionRequests>>
          /\ dirty' = TRUE
      BY <1>5 DEF ExecuteDemurrage, lists, contractVars, registries, custodyRegistry
    <2> HIDE DEF key
    <2>4. accounts' \in AccountMaps
          /\ \A k \in AccountKeys : accounts[k] # None => accounts'[k] # None
      BY <1>a, <2>1, <2>2, <2>3, CreditFacts
    <2>5. /\ assets' \in [Assets -> Int \cup {None}]
          /\ supply' \in [Assets -> SupplyRecords \cup {None}]
          /\ \A x \in Assets : assets'[x] = None <=> assets[x] = None
          /\ \A x \in Assets : supply'[x] = None <=> supply[x] = None
      BY <2>1, <2>2, <2>3, SupplyFacts
    <2>6. MemLedger'
      BY <2>3, <2>4, <2>5 DEF MemLedger, LedgerMaps
    <2>7. MemGrows
      BY <2>3, <2>4, <2>5 DEF MemGrows, Grows
    <2> QED
      BY <1>s, <2>3, <2>5, <2>6, <2>7, CustodyKeeps
  <1> QED
    BY <1>1, <1>2, <1>3, <1>4, <1>5 DEF CustodyExecuteTx

-----------------------------------------------------------------------------
(* The node between memory and database                                     *)

DbLedger == LedgerMaps(db[1][1], db[1][2], db[1][3], db[1][4], db[1][5], db[1][6],
                       db[1][7], db[1][8], db[1][9])
DbCustody == CustodyMaps(db[1][1], db[1][2], db[1][3], db[2][3], db[2][4], db[2][6])
DbGrounded(t) == Grounded(t, db[1][1], db[1][3], db[1][6], db[2][3], db[2][6])
DbGrows == Grows(db[1][1], db[1][3], db[1][6], db[2][3], db[2][6],
                 assets, accounts, contracts, consortiumPolicies, redemptionRequests)

\* LevelDB has one prefix per map.
DbShape ==
    db = << <<db[1][1], db[1][2], db[1][3], db[1][4], db[1][5], db[1][6], db[1][7],
              db[1][8], db[1][9], db[1][10]>>,
            <<db[2][1], db[2][2], db[2][3], db[2][4], db[2][5], db[2][6], db[2][7],
              db[2][8]>> >>

\* Types of memory and of the database, and what makes execution without
\* validation keep them: whatever a waiting or decided transaction needs is in
\* the database, from which memory never removes anything.
NodeTypes ==
    /\ MemLedger /\ MemCustody
    /\ DbShape /\ DbLedger /\ DbCustody /\ DbGrows
    /\ profile \in Profiles /\ mempool \subseteq Traffic[profile]
    /\ stored \in Seq(Seq(Txs)) /\ next \in 1..(Len(stored) + 1) /\ txi \in Nat \ {0}
    /\ \A t \in mempool : DbGrounded(t)
    /\ \A i \in 1..Len(stored) : \A j \in 1..Len(stored[i]) : DbGrounded(stored[i][j])

\* Memory and database differ only within a block that has executed something,
\* and only empty blocks leave the height behind.
DirtyInv ==
    /\ ~ dirty => db = Persisted /\ txi = 1
    /\ Idle => ~ dirty
    /\ empties \in Nat
    /\ replayed \/ next > 1 \/ (\E i \in 1..Len(stored) : stored[i] = <<>>) => empties > 0

\* The database as of a commit.
LEMMA SavedFacts ==
    ASSUME db = Persisted
    PROVE  /\ DbShape
           /\ DbLedger <=> MemLedger
           /\ DbCustody <=> MemCustody
           /\ \A t : DbGrounded(t) <=> MemGrounded(t)
           /\ DbGrows
  <1>1. /\ db[1][1] = assets /\ db[1][2] = supply /\ db[1][3] = accounts
        /\ db[1][4] = transferRecords /\ db[1][5] = participants /\ db[1][6] = contracts
        /\ db[1][7] = contractExecutions /\ db[1][8] = authorityActions
        /\ db[1][9] = enrollmentRecords /\ db[1][10] = validators
    BY DEF Persisted, LedgerPersisted
  <1>2. /\ db[2][1] = warehouseOperators /\ db[2][2] = acceptedSkuClasses
        /\ db[2][3] = consortiumPolicies /\ db[2][4] = currentCustodyPolicyID
        /\ db[2][5] = intakeLots /\ db[2][6] = redemptionRequests
        /\ db[2][7] = redemptionSettlements /\ db[2][8] = demurrageAssessments
    BY DEF Persisted, CustodyPersisted
  <1>3. DbShape
    BY <1>1, <1>2 DEF DbShape, Persisted, LedgerPersisted, CustodyPersisted
  <1> QED
    BY <1>1, <1>2, <1>3 DEF DbLedger, MemLedger, DbCustody, MemCustody, DbGrounded,
       MemGrounded, DbGrows, Grows

\* What validation establishes of the maps.
LEMMA ValidGrounded ==
    ASSUME MemLedger, MemCustody, NEW t \in Txs, ValidateTx(t)
    PROVE  MemGrounded(t)
  <1>1. /\ t.type = "Mint" => ValidateMint(t)
        /\ t.type = "Burn" => ValidateBurn(t)
        /\ t.type = "Transfer" => ValidateTransfer(t)
        /\ t.type = "ActivateContract" => ValidateActivateContract(t)
        /\ t.type = "ExecuteContract" => ValidateExecuteContract(t)
    BY DEF ValidateTx, LedgerTypes, LedgerValidateTx
  <1>2. /\ t.type = "RegisterConsortiumPolicy" => ValidatePolicy(t)
        /\ t.type = "RequestCustodyRedemption" => ValidateRedemption(t)
        /\ t.type = "SettleCustodyRedemption" => ValidateSettle(t)
        /\ t.type = "ApplyCustodyDemurrage" => ValidateDemurrage(t)
    BY DEF ValidateTx, LedgerTypes, CustodyValidateTx
  <1>3. t.type = "ApplyCustodyDemurrage" => assets[t.asset] # None
    BY <1>2, TxKinds DEF ValidateDemurrage, DemurrageTxs, MemCustody, CustodyMaps
  <1> QED
    BY <1>1, <1>2, <1>3 DEF MemGrounded, Grounded, ValidateMint, ValidateBurn,
       ValidateTransfer, ValidateActivateContract, ValidateExecuteContract, ValidatePolicy,
       ValidateRedemption, ValidateSettle, ValidateDemurrage, Holds, MaySend

\* Clients send transactions of these kinds.
LEMMA TrafficTxs == NodeTypes => Traffic[profile] \subseteq Txs /\ mempool \subseteq Txs
  BY WireAppConstants DEF NodeTypes, Txs

\* The block that DecideBlock stores.
LEMMA DecidedBlock ==
    ASSUME NodeTypes, DecideBlock
    PROVE  \E txs \in Seq(Txs) :
              /\ \A j \in 1..Len(txs) : txs[j] \in mempool
              /\ stored' = Append(stored, txs)
              /\ mempool' \subseteq mempool
              /\ empties' = IF txs = <<>> THEN empties + 1 ELSE empties
  <1>1. PICK n \in 0..MaxBlockTxs :
          /\ \E txs \in {s \in [1..n -> mempool] :
                           \A i, j \in 1..n : s[i] = s[j] => i = j} :
                /\ stored' = Append(stored, txs)
                /\ mempool' = mempool \ {txs[i] : i \in 1..n}
          /\ empties' = IF n = 0 THEN empties + 1 ELSE empties
    BY DEF DecideBlock
  <1>2. PICK txs \in [1..n -> mempool] :
                /\ stored' = Append(stored, txs)
                /\ mempool' = mempool \ {txs[i] : i \in 1..n}
    BY <1>1
  <1>3. n \in Nat
    BY WireAppConstants
  <1>4. txs \in Seq(mempool) /\ Len(txs) = n
    BY <1>3
  <1>5. mempool \subseteq Txs
    BY TrafficTxs
  <1>6. txs \in Seq(Txs)
    BY <1>4, <1>5
  <1>7. n = 0 <=> txs = <<>>
    BY <1>4
  <1> QED
    BY <1>1, <1>2, <1>4, <1>6, <1>7

\* A transaction of the current block finds what it needs in memory.
LEMMA DeliverEffects ==
    ASSUME NodeTypes, DeliverTx
    PROVE  /\ stored[next][txi] \in Txs /\ MemGrounded(stored[next][txi])
           /\ next \in 1..Len(stored) /\ txi \in 1..Len(stored[next])
           /\ MemLedger' /\ MemCustody' /\ MemGrows /\ dirty' = TRUE
  <1> DEFINE t == stored[next][txi]
  <1>1. next \in 1..Len(stored)
    BY DEF DeliverTx, Idle, NodeTypes
  <1>2. stored[next] \in Seq(Txs) /\ txi \in 1..Len(stored[next])
    BY <1>1 DEF DeliverTx, NodeTypes
  <1>3. t \in Txs
    BY <1>2
  <1>4. DbGrounded(t)
    BY <1>1, <1>2 DEF NodeTypes
  <1>5. ExecuteTx(t)
    BY DEF DeliverTx
  <1> HIDE DEF t
  <1>6. MemGrounded(t)
    BY <1>3, <1>4, GroundedGrows DEF NodeTypes, DbGrows, DbGrounded, MemGrounded
  <1>7. MemLedger /\ MemCustody
    BY DEF NodeTypes
  <1>8. MemLedger' /\ MemCustody' /\ MemGrows /\ dirty' = TRUE
    BY <1>3, <1>5, <1>6, <1>7, LedgerEffects, CustodyEffects DEF ExecuteTx
  <1> QED
    BY <1>1, <1>2, <1>3, <1>6, <1>8 DEF t

\* After EndBlock memory is what it was and the database holds it.
LEMMA EndBlockSaves ==
    ASSUME NodeTypes, DirtyInv, EndBlock
    PROVE  /\ Persisted' = Persisted /\ db' = Persisted
           /\ UNCHANGED <<assets, supply, accounts, transferRecords, participants, contracts,
                          contractExecutions, authorityActions, enrollmentRecords,
                          validators, consortiumPolicies, currentCustodyPolicyID,
                          redemptionRequests>>
           /\ next \in 1..Len(stored)
           /\ \/ /\ dirty /\ next' = next /\ stored' = Tail(stored)
                 /\ Len(stored') = Len(stored) - 1 /\ stored' \in Seq(Seq(Txs))
                 /\ \A i \in 1..Len(stored') : stored'[i] = stored[i + 1]
              \/ ~ dirty /\ next' = next + 1 /\ stored' = stored /\ stored[next] = <<>>
  <1>1. UNCHANGED <<assets, supply, accounts, transferRecords, participants, contracts,
                    contractExecutions, authorityActions, enrollmentRecords,
                    validators>> /\ UNCHANGED custodyVars
    BY DEF EndBlock, lists, contractVars
  <1>2. Persisted' = Persisted
    BY <1>1 DEF Persisted, LedgerPersisted, CustodyPersisted, custodyVars, custodyRegistry
  <1>3. db' = Persisted
    BY DEF EndBlock, Commit, DirtyInv
  <1>4. next \in 1..Len(stored) /\ stored \in Seq(Seq(Txs)) /\ stored # <<>>
    BY DEF EndBlock, Idle, NodeTypes
  <1>5. CASE dirty
    <2>1. next' = next /\ stored' = Tail(stored)
      BY <1>5 DEF EndBlock, Commit
    <2>2. /\ Len(stored') = Len(stored) - 1 /\ stored' \in Seq(Seq(Txs))
          /\ \A i \in 1..Len(stored') : stored'[i] = stored[i + 1]
      BY <1>4, <2>1
    <2> QED
      BY <1>1, <1>2, <1>3, <1>4, <1>5, <2>1, <2>2 DEF custodyVars, custodyRegistry
  <1>6. CASE ~ dirty
    <2>1. next' = next + 1 /\ stored' = stored
      BY <1>6 DEF EndBlock, Commit
    <2>2. stored[next] \in Seq(Txs)
      BY <1>4
    <2>3. Len(stored[next]) = 0
      BY <1>6, <2>2 DEF EndBlock, DirtyInv
    <2>4. stored[next] = <<>>
      BY <2>2, <2>3
    <2> QED
      BY <1>1, <1>2, <1>3, <1>4, <1>6, <2>1, <2>4 DEF custodyVars, custodyRegistry
  <1> QED
    BY <1>5, <1>6

\* Restart reads the maps back.
LEMMA RestartLoads ==
    ASSUME NodeTypes, Restart
    PROVE  /\ assets' = db[1][1] /\ supply' = db[1][2] /\ accounts' = db[1][3]
           /\ transferRecords' = db[1][4] /\ participants' = db[1][5]
           /\ contracts' = db[1][6] /\ contractExecutions' = db[1][7]
           /\ authorityActions' = db[1][8] /\ enrollmentRecords' = db[1][9]
           /\ consortiumPolicies' = db[2][3] /\ currentCustodyPolicyID' = db[2][4]
           /\ redemptionRequests' = db[2][6]
           /\ db' = Persisted' /\ db' = db /\ dirty' = FALSE
  <1>1. LedgerLoaded(db[1]) /\ CustodyLoaded(db[2]) /\ db' = db
    BY DEF Restart
  <1>2. Persisted' = << <<db[1][1], db[1][2], db[1][3], db[1][4], db[1][5], db[1][6],
                          db[1][7], db[1][8], db[1][9], db[1][10]>>,
                        <<db[2][1], db[2][2], db[2][3], db[2][4], db[2][5], db[2][6],
                          db[2][7], db[2][8]>> >>
    BY <1>1 DEF Persisted, LedgerPersisted, CustodyPersisted, LedgerLoaded, CustodyLoaded
  <1>3. db' = Persisted'
    BY <1>1, <1>2 DEF NodeTypes, DbShape
  <1> QED
    BY <1>1, <1>3 DEF LedgerLoaded, CustodyLoaded

\* Every step keeps the types.
LEMMA StepNode ==
    ASSUME NodeTypes, DirtyInv, [WireNext]_wireVars
    PROVE  NodeTypes'
  <1> DEFINE G(x) == Grounded(x, db[1][1], db[1][3], db[1][6], db[2][3], db[2][6])
             H(x) == Grounded(x, db'[1][1], db'[1][3], db'[1][6], db'[2][3], db'[2][6])
  <1>g. ASSUME /\ \A i \in 1..Len(stored') : \A j \in 1..Len(stored'[i]) : H(stored'[i][j])
               /\ \A t \in mempool' : H(t)
        PROVE  (/\ \A t \in mempool : DbGrounded(t)
                /\ \A i \in 1..Len(stored) : \A j \in 1..Len(stored[i]) :
                      DbGrounded(stored[i][j]))'
    BY <1>g DEF DbGrounded
  <1>h. /\ \A t \in mempool : G(t)
        /\ \A i \in 1..Len(stored) : \A j \in 1..Len(stored[i]) : G(stored[i][j])
    BY DEF NodeTypes, DbGrounded
  <1>u. ASSUME UNCHANGED <<ledgerVars, custodyVars, db>>
        PROVE  /\ UNCHANGED <<assets, supply, accounts, transferRecords, participants,
                    contracts, contractExecutions, authorityActions, enrollmentRecords,
                    consortiumPolicies, currentCustodyPolicyID, redemptionRequests, db>>
               /\ MemLedger' /\ MemCustody' /\ DbShape' /\ DbLedger' /\ DbCustody' /\ DbGrows'
               /\ \A t : G(t) => H(t)
    <2>1. UNCHANGED <<assets, supply, accounts, transferRecords, participants, contracts,
                      contractExecutions, authorityActions, enrollmentRecords,
                      consortiumPolicies, currentCustodyPolicyID, redemptionRequests, db>>
      BY <1>u DEF ledgerVars, custodyVars, custodyRegistry
    <2> QED
      BY <2>1 DEF NodeTypes, MemLedger, MemCustody, DbShape, DbLedger, DbCustody, DbGrows,
         DbGrounded
  <1> HIDE DEF G, H
  <1>1. ASSUME NEW t \in Traffic[profile], CheckTx(t) PROVE NodeTypes'
    <2>1. UNCHANGED <<ledgerVars, custodyVars, db>> /\ UNCHANGED <<profile, stored, next, txi>>
          /\ mempool' = mempool \cup {t} /\ ValidateTx(t) /\ Idle
      BY <1>1 DEF CheckTx
    <2>2. t \in Txs
      BY TrafficTxs
    <2>3. MemGrounded(t)
      BY <2>1, <2>2, ValidGrounded DEF NodeTypes
    <2>4. G(t)
      BY <2>1, <2>3, SavedFacts DEF DirtyInv, DbGrounded, G
    <2>5. /\ MemLedger' /\ MemCustody' /\ DbShape' /\ DbLedger' /\ DbCustody' /\ DbGrows'
          /\ \A x : G(x) => H(x)
      BY <1>u, <2>1
    <2>6. /\ \A i \in 1..Len(stored') : \A j \in 1..Len(stored'[i]) : H(stored'[i][j])
          /\ \A x \in mempool' : H(x)
      BY <1>h, <2>1, <2>4, <2>5
    <2> QED
      BY <1>g, <2>1, <2>5, <2>6 DEF NodeTypes
  <1>2. CASE DecideBlock
    <2>1. UNCHANGED <<ledgerVars, custodyVars, db>> /\ UNCHANGED <<profile, next, txi>>
      BY <1>2 DEF DecideBlock
    <2>2. /\ MemLedger' /\ MemCustody' /\ DbShape' /\ DbLedger' /\ DbCustody' /\ DbGrows'
          /\ \A x : G(x) => H(x)
      BY <1>u, <2>1
    <2>3. PICK txs \in Seq(Txs) :
              /\ \A j \in 1..Len(txs) : txs[j] \in mempool
              /\ stored' = Append(stored, txs)
              /\ mempool' \subseteq mempool
      BY <1>2, DecidedBlock
    <2>4. /\ stored' \in Seq(Seq(Txs)) /\ Len(stored') = Len(stored) + 1
          /\ Len(stored) \in Nat
          /\ \A i \in 1..Len(stored) : stored'[i] = stored[i]
          /\ stored'[Len(stored) + 1] = txs
      BY <2>3 DEF NodeTypes
    <2>5. next' \in 1..(Len(stored') + 1)
      BY <2>1, <2>4 DEF NodeTypes
    <2>6. ASSUME NEW i \in 1..Len(stored'), NEW j \in 1..Len(stored'[i])
          PROVE  H(stored'[i][j])
      <3>1. CASE i \in 1..Len(stored)
        BY <1>h, <2>2, <2>4, <3>1
      <3>2. CASE i = Len(stored) + 1
        BY <1>h, <2>2, <2>3, <2>4, <3>2
      <3> QED
        BY <2>4, <3>1, <3>2
    <2>7. \A t \in mempool' : H(t)
      BY <1>h, <2>2, <2>3
    <2> QED
      BY <1>g, <2>1, <2>2, <2>3, <2>4, <2>5, <2>6, <2>7 DEF NodeTypes
  <1>3. CASE DeliverTx
    <2>1. UNCHANGED <<profile, db, mempool, stored, next>> /\ txi' = txi + 1
      BY <1>3 DEF DeliverTx
    <2>2. MemLedger' /\ MemCustody' /\ MemGrows
      BY <1>3, DeliverEffects
    <2>3. DbGrows'
      BY <2>1, <2>2 DEF NodeTypes, DbGrows, MemGrows, Grows
    <2>4. DbShape' /\ DbLedger' /\ DbCustody' /\ \A x : G(x) => H(x)
      BY <2>1 DEF NodeTypes, DbShape, DbLedger, DbCustody, G, H
    <2>5. /\ \A i \in 1..Len(stored') : \A j \in 1..Len(stored'[i]) : H(stored'[i][j])
          /\ \A t \in mempool' : H(t)
      BY <1>h, <2>1, <2>4
    <2> QED
      BY <1>g, <2>1, <2>2, <2>3, <2>4, <2>5 DEF NodeTypes
  <1>4. CASE EndBlock
    <2>1. /\ Persisted' = Persisted /\ db' = Persisted
          /\ UNCHANGED <<assets, supply, accounts, transferRecords, participants, contracts,
                         contractExecutions, authorityActions, enrollmentRecords,
                         consortiumPolicies, currentCustodyPolicyID, redemptionRequests>>
          /\ next \in 1..Len(stored)
          /\ \/ /\ next' = next
                /\ Len(stored') = Len(stored) - 1 /\ stored' \in Seq(Seq(Txs))
                /\ \A i \in 1..Len(stored') : stored'[i] = stored[i + 1]
             \/ next' = next + 1 /\ stored' = stored
      BY <1>4, EndBlockSaves
    <2>2. /\ UNCHANGED profile /\ txi' = 1
          /\ mempool' = {t \in mempool : ValidateTx(t)}
      BY <1>4 DEF EndBlock
    <2>3. MemLedger' /\ MemCustody'
      BY <2>1 DEF NodeTypes, MemLedger, MemCustody
    <2>4. /\ db'[1][1] = assets /\ db'[1][2] = supply /\ db'[1][3] = accounts
          /\ db'[1][4] = transferRecords /\ db'[1][5] = participants /\ db'[1][6] = contracts
          /\ db'[1][7] = contractExecutions /\ db'[1][8] = authorityActions
          /\ db'[1][9] = enrollmentRecords
          /\ db'[2][3] = consortiumPolicies /\ db'[2][4] = currentCustodyPolicyID
          /\ db'[2][6] = redemptionRequests
      BY <2>1 DEF Persisted, LedgerPersisted, CustodyPersisted
    <2>5. DbShape'
      BY <2>1 DEF DbShape, Persisted, LedgerPersisted, CustodyPersisted
    <2>6. DbLedger' /\ DbCustody' /\ DbGrows'
      BY <2>1, <2>4 DEF NodeTypes, DbLedger, MemLedger, DbCustody, MemCustody, DbGrows, Grows
    <2>7. \A t : MemGrounded(t) => H(t)
      BY <2>4 DEF MemGrounded, H
    <2>8. stored' \in Seq(Seq(Txs)) /\ next' \in 1..(Len(stored') + 1)
      BY <2>1 DEF NodeTypes
    <2>9. \A t \in mempool' : H(t)
      <3>1. mempool \subseteq Txs
        BY TrafficTxs
      <3> QED
        BY <2>2, <2>7, <3>1, ValidGrounded DEF NodeTypes
    <2>10. ASSUME NEW i \in 1..Len(stored), NEW j \in 1..Len(stored[i])
           PROVE  H(stored[i][j])
      <3>1. stored[i][j] \in Txs /\ G(stored[i][j])
        BY <1>h DEF NodeTypes
      <3>2. MemGrounded(stored[i][j])
        BY <3>1, GroundedGrows DEF NodeTypes, DbGrows, MemGrounded, G
      <3> QED
        BY <2>7, <3>2
    <2>11. \A i \in 1..Len(stored') : \A j \in 1..Len(stored'[i]) : H(stored'[i][j])
      <3>1. Len(stored) \in Nat
        BY DEF NodeTypes
      <3>2. CASE stored' = stored
        BY <2>10, <3>2
      <3>3. CASE /\ Len(stored') = Len(stored) - 1
                 /\ \A i \in 1..Len(stored') : stored'[i] = stored[i + 1]
        <4>1. \A i \in 1..Len(stored') : i + 1 \in 1..Len(stored)
          BY <3>1, <3>3
        <4> QED
          BY <2>10, <3>3, <4>1
      <3> QED
        BY <2>1, <3>2, <3>3
    <2>12. profile' \in Profiles /\ mempool' \subseteq Traffic[profile'] /\ txi' \in Nat \ {0}
      BY <2>2 DEF NodeTypes
    <2> QED
      BY <1>g, <2>3, <2>5, <2>6, <2>8, <2>9, <2>11, <2>12 DEF NodeTypes
  <1>5. CASE Restart
    <2>1. UNCHANGED <<profile, db, stored>> /\ mempool' = {} /\ next' = 1 /\ txi' = 1
      BY <1>5 DEF Restart
    <2>2. MemLedger' /\ MemCustody' /\ DbGrows'
      BY <1>5, <2>1, RestartLoads DEF NodeTypes, DbLedger, DbCustody, MemLedger, MemCustody,
         DbGrows, Grows
    <2>3. DbShape' /\ DbLedger' /\ DbCustody' /\ \A x : G(x) => H(x)
      BY <2>1 DEF NodeTypes, DbShape, DbLedger, DbCustody, G, H
    <2>4. next' \in 1..(Len(stored') + 1)
      BY <2>1 DEF NodeTypes
    <2>5. /\ \A i \in 1..Len(stored') : \A j \in 1..Len(stored'[i]) : H(stored'[i][j])
          /\ \A t \in mempool' : H(t)
      BY <1>h, <2>1, <2>3
    <2> QED
      BY <1>g, <2>1, <2>2, <2>3, <2>4, <2>5 DEF NodeTypes
  <1>6. CASE UNCHANGED wireVars
    <2>1. UNCHANGED <<ledgerVars, custodyVars, db>>
          /\ UNCHANGED <<profile, mempool, stored, next, txi>>
      BY <1>6 DEF wireVars, chain
    <2>2. /\ MemLedger' /\ MemCustody' /\ DbShape' /\ DbLedger' /\ DbCustody' /\ DbGrows'
          /\ \A x : G(x) => H(x)
      BY <1>u, <2>1
    <2>3. /\ \A i \in 1..Len(stored') : \A j \in 1..Len(stored'[i]) : H(stored'[i][j])
          /\ \A t \in mempool' : H(t)
      BY <1>h, <2>1, <2>2
    <2> QED
      BY <1>g, <2>1, <2>2, <2>3 DEF NodeTypes
  <1> QED
    BY <1>1, <1>2, <1>3, <1>4, <1>5, <1>6 DEF WireNext

\* Every step keeps memory and database together.
LEMMA StepDirty ==
    ASSUME NodeTypes, DirtyInv, [WireNext]_wireVars
    PROVE  DirtyInv'
  <1>u. ASSUME UNCHANGED <<ledgerVars, custodyVars, db>> PROVE UNCHANGED <<Persisted, db, dirty>>
    <2>1. UNCHANGED <<assets, supply, accounts, transferRecords, participants, contracts,
                      contractExecutions, authorityActions, enrollmentRecords, validators,
                      dirty, custodyVars, db>>
      BY <1>u DEF ledgerVars
    <2> QED
      BY <2>1 DEF Persisted, LedgerPersisted, CustodyPersisted, custodyVars, custodyRegistry
  <1>t. /\ Len(stored) \in Nat /\ next \in Nat /\ next > 0 /\ next <= Len(stored) + 1
        /\ empties \in Nat
    BY DEF NodeTypes, DirtyInv
  <1>1. ASSUME NEW t \in Traffic[profile], CheckTx(t) PROVE DirtyInv'
    <2>1. UNCHANGED <<ledgerVars, custodyVars, db>> /\ UNCHANGED <<stored, next, txi>>
          /\ UNCHANGED <<empties, replayed>>
      BY <1>1 DEF CheckTx, bounds
    <2> QED
      BY <1>u, <2>1 DEF DirtyInv, Idle
  <1>2. CASE DecideBlock
    <2>1. UNCHANGED <<ledgerVars, custodyVars, db>> /\ UNCHANGED <<next, txi, replayed>> /\ Idle
      BY <1>2 DEF DecideBlock
    <2>2. PICK txs \in Seq(Txs) :
              /\ stored' = Append(stored, txs)
              /\ empties' = IF txs = <<>> THEN empties + 1 ELSE empties
      BY <1>2, DecidedBlock
    <2>3. /\ Len(stored') = Len(stored) + 1
          /\ \A i \in 1..Len(stored) : stored'[i] = stored[i]
          /\ stored'[Len(stored) + 1] = txs
      BY <2>2 DEF NodeTypes
    <2>4. ~ Idle'
      BY <1>t, <2>1, <2>3 DEF Idle
    <2>5. empties' \in Nat /\ empties' >= empties
      BY <1>t, <2>2
    <2>6. ASSUME NEW i \in 1..Len(stored'), stored'[i] = <<>> PROVE empties' > 0
      <3>1. CASE i \in 1..Len(stored)
        BY <1>t, <2>3, <2>5, <2>6, <3>1 DEF DirtyInv
      <3>2. CASE i = Len(stored) + 1
        BY <1>t, <2>2, <2>3, <2>6, <3>2
      <3> QED
        BY <1>t, <2>3, <3>1, <3>2
    <2>7. replayed' \/ next' > 1 => empties' > 0
      BY <1>t, <2>1, <2>5 DEF DirtyInv
    <2> QED
      BY <1>u, <2>1, <2>4, <2>5, <2>6, <2>7 DEF DirtyInv
  <1>3. CASE DeliverTx
    <2>1. UNCHANGED <<stored, next, empties, replayed>> /\ ~ Idle
      BY <1>3 DEF DeliverTx, Note, bounds
    <2>2. dirty' = TRUE
      BY <1>3, DeliverEffects
    <2> QED
      BY <2>1, <2>2 DEF DirtyInv, Idle
  <1>4. CASE EndBlock
    <2>1. /\ Persisted' = Persisted /\ db' = Persisted
          /\ next \in 1..Len(stored)
          /\ \/ /\ next' = next
                /\ Len(stored') = Len(stored) - 1
                /\ \A i \in 1..Len(stored') : stored'[i] = stored[i + 1]
             \/ next' = next + 1 /\ stored' = stored /\ stored[next] = <<>>
      BY <1>4, EndBlockSaves
    <2>2. dirty' = FALSE /\ txi' = 1 /\ UNCHANGED <<empties, replayed>>
      BY <1>4 DEF EndBlock, bounds
    <2>3. ASSUME NEW i \in 1..Len(stored'), stored'[i] = <<>> PROVE empties > 0
      <3>1. (\E j \in 1..Len(stored) : stored[j] = <<>>) => empties > 0
        BY DEF DirtyInv
      <3>2. CASE stored' = stored
        BY <2>3, <3>1, <3>2
      <3>3. CASE /\ Len(stored') = Len(stored) - 1
                 /\ \A j \in 1..Len(stored') : stored'[j] = stored[j + 1]
        <4>1. i + 1 \in 1..Len(stored) /\ stored[i + 1] = <<>>
          BY <1>t, <2>3, <3>3
        <4> QED
          BY <3>1, <4>1
      <3> QED
        BY <2>1, <3>2, <3>3
    <2>4. replayed \/ next' > 1 => empties > 0
      BY <1>t, <2>1 DEF DirtyInv
    <2> QED
      BY <2>1, <2>2, <2>3, <2>4 DEF DirtyInv
  <1>5. CASE Restart
    <2>1. /\ UNCHANGED <<stored, empties>> /\ next' = 1 /\ txi' = 1
          /\ replayed' = (replayed \/ \E i \in 1..(next - 1) : stored[i] # <<>>)
      BY <1>5 DEF Restart
    <2>2. db' = Persisted' /\ dirty' = FALSE
      BY <1>5, RestartLoads
    <2>3. replayed' => empties > 0
      <3>1. (\E i \in 1..(next - 1) : stored[i] # <<>>) => next > 1
        BY <1>t
      <3>2. (replayed => empties > 0) /\ (next > 1 => empties > 0)
        BY DEF DirtyInv
      <3> QED
        BY <2>1, <3>1, <3>2
    <2> QED
      BY <2>1, <2>2, <2>3 DEF DirtyInv
  <1>6. CASE UNCHANGED wireVars
    <2>1. UNCHANGED <<ledgerVars, custodyVars, db>> /\ UNCHANGED <<stored, next, txi>>
          /\ UNCHANGED <<empties, replayed>>
      BY <1>6 DEF wireVars, chain, bounds, history
    <2> QED
      BY <1>u, <2>1 DEF DirtyInv, Idle
  <1> QED
    BY <1>1, <1>2, <1>3, <1>4, <1>5, <1>6 DEF WireNext

\* A fresh or an opened ledger.
LEMMA InitNode ==
    ASSUME WireInit
    PROVE  NodeTypes /\ DirtyInv
  <1>1. /\ profile \in Profiles /\ CustodyInit /\ db = Persisted
        /\ mempool = {} /\ stored = <<>> /\ next = 1 /\ txi = 1 /\ empties = 0
        /\ replayed = FALSE
    BY DEF WireInit
  <1>c. ASSUME MemLedger, MemCustody, dirty = FALSE PROVE NodeTypes /\ DirtyInv
    <2>1. DbShape /\ DbLedger /\ DbCustody /\ DbGrows
      BY <1>1, <1>c, SavedFacts
    <2>2. stored \in Seq(Seq(Txs)) /\ Len(stored) = 0
      BY <1>1
    <2>3. NodeTypes
      BY <1>1, <1>c, <2>1, <2>2 DEF NodeTypes
    <2>4. ~ (\E i \in 1..Len(stored) : stored[i] = <<>>)
      BY <2>2
    <2>5. ~ replayed /\ ~ (next > 1) /\ empties \in Nat
      BY <1>1
    <2> QED
      BY <1>1, <1>c, <2>3, <2>4, <2>5 DEF DirtyInv
  <1>2. CASE LedgerInit
    <2>1. MemLedger
      BY <1>2 DEF LedgerInit, MemLedger, LedgerMaps, AccountMaps
    <2>2. MemCustody
      BY <1>1, <1>2 DEF LedgerInit, CustodyInit, MemCustody, CustodyMaps
    <2> QED
      BY <1>2, <1>c, <2>1, <2>2 DEF LedgerInit
  <1>3. CASE Opening[profile] # None /\ OpenInit(Opening[profile])
    <2> DEFINE b == Opening[profile]
               n == Total(b)
    <2>1. n \in Nat /\ b \in [Commitments -> Nat]
      BY <1>1, <1>3, TotalType, WireConstants, WireAppConstants
    <2>2. assets = [a \in Assets |-> n]
          /\ supply = [a \in Assets |-> [minted |-> n, burned |-> 0, total |-> n]]
      BY <1>3 DEF OpenInit
    <2>3. accounts = [k \in AccountKeys |-> [NewAccount EXCEPT !.balance =
                        IF k[1] = "_" THEN 0 ELSE b[k[2]]]]
      BY <1>3 DEF OpenInit
    <2> HIDE DEF n, b
    <2>4. ASSUME NEW k \in AccountKeys PROVE accounts[k] \in AccountRecords
      <3> DEFINE x == IF k[1] = "_" THEN 0 ELSE b[k[2]]
      <3>1. x \in Int
        <4>1. k[2] \in Commitments
          BY DEF AccountKeys
        <4>2. b[k[2]] \in Int
          BY <2>1, <4>1
        <4>3. x = 0 \/ x = b[k[2]]
          BY Zenon DEF x
        <4> HIDE DEF x
        <4>4. 0 \in Int
          OBVIOUS
        <4> QED
          BY <4>2, <4>3, <4>4
      <3>2. accounts[k] = [NewAccount EXCEPT !.balance = x]
        BY <2>3
      <3> HIDE DEF x
      <3> QED
        BY <3>1, <3>2 DEF NewAccount, AccountRecords
    <2>5. accounts \in AccountMaps
      BY <2>3, <2>4 DEF AccountMaps
    <2>6. assets \in [Assets -> Int \cup {None}] /\ supply \in [Assets -> SupplyRecords \cup {None}]
      BY <2>1, <2>2 DEF SupplyRecords
    <2>7. \A a \in Assets : assets[a] # None /\ supply[a] # None
      <3>1. \A a \in Assets : assets[a] \in Int /\ supply[a] \in SupplyRecords
        BY <2>1, <2>2 DEF SupplyRecords
      <3> QED
        BY <3>1, LedgerNone DEF SupplyRecords
    <2>8. MemLedger
      BY <1>3, <2>5, <2>6 DEF OpenInit, MemLedger, LedgerMaps
    <2>9. MemCustody
      BY <1>1, <2>7 DEF CustodyInit, MemCustody, CustodyMaps
    <2> QED
      BY <1>3, <1>c, <2>8, <2>9 DEF OpenInit
  <1> QED
    BY <1>2, <1>3 DEF WireInit

\* The invariant of the node's memory and database.
LEMMA NodeInvariant == WireSpec => [](NodeTypes /\ DirtyInv)
  <1>1. WireInit => NodeTypes /\ DirtyInv
    BY InitNode
  <1>2. NodeTypes /\ DirtyInv /\ [WireNext]_wireVars => (NodeTypes /\ DirtyInv)'
    BY StepNode, StepDirty
  <1> QED
    BY <1>1, <1>2, PTL DEF WireSpec

\* Execution without validation leaves every map of the ledger and of custody
\* well-typed, for all traffic, blocks, restarts and replays.
THEOREM WireTypes == WireSpec => []WireTypeOK
  <1>1. NodeTypes => WireTypeOK
    BY DEF NodeTypes, MemLedger, LedgerMaps, MemCustody, CustodyMaps, AccountMaps,
       AccountRecords, WireTypeOK
  <1> QED
    BY <1>1, NodeInvariant, PTL

\* Between blocks the database is the state, although Commit writes only dirty
\* states; and only a chain with empty blocks is ever replayed.
THEOREM DurableNode == WireSpec => []Durable
  <1>1. NodeTypes /\ DirtyInv => Durable
    BY DEF DirtyInv, Durable
  <1> QED
    BY <1>1, NodeInvariant, PTL

=============================================================================

---------------------------- MODULE WireCustody ----------------------------
(***************************************************************************)
(* Consortium custody on the shywire ledger (embodiments/shywire/state/    *)
(* custody.go): warehouse operators, accepted goods, policies, intake lots *)
(* and their redemption, demurrage.                                        *)
(***************************************************************************)
EXTENDS WireLedger

CONSTANTS
    Operators,
    Warehouses,
    SkuClasses,
    Policies,
    Lots,               \* lot IDs, numbers in the order of their names
    Requests,           \* redemption request IDs
    Settlements,        \* settlement IDs
    Assessments,        \* demurrage assessment IDs
    MaxQuantity         \* bound: quantities of one transaction

ASSUME CustodyConstants ==
    /\ Lots \subseteq Nat /\ IsFiniteSet(Lots) /\ IsFiniteSet(Settlements)
    /\ MaxQuantity \in Nat \ {0}

\* None is neither a policy nor a record of custody.
ASSUME CustodyNone ==
    /\ None \notin Policies
    /\ None \notin [asset : Assets, operators : SUBSET Operators,
                     skus : SUBSET SkuClasses, status : {"active", "superseded"}]
    /\ None \notin [pool : Assets \X Warehouses \X SkuClasses,
                     account : Commitments, silo : 1..MaxAmount,
                     quantity : 1..MaxQuantity, status : {"pending", "settled"}]
    /\ None \notin [pool : Assets \X Warehouses \X SkuClasses, quantity : Int,
                     remaining : Int, policy : Policies, at : Int,
                     status : {"recorded", "partially_allocated", "exhausted"}]
    /\ None \notin [request : Requests, quantity : 1..MaxQuantity,
                     allocated : [Lots -> Nat]]

VARIABLES
    warehouseOperators,     \* operator -> [warehouse, status], or None
    acceptedSkuClasses,     \* goods class -> status, or None
    consortiumPolicies,     \* policy -> record, or None
    currentCustodyPolicyID, \* a policy, or None
    intakeLots,             \* lot -> record, or None
    redemptionRequests,     \* request -> record, or None
    redemptionSettlements,  \* settlement -> record, or None
    demurrageAssessments    \* assessments applied

custodyRegistry == <<warehouseOperators, acceptedSkuClasses,
                     consortiumPolicies, currentCustodyPolicyID>>
custodyVars == <<custodyRegistry, intakeLots, redemptionRequests,
                 redemptionSettlements, demurrageAssessments>>

Quantities == 1..MaxQuantity
Statuses == {"active", "inactive"}

CustodyInit ==
    /\ warehouseOperators = [o \in Operators |-> None]
    /\ acceptedSkuClasses = [s \in SkuClasses |-> None]
    /\ consortiumPolicies = [p \in Policies |-> None]
    /\ currentCustodyPolicyID = None
    /\ intakeLots = [l \in Lots |-> None]
    /\ redemptionRequests = [r \in Requests |-> None]
    /\ redemptionSettlements = [s \in Settlements |-> None]
    /\ demurrageAssessments = {}

\* The rest of the ledger, which only settlements and demurrage touch.
ledgerAside == <<assets, supply, accounts, lists, contractVars, registries>>

-----------------------------------------------------------------------------
(* Operators, goods and policies                                            *)

WarehouseOperatorTxs ==
    [type : {"RegisterWarehouseOperator"}, operator : Operators,
     warehouse : Warehouses, status : Statuses]

ValidateWarehouseOperator(t) == warehouseOperators[t.operator] = None

ExecuteWarehouseOperator(t) ==
    /\ warehouseOperators' = [warehouseOperators EXCEPT ![t.operator] =
                                [warehouse |-> t.warehouse, status |-> t.status]]
    /\ dirty' = TRUE
    /\ UNCHANGED <<acceptedSkuClasses, consortiumPolicies,
                   currentCustodyPolicyID, intakeLots, redemptionRequests,
                   redemptionSettlements, demurrageAssessments, ledgerAside>>

SkuClassTxs == [type : {"RegisterAcceptedSkuClass"}, sku : SkuClasses,
                status : Statuses]

ValidateSkuClass(t) == acceptedSkuClasses[t.sku] = None

ExecuteSkuClass(t) ==
    /\ acceptedSkuClasses' = [acceptedSkuClasses EXCEPT ![t.sku] = t.status]
    /\ dirty' = TRUE
    /\ UNCHANGED <<warehouseOperators, consortiumPolicies,
                   currentCustodyPolicyID, intakeLots, redemptionRequests,
                   redemptionSettlements, demurrageAssessments, ledgerAside>>

PolicyTxs ==
    [type : {"RegisterConsortiumPolicy"}, policy : Policies, asset : Assets,
     operators : (SUBSET Operators) \ {{}}, skus : (SUBSET SkuClasses) \ {{}}]

ActiveOperator(o) == warehouseOperators[o] # None
                     /\ warehouseOperators[o].status = "active"

ValidatePolicy(t) ==
    /\ consortiumPolicies[t.policy] = None
    /\ assets[t.asset] # None
    /\ \A o \in t.operators : ActiveOperator(o)
    /\ \A s \in t.skus : acceptedSkuClasses[s] = "active"

\* Whatever its asset, the policy replaces the current one.
ExecutePolicy(t) ==
    LET superseded ==
          IF currentCustodyPolicyID = None THEN consortiumPolicies
          ELSE [consortiumPolicies EXCEPT
                  ![currentCustodyPolicyID].status = "superseded"]
    IN  /\ consortiumPolicies' = [superseded EXCEPT ![t.policy] =
              [asset |-> t.asset, operators |-> t.operators, skus |-> t.skus,
               status |-> "active"]]
        /\ currentCustodyPolicyID' = t.policy
        /\ dirty' = TRUE
        /\ UNCHANGED <<warehouseOperators, acceptedSkuClasses, intakeLots,
                       redemptionRequests, redemptionSettlements,
                       demurrageAssessments, ledgerAside>>

-----------------------------------------------------------------------------
(* Lots                                                                     *)

IntakeLotTxs ==
    [type : {"RecordCustodyIntakeLot"}, lot : Lots, policy : Policies,
     asset : Assets, operator : Operators, warehouse : Warehouses,
     account : Commitments, sku : SkuClasses, quantity : Quantities]

ValidateIntakeLot(t) ==
    LET policy == consortiumPolicies[t.policy] IN
    /\ intakeLots[t.lot] = None
    /\ policy # None /\ policy.status = "active" /\ policy.asset = t.asset
    /\ assets[t.asset] # None
    /\ ActiveOperator(t.operator)
    /\ warehouseOperators[t.operator].warehouse = t.warehouse
    /\ t.operator \in policy.operators
    /\ acceptedSkuClasses[t.sku] # None /\ t.sku \in policy.skus
    /\ accounts[<<"_", t.account>>] # None

\* The minted amount is only noted: the tokens come from a Mint.  at is the
\* block, for the creation time.
ExecuteIntakeLot(t, at) ==
    /\ intakeLots' = [intakeLots EXCEPT ![t.lot] =
          [pool |-> <<t.asset, t.warehouse, t.sku>>, quantity |-> t.quantity,
           remaining |-> t.quantity, policy |-> t.policy, at |-> at,
           status |-> "recorded"]]
    /\ dirty' = TRUE
    /\ UNCHANGED <<custodyRegistry, redemptionRequests, redemptionSettlements,
                   demurrageAssessments, ledgerAside>>

\* inventoryLots, without their order.
InventoryLots(pool) ==
    {l \in Lots : /\ intakeLots[l] # None /\ intakeLots[l].pool = pool
                  /\ intakeLots[l].remaining > 0
                  /\ intakeLots[l].status # "exhausted"}

RemainingIn(ls) == Total([l \in ls |-> intakeLots[l].remaining])

AvailableCustodyInventory(pool) == RemainingIn(InventoryLots(pool))

\* The sort: creation time, then name.
Before(k, l) == \/ intakeLots[k].at < intakeLots[l].at
                \/ intakeLots[k].at = intakeLots[l].at /\ k < l

\* What allocateCustodyInventory takes from lot l for a quantity: the lots
\* before it first.
Consumed(pool, quantity, l) ==
    LET open == quantity - RemainingIn({k \in InventoryLots(pool) : Before(k, l)})
    IN  IF l \notin InventoryLots(pool) \/ open <= 0 THEN 0
        ELSE IF intakeLots[l].remaining > open THEN open
        ELSE intakeLots[l].remaining

\* refreshLotStatus
LotStatus(remaining, quantity) ==
    IF remaining <= 0 THEN "exhausted"
    ELSE IF remaining < quantity THEN "partially_allocated" ELSE "recorded"

\* The lots after an allocation, and the allocations.  If the pool is short,
\* what is missing is not reported.
AllocatedLots(pool, quantity) ==
    [l \in Lots |->
        IF Consumed(pool, quantity, l) = 0 THEN intakeLots[l]
        ELSE LET left == intakeLots[l].remaining - Consumed(pool, quantity, l)
             IN  [intakeLots[l] EXCEPT
                    !.remaining = left,
                    !.status = LotStatus(left, intakeLots[l].quantity)]]

Allocations(pool, quantity) == [l \in Lots |-> Consumed(pool, quantity, l)]

-----------------------------------------------------------------------------
(* Redemption                                                               *)

RedemptionTxs ==
    [type : {"RequestCustodyRedemption"}, request : Requests, asset : Assets,
     account : Commitments, warehouse : Warehouses, sku : SkuClasses,
     silo : Amounts, quantity : Quantities]

HasActiveWarehouse(w) ==
    \E o \in Operators : ActiveOperator(o) /\ warehouseOperators[o].warehouse = w

ValidateRedemption(t) ==
    /\ redemptionRequests[t.request] = None
    /\ assets[t.asset] # None
    /\ accounts[<<"_", t.account>>] # None
    /\ Holds(<<t.asset, t.account>>, t.silo)
    /\ acceptedSkuClasses[t.sku] # None
    /\ HasActiveWarehouse(t.warehouse)
    /\ AvailableCustodyInventory(<<t.asset, t.warehouse, t.sku>>) >= t.quantity

\* Nothing is set aside: neither tokens nor goods.
ExecuteRedemption(t) ==
    /\ redemptionRequests' = [redemptionRequests EXCEPT ![t.request] =
          [pool |-> <<t.asset, t.warehouse, t.sku>>, account |-> t.account,
           silo |-> t.silo, quantity |-> t.quantity, status |-> "pending"]]
    /\ dirty' = TRUE
    /\ UNCHANGED <<custodyRegistry, intakeLots, redemptionSettlements,
                   demurrageAssessments, ledgerAside>>

SettleTxs ==
    [type : {"SettleCustodyRedemption"}, settlement : Settlements,
     request : Requests, operator : Operators, warehouse : Warehouses,
     burn : Amounts, quantity : Quantities]

\* Mutant of ValidateSettle: a request may be settled again.
SettleAgain(t) ==
    LET request == redemptionRequests[t.request] IN
    /\ redemptionSettlements[t.settlement] = None
    /\ request # None
    /\ ActiveOperator(t.operator)
    /\ t.warehouse = warehouseOperators[t.operator].warehouse
    /\ t.warehouse = request.pool[2]
    /\ t.quantity <= request.quantity /\ t.burn <= request.silo
    /\ AvailableCustodyInventory(request.pool) >= t.quantity
    /\ Holds(<<request.pool[1], request.account>>, t.burn)

\* Mutant of ValidateSettle: the pool is not looked at.
SettleUnstocked(t) ==
    LET request == redemptionRequests[t.request] IN
    /\ redemptionSettlements[t.settlement] = None
    /\ request # None /\ request.status = "pending"
    /\ ActiveOperator(t.operator)
    /\ t.warehouse = warehouseOperators[t.operator].warehouse
    /\ t.warehouse = request.pool[2]
    /\ t.quantity <= request.quantity /\ t.burn <= request.silo
    /\ Holds(<<request.pool[1], request.account>>, t.burn)

ValidateSettle(t) ==
    LET request == redemptionRequests[t.request] IN
    /\ redemptionSettlements[t.settlement] = None
    /\ request # None /\ request.status = "pending"
    /\ ActiveOperator(t.operator)
    /\ t.warehouse = warehouseOperators[t.operator].warehouse
    /\ t.warehouse = request.pool[2]
    /\ t.quantity <= request.quantity /\ t.burn <= request.silo
    /\ AvailableCustodyInventory(request.pool) >= t.quantity
    /\ Holds(<<request.pool[1], request.account>>, t.burn)

ExecuteSettle(t) ==
    LET request == redemptionRequests[t.request]
        key == <<request.pool[1], request.account>>
    IN  /\ intakeLots' = AllocatedLots(request.pool, t.quantity)
        /\ accounts' = Credited(accounts, key, - t.burn)
        /\ SupplyChanged(request.pool[1], 0, t.burn)
        /\ redemptionRequests' = [redemptionRequests EXCEPT
                                    ![t.request].status = "settled"]
        /\ redemptionSettlements' = [redemptionSettlements EXCEPT
              ![t.settlement] = [request |-> t.request, quantity |-> t.quantity,
                                 allocated |-> Allocations(request.pool, t.quantity)]]
        /\ dirty' = TRUE
        /\ UNCHANGED <<custodyRegistry, demurrageAssessments, lists,
                       contractVars, registries>>

-----------------------------------------------------------------------------
(* Demurrage                                                                *)

DemurrageTxs ==
    [type : {"ApplyCustodyDemurrage"}, assessment : Assessments,
     asset : Assets, account : Commitments, policy : Policies,
     amount : Amounts]

\* A superseded policy still serves.
ValidateDemurrage(t) ==
    /\ t.assessment \notin demurrageAssessments
    /\ consortiumPolicies[t.policy] # None
    /\ consortiumPolicies[t.policy].asset = t.asset
    /\ Holds(<<t.asset, t.account>>, t.amount)

ExecuteDemurrage(t) ==
    /\ accounts' = Credited(accounts, <<t.asset, t.account>>, - t.amount)
    /\ SupplyChanged(t.asset, 0, t.amount)
    /\ demurrageAssessments' = demurrageAssessments \cup {t.assessment}
    /\ dirty' = TRUE
    /\ UNCHANGED <<custodyRegistry, intakeLots, redemptionRequests,
                   redemptionSettlements, lists, contractVars, registries>>

-----------------------------------------------------------------------------
CustodyTxs == WarehouseOperatorTxs \cup SkuClassTxs \cup PolicyTxs
              \cup IntakeLotTxs \cup RedemptionTxs \cup SettleTxs
              \cup DemurrageTxs

CustodyValidateTx(t) ==
    CASE t.type = "RegisterWarehouseOperator" -> ValidateWarehouseOperator(t)
      [] t.type = "RegisterAcceptedSkuClass" -> ValidateSkuClass(t)
      [] t.type = "RegisterConsortiumPolicy" -> ValidatePolicy(t)
      [] t.type = "RecordCustodyIntakeLot" -> ValidateIntakeLot(t)
      [] t.type = "RequestCustodyRedemption" -> ValidateRedemption(t)
      [] t.type = "SettleCustodyRedemption" -> ValidateSettle(t)
      [] t.type = "ApplyCustodyDemurrage" -> ValidateDemurrage(t)

CustodyExecuteTx(t, at) ==
    \/ t.type = "RegisterWarehouseOperator" /\ ExecuteWarehouseOperator(t)
    \/ t.type = "RegisterAcceptedSkuClass" /\ ExecuteSkuClass(t)
    \/ t.type = "RegisterConsortiumPolicy" /\ ExecutePolicy(t)
    \/ t.type = "RecordCustodyIntakeLot" /\ ExecuteIntakeLot(t, at)
    \/ t.type = "RequestCustodyRedemption" /\ ExecuteRedemption(t)
    \/ t.type = "SettleCustodyRedemption" /\ ExecuteSettle(t)
    \/ t.type = "ApplyCustodyDemurrage" /\ ExecuteDemurrage(t)

CustodyPersisted ==
    <<warehouseOperators, acceptedSkuClasses, consortiumPolicies,
      currentCustodyPolicyID, intakeLots, redemptionRequests,
      redemptionSettlements, demurrageAssessments>>

CustodyLoaded(saved) ==
    /\ warehouseOperators' = saved[1] /\ acceptedSkuClasses' = saved[2]
    /\ consortiumPolicies' = saved[3] /\ currentCustodyPolicyID' = saved[4]
    /\ intakeLots' = saved[5] /\ redemptionRequests' = saved[6]
    /\ redemptionSettlements' = saved[7] /\ demurrageAssessments' = saved[8]

=============================================================================

---------------------------- MODULE WireLedger ----------------------------
(***************************************************************************)
(* The shywire state machine (embodiments/shywire/state): assets, accounts *)
(* and their supply, anonymous transfers on two lists, contracts, adverse  *)
(* actions and enrolment.  Every operation is a predicate validate...      *)
(* (CheckTx) and an action execute... (FinalizeBlock); execution does not  *)
(* validate again.  Signatures and hashes are external: a transaction says *)
(* who signed it, and H(nonce) is the nonce itself.  The sets ...Txs are   *)
(* the transactions that pass tx.Validate.                                 *)
(***************************************************************************)
EXTENDS Integers, Sequences, FiniteSets

CONSTANTS
    Assets,
    Commitments,        \* account commitments
    Nonces,             \* transfer nonces; H(nonce) is the transfer ID
    Nullifiers,
    Contracts,
    Actions,            \* adverse-action nonces
    EnrollmentTokens,
    Enrolled,           \* <<commitment, token>> pairs the authority signed
    EnrollmentOn,       \* is an enrollment authority configured?
    AuthoritiesOn,      \* are the two adverse-action authorities configured?
    ValidatorKeys,
    None,
    MaxAmount           \* bound: amounts of one transaction

ASSUME WireConstants ==
    /\ IsFiniteSet(Commitments)
    /\ Enrolled \subseteq Commitments \X EnrollmentTokens
    /\ {EnrollmentOn, AuthoritiesOn} \subseteq BOOLEAN
    /\ MaxAmount \in Nat \ {0}
    /\ None \notin Assets \cup Commitments \cup Nonces \cup EnrollmentTokens
                    \cup Contracts

\* None is neither a number nor a record of the ledger.
ASSUME LedgerNone ==
    /\ None \notin Int
    /\ None \notin [minted : Int, burned : Int, total : Int]
    /\ None \notin [balance : Int, disabled : BOOLEAN, frozen : BOOLEAN]
    /\ None \notin [asset : Assets \cup {None}, amount : Int]
    /\ None \notin [asset : Assets \cup {None}, expires : BOOLEAN, count : Int,
                     executed : Int, status : {"pending_condition", "active"}]

VARIABLES
    assets,             \* asset -> its TotalSupply, or None
    supply,             \* asset -> [minted, burned, total], or None
    accounts,           \* <<asset or "_", commitment>> -> account, or None
    transferRecords,    \* List 1: nonce -> [asset, amount], or None
    participants,       \* List 2: nullifier -> transfer ID, or None
    contracts,          \* contract -> record, or None
    contractExecutions, \* nonce -> contract, or None
    authorityActions,   \* adverse actions committed
    enrollmentRecords,  \* token -> commitment, or None
    validators,         \* key -> power, or None
    pendingValidatorUpdates,
    dirty               \* must Commit write?

ledgerVars == <<assets, supply, accounts, transferRecords, participants,
                contracts, contractExecutions, authorityActions,
                enrollmentRecords, validators, pendingValidatorUpdates, dirty>>

\* What an execution of the value-bearing kinds leaves alone.
lists == <<transferRecords, participants>>
contractVars == <<contracts, contractExecutions>>
registries == <<authorityActions, enrollmentRecords, validators,
                pendingValidatorUpdates>>

Amounts == 1..MaxAmount
AccountKeys == (Assets \cup {"_"}) \X Commitments
NewAccount == [balance |-> 0, disabled |-> FALSE, frozen |-> FALSE]

\* The sum of the values of f, counted in units: those above zero less those
\* below.
Units(f) == UNION {{x} \X (1..f[x]) : x \in DOMAIN f}
Total(f) == Cardinality(Units(f))
            - Cardinality(Units([x \in DOMAIN f |-> - f[x]]))

\* NewState over an empty database.
LedgerInit ==
    /\ assets = [a \in Assets |-> None]
    /\ supply = [a \in Assets |-> None]
    /\ accounts = [k \in AccountKeys |-> None]
    /\ transferRecords = [x \in Nonces |-> None]
    /\ participants = [n \in Nullifiers |-> None]
    /\ contracts = [c \in Contracts |-> None]
    /\ contractExecutions = [x \in Nonces |-> None]
    /\ authorityActions = {}
    /\ enrollmentRecords = [t \in EnrollmentTokens |-> None]
    /\ validators = [k \in ValidatorKeys |-> None]
    /\ pendingValidatorUpdates = <<>>
    /\ dirty = FALSE

-----------------------------------------------------------------------------
(* supply.go                                                                *)

RegisterAssetTxs == [type : {"RegisterAsset"}, asset : Assets, name : {1, 2}]

ValidateRegisterAsset(t) == assets[t.asset] = None

\* Mutant of ExecuteRegisterAsset: the supply record is forgotten.
RegisterAssetOnly(t) ==
    /\ assets' = [assets EXCEPT ![t.asset] = 0]
    /\ dirty' = TRUE
    /\ UNCHANGED <<supply, accounts, lists, contractVars, registries>>

ExecuteRegisterAsset(t) ==
    /\ assets' = [assets EXCEPT ![t.asset] = 0]
    /\ supply' = [supply EXCEPT ![t.asset] =
                    [minted |-> 0, burned |-> 0, total |-> 0]]
    /\ dirty' = TRUE
    /\ UNCHANGED <<accounts, lists, contractVars, registries>>

MintTxs == [type : {"Mint"}, asset : Assets, account : Commitments,
            amount : Amounts]

BurnTxs == [type : {"Burn"}, asset : Assets, account : Commitments,
            amount : Amounts]

ValidateMint(t) == assets[t.asset] # None

\* The two totals of an asset follow its minted and burned sums.
SupplyChanged(a, minted, burned) ==
    /\ supply' = [supply EXCEPT ![a] = [minted |-> @.minted + minted,
                                        burned |-> @.burned + burned,
                                        total |-> @.minted + minted
                                                  - (@.burned + burned)]]
    /\ assets' = [assets EXCEPT ![a] = supply'[a].total]

\* Balances after amount is added (or taken, if negative).
Credited(accs, key, amount) == [accs EXCEPT ![key].balance = @ + amount]

\* Creates the asset's account when it is not there, whatever the flags of
\* the commitment's other accounts.
ExecuteMint(t) ==
    LET key == <<t.asset, t.account>>
        opened == IF accounts[key] # None THEN accounts
                  ELSE [accounts EXCEPT ![key] = NewAccount]
    IN  /\ accounts' = Credited(opened, key, t.amount)
        /\ SupplyChanged(t.asset, t.amount, 0)
        /\ dirty' = TRUE
        /\ UNCHANGED <<lists, contractVars, registries>>

Holds(key, amount) == accounts[key] # None /\ accounts[key].balance >= amount

ValidateBurn(t) == assets[t.asset] # None
                   /\ Holds(<<t.asset, t.account>>, t.amount)

\* Mutant of ExecuteBurn: the supply is left as it is.
BurnKeepsSupply(t) ==
    /\ accounts' = Credited(accounts, <<t.asset, t.account>>, - t.amount)
    /\ dirty' = TRUE
    /\ UNCHANGED <<assets, supply, lists, contractVars, registries>>

ExecuteBurn(t) ==
    /\ accounts' = Credited(accounts, <<t.asset, t.account>>, - t.amount)
    /\ SupplyChanged(t.asset, 0, t.amount)
    /\ dirty' = TRUE
    /\ UNCHANGED <<lists, contractVars, registries>>

-----------------------------------------------------------------------------
(* transfers.go, account_auth.go                                            *)

TransferTxs == [type : {"Transfer"}, asset : Assets, from : Commitments,
                to : Commitments, amount : Amounts, nullifier : Nullifiers,
                nonce : Nonces]

\* Mutant of MaySend: a frozen account may send.
MaySendFrozen(key) == accounts[key] # None /\ ~ accounts[key].disabled

MaySend(key) == /\ accounts[key] # None
                /\ ~ accounts[key].disabled /\ ~ accounts[key].frozen

\* Mutant of ValidateTransfer: the nullifier is not looked up.
TransferTwice(t) ==
    /\ assets[t.asset] # None
    /\ MaySend(<<t.asset, t.from>>) /\ Holds(<<t.asset, t.from>>, t.amount)
    /\ accounts[<<t.asset, t.to>>] # None
    /\ ~ accounts[<<t.asset, t.to>>].disabled

\* Mutant of ValidateTransfer: the balance is not looked at.
TransferUncovered(t) ==
    /\ assets[t.asset] # None /\ participants[t.nullifier] = None
    /\ MaySend(<<t.asset, t.from>>)
    /\ accounts[<<t.asset, t.to>>] # None
    /\ ~ accounts[<<t.asset, t.to>>].disabled

\* A frozen account may still receive.
ValidateTransfer(t) ==
    /\ assets[t.asset] # None
    /\ participants[t.nullifier] = None
    /\ MaySend(<<t.asset, t.from>>) /\ Holds(<<t.asset, t.from>>, t.amount)
    /\ accounts[<<t.asset, t.to>>] # None
    /\ ~ accounts[<<t.asset, t.to>>].disabled

\* One record on each list; transfer ID and nullifier replace what they find.
Recorded(t) ==
    /\ transferRecords' = [transferRecords EXCEPT ![t.nonce] =
                             [asset |-> t.asset, amount |-> t.amount]]
    /\ participants' = [participants EXCEPT ![t.nullifier] = t.nonce]

ExecuteTransfer(t) ==
    /\ Recorded(t)
    /\ accounts' = Credited(Credited(accounts, <<t.asset, t.from>>, - t.amount),
                            <<t.asset, t.to>>, t.amount)
    /\ dirty' = TRUE
    /\ UNCHANGED <<assets, supply, contractVars, registries>>

\* wallet: the commitment of the wallet that signed.
RegisterAccountTxs ==
    [type : {"RegisterAccount"}, account : Commitments, wallet : Commitments,
     token : EnrollmentTokens \cup {None}]

VerifyWalletProof(t) == t.wallet = t.account

VerifyEnrollment(t) ==
    EnrollmentOn => /\ t.token # None
                    /\ enrollmentRecords[t.token] = None
                    /\ <<t.account, t.token>> \in Enrolled

ValidateRegisterAccount(t) ==
    VerifyWalletProof(t) /\ VerifyEnrollment(t)
    /\ accounts[<<"_", t.account>>] = None

ExecuteRegisterAccount(t) ==
    /\ accounts' = [accounts EXCEPT ![<<"_", t.account>>] = NewAccount]
    /\ enrollmentRecords' = IF t.token = None THEN enrollmentRecords
                            ELSE [enrollmentRecords EXCEPT ![t.token] = t.account]
    /\ dirty' = TRUE
    /\ UNCHANGED <<assets, supply, lists, contractVars, authorityActions,
                   validators, pendingValidatorUpdates>>

-----------------------------------------------------------------------------
(* validators.go: no validation; a removed validator stays with power 0.     *)

RegisterValidatorTxs == [type : {"RegisterValidator"}, key : ValidatorKeys,
                         power : {0, 1}]

ExecuteRegisterValidator(t) ==
    /\ validators' = [validators EXCEPT ![t.key] = t.power]
    /\ pendingValidatorUpdates' =
          Append(pendingValidatorUpdates, [key |-> t.key, power |-> t.power])
    /\ dirty' = TRUE
    /\ UNCHANGED <<assets, supply, accounts, lists, contractVars,
                   authorityActions, enrollmentRecords>>

-----------------------------------------------------------------------------
(* financing.go                                                             *)

RegisterContractTxs ==
    [type : {"RegisterContract"}, contract : Contracts,
     asset : Assets \cup {None}, parties : (SUBSET Commitments) \ {{}},
     pending : BOOLEAN, expires : BOOLEAN]

ValidateRegisterContract(t) ==
    /\ contracts[t.contract] = None
    /\ t.asset # None => assets[t.asset] # None
    /\ \A p \in t.parties :
          accounts[<<IF t.asset = None THEN "_" ELSE t.asset, p>>] # None

ExecuteRegisterContract(t) ==
    /\ contracts' = [contracts EXCEPT ![t.contract] =
          [asset |-> t.asset, expires |-> t.expires, count |-> 0, executed |-> 0,
           status |-> IF t.pending THEN "pending_condition" ELSE "active"]]
    /\ dirty' = TRUE
    /\ UNCHANGED <<assets, supply, accounts, lists, contractExecutions,
                   registries>>

ActivateContractTxs == [type : {"ActivateContract"}, contract : Contracts]

ValidateActivateContract(t) ==
    contracts[t.contract] # None
    /\ contracts[t.contract].status = "pending_condition"

\* Mutant of ExecuteActivateContract: the state is not marked as changed.
ActivateClean(t) ==
    /\ contracts' = [contracts EXCEPT ![t.contract].status = "active"]
    /\ UNCHANGED <<dirty, assets, supply, accounts, lists, contractExecutions,
                   registries>>

ExecuteActivateContract(t) ==
    /\ contracts' = [contracts EXCEPT ![t.contract].status = "active"]
    /\ dirty' = TRUE
    /\ UNCHANGED <<assets, supply, accounts, lists, contractExecutions,
                   registries>>

\* late: the timestamp is past the contract's expiry.  The amount may be
\* anything; only a positive one of an asset moves value.
ExecuteContractTxs ==
    [type : {"ExecuteContract"}, contract : Contracts,
     asset : Assets \cup {None}, party : Commitments,
     counterparty : Commitments \cup {None}, amount : -1..MaxAmount,
     nullifier : Nullifiers, nonce : Nonces, late : BOOLEAN]

MovesValue(t) == t.asset # None /\ t.amount > 0

\* The flags of the accounts are not looked at.
ValidateExecuteContract(t) ==
    /\ contracts[t.contract] # None
    /\ contracts[t.contract].status = "active"
    /\ ~ (contracts[t.contract].expires /\ t.late)
    /\ participants[t.nullifier] = None
    /\ MovesValue(t) =>
          /\ contracts[t.contract].asset \in {None, t.asset}
          /\ Holds(<<t.asset, t.party>>, t.amount)
          /\ t.counterparty # None =>
                accounts[<<t.asset, t.counterparty>>] # None

\* Mutant of ExecuteExecuteContract: value-bearing executions are not counted.
ExecuteUncounted(t) ==
    /\ Recorded(t)
    /\ contractExecutions' = [contractExecutions EXCEPT ![t.nonce] = t.contract]
    /\ accounts' =
          IF ~ MovesValue(t) THEN accounts
          ELSE LET debited == Credited(accounts, <<t.asset, t.party>>, - t.amount)
               IN  IF t.counterparty = None THEN debited
                   ELSE Credited(debited, <<t.asset, t.counterparty>>, t.amount)
    /\ contracts' = IF MovesValue(t) THEN contracts
                    ELSE [contracts EXCEPT ![t.contract].count = @ + 1]
    /\ dirty' = TRUE
    /\ UNCHANGED <<assets, supply, registries>>

\* Without a counterparty the value leaves the party and arrives nowhere.
ExecuteExecuteContract(t) ==
    /\ Recorded(t)
    /\ contractExecutions' = [contractExecutions EXCEPT ![t.nonce] = t.contract]
    /\ accounts' =
          IF ~ MovesValue(t) THEN accounts
          ELSE LET debited == Credited(accounts, <<t.asset, t.party>>, - t.amount)
               IN  IF t.counterparty = None THEN debited
                   ELSE Credited(debited, <<t.asset, t.counterparty>>, t.amount)
    /\ contracts' = [contracts EXCEPT ![t.contract].count = @ + 1,
                                      ![t.contract].executed = @ + t.amount]
    /\ dirty' = TRUE
    /\ UNCHANGED <<assets, supply, registries>>

-----------------------------------------------------------------------------
(* adverse_action.go                                                        *)

\* scope None: all assets; signed: whose signatures are valid.
AdverseActionTxs ==
    [type : {"AdverseAction"}, action : Actions, target : Commitments,
     scope : Assets \cup {None},
     kind : {"disable", "freeze", "rescind", "restore", "redeem_forced"},
     ref : Actions \cup {None},
     signed : SUBSET {"eligibility", "reconciliation"}]

ValidateAdverseAction(t) ==
    /\ AuthoritiesOn
    /\ t.action \notin authorityActions
    /\ accounts[<<"_", t.target>>] # None
    /\ t.kind = "restore" /\ t.ref # None => t.ref \in authorityActions
    /\ t.signed = {"eligibility", "reconciliation"}

\* The account after the action.
Affected(acct, kind) ==
    CASE kind \in {"disable", "rescind"} ->
            [acct EXCEPT !.disabled = TRUE, !.frozen = FALSE]
      [] kind = "freeze" -> [acct EXCEPT !.frozen = acct.frozen \/ ~ acct.disabled]
      [] kind = "restore" ->
            [acct EXCEPT !.disabled = FALSE, !.frozen = FALSE]
      [] kind = "redeem_forced" ->
            [acct EXCEPT !.disabled = TRUE, !.balance = 0]

ExecuteAdverseAction(t) ==
    /\ authorityActions' = authorityActions \cup {t.action}
    /\ accounts' = [k \in AccountKeys |->
          IF accounts[k] # None /\ k[2] = t.target
             /\ (t.scope = None \/ k[1] = t.scope)
          THEN Affected(accounts[k], t.kind) ELSE accounts[k]]
    /\ dirty' = TRUE
    /\ UNCHANGED <<assets, supply, lists, contractVars, enrollmentRecords,
                   validators, pendingValidatorUpdates>>

-----------------------------------------------------------------------------
(* state.go                                                                 *)

LedgerTxs == RegisterAssetTxs \cup MintTxs \cup BurnTxs \cup TransferTxs
             \cup RegisterAccountTxs \cup RegisterValidatorTxs
             \cup RegisterContractTxs \cup ActivateContractTxs
             \cup ExecuteContractTxs \cup AdverseActionTxs

LedgerValidateTx(t) ==
    CASE t.type = "RegisterAsset" -> ValidateRegisterAsset(t)
      [] t.type = "Mint" -> ValidateMint(t)
      [] t.type = "Burn" -> ValidateBurn(t)
      [] t.type = "Transfer" -> ValidateTransfer(t)
      [] t.type = "RegisterAccount" -> ValidateRegisterAccount(t)
      [] t.type = "RegisterValidator" -> TRUE
      [] t.type = "RegisterContract" -> ValidateRegisterContract(t)
      [] t.type = "ActivateContract" -> ValidateActivateContract(t)
      [] t.type = "ExecuteContract" -> ValidateExecuteContract(t)
      [] t.type = "AdverseAction" -> ValidateAdverseAction(t)

LedgerExecuteTx(t) ==
    \/ t.type = "RegisterAsset" /\ ExecuteRegisterAsset(t)
    \/ t.type = "Mint" /\ ExecuteMint(t)
    \/ t.type = "Burn" /\ ExecuteBurn(t)
    \/ t.type = "Transfer" /\ ExecuteTransfer(t)
    \/ t.type = "RegisterAccount" /\ ExecuteRegisterAccount(t)
    \/ t.type = "RegisterValidator" /\ ExecuteRegisterValidator(t)
    \/ t.type = "RegisterContract" /\ ExecuteRegisterContract(t)
    \/ t.type = "ActivateContract" /\ ExecuteActivateContract(t)
    \/ t.type = "ExecuteContract" /\ ExecuteExecuteContract(t)
    \/ t.type = "AdverseAction" /\ ExecuteAdverseAction(t)

LedgerPersisted == <<assets, supply, accounts, transferRecords, participants,
                     contracts, contractExecutions, authorityActions,
                     enrollmentRecords, validators>>

\* loadState: every map from its prefix.
LedgerLoaded(saved) ==
    /\ assets' = saved[1] /\ supply' = saved[2] /\ accounts' = saved[3]
    /\ transferRecords' = saved[4] /\ participants' = saved[5]
    /\ contracts' = saved[6] /\ contractExecutions' = saved[7]
    /\ authorityActions' = saved[8] /\ enrollmentRecords' = saved[9]
    /\ validators' = saved[10]
    /\ pendingValidatorUpdates' = <<>> /\ dirty' = FALSE

=============================================================================

# A TLA+ model of the Shyware community ledger

The repository is a family of ledgers built on one idea: what a participant
submits (List 1) and that the participant took part (List 2) are stored in two
maps that share no key. Correctness of such a ledger is a statement about a
link that the state itself does not hold, so it is hard to assert in code and
hard to test. This project models the voting ledger (`domain/state`) with the
CometBFT application around it (`app`) and what the two lists promise together;
the generic two lists (`protocol/submission`) with shychat and shystore; the
shywire ledger with contracts and custody; and the REST gateway with its ballot
queue, receipts and relay.

## The system

| Part | State | Operations | Interaction |
|---|---|---|---|
| Voting state machine (`domain/state/*.go`) | polls, `voteDirections` (List 1), `voterRegistry` (List 2), tallies, confirms, rescissions, restores, submission counts, checkpoints, height, app hash | one `validateX`/`executeX` pair per transaction type, `Commit`, `loadState`, queries | called by the ABCI application only |
| ABCI application (`app/app.go`) | the `State` | `Info`, `CheckTx`, `FinalizeBlock`, `Commit`, `Query` | CometBFT calls it; one local client mutex |
| Transactions (`protocol/tx`, `protocol/types`) | none | stateless `Validate` | `CheckTx` runs it first |
| TwoListBase, nonces (`protocol/submission`) | generic two lists, beacon window | submit, update, withdraw, close | base of shychat and shystore |
| shychat, shystore, Fabric chaincode (`domain/state/...`) | their own two-list maps | the same life cycle for messages and objects | own ABCI hosts |
| shywire (`embodiments/shywire`) | accounts, assets, transfers, participants, contracts, custody lots, adverse actions | mint, burn, transfer, contract execution, custody, freeze/disable/restore | own ABCI application |
| shyshares, shycam, shyvoting (`embodiments/...`) | host the voting state (shyshares: and the shywire state) | routing, token balance at cast time, capture, start-up commands | own ABCI application and API |
| REST gateway (`api/server`) | the ballot queue of each poll | submit, flush, update, confirm, receipts | queries and broadcasts to CometBFT, writes the reconciliation store |
| Relay (`api/relay`) | a queue in front of the gateway | submit, shuffle and flush | HTTP to the gateway |
| Analytics, reconciliation, identity, signers, verifier, runtime, SDKs | projections, receipts, keys | event projection, upserts, verification | off-chain |

What is hard in this system: transactions are validated in `CheckTx` against
one state and executed in `FinalizeBlock` against another; `Commit` writes a
database that a crash reloads and CometBFT replays on; the counters on a poll
are kept by hand in seven handlers; and whether a poll can be closed depends on
every earlier seal and withdrawal. The gateway answers "queued" before the
ledger has seen a ballot, queries and enqueues in two steps, flushes a whole
poll in one transaction and puts it back when it does not know the outcome.
The domain maps of shychat and shystore are never written to the database.
`PROJECT.json` lists these hazards one by
one, each at its line, with the properties that cover it.

What makes each part correct:

* voting state: exactly one ballot per registered voter, equal list sizes, a
  tally that describes the lists, sealed ballots never counted again, closed
  polls changed by rescissions only, audit counters that account for every cast,
  polls that can be closed;
* application: the same through blocks, crashes and replays, no change that is
  not durable, a close that is final;
* gateway and relay: an accepted ballot is on its way until it is on the ledger,
  a poll's queue is blocked only for a known cause, receipts name the right
  ballot and exist only in the recoverable posture;
* TwoListBase, shychat, shystore: the list promise again; closures, deliveries
  and checkpoints that commit to what they say; suppressions and allow-lists
  that hold;
* shywire: supply equals the sum of balances, no overdraft, no transfer from
  frozen or disabled accounts, contract counters that match their executions,
  goods that leave a lot for one settlement only.

## Modules

| Module | Models |
|---|---|
| `VotingState` | `domain/state`: one `Validate...` operator and one `Execute...` action per transaction type, dispatch, clock |
| `BallotBox` | the abstract promise: one box, at most one paper per voter, counts of the papers |
| `VotingBallotBox` | the refinement mapping from the two lists to the box |
| `VotingApp` | `app/app.go` with `State.Commit`, `computeAppHash` and `loadState`: mempool, blocks, commits, crash, replay |
| `TwoListBase` | `protocol/submission/base.go`: lists, period, closure, checkpoints, validators, commit and reload |
| `ShyChat`, `ShyStore` | `domain/state/shychat`, `domain/state/shystore` on top of it |
| `DomainApp` | both under an ABCI host: mempool, blocks, validator updates, restart |
| `Gateway` | `api/server/router.go`, `api/relay/server.go` and the receipt store, with the part of `domain/state` that answers them |
| `WireLedger` | `embodiments/shywire/state`: supply, accounts, transfers, contracts, adverse actions, enrolment, validators |
| `WireCustody` | `custody.go`: operators, goods, policies, lots, redemption, settlement, demurrage |
| `WireApp` | `embodiments/shywire/app/app.go` with `State.Commit` and `loadState`: blocks, restart, replay |
| `VotingStateProofs`, `VotingCountProofs` | theorems about `VotingState`: types and the link between the lists; sizes, counters, tally and the refinement of `BallotBox` |
| `VotingAppProofs`, `DomainProofs`, `GatewayProofs` | theorems about `VotingApp`, `DomainApp` and `Gateway` |
| `WireProofs`, `WireLedgerProofs`, `WireCustodyProofs` | theorems about `WireApp`: types and durability; sends, balances, contracts, lists and supply; lots and settlements |
| `MCVoting`, `MCVotingApp`, `MCDomain`, `MCGateway`, `MCWire` | small instances for TLC |

### VotingState

The variables are the maps of `State`, for one poll: every handler reads and
writes only keys that begin with its transaction's poll ID. `Owner` is a
constant, not state: it tells which voter's device drew the nonce of a ballot
ID. No Execute action stores it; the handlers reach both lists because a
transaction carries the ballot ID and the attestation from which the identity
is derived.

A vote record keeps what the handlers tell apart: the choices, whether it is in
the sealed partition, and whether it carries the voter's public key (a
direction change does not store one, so such a ballot cannot be sealed).
`Superseded` is never set and the partition `public` never written. Rescission
and restore records are kept as sets of their keys.

`ValidateTx` is the guard of `CheckTx`; `Apply` validates a transaction and
executes it on the same state, as in a chain whose blocks carry one transaction.
`ValidateBallotCast` opens a pending poll as a side effect; `Opened` is the poll
it leaves. `ExecuteBatchFlush` writes both lists and the counters before the
rolling attestation may fail, as the code does. `executeBallotCast` is not
modelled: `ValidateTx` and `ExecuteTx` reject a bare `BallotCast`, and flushes
write the lists themselves.

Signatures, proofs and beacons of the inputs are valid, and the authorities sign
for the identity that owns the ballot. `Granted` are the voters for whom they may
sign a restore. What devices put into an update is not restricted further than
the code restricts it: the old ballot may be anybody's (`validateBallotUpdate`
asks that it exists and that the submitter is registered, nothing else), and the
nonce may be one the device has used before, for the same ballot or another one.
`Named` bounds which ballots a device names. Nonces of different voters do not
collide: `Owner` is a function, so a ballot ID copied from another device, which
`validateBallotCast` would accept, is not an input.

Three history variables record what the properties have to except: `crossed`,
the voters of updates that named another voter's ballot; `rewritten`, whether a
ballot landed on the ID of another one in List 1; and `withdrawals`, their
number. No handler reads them.

`BallotBox` has the same notion in the abstract. A voter may become spoilt
(`Spoil`): the box promises nothing about this voter's papers, nor about the
counts from then on, and everything it did about the others. The mapping spoils
the voters of restore grants and of crossed updates.

### VotingApp

`CheckTx` adds to the mempool; a mempool element stands for any number of
copies that differ in bytes, so a block may carry it twice. `DecideBlock` takes
any sequence of mempool transactions. `DeliverTx` is one turn of the loop in
`FinalizeBlock`: it executes without validating. `EndBlock` is the call of
`State.Commit`, which does nothing unless something is dirty, and otherwise
sets (never deletes) keys, hashes and advances the height. `SaveBlock` is
CometBFT recording the outcome and re-checking the mempool. `Restart` may
happen between any two of these: `loadState` reads the database, and CometBFT
replays every block above the height that `Info` reports, comparing hashes
(`HandshakeRefuses`). A nil dereference in `executeAuthorityRescind` and a
refused handshake take the node down for good (`panicked`).

CometBFT is external: deciding, saving and the handshake are modelled from how
version 0.38 drives the application. Heights and wall-clock fields of records
are left out of the modelled hash.

### TwoListBase, ShyChat, ShyStore, DomainApp

`TwoListBase` is one period of the embedded struct. Unlike the voting handlers
its operations repeat their guards when they execute, so each is an action with
a disjunct for the refusal. `db` is what LevelDB holds; `Persisted` sets keys
and deletes none, so `LoadState` brings back what was withdrawn, replaced or
removed. Checkpoints, the submission counter and the beacon window start empty
after a reload.

`ShyChat` and `ShyStore` add one `Validate...` and one `Execute...` per
transaction type. Their own maps are not persisted anywhere, which
`ChatRestart` and `StoreRestart` say. A withdrawal and a reveal derive the
identity as `H(key, period)` without asking the verifier; `PlainIdentity` says
whether the verifier uses that formula (with another one they find nobody and
are always refused).

The repository embeds these two state machines in no host of its own.
`DomainApp` runs them as `app/app.go` runs the voting state: validated in
`CheckTx`, executed without validation, committed at the end of the block.
CometBFT's rules for validator updates are external: a key twice, an unknown
validator removed or an empty set halt the chain. History variables
(`resurrected`, `late`, `forgotten`, ...) record the events after which a
property is known not to hold, so that it can be asked of everyone else.

### Gateway

`submitBallot` is two steps, because other requests run between the query for
a registered voter (`Submit`) and the enqueue under the mutex (`Enqueue`). A
flush is `Dequeue`, `Broadcast` and one of `FlushDone`, `FlushFailed`,
`FlushTimedOut` (the client gives up, the transaction may still commit),
`FlushMisread` (CometBFT gives up first: its JSON-RPC error has no result codes,
and `txFailed` takes it for success) and `FlushUnanswered` (the same, since the
re-check removed the batch and nothing will ever answer). A reconciled update
reads the receipt (`ReconciledLookup`) and rewrites it after the broadcast,
whatever the ledger answered (`ReconciledUpdate`), unless the broadcast itself
failed (`ReconciledUnsent`). The relay posts one ballot at a time, restores from
the failing one on, and takes a reply that is no JSON for success. `GatewayCrash`
and `RelayCrash` lose what each process has in memory.

The voting ledger is part of the module as far as it answers the gateway: both
lists, the checks of a batch (`ValidWith`: poll not ended or closed, every ballot
fit, no voter registered without a grant, none twice), blocks that execute
several batches without checking them again and may report a failed rolling
attestation after the writes (`CommitBlock`), updates, rescissions and restores.
A ballot is unfit when its beacon has left the window (`BeaconExpires`) or when
it has a fault only the ledger looks for (`Bad`: signature, attestation, choices).
Updates and rescissions are checked and executed in one step; what happens to
them inside a block is the subject of `VotingApp`. CometBFT is external: the
mempool is checked again after every block, and a transaction seen before is
answered from the cache.

The gateway names a voter by a formula of its own (`deriveBallotIdentity`); the
ledger by that of its verifier. `Key` and `Owner` are these two names. They agree
for verifiers that hash key and poll, and differ for wallet addresses, where the
registration query and the queue's duplicate check look for somebody the ledger
does not know. Ballot IDs are kept as the data they hash: the gateway leaves the
beacon out and its update path the payload too, so only ballots that ask for the
nonce-and-payload derivation have receipts that can match the ledger
(`ReceiptsMatchLedger` is about those).

The history variables name the causes the properties list. `doubled`: voters
accepted again while a ballot of theirs was on its way, on the ledger, or queued
under another key. `putBack`: voters whose batch was put back although the
ledger had it or could still take it. `dropped`, `relayLost`: what a crash or a
misread reply lost. `misread`: ballots reported flushed that were not on the
ledger. `removed`, `renamed`: what updates did to ballots and receipts.

### WireLedger, WireCustody, WireApp

Accounts are keyed by asset and commitment, and a nonce stands for the transfer
ID it hashes to. Every map `Commit` writes is a variable; records keep the
fields some handler reads. `allocateCustodyInventory` is given by how much each
lot gives (`Consumed`), in the order of `inventoryLots`. Sums of balances and of
stock are counted in units (`Total`): a sum is then the size of a set, which can
be reasoned about for any number of accounts and lots. A registered account is
kept under the asset ID `"_"` (`transfers.go:153`), so `SupplyAccounted` is not
asked of an asset of that name. `WireApp` splits traffic
into profiles, one per behaviour (setting up an empty ledger; transfers and
adverse actions; contracts; custody), since the four touch disjoint maps apart
from the accounts; the last three start from a funded ledger. `Commit`
advances the height only for blocks that changed something, so `stored` keeps
the blocks CometBFT numbers above that height, and `Restart` has it replay
them. A replay executes without validating, so a repeated `executeRegisterAsset`
(`supply.go:25`) sets the supply of an asset back to nothing although accounts
hold it: `rebased` records these assets. A replay of two blocks also makes a
settled request pending for the time between them, so `SettledOnce` is not asked
in the middle of a replay. `AuthoritiesOn` is a constant of the embedding: `app.go` itself configures
no adverse-action authorities. `loadState` (`state.go:749`) names a field
`TransferID` that `ContractExecutionRecord` does not have; the model takes the
record's own ID there.

## Runs

| Run | Shows |
|---|---|
| `voting` | all sequences of validated transactions: `TypeOK`, `OneBallotPerVoter`, `CountMatch`, `ConfirmsRegistered`, `CountersAccount`, `TallyFaithful`, `RollingAccounting`, `ClosedOnlyRescinds`, `SealedStaysSealed`, `ImplementsBallotBox`, and under fairness `PollCloses`: a poll with no ballot left in the sealed partition closes |
| `app` | blocks, crash and replay: `AppTypeOK`, `UndisturbedLinked`, `Durable`, `ClosedIffTallied`, `ClosedForGood` |
| `counters` | violation of `SomeCounterRight`, in a state after the withdrawal of a confirmed and sealed ballot: `SealedInvariant` (`poll.go:49`), `ReattestationCapped` (`poll.go:57`) and `CastCountExact` (`poll.go:66`) are all false |
| `lists` | violation of `SomeListClaimRight`: a restore grant allows any number of casts (`CountMatchThroughRestore`, `authority_rescind.go:288`), and a registered voter's update may name another voter's ballot (`RegisteredKeepBallots`, `state_test.go:657`) |
| `seal` | violation of `SomeSealClaimRight`, both halves of `reseal.go:92`: a sealed ballot changed under its own nonce is counted again (`SealedForGood`), and the close counts sealed voters in List 2 but not their ballots in List 1 (`EveryPollCloses`) |
| `replay` | violation of `SomeBlockClaimRight`: two transactions of one voter in one block (`CountMatchEveryBlock`, `doc.go:5`), and a creation replayed after the close that leaves the poll pending with its tally (`TallyOfClosedPoll`, `state.go:367`, `poll.go:141`) |
| `restart` | violation of `ListsSurviveRestart` (`ballots.go:302`): deleted entries are still in LevelDB |
| `domain` | shychat and shystore: `PairedUnlessResurrected`, `ClosureCommitsLists`, `CheckpointCadence`, `ValidatorsMirrored`, `DeliveryRepeatsClosure`, `SuppressedNotRevealed`, `AllowListHolds`, `RestartKeepsCommitted`, `DomainTypeOK` |
| `gateway` | queue, flush, relay, updates and receipts with one fault and one event on the ledger: `GatewayTypeOK`, `AcceptedNotLost`, `PoisonHasCause`, `WriteOnlyNoReceipt`, `ReceiptsMatchLedger` |
| `gateway_live` | under fairness `QueuedReachesLedger` |
| `wire` | shywire: `SupplyAccounted`, `NoOverdraft`, `ListsPaired`, `HeldDoNotSend`, `ContractCounts`, `Durable`, `LotAccounting`, `SettledOnce`, `WireTypeOK` |
| `wire_disabled` | violation of `DisabledBlocksAll` (`tx.go:218`): a contract execution debits a disabled account |

Claims of the repository about one matter are asked for together: a violation run
checks their disjunction, so its counterexample is one state, or one behaviour,
in which every one of them is false.

The passing properties are stated around the disagreements the violation runs
show, never around more. `OneBallotPerVoter` speaks of voters without a restore
grant whom no update crossed with another voter; `CountMatch`, `TallyFaithful`
and `PollCloses` of lists in which no ballot was written over another one; and
`SealedStaysSealed` allows what `seal` shows and nothing else.
`UndisturbedLinked` speaks of voters that were not touched twice in one block,
left behind in the database, replayed, granted a restore or crossed (the history
variables `stale`, `disturbed` and `crossed` record exactly these events), and
`ClosedIffTallied` and `ClosedForGood` of polls whose creation was not executed
again over a tally (`recreated`). `ClosedOnlyRescinds` is about transactions
validated on the state they execute on; what a block carries behind a close is
`ClosedIffTallied`'s. `HeldDoNotSend` is about transfers and `DisabledBlocksAll`
about the debit of contract executions. In the same way `domain` excepts
participants whose deleted entries a restart brought back and transactions
that ran after a close in its own block; the gateway runs except ballots lost in
a crash or a misread reply, batches with a cause to be refused, and receipts
whose ballot was taken off the ledger, misread or renamed; `wire` excepts accounts, nullifiers, lots and requests that two
transactions of one block contended for, nonces that clients shared, assets
registered again by a replay, and replays where the property says so. Each of
these exceptions occurs in the instance, but for the asset called `"_"`.

**Bounds.** `voting` has two voters, the first with a second nonce (`Renewing`),
updates that may name any ballot (`Named`), batches of up to two and three casts:
enough for a change to a second ballot ID or to the ID it has, an update across
the voters, a withdrawal and a re-cast, a batch that straddles the rolling
threshold of two, and rescissions of either ballot before and after the close.
Two choice lists tell plurality, approval and ranked counting apart. The clock
has three values: before, at and after the end. There is no symmetry, because
`PollCloses` is checked in the same run. `app` has two voters; the
first has a second nonce and may be restored, the second may name the first
ballot of either; four blocks of up to two transactions and one crash: create,
cast, act and close, with a crash anywhere. Its attestation mode is `none`, since
rolling attestation never changes the lists. `replay` has one voter with two nonces and
four blocks of up to three transactions, some of them empty: Commit does not
advance the height for those, which is what makes CometBFT replay. `domain` has two participants, the first
with a second submission to change to, two validators (both in the genesis set
and symmetric), two categories, two action IDs, four blocks of up to two
transactions and a restart: fill the beacon window, write, act, and act again.
Its traffic is split in three (messages, secrets, validators with first
submissions), since registrations touch nothing else. The gateway runs have two
voters, a second ballot for one of them and two concurrent flushes. `gateway` has
three requests, one fault and one ledger event (`MaxEvents`): a double submission
around a flush, or a submission and two updates; the other voter's ballot may come
through the relay (`ViaRelay`). `gateway_live` has two requests and no relay,
since liveness is the costly question, and two events, so that a rescinded voter
may be restored. One relay flush runs at a time. Verifiers
under which the gateway's names are not the ledger's (`Key` different from
`Owner`) and ballots with a fault only the ledger sees (`Bad`) are left to the
theorems, which hold for every `Key` and every `Bad`.
`wire` has one asset, two accounts, two nonces and nullifiers, two lots and two
redemptions, blocks of up to two transactions, two empty blocks and one restart;
up to five transactions per behaviour, four for transfers and nine for custody,
which needs six to reach its first settlement. Deadlock checking is off: bounded
models stop when time and casts are used up.

**Fairness.** `FairSpec` assumes that time passes and that the operator keeps
submitting `PollClose` until a close is accepted. The code itself never closes
a poll, so the second is an assumption on the environment; it is the weakest
under which closing can be asked about. No fairness is put on any voter.
`GatewayFairSpec` assumes that a flush handler that started runs on (Go
schedules it), that CometBFT puts waiting batches into blocks and answers those
it no longer has, and that somebody keeps asking for flushes: the gateway has no
timer, operators and the relay do it. Nothing is assumed of submissions, updates,
the relay, ledger events or faults.

## Proofs

Every safety property a passing run checks is a theorem, for every value of the
constants. The bounds of the runs (voters,
blocks, block sizes, restarts, faults) are constants like the others, so the
theorems hold for any number of each. The assumptions are the named ASSUMEs of
the component modules: finite voters, ballots, participants and submissions; an
owner for every ballot; bounds that are natural numbers; a positive rolling
threshold (`BoundAssumption`, `BaseConstants`); finite commitments, lots and
settlements (`WireConstants`, `CustodyConstants`); inputs drawn from the
transaction sets (`WireAppConstants`). The parts that speak of `None` say only that it is a value of its own.

**Voting state** (`VotingStateProofs`, `VotingCountProofs`).

* `TypeCorrect`: `TypeOK` is inductive by itself. Each `Execute` action has a
  lemma that needs no validation, so `ExecuteTypeOK` also covers the way
  `FinalizeBlock` calls them. The interesting part is that the conditions in
  `executeAuthorityRescind` keep the counters from going below zero.
* `OneBallot`: the inductive invariant is `TypeOK /\ OneBallotPerVoter`. An
  update that names another voter's ballot takes these two voters out of the
  claim; every other handler touches one voter's entries in both lists.
* `CountsAlwaysMatch` holds through updates across voters, where the link is
  gone, so it does not follow from `OneBallot`. What is inductive is that each
  handler adds or removes as many entries of one list as of the other; that it
  removes what it names is what validation is for, and that it adds what was not
  there is what `rewritten` records.
* `ConfirmsFollow`, `SealsHold`, `ClosedPolls`: the handlers that remove
  registrations remove confirmations; a sealed key cannot be written, short of a
  change under its own nonce, because its owner is registered and has no other
  ballot; on a closed poll only a rescission both passes validation and touches
  the lists.
* `CountersAlwaysAccount`, `RollingAccounted`, `TallyStaysFaithful` rest on
  `PollInv`: nothing exists before the poll does, a tally exists exactly when the
  poll is closed, plurality ballots carry one choice, and a poll with lists of
  one size closes only with nothing sealed. The last part is why a rescission after
  the close can adjust the tally in place and still agree with a fresh count.
* `ListsImplementBox`, for every `Granted` and every `Named`: each step of the two
  lists is a step of `BallotBox` or a stutter. The mapping puts the one ballot of
  a voter who is not spoilt in the box. `RewrittenInv` says that a ballot is
  written over another one only when somebody is spoilt, and `PublishedInv`
  carries the published counts along.

**Application** (`VotingAppProofs`). `AppTypes` has the types of memory,
database and stored blocks together (`AppTypeInv`), since a crash makes each the
other. `DurableBetweenBlocks` needs `SyncInv`: memory differs from the database
only while dirty, and dirty only inside a block. `ClosedWithTally` and
`ClosesAreFinal` add `ClosedInv`, the same fact about poll and tally in memory
and on disk. `UndisturbedStayLinked` has the longest argument: `LinkInv` says,
for voters that were neither disturbed, granted a restore nor crossed, that memory and
database are linked, that the mempool applies to memory, and that the rest of
the current block applies both to memory, as far as the block has not touched
the voter, and to the database, should the node crash now.

**shychat, shystore** (`DomainProofs`). `PairedAlways` needs `ListsSaved` (what
memory lists is in the database between blocks), because a restart swaps one for
the other; `RestartKeeps` and `ClosureCommits` add `PeriodInv` (period and
closure agree in both) and `ClosureInv` (once a close is committed nothing that
writes the lists is left in the mempool). `Cadence` and `DeliveryRepeats` are
inductive with the types. `Mirrored` uses `ValidatorInv`: a key without a pending
update agrees with CometBFT, one with a single pending update will.
`SuppressionHolds` and `AllowList` say of the mempool what its re-check
establishes (`SuppressInv`, `AllowInv`).

**Gateway** (`GatewayProofs`). `AcceptedSafe`: a batch leaves its handler only
for the queue, the ledger or `dropped` (`LiveInv`, with `CastInv`: what is on
List 1 was put there); `RelayInv` says the same of the relay. `PoisonExplained`:
a voter who was not accepted twice and whose batch was not put back by mistake is
in one place only, the queue, one handler with its batch in the mempool, or
List 2 (`PlaceInv` of one voter, `ApartInv` of all), so a batch of such voters is
refused only for the poll's end or a ballot's own fault. Blocks that execute
several batches without a check do not disturb it, for two batches with a voter
in common are two places. `WriteOnlyKept`: the posture travels with the item
through every restore (`MarkInv`). `ReceiptsTrue`: what reached the ledger is
there or was taken off by an update or a rescission (`ListedInv`), and a finished
handler that was not misread had its batch there (`ReceiptInv`).

**shywire** (`WireProofs`, `WireLedgerProofs`, `WireCustodyProofs`). Execution does not validate, so
`WireTypes` needs to know that what a waiting or decided transaction refers to is
in the database (`Grounded`) and that nothing registered is removed.
`DurableNode`: memory is the database outside blocks that executed something,
and only empty blocks leave the height behind (`DirtyInv`).
`HeldAccountsDoNotSend` adds `FreshInv`: the mempool, and short of a replay the
block being executed, were checked against the database. `OverdraftExplained`
bounds how far memory may move from there: below the database on claimed
accounts only, below zero on contended ones only (`BalanceInv`).
`ExecutionsCounted` counts executions in memory and database (`CountInv`).
`ListsStayPaired` holds through replays as well: `PairInv` follows each stored
transaction's nullifier, which is free or its own in the database and shared
with no other block, so executing it again changes nothing.

`SupplyIsAccounted` keeps the books of memory and of the database separately
(`SupplyInv`), since a crash swaps them. The part that makes it inductive says
that every debit still to come, and every request for goods, is of an asset of
which something was minted. An asset of which nothing was minted therefore has
nothing burned, held or lost, and its registration can be executed again without
harm. How a sum changes with one summand is not proved by
induction: `Total` is the size of a set of units, and the cardinality theorems
of the library say what adding or removing units does to it.

`LotsAreAccounted` rests on two facts about `allocateCustodyInventory`: lots
taken in order give exactly the quantity asked for if the pool holds it
(`Waterfill`, `AllocationsTotal`), and none gives more than it has. A settlement
is validated against the database and executed against memory. `StockGrows` says that a pool no settlement of the block has claimed holds at
least what validation saw, since intakes only add; `LotInv` carries this through
blocks, together with what each settlement stored was given from each lot.

`RequestsSettledOnce` follows every stored settlement's ID and request through
replays (`SettleInv`). After a restart a request may be written pending again
although its settlement is in the database. `Ordered` says that the block with the
request comes before the block with the settlement, so a request that is pending
for that reason has its settlement still to come, and at the end of the replay
every one is settled again by the settlement it had.

Attempts to prove them corrected three statements that held within the bounds
used before. A creation replayed over a tally reopens a poll, so
`ClosedIffTallied` and `ClosedForGood` now except `recreated`, and the run
`replay` shows the case. A replayed asset registration resets the supply
(`rebased`), and a replay of two blocks passes through states in which a settled
request is pending, which `SupplyAccounted` and `SettledOnce` now except; the
first also excepts an asset that shares its accounts with registrations. In the
other direction `ReceiptsMatchLedger` turned out to need fewer exceptions than
it had: crashes and double casts do not break it.

Only model-checked:

* `PollCloses` and `QueuedReachesLedger`: liveness is out of the prover's reach.
* The violation runs, each of which is a counterexample.

## Plan

The components named above are modelled and their safety properties proved.
What remains worth doing:

1. Two replicas of a node, for the determinism of the app hash, which covers
   wall-clock times and a poll status that `CheckTx` changes.
2. shyshares: one block executes on two state machines with two databases that
   are committed one after the other.


## Not modelled

Inputs are narrower than the code in four places. Ballot IDs of different voters
never collide (`VotingState`, above). In shychat and shystore updates, withdrawals
and rotations name a submission of their own participant and a new ID
(`MessageUpdateTxs`, `MessageWithdrawTxs`, `SecretRotateTxs`), although
`shychat/state.go:357` checks existence and registration only; the properties of
run `domain` are about such devices. `DomainApp.Restart` reloads the database and
does not replay blocks, although `TwoListBase.Commit` lags behind in height as
the voting state does. A rolling checkpoint of TwoListBase that fails after the
counter was reset (`base.go:272`) is modelled, but no property asks for its retry.

Cryptographic checks and vendor calls (identity, attestation, signers, nonce
entropy) are verdicts in the inputs; JSON encodings, logging, telemetry, queries
and event attributes carry no state. The verifier tool, SDKs, console,
deployment scripts and SQL migrations hold no protocol state. The analytics
service projects chain events for dashboards and nothing depends on it. The
shywire REST API passes requests on. The Fabric chaincode keeps the same
promise on Fabric's read-write sets, whose conflict checks are not part of the
repository. shyshares composes the voting and the shywire state machines, whose
product is too large for the bounds used here; each is modelled on its own.
`PROJECT.json` lists every component with its status.

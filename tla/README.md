# A TLA+ model of the Elrond - Ethereum bridge

This directory holds TLA+ specifications of the relayer in this repository, the
TLC runs that model-check them, and proofs that TLAPS checks. All paths below
are relative to the repository.

## 1. The system

A set of relayers moves tokens between Elrond and Ethereum. On each chain there
are contracts: a *safe* that takes users' deposits and groups them into batches,
and a *multisig* that acts when a quorum of the relayers agrees. Every relayer
runs two state machines, one for each direction, over two bridge executors, and
talks to the other relayers through a peer-to-peer network.

| Part | State | Operations | Talks to |
|---|---|---|---|
| Elrond -> Ethereum steps (`bridges/ethElrond/steps/elrondToEth`) | the current step | `Execute` of ten steps | executor |
| Ethereum -> Elrond steps (`.../steps/ethToElrond`) | the current step | `Execute` of five steps | executor |
| bridge executor (`bridgeExecutor.go`) | stored batch, action identifier, message hash, three retry counters | fetch, store, verify, propose, sign, perform, wait | both clients, signatures holder, topology |
| signatures holder (`signaturesHolder.go`) | signed messages by unique ID, Ethereum signatures | `ProcessNewMessage`, `Signatures`, `AllStoredSignatures`, `ClearStoredSignatures` | called by the network and by the steps |
| broadcaster (`p2p/`) | message counter, last nonce per public key | `BroadcastSignature`, `BroadcastJoinTopic`, `ProcessReceivedMessage` | the peers, the signatures holder |
| Elrond client, data getter, transaction handler (`clients/elrond`) | nonce and retries of the availability check; the nonces handed out and the transactions to send again | contract queries, four transactions | Elrond contracts |
| Ethereum client (`clients/ethereum`) | the same | contract queries, `ExecuteTransfer`, hashing | Ethereum contracts, gas station, broadcaster |
| topology handler | none | `MyTurnAsLeader` | Elrond role provider, clock |
| state machine driver (`stateMachine`) | current step | `Execute`, called by a polling handler | steps |
| gas station (`clients/gasManagement`) | latest price, retries | polling loop, `GetCurrentGasPrice` | a price service, Ethereum client |
| role providers (`clients/roleProviders`) | whitelists | polled `Execute`, `SortedPublicKeys`, `VerifyEthSignature` | contracts, topology, broadcaster |
| status handlers, metrics holder (`status`) | metrics, and their copy in a storer; the registered handlers | set, add, load, persist, read | everybody who reports, the REST interface |
| REST interface (`api`, `facade`) | its routes | `/status`, `/status/list` | metrics holder |
| batch validator (`clients/batchValidator`) | none | `ValidateBatch` | a remote service, the first steps |
| ERC20 contracts holder (`clients/ethereum`) | a wrapper for each token | `BalanceOf` | Ethereum client |
| factory, web server, programs | lists of what to poll and to close, `cancelFunc` | create, `Start`, `Close` | everything |

What is hard here:

* Nothing is atomic across the chains. A relayer asks several questions one
  after another and acts on answers that may be old; a transaction is sent now
  and included, refused or lost later.
* The pending batch on Elrond may grow after a relayer has stored it, and a
  relayer can be left behind in a batch that the others have finished.
* Every step can fail and sends the relayer back to the first step; counters
  make relayers give up at different times; a restart forgets everything.
* Several relayers may believe that they are leader, or none: the leader depends
  on a list that is polled and on a clock that nothing synchronises (`ntpTimer`
  has a `Start` that the program never calls).
* Inside a process, goroutines share clients, whitelists, the gas price and the
  metrics, and a question that was answered a moment ago may be answered
  differently now.
* The network reorders, repeats and loses messages, and the nonce filter turns
  reordering into loss.

`PROJECT.json` lists these hazards one by one, at their lines, with the
properties that would notice them going wrong.

What makes the parts correct:

* Elrond -> Ethereum: a deposit is reported on Elrond exactly as Ethereum
  treated it (else its sender loses it or is paid twice), no batch is skipped or
  settled twice, every transfer is signed by a quorum for exactly its deposits,
  and a pending batch is settled at last.
* Ethereum -> Elrond: deposits are paid out once, in order, without gaps, and
  at last.
* Broadcaster: no message is handled twice, only relayers' messages are handled,
  and a relayer's signature reaches the others.
* Transaction handler: every nonce is used by exactly one transaction.
* REST interface: an answer is the state of one moment.
* Ethereum client: what it sends can be paid for, at a price that the
  configuration allows; both clients: the reported status is the chain's.
* Role providers and topology: nobody uses half a list; relayers with the same
  list in the same interval agree on the leader.
* Factory: nothing acts before the relayer has joined; one failing `Close` does not
  spare the other components.

## 2. Modules

| Module | Models |
|---|---|
| `Batch` | `clients/batch.go`: a batch as its identifier, its number of deposits and its statuses; `ResolveNewDeposits` |
| `ElrondToEth` | the ten steps run by a set of relayers, executor, signatures holder, the contracts and the signatures under way |
| `Settlement` | the abstract promise of that direction: deposit, transfer, settle |
| `EthToElrond` | the five steps run by a set of relayers, executor, contracts |
| `Payout` | the abstract promise of that direction: deposit, close a batch, pay out |
| `Broadcaster` | the broadcaster, its nonce filter, and the signatures holder as its client |
| `Transfer` | `ExecuteTransfer` of one relayer's Ethereum client question by question, with its gas station and the chain |
| `Availability` | `CheckClientAvailability` of either client, shared by the state machines, with the status handler and its storer |
| `Monitoring` | `Availability` composed with the start of the process, the metrics holder and the requests of the REST interface |
| `Leader` | every relayer's Elrond role provider and topology handler |
| `EthereumRoles` | one relayer's Ethereum role provider |
| `Intake` | `EthereumRoles` composed with the Elrond role provider, the nonce filter and the goroutines of one relayer that handle received messages |
| `Lifecycle` | both programs from `main` to their end: creation, start and close of the components |
| `ElrondTransactions` | the transaction handler, used by both state machines of a relayer, with the nonce handler below it and the Elrond network |
| `Process` | `Lifecycle` composed with `ElrondTransactions` |
| `MC*` | the modules of the TLC runs, with their symmetry sets and values; the `.cfg` files give the constants their values |
| `*_proofs` | theorems and proofs |

### ElrondToEth

A relayer's variables are its state machine (`step`), its executor (`batch`,
`actionID`, `msgHash`, `retries`) and its signatures holder (`sigs`); `fetched`
is the local variable of step 6 that lives across a wait. One action is one
stretch of a step's `Execute` between two points where the world can move and
it matters: `CheckTransferPerformed` is the second half of step 1 and
`WaitFinalStatuses` the second half of step 6. What a leader does is an action
of its own (`...AsLeader`): any relayer may be leader at any time, because
`MyTurnAsLeader` depends on the list that a relayer polled last and on its own
clock; module `Leader` says when they agree.

Deposits are abstracted to their number: a batch is only appended to, so two
views of a batch are prefixes of one another and the hash of a view is its
identifier and size. The identifier of a set-status action is the batch and the
statuses, which is how the contract is asked for it (`WasProposedSetStatus`).

The contracts are the environment, taken from the calls in `clients/` and from
`integrationTests/mock`. Assumed of them: the Elrond multisig accepts a proposal
for the current batch with one status per deposit only; the batch takes no more
deposits once a proposal is accepted; an action is executed once, by a quorum of
signatures, and then the next batch starts; Ethereum executes a batch once, when
a quorum signed the hash of exactly what is transferred; its statuses are only
returned when they are final. Reorganisations of Ethereum before that point are
not modelled.

`broadcast` holds the signatures ever sent, and `Deliver` may bring each of them
to each relayer at any time, again and again, or never. For safety this covers
everything the broadcaster does. For liveness it says that a signature that is
sent again in every round arrives once; module `Broadcaster` shows what that
takes.

The batch validator has no state: `ValidateBatch` lets the first step go on, or
stay where it is with the batch stored already.

A failed call, a refused batch, a lost transaction and a restart are *faults*; a behaviour has at
most `MaxFaults`. The steps' early returns that need no failure (no batch, not
proposed yet, retries used up) are not faults and are always possible.

### EthToElrond

Here no signatures travel between relayers. Step 1 asks for the last executed
batch, fetches the next one, and compares
its nonces with the last executed deposit; these are the actions `GetPending`,
`FetchBatch` and `VerifyNonces`, between which the chains move. `GetBatch` is the
client's: it asks for the batch and then for its deposits and gives up when the
numbers differ (`BatchNotFetched`). A batch only grows, so when they agree no deposit
was made in between and the two answers are one snapshot, which is why they are one
action. `HasBatch` is what the executor checks of the answer. The repository
does not say whether the contract can return a batch that still grows, so both
contracts are modelled (`SettledOnly`, which only `Visible`, the contract's side of
the query, depends on). The multisig accepts actions for the
batch after the last executed one, compares no nonces, and may forget the other
actions of an executed batch.

### Broadcaster

`net` is the set of packets under way, `nonces` the filter of
`noncesOfPublicKeys.go`, `accepted` the messages whose goroutine has passed the
filter and the antiflood checks and not yet run the topic's handler,
`signedMessages` the store of the signatures holder. `latest` and `notified` are
history. The relayers are honest; a message from anyone else is refused before
it changes anything. So are the relayers' messages at first: both role providers
start with an empty list, and their polling handlers start after the topics are
registered (`factory/ethElrondBridgeComponents.go:640-647`). `whitelists` says which
lists a relayer has (`fetchWhitelist`); without Elrond's it refuses every message
(`IsWhitelisted`), without Ethereum's it records the nonce of a signature and then
refuses it (`VerifyEthSignature`). A signature is promised to who had both lists when
it was sent (`Ready`, its `audience`). `MaxEvents` bounds messages and faults
together. The broadcasts of the relayers in `Orderly` arrive in order,
everything else in any order.

### Settlement

Three actions: a deposit joins the current batch, the current batch (as large
as some quorum knew it) is transferred with an outcome per deposit, and it is
settled with those outcomes and rejections for the deposits that came later.
`ElrondToEth!KeepsPromise` states the refinement: the current batch is
`pending`, the transfers are `ethStatuses`, the settled batches are `performed`.

### Payout

Deposits are numbered and gather in batches; one action pays out the next
deposits that were not paid yet, any number of them, as the next batch. When
batches that may still grow are hidden (`SettledOnly`), what is paid is exactly the
closed batch of that number. `EthToElrond!PaysOut` states the refinement: what is
paid is `credited`, the batches paid out are counted by `lastBatch`.

### Transfer

`call` is the one call of `ExecuteTransfer` under way: the question it asks next
and its local variables. Between two questions the station fetches a price, the
contract is paused, the safe is filled, another relayer transfers the batch, or
an earlier transaction of the relayer is included. Any question may fail, which
is the disjunct `Fail`. Hash and signatures are in `ElrondToEth`; here the data
are amounts, fees and nonces. `Needed` says what a transfer costs the safe by
counting coins, independently of `getCumulatedTransfers`, which adds amounts up
deposit by deposit, in a function `existing` like the map of the code.
`contracts` is the holder's cache: the wrapper that `BalanceOf` has created for a
token is asked from then on.
The node is external: it takes a transaction unless its nonce is used up or it
replaces one without paying more, and includes it at its nonce.

### Availability

A check takes the client's lock and then makes its request and sets three
metrics one by one, each under the lock of the status handler, which persists
all metrics at every change. A `Put` may fail unnoticed, and a restart loads what
is stored, or nothing if it cannot be read. The storer of the configuration
collects what it is given for two seconds and is never closed; a `Put` that it has
not written out when the process ends counts as one that failed. Other goroutines
count their requests in between, and `getNonce` of a transfer asks for the block
number too, and sets the metric of the last queried block, without the client's lock:
it has three actions of its own (`clients/ethereum/client.go:494`). `Chain` selects the client; the two checks have the same
code but for the metrics that the Ethereum wrapper keeps. Counters are cut off
above the limit they are compared with, and the count of requests at its bound.

### Monitoring

The status handlers are registered one by one, then the web server opens its
routes, then the checks of `Availability` begin. A request for the metrics of the
client's handler copies the numbers (`statusMetrics`) and then the texts (`Respond`),
both under the handler's read lock, as `GetAllMetrics` does. The guard `WriteLock` is
what keeps the state machines from setting a metric in between. The request for
the list of handlers reads names that no longer change and is not modelled.

### Leader, EthereumRoles and Intake

`Leader` has the relayers' addresses as numbers, the contract's list as a set that
may contain a malformed entry, the hash of the seeds as an arbitrary function
that is fixed at the start, and clocks that are ahead by fixed amounts. The Elrond
provider builds a new list aside and swaps it in; the Ethereum provider empties
and fills its map in place, so `EthereumRoles` has one action for each of these
steps.

`Intake` is `ProcessReceivedMessage` of one relayer. `handling` holds the message of
each goroutine and the check that it makes next, in the order of the code
(`Checks`): readable and signed, whitelisted on Elrond, a newer nonce, not flooding,
signed by a relayer of Ethereum. The lists are polled, and change, between any two
checks. A message may come from any key, again and again. One that cannot be read
puts its peers on the black list for a while. Sender and signer of a message are
the same relayer here; that the lists of the two chains differ is what the two
checks are for.

### Lifecycle, ElrondTransactions and Process

`Lifecycle` has the main goroutine's position, the lists `closableHandlers` and
`pollingHandlers` as the factory builds them, what is running, and the goroutine of
the join retries loop with its unsynchronised `cancelFunc`: the read in `Close` may
miss the write, whichever came first. A step of the start that fails ends the
process without closing anything. The price feeder is the same machine with
three components, of which it closes one.

`ElrondTransactions` has the calls of the two state machines, each at one of the
questions of `signTransaction`. The nonce handler is a library's, modelled from its
use: it hands out nonces from the account's on, keeps what it was given to send,
and sends it again until the account has passed it. The network loses
transactions and includes the one with the account's nonce. A failed query costs
nothing; a transaction that cannot be built or signed, after its nonce was
taken, leaves a gap, which `unsigned` remembers. The handler is created to refuse
duplicates (`clients/elrond/client.go:76`, third argument): `RefuseDuplicate` stores
nothing and takes the last nonce back. That nonce is not the refused transaction's
when the other state machine has got one in between, which `overlapped` remembers.

In `Process` the calls happen while the state machines run, `Resend` while the
client is not closed, and a process that ends forgets everything but what the
network has.

## 3. Runs

| Run | Instance | Checks | Shows |
|---|---|---|---|
| `growth` | 2 relayers, quorum 2, one batch of up to 2 deposits, transfers succeed or fail | `SettledTruthfully`, `TransfersWellSigned`, `IndInv`, `KeepsPromise` | a batch that grows at any point is signed, transferred and settled consistently; the inductive invariant holds |
| `batches` | 2 batches of 1 deposit, 1 fault | `TypeOK`, `NoBatchSkipped`, `ExecutorConsistent` | relayers left behind in an old batch do no harm, nor does a failure, loss or restart |
| `liveness` | 1 batch of 1 deposit, no faults, fairness | `PendingBatchSettled` | a pending batch that does not grow meanwhile is settled |
| `eth_growing` | 2 relayers, 2 batches, 3 deposits, growing batches, 1 fault | `NoDepositSkipped`, `ExecutorConsistent`, `IndInv`, `PaysOut` | deposits are paid once, in order, without gaps, even when batches are read too early; the steps implement `Payout` |
| `eth_liveness` | 2 relayers, settled batches only, 1 fault, fairness | `PaysOut`, `EveryBatchExecuted` | every batch is executed, and as a whole: the steps implement the stricter `Payout` of such a contract |
| `p2p` | 2 relayers, one of them with ordered broadcasts, 4 messages and faults, of which 1 fault | `NoReplay`, `IndInv`, `NewestMessageReachesAll`, `LatestSignatureReachesAll` | nothing is handled twice; a relayer's newest message is refused by nobody who has both lists; with ordered broadcasts join messages cost no signatures |
| `p2p_latejoin` | 2 relayers, 4 messages, ordered broadcasts | `LateJoinerBootstraps` | **violated**, see below |
| `transfer_fees` | 2 batches, 2 tokens, prices below and above the limit | `TypeOK`, `FeesCovered`, `FeesInv`, `TransfersAffordable`, `PricesAllowed` | what is sent can be paid, whatever happens between the questions |
| `monitoring` | Ethereum, 2 callers, 4 handlers, 1 restart, fairness | `StatusReflectsChain`, `RequestsCounted`, `IndInv`, `AnswerIsSnapshot`, `StalledChainReported` | the metrics of the check are truthful between checks and are read as of one moment, the count survives restarts, a chain that stands still is reported if it is checked again and again |
| `leader` | 2 relayers, a change of the list, a fault, skewed clocks, fairness | `ListsAreSnapshots`, `LeadersDisagreeForAReason`, `OneLeaderAtLast` | lists are whole; among relayers with the same list in the same interval there are never two leaders, and there is one when all on the list agree; exactly one at last |
| `intake` | 2 keys, 2 goroutines, a change of a list, a fault, fairness | `NoSpuriousRefusal`, `NoncesOfRelayersOnly`, `ClientsGetRelayersOnly`, `RemovedAtLast` | nobody is refused because the list is being replaced; the filter has relayers only; clients get each signature once, from relayers of both lists; who is removed is refused at last |
| `process_close` | both programs, gas station and REST interface on or off, 2 state machines, 3 nonces, 1 failing `Close`, 1 unsigned transaction | `ClosablesStopped`, `NoStepBeforeJoin`, `NoNonceGap` | one failure does not spare the others; joining comes first; every nonce has exactly one transaction, unless one could not be signed or a duplicate was refused while a later nonce was in use |

Why the bounds are enough. Two relayers with a quorum of two already disagree
about the size of a batch, wait for one another, and are left behind; a third
adds a relayer that the quorum does not need, which the proofs cover. Retry
limits of one make giving up possible after every wait. Two deposits make the
growth of a batch visible and two batches the passage to the next. One fault, at
any point of a behaviour, puts a restart, a loss or a failed call between any two
other steps. The exception is `liveness`: with two deposits its graph
has more than a million states and is too large for the liveness check, so relayers
that sign different sizes of a batch are met by the safety properties only (`growth`).
Otherwise nothing in the properties depends on larger numbers, and the safety
properties of the two directions are proved for all of them. Two batches and two
tokens let a transfer be overtaken by another one and let one token be short
while the other is not; amounts that the safe can pay one by one and not together
make the sum matter. Two callers suffice for a shared lock, since a third meets
the same lock. Two goroutines with the same message suffice to handle it twice, and
two nonces to send the later one first; a third lets a duplicate be refused while a
later nonce is in use.

Deadlock checking is off in the `p2p` runs, because the network may fall silent when the bound on messages
is used up. In the other runs somebody can always take a step, and deadlock is
checked.

### Fairness

The polling handler calls `Execute` for ever, so each relayer's steps are weakly
fair. In `ElrondToEth` a leader's actions are strongly fair: a relayer that comes
to a leader's step again and again is leader there at some time, since leaders
rotate by the hash of the clock's interval. In `EthToElrond` weak fairness is
enough, because a relayer stays in a leader's step. What is sent to a chain is
included at last, unless its loss is counted as a fault; Ethereum's statuses
become final; batches settle. Deposits, faults and restarts are not fair.
`PendingBatchSettled` is checked without faults, to keep the graph small enough
for the liveness check. `EveryBatchExecuted` is checked for a contract that
returns settled batches only: with growing batches two actions for the same
batch may be proposed, and a relayer in the last step, which has no limit
(`step05PerformActionID.go:16-43`), waits for ever on the one that loses.

In `Leader` and `Intake` the only fairness is that of the polling handlers, which
call the providers' `Execute` for ever. In `Monitoring` main starts the process, a
request that has begun is answered, and a check that has begun goes on, with strong
fairness: Go's `RWMutex` lets no new reader in while a writer waits, so requests that
follow one another do not keep the state machines out. Nothing is assumed of when a
check is begun: the checks are made in the first step of each state machine, and two
later steps (`step05PerformActionID`, `step10PerformSetStatus`) have no retry limit,
so both machines may stay away from it. `StalledChainReported` therefore has the premise
that checks are begun again and again. `Process` has no fairness. The chains,
the clocks, changes of the contracts' lists, messages and failures are not fair anywhere.

### Disagreements between the code and what is said of it

* `p2p_latejoin`. `integrationTests/broadcaster/broadcaster_test.go:121`
  (`...ShouldBootstrapOnLateBroadcasterWhenLateConnecting`) expects a late
  relayer to hold every signature after its join message. The run shows: r1
  signs and stores its signature, r2 starts and fetches the list of relayers, r1's
  retries loop sends another join message, and r2 receives it before the answer to
  its own. r2 has then recorded a nonce above that of r1's
  signature and refuses the signature from every peer until r1 signs again. The
  test does not see this, because no relayer repeats its join message in it.

Seen while modelling, and not the subject of a run:

* `clients/gasManagement/disabled/disabledGasStation.go:8` says that the disabled
  gas station returns `nil,nil`, which leaves the price to the node. It returns
  zero (line 10), so a transfer is sent with the price zero (`GetCurrentGasPrice`
  of `Transfer` with `Enabled = FALSE`).
* `core/constants.go:37` says that `MetricEthereumClientStatus` stores the status of
  the Ethereum client. The client writes the Elrond names
  (`clients/ethereum/client.go:424`) into its own handler, as `SetStatus` of
  `Availability` does, and nobody writes the Ethereum ones.
* "Close will close any sub-components started"
  (`factory/ethElrondBridgeComponents.go:786`). A `Close` that comes before the
  retries loop has stored `cancelFunc` (line 770) does not end it, and the gas
  station (line 322) is never added to what is closed; both are behaviours of
  `Lifecycle`.
* A duplicate that the nonce handler refuses (`clients/elrond/client.go:76`) while the
  other state machine holds a later nonce takes that later nonce back: the refused
  one is never used, and the later one may be used twice, until the handler starts
  over (`RefuseDuplicate`; the library is not in the repository).
* `getNonce` (`clients/ethereum/client.go:494`) asks for the block number without the
  client's lock, so the metric of the last queried block may go back
  (`KeepNonceBlock`).
* From `RegisterOnTopics` until the first poll of both role providers a relayer refuses
  the other relayers' messages (`factory/ethElrondBridgeComponents.go:640-647`),
  also the answers to its first join message; it depends on the retries loop
  for what it refused.
* The comment on `UniqueID` (`core/messages.go:15`) speaks of the public key and the
  nonce; the code joins the public key and the payload, so every repetition of a
  signature in a later round has the same ID.

### Mutants

For every property of a passing run `PROJECT.json` names a changed definition
(operators `M_...` next to the original) under which TLC finds the property
violated: a filter off by one, a wait that does not wait, a padding with the
wrong status, a counter that is not reset, and so on.

## 4. Proofs

TLAPS checks the following for every number of relayers, quorum, retry limit,
batch, deposit, message and fault. The only assumptions are the
`ConstantsAssumption` of the modules: relayers are finitely many, quorum and
limits are positive (`checkArgs` refuses smaller ones), bounds are naturals.

| Module | Theorems |
|---|---|
| `ElrondToEth_proofs` | `TypeCorrect`; `Invariance` (`IndInv`), and from it `StatusesAreTruthful`, `BatchesAreTransferred`, `ExecutorsAreConsistent`, the action property `OnlyCurrentBatchSettles`; `SettlementImplemented`, that the steps implement `Settlement`; `TransfersAreWellSigned` |
| `EthToElrond_proofs` | `Invariance` (`IndInv`), `TypeCorrect`, `DepositsInOrder`, `ExecutorsAreConsistent`; `PayoutImplemented`, that the steps implement `Payout` |
| `Broadcaster_proofs` | `Invariance` (`IndInv`), `TypeCorrect`, `MessagesAreNotReplayed`; `AudienceKeepsLists` (`AudienceInv`), `Deliveries` (`DeliveryInv`), `NewestIsDelivered`, `LatestSignatureIsDelivered` |
| `Transfer_proofs` | `Invariance` (`FeesInv`), `TypeCorrect`, `FeesAreCovered`, `PricesAreAllowed`; `TransfersAreAffordable` |
| `Monitoring_proofs` | `Invariance` (`IndInv`, of `Availability`), `ChecksUndisturbed` (`Monitoring` implements `Availability`), and of `Monitoring` `StatusIsTruthful`, `RequestsAreCounted`, `AnswersAreSnapshots` |
| `Intake_proofs` | `Invariance` (`IndInv`), `NobodyRefusedSpuriously`, `FilterHoldsRelayersOnly`, `ClientsGetRelayersOnce` |
| `Process_proofs` | `NoNonceIsForgotten`; `Invariance` (`LifecycleInv`), `ClosablesAreStopped`, `JoinComesFirst` |
| `Leader_proofs` | `Invariance` (`IndInv`), `ListsWereOnTheContract`, `LeadersAgree` |

The argument for `ElrondToEth`. "Executed actions are truthful" is not inductive:
it rests on what relayers hold long before. `IndInv` adds that (1) past the first
step an executor's batch, hash, action and statuses belong together
(`ExecutorConsistent`); (2) no view of a batch, in an executor, in a transaction
or on Ethereum, is larger than the batch on Elrond, as long as that batch is
current (`InView`); (3) the size read in step 6 covers what was transferred,
*unless* the relayer's batch is already settled; that is the case where the
size belongs to a newer batch, and the statuses computed from it are wrong;
(4) hence a proposal under way is truthful or too old to be accepted (`Sound`),
and an accepted one is truthful and fits the current batch. A deposit cannot
invalidate (4), since the batch is closed to deposits by the proposal.

The argument for `EthToElrond`. A relayer's verification compares its batch with
the deposits executed at that moment, and others may execute the same batch
before its proposal is included. `IndInv` says that everything that is proposed,
under way or stored past the verification either is for a batch that is already
executed, which the contract refuses by its identifier, or starts right after
the last executed deposit (`Follows`); identifiers and deposits advance together.

`PayoutImplemented` also needs that what is executed was whole when it was fetched,
if the contract hides batches that grow: `WholeInv` says that of everything that is
held past the query, proposed or executed, and a settled batch never changes.
With both invariants the executed transfer is the sequence of the next deposits
(`Follows`) and the batch of Ethereum (`Whole`); no other step changes what
`Payout` sees.

The argument for `Broadcaster`. Everything that was accepted or handled has a
nonce that the filter has recorded (`Seen`), so what is accepted now, with a
greater nonce, is different from all of it.

For the deliveries this is not enough, since a refused message is a loss. Who had
both lists keeps them as long as nothing fails (`AudienceInv`), so it refuses neither
a sender nor a signature for want of a list, only an old nonce.
`DeliveryInv` follows the last signature of a sender: as long as nothing was lost,
who was to get it has taken it or has not recorded its nonce; if the sender has
sent nothing since, or its broadcasts keep their order, it is then still on its way.
Peers that answer a join message send signatures only, none of them newer than the
sender's last, so they never raise the filter above it; the sender's own join messages
do, and for them the order of its broadcasts is needed.

The argument for `Transfer`. The funds are checked while earlier transactions may
still be unpaid. What saves the code is that it takes the nonce of the last block:
all its transactions compete for one nonce, and when one of them is included the
others, and the call under way, are too late (`FundsInv`). Counting the pool's
transactions in the nonce, the obvious improvement, breaks this; it is the mutant.

`PricesAreAllowed` needs `PricesInv`: the price that a call has read, some steps
before it sends, was an allowed one, no matter what the station has fetched since.

`TransfersAreAffordable` has two parts. `CumulatedIsNeeded` shows that the amount which
`getCumulatedTransfers` adds up for a token is what the contract takes from the safe,
for deposits of any number and amounts; it is an induction over the deposits. The other
part is `SafeInv`: from the check of a token on, the safe has what the call needs of
it, unless the batch is executed already, because only the execution of a batch
takes from the safe, and the transaction is then refused.

The argument for `Availability`. Whoever is in a check holds the lock, so the
counter and the last block are functions of the answers since the start, and a
check's locals and the metrics it has set already are what they must be at its
end (`ChecksInv`). For the count of requests, the storer is never ahead, and is
exact when the last `Put` succeeded and no earlier restart lost anything
(`StorerInv`).

The argument for `Monitoring`. A request that is being answered keeps the handler's
read lock, and every step that sets a metric, of a check, of `getNonce` or of another
query, needs the write lock; so the numbers that were copied are those of the handler
until the texts are copied too. That the requests do not disturb the checks is
`ChecksUndisturbed`: every step of `Monitoring` is one of `Availability` or leaves it alone.

The argument for `Intake`. The checks come in a fixed order, so what a goroutine
holds has passed those before the one it makes next (`StakedInv`). The nonce is
compared and recorded in one step, so of several copies of a message one only gets
past it, and from then on it is held by one goroutine or was given to the clients
(`OnceInv`). `NoSpuriousRefusal` rests on `RolesInv`: the map is incomplete only
while the provider holds its lock.

The argument for `Lifecycle`. `LifecycleInv` says place by place what was created and is
in the two lists (`ListsInv`): whatever runs and is to be closed is in
`closableHandlers`, and while `Close` walks through the list it is still ahead, or its own
`Close` failed (`PlaceInv`). For `ElrondTransactions` `NonceInv` says that only a
call that is about to send holds a nonce, so taking a new one forgets none (`CallInv`),
and, as long as nothing `overlapped`, that no nonce in use is stored, held twice or above
the last one (`UniqueInv`) and that none below it is missing (`CompleteInv`). A refused
duplicate then gives back the nonce it held itself, and both still hold.

The argument for `Leader`. What a query returned was on the contract (`IndInv`), and a
list with a malformed entry is given up. That there is a leader at all rests on
the sorted list: `SortedIsAscending` shows that every finite set of addresses can be sorted,
by removing the least one, and that the sequence has exactly the keys of the list,
so that the remainder of the hash is always the index of one. Relayers with the same list and
the same seed compute the same key. Nothing is assumed of the hash.

Where an argument is an induction (over deposits, over the size of a list), it
takes the least counterexample: the theorem of the library that every
nonempty subset of a well-founded set has a minimal element takes a set as its
parameter, which the provers can instantiate, unlike the schemes that take an
operator (`LeastNatural`, `UpTo`).

The operators that only name a query or an assignment of the executor
(`WasProposedTransfer`, `ValidateBatch` and the like) are expanded throughout a proof
module by the `USE DEF` at its beginning.

Every safety property that a passing run checks is proved. Only model-checked are
the liveness properties (`PendingBatchSettled`, `EveryBatchExecuted`,
`StalledChainReported`, `OneLeaderAtLast`, `RemovedAtLast`), since
proofs from fairness and of `ENABLED` are out of the prover's reach; and
`LateJoinerBootstraps`, which is violated. The invariants that are listed in no run
(`WholeInv`, `DeliveryInv`, `SafeInv`, `LifecycleInv`, `NonceInv`, those of `Intake` and
`Leader`) hold on the instances of the runs as well.

## 5. Not modelled

Configuration files and command lines, whose values are constants or parameters;
logging, formatting and the conversion of addresses; the log route, the list of
handlers and the counting of the limiters of the REST interface; the generated contract bindings; the token
mappers, one query each, whose failures are faults of step 1; the metrics of the
state machines, which nothing reads back; the counting of the antiflood library,
which appears as messages that are dropped; the price feeder's logic, which is a
library's. The amounts of deposits are in `Transfer` only. The state machines' modules
take the whitelist as fixed: a signature of a relayer that is removed after it was
received still counts for a relayer, and is checked again by the contract. The data
getter's `GetTransactionsStatuses` is called by nothing in the program. Test doubles
(`testsCommon`, `integrationTests/mock`) are not part of the program; the contract
mocks are where the assumptions on the contracts come from. `PROJECT.json` lists every
component with its status.

## 6. Plan

Modelled, in the order of importance: `Batch`, `ElrondToEth`, `Settlement`,
`EthToElrond`, `Payout`, `Broadcaster`, `Transfer`, `Availability`, `Leader`,
`EthereumRoles`, `Lifecycle`, and the compositions `Monitoring`, `Intake` and
`Process`. Next:

1. Action properties with proofs: what a restart, a retry or a refused transaction may
   never change (nothing is paid or settled twice is a state property already; that the
   filter, the account's nonce and the executed batches never go back is not stated).
2. The liveness arguments as chains of safety lemmas: at each step which action is
   enabled and what it decreases, for the parts that need no `ENABLED`.
3. A whitelist that changes while `ElrondToEth` runs: `Intake` composed with the
   signatures holder, and what the contract's second check is needed for.

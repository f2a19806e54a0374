# ContractGr.id verification

TLA+ modules, TLC configurations and TLAPS proofs for the parts of ContractGr.id
that have behaviour worth arguing about. `keri/`, `db/` and `verification-system/` are
directories of the repository's `src/`; `docs/` is at its top.

## The system

The repository holds several programs that talk to each other loosely.

| Component | State it keeps | Operations | Hard behaviour | Modules |
|---|---|---|---|---|
| Witness (`keri/witness`, Rust/tokio) | PostgreSQL tables `key_events`, `receipts`, `duplicity_log`, `escrow_events`; a bounded channel; a key pair made at each start | `submit`, worker pool, `process_one`, escrow replay and expiry, `POST /events` | workers and requests interleave at each database await; requests are cancelled by a timeout; restarts change the key; any database call may fail | `Witness` |
| Watcher (`keri/watcher`, Python/asyncio) | LMDB (first-seen saids), tables `first_seen_events`, `duplicity_log`, `escrow_events`; an asyncio queue | worker pool, `_process_event`, escrow replay and expiry, `POST /kel/{aid}`, `stop` | tasks interleave at each await; two stores are written one after the other; stop, crash, expiry | `Watcher` |
| Watch list (`watcher_manager.py`) | table `watched_aids`, a cache beside it | `watch`, `unwatch`, `update_witnesses`, `load_cache` | the cache is tested, the table awaited, the cache written | `WatchList` |
| Poller (`witness_poller.py`) | `last_sn` of each row, polls under way | poll cycle, poll on request, retries | overlapping polls, a full queue, lost and refused events | `Poller` |
| KERI node: logs and keys (`keri/keri/keri`) | key event log, identity states, hot and pre-rotated keys, wallet, recovery lists | `create_identity`, `process_event`, `rotate_keys`, saves and recovery | sequences of calls that leave two stores disagreeing; exceptions half way | `KeriNode`, `KeyRotation` |
| KERI node: credentials | store, revocation cache, known identities and schemas | issue, receive, revoke, expire, evict, `verify`, `resolve_chain` | the ancestors of a credential change while they are walked | `Credentials` |
| KERI node: message pipeline | two queues, policy, evidence, collector | `ingest`, `process`, `set_policy`, `collect_all`, `collect_next` | several threads, handlers that raise | `NodePipeline` |
| Contract store (`db/core`) | five MongoDB collections | create, update, delete, delete of one document, report | many documents per operation, no transactions, a report of several reads | `ContractStore`, `ContractReport` |
| Sub-contract verification (`verification-system/core`) | connections, two queues | WebSocket handler, `background_processor`, `response_dispatcher`, REST trigger | connections that close early, steps that fail | `VerificationServer` |
| DSL executor (`verification-system/core/dsl_executor`) | a workflow graph | Kahn's sort, execution | cycles, repeated targets, missing modules | `Workflow` |
| Vendored keripy (`keri/keri_official_lib`) | key event logs, escrows | `Kevery.processEvent`, receipts, `processEscrows` | recovery, partial signatures and receipts, any order of arrival | `Kever` |

How they interact: a client posts an event to a witness and gets a receipt; a
watcher polls witnesses with `GET /kel/{aid}` and takes events over
`POST /kel/{aid}`. The verification
system reads the collections the contract store writes. Nothing in the
repository imports the vendored library.

Three mismatches matter for the composition. `POST /events` of the witness parses
its event with an empty signature list (`validator.rs:181-206`), so nothing sent
over HTTP passes `validate_signatures`: only a caller of the library function
`EventProcessor::submit` can have an event accepted (`Witness` has both). A
receipt is pushed to watchers only after an accepted `POST /events`
(`events.rs:61-71`): as none is accepted, none is pushed, and the push is not
modelled. And the poller reads a top-level field `events` where the witness of this
repository nests it under `data`: in `Poller` such a witness (`Nested`) is polled in
vain.

What makes each component correct:

* witness, watcher, node log: the first-seen policy (a slot, that is an AID and
  a sequence number, takes one digest for good, in sequence order), duplicity
  entries that accuse no one wrongly, answers that stay true after crashes, an
  escrow that neither forgets nor invents;
* watch list and poller: cache and table agree, no event is passed over;
* KERI node: the identity state is the one the log implies, the hot key is the
  one the log names and can sign, a revoked or expired credential does not
  verify, a message has at most one answer, and what its envelope tells has
  evidence on file;
* contract store: an operation happens as a whole, a deleted contract leaves
  nothing behind, a report shows all of a contract and nothing else;
* verification server: each connection gets at most the answer due to it;
* DSL executor: a module runs after its inputs, only a cycle is refused;
* keripy: one chain, backed by keys and witnesses, whatever arrives in whatever
  order, and accepted to its end when it is honest.

## Modules

| Module | What it is |
|---|---|
| `FirstSeenLog` | abstract: a log that fills each slot once, above a filled slot. `Witness`, `Watcher` and `KeriNode` implement it |
| `Gatekeeper` | abstract: at most one answer per message, which says what the evidence on file says, or what the message says of itself. `NodePipeline` implements it |
| `AtomicContracts` | abstract: each contract operation happens at once. `ContractStore` implements it for one client at a time |
| `Witness`, `Watcher`, `WatchList`, `Poller`, `KeriNode`, `Credentials`, `NodePipeline`, `ContractStore`, `VerificationServer`, `Workflow`, `Kever` | one module per component |
| `ContractReport` | extends `ContractStore`: a report of five reads between the steps of its requests |
| `KeyRotation` | composes `KeriNode` with an application that rotates as `kms.py` describes it for some AIDs and is free in its calls for the others |
| `NodePipeline` | extends `Credentials`: the two share the credential store |
| `Revocation` | extends `NodePipeline` with a memory of revocations, which a property needs |
| `StackLemmas` | lemmas about the sequence operations on a task's stack, and the least number of a set |
| `WitnessProofs`, `WatcherProofs`, `PollingProofs`, `NodeProofs`, `PipelineProofs`, `ContractProofs`, `KeverProofs` | theorems |
| `MCWitness`, `MCWatcher`, `MCPolling`, `MCKeyRotation`, `MCNodePipeline`, `MCContracts`, `MCKever` | the small instances TLC explores |

### Witness and Watcher

Both processors are a pool of tasks, plus one task per HTTP request, that run
one function (`process_one`, `_process_event`). Code between two awaits is
atomic, so there is **one action per await and one per stretch of code between
two awaits**: the value `pc` of an activation record names the await it is
suspended at. In the watcher the writes to LMDB are not awaited and belong to
the stretch they are in (`Lookup`, `Judge`); in the witness the store
transaction is two actions, `BeginStore` (which fixes `NOW()`) and
`CommitStore`, so that the order of transactions and the order of their
timestamps may differ.

An accepted event replays the AID's escrow, which calls the function again. A
task is therefore a **stack of activation records**; `Start` pushes a call,
`Return` pops it and notes in the record below whether it was accepted.

Tables are sets of rows, except the escrow, a sequence in the order of
`received_at`. The tables survive `Restart`, which empties queue and stacks
(in the witness it also changes `keyPair`). Events are records of what the code
reads of them; digests, AIDs and signatures are constants. The sequence numbers
(`i64`, `int`) are only compared and decremented by one, so their width does not
matter. A database call that raises is modelled as one that wrote nothing.
`set_escrowed` and `clear_escrowed` of LMDB write flags that no code reads; they
are left out, and so are statistics and metrics.

| Code | Witness | Watcher |
|---|---|---|
| arrival | `Submit`, `Request` | `Submit`, `Request` |
| worker takes an event | `Receive` | `Receive`, `TimeOut` |
| slot lookup, duplicity | `CheckFirstSeen`, `RecordDuplicity`, `GetReceipt` | `CheckWatched`, `Lookup`, `GetKel`, `RecordDuplicity` |
| validation | `Validate`, `EscrowEvent` | `Lookup`, `GetPrior`, `Judge`, `EscrowEvent` |
| store | `BeginStore`, `CommitStore` | `Lookup`/`Judge` (LMDB), `Record` (table) |
| replay | `FetchEscrow`, `Replay`, `Settle`, `FinishReplay` | the same |
| failure | `RejectOnDbError` and the branches of the actions above | `FailOnDbError`, `SettleRow` |
| around | `Cancel`, `ExpireEscrow`, `Restart` | `Stop`, `PutSentinel`, `ExpireEscrow`, `Watch`, `Unwatch`, `Restart` |

### WatchList and Poller

A call of the watch list is three steps: let in by the cache (`WatchCall`,
`UnwatchCall`, `UpdateWitnesses`), `WriteTable` or `TableFails` (before or after
the statement took effect), `WriteCache`. Witness lists are told apart by name
only. Which rows are the latest that `load_cache` asks for is left open
(`Loads`). The ghost `alone` of a call and the ghost `parted` of an AID record
whether anything that may part cache and table went on.

The poller reads the rows that are due when no poll of the cycle before is left
(`Cycle`); a poll asks each witness of its row, an answer is a page of
consecutive events from `last_sn` on, that event included, `Submit` queues as many as there is
room for, `Finish` writes `last_sn`. When a row is due is left open. The processor
is that of `Watcher` with the steps of one event taken together (`Take`, `Settle`,
`SettleFails`): an event is stored, held in the escrow, dropped as known, or
rejected, since its AID is not watched or it is the next rotation
(`processor.py:208` refuses each one without signatures, and no event that is
polled or replayed carries any); or a call of the database fails while it is in
hand, and it is gone. A stored event wakes some prefix of the events that wait
behind it, up to the next rotation. Cache and table are taken to agree (what
`WatchList` is about), controllers are honest and polled events carry `sn` (the
others are in `Watcher`). The semaphore that limits parallel polls only delays
them.

### KERI node

`KeriNode` has one action per call of the node's API; keys, digests and AIDs are
names, an event is numbered in the order of creation. Seeds may be repeated, so
`create_identity` can fail after it generated keys. With a wallet, private keys
are kept; without one `promote_to_hot` has none. `KeyRotation` adds the
application. For each AID it is settled at the start whether it keeps to the order
of calls `kms.py` describes (`Ordered`), each call a step of its own with other
calls in between, or calls whatever it likes (`CallFreely`); identities may be
created again at any time. What holds of every sequence of calls is checked with
both, `KeysFollowLog` speaks of the AIDs in `Ordered`.

`NodePipeline` runs each thread from one access to shared state to the next:
queue, policy, each credential that `verify` looks at (its recursion is a stack
of what is left to look at), evidence, output queue. A chain deeper than the
recursion limit raises. One thread collects, and its handlers may raise on any
envelope; what is then lost is kept in the ghost `dropped`. The answer of an
envelope is the one a caller reads, `payload["allowed"]`: the verdict, unless the
payload brings a key of that name, which wins (`node.py:259`, `Told`). Messages and
evidence are told apart by their position in the order of arrival.

`verify` called at rest is the function `Verdict` of the frames that are left;
`Resolve` is one turn of the loop of `resolve_chain`. The reference they are
checked against, `Ancestry`, is the least set that holds a credential and the
parents of its members; it does not look at any order.

### Contracts

A MongoDB collection is a bag of documents, since nothing keeps an id from being
inserted twice; each CRUD call is one step and may fail. A specification the
parser refuses changes nothing and is left out. `delete_sub_document` (`Remove`)
takes a document of any collection but `contracts`. `fate` (what became of a
contract) and `before` (the collections when no request was under way) are ghosts;
a contract is `apart` for good once a write and a deletion of it have overlapped,
a sub-contract of it has been removed by itself, or it is written again after a
deletion that could not read its clauses. `WellShaped` and `Neat` are no
assumptions of the module; theorems and `MCContracts` make them (see Proofs).

`ContractReport` adds the report of `report.py`: five reads (`ReadContract`,
`ReadSubContracts`, `ReadKind`), the last three by the sub-clauses that the second
one found, each of which may fail, and between any two of them steps of requests.
A report only reads, so one at a time is enough. The ghost `kept` holds the ids
that were there when it began and have been since.

In `VerificationServer` a step is what a task of the event loop does between two
awaits. The websockets library closes the connection of a handler that has
returned, which is an action of its own (`CloseReturned`, external).

`Workflow` takes the graph, sorts it and runs it; the order of Python's
dictionaries and lists is left open where the code takes the next node.

### Kever

One validator of the vendored library and one identifier. `Kever`'s and
`Kevery`'s methods are operators from a database to a database and what the
caller is told, because `processEscrows` calls `processEvent` again for each
held event (`Pass`, a recursive function over the snapshot of an escrow). The
data is abstract: signatures are names and genuine, thresholds count names, an
event is its own digest, indexes of signatures and witnesses are left out, and
time is an age of an event: 1 is beyond `TimeoutOOE` (1200 s), 2 beyond the other
timeouts (3600 s).

## Runs

Where components share no state, one run explores them side by side: the
variable `part` (or `scenario`; in `KeyRotation` the set `Ordered`) is chosen at the start and never changes, and a
step is a step of that part. The reachable states are the disjoint union of the
parts' own, so each property holds of the sum exactly when it holds of each
part; a part may only restrict which inputs occur.

| Run | Question | Instance |
|---|---|---|
| `witness_race` | what two workers racing over a contested inception and two rival extensions can do to the tables | 2 workers, 5 events of one AID, signed or not, 4 submissions, queue and escrow window of 1, failing calls |
| `witness_serial` | what one worker beside cancelled requests and a restart guarantees on top | 1 worker, 1 request task, 3 submissions, 1 restart |
| `watcher_race` | a worker and a request race over rival events while calls fail, AIDs are unwatched, the process stops and restarts | 4 events, some with their number under one name only, 3 arrivals, 1 restart |
| `watcher_serial` | the escrow forgets nothing, stores agree, calls and `stop` return | 1 worker, a chain in any order, 5 arrivals, window of 3 |
| `watcher_lost_race` | expected violation, see Findings | 1 worker, 1 request task |
| `node_keys` | with a wallet: what every sequence of calls keeps, and what rotations in the described order keep, with repeated seeds and interactions in between | 2 AIDs; no order kept (4 keys, 2 events, 1 save), kept for both (6 keys, 5 events), kept for one beside any calls for the other (6 keys, 3 events) |
| `node_pipeline` | the pipeline beside changing credentials and policies, with handlers that raise | `messages`: 2 workers, every payload, 2 messages; `credentials`: 1 worker, credentials issued, received, revoked, evicted, one expires, one cyclic |
| `contracts` | store, server and executor | store `alone`: 4 requests of every kind, one failure; `deleting`: two threads create and delete a contract with two sub-contracts; server: 2 clients; executor: every graph of three modules, every one of two with repeated targets |
| `contract_reports` | a report between the calls of requests | 3 requests of every kind by two threads, one of which creates; a contract with clause data in lists; reads that fail |
| `contract_orphans` | expected violation, see Findings | `alone` with one thread and no failing call |
| `polling` | watch list and poller | list: 2 AIDs, 2 callers, 4 calls, 1 restart, load limit 1; poller `calm` (no fault, two witnesses), `mixed` (no fault, a rotation, a witness that nests its answer), `faulty` (unwatch, crash, expiry, failing calls, a request polls too, 2 faults), `live` (1 fault); 3 events per AID, a queue of 2, 2 workers |
| `kever_events` | a log in every order of arrival | `recovery` with a rival rotation, `honest`, `stale` (time passes), `split` (signatures and receipts one by one) |

**Why the bounds are enough.** The code treats AIDs independently (every query
carries the AID; the queue and the workers are all they share), so one AID shows
the interleavings; two are there where a table bounds them together. A conflict
needs two events for one slot, an escrow an event before its prior, a replay
that stores something a chain of two, a replay inside a replay a chain of three:
the event sets hold a chain of three with a rival in the contested slot. Three to
five arrivals let them be resent. Windows and limits (the 20 rows of a replay,
the 10000 of `load_cache`, the queue) are constants and small, so that they
overflow. One restart separates what is kept from what is lost. A rotation needs
two keys per AID, a recovery two interactions, a cut-and-add two witnesses. A
credential chain of two credentials and one foreign, cyclic one has every shape
`verify` tells apart. Two threads suffice for each pair of operations of the
store. Bounds in guards: `MaxSubmits`, `MaxArrivals`, `MaxRestarts`, `MaxEvents`,
`MaxSaves`, `MaxIssued`, `MaxMessages`, `MaxRequests`, `MaxErrors`, `MaxCalls`,
`MaxSn`, `MaxFaults`, `MaxAge`.

**Deadlock** is checked where the system never stops (`kever_events`). Elsewhere a
bounded number of arrivals, events or calls leaves an idle system, which is where
it should stop, and the watcher can really hang (its `stop` waits
for room in a queue nobody reads, see `StopReturns`).

**Fairness.**
* `Witness`, `Watcher` (`FairSpec`): weak fairness per task for its own next
  step, because tokio and asyncio run every task whose await has completed and a
  database call returns or raises; of each worker's `Receive`, because the
  channel's mutex and `Queue.get` are first come first served; in the watcher
  also of a worker's timeout and of the pending `put` of `stop`. Nothing is
  assumed of clients, expiry, `watch`/`unwatch`, of `stop` being called, nor of
  restarts.
* `NodePipeline` (`FairPipeSpec`): the application keeps calling `process` in
  each worker and `collect_all` or `collect_next`. Nothing is assumed of
  handlers: they may raise every time, and what that drops is named by the property.
* `Poller` (`FairPollerSpec`): the loop polls an AID that stays due and its polls
  come to an end (`poll_loop` runs for ever); no witness and no update of
  `last_sn` fails for ever (strong fairness of the success). Workers take events and
  come to an end with them (weak fairness of `Take` and `Settle`). `Unhurried`
  restricts the behaviours further: the queue is empty when a cycle begins, that
  is, the interval (30 s in the code) is long enough to drain it. Without it a
  full queue can turn a page away at its start for ever.
* `Kever` (`FairKeverSpec`): every event and receipt of the honest log is sent
  again and again and escrows are processed again and again (the caller's loop).

### Properties

* Witness: `ChainIntact` (stored events sit on their priors, logs have no holes,
  although the prior is read two awaits before the event is stored),
  `ReplayNeverReescrows`, `ForkNeedsStaleRead` (two workers do break the
  first-seen policy, because the key of `key_events` includes the digest: only a
  task that found the slot empty adds a second digest). With one worker
  `IsFirstSeenLog`, `ReceiptIsOwn`, `InceptionReceiptFinal`, `TasksFinish`,
  `QueueDrains`.
* Watcher: `IsFirstSeenLog` with any number of tasks, because the put in LMDB is
  not awaited; `KelFollowsLmdb`, `AnswersAreBacked`, `AccusedAsSent`,
  `ResolvedIsSeen`; without errors `LmdbIsRecorded`, with one task and a window
  that holds all rows `EscrowForgetsNothing`; `TasksFinish`, `StopReturns`.
* Watch list and poller: `PartedOnlyByOverlap`; `UpToLastSn` (whatever fails, all
  up to `last_sn` was queued once); `NothingSkipped` (without a fault it is still
  queued, in hand, escrowed or stored, but for the one rotation that is next in its
  log and was refused, so nothing is lost for another reason); `EventsAreSubmitted`.
* Node: `HotKeysSign`, `IsFirstSeenLog`, `KeysFollowLog`; `VerifyIsTrust` (verify
  against a reference definition on the graph of ancestors),
  `RevocationIsPrompt`; `IsGatekeeper` (of the answer that a caller reads);
  `EveryMessageCollected` (every message is answered and collected in the end, but
  for those the code drops: the handler fails on it, or an output handler raised on
  an envelope that was drained before it).
* Contracts: `IsAtomicContracts` (a request that no other overlaps, none of whose
  calls fails and none of whose documents is refused; not one that takes away a
  sub-contract with its clauses in a list, which a deletion cannot read; what
  failing calls leave is not specified); `DeletedIsGone` (clauses as dictionaries,
  no failed call, no overlap of writes and deletions of the contract, no
  sub-contract removed by itself); `ReportIsWhole` (nothing of another contract,
  always; all that was there throughout, with clauses in lists, no failed call, and
  a contract neither deleted nor taken apart); `OneDueAnswer`, `EntriesAccountedFor`,
  `OnlyCyclesRefused`.
* Kever: `ChainIsBacked`, `SeenOnce`, `RotationsStay`, `HonestLogIsAccepted`.

### Findings

Each has a run that expects the violation.

* `AcceptedIsFirstSeen` (`watcher_lost_race`): `_process_event` reads the slot,
  awaits, and puts (`processor.py:132,152`); the loser of a race is answered
  `accepted=True` although it is stored nowhere and no duplicity is logged.
  `db/lmdb.py:14-16` says the layer gives "atomic read-validate-write semantics".
* `NoOrphans` (`contract_orphans`): `delete_sub_document` takes a sub-contract away
  alone (`controller.py:71-76`), and `delete` finds actions, verification entries
  and constraints only by the clauses of the sub-contracts that are left (51-66):
  those of the removed one stay after their contract is deleted. `docs/contracts.md:39`
  says of deletion that it "ensures that no orphan sub-contracts or actions remain".

Read in the code while modelling and visible in the definitions named, without a
run of their own:

* `key_management/kms.py:121` against 52-53: without a wallet `promote_to_hot`
  puts a pair without private key in place of one that could sign (`Promoted`).
  `HotKeysSign` is checked with a wallet.
* `identity/kel.py:145` against `credentials/authority.py:156`: the delegator is
  taken from the last event alone (`Derive`).
* `authority.py:145` against 137: `resolve_chain` stops at the first id it does
  not hold, so its first credential need not be a root (`ResolveChain`).
* `output/manager.py:175` against 174: `collect_all` drains before it dispatches;
  when a handler raises, the envelopes behind are collected by nobody
  (`Dispatch`, `dropped`); a message that leads verify into a cycle is lost
  (`CheckCredential`, `Fragile`). `EveryMessageCollected` says that nothing else is.
* `node.py:259`: the payload is merged over the verdict, so a payload with a key
  `allowed` answers for itself, without evidence (`Told`, `OwnWord`). `Gatekeeper`
  has such messages; for all others the answer is what the evidence says.
* `watcher/core/processor.py:208`: a rotation needs signatures, and neither the
  poller nor the API nor the replay hands any on, so the log of an AID stops for the
  watcher before its first rotation, and what follows waits in the escrow until it
  expires (`Settle`). `NothingSkipped` names that event.
* `db/core/controller.py:53` against `docs/contracts.md:39`: the children of a
  sub-contract whose clauses are a list are not deleted; 23 against line 31: a
  create that is refused half way leaves what it wrote; 33 against line 35: two
  updates may leave parts of both. `DeletedIsGone`, `ReportIsWhole` and
  `IsAtomicContracts` say what does hold.
* `verification-system/core/server.py:69` against `docs/contracts.md:820`: the
  handler returns once the task is queued, which closes the connection before
  the result is there (`CloseReturned`, `Send`).
* `verification-system/core/actions.py:74` against `docs/contracts.md:735`: the
  entry is loaded with `None` as its class, which raises for every entry that
  exists (`TriggerVerification`).
* `watcher/core/watcher_manager.py:65` against `utils/errors.py:35`: after an
  overlap of `unwatch` and `watch` an AID that is polled is refused as not
  watched (`UnwatchCall`).
* `core/eventing.py` of the vendored library: `deriveBacks` (2370 against 2358)
  keeps the witnesses of the state in a recovery (`Derived`); an event is held as
  out of order by its number only (4055 against 5636; `Process`);
  `escrowLDEvent` calls a method that does not exist (5401 against 6962;
  `HoldDuplicitous`); a receipt is compared with the event of its own digest
  (4172 against 4164; `Receipted`).

### Mutants

An operator named `Mut_X` stands before the definition it is a wrong variant
of: a dropped guard, a skipped write, a missing reset, a swapped order. No
action uses it. Each property of a passing run is paired with the mutant that
breaks it (`PROJECT.json`, "mutants"): put in place of the definition, TLC finds
the property violated under the same configuration.

## Proofs

For all values of the constants, under the modules' named assumptions
(`WitnessConstants`, `WatcherConstants`, `WatchListConstants`,
`PollerConstants`, `PipelineConstants`, `CredentialConstants`,
`KeverConstants`, `WorkflowConstants`, `ContractStoreConstants` and the like:
inputs are records of the right shape, certain sets are finite, sizes are
naturals) and what the third column adds:

| Module | Theorems | Assumed besides |
|---|---|---|
| `WitnessProofs` | `TypeCorrect`, `ChainsStayWhole`, `ReceiptsFollowEvents`, `DuplicityIsSound`, `AcceptanceIsDurable`, `ResolutionIsSound`, `ReplayIsShallow`, `ForksAreStaleReads` | |
| | `ReceiptsAreOwn`, `InceptionReceiptsStay`, the refinement `KeyEventsAreFirstSeenLog` | `OneWorker` (beside any number of HTTP requests) |
| `WatcherProofs` | `TypeCorrect`, `KelNeverDisagrees`, `DuplicityIsSound`, `AnswersStayBacked`, `AccusationsAsSent`, `ResolutionIsSeen`, `ReplayIsFinite`, `TracesAreWatched`, the refinement `LmdbIsFirstSeenLog` | |
| | `LmdbIsSoonRecorded` | no database call fails, no restart |
| | `EscrowIsEmptied` | `Steady`: one task, no failing call, no restart, nothing unwatched, events that carry `s` carry `sn` |
| `PollingProofs` | `PollerTypes`, `LastSnIsCovered`, `NothingIsLost`; `ListTypes`, `CacheAgrees` | |
| `NodeProofs` | `TypeCorrect`, `LogsAreChains`, `StatesFollowLogs`, `HotKeysCanSign`, `RecoveryKeysAreKept`, `StatesOnlyAdvance`, the refinement `LogsAreFirstSeenLog`; of the AIDs whose rotations keep to the order, whatever is called for the others, `RotationKeepsStep`, `CommitmentsAreHonoured`, `SignaturesAreCurrent` | |
| `PipelineProofs` | `OneAnswerEach`, `EvidenceAgrees`, `NoEnvelopeLost`, the refinement `PipelineIsGatekeeper`; `CredentialTypes`, `VerifyMeansTrust`, `RevocationsAreHeeded` | |
| `ContractProofs` | `WorkflowTypes`, `VisitsInOrder`, `InputsAreThere`, `FailuresAreUnsound`, `CyclesAreRefused`; `ServerTypes`, `AnswersAreDue`, `EntriesStayAccountedFor`; `StoreTypes` | |
| | `DeletionsAreWhole`, `ReportsAreWhole` | `WellShaped` |
| | `OperationsAreAtomic` (the property `IsAtomicContracts`) | `WellShaped`, `Neat` |
| `KeverProofs` | `KeverTypes`, `ChainsAreBacked`, `EventsAreSeenOnce`, `RotationsAreFinal` | |

The single-worker assumptions are what the properties say (with two workers
`witness_race` shows the fork). `WellShaped` says what clients mean by a contract
and the parser does not ask, of specifications only: an id belongs to one contract
and one clause in every specification that names it, a sub-contract has the same
clauses in all that give it any, clauses are not shared between contracts
(`SpecsAgree`), and what belongs to a clause comes behind a sub-contract of that
clause (`SpecsNest`). It restricts no call: sub-contracts may be removed. What a
removed sub-contract, an overlap or a failed call takes from a property is a
condition in the property itself. `MCContracts` assumes `WellShaped` of its
instances, so TLC evaluates it. Without it a deletion through one contract would
take another's documents along. `Neat` says that a
specification names a document once (a create that names it twice leaves two
copies, where a bag made of a set has one) and, where contracts are deleted, gives
clauses as dictionaries, which is all that a deletion reads (see Findings);
`MCContracts` assumes it of the contracts whose requests come one at a time.
`Steady` asks for `sn` because
the claim fails without it, for a reason in the code: an event with `s` alone is
queued by the poller under `last_sn` (`witness_poller.py:161`) and escrowed under
that number, while the replay reads `s` (`processor.py:296`); a row that is filed
too high is passed over by every replay that could store it.

The arguments, in short:

*Witness and watcher.* An action trusts what an earlier stretch of its task read.
The strengthening `IInv` adds `StackOk`, which says what each record **has learnt
that can no longer become false** because the tables only grow: a record about to
log a conflict has the first digest in the store, one about to judge an event
with its prior in the table has the prior in LMDB, one that replays has its own
event stored. In the witness `StackOk` also relates a record to the one below it
(the row being replayed), which bounds the recursion at two records and shows
that the inner call finds a prior and never escrows. In the
watcher recursion has no fixed bound, and what a record knows does not depend on
its depth: a stack is a sequence over the set `Good(firstSeen, Rows)` of good
records, so the lemmas about pushing, popping and replacing a record are lemmas
about sequences (`StackLemmas`), and growing stores only enlarge the set
(`GoodGrows`). The refinement maps `log` to `firstSeen`: every step but the two
puts leaves it alone (`OnlyPutsWrite`); a put finds the slot free in the same
stretch, and its prior filled either by its own lookup or by `StackOk`
(`PutSees`).

*Witness with one worker.* Events that arrive over HTTP and rows that are replayed
have no signatures (`SignedAreReceived`), so only the worker's own event can be
stored. What the worker found empty therefore stays empty until it commits
(`FreshOk`), which leaves one row for each slot, and the receipt that is read back
with the slot is that row's.

*Watcher, escrow and accusations.* Three invariants are added one upon the other.
`SentInv` follows an event from the queue through escrow and replay and says
under which numbers its readers can file it. `ReplayInv` relates a replaying
record to the call above it: what that call is about to answer is what the slot
already shows, so a row is settled as resolved only when its slot was seen. The
calls of one task have put different slots (`DistinctInv`), hence the recursion is
finite. For `EscrowIsEmptied` each escrowed event that has become storable is owed
to a record of the one stack: the record that put its prior still has it on its
list, or will fetch it.

*Watch list.* `ListInv` follows a call that is alone with its AID: before its
statement cache and table agree or the AID is parted; after it, the entry that
the call is about to write is the one that agrees (`Settles`). A second call for
the AID ends that, for both.

*Poller.* `PollInv` says of every poll under way that the events up to the number
it has come to are submitted, and that this number is not below the one it
started from: a batch starts there and leaves no gap, also when the `last_sn` of
the row has moved on meanwhile. `Kept` adds, as long as there was no fault, that
the AID of a poll under way is watched and that what was submitted is on the
queue, in hand, escrowed or stored, or the rotation that comes next: a refused
rotation stays the next one of its log, since nothing is stored behind it.

*Node.* The invariant relates each log to the identity state by its last event;
the logs refine one `FirstSeenLog` over all AIDs. For rotations it relates four
stores by the phase of the AID, if it keeps to the order; a call for another AID
leaves all four alone (`OthersStay`).

*Pipeline.* A message is in one place only (queue, one worker's hand, or
answered): from this one answer each, and that what a worker filed is of the
message it still has. What its envelope will tell follows from the verdict, the
evidence and the message's own word, of which the last never changes (`Told`).
An envelope is followed from the queue through what was drained to what was
collected or dropped (`WayInv`).

*Credentials.* What `verify` and `resolve_chain` answer with n frames, or after n
turns, are recursive functions, and induction is out of reach. `Iterated` replaces
it: a step can be repeated any number of times, because no number is the least
for which it cannot (`LeastNumber`). The rest looks at one more turn: what verify
says yes to is closed under parents and on no cycle, a no comes from an ancestor,
and frames run out only on a cycle, since without one the ancestry of a parent is
smaller. For revocations, the `Doomed` are the least set with the revoked, what
was issued here and evicted, and what is chained to a member; they stay doomed
whatever is issued, received or evicted meanwhile (`DoomIsFinal`), and a walk with
a doomed id among those it still has to look at keeps one after each look
(`LookKeepsDoom`), so it does not end in a presentation.

*Workflow.* The degree of a node counts the edges that come to it from nodes not
yet visited; so a node is visited after all that feed it, and behind a node in a
complete order is all that it can reach, itself not. When the queue is empty
and nodes are left, each has a source that is left too; such a set has a cycle,
because the nodes that can be reached grow with each step back along an edge
(`FedFromWithin`).

*Verification server.* A client that its handler passed on is in one place only
of the task queue, the processor's hand, the result queue and the dispatcher's
hand, and has no answer yet; what a handler knows of its connection and payload
tells which answer it gives itself and whose entry it leaves in the table.

*Store.* Five facts hold together (`StoreOk`): types, with every stored document
drawn from a specification; the shape of each request under way (`ShapesOk`: a
create is a suffix of its specification, a deletion still lists after it lists);
who can have a contract in hand, by its fate (`FateOk`); as long as nothing failed
a document of a clause of a contract that is written, and not apart, has a
sub-contract that names the clause (`Anchored`); and
whatever is left of a deleted contract is seen to (`AllSeenTo`): a deletion under
way will still find it, because the clause is noted or its sub-contract not yet
listed, or has as many deletions on its list as there are documents with the id.
The count is what makes overlapping deletions come out right, because a deletion
by id takes any one of the copies. When no deletion is left, nothing is.

*Reports.* What a report shows, and the clauses by which it finds more, are of its
contract (`ReportOwn`), because specifications agree on what belongs where. A
document that was there since the report began is shown already or still to be
found (`ReportFinds`): it waits in a collection that is yet to be read, and if it
belongs to a clause, a sub-contract with that clause was there before the report
began and has been since, as the contract is neither deleted nor taken apart.

For the refinement of `AtomicContracts`, `Alone` compares what is stored with the
collections `before`, as long as the request since then is the only one and
nothing failed (`Progress`). A create has added the documents whose inserts it has
behind it (`CreatedTo`). An update has put each document it has behind it in the
place of one with that id (`UpdatedTo`). A deletion leaves a collection alone until
it asks for it (`Losing`), and then has at least as many deletions of an id to come
as there are copies left of what hung on the contract, and none of anything else;
that it asks for the sub-contracts before what is theirs makes the clauses it has
noted the right ones. One lemma per kind of call carries this on; with no call
left it is what the abstract operation says (`OverIsAtomic`).

*Kever.* `Sound` says where accepted events lie: above the last establishment
event in force there are interactions only, those that a recovery superseded among
them; every accepted event names one accepted before it (`Branched`), and the
events in force are the ones that lead back from the key state (`Standing`). Each
has what the chain below it requires of signatures, committed keys and receipts
(`Committed`, `Witnessed`), and a first-seen number of its own (`Numbered`). A
step either adds signatures, receipts and escrow entries, or logs one event that
passed the checks; a pass over an escrow is a sequence of these (`PassIsSound`).
`Onward` is the same for what no step may undo.

**Only model-checked.** Liveness under fairness (`TasksFinish`, `QueueDrains`,
`StopReturns`, `EveryMessageCollected`, `EventsAreSubmitted`,
`HonestLogIsAccepted`), which is out of the prover's reach. The two expected
violations are counterexamples and have nothing to prove.

**Only proved.** Most type invariants, and those named above that no
configuration lists; a proof holds for the small instances too.

## Plan

In place: all modules of the table, and theorems for every safety property and
every refinement that a run checks. Next, in order of what they would add:

1. delegation in `Kever` (a delegator's validator beside the delegate's) and the
   transferable receipts;
2. the credential registries of the vendored library (`vdr/eventing.py`).

### Not modelled

* HTTP routing, configuration, metrics, logging and the read-only endpoints keep
  no state the properties depend on. Cryptography is an assumption: a signature
  is a record of key and message. Scripts are clients of the API.
* `verification-system`: what follows `actions.py:74` cannot be reached, and
  `server.py` defines a stub that shadows `invoke_sub_contract_update`.
  `function_executor.py` downloads and loads code; the methods of its remote
  executor call themselves. `dsl_executor/build/lib` is a copy.
* `Kever`: delegation, the roles of local controller, witness and delegator,
  transferable receipts, queries and replies. The rest of `keri_official_lib`
  (encodings, databases, command line, demos, tests' support) is upstream code
  that nothing in the repository imports; it is most of the repository's lines,
  which is why the definitions stand for a small share of them.
* Overlapping requests for one contract: nothing says what they should leave.

# TLA+ models of the chain guard bundler

This directory holds TLA+ models of the ERC-4337 bundler in `../src/` (below,
`X.ts:n` is a line of the file of that name in `src/src/`, and `README.md:n` a
line of `src/README.md`), the TLC runs that check them on small instances, and
proofs, checked by TLAPS, of theorems that hold for every instance.

Contents: 1 the system, 2 modules and code, 3 runs, 4 fairness, 5 proofs,
6 what the models showed about the code, 7 what is not modelled, 8 plan.

## 1. The system

A node process serves JSON-RPC. For every configured network one `Executor`
(`executor.ts`) wires four services and two API modules to one RocksDB database.
Node runs one thread: code between two `await`s is atomic, and requests
interleave at every `await`. Nothing but the bundler holds a lock.

| Component | State | Operations | Talks to |
|---|---|---|---|
| Mempool (`MempoolService.ts`, `MempoolEntry.ts`) | in the database: one record with the collection of keys, one record per entry | `addUserOp`, `remove`, `removeUserOp`, `dump`, `getSortedOps`, `clearState`, `isNewOrReplacing` | database; reputation (`checkStake`, `updateSeenStatus`) |
| Reputation (`ReputationService.ts`, `ReputationEntry.ts`) | in the database: the collection of addresses, one entry per address, a white and a black list | `updateSeenStatus`, `updateIncludedStatus`, `getStatus`, `setStatus`, `setReputation`, `dump`, `crashedHandleOps`, `clearState`, `checkStake`, the list methods | database, clock |
| Bundler (`BundlingService.ts`) | a mutex, the mode, a timer; the locals of a bundle under construction | `sendNextBundle` (`createBundle`, `sendBundle`), `setBundlingMode`, `setBundlingInterval`, `restartCron`, `tryBundle` | mempool, reputation, validation, chain |
| Validation (`UserOpValidation.ts`, `GethTracer.ts`, `customTracer.js`) | none | `simulateCompleteValidation`, `callSimulateValidation`, `parseCalls` | chain (traces), reputation (`checkStake`) |
| Eth API (`eth.ts`) | none | `sendUserOperation`, `validateUserOp`, `estimateUserOperationGas`, lookups by hash | validation, mempool, chain |
| Debug API (`debug.ts`) | none | clear, dump, set reputation, send a bundle now, mode, interval | all services |
| Database (`rocksDb.ts`, `localDb.ts`) | key to JSON | `get`, `put`, `del`, `getMany` (all or nothing) | disk |
| RPC server and wiring (`app.ts`, `server.ts`, `executor.ts`) | one executor per network | dispatch by method name | the APIs |
| Configuration, types, generated contract bindings | none that changes | | |

### What is hard in it

- **Two records for one fact.** An entry of the pool exists if its record does,
  and is found if the collection names it. The two are written one after the
  other, by operations that read the collection, await, and write the whole of
  it back. Concurrent requests lose updates; a crash or a failed write falls
  between the two writes; `getMany` turns one missing record into an empty pool.
  Reputation has the same shape.
- **Decisions on values read before an await.** The fees of a replacement, the
  count of a sender's operations, the decay and ban of an entry, the deposit of
  a paymaster are read in one step and used in a later one.
- **Errors taken for answers.** A read that fails is an absent record; a removal
  that fails after the transaction is out is a failed `handleOps`.
- **Arithmetic on boundaries.** Ten percent of a fee, decay by hours, ban slack,
  limits of one and two per sender and entity.
- **Things that must go on.** The mutex has to be released on every path, a
  clear has to end, the timer has to bundle.
- **A trace read afterwards.** Validation judges an operation by what a tracer
  wrote down: frames nest, fail and run out of gas, delegated code runs on
  another contract's storage, and a hash is written down one opcode late.
- **Two services behind one call.** A call of the API changes the pool and then
  the reputation, and may be refused or broken off at either.

`PROJECT.json` lists these as hazards, each at its line, with the properties
that cover it.

### What makes each component correct

- *Mempool*: to its callers it is one table from (sender, nonce) to an operation
  (`AbstractMempool`). No entry gets lost to a crash, a listed key has an entry
  or an addition about to save it, fees under a key never fall, the limit per
  sender holds, a dump is the whole pool, every request is answered.
- *Reputation*: to its callers it is a ledger of two counts per address
  (`AbstractReputation`). Every entry stays listed, clearing leaves none,
  bans end only by time or by an operator, refusals rest on a ban that is in
  force.
- *Bundler*: to its callers a bundle is one step (`AbstractBundler`), and what was
  refused or dropped is never sent; one call works at a time; a bundle has one
  operation per sender, at most two per entity in whichever role, and no more than
  a deposit pays for, the dearest first; an operation is sent once; calls end,
  also by the exceptions of a failing status or deposit; the timer matches the
  mode; all it does to the pool are requests of the pool.
- *Tracer and validation*: the trace says of each contract what its code executed
  and what was done to its storage, and in which phase it was first entered; an
  accepted operation executed nothing that is banned, used storage that does not
  count as its account's only on behalf of staked entities, and ran the code of one
  hash in each of its validations, unless code changed inside one of them.
- *APIs*: what a call answers is true of both services; what it refuses leaves
  them as they were, but for entities that `checkStake` has listed; an operation
  that was bundled is found by its hash while the entry points answer, with its own
  logs, and never another one.

## 2. Modules and code

| Module | Models | Extends or instantiates |
|---|---|---|
| `MempoolService` | the mempool, one action per awaited database call | |
| `AbstractMempool` | what it promises | instantiated by `MempoolService` (`Pool`) |
| `ReputationService` | the reputation service, likewise | |
| `AbstractReputation` | what it promises | instantiated by `ReputationService` (`Abstract`) |
| `BundlingService` | the bundler, composed with the pool and its clients | instantiates `MempoolService` (`Mempool`) |
| `AbstractBundler` | what it promises those who submit operations | instantiated by `BundlingService` (`Abstract`) |
| `CustomTracer` | the tracer, and the machine whose execution it records | |
| `UserOpValidation` | the validation of an operation by its trace, and once more before it is bundled | extends `CustomTracer` |
| `Executor` | the calls of the Eth and the Debug API, composed with the pool and the reputation service | extends `MempoolService`, instantiates `ReputationService` (`Rep`) |
| `EthLookup` | the lookups of an operation and of its receipt by hash, as operators over a chain | extended by `MCExecutor` |
| `MC*` | constants for TLC: operations, jobs, entities, chains | |
| `Induction_proofs` | induction on numbers and on finite sets, and what a left fold computes | extended by the proofs that need it |
| `*_proofs` | theorems and proofs | extend their module and TLAPS; `Executor_proofs` also `MempoolService_proofs`, and instantiates `ReputationService_proofs` (`R`) over its own variables |

Definitions marked `\* Defect:` are altered forms of the definition that follows
or precedes them, with a bug the code might have. No behaviour uses them; they
show that the property they are listed with in `PROJECT.json` can fail.

### MempoolService

`index` is the record with the collection of keys, as a multiplicity: the code
appends to the array, filters it and measures it, and does not look at its
order. `store` holds the entry under each key. `pc`, `arg`, `keys` are a request
in flight: the await it is at, its operation, its copy of the collection. `out`
and `shown` are its answer.

`addUserOp` is `BeginAdd`, `FindReplace`/`FindTooLow`/`FindNew` (the awaited
`find` and the fee check), then `Replace`, or `CountKeys`, `CountAdmits`/
`CountRefuses` (`checkSenderCountInMempool`), `FetchAndPush`, `PutIndex`,
`PutEntry`; `UpdateSeen` ends it. `remove` is `RemoveKeys`, `RemoveDel`,
`RemovePut`; `clearState` is `ClearKeys`, one `ClearDel` per key, `ClearDrop`;
`dump` and `getSortedOps` are `DumpKeys`, `DumpMany`; `isNewOrReplacing` is
`CheckFind`. `Faults` switches on crashes, failing writes, and failing reads,
which the code takes for absent records.

The stake of a sender, which `checkStake` decides, is the constant `Staked`.
Fees are integers and `CanReplace` divides as the code does.

### ReputationService

`coll` and `entry` are the collection and the entries, `lists` the two lists.
The code stamps an entry with the time of its last update; the model keeps the
age instead, which `Tick` raises up to the age at which nothing is left of the
counts. `Loaded` is the synchronous tail of `fetchOne` in each caller: change
and save, or answer with a status. The getters round down as BigNumber does, the
ban rule rounds up, and `addToReputation` adds to the raw count and resets the
age (`ReputationEntry.ts:38-93`). `crashedHandleOps` is the job
`set (100, 0)`, `setStatus` the same code as `setReputation`. An address taken
off a list stays on it, because the result of `filter` is dropped
(`ReputationService.ts:197, 205`). Every read may fail when `Faults` has `"read"`
(`Read`), and is then the empty list, collection or no entry that its `catch`
makes of it.

### BundlingService

The constants of the pool are its own, and `Mempool` is an instance of
`MempoolService` over the same variables. A call `c` of `sendNextBundle` is a
request of the pool as well: at `dump`, `drop` and `cleaning` it waits for the
pool, and `PoolStep` is the part of that wait which only the pool notices.
Clients are the other requests; they submit operations with `addUserOp`.

| Code | Action |
|---|---|
| `mutex.runExclusive` (45) | `Call` queues, `Enter` is the head of the queue, `Leave` releases |
| `getSortedOps` (116), `compareByCost` | `Dumped`, `Sorted`: any order among equal fees |
| status of the paymaster and the factory, limit of two (126-166) | `PaymasterStatus`, `FactoryStatus`; `Drop`/`Dropped` remove a banned entity's operation, `Skip` passes it by |
| one per sender (168-176) | `SenderFree` in `FactoryStatus` |
| second validation (177-189) | `Validate`; it may fail, and the operation is dropped |
| deposit (190-210) | `Deposit`: read once per paymaster and bundle, charged per operation |
| `sendTransaction`, removals, hashes (60-90) | `Send` or `SendFails`, `Clean`/`Cleaned` for every operation, `Hashes` |
| a write of a removal fails | `RemoveFails` |
| `getStatus` (127, 149) or `balanceOf` (196) is rejected: the exception ends the call | `AskFails` |
| modes, interval, timer (221-260) | `SetBundlingMode`, `SetBundlingInterval`, `Tick`, `TryBundle` |

What reputation, validation and the chain answer is open: any member of
`Statuses` and `Deposits`, any outcome of validation and of the transaction. The
properties therefore hold whatever those services do. `asked`, `sent` and
`stuck` are history variables; no guard reads `sent` or `stuck`, and `asked`
only makes a client submit every operation once, which `NeverSentTwice` needs:
an operation submitted again after it was sent is a new one to the bundler.

An entry the sorted array holds twice (the collection may name a key twice after
concurrent additions) is judged once in the model: in the code its second copy
is skipped as a sender already in the bundle, or judged again with the same
right to any answer.

`AbstractBundler` is the bundler as those see it who submit operations: one waits,
until it is handed over in one step with the rest of a `Legal` bundle (one
operation per sender, the entities within their limits), or stops waiting for good. One
bundle is out at a time, and nothing is sent again unless the bundler got `stuck`
with it. Under the refinement mapping an operation waits (`Waiting`) that is
pooled, about to be saved, or in the hands of a call that builds a bundle, which
includes one that was replaced in the pool meanwhile; the `Batch` is what the call
that removes a bundle has sent.

### CustomTracer and UserOpValidation

The machine is the part of the EVM that the tracer's rules tell apart: the entry
point calls the factory, the account and the paymaster, one phase each (a phase
ends with its `NUMBER`); their frames execute opcodes, call any contract `Callees`
gives them, delegate, create the account, return, revert or run out of gas. `frames`, `phase`, `did`, `first` and
`ended` say what was really executed. `addrs`, `order`, `output`, `prevOp`,
`calls` and `numberCounter` are the fields of the tracer.

| Code | Definition |
|---|---|
| `step` (`customTracer.js`): hash of the opcode before, `GAS`, `SLOAD`/`SSTORE`, banned opcodes, `NUMBER` | `Stepped`, `StepRest`, with `Hashed`, `pSloadStore` |
| `enter`, `exit`, `initStorage`, the end of the first frame | `enter`, `exit`, `initStorage`, `stepEnd` |
| `parseCalls`; the data of the last call, `parseErrorResult` | `parseCalls`; `Results`, `Validated` |
| the rules on opcodes (109-123) | `UsesBannedOpcode`, in `TraceArrives` |
| the contracts of the trace in the order of their keys | `Refer`, `Referenced` |
| the rules on storage (133-205), in the order of the trace | `SlotCalls`, `Verdict`, `Asked`; `RefuseContract`, `EntityStaked`, `EntityUnstaked` |
| the paymaster's context, the deadline, the aggregator (206-245) | `ContractsPass`, `PaymasterStaked`, `PaymasterUnstaked`, `AfterCalls` |
| the hash of the referenced code (246-270) | `Prestate` |
| the second validation of a bundled operation | `Revalidate`, after any `ReplaceCode` |

An opcode stands for its class (`SLOAD` for `SSTORE`, too; `NUMBER` inside a
frame for any banned opcode). A slot is `Plain` or the hash of its input, an
address and a number. A `KECCAK256` that exhausts its frame leaves the caller with
the zero of the failed call on top of the stack, which `Hashed` records as the hash
of the lost input, and `IsSlotAssociatedWith` then finds every `Plain` slot within
128 of it; `did` keeps it as `"LOST"`. What `checkStake` answers is open, and so is
which result the data of a frame inside parses as when the first frame has run out
of gas and left no end (`Results`). `ran` and `replaced` are history: the code each
validation's trace ran, and the validations between the two traces of which code
was replaced.

### Executor and EthLookup

A call has a place of its own (`flow`), the operation or the reputations it is
`about`, its last `reply`, and the records as it found them (`before`, a history
variable). The steps of the services are those of their modules; where the pool
asks the reputation service (`checkStake` for a full sender, `updateSeenStatus`
for the paymaster and the sender) the pool's request waits and the other module
takes the steps.

| Code | Actions |
|---|---|
| `sendUserOperation` (`eth.ts:45-73`), `addUserOp` | `Send`, `Validated`/`Invalid`, `NotAdded`; `RoomLeft`, `AskStake`, `StakeAllows`/`StakeRefuses`; `CountPaymaster`, `CountSender`, `Counted`/`NotCounted`; `Hash` |
| `validateUserOp` (75-95) | `ValidateUserOp`, `FeesAllow`/`FeesForbid`, `Simulated` |
| `checkStake` inside `simulateCompleteValidation` (`UserOpValidation.ts:194, 218, 239`) | `AskEntity`, `Judged`/`JudgedAgainst`, before either's answer |
| `estimateUserOperationGas` (182-227) | `Estimate`, `EstimateGas`, `Estimated` |
| `clearState`, `setReputation`, the dumps (`debug.ts`) | `ClearState`, `ClearReputation`, `ClearEnds`; `SetReputation`, `SetNext`, `SetEnds`; `DumpMempool`, `DumpReputation`, `DumpEnds` |
| the bundler's removal of an operation | `Clean`, `CleanEnds` |
| the process starts again | `Restart` |
| `getUserOperationEvent`, `filterLogs`, `getUserOperationByHash`, `getUserOperationReceipt` | operators of the same names |

In `EthLookup` a transaction's logs are a sequence in which a
`UserOperationEvent` is the hash of its operation and every other log is `Other`;
a transaction may have been sent to its entry point or through another contract,
and may have used `handleAggregatedOps`, whose arguments have no `ops`.

## 3. Runs

All are in `PROJECT.json`; `*.cfg` has the constants. Sizes are distinct states.

| Run | Instance | Shows |
|---|---|---|
| `mempool_serial` (7,703) | 2 senders, 3 nonces, 8 operations (3 for one key), limit 2, one staked sender, one request at a time, no fault | `TypeOK`, `DumpAtRest`, `SenderLimit`, `FeesNeverFall`, `CallsReturn`, and `ImplementsPool`: the service implements `AbstractMempool` |
| `mempool_crash` (56,409) | 2 x 2 keys, one request at a time, crashes and failing writes | `NoOrphan` |
| `mempool_adds` (207,793) | 1 sender, 2 keys, 4 operations, two concurrent requests (add, dump, check), failing reads | `NoDangling` |
| `mempool_lost_update` | the same with additions and dumps, without faults | `DumpAtRest` is violated (section 6) |
| `mempool_fee_rounding` | one key, fees 14 to 18 | `TenPercentHigher` is violated (section 6) |
| `reputation_serial` (163,416) | 2 addresses, every job, one request at a time, crashes and failing writes, two hours of decay, counts 0 to 4 | `TypeOK`, `EntriesListed`, `ClearLeavesNothing`, `RefusedIsBanned`, `BanSticks`, `TimeNeverBans`, and `ImplementsLedger`: the service implements `AbstractReputation` |
| `reputation_dump` | 2 addresses, updates and status questions | `DumpAnswers` is violated (section 6) |
| `bundling` (1,060,220) | 4 operations of 3 senders, three with one paymaster that is the factory of the fourth, one client, one call at a time, all answers and failures to answer, deposits 2 and 4, modes, interval and timer | what a bundle may hold: `OnePerSender`, `TwoPerEntity`, `DepositCovers`, `DearestFirst`; `TimerMatchesMode`, `TypeOK` |
| `bundling_mutex` (100,976) | 2 operations, one client, two concurrent calls, failing writes | `OnlyHolderWorks`, `SentLeavesPool`, `NeverSentTwice`, `CallsEnd`, and `ImplementsBundler`: the service implements `AbstractBundler` |
| `bundling_auto` | 2 operations, one client, the timer only | `AutoModeBundles` is violated (section 6) |
| `simulation` (1,475,635) | every trace of an operation that creates its account, of one with a paymaster and of one with neither, with one contract beside the entities, 3 or 4 opcodes in frames up to 4 deep, one revalidation, code replaced at any time | the trace: `TraceTells`, `HashesOwn`, `CallsPaired`; an accepted operation: `AcceptedIsClean`, `AcceptedIsStaked`, `AcceptedCanBeSent`, `RanPinnedCode`; `TypeOK` |
| `executor` (1,157,487) | 1 sender with 3 operations (2 for one key), a paymaster, limit 1, one call at a time, validations that ask for stakes, crashes and failing writes; chains of one or two transactions with up to 4 logs each, two entry points | `AnswersHold`, `RefusedOnlyLists`, `BannedSenderLimited`, `ClearInOrder`, `PooledAreFound` |

### Why the bounds are enough for the cases that matter

- *Keys and operations.* Two keys are the fewest for which one request's copy of
  the collection can miss another's key; three nonces exceed the limit of two
  per sender; three operations under one key give a replacement that is allowed,
  one that raises a single fee only, and a chain of two.
- `MaxCopies = 2` bounds how often the array names a key. A key is named twice
  when two additions find no entry under it, so two is where duplicates start;
  with one request at a time it is reached only through failing writes.
- *Reputation.* The ban rule is where the numbers matter: with denominator 2 and
  a ban slack of 1 the quotient is rounded up for odd counts, a ban starts at 3
  seen, decay brings counts below it again, and all three statuses are reached with
  counts up to 4. One address has inclusions.
- *Bundler.* Three operations on one paymaster exceed the limit of two, and with
  the fourth, whose factory it is, the limit is exceeded in two roles; the small
  deposit pays for one operation of cost 2 or two of cost 1, the large one for all three. Two calls
  are the fewest that contend for the mutex.
- *Validation.* Three opcodes are what it takes to hash a slot's input, use the
  slot and do something else, or to leave a hash pending while a frame dies. Four,
  for the operation with neither factory nor paymaster, are what it takes for the
  loss to count: the token is called, calls back, the hash is lost in the frame it
  opened, and the token accesses a plain slot.
  Frames up to four deep give an entity calling a contract that calls or
  delegates to another: the entities call the token, the token calls the account
  back, the paymaster also the entry point (`SomeCallees`). Opcodes are one of each class: `SLOAD`, `KECCAK256`,
  `GAS`, `NUMBER`; frames run out of gas in the two that the tracer writes down
  one opcode late. With a context of one word the result is still kept whole,
  with two it is not. The revalidation has one opcode: what it adds is the hash taken
  before. The run does not check for deadlock: an operation that is refused, or
  accepted for the last time, really is done with.
- *Executor.* With a limit of one the second operation of the sender asks for its
  stake; the paymaster of one operation gives the count that may fail after the
  first. Without slack the sender is banned once an operation of it is counted, and
  `setReputation` frees it; `MaxCount = 2` lets it come back banned, `MaxListed = 2`
  be listed twice. `MaxCopies = 2` lets a key that a crash left without entry be added
  again. Two transactions and two entry points are the fewest for a lookup to
  find the wrong one, four logs for an operation to have some between the events
  of its bundle.

The wall clock of the largest run is two to three minutes on two workers.

## 4. Fairness

Only liveness properties need it. Weak fairness is assumed of the steps by which
the database, the chain and other services answer (`Step(p)`,
`BundlerStep(c)`, `ClientStep(p)`): every promise the code awaits settles, and
the event loop then runs what follows. It is assumed of `Tick` and `TryBundle`:
`setInterval` fires as long as the timer is not cleared, and a callback that is
due is run. Weak fairness is enough, because such a step stays enabled until it
is taken: no other request changes the `pc` of this one, and the head of the
mutex's queue stays at the head. No fairness is assumed of requests, of
`sendNextBundle` being called, of faults, or of the operator's settings.

## 5. Proofs

| Theorem | Module | For every instance that meets | Says |
|---|---|---|---|
| `TypeCorrect` | `MempoolService_proofs` | the named assumptions on the constants | `Spec => []TypeOK` |
| `AddsNeverDangle` | `MempoolService_proofs` | `OnlyAdds`: requests add, dump and check; reads may fail, writes and the process do not | `Spec => []NoDangling` |
| `SerialNeverOrphans` | `MempoolService_proofs` | `OneAtATime`: one request at a time, reads do not fail; writes and the process may | `Spec => []NoOrphan` |
| `SerialFeesNeverFall` | `MempoolService_proofs` | `OneAtATime` | `Spec => FeesNeverFall` |
| `SerialDumpsAll` | `MempoolService_proofs` | `NoFaultAtATime`: one request at a time, nothing fails | `Spec => []DumpAtRest` |
| `SerialImplementsPool` | `MempoolService_proofs` | `NoFaultAtATime` | `Spec => ImplementsPool` |
| `SerialWithinLimit` | `MempoolService_proofs` | `NoFaultAtATime` | `Spec => []SenderLimit` |
| `TypeCorrect` | `ReputationService_proofs` | the named assumptions | `Spec => []TypeOK` |
| `SerialEntriesListed` | `ReputationService_proofs` | `OneAtATime`: one request at a time, reads do not fail; writes and the process may | `Spec => []EntriesListed` |
| `SerialClears` | `ReputationService_proofs` | `OneAtATime` | `Spec => ClearLeavesNothing` |
| `SerialRefusals` | `ReputationService_proofs` | `OneAtATime` | `Spec => RefusedIsBanned` |
| `ClockNeverBans` | `ReputationService_proofs` | the named assumptions; any requests at a time | `Spec => TimeNeverBans` |
| `SerialBansStick` | `ReputationService_proofs` | `OneAtATime` and `CountsOne`: a call counts one operation | `Spec => BanSticks` |
| `SerialImplementsLedger` | `ReputationService_proofs` | `OneAtATime`, `CountsOne` | `Spec => ImplementsLedger` |
| `TypeCorrect` | `BundlingService_proofs` | the named assumptions | `Spec => []TypeOK` |
| `MutexHolds` | `BundlingService_proofs` | the named assumptions | `Spec => []OnlyHolderWorks` |
| `BundlerUsesPool` | `BundlingService_proofs` | the named assumptions | `Spec => UsesPool`, every run of the bundler is a run of the pool |
| `OnceHolds` | `BundlingOnce_proofs` | the named assumptions | `Spec => []OnceInv` |
| `SentOnesLeave` | `BundlingOnce_proofs` | the named assumptions | `Spec => []SentLeavesPool` |
| `SentOnce` | `BundlingOnce_proofs` | the named assumptions | `Spec => NeverSentTwice` |
| `SendersDiffer` | `BundlingService_proofs` | the named assumptions | `Spec => []OnePerSender` |
| `DearestComeFirst` | `BundlingService_proofs` | the named assumptions | `Spec => []DearestFirst` |
| `EntitiesShared` | `BundlingService_proofs` | the named assumptions | `Spec => []TwoPerEntity` |
| `DepositsSuffice` | `BundlingService_proofs` | the named assumptions | `Spec => []DepositCovers` |
| `BundlesImplement` | `BundlingOnce_proofs` | the named assumptions | `Spec => ImplementsBundler` |
| `ForgottenStayOut` | `BundlingOnce_proofs` | the named assumptions | `Spec => Abstract!ForgottenForGood`: what was refused, dropped, replaced or lost is never sent |
| `TimerRuns` | `BundlingService_proofs` | the named assumptions | `Spec => []TimerMatchesMode` |
| `TracerHolds` | `CustomTracer_proofs` | `TracerAssumption` | `TracerSpec => []TracerInv`, the inductive invariant |
| `TraceIsTrue` | `CustomTracer_proofs` | `TracerAssumption` | `TracerSpec => []TraceTells` |
| `HashesAreOwn` | `CustomTracer_proofs` | `TracerAssumption` | `TracerSpec => []HashesOwn` |
| `EveryTraceIsTrue` | `UserOpValidation_proofs` | and `ValidationAssumption` | `Spec => [](TraceTells /\ HashesOwn)`, in every validation of an operation |
| `AcceptedStaysClean` | `UserOpValidation_proofs` | the same | `Spec => []AcceptedIsClean` |
| `AcceptedHasStake` | `UserOpValidation_proofs` | the same | `Spec => []AcceptedIsStaked` |
| `CodeIsPinned` | `UserOpValidation_proofs` | the same | `Spec => []RanPinnedCode` |
| `SentHolds` | `UserOpValidation_proofs` | the same | `Spec => []SentInv`, the inductive invariant of calls and results |
| `ValidationTypes` | `UserOpValidation_proofs` | the same | `Spec => []TypeOK` |
| `CallsArePaired` | `UserOpValidation_proofs` | the same | `Spec => []CallsPaired` |
| `AcceptedIsSendable` | `UserOpValidation_proofs` | the same | `Spec => []AcceptedCanBeSent` |
| `CallsReachEntries` | `Executor_proofs` | `OneCall`: one call of the APIs at a time; writes and the process may fail | `ExecutorSpec => [](NoOrphan /\ Rep!EntriesListed)` |
| `CallsClearInOrder` | `Executor_proofs` | `OneCall` | `ExecutorSpec => []ClearInOrder` |
| `CallsAnswerTruly` | `Executor_proofs` | `OneCall` | `ExecutorSpec => AnswersHold` |
| `CallsOnlyList` | `Executor_proofs` | `OneCall` | `ExecutorSpec => RefusedOnlyLists` |
| `CallsLimitTheBanned` | `Executor_proofs` | `OneCall` | `ExecutorSpec => BannedSenderLimited` |
| `CallsFindPooled` | `Executor_proofs` | `OneCall`, operations are their own hashes | `ExecutorSpec => []PooledAreFound` |
| `AllShareOut` | `Executor_proofs` | `LookupAssumption`; each operation has one event | receipts share out the logs of a transaction of any length |
| `AllLookupsTell` | `Executor_proofs` | the same; any chain, any entry points failing | `LookupsTell` |

`ValidationHolds`, on which the theorems of the validation rest, is about the
inductive invariant `ValidationInv`.

The assumptions are named and stand beside the constants they are about. What
they say beyond types: limits and bounds are positive, `None` is no entity, no
number, no slot and no hash of code, a plain slot is no input of a hash, the entry points and contracts are finitely many, there is a
version of the code, batches hold settings of reputations only.

The bundler's theorems hold for any number of calls, clients and operations, any
faults but a crash (which ends the process, and the bundler's state with it),
and whatever reputation, validation and the chain answer.

**The arguments.**

*NoDangling* is not inductive: an addition at `putIndex` is about to overwrite
the collection with a copy it took earlier. `AddsInv` adds that this copy names,
besides its own key, only keys that are saved or about to be. Additions never
delete, so what was true of the copy when it was taken stays true.

*NoOrphan* and *FeesNeverFall* with one request at a time rest on `SerialInv`:
what the request has read (there is an entry it may replace, there is none under
its key) is still so when it writes, and the copy of the collection it is about
to save covers every entry that will be there. The order of the two writes
matters: the collection goes first when an entry is added, last when one is
removed, so that a request broken off between them leaves a key without entry,
never an entry without key. The reputation's `SerialInv` is the same argument.

*DumpAtRest* needs the converse as well, which faults break: `RestInv` says that
the two records agree except between the two writes of one call, and what the
request then holds makes them agree again. *ImplementsPool* adds `RoomInv`: the
collection a count or a dump reads is the one saved, so that what is counted
covers the sender's pending operations (`CountCoversPending`, an injection of the
pending ones into those counted) and the room found at the count is still there
when the entry is saved, three awaits later. *SenderLimit* is then proved of the
abstract pool (`PoolKeepsLimit`) and carried over by the refinement.

*ImplementsLedger* rests on `LedgerInv`: an address found without entry still has
none, and the entry to be saved is the ledger's, changed as asked. *BanSticks*
adds `AgeInv`, that this entry is no older than the one it replaces, though the
clock ticks between the two; it and *TimeNeverBans* come down to the monotony of
products and rounded quotients (`BannedStaysBanned`, `OlderIsNotBanned`).
*RefusedIsBanned* needs that an address which has no entry is not banned, whatever
the parameters (`FreshIsNotBanned`).

*OnlyHolderWorks* is inductive with the types. What the pool contributes to the
bundler's types (a dump shows operations) needs `PoolHolds`, a part of the
pool's own type invariant, proved again over the bundler's instance of it.

*NeverSentTwice* needs `OnceInv`: the bundle a call builds holds nothing that
was sent; an operation that was sent is out of the pool or still in the list of
a call that is removing it; an addition in flight is about an operation that is
neither pooled nor sent nor held; and, so that a removal can be seen to have
worked, entries lie under their own keys and the removal that is about to end
has deleted its entry. When a call reads the pool for a new bundle it holds the
mutex, so that no other call is removing, and every sent operation is out of the
pool it reads. The proof has a lemma for each group of steps and one
(`CallerOnce`) that reduces a step of a call to what it does to that call.

*ImplementsBundler* adds `SendInv`, which says what holds where a bundle is sent and
while it is removed. The steps of a call are of four kinds (`CallSteps`): it builds,
sends, removes, or ends. Building only makes operations stop waiting; `Send` is
the abstract `Bundle`, which is legal by `BundleInv` (`SentIsLegal`), finds no other
batch because only the head of the queue works, and whose operations wait or are
stuck by `OnceInv`; removing stutters; the end is `Done`, and `RemoveFails` adds what
is left of the bundle to `stuck`. *ForgottenForGood* is proved of the abstract
bundler and carried over.

*OnePerSender* and *DearestFirst* rest on `BundleInv`: the senders of the bundle
are among `task.senders`; the bundle, and the entries still to be judged after
it, are sorted; and a call that validates an entry has none of its sender. The
last part is what makes the check, made two awaits before the entry joins the
bundle, still true then.

*TraceTells* needs the tracer and the machine to agree on more than the trace:
the tracer's addresses are those of the open frames (`FramesInv`), its number
counter is the phase (`Numbered`), and what is executed is executed by contracts
that were entered (`DidInv`). `TracerInv` has a part for each field of the trace.
*HashesOwn* holds because what is on top of the stack after a `KECCAK256` is the
hash it left there, or, when the opcode exhausted its frame, the zero of the failed
call in the frame below (`HashInv`); that the frame below is the one whose record is
written is `FramesInv`.

*AcceptedIsClean* and *AcceptedIsStaked* carry `TraceTells` through the rules:
contracts before `next` are passed, and what each called for is in `staked`. A
revalidation starts the trace and `staked` anew. That a slot passed in silence
counts as the account's (`SilentSlot`) is what `HashesOwn` says of the hash it was
compared with.

*RanPinnedCode* needs `PinInv`: the validations before the one under way ran the
hash's code, or had it replaced (`Pinned`); the one under way ran what the chain
now has, or is in `replaced`; and there is a hash once a validation is over. The
hash is compared with the code of the second trace, so that it is the equality of
all three that carries the earlier validations over to the new hash.

*TwoPerEntity* and *DepositCovers* relate a counter to what it counts. `Counted`
says that a call's `count` of an entity is no less than the number of the bundle's
operations that name it, `Funded` that what is `left` of a deposit and what the
bundle costs are together what was `read`, and `LocalsHold` that there was room for
the entry now judged (`Room`), two awaits before it joins the bundle. `Charged` is a
fold of the community modules over the positions of the bundle; `ChargedCounts` shows
that it is the number of units of cost, to which `UnitsAdd` adds a position at a time.

*CallsPaired* and *AcceptedCanBeSent*. `parseCalls` is a left fold over the calls
of the trace, and says nothing of the fold of one call less until it is proved
that such a fold exists for each length (`FoldExists`; `ParsedNothing` and
`ParsedNext` are what it gives). With them `CallsInv` is inductive: the stack that
`parseCalls` ends with is the machine's open frames, and its pairs are the frames
that ended, in order. After the first frame's end, which the tracer may write down
or not, one more pair than frames may be listed. `ContextInv` and `ResultInv`
follow the paymaster's context from the frame that returned it to the length of the
result: 14 words without and 17 with an aggregator, so that when the entry point's
end is recorded (`addrs` is empty) only a result within the 499 bytes that are
kept, which has none, gets past `parseErrorResult`. Together they are `SentInv`.

*The executor.* `ExecutorInv` composes: the pool's and the reputation service's
`TypeOK` and `SerialInv`, which hold of their steps by the lemmas of their own
modules, and for each call in flight `CallAt`, which says where the three program
counters may stand together (`AboutAt`, `PoolAt`, `RepAt`) and what the call knows
there. `ClearAt`: the pool is empty from the moment its clearing answered.
`CountAt`: an entity counted in this call has an entry, and the operation it was
counted for is saved. `AdmitAt`: between `checkStake` and the write of the entry the
number of the sender's operations and its status are those that were read.
`TraceAt`: as long as the call may still refuse, the records are those it found, but
that entities of its operation without entry may have been listed (`OnlyLists`).
No other step changes a service's records while it is called, since there is one
call at a time; that is where the hypothesis is used.

*BannedSenderLimited* is about steps after which the pool's collection is sound
(`PoolSound`): it names every saved entry once and nothing else. The condition
came out of the proof. A key without entry, which a crash leaves behind, makes
`fetchAll` answer nothing (`MempoolService.ts:186`: `getMany` throws and the error
is swallowed), no sender is then found to have any operation, and a banned one is
not limited. `CallsReachEntries` and `SerialNeverOrphans` bound how bad this can
get: an entry that the collection does not name is never left behind.

*AllShareOut* needs the greatest of a finite set of positions to exist
(`GreatestExists`), and *AllLookupsTell* the least (`LeastNumber`).

*Induction.* The induction theorems of the library take an operator and cannot be
instantiated here. `Induction_proofs` states the same about sets: a set of numbers
with 0 and every successor holds all of them (`EveryNumber`, from `LeastNumber`,
from the well-foundedness of the numbers), a set of subsets of a finite set with the
empty one and every extension by an element holds all of them (`EverySubset`).

**Only model-checked**: the liveness properties `CallsReturn` and `CallsEnd`, and
the violated `AutoModeBundles`; they need fairness and ENABLED, which are out of
TLAPS's reach. Every invariant and every safety property of an action or
refinement that a passing run checks is stated by a theorem above.

## 6. What the models showed about the code

Disagreements between the code and a line of the repository, each with a run:

- `mempool_lost_update`: two concurrent additions read the same collection; the
  second save forgets the first key (`MempoolService.ts:73`). The operation was
  accepted and no dump shows it again; README.md:26 says that a dump dumps the
  current mempool.
- `mempool_fee_rounding`: `mul(11).div(10)` rounds down, so 16 replaces 15
  (`MempoolEntry.ts:54`); the comment at line 46 says at least ten percent more.
- `reputation_dump`: asking for the status of an address nobody has seen lists
  it without an entry, and every later dump throws
  (`ReputationService.ts:36, 109`).
- `bundling_auto`: all of `tryBundle` stands under `if (!force)`, `force`
  defaults to true, and the timer passes no argument (`BundlingService.ts:252`):
  auto mode never bundles.

Seen while modelling, without a line that says otherwise:

- With a crash among the faults `DumpAtRest` fails: a process that dies between
  the two writes of an addition leaves a key without entry, and every dump is
  empty until that key is added or removed again.
- With two requests at a time `FeesNeverFall` fails: of two replacements of one
  operation the lower one may be written last. Likewise an `updateSeenStatus` in
  flight undoes an operator's `setReputation`, and the ban with it.
- Decay takes milliseconds for seconds: an "hour" is 3.6 seconds
  (`ReputationEntry.ts:39, 47`). The model counts ages in the code's unit.
- `crashedHandleOps` sets 100 and 0, and with the default parameters
  ceil(100 / 10) is not more than the slack of 10: it bans nobody.
- With equal slacks `THROTTLED` is never the status of an entry, because
  `isBanned` is asked first.
- With inclusions counted, rounding lets decay ban or unban an address between
  two hours (106 seen, 1 included); `BanSticks` and `TimeNeverBans` are stated
  without inclusions for this reason.
- `dump` reports raw counts with a status computed from them, while `getStatus`
  uses decayed ones.
- `minStake` is compared with nothing and `minUnstakeDelay` is 0, so that the
  limit per sender binds banned senders only.
- Every status asked of an address without entry appends it to the collection
  once more.
- `remove` deletes by key: an operation that replaces a bundled one while the
  bundle is built or sent is deleted with it, unsent.
- A rejected `handleOps` changes nothing: `FailedOp(opIndex, reason)` has no
  `index` and no `paymaster`, and `crashedHandleOps(undefined)` returns at once.
  The same bundle is built again.
- Each operation's deadline is tested with `!= null ||` on a field the entry
  point's answer does not have (`UserOpValidation.ts:232`): none is refused.
- Whether a contract that touched several slots needs a stake is decided by the
  slot its trace lists last, because `validationFailed` is overwritten by each;
  only a slot that nobody may touch refuses at once (`UserOpValidation.ts:175`).
- A proxy's hashes are recorded for its implementation, whose code computed them,
  and its slots for the proxy, so that a slot of the account's mapping behind a
  proxy is not recognised as the account's.
- Of the hashes whose input starts with an address only the first is compared.
- A frame that runs out of gas in `GAS` has the use of `GAS` recorded for its
  caller, or not at all. One that runs out in `KECCAK256` has the zero on its
  caller's stack recorded as the hash (`customTracer.js:129-138`): if the input
  begins with the account's address, the caller's slots 0 to 127 count as the
  account's (`UserOpValidation.ts:151-153`), and an operation is accepted that used
  such a slot of a contract without stake. `AcceptedIsStaked` names the exception
  (`CountsAsAccounts`); without it the run `simulation` finds a counterexample.
- Code that is replaced between the two traces of one validation is pinned though
  another code was judged (`UserOpValidation.ts:91, 247`); `RanPinnedCode` fails
  in the same run without its exception for this.
- The account's own address is first entered in the factory's phase when it is
  being created, and is then judged as the factory (`number` 0).
- The hash of the referenced code covers the codes, not the addresses.
- A result with an aggregator (548 bytes), or with a context of two words and
  more, exceeds the 499 bytes the tracer keeps and is refused as unparsable.
- When the first frame runs out of gas it has no end in the trace, and the last
  end inside is taken for the result's: a contract that reverts with data that
  parses as a `ValidationResult` has the validation go on by it.
- Of a failed call `parseCalls` keeps the method only if one of the interfaces has
  it (`method.name` of a string, `UserOpValidation.ts:389`).
- `sigFailed` and `validUntil` of the result are not read.
- The first receipt of a bundle includes what the validation of the whole bundle
  logged, as it takes all logs up to its event.
- `calcPreVerificationGas` multiplies `perUserOpWord` by the number of bytes.
- `checkStake` of a sender with a full number of operations, and of an entity that
  validation asks for, appends it to the collection of addresses when it has no
  entry, whether the operation is then taken, refused or was only to be validated
  (`RefusedOnlyLists`); by `reputation_dump` every later dump throws.
- A read of the reputation service that fails is an absent entry, an empty list or
  an empty collection, and what is written next is based on it: `addToCollection`,
  `addToWhitelist` and `addToBlacklist` then forget everyone else
  (`ReputationService.ts:178-190, 222`), `clearState` leaves every entry (135), and
  counts start anew (33). With `"read"` among the `Faults` `EntriesListed` fails.
- The bundler reads a paymaster's deposit at the first operation's entry point and
  sends every operation to that of the first one (`BundlingService.ts:60, 195-198`).
- `compareByCost` turns a difference of fees into a number and throws for
  differences of 2^53 and more (`MempoolEntry.ts:127`).

## 7. What is not modelled

- *Validation*: the values of calls, which the trace never records; the sizes of
  contracts and the amounts of gas, which are only handed on; opcodes beyond the
  classes the rules tell apart. In the bundler the second validation's outcome is
  open, which includes what `UserOpValidation` does; that its `checkStake` lists
  addresses is modelled for the calls of the APIs (`EntitiesOf`). In the run
  contracts call only what `SomeCallees` gives them, in the theorems anything; a
  contract's own calls are of methods none of the interfaces has (`"other"`), and
  the account, factory and paymaster are called by their methods only by the entry
  point.
- *Failing reads of the reputation service*: modelled (`Read`), but no run switches
  them on and the theorems about one request at a time assume there are none,
  because little of what they say survives one (section 6). The executor's reads
  do not fail either.
- *Several entry points in the bundler*: all operations of the model are of one,
  which is where the code sends a bundle and reads deposits.
- *Eth API*: `calcPreVerificationGas` and `packUserOp`, which encode an operation
  and count its bytes; the chain's id and the list of entry points, which are
  constants.
- *Debug API*: nothing that changes state.
- *Database*: as records read and written by awaited calls that may fail. Opening,
  closing, namespaces and JSON are left out, and so is `LocalDbController`, which
  `app.ts` does not use.
- *RPC server, configuration, logging, types, contract bindings*: pure input and
  output, constants, or generated code. About 5,000 of the 8,249 lines of the
  implementation are type declarations and bindings generated from contracts,
  which no definition translates; of them only the layout of the results of
  `simulateValidation` is modelled (`ResultWords`).
- *A crash of the bundler.* Its mutex, mode and timer live in memory; a restart
  is a new behaviour over the same database, and the pool's crash is in
  `mempool_crash`. What a crash between `Send` and the removals does, the same
  operations sent again, follows from the code at once.
- *The spelling of numbers.* A key is made of the sender and nonce as the request
  spells them; the models identify operations by their values.

## 8. Plan

Still to write:

- The bundler with `ReputationService` in place of its open statuses: a status
  then changes while a bundle is built, and the clients' `updateSeenStatus` is in
  flight with it. Of it is to be proved that the limits of a bundle do not depend
  on when a status is asked.

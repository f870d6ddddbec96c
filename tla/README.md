# A TLA+ model of the fitbro execution engine

fitbro is a broker-neutral library that places, tracks and reconciles orders for
trading strategies. Its promise is safety: a signal is never sent twice, every order
that may be live can be enumerated after any crash, ambiguity is never guessed away,
and trading resumes only when local state and broker truth agree. This directory holds
TLA+ models of the parts that carry the promise, TLC configurations that check them,
and TLAPS proofs of the central results.

## 1. The system

The core is single threaded and synchronous: the main loop calls the dispatcher, the
resolver and the reconciler's applier. Concurrency enters through (a) the broker and the
network, (b) crashes and power cuts between durable steps, (c) reads that run off the
loop (`Reconciler::fetch`), (d) control commands (kill switch) from another thread, and
(e) several account processes that share files. The run loop itself is a stub in
`main.cpp`; the models therefore state the *components* and every order in which a
caller may use them within their documented contract.

### Inventory

| component (`src/src/...`) | state | operations | talks to | what is hard | what makes it correct |
|---|---|---|---|---|---|
| `runtime/dispatcher` | `unsent_refs_` | place, modify, cancel, square_off | index, log, store, broker, lifecycle | crash or lost answer between log, send, row and Result | one order per signal; record before send; honest UNKNOWN answers |
| `idempotency` | signature -> ref | reserve, register, rebuild_from_log | log, store | a reservation precedes its record | the index equals what a restart would rebuild |
| `intentlog` | file, `next_seq_`, `last_hash_` | open, append, replay | disk | torn writes, failed syncs, unsynced directory, read errors | acknowledged records stay enumerable; refuses only tampering |
| `runtime/unknown_resolver`, `unknown_pause` | none / set of refs | classify, adopt, resolve_all; mark, clear | broker, store, lifecycle | equal attributes, adapter memory lost by a restart, keys | an adopted id is the order's own; a saved resolution settles the row |
| `lifecycle` | `last_key_` per ref | apply, apply_child, fold_parent_state | all writers | order of views, terminal states | terminal absorbing (but for modify, section 5), forward progressing |
| `reconcile/reconciler` | `last_snapshot_key_` | fetch (off loop), apply (on loop) | broker, lifecycle | snapshots overlap placements and each other | nothing missed, nothing taken back, blocks only over disagreement |
| `reconcile/recovery` | none | recover | load_state, session, broker, applier | double fault, repeated recovery | resumes only on reconciled orders |
| `reconcile/manual_intervention`, `corporate_actions` | none | detect; adjust | snapshot | bot's own cancels, rounding | classification agrees with causes |
| `store` | SQLite tables | open, open_or_rebuild, reset, insert, upsert, find | disk | damage, half-applied migration | never drops on a mere read failure |
| `ledger` (audit trail) | hash-chained file, signed checkpoint | append, load, verify_chain, eod_report, verify_against_checkpoint | disk, keys, boot | failed write and failed rollback, power loss, outside change | never refuses its own file, acknowledged entries stay, a prefix signed by the checkpoint in place cannot be changed |
| `modes/*` (kill switch, posture, mode) | kill set, queue, posture | submit, drain, replay; transitions | control thread, loop | persist / enqueue / crash | an acknowledged kill is durable, and in force for the rest of the process's life; nothing restores it after a restart (section 5) |
| `ratelimit/*` | tokens, breaker | try_acquire, record_429, record_success | clock | integer refill, reserved exit pool | an exit is never starved by entries |
| `accounts/shared_refdata_cache`, `platform/file_lock` | artifact, lock file | load, publish; acquire, touch, release | other processes | stale-lock takeover | readers see whole, valid artifacts |
| `boot`, `session/safe_start`, `sessionguard`, `supervisor` | verdicts, crash count | checks, decide, plan | all | order of gates, crash loops | fail closed; breaker trips exactly when due |
| `options/*`, `slicing` | leg states | basket, hedge first, sliced leg, slice | seams | ambiguous legs, compensation | never a short without its hedge; slices sent once |
| `protection/stop_supervisor` | stop state | evaluate_protection | broker | repeated evaluation | no double exit, no unprotected position unnoticed |
| `marketdata`, `feedsub`, `health`, `clock` | ticks, token phases, status | on_tick, on_reconnect, sample | feed | late ticks, skew, reconnect | stale data is never called Live |
| `isolation/strategy_book` | positions per strategy | record_fill, square_off | fills | netting, exits that fail | books sum to the account |
| `risk`, `priceband`, `marginsafety`, `modifyguard`, `composition/engine_assembly` | limits, budgets | preflight_entry, preflight_modify | store, refdata | order of gates, a probe with a side effect | no gate is skipped |
| `adapters/kite`, `adapters/kotak` | correlation maps, session | place, modify, cancel, square_off, fetch_* | HTTP | maps in memory only, unreadable rows | errors classified; unreadable is never confident |
| `secrets/token_store`, `session` establishment | token file | save, load | disk | two processes, crash | old or new token, never a mixture |
| `alerting`, `observability`, `cli`, `config`, `refdata`, `domain`, `errors`, `capabilities`, `brokerreason`, `fillnorm` | mostly none | formatting, parsing, tables | - | - | pure or I/O |

`PROJECT.json` lists each with its status and every hazard at its line.

## 2. Modules

| module | models | state and actions |
|---|---|---|
| `Lifecycle` | `lifecycle.cpp` | pure operators: the transition table, `canonical_observed`, `apply`, `fold_parent_state` |
| `Dispatch` | dispatcher, idempotency index, resolver, and the log, store and adapter as they see them | below |
| `OrderOnce` | the promise of the write path | abstract specification that `Dispatch` implements |
| `IntentLog` | `intent_log.cpp` | lines, syncs, power cuts |
| `Reconcile` | reconciler, applier, resolver, recovery | below |
| `Store` | `store.cpp` | open and open_or_rebuild probe by probe, both migrations, reset, all writers, one transaction per step |
| `Ledger` | `ledger.cpp` and the step of boot that opens it | append in its system calls with rollback and seal, load, chain, checkpoint, outside changes |
| `FileLock`, `SharedRefdata` | `file_lock.cpp`, `shared_refdata_cache.cpp` | one system call per step of each process; the cache extends the lock |
| `FillNorm`, `RestErrors`, `BrokerAdapter` | `fill_normalizer.cpp`; `error.cpp`, `kotak_errors.cpp`, `rejection_classifier.cpp` and both REST clients; both broker adapters | the first two are operators; the third has place, modify, fetch and flatten against a book |
| `ConfigLoad`, `TokenStore`, `Supervisor`, `Startup` | `config.cpp`; login and `token_store.cpp`; supervisor policy and plan; `main.cpp`, `boot.cpp`, `boot_checks.cpp`, `safe_start.cpp` | `Startup` composes the other three: one account from main() to its run phase |
| `KillSwitch`, `Limiter`, `Preflight`, `Controls` | `killswitch.cpp`; `rate_limiter.cpp`, `endpoint_limiter.cpp`; `engine_assembly.cpp` with posture, session guard, calendar, funds, risk, band, margin and modify guard; the order loop | `Controls` composes the other three |
| `Basket`, `HedgeFirst`, `SlicedLeg`, `StrategyBook`, `StopSupervisor`, `Options` | `basket.cpp` and `margin_shock.cpp`; `hedge_first.cpp`; `sliced_leg.cpp` and `freeze_slicer.cpp`; `strategy_book.cpp`; `stop_supervisor.cpp` | five independent machines; `Options` runs one of them per behaviour, as they share no state in the repository |
| `MCDispatch`, `MCStorage` (log, store and cache side by side), `MCBrokerAdapter`, `MCStartup`, `MCControls`, `MCOptions` | - | instances for TLC |
| `Dispatch_proofs`, `Reconcile_proofs`, `Ledger_proofs`, `Storage_proofs` (`Store`, `SharedRefdata` and `IntentLog`), `Controls_proofs`, `Startup_proofs`, `Options_proofs`, `Adapter_proofs` | - | the theorems of section 4 |

A definition whose comment begins with "Mutant" is a wrong variant of the operation it
stands before; the checks put it in that operation's place to see a property fail.

**Dispatch.** A mutation runs `append -> wait -> persist -> result -> idle`; the cuts are
where the broker or a crash can come between two effects. `Place` is `reserve()` plus the
branch on the reservation; `RecordIntent` is the append that succeeded, the removal from
`unsent_refs_` and the adapter's tag registration; `RecordIntentFails` is the early return
with the ref remembered; `Acked`, `Rejects`, `Ambiguous` are what the adapter returns, as
`is_reconcile_first` splits it; `PersistPlace`, `PersistModify`, `PersistCancel` are the
row writes with their failures; `RecordResult` is `append_result`. `Resolve` is the
resolver with all rungs of `classify`. `Crash` loses memory, `Restart` is replay plus
`rebuild_from_log` plus `open_or_rebuild`. Repeated signals that are answered from the row
or with a synthesized UNKNOWN change nothing and are therefore no step; the answer itself
is `SynthesizedUnknown`. A signal's attributes are one value, `Attr`. The broker serves a
request at most once and may be reached by one the client gave up on (`late`).
Nothing stands between a caller and `modify`: `preflight_modify` (engine_assembly) has no
caller in the repository, so `Modify` has no guard on the row's state.

**IntentLog.** A file is a sequence of lines; hashes are attempt numbers (SHA-256 assumed
collision free). A failed append leaves nothing, a fragment, a record without newline, or
the record. A power cut keeps any prefix that includes everything synced; a file whose
directory entry was never synced may be gone.

**Reconcile.** Broker orders are named by ref or `Foreign` (placed by hand). `Fetch` takes a
snapshot off the loop, `ApplySnapshot` is the whole of `ReconcileApplier::apply`. `block`
is `block_new_orders` of the last snapshot that was not stale. The local orders are the
projection's rows: callers load them, pass them to apply and save them. `load_state` is
taken at its contract: a placement that was in flight when the process died is loaded as
UNKNOWN. The safe-start gate is an arbitrary Boolean. Fetches overlap everything
(reconciler.hpp: fetch runs off the loop) and successive snapshots have keys `Stride` apart
(reconciler.hpp: callers set a snapshot's key high). `quiet` and `raced` are history
variables the properties use: the last step was a fetch; the resolver ran while a snapshot
was in flight. In `IntentLog`, `retried` is one: a process went on appending after a failed
append.

**Store.** A step is one SQLite transaction or one probe; a transaction is applied whole or
not at all and survives a death. A transient SQLite error may end any step. The world
damages pages, loses a table or damages the `user_version` stamp; initial files come from
this build, an older one, a newer one, or are absent.

**Ledger.** A hash is the sequence of payloads it covers (no collisions). `file` is what a
process death leaves, `disk` the set of contents a power loss may leave. `append` is cut into
write, sync and rollback, each of which can fail, the rollback included (the ledger then
seals itself). `scrub` and `canonical_text` are conversions: free text does not enter the
chain as it came. `Edit` is a change of either file from outside, between two appends of a
running process or while it is down: the file shortened, altered or replaced, the checkpoint
deleted, garbled, signed with another key, or any one this ledger ever published put back.
`signed` (history) is what the last checkpoint signed; when a start accepts the loss or the
rollback of that one, it becomes what the checkpoint in place signed.

**FileLock, SharedRefdata.** A file is known by its nonce, `whole` says its payload parses,
`old` that it is beyond the staleness window. The takeover is modelled in its three stages
(claim by rename, take the name, judge) with the undo. `sound` is a history variable: it
turns false when a live owner outlives the window, or a takeover claims a fresh lock.

**BrokerAdapter.** One mutation at a time, a fetch beside it. The correlation maps are memory
and a restart loses them. A fetched row may miss its total, fill, side or status. `late`
requests were given up on and may arrive. Kite recognises its exits by tag, Kotak by id and
then by shape. `blind` and `forgot` (history) record when the evidence a flatten or a
correlation rests on was defective; `stranger` among them says that Kotak's second rung, or a
name a fetch gave, took a foreign order of the same shape for our exit.

**Startup.** Between any two steps the faults of the world and the configuration may change.
The rows of the projection change in the run phase, by the operator while the account is down,
and by the reset of a damaged projection, which drops them all; `open` (history) is the set of
orders that are open at the broker, `lost` says that a reset dropped one of them. main() and boot() each load the configuration. The supervisor
counts down to a restart; the operator logs in, repairs, acknowledges and starts. The token
file lives in a small file system with separate durable contents and names. A power loss
takes the supervisor's plan with it, which is memory only. The broker roster that
`require_config_consistent` also checks is left out.

**Controls.** The loop drains kills at the top of an iteration and again before it
dispatches. That loop is not code: it is the caller killswitch.hpp:138-142 prescribes. A
submit is validate, persist, push, with a crash between any two, and `Start` begins with no
kills, as main.cpp:436-446 does. Pre-flight is a chain of stages that ends at the first refusal; the margin stage is a
step of its own, as time and fills come between. The engine is composed from differently
wired dependencies and starts only if `make_engine` accepts them. `exitLane` (history) is a
bucket of the reserved size that only exits draw from.

**Options.** Each executor calls seams that may succeed, be refused, be ambiguous or fail;
what is live at the broker is separate from what the executor is told. A basket passes
`evaluate_margin_shock` first, as margin_shock.hpp:6 documents it; no production code composes
the two. A sliced leg with a probe has no other protection against a second send; one without
has the store's UNIQUE(client_ref). Orders of the strategy book carry a price of their own,
and the marks it values positions at move.

## 3. Runs

All runs set `CHECK_DEADLOCK FALSE`: bounds on crashes, log length, faults and budgets end
every behaviour, and an idle engine may wait for ever. Every passing property is broken by
at least one wrong variant of an operation (`mutants` in `PROJECT.json`); a property that is
a conjunction of named parts has one for each part that is about behaviour.

| run | checks | what it shows |
|---|---|---|
| `Dispatch_safety` | the invariants of the write path, `DispatchInv`, `ImplementsOrderOnce` | two signals, three refs, a failing log and database, lost and late requests, a crash anywhere: one order per signal, recorded before it is sent |
| `Dispatch_resolution` | `TerminalAgreesWithBroker`, `OnlyModifyReopens`, `ResolutionSettles` | broker movements, modifies, cancels and square-offs of orders in any state with ambiguous answers: Filled and Cancelled rows agree with the broker, only an ambiguous modify takes a row out of a terminal state, a saved resolution settles its row |
| `Dispatch_reopened` (violated) | `TerminalAbsorbing` | an ambiguous modify of an order that is over makes its terminal row Unknown, against lifecycle.hpp |
| `Dispatch_alike` (violated) | `AdoptedIdIsOwn` | with two signals of equal attributes the third rung gives a row the id of the other's order, against unknown_resolver.hpp |
| `Reconcile_safety` | `NothingMissed`, `FillsNeverRegress`, `QuietBlockIsReal`, `ResumedIsReconciled` | fetches overlap placements, cancels, resolutions and each other: a clean snapshot misses nothing, fills are not taken back, a block means a disagreement, recovery resumes reconciled |
| `Storage_safety` | `LogTypeOK`, `AckedIsEnumerable`, `RefusesOnlyAfterRetry` | intent log: every acknowledged append is enumerable after every successful boot, and replay refuses the log's own file only after an append on top of a failed one |
| | `StoreInv`, `NothingIsDestroyed` | projection: only real damage costs a row, the stamp agrees with the schema, a rebuild is reported, a refused file is left alone |
| | `CacheInv` | shared cache: two siblings, a corpse, failures and deaths at every system call; one winner and one download while `sound` |
| `Adapter_safety` | `FlattenIsSafe`, `AnswersAreTrue` | both adapters: repeated flattens never exit more than was filled and a success means flat; names, terminal states and definitive errors (but those of `MayHideLive`) are true of the broker |
| `Startup_safety` | `TokenIsSafe`, `EngineOverVerifiedWorld`, `SupervisionHolds`, `CrashLoopEnds` | from main() to the run phase: no engine over open orders unless a reset lost them, an absent account is never silent in the supervisor's life, a crash loop ends, the token file is whole |
| `Controls_safety` | `KillsHold`, `ExitNeverStranded`, `EntryIsJudged`, `LimiterHolds`, `ThrottleEnds` | in one life of the process no kill is lost and it lands before the next entry; an acknowledged one is durable; exits are stopped only by a panic kill or their own empty bucket; no entry passes for want of an input |
| `Options_safety` | `BasketIsSafe`, `HedgeIsSafe`, `SlicesAreSafe`, `BookIsSound`, `StopIsSound` | the executors and books under every answer of their seams |
| `Ledger_safety` | `LedgerInv`, `SignedPrefixHolds` | no failure of its own leaves a ledger the next start refuses or loses an acknowledged entry, and an outside change of the signed part stops the next start, unless the checkpoint itself was deleted or rolled back |
| `Options_orphan` (violated) | `NoOrphanedLegs` | a dependent leg whose unwind fails stays live and the loop goes on to unwind the hedge it depends on, against basket.hpp |

Provisos inside passing properties, all of them behaviours of the code: `FillsNeverRegress`
excludes a resolution that races a snapshot (its key `last + 1` ranks below the key of a
snapshot fetched earlier, which then takes the fill back) and a row that could not be read
(an Unknown view carries fill 0). `UnsentNeverSent`, a part of `DispatchInv`, says never
*sent*: a record whose sync failed may be in the file although its ref is in `unsent_refs_`.
`CheckpointStaysReached` excludes a power loss that takes back an unsynced tail an
intermediate process had loaded and checkpointed. `NeverExitsMoreThanFilled` excludes a Kotak
exit whose row is unreadable or was renamed and a request that arrives after the read.
`CorrelationIsRight` excludes, for Kotak, foreign orders and a lost registration, also one an
error retired while the order was live. `DefinitiveMeansNotLive` excludes the errors of
`MayHideLive`. `NoEngineOverOpenOrders` excludes orders that a reset dropped. `SignedPrefixHolds`
is about the checkpoint in place once the last one was deleted or rolled back.
`CapHoldsOneAtATime` excludes overlapping orders, a price under the mark and a moved mark,
`LoneExitNeverOvershoots` what its name says.

**Bounds.** Two signals suffice for every collision of signals, attributes or refs; the
third ref leaves one to mint after a crash. `MaxLog` 3 holds two placements and the
Result or the touch between them. One crash separates two processes; what matters to a
second crash (the log, the rows, the book) is already arbitrary after one. `MaxKey` bounds
resolutions whose save fails. `MaxAttempts`/`MaxBoots` allow a failed append, a repair, an
interrupted repair and an append after it. `Reconcile` has one ref and the foreign order:
orders of different refs meet only in the pause and the block, and both hold for all orders
at once. `Lots` 2 gives a partial fill that can be taken back, and three snapshots can be in
flight together. `SharedRefdata` has two processes plus the corpse of a third, and twice as
many nonces as names in use. The adapters' budgets (`MCBrokerAdapter`) give a flatten, its
repetition and a restart or a fetch between them, or two entries to tell apart; `Qtys` 1 and
2 make partial fills and orders of equal and of different shape; `kMaxPendingIntents` 2 (256
in the code) makes eviction happen. The budgets of `MCStartup` hold two faults with
restarts between them, two logins with a death and a power loss, or kills, runs and
acknowledgements; `MaxRestarts` 2 is the smallest breaker with a backoff that grows.
`Controls` has one deviation of the world at a time from a calm one, a second of four ticks,
and rates and cooldowns of one and two. `Options` runs baskets of up to three legs, two
strategies on two symbols, and three attempts at a sliced leg. `Ledger` has two entries and
three faults: a failure, a failure of its repair, and one afterwards. `Store` has two keys,
two values and three faults. The marks of the strategy book move
to 2 and orders are priced 1 or 2, so that one may be under its mark. Symmetry, over refs,
signals and processes (which differ by name only), is used in
`Dispatch_safety`, `Adapter_safety` and `Storage_safety`, which check no liveness.

**Fairness.** None is assumed of the write path: `resolve_all` has no production caller and
stops at the first order it cannot resolve, so `ResolutionSettles` says what a resolution does
and not that one comes.
`Startup_safety` (`CrashLoopEnds`): weak fairness of the boot steps, of time and of the
restart that is due. None is assumed of repairs, logins or the operator. `Controls_safety`
(`ThrottleEnds`): weak fairness of time only. It needs a configured rate of at most 1000 per
second; above that `refill_period_for` returns 0 and the bucket never refills.

## 4. Proofs

Every theorem is about arbitrary constants: sets of signals, refs, processes and orders of
any size, chains, logs and books of any length. Each safety theorem rests on an inductive
invariant that was model-checked on the instances of section 3 before it was proved; proofs
have one lemma per action.

| module | theorem | states |
|---|---|---|
| `Dispatch_proofs` | `TypeCorrect`, `InvCorrect`, `NoDuplicateOrders`, `RecordBeforeSend`, `UnknownAnswersAreHonest`, `ResumeIsSafe` | `TypeOK`, `DispatchInv`, `AtMostOneOrderPerSignal`, `SentIsRecorded`, `UnknownAnswerIsRecorded`; a ref that may be resumed was never sent |
| | `RowsAreTrue`, `RejectionsAreFinal`, `AdoptionIsOwnOrAlike`, `TerminalIsTrue`, `TerminalRowsStay`, `ResolutionsSettle` | `RowInv`, `RejectedIsNotLive`, `AdoptedIsOwnOrAlike`, `TerminalAgreesWithBroker`, `OnlyModifyReopens`, `ResolutionSettles` |
| | `DispatchImplementsOrderOnce` | `ImplementsOrderOnce`: with intents read off the log and orders off the book and the late requests, every step is a step of `OrderOnce` or a stutter |
| `Storage_proofs` | `StoreIsSound`, `NothingIsLostByMistake` | `StoreInv`, `NothingIsDestroyed` |
| | `OneWinnerOneDownload` | `CacheInv` |
| | `LogInvariant`, `LogTypesHold`, `AcknowledgedIsEnumerated`, `RefusalNeedsRetry` | `LogIInv`, `LogTypeOK`, `AckedIsEnumerable`, `RefusesOnlyAfterRetry` |
| `Reconcile_proofs` | `ReconcileInvariant`, `ReconcileTypeOK`, `BrokerTruthWins`, `ResumesReconciled`, `FillsAreKept`, `QuietBlocksAreReal` | `ReconcileInv`, `TypeOK`, `NothingMissed`, `ResumedIsReconciled`, `FillsNeverRegress`, `QuietBlockIsReal` |
| `Ledger_proofs` | `LedgerIsSound`, `SignedPrefixIsKept` | `LedgerInv`, `SignedPrefixHolds` |
| `Controls_proofs` | `KillSwitchHolds`, `EntriesAreJudged`, `ExitsAreNeverStranded`, `SendLimiterHolds` | `KillsHold`, `EntryIsJudged`, `ExitNeverStranded`, `LimiterHolds` |
| `Startup_proofs` | `TokenFileIsSafe`, `SupervisorKeepsItsDuty`, `EngineIsComposedOverVerifiedWorld` | `TokenIsSafe`, `SupervisionHolds`, `EngineOverVerifiedWorld` |
| `Options_proofs` | `HedgeFirstIsSafe`, `BasketsAreSafe`, `StopsAreSound`, `SlicedLegsAreSafe`, `BooksAreSound` | `HedgeIsSafe`, `BasketIsSafe`, `StopIsSound`, `SlicesAreSafe`, `BookIsSound` |
| | `TopologicalOrderIsSound`, `SliceIsSound` | what `topological_order` accepts puts every leg once and behind its prerequisites; what `slice` returns adds up to the parent within freeze quantity and lot, with references of its own |
| `Adapter_proofs` | `FlattensAreSafe`, `AdaptersTellTheTruth` | `FlattenIsSafe`, `AnswersAreTrue` |

**Assumptions.** `ConstantsAssumption` (refs and the sentinel differ, bounds are naturals,
switches are Booleans) and its counterparts `LockConstants`, `LedgerBounds`, `StoreBounds` and
so on, which type the constants; `PreflightAssumption` and `ControlsAssumption`, which say of
orders and sources what the C++ types say of them. `BasketsAssumption`, `StopAssumption` and
`SliceAssumption` do the same for legs, positions and instruments. The others say more:
`LimiterAssumption` that configured numbers are C++ ints; `BookAssumption` that exchange prices
are not negative; `AdapterAssumption` that a client reference is not the empty string (the Kotak
adapter keeps no intent for an empty one, kotak_broker_adapter.cpp:579) and that quantities have
a largest one; `RepliesAssumption`, of the seams of a basket, that an acknowledged request took
effect and one refused for good did not, which is what `AdaptersTellTheTruth` proves of the
adapters but for the errors of `MayHideLive`.

Some theorems have a hypothesis, the same that the run checks the property under:
`TerminalIsTrue` needs `AttrTellsApart` (no two signals have equal attributes, or the
broker reports none); the other theorems of `Dispatch` hold for every assignment of
attributes. `BrokerTruthWins` needs
`KeysLead` (a process resolves fewer orders than the keys that callers leave between two
snapshots); `ResumesReconciled` needs `~ResolvesBlocked`; `TokenFileIsSafe` needs `AtOnce = 1`
(logins of an account do not overlap); `EngineIsComposedOverVerifiedWorld` needs
`ArgRoot = "good"` (main is given `--data-root`; without it main and boot each take the root of
their own load of the configuration, and the file may change in between). Section 5 says what
the code does outside them.

**Arguments.**

* `Dispatch`. `AtMostOneOrderPerSignal` alone is not inductive: whether `Place` may send
  depends on memory that a crash erases. `DispatchInv` ties them: the log and the index bind
  signals and refs one to one (`LogBindsOneToOne`, `IndexBindsOneToOne`), the index agrees
  with the log (`IndexAgreesWithLog`), an index entry is recorded, or known unsent, or in its
  append (`IndexIsJustified`), whatever is live is recorded (`SentIsRecorded`) and nothing
  unsent is live (`UnsentNeverSent`), a ref is live at most once (`LiveOnce`), the placement in
  flight owns its signal (`InFlight`), and the unsynced remainder of a failed append was never
  sent (`TailNotSent`). For the rows, `RowInv` adds what the request in flight knows: its
  answer says whether its order is live (`RequestIsOwn`), the verdict follows from the answer
  (`VerdictIsFounded`), and a row, its id and its fill are those of its own order or of one of
  equal attributes.
* `IntentLog`. `AckedIsEnumerable` speaks of the last replay; the invariant is about the file:
  hashes grow along it, every line but the last is ended, what was acknowledged is whole,
  ended and below `synced` unless a line before it is spoilt for good, and while no append was
  retried the lines form one chain that ends at the cursor.
* `Reconcile`. Keys order everything: the engine's keys are those of snapshots or of few
  resolutions (`KeysOK`, `EngineKeys`), the book is ahead of every row and of every snapshot
  (`BookAhead`, `SnapsAhead`), a snapshot holds what a fetch may have read (`SnapsOK`). What
  `LifecycleEngine::apply` does with a fetched row is one lemma: keep or take over.
* `Ledger`. Every content the medium may hold, and the one a running append would cut back to,
  is whole lines and at most one torn or unterminated (`Shape`) and holds all that was
  acknowledged (`FilesSound`); memory is a prefix of the file, equal to it where an append may
  start and to the old file while one runs (`MemoryInFile`); a flushed line continues the chain
  (`FlushedIsNext`). `SignedPrefixHolds` needs that an absent checkpoint signs nothing
  (`AbsentSignsNothing`) and that in a verified chain every hash covers the ones before (`ChainPrefix`, by the least position that would not: `LeastElement` gives induction over
  positions from the well-foundedness of < on the naturals).
* `Store`. `StoreInv` and the survival of rows are tied by why an opener is at the step it is
  at: it migrates only what it found (`OpenerIsRight`), drops only what was harmed
  (`DropNeedsHarm`), and the trigger column follows the stamp unless that was damaged.
* `SharedRefdata`. Nonces of processes and files differ; while `sound`, an old lock has no live
  owner, a claimed file was stale, and whoever acts by the lock's name owns it.
* `Controls`. `KillsHold` needs that a command between persist and push is in the journal, and that
  what this life acknowledged is in force or in the queue;
  `EntryIsJudged` that an order waiting for its margin was judged on this very world, that the
  engine passed `make_engine` and that a held funds snapshot is what the broker said last.

* `TokenStore`. The token file's name and its durable name both point at a synced, whole file
  of a login that succeeded, and the durable one is not the newer (`FilesWhole`); the login that
  saves has come as far as its step says (`SaveIsOnCourse`), and no name is an inode a later
  login would take (`EntriesApart`).
* `Startup`. `SupInv`: the supervisor knows whether the process runs, waits only for one that is
  down and for none that failed closed. `RowsInv` and `TreeInv`: what the checks saw of the rows
  and of the data root stays so until the engine is composed.
* `Limiter`. `LaneInv`: the bucket of orders is in phase with the imagined bucket that only exits
  draw from, and holds no less. `StormInv`: from the threshold on the breaker has a trip for every
  429 of the storm, saturating at the largest int, and is open for the rest of its cooldown; that
  the cooldown grows with the trips and is capped is a fact about a recursive function.
* `Basket`. While legs are placed, those behind the cursor have prerequisites that were executed
  (`PlacedInOrder`); while they are unwound, what is live is still ahead of the cursor or named in
  the alert (`UnwoundInOrder`). Both need that the order is topological. For `kahn_queue` this is
  shown from its rounds: a leg enters the queue only when all it waits for are in it.
* `HedgeFirst` says how far the executor has come (`HedgeOnCourse`). `StopSupervisor`: as long as
  no exit was emitted beside a working one, there is at most one and it closes no more than the
  position (`AtMostOneExit`); the working amount is a sum, and signs and the smallest integer are
  cases of their own.
* `SlicedLeg`. References at the broker and in flight differ (`ReferencesApart`), and while one
  instrument was used the broker holds the first children of its slice and the next is in flight
  (`SamePlan`).
* `StrategyBook`. Every position is worth what was paid for it up to a slack that grows by what a
  blend rounds away (`PositionsAreSound`), the books' nets add up to the account and what is being
  flattened (`NetsMatch`), and an order admitted alone still has its room when it fills
  (`RoomIsKept`).
* `BrokerAdapter`, the deeds. Rows only move on: they keep their purpose, fills are not taken
  back, dead rows stay (`Later`). What a flatten or a fetch holds is an earlier book. Every exit
  takes at most what its parent filled, and the parent is dead (`ParentOK`). Of every purpose, an
  entry's reference or an exit's parent, at most one request is in the book, late or in flight
  (`Alone`), unless the flatten was blind in one of the ways the property names; a refused one is
  nowhere.
* `BrokerAdapter`, the names. A Kite tag is the hash of an entry's name or an exit's (`RightTags`).
  For Kotak, whose rows are told apart by shape, every entry that may be at the broker is bound to
  its row or its intent is still pending under the shape it was placed with (`Held`), and rows
  that are not bound were not modified (`Unmodified`). So a row of some shape that is corroborated
  by one pending intent is that intent's order.

Recursion. What a recursive function computes is found without induction schemes over
operators: a counterexample would have a least index (`WFMin` over the naturals), which its
predecessor contradicts. The lemma `Recursion` gives, from a value at 0 and a step for every n,
a function that unrolls to them; `CHOOSE` then means that function. Back-off, cooldown, powers
of two, Kahn's rounds, sums along a sequence and `drop_pending` rest on it. `ByRemoval` is its
counterpart for sums over finite sets.

Only model-checked: `CrashLoopEnds` and `ThrottleEnds`, which are liveness under fairness and
need `ENABLED`. `NoOrphanedLegs`, `TerminalAbsorbing` and `AdoptedIdIsOwn` are false
(section 5). Every other property of a run is stated by a theorem.

## 5. Known disagreements

Met while modelling; each says what the code does and the line that says otherwise. The first
three have a run of their own (`Options_orphan`, `Dispatch_reopened`, `Dispatch_alike`); for the
others the passing runs exclude the case, by a constant or a proviso, and the text says which.

* `basket.cpp:329`: a failed unwind leaves a dependent leg live and its hedge is unwound
  next, against basket.hpp:5 ("NO ORPHANED LEGS") and :36-38.
* `dispatcher.cpp:317`: an ambiguous modify sets a terminal row to Unknown, against
  lifecycle.hpp:95-96. `preflight_modify` would refuse the modify and has no caller.
* `unknown_resolver.cpp:88`: the third rung takes the first broker order of equal attributes,
  also one that carries another order's ids, against unknown_resolver.hpp:29-31.
  `AdoptedIsOwnOrAlike` bounds it.
* `unknown_resolver.cpp:195`: nothing in the repository calls `resolve_all`, and it returns at
  the first error, so one order that cannot be resolved keeps the later ones UNKNOWN. No
  property says that an UNKNOWN order is resolved in the end.
* `kite_rest_client.cpp:213-272`, `kotak_errors.cpp:422-452`: answers whose comments say that
  the order's fate is uncertain become definitive errors. Kite lets the error_type and the
  statuses 401, 403 and 429 decide before 5xx (a 5xx that names TokenException, a throttle);
  Kotak calls a 400 or a 401 whose body it cannot read invalid or a dead session, and then
  retires the order's intent, after which the live row can be given another's name.
  `MayHideLive` lists these errors; `DefinitiveMeansNotLive` and `CorrelationIsRight` except
  them.
* `store.cpp:573`, `main.cpp:461`: a projection found damaged is reset, every open order in it
  is gone and the boot goes on; `needs_rebuild` reaches only that process's health snapshot.
  store.hpp:117 and :217 say the caller must replay the intent log, and no caller does.
  `lost` excepts it in `NoEngineOverOpenOrders`.
* `main.cpp:436-446`: persisted kills are not replayed at start, as the comment there says; a
  kill engaged before a restart is in the journal and not in force. `KillController::replay`
  has no caller and is not modelled. Nor does any code drain the queue: the loop of `Controls`,
  and its second drain before a dispatch, are the contract of killswitch.hpp:138-142.
* `supervisor_plan.hpp:145`: the plan is memory. A power loss of the host forgets counts,
  alarms and waiting restarts; `SupervisionHolds` is about one life of the supervisor.
* `ledger.cpp:840-846`: a deleted checkpoint is taken for one never written, and an older one
  of ours with its older file verifies, so a truncated chain opens in both cases. The comment
  there claims only the first start; the signature has nothing to tell them apart by.
* `dispatcher.cpp:260`: an error that is neither reconcile-first nor do-not-retry is stored as
  Rejected, against dispatcher.hpp:108 ("treated conservatively as Unknown (reconcile)"). The
  model has it (`Rejects` with "other"), and takes such an error for a verdict: nothing is live.
* `engine_assembly.hpp:258`: the documented `duplicate_probe` calls `reserve()`, which
  registers the signal, so the placement that follows answers a synthesized UNKNOWN
  (dispatcher.cpp:174-177 assumes a recorded intent). The models wire no such probe.
* `intent_log.cpp:327`: an append after a failed append makes a file that replay refuses,
  against intent_log.hpp:57-59. `RefusesOnlyAfterRetry` is the proviso.
* `intent_log.cpp:376`: replay reads until `fread` returns 0 and never asks `ferror`; a read
  error passes for the end of the file, against :355-360. Reads do not fail in `IntentLog`.
* `reconciler.cpp:260`: an order acknowledged while a fetch is under way is counted as
  vanished, against :255-259 and reconciler.hpp:107. `QuietBlockIsReal` speaks of snapshots
  applied at once.
* `recovery.cpp:98`: a second `recover()` fetches under key 1 again; broker truth for an order
  whose key has grown is dropped as stale and the engine resumes, against recovery.hpp:10 and
  :63. `ResolvesBlocked = FALSE` excludes it.
* `file_lock.cpp:366`: the undo of a takeover frees the name (line 333) before it renames the
  claimed lock back, which can replace a lock created in between, against file_lock.hpp:68-72.
  `sound` excludes it.
* `main.cpp:311`: main() exits 70 (a human is needed) for a directory that cannot be created,
  which boot.cpp:339 classes as a crash to be retried; main.cpp:245 says no decision there is
  load-bearing. The model has both behaviours; `SupervisionHolds` shows the alarm.
* `token_store.cpp:198`: the temporary name has no pid, against :194; two logins at once can
  publish an empty file, against :186. `AtOnce = 1` excludes it.
* `strategy_book.cpp:206`: two orders admitted before either fills exceed the cap together,
  against strategy_book.hpp:20-22; so does an order whose price is under the mark its fill is
  valued at (the price is the caller's, the mark the seam's), and a mark that rises.
  `CapHoldsOneAtATime` is the proviso.
* `store.cpp:572`: `needs_rebuild` is reported only to the open that reset the tables; a death
  before the replay leaves empty tables that the next open calls fine (store.hpp:113-133 lets
  the caller re-apply on that report). `check_tables` does not look at the trigger column, so a
  version-1 file whose stamp was damaged to 2 opens and every order write fails.
* `endpoint_limiter.cpp:26`: `1000 / per_sec` floors the period, which makes the rate slightly
  higher than configured; endpoint_limiter.hpp:41 calls the flooring "never permissive".
* `lifecycle.hpp:115`: a parent reads Filled while only its first child is known to the engine.
* `freeze_slicer.cpp:76`: child references do not carry the freeze quantity; a replay after it
  changed can send another total. A rerun is modelled only after reconciliation settled the
  open request, as the header asks. `stop_supervisor.cpp:78` re-arms a full-size exit beside a
  working one. `hedge_first.cpp:70` leaves an ambiguous hedge without an alert. The headers
  describe these three as intended.

Hazards beyond the forty in `PROJECT.json`, with the part that speaks of them: a row that
cannot be inserted after an acknowledgement (dispatcher.cpp:262, `SentIsRecorded`); tag maps
lost by a restart (kite_broker_adapter.cpp:638, `AdoptedIsOwnOrAlike`); a log whose name is not
durable (intent_log.cpp:279, `AckedIsEnumerable`); keys of resolver and snapshots
(unknown_resolver.cpp:116) and refused views (reconciler.cpp:226; `FillsNeverRegress`,
`NothingMissed`); a double fault in recovery (recovery.cpp:110, `ResumedIsReconciled`); deaths
inside a takeover (file_lock.cpp:289, `NoTwoWinners`); a look-up before the lock
(shared_refdata_cache.cpp:377, `NoFetchAfterPublish`); the exit of an exit
(kite_broker_adapter.cpp:784, `NoExitOfAnExit`); eviction of pending intents
(kotak_broker_adapter.cpp:578, `CorrelationIsRight`); a configuration that changes between
main and boot (main.cpp:276, `OneTree`); a login that loses a field (kotak_session.cpp:381,
`StoredSessionIsUsable`); 429 storms (endpoint_limiter.cpp:106, `StormBacksOff`); absent checks
(engine_assembly.cpp:203, `NoVacuousEntry`); a hedge that lapses (hedge_first.cpp:114,
`NakedShortIsRaised`); rounding of average cost (strategy_book.cpp:55, `PnlIsConserved`); the
magnitude of the smallest integer (stop_supervisor.cpp:100, `CrossedIsCovered`); a death inside
a line (ledger.cpp:478) or a checkpoint (ledger.cpp:820; `LedgerInv`); stamps out of range
(store.cpp:262, `RefusedStays`). Not covered by any property: the unlocked maps that a fetch
reads while place() writes them (kite_broker_adapter.cpp:651, a data race whose outcomes
include a crash); two entries judged against one funds snapshot (funds_view.cpp:41) and a
calendar kept past midnight (trading_calendar.cpp:324), both of which the code permits; an
exit of a squared-off book that never fills (strategy_book.cpp:129); late ticks after a
reconnect (resubscribe_guard.cpp:70) and a tick from the future (market_data.cpp:37).

## 6. What is not modelled, and the plan

Not modelled: the market-data side (`marketdata`, `feedsub`, `health`, `clock`), whose
detectors enter `Controls` as signals and `Startup` as faults; `alerting`, except the alerts
that properties name; manual intervention and corporate actions, pure functions without state
of their own; trades, positions and funds of the adapters; trading modes, capabilities and
instrument parsing, static tables; observability, CLI and the health endpoint, output only;
the fake broker, a test double. Left out for good: JSON, HTTP and wire formats, SQL text,
redaction rules, SHA-256 and encryption, formatting and logging, command-line text and the
stubbed run loop. Several accounts under one supervisor are independent in the code, so
`Startup` has one.

Open, in order:

1. Abstract specifications: a durable list that `IntentLog` and `Ledger` implement, a "broker
   truth wins" contract for `Reconcile`.
2. A `Feeds` module (market data, resubscription, watchdog, skew detector).

# Verification of the Bybit copy trader

TLA+ models of the copy-trading engine in `src/app`, the TLC configurations
that check them on small instances, and proofs of the most important properties
for every value of the constants. Paths below are relative to `src/`.

The engine listens to one *master* account over a private websocket and repeats
what it does on every *follower* account over HTTP. It is one asyncio process:
code between two awaits is atomic, everything else interleaves with the exchange,
the followers' tasks, the clock and the end of the process. HTTP calls run in
threads, so a call whose caller gave up may still arrive.

## Inventory

| Part | State | Operations | What makes it correct |
|---|---|---|---|
| `main.py` | none of its own | load state, validate followers, hydrate deduper, run the connection | nothing is served before the memory of the last process is restored |
| `exchanges/websocket_manager.py` | stop event, backoff attempt | `run_forever`, `_connect_once`, `_heartbeat`, `_read_loop`, `stop` | reconnects for ever until stopped, and stops when told to |
| `exchanges/execution_listener.py` | none | `handle_message`: per event check and mark, record, publish | each event at most once, checkpoint before dispatch |
| `core/dedupe.py` | ordered dict of key and time | `check_and_mark`, hydration, eviction by age and by number | a key is suppressed exactly for its TTL |
| `core/state_manager.py`, `RuntimeStateManager` | state in memory and its JSON file | `load`, `record_*`, `flush` | the file holds what a restart needs |
| `core/state_manager.py`, `PositionSyncStateManager` | trigger types, last desired state per symbol | `observe_order`, `trigger_by_for`, `should_dispatch` | unchanged state suppressed, changed state never |
| `core/event_bus.py` | subscribers | `subscribe`, `publish` | one handler's failure stays its own |
| `core/event_models.py` | none | normalization, fingerprints | two events are equal exactly when they are the same |
| `core/sync_engine.py` | none | execution, order and position handlers | the right request to every follower |
| `core/risk_engine.py` | settings | `Phase4ExecutionMirrorPolicy`, `Phase3PositionSyncPolicy` (`Phase2MirrorPolicy` is used by nothing) | opens, closes and reversals are told apart |
| `core/follower_manager.py` | executors, semaphore | one task per follower, results recorded | a follower's failure stays its own |
| `exchanges/order_executor.py` | none | `mirror_market_open`, `mirror_market_close`, `sync_position_settings` | never opens when closing, never twice, never too much |
| `exchanges/bybit_client.py`, `utils/retry.py` | retry attempt | the API calls | retries do no harm |
| `exchanges/instrument_cache.py` | metadata and its date per symbol | `get_spec` | never older than its TTL |
| `utils/precision.py` | none | `normalize_order_quantity` | the largest orderable quantity |
| `config.py`, `constants.py`, `logger.py`, `utils/helpers.py` | settings | parsing, output | - |

Interaction: websocket -> listener -> deduper, runtime state (file) -> event bus
-> sync engine -> policies -> follower manager -> one executor per follower ->
client -> Bybit. The read loop awaits each message to its end, so the whole chain
handles one event at a time; only the followers of one event run concurrently,
at most `follower_replication_concurrency` at once.

Hard behaviour: a crash between mark, checkpoint, dispatch and order; replays
after reconnects; lost replies and retries of orders that were taken; positions
read before an order and changed before it executes; acknowledgement ahead of
execution; topics overtaking each other; a slow follower in front of all others;
caches dated before an await. `PROJECT.json` lists each at its line.

## Modules

| Module | Models | State and actions |
|---|---|---|
| `WebSocketManager` | `run_forever`, handshake, read loop, heartbeat, stop, reconnect backoff | `pc` is the await `run_forever` is at; `link`, `inbox` are the socket; `heart` the heartbeat task; `attempt` the backoff's counter |
| `EventDeduplicator` | the ordered dict | operators on a sequence of `[key, at]`, oldest position first |
| `EventIntake` | startup, listener, runtime state | `pc` is the await the process is at; `seen`, `memKeys`, `disk` are the three copies of the memory of past events; `batch` the rest of the message, empty when a malformed row made the whole message raise; one action per step of `handle_message` and per case of `load`, plus `Tick`, `Crash`, `PowerLoss`; `Init` covers persistence on and off |
| `OrderQuantity` | `normalize_order_quantity` | operators on multiples of the smallest quantum |
| `InstrumentInfoCache` | `get_spec` and sizing for one follower | a call is idle, requested, answered or sized; the metadata in force may change at any time |
| `MirrorPolicy` | the master's executions and the Phase 4 policy | operators |
| `ExecutionCopies` | the promise of mirroring (abstract) | a follower copies an execution at most once, at most its quantity |
| `PositionCopies` | what mirroring makes of a follower's position when nothing goes wrong (abstract) | `through` counts the executions a follower is through with; one step takes it through the next as a whole |
| `MirrorExecution` | sync engine, follower manager, executor, retrying client, exchange | `active` are the followers that passed startup validation; `task[f]` is the await a follower's task is at; `wire`, `book`, `used`, `pos` are the exchange; `masterPath` are the positions the executions led the master through |
| `CopyPipeline` | `EventIntake` and `MirrorExecution` as `main.py` assembles them | the variables of both; the steps they share are publishing, the return of the handlers, the flush of results, and the end of the process |
| `PositionSync` | Phase 3: deduper, position sync state, policy, executor | `stream` is what is on its way over the websocket, which may repeat what it sent, or break with what it holds; `seen` the fingerprints in the deduper, of which those in `unsaved` did not reach the file; `trigger`, `desired` the memory of the process; `task[f]` as above |
| `MC*` | - | instances for TLC |
| `*_proofs` | - | theorems of the module they extend |

Refinements tie the modules together. `MirrorExecution` implements
`ExecutionCopies` (identity on `trades` and `copied`) whatever fails. Without faults,
and with executions as prompt as the acknowledgements, it also implements
`PositionCopies`: a follower is through with an execution when its task is
(`Through`), and an order on the book counts as executed (`PosToBe`). That is the
statement that the awaits between position check, metadata, order and result, and
the order in which followers, exchange and master take their steps, do not show in
anybody's position. `CopyPipeline` implements
both of its parts, with an execution's number for its fingerprint: whatever is proved
of the intake and of the mirroring, each against an environment that may do anything,
holds of the assembled engine. The other modules meet at a call: what `EventIntake`
does with a message is `handling` in `WebSocketManager`, and an order's quantity in
`MirrorExecution` is `OrderQuantity`'s.

`masterPath`, `copied`, `handledAt`, `abandoned`, `forgotten`, `lost`, `heard`, `goneAt` and
`outage` are history variables: no action of the engine reads them.

Definitions that say "Mutant of" are plausible bugs. No specification uses them;
replaced for the definition they name, each makes the property paired with it
in `PROJECT.json` fail.

## Runs

| Run | Checks | Bounds |
|---|---|---|
| `EventIntake` | `TypeOK`, `NoReplayWithinTTL`, `DispatchIsDurable`, `SuppressedWasAccounted` | 3 keys in a deduper of 2, so the capacity bound evicts; messages of 2, so a failing write drops a rest; clock 1..3 with TTL 1, so entries expire and the boundary is met; 1 process end, also with an unreadable file; persistence on and off |
| `EventIntakeExpiry` | `ExpiredKeyIsNew` violated | 2 keys, no process end |
| `InstrumentInfoCache` | `TypeOK`, `OrderQtyIsLargest`, `SpecIsRecent` | 3 instruments (free, capped off-step, capped on-step), quantities around their bounds |
| `MirrorFaults` | `TypeOK`, `SubmittedIsTaken`, `AtMostOneCopy`, `CloseNeverOpens` | 1 follower (followers share nothing but the semaphore), 2 executions of up to 2, so that there is an open, a close, a reversal; 2 attempts; one replay, restart or manual trade |
| `MirrorExposure` | `FollowerWithinMaster`, `CopiedExactly`, `CopiesInSteps` | 5 executions of up to 3 against a market maximum of 2: scale-ins, partial closes, reversals, clipping |
| `MirrorFillLag` | `FlatWhenMasterFlat` violated | one open, one close, no fault |
| `CopyPipeline` | `CopyIsRemembered`, `EngineReadsOn`, `MarkedIsSettled` | 1 execution, delivered as often as the clock 1..3 and TTL 1 let it, and 1 process end; 2 followers behind a semaphore of 1, so that one waits for the other; 1 attempt, for retries are in `MirrorFaults`; one side, for the sides are symmetric; 5 mishaps, a bound that is never reached |
| `PositionSync` | `SettingsAligned` | 2 followers, 2 leverages, 2 stops, 2 trigger types, 3 changes |
| `PositionSyncFaults` | `TypeOK`, `DesiredIsCurrent`, `DesiredGoesForward`, `SyncedIsSet`, `SyncReturns` | 1 follower, 2 changes, so that an old event can come after a new one; the master is flat, or long with a stop and one leverage or without and the other (`TwoSettings`), 1 trigger type; every call may fail, connections break at any moment with what is on its way or buffered, checkpoints fail after the mark, the process may end, topics come in any order, the position may close, and one event at a time, taken or lost, may be repeated, however late |
| `PositionSyncReopen` | `SettingsAligned` violated | 1 follower, 1 leverage, 1 stop, 2 trigger types, 3 changes; no fault and the topics in order, but the master closes and reopens |
| `WebSocketManager` | `TypeOK`, `EndsOnlyWhenStopped`, `StopEnds`, `Reconnects` | any number of outages of up to 4 failures each, with an exponent of 3 that counts exactly as many; 3 buffered messages, so that one is handled, one waits and one is malformed |
| `WebSocketOutage` | `EndsOnlyWhenStopped` violated | the real exponent, 1023, and an outage of up to 1025 failures |

`CHECK_DEADLOCK FALSE` stands where the system may stop: in the mirror, pipeline and
position configurations everything may come to rest once the master has made its last
bounded move, and in those of the connection the process ends when it is told to.
Symmetry is used in safety runs only: over fingerprints in `EventIntake` and over
followers in `PositionSync`.

What the passing runs show is in the comment above each property. Some things
they show are worth stating with their conditions.

- `NoReplayWithinTTL` excepts keys in `forgotten`: fresh entries dropped by the
  capacity bound, lost with an unreadable file, or never persisted. These are all
  the ways in which a fresh key is given up, and the run shows there is no other.
- The age of an entry is tested in three places. `persisted_event_keys` compares it with a
  cutoff (`IsPersisted`), the two of `dedupe.py` are one expression (`Fresh`);
  `NoReplayWithinTTL` fails if the former is strict, and the lemma `TestsAgree` shows them equal.
- `CopyIsRemembered` is the same promise from end to end: an execution that any
  follower has an order for is in the state file, so that a process started at that
  moment would not mirror it again, until its TTL is over or its entry is given up.
- `CopiesInSteps` is checked with an instrument that has a maximum and no minimum to speak
  of. What a minimum does to one order is `OrderQtyIsLargest`; that it does not show in
  the interleavings either is only proved (`CopiesAreSteps`, for every instrument). A
  close below the minimum is skipped and leaves the follower above the master, by design.
- `FollowerWithinMaster`, `CopiedExactly` and `CopiesInSteps` assume that an
  acknowledged order is executed before the next position read (`PromptFills`);
  `MirrorFillLag` shows what happens otherwise. The first also assumes close
  clipping, which is the default.
- `SettingsAligned` holds when the topics arrive in order, no event is lost or repeated,
  calls succeed and the master does not reopen; the last is refuted by `PositionSyncReopen`.
- `DesiredIsCurrent` does not say that nothing is lost, for that is false: an event is
  marked before its checkpoint is written (`execution_listener.py:44` and `:59`), so when
  the write raises it is never handled, its repetition is suppressed, and the
  connection goes with all that is buffered behind it, while the desired state stays.
  The property says that suppression adds nothing to this: the desired state is the
  master's unless the event of the master's position is in `lost`, or the event
  handled last was lost once and repeated after newer ones, which the code takes for
  new (`event_models.py:167`; no sequence is compared). A lost event leaves `lost` when it
  is handled and nothing newer has been seen.
- `DesiredGoesForward` excepts the same late repetitions, and no others: an event that
  was taken and is repeated within the TTL is suppressed, also by the next process.
  Without the deduper, or with a fingerprint that holds the message id, an old state
  would become the desired one. Both properties need the fingerprints to survive a
  restart: persistence on, a readable file, no entry expired or evicted.
  `EventIntake` is about the ways in which they do not.
- `SyncedIsSet` allows a call to raise and be carried out all the same, at once; see below.
- `EndsOnlyWhenStopped` holds as long as no single outage is longer than the backoff
  can count; `WebSocketOutage` is one that is.

### Findings

1. **An expired key can go on suppressing** (`app/core/dedupe.py:45`). A duplicate
   is moved to the end with its old time; expiry pops from the front and stops at
   the first fresh entry. (`EventIntakeExpiry`)
2. **A close can be lost behind its open** (`app/exchanges/order_executor.py:436`).
   The close reads the position before the acknowledged open has executed, is
   skipped as `skipped_no_position`, and nothing reconciles. (`MirrorFillLag`)
3. **A reopened position gets no stop** (`app/core/state_manager.py:210`). The
   last desired state is not cleared when the position ends. (`PositionSyncReopen`)
4. **A long outage ends the engine** (`app/utils/retry.py:32`). The delay is computed
   before it is capped: at the 1025th failure in a row, after some eight and a half
   hours of half-minute waits, `2 ** attempt` no longer fits a float, and the
   `OverflowError` leaves `run_forever` from inside its exception handler.
   (`WebSocketOutage`)

### Hazards no property covers

- `order_executor.py:245`: a sync that set the leverage and then found no position
  counts as healthy. It is a classification that no document defines.
- `websocket_manager.py:39`: a connection that the exchange closes gracefully is
  opened again without delay. Delays are abstracted to waits that end, so how often
  a step is taken in a time cannot be said here.
- `event_models.py:125`: the trigger type after a repeated order event. The fingerprint of an
  order holds the message id, so the repetition is observed again; the code promises
  nothing for it, and `SettingsAligned`, which compares trigger types, is checked without
  repetitions.
- `order_executor.py:203`: a `set_leverage` or `set_trading_stop` whose reply timed out and
  that is carried out during a later sync. It is not modelled.

## Fairness

Nothing is assumed of the master, the clock, the replies, acceptance and fills of
orders, or restarts. What is assumed:

- `CopyPipeline`, `PositionSync`: `WF` on the steps of the reader and its handlers,
  and on those of each follower's task. The event loop runs what can run, and every
  HTTP call ends, with an answer or an exception, because the client has a timeout.
  So `EngineReadsOn`, `MarkedIsSettled` and `SyncReturns` hold against an exchange
  that never answers. `EventIntake` and `MirrorExecution` state safety only.
- `WebSocketManager`: `WF` on every wait of `run_forever`, which all have a timeout
  or, in the case of the handler, are `EngineReadsOn`; and on the heartbeat, which
  sleeps for a fixed time. Two assumptions are about the other end, and external:
  the exchange closes a connection that sends no pings (`CloseIdle`; the code asks for
  it with `max_active_time`), and the network layer gives up a ping into a dead link
  in the end (`NoticeLoss`). `StopEnds` needs the first, as the read loop never looks
  at the stop event; `Reconnects` the second, as `ping_interval=None` leaves only the
  application's own pings.

## Proofs

Checked by TLAPS for every value of the constants allowed by the modules' ASSUMEs
(positive TTL, capacity, attempts and concurrency, natural bounds, specs with a positive
step, a master that goes through settings an account may have, a `None` that is neither
a request nor an event).

- `EventIntake_proofs`: `IntakeTypeCorrect`, `NoReplay`, `CheckpointBeforeDispatch`,
  `SuppressionIsAccounted`. `NoReplayWithinTTL` is not inductive: before the check
  one must know that the deduper *covers* every recent dispatch (holds an entry at
  least as late), before that, that the rest of the hydration loop still will, and
  before that, that memory and file do. `IntakeInv` says this for each stage of
  the process (`VolatileInv`, `MemoryInv`, `HydrationInv`, `ServingInv`, `EventInv`)
  together with the order of times (`TimesInv`) that makes the later of two entries
  of a key win when they are hydrated. The lemmas on the ordered dict come first in
  the same module.
- `OrderQuantity_proofs`: `NormalizedIsLargest`, the arithmetic of clip and round.
- `InstrumentInfoCache_proofs`: `CacheTypeCorrect`, `SpecNeverStale`,
  `OrdersAreLargest`, from `CacheInv`: a cached entry, or an answer on its way, was in
  force at its date.
- `MirrorExecution_proofs`: `MirrorTypeCorrect`, `SubmittedOrdersAreTaken`,
  `ClosesNeverOpen`, `AtMostOnce`. `MirrorInv` adds to them that requests and orders
  ask for what their execution asks for (`OrdersInv`), that an accepted order holds
  the one link id of its execution and nothing was traded for it before
  (`LinksInv`), that a running task belongs to the present execution (`TasksInv`), and
  that a reply a task takes is a reply to its own request (`RoundsInv`). `AtMostOnce`
  is the refinement: every step is one of `ExecutionCopies` or a stutter.
- `MirrorPositions_proofs`, which goes on from there: `CopiesAreSteps` is the refinement of
  `PositionCopies`. Its invariant `PromptInv` says that a task's quantity is what its
  follower's present position asks for (`PlanInv`), that there is one order per
  follower and execution, and that nothing of one execution is left when the next is
  checked (`OrderInv`). What follows is proved of the abstract specification, where an
  execution is one step, and carried over: `FollowersStayWithinMaster`,
  `FollowersAreFlatWithMaster` and `PlainTradesAreCopiedExactly`, with `PathInv` (the
  executions lead the master from one position of `masterPath` to the next) and
  `OneOrderInv` (a follower's position is at most one order). The first two need more
  than the absence of faults, and each hypothesis is needed: only executions of
  type `Trade`, for the others are not mirrored; clipped closes; every whole quantity
  orderable (`Lot.step = 1`, `Lot.min <= 1`), for a close below the minimum is
  skipped; and no adding to a position when there is a maximum, for a close is clipped
  to one order.
- `CopyPipeline_proofs`: `ImplementsIntake` and `ImplementsMirror` are the refinements:
  each step of the engine is a step of the part or leaves it alone. `CopiesAreRemembered`
  follows from `PublishedInv` (an order exists only for what was dispatched) and the
  intake's durability, through the first refinement.
- `PositionSync_proofs`: `SyncTypeCorrect`, which rests on the rule that a task works on
  a request a policy made (`RequestInv`). `DesiredStateIsCurrent` speaks of rest, when the
  stream is empty; the invariant behind it, `KnownInv`, speaks of every moment and has
  three parts. What is on its way is the master's, and what is new there comes
  in the order of its sequence (`StreamInv`); what has been seen is
  older than what is new, except what was lost (`ForwardInv`); and the event of the master's
  present position is on its way, or lost, or the desired state is already what it asks
  for, unless the event handled last had been lost (`DesiredInv`).
  `DesiredNeverGoesBack` is the action property beside it, from `ForwardInv`. `SyncedMeansSet`
  rests on `LeveredInv`: as long as a task has met no error, its follower has the leverage.
  `SettingsStayAligned` speaks of rest too, and relates what every follower has to all
  that is still under way. `AlignedInv` follows the stream: each event leads to the
  next, and the last is the position the master has (`ChainInv`); none will be
  suppressed (`FreshInv`); the engine has dealt with all before the first, so every
  follower's side and the remembered trigger type are those it builds on
  (`CaughtUpInv`); every follower has what was last desired, or as much of it as its
  task has come to (`SyncedInv`); and once the stream is empty that is the master's
  (`LastDesiredInv`). It holds under `Undisturbed`: leverage, stops and empty stops are
  copied, no faults, no event lost or repeated, topics in order, a master that does not
  close. Without any one of the seven TLC finds the settings of a follower out of line.
- `WebSocketManager_proofs`: `ConnectionTypeCorrect`, in which the heartbeat lives
  exactly as long as its socket, and `EndsOnlyByStop`, under the assumption
  `MaxOutage <= MaxExponent + 1`, by `BackoffInv`: the attempts counted never exceed
  the failures of the present outage.

The inductive invariants were checked with TLC before they were proved.

Every invariant a passing run checks is a theorem as well. Only model-checked are the
liveness properties (`SyncReturns`, `EngineReadsOn`, `MarkedIsSettled`, `StopEnds`,
`Reconnects`): fairness and ENABLED are out of TLAPS's reach. Induction over data stays
with TLC as well, which is why the positions of the master are a history variable and
not a recursive function of its executions.

## Assumptions and what is left out

- The wall clock does not go back (the code uses `time.time()`). Hydration has no
  await, so the clock stands still in it.
- One symbol in one-way mode. Event fingerprints are opaque in `EventIntake`; what the
  three kinds of fingerprint tell apart is in `PositionSync`.
- A market order executes in full and once; a reduce-only order executes at most
  what there is to reduce. This and link-id uniqueness are what the code relies on
  Bybit for; actions of the exchange and the accounts are marked external.
- A retry's delay is not modelled, only that other steps come between attempts. The
  same holds for the delay of a reconnect.
- In `WebSocketManager` a link dies without a sign only while the heartbeat runs: after
  the last ping nothing in the process could notice, and the exchange's close would
  not arrive.
- In `PositionSync` an execution moves all followers in one step, take profit and
  stop loss are one value, and the master goes through flat to change sides. A
  `set_leverage` or `set_trading_stop` that raises is carried out at once or never: one
  that lands during a later sync is not modelled. Repeats come within the TTL:
  no fingerprint expires or is evicted. A restart finds a state file it can read. One
  event at a time is held for repetition.
- `CopyPipeline` composes the execution path. The position path runs under the same
  reader and bus; `PositionSync` keeps its own deduper and handles one event at a
  time as they do.
- With `clip_close_qty_to_follower_position` off, a follower that missed a scale-in
  keeps its position after the close (`skipped_insufficient_position`), as documented.

### Not modelled

A reply without a `retCode`, which the client takes for success (`bybit_client.py:153`); Bybit
documents none. `normalize_order_quantities` off: the quantity then goes out as it is
(`order_executor.py:349-350`), as with an instrument that orders any quantity, without the
request for its metadata. The conversion of JSON fields to decimals and enums, a pure
function of one row; the length of delays; command line, configuration and its checks, done
before there is any state; logging; health counters, which are written and never read
(only the status is modelled); `Phase2MirrorPolicy`, which nothing uses; hedge mode, whose
position events the engine does not sync (`risk_engine.py:158`).

## Plan

Done: all modules above, and their proofs.

Next: the safety side of the liveness properties, a measure that every step of a
sync and of a mirrored execution brings down; the position path in `CopyPipeline`; a
`set_leverage` or `set_trading_stop` that arrives late.

# Penampakan: specifications, model checking and proofs

TLA+ specifications of the concurrent and stateful core of Penampakan, the
library that answers questions about images by letting a language model choose
visual tools inside hard budgets, and of the calculations it rests on. All
definitions are translated from `src/penampakan/`; `PROJECT.json` maps each of
them to its lines.

## 1. The system

A **client** (`client.py`) owns backends behind a **router**, a perception
cache, a single-flight coordinator, an optional policy and trace sinks, and opens
**sessions**. A session (`session.py`) holds the images and observations of one
source image and runs one *ask* or *inspection* at a time under its operation
lock. Each run gets a **budget** (`reasoning/budget.py`) and a **trace**
(`tracing.py`) of its own. A run perceives through `_perceive`: cache lookup,
single-flight, router with fallback, cache store; it transforms and marks images
in threads; and it asks the policy, which asks a language-model adapter. Everything
runs on one asyncio event loop, so interleaving happens at awaits; the synchronous
API (`sync.py`) adds threads, the SQLite cache a worker thread, and rendering
threads that nothing can stop.

| Component | State | Operations | What is hard | Status |
|---|---|---|---|---|
| Single-flight coordinator (`perception/cache.py`) | flights by key, waiter counts, closed flag | `run`, `_release`, `aclose` | cancellation of waiters and of their release, stale releases, close against joins | modelled |
| Run budget (`reasoning/budget.py`) | five counters, deadline | reservations, refunds | keeping the final call affordable, exact refunds | modelled |
| Ask loop (`session.py`) | action counts, warnings, mode of the policy call | plan, decide, repair, act, verify, finalize | nested repairs, failure paths of tools, timeouts anywhere | modelled |
| Inspection, tools (`session.py`, `tools/`) | plan, outcomes, tool call under way | gather, commit, render, report | commits one after another around awaits, render threads that outlive their call | modelled |
| Perception path (`session.py`) | cache entries, flights, attempts, attribution | lookup, lead or join, attempt, fall back, store, re-perceive | the leader's budget and trace serve followers; whose bytes are credited to whom | modelled |
| Router (`perception/router.py`) | semaphores, active calls, close task | route, attempt, fall back, close | time-outs and cancellations of attempts that take time to unwind | modelled |
| Trace builder (`tracing.py`) | events, active invocations, failed sinks, final trace | start, emit, start/finish invocation, finalize | delivery is an await under the lock; writers outlive the run; cancellation while finalizing | partly |
| Client and session lifecycle (`client.py`, `session.py`) | active operations, sessions, close task | begin/end, open, close | one close for many callers, order of shutdown, cancelled closers | partly |
| Synchronous bridge (`sync.py`) | bridge state, loop thread | run, close | interrupted close, waiting closers | modelled |
| SQLite cache (`perception/sqlite_cache.py`) | file, job queue, rows, availability | get, set, prune, clear, close | several processes on one file, abandoned jobs, eviction | modelled |
| Memory and null caches (`perception/cache.py`) | entries in LRU order, bytes | get, set, prune, clear, close | two limits at once, a running count | modelled |
| Asset and observation stores (`image/assets.py`, `perception/store.py`) | records by id and digest | atomic commits | all-or-nothing, ids without gaps, reuse by digest, ownership of open images | modelled |
| LLM adapters (`llms/`) | attempts, deadline, probe, client | complete, close | retry against the deadline, degradation, close in flight | partly |
| Trace sinks (`trace_sinks/`) | queue, bounded runs, spans | emit, close | overflow, rotation, close against blocked emits | modelled |
| Geometry, transforms, normalization, lines, context | none | pure functions | rounding, clamping, ties, limits | partly |
| Backends, prompts, parsing, models, settings | none that outlives a call | external or data | not a state machine | not modelled |

What each must guarantee is stated with its properties in section 2;
`PROJECT.json` lists the hazards behind them with their lines, also those that no
property covers and why.

## 2. Modules

| Module | Models | Properties checked |
|---|---|---|
| `SharedWork` | contract: work of a key exists while somebody is attached to it | a refinement target, twice |
| `SingleFlight` | `SingleFlightCoordinator` | `SharingIsSound`, `EverybodyReturns`, `ImplementsSharedWork` |
| `AskLoop` | `_run_ask`, `_ask_body` and what they call, over `RunBudget` | `FinalCallAffordable`, `LimitsAreKept`, `FinalStageOnlyAnswers`, `AskEnds` |
| `TraceBuilder` | `TraceBuilder`, the tasks that write to it, its sinks | `TraceIsOrderly`, `FinalTraceIsFrozen`, `RunIsFinalized` |
| `Perception` | runs in `_perceive` over cache, coordinator contract, router, budget, trace | `AnswersAreHonest`, `WorkIsPaidAndWanted`, `PerceptionEnds`, `UsesSharedWork` |
| `Router` | `BackendRouter` | `RouterIsOrderly`, `FallbackIsEarned`, `RoutesEnd` |
| `Lifecycle` | client operations, sessions, the shutdown of both | `ClosingIsOrderly`, `PrivateStoresClose`, `ShutdownCompletes` |
| `SyncBridge` | `_ClientBridge`, `_LoopThread`, `VisionSession` | `CallsAreNotCutOff`, `NormalCloseIsComplete`, `OperationsReturn` |
| `LossyCache` | contract: a reader is told nothing, or what was stored last | a refinement target, twice |
| `SQLiteFile`, `SQLiteCache` | the database file and how instances open it; worker, queue, table | `CloseDrainsQueue`, `EverybodyIsAnswered`; parts of the next two |
| `MemoryCache`, `Caches` | `MemoryLRUCache` and `NullCache`; the cache a client has | `LosesOnlyWhatIsStale`, `ImplementsLossyCache` |
| `JsonlSink`, `MemorySink`, `TelemetrySink`, `TraceSinks` | the shipped sinks; builders that feed one of them | `FilesHoldWhatIsDue`, `SinksAccountForRuns`, `JsonlClosesReturn` |
| `AssetStore`, `ObservationStore`, `Evidence` | the two stores; inspections and asks that fill them | `StoresAreConsistent`, `CommitsAreTold`, `CloseReleasesImages` |
| `Ordering`, `Geometry`, `Transforms` | stable sorting; boxes and pixels; crops, tiles, marks | `PixelsAreCovered`, a part of `RoomIsSharedFairly` |
| `Normalize`, `TesseractLines`, `TransformersDetections` | untrusted results made into drafts; words made into lines; a detector's reports made into detections | `AnswersAreScoped` |
| `ContextCompiler`, `Calculations` | what the policy is shown; the calculations as one-step calls | `RoomIsSharedFairly` |
| `Providers` | adapters, retries, policy counters, close | `RetriesAreEarned`, `EnforcementIsTold`, `ClientClosesOnce`, `CallsEnd` |
| `*Proofs` | | proofs for all constants, see section 4 |
| `MC*` | values of the constants for TLC, where the `.cfg` of the module does not suffice | |

Several properties are conjunctions of named parts, each with a comment of its
own in its module; the type invariant is one of them. An operator commented
"Mutant" is the form a plausible bug would give the definition after it; no
behaviour uses it.

### How state and actions correspond to the code

**SingleFlight.** A flight is named after the call of `run()` that started it;
`flights` is `_flights`, `waiters` the counter, `population` the state of the
future. `StartFlight`, `JoinFlight` and `RejectCall` are the block under the
lock (it has no await inside, so it is one step). `Wake` and `InterruptWait` are the
two ways out of `await shield(future)`; both create the release task. The three
`Release…` actions are the branches of `_release`; `Return` and `InterruptRelease`
end the call. `Close`, `CloseAgain` and `CloseReturns` are `aclose()`, whose
cancellation of filed futures is atomic for the same reason.

**SharedWork.** Callers attach to a key, work becomes known, callers detach, and
the last one takes the work with it; shutting detaches everyone. `SingleFlight`
implements it with `attached` = the holders of the filed flight. `Perception`
then uses the contract instead of the coordinator's detail, and its run checks
that it stays within it.

**AskLoop.** `pc` says which await the run is at: `planning` and `perceiving` (initial
plan), `deciding` (head of the loop), `policy`, `verifying`,
`acting`/`starting`/`executing` (`_execute_action` before reservation, before the tool, in
the tool), `stopping` (after a tool's budget error). `final` is `budget_final`, `repair`
and `mending` the two kinds of repair. Policy output, evidence validity, tool results and
depth are inputs. `executed` and `created` are history variables. `FinalStageOnlyAnswers`
speaks of the final stage: the final call with its repairs, and the repair of an
interactive answer for its evidence. `TimePasses` sets the deadline; `Interrupt` is the
cancellation by `wait_for` or by the caller at any await. `stored` survives from one ask
of the session to the next, the budget does not.

**TraceBuilder.** A call first stands in `op`, then holds the lock; `agenda` is
what it has still to record and `cursor` the sink that is served with the last
event, so each `sink.emit` is one step that accepts, fails (and disables the
sink), or is cut off by a cancellation. A finalization's agenda is the finishes
of all active invocations and the terminal event; `final` is set when the last
delivery is over. `heard` and `cut` are history variables for the sinks.

**Perception.** All runs ask for the same perception of the same image (others
share nothing but the cache's capacity), so a cache key is the name of the
backend it credits. `run[r]` follows `_perceive`, `work[r]` its `populate()`,
which may be the shared population of a flight or run alone after a fallback
that the follower may not credit. `StartAttempt` is `before_attempt`, with the
budget and the trace of the run that called `_perceive`, as in the code. An attempt
that ran out of time is `expiring` while its clean-up is awaited; a cancellation in
that moment is suppressed by the router, and a population that everybody leaves
then (`deaf`) goes on with the next backend.

**Router.** `Route` is `_route`; it has no suspension, so that `Begin` is
`_begin_call` and routing together. `pc[c]` is the await a call of `analyze()` is
at: `preparing` (`before_attempt`), `waiting` (`wait_for` on the attempt),
`cleaning` (`_cancel_invocation`), `reporting` (`after_attempt`). `inv[c]` is the
attempt's task: in the semaphore's `queue`, running, unwinding after a
cancellation, or what it came to. A timeout runs from the moment the attempt
queues. `closeTask` is `_close_owned_backends` with the number of backends
closed in `shut`.

**Lifecycle.** `op[o]` follows `client.ask`/`inspect`/`open_image` from
`_begin_operation` to `_end_operation`; `load`, `orphan` and `store` are the worker
thread and the image store it returns, possibly after its operation was
cancelled. `sess`, `filed` and `lock` are the session, its membership in the client's
`_sessions` and its operation lock; `call[c]` a call of an open session, which the
client does not count. `stage` is where the close task stands in
`_close_sequence` (`active_operations`, `session`, then the resources); each stage
ends well, with a warning or with a base exception, a cancellation of the task
among them (`asyncio.run` and the synchronous facade's `_serve` cancel all tasks
at shutdown). `closer[x]` is one `aclose()` with `_drain_close`.

**SyncBridge.** `bridge` and `facade` are the states (`_state`) of
`_ClientBridge` and `VisionSession` with the calls each has admitted; `pc[o]` the
wait an operation's thread is at; `task[o]` its coroutine on the loop; `thread`,
`stopped` and `halt` the loop thread, `_stopped` and a scheduled `loop.stop`.
Blocks under a condition are one step. `KeyboardInterrupt` strikes the operations
of the main thread (`Main`) at every wait; `abandoned` records that one broke a
close off.

**SQLiteFile, SQLiteCache.** A file has an identity, so that a rename of `path` can be
told from a change of the file: `phase[i]` is how far `_open()` of an instance has come
between its look at the file and its rename, and between that rename and those of the
sidecars (`following`); `conn[i]` is the file its connection is bound to, or the one it is
moving. `log` is the file whose write-ahead log is beside the path. An instance that comes
late with its second rename takes the log of the file another has created meanwhile
(`TakeLogOfAnother`): those who have that file open go on with it and its log, and the
path holds what had been written back of it, one file more with the same `main` file and
the table in `saved`. A transaction may be written back from the log at once, and is at
the latest when the last connection to a main file still at the path is closed; if two
logs belong to one main file, each may find what the other wrote back, what it had, or
nothing (`WriteBack`). An empty file that is opened deletes a log it finds beside it. All
this is SQLite's behaviour as the code meets it, and marked external in the map. `queue`
and `busy` are the worker thread's; `job` and `reply` follow a caller and the future
posted to its loop; `rows` is the entries table with created, accessed and expiry times on
the clock `now`. Each operation is one transaction, which contention may refuse past its
deadline. The batches of `_evict` come to the smallest set of stalest entries (`Victims`)
without which both low watermarks hold; ties in the access times go by the key, in
`KeyOrder`.

**MemoryCache, Caches.** `entries` is the ordered dictionary from the least
recently used entry on, `totalBytes` the running count; methods hold a lock that
is never kept across an await, so a call is a step. `CachesInit` chooses the
`medium` as `_default_cache` does; both are shown to implement `LossyCache`, the
contract that `_safe_cache_get` and `_safe_cache_set` rely on.

**The sinks.** `JsonlSink` keeps asyncio's queue as the library does: `putters`
are suspended `put()`s in order, `woken` those an item taken has woken, and a
woken one competes with new ones. `writer` is the one writer task; `disk` the
file and its generations, `due` what had been handed over before the close. `laid` is
what the writer has put into the file, in order: lines that count as written, pieces
of a line torn by a failing `os.write`, and whole lines whose `os.fsync` failed; the
last two count as failed. A piece has no line end, so that the next line in the same
file is glued to it; in the model they remain two members of `laid`.
`MemorySink` and `TelemetrySink` are their dictionaries in order, their counters
and their clocks. `TraceSinks` attaches one sink to the builders of concurrent
runs (`_emit_to_sinks` calls sinks one after another and they share nothing).

**AssetStore, ObservationStore, Evidence.** A digest is a sequence of characters, an
identifier its shortest prefix that no other digest has; `opened` counts open Pillow
images, whoever holds them. `Evidence` is the session: `pc` the await of the running
operation, `jobs` the state of each planned perception (a few at a time), `tool` the tool
call and `renders` the threads, whose result a callback closes when nobody waits for it
any more; `told` is what the trace has named, one asset at a time after a transform
(`TellAsset`), `report` what the operation returned. Cancellation and timeout strike at
every await.

**Calculations.** Coordinates are integers on a grid, so that products are exact; a float
product may land one unit to either side of a whole number, which `drift` makes an input.
A box's pixels, tile ranges, badge positions, drafts, lines and context lines are computed
as the code does; text is its length, with the positions of newlines where a cut looks for
them. A label is a key and the punctuation after it, and a detection is compared by the
cells of the grid it covers; the overlap of two boxes is an exact fraction here, and no
pair of the instance lies on the threshold, where a float might fall to either side. Each
call is one step from `task` to `answer`, and the invariants compare the answer with an
independent statement of what it should be.

**Providers.** `asked[c]` is one `next_action()` with its `complete()`: attempts on a
clock of whole seconds, back-off with jitter as a range, and the deadline that cancels
whatever awaits. `adapter` says which adapter it is and whether it owns the SDK client;
`strict` is LiteLLM's cached probe. A failure has a class in LiteLLM's tables, which come
before its status. What reached the provider is recorded in `provider`.

## 3. Runs

| Run | Instance | Distinct states | Shows |
|---|---|---|---|
| `single_flight` | 3 callers, 1 key, 2 closers | 94,599 | sharing, liveness, the refinement |
| `ask_loop` | steps 4, LLM calls 5, tools 3, backend calls 2, images 2, repeats 1, plan 1; calls with 0, 1 and 2 images | 268,969 | limits, the final call, termination; any number of asks |
| `trace` | a run and one population, 2 sinks, 2 invocations, 1 cancellation | 298,830 | order and exactly-once, frozen trace, finalization |
| `perception` | 3 runs (two agree on the order of 2 backends, one reverses it), 2 backend calls each | 328,799 | attribution, payment, wanted work, liveness, use of `SharedWork` |
| `router` | 3 backends of one slot, 2 calls (one of ten kinds, the other in the opposite order), 1 closer | 403,379 | slots, order of fallback, termination |
| `lifecycle` | one one-shot ask, one opened session with two calls, two closers | 91,627 | order of closing, no leak, termination |
| `sync_bridge` | a client call, a session call, a session close, two client closes; three of them in the main thread | 172,533 | calls not cut off, complete closes, return |
| `caches` | 2 instances with set, get, prune and a close on 2 keys; or 3 keys and 4 values in memory; 3 files | 283,991 | nothing destroyed, exact eviction, drained close, both refinements |
| `sinks` | 3 runs of up to 8 events (for the file sink 2 runs of 2), queue of 1, 2 generations of 1 line; memory and telemetry bounds of 1 and 2 | 527,190 | files, counters, spans, returning closes |
| `evidence` | 2 operations with 2 tool calls, 2 threads, 2 derived images; a plan that asks for the same thing twice | 51,496 | stores, reports, images closed |
| `calculations` | some 20 thousand calls: 3 image sizes for crops, all tilings up to 3x4 of small images, marks of 2 to 11 candidates, answers, detector reports and contexts of a few items | 41,682 | the calculations against their references |
| `providers` | 2 calls, 2 closers, 3 attempts, 3 seconds | 742,528 | retries, enforcement, close, deadline |

Why the bounds suffice. Three callers are the fewest where one leaves, one stays
and one joins; callers of different keys share only the closed flag, and the
proofs cover any number. The ask loop's limits are small enough that each is
reached in some run and still let the loop act, repair, stop and answer; steps 4
and calls 5 satisfy the validated relation `max_llm_calls >= max_steps + 1`
tightly, where reservation errors show. Two sinks tell "the next sink" from "the
last"; two invocations tell whose finish overtakes whose. In `Perception` two
candidates give one fallback, and the run with the reversed order makes a
fallback write into a key that another flight is serving. In `Router` two calls
contend for one slot and the first has every kind of request, the refused ones
among them. In `Lifecycle` two calls contend for one session's lock against its
close, beside a private session, and the second closer joins or is cancelled
while the first one waits. In `SyncBridge` the closes meet each other, a call of
each facade and an interrupt at every point. In the caches two instances are the
fewest that race for a path, and three files (one that is unusable, the one that
replaces it, and what stays at the path when that one loses its log) let both have
tables open on one main file; the sizes make one eviction remove one or two
entries, by number or by bytes. A queue of one line is full at once, and two
generations are the fewest that a half-done rotation can confuse. Two render
threads let one outlive its call while the next call renders; digests that share
a first character force longer identifiers. Three attempts show a retry after a
retry, and two first calls meet in the probe.

Bounds that are not in the code: `MaxInvocations` and `MaxInterrupts` in
`TraceBuilder`, `Spares` in `SQLiteFile`, `LastTick` in `SQLiteCache` and
`TraceSinks`, `RenderSlots` and `MaxOperations` in `Evidence`, `LastTime` in
`Providers`. No run uses symmetry. Deadlock checking is off where the system
comes to rest (all calls returned, all runs over); `ask_loop` keeps it on, as a
session can always be asked again.

### Fairness

The event loop runs every ready task, hence weak fairness of the steps that a
task takes by itself. A population or an attempt ends because every backend call
runs under a timeout (`asyncio.wait_for` in `router.analyze`), a policy call under
`llm_timeout_s`; in `Router`, where the timeout is a step of its own, the backend's
answer is not fair, but a cancelled backend is assumed to stop, as `_cancel_invocation`
waits for it. `asyncio.Lock` serves waiters in order, which is strong fairness
of taking the trace builder's and the sessions' locks; that `CallFinalize` is
strongly fair says that the body or its handler gets to the end although
cancellations may disable it for a while. In `SyncBridge` threads are scheduled
and coroutines end; in the cache and the sinks the worker and the writer go on; render
threads come to their end; the clock of `Providers` ticks. Calls, cancellations,
interrupts, `aclose()` and the deadline are the environment's and not
fair: no liveness property relies on a retry by a caller or on a cancellation, and
only `CallsEnd`, which is about deadlines, on one.

### Disagreements with the documentation

Each of these is a definition beside the checked properties of its module. It is
not checked by a run, because it is violated; TLC shows how when it is added to
the run's `.cfg`.

1. *Repeats* (`AskLoop`, `RepeatForcesFinalCall`). `docs/runtime.md` says that
   repeated identical actions force an answer-only final call. `_ask_body` records
   a warning and continues the loop, so the policy is asked again with its tools.
2. *Terminal event* (`TraceBuilder`, `TerminalIsLast`). `_finalize` records the
   terminal event, awaits the sinks, and only then stores the final trace. Cancelled
   in between, the trace stays open: a population that still unwinds records events
   after the terminal one, or the handler in `_run_ask` records a second one.
3. *Cache failures* (`Perception`, `CacheFailureIsHarmless`). `docs/runtime.md` says
   that a cache failure never fails a run. It is recorded on the trace of the run
   that leads the population; if that run has left, its trace is final, `emit`
   raises and the runs that still wait fail.
4. *Waiter cancellation* (`Perception`, `LeaderLeavesNoTrace`).
   `SingleFlightCoordinator.run` promises not to propagate a waiter's cancellation.
   When the leading run is cancelled its trace becomes final, the next backend
   attempt cannot be recorded there, and the remaining waiters get a
   `RuntimeError`. In 3 and 4 the coordinator itself keeps its promise (proved);
   the link is the closure over the leader's trace.
5. *Lost cancellation* (`Router`, `CancelledCallsStop`; `Perception`,
   `CancelledWorkStops`). A call that is cancelled while a timed-out attempt unwinds
   is not cancelled: `_cancel_invocation` suppresses what its await raises, and the
   call falls back to the next backend. So does a population that its last caller
   has left at that moment, although the coordinator cancels it.
6. *Close that joins a close* (`SyncBridge`, `CloseReturns`). A `close()` interrupted
   while it drains puts the state back to open; a second `close()` that waits for
   "closed" (`sync.py:233`) waits on although no close is under way. Likewise an
   interrupt before the loop thread has entered `run_forever` leaves a thread that
   the first `close()` joins for ever.
7. *Late lines* (`JsonlSink`, `CloseDrainsAccepted`). In mode "block" an `emit()`
   that was suspended when the sink closed may put its line behind the stop marker;
   it was accepted and is never written, against the docstring and
   `docs/contracts.md:107`. Of two suspended emits one may stay suspended.
8. *Fragments* (`MemorySink`, `RetainedRunsAreWhole`). Events that arrive for a run
   that has been evicted start a new record, which is retained without its
   beginning and not marked, against `docs/runtime.md:120`.
9. *Badges* (`Calculations`, `NoAmbiguousOverlap`). With near-duplicates kept, a box
   given twice gets two badges in one place, against `docs/runtime.md:57-58`; and
   then the caller's order decides (`docs/contracts.md:149`).
10. *Attempts* (`Providers`, `AttemptsAreTraced`). The policy counts what a response
    reports; the attempts of a completion that fails or is cancelled are not in the
    trace, against `docs/runtime.md:37`.
11. *Quarantine* (`SQLiteFile`, `QuarantineIsAtomic`). `docs/runtime.md:275-276` says
   of an unusable database that "the file and its sidecars are atomically renamed".
   `_quarantine` renames the file and then each sidecar; an instance that creates and
   opens a new file in between has its log taken away, and what only the log held is
   no longer found at the path.

Observed while modelling and not stated as properties: after `aclose()` has begun the
transforms of a run still under way are refused, because `session.image` requires an open
session; an inspection is reported as failed when one operation failed and the others
found nothing; a cancelled ask may leave transform observations, and the warning filed
behind them, that its trace does not name; lineage can be cyclic in content, as a
transform equal to an existing image reuses it; an ask without initial observations has
every tool call refused; the file set aside by a racing opener may be the one another
instance has just created, which loses entries but destroys nothing; a line torn by a
failing write is continued by the next, and a line that fails to sync is in the file and
counted as failed; a completion in flight when its adapter closes may be retried on the
closed client; if the router's close task is cancelled, the remaining backends stay open
for good; the record of omitted observations lists each id, so that very many observations
may leave no room for a context at all.

## 4. Proofs

All proofs are for arbitrary values of the constants, under the `ASSUME`s of the
modules, which the runs evaluate.

* `SingleFlightProofs`. The invariant `IInv` adds to the type invariant how
  callers, releases, flights and populations hang together: a filed flight is
  filed under its own key and its starter joined it; a caller that is in a flight
  has a release task exactly from the moment it leaves; a population that is not
  on file is absent, over or being cancelled. That the counts are right is not
  inductive by itself, because a release is judged by identity of the flight and
  one has to know that a replaced flight's holders can only be detached. Each action
  has a step; the changes of the count use the cardinality theorems of the library.
  From `IInv` follow `SharingIsSound`, part by part, and that each step is a step
  or a stutter of `SharedWork` (`ImplementsSharedWork`).
* `PolicyProofs`. In `AskLoop`, the inductive invariant says for each `pc` what has been
  reserved: outside the final stage a step and a call are left; in the middle of
  a tool `pending` is its fan-out; `counts` bounds `executed`.
  `FinalCallAffordable`, `LimitsAreKept` and `FinalStageOnlyAnswers` follow; the last
  needs that the final stage has no `pc` but those of a policy call and of its
  verification, and counts the repairs that are left (`RepairsLeft`).
  In `Providers`, the attempts a call counts and the requests the provider got
  agree in each phase (`AttemptsAgree`), what a call enforces follows the one probe of
  its adapter (`EnforcementFollowsProbe`), and an owned client has been closed once
  exactly when the close task is over (`CloseIsCounted`). The three safety properties
  follow; that nothing is sent of a call that comes after the close needs that a call
  which has sent nothing has not begun.
* `EvidenceProofs`. In `Perception`, that the cache and the provenance are honest
  (`AnswersAreHonest`) is proved together, because a hit credits what the cache
  holds; both rest on a population that stores or has ended having a backend or a
  cause as its result (`WorkConsistent`). `WorkIsPaidAndWanted` needs that the runs
  attached to a key are exactly those that share it and that the key then has a
  leader who asked for it (`AttachedConsistent`, `LeaderConsistent`), and says of work
  that nobody waits for that its cancellation was suppressed. The same facts
  show that every step is a step or a stutter of `SharedWork` (`UsesSharedWork`):
  a leader never works for itself alone, so nothing but the last departure takes
  the work away from a flight.
  In `Evidence`, for digests and renderings of any number: `StoresAreConsistent` follows
  from `EvidenceInv`. The store's two dictionaries are inverse to each other and every
  identifier is a prefix of its digest (`StoreOK`); hence a digest that is not filed
  always has a free prefix, at the latest itself (`AllocatedIsFree`). What a commit of
  several images makes of the store is proved by induction over the recursive function
  in `Plan` (`PlanFacts`): it adds as many records as it closes fewer copies. The open
  images of the threads are those of one thread and those of the others (`SharesAddUp`), so
  that each action balances one share against `opened`. That the store of observations
  refuses no batch needs that what a call holds (sources, parents, asset) is in the
  stores (`OperationIsKnown`, `ToolIsKnown`), which no interruption may disturb.
  `CommitsAreTold` follows from `CommitInv`: with fail-fast what stands before a started job
  is settled, and jobs are committed from the first to the last (`JobsInOrder`), so that
  the running inspection's observations come from an increasing choice of its jobs
  (`InPlanOrder`); and of what an ask filed only lineage and the closing warning of the
  transform it is announcing may be untold, all of an asset or nothing of it
  (`OnlyRecordsUntold`).

* `ClosingProofs`. In `Lifecycle`, `ClosingIsOrderly` needs three things besides the
  types: `active` is the number of operations under way (`ActiveAccounted`), the lock of
  each session is with the operation or call that says it works (`LocksConsistent`), and
  each `stage` of the close task says what can no longer happen (`StagesConsistent`,
  `ClosersSeeWholeClose`). The last is not inductive without
  `OperationsConsistent`, which relates an operation to its session and load.
  In `SyncBridge`, for any operations in any threads: the bridge's active calls are
  exactly the operations between their admission and their finally clause
  (`CallsCounted`), one close of the client works at a time and finds none of them once
  it has drained (`OneCloserWorks`), only such a close stops the loop
  (`HaltFollowsDrain`), and a close has the result "value" only when the client, the
  session and the loop are where it says (`ValuesAreEarned`); that is not inductive
  without the errors that the two gates keep for the followers of a close. The thirteen
  actions that leave the bridge alone are shown to be sound moves (`MovesSoundly`),
  and a sound move to keep the invariant, once. `CallsAreNotCutOff` and
  `NormalCloseIsComplete` follow.
* `TraceProofs`. In `TraceBuilder`, a finish on the agenda is that of an active invocation
  and stands there once (`AgendaSound`), a finalization has all active ones before it
  (`FinalizationOwed`), and a start that waits for the lock is owed a number
  (`StartOwed`), so that the events pair up (`EventsPaired`). What each sink heard is
  compared with what is recorded, up to the `cursor` of the delivery (`HeardRecorded`).
  `TraceIsOrderly` and `FinalTraceIsFrozen` follow. In `JsonlSink`, for any runs, line
  sizes, queue and number of generations: the stop marker is behind everything else in the
  queue and only after a close (`MarkerFollowsClose`), what was handed over is still on
  its way or has an outcome (`HandedIsKept`), and only a sink with a writer takes anything
  on (`WriterIsStarted`). The files that are left are consecutive pieces of what was put
  into them (`laid`), cut where rotations fell (`FilesAreConsecutive`), and a rotation
  only cuts off a full file. What flattening a sequence of files gives is proved by
  induction over the numbers, stated for a set instead of a predicate and itself proved
  from `<` being well-founded. `FilesHoldWhatIsDue` follows. In `MemorySink`, each run has
  one record under way (`OwnRuns`, part of `MemoryInv`): taking it out leaves the events
  of all the others (`EventsKept`), and what a limit cuts off the new record is counted
  (`BoundedFacts`), so the sums balance in every step. In `TelemetrySink`, traces have
  distinct runs and the open spans are exactly theirs (`Consistent`); removing, adding and
  replacing a trace keep that, and every branch of the handler is a sequence of these.
  `SinksAccountForRuns` follows.
* `RouterProofs`. Where a call is determines what its attempt may be doing
  (`AttemptsAwaited`), free slots and attempts that use one add up to the backend's
  concurrency, a queue holds each waiting attempt once (`SlotsAccounted`), and
  what was tried is a prefix of the route whose failures were all mendable
  (`AttemptsAccounted`). `RouterIsOrderly` and `FallbackIsEarned` follow. The order
  of the candidates is a recursive function; what it computes is proved for
  registries of any size from a least counterexample, which exists because `<` is
  well-founded, since induction rules cannot be applied to an operator.
* `CachesProofs`. For the cache in memory: keys are distinct, `totalBytes` is the
  sum of the sizes, and both limits hold (`MemoryInv`). The sums over sequences
  (appending, removing, dropping a prefix) are proved in the same way as the candidates. A
  set's position map from the old entries to the new ones shows
  `MemoryEvictsOldest`. For the database: only an open instance has work, nothing is
  queued behind a sentinel (`WorkInOrder`), a job is in one place and not yet answered
  (`WorkIsPending`), tables are well-formed. Hence `CloseDrainsQueue`: the queue that a
  close throws away holds its own sentinel and nothing else. `LossyStep` says what each
  step does to what a get would find; that it refines `LossyCache` for both media is
  `BothCachesAreLossy`. A key holds whatever any table, current or written back, has live
  under it (`Copies`), so that a step is sound if it makes no copy that was not there
  and tells of none. That the file at the path is none of those set aside, and that whoever is
  between the two renames has set one aside (`FileInv`), gives `NothingIsDestroyed`.
  For `EvictionIsSound` the sum of the sizes is a recursive function on sets of keys,
  shown to exist by the number of keys; the victims are the fewest among the sets that
  leave nothing staler behind (`VictimsFacts`). What may not be evicted fits by itself,
  since nothing above the byte limit is ever queued (`Storable`, a part of
  `WorkIsPending`), so that what is left after an eviction is within both limits. With the
  other two this is `LosesOnlyWhatIsStale`.

* `CalculationsProofs`. An answered call has the answer of its own operator (`IInv`), so
  what remains is arithmetic, for any grid, any image, and padding and overlap by any
  fraction (so many parts of `OneWhole`). The pixel at or below a coordinate and the one
  at or above it are at most one pixel away from it, even when a float rounds to the wrong
  side (`FloorFacts`, `CeilPixelFacts`), and cutting them to the image keeps that; hence
  crops. The edges `(i * length) \div parts` grow
  strictly because no more parts than pixels are allowed (`EdgeFacts`); the part that holds
  a pixel is the first that ends behind it (`AxisIsPartitioned`); and tiles correspond to
  pairs of a row and a column (`RowsAndColumns`, `TileAt`). `PixelsAreCovered` follows.

The assumptions are what the code guarantees. `Router` assumes that there is a backend
(the client always registers Pillow, client.py:152), that each is registered once,
that preferences and authorities name backends that declare the capability, and that
limits are positive. `TraceBuilder` assumes that each run has finitely many
populations. `SQLiteCache` assumes that a job's operation, key and size are what `_Job` takes,
that an earlier process left a finite table of rows, and that keys are ordered, as texts
are; `MemoryCache` that sizes are
positive, as no JSON text is empty. `JsonlSink` assumes positive sizes, as its
constructor requires, finitely many runs, and that the stop marker is no run;
`MemorySink` and `TelemetrySink` positive limits, as theirs do; `TraceSinks` that an
operation has an invocation number of its own, as the builder gives it.
`AssetStore` assumes that digests are sequences of one length (SHA-256), at least as
long as the shortest identifier, and `Evidence` that a transform renders at least one
image, as every tool of builtin.py does, and that the threads are finitely many.
`Calculations` assumes of a call what the validation before it ensures: boxes that the
`Box` model accepts, images of at least one pixel, 1 to 8 rows and columns.

Left to TLC:

* liveness everywhere: `ENABLED` and fairness are out of the prover's reach;
* of the calculations, marks, answers and contexts: sorting, greedy selection and cuts
  over bounded inputs (`AnswersAreScoped`, `RoomIsSharedFairly`). What the library's
  sorting and selecting operators compute would need induction over data.

Each invariant was checked by TLC on the states of the component's run before it was proved.

## 5. Plan

Done: the modules above. Next:

1. The backend ownership registry of `client.py` (claims by address, weak
   references, release at close) in `Lifecycle`; `add_counts` and the builder's own
   `aclose()` in `TraceBuilder`.

A run is made for each question that another run does not already ask; further
properties of a module join the run it has.

## 6. Not modelled

Pixels, image decoding, prompts, the parsing of actions, redaction, the schema compiler,
the public models and settings, the evaluation harness and the conversions of the
transports are data conversion or I/O and appear as inputs. The adapters of the
Transformers, Tesseract, callable and Pillow backends wrap external engines; of them the
assembly of text lines and of detections is modelled, not the captions, the loading of a
model or the gate that serializes its calls. In `AskLoop`, `Perception` and `Evidence`
time is a deadline that may pass at any await; durations appear in `Providers`,
`SQLiteCache` and the sinks only, so that one timeout given to several fallback attempts
in turn is not measured. Interpreter versions before 3.11, in which a delivered
cancellation cannot be told from a sink's own, are not represented. Interrupts of the
synchronous facade strike at waits, not between two bytecodes. A crash of the process in
the middle of a SQLite transaction is left to SQLite. Of its files the `-shm` sidecar is
left out, which SQLite rebuilds from the log; so is that a main file which two logs
overwrite may become unreadable and be quarantined in its turn (what its readers find is
then nothing, which `WriteBack` covers; the second quarantine is the one that is
modelled). `reserve_policy_decision` and `refund_unstarted_backend_call` have no caller in
the package.

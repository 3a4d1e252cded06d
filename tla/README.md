# TLA+ models of the APEX throttling and policy core

This directory holds TLA+ specifications of the adaptive control core of
APEX (`src/src/apex/`): the three throttling controllers of
`apex_throttling.cpp` that move a process-wide worker-thread cap, their
setup and shutdown, and the way the cap is read by the scheduler while a
controller writes it. It has TLC configurations that model-check them on
small instances and TLAPS proofs of the controllers' invariants. It also
models the reference counting of the task dependency tree and the lazy
`dlsym` resolution of the optional tracing backends (`apex_dynamic.cpp`),
with proofs about both.
`PROJECT.json` lists the components, runs, fault-injection mutants, the
source lines each definition models, the findings and the hazards.

## 1. The system

APEX measures a running program. A policy engine, the *event dispatcher*
(`policy_handler`), keeps per-event-type lists of policy callbacks. It also
fires *periodic* policies from a timer thread that runs concurrently with
the application. `apex_throttling.cpp` installs one such periodic policy,
a *controller*, which moves the global `int thread_cap`. The scheduler
that sizes worker pools reads that cap through `get_thread_cap()`, without
synchronisation.

| Component | Source | State | Operations |
|---|---|---|---|
| Power-cap controller | `apex_power_throttling_policy`, `__decrease_cap`, `__increase_cap` (l. 77-137) | `thread_cap`, `moving_average`, `delay`, `apex_throttleOn`, `apex_final` | one tick per timer period; setup (l. 409-438); shutdown (l. 475-490) |
| Hill-climbing controller | `apex_throughput_throttling_dhc_policy` (l. 279-380) | function statics `current_cap`, `got_center/low/high`, `previous_value`; heap arrays `evaluations`, `observations`; `cap_data` log | one tick; setup `__common_setup_timer_throttling` (l. 440-457); shutdown |
| Threshold controller | `apex_throughput_throttling_policy` (l. 139-274), gradual helpers (l. 70-92) | `throughput_delay`, `last_action`, `function_baseline`, `function_history` | one tick; no setup in the file registers it |
| Scheduler read | `__get_thread_cap` (l. 66-68) | none | a plain read of `thread_cap` |
| Event dispatcher | `policy_handler.hpp` | nine callback lists, nine shared mutexes, atomic `next_id` | `register_policy`, dispatch (in `policy_handler.cpp`, not in `src/`) |
| Dependency tree | `dependency_tree.cpp` | children map with reference counts, per-node calls and time | `appendChild`, `replaceChild` under `treeMutex`; `addAccumulated` |
| Dynamic backends | `apex_dynamic.cpp` | one function-local static per entry point | `init`/`query`/`flush`/`stop`, each resolved by `dlsym` once |
| Examples | `examples/` | client programs | none of the core's |

How the parts interact:

- Setup registers exactly one controller as a periodic policy.
- The timer thread calls that controller once per period.
- The controller writes `thread_cap`.
- The scheduler reads `thread_cap` at any time.
- `shutdown_throttling` sets `apex_final` from an application thread.

Hard behaviours are the ones a unit test hardly reaches:

- The scheduler's read interleaves with the controller's two stores of the cap.
- Shutdown races a tick in flight.
- The hysteresis counters drive long sequences of ticks.
- The search's probe order over rounds.
- The edges of the cap range (min = max, the cap at max, the last array slot).
- A missing profile.
- Windows with no calls.

## 2. Modules

| Module | Models |
|---|---|
| `CapControl` | The abstract promise every controller makes (spec sections 3 and 4.6). The cap moves within [min, max] until shutdown, and never after. |
| `PowerCap` | The power-cap controller, one action per tick, setup and shutdown. |
| `ThrottleRace` | PowerCap as it runs on threads: a tick split at the `apex_final` read, the unclamped store and the clamp, with scheduler reads and shutdown interleaved. |
| `HillClimb` | The hill-climbing controller. |
| `Threshold` | The threshold controller and the profile store it reads and resets. |
| `DependencyTree` | One parent node of the task dependency tree: `appendChild`, `replaceChild` and the tasks that hold its children. |
| `DynamicBackends` | The entry points of `apex_dynamic.cpp`: each one's function-local static, the backend libraries that become visible to `dlsym`, and the caller's init/flush/stop order. |
| `PowerCapProofs`, `ThrottleRaceProofs`, `HillClimbProofs`, `ThresholdProofs`, `DependencyTreeProofs`, `DynamicBackendsProofs` | TLAPS proofs about the module of the same stem. |
| `MC_*` | Small instances for TLC. |

**PowerCap.**

- Variables are the C++ globals of the same names, plus:
  - `registered`, whether setup ran;
  - `power`, the last reading.
- Watts are integers, and `moving_average` is rounded down by the windowed formula.
- The sensor `current_power_high()` is an input from the constant set `Powers`, where 0 means "no sensor".
- `Reading(p)` computes what a tick that reads `p` does: the new average, whether a helper fires, and the new `delay`. It keeps the code's short-circuit structure: `delay` is decremented only when a threshold test already holds, and the soft branch decrements again after a hard one did not fire.
- `Tick` applies the reading, `DecreasedCap` or `IncreasedCap`, and `apex_throttleOn`.
- `Setup` and `Shutdown` are the setup and shutdown functions.

**ThrottleRace.**

- It reuses `PowerCap`'s operators through `INSTANCE`.
- A tick has three steps:
  - `TimerRead` is the `apex_final` test, the sensor read and the computation of the step;
  - `TimerStore` is `thread_cap -= amtLower` (or `+=`);
  - `TimerClamp` is the clamp.
- `SchedulerRead` and `Shutdown` can occur between any two of them.
- The constant `SplitStores` chooses the build. The source as written stores twice. An optimising compiler may merge the two stores into one, which is allowed because the unsynchronised access is a data race.
- `delay` and `moving_average` are written and read only by the timer thread, so when they change within a tick cannot be observed. `apex_throttleOn` is a global that the code writes after the clamp and that, by the comment at l. 385-386, the scheduling code reads; no code in `src/` reads it and no property is about it, so the model writes it with the sensor read.

**HillClimb.**

- The profile is seen through the value `new_value` a tick computes. `Samples[c]` is the set of values an interval at cap `c` can yield. The first tick adds a value of `PreSetups`, because `previous_value` starts at 0.
- The arrays are indexed `0..max_threads`. Slot `max_threads` is one past the calloc'd block, and the model lets it hold what is written there.
- `observations[c]` is capped at `window_size`: beyond that count the formula is the same.
- `cap_data` is a three-state stream (`unopened`, `open`, `closed`). `lostRecords` records a write to a stream that is not open.
- History variables `assigned`, `measured` and `committed` record what the search did in the current round.

**Threshold.**

- The profile store holds no profile (`NoProfile`) or `[calls, accumulated]`.
- `Run` is the profiler adding a call. It is modelled from the spec, because the profiler is not in `src/`.
- Means are compared by cross-multiplication. A window with no calls gives the IEEE 0/0 = NaN outcome, where every comparison is false.
- The tick is split into one action per exit of the C++ function:
  - `TickWait` is `throughput_delay > 0`;
  - `TickReset` is `== 0`, which resets the profile;
  - `TickNoProfile` is a NULL profile, which dereferences NULL; `crashed` becomes true and the process stops;
  - `TickDecide` is the decision.

**DependencyTree.**

- The state is one parent's `children` map (`NoNode` for an absent key), `count` and `data` per node, and `held`: the node each task adds its time to.
- `appendChild` and `replaceChild` run under `treeMutex`, so each is one action. `AppendChild(t, c)` and `ReplaceChild(t, c)` follow every branch of the code, including the order of the erase and the lookup in `replaceChild`.
- The callers are not in `src/`. A task enters a child, may be renamed, and stops (`Stop`, the `addAccumulated` call).
- Erased nodes are leaked by the code. A node identity that nobody can reach is reused, so runs stay finite. `count` saturates at `MaxCount`.

**DynamicBackends.**

- An entry point is a pair `<<backend, operation>>`, e.g. `<<"cuda", "flush">>`; the operations of each namespace are the sets `CudaOps`, `RsmiOps`, ... read off the source. `slot[e]` is the static of entry point `e`: `"unresolved"` before its first call, then `"null"` or `"fn"`.
- `Call(b, op)` is the whole entry point: nothing when the option is off (`Enabled`); otherwise the static's initialiser on the first call only (`Resolved`), `APEX_ASSERT` (which sets `aborted` in a debug build when the lookup is null), and the call of the function when it is not null, recorded in `reached`.
- `Load(b)` is a backend library becoming visible to `dlsym(RTLD_DEFAULT, ...)`. Who loads it (the application, a runtime, `LD_PRELOAD`) is not in `src/`, so it may happen at any time, including before the first call (`Init` picks any set of loaded libraries).
- The callers of the entry points are in APEX's core, not in `src/`. Per backend they call `init` first (for the namespaces that have one), then `flush` or `query`, and `stop` (or `do_shutdown`) last; `Allowed` and `NextPhase` follow that order, modelled from spec section 9.

## 3. Runs

Bounds: caps 1..4 to 1..6, windows of 2 or 3, and one reading or sample of each kind. With these the following cases all happen:

- the cap at both bounds and one step above the floor;
- the amount floor (`>> 1` giving 0);
- delay reaching 0 through either branch;
- every stencil shape, including the clamped ones at min and max;
- a window with no calls;
- all three outcomes of the decision.

| Run | Checks | Result |
|---|---|---|
| `power_cap` | `TypeOK`, `CapInBounds`, `ImplementsCapControl`, `SustainedHighReachesMin`, `SustainedLowReachesMax` | pass (12,336 states) |
| `throttle_race` | `CapOutsideOnlyBetweenStores`, `ImplementsPowerCap`, `CapSettlesAfterShutdown` | pass (30,628 states): the split tick implements the atomic `PowerCap`; `thread_cap` leaves its bounds only between the unclamped store and the clamp; and after shutdown the tick in flight finishes, the cap ends in bounds, and no tick starts again |
| `throttle_race_split` | `ObservedCapInBounds` | violation: as written, the scheduler can read `max_threads + 1` |
| `hill_climb` | `TypeOK`, `CapInBounds`, `CommitPicksBest`, `RoundMeasuresStencil` | pass |
| `hill_climb_settle` | `SearchSettles` | pass (105 states): on a fixed landscape, minimized, the center settles at a local minimum (1, 3 or 6); the landscape's values are ten apart, so the integer average orders caps as the double one does |
| `hill_climb_index` | `IndexInBounds` | violation: index `max_threads` into arrays of `max_threads` entries |
| `hill_climb_final` | `ImplementsCapControl` | violation: no `apex_final` test, and the cap moves after shutdown |
| `threshold` | `TypeOK`, `CapInBounds`, `DecisionsStaggered` | pass |
| `threshold_crash` | `NoCrash` | violation: NULL profile dereference |
| `dependency_tree` | `TypeOK`, `TreeWellFormed` | pass (3,655 states, symmetry over nodes and tasks) |
| `dynamic_late` | `ContractOrder` | violation: cuda's library appears after `init` was first called; `init` cached nullptr, while `flush` finds the symbol and calls a library that was never initialised |
| `dependency_tree_held` | `HeldNodesInTree` | violation: a rename onto an existing child is not counted, and a later rename erases a node another task holds |

Smaller divergences from the spec's wording are reproduced by the models but have no run of their own; they are listed as hazards in `PROJECT.json`:

- `delay` starts at 0, so the first out-of-band reading adjusts the cap at once (`PowerCap` `Init`, `Reading`);
- a 0.0 reading still decays `moving_average` (`Reading`);
- `BASELINE` never survives the first decision tick (`Threshold` `TickDecide`).

`dynamic_late` uses the namespaces `cuda` (init/flush/stop), `rsmi` (no init) and `ompt`, all enabled, in a release build, where the assertion is compiled out; the violation needs only one backend with an `init` and one late `Load`.

`DynamicBackends` has no passing run of its own: its type invariant and `ResolvedOnce` are proved for every instance (`DynamicBackendsProofs`), and its one run is spent on the divergence. TLC explores `Load` and `Call` in `dynamic_late` before it reaches the violation.

The equal-bounds case of the hill climb (min_threads = max_threads) has no run: the initial center `max_threads - 1` is then below the floor, and the first tick makes it the cap. `HillClimbProofs.CapBounded` covers it for every bound: the cap stays within the bounds when `min_threads < max_threads`, and is `max_threads - 1` or `max_threads` when they are equal.

The settle run minimizes over caps 1..6 with local minima at 1, 3 and 6. Its samples are ten apart, more than the rounding of the integer average (less than the window below the double average), so no tie or order there comes from the rounding. A pre-setup count of 100 inflates the first sample at `max_threads`; it changes which local minimum is reached, not that one is. Its mutant has the minimizing branch compare with `>`, which settles at a local maximum.

The dependency tree uses two tasks, two identifiers and five node identities, enough for two tasks to share a child, for one to be renamed onto the other's child, and for a node to be erased and a fresh one created. `MaxCount` = 3.

Every property of a passing run is broken by at least one mutant of the mapped code: a dropped clamp, a dropped floor, a dropped guard, an off-by-one rearm, a wrong comparison or a missing reset. The mutants are listed in `PROJECT.json`.

**Deadlock.** `threshold` sets `CHECK_DEADLOCK FALSE`, because after a NULL-profile crash the process is gone and nothing can happen. Every other passing run checks deadlock.

**Fairness.**

- The periodic driver fires a registered policy on its own timer thread regardless of the application, so each controller spec has weak fairness on its tick.
- In `ThrottleRace`, the tick's steps are weakly fair, because a tick never blocks (spec section 5).
- Setup, shutdown, the scheduler and the profiler get no fairness: they happen when the application calls them.
- The threshold spec has no liveness property and no fairness.

## 4. Proofs

Each `*Proofs` module extends its component's module and proves theorems for every value of the constants that satisfies that module's `ASSUME`s. Every invariant below is also checked by a TLC run on a small instance.

**PowerCapProofs.**

- `TypeCorrect`: `Spec => []TypeOK`. The type invariant is inductive by itself. Lemma `ReadingType` shows that a reading keeps `delay` within `0..WindowSize`: every decrement that reaches 0 rearms it.
- `CapBounded`: `Spec => []CapInBounds`. The inductive invariant is `TypeOK /\ CapInBounds`. Each tick leaves the cap unchanged or applies `DecreasedCap` or `IncreasedCap`, and the lemmas `DecreasedCapInBounds` and `IncreasedCapInBounds` show that both map the range to itself.
- `RefinesCapControl`: `Spec => ImplementsCapControl`, the step refinement to the abstract controller. Initial states map to initial states; under `TypeOK /\ CapInBounds` a tick before shutdown is an `Adjust` step of `CapControl` (or a stutter), a tick after shutdown leaves the cap alone, and `Shutdown` is the abstract `Shutdown`. `CapControl` has no fairness, so no `ENABLED` is needed.

**ThrottleRaceProofs.** `ThrottleRace` states the assumptions of `PowerCap` on the constants it passes on (`RaceConstantsAssumption`). An instantiated module's `ASSUME`s are obligations, not facts. The `PowerCapProofs` lemmas are reused through `INSTANCE`.

- `TypeCorrect`: the type invariant, for any interleaving of the timer's three steps, the scheduler's reads and shutdown. It is a lemma for the theorems below; `throttle_race` does not check it, because it adds nothing to `PowerCap`'s.
- `CapWindow`: `Spec => []CapOutsideOnlyBetweenStores`, for both builds. The inductive invariant `RaceInv` says three things. First, the cap the running tick will leave (`CapAfterTick`) is always in bounds. Second, `thread_cap` is in bounds except between the two stores of a split build. Third, a merged build never reaches the `store` step and its scheduler reads are in bounds. `ClampedInBounds` closes the read step.
- `MergedStoresObserveBounds`: with `~SplitStores`, `Spec => []ObservedCapInBounds`. This is the other side of the `throttle_race_split` violation: in a merged-store build the race is harmless.
- `NoTickAfterDrain`: `Spec => [][Drained => Drained' /\ UNCHANGED thread_cap]_vars`, the safety half of `CapSettlesAfterShutdown`. Once `apex_final` is set and no tick is in flight, the timer's read fails its `apex_final` test and the stores need a tick in flight, so nothing writes the cap again. A tick that read `apex_final` before shutdown may still store after it; that is the case the liveness half, model-checked, covers.
- `SplitTickRefinesPowerCap`: `Spec => AtomicSafety`, the safety part of `ImplementsPowerCap`. Under `CapAfterTick`, `TimerRead` is a `Tick` of `PowerCap`, the two stores and the scheduler's reads are stutters, and setup and shutdown map to themselves, even in the middle of a tick. The fairness conjunct of `ImplementsPowerCap` stays with TLC.

**HillClimbProofs.**

- `TypeCorrect`: every index the policy uses lies in `0..max_threads`, and the evaluations stay naturals. Lemma `TickEffect` states what a tick does without its `LET`s, and `FoldedNat` shows that the moving average of naturals is a natural.
- `CapBounded`: for every `min_threads <= max_threads` (what `ThreadsAssumption` allows), `CapInBounds` holds always when `min_threads < max_threads`, and when they are equal `thread_cap` is always `max_threads - 1` or `max_threads`. So the equal-bounds case is the only way the cap leaves its bounds, and by one thread. `CapInBounds` is not inductive, because a tick sets the cap to the stencil's center, one of its neighbours or the best of those three. The inductive invariant `Bounded` bounds both `thread_cap` and `current_cap` by `Floor..max_threads`, where `Floor` is `min_threads`, or `max_threads - 1` when the bounds are equal. `NeighborsAboveFloor` and `BestInStencil` close the step.
- `CommitsBest`: `Spec => CommitPicksBest`, for every landscape and criterion. Lemma `BestIsBest` shows that `Best` scores at least as well as each stencil point. It rests on comparing the high neighbour with the best so far, which is exactly what the `BestAgainstCenter` mutant breaks. `TickCommit` and `TickProbe` describe the two branches of a tick.
- `RoundMeasured`: `Spec => RoundMeasuresStencil`. The inductive invariant `FlagsMeasured` says that a raised probe flag means its point was sampled since the last commit. It needs the commit to clear all three flags (the `ClearedLowKept` mutant breaks it). It also needs `committed => registered`, because otherwise a `Setup` step could follow a commit.

**ThresholdProofs.**

- `TypeCorrect`: `throughput_delay` stays within `0..MAX_WINDOW_SIZE` across wait, reset and decision ticks, and the saved baseline and history are always profiles of the store. Lemma `DecideEffect` summarises a decision tick.
- `CapBounded`: `TypeOK /\ CapInBounds` is inductive. Only a decision tick moves the cap, by one clamped gradual step (`DecreasedGradualInBounds`, `IncreasedGradualInBounds`).
- `Staggered`: `Spec => DecisionsStaggered`. The inductive invariant `StaggerInv` says that `sinceDecision + throughput_delay = WindowSize`. Each waiting or resetting tick moves one unit from the delay to the count, and a decision rearms the delay and zeroes the count. A decision needs the decremented delay to be negative, so it comes exactly `WindowSize` ticks after the previous one.

**DependencyTreeProofs.**

- `TypeCorrect` and `TreeStaysWellFormed`. Neither invariant is inductive alone. `count` stays non-negative only because a child in the map has count at least 1, so `replaceChild`'s decrement never goes below 0; and the map stays well formed only with the types. The inductive invariant is `IInv == TypeOK /\ TreeWellFormed`. Its lemmas: `InsertStep` (inserting a fresh node with count 1), `EraseKeeps` (the decrement and erase), `IncrementKeeps` (`count++`), and `FreshNotLive` (a new node is in no slot and held by no task). `NextIInv` has one step per action and one sub-step per branch of `replaceChild`.

**DynamicBackendsProofs.**

- `TypeCorrect`: for any set of backends, any options and either build, only operations a library exports ever reach it.
- `StaticsResolvedOnce`: `Spec => ResolvedOnce`. Once initialised, a static never changes. A nullptr cached before the library was loaded is kept for good. This is the half of the `dynamic_late` finding that holds for every instance.
- `BrokenOnlyByNullInit`: in either build and for any options, if flush or stop reached a library whose init did not, then init's static holds nullptr. The caller's order alone never skips init; only a late library does. The inductive invariant `ContractInv` says four things. A backend past startup with its option on has resolved its init. Only enabled backends are reached. Flush and stop reach a backend only after startup. An init static holding the function has reached the library. Lemmas `CallEnabled` and `CallDisabled` give the two branches of an entry point.

Out of the prover's reach, and only model-checked:

- the liveness properties (`SustainedHighReachesMin`, `SustainedLowReachesMax`, `SearchSettles`, and the leads-to half of `CapSettlesAfterShutdown`), which need fairness and `ENABLED`;
- the fairness conjunct of `ImplementsPowerCap` (the weak fairness of `PowerCap`'s `Tick` under the mapping), which needs `ENABLED`; its safety part is proved;

## 5. Not modelled (yet)

- **Event dispatcher.** `policy_handler.hpp` only declares the class. `register_policy` and the dispatch loop are in `policy_handler.cpp`, which is not in `src/`. The next step is a module modelled from the spec, with per-type locks and the atomic `next_id`, refined to an ordered registry.
- **Dependency tree output.** `writeNode` only formats the tree.
- **Examples.** `demo.c` is a straight-line start/stop sequence. `mpi_auto_balance.cpp` is numerical stencil work over MPI. Its `update_interval = num_iterations / 100` is 0 for fewer than 100 iterations, and the following `%` then divides by zero; this is recorded as a hazard.
- **Calling setup twice.** This would register two timers that both write the cap. It is a misuse the spec rules out ("registers exactly one controller").
- **Output.** Log printing and the formatting of `cap_data` records.
- **The debug-build abort of `apex_dynamic.cpp`.** `DynamicBackends` models it, and `NoAbort` states the spec's promise, but no run checks it. It is recorded as a hazard.

Planned next: the dispatcher module, and a proof that the threshold policy decides on a profile reset one tick earlier.

# TLA+ models of the UltraBalancer core

This directory holds TLA+ models of `src/src/core/lb_core_advanced.c` (the load-balancer
core) and, as the plan below says, of `src/src/main_advanced.c` (the process entry
point). TLC checks them. `PROJECT.json` lists the components, the runs, the mutants that
show each property can fail, the map from every TLA+ definition to the source lines it
translates, the findings and the hazards.

## 1. Inventory

### Components and their state

| Component | Source | State | Operations |
|---|---|---|---|
| Status taxonomy, logging | `lb_core_advanced.c` 37-113 | `g_log_level` (never stored to after its initialiser) | `lb_log` with its level filter, `lb_status_str` (formatting only) |
| Backend entity | `loadbalancer.h` (not in the repository), built in `lb_core_add_backend` | `state`, `active_conns`, `weight` (atomics), `host`, `port`, `sockfd`, `lock` | create (inside add), mark, inc/dec conns (by collaborators) |
| Registry | `lb_core_t.backends[]`, `backend_count`, `backends_lock` | slot array, plain `uint32_t` count, spin lock | `lb_core_add_backend` (352-370); lock-free reads by the strategies |
| Strategies | 224-278 | `rr_idx` (atomic cursor) | `strat_rr_select`, `strat_leastconn_select`, the no-op init and teardown, `lb_strategy_from_algo` |
| Select entry point | 372-374 | none | `lb_core_select_backend` (body truncated in the source; it is taken to delegate to `strategy.select`, spec section 9) |
| Thread-pool stub | 138-160 | `threads`, `nthreads`, `running` | `lb_thread_pool_start`, `lb_thread_pool_stop` |
| Listening endpoint | 202-222 | socket fd | `lb_set_nb_tcp_opts`, `lb_bind_listen` (no caller in the source) |
| Core lifecycle | 283-350 | `epfd`, `mem`, lock, strategy, pool, backends | `lb_core_create`, `lb_core_destroy` |
| Main program | `main_advanced.c` | `g_running`, `g_thread_pool`, `g_config`, signal fd | init sequence with `goto cleanup`, `run_main_loop`, `handle_signal`, cleanup |
| Collaborators | spec 1 and 6 | none of their own | the health checker marks backends; the data plane moves `active_conns` |

### How they interact

Adder threads write the registry under `backends_lock`. Selector threads never take the
lock: both strategies read `backend_count`, the slots and each backend's atomics directly.
Round-robin callers share the atomic cursor `rr_idx`. The collaborators change
`state` and `active_conns` concurrently with both. `lb_core_create` binds the strategy
once; `lb_core_destroy` releases everything in a fixed order. `main_advanced.c` does not
call the core; it chains external subsystems (logging, config, signalfd, thread pool,
plugin manager) and then loops on `select()` over the signal fd.

### What is hard here

* The add path checks capacity without the lock and publishes with two plain stores that
  lock-free readers can see in either order.
* The round-robin cursor is shared by all callers and wraps at 2^32.
* Least-connections compares counters read at different moments while they move.
* Both strategies re-read `backend_count` in their loop conditions while adds grow it.
* Creation and `main` have several steps, each of which may fail; the cleanup must release
  exactly what was acquired.
* Signal masking must happen before any thread is created.

### What makes each component correct

* Registry: `backend_count <= MAX_BACKENDS`; when no add holds the lock, the slots hold the
  successful adds in linearisation order (spec 8.1).
* Strategies: no-candidate only when no backend is UP (spec 4.7); strict rotation modulo N
  (spec 4.4); least-connections returns the lowest-index minimum when nothing moves, and
  the strict minimum if one exists throughout the call (spec 8.5); every call returns.
* Lifecycle: every acquired resource is released exactly once, on the success path and on
  every failure path (spec 5); a pool can be started, stopped and started again (spec 8).
* Main: cleanup releases what init acquired, the exit status reflects failure, and a
  shutdown signal eventually ends the loop.

## 2. Plan

1. **LbCore** (written): the registry, both strategies and the select entry point, run by
   adder and selector threads, with the collaborators as environment steps. This is the
   behaviour that matters most: it is where the threads share memory.
2. **LbRegistryAbstract** (written): an atomic registry and select. LbCore is shown to
   implement it with `INSTANCE ... WITH` (section 3a). The abstract spec is checked as a
   PROPERTY under the `registry_rr` and `registry_lc` bounds.
3. **LbLifecycle** (written): `lb_core_create` and `lb_core_destroy`, with calloc,
   `epoll_create1`, `mmap` and the pool's calloc each able to fail, and the thread-pool
   stub inside them, and `lb_bind_listen` beside them.
4. **MainProgram** (written): `main()`'s init chain with failure at each step, the
   signalfd loop with signals and `select()` errors arriving in any order, and cleanup.
5. No composition of LbCore with LbLifecycle: the two never interleave (section 8).

## 3. Module LbCore

`LbCore.tla` models `lb_core_t` after a successful `lb_core_create`. `MCLbCore.tla`
extends it with a symmetry set over the backend records.

State: `backend_count`, `backends` (slot to backend record or `NULL`), `rr_idx`
(`CursorBits` bits wide), `lock` (holder of `backends_lock`), `state` and `conns` (each
record's `state` and `active_conns`), and `allocated` (records calloc has returned). Each
thread also has a program counter and the locals of its current call: `nb`, `at`,
`status` for adders; `tries`, `cur`, `li`, `minc`, `sel`, `ret` for selectors. Locals are
reset when a call returns, as its stack frame goes away.

Actions, one per step of the code that touches shared memory:

* `lb_core_add_backend`: `AddInvalid`, `AddLimit`, `AddNoMem` (its early returns),
  `AddAlloc` (calloc and field setup, before the lock), `AddLock` (spin lock, then load of
  the count), `AddStoreSlot` and `AddStoreCount` (the two stores of
  `backends[backend_count++] = b`, in either order), `AddUnlock`.
* `lb_core_select_backend`: `SelectEmpty` (count 0) and `SelectBegin` (delegation).
* `strat_rr_select`: `RrFetch` (`atomic_fetch_add`), `RrRead` (index, slot, state test,
  return or retry), `RrExhausted`.
* `strat_leastconn_select`: `LcScan` (one slot per step), `LcReturn`.
* Collaborators: `MarkBackend`, `IncConns`, `DecConns` (saturating), on registered
  backends.

History variables, read only by properties: `added` (the successful adds in order),
`upSince` and `minSince` (per selector: the backends that stayed UP, or strictly least
loaded, through the whole call), `quiet` (nothing moved during the call), and `lastRr`
(the last round-robin index with its N).

Fairness: weak fairness on each selector thread, and on each adder inside a call after
its allocation (`AdderInCall`), because the OS schedules a runnable thread. An adder
spinning on `backends_lock` is runnable, but the lock is not fair, so weak fairness is
all it is owed. It is enough for `CallsReturn`: the lock is taken only by calls that
passed the unlocked capacity check and got a record, so it is taken finitely often, and
once it stays free the waiter gets it. Idle adders and the collaborators get no fairness,
because callers may stop calling.

`MCLbCore` also defines `NoStatusView`, the state without the adders' last return values.
No guard and no property other than `TypeOK` reads them, so states that differ only
there have the same futures. `registry_lc` checks under this view.

## 3a. Module LbRegistryAbstract and the refinement

`LbRegistryAbstract.tla` states what the registry and `lb_core_select_backend` promise,
with every operation atomic. Its state is `reg` (the registered backends in order), `state`,
`ret` (each caller's last answer), and per caller `seen`, `downSeen` and `atBegin`. These
are the backends that were UP at some moment of the current call, those that were not UP
at some moment, and those registered when it began. Its actions:

* `Add(b)` appends a fresh backend while `reg` is not full.
* `Mark(b, s)` changes the state of a registered backend.
* `Begin(t)` starts a call.
* `Answer(t, b)` returns a backend in `seen[t]`, or NULL. NULL is allowed only when
  nothing is registered or every backend of `atBegin[t]` is in `downSeen[t]`.

`LbCore` defines the mapping and checks `RegistryRefinement == Abstract!Spec`:

* `reg` is `Published`: the non-NULL slots below `backend_count`, in slot order. A reader
  sees exactly these, because both strategies skip a NULL slot. An add takes effect
  abstractly at whichever of its two stores comes second.
* `seen`, `downSeen` and `atBegin` are three history variables of LbCore: `upEver`,
  `downEver` and `regAtBegin`. `SelectBegin` sets them, `MarkBackend` and `Track` extend
  them, and nothing else reads them.
* A selector's `ret` maps to the abstract `ret`. Every other step of a call is a stutter
  step of the abstract spec.

Least-connections meets the abstract NULL condition, and `registry_lc` checks it.
Round-robin does not, even with one caller. Take N = 3 and a 2-bit cursor at 3 (2^32-1
in the build). The caller reads slots 3 % 3 = 0, then 0 % 3 = 0, then 1, and returns
NULL, although slot 2 is UP throughout. This is the wrap of `rr_wrap`. Two callers
sharing the cursor fail it at any N, which is the `rr_contention` finding. So no run
checks the refinement for round-robin, and `registry_rr`'s bounds (N of 1 or 2) would
only hide that. The definitions of `LbRegistryAbstract` state a promise
and translate no code, so they have no entries in the map.

## 4. Module LbLifecycle

`LbLifecycle.tla` follows one `lb_core_t` from `calloc` to `free`, then lets a caller create
a new one. It keeps the code's fields (`epfd`, `mem`, `tpool.threads`, `running`,
`backends`) apart from what the process really holds (`held`). A release guarded by the
wrong field therefore shows up as a leak or as a release of something not held
(`spurious`). The `acquired` and `released` histories of the current core record the
order.

* `CreateCalloc`, `CreateEpoll` (success also sets the cfg defaults and initialises
  `backends_lock`), `CreateMmap` (failure is only logged), and `CreatePool` (strategy
  binding, `lb_thread_pool_start` (`PoolStart`, whose calloc may fail), `*out = lb`). The strategy-init
  failure branch is dead: both inits return `LB_OK`.
* `AddBackend(b)`: a whole successful `lb_core_add_backend`, one call at a time. LbCore
  covers its interleavings. Refusals change nothing.
* `Destroy`: the whole of `lb_core_destroy`, releasing `DestroyRelease` in the code's
  order.
* `BindListen`: a whole `lb_bind_listen` together with `lb_set_nb_tcp_opts`. `socket()`
  takes a descriptor of `Fds` that is not open; when none is free it fails and nothing
  changes. Then the OR-ed `setsockopt` calls, `bind` and `listen` either all succeed, and
  the fd joins `listening` (the caller keeps it), or the first of them to fail
  (`FailingCalls`) ends the call on its own failure path. `ClosesOnFailure(c)` says which
  paths close the fd (lines 217, 219, 220). Nothing in the repository calls it, so it may run at any moment.
  It touches no core state.

Logging: `LogLevel` is `g_log_level`, which is `LB_LOG_DEFAULT_LEVEL` (INFO unless the
build sets it); nothing in the file stores to it. `Log(s)` stands for a run of `LB_LOG*`
calls. Each call is an `Event(level, what)`, and it reaches stderr if `Emitted` (the filter
of `lb_logv`) passes it. `events` holds what the current core's calls emitted. It is
cleared when a new create starts. `CreateMmap` logs a WARN on failure. `CreatePool` logs a
WARN if the pool did not start, then the INFO announcing the core. `AddBackend` logs one
INFO. No property reads `events`: each action's log calls are written into it
directly, so a property over the log would restate those actions.

No fairness: nothing here has to happen.

## 5. Module MainProgram

`MainProgram.tla` models `main()`, with the kernel as an environment.

* `pc` walks the init steps in `InitOrder`: `InitializeLogging`, `LoadConfiguration`,
  `SetupSignalHandling`, `InitializeThreadPool`, then `CreatePluginManager`, `LoadPlugin`
  (one per loop iteration) and `SetDefaultAlgorithm`. Each step may fail (`Fail`: the
  `goto cleanup` with `EXIT_FAILURE`). `Cleanup` releases `CloseSignalFd`,
  `CleanupThreadPool` (both guarded, as in the code), `CleanupConfiguration` and the
  logging system (both unguarded).
* The loop has three actions: `LoopSignal` reads the lowest-numbered pending signal and
  runs `handle_signal`, `LoopSelectError` breaks the loop, and `LoopExit` leaves when
  `g_running` is 0. `Cleanup` is the cleanup label.
* `Deliver(sig)` sends SIGHUP, SIGINT, SIGPIPE or SIGTERM. If every thread blocks it, it
  becomes pending. Otherwise it kills the process (`pc = "killed"`), because the default
  action of all four is to terminate. The pool's threads inherit the mask the main thread
  had when the pool was created (`poolUnmasked`).
* `pthread_sigmask` returns an error number, never -1, so the failure branch at line 57
  is dead. The model lets the mask always succeed.
* Select timeouts and EINTR change nothing and are stutter steps.

Fairness: weak fairness on the main thread's steps, without `LoopSelectError`. The OS runs
a runnable thread; nothing obliges `select()` to fail. Signals are bounded by
`MaxDeliveries`. Because a signalfd read returns the lowest-numbered signal first, an
endless stream of SIGHUP could starve a pending SIGTERM, so the liveness property
assumes finitely many signals.

## 6. Runs

| Run | Expect | Bounds | What it shows |
|---|---|---|---|
| `registry_rr` | pass | 1 adder, 1 RR selector, 3 records, capacity 2, 2-bit cursor, conns fixed at 0 (RR never reads them) | `TypeOK`, `RrStrictRotation`, `CallsReturn`. With one adder the capacity check cannot be raced, so `CountWithinCapacity` is left to `capacity_race`. Capacity is reached, the third add is refused, and the cursor wraps. N is 1 or 2, both dividing 4, so rotation survives the wrap; `rr_wrap` takes N to 3. No-candidate and the refinement are not checked here: at N = 3 they fail (section 3a). |
| `registry_lc` | pass | 2 adders, 1 LC selector, 2 records, capacity 2, conns <= 2, no symmetry, view without `status` | `RegistryMatchesAddHistory`, `LcExactWhenQuiescent`, `RegistryRefinement`, `CallsReturn`. The adders really contend for the lock, an adder can lose it to the other, and an add can grow `backend_count` under a running scan. There are only two records, so the capacity race cannot happen here. Counters up to 2 give both ties and strict minima. One selector is enough: least-connections callers share no state. |
| `capacity_race` | violation | 2 adders, 3 records, capacity 2 | `CountWithinCapacity` fails: both adders pass the unlocked check at count 1, and count reaches 3. |
| `rr_contention` | violation | 2 RR selectors, capacity 2 | `NoCandidateOnlyWhenNoneUp` fails: one caller gets cursor values 0 and 2, both landing on the DOWN slot 0, and returns NULL while slot 1 is UP. |
| `rr_wrap` | violation | 1 RR selector, capacity 3, 2-bit cursor | `RrStrictRotation` fails: cursor 3 gives slot 0, the cursor wraps to 0, and slot 0 comes again. With 32 bits the same happens after 2^32 selections for any N that is not a power of two. |
| `lifecycle` | pass | 4 records, capacity 3, 2 descriptors | `TypeOK`, `NoLeakWhenGone`, `NoSpuriousRelease`, `NoSocketLeak`: every create failure, mmap and pool failure, 0 to 3 adds, destroy, and re-creation. Binds succeed or fail on any of their three failure paths at any point, up to a full descriptor table. |
| `release_order` | violation | 3 records, capacity 2, 1 descriptor | `ReleaseInReverseOrder` fails: `epfd` is closed before `backends_lock` is destroyed, and backends are freed last. |
| `main_shutdown` | pass | up to 2 plugins, 3 signals | `TypeOK`, `NoKillAfterSignalSetup`, `FailureExitReleasesAll`, `ShutdownSignalLeadsToExit`. Signals arrive before the mask (and kill), between mask and loop, and during cleanup. `CHECK_DEADLOCK FALSE` because the process exits. |
| `main_pm_leak` | violation | 1 plugin, 1 signal | `ResourcesReleasedAtExit` fails: after a successful plugin setup, main exits holding the plugin manager. |
| `main_select_error` | violation | same | `LoopFailureReported` fails: after a `select()` error main returns `EXIT_SUCCESS`. |
| `main_log_config` | violation | same | `LoggingConfiguredFromFile` fails at the first step: logging is set up from the zeroed `g_config`. |
| `lc_strict_min` | violation | 1 LC selector, conns <= 2 | `LcStrictMinimumReturned` fails. The scan reads slot 0 (UP, count 1) and keeps it. Slot 0 then goes DOWN, and slot 1, strictly least throughout, rises from 0 to 1. Since 1 < 1 is false, the call returns slot 0, which is DOWN by then. |

Why these bounds are enough: every mechanism above needs at most two threads of a kind,
two or three slots, and a cursor that wraps. With capacity 2 every count from 0 to full
occurs, including full with an add in flight. The 2-bit cursor wraps within a few calls.
With counters up to 1 or 2 both ties and strict minima occur. Each property has a mutant
in `PROJECT.json`: a one-operator change to the code's logic (an off-by-one, a dropped
lock, a stuck counter) that TLC finds violating the property under the run's own
configuration.

## 7. Findings

See `PROJECT.json` "findings": the unlocked capacity check (a code bug), spurious
no-candidate under round-robin contention (a code bug), loss of strict rotation at the
cursor wrap (the code against spec 4.4), and spec 8.5 against spec 4.4 for
least-connections under moving counters. Also: spec 5 against spec 4.7 on the release
order of destroy, the plugin manager that main never releases, `EXIT_SUCCESS` after a
`select()` error, and logging initialised before the configuration is loaded (all code
bugs except the first). The same cursor wrap also makes one round-robin
caller return NULL at N = 3 while a backend is UP (section 3a). No run of its own checks
this; `rr_wrap` exposes the same wrap.

## 8. Not modelled, and why

* The text of log lines (timestamp, category, source location, the message) and
  `lb_status_str`: formatting only. The errno suffix of `lb_logv` is also left out. It
  prints whatever `errno` holds, so the INFO event after a failed `mmap` carries a stale
  `ENOMEM`. This is what spec 6 describes, but no property here is about message text.
* Host, port and weight: no strategy reads them. Weight normalisation (0 becomes 1) cannot
  fail in a way any property distinguishes.
* Weak-memory reordering beyond the two stores of the add: `state` and `active_conns` are
  seq-cst atomics, and a slot pointer is either `NULL` (zeroed by calloc) or a fully built
  record. The model makes every shared access atomic apart from that split store.
* A counter at `UINT32_MAX` is never chosen by least-connections (`c < minc`). This cannot
  happen while counts stay under `max_connections` (65535), so the model bounds counters
  by `MaxConns`.
* The port and options `lb_bind_listen` is given: they only decide whether a call
  fails, which `BindListen` chooses freely.
* The external subsystems of `main` (config, logging, thread pool, plugin manager): their
  headers are not in the repository. Each is modelled only by success or failure and by
  what it holds.
* `lb_core_destroy` concurrent with select or add: spec 9 makes that a caller error, and
  `lb_core_create` returns the core only after its last step. So the core's calls run
  strictly between create and destroy, and the lifecycle never interleaves with them.
  LbLifecycle runs whole adds in that window; LbCore models their interleavings, and
  the two share no state, so no composed module is written.
* The strategy-init failure branch of `lb_core_create` (line 319): both built-in inits
  return `LB_OK`, so it cannot run. If it could, it would leak the arena.
* Whether `config_cleanup` and `logging_cleanup` are safe on subsystems that were never
  initialised depends on headers that are not in the repository. The model releases what
  is held and leaves out the rest.

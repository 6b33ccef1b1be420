---------------------------- MODULE MainProgram ----------------------------
(***************************************************************************)
(* main() of src/src/main_advanced.c: the init chain with its goto        *)
(* cleanup on each failure, the select()/signalfd loop, and the cleanup   *)
(* sequence, with the kernel delivering SIGHUP, SIGINT, SIGPIPE and       *)
(* SIGTERM at any moment.  The external subsystems (logging, config,      *)
(* thread pool, plugin manager) are resources that each call acquires or  *)
(* releases, and whose creation may fail.                                 *)
(***************************************************************************)
EXTENDS Integers, Sequences, FiniteSets

CONSTANTS
    MaxPlugins,     \* largest g_config.plugin_count a configuration file gives
    MaxDeliveries   \* bound on signals the environment sends in one run

ASSUME MaxPlugins \in Nat /\ MaxDeliveries \in Nat

\* Signals that setup_signal_handling blocks, with their Linux numbers: a
\* read of a signalfd dequeues the lowest-numbered pending signal first.
SigNo == [HUP |-> 1, INT |-> 2, PIPE |-> 13, TERM |-> 15]
Signals == DOMAIN SigNo

\* What main acquires: the logging system, g_config (config_init), the
\* signalfd, g_thread_pool, and the plugin manager of load_backend_plugins.
Resources == {"log", "config", "sfd", "pool", "pm"}

VARIABLES
    pc,             \* the step of main() the main thread is at
    exit_status,    \* "SUCCESS" (EXIT_SUCCESS) or "FAILURE"
    g_running,
    plugin_count,   \* g_config.plugin_count once the file is loaded
    pi,             \* loop index of load_backend_plugins
    held,           \* resources the process holds
    masked,         \* the main thread blocks the four signals
    poolUnmasked,   \* the pool's threads were created without that mask
    pending,        \* signals pending on the process (each at most once)
    deliveries,     \* signals sent so far
    configLoaded,   \* config_load_from_file has succeeded
    logFromFile,    \* history: logging_init ran on a loaded configuration
    loopError       \* history: run_main_loop left on a select() error

vars == <<pc, exit_status, g_running, plugin_count, pi, held, masked,
          poolUnmasked, pending, deliveries, configLoaded, logFromFile,
          loopError>>
sigVars == <<pending, deliveries>>

\* The order in which main() runs its init steps (lines 316-345); the
\* order with the thread pool before signal handling comes first.
InitOrderPoolFirst == <<"logging", "config", "pool", "signals", "plugins">>
InitOrder == <<"logging", "config", "signals", "pool", "plugins">>

\* The step after init step s: the next one, or the main loop.
After(s) ==
    LET i == CHOOSE k \in DOMAIN InitOrder : InitOrder[k] = s
    IN IF i < Len(InitOrder) THEN InitOrder[i + 1] ELSE "loop"

\* An init step failed: exit_status = EXIT_FAILURE; goto cleanup.
Fail == pc' = "cleanup" /\ exit_status' = "FAILURE"

Init ==
    /\ pc = InitOrder[1]
    /\ exit_status = "SUCCESS"
    /\ g_running = TRUE
    /\ plugin_count = 0 /\ pi = 0
    /\ held = {}
    /\ masked = FALSE /\ poolUnmasked = FALSE
    /\ pending = {} /\ deliveries = 0
    /\ configLoaded = FALSE /\ logFromFile = FALSE /\ loopError = FALSE

-----------------------------------------------------------------------------
(* The init chain                                                          *)

\* initialize_logging: logging_init on a log_config_t filled from g_config.
InitializeLogging ==
    /\ pc = "logging"
    /\ \/ Fail /\ UNCHANGED <<held, logFromFile>>
       \/ /\ pc' = After("logging")
          /\ held' = held \cup {"log"}
          /\ logFromFile' = configLoaded
          /\ UNCHANGED exit_status
    /\ UNCHANGED <<g_running, plugin_count, pi, masked, poolUnmasked,
                   sigVars, configLoaded, loopError>>

\* load_configuration: config_init, then load from the file and validate;
\* either may fail.  A valid file gives any plugin count up to MaxPlugins.
LoadConfiguration ==
    /\ pc = "config"
    /\ held' = held \cup {"config"}
    /\ \/ Fail /\ UNCHANGED <<plugin_count, configLoaded>>
       \/ /\ pc' = After("config")
          /\ configLoaded' = TRUE
          /\ plugin_count' \in 0..MaxPlugins
          /\ UNCHANGED exit_status
    /\ UNCHANGED <<g_running, pi, masked, poolUnmasked, sigVars,
                   logFromFile, loopError>>

\* setup_signal_handling: pthread_sigmask(SIG_BLOCK) (which returns an
\* error number, never -1, so its failure branch is dead), then signalfd,
\* which may fail; signal_fd stays -1 then.
SetupSignalHandling ==
    /\ pc = "signals"
    /\ masked' = TRUE
    /\ \/ Fail /\ UNCHANGED held
       \/ /\ pc' = After("signals")
          /\ held' = held \cup {"sfd"}
          /\ UNCHANGED exit_status
    /\ UNCHANGED <<g_running, plugin_count, pi, poolUnmasked, sigVars,
                   configLoaded, logFromFile, loopError>>

\* initialize_thread_pool: thread_pool_create may fail.  Its threads
\* inherit the signal mask the main thread has at that moment.
InitializeThreadPool ==
    /\ pc = "pool"
    /\ \/ Fail /\ UNCHANGED <<held, poolUnmasked>>
       \/ /\ pc' = After("pool")
          /\ held' = held \cup {"pool"}
          /\ poolUnmasked' = ~masked
          /\ UNCHANGED exit_status
    /\ UNCHANGED <<g_running, plugin_count, pi, masked, sigVars,
                   configLoaded, logFromFile, loopError>>

\* load_backend_plugins: plugin_manager_create may fail.
CreatePluginManager ==
    /\ pc = "plugins"
    /\ \/ Fail /\ UNCHANGED held
       \/ /\ pc' = "plugins_load"
          /\ held' = held \cup {"pm"}
          /\ UNCHANGED exit_status
    /\ pi' = 0
    /\ UNCHANGED <<g_running, plugin_count, masked, poolUnmasked, sigVars,
                   configLoaded, logFromFile, loopError>>

\* What the two failure paths of load_backend_plugins release, after a
\* version that forgets plugin_manager_destroy.
PluginFailReleaseNone == {}
PluginFailRelease == {"pm"}

\* The condition of for (i = 0; i < g_config.plugin_count; i++), after an
\* off-by-one form.
PluginsLeftPastEnd == pi <= plugin_count
PluginsLeft == pi < plugin_count

\* One iteration of the plugin loop: plugin_manager_load may fail.
LoadPlugin ==
    /\ pc = "plugins_load"
    /\ PluginsLeft
    /\ \/ /\ Fail
          /\ held' = held \ PluginFailRelease
          /\ UNCHANGED pi
       \/ /\ pi' = pi + 1
          /\ UNCHANGED <<pc, exit_status, held>>
    /\ UNCHANGED <<g_running, plugin_count, masked, poolUnmasked, sigVars,
                   configLoaded, logFromFile, loopError>>

\* plugin_manager_set_default_algorithm may fail.  On success the function
\* returns 0 and pm, a local, goes out of scope still allocated.
SetDefaultAlgorithm ==
    /\ pc = "plugins_load"
    /\ pi = plugin_count
    /\ \/ /\ Fail
          /\ held' = held \ PluginFailRelease
       \/ /\ pc' = After("plugins")
          /\ UNCHANGED <<exit_status, held>>
    /\ UNCHANGED <<g_running, plugin_count, pi, masked, poolUnmasked,
                   sigVars, configLoaded, logFromFile, loopError>>

-----------------------------------------------------------------------------
(* run_main_loop                                                           *)

\* handle_signal: the signals that clear g_running, after a version that
\* forgets SIGTERM.
ShutdownSignalsIntOnly == {"INT"}
ShutdownSignals == {"INT", "TERM"}

\* The lowest-numbered pending signal, which the read of the signalfd gets.
NextSignal == CHOOSE s \in pending : \A t \in pending : SigNo[s] <= SigNo[t]

\* select() reports the signalfd readable; read returns a full siginfo for
\* the first pending signal and handle_signal acts on it (SIGHUP and
\* SIGPIPE only log).  A timeout or EINTR changes nothing (a stutter step).
LoopSignal ==
    /\ pc = "loop" /\ g_running
    /\ pending # {}
    /\ pending' = pending \ {NextSignal}
    /\ g_running' = (NextSignal \notin ShutdownSignals)
    /\ UNCHANGED <<pc, exit_status, plugin_count, pi, held, masked,
                   poolUnmasked, deliveries, configLoaded, logFromFile, loopError>>

\* select() fails with an errno other than EINTR: "break", after which
\* run_main_loop still returns 0.
LoopSelectError ==
    /\ pc = "loop" /\ g_running
    /\ pc' = "cleanup"
    /\ loopError' = TRUE
    /\ UNCHANGED <<exit_status, g_running, plugin_count, pi, held, masked,
                   poolUnmasked, sigVars, configLoaded, logFromFile>>

\* while (g_running) is false: the loop returns 0.
LoopExit ==
    /\ pc = "loop" /\ ~g_running
    /\ pc' = "cleanup"
    /\ UNCHANGED <<exit_status, g_running, plugin_count, pi, held, masked,
                   poolUnmasked, sigVars, configLoaded, logFromFile, loopError>>

\* if (signal_fd >= 0) close(signal_fd): signal_fd is set only by a
\* successful signalfd.
CloseSignalFd == held \cap {"sfd"}

\* cleanup_thread_pool: if (g_thread_pool), shut it down and destroy it.
CleanupThreadPool == held \cap {"pool"}

\* cleanup_configuration: config_cleanup(&g_config), with no test.
CleanupConfiguration == {"config"}

\* The cleanup label, in order: the signal fd, the pool, the configuration,
\* then logging_cleanup (with no test); main returns exit_status.
Cleanup ==
    /\ pc = "cleanup"
    /\ pc' = "exited"
    /\ held' = held \ (CloseSignalFd \cup CleanupThreadPool
                        \cup CleanupConfiguration \cup {"log"})
    /\ UNCHANGED <<exit_status, g_running, plugin_count, pi, masked,
                   poolUnmasked, sigVars, configLoaded, logFromFile, loopError>>

-----------------------------------------------------------------------------
(* The kernel                                                              *)

\* A signal is sent to the process.  If every thread blocks it, it becomes
\* pending (a second copy of a pending standard signal merges with it);
\* otherwise its default action (all four terminate) kills the process
\* without any cleanup.
Deliver(sig) ==
    /\ pc \notin {"exited", "killed"}
    /\ deliveries < MaxDeliveries
    /\ sig \notin pending
    /\ deliveries' = deliveries + 1
    /\ IF masked /\ ~poolUnmasked
          THEN pending' = pending \cup {sig} /\ UNCHANGED pc
          ELSE pc' = "killed" /\ UNCHANGED pending
    /\ UNCHANGED <<exit_status, g_running, plugin_count, pi, held, masked,
                   poolUnmasked, configLoaded, logFromFile, loopError>>

-----------------------------------------------------------------------------
MainStep ==
    \/ InitializeLogging \/ LoadConfiguration \/ SetupSignalHandling
    \/ InitializeThreadPool \/ CreatePluginManager \/ LoadPlugin
    \/ SetDefaultAlgorithm \/ LoopSignal \/ LoopExit \/ Cleanup

\* A select() error and a signal are the kernel's doing; neither is owed.
Next == MainStep \/ LoopSelectError \/ \E sig \in Signals : Deliver(sig)

\* The OS runs the main thread whenever it has something to do; nothing
\* forces select() to fail.
Spec == Init /\ [][Next]_vars /\ WF_vars(MainStep)

-----------------------------------------------------------------------------
(* Properties                                                              *)

TypeOK ==
    /\ pc \in {"logging", "config", "signals", "pool", "plugins",
               "plugins_load", "loop", "cleanup", "exited", "killed"}
    /\ exit_status \in {"SUCCESS", "FAILURE"}
    /\ plugin_count \in 0..MaxPlugins /\ pi \in 0..plugin_count
    /\ held \subseteq Resources /\ pending \subseteq Signals
    /\ deliveries \in 0..MaxDeliveries
    /\ {g_running, masked, poolUnmasked, configLoaded, logFromFile, loopError}
          \subseteq BOOLEAN

\* "Block signals for all threads" (setup_signal_handling): once the mask
\* is in place, no signal kills the process through a thread that lacks
\* it; every signal then reaches the signalfd and the cleanup sequence.
NoKillAfterSignalSetup == pc = "killed" => ~masked

\* Every failure of the init chain (goto cleanup with EXIT_FAILURE),
\* including the plugin-manager paths, exits holding nothing.
FailureExitReleasesAll ==
    (pc = "exited" /\ exit_status = "FAILURE") => held = {}

\* A SIGINT or SIGTERM that reaches the signalfd ends the process through
\* the cleanup sequence, whatever other signals and failures interleave.
ShutdownSignalLeadsToExit ==
    \A sig \in {"INT", "TERM"} : sig \in pending ~> pc = "exited"

\* "Better resource management" / "Cleanup in reverse order of
\* initialization": main exits holding nothing it acquired.
ResourcesReleasedAtExit == pc = "exited" => held = {}

\* main() turns a failing run_main_loop into EXIT_FAILURE (line 354): a
\* loop ended by a select() error must exit with failure.
LoopFailureReported == (pc = "exited" /\ loopError) => exit_status = "FAILURE"

\* "Configurable log destinations": logging is initialised from the
\* configuration the file gives, not from the zeroed g_config.
LoggingConfiguredFromFile == "log" \in held => logFromFile

=============================================================================

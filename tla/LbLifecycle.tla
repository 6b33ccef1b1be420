---------------------------- MODULE LbLifecycle ----------------------------
(***************************************************************************)
(* Lifecycle of one lb_core_t (src/src/core/lb_core_advanced.c):          *)
(* lb_core_create with every step that can fail, lb_core_add_backend as   *)
(* one atomic call (LbCore models its interleavings), and lb_core_destroy. *)
(* The code's own fields (epfd, mem, tpool.threads, backends[]) are kept  *)
(* apart from what the process really holds (held), so that a release     *)
(* guarded by a stale or wrong field shows up as a leak or as a release   *)
(* of something not held.  Once destroyed or failed, a caller may create  *)
(* a new core.                                                            *)
(***************************************************************************)
EXTENDS Integers, Sequences, SequencesExt, FiniteSets

CONSTANTS
    BackendIds,   \* backend records calloc can return (model values)
    MaxBackends,  \* MAX_BACKENDS
    Fds,          \* descriptors the process can still open (model values)
    LogLevel      \* g_log_level: LB_LOG_DEFAULT_LEVEL, "INFO" unless the build sets it

ASSUME MaxBackends \in Nat \ {0}

\* What the process holds: the core allocation, the epoll fd, backends_lock,
\* the 64 MB arena, the pool's thread array, and each backend record (with
\* its own spin lock, initialised and destroyed together with it).
CoreResources == {"core", "epfd", "lock", "mem", "threads"}
Resources == CoreResources \cup BackendIds

VARIABLES
    phase,          \* where lb_core_create is, "live", or "gone" (NULL to the caller)
    status,         \* the lb_status_t the last create returned
    epfd,           \* lb->epfd >= 0
    mem,            \* lb->mem # NULL
    threads,        \* lb->tpool.threads # NULL
    running,        \* lb->tpool.running
    backends,       \* lb->backends[0 .. backend_count-1], in slot order
    held,           \* resources the process holds
    acquired,       \* history: acquisitions of the current core, in order
    released,       \* history: releases of the current core, in order
    spurious,       \* history: resources released while not held
    sockets,        \* socket descriptors open in the process
    listening,      \* descriptors lb_bind_listen returned to its callers
    events          \* log events the calls on the current core emitted, in order

vars == <<phase, status, epfd, mem, threads, running, backends,
          held, acquired, released, spurious, sockets, listening, events>>
fieldVars == <<epfd, mem, threads, running, backends>>
sockVars == <<sockets, listening>>

Phases == {"none", "epoll", "mmap", "pool", "live", "gone"}
\* The lb_status_t values lb_core_create returns (out is never NULL here),
\* and NONE before any create has returned.
Statuses == {"NONE", "OK", "NOMEM", "SYS"}

\* lb_log_level_t.
LogRank == [DEBUG |-> 0, INFO |-> 1, WARN |-> 2, ERROR |-> 3]

\* A call of LB_LOGD/I/W/E; the message is abstracted to what it reports.
Event(lvl, what) == [lvl |-> lvl, what |-> what]

\* lb_logv: if (lvl < atomic_load(&g_log_level)) return;
Emitted(lvl) == LogRank[lvl] >= LogRank[LogLevel]

\* The log calls s, in order, each reaching stderr if it passes the filter.
Log(s) == events' = events \o SelectSeq(s, LAMBDA e : Emitted(e.lvl))

Acquire(r) ==
    /\ held' = held \cup {r}
    /\ acquired' = Append(acquired, r)

\* Releases, in order, the resources of sequence s.
Release(s) ==
    /\ held' = held \ ToSet(s)
    /\ released' = released \o s
    /\ spurious' = spurious \cup (ToSet(s) \ held)
                   \cup {s[i] : i \in {i \in DOMAIN s : \E j \in 1..i-1 : s[j] = s[i]}}

Init ==
    /\ phase = "none"
    /\ status = "NONE"
    /\ epfd = FALSE /\ mem = FALSE /\ threads = FALSE /\ running = FALSE
    /\ backends = <<>>
    /\ held = {}
    /\ acquired = <<>> /\ released = <<>> /\ spurious = {}
    /\ sockets = {} /\ listening = {}
    /\ events = <<>>

-----------------------------------------------------------------------------
(* lb_core_create                                                          *)

\* calloc of the core; on failure LB_ERR_NOMEM and *out stays NULL.
CreateCalloc ==
    /\ phase \in {"none", "gone"}
    /\ released' = <<>>
    /\ events' = <<>>
    /\ \/ /\ phase' = "gone" /\ status' = "NOMEM"
          /\ acquired' = <<>>
          /\ UNCHANGED held
       \/ /\ phase' = "epoll" /\ status' = "NONE"
          /\ held' = held \cup {"core"}
          /\ acquired' = <<"core">>
    /\ UNCHANGED <<fieldVars, spurious, sockVars>>

\* What the epoll_create1 failure path releases: free(lb).
EpollFailRelease == <<"core">>

\* epoll_create1; on failure free(lb) and LB_ERR_SYS.  On success the cfg
\* defaults are set and backends_lock is initialised (its result unchecked).
CreateEpoll ==
    /\ phase = "epoll"
    /\ \/ /\ phase' = "gone" /\ status' = "SYS"
          /\ Release(EpollFailRelease)
          /\ UNCHANGED <<epfd, acquired>>
       \/ /\ phase' = "mmap"
          /\ epfd' = TRUE
          /\ held' = held \cup {"epfd", "lock"}
          /\ acquired' = acquired \o <<"epfd", "lock">>
          /\ UNCHANGED <<status, released, spurious>>
    /\ UNCHANGED <<mem, threads, running, backends, sockVars, events>>

\* mmap of the arena; MAP_FAILED is not fatal: mem = NULL, mem_size = 0.
CreateMmap ==
    /\ phase = "mmap"
    /\ phase' = "pool"
    /\ \/ /\ mem' = TRUE
          /\ Acquire("mem")
          /\ UNCHANGED events
       \/ /\ mem' = FALSE
          /\ Log(<<Event("WARN", "mmap")>>)
          /\ UNCHANGED <<held, acquired>>
    /\ UNCHANGED <<status, epfd, threads, running, backends, released, spurious, sockVars>>

\* lb_thread_pool_start: calloc of the thread array, then running = true;
\* a failed calloc returns LB_ERR_NOMEM and changes nothing.
PoolStart ==
    \/ /\ threads' = TRUE /\ running' = TRUE
       /\ Acquire("threads")
    \/ UNCHANGED <<threads, running, held, acquired>>

\* Strategy binding (both strategies' init return LB_OK, so the failure
\* branch is dead code), lb_thread_pool_start with nthreads >= 1 (sysconf
\* <= 0 gives 1), whose calloc failure is only logged, then *out = lb.
CreatePool ==
    /\ phase = "pool"
    /\ phase' = "live" /\ status' = "OK"
    /\ PoolStart
    /\ Log((IF threads' THEN <<>> ELSE <<Event("WARN", "pool")>>)
           \o <<Event("INFO", "created")>>)
    /\ UNCHANGED <<epfd, mem, backends, released, spurious, sockVars>>

-----------------------------------------------------------------------------
(* lb_core_add_backend, one call at a time.  Its refusals (LB_ERR_INVAL,   *)
(* LB_ERR_LIMIT, LB_ERR_NOMEM) change nothing and are stuttering steps.    *)

\* The capacity check of lb_core_add_backend (the off-by-one form first).
HasRoomPastEnd == Len(backends) <= MaxBackends
HasRoom == Len(backends) < MaxBackends

\* Success: a fresh record, its spin lock initialised, stored at the end.
AddBackend(b) ==
    /\ phase = "live"
    /\ HasRoom
    /\ b \notin held
    /\ backends' = Append(backends, b)
    /\ Acquire(b)
    /\ Log(<<Event("INFO", "added")>>)
    /\ UNCHANGED <<phase, status, epfd, mem, threads, running, released, spurious, sockVars>>

-----------------------------------------------------------------------------
(* lb_core_destroy                                                         *)

\* lb_thread_pool_stop: free(tp->threads) (free(NULL) releases nothing).
PoolStopRelease == IF threads THEN <<"threads">> ELSE <<>>

\* if (lb->mem) munmap(...), and the same call with its guard dropped.
ArenaReleaseUnguarded == <<"mem">>
ArenaRelease == IF mem THEN <<"mem">> ELSE <<>>

\* The backend loop stopping one slot early, then as written:
BackendsReleaseShort == SubSeq(backends, 1, Len(backends) - 1)
\* for (i = 0; i < backend_count; ++i) if (backends[i]) { destroy; free }
BackendsRelease == SubSeq(backends, 1, Len(backends))

\* The whole of lb_core_destroy, in the code's order: pool, strategy
\* teardown (a no-op), arena, epfd, backends_lock, backends, the core.
DestroyRelease ==
    PoolStopRelease \o ArenaRelease
    \o (IF epfd THEN <<"epfd">> ELSE <<>>) \o <<"lock">>
    \o BackendsRelease \o <<"core">>

Destroy ==
    /\ phase = "live"
    /\ Release(DestroyRelease)
    /\ phase' = "gone"
    /\ epfd' = FALSE /\ mem' = FALSE /\ threads' = FALSE /\ running' = FALSE
    /\ backends' = <<>>
    /\ UNCHANGED <<status, acquired, sockVars, events>>

-----------------------------------------------------------------------------
(* lb_bind_listen (with lb_set_nb_tcp_opts), which the code never calls:  *)
(* a caller may call it at any time.  It touches no core state.           *)

\* The calls of lb_bind_listen after socket() that can fail, each with its
\* own failure path: lb_set_nb_tcp_opts (the OR of its setsockopt
\* results), bind and listen.
FailingCalls == {"setsockopt", "bind", "listen"}

\* The failure paths that close(fd) before returning -1, after a version
\* whose bind failure returns -1 without closing.
ClosesOnFailureNotBind(c) == c \in {"setsockopt", "listen"}
ClosesOnFailure(c) == c \in {"setsockopt", "bind", "listen"}

\* socket() takes a free descriptor; it fails (returning -1, nothing to
\* close) when none is left, which changes nothing.  Then the options are
\* set, bind and listen follow; the first call to fail ends lb_bind_listen
\* on its own failure path with -1.  On success the listening descriptor
\* goes to the caller, which keeps it.
BindListen ==
    /\ \E fd \in Fds \ sockets :
         \/ \E c \in FailingCalls :
               /\ sockets' = IF ClosesOnFailure(c) THEN sockets
                                                  ELSE sockets \cup {fd}
               /\ UNCHANGED listening
         \/ /\ sockets' = sockets \cup {fd}
            /\ listening' = listening \cup {fd}
    /\ UNCHANGED <<phase, status, fieldVars, held, acquired, released, spurious,
                   events>>

-----------------------------------------------------------------------------
Next ==
    \/ CreateCalloc \/ CreateEpoll \/ CreateMmap \/ CreatePool
    \/ \E b \in BackendIds : AddBackend(b)
    \/ Destroy
    \/ BindListen

Spec == Init /\ [][Next]_vars

-----------------------------------------------------------------------------
(* Properties                                                              *)

TypeOK ==
    /\ phase \in Phases /\ status \in Statuses
    /\ {epfd, mem, threads, running} \subseteq BOOLEAN
    /\ backends \in Seq(BackendIds) /\ Len(backends) <= MaxBackends
    /\ held \subseteq Resources /\ spurious \subseteq Resources
    /\ acquired \in Seq(Resources) /\ released \in Seq(Resources)
    /\ listening \subseteq sockets /\ sockets \subseteq Fds
    /\ events \in Seq([lvl : DOMAIN LogRank, what : {"mmap", "pool", "created", "added"}])

\* Spec 5 and 8.6: once lb_core_create has failed or lb_core_destroy has
\* returned, the process holds nothing the core acquired, on every path
\* (each create failure, mmap or pool failure, any number of adds).
NoLeakWhenGone == phase = "gone" => held = {}

\* No path of lb_core_create or lb_core_destroy releases a resource it does
\* not hold or releases one twice (double free, munmap of NULL, double close).
NoSpuriousRelease == spurious = {}

\* Spec 4.5: "Any syscall failure closes the partially constructed socket":
\* however many calls of lb_bind_listen fail, and on whichever of its three
\* failure paths (setsockopt, bind, listen), the only sockets open are the
\* listening ones handed to callers; a path that returns -1 without
\* close(fd) leaks a descriptor until the table is full.
NoSocketLeak == sockets = listening

\* Spec 5: "Destroying a Core releases all owned resources in reverse order
\* of acquisition".  Checked against lb_core_destroy's fixed order.
ReleaseInReverseOrder ==
    (phase = "gone" /\ status = "OK") => released = Reverse(acquired)

=============================================================================

------------------------------- MODULE LbCore -------------------------------
(***************************************************************************)
(* The backend registry and the two backend-selection strategies of        *)
(* src/src/core/lb_core_advanced.c, run by concurrent threads.             *)
(*                                                                         *)
(* Adder threads call lb_core_add_backend; selector threads call           *)
(* lb_core_select_backend, which dispatches to the strategy bound at       *)
(* creation (round-robin or least-connections).  The collaborators that    *)
(* the core does not contain (health checking, connection accounting)      *)
(* appear as environment steps on the per-backend atomics.                 *)
(*                                                                         *)
(* Every shared-memory access the code makes outside the spin lock is a    *)
(* step of its own, so that the interleavings the code allows are the      *)
(* interleavings TLC explores.  Host, port and weight are abstracted away: *)
(* no strategy reads them; the argument check of add is a boolean input.   *)
(***************************************************************************)
EXTENDS Integers, Sequences, FiniteSets

CONSTANTS
  Adders,       \* threads calling lb_core_add_backend
  Selectors,    \* threads calling lb_core_select_backend
  BackendIds,   \* the backend records calloc can hand out (bounds allocation)
  MaxBackends,  \* MAX_BACKENDS, the capacity of lb->backends[]
  CursorBits,   \* width in bits of the atomic_uint rr_idx (32 in the build)
  MaxConns,     \* bound on a backend's active_conns in the model
  Algorithm,    \* lb->algorithm, the lb_algorithm_t tag given to lb_core_create
  NULL,         \* the null backend pointer
  NONE          \* no result yet: the selector's call is in flight

ASSUME
  /\ Adders \cap Selectors = {}
  /\ MaxBackends \in Nat \ {0}
  /\ CursorBits \in Nat \ {0}
  /\ MaxConns \in Nat
  /\ NULL \notin BackendIds /\ NONE \notin BackendIds \cup {NULL}

States    == {"DOWN", "UP", "DRAINING"}
Slots     == 0 .. MaxBackends - 1
CursorMod == 2 ^ CursorBits
\* minc's start value in strat_leastconn_select: above every counter the
\* model reaches, as UINT32_MAX is above every counter the build reaches.
UINT32_MAX == MaxConns + 1

VARIABLES
  backend_count,  \* lb->backend_count (plain uint32_t, read without the lock)
  backends,       \* lb->backends[]: slot -> backend pointer
  rr_idx,         \* lb->rr_idx, the round-robin cursor
  lock,           \* lb->backends_lock: the holding thread or NULL
  state,          \* b->state for every backend record
  conns,          \* b->active_conns for every backend record
  allocated,      \* backend records calloc has handed out
  pc,             \* each thread's position in its current call
  nb,             \* adder: the backend it built before taking the lock
  at,             \* adder: the value of backend_count it loaded under the lock
  tries,          \* round-robin: the loop counter of strat_rr_select
  cur,            \* round-robin: the cursor value its fetch_add returned
  li,             \* least-connections: the loop index of the scan
  minc,           \* least-connections: the smallest count seen so far
  sel,            \* least-connections: the backend holding minc
  status,         \* adder: the lb_status_t its last call returned
  ret,            \* selector: the backend its last call returned, or NONE
  \* History variables, read only by the properties:
  added,          \* backends whose add returned LB_OK, in return order
  upSince,        \* selector: registered backends UP at every step of its call
  minSince,       \* selector: backends UP with a strictly minimal count at
                  \* every step of its call
  quiet,          \* selector: no backend changed state or count during its call
  lastRr,         \* the last index computed by strat_rr_select, with its N
  upEver,         \* selector: backends UP at some step of its call, and
  downEver,       \* not UP at some step of it, and
  regAtBegin      \* registered when it began (read by the refinement only)

coreVars  == <<backend_count, backends, rr_idx, lock, state, conns, allocated>>
adderLocals    == <<nb, at, status>>
selectorLocals == <<tries, cur, li, minc, sel, ret>>
localVars == <<pc, adderLocals, selectorLocals>>
refVars   == <<upEver, downEver, regAtBegin>>
histVars  == <<added, upSince, minSince, quiet, lastRr, refVars>>
vars      == <<coreVars, localVars, histVars>>

-----------------------------------------------------------------------------
(* Helpers translated from the code.                                       *)

\* lb_strategy_from_algo: unknown tags fall back to least-connections.
StrategyFromAlgo(a) ==
  CASE a = "ROUNDROBIN" -> "roundrobin"
    [] a = "LEASTCONN"  -> "leastconn"
    [] OTHER            -> "leastconn"

Strategy == StrategyFromAlgo(Algorithm)

\* The capacity check of lb_core_add_backend, made before the lock is taken.
AtCapacity == backend_count >= MaxBackends

\* Mutation: the slot write and the increment are done without the lock.
LockIgnored == TRUE

\* pthread_spin_lock succeeds only when nobody holds the lock.
LockFree == lock = NULL

\* The slots a lock-free reader sees below backend_count.
Registered ==
  {backends[i] : i \in {j \in Slots : j < backend_count}} \ {NULL}

\* Mutation: the state test is dropped and any non-null slot qualifies.
UsableIgnoringState(b) == b # NULL

\* The test both strategies apply to a slot: non-null and state UP.
Usable(b) == b # NULL /\ state[b] = "UP"

\* Mutation: the cursor is treated as an unbounded integer.
RrNextCursorUnwrapped == rr_idx + 1

\* atomic_fetch_add(&lb->rr_idx, 1) on an unsigned of CursorBits bits.
RrNextCursor == (rr_idx + 1) % CursorMod

\* The loop condition of strat_rr_select, re-reading backend_count.
RrTriesLeft(t) == tries[t] < backend_count

\* Mutation: the loop counter is never advanced.
RrNextTryStuck(t) == tries[t]

\* tries is incremented after a slot is rejected.
RrNextTry(t) == tries[t] + 1

\* Mutation: the modulus is the array's capacity instead of its count.
RrIndexByCapacity(t) == cur[t] % MaxBackends

\* The index the fetched cursor value selects.
RrIndex(t) == cur[t] % backend_count

\* The loop condition of strat_leastconn_select, re-reading backend_count.
LcMore(t) == li[t] < backend_count

\* ++i at the end of each iteration of the scan.
LcNextSlot(t) == li[t] + 1

\* Mutation: ties go to the last backend scanned.
LcBetterOrEqual(c, t) == c <= minc[t]

\* The comparison that keeps the first backend with the smallest count.
LcBetter(c, t) == c < minc[t]

-----------------------------------------------------------------------------
(* History bookkeeping (not code): what the properties compare against.    *)

UpSet == {b \in Registered : state[b] = "UP"}

StrictMinUp ==
  {b \in UpSet : \A o \in UpSet \ {b} : conns[b] < conns[o]}

\* After a collaborator step, every in-flight call forgets the backends that
\* stopped qualifying, and adds those now UP to the ones it has seen UP.
Track ==
  /\ upSince'  = [t \in Selectors |-> upSince[t] \cap UpSet']
  /\ minSince' = [t \in Selectors |-> minSince[t] \cap StrictMinUp']
  /\ quiet'    = [t \in Selectors |-> FALSE]
  /\ upEver'   = [t \in Selectors |-> upEver[t] \cup UpSet']

-----------------------------------------------------------------------------
Init ==
  /\ backend_count = 0
  /\ backends  = [i \in Slots |-> NULL]
  /\ rr_idx    = 0
  /\ lock      = NULL
  /\ state     = [b \in BackendIds |-> "DOWN"]
  /\ conns     = [b \in BackendIds |-> 0]
  /\ allocated = {}
  /\ pc        = [t \in Adders \cup Selectors |-> "idle"]
  /\ nb        = [t \in Adders |-> NULL]
  /\ at        = [t \in Adders |-> 0]
  /\ tries     = [t \in Selectors |-> 0]
  /\ cur       = [t \in Selectors |-> 0]
  /\ li        = [t \in Selectors |-> 0]
  /\ minc      = [t \in Selectors |-> UINT32_MAX]
  /\ sel       = [t \in Selectors |-> NULL]
  /\ status    = [t \in Adders |-> "NONE"]
  /\ ret       = [t \in Selectors |-> NONE]
  /\ added     = <<>>
  /\ upSince   = [t \in Selectors |-> {}]
  /\ minSince  = [t \in Selectors |-> {}]
  /\ quiet     = [t \in Selectors |-> TRUE]
  /\ lastRr    = NONE
  /\ upEver    = [t \in Selectors |-> {}]
  /\ downEver  = [t \in Selectors |-> {}]
  /\ regAtBegin = [t \in Selectors |-> {}]

-----------------------------------------------------------------------------
(* lb_core_add_backend(lb, host, port, weight).                            *)
(* The argument check, the capacity check and the construction of the     *)
(* backend happen before the lock is taken; the statement                  *)
(*     lb->backends[lb->backend_count++] = b;                              *)
(* is two plain stores, which the build may emit in either order and which *)
(* lock-free readers may observe in either order.                          *)

\* The call returns s; its locals die with its stack frame.
Return(t, s) ==
  /\ status' = [status EXCEPT ![t] = s]
  /\ pc' = [pc EXCEPT ![t] = "idle"]
  /\ nb' = [nb EXCEPT ![t] = NULL]
  /\ at' = [at EXCEPT ![t] = 0]

\* host == NULL or port == 0: LB_ERR_INVAL.
AddInvalid(t) ==
  /\ pc[t] = "idle"
  /\ Return(t, "INVAL")
  /\ UNCHANGED <<coreVars, selectorLocals, histVars>>

\* backend_count >= MAX_BACKENDS, read without the lock: LB_ERR_LIMIT.
AddLimit(t) ==
  /\ pc[t] = "idle"
  /\ AtCapacity
  /\ Return(t, "LIMIT")
  /\ UNCHANGED <<coreVars, selectorLocals, histVars>>

\* calloc of the backend fails: LB_ERR_NOMEM.
AddNoMem(t) ==
  /\ pc[t] = "idle"
  /\ ~AtCapacity
  /\ Return(t, "NOMEM")
  /\ UNCHANGED <<coreVars, selectorLocals, histVars>>

\* calloc succeeds; the new backend starts DOWN with no connections.
AddAlloc(t) ==
  /\ pc[t] = "idle"
  /\ ~AtCapacity
  /\ \E b \in BackendIds \ allocated :
       /\ allocated' = allocated \cup {b}
       /\ state' = [state EXCEPT ![b] = "DOWN"]
       /\ conns' = [conns EXCEPT ![b] = 0]
       /\ nb' = [nb EXCEPT ![t] = b]
  /\ pc' = [pc EXCEPT ![t] = "lock"]
  /\ UNCHANGED <<backend_count, backends, rr_idx, lock, at, tries, cur, li,
                 minc, sel, status, ret, histVars>>

\* pthread_spin_lock, then the load of backend_count.
AddLock(t) ==
  /\ pc[t] = "lock"
  /\ LockFree
  /\ lock' = t
  /\ at' = [at EXCEPT ![t] = backend_count]
  /\ pc' = [pc EXCEPT ![t] = "store"]
  /\ UNCHANGED <<backend_count, backends, rr_idx, state, conns, allocated, nb,
                 tries, cur, li, minc, sel, status, ret, histVars>>

\* The store lb->backends[at] = b.
AddStoreSlot(t) ==
  /\ pc[t] \in {"store", "slot"}
  /\ backends' = [backends EXCEPT ![at[t]] = nb[t]]
  /\ pc' = [pc EXCEPT ![t] = IF pc[t] = "store" THEN "count" ELSE "unlock"]
  /\ UNCHANGED <<backend_count, rr_idx, lock, state, conns, allocated, nb, at,
                 tries, cur, li, minc, sel, status, ret, added, upSince,
                 minSince, lastRr, refVars>>
  /\ quiet' = [t2 \in Selectors |-> FALSE]

\* The store lb->backend_count = at + 1.
AddStoreCount(t) ==
  /\ pc[t] \in {"store", "count"}
  /\ backend_count' = at[t] + 1
  /\ pc' = [pc EXCEPT ![t] = IF pc[t] = "store" THEN "slot" ELSE "unlock"]
  /\ UNCHANGED <<backends, rr_idx, lock, state, conns, allocated, nb, at,
                 tries, cur, li, minc, sel, status, ret, added, upSince,
                 minSince, lastRr, refVars>>
  /\ quiet' = [t2 \in Selectors |-> FALSE]

\* Mutation: the unlock is left out.
ReleaseLockMissing == lock' = lock

\* pthread_spin_unlock(&lb->backends_lock).
ReleaseLock == lock' = NULL

\* pthread_spin_unlock, then LB_OK.
AddUnlock(t) ==
  /\ pc[t] = "unlock"
  /\ ReleaseLock
  /\ added' = Append(added, nb[t])
  /\ Return(t, "OK")
  /\ UNCHANGED <<backend_count, backends, rr_idx, state, conns, allocated,
                 selectorLocals, upSince, minSince, quiet, lastRr, refVars>>

-----------------------------------------------------------------------------
(* lb_core_select_backend(lb, client) and the strategy it delegates to.    *)

\* The call returns b; its locals die with its stack frame.
Answer(t, b) ==
  /\ ret' = [ret EXCEPT ![t] = b]
  /\ pc' = [pc EXCEPT ![t] = "idle"]
  /\ tries' = [tries EXCEPT ![t] = 0]
  /\ cur' = [cur EXCEPT ![t] = 0]
  /\ li' = [li EXCEPT ![t] = 0]
  /\ minc' = [minc EXCEPT ![t] = UINT32_MAX]
  /\ sel' = [sel EXCEPT ![t] = NULL]

\* lb->backend_count == 0: NULL without consulting the strategy.
SelectEmpty(t) ==
  /\ pc[t] = "idle"
  /\ backend_count = 0
  /\ Answer(t, NULL)
  /\ UNCHANGED <<coreVars, adderLocals, histVars>>

\* Delegation to strategy.select, which starts its loop.
SelectBegin(t) ==
  /\ pc[t] = "idle"
  /\ backend_count # 0
  /\ pc' = [pc EXCEPT ![t] = IF Strategy = "roundrobin" THEN "rr" ELSE "lc"]
  /\ ret' = [ret EXCEPT ![t] = NONE]
  /\ upSince' = [upSince EXCEPT ![t] = UpSet]
  /\ minSince' = [minSince EXCEPT ![t] = StrictMinUp]
  /\ quiet' = [quiet EXCEPT ![t] = TRUE]
  /\ upEver' = [upEver EXCEPT ![t] = UpSet]
  /\ downEver' = [downEver EXCEPT ![t] = Registered \ UpSet]
  /\ regAtBegin' = [regAtBegin EXCEPT ![t] = Registered]
  /\ UNCHANGED <<coreVars, adderLocals, tries, cur, li, minc, sel, added,
                 lastRr>>

\* strat_rr_select: tries reached backend_count, NULL.
RrExhausted(t) ==
  /\ pc[t] = "rr"
  /\ ~RrTriesLeft(t)
  /\ Answer(t, NULL)
  /\ UNCHANGED <<coreVars, adderLocals, histVars>>

\* strat_rr_select: atomic_fetch_add(&lb->rr_idx, 1).
RrFetch(t) ==
  /\ pc[t] = "rr"
  /\ RrTriesLeft(t)
  /\ cur' = [cur EXCEPT ![t] = rr_idx]
  /\ rr_idx' = RrNextCursor
  /\ pc' = [pc EXCEPT ![t] = "rr_read"]
  /\ UNCHANGED <<backend_count, backends, lock, state, conns, allocated,
                 adderLocals, tries, li, minc, sel, ret, histVars>>

\* strat_rr_select: idx = cursor % backend_count, then the slot and its
\* state; a usable backend is returned, otherwise the loop goes on.
RrRead(t) ==
  LET b == backends[RrIndex(t)] IN
  /\ pc[t] = "rr_read"
  /\ lastRr' = [cursor |-> cur[t], idx |-> RrIndex(t), n |-> backend_count]
  /\ \/ /\ Usable(b)
        /\ Answer(t, b)
     \/ /\ ~Usable(b)
        /\ tries' = [tries EXCEPT ![t] = RrNextTry(t)]
        /\ pc' = [pc EXCEPT ![t] = "rr"]
        /\ UNCHANGED <<cur, li, minc, sel, ret>>
  /\ UNCHANGED <<coreVars, adderLocals, added, upSince, minSince, quiet, refVars>>

\* strat_leastconn_select: one iteration of the scan over slot li.
LcScan(t) ==
  LET b == backends[li[t]] IN
  /\ pc[t] = "lc"
  /\ LcMore(t)
  /\ IF Usable(b) /\ LcBetter(conns[b], t)
       THEN /\ minc' = [minc EXCEPT ![t] = conns[b]]
            /\ sel' = [sel EXCEPT ![t] = b]
       ELSE UNCHANGED <<minc, sel>>
  /\ li' = [li EXCEPT ![t] = LcNextSlot(t)]
  /\ UNCHANGED <<coreVars, pc, adderLocals, tries, cur, ret, histVars>>

\* strat_leastconn_select: the scan is over, sel is returned.
LcReturn(t) ==
  /\ pc[t] = "lc"
  /\ ~LcMore(t)
  /\ Answer(t, sel[t])
  /\ UNCHANGED <<coreVars, adderLocals, histVars>>

-----------------------------------------------------------------------------
(* Collaborators outside the core: the health checker marks backends, the *)
(* data plane opens and closes connections (the decrement saturates at 0). *)

MarkBackend(b, s) ==
  /\ b \in Registered
  /\ state[b] # s
  /\ state' = [state EXCEPT ![b] = s]
  /\ downEver' = [t \in Selectors |->
                    IF s # "UP" THEN downEver[t] \cup {b} ELSE downEver[t]]
  /\ UNCHANGED <<backend_count, backends, rr_idx, lock, conns, allocated,
                 localVars, added, lastRr, regAtBegin>>
  /\ Track

IncConns(b) ==
  /\ b \in Registered
  /\ conns[b] < MaxConns
  /\ conns' = [conns EXCEPT ![b] = @ + 1]
  /\ UNCHANGED <<backend_count, backends, rr_idx, lock, state, allocated,
                 localVars, added, lastRr, downEver, regAtBegin>>
  /\ Track

DecConns(b) ==
  /\ b \in Registered
  /\ conns[b] > 0
  /\ conns' = [conns EXCEPT ![b] = @ - 1]
  /\ UNCHANGED <<backend_count, backends, rr_idx, lock, state, allocated,
                 localVars, added, lastRr, downEver, regAtBegin>>
  /\ Track

-----------------------------------------------------------------------------
AdderStep(t) ==
  \/ AddInvalid(t) \/ AddLimit(t) \/ AddNoMem(t) \/ AddAlloc(t)
  \/ AddLock(t) \/ AddStoreSlot(t) \/ AddStoreCount(t) \/ AddUnlock(t)

SelectorStep(t) ==
  \/ SelectEmpty(t) \/ SelectBegin(t)
  \/ RrExhausted(t) \/ RrFetch(t) \/ RrRead(t)
  \/ LcScan(t) \/ LcReturn(t)

Environment ==
  \/ \E b \in BackendIds, s \in States : MarkBackend(b, s)
  \/ \E b \in BackendIds : IncConns(b) \/ DecConns(b)

Next ==
  \/ \E t \in Adders : AdderStep(t)
  \/ \E t \in Selectors : SelectorStep(t)
  \/ Environment

\* Threads are scheduled by the OS: a runnable selector eventually runs.
\* Collaborators get no fairness: they may stop acting at any time.
\* An adder inside a call, past its allocation, is runnable too; it is
\* owed weak fairness only, as pthread_spin_lock is not fair.  An idle
\* adder owes nothing: callers may stop adding.
AdderInCall(t) ==
  \/ AddLock(t) \/ AddStoreSlot(t) \/ AddStoreCount(t) \/ AddUnlock(t)

Fairness ==
  /\ \A t \in Selectors : WF_vars(SelectorStep(t))
  /\ \A t \in Adders : WF_vars(AdderInCall(t))

Spec == Init /\ [][Next]_vars /\ Fairness

-----------------------------------------------------------------------------
(* Properties.                                                             *)

TypeOK ==
  /\ backend_count \in 0 .. MaxBackends
  /\ backends \in [Slots -> BackendIds \cup {NULL}]
  /\ rr_idx \in 0 .. CursorMod - 1
  /\ lock \in Adders \cup {NULL}
  /\ state \in [BackendIds -> States]
  /\ conns \in [BackendIds -> 0 .. MaxConns]
  /\ allocated \subseteq BackendIds
  /\ pc \in [Adders \cup Selectors ->
               {"idle", "lock", "store", "slot", "count", "unlock",
                "rr", "rr_read", "lc"}]
  /\ status \in [Adders -> {"NONE", "OK", "INVAL", "LIMIT", "NOMEM"}]
  /\ ret \in [Selectors -> BackendIds \cup {NULL, NONE}]

\* The capacity check of lb_core_add_backend keeps backend_count within
\* MAX_BACKENDS, so no add ever writes past the end of lb->backends[],
\* whatever the adders' interleaving.
CountWithinCapacity == backend_count <= MaxBackends

\* Spec 8.1: adds are serialised by backends_lock, so whenever no add holds
\* the lock, backend_count is the number of adds that returned LB_OK and
\* slot i holds the i-th of them; a reader never sees a published slot
\* overwritten.
RegistryMatchesAddHistory ==
  /\ \A i \in 1 .. Len(added) : backends[i - 1] = added[i]
  /\ lock = NULL => backend_count = Len(added)

\* Spec 4.7: select returns no candidate only when no UP backend exists.
\* Weakest form: a call returns NULL only if no backend that was registered
\* when it started stayed UP through every step of the call.
NoCandidateOnlyWhenNoneUp ==
  \A t \in Selectors : ret[t] = NULL => upSince[t] = {}

\* Spec 4.4: round-robin visits indices in strict incrementing order modulo
\* N: two successive index computations of strat_rr_select over the same
\* backend_count are consecutive slots.
RrStrictRotation ==
  [][ /\ lastRr # NONE
      /\ lastRr' # lastRr
      /\ lastRr'.n = lastRr.n
      => lastRr'.idx = (lastRr.idx + 1) % lastRr.n ]_lastRr

\* The reference least-connections choice: the lowest slot among the UP
\* backends with the smallest active_conns.
LeastConnRef ==
  LET up   == {i \in Slots : i < backend_count /\ Usable(backends[i])}
      best == {i \in up : \A j \in up :
                            conns[backends[i]] <= conns[backends[j]]}
  IN  IF up = {} THEN NULL
      ELSE backends[CHOOSE i \in best : \A j \in best : i <= j]

\* Spec 4.4: when no backend changes state or count during the call (other
\* threads selecting concurrently), least-connections returns exactly the
\* reference choice, ties going to the lowest slot.
LcExactWhenQuiescent ==
  \A t \in Selectors :
    (Strategy = "leastconn" /\ ret[t] # NONE /\ quiet[t]) =>
      ret[t] = LeastConnRef

\* Spec 8.5: if one UP backend's active_conns is strictly below every other
\* UP backend's throughout the call, least-connections returns it.
LcStrictMinimumReturned ==
  \A t \in Selectors :
    (ret[t] # NONE /\ minSince[t] # {}) => ret[t] \in minSince[t]

\* Every call of lb_core_select_backend and of lb_core_add_backend returns.
\* Both strategies loop at most backend_count times, which adds may grow
\* under a scan but MAX_BACKENDS bounds.  pthread_spin_lock is unfair and
\* other adders may take backends_lock first, but each holder keeps it for
\* two stores, and only calls that passed the unlocked capacity check and
\* whose calloc succeeded take it, so it is taken finitely often.
CallsReturn ==
  \A t \in Adders \cup Selectors : pc[t] # "idle" ~> pc[t] = "idle"

-----------------------------------------------------------------------------
(* Refinement of LbRegistryAbstract.  The abstract registry is what a      *)
(* lock-free reader sees: the non-null slots below backend_count, in slot  *)
(* order.  An add takes effect at the second of its two stores, whichever  *)
(* it is; a NULL slot under the new count is skipped, as both strategies   *)
(* skip it.  A select takes effect at SelectBegin and at its answer.       *)

Published ==
  LET n == IF backend_count < MaxBackends THEN backend_count ELSE MaxBackends
  IN  SelectSeq([i \in 1..n |-> backends[i - 1]], LAMBDA x : x # NULL)

Abstract == INSTANCE LbRegistryAbstract
              WITH reg <- Published, seen <- upEver, downSeen <- downEver,
                   atBegin <- regAtBegin

\* lb_core_add_backend, lb_core_select_backend with either strategy, and the
\* collaborators' marks implement the atomic registry: published backends
\* never move or vanish, an add publishes one fresh backend while below
\* MAX_BACKENDS, and every answer is a backend that was UP at some moment
\* of the call, or NULL when the registry is empty or each backend present
\* at the start was seen not UP at some moment of the call.
RegistryRefinement == Abstract!Spec

=============================================================================

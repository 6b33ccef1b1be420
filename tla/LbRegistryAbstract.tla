------------------------- MODULE LbRegistryAbstract -------------------------
(***************************************************************************)
(* What the registry and select_backend promise to their callers (spec    *)
(* 4.3, 4.4 and 8), with every operation atomic:                          *)
(*   - an add appends a fresh backend while the registry is not full, and *)
(*     registered backends never move or disappear;                       *)
(*   - the health checker changes the state of registered backends only;  *)
(*   - a select call answers a registered backend that was UP at some     *)
(*     moment of the call, or NULL when the registry is empty or every    *)
(*     backend registered when the call began was not UP at some moment   *)
(*     of the call.                                                       *)
(* seen[t] and downSeen[t] are the backends UP, and not UP, at some moment *)
(* since t's call began; atBegin[t] the backends registered then.          *)
(* LbCore implements this specification under the mapping LbCore defines. *)
(***************************************************************************)
EXTENDS Integers, Sequences, FiniteSets

CONSTANTS Selectors, BackendIds, MaxBackends, NULL, NONE

VARIABLES reg, state, ret, seen, downSeen, atBegin

absVars == <<reg, state, ret, seen, downSeen, atBegin>>

Members == {reg[i] : i \in DOMAIN reg}
UpMembers == {b \in Members : state[b] = "UP"}

Init ==
  /\ reg = <<>>
  /\ state = [b \in BackendIds |-> "DOWN"]
  /\ ret = [t \in Selectors |-> NONE]
  /\ seen = [t \in Selectors |-> {}]
  /\ downSeen = [t \in Selectors |-> {}]
  /\ atBegin = [t \in Selectors |-> {}]

\* An add takes effect: a fresh, DOWN backend is appended.
Add(b) ==
  /\ Len(reg) < MaxBackends
  /\ b \notin Members
  /\ state[b] = "DOWN"
  /\ reg' = Append(reg, b)
  /\ UNCHANGED <<state, ret, seen, downSeen, atBegin>>

\* The health checker marks a registered backend; every call has now seen
\* it UP, or not UP.
Mark(b, s) ==
  /\ b \in Members
  /\ state' = [state EXCEPT ![b] = s]
  /\ seen' = [t \in Selectors |-> IF s = "UP" THEN seen[t] \cup {b} ELSE seen[t]]
  /\ downSeen' = [t \in Selectors |->
                    IF s # "UP" THEN downSeen[t] \cup {b} ELSE downSeen[t]]
  /\ UNCHANGED <<reg, ret, atBegin>>

\* A call begins.
Begin(t) ==
  /\ ret' = [ret EXCEPT ![t] = NONE]
  /\ seen' = [seen EXCEPT ![t] = UpMembers]
  /\ downSeen' = [downSeen EXCEPT ![t] = Members \ UpMembers]
  /\ atBegin' = [atBegin EXCEPT ![t] = Members]
  /\ UNCHANGED <<reg, state>>

\* A call answers.
Answer(t, b) ==
  /\ \/ b \in seen[t]
     \/ b = NULL /\ (Members = {} \/ atBegin[t] \subseteq downSeen[t])
  /\ ret' = [ret EXCEPT ![t] = b]
  /\ UNCHANGED <<reg, state, seen, downSeen, atBegin>>

Next ==
  \/ \E b \in BackendIds : Add(b)
  \/ \E b \in BackendIds, s \in {"DOWN", "UP", "DRAINING"} : Mark(b, s)
  \/ \E t \in Selectors : Begin(t) \/ \E b \in BackendIds \cup {NULL} : Answer(t, b)

Spec == Init /\ [][Next]_absVars

=============================================================================

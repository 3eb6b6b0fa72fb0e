----------------------------- MODULE FencedTask -----------------------------
(***************************************************************************)
(* What the frontier promises its callers, without rows, leases or         *)
(* evidence: a task is offered, granted under a token that only grows,     *)
(* given back or finished by the holder of the current token, and once     *)
(* finished never granted again.                                           *)
(***************************************************************************)
EXTENDS Naturals

CONSTANT Tasks

VARIABLES
  phase,   (* parked (unknown, deferred or failed), waiting, held, done     *)
  token    (* the number of grants so far                                   *)

vars == <<phase, token>>

Phases == {"parked", "waiting", "held", "done"}

Init ==
  /\ phase = [t \in Tasks |-> "parked"]
  /\ token = [t \in Tasks |-> 0]

Become(t, p) == phase' = [phase EXCEPT ![t] = p]

Offer(t) ==
  /\ phase[t] = "parked"
  /\ Become(t, "waiting")
  /\ UNCHANGED token

\* A waiting task, or one whose holder has been silent too long.
Grant(t) ==
  /\ phase[t] \in {"waiting", "held"}
  /\ Become(t, "held")
  /\ token' = [token EXCEPT ![t] = @ + 1]

\* The holder of the current token finishes the task or gives it up.
Return(t) ==
  /\ phase[t] = "held"
  /\ \/ Become(t, "done")
     \/ Become(t, "parked")
  /\ UNCHANGED token

\* Work done outside any grant finishes a task nobody holds.
FinishUngranted(t) ==
  /\ phase[t] \in {"parked", "waiting"}
  /\ Become(t, "done")
  /\ UNCHANGED token

Next ==
  \E t \in Tasks :
    Offer(t) \/ Grant(t) \/ Return(t) \/ FinishUngranted(t)

Spec == Init /\ [][Next]_vars
=============================================================================

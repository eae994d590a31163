----------------------------- MODULE TaskLedger -----------------------------
(***************************************************************************)
(* What the Task Manager promises about a Task, whoever asks: the Task is  *)
(* created once at revision 1, and from then on its state changes only     *)
(* along an edge of the lifecycle graph, one revision per change, never    *)
(* out of a terminal state.  Requests, receipts, crashes and recovery do   *)
(* not appear here; TransitionProtocol and TaskManager implement this.     *)
(***************************************************************************)
EXTENDS Naturals, TaskStates

CONSTANT Tasks

VARIABLES state, revision

ledgerVars == <<state, revision>>

Init ==
  /\ state = [t \in Tasks |-> Absent]
  /\ revision = [t \in Tasks |-> 0]

Create(t) ==
  /\ state[t] = Absent
  /\ state' = [state EXCEPT ![t] = "CREATED"]
  /\ revision' = [revision EXCEPT ![t] = 1]

Advance(t, to) ==
  /\ state[t] # Absent
  /\ ~TerminalRefuses(state[t], to)
  /\ AllowedTransition(state[t], to)
  /\ state' = [state EXCEPT ![t] = to]
  /\ revision' = [revision EXCEPT ![t] = @ + 1]

Next == \E t \in Tasks : Create(t) \/ \E to \in TaskState : Advance(t, to)

Spec == Init /\ [][Next]_ledgerVars

=============================================================================

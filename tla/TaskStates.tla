----------------------------- MODULE TaskStates -----------------------------
(***************************************************************************)
(* The Task lifecycle graph of the Task Manager: the states, which of them *)
(* are terminal, and the edges `allowed_transition` admits.  Pure data:    *)
(* both state machines of the project, the abstract ledger and the        *)
(* manager, take their edges from here.                                    *)
(***************************************************************************)

TaskState ==
  {"CREATED", "PLANNING", "WAITING_FOR_INPUT", "WAITING_FOR_AUTH", "RUNNABLE",
   "RUNNING", "VERIFYING", "PAUSED", "RECOVERING", "ROLLING_BACK",
   "ROLLED_BACK", "COMPLETED", "FAILED", "CANCELLED"}

\* A Task row that has not been inserted yet.
Absent == "ABSENT"

Terminal == {"COMPLETED", "FAILED", "CANCELLED", "ROLLED_BACK"}

\* States in which a restart or a live handoff may find uncertain execution.
Executing == {"RUNNING", "VERIFYING", "PAUSED"}

\* Targets that admit or account for execution.
ExecutionTarget == {"RUNNABLE", "RUNNING", "VERIFYING", "COMPLETED"}

Successors ==
  [CREATED           |-> {"PLANNING", "CANCELLED", "FAILED"},
   PLANNING          |-> {"WAITING_FOR_INPUT", "WAITING_FOR_AUTH", "RUNNABLE",
                          "FAILED", "CANCELLED", "PAUSED"},
   WAITING_FOR_INPUT |-> {"PLANNING", "CANCELLED", "PAUSED", "FAILED"},
   WAITING_FOR_AUTH  |-> {"PLANNING", "RUNNABLE", "CANCELLED", "PAUSED",
                          "FAILED"},
   RUNNABLE          |-> {"RUNNING", "PLANNING", "PAUSED", "CANCELLED",
                          "FAILED"},
   RUNNING           |-> {"RUNNABLE", "PLANNING", "WAITING_FOR_INPUT",
                          "WAITING_FOR_AUTH", "VERIFYING", "PAUSED",
                          "RECOVERING", "FAILED", "CANCELLED", "ROLLING_BACK"},
   VERIFYING         |-> {"COMPLETED", "RUNNING", "PLANNING", "PAUSED",
                          "RECOVERING", "FAILED", "CANCELLED", "ROLLING_BACK"},
   PAUSED            |-> {"PLANNING", "RUNNABLE", "RECOVERING", "CANCELLED",
                          "FAILED"},
   RECOVERING        |-> {"PLANNING", "RUNNABLE", "RUNNING",
                          "WAITING_FOR_INPUT", "WAITING_FOR_AUTH", "PAUSED",
                          "FAILED", "ROLLING_BACK"},
   ROLLING_BACK      |-> {"ROLLED_BACK", "FAILED"},
   FAILED            |-> {"ROLLING_BACK"},
   COMPLETED         |-> {},
   CANCELLED         |-> {},
   ROLLED_BACK       |-> {}]

AllowedTransition(from, to) == to \in Successors[from]

(***************************************************************************)
(* A terminal Task accepts one edge only, FAILED to ROLLING_BACK, and the  *)
(* handler tests this before it looks at the graph.                        *)
(***************************************************************************)
TerminalRefuses(from, to) ==
  from \in Terminal /\ ~(from = "FAILED" /\ to = "ROLLING_BACK")

=============================================================================

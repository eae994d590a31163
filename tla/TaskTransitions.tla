--------------------------- MODULE TaskTransitions ---------------------------
(***************************************************************************)
(* Creating Tasks, preparing authority for an attempt, and the transition  *)
(* handler with its guards over the store's facts.  A request that a check *)
(* refuses changes nothing here (its stored receipt is TransitionProtocol's *)
(* subject), so an action stands for the request that is applied.          *)
(***************************************************************************)
EXTENDS TaskStore

Serving == mgr = "READY" /\ call.kind = "IDLE"

\* create_task_with_constraints.
CreateTask(t) ==
  /\ Serving
  /\ task[t].state = Absent
  /\ task' = [task EXCEPT ![t] = [NoTask EXCEPT !.state = "CREATED", !.revision = 1]]
  /\ UNCHANGED <<attempt, assessed, process>>

-----------------------------------------------------------------------------
(* Authority for an attempt. *)

\* Policy evaluation that asks for approval stores a PENDING request.
RequestApproval(t) ==
  /\ Serving
  /\ task[t].state \in {"PLANNING", "WAITING_FOR_AUTH"}
  /\ task[t].planned
  /\ task[t].approval \in {"NONE", "DENIED"}
  /\ task' = [task EXCEPT ![t].approval = "PENDING"]
  /\ UNCHANGED <<attempt, assessed, process>>

\* decide_candidate_approval, or the request's expiry, which its readers
\* treat as a denial.
DecideApproval(t, decision) ==
  /\ Serving
  /\ task[t].state = "WAITING_FOR_AUTH"
  /\ task[t].approval = "PENDING"
  /\ task' = [task EXCEPT ![t].approval = decision]
  /\ UNCHANGED <<attempt, assessed, process>>

\* finalize_pending_authority_candidate: grants, binding, READY step and
\* output allocation in one transaction.  PLANNING allows it only when the
\* policy asked for no approval.
FinalizeCandidate(t, n) ==
  LET k == Latest(t, n) + 1 IN
  /\ Serving
  /\ task[t].planned
  /\ \/ task[t].state = "PLANNING" /\ task[t].approval = "NONE"
     \/ task[t].state = "WAITING_FOR_AUTH" /\ task[t].approval = "APPROVED"
  /\ k <= MaxAttempts
  /\ attempt' = [attempt EXCEPT ![<<t, n, k>>] =
       [NoAttempt EXCEPT !.step = "READY", !.egress = "ACTIVE",
                         !.write = "ACTIVE", !.session = session]]
  /\ task' = [task EXCEPT ![t].approval = "NONE"]
  /\ UNCHANGED <<assessed, process>>

-----------------------------------------------------------------------------
(* guard_failure, target by target.  `waiting` is the list the guard reads: *)
(* the proposed one, or the stored one when the request proposes none.      *)

RecoveryGuard(t, to) ==
  task[t].state = "RECOVERING" /\ to # "FAILED" => RecoveryAllowsExit(t)

PlanGuard(t, to) ==
  to \in ExecutionTarget => task[t].planned /\ UnresolvedExecution(t) = {}

NotBlocked(t, waiting) ==
  /\ ~EffectiveWaiting(t, waiting)
  /\ task[t].approval # "PENDING"
  /\ task[t].waiting # "INPUT"

\* With a finalized candidate a READY step counts only while its grants do.
RunnableGuard(t, waiting) ==
  /\ task[t].state = "RUNNING" => Contained(t)
  /\ BoundReady(t) # {}
  /\ NotBlocked(t, waiting)

\* Every READY node is admitted, so every one must hold valid grants whose
\* deadline has not passed.
RunningGuard(t, waiting) ==
  /\ BoundReady(t) # {}
  /\ BoundReady(t) = ReadySlots(t)
  /\ \A x \in ReadySlots(t) : DeadlineHolds(x)
  /\ NotBlocked(t, waiting)

CompletedGuard(t, waiting) ==
  /\ OutputsPublished(t)
  /\ Verified(t)
  /\ task[t].approval # "PENDING"
  /\ ~EffectiveWaiting(t, waiting)
  /\ ~EffectiveWaiting(t, task[t].waiting)

FailedGuard(t, failure) ==
  /\ failure # "NONE"
  /\ UnresolvedExecution(t) # {} => failure = "UNKNOWN_EFFECTS"
  /\ Contained(t)

TargetGuard(t, to, waiting, failure) ==
  CASE to = "RUNNABLE" -> RunnableGuard(t, waiting)
    [] to = "RUNNING" -> RunningGuard(t, waiting)
    [] to = "VERIFYING" -> OutputsPublished(t)
    [] to = "COMPLETED" -> CompletedGuard(t, waiting)
    [] to = "FAILED" -> FailedGuard(t, failure)
    [] to = "CANCELLED" -> CancellationContained(t)
    [] to = "WAITING_FOR_INPUT" -> waiting = "INPUT" /\ Contained(t)
    [] to = "WAITING_FOR_AUTH" ->
         waiting = "APPROVAL" /\ task[t].approval = "PENDING" /\ Contained(t)
    [] to \in {"PLANNING", "PAUSED"} -> Contained(t)
    [] to \in {"ROLLING_BACK", "ROLLED_BACK", "RECOVERING", "CREATED"} -> FALSE

\* Mutant: a cancellation leaves the grants alone.
StepsAfterKeeping(t, to) ==
  [x \in Slots |->
    IF to = "RUNNING" /\ x \in ReadySlots(t)
    THEN [attempt[x] EXCEPT !.step = "RUNNING"]
    ELSE attempt[x]]

\* What the transition writes outside the Task row: admitted steps start,
\* and a cancellation retires the grants that are still ACTIVE.
StepsAfter(t, to) ==
  [x \in Slots |->
    IF to = "RUNNING" /\ x \in ReadySlots(t)
    THEN [attempt[x] EXCEPT !.step = "RUNNING"]
    ELSE IF to = "CANCELLED" /\ x[1] = t
    THEN Revoked(attempt[x])
    ELSE attempt[x]]

Move(t, to, waiting, failure, planned) ==
  task' = [task EXCEPT ![t] =
    [task[t] EXCEPT !.state = to, !.revision = task[t].revision + 1,
                    !.waiting = waiting, !.failure = failure, !.planned = planned]]

\* A caller's request.  `keep` leaves the stored waiting list in force; the
\* initial program is admitted with the transition to PLANNING.
Transition(t, to) ==
  /\ Serving
  /\ task[t].state # Absent
  /\ task[t].revision < MaxRevision
  /\ ~TerminalRefuses(task[t].state, to)
  /\ AllowedTransition(task[t].state, to)
  /\ RecoveryGuard(t, to)
  /\ PlanGuard(t, to)
  /\ \E waiting \in Waiting, failure \in Failure :
       /\ waiting \in {"CLEAR", task[t].waiting}
            \cup (IF to = "WAITING_FOR_INPUT" THEN {"INPUT"} ELSE {})
            \cup (IF to = "WAITING_FOR_AUTH" THEN {"APPROVAL"} ELSE {})
       /\ to # "FAILED" => failure = task[t].failure
       /\ TargetGuard(t, to, waiting, failure)
       /\ Move(t, to, waiting, failure,
               task[t].planned \/ (task[t].state = "CREATED" /\ to = "PLANNING"))
  /\ attempt' = StepsAfter(t, to)
  /\ UNCHANGED <<assessed, process>>

-----------------------------------------------------------------------------
(* External to this code: the provider runtime, the verifier, the clock and *)
(* the authority service that retires grants.                               *)

\* An authenticated invocation result arrives for a running attempt.
ProviderResult(x, result) ==
  /\ Serving
  /\ attempt[x].step = "RUNNING"
  /\ attempt[x].result = "NONE"
  /\ attempt' = [attempt EXCEPT ![x].result = result]
  /\ UNCHANGED <<task, assessed, process>>

\* Success publishes the output under the write grant.
Closed(a) ==
  IF a.result = "COMPLETED"
  THEN [a EXCEPT !.step = "SUCCEEDED",
                 !.write = IF a.write = "ACTIVE" THEN "CONSUMED" ELSE a.write]
  ELSE [a EXCEPT !.step = "FAILED"]

\* The runtime closes the step from that result.
CloseStep(x) ==
  /\ Serving
  /\ task[x[1]].state \in {"RUNNING", "VERIFYING"}
  /\ attempt[x].step = "RUNNING"
  /\ attempt[x].result # "NONE"
  /\ attempt' = [attempt EXCEPT ![x] = Closed(@)]
  /\ UNCHANGED <<task, assessed, process>>

RecordVerification(t) ==
  /\ Serving
  /\ task[t].state = "VERIFYING"
  /\ task' = [task EXCEPT ![t].verified = {<<n, Latest(t, n)>> : n \in Nodes}]
  /\ UNCHANGED <<attempt, assessed, process>>

\* Time passes the deadline of the attempt's grants, at any moment.
Lapse(x) ==
  /\ attempt[x].step \in {"READY", "RUNNING"}
  /\ ~attempt[x].lapsed
  /\ attempt' = [attempt EXCEPT ![x].lapsed = TRUE]
  /\ UNCHANGED <<task, assessed, process>>

RetireGrants(x) ==
  /\ Serving
  /\ "ACTIVE" \in {attempt[x].egress, attempt[x].write}
  /\ attempt' = [attempt EXCEPT ![x] = Revoked(@)]
  /\ UNCHANGED <<task, assessed, process>>

=============================================================================

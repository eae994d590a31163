------------------------------ MODULE TaskStore ------------------------------
(***************************************************************************)
(* The durable store of the Task Manager and the facts its guards and its  *)
(* recovery read from it.  A Task's plan has a set of nodes; each node is   *)
(* executed by numbered attempts.  An attempt carries, in one record, the   *)
(* rows that belong to it: step_executions, the grants of its binding, the  *)
(* data-egress operation of its export, and the external destination that   *)
(* operation writes to.  An export the Task's owner asks for has no attempt *)
(* and no grants, only an operation; the owner's exports have slots of      *)
(* their own, numbered like attempts.                                       *)
(***************************************************************************)
EXTENDS Naturals, FiniteSets, TaskStates

CONSTANTS
  Tasks,        \* Task ids
  Nodes,        \* nodes of the active plan
  MaxAttempts,  \* attempts per node, and exports the owner of a Task asks for
  MaxRevision,  \* a caller's transition starts below this revision
  MaxSessions   \* how often the manager process may start

\* Who an operation acts for: a node of the plan, or the owner of the Task.
Owner == "owner"
Source == Nodes \cup {Owner}

ASSUME StoreAssumption ==
  /\ Owner \notin Nodes
  /\ MaxAttempts \in Nat \ {0}
  /\ MaxRevision \in Nat
  /\ MaxSessions \in Nat

Slots == Tasks \X Source \X (1..MaxAttempts)

VARIABLES
  task,      \* tasks rows
  attempt,   \* per slot: step, grants, export operation, destination
  assessed,  \* recovery_assessments rows of subjects
  mgr,       \* manager process: phase of startup, or serving
  todo,      \* Tasks the current startup phase has still to visit
  call,      \* the multi-transaction operation in progress
  session,   \* the lease owner that is also the clock session
  refusal    \* why the last startup was refused

durable == <<task, attempt, assessed>>
process == <<mgr, todo, call, session, refusal>>
vars == <<task, attempt, assessed, mgr, todo, call, session, refusal>>

-----------------------------------------------------------------------------
(* Rows. *)

\* Recovery subjects: the inventory ids `operation:`, `attempt:` and `grant:`
\* of one attempt.  Its grants are the read and egress pair, consumed
\* together by an export, and the write grant of its output allocation.
Subject == {"operation", "attempt", "egress", "write"} \X Source \X (1..MaxAttempts)

\* A recovery reference is the digest of Task, revision and inventory.
RecoveryRef == [task : Tasks, basis : Nat, ids : SUBSET Subject]
NoRef == [task |-> "none", basis |-> 0, ids |-> {}]

Waiting == {"CLEAR", "INPUT", "APPROVAL"}
Approval == {"NONE", "PENDING", "APPROVED", "DENIED"}
Failure == {"NONE", "CLEAN", "UNKNOWN_EFFECTS"}

TaskRow ==
  [state : TaskState \cup {Absent}, revision : Nat, waiting : Waiting,
   planned : BOOLEAN, approval : Approval, failure : Failure,
   recovery : RecoveryRef \cup {NoRef}, verified : SUBSET (Nodes \X (0..MaxAttempts))]

NoTask ==
  [state |-> Absent, revision |-> 0, waiting |-> "CLEAR", planned |-> FALSE,
   approval |-> "NONE", failure |-> "NONE", recovery |-> NoRef, verified |-> {}]

\* step: SUCCEEDED carries COMPLETED and FAILED carries FAILED_NO_EFFECT; no
\*   code writes STARTING, UNKNOWN or a partial effect into a step.  OWNED is
\*   no step: the slot holds an export of the owner.
\* op: FAILED carries FAILED_NO_EFFECT, UNKNOWN carries OUTCOME_UNKNOWN.
\* phase: the external receipt of the operation, PRE (pre-destination
\*   admission), ARMED (effect boundary), UNOPENED (denied before the
\*   destination callback) or ATTESTED (a verifier attested no effect).
\* lapsed: the grants' monotonic deadline has passed.
\* result: an authenticated provider invocation result for the attempt.
\* sink: what the destination has really seen; no code can read it.
StepState == {"ABSENT", "READY", "RUNNING", "SUCCEEDED", "FAILED", "OWNED"}
OpState == {"NONE", "STARTED", "SUCCEEDED", "FAILED", "UNKNOWN"}
Phase == {"NONE", "PRE", "ARMED", "UNOPENED", "ATTESTED"}
GrantState == {"NONE", "ACTIVE", "CONSUMED", "RETIRED"}
Result == {"NONE", "COMPLETED", "FAILED_NO_EFFECT"}
Sink == {"UNTOUCHED", "PARTIAL", "COMPLETE"}

AttemptRow ==
  [step : StepState, op : OpState, phase : Phase, egress : GrantState,
   write : GrantState, lapsed : BOOLEAN, session : Nat, result : Result,
   sink : Sink]

NoAttempt ==
  [step |-> "ABSENT", op |-> "NONE", phase |-> "NONE", egress |-> "NONE",
   write |-> "NONE", lapsed |-> FALSE, session |-> 0, result |-> "NONE",
   sink |-> "UNTOUCHED"]

\* What an assessment row observed of its subject, or that it is resolved.
Evidence == {"STARTED", "UNKNOWN", "RUNNING", "ACTIVE", "RESOLVED"}

AssessmentRow == [ref : RecoveryRef, subject : Subject, evidence : Evidence]

-----------------------------------------------------------------------------
(* Facts. *)

AttemptsOf(t) == {x \in Slots : x[1] = t /\ attempt[x].step # "ABSENT"}

\* The number of the node's newest attempt, 0 when it has none.
Latest(t, n) ==
  CHOOSE k \in 0..MaxAttempts :
    /\ k # 0 => attempt[<<t, n, k>>].step # "ABSENT"
    /\ \A j \in (k + 1)..MaxAttempts : attempt[<<t, n, j>>].step = "ABSENT"

LatestSlots(t) == {x \in AttemptsOf(t) : x[3] = Latest(t, x[2])}

\* Mutant: an operation that has only started is taken as settled.
OpUnresolvedUnknown(a) == a.op = "UNKNOWN"

OpUnresolved(a) == a.op \in {"STARTED", "UNKNOWN"}

\* unresolved_execution_ids: everything recovery has to account for.
Unresolved(t) ==
  UNION {
    LET a == attempt[x] IN
      (IF OpUnresolved(a) THEN {<<"operation", x[2], x[3]>>} ELSE {})
        \cup (IF a.step = "RUNNING" THEN {<<"attempt", x[2], x[3]>>} ELSE {})
        \cup (IF a.egress = "ACTIVE" THEN {<<"egress", x[2], x[3]>>} ELSE {})
        \cup (IF a.write = "ACTIVE" THEN {<<"write", x[2], x[3]>>} ELSE {})
    : x \in AttemptsOf(t)}

\* unresolved_execution_count leaves live grants out.
UnresolvedExecution(t) ==
  {s \in Unresolved(t) : s[1] \in {"operation", "attempt"}}

\* execution_is_contained, and active_execution_is_contained: with the
\* certainties the code writes they read the same facts.
Contained(t) == Unresolved(t) = {}

\* cancellation_execution_is_contained: grants are retired by the
\* cancellation itself.
CancellationContained(t) == UnresolvedExecution(t) = {}

\* binding_grants_valid: the grants of the binding are ACTIVE.
GrantsActive(x) == attempt[x].egress = "ACTIVE" /\ attempt[x].write = "ACTIVE"

\* check_grant_deadline: issued in this clock session and not past the
\* deadline.
DeadlineHolds(x) == ~attempt[x].lapsed /\ attempt[x].session = session

\* The grants that are still ACTIVE are revoked or expire.
Revoked(a) ==
  [a EXCEPT !.egress = IF @ = "ACTIVE" THEN "RETIRED" ELSE @,
            !.write = IF @ = "ACTIVE" THEN "RETIRED" ELSE @]

ReadySlots(t) == {x \in LatestSlots(t) : attempt[x].step = "READY"}

BoundReady(t) == {x \in ReadySlots(t) : GrantsActive(x)}

\* active_step_completion_facts: each node's newest attempt succeeded.
OutputsPublished(t) ==
  \A n \in Nodes : Latest(t, n) # 0 /\ attempt[<<t, n, Latest(t, n)>>].step = "SUCCEEDED"

\* has_current_verification: of exactly those outputs.
Verified(t) == \A n \in Nodes : <<n, Latest(t, n)>> \in task[t].verified

\* A durable blocker that is not an approval, and one that is in effect.
EffectiveWaiting(t, waiting) ==
  waiting = "INPUT" \/ (waiting = "APPROVAL" /\ task[t].approval = "PENDING")

-----------------------------------------------------------------------------
(* Recovery inventories. *)

Rows(ref) == {r \in assessed : r.ref = ref}

EvidenceOf(t, s) ==
  LET a == attempt[<<t, s[2], s[3]>>] IN
  CASE s[1] = "operation" -> a.op
    [] s[1] = "attempt" -> a.step
    [] s[1] = "egress" -> a.egress
    [] s[1] = "write" -> a.write

\* Mutant: live grants are left out of the inventory.
CurrentRefUngranted(t) ==
  [task |-> t, basis |-> task[t].revision, ids |-> UnresolvedExecution(t)]

CurrentRef(t) ==
  [task |-> t, basis |-> task[t].revision, ids |-> Unresolved(t)]

\* load_recovery_subjects under a reference.
SubjectRows(t, ref) ==
  {[ref |-> ref, subject |-> s, evidence |-> EvidenceOf(t, s)] : s \in Unresolved(t)}

\* persist_recovery_subject_assessment: a row that exists under the same
\* identity must carry the same evidence.
EvidenceConflict(t, ref) ==
  \E r \in Rows(ref), new \in SubjectRows(t, ref) :
    r.subject = new.subject /\ r.evidence # new.evidence

PersistInventory(t, ref) == assessed' = assessed \cup SubjectRows(t, ref)

\* recovery_allows_exit: the recorded inventory covers everything still
\* unresolved and each of its subjects has an authenticated resolution.
RecoveryAllowsExit(t) ==
  LET ref == task[t].recovery IN
  /\ ref.ids # {}
  /\ Unresolved(t) \subseteq ref.ids
  /\ ref.ids = {r.subject : r \in {w \in Rows(ref) : w.evidence = "RESOLVED"}}

=============================================================================

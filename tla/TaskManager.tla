----------------------------- MODULE TaskManager -----------------------------
(***************************************************************************)
(* The Task Manager: transitions, authority preparation, export, crash,    *)
(* startup and recovery over one store.                                    *)
(***************************************************************************)
EXTENDS ArtifactExport

Init ==
  /\ task = [t \in Tasks |-> NoTask]
  /\ attempt = [x \in Slots |-> NoAttempt]
  /\ assessed = {}
  /\ mgr = "DOWN"
  /\ todo = {}
  /\ call = Idle
  /\ session = 0
  /\ refusal = "NONE"

Lifecycle ==
  \/ \E t \in Tasks :
       \/ CreateTask(t)
       \/ \E to \in TaskState : Transition(t, to)
       \/ RequestApproval(t)
       \/ \E d \in {"APPROVED", "DENIED"} : DecideApproval(t, d)
       \/ \E n \in Nodes : FinalizeCandidate(t, n)
       \/ RecordVerification(t)
  \/ \E x \in Slots :
       \/ \E r \in Result \ {"NONE"} : ProviderResult(x, r)
       \/ CloseStep(x)
       \/ Lapse(x)
       \/ RetireGrants(x)

Export ==
  \/ \E x \in Slots :
       AdmitExport(x) \/ RetryExport(x) \/ AttestNoEffect(x) \/ RetireNoEffect(x)
  \/ \E t \in Tasks : AdmitOwned(t)
  \/ ArmExport \/ AbortExport \/ DenyConstruction \/ OpenDestination
  \/ CopyChunk \/ FinalizeDestination \/ DisposeDestination
  \/ CompleteExport \/ FailUncertain \/ FailUnrecorded
  \/ HandoffLive \/ HandoffFails

\* The steps of initialize(), in the order the phases allow.
Startup ==
  \/ SettleExports
  \/ \E t \in Tasks : HandoffTask(t) \/ RetireTask(t) \/ RecoverTask(t) \/ ReportTask(t)
  \/ ReplanTask
  \/ HandoffDone \/ RetireDone \/ RecoverDone \/ ReportDone

Next ==
  \/ Lifecycle
  \/ Export
  \/ Startup
  \/ EnterRecovering
  \/ \E r \in assessed : ReconcileSubject(r)
  \/ Crash
  \/ Start

Spec == Init /\ [][Next]_vars

-----------------------------------------------------------------------------
(* Properties *)

CallType ==
  [kind : {"IDLE", "ENTER", "REPLAN"} \cup ExportKinds,
   slot : Slots \cup {<<>>}, ref : RecoveryRef \cup {NoRef}]

\* The value space of the rows and of the process.
TypeOK ==
  /\ task \in [Tasks -> TaskRow]
  /\ attempt \in [Slots -> AttemptRow]
  /\ assessed \subseteq AssessmentRow
  /\ mgr \in {"DOWN", "REFUSED", "READY"} \cup Starting
  /\ todo \subseteq Tasks
  /\ call \in CallType
  /\ session \in 0..MaxSessions
  /\ refusal \in {"NONE", "EVIDENCE_REUSED", "OBSOLETE_AUTHORITY_USED",
                  "UNRESOLVED_NOT_EXECUTING"}

\* What the store says of an export is what the destination saw, whatever
\* crashed in between: "no effect" is recorded only for an untouched
\* destination, "succeeded" only for a complete one, and a destination that
\* was touched is never behind an operation that admits no effect.
ExportOutcomeTruthful ==
  \A x \in Slots :
    LET a == attempt[x] IN
    /\ a.op = "FAILED" => a.sink = "UNTOUCHED"
    /\ a.op = "SUCCEEDED" => a.sink = "COMPLETE"
    /\ a.sink # "UNTOUCHED" =>
         a.op \in {"SUCCEEDED", "UNKNOWN"} \/ (a.op = "STARTED" /\ a.phase = "ARMED")

\* An export that may have had an effect nobody has settled.
AtRisk(x) == attempt[x].op = "UNKNOWN" \/ (attempt[x].op = "STARTED" /\ attempt[x].phase = "ARMED")

\* No blind retry: a newer attempt of a node never has an operation while an
\* older one's outcome is open, and whoever asks, the node or the owner, a
\* Task never has two exports whose effect is unsettled.
NoBlindRetry ==
  \A x, y \in Slots : x[1] = y[1] =>
    /\ /\ x[2] = y[2] /\ x[2] # Owner /\ x[3] < y[3]
       /\ attempt[y].op # "NONE"
       => attempt[x].op \notin {"STARTED", "UNKNOWN"}
    /\ AtRisk(x) /\ AtRisk(y) => x = y

\* The operation is in the inventory its Task recovers under, with a row.
Quarantined(x) ==
  LET t == x[1]
      s == <<"operation", x[2], x[3]>> IN
  /\ task[t].state = "RECOVERING"
  /\ s \in task[t].recovery.ids
  /\ \E r \in Rows(task[t].recovery) : r.subject = s

\* A stored inventory names the operation, so that it can be settled.
Reported(x) ==
  \E r \in assessed : r.ref.task = x[1] /\ r.subject = <<"operation", x[2], x[3]>>

\* An export of unknown outcome does not get lost.  In a serving manager it is
\* in quarantine; or its handoff failed in this very session, and its Task
\* still stands where it was (a node's is executing), waiting for a retry or
\* the next start; or the owner asked for it on a Task that does not execute,
\* where recovery only reports it.
UncertainEffectQuarantined ==
  Serving =>
    \A x \in Slots : attempt[x].op = "UNKNOWN" =>
      \/ Quarantined(x)
      \/ /\ attempt[x].session = session
         /\ x[2] = Owner \/ task[x[1]].state \in Executing
      \/ x[2] = Owner /\ task[x[1]].state \notin Executing /\ Reported(x)

\* The inventory a Task entered recovery with stays complete: everything
\* unresolved is in it, and each entry has an assessment row to resolve.
RecoveringCovered ==
  \A t \in Tasks : task[t].state = "RECOVERING" =>
    /\ Unresolved(t) \subseteq task[t].recovery.ids
    /\ task[t].recovery.ids = {r.subject : r \in Rows(task[t].recovery)}

\* Authority does not survive its session: when the manager serves, a grant
\* that is ACTIVE from an older session belongs to a Task in recovery or to
\* one that has ended.
NoStaleAuthority ==
  mgr = "READY" =>
    \A x \in Slots :
      "ACTIVE" \in {attempt[x].egress, attempt[x].write} /\ attempt[x].session # session
        => task[x[1]].state \in {"RECOVERING"} \cup Terminal

\* What is unresolved and is not an export of the owner.
UnresolvedOfPlan(t) == {s \in Unresolved(t) : s[2] # Owner}

\* A cancelled or failed Task has no running step, no open operation of its
\* plan and no live grant, now or later; a completed one has no open execution.
TerminalContained ==
  \A t \in Tasks :
    /\ task[t].state \in {"CANCELLED", "FAILED"} => UnresolvedOfPlan(t) = {}
    /\ task[t].state = "COMPLETED" =>
         UnresolvedOfPlan(t) \cap UnresolvedExecution(t) = {}

\* recover_startup refuses the whole store when something is unresolved on a
\* Task that does not execute.  Only an export the owner asked for, of unknown
\* outcome, brings that about; the plan's own execution never does.
NeverStranded ==
  refusal = "UNRESOLVED_NOT_EXECUTING" =>
    \E x \in Slots :
      /\ x[2] = Owner /\ attempt[x].op = "UNKNOWN"
      /\ task[x[1]].state \in {"RUNNABLE", "WAITING_FOR_INPUT", "WAITING_FOR_AUTH"}

\* The plan's execution is unresolved only where recovery looks for it:
\* neither on a Task that has ended nor on one that startup cannot take over.
NothingLeftBehind == TerminalContained /\ NeverStranded

Ledger == INSTANCE TaskLedger WITH
  state <- [t \in Tasks |-> task[t].state],
  revision <- [t \in Tasks |-> task[t].revision]

\* Callers, recovery and startup together move a Task only as the abstract
\* ledger allows.
ImplementsLedger == Ledger!Spec

\* An export of unknown outcome is settled or reaches quarantine, however often
\* the handoff fails or the manager dies on the way, unless it cannot be
\* started any more.
UnknownOutcome(x) == attempt[x].op = "UNKNOWN"
InQuarantine(x) ==
  \/ ~UnknownOutcome(x)
  \/ Quarantined(x)
  \/ task[x[1]].state \notin Executing /\ Reported(x)
  \/ mgr = "REFUSED"
  \/ mgr = "DOWN" /\ session = MaxSessions

\* Startup can always assess again what an earlier, interrupted assessment
\* recorded.
StartupReassesses == refusal # "EVIDENCE_REUSED"

\* Startup refuses to retire older authority only while its use may still be
\* open: when every attempt is closed with a known outcome, no operation is
\* open and no grant is live, the store can be opened again.
PreparedAuthorityRetirable ==
  refusal = "OBSOLETE_AUTHORITY_USED" => \E t \in Tasks : Unresolved(t) # {}

=============================================================================

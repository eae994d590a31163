--------------------------- MODULE ArtifactExport ---------------------------
(***************************************************************************)
(* export_artifact: the pipeline that lets bytes out of the store.  The    *)
(* manager is busy with it from admission to the end (`call`), but each    *)
(* transaction and each callback into the destination is a step of its own *)
(* because the process may die, or the grants' deadline pass, between any  *)
(* two of them.  What the destination really saw is `sink`.                *)
(***************************************************************************)
EXTENDS TaskRecovery

\* The pipeline's position: "ADMITTED", "ARMED", "OPEN", "FINALIZED",
\* "DISPOSED"; "HANDOFF" once the outcome is recorded as unknown.
At(kind, x) == [kind |-> kind, slot |-> x, ref |-> NoRef]

ExportKinds == {"ADMITTED", "ARMED", "OPEN", "FINALIZED", "DISPOSED", "HANDOFF"}

OnlyCall(next) == call' = next /\ UNCHANGED <<mgr, todo, session, refusal>>

\* unresolved_export_effect_exists and ensure_no_unknown_artifact_export: an
\* export of this Task that may have had an effect is not settled.
UnsettledEffect(t) ==
  \E x \in AttemptsOf(t) :
    attempt[x].op = "UNKNOWN" \/ (attempt[x].op = "STARTED" /\ attempt[x].phase = "ARMED")

\* The admission transaction: operation row, and the read and egress grants
\* consumed.  The coordinator has moved the Task to RUNNING before.
AdmitExport(x) ==
  LET t == x[1] IN
  /\ Serving
  /\ task[t].state = "RUNNING"
  /\ x \in LatestSlots(t)
  /\ attempt[x].step = "RUNNING"
  /\ attempt[x].op = "NONE"
  /\ attempt[x].egress = "ACTIVE"
  /\ DeadlineHolds(x)
  /\ ~UnsettledEffect(t)
  /\ attempt' = [attempt EXCEPT ![x] =
       [@ EXCEPT !.op = "STARTED", !.phase = "PRE", !.egress = "CONSUMED"]]
  /\ OnlyCall(At("ADMITTED", x))
  /\ UNCHANGED <<task, assessed>>

\* The admission transaction of an export the owner asks for: no grant and no
\* step, and the Task may be in any state but RECOVERING.  What it relies on
\* is bound to this session.
AdmitOwned(t) ==
  LET x == <<t, Owner, Latest(t, Owner) + 1>> IN
  /\ Serving
  /\ x[3] <= MaxAttempts
  /\ task[t].state \notin {Absent, "RECOVERING"}
  /\ ~UnsettledEffect(t)
  /\ attempt' = [attempt EXCEPT ![x] =
       [NoAttempt EXCEPT !.step = "OWNED", !.op = "STARTED", !.phase = "PRE", !.session = session]]
  /\ OnlyCall(At("ADMITTED", x))
  /\ UNCHANGED <<task, assessed>>

\* arm_export_effect_boundary: from here on an effect is possible.
ArmExport ==
  /\ call.kind = "ADMITTED"
  /\ DeadlineHolds(call.slot)
  /\ attempt' = [attempt EXCEPT ![call.slot].phase = "ARMED"]
  /\ OnlyCall(At("ARMED", call.slot))
  /\ UNCHANGED <<task, assessed>>

\* An error propagated before the construction transaction (delivery of the
\* reader admission, arming, the effect marker of trusted time) leaves the
\* operation STARTED in a manager that keeps serving.
AbortExport ==
  /\ call.kind \in {"ADMITTED", "ARMED"}
  /\ OnlyCall(Idle)
  /\ UNCHANGED durable

\* The construction transaction denies before the destination is called.
DenyConstruction ==
  /\ call.kind = "ARMED"
  /\ attempt' = [attempt EXCEPT ![call.slot] =
       [@ EXCEPT !.op = "FAILED", !.phase = "UNOPENED"]]
  /\ OnlyCall(Idle)
  /\ UNCHANGED <<task, assessed>>

\* The construction transaction calls the destination, which may already be
\* affected by being opened.
OpenDestination ==
  /\ call.kind = "ARMED"
  /\ DeadlineHolds(call.slot)
  /\ \E seen \in {"UNTOUCHED", "PARTIAL"} :
       attempt' = [attempt EXCEPT ![call.slot].sink = seen]
  /\ OnlyCall(At("OPEN", call.slot))
  /\ UNCHANGED <<task, assessed>>

CopyChunk ==
  /\ call.kind = "OPEN"
  /\ DeadlineHolds(call.slot)
  /\ attempt' = [attempt EXCEPT ![call.slot].sink = "PARTIAL"]
  /\ UNCHANGED <<task, assessed, process>>

\* finalize() makes the bytes visible; the empty artifact needs no chunk.
FinalizeDestination ==
  /\ call.kind = "OPEN"
  /\ DeadlineHolds(call.slot)
  /\ attempt' = [attempt EXCEPT ![call.slot].sink = "COMPLETE"]
  /\ OnlyCall(At("FINALIZED", call.slot))
  /\ UNCHANGED <<task, assessed>>

DisposeDestination ==
  /\ call.kind = "FINALIZED"
  /\ DeadlineHolds(call.slot)
  /\ OnlyCall(At("DISPOSED", call.slot))
  /\ UNCHANGED durable

\* The completion transaction.
CompleteExport ==
  /\ call.kind = "DISPOSED"
  /\ task[call.slot[1]].state # "RECOVERING"
  /\ attempt[call.slot].op = "STARTED"
  /\ attempt' = [attempt EXCEPT ![call.slot].op = "SUCCEEDED"]
  /\ OnlyCall(Idle)
  /\ UNCHANGED <<task, assessed>>

\* Any failure after the destination was called: finish_failed_export_operation
\* with an uncertain outcome, then the handoff to recovery.
FailUncertain ==
  /\ call.kind \in {"OPEN", "FINALIZED", "DISPOSED"}
  /\ attempt' = [attempt EXCEPT ![call.slot].op = "UNKNOWN"]
  /\ OnlyCall(At("HANDOFF", call.slot))
  /\ UNCHANGED <<task, assessed>>

\* The failure cannot even be recorded: the error of
\* finish_failed_export_operation returns to the caller and the operation
\* stays STARTED behind an opened destination.
FailUnrecorded ==
  /\ call.kind \in {"OPEN", "FINALIZED", "DISPOSED"}
  /\ OnlyCall(Idle)
  /\ UNCHANGED durable

\* Mutant: what is recorded as unknown is answered from the record.
RetryExportArmed(x) ==
  /\ Serving
  /\ attempt[x].op = "STARTED" /\ attempt[x].phase = "ARMED"
  /\ OnlyCall(At("HANDOFF", x))
  /\ UNCHANGED durable

\* A repeated export_artifact call finds its operation: an armed or unknown
\* one goes to recovery; a PRE one is reported as having no effect and a
\* settled one returns its outcome, both without a change.
RetryExport(x) ==
  /\ Serving
  /\ attempt[x].op = "UNKNOWN" \/ (attempt[x].op = "STARTED" /\ attempt[x].phase = "ARMED")
  /\ OnlyCall(At("HANDOFF", x))
  /\ UNCHANGED durable

\* ensure_unknown_export_recovery_inventory in a serving manager.  For an
\* executing Task it is the first transaction of reconcile_live_execution; a
\* RECOVERING one keeps its inventory, which already covers what is
\* unresolved; for any other the inventory is only reported.
HandoffLive ==
  LET t == call.slot[1] IN
  /\ call.kind = "HANDOFF"
  /\ UNCHANGED <<task, attempt, mgr, todo, session, refusal>>
  /\ \/ /\ task[t].state = "RECOVERING"
        /\ call' = Idle /\ UNCHANGED assessed
     \/ /\ task[t].state # "RECOVERING"
        /\ ~EvidenceConflict(t, CurrentRef(t))
        /\ PersistInventory(t, CurrentRef(t))
        /\ call' = IF task[t].state \in Executing THEN Enter(CurrentRef(t)) ELSE Idle

\* The handoff fails, before the inventory is stored or between it and the
\* transition to RECOVERING: the error returns to the caller, the manager
\* serves on, and the Task stays where it is until a caller asks again.
HandoffFails ==
  /\ call.kind = "HANDOFF" \/ (call.kind = "ENTER" /\ mgr = "READY")
  /\ OnlyCall(Idle)
  /\ UNCHANGED durable

\* reconcile_unknown_artifact_export_no_effect: a trusted verifier attests
\* that the destination saw nothing; operation and subject settle together.
\* It needs an inventory that names the operation: the active one of a
\* RECOVERING Task, for any other one that was stored (the code takes the
\* newest).  The verifier is external and truthful.
AttestNoEffect(x) ==
  LET t == x[1] IN
  /\ Serving
  /\ attempt[x].op = "UNKNOWN"
  /\ attempt[x].sink = "UNTOUCHED"
  /\ \E r \in assessed :
       /\ r.ref.task = t /\ r.subject = <<"operation", x[2], x[3]>>
       /\ task[t].state = "RECOVERING" => r.ref = task[t].recovery
       /\ assessed' = Resolve(r)
  /\ attempt' = [attempt EXCEPT ![x] =
       [@ EXCEPT !.op = "FAILED", !.phase = "ATTESTED"]]
  /\ UNCHANGED <<task, process>>

\* retire_no_effect_export_attempt: the coordinator closes an attempt whose
\* export returned an error without an operation, or with one that is
\* recorded as having no effect; the destination was never opened.
RetireNoEffect(x) ==
  /\ Serving
  /\ task[x[1]].state = "RUNNING"
  /\ attempt[x].step = "RUNNING"
  /\ attempt[x].op \in {"NONE", "FAILED"}
  /\ attempt[x].result = "NONE"
  /\ attempt' = [attempt EXCEPT ![x].step = "FAILED"]
  /\ UNCHANGED <<task, assessed, process>>

=============================================================================

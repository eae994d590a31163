--------------------------- MODULE LocalCoordinator ---------------------------
(***************************************************************************)
(* TrustedLocalCoordinator: the host's one path from a proposal to bytes   *)
(* in the sealed sink.  Preparing, starting and exporting are sequences of *)
(* the Task Manager's transactions; the process may die between any two,   *)
(* after which handles are foreign, the sink is gone, and the host retries *)
(* from its own records.  One Task and one service; a candidate stands for *)
(* its binding, attempt, allocation and operation, whose ids are all fresh. *)
(* The authority checks are those of AuthorityCandidates, the export       *)
(* pipeline that of ArtifactExport, both at the grain the coordinator sees. *)
(***************************************************************************)
EXTENDS Naturals, Sequences, FiniteSets, TaskStates

CONSTANTS
  Candidates,
  Proposals,     \* [c, admission, program, owner, sound] for the first attempt
  Resources,     \* declared requests the policy decides on
  Policies,      \* functions from Resources to "ALLOW", "ASK" or "DENY"
  Principals,
  CancelIds,     \* transition ids the host supplies with a cancellation
  MaxSessions,   \* processes that open the store, one after the other
  MaxActivations,
  MaxExpired,    \* approvals and grants whose end passes
  MaxAttempt     \* 100 attempts of a node

\* What the instances have to satisfy.
CoordinatorAssumption ==
  /\ Proposals \subseteq [c : Candidates, admission : STRING, program : STRING,
                          owner : Principals, sound : BOOLEAN]
  /\ Policies \subseteq [Resources -> {"ALLOW", "ASK", "DENY"}]
  /\ {MaxSessions, MaxActivations, MaxExpired, MaxAttempt} \subseteq Nat

VARIABLES
  session,    \* artifact_scope_issuer and the clock session of the process
  sinks,      \* services of this process hold the sealed sink
  service,    \* authority_export_services
  stands,     \* the registry snapshot and the provider's evidence are current
  policy,     \* activations
  task,       \* the Task row
  receipts,   \* task_transitions, refusals included
  imported,   \* the keyed import of the source
  cand,       \* reservations with grants, step and operation
  approval,   \* approval_requests by candidate, resource and activation
  expired,    \* approvals whose end has passed
  lapsed,     \* candidates whose grants' deadline has passed
  opened,     \* what the destination saw of each operation (history)
  handles,    \* PreparedLocalExport values the host was given
  started,    \* LocalExportExecution values the host was given
  told,       \* what the host was told of each call's success
  call        \* the call under way

world == <<service, stands, policy, expired, lapsed>>
client == <<handles, started, told>>
vars == <<session, sinks, world, task, receipts, imported, cand, approval, opened, client, call>>

None == <<>>
NoCall == [op |-> "idle", pc |-> "idle", c |-> Absent, p |-> None, rev |-> 0, attempt |-> 0,
           asks |-> {}, prior |-> None]
NoTask == [state |-> Absent, rev |-> 0, program |-> Absent, owner |-> Absent, waiting |-> {}]
NoCandidate == [state |-> Absent, attempt |-> 0, program |-> Absent, session |-> 0, basis |-> 0,
                grants |-> Absent, step |-> Absent, op |-> Absent]

Idle == call.pc = "idle"
At(op, pc) == call.op = op /\ call.pc = pc
Continue(pc) == call' = [call EXCEPT !.pc = pc]
Return == call' = NoCall

\* Approvals are named by what they were asked for.
AllApprovals == Candidates \X Resources \X (1..MaxActivations)
Activation == Len(policy)
Live == {"PLANNING", "WAITING_FOR_AUTH", "RUNNABLE", "RUNNING"}

-----------------------------------------------------------------------------
(* transition_impl: a known id answers what it answered, a new one is       *)
(* compared with the Task and guarded, and its receipt stored either way.   *)

Request(id, from, to, rev, waiting, body) ==
  [id |-> id, from |-> from, to |-> to, rev |-> rev, waiting |-> waiting, body |-> body]

Stored(q) == {r \in receipts : r.q.id = q.id}

Fresh(q, guard) ==
  /\ Stored(q) = {}
  /\ q.rev = task.rev /\ q.from = task.state /\ AllowedTransition(q.from, q.to)
  /\ guard

Replayed(q) == \E r \in Stored(q) : r.q = q /\ r.applied

Receipt(q, guard) ==
  receipts' = IF Stored(q) = {} THEN receipts \cup {[q |-> q, applied |-> Fresh(q, guard)]} ELSE receipts

Moved(q) == [task EXCEPT !.state = q.to, !.rev = @ + 1, !.waiting = q.waiting]

-----------------------------------------------------------------------------
(* The facts the authority checks rest on. *)

PendingApproval(a) == approval[a] = "PENDING" /\ a \notin expired

\* scoped_pending_approvals of guard_failure: of any candidate of the program.
PendingApprovals == {a \in AllApprovals : PendingApproval(a)}

Gated(c) == {<<c, r, Activation>> : r \in {s \in Resources : policy[Activation][s] = "ASK"}}

\* CandidateFacts::load and provider_pins_current
Loads(c) ==
  /\ cand[c].state = "PENDING" /\ cand[c].program = task.program
  /\ task.state \in Live /\ service = "READY" /\ stands

\* evaluate_pending_authority_candidate_in refuses to look at an approval that
\* was withdrawn or has run out.
Evaluable(c) ==
  /\ Activation > 0 /\ Loads(c)
  /\ \A a \in Gated(c) : approval[a] # "WITHDRAWN" /\ (approval[a] # Absent => a \notin expired)

Denied(c) ==
  \/ \E r \in Resources : policy[Activation][r] = "DENY"
  \/ \E a \in Gated(c) : approval[a] = "DENIED"

\* binding_grants_valid, coordinator_grant_policy_current, check_grant_deadline
GrantsStand(c) ==
  /\ cand[c].grants = "ACTIVE" /\ cand[c].session = session /\ cand[c].basis = Activation
  /\ c \notin lapsed /\ stands
  /\ \A a \in AllApprovals : a[1] = c /\ a[3] = cand[c].basis => approval[a] # "WITHDRAWN" /\ a \notin expired

LatestAttempt == CHOOSE n \in 0..MaxAttempt :
  /\ n = 0 \/ \E c \in Candidates : cand[c].attempt = n
  /\ \A c \in Candidates : cand[c].attempt <= n

\* Steps and operations that may still act or have acted unaccountably.
Contained ==
  \A c \in Candidates : cand[c].step # "RUNNING" /\ cand[c].op \notin {"STARTED", "ARMED", "UNKNOWN"}

\* Spending the export's grants leaves the grant of the output active.
LiveGrants == {c \in Candidates : cand[c].grants \in {"ACTIVE", "SPENT"}}

-----------------------------------------------------------------------------
(* The service catalog and the policy. *)

\* Mutant: a service in the catalog cannot be registered by a later process.
RegisterServiceOnce ==
  /\ Idle /\ ~sinks /\ service = Absent
  /\ service' = "READY" /\ sinks' = TRUE
  /\ UNCHANGED <<session, stands, policy, expired, lapsed, task, receipts, imported, cand, approval, opened, client, call>>

\* register_export_service: the catalog row is kept, a disabled one for good.
RegisterService ==
  /\ Idle /\ ~sinks /\ service # "DISABLED"
  /\ service' = "READY" /\ sinks' = TRUE
  /\ UNCHANGED <<session, stands, policy, expired, lapsed, task, receipts, imported, cand, approval, opened, client, call>>

\* disable_export_service
DisableService ==
  /\ Idle /\ sinks /\ service = "READY"
  /\ service' = "DISABLED"
  /\ UNCHANGED <<session, sinks, stands, policy, expired, lapsed, task, receipts, imported, cand, approval,
                 opened, client, call>>

\* activate_policy
ActivatePolicy(p) ==
  /\ Idle /\ Activation < MaxActivations
  /\ policy' = Append(policy, p)
  /\ UNCHANGED <<session, sinks, service, stands, expired, lapsed, task, receipts, imported, cand, approval,
                 opened, client, call>>

\* External: the clock, the registry and the provider's records.
Expire(a) ==
  /\ approval[a] \in {"PENDING", "APPROVED"}
  /\ a \notin expired /\ Cardinality(expired) < MaxExpired
  /\ expired' = expired \cup {a}
  /\ UNCHANGED <<session, sinks, service, stands, policy, lapsed, task, receipts, imported, cand,
                 approval, opened, client, call>>

Lapse(c) ==
  /\ cand[c].grants = "ACTIVE"
  /\ c \notin lapsed /\ Cardinality(lapsed) < MaxExpired
  /\ lapsed' = lapsed \cup {c}
  /\ UNCHANGED <<session, sinks, service, stands, policy, expired, task, receipts, imported, cand,
                 approval, opened, client, call>>

LoseStanding ==
  /\ stands /\ stands' = FALSE
  /\ UNCHANGED <<session, sinks, service, policy, expired, lapsed, task, receipts, imported, cand, approval,
                 opened, client, call>>

-----------------------------------------------------------------------------
(* prepare_local_export. *)

\* The proposal's own consistency is checked with the service.
Prepare(p) ==
  /\ Idle /\ sinks
  /\ call' = [NoCall EXCEPT !.op = "prepare", !.pc = "task", !.c = p.c, !.p = p, !.attempt = 1,
                              !.rev = 2]
  /\ UNCHANGED <<session, sinks, world, task, receipts, imported, cand, approval, opened, client>>

\* An existing Task must be the proposal's; the intent stands for its owner.
CreateOrMatch ==
  /\ At("prepare", "task")
  /\ IF task.state = Absent
     THEN task' = [NoTask EXCEPT !.state = "CREATED", !.rev = 1, !.owner = call.p.owner] /\ Continue("admit")
     ELSE /\ UNCHANGED task
          /\ IF task.owner = call.p.owner THEN Continue("admit") ELSE Return
  /\ UNCHANGED <<session, sinks, world, receipts, imported, cand, approval, opened, client>>

\* validate_initial_plan, single_node_id
DocumentsSound(p) == p.sound

\* admit_initial_semantic_program: the request binds digests of both documents.
Admission(p) == Request(<<"admit", p.admission>>, "CREATED", "PLANNING", 1, {}, p.program)

\* persist_initial_program_admission_in: plan, validation, program and pointer
\* with the transition.  An error rolls everything back, the receipt too.
AdmitProgram ==
  LET q == Admission(call.p) IN
  /\ At("prepare", "admit")
  /\ IF ~DocumentsSound(call.p) \/ (Fresh(q, TRUE) /\ ~stands) THEN Return /\ UNCHANGED <<task, receipts>>
     ELSE /\ Receipt(q, TRUE)
          /\ task' = IF Fresh(q, TRUE) THEN [Moved(q) EXCEPT !.program = call.p.program] ELSE task
          /\ IF Fresh(q, TRUE) \/ Replayed(q) THEN Continue("import") ELSE Return
  /\ UNCHANGED <<session, sinks, world, imported, cand, approval, opened, client>>

\* import_artifact with the proposal's import id (ArtifactStaging).
ImportSource ==
  /\ At("prepare", "import")
  /\ \/ imported' = TRUE /\ Continue("reserve")
     \/ ~imported /\ UNCHANGED imported /\ Return
  /\ UNCHANGED <<session, sinks, world, task, receipts, cand, approval, opened, client>>

\* reserve_authority_candidate with the attempt number the caller computed; a
\* candidate that is known must be pending and the same.
ReserveCandidate ==
  LET c == call.c IN
  /\ call.pc = "reserve"
  /\ IF cand[c].state # Absent
     THEN /\ IF /\ cand[c].state = "PENDING" /\ cand[c].attempt = call.attempt
                /\ cand[c].program = task.program /\ service = "READY"
             THEN Continue("evaluate") ELSE Return
          /\ UNCHANGED cand
     ELSE IF task.state \in Live /\ stands /\ service = "READY" /\ call.attempt = LatestAttempt + 1
     THEN /\ cand' = [cand EXCEPT ![c] = [NoCandidate EXCEPT !.state = "PENDING", !.attempt = call.attempt,
                                                             !.program = task.program]]
          /\ Continue("evaluate")
     ELSE Return /\ UNCHANGED cand
  /\ UNCHANGED <<session, sinks, world, task, receipts, imported, approval, opened, client>>

Given(c) == [issuer |-> session, c |-> c, asks |-> call.asks]

\* evaluate_pending_authority_candidate, and what prepare makes of it.
EvaluateCandidate ==
  LET c == call.c IN
  /\ call.pc = "evaluate"
  /\ IF ~Evaluable(c) THEN Return /\ UNCHANGED <<approval, handles>>
     ELSE /\ approval' = [a \in AllApprovals |->
                            IF a \in Gated(c) /\ approval[a] = Absent THEN "PENDING" ELSE approval[a]]
          /\ IF Denied(c) \/ (Gated(c) = {} /\ call.prior # None) THEN Return /\ UNCHANGED handles
             ELSE IF Gated(c) = {} THEN Return /\ handles' = handles \cup {Given(c)}
             ELSE call' = [call EXCEPT !.pc = "wait", !.asks = Gated(c)] /\ UNCHANGED handles
  /\ UNCHANGED <<session, sinks, world, task, receipts, imported, cand, opened, started, told>>

\* The first attempt waits at revision 2 under an id of its own form;
\* export_waiting_transition_id of a later one hashes the revision.
WaitId(op, c, rev) == IF op = "prepare" THEN <<"waiting", c>> ELSE <<"waiting", c, rev>>

WaitRequest(op, c, rev, asks) ==
  Request(WaitId(op, c, rev), "PLANNING", "WAITING_FOR_AUTH", rev, asks, Absent)

\* guard_failure: one of the approvals named is still pending.
WaitGuard(asks) == (\E a \in asks : PendingApproval(a)) /\ Contained /\ LiveGrants = {}

\* The transition to WAITING_FOR_AUTH, or its replay.
EnterWait ==
  LET q == WaitRequest(call.op, call.c, call.rev, call.asks) IN
  /\ call.pc = "wait"
  /\ Return
  /\ IF call.prior # None /\ call.prior # q
     THEN UNCHANGED <<task, receipts, handles>>
     ELSE /\ Receipt(q, WaitGuard(call.asks))
          /\ task' = IF Fresh(q, WaitGuard(call.asks)) THEN Moved(q) ELSE task
          /\ handles' = IF Fresh(q, WaitGuard(call.asks)) \/ Replayed(q) THEN handles \cup {Given(call.c)}
                        ELSE handles
  /\ UNCHANGED <<session, sinks, world, imported, cand, approval, opened, started, told>>

-----------------------------------------------------------------------------
(* prepare_restarted_local_export, from the reference of an earlier handle.  *)

\* The reference must be of a finalized candidate (it is never finalized here)
\* whose service still stands.
ReferenceHolds(prev) ==
  /\ \E h \in handles : h.c = prev
  /\ cand[prev].state = "FINALIZED" /\ service = "READY"

\* Startup retired all its grants unused and its step never started.
Untouched(prev) ==
  /\ cand[prev].grants = "RETIRED"
  /\ cand[prev].step = "READY" /\ cand[prev].op = Absent

\* In WAITING_FOR_AUTH only the exact committed wait of this candidate, at the
\* current revision, may be repeated.
ExactWait(c) ==
  {r.q : r \in {s \in receipts :
     /\ s.applied /\ s.q.id = WaitId("restart", c, task.rev - 1)
     /\ s.q.rev + 1 = task.rev /\ s.q.waiting = task.waiting}}

PrepareRestarted(prev, c) ==
  /\ Idle
  /\ ReferenceHolds(prev)
  /\ task.state \in {"PLANNING", "WAITING_FOR_AUTH"}
  /\ Untouched(prev)
  /\ cand[prev].attempt < MaxAttempt /\ c # prev
  /\ \E prior \in IF task.state = "WAITING_FOR_AUTH" THEN ExactWait(c) ELSE {None} :
       call' = [NoCall EXCEPT !.op = "restart", !.pc = "reserve", !.c = c,
                              !.attempt = cand[prev].attempt + 1, !.prior = prior,
                              !.rev = IF prior = None THEN task.rev ELSE task.rev - 1]
  /\ UNCHANGED <<session, sinks, world, task, receipts, imported, cand, approval, opened, client>>

-----------------------------------------------------------------------------
(* Approvals. *)

\* verify_handle
Current(h) == h.issuer = session

\* verify_approval_member
Member(h, a) == Current(h) /\ a \in h.asks

\* decide_approval, decide_approval_for and decide_candidate_approval
Decide(h, a, p, answer) ==
  /\ Idle /\ Member(h, a) /\ p = task.owner
  /\ PendingApproval(a) /\ a \in Gated(h.c)
  /\ Loads(h.c) /\ task.state = "WAITING_FOR_AUTH"
  /\ approval' = [approval EXCEPT ![a] = answer]
  /\ UNCHANGED <<session, sinks, world, task, receipts, imported, cand, opened, client, call>>

\* withdraw_approval
Withdraw(h, a, p) ==
  /\ Idle /\ Member(h, a) /\ p = task.owner
  /\ approval[a] = "APPROVED"
  /\ approval' = [approval EXCEPT ![a] = "WITHDRAWN"]
  /\ UNCHANGED <<session, sinks, world, task, receipts, imported, cand, opened, client, call>>

-----------------------------------------------------------------------------
(* cancel_local_export, cancel_task: by owner and transition id. *)

CancelRequest(id) == Request(<<"cancel", id>>, task.state, "CANCELLED", task.rev, task.waiting, task.owner)

RevokedGrants ==
  [c \in Candidates |-> IF cand[c].grants = "ACTIVE" THEN [cand[c] EXCEPT !.grants = "REVOKED"] ELSE cand[c]]

\* A cancelled Task confirms only the request that cancelled it.
Cancel(p, id) ==
  LET q == CancelRequest(id) IN
  /\ Idle
  /\ task.state # Absent /\ p = task.owner
  /\ IF task.state = "CANCELLED"
     THEN /\ \E r \in receipts : r.q.id = q.id /\ r.applied
          /\ told' = told \cup {<<"cancelled", id>>}
          /\ UNCHANGED <<task, receipts, cand>>
     ELSE /\ Receipt(q, Contained)
          /\ IF Fresh(q, Contained)
             THEN task' = Moved(q) /\ cand' = RevokedGrants /\ told' = told \cup {<<"cancelled", id>>}
             ELSE UNCHANGED <<task, cand, told>>
  /\ UNCHANGED <<session, sinks, world, imported, approval, opened, handles, started, call>>

-----------------------------------------------------------------------------
(* start_local_export. *)

Start(h) ==
  /\ Idle /\ Current(h)
  /\ call' = [NoCall EXCEPT !.op = "start", !.pc = "finalize", !.c = h.c]
  /\ UNCHANGED <<session, sinks, world, task, receipts, imported, cand, approval, opened, client>>

\* Mutant: consent of any activation will do.
FinalizableLoosely(c) ==
  /\ Evaluable(c) /\ ~Denied(c)
  /\ task.state \in {"PLANNING", "WAITING_FOR_AUTH"}

\* finalize_pending_authority_candidate, finalization_state_allows: PLANNING
\* is enough only when no approval is involved.
Finalizable(c) ==
  /\ Evaluable(c) /\ ~Denied(c)
  /\ \A a \in Gated(c) : approval[a] = "APPROVED"
  /\ task.state = "WAITING_FOR_AUTH" \/ (task.state = "PLANNING" /\ Gated(c) = {})

FinalizeCandidate ==
  LET c == call.c IN
  /\ At("start", "finalize")
  /\ IF cand[c].state = "FINALIZED" THEN Continue("runnable") /\ UNCHANGED cand
     ELSE IF Finalizable(c)
     THEN /\ cand' = [cand EXCEPT ![c] = [@ EXCEPT !.state = "FINALIZED", !.grants = "ACTIVE", !.step = "READY",
                                                   !.session = session, !.basis = Activation]]
          /\ Continue("runnable")
     ELSE Return /\ UNCHANGED cand
  /\ UNCHANGED <<session, sinks, world, task, receipts, imported, approval, opened, client>>

\* guard_failure for RUNNABLE and RUNNING: the latest attempt is READY under
\* valid grants, and no approval of the program is pending.
LatestReady ==
  {c \in Candidates : cand[c].step = "READY" /\ GrantsStand(c)
                      /\ \A d \in Candidates : cand[d].state = "FINALIZED" => cand[d].attempt <= cand[c].attempt}

ReadyGuard == LatestReady # {} /\ PendingApprovals = {} /\ Contained

\* The guarded transition, with the approvals the Task waited on cleared.
BecomeRunnable ==
  LET c == call.c
      q == Request(<<"runnable", c>>, task.state, "RUNNABLE", task.rev, {}, Absent) IN
  /\ At("start", "runnable")
  /\ Return
  /\ IF task.state \in {"PLANNING", "WAITING_FOR_AUTH"}
     THEN /\ Receipt(q, ReadyGuard)
          /\ task' = IF Fresh(q, ReadyGuard) THEN Moved(q) ELSE task
          /\ started' = IF Fresh(q, ReadyGuard) \/ Replayed(q) THEN started \cup {[issuer |-> session, c |-> c]}
                        ELSE started
     ELSE /\ started' = IF task.state \in Live THEN started \cup {[issuer |-> session, c |-> c]} ELSE started
          /\ UNCHANGED <<task, receipts>>
  /\ UNCHANGED <<session, sinks, world, imported, cand, approval, opened, handles, told>>

-----------------------------------------------------------------------------
(* launch_local_export, export_local_artifact. *)

\* Handle, sink, current pin, provider session and read scope.  With the
\* grant spent on a stored operation the scope may be refused or, for a
\* replayed reader admission, not.
Preflight(x) ==
  /\ Current(x) /\ sinks /\ service = "READY"
  /\ cand[x.c].state = "FINALIZED"
  /\ GrantsStand(x.c) \/ cand[x.c].grants = "SPENT"
  /\ task.state \in {"RUNNABLE", "RUNNING"}

Launch(x) ==
  /\ Idle /\ Preflight(x)
  /\ call' = [NoCall EXCEPT !.op = "launch", !.pc = "running", !.c = x.c]
  /\ UNCHANGED <<session, sinks, world, task, receipts, imported, cand, approval, opened, client>>

Export(x) ==
  /\ Idle /\ Preflight(x)
  /\ call' = [NoCall EXCEPT !.op = "export", !.pc = "running", !.c = x.c]
  /\ UNCHANGED <<session, sinks, world, task, receipts, imported, cand, approval, opened, client>>

AfterRunning == IF call.op = "export" THEN Continue("export") ELSE Return

\* transition_export_running: admit_active_steps starts the READY step.
BecomeRunning ==
  LET q == Request(<<"running", call.c>>, "RUNNABLE", "RUNNING", task.rev, task.waiting, Absent) IN
  /\ call.pc = "running"
  /\ IF task.state = "RUNNING" THEN AfterRunning /\ UNCHANGED <<task, receipts, cand>>
     ELSE IF task.state # "RUNNABLE" THEN Return /\ UNCHANGED <<task, receipts, cand>>
     ELSE /\ Receipt(q, ReadyGuard)
          /\ IF Fresh(q, ReadyGuard)
             THEN /\ task' = Moved(q)
                  /\ cand' = [c \in Candidates |-> IF c \in LatestReady THEN [cand[c] EXCEPT !.step = "RUNNING"]
                                                   ELSE cand[c]]
                  /\ AfterRunning
             ELSE UNCHANGED <<task, cand>> /\ (IF Replayed(q) THEN AfterRunning ELSE Return)
  /\ UNCHANGED <<session, sinks, world, imported, approval, opened, client>>

\* ensure_unknown_export_recovery_inventory: the Task goes to recovery, or an
\* error leaves it running until the call is repeated or the process ends.
HandOver == task' \in {task, [task EXCEPT !.state = "RECOVERING", !.rev = @ + 1]}

\* export_artifact on a stored operation answers from it; one that may have
\* had an effect goes to recovery.
ExportAgain ==
  LET c == call.c IN
  /\ At("export", "export") /\ cand[c].op # Absent
  /\ told' = IF cand[c].op = "SUCCEEDED" THEN told \cup {<<"exported", c>>} ELSE told
  /\ IF cand[c].op \in {"ARMED", "UNKNOWN"} THEN HandOver ELSE UNCHANGED task
  /\ IF cand[c].op = "FAILED" THEN Continue("retire") ELSE Return
  /\ UNCHANGED <<session, sinks, world, receipts, imported, cand, approval, opened, handles, started>>

\* The admission spends the grants with the operation row.
AdmitExport ==
  LET c == call.c IN
  /\ At("export", "export") /\ cand[c].op = Absent
  /\ IF GrantsStand(c) /\ cand[c].step = "RUNNING"
     THEN cand' = [cand EXCEPT ![c].op = "STARTED", ![c].grants = "SPENT"] /\ Continue("arm")
     ELSE UNCHANGED cand /\ Continue("retire")
  /\ UNCHANGED <<session, sinks, world, task, receipts, imported, approval, opened, client>>

\* Arming, and the errors around it that leave the operation as it is.
ArmExport ==
  /\ At("export", "arm")
  /\ \/ cand' = [cand EXCEPT ![call.c].op = "ARMED"] /\ Continue("open")
     \/ UNCHANGED cand /\ Return
  /\ UNCHANGED <<session, sinks, world, task, receipts, imported, approval, opened, client>>

\* The construction transaction: refused before the callback, or the sink is
\* opened (opens += 1), or an error leaves it armed.
OpenSink ==
  /\ At("export", "open")
  /\ \/ /\ cand' = [cand EXCEPT ![call.c].op = "FAILED"] /\ Continue("retire")
        /\ UNCHANGED opened
     \/ /\ call.c \notin lapsed
        /\ opened' = [opened EXCEPT ![call.c] = Append(@, "OPEN")]
        /\ Continue("copy") /\ UNCHANGED cand
     \/ Return /\ UNCHANGED <<cand, opened>>
  /\ UNCHANGED <<session, sinks, world, task, receipts, imported, approval, client>>

\* Mutant: a transfer that fails is tried again.
TransferRetried ==
  LET c == call.c IN
  /\ At("export", "copy")
  /\ \/ opened' = [opened EXCEPT ![c] = Append(@, "DONE")] /\ Continue("complete")
     \/ Continue("open") /\ UNCHANGED opened
  /\ UNCHANGED <<session, sinks, world, task, receipts, imported, cand, approval, client>>

\* finish_unknown_export_operation: the outcome is recorded as unknown and
\* handed over; when recording it fails already, the operation stays armed.
FinishUnknown(c) ==
  \/ cand' = [cand EXCEPT ![c].op = "UNKNOWN"] /\ HandOver
  \/ UNCHANGED <<cand, task>>

\* Bytes, finalize(), disposal; a failure in between is uncertain.
Transfer ==
  LET c == call.c IN
  /\ At("export", "copy")
  /\ \/ /\ c \notin lapsed
        /\ opened' = [opened EXCEPT ![c] = Append(@, "DONE")]
        /\ Continue("complete") /\ UNCHANGED <<cand, task>>
     \/ FinishUnknown(c) /\ Return /\ UNCHANGED opened
  /\ UNCHANGED <<session, sinks, world, receipts, imported, approval, client>>

Complete ==
  LET c == call.c IN
  /\ At("export", "complete")
  /\ Return
  /\ \/ /\ cand' = [cand EXCEPT ![c].op = "SUCCEEDED"]
        /\ told' = told \cup {<<"exported", c>>} /\ UNCHANGED task
     \/ FinishUnknown(c) /\ UNCHANGED told
  /\ UNCHANGED <<session, sinks, world, receipts, imported, approval, opened, handles, started>>

\* retire_no_effect_export_attempt; the sink was not opened on the way here.
RetireAttempt ==
  LET c == call.c IN
  /\ At("export", "retire")
  /\ Return
  /\ cand' = IF task.state = "RUNNING" /\ cand[c].step = "RUNNING"
             THEN [cand EXCEPT ![c].step = "FAILED"] ELSE cand
  /\ UNCHANGED <<session, sinks, world, task, receipts, imported, approval, opened, client>>

\* replay_local_artifact_export needs the handle and the sink's service,
\* replay_completed_local_export only the reference.
ReplayExport(h) ==
  /\ Idle
  /\ cand[h.c].op = "SUCCEEDED"
  /\ told' = told \cup {<<"exported", h.c>>}
  /\ UNCHANGED <<session, sinks, world, task, receipts, imported, cand, approval, opened, handles, started, call>>

-----------------------------------------------------------------------------
(* The process dies and another opens the store: started exports are settled, *)
(* unused authority is retired and its Task replanned, unresolved execution   *)
(* goes to recovery (TaskRecovery has these steps one by one).                *)

SettledOp(op) == IF op = "STARTED" THEN "FAILED" ELSE IF op = "ARMED" THEN "UNKNOWN" ELSE op

Unresolved ==
  LiveGrants # {} \/ \E c \in Candidates : cand[c].step = "RUNNING" \/ cand[c].op \in {"ARMED", "UNKNOWN"}

Obsolete ==
  /\ task.state \in {"PLANNING", "WAITING_FOR_AUTH", "RUNNABLE"}
  /\ \E c \in Candidates : cand[c].state = "FINALIZED"

Restart ==
  /\ session < MaxSessions
  /\ session' = session + 1 /\ sinks' = FALSE /\ call' = NoCall
  /\ cand' = [c \in Candidates |->
       [cand[c] EXCEPT !.op = SettledOp(@),
                       !.grants = IF Obsolete /\ @ = "ACTIVE" THEN "RETIRED" ELSE @]]
  /\ task' = IF Obsolete /\ task.state # "PLANNING"
             THEN [task EXCEPT !.state = "PLANNING", !.rev = @ + 1, !.waiting = {}]
             ELSE IF task.state = "RUNNING" /\ Unresolved
             THEN [task EXCEPT !.state = "RECOVERING", !.rev = @ + 1]
             ELSE task
  /\ UNCHANGED <<world, receipts, imported, approval, opened, client>>

-----------------------------------------------------------------------------
Init ==
  /\ session = 1 /\ sinks = FALSE /\ service = Absent
  /\ stands = TRUE /\ policy = <<>> /\ expired = {} /\ lapsed = {}
  /\ task = NoTask /\ receipts = {} /\ imported = FALSE
  /\ cand = [c \in Candidates |-> NoCandidate]
  /\ approval = [a \in AllApprovals |-> Absent]
  /\ opened = [c \in Candidates |-> <<>>]
  /\ handles = {} /\ started = {} /\ told = {} /\ call = NoCall

\* The call under way goes on.
Step ==
  \/ CreateOrMatch \/ AdmitProgram \/ ImportSource
  \/ ReserveCandidate \/ EvaluateCandidate \/ EnterWait
  \/ FinalizeCandidate \/ BecomeRunnable \/ BecomeRunning
  \/ ExportAgain \/ AdmitExport \/ ArmExport \/ OpenSink \/ Transfer \/ Complete \/ RetireAttempt

Next ==
  \/ Step
  \/ RegisterService \/ DisableService
  \/ \E p \in Policies : ActivatePolicy(p)
  \/ \E a \in AllApprovals : Expire(a)
  \/ \E c \in Candidates : Lapse(c)
  \/ LoseStanding
  \/ \E p \in Proposals : Prepare(p)
  \/ \E prev, c \in Candidates : PrepareRestarted(prev, c)
  \/ \E h \in handles :
       \/ \E a \in h.asks, p \in Principals :
            Withdraw(h, a, p) \/ \E answer \in {"APPROVED", "DENIED"} : Decide(h, a, p, answer)
       \/ Start(h) \/ ReplayExport(h)
  \/ \E x \in started : Launch(x) \/ Export(x)
  \/ \E p \in Principals, id \in CancelIds : Cancel(p, id)
  \/ Restart

Spec == Init /\ [][Next]_vars

-----------------------------------------------------------------------------
TypeOK ==
  /\ session \in 1..MaxSessions /\ sinks \in BOOLEAN /\ stands \in BOOLEAN /\ imported \in BOOLEAN
  /\ service \in {Absent, "READY", "DISABLED"}
  /\ task.state \in {Absent, "CREATED", "RECOVERING", "CANCELLED"} \cup Live
  /\ task.waiting \subseteq AllApprovals
  /\ \A c \in Candidates :
       /\ cand[c].state \in {Absent, "PENDING", "FINALIZED"} /\ cand[c].attempt \in 0..MaxAttempt
       /\ cand[c].grants \in {Absent, "ACTIVE", "SPENT", "RETIRED", "REVOKED"}
       /\ cand[c].step \in {Absent, "READY", "RUNNING", "FAILED"}
       /\ cand[c].op \in {Absent, "STARTED", "ARMED", "FAILED", "UNKNOWN", "SUCCEEDED"}
       /\ opened[c] \in Seq({"OPEN", "DONE"})
  /\ \A a \in AllApprovals : approval[a] \in {Absent, "PENDING", "APPROVED", "DENIED", "WITHDRAWN"}
  /\ <<call.op, call.pc>> \in
       {<<"idle", "idle">>, <<"start", "finalize">>, <<"start", "runnable">>, <<"launch", "running">>}
       \cup ({"prepare"} \X {"task", "admit", "import", "reserve", "evaluate", "wait"})
       \cup ({"restart"} \X {"reserve", "evaluate", "wait"})
       \cup ({"export"} \X {"running", "export", "arm", "open", "copy", "complete", "retire"})

\* The sink is opened at most once for a Task, whatever the host repeats, in
\* this process or a later one, under this attempt or another
\* (prepare_restarted_local_export, export_local_artifact).
NoSecondDelivery ==
  /\ Cardinality({c \in Candidates : opened[c] # <<>>}) <= 1
  /\ \A c \in Candidates : Len(SelectSeq(opened[c], LAMBDA e : e = "OPEN")) <= 1

\* The sink is opened only for a running Task, under authority of this process
\* and of the activation in force, with the owner's unwithdrawn consent for
\* this very candidate wherever that activation asks for it
\* (start_local_export, export_local_artifact).
OpensUnderConsent ==
  \A c \in Candidates : opened[c] = <<>> /\ opened'[c] # <<>> =>
    /\ task.state = "RUNNING" /\ cand[c].session = session /\ cand[c].basis = Activation
    /\ \A r \in Resources : \/ policy[Activation][r] = "ALLOW"
                            \/ policy[Activation][r] = "ASK" /\ approval[<<c, r, Activation>>] = "APPROVED"

\* What the host is told of an export, at once or by a later replay from its
\* records, is what the destination saw (replay_completed_local_export).
ToldIsDelivered == \A c \in Candidates : <<"exported", c>> \in told => opened[c] = <<"OPEN", "DONE">>

\* Once the owner was told that the Task is cancelled, nothing is sent, no
\* grant is live and the Task stays so, whatever handles are still about
\* (cancel_task).
CancelledStaysQuiet ==
  (\E id \in CancelIds : <<"cancelled", id>> \in told) =>
    /\ opened' = opened /\ task'.state = "CANCELLED"
    /\ \A c \in Candidates : cand'[c].grants # "ACTIVE"

\* Until a step was started the owner can always cancel: with a disabled
\* service, a withdrawn approval, a changed policy, a half-done preparation or
\* a lapsed grant (docs/93, cancel_task).
OwnerCanCancel ==
  Idle /\ task.state \in {"CREATED", "PLANNING", "WAITING_FOR_AUTH", "RUNNABLE"} =>
    Fresh(CancelRequest("another"), Contained)

\* Authority that a process leaves behind without a started step was never
\* used, so that the next one can retire it and need not refuse to start
\* (retire_obsolete_prepared_authority_startup).
LeftoversAreUnused ==
  Obsolete => \A c \in Candidates : cand[c].state = "FINALIZED" =>
                cand[c].step = "READY" /\ cand[c].op = Absent /\ cand[c].grants # "SPENT"

\* A waiting Task waits for approvals of one candidate, its latest, that the
\* owner was really asked for (prepare_local_export,
\* prepare_restarted_local_export).
WaitsForLatest ==
  task.state = "WAITING_FOR_AUTH" =>
    \E c \in Candidates :
      /\ cand[c].attempt = LatestAttempt /\ task.waiting # {}
      /\ \A a \in task.waiting : a[1] = c /\ approval[a] # Absent

\* The Task runs the program of the one admission that was committed, and so
\* does every candidate, whatever else was proposed for it
\* (admit_initial_semantic_program).
OneProgram ==
  /\ \A r \in receipts : r.applied /\ r.q.to = "PLANNING" => r.q.body = task.program
  /\ \A c \in Candidates : cand[c].state # Absent => cand[c].program = task.program

\* The host retries under the allowing policy until it is told of the export,
\* unless something happened that ends it: the effect is in recovery or closed
\* without effect, or the service or the provider is gone, or an error before
\* arming returned, whose operation is answered as without effect and stays
\* open until the next start.
ToldOrOver ==
  \/ \E c \in Candidates : <<"exported", c>> \in told
  \/ task.state \in {"RECOVERING", "CANCELLED"} \/ ~stands \/ service = "DISABLED"
  \/ \E c \in Candidates : cand[c].step = "FAILED" \/ (Idle /\ cand[c].op = "STARTED")

\* The call that would give the host a handle for c after prev.
Preparable(prev, c) ==
  LET waits == \E r \in Resources : policy[Activation][r] = "ASK" IN
  /\ ReferenceHolds(prev) /\ Untouched(prev) /\ c # prev
  /\ \/ cand[c].state = Absent /\ cand[prev].attempt = LatestAttempt
     \/ cand[c].state = "PENDING" /\ cand[c].attempt = cand[prev].attempt + 1
  /\ waits => /\ \E a \in Gated(c) : approval[a] = Absent \/ PendingApproval(a)
              /\ {r \in receipts : r.q.id = WaitId("restart", c, task.rev)} = {}

\* After a restart that retired unused authority, "a new candidate and fresh
\* grants" (docs/77) can be had, when nothing was denied, withdrawn or expired
\* and policy, service and provider are as they were.
ReplannedCanProceed ==
  /\ Idle /\ task.state = "PLANNING" /\ stands /\ service = "READY"
  /\ Activation > 0 /\ (\A r \in Resources : policy[Activation][r] # "DENY")
  /\ expired = {} /\ (\A a \in AllApprovals : approval[a] \in {Absent, "PENDING", "APPROVED"})
  /\ (\E c \in Candidates : cand[c].state = Absent)
  /\ (\E c \in Candidates : cand[c].grants = "RETIRED" /\ \E h \in handles : h.c = c)
  => \E prev, c \in Candidates : Preparable(prev, c)
=============================================================================

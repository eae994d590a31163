-------------------------- MODULE AuthorityCandidates --------------------------
(***************************************************************************)
(* How the Task Manager turns a reserved candidate into executable         *)
(* authority: reservation, policy evaluation, the owner's approval and its *)
(* withdrawal, finalization, and the checks at each later use.  Every      *)
(* operation but a withdrawal reads the eligible providers first and opens *)
(* its transaction afterwards, so a successor may take the store between   *)
(* the two.  One Task with one node; a candidate pins a whole attempt.     *)
(***************************************************************************)
EXTENDS Naturals, Sequences, FiniteSets, TaskStates

CONSTANTS
  Managers,      \* manager instances are numbered in the order they claim
  Candidates,    \* candidate ids, each with its binding, attempt and allocation
  Resources,     \* declared requests: action, kind and sensitivity of each
  Egress,        \* the request that names an export service, if any
  Policies,      \* policy payloads: sequences of rules
  Principals, Owner,
  MaxRevision,   \* activations
  MaxTime,       \* trusted time
  ApprovalLife,  \* one hour
  MaxChange,     \* changes of the provider's rows
  MaxProgram,    \* active program revisions of the Task
  MaxUses        \* protected uses per candidate

\* What the instances have to satisfy.
CandidateAssumption ==
  /\ Managers \in Nat \ {0} /\ Owner \in Principals
  /\ {MaxRevision, MaxTime, ApprovalLife, MaxChange, MaxProgram, MaxUses} \subseteq Nat
  /\ \A p \in Policies : Len(p) \in Nat /\ DOMAIN p = 1..Len(p)
  /\ IsFiniteSet(Candidates)

VARIABLES
  lease,      \* the manager that holds the store
  call,       \* per manager: the operation under way and what it read before
  backend,    \* per manager: the process-local evaluator is running
  now,        \* trusted time
  task,       \* state, active program, coherence of the plan with it
  provider,   \* registration, enablement epoch, latest evidence, trust
  service,    \* authority_export_services and their states
  input,      \* the input Artifact is verified and the only one of its type
  policy,     \* authority_policy_activations, by revision
  cand,       \* reservations with status, binding, grants and step
  approval,   \* approval_requests with bindings and decisions, by fingerprint
  decision,   \* policy_decisions with their fingerprints
  used,       \* protected uses admitted under each candidate
  lapsed,     \* finalized candidates whose provider changed since (history)
  withdrawn   \* those whose policy, approval, program or session ended since (history)

rows == <<task, provider, service, input, policy, cand, approval, decision, used, lapsed, withdrawn>>
vars == <<lease, call, backend, now, rows>>

NoCall == [op |-> "none", c |-> Absent, seen |-> {}]
NoCandidate ==
  [state |-> Absent, program |-> 0, attempt |-> 0, evidence |-> 0, source |-> 0,
   revision |-> 0, epoch |-> 0, by |-> 0, grants |-> Absent, step |-> Absent]

Live == {"PLANNING", "WAITING_FOR_AUTH", "RUNNABLE", "RUNNING"}
Revision == Len(policy)
Reserved == {c \in Candidates : cand[c].state # Absent}
Finalized == {c \in Candidates : cand[c].state = "FINALIZED"}

-----------------------------------------------------------------------------
(* The evaluator. *)

\* What one rule makes of the result so far; a denial is final.
AfterRule(result, rule, r) ==
  IF rule.resource # r \/ result = "DenyPolicy" THEN result
  ELSE IF rule.effect = "DENY" THEN "DenyPolicy"
  ELSE IF rule.effect = "REQUIRE_APPROVAL" \/ result = "RequireApproval" THEN "RequireApproval"
  ELSE "Allow"

\* DeterministicEvaluator::decide, rule by rule.
Decide(rules, r) ==
  LET result[i \in 0..Len(rules)] ==
        IF i = 0 THEN "DenyDefault" ELSE AfterRule(result[i - 1], rules[i], r)
  IN result[Len(rules)]

Basis(m, r) == IF backend[m] THEN Decide(policy[Revision], r) ELSE "DenyEngineUnavailable"

EffectOf(basis) ==
  CASE basis = "Allow" -> "ALLOW"
    [] basis = "RequireApproval" -> "REQUIRE_APPROVAL"
    [] OTHER -> "DENY"

-----------------------------------------------------------------------------
(* The facts a candidate pins and their freshness. *)

\* Mutant: the payload, not its activation, goes into the fingerprint.
FingerprintByPayload(c, r, v) ==
  [c |-> c, r |-> r, v |-> CHOOSE w \in 1..v : policy[w] = policy[v] /\ \A u \in 1..v : policy[u] = policy[v] => w <= u]

\* CandidateFacts::fingerprint: all pins of the reservation, the resource and
\* the activation under which it was evaluated.
Fingerprint(c, r, v) == [c |-> c, r |-> r, v |-> v]

\* load_current_export_pin
ExportPinCurrent == Egress \in Resources => service = "READY"

\* CandidateFacts::load, in the order of its checks: the pending reservation
\* of a live Task, the bound Artifacts, the export pin, and the active program
\* that still declares exactly these resources.
TaskCurrent == task.state \in Live

ArtifactsCurrent == input

ProgramDeclares(c) == task.program = cand[c].program

Loads(c) ==
  /\ cand[c].state = "PENDING"
  /\ TaskCurrent /\ ArtifactsCurrent /\ ExportPinCurrent /\ ProgramDeclares(c)

\* ProviderStore::eligible_candidates, as the evidence it selects.
Eligible == IF provider.registered /\ provider.trusted THEN {provider.evidence} ELSE {}

\* evidence_still_current
EvidenceCurrent(evidence) == provider.evidence = evidence

\* provider_pins_current: the selection read before the transaction, and the
\* evidence and trust rows read in it.
PinsCurrent(c, seen) ==
  /\ cand[c].evidence \in seen
  /\ EvidenceCurrent(cand[c].evidence)
  /\ provider.trusted /\ provider.source = cand[c].source

-----------------------------------------------------------------------------
(* One resource of an evaluation. *)

NoApproval == [status |-> Absent, expires |-> 0, withdrawn |-> FALSE]
AllFingerprints == [c : Candidates, r : Resources, v : 1..MaxRevision]

\* checked_approval_request: a stored request that still binds.
ApprovalBinds(a) == ~a.withdrawn /\ now < a.expires

\* checked_approval_decision
ApprovalEffect(a) ==
  CASE a.status = "APPROVED" -> "ALLOW"
    [] a.status = "DENIED" -> "DENY"
    [] OTHER -> "REQUIRE_APPROVAL"

Effect(m, c, r) ==
  LET basis == Basis(m, r) IN
  IF basis = "RequireApproval" THEN ApprovalEffect(approval[Fingerprint(c, r, Revision)])
  ELSE EffectOf(basis)

\* Mutant: the decision after the owner's answer has the id of the first one.
PhaseNoAnswer(basis, effect) ==
  IF basis = "DenyEngineUnavailable" THEN "backend-unavailable" ELSE "initial"

Phase(basis, effect) ==
  CASE basis = "DenyEngineUnavailable" -> "backend-unavailable"
    [] basis = "RequireApproval" /\ effect = "ALLOW" -> "approved"
    [] basis = "RequireApproval" /\ effect = "DENY" -> "approval-denied"
    [] OTHER -> "initial"

DecisionOf(m, c, r) ==
  [fp |-> Fingerprint(c, r, Revision), phase |-> Phase(Basis(m, r), Effect(m, c, r)),
   effect |-> Effect(m, c, r), basis |-> Basis(m, r)]

\* A stored decision with the same id must be the same decision.
Consistent(d) == \A e \in decision : e.fp = d.fp /\ e.phase = d.phase => e = d

Evaluable(m, c, r) ==
  LET a == approval[Fingerprint(c, r, Revision)] IN
  /\ Basis(m, r) = "RequireApproval" /\ a.status # Absent => ApprovalBinds(a)
  /\ Consistent(DecisionOf(m, c, r))

\* evaluate_pending_authority_candidate_in: the checks.
PolicyLoaded == Revision > 0

EvaluationAdmits(m, c, seen) ==
  /\ PolicyLoaded
  /\ Loads(c)
  /\ PinsCurrent(c, seen)
  /\ \A r \in Resources : Evaluable(m, c, r)

\* evaluate_pending_authority_candidate_in: the rows.
Asked(m, c) ==
  {Fingerprint(c, r, Revision) : r \in {q \in Resources :
     Basis(m, q) = "RequireApproval" /\ approval[Fingerprint(c, q, Revision)].status = Absent}}

RecordEvaluation(m, c) ==
  /\ decision' = decision \cup {DecisionOf(m, c, r) : r \in Resources}
  /\ approval' = [f \in AllFingerprints |->
       IF f \in Asked(m, c)
       THEN [status |-> "PENDING", expires |-> now + ApprovalLife, withdrawn |-> FALSE]
       ELSE approval[f]]

-----------------------------------------------------------------------------
(* Calls: an operation reads its candidate and the eligible providers. *)

AssertManagerLease(m) == lease = m

\* The methods of a manager exclude one another (&mut self).
Idle(m) == m \in 1..lease /\ call[m] = NoCall

Begin(m, op, c) ==
  /\ Idle(m)
  /\ CASE op = "reserve" -> cand[c].state = Absent /\ TaskCurrent
       [] op = "finalize" -> Loads(c) /\ task.state \in {"PLANNING", "WAITING_FOR_AUTH"}
       [] op = "decide" -> Loads(c) /\ task.state = "WAITING_FOR_AUTH"
       [] OTHER -> Loads(c)
  /\ call' = [call EXCEPT ![m] = [op |-> op, c |-> c, seen |-> Eligible]]
  /\ UNCHANGED <<lease, backend, now, rows>>

\* A refusal rolls the transaction back; a lost answer looks the same.
Give(m) ==
  /\ call[m] # NoCall
  /\ call' = [call EXCEPT ![m] = NoCall]
  /\ UNCHANGED <<lease, backend, now, rows>>

Ends(m, op, c) ==
  /\ call[m].op = op /\ call[m].c = c
  /\ AssertManagerLease(m)
  /\ call' = [call EXCEPT ![m] = NoCall]

LatestAttempt ==
  LET known == {cand[c].attempt : c \in {d \in Reserved : cand[d].program = task.program}}
  IN IF known = {} THEN 0 ELSE CHOOSE n \in known : \A k \in known : k <= n

\* replay_existing: a known reservation is answered and never changed.
Known(c) == cand[c].state # Absent

\* The provider's registration, trust and enablement interval, in the second
\* transaction.
ProviderStands(e) == provider.registered /\ provider.trusted /\ EvidenceCurrent(e)

\* Each declared request resolves to exactly one resource.
ResourcesResolve == ArtifactsCurrent /\ ExportPinCurrent

\* reserve_authority_candidate: the second transaction.  A new reservation
\* takes the attempt after the latest one of its program and node.
Reserve(m, c) ==
  /\ Ends(m, "reserve", c)
  /\ ~Known(c)
  /\ TaskCurrent
  /\ \E e \in call[m].seen :
       /\ ProviderStands(e)
       /\ ResourcesResolve
       /\ cand' = [cand EXCEPT ![c] = [NoCandidate EXCEPT !.state = "PENDING",
                     !.program = task.program, !.attempt = LatestAttempt + 1,
                     !.evidence = e, !.source = provider.source]]
  /\ UNCHANGED <<lease, backend, now, task, provider, service, input, policy, approval, decision,
                 used, lapsed, withdrawn>>

Evaluate(m, c) ==
  /\ Ends(m, "evaluate", c)
  /\ EvaluationAdmits(m, c, call[m].seen)
  /\ RecordEvaluation(m, c)
  /\ UNCHANGED <<lease, backend, now, task, provider, service, input, policy, cand, used, lapsed, withdrawn>>

\* authenticate_approved_claim: the old approval, its candidate and its policy.
Authenticates(f) ==
  LET a == approval[f] IN
  /\ a.status = "APPROVED" /\ ApprovalBinds(a)
  /\ Loads(f.c)
  /\ Decide(policy[f.v], f.r) = "RequireApproval"

\* apply_candidate_approval_claim
ApplyClaim(m, c, f) ==
  /\ Ends(m, "apply", c)
  /\ Authenticates(f)
  /\ Fingerprint(c, f.r, Revision) = f
  /\ EvaluationAdmits(m, c, call[m].seen)
  /\ \/ Effect(m, c, f.r) = "ALLOW" /\ Basis(m, f.r) = "RequireApproval"
     \/ \A r \in Resources : Basis(m, r) = "DenyEngineUnavailable"
  /\ RecordEvaluation(m, c)
  /\ UNCHANGED <<lease, backend, now, task, provider, service, input, policy, cand, used, lapsed, withdrawn>>

\* candidate_approval_prompt: what the owner is shown.
PromptShown(f) ==
  LET a == approval[f] IN
  /\ a.status \in {"PENDING", "APPROVED"} /\ now < a.expires /\ ~a.withdrawn
  /\ f.v = Revision
  /\ Loads(f.c) /\ task.state = "WAITING_FOR_AUTH"
  /\ Decide(policy[Revision], f.r) = "RequireApproval"

\* decide_candidate_approval: the checks.
DecisionAdmitted(m, f, p, seen) ==
  LET a == approval[f] IN
  /\ a.status = "PENDING" /\ p = Owner /\ ApprovalBinds(a)
  /\ f.v = Revision
  /\ Loads(f.c) /\ task.state = "WAITING_FOR_AUTH"
  /\ PinsCurrent(f.c, seen)
  /\ Basis(m, f.r) = "RequireApproval"
  /\ Fingerprint(f.c, f.r, Revision) = f

DecideApproval(m, f, p, approve) ==
  /\ Ends(m, "decide", f.c)
  /\ DecisionAdmitted(m, f, p, call[m].seen)
  /\ approval' = [approval EXCEPT ![f].status = IF approve THEN "APPROVED" ELSE "DENIED"]
  /\ UNCHANGED <<lease, backend, now, task, provider, service, input, policy, cand, decision, used,
                 lapsed, withdrawn>>

\* Fingerprints of the approvals a finalized candidate rests on.
RestsOn(c) == {f \in AllFingerprints : f.c = c /\ f.v = cand[c].revision /\ approval[f].status = "APPROVED"}

\* revoke_candidate_approval; a repetition changes nothing.
RevokeApproval(m, f, p) ==
  /\ Idle(m) /\ AssertManagerLease(m) /\ p = Owner
  /\ approval[f].status = "APPROVED" /\ ~approval[f].withdrawn
  /\ approval' = [approval EXCEPT ![f].withdrawn = TRUE]
  /\ withdrawn' = withdrawn \cup (IF f.c \in Finalized /\ f \in RestsOn(f.c) THEN {f.c} ELSE {})
  /\ UNCHANGED <<lease, call, backend, now, task, provider, service, input, policy, cand, decision, used, lapsed>>

-----------------------------------------------------------------------------
(* Finalization. *)

\* finalization_state_allows, candidate_plan_coherent
StateAllows(m) ==
  \/ task.state = "WAITING_FOR_AUTH"
  \/ /\ task.state = "PLANNING" /\ task.coherent
     /\ \A r \in Resources : Basis(m, r) = "Allow"

\* issue_candidate_grants_in: one ALLOW for each resource, and where it rests
\* on consent, a one-shot approval whose end bounds the grant.
GrantsIssuable(m, c) == \A r \in Resources : Effect(m, c, r) = "ALLOW"

ConsentBounds(m, c) ==
  \A r \in Resources : Basis(m, r) = "RequireApproval" => ApprovalBinds(approval[Fingerprint(c, r, Revision)])

\* insert_reserved_binding_in: the pins, the decisions and grants that cover
\* them, and the wiring of the node.
PinsInsertable(c) == provider.registered /\ ExportPinCurrent

WiringHolds(c) == ProgramDeclares(c)

\* exact_reserved_step_inputs
StepInputsExact == ArtifactsCurrent

FinalizationAdmits(m, c, seen) ==
  /\ EvaluationAdmits(m, c, seen)
  /\ StateAllows(m)
  /\ GrantsIssuable(m, c) /\ ConsentBounds(m, c)
  /\ PinsInsertable(c) /\ WiringHolds(c) /\ StepInputsExact

\* Evaluation, grants, binding, READY step, allocation, events and status in
\* one transaction.
Issued(m, c) == [cand[c] EXCEPT !.grants = "ACTIVE", !.revision = Revision, !.by = m]

Bound(row) == [row EXCEPT !.epoch = provider.epoch, !.state = "FINALIZED", !.step = "READY"]

Finalize(m, c) ==
  /\ Ends(m, "finalize", c)
  /\ FinalizationAdmits(m, c, call[m].seen)
  /\ RecordEvaluation(m, c)
  /\ cand' = [cand EXCEPT ![c] = Bound(Issued(m, c))]
  /\ UNCHANGED <<lease, backend, now, task, provider, service, input, policy, used, lapsed, withdrawn>>

-----------------------------------------------------------------------------
(* Launch: the READY step of the latest attempt is admitted to RUNNING. *)

\* coordinator_grant_policy_current
PolicyCurrent(c) == cand[c].revision = Revision

\* binding_grants_valid, the enablement marker: the registration is still in
\* the interval in which the binding was made.
EnablementCurrent(c) == provider.registered /\ provider.epoch = cand[c].epoch

\* binding_grants_valid, the binding row: provider, program, snapshot.
BindingCurrent(c) == provider.registered

ProgramValidated(c) == ProgramDeclares(c)

\* latest_conformance_evidence_id against the marker of the binding.
EvidenceLatest(c) == provider.evidence = cand[c].evidence

\* conformance_evidence_valid; evidence with an end date is not modelled.
EvidenceStands(c) == cand[c].evidence <= provider.evidence

\* verified_provider_receipt_and_compatibility, verified_provider_admission:
\* the receipt, the trust source it names and the trust that holds now.
ReceiptStands(c) == provider.source = cand[c].source

TrustStands(c) == provider.trusted

AdmissionStands(c) == ReceiptStands(c) /\ TrustStands(c)

\* approval_not_withdrawn
NotWithdrawn(c) == \A f \in RestsOn(c) : ~approval[f].withdrawn

\* Grants that rest on an approval or name an export are for one use.
OneShot(c, r) == r = Egress \/ \E f \in RestsOn(c) : f.r = r

\* binding_grants_valid: one active grant for each declared request, and
\* where it rests on an approval, an approval that has not expired.
RequestsCovered(c) == cand[c].grants = "ACTIVE"

Unspent(c) == \A r \in Resources : OneShot(c, r) => used[c][r] = 0

ConsentCurrent(c) == \A f \in RestsOn(c) : now < approval[f].expires

\* ready_coordinator_grants_valid_in: the latest attempt of the node.
LatestStep(c) ==
  /\ c \in Finalized
  /\ \A d \in Finalized : cand[d].program = cand[c].program => cand[d].attempt <= cand[c].attempt

\* admit_active_steps, in the transition to RUNNING.
Launch(m, c) ==
  /\ Idle(m) /\ AssertManagerLease(m) /\ cand[c].by = m
  /\ task.state = "RUNNABLE"
  /\ LatestStep(c) /\ cand[c].step = "READY"
  /\ PolicyCurrent(c)
  /\ ProgramValidated(c) /\ BindingCurrent(c) /\ EnablementCurrent(c)
  /\ EvidenceLatest(c) /\ EvidenceStands(c) /\ AdmissionStands(c)
  /\ RequestsCovered(c) /\ Unspent(c) /\ NotWithdrawn(c) /\ ConsentCurrent(c)
  /\ task' = [task EXCEPT !.state = "RUNNING"]
  /\ cand' = [cand EXCEPT ![c].step = "RUNNING"]
  /\ UNCHANGED <<lease, call, backend, now, provider, service, input, policy, approval, decision, used,
                 lapsed, withdrawn>>

-----------------------------------------------------------------------------
(* Use: an Artifact operation of the provider takes the grant of its request. *)

\* load_execution_authority
ExecutionLoads(c) ==
  /\ task.state \in {"RUNNABLE", "RUNNING"} /\ ProgramDeclares(c)
  /\ LatestStep(c)

Exhausted(c, r) == OneShot(c, r) /\ used[c][r] = 1

Available(c, r) == used[c][r] < IF OneShot(c, r) THEN 1 ELSE MaxUses

\* Mutant: only the status of an approval counts, not its withdrawal.
RuntimeValidByStatus(c) ==
  /\ PolicyCurrent(c) /\ RequestsCovered(c)
  /\ \A f \in RestsOn(c) : Exhausted(c, f.r) \/ now < approval[f].expires

\* binding_runtime_authority_valid: every grant of the binding stands; one
\* that is spent need not have an approval that still runs.
RuntimeValid(c) ==
  /\ PolicyCurrent(c) /\ RequestsCovered(c) /\ NotWithdrawn(c)
  /\ \A f \in RestsOn(c) : Exhausted(c, f.r) \/ now < approval[f].expires

\* operation_approval_current
OperationApproval(c, r) == \A f \in RestsOn(c) : f.r = r => now < approval[f].expires

\* exact_operation_grant
OperationGrant(c, r) == Available(c, r) /\ OperationApproval(c, r)

\* admit_operation_grant; the grant's own deadline is in GrantDeadlines, and
\* refuses the grants of an earlier session.
Use(m, c, r) ==
  /\ m \in 1..lease /\ AssertManagerLease(m) /\ cand[c].by = m
  /\ ExecutionLoads(c) /\ RuntimeValid(c) /\ OperationGrant(c, r)
  /\ used' = [used EXCEPT ![c][r] = @ + 1]
  /\ UNCHANGED <<lease, call, backend, now, task, provider, service, input, policy, cand, approval,
                 decision, lapsed, withdrawn>>

-----------------------------------------------------------------------------
(* Everything that may change under a candidate. *)

\* activate_local_authority_policy: the same payload is a new activation too.
ActivatePolicy(m, p) ==
  /\ Idle(m) /\ AssertManagerLease(m)
  /\ Revision < MaxRevision
  /\ policy' = Append(policy, p)
  /\ withdrawn' = withdrawn \cup Finalized
  /\ UNCHANGED <<lease, call, backend, now, task, provider, service, input, cand, approval, decision, used, lapsed>>

\* stop_local_policy_backend, restart_local_policy_backend
SwitchBackend(m) ==
  /\ m = lease /\ Idle(m)
  /\ backend' = [backend EXCEPT ![m] = ~@]
  /\ UNCHANGED <<lease, call, now, rows>>

\* register_trusted_export_service; a disabled service stays so.
RegisterService(m) ==
  /\ Idle(m) /\ AssertManagerLease(m) /\ service = Absent
  /\ service' = "READY"
  /\ UNCHANGED <<lease, call, backend, now, task, provider, input, policy, cand, approval, decision,
                 used, lapsed, withdrawn>>

\* disable_trusted_export_service
DisableService(m) ==
  /\ Idle(m) /\ AssertManagerLease(m) /\ service = "READY"
  /\ service' = "DISABLED"
  /\ UNCHANGED <<lease, call, backend, now, task, provider, input, policy, cand, approval, decision,
                 used, lapsed, withdrawn>>

\* The registry: suspension and enablement, evidence, trust (RegistryStore).
ChangeProvider(m) ==
  /\ m \in 1..lease /\ AssertManagerLease(m)
  /\ provider.changes < MaxChange
  /\ \E next \in {[provider EXCEPT !.registered = ~@, !.epoch = @ + 1],
                  [provider EXCEPT !.evidence = @ + 1],
                  [provider EXCEPT !.source = @ + 1, !.trusted = ~@]} :
       provider' = [next EXCEPT !.changes = @ + 1]
  /\ lapsed' = lapsed \cup Finalized
  /\ UNCHANGED <<lease, call, backend, now, task, service, input, policy, cand, approval, decision, used,
                 withdrawn>>

\* The Task moves along its graph (TaskTransitions); a cancellation revokes
\* its grants, and returning to PLANNING may activate another program.
MoveTask(m, to) ==
  /\ Idle(m) /\ AssertManagerLease(m)
  /\ to \in (Live \ {"RUNNING"}) \cup {"CANCELLED"} /\ AllowedTransition(task.state, to)
  /\ \E p \in {task.program} \cup (IF to = "PLANNING" THEN {task.program + 1} ELSE {}),
        k \in (IF to = "PLANNING" THEN BOOLEAN ELSE {task.coherent}) :
       /\ p <= MaxProgram
       /\ task' = [state |-> to, program |-> p, coherent |-> k]
       /\ withdrawn' = withdrawn \cup (IF p # task.program THEN Finalized ELSE {})
  /\ cand' = IF to = "CANCELLED"
             THEN [c \in Candidates |-> IF c \in Finalized THEN [cand[c] EXCEPT !.grants = "REVOKED"] ELSE cand[c]]
             ELSE cand
  /\ UNCHANGED <<lease, call, backend, now, provider, service, input, policy, approval, decision, used, lapsed>>

\* The input Artifact is found damaged, or another of its type is imported.
LoseInput ==
  /\ input
  /\ input' = FALSE
  /\ UNCHANGED <<lease, call, backend, now, task, provider, service, policy, cand, approval, decision,
                 used, lapsed, withdrawn>>

Tick ==
  /\ now < MaxTime
  /\ now' = now + 1
  /\ UNCHANGED <<lease, call, backend, rows>>

\* A successor claims the store and retires the unused authority of earlier
\* sessions (retire_obsolete_prepared_authority_startup); with possible
\* effects it refuses to start.
Claim(m) ==
  /\ m = lease + 1 /\ m <= Managers
  /\ LET prepared == task.state \in {"PLANNING", "WAITING_FOR_AUTH", "RUNNABLE"} /\ Finalized # {} IN
     /\ prepared => \A c \in Candidates, r \in Resources : used[c][r] = 0
     /\ cand' = [c \in Candidates |-> IF prepared /\ c \in Finalized
                                      THEN [cand[c] EXCEPT !.grants = "REVOKED"] ELSE cand[c]]
     /\ task' = IF prepared THEN [task EXCEPT !.state = "PLANNING"] ELSE task
  /\ lease' = m
  /\ withdrawn' = withdrawn \cup Finalized
  /\ UNCHANGED <<call, backend, now, provider, service, input, policy, approval, decision, used, lapsed>>

-----------------------------------------------------------------------------
Init ==
  /\ lease = 1
  /\ call = [m \in 1..Managers |-> NoCall]
  /\ backend = [m \in 1..Managers |-> TRUE]
  /\ now = 0
  /\ task = [state |-> "PLANNING", program |-> 1, coherent |-> TRUE]
  /\ provider = [registered |-> TRUE, trusted |-> TRUE, epoch |-> 1, evidence |-> 1, source |-> 1,
                 changes |-> 0]
  /\ service = Absent
  /\ input = TRUE
  /\ policy = <<>>
  /\ cand = [c \in Candidates |-> NoCandidate]
  /\ approval = [f \in AllFingerprints |-> NoApproval]
  /\ decision = {}
  /\ used = [c \in Candidates |-> [r \in Resources |-> 0]]
  /\ lapsed = {} /\ withdrawn = {}

Operations == {"reserve", "evaluate", "apply", "decide", "finalize"}

Next ==
  \/ \E m \in 1..Managers :
       \/ \E op \in Operations, c \in Candidates : Begin(m, op, c)
       \/ Give(m)
       \/ \E c \in Candidates : Reserve(m, c) \/ Evaluate(m, c) \/ Finalize(m, c) \/ Launch(m, c)
       \/ \E c \in Candidates, r \in Resources : Use(m, c, r)
       \/ \E c \in Candidates, f \in AllFingerprints : ApplyClaim(m, c, f)
       \/ \E f \in AllFingerprints, p \in Principals :
            \/ \E approve \in BOOLEAN : DecideApproval(m, f, p, approve)
            \/ RevokeApproval(m, f, p)
       \/ \E p \in Policies : ActivatePolicy(m, p)
       \/ SwitchBackend(m) \/ RegisterService(m) \/ DisableService(m) \/ ChangeProvider(m) \/ Claim(m)
       \/ \E to \in TaskState : MoveTask(m, to)
  \/ LoseInput
  \/ Tick

Spec == Init /\ [][Next]_vars

-----------------------------------------------------------------------------
TypeOK ==
  /\ lease \in 1..Managers /\ now \in 0..MaxTime
  /\ \A m \in 1..Managers : call[m] = NoCall \/ (call[m].op \in Operations /\ call[m].c \in Candidates)
  /\ backend \in [1..Managers -> BOOLEAN]
  /\ task.state \in Live \cup {"CANCELLED"} /\ task.program \in 1..MaxProgram
  /\ service \in {Absent, "READY", "DISABLED"} /\ input \in BOOLEAN
  /\ policy \in UNION {[1..n -> Policies] : n \in 0..MaxRevision}
  /\ \A c \in Candidates : /\ cand[c].state \in {Absent, "PENDING", "FINALIZED"}
                           /\ cand[c].attempt \in 0..Cardinality(Candidates)
  /\ \A f \in AllFingerprints : approval[f].status \in {Absent, "PENDING", "APPROVED", "DENIED"}
  /\ decision \subseteq [fp : AllFingerprints, effect : {"ALLOW", "DENY", "REQUIRE_APPROVAL"},
                        phase : {"initial", "approved", "approval-denied", "backend-unavailable"},
                        basis : {"Allow", "DenyDefault", "DenyPolicy", "DenyEngineUnavailable",
                                 "RequireApproval"}]
  /\ used \in [Candidates -> [Resources -> 0..MaxUses]]
  /\ lapsed \subseteq Candidates /\ withdrawn \subseteq Candidates

\* What the active policy and the owner say of a resource of a candidate, as
\* sets of rules and approvals and whatever the evaluator made of them.
Permitted(c, r) ==
  LET effects == {policy[Revision][i].effect : i \in {j \in DOMAIN policy[Revision] :
                                                       policy[Revision][j].resource = r}}
      a == approval[[c |-> c, r |-> r, v |-> Revision]] IN
  /\ effects # {} /\ "DENY" \notin effects
  /\ "REQUIRE_APPROVAL" \in effects =>
       a.status = "APPROVED" /\ ~a.withdrawn /\ now < a.expires

\* Authority is issued only on what holds at the moment of issue: no rule of
\* the active policy denies a resource, every resource that needs consent has
\* the owner's, given for this candidate under this very activation and
\* neither withdrawn nor lapsed, and the provider stands as it was pinned
\* (finalize_pending_authority_candidate, whose first reads are stale).
IssuedOnCurrentConsent ==
  \A c \in Candidates : cand[c].state = "PENDING" /\ cand'[c].state = "FINALIZED" =>
    /\ \A r \in Resources : Permitted(c, r)
    /\ provider.registered /\ provider.trusted
    /\ provider.evidence = cand[c].evidence /\ provider.source = cand[c].source

\* A step is launched only under authority of which nothing was ever taken
\* back: not its activation, an approval, the provider's enablement, evidence
\* or trust, the program or the session, whatever was restored later
\* (binding_grants_valid, admit_active_steps).
NoLaunchAfterTakeback ==
  \A c \in Candidates : cand[c].step = "READY" /\ cand'[c].step = "RUNNING" =>
    c \notin lapsed \cup withdrawn

\* Later operations do not look at the provider again, but once the policy, an
\* approval, the program or the session of a binding has ended they are
\* refused for good (binding_runtime_authority_valid, coordinator_grants_valid_in).
NoUseAfterWithdrawal ==
  \A c \in Candidates : used'[c] # used[c] => c \notin withdrawn

\* Attempts of a node are reserved in order but finalized in any; once one has
\* acted, an older one that is finalized late never does
\* (ready_coordinator_grants_valid_in).
NoOlderAttemptUsed ==
  \A c, d \in Candidates :
    used'[c] # used[c] /\ (\E r \in Resources : used[d][r] > 0) /\ cand[d].program = cand[c].program =>
      cand[d].attempt <= cand[c].attempt

\* What was taken back stays unused.
WithdrawnStaysUnused == NoLaunchAfterTakeback /\ NoUseAfterWithdrawal /\ NoOlderAttemptUsed

\* Consent takes effect: with every resource permitted, the facts current and
\* the evaluator running, finalization is admitted, whatever outages,
\* re-evaluations and activations were recorded before
\* (evaluate_pending_authority_candidate_in, the stored decisions).
ApprovedIsFinalizable ==
  \A c \in Candidates :
    /\ Revision > 0 /\ Loads(c) /\ PinsCurrent(c, Eligible)
    /\ backend[lease] /\ task.state = "WAITING_FOR_AUTH"
    /\ \A r \in Resources : Permitted(c, r)
    => FinalizationAdmits(lease, c, Eligible)

\* A prompt that is shown while its approval is pending can be answered by the
\* owner, unless the provider or the evaluator is gone
\* (candidate_approval_prompt against decide_candidate_approval).
PromptIsAnswerable ==
  \A f \in AllFingerprints :
    /\ PromptShown(f) /\ approval[f].status = "PENDING"
    /\ backend[lease] /\ PinsCurrent(f.c, Eligible)
    => DecisionAdmitted(lease, f, Owner, Eligible)
=============================================================================

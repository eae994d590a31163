-------------------------- MODULE TaskManagerProofs --------------------------
(***************************************************************************)
(* Proofs about TaskManager for any Tasks, plan nodes, attempts, revisions *)
(* and sessions.                                                           *)
(*                                                                         *)
(* 1. Exports.  That the store tells the truth about a destination is not  *)
(*    inductive: it rests on where export_artifact stands when the process *)
(*    dies.  ExportInv adds that link between the pipeline's position, the *)
(*    operation row and the destination, that the pipeline runs only in a  *)
(*    serving manager, so that startup never settles an operation that is  *)
(*    still in progress, and that a Task has at most one export at risk.   *)
(* 2. The invariant.  What closes the argument for the other properties    *)
(*    is, for the store, that a Task's state tells how much of what its    *)
(*    plan does can be open (its owner's exports may be open anywhere),    *)
(*    that a resolved row is of a closed subject, and that the inventory   *)
(*    of a Task in recovery covers what is open; for the process, what     *)
(*    each phase of startup has already seen to; and where an outcome of   *)
(*    unknown effect can be found although any handoff may fail.           *)
(* 3. The steps of a serving manager.  Most of them only close something,  *)
(*    which Calmer expresses: CalmStore and CalmPhase carry those.         *)
(*    Creation, transition, a finalized candidate and the admission of an  *)
(*    export open something and are proved conjunct by conjunct.           *)
(* 4. Crash, startup and recovery, and the theorems.                       *)
(***************************************************************************)
EXTENDS TaskManager, WellFoundedInduction, TLAPS

-----------------------------------------------------------------------------
(* 1. Exports.                                                             *)

-----------------------------------------------------------------------------
(* The inductive invariant. *)

\* What an attempt's operation row says of its destination.
Truthful(a) ==
  /\ a.op \in {"NONE", "FAILED"} => a.sink = "UNTOUCHED"
  /\ a.op = "SUCCEEDED" => a.sink = "COMPLETE"
  /\ a.op = "STARTED" /\ a.phase # "ARMED" => a.phase = "PRE" /\ a.sink = "UNTOUCHED"

\* An operation that may have had an effect nobody has settled.
Risky(a) == a.op = "UNKNOWN" \/ (a.op = "STARTED" /\ a.phase = "ARMED")

\* What the pipeline's position says of the attempt it works on.
Position(kind, a) ==
  /\ kind \in {"ADMITTED", "ARMED", "OPEN", "FINALIZED", "DISPOSED"} => a.op = "STARTED"
  /\ kind = "ADMITTED" => a.phase = "PRE"
  /\ kind \in {"ARMED", "OPEN", "FINALIZED", "DISPOSED"} => a.phase = "ARMED"
  /\ kind = "ARMED" => a.sink = "UNTOUCHED"
  /\ kind \in {"FINALIZED", "DISPOSED"} => a.sink = "COMPLETE"

InPipeline ==
  call.kind \in ExportKinds =>
    /\ mgr = "READY"
    /\ call.slot \in Slots
    /\ Position(call.kind, attempt[call.slot])

\* A Task has at most one export that may have had an effect, and none while
\* another one is admitted and not armed yet.
OneAtRisk ==
  /\ \A x, y \in Slots : x[1] = y[1] /\ Risky(attempt[x]) /\ Risky(attempt[y]) => x = y
  /\ call.kind = "ADMITTED" => \A y \in Slots : y[1] = call.slot[1] => ~Risky(attempt[y])

ExportInv ==
  /\ attempt \in [Slots -> AttemptRow]
  /\ session \in Nat
  /\ \A x \in Slots : Truthful(attempt[x])
  /\ InPipeline
  /\ OneAtRisk

\* An attempt that was not made has neither operation, result nor grants.
Blank ==
  \A x \in Slots : attempt[x].step = "ABSENT" =>
    /\ attempt[x].op = "NONE" /\ attempt[x].result = "NONE"
    /\ attempt[x].egress = "NONE" /\ attempt[x].write = "NONE"

-----------------------------------------------------------------------------
(* The newest attempt of a node. *)

\* A set of naturals has a least element.
LEMMA HasMin ==
  ASSUME NEW S \in SUBSET Nat, S # {}
  PROVE  \E m \in S : \A k \in S : m <= k
<1> DEFINE R == OpToRel(<, Nat)
<1>1. \A a, b \in Nat : a < b => <<a, b>> \in R
  BY DEF OpToRel
<1>2. IsWellFoundedOn(R, Nat)
  BY NatLessThanWellFounded
<1> HIDE DEF R
<1>3. PICK m \in S : \A k \in S : ~(<<k, m>> \in R)
  BY <1>2, WFMin
<1>4. \A k \in S : m <= k
  <2> TAKE k \in S
  <2>1. k \in Nat /\ m \in Nat
    OBVIOUS
  <2>2. ASSUME ~(m <= k) PROVE FALSE
    <3>1. k < m
      BY <2>1, <2>2
    <3>2. <<k, m>> \in R
      BY <1>1, <2>1, <3>1
    <3> QED BY <1>3, <3>2
  <2> QED BY <2>2
<1> QED BY <1>4

\* A bounded one has a greatest element.
LEMMA HasMax ==
  ASSUME NEW N \in Nat, NEW S \in SUBSET (0..N), S # {}
  PROVE  \E m \in S : \A k \in S : k <= m
<1> DEFINE D == {j \in Nat : \A k \in S : k <= j}
<1>1. D \in SUBSET Nat /\ N \in D
  OBVIOUS
<1>2. PICK d \in D : \A e \in D : d <= e
  BY <1>1, HasMin
<1>3. d \in S
  <2> SUFFICES ASSUME d \notin S PROVE FALSE
    OBVIOUS
  <2>1. \A k \in S : k \in Nat /\ k < d
    BY <1>2
  <2>2. d - 1 \in Nat
    <3>1. PICK k \in S : TRUE
      OBVIOUS
    <3> QED BY <3>1, <2>1, <1>2
  <2>3. \A k \in S : k <= d - 1
    BY <2>1, <1>2
  <2>4. d - 1 \in D
    BY <2>2, <2>3
  <2> QED BY <1>2, <2>4
<1> QED BY <1>2, <1>3

\* The newest attempt of a node exists, and every later one is absent.
LEMMA LatestIs ==
  ASSUME NEW t \in Tasks, NEW n \in Source
  PROVE  /\ Latest(t, n) \in 0..MaxAttempts
         /\ Latest(t, n) # 0 => attempt[<<t, n, Latest(t, n)>>].step # "ABSENT"
         /\ \A j \in (Latest(t, n) + 1)..MaxAttempts : attempt[<<t, n, j>>].step = "ABSENT"
<1> DEFINE P(k) == /\ k # 0 => attempt[<<t, n, k>>].step # "ABSENT"
                   /\ \A j \in (k + 1)..MaxAttempts : attempt[<<t, n, j>>].step = "ABSENT"
           S == {k \in 0..MaxAttempts : k # 0 => attempt[<<t, n, k>>].step # "ABSENT"}
<1>1. S \in SUBSET (0..MaxAttempts) /\ 0 \in S /\ MaxAttempts \in Nat
  BY StoreAssumption
<1>2. PICK m \in S : \A k \in S : k <= m
  <2>1. S # {}
    BY <1>1
  <2> HIDE DEF S
  <2> QED BY <1>1, <2>1, HasMax
<1>3. P(m)
  <2>1. \A j \in (m + 1)..MaxAttempts : j \in 0..MaxAttempts /\ j # 0 /\ ~(j <= m)
    BY <1>1, <1>2
  <2> QED BY <1>2, <2>1
<1>4. \E k \in 0..MaxAttempts : P(k)
  BY <1>2, <1>3
<1>5. Latest(t, n) = CHOOSE k \in 0..MaxAttempts : P(k)
  BY DEF Latest
<1> HIDE DEF P
<1>6. Latest(t, n) \in 0..MaxAttempts /\ P(Latest(t, n))
  BY <1>4, <1>5
<1> QED BY <1>6 DEF P

\* The next export of a Task's owner has a slot, which is free.
LEMMA OwnerSlot ==
  ASSUME NEW t \in Tasks, Latest(t, Owner) + 1 <= MaxAttempts
  PROVE  /\ <<t, Owner, Latest(t, Owner) + 1>> \in Slots
         /\ attempt[<<t, Owner, Latest(t, Owner) + 1>>].step = "ABSENT"
<1>1. Owner \in Source
  BY DEF Source
<1>2. /\ Latest(t, Owner) \in 0..MaxAttempts
      /\ \A j \in (Latest(t, Owner) + 1)..MaxAttempts : attempt[<<t, Owner, j>>].step = "ABSENT"
  BY <1>1, LatestIs
<1>3. /\ Latest(t, Owner) + 1 \in 1..MaxAttempts
      /\ Latest(t, Owner) + 1 \in (Latest(t, Owner) + 1)..MaxAttempts
  BY <1>2, StoreAssumption
<1> QED BY <1>1, <1>2, <1>3 DEF Slots

-----------------------------------------------------------------------------
(* Steps by what they do to the attempts. *)

\* Operation, receipt and destination of an attempt are as they were.
SameExport(a, b) == b.op = a.op /\ b.phase = a.phase /\ b.sink = a.sink

\* A step that touches no operation and moves no pipeline.
LEMMA QuietStep ==
  ASSUME ExportInv, attempt' \in [Slots -> AttemptRow],
         session' \in Nat,
         \A x \in Slots : SameExport(attempt[x], attempt'[x]),
         \/ UNCHANGED <<call, mgr>>
         \/ call'.kind \notin ExportKinds
  PROVE  ExportInv'
<1>1. \A x \in Slots : Risky(attempt'[x]) => Risky(attempt[x])
  BY DEF SameExport, Risky
<1>2. OneAtRisk'
  BY <1>1 DEF ExportInv, OneAtRisk, ExportKinds
<1> QED BY <1>2 DEF ExportInv, InPipeline, Truthful, Position, SameExport, ExportKinds

\* A step of the pipeline on the attempt x, to position k.
LEMMA PipelineStep ==
  ASSUME ExportInv, NEW x \in Slots, NEW a \in AttemptRow,
         attempt' = [attempt EXCEPT ![x] = a], Truthful(a), session' = session,
         \/ call'.kind \notin ExportKinds
         \/ mgr' = "READY" /\ call'.slot = x /\ Position(call'.kind, a),
         Risky(a) => Risky(attempt[x]) \/ (call.kind = "ADMITTED" /\ call.slot = x),
         call'.kind = "ADMITTED" => \A y \in Slots : y[1] = x[1] => ~Risky(attempt[y])
  PROVE  ExportInv'
<1>1. attempt \in [Slots -> AttemptRow] /\ OneAtRisk
  BY DEF ExportInv
<1>2. attempt'[x] = a /\ \A y \in Slots : y # x => attempt'[y] = attempt[y]
  BY <1>1
<1>3. \A y, z \in Slots : y[1] = z[1] /\ Risky(attempt'[y]) /\ Risky(attempt'[z]) => y = z
  BY <1>1, <1>2 DEF OneAtRisk
<1>4. call'.kind = "ADMITTED" => \A y \in Slots : y[1] = call'.slot[1] => ~Risky(attempt'[y])
  <2> SUFFICES ASSUME call'.kind = "ADMITTED", NEW y \in Slots, y[1] = call'.slot[1]
               PROVE  ~Risky(attempt'[y])
    OBVIOUS
  <2>1. call'.slot = x /\ a.phase = "PRE" /\ a.op = "STARTED"
    BY DEF ExportKinds, Position
  <2> QED BY <1>2, <2>1 DEF Risky
<1>5. OneAtRisk'
  BY <1>3, <1>4 DEF OneAtRisk
<1> QED BY <1>2, <1>5 DEF ExportInv, InPipeline

\* A step that leaves the attempts alone and ends outside the pipeline.
LEMMA IdleStep ==
  ASSUME ExportInv, UNCHANGED attempt, session' \in Nat,
         UNCHANGED <<call, mgr>> \/ call'.kind \notin ExportKinds
  PROVE  ExportInv'
<1>1. \A x \in Slots : SameExport(attempt[x], attempt'[x])
  BY DEF SameExport
<1> QED BY <1>1, QuietStep DEF ExportInv

\* A step that changes one attempt but nothing of its export.
LEMMA SideStep ==
  ASSUME ExportInv, NEW x, NEW a \in AttemptRow,
         x \in Slots => SameExport(attempt[x], a),
         attempt' = [attempt EXCEPT ![x] = a], UNCHANGED <<call, mgr, session>>
  PROVE  ExportInv'
<1>1. attempt' \in [Slots -> AttemptRow]
  BY DEF ExportInv
<1>2. \A y \in Slots : SameExport(attempt[y], attempt'[y])
  BY DEF ExportInv, SameExport
<1> QED BY <1>1, <1>2, QuietStep DEF ExportInv

\* Values the manager's process holds.
LEMMA CallKinds ==
  /\ Idle.kind \notin ExportKinds
  /\ \A ref : Enter(ref).kind \notin ExportKinds
  /\ \A t : Replan(t).kind \notin ExportKinds
  /\ \A k, x : At(k, x).kind = k /\ At(k, x).slot = x
BY DEF Idle, Enter, Replan, At, ExportKinds

\* Revoking grants leaves the export as it was.
LEMMA RevokedKeeps ==
  ASSUME NEW a \in AttemptRow
  PROVE  Revoked(a) \in AttemptRow /\ SameExport(a, Revoked(a))
BY DEF Revoked, AttemptRow, SameExport, GrantState

-----------------------------------------------------------------------------
(* The invariant is inductive, group of actions by group of actions. *)

\* Requests, authority, providers and time do not touch an operation row.
LEMMA LifecycleKeeps == ASSUME ExportInv, Lifecycle PROVE ExportInv'
<1>1. ASSUME NEW t \in Tasks,
             \/ CreateTask(t) \/ RequestApproval(t) \/ RecordVerification(t)
             \/ \E d \in {"APPROVED", "DENIED"} : DecideApproval(t, d)
      PROVE  ExportInv'
  BY <1>1, IdleStep DEF CreateTask, RequestApproval, RecordVerification, DecideApproval,
                        process, ExportInv
<1>2. ASSUME NEW t \in Tasks, NEW to \in TaskState, Transition(t, to) PROVE ExportInv'
  <2>1. attempt' = StepsAfter(t, to) /\ UNCHANGED <<call, mgr, session>>
    BY <1>2 DEF Transition, process
  <2>2. ASSUME NEW x \in Slots
        PROVE  attempt'[x] \in AttemptRow /\ SameExport(attempt[x], attempt'[x])
    <3>1. attempt[x] \in AttemptRow
      BY DEF ExportInv
    <3>2. attempt'[x] \in {[attempt[x] EXCEPT !.step = "RUNNING"], Revoked(attempt[x]), attempt[x]}
      BY <2>1 DEF StepsAfter
    <3>3. /\ [attempt[x] EXCEPT !.step = "RUNNING"] \in AttemptRow
          /\ SameExport(attempt[x], [attempt[x] EXCEPT !.step = "RUNNING"])
      BY <3>1 DEF AttemptRow, StepState, SameExport
    <3> QED BY <3>1, <3>2, <3>3, RevokedKeeps DEF SameExport
  <2>3. attempt' \in [Slots -> AttemptRow]
    BY <2>1, <2>2 DEF StepsAfter
  <2> QED BY <2>1, <2>2, <2>3, QuietStep DEF ExportInv
<1>3. ASSUME NEW t \in Tasks, NEW n \in Nodes, FinalizeCandidate(t, n) PROVE ExportInv'
  <2> DEFINE x == <<t, n, Latest(t, n) + 1>>
             a == [NoAttempt EXCEPT !.step = "READY", !.egress = "ACTIVE",
                                    !.write = "ACTIVE", !.session = session]
  <2>1. /\ attempt' = [attempt EXCEPT ![x] = a]
        /\ UNCHANGED <<call, mgr, session>> /\ call.kind \notin ExportKinds
    BY <1>3 DEF FinalizeCandidate, process, Serving, ExportKinds
  <2>2. a \in AttemptRow /\ Truthful(a) /\ ~Risky(a)
    BY DEF ExportInv, NoAttempt, AttemptRow, StepState, OpState, Phase, GrantState, Result,
           Sink, Truthful, Risky
  <2> HIDE DEF x, a
  <2>3. CASE x \in Slots
    BY <2>1, <2>2, <2>3, PipelineStep DEF ExportKinds
  <2>4. CASE x \notin Slots
    <3>1. attempt' = attempt
      BY <2>1, <2>4 DEF ExportInv
    <3> QED BY <2>1, <3>1, IdleStep DEF ExportInv
  <2> QED BY <2>3, <2>4
<1>4. ASSUME NEW x \in Slots, \/ \E r \in Result \ {"NONE"} : ProviderResult(x, r)
                              \/ CloseStep(x) \/ Lapse(x) \/ RetireGrants(x)
      PROVE  ExportInv'
  <2>1. UNCHANGED <<call, mgr, session>> /\ attempt[x] \in AttemptRow
    BY <1>4 DEF ProviderResult, CloseStep, Lapse, RetireGrants, process, ExportInv
  <2>2. PICK a \in AttemptRow : SameExport(attempt[x], a) /\ attempt' = [attempt EXCEPT ![x] = a]
    <3>1. CASE \E r \in Result \ {"NONE"} : ProviderResult(x, r)
      <4>1. PICK r \in Result : attempt' = [attempt EXCEPT ![x] = [attempt[x] EXCEPT !.result = r]]
        BY <3>1 DEF ProviderResult
      <4> QED BY <4>1, <2>1 DEF AttemptRow, SameExport
    <3>2. CASE CloseStep(x)
      <4>1. attempt' = [attempt EXCEPT ![x] = Closed(attempt[x])]
        BY <3>2 DEF CloseStep
      <4>2. Closed(attempt[x]) \in AttemptRow /\ SameExport(attempt[x], Closed(attempt[x]))
        BY <2>1 DEF Closed, AttemptRow, SameExport, StepState, GrantState
      <4> QED BY <4>1, <4>2
    <3>3. CASE Lapse(x)
      <4>1. attempt' = [attempt EXCEPT ![x] = [attempt[x] EXCEPT !.lapsed = TRUE]]
        BY <3>3 DEF Lapse
      <4> QED BY <4>1, <2>1 DEF AttemptRow, SameExport
    <3>4. CASE RetireGrants(x)
      <4>1. attempt' = [attempt EXCEPT ![x] = Revoked(attempt[x])]
        BY <3>4 DEF RetireGrants
      <4> QED BY <4>1, <2>1, RevokedKeeps
    <3> QED BY <1>4, <3>1, <3>2, <3>3, <3>4
  <2> QED BY <2>1, <2>2, SideStep
<1> QED BY <1>1, <1>2, <1>3, <1>4 DEF Lifecycle

\* Each transaction and each callback of export_artifact keeps row, position
\* and destination in step.
LEMMA ExportKeeps == ASSUME ExportInv, Blank, Export PROVE ExportInv'
<1> DEFINE c == call.slot
<1>0. ASSUME NEW t, ~UnsettledEffect(t), NEW y \in Slots, y[1] = t PROVE ~Risky(attempt[y])
  BY <1>0 DEF UnsettledEffect, AttemptsOf, Blank, Risky
<1>1. ASSUME NEW x \in Slots, AdmitExport(x) PROVE ExportInv'
  <2> DEFINE a == [attempt[x] EXCEPT !.op = "STARTED", !.phase = "PRE", !.egress = "CONSUMED"]
  <2>1. /\ attempt' = [attempt EXCEPT ![x] = a]
        /\ mgr' = "READY" /\ call' = At("ADMITTED", x) /\ session' = session
        /\ attempt[x].op = "NONE" /\ ~UnsettledEffect(x[1])
    BY <1>1 DEF AdmitExport, Serving, OnlyCall
  <2>2. attempt[x] \in AttemptRow /\ Truthful(attempt[x])
    BY DEF ExportInv
  <2>3. a \in AttemptRow /\ Truthful(a) /\ Position("ADMITTED", a) /\ ~Risky(a)
    BY <2>1, <2>2 DEF AttemptRow, OpState, Phase, GrantState, Truthful, Position, Risky
  <2> HIDE DEF a
  <2> QED BY <1>0, <2>1, <2>3, CallKinds, PipelineStep
<1>15. ASSUME NEW t \in Tasks, AdmitOwned(t) PROVE ExportInv'
  <2> DEFINE x == <<t, Owner, Latest(t, Owner) + 1>>
             a == [NoAttempt EXCEPT !.step = "OWNED", !.op = "STARTED", !.phase = "PRE",
                                    !.session = session]
  <2>1. /\ attempt' = [attempt EXCEPT ![x] = a]
        /\ mgr' = "READY" /\ call' = At("ADMITTED", x) /\ session' = session
        /\ x[3] <= MaxAttempts /\ ~UnsettledEffect(t) /\ x[1] = t
    BY <1>15 DEF AdmitOwned, Serving, OnlyCall
  <2>2. x \in Slots
    BY <2>1, OwnerSlot
  <2>3. a \in AttemptRow /\ Truthful(a) /\ Position("ADMITTED", a) /\ ~Risky(a)
    BY DEF ExportInv, NoAttempt, AttemptRow, StepState, OpState, Phase, GrantState, Result,
           Sink, Truthful, Position, Risky
  <2> HIDE DEF a, x
  <2> QED BY <1>0, <2>1, <2>2, <2>3, CallKinds, PipelineStep
<1>2. ASSUME NEW x \in Slots, RetryExport(x) PROVE ExportInv'
  <2>1. /\ UNCHANGED attempt /\ session' = session
        /\ mgr' = "READY" /\ call' = At("HANDOFF", x)
    BY <1>2 DEF RetryExport, OnlyCall, durable, Serving
  <2> QED BY <2>1, CallKinds DEF ExportInv, InPipeline, Position, OneAtRisk
<1>3. ASSUME NEW x \in Slots, AttestNoEffect(x) \/ RetireNoEffect(x) PROVE ExportInv'
  <2>1. UNCHANGED <<call, mgr, session>> /\ call.kind \notin ExportKinds
    BY <1>3 DEF AttestNoEffect, RetireNoEffect, Serving, process, ExportKinds
  <2>2. attempt[x] \in AttemptRow /\ Truthful(attempt[x])
    BY DEF ExportInv
  <2>3. CASE AttestNoEffect(x)
    <3> DEFINE a == [attempt[x] EXCEPT !.op = "FAILED", !.phase = "ATTESTED"]
    <3>1. attempt' = [attempt EXCEPT ![x] = a] /\ attempt[x].sink = "UNTOUCHED"
      BY <2>3 DEF AttestNoEffect
    <3>2. a \in AttemptRow /\ Truthful(a) /\ ~Risky(a)
      BY <2>2, <3>1 DEF AttemptRow, OpState, Phase, Truthful, Risky
    <3> HIDE DEF a
    <3> QED BY <2>1, <3>1, <3>2, PipelineStep DEF ExportKinds
  <2>4. CASE RetireNoEffect(x)
    <3> DEFINE a == [attempt[x] EXCEPT !.step = "FAILED"]
    <3>1. attempt' = [attempt EXCEPT ![x] = a]
      BY <2>4 DEF RetireNoEffect
    <3>2. a \in AttemptRow /\ SameExport(attempt[x], a)
      BY <2>2 DEF AttemptRow, StepState, SameExport
    <3> HIDE DEF a
    <3> QED BY <2>1, <3>1, <3>2, SideStep
  <2> QED BY <1>3, <2>3, <2>4
<1>4. ASSUME call.kind \in ExportKinds
      PROVE  /\ mgr = "READY" /\ c \in Slots /\ attempt[c] \in AttemptRow
             /\ Truthful(attempt[c]) /\ Position(call.kind, attempt[c])
             /\ call.kind \in {"ARMED", "OPEN", "FINALIZED", "DISPOSED"} => Risky(attempt[c])
  BY <1>4 DEF ExportInv, InPipeline, Position, Risky
<1>5. CASE ArmExport
  <2> DEFINE a == [attempt[c] EXCEPT !.phase = "ARMED"]
  <2>1. /\ call.kind = "ADMITTED" /\ attempt' = [attempt EXCEPT ![c] = a]
        /\ mgr' = mgr /\ call' = At("ARMED", c) /\ session' = session
    BY <1>5 DEF ArmExport, OnlyCall
  <2>2. a \in AttemptRow /\ Truthful(a) /\ Position("ARMED", a)
    BY <1>4, <2>1 DEF AttemptRow, Phase, Truthful, Position, ExportKinds
  <2> HIDE DEF a, c
  <2>3. /\ mgr' = "READY" /\ call'.kind = "ARMED" /\ call'.slot = c /\ c \in Slots
        /\ call.kind = "ADMITTED" /\ call.slot = c
    BY <1>4, <2>1, CallKinds DEF ExportKinds, c
  <2> QED BY <2>1, <2>2, <2>3, PipelineStep
<1>6. CASE AbortExport
  BY <1>6, CallKinds, IdleStep DEF AbortExport, OnlyCall, durable, ExportInv
<1>7. CASE DenyConstruction
  <2> DEFINE a == [attempt[c] EXCEPT !.op = "FAILED", !.phase = "UNOPENED"]
  <2>1. /\ call.kind = "ARMED" /\ attempt' = [attempt EXCEPT ![c] = a]
        /\ call' = Idle /\ session' = session
    BY <1>7 DEF DenyConstruction, OnlyCall
  <2>2. a \in AttemptRow /\ Truthful(a)
    BY <1>4, <2>1 DEF AttemptRow, OpState, Phase, Truthful, Position, ExportKinds
  <2>3. c \in Slots /\ Risky(attempt[c])
    BY <1>4, <2>1 DEF ExportKinds
  <2> HIDE DEF a, c
  <2> QED BY <2>1, <2>2, <2>3, CallKinds, PipelineStep DEF ExportKinds
<1>8. CASE OpenDestination
  <2>1. PICK seen \in {"UNTOUCHED", "PARTIAL"} :
          attempt' = [attempt EXCEPT ![c] = [attempt[c] EXCEPT !.sink = seen]]
    BY <1>8 DEF OpenDestination
  <2> DEFINE a == [attempt[c] EXCEPT !.sink = seen]
  <2>2. call.kind = "ARMED" /\ mgr' = mgr /\ call' = At("OPEN", c) /\ session' = session
    BY <1>8 DEF OpenDestination, OnlyCall
  <2>3. a \in AttemptRow /\ Truthful(a) /\ Position("OPEN", a)
    BY <1>4, <2>2 DEF AttemptRow, Sink, Truthful, Position, ExportKinds
  <2>4. attempt' = [attempt EXCEPT ![c] = a]
    BY <2>1
  <2> HIDE DEF a, c
  <2>5. /\ mgr' = "READY" /\ call'.kind = "OPEN" /\ call'.slot = c /\ c \in Slots
        /\ Risky(attempt[c])
    BY <1>4, <2>2, CallKinds DEF ExportKinds
  <2> QED BY <2>2, <2>3, <2>4, <2>5, PipelineStep
<1>9. CASE CopyChunk
  <2> DEFINE a == [attempt[c] EXCEPT !.sink = "PARTIAL"]
  <2>1. /\ call.kind = "OPEN" /\ attempt' = [attempt EXCEPT ![c] = a]
        /\ UNCHANGED <<call, mgr, session>> /\ call'.slot = c
    BY <1>9 DEF CopyChunk, process
  <2>2. a \in AttemptRow /\ Truthful(a) /\ Position("OPEN", a)
    BY <1>4, <2>1 DEF AttemptRow, Sink, Truthful, Position, ExportKinds
  <2>3. mgr' = "READY" /\ c \in Slots /\ Risky(attempt[c]) /\ call'.kind = "OPEN"
    BY <1>4, <2>1 DEF ExportKinds
  <2> HIDE DEF a, c
  <2> QED BY <2>1, <2>2, <2>3, PipelineStep
<1>10. CASE FinalizeDestination
  <2> DEFINE a == [attempt[c] EXCEPT !.sink = "COMPLETE"]
  <2>1. /\ call.kind = "OPEN" /\ attempt' = [attempt EXCEPT ![c] = a]
        /\ mgr' = mgr /\ call' = At("FINALIZED", c) /\ session' = session
    BY <1>10 DEF FinalizeDestination, OnlyCall
  <2>2. a \in AttemptRow /\ Truthful(a) /\ Position("FINALIZED", a)
    BY <1>4, <2>1 DEF AttemptRow, Sink, Truthful, Position, ExportKinds
  <2> HIDE DEF a, c
  <2>3. /\ mgr' = "READY" /\ call'.kind = "FINALIZED" /\ call'.slot = c /\ c \in Slots
        /\ Risky(attempt[c])
    BY <1>4, <2>1, CallKinds DEF ExportKinds
  <2> QED BY <2>1, <2>2, <2>3, PipelineStep
<1>11. CASE DisposeDestination
  <2>1. /\ call.kind = "FINALIZED" /\ UNCHANGED attempt
        /\ mgr' = mgr /\ call' = At("DISPOSED", c) /\ session' = session
    BY <1>11 DEF DisposeDestination, OnlyCall, durable
  <2>2. Position("DISPOSED", attempt[c])
    BY <1>4, <2>1 DEF Position, ExportKinds
  <2> HIDE DEF c
  <2> QED BY <1>4, <2>1, <2>2, CallKinds DEF ExportInv, InPipeline, OneAtRisk, ExportKinds
<1>12. CASE CompleteExport
  <2> DEFINE a == [attempt[c] EXCEPT !.op = "SUCCEEDED"]
  <2>1. /\ call.kind = "DISPOSED" /\ attempt' = [attempt EXCEPT ![c] = a]
        /\ call' = Idle /\ session' = session
    BY <1>12 DEF CompleteExport, OnlyCall
  <2>2. a \in AttemptRow /\ Truthful(a)
    BY <1>4, <2>1 DEF AttemptRow, OpState, Truthful, Position, ExportKinds
  <2>3. c \in Slots /\ Risky(attempt[c])
    BY <1>4, <2>1 DEF ExportKinds
  <2> HIDE DEF a, c
  <2> QED BY <2>1, <2>2, <2>3, CallKinds, PipelineStep DEF ExportKinds
<1>13. CASE FailUncertain
  <2> DEFINE a == [attempt[c] EXCEPT !.op = "UNKNOWN"]
  <2>1. /\ call.kind \in {"OPEN", "FINALIZED", "DISPOSED"} /\ attempt' = [attempt EXCEPT ![c] = a]
        /\ mgr' = mgr /\ call' = At("HANDOFF", c) /\ session' = session
    BY <1>13 DEF FailUncertain, OnlyCall
  <2>2. a \in AttemptRow /\ Truthful(a) /\ Position("HANDOFF", a)
    BY <1>4, <2>1 DEF AttemptRow, OpState, Truthful, Position, ExportKinds
  <2> HIDE DEF a, c
  <2>3. /\ mgr' = "READY" /\ call'.kind = "HANDOFF" /\ call'.slot = c /\ c \in Slots
        /\ Risky(attempt[c])
    BY <1>4, <2>1, CallKinds DEF ExportKinds
  <2> QED BY <2>1, <2>2, <2>3, PipelineStep
<1>16. CASE FailUnrecorded \/ HandoffFails
  BY <1>16, CallKinds, IdleStep DEF FailUnrecorded, HandoffFails, OnlyCall, durable, ExportInv
<1>14. CASE HandoffLive
  <2>1. UNCHANGED <<attempt, session>> /\ call'.kind \notin ExportKinds
    BY <1>14, CallKinds DEF HandoffLive
  <2> QED BY <2>1, IdleStep DEF ExportInv
<1> QED BY <1>1, <1>2, <1>3, <1>5, <1>6, <1>7, <1>8, <1>9, <1>10, <1>11, <1>12, <1>13, <1>14,
           <1>15, <1>16 DEF Export

\* Settling an interrupted export at startup is truthful.
LEMMA SettledTruthful ==
  ASSUME NEW a \in AttemptRow, Truthful(a)
  PROVE  /\ Settled(a) \in AttemptRow /\ Truthful(Settled(a))
         /\ Risky(Settled(a)) => Risky(a)
BY DEF Settled, AttemptRow, OpState, Truthful, Risky

\* Startup settles operations only where no pipeline runs.
LEMMA StartupKeeps == ASSUME ExportInv, Startup PROVE ExportInv'
<1>1. CASE SettleExports
  <2>1. /\ mgr = "EXPORTS" /\ UNCHANGED <<call, session>>
        /\ attempt' = [x \in Slots |-> Settled(attempt[x])]
    BY <1>1 DEF SettleExports
  <2>2. call'.kind \notin ExportKinds
    BY <2>1 DEF ExportInv, InPipeline
  <2>3. \A x \in Slots : /\ attempt'[x] \in AttemptRow /\ Truthful(attempt'[x])
                         /\ Risky(attempt'[x]) => Risky(attempt[x])
    BY <2>1, SettledTruthful DEF ExportInv
  <2>4. OneAtRisk'
    BY <2>2, <2>3 DEF ExportInv, OneAtRisk, ExportKinds
  <2> QED BY <2>1, <2>2, <2>3, <2>4 DEF ExportInv, InPipeline
<1>2. ASSUME NEW t \in Tasks, HandoffTask(t) \/ RecoverTask(t) \/ ReportTask(t)
      PROVE  ExportInv'
  <2>1. UNCHANGED <<attempt, session>> /\ (UNCHANGED <<call, mgr>> \/ call'.kind \notin ExportKinds)
    BY <1>2, CallKinds DEF HandoffTask, RecoverTask, ReportTask, BeginRecovery,
                           ReportInventory, Refuse, Visited, durable
  <2> QED BY <2>1, IdleStep DEF ExportInv
<1>3. ASSUME NEW t \in Tasks, RetireTask(t) PROVE ExportInv'
  <2>1. session' = session /\ call'.kind \notin ExportKinds
    BY <1>3, CallKinds DEF RetireTask, Refuse, Visited
  <2>2. CASE UNCHANGED attempt
    BY <2>1, <2>2, IdleStep DEF ExportInv
  <2>3. CASE attempt' = [x \in Slots |->
               IF x \in AttemptsOf(t) /\ attempt[x].session # session
               THEN Revoked(attempt[x]) ELSE attempt[x]]
    <3>1. \A x \in Slots : attempt'[x] \in AttemptRow /\ SameExport(attempt[x], attempt'[x])
      BY <2>3, RevokedKeeps DEF ExportInv, SameExport
    <3>2. attempt' \in [Slots -> AttemptRow]
      BY <2>3, <3>1
    <3> QED BY <2>1, <3>1, <3>2, QuietStep DEF ExportInv
  <2> QED BY <1>3, <2>2, <2>3 DEF RetireTask, Refuse, durable
<1>4. CASE HandoffDone \/ RetireDone \/ RecoverDone \/ ReportDone
  <2>1. UNCHANGED <<attempt, session>> /\ call'.kind \notin ExportKinds
    BY <1>4 DEF HandoffDone, RetireDone, RecoverDone, ReportDone, NextPhase, durable, ExportKinds
  <2> QED BY <2>1, IdleStep DEF ExportInv
<1>5. CASE ReplanTask
  <2>1. UNCHANGED <<attempt, session>> /\ call'.kind \notin ExportKinds
    BY <1>5, CallKinds DEF ReplanTask, Visited
  <2> QED BY <2>1, IdleStep DEF ExportInv
<1> QED BY <1>1, <1>2, <1>3, <1>4, <1>5 DEF Startup

\* Initially the invariant holds.
LEMMA InitExportInv == Init => ExportInv
BY DEF Init, ExportInv, InPipeline, Idle, ExportKinds, Truthful, NoAttempt, AttemptRow,
       StepState, OpState, Phase, GrantState, Result, Sink, OneAtRisk, Risky

\* Every step of the manager preserves the invariant.
LEMMA NextExportInv == ExportInv /\ Blank /\ [Next]_vars => ExportInv'
<1> SUFFICES ASSUME ExportInv, Blank, [Next]_vars PROVE ExportInv'
  OBVIOUS
<1>1. CASE EnterRecovering
  <2>1. UNCHANGED <<attempt, session>> /\ call'.kind \notin ExportKinds
    BY <1>1, CallKinds DEF EnterRecovering, Visited
  <2> QED BY <2>1, IdleStep DEF ExportInv
<1>2. ASSUME NEW r \in assessed, ReconcileSubject(r) PROVE ExportInv'
  <2>1. UNCHANGED <<call, mgr, session>>
    BY <1>2 DEF ReconcileSubject, process
  <2>2. CASE UNCHANGED attempt
    BY <2>1, <2>2, IdleStep DEF ExportInv
  <2>3. ASSUME NEW x, NEW v \in StepState, attempt' = [attempt EXCEPT ![x].step = v]
        PROVE  ExportInv'
    <3>1. \A y \in Slots : attempt'[y] \in AttemptRow /\ SameExport(attempt[y], attempt'[y])
      BY <2>3 DEF ExportInv, AttemptRow, SameExport
    <3>2. attempt' \in [Slots -> AttemptRow]
      BY <2>3, <3>1 DEF ExportInv
    <3> QED BY <2>1, <3>1, <3>2, QuietStep DEF ExportInv
  <2> QED BY <1>2, <2>2, <2>3 DEF ReconcileSubject, StepState
<1>3. CASE Crash
  BY <1>3, CallKinds, IdleStep DEF Crash, durable, ExportInv
<1>4. CASE Start
  <2>1. UNCHANGED <<attempt, call>> /\ session' \in Nat /\ mgr # "READY"
    BY <1>4 DEF Start, durable, ExportInv
  <2> QED BY <2>1, IdleStep DEF ExportInv, InPipeline
<1>5. CASE UNCHANGED vars
  BY <1>5, IdleStep DEF vars, ExportInv
<1> QED BY <1>1, <1>2, <1>3, <1>4, <1>5, LifecycleKeeps, ExportKeeps, StartupKeeps DEF Next

-----------------------------------------------------------------------------
(* 2. The invariant, and facts about the operators of the store.           *)

-----------------------------------------------------------------------------
(* Vocabulary. *)

\* The subject of kind k of an attempt is unresolved.
OpenKind(a, k) ==
  \/ k = "operation" /\ OpUnresolved(a)
  \/ k = "attempt" /\ a.step = "RUNNING"
  \/ k = "egress" /\ a.egress = "ACTIVE"
  \/ k = "write" /\ a.write = "ACTIVE"

\* No open operation and no running step; quiet when no grant is live either.
Finished(a) == ~OpUnresolved(a) /\ a.step # "RUNNING"
Quiet(a) == Finished(a) /\ a.egress # "ACTIVE" /\ a.write # "ACTIVE"
QuietTask(t) == \A x \in Slots : x[1] = t => Quiet(attempt[x])

\* The same of what the plan of the Task does, the owner's exports aside.
OfPlan(x) == x[2] # Owner
QuietPlan(t) == \A x \in Slots : x[1] = t /\ OfPlan(x) => Quiet(attempt[x])

\* The subject of kind k of the attempt has existed.
Begun(a, k) ==
  /\ a.step # "ABSENT"
  /\ k = "attempt" => a.step \notin {"READY", "OWNED"}
  /\ k = "operation" => a.op # "NONE"

\* The attempt a recovery subject of Task t speaks of.
SlotOf(t, s) == <<t, s[2], s[3]>>

\* States in which authority may be prepared but nothing runs, and states in
\* which nothing of the plan can be open at all.
Prepared == {"PLANNING", "WAITING_FOR_AUTH", "RUNNABLE"}
Still == {Absent, "CREATED", "WAITING_FOR_INPUT", "PAUSED", "FAILED", "CANCELLED",
          "ROLLING_BACK", "ROLLED_BACK"}

\* Where recover_startup refuses what it finds unresolved.
Scanned == {"RUNNABLE", "WAITING_FOR_INPUT", "WAITING_FOR_AUTH"}

\* Every subject of the inventory has an assessment row.
HasRows(ref) == \A s \in ref.ids : \E r \in assessed : r.ref = ref /\ r.subject = s

-----------------------------------------------------------------------------
(* The store. *)

\* No grant is from a session to come.
Issued == \A x \in Slots : attempt[x].session <= session

\* An owner's export is an operation and nothing else, and only the owner's are.
OwnedShape ==
  \A x \in Slots :
    /\ attempt[x].step = "OWNED" => ~OfPlan(x)
    /\ ~OfPlan(x) => /\ attempt[x].step \in {"ABSENT", "OWNED"}
                     /\ attempt[x].egress # "ACTIVE" /\ attempt[x].write # "ACTIVE"

\* A node gets a new attempt only after the older ones' operations are settled.
OlderSettled ==
  \A x, y \in Slots :
    x[1] = y[1] /\ x[2] = y[2] /\ OfPlan(x) /\ x[3] < y[3] /\ attempt[y].step # "ABSENT"
      => ~OpUnresolved(attempt[x])

\* How much of the execution of its plan a Task's state leaves open.
StatesTell ==
  \A x \in Slots : OfPlan(x) =>
    /\ task[x[1]].state \notin Executing \cup {"RECOVERING"} => Finished(attempt[x])
    /\ task[x[1]].state \in Still => Quiet(attempt[x])

\* A row is of its inventory, of this or an older revision, and of something
\* that has existed; a resolved one is of something closed.
RowsTell ==
  \A r \in assessed :
    LET a == attempt[SlotOf(r.ref.task, r.subject)] IN
    /\ r.subject \in r.ref.ids
    /\ r.ref.basis <= task[r.ref.task].revision
    /\ Begun(a, r.subject[1])
    /\ r.evidence = "RESOLVED" => ~OpenKind(a, r.subject[1])

\* The inventory of a Task in recovery is its own and covers what is open.
Covered ==
  \A t \in Tasks : task[t].state = "RECOVERING" =>
    /\ task[t].recovery \in RecoveryRef /\ task[t].recovery.task = t
    /\ \A s \in Subject : OpenKind(attempt[SlotOf(t, s)], s[1]) => s \in task[t].recovery.ids
    /\ HasRows(task[t].recovery)

\* A Task that does not exist has no revision.
Fresh == \A t \in Tasks : task[t].state = Absent => task[t].revision = 0

StoreInv ==
  /\ Fresh /\ Blank /\ Issued /\ OwnedShape /\ OlderSettled /\ StatesTell
  /\ RowsTell /\ Covered

-----------------------------------------------------------------------------
(* The process. *)

\* A starting process has issued no grant yet.
NewSession ==
  mgr \in Starting =>
    \A x \in Slots : attempt[x].step # "ABSENT" => attempt[x].session # session

\* After the first phase no operation is left STARTED.
NoneStarted == mgr \in Starting \ {"EXPORTS"} => \A x \in Slots : attempt[x].op # "STARTED"

\* What each phase has still to visit and what it has already made quiet.
RetirePhase ==
  mgr = "RETIRE" =>
    /\ \A t \in todo : task[t].state \in Prepared
    /\ \A t \in Tasks \ todo : task[t].state \in Prepared => QuietPlan(t)

RecoverPhase ==
  mgr = "RECOVER" =>
    /\ \A t \in todo : task[t].state \in Executing \cup Scanned
    /\ \A t \in Tasks : task[t].state \in Prepared => QuietPlan(t)
    /\ \A t \in Tasks \ todo : task[t].state \in Executing => QuietTask(t)

ReportPhase ==
  mgr = "REPORT" =>
    \A t \in Tasks :
      /\ task[t].state \in Prepared => QuietPlan(t)
      /\ task[t].state \in Executing => QuietTask(t)

\* Only a process that has been refused keeps the reason.
Accepted == mgr # "REFUSED" => refusal = "NONE"

PhaseInv ==
  /\ NewSession /\ NoneStarted /\ RetirePhase /\ RecoverPhase /\ ReportPhase
  /\ NoStaleAuthority /\ NeverStranded /\ Accepted

\* What an operation in progress may rely on between its transactions.
CallInv ==
  /\ call.kind \in ExportKinds \ {"HANDOFF"} => attempt[call.slot].session = session
  /\ call.kind = "ENTER" =>
       /\ mgr \in {"READY", "HANDOFF", "RECOVER"}
       /\ call.ref.task \in Tasks
       /\ task[call.ref.task].state \in Executing
       /\ call.ref = CurrentRef(call.ref.task)
       /\ HasRows(call.ref)
  /\ call.kind = "REPLAN" =>
       /\ mgr = "RETIRE"
       /\ call.ref.task \in Tasks
       /\ task[call.ref.task].state \in {"WAITING_FOR_AUTH", "RUNNABLE"}
       /\ QuietPlan(call.ref.task)

\* Where an unknown outcome can be found.  In a serving manager it is in
\* recovery, or of this session, whose handoff may have failed, or reported
\* for a Task that does not execute.  Startup reports the latter on its way,
\* before it looks at anything else.
UnknownHanded ==
  \A x \in Slots : attempt[x].op = "UNKNOWN" =>
    /\ mgr = "READY" =>
         \/ task[x[1]].state = "RECOVERING"
         \/ attempt[x].session = session
         \/ task[x[1]].state \notin Executing /\ Reported(x)
    /\ mgr \in Starting \ {"EXPORTS"} =>
         \/ task[x[1]].state \in Executing \cup {"RECOVERING"}
         \/ Reported(x)
         \/ mgr = "HANDOFF" /\ x[1] \in todo

\* Everything but the types and the export pipeline.
Duties == StoreInv /\ PhaseInv /\ CallInv /\ UnknownHanded

IInv == TypeOK /\ ExportInv /\ Duties

-----------------------------------------------------------------------------
(* Facts about the store's operators. *)

\* What is unresolved of a Task, attempt by attempt.
LEMMA UnresolvedIs ==
  ASSUME Blank, NEW t \in Tasks
  PROVE  /\ Unresolved(t) \subseteq Subject
         /\ \A s \in Subject : s \in Unresolved(t) <=> OpenKind(attempt[SlotOf(t, s)], s[1])
<1> DEFINE Of(x) ==
      LET a == attempt[x] IN
      (IF OpUnresolved(a) THEN {<<"operation", x[2], x[3]>>} ELSE {})
        \cup (IF a.step = "RUNNING" THEN {<<"attempt", x[2], x[3]>>} ELSE {})
        \cup (IF a.egress = "ACTIVE" THEN {<<"egress", x[2], x[3]>>} ELSE {})
        \cup (IF a.write = "ACTIVE" THEN {<<"write", x[2], x[3]>>} ELSE {})
<1>1. \A s : s \in Unresolved(t) <=> \E x \in AttemptsOf(t) : s \in Of(x)
  BY DEF Unresolved
<1>2. ASSUME NEW x \in Slots, NEW s
      PROVE  s \in Of(x) <=> /\ s \in Subject
                             /\ s[2] = x[2] /\ s[3] = x[3] /\ OpenKind(attempt[x], s[1])
  BY DEF Slots, Subject, OpenKind
<1>3. ASSUME NEW x \in Slots, NEW s, s \in Of(x)
      PROVE  attempt[x].step # "ABSENT"
  BY <1>3 DEF Blank, OpUnresolved
<1>4. ASSUME NEW s, s \in Unresolved(t)
      PROVE  s \in Subject /\ OpenKind(attempt[SlotOf(t, s)], s[1])
  <2>1. PICK x \in Slots : x[1] = t /\ s \in Of(x)
    BY <1>1, <1>4 DEF AttemptsOf
  <2>2. s \in Subject /\ s[2] = x[2] /\ s[3] = x[3] /\ OpenKind(attempt[x], s[1])
    BY <1>2, <2>1
  <2>3. SlotOf(t, s) = x
    BY <2>1, <2>2 DEF Slots, SlotOf
  <2> QED BY <2>2, <2>3
<1>5. ASSUME NEW s \in Subject, OpenKind(attempt[SlotOf(t, s)], s[1])
      PROVE  s \in Unresolved(t)
  <2>1. SlotOf(t, s) \in Slots /\ SlotOf(t, s)[1] = t /\ SlotOf(t, s)[2] = s[2]
        /\ SlotOf(t, s)[3] = s[3]
    BY DEF SlotOf, Slots, Subject
  <2>2. s \in Of(SlotOf(t, s))
    BY <1>2, <1>5, <2>1
  <2> QED BY <1>1, <1>3, <2>1, <2>2 DEF AttemptsOf
<1> QED BY <1>4, <1>5

\* The two containment facts the guards read.
LEMMA ContainedIs ==
  ASSUME Blank, NEW t \in Tasks
  PROVE  /\ Unresolved(t) = {} <=> QuietTask(t)
         /\ UnresolvedExecution(t) = {} <=>
              \A x \in Slots : x[1] = t => Finished(attempt[x])
<1>1. ASSUME NEW x \in Slots, x[1] = t, NEW k \in {"operation", "attempt", "egress", "write"},
             OpenKind(attempt[x], k)
      PROVE  <<k, x[2], x[3]>> \in Unresolved(t)
  <2> DEFINE s == <<k, x[2], x[3]>>
  <2>1. s \in Subject /\ SlotOf(t, s) = x /\ s[1] = k
    BY <1>1 DEF Subject, SlotOf, Slots
  <2> HIDE DEF s
  <2>2. s \in Unresolved(t)
    BY <1>1, <2>1, UnresolvedIs
  <2> QED BY <2>2 DEF s
<1>2. ASSUME NEW s \in Unresolved(t)
      PROVE  /\ s \in Subject /\ SlotOf(t, s) \in Slots /\ SlotOf(t, s)[1] = t
             /\ OpenKind(attempt[SlotOf(t, s)], s[1])
  <2>1. s \in Subject
    BY UnresolvedIs
  <2> QED BY <2>1, UnresolvedIs DEF SlotOf, Slots, Subject
<1>3. Unresolved(t) = {} => QuietTask(t)
  BY <1>1 DEF QuietTask, Quiet, Finished, OpenKind
<1>4. QuietTask(t) => Unresolved(t) = {}
  BY <1>2 DEF QuietTask, Quiet, Finished, OpenKind
<1>5. UnresolvedExecution(t) = {} => \A x \in Slots : x[1] = t => Finished(attempt[x])
  <2> SUFFICES ASSUME NEW x \in Slots, x[1] = t, ~Finished(attempt[x])
               PROVE  UnresolvedExecution(t) # {}
    OBVIOUS
  <2>1. PICK k \in {"operation", "attempt"} : OpenKind(attempt[x], k)
    BY DEF Finished, OpenKind
  <2>2. <<k, x[2], x[3]>> \in Unresolved(t)
    BY <1>1, <2>1
  <2> QED BY <2>2 DEF UnresolvedExecution
<1>6. (\A x \in Slots : x[1] = t => Finished(attempt[x])) => UnresolvedExecution(t) = {}
  <2> SUFFICES ASSUME NEW s \in Unresolved(t), s[1] \in {"operation", "attempt"}
               PROVE  \E x \in Slots : x[1] = t /\ ~Finished(attempt[x])
    BY DEF UnresolvedExecution
  <2>1. /\ SlotOf(t, s) \in Slots /\ SlotOf(t, s)[1] = t
        /\ OpenKind(attempt[SlotOf(t, s)], s[1])
    BY <1>2
  <2> QED BY <2>1 DEF Finished, OpenKind
<1> QED BY <1>3, <1>4, <1>5, <1>6

\* Rows speak of slots of their Task.
LEMMA RowSlot ==
  ASSUME TypeOK, NEW r \in assessed
  PROVE  /\ r \in AssessmentRow /\ r.ref \in RecoveryRef /\ r.ref.task \in Tasks
         /\ r.ref.basis \in Nat /\ r.subject \in Subject
         /\ SlotOf(r.ref.task, r.subject) \in Slots
         /\ SlotOf(r.ref.task, r.subject)[1] = r.ref.task
BY DEF TypeOK, AssessmentRow, RecoveryRef, Subject, SlotOf, Slots

\* A subject of a Task speaks of one of its slots.
LEMMA SubjectSlot ==
  ASSUME NEW t \in Tasks, NEW s \in Subject
  PROVE  SlotOf(t, s) \in Slots /\ SlotOf(t, s)[1] = t
BY DEF Subject, SlotOf, Slots

\* Every slot belongs to a Task.
LEMMA SlotTask == \A x \in Slots : x[1] \in Tasks /\ x[2] \in Source /\ x[3] \in 1..MaxAttempts
                                   /\ x = <<x[1], x[2], x[3]>>
BY DEF Slots

-----------------------------------------------------------------------------
(* Types. *)

\* The values the manager's process holds between transactions.
LEMMA CallTypes ==
  /\ Idle \in CallType
  /\ \A k \in ExportKinds, x \in Slots : At(k, x) \in CallType
  /\ \A ref \in RecoveryRef : Enter(ref) \in CallType
  /\ \A t \in Tasks : Replan(t) \in CallType
<1>1. \A t \in Tasks : [NoRef EXCEPT !.task = t] \in RecoveryRef
  BY DEF NoRef, RecoveryRef
<1> QED BY <1>1 DEF Idle, At, Enter, Replan, CallType, ExportKinds

\* An inventory and its rows are well formed.
LEMMA InventoryTypes ==
  ASSUME TypeOK, Blank, NEW t \in Tasks
  PROVE  CurrentRef(t) \in RecoveryRef /\ SubjectRows(t, CurrentRef(t)) \subseteq AssessmentRow
<1>1. task[t].revision \in Nat /\ Unresolved(t) \subseteq Subject
  BY UnresolvedIs DEF TypeOK, TaskRow
<1>2. CurrentRef(t) \in RecoveryRef
  BY <1>1 DEF CurrentRef, RecoveryRef
<1>3. ASSUME NEW s \in Unresolved(t) PROVE EvidenceOf(t, s) \in Evidence
  <2>1. s \in Subject /\ OpenKind(attempt[SlotOf(t, s)], s[1])
    BY UnresolvedIs
  <2>2. s[1] \in {"operation", "attempt", "egress", "write"}
    BY <2>1 DEF Subject
  <2> QED BY <2>1, <2>2 DEF EvidenceOf, OpenKind, OpUnresolved, SlotOf, Evidence
<1>4. ASSUME NEW r \in SubjectRows(t, CurrentRef(t)) PROVE r \in AssessmentRow
  <2>1. PICK s \in Unresolved(t) :
          r = [ref |-> CurrentRef(t), subject |-> s, evidence |-> EvidenceOf(t, s)]
    BY DEF SubjectRows
  <2> QED BY <1>1, <1>2, <1>3, <2>1 DEF AssessmentRow
<1> QED BY <1>2, <1>4

\* The Task rows the transitions write are well formed.
LEMMA TaskRowWrites ==
  ASSUME NEW row \in TaskRow, NEW to \in TaskState, NEW waiting \in Waiting
  PROVE  /\ row.revision + 1 \in Nat /\ row.waiting \in Waiting /\ row.planned \in BOOLEAN
         /\ \A rev \in Nat :
              /\ \A failure \in Failure, planned \in BOOLEAN :
                   [row EXCEPT !.state = to, !.revision = rev, !.waiting = waiting,
                               !.failure = failure, !.planned = planned] \in TaskRow
              /\ \A ref \in RecoveryRef \cup {NoRef} :
                   [row EXCEPT !.state = to, !.revision = rev, !.recovery = ref] \in TaskRow
              /\ [row EXCEPT !.state = to, !.revision = rev, !.waiting = waiting] \in TaskRow
<1>1. row.revision + 1 \in Nat /\ row.waiting \in Waiting /\ row.planned \in BOOLEAN
  BY DEF TaskRow
<1>2. ASSUME NEW rev \in Nat, NEW failure \in Failure, NEW planned \in BOOLEAN
      PROVE  [row EXCEPT !.state = to, !.revision = rev, !.waiting = waiting,
                         !.failure = failure, !.planned = planned] \in TaskRow
  BY DEF TaskRow
<1>3. ASSUME NEW rev \in Nat, NEW ref \in RecoveryRef \cup {NoRef}
      PROVE  [row EXCEPT !.state = to, !.revision = rev, !.recovery = ref] \in TaskRow
  BY DEF TaskRow
<1>4. ASSUME NEW rev \in Nat
      PROVE  [row EXCEPT !.state = to, !.revision = rev, !.waiting = waiting] \in TaskRow
  BY DEF TaskRow
<1> QED BY <1>1, <1>2, <1>3, <1>4

\* Exports, crashes, starts and resolutions move no Task, and of startup only
\* the replanning does.
LEMMA TaskStands ==
  ASSUME \/ Export \/ (Startup /\ ~ReplanTask) \/ Crash \/ Start
         \/ \E r \in assessed : ReconcileSubject(r)
  PROVE  UNCHANGED task
<1>1. ASSUME Export PROVE UNCHANGED task
  BY <1>1 DEF Export, AdmitExport, AdmitOwned, RetryExport, AttestNoEffect, RetireNoEffect,
       ArmExport, AbortExport, DenyConstruction, OpenDestination, CopyChunk, FinalizeDestination,
       DisposeDestination, CompleteExport, FailUncertain, FailUnrecorded, HandoffLive,
       HandoffFails, durable
<1>2. ASSUME Startup, ~ReplanTask PROVE UNCHANGED task
  BY <1>2 DEF Startup, SettleExports, HandoffTask, RetireTask, RecoverTask, ReportTask,
       HandoffDone, RetireDone, RecoverDone, ReportDone, NextPhase, BeginRecovery,
       ReportInventory, Refuse, durable
<1>3. ASSUME Crash \/ Start \/ \E r \in assessed : ReconcileSubject(r) PROVE UNCHANGED task
  BY <1>3 DEF Crash, Start, ReconcileSubject, durable
<1> QED BY <1>1, <1>2, <1>3

\* Task rows keep their type.
LEMMA TaskTyped == ASSUME TypeOK, Next PROVE task' \in [Tasks -> TaskRow]
<1>1. ASSUME UNCHANGED task PROVE task' \in [Tasks -> TaskRow]
  BY <1>1 DEF TypeOK
<1>2. ASSUME NEW t, NEW row, t \in Tasks => row \in TaskRow, task' = [task EXCEPT ![t] = row]
      PROVE  task' \in [Tasks -> TaskRow]
  BY <1>2 DEF TypeOK
<1>3. ASSUME NEW t \in Tasks PROVE task[t] \in TaskRow
  BY DEF TypeOK
<1>4. ASSUME NEW t \in Tasks, CreateTask(t) PROVE task' \in [Tasks -> TaskRow]
  <2>1. [NoTask EXCEPT !.state = "CREATED", !.revision = 1] \in TaskRow
    BY DEF NoTask, TaskRow, TaskState, Waiting, Approval, Failure
  <2> QED BY <1>2, <1>4, <2>1 DEF CreateTask
<1>5. ASSUME NEW t \in Tasks, NEW to \in TaskState, Transition(t, to)
      PROVE  task' \in [Tasks -> TaskRow]
  <2>1. PICK waiting \in Waiting, failure \in Failure :
          Move(t, to, waiting, failure,
               task[t].planned \/ (task[t].state = "CREATED" /\ to = "PLANNING"))
    BY <1>5 DEF Transition
  <2> DEFINE planned == task[t].planned \/ (task[t].state = "CREATED" /\ to = "PLANNING")
             row == [task[t] EXCEPT !.state = to, !.revision = task[t].revision + 1, !.waiting = waiting,
                                    !.failure = failure, !.planned = planned]
  <2>2. task' = [task EXCEPT ![t] = row]
    BY <2>1 DEF Move
  <2>3. task[t] \in TaskRow /\ planned \in BOOLEAN
    BY <1>3, TaskRowWrites DEF Waiting, TaskState
  <2> HIDE DEF planned
  <2>4. task[t].revision + 1 \in Nat
    BY <2>3, TaskRowWrites
  <2>5. \A rev \in Nat, b \in BOOLEAN :
          [task[t] EXCEPT !.state = to, !.revision = rev, !.waiting = waiting,
                          !.failure = failure, !.planned = b] \in TaskRow
    BY <2>3, TaskRowWrites
  <2>6. row \in TaskRow
    BY <2>3, <2>4, <2>5
  <2> HIDE DEF row
  <2> QED BY <1>2, <2>2, <2>6
<1>6. ASSUME NEW t \in Tasks, \/ RequestApproval(t)
                              \/ \E d \in {"APPROVED", "DENIED"} : DecideApproval(t, d)
                              \/ \E n \in Nodes : FinalizeCandidate(t, n)
      PROVE  task' \in [Tasks -> TaskRow]
  <2>1. PICK v \in Approval : task' = [task EXCEPT ![t].approval = v]
    BY <1>6 DEF RequestApproval, DecideApproval, FinalizeCandidate, Approval
  <2>2. [task[t] EXCEPT !.approval = v] \in TaskRow
    BY <1>3 DEF TaskRow
  <2> QED BY <1>2, <2>1, <2>2
<1>7. ASSUME NEW t \in Tasks, RecordVerification(t) PROVE task' \in [Tasks -> TaskRow]
  <2> DEFINE v == {<<n, Latest(t, n)>> : n \in Nodes}
  <2>1. v \subseteq Nodes \X (0..MaxAttempts)
    <3>1. \A n \in Nodes : Latest(t, n) \in 0..MaxAttempts
      BY LatestIs DEF Source
    <3> QED BY <3>1
  <2>2. task' = [task EXCEPT ![t].verified = v]
    BY <1>7 DEF RecordVerification
  <2> HIDE DEF v
  <2>3. [task[t] EXCEPT !.verified = v] \in TaskRow
    BY <1>3, <2>1 DEF TaskRow
  <2> QED BY <1>2, <2>2, <2>3
<1>8. CASE EnterRecovering
  <2> DEFINE t == call.ref.task
             row == [task[t] EXCEPT !.state = "RECOVERING", !.revision = task[t].revision + 1,
                                    !.recovery = call.ref]
  <2>1. task' = [task EXCEPT ![t] = row]
    BY <1>8 DEF EnterRecovering
  <2>2. call.ref \in RecoveryRef \cup {NoRef} /\ "RECOVERING" \in TaskState /\ "CLEAR" \in Waiting
    BY DEF TypeOK, CallType, TaskState, Waiting
  <2> HIDE DEF t
  <2>3. t \in Tasks => row \in TaskRow
    BY <1>3, <2>2, TaskRowWrites
  <2> HIDE DEF row
  <2> QED BY <1>2, <2>1, <2>3
<1>9. CASE ReplanTask
  <2> DEFINE t == call.ref.task
             w == IF task[t].state = "WAITING_FOR_AUTH" THEN "CLEAR" ELSE task[t].waiting
             row == [task[t] EXCEPT !.state = "PLANNING", !.revision = task[t].revision + 1, !.waiting = w]
  <2>1. task' = [task EXCEPT ![t] = row]
    BY <1>9 DEF ReplanTask
  <2>2. "PLANNING" \in TaskState /\ "CLEAR" \in Waiting
    BY DEF TaskState, Waiting
  <2> HIDE DEF t
  <2>3. t \in Tasks => w \in Waiting
    BY <1>3, <2>2, TaskRowWrites
  <2> HIDE DEF w
  <2>4. t \in Tasks => row \in TaskRow
    BY <1>3, <2>2, <2>3, TaskRowWrites
  <2> HIDE DEF row
  <2> QED BY <1>2, <2>1, <2>4
<1>10. ASSUME NEW x \in Slots, \/ \E r \in Result \ {"NONE"} : ProviderResult(x, r)
                               \/ CloseStep(x) \/ Lapse(x) \/ RetireGrants(x)
       PROVE  UNCHANGED task
  BY <1>10 DEF ProviderResult, CloseStep, Lapse, RetireGrants
<1>11. CASE Lifecycle
  BY <1>11, <1>1, <1>4, <1>5, <1>6, <1>7, <1>10 DEF Lifecycle
<1> QED BY <1>1, <1>8, <1>9, <1>11, TaskStands DEF Next

\* Assessment rows are added by an inventory and resolved one at a time.
LEMMA AssessedSteps ==
  ASSUME ExportInv, Next
  PROVE  \/ UNCHANGED assessed
         \/ \E r \in assessed : assessed' = Resolve(r)
         \/ \E t \in Tasks : PersistInventory(t, CurrentRef(t))
<1>1. CASE Lifecycle
  BY <1>1 DEF Lifecycle, CreateTask, Transition, RequestApproval, DecideApproval,
       FinalizeCandidate, RecordVerification, ProviderResult, CloseStep, Lapse, RetireGrants
<1>2. CASE HandoffLive
  <2>1. call.slot[1] \in Tasks
    BY <1>2, SlotTask DEF HandoffLive, ExportInv, InPipeline, ExportKinds
  <2> QED BY <1>2, <2>1 DEF HandoffLive
<1>3. ASSUME NEW x \in Slots, AttestNoEffect(x) PROVE \E r \in assessed : assessed' = Resolve(r)
  BY <1>3 DEF AttestNoEffect
<1>4. ASSUME Export, ~HandoffLive, ~\E x \in Slots : AttestNoEffect(x) PROVE UNCHANGED assessed
  BY <1>4 DEF Export, AdmitExport, AdmitOwned, RetryExport, RetireNoEffect, ArmExport,
       AbortExport, DenyConstruction, OpenDestination, CopyChunk, FinalizeDestination,
       DisposeDestination, CompleteExport, FailUncertain, FailUnrecorded, HandoffFails, durable
<1>5. CASE Startup
  BY <1>5 DEF Startup, SettleExports, HandoffTask, RetireTask, RecoverTask, ReportTask,
       HandoffDone, RetireDone, RecoverDone, ReportDone, NextPhase, BeginRecovery,
       ReportInventory, ReplanTask, Refuse, durable
<1>6. CASE EnterRecovering \/ Crash \/ Start \/ \E r \in assessed : ReconcileSubject(r)
  BY <1>6 DEF EnterRecovering, Crash, Start, ReconcileSubject, durable
<1> QED BY <1>1, <1>2, <1>3, <1>4, <1>5, <1>6 DEF Next

\* Assessment rows keep their type.
LEMMA AssessedTyped ==
  ASSUME TypeOK, Blank, ExportInv, Next
  PROVE  assessed' \subseteq AssessmentRow
<1>1. ASSUME NEW r \in assessed PROVE [r EXCEPT !.evidence = "RESOLVED"] \in AssessmentRow
  BY DEF TypeOK, AssessmentRow, Evidence
<1>2. assessed \subseteq AssessmentRow
  BY DEF TypeOK
<1> QED BY <1>1, <1>2, AssessedSteps, InventoryTypes DEF Resolve, PersistInventory

\* So does what the process holds.
LEMMA ProcessTyped ==
  ASSUME TypeOK, Blank, ExportInv, Next
  PROVE  /\ mgr' \in {"DOWN", "REFUSED", "READY"} \cup Starting
         /\ todo' \subseteq Tasks
         /\ call' \in CallType
         /\ session' \in 0..MaxSessions
         /\ refusal' \in {"NONE", "EVIDENCE_REUSED", "OBSOLETE_AUTHORITY_USED",
                          "UNRESOLVED_NOT_EXECUTING"}
<1> DEFINE Reasons == {"NONE", "EVIDENCE_REUSED", "OBSOLETE_AUTHORITY_USED",
                       "UNRESOLVED_NOT_EXECUTING"}
           Goal == /\ mgr' \in {"DOWN", "REFUSED", "READY"} \cup Starting
                   /\ todo' \subseteq Tasks
                   /\ call' \in CallType
                   /\ session' \in 0..MaxSessions
                   /\ refusal' \in Reasons
<1>1. /\ mgr \in {"DOWN", "REFUSED", "READY"} \cup Starting /\ todo \subseteq Tasks
      /\ call \in CallType /\ session \in 0..MaxSessions /\ refusal \in Reasons
  BY DEF TypeOK
<1>2. ASSUME UNCHANGED <<mgr, todo, session, refusal>>, call' \in CallType PROVE Goal
  BY <1>1, <1>2
<1>3. ASSUME UNCHANGED process PROVE Goal
  BY <1>1, <1>3 DEF process
<1>4. ASSUME NEW reason \in Reasons, Refuse(reason) PROVE Goal
  BY <1>1, <1>4, CallTypes DEF Refuse
<1>5. ASSUME NEW t, Visited(t), call' \in CallType PROVE Goal
  BY <1>1, <1>5 DEF Visited
<1>6. ASSUME NEW t \in Tasks, BeginRecovery(t) PROVE Goal
  BY <1>2, <1>4, <1>6, CallTypes, InventoryTypes DEF BeginRecovery
<1>7. ASSUME NEW t \in Tasks, ReportInventory(t) PROVE Goal
  BY <1>1, <1>4, <1>5, <1>7 DEF ReportInventory
<1>8. ASSUME NEW from, NEW to \in {"READY"} \cup Starting, NEW list, list \subseteq Tasks,
             NextPhase(from, to, list)
      PROVE  Goal
  BY <1>1, <1>8 DEF NextPhase
<1>9. CASE Lifecycle
  BY <1>3, <1>9 DEF Lifecycle, CreateTask, Transition, RequestApproval, DecideApproval,
       FinalizeCandidate, RecordVerification, ProviderResult, CloseStep, Lapse, RetireGrants
<1>10. CASE Export
  <2>1. ASSUME NEW k \in ExportKinds, NEW x \in Slots, OnlyCall(At(k, x)) PROVE Goal
    BY <1>2, <2>1, CallTypes DEF OnlyCall
  <2>2. ASSUME OnlyCall(Idle) PROVE Goal
    BY <1>2, <2>2, CallTypes DEF OnlyCall
  <2>3. call.kind \in ExportKinds => call.slot \in Slots /\ call.slot[1] \in Tasks
    BY SlotTask DEF ExportInv, InPipeline
  <2>4. CASE \E x \in Slots : AdmitExport(x) \/ RetryExport(x) \/ AttestNoEffect(x) \/ RetireNoEffect(x)
    BY <1>3, <2>1, <2>4
       DEF AdmitExport, RetryExport, AttestNoEffect, RetireNoEffect, ExportKinds
  <2>9. ASSUME NEW t \in Tasks, AdmitOwned(t) PROVE Goal
    <3>1. <<t, Owner, Latest(t, Owner) + 1>> \in Slots
      BY <2>9, OwnerSlot DEF AdmitOwned
    <3> QED BY <2>1, <2>9, <3>1 DEF AdmitOwned, ExportKinds
  <2>5. CASE HandoffLive
    <3>1. call' \in CallType
      BY <2>3, <2>5, CallTypes, InventoryTypes DEF HandoffLive, ExportKinds
    <3> QED BY <1>2, <2>5, <3>1 DEF HandoffLive
  <2>6. CASE CopyChunk
    BY <1>3, <2>6 DEF CopyChunk
  <2>7. CASE ArmExport \/ OpenDestination \/ FinalizeDestination \/ DisposeDestination \/ FailUncertain
    BY <2>1, <2>3, <2>7 DEF ArmExport, OpenDestination, FinalizeDestination,
       DisposeDestination, FailUncertain, ExportKinds
  <2>8. CASE AbortExport \/ DenyConstruction \/ CompleteExport \/ FailUnrecorded \/ HandoffFails
    BY <2>2, <2>8 DEF AbortExport, DenyConstruction, CompleteExport, FailUnrecorded, HandoffFails
  <2> QED BY <1>10, <2>4, <2>5, <2>6, <2>7, <2>8, <2>9 DEF Export
<1>11. CASE Startup
  <2>1. CASE SettleExports
    <3>1. todo' \subseteq Tasks
      BY <2>1, SlotTask DEF SettleExports
    <3> QED BY <1>1, <2>1, <3>1 DEF SettleExports, Starting
  <2>2. ASSUME NEW t \in Tasks, HandoffTask(t) PROVE Goal
    BY <1>1, <1>5, <1>6, <1>7, <2>2 DEF HandoffTask
  <2>3. ASSUME NEW t \in Tasks, RetireTask(t) PROVE Goal
    BY <1>2, <1>4, <1>5, <2>3, CallTypes DEF RetireTask
  <2>4. ASSUME NEW t \in Tasks, RecoverTask(t) PROVE Goal
    BY <1>1, <1>4, <1>5, <1>6, <2>4 DEF RecoverTask
  <2>5. ASSUME NEW t \in Tasks, ReportTask(t) PROVE Goal
    BY <1>7, <2>5 DEF ReportTask
  <2>6. CASE ReplanTask
    BY <1>5, <2>6, CallTypes DEF ReplanTask
  <2>7. CASE HandoffDone \/ RetireDone \/ RecoverDone \/ ReportDone
    <3>1. CASE HandoffDone
      BY <1>8, <3>1 DEF HandoffDone, Starting
    <3>2. CASE RetireDone
      BY <1>8, <3>2 DEF RetireDone, Starting
    <3>3. CASE RecoverDone
      BY <1>8, <3>3 DEF RecoverDone, Starting
    <3>4. CASE ReportDone
      BY <1>8, <3>4 DEF ReportDone
    <3> QED BY <2>7, <3>1, <3>2, <3>3, <3>4
  <2> QED BY <1>11, <2>1, <2>2, <2>3, <2>4, <2>5, <2>6, <2>7 DEF Startup
<1>12. CASE EnterRecovering
  BY <1>5, <1>12, CallTypes DEF EnterRecovering
<1>13. CASE Crash
  BY <1>1, <1>13, CallTypes DEF Crash
<1>14. CASE Start
  BY <1>1, <1>14, StoreAssumption DEF Start, Starting
<1>15. ASSUME NEW r \in assessed, ReconcileSubject(r) PROVE Goal
  BY <1>3, <1>15 DEF ReconcileSubject
<1> QED BY <1>9, <1>10, <1>11, <1>12, <1>13, <1>14, <1>15 DEF Next

\* Every step keeps the type invariant.
LEMMA TypesKept == ASSUME TypeOK, Blank, ExportInv, ExportInv', Next PROVE TypeOK'
BY TaskTyped, AssessedTyped, ProcessTyped DEF TypeOK, ExportInv

-----------------------------------------------------------------------------
(* 3. The steps of a serving manager.                                      *)

-----------------------------------------------------------------------------
(* Steps that only settle things. *)

\* From a to b an attempt may close and never opens.
Calmer(a, b) ==
  /\ b.session = a.session
  /\ b.step = "ABSENT" <=> a.step = "ABSENT"
  /\ a.step = "ABSENT" => b = a
  /\ b.step = "OWNED" <=> a.step = "OWNED"
  /\ b.step = "READY" => a.step = "READY"
  /\ b.step = "RUNNING" => a.step = "RUNNING"
  /\ b.op = "NONE" => a.op = "NONE"
  /\ b.op = "STARTED" => a.op = "STARTED"
  /\ b.op = "UNKNOWN" => a.op \in {"STARTED", "UNKNOWN"}
  /\ b.egress = "ACTIVE" => a.egress = "ACTIVE"
  /\ b.write = "ACTIVE" => a.write = "ACTIVE"

\* Every attempt changes calmly.
AllCalmer == \A x \in Slots : Calmer(attempt[x], attempt'[x])

\* No Task moves.
SameTasks ==
  \A t \in Tasks :
    /\ task'[t].state = task[t].state
    /\ task'[t].revision = task[t].revision
    /\ task'[t].recovery = task[t].recovery

\* The rows are the same but for resolutions, and those are of closed subjects.
RowsKept ==
  /\ \A r \in assessed : \E q \in assessed' : q.ref = r.ref /\ q.subject = r.subject
  /\ \A q \in assessed' : \E r \in assessed :
       /\ q.ref = r.ref /\ q.subject = r.subject
       /\ q.evidence = "RESOLVED" =>
            \/ r.evidence = "RESOLVED"
            \/ ~OpenKind(attempt'[SlotOf(q.ref.task, q.subject)], q.subject[1])

\* Calm is reflexive, and closing keeps what is closed.
LEMMA CalmFacts ==
  /\ \A a : Calmer(a, a)
  /\ \A a, b : Calmer(a, b) =>
       /\ Finished(a) => Finished(b)
       /\ Quiet(a) => Quiet(b)
       /\ OpUnresolved(b) => OpUnresolved(a)
       /\ \A k : OpenKind(b, k) => OpenKind(a, k)
       /\ \A k : Begun(a, k) => Begun(b, k)
BY DEF Calmer, Finished, Quiet, OpUnresolved, OpenKind, Begun

\* Resolving one row keeps the others.
LEMMA ResolveKeepsRows ==
  ASSUME TypeOK, NEW r \in assessed, assessed' = Resolve(r),
         ~OpenKind(attempt'[SlotOf(r.ref.task, r.subject)], r.subject[1])
  PROVE  RowsKept
<1> DEFINE n == [r EXCEPT !.evidence = "RESOLVED"]
<1>1. n.ref = r.ref /\ n.subject = r.subject
  BY RowSlot DEF AssessmentRow
<1>2. assessed' = (assessed \ {r}) \cup {n}
  BY DEF Resolve
<1> HIDE DEF n
<1>3. ASSUME NEW w \in assessed PROVE \E q \in assessed' : q.ref = w.ref /\ q.subject = w.subject
  BY <1>1, <1>2
<1>4. ASSUME NEW q \in assessed'
      PROVE  \E w \in assessed :
               /\ q.ref = w.ref /\ q.subject = w.subject
               /\ q.evidence = "RESOLVED" =>
                    \/ w.evidence = "RESOLVED"
                    \/ ~OpenKind(attempt'[SlotOf(q.ref.task, q.subject)], q.subject[1])
  <2>1. CASE q \in assessed
    BY <2>1
  <2>2. CASE q = n
    BY <1>1, <2>2
  <2> QED BY <1>2, <2>1, <2>2
<1> QED BY <1>3, <1>4 DEF RowsKept

\* A calm step keeps what the store promises.
LEMMA CalmStore ==
  ASSUME TypeOK, TypeOK', StoreInv, AllCalmer, SameTasks, session <= session',
         UNCHANGED assessed \/ RowsKept
  PROVE  StoreInv'
<1>1. RowsKept
  BY DEF RowsKept
<1>2. Fresh'
  BY DEF StoreInv, Fresh, SameTasks
<1>3. Blank'
  BY DEF StoreInv, Blank, AllCalmer, Calmer
<1>4. Issued'
  BY DEF StoreInv, Issued, AllCalmer, Calmer, TypeOK, AttemptRow
<1>9. OwnedShape'
  BY DEF StoreInv, OwnedShape, AllCalmer, Calmer
<1>5. OlderSettled'
  BY CalmFacts DEF StoreInv, OlderSettled, AllCalmer, Calmer
<1>6. StatesTell'
  BY CalmFacts, SlotTask DEF StoreInv, StatesTell, AllCalmer, SameTasks
<1>7. RowsTell'
  <2> SUFFICES ASSUME NEW q \in assessed'
               PROVE  LET a == attempt'[SlotOf(q.ref.task, q.subject)] IN
                      /\ q.subject \in q.ref.ids
                      /\ q.ref.basis <= task'[q.ref.task].revision
                      /\ Begun(a, q.subject[1])
                      /\ q.evidence = "RESOLVED" => ~OpenKind(a, q.subject[1])
    BY DEF RowsTell
  <2>1. PICK r \in assessed :
          /\ q.ref = r.ref /\ q.subject = r.subject
          /\ q.evidence = "RESOLVED" =>
               \/ r.evidence = "RESOLVED"
               \/ ~OpenKind(attempt'[SlotOf(q.ref.task, q.subject)], q.subject[1])
    BY <1>1 DEF RowsKept
  <2> DEFINE x == SlotOf(r.ref.task, r.subject)
  <2>2. r.ref.task \in Tasks /\ x \in Slots
    BY RowSlot
  <2>3. /\ r.subject \in r.ref.ids /\ r.ref.basis <= task[r.ref.task].revision
        /\ Begun(attempt[x], r.subject[1])
        /\ r.evidence = "RESOLVED" => ~OpenKind(attempt[x], r.subject[1])
    BY DEF StoreInv, RowsTell
  <2>4. Calmer(attempt[x], attempt'[x])
    BY <2>2 DEF AllCalmer
  <2> HIDE DEF x
  <2>5. /\ Begun(attempt'[x], r.subject[1])
        /\ OpenKind(attempt'[x], r.subject[1]) => OpenKind(attempt[x], r.subject[1])
    BY <2>3, <2>4, CalmFacts
  <2>6. task'[r.ref.task].revision = task[r.ref.task].revision
    BY <2>2 DEF SameTasks
  <2> QED BY <2>1, <2>3, <2>5, <2>6 DEF x
<1>8. Covered'
  <2> SUFFICES ASSUME NEW t \in Tasks, task'[t].state = "RECOVERING"
               PROVE  /\ task'[t].recovery \in RecoveryRef /\ task'[t].recovery.task = t
                      /\ \A s \in Subject :
                           OpenKind(attempt'[SlotOf(t, s)], s[1]) => s \in task'[t].recovery.ids
                      /\ HasRows(task[t].recovery)'
    BY DEF Covered
  <2>1. /\ task[t].state = "RECOVERING" /\ task'[t].recovery = task[t].recovery
    BY DEF SameTasks
  <2>2. /\ task[t].recovery \in RecoveryRef /\ task[t].recovery.task = t
        /\ \A s \in Subject :
             OpenKind(attempt[SlotOf(t, s)], s[1]) => s \in task[t].recovery.ids
        /\ HasRows(task[t].recovery)
    BY <2>1 DEF StoreInv, Covered
  <2>3. ASSUME NEW s \in Subject, OpenKind(attempt'[SlotOf(t, s)], s[1])
        PROVE  OpenKind(attempt[SlotOf(t, s)], s[1])
    BY <2>3, CalmFacts, SubjectSlot DEF AllCalmer
  <2>4. HasRows(task[t].recovery)'
    BY <1>1, <2>1, <2>2 DEF HasRows, RowsKept
  <2> QED BY <2>1, <2>2, <2>3, <2>4
<1> QED BY <1>2, <1>3, <1>4, <1>5, <1>6, <1>7, <1>8, <1>9 DEF StoreInv

\* A calm step of one phase keeps what the phase promises.
LEMMA CalmPhase ==
  ASSUME TypeOK, PhaseInv, AllCalmer, SameTasks, UNCHANGED <<mgr, todo, session, refusal>>,
         mgr # "REFUSED" \/ \A x \in Slots : attempt'[x].op = attempt[x].op
  PROVE  PhaseInv'
<1>1. ASSUME NEW t \in Tasks
      PROVE  (QuietTask(t) => QuietTask(t)') /\ (QuietPlan(t) => QuietPlan(t)')
  BY CalmFacts DEF QuietTask, QuietPlan, AllCalmer
<1>2. NewSession'
  BY DEF PhaseInv, NewSession, AllCalmer, Calmer
<1>3. NoneStarted'
  BY DEF PhaseInv, NoneStarted, AllCalmer, Calmer
<1>4. todo \subseteq Tasks
  BY DEF TypeOK
<1>5. RetirePhase' /\ RecoverPhase' /\ ReportPhase'
  BY <1>1, <1>4 DEF PhaseInv, RetirePhase, RecoverPhase, ReportPhase, SameTasks
<1>6. NoStaleAuthority'
  BY SlotTask DEF PhaseInv, NoStaleAuthority, AllCalmer, Calmer, SameTasks
<1>7. NeverStranded' /\ Accepted'
  BY SlotTask DEF PhaseInv, NeverStranded, Accepted, SameTasks
<1> QED BY <1>2, <1>3, <1>5, <1>6, <1>7 DEF PhaseInv

\* What is reported stays reported.
LEMMA ReportedKept ==
  ASSUME UNCHANGED assessed \/ RowsKept \/ assessed \subseteq assessed'
  PROVE  \A x \in Slots : Reported(x) => Reported(x)'
BY DEF Reported, RowsKept

\* A calm step keeps the unknown outcomes where they are.
LEMMA CalmUnknown ==
  ASSUME PhaseInv, UnknownHanded, AllCalmer, SameTasks, UNCHANGED <<mgr, session>>,
         mgr = "HANDOFF" => UNCHANGED todo,
         mgr = "READY" => \A x \in Slots : attempt'[x].op = "UNKNOWN" => attempt[x].op = "UNKNOWN",
         UNCHANGED assessed \/ RowsKept \/ assessed \subseteq assessed'
  PROVE  UnknownHanded'
<1> SUFFICES ASSUME NEW x \in Slots, attempt'[x].op = "UNKNOWN"
             PROVE  /\ mgr = "READY" =>
                         \/ task'[x[1]].state = "RECOVERING"
                         \/ attempt'[x].session = session
                         \/ task'[x[1]].state \notin Executing /\ Reported(x)'
                    /\ mgr \in Starting \ {"EXPORTS"} =>
                         \/ task'[x[1]].state \in Executing \cup {"RECOVERING"}
                         \/ Reported(x)'
                         \/ mgr = "HANDOFF" /\ x[1] \in todo'
  BY DEF UnknownHanded
<1>1. Reported(x) => Reported(x)'
  BY ReportedKept
<1>2. task'[x[1]].state = task[x[1]].state /\ attempt'[x].session = attempt[x].session
  BY SlotTask DEF SameTasks, AllCalmer, Calmer
<1>3. mgr \in {"READY"} \cup (Starting \ {"EXPORTS"}) => attempt[x].op = "UNKNOWN"
  BY DEF AllCalmer, Calmer, PhaseInv, NoneStarted
<1> HIDE DEF UnknownHanded
<1>4. CASE mgr = "READY"
  BY <1>1, <1>2, <1>3, <1>4 DEF UnknownHanded, Starting
<1>5. CASE mgr \in Starting \ {"EXPORTS"}
  BY <1>1, <1>2, <1>3, <1>5 DEF UnknownHanded, Starting
<1> QED BY <1>4, <1>5

-----------------------------------------------------------------------------
(* The serving manager. *)

\* A transaction of the serving manager that settles something.
LEMMA ServingCalm ==
  ASSUME IInv, TypeOK', Serving, AllCalmer, SameTasks, UNCHANGED process,
         \A x \in Slots : attempt'[x].op = "UNKNOWN" => attempt[x].op = "UNKNOWN",
         UNCHANGED assessed \/ RowsKept
  PROVE  Duties'
<1>1. StoreInv'
  <2>1. session <= session'
    BY DEF process, IInv, TypeOK
  <2> QED BY <2>1, CalmStore DEF IInv, Duties
<1>2. PhaseInv'
  BY CalmPhase DEF IInv, Duties, process, Serving
<1>3. CallInv'
  BY DEF CallInv, Serving, process, ExportKinds
<1>4. UnknownHanded'
  BY CalmUnknown DEF IInv, Duties, Serving, process
<1> QED BY <1>1, <1>2, <1>3, <1>4 DEF Duties

\* Requests that change neither state nor revision.
LEMMA ServingTaskStep ==
  ASSUME IInv, TypeOK', NEW t \in Tasks,
         \/ RequestApproval(t) \/ RecordVerification(t)
         \/ \E d \in {"APPROVED", "DENIED"} : DecideApproval(t, d)
  PROVE  Duties'
<1>1. Serving /\ UNCHANGED <<attempt, assessed>> /\ UNCHANGED process
  BY DEF RequestApproval, RecordVerification, DecideApproval
<1>2. SameTasks
  <2>1. task \in [Tasks -> TaskRow]
    BY DEF IInv, TypeOK
  <2>2. \/ \E v : task' = [task EXCEPT ![t].approval = v]
        \/ \E v : task' = [task EXCEPT ![t].verified = v]
    BY DEF RequestApproval, RecordVerification, DecideApproval
  <2> QED BY <2>1, <2>2 DEF SameTasks, TaskRow
<1>3. AllCalmer
  BY <1>1, CalmFacts DEF AllCalmer
<1> QED BY <1>1, <1>2, <1>3, ServingCalm

\* One attempt changes, calmly.
LEMMA OneCalmer ==
  ASSUME TypeOK, NEW x, NEW a, x \in Slots => Calmer(attempt[x], a),
         attempt' = [attempt EXCEPT ![x] = a]
  PROVE  AllCalmer
BY CalmFacts DEF AllCalmer, TypeOK

\* The rows of an attempt after the steps of providers, of the authority
\* service and of the coordinator.
LEMMA CalmWrites ==
  ASSUME NEW a \in AttemptRow
  PROVE  /\ \A r : Calmer(a, [a EXCEPT !.result = r]) \/ a.step = "ABSENT"
         /\ Calmer(a, [a EXCEPT !.lapsed = TRUE]) \/ a.step = "ABSENT"
         /\ Calmer(a, [a EXCEPT !.step = "SUCCEEDED"]) \/ a.step \in {"ABSENT", "OWNED"}
         /\ Calmer(a, [a EXCEPT !.step = "FAILED"]) \/ a.step \in {"ABSENT", "OWNED"}
         /\ Calmer(a, Closed(a)) \/ a.step \in {"ABSENT", "OWNED"}
         /\ Calmer(a, Revoked(a)) \/ a.step = "ABSENT"
         /\ \A r : [a EXCEPT !.result = r].op = a.op
         /\ Closed(a).op = a.op /\ Revoked(a).op = a.op
         /\ \A s : [a EXCEPT !.step = s].op = a.op
BY DEF Calmer, AttemptRow, Closed, Revoked

\* Results, closed steps and retired grants.
LEMMA ServingAttemptStep ==
  ASSUME IInv, TypeOK', NEW x \in Slots,
         \/ \E r \in Result \ {"NONE"} : ProviderResult(x, r)
         \/ CloseStep(x) \/ RetireGrants(x) \/ RetireNoEffect(x)
  PROVE  Duties'
<1> DEFINE a == attempt[x]
<1>1. /\ Serving /\ UNCHANGED <<task, assessed>> /\ UNCHANGED process
  BY DEF ProviderResult, CloseStep, RetireGrants, RetireNoEffect
<1>2. a \in AttemptRow
  BY DEF IInv, TypeOK
<1>3. a.step # "ABSENT" /\ (CloseStep(x) \/ RetireNoEffect(x) => a.step # "OWNED")
  BY <1>2 DEF ProviderResult, CloseStep, RetireGrants, RetireNoEffect, IInv, Duties, StoreInv, Blank
<1>4. PICK b : Calmer(a, b) /\ b.op = a.op /\ attempt' = [attempt EXCEPT ![x] = b]
  <2>1. CASE \E r \in Result \ {"NONE"} : ProviderResult(x, r)
    <3>1. PICK r : attempt' = [attempt EXCEPT ![x] = [a EXCEPT !.result = r]]
      BY <2>1 DEF ProviderResult
    <3> QED BY <1>2, <1>3, <3>1, CalmWrites
  <2>2. CASE CloseStep(x)
    BY <1>2, <1>3, <2>2, CalmWrites DEF CloseStep
  <2>3. CASE RetireGrants(x)
    BY <1>2, <1>3, <2>3, CalmWrites DEF RetireGrants
  <2>4. CASE RetireNoEffect(x)
    BY <1>2, <1>3, <2>4, CalmWrites DEF RetireNoEffect
  <2> QED BY <2>1, <2>2, <2>3, <2>4
<1>5. AllCalmer
  BY <1>4, OneCalmer DEF IInv
<1>6. \A y \in Slots : attempt'[y].op = attempt[y].op
  BY <1>4 DEF IInv, TypeOK
<1>7. SameTasks
  BY <1>1 DEF SameTasks
<1> QED BY <1>1, <1>5, <1>6, <1>7, ServingCalm

\* Resolving a subject of an inventory, by its own record.
LEMMA ReconcileStep ==
  ASSUME IInv, TypeOK', NEW r \in assessed, ReconcileSubject(r)
  PROVE  Duties'
<1> DEFINE x == SlotOf(r.ref.task, r.subject)
           a == attempt[x]
           k == r.subject[1]
<1>1. /\ Serving /\ UNCHANGED task /\ UNCHANGED process
      /\ assessed' = Resolve(r) /\ Resolvable(r.ref.task, r.subject)
  BY DEF ReconcileSubject
<1>2. x \in Slots /\ a \in AttemptRow /\ r.subject \in Subject /\ attempt \in [Slots -> AttemptRow]
  BY RowSlot DEF IInv, TypeOK
<1>3. Begun(a, k) /\ k \in {"operation", "attempt", "egress", "write"}
  BY <1>2 DEF IInv, Duties, StoreInv, RowsTell, Subject
<1>4. CASE k # "attempt"
  <2>1. UNCHANGED attempt
    BY <1>4 DEF ReconcileSubject
  <2>2. ~OpenKind(attempt'[x], k)
    BY <1>1, <1>3, <1>4, <2>1 DEF Resolvable, OpenKind, OpUnresolved, SlotOf
  <2>3. RowsKept
    BY <1>1, <2>2, ResolveKeepsRows DEF IInv
  <2>4. AllCalmer /\ SameTasks
    BY <1>1, <2>1, CalmFacts DEF AllCalmer, SameTasks
  <2> QED BY <1>1, <2>1, <2>3, <2>4, ServingCalm
<1>5. CASE k = "attempt"
  <2>1. PICK b \in {[a EXCEPT !.step = "SUCCEEDED"], [a EXCEPT !.step = "FAILED"]} :
          attempt' = [attempt EXCEPT ![x] = b]
    BY <1>5 DEF ReconcileSubject, SlotOf
  <2>2. Calmer(a, b) /\ b.op = a.op
    <3>1. a.step \notin {"ABSENT", "OWNED"}
      BY <1>3, <1>5 DEF Begun
    <3> HIDE DEF a
    <3>2. CASE b = [a EXCEPT !.step = "SUCCEEDED"]
      BY <1>2, <3>1, <3>2, CalmWrites
    <3>3. CASE b = [a EXCEPT !.step = "FAILED"]
      BY <1>2, <3>1, <3>3, CalmWrites
    <3> QED BY <2>1, <3>2, <3>3
  <2>3. ~OpenKind(b, "attempt")
    BY <1>2, <2>1 DEF OpenKind, AttemptRow
  <2>4. attempt'[x] = b
    BY <1>2, <2>1
  <2>5. RowsKept
    BY <1>1, <1>5, <2>3, <2>4, ResolveKeepsRows DEF IInv
  <2>6. AllCalmer
    BY <2>1, <2>2, OneCalmer DEF IInv
  <2>7. \A y \in Slots : attempt'[y].op = attempt[y].op
    BY <1>2, <2>1, <2>2
  <2>8. SameTasks
    BY <1>1 DEF SameTasks
  <2> QED BY <1>1, <2>5, <2>6, <2>7, <2>8, ServingCalm
<1> QED BY <1>4, <1>5

\* Settling an unknown outcome as having had no effect.
LEMMA AttestStep ==
  ASSUME IInv, TypeOK', NEW x \in Slots, AttestNoEffect(x)
  PROVE  Duties'
<1> DEFINE t == x[1]
           s == <<"operation", x[2], x[3]>>
           a == attempt[x]
           b == [a EXCEPT !.op = "FAILED", !.phase = "ATTESTED"]
<1>1. /\ Serving /\ UNCHANGED task /\ UNCHANGED process
      /\ a.op = "UNKNOWN" /\ attempt' = [attempt EXCEPT ![x] = b]
  BY DEF AttestNoEffect
<1>2. PICK r \in assessed : r.ref.task = t /\ r.subject = s /\ assessed' = Resolve(r)
  BY DEF AttestNoEffect
<1>3. a \in AttemptRow /\ attempt \in [Slots -> AttemptRow] /\ a.step # "ABSENT" /\ t \in Tasks
  BY <1>1, SlotTask DEF IInv, TypeOK, Duties, StoreInv, Blank
<1>4. Calmer(a, b) /\ b.op = "FAILED"
  BY <1>1, <1>3 DEF Calmer, AttemptRow
<1>5. attempt'[x] = b
  BY <1>1, <1>3
<1>6. SlotOf(r.ref.task, r.subject) = x /\ r.subject[1] = "operation"
  BY <1>2, SlotTask DEF SlotOf
<1> HIDE DEF b
<1>7. RowsKept
  BY <1>2, <1>4, <1>5, <1>6, ResolveKeepsRows DEF IInv, OpenKind, OpUnresolved
<1>8. AllCalmer
  BY <1>1, <1>4, OneCalmer DEF IInv
<1>9. \A y \in Slots : attempt'[y].op = "UNKNOWN" => attempt[y].op = "UNKNOWN"
  BY <1>1, <1>3, <1>4
<1>10. SameTasks
  BY <1>1 DEF SameTasks
<1> QED BY <1>1, <1>7, <1>8, <1>9, <1>10, ServingCalm

\* A step of the pipeline on the attempt it works on: the export's outcome
\* closes, or the pipeline goes on, and an unknown outcome is handed on.
LEMMA PipelineCalm ==
  ASSUME IInv, TypeOK', call.kind \in ExportKinds \ {"HANDOFF"},
         NEW a, attempt' = [attempt EXCEPT ![call.slot] = a], Calmer(attempt[call.slot], a),
         UNCHANGED <<task, assessed, mgr, todo, session, refusal>>,
         \/ call' = Idle
         \/ \E k \in ExportKinds : call'.kind = k /\ call'.slot = call.slot
  PROVE  Duties'
<1>1. /\ mgr = "READY" /\ call.slot \in Slots /\ attempt \in [Slots -> AttemptRow]
      /\ attempt[call.slot].session = session /\ a.session = session
  BY DEF IInv, ExportInv, InPipeline, TypeOK, Duties, CallInv, Calmer
<1>2. AllCalmer /\ SameTasks
  BY OneCalmer DEF IInv, SameTasks
<1>3. StoreInv'
  <2>1. session <= session'
    BY DEF IInv, TypeOK
  <2> QED BY <1>2, <2>1, CalmStore DEF IInv, Duties
<1>4. PhaseInv'
  BY <1>1, <1>2, CalmPhase DEF IInv, Duties
<1>5. CallInv'
  BY <1>1 DEF CallInv, Idle, ExportKinds
<1>6. UnknownHanded'
  <2> SUFFICES ASSUME NEW x \in Slots, attempt'[x].op = "UNKNOWN"
               PROVE  \/ task[x[1]].state = "RECOVERING"
                      \/ attempt'[x].session = session
                      \/ task[x[1]].state \notin Executing /\ Reported(x)'
    BY <1>1 DEF UnknownHanded, Starting
  <2>1. CASE x = call.slot
    BY <1>1, <2>1
  <2>2. CASE x # call.slot
    BY <1>1, <2>2, ReportedKept DEF IInv, Duties, UnknownHanded
  <2> QED BY <2>1, <2>2
<1> QED BY <1>3, <1>4, <1>5, <1>6 DEF Duties

\* The steps of export_artifact after its admission.
LEMMA PipelineStepKept ==
  ASSUME IInv, TypeOK',
         \/ ArmExport \/ AbortExport \/ DenyConstruction \/ OpenDestination \/ CopyChunk
         \/ FinalizeDestination \/ DisposeDestination \/ CompleteExport
         \/ FailUncertain \/ FailUnrecorded
  PROVE  Duties'
<1> DEFINE c == call.slot
           a == attempt[c]
<1>1. call.kind \in ExportKinds \ {"HANDOFF"}
  BY DEF ArmExport, AbortExport, DenyConstruction, OpenDestination, CopyChunk, FinalizeDestination,
         DisposeDestination, CompleteExport, FailUncertain, FailUnrecorded, ExportKinds
<1>2. /\ mgr = "READY" /\ c \in Slots /\ a \in AttemptRow /\ attempt \in [Slots -> AttemptRow]
      /\ a.op = "STARTED" /\ a.step # "ABSENT"
  BY <1>1 DEF IInv, ExportInv, InPipeline, TypeOK, Position, Duties, StoreInv, Blank, ExportKinds
<1>3. UNCHANGED <<task, assessed, mgr, todo, session, refusal>>
  BY DEF ArmExport, AbortExport, DenyConstruction, OpenDestination, CopyChunk, OnlyCall,
         FinalizeDestination, DisposeDestination, CompleteExport, FailUncertain, FailUnrecorded,
         durable, process
<1>4. /\ \A p : Calmer(a, [a EXCEPT !.phase = p])
      /\ \A k : Calmer(a, [a EXCEPT !.sink = k])
      /\ Calmer(a, [a EXCEPT !.op = "FAILED", !.phase = "UNOPENED"])
      /\ Calmer(a, [a EXCEPT !.op = "SUCCEEDED"])
      /\ Calmer(a, [a EXCEPT !.op = "UNKNOWN"])
      /\ Calmer(a, a)
  BY <1>2 DEF Calmer, AttemptRow
<1>5. PICK b : attempt' = [attempt EXCEPT ![c] = b] /\ Calmer(a, b)
  <2>1. CASE ArmExport
    BY <1>4, <2>1 DEF ArmExport
  <2>2. CASE AbortExport \/ DisposeDestination \/ FailUnrecorded
    <3>1. attempt' = [attempt EXCEPT ![c] = a]
      BY <1>2, <2>2 DEF AbortExport, DisposeDestination, FailUnrecorded, durable
    <3> QED BY <1>4, <3>1
  <2>3. CASE DenyConstruction
    BY <1>4, <2>3 DEF DenyConstruction
  <2>4. CASE OpenDestination \/ CopyChunk \/ FinalizeDestination
    <3>1. PICK seen : attempt' = [attempt EXCEPT ![c] = [a EXCEPT !.sink = seen]]
      BY <2>4 DEF OpenDestination, CopyChunk, FinalizeDestination
    <3> QED BY <1>4, <3>1
  <2>5. CASE CompleteExport
    BY <1>4, <2>5 DEF CompleteExport
  <2>6. CASE FailUncertain
    BY <1>4, <2>6 DEF FailUncertain
  <2> QED BY <2>1, <2>2, <2>3, <2>4, <2>5, <2>6
<1>6. call' = Idle \/ \E k \in ExportKinds : call'.kind = k /\ call'.slot = c
  <2>1. call' = Idle \/ call' = call \/ \E k \in ExportKinds : call' = At(k, c)
    BY DEF ArmExport, AbortExport, DenyConstruction, OpenDestination, CopyChunk, OnlyCall,
           FinalizeDestination, DisposeDestination, CompleteExport, FailUncertain,
           FailUnrecorded, process, ExportKinds
  <2> QED BY <1>1, <2>1, CallKinds
<1> HIDE DEF c, a
<1> QED BY <1>1, <1>3, <1>5, <1>6, PipelineCalm DEF a, c

\* A repeated export only asks for the handoff, and a handoff that fails leaves
\* the store as it is.
LEMMA RetryStep ==
  ASSUME IInv, TypeOK', (\E x \in Slots : RetryExport(x)) \/ HandoffFails
  PROVE  Duties'
<1>1. /\ mgr = "READY" /\ UNCHANGED <<task, attempt, assessed>>
      /\ UNCHANGED <<mgr, todo, session, refusal>>
      /\ call' = Idle \/ \E x \in Slots : call' = At("HANDOFF", x)
  BY DEF RetryExport, HandoffFails, OnlyCall, durable, Serving, IInv, ExportInv, InPipeline, ExportKinds
<1>2. AllCalmer /\ SameTasks
  BY <1>1, CalmFacts DEF AllCalmer, SameTasks
<1>3. StoreInv'
  <2>1. session <= session'
    BY <1>1 DEF IInv, TypeOK
  <2> QED BY <1>1, <1>2, <2>1, CalmStore DEF IInv, Duties
<1>4. PhaseInv'
  BY <1>1, <1>2, CalmPhase DEF IInv, Duties
<1>5. call'.kind \in {"IDLE", "HANDOFF"}
  BY <1>1, CallKinds DEF Idle
<1>6. CallInv'
  BY <1>5 DEF CallInv, ExportKinds
<1>7. UnknownHanded'
  BY <1>1, <1>2, CalmUnknown DEF IInv, Duties
<1> QED BY <1>3, <1>4, <1>6, <1>7 DEF Duties

\* UnresolvedIs as a formula, to have it of the next state too.
UnresolvedFact ==
  Blank => \A t \in Tasks :
    /\ Unresolved(t) \subseteq Subject
    /\ \A s \in Subject : s \in Unresolved(t) <=> OpenKind(attempt[SlotOf(t, s)], s[1])

\* It holds of every state.
LEMMA UnresolvedNow == UnresolvedFact
BY UnresolvedIs DEF UnresolvedFact

\* So it holds after a step.
LEMMA UnresolvedNext == UnresolvedFact'
BY UnresolvedNow, PTL

\* Time passes a deadline, whatever the manager is doing.
LEMMA LapseStep ==
  ASSUME IInv, TypeOK', NEW x \in Slots, Lapse(x)
  PROVE  Duties'
<1> DEFINE a == attempt[x]
           b == [a EXCEPT !.lapsed = TRUE]
<1>1. /\ UNCHANGED <<task, assessed>> /\ UNCHANGED <<mgr, todo, call, session, refusal>>
      /\ attempt' = [attempt EXCEPT ![x] = b] /\ a.step # "ABSENT"
  BY DEF Lapse, process
<1>2. a \in AttemptRow /\ attempt \in [Slots -> AttemptRow]
  BY DEF IInv, TypeOK
<1>3. /\ Calmer(a, b) /\ b.op = a.op /\ b.phase = a.phase
      /\ b.step = a.step /\ b.egress = a.egress /\ b.write = a.write
  BY <1>1, <1>2 DEF Calmer, AttemptRow
<1> HIDE DEF b
<1>4. AllCalmer /\ SameTasks
  BY <1>1, <1>3, OneCalmer DEF IInv, SameTasks
<1>5. StoreInv'
  <2>1. session <= session'
    BY <1>1 DEF IInv, TypeOK
  <2> QED BY <1>1, <1>4, <2>1, CalmStore DEF IInv, Duties
<1>7. \A y \in Slots : /\ attempt'[y].op = attempt[y].op /\ attempt'[y].phase = attempt[y].phase
                       /\ attempt'[y].step = attempt[y].step
                       /\ attempt'[y].session = attempt[y].session
                       /\ attempt'[y].egress = attempt[y].egress /\ attempt'[y].write = attempt[y].write
  BY <1>1, <1>2, <1>3 DEF Calmer
<1>6. PhaseInv'
  BY <1>1, <1>4, <1>7, CalmPhase DEF IInv, Duties
<1>8. CallInv'
  <2>1. ASSUME NEW t \in Tasks PROVE CurrentRef(t)' = CurrentRef(t)
    <3>1. Blank /\ Blank'
      BY <1>5 DEF IInv, Duties, StoreInv
    <3>2. \A s \in Subject : OpenKind(attempt[SlotOf(t, s)], s[1])
                               <=> OpenKind(attempt'[SlotOf(t, s)], s[1])
      BY <1>7, SubjectSlot DEF OpenKind, OpUnresolved
    <3>3. Unresolved(t)' = Unresolved(t)
      BY <3>1, <3>2, UnresolvedNow, UnresolvedNext DEF UnresolvedFact
    <3> QED BY <1>1, <3>3 DEF CurrentRef
  <2>2. ASSUME NEW t \in Tasks, QuietPlan(t) PROVE QuietPlan(t)'
    BY <1>4, <2>2, CalmFacts DEF QuietPlan, AllCalmer
  <2>3. ASSUME call.kind \in ExportKinds PROVE call.slot \in Slots
    BY <2>3 DEF IInv, ExportInv, InPipeline
  <2>4. ASSUME NEW ref, HasRows(ref) PROVE HasRows(ref)'
    BY <1>1, <2>4 DEF HasRows
  <2>5. call'.kind \in ExportKinds \ {"HANDOFF"} => attempt'[call'.slot].session = session'
    BY <1>1, <1>7, <2>3 DEF IInv, Duties, CallInv
  <2>7. call'.kind = "ENTER" =>
          /\ mgr' \in {"READY", "HANDOFF", "RECOVER"}
          /\ call'.ref.task \in Tasks
          /\ task'[call'.ref.task].state \in Executing
          /\ call'.ref = CurrentRef(call.ref.task)'
          /\ HasRows(call.ref)'
    BY <1>1, <2>1, <2>4 DEF IInv, Duties, CallInv
  <2>8. call'.kind = "REPLAN" =>
          /\ mgr' = "RETIRE" /\ call'.ref.task \in Tasks
          /\ task'[call'.ref.task].state \in {"WAITING_FOR_AUTH", "RUNNABLE"}
          /\ QuietPlan(call.ref.task)'
    BY <1>1, <2>2 DEF IInv, Duties, CallInv
  <2> QED BY <1>1, <2>5, <2>7, <2>8 DEF CallInv
<1>9. UnknownHanded'
  BY <1>1, <1>4, <1>7, CalmUnknown DEF IInv, Duties
<1> QED BY <1>5, <1>6, <1>8, <1>9 DEF Duties

\* What an inventory records of a Task.
LEMMA InventoryRows ==
  ASSUME TypeOK, Blank, NEW t \in Tasks, NEW q \in SubjectRows(t, CurrentRef(t))
  PROVE  /\ q.ref = CurrentRef(t) /\ q.ref.task = t /\ q.ref.basis = task[t].revision
         /\ q.subject \in q.ref.ids /\ q.subject \in Subject
         /\ OpenKind(attempt[SlotOf(t, q.subject)], q.subject[1])
         /\ Begun(attempt[SlotOf(t, q.subject)], q.subject[1])
         /\ q.evidence # "RESOLVED"
<1>1. PICK s \in Unresolved(t) :
        q = [ref |-> CurrentRef(t), subject |-> s, evidence |-> EvidenceOf(t, s)]
  BY DEF SubjectRows
<1>2. s \in Subject /\ OpenKind(attempt[SlotOf(t, s)], s[1]) /\ SlotOf(t, s) \in Slots
  BY UnresolvedIs, SubjectSlot
<1>3. Begun(attempt[SlotOf(t, s)], s[1])
  BY <1>2 DEF Blank, OpenKind, OpUnresolved, Begun
<1>4. EvidenceOf(t, s) # "RESOLVED"
  <2>1. s[1] \in {"operation", "attempt", "egress", "write"}
    BY <1>2 DEF Subject
  <2> QED BY <1>2, <2>1 DEF EvidenceOf, OpenKind, OpUnresolved, SlotOf
<1>5. /\ CurrentRef(t).task = t /\ CurrentRef(t).basis = task[t].revision
      /\ CurrentRef(t).ids = Unresolved(t)
  BY DEF CurrentRef
<1> QED BY <1>1, <1>2, <1>3, <1>4, <1>5

\* Every entry of a stored inventory has its row.
LEMMA InventoryHasRows ==
  ASSUME NEW t \in Tasks, PersistInventory(t, CurrentRef(t)), UNCHANGED <<task, attempt>>
  PROVE  HasRows(CurrentRef(t))'
<1>1. CurrentRef(t)' = CurrentRef(t)
  BY DEF CurrentRef, Unresolved, AttemptsOf
<1>2. ASSUME NEW s \in CurrentRef(t).ids
      PROVE  \E r \in assessed' : r.ref = CurrentRef(t) /\ r.subject = s
  <2>1. s \in Unresolved(t)
    BY <1>2 DEF CurrentRef
  <2> DEFINE r == [ref |-> CurrentRef(t), subject |-> s, evidence |-> EvidenceOf(t, s)]
  <2>2. r \in assessed'
    BY <2>1 DEF PersistInventory, SubjectRows
  <2>3. r.ref = CurrentRef(t) /\ r.subject = s
    OBVIOUS
  <2> HIDE DEF r
  <2> QED BY <2>2, <2>3
<1> QED BY <1>1, <1>2 DEF HasRows

\* Storing an inventory keeps what the store promises.
LEMMA PersistStore ==
  ASSUME TypeOK, StoreInv, NEW t \in Tasks, PersistInventory(t, CurrentRef(t)),
         UNCHANGED <<task, attempt, session>>
  PROVE  StoreInv'
<1>1. Fresh' /\ Blank' /\ Issued' /\ OwnedShape' /\ OlderSettled' /\ StatesTell'
  BY DEF StoreInv, Fresh, Blank, Issued, OwnedShape, OlderSettled, StatesTell
<1>2. assessed \subseteq assessed'
  BY DEF PersistInventory
<1>3. RowsTell'
  <2> SUFFICES ASSUME NEW q \in assessed'
               PROVE  LET a == attempt[SlotOf(q.ref.task, q.subject)] IN
                      /\ q.subject \in q.ref.ids
                      /\ q.ref.basis <= task[q.ref.task].revision
                      /\ Begun(a, q.subject[1])
                      /\ q.evidence = "RESOLVED" => ~OpenKind(a, q.subject[1])
    BY DEF RowsTell
  <2>1. CASE q \in assessed
    BY <2>1 DEF StoreInv, RowsTell
  <2>2. CASE q \in SubjectRows(t, CurrentRef(t))
    <3>1. task[t].revision \in Nat
      BY DEF TypeOK, TaskRow
    <3> QED BY <2>2, <3>1, InventoryRows DEF StoreInv
  <2> QED BY <2>1, <2>2 DEF PersistInventory
<1>4. Covered'
  <2>1. ASSUME NEW ref, HasRows(ref) PROVE HasRows(ref)'
    BY <1>2, <2>1 DEF HasRows
  <2> QED BY <2>1 DEF StoreInv, Covered
<1> QED BY <1>1, <1>3, <1>4 DEF StoreInv

\* The first transaction of a live handoff.
LEMMA HandoffLiveStep ==
  ASSUME IInv, TypeOK', HandoffLive
  PROVE  Duties'
<1>0. PICK t : t = call.slot[1]
  OBVIOUS
<1>1. /\ call.kind = "HANDOFF" /\ UNCHANGED <<task, attempt, mgr, todo, session, refusal>>
  BY DEF HandoffLive
<1>2. /\ mgr = "READY" /\ call.slot \in Slots /\ t \in Tasks /\ TypeOK /\ StoreInv
  BY <1>0, <1>1, SlotTask DEF IInv, ExportInv, InPipeline, ExportKinds, Duties
<1>3. AllCalmer /\ SameTasks
  BY <1>1, CalmFacts DEF AllCalmer, SameTasks
<1>4. PhaseInv'
  BY <1>1, <1>2, <1>3, CalmPhase DEF IInv, Duties
<1>5. \/ call' = Idle /\ UNCHANGED assessed
      \/ /\ PersistInventory(t, CurrentRef(t))
         /\ call' = IF task[t].state \in Executing THEN Enter(CurrentRef(t)) ELSE Idle
  BY <1>0 DEF HandoffLive
<1>6. StoreInv'
  <2>1. session <= session'
    BY <1>1 DEF IInv, TypeOK
  <2>2. CASE UNCHANGED assessed
    BY <1>2, <1>3, <2>1, <2>2, CalmStore
  <2>3. CASE PersistInventory(t, CurrentRef(t))
    BY <1>1, <1>2, <2>3, PersistStore
  <2> QED BY <1>5, <2>2, <2>3
<1>7. UnknownHanded'
  <2>1. UNCHANGED assessed \/ assessed \subseteq assessed'
    BY <1>5 DEF PersistInventory
  <2> QED BY <1>1, <1>2, <1>3, <2>1, CalmUnknown DEF IInv, Duties
<1>8. CallInv'
  <2>1. CASE call' = Idle
    BY <2>1 DEF CallInv, Idle, ExportKinds
  <2>2. CASE /\ PersistInventory(t, CurrentRef(t)) /\ call' = Enter(CurrentRef(t))
             /\ task[t].state \in Executing
    <3>1. call'.kind = "ENTER" /\ call'.ref = CurrentRef(t) /\ call'.ref.task = t
      BY <2>2 DEF Enter, CurrentRef
    <3>2. CurrentRef(t)' = CurrentRef(t)
      BY <1>1 DEF CurrentRef, Unresolved, AttemptsOf
    <3>3. HasRows(CurrentRef(t))'
      BY <1>1, <1>2, <2>2, InventoryHasRows
    <3> QED BY <1>1, <1>2, <2>2, <3>1, <3>2, <3>3 DEF CallInv, ExportKinds
  <2> QED BY <1>5, <2>1, <2>2
<1> QED BY <1>4, <1>6, <1>7, <1>8 DEF Duties

\* The admission transaction: the newest attempt of a running step gets its
\* operation.
LEMMA AdmitStep ==
  ASSUME IInv, TypeOK', NEW x \in Slots, AdmitExport(x)
  PROVE  Duties'
<1> DEFINE a == attempt[x]
           b == [a EXCEPT !.op = "STARTED", !.phase = "PRE", !.egress = "CONSUMED"]
<1>1. /\ Serving /\ UNCHANGED <<task, assessed, mgr, todo, session, refusal>>
      /\ call' = At("ADMITTED", x) /\ attempt' = [attempt EXCEPT ![x] = b]
      /\ task[x[1]].state = "RUNNING" /\ x \in LatestSlots(x[1])
      /\ a.step = "RUNNING" /\ a.op = "NONE" /\ a.session = session
  BY DEF AdmitExport, OnlyCall, DeadlineHolds
<1>2. a \in AttemptRow /\ attempt \in [Slots -> AttemptRow] /\ task \in [Tasks -> TaskRow]
      /\ x[1] \in Tasks /\ x[2] \in Source /\ x = <<x[1], x[2], x[3]>> /\ x[3] \in 1..MaxAttempts
  BY SlotTask DEF IInv, TypeOK
<1>3. /\ b.op = "STARTED" /\ b.step = "RUNNING" /\ b.egress # "ACTIVE" /\ b.write = a.write
      /\ b.session = a.session /\ b.result = a.result
  BY <1>1, <1>2 DEF AttemptRow
<1> HIDE DEF b
<1>4. attempt'[x] = b /\ \A y \in Slots : y # x => attempt'[y] = attempt[y]
  BY <1>1, <1>2
<1>5. call'.kind = "ADMITTED" /\ call'.slot = x
  BY <1>1, CallKinds
<1>6. StoreInv /\ PhaseInv /\ CallInv /\ UnknownHanded
  BY DEF IInv, Duties
<1>7. OfPlan(x)
  BY <1>1, <1>6 DEF StoreInv, OwnedShape
<1>8. StoreInv'
  <2>1. Fresh' /\ Blank' /\ Issued' /\ OwnedShape'
    BY <1>1, <1>2, <1>3, <1>4, <1>6, <1>7 DEF StoreInv, Fresh, Blank, Issued, OwnedShape
  <2>2. OlderSettled'
    <3> SUFFICES ASSUME NEW y \in Slots, NEW z \in Slots, y[1] = z[1], y[2] = z[2], OfPlan(y),
                        y[3] < z[3], attempt'[z].step # "ABSENT"
                 PROVE  ~OpUnresolved(attempt'[y])
      BY DEF OlderSettled
    <3>1. attempt[z].step # "ABSENT"
      BY <1>1, <1>4
    <3>2. CASE y = x
      <4>1. x[3] = Latest(x[1], x[2])
        BY <1>1 DEF LatestSlots
      <4>2. z[3] \in (Latest(x[1], x[2]) + 1)..MaxAttempts /\ z = <<x[1], x[2], z[3]>>
        BY <1>2, <3>2, <4>1, SlotTask, StoreAssumption
      <4>3. attempt[z].step = "ABSENT"
        BY <1>2, <4>2, LatestIs
      <4> QED BY <3>1, <4>3
    <3>3. CASE y # x
      BY <1>4, <1>6, <3>1, <3>3 DEF StoreInv, OlderSettled
    <3> QED BY <3>2, <3>3
  <2>3. StatesTell'
    BY <1>1, <1>4, <1>6 DEF StoreInv, StatesTell, Executing, Still, Absent
  <2>4. RowsTell'
    <3> SUFFICES ASSUME NEW r \in assessed
                 PROVE  LET e == attempt'[SlotOf(r.ref.task, r.subject)] IN
                        /\ r.subject \in r.ref.ids
                        /\ r.ref.basis <= task[r.ref.task].revision
                        /\ Begun(e, r.subject[1])
                        /\ r.evidence = "RESOLVED" => ~OpenKind(e, r.subject[1])
      BY <1>1 DEF RowsTell
    <3> DEFINE y == SlotOf(r.ref.task, r.subject)
    <3>1. y \in Slots
      BY RowSlot DEF IInv
    <3>2. LET e == attempt[y] IN
          /\ r.subject \in r.ref.ids
          /\ r.ref.basis <= task[r.ref.task].revision
          /\ Begun(e, r.subject[1])
          /\ r.evidence = "RESOLVED" => ~OpenKind(e, r.subject[1])
      BY <1>6 DEF StoreInv, RowsTell
    <3> HIDE DEF y
    <3>3. CASE y # x
      BY <1>4, <3>1, <3>2, <3>3 DEF y
    <3>4. CASE y = x
      <4>1. r.subject[1] # "operation" /\ Begun(b, r.subject[1])
        BY <1>1, <1>3, <3>2, <3>4 DEF Begun
      <4>2. OpenKind(b, r.subject[1]) => OpenKind(a, r.subject[1])
        BY <1>1, <1>3, <4>1 DEF OpenKind
      <4> QED BY <1>4, <3>2, <3>4, <4>1, <4>2 DEF y
    <3> QED BY <3>3, <3>4
  <2>5. Covered'
    <3> SUFFICES ASSUME NEW t \in Tasks, task[t].state = "RECOVERING"
                 PROVE  /\ task[t].recovery \in RecoveryRef /\ task[t].recovery.task = t
                        /\ \A s \in Subject :
                             OpenKind(attempt'[SlotOf(t, s)], s[1]) => s \in task[t].recovery.ids
                        /\ HasRows(task[t].recovery)
      BY <1>1 DEF Covered, HasRows
    <3>1. \A s \in Subject : attempt'[SlotOf(t, s)] = attempt[SlotOf(t, s)]
      BY <1>1, <1>4, SubjectSlot
    <3> QED BY <1>6, <3>1 DEF StoreInv, Covered
  <2> QED BY <2>1, <2>2, <2>3, <2>4, <2>5 DEF StoreInv
<1>9. PhaseInv'
  <2>1. mgr = "READY"
    BY <1>1 DEF Serving
  <2>2. NoStaleAuthority'
    BY <1>1, <1>2, <1>3, <1>4, <1>6 DEF PhaseInv, NoStaleAuthority
  <2> QED BY <1>1, <1>6, <2>1, <2>2 DEF PhaseInv, NewSession, NoneStarted, RetirePhase, RecoverPhase,
            ReportPhase, NeverStranded, Accepted, Starting
<1>10. CallInv'
  BY <1>1, <1>3, <1>4, <1>5 DEF CallInv
<1>11. UnknownHanded'
  BY <1>1, <1>3, <1>4, <1>6 DEF UnknownHanded, Serving, Reported, Starting
<1> QED BY <1>8, <1>9, <1>10, <1>11 DEF Duties

\* The owner asks for an export: an operation of its own, in a free slot.
LEMMA AdmitOwnedStep ==
  ASSUME IInv, TypeOK', NEW t \in Tasks, AdmitOwned(t)
  PROVE  Duties'
<1> DEFINE x == <<t, Owner, Latest(t, Owner) + 1>>
           b == [NoAttempt EXCEPT !.step = "OWNED", !.op = "STARTED", !.phase = "PRE", !.session = session]
<1>1. /\ Serving /\ UNCHANGED <<task, assessed, mgr, todo, session, refusal>>
      /\ call' = At("ADMITTED", x) /\ attempt' = [attempt EXCEPT ![x] = b]
      /\ task[t].state # "RECOVERING" /\ Latest(t, Owner) + 1 <= MaxAttempts
  BY DEF AdmitOwned, OnlyCall
<1>2. /\ x \in Slots /\ attempt[x].step = "ABSENT" /\ x[1] = t /\ ~OfPlan(x)
      /\ attempt \in [Slots -> AttemptRow] /\ session \in Nat
  BY <1>1, OwnerSlot DEF IInv, TypeOK, ExportInv, OfPlan
<1>3. /\ b.op = "STARTED" /\ b.step = "OWNED" /\ b.egress = "NONE" /\ b.write = "NONE"
      /\ b.session = session
  BY DEF NoAttempt
<1> HIDE DEF b, x
<1>4. attempt'[x] = b /\ \A y \in Slots : y # x => attempt'[y] = attempt[y]
  BY <1>1, <1>2
<1>5. call'.kind = "ADMITTED" /\ call'.slot = x
  BY <1>1, CallKinds
<1>6. StoreInv /\ PhaseInv /\ CallInv /\ UnknownHanded
  BY DEF IInv, Duties
<1>7. StoreInv'
  <2>1. Fresh' /\ Blank' /\ Issued' /\ OwnedShape'
    BY <1>1, <1>2, <1>3, <1>4, <1>6 DEF StoreInv, Fresh, Blank, Issued, OwnedShape
  <2>2. OlderSettled'
    <3> SUFFICES ASSUME NEW y \in Slots, NEW z \in Slots, y[1] = z[1], y[2] = z[2], OfPlan(y),
                        y[3] < z[3], attempt'[z].step # "ABSENT"
                 PROVE  ~OpUnresolved(attempt'[y])
      BY DEF OlderSettled
    <3>1. y # x /\ z # x
      BY <1>2 DEF OfPlan
    <3> QED BY <1>4, <1>6, <3>1 DEF StoreInv, OlderSettled
  <2>3. StatesTell'
    BY <1>1, <1>2, <1>4, <1>6 DEF StoreInv, StatesTell
  <2>4. RowsTell'
    <3> SUFFICES ASSUME NEW r \in assessed
                 PROVE  LET e == attempt'[SlotOf(r.ref.task, r.subject)] IN
                        /\ r.subject \in r.ref.ids
                        /\ r.ref.basis <= task[r.ref.task].revision
                        /\ Begun(e, r.subject[1])
                        /\ r.evidence = "RESOLVED" => ~OpenKind(e, r.subject[1])
      BY <1>1 DEF RowsTell
    <3> DEFINE y == SlotOf(r.ref.task, r.subject)
    <3>1. y \in Slots
      BY RowSlot DEF IInv
    <3>2. LET e == attempt[y] IN
          /\ r.subject \in r.ref.ids
          /\ r.ref.basis <= task[r.ref.task].revision
          /\ Begun(e, r.subject[1])
          /\ r.evidence = "RESOLVED" => ~OpenKind(e, r.subject[1])
      BY <1>6 DEF StoreInv, RowsTell
    <3> HIDE DEF y
    <3>3. y # x
      BY <1>2, <3>2 DEF Begun
    <3> QED BY <1>4, <3>1, <3>2, <3>3 DEF y
  <2>5. Covered'
    <3> SUFFICES ASSUME NEW u \in Tasks, task[u].state = "RECOVERING"
                 PROVE  /\ task[u].recovery \in RecoveryRef /\ task[u].recovery.task = u
                        /\ \A s \in Subject :
                             OpenKind(attempt'[SlotOf(u, s)], s[1]) => s \in task[u].recovery.ids
                        /\ HasRows(task[u].recovery)
      BY <1>1 DEF Covered, HasRows
    <3>1. \A s \in Subject : attempt'[SlotOf(u, s)] = attempt[SlotOf(u, s)]
      BY <1>1, <1>2, <1>4, SubjectSlot
    <3> QED BY <1>6, <3>1 DEF StoreInv, Covered
  <2> QED BY <2>1, <2>2, <2>3, <2>4, <2>5 DEF StoreInv
<1>8. PhaseInv'
  <2>1. mgr = "READY"
    BY <1>1 DEF Serving
  <2>2. NoStaleAuthority'
    BY <1>1, <1>2, <1>3, <1>4, <1>6 DEF PhaseInv, NoStaleAuthority
  <2> QED BY <1>1, <1>6, <2>1, <2>2 DEF PhaseInv, NewSession, NoneStarted, RetirePhase, RecoverPhase,
            ReportPhase, NeverStranded, Accepted, Starting
<1>9. CallInv'
  BY <1>1, <1>3, <1>4, <1>5 DEF CallInv
<1>10. UnknownHanded'
  BY <1>1, <1>3, <1>4, <1>6 DEF UnknownHanded, Serving, Reported, Starting
<1> QED BY <1>7, <1>8, <1>9, <1>10 DEF Duties

\* A Task is created.
LEMMA CreateStep ==
  ASSUME IInv, TypeOK', NEW t \in Tasks, CreateTask(t)
  PROVE  Duties'
<1>1. /\ Serving /\ UNCHANGED <<attempt, assessed>> /\ UNCHANGED process
      /\ task[t].state = Absent
      /\ task' = [task EXCEPT ![t] = [NoTask EXCEPT !.state = "CREATED", !.revision = 1]]
  BY DEF CreateTask
<1>2. task \in [Tasks -> TaskRow] /\ StoreInv /\ PhaseInv /\ UnknownHanded
  BY DEF IInv, TypeOK, Duties
<1>3. /\ task'[t].state = "CREATED" /\ task'[t].revision = 1
      /\ \A u \in Tasks : u # t => task'[u] = task[u]
  BY <1>1, <1>2 DEF NoTask
<1>4. StoreInv'
  <2>1. Blank' /\ Issued' /\ OwnedShape' /\ OlderSettled'
    BY <1>1, <1>2 DEF StoreInv, Blank, Issued, OwnedShape, OlderSettled, process
  <2>2. Fresh'
    BY <1>2, <1>3 DEF StoreInv, Fresh, Absent
  <2>3. StatesTell'
    BY <1>1, <1>2, <1>3, SlotTask DEF StoreInv, StatesTell, Still, Executing, Quiet
  <2>4. RowsTell'
    <3>1. ASSUME NEW r \in assessed PROVE r.ref.basis <= task'[r.ref.task].revision
      <4>1. r.ref.task \in Tasks /\ r.ref.basis \in Nat /\ r.ref.basis <= task[r.ref.task].revision
        BY <1>2, RowSlot DEF IInv, StoreInv, RowsTell
      <4>2. task[t].revision = 0
        BY <1>1, <1>2 DEF StoreInv, Fresh
      <4> QED BY <1>3, <4>1, <4>2
    <3> QED BY <1>1, <1>2, <3>1 DEF StoreInv, RowsTell
  <2>5. Covered'
    BY <1>1, <1>2, <1>3 DEF StoreInv, Covered, HasRows
  <2> QED BY <2>1, <2>2, <2>3, <2>4, <2>5 DEF StoreInv
<1>5. \A x \in Slots : x[1] = t => attempt[x].egress # "ACTIVE" /\ attempt[x].write # "ACTIVE"
  BY <1>1, <1>2 DEF StoreInv, StatesTell, OwnedShape, Still, Quiet
<1>6. PhaseInv'
  <2>1. mgr = "READY"
    BY <1>1 DEF Serving
  <2>2. NoStaleAuthority'
    BY <1>1, <1>2, <1>3, <1>5, SlotTask DEF PhaseInv, NoStaleAuthority, process
  <2> QED BY <1>1, <1>2, <2>1, <2>2 DEF PhaseInv, NewSession, NoneStarted, RetirePhase,
            RecoverPhase, ReportPhase, NeverStranded, Accepted, Starting, process
<1>7. CallInv'
  BY <1>1 DEF CallInv, Serving, process, ExportKinds
<1>8. UnknownHanded'
  BY <1>1, <1>2, <1>3, SlotTask DEF UnknownHanded, Reported, Serving, process, Executing, Starting,
                                    Absent
<1> QED BY <1>4, <1>6, <1>7, <1>8 DEF Duties

\* A finalized candidate: the node's next attempt, with live grants.
LEMMA FinalizeStep ==
  ASSUME IInv, TypeOK', NEW t \in Tasks, NEW n \in Nodes, FinalizeCandidate(t, n)
  PROVE  Duties'
<1> DEFINE k == Latest(t, n) + 1
           x == <<t, n, k>>
           b == [NoAttempt EXCEPT !.step = "READY", !.egress = "ACTIVE",
                                  !.write = "ACTIVE", !.session = session]
<1>1. /\ Serving /\ UNCHANGED assessed /\ UNCHANGED process
      /\ task[t].state \in {"PLANNING", "WAITING_FOR_AUTH"} /\ k <= MaxAttempts
      /\ attempt' = [attempt EXCEPT ![x] = b] /\ task' = [task EXCEPT ![t].approval = "NONE"]
  BY DEF FinalizeCandidate
<1>2. attempt \in [Slots -> AttemptRow] /\ task \in [Tasks -> TaskRow]
  BY DEF IInv, TypeOK
<1>3. /\ k \in 1..MaxAttempts /\ x \in Slots /\ attempt[x].step = "ABSENT"
      /\ \A y \in Slots : y[1] = t /\ y[2] = n /\ k < y[3] => attempt[y].step = "ABSENT"
  <2>1. /\ Latest(t, n) \in 0..MaxAttempts
        /\ \A j \in (Latest(t, n) + 1)..MaxAttempts : attempt[<<t, n, j>>].step = "ABSENT"
    BY LatestIs DEF Source
  <2>2. k \in 1..MaxAttempts /\ k \in (Latest(t, n) + 1)..MaxAttempts
    BY <1>1, <2>1, StoreAssumption
  <2>3. x \in Slots /\ attempt[x].step = "ABSENT"
    BY <2>1, <2>2 DEF Slots, Source
  <2>4. ASSUME NEW y \in Slots, y[1] = t, y[2] = n, k < y[3]
        PROVE  attempt[y].step = "ABSENT"
    <3>1. y[3] \in (Latest(t, n) + 1)..MaxAttempts /\ y = <<t, n, y[3]>>
      BY <2>1, <2>4, SlotTask, StoreAssumption
    <3> QED BY <2>1, <3>1
  <2> QED BY <2>2, <2>3, <2>4
<1>4. /\ b.step = "READY" /\ b.op = "NONE" /\ b.session = session /\ b.result = "NONE"
  BY DEF NoAttempt
<1>5. SameTasks
  BY <1>1, <1>2 DEF SameTasks, TaskRow
<1>6. x[1] = t /\ x[2] = n /\ x[3] = k /\ OfPlan(x)
  BY StoreAssumption DEF OfPlan
<1> HIDE DEF b, x, k
<1>7. attempt'[x] = b /\ \A y \in Slots : y # x => attempt'[y] = attempt[y]
  BY <1>1, <1>2, <1>3
<1>8. StoreInv /\ PhaseInv /\ CallInv /\ UnknownHanded /\ TypeOK
      /\ session \in Nat /\ session' = session
  BY <1>1, StoreAssumption DEF IInv, Duties, TypeOK, process
<1>9. task[t].state \notin Executing \cup {"RECOVERING"} /\ task[t].state \notin Still
  BY <1>1 DEF Executing, Still, Absent
<1>10. StoreInv'
  <2>1. Fresh' /\ Blank' /\ Issued' /\ OwnedShape'
    BY <1>3, <1>4, <1>5, <1>6, <1>7, <1>8 DEF StoreInv, Fresh, Blank, Issued, OwnedShape, SameTasks
  <2>2. OlderSettled'
    <3> SUFFICES ASSUME NEW y \in Slots, NEW z \in Slots, y[1] = z[1], y[2] = z[2], OfPlan(y),
                        y[3] < z[3], attempt'[z].step # "ABSENT"
                 PROVE  ~OpUnresolved(attempt'[y])
      BY DEF OlderSettled
    <3>1. CASE y = x
      BY <1>4, <1>7, <3>1 DEF OpUnresolved
    <3>2. CASE y # x /\ z = x
      BY <1>6, <1>7, <1>8, <1>9, <3>2 DEF StoreInv, StatesTell, Finished
    <3>3. CASE y # x /\ z # x
      BY <1>7, <1>8, <3>3 DEF StoreInv, OlderSettled
    <3> QED BY <3>1, <3>2, <3>3
  <2>3. StatesTell'
    <3> SUFFICES ASSUME NEW y \in Slots, OfPlan(y)
                 PROVE  /\ task[y[1]].state \notin Executing \cup {"RECOVERING"} => Finished(attempt'[y])
                        /\ task[y[1]].state \in Still => Quiet(attempt'[y])
      BY <1>5, SlotTask DEF StatesTell, SameTasks
    <3>1. CASE y = x
      BY <1>4, <1>6, <1>7, <1>9, <3>1 DEF Finished, OpUnresolved
    <3>2. CASE y # x
      BY <1>7, <1>8, <3>2 DEF StoreInv, StatesTell
    <3> QED BY <3>1, <3>2
  <2>4. RowsTell'
    <3> SUFFICES ASSUME NEW r \in assessed
                 PROVE  LET e == attempt'[SlotOf(r.ref.task, r.subject)] IN
                        /\ r.subject \in r.ref.ids
                        /\ r.ref.basis <= task'[r.ref.task].revision
                        /\ Begun(e, r.subject[1])
                        /\ r.evidence = "RESOLVED" => ~OpenKind(e, r.subject[1])
      BY <1>1 DEF RowsTell
    <3>1. /\ SlotOf(r.ref.task, r.subject) \in Slots
          /\ task'[r.ref.task].revision = task[r.ref.task].revision
      BY <1>5, <1>8, RowSlot DEF SameTasks
    <3>2. SlotOf(r.ref.task, r.subject) # x
      BY <1>3, <1>8 DEF StoreInv, RowsTell, Begun
    <3> QED BY <1>7, <1>8, <3>1, <3>2 DEF StoreInv, RowsTell
  <2>5. Covered'
    <3> SUFFICES ASSUME NEW u \in Tasks, task'[u].state = "RECOVERING"
                 PROVE  /\ task'[u].recovery \in RecoveryRef /\ task'[u].recovery.task = u
                        /\ \A s \in Subject :
                             OpenKind(attempt'[SlotOf(u, s)], s[1]) => s \in task'[u].recovery.ids
                        /\ HasRows(task[u].recovery)'
      BY <1>1 DEF Covered
    <3>1. u # t /\ task[u].state = "RECOVERING" /\ task'[u].recovery = task[u].recovery
      BY <1>5, <1>9 DEF SameTasks
    <3>2. \A s \in Subject : attempt'[SlotOf(u, s)] = attempt[SlotOf(u, s)]
      BY <1>6, <1>7, <3>1, SubjectSlot
    <3>3. HasRows(task[u].recovery)' 
      BY <1>1, <1>8, <3>1 DEF StoreInv, Covered, HasRows
    <3> QED BY <1>8, <3>1, <3>2, <3>3 DEF StoreInv, Covered
  <2> QED BY <2>1, <2>2, <2>3, <2>4, <2>5 DEF StoreInv
<1>11. PhaseInv'
  <2>1. mgr = "READY" /\ UNCHANGED <<mgr, refusal>>
    BY <1>1 DEF Serving, process
  <2>2. NoStaleAuthority'
    BY <1>4, <1>5, <1>7, <1>8, <2>1, SlotTask DEF PhaseInv, NoStaleAuthority, SameTasks
  <2> QED BY <1>8, <2>1, <2>2 DEF PhaseInv, NewSession, NoneStarted, RetirePhase, RecoverPhase,
            ReportPhase, NeverStranded, Accepted, Starting
<1>12. CallInv'
  BY <1>1 DEF CallInv, Serving, process, ExportKinds
<1>13. UnknownHanded'
  BY <1>1, <1>4, <1>5, <1>7, <1>8, SlotTask DEF UnknownHanded, Reported, Serving, SameTasks, Starting,
                                                process
<1> QED BY <1>10, <1>11, <1>12, <1>13 DEF Duties

\* A Task leaves recovery only when nothing of it is unresolved.
LEMMA ExitIsClean ==
  ASSUME IInv, NEW t \in Tasks, task[t].state = "RECOVERING", RecoveryAllowsExit(t)
  PROVE  QuietTask(t)
<1>1. Blank /\ RowsTell /\ Covered /\ TypeOK
  BY DEF IInv, Duties, StoreInv
<1>2. ASSUME NEW s \in Unresolved(t) PROVE FALSE
  <2>1. s \in Subject /\ OpenKind(attempt[SlotOf(t, s)], s[1])
    BY <1>1, UnresolvedIs
  <2>2. PICK r \in assessed :
          r.ref = task[t].recovery /\ r.subject = s /\ r.evidence = "RESOLVED"
    BY DEF RecoveryAllowsExit, Rows
  <2>3. r.ref.task = t
    BY <1>1, <2>2 DEF Covered
  <2> QED BY <1>1, <2>1, <2>2, <2>3 DEF RowsTell
<1>3. Unresolved(t) = {}
  BY <1>2
<1> QED BY <1>1, <1>3, ContainedIs

\* What the guards of the transition handler leave behind.
LEMMA TransitionOutcome ==
  ASSUME IInv, NEW t \in Tasks, NEW to \in TaskState, Transition(t, to)
  PROVE  /\ to # "RECOVERING" /\ task[t].state \notin Terminal
         /\ \A x \in Slots : x[1] = t => Finished(attempt[x])
         /\ to \in Still \ {"CANCELLED"} => QuietTask(t)
         /\ task[t].state = "RECOVERING" => QuietTask(t)
<1>1. Blank
  BY DEF IInv, Duties, StoreInv
<1>2. PICK waiting \in Waiting, failure \in Failure : TargetGuard(t, to, waiting, failure)
  BY DEF Transition
<1>3. PlanGuard(t, to) /\ RecoveryGuard(t, to) /\ ~TerminalRefuses(task[t].state, to)
      /\ AllowedTransition(task[t].state, to)
  BY DEF Transition
<1>4. to \notin {"ROLLING_BACK", "ROLLED_BACK", "RECOVERING", "CREATED"}
  BY <1>2 DEF TargetGuard
<1>5. to \in {"FAILED", "WAITING_FOR_INPUT", "WAITING_FOR_AUTH", "PLANNING", "PAUSED"} => Contained(t)
  BY <1>2 DEF TargetGuard, FailedGuard
<1>6. to = "CANCELLED" => UnresolvedExecution(t) = {}
  BY <1>2 DEF TargetGuard, CancellationContained
<1>7. to \in ExecutionTarget => UnresolvedExecution(t) = {}
  BY <1>3 DEF PlanGuard
<1>8. Contained(t) => QuietTask(t)
  BY <1>1, ContainedIs DEF Contained
<1>9. UnresolvedExecution(t) = {} => \A x \in Slots : x[1] = t => Finished(attempt[x])
  BY <1>1, ContainedIs
<1>10. QuietTask(t) => \A x \in Slots : x[1] = t => Finished(attempt[x])
  BY DEF QuietTask, Quiet
<1>11. \A x \in Slots : x[1] = t => Finished(attempt[x])
  BY <1>4, <1>5, <1>6, <1>7, <1>8, <1>9, <1>10 DEF TaskState, ExecutionTarget
<1>12. to \in Still \ {"CANCELLED"} => QuietTask(t)
  BY <1>4, <1>5, <1>8 DEF Still, TaskState, Absent
<1>13. task[t].state = "RECOVERING" => QuietTask(t)
  BY <1>3, <1>5, <1>8, ExitIsClean DEF RecoveryGuard
<1>14. task[t].state \notin Terminal
  BY <1>3, <1>4 DEF TerminalRefuses
<1> QED BY <1>4, <1>11, <1>12, <1>13, <1>14

\* What a transition writes into an attempt of its Task.
LEMMA TransitionAttempts ==
  ASSUME IInv, NEW t \in Tasks, NEW to \in TaskState, Transition(t, to), NEW x \in Slots
  PROVE  LET a == attempt[x]
             b == attempt'[x] IN
         /\ x[1] # t => b = a
         /\ \/ Calmer(a, b)
            \/ /\ to = "RUNNING" /\ a.step = "READY" /\ b.step = "RUNNING" /\ b.session = a.session
               /\ b.op = a.op /\ b.egress = a.egress /\ b.write = a.write
         /\ b.op = a.op
         /\ to = "CANCELLED" /\ x[1] = t => b.egress # "ACTIVE" /\ b.write # "ACTIVE"
<1> DEFINE a == attempt[x]
<1>1. attempt' = StepsAfter(t, to)
  BY DEF Transition
<1>2. a \in AttemptRow /\ Blank
  BY DEF IInv, TypeOK, Duties, StoreInv
<1>3. attempt'[x] = IF to = "RUNNING" /\ x \in ReadySlots(t) THEN [a EXCEPT !.step = "RUNNING"]
                    ELSE IF to = "CANCELLED" /\ x[1] = t THEN Revoked(a) ELSE a
  BY <1>1 DEF StepsAfter
<1>4. x \in ReadySlots(t) => x[1] = t /\ a.step = "READY"
  BY DEF ReadySlots, LatestSlots, AttemptsOf
<1>5. Calmer(a, a) /\ Calmer(a, Revoked(a)) /\ Revoked(a).op = a.op
      /\ Revoked(a).egress # "ACTIVE" /\ Revoked(a).write # "ACTIVE"
  <2>1. a.step = "ABSENT" => a.egress = "NONE" /\ a.write = "NONE"
    BY <1>2 DEF Blank
  <2>2. a.step = "ABSENT" => Revoked(a) = a
    BY <1>2, <2>1 DEF Revoked, AttemptRow
  <2>3. Revoked(a).egress # "ACTIVE" /\ Revoked(a).write # "ACTIVE"
    BY <1>2 DEF Revoked, AttemptRow
  <2> QED BY <1>2, <2>2, <2>3, CalmFacts, CalmWrites
<1>6. LET b == [a EXCEPT !.step = "RUNNING"] IN
      /\ b.step = "RUNNING" /\ b.session = a.session
      /\ b.op = a.op /\ b.egress = a.egress /\ b.write = a.write
  BY <1>2 DEF AttemptRow
<1> HIDE DEF a
<1>7. CASE to = "RUNNING" /\ x \in ReadySlots(t)
  BY <1>3, <1>4, <1>6, <1>7 DEF a
<1>8. CASE ~(to = "RUNNING" /\ x \in ReadySlots(t)) /\ to = "CANCELLED" /\ x[1] = t
  BY <1>3, <1>5, <1>8 DEF a
<1>9. CASE ~(to = "RUNNING" /\ x \in ReadySlots(t)) /\ ~(to = "CANCELLED" /\ x[1] = t)
  BY <1>3, <1>5, <1>9 DEF a
<1> QED BY <1>7, <1>8, <1>9

\* A caller's transition.
LEMMA TransitionStep ==
  ASSUME IInv, TypeOK', NEW t \in Tasks, NEW to \in TaskState, Transition(t, to)
  PROVE  Duties'
<1>1. Serving /\ UNCHANGED assessed /\ UNCHANGED process
  BY DEF Transition
<1>2. /\ task \in [Tasks -> TaskRow] /\ attempt \in [Slots -> AttemptRow]
      /\ StoreInv /\ PhaseInv /\ UnknownHanded /\ TypeOK
  BY DEF IInv, Duties, TypeOK
<1>3. /\ task'[t].state = to /\ task'[t].revision = task[t].revision + 1
      /\ \A u \in Tasks : u # t => task'[u] = task[u]
  <2> DEFINE planned == task[t].planned \/ (task[t].state = "CREATED" /\ to = "PLANNING")
  <2>1. PICK waiting, failure : Move(t, to, waiting, failure, planned)
    BY DEF Transition
  <2> HIDE DEF planned
  <2> QED BY <1>2, <2>1 DEF TaskRow, Move
<1>4. /\ to # "RECOVERING" /\ task[t].state \notin Terminal
      /\ \A x \in Slots : x[1] = t => Finished(attempt[x])
      /\ to \in Still \ {"CANCELLED"} => QuietTask(t)
      /\ task[t].state = "RECOVERING" => QuietTask(t)
  BY TransitionOutcome
<1>5. ASSUME NEW x \in Slots
      PROVE  /\ x[1] # t => attempt'[x] = attempt[x]
             /\ \/ Calmer(attempt[x], attempt'[x])
                \/ /\ to = "RUNNING" /\ attempt[x].step = "READY" /\ attempt'[x].step = "RUNNING"
                   /\ attempt'[x].session = attempt[x].session
                   /\ attempt'[x].op = attempt[x].op /\ attempt'[x].egress = attempt[x].egress
                   /\ attempt'[x].write = attempt[x].write
             /\ attempt'[x].op = attempt[x].op
             /\ to = "CANCELLED" /\ x[1] = t =>
                  attempt'[x].egress # "ACTIVE" /\ attempt'[x].write # "ACTIVE"
  BY TransitionAttempts
<1>6. task[t].revision \in Nat
  BY <1>2 DEF TaskRow
<1>7. StoreInv'
  <2>1. Fresh'
    BY <1>2, <1>3 DEF StoreInv, Fresh, TaskState, Absent
  <2>2. Blank'
    BY <1>2, <1>5 DEF StoreInv, Blank, Calmer
  <2>3. Issued'
    BY <1>1, <1>2, <1>5 DEF StoreInv, Issued, Calmer, process
  <2>8. OwnedShape'
    BY <1>2, <1>5 DEF StoreInv, OwnedShape, Calmer
  <2>4. OlderSettled'
    BY <1>2, <1>5 DEF StoreInv, OlderSettled, Calmer, OpUnresolved
  <2>5. StatesTell'
    <3> SUFFICES ASSUME NEW x \in Slots, OfPlan(x)
                 PROVE  /\ task'[x[1]].state \notin Executing \cup {"RECOVERING"} => Finished(attempt'[x])
                        /\ task'[x[1]].state \in Still => Quiet(attempt'[x])
      BY DEF StatesTell
    <3>1. CASE x[1] # t
      BY <1>2, <1>3, <1>5, <3>1, SlotTask DEF StoreInv, StatesTell
    <3>2. CASE x[1] = t /\ to = "RUNNING"
      BY <1>3, <3>2 DEF Executing, Still, Absent
    <3>3. CASE x[1] = t /\ to # "RUNNING"
      <4>1. Calmer(attempt[x], attempt'[x]) /\ Finished(attempt[x])
        BY <1>4, <1>5, <3>3
      <4>2. to \in Still => Quiet(attempt'[x])
        BY <1>4, <1>5, <3>3, <4>1, CalmFacts DEF QuietTask, Quiet
      <4> QED BY <1>3, <3>3, <4>1, <4>2, CalmFacts
    <3> QED BY <3>1, <3>2, <3>3
  <2>6. RowsTell'
    <3> SUFFICES ASSUME NEW r \in assessed
                 PROVE  LET e == attempt'[SlotOf(r.ref.task, r.subject)] IN
                        /\ r.subject \in r.ref.ids
                        /\ r.ref.basis <= task'[r.ref.task].revision
                        /\ Begun(e, r.subject[1])
                        /\ r.evidence = "RESOLVED" => ~OpenKind(e, r.subject[1])
      BY <1>1 DEF RowsTell
    <3> DEFINE y == SlotOf(r.ref.task, r.subject)
    <3>1. y \in Slots /\ r.ref.task \in Tasks /\ r.ref.basis \in Nat
      BY <1>2, RowSlot
    <3>2. /\ r.subject \in r.ref.ids /\ r.ref.basis <= task[r.ref.task].revision
          /\ Begun(attempt[y], r.subject[1])
          /\ r.evidence = "RESOLVED" => ~OpenKind(attempt[y], r.subject[1])
      BY <1>2 DEF StoreInv, RowsTell
    <3> HIDE DEF y
    <3>3. r.ref.basis <= task'[r.ref.task].revision
      BY <1>3, <1>6, <3>1, <3>2
    <3>4. /\ Begun(attempt'[y], r.subject[1])
          /\ OpenKind(attempt'[y], r.subject[1]) => OpenKind(attempt[y], r.subject[1])
      <4>1. CASE Calmer(attempt[y], attempt'[y])
        BY <3>2, <4>1, CalmFacts
      <4>2. CASE ~Calmer(attempt[y], attempt'[y])
        <5>1. /\ attempt[y].step = "READY" /\ attempt'[y].step = "RUNNING"
              /\ attempt'[y].op = attempt[y].op /\ attempt'[y].egress = attempt[y].egress
              /\ attempt'[y].write = attempt[y].write
          BY <1>5, <3>1, <4>2
        <5> QED BY <3>2, <5>1 DEF Begun, OpenKind, OpUnresolved
      <4> QED BY <4>1, <4>2
    <3> QED BY <3>2, <3>3, <3>4 DEF y
  <2>7. Covered'
    <3> SUFFICES ASSUME NEW u \in Tasks, task'[u].state = "RECOVERING"
                 PROVE  /\ task'[u].recovery \in RecoveryRef /\ task'[u].recovery.task = u
                        /\ \A s \in Subject :
                             OpenKind(attempt'[SlotOf(u, s)], s[1]) => s \in task'[u].recovery.ids
                        /\ HasRows(task[u].recovery)'
      BY DEF Covered
    <3>1. u # t /\ task'[u] = task[u]
      BY <1>3, <1>4
    <3>2. \A s \in Subject : attempt'[SlotOf(u, s)] = attempt[SlotOf(u, s)]
      BY <1>5, <3>1, SubjectSlot
    <3>3. HasRows(task[u].recovery)'
      BY <1>1, <1>2, <3>1 DEF StoreInv, Covered, HasRows
    <3> QED BY <1>2, <3>1, <3>2, <3>3 DEF StoreInv, Covered
  <2> QED BY <2>1, <2>2, <2>3, <2>4, <2>5, <2>6, <2>7, <2>8 DEF StoreInv
<1>8. PhaseInv'
  <2>1. mgr = "READY" /\ UNCHANGED <<mgr, session, refusal>>
    BY <1>1 DEF Serving, process
  <2>2. NoStaleAuthority'
    <3> SUFFICES ASSUME NEW x \in Slots, "ACTIVE" \in {attempt'[x].egress, attempt'[x].write},
                        attempt'[x].session # session
                 PROVE  task'[x[1]].state \in {"RECOVERING"} \cup Terminal
      BY <2>1 DEF NoStaleAuthority
    <3>1. "ACTIVE" \in {attempt[x].egress, attempt[x].write} /\ attempt[x].session # session
      BY <1>5 DEF Calmer
    <3>2. task[x[1]].state \in {"RECOVERING"} \cup Terminal
      BY <1>2, <2>1, <3>1 DEF PhaseInv, NoStaleAuthority
    <3>3. x[1] # t
      BY <1>4, <3>1, <3>2 DEF QuietTask, Quiet
    <3> QED BY <1>3, <3>2, <3>3, SlotTask
  <2> QED BY <1>2, <2>1, <2>2 DEF PhaseInv, NewSession, NoneStarted, RetirePhase, RecoverPhase,
            ReportPhase, NeverStranded, Accepted, Starting
<1>9. CallInv'
  BY <1>1 DEF CallInv, Serving, process, ExportKinds
<1>10. UnknownHanded'
  <2> SUFFICES ASSUME NEW x \in Slots, attempt'[x].op = "UNKNOWN"
               PROVE  \/ task'[x[1]].state = "RECOVERING"
                      \/ attempt'[x].session = session
                      \/ task'[x[1]].state \notin Executing /\ Reported(x)'
    BY <1>1 DEF UnknownHanded, Serving, Starting, process
  <2>1. attempt[x].op = "UNKNOWN"
    BY <1>5
  <2>2. x[1] # t
    BY <1>4, <2>1 DEF Finished, OpUnresolved
  <2>3. task'[x[1]] = task[x[1]] /\ attempt'[x] = attempt[x]
    BY <1>3, <1>5, <2>2, SlotTask
  <2>4. Reported(x) => Reported(x)'
    BY <1>1, ReportedKept
  <2> QED BY <1>1, <1>2, <2>1, <2>3, <2>4 DEF UnknownHanded, Serving
<1> QED BY <1>7, <1>8, <1>9, <1>10 DEF Duties

-----------------------------------------------------------------------------
(* 4. Crash, startup and recovery, and the theorems.                       *)

-----------------------------------------------------------------------------
(* Entering and leaving recovery. *)

\* The second transaction of an entry into recovery.
LEMMA EnterStep ==
  ASSUME IInv, TypeOK', EnterRecovering
  PROVE  Duties'
<1>0. PICK t : t = call.ref.task
  OBVIOUS
<1>1. /\ call.kind = "ENTER" /\ call' = Idle /\ UNCHANGED <<attempt, assessed, mgr, session, refusal>>
      /\ task' = [task EXCEPT ![t] =
           [task[t] EXCEPT !.state = "RECOVERING", !.revision = task[t].revision + 1,
                           !.recovery = call.ref]]
      /\ todo' = todo \ {t}
  BY <1>0 DEF EnterRecovering, Visited
<1>2. /\ task \in [Tasks -> TaskRow] /\ StoreInv /\ PhaseInv /\ CallInv /\ UnknownHanded
      /\ TypeOK /\ todo \subseteq Tasks
  BY DEF IInv, Duties, TypeOK
<1>3. /\ t \in Tasks /\ mgr \in {"READY", "HANDOFF", "RECOVER"} /\ task[t].state \in Executing
      /\ call.ref = CurrentRef(t) /\ HasRows(call.ref) /\ task[t].revision \in Nat
  BY <1>0, <1>1, <1>2 DEF CallInv, TaskRow
<1>4. /\ task'[t].state = "RECOVERING" /\ task'[t].revision = task[t].revision + 1
      /\ task'[t].recovery = call.ref
      /\ \A u \in Tasks : u # t => task'[u] = task[u]
  BY <1>1, <1>2, <1>3 DEF TaskRow
<1>5. StoreInv'
  <2>1. Fresh' /\ Blank' /\ Issued' /\ OwnedShape' /\ OlderSettled'
    BY <1>1, <1>2, <1>4 DEF StoreInv, Fresh, Blank, Issued, OwnedShape, OlderSettled, Absent
  <2>2. StatesTell'
    BY <1>1, <1>2, <1>4, SlotTask DEF StoreInv, StatesTell, Still, Absent
  <2>3. RowsTell'
    <3>1. ASSUME NEW r \in assessed PROVE r.ref.basis <= task'[r.ref.task].revision
      <4>1. r.ref.task \in Tasks /\ r.ref.basis \in Nat /\ r.ref.basis <= task[r.ref.task].revision
        BY <1>2, RowSlot DEF StoreInv, RowsTell
      <4> QED BY <1>3, <1>4, <4>1
    <3> QED BY <1>1, <1>2, <3>1 DEF StoreInv, RowsTell
  <2>4. Covered'
    <3> SUFFICES ASSUME NEW u \in Tasks, task'[u].state = "RECOVERING"
                 PROVE  /\ task'[u].recovery \in RecoveryRef /\ task'[u].recovery.task = u
                        /\ \A s \in Subject :
                             OpenKind(attempt[SlotOf(u, s)], s[1]) => s \in task'[u].recovery.ids
                        /\ HasRows(task[u].recovery)'
      BY <1>1 DEF Covered
    <3>1. ASSUME NEW ref, ref = task'[u].recovery, HasRows(ref) PROVE HasRows(task[u].recovery)'
      BY <1>1, <3>1 DEF HasRows
    <3>2. CASE u # t
      BY <1>2, <1>4, <3>1, <3>2 DEF StoreInv, Covered
    <3>3. CASE u = t
      <4>1. Blank
        BY <1>2 DEF StoreInv
      <4>2. CurrentRef(t) \in RecoveryRef /\ CurrentRef(t).task = t /\ CurrentRef(t).ids = Unresolved(t)
        BY <1>2, <1>3, <4>1, InventoryTypes DEF CurrentRef
      <4>3. \A s \in Subject : OpenKind(attempt[SlotOf(t, s)], s[1]) => s \in Unresolved(t)
        BY <1>3, <4>1, UnresolvedIs
      <4> QED BY <1>3, <1>4, <3>1, <3>3, <4>2, <4>3
    <3> QED BY <3>2, <3>3
  <2> QED BY <2>1, <2>2, <2>3, <2>4 DEF StoreInv
<1>6. PhaseInv'
  <2>1. NewSession' /\ NoneStarted' /\ NeverStranded' /\ Accepted'
    BY <1>1, <1>2, <1>3 DEF PhaseInv, NewSession, NoneStarted, NeverStranded, Accepted
  <2>2. NoStaleAuthority'
    BY <1>1, <1>2, <1>4, SlotTask DEF PhaseInv, NoStaleAuthority
  <2>3. RetirePhase' /\ ReportPhase'
    BY <1>1, <1>3 DEF RetirePhase, ReportPhase
  <2>4. RecoverPhase'
    <3> SUFFICES ASSUME mgr = "RECOVER" PROVE RecoverPhase'
      BY <1>1 DEF RecoverPhase
    <3>1. /\ \A u \in todo : task[u].state \in Executing \cup Scanned
          /\ \A u \in Tasks : task[u].state \in Prepared => QuietPlan(u)
          /\ \A u \in Tasks \ todo : task[u].state \in Executing => QuietTask(u)
      BY <1>2 DEF PhaseInv, RecoverPhase
    <3>2. \A u : (QuietTask(u)' <=> QuietTask(u)) /\ (QuietPlan(u)' <=> QuietPlan(u))
      BY <1>1 DEF QuietTask, QuietPlan
    <3>3. "RECOVERING" \notin Prepared \cup Executing
      BY DEF Prepared, Executing
    <3> QED BY <1>1, <1>2, <1>4, <3>1, <3>2, <3>3 DEF RecoverPhase
  <2> QED BY <2>1, <2>2, <2>3, <2>4 DEF PhaseInv
<1>7. CallInv'
  BY <1>1 DEF CallInv, Idle, ExportKinds
<1>8. UnknownHanded'
  BY <1>1, <1>2, <1>4, SlotTask DEF UnknownHanded, Reported
<1> QED BY <1>5, <1>6, <1>7, <1>8 DEF Duties

\* The second transaction of retiring older authority.
LEMMA ReplanStep ==
  ASSUME IInv, TypeOK', ReplanTask
  PROVE  Duties'
<1>0. PICK t : t = call.ref.task
  OBVIOUS
<1>1. /\ call.kind = "REPLAN" /\ call' = Idle /\ UNCHANGED <<attempt, assessed, mgr, session, refusal>>
      /\ \E w : task' = [task EXCEPT ![t] =
           [task[t] EXCEPT !.state = "PLANNING", !.revision = task[t].revision + 1, !.waiting = w]]
      /\ todo' = todo \ {t}
  BY <1>0 DEF ReplanTask, Visited
<1>2. /\ task \in [Tasks -> TaskRow] /\ StoreInv /\ PhaseInv /\ CallInv
      /\ UnknownHanded /\ TypeOK /\ todo \subseteq Tasks
  BY DEF IInv, Duties, TypeOK
<1>3. /\ t \in Tasks /\ mgr = "RETIRE" /\ task[t].state \in {"WAITING_FOR_AUTH", "RUNNABLE"}
      /\ QuietPlan(t) /\ task[t].revision \in Nat
  BY <1>0, <1>1, <1>2 DEF CallInv, TaskRow
<1>4. /\ task'[t].state = "PLANNING" /\ task'[t].revision = task[t].revision + 1
      /\ \A u \in Tasks : u # t => task'[u] = task[u]
  BY <1>1, <1>2, <1>3 DEF TaskRow
<1>5. StoreInv'
  <2>1. Fresh' /\ Blank' /\ Issued' /\ OwnedShape' /\ OlderSettled'
    BY <1>1, <1>2, <1>4 DEF StoreInv, Fresh, Blank, Issued, OwnedShape, OlderSettled, Absent
  <2>2. StatesTell'
    BY <1>1, <1>2, <1>3, <1>4, SlotTask DEF StoreInv, StatesTell, QuietPlan, Quiet, Still, Absent
  <2>3. RowsTell'
    <3>1. ASSUME NEW r \in assessed PROVE r.ref.basis <= task'[r.ref.task].revision
      <4>1. r.ref.task \in Tasks /\ r.ref.basis \in Nat /\ r.ref.basis <= task[r.ref.task].revision
        BY <1>2, RowSlot DEF StoreInv, RowsTell
      <4> QED BY <1>3, <1>4, <4>1
    <3> QED BY <1>1, <1>2, <3>1 DEF StoreInv, RowsTell
  <2>4. Covered'
    BY <1>1, <1>2, <1>4 DEF StoreInv, Covered, HasRows
  <2> QED BY <2>1, <2>2, <2>3, <2>4 DEF StoreInv
<1>6. PhaseInv'
  <2>1. NewSession' /\ NoneStarted' /\ NeverStranded' /\ Accepted'
    BY <1>1, <1>2, <1>3 DEF PhaseInv, NewSession, NoneStarted, NeverStranded, Accepted
  <2>2. NoStaleAuthority' /\ RecoverPhase' /\ ReportPhase'
    BY <1>1, <1>3 DEF NoStaleAuthority, RecoverPhase, ReportPhase
  <2>3. RetirePhase'
    <3>1. \A u : QuietPlan(u)' <=> QuietPlan(u)
      BY <1>1 DEF QuietPlan
    <3> QED BY <1>1, <1>2, <1>3, <1>4, <3>1 DEF PhaseInv, RetirePhase
  <2> QED BY <2>1, <2>2, <2>3 DEF PhaseInv
<1>7. CallInv'
  BY <1>1 DEF CallInv, Idle, ExportKinds
<1>8. UnknownHanded'
  <2>1. \A x \in Slots : attempt[x].op = "UNKNOWN" =>
          task[x[1]].state \in Executing \cup {"RECOVERING"} \/ Reported(x)
    BY <1>2, <1>3 DEF UnknownHanded, Starting
  <2>2. \A x \in Slots : Reported(x)' <=> Reported(x)
    BY <1>1 DEF Reported
  <2> QED BY <1>1, <1>3, <1>4, <2>1, <2>2, SlotTask DEF UnknownHanded, Executing
<1> QED BY <1>5, <1>6, <1>7, <1>8 DEF Duties

-----------------------------------------------------------------------------
(* Crash and startup. *)

\* A process that is neither starting nor serving owes only the store.
LEMMA DeadProcess ==
  ASSUME IInv, TypeOK', UNCHANGED durable, UNCHANGED session, call' = Idle,
         mgr' \in {"DOWN", "REFUSED"}, NeverStranded', Accepted'
  PROVE  Duties'
<1>1. StoreInv'
  <2>1. AllCalmer /\ SameTasks /\ UNCHANGED assessed
    BY CalmFacts DEF AllCalmer, SameTasks, durable
  <2>2. session <= session'
    BY DEF IInv, TypeOK
  <2> QED BY <2>1, <2>2, CalmStore DEF IInv, Duties
<1>2. PhaseInv'
  BY DEF PhaseInv, NewSession, NoneStarted, RetirePhase, RecoverPhase, ReportPhase,
         NoStaleAuthority, Starting
<1>3. CallInv'
  BY DEF CallInv, Idle, ExportKinds
<1>4. UnknownHanded'
  BY DEF UnknownHanded, Starting
<1> QED BY <1>1, <1>2, <1>3, <1>4 DEF Duties

\* The process dies.
LEMMA CrashStep == ASSUME IInv, TypeOK', Crash PROVE Duties'
<1>1. refusal' = "NONE" /\ mgr' = "DOWN"
  BY DEF Crash, IInv, Duties, PhaseInv, Accepted, Starting
<1>2. NeverStranded' /\ Accepted'
  BY <1>1 DEF NeverStranded, Accepted
<1> QED BY <1>1, <1>2, DeadProcess DEF Crash

\* Startup gives up for a reason that does not strand a Task.
LEMMA RefuseStep ==
  ASSUME IInv, TypeOK', NEW reason \in {"EVIDENCE_REUSED", "OBSOLETE_AUTHORITY_USED"},
         Refuse(reason)
  PROVE  Duties'
<1>1. NeverStranded' /\ Accepted'
  BY DEF Refuse, NeverStranded, Accepted
<1> QED BY <1>1, DeadProcess DEF Refuse

\* Between two operations the process holds none.
LEMMA NoCallOutside ==
  ASSUME IInv, mgr \in {"DOWN", "REFUSED", "EXPORTS", "REPORT"}
  PROVE  call.kind = "IDLE"
BY DEF IInv, TypeOK, CallType, Duties, CallInv, ExportInv, InPipeline, ExportKinds

\* A new process starts: every grant is of an older session.
LEMMA StartStep == ASSUME IInv, TypeOK', Start PROVE Duties'
<1>1. /\ UNCHANGED <<task, attempt, assessed, todo, call>> /\ mgr' = "EXPORTS"
      /\ session' = session + 1 /\ refusal' = "NONE" /\ mgr \in {"DOWN", "REFUSED"}
  BY DEF Start, durable
<1>2. session \in Nat /\ call.kind = "IDLE"
  BY <1>1, NoCallOutside, StoreAssumption DEF IInv, TypeOK
<1>3. StoreInv'
  <2>1. AllCalmer /\ SameTasks
    BY <1>1, CalmFacts DEF AllCalmer, SameTasks
  <2>2. session <= session'
    BY <1>1, <1>2
  <2> QED BY <1>1, <2>1, <2>2, CalmStore DEF IInv, Duties
<1>4. NewSession'
  <2>1. \A x \in Slots : attempt[x].session \in Nat /\ attempt[x].session <= session
    BY DEF IInv, Duties, StoreInv, Issued, TypeOK, AttemptRow
  <2> QED BY <1>1, <1>2, <2>1 DEF NewSession
<1>5. PhaseInv'
  BY <1>1, <1>4 DEF PhaseInv, NoneStarted, RetirePhase, RecoverPhase, ReportPhase,
         NoStaleAuthority, NeverStranded, Accepted, Starting
<1>6. CallInv'
  BY <1>1, <1>2 DEF CallInv, ExportKinds
<1>7. UnknownHanded'
  BY <1>1 DEF UnknownHanded, Starting
<1> QED BY <1>3, <1>5, <1>6, <1>7 DEF Duties

\* Settling the interrupted exports of the store.
LEMMA SettleStep == ASSUME IInv, TypeOK', SettleExports PROVE Duties'
<1>1. /\ mgr = "EXPORTS" /\ mgr' = "HANDOFF" /\ UNCHANGED <<task, assessed, call, session, refusal>>
      /\ attempt' = [x \in Slots |-> Settled(attempt[x])]
      /\ \A x \in Slots : Settled(attempt[x]).op = "UNKNOWN" => x[1] \in todo'
  BY DEF SettleExports
<1>2. ASSUME NEW x \in Slots
      PROVE  Calmer(attempt[x], attempt'[x]) /\ attempt'[x].op # "STARTED"
  <2>1. attempt[x] \in AttemptRow /\ (attempt[x].step = "ABSENT" => attempt[x].op = "NONE")
    BY DEF IInv, TypeOK, Duties, StoreInv, Blank
  <2>2. attempt'[x] = Settled(attempt[x])
    BY <1>1
  <2> QED BY <2>1, <2>2 DEF Settled, Calmer, AttemptRow
<1>3. AllCalmer /\ SameTasks
  BY <1>1, <1>2 DEF AllCalmer, SameTasks
<1>4. call.kind = "IDLE"
  BY <1>1, NoCallOutside
<1>5. StoreInv'
  <2>1. session <= session'
    BY <1>1 DEF IInv, TypeOK
  <2> QED BY <1>1, <1>3, <2>1, CalmStore DEF IInv, Duties
<1>6. PhaseInv'
  <2>1. NewSession'
    BY <1>1, <1>2 DEF IInv, Duties, PhaseInv, NewSession, Calmer, Starting
  <2>2. NoneStarted'
    BY <1>2 DEF NoneStarted
  <2> QED BY <1>1, <2>1, <2>2 DEF PhaseInv, RetirePhase, RecoverPhase, ReportPhase,
         NoStaleAuthority, NeverStranded, Accepted, IInv, Duties
<1>7. CallInv'
  BY <1>1, <1>4 DEF CallInv, ExportKinds
<1>8. UnknownHanded'
  BY <1>1 DEF UnknownHanded
<1> QED BY <1>5, <1>6, <1>7, <1>8 DEF Duties

\* The first transaction of a startup entry.
LEMMA BeginStep ==
  ASSUME IInv, TypeOK', NEW t \in Tasks, BeginRecovery(t), mgr \in {"HANDOFF", "RECOVER"},
         task[t].state \in Executing
  PROVE  Duties'
<1>1. CASE EvidenceConflict(t, CurrentRef(t))
  BY <1>1, RefuseStep DEF BeginRecovery
<1>2. CASE ~EvidenceConflict(t, CurrentRef(t))
  <2>1. /\ PersistInventory(t, CurrentRef(t)) /\ call' = Enter(CurrentRef(t))
        /\ UNCHANGED <<task, attempt, mgr, todo, session, refusal>>
    BY <1>2 DEF BeginRecovery
  <2>2. call'.kind = "ENTER" /\ call'.ref = CurrentRef(t) /\ call'.ref.task = t
    BY <2>1 DEF Enter, CurrentRef
  <2>3. StoreInv'
    BY <2>1, PersistStore DEF IInv, Duties
  <2>4. PhaseInv'
    <3>1. AllCalmer /\ SameTasks
      BY <2>1, CalmFacts DEF AllCalmer, SameTasks
    <3> QED BY <2>1, <3>1, CalmPhase DEF IInv, Duties
  <2>5. CallInv'
    <3>1. CurrentRef(t)' = CurrentRef(t)
      BY <2>1 DEF CurrentRef, Unresolved, AttemptsOf
    <3>2. HasRows(CurrentRef(t))'
      BY <2>1, InventoryHasRows
    <3> QED BY <2>1, <2>2, <3>1, <3>2 DEF CallInv, ExportKinds
  <2>6. UnknownHanded'
    <3>1. AllCalmer /\ SameTasks /\ assessed \subseteq assessed'
      BY <2>1, CalmFacts DEF AllCalmer, SameTasks, PersistInventory
    <3> QED BY <2>1, <3>1, CalmUnknown DEF IInv, Duties
  <2> QED BY <2>3, <2>4, <2>5, <2>6 DEF Duties
<1> QED BY <1>1, <1>2

\* The process moves on to the next Task of its list, or stays where it is.
LEMMA VisitedPhase ==
  ASSUME TypeOK, PhaseInv, NEW t \in Tasks, UNCHANGED <<task, attempt>>, Visited(t),
         mgr \in {"HANDOFF", "REPORT"} \/ (mgr = "RECOVER" /\ QuietTask(t))
  PROVE  PhaseInv'
<1>1. UNCHANGED <<task, attempt, mgr, session, refusal>> /\ todo' = todo \ {t}
  BY DEF Visited
<1>2. \A u : (QuietTask(u)' <=> QuietTask(u)) /\ (QuietPlan(u)' <=> QuietPlan(u))
  BY <1>1 DEF QuietTask, QuietPlan
<1>3. NewSession' /\ NoneStarted' /\ NeverStranded' /\ NoStaleAuthority' /\ Accepted'
  BY <1>1 DEF PhaseInv, NewSession, NoneStarted, NeverStranded, NoStaleAuthority, Accepted
<1>4. RetirePhase' /\ ReportPhase'
  BY <1>1, <1>2 DEF PhaseInv, RetirePhase, ReportPhase
<1>5. RecoverPhase'
  BY <1>1, <1>2 DEF PhaseInv, RecoverPhase
<1> QED BY <1>3, <1>4, <1>5 DEF PhaseInv

\* Moving on changes nothing else.
LEMMA VisitStep ==
  ASSUME IInv, TypeOK', NEW t \in Tasks, Visited(t), UNCHANGED durable, UNCHANGED call,
         call.kind = "IDLE",
         \/ mgr = "HANDOFF" /\ task[t].state = "RECOVERING"
         \/ mgr = "RECOVER" /\ QuietTask(t)
  PROVE  Duties'
<1>1. UNCHANGED <<task, attempt, assessed>> /\ UNCHANGED <<mgr, session>>
  BY DEF Visited, durable
<1>2. StoreInv'
  <2>1. AllCalmer /\ SameTasks
    BY <1>1, CalmFacts DEF AllCalmer, SameTasks
  <2>2. session <= session'
    BY <1>1 DEF IInv, TypeOK
  <2> QED BY <1>1, <2>1, <2>2, CalmStore DEF IInv, Duties
<1>3. PhaseInv'
  BY <1>1, VisitedPhase DEF IInv, Duties
<1>4. CallInv'
  BY <1>1 DEF CallInv, ExportKinds
<1>5. UnknownHanded'
  BY <1>1 DEF UnknownHanded, Reported, Starting, Visited, IInv, Duties
<1> QED BY <1>2, <1>3, <1>4, <1>5 DEF Duties

\* An inventory that is only reported.
LEMMA ReportStep ==
  ASSUME IInv, TypeOK', NEW t \in Tasks, ReportInventory(t), mgr \in {"HANDOFF", "REPORT"},
         call.kind = "IDLE"
  PROVE  Duties'
<1>1. CASE EvidenceConflict(t, CurrentRef(t))
  BY <1>1, RefuseStep DEF ReportInventory
<1>2. CASE ~EvidenceConflict(t, CurrentRef(t))
  <2>1. /\ PersistInventory(t, CurrentRef(t)) /\ Visited(t) /\ UNCHANGED <<task, attempt, call>>
        /\ UNCHANGED <<mgr, session>>
    BY <1>2 DEF ReportInventory, Visited
  <2>2. StoreInv'
    BY <2>1, PersistStore DEF IInv, Duties
  <2>3. PhaseInv'
    BY <2>1, VisitedPhase DEF IInv, Duties
  <2>4. CallInv'
    BY <2>1 DEF CallInv, ExportKinds
  <2>5. ASSUME NEW x \in Slots, attempt[x].op = "UNKNOWN", x[1] = t PROVE Reported(x)'
    <3> DEFINE s == <<"operation", x[2], x[3]>>
    <3>1. s \in Subject /\ SlotOf(t, s) = x /\ s[1] = "operation"
      BY <2>5, SlotTask DEF Subject, SlotOf
    <3> HIDE DEF s
    <3>2. s \in Unresolved(t)
      BY <2>5, <3>1, UnresolvedIs DEF IInv, Duties, StoreInv, OpenKind, OpUnresolved
    <3> DEFINE r == [ref |-> CurrentRef(t), subject |-> s, evidence |-> EvidenceOf(t, s)]
    <3>3. r \in assessed' /\ r.ref.task = t /\ r.subject = s
      BY <2>1, <3>2 DEF PersistInventory, SubjectRows, CurrentRef
    <3> HIDE DEF r
    <3> QED BY <2>5, <3>3 DEF Reported, s
  <2>6. UnknownHanded'
    <3>1. \A x \in Slots : Reported(x) => Reported(x)'
      BY <2>1, ReportedKept DEF PersistInventory
    <3> QED BY <2>1, <2>5, <3>1 DEF UnknownHanded, Starting, Visited, IInv, Duties
  <2> QED BY <2>2, <2>3, <2>4, <2>6 DEF Duties
<1> QED BY <1>1, <1>2

\* Retiring the authority of older sessions: every grant of the Task is one.
LEMMA RetireStep ==
  ASSUME IInv, TypeOK', NEW t \in Tasks, RetireTask(t)
  PROVE  Duties'
<1>1. mgr = "RETIRE" /\ call.kind = "IDLE" /\ t \in todo
  BY DEF RetireTask
<1>2. CASE Refuse("OBSOLETE_AUTHORITY_USED")
  BY <1>2, RefuseStep
<1>3. CASE ~Refuse("OBSOLETE_AUTHORITY_USED")
  <2>1. /\ attempt' = [x \in Slots |->
             IF x \in AttemptsOf(t) /\ attempt[x].session # session
             THEN Revoked(attempt[x]) ELSE attempt[x]]
        /\ UNCHANGED <<task, assessed>> /\ UNCHANGED <<mgr, session, refusal>> /\ Unused(t)
        /\ \/ task[t].state = "PLANNING" /\ call' = Idle /\ todo' = todo \ {t}
           \/ task[t].state # "PLANNING" /\ call' = Replan(t) /\ todo' = todo
    BY <1>3 DEF RetireTask, Visited
  <2>2. /\ StoreInv /\ PhaseInv /\ UnknownHanded /\ TypeOK /\ attempt \in [Slots -> AttemptRow]
        /\ todo \subseteq Tasks
    BY DEF IInv, Duties, TypeOK
  <2>3. task[t].state \in Prepared
    BY <1>1, <2>2 DEF PhaseInv, RetirePhase
  <2>4. ASSUME NEW x \in Slots
        PROVE  /\ Calmer(attempt[x], attempt'[x])
               /\ x[1] # t => attempt'[x] = attempt[x]
               /\ x[1] = t => Quiet(attempt'[x])
    <3>1. attempt[x] \in AttemptRow
      BY <2>2
    <3>2. CASE x \in AttemptsOf(t) /\ attempt[x].session # session
      <4>1. attempt'[x] = Revoked(attempt[x]) /\ x[1] = t /\ attempt[x].step # "ABSENT"
        BY <2>1, <3>2 DEF AttemptsOf
      <4>2. Calmer(attempt[x], Revoked(attempt[x]))
        BY <3>1, <4>1, CalmWrites
      <4>3. Revoked(attempt[x]).egress # "ACTIVE" /\ Revoked(attempt[x]).write # "ACTIVE"
        BY <3>1 DEF Revoked, AttemptRow
      <4>4. Finished(attempt[x])
        BY <2>1, <3>2 DEF Unused, Finished, OpUnresolved
      <4> QED BY <4>1, <4>2, <4>3, <4>4, CalmFacts DEF Quiet
    <3>3. CASE ~(x \in AttemptsOf(t) /\ attempt[x].session # session)
      <4>1. attempt'[x] = attempt[x]
        BY <2>1, <3>3
      <4>2. x[1] = t => attempt[x].step = "ABSENT"
        BY <1>1, <2>2, <3>3 DEF AttemptsOf, PhaseInv, NewSession, Starting
      <4>3. x[1] = t => Quiet(attempt[x])
        BY <2>2, <4>2 DEF StoreInv, Blank, Quiet, Finished, OpUnresolved
      <4> QED BY <4>1, <4>3, CalmFacts
    <3> QED BY <3>2, <3>3
  <2>5. AllCalmer /\ SameTasks /\ QuietPlan(t)'
    BY <2>1, <2>4 DEF AllCalmer, SameTasks, QuietPlan
  <2>6. StoreInv'
    <3>1. session <= session'
      BY <2>1 DEF IInv, TypeOK
    <3> QED BY <2>1, <2>2, <2>5, <3>1, CalmStore
  <2>7. PhaseInv'
    <3>1. NewSession' /\ NoneStarted' /\ NeverStranded' /\ Accepted'
      BY <1>1, <2>1, <2>2, <2>4 DEF PhaseInv, NewSession, NoneStarted, NeverStranded, Accepted, Calmer
    <3>2. NoStaleAuthority' /\ RecoverPhase' /\ ReportPhase'
      BY <1>1, <2>1 DEF NoStaleAuthority, RecoverPhase, ReportPhase
    <3>3. ASSUME NEW u \in Tasks, QuietPlan(u) PROVE QuietPlan(u)'
      BY <2>4, <3>3, CalmFacts DEF QuietPlan
    <3>4. RetirePhase'
      BY <1>1, <2>1, <2>2, <2>5, <3>3 DEF PhaseInv, RetirePhase
    <3> QED BY <3>1, <3>2, <3>4 DEF PhaseInv
  <2>8. CallInv'
    <3>1. CASE call' = Idle
      BY <3>1 DEF CallInv, Idle, ExportKinds
    <3>2. CASE call' = Replan(t) /\ task[t].state # "PLANNING"
      <4>1. call'.kind = "REPLAN" /\ call'.ref.task = t
        BY <3>2 DEF Replan, NoRef
      <4>2. task[t].state \in {"WAITING_FOR_AUTH", "RUNNABLE"}
        BY <2>3, <3>2 DEF Prepared
      <4> QED BY <1>1, <2>1, <2>5, <4>1, <4>2 DEF CallInv, ExportKinds
    <3> QED BY <2>1, <3>1, <3>2
  <2>9. UnknownHanded'
    BY <1>1, <2>1, <2>2, <2>5, CalmUnknown
  <2> QED BY <2>6, <2>7, <2>8, <2>9 DEF Duties
<1> QED BY <1>2, <1>3

\* What recover_startup finds unresolved is of an executing Task, or of an
\* export its owner asked for.
LEMMA RecoverStep ==
  ASSUME IInv, TypeOK', NEW t \in Tasks, RecoverTask(t)
  PROVE  Duties'
<1>1. mgr = "RECOVER" /\ call.kind = "IDLE" /\ t \in todo
  BY DEF RecoverTask
<1>2. Blank /\ StatesTell /\ OwnedShape /\ RecoverPhase /\ NoneStarted
  BY DEF IInv, Duties, StoreInv, PhaseInv
<1>3. Unresolved(t) = {} <=> QuietTask(t)
  BY <1>2, ContainedIs
<1>4. CASE Unresolved(t) = {}
  BY <1>1, <1>3, <1>4, VisitStep DEF RecoverTask
<1>5. CASE Unresolved(t) # {} /\ task[t].state \in Executing
  <2>1. BeginRecovery(t)
    BY <1>5 DEF RecoverTask
  <2> QED BY <1>1, <1>5, <2>1, BeginStep
<1>6. CASE Unresolved(t) # {} /\ task[t].state \notin Executing
  <2>1. Refuse("UNRESOLVED_NOT_EXECUTING")
    BY <1>6 DEF RecoverTask
  <2>2. task[t].state \in Scanned
    BY <1>1, <1>2, <1>6 DEF RecoverPhase
  <2>3. QuietPlan(t)
    <3>1. CASE task[t].state = "WAITING_FOR_INPUT"
      BY <1>2, <3>1 DEF StatesTell, Still, QuietPlan
    <3>2. CASE task[t].state # "WAITING_FOR_INPUT"
      BY <1>1, <1>2, <2>2, <3>2 DEF RecoverPhase, Scanned, Prepared
    <3> QED BY <3>1, <3>2
  <2>4. PICK x \in Slots : x[1] = t /\ ~Quiet(attempt[x])
    BY <1>3, <1>6 DEF QuietTask
  <2>5. ~OfPlan(x)
    BY <2>3, <2>4 DEF QuietPlan
  <2>6. x[2] = Owner /\ attempt[x].op = "UNKNOWN"
    BY <1>1, <1>2, <2>4, <2>5 DEF OwnedShape, OfPlan, NoneStarted, Quiet, Finished, OpUnresolved, Starting
  <2>7. NeverStranded' /\ Accepted'
    BY <2>1, <2>2, <2>4, <2>6 DEF Refuse, NeverStranded, Accepted, Scanned, durable
  <2> QED BY <2>1, <2>7, DeadProcess DEF Refuse
<1> QED BY <1>4, <1>5, <1>6

\* The next phase of startup, when it finds what it needs.
LEMMA PhaseStep ==
  ASSUME IInv, TypeOK', NEW from, NEW to, NEW list, NextPhase(from, to, list), PhaseInv',
         UnknownHanded'
  PROVE  Duties'
<1>1. /\ UNCHANGED <<task, attempt, assessed, call, session, refusal>> /\ call.kind = "IDLE"
      /\ mgr' = to
  BY DEF NextPhase, durable
<1>2. StoreInv'
  <2>1. AllCalmer /\ SameTasks
    BY <1>1, CalmFacts DEF AllCalmer, SameTasks
  <2>2. session <= session'
    BY <1>1 DEF IInv, TypeOK
  <2> QED BY <1>1, <2>1, <2>2, CalmStore DEF IInv, Duties
<1>3. CallInv'
  BY <1>1 DEF CallInv, ExportKinds
<1> QED BY <1>2, <1>3 DEF Duties

\* The phases of startup hand over what the next one relies on.
LEMMA PhasesStep ==
  ASSUME IInv, TypeOK', HandoffDone \/ RetireDone \/ RecoverDone \/ ReportDone
  PROVE  Duties'
<1>1. /\ UNCHANGED <<task, attempt, assessed, call, session, refusal>> /\ call.kind = "IDLE"
      /\ todo = {}
  BY DEF HandoffDone, RetireDone, RecoverDone, ReportDone, NextPhase, durable
<1>2. /\ StoreInv /\ PhaseInv /\ UnknownHanded /\ TypeOK
      /\ task \in [Tasks -> TaskRow]
  BY DEF IInv, Duties, TypeOK
<1>3. \A u : (QuietTask(u)' <=> QuietTask(u)) /\ (QuietPlan(u)' <=> QuietPlan(u))
  BY <1>1 DEF QuietTask, QuietPlan
<1>4. NeverStranded' /\ Accepted'
  <2>1. mgr # "REFUSED"
    BY DEF HandoffDone, RetireDone, RecoverDone, ReportDone, NextPhase
  <2> QED BY <1>1, <1>2, <2>1 DEF PhaseInv, NeverStranded, Accepted
<1>5. ASSUME mgr \in Starting \ {"EXPORTS"} PROVE NewSession' /\ NoneStarted'
  BY <1>1, <1>2, <1>5 DEF PhaseInv, NewSession, NoneStarted
<1>10. ASSUME mgr \in Starting \ {"EXPORTS"}, NEW x \in Slots, attempt[x].op = "UNKNOWN"
       PROVE  (task[x[1]].state \in Executing \cup {"RECOVERING"} \/ Reported(x))
  BY <1>1, <1>2, <1>10 DEF UnknownHanded
<1>11. \A x \in Slots : Reported(x)' <=> Reported(x)
  BY <1>1 DEF Reported
<1>12. ASSUME mgr \in Starting \ {"EXPORTS"}, mgr' \in Starting PROVE UnknownHanded'
  <2>1. mgr' # "READY"
    BY <1>12 DEF Starting
  <2> QED BY <1>1, <1>10, <1>11, <1>12, <2>1 DEF UnknownHanded
<1>6. CASE HandoffDone
  <2> DEFINE list == {t \in Tasks :
               /\ task[t].state \in {"PLANNING", "WAITING_FOR_AUTH", "RUNNABLE"}
               /\ \E x \in AttemptsOf(t) : attempt[x].step # "OWNED" /\ attempt[x].session # session}
  <2>1. mgr = "HANDOFF" /\ mgr' = "RETIRE" /\ todo' = list /\ NextPhase("HANDOFF", "RETIRE", list)
    BY <1>6 DEF HandoffDone, NextPhase, OlderAuthority
  <2>2. ASSUME NEW t \in Tasks \ list, task[t].state \in Prepared PROVE QuietPlan(t)
    <3>1. \A x \in AttemptsOf(t) : attempt[x].step = "OWNED" \/ attempt[x].session = session
      BY <2>2 DEF Prepared
    <3>2. ASSUME NEW x \in Slots, x[1] = t, OfPlan(x) PROVE attempt[x].step = "ABSENT"
      BY <1>2, <2>1, <3>1, <3>2 DEF AttemptsOf, PhaseInv, NewSession, StoreInv, OwnedShape, Starting
    <3> QED BY <1>2, <3>2 DEF StoreInv, Blank, QuietPlan, Quiet, Finished, OpUnresolved
  <2>3. \A t \in list : task[t].state \in Prepared
    BY DEF Prepared
  <2> HIDE DEF list
  <2>4. RetirePhase'
    BY <1>1, <1>3, <2>1, <2>2, <2>3 DEF RetirePhase
  <2>5. PhaseInv'
    BY <1>4, <1>5, <2>1, <2>4 DEF PhaseInv, RecoverPhase, ReportPhase, NoStaleAuthority, Starting
  <2>6. UnknownHanded'
    BY <1>12, <2>1 DEF Starting
  <2> QED BY <2>1, <2>5, <2>6, PhaseStep
<1>7. CASE RetireDone
  <2> DEFINE list == {t \in Tasks :
        task[t].state \in Executing \cup {"RUNNABLE", "WAITING_FOR_INPUT", "WAITING_FOR_AUTH"}}
  <2>1. mgr = "RETIRE" /\ mgr' = "RECOVER" /\ todo' = list /\ NextPhase("RETIRE", "RECOVER", list)
    BY <1>7 DEF RetireDone, NextPhase
  <2>2. \A t \in Tasks : task[t].state \in Prepared => QuietPlan(t)
    BY <1>1, <1>2, <2>1 DEF PhaseInv, RetirePhase
  <2>3. \A t \in list : task[t].state \in Executing \cup Scanned
    BY DEF Scanned
  <2>4. \A t \in Tasks \ list : task[t].state \notin Executing
    OBVIOUS
  <2> HIDE DEF list
  <2>5. RecoverPhase'
    BY <1>1, <1>3, <2>1, <2>2, <2>3, <2>4 DEF RecoverPhase
  <2>6. PhaseInv'
    BY <1>4, <1>5, <2>1, <2>5 DEF PhaseInv, RetirePhase, ReportPhase, NoStaleAuthority, Starting
  <2>7. UnknownHanded'
    BY <1>12, <2>1 DEF Starting
  <2> QED BY <2>1, <2>6, <2>7, PhaseStep
<1>8. CASE RecoverDone
  <2> DEFINE list == {t \in Tasks : task[t].state \in Terminal /\ Unresolved(t) # {}}
  <2>1. mgr = "RECOVER" /\ mgr' = "REPORT" /\ todo' = list /\ NextPhase("RECOVER", "REPORT", list)
    BY <1>8 DEF RecoverDone, NextPhase
  <2> HIDE DEF list
  <2>2. ReportPhase'
    BY <1>1, <1>2, <1>3, <2>1 DEF PhaseInv, RecoverPhase, ReportPhase
  <2>3. PhaseInv'
    BY <1>4, <1>5, <2>1, <2>2 DEF PhaseInv, RetirePhase, RecoverPhase, NoStaleAuthority, Starting
  <2>4. UnknownHanded'
    BY <1>12, <2>1 DEF Starting
  <2> QED BY <2>1, <2>3, <2>4, PhaseStep
<1>9. CASE ReportDone
  <2>1. mgr = "REPORT" /\ mgr' = "READY" /\ NextPhase("REPORT", "READY", {})
    BY <1>9 DEF ReportDone, NextPhase
  <2>2. \A t \in Tasks : /\ task[t].state \in Prepared => QuietPlan(t)
                         /\ task[t].state \in Executing => QuietTask(t)
    BY <1>2, <2>1 DEF PhaseInv, ReportPhase
  <2>3. ASSUME NEW x \in Slots, task[x[1]].state \notin {"RECOVERING"} \cup Terminal, OfPlan(x)
        PROVE  Quiet(attempt[x])
    <3>1. task[x[1]].state \in TaskState \cup {Absent}
      BY <1>2, SlotTask DEF TaskRow
    <3>2. task[x[1]].state \in Prepared \cup Executing \cup Still
      BY <2>3, <3>1 DEF TaskState, Terminal, Prepared, Executing, Still
    <3>3. task[x[1]].state \in Still => Quiet(attempt[x])
      BY <1>2, <2>3 DEF StoreInv, StatesTell
    <3> QED BY <2>2, <2>3, <3>2, <3>3, SlotTask DEF QuietTask, QuietPlan
  <2>4. NoStaleAuthority'
    <3>1. \A x \in Slots : ~OfPlan(x) => attempt[x].egress # "ACTIVE" /\ attempt[x].write # "ACTIVE"
      BY <1>2 DEF StoreInv, OwnedShape
    <3> QED BY <1>1, <2>3, <3>1 DEF NoStaleAuthority, Quiet
  <2>5. PhaseInv'
    BY <1>4, <2>1, <2>4 DEF PhaseInv, NewSession, NoneStarted, RetirePhase, RecoverPhase,
           ReportPhase, Starting
  <2>6. UnknownHanded'
    <3>1. ASSUME NEW x \in Slots, attempt[x].op = "UNKNOWN"
          PROVE  task[x[1]].state = "RECOVERING" \/ (task[x[1]].state \notin Executing /\ Reported(x))
      <4>1. task[x[1]].state \in Executing \cup {"RECOVERING"} \/ Reported(x)
        BY <1>10, <2>1, <3>1 DEF Starting
      <4>2. task[x[1]].state \notin Executing
        BY <2>2, <3>1, SlotTask DEF QuietTask, Quiet, Finished, OpUnresolved
      <4> QED BY <4>1, <4>2
    <3> QED BY <1>1, <1>11, <2>1, <3>1 DEF UnknownHanded, Starting
  <2> QED BY <2>1, <2>5, <2>6, PhaseStep
<1> QED BY <1>6, <1>7, <1>8, <1>9

\* The visit of one Task in a phase.
LEMMA VisitKept ==
  ASSUME IInv, TypeOK', NEW t \in Tasks,
         HandoffTask(t) \/ RetireTask(t) \/ RecoverTask(t) \/ ReportTask(t)
  PROVE  Duties'
<1>1. CASE HandoffTask(t)
  <2>1. mgr = "HANDOFF" /\ call.kind = "IDLE"
    BY <1>1 DEF HandoffTask
  <2>2. CASE task[t].state \in Executing
    BY <1>1, <2>1, <2>2, BeginStep DEF HandoffTask
  <2>3. CASE task[t].state = "RECOVERING"
    BY <1>1, <2>1, <2>3, VisitStep DEF HandoffTask, Executing
  <2>4. CASE task[t].state \notin Executing \cup {"RECOVERING"}
    BY <1>1, <2>1, <2>4, ReportStep DEF HandoffTask
  <2> QED BY <2>2, <2>3, <2>4
<1>2. CASE ReportTask(t)
  BY <1>2, ReportStep DEF ReportTask
<1> QED BY <1>1, <1>2, RetireStep, RecoverStep

-----------------------------------------------------------------------------
(* The invariant is inductive. *)

\* It holds of an empty store before the first start.
LEMMA InitIInv == Init => IInv
<1> SUFFICES ASSUME Init PROVE IInv
  OBVIOUS
<1>1. ExportInv
  BY InitExportInv
<1>2. \A t \in Tasks : task[t] = NoTask
  BY DEF Init
<1>3. \A x \in Slots : attempt[x] = NoAttempt
  BY DEF Init
<1>4. \A x \in Slots : Quiet(attempt[x]) /\ attempt[x].session = 0 /\ attempt[x].op = "NONE"
                       /\ attempt[x].egress = "NONE" /\ attempt[x].write = "NONE"
                       /\ attempt[x].result = "NONE" /\ attempt[x].step = "ABSENT"
  BY <1>3 DEF NoAttempt, Quiet, Finished, OpUnresolved
<1>5. TypeOK
  <2>1. NoTask \in TaskRow
    BY DEF NoTask, TaskRow, Waiting, Approval, Failure
  <2>2. task \in [Tasks -> TaskRow]
    BY <2>1 DEF Init
  <2>3. attempt \in [Slots -> AttemptRow]
    BY <1>1 DEF ExportInv
  <2>4. session \in 0..MaxSessions
    BY StoreAssumption DEF Init
  <2> QED BY <2>2, <2>3, <2>4, CallTypes DEF Init, TypeOK
<1>6. StoreInv
  <2>1. Fresh /\ Covered
    BY <1>2 DEF Fresh, Covered, NoTask, Absent
  <2>2. Blank /\ OwnedShape /\ OlderSettled /\ StatesTell
    BY <1>4 DEF Blank, OwnedShape, OlderSettled, StatesTell, Quiet, Finished
  <2>3. Issued
    BY <1>4 DEF Issued, Init
  <2>4. RowsTell
    BY DEF RowsTell, Init
  <2> QED BY <2>1, <2>2, <2>3, <2>4 DEF StoreInv
<1>7. PhaseInv
  BY DEF Init, PhaseInv, NewSession, NoneStarted, RetirePhase, RecoverPhase, ReportPhase,
         NoStaleAuthority, NeverStranded, Accepted, Starting
<1>8. CallInv /\ UnknownHanded
  BY DEF Init, CallInv, UnknownHanded, Idle, ExportKinds, Starting
<1> QED BY <1>1, <1>5, <1>6, <1>7, <1>8 DEF IInv, Duties

\* Every step of callers, providers, exports, recovery, crash and startup
\* keeps it.
LEMMA NextIInv == IInv /\ [Next]_vars => IInv'
<1> SUFFICES ASSUME IInv, [Next]_vars PROVE IInv'
  OBVIOUS
<1>1. ExportInv'
  BY NextExportInv DEF IInv, Duties, StoreInv
<1>2. CASE Next
  <2>1. TypeOK'
    BY <1>1, <1>2, TypesKept DEF IInv, Duties, StoreInv
  <2>2. ASSUME Lifecycle PROVE Duties'
    BY <2>1, <2>2, CreateStep, TransitionStep, ServingTaskStep, FinalizeStep,
       ServingAttemptStep, LapseStep DEF Lifecycle
  <2>3. ASSUME Export PROVE Duties'
    BY <2>1, <2>3, AdmitStep, AdmitOwnedStep, RetryStep, AttestStep, ServingAttemptStep, PipelineStepKept,
       HandoffLiveStep DEF Export
  <2>4. ASSUME Startup PROVE Duties'
    BY <2>1, <2>4, SettleStep, VisitKept, ReplanStep, PhasesStep DEF Startup
  <2>5. ASSUME EnterRecovering \/ Crash \/ Start PROVE Duties'
    BY <2>1, <2>5, EnterStep, CrashStep, StartStep
  <2>6. ASSUME \E r \in assessed : ReconcileSubject(r) PROVE Duties'
    BY <2>1, <2>6, ReconcileStep
  <2>7. Duties'
    BY <1>2, <2>2, <2>3, <2>4, <2>5, <2>6 DEF Next
  <2> QED BY <1>1, <2>1, <2>7 DEF IInv
<1>3. CASE UNCHANGED vars
  <2>1. TypeOK'
    BY <1>3 DEF IInv, TypeOK, vars
  <2>2. StoreInv'
    BY <1>3 DEF vars, IInv, Duties, StoreInv, Fresh, Blank, Issued, OwnedShape, OlderSettled, StatesTell,
        RowsTell, Covered, HasRows
  <2>3. PhaseInv'
    BY <1>3 DEF vars, IInv, Duties, PhaseInv, NewSession, NoneStarted, RetirePhase, RecoverPhase,
        ReportPhase, NoStaleAuthority, NeverStranded, Accepted, QuietTask, QuietPlan
  <2>4. CallInv'
    <3>1. \A t : CurrentRef(t)' = CurrentRef(t)
      BY <1>3 DEF vars, CurrentRef, Unresolved, AttemptsOf
    <3> QED BY <1>3, <3>1 DEF vars, IInv, Duties, CallInv, HasRows, QuietPlan
  <2>5. UnknownHanded'
    BY <1>3 DEF vars, IInv, Duties, UnknownHanded, Reported
  <2> QED BY <1>1, <2>1, <2>2, <2>3, <2>4, <2>5 DEF IInv, Duties
<1> QED BY <1>2, <1>3

\* The store and the process stay in step, for any number of Tasks, nodes,
\* attempts, crashes and restarts.
THEOREM ManagerInvariant == Spec => []IInv
BY InitIInv, NextIInv, PTL DEF Spec

-----------------------------------------------------------------------------
(* What the invariant gives. *)

\* Every row and every value the process holds has its type.
THEOREM ManagerTypeCorrect == Spec => []TypeOK
<1>1. IInv => TypeOK
  BY DEF IInv
<1> QED BY <1>1, ManagerInvariant, PTL

\* Whatever crashes, lapses or is retried, the store never records "no effect"
\* for a destination that was touched, nor "succeeded" for one that is not
\* complete (export_artifact with reconcile_export_operations_startup).
THEOREM ExportsTruthful == Spec => []ExportOutcomeTruthful
<1>1. IInv => ExportOutcomeTruthful
  <2> SUFFICES ASSUME IInv, NEW x \in Slots
               PROVE  /\ attempt[x].op = "FAILED" => attempt[x].sink = "UNTOUCHED"
                      /\ attempt[x].op = "SUCCEEDED" => attempt[x].sink = "COMPLETE"
                      /\ attempt[x].sink # "UNTOUCHED" =>
                           \/ attempt[x].op \in {"SUCCEEDED", "UNKNOWN"}
                           \/ attempt[x].op = "STARTED" /\ attempt[x].phase = "ARMED"
    BY DEF ExportOutcomeTruthful
  <2> QED BY DEF IInv, ExportInv, Truthful, AttemptRow, OpState
<1> QED BY <1>1, ManagerInvariant, PTL

\* A node gets a new operation only when the outcome of its older ones is
\* known (finalize_pending_authority_candidate with export admission), and a
\* Task never has two exports, its plan's or its owner's, whose effect is
\* unsettled (ensure_no_unknown_artifact_export).
THEOREM NeverRetriesBlindly == Spec => []NoBlindRetry
<1>1. IInv => NoBlindRetry
  <2> SUFFICES ASSUME IInv, NEW x \in Slots, NEW y \in Slots, x[1] = y[1]
               PROVE  /\ /\ x[2] = y[2] /\ x[2] # Owner /\ x[3] < y[3]
                         /\ attempt[y].op # "NONE"
                         => attempt[x].op \notin {"STARTED", "UNKNOWN"}
                      /\ AtRisk(x) /\ AtRisk(y) => x = y
    BY DEF NoBlindRetry
  <2>1. ASSUME x[2] = y[2], x[2] # Owner, x[3] < y[3], attempt[y].op # "NONE"
        PROVE  attempt[x].op \notin {"STARTED", "UNKNOWN"}
    BY <2>1 DEF IInv, Duties, StoreInv, Blank, OlderSettled, OfPlan, OpUnresolved
  <2>2. AtRisk(x) /\ AtRisk(y) => x = y
    BY DEF IInv, ExportInv, OneAtRisk, Risky, AtRisk
  <2> QED BY <2>1, <2>2
<1> QED BY <1>1, ManagerInvariant, PTL

\* An export of unknown outcome does not get lost: in a serving manager it is
\* in quarantine, or its handoff failed in this session, or it is the owner's
\* and reported (finish_unknown_export_operation,
\* ensure_unknown_export_recovery_inventory).
THEOREM UnknownIsQuarantined == Spec => []UncertainEffectQuarantined
<1>1. IInv => UncertainEffectQuarantined
  <2> SUFFICES ASSUME IInv, Serving, NEW x \in Slots, attempt[x].op = "UNKNOWN"
               PROVE  \/ Quarantined(x)
                      \/ /\ attempt[x].session = session
                         /\ x[2] = Owner \/ task[x[1]].state \in Executing
                      \/ x[2] = Owner /\ task[x[1]].state \notin Executing /\ Reported(x)
    BY DEF UncertainEffectQuarantined
  <2> DEFINE t == x[1]
             s == <<"operation", x[2], x[3]>>
  <2>1. t \in Tasks /\ s \in Subject /\ SlotOf(t, s) = x /\ s[1] = "operation"
    BY SlotTask DEF Subject, SlotOf
  <2>2. \/ task[t].state = "RECOVERING"
        \/ attempt[x].session = session
        \/ task[t].state \notin Executing /\ Reported(x)
    BY DEF IInv, Duties, UnknownHanded, Serving
  <2>3. task[t].state \notin Executing \cup {"RECOVERING"} => x[2] = Owner
    BY DEF IInv, Duties, StoreInv, StatesTell, OfPlan, Finished, OpUnresolved
  <2>4. CASE task[t].state = "RECOVERING"
    <3> HIDE DEF s
    <3>1. s \in task[t].recovery.ids /\ HasRows(task[t].recovery)
      BY <2>1, <2>4 DEF IInv, Duties, StoreInv, Covered, OpenKind, OpUnresolved
    <3>2. PICK r \in assessed : r.ref = task[t].recovery /\ r.subject = s
      BY <3>1 DEF HasRows
    <3> QED BY <2>4, <3>1, <3>2 DEF Quarantined, Rows, s
  <2>5. CASE task[t].state # "RECOVERING"
    BY <2>2, <2>3, <2>5
  <2> QED BY <2>4, <2>5
<1> QED BY <1>1, ManagerInvariant, PTL

\* A Task in recovery keeps an inventory of everything unresolved
\* (persist_recovery_inventory, recovery_allows_exit).
THEOREM RecoveryStaysCovered == Spec => []RecoveringCovered
<1>1. IInv => RecoveringCovered
  <2> SUFFICES ASSUME IInv, NEW t \in Tasks, task[t].state = "RECOVERING"
               PROVE  /\ Unresolved(t) \subseteq task[t].recovery.ids
                      /\ task[t].recovery.ids = {r.subject : r \in Rows(task[t].recovery)}
    BY DEF RecoveringCovered
  <2>1. /\ Blank /\ RowsTell
        /\ \A s \in Subject : OpenKind(attempt[SlotOf(t, s)], s[1]) => s \in task[t].recovery.ids
        /\ HasRows(task[t].recovery)
    BY DEF IInv, Duties, StoreInv, Covered
  <2>2. Unresolved(t) \subseteq task[t].recovery.ids
    BY <2>1, UnresolvedIs
  <2>3. ASSUME NEW r \in Rows(task[t].recovery) PROVE r.subject \in task[t].recovery.ids
    BY <2>1 DEF Rows, RowsTell
  <2>4. ASSUME NEW s \in task[t].recovery.ids PROVE \E r \in Rows(task[t].recovery) : r.subject = s
    <3>1. PICK r \in assessed : r.ref = task[t].recovery /\ r.subject = s
      BY <2>1 DEF HasRows
    <3> QED BY <3>1 DEF Rows
  <2> QED BY <2>2, <2>3, <2>4
<1> QED BY <1>1, ManagerInvariant, PTL

\* No grant of an older session is live on a Task that may act
\* (retire_obsolete_prepared_authority_startup, recover_startup).
THEOREM AuthorityEndsWithSession == Spec => []NoStaleAuthority
<1>1. IInv => NoStaleAuthority
  BY DEF IInv, Duties, PhaseInv
<1> QED BY <1>1, ManagerInvariant, PTL

\* Nothing of its plan is unresolved on a Task that has ended, and startup
\* refuses the store because of a Task it cannot take over only for an export
\* of unknown outcome that the Task's owner asked for (recover_startup).
THEOREM RecoveryMissesNothing == Spec => []NothingLeftBehind
<1>1. IInv => NothingLeftBehind
  <2> SUFFICES ASSUME IInv PROVE TerminalContained /\ NeverStranded
    BY DEF NothingLeftBehind
  <2>1. NeverStranded /\ Blank /\ StatesTell
    BY DEF IInv, Duties, PhaseInv, StoreInv
  <2>2. ASSUME NEW t \in Tasks, NEW s \in UnresolvedOfPlan(t)
        PROVE  /\ SlotOf(t, s) \in Slots /\ SlotOf(t, s)[1] = t /\ OfPlan(SlotOf(t, s))
               /\ OpenKind(attempt[SlotOf(t, s)], s[1])
    <3>1. s \in Unresolved(t) /\ s[2] # Owner
      BY DEF UnresolvedOfPlan
    <3>2. s \in Subject /\ OpenKind(attempt[SlotOf(t, s)], s[1])
      BY <2>1, <3>1, UnresolvedIs
    <3>3. SlotOf(t, s) \in Slots /\ SlotOf(t, s)[1] = t /\ SlotOf(t, s)[2] = s[2]
      BY <3>2, SubjectSlot DEF SlotOf
    <3> QED BY <3>1, <3>2, <3>3 DEF OfPlan
  <2>3. ASSUME NEW t \in Tasks, task[t].state \in {"CANCELLED", "FAILED"}
        PROVE  UnresolvedOfPlan(t) = {}
    <3> SUFFICES ASSUME NEW s \in UnresolvedOfPlan(t) PROVE FALSE
      OBVIOUS
    <3>1. Quiet(attempt[SlotOf(t, s)])
      BY <2>1, <2>2, <2>3 DEF StatesTell, Still
    <3> QED BY <2>2, <3>1 DEF Quiet, Finished, OpenKind
  <2>4. ASSUME NEW t \in Tasks, task[t].state = "COMPLETED"
        PROVE  UnresolvedOfPlan(t) \cap UnresolvedExecution(t) = {}
    <3> SUFFICES ASSUME NEW s \in UnresolvedOfPlan(t), s \in UnresolvedExecution(t) PROVE FALSE
      OBVIOUS
    <3>1. s[1] \in {"operation", "attempt"}
      BY DEF UnresolvedExecution
    <3>2. Finished(attempt[SlotOf(t, s)])
      BY <2>1, <2>2, <2>4 DEF StatesTell, Executing
    <3> QED BY <2>2, <3>1, <3>2 DEF Finished, OpenKind
  <2> QED BY <2>1, <2>3, <2>4 DEF TerminalContained
<1> QED BY <1>1, ManagerInvariant, PTL

-----------------------------------------------------------------------------
(* Refinement. *)

\* Whoever moves a Task, a caller, an export's handoff, startup or recovery,
\* moves it as the abstract ledger allows.
THEOREM ManagerImplementsLedger == Spec => ImplementsLedger
<1> DEFINE st == [t \in Tasks |-> task[t].state]
           rv == [t \in Tasks |-> task[t].revision]
<1>1. Init => Ledger!Init
  <2> SUFFICES ASSUME Init PROVE Ledger!Init
    OBVIOUS
  <2>1. \A t \in Tasks : task[t].state = Absent /\ task[t].revision = 0
    BY DEF Init, NoTask
  <2> QED BY <2>1 DEF Ledger!Init, Ledger!Absent, Absent
<1>2. IInv /\ [Next]_vars => [Ledger!Next]_<<st, rv>>
  <2> SUFFICES ASSUME IInv, [Next]_vars PROVE Ledger!Next \/ UNCHANGED <<st, rv>>
    OBVIOUS
  <2>0. task \in [Tasks -> TaskRow] /\ TypeOK /\ CallInv
    BY DEF IInv, TypeOK, Duties
  <2>1. ASSUME NEW t, NEW row, task' = [task EXCEPT ![t] = row],
               t \in Tasks => row.state = task[t].state /\ row.revision = task[t].revision
        PROVE  UNCHANGED <<st, rv>>
    BY <2>0, <2>1
  <2>2. ASSUME UNCHANGED task PROVE UNCHANGED <<st, rv>>
    BY <2>2
  <2>3. ASSUME NEW t \in Tasks, NEW to \in TaskState, task[t].state # Absent,
               ~TerminalRefuses(task[t].state, to), AllowedTransition(task[t].state, to),
               NEW row, row.state = to, row.revision = task[t].revision + 1,
               task' = [task EXCEPT ![t] = row]
        PROVE  Ledger!Next
    <3>1. st[t] = task[t].state /\ rv[t] = task[t].revision
      OBVIOUS
    <3>2. st' = [st EXCEPT ![t] = to] /\ rv' = [rv EXCEPT ![t] = rv[t] + 1]
      BY <2>0, <2>3
    <3>3. Ledger!Advance(t, to)
      BY <2>3, <3>1, <3>2 DEF Ledger!Advance, Ledger!TerminalRefuses, Ledger!AllowedTransition,
           Ledger!Terminal, Ledger!Successors, Ledger!Absent, TerminalRefuses, AllowedTransition,
           Terminal, Successors, Absent
    <3> QED BY <2>3, <3>3 DEF Ledger!Next, Ledger!TaskState, TaskState
  <2>4. ASSUME NEW t \in Tasks, CreateTask(t) PROVE Ledger!Next
    <3>1. /\ st[t] = Absent /\ st' = [st EXCEPT ![t] = "CREATED"] /\ rv' = [rv EXCEPT ![t] = 1]
      BY <2>0, <2>4 DEF CreateTask, NoTask
    <3> QED BY <3>1 DEF Ledger!Next, Ledger!Create, Ledger!Absent, Absent
  <2>5. ASSUME NEW t \in Tasks, NEW to \in TaskState, Transition(t, to) PROVE Ledger!Next
    <3> DEFINE planned == task[t].planned \/ (task[t].state = "CREATED" /\ to = "PLANNING")
    <3>1. PICK waiting, failure : Move(t, to, waiting, failure, planned)
      BY <2>5 DEF Transition
    <3> DEFINE row == [task[t] EXCEPT !.state = to, !.revision = task[t].revision + 1,
                              !.waiting = waiting, !.failure = failure, !.planned = planned]
    <3> HIDE DEF planned
    <3>2. task' = [task EXCEPT ![t] = row]
      BY <3>1 DEF Move
    <3>3. row.state = to /\ row.revision = task[t].revision + 1
      BY <2>0 DEF TaskRow
    <3> HIDE DEF row
    <3>4. /\ task[t].state # Absent /\ ~TerminalRefuses(task[t].state, to)
          /\ AllowedTransition(task[t].state, to)
      BY <2>5 DEF Transition
    <3> QED BY <2>3, <3>2, <3>3, <3>4
  <2>6. ASSUME EnterRecovering PROVE Ledger!Next
    <3>0. PICK t : t = call.ref.task
      OBVIOUS
    <3> DEFINE row == [task[t] EXCEPT !.state = "RECOVERING", !.revision = task[t].revision + 1,
                                      !.recovery = call.ref]
    <3>1. task' = [task EXCEPT ![t] = row]
      BY <2>6, <3>0 DEF EnterRecovering
    <3>2. t \in Tasks /\ task[t].state \in Executing
      BY <2>0, <2>6, <3>0 DEF EnterRecovering, CallInv
    <3>3. row.state = "RECOVERING" /\ row.revision = task[t].revision + 1
      BY <2>0, <3>2 DEF TaskRow
    <3> HIDE DEF row
    <3>4. /\ task[t].state # Absent /\ ~TerminalRefuses(task[t].state, "RECOVERING")
          /\ AllowedTransition(task[t].state, "RECOVERING") /\ "RECOVERING" \in TaskState
      BY <3>2 DEF Executing, Absent, TerminalRefuses, Terminal, AllowedTransition, Successors, TaskState
    <3> QED BY <2>3, <3>1, <3>2, <3>3, <3>4
  <2>7. ASSUME ReplanTask PROVE Ledger!Next
    <3>0. PICK t : t = call.ref.task
      OBVIOUS
    <3>1. PICK w : task' = [task EXCEPT ![t] =
            [task[t] EXCEPT !.state = "PLANNING", !.revision = task[t].revision + 1, !.waiting = w]]
      BY <2>7, <3>0 DEF ReplanTask
    <3> DEFINE row == [task[t] EXCEPT !.state = "PLANNING", !.revision = task[t].revision + 1,
                                      !.waiting = w]
    <3>2. t \in Tasks /\ task[t].state \in {"WAITING_FOR_AUTH", "RUNNABLE"}
      BY <2>0, <2>7, <3>0 DEF ReplanTask, CallInv
    <3>3. row.state = "PLANNING" /\ row.revision = task[t].revision + 1
      BY <2>0, <3>2 DEF TaskRow
    <3>4. task' = [task EXCEPT ![t] = row]
      BY <3>1
    <3> HIDE DEF row
    <3>5. /\ task[t].state # Absent /\ ~TerminalRefuses(task[t].state, "PLANNING")
          /\ AllowedTransition(task[t].state, "PLANNING") /\ "PLANNING" \in TaskState
      BY <3>2 DEF Absent, TerminalRefuses, Terminal, AllowedTransition, Successors, TaskState
    <3> QED BY <2>3, <3>2, <3>3, <3>4, <3>5
  <2>8. ASSUME NEW t \in Tasks,
               \/ RequestApproval(t) \/ RecordVerification(t)
               \/ \E d \in {"APPROVED", "DENIED"} : DecideApproval(t, d)
               \/ \E n \in Nodes : FinalizeCandidate(t, n)
        PROVE  UNCHANGED <<st, rv>>
    <3>1. \/ \E v : task' = [task EXCEPT ![t] = [task[t] EXCEPT !.approval = v]]
          \/ \E v : task' = [task EXCEPT ![t] = [task[t] EXCEPT !.verified = v]]
      BY <2>8 DEF RequestApproval, RecordVerification, DecideApproval, FinalizeCandidate
    <3>2. \A v : /\ [task[t] EXCEPT !.approval = v].state = task[t].state
                 /\ [task[t] EXCEPT !.approval = v].revision = task[t].revision
                 /\ [task[t] EXCEPT !.verified = v].state = task[t].state
                 /\ [task[t] EXCEPT !.verified = v].revision = task[t].revision
      BY <2>0 DEF TaskRow
    <3> QED BY <2>1, <3>1, <3>2
  <2>9. ASSUME NEW x \in Slots, \/ \E r \in Result \ {"NONE"} : ProviderResult(x, r)
                                \/ CloseStep(x) \/ Lapse(x) \/ RetireGrants(x)
        PROVE  UNCHANGED <<st, rv>>
    BY <2>2, <2>9 DEF ProviderResult, CloseStep, Lapse, RetireGrants
  <2>10. ASSUME Export \/ (Startup /\ ~ReplanTask) \/ Crash \/ Start
                \/ \E r \in assessed : ReconcileSubject(r)
         PROVE  UNCHANGED <<st, rv>>
    BY <2>2, <2>10, TaskStands
  <2>11. CASE UNCHANGED vars
    BY <2>2, <2>11 DEF vars
  <2>12. CASE Lifecycle
    BY <2>4, <2>5, <2>8, <2>9, <2>12 DEF Lifecycle
  <2> QED BY <2>6, <2>7, <2>10, <2>11, <2>12 DEF Next
<1> QED BY <1>1, <1>2, ManagerInvariant, PTL DEF Spec, ImplementsLedger, Ledger!Spec, Ledger!ledgerVars

=============================================================================

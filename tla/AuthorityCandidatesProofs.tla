--------------------- MODULE AuthorityCandidatesProofs ---------------------
(***************************************************************************)
(* Proofs about authority from reservation to use: it is issued only on    *)
(* what policy, owner and provider say at that moment, and whatever is     *)
(* taken back later ends it for good, for any number of candidates,        *)
(* resources, managers, activations and rules.                             *)
(***************************************************************************)
EXTENDS AuthorityCandidates, FiniteSetTheorems, WellFoundedInduction, TLAPS

-----------------------------------------------------------------------------
(* Induction, for sets of natural numbers. *)

LEMMA SetInduction ==
  ASSUME NEW T \in SUBSET Nat, 0 \in T, \A n \in T : n + 1 \in T
  PROVE  T = Nat
  <1> DEFINE R == {ss \in Nat \X Nat : ss[1] < ss[2]}
  <1>1. IsWellFoundedOn(R, Nat)
    BY NatLessThanWellFounded DEF OpToRel
  <1>2. \A x, y \in Nat : y < x => <<y, x>> \in R
    OBVIOUS
  <1> HIDE DEF R
  <1> SUFFICES ASSUME Nat \ T # {} PROVE FALSE
    OBVIOUS
  <1>3. PICK x \in Nat \ T : \A y \in Nat \ T : ~(<<y, x>> \in R)
    BY <1>1, WFMin
  <1>4. x # 0 /\ x - 1 \in Nat /\ x - 1 < x /\ (x - 1) + 1 = x
    BY <1>3
  <1>5. x - 1 \notin T
    BY <1>3, <1>4
  <1> QED BY <1>2, <1>3, <1>4, <1>5

-----------------------------------------------------------------------------
(* The evaluator. *)

\* The effects of the first n rules that speak of r.
Spoken(rules, n, r) == {rules[i].effect : i \in {j \in 1..n : rules[j].resource = r}}

\* What they come to, in whatever order they stand.
Combined(spoken) ==
  IF "DENY" \in spoken THEN "DenyPolicy"
  ELSE IF "REQUIRE_APPROVAL" \in spoken THEN "RequireApproval"
  ELSE IF spoken = {} THEN "DenyDefault"
  ELSE "Allow"

\* One more rule.
LEMMA RuleAdds ==
  ASSUME NEW rules, NEW r, NEW n \in Nat
  PROVE  AfterRule(Combined(Spoken(rules, n, r)), rules[n + 1], r) = Combined(Spoken(rules, n + 1, r))
  <1> DEFINE e == rules[n + 1].effect
             old == Spoken(rules, n, r)
  <1>1. CASE rules[n + 1].resource # r
    <2>1. Spoken(rules, n + 1, r) = old
      BY <1>1 DEF Spoken
    <2> QED BY <1>1, <2>1 DEF AfterRule
  <1>2. CASE rules[n + 1].resource = r
    <2>1. Spoken(rules, n + 1, r) = old \cup {e}
      <3>1. {j \in 1..(n + 1) : rules[j].resource = r} = {j \in 1..n : rules[j].resource = r} \cup {n + 1}
        BY <1>2
      <3> QED BY <3>1 DEF Spoken
    <2> HIDE DEF old
    <2>2. AfterRule(Combined(old), rules[n + 1], r) =
            IF Combined(old) = "DenyPolicy" THEN "DenyPolicy"
            ELSE IF e = "DENY" THEN "DenyPolicy"
            ELSE IF e = "REQUIRE_APPROVAL" \/ Combined(old) = "RequireApproval" THEN "RequireApproval"
            ELSE "Allow"
      BY <1>2 DEF AfterRule
    <2> HIDE DEF e
    <2>3. Combined(old \cup {e}) =
            IF Combined(old) = "DenyPolicy" THEN "DenyPolicy"
            ELSE IF e = "DENY" THEN "DenyPolicy"
            ELSE IF e = "REQUIRE_APPROVAL" \/ Combined(old) = "RequireApproval" THEN "RequireApproval"
            ELSE "Allow"
      BY DEF Combined
    <2> QED BY <2>1, <2>2, <2>3 DEF old
  <1> QED BY <1>1, <1>2

\* The loop over the rules has a result after each of them.
LEMMA LoopRuns ==
  ASSUME NEW rules, Len(rules) \in Nat, NEW r
  PROVE  \E g : g = [i \in 0..Len(rules) |->
                      IF i = 0 THEN "DenyDefault" ELSE AfterRule(g[i - 1], rules[i], r)]
  <1> DEFINE g == [i \in 0..Len(rules) |-> Combined(Spoken(rules, i, r))]
  <1>1. Combined(Spoken(rules, 0, r)) = "DenyDefault"
    <2>1. Spoken(rules, 0, r) = {}
      BY DEF Spoken
    <2> QED BY <2>1 DEF Combined
  <1>2. ASSUME NEW i \in 0..Len(rules), i # 0
        PROVE  g[i] = AfterRule(g[i - 1], rules[i], r)
    <2>1. i - 1 \in 0..Len(rules) /\ i - 1 \in Nat /\ (i - 1) + 1 = i
      BY <1>2
    <2>2. AfterRule(Combined(Spoken(rules, i - 1, r)), rules[(i - 1) + 1], r) = Combined(Spoken(rules, (i - 1) + 1, r))
      BY <2>1, RuleAdds
    <2> QED BY <2>1, <2>2
  <1>3. g = [i \in 0..Len(rules) |->
               IF i = 0 THEN "DenyDefault" ELSE AfterRule(g[i - 1], rules[i], r)]
    BY <1>1, <1>2
  <1> QED BY <1>3

\* DeterministicEvaluator::decide: a denial counts wherever it stands among
\* the rules, a request for approval likewise unless there is a denial, and
\* without a rule there is no authority.
THEOREM DecideCombines ==
  ASSUME NEW rules, Len(rules) \in Nat, NEW r
  PROVE  Decide(rules, r) = Combined(Spoken(rules, Len(rules), r))
  <1> DEFINE S == 0..Len(rules)
      Loop(g) == g = [i \in S |-> IF i = 0 THEN "DenyDefault" ELSE AfterRule(g[i - 1], rules[i], r)]
      f == CHOOSE g : Loop(g)
      T == {n \in Nat : n \in S => f[n] = Combined(Spoken(rules, n, r))}
  <1>1. Decide(rules, r) = f[Len(rules)]
    BY DEF Decide
  <1>2. \E g : Loop(g)
    BY LoopRuns
  <1>3. Loop(f)
    BY <1>2
  <1> HIDE DEF f
  <1>4. 0 \in T
    <2>1. Spoken(rules, 0, r) = {}
      BY DEF Spoken
    <2>2. f[0] = "DenyDefault"
      BY <1>3
    <2> QED BY <2>1, <2>2 DEF Combined
  <1>5. ASSUME NEW n \in T PROVE n + 1 \in T
    <2> SUFFICES ASSUME n + 1 \in S PROVE f[n + 1] = Combined(Spoken(rules, n + 1, r))
      BY <1>5
    <2>1. n \in S /\ n \in Nat /\ (n + 1) - 1 = n /\ n + 1 # 0
      OBVIOUS
    <2>2. f[n] = Combined(Spoken(rules, n, r))
      BY <1>5, <2>1
    <2>3. f[n + 1] = AfterRule(f[n], rules[n + 1], r)
      BY <1>3, <2>1
    <2> QED BY <2>1, <2>2, <2>3, RuleAdds
  <1> HIDE DEF T
  <1>6. T = Nat
    <2>1. T \in SUBSET Nat
      BY DEF T
    <2> QED BY <1>4, <1>5, <2>1, SetInduction
  <1>7. Len(rules) \in T /\ Len(rules) \in S
    BY <1>6
  <1> QED BY <1>1, <1>7 DEF T

-----------------------------------------------------------------------------
(* The invariant. *)

ProviderRow ==
  [registered : BOOLEAN, trusted : BOOLEAN, epoch : Nat, evidence : Nat, source : Nat,
   changes : Nat]

TaskRow == [state : Live \cup {"CANCELLED"}, program : Nat, coherent : BOOLEAN]

CandidateRow ==
  [state : {Absent, "PENDING", "FINALIZED"}, program : Nat, attempt : Nat, evidence : Nat,
   source : Nat, revision : Nat, epoch : Nat, by : Nat, grants : {Absent, "ACTIVE", "REVOKED"},
   step : {Absent, "READY", "RUNNING"}]

ApprovalRow ==
  [status : {Absent, "PENDING", "APPROVED", "DENIED"}, expires : Nat, withdrawn : BOOLEAN]

Typed ==
  /\ lease \in Nat /\ now \in Nat
  /\ provider \in ProviderRow
  /\ task \in TaskRow
  /\ policy \in Seq(Policies)
  /\ cand \in [Candidates -> CandidateRow]
  /\ approval \in [AllFingerprints -> ApprovalRow]
  /\ used \in [Candidates -> [Resources -> Nat]]

\* A finalized candidate pins values of counters that only grow.
Pinned(c) ==
  /\ cand[c].revision <= Revision /\ cand[c].program <= task.program /\ cand[c].by <= lease
  /\ cand[c].epoch <= provider.epoch /\ cand[c].evidence <= provider.evidence
  /\ cand[c].source <= provider.source

\* What a change of the provider leaves behind for good.
ProviderMoved(c) ==
  \/ cand[c].epoch < provider.epoch
  \/ cand[c].evidence < provider.evidence
  \/ cand[c].source < provider.source

\* What the end of an activation, a program, a session or an approval leaves
\* behind for good.
ConsentMoved(c) ==
  \/ cand[c].revision < Revision \/ cand[c].program < task.program \/ cand[c].by < lease
  \/ \E f \in RestsOn(c) : approval[f].withdrawn

History ==
  /\ lapsed \subseteq Finalized /\ withdrawn \subseteq Finalized
  /\ \A c \in Finalized : Pinned(c)
  /\ \A c \in lapsed : ProviderMoved(c)
  /\ \A c \in withdrawn : ConsentMoved(c)
  /\ \A c \in Candidates, r \in Resources : used[c][r] > 0 => c \in Finalized

IInv == Typed /\ History

-----------------------------------------------------------------------------
(* Steps that change something a candidate may have pinned. *)

\* What no step does to a candidate that is finalized.
Kept(c) ==
  /\ cand'[c].state = cand[c].state /\ cand'[c].program = cand[c].program
  /\ cand'[c].evidence = cand[c].evidence /\ cand'[c].source = cand[c].source
  /\ cand'[c].revision = cand[c].revision /\ cand'[c].epoch = cand[c].epoch
  /\ cand'[c].by = cand[c].by

\* Counters only grow, and what is approved or withdrawn stays so.
Grows ==
  /\ Revision <= Revision' /\ task.program <= task'.program /\ lease <= lease'
  /\ provider.epoch <= provider'.epoch /\ provider.evidence <= provider'.evidence
  /\ provider.source <= provider'.source
  /\ \A f \in AllFingerprints : approval[f].status = "APPROVED" =>
       approval'[f].status = "APPROVED" /\ (approval[f].withdrawn => approval'[f].withdrawn)

\* Facts about one finalized candidate survive.
LEMMA PinsSurvive ==
  ASSUME Typed, Typed', Grows, NEW c \in Candidates, Kept(c)
  PROVE  /\ Pinned(c) => Pinned(c)'
         /\ Pinned(c) /\ ProviderMoved(c) => ProviderMoved(c)'
         /\ Pinned(c) /\ ConsentMoved(c) => ConsentMoved(c)'
  <1>1. /\ cand[c] \in CandidateRow /\ provider \in ProviderRow /\ provider' \in ProviderRow
        /\ task \in TaskRow /\ task' \in TaskRow /\ lease \in Nat /\ lease' \in Nat
        /\ Revision \in Nat /\ Revision' \in Nat
    BY DEF Typed, Revision
  <1>2. /\ cand[c].revision \in Nat /\ cand[c].program \in Nat /\ cand[c].by \in Nat
        /\ cand[c].epoch \in Nat /\ cand[c].evidence \in Nat /\ cand[c].source \in Nat
        /\ provider.epoch \in Nat /\ provider.evidence \in Nat /\ provider.source \in Nat
        /\ provider'.epoch \in Nat /\ provider'.evidence \in Nat /\ provider'.source \in Nat
        /\ task.program \in Nat /\ task'.program \in Nat
    BY <1>1 DEF CandidateRow, ProviderRow, TaskRow
  <1>3. Pinned(c) => Pinned(c)'
    BY <1>1, <1>2 DEF Pinned, Kept, Grows
  <1>4. ProviderMoved(c) => ProviderMoved(c)'
    BY <1>1, <1>2 DEF ProviderMoved, Kept, Grows
  <1>5. ConsentMoved(c) => ConsentMoved(c)'
    <2>1. \A f \in RestsOn(c) : approval[f].withdrawn => f \in RestsOn(c)' /\ approval'[f].withdrawn
      BY DEF RestsOn, Kept, Grows
    <2> QED BY <1>1, <1>2, <2>1 DEF ConsentMoved, Kept, Grows
  <1> QED BY <1>3, <1>4, <1>5

\* A step that finalizes and uses nothing.
LEMMA NothingNew ==
  ASSUME IInv, Typed', Grows, used' = used, Finalized' = Finalized,
         \A c \in Finalized : Kept(c),
         lapsed \subseteq lapsed', lapsed' \subseteq lapsed \cup Finalized,
         withdrawn \subseteq withdrawn', withdrawn' \subseteq withdrawn \cup Finalized,
         \A c \in lapsed' \ lapsed : ProviderMoved(c)',
         \A c \in withdrawn' \ withdrawn : ConsentMoved(c)'
  PROVE  IInv'
  <1>1. Finalized \subseteq Candidates
    BY DEF Finalized
  <1>2. \A c \in Finalized : Pinned(c)'
    BY <1>1, PinsSurvive DEF IInv, History
  <1>3. \A c \in lapsed' : ProviderMoved(c)'
    BY <1>1, PinsSurvive DEF IInv, History
  <1>4. \A c \in withdrawn' : ConsentMoved(c)'
    BY <1>1, PinsSurvive DEF IInv, History
  <1>5. lapsed' \subseteq Finalized /\ withdrawn' \subseteq Finalized
    BY DEF IInv, History
  <1> QED BY <1>2, <1>3, <1>4, <1>5 DEF IInv, History

\* Nothing that counts is changed.
LEMMA NothingCounts ==
  ASSUME IInv, now' \in Nat,
         UNCHANGED <<lease, task, provider, policy, cand, approval, used, lapsed, withdrawn>>
  PROVE  IInv'
  <1>1. Typed' /\ Grows
    <2>1. Typed'
      BY DEF IInv, Typed
    <2>2. Revision' = Revision
      BY DEF Revision
    <2> QED BY <2>1, <2>2 DEF IInv, Typed, Revision, Grows, ProviderRow, TaskRow
  <1>2. Finalized' = Finalized /\ \A c \in Finalized : Kept(c)
    BY DEF Finalized, Kept
  <1> QED BY <1>1, <1>2, NothingNew

LEMMA QuietSteps ==
  ASSUME IInv, NEW m, NEW op, NEW c,
         Begin(m, op, c) \/ Give(m) \/ SwitchBackend(m) \/ RegisterService(m) \/ DisableService(m)
           \/ LoseInput \/ Tick \/ UNCHANGED vars
  PROVE  IInv'
  <1>1. now \in Nat
    BY DEF IInv, Typed
  <1>2. /\ UNCHANGED <<lease, task, provider, policy, cand, approval, used, lapsed, withdrawn>>
        /\ now' = now \/ now' = now + 1
    BY DEF Begin, Give, SwitchBackend, RegisterService, DisableService, LoseInput, Tick, vars, rows
  <1> QED BY <1>1, <1>2, NothingCounts

\* Every row of a finite table is at most as high as one of them.
LEMMA HighestExists ==
  ASSUME NEW S, IsFiniteSet(S), S # {}, NEW a \in [S -> Nat]
  PROVE  \E c \in S : \A d \in S : a[d] <= a[c]
  <1> DEFINE Top(C) == \E c \in C : \A d \in C : a[d] <= a[c]
      T == {n \in Nat : \A C \in SUBSET S : C # {} /\ Cardinality(C) = n => Top(C)}
  <1>1. 0 \in T
    <2> SUFFICES ASSUME NEW C \in SUBSET S, C # {}, Cardinality(C) = 0 PROVE FALSE
      OBVIOUS
    <2>1. IsFiniteSet(C)
      BY FS_Subset
    <2> QED BY <2>1, FS_EmptySet
  <1>2. ASSUME NEW n \in T PROVE n + 1 \in T
    <2> SUFFICES ASSUME NEW C \in SUBSET S, C # {}, Cardinality(C) = n + 1 PROVE Top(C)
      OBVIOUS
    <2>1. PICK x \in C : TRUE
      OBVIOUS
    <2>2. IsFiniteSet(C)
      BY FS_Subset
    <2>3. Cardinality(C \ {x}) = n
      <3>1. Cardinality(C \ {x}) = Cardinality(C) - 1
        BY <2>1, <2>2, FS_RemoveElement
      <3> QED BY <3>1
    <2>4. CASE C \ {x} = {}
      BY <2>1, <2>4
    <2>5. CASE C \ {x} # {}
      <3>1. Top(C \ {x})
        BY <1>2, <2>3, <2>5
      <3>2. PICK c \in C \ {x} : \A d \in C \ {x} : a[d] <= a[c]
        BY <3>1
      <3>3. a[c] \in Nat /\ a[x] \in Nat /\ \A d \in C : a[d] \in Nat
        BY <2>1
      <3>4. CASE a[x] <= a[c]
        BY <3>2, <3>4
      <3>5. CASE a[c] <= a[x]
        <4>1. \A d \in C : a[d] <= a[x]
          BY <3>2, <3>3, <3>5
        <4> QED BY <2>1, <4>1
      <3> QED BY <3>3, <3>4, <3>5
    <2> QED BY <2>4, <2>5
  <1> HIDE DEF T
  <1>3. T = Nat
    <2>1. T \in SUBSET Nat
      BY DEF T
    <2> QED BY <1>1, <1>2, <2>1, SetInduction
  <1>4. Cardinality(S) \in T
    BY <1>3, FS_CardinalityType
  <1> QED BY <1>4 DEF T

\* There is a latest attempt.
LEMMA LatestAttemptIsNat ==
  ASSUME CandidateAssumption, Typed
  PROVE  LatestAttempt \in Nat
  <1> DEFINE S == {d \in Reserved : cand[d].program = task.program}
      a == [c \in S |-> cand[c].attempt]
      known == {cand[c].attempt : c \in S}
  <1>1. S \in SUBSET Candidates
    BY DEF Reserved
  <1>2. \A c \in S : cand[c].attempt \in Nat
    BY <1>1 DEF Typed, CandidateRow
  <1>3. IsFiniteSet(S)
    BY <1>1, FS_Subset DEF CandidateAssumption
  <1> HIDE DEF S
  <1>4. a \in [S -> Nat] /\ \A c \in S : a[c] = cand[c].attempt
    BY <1>2
  <1>5. LatestAttempt = IF known = {} THEN 0 ELSE CHOOSE n \in known : \A k \in known : k <= n
    BY DEF LatestAttempt, S
  <1>6. CASE S = {}
    BY <1>5, <1>6
  <1>7. CASE S # {}
    <2> HIDE DEF a
    <2>1. PICK c \in S : \A d \in S : a[d] <= a[c]
      BY <1>3, <1>4, <1>7, HighestExists
    <2>2. cand[c].attempt \in known /\ \A k \in known : k <= cand[c].attempt
      BY <1>4, <2>1
    <2>3. known \subseteq Nat
      BY <1>2
    <2>4. known # {}
      BY <2>2
    <2> HIDE DEF known
    <2>5. (CHOOSE n \in known : \A k \in known : k <= n) \in known
      BY <2>2
    <2> QED BY <1>5, <2>3, <2>4, <2>5
  <1> QED BY <1>6, <1>7

\* reserve_authority_candidate
LEMMA ReserveStep ==
  ASSUME CandidateAssumption, IInv, NEW m, NEW c \in Candidates, Reserve(m, c)
  PROVE  IInv'
  <1>1. PICK e : /\ provider.evidence = e
                 /\ cand' = [cand EXCEPT ![c] = [NoCandidate EXCEPT !.state = "PENDING",
                     !.program = task.program, !.attempt = LatestAttempt + 1,
                     !.evidence = e, !.source = provider.source]]
    BY DEF Reserve, ProviderStands, EvidenceCurrent
  <1>2. /\ UNCHANGED <<lease, now, task, provider, policy, approval, used, lapsed, withdrawn>>
        /\ cand[c].state = Absent
    BY DEF Reserve, Known
  <1>3. /\ LatestAttempt + 1 \in Nat /\ task.program \in Nat /\ e \in Nat /\ provider.source \in Nat
    <2>1. LatestAttempt \in Nat
      BY LatestAttemptIsNat DEF IInv
    <2> QED BY <1>1, <2>1 DEF IInv, Typed, TaskRow, ProviderRow
  <1> DEFINE n == LatestAttempt + 1
      r == [NoCandidate EXCEPT !.state = "PENDING", !.program = task.program, !.attempt = n,
                     !.evidence = e, !.source = provider.source]
  <1>4. r \in CandidateRow /\ r.state = "PENDING"
    <2>1. NoCandidate \in CandidateRow
      BY DEF NoCandidate, CandidateRow
    <2> HIDE DEF n, NoCandidate
    <2> QED BY <1>3, <2>1 DEF CandidateRow, n
  <1>5. cand' = [cand EXCEPT ![c] = r]
    BY <1>1
  <1> HIDE DEF r
  <1>6. /\ cand' \in [Candidates -> CandidateRow] /\ cand'[c].state = "PENDING"
        /\ \A d \in Candidates : d # c => cand'[d] = cand[d]
    BY <1>4, <1>5 DEF IInv, Typed
  <1>7. Typed'
    BY <1>2, <1>6 DEF IInv, Typed
  <1>8. Finalized' = Finalized /\ \A d \in Finalized : Kept(d)
    <2>1. c \notin Finalized
      BY <1>2 DEF Finalized, Absent
    <2>2. c \notin Finalized'
      BY <1>6 DEF Finalized
    <2> QED BY <1>6, <2>1, <2>2 DEF Finalized, Kept
  <1>9. Grows
    BY <1>2 DEF IInv, Typed, Grows, Revision, ProviderRow, TaskRow
  <1> QED BY <1>2, <1>7, <1>8, <1>9, NothingNew

-----------------------------------------------------------------------------
(* Approvals and policy. *)

\* An evaluation only adds requests for approval.
LEMMA EvaluationAdds ==
  ASSUME CandidateAssumption, Typed, NEW m, NEW c, RecordEvaluation(m, c)
  PROVE  /\ approval' \in [AllFingerprints -> ApprovalRow]
         /\ \A f \in AllFingerprints : approval[f].status # Absent => approval'[f] = approval[f]
  <1> DEFINE asked == [status |-> "PENDING", expires |-> now + ApprovalLife, withdrawn |-> FALSE]
  <1>1. asked \in ApprovalRow
    BY DEF Typed, CandidateAssumption, ApprovalRow
  <1>2. approval' = [f \in AllFingerprints |-> IF f \in Asked(m, c) THEN asked ELSE approval[f]]
    BY DEF RecordEvaluation
  <1>3. \A f \in Asked(m, c) : approval[f].status = Absent
    BY DEF Asked
  <1> HIDE DEF asked
  <1> QED BY <1>1, <1>2, <1>3 DEF Typed

\* A step that only adds to the approvals.
LEMMA ApprovalsAdded ==
  ASSUME IInv,
         approval' \in [AllFingerprints -> ApprovalRow],
         \A g \in AllFingerprints : approval[g].status = "APPROVED" => approval'[g] = approval[g],
         UNCHANGED <<lease, now, task, provider, policy, cand, used, lapsed, withdrawn>>
  PROVE  IInv'
  <1>1. Typed'
    BY DEF IInv, Typed
  <1>2. Finalized' = Finalized /\ \A d \in Finalized : Kept(d)
    BY DEF Finalized, Kept
  <1>3. Grows
    BY DEF IInv, Typed, Grows, Revision, ProviderRow, TaskRow
  <1> QED BY <1>1, <1>2, <1>3, NothingNew

\* evaluate_pending_authority_candidate, apply_candidate_approval_claim
LEMMA EvaluateStep ==
  ASSUME CandidateAssumption, IInv, NEW m, NEW c,
         Evaluate(m, c) \/ \E f \in AllFingerprints : ApplyClaim(m, c, f)
  PROVE  IInv'
  <1>1. /\ UNCHANGED <<lease, now, task, provider, policy, cand, used, lapsed, withdrawn>>
        /\ RecordEvaluation(m, c)
    BY DEF Evaluate, ApplyClaim
  <1>2. /\ approval' \in [AllFingerprints -> ApprovalRow]
        /\ \A g \in AllFingerprints : approval[g].status = "APPROVED" => approval'[g] = approval[g]
    BY <1>1, EvaluationAdds DEF IInv, Absent
  <1> QED BY <1>1, <1>2, ApprovalsAdded

\* decide_candidate_approval
LEMMA DecideStep ==
  ASSUME IInv, NEW m, NEW f \in AllFingerprints, NEW p, NEW approve \in BOOLEAN,
         DecideApproval(m, f, p, approve)
  PROVE  IInv'
  <1> DEFINE a == [approval[f] EXCEPT !.status = IF approve THEN "APPROVED" ELSE "DENIED"]
  <1>1. /\ approval' = [approval EXCEPT ![f] = a] /\ approval[f].status = "PENDING"
        /\ UNCHANGED <<lease, now, task, provider, policy, cand, used, lapsed, withdrawn>>
    BY DEF DecideApproval, DecisionAdmitted
  <1>2. approval[f] \in ApprovalRow
    BY DEF IInv, Typed
  <1>3. a \in ApprovalRow
    BY <1>2 DEF ApprovalRow
  <1> HIDE DEF a
  <1>4. /\ approval' \in [AllFingerprints -> ApprovalRow]
        /\ \A g \in AllFingerprints : approval[g].status = "APPROVED" => approval'[g] = approval[g]
    BY <1>1, <1>3 DEF IInv, Typed
  <1> QED BY <1>1, <1>4, ApprovalsAdded

\* revoke_candidate_approval
LEMMA RevokeStep ==
  ASSUME IInv, NEW m, NEW f \in AllFingerprints, NEW p, RevokeApproval(m, f, p)
  PROVE  IInv'
  <1> DEFINE a == [approval[f] EXCEPT !.withdrawn = TRUE]
  <1>1. /\ approval' = [approval EXCEPT ![f] = a]
        /\ withdrawn' = withdrawn \cup (IF f.c \in Finalized /\ f \in RestsOn(f.c) THEN {f.c} ELSE {})
        /\ UNCHANGED <<lease, now, task, provider, policy, cand, used, lapsed>>
    BY DEF RevokeApproval
  <1>2. approval[f] \in ApprovalRow
    BY DEF IInv, Typed
  <1>3. a \in ApprovalRow /\ a.withdrawn = TRUE /\ a.status = approval[f].status
    BY <1>2 DEF ApprovalRow
  <1> HIDE DEF a
  <1>4. /\ approval' \in [AllFingerprints -> ApprovalRow] /\ approval'[f] = a
        /\ \A g \in AllFingerprints : g # f => approval'[g] = approval[g]
    BY <1>1, <1>3 DEF IInv, Typed
  <1>5. Typed'
    BY <1>1, <1>4 DEF IInv, Typed
  <1>6. Finalized' = Finalized /\ \A d \in Finalized : Kept(d)
    BY <1>1 DEF Finalized, Kept
  <1>7. \A g \in AllFingerprints : approval[g].status = "APPROVED" =>
          approval'[g].status = "APPROVED" /\ (approval[g].withdrawn => approval'[g].withdrawn)
    BY <1>3, <1>4
  <1>8. Grows
    BY <1>1, <1>7 DEF IInv, Typed, Grows, Revision, ProviderRow, TaskRow
  <1>9. ASSUME NEW c \in withdrawn' \ withdrawn PROVE c \in Finalized /\ ConsentMoved(c)'
    <2>1. c = f.c /\ c \in Finalized /\ f \in RestsOn(c)
      BY <1>1, <1>9
    <2>2. f \in RestsOn(c)'
      BY <1>1, <1>3, <1>4, <2>1 DEF RestsOn
    <2>3. approval'[f].withdrawn
      BY <1>3, <1>4
    <2> QED BY <2>1, <2>2, <2>3 DEF ConsentMoved
  <1>10. withdrawn \subseteq withdrawn' /\ withdrawn' \subseteq withdrawn \cup Finalized
    BY <1>1, <1>9
  <1> QED BY <1>1, <1>5, <1>6, <1>8, <1>9, <1>10, NothingNew

\* activate_local_authority_policy
LEMMA ActivateStep ==
  ASSUME IInv, NEW m, NEW p \in Policies, ActivatePolicy(m, p)
  PROVE  IInv'
  <1>1. /\ policy' = Append(policy, p) /\ withdrawn' = withdrawn \cup Finalized
        /\ UNCHANGED <<lease, now, task, provider, cand, approval, used, lapsed>>
    BY DEF ActivatePolicy
  <1>2. Revision \in Nat /\ Revision' = Revision + 1 /\ policy' \in Seq(Policies)
    BY <1>1 DEF IInv, Typed, Revision
  <1>3. Typed'
    BY <1>1, <1>2 DEF IInv, Typed
  <1>4. Finalized' = Finalized /\ \A d \in Finalized : Kept(d)
    BY <1>1 DEF Finalized, Kept
  <1>5. Grows
    BY <1>1, <1>2 DEF IInv, Typed, Grows, ProviderRow, TaskRow
  <1>6. \A c \in Finalized : ConsentMoved(c)'
    <2> SUFFICES ASSUME NEW c \in Finalized PROVE ConsentMoved(c)'
      OBVIOUS
    <2>1. c \in Candidates /\ cand[c].revision <= Revision
      BY DEF IInv, History, Pinned, Finalized
    <2>2. cand[c].revision \in Nat
      BY <2>1 DEF IInv, Typed, CandidateRow
    <2>3. cand'[c].revision < Revision'
      BY <1>1, <1>2, <2>1, <2>2
    <2> QED BY <2>3 DEF ConsentMoved
  <1> QED BY <1>1, <1>3, <1>4, <1>5, <1>6, NothingNew

-----------------------------------------------------------------------------
(* Provider, Task and session. *)

\* suspension, enablement, evidence and trust
LEMMA ProviderStep ==
  ASSUME IInv, NEW m, ChangeProvider(m)
  PROVE  IInv'
  <1> DEFINE Nexts == {[provider EXCEPT !.registered = ~@, !.epoch = @ + 1],
                       [provider EXCEPT !.evidence = @ + 1],
                       [provider EXCEPT !.source = @ + 1, !.trusted = ~@]}
  <1>1. PICK next \in Nexts : provider' = [next EXCEPT !.changes = @ + 1]
    BY DEF ChangeProvider
  <1>2. /\ lapsed' = lapsed \cup Finalized
        /\ UNCHANGED <<lease, now, task, policy, cand, approval, used, withdrawn>>
    BY DEF ChangeProvider
  <1>3. /\ provider \in ProviderRow
        /\ provider.epoch \in Nat /\ provider.evidence \in Nat /\ provider.source \in Nat
    BY DEF IInv, Typed, ProviderRow
  <1>4. /\ next \in ProviderRow
        /\ \/ next.epoch = provider.epoch + 1 /\ next.evidence = provider.evidence
              /\ next.source = provider.source
           \/ next.epoch = provider.epoch /\ next.evidence = provider.evidence + 1
              /\ next.source = provider.source
           \/ next.epoch = provider.epoch /\ next.evidence = provider.evidence
              /\ next.source = provider.source + 1
    <2>1. CASE next = [provider EXCEPT !.registered = ~@, !.epoch = @ + 1]
      <3>1. ASSUME NEW b \in BOOLEAN, NEW n \in Nat, next = [provider EXCEPT !.registered = b, !.epoch = n]
            PROVE  /\ next \in ProviderRow /\ next.epoch = n
                   /\ next.evidence = provider.evidence /\ next.source = provider.source
        BY <1>3, <3>1 DEF ProviderRow
      <3>2. next = [provider EXCEPT !.registered = ~provider.registered, !.epoch = provider.epoch + 1]
        BY <2>1
      <3>3. (~provider.registered) \in BOOLEAN /\ provider.epoch + 1 \in Nat
        BY <1>3
      <3> QED BY <3>1, <3>2, <3>3
    <2>2. CASE next = [provider EXCEPT !.evidence = @ + 1]
      BY <1>3, <2>2 DEF ProviderRow
    <2>3. CASE next = [provider EXCEPT !.source = @ + 1, !.trusted = ~@]
      <3>1. ASSUME NEW b \in BOOLEAN, NEW n \in Nat, next = [provider EXCEPT !.source = n, !.trusted = b]
            PROVE  /\ next \in ProviderRow /\ next.source = n
                   /\ next.epoch = provider.epoch /\ next.evidence = provider.evidence
        BY <1>3, <3>1 DEF ProviderRow
      <3>2. next = [provider EXCEPT !.source = provider.source + 1, !.trusted = ~provider.trusted]
        BY <2>3
      <3>3. (~provider.trusted) \in BOOLEAN /\ provider.source + 1 \in Nat
        BY <1>3
      <3> QED BY <3>1, <3>2, <3>3
    <2> QED BY <2>1, <2>2, <2>3
  <1>5. /\ provider' \in ProviderRow /\ provider'.epoch = next.epoch
        /\ provider'.evidence = next.evidence /\ provider'.source = next.source
    BY <1>1, <1>4 DEF ProviderRow
  <1>6. Typed'
    BY <1>2, <1>5 DEF IInv, Typed
  <1>7. Finalized' = Finalized /\ \A d \in Finalized : Kept(d)
    BY <1>2 DEF Finalized, Kept
  <1>8. Grows
    <2>1. Revision' = Revision /\ Revision \in Nat /\ task.program \in Nat /\ lease \in Nat
      BY <1>2 DEF IInv, Typed, Revision, TaskRow
    <2> QED BY <1>2, <1>3, <1>4, <1>5, <2>1 DEF Grows
  <1>9. \A c \in Finalized : ProviderMoved(c)'
    <2> SUFFICES ASSUME NEW c \in Finalized PROVE ProviderMoved(c)'
      OBVIOUS
    <2>1. /\ c \in Candidates /\ cand[c].epoch <= provider.epoch
          /\ cand[c].evidence <= provider.evidence /\ cand[c].source <= provider.source
      BY DEF IInv, History, Pinned, Finalized
    <2>2. cand[c].epoch \in Nat /\ cand[c].evidence \in Nat /\ cand[c].source \in Nat
      BY <2>1 DEF IInv, Typed, CandidateRow
    <2> QED BY <1>2, <1>3, <1>4, <1>5, <2>1, <2>2 DEF ProviderMoved
  <1> QED BY <1>2, <1>6, <1>7, <1>8, <1>9, NothingNew

\* Grants are revoked: nothing that a candidate pins changes.
LEMMA RevokedRow ==
  ASSUME NEW r \in CandidateRow
  PROVE  LET q == [r EXCEPT !.grants = "REVOKED"] IN
         /\ q \in CandidateRow /\ q.state = r.state /\ q.program = r.program
         /\ q.evidence = r.evidence /\ q.source = r.source /\ q.revision = r.revision
         /\ q.epoch = r.epoch /\ q.by = r.by
  BY DEF CandidateRow

LEMMA Revoked ==
  ASSUME Typed,
         \/ cand' = cand
         \/ cand' = [c \in Candidates |->
              IF c \in Finalized THEN [cand[c] EXCEPT !.grants = "REVOKED"] ELSE cand[c]]
  PROVE  /\ cand' \in [Candidates -> CandidateRow] /\ Finalized' = Finalized
         /\ \A c \in Candidates : Kept(c)
  <1>1. CASE cand' = cand
    BY <1>1 DEF Typed, Finalized, Kept
  <1>2. ASSUME cand' = [c \in Candidates |->
                 IF c \in Finalized THEN [cand[c] EXCEPT !.grants = "REVOKED"] ELSE cand[c]]
        PROVE  cand' \in [Candidates -> CandidateRow] /\ \A c \in Candidates : Kept(c)
    <2>1. ASSUME NEW c \in Candidates PROVE cand'[c] \in CandidateRow /\ Kept(c)
      <3>1. cand[c] \in CandidateRow
        BY DEF Typed
      <3>2. CASE cand'[c] = cand[c]
        BY <3>1, <3>2 DEF Kept
      <3>3. CASE cand'[c] = [cand[c] EXCEPT !.grants = "REVOKED"]
        BY <3>1, <3>3, RevokedRow DEF Kept
      <3> QED BY <1>2, <3>2, <3>3
    <2>2. cand' = [c \in Candidates |-> cand'[c]]
      BY <1>2
    <2> QED BY <2>1, <2>2
  <1>3. (\A c \in Candidates : Kept(c)) => Finalized' = Finalized
    BY DEF Finalized, Kept
  <1> QED BY <1>1, <1>2, <1>3

\* The Task moves, another program may become the active one.
LEMMA MoveTaskStep ==
  ASSUME IInv, NEW m, NEW to, MoveTask(m, to)
  PROVE  IInv'
  <1>1. PICK p \in {task.program} \cup (IF to = "PLANNING" THEN {task.program + 1} ELSE {}),
             k \in (IF to = "PLANNING" THEN BOOLEAN ELSE {task.coherent}) :
          /\ task' = [state |-> to, program |-> p, coherent |-> k]
          /\ withdrawn' = withdrawn \cup (IF p # task.program THEN Finalized ELSE {})
    BY DEF MoveTask
  <1>2. /\ to \in Live \cup {"CANCELLED"}
        /\ UNCHANGED <<lease, now, provider, policy, approval, used, lapsed>>
        /\ \/ cand' = cand
           \/ cand' = [c \in Candidates |->
                IF c \in Finalized THEN [cand[c] EXCEPT !.grants = "REVOKED"] ELSE cand[c]]
    BY DEF MoveTask
  <1>3. task.program \in Nat /\ task.coherent \in BOOLEAN
    BY DEF IInv, Typed, TaskRow
  <1>4. p \in Nat /\ k \in BOOLEAN /\ (p = task.program \/ p = task.program + 1)
    BY <1>1, <1>3
  <1>5. task' \in TaskRow /\ task'.program = p
    BY <1>1, <1>2, <1>4 DEF TaskRow
  <1>6. /\ cand' \in [Candidates -> CandidateRow] /\ Finalized' = Finalized
        /\ \A c \in Candidates : Kept(c)
    BY <1>2, Revoked DEF IInv
  <1>7. Typed'
    BY <1>2, <1>5, <1>6 DEF IInv, Typed
  <1>8. Finalized \subseteq Candidates
    BY DEF Finalized
  <1>9. Grows
    <2>1. /\ Revision' = Revision /\ Revision \in Nat /\ lease \in Nat
          /\ provider.epoch \in Nat /\ provider.evidence \in Nat /\ provider.source \in Nat
      BY <1>2 DEF IInv, Typed, Revision, ProviderRow
    <2> QED BY <1>2, <1>3, <1>4, <1>5, <2>1 DEF Grows
  <1>10. ASSUME NEW c \in withdrawn' \ withdrawn PROVE c \in Finalized /\ ConsentMoved(c)'
    <2>1. c \in Finalized /\ p = task.program + 1
      BY <1>1, <1>4, <1>10
    <2>2. c \in Candidates /\ cand[c].program <= task.program
      BY <2>1 DEF IInv, History, Pinned, Finalized
    <2>3. cand[c].program \in Nat
      BY <2>2 DEF IInv, Typed, CandidateRow
    <2>4. cand'[c].program < task'.program
      BY <1>3, <1>5, <1>6, <2>1, <2>2, <2>3 DEF Kept
    <2> QED BY <2>1, <2>4 DEF ConsentMoved
  <1>11. withdrawn \subseteq withdrawn' /\ withdrawn' \subseteq withdrawn \cup Finalized
    BY <1>1, <1>10
  <1> QED BY <1>2, <1>6, <1>7, <1>8, <1>9, <1>10, <1>11, NothingNew

\* A successor claims the store.
LEMMA ClaimStep ==
  ASSUME IInv, NEW m, Claim(m)
  PROVE  IInv'
  <1> DEFINE prepared == task.state \in {"PLANNING", "WAITING_FOR_AUTH", "RUNNABLE"} /\ Finalized # {}
  <1>1. /\ lease' = lease + 1 /\ withdrawn' = withdrawn \cup Finalized
        /\ UNCHANGED <<now, provider, policy, approval, used, lapsed>>
        /\ cand' = [c \in Candidates |-> IF prepared /\ c \in Finalized
                                         THEN [cand[c] EXCEPT !.grants = "REVOKED"] ELSE cand[c]]
        /\ task' = IF prepared THEN [task EXCEPT !.state = "PLANNING"] ELSE task
    BY DEF Claim
  <1>2. lease \in Nat /\ task \in TaskRow /\ cand \in [Candidates -> CandidateRow]
    BY DEF IInv, Typed
  <1>3. task' \in TaskRow /\ task'.program = task.program
    BY <1>1, <1>2 DEF TaskRow, Live
  <1>4. \/ cand' = cand
        \/ cand' = [c \in Candidates |->
             IF c \in Finalized THEN [cand[c] EXCEPT !.grants = "REVOKED"] ELSE cand[c]]
    <2>1. CASE prepared
      BY <1>1, <2>1
    <2>2. CASE ~prepared
      BY <1>1, <1>2, <2>2
    <2> QED BY <2>1, <2>2
  <1>5. /\ cand' \in [Candidates -> CandidateRow] /\ Finalized' = Finalized
        /\ \A c \in Candidates : Kept(c)
    BY <1>4, Revoked DEF IInv
  <1>6. Typed'
    BY <1>1, <1>2, <1>3, <1>5 DEF IInv, Typed
  <1>7. Finalized \subseteq Candidates
    BY DEF Finalized
  <1>8. Grows
    <2>1. /\ Revision' = Revision /\ Revision \in Nat /\ task.program \in Nat
          /\ provider.epoch \in Nat /\ provider.evidence \in Nat /\ provider.source \in Nat
      BY <1>1 DEF IInv, Typed, Revision, ProviderRow, TaskRow
    <2> QED BY <1>1, <1>2, <1>3, <2>1 DEF Grows
  <1>9. \A c \in Finalized : ConsentMoved(c)'
    <2> SUFFICES ASSUME NEW c \in Finalized PROVE ConsentMoved(c)'
      OBVIOUS
    <2>1. c \in Candidates /\ cand[c].by <= lease
      BY DEF IInv, History, Pinned, Finalized
    <2>2. cand[c].by \in Nat
      BY <2>1 DEF IInv, Typed, CandidateRow
    <2>3. cand'[c].by < lease'
      BY <1>1, <1>2, <1>5, <2>1, <2>2 DEF Kept
    <2> QED BY <2>3 DEF ConsentMoved
  <1> QED BY <1>1, <1>5, <1>6, <1>7, <1>8, <1>9, NothingNew

-----------------------------------------------------------------------------
(* Issue, launch and use. *)

\* admit_active_steps
LEMMA LaunchStep ==
  ASSUME IInv, NEW m, NEW c \in Candidates, Launch(m, c)
  PROVE  IInv'
  <1> DEFINE r == [cand[c] EXCEPT !.step = "RUNNING"]
  <1>1. /\ task' = [task EXCEPT !.state = "RUNNING"] /\ cand' = [cand EXCEPT ![c] = r]
        /\ UNCHANGED <<lease, now, provider, policy, approval, used, lapsed, withdrawn>>
    BY DEF Launch
  <1>2. cand[c] \in CandidateRow /\ task \in TaskRow
    BY DEF IInv, Typed
  <1>3. /\ r \in CandidateRow /\ r.state = cand[c].state /\ r.program = cand[c].program
        /\ r.evidence = cand[c].evidence /\ r.source = cand[c].source
        /\ r.revision = cand[c].revision /\ r.epoch = cand[c].epoch /\ r.by = cand[c].by
    BY <1>2 DEF CandidateRow
  <1>4. task' \in TaskRow /\ task'.program = task.program
    BY <1>1, <1>2 DEF TaskRow, Live
  <1> HIDE DEF r
  <1>5. /\ cand' \in [Candidates -> CandidateRow] /\ cand'[c] = r
        /\ \A d \in Candidates : d # c => cand'[d] = cand[d]
    BY <1>1, <1>3 DEF IInv, Typed
  <1>6. \A d \in Candidates : Kept(d)
    BY <1>3, <1>5 DEF Kept
  <1>7. Finalized' = Finalized /\ Finalized \subseteq Candidates
    BY <1>6 DEF Finalized, Kept
  <1>8. Typed'
    BY <1>1, <1>4, <1>5 DEF IInv, Typed
  <1>9. Grows
    <2>1. /\ Revision' = Revision /\ Revision \in Nat /\ task.program \in Nat /\ lease \in Nat
          /\ provider.epoch \in Nat /\ provider.evidence \in Nat /\ provider.source \in Nat
      BY <1>1 DEF IInv, Typed, Revision, ProviderRow, TaskRow
    <2> QED BY <1>1, <1>4, <2>1 DEF Grows
  <1> QED BY <1>1, <1>6, <1>7, <1>8, <1>9, NothingNew

\* admit_operation_grant
LEMMA UseStep ==
  ASSUME IInv, NEW m, NEW c \in Candidates, NEW r \in Resources, Use(m, c, r)
  PROVE  IInv'
  <1>1. /\ used' = [used EXCEPT ![c][r] = @ + 1] /\ c \in Finalized
        /\ UNCHANGED <<lease, now, task, provider, policy, cand, approval, lapsed, withdrawn>>
    BY DEF Use, ExecutionLoads, LatestStep
  <1> DEFINE u == [used[c] EXCEPT ![r] = used[c][r] + 1]
  <1>2. used[c] \in [Resources -> Nat] /\ used' = [used EXCEPT ![c] = u]
    BY <1>1 DEF IInv, Typed
  <1>3. u \in [Resources -> Nat]
    BY <1>2
  <1> HIDE DEF u
  <1>4. /\ used' \in [Candidates -> [Resources -> Nat]]
        /\ \A d \in Candidates : d # c => used'[d] = used[d]
    BY <1>2, <1>3 DEF IInv, Typed
  <1>5. Typed'
    BY <1>1, <1>4 DEF IInv, Typed
  <1>6. /\ Finalized' = Finalized /\ Finalized \subseteq Candidates
        /\ \A d \in Candidates : /\ Pinned(d)' <=> Pinned(d)
                                 /\ ProviderMoved(d)' <=> ProviderMoved(d)
                                 /\ ConsentMoved(d)' <=> ConsentMoved(d)
    BY <1>1 DEF Finalized, Pinned, ProviderMoved, ConsentMoved, RestsOn, Revision
  <1>7. \A d \in Candidates, q \in Resources : used'[d][q] > 0 => d \in Finalized
    BY <1>1, <1>4 DEF IInv, History
  <1>8. History'
    BY <1>1, <1>6, <1>7 DEF IInv, History
  <1> QED BY <1>5, <1>8 DEF IInv

\* finalize_pending_authority_candidate: what it relies on and what it writes.
LEMMA Issues ==
  ASSUME Typed, NEW m, NEW c \in Candidates, Finalize(m, c)
  PROVE  /\ m = lease /\ cand[c].state = "PENDING" /\ cand[c].program = task.program
         /\ cand[c].evidence = provider.evidence /\ cand[c].source = provider.source
         /\ provider.registered /\ provider.trusted
         /\ cand' \in [Candidates -> CandidateRow]
         /\ \A d \in Candidates : d # c => cand'[d] = cand[d]
         /\ cand'[c].state = "FINALIZED" /\ cand'[c].revision = Revision /\ cand'[c].by = lease
         /\ cand'[c].epoch = provider.epoch /\ cand'[c].evidence = provider.evidence
         /\ cand'[c].source = provider.source /\ cand'[c].program = task.program
         /\ cand'[c].step = "READY"
  <1>1. /\ m = lease /\ cand[c].state = "PENDING" /\ cand[c].program = task.program
        /\ cand[c].evidence = provider.evidence /\ cand[c].source = provider.source
        /\ provider.registered /\ provider.trusted
        /\ cand' = [cand EXCEPT ![c] = Bound(Issued(m, c))]
    BY DEF Finalize, Ends, AssertManagerLease, FinalizationAdmits, EvaluationAdmits, Loads,
       ProgramDeclares, PinsCurrent, EvidenceCurrent, PinsInsertable
  <1>2. /\ cand[c] \in CandidateRow /\ lease \in Nat /\ Revision \in Nat /\ provider.epoch \in Nat
    BY DEF Typed, Revision, ProviderRow
  <1> DEFINE v == Revision
      i == [cand[c] EXCEPT !.grants = "ACTIVE", !.revision = v, !.by = m]
      b == [i EXCEPT !.epoch = provider.epoch, !.state = "FINALIZED", !.step = "READY"]
  <1>3. Bound(Issued(m, c)) = b
    BY DEF Bound, Issued
  <1> HIDE DEF v
  <1>4. /\ i \in CandidateRow /\ i.revision = v /\ i.by = m /\ i.program = cand[c].program
        /\ i.evidence = cand[c].evidence /\ i.source = cand[c].source
    BY <1>1, <1>2 DEF CandidateRow, v
  <1> HIDE DEF i
  <1>5. /\ b \in CandidateRow /\ b.state = "FINALIZED" /\ b.revision = v /\ b.by = m
        /\ b.epoch = provider.epoch /\ b.evidence = cand[c].evidence
        /\ b.source = cand[c].source /\ b.program = cand[c].program /\ b.step = "READY"
    BY <1>2, <1>4 DEF CandidateRow
  <1> HIDE DEF b
  <1>6. /\ cand' \in [Candidates -> CandidateRow] /\ cand'[c] = b
        /\ \A d \in Candidates : d # c => cand'[d] = cand[d]
    BY <1>1, <1>3, <1>5 DEF Typed
  <1> QED BY <1>1, <1>5, <1>6 DEF v

LEMMA FinalizeStep ==
  ASSUME CandidateAssumption, IInv, NEW m, NEW c \in Candidates, Finalize(m, c)
  PROVE  IInv'
  <1>1. /\ UNCHANGED <<lease, now, task, provider, policy, used, lapsed, withdrawn>>
        /\ RecordEvaluation(m, c)
    BY DEF Finalize
  <1>2. /\ approval' \in [AllFingerprints -> ApprovalRow]
        /\ \A f \in AllFingerprints : approval[f].status = "APPROVED" => approval'[f] = approval[f]
    BY <1>1, EvaluationAdds DEF IInv, Absent
  <1>3. /\ cand[c].state = "PENDING" /\ cand' \in [Candidates -> CandidateRow]
        /\ \A d \in Candidates : d # c => cand'[d] = cand[d]
        /\ cand'[c].state = "FINALIZED" /\ cand'[c].revision = Revision /\ cand'[c].by = lease
        /\ cand'[c].epoch = provider.epoch /\ cand'[c].evidence = provider.evidence
        /\ cand'[c].source = provider.source /\ cand'[c].program = task.program
    BY Issues DEF IInv
  <1>4. Typed'
    BY <1>1, <1>2, <1>3 DEF IInv, Typed
  <1>5. /\ Revision' = Revision /\ Revision \in Nat /\ task.program \in Nat /\ lease \in Nat
        /\ provider.epoch \in Nat /\ provider.evidence \in Nat /\ provider.source \in Nat
    BY <1>1 DEF IInv, Typed, Revision, ProviderRow, TaskRow
  <1>6. Grows
    BY <1>1, <1>2, <1>5 DEF Grows
  <1>7. Finalized' = Finalized \cup {c} /\ c \notin Finalized /\ Finalized \subseteq Candidates
    BY <1>3 DEF Finalized
  <1>8. \A d \in Finalized : d \in Candidates /\ Kept(d)
    BY <1>3, <1>7 DEF Kept
  <1>9. Pinned(c)'
    BY <1>1, <1>3, <1>5 DEF Pinned
  <1>10. \A d \in Finalized : Pinned(d)'
    BY <1>4, <1>6, <1>8, PinsSurvive DEF IInv, History
  <1>11. \A d \in lapsed : d \in Finalized /\ ProviderMoved(d)'
    BY <1>4, <1>6, <1>8, PinsSurvive DEF IInv, History
  <1>12. \A d \in withdrawn : d \in Finalized /\ ConsentMoved(d)'
    BY <1>4, <1>6, <1>8, PinsSurvive DEF IInv, History
  <1>13. History'
    BY <1>1, <1>7, <1>9, <1>10, <1>11, <1>12 DEF IInv, History
  <1> QED BY <1>4, <1>13 DEF IInv

-----------------------------------------------------------------------------
(* The invariant holds. *)

LEMMA InitIInv == ASSUME CandidateAssumption PROVE Init => IInv
  <1> SUFFICES ASSUME Init PROVE IInv
    OBVIOUS
  <1>1. NoCandidate \in CandidateRow /\ NoCandidate.state = Absent
    BY DEF NoCandidate, CandidateRow
  <1>2. NoApproval \in ApprovalRow
    BY DEF NoApproval, ApprovalRow
  <1>3. Typed
    <2>1. policy \in Seq(Policies)
      BY DEF Init
    <2>2. task \in TaskRow /\ provider \in ProviderRow
      BY DEF Init, TaskRow, Live, ProviderRow
    <2>3. cand \in [Candidates -> CandidateRow] /\ approval \in [AllFingerprints -> ApprovalRow]
      BY <1>1, <1>2 DEF Init
    <2>4. lease \in Nat /\ now \in Nat /\ used \in [Candidates -> [Resources -> Nat]]
      BY DEF Init
    <2> QED BY <2>1, <2>2, <2>3, <2>4 DEF Typed
  <1>4. Finalized = {}
    BY <1>1 DEF Init, Finalized, Absent
  <1>5. \A c \in Candidates, r \in Resources : ~(used[c][r] > 0)
    BY DEF Init
  <1>6. lapsed = {} /\ withdrawn = {}
    BY DEF Init
  <1> QED BY <1>3, <1>4, <1>5, <1>6 DEF IInv, History

LEMMA NextIInv ==
  ASSUME CandidateAssumption, IInv, [Next]_vars
  PROVE  IInv'
  <1>1. CASE LoseInput \/ Tick \/ UNCHANGED vars
    BY <1>1, QuietSteps
  <1>2. ASSUME NEW m \in 1..Managers,
               \/ \E op \in Operations, c \in Candidates : Begin(m, op, c)
               \/ Give(m) \/ SwitchBackend(m) \/ RegisterService(m) \/ DisableService(m)
        PROVE  IInv'
    BY <1>2, QuietSteps
  <1>3. ASSUME NEW m \in 1..Managers, NEW c \in Candidates,
               Reserve(m, c) \/ Evaluate(m, c) \/ Finalize(m, c) \/ Launch(m, c)
        PROVE  IInv'
    BY <1>3, ReserveStep, EvaluateStep, FinalizeStep, LaunchStep
  <1>4. ASSUME NEW m \in 1..Managers, NEW c \in Candidates, NEW r \in Resources, Use(m, c, r)
        PROVE  IInv'
    BY <1>4, UseStep
  <1>5. ASSUME NEW m \in 1..Managers, NEW c \in Candidates, NEW f \in AllFingerprints, ApplyClaim(m, c, f)
        PROVE  IInv'
    BY <1>5, EvaluateStep
  <1>6. ASSUME NEW m \in 1..Managers, NEW f \in AllFingerprints, NEW p \in Principals,
               (\E approve \in BOOLEAN : DecideApproval(m, f, p, approve)) \/ RevokeApproval(m, f, p)
        PROVE  IInv'
    BY <1>6, DecideStep, RevokeStep
  <1>7. ASSUME NEW m \in 1..Managers,
               \/ \E p \in Policies : ActivatePolicy(m, p)
               \/ ChangeProvider(m) \/ Claim(m)
               \/ \E to \in TaskState : MoveTask(m, to)
        PROVE  IInv'
    BY <1>7, ActivateStep, ProviderStep, ClaimStep, MoveTaskStep
  <1> QED BY <1>1, <1>2, <1>3, <1>4, <1>5, <1>6, <1>7 DEF Next

-----------------------------------------------------------------------------
(* Which steps change a candidate, and which use it. *)

LEMMA Changes ==
  ASSUME Typed, [Next]_vars
  PROVE  /\ \/ \E m \in 1..Managers, c \in Candidates : Reserve(m, c) \/ Finalize(m, c) \/ Launch(m, c)
            \/ cand' = cand
            \/ cand' = [c \in Candidates |->
                 IF c \in Finalized THEN [cand[c] EXCEPT !.grants = "REVOKED"] ELSE cand[c]]
         /\ \/ \E m \in 1..Managers, c \in Candidates, r \in Resources : Use(m, c, r)
            \/ used' = used
  <1> DEFINE Rows == \/ \E m \in 1..Managers, c \in Candidates : Reserve(m, c) \/ Finalize(m, c) \/ Launch(m, c)
                     \/ cand' = cand
                     \/ cand' = [c \in Candidates |->
                          IF c \in Finalized THEN [cand[c] EXCEPT !.grants = "REVOKED"] ELSE cand[c]]
             Uses == \/ \E m \in 1..Managers, c \in Candidates, r \in Resources : Use(m, c, r)
                     \/ used' = used
  <1>1. CASE LoseInput \/ Tick \/ UNCHANGED vars
    BY <1>1 DEF LoseInput, Tick, vars, rows
  <1>2. ASSUME NEW m \in 1..Managers,
               \/ \E op \in Operations, c \in Candidates : Begin(m, op, c)
               \/ Give(m) \/ SwitchBackend(m) \/ RegisterService(m) \/ DisableService(m)
        PROVE  Rows /\ Uses
    BY <1>2 DEF Begin, Give, SwitchBackend, RegisterService, DisableService, rows
  <1>3. ASSUME NEW m \in 1..Managers, NEW c \in Candidates,
               Reserve(m, c) \/ Evaluate(m, c) \/ Finalize(m, c) \/ Launch(m, c)
        PROVE  Rows /\ Uses
    <2>1. used' = used
      BY <1>3 DEF Reserve, Evaluate, Finalize, Launch
    <2>2. CASE Evaluate(m, c)
      BY <2>1, <2>2 DEF Evaluate
    <2> QED BY <1>3, <2>1, <2>2
  <1>4. ASSUME NEW m \in 1..Managers, NEW c \in Candidates, NEW r \in Resources, Use(m, c, r)
        PROVE  Rows /\ Uses
    <2>1. cand' = cand
      BY <1>4 DEF Use
    <2> QED BY <1>4, <2>1
  <1>5. ASSUME NEW m \in 1..Managers, NEW c \in Candidates, NEW f \in AllFingerprints, ApplyClaim(m, c, f)
        PROVE  Rows /\ Uses
    BY <1>5 DEF ApplyClaim
  <1>6. ASSUME NEW m \in 1..Managers, NEW f \in AllFingerprints, NEW p \in Principals,
               (\E approve \in BOOLEAN : DecideApproval(m, f, p, approve)) \/ RevokeApproval(m, f, p)
        PROVE  Rows /\ Uses
    BY <1>6 DEF DecideApproval, RevokeApproval
  <1>7. ASSUME NEW m \in 1..Managers,
               (\E p \in Policies : ActivatePolicy(m, p)) \/ ChangeProvider(m)
        PROVE  Rows /\ Uses
    BY <1>7 DEF ActivatePolicy, ChangeProvider
  <1>8. ASSUME NEW m \in 1..Managers, NEW to \in TaskState, MoveTask(m, to)
        PROVE  Rows /\ Uses
    BY <1>8 DEF MoveTask
  <1>9. ASSUME NEW m \in 1..Managers, Claim(m)
        PROVE  Rows /\ Uses
    <2> DEFINE prepared == task.state \in {"PLANNING", "WAITING_FOR_AUTH", "RUNNABLE"} /\ Finalized # {}
    <2>1. /\ used' = used
          /\ cand' = [c \in Candidates |-> IF prepared /\ c \in Finalized
                                           THEN [cand[c] EXCEPT !.grants = "REVOKED"] ELSE cand[c]]
      BY <1>9 DEF Claim
    <2>2. CASE prepared
      BY <2>1, <2>2
    <2>3. CASE ~prepared
      BY <2>1, <2>3 DEF Typed
    <2> QED BY <2>1, <2>2, <2>3
  <1> HIDE DEF Rows, Uses
  <1>10. Rows /\ Uses
    BY <1>1, <1>2, <1>3, <1>4, <1>5, <1>6, <1>7, <1>8, <1>9 DEF Next, Rows, Uses
  <1> QED BY <1>10 DEF Rows, Uses

\* Only a launch makes a READY step RUNNING, only finalization a candidate
\* FINALIZED, and no other candidate is touched by either.
LEMMA OnlyOne ==
  ASSUME CandidateAssumption, Typed, [Next]_vars, NEW c \in Candidates
  PROVE  /\ cand[c].step = "READY" /\ cand'[c].step = "RUNNING" => \E m \in 1..Managers : Launch(m, c)
         /\ cand[c].state = "PENDING" /\ cand'[c].state = "FINALIZED" => \E m \in 1..Managers : Finalize(m, c)
  <1> DEFINE Goal == /\ cand[c].step = "READY" /\ cand'[c].step = "RUNNING" => \E m \in 1..Managers : Launch(m, c)
                     /\ cand[c].state = "PENDING" /\ cand'[c].state = "FINALIZED" =>
                          \E m \in 1..Managers : Finalize(m, c)
  <1>1. CASE cand' = cand
    BY <1>1
  <1>2. ASSUME cand' = [d \in Candidates |->
                 IF d \in Finalized THEN [cand[d] EXCEPT !.grants = "REVOKED"] ELSE cand[d]]
        PROVE  Goal
    <2>1. cand[c] \in CandidateRow
      BY DEF Typed
    <2>2. cand'[c] = cand[c] \/ cand'[c] = [cand[c] EXCEPT !.grants = "REVOKED"]
      BY <1>2
    <2>3. cand'[c].step = cand[c].step /\ cand'[c].state = cand[c].state
      BY <2>1, <2>2 DEF CandidateRow
    <2> QED BY <2>3
  <1>3. ASSUME NEW m \in 1..Managers, NEW d \in Candidates, Finalize(m, d)
        PROVE  Goal
    <2>1. cand'[d].step = "READY" /\ \A e \in Candidates : e # d => cand'[e] = cand[e]
      BY <1>3, Issues
    <2> QED BY <1>3, <2>1
  <1>4. ASSUME NEW m \in 1..Managers, NEW d \in Candidates, Launch(m, d)
        PROVE  Goal
    <2>1. cand' = [cand EXCEPT ![d].step = "RUNNING"]
      BY <1>4 DEF Launch
    <2>2. cand[d] \in CandidateRow
      BY DEF Typed
    <2>3. cand'[c].state = cand[c].state /\ (c # d => cand'[c] = cand[c])
      BY <2>1, <2>2 DEF Typed, CandidateRow
    <2> QED BY <1>4, <2>3
  <1>5. ASSUME NEW m \in 1..Managers, NEW d \in Candidates, Reserve(m, d)
        PROVE  Goal
    <2>1. PICK e : cand' = [cand EXCEPT ![d] = [NoCandidate EXCEPT !.state = "PENDING",
                     !.program = task.program, !.attempt = LatestAttempt + 1,
                     !.evidence = e, !.source = provider.source]]
      BY <1>5 DEF Reserve
    <2>2. c # d => cand'[c] = cand[c]
      BY <2>1 DEF Typed
    <2>3. c = d => cand'[c].state = "PENDING" /\ cand'[c].step = Absent
      BY <2>1 DEF Typed, NoCandidate
    <2> QED BY <2>2, <2>3 DEF Absent
  <1> QED BY <1>1, <1>2, <1>3, <1>4, <1>5, Changes

-----------------------------------------------------------------------------
(* Theorems. *)

\* The inductive invariant: a finalized candidate pins values of counters
\* that only grow, and what was taken back from it has left one of them ahead.
THEOREM CandidateInvariant ==
  ASSUME CandidateAssumption
  PROVE  Spec => []IInv
  <1>1. Init => IInv
    BY InitIInv
  <1>2. IInv /\ [Next]_vars => IInv'
    BY NextIInv
  <1> QED BY <1>1, <1>2, PTL DEF Spec

LEMMA TakenBack ==
  ASSUME CandidateAssumption, IInv, [Next]_vars
  PROVE  WithdrawnStaysUnused
  <1>1. \A c \in Finalized : c \in Candidates
    BY DEF Finalized
  <1>2. NoLaunchAfterTakeback
    <2> SUFFICES ASSUME NEW c \in Candidates, cand[c].step = "READY", cand'[c].step = "RUNNING",
                        c \in lapsed \cup withdrawn
                 PROVE  FALSE
      BY DEF NoLaunchAfterTakeback
    <2>1. PICK m \in 1..Managers : Launch(m, c)
      BY OnlyOne DEF IInv
    <2>2. /\ cand[c].revision = Revision /\ cand[c].program = task.program /\ cand[c].by = lease
          /\ cand[c].epoch = provider.epoch /\ cand[c].evidence = provider.evidence
          /\ cand[c].source = provider.source /\ \A f \in RestsOn(c) : ~approval[f].withdrawn
      BY <2>1 DEF Launch, AssertManagerLease, PolicyCurrent, ProgramValidated, ProgramDeclares,
         EnablementCurrent, EvidenceLatest, AdmissionStands, ReceiptStands, NotWithdrawn
    <2>3. /\ Revision \in Nat /\ task.program \in Nat /\ lease \in Nat /\ provider.epoch \in Nat
          /\ provider.evidence \in Nat /\ provider.source \in Nat
      BY DEF IInv, Typed, Revision, TaskRow, ProviderRow
    <2>4. ~ProviderMoved(c) /\ ~ConsentMoved(c)
      BY <2>2, <2>3 DEF ProviderMoved, ConsentMoved
    <2> QED BY <2>4 DEF IInv, History
  <1>3. ASSUME NEW c \in Candidates, used'[c] # used[c]
        PROVE  \E m \in 1..Managers, r \in Resources : Use(m, c, r)
    <2>1. PICK m \in 1..Managers, d \in Candidates, r \in Resources : Use(m, d, r)
      BY <1>3, Changes DEF IInv
    <2>2. used' = [used EXCEPT ![d][r] = @ + 1]
      BY <2>1 DEF Use
    <2>3. c = d
      BY <1>3, <2>2 DEF IInv, Typed
    <2> QED BY <2>1, <2>3
  <1>4. NoUseAfterWithdrawal
    <2> SUFFICES ASSUME NEW c \in Candidates, used'[c] # used[c], c \in withdrawn PROVE FALSE
      BY DEF NoUseAfterWithdrawal
    <2>1. PICK m \in 1..Managers, r \in Resources : Use(m, c, r)
      BY <1>3
    <2>2. /\ cand[c].revision = Revision /\ cand[c].program = task.program /\ cand[c].by = lease
          /\ \A f \in RestsOn(c) : ~approval[f].withdrawn
      BY <2>1 DEF Use, AssertManagerLease, ExecutionLoads, ProgramDeclares, RuntimeValid,
         PolicyCurrent, NotWithdrawn
    <2>3. Revision \in Nat /\ task.program \in Nat /\ lease \in Nat
      BY DEF IInv, Typed, Revision, TaskRow
    <2>4. ~ConsentMoved(c)
      BY <2>2, <2>3 DEF ConsentMoved
    <2> QED BY <2>4 DEF IInv, History
  <1>5. NoOlderAttemptUsed
    <2> SUFFICES ASSUME NEW c \in Candidates, NEW d \in Candidates, used'[c] # used[c],
                        NEW q \in Resources, used[d][q] > 0, cand[d].program = cand[c].program
                 PROVE  cand[d].attempt <= cand[c].attempt
      BY DEF NoOlderAttemptUsed
    <2>1. PICK m \in 1..Managers, r \in Resources : Use(m, c, r)
      BY <1>3
    <2>2. d \in Finalized
      BY DEF IInv, History
    <2> QED BY <2>1, <2>2 DEF Use, ExecutionLoads, LatestStep
  <1> QED BY <1>2, <1>4, <1>5 DEF WithdrawnStaysUnused

\* No step is launched under authority of which anything was taken back, no
\* grant is used after its policy, approval, program or session has ended, and
\* no older attempt acts after a newer one, whatever was restored in between
\* (binding_grants_valid, binding_runtime_authority_valid).
THEOREM TakenBackForGood ==
  ASSUME CandidateAssumption
  PROVE  Spec => [][WithdrawnStaysUnused]_vars
  <1>1. IInv /\ [Next]_vars => [WithdrawnStaysUnused]_vars
    BY TakenBack
  <1> QED BY <1>1, CandidateInvariant, PTL DEF Spec

\* What the evaluator allows is what the rules and the owner say.
LEMMA AllowedIsPermitted ==
  ASSUME CandidateAssumption, Typed, PolicyLoaded, NEW m, NEW c, NEW r \in Resources,
         Effect(m, c, r) = "ALLOW", Evaluable(m, c, r)
  PROVE  Permitted(c, r)
  <1> DEFINE rules == policy[Revision]
             spoken == Spoken(rules, Len(rules), r)
             a == approval[[c |-> c, r |-> r, v |-> Revision]]
  <1>1. rules \in Policies /\ Len(rules) \in Nat /\ DOMAIN rules = 1..Len(rules)
    BY DEF Typed, PolicyLoaded, Revision, CandidateAssumption
  <1> HIDE DEF rules
  <1>2. Decide(rules, r) = Combined(spoken)
    BY <1>1, DecideCombines
  <1>3. Permitted(c, r) <=> /\ spoken # {} /\ "DENY" \notin spoken
                            /\ "REQUIRE_APPROVAL" \in spoken =>
                                 a.status = "APPROVED" /\ ~a.withdrawn /\ now < a.expires
    BY <1>1 DEF Permitted, Spoken, rules
  <1> HIDE DEF spoken, a
  <1>4. Basis(m, r) = Combined(spoken) \/ Basis(m, r) = "DenyEngineUnavailable"
    BY <1>2 DEF Basis, rules
  <1>5. Effect(m, c, r) = IF Basis(m, r) = "RequireApproval" THEN ApprovalEffect(a) ELSE EffectOf(Basis(m, r))
    BY DEF Effect, Fingerprint, a
  <1>6. CASE Basis(m, r) = "RequireApproval"
    <2>1. a.status = "APPROVED"
      BY <1>5, <1>6 DEF ApprovalEffect
    <2>2. ~a.withdrawn /\ now < a.expires
      BY <1>6, <2>1 DEF Evaluable, Fingerprint, ApprovalBinds, a, Absent
    <2>3. spoken # {} /\ "DENY" \notin spoken
      BY <1>4, <1>6 DEF Combined
    <2> QED BY <1>3, <2>1, <2>2, <2>3
  <1>7. CASE Basis(m, r) = "Allow"
    BY <1>3, <1>4, <1>7 DEF Combined
  <1>8. Basis(m, r) = "RequireApproval" \/ Basis(m, r) = "Allow"
    BY <1>5 DEF EffectOf
  <1> QED BY <1>6, <1>7, <1>8

LEMMA ConsentCounts ==
  ASSUME CandidateAssumption, IInv, [Next]_vars
  PROVE  IssuedOnCurrentConsent
  <1> SUFFICES ASSUME NEW c \in Candidates, cand[c].state = "PENDING", cand'[c].state = "FINALIZED"
               PROVE  /\ \A r \in Resources : Permitted(c, r)
                      /\ provider.registered /\ provider.trusted
                      /\ provider.evidence = cand[c].evidence /\ provider.source = cand[c].source
    BY DEF IssuedOnCurrentConsent
  <1>1. PICK m \in 1..Managers : Finalize(m, c)
    BY OnlyOne DEF IInv
  <1>2. /\ PolicyLoaded /\ \A r \in Resources : Effect(m, c, r) = "ALLOW" /\ Evaluable(m, c, r)
    BY <1>1 DEF Finalize, FinalizationAdmits, EvaluationAdmits, GrantsIssuable
  <1>3. \A r \in Resources : Permitted(c, r)
    BY <1>2, AllowedIsPermitted DEF IInv
  <1> QED BY <1>1, <1>3, Issues DEF IInv

\* Authority is issued only on rules of the active policy, consent of the
\* owner and pins of the provider that hold in the issuing transaction,
\* although finalize_pending_authority_candidate read the providers before it.
THEOREM IssuedOnConsent ==
  ASSUME CandidateAssumption
  PROVE  Spec => [][IssuedOnCurrentConsent]_vars
  <1>1. IInv /\ [Next]_vars => [IssuedOnCurrentConsent]_vars
    BY ConsentCounts
  <1> QED BY <1>1, CandidateInvariant, PTL DEF Spec

=============================================================================

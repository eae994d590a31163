---------------------------- MODULE GrantDeadlines ----------------------------
(***************************************************************************)
(* Expiry of coordinator-issued grants on top of the security clock: the   *)
(* deadline fixed at issue, the check at each protected use, the latch     *)
(* that makes a witnessed expiry permanent, and the external primitives    *)
(* that run under a marker only while the grant holds.                     *)
(***************************************************************************)
EXTENDS TrustedTime

CONSTANTS
  Grants,    \* grant ids
  Lifetime,  \* LOCAL_ARTIFACT_GRANT_NANOS
  Caps       \* expiry of an approval, Never when none is needed

\* What the instances have to satisfy.
DeadlineAssumption == Lifetime \in Nat \ {0} /\ Caps \subseteq Nat

VARIABLES
  grant,  \* authority_grants with their authority_grant_deadlines
  latch,  \* authority_grant_expiry_latches
  uses    \* admitted uses: <<grant, state_revision, epoch of the lease>>

vars == <<timeVars, grant, latch, uses>>

NoGrant == [epoch |-> 0, revision |-> 0, mono |-> 0, floor |-> 0, expiry |-> 0, deadline |-> 0]

Min2(a, b) == IF a <= b THEN a ELSE b

-----------------------------------------------------------------------------
(* derive: the shortest cap, and the monotonic deadline at the same distance. *)

Expiry(floor, cap) == Min2(floor + Lifetime, cap)

DeadlineMono(s, floor, cap) == s.mono + (Expiry(floor, cap) - floor)

\* Mutant: only the sample at hand counts, not the ones since the issue.
EvidenceShort(g, a, s, now) ==
  LET d == grant[g] IN
  /\ d # NoGrant /\ g \notin latch
  /\ d.epoch = lease /\ actor[a].epoch = lease
  /\ d.mono <= s.mono /\ d.floor <= now.floor

\* check_grant_deadline, the joined evidence: the grant belongs to the lease
\* and its clock session, is not latched, and no observation since its issue
\* had a later monotonic reading than this one.
Evidence(g, a, s, now) ==
  LET d == grant[g] IN
  /\ d # NoGrant /\ g \notin latch
  /\ d.epoch = lease /\ actor[a].epoch = lease
  /\ d.mono <= s.mono /\ d.floor <= now.floor
  /\ \A i \in d.revision..clock.revision :
       ledger[i].confidence = "TRUSTED_LOCAL" => ledger[i].mono <= s.mono

DeadlineStatus(g, a, s, now) ==
  IF ~Evidence(g, a, s, now) THEN "InvalidOrIncomplete"
  ELSE IF s.mono >= grant[g].deadline THEN "ExpiredMonotonic"
  ELSE IF now.floor >= grant[g].expiry THEN "ExpiredWall"
  ELSE "Valid"

\* check_and_latch_grant_deadline
Latched(g, status) ==
  latch' = IF status \in {"ExpiredMonotonic", "ExpiredWall"} THEN latch \cup {g} ELSE latch

-----------------------------------------------------------------------------
(* Operations on grants. *)

Untouched == UNCHANGED <<grant, latch, uses>>

\* The finalizer issues a grant with the observation of its own transaction;
\* a cap that is already reached is refused.
Issue(g) ==
  LET now == ClockAfter(reading, FALSE) IN
  /\ grant[g] = NoGrant
  /\ Locked("manager", "issue")
  /\ SessionAdvances("manager", reading)
  /\ AdvanceSession(reading)
  /\ \E cap \in Caps :
       /\ Expiry(now.floor, cap) > now.floor
       /\ grant' = [grant EXCEPT ![g] =
            [epoch |-> lease, revision |-> now.revision, mono |-> reading.mono,
             floor |-> now.floor, expiry |-> Expiry(now.floor, cap),
             deadline |-> DeadlineMono(reading, now.floor, cap)]]
  /\ actor' = [actor EXCEPT !["manager"] = Idle(@.epoch)]
  /\ UNCHANGED <<reading, adjust, marker, lease, latch, uses>>

\* coordinator_grants_valid_in inside a protected transaction.  A denial
\* commits the sample and the latch as well.
UseGrant(a, g) ==
  LET now == ClockAfter(reading, FALSE)
      status == DeadlineStatus(g, a, reading, now) IN
  /\ Locked(a, "use")
  /\ SessionAdvances(a, reading)
  /\ AdvanceSession(reading)
  /\ Latched(g, status)
  /\ uses' = IF status = "Valid" THEN uses \cup {<<g, now.revision, lease>>} ELSE uses
  /\ actor' = [actor EXCEPT ![a] = Idle(@.epoch)]
  /\ UNCHANGED <<reading, adjust, marker, lease, grant>>

\* The entry transaction of a marked primitive: the grant is checked on the
\* entry sample; the primitive runs and is resolved in the same transaction,
\* or the marker is resolved as having had no effect.
EnterEffect(a, g) ==
  LET now == ClockAfter(reading, FALSE)
      status == DeadlineStatus(g, a, reading, now) IN
  /\ Entering(a) /\ Usable(reading)
  /\ SessionAdvances(a, reading)
  /\ AdvanceSession(reading)
  /\ Apply(reading, FALSE)
  /\ Latched(g, status)
  /\ IF status = "Valid"
     THEN /\ Resolve(actor[a].mark, "EFFECT_INVOKED", lease)
          /\ uses' = uses \cup {<<g, now.revision, lease>>}
     ELSE Resolve(actor[a].mark, "NO_EFFECT", 0) /\ UNCHANGED uses
  /\ actor' = [actor EXCEPT ![a] = Idle(@.epoch)]
  /\ UNCHANGED <<reading, adjust, lease, grant>>

-----------------------------------------------------------------------------
Init ==
  /\ TimeInit
  /\ grant = [g \in Grants |-> NoGrant]
  /\ latch = {} /\ uses = {}

ActorStep(a) ==
  \/ \E op \in {"use", "effect"} : Assess(a, op)
  \/ DenyLocked(a) \/ RefuseLocked(a) \/ RecordRefused(a)
  \/ PrepareEffect(a) \/ LoseEntry(a) \/ DenyEntry(a)
  \/ EnterUnbound(a) \/ LoseResolution(a) \/ Close(a)

ManagerStep ==
  \/ Claim \/ StartupAssess \/ OpenSession
  \/ Assess("manager", "session") \/ Assess("manager", "issue")

Next ==
  \/ (MoveClocks \/ ManagerStep) /\ Untouched
  \/ (\E h \in Handles : OpenHandle(h)) /\ Untouched
  \/ (\E a \in Actors : ActorStep(a)) /\ Untouched
  \/ \E g \in Grants : Issue(g)
  \/ \E a \in Actors, g \in Grants : UseGrant(a, g) \/ EnterEffect(a, g)

Spec == Init /\ [][Next]_vars

-----------------------------------------------------------------------------
(* Properties. *)

\* Every variable holds a value of its type.
TypeOK ==
  /\ reading \in Samples /\ adjust \in 0..MaxAdjust
  /\ clock \in [confidence : Confidence, high : 0..Never, floor : 0..Never, revision : 0..MaxRevision]
  /\ Len(ledger) <= MaxRevision
  /\ lease \in 0..MaxEpoch
  /\ \A a \in Actors : actor[a].epoch \in 0..lease
  /\ latch \subseteq Grants
  /\ uses \subseteq Grants \X (1..MaxRevision) \X (1..MaxEpoch)

\* No revival.  A use of a grant is admitted only if no trusted observation
\* from its issue up to that use had reached either of its deadlines, however
\* the wall and the monotonic clock moved in between and whichever actor made
\* the observation.
NoRevival ==
  \A u \in uses :
    LET d == grant[u[1]] IN
    \A i \in d.revision..u[2] :
      ledger[i].confidence = "TRUSTED_LOCAL" =>
        ledger[i].mono < d.deadline /\ ledger[i].floor < d.expiry

\* An effect that may have run and was never accounted for stops protected
\* work: no use is admitted at a revision after the marker's preparation, and
\* a later owner of the store serves only with the clock latched uncertain.
UnknownEffectStopsUse ==
  \A m \in Pending :
    /\ \A u \in uses : u[2] < marker[m].prepared
    /\ lease > marker[m].epoch /\ actor["manager"].pc = "idle" =>
         clock.confidence = "TIME_UNCERTAIN"

\* A handle or manager that lost the lease while its effect was prepared
\* never runs the effect: each primitive ran under the lease that prepared it.
EffectsUnderOwnLease ==
  \A m \in DOMAIN marker : marker[m].ran \in {0, marker[m].epoch}

\* The audit that startup makes of its own rows before it serves again never
\* fails on rows this code wrote: the state is the tail of the ledger and
\* every marker has its preparation, and a resolution later than it.
StartupAuditHolds == StateMatchesAudit /\ InflightRowsCoherent

\* Every effect is accounted for: it ran under the lease that prepared it, its
\* marker and resolution are in the rows startup audits, and an effect without
\* a resolution stops protected work.
EffectsAccounted == EffectsUnderOwnLease /\ UnknownEffectStopsUse /\ StartupAuditHolds

\* The floor against which expiry is judged never falls, a latched expiry is
\* never lifted, and an uncertain clock never becomes trusted again.
ClockOnlyHardens ==
  /\ clock.floor # Never => clock'.floor # Never /\ clock'.floor >= clock.floor
  /\ latch \subseteq latch'
  /\ clock.confidence = "TIME_UNCERTAIN" => clock'.confidence = "TIME_UNCERTAIN"

=============================================================================

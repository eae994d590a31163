----------------------------- MODULE TrustedTime -----------------------------
(***************************************************************************)
(* The durable security clock.  Every protected operation samples the wall *)
(* and the monotonic clock together, under the store's write lock, and     *)
(* appends the sample to an immutable ledger; expiry is judged against the *)
(* highest wall time ever seen (the floor), never against the clock alone. *)
(* A filesystem or destination primitive is bracketed by a durable marker. *)
(*                                                                         *)
(* Actors: the manager, and the handles (writers, readers) it hands out.   *)
(* A handle has its own connection and can outlive its manager, so it may  *)
(* run next to the manager that claimed the store afterwards.              *)
(***************************************************************************)
EXTENDS Naturals, Sequences, FiniteSets

CONSTANTS
  Handles,      \* handles given out by a manager
  MaxTime,      \* wall and monotonic readings are 0..MaxTime
  MaxRevision,  \* length of the ledger
  MaxEpoch,     \* how often the store is claimed
  MaxAdjust,    \* how often a clock moves
  StartWall,    \* the wall clock's first reading
  Tolerance     \* ROLLBACK_TOLERANCE_NANOS

\* What the instances have to satisfy.
TimeAssumption ==
  /\ "manager" \notin Handles
  /\ MaxTime \in Nat /\ MaxRevision \in Nat /\ MaxEpoch \in Nat
  /\ MaxAdjust \in Nat /\ StartWall \in 0..MaxTime /\ Tolerance \in Nat

Actors == {"manager"} \cup Handles

VARIABLES
  reading,  \* what the machine's clocks show: [wall, mono], or unavailable
  adjust,   \* clock movements so far
  clock,    \* trusted_time_state
  ledger,   \* trusted_time_observations, by state_revision
  marker,   \* effect preparations, pending rows and resolutions, in order
  lease,    \* fence_epoch of task_manager_lease
  session,  \* authority_clock_sessions, by epoch
  actor     \* program counter of each actor

timeVars == <<reading, adjust, clock, ledger, marker, lease, session, actor>>

-----------------------------------------------------------------------------
Reading == 0..MaxTime
Never == MaxTime + 1        \* NULL in a time column
Samples == [wall : Reading \cup {Never}, mono : Reading]
Confidence == {"UNASSESSED", "TRUSTED_LOCAL", "TIME_UNCERTAIN"}

Max2(a, b) == IF a >= b THEN a ELSE b

\* Option::max with None: the other one.
MaxSeen(a, b) == IF a = Never THEN b ELSE IF b = Never THEN a ELSE Max2(a, b)

NoSession == [mono |-> 0, revision |-> 0]

NoSample == [wall |-> 0, mono |-> 0]
Idle(e) == [pc |-> "idle", op |-> "none", epoch |-> e, mark |-> 0, sample |-> NoSample]
Closed == [Idle(0) EXCEPT !.pc = "closed"]

Pending == {m \in DOMAIN marker : marker[m].state = "PENDING"}

-----------------------------------------------------------------------------
(* Samples. *)

\* apply_sample_in_transaction_with_unresolved: uncertainty is never left.
TrustedAfter(s, unresolved) ==
  /\ clock.confidence # "TIME_UNCERTAIN"
  /\ ~unresolved
  /\ s.wall # Never
  /\ clock.high # Never => s.wall + Tolerance >= clock.high

ClockAfter(s, unresolved) ==
  LET high == MaxSeen(clock.high, s.wall) IN
  [confidence |-> IF TrustedAfter(s, unresolved) THEN "TRUSTED_LOCAL" ELSE "TIME_UNCERTAIN",
   high |-> high, floor |-> MaxSeen(clock.floor, high), revision |-> clock.revision + 1]

Observation(s, c) ==
  [mono |-> s.mono, high |-> c.high, floor |-> c.floor, confidence |-> c.confidence]

\* commit_in: the sample becomes the newest observation of the ledger.
Apply(s, unresolved) ==
  /\ clock.revision < MaxRevision
  /\ clock' = ClockAfter(s, unresolved)
  /\ ledger' = Append(ledger, Observation(s, ClockAfter(s, unresolved)))

\* capture_locked: a sample under the lock is usable when the clock is
\* trusted and the wall has not fallen below the floor.
Usable(s) ==
  /\ clock.confidence = "TRUSTED_LOCAL"
  /\ s.wall # Never
  /\ s.wall + Tolerance >= clock.floor

\* state_matches_audit
StateMatchesAudit ==
  /\ clock.revision = Len(ledger)
  /\ IF clock.revision = 0
     THEN clock.confidence = "UNASSESSED" /\ clock.high = Never /\ clock.floor = Never
     ELSE LET last == ledger[clock.revision] IN
          /\ last.high = clock.high /\ last.floor = clock.floor
          /\ last.confidence = clock.confidence

\* inflight_rows_coherent
InflightRowsCoherent ==
  \A m \in DOMAIN marker :
    LET p == marker[m] IN
    /\ p.prepared \in DOMAIN ledger
    /\ ledger[p.prepared].confidence = "TRUSTED_LOCAL"
    /\ p.epoch >= 1
    /\ p.state # "PENDING" =>
         /\ p.resolved \in DOMAIN ledger
         /\ p.resolved > p.prepared
         /\ p.state = "EFFECT_INVOKED" => ledger[p.resolved].confidence = "TRUSTED_LOCAL"

\* assert_manager_lease
HoldsLease(a) == actor[a].epoch = lease

\* advance_clock_session_in: only the current lease's session, never back.
SessionAdvances(a, s) ==
  /\ HoldsLease(a)
  /\ session[lease] # NoSession
  /\ session[lease].mono <= s.mono

AdvanceSession(s) ==
  session' = [session EXCEPT ![lease] = [mono |-> s.mono, revision |-> clock.revision + 1]]

-----------------------------------------------------------------------------
(* Environment. *)

TimeInit ==
  /\ reading = [wall |-> StartWall, mono |-> 0]
  /\ adjust = 0
  /\ clock = [confidence |-> "UNASSESSED", high |-> Never, floor |-> Never, revision |-> 0]
  /\ ledger = <<>> /\ marker = <<>>
  /\ lease = 0
  /\ session = [e \in 1..MaxEpoch |-> NoSession]
  /\ actor = [a \in Actors |-> Closed]

\* Both clocks are outside the program: the wall can be set to anything or
\* become unreadable, and the monotonic clock of an injected source can jump
\* and fall back.
MoveClocks ==
  /\ adjust < MaxAdjust
  /\ adjust' = adjust + 1
  /\ reading' \in {s \in Samples \ {reading} : s.wall = reading.wall \/ s.mono = reading.mono}
  /\ UNCHANGED <<clock, ledger, marker, lease, session, actor>>

-----------------------------------------------------------------------------
(* Ownership of the store. *)

\* StoreOwner::claim under the store lock, which dies with its manager.
Claim ==
  /\ actor["manager"].pc = "closed"
  /\ lease < MaxEpoch
  /\ lease' = lease + 1
  /\ actor' = [actor EXCEPT !["manager"] = [Idle(lease + 1) EXCEPT !.pc = "claimed"]]
  /\ UNCHANGED <<reading, adjust, clock, ledger, marker, session>>

\* Mutant: an unresolved marker does not make the clock uncertain.
StartupAssessPlain ==
  /\ actor["manager"].pc = "claimed"
  /\ Apply(reading, FALSE)
  /\ actor' = [actor EXCEPT !["manager"] =
       IF clock'.confidence = "TRUSTED_LOCAL"
       THEN [@ EXCEPT !.pc = "idle", !.op = "session"] ELSE Idle(@.epoch)]
  /\ UNCHANGED <<reading, adjust, marker, lease, session>>

\* initialize_clock_session, startup_assess: a marker that is still pending
\* means an effect nobody accounted for, and latches the uncertainty.
StartupAssess ==
  /\ actor["manager"].pc = "claimed"
  /\ Apply(reading, Pending # {})
  /\ actor' = [actor EXCEPT !["manager"] =
       IF clock'.confidence = "TRUSTED_LOCAL"
       THEN [@ EXCEPT !.pc = "idle", !.op = "session"] ELSE Idle(@.epoch)]
  /\ UNCHANGED <<reading, adjust, marker, lease, session>>

\* The manager returns a handle that carries its owner and epoch.
OpenHandle(h) ==
  /\ actor[h].pc = "closed"
  /\ actor["manager"].pc = "idle" /\ actor["manager"].op = "none"
  /\ actor' = [actor EXCEPT ![h] = Idle(actor["manager"].epoch)]
  /\ UNCHANGED <<reading, adjust, clock, ledger, marker, lease, session>>

\* A manager or a handle is dropped, or its thread dies where it stands.
Close(a) ==
  /\ actor[a].pc # "closed"
  /\ actor' = [actor EXCEPT ![a] = Closed]
  /\ UNCHANGED <<reading, adjust, clock, ledger, marker, lease, session>>

-----------------------------------------------------------------------------
(* Protected operations: `assess` in a transaction of its own, then the     *)
(* operation in a second one, whose sample is recorded even when it fails.  *)

\* assess: refused while any marker is pending.
Assess(a, op) ==
  /\ actor[a].pc = "idle"
  /\ actor[a].op \in {"none", op}
  /\ op = "session" => actor[a].op = "session"
  /\ Pending = {}
  /\ Apply(reading, FALSE)
  /\ actor' = [actor EXCEPT ![a] =
       IF clock'.confidence = "TRUSTED_LOCAL"
       THEN [@ EXCEPT !.pc = "assessed", !.op = op] ELSE Idle(@.epoch)]
  /\ UNCHANGED <<reading, adjust, marker, lease, session>>

\* The locked transaction ends without an effect and without its sample: a
\* marker is pending, or the lease is gone before a marker could be made.
DenyLocked(a) ==
  /\ actor[a].pc = "assessed"
  /\ Pending # {} \/ (actor[a].op = "effect" /\ ~HoldsLease(a))
  /\ actor' = [actor EXCEPT ![a] = Idle(@.epoch)]
  /\ UNCHANGED <<reading, adjust, clock, ledger, marker, lease, session>>

\* The transaction is rolled back; its sample still has to be recorded.
RollBack(a) ==
  /\ actor' = [actor EXCEPT ![a] = [@ EXCEPT !.pc = "record", !.sample = reading]]
  /\ UNCHANGED <<reading, adjust, clock, ledger, marker, lease, session>>

\* A stale clock, a lost lease, or any refusal of the operation itself.
RefuseLocked(a) ==
  /\ actor[a].pc = "assessed"
  /\ Pending = {}
  /\ actor[a].op = "effect" => HoldsLease(a)
  /\ RollBack(a)

\* LockedTimeObservation::commit after the rollback, possibly after other
\* actors have recorded newer samples.
RecordRefused(a) ==
  /\ actor[a].pc = "record"
  /\ Apply(actor[a].sample, FALSE)
  /\ actor' = [actor EXCEPT ![a] = Idle(@.epoch)]
  /\ UNCHANGED <<reading, adjust, marker, lease, session>>

\* Common to the transactions that go through.
Locked(a, op) ==
  /\ actor[a].pc = "assessed" /\ actor[a].op = op
  /\ Pending = {}
  /\ Usable(reading)
  /\ HoldsLease(a)
  /\ Apply(reading, FALSE)

\* initialize_clock_session: the session row of the new lease.
OpenSession ==
  /\ Locked("manager", "session")
  /\ AdvanceSession(reading)
  /\ actor' = [actor EXCEPT !["manager"] = Idle(@.epoch)]
  /\ UNCHANGED <<reading, adjust, marker, lease>>

\* prepare_external_effect: the marker is durable before the primitive.
PrepareEffect(a) ==
  /\ Locked(a, "effect")
  /\ marker' = Append(marker,
       [by |-> a, epoch |-> actor[a].epoch, prepared |-> clock.revision + 1,
        state |-> "PENDING", resolved |-> 0, ran |-> 0])
  /\ actor' = [actor EXCEPT ![a] = [@ EXCEPT !.pc = "prepared", !.mark = Len(marker) + 1]]
  /\ UNCHANGED <<reading, adjust, lease, session>>

\* permit_matches_locked and capture_external_entry.
Entering(a) ==
  /\ actor[a].pc = "prepared"
  /\ HoldsLease(a)
  /\ Pending = {actor[a].mark}

\* resolve_external_entry_in_kind
Resolve(m, kind, under) ==
  marker' = [marker EXCEPT ![m] =
    [@ EXCEPT !.state = kind, !.resolved = clock.revision + 1, !.ran = under]]

\* A manager that lost the lease cannot enter: its marker stays pending.
LoseEntry(a) ==
  /\ actor[a].pc = "prepared"
  /\ ~HoldsLease(a)
  /\ actor' = [actor EXCEPT ![a] = Idle(@.epoch)]
  /\ UNCHANGED <<reading, adjust, clock, ledger, marker, lease, session>>

\* resolve_external_no_effect_in: denied before the primitive, for a clock
\* that is not usable or by the caller's own check.
DenyEntry(a) ==
  /\ Entering(a)
  /\ Apply(reading, FALSE)
  /\ Resolve(actor[a].mark, "NO_EFFECT", 0)
  /\ actor' = [actor EXCEPT ![a] = Idle(@.epoch)]
  /\ UNCHANGED <<reading, adjust, lease, session>>

\* An allocation without a binding has no grants to check: the primitive
\* runs on the lease and the clock alone.
EnterUnbound(a) ==
  /\ Entering(a) /\ Usable(reading)
  /\ Apply(reading, FALSE)
  /\ Resolve(actor[a].mark, "EFFECT_INVOKED", lease)
  /\ actor' = [actor EXCEPT ![a] = Idle(@.epoch)]
  /\ UNCHANGED <<reading, adjust, lease, session>>

\* The primitive runs and the process, or the transaction, dies before the
\* resolution is durable.
LoseResolution(a) ==
  /\ Entering(a) /\ Usable(reading)
  /\ marker' = [marker EXCEPT ![actor[a].mark].ran = lease]
  /\ actor' = [actor EXCEPT ![a] = Closed]
  /\ UNCHANGED <<reading, adjust, clock, ledger, lease, session>>

=============================================================================

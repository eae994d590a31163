------------------------ MODULE GrantDeadlinesProofs ------------------------
(***************************************************************************)
(* Proofs about the security clock and the grants that depend on it: no    *)
(* expired grant is used again, every external effect is accounted for,    *)
(* and what the clock has once refused it never allows again, for any      *)
(* number of handles and grants, any clock movement and any bounds.        *)
(*                                                                         *)
(* The inductive invariant says what the ledger tells of the clock         *)
(* (LedgerTells), what an actor may rely on (ActorsTell), what the markers *)
(* tell (MarkersTell) and what holds while one is pending (UnknownHeld).   *)
(***************************************************************************)
EXTENDS GrantDeadlines, TLAPS

-----------------------------------------------------------------------------
(* The invariant. *)

ClockRow == [confidence : Confidence, high : 0..Never, floor : 0..Never, revision : 0..MaxRevision]

ObservationRow ==
  [mono : Reading, high : 0..Never, floor : 0..Never, confidence : {"TRUSTED_LOCAL", "TIME_UNCERTAIN"}]

MarkerRow ==
  [by : Actors, epoch : 1..MaxEpoch, prepared : Nat,
   state : {"PENDING", "EFFECT_INVOKED", "NO_EFFECT"}, resolved : Nat, ran : Nat]

ActorRow ==
  [pc : {"closed", "claimed", "idle", "assessed", "record", "prepared"},
   op : {"none", "session", "issue", "use", "effect"},
   epoch : 0..MaxEpoch, mark : Nat, sample : Samples]

GrantRow ==
  [epoch : Nat, revision : Nat, mono : Nat, floor : Nat, expiry : Nat, deadline : Nat]

Typed ==
  /\ reading \in Samples /\ adjust \in 0..MaxAdjust
  /\ clock \in ClockRow
  /\ ledger \in Seq(ObservationRow)
  /\ marker \in Seq(MarkerRow)
  /\ lease \in 0..MaxEpoch
  /\ actor \in [Actors -> ActorRow]
  /\ grant \in [Grants -> GrantRow]
  /\ latch \subseteq Grants
  /\ uses \subseteq Grants \X (1..MaxRevision) \X (1..MaxEpoch)

\* The state row is the tail of the ledger, and the floor has seen every
\* trusted observation.
LedgerTells ==
  /\ StateMatchesAudit
  /\ clock.floor = clock.high
  /\ \A i \in 1..Len(ledger) : ledger[i].confidence = "TRUSTED_LOCAL" =>
       ledger[i].floor # Never /\ clock.floor # Never /\ ledger[i].floor <= clock.floor

\* An actor's epoch is one that was claimed; the manager's is the lease.
\* Whoever is about to enter made the marker under its own epoch.
ActorsTell ==
  /\ \A a \in Actors :
       /\ actor[a].epoch <= lease
       /\ actor[a].pc # "closed" => actor[a].epoch >= 1
       /\ actor[a].pc = "prepared" =>
            /\ actor[a].mark \in 1..Len(marker)
            /\ marker[actor[a].mark].epoch = actor[a].epoch
  /\ actor["manager"].pc # "closed" => actor["manager"].epoch = lease

MarkersTell == InflightRowsCoherent /\ EffectsUnderOwnLease

\* UnknownEffectStopsUse for every point of the manager's after its startup
\* assessment, not only for the idle one.
UnknownHeld ==
  \A m \in Pending :
    /\ \A u \in uses : u[2] < marker[m].prepared
    /\ lease > marker[m].epoch /\ actor["manager"].pc \notin {"closed", "claimed"} =>
         clock.confidence = "TIME_UNCERTAIN"

\* Grants and uses refer to observations of the ledger.
UsesTell ==
  /\ \A g \in Grants : grant[g] # NoGrant => grant[g].revision >= 1
  /\ \A u \in uses : grant[u[1]] # NoGrant /\ u[2] <= Len(ledger)
  /\ NoRevival

IInv == Typed /\ LedgerTells /\ ActorsTell /\ MarkersTell /\ UnknownHeld /\ UsesTell

-----------------------------------------------------------------------------
(* The clock. *)

\* Option::max keeps whichever is there, and never goes below a value seen.
LEMMA MaxSeenFacts ==
  ASSUME TimeAssumption, NEW a \in 0..Never, NEW b \in 0..Never
  PROVE  /\ MaxSeen(a, b) \in 0..Never
         /\ a # Never => MaxSeen(a, b) # Never /\ a <= MaxSeen(a, b)
         /\ b # Never => MaxSeen(a, b) # Never /\ b <= MaxSeen(a, b)
         /\ MaxSeen(a, MaxSeen(a, b)) = MaxSeen(a, b)
  BY DEF TimeAssumption, MaxSeen, Max2, Never

\* What a sample makes of the clock (apply_sample_in_transaction).
LEMMA ClockAfterFacts ==
  ASSUME TimeAssumption, clock \in ClockRow, clock.floor = clock.high,
         clock.revision < MaxRevision,
         NEW s \in Samples, NEW un \in BOOLEAN,
         NEW c, c = ClockAfter(s, un)
  PROVE  /\ c \in ClockRow
         /\ c.confidence \in {"TRUSTED_LOCAL", "TIME_UNCERTAIN"}
         /\ c.floor = c.high
         /\ c.revision = clock.revision + 1
         /\ clock.floor # Never => c.floor # Never /\ c.floor >= clock.floor
         /\ clock.confidence = "TIME_UNCERTAIN" \/ un => c.confidence = "TIME_UNCERTAIN"
         /\ c.confidence = "TRUSTED_LOCAL" => c.floor # Never
         /\ Usable(s) /\ ~un => c.confidence = "TRUSTED_LOCAL"
  <1> DEFINE h == MaxSeen(clock.high, s.wall)
  <1>1. /\ clock.high \in 0..Never /\ clock.floor \in 0..Never /\ clock.revision \in 0..MaxRevision
        /\ clock.confidence \in Confidence
    BY DEF ClockRow
  <1>2. s.wall \in 0..Never /\ s.mono \in Reading
    BY DEF TimeAssumption, Samples, Reading, Never
  <1>3. /\ h \in 0..Never
        /\ clock.high # Never => h # Never /\ clock.high <= h
        /\ s.wall # Never => h # Never
        /\ MaxSeen(clock.high, h) = h
    BY <1>1, <1>2, MaxSeenFacts
  <1>4. c = [confidence |-> IF TrustedAfter(s, un) THEN "TRUSTED_LOCAL" ELSE "TIME_UNCERTAIN",
             high |-> h, floor |-> h, revision |-> clock.revision + 1]
    BY <1>3 DEF ClockAfter
  <1> HIDE DEF h
  <1>5. /\ c.confidence = IF TrustedAfter(s, un) THEN "TRUSTED_LOCAL" ELSE "TIME_UNCERTAIN"
        /\ c.high = h /\ c.floor = h /\ c.revision = clock.revision + 1
    BY <1>4
  <1>6. c \in ClockRow
    BY <1>1, <1>3, <1>4 DEF ClockRow, Confidence, TimeAssumption
  <1>7. Usable(s) /\ ~un => TrustedAfter(s, un)
    BY <1>1, <1>2 DEF Usable, TrustedAfter
  <1>8. TrustedAfter(s, un) => /\ s.wall # Never /\ ~un
                               /\ clock.confidence # "TIME_UNCERTAIN"
    BY DEF TrustedAfter
  <1>9. c.confidence = "TRUSTED_LOCAL" <=> TrustedAfter(s, un)
    BY <1>5
  <1>10. c.confidence \in {"TRUSTED_LOCAL", "TIME_UNCERTAIN"}
    BY <1>5
  <1>11. clock.confidence = "TIME_UNCERTAIN" \/ un => c.confidence = "TIME_UNCERTAIN"
    BY <1>8, <1>9, <1>10
  <1> QED BY <1>1, <1>3, <1>5, <1>6, <1>7, <1>8, <1>9, <1>10, <1>11

\* How the clock and its ledger may move in any one step.
ClockMoves ==
  /\ clock' \in ClockRow /\ ledger' \in Seq(ObservationRow)
  /\ LedgerTells'
  /\ Len(ledger) <= Len(ledger')
  /\ \A i \in 1..Len(ledger) : ledger'[i] = ledger[i]
  /\ clock.floor # Never => clock'.floor # Never /\ clock'.floor >= clock.floor
  /\ clock.confidence = "TIME_UNCERTAIN" => clock'.confidence = "TIME_UNCERTAIN"

\* commit_in appends the observation and keeps the state row its tail.
LEMMA ApplyMoves ==
  ASSUME TimeAssumption, Typed, LedgerTells, NEW s \in Samples, NEW un \in BOOLEAN, Apply(s, un)
  PROVE  /\ ClockMoves
         /\ clock'.revision = clock.revision + 1 /\ clock.revision = Len(ledger)
         /\ Len(ledger') = Len(ledger) + 1 /\ clock.revision < MaxRevision
         /\ ledger'[Len(ledger) + 1].mono = s.mono
         /\ ledger'[Len(ledger) + 1].floor = clock'.floor
         /\ ledger'[Len(ledger) + 1].confidence = clock'.confidence
         /\ un => clock'.confidence = "TIME_UNCERTAIN"
         /\ Usable(s) /\ ~un => clock'.confidence = "TRUSTED_LOCAL"
  <1> DEFINE c == ClockAfter(s, un)
             o == Observation(s, c)
  <1>1. /\ clock' = c /\ ledger' = Append(ledger, o) /\ clock.revision < MaxRevision
    BY DEF Apply
  <1>2. /\ clock \in ClockRow /\ ledger \in Seq(ObservationRow)
        /\ clock.floor = clock.high /\ clock.revision = Len(ledger)
    BY DEF Typed, LedgerTells, StateMatchesAudit
  <1>3. o = [mono |-> s.mono, high |-> c.high, floor |-> c.floor, confidence |-> c.confidence]
    BY DEF Observation
  <1> HIDE DEF c, o
  <1>4. /\ c \in ClockRow
        /\ c.confidence \in {"TRUSTED_LOCAL", "TIME_UNCERTAIN"}
        /\ c.floor = c.high
        /\ c.revision = clock.revision + 1
        /\ clock.floor # Never => c.floor # Never /\ c.floor >= clock.floor
        /\ clock.confidence = "TIME_UNCERTAIN" \/ un => c.confidence = "TIME_UNCERTAIN"
        /\ c.confidence = "TRUSTED_LOCAL" => c.floor # Never
        /\ Usable(s) /\ ~un => c.confidence = "TRUSTED_LOCAL"
    BY <1>1, <1>2, ClockAfterFacts DEF c
  <1>5. o \in ObservationRow
    BY <1>3, <1>4 DEF ObservationRow, ClockRow, Samples
  <1>6. /\ ledger' \in Seq(ObservationRow) /\ Len(ledger') = Len(ledger) + 1
        /\ \A i \in 1..Len(ledger) : ledger'[i] = ledger[i]
        /\ ledger'[Len(ledger) + 1] = o
    BY <1>1, <1>2, <1>5
  <1>7. StateMatchesAudit'
    BY <1>1, <1>2, <1>3, <1>4, <1>6 DEF StateMatchesAudit
  <1>8. ASSUME NEW i \in 1..Len(ledger'), ledger'[i].confidence = "TRUSTED_LOCAL"
        PROVE  ledger'[i].floor # Never /\ clock'.floor # Never /\ ledger'[i].floor <= clock'.floor
    <2>1. CASE i \in 1..Len(ledger)
      <3>1. ledger[i].floor # Never /\ clock.floor # Never /\ ledger[i].floor <= clock.floor
        BY <1>6, <1>8, <2>1 DEF LedgerTells
      <3>2. ledger[i].floor \in Nat /\ clock.floor \in Nat /\ c.floor \in Nat
        <4>1. ledger[i] \in ObservationRow
          BY <1>2, <2>1
        <4> QED BY <1>2, <1>4, <4>1 DEF ObservationRow, ClockRow, Never, TimeAssumption
      <3> QED BY <1>1, <1>4, <1>6, <2>1, <3>1, <3>2
    <2>2. CASE i = Len(ledger) + 1
      <3>1. c.floor \in Nat
        BY <1>4 DEF ClockRow
      <3> QED BY <1>1, <1>3, <1>4, <1>6, <1>8, <2>2, <3>1
    <2> QED BY <1>2, <1>6, <1>8, <2>1, <2>2
  <1>9. LedgerTells'
    BY <1>1, <1>4, <1>7, <1>8 DEF LedgerTells
  <1>10. ClockMoves
    BY <1>1, <1>2, <1>4, <1>6, <1>9 DEF ClockMoves
  <1> QED BY <1>1, <1>2, <1>3, <1>4, <1>6, <1>10

\* A step that makes no observation.
LEMMA ClockStands ==
  ASSUME TimeAssumption, Typed, LedgerTells, UNCHANGED <<clock, ledger>>
  PROVE  ClockMoves
  <1>1. clock \in ClockRow /\ ledger \in Seq(ObservationRow) /\ clock.floor \in Nat
    BY DEF Typed, ClockRow
  <1>2. LedgerTells'
    BY DEF LedgerTells, StateMatchesAudit
  <1> QED BY <1>1, <1>2 DEF ClockMoves

-----------------------------------------------------------------------------
(* Markers. *)

\* The rows of markers only refer to observations that are there already.
LEMMA MarkersStand ==
  ASSUME TimeAssumption, Typed, MarkersTell, ClockMoves, marker' = marker
  PROVE  MarkersTell'
  <1>1. ledger \in Seq(ObservationRow) /\ ledger' \in Seq(ObservationRow)
    BY DEF Typed, ClockMoves
  <1>2. \A i \in DOMAIN ledger : i \in DOMAIN ledger' /\ ledger'[i] = ledger[i]
    BY <1>1 DEF ClockMoves
  <1> QED BY <1>2 DEF MarkersTell, InflightRowsCoherent, EffectsUnderOwnLease

\* What a step may do to the markers that are there.
MarkersKept ==
  /\ marker' \in Seq(MarkerRow)
  /\ Len(marker) <= Len(marker')
  /\ \A m \in 1..Len(marker) :
       marker'[m].epoch = marker[m].epoch /\ marker'[m].prepared = marker[m].prepared

\* resolve_external_entry_in_kind: the resolution is the newest observation,
\* a trusted one when the primitive ran.
LEMMA MarkerResolved ==
  ASSUME TimeAssumption, Typed, MarkersTell, ClockMoves,
         clock.revision = Len(ledger), Len(ledger') = Len(ledger) + 1,
         NEW m \in Pending, marker[m].epoch = lease,
         NEW kind \in {"EFFECT_INVOKED", "NO_EFFECT"}, NEW under \in {0, lease},
         Resolve(m, kind, under),
         kind = "EFFECT_INVOKED" => ledger'[Len(ledger) + 1].confidence = "TRUSTED_LOCAL"
  PROVE  MarkersTell' /\ MarkersKept /\ Pending' = Pending \ {m}
  <1>1. /\ ledger \in Seq(ObservationRow) /\ ledger' \in Seq(ObservationRow)
        /\ marker \in Seq(MarkerRow) /\ m \in 1..Len(marker) /\ lease \in 0..MaxEpoch
        /\ MaxEpoch \in Nat
    BY DEF Typed, ClockMoves, Pending, TimeAssumption
  <1>2. \A i \in DOMAIN ledger : i \in DOMAIN ledger' /\ ledger'[i] = ledger[i]
    BY <1>1 DEF ClockMoves
  <1> DEFINE r == [marker[m] EXCEPT !.state = kind, !.resolved = clock.revision + 1, !.ran = under]
  <1>3. marker' = [marker EXCEPT ![m] = r]
    BY DEF Resolve
  <1>4. /\ r \in MarkerRow
        /\ r.epoch = marker[m].epoch /\ r.prepared = marker[m].prepared
        /\ r.state = kind /\ r.resolved = Len(ledger) + 1 /\ r.ran = under
    <2>1. marker[m] \in MarkerRow /\ under \in Nat /\ Len(ledger) + 1 \in Nat
      BY <1>1
    <2> QED BY <2>1 DEF MarkerRow
  <1> HIDE DEF r
  <1>5. /\ marker' \in Seq(MarkerRow) /\ Len(marker') = Len(marker)
        /\ DOMAIN marker' = DOMAIN marker
        /\ marker'[m] = r
        /\ \A n \in DOMAIN marker : n # m => marker'[n] = marker[n]
    BY <1>1, <1>3, <1>4
  <1>6. MarkersKept
    <2>1. ASSUME NEW n \in 1..Len(marker)
          PROVE  marker'[n].epoch = marker[n].epoch /\ marker'[n].prepared = marker[n].prepared
      <3>1. CASE n = m
        BY <1>4, <1>5, <3>1
      <3>2. CASE n # m
        <4>1. n \in DOMAIN marker
          BY <1>1
        <4> QED BY <1>5, <3>2, <4>1
      <3> QED BY <3>1, <3>2
    <2> QED BY <1>1, <1>5, <2>1 DEF MarkersKept
  <1>7. Pending' = Pending \ {m}
    BY <1>1, <1>4, <1>5 DEF Pending
  <1>8. InflightRowsCoherent'
    <2> SUFFICES ASSUME NEW n \in DOMAIN marker'
                 PROVE  LET p == marker'[n] IN
                        /\ p.prepared \in DOMAIN ledger'
                        /\ ledger'[p.prepared].confidence = "TRUSTED_LOCAL"
                        /\ p.epoch >= 1
                        /\ p.state # "PENDING" =>
                             /\ p.resolved \in DOMAIN ledger'
                             /\ p.resolved > p.prepared
                             /\ p.state = "EFFECT_INVOKED" => ledger'[p.resolved].confidence = "TRUSTED_LOCAL"
      BY DEF InflightRowsCoherent
    <2>1. CASE n # m
      BY <1>2, <1>5, <2>1 DEF MarkersTell, InflightRowsCoherent
    <2>2. CASE n = m
      <3>1. /\ marker[m].prepared \in DOMAIN ledger /\ marker[m].epoch >= 1
            /\ ledger[marker[m].prepared].confidence = "TRUSTED_LOCAL"
        BY <1>5, <2>2 DEF MarkersTell, InflightRowsCoherent
      <3>2. /\ Len(ledger) + 1 \in DOMAIN ledger'
            /\ \A i \in DOMAIN ledger : Len(ledger) + 1 > i
        BY <1>1
      <3> QED BY <1>2, <1>4, <1>5, <2>2, <3>1, <3>2
    <2> QED BY <2>1, <2>2
  <1>9. EffectsUnderOwnLease'
    BY <1>4, <1>5 DEF EffectsUnderOwnLease, MarkersTell
  <1> QED BY <1>6, <1>7, <1>8, <1>9 DEF MarkersTell

\* The primitive ran and nobody recorded it: the marker stays pending.
LEMMA MarkerLost ==
  ASSUME TimeAssumption, Typed, MarkersTell, UNCHANGED <<clock, ledger>>,
         NEW m \in Pending, marker[m].epoch = lease,
         marker' = [marker EXCEPT ![m].ran = lease]
  PROVE  MarkersTell' /\ MarkersKept /\ Pending' = Pending
  <1>1. /\ marker \in Seq(MarkerRow) /\ m \in DOMAIN marker /\ lease \in Nat
    BY DEF Typed, Pending, TimeAssumption
  <1> DEFINE r == [marker[m] EXCEPT !.ran = lease]
  <1>2. marker' = [marker EXCEPT ![m] = r]
    OBVIOUS
  <1>3. /\ r \in MarkerRow
        /\ r.epoch = marker[m].epoch /\ r.prepared = marker[m].prepared
        /\ r.state = marker[m].state /\ r.resolved = marker[m].resolved /\ r.ran = lease
    <2>1. marker[m] \in MarkerRow
      BY <1>1
    <2> QED BY <1>1, <2>1 DEF MarkerRow
  <1> HIDE DEF r
  <1>4. /\ marker' \in Seq(MarkerRow) /\ Len(marker') = Len(marker)
        /\ DOMAIN marker' = DOMAIN marker
        /\ marker'[m] = r
        /\ \A n \in DOMAIN marker : n # m => marker'[n] = marker[n]
    BY <1>1, <1>2, <1>3
  <1>5. MarkersKept
    BY <1>1, <1>3, <1>4 DEF MarkersKept
  <1>6. Pending' = Pending
    BY <1>1, <1>3, <1>4 DEF Pending
  <1>7. MarkersTell'
    BY <1>1, <1>3, <1>4 DEF MarkersTell, InflightRowsCoherent, EffectsUnderOwnLease
  <1> QED BY <1>5, <1>6, <1>7

\* prepare_external_effect: the preparation is the newest observation, and a
\* trusted one.
LEMMA MarkerPrepared ==
  ASSUME TimeAssumption, Typed, MarkersTell, ClockMoves,
         clock.revision = Len(ledger), Len(ledger') = Len(ledger) + 1,
         ledger'[Len(ledger) + 1].confidence = "TRUSTED_LOCAL",
         Pending = {}, NEW a \in Actors, NEW e \in 1..MaxEpoch,
         marker' = Append(marker,
           [by |-> a, epoch |-> e, prepared |-> clock.revision + 1,
            state |-> "PENDING", resolved |-> 0, ran |-> 0])
  PROVE  /\ MarkersTell' /\ MarkersKept /\ Pending' = {Len(marker) + 1}
         /\ Len(marker') = Len(marker) + 1
         /\ marker'[Len(marker) + 1].epoch = e
         /\ marker'[Len(marker) + 1].prepared = Len(ledger) + 1
  <1>1. /\ ledger \in Seq(ObservationRow) /\ ledger' \in Seq(ObservationRow)
        /\ marker \in Seq(MarkerRow)
    BY DEF Typed, ClockMoves
  <1>2. \A i \in DOMAIN ledger : i \in DOMAIN ledger' /\ ledger'[i] = ledger[i]
    BY <1>1 DEF ClockMoves
  <1> DEFINE r == [by |-> a, epoch |-> e, prepared |-> clock.revision + 1,
                   state |-> "PENDING", resolved |-> 0, ran |-> 0]
  <1>3. /\ r \in MarkerRow /\ marker' = Append(marker, r)
        /\ r.epoch = e /\ r.prepared = Len(ledger) + 1 /\ r.state = "PENDING" /\ r.ran = 0
    BY <1>1 DEF MarkerRow
  <1> HIDE DEF r
  <1>4. /\ marker' \in Seq(MarkerRow) /\ Len(marker') = Len(marker) + 1
        /\ marker'[Len(marker) + 1] = r
        /\ \A n \in DOMAIN marker : n \in DOMAIN marker' /\ marker'[n] = marker[n]
        /\ \A n \in DOMAIN marker' : n \in DOMAIN marker \/ n = Len(marker) + 1
        /\ Len(marker) + 1 \in DOMAIN marker'
    BY <1>1, <1>3
  <1>5. MarkersKept
    BY <1>1, <1>4 DEF MarkersKept
  <1>6. Pending' = {Len(marker) + 1}
    BY <1>3, <1>4 DEF Pending
  <1>7. Len(ledger) + 1 \in DOMAIN ledger'
    BY <1>1
  <1>8. InflightRowsCoherent'
    BY <1>2, <1>3, <1>4, <1>7 DEF MarkersTell, InflightRowsCoherent
  <1>9. EffectsUnderOwnLease'
    BY <1>3, <1>4 DEF MarkersTell, EffectsUnderOwnLease
  <1> QED BY <1>3, <1>4, <1>5, <1>6, <1>8, <1>9 DEF MarkersTell

-----------------------------------------------------------------------------
(* Actors, and what is known while a marker is pending. *)

\* One actor moves under its own epoch, or is gone.
LEMMA ActorMoves ==
  ASSUME TimeAssumption, Typed, ActorsTell, MarkersKept, lease' = lease,
         NEW a \in Actors, NEW r \in ActorRow, actor' = [actor EXCEPT ![a] = r],
         r = Closed \/ (actor[a].pc # "closed" /\ r.epoch = actor[a].epoch),
         r.pc = "prepared" => r.mark \in 1..Len(marker') /\ marker'[r.mark].epoch = r.epoch
  PROVE  ActorsTell'
  <1>1. /\ actor \in [Actors -> ActorRow] /\ marker \in Seq(MarkerRow)
        /\ lease \in Nat /\ "manager" \in Actors
        /\ marker' \in Seq(MarkerRow)
    BY DEF Typed, Actors, MarkersKept, TimeAssumption
  <1>2. Closed.pc = "closed" /\ Closed.epoch = 0
    BY DEF Closed, Idle
  <1>3. /\ actor'[a] = r
        /\ \A b \in Actors : b # a => actor'[b] = actor[b]
    BY <1>1
  <1>4. \A b \in Actors : actor[b].pc = "prepared" =>
          /\ actor[b].mark \in 1..Len(marker')
          /\ marker'[actor[b].mark].epoch = actor[b].epoch
    BY <1>1 DEF ActorsTell, MarkersKept
  <1>5. ASSUME NEW b \in Actors
        PROVE  /\ actor'[b].epoch <= lease
               /\ actor'[b].pc # "closed" => actor'[b].epoch >= 1
               /\ actor'[b].pc = "prepared" =>
                    /\ actor'[b].mark \in 1..Len(marker')
                    /\ marker'[actor'[b].mark].epoch = actor'[b].epoch
    BY <1>1, <1>2, <1>3, <1>4 DEF ActorsTell
  <1>6. actor'["manager"].pc # "closed" => actor'["manager"].epoch = lease
    BY <1>1, <1>2, <1>3 DEF ActorsTell
  <1> QED BY <1>5, <1>6 DEF ActorsTell

\* A step that makes no marker, admits no use and does not bring the manager
\* past its startup assessment.
LEMMA UnknownStays ==
  ASSUME TimeAssumption, Typed, UnknownHeld, ClockMoves, MarkersKept,
         UNCHANGED <<lease, uses>>, Pending' \subseteq Pending,
         actor'["manager"].pc \notin {"closed", "claimed"} =>
           actor["manager"].pc \notin {"closed", "claimed"}
  PROVE  UnknownHeld'
  <1>1. \A m \in Pending' : /\ m \in Pending
                            /\ marker'[m].prepared = marker[m].prepared
                            /\ marker'[m].epoch = marker[m].epoch
    BY DEF Typed, Pending, MarkersKept
  <1>2. clock.confidence = "TIME_UNCERTAIN" => clock'.confidence = "TIME_UNCERTAIN"
    BY DEF ClockMoves
  <1> QED BY <1>1, <1>2 DEF UnknownHeld

-----------------------------------------------------------------------------
(* Uses. *)

\* What was admitted stays admitted on the observations it was judged by.
LEMMA UsesStand ==
  ASSUME TimeAssumption, Typed, UsesTell, ClockMoves, uses' = uses,
         \A g \in Grants : grant[g] # NoGrant => grant'[g] = grant[g],
         \A g \in Grants : grant'[g] # NoGrant => grant'[g].revision >= 1
  PROVE  UsesTell'
  <1>1. /\ ledger \in Seq(ObservationRow) /\ ledger' \in Seq(ObservationRow)
        /\ \A u \in uses : u[1] \in Grants /\ u[2] \in Nat
        /\ grant \in [Grants -> GrantRow]
    BY DEF Typed, ClockMoves, TimeAssumption
  <1>2. \A u \in uses : grant'[u[1]] = grant[u[1]] /\ grant'[u[1]] # NoGrant /\ u[2] <= Len(ledger')
    BY <1>1 DEF UsesTell, ClockMoves
  <1>3. ASSUME NEW u \in uses, NEW i \in grant[u[1]].revision..u[2]
        PROVE  ledger'[i] = ledger[i]
    <2>1. grant[u[1]].revision \in Nat /\ grant[u[1]].revision >= 1 /\ u[2] <= Len(ledger)
      BY <1>1 DEF UsesTell, GrantRow
    <2> QED BY <1>1, <2>1 DEF ClockMoves
  <1>4. NoRevival'
    BY <1>2, <1>3 DEF UsesTell, NoRevival
  <1> QED BY <1>2, <1>4 DEF UsesTell

\* coordinator_grants_valid_in: the sample lies before both deadlines, no
\* trusted observation since the issue read later than it, and the floor has
\* seen them all.
LEMMA UseAdmitted ==
  ASSUME TimeAssumption, Typed, LedgerTells, UsesTell,
         NEW a \in Actors, NEW g \in Grants, Apply(reading, FALSE),
         DeadlineStatus(g, a, reading, ClockAfter(reading, FALSE)) = "Valid",
         grant' = grant,
         uses' = uses \cup {<<g, ClockAfter(reading, FALSE).revision, lease>>}
  PROVE  UsesTell'
  <1> DEFINE d == grant[g]
             now == ClockAfter(reading, FALSE)
  <1>1. /\ ClockMoves
        /\ clock'.revision = clock.revision + 1 /\ clock.revision = Len(ledger)
        /\ Len(ledger') = Len(ledger) + 1
        /\ ledger'[Len(ledger) + 1].mono = reading.mono
        /\ ledger'[Len(ledger) + 1].floor = clock'.floor
    BY ApplyMoves DEF Typed
  <1>2. clock' = now
    BY DEF Apply
  <1>3. /\ ledger \in Seq(ObservationRow) /\ ledger' \in Seq(ObservationRow)
        /\ \A u \in uses : u[1] \in Grants /\ u[2] \in Nat
        /\ d \in GrantRow /\ reading \in Samples
        /\ clock \in ClockRow /\ clock' \in ClockRow
    BY <1>1 DEF Typed, ClockMoves, TimeAssumption
  <1>4. /\ d # NoGrant
        /\ \A i \in d.revision..clock.revision :
             ledger[i].confidence = "TRUSTED_LOCAL" => ledger[i].mono <= reading.mono
        /\ ~(reading.mono >= d.deadline)
        /\ ~(now.floor >= d.expiry)
    BY DEF DeadlineStatus, Evidence
  <1> HIDE DEF now, d
  <1>5. /\ d.revision \in Nat /\ d.revision >= 1 /\ d.deadline \in Nat /\ d.expiry \in Nat
        /\ reading.mono \in Nat /\ clock'.floor \in Nat /\ clock.floor \in Nat
    BY <1>3, <1>4 DEF UsesTell, GrantRow, Samples, Reading, ClockRow, d, TimeAssumption
  <1>6. ASSUME NEW i \in d.revision..(Len(ledger) + 1), ledger'[i].confidence = "TRUSTED_LOCAL"
        PROVE  ledger'[i].mono < d.deadline /\ ledger'[i].floor < d.expiry
    <2>1. CASE i = Len(ledger) + 1
      BY <1>1, <1>2, <1>4, <1>5, <2>1
    <2>2. CASE i \in 1..Len(ledger)
      <3>1. ledger'[i] = ledger[i] /\ ledger[i] \in ObservationRow
        BY <1>1, <1>3, <2>2 DEF ClockMoves
      <3>2. ledger[i].mono \in Nat /\ ledger[i].floor \in Nat
        BY <3>1 DEF ObservationRow, Reading, TimeAssumption, Never
      <3>3. ledger[i].mono <= reading.mono
        BY <1>1, <1>4, <1>5, <1>6, <2>2, <3>1
      <3>4. ledger[i].floor <= clock.floor /\ clock.floor <= clock'.floor
        BY <1>1, <1>5, <1>6, <2>2, <3>1 DEF LedgerTells, ClockMoves
      <3> QED BY <1>2, <1>4, <1>5, <3>1, <3>2, <3>3, <3>4
    <2> QED BY <1>3, <1>5, <1>6, <2>1, <2>2
  <1>7. ASSUME NEW u \in uses, NEW i \in grant[u[1]].revision..u[2]
        PROVE  ledger'[i] = ledger[i]
    <2>1. grant[u[1]].revision \in Nat /\ grant[u[1]].revision >= 1 /\ u[2] <= Len(ledger)
      BY <1>3 DEF UsesTell, GrantRow, Typed
    <2> QED BY <1>1, <1>3, <2>1 DEF ClockMoves
  <1>8. \A u \in uses' : u \in uses \/ (u[1] = g /\ u[2] = Len(ledger) + 1)
    <2>1. uses' = uses \cup {<<g, Len(ledger) + 1, lease>>}
      BY <1>1, <1>2 DEF now
    <2>2. ASSUME NEW u \in uses', u \notin uses
          PROVE  u[1] = g /\ u[2] = Len(ledger) + 1
      <3>1. u = <<g, Len(ledger) + 1, lease>>
        BY <2>1, <2>2
      <3> QED BY <3>1
    <2> QED BY <2>2
  <1>9. NoRevival'
    <2> SUFFICES ASSUME NEW u \in uses', NEW i \in grant[u[1]].revision..u[2],
                        ledger'[i].confidence = "TRUSTED_LOCAL"
                 PROVE  /\ ledger'[i].mono < grant[u[1]].deadline
                        /\ ledger'[i].floor < grant[u[1]].expiry
      BY DEF NoRevival
    <2>1. CASE u \in uses
      BY <1>7, <2>1 DEF UsesTell, NoRevival
    <2>2. CASE u[1] = g /\ u[2] = Len(ledger) + 1
      BY <1>6, <2>2 DEF d
    <2> QED BY <1>8, <2>1, <2>2
  <1>10. \A u \in uses' : grant[u[1]] # NoGrant /\ u[2] <= Len(ledger')
    <2>1. \A u \in uses : grant[u[1]] # NoGrant /\ u[2] \in Nat /\ u[2] <= Len(ledger)
      BY <1>3 DEF UsesTell
    <2>2. Len(ledger) \in Nat
      BY <1>3
    <2>3. ASSUME NEW u \in uses' PROVE grant[u[1]] # NoGrant /\ u[2] <= Len(ledger')
      <3>1. CASE u \in uses
        BY <1>1, <2>1, <2>2, <3>1
      <3>2. CASE u[1] = g /\ u[2] = Len(ledger) + 1
        BY <1>1, <1>4, <2>2, <3>2 DEF d
      <3> QED BY <1>8, <3>1, <3>2
    <2> QED BY <2>3
  <1> QED BY <1>9, <1>10 DEF UsesTell

-----------------------------------------------------------------------------
(* Steps. *)

\* The rows an actor is set to.
LEMMA ActorRows ==
  ASSUME TimeAssumption
  PROVE  /\ \A e \in 0..MaxEpoch :
              Idle(e) \in ActorRow /\ Idle(e).pc = "idle" /\ Idle(e).epoch = e
         /\ Closed \in ActorRow /\ Closed.pc = "closed" /\ Closed.epoch = 0
         /\ "manager" \in Actors
  <1>1. NoSample \in Samples
    BY DEF TimeAssumption, NoSample, Samples, Reading
  <1> QED BY <1>1 DEF TimeAssumption, Idle, Closed, ActorRow, Actors

\* Steps of an actor past startup that touch neither markers nor grants.
LEMMA QuietStep ==
  ASSUME TimeAssumption, IInv, ClockMoves,
         NEW a \in Actors, NEW r \in ActorRow, actor' = [actor EXCEPT ![a] = r],
         \/ r = Closed
         \/ actor[a].pc \notin {"closed", "claimed"} /\ r.epoch = actor[a].epoch,
         r.pc # "prepared",
         UNCHANGED <<reading, adjust, lease, marker, grant, latch, uses>>
  PROVE  IInv'
  <1>1. Typed'
    BY DEF IInv, Typed, ClockMoves
  <1>2. MarkersKept
    BY DEF IInv, Typed, MarkersKept
  <1>3. ActorsTell'
    BY <1>2, ActorMoves DEF IInv
  <1>4. MarkersTell'
    BY MarkersStand DEF IInv
  <1>5. UnknownHeld'
    <2>1. Pending' \subseteq Pending
      BY DEF Pending
    <2>2. actor'["manager"].pc \notin {"closed", "claimed"} =>
            actor["manager"].pc \notin {"closed", "claimed"}
      BY ActorRows DEF IInv, Typed
    <2> QED BY <1>2, <2>1, <2>2, UnknownStays DEF IInv
  <1>6. UsesTell'
    BY UsesStand DEF IInv, UsesTell
  <1> QED BY <1>1, <1>3, <1>4, <1>5, <1>6 DEF IInv, ClockMoves

\* The clocks of the machine move; nothing of the program does.
LEMMA MoveClocksStep ==
  ASSUME TimeAssumption, IInv, MoveClocks, Untouched
  PROVE  IInv'
  <1>1. ClockMoves
    BY ClockStands DEF MoveClocks, IInv
  <1>2. Typed'
    BY <1>1 DEF MoveClocks, Untouched, IInv, Typed, TimeAssumption
  <1> QED
    BY <1>1, <1>2, MarkersStand, UsesStand
    DEF MoveClocks, Untouched, IInv, ClockMoves, ActorsTell, UnknownHeld, UsesTell, Pending

\* A new manager claims the store: older epochs lose it.
LEMMA ClaimStep ==
  ASSUME TimeAssumption, IInv, Claim, Untouched
  PROVE  IInv'
  <1> DEFINE r == [Idle(lease + 1) EXCEPT !.pc = "claimed"]
  <1>1. ClockMoves
    BY ClockStands DEF Claim, IInv
  <1>2. /\ lease' = lease + 1 /\ lease + 1 \in 0..MaxEpoch /\ lease \in Nat
        /\ actor' = [actor EXCEPT !["manager"] = r]
    BY DEF Claim, IInv, Typed, TimeAssumption
  <1>3. Idle(lease + 1) \in ActorRow /\ Idle(lease + 1).epoch = lease + 1 /\ "manager" \in Actors
    BY <1>2, ActorRows
  <1>4. r \in ActorRow /\ r.pc = "claimed" /\ r.epoch = lease + 1
    BY <1>3 DEF ActorRow
  <1> HIDE DEF r
  <1>5. actor \in [Actors -> ActorRow]
    BY DEF IInv, Typed
  <1>6. actor'["manager"] = r /\ \A a \in Actors : a # "manager" => actor'[a] = actor[a]
    BY <1>2, <1>3, <1>5
  <1>7. Typed'
    BY <1>1, <1>2, <1>4 DEF Claim, Untouched, IInv, Typed, ClockMoves
  <1>8. ActorsTell'
    <2>1. ASSUME NEW a \in Actors
          PROVE  /\ actor'[a].epoch <= lease'
                 /\ actor'[a].pc # "closed" => actor'[a].epoch >= 1
                 /\ actor'[a].pc = "prepared" =>
                      /\ actor'[a].mark \in 1..Len(marker)
                      /\ marker[actor'[a].mark].epoch = actor'[a].epoch
      <3>1. actor[a].epoch \in Nat
        BY <1>5 DEF ActorRow, TimeAssumption
      <3> QED BY <1>2, <1>4, <1>6, <3>1 DEF IInv, ActorsTell
    <2> QED BY <1>2, <1>4, <1>6, <2>1 DEF Claim, ActorsTell
  <1>9. UnknownHeld'
    BY <1>4, <1>6 DEF Claim, Untouched, IInv, UnknownHeld, Pending
  <1> QED
    BY <1>1, <1>7, <1>8, <1>9, MarkersStand, UsesStand
    DEF Claim, Untouched, IInv, ClockMoves, UsesTell

\* startup_assess: with a marker pending the clock is latched uncertain.
LEMMA StartupAssessStep ==
  ASSUME TimeAssumption, IInv, StartupAssess, Untouched
  PROVE  IInv'
  <1> DEFINE un == Pending # {}
             m == actor["manager"]
             r == IF clock'.confidence = "TRUSTED_LOCAL"
                  THEN [m EXCEPT !.pc = "idle", !.op = "session"] ELSE Idle(m.epoch)
  <1>1. /\ ClockMoves
        /\ un => clock'.confidence = "TIME_UNCERTAIN"
    <2>1. reading \in Samples /\ un \in BOOLEAN /\ Apply(reading, un)
      BY DEF StartupAssess, IInv, Typed
    <2> HIDE DEF un
    <2> QED BY <2>1, ApplyMoves DEF IInv
  <1>2. m \in ActorRow /\ m.pc = "claimed" /\ "manager" \in Actors
    BY ActorRows DEF StartupAssess, IInv, Typed
  <1>3. r \in ActorRow /\ r.epoch = m.epoch /\ r.pc = "idle"
    <2>1. m.epoch \in 0..MaxEpoch
      BY <1>2 DEF ActorRow
    <2>2. Idle(m.epoch) \in ActorRow /\ Idle(m.epoch).pc = "idle" /\ Idle(m.epoch).epoch = m.epoch
      BY <2>1, ActorRows
    <2>3. LET q == [m EXCEPT !.pc = "idle", !.op = "session"]
          IN  q \in ActorRow /\ q.epoch = m.epoch /\ q.pc = "idle"
      BY <1>2 DEF ActorRow
    <2> QED BY <2>2, <2>3
  <1>4. actor' = [actor EXCEPT !["manager"] = r]
    BY DEF StartupAssess
  <1> HIDE DEF r
  <1>5. Typed'
    BY <1>1, <1>3, <1>4 DEF StartupAssess, Untouched, IInv, Typed, ClockMoves
  <1>6. MarkersKept
    BY DEF StartupAssess, IInv, Typed, MarkersKept
  <1>7. ActorsTell'
    BY <1>2, <1>3, <1>4, <1>6, ActorMoves DEF StartupAssess, IInv
  <1>8. UnknownHeld'
    BY <1>1 DEF StartupAssess, Untouched, IInv, UnknownHeld, Pending
  <1> QED
    BY <1>1, <1>5, <1>7, <1>8, MarkersStand, UsesStand
    DEF StartupAssess, Untouched, IInv, ClockMoves, UsesTell

\* The manager hands out a handle of its own epoch, which is the lease's.
LEMMA OpenHandleStep ==
  ASSUME TimeAssumption, IInv, NEW h \in Handles, OpenHandle(h), Untouched
  PROVE  IInv'
  <1> DEFINE e == actor["manager"].epoch
  <1>1. ClockMoves
    BY ClockStands DEF OpenHandle, IInv
  <1>2. /\ e = lease /\ e >= 1 /\ e \in 0..MaxEpoch /\ h \in Actors /\ h # "manager"
        /\ "manager" \in Actors
    BY ActorRows DEF OpenHandle, IInv, Typed, ActorsTell, Actors, TimeAssumption
  <1>3. Idle(e) \in ActorRow /\ Idle(e).pc = "idle" /\ Idle(e).epoch = e
    BY <1>2, ActorRows
  <1>4. actor' = [actor EXCEPT ![h] = Idle(e)]
    BY DEF OpenHandle
  <1> HIDE DEF e
  <1>5. actor \in [Actors -> ActorRow]
    BY DEF IInv, Typed
  <1>6. actor'[h] = Idle(e) /\ \A a \in Actors : a # h => actor'[a] = actor[a]
    BY <1>2, <1>4, <1>5
  <1>7. Typed'
    BY <1>1, <1>3, <1>4 DEF OpenHandle, Untouched, IInv, Typed, ClockMoves
  <1>8. ActorsTell'
    BY <1>2, <1>3, <1>6 DEF OpenHandle, IInv, ActorsTell, Typed
  <1>9. UnknownHeld'
    BY <1>2, <1>6 DEF OpenHandle, Untouched, IInv, UnknownHeld, Pending
  <1> QED
    BY <1>1, <1>7, <1>8, <1>9, MarkersStand, UsesStand
    DEF OpenHandle, Untouched, IInv, ClockMoves, UsesTell

\* A marker is made while none is pending, at a revision after every use.
LEMMA PrepareEffectStep ==
  ASSUME TimeAssumption, IInv, NEW a \in Actors, PrepareEffect(a), Untouched
  PROVE  IInv'
  <1> DEFINE r == [actor[a] EXCEPT !.pc = "prepared", !.mark = Len(marker) + 1]
             e == actor[a].epoch
  <1>1. /\ Apply(reading, FALSE) /\ Usable(reading) /\ Pending = {} /\ e = lease
        /\ actor[a].pc = "assessed" /\ actor' = [actor EXCEPT ![a] = r]
    BY DEF PrepareEffect, Locked, HoldsLease
  <1>2. /\ ClockMoves /\ clock.revision = Len(ledger) /\ Len(ledger') = Len(ledger) + 1
        /\ ledger'[Len(ledger) + 1].confidence = "TRUSTED_LOCAL"
    BY <1>1, ApplyMoves DEF IInv, Typed
  <1>3. actor[a] \in ActorRow /\ marker \in Seq(MarkerRow) /\ ledger \in Seq(ObservationRow)
    BY DEF IInv, Typed
  <1>4. e \in 1..MaxEpoch
    BY <1>1, <1>3 DEF IInv, ActorsTell, ActorRow
  <1>5. r \in ActorRow /\ r.pc = "prepared" /\ r.mark = Len(marker) + 1 /\ r.epoch = e
    <2>1. Len(marker) + 1 \in Nat
      BY <1>3
    <2> QED BY <1>3, <2>1 DEF ActorRow
  <1>6. /\ MarkersTell' /\ MarkersKept /\ Pending' = {Len(marker) + 1}
        /\ Len(marker') = Len(marker) + 1
        /\ marker'[Len(marker) + 1].epoch = e
        /\ marker'[Len(marker) + 1].prepared = Len(ledger) + 1
    BY <1>1, <1>2, <1>4, MarkerPrepared DEF IInv, PrepareEffect
  <1> HIDE DEF r, e
  <1>7. lease' = lease /\ reading' = reading /\ adjust' = adjust
    BY DEF PrepareEffect
  <1>8. Typed'
    BY <1>1, <1>2, <1>5, <1>6, <1>7 DEF Untouched, IInv, Typed, ClockMoves, MarkersKept
  <1>9. ActorsTell'
    <2>1. Len(marker) + 1 \in 1..Len(marker')
      BY <1>3, <1>6
    <2>2. r.mark \in 1..Len(marker') /\ marker'[r.mark].epoch = r.epoch
      BY <1>5, <1>6, <2>1
    <2> QED BY <1>1, <1>5, <1>6, <1>7, <2>2, ActorMoves DEF IInv, e
  <1>10. UnknownHeld'
    <2>1. \A u \in uses : u[2] < Len(ledger) + 1
      BY <1>3 DEF IInv, UsesTell, Typed, TimeAssumption
    <2>2. ~(lease > marker'[Len(marker) + 1].epoch)
      BY <1>1, <1>4, <1>6 DEF e
    <2> QED BY <1>6, <1>7, <2>1, <2>2 DEF Untouched, UnknownHeld
  <1>11. UsesTell'
    BY <1>2, UsesStand DEF Untouched, IInv, UsesTell
  <1> QED BY <1>2, <1>6, <1>8, <1>9, <1>10, <1>11 DEF IInv, ClockMoves

\* Whoever enters holds the lease its marker was made under.
LEMMA EnteringFacts ==
  ASSUME TimeAssumption, IInv, NEW a \in Actors, Entering(a)
  PROVE  /\ actor[a].mark \in Pending /\ marker[actor[a].mark].epoch = lease
         /\ Pending = {actor[a].mark}
         /\ actor[a] \in ActorRow /\ actor[a].pc = "prepared"
  BY DEF Entering, HoldsLease, IInv, ActorsTell, Typed

\* The entry transaction resolves the only marker there is.
LEMMA ResolveStep ==
  ASSUME TimeAssumption, IInv, NEW a \in Actors, Entering(a), Apply(reading, FALSE),
         NEW kind \in {"EFFECT_INVOKED", "NO_EFFECT"}, NEW under \in {0, lease},
         kind = "EFFECT_INVOKED" => Usable(reading),
         Resolve(actor[a].mark, kind, under),
         actor' = [actor EXCEPT ![a] = Idle(actor[a].epoch)],
         UNCHANGED <<reading, adjust, lease, grant>>,
         latch' \subseteq Grants,
         uses' \subseteq Grants \X (1..MaxRevision) \X (1..MaxEpoch),
         UsesTell'
  PROVE  IInv'
  <1> DEFINE r == Idle(actor[a].epoch)
  <1>1. /\ ClockMoves /\ clock.revision = Len(ledger) /\ Len(ledger') = Len(ledger) + 1
        /\ kind = "EFFECT_INVOKED" => ledger'[Len(ledger) + 1].confidence = "TRUSTED_LOCAL"
    BY ApplyMoves DEF IInv, Typed
  <1>2. /\ actor[a].mark \in Pending /\ marker[actor[a].mark].epoch = lease
        /\ Pending = {actor[a].mark}
        /\ actor[a] \in ActorRow /\ actor[a].pc = "prepared"
    BY EnteringFacts
  <1>3. MarkersTell' /\ MarkersKept /\ Pending' = {}
    BY <1>1, <1>2, MarkerResolved DEF IInv
  <1>4. r \in ActorRow /\ r.pc = "idle" /\ r.epoch = actor[a].epoch
    BY <1>2, ActorRows DEF ActorRow
  <1>5. actor' = [actor EXCEPT ![a] = r]
    OBVIOUS
  <1> HIDE DEF r
  <1>6. Typed'
    BY <1>1, <1>3, <1>4, <1>5 DEF IInv, Typed, ClockMoves, MarkersKept
  <1>7. ActorsTell'
    BY <1>2, <1>3, <1>4, <1>5, ActorMoves DEF IInv
  <1>8. UnknownHeld'
    BY <1>3 DEF UnknownHeld
  <1> QED BY <1>1, <1>3, <1>6, <1>7, <1>8 DEF IInv, ClockMoves

\* The primitive ran, its resolution is lost with the actor.
LEMMA LoseResolutionStep ==
  ASSUME TimeAssumption, IInv, NEW a \in Actors, LoseResolution(a), Untouched
  PROVE  IInv'
  <1>1. /\ actor[a].mark \in Pending /\ marker[actor[a].mark].epoch = lease
        /\ Entering(a)
    BY EnteringFacts DEF LoseResolution
  <1>2. ClockMoves
    BY ClockStands DEF LoseResolution, IInv
  <1>3. MarkersTell' /\ MarkersKept /\ Pending' = Pending
    BY <1>1, MarkerLost DEF LoseResolution, IInv
  <1>4. Closed \in ActorRow /\ Closed.pc = "closed" /\ "manager" \in Actors
    BY ActorRows
  <1>5. Typed'
    BY <1>2, <1>3, <1>4 DEF LoseResolution, Untouched, IInv, Typed, ClockMoves, MarkersKept
  <1>6. ActorsTell'
    BY <1>3, <1>4, ActorMoves DEF LoseResolution, IInv
  <1>7. UnknownHeld'
    <2>1. actor'["manager"].pc \notin {"closed", "claimed"} =>
            actor["manager"].pc \notin {"closed", "claimed"}
      BY <1>4 DEF LoseResolution, IInv, Typed
    <2> QED BY <1>2, <1>3, <2>1, UnknownStays DEF LoseResolution, Untouched, IInv
  <1>8. UsesTell'
    BY <1>2, UsesStand DEF Untouched, IInv, UsesTell
  <1> QED BY <1>2, <1>3, <1>5, <1>6, <1>7, <1>8 DEF IInv, ClockMoves

\* The finalizer fixes the deadlines of a grant at the newest observation.
LEMMA IssueStep ==
  ASSUME TimeAssumption, DeadlineAssumption, IInv, NEW g \in Grants, Issue(g)
  PROVE  IInv'
  <1> DEFINE now == ClockAfter(reading, FALSE)
             r == Idle(actor["manager"].epoch)
  <1>1. /\ grant[g] = NoGrant /\ Apply(reading, FALSE) /\ clock' = now
        /\ actor["manager"].pc = "assessed"
        /\ actor' = [actor EXCEPT !["manager"] = r]
        /\ UNCHANGED <<reading, adjust, marker, lease, latch, uses>>
    BY DEF Issue, Locked, Apply
  <1>2. /\ ClockMoves /\ clock'.revision = clock.revision + 1
    BY <1>1, ApplyMoves DEF IInv, Typed
  <1>3. PICK cap \in Caps :
          /\ Expiry(now.floor, cap) > now.floor
          /\ grant' = [grant EXCEPT ![g] =
               [epoch |-> lease, revision |-> now.revision, mono |-> reading.mono,
                floor |-> now.floor, expiry |-> Expiry(now.floor, cap),
                deadline |-> DeadlineMono(reading, now.floor, cap)]]
    BY DEF Issue
  <1> HIDE DEF now, r
  <1> DEFINE d == [epoch |-> lease, revision |-> now.revision, mono |-> reading.mono,
                   floor |-> now.floor, expiry |-> Expiry(now.floor, cap),
                   deadline |-> DeadlineMono(reading, now.floor, cap)]
  <1>4. /\ now.floor \in Nat /\ now.revision \in Nat /\ now.revision >= 1
        /\ reading.mono \in Nat /\ lease \in Nat /\ cap \in Nat
    BY <1>1, <1>2, <1>3 DEF ClockMoves, ClockRow, IInv, Typed, Samples, Reading,
       TimeAssumption, DeadlineAssumption, Never
  <1>5. Expiry(now.floor, cap) \in Nat /\ DeadlineMono(reading, now.floor, cap) \in Nat
    BY <1>3, <1>4 DEF Expiry, DeadlineMono, Min2, DeadlineAssumption
  <1>6. d \in GrantRow /\ d.revision = now.revision
    BY <1>4, <1>5 DEF GrantRow
  <1>7. grant' = [grant EXCEPT ![g] = d]
    BY <1>3
  <1> HIDE DEF d
  <1>8. grant \in [Grants -> GrantRow] /\ actor["manager"] \in ActorRow
    BY ActorRows DEF IInv, Typed
  <1>9. /\ \A k \in Grants : grant[k] # NoGrant => grant'[k] = grant[k]
        /\ \A k \in Grants : grant'[k] # NoGrant => grant'[k].revision >= 1
    BY <1>1, <1>4, <1>6, <1>7, <1>8 DEF IInv, UsesTell
  <1>10. UsesTell'
    BY <1>1, <1>2, <1>9, UsesStand DEF IInv
  <1>11. r \in ActorRow /\ r.pc = "idle" /\ r.epoch = actor["manager"].epoch /\ "manager" \in Actors
    BY <1>8, ActorRows DEF ActorRow, r
  <1>12. Typed'
    BY <1>1, <1>2, <1>6, <1>7, <1>8, <1>11 DEF IInv, Typed, ClockMoves
  <1>13. MarkersKept /\ Pending' \subseteq Pending
    BY <1>1 DEF IInv, Typed, MarkersKept, Pending
  <1>14. ActorsTell'
    BY <1>1, <1>11, <1>13, ActorMoves DEF IInv
  <1>15. UnknownHeld'
    BY <1>1, <1>2, <1>13, UnknownStays DEF IInv
  <1>16. MarkersTell'
    BY <1>1, <1>2, MarkersStand DEF IInv
  <1> QED BY <1>2, <1>10, <1>12, <1>14, <1>15, <1>16 DEF IInv, ClockMoves

\* What is common to the two steps that may admit a use.
LEMMA Admission ==
  ASSUME TimeAssumption, IInv, NEW a \in Actors, NEW g \in Grants,
         Apply(reading, FALSE), HoldsLease(a), actor[a].pc # "closed",
         NEW status, status = DeadlineStatus(g, a, reading, ClockAfter(reading, FALSE)),
         grant' = grant, Latched(g, status),
         \/ uses' = uses
         \/ status = "Valid" /\ uses' = uses \cup {<<g, ClockAfter(reading, FALSE).revision, lease>>}
  PROVE  /\ ClockMoves /\ UsesTell' /\ latch' \subseteq Grants
         /\ uses' \subseteq Grants \X (1..MaxRevision) \X (1..MaxEpoch)
  <1>1. /\ ClockMoves /\ clock.revision = Len(ledger) /\ clock.revision < MaxRevision
        /\ clock'.revision = clock.revision + 1 /\ clock' = ClockAfter(reading, FALSE)
    BY ApplyMoves DEF IInv, Typed, Apply
  <1>2. latch' \subseteq Grants
    BY DEF Latched, IInv, Typed
  <1>3. lease \in 1..MaxEpoch
    BY DEF HoldsLease, IInv, Typed, ActorsTell, TimeAssumption
  <1>4. clock'.revision \in 1..MaxRevision
    BY <1>1 DEF ClockMoves, ClockRow, IInv, Typed, TimeAssumption
  <1>5. CASE uses' = uses
    <2>1. UsesTell'
      BY <1>1, <1>5, UsesStand DEF IInv, UsesTell
    <2> QED BY <1>1, <1>2, <1>5, <2>1 DEF IInv, Typed
  <1>6. CASE status = "Valid" /\ uses' = uses \cup {<<g, ClockAfter(reading, FALSE).revision, lease>>}
    <2>1. UsesTell'
      BY <1>6, UseAdmitted DEF IInv
    <2>2. <<g, clock'.revision, lease>> \in Grants \X (1..MaxRevision) \X (1..MaxEpoch)
      BY <1>3, <1>4
    <2>3. uses' \subseteq Grants \X (1..MaxRevision) \X (1..MaxEpoch)
      BY <1>1, <1>6, <2>2 DEF IInv, Typed
    <2> QED BY <1>1, <1>2, <2>1, <2>3
  <1> QED BY <1>5, <1>6

\* A protected transaction, admitted or denied.
LEMMA UseGrantStep ==
  ASSUME TimeAssumption, IInv, NEW a \in Actors, NEW g \in Grants, UseGrant(a, g)
  PROVE  IInv'
  <1> DEFINE status == DeadlineStatus(g, a, reading, ClockAfter(reading, FALSE))
             r == Idle(actor[a].epoch)
  <1>1. /\ Apply(reading, FALSE) /\ HoldsLease(a) /\ actor[a].pc = "assessed" /\ Pending = {}
        /\ actor' = [actor EXCEPT ![a] = r]
        /\ Latched(g, status)
        /\ UNCHANGED <<reading, adjust, marker, lease, grant>>
        /\ \/ uses' = uses
           \/ status = "Valid" /\ uses' = uses \cup {<<g, ClockAfter(reading, FALSE).revision, lease>>}
    BY DEF UseGrant, Locked
  <1>2. /\ ClockMoves /\ UsesTell' /\ latch' \subseteq Grants
        /\ uses' \subseteq Grants \X (1..MaxRevision) \X (1..MaxEpoch)
    BY <1>1, Admission
  <1>3. actor[a] \in ActorRow
    BY DEF IInv, Typed
  <1>4. r \in ActorRow /\ r.pc = "idle" /\ r.epoch = actor[a].epoch
    BY <1>3, ActorRows DEF ActorRow
  <1> HIDE DEF r, status
  <1>5. Typed'
    BY <1>1, <1>2, <1>4 DEF IInv, Typed, ClockMoves
  <1>6. MarkersKept /\ Pending' = {}
    BY <1>1 DEF IInv, Typed, MarkersKept, Pending
  <1>7. ActorsTell'
    BY <1>1, <1>4, <1>6, ActorMoves DEF IInv
  <1>8. UnknownHeld'
    BY <1>6 DEF UnknownHeld
  <1>9. MarkersTell'
    BY <1>1, <1>2, MarkersStand DEF IInv
  <1> QED BY <1>2, <1>5, <1>7, <1>8, <1>9 DEF IInv, ClockMoves

\* The entry of a marked primitive, admitted or denied.
LEMMA EnterEffectStep ==
  ASSUME TimeAssumption, IInv, NEW a \in Actors, NEW g \in Grants, EnterEffect(a, g)
  PROVE  IInv'
  <1> DEFINE status == DeadlineStatus(g, a, reading, ClockAfter(reading, FALSE))
  <1>1. /\ Apply(reading, FALSE) /\ Entering(a) /\ HoldsLease(a) /\ actor[a].pc # "closed"
        /\ Usable(reading)
        /\ actor' = [actor EXCEPT ![a] = Idle(actor[a].epoch)]
        /\ Latched(g, status)
        /\ UNCHANGED <<reading, adjust, lease, grant>>
    BY DEF EnterEffect, Entering
  <1>2. \/ Resolve(actor[a].mark, "NO_EFFECT", 0) /\ uses' = uses
        \/ /\ Resolve(actor[a].mark, "EFFECT_INVOKED", lease)
           /\ status = "Valid" /\ uses' = uses \cup {<<g, ClockAfter(reading, FALSE).revision, lease>>}
    BY DEF EnterEffect
  <1>3. /\ UsesTell' /\ latch' \subseteq Grants
        /\ uses' \subseteq Grants \X (1..MaxRevision) \X (1..MaxEpoch)
    BY <1>1, <1>2, Admission
  <1> HIDE DEF status
  <1> QED BY <1>1, <1>2, <1>3, ResolveStep

\* Every step of an actor that leaves the grants alone.
LEMMA ActorSteps ==
  ASSUME TimeAssumption, IInv, NEW a \in Actors, ActorStep(a), Untouched
  PROVE  IInv'
  <1>1. /\ actor[a] \in ActorRow /\ reading \in Samples /\ actor[a].sample \in Samples
        /\ actor \in [Actors -> ActorRow]
    BY DEF IInv, Typed, ActorRow
  <1>2. /\ Idle(actor[a].epoch) \in ActorRow /\ Idle(actor[a].epoch).pc = "idle"
        /\ Idle(actor[a].epoch).epoch = actor[a].epoch
        /\ Closed \in ActorRow /\ Closed.pc = "closed"
    BY <1>1, ActorRows DEF ActorRow
  <1>3. ASSUME NEW op \in {"use", "effect"}, Assess(a, op)
        PROVE  IInv'
    <2> DEFINE r == IF clock'.confidence = "TRUSTED_LOCAL"
                    THEN [actor[a] EXCEPT !.pc = "assessed", !.op = op] ELSE Idle(actor[a].epoch)
    <2>1. ClockMoves
      BY <1>1, <1>3, ApplyMoves DEF Assess, IInv
    <2>2. r \in ActorRow /\ r.epoch = actor[a].epoch /\ r.pc # "prepared"
      BY <1>1, <1>2 DEF ActorRow
    <2>3. actor' = [actor EXCEPT ![a] = r] /\ actor[a].pc = "idle"
      BY <1>3 DEF Assess
    <2> HIDE DEF r
    <2> QED BY <1>3, <2>1, <2>2, <2>3, QuietStep DEF Assess, Untouched
  <1>4. CASE DenyLocked(a)
    BY <1>2, <1>4, ClockStands, QuietStep DEF DenyLocked, Untouched, IInv
  <1>5. CASE RefuseLocked(a)
    <2> DEFINE r == [actor[a] EXCEPT !.pc = "record", !.sample = reading]
    <2>1. r \in ActorRow /\ r.epoch = actor[a].epoch /\ r.pc = "record"
      BY <1>1 DEF ActorRow
    <2>2. /\ actor' = [actor EXCEPT ![a] = r] /\ actor[a].pc = "assessed"
          /\ UNCHANGED <<reading, adjust, clock, ledger, marker, lease, session>>
      BY <1>5 DEF RefuseLocked, RollBack
    <2> HIDE DEF r
    <2> QED BY <2>1, <2>2, ClockStands, QuietStep DEF Untouched, IInv
  <1>6. CASE RecordRefused(a)
    <2>1. ClockMoves
      BY <1>1, <1>6, ApplyMoves DEF RecordRefused, IInv
    <2> QED BY <1>2, <1>6, <2>1, QuietStep DEF RecordRefused, Untouched
  <1>7. CASE LoseEntry(a)
    BY <1>2, <1>7, ClockStands, QuietStep DEF LoseEntry, Untouched, IInv
  <1>8. CASE Close(a)
    BY <1>2, <1>8, ClockStands, QuietStep DEF Close, Untouched, IInv
  <1>9. ASSUME DenyEntry(a) \/ EnterUnbound(a)
        PROVE  IInv'
    <2>1. /\ Entering(a) /\ Apply(reading, FALSE)
          /\ actor' = [actor EXCEPT ![a] = Idle(actor[a].epoch)]
          /\ UNCHANGED <<reading, adjust, lease>>
          /\ \/ Resolve(actor[a].mark, "NO_EFFECT", 0)
             \/ Usable(reading) /\ Resolve(actor[a].mark, "EFFECT_INVOKED", lease)
      BY <1>9 DEF DenyEntry, EnterUnbound
    <2>2. ClockMoves
      BY <1>1, <2>1, ApplyMoves DEF IInv
    <2>3. UsesTell'
      BY <2>2, UsesStand DEF Untouched, IInv, UsesTell
    <2>4. /\ latch' \subseteq Grants /\ grant' = grant
          /\ uses' \subseteq Grants \X (1..MaxRevision) \X (1..MaxEpoch)
      BY DEF Untouched, IInv, Typed
    <2> QED BY <2>1, <2>3, <2>4, ResolveStep
  <1> QED
    BY <1>3, <1>4, <1>5, <1>6, <1>7, <1>8, <1>9, PrepareEffectStep, LoseResolutionStep
    DEF ActorStep

\* Every step of the manager that leaves the grants alone.
LEMMA ManagerSteps ==
  ASSUME TimeAssumption, IInv, ManagerStep, Untouched
  PROVE  IInv'
  <1> DEFINE m == actor["manager"]
  <1>1. /\ m \in ActorRow /\ reading \in Samples /\ "manager" \in Actors
    BY ActorRows DEF IInv, Typed
  <1>2. /\ Idle(m.epoch) \in ActorRow /\ Idle(m.epoch).pc = "idle" /\ Idle(m.epoch).epoch = m.epoch
    BY <1>1, ActorRows DEF ActorRow
  <1>3. ASSUME NEW op \in {"session", "issue"}, Assess("manager", op)
        PROVE  IInv'
    <2> DEFINE r == IF clock'.confidence = "TRUSTED_LOCAL"
                    THEN [m EXCEPT !.pc = "assessed", !.op = op] ELSE Idle(m.epoch)
    <2>1. ClockMoves
      BY <1>1, <1>3, ApplyMoves DEF Assess, IInv
    <2>2. r \in ActorRow /\ r.epoch = m.epoch /\ r.pc # "prepared"
      BY <1>1, <1>2 DEF ActorRow
    <2>3. actor' = [actor EXCEPT !["manager"] = r] /\ m.pc = "idle"
      BY <1>3 DEF Assess
    <2> HIDE DEF r
    <2> QED BY <1>1, <1>3, <2>1, <2>2, <2>3, QuietStep DEF Assess, Untouched
  <1>4. CASE OpenSession
    <2>1. /\ Apply(reading, FALSE) /\ m.pc = "assessed"
          /\ actor' = [actor EXCEPT !["manager"] = Idle(m.epoch)]
          /\ UNCHANGED <<reading, adjust, marker, lease>>
      BY <1>4 DEF OpenSession, Locked
    <2>2. ClockMoves
      BY <1>1, <2>1, ApplyMoves DEF IInv
    <2> QED BY <1>1, <1>2, <2>1, <2>2, QuietStep DEF Untouched
  <1> QED BY <1>3, <1>4, ClaimStep, StartupAssessStep DEF ManagerStep

-----------------------------------------------------------------------------
(* The invariant holds. *)

LEMMA InitIInv == ASSUME TimeAssumption PROVE Init => IInv
  <1> SUFFICES ASSUME Init PROVE IInv
    OBVIOUS
  <1>1. Closed \in ActorRow /\ Closed.pc = "closed" /\ Closed.epoch = 0 /\ "manager" \in Actors
    BY ActorRows
  <1>2. NoGrant \in GrantRow
    BY DEF NoGrant, GrantRow
  <1>3. Typed
    BY <1>1, <1>2 DEF Init, TimeInit, Typed, TimeAssumption, Samples, Reading, Never, ClockRow, Confidence
  <1>4. LedgerTells
    BY DEF Init, TimeInit, LedgerTells, StateMatchesAudit
  <1>5. ActorsTell
    BY <1>1 DEF Init, TimeInit, ActorsTell
  <1>6. MarkersTell
    BY DEF Init, TimeInit, MarkersTell, InflightRowsCoherent, EffectsUnderOwnLease
  <1>7. UnknownHeld
    BY DEF Init, TimeInit, UnknownHeld, Pending
  <1>8. UsesTell
    BY DEF Init, UsesTell, NoRevival
  <1> QED BY <1>3, <1>4, <1>5, <1>6, <1>7, <1>8 DEF IInv

LEMMA NextIInv ==
  ASSUME TimeAssumption, DeadlineAssumption, IInv, [Next]_vars
  PROVE  IInv'
  <1>1. CASE UNCHANGED vars
    BY <1>1 DEF vars, timeVars, IInv, Typed, LedgerTells, StateMatchesAudit, ActorsTell, MarkersTell,
       InflightRowsCoherent, EffectsUnderOwnLease, UnknownHeld, Pending, UsesTell, NoRevival
  <1>2. CASE (MoveClocks \/ ManagerStep) /\ Untouched
    BY <1>2, MoveClocksStep, ManagerSteps
  <1>3. CASE (\E h \in Handles : OpenHandle(h)) /\ Untouched
    BY <1>3, OpenHandleStep
  <1>4. CASE (\E a \in Actors : ActorStep(a)) /\ Untouched
    BY <1>4, ActorSteps
  <1>5. CASE \E g \in Grants : Issue(g)
    BY <1>5, IssueStep
  <1>6. CASE \E a \in Actors, g \in Grants : UseGrant(a, g) \/ EnterEffect(a, g)
    BY <1>6, UseGrantStep, EnterEffectStep
  <1> QED BY <1>1, <1>2, <1>3, <1>4, <1>5, <1>6 DEF Next

\* The inductive invariant of the clock, its markers and the grants.
THEOREM ClockInvariant ==
  ASSUME TimeAssumption, DeadlineAssumption
  PROVE  Spec => []IInv
  <1>1. Init => IInv
    BY InitIInv
  <1>2. IInv /\ [Next]_vars => IInv'
    BY NextIInv
  <1> QED BY <1>1, <1>2, PTL DEF Spec

\* check_grant_deadline admits no use of a grant after a trusted observation
\* had reached one of its deadlines.
THEOREM ExpiredStaysExpired ==
  ASSUME TimeAssumption, DeadlineAssumption
  PROVE  Spec => []NoRevival
  <1>1. IInv => NoRevival
    BY DEF IInv, UsesTell
  <1> QED BY <1>1, ClockInvariant, PTL

\* Marked primitives run under the lease that prepared them, an effect without
\* a resolution stops protected work, and startup's audit of the rows holds.
THEOREM EffectsStayAccounted ==
  ASSUME TimeAssumption, DeadlineAssumption
  PROVE  Spec => []EffectsAccounted
  <1>1. IInv => EffectsAccounted
    BY DEF IInv, LedgerTells, MarkersTell, UnknownHeld, EffectsAccounted,
       UnknownEffectStopsUse, StartupAuditHolds
  <1> QED BY <1>1, ClockInvariant, PTL

\* Every step leaves the clock as it was or makes one observation.
LEMMA EveryStepMovesClock ==
  ASSUME TimeAssumption, IInv, Next
  PROVE  ClockMoves
  <1>1. reading \in Samples /\ \A a \in Actors : actor[a].sample \in Samples
    BY DEF IInv, Typed, ActorRow
  <1>2. \/ UNCHANGED <<clock, ledger>>
        \/ Apply(reading, FALSE) \/ Apply(reading, Pending # {})
        \/ \E a \in Actors : Apply(actor[a].sample, FALSE)
    <2>1. CASE \E a \in Actors : ActorStep(a)
      BY <2>1 DEF ActorStep, Assess, DenyLocked, RefuseLocked, RollBack, RecordRefused, PrepareEffect,
         Locked, LoseEntry, DenyEntry, EnterUnbound, LoseResolution, Close
    <2>2. CASE ManagerStep
      BY <2>2 DEF ManagerStep, Claim, StartupAssess, OpenSession, Locked, Assess
    <2>3. CASE \E a \in Actors, g \in Grants : UseGrant(a, g) \/ EnterEffect(a, g)
      BY <2>3 DEF UseGrant, EnterEffect, Locked
    <2>4. CASE MoveClocks \/ (\E h \in Handles : OpenHandle(h)) \/ (\E g \in Grants : Issue(g))
      BY <2>4 DEF MoveClocks, OpenHandle, Issue, Locked
    <2> QED BY <2>1, <2>2, <2>3, <2>4 DEF Next
  <1>3. (Pending # {}) \in BOOLEAN
    OBVIOUS
  <1> QED BY <1>1, <1>2, <1>3, ApplyMoves, ClockStands DEF IInv

\* Every variable of the clock and of the grants keeps its type, and the
\* lease and the ledger their bounds.
THEOREM ClockTypeCorrect ==
  ASSUME TimeAssumption, DeadlineAssumption
  PROVE  Spec => []TypeOK
  <1>1. IInv => TypeOK
    <2> SUFFICES ASSUME IInv PROVE TypeOK
      OBVIOUS
    <2>1. Len(ledger) <= MaxRevision
      BY DEF IInv, Typed, ClockRow, LedgerTells, StateMatchesAudit, TimeAssumption
    <2>2. \A a \in Actors : actor[a].epoch \in 0..lease
      BY DEF IInv, Typed, ActorRow, ActorsTell, TimeAssumption
    <2> QED BY <2>1, <2>2 DEF IInv, Typed, TypeOK, ClockRow
  <1> QED BY <1>1, ClockInvariant, PTL

\* Whatever actors do in whatever order, the floor never falls, a latched
\* expiry is never lifted and an uncertain clock never trusted again.
THEOREM ClockHardens ==
  ASSUME TimeAssumption, DeadlineAssumption
  PROVE  Spec => [][ClockOnlyHardens]_vars
  <1>1. IInv /\ [Next]_vars => [ClockOnlyHardens]_vars
    <2> SUFFICES ASSUME IInv, Next PROVE ClockOnlyHardens
      OBVIOUS
    <2>1. ClockMoves
      BY EveryStepMovesClock
    <2>2. latch \subseteq latch'
      BY DEF Next, Untouched, Issue, UseGrant, EnterEffect, Latched
    <2> QED BY <2>1, <2>2 DEF ClockMoves, ClockOnlyHardens
  <1> QED BY <1>1, ClockInvariant, PTL DEF Spec

=============================================================================

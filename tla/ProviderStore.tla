----------------------------- MODULE ProviderStore -----------------------------
(***************************************************************************)
(* The provider registry: registrations of exact builds, their one-way     *)
(* lifecycle with its ledger of intervals, appended trust decisions,       *)
(* conformance evidence, the candidates of a capability, the bindings that *)
(* pin what they were admitted under, and the repair of a store that an    *)
(* earlier build left without some of its guards.                          *)
(* Times are those callers give: they need not grow from call to call.     *)
(***************************************************************************)
EXTENDS Naturals, Sequences, FiniteSets, FiniteSetsExt

CONSTANTS
  Registrations,  \* provider, version, manifest and build
  BuildOf,        \* provider, version and build, without the manifest
  Claims,         \* capabilities the manifest claims
  Capabilities, Snapshots,
  OriginOf,       \* snapshot the manifest was checked against
  Offers,         \* capabilities of a snapshot
  EvidenceIds, Decisions, Bindings,
  MaxTime,        \* times are 1..MaxTime
  HealthTimes,    \* times at which health is observed
  MaxEpochs,      \* state changes of a registration
  MaxTrust,       \* appended trust decisions
  MaxOutside      \* writes while no manager runs

\* What the instances have to satisfy.
ProviderAssumption ==
  /\ Claims \in [Registrations -> SUBSET Capabilities]
  /\ OriginOf \in [Registrations -> Snapshots]
  /\ Offers \in [Snapshots -> SUBSET Capabilities]
  /\ MaxTime \in Nat /\ MaxEpochs \in Nat /\ MaxTrust \in Nat /\ MaxOutside \in Nat

None == <<>>
Times == 1..MaxTime
Never == MaxTime + 1                        \* evidence that does not expire
\* ProviderTrustStatus; the three levels that permit execution are one
Trust == {"unverified", "trusted", "denied"}
Permits(t) == t = "trusted"
\* PROVIDER_HISTORY_GUARDS, PROVIDER_AUTHORITY_HISTORY_GUARDS, the guards of
\* the enablement marker, and the others of PROVIDER_ADDITIVE_GUARDS
Guards == {"history", "authority", "interval", "binding"}

VARIABLES
  running,   \* a manager holds the lease and has opened the store
  guard,     \* how each group of triggers is installed: current, legacy or missing
  usable,    \* semantic_current_usable_snapshots
  row,       \* provider_registrations
  epochs,    \* provider_state_epochs
  trusts,    \* provider_trust_admissions
  evidence,  \* provider_conformance_evidence
  health,    \* provider_health_observations
  bound,     \* execution_bindings, with their three markers
  barred,    \* execution_binding_legacy_trust_quarantine
  call,      \* a set_state between its checks and its transaction
  outside,   \* writes from outside so far
  revoked,   \* history: registrations that were revoked
  ended,     \* history: bindings whose enabled interval has ended
  unproven   \* history: bindings there were while a guard was not current

store == <<row, epochs, trusts, evidence, health, bound, barred>>
history == <<revoked, ended, unproven>>
vars == <<running, guard, usable, store, call, outside, history>>

Registered(r) == row[r] # None
LastEpoch(r) == Len(epochs[r])
Put(r, state, at) == [row EXCEPT ![r].state = state, ![r].updated = at]

\* Bindings whose registration leaves the interval they were admitted in
Ends(r) == ended' = ended \cup {b \in Bindings : bound[b] # None /\ bound[b].reg = r}

TypeOK ==
  /\ running \in BOOLEAN /\ outside \in 0..MaxOutside
  /\ guard \in [Guards -> {"current", "legacy", "missing"}]
  /\ usable \in [Snapshots -> {"ADMITTED", "DEPRECATED", "out"}]
  /\ \A r \in Registrations :
       /\ Registered(r) => /\ row[r].state \in {"disabled", "registered", "revoked"}
                           /\ row[r].trust \in Trust /\ row[r].at \in Times
                           /\ row[r].updated \in Times \cup {0}
       /\ \A n \in 1..LastEpoch(r) : epochs[r][n].at \in Times
       /\ LastEpoch(r) <= MaxEpochs + 2 /\ Len(trusts[r]) <= MaxTrust
       \* without outside writes, the ledger's last entry is the row's state
       /\ outside = 0 /\ Registered(r) => epochs[r][LastEpoch(r)].state = row[r].state
  /\ \A e \in evidence : e.id \in EvidenceIds /\ e.reg \in Registrations /\ e.at < e.expires
  /\ barred \subseteq Bindings

-----------------------------------------------------------------------------
(* What the store holds about a registration at a time. *)

\* verified_provider_trust_source_at: revisions in sequence, times that do not
\* go backwards, and no decision over a denial; else an error.
TrustHistoryStands(r) ==
  /\ trusts[r] # <<>> => row[r].trust # "denied"
  /\ \A n \in 1..Len(trusts[r]) :
       /\ trusts[r][n].receipt
       /\ trusts[r][n].at >= IF n = 1 THEN row[r].at ELSE trusts[r][n - 1].at

\* The decision in force: 0 is the registration's own receipt.
TrustSourceAt(r, at) == Max({0} \cup {n \in 1..Len(trusts[r]) : trusts[r][n].at <= at})

TrustAt(r, at) ==
  IF TrustSourceAt(r, at) = 0 THEN row[r].trust ELSE trusts[r][TrustSourceAt(r, at)].trust

TrustPermits(r, at) == row[r].at <= at /\ TrustHistoryStands(r) /\ Permits(TrustAt(r, at))

\* valid_passes: the latest result by the given time decides, unless another
\* has the same time.
LatestEvidence(r, c, at) ==
  LET past == {e \in evidence : e.reg = r /\ e.cap = c /\ e.at <= at}
  IN  {e \in past : \A f \in past \ {e} : f.at < e.at}

\* evidence_matches_binding, for the results that count
ValidPasses(r, c, at) == {e \in LatestEvidence(r, c, at) : e.status = "pass" /\ at < e.expires}

\* has_live_evidence: one proven claim is enough to enable.
HasLiveEvidence(r, at) == \E c \in Claims[r] : ValidPasses(r, c, at) # {}

\* reopen_selected_snapshot, and the check that it holds the capability
Selects(s, c) == usable[s] = "ADMITTED" /\ c \in Offers[s]

OriginStands(r) == usable[OriginOf[r]] \in {"ADMITTED", "DEPRECATED"}

\* eligible_candidates, in one read
Candidates(s, c, at) ==
  {r \in Registrations :
     /\ Registered(r) /\ Selects(s, c) /\ OriginStands(r)
     /\ row[r].state = "registered" /\ row[r].updated \in 1..at
     /\ TrustPermits(r, at)
     /\ c \in Claims[r] /\ ValidPasses(r, c, at) # {}}

\* binding_grants_valid: what the launch gate asks of the provider of a binding
IntervalCurrent(b) ==
  LET r == bound[b].reg
  IN  /\ bound[b].revision = LastEpoch(r)
      /\ epochs[r][LastEpoch(r)].state = "registered"
      /\ epochs[r][LastEpoch(r)].at = row[r].updated

Valid(b, at) ==
  LET r == bound[b].reg
  IN  /\ bound[b] # None /\ b \notin barred
      /\ row[r].state = "registered" /\ OriginStands(r) /\ Selects(bound[b].snap, bound[b].cap)
      /\ \E e \in ValidPasses(r, bound[b].cap, at) : e.id = bound[b].evidence
      /\ IntervalCurrent(b)
      /\ TrustPermits(r, at) /\ bound[b].source = TrustSourceAt(r, at)

-----------------------------------------------------------------------------
(* Operations of the store, under the write fence. *)

Idle == call = None
Ready == running /\ Idle

\* validate_provider_manifest and complete suites, for every claim
StaticallyCompatible(r) == Claims[r] \subseteq Offers[OriginOf[r]]

\* register: disabled, with the first interval of its ledger.  A build already
\* registered is found again if manifest and trust agree.
SameBuild(r) == {q \in Registrations : Registered(q) /\ BuildOf[q] = BuildOf[r]}

Insert(r, trust, at) ==
  /\ row' = [row EXCEPT ![r] = [state |-> "disabled", updated |-> 0, trust |-> trust, at |-> at]]
  /\ epochs' = [epochs EXCEPT ![r] = Append(@, [state |-> "disabled", at |-> at])]

Register(r, trust, at) ==
  /\ Ready /\ StaticallyCompatible(r) /\ usable[OriginOf[r]] = "ADMITTED"
  /\ SameBuild(r) = {}
  /\ Insert(r, trust, at)
  /\ UNCHANGED <<running, guard, usable, trusts, evidence, health, bound, barred, call, outside, history>>

\* The result is about this build, a claim of its manifest and its suite.
EvidenceMatchesClaim(r, c, at, expires) == Registered(r) /\ c \in Claims[r] /\ at < expires

\* record_evidence: an id stands for one result.
RecordEvidence(r, c, id, status, at, expires) ==
  /\ Ready /\ EvidenceMatchesClaim(r, c, at, expires)
  /\ ~\E e \in evidence : e.id = id
  /\ evidence' = evidence \cup {[id |-> id, reg |-> r, cap |-> c, status |-> status,
                                 at |-> at, expires |-> expires]}
  /\ UNCHANGED <<running, guard, usable, row, epochs, trusts, health, bound, barred, call, outside, history>>

\* aios_trust_admission_matches_insert_v1, also checked by the trigger
TrustInsertMatches(r, at) ==
  /\ row[r].state # "revoked" /\ row[r].trust # "denied"
  /\ at >= IF trusts[r] = <<>> THEN row[r].at ELSE trusts[r][Len(trusts[r])].at

\* admit_trust: appended, with a time that does not go backwards; a decision
\* that is there already changes nothing.
AdmitTrust(r, d, at) ==
  /\ Ready /\ Registered(r) /\ Len(trusts[r]) < MaxTrust
  /\ TrustInsertMatches(r, at) /\ TrustHistoryStands(r)
  /\ ~\E n \in 1..Len(trusts[r]) : trusts[r][n].decision = d
  /\ trusts' = [trusts EXCEPT ![r] = Append(@, [decision |-> d, trust |-> "trusted", at |-> at, receipt |-> TRUE, forged |-> FALSE])]
  /\ UNCHANGED <<running, guard, usable, row, epochs, evidence, health, bound, barred, call, outside, history>>

\* set_state: the state is read and the checks are made before the transaction
CheckState(r, state, at) ==
  /\ Ready /\ Registered(r) /\ LastEpoch(r) < MaxEpochs
  /\ row[r].state = "revoked" => state = "revoked"
  /\ state = "registered" => TrustPermits(r, at) /\ HasLiveEvidence(r, at)
  /\ call' = [reg |-> r, state |-> state, at |-> at, old |-> row[r].state]
  /\ UNCHANGED <<running, guard, usable, store, outside, history>>

\* Mutant: the state is not read again.
UnchangedSinceAny(r) == TRUE

UnchangedSince(r) == row[r].state = call.old

\* provider_registration_state_transition_clock
ClockAdvances(r, at) == at >= IF row[r].updated = 0 THEN row[r].at ELSE row[r].updated

\* The trigger provider_state_epoch_transition adds to the ledger.
Transition(r, state, at) ==
  /\ row' = Put(r, state, at)
  /\ epochs' = [epochs EXCEPT ![r] = Append(@, [state |-> state, at |-> at])]
  /\ Ends(r)
  /\ revoked' = IF state = "revoked" THEN revoked \cup {r} ELSE revoked

SetState ==
  /\ running /\ ~Idle
  /\ call' = None
  /\ \/ /\ UnchangedSince(call.reg) /\ row[call.reg].state # call.state
        /\ ClockAdvances(call.reg, call.at)
        /\ Transition(call.reg, call.state, call.at)
     \/ /\ ~UnchangedSince(call.reg) \/ row[call.reg].state = call.state \/ ~ClockAdvances(call.reg, call.at)
        /\ UNCHANGED <<row, epochs, ended, revoked>>
  /\ UNCHANGED <<running, guard, usable, trusts, evidence, health, bound, barred, outside, unproven>>

\* Another connection of the same manager changes the state meanwhile.
SetStateMeanwhile(r, state, at) ==
  /\ running /\ ~Idle /\ Registered(r) /\ LastEpoch(r) < MaxEpochs
  /\ row[r].state # "revoked" /\ state \in {"disabled", "revoked"} \ {row[r].state}
  /\ ClockAdvances(r, at) /\ Transition(r, state, at)
  /\ UNCHANGED <<running, guard, usable, trusts, evidence, health, bound, barred, call, outside, unproven>>

\* observe_health: an older observation is dropped.
ObserveHealth(r, status, at) ==
  /\ Ready /\ Registered(r) /\ health[r].at <= at
  /\ health' = [health EXCEPT ![r] = [status |-> status, at |-> at]]
  /\ UNCHANGED <<running, guard, usable, row, epochs, trusts, evidence, bound, barred, call, outside, history>>

\* The triggers of an insert into execution_bindings: what is pinned must be
\* what is in force at the time of creation.
BindingAdmissible(r, s, c, id, source, at) ==
  /\ Registered(r) /\ row[r].state = "registered" /\ c \in Claims[r] /\ c \in Offers[s]
  /\ \E e \in ValidPasses(r, c, at) : e.id = id
  /\ row[r].trust # "denied" /\ source = TrustSourceAt(r, at) /\ Permits(TrustAt(r, at)) /\ row[r].at <= at
  /\ row[r].updated \in 1..at
  /\ epochs[r][LastEpoch(r)] = [state |-> "registered", at |-> row[r].updated]

Bind(b, r, s, c, id, source, at) ==
  /\ Ready /\ bound[b] = None
  /\ BindingAdmissible(r, s, c, id, source, at)
  /\ bound' = [bound EXCEPT ![b] = [reg |-> r, snap |-> s, cap |-> c, evidence |-> id,
                                    source |-> source, revision |-> LastEpoch(r)]]
  /\ UNCHANGED <<running, guard, usable, row, epochs, trusts, evidence, health, barred, call, outside, history>>

\* The registry deprecates, contains or attests a snapshot.
SnapshotChanges(s, state) ==
  /\ running /\ usable[s] # state /\ usable' = [usable EXCEPT ![s] = state]
  /\ UNCHANGED <<running, guard, store, call, outside, history>>

-----------------------------------------------------------------------------
(* Opening the store. *)

Current(g) == guard[g] = "current"

\* provider_history_provable, provider_authority_history_provable: what the
\* ledger or future bindings rest on cannot be reconstructed.
HistoryProvable == Current("history")

AuthorityHistoryProvable ==
  \/ Current("authority")
  \/ guard["authority"] = "legacy" /\ \A r \in Registrations : trusts[r] = <<>>

\* preflight_migrations: no store is opened that lacks a guard.
Preflight == \A g \in Guards : Current(g)
Missing == ~Preflight

\* A terminal interval of the ledger wins over the row.
RevokedByLedger(r) == \E n \in 1..LastEpoch(r) : epochs[r][n].state = "revoked"

\* upgrade_stamped_registry_guards_fenced: intervals that are not proven end,
\* and a terminal interval wins over a replaced row.
RepairedState(r) ==
  CASE RevokedByLedger(r) -> "revoked"
    [] ~RevokedByLedger(r) /\ ~Current("interval") /\ row[r].state = "registered" -> "disabled"
    [] OTHER -> row[r].state

\* The interval that repair adds where the ledger ends in another state
RepairedEpochs(r, at) ==
  IF /\ epochs[r][LastEpoch(r)].state # RepairedState(r)
     /\ RepairedState(r) = "revoked" \/ (RepairedState(r) = "disabled" /\ ~Current("interval"))
  THEN Append(epochs[r], [state |-> RepairedState(r), at |-> at]) ELSE epochs[r]

RepairedTime(r, at) ==
  IF RepairedState(r) = row[r].state THEN row[r].updated
  ELSE IF RevokedByLedger(r) /\ epochs[r][LastEpoch(r)].state = "revoked" THEN epochs[r][LastEpoch(r)].at
  ELSE at

QuarantineBindings == barred \cup {b \in Bindings : bound[b] # None}

Repair(at) ==
  /\ row' = [r \in Registrations |->
               IF ~Registered(r) THEN None
               ELSE [row[r] EXCEPT !.state = RepairedState(r), !.updated = RepairedTime(r, at)]]
  /\ epochs' = [r \in Registrations |-> IF ~Registered(r) THEN epochs[r] ELSE RepairedEpochs(r, at)]
  /\ barred' = QuarantineBindings
  /\ guard' = [g \in Guards |-> "current"]
  /\ ended' = ended \cup {b \in Bindings : bound[b] # None /\ RepairedState(bound[b].reg) # row[bound[b].reg].state}

\* A store whose history is not provable stays closed.
Startup(at) ==
  /\ ~running /\ HistoryProvable /\ AuthorityHistoryProvable
  /\ IF Missing THEN Repair(at) ELSE UNCHANGED <<row, epochs, barred, guard, ended>>
  /\ running' = TRUE
  /\ UNCHANGED <<usable, trusts, evidence, health, bound, call, outside, revoked, unproven>>

\* A loss of semantic guards alone is repaired the same way.
StartupSemantic ==
  /\ ~running /\ ~Missing /\ running' = TRUE
  /\ barred' = QuarantineBindings
  /\ unproven' = unproven \cup {b \in Bindings : bound[b] # None}
  /\ UNCHANGED <<guard, usable, row, epochs, trusts, evidence, health, bound, call, outside, revoked, ended>>

Stop ==
  /\ running /\ running' = FALSE /\ call' = None
  /\ UNCHANGED <<guard, usable, store, outside, history>>

-----------------------------------------------------------------------------
(* What builds without a guard, or with an earlier one, leave behind. *)

Write == ~running /\ outside < MaxOutside /\ outside' = outside + 1

Unproven == unproven' = unproven \cup {b \in Bindings : bound[b] # None}

LoseGuard(g, how) ==
  /\ Write /\ Current(g) /\ guard' = [guard EXCEPT ![g] = how] /\ Unproven
  /\ UNCHANGED <<running, usable, store, call, revoked, ended>>

\* Without the history guards a row is replaced; the ledger is kept.
ReplaceRow(r, state, at) ==
  /\ Write /\ guard["history"] = "missing" /\ Registered(r)
  /\ row' = Put(r, state, at)
  /\ UNCHANGED <<running, guard, usable, epochs, trusts, evidence, health, bound, barred, call, history>>

\* An earlier build put back the guards of the history, with the guards of
\* bindings it had.
EarlierUpgrade ==
  /\ Write /\ guard["history"] = "missing"
  /\ guard' = [guard EXCEPT !["history"] = "current", !["binding"] = "legacy"]
  /\ Unproven /\ UNCHANGED <<running, usable, store, call, revoked, ended>>

\* Without the check of receipts a decision is forged.
ForgeTrust(r, at) ==
  /\ Write /\ ~Current("authority") /\ Registered(r) /\ Len(trusts[r]) < MaxTrust
  /\ \E d \in Decisions, g \in BOOLEAN :
       trusts' = [trusts EXCEPT ![r] = Append(@, [decision |-> d, trust |-> "trusted", at |-> at, receipt |-> g, forged |-> TRUE])]
  /\ UNCHANGED <<running, guard, usable, row, epochs, evidence, health, bound, barred, call, history>>

\* Without the guards of bindings one is admitted unchecked.
BindUnchecked(b, r, s, c, id, source) ==
  /\ Write /\ ~Current("binding") /\ bound[b] = None /\ Registered(r)
  /\ bound' = [bound EXCEPT ![b] = [reg |-> r, snap |-> s, cap |-> c, evidence |-> id,
                                    source |-> source, revision |-> LastEpoch(r)]]
  /\ unproven' = unproven \cup {b}
  /\ UNCHANGED <<running, guard, usable, row, epochs, trusts, evidence, health, barred, call, revoked, ended>>

-----------------------------------------------------------------------------
Init ==
  /\ running = TRUE /\ guard = [g \in Guards |-> "current"]
  /\ usable = [s \in Snapshots |-> "ADMITTED"]
  /\ row = [r \in Registrations |-> None] /\ epochs = [r \in Registrations |-> <<>>]
  /\ trusts = [r \in Registrations |-> <<>>] /\ evidence = {}
  /\ health = [r \in Registrations |-> [status |-> "unknown", at |-> 0]]
  /\ bound = [b \in Bindings |-> None] /\ barred = {}
  /\ call = None /\ outside = 0
  /\ revoked = {} /\ ended = {} /\ unproven = {}

Operations ==
  \E r \in Registrations, at \in Times :
    \/ \E t \in Trust : Register(r, t, at)
    \/ \E c \in Capabilities, id \in EvidenceIds, st \in {"pass", "fail"}, x \in {at + 1, Never} :
         RecordEvidence(r, c, id, st, at, x)
    \/ \E d \in Decisions : AdmitTrust(r, d, at)
    \/ \E st \in {"registered", "disabled", "revoked"} : CheckState(r, st, at)
    \/ \E st \in {"disabled", "revoked"} : SetStateMeanwhile(r, st, at)
    \/ at \in HealthTimes /\ \E st \in {"ready", "degraded"} : ObserveHealth(r, st, at)
    \/ \E b \in Bindings, s \in Snapshots, c \in Capabilities, id \in EvidenceIds, n \in 0..MaxTrust :
         Bind(b, r, s, c, id, n, at)

Outside ==
  \/ \E g \in Guards, how \in {"legacy", "missing"} : LoseGuard(g, how)
  \/ \E r \in Registrations, st \in {"registered", "disabled"}, at \in Times : ReplaceRow(r, st, at)
  \/ EarlierUpgrade
  \/ \E r \in Registrations, at \in Times : ForgeTrust(r, at)
  \/ \E b \in Bindings, r \in Registrations, s \in Snapshots, c \in Capabilities,
        id \in EvidenceIds, n \in 0..MaxTrust : BindUnchecked(b, r, s, c, id, n)

Next ==
  \/ Operations \/ SetState
  \/ \E s \in Snapshots, st \in {"ADMITTED", "DEPRECATED", "out"} : SnapshotChanges(s, st)
  \/ Stop \/ StartupSemantic \/ \E at \in Times : Startup(at)
  \/ Outside

Spec == Init /\ [][Next]_vars

-----------------------------------------------------------------------------
(* Properties. *)

\* provider_registration_revoked_epoch_update and the repair: a registration
\* that was revoked is no candidate and carries no binding of an open store,
\* even if its row was replaced while guards were missing.
RevokedStaysOut ==
  running => \A r \in revoked, at \in Times :
    /\ \A s \in Snapshots, c \in Capabilities : r \notin Candidates(s, c, at)
    /\ \A b \in Bindings : bound[b] # None /\ bound[b].reg = r => ~Valid(b, at)

\* valid_passes, has_live_evidence: a candidate at a time is proven for the
\* capability asked for by a result that no other of that claim has caught up
\* with by then, and is trusted by a review that was made of that time; a claim that passes does not carry one that fails.
CandidatesAreProven ==
  running => \A s \in Snapshots, c \in Capabilities, at \in Times : \A r \in Candidates(s, c, at) :
    /\ \E e \in evidence :
         /\ e.reg = r /\ e.cap = c /\ e.status = "pass" /\ e.at <= at /\ at < e.expires
         /\ \A f \in evidence \ {e} : f.reg = r /\ f.cap = c => f.at < e.at \/ f.at > at
    /\ \/ row[r].trust = "trusted"
       \/ \E n \in 1..Len(trusts[r]) : ~trusts[r][n].forged /\ trusts[r][n].at <= at

\* execution_binding_enablement_markers: a binding is not valid again once its
\* provider has been disabled, though it is enabled again in the same instant.
BindingOfThisInterval == running => \A b \in ended, at \in Times : bound[b] # None => ~Valid(b, at)

\* upgrade_stamped_registry_guards_fenced: no binding that was there while a
\* guard was not current is valid in an open store.
RepairBarsOldBindings == running => \A b \in unproven, at \in Times : ~Valid(b, at)

\* admit_trust: a decision stands for one revision, however often it is sent.
DecisionsOnce ==
  running => \A r \in Registrations : \A m, n \in 1..Len(trusts[r]) :
    trusts[r][m].decision = trusts[r][n].decision => m = n
=============================================================================

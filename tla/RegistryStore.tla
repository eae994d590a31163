----------------------------- MODULE RegistryStore -----------------------------
(***************************************************************************)
(* The semantic registry store: immutable snapshots of contracts, the      *)
(* one-way state of their admission, scoped defaults under compare-and-    *)
(* swap, and the repair fence.  Triggers of the database guard the one-way *)
(* rules; a store written by an earlier build may lack some of them, and   *)
(* what was written meanwhile cannot be told from what the rules allow.    *)
(* The next startup installs the guards again and fences what it found.    *)
(***************************************************************************)
EXTENDS Naturals, FiniteSets

CONSTANTS
  Snapshots, Scopes, Decisions,
  Contracts,      \* content hashes of contracts
  ContractsOf,    \* the contracts a snapshot's manifest lists
  MaxFence,       \* repairs
  MaxRevision,    \* activations of a scope
  MaxOutside      \* writes from outside while no manager runs

None == "none"

\* What the instances have to satisfy.
RegistryAssumption ==
  /\ ContractsOf \in [Snapshots -> SUBSET Contracts \ {{}}]
  /\ None \notin Snapshots
  /\ MaxFence \in Nat /\ MaxRevision \in Nat /\ MaxOutside \in Nat

States == {"ADMITTED", "DEPRECATED", "QUARANTINED", "REVOKED"}
Terminal == {"QUARANTINED", "REVOKED"}

\* SEMANTIC_ADDITIVE_GUARDS, by what they keep from happening
Guards == {"one_way", "immutable", "monotonic"}
FenceGuards == {"ledger"}

VARIABLES
  running,      \* a manager holds the lease and has opened the store
  stamps,       \* schema_migrations: "0012" and "0014"
  guards,       \* triggers that are installed
  state,        \* registry_snapshot_admissions
  bytes,        \* stored contracts: "absent", "good", "bad"
  terminal,     \* semantic_terminal_admissions
  unprovable,   \* semantic_legacy_unprovable_admissions
  fence,        \* MAX(generation) of semantic_repair_fences
  receipts,     \* semantic_snapshot_reattestations
  act,          \* registry_activations
  scopes,       \* semantic_activation_scope_history
  invalid,      \* semantic_invalidated_activation_scopes
  barred,       \* semantic_legacy_activation_quarantine
  opened,       \* snapshot that the running call has verified
  outside,      \* writes from outside so far
  contained,    \* history: snapshots that were quarantined or revoked
  suspect,      \* history: snapshots admitted before a guard was last missing, not decided on since
  given         \* history: what the revisions of a scope stood for

dbvars == <<state, bytes, terminal, unprovable, fence, receipts, act, scopes, invalid, barred>>
history == <<contained, suspect, given>>
vars == <<running, stamps, guards, dbvars, opened, outside, history>>

TypeOK ==
  /\ running \in BOOLEAN /\ barred \in BOOLEAN
  /\ stamps \in SUBSET {"0012", "0014"} /\ guards \in SUBSET (Guards \cup FenceGuards)
  /\ state \in [Snapshots -> States \cup {None}]
  /\ bytes \in [Contracts -> {"absent", "good", "bad"}]
  /\ terminal \subseteq Snapshots /\ unprovable \subseteq Snapshots
  /\ fence \in 0..MaxFence /\ outside \in 0..MaxOutside
  /\ \A r \in receipts : r.snap \in Snapshots /\ r.fence \in 1..MaxFence
  /\ act \in [Scopes -> [snap : Snapshots \cup {None}, rev : 0..MaxRevision]]
  /\ scopes \subseteq Scopes /\ invalid \subseteq Scopes
  /\ opened \in Snapshots \cup {None}

-----------------------------------------------------------------------------
(* Reading. *)

\* semantic_current_usable_snapshots
Usable ==
  {s \in Snapshots : /\ state[s] \in {"ADMITTED", "DEPRECATED"}
                     /\ s \notin terminal /\ s \notin unprovable
                     /\ fence = 0 \/ \E r \in receipts : r.snap = s /\ r.fence = fence}

\* open_snapshot_from_connection: the entries are the manifest's, and each
\* stored contract hashes to the entry's hash.
Opens(s) == state[s] # None /\ \A c \in ContractsOf[s] : bytes[c] = "good"

\* activation_pointer
Pointer(sc) == act[sc]

\* default_snapshot_with_interleave, in one read transaction
DefaultSnapshot(sc) ==
  IF /\ Pointer(sc).snap # None
     /\ ~barred /\ sc \notin invalid
     /\ Pointer(sc).snap \in Usable /\ state[Pointer(sc).snap] = "ADMITTED"
     /\ Opens(Pointer(sc).snap)
  THEN Pointer(sc) ELSE [snap |-> None, rev |-> 0]

-----------------------------------------------------------------------------
(* Opening the store. *)

\* preflight_admission_guards
GuardsCurrent == Guards \subseteq guards

\* semantic_fence_objects_current: the fence's data agree.
FenceDataAgree == \A s \in Snapshots : state[s] \in Terminal => s \in terminal
ScopesAgree == \A sc \in Scopes : act[sc].snap # None => sc \in scopes

\* preflight_store_migration: all stamped objects are as they are defined.
Preflight ==
  stamps = {"0012", "0014"} => GuardsCurrent /\ FenceGuards \subseteq guards /\ FenceDataAgree /\ ScopesAgree

\* The part of preflight_migration_state_allowing_guard_upgrade about these
\* objects: only additive guards may be missing.
UpgradeAllowed == "0014" \in stamps => FenceGuards \subseteq guards /\ FenceDataAgree /\ ScopesAgree

Missing(gs) == ~(gs \subseteq guards)

\* Mutant: the rows of an unguarded store are taken as they are.
BootstrapTrusting ==
  /\ terminal' = {s \in Snapshots : state[s] \in Terminal}
  /\ scopes' = {sc \in Scopes : act[sc].snap # None}
  /\ unprovable' = {} /\ barred' = Missing({"monotonic"})

\* 0014 on a stamped 0012 store: the ledgers are copied from the rows, and
\* what was not guarded is marked as unprovable.
Bootstrap ==
  /\ terminal' = {s \in Snapshots : state[s] \in Terminal}
  /\ scopes' = {sc \in Scopes : act[sc].snap # None}
  /\ unprovable' = IF Missing({"one_way"}) THEN {s \in Snapshots : state[s] # None} ELSE {}
  /\ barred' = Missing({"monotonic"})

\* A missing guard: a new generation, and no activated scope is used again.
Repair ==
  fence < MaxFence /\ fence' = fence + 1 /\ invalid' = invalid \cup scopes'

\* upgrade_stamped_registry_guards_fenced, the semantic part
Upgrade ==
  /\ "0012" \in stamps /\ UpgradeAllowed
  /\ IF "0014" \in stamps THEN UNCHANGED <<terminal, scopes, unprovable, barred>> ELSE Bootstrap
  /\ IF Missing(Guards) THEN Repair ELSE UNCHANGED <<fence, invalid>>
  /\ guards' = Guards \cup FenceGuards
  /\ stamps' = {"0012", "0014"}

\* TaskManager::initialize: upgrade if there is something to upgrade.
Startup ==
  /\ ~running
  /\ \/ Upgrade
     \/ stamps = {} /\ UNCHANGED <<stamps, guards, terminal, scopes, unprovable, barred, fence, invalid>>
  /\ UNCHANGED <<state, bytes, receipts, act, opened, outside, history>>
  /\ Preflight'
  /\ running' = TRUE

\* migrate_registry_schema on a store without a registry
Install ==
  /\ running /\ stamps = {}
  /\ stamps' = {"0012", "0014"} /\ guards' = Guards \cup FenceGuards
  /\ UNCHANGED <<running, dbvars, opened, outside, history>>

\* The manager ends, also in the middle of a call.
Stop ==
  /\ running /\ running' = FALSE /\ opened' = None
  /\ UNCHANGED <<stamps, guards, dbvars, outside, history>>

-----------------------------------------------------------------------------
(* Operations of the running manager; its fence is verified in each. *)

Ready == running /\ stamps = {"0012", "0014"}

\* insert_contract, insert_entry: a contract that is stored must be sound.
Inserts(s) == \A c \in ContractsOf[s] : bytes[c] # "bad"

Reads(s) == /\ opened = None /\ opened' = s
            /\ Ready /\ Opens(s)
            /\ UNCHANGED <<running, stamps, guards, dbvars, outside, history>>

\* admit_registry: of a new snapshot, with a receipt of its own, or again
AdmitRegistry(s) ==
  /\ Ready /\ opened = None /\ Inserts(s)
  /\ bytes' = [c \in Contracts |-> IF c \in ContractsOf[s] THEN "good" ELSE bytes[c]]
  /\ state' = [state EXCEPT ![s] = IF @ = None THEN "ADMITTED" ELSE @]
  /\ receipts' = receipts \cup
       (IF state[s] = None /\ fence > 0 THEN {[snap |-> s, fence |-> fence, by |-> "admission"]} ELSE {})
  /\ UNCHANGED <<running, stamps, guards, terminal, unprovable, fence, act, scopes, invalid, barred, opened, outside, history>>

\* semantic_snapshot_reattestation_current_only
Reattestable(s) == state[s] \in {"ADMITTED", "DEPRECATED"} /\ s \notin terminal /\ s \notin unprovable

\* reattest_snapshot: one decision per generation, repeated or refused
ReattestSnapshot(s, d) ==
  /\ Ready /\ opened = None /\ Opens(s)
  /\ state[s] \in {"ADMITTED", "DEPRECATED"} /\ fence > 0
  /\ \A r \in receipts : r.snap = s /\ r.fence = fence => r.by = d
  /\ (\E r \in receipts : r.snap = s /\ r.fence = fence) \/ Reattestable(s)
  /\ receipts' = receipts \cup {[snap |-> s, fence |-> fence, by |-> d]}
  /\ suspect' = suspect \ {s}
  /\ UNCHANGED <<running, stamps, guards, state, bytes, terminal, unprovable, fence, act, scopes, invalid, barred,
                 opened, outside, contained, given>>

\* set_snapshot_state: no way back, also by the guard
Narrows(from, to) ==
  CASE from = "ADMITTED" -> TRUE
    [] from = "DEPRECATED" -> to # "ADMITTED"
    [] from = "QUARANTINED" -> to \in Terminal
    [] from = "REVOKED" -> to = "REVOKED"
    [] OTHER -> FALSE

\* The trigger that keeps the ledger, with the update of the row
SetRow(s, st) ==
  /\ state' = [state EXCEPT ![s] = st]
  /\ terminal' = IF st \in Terminal THEN terminal \cup {s} ELSE terminal
  /\ contained' = IF st \in Terminal THEN contained \cup {s} ELSE contained

\* A damaged snapshot must still be containable.
SetSnapshotState(s, st) ==
  /\ Ready /\ opened = IF st \in Terminal THEN None ELSE s
  /\ Narrows(state[s], st) /\ SetRow(s, st)
  /\ opened' = None
  /\ UNCHANGED <<running, stamps, guards, bytes, unprovable, fence, receipts, act, scopes, invalid, barred, outside, suspect, given>>

\* semantic_repair_activation_insert and _update
ActivationGuard(sc) == ~barred /\ sc \notin invalid

\* activate_default, compared with the revision the caller expects
ActivateDefault(sc, expected, s) ==
  /\ Ready /\ opened = s /\ opened' = None
  /\ s \in Usable /\ state[s] = "ADMITTED" /\ ActivationGuard(sc)
  /\ act[sc].rev = expected /\ expected < MaxRevision
  /\ act' = [act EXCEPT ![sc] = [snap |-> s, rev |-> @.rev + 1]]
  /\ scopes' = scopes \cup {sc}
  /\ given' = [given EXCEPT ![sc] = @ \cup {act'[sc]}]
  /\ UNCHANGED <<running, stamps, guards, state, bytes, terminal, unprovable, fence, receipts, invalid, barred, outside, contained, suspect>>

\* A call whose check fails in the transaction returns.
GiveUp ==
  /\ opened # None /\ opened' = None
  /\ UNCHANGED <<running, stamps, guards, dbvars, outside, history>>

-----------------------------------------------------------------------------
(* Outside: an earlier build, or writes the guards do not stop. *)

Write == ~running /\ outside < MaxOutside /\ outside' = outside + 1 /\ UNCHANGED <<running, stamps, opened>>

\* An earlier build's 0012 store before 0014: admission, containment, activation
EarlierBuild(s, sc) ==
  /\ stamps = {"0012"} /\ Write
  /\ \/ /\ state[s] = None
        /\ state' = [state EXCEPT ![s] = "ADMITTED"]
        /\ bytes' = [c \in Contracts |-> IF c \in ContractsOf[s] THEN "good" ELSE bytes[c]]
        /\ UNCHANGED <<act, contained, given>>
     \/ /\ state[s] \in {"ADMITTED", "DEPRECATED"}
        /\ state' = [state EXCEPT ![s] = "REVOKED"] /\ contained' = contained \cup {s}
        /\ UNCHANGED <<bytes, act, given>>
     \/ /\ state[s] = "ADMITTED" /\ act[sc].rev < MaxRevision
        /\ act' = [act EXCEPT ![sc] = [snap |-> s, rev |-> @.rev + 1]]
        /\ given' = [given EXCEPT ![sc] = @ \cup {act'[sc]}]
        /\ UNCHANGED <<state, bytes, contained>>
  /\ UNCHANGED <<guards, terminal, unprovable, fence, receipts, scopes, invalid, barred, suspect>>

LoseGuard(g) ==
  /\ g \in guards /\ Write /\ guards' = guards \ {g}
  /\ suspect' = IF g \in Guards THEN {s \in Snapshots : state[s] # None} ELSE suspect
  /\ UNCHANGED <<dbvars, contained, given>>

\* What a missing guard lets through
Rewind(s) ==
  /\ "0012" \in stamps /\ "one_way" \notin guards /\ state[s] # None /\ Write
  /\ state' = [state EXCEPT ![s] = "ADMITTED"]
  /\ UNCHANGED <<guards, bytes, terminal, unprovable, fence, receipts, act, scopes, invalid, barred, history>>

RewindActivation(sc, s, r) ==
  /\ "0012" \in stamps /\ "monotonic" \notin guards /\ act[sc].snap # None /\ state[s] # None /\ Write
  /\ act' = [act EXCEPT ![sc] = [snap |-> s, rev |-> r]]
  /\ UNCHANGED <<guards, state, bytes, terminal, unprovable, fence, receipts, scopes, invalid, barred, history>>

Spoil(c) ==
  /\ "0012" \in stamps /\ "immutable" \notin guards /\ bytes[c] = "good" /\ Write
  /\ bytes' = [bytes EXCEPT ![c] = "bad"]
  /\ UNCHANGED <<guards, state, terminal, unprovable, fence, receipts, act, scopes, invalid, barred, history>>

\* With the ledger's guard gone too, a row of it can be deleted.
Forget(s) ==
  /\ "0014" \in stamps /\ "ledger" \notin guards /\ s \in terminal /\ Write
  /\ terminal' = terminal \ {s}
  /\ UNCHANGED <<guards, state, bytes, unprovable, fence, receipts, act, scopes, invalid, barred, history>>

-----------------------------------------------------------------------------
\* A new store, or one of an earlier build
Init ==
  /\ running = FALSE /\ opened = None /\ outside = 0
  /\ stamps \in {{}, {"0012"}}
  /\ guards = IF stamps = {} THEN {} ELSE Guards
  /\ state = [s \in Snapshots |-> None] /\ bytes = [c \in Contracts |-> "absent"]
  /\ terminal = {} /\ unprovable = {} /\ fence = 0 /\ receipts = {}
  /\ act = [sc \in Scopes |-> [snap |-> None, rev |-> 0]]
  /\ scopes = {} /\ invalid = {} /\ barred = FALSE
  /\ contained = {} /\ suspect = {} /\ given = [sc \in Scopes |-> {}]

Next ==
  \/ Startup \/ Install \/ Stop \/ GiveUp
  \/ \E s \in Snapshots :
       \/ AdmitRegistry(s) \/ Reads(s)
       \/ \E d \in Decisions : ReattestSnapshot(s, d)
       \/ \E st \in States : SetSnapshotState(s, st)
       \/ \E sc \in Scopes, r \in 0..MaxRevision : ActivateDefault(sc, r, s)
       \/ \E sc \in Scopes : EarlierBuild(s, sc)
       \/ Rewind(s) \/ Forget(s)
       \/ \E sc \in Scopes, r \in 1..MaxRevision : RewindActivation(sc, s, r)
  \/ \E g \in Guards \cup FenceGuards : LoseGuard(g)
  \/ \E c \in Contracts : Spoil(c)

Spec == Init /\ [][Next]_vars

-----------------------------------------------------------------------------
\* A snapshot that was once quarantined or revoked is never used again by a
\* running manager, even if its row was set back while a guard was missing.
ContainedStaysContained == running => Usable \cap contained = {}

\* After a repair a snapshot is used only by a decision made since: neither an
\* old receipt nor a repeated admission carries it over the fence.
RepairNeedsDecision == running => Usable \cap suspect = {}

\* A default a manager gives out is one that was activated with its revision:
\* a revision that was rolled back never stands for another snapshot.
RevisionsNeverReused ==
  running => \A sc \in Scopes : DefaultSnapshot(sc).snap # None => DefaultSnapshot(sc) \in given[sc]
               /\ \A a \in given[sc] : a.rev <= DefaultSnapshot(sc).rev

\* What was decided before guards were lost holds after the repair: nothing
\* contained, nothing undecided and no reused revision comes back.
RepairKeepsDecisions == ContainedStaysContained /\ RepairNeedsDecision /\ RevisionsNeverReused

=============================================================================

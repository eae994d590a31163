------------------------------ MODULE MCStores ------------------------------
(***************************************************************************)
(* Scenes of the stores for TLC.  A run plays the scenes named by Scenes,  *)
(* one behaviour one scene: a journal that is only appended to and one     *)
(* that is damaged, processes that open a store of an earlier build, and   *)
(* the provider registry.  The journal is the module's own variables and   *)
(* constants, of the scene "journal_log"; the other components are         *)
(* instances.                                                              *)
(***************************************************************************)
EXTENDS ProvenanceJournal, TLC

CONSTANTS
  Scenes,  \* the scenes this run plays
  e1, e2, e3

VARIABLES
  scene,   \* the scene that is played
  \* SchemaMigration
  db, lease, pc, held, probe, fk, opens, crashes, schemaDamage, planted, tampered, before,
  \* ProviderStore
  running, guard, usable, row, epochs, trusts, evidence, health, bound, barred, call, outside,
  revoked, ended, unproven

Request(out, task, found, result) ==
  [out |-> out, task |-> task, evidence |-> found, result |-> result]

\* An undecided request, a rejected one, and a committed one with and without
\* its result and its evidence.
AnyRequest ==
  {Request("PENDING", task, "none", "none") : task \in BOOLEAN}
  \cup {Request("REJECTED", TRUE, "none", "TASK_STORAGE_FAILURE")}
  \cup {Request("COMMITTED", TRUE, found, "none") : found \in {"none", "conflicting", "matching"}}
  \cup {Request("COMMITTED", TRUE, "matching", "APPLIED")}
AnyRows == [{"t1"} -> AnyRequest]

\* An undecided and a rejected request.
FewRows ==
  [{"t1"} -> {Request("PENDING", TRUE, "none", "none"), Request("REJECTED", TRUE, "none", "TASK_STORAGE_FAILURE")}]

-----------------------------------------------------------------------------
Journal == INSTANCE ProvenanceJournal WITH Tasks <- {"t1"}, PageSize <- 2, MaxDamage <- 1
Opens == INSTANCE SchemaMigration WITH Processes <- {"p1", "p2"}, Transitions <- {"t1"},
  Rows <- FewRows, MaxOpens <- 2, MaxCrashes <- 1, MaxDamage <- 0, damage <- schemaDamage
SchemaDamage == INSTANCE SchemaMigration WITH Processes <- {"p1"}, Transitions <- {"t1"},
  Rows <- AnyRows, MaxOpens <- 2, MaxCrashes <- 0, MaxDamage <- 1, damage <- schemaDamage
Providers == INSTANCE ProviderStore WITH Registrations <- {"r1"}, Capabilities <- {"c1"},
  Snapshots <- {"s1"}, EvidenceIds <- {"e1", "e2"}, Decisions <- {"d1"}, Bindings <- {"b1"},
  BuildOf <- [r \in {"r1"} |-> "build"], Claims <- [r \in {"r1"} |-> {"c1"}],
  OriginOf <- [r \in {"r1"} |-> "s1"], Offers <- [s \in {"s1"} |-> {"c1"}], MaxTime <- 2,
  HealthTimes <- {}, MaxEpochs <- 4, MaxTrust <- 1, MaxOutside <- 0
ProvidersRepair == INSTANCE ProviderStore WITH Registrations <- {"r1"}, Capabilities <- {"c1"},
  Snapshots <- {"s1"}, EvidenceIds <- {"e1"}, Decisions <- {"d1"}, Bindings <- {"b1"},
  BuildOf <- [r \in {"r1"} |-> "build"], Claims <- [r \in {"r1"} |-> {"c1"}],
  OriginOf <- [r \in {"r1"} |-> "s1"], Offers <- [s \in {"s1"} |-> {"c1"}], MaxTime <- 2,
  HealthTimes <- {}, MaxEpochs <- 3, MaxTrust <- 1, MaxOutside <- 3
ProvidersClaims == INSTANCE ProviderStore WITH Registrations <- {"r1"},
  Capabilities <- {"c1", "c2"}, Snapshots <- {"s1"}, EvidenceIds <- {"e1", "e2"},
  Decisions <- {"d1", "d2"}, Bindings <- {}, BuildOf <- [r \in {"r1"} |-> "build"],
  Claims <- [r \in {"r1"} |-> {"c1", "c2"}], OriginOf <- [r \in {"r1"} |-> "s1"],
  Offers <- [s \in {"s1"} |-> {"c1", "c2"}], MaxTime <- 2, HealthTimes <- {2}, MaxEpochs <- 1,
  MaxTrust <- 2, MaxOutside <- 0

ASSUME JournalAssumption
ASSUME Journal!JournalAssumption
ASSUME Providers!ProviderAssumption
ASSUME ProvidersRepair!ProviderAssumption
ASSUME ProvidersClaims!ProviderAssumption

schemaVars == <<db, lease, pc, held, probe, fk, opens, crashes, schemaDamage, planted, tampered,
  before>>
providerVars == <<running, guard, usable, row, epochs, trusts, evidence, health, bound, barred,
  call, outside, revoked, ended, unproven>>
sceneVars == <<scene, vars, schemaVars, providerVars>>

\* The variables of a component that has no part in the scene.
Off == "off"
SchemaOff == db = Off /\ lease = Off /\ pc = Off /\ held = Off /\ probe = Off /\ fk = Off /\
  opens = Off /\ crashes = Off /\ schemaDamage = Off /\ planted = Off /\ tampered = Off /\
  before = Off
ProviderOff == running = Off /\ guard = Off /\ usable = Off /\ row = Off /\ epochs = Off /\
  trusts = Off /\ evidence = Off /\ health = Off /\ bound = Off /\ barred = Off /\ call = Off /\
  outside = Off /\ revoked = Off /\ ended = Off /\ unproven = Off

SceneInit ==
  /\ scene \in Scenes
  /\ \/ scene = "journal_log" /\ Init /\ SchemaOff /\ ProviderOff
     \/ scene = "journal" /\ Journal!Init /\ SchemaOff /\ ProviderOff
     \/ scene = "schema_opens" /\ Opens!Init /\ Init /\ ProviderOff
     \/ scene = "schema_damage" /\ SchemaDamage!Init /\ Init /\ ProviderOff
     \/ scene = "providers" /\ Providers!Init /\ Init /\ SchemaOff
     \/ scene = "providers_repair" /\ ProvidersRepair!Init /\ Init /\ SchemaOff
     \/ scene = "providers_claims" /\ ProvidersClaims!Init /\ Init /\ SchemaOff

SceneNext ==
  \/ scene = "journal_log" /\ Next /\ UNCHANGED <<scene, schemaVars, providerVars>>
  \/ scene = "journal" /\ Journal!Next /\ UNCHANGED <<scene, schemaVars, providerVars>>
  \/ scene = "schema_opens" /\ Opens!Next /\ UNCHANGED <<scene, vars, providerVars>>
  \/ scene = "schema_damage" /\ SchemaDamage!Next /\ UNCHANGED <<scene, vars, providerVars>>
  \/ scene = "providers" /\ Providers!Next /\ UNCHANGED <<scene, vars, schemaVars>>
  \/ scene = "providers_repair" /\ ProvidersRepair!Next /\ UNCHANGED <<scene, vars, schemaVars>>
  \/ scene = "providers_claims" /\ ProvidersClaims!Next /\ UNCHANGED <<scene, vars, schemaVars>>

SceneSpec == SceneInit /\ [][SceneNext]_sceneVars

-----------------------------------------------------------------------------
\* A store that nobody edited is never refused, whatever stopped the opens
\* before, and what opens is complete and adopted nothing.
OpensSoundly ==
  /\ scene = "schema_opens" => Opens!NeverBricked
  /\ scene = "schema_damage" => SchemaDamage!TypeOK
  /\ scene = "schema_damage" => SchemaDamage!OpenedIsComplete
  /\ scene = "schema_damage" => SchemaDamage!NothingAdopted

\* An upgrade rebuilds what it probed, although other processes open the
\* store meanwhile; a refused open leaves the records as they were, and no
\* receipt says more than the journal.
UpgradesKeepRecords ==
  [][/\ scene = "schema_opens" => Opens!ProbeStillTrue
     /\ scene = "schema_opens" => Opens!ReceiptsFollowJournal
     /\ scene = "schema_damage" => SchemaDamage!RefusalKeepsRecords
     /\ scene = "schema_damage" => SchemaDamage!ReceiptsFollowJournal]_sceneVars

\* No candidate without current proof and trust, nobody revoked comes back,
\* and a binding is of the interval it was admitted in, also after a repair.
ProvidersAreProven ==
  /\ scene = "providers" => Providers!TypeOK
  /\ scene = "providers" => Providers!RevokedStaysOut
  /\ scene = "providers" => Providers!CandidatesAreProven
  /\ scene = "providers" => Providers!BindingOfThisInterval
  /\ scene = "providers_repair" => ProvidersRepair!RevokedStaysOut
  /\ scene = "providers_repair" => ProvidersRepair!CandidatesAreProven
  /\ scene = "providers_repair" => ProvidersRepair!RepairBarsOldBindings
  /\ scene = "providers_claims" => ProvidersClaims!CandidatesAreProven
  /\ scene = "providers_claims" => ProvidersClaims!DecisionsOnce

\* Event ids are interchangeable.
Symmetry == Permutations({e1, e2, e3})

=============================================================================

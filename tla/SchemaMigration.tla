--------------------------- MODULE SchemaMigration ---------------------------
(***************************************************************************)
(* Opening a Task Manager store: preflight, lease claim, guard upgrade,    *)
(* second preflight, baseline script, core migration, and the optional     *)
(* registry schemas installed afterwards.  Each is one SQLite transaction  *)
(* (or a read); a process may die, and a newer process may take the lease, *)
(* between any two.                                                        *)
(***************************************************************************)
EXTENDS Naturals, FiniteSets, Sequences

CONSTANTS Processes,     \* processes that open the store
          Transitions,   \* rows of task_transitions
          Rows,          \* contents earlier binaries may have left in them
          MaxOpens, MaxCrashes, MaxDamage   \* bounds of the instance

VARIABLES db,            \* the database file, committed content
          lease,         \* task_manager_lease; epoch 0 when the table is absent
          pc,            \* per process: what initialize does next
          held,          \* per process: the epoch it claimed
          probe,         \* per process: what migrate_... saw before BEGIN IMMEDIATE
          fk,            \* per connection: PRAGMA foreign_keys
          opens, crashes, damage,
          planted,       \* history: objects that were in the file without their stamp
          tampered,      \* history: an outsider has damaged the file
          before         \* history, per process: the file when this open began

vars == <<db, lease, pc, held, probe, fk, opens, crashes, damage, planted, tampered, before>>

(* Migrations the open procedure applies, in order (0010 belongs to the    *)
(* Artifact Store; 0012-0014 are optional).                                *)
Core == <<"0001", "0002", "0003", "0004", "0005", "0006", "0007", "0008", "0009",
          "0011", "0015", "0016", "0017", "0018", "0019", "0020", "0021", "0022">>
CoreSet == {Core[i] : i \in DOMAIN Core}
Optional == {"0012", "0013", "0014"}
Migrations == CoreSet \cup Optional
Tables == {"0001", "0002", "0003", "0005", "0008"}    \* tables of persistence-v0.1.sql
Baseline == Tables \cup {"0004"}
Shapes == {"0006", "0007", "0009", "0011"}            \* columns, keys and triggers
Exact == {"0014", "0015", "0016", "0017", "0018", "0019", "0020", "0021", "0022"}

(* What can be wrong with the rows of a store.                             *)
Flaws == {"integrity", "steps", "orphan_event", "chain", "basis", "publications",
          "marker_rows", "receipt_rows", "deadline_rows"}

Row == [out : {"PENDING", "COMMITTED", "REJECTED"}, task : BOOLEAN,
        evidence : {"none", "conflicting", "matching"},
        result : {"none", "TASK_STORAGE_FAILURE", "TASK_NOT_FOUND", "APPLIED"}]

Objects == {"absent", "old", "current", "other"}
Guards == {"absent", "partial", "unclocked", "current", "unprovable", "other"}
NoProbe == [transitions |-> FALSE, operations |-> FALSE, challenges |-> FALSE, provenance |-> FALSE]

DB == [stamps : SUBSET Migrations, badsum : SUBSET Migrations, newer : BOOLEAN,
       unversioned : BOOLEAN, obj : [Migrations -> Objects],
       guards : [{"0012", "0013"} -> Guards], transitionFK : BOOLEAN,
       flaws : SUBSET Flaws, enabled : BOOLEAN, tr : [Transitions -> Row]]

-----------------------------------------------------------------------------
(* Preflight.                                                              *)

HasMigrations(d) == ~d.unversioned /\ d.obj["0001"] # "absent"
Stamped(d, m) == m \in d.stamps

(* Unversioned tables: nothing, or the lease table alone, is a new store.  *)
UnversionedAccepted(d) == ~d.unversioned

KnownMigrations(d) == ~d.newer
VerifyMigrationChecksum(d, m) == m \notin d.badsum
ChecksumsMatch(d) == \A m \in d.stamps : VerifyMigrationChecksum(d, m)
BaselineStamped(d) == Stamped(d, "0001")

(* PRAGMA integrity_check, and the tables every stamp promises.            *)
RequireMigrationTables(d, m) == Stamped(d, m) => d.obj[m] = "current"
TablesPresent(d) ==
    /\ "integrity" \notin d.flaws
    /\ \A m \in Tables : RequireMigrationTables(d, m)

(* The objects of an exact migration are there, word for word, if and only *)

ExactIffStamped(d, m) == d.obj[m] = IF Stamped(d, m) THEN "current" ELSE "absent"

AuthorityFenceCurrent(d) == ExactIffStamped(d, "0015")
CandidateObjectsCurrent(d) == ExactIffStamped(d, "0016")
PolicyObjectsCurrent(d) == ExactIffStamped(d, "0017")
TrustedTimeCurrent(d) == ExactIffStamped(d, "0018")
InflightRowsCoherent(d) == "marker_rows" \notin d.flaws
InflightCurrent(d) ==
    /\ ExactIffStamped(d, "0019")
    /\ Stamped(d, "0019") => InflightRowsCoherent(d)
PlacementReceiptsCurrent(d) ==
    /\ ExactIffStamped(d, "0020")
    /\ Stamped(d, "0020") => Stamped(d, "0019") /\ "receipt_rows" \notin d.flaws
GrantDeadlineObjects(d) == ExactIffStamped(d, "0021")
GrantDeadlineRows(d) == "deadline_rows" \notin d.flaws
GrantDeadlinesCurrent(d) ==
    /\ GrantDeadlineObjects(d)
    /\ Stamped(d, "0021") => /\ {"0015", "0018"} \subseteq d.stamps
                             /\ GrantDeadlineRows(d)
ExactExportCurrent(d) == ExactIffStamped(d, "0022")

ExactObjectsCurrent(d) ==
    /\ AuthorityFenceCurrent(d)
    /\ CandidateObjectsCurrent(d)
    /\ PolicyObjectsCurrent(d)
    /\ TrustedTimeCurrent(d)
    /\ InflightCurrent(d)
    /\ PlacementReceiptsCurrent(d)
    /\ GrantDeadlinesCurrent(d)
    /\ ExactExportCurrent(d)

(* Columns, keys and triggers that 0006, 0007, 0009 and 0011 introduced.   *)
ShapesComplete(d) == \A m \in Shapes : Stamped(d, m) => d.obj[m] = "current"

(* Guards added to 0012 and 0013 after their first release: none without   *)
(* the stamp; with it, all of them when strict is TRUE, and otherwise any  *)
(* subset of the current or recognised older ones.                         *)
RecognisedOlder == {"partial", "unclocked", "unprovable"}
AdditiveGuardsCurrent(d, m, strict) ==
    IF ~Stamped(d, m) THEN d.guards[m] = "absent"
    ELSE d.guards[m] \in {"current"} \cup IF strict THEN {} ELSE RecognisedOlder

SemanticStoreCurrent(d, strict) ==
    /\ Stamped(d, "0012") => d.obj["0012"] = "current"
    /\ AdditiveGuardsCurrent(d, "0012", strict)
    /\ Stamped(d, "0014") => Stamped(d, "0012")
    /\ ExactIffStamped(d, "0014")

AdditiveTablesCurrent(d) == Stamped(d, "0013") \/ d.obj["0013"] = "absent"

ProviderStoreCurrent(d, strict) ==
    /\ AdditiveTablesCurrent(d)
    /\ Stamped(d, "0013") => Stamped(d, "0012") /\ d.obj["0013"] = "current"
    /\ AdditiveGuardsCurrent(d, "0013", strict)

EventsOwned(d) == Stamped(d, "0011") => "orphan_event" \notin d.flaws
StepAttemptsUnique(d) == "steps" \notin d.flaws

PreflightWithMode(d, strict) ==
    IF ~HasMigrations(d) THEN UnversionedAccepted(d)
    ELSE /\ KnownMigrations(d)
         /\ ChecksumsMatch(d)
         /\ BaselineStamped(d)
         /\ TablesPresent(d)
         /\ ExactObjectsCurrent(d)
         /\ ShapesComplete(d)
         /\ SemanticStoreCurrent(d, strict)
         /\ ProviderStoreCurrent(d, strict)
         /\ EventsOwned(d)
         /\ StepAttemptsUnique(d)

ProviderHistoryProvable(d) == Stamped(d, "0013") => d.guards["0013"] # "unprovable"

PreflightAllowingGuardUpgrade(d) ==
    /\ PreflightWithMode(d, FALSE)
    /\ HasMigrations(d) => ProviderHistoryProvable(d)

PreflightMigrationState(d) == PreflightWithMode(d, TRUE)

-----------------------------------------------------------------------------
(* Guard upgrade of a stamped registry, one transaction.                   *)

NeedsSemanticUpgrade(d) == Stamped(d, "0012") /\ d.guards["0012"] # "current"
NeedsProviderUpgrade(d) == Stamped(d, "0013") /\ d.guards["0013"] # "current"
NeedsRepairFence(d) == Stamped(d, "0012") /\ ~Stamped(d, "0014")
NeedsUpgrade(d) ==
    HasMigrations(d) /\ (NeedsSemanticUpgrade(d) \/ NeedsProviderUpgrade(d) \/ NeedsRepairFence(d))

UpgradeAllowed(d) ==
    /\ ProviderHistoryProvable(d)
    /\ NeedsRepairFence(d) => d.obj["0014"] = "absent"

Upgraded(d) ==
    [d EXCEPT !.stamps = IF NeedsRepairFence(d) THEN @ \cup {"0014"} ELSE @,
              !.obj["0014"] = IF NeedsRepairFence(d) THEN "current" ELSE @,
              !.guards["0012"] = IF NeedsSemanticUpgrade(d) THEN "current" ELSE @,
              !.guards["0013"] = IF NeedsProviderUpgrade(d) THEN "current" ELSE @,
              !.enabled = IF NeedsProviderUpgrade(d) /\ d.guards["0013"] = "unclocked"
                          THEN FALSE ELSE @]

-----------------------------------------------------------------------------
(* The baseline script: CREATE ... IF NOT EXISTS, and the stamp 0001.      *)

BaselineAll(d) ==
    [d EXCEPT !.stamps = @ \cup {"0001", "0011"},
              !.obj = [m \in Migrations |->
                         IF m \in Baseline \cup Shapes /\ @[m] = "absent"
                         THEN "current" ELSE @[m]]]

BaselineApplied(d) ==
    [d EXCEPT !.stamps = @ \cup {"0001"},
              !.obj = [m \in Migrations |->
                         IF m \in Baseline \cup Shapes /\ @[m] = "absent"
                         THEN "current" ELSE @[m]]]

-----------------------------------------------------------------------------
(* The core migration.                                                     *)

ProvenanceRebuild(d) == d.obj["0011"] = "old"
OperationsRebuild(d) == ~Stamped(d, "0007") /\ d.obj["0007"] = "old"
Probed(d) == [transitions |-> d.transitionFK, operations |-> OperationsRebuild(d),
              challenges |-> d.obj["0008"] = "current", provenance |-> ProvenanceRebuild(d)]
ForeignKeyRebuild(f) == f.transitions \/ f.operations \/ f.provenance

RebuildTransitions(d, f) == [d EXCEPT !.transitionFK = IF f.transitions THEN FALSE ELSE @]

(* Every stream of the old table is verified inside the transaction.       *)
ProvenanceVerified(d, f) == f.provenance => "chain" \notin d.flaws
RebuildProvenance(d, f) == [d EXCEPT !.obj["0011"] = IF f.provenance THEN "current" ELSE @]

(* A recovery assessment whose Task is missing has no basis revision.      *)
BasisRevisionsKnown(d) == "basis" \notin d.flaws
AddColumns(d) == [d EXCEPT !.obj["0006"] = "current", !.obj["0009"] = "current"]

(* Renaming operations takes the challenges' foreign key along: the        *)
(* challenge table is copied too, or its references go with the old table. *)
RebuildOperations(d, f) == [d EXCEPT !.obj["0007"] = IF f.operations THEN "current" ELSE @]
ChallengesFollow(f) == f.operations => f.challenges

PublicationsUnique(d) == "publications" \notin d.flaws

RejectPending(r) ==
    IF r.out # "PENDING" THEN r
    ELSE [r EXCEPT !.out = "REJECTED",
                   !.result = IF r.task THEN "TASK_STORAGE_FAILURE" ELSE "TASK_NOT_FOUND"]
AwaitsResult(r) == r.out = "COMMITTED" /\ r.result = "none"

(* The result is rebuilt from the event the row names: it exists, every    *)
(* field agrees with the stored request, and its stream verifies that far. *)
EventFound(r) == r.evidence # "none"
EventMatches(r) == r.evidence = "matching"
StreamReaches(d, r) == r.task /\ "chain" \notin d.flaws

Reconstructible(d, r) ==
    AwaitsResult(r) => EventFound(r) /\ EventMatches(r) /\ StreamReaches(d, r)
ReconstructCommitted(r) == IF AwaitsResult(r) THEN [r EXCEPT !.result = "APPLIED"] ELSE r
ReconcilePendingTransitions(d) ==
    [d EXCEPT !.tr = [t \in Transitions |-> ReconstructCommitted(RejectPending(d.tr[t]))]]

ForeignKeysHold(d, f) == "orphan_event" \notin d.flaws /\ ChallengesFollow(f)

StampShapes(d) == [d EXCEPT !.stamps = @ \cup Baseline \cup Shapes]

(* Scripts 0015 to 0022: CREATE ... IF NOT EXISTS keeps what is there.     *)
ApplyScripts(d) ==
    [d EXCEPT !.stamps = @ \cup CoreSet,
              !.obj = [m \in Migrations |-> IF m \in CoreSet \cap Exact /\ @[m] = "absent"
                                            THEN "current" ELSE @[m]]]

MigrationAccepted(d, f) ==
    /\ ChecksumsMatch(d)
    /\ ProvenanceVerified(d, f)
    /\ BasisRevisionsKnown(d)
    /\ PublicationsUnique(d)
    /\ \A t \in Transitions : Reconstructible(d, d.tr[t])
    /\ ForeignKeysHold(d, f)
    /\ RebuildProvenance(d, f).obj["0011"] = "current"   \* append-only triggers

Migrated(d, f) ==
    ApplyScripts(StampShapes(ReconcilePendingTransitions(
        RebuildOperations(AddColumns(RebuildProvenance(RebuildTransitions(d, f), f)), f))))

-----------------------------------------------------------------------------
(* A process opens the store.                                              *)

Active(p) == pc[p] \notin {"closed", "quarantined", "stale", "open"}
Offline == \A p \in Processes : pc[p] \in {"closed", "quarantined", "stale"}
LeaseNotNewer(p) == lease.epoch >= held[p]

HoldsLease(p) == lease = [owner |-> p, epoch |-> held[p]]

Begin(p) ==
    /\ pc[p] \in {"closed", "quarantined", "stale"}
    /\ opens < MaxOpens
    /\ opens' = opens + 1
    /\ pc' = [pc EXCEPT ![p] = "preflight"]
    /\ before' = [before EXCEPT ![p] = db]
    /\ fk' = [fk EXCEPT ![p] = TRUE]
    /\ UNCHANGED <<db, lease, held, probe, crashes, damage, planted, tampered>>

Stop(p, why) ==
    /\ pc' = [pc EXCEPT ![p] = why]
    /\ UNCHANGED <<db, lease, held, probe, opens, crashes, damage, planted, tampered, before>>

FirstPreflight(p) ==
    /\ pc[p] = "preflight"
    /\ IF PreflightAllowingGuardUpgrade(db) THEN Stop(p, "claim") ELSE Stop(p, "quarantined")
    /\ UNCHANGED fk

Claim(p) ==
    /\ pc[p] = "claim"
    /\ lease' = [owner |-> p, epoch |-> lease.epoch + 1]
    /\ held' = [held EXCEPT ![p] = lease.epoch + 1]
    /\ pc' = [pc EXCEPT ![p] = "upgrade"]
    /\ UNCHANGED <<db, probe, fk, opens, crashes, damage, planted, tampered, before>>

UpgradeStampedRegistryGuards(p) ==
    /\ pc[p] = "upgrade"
    /\ \/ /\ ~NeedsUpgrade(db)
          /\ Stop(p, IF ProviderHistoryProvable(db) THEN "preflight2" ELSE "quarantined")
       \/ /\ NeedsUpgrade(db)
          /\ ~HoldsLease(p)
          /\ Stop(p, "stale")
       \/ /\ NeedsUpgrade(db)
          /\ HoldsLease(p)
          /\ ~(UpgradeAllowed(db) /\ PreflightMigrationState(Upgraded(db)))
          /\ Stop(p, "quarantined")
       \/ /\ NeedsUpgrade(db)
          /\ HoldsLease(p)
          /\ UpgradeAllowed(db) /\ PreflightMigrationState(Upgraded(db))
          /\ db' = Upgraded(db)
          /\ pc' = [pc EXCEPT ![p] = "preflight2"]
          /\ UNCHANGED <<lease, held, probe, opens, crashes, damage, planted, tampered, before>>
    /\ UNCHANGED fk

SecondPreflight(p) ==
    /\ pc[p] = "preflight2"
    /\ IF PreflightMigrationState(db) THEN Stop(p, "baseline") ELSE Stop(p, "quarantined")
    /\ UNCHANGED fk

(* The baseline script is not fenced: a superseded process may still run it. *)
ExecuteBaseline(p) ==
    /\ pc[p] = "baseline"
    /\ db' = BaselineApplied(db)
    /\ pc' = [pc EXCEPT ![p] = "probe"]
    /\ UNCHANGED <<lease, held, probe, fk, opens, crashes, damage, planted, tampered, before>>

ProbeSchema(p) ==
    /\ pc[p] = "probe"
    /\ probe' = [probe EXCEPT ![p] = Probed(db)]
    /\ fk' = [fk EXCEPT ![p] = ~ForeignKeyRebuild(Probed(db))]
    /\ pc' = [pc EXCEPT ![p] = "migrate"]
    /\ UNCHANGED <<db, lease, held, opens, crashes, damage, planted, tampered, before>>

(* BEGIN IMMEDIATE ... COMMIT or ROLLBACK, then foreign keys on again.     *)
MigrateTaskManagerSchema(p) ==
    /\ pc[p] = "migrate"
    /\ fk' = [fk EXCEPT ![p] = TRUE]
    /\ \/ ~HoldsLease(p) /\ Stop(p, "stale")
       \/ HoldsLease(p) /\ ~MigrationAccepted(db, probe[p]) /\ Stop(p, "quarantined")
       \/ /\ HoldsLease(p)
          /\ MigrationAccepted(db, probe[p])
          /\ db' = Migrated(db, probe[p])
          /\ pc' = [pc EXCEPT ![p] = "open"]
          /\ UNCHANGED <<lease, held, probe, opens, crashes, damage, planted, tampered, before>>

(* initialize_semantic_store, initialize_provider_store.                   *)
NoUnstampedRegistryObjects(d) ==
    \A m \in Optional : ~Stamped(d, m) =>
        d.obj[m] = "absent" /\ (m \in {"0012", "0013"} => d.guards[m] = "absent")

RegistryInstalled(d, provider) ==
    LET new == {"0012", "0014"} \cup IF provider THEN {"0013"} ELSE {}
    IN [d EXCEPT !.stamps = @ \cup new,
                 !.obj = [m \in Migrations |-> IF m \in new THEN "current" ELSE @[m]],
                 !.guards = [m \in {"0012", "0013"} |-> IF m \in new THEN "current" ELSE @[m]],
                 !.enabled = IF provider /\ ~Stamped(d, "0013") THEN FALSE ELSE @]

MigrateRegistrySchema(p, provider) ==
    /\ pc[p] = "open"
    /\ PreflightMigrationState(db)
    /\ HoldsLease(p)
    /\ NoUnstampedRegistryObjects(db)
    /\ PreflightMigrationState(RegistryInstalled(db, provider))
    /\ db' = RegistryInstalled(db, provider)
    /\ UNCHANGED <<lease, pc, held, probe, fk, opens, crashes, damage, planted, tampered, before>>

Close(p) ==
    /\ pc[p] = "open"
    /\ pc' = [pc EXCEPT ![p] = "closed"]
    /\ UNCHANGED <<db, lease, held, probe, fk, opens, crashes, damage, planted, tampered, before>>

(* The process dies; what it had committed stays, its connection is gone.  *)
Crash(p) ==
    /\ Active(p)
    /\ crashes < MaxCrashes
    /\ crashes' = crashes + 1
    /\ pc' = [pc EXCEPT ![p] = "closed"]
    /\ probe' = [probe EXCEPT ![p] = NoProbe]
    /\ UNCHANGED <<db, lease, held, fk, opens, damage, planted, tampered, before>>

-----------------------------------------------------------------------------
(* An outsider edits the file while no process has it.                     *)

Edit(d) ==
    /\ Offline
    /\ damage < MaxDamage
    /\ damage' = damage + 1
    /\ db' = d
    /\ tampered' = TRUE
    /\ UNCHANGED <<lease, pc, held, probe, fk, opens, crashes, before>>

DropStamp(m) ==
    /\ m \in db.stamps
    /\ planted' = IF m \in Exact \cup Optional THEN planted \cup {m} ELSE planted
    /\ Edit([db EXCEPT !.stamps = @ \ {m}, !.badsum = @ \ {m}])

PlantObjects(m) ==
    /\ m \in Exact \cup Optional
    /\ HasMigrations(db)
    /\ ~Stamped(db, m) /\ db.obj[m] = "absent"
    /\ planted' = planted \cup {m}
    /\ Edit([db EXCEPT !.obj[m] = "current"])

DamageObjects(m, o) ==
    /\ HasMigrations(db)
    /\ Stamped(db, m) /\ db.obj[m] = "current"
    /\ m = "0001" => o = "other"
    /\ Edit([db EXCEPT !.obj[m] = o])
    /\ UNCHANGED planted

DamageGuards(m, g) ==
    /\ Stamped(db, m)
    /\ Edit([db EXCEPT !.guards[m] = g])
    /\ UNCHANGED planted

DamageStamps(m) ==
    /\ HasMigrations(db)
    /\ \/ m \in db.stamps /\ Edit([db EXCEPT !.badsum = @ \cup {m}])
       \/ Edit([db EXCEPT !.newer = TRUE])
    /\ UNCHANGED planted

DropMigrationTable ==
    /\ HasMigrations(db)
    /\ Edit([db EXCEPT !.unversioned = TRUE])
    /\ UNCHANGED planted

DamageRows(flaw) ==
    /\ HasMigrations(db)
    /\ flaw \notin db.flaws
    /\ flaw = "marker_rows" => Stamped(db, "0019")
    /\ flaw = "receipt_rows" => Stamped(db, "0020")
    /\ flaw = "deadline_rows" => Stamped(db, "0021")
    /\ Edit([db EXCEPT !.flaws = @ \cup {flaw}])
    /\ UNCHANGED planted

Outsider ==
    \/ \E m \in Migrations : DropStamp(m) \/ PlantObjects(m) \/ DamageStamps(m)
    \/ \E m \in Migrations, o \in {"absent", "other"} : DamageObjects(m, o)
    \/ \E m \in {"0012", "0013"}, g \in {"partial", "unclocked", "unprovable", "other"} : DamageGuards(m, g)
    \/ \E flaw \in Flaws : DamageRows(flaw)
    \/ DropMigrationTable

-----------------------------------------------------------------------------
(* Stores earlier binaries left behind: the first n core migrations, the   *)
(* optional schemas once 0011 is there, the fence 0014 last.               *)
Prefix(n) == {Core[i] : i \in 1..n}
OptionalSets(n) ==
    IF n < 10 THEN {{}} ELSE {{}, {"0012"}, {"0012", "0013"}, {"0012", "0014"}, Optional}

LegacyObjects(s) ==
    [m \in Migrations |->
        IF m \in s THEN "current"
        ELSE IF m \in Shapes /\ "0001" \in s THEN "old" ELSE "absent"]

LegacyStores ==
    {[stamps |-> s, badsum |-> {}, newer |-> FALSE, unversioned |-> FALSE,
      obj |-> LegacyObjects(s),
      guards |-> [m \in {"0012", "0013"} |->
                    IF m \notin s THEN "absent"
                    ELSE IF "0014" \in s THEN "current" ELSE g],
      transitionFK |-> "0001" \in s /\ "0002" \notin s,
      flaws |-> {}, enabled |-> "0001" \in s,
      tr |-> r] :
        s \in UNION {{Prefix(n) \cup o : o \in OptionalSets(n)} : n \in 0..Len(Core)},
        g \in {"partial", "unclocked"},
        r \in Rows}

Init ==
    /\ db \in LegacyStores
    /\ "0002" \in db.stamps => \A t \in Transitions : db.tr[t].out # "PENDING" /\ ~AwaitsResult(db.tr[t])
    /\ "0001" \notin db.stamps => \A t \in Transitions : db.tr[t].out = "REJECTED"
    /\ lease = [owner |-> "none", epoch |-> 0]
    /\ pc = [p \in Processes |-> "closed"]
    /\ held = [p \in Processes |-> 0]
    /\ probe = [p \in Processes |-> NoProbe]
    /\ fk = [p \in Processes |-> TRUE]
    /\ opens = 0 /\ crashes = 0 /\ damage = 0
    /\ planted = {}
    /\ tampered = FALSE
    /\ before = [p \in Processes |-> db]

Step(p) ==
    \/ FirstPreflight(p) \/ Claim(p) \/ UpgradeStampedRegistryGuards(p) \/ SecondPreflight(p)
    \/ ExecuteBaseline(p) \/ ProbeSchema(p) \/ MigrateTaskManagerSchema(p)

Next ==
    \/ \E p \in Processes : Begin(p) \/ Step(p) \/ Close(p) \/ Crash(p)
    \/ \E p \in Processes, provider \in BOOLEAN : MigrateRegistrySchema(p, provider)
    \/ Outsider

Spec == Init /\ [][Next]_vars

-----------------------------------------------------------------------------
(* Properties.                                                             *)

TypeOK ==
    /\ db \in DB
    /\ lease \in [owner : Processes \cup {"none"}, epoch : 0..MaxOpens]
    /\ pc \in [Processes -> {"closed", "preflight", "claim", "upgrade", "preflight2", "baseline",
                             "probe", "migrate", "open", "quarantined", "stale"}]
    /\ held \in [Processes -> 0..MaxOpens]
    /\ fk \in [Processes -> BOOLEAN]

(* A manager that opened the store has every core migration, no request    *)
(* left undecided, no committed request without its result, foreign keys   *)
(* enforced, and a file that the next open accepts (initialize).           *)
OpenedIsComplete ==
    \A p \in Processes : pc[p] = "open" =>
        /\ CoreSet \subseteq db.stamps
        /\ \A t \in Transitions : db.tr[t].out # "PENDING" /\ ~AwaitsResult(db.tr[t])
        /\ db.flaws \cap {"integrity", "steps", "basis", "publications", "orphan_event"} = {}
        /\ fk[p]
        /\ PreflightMigrationState(db)

(* Wherever an earlier open died, or lost its lease, a store nobody else   *)
(* touched is never refused for good: the next open accepts every state    *)
(* the transactions of initialize leave behind.                            *)
NeverBricked ==
    \A p \in Processes : pc[p] = "quarantined" =>
        tampered \/ \E t \in Transitions : ~Reconstructible(before[p], before[p].tr[t])

(* CREATE IF NOT EXISTS never blesses objects it did not create: what was  *)
(* in the file without its stamp is never stamped, however often the store *)
(* is opened (migrate_registry_schema, preflight_migration_state).         *)
NothingAdopted == planted \cap db.stamps = {}

(* An open that is refused leaves the Task records and the old tables as   *)
(* it found them, although the guard upgrade and the baseline script are   *)
(* transactions of their own that stay committed.                          *)
RefusalKeepsRecords ==
    \A p \in Processes : Active(p) /\ pc'[p] = "quarantined" =>
       /\ db'.tr = before[p].tr
       /\ db'.flaws = before[p].flaws
       /\ db'.transitionFK = before[p].transitionFK
       /\ \A m \in Migrations : before[p].obj[m] # "absent" => db'.obj[m] = before[p].obj[m]

(* What the migration decides to rebuild is read before its transaction    *)
(* begins; it still describes the file when the rebuild commits, although  *)
(* another process may have opened the store in between.                   *)
ProbeStillTrue ==
    \A p \in Processes : pc[p] = "migrate" /\ pc'[p] = "open" => probe[p] = Probed(db)

(* No upgrade applies a request that was pending, and a result is added to *)
(* a committed one only when its journal event agrees with it              *)
(* (reconcile_pending_transitions, reconstruct_committed_transition).      *)
ReceiptsFollowJournal ==
    \A t \in Transitions : LET old == db.tr[t] new == db'.tr[t] IN new # old =>
       /\ new.out = "COMMITTED" => old.out = "COMMITTED" /\ old.evidence = "matching"
       /\ old.result = "none"
       /\ new.result = "TASK_NOT_FOUND" <=> new.out = "REJECTED" /\ ~new.task

=============================================================================

---------------------------- MODULE MCArtifacts ----------------------------
(***************************************************************************)
(* Scenes of the Artifact Store for TLC.  A run plays the scenes named by  *)
(* Scenes, one behaviour one scene: writer handles that replace each other *)
(* on an output, a publication and an import that share content, readers   *)
(* of one Artifact, and Tasks whose inventories grow when damage is found  *)
(* late.  The Tasks of the last scenes differ in how they hold the         *)
(* content.  The writer handles are the module's own variables and         *)
(* constants, the other components are instances.                          *)
(***************************************************************************)
EXTENDS ArtifactStaging, TLC

CONSTANTS
  Scenes,  \* the scenes this run plays
  w1, w2, r1, r2, g1, g2

VARIABLES
  scene,   \* the scene that is played
  \* ArtifactPublication
  alloc, publicationLapsed, denied, recovering, pub, art, publicationBlob, publicationReceipt,
  final, pending, dirty, publicationCount, publicationMgr,
  \* ArtifactReader
  readerTask, attempt, unknown, withdrawn, uses, ops, intact, readerLease, readerMgr, session,
  held, reader, faults, entry, handed,
  \* RecoveryInventories
  inventoryTask, rec, inv, subs, challenge, disk, inventoryBlob, failed, inventoryReceipt,
  migrated, inventoryMgr, todo, call, refusal, erred, inventoryCount

\* A publication and an import with the same bytes.
SameOutput == [p \in {"p1"} |-> "o1"]
SameContent == [i \in {"p1", "i1"} |-> "c1"]

\* Grants with one use and with two, for one attempt and for two.
OneShot == [g \in {g1} |-> 1]
OneAttempt == [g \in {g1} |-> 1]
Twice == [g \in {g1, g2} |-> 2]
TwoAttempts == [g \in {g1, g2} |-> IF g = g1 THEN 1 ELSE 2]

-----------------------------------------------------------------------------
Publication == INSTANCE ArtifactPublication WITH Outs <- {"o1"}, Pubs <- {"p1"},
  Imports <- {"i1"}, Contents <- {"c1"}, OutOf <- SameOutput, ContentOf <- SameContent,
  MaxDamage <- 2, MaxCrash <- 2, lapsed <- publicationLapsed, blob <- publicationBlob,
  receipt <- publicationReceipt, count <- publicationCount, mgr <- publicationMgr
Reader == INSTANCE ArtifactReader WITH Grants <- {g1}, MaxUses <- OneShot,
  AttemptOf <- OneAttempt, Readers <- {r1, r2}, MaxAdmission <- 2, MaxRevision <- 3,
  MaxEpoch <- 2, MaxLost <- 1, MaxFailed <- 0, task <- readerTask, lease <- readerLease,
  mgr <- readerMgr
ReaderUses == INSTANCE ArtifactReader WITH Grants <- {g1, g2}, MaxUses <- Twice,
  AttemptOf <- TwoAttempts, Readers <- {r1, r2}, MaxAdmission <- 3, MaxRevision <- 1,
  MaxEpoch <- 1, MaxLost <- 0, MaxFailed <- 1, task <- readerTask, lease <- readerLease,
  mgr <- readerMgr
ReaderFailed == INSTANCE ArtifactReader WITH Grants <- {g1}, MaxUses <- OneShot,
  AttemptOf <- OneAttempt, Readers <- {r1, r2}, MaxAdmission <- 2, MaxRevision <- 1,
  MaxEpoch <- 1, MaxLost <- 0, MaxFailed <- 1, task <- readerTask, lease <- readerLease,
  mgr <- readerMgr
Damage == INSTANCE RecoveryInventories WITH Tasks <- {"a", "b"}, Legacy <- {"b"}, Plain <- {},
  Published <- {"a"}, Exporters <- {}, NoTask <- "none", Stores <- {"RUNNABLE", "RECOVERING"},
  Moves <- {"PLANNING", "RUNNING", "FAILED"}, Applied <- TRUE, MaxStarts <- 2, MaxRevision <- 3,
  MaxDamage <- 1, MaxErrors <- 0, task <- inventoryTask, blob <- inventoryBlob, receipt <- inventoryReceipt,
  mgr <- inventoryMgr, count <- inventoryCount
Handoffs == INSTANCE RecoveryInventories WITH Tasks <- {"a", "b"}, Legacy <- {}, Plain <- {},
  Published <- {"a", "b"}, Exporters <- {}, NoTask <- "none", Stores <- {"RUNNING", "RECOVERING"},
  Moves <- {"FAILED"}, Applied <- TRUE, MaxStarts <- 2, MaxRevision <- 3, MaxDamage <- 1,
  MaxErrors <- 2, task <- inventoryTask, blob <- inventoryBlob, receipt <- inventoryReceipt,
  mgr <- inventoryMgr, count <- inventoryCount
Exports == INSTANCE RecoveryInventories WITH Tasks <- {"a"}, Legacy <- {}, Plain <- {},
  Published <- {"a"}, Exporters <- {"a"}, NoTask <- "none", Stores <- {"RUNNABLE", "RUNNING"},
  Moves <- {"PLANNING", "RUNNING"}, Applied <- TRUE, MaxStarts <- 3, MaxRevision <- 4,
  MaxDamage <- 1, MaxErrors <- 1, task <- inventoryTask, blob <- inventoryBlob, receipt <- inventoryReceipt,
  mgr <- inventoryMgr, count <- inventoryCount
Migration == INSTANCE RecoveryInventories WITH Tasks <- {"a", "b", "c"}, Legacy <- {"a"},
  Plain <- {"b"}, Published <- {"c"}, Exporters <- {}, NoTask <- "none",
  Stores <- {"RUNNING", "RECOVERING"}, Moves <- {}, Applied <- FALSE, MaxStarts <- 2,
  MaxRevision <- 4, MaxDamage <- 1, MaxErrors <- 0, task <- inventoryTask, blob <- inventoryBlob,
  receipt <- inventoryReceipt, mgr <- inventoryMgr, count <- inventoryCount
Shared == INSTANCE RecoveryInventories WITH Tasks <- {"a", "b"}, Legacy <- {}, Plain <- {},
  Published <- {"a", "b"}, Exporters <- {"a"}, NoTask <- "none", Stores <- {"RUNNABLE"},
  Moves <- {"RUNNING"}, Applied <- TRUE, MaxStarts <- 1, MaxRevision <- 3, MaxDamage <- 1, MaxErrors <- 0,
  task <- inventoryTask, blob <- inventoryBlob, receipt <- inventoryReceipt,
  mgr <- inventoryMgr, count <- inventoryCount

ASSUME StagingAssumption
ASSUME Publication!PublicationAssumption
ASSUME Reader!ReaderAssumption
ASSUME ReaderUses!ReaderAssumption
ASSUME ReaderFailed!ReaderAssumption

publicationVars == <<alloc, publicationLapsed, denied, recovering, pub, art, publicationBlob,
  publicationReceipt, final, pending, dirty, publicationCount, publicationMgr>>
readerVars == <<readerTask, attempt, unknown, withdrawn, uses, ops, intact, readerLease,
  readerMgr, session, held, reader, faults, entry, handed>>
inventoryVars == <<inventoryTask, rec, inv, subs, challenge, disk, inventoryBlob, failed,
  inventoryReceipt, migrated, inventoryMgr, todo, call, refusal, erred,
  inventoryCount>>
sceneVars == <<scene, vars, publicationVars, readerVars, inventoryVars>>

\* The variables of a component that has no part in the scene.
Off == "off"
PublicationOff == alloc = Off /\ publicationLapsed = Off /\ denied = Off /\ recovering = Off /\
  pub = Off /\ art = Off /\ publicationBlob = Off /\ publicationReceipt = Off /\ final = Off /\
  pending = Off /\ dirty = Off /\ publicationCount = Off /\ publicationMgr = Off
ReaderOff == readerTask = Off /\ attempt = Off /\ unknown = Off /\ withdrawn = Off /\
  uses = Off /\ ops = Off /\ intact = Off /\ readerLease = Off /\ readerMgr = Off /\
  session = Off /\ held = Off /\ reader = Off /\ faults = Off /\ entry = Off /\ handed = Off
InventoryOff == inventoryTask = Off /\ rec = Off /\ inv = Off /\ subs = Off /\
  challenge = Off /\ disk = Off /\ inventoryBlob = Off /\ failed = Off /\
  inventoryReceipt = Off /\ migrated = Off /\ inventoryMgr = Off /\ todo = Off /\ call = Off /\
  refusal = Off /\ erred = Off /\ inventoryCount = Off

SceneInit ==
  /\ scene \in Scenes
  /\ \/ scene = "staging" /\ Init /\ PublicationOff /\ ReaderOff /\ InventoryOff
     \/ scene = "publication" /\ Publication!Init /\ Init /\ ReaderOff /\ InventoryOff
     \/ scene = "reader" /\ Reader!Init /\ Init /\ PublicationOff /\ InventoryOff
     \/ scene = "reader_uses" /\ ReaderUses!Init /\ Init /\ PublicationOff /\ InventoryOff
     \/ scene = "reader_failed" /\ ReaderFailed!Init /\ Init /\ PublicationOff /\ InventoryOff
     \/ scene = "damage" /\ Damage!Init /\ Init /\ PublicationOff /\ ReaderOff
     \/ scene = "handoffs" /\ Handoffs!Init /\ Init /\ PublicationOff /\ ReaderOff
     \/ scene = "exports" /\ Exports!Init /\ Init /\ PublicationOff /\ ReaderOff
     \/ scene = "migration" /\ Migration!Init /\ Init /\ PublicationOff /\ ReaderOff
     \/ scene = "shared" /\ Shared!Init /\ Init /\ PublicationOff /\ ReaderOff

SceneNext ==
  \/ scene = "staging" /\ Next /\ UNCHANGED <<scene, publicationVars, readerVars, inventoryVars>>
  \/ scene = "publication" /\ Publication!Next /\ UNCHANGED <<scene, vars, readerVars, inventoryVars>>
  \/ scene = "reader" /\ Reader!Next /\ UNCHANGED <<scene, vars, publicationVars, inventoryVars>>
  \/ scene = "reader_uses" /\ ReaderUses!Next /\ UNCHANGED <<scene, vars, publicationVars, inventoryVars>>
  \/ scene = "reader_failed" /\ ReaderFailed!Next /\ UNCHANGED <<scene, vars, publicationVars, inventoryVars>>
  \/ scene = "damage" /\ Damage!Next /\ UNCHANGED <<scene, vars, publicationVars, readerVars>>
  \/ scene = "handoffs" /\ Handoffs!Next /\ UNCHANGED <<scene, vars, publicationVars, readerVars>>
  \/ scene = "exports" /\ Exports!Next /\ UNCHANGED <<scene, vars, publicationVars, readerVars>>
  \/ scene = "migration" /\ Migration!Next /\ UNCHANGED <<scene, vars, publicationVars, readerVars>>
  \/ scene = "shared" /\ Shared!Next /\ UNCHANGED <<scene, vars, publicationVars, readerVars>>

SceneSpec == SceneInit /\ [][SceneNext]_sceneVars

-----------------------------------------------------------------------------
\* Content the store vouches for is there: a complete seal attests bytes that
\* a power loss does not take, an acknowledged finish survives it, and an
\* artifact that is VERIFIED can be read although another with the same bytes
\* was given up; and startup accepts the rows it finds.
SealedIsReadable ==
  /\ scene = "staging" => TypeOK
  /\ scene = "staging" => SealAttestsDurableBytes
  /\ scene = "staging" => AckedSurvives
  /\ scene = "publication" => Publication!TypeOK
  /\ scene = "publication" => Publication!PublicationSafe

\* No use of a grant is lost and none is handed out twice: uses bound the
\* deliveries, and a pending admission can be taken up again.
DeliveriesAccounted ==
  /\ scene = "reader" => Reader!TypeOK
  /\ scene = "reader" => Reader!UsesBoundDeliveries
  /\ scene = "reader" => Reader!PendingIsReachable
  /\ scene = "reader_uses" => ReaderUses!PendingIsReachable
  /\ scene = "reader_failed" => ReaderFailed!TypeOK
  /\ scene = "reader_failed" => ReaderFailed!PendingIsReachable

\* A reader neither goes on under a successor of its manager nor into a
\* recovery it was not admitted in.
ReadersAreFenced ==
  [][/\ scene = "reader" => Reader!NoContinuedReadInRecovery
     /\ scene = "reader" => Reader!OldReadersAreFenced]_sceneVars

\* Damage that is found late reaches every owner of the content and the
\* inventory of each Task in recovery, whose episodes only grow.
NothingEscapesRecovery ==
  /\ scene = "damage" => Damage!TypeOK
  /\ scene = "damage" => Damage!EpisodesGrow
  /\ scene = "damage" => Damage!RecoveryCovers
  /\ scene = "damage" => Damage!DamageStopsTask
  /\ scene = "handoffs" => Handoffs!TypeOK
  /\ scene = "handoffs" => Handoffs!EpisodesGrow
  /\ scene = "handoffs" => Handoffs!RecoveryCovers
  /\ scene = "handoffs" => Handoffs!DamageStopsTask
  /\ scene = "exports" => Exports!TypeOK
  /\ scene = "exports" => Exports!EpisodesGrow
  /\ scene = "exports" => Exports!RecoveryCovers
  /\ scene = "migration" => Migration!TypeOK
  /\ scene = "migration" => Migration!EpisodesGrow
  /\ scene = "migration" => Migration!RecoveryCovers
  /\ scene = "migration" => Migration!OwnersQuarantined
  /\ scene = "shared" => Shared!TypeOK
  /\ scene = "shared" => Shared!EpisodesGrow

\* A Task leaves RECOVERING to go on only when every subject of every
\* inventory made while it was there is settled, and is resolved in the
\* episode: recovery_allows_exit asks the inventory that holds them all.
ExitIsEarned ==
  [][/\ scene = "damage" => Damage!ExitIsEarned
     /\ scene = "handoffs" => Handoffs!ExitIsEarned
     /\ scene = "exports" => Exports!ExitIsEarned]_sceneVars

\* Bytes are with the caller only when the receipt of their admission says so
\* durably: ArtifactReader::read commits the first-delivery receipt before it
\* copies bytes into the caller's buffer, and checks it after an error.
ReceiptBeforeBytes == scene = "reader_failed" => ReaderFailed!ReceiptBeforeBytes

\* When the manager serves and no handoff is under way, a Task that executes
\* has no subject whose outcome is unknown or whose bytes are known to be
\* damaged: every owner of a damaged content was handed to recovery.
DamageStopsTask == scene = "shared" => Shared!DamageStopsTask

\* Writer handles are interchangeable, and so are readers.
Symmetry == Permutations({w1, w2}) \cup Permutations({r1, r2})

=============================================================================

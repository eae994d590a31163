------------------------ MODULE RecoveryInventories ------------------------
(***************************************************************************)
(* What a Task in recovery is accountable for, when damage to stored bytes *)
(* is found after the Task entered recovery.  An inventory is immutable;   *)
(* later findings are added by larger inventories of the same episode, and *)
(* the largest one is active.  One content is shared by several Tasks:     *)
(* through publications, through imports under a key that an earlier build *)
(* made without a receipt, and through plain imports.                      *)
(*                                                                         *)
(* Attempts, invocations and credential uses are subjects like the grant   *)
(* here, and TaskManager has them.  Placement is in ArtifactPublication.   *)
(***************************************************************************)
EXTENDS TaskStates, FiniteSets, Integers, Sequences, SequencesExt

CONSTANTS
  Tasks,
  Legacy,       \* Tasks with a keyed import of the content, made without a receipt
  Plain,        \* Tasks with a plain import of the content
  Published,    \* Tasks whose publication "q" of the content is committed
  Exporters,    \* Tasks that export that publication under the owner's authority
  NoTask,
  Stores,       \* the states a Task may be in when the store is first opened
  Moves,        \* the targets of the callers' transitions
  Applied,      \* whether that store has been opened by this build before
  MaxStarts, MaxRevision,
  MaxDamage,    \* how often the bytes on disk are damaged or put back
  MaxErrors     \* how often the handoff of a Task fails

VARIABLES
  task,         \* [state, revision, root]: rows of tasks
  rec,          \* the record behind each subject of a Task
  inv,          \* aggregate rows of recovery_assessments, oldest first
  subs,         \* subject rows of recovery_assessments
  challenge,    \* artifact_export_reconciliation_challenges
  disk, blob,   \* the file of the content, and artifact_blobs.durability_state
  failed,       \* Legacy Tasks whose imported artifact is marked failed
  receipt,      \* Legacy Tasks whose keyed import has its receipt
  migrated,     \* 0010_keyed_import_causal_receipts is applied
  mgr, todo, call, refusal,
  erred,        \* Tasks this process could not hand to recovery (history)
  count

store == <<task, rec, inv, subs, challenge, receipt, migrated>>
content == <<disk, blob, failed>>
process == <<mgr, todo, call, refusal>>
history == <<erred, count>>
vars == <<store, content, process, history>>

Pubs == {"p", "q"}
Subjects == {"export", "grant", "damage"} \cup Pubs

Held == {"RUNNABLE", "WAITING_FOR_INPUT", "WAITING_FOR_AUTH"}

Ref(t, basis, ids) == [task |-> t, basis |-> basis, ids |-> ids]
NoRef == Ref(NoTask, 0, {})

-----------------------------------------------------------------------------
(* Subjects. *)

Open(status) == status \in {"STARTED", "UNKNOWN", "ACTIVE", "PENDING", "DAMAGED"}
OpenIn(r) == {s \in Subjects : Open(r[s])}

\* unresolved_execution_ids: a committed publication counts again once its
\* artifact is marked.
Unresolved(t) == OpenIn(rec[t])

\* resolved_recovery_subject: a damaged publication and the operation of a
\* damaged legacy import have no outcome that resolves them.
Resolvable(t, s) ==
  CASE s = "export" -> rec[t][s] \in {"SUCCEEDED", "FAILED"}
    [] s = "grant" -> rec[t][s] = "REVOKED"
    [] s \in Pubs -> rec[t][s] = "ABORTED"
    [] OTHER -> FALSE

\* Tasks that own an artifact of the content
Owners == {t \in Tasks :
  t \in Legacy \cup Plain \/ \E p \in Pubs : rec[t][p] \in {"COMMITTED", "DAMAGED"}}

\* mark_blob_failed: every artifact of the content
Marked(r) == [s \in Subjects |-> IF r[s] = "COMMITTED" THEN "DAMAGED" ELSE r[s]]

-----------------------------------------------------------------------------
(* Inventories. *)

RowsOf(ref) == {r \in subs : r.ref = ref}
Inventories == Range(inv)
Episode(t) == {i \in Inventories : i.ref.task = t /\ i.epoch = task[t].root}

\* active_recovery_inventory refuses an episode that is not a chain.
Monotonic(t) ==
  \A i, j \in Episode(t) : i.ref.ids \subseteq j.ref.ids \/ j.ref.ids \subseteq i.ref.ids

\* active_recovery_inventory: the largest inventory of the episode
Active(t) ==
  (CHOOSE i \in Episode(t) : \A j \in Episode(t) : j.ref.ids \subseteq i.ref.ids).ref

\* load_recovery_subjects, as rows of an inventory
Fresh(r, ref, epoch) ==
  {[ref |-> ref, subject |-> s, epoch |-> epoch, evidence |-> r[s]] : s \in OpenIn(r)}

\* carry_forward_resolved_recovery_subject, resolved in the same transaction;
\* only for an inventory that joins an episode.
Carried(t, ref, epoch) ==
  IF epoch = ref THEN {}
  ELSE {[ref |-> ref, subject |-> s, epoch |-> epoch, evidence |-> "RESOLVED"] :
         s \in {u \in ref.ids \ Unresolved(t) :
                  Resolvable(t, u) /\ \E r \in subs : r.epoch = epoch /\ r.subject = u}}

\* Why persist_recovery_inventory_in_transaction returns an error, if it does
Objection(t, ref, epoch) ==
  LET new == Fresh(rec[t], ref, epoch)
      clashing == {r \in RowsOf(ref) : \E n \in new : n.subject = r.subject /\ n # r} IN
  IF \E r \in clashing : r.epoch # epoch THEN "OTHER_EPISODE"
  ELSE IF clashing # {} THEN "OTHER_EVIDENCE"
  ELSE IF epoch # ref /\ ref.ids # {r.subject : r \in new \cup Carried(t, ref, epoch)}
    THEN "NO_EVIDENCE"
  ELSE "NONE"

CurrentRef(t) == Ref(t, task[t].revision, Unresolved(t))

\* What a RECOVERING Task was accountable for, and what is found now
Refreshed(t) == Ref(t, task[t].revision, Active(t).ids \cup Unresolved(t))

InRecovery(t) == task[t].state = "RECOVERING"
Target(t) == IF InRecovery(t) THEN Refreshed(t) ELSE CurrentRef(t)
EpochOf(t) == IF InRecovery(t) THEN task[t].root ELSE Target(t)

\* Nothing is open, or the active inventory has it all.
Needless(t) == Unresolved(t) = {} \/ (InRecovery(t) /\ Refreshed(t).ids = Active(t).ids)

Against(t) ==
  IF InRecovery(t) /\ ~Monotonic(t) THEN "NOT_MONOTONIC"
  ELSE IF Needless(t) THEN "NONE"
  ELSE Objection(t, Target(t), EpochOf(t))

\* persist_recovery_inventory_in_transaction
Persist(t) ==
  IF Needless(t) THEN UNCHANGED <<inv, subs>>
  ELSE /\ subs' = subs \cup Fresh(rec[t], Target(t), EpochOf(t)) \cup Carried(t, Target(t), EpochOf(t))
       /\ inv' = IF \E i \in Inventories : i.ref = Target(t) THEN inv
                 ELSE Append(inv, [ref |-> Target(t), epoch |-> EpochOf(t)])

\* Mutant: only the first inventory of the episode is asked.
AllowsExitRecorded(t) == \A r \in RowsOf(task[t].root) : r.evidence = "RESOLVED"

\* recovery_allows_exit
AllowsExit(t) ==
  LET ref == Active(t) IN
  /\ ref.ids # {}
  /\ Unresolved(t) \subseteq ref.ids
  /\ {r.subject : r \in {w \in RowsOf(ref) : w.evidence = "RESOLVED"}} = ref.ids

-----------------------------------------------------------------------------
(* The process. *)

Idle == [kind |-> "IDLE", task |-> NoTask, rest |-> {}]
Handing(rest) ==
  IF rest = {} THEN Idle ELSE [kind |-> "HANDOFF", task |-> NoTask, rest |-> rest]
Serving == mgr = "READY" /\ call.kind = "IDLE"

Start ==
  /\ mgr \in {"DOWN", "REFUSED"} /\ count.starts < MaxStarts
  /\ mgr' = "MIGRATE" /\ refusal' = "NONE"
  /\ count' = [count EXCEPT !.starts = @ + 1] /\ erred' = {}
  /\ UNCHANGED <<store, content, todo, call>>

Crash ==
  /\ mgr \notin {"DOWN", "REFUSED"}
  /\ mgr' = "DOWN" /\ todo' = {} /\ call' = Idle
  /\ UNCHANGED <<store, content, refusal, history>>

Refuse(reason) ==
  /\ mgr' = "REFUSED" /\ refusal' = reason /\ todo' = {} /\ call' = Idle
  /\ UNCHANGED <<store, content, history>>

NextPhase(from, to, list) ==
  /\ mgr = from /\ todo = {} /\ call.kind = "IDLE"
  /\ mgr' = to /\ todo' = list
  /\ UNCHANGED <<store, content, call, refusal, history>>

Visiting(phase, t) == mgr = phase /\ call.kind = "IDLE" /\ t \in todo
Visited(t) == todo' = todo \ {t} /\ UNCHANGED <<mgr, refusal, content, history>>
OnlyInventory == UNCHANGED <<task, rec, challenge, receipt, migrated>>

\* The inventory is stored; for an executing Task the transition is next.
HandOver(t, rest) ==
  /\ Persist(t)
  /\ call' = IF task[t].state \in Executing
             THEN [kind |-> "ENTER", task |-> t, rest |-> rest]
             ELSE Handing(rest)
  /\ OnlyInventory

\* The internal transition to RECOVERING with the reference of the inventory
EnterRecovering ==
  LET t == call.task IN
  /\ call.kind = "ENTER"
  /\ task' = [task EXCEPT ![t] =
       [state |-> "RECOVERING", revision |-> @.revision + 1, root |-> CurrentRef(t)]]
  /\ call' = Handing(call.rest)
  /\ todo' = todo \ {t} /\ erred' = erred \ {t}
  /\ UNCHANGED <<rec, inv, subs, challenge, receipt, migrated, mgr, refusal, content, count>>

-----------------------------------------------------------------------------
(* Startup. *)

Quarantined == Owners

\* One transaction: damage operations for every owner, with inventories that
\* belong to no episode; the event order is the order of the Tasks.
MigrateDamaged ==
  LET r == [t \in Tasks |-> IF t \in Quarantined
              THEN [Marked(rec[t]) EXCEPT !["damage"] = "UNKNOWN"] ELSE rec[t]]
      ref == [t \in Tasks |-> Ref(t, task[t].revision, OpenIn(r[t]))]
      list == SetToSeq(Quarantined) IN
  /\ rec' = r
  /\ failed' = Legacy
  /\ blob' = disk
  /\ inv' = inv \o [n \in 1..Len(list) |-> [ref |-> ref[list[n]], epoch |-> ref[list[n]]]]
  /\ subs' = subs \cup UNION {Fresh(r[t], ref[t], ref[t]) : t \in Quarantined}
  /\ migrated' = TRUE /\ mgr' = "EXPORTS"
  /\ UNCHANGED <<task, challenge, receipt, disk, todo, call, refusal, history>>

MigrateIntact ==
  /\ receipt' = Legacy
  /\ migrated' = TRUE /\ mgr' = "EXPORTS"
  /\ UNCHANGED <<task, rec, inv, subs, challenge, content, todo, call, refusal, history>>

\* migrate_legacy_keyed_import_receipts: bytes that are back do not undo a
\* recorded damage, and a damage that changed its kind is not accepted.
Migrate ==
  /\ mgr = "MIGRATE"
  /\ \/ migrated /\ NextPhase("MIGRATE", "EXPORTS", {})
     \/ /\ ~migrated
        /\ Legacy = {} \/ (disk = "GOOD" /\ blob = "DURABLE" /\ failed = {})
        /\ MigrateIntact
     \/ /\ ~migrated /\ Legacy # {} /\ disk # "GOOD" /\ blob \in {"DURABLE", disk}
        /\ MigrateDamaged
     \/ /\ ~migrated /\ Legacy # {}
        /\ IF disk = "GOOD" THEN blob # "DURABLE" \/ failed # {} ELSE blob \notin {"DURABLE", disk}
        /\ Refuse("METADATA")

\* reconcile_export_operations_startup; an export is armed when it is stored.
SettleExports ==
  LET r == [t \in Tasks |-> IF rec[t]["export"] = "STARTED"
              THEN [rec[t] EXCEPT !["export"] = "UNKNOWN"] ELSE rec[t]] IN
  /\ mgr = "EXPORTS"
  /\ rec' = r
  /\ mgr' = "HANDOFF" /\ todo' = {t \in Tasks : r[t]["export"] = "UNKNOWN"}
  /\ UNCHANGED <<task, inv, subs, challenge, receipt, migrated, content, call, refusal, history>>

\* ensure_unknown_export_recovery_inventory
HandoffTask(t) ==
  /\ Visiting("HANDOFF", t)
  /\ IF Against(t) # "NONE" THEN Refuse(Against(t))
     ELSE /\ HandOver(t, {})
          /\ IF task[t].state \in Executing
             THEN UNCHANGED <<todo, mgr, refusal, content, history>> ELSE Visited(t)

MarkAll ==
  /\ rec' = [t \in Tasks |-> Marked(rec[t])]
  /\ failed' = Legacy
  /\ blob' = disk

\* reconcile_artifacts_startup: the audit of the blob, then publications whose
\* output is over; the Tasks to look at follow.
AuditStartup ==
  \E over \in SUBSET {<<t, p>> \in Tasks \X Pubs : rec[t][p] = "PENDING"} :
    LET marked(t) == IF disk = "GOOD" THEN rec[t] ELSE Marked(rec[t]) IN
    /\ mgr = "HANDOFF" /\ todo = {} /\ call.kind = "IDLE"
    /\ rec' = [t \in Tasks |-> [s \in Subjects |->
         IF <<t, s>> \in over THEN "ABORTED" ELSE marked(t)[s]]]
    /\ IF disk = "GOOD" THEN UNCHANGED <<failed, blob>> ELSE failed' = Legacy /\ blob' = disk
    /\ mgr' = "RECOVER" /\ todo' = {t \in Tasks : task[t].state \in Executing \cup Held}
    /\ UNCHANGED <<task, inv, subs, challenge, receipt, migrated, disk, call, refusal, history>>

\* recover_startup, first scan
RecoverTask(t) ==
  /\ Visiting("RECOVER", t)
  /\ IF Unresolved(t) = {} THEN Visited(t) /\ UNCHANGED <<store, call>>
     ELSE IF task[t].state \in Held THEN Refuse("HELD")
     ELSE IF Against(t) # "NONE" THEN Refuse(Against(t))
     ELSE HandOver(t, {}) /\ UNCHANGED <<todo, mgr, refusal, content, history>>

RecoverDone == NextPhase("RECOVER", "REPORT", {t \in Tasks : task[t].state \in Terminal})
ReportDone == NextPhase("REPORT", "REFRESH", {t \in Tasks : InRecovery(t)})
RefreshDone == NextPhase("REFRESH", "READY", {})

\* The scans of ended and of RECOVERING Tasks
RefreshTask(t) ==
  /\ mgr \in {"REPORT", "REFRESH"} /\ Visiting(mgr, t)
  /\ IF Against(t) # "NONE" THEN Refuse(Against(t))
     ELSE HandOver(t, {}) /\ Visited(t)

-----------------------------------------------------------------------------
(* While the manager serves. *)

\* handoff_content_hash_damage, one Task.
HandoffStep(t) ==
  /\ call.kind = "HANDOFF" /\ t \in call.rest
  /\ IF Unresolved(t) = {} \/ Against(t) # "NONE"
     THEN call' = Handing(call.rest \ {t}) /\ UNCHANGED <<store, erred>>
     ELSE /\ HandOver(t, call.rest \ {t})
          /\ erred' = IF task[t].state \in Executing THEN erred ELSE erred \ {t}
  /\ UNCHANGED <<content, mgr, todo, refusal, count>>

\* A handoff that is under way in a serving manager: a Task that is its turn,
\* or one whose inventory is stored and whose transition is next.
Handed(t) ==
  \/ call.kind = "HANDOFF" /\ t \in call.rest /\ Unresolved(t) # {}
  \/ call.kind = "ENTER" /\ mgr = "READY" /\ t = call.task

\* Mutant: the first error ends the loop.
HandoffFailsAtOnce(t) ==
  /\ Handed(t) /\ count.errors < MaxErrors
  /\ call' = Idle
  /\ erred' = erred \cup {t} /\ count' = [count EXCEPT !.errors = @ + 1]
  /\ UNCHANGED <<store, content, mgr, todo, refusal>>

\* The handoff of one Task fails: the first error is kept for the caller and
\* the next Task is still handed over.
HandoffFails(t) ==
  /\ Handed(t) /\ count.errors < MaxErrors
  /\ call' = Handing(call.rest \ {t})
  /\ erred' = erred \cup {t} /\ count' = [count EXCEPT !.errors = @ + 1]
  /\ UNCHANGED <<store, content, mgr, todo, refusal>>

Finding ==
  /\ MarkAll
  /\ call' = Handing(Owners)
  /\ UNCHANGED <<task, inv, subs, challenge, receipt, migrated, disk, mgr, todo, refusal, history>>

\* A reader, or a publication of the same content, meets the damage.
FindDamage ==
  /\ Serving /\ disk # "GOOD"
  /\ Finding

\* A reader of an artifact that is marked hands its owners over again; the
\* bytes are not looked at.
ReadMarked ==
  /\ Serving
  /\ blob # "DURABLE" \/ failed # {} \/ \E t \in Tasks, p \in Pubs : rec[t][p] = "DAMAGED"
  /\ call' = Handing(Owners)
  /\ UNCHANGED <<store, content, mgr, todo, refusal, history>>

\* replay_keyed_import, when it changes something: a marked import is handed
\* over again, an unmarked one whose bytes are damaged is marked.
ReplayImport(t) ==
  /\ Serving /\ t \in receipt
  /\ \/ /\ t \in failed /\ blob # "DURABLE"
        /\ call' = Handing(Owners)
        /\ UNCHANGED <<store, content, mgr, todo, refusal, history>>
     \/ t \notin failed /\ blob = "DURABLE" /\ disk # "GOOD" /\ Finding

\* An export of the published artifact under the owner's authority; its reader
\* has found the bytes intact.
BeginExport(t) ==
  /\ Serving
  /\ t \in Exporters /\ ~InRecovery(t) /\ rec[t]["export"] = "NONE"
  /\ rec[t]["q"] = "COMMITTED" /\ blob = "DURABLE" /\ disk = "GOOD"
  /\ rec' = [rec EXCEPT ![t]["export"] = "STARTED"]
  /\ call' = [kind |-> "EXPORT", task |-> t, rest |-> {}]
  /\ UNCHANGED <<task, inv, subs, challenge, receipt, migrated, content, mgr, todo, refusal, history>>

\* What was copied is not what was checked: the content is marked.
ExportMismatch ==
  /\ call.kind = "EXPORT" /\ disk = "CORRUPT"
  /\ MarkAll
  /\ call' = [call EXCEPT !.kind = "MISMATCH"]
  /\ UNCHANGED <<task, inv, subs, challenge, receipt, migrated, disk, mgr, todo, refusal, history>>

\* finish_unknown_export_operation hands over the exporting Task; when the
\* outcome cannot even be recorded the operation stays STARTED.
EndExport(outcome) ==
  /\ call.kind = "EXPORT" \/ (call.kind = "MISMATCH" /\ outcome \in {"UNKNOWN", "STARTED"})
  /\ rec' = [rec EXCEPT ![call.task]["export"] = outcome]
  /\ call' = Handing(IF outcome = "UNKNOWN" THEN {call.task} ELSE {})
  /\ UNCHANGED <<task, inv, subs, challenge, receipt, migrated, content, mgr, todo, refusal, history>>

\* export_artifact again, of an export whose effect is open
RetryExport(t) ==
  /\ Serving /\ rec[t]["export"] \in {"STARTED", "UNKNOWN"}
  /\ call' = Handing({t})
  /\ UNCHANGED <<store, content, mgr, todo, refusal, history>>

\* The output of a running attempt, reserved and then published.
Reserve(t) ==
  /\ Serving /\ task[t].state = "RUNNING" /\ rec[t]["p"] = "NONE"
  /\ rec' = [rec EXCEPT ![t]["p"] = "PENDING"]
  /\ UNCHANGED <<task, inv, subs, challenge, receipt, migrated, content, process, history>>

\* A missing file is put in place again; the artifacts that were marked stay
\* marked.
Publish(t) ==
  /\ Serving /\ task[t].state = "RUNNING" /\ rec[t]["p"] = "PENDING"
  /\ disk # "CORRUPT"
  /\ rec' = [rec EXCEPT ![t]["p"] = "COMMITTED"]
  /\ disk' = "GOOD" /\ blob' = "DURABLE"
  /\ UNCHANGED <<task, inv, subs, challenge, receipt, migrated, failed, process, history>>

RetireGrant(t) ==
  /\ Serving /\ rec[t]["grant"] = "ACTIVE"
  /\ rec' = [rec EXCEPT ![t]["grant"] = "REVOKED"]
  /\ UNCHANGED <<task, inv, subs, challenge, receipt, migrated, content, process, history>>

-----------------------------------------------------------------------------
(* Resolving what is inventoried. *)

\* The row of a subject in one inventory, resolved
ResolvedIn(ref, s) ==
  {IF r.ref = ref /\ r.subject = s THEN [r EXCEPT !.evidence = "RESOLVED"] ELSE r : r \in subs}

\* reconcile_recovery_subject: asked of an inventory of the episode, it
\* resolves the subject in the active one.
Reconcile(i, s) ==
  LET t == i.ref.task
      ref == IF InRecovery(t) /\ i.epoch = task[t].root /\ i.ref.ids \subseteq Active(t).ids
             THEN Active(t) ELSE i.ref IN
  /\ Serving
  /\ s \in ref.ids /\ Resolvable(t, s)
  /\ subs' = ResolvedIn(ref, s)
  /\ UNCHANGED <<task, rec, inv, challenge, receipt, migrated, content, process, history>>

Listing(t, s) == {n \in DOMAIN inv : inv[n].ref.task = t /\ s \in inv[n].ref.ids}

\* The inventory an attestation is about: the active one, else the latest.
ExportInventory(t) ==
  IF InRecovery(t) /\ "export" \in Active(t).ids THEN Active(t)
  ELSE inv[CHOOSE n \in Listing(t, "export") : \A m \in Listing(t, "export") : m <= n].ref

\* ensure_export_reconciliation_challenge: issued once for an operation.
Challenge(t) ==
  /\ Serving
  /\ rec[t]["export"] = "UNKNOWN" /\ challenge[t] = NoRef /\ Listing(t, "export") # {}
  /\ challenge' = [challenge EXCEPT ![t] = ExportInventory(t)]
  /\ UNCHANGED <<task, rec, inv, subs, receipt, migrated, content, process, history>>

\* reconcile_unknown_artifact_export_no_effect, its last transaction: the
\* operation and the row of the challenged inventory together.
Attest(t) ==
  /\ Serving
  /\ rec[t]["export"] = "UNKNOWN" /\ challenge[t] # NoRef
  /\ rec' = [rec EXCEPT ![t]["export"] = "FAILED"]
  /\ subs' = ResolvedIn(challenge[t], "export")
  /\ UNCHANGED <<task, inv, challenge, receipt, migrated, content, process, history>>

\* execution_is_contained: publications are not asked.
Contained(t) ==
  /\ rec[t]["grant"] # "ACTIVE"
  /\ rec[t]["export"] \notin {"STARTED", "UNKNOWN"}
  /\ rec[t]["damage"] # "UNKNOWN"

\* The guards that read subjects; TaskTransitions has the others.
Transition(t, to) ==
  /\ Serving
  /\ task[t].revision < MaxRevision
  /\ to \in Moves /\ AllowedTransition(task[t].state, to)
  /\ InRecovery(t) /\ to # "FAILED" => Monotonic(t) /\ AllowsExit(t)
  /\ to \in ExecutionTarget => Unresolved(t) \subseteq {"grant"}
  /\ \/ to \in {"PLANNING", "WAITING_FOR_INPUT", "FAILED"}
     \/ task[t].state = "RUNNING" /\ to = "RUNNABLE"
     => Contained(t)
  /\ to = "RUNNING" => rec[t]["grant"] = "NONE"
  /\ task' = [task EXCEPT ![t] = [state |-> to, revision |-> @.revision + 1, root |-> NoRef]]
  /\ rec' = IF to = "RUNNING" THEN [rec EXCEPT ![t]["grant"] = "ACTIVE"] ELSE rec
  /\ UNCHANGED <<inv, subs, challenge, receipt, migrated, content, process, history>>

\* Someone damages, removes or puts back the file, at any moment.
DamageFile(to) ==
  /\ disk # to /\ count.damage < MaxDamage
  /\ disk' = to
  /\ count' = [count EXCEPT !.damage = @ + 1]
  /\ UNCHANGED <<store, blob, failed, process, erred>>

-----------------------------------------------------------------------------
\* The records of a Task in each of the states a store may be opened in
Records(t, state) ==
  [s \in Subjects |->
    CASE s = "q" /\ t \in Published -> "COMMITTED"
      [] s = "grant" /\ state = "RUNNING" -> "ACTIVE"
      [] s = "export" /\ state = "RECOVERING" -> "UNKNOWN"
      [] OTHER -> "NONE"]

Entered(t) == Ref(t, 1, {"export"})

\* `lost`: the earlier build has met the missing file.
Init ==
  /\ \E stored \in [Tasks -> Stores], lost \in BOOLEAN :
       LET recovering == {t \in Tasks : stored[t] = "RECOVERING"} IN
       /\ task = [t \in Tasks |->
            [state |-> stored[t], revision |-> 2,
             root |-> IF t \in recovering THEN Entered(t) ELSE NoRef]]
       /\ lost => ~Applied
       /\ blob = IF lost THEN "MISSING" ELSE "DURABLE"
       /\ failed = IF lost THEN Legacy ELSE {}
       /\ rec = [t \in Tasks |-> IF lost THEN Marked(Records(t, stored[t])) ELSE Records(t, stored[t])]
       /\ inv = LET list == SetToSeq(recovering) IN
            [n \in 1..Len(list) |-> [ref |-> Entered(list[n]), epoch |-> Entered(list[n])]]
       /\ subs = {[ref |-> Entered(t), subject |-> "export", epoch |-> Entered(t),
                   evidence |-> "UNKNOWN"] : t \in recovering}
  /\ challenge = [t \in Tasks |-> NoRef]
  /\ disk = IF blob = "DURABLE" THEN "GOOD" ELSE "MISSING"
  /\ migrated = Applied /\ receipt = IF Applied THEN Legacy ELSE {}
  /\ mgr = "DOWN" /\ todo = {} /\ call = Idle /\ refusal = "NONE"
  /\ erred = {} /\ count = [starts |-> 0, damage |-> 0, errors |-> 0]

Startup ==
  \/ Start \/ Migrate \/ SettleExports \/ AuditStartup
  \/ RecoverDone \/ ReportDone \/ RefreshDone
  \/ \E t \in Tasks : HandoffTask(t) \/ RecoverTask(t) \/ RefreshTask(t)

Live ==
  \/ FindDamage \/ ReadMarked \/ ExportMismatch
  \/ \E outcome \in {"STARTED", "SUCCEEDED", "FAILED", "UNKNOWN"} : EndExport(outcome)
  \/ \E t \in Tasks :
       \/ HandoffStep(t) \/ HandoffFails(t) \/ RetryExport(t)
       \/ ReplayImport(t) \/ BeginExport(t) \/ Reserve(t) \/ Publish(t)
       \/ RetireGrant(t) \/ Challenge(t) \/ Attest(t)
       \/ \E to \in Moves : Transition(t, to)
  \/ \E i \in Inventories, s \in Subjects : Reconcile(i, s)

Next ==
  \/ Crash \/ Startup \/ EnterRecovering \/ Live
  \/ \E to \in {"GOOD", "MISSING", "CORRUPT"} : DamageFile(to)

Spec == Init /\ [][Next]_vars

-----------------------------------------------------------------------------
References == [task : Tasks \cup {NoTask}, basis : 0..(MaxRevision + 1), ids : SUBSET Subjects]

\* Every variable is of its declared shape.
TypeOK ==
  /\ task \in [Tasks -> [state : TaskState, revision : 1..(MaxRevision + 1), root : References]]
  /\ \A t \in Tasks : rec[t] \in [Subjects -> {"NONE", "STARTED", "UNKNOWN", "SUCCEEDED", "FAILED",
       "ACTIVE", "REVOKED", "PENDING", "COMMITTED", "DAMAGED", "ABORTED"}]
  /\ \A i \in Inventories : i.ref \in References /\ i.epoch \in References
  /\ \A r \in subs : r.subject \in r.ref.ids /\ [ref |-> r.ref, epoch |-> r.epoch] \in Inventories
  /\ challenge \in [Tasks -> References]
  /\ disk \in {"GOOD", "MISSING", "CORRUPT"} /\ blob \in {"DURABLE", "MISSING", "CORRUPT"}
  /\ failed \subseteq Legacy /\ receipt \subseteq Legacy /\ migrated \in BOOLEAN
  /\ mgr \in {"DOWN", "MIGRATE", "EXPORTS", "HANDOFF", "RECOVER", "REPORT", "REFRESH", "READY", "REFUSED"}
  /\ todo \subseteq Tasks /\ erred \subseteq Tasks
  /\ call.kind \in {"IDLE", "ENTER", "HANDOFF", "EXPORT", "MISMATCH"} /\ call.rest \subseteq Tasks

\* active_recovery_inventory never meets two inventories of one episode of
\* which neither contains the other, whatever was found and resolved between
\* them: "a fresh immutable monotonic inventory".
EpisodesGrow == \A t \in Tasks : InRecovery(t) => Monotonic(t)

\* A Task leaves RECOVERING to go on only when every subject of every
\* inventory made while it was there is settled, and is resolved in the
\* episode: recovery_allows_exit asks the inventory that holds them all.
ExitIsEarned ==
  \A t \in Tasks :
    InRecovery(t) /\ task'[t].state \notin {"RECOVERING", "FAILED"} =>
      \A i \in {j \in Inventories : j.ref.task = t /\
                   (j.epoch = task[t].root \/ j.ref.basis = task[t].revision)} :
        \A s \in i.ref.ids :
          /\ Resolvable(t, s)
          /\ \E r \in subs : /\ r.subject = s /\ r.epoch = task[t].root
                            /\ r.evidence = "RESOLVED"

\* When the manager serves and no handoff is under way, a Task that executes
\* has no subject whose outcome is unknown or whose bytes are known to be
\* damaged: every owner of a damaged content was handed to recovery, but for
\* those whose own handoff failed in this process and was not repeated yet.
DamageStopsTask ==
  Serving => \A t \in Tasks \ erred : task[t].state \in Executing =>
    \A s \in Subjects : rec[t][s] \notin {"UNKNOWN", "DAMAGED"}

\* When the manager serves and no handoff is under way, the largest inventory
\* of a Task in recovery has everything that is open, also what was found
\* after the Task entered recovery (persist_recovery_inventory_in_transaction
\* and the refresh at startup), but for a Task whose own handoff failed in
\* this process.
RecoveryCovers ==
  Serving => \A t \in Tasks \ erred : InRecovery(t) => Unresolved(t) \subseteq Active(t).ids

\* migrate_legacy_keyed_import_receipts either gives every keyed import its
\* receipt or leaves every owner of the damaged content, of whatever kind,
\* with an unresolvable operation and an inventory that lists it.
OwnersQuarantined ==
  migrated /\ receipt # Legacy =>
    /\ receipt = {} /\ failed = Legacy
    /\ \A t \in Legacy \cup Plain \cup Published :
         rec[t]["damage"] = "UNKNOWN" /\ Listing(t, "damage") # {}

=============================================================================

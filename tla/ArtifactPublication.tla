-------------------------- MODULE ArtifactPublication --------------------------
(***************************************************************************)
(* The content-addressed blob store: publication of sealed outputs and     *)
(* imports share one blob per content, are placed through a private        *)
(* pending file and a hard link, and are committed in the database         *)
(* afterwards.  The manager is one thread; it may stop between any two     *)
(* steps, and then startup settles what it finds.  Blobs may also be       *)
(* damaged from outside.                                                   *)
(*                                                                         *)
(* Staging bytes are taken as sealed (ArtifactStaging), and a stop inside  *)
(* a marked primitive freezes the store (TrustedTime).                     *)
(***************************************************************************)
EXTENDS Naturals, FiniteSets

CONSTANTS
  Outs,       \* output allocations
  Pubs,       \* publication ids
  Imports,    \* placement tokens of imports
  Contents,   \* content hashes
  OutOf,      \* allocation named by each publication request
  ContentOf,  \* content of each publication's staging file and each import
  MaxDamage,  \* how often a blob is damaged from outside
  MaxCrash    \* how often the manager stops

Ids == Pubs \cup Imports
NoPub == "none"

\* What the instances have to satisfy.
PublicationAssumption ==
  /\ Pubs \cap Imports = {} /\ NoPub \notin Ids
  /\ OutOf \in [Pubs -> Outs] /\ ContentOf \in [Ids -> Contents]
  /\ MaxDamage \in Nat /\ MaxCrash \in Nat

VARIABLES
  alloc,       \* artifact_output_allocations: state and publication_id
  lapsed,      \* allocations whose expires_at has passed
  denied,      \* publications whose authority is gone
  recovering,  \* the Task is RECOVERING
  pub,         \* artifact_publications
  art,         \* integrity_state of the artifact each operation created
  blob,        \* durability_state of artifact_blobs
  receipt,     \* artifact_placement_receipts
  final,       \* blobs/sha256/...
  pending,     \* blobs/pending/<digest>-<token>
  dirty,       \* contents damaged since they were last hashed
  count,       \* damages and stops so far
  mgr          \* program counter of the manager

vars == <<alloc, lapsed, denied, recovering, pub, art, blob, receipt, final, pending, dirty, count, mgr>>

-----------------------------------------------------------------------------
Open == {"WRITING", "FINALIZING"}   \* a sealed output that can still be published
Ended == {"FAILED", "ABORTED", "EXPIRED"}
Users(c) == {i \in Ids : ContentOf[i] = c /\ art[i] # "none"}

Idle == [pc |-> "idle", id |-> NoPub, reused |-> FALSE, todo |-> {}]
At(pc) == mgr.pc = pc
Goto(pc) == mgr' = [mgr EXCEPT !.pc = pc]
Return == mgr' = Idle
Cur == mgr.id
Content == ContentOf[Cur]
Publishing == Cur \in Pubs
Out == alloc[OutOf[Cur]]

Rows == <<alloc, pub, art, blob, receipt>>
Files == <<final, pending>>
World == <<lapsed, denied, recovering, dirty, count>>

-----------------------------------------------------------------------------
(* What each step checks again. *)

\* Mutant: the deadline of the output is not looked at.
AuthorizedLate(p) == alloc[OutOf[p]].state \in Open /\ p \notin denied

\* validate_publication_allocation, lineage_authorized,
\* validate_publication_authority and the coordinator's grants
Authorized(p) ==
  /\ alloc[OutOf[p]].state \in Open /\ OutOf[p] \notin lapsed /\ p \notin denied

\* publication_placement_primitive_checked: before each primitive; an import
\* checks its Task only where it writes its receipt.
PlacementAdmitted ==
  Publishing => ~recovering /\ pub[Cur] = "PENDING" /\ Authorized(Cur) /\ Out.state = "FINALIZING"

\* qualifying_placement_receipt
Receipted(i) == i \in receipt
ReceiptFor(c) == \E i \in receipt : ContentOf[i] = c

\* Mutant: only the row of this publication protects the blob.
ReferencedByPub(c) == Publishing /\ art[Cur] # "none"

\* The rows that keep a blob: remove_uncommitted_blob_if_unreferenced
Referenced(c) == blob[c] # "NONE" \/ Users(c) # {}

-----------------------------------------------------------------------------
(* Rows. *)

SetOut(p, s) == alloc' = [alloc EXCEPT ![OutOf[p]] = [state |-> s, pub |-> p]]

\* Mutant: the output keeps its state.
TerminateAlone(p, s) == pub' = [pub EXCEPT ![p] = s] /\ UNCHANGED alloc

\* fail_pending_publication and abort_pending_publication
Terminate(p, s) ==
  /\ pub' = [pub EXCEPT ![p] = s]
  /\ IF alloc[OutOf[p]].state \in Open /\ alloc[OutOf[p]].pub \in {NoPub, p}
     THEN SetOut(p, s) ELSE UNCHANGED alloc

\* mark_blob_failed, mark_content_hash_failed, mark_integrity_failed
MarkFailed(c, s) ==
  /\ blob' = [blob EXCEPT ![c] = IF @ = "NONE" THEN @ ELSE s]
  /\ art' = [i \in Ids |-> IF i \in Users(c) THEN "failed" ELSE art[i]]

\* upsert_durable_blob, and the artifact with its attachment and event
CommitArtifact ==
  /\ blob' = [blob EXCEPT ![Content] = "DURABLE"]
  /\ art' = [art EXCEPT ![Cur] = "verified"]

-----------------------------------------------------------------------------
(* publish_artifact_output: the request up to placement. *)

\* reserve_publication; a refused request leaves no row.
Reserve(p) ==
  /\ At("idle") /\ pub[p] = "NONE" /\ ~recovering
  /\ alloc[OutOf[p]].state \in Open /\ OutOf[p] \notin lapsed
  /\ \A q \in Pubs : OutOf[q] = OutOf[p] => pub[q] = "NONE"
  /\ pub' = [pub EXCEPT ![p] = "PENDING"]
  /\ mgr' = [Idle EXCEPT !.pc = "begin", !.id = p]
  /\ UNCHANGED <<alloc, art, blob, receipt, Files, World>>

\* The same request again, after an error or a restart
Resume(p) ==
  /\ At("idle") /\ pub[p] = "PENDING" /\ ~recovering
  /\ mgr' = [Idle EXCEPT !.pc = "begin", !.id = p]
  /\ UNCHANGED <<Rows, Files, World>>

\* begin_reserved_publication, with validate_pending_publication_authority
Begin ==
  /\ At("begin") /\ Authorized(Cur) /\ ~recovering
  /\ IF Out.state = "WRITING" THEN SetOut(Cur, "FINALIZING") ELSE UNCHANGED alloc
  /\ Goto("create")
  /\ UNCHANGED <<pub, art, blob, receipt, Files, World>>

BeginDenied ==
  /\ At("begin") /\ ~Authorized(Cur)
  /\ Goto("fail")
  /\ UNCHANGED <<Rows, Files, World>>

\* fail_pending_publication; refused while the Task is recovering
Fail ==
  /\ At("fail") /\ ~recovering
  /\ Terminate(Cur, "FAILED")
  /\ Return
  /\ UNCHANGED <<art, blob, receipt, Files, World>>

\* abort_pending_publication: a reservation left by a crash
Abort(p) ==
  /\ At("idle") /\ pub[p] = "PENDING"
  /\ alloc[OutOf[p]].state \in Open /\ alloc[OutOf[p]].pub \in {NoPub, p}
  /\ Terminate(p, "ABORTED")
  /\ UNCHANGED <<art, blob, receipt, Files, World, mgr>>

-----------------------------------------------------------------------------
(* import_artifact up to placement: a new token, streamed into staging. *)

Import(i) ==
  /\ At("idle") /\ art[i] = "none" /\ pending[i] = "absent" /\ ~Receipted(i) /\ ~recovering
  /\ mgr' = [Idle EXCEPT !.pc = "create", !.id = i]
  /\ UNCHANGED <<Rows, Files, World>>

-----------------------------------------------------------------------------
(* place_blob. *)

\* create_new: a pending file left by an earlier attempt refuses the retry.
CreatePending ==
  /\ At("create") /\ PlacementAdmitted /\ pending[Cur] = "absent"
  /\ pending' = [pending EXCEPT ![Cur] = "partial"]
  /\ Goto("copy")
  /\ UNCHANGED <<Rows, final, World>>

CreateRefused ==
  /\ At("create") /\ pending[Cur] # "absent"
  /\ Return
  /\ UNCHANGED <<Rows, Files, World>>

\* copy_publication_blob_to_pending, copy_blob_to_pending
CopyPending ==
  /\ At("copy") /\ PlacementAdmitted
  /\ pending' = [pending EXCEPT ![Cur] = "full"]
  /\ Goto(IF Publishing THEN "link" ELSE "receipt")
  /\ UNCHANGED <<Rows, final, World>>

\* remove_placement_pending after a failed copy
CopyFails ==
  /\ At("copy") /\ PlacementAdmitted
  /\ pending' = [pending EXCEPT ![Cur] = "absent"]
  /\ Return
  /\ UNCHANGED <<Rows, final, World>>

\* admit_import_placement: the receipt precedes the link.
AdmitImport ==
  /\ At("receipt") /\ ~recovering
  /\ receipt' = receipt \cup {Cur}
  /\ Goto("link")
  /\ UNCHANGED <<alloc, pub, art, blob, Files, World>>

\* The blob was hashed as it is on disk now.
Seen == dirty' = dirty \ {Content} /\ UNCHANGED <<lapsed, denied, recovering, count>>

\* The hard link; a publication's receipt commits with it.
Link ==
  /\ At("link") /\ PlacementAdmitted /\ final[Content] = "absent"
  /\ final' = [final EXCEPT ![Content] = "good"]
  /\ receipt' = receipt \cup {Cur}
  /\ Goto("unlink")
  /\ Seen
  /\ UNCHANGED <<alloc, pub, art, blob, pending>>

\* The blob exists: hashed, then shared.
LinkReuses ==
  /\ At("link") /\ PlacementAdmitted /\ final[Content] = "good"
  /\ mgr' = [mgr EXCEPT !.pc = "unlink", !.reused = TRUE]
  /\ Seen
  /\ UNCHANGED <<Rows, Files>>

\* The existing blob has other bytes: everything that uses it is marked.
LinkCollides ==
  /\ At("link") /\ PlacementAdmitted /\ final[Content] = "bad"
  /\ MarkFailed(Content, "CORRUPT")
  /\ Goto("quarantine")
  /\ UNCHANGED <<alloc, pub, receipt, Files, World>>

\* quarantine_publication_blob_collision, quarantine_blob_collision
QuarantineCollision ==
  /\ At("quarantine") /\ PlacementAdmitted
  /\ final' = [final EXCEPT ![Content] = "absent"]
  /\ pending' = [pending EXCEPT ![Cur] = "absent"]
  /\ IF Publishing THEN Goto("fail") ELSE Return
  /\ UNCHANGED <<Rows, World>>

\* Sync the parent, unlink the pending name, sync its directory.
UnlinkPending ==
  /\ At("unlink") /\ PlacementAdmitted
  /\ pending' = [pending EXCEPT ![Cur] = "absent"]
  /\ Goto("commit")
  /\ UNCHANGED <<Rows, final, World>>

\* A primitive that is refused or fails ends the call; files and rows stay.
PlacementFails ==
  /\ mgr.pc \in {"create", "copy", "receipt", "link", "quarantine", "unlink"}
  /\ Return
  /\ UNCHANGED <<Rows, Files, World>>

-----------------------------------------------------------------------------
(* The commit, and taking back a blob that was not committed. *)

CommitPublication ==
  /\ At("commit") /\ PlacementAdmitted /\ Publishing
  /\ CommitArtifact
  /\ pub' = [pub EXCEPT ![Cur] = "COMMITTED"]
  /\ SetOut(Cur, "PUBLISHED")
  /\ Return
  /\ UNCHANGED <<receipt, Files, World>>

CommitImport ==
  /\ At("commit") /\ ~Publishing /\ ~recovering
  /\ CommitArtifact
  /\ Return
  /\ UNCHANGED <<alloc, pub, receipt, Files, World>>

\* A denial, or an error before the commit: a blob this call linked is removed.
CommitDenied ==
  /\ At("commit")
  /\ Goto(IF ~mgr.reused THEN "remove"
          ELSE IF Publishing /\ ~recovering /\ ~Authorized(Cur) THEN "fail" ELSE "return")
  /\ UNCHANGED <<Rows, Files, World>>

\* remove_uncommitted_publication_blob_if_unreferenced authenticates the
\* pending publication; remove_uncommitted_blob_if_unreferenced does not.
Removable ==
  /\ ~Referenced(Content)
  /\ Publishing => pub[Cur] = "PENDING" /\ Out = [state |-> "FINALIZING", pub |-> Cur]

RemoveBlob ==
  /\ At("remove") /\ Removable
  /\ final' = [final EXCEPT ![Content] = "absent"]
  /\ Goto(IF Publishing /\ ~recovering /\ ~Authorized(Cur) THEN "fail" ELSE "return")
  /\ UNCHANGED <<Rows, pending, World>>

EndCall ==
  /\ At("return") \/ (At("remove") /\ ~Removable) \/ (recovering /\ mgr.pc \in {"begin", "fail"})
  /\ Return
  /\ UNCHANGED <<Rows, Files, World>>

-----------------------------------------------------------------------------
(* Replays of committed operations. *)

\* authenticate_committed_publication, replay_keyed_import: the blob is hashed
\* again; the artifact is reported only when it is verified and intact.
Replay(i) ==
  /\ At("idle") /\ art[i] = "verified" /\ final[ContentOf[i]] # "good"
  /\ MarkFailed(ContentOf[i], IF final[ContentOf[i]] = "bad" THEN "CORRUPT" ELSE "MISSING")
  /\ UNCHANGED <<alloc, pub, receipt, Files, World, mgr>>

-----------------------------------------------------------------------------
(* Stop and startup: reconcile_artifacts_startup. *)

Stop ==
  /\ count.crash < MaxCrash
  /\ count' = [count EXCEPT !.crash = @ + 1]
  /\ mgr' = [Idle EXCEPT !.pc = "placements", !.todo = {i \in Ids : pending[i] # "absent"}]
  /\ UNCHANGED <<Rows, Files, lapsed, denied, recovering, dirty>>

Done(x) == mgr' = [mgr EXCEPT !.todo = @ \ {x}]

\* reconcile_pending_blob_placements: a partial copy is removed, one without a
\* receipt is kept, and a blob that is already there is never replaced.
ReconcilePlacement(i) ==
  /\ At("placements") /\ i \in mgr.todo
  /\ IF pending[i] = "full" /\ Receipted(i)
     THEN IF final[ContentOf[i]] = "bad" THEN UNCHANGED Files
          ELSE /\ final' = [final EXCEPT ![ContentOf[i]] = "good"]
               /\ pending' = [pending EXCEPT ![i] = "absent"]
     ELSE /\ pending' = [pending EXCEPT ![i] = IF @ = "full" THEN @ ELSE "absent"]
          /\ UNCHANGED final
  /\ Done(i)
  /\ UNCHANGED <<Rows, World>>

PlacementsDone ==
  /\ At("placements") /\ mgr.todo = {}
  /\ mgr' = [mgr EXCEPT !.pc = "audit", !.todo = Contents]
  /\ UNCHANGED <<Rows, Files, World>>

\* A corrupt blob that a receipted pending file collides with stays in place.
Barrier(c) == \E i \in Ids : ContentOf[i] = c /\ pending[i] = "full" /\ Receipted(i)

\* The blob audit, then the files that no row knows.
AuditKnown(c) ==
  /\ blob[c] # "NONE"
  /\ IF final[c] = "good" THEN UNCHANGED <<blob, art>>
     ELSE MarkFailed(c, IF final[c] = "bad" THEN "CORRUPT" ELSE "MISSING")
  /\ UNCHANGED final

AuditUnknown(c) ==
  /\ blob[c] = "NONE"
  /\ final' = [final EXCEPT ![c] = IF @ = "bad" /\ ~Barrier(c) THEN "absent" ELSE @]
  /\ blob' = [blob EXCEPT ![c] = IF final[c] = "good" /\ ReceiptFor(c) THEN "ORPHANED" ELSE @]
  /\ UNCHANGED art

Audit(c) ==
  /\ At("audit") /\ c \in mgr.todo
  /\ AuditKnown(c) \/ AuditUnknown(c)
  /\ dirty' = dirty \ {c}
  /\ Done(c)
  /\ UNCHANGED <<alloc, pub, receipt, pending, lapsed, denied, recovering, count>>

AuditDone ==
  /\ At("audit") /\ mgr.todo = {}
  /\ mgr' = [mgr EXCEPT !.pc = "outputs", !.todo = Outs]
  /\ UNCHANGED <<Rows, Files, World>>

PendingOf(o) == {p \in Pubs : OutOf[p] = o /\ pub[p] = "PENDING"}

\* What startup requires of an output it settles: else it gives up.
OutputCoherent(o) ==
  /\ Cardinality(PendingOf(o)) <= 1
  /\ alloc[o].pub # NoPub => PendingOf(o) \subseteq {alloc[o].pub}
  /\ alloc[o].state = "FINALIZING" => PendingOf(o) # {}
  /\ alloc[o].state \in Ended /\ alloc[o].pub # NoPub /\ PendingOf(o) = {} =>
       pub[alloc[o].pub] \in {"FAILED", "ABORTED"}

\* Outputs that are over: by their deadline, or because the Task ended.
SettleOutput(o) ==
  LET expired == o \in lapsed
      target == IF alloc[o].state \in Ended THEN alloc[o].state
                ELSE IF expired THEN "EXPIRED" ELSE "ABORTED" IN
  /\ OutputCoherent(o)
  /\ \/ alloc[o].state \in Open /\ (expired \/ PendingOf(o) \subseteq denied)
     \/ alloc[o].state \in Ended
  /\ pub' = [p \in Pubs |->
       IF p \notin PendingOf(o) THEN pub[p]
       ELSE IF expired \/ alloc[o].state \in {"EXPIRED", "FAILED"} THEN "FAILED" ELSE "ABORTED"]
  /\ alloc' = [alloc EXCEPT ![o] =
       [state |-> target,
        pub |-> IF @.pub = NoPub /\ PendingOf(o) # {} THEN CHOOSE p \in PendingOf(o) : TRUE ELSE @.pub]]

ReconcileOutput(o) ==
  /\ At("outputs") /\ o \in mgr.todo
  /\ \/ SettleOutput(o)
     \/ /\ alloc[o].state \notin Ended /\ (alloc[o].state \in Open => o \notin lapsed)
        /\ UNCHANGED <<alloc, pub>>
  /\ Done(o)
  /\ UNCHANGED <<art, blob, receipt, Files, World>>

OutputsDone ==
  /\ At("outputs") /\ mgr.todo = {}
  /\ Return
  /\ UNCHANGED <<Rows, Files, World>>

-----------------------------------------------------------------------------
(* The rest of the system. *)

Keep == UNCHANGED <<Rows, pending, mgr>>

Damage(c) ==
  /\ count.damage < MaxDamage /\ final[c] = "good"
  /\ final' \in {[final EXCEPT ![c] = s] : s \in {"bad", "absent"}}
  /\ dirty' = dirty \cup {c}
  /\ count' = [count EXCEPT !.damage = @ + 1]
  /\ Keep /\ UNCHANGED <<lapsed, denied, recovering>>

Lapse(o) ==
  /\ o \notin lapsed /\ lapsed' = lapsed \cup {o}
  /\ Keep /\ UNCHANGED <<final, denied, recovering, dirty, count>>

Deny(p) ==
  /\ p \notin denied /\ denied' = denied \cup {p}
  /\ Keep /\ UNCHANGED <<final, lapsed, recovering, dirty, count>>

StartRecovering ==
  /\ ~recovering /\ recovering' = TRUE
  /\ Keep /\ UNCHANGED <<final, lapsed, denied, dirty, count>>

EndRecovering ==
  /\ recovering /\ recovering' = FALSE
  /\ Keep /\ UNCHANGED <<final, lapsed, denied, dirty, count>>

-----------------------------------------------------------------------------
Init ==
  /\ alloc = [o \in Outs |-> [state |-> "WRITING", pub |-> NoPub]]
  /\ lapsed = {} /\ denied = {} /\ recovering = FALSE
  /\ pub = [p \in Pubs |-> "NONE"] /\ art = [i \in Ids |-> "none"]
  /\ blob = [c \in Contents |-> "NONE"] /\ receipt = {}
  /\ final = [c \in Contents |-> "absent"] /\ pending = [i \in Ids |-> "absent"]
  /\ dirty = {} /\ count = [damage |-> 0, crash |-> 0] /\ mgr = Idle

Request == (\E p \in Pubs : Reserve(p) \/ Resume(p) \/ Abort(p)) \/ \E i \in Imports : Import(i)

Place ==
  \/ CreatePending \/ CreateRefused \/ CopyPending \/ CopyFails \/ AdmitImport
  \/ Link \/ LinkReuses \/ LinkCollides \/ QuarantineCollision \/ UnlinkPending \/ PlacementFails

Finish ==
  \/ Begin \/ BeginDenied \/ Fail
  \/ CommitPublication \/ CommitImport \/ CommitDenied \/ RemoveBlob \/ EndCall

Startup ==
  \/ \E i \in Ids : ReconcilePlacement(i)
  \/ \E c \in Contents : Audit(c)
  \/ \E o \in Outs : ReconcileOutput(o)
  \/ PlacementsDone \/ AuditDone \/ OutputsDone

Environment ==
  \/ \E c \in Contents : Damage(c)
  \/ \E o \in Outs : Lapse(o)
  \/ \E p \in Pubs : Deny(p)
  \/ StartRecovering \/ EndRecovering

Next ==
  \/ Request \/ Place \/ Finish \/ (\E i \in Ids : Replay(i))
  \/ Stop \/ Startup \/ Environment

Spec == Init /\ [][Next]_vars

-----------------------------------------------------------------------------
(* Properties. *)

\* Every variable holds a value of its type.
TypeOK ==
  /\ alloc \in [Outs -> [state : Open \cup Ended \cup {"PUBLISHED"}, pub : Pubs \cup {NoPub}]]
  /\ pub \in [Pubs -> {"NONE", "PENDING", "COMMITTED", "FAILED", "ABORTED"}]
  /\ art \in [Ids -> {"none", "verified", "failed"}]
  /\ blob \in [Contents -> {"NONE", "DURABLE", "ORPHANED", "MISSING", "CORRUPT"}]
  /\ final \in [Contents -> {"absent", "good", "bad"}]
  /\ pending \in [Ids -> {"absent", "partial", "full"}]
  /\ receipt \subseteq Ids

\* An artifact that counts as verified has its blob: no failure, retry, clean-
\* up or startup of another publication or import of the same content takes it
\* away, and damage from outside is noticed when the blob is next hashed.
VerifiedIsReadable ==
  \A i \in Ids : art[i] = "verified" =>
    blob[ContentOf[i]] = "DURABLE" /\ (ContentOf[i] \notin dirty => final[ContentOf[i]] = "good")

\* Startup never gives up on rows this code wrote: whenever the manager stops,
\* an output being finalized has exactly one pending publication, its own, and
\* an output that ended has none that could still be published.
StartupNeverGivesUp == \A o \in Outs : OutputCoherent(o)

\* What the store calls verified can be read, and the next startup accepts
\* what the last manager left.
PublicationSafe == VerifiedIsReadable /\ StartupNeverGivesUp

\* A publication never stays undecided: once its Task stops recovering for
\* good, repeating the request settles it, at the latest after the deadline of
\* its output, although the residue of an earlier attempt blocks placement.
Undecided(p) == pub[p] = "PENDING"
Settled(p) == pub[p] \in {"COMMITTED", "FAILED", "ABORTED"}

=============================================================================

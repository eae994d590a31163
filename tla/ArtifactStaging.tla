---------------------------- MODULE ArtifactStaging ----------------------------
(***************************************************************************)
(* One output allocation of the Artifact Store: the private staging file   *)
(* that writer handles append to, the generation fence that lets a new     *)
(* handle replace an old one, and the seal that freezes the bytes before   *)
(* they are published.                                                     *)
(*                                                                         *)
(* A handle runs in its own thread and may outlive its manager.  Each file *)
(* primitive runs inside one write transaction together with its fence, so *)
(* it is one step here; between two primitives everybody else may run, the *)
(* process may die, or the machine may lose what was never synced.  The    *)
(* marker around a primitive, and a death in the middle of one, are in     *)
(* TrustedTime.                                                            *)
(***************************************************************************)
EXTENDS Naturals, Sequences

CONSTANTS
  Writers,   \* writer handles
  MaxGen,    \* bound on writer_generation
  MaxSize,   \* max_size_bytes of the allocation
  MaxEpoch   \* how often the store is claimed

\* What the instances have to satisfy.
StagingAssumption ==
  /\ "manager" \notin Writers
  /\ MaxGen \in Nat /\ MaxSize \in Nat /\ MaxEpoch \in Nat

Sealers == Writers \cup {"manager"}

VARIABLES
  row,        \* the allocation's row: state and writer_generation
  lapsed,     \* expires_at has passed
  authority,  \* the writer's grant, binding and Task still allow the write
  lease,      \* fence_epoch
  file,       \* the staging file; a byte is the generation that wrote it
  inode,      \* the seal's evidence
  names,      \* the names it has: seal.pending, seal
  diskNames,  \* the names as of the last sync of staging/
  proc,       \* program counter of each handle and of the manager
  acked,      \* bytes of the last finish that returned Ok over a synced seal
  published   \* bytes copied to the blob store

vars == <<row, lapsed, authority, lease, file, inode, names, diskNames, proc, acked, published>>

-----------------------------------------------------------------------------
States == {"NONE", "ALLOCATED", "WRITING", "FINALIZING", "PUBLISHED", "FAILED", "ABORTED", "EXPIRED"}
Live == {"WRITING", "FINALIZING"}
Removable == {"ALLOCATED", "PUBLISHED", "FAILED", "ABORTED", "EXPIRED"}

None == <<0>>                      \* no content: 0 is no generation
NoFile == [here |-> FALSE, bytes |-> <<>>, synced |-> 0]
NewFile == [NoFile EXCEPT !.here = TRUE]
EmptySeal == [kind |-> "Truncated", bytes |-> <<>>, synced |-> FALSE]

Gone == [pc |-> "gone", gen |-> 0, epoch |-> 0, written |-> 0, hash |-> None]
Handle(g, n) == [pc |-> "open", gen |-> g, epoch |-> lease, written |-> n, hash |-> None]
Idle == [Gone EXCEPT !.pc = "idle", !.epoch = lease]

At(a, pc) == proc[a].pc = pc
Goto(a, pc) == proc' = [proc EXCEPT ![a].pc = pc]
Manager(pc) == At("manager", pc) /\ proc["manager"].epoch = lease
Serving == Manager("idle")
Opening == {"create", "sync_new", "admit"}
\* Repairs at startup carry no writer generation.
Starting(a) == a = "manager" /\ proc[a].gen = 0 /\ proc[a].pc \notin Opening

Kind(name) == IF name \in names THEN inode.kind ELSE "Absent"
Complete(name) == Kind(name) = "Complete"

\* ensure_writer_unsealed
Unsealed == names = {}

Disk == <<file, inode, names, diskNames>>
Row == <<row, lapsed, authority, lease>>
Ghosts == <<acked, published>>

-----------------------------------------------------------------------------
(* Authority. *)

\* validate_writer_authority with coordinator_writer_grants_valid_in
WriterAuthority(epoch) ==
  epoch = lease /\ row.state = "WRITING" /\ ~lapsed /\ authority

\* Mutant: a replaced handle passes while its lease and grant hold.
FenceByLease(a) == WriterAuthority(proc[a].epoch)

\* validate_writer_fence
WriterFence(a) == WriterAuthority(proc[a].epoch) /\ proc[a].gen = row.gen

\* The admission of each seal primitive: fenced, except for startup repairs.
Admitted(a) == Starting(a) \/ WriterFence(a)

\* validate_staging_open_pin
OpenPin == Manager(proc["manager"].pc) /\ row.state = "ALLOCATED" /\ ~lapsed /\ authority

\* Deadlines pass, grants are revoked, Tasks stop or start recovering.
Lapse == ~lapsed /\ lapsed' = TRUE /\ UNCHANGED <<row, authority, lease, Disk, proc, Ghosts>>
Revoke == authority /\ authority' = FALSE /\ UNCHANGED <<row, lapsed, lease, Disk, proc, Ghosts>>

-----------------------------------------------------------------------------
(* Allocation and opening. *)

\* allocate_artifact_output; a replay finds the row and changes nothing.
Allocate ==
  /\ Serving /\ row.state = "NONE" /\ ~lapsed /\ authority
  /\ row' = [row EXCEPT !.state = "ALLOCATED"]
  /\ UNCHANGED <<lapsed, authority, lease, Disk, proc, Ghosts>>

\* open_artifact_output on ALLOCATED: the row and the grant are pinned.
BeginOpen ==
  /\ Serving /\ OpenPin
  /\ Goto("manager", "create")
  /\ UNCHANGED <<Row, Disk, Ghosts>>

\* open_artifact_output after the deadline
OpenExpired ==
  /\ Serving /\ row.state = "ALLOCATED" /\ lapsed
  /\ row' = [row EXCEPT !.state = "EXPIRED"]
  /\ UNCHANGED <<lapsed, authority, lease, Disk, proc, Ghosts>>

\* staging_open_primitive "create_new": residue of an earlier attempt refuses.
CreateStaging ==
  /\ Manager("create") /\ OpenPin /\ ~file.here
  /\ file' = NewFile
  /\ Goto("manager", "sync_new")
  /\ UNCHANGED <<Row, inode, names, diskNames, Ghosts>>

\* "permissions", "file_sync" and "dir_sync" of the new, still empty file
SyncNewStaging ==
  /\ Manager("sync_new") /\ OpenPin
  /\ diskNames' = names
  /\ Goto("manager", "admit")
  /\ UNCHANGED <<Row, file, inode, names, Ghosts>>

\* The final admission: the pin still holds, the grant is consumed, and the
\* handle gets the next generation.  A lost acknowledgement is read back.
AdmitWriter(w) ==
  /\ Manager("admit") /\ OpenPin /\ row.gen < MaxGen /\ At(w, "gone")
  /\ row' = [state |-> "WRITING", gen |-> row.gen + 1]
  /\ proc' = [proc EXCEPT !["manager"] = Idle, ![w] = Handle(row.gen + 1, 0)]
  /\ UNCHANGED <<lapsed, authority, lease, Disk, Ghosts>>

\* open_artifact_output on WRITING: the new handle appends after what is
\* there, unless the finish protocol has begun.
Reopen(w) ==
  /\ Serving /\ WriterAuthority(lease) /\ Unsealed /\ file.here
  /\ Len(file.bytes) <= MaxSize /\ row.gen < MaxGen /\ At(w, "gone")
  /\ row' = [row EXCEPT !.gen = @ + 1]
  /\ proc' = [proc EXCEPT ![w] = Handle(row.gen + 1, Len(file.bytes))]
  /\ UNCHANGED <<lapsed, authority, lease, Disk, Ghosts>>

-----------------------------------------------------------------------------
(* The handle. *)

Append1(w) == file' = [file EXCEPT !.bytes = Append(@, proc[w].gen)]

\* ArtifactStagingWriter::write
Write(w) ==
  /\ At(w, "open") /\ WriterFence(w) /\ Unsealed /\ proc[w].written < MaxSize
  /\ Append1(w)
  /\ proc' = [proc EXCEPT ![w].written = @ + 1]
  /\ UNCHANGED <<Row, inode, names, diskNames, Ghosts>>

\* A write whose primitive fails may have appended; the handle is poisoned.
FailWrite(w) ==
  /\ At(w, "open") /\ WriterFence(w) /\ Unsealed /\ proc[w].written < MaxSize
  /\ Append1(w) \/ UNCHANGED file
  /\ proc' = [proc EXCEPT ![w] = Gone]
  /\ UNCHANGED <<Row, inode, names, diskNames, Ghosts>>

\* finish: flush and sync_all, refused once a seal name exists
SyncStaging(w) ==
  /\ At(w, "open") /\ WriterFence(w) /\ Unsealed
  /\ file' = [file EXCEPT !.synced = Len(file.bytes)]
  /\ Goto(w, "hash")
  /\ UNCHANGED <<Row, inode, names, diskNames, Ghosts>>

\* finish: hash_reader, outside any transaction
HashStaging(w) ==
  /\ At(w, "hash") /\ Len(file.bytes) = proc[w].written
  /\ proc' = [proc EXCEPT ![w].pc = "create_seal", ![w].hash = file.bytes]
  /\ UNCHANGED <<Row, Disk, Ghosts>>

-----------------------------------------------------------------------------
(* Writing the seal: write_staging_seal_live, _atomically at startup. *)

CreateSeal(a) ==
  /\ At(a, "create_seal") /\ Admitted(a) /\ Unsealed
  /\ inode' = EmptySeal /\ names' = {"pending"}
  /\ Goto(a, "fill_seal")
  /\ UNCHANGED <<Row, file, diskNames, Ghosts>>

FillSeal(a) ==
  /\ At(a, "fill_seal") /\ Admitted(a)
  /\ inode' = [inode EXCEPT !.kind = "Complete", !.bytes = proc[a].hash]
  /\ Goto(a, "sync_seal")
  /\ UNCHANGED <<Row, file, names, diskNames, Ghosts>>

SyncSeal(a) ==
  /\ At(a, "sync_seal") /\ Admitted(a)
  /\ inode' = [inode EXCEPT !.synced = TRUE]
  /\ Goto(a, "sync_dir")
  /\ UNCHANGED <<Row, file, names, diskNames, Ghosts>>

SyncSealDir(a) ==
  /\ At(a, "sync_dir") /\ Admitted(a)
  /\ diskNames' = names
  /\ Goto(a, "rename_seal")
  /\ UNCHANGED <<Row, file, inode, names, Ghosts>>

RenameSeal(a) ==
  /\ At(a, "rename_seal") /\ Admitted(a)
  /\ names' = {"final"}
  /\ Goto(a, "sync_final")
  /\ UNCHANGED <<Row, file, inode, diskNames, Ghosts>>

\* sync_completed_staging_seal_directory; only now does finish return Ok.
SyncFinal(a) ==
  /\ At(a, "sync_final") /\ Admitted(a)
  /\ diskNames' = names
  /\ acked' = IF Starting(a) \/ ~inode.synced THEN acked ELSE proc[a].hash
  /\ proc' = [proc EXCEPT ![a] = IF a = "manager" THEN Idle ELSE Gone]
  /\ UNCHANGED <<Row, file, inode, names, published>>

\* An error, a denial or a dropped handle ends an operation at any point.
Abandon(a) ==
  /\ ~At(a, "gone") /\ ~At(a, "idle") /\ ~Starting(a)
  /\ proc' = [proc EXCEPT ![a] = IF a = "manager" THEN Idle ELSE Gone]
  /\ UNCHANGED <<Row, Disk, Ghosts>>

-----------------------------------------------------------------------------
(* Finishing again, and repairing at startup. *)

\* Mutant: a retry is refused, like a new handle, once a seal name exists.
RetryFinishUnsealed ==
  /\ Serving /\ WriterAuthority(lease) /\ row.gen < MaxGen /\ Unsealed
  /\ row' = [row EXCEPT !.gen = @ + 1]
  /\ proc' = [proc EXCEPT !["manager"].pc = "evidence", !["manager"].gen = row.gen + 1]
  /\ UNCHANGED <<lapsed, authority, lease, Disk, Ghosts>>

\* retry_bound_artifact_output_finish: the generation first, so that the
\* handle it replaces can no longer touch the file.
RetryFinish ==
  /\ Serving /\ WriterAuthority(lease) /\ row.gen < MaxGen
  /\ row' = [row EXCEPT !.gen = @ + 1]
  /\ proc' = [proc EXCEPT !["manager"].pc = "evidence", !["manager"].gen = row.gen + 1]
  /\ UNCHANGED <<lapsed, authority, lease, Disk, Ghosts>>

\* resolve_staging_seal_evidence_live, resolve_staging_seal_evidence and
\* reconcile_interrupted_staging_seal: what the two names ask for.
AfterEvidence ==
  CASE Complete("final") /\ Complete("pending") -> "remove_pending"
    [] ~Complete("final") /\ Complete("pending") -> "rename_seal"
    [] Complete("final") /\ ~Complete("pending") -> "sync_final"
    [] OTHER -> IF Starting("manager") THEN "remove_seal" ELSE "sync_retry"

\* validate_staging_seal against the staging bytes
SealValid == names # {} /\ inode.kind = "Complete" => file.here /\ inode.bytes = file.bytes

ReadEvidence ==
  /\ Manager("evidence") /\ SealValid
  /\ proc' = [proc EXCEPT !["manager"].pc = AfterEvidence, !["manager"].hash = file.bytes]
  /\ UNCHANGED <<Row, Disk, Ghosts>>

\* The retry syncs the staging file before it attests its bytes again.
SyncRetry ==
  /\ Manager("sync_retry") /\ Admitted("manager")
  /\ file' = [file EXCEPT !.synced = Len(file.bytes)]
  /\ Goto("manager", IF names = {} THEN "create_seal" ELSE "remove_seal")
  /\ UNCHANGED <<Row, inode, names, diskNames, Ghosts>>

\* Truncated evidence is removed, and the directory synced, before a new one.
RemoveSeal ==
  /\ Manager("remove_seal") /\ Admitted("manager")
  /\ names' = {} /\ diskNames' = {}
  /\ Goto("manager", "create_seal")
  /\ UNCHANGED <<Row, file, inode, Ghosts>>

RemovePending ==
  /\ Manager("remove_pending") /\ Admitted("manager")
  /\ names' = names \ {"pending"}
  /\ Goto("manager", "sync_final")
  /\ UNCHANGED <<Row, file, inode, diskNames, Ghosts>>

-----------------------------------------------------------------------------
(* Publication, as far as the staging files see it. *)

\* begin_reserved_publication after sealed_staging
BeginPublication ==
  /\ Serving /\ WriterAuthority(lease) /\ Complete("final")
  /\ row' = [row EXCEPT !.state = "FINALIZING"]
  /\ UNCHANGED <<lapsed, authority, lease, Disk, proc, Ghosts>>

\* The bytes are hashed again, copied, and the publication committed; a
\* mismatch or a lost authority fails it.
Publish ==
  /\ Serving /\ row.state = "FINALIZING"
  /\ IF SealValid /\ Complete("final") /\ ~lapsed /\ authority
     THEN row' = [row EXCEPT !.state = "PUBLISHED"] /\ published' = file.bytes
     ELSE row' = [row EXCEPT !.state = "FAILED"] /\ UNCHANGED published
  /\ UNCHANGED <<lapsed, authority, lease, Disk, proc, acked>>

\* remove_terminal_publication_residue, and the same removal at startup.  The
\* live one comes after the commit and its errors are ignored.
RemoveResidue ==
  /\ file' = NoFile /\ names' = {} /\ diskNames' = {}
  /\ UNCHANGED inode

CleanTerminal ==
  /\ Serving /\ row.state \in {"PUBLISHED", "FAILED"} /\ file.here
  /\ RemoveResidue
  /\ UNCHANGED <<Row, proc, Ghosts>>

-----------------------------------------------------------------------------
(* Crashes and startup. *)

\* Another manager claims the store.  Handles of the old one may survive.
Claim ==
  /\ lease < MaxEpoch
  /\ lease' = lease + 1
  /\ \E kept \in SUBSET Writers :
       proc' = [a \in Sealers |->
         IF a = "manager" THEN [Gone EXCEPT !.pc = "startup", !.epoch = lease + 1]
         ELSE IF a \in kept THEN proc[a] ELSE Gone]
  /\ UNCHANGED <<row, lapsed, authority, Disk, Ghosts>>

\* The machine stops: bytes past the last sync may be gone, and so may names.
PowerLoss ==
  /\ lease < MaxEpoch
  /\ lease' = lease + 1
  /\ proc' = [a \in Sealers |->
       IF a = "manager" THEN [Gone EXCEPT !.pc = "startup", !.epoch = lease + 1] ELSE Gone]
  /\ \E n \in file.synced..Len(file.bytes) :
       file' = [file EXCEPT !.bytes = SubSeq(@, 1, n), !.synced = n]
  /\ names' \in {names, diskNames, names \cup diskNames}
  /\ diskNames' = names'
  /\ inode' \in {inode} \cup (IF inode.synced THEN {} ELSE {EmptySeal})
  /\ UNCHANGED <<row, lapsed, authority, Ghosts>>

\* reconcile_artifacts_startup: the allocation is settled, its files are
\* removed or its seal repaired.
Settled ==
  IF row.state \in Live /\ lapsed THEN "EXPIRED"
  ELSE IF row.state \in Live /\ ~authority THEN "ABORTED" ELSE row.state

Reconcile ==
  /\ Manager("startup")
  /\ \/ /\ row' = [row EXCEPT !.state = Settled]
        /\ row'.state \in Removable
        /\ RemoveResidue
        /\ proc' = [proc EXCEPT !["manager"] = Idle]
     \/ /\ row.state \in Live
        \* authority may be lost without the Task being terminal
        /\ ~lapsed /\ UNCHANGED <<row, Disk>>
        /\ Goto("manager", IF names = {} THEN "idle" ELSE "evidence")
     \/ /\ row.state = "NONE" /\ UNCHANGED <<row, Disk>>
        /\ proc' = [proc EXCEPT !["manager"] = Idle]
  /\ UNCHANGED <<lapsed, authority, lease, Ghosts>>

-----------------------------------------------------------------------------
Init ==
  /\ row = [state |-> "NONE", gen |-> 0] /\ lapsed = FALSE /\ authority = TRUE
  /\ lease = 1
  /\ file = NoFile /\ inode = EmptySeal /\ names = {} /\ diskNames = {}
  /\ proc = [a \in Sealers |-> IF a = "manager" THEN [Gone EXCEPT !.pc = "idle", !.epoch = 1] ELSE Gone]
  /\ acked = None /\ published = None

WriterStep(w) ==
  \/ AdmitWriter(w) \/ Reopen(w)
  \/ Write(w) \/ FailWrite(w) \/ SyncStaging(w) \/ HashStaging(w)

SealStep(a) ==
  CreateSeal(a) \/ FillSeal(a) \/ SyncSeal(a) \/ SyncSealDir(a) \/ RenameSeal(a) \/ SyncFinal(a)

RepairStep == ReadEvidence \/ SyncRetry \/ RemoveSeal \/ RemovePending

Next ==
  \/ Lapse \/ Revoke \/ Claim \/ PowerLoss
  \/ Allocate \/ BeginOpen \/ OpenExpired \/ CreateStaging \/ SyncNewStaging
  \/ \E w \in Writers : WriterStep(w)
  \/ \E a \in Sealers : SealStep(a) \/ Abandon(a)
  \/ RetryFinish \/ RepairStep
  \/ BeginPublication \/ Publish \/ CleanTerminal \/ Reconcile

Spec == Init /\ [][Next]_vars

-----------------------------------------------------------------------------
(* Properties. *)

\* Every variable holds a value of its type.
TypeOK ==
  /\ row \in [state : States, gen : 0..MaxGen]
  /\ lapsed \in BOOLEAN /\ authority \in BOOLEAN /\ lease \in 1..MaxEpoch
  /\ file.here \in BOOLEAN /\ file.synced <= Len(file.bytes) /\ Len(file.bytes) <= MaxSize + MaxGen
  /\ inode.kind \in {"Truncated", "Complete"}
  /\ names \subseteq {"pending", "final"} /\ diskNames \subseteq {"pending", "final"}
  /\ \A a \in Sealers : proc[a].gen <= MaxGen /\ proc[a].epoch <= lease

\* Single writer.  Bytes of a replaced handle never land behind bytes of the
\* handle that replaced it, whichever thread, manager or crash comes between.
NoStaleWrite ==
  \A i, j \in 1..Len(file.bytes) : i < j => file.bytes[i] <= file.bytes[j]

\* A complete seal, under either name, attests exactly the bytes that are in
\* the staging file and that a power failure cannot take away: the repair at
\* startup never meets the hash mismatch that would make it give up.
SealAttestsDurableBytes ==
  row.state \in Live /\ names # {} /\ inode.kind = "Complete" =>
    /\ file.here /\ file.bytes = inode.bytes
    /\ inode.synced => file.synced = Len(file.bytes)

\* What finish has acknowledged over a synced seal is sealed under its final
\* name until the allocation ends, whatever restarts and power failures come
\* between, and only those bytes are published.
\* (A retry may acknowledge a seal that was never synced.)
AckedSurvives ==
  /\ acked # None /\ row.state \in Live => Complete("final") /\ inode.bytes = acked
  /\ published # None /\ acked # None => published = acked

\* A finish that left evidence behind is completed by retries, unless the
\* allocation ends or its authority does.
FinishBegun == row.state = "WRITING" /\ names # {}
FinishOver == Complete("final") \/ row.state # "WRITING" \/ lapsed \/ ~authority

=============================================================================

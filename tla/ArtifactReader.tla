----------------------------- MODULE ArtifactReader -----------------------------
(***************************************************************************)
(* Reading an Artifact under a grant.  A read scope is taken from a        *)
(* provider session; opening a reader consumes the grant and records a     *)
(* pending admission; the first bytes that are read mark the admission     *)
(* delivered in the transaction that precedes their handing over.  An      *)
(* admission that is pending may be replayed, so that a lost answer or a   *)
(* restart does not cost the grant.                                        *)
(*                                                                         *)
(* The manager is one thread.  A reader has a connection of its own, may   *)
(* be used by another thread and outlives its manager.  The provider's     *)
(* runtime authority is AuthorityCandidates, trusted time TrustedTime.     *)
(***************************************************************************)
EXTENDS Naturals, FiniteSets

CONSTANTS
  Grants,         \* read grants for the Artifact
  MaxUses,        \* max_uses of each grant; 1 is ONE_SHOT
  AttemptOf,      \* the attempt each grant was issued to
  Readers,        \* ArtifactReader values
  MaxAdmission,   \* admissions ever recorded
  MaxRevision,    \* revisions of the Task
  MaxEpoch,       \* owners of the store
  MaxLost,        \* commits whose result is an error although they happened
  MaxFailed       \* commits that fail and are rolled back

Attempts == {AttemptOf[g] : g \in Grants}
Admissions == 1..MaxAdmission
Nobody == 0
OwnerScope == "owner"

\* What the instances have to satisfy.
ReaderAssumption ==
  /\ MaxUses \in [Grants -> Nat \ {0}] /\ AttemptOf \in [Grants -> Nat \ {0}]
  /\ OwnerScope \notin Grants
  /\ {MaxAdmission, MaxRevision, MaxEpoch, MaxLost, MaxFailed} \subseteq Nat

VARIABLES
  task,      \* state and revision of the Task
  attempt,   \* latest attempt of the node
  unknown,   \* an export of the Task has an unknown outcome
  withdrawn, \* grants revoked or latched as expired
  uses,      \* uses_consumed
  ops,       \* ARTIFACT_READ operations, in order: grant and receipt
  intact,    \* the blob as it is on disk, and integrity_state
  lease,     \* fence_epoch of task_manager_lease
  mgr,       \* the manager: its epoch, its call, its delivered_reader_admissions
  session,   \* the provider's session
  held,      \* the read scope the caller holds
  reader,    \* the readers
  faults,    \* lost and failed commits so far
  entry,     \* history: admissions delivered when this revision began
  handed     \* history: readers that handed bytes to the caller

vars == <<task, attempt, unknown, withdrawn, uses, ops, intact, lease, mgr, session, held,
          reader, faults, entry, handed>>

-----------------------------------------------------------------------------
Idle == [pc |-> "idle", scope |-> OwnerScope]
NoReader == [pc |-> "none", epoch |-> 0, scope |-> OwnerScope, adm |-> Nobody,
             delivered |-> FALSE, revision |-> 0]

Recovering == task.state = "RECOVERING"
Recorded == {a \in Admissions : ops[a].receipt # "none"}
Pending(a) == ops[a].receipt = "pending"
ScopeOf(r) == reader[r].scope
Claim(s) == IF s.grant = OwnerScope THEN {} ELSE {s.grant}

World == <<task, attempt, unknown, withdrawn, intact, lease, entry>>
Store == <<uses, ops>>

-----------------------------------------------------------------------------
(* Authority at one moment. *)

\* load_execution_authority: the latest attempt of a Task that is not stopped
ExecutionCurrent(n) == n = attempt /\ task.state \in {"RUNNING", "RECOVERING"}

\* authenticated_read_grant_denial_in: revoked, expired, or used up
GrantDenied(g) == g \in withdrawn

\* exact_operation_grant without an admission: grant_available_for_admission
Usable(g) == ~GrantDenied(g) /\ uses[g] < MaxUses[g]

\* exact_operation_grant with an admission
AdmissionGrantHolds(a) == ~GrantDenied(ops[a].grant)

\* coordinator_grants_valid_in and binding_runtime_authority_valid: every
\* grant of the binding stands
BindingHolds(n) == ExecutionCurrent(n) /\ \A g \in Grants : AttemptOf[g] = n => ~GrantDenied(g)

\* authenticate_reader_admission
Authenticated(a, mustBePending) ==
  /\ a \in Recorded /\ AdmissionGrantHolds(a)
  /\ mustBePending => Pending(a)

\* Mutant: a reader that is still open does not hold its admission.
ReplayableShared(g) == {a \in Recorded : ops[a].grant = g /\ Pending(a) /\ Authenticated(a, FALSE)}

\* replayable_reader_admission_for_grant: the oldest pending one no reader of
\* this manager holds
Replayable(g) ==
  {a \in Recorded : ops[a].grant = g /\ Pending(a) /\ Authenticated(a, FALSE) /\ a \notin mgr.live}

Oldest(S) == CHOOSE a \in S : \A b \in S : a <= b

\* replayable_reader_admission: ambiguous when two grants have one
ReplayGrants(n) == {g \in Grants : AttemptOf[g] = n /\ Replayable(g) # {}}

-----------------------------------------------------------------------------
(* Sessions and scopes. *)

\* capture_provider_session_authority: a former attempt is bound as well.
Bound(n) == n <= attempt

OpenSession(n) ==
  /\ session' = [issuer |-> mgr.epoch, attempt |-> n]
  /\ UNCHANGED <<World, Store, mgr, held, reader, faults, handed>>

\* issue_provider_artifact_session
IssueSession(n) == mgr.call = Idle /\ Bound(n) /\ OpenSession(n)

\* authenticated_binding_request_claim_in: through the grant, which may be
\* that of a former attempt
ClaimAuthenticates(g) == Bound(AttemptOf[g])

\* admit_provider_binding_request_claim: the session is of the claim's own,
\* current binding.
AdmitClaim(g) ==
  /\ mgr.call = Idle /\ mgr.epoch = lease /\ ~Recovering /\ ~unknown
  /\ ClaimAuthenticates(g) /\ BindingHolds(AttemptOf[g])
  /\ OpenSession(AttemptOf[g])

\* validate_provider_artifact_session and assert_manager_lease
SessionHolds ==
  session.issuer = mgr.epoch /\ mgr.epoch = lease /\ ~unknown

\* The grant a scope names: while recovering, one that can be replayed
ScopeGrants ==
  {g \in Grants : /\ AttemptOf[g] = session.attempt
                  /\ Cardinality(ReplayGrants(session.attempt)) <= 1
                  /\ \/ Usable(g) /\ ~Recovering
                     \/ g \in ReplayGrants(session.attempt)}

\* scope_artifact_reads_with_claim_in
ScopeReads(g) ==
  /\ mgr.call = Idle /\ SessionHolds /\ BindingHolds(session.attempt)
  /\ g \in ScopeGrants
  /\ held' = [issuer |-> mgr.epoch, attempt |-> session.attempt, grant |-> g]
  /\ UNCHANGED <<World, Store, mgr, session, reader, faults, handed>>

\* scope_owned_artifact_reads
ScopeOwned ==
  /\ mgr.call = Idle /\ ~Recovering /\ ~unknown
  /\ held' = [issuer |-> mgr.epoch, attempt |-> 0, grant |-> OwnerScope]
  /\ UNCHANGED <<World, Store, mgr, session, reader, faults, handed>>

-----------------------------------------------------------------------------
(* Opening. *)

Call(c) == mgr' = [mgr EXCEPT !.call = c]

\* capture_read_authority still equals the scope's
ScopeHolds(s) == s.issuer = mgr.epoch /\ \A g \in Claim(s) : BindingHolds(s.attempt)

\* prepare_artifact_reader up to the hash
PrepareAdmits(s) ==
  /\ ScopeHolds(s)
  /\ Recovering => s.grant \in Grants /\ Replayable(s.grant) # {}

Prepare ==
  /\ mgr.call = Idle /\ PrepareAdmits(held)
  /\ intact.disk /\ intact.row
  /\ Call([pc |-> "prepared", scope |-> held])
  /\ UNCHANGED <<World, Store, session, held, reader, faults, handed>>

\* prepare_artifact_reader finds damage: mark_content_hash_failed
PrepareMarks ==
  /\ mgr.call = Idle /\ PrepareAdmits(held)
  /\ ~(intact.disk /\ intact.row)
  /\ intact' = [intact EXCEPT !.row = FALSE]
  /\ Call([pc |-> "handoff", scope |-> OwnerScope])
  /\ UNCHANGED <<task, attempt, unknown, withdrawn, lease, entry, Store, session, held, reader,
                 faults, handed>>

\* admit_prepared_artifact_reader: what the transaction checks again
AdmitHolds(s) ==
  /\ mgr.epoch = lease /\ intact.row
  /\ \A g \in Claim(s) : BindingHolds(s.attempt)
  /\ Recovering => s.grant \in Grants /\ Replayable(s.grant) # {}

\* A pending admission is taken up again, or admit_operation_grant counts a
\* use and persist_reader_admission records the admission.
Admission(s) ==
  \/ s.grant = OwnerScope /\ UNCHANGED Store
  \/ s.grant \in Grants /\ Replayable(s.grant) # {} /\ UNCHANGED Store
  \/ /\ s.grant \in Grants /\ Replayable(s.grant) = {} /\ Usable(s.grant) /\ ~Recovering
     /\ Cardinality(Recorded) < MaxAdmission
     /\ uses' = [uses EXCEPT ![s.grant] = @ + 1]
     /\ ops' = [ops EXCEPT ![Cardinality(Recorded) + 1] = [grant |-> s.grant, receipt |-> "pending"]]

Admitted(s) ==
  IF s.grant = OwnerScope THEN Nobody
  ELSE IF Replayable(s.grant) # {} THEN Oldest(Replayable(s.grant)) ELSE Cardinality(Recorded) + 1

Live(s) == IF s.grant = OwnerScope THEN mgr.live ELSE mgr.live \cup {Admitted(s)}

\* open_artifact_reader
Open(r) ==
  /\ mgr.call.pc = "prepared" /\ reader[r].pc = "none"
  /\ LET s == mgr.call.scope
     IN /\ AdmitHolds(s) /\ Admission(s)
        /\ mgr' = [mgr EXCEPT !.call = Idle, !.live = Live(s)]
        /\ reader' = [reader EXCEPT ![r] =
             [pc |-> "open", epoch |-> mgr.epoch, scope |-> s, adm |-> Admitted(s),
              delivered |-> s.grant = OwnerScope, revision |-> 0]]
  /\ UNCHANGED <<World, session, held, faults, handed>>

\* The admission is committed and the caller told that it was not: no reader,
\* nothing registered as live.
OpenLost ==
  /\ mgr.call.pc = "prepared" /\ faults.lost < MaxLost
  /\ AdmitHolds(mgr.call.scope) /\ Admission(mgr.call.scope)
  /\ Call(Idle)
  /\ faults' = [faults EXCEPT !.lost = @ + 1]
  /\ UNCHANGED <<World, session, held, reader, handed>>

OpenRefused ==
  /\ mgr.call.pc = "prepared"
  /\ Call(Idle)
  /\ UNCHANGED <<World, Store, session, held, reader, faults, handed>>

-----------------------------------------------------------------------------
(* Reading. *)

\* While recovering only a pending admission is read, or one this reader
\* first read at this revision.
RecoveryReads(r) ==
  Recovering => /\ reader[r].adm # Nobody
                /\ Authenticated(reader[r].adm, reader[r].revision # task.revision)

\* Mutant: the lease is taken to be the reader's.
ReaderFenceUnowned(r) ==
  /\ RecoveryReads(r)
  /\ ~unknown /\ intact.row
  /\ \A g \in Claim(ScopeOf(r)) : ExecutionCurrent(ScopeOf(r).attempt) /\ AdmissionGrantHolds(reader[r].adm)

\* validate_reader_fence_in_connection
ReaderFence(r) ==
  /\ reader[r].epoch = lease
  /\ RecoveryReads(r)
  /\ ~unknown /\ intact.row
  /\ \A g \in Claim(ScopeOf(r)) : ExecutionCurrent(ScopeOf(r).attempt) /\ AdmissionGrantHolds(reader[r].adm)

\* validate_reader_fence: with the coordinator's grants and the denial reason
ValidReaderFence(r) ==
  ReaderFence(r) /\ \A g \in Claim(ScopeOf(r)) : BindingHolds(ScopeOf(r).attempt)

\* mark_reader_admission_delivered_in_transaction
MarkDelivered(a) == ops' = [ops EXCEPT ![a].receipt = "delivered"]

Note(r, pc) ==
  reader' = [reader EXCEPT ![r].pc = pc, ![r].revision = IF Recovering THEN task.revision ELSE @]

\* ArtifactReader::read: fence, bytes into private memory, receipt, commit
Read(r) ==
  /\ reader[r].pc = "open" /\ ValidReaderFence(r)
  /\ Note(r, "committed")
  /\ IF reader[r].delivered THEN UNCHANGED ops ELSE MarkDelivered(reader[r].adm)
  /\ UNCHANGED <<World, uses, mgr, session, held, faults, handed>>

\* The commit happened and reports an error.
ReadLost(r) ==
  /\ reader[r].pc = "open" /\ ~reader[r].delivered /\ ValidReaderFence(r)
  /\ faults.lost < MaxLost
  /\ Note(r, "error")
  /\ MarkDelivered(reader[r].adm)
  /\ faults' = [faults EXCEPT !.lost = @ + 1]
  /\ UNCHANGED <<World, uses, mgr, session, held, handed>>

\* The commit fails and is rolled back.
ReadFailed(r) ==
  /\ reader[r].pc = "open" /\ ~reader[r].delivered /\ ValidReaderFence(r)
  /\ faults.failed < MaxFailed
  /\ Note(r, "error")
  /\ faults' = [faults EXCEPT !.failed = @ + 1]
  /\ UNCHANGED <<World, Store, mgr, session, held, handed>>

Release(r) ==
  mgr' = [mgr EXCEPT !.live = IF reader[r].epoch = mgr.epoch THEN @ \ {reader[r].adm} ELSE @]

\* The bytes are copied into the caller's buffer; after an error, when the
\* admission authenticates.
HandOver(r) ==
  /\ \/ reader[r].pc = "committed"
     \/ reader[r].pc = "error" /\ Authenticated(reader[r].adm, FALSE)
  /\ reader' = [reader EXCEPT ![r].pc = "open", ![r].delivered = TRUE]
  /\ IF reader[r].delivered THEN UNCHANGED mgr ELSE Release(r)
  /\ handed' = handed \cup {r}
  /\ UNCHANGED <<World, Store, session, held, faults>>

\* The cursor goes back and the caller sees the error.
RewindError(r) ==
  /\ reader[r].pc = "error" /\ ~Authenticated(reader[r].adm, FALSE)
  /\ reader' = [reader EXCEPT ![r].pc = "open"]
  /\ UNCHANGED <<World, Store, mgr, session, held, faults, handed>>

\* Drop for ArtifactReader
Drop(r) ==
  /\ reader[r].pc = "open"
  /\ reader' = [reader EXCEPT ![r].pc = "closed"]
  /\ Release(r)
  /\ UNCHANGED <<World, Store, session, held, faults, handed>>

-----------------------------------------------------------------------------
(* The rest of the system. *)

Delivered == {a \in Recorded : ops[a].receipt = "delivered"}

SetTask(s) ==
  /\ task.revision < MaxRevision
  /\ task' = [state |-> s, revision |-> task.revision + 1]
  /\ entry' = Delivered

\* A transition into, within, or out of RECOVERING, or CANCELLED
MoveTask(s) ==
  /\ mgr.call = Idle /\ mgr.epoch = lease /\ task.state # "CANCELLED"
  /\ s = "RUNNING" => Recovering
  /\ SetTask(s)
  /\ UNCHANGED <<attempt, unknown, withdrawn, intact, lease, Store, mgr, session, held, reader, faults, handed>>

\* handoff_content_hash_damage: into RECOVERING, or the inventory is refreshed
Handoff ==
  /\ mgr.call.pc = "handoff" /\ mgr.epoch = lease
  /\ \/ task.state # "CANCELLED" /\ SetTask("RECOVERING")
     \/ task.state # "RUNNING" /\ UNCHANGED <<task, entry>>
  /\ Call(Idle)
  /\ UNCHANGED <<attempt, unknown, withdrawn, intact, lease, Store, session, held, reader, faults, handed>>

NextAttempt ==
  /\ mgr.call = Idle /\ attempt + 1 \in Attempts /\ task.state = "RUNNING"
  /\ attempt' = attempt + 1
  /\ UNCHANGED <<task, unknown, withdrawn, intact, lease, entry, Store, mgr, session, held, reader, faults, handed>>

\* A grant's consent is withdrawn or its deadline is latched.
Withdraw(g) ==
  /\ g \notin withdrawn
  /\ withdrawn' = withdrawn \cup {g}
  /\ UNCHANGED <<task, attempt, unknown, intact, lease, entry, Store, mgr, session, held, reader, faults, handed>>

\* An export of the Task becomes uncertain, or is reconciled.
ExportUncertain ==
  /\ mgr.call = Idle
  /\ unknown' = ~unknown
  /\ UNCHANGED <<task, attempt, withdrawn, intact, lease, entry, Store, mgr, session, held, reader, faults, handed>>

Damage ==
  /\ intact.disk
  /\ intact' = [intact EXCEPT !.disk = FALSE]
  /\ UNCHANGED <<task, attempt, unknown, withdrawn, lease, entry, Store, mgr, session, held, reader, faults, handed>>

\* Another manager takes the store; this one may be in the middle of a call.
TakeLease ==
  /\ lease < MaxEpoch
  /\ lease' = lease + 1
  /\ UNCHANGED <<task, attempt, unknown, withdrawn, intact, entry, Store, mgr, session, held, reader, faults, handed>>

\* The new manager runs recover_startup; readers of the old one may live on.
Startup ==
  /\ mgr.epoch < lease
  /\ mgr' = [epoch |-> lease, call |-> Idle, live |-> {}]
  /\ IF task.state = "RUNNING" THEN SetTask("RECOVERING") ELSE UNCHANGED <<task, entry>>
  /\ UNCHANGED <<attempt, unknown, withdrawn, intact, lease, Store, session, held, reader, faults, handed>>

-----------------------------------------------------------------------------
Init ==
  /\ task = [state |-> "RUNNING", revision |-> 1]
  /\ attempt = 1 /\ unknown = FALSE /\ withdrawn = {}
  /\ uses = [g \in Grants |-> 0]
  /\ ops = [a \in Admissions |-> [grant |-> OwnerScope, receipt |-> "none"]]
  /\ intact = [disk |-> TRUE, row |-> TRUE]
  /\ lease = 1
  /\ mgr = [epoch |-> 1, call |-> Idle, live |-> {}]
  /\ session = [issuer |-> 0, attempt |-> 0]
  /\ held = [issuer |-> 0, attempt |-> 0, grant |-> OwnerScope]
  /\ reader = [r \in Readers |-> NoReader]
  /\ faults = [lost |-> 0, failed |-> 0]
  /\ entry = {} /\ handed = {}

ManagerStep ==
  \/ \E n \in Attempts : IssueSession(n)
  \/ \E g \in Grants : AdmitClaim(g) \/ ScopeReads(g)
  \/ ScopeOwned
  \/ Prepare \/ PrepareMarks
  \/ \E r \in Readers : Open(r)
  \/ OpenLost \/ OpenRefused \/ Handoff \/ NextAttempt \/ Startup
  \/ \E s \in {"RUNNING", "RECOVERING", "CANCELLED"} : MoveTask(s)

ReaderStep(r) ==
  Read(r) \/ ReadLost(r) \/ ReadFailed(r) \/ HandOver(r) \/ RewindError(r) \/ Drop(r)

Outside == (\E g \in Grants : Withdraw(g)) \/ ExportUncertain \/ Damage \/ TakeLease

Next == ManagerStep \/ (\E r \in Readers : ReaderStep(r)) \/ Outside

Spec == Init /\ [][Next]_vars

-----------------------------------------------------------------------------
TypeOK ==
  /\ task \in [state : {"RUNNING", "RECOVERING", "CANCELLED"}, revision : 1..MaxRevision]
  /\ uses \in [Grants -> Nat] /\ \A g \in Grants : uses[g] <= MaxUses[g]
  /\ ops \in [Admissions -> [grant : Grants \cup {OwnerScope}, receipt : {"none", "pending", "delivered"}]]
  /\ \A r \in Readers : reader[r].pc \in {"none", "open", "committed", "error", "closed"}
  /\ mgr.live \subseteq Recorded
  /\ lease \in 1..MaxEpoch /\ mgr.epoch \in 1..lease

\* Bytes are with the caller only when the receipt of their admission says so
\* durably: ArtifactReader::read commits the first-delivery receipt before it
\* copies bytes into the caller's buffer, and checks it after an error.
ReceiptBeforeBytes ==
  \A r \in handed : reader[r].adm # Nobody => ops[reader[r].adm].receipt = "delivered"

\* However often an open is lost, replayed, dropped or taken over, a grant
\* hands bytes to no more readers than it has uses.
UsesBoundDeliveries ==
  \A g \in Grants : Cardinality({r \in handed : ScopeOf(r).grant = g}) <= MaxUses[g]

\* No pending admission is lost: the one the manager counts as live has an open
\* reader, so any other can be replayed and a use is never spent for nothing.
PendingIsReachable ==
  \A a \in mgr.live : \E r \in Readers :
     reader[r].adm = a /\ reader[r].pc \in {"open", "committed", "error"} /\ reader[r].epoch = mgr.epoch

\* In a recovery nobody goes on reading what was delivered before it:
\* a read at a RECOVERING revision is of an admission that was pending when
\* that revision began.
NoContinuedReadInRecovery ==
  \A r \in Readers :
    Recovering /\ reader[r].pc = "open" /\ reader'[r].pc = "committed"
      => reader[r].adm # Nobody /\ reader[r].adm \notin entry

\* A reader whose manager lost the store changes no admission.
OldReadersAreFenced ==
  \A r \in Readers : reader[r].epoch < lease /\ reader[r].pc = "open" => reader'[r].pc \in {"open", "closed"}
=============================================================================

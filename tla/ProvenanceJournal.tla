--------------------------- MODULE ProvenanceJournal ---------------------------
(***************************************************************************)
(* The provenance journal: one hash chain of events per Task, appended in  *)
(* the transaction of the change it records, verified from the stored rows *)
(* and exported as a bundle with aliases.  Rows may be damaged or lost     *)
(* from outside, for instance with an older copy of the store.             *)
(*                                                                         *)
(* A hash is modelled by what it covers: the hash of a record is the chain *)
(* of the records up to it, so that equal hashes have equal preimages.     *)
(***************************************************************************)
EXTENDS Naturals, Sequences, FiniteSets

CONSTANTS
  Tasks, Ids, States,
  MaxLength,    \* events per stream
  PageSize,     \* MAX_PAGE_SIZE
  MaxDamage     \* damages from outside

\* What the instances have to satisfy.
JournalAssumption ==
  /\ "CREATED" \in States /\ PageSize \in Nat \ {0}
  /\ MaxLength \in Nat /\ MaxDamage \in Nat

Start == [rev |-> 1, state |-> "CREATED"]
Points == [rev : 1..(MaxLength - 1), state : States]

\* Events as the typed contract has them: details are those of the event's
\* type, so that only a transition has a from and a to, and they advance the
\* revision by one.
PlainEvents == [task : Tasks, id : Ids, type : {"created", "noted"}, from : {Start}, to : {"CREATED"}]
Transitions == [task : Tasks, id : Ids, type : {"transitioned"}, from : Points, to : States]
Events == PlainEvents \cup Transitions

VARIABLES
  rows,         \* provenance_events
  taskRow,      \* revision and state in the tasks table
  checkpoint,   \* a head hash kept elsewhere, and (history) the events it stood for
  bundle,       \* the last export, and (history) what it was made from
  damage        \* damages so far

vars == <<rows, taskRow, checkpoint, bundle, damage>>

-----------------------------------------------------------------------------
None == <<>>
NoPoint == [rev |-> 0, state |-> "none"]

\* hash_record
HashRecord(t, n, prev, e) == Append(prev, <<t, n, e>>)

\* The columns that repeat fields of the event
IndexOf(e) == [id |-> e.id, task |-> e.task, type |-> e.type]

Stream(t) == {r \in rows : r.stream = t}

\* ORDER BY sequence, and the rows of a stream read that way
Sorted(S) ==
  [i \in 1..Cardinality(S) |-> CHOOSE r \in S : Cardinality({s \in S : s.seq < r.seq}) = i - 1]
Ordered(t) == Sorted(Stream(t))

\* get_head
Head_(t) == CHOOSE r \in Stream(t) : \A s \in Stream(t) : s.seq <= r.seq
NextSequence(t) == IF Stream(t) = {} THEN 1 ELSE Head_(t).seq + 1

HeadHash(t) == IF Stream(t) = {} THEN None ELSE Head_(t).hash

-----------------------------------------------------------------------------
(* The contract of an event. *)

\* validate_event: the typed contract and the identity of the Task
ValidEvent(t, e) == e \in Events /\ e.task = t

\* validate_sequence_event_invariant
ValidAt(n, e) == (n = 1) = (e.type = "created")

\* Mutant: the state a transition starts from is not compared.
AdvanceRevision(at, e) ==
  CASE e.type = "created" -> IF at = NoPoint THEN Start ELSE NoPoint
    [] e.type = "transitioned" -> IF e.from.rev = at.rev THEN [rev |-> at.rev + 1, state |-> e.to] ELSE NoPoint
    [] OTHER -> at

\* advance_task_revision; NoPoint stands for the error too, as no stream is
\* without a revision after its first event.
Advance(at, e) ==
  CASE e.type = "created" -> IF at = NoPoint THEN Start ELSE NoPoint
    [] e.type = "transitioned" -> IF e.from = at THEN [rev |-> at.rev + 1, state |-> e.to] ELSE NoPoint
    [] OTHER -> at

\* latest_task_revision_in_tx: found by the index, read from the event
LatestRow(t) ==
  LET moves == {r \in Stream(t) : r.index.type \in {"created", "transitioned"}}
  IN IF moves = {} THEN {} ELSE {CHOOSE r \in moves : \A s \in moves : s.seq <= r.seq}

Latest(t) ==
  IF LatestRow(t) = {} THEN NoPoint
  ELSE LET e == (CHOOSE r \in LatestRow(t) : TRUE).event
       IN IF e.type = "created" THEN Start ELSE [rev |-> e.from.rev + 1, state |-> e.to]

LatestReadable(t) ==
  \A r \in LatestRow(t) : r.event.type = r.index.type /\ ValidEvent(t, r.event)

-----------------------------------------------------------------------------
(* Verification, record by record as in the code's loops. *)

Begun == [ok |-> TRUE, prev |-> None, next |-> 1, at |-> NoPoint, ids |-> {}]
Bad(v) == [v EXCEPT !.ok = FALSE]

\* verify_one_record
VerifyOne(t, v, r) ==
  /\ r.seq = v.next /\ r.stream = t /\ r.event.task = t
  /\ r.prev = v.prev
  /\ ValidEvent(t, r.event) /\ ValidAt(r.seq, r.event)
  /\ r.hash = HashRecord(t, r.seq, r.prev, r.event)

Step(v, r) ==
  [v EXCEPT !.prev = r.hash, !.next = @ + 1, !.at = Advance(v.at, r.event), !.ids = @ \cup {r.event.id}]

\* Mutant: a record that fails does not end the loop.
StreamStepOn(t, v, r) ==
  [Step(v, r) EXCEPT !.ok = VerifyOne(t, v, r) /\ r.index = IndexOf(r.event) /\ Advance(v.at, r.event) # NoPoint]

\* The loop of verify_stream: index columns agree with the event
StreamStep(t, v, r) ==
  IF v.ok /\ VerifyOne(t, v, r) /\ r.index = IndexOf(r.event) /\ Advance(v.at, r.event) # NoPoint
  THEN Step(v, r) ELSE Bad(v)

\* The loop of verify_records: no event id twice
RecordsStep(t, v, r) ==
  IF v.ok /\ r.event.id \notin v.ids /\ VerifyOne(t, v, r) /\ Advance(v.at, r.event) # NoPoint
  THEN Step(v, r) ELSE Bad(v)

\* finish_verification: not empty, and at the checkpoint's head if there is one
Finish(v, pin) == v.ok /\ v.prev # None /\ (pin # None => v.prev = pin)

\* What the loops have found after each record
StreamLoop(t, records) ==
  LET v[i \in 0..Len(records)] == IF i = 0 THEN Begun ELSE StreamStep(t, v[i - 1], records[i]) IN v
RecordsLoop(t, records) ==
  LET v[i \in 0..Len(records)] == IF i = 0 THEN Begun ELSE RecordsStep(t, v[i - 1], records[i]) IN v

\* verify_stream through sequence n (0 for the whole stream)
ReadThrough(t, n) == Sorted({r \in Stream(t) : n = 0 \/ r.seq <= n})
VerifyStream(t, n, pin) ==
  LET read == ReadThrough(t, n)
      v == StreamLoop(t, read)[Len(read)]
  IN Finish(v, pin) /\ (n # 0 => v.next = n + 1)

\* verify_records on a sequence of records
VerifyRecords(t, records, pin) == Finish(RecordsLoop(t, records)[Len(records)], pin)

\* verify_provenance_through: no row of the Task in another stream
VerifyProvenance(t) == (\A r \in rows : r.index.task = t => r.stream = t) /\ VerifyStream(t, 0, None)

-----------------------------------------------------------------------------
(* Appending. *)

\* The caller's expectation of the head; append_event passes "any".
HeadExpected(t, expected) ==
  CASE expected = "any" -> TRUE
    [] expected = "empty" -> Stream(t) = {}
    [] OTHER -> Stream(t) # {} /\ checkpoint.task = t /\ HeadHash(t) = checkpoint.hash

\* append_in_tx up to the insert; event_id is the key of the table.
Appendable(t, e) ==
  /\ ValidEvent(t, e) /\ NextSequence(t) <= MaxLength
  /\ ValidAt(NextSequence(t), e)
  /\ e.type = "transitioned" => LatestReadable(t) /\ Advance(Latest(t), e) # NoPoint

\* append_in_tx: the row, and the Task's row with it
AppendInTx(t, e, expected) ==
  /\ Appendable(t, e) /\ HeadExpected(t, expected)
  /\ \A r \in rows : r.index.id # e.id
  /\ rows' = rows \cup {[stream |-> t, seq |-> NextSequence(t), prev |-> HeadHash(t), event |-> e,
                         hash |-> HashRecord(t, NextSequence(t), HeadHash(t), e), index |-> IndexOf(e)]}
  /\ taskRow' = [taskRow EXCEPT ![t] = IF e.type = "noted" THEN @ ELSE Advance(@, e)]
  /\ e.type # "noted" => Advance(taskRow[t], e) # NoPoint
  /\ UNCHANGED <<checkpoint, bundle, damage>>

\* Someone keeps the head.
TakeCheckpoint(t) ==
  /\ Stream(t) # {} /\ VerifyProvenance(t)
  /\ checkpoint' = [task |-> t, hash |-> HeadHash(t), seq |-> Head_(t).seq,
                    events |-> {<<r.seq, r.event>> : r \in Stream(t)}]
  /\ UNCHANGED <<rows, taskRow, bundle, damage>>

-----------------------------------------------------------------------------
(* The portable projection. *)

\* Mutant: the row of the cursor is listed again.
ListEventsFrom(t, after) == Sorted({r \in Stream(t) : r.seq >= after})

\* list_events: the rows after the cursor
ListEvents(t, after) == Sorted({r \in Stream(t) : r.seq > after})
Page(t, after) ==
  LET left == ListEvents(t, after) IN IF Len(left) > PageSize THEN SubSeq(left, 1, PageSize) ELSE left
NextCursor(t, after) ==
  IF Len(ListEvents(t, after)) > PageSize THEN Page(t, after)[PageSize].seq ELSE 0

\* The pages, one after another, until there is no next cursor
NoPage == [records |-> <<>>, cursor |-> 0, loop |-> "on"]
NextPage(t, p) ==
  IF p.loop = "on"
  THEN [records |-> p.records \o Page(t, p.cursor), cursor |-> NextCursor(t, p.cursor),
        loop |-> IF NextCursor(t, p.cursor) = 0 THEN "ended" ELSE "on"]
  ELSE p

\* What was read after each page; there are no more pages than rows.
PageLoop(t) ==
  LET p[k \in 0..Cardinality(Stream(t))] == IF k = 0 THEN NoPage ELSE NextPage(t, p[k - 1]) IN p
Paged(t) == PageLoop(t)[Cardinality(Stream(t))].records

\* alias_namespace: of the fields that identify something
Namespace(field) == CASE field = "task" -> "task" [] field = "id" -> "event"

\* alias_value: a digest with the key of the bundle and the namespace
Alias(key, space, v) == [space |-> space, digest |-> <<key, space, v>>]

\* retained_projection_string: types, states and revisions stay readable
Retained(e, field) == field \in {"type", "from", "to"}

\* project_value
Project(key, e) ==
  [f \in DOMAIN e |-> IF Retained(e, f) THEN e[f] ELSE Alias(key, Namespace(f), e[f])]

\* projected_placeholder: an alias stands for what it replaced
Placeholder(v) == v.digest

\* validate_alias, and the namespace its path calls for
ValidAlias(f, v) == DOMAIN v = {"space", "digest"} /\ v.space = Namespace(f)

\* projected_source_shape
SourceShape(p) == [f \in DOMAIN p |-> IF Retained(p, f) THEN p[f] ELSE Placeholder(p[f])]

\* validate_projected_event: no raw identity is left, and the shape is an event's
ValidProjected(p) ==
  /\ \A f \in DOMAIN p : ~Retained(p, f) => ValidAlias(f, p[f])
  /\ LET e == SourceShape(p) IN \E x \in Events : x.type = e.type /\ x.from = e.from /\ x.to = e.to

\* collect_alias_namespaces
OneNamespace(p) == p.task.digest # p.id.digest

\* hash_projected_record, hash_projection_descriptor
HashProjected(key, n, prev, p) == Append(prev, <<key, n, p>>)

ProjectStep(key, prev, r) ==
  LET p == Project(key, r.event)
  IN [bundle |-> key, seq |-> r.seq, prev |-> prev, event |-> p,
      hash |-> HashProjected(key, r.seq, prev, p)]

ProjectAll(key, records) ==
  LET out[i \in 1..Len(records)] ==
        ProjectStep(key, IF i = 1 THEN None ELSE out[i - 1].hash, records[i])
  IN out

\* export_provenance: the Task's row agrees with the journal, and it verifies.
ExportAdmits(t) == VerifyStream(t, 0, None) /\ taskRow[t] = Latest(t)

\* export_jsonl_with_validation; randomness makes every bundle's key new.
ExportJsonl(t) ==
  /\ ExportAdmits(t)
  /\ LET key == 1 - bundle.key
         out == ProjectAll(key, Paged(t))
     IN bundle' = [key |-> key, records |-> out, count |-> Len(out), head |-> out[Len(out)].seq,
                   headHash |-> out[Len(out)].hash, at |-> taskRow[t], source |-> Cardinality(Stream(t))]
  /\ UNCHANGED <<rows, taskRow, checkpoint, damage>>

ProjectedOne(key, v, r) ==
  /\ r.bundle = key /\ r.seq = v.next /\ r.prev = v.prev
  /\ ValidProjected(r.event) /\ OneNamespace(r.event)
  /\ ValidAt(v.next, r.event)
  /\ r.event.id \notin v.ids
  /\ r.hash = HashProjected(key, r.seq, v.prev, r.event)

ProjectedStep(key, v, r) ==
  IF v.ok /\ ProjectedOne(key, v, r) /\ Advance(v.at, r.event) # NoPoint THEN Step(v, r) ELSE Bad(v)

\* What the loop of verify_projected_records has found after each record
ProjectedLoop(key, records) ==
  LET v[i \in 0..Len(records)] == IF i = 0 THEN Begun ELSE ProjectedStep(key, v[i - 1], records[i]) IN v

\* verify_projected_records: one Task, a chain, and the manifest's head
VerifyExport(m, records) ==
  LET v == ProjectedLoop(m.key, records)[Len(records)]
  IN /\ v.ok
     /\ \A i, j \in DOMAIN records : records[i].event.task = records[j].event.task
     /\ Len(records) = m.count /\ records # <<>>
     /\ records[Len(records)].seq = m.head /\ v.prev = m.headHash

-----------------------------------------------------------------------------
(* Damage from outside. *)

Hurt == damage < MaxDamage /\ damage' = damage + 1 /\ UNCHANGED <<taskRow, checkpoint, bundle>>

\* A stored event, or a column that repeats it, changes.
ChangeEvent(r, e) == Hurt /\ e # r.event /\ rows' = (rows \ {r}) \cup {[r EXCEPT !.event = e]}
ChangeIndex(r, k) == Hurt /\ k # r.index.type /\ rows' = (rows \ {r}) \cup {[r EXCEPT !.index.type = k]}

\* Rows are lost: one of them, or the end of a stream.
LoseRow(r) == Hurt /\ rows' = rows \ {r}
LoseTail(r) == Hurt /\ rows' = {s \in rows : s.stream # r.stream \/ s.seq < r.seq}

-----------------------------------------------------------------------------
Init ==
  /\ rows = {}
  /\ taskRow = [t \in Tasks |-> NoPoint]
  /\ checkpoint = [task |-> CHOOSE t \in Tasks : TRUE, hash |-> None, seq |-> 0, events |-> {}]
  /\ bundle = [key |-> 0, records |-> <<>>, count |-> 0, head |-> 0,
               headHash |-> None, at |-> NoPoint, source |-> 0]
  /\ damage = 0

Next ==
  \/ \E t \in Tasks, e \in Events, x \in {"any", "empty", "exact"} : AppendInTx(t, e, x)
  \/ \E t \in Tasks : TakeCheckpoint(t) \/ ExportJsonl(t)
  \/ \E r \in rows : \/ \E e \in Events : ChangeEvent(r, e)
                     \/ \E k \in {"created", "transitioned", "noted"} : ChangeIndex(r, k)
                     \/ LoseRow(r) \/ LoseTail(r)

Spec == Init /\ [][Next]_vars

-----------------------------------------------------------------------------
\* A journal that was only appended to verifies: append_in_tx admits no event
\* that verify_stream, which reads the rows and not the head, would refuse.
AppendedVerifies ==
  damage = 0 => \A t \in Tasks : Stream(t) # {} => VerifyProvenance(t)

\* Verification against a checkpoint accepts no other history than the one the
\* checkpoint was taken of, whatever became of the rows and was appended since.
CheckpointPinsHistory ==
  VerifyStream(checkpoint.task, checkpoint.seq, checkpoint.hash) /\ checkpoint.hash # None
    => {<<r.seq, r.event>> : r \in {s \in Stream(checkpoint.task) : s.seq <= checkpoint.seq}} = checkpoint.events

\* The two verifiers agree: what verify_stream accepts from the database,
\* verify_records accepts of the records read from it.
VerifiersAgree == \A t \in Tasks : VerifyStream(t, 0, None) => VerifyRecords(t, Ordered(t), None)

\* An export is the whole stream of its snapshot, page by page, verifies
\* offline, and ends at the revision and state of the Task's row.
ExportIsComplete ==
  bundle.records # <<>> =>
    /\ Len(bundle.records) = bundle.source
    /\ VerifyExport(bundle, bundle.records)
    /\ ProjectedLoop(bundle.key, bundle.records)[bundle.source].at = bundle.at

\* A bundle that lost a record, or has two of them exchanged, does not verify
\* with the manifest it was exported with.
ExportPinsRecords ==
  \A i, j \in DOMAIN bundle.records :
    LET lost == [k \in 1..(Len(bundle.records) - 1) |-> bundle.records[IF k < i THEN k ELSE k + 1]]
        exchanged == [bundle.records EXCEPT ![i] = bundle.records[j], ![j] = bundle.records[i]]
    IN ~VerifyExport(bundle, lost) /\ (i # j => ~VerifyExport(bundle, exchanged))

\* Damage is found: a checkpoint stands for one history, the two verifiers
\* agree, and what they refuse was not written by append_in_tx.
DamageIsFound == CheckpointPinsHistory /\ VerifiersAgree /\ AppendedVerifies

\* Whoever verifies an export has the whole stream, as it was exported.
ExportsVerify == ExportIsComplete /\ ExportPinsRecords

\* The events of the rows, in their order, are the abstract log.
LogOf == [t \in Tasks |-> [i \in DOMAIN Ordered(t) |-> Ordered(t)[i].event]]
Log == INSTANCE EventLog WITH log <- LogOf

\* Without damage the journal behaves as an append-only log of continuous
\* transitions for each Task: every step of it is one of the abstract log.
JournalIsLog ==
  /\ Log!Init
  /\ [][damage' = 0 => UNCHANGED LogOf \/ Log!Next]_vars
=============================================================================

----------------------- MODULE ProvenanceJournalProofs -----------------------
(***************************************************************************)
(* Proofs about ProvenanceJournal for any Tasks, events and states, and    *)
(* for streams of any length and any damage.                               *)
(*                                                                         *)
(* The code reads rows ORDER BY sequence and verifies them in a loop; both *)
(* have to be turned into statements about the rows first: what the sorted *)
(* rows of a set are, and what a loop that ended well has seen.            *)
(***************************************************************************)
EXTENDS ProvenanceJournal, FiniteSetTheorems, SequenceTheorems, WellFoundedInduction, TLAPS

-----------------------------------------------------------------------------
(* Induction over the natural numbers, for a set of them. *)

\* A set with zero and every successor holds all natural numbers.
LEMMA SetInduction ==
  ASSUME NEW T \in SUBSET Nat, 0 \in T, \A n \in T : n + 1 \in T
  PROVE  T = Nat
  <1> DEFINE R == {ss \in Nat \X Nat : ss[1] < ss[2]}
  <1>1. IsWellFoundedOn(R, Nat)
    BY NatLessThanWellFounded DEF OpToRel
  <1>2. \A x, y \in Nat : y < x => <<y, x>> \in R
    OBVIOUS
  <1> HIDE DEF R
  <1> SUFFICES ASSUME Nat \ T # {} PROVE FALSE
    OBVIOUS
  <1>3. PICK x \in Nat \ T : \A y \in Nat \ T : ~(<<y, x>> \in R)
    BY <1>1, WFMin
  <1>4. x # 0 /\ x - 1 \in Nat /\ x - 1 < x /\ (x - 1) + 1 = x
    BY <1>3
  <1>5. x - 1 \notin T
    BY <1>3, <1>4
  <1> QED BY <1>2, <1>3, <1>4, <1>5

-----------------------------------------------------------------------------
(* Rows in the order of their sequence. *)

\* Finitely many rows, no two of them with one sequence number.
Distinct(S) ==
  /\ IsFiniteSet(S)
  /\ \A r \in S : r.seq \in Nat \ {0}
  /\ \A r, s \in S : r.seq = s.seq => r = s

Before(S, r) == {s \in S : s.seq < r.seq}
Rank(S, r) == Cardinality(Before(S, r))

\* A row has fewer rows before it than one after it, and fewer than there are.
LEMMA RankOrders ==
  ASSUME NEW S, Distinct(S)
  PROVE  /\ \A r \in S : Rank(S, r) \in Nat /\ Rank(S, r) < Cardinality(S)
         /\ \A r, s \in S : r.seq < s.seq => Rank(S, r) < Rank(S, s)
         /\ \A r, s \in S : Rank(S, r) = Rank(S, s) => r = s
<1>1. \A r \in S : IsFiniteSet(Before(S, r)) /\ Rank(S, r) \in Nat /\ Rank(S, r) <= Cardinality(S)
                   /\ Rank(S, r) # Cardinality(S)
  <2> TAKE r \in S
  <2>1. Before(S, r) \in SUBSET S /\ r \notin Before(S, r)
    BY DEF Before, Distinct
  <2>2. IsFiniteSet(Before(S, r)) /\ Cardinality(Before(S, r)) <= Cardinality(S)
        /\ (Cardinality(S) = Cardinality(Before(S, r)) => S = Before(S, r))
    BY <2>1, FS_Subset DEF Distinct
  <2> QED BY <2>1, <2>2, FS_CardinalityType DEF Rank
<1>2. Cardinality(S) \in Nat
  BY FS_CardinalityType DEF Distinct
<1>3. \A r, s \in S : r.seq < s.seq => Rank(S, r) < Rank(S, s)
  <2> SUFFICES ASSUME NEW r \in S, NEW s \in S, r.seq < s.seq PROVE Rank(S, r) < Rank(S, s)
    OBVIOUS
  <2>1. Before(S, r) \in SUBSET Before(S, s) /\ r \in Before(S, s) /\ r \notin Before(S, r)
    BY DEF Before, Distinct
  <2>2. Cardinality(Before(S, r)) <= Cardinality(Before(S, s))
        /\ (Cardinality(Before(S, s)) = Cardinality(Before(S, r)) => Before(S, s) = Before(S, r))
    BY <1>1, <2>1, FS_Subset
  <2>3. Rank(S, r) <= Rank(S, s) /\ Rank(S, r) # Rank(S, s)
    BY <2>1, <2>2 DEF Rank
  <2> QED BY <1>1, <2>3
<1>4. \A r, s \in S : Rank(S, r) = Rank(S, s) => r = s
  <2> SUFFICES ASSUME NEW r \in S, NEW s \in S, Rank(S, r) = Rank(S, s), r # s PROVE FALSE
    OBVIOUS
  <2>1. r.seq < s.seq \/ s.seq < r.seq
    BY DEF Distinct
  <2> QED BY <1>1, <1>3, <2>1
<1> QED BY <1>1, <1>2, <1>3, <1>4

\* ORDER BY sequence lists every row of the set and nothing else.
LEMMA SortedLists ==
  ASSUME NEW S, Distinct(S)
  PROVE  /\ Cardinality(S) \in Nat /\ DOMAIN Sorted(S) = 1..Cardinality(S) /\ Len(Sorted(S)) = Cardinality(S)
         /\ \A i \in 1..Cardinality(S) : Sorted(S)[i] \in S /\ Rank(S, Sorted(S)[i]) = i - 1
         /\ \A r \in S : Rank(S, r) + 1 \in 1..Cardinality(S) /\ Sorted(S)[Rank(S, r) + 1] = r
<1> DEFINE n == Cardinality(S)
           T == 0..(n - 1)
           f == [r \in S |-> Rank(S, r)]
<1>1. n \in Nat /\ IsFiniteSet(S)
  BY FS_CardinalityType DEF Distinct
<1>2. f \in [S -> T] /\ \A r, s \in S : f[r] = f[s] => r = s
  BY <1>1, RankOrders
<1>3. IsFiniteSet(T) /\ Cardinality(T) = n
  BY <1>1, FS_Interval
<1>4. f \in Surjection(S, T)
  <2>1. f \in Injection(S, T)
    BY <1>2 DEF Injection, IsInjective
  <2> QED BY <1>1, <1>3, <2>1, FS_Injection
<1>5. \A i \in 1..n : \E r \in S : Rank(S, r) = i - 1
  <2> TAKE i \in 1..n
  <2>1. i - 1 \in T
    BY <1>1
  <2>2. \E r \in S : f[r] = i - 1
    BY <1>4, <2>1 DEF Surjection
  <2> QED BY <2>2
<1>6. Sorted(S) = [i \in 1..n |-> CHOOSE r \in S : Rank(S, r) = i - 1]
  BY DEF Sorted, Rank, Before
<1>7. \A i \in 1..n : Sorted(S)[i] \in S /\ Rank(S, Sorted(S)[i]) = i - 1
  BY <1>5, <1>6
<1>8. DOMAIN Sorted(S) = 1..n /\ Len(Sorted(S)) = n
  BY <1>1, <1>6
<1>9. \A r \in S : Rank(S, r) + 1 \in 1..n /\ Sorted(S)[Rank(S, r) + 1] = r
  <2> TAKE r \in S
  <2>1. Rank(S, r) + 1 \in 1..n /\ (Rank(S, r) + 1) - 1 = Rank(S, r)
    BY <1>1, RankOrders
  <2> QED BY <1>7, <2>1, RankOrders
<1> QED BY <1>1, <1>7, <1>8, <1>9

\* There is a last row.
LEMMA LastRow ==
  ASSUME NEW S, Distinct(S), S # {}
  PROVE  \E r \in S : \A s \in S : s.seq <= r.seq
<1>1. Cardinality(S) \in Nat /\ Cardinality(S) # 0
  BY FS_CardinalityType, FS_EmptySet DEF Distinct
<1>2. PICK r \in S : Rank(S, r) = Cardinality(S) - 1
  BY <1>1, SortedLists
<1>3. \A s \in S : ~(r.seq < s.seq)
  BY <1>1, <1>2, RankOrders
<1> QED BY <1>2, <1>3 DEF Distinct

-----------------------------------------------------------------------------
(* What the table's keys keep, whatever is damaged or lost. *)

Hashes == Seq(Tasks \X Nat \X Events)
Rows ==
  [stream : Tasks, seq : Nat \ {0}, prev : Hashes, event : Events, hash : Hashes,
   index : [id : Ids, task : Tasks, type : {"created", "transitioned", "noted"}]]

\* The rows are typed; a stream and a sequence number, and an event id, name
\* one row.
Keyed ==
  /\ damage \in Nat
  /\ rows \subseteq Rows /\ IsFiniteSet(rows)
  /\ \A r, s \in rows : r.stream = s.stream /\ r.seq = s.seq => r = s
  /\ \A r, s \in rows : r.index.id = s.index.id => r = s

LEMMA EventFields ==
  ASSUME NEW e \in Events
  PROVE  /\ e.task \in Tasks /\ e.id \in Ids /\ e.type \in {"created", "transitioned", "noted"}
         /\ e.type = "transitioned" => e.from \in Points /\ e.to \in States
         /\ IndexOf(e) \in [id : Ids, task : Tasks, type : {"created", "transitioned", "noted"}]
BY DEF Events, PlainEvents, Transitions, IndexOf

LEMMA StreamDistinct ==
  ASSUME Keyed, NEW t, NEW S \in SUBSET Stream(t)
  PROVE  Distinct(S)
<1>1. S \in SUBSET rows
  BY DEF Stream
<1>2. IsFiniteSet(S)
  BY <1>1, FS_Subset DEF Keyed
<1>3. \A r \in S : r.seq \in Nat \ {0}
  BY <1>1 DEF Keyed, Rows
<1>4. \A r, s \in S : r.seq = s.seq => r = s
  BY <1>1 DEF Keyed, Stream
<1> QED BY <1>2, <1>3, <1>4 DEF Distinct

\* get_head is the last row of the stream, and the next one comes after it.
LEMMA HeadIsLast ==
  ASSUME Keyed, NEW t
  PROVE  /\ Stream(t) # {} => Head_(t) \in Stream(t) /\ \A r \in Stream(t) : r.seq <= Head_(t).seq
         /\ NextSequence(t) \in Nat \ {0}
         /\ \A r \in Stream(t) : r.seq < NextSequence(t)
         /\ HeadHash(t) \in Hashes
<1>1. CASE Stream(t) = {}
  <2>1. NextSequence(t) = 1 /\ HeadHash(t) = <<>>
    BY <1>1 DEF NextSequence, HeadHash, None
  <2> QED BY <1>1, <2>1 DEF Hashes
<1>2. CASE Stream(t) # {}
  <2>1. \E r \in Stream(t) : \A s \in Stream(t) : s.seq <= r.seq
    BY <1>2, StreamDistinct, LastRow
  <2>2. Head_(t) \in Stream(t) /\ \A s \in Stream(t) : s.seq <= Head_(t).seq
    BY <2>1 DEF Head_
  <2>3. \A r \in Stream(t) : r.seq \in Nat \ {0} /\ r.hash \in Hashes
    BY DEF Keyed, Rows, Stream
  <2>4. NextSequence(t) = Head_(t).seq + 1 /\ HeadHash(t) = Head_(t).hash
    BY <1>2 DEF NextSequence, HeadHash
  <2> QED BY <2>2, <2>3, <2>4
<1> QED BY <1>1, <1>2

\* The row append_in_tx inserts.
NewRow(t, e) ==
  [stream |-> t, seq |-> NextSequence(t), prev |-> HeadHash(t), event |-> e,
   hash |-> HashRecord(t, NextSequence(t), HeadHash(t), e), index |-> IndexOf(e)]

LEMMA AppendFacts ==
  ASSUME Keyed, NEW t \in Tasks, NEW e \in Events, NEW x, AppendInTx(t, e, x)
  PROVE  /\ rows' = rows \cup {NewRow(t, e)} /\ NewRow(t, e) \in Rows
         /\ \A r \in rows : ~(r.stream = t /\ r.seq = NextSequence(t)) /\ r.index.id # e.id
         /\ UNCHANGED <<checkpoint, damage>>
<1>1. rows' = rows \cup {NewRow(t, e)} /\ UNCHANGED <<checkpoint, damage>> /\ \A r \in rows : r.index.id # e.id
  BY DEF AppendInTx, NewRow
<1>2. HashRecord(t, NextSequence(t), HeadHash(t), e) \in Hashes
  BY HeadIsLast DEF HashRecord, Hashes
<1>3. NewRow(t, e) \in Rows
  BY <1>2, HeadIsLast, EventFields DEF NewRow, Rows
<1>4. \A r \in rows : ~(r.stream = t /\ r.seq = NextSequence(t))
  <2>1. \A r \in Stream(t) : r.seq \in Nat
    BY DEF Keyed, Rows, Stream
  <2>2. \A r \in Stream(t) : r.seq # NextSequence(t)
    BY <2>1, HeadIsLast
  <2> QED BY <2>2 DEF Stream
<1> QED BY <1>1, <1>3, <1>4

\* A row that stays itself for the keys.
LEMMA ChangedKeyed ==
  ASSUME Keyed, NEW r \in rows, NEW s \in Rows,
         s.stream = r.stream, s.seq = r.seq, s.index.id = r.index.id,
         rows' = (rows \ {r}) \cup {s}, damage' \in Nat
  PROVE  Keyed'
<1>1. IsFiniteSet(rows')
  BY FS_RemoveElement, FS_AddElement DEF Keyed
<1>2. rows' \subseteq Rows
  BY DEF Keyed
<1>3. \A p, q \in rows' : p.stream = q.stream /\ p.seq = q.seq => p = q
  BY DEF Keyed
<1>4. \A p, q \in rows' : p.index.id = q.index.id => p = q
  BY DEF Keyed
<1> QED BY <1>1, <1>2, <1>3, <1>4 DEF Keyed

LEMMA LostKeyed ==
  ASSUME Keyed, rows' \subseteq rows, damage' \in Nat PROVE Keyed'
<1>1. IsFiniteSet(rows')
  BY FS_Subset DEF Keyed
<1> QED BY <1>1 DEF Keyed

\* Damage from outside, as steps.
Outside ==
  \E r \in rows : \/ \E e \in Events : ChangeEvent(r, e)
                  \/ \E k \in {"created", "transitioned", "noted"} : ChangeIndex(r, k)
                  \/ LoseRow(r) \/ LoseTail(r)

LEMMA KeyedStep ==
  ASSUME Keyed, [Next]_vars PROVE Keyed'
<1>1. CASE \E t \in Tasks, e \in Events, x \in {"any", "empty", "exact"} : AppendInTx(t, e, x)
  <2> SUFFICES ASSUME NEW t \in Tasks, NEW e \in Events, NEW x \in {"any", "empty", "exact"},
                      AppendInTx(t, e, x)
               PROVE  Keyed'
    BY <1>1
  <2>1. /\ rows' = rows \cup {NewRow(t, e)} /\ NewRow(t, e) \in Rows
        /\ \A r \in rows : ~(r.stream = t /\ r.seq = NextSequence(t)) /\ r.index.id # e.id
        /\ UNCHANGED damage
    BY AppendFacts
  <2>2. IsFiniteSet(rows')
    BY <2>1, FS_AddElement DEF Keyed
  <2>3. NewRow(t, e).stream = t /\ NewRow(t, e).seq = NextSequence(t) /\ NewRow(t, e).index.id = e.id
    BY DEF NewRow, IndexOf
  <2> QED BY <2>1, <2>2, <2>3 DEF Keyed
<1>2. CASE UNCHANGED <<rows, damage>>
  BY <1>2 DEF Keyed
<1>3. CASE Outside
  <2> SUFFICES ASSUME NEW r \in rows,
                      \/ \E e \in Events : ChangeEvent(r, e)
                      \/ \E k \in {"created", "transitioned", "noted"} : ChangeIndex(r, k)
                      \/ LoseRow(r) \/ LoseTail(r)
               PROVE  Keyed'
    BY <1>3 DEF Outside
  <2>1. r \in Rows /\ damage' \in Nat
    BY DEF Keyed, ChangeEvent, ChangeIndex, LoseRow, LoseTail, Hurt
  <2>2. ASSUME NEW e \in Events, ChangeEvent(r, e) PROVE Keyed'
    <3> DEFINE s == [r EXCEPT !.event = e]
    <3>1. s \in Rows /\ s.stream = r.stream /\ s.seq = r.seq /\ s.index.id = r.index.id
      BY <2>1, <2>2 DEF Rows
    <3> QED BY <2>1, <2>2, <3>1, ChangedKeyed DEF ChangeEvent
  <2>3. ASSUME NEW k \in {"created", "transitioned", "noted"}, ChangeIndex(r, k) PROVE Keyed'
    <3> DEFINE s == [r EXCEPT !.index.type = k]
    <3>1. s \in Rows /\ s.stream = r.stream /\ s.seq = r.seq /\ s.index.id = r.index.id
      BY <2>1, <2>3 DEF Rows
    <3> QED BY <2>1, <2>3, <3>1, ChangedKeyed DEF ChangeIndex
  <2>4. ASSUME LoseRow(r) \/ LoseTail(r) PROVE Keyed'
    <3>1. rows' \subseteq rows
      BY <2>4 DEF LoseRow, LoseTail
    <3> QED BY <2>1, <3>1, LostKeyed
  <2> QED BY <2>2, <2>3, <2>4
<1>4. CASE \E t \in Tasks : TakeCheckpoint(t) \/ ExportJsonl(t)
  BY <1>2, <1>4 DEF TakeCheckpoint, ExportJsonl
<1> QED BY <1>1, <1>2, <1>3, <1>4 DEF Next, vars, Outside

-----------------------------------------------------------------------------
(* The loops: what they have found after each record. *)

\* The loop of verify_stream goes from each record to the next.
LEMMA StreamLoopRuns ==
  ASSUME NEW t, NEW records, Len(records) \in Nat
  PROVE  /\ StreamLoop(t, records)[0] = Begun
         /\ \A i \in 1..Len(records) :
              StreamLoop(t, records)[i] = StreamStep(t, StreamLoop(t, records)[i - 1], records[i])
<1> DEFINE Loop(g, n) == g = [i \in 0..n |-> IF i = 0 THEN Begun ELSE StreamStep(t, g[i - 1], records[i])]
           T == {n \in Nat : \E g : Loop(g, n)}
           f == CHOOSE g : Loop(g, Len(records))
<1>1. 0 \in T
  <2> DEFINE g == [i \in 0..0 |-> Begun]
  <2>1. Loop(g, 0)
    OBVIOUS
  <2> QED BY <2>1
<1>2. ASSUME NEW n \in T PROVE n + 1 \in T
  <2>1. PICK g : Loop(g, n)
    BY <1>2
  <2> DEFINE h == [i \in 0..(n + 1) |-> IF i = n + 1 THEN StreamStep(t, g[n], records[n + 1]) ELSE g[i]]
  <2>2. n \in Nat
    OBVIOUS
  <2>3. \A i \in 0..(n + 1) : h[i] = IF i = 0 THEN Begun ELSE StreamStep(t, h[i - 1], records[i])
    <3> TAKE i \in 0..(n + 1)
    <3>1. CASE i = n + 1
      <4>1. i # 0 /\ i - 1 = n /\ n \in 0..(n + 1) /\ n # n + 1
        BY <2>2, <3>1
      <4> QED BY <3>1, <4>1
    <3>2. CASE i # n + 1
      <4>1. i \in 0..n /\ h[i] = g[i]
        BY <2>2, <3>2
      <4>2. CASE i = 0
        BY <2>1, <4>1, <4>2
      <4>3. CASE i # 0
        <5>1. i - 1 \in 0..(n + 1) /\ i - 1 # n + 1
          BY <2>2, <4>1, <4>3
        <5>2. h[i - 1] = g[i - 1]
          BY <5>1
        <5>3. g[i] = StreamStep(t, g[i - 1], records[i])
          BY <2>1, <4>1, <4>3
        <5> QED BY <4>1, <4>3, <5>2, <5>3
      <4> QED BY <4>2, <4>3
    <3> QED BY <3>1, <3>2
  <2>4. Loop(h, n + 1)
    BY <2>3
  <2> HIDE DEF h, Loop
  <2> QED BY <2>2, <2>4
<1>3. T = Nat
  <2>1. T \in SUBSET Nat
    OBVIOUS
  <2> HIDE DEF T
  <2> QED BY <1>1, <1>2, <2>1, SetInduction
<1>4. Loop(f, Len(records))
  <2>1. \E g : Loop(g, Len(records))
    BY <1>3
  <2> QED BY <2>1
<1>5. StreamLoop(t, records) = f
  BY DEF StreamLoop
<1> HIDE DEF f
<1> QED BY <1>4, <1>5


Positions == [rev : Nat, state : States \cup {"none"}]
Verdicts == [ok : BOOLEAN, prev : Hashes, next : Nat, at : Positions, ids : SUBSET Ids]

\* What verify_stream requires of a record after those before it.
Passes(t, v, r) == v.ok /\ VerifyOne(t, v, r) /\ r.index = IndexOf(r.event) /\ Advance(v.at, r.event) # NoPoint

LEMMA AdvanceType ==
  ASSUME JournalAssumption, NEW at \in Positions, NEW e \in Events
  PROVE  Advance(at, e) \in Positions
<1>1. NoPoint \in Positions /\ Start \in Positions
  BY DEF NoPoint, Start, Positions, JournalAssumption
<1>2. at.rev + 1 \in Nat
  BY DEF Positions
<1>3. e.type = "transitioned" => [rev |-> at.rev + 1, state |-> e.to] \in Positions
  BY <1>2, EventFields DEF Positions
<1>4. e.type \in {"created", "transitioned", "noted"}
  BY EventFields
<1> QED BY <1>1, <1>3, <1>4 DEF Advance

LEMMA StepFacts ==
  ASSUME JournalAssumption, NEW t, NEW v \in Verdicts, NEW r \in Rows
  PROVE  /\ StreamStep(t, v, r) \in Verdicts
         /\ StreamStep(t, v, r).ok <=> Passes(t, v, r)
         /\ Passes(t, v, r) => StreamStep(t, v, r) = Step(v, r)
         /\ Step(v, r).ok = v.ok /\ Step(v, r).prev = r.hash /\ Step(v, r).next = v.next + 1
         /\ Step(v, r).at = Advance(v.at, r.event) /\ Step(v, r).ids = v.ids \cup {r.event.id}
<1>1. r.event \in Events /\ r.hash \in Hashes /\ v.next + 1 \in Nat /\ Advance(v.at, r.event) \in Positions
      /\ r.event.id \in Ids
  BY AdvanceType, EventFields DEF Rows, Verdicts
<1>2. /\ Step(v, r) \in Verdicts
      /\ Step(v, r).ok = v.ok /\ Step(v, r).prev = r.hash /\ Step(v, r).next = v.next + 1
      /\ Step(v, r).at = Advance(v.at, r.event) /\ Step(v, r).ids = v.ids \cup {r.event.id}
  BY <1>1 DEF Step, Verdicts
<1>3. Bad(v) \in Verdicts /\ Bad(v).ok = FALSE
  BY DEF Bad, Verdicts
<1>4. StreamStep(t, v, r) = IF Passes(t, v, r) THEN Step(v, r) ELSE Bad(v)
  BY DEF StreamStep, Passes
<1>5. CASE Passes(t, v, r)
  <2>1. v.ok
    BY <1>5 DEF Passes
  <2> QED BY <1>2, <1>4, <1>5, <2>1
<1>6. CASE ~Passes(t, v, r)
  BY <1>2, <1>3, <1>4, <1>6
<1> QED BY <1>5, <1>6

LEMMA BegunType == Begun \in Verdicts /\ Begun.ok /\ Begun.prev = <<>> /\ Begun.next = 1
                   /\ Begun.at = NoPoint /\ Begun.ids = {}
<1>1. NoPoint \in Positions
  BY DEF NoPoint, Positions
<1>2. <<>> \in Hashes
  BY DEF Hashes
<1> QED BY <1>1, <1>2 DEF Begun, Verdicts, None

LEMMA FcnIsSeq ==
  ASSUME NEW X, NEW k \in Nat, NEW f \in [1..k -> X] PROVE f \in Seq(X) /\ Len(f) = k
<1>1. f \in Seq(X)
  BY SeqDef
<1>2. Len(f) \in Nat /\ 1..Len(f) = 1..k
  BY <1>1, LenProperties
<1>3. Len(f) = k
  <2> DEFINE n == Len(f)
  <2>1. n \in Nat /\ 1..n = 1..k
    BY <1>2
  <2> HIDE DEF n
  <2>2. (n < k => k \in 1..k /\ k \notin 1..n) /\ (k < n => n \in 1..n /\ n \notin 1..k)
    BY <2>1
  <2>3. n = k
    BY <2>1, <2>2
  <2> QED BY <2>3 DEF n
<1> QED BY <1>1, <1>3

\* The hash of a chain of k records says which they are.
Chain(t, records, k) == [j \in 1..k |-> <<t, j, records[j].event>>]

\* Every record that a loop ended well with passed; their hash is their chain.
LoopSaw(t, records) ==
  \A k \in 0..Len(records) :
    /\ StreamLoop(t, records)[k] \in Verdicts
    /\ StreamLoop(t, records)[k].ok =>
         /\ StreamLoop(t, records)[k].next = k + 1
         /\ StreamLoop(t, records)[k].prev = Chain(t, records, k)
         /\ \A j \in 1..k : /\ Passes(t, StreamLoop(t, records)[j - 1], records[j])
                            /\ StreamLoop(t, records)[j] = Step(StreamLoop(t, records)[j - 1], records[j])
                            /\ records[j].seq = j

LEMMA StreamLoopSaw ==
  ASSUME JournalAssumption, NEW t \in Tasks, NEW records, Len(records) \in Nat,
         \A i \in 1..Len(records) : records[i] \in Rows
  PROVE  LoopSaw(t, records)
<1> DEFINE v == StreamLoop(t, records)
           Saw(k) == /\ v[k].next = k + 1
                     /\ v[k].prev = Chain(t, records, k)
                     /\ \A j \in 1..k : /\ Passes(t, v[j - 1], records[j])
                                        /\ v[j] = Step(v[j - 1], records[j])
                                        /\ records[j].seq = j
           T == {k \in Nat : k \in 0..Len(records) => v[k] \in Verdicts /\ (v[k].ok => Saw(k))}
<1>1. v[0] = Begun /\ \A i \in 1..Len(records) : v[i] = StreamStep(t, v[i - 1], records[i])
  BY StreamLoopRuns
<1> HIDE DEF v
<1>2. 0 \in T
  <2>1. Chain(t, records, 0) = <<>>
    BY DEF Chain
  <2> QED BY <1>1, <2>1, BegunType
<1>3. ASSUME NEW k \in T PROVE k + 1 \in T
  <2> SUFFICES ASSUME k + 1 \in 0..Len(records)
               PROVE  v[k + 1] \in Verdicts /\ (v[k + 1].ok => Saw(k + 1))
    BY <1>3
  <2>1. k \in Nat /\ k \in 0..Len(records) /\ k + 1 \in 1..Len(records) /\ (k + 1) - 1 = k
    OBVIOUS
  <2>2. v[k] \in Verdicts /\ (v[k].ok => Saw(k))
    BY <1>3, <2>1
  <2> DEFINE r == records[k + 1]
  <2>3. r \in Rows /\ v[k + 1] = StreamStep(t, v[k], r)
    BY <1>1, <2>1
  <2> HIDE DEF r
  <2>4. /\ v[k + 1] \in Verdicts /\ (v[k + 1].ok <=> Passes(t, v[k], r))
        /\ (Passes(t, v[k], r) => v[k + 1] = Step(v[k], r))
        /\ Step(v[k], r).prev = r.hash /\ Step(v[k], r).next = v[k].next + 1
    <3>1. /\ StreamStep(t, v[k], r) \in Verdicts /\ (StreamStep(t, v[k], r).ok <=> Passes(t, v[k], r))
          /\ (Passes(t, v[k], r) => StreamStep(t, v[k], r) = Step(v[k], r))
          /\ Step(v[k], r).prev = r.hash /\ Step(v[k], r).next = v[k].next + 1
      <4>1. v[k] \in Verdicts /\ r \in Rows
        BY <2>2, <2>3
      <4> HIDE DEF T, Saw
      <4> QED BY ONLY JournalAssumption, <4>1, StepFacts
    <3> QED BY <2>3, <3>1
  <2>5. ASSUME v[k + 1].ok PROVE Saw(k + 1)
    <3>1. Passes(t, v[k], r) /\ Saw(k) /\ v[k + 1] = Step(v[k], r)
      BY <2>2, <2>4, <2>5 DEF Passes
    <3>2. v[k + 1].next = (k + 1) + 1 /\ r.seq = k + 1
      BY <2>4, <3>1 DEF Passes, VerifyOne
    <3>3. r.hash = Append(Chain(t, records, k), <<t, k + 1, r.event>>)
      BY <3>1, <3>2 DEF Passes, VerifyOne, HashRecord
    <3>4. Append(Chain(t, records, k), <<t, k + 1, r.event>>) = Chain(t, records, k + 1)
      <4>1. Chain(t, records, k) \in Seq(Tasks \X Nat \X Events) /\ Len(Chain(t, records, k)) = k
        <5>1. \A j \in 1..k : <<t, j, records[j].event>> \in Tasks \X Nat \X Events
          BY <2>1 DEF Rows
        <5>2. Chain(t, records, k) \in [1..k -> Tasks \X Nat \X Events]
          BY <5>1 DEF Chain
        <5> QED BY <2>1, <5>2, FcnIsSeq
      <4>2. <<t, k + 1, r.event>> \in Tasks \X Nat \X Events
        BY <2>1, <2>3 DEF Rows
      <4> QED BY <2>1, <4>1, <4>2 DEF Chain, r
    <3>5. v[k + 1].prev = Chain(t, records, k + 1)
      BY <2>4, <3>1, <3>3, <3>4
    <3>6. \A j \in 1..(k + 1) : Passes(t, v[j - 1], records[j]) /\ v[j] = Step(v[j - 1], records[j]) /\ records[j].seq = j
      <4> TAKE j \in 1..(k + 1)
      <4>1. CASE j = k + 1
        BY <2>1, <3>1, <3>2, <4>1 DEF r
      <4>2. CASE j # k + 1
        <5>1. j \in 1..k
          BY <2>1, <4>2
        <5> QED BY <3>1, <5>1
      <4> QED BY <4>1, <4>2
    <3> QED BY <3>2, <3>5, <3>6
  <2> QED BY <2>4, <2>5
<1>4. T = Nat
  <2>1. T \in SUBSET Nat
    OBVIOUS
  <2> HIDE DEF T
  <2> QED BY <1>2, <1>3, <2>1, SetInduction
<1>5. \A k \in 0..Len(records) : v[k] \in Verdicts /\ (v[k].ok => Saw(k))
  <2> TAKE k \in 0..Len(records)
  <2>1. k \in T
    BY <1>4
  <2> QED BY <2>1
<1> QED BY <1>5 DEF v, LoopSaw


-----------------------------------------------------------------------------
(* What verify_stream has accepted. *)

Through(t, n) == {r \in Stream(t) : n = 0 \/ r.seq <= n}

LEMMA ReadLists ==
  ASSUME Keyed, NEW t, NEW n
  PROVE  /\ Distinct(Through(t, n)) /\ Through(t, n) \in SUBSET Stream(t)
         /\ ReadThrough(t, n) = Sorted(Through(t, n))
         /\ Len(ReadThrough(t, n)) = Cardinality(Through(t, n)) /\ Cardinality(Through(t, n)) \in Nat
         /\ \A i \in 1..Cardinality(Through(t, n)) : ReadThrough(t, n)[i] \in Through(t, n)
         /\ \A i \in 1..Cardinality(Through(t, n)) : ReadThrough(t, n)[i] \in Rows
<1>1. Through(t, n) \in SUBSET Stream(t)
  BY DEF Through
<1>2. Distinct(Through(t, n))
  BY <1>1, StreamDistinct
<1>3. ReadThrough(t, n) = Sorted(Through(t, n))
  BY DEF ReadThrough, Through
<1>4. /\ Len(ReadThrough(t, n)) = Cardinality(Through(t, n)) /\ Cardinality(Through(t, n)) \in Nat
      /\ \A i \in 1..Cardinality(Through(t, n)) : ReadThrough(t, n)[i] \in Through(t, n)
  BY <1>2, <1>3, SortedLists
<1>5. \A r \in Through(t, n) : r \in Rows
  BY <1>1 DEF Stream, Keyed
<1> QED BY <1>1, <1>2, <1>3, <1>4, <1>5

\* The rows it read are numbered without a gap, every row of the stream was
\* read, and the hash it ended with is that of the last row and says what the
\* events are.
LEMMA AcceptedRows ==
  ASSUME JournalAssumption, Keyed, NEW t \in Tasks, NEW n \in Nat, NEW pin, VerifyStream(t, n, pin)
  PROVE  LET m == Cardinality(Through(t, n))
             read == ReadThrough(t, n)
         IN /\ m \in Nat \ {0} /\ (n # 0 => m = n)
            /\ pin # None => Chain(t, read, m) = pin
            /\ read[m].hash = Chain(t, read, m)
            /\ \A j \in 1..m : read[j] \in Through(t, n) /\ read[j].seq = j
            /\ \A r \in Through(t, n) : r.seq \in 1..m /\ read[r.seq] = r
<1> DEFINE m == Cardinality(Through(t, n))
           read == ReadThrough(t, n)
           v == StreamLoop(t, read)
<1>1. /\ Distinct(Through(t, n)) /\ read = Sorted(Through(t, n)) /\ Len(read) = m /\ m \in Nat
      /\ \A i \in 1..m : read[i] \in Through(t, n) /\ read[i] \in Rows
  BY ReadLists
<1>2. v[m].ok /\ v[m].prev # <<>> /\ (pin # None => v[m].prev = pin) /\ (n # 0 => v[m].next = n + 1)
  BY <1>1 DEF VerifyStream, Finish, None
<1> HIDE DEF m, read
<1>3. \A k \in 0..Len(read) :
        /\ v[k] \in Verdicts
        /\ v[k].ok => /\ v[k].next = k + 1
                      /\ v[k].prev = Chain(t, read, k)
                      /\ \A j \in 1..k : /\ Passes(t, v[j - 1], read[j])
                                         /\ v[j] = Step(v[j - 1], read[j])
                                         /\ read[j].seq = j
  <2>1. Len(read) \in Nat /\ \A i \in 1..Len(read) : read[i] \in Rows
    BY <1>1
  <2>2. LoopSaw(t, read)
    BY <2>1, StreamLoopSaw
  <2> QED BY <2>2 DEF LoopSaw
<1> HIDE DEF v
<1>4. m \in 0..Len(read)
  BY <1>1
<1>5. /\ v[m].next = m + 1 /\ v[m].prev = Chain(t, read, m)
      /\ \A j \in 1..m : v[j] = Step(v[j - 1], read[j]) /\ read[j].seq = j
  BY <1>2, <1>3, <1>4
<1>6. m # 0
  <2>1. Chain(t, read, 0) = <<>>
    BY DEF Chain
  <2> QED BY <1>2, <1>5, <2>1
<1>7. n # 0 => m = n
  BY <1>1, <1>2, <1>5
<1>8. read[m].hash = Chain(t, read, m)
  <2>1. m \in 1..m /\ m - 1 \in 0..Len(read)
    BY <1>1, <1>6
  <2>2. v[m] = Step(v[m - 1], read[m]) /\ v[m - 1] \in Verdicts /\ read[m] \in Rows
    BY <1>1, <1>3, <1>5, <2>1
  <2>3. Step(v[m - 1], read[m]).prev = read[m].hash
    BY <2>2, StepFacts
  <2> QED BY <1>5, <2>2, <2>3
<1>9. \A r \in Through(t, n) : r.seq \in 1..m /\ read[r.seq] = r
  <2> TAKE r \in Through(t, n)
  <2>1. PICK i \in 1..m : read[i] = r
    BY <1>1, SortedLists DEF m
  <2> QED BY <1>5, <2>1
<1> QED BY <1>1, <1>2, <1>5, <1>6, <1>7, <1>8, <1>9 DEF m, read

\* The events of the rows it read, by their place in the chain.
LEMMA AcceptedEvents ==
  ASSUME JournalAssumption, Keyed, NEW t \in Tasks, NEW n \in Nat, NEW pin, VerifyStream(t, n, pin)
  PROVE  LET m == Cardinality(Through(t, n))
             read == ReadThrough(t, n)
         IN {<<r.seq, r.event>> : r \in Through(t, n)}
              = {<<Chain(t, read, m)[j][2], Chain(t, read, m)[j][3]>> : j \in 1..m}
<1> DEFINE m == Cardinality(Through(t, n))
           read == ReadThrough(t, n)
<1>1. /\ \A j \in 1..m : read[j] \in Through(t, n) /\ read[j].seq = j
      /\ \A r \in Through(t, n) : r.seq \in 1..m /\ read[r.seq] = r
  BY AcceptedRows
<1> HIDE DEF m, read
<1>2. \A j \in 1..m : Chain(t, read, m)[j][2] = j /\ Chain(t, read, m)[j][3] = read[j].event
  BY DEF Chain
<1>3. ASSUME NEW r \in Through(t, n)
      PROVE  \E j \in 1..m : <<r.seq, r.event>> = <<Chain(t, read, m)[j][2], Chain(t, read, m)[j][3]>>
  BY <1>1, <1>2
<1>4. ASSUME NEW j \in 1..m
      PROVE  \E r \in Through(t, n) : <<r.seq, r.event>> = <<Chain(t, read, m)[j][2], Chain(t, read, m)[j][3]>>
  BY <1>1, <1>2
<1>5. {<<r.seq, r.event>> : r \in Through(t, n)}
        = {<<Chain(t, read, m)[j][2], Chain(t, read, m)[j][3]>> : j \in 1..m}
  BY <1>3, <1>4
<1> QED BY <1>5 DEF m, read

-----------------------------------------------------------------------------
(* A checkpoint pins the history it was taken of. *)

\* The checkpoint's hash says what the events are that it stood for.
Pinned ==
  checkpoint.hash # None =>
    /\ checkpoint.task \in Tasks /\ checkpoint.seq \in Nat \ {0}
    /\ checkpoint.events = {<<checkpoint.hash[j][2], checkpoint.hash[j][3]>> : j \in 1..checkpoint.seq}

LEMMA PinnedStep ==
  ASSUME JournalAssumption, Keyed, Pinned, [Next]_vars PROVE Pinned'
<1>1. CASE \E t \in Tasks : TakeCheckpoint(t)
  <2>1. PICK t \in Tasks : TakeCheckpoint(t)
    BY <1>1
  <2> DEFINE m == Cardinality(Through(t, 0))
             read == ReadThrough(t, 0)
  <2>2. VerifyStream(t, 0, None) /\ Stream(t) # {} /\ Through(t, 0) = Stream(t)
    BY <2>1 DEF TakeCheckpoint, VerifyProvenance, Through
  <2>3. /\ m \in Nat \ {0} /\ read[m].hash = Chain(t, read, m)
        /\ \A j \in 1..m : read[j] \in Stream(t) /\ read[j].seq = j
        /\ \A r \in Stream(t) : r.seq \in 1..m /\ read[r.seq] = r
    BY <2>2, AcceptedRows
  <2>4. {<<r.seq, r.event>> : r \in Stream(t)}
          = {<<Chain(t, read, m)[j][2], Chain(t, read, m)[j][3]>> : j \in 1..m}
    BY <2>2, AcceptedEvents
  <2> HIDE DEF m, read
  <2>5. Head_(t) = read[m]
    <3>1. Head_(t) \in Stream(t) /\ \A r \in Stream(t) : r.seq <= Head_(t).seq
      BY <2>2, HeadIsLast
    <3>2. read[m] \in Stream(t) /\ read[m].seq = m
      BY <2>3
    <3>3. Head_(t).seq = m
      BY <2>3, <3>1, <3>2
    <3> QED BY <2>3, <3>1, <3>3
  <2>6. checkpoint'.task = t /\ checkpoint'.seq = m /\ checkpoint'.hash = Chain(t, read, m)
        /\ checkpoint'.events = {<<r.seq, r.event>> : r \in Stream(t)}
    BY <2>1, <2>2, <2>3, <2>5 DEF TakeCheckpoint, HeadHash
  <2> QED BY <2>3, <2>4, <2>6 DEF Pinned
<1>2. CASE UNCHANGED checkpoint
  BY <1>2 DEF Pinned
<1>3. CASE \E t \in Tasks, e \in Events, x \in {"any", "empty", "exact"} : AppendInTx(t, e, x)
  BY <1>2, <1>3 DEF AppendInTx
<1>4. CASE \E t \in Tasks : ExportJsonl(t)
  BY <1>2, <1>4 DEF ExportJsonl
<1>5. CASE Outside
  BY <1>2, <1>5 DEF Outside, ChangeEvent, ChangeIndex, LoseRow, LoseTail, Hurt
<1>6. CASE UNCHANGED vars
  BY <1>2, <1>6 DEF vars
<1> QED BY <1>1, <1>3, <1>4, <1>5, <1>6 DEF Next, Outside

LEMMA PinnedPins ==
  ASSUME JournalAssumption, Keyed, Pinned PROVE CheckpointPinsHistory
<1> SUFFICES ASSUME VerifyStream(checkpoint.task, checkpoint.seq, checkpoint.hash), checkpoint.hash # None
             PROVE  {<<r.seq, r.event>> : r \in {s \in Stream(checkpoint.task) : s.seq <= checkpoint.seq}}
                      = checkpoint.events
  BY DEF CheckpointPinsHistory
<1> DEFINE t == checkpoint.task
           n == checkpoint.seq
<1>1. /\ t \in Tasks /\ n \in Nat \ {0}
      /\ checkpoint.events = {<<checkpoint.hash[j][2], checkpoint.hash[j][3]>> : j \in 1..n}
  BY DEF Pinned
<1>2. VerifyStream(t, n, checkpoint.hash)
  OBVIOUS
<1> HIDE DEF t, n
<1>3. Cardinality(Through(t, n)) = n /\ Chain(t, ReadThrough(t, n), n) = checkpoint.hash
  BY <1>1, <1>2, AcceptedRows
<1>4. {<<r.seq, r.event>> : r \in Through(t, n)}
        = {<<checkpoint.hash[j][2], checkpoint.hash[j][3]>> : j \in 1..n}
  BY <1>1, <1>2, <1>3, AcceptedEvents
<1>5. Through(t, n) = {s \in Stream(t) : s.seq <= n}
  BY <1>1 DEF Through
<1> QED BY <1>1, <1>4, <1>5 DEF t, n


-----------------------------------------------------------------------------
(* The two verifiers agree. *)

\* On records that verify_stream accepts, with an id for each, the loop of
\* verify_records finds the same.
LEMMA LoopsAgree ==
  ASSUME JournalAssumption, NEW t \in Tasks, NEW records, Len(records) \in Nat,
         \A i \in 1..Len(records) : records[i] \in Rows,
         \A i, j \in 1..Len(records) : records[i].index.id = records[j].index.id => i = j,
         StreamLoop(t, records)[Len(records)].ok
  PROVE  RecordsLoop(t, records)[Len(records)] = StreamLoop(t, records)[Len(records)]
<1> DEFINE m == Len(records)
           v == StreamLoop(t, records)
           Loop(g) == g = [i \in 0..m |-> IF i = 0 THEN Begun ELSE RecordsStep(t, g[i - 1], records[i])]
           f == CHOOSE g : Loop(g)
           w == [i \in 0..m |-> v[i]]
<1>1. m \in Nat /\ v[0] = Begun
  BY StreamLoopRuns
<1>2. \A j \in 1..m : Passes(t, v[j - 1], records[j]) /\ v[j] = Step(v[j - 1], records[j])
  <2>1. m \in 0..m
    BY <1>1
  <2> QED BY <2>1, StreamLoopSaw DEF LoopSaw
<1>3. \A j \in 0..m : v[j] \in Verdicts
  BY StreamLoopSaw DEF LoopSaw
<1>4. m = Len(records) /\ v = StreamLoop(t, records)
  OBVIOUS
<1> HIDE DEF m, v
<1>5. \A j \in 1..m : v[j].ids = v[j - 1].ids \cup {records[j].event.id} /\ records[j].index.id = records[j].event.id
  <2> TAKE j \in 1..m
  <2>1. v[j - 1] \in Verdicts /\ records[j] \in Rows
    BY <1>1, <1>3, <1>4
  <2>2. Step(v[j - 1], records[j]).ids = v[j - 1].ids \cup {records[j].event.id}
    BY <2>1, StepFacts
  <2>3. records[j].index = IndexOf(records[j].event)
    BY <1>2 DEF Passes
  <2> QED BY <1>2, <2>2, <2>3 DEF IndexOf
<1>6. \A k \in 0..m : \A x \in v[k].ids : \E j \in 1..k : records[j].event.id = x
  <2> DEFINE T == {k \in Nat : k \in 0..m => \A x \in v[k].ids : \E j \in 1..k : records[j].event.id = x}
  <2>1. 0 \in T
    BY <1>1, BegunType
  <2>2. ASSUME NEW k \in T PROVE k + 1 \in T
    <3> SUFFICES ASSUME k + 1 \in 0..m, NEW x \in v[k + 1].ids
                 PROVE  \E j \in 1..(k + 1) : records[j].event.id = x
      BY <2>2
    <3>1. k \in Nat /\ k \in 0..m /\ k + 1 \in 1..m /\ (k + 1) - 1 = k
      BY <1>1
    <3>2. v[k + 1].ids = v[k].ids \cup {records[k + 1].event.id}
      BY <1>5, <3>1
    <3>3. CASE x = records[k + 1].event.id
      BY <3>1, <3>3
    <3>4. CASE x \in v[k].ids
      <4>1. PICK j \in 1..k : records[j].event.id = x
        BY <2>2, <3>1, <3>4
      <4>2. j \in 1..(k + 1)
        BY <3>1
      <4> QED BY <4>1, <4>2
    <3> QED BY <3>2, <3>3, <3>4
  <2>3. T = Nat
    <3>1. T \in SUBSET Nat
      OBVIOUS
    <3> HIDE DEF T
    <3> QED BY <2>1, <2>2, <3>1, SetInduction
  <2> TAKE k \in 0..m
  <2>4. k \in T
    BY <2>3
  <2> QED BY <2>4
<1>7. \A i \in 1..m : v[i] = RecordsStep(t, v[i - 1], records[i])
  <2> TAKE i \in 1..m
  <2>1. records[i].event.id \notin v[i - 1].ids
    <3> SUFFICES ASSUME records[i].event.id \in v[i - 1].ids PROVE FALSE
      OBVIOUS
    <3>1. i - 1 \in 0..m
      BY <1>1
    <3>2. PICK j \in 1..(i - 1) : records[j].event.id = records[i].event.id
      BY <1>6, <3>1
    <3>3. j \in 1..m /\ j # i
      BY <1>1, <3>2
    <3> QED BY <1>4, <1>5, <3>2, <3>3
  <2>2. Passes(t, v[i - 1], records[i]) /\ v[i] = Step(v[i - 1], records[i])
    BY <1>2
  <2> QED BY <2>1, <2>2 DEF Passes, RecordsStep
<1>8. Loop(w)
  <2>1. \A i \in 0..m : w[i] = IF i = 0 THEN Begun ELSE RecordsStep(t, w[i - 1], records[i])
    <3> TAKE i \in 0..m
    <3>1. CASE i = 0
      BY <1>1, <3>1
    <3>2. CASE i # 0
      <4>1. i \in 1..m /\ i - 1 \in 0..m
        BY <1>1, <3>2
      <4> QED BY <1>7, <3>2, <4>1
    <3> QED BY <3>1, <3>2
  <2> QED BY <2>1
<1>9. Loop(f)
  <2> HIDE DEF w, Loop
  <2>1. \E g : Loop(g)
    BY <1>8
  <2> QED BY <2>1 DEF f
<1>10. RecordsLoop(t, records) = f
  BY <1>4 DEF RecordsLoop
<1> HIDE DEF f
<1>11. f[0] = Begun /\ \A i \in 1..m : f[i] = RecordsStep(t, f[i - 1], records[i])
  BY <1>1, <1>9
<1>12. \A k \in 0..m : f[k] = v[k]
  <2> DEFINE T == {k \in Nat : k \in 0..m => f[k] = v[k]}
  <2>1. 0 \in T
    BY <1>1, <1>11
  <2>2. ASSUME NEW k \in T PROVE k + 1 \in T
    <3> SUFFICES ASSUME k + 1 \in 0..m PROVE f[k + 1] = v[k + 1]
      BY <2>2
    <3>1. k \in Nat /\ k \in 0..m /\ k + 1 \in 1..m /\ (k + 1) - 1 = k
      BY <1>1
    <3>2. f[k] = v[k]
      BY <2>2, <3>1
    <3> QED BY <1>7, <1>11, <3>1, <3>2
  <2>3. T = Nat
    <3>1. T \in SUBSET Nat
      OBVIOUS
    <3> HIDE DEF T
    <3> QED BY <2>1, <2>2, <3>1, SetInduction
  <2> TAKE k \in 0..m
  <2>4. k \in T
    BY <2>3
  <2> QED BY <2>4
<1>13. m \in 0..m
  BY <1>1
<1> QED BY <1>4, <1>10, <1>12, <1>13

LEMMA KeyedAgree ==
  ASSUME JournalAssumption, Keyed PROVE VerifiersAgree
<1> SUFFICES ASSUME NEW t \in Tasks, VerifyStream(t, 0, None)
             PROVE  VerifyRecords(t, Ordered(t), None)
  BY DEF VerifiersAgree
<1> DEFINE read == ReadThrough(t, 0)
           m == Cardinality(Through(t, 0))
<1>1. Ordered(t) = read
  BY DEF Ordered, ReadThrough
<1>2. Len(read) = m /\ m \in Nat /\ \A i \in 1..m : read[i] \in Rows /\ read[i] \in Through(t, 0)
  BY ReadLists
<1>3. \A j \in 1..m : read[j].seq = j
  BY AcceptedRows
<1>4. Finish(StreamLoop(t, read)[Len(read)], None)
  BY DEF VerifyStream
<1> HIDE DEF read, m
<1>5. \A i, j \in 1..m : read[i].index.id = read[j].index.id => i = j
  <2>1. \A i \in 1..m : read[i] \in rows
    BY <1>2 DEF Through, Stream
  <2> QED BY <1>3, <2>1 DEF Keyed
<1>6. StreamLoop(t, read)[Len(read)].ok
  BY <1>4 DEF Finish
<1>7. RecordsLoop(t, read)[Len(read)] = StreamLoop(t, read)[Len(read)]
  BY <1>2, <1>5, <1>6, LoopsAgree
<1> QED BY <1>1, <1>4, <1>7 DEF VerifyRecords


-----------------------------------------------------------------------------
(* A journal that was only appended to. *)

\* As many rows as numbers.
LEMMA CountFrom ==
  ASSUME NEW B, NEW a \in Nat, NEW b \in Nat, a <= b, IsFiniteSet(B), \A r \in B : r.seq \in (a + 1)..b,
         \A r, s \in B : r.seq = s.seq => r = s, \A j \in (a + 1)..b : \E r \in B : r.seq = j
  PROVE  Cardinality(B) = b - a
<1> DEFINE f == [r \in B |-> r.seq]
           I == (a + 1)..b
<1>1. f \in Bijection(B, I)
  <2>1. f \in Injection(B, I)
    BY DEF Injection, IsInjective
  <2>2. f \in Surjection(B, I)
    BY DEF Surjection
  <2> QED BY <2>1, <2>2 DEF Bijection
<1>2. ExistsBijection(B, I)
  BY <1>1 DEF ExistsBijection
<1>3. Cardinality(I) = Cardinality(B)
  BY <1>2, FS_Bijection
<1>4. Cardinality(I) = b - a
  <2>1. a + 1 \in Int /\ b \in Int
    OBVIOUS
  <2>2. Cardinality(I) = IF a + 1 > b THEN 0 ELSE b - (a + 1) + 1
    BY <2>1, FS_Interval
  <2> QED BY <2>2
<1> QED BY <1>3, <1>4

\* Rows numbered from a + 1 to b are listed in that order.
LEMMA SortedFrom ==
  ASSUME NEW S, Distinct(S), NEW a \in Nat, NEW b \in Nat, a <= b, \A r \in S : r.seq \in (a + 1)..b,
         \A j \in (a + 1)..b : \E r \in S : r.seq = j
  PROVE  /\ Cardinality(S) = b - a /\ Len(Sorted(S)) = b - a /\ DOMAIN Sorted(S) = 1..(b - a)
         /\ \A j \in 1..(b - a) : Sorted(S)[j] \in S /\ Sorted(S)[j].seq = a + j
<1>1. Cardinality(S) = b - a
  BY CountFrom DEF Distinct
<1>2. \A r \in S : Rank(S, r) = r.seq - 1 - a
  <2> TAKE r \in S
  <2> DEFINE c == r.seq - 1
  <2>1. r.seq \in (a + 1)..b /\ c \in Nat /\ a <= c
    BY DEF Distinct
  <2>2. Before(S, r) \in SUBSET S /\ IsFiniteSet(Before(S, r))
    <3>1. Before(S, r) \in SUBSET S
      BY DEF Before
    <3> QED BY <3>1, FS_Subset DEF Distinct
  <2>3. \A s \in Before(S, r) : s.seq \in (a + 1)..c
    BY <2>1 DEF Before
  <2>4. \A j \in (a + 1)..c : \E s \in Before(S, r) : s.seq = j
    <3> TAKE j \in (a + 1)..c
    <3>1. j \in (a + 1)..b /\ j < r.seq
      BY <2>1
    <3>2. PICK s \in S : s.seq = j
      BY <3>1
    <3> QED BY <3>1, <3>2 DEF Before
  <2>5. \A p, q \in Before(S, r) : p.seq = q.seq => p = q
    BY <2>2 DEF Distinct
  <2> HIDE DEF c
  <2>6. Cardinality(Before(S, r)) = c - a
    BY <2>1, <2>2, <2>3, <2>4, <2>5, CountFrom
  <2> QED BY <2>6 DEF Rank, c
<1>3. \A j \in 1..(b - a) : Sorted(S)[j] \in S /\ Rank(S, Sorted(S)[j]) = j - 1
  BY <1>1, SortedLists
<1>4. \A j \in 1..(b - a) : Sorted(S)[j].seq = a + j
  <2> TAKE j \in 1..(b - a)
  <2>1. Sorted(S)[j].seq \in Nat /\ Sorted(S)[j].seq - 1 - a = j - 1
    BY <1>2, <1>3 DEF Distinct
  <2> QED BY <2>1
<1> QED BY <1>1, <1>3, <1>4, SortedLists

\* Rows numbered without a gap are listed by their numbers.
LEMMA GaplessSorted ==
  ASSUME NEW S, Distinct(S), NEW n \in Nat, \A r \in S : r.seq \in 1..n,
         \A j \in 1..n : \E r \in S : r.seq = j
  PROVE  /\ Cardinality(S) = n /\ Len(Sorted(S)) = n /\ DOMAIN Sorted(S) = 1..n
         /\ \A j \in 1..n : Sorted(S)[j] \in S /\ Sorted(S)[j].seq = j
<1> DEFINE a == 0
<1>1. a \in Nat /\ a <= n /\ a + 1 = 1 /\ n - a = n /\ \A j \in 1..n : a + j = j
  OBVIOUS
<1> HIDE DEF a
<1>2. /\ Cardinality(S) = n - a /\ Len(Sorted(S)) = n - a /\ DOMAIN Sorted(S) = 1..(n - a)
      /\ \A j \in 1..(n - a) : Sorted(S)[j] \in S /\ Sorted(S)[j].seq = a + j
  BY <1>1, SortedFrom
<1> QED BY <1>1, <1>2

\* The loop over one record more.
LEMMA LoopExtends ==
  ASSUME NEW t, NEW short, NEW long, NEW m \in Nat, Len(short) = m, Len(long) = m + 1,
         \A j \in 1..m : long[j] = short[j]
  PROVE  StreamLoop(t, long)[m + 1] = StreamStep(t, StreamLoop(t, short)[m], long[m + 1])
<1> DEFINE v == StreamLoop(t, short)
           w == StreamLoop(t, long)
           T == {k \in Nat : k \in 0..m => w[k] = v[k]}
<1>1. v[0] = Begun /\ \A i \in 1..m : v[i] = StreamStep(t, v[i - 1], short[i])
  BY StreamLoopRuns
<1>2. w[0] = Begun /\ \A i \in 1..(m + 1) : w[i] = StreamStep(t, w[i - 1], long[i])
  <2>1. Len(long) \in Nat
    OBVIOUS
  <2> QED BY <2>1, StreamLoopRuns
<1> HIDE DEF v, w
<1>3. 0 \in T
  BY <1>1, <1>2
<1>4. ASSUME NEW k \in T PROVE k + 1 \in T
  <2> SUFFICES ASSUME k + 1 \in 0..m PROVE w[k + 1] = v[k + 1]
    BY <1>4
  <2>1. k \in Nat /\ k \in 0..m /\ k + 1 \in 1..m /\ k + 1 \in 1..(m + 1) /\ (k + 1) - 1 = k
    OBVIOUS
  <2>2. w[k] = v[k]
    BY <1>4, <2>1
  <2> QED BY <1>1, <1>2, <2>1, <2>2
<1>5. T = Nat
  <2>1. T \in SUBSET Nat
    OBVIOUS
  <2> HIDE DEF T
  <2> QED BY <1>3, <1>4, <2>1, SetInduction
<1>6. w[m] = v[m]
  <2>1. m \in T /\ m \in 0..m
    BY <1>5
  <2> QED BY <2>1
<1>7. m + 1 \in 1..(m + 1) /\ (m + 1) - 1 = m
  OBVIOUS
<1> QED BY <1>2, <1>6, <1>7 DEF v, w

\* latest_task_revision_in_tx, for the rows of a stream.
MovesOf(S) == {r \in S : r.index.type \in {"created", "transitioned"}}
LatestRowOf(S) ==
  IF MovesOf(S) = {} THEN {} ELSE {CHOOSE r \in MovesOf(S) : \A s \in MovesOf(S) : s.seq <= r.seq}
LatestOf(S) ==
  IF LatestRowOf(S) = {} THEN NoPoint
  ELSE LET e == (CHOOSE r \in LatestRowOf(S) : TRUE).event
       IN IF e.type = "created" THEN Start ELSE [rev |-> e.from.rev + 1, state |-> e.to]

LEMMA LatestIsOf == ASSUME NEW t PROVE Latest(t) = LatestOf(Stream(t)) /\ Latest(t)' = LatestOf(Stream(t)')
<1>1. Latest(t) = LatestOf(Stream(t))
  BY DEF Latest, LatestOf, LatestRow, LatestRowOf, MovesOf
<1>2. Latest(t)' = LatestOf(Stream(t)')
  BY DEF Latest, LatestOf, LatestRow, LatestRowOf, MovesOf
<1> QED BY <1>1, <1>2

\* It is read from the last row that moves the Task.
LEMMA LatestFromLast ==
  ASSUME NEW S, Distinct(S), NEW r \in MovesOf(S), \A s \in MovesOf(S) : s.seq <= r.seq
  PROVE  LatestOf(S) = IF r.event.type = "created" THEN Start
                       ELSE [rev |-> r.event.from.rev + 1, state |-> r.event.to]
<1> DEFINE c == CHOOSE x \in MovesOf(S) : \A s \in MovesOf(S) : s.seq <= x.seq
<1>1. c \in MovesOf(S) /\ \A s \in MovesOf(S) : s.seq <= c.seq
  OBVIOUS
<1>2. \A s \in MovesOf(S) : s \in S /\ s.seq \in Nat
  BY DEF MovesOf, Distinct
<1> HIDE DEF c
<1>3. c.seq = r.seq
  BY <1>1, <1>2
<1>4. c = r
  BY <1>1, <1>2, <1>3 DEF Distinct
<1>5. LatestRowOf(S) = {r}
  BY <1>4 DEF LatestRowOf, c
<1>6. (CHOOSE x \in LatestRowOf(S) : TRUE) = r
  BY <1>5
<1> QED BY <1>5, <1>6 DEF LatestOf

-----------------------------------------------------------------------------
(* Streams that verify_stream accepts up to their last row. *)

\* The loop ends well, at the revision latest_task_revision_in_tx finds.
SoundRows(t, S) ==
  LET v == StreamLoop(t, Sorted(S))[Len(Sorted(S))] IN v.ok /\ v.at = LatestOf(S)

\* The rows of one stream.
RowsOf(t, S) == Distinct(S) /\ S \subseteq Rows /\ \A r \in S : r.stream = t

\* What a stream is that the loop ended well with.
LEMMA SoundFacts ==
  ASSUME JournalAssumption, NEW t \in Tasks, NEW S, RowsOf(t, S), SoundRows(t, S)
  PROVE  LET m == Cardinality(S)
             v == StreamLoop(t, Sorted(S))[m]
         IN /\ m \in Nat /\ Len(Sorted(S)) = m
            /\ \A j \in 1..m : Sorted(S)[j] \in S /\ Sorted(S)[j].seq = j
            /\ \A r \in S : r.seq \in 1..m /\ Sorted(S)[r.seq] = r
            /\ \A r \in S : r.index = IndexOf(r.event) /\ r.event.task = t /\ ValidAt(r.seq, r.event)
            /\ v \in Verdicts /\ v.ok /\ v.next = m + 1 /\ v.at = LatestOf(S)
            /\ v.prev = IF m = 0 THEN <<>> ELSE Sorted(S)[m].hash
            /\ IF m = 0 THEN v.at = NoPoint ELSE v.at # NoPoint /\ v.prev # <<>>
<1> DEFINE q == Sorted(S)
           m == Cardinality(S)
           v == StreamLoop(t, q)
<1>1. /\ m \in Nat /\ Len(q) = m
      /\ \A i \in 1..m : q[i] \in S
      /\ \A r \in S : \E i \in 1..m : q[i] = r
  BY SortedLists DEF RowsOf
<1>2. v[m].ok /\ v[m].at = LatestOf(S)
  BY <1>1 DEF SoundRows
<1> HIDE DEF q, m
<1>3. Len(q) \in Nat /\ \A i \in 1..Len(q) : q[i] \in Rows
  BY <1>1 DEF RowsOf
<1>4. \A k \in 0..Len(q) :
        /\ v[k] \in Verdicts
        /\ v[k].ok => /\ v[k].next = k + 1
                      /\ v[k].prev = Chain(t, q, k)
                      /\ \A j \in 1..k : /\ Passes(t, v[j - 1], q[j])
                                         /\ v[j] = Step(v[j - 1], q[j])
                                         /\ q[j].seq = j
  <2>1. Len(q) \in Nat /\ \A i \in 1..Len(q) : q[i] \in Rows
    BY <1>3
  <2>2. LoopSaw(t, q)
    BY <2>1, StreamLoopSaw
  <2> QED BY <2>2 DEF LoopSaw
<1>5. v[0] = Begun
  BY <1>3, StreamLoopRuns
<1> HIDE DEF v
<1>6. m \in 0..Len(q)
  BY <1>1
<1>7. /\ v[m] \in Verdicts /\ v[m].next = m + 1 /\ v[m].prev = Chain(t, q, m)
      /\ \A j \in 1..m : Passes(t, v[j - 1], q[j]) /\ v[j] = Step(v[j - 1], q[j]) /\ q[j].seq = j
  BY <1>2, <1>4, <1>6
<1>8. \A r \in S : r.seq \in 1..m /\ q[r.seq] = r
  BY <1>1, <1>7
<1>9. \A r \in S : r.index = IndexOf(r.event) /\ r.event.task = t /\ ValidAt(r.seq, r.event)
  <2> TAKE r \in S
  <2>1. PICK i \in 1..m : q[i] = r
    BY <1>1
  <2>2. Passes(t, v[i - 1], r)
    BY <1>7, <2>1
  <2> QED BY <2>2 DEF Passes, VerifyOne
<1>10. CASE m = 0
  <2>1. v[m].prev = <<>> /\ v[m].at = NoPoint
    BY <1>5, <1>10, BegunType
  <2> QED BY <1>1, <1>2, <1>7, <1>8, <1>9, <1>10, <2>1 DEF m, q, v
<1>11. CASE m # 0
  <2>1. m \in 1..m /\ m - 1 \in 0..Len(q)
    BY <1>1, <1>11
  <2>2. /\ Passes(t, v[m - 1], q[m]) /\ v[m] = Step(v[m - 1], q[m])
        /\ v[m - 1] \in Verdicts /\ q[m] \in Rows
    BY <1>1, <1>3, <1>4, <1>7, <2>1
  <2>3. Step(v[m - 1], q[m]).prev = q[m].hash /\ Step(v[m - 1], q[m]).at = Advance(v[m - 1].at, q[m].event)
    BY <2>2, StepFacts
  <2>4. v[m].prev = q[m].hash /\ v[m].at # NoPoint
    BY <2>2, <2>3 DEF Passes
  <2>5. v[m].prev # <<>>
    <3>1. Chain(t, q, m) # <<>>
      <4>1. DOMAIN Chain(t, q, m) = 1..m
        BY DEF Chain
      <4>2. 1 \in DOMAIN Chain(t, q, m)
        BY <1>1, <1>11, <4>1
      <4> QED BY <4>2
    <3> QED BY <1>7, <3>1
  <2> QED BY <1>1, <1>2, <1>7, <1>8, <1>9, <1>11, <2>4, <2>5 DEF m, q, v
<1> QED BY <1>10, <1>11

\* A row that continues the stream: the number and the hash that come next, an
\* event that may stand there, and a transition from where the stream has got to.
Continues(t, S, r) ==
  /\ r \in Rows /\ r.stream = t /\ r.seq = Cardinality(S) + 1
  /\ r.prev = StreamLoop(t, Sorted(S))[Cardinality(S)].prev
  /\ r.hash = HashRecord(t, r.seq, r.prev, r.event) /\ r.index = IndexOf(r.event)
  /\ r.event.task = t /\ ValidAt(r.seq, r.event)
  /\ r.event.type = "transitioned" => Advance(LatestOf(S), r.event) # NoPoint

\* The rows read with it are those from before, and then the new one.
ExtendedBy(t, S, U, r) ==
  /\ RowsOf(t, U) /\ Cardinality(S) \in Nat
  /\ Cardinality(U) = Cardinality(S) + 1
  /\ Len(Sorted(S)) = Cardinality(S) /\ Len(Sorted(U)) = Cardinality(S) + 1
  /\ DOMAIN Sorted(U) = 1..(Cardinality(S) + 1)
  /\ \A j \in 1..Cardinality(S) : Sorted(U)[j] = Sorted(S)[j]
  /\ Sorted(U)[Cardinality(S) + 1] = r

LEMMA SortedContinues ==
  ASSUME JournalAssumption, NEW t \in Tasks, NEW S, RowsOf(t, S), SoundRows(t, S), NEW r, Continues(t, S, r)
  PROVE  ExtendedBy(t, S, S \cup {r}, r)
<1> DEFINE m == Cardinality(S)
           q == Sorted(S)
           U == S \cup {r}
           p == Sorted(U)
<1>1. /\ m \in Nat /\ Len(q) = m
      /\ \A j \in 1..m : q[j] \in S /\ q[j].seq = j
      /\ \A s \in S : s.seq \in 1..m /\ q[s.seq] = s
  BY SoundFacts
<1>2. r \in Rows /\ r.seq = m + 1 /\ r.stream = t
  BY DEF Continues
<1> HIDE DEF m, q
<1>3. \A s \in S : s.seq # r.seq
  BY <1>1, <1>2
<1>4. Distinct(U)
  <2>1. IsFiniteSet(U)
    BY FS_AddElement DEF RowsOf, Distinct
  <2>2. \A s \in U : s.seq \in Nat \ {0}
    BY <1>1, <1>2
  <2>3. \A a, b \in U : a.seq = b.seq => a = b
    BY <1>3 DEF RowsOf, Distinct
  <2> QED BY <2>1, <2>2, <2>3 DEF Distinct
<1>5. RowsOf(t, U)
  BY <1>2, <1>4 DEF RowsOf
<1>6. \A s \in U : s.seq \in 1..(m + 1)
  BY <1>1, <1>2
<1>7. \A j \in 1..(m + 1) : \E s \in U : s.seq = j
  <2> TAKE j \in 1..(m + 1)
  <2>1. CASE j = m + 1
    BY <1>2, <2>1
  <2>2. CASE j # m + 1
    <3>1. j \in 1..m
      BY <1>1, <2>2
    <3> QED BY <1>1, <3>1
  <2> QED BY <2>1, <2>2
<1>8. m + 1 \in Nat
  BY <1>1
<1> HIDE DEF U
<1>9. /\ Cardinality(U) = m + 1 /\ Len(p) = m + 1 /\ DOMAIN p = 1..(m + 1)
      /\ \A j \in 1..(m + 1) : p[j] \in U /\ p[j].seq = j
  BY <1>4, <1>6, <1>7, <1>8, GaplessSorted
<1> HIDE DEF p
<1>10. \A j \in 1..m : p[j] = q[j]
  <2> TAKE j \in 1..m
  <2>1. j \in 1..(m + 1) /\ j # m + 1
    BY <1>1
  <2>2. p[j] \in U /\ p[j].seq = j
    BY <1>9, <2>1
  <2>3. p[j] \in S
    BY <1>2, <2>1, <2>2 DEF U
  <2> QED BY <1>1, <2>2, <2>3
<1>11. p[m + 1] = r
  <2>1. m + 1 \in 1..(m + 1)
    BY <1>1
  <2>2. p[m + 1] \in U /\ p[m + 1].seq = m + 1
    BY <1>9, <2>1
  <2>3. p[m + 1] \notin S
    BY <1>2, <1>3, <2>2
  <2> QED BY <2>2, <2>3 DEF U
<1> QED BY <1>1, <1>5, <1>9, <1>10, <1>11 DEF ExtendedBy, m, q, p, U

LEMMA PointsDiffer == Start # NoPoint
<1>1. Start.rev = 1 /\ NoPoint.rev = 0
  BY DEF Start, NoPoint
<1> QED BY <1>1

\* The stream with it is one the loop ends well with.
LEMMA SoundContinues ==
  ASSUME JournalAssumption, NEW t \in Tasks, NEW S, RowsOf(t, S), SoundRows(t, S), NEW r, Continues(t, S, r)
  PROVE  SoundRows(t, S \cup {r})
<1> DEFINE m == Cardinality(S)
           U == S \cup {r}
           v == StreamLoop(t, Sorted(S))[m]
           e == r.event
<1>1. /\ RowsOf(t, U) /\ m \in Nat /\ Len(Sorted(S)) = m /\ Len(Sorted(U)) = m + 1
      /\ \A j \in 1..m : Sorted(U)[j] = Sorted(S)[j]
      /\ Sorted(U)[m + 1] = r
  <2>1. ExtendedBy(t, S, U, r)
    BY SortedContinues
  <2> HIDE DEF U
  <2> QED BY ONLY <2>1 DEF ExtendedBy
<1>2. /\ v \in Verdicts /\ v.ok /\ v.next = m + 1 /\ v.at = LatestOf(S)
      /\ (IF m = 0 THEN v.at = NoPoint ELSE v.at # NoPoint)
      /\ \A s \in S : s.seq \in 1..m
  BY SoundFacts
<1>3. /\ r \in Rows /\ r.stream = t /\ r.seq = m + 1 /\ r.prev = v.prev
      /\ r.hash = HashRecord(t, r.seq, r.prev, e) /\ r.index = IndexOf(e)
      /\ e.task = t /\ ValidAt(r.seq, e) /\ e \in Events
      /\ (e.type = "transitioned" => Advance(v.at, e) # NoPoint)
  BY <1>2 DEF Continues, Rows
<1>4. StreamLoop(t, Sorted(U))[m + 1] = StreamStep(t, v, r)
  <2> DEFINE short == Sorted(S)
             long == Sorted(U)
  <2>1. m \in Nat /\ Len(short) = m /\ Len(long) = m + 1 /\ (\A j \in 1..m : long[j] = short[j]) /\ long[m + 1] = r
    BY <1>1
  <2> HIDE DEF m, short, long
  <2>2. StreamLoop(t, long)[m + 1] = StreamStep(t, StreamLoop(t, short)[m], long[m + 1])
    BY ONLY <2>1, LoopExtends
  <2> QED BY <2>1, <2>2 DEF short, long
<1> HIDE DEF m, U, v, e
<1>5. e.type \in {"created", "transitioned", "noted"} /\ ((m = 0) = (e.type = "created"))
  BY <1>1, <1>3, EventFields DEF ValidAt
<1>6. Advance(v.at, e) # NoPoint
  <2>1. CASE e.type = "created"
    BY <1>2, <1>5, <2>1, PointsDiffer DEF Advance
  <2>2. CASE e.type = "transitioned"
    BY <1>3, <2>2
  <2>3. CASE e.type = "noted"
    BY <1>2, <1>5, <2>3 DEF Advance
  <2> QED BY <1>5, <2>1, <2>2, <2>3
<1>7. Passes(t, v, r)
  BY <1>2, <1>3, <1>6 DEF Passes, VerifyOne, ValidEvent, e
<1>8. StreamStep(t, v, r).ok /\ StreamStep(t, v, r).at = Advance(v.at, e)
  <2>1. /\ (StreamStep(t, v, r).ok <=> Passes(t, v, r))
        /\ (Passes(t, v, r) => StreamStep(t, v, r) = Step(v, r))
        /\ Step(v, r).at = Advance(v.at, r.event)
    BY <1>2, <1>3, StepFacts
  <2> QED BY <1>7, <2>1 DEF e
<1>9. r.index.type = e.type /\ Distinct(U)
  BY <1>1, <1>3 DEF IndexOf, RowsOf
<1>10. Advance(v.at, e) = LatestOf(U)
  <2>1. CASE e.type = "noted"
    <3>1. MovesOf(U) = MovesOf(S)
      BY <1>9, <2>1 DEF MovesOf, U
    <3>2. LatestOf(U) = LatestOf(S)
      BY <3>1 DEF LatestOf, LatestRowOf
    <3> QED BY <1>2, <2>1, <3>2 DEF Advance
  <2>2. CASE e.type # "noted"
    <3>1. r \in MovesOf(U)
      BY <1>5, <1>9, <2>2 DEF MovesOf, U
    <3>2. \A s \in U : s.seq <= r.seq
      BY <1>1, <1>2, <1>3 DEF U
    <3>3. \A s \in MovesOf(U) : s.seq <= r.seq
      BY <3>2 DEF MovesOf
    <3>4. LatestOf(U) = IF e.type = "created" THEN Start ELSE [rev |-> e.from.rev + 1, state |-> e.to]
      BY <1>9, <3>1, <3>3, LatestFromLast DEF e
    <3>5. CASE e.type = "created"
      BY <1>2, <1>5, <3>4, <3>5 DEF Advance
    <3>6. CASE e.type = "transitioned"
      <4>1. e.from = v.at /\ Advance(v.at, e) = [rev |-> v.at.rev + 1, state |-> e.to]
        BY <1>6, <3>6 DEF Advance
      <4> QED BY <3>4, <3>6, <4>1
    <3> QED BY <1>5, <2>2, <3>5, <3>6
  <2> QED BY <2>1, <2>2
<1> QED BY <1>1, <1>4, <1>8, <1>10 DEF SoundRows, U

-----------------------------------------------------------------------------
(* The journal while nothing was damaged. *)

\* Every stream is one that verify_stream accepts up to its last row.
Sound == damage = 0 => \A t \in Tasks : SoundRows(t, Stream(t))

LEMMA StreamRows == ASSUME Keyed, NEW t PROVE RowsOf(t, Stream(t))
<1>1. Distinct(Stream(t))
  BY StreamDistinct
<1> QED BY <1>1 DEF RowsOf, Stream, Keyed

\* get_head finds what the loop ended with.
LEMMA SoundHead ==
  ASSUME JournalAssumption, Keyed, NEW t \in Tasks, SoundRows(t, Stream(t))
  PROVE  /\ NextSequence(t) = Cardinality(Stream(t)) + 1
         /\ HeadHash(t) = StreamLoop(t, Ordered(t))[Cardinality(Stream(t))].prev
<1> DEFINE S == Stream(t)
           m == Cardinality(S)
           q == Sorted(S)
           h == StreamLoop(t, q)[m].prev
<1>1. RowsOf(t, S)
  BY StreamRows
<1>2. /\ m \in Nat /\ (\A j \in 1..m : q[j] \in S /\ q[j].seq = j)
      /\ (\A r \in S : r.seq \in 1..m /\ q[r.seq] = r)
      /\ h = IF m = 0 THEN <<>> ELSE q[m].hash
  BY <1>1, SoundFacts
<1>3. Ordered(t) = q
  BY DEF Ordered
<1>4. (m = 0) <=> (S = {})
  <2>1. IsFiniteSet(S)
    BY <1>1 DEF RowsOf, Distinct
  <2> QED BY <2>1, FS_EmptySet
<1>5. CASE S = {}
  BY <1>2, <1>3, <1>4, <1>5 DEF NextSequence, HeadHash, None
<1>6. CASE S # {}
  <2>1. Head_(t) \in S /\ \A r \in S : r.seq <= Head_(t).seq
    BY <1>6, HeadIsLast
  <2> HIDE DEF S, m, q, h
  <2>2. m \in 1..m
    BY <1>2, <1>4, <1>6
  <2>3. Head_(t).seq \in 1..m /\ q[Head_(t).seq] = Head_(t) /\ q[m] \in S /\ q[m].seq = m
    BY <1>2, <2>1, <2>2
  <2>4. Head_(t).seq = m
    BY <1>2, <2>1, <2>3
  <2>5. Head_(t) = q[m]
    BY <2>3, <2>4
  <2>6. h = q[m].hash
    BY <1>2, <1>4, <1>6
  <2>7. NextSequence(t) = m + 1 /\ HeadHash(t) = h
    BY <1>6, <2>4, <2>5, <2>6 DEF NextSequence, HeadHash, S
  <2> QED BY <1>3, <2>7 DEF S, m, h
<1> QED BY <1>5, <1>6

\* append_in_tx adds a row that continues its stream, and leaves the others.
LEMMA AppendContinues ==
  ASSUME JournalAssumption, Keyed, NEW t \in Tasks, SoundRows(t, Stream(t)),
         NEW e \in Events, NEW x, AppendInTx(t, e, x)
  PROVE  /\ Continues(t, Stream(t), NewRow(t, e))
         /\ Stream(t)' = Stream(t) \cup {NewRow(t, e)}
         /\ \A u \in Tasks : u # t => Stream(u)' = Stream(u)
<1> DEFINE r == NewRow(t, e)
<1>1. rows' = rows \cup {r} /\ r \in Rows
  BY AppendFacts
<1>2. /\ r.stream = t /\ r.seq = NextSequence(t) /\ r.prev = HeadHash(t) /\ r.event = e
      /\ r.hash = HashRecord(t, NextSequence(t), HeadHash(t), e) /\ r.index = IndexOf(e)
  BY DEF NewRow
<1> HIDE DEF r
<1>3. Stream(t)' = Stream(t) \cup {r} /\ \A u \in Tasks : u # t => Stream(u)' = Stream(u)
  BY <1>1, <1>2 DEF Stream
<1>4. /\ e.task = t /\ ValidAt(NextSequence(t), e)
      /\ (e.type = "transitioned" => Advance(Latest(t), e) # NoPoint)
  BY DEF AppendInTx, Appendable, ValidEvent
<1>5. Latest(t) = LatestOf(Stream(t))
  BY LatestIsOf
<1>6. /\ NextSequence(t) = Cardinality(Stream(t)) + 1
      /\ HeadHash(t) = StreamLoop(t, Sorted(Stream(t)))[Cardinality(Stream(t))].prev
  BY SoundHead DEF Ordered
<1>7. Continues(t, Stream(t), r)
  BY <1>1, <1>2, <1>4, <1>5, <1>6 DEF Continues
<1> QED BY <1>3, <1>7 DEF r

LEMMA SoundStep ==
  ASSUME JournalAssumption, Keyed, Sound, [Next]_vars PROVE Sound'
<1> SUFFICES ASSUME damage' = 0, NEW t \in Tasks PROVE SoundRows(t, Stream(t)')
  BY DEF Sound
<1>1. CASE \E u \in Tasks, e \in Events, x \in {"any", "empty", "exact"} : AppendInTx(u, e, x)
  <2>1. PICK u \in Tasks, e \in Events, x \in {"any", "empty", "exact"} : AppendInTx(u, e, x)
    BY <1>1
  <2>2. damage = 0
    BY <2>1 DEF AppendInTx
  <2>3. SoundRows(u, Stream(u)) /\ SoundRows(t, Stream(t)) /\ RowsOf(u, Stream(u))
    BY <2>2, StreamRows DEF Sound
  <2>4. /\ Continues(u, Stream(u), NewRow(u, e)) /\ Stream(u)' = Stream(u) \cup {NewRow(u, e)}
        /\ \A w \in Tasks : w # u => Stream(w)' = Stream(w)
    BY <2>1, <2>3, AppendContinues
  <2>5. CASE t = u
    <3>1. SoundRows(u, Stream(u) \cup {NewRow(u, e)})
      BY <2>3, <2>4, SoundContinues
    <3> QED BY <2>4, <2>5, <3>1
  <2>6. CASE t # u
    <3>1. Stream(t)' = Stream(t)
      BY <2>4, <2>6
    <3> QED BY <2>3, <3>1
  <2> QED BY <2>5, <2>6
<1>2. CASE UNCHANGED <<rows, damage>>
  <2>1. damage = 0 /\ Stream(t)' = Stream(t)
    BY <1>2 DEF Stream
  <2>2. SoundRows(t, Stream(t))
    BY <2>1 DEF Sound
  <2> QED BY <2>1, <2>2
<1>3. CASE Outside
  <2>1. damage' = damage + 1 /\ damage \in Nat
    BY <1>3 DEF Outside, ChangeEvent, ChangeIndex, LoseRow, LoseTail, Hurt, Keyed
  <2> QED BY <2>1
<1>4. CASE \E u \in Tasks : TakeCheckpoint(u) \/ ExportJsonl(u)
  BY <1>2, <1>4 DEF TakeCheckpoint, ExportJsonl
<1> QED BY <1>1, <1>2, <1>3, <1>4 DEF Next, vars, Outside

LEMMA SoundVerifies ==
  ASSUME JournalAssumption, Keyed, Sound PROVE AppendedVerifies
<1> SUFFICES ASSUME damage = 0, NEW t \in Tasks, Stream(t) # {} PROVE VerifyProvenance(t)
  BY DEF AppendedVerifies
<1>1. ASSUME NEW u \in Tasks PROVE SoundRows(u, Stream(u)) /\ RowsOf(u, Stream(u))
  BY StreamRows DEF Sound
<1>2. ASSUME NEW r \in rows, r.index.task = t PROVE r.stream = t
  <2> DEFINE u == r.stream
  <2>1. u \in Tasks /\ r \in Stream(u)
    BY DEF Keyed, Rows, Stream
  <2>2. r.index = IndexOf(r.event) /\ r.event.task = u
    BY <1>1, <2>1, SoundFacts
  <2> QED BY <1>2, <2>2 DEF IndexOf
<1>3. VerifyStream(t, 0, None)
  <2> DEFINE S == Stream(t)
             m == Cardinality(S)
             v == StreamLoop(t, Sorted(S))[m]
  <2>1. /\ m \in Nat /\ Len(Sorted(S)) = m /\ v.ok
        /\ (IF m = 0 THEN v.at = NoPoint ELSE v.at # NoPoint /\ v.prev # <<>>)
    BY <1>1, SoundFacts
  <2>2. m # 0
    <3>1. IsFiniteSet(S)
      BY <1>1 DEF RowsOf, Distinct
    <3> QED BY <3>1, FS_EmptySet
  <2>3. ReadThrough(t, 0) = Sorted(S)
    BY DEF ReadThrough
  <2> QED BY <2>1, <2>2, <2>3 DEF VerifyStream, Finish, None
<1> QED BY <1>2, <1>3 DEF VerifyProvenance

-----------------------------------------------------------------------------
(* The journal implements the abstract log. *)

EventsOf(S) == [i \in DOMAIN Sorted(S) |-> Sorted(S)[i].event]

LEMMA LogIsEvents ==
  LogOf = [t \in Tasks |-> EventsOf(Stream(t))] /\ LogOf' = [t \in Tasks |-> EventsOf(Stream(t)')]
<1>1. LogOf = [t \in Tasks |-> EventsOf(Stream(t))]
  BY DEF LogOf, Ordered, EventsOf
<1>2. LogOf' = [t \in Tasks |-> EventsOf(Stream(t)')]
  BY DEF LogOf, Ordered, EventsOf
<1> QED BY <1>1, <1>2

\* The log of a stream with one more row.
LEMMA EventsAppend ==
  ASSUME JournalAssumption, NEW t \in Tasks, NEW S, RowsOf(t, S), SoundRows(t, S), NEW r, Continues(t, S, r)
  PROVE  EventsOf(S \cup {r}) = Append(EventsOf(S), r.event)
<1> DEFINE U == S \cup {r}
           m == Cardinality(S)
           q == Sorted(S)
           p == Sorted(U)
           f == EventsOf(S)
           g == EventsOf(U)
<1>1. ExtendedBy(t, S, U, r)
  BY SortedContinues
<1>2. /\ m \in Nat /\ Len(p) = m + 1 /\ DOMAIN p = 1..(m + 1)
      /\ \A j \in 1..m : p[j] = q[j]
      /\ p[m + 1] = r
  <2> HIDE DEF U
  <2> QED BY ONLY <1>1 DEF ExtendedBy
<1>3. DOMAIN q = 1..m /\ \A j \in 1..m : q[j] \in Rows
  BY SortedLists DEF RowsOf
<1>4. f = [j \in 1..m |-> q[j].event] /\ g = [j \in 1..(m + 1) |-> p[j].event]
  BY <1>2, <1>3 DEF EventsOf
<1> HIDE DEF U, m, q, p, f, g
<1>5. f \in [1..m -> Events]
  BY <1>3, <1>4 DEF Rows
<1>6. f \in Seq(Events) /\ Len(f) = m
  BY <1>2, <1>5, FcnIsSeq
<1>7. r.event \in Events
  BY DEF Continues, Rows
<1>8. g = Append(f, r.event)
  <2>1. /\ Append(f, r.event) \in Seq(Events) /\ Len(Append(f, r.event)) = m + 1
        /\ (\A j \in 1..m : Append(f, r.event)[j] = f[j]) /\ Append(f, r.event)[m + 1] = r.event
    BY <1>2, <1>6, <1>7, AppendProperties
  <2>2. \A j \in 1..m : g[j] = f[j]
    BY <1>2, <1>4
  <2>3. g[m + 1] = r.event
    BY <1>2, <1>4
  <2>4. \A j \in 1..(m + 1) : g[j] = Append(f, r.event)[j]
    <3> TAKE j \in 1..(m + 1)
    <3>1. j = m + 1 \/ j \in 1..m
      BY <1>2
    <3> QED BY <2>1, <2>2, <2>3, <3>1
  <2>5. DOMAIN Append(f, r.event) = 1..(m + 1)
    BY <2>1
  <2>6. Append(f, r.event) = [j \in 1..(m + 1) |-> Append(f, r.event)[j]]
    BY <2>1, <2>5
  <2> QED BY <1>4, <2>4, <2>6
<1> QED BY <1>8 DEF f, g, U

\* Where the abstract log has got to is the latest revision of the rows.
LEMMA ReachedIsLatest ==
  ASSUME JournalAssumption, NEW t \in Tasks, NEW S, RowsOf(t, S), SoundRows(t, S), S # {}
  PROVE  Log!Reached(EventsOf(S)) = LatestOf(S)
<1> DEFINE m == Cardinality(S)
           q == Sorted(S)
           f == EventsOf(S)
           moves == {i \in DOMAIN f : f[i].type = "transitioned"}
           M == {r \in S : r.index.type = "transitioned"}
<1>1. /\ m \in Nat /\ (\A j \in 1..m : q[j] \in S /\ q[j].seq = j)
      /\ (\A r \in S : r.seq \in 1..m /\ q[r.seq] = r)
      /\ (\A r \in S : r.index = IndexOf(r.event) /\ ValidAt(r.seq, r.event))
  BY SoundFacts
<1>2. DOMAIN q = 1..m /\ Distinct(S)
  BY SortedLists DEF RowsOf
<1>3. f = [j \in 1..m |-> q[j].event]
  BY <1>2 DEF EventsOf
<1> HIDE DEF m, q, f
<1>4. /\ \A r \in S : r.index.type = r.event.type /\ (r.event.type = "created" <=> r.seq = 1)
      /\ \A r \in S : r.seq \in 1..m /\ f[r.seq] = r.event
      /\ \A r \in S : r.event.type \in {"created", "transitioned", "noted"}
  <2>1. \A r \in S : r.index.type = r.event.type /\ (r.event.type = "created" <=> r.seq = 1)
    <3> TAKE r \in S
    <3>1. r.index = IndexOf(r.event) /\ ValidAt(r.seq, r.event)
      BY <1>1
    <3>2. r.index.type = r.event.type
      BY <3>1 DEF IndexOf
    <3>3. r.event.type = "created" <=> r.seq = 1
      BY <3>1 DEF ValidAt
    <3> QED BY <3>2, <3>3
  <2>2. \A r \in S : r.seq \in 1..m /\ f[r.seq] = r.event
    BY <1>1, <1>3
  <2>3. \A r \in S : r.event \in Events
    BY DEF RowsOf, Rows
  <2> QED BY <2>1, <2>2, <2>3, EventFields
<1>5. moves = {r.seq : r \in M}
  <2>1. \A i \in moves : i \in 1..m /\ q[i] \in M /\ q[i].seq = i
    BY <1>1, <1>3, <1>4
  <2>2. \A r \in M : r.seq \in moves
    BY <1>3, <1>4
  <2> QED BY <2>1, <2>2
<1>6. Log!Reached(f) = IF moves = {} THEN Start
                       ELSE LET last == CHOOSE i \in moves : \A j \in moves : j <= i
                            IN [rev |-> f[last].from.rev + 1, state |-> f[last].to]
  BY DEF Log!Reached, Log!Start, Start
<1> HIDE DEF moves
<1>7. CASE M = {}
  <2>1. PICK r \in S : r.seq = 1
    <3>1. 1 \in 1..m
      BY <1>1
    <3> QED BY <1>1, <3>1
  <2>2. r \in MovesOf(S) /\ r.event.type = "created"
    BY <1>4, <2>1 DEF MovesOf
  <2>3. \A s \in MovesOf(S) : s.seq <= r.seq
    BY <1>4, <1>7, <2>1 DEF MovesOf
  <2>4. LatestOf(S) = Start
    BY <1>2, <2>2, <2>3, LatestFromLast
  <2>5. moves = {}
    BY <1>5, <1>7
  <2> QED BY <1>6, <2>4, <2>5 DEF f
<1>8. CASE M # {}
  <2>1. Distinct(M)
    <3>1. IsFiniteSet(M)
      BY <1>2, FS_Subset DEF Distinct
    <3> QED BY <1>2, <3>1 DEF Distinct
  <2>2. PICK r \in M : \A s \in M : s.seq <= r.seq
    BY <1>8, <2>1, LastRow
  <2>3. r \in MovesOf(S) /\ r.event.type = "transitioned" /\ r.seq \in 1..m /\ f[r.seq] = r.event
    BY <1>4, <2>2 DEF MovesOf
  <2>4. \A s \in MovesOf(S) : s.seq <= r.seq
    <3> TAKE s \in MovesOf(S)
    <3>1. s \in S /\ (s \in M \/ s.seq = 1)
      BY <1>4 DEF MovesOf
    <3> QED BY <1>1, <2>2, <2>3, <3>1
  <2>5. LatestOf(S) = [rev |-> r.event.from.rev + 1, state |-> r.event.to]
    <3>1. LatestOf(S) = IF r.event.type = "created" THEN Start
                        ELSE [rev |-> r.event.from.rev + 1, state |-> r.event.to]
      BY <1>2, <2>3, <2>4, LatestFromLast
    <3> QED BY <2>3, <3>1
  <2> DEFINE last == CHOOSE i \in moves : \A j \in moves : j <= i
  <2>6. r.seq \in moves /\ \A j \in moves : j <= r.seq
    BY <1>5, <2>2
  <2>7. last \in moves /\ \A j \in moves : j <= last
    BY <2>6
  <2>8. \A i \in moves : i \in Nat
    BY <1>1, <1>5
  <2>9. Log!Reached(f) = [rev |-> f[last].from.rev + 1, state |-> f[last].to]
    BY <1>6, <2>6
  <2> HIDE DEF last
  <2>10. last = r.seq
    BY <2>6, <2>7, <2>8
  <2> QED BY <2>3, <2>5, <2>9, <2>10 DEF f
<1> QED BY <1>7, <1>8

\* An append is an addition to the abstract log.
LEMMA AppendAdds ==
  ASSUME JournalAssumption, Keyed, Sound, damage = 0, NEW t \in Tasks, NEW e \in Events,
         NEW x, AppendInTx(t, e, x)
  PROVE  Log!Add(t, e)
<1> DEFINE S == Stream(t)
           r == NewRow(t, e)
<1>1. ASSUME NEW u \in Tasks PROVE SoundRows(u, Stream(u)) /\ RowsOf(u, Stream(u))
  BY StreamRows DEF Sound
<1>2. /\ Continues(t, S, r) /\ Stream(t)' = S \cup {r}
      /\ \A u \in Tasks : u # t => Stream(u)' = Stream(u)
  BY <1>1, AppendContinues
<1>3. r.event = e
  BY DEF NewRow
<1>4. RowsOf(t, S) /\ SoundRows(t, S)
  BY <1>1
<1> HIDE DEF r
<1>5. EventsOf(S \cup {r}) = Append(EventsOf(S), e)
  BY <1>2, <1>3, <1>4, EventsAppend
<1>6. LogOf[t] = EventsOf(S) /\ \A u \in Tasks : LogOf[u] = EventsOf(Stream(u))
  BY LogIsEvents
<1>7. LogOf' = [LogOf EXCEPT ![t] = Append(@, e)]
  <2>1. LogOf' = [u \in Tasks |-> EventsOf(Stream(u)')] /\ LogOf = [u \in Tasks |-> EventsOf(Stream(u))]
    BY LogIsEvents
  <2>2. \A u \in Tasks : EventsOf(Stream(u)') = IF u = t THEN Append(EventsOf(S), e) ELSE EventsOf(Stream(u))
    BY <1>2, <1>5
  <2>3. LogOf' = [u \in Tasks |-> IF u = t THEN Append(EventsOf(S), e) ELSE EventsOf(Stream(u))]
    BY <2>1, <2>2
  <2> QED BY <1>6, <2>1, <2>3
<1>8. /\ e.task = t /\ ValidAt(NextSequence(t), e)
      /\ (e.type = "transitioned" => Advance(Latest(t), e) # NoPoint)
      /\ \A s \in rows : s.index.id # e.id
  BY DEF AppendInTx, Appendable, ValidEvent
<1>9. (LogOf[t] = <<>>) <=> (Cardinality(S) = 0)
  <2>1. DOMAIN EventsOf(S) = 1..Cardinality(S) /\ Cardinality(S) \in Nat
    BY <1>4, SortedLists DEF EventsOf, RowsOf
  <2>2. CASE Cardinality(S) = 0
    <3>1. DOMAIN EventsOf(S) = {} /\ EventsOf(S) = [i \in {} |-> EventsOf(S)[i]]
      BY <2>1, <2>2 DEF EventsOf
    <3> QED BY <1>6, <2>2, <3>1
  <2>3. CASE Cardinality(S) # 0
    <3>1. 1 \in DOMAIN EventsOf(S)
      BY <2>1, <2>3
    <3> QED BY <1>6, <2>3, <3>1
  <2> QED BY <2>2, <2>3
<1>10. NextSequence(t) = Cardinality(S) + 1 /\ Cardinality(S) \in Nat
  <2>1. NextSequence(t) = Cardinality(S) + 1
    BY <1>1, SoundHead
  <2>2. Cardinality(S) \in Nat
    BY <1>4, FS_CardinalityType DEF RowsOf, Distinct
  <2> QED BY <2>1, <2>2
<1>11. (e.type = "created") = (LogOf[t] = <<>>)
  <2>1. NextSequence(t) = 1 <=> Cardinality(S) = 0
    BY <1>10
  <2>2. NextSequence(t) = 1 <=> e.type = "created"
    BY <1>8 DEF ValidAt
  <2> QED BY <1>9, <2>1, <2>2
<1>12. ASSUME e.type = "transitioned" PROVE e.from = Log!Reached(LogOf[t])
  <2>1. e.from = Latest(t)
    BY <1>8, <1>12 DEF Advance
  <2>2. Cardinality(S) # 0
    <3>1. e.type # "created"
      BY <1>12
    <3> QED BY <1>9, <1>11, <3>1
  <2>3. S # {}
    BY <2>2, FS_EmptySet
  <2>4. Log!Reached(EventsOf(S)) = LatestOf(S)
    BY <1>4, <2>3, ReachedIsLatest
  <2> QED BY <1>6, <2>1, <2>4, LatestIsOf
<1>13. \A u \in Tasks : \A i \in DOMAIN LogOf[u] : LogOf[u][i].id # e.id
  <2> TAKE u \in Tasks
  <2> TAKE i \in DOMAIN LogOf[u]
  <2> DEFINE s == Sorted(Stream(u))[i]
  <2>1. LogOf[u] = EventsOf(Stream(u)) /\ RowsOf(u, Stream(u)) /\ SoundRows(u, Stream(u))
    BY <1>1, <1>6
  <2>2. LogOf[u][i] = s.event /\ i \in DOMAIN Sorted(Stream(u))
    BY <2>1 DEF EventsOf
  <2>3. s \in Stream(u)
    BY <2>1, <2>2, SortedLists DEF RowsOf
  <2>4. s.index = IndexOf(s.event)
    BY <2>1, <2>3, SoundFacts
  <2>5. s \in rows
    BY <2>3 DEF Stream
  <2> QED BY <1>8, <2>2, <2>4, <2>5 DEF IndexOf
<1> QED BY <1>7, <1>8, <1>11, <1>12, <1>13 DEF Log!Add

LEMMA LogStep ==
  ASSUME JournalAssumption, Keyed, Sound, [Next]_vars, damage' = 0
  PROVE  UNCHANGED LogOf \/ Log!Next
<1>1. CASE \E t \in Tasks, e \in Events, x \in {"any", "empty", "exact"} : AppendInTx(t, e, x)
  <2>1. PICK t \in Tasks, e \in Events, x \in {"any", "empty", "exact"} : AppendInTx(t, e, x)
    BY <1>1
  <2>2. damage = 0
    BY <2>1 DEF AppendInTx
  <2>3. Log!Add(t, e)
    BY <2>1, <2>2, AppendAdds
  <2> QED BY <2>3 DEF Log!Next
<1>2. CASE UNCHANGED rows
  BY <1>2 DEF LogOf, Ordered, Stream
<1>3. CASE Outside
  <2>1. damage' = damage + 1 /\ damage \in Nat
    BY <1>3 DEF Outside, ChangeEvent, ChangeIndex, LoseRow, LoseTail, Hurt, Keyed
  <2> QED BY <2>1
<1>4. CASE \E t \in Tasks : TakeCheckpoint(t) \/ ExportJsonl(t)
  BY <1>2, <1>4 DEF TakeCheckpoint, ExportJsonl
<1> QED BY <1>1, <1>2, <1>3, <1>4 DEF Next, vars, Outside

-----------------------------------------------------------------------------
(* The specification. *)

JournalInv == Keyed /\ Pinned /\ Sound

\* A set without rows.
LEMMA NoRows == Distinct({}) /\ Len(Sorted({})) = 0 /\ DOMAIN Sorted({}) = {} /\ \A t : SoundRows(t, {})
<1>1. Distinct({}) /\ Cardinality({}) = 0
  BY FS_EmptySet DEF Distinct
<1>2. Len(Sorted({})) = 0 /\ DOMAIN Sorted({}) = 1..0
  BY <1>1, SortedLists
<1>3. LatestOf({}) = NoPoint
  BY DEF LatestOf, LatestRowOf, MovesOf
<1>4. ASSUME NEW t PROVE StreamLoop(t, Sorted({}))[0] = Begun
  BY <1>2, StreamLoopRuns
<1> QED BY <1>1, <1>2, <1>3, <1>4, BegunType DEF SoundRows

LEMMA InitInv == ASSUME JournalAssumption, Init PROVE JournalInv
<1>1. Keyed
  BY FS_EmptySet DEF Init, Keyed
<1>2. Pinned
  BY DEF Init, Pinned
<1>3. Sound
  <2>1. \A t \in Tasks : Stream(t) = {}
    BY DEF Init, Stream
  <2> QED BY <2>1, NoRows DEF Sound
<1> QED BY <1>1, <1>2, <1>3 DEF JournalInv

LEMMA InitLog == ASSUME Init PROVE Log!Init
<1>1. \A t \in Tasks : Stream(t) = {}
  BY DEF Init, Stream
<1>2. EventsOf({}) = <<>>
  BY NoRows DEF EventsOf
<1>3. LogOf = [t \in Tasks |-> <<>>]
  BY <1>1, <1>2, LogIsEvents
<1> QED BY <1>3 DEF Log!Init

-----------------------------------------------------------------------------
(* The pages of an export. *)

\* The rows of a stream numbered from 1 to m, one by one.
Numbered(S, q, m) ==
  /\ Distinct(S) /\ m \in Nat /\ q = [i \in 1..m |-> q[i]]
  /\ \A j \in 1..m : q[j] \in S /\ q[j].seq = j
  /\ \A r \in S : r.seq \in 1..m /\ q[r.seq] = r

\* list_events lists those after the cursor.
LEMMA ListsAfter ==
  ASSUME NEW t, NEW q, NEW m, Numbered(Stream(t), q, m), NEW c \in 0..m
  PROVE  /\ ListEvents(t, c) \in [1..(m - c) -> Stream(t)] /\ Len(ListEvents(t, c)) = m - c
         /\ \A i \in 1..(m - c) : ListEvents(t, c)[i] = q[c + i]
<1> DEFINE A == {r \in Stream(t) : r.seq > c}
<1>1. m \in Nat /\ c \in Nat /\ c <= m
  BY DEF Numbered
<1>2. Distinct(A)
  <2>1. IsFiniteSet(A)
    BY FS_Subset DEF Numbered, Distinct
  <2> QED BY <2>1 DEF Numbered, Distinct
<1>3. \A r \in A : r.seq \in (c + 1)..m
  BY <1>1 DEF Numbered
<1>4. \A j \in (c + 1)..m : \E r \in A : r.seq = j
  <2> TAKE j \in (c + 1)..m
  <2>1. j \in 1..m /\ j > c
    BY <1>1
  <2>2. q[j] \in Stream(t) /\ q[j].seq = j
    BY <2>1 DEF Numbered
  <2> QED BY <2>1, <2>2
<1>5. A \in SUBSET Stream(t)
  OBVIOUS
<1>6. ListEvents(t, c) = Sorted(A)
  BY DEF ListEvents
<1> HIDE DEF A
<1>7. /\ Len(Sorted(A)) = m - c /\ DOMAIN Sorted(A) = 1..(m - c)
      /\ \A j \in 1..(m - c) : Sorted(A)[j] \in A /\ Sorted(A)[j].seq = c + j
  BY <1>1, <1>2, <1>3, <1>4, SortedFrom
<1>8. \A j \in 1..(m - c) : Sorted(A)[j] = q[c + j]
  <2> TAKE j \in 1..(m - c)
  <2>1. Sorted(A)[j] \in Stream(t) /\ Sorted(A)[j].seq = c + j
    BY <1>5, <1>7
  <2> QED BY <2>1 DEF Numbered
<1>9. Sorted(A) \in [1..(m - c) -> Stream(t)]
  <2>1. Sorted(A) = [i \in 1..Cardinality(A) |-> CHOOSE r \in A : Rank(A, r) = i - 1]
    BY DEF Sorted, Rank, Before
  <2>2. Cardinality(A) = m - c
    BY <1>1, <1>2, <1>3, <1>4, SortedFrom
  <2>3. Sorted(A) = [i \in 1..(m - c) |-> Sorted(A)[i]]
    BY <2>1, <2>2
  <2> QED BY <1>5, <1>7, <2>3
<1> QED BY <1>6, <1>7, <1>8, <1>9

\* The loop over the pages goes from each page to the next.
LEMMA PageLoopRuns ==
  ASSUME NEW t, Cardinality(Stream(t)) \in Nat
  PROVE  /\ PageLoop(t)[0] = NoPage
         /\ \A k \in 1..Cardinality(Stream(t)) : PageLoop(t)[k] = NextPage(t, PageLoop(t)[k - 1])
<1> DEFINE m == Cardinality(Stream(t))
           Loop(g, n) == g = [k \in 0..n |-> IF k = 0 THEN NoPage ELSE NextPage(t, g[k - 1])]
           T == {n \in Nat : \E g : Loop(g, n)}
           f == CHOOSE g : Loop(g, m)
<1>1. 0 \in T
  <2> DEFINE g == [k \in 0..0 |-> NoPage]
  <2>1. Loop(g, 0)
    OBVIOUS
  <2> QED BY <2>1
<1>2. ASSUME NEW n \in T PROVE n + 1 \in T
  <2>1. PICK g : Loop(g, n)
    BY <1>2
  <2> DEFINE h == [k \in 0..(n + 1) |-> IF k = n + 1 THEN NextPage(t, g[n]) ELSE g[k]]
  <2>2. n \in Nat
    OBVIOUS
  <2>3. \A k \in 0..(n + 1) : h[k] = IF k = 0 THEN NoPage ELSE NextPage(t, h[k - 1])
    <3> TAKE k \in 0..(n + 1)
    <3>1. CASE k = n + 1
      <4>1. k # 0 /\ k - 1 = n /\ n \in 0..(n + 1) /\ n # n + 1
        BY <2>2, <3>1
      <4> QED BY <3>1, <4>1
    <3>2. CASE k # n + 1
      <4>1. k \in 0..n /\ h[k] = g[k]
        BY <2>2, <3>2
      <4>2. CASE k = 0
        BY <2>1, <4>1, <4>2
      <4>3. CASE k # 0
        <5>1. k - 1 \in 0..(n + 1) /\ k - 1 # n + 1
          BY <2>2, <4>1, <4>3
        <5>2. h[k - 1] = g[k - 1]
          BY <5>1
        <5>3. g[k] = NextPage(t, g[k - 1])
          BY <2>1, <4>1, <4>3
        <5> QED BY <4>1, <4>3, <5>2, <5>3
      <4> QED BY <4>2, <4>3
    <3> QED BY <3>1, <3>2
  <2>4. Loop(h, n + 1)
    BY <2>3
  <2> HIDE DEF h, Loop
  <2> QED BY <2>2, <2>4
<1>3. T = Nat
  <2>1. T \in SUBSET Nat
    OBVIOUS
  <2> HIDE DEF T
  <2> QED BY <1>1, <1>2, <2>1, SetInduction
<1>4. Loop(f, m)
  <2>1. \E g : Loop(g, m)
    BY <1>3
  <2> QED BY <2>1
<1>5. PageLoop(t) = f
  BY DEF PageLoop
<1> HIDE DEF f
<1> QED BY <1>4, <1>5

LEMMA NextPageFields ==
  ASSUME NEW t, NEW p, p.loop = "on"
  PROVE  /\ NextPage(t, p).records = p.records \o Page(t, p.cursor)
         /\ NextPage(t, p).cursor = NextCursor(t, p.cursor)
         /\ NextPage(t, p).loop = IF NextCursor(t, p.cursor) = 0 THEN "ended" ELSE "on"
<1> DEFINE joined == p.records \o Page(t, p.cursor)
           next == NextCursor(t, p.cursor)
           loop == IF NextCursor(t, p.cursor) = 0 THEN "ended" ELSE "on"
<1>1. NextPage(t, p) = [records |-> joined, cursor |-> next, loop |-> loop]
  BY DEF NextPage
<1> HIDE DEF joined, next, loop
<1>2. NextPage(t, p).records = joined /\ NextPage(t, p).cursor = next /\ NextPage(t, p).loop = loop
  BY <1>1
<1> QED BY <1>2 DEF joined, next, loop

Prefix(q, c) == [i \in 1..c |-> q[i]]

\* A page holds the rows after the cursor, as many as fit, and the cursor goes
\* to the last of them when there are more.
LEMMA PageReads ==
  ASSUME JournalAssumption, NEW t, NEW q, NEW m, Numbered(Stream(t), q, m), NEW c \in 0..(m - 1)
  PROVE  LET w == IF m - c > PageSize THEN PageSize ELSE m - c
         IN /\ w \in Nat \ {0} /\ c + w \in 1..m
            /\ Page(t, c) \in Seq(Stream(t)) /\ Len(Page(t, c)) = w
            /\ \A i \in 1..w : Page(t, c)[i] = q[c + i]
            /\ NextCursor(t, c) = IF m - c > PageSize THEN c + w ELSE 0
<1> DEFINE left == ListEvents(t, c)
           n == m - c
<1>1. m \in Nat /\ c \in 0..m /\ n \in Nat \ {0} /\ PageSize \in Nat \ {0} /\ c \in Nat /\ c + n = m
  BY DEF Numbered, JournalAssumption
<1>2. left \in [1..n -> Stream(t)] /\ Len(left) = n /\ \A i \in 1..n : left[i] = q[c + i]
  <2>1. c \in 0..m
    BY <1>1
  <2> HIDE DEF left, n
  <2>2. ListEvents(t, c) \in [1..(m - c) -> Stream(t)]
    BY <2>1, ListsAfter
  <2>3. Len(ListEvents(t, c)) = m - c
    BY <2>1, ListsAfter
  <2>4. \A i \in 1..(m - c) : ListEvents(t, c)[i] = q[c + i]
    BY <2>1, ListsAfter
  <2> QED BY <2>2, <2>3, <2>4 DEF left, n
<1>3. \A i \in 1..n : q[c + i] \in Stream(t) /\ q[c + i].seq = c + i
  <2> TAKE i \in 1..n
  <2>1. c + i \in 1..m
    BY <1>1
  <2> QED BY <2>1 DEF Numbered
<1>4. CASE n > PageSize
  <2>1. Page(t, c) = SubSeq(left, 1, PageSize) /\ NextCursor(t, c) = Page(t, c)[PageSize].seq
    BY <1>2, <1>4 DEF Page, NextCursor
  <2> HIDE DEF left, n
  <2>2. \A i \in 1..PageSize : i \in 1..n
    BY <1>1, <1>4
  <2>3. \A i \in 1..PageSize : left[i] = q[c + i] /\ left[i] \in Stream(t) /\ left[i].seq = c + i
    BY <1>2, <1>3, <2>2
  <2>4. /\ SubSeq(left, 1, PageSize) \in Seq(Stream(t))
        /\ Len(SubSeq(left, 1, PageSize)) = IF 1 <= PageSize THEN PageSize - 1 + 1 ELSE 0
        /\ \A i \in 1..(PageSize - 1 + 1) : SubSeq(left, 1, PageSize)[i] = left[1 + i - 1]
    <3>1. 1 \in Int /\ PageSize \in Int
      BY <1>1
    <3> QED BY <2>3, <3>1, SubSeqProperties
  <2>5. Len(Page(t, c)) = PageSize /\ \A i \in 1..PageSize : Page(t, c)[i] = left[i]
    <3>1. PageSize - 1 + 1 = PageSize /\ 1 <= PageSize /\ \A i \in 1..PageSize : 1 + i - 1 = i
      BY <1>1
    <3> QED BY <2>1, <2>4, <3>1
  <2>6. PageSize \in 1..PageSize /\ c + PageSize \in 1..m
    BY <1>1, <1>4
  <2>7. NextCursor(t, c) = c + PageSize
    BY <2>1, <2>3, <2>5, <2>6
  <2> QED BY <1>1, <1>4, <2>1, <2>3, <2>4, <2>5, <2>6, <2>7 DEF n
<1>5. CASE ~(n > PageSize)
  <2>1. Page(t, c) = left /\ NextCursor(t, c) = 0
    BY <1>2, <1>5 DEF Page, NextCursor
  <2> HIDE DEF left, n
  <2>3. left \in Seq(Stream(t))
    BY <1>1, <1>2, FcnIsSeq
  <2>4. c + n \in 1..m
    BY <1>1
  <2> QED BY <1>1, <1>2, <1>5, <2>1, <2>3, <2>4 DEF n
<1> QED BY <1>4, <1>5

\* The w elements after the first c.
Follows(X, q, m, c, w, p) ==
  /\ m \in Nat /\ c \in Nat /\ w \in Nat /\ c + w <= m
  /\ \A i \in 1..m : q[i] \in X
  /\ p \in Seq(X) /\ Len(p) = w /\ \A i \in 1..w : p[i] = q[c + i]

\* The rows up to the cursor and the page after it.
LEMMA PageJoins ==
  ASSUME NEW X, NEW q, NEW m, NEW c, NEW w, NEW p, Follows(X, q, m, c, w, p)
  PROVE  Prefix(q, c) \o p = Prefix(q, c + w)
<1> USE DEF Follows
<1>1. Prefix(q, c) \in Seq(X) /\ Len(Prefix(q, c)) = c
  <2>1. Prefix(q, c) \in [1..c -> X]
    BY DEF Prefix
  <2> QED BY <2>1, FcnIsSeq
<1>2. Prefix(q, c + w) \in Seq(X) /\ Len(Prefix(q, c + w)) = c + w
  <2>1. Prefix(q, c + w) \in [1..(c + w) -> X] /\ c + w \in Nat
    BY DEF Prefix
  <2> QED BY <2>1, FcnIsSeq
<1> DEFINE s == Prefix(q, c) \o p
<1>3. /\ s \in Seq(X) /\ Len(s) = c + w
      /\ \A i \in 1..(c + w) : s[i] = IF i <= c THEN Prefix(q, c)[i] ELSE p[i - c]
  <2>1. /\ s \in Seq(X) /\ Len(s) = Len(Prefix(q, c)) + Len(p)
        /\ \A i \in 1..(Len(Prefix(q, c)) + Len(p)) :
             s[i] = IF i <= Len(Prefix(q, c)) THEN Prefix(q, c)[i] ELSE p[i - Len(Prefix(q, c))]
    BY ONLY <1>1, p \in Seq(X), ConcatProperties
  <2> HIDE DEF s
  <2> QED BY <1>1, <2>1
<1> HIDE DEF s
<1>4. \A i \in 1..(c + w) : s[i] = Prefix(q, c + w)[i]
  <2> TAKE i \in 1..(c + w)
  <2>1. CASE i <= c
    <3>1. i \in 1..c
      BY <2>1
    <3> QED BY <1>3, <2>1, <3>1 DEF Prefix
  <2>2. CASE ~(i <= c)
    <3>1. i - c \in 1..w /\ c + (i - c) = i
      BY <2>2
    <3>2. p[i - c] = q[i]
      BY <3>1
    <3> QED BY <1>3, <2>2, <3>2 DEF Prefix
  <2> QED BY <2>1, <2>2
<1>5. s = Prefix(q, c + w)
  BY <1>2, <1>3, <1>4, SeqEqual
<1> QED BY <1>5 DEF s

\* Page by page the whole stream is read, every row once.
LEMMA PagedReadsAll ==
  ASSUME JournalAssumption, NEW t, NEW q, NEW m, Numbered(Stream(t), q, m), m # 0, Cardinality(Stream(t)) = m
  PROVE  Paged(t) = q
<1> DEFINE p == PageLoop(t)
           Reading(k) == IF p[k].loop = "on"
                         THEN p[k].cursor \in 0..(m - 1) /\ k <= p[k].cursor /\ p[k].records = Prefix(q, p[k].cursor)
                         ELSE p[k].records = Prefix(q, m)
           T == {k \in Nat : k \in 0..m => Reading(k)}
<1>1. m \in Nat /\ m - 1 \in Nat /\ \A i \in 1..m : q[i] \in Stream(t)
  BY DEF Numbered
<1>2. p[0] = NoPage /\ \A k \in 1..m : p[k] = NextPage(t, p[k - 1])
  BY <1>1, PageLoopRuns
<1> HIDE DEF p
<1>3. 0 \in T
  <2>1. Prefix(q, 0) = <<>>
    BY DEF Prefix
  <2>2. p[0].loop = "on" /\ p[0].cursor = 0 /\ p[0].records = <<>>
    BY <1>2 DEF NoPage
  <2> QED BY <1>1, <2>1, <2>2
<1>4. ASSUME NEW k \in T PROVE k + 1 \in T
  <2> SUFFICES ASSUME k + 1 \in 0..m PROVE Reading(k + 1)
    OBVIOUS
  <2>1. k \in 0..m /\ k + 1 \in 1..m /\ (k + 1) - 1 = k /\ k \in Nat
    BY <1>1
  <2>2. Reading(k) /\ p[k + 1] = NextPage(t, p[k])
    BY <1>2, <2>1
  <2>3. CASE p[k].loop # "on"
    <3>1. p[k + 1] = p[k]
      BY <2>2, <2>3 DEF NextPage
    <3> QED BY <2>2, <2>3, <3>1
  <2>4. CASE p[k].loop = "on"
    <3> DEFINE c == p[k].cursor
               w == IF m - c > PageSize THEN PageSize ELSE m - c
    <3>1. c \in 0..(m - 1) /\ k <= c /\ p[k].records = Prefix(q, c)
      BY <2>2, <2>4
    <3>2. /\ p[k + 1].records = p[k].records \o Page(t, c) /\ p[k + 1].cursor = NextCursor(t, c)
          /\ p[k + 1].loop = IF NextCursor(t, c) = 0 THEN "ended" ELSE "on"
      <4> DEFINE x == p[k]
      <4>1. x.loop = "on" /\ p[k + 1] = NextPage(t, x)
        BY <2>2, <2>4
      <4> HIDE DEF x
      <4>2. /\ NextPage(t, x).records = x.records \o Page(t, x.cursor)
            /\ NextPage(t, x).cursor = NextCursor(t, x.cursor)
            /\ NextPage(t, x).loop = IF NextCursor(t, x.cursor) = 0 THEN "ended" ELSE "on"
        BY ONLY <4>1, NextPageFields
      <4> QED BY <4>1, <4>2 DEF x, c
    <3> HIDE DEF c
    <3>3. /\ w \in Nat \ {0} /\ c + w \in 1..m
          /\ Page(t, c) \in Seq(Stream(t)) /\ Len(Page(t, c)) = w
          /\ \A i \in 1..w : Page(t, c)[i] = q[c + i]
          /\ NextCursor(t, c) = IF m - c > PageSize THEN c + w ELSE 0
      <4> HIDE DEF T, Reading
      <4> QED BY ONLY JournalAssumption, Numbered(Stream(t), q, m), <3>1, PageReads
    <3>4. Prefix(q, c) \o Page(t, c) = Prefix(q, c + w)
      <4>1. c \in Nat /\ w \in Nat /\ c + w <= m
        BY <1>1, <3>1, <3>3
      <4> HIDE DEF w
      <4>2. Follows(Stream(t), q, m, c, w, Page(t, c))
        BY <1>1, <3>3, <4>1 DEF Follows
      <4> HIDE DEF T, Reading
      <4> QED BY ONLY <4>2, PageJoins
    <3>5. p[k + 1].records = Prefix(q, c + w)
      BY <3>1, <3>2, <3>4
    <3>6. CASE m - c > PageSize
      <4>1. w = PageSize /\ c + w \in 0..(m - 1) /\ k + 1 <= c + w /\ c + w # 0
        BY <1>1, <2>1, <3>1, <3>3, <3>6
      <4> HIDE DEF w
      <4>2. p[k + 1].loop = "on" /\ p[k + 1].cursor = c + w
        BY <3>2, <3>3, <3>6, <4>1
      <4> QED BY <3>5, <4>1, <4>2
    <3>7. CASE ~(m - c > PageSize)
      <4>1. c + w = m
        BY <1>1, <3>1, <3>7
      <4> HIDE DEF w
      <4>2. p[k + 1].loop # "on"
        BY <3>2, <3>3, <3>7
      <4> QED BY <3>5, <4>1, <4>2
    <3> QED BY <3>6, <3>7
  <2> QED BY <2>3, <2>4
<1>5. T = Nat
  <2>1. T \in SUBSET Nat
    OBVIOUS
  <2> HIDE DEF T
  <2> QED BY <1>3, <1>4, <2>1, SetInduction
<1>6. Reading(m)
  <2>1. m \in T
    BY <1>1, <1>5
  <2> QED BY <1>1, <2>1
<1>7. p[m].records = Prefix(q, m)
  BY <1>1, <1>6
<1>8. Prefix(q, m) = q
  BY DEF Prefix, Numbered
<1> QED BY <1>7, <1>8 DEF Paged, p

\* What a stream is that verify_stream accepts, and how its loop went.
Accepted(t, q, m) ==
  /\ Numbered(Stream(t), q, m) /\ m # 0 /\ m = Cardinality(Stream(t))
  /\ Len(q) = m /\ \A j \in 1..m : q[j] \in Rows
  /\ StreamLoop(t, q)[0] = Begun
  /\ \A k \in 0..m : StreamLoop(t, q)[k] \in Verdicts
  /\ \A j \in 1..m : /\ Passes(t, StreamLoop(t, q)[j - 1], q[j])
                     /\ StreamLoop(t, q)[j] = StreamStep(t, StreamLoop(t, q)[j - 1], q[j])
                     /\ StreamLoop(t, q)[j].at = Advance(StreamLoop(t, q)[j - 1].at, q[j].event)

\* What verify_stream accepts is numbered from 1 on, and every row passed.
LEMMA StreamAccepted ==
  ASSUME JournalAssumption, Keyed, NEW t \in Tasks, VerifyStream(t, 0, None)
  PROVE  Accepted(t, Ordered(t), Cardinality(Stream(t)))
<1> DEFINE S == Stream(t)
           m == Cardinality(S)
           q == Sorted(S)
           v == StreamLoop(t, q)
<1>1. Through(t, 0) = S /\ ReadThrough(t, 0) = q /\ Ordered(t) = q
  BY DEF Through, ReadThrough, Ordered
<1>2. /\ Distinct(S) /\ m \in Nat \ {0} /\ Len(q) = m
      /\ \A j \in 1..m : q[j] \in S /\ q[j].seq = j /\ q[j] \in Rows
      /\ \A r \in S : r.seq \in 1..m /\ q[r.seq] = r
  <2>1. Distinct(S) /\ Len(q) = m /\ \A i \in 1..m : q[i] \in Rows
    BY <1>1, ReadLists
  <2>2. /\ m \in Nat \ {0} /\ \A j \in 1..m : q[j] \in S /\ q[j].seq = j
        /\ \A r \in S : r.seq \in 1..m /\ q[r.seq] = r
    BY <1>1, AcceptedRows
  <2> QED BY <2>1, <2>2
<1>3. q = [i \in 1..m |-> q[i]]
  <2>1. q = [i \in 1..m |-> CHOOSE r \in S : Rank(S, r) = i - 1]
    BY DEF Sorted, Rank, Before
  <2> QED BY <2>1
<1>4. v[m].ok
  BY <1>1, <1>2 DEF VerifyStream, Finish
<1> HIDE DEF S, m, q
<1>5. LoopSaw(t, q)
  <2>1. Len(q) \in Nat /\ \A i \in 1..Len(q) : q[i] \in Rows
    BY <1>2
  <2> QED BY <2>1, StreamLoopSaw
<1>6. v[0] = Begun /\ \A i \in 1..m : v[i] = StreamStep(t, v[i - 1], q[i])
  BY <1>2, StreamLoopRuns
<1>7. /\ \A k \in 0..m : v[k] \in Verdicts
      /\ \A j \in 1..m : Passes(t, v[j - 1], q[j]) /\ v[j] = Step(v[j - 1], q[j])
  <2>1. \A k \in 0..m : v[k] \in Verdicts
    BY <1>2, <1>5 DEF LoopSaw
  <2>2. m \in 0..Len(q)
    BY <1>2
  <2>3. \A j \in 1..m : Passes(t, v[j - 1], q[j]) /\ v[j] = Step(v[j - 1], q[j])
    BY <1>4, <1>5, <2>2 DEF LoopSaw
  <2> QED BY <2>1, <2>3
<1>8. \A j \in 1..m : v[j].at = Advance(v[j - 1].at, q[j].event)
  <2> TAKE j \in 1..m
  <2>1. v[j - 1] \in Verdicts /\ q[j] \in Rows /\ v[j] = Step(v[j - 1], q[j])
    <3>1. j - 1 \in 0..m
      BY <1>2
    <3> QED BY <1>2, <1>7, <3>1
  <2>2. Step(v[j - 1], q[j]).at = Advance(v[j - 1].at, q[j].event)
    BY <2>1, StepFacts
  <2> QED BY <2>1, <2>2
<1>9. Numbered(S, q, m)
  BY <1>2, <1>3 DEF Numbered
<1>10. Accepted(t, q, m)
  BY <1>2, <1>6, <1>7, <1>8, <1>9 DEF Accepted, S, m
<1> QED BY <1>1, <1>10 DEF S, m

\* Its loop ends at the revision latest_task_revision_in_tx finds, as each of
\* its rows continues those before it.
LEMMA AcceptedLatest ==
  ASSUME JournalAssumption, Keyed, NEW t \in Tasks, NEW q, NEW m, Accepted(t, q, m)
  PROVE  StreamLoop(t, q)[m].at = Latest(t)
<1> DEFINE S == Stream(t)
           v == StreamLoop(t, q)
           U(k) == {r \in S : r.seq <= k}
           Reached(k) == SoundRows(t, U(k)) /\ StreamLoop(t, Sorted(U(k)))[k] = v[k]
           T == {k \in Nat : k \in 0..m => Reached(k)}
<1>1. /\ Distinct(S) /\ m \in Nat /\ \A j \in 1..m : q[j] \in S /\ q[j].seq = j /\ q[j] \in Rows
      /\ \A r \in S : r.seq \in 1..m /\ q[r.seq] = r
  BY DEF Accepted, Numbered
<1>2. RowsOf(t, S)
  BY StreamRows
<1>3. /\ v[0] = Begun
      /\ \A j \in 1..m : Passes(t, v[j - 1], q[j]) /\ v[j] = StreamStep(t, v[j - 1], q[j])
  BY DEF Accepted
<1> HIDE DEF S, v
<1>4. ASSUME NEW k \in 0..m
      PROVE  /\ RowsOf(t, U(k)) /\ Cardinality(U(k)) = k /\ Len(Sorted(U(k))) = k
  <2>1. U(k) \in SUBSET S /\ Distinct(U(k))
    <3>1. IsFiniteSet(U(k))
      BY <1>1, FS_Subset DEF Distinct
    <3> QED BY <1>1, <3>1 DEF Distinct
  <2>2. RowsOf(t, U(k))
    BY <1>2, <2>1 DEF RowsOf
  <2>3. k \in Nat /\ \A r \in U(k) : r.seq \in 1..k
    BY <1>1
  <2>4. \A j \in 1..k : \E r \in U(k) : r.seq = j
    <3> TAKE j \in 1..k
    <3>1. j \in 1..m /\ j <= k
      BY <1>1
    <3>2. q[j] \in S /\ q[j].seq = j
      BY <1>1, <3>1
    <3> QED BY <3>1, <3>2
  <2> HIDE DEF U
  <2> QED BY <2>1, <2>2, <2>3, <2>4, GaplessSorted
<1>5. 0 \in T
  <2>1. U(0) = {}
    BY <1>1
  <2>2. SoundRows(t, {}) /\ Len(Sorted({})) = 0
    BY NoRows
  <2>3. StreamLoop(t, Sorted({}))[0] = Begun
    BY <2>2, StreamLoopRuns
  <2>4. Reached(0)
    BY <1>3, <2>1, <2>2, <2>3
  <2> QED BY <2>4
<1>6. ASSUME NEW k \in T PROVE k + 1 \in T
  <2> SUFFICES ASSUME k + 1 \in 0..m PROVE Reached(k + 1)
    <3> HIDE DEF Reached
    <3> QED OBVIOUS
  <2>1. k \in Nat /\ k \in 0..m /\ k + 1 \in 1..m /\ (k + 1) - 1 = k
    BY <1>1
  <2>2. Reached(k)
    BY <2>1
  <2> DEFINE r == q[k + 1]
  <2>3. r \in S /\ r \in Rows /\ r.seq = k + 1 /\ r.stream = t /\ Passes(t, v[k], r) /\ v[k + 1] = StreamStep(t, v[k], r)
    BY <1>1, <1>2, <1>3, <2>1 DEF RowsOf
  <2>4. U(k + 1) = U(k) \cup {r}
    <3>1. ASSUME NEW s \in S, s.seq <= k + 1, ~(s.seq <= k) PROVE s = r
      <4>1. s.seq = k + 1
        BY <1>1, <2>1, <3>1
      <4> QED BY <1>1, <4>1
    <3>2. \A s \in S : s.seq \in Nat
      BY <1>1
    <3> HIDE DEF r
    <3> QED BY <2>1, <2>3, <3>1, <3>2
  <2>5. RowsOf(t, U(k)) /\ Cardinality(U(k)) = k /\ Len(Sorted(U(k))) = k
    BY <1>4, <2>1
  <2>6. SoundRows(t, U(k)) /\ StreamLoop(t, Sorted(U(k)))[k] = v[k] /\ v[k].at = LatestOf(U(k))
    BY <2>2, <2>5 DEF SoundRows
  <2> HIDE DEF U, r, T, Reached
  <2>7. Continues(t, U(k), r)
    BY <2>3, <2>5, <2>6 DEF Continues, Passes, VerifyOne
  <2>8. SoundRows(t, U(k) \cup {r})
    BY <2>5, <2>6, <2>7, SoundContinues
  <2>9. StreamLoop(t, Sorted(U(k) \cup {r}))[k + 1] = v[k + 1]
    <3> DEFINE short == Sorted(U(k))
               long == Sorted(U(k) \cup {r})
    <3>1. ExtendedBy(t, U(k), U(k) \cup {r}, r)
      BY <2>5, <2>6, <2>7, SortedContinues
    <3>2. Len(short) = k /\ Len(long) = k + 1 /\ (\A j \in 1..k : long[j] = short[j]) /\ long[k + 1] = r
      BY <2>5, <3>1 DEF ExtendedBy
    <3> HIDE DEF short, long
    <3>3. StreamLoop(t, long)[k + 1] = StreamStep(t, StreamLoop(t, short)[k], long[k + 1])
      BY ONLY <2>1, <3>2, LoopExtends
    <3> QED BY <2>3, <2>6, <3>2, <3>3 DEF short, long
  <2> QED BY <2>4, <2>8, <2>9 DEF Reached
<1>7. T = Nat
  <2>1. T \in SUBSET Nat
    OBVIOUS
  <2> HIDE DEF T
  <2> QED BY <1>5, <1>6, <2>1, SetInduction
<1>8. Reached(m) /\ Len(Sorted(U(m))) = m
  <2>1. m \in T /\ m \in 0..m
    BY <1>1, <1>7
  <2> QED BY <1>4, <2>1
<1>9. U(m) = S
  BY <1>1
<1>10. v[m].at = LatestOf(S)
  BY <1>8, <1>9 DEF SoundRows
<1> QED BY <1>10, LatestIsOf DEF S, v

-----------------------------------------------------------------------------
(* The projection of a stream. *)

\* What of an event is left in its projection.
LEMMA ProjectionFacts ==
  ASSUME NEW key, NEW e \in Events
  PROVE  LET p == Project(key, e)
         IN /\ p.type = e.type /\ p.from = e.from /\ p.to = e.to
            /\ p.task = Alias(key, "task", e.task) /\ p.id = Alias(key, "event", e.id)
            /\ ValidProjected(p) /\ OneNamespace(p)
            /\ \A at : Advance(at, p) = Advance(at, e)
            /\ \A n : ValidAt(n, p) <=> ValidAt(n, e)
<1> DEFINE p == Project(key, e)
           D == {"task", "id", "type", "from", "to"}
<1>1. DOMAIN e = D
  BY DEF Events, PlainEvents, Transitions
<1>2. DOMAIN p = D /\ \A f \in D : p[f] = IF Retained(e, f) THEN e[f] ELSE Alias(key, Namespace(f), e[f])
  BY <1>1 DEF Project
<1>3. Namespace("task") = "task" /\ Namespace("id") = "event"
  BY DEF Namespace
<1>4. /\ p.type = e.type /\ p.from = e.from /\ p.to = e.to
      /\ p.task = Alias(key, "task", e.task) /\ p.id = Alias(key, "event", e.id)
  BY <1>2, <1>3 DEF Retained
<1> HIDE DEF p
<1>5. ASSUME NEW space, NEW x
      PROVE  /\ DOMAIN Alias(key, space, x) = {"space", "digest"} /\ Alias(key, space, x).space = space
             /\ Alias(key, space, x).digest = <<key, space, x>>
  BY DEF Alias
<1>6. ASSUME NEW f \in DOMAIN p, ~Retained(p, f) PROVE ValidAlias(f, p[f])
  <2>1. f \in {"task", "id"}
    BY <1>2, <1>6 DEF Retained
  <2>2. CASE f = "task"
    BY <1>3, <1>4, <1>5, <2>2 DEF ValidAlias
  <2>3. CASE f = "id"
    BY <1>3, <1>4, <1>5, <2>3 DEF ValidAlias
  <2> QED BY <2>1, <2>2, <2>3
<1>7. SourceShape(p).type = p.type /\ SourceShape(p).from = p.from /\ SourceShape(p).to = p.to
  BY <1>2 DEF SourceShape, Retained
<1>8. ValidProjected(p)
  BY <1>4, <1>6, <1>7 DEF ValidProjected
<1>9. OneNamespace(p)
  <2>1. p.task.digest = <<key, "task", e.task>> /\ p.id.digest = <<key, "event", e.id>>
    BY <1>4, <1>5
  <2>2. <<key, "task", e.task>>[2] = "task" /\ <<key, "event", e.id>>[2] = "event"
    OBVIOUS
  <2> QED BY <2>1, <2>2 DEF OneNamespace
<1>10. \A at : Advance(at, p) = Advance(at, e)
  BY <1>4 DEF Advance
<1>11. \A n : ValidAt(n, p) <=> ValidAt(n, e)
  BY <1>4 DEF ValidAt
<1> QED BY <1>4, <1>8, <1>9, <1>10, <1>11 DEF p

\* Aliases tell apart what they stand for.
LEMMA AliasesDiffer ==
  ASSUME NEW key, NEW space, NEW x, NEW y, Alias(key, space, x) = Alias(key, space, y) PROVE x = y
<1>1. Alias(key, space, x).digest = <<key, space, x>> /\ Alias(key, space, y).digest = <<key, space, y>>
  BY DEF Alias
<1>2. <<key, space, x>> = <<key, space, y>>
  BY <1>1
<1> QED BY <1>2

\* The records of an export, each with the hash of the one before.
LEMMA ProjectRuns ==
  ASSUME NEW key, NEW q, Len(q) \in Nat
  PROVE  ProjectAll(key, q) =
           [i \in 1..Len(q) |->
              ProjectStep(key, IF i = 1 THEN None ELSE ProjectAll(key, q)[i - 1].hash, q[i])]
<1> DEFINE Loop(g, n) == g = [i \in 1..n |-> ProjectStep(key, IF i = 1 THEN None ELSE g[i - 1].hash, q[i])]
           T == {n \in Nat : \E g : Loop(g, n)}
           f == CHOOSE g : Loop(g, Len(q))
<1>1. 0 \in T
  <2> DEFINE g == [i \in 1..0 |-> None]
  <2>1. Loop(g, 0)
    OBVIOUS
  <2> QED BY <2>1
<1>2. ASSUME NEW n \in T PROVE n + 1 \in T
  <2>1. PICK g : Loop(g, n)
    BY <1>2
  <2> DEFINE last == ProjectStep(key, IF n = 0 THEN None ELSE g[n].hash, q[n + 1])
             h == [i \in 1..(n + 1) |-> IF i = n + 1 THEN last ELSE g[i]]
  <2>2. n \in Nat
    OBVIOUS
  <2>3. \A i \in 1..(n + 1) : h[i] = ProjectStep(key, IF i = 1 THEN None ELSE h[i - 1].hash, q[i])
    <3> TAKE i \in 1..(n + 1)
    <3>1. CASE i = n + 1 /\ n = 0
      BY <3>1
    <3>2. CASE i = n + 1 /\ n # 0
      <4>1. i # 1 /\ i - 1 = n /\ n \in 1..(n + 1) /\ n # n + 1
        BY <2>2, <3>2
      <4>2. h[n] = g[n] /\ h[i] = last
        BY <3>2, <4>1
      <4> QED BY <3>2, <4>1, <4>2
    <3>3. CASE i # n + 1
      <4>1. i \in 1..n /\ h[i] = g[i]
        BY <2>2, <3>3
      <4>2. g[i] = ProjectStep(key, IF i = 1 THEN None ELSE g[i - 1].hash, q[i])
        BY <2>1, <4>1
      <4>3. i # 1 => h[i - 1] = g[i - 1]
        BY <2>2, <4>1
      <4> QED BY <4>1, <4>2, <4>3
    <3> QED BY <3>1, <3>2, <3>3
  <2>4. Loop(h, n + 1)
    BY <2>3
  <2> HIDE DEF h, Loop
  <2> QED BY <2>2, <2>4
<1>3. T = Nat
  <2>1. T \in SUBSET Nat
    OBVIOUS
  <2> HIDE DEF T
  <2> QED BY <1>1, <1>2, <2>1, SetInduction
<1>4. Loop(f, Len(q))
  <2>1. \E g : Loop(g, Len(q))
    BY <1>3
  <2> QED BY <2>1
<1>5. ProjectAll(key, q) = f
  BY DEF ProjectAll
<1> HIDE DEF f
<1> QED BY <1>4, <1>5

\* The loop of verify_projected_records goes from each record to the next.
LEMMA ProjectedLoopRuns ==
  ASSUME NEW key, NEW records, Len(records) \in Nat
  PROVE  /\ ProjectedLoop(key, records)[0] = Begun
         /\ \A i \in 1..Len(records) :
              ProjectedLoop(key, records)[i] = ProjectedStep(key, ProjectedLoop(key, records)[i - 1], records[i])
<1> DEFINE Loop(g, n) == g = [i \in 0..n |-> IF i = 0 THEN Begun ELSE ProjectedStep(key, g[i - 1], records[i])]
           T == {n \in Nat : \E g : Loop(g, n)}
           f == CHOOSE g : Loop(g, Len(records))
<1>1. 0 \in T
  <2> DEFINE g == [i \in 0..0 |-> Begun]
  <2>1. Loop(g, 0)
    OBVIOUS
  <2> QED BY <2>1
<1>2. ASSUME NEW n \in T PROVE n + 1 \in T
  <2>1. PICK g : Loop(g, n)
    BY <1>2
  <2> DEFINE h == [i \in 0..(n + 1) |-> IF i = n + 1 THEN ProjectedStep(key, g[n], records[n + 1]) ELSE g[i]]
  <2>2. n \in Nat
    OBVIOUS
  <2>3. \A i \in 0..(n + 1) : h[i] = IF i = 0 THEN Begun ELSE ProjectedStep(key, h[i - 1], records[i])
    <3> TAKE i \in 0..(n + 1)
    <3>1. CASE i = n + 1
      <4>1. i # 0 /\ i - 1 = n /\ n \in 0..(n + 1) /\ n # n + 1
        BY <2>2, <3>1
      <4> QED BY <3>1, <4>1
    <3>2. CASE i # n + 1
      <4>1. i \in 0..n /\ h[i] = g[i]
        BY <2>2, <3>2
      <4>2. CASE i = 0
        BY <2>1, <4>1, <4>2
      <4>3. CASE i # 0
        <5>1. i - 1 \in 0..(n + 1) /\ i - 1 # n + 1
          BY <2>2, <4>1, <4>3
        <5>2. h[i - 1] = g[i - 1]
          BY <5>1
        <5>3. g[i] = ProjectedStep(key, g[i - 1], records[i])
          BY <2>1, <4>1, <4>3
        <5> QED BY <4>1, <4>3, <5>2, <5>3
      <4> QED BY <4>2, <4>3
    <3> QED BY <3>1, <3>2
  <2>4. Loop(h, n + 1)
    BY <2>3
  <2> HIDE DEF h, Loop
  <2> QED BY <2>2, <2>4
<1>3. T = Nat
  <2>1. T \in SUBSET Nat
    OBVIOUS
  <2> HIDE DEF T
  <2> QED BY <1>1, <1>2, <2>1, SetInduction
<1>4. Loop(f, Len(records))
  <2>1. \E g : Loop(g, Len(records))
    BY <1>3
  <2> QED BY <2>1
<1>5. ProjectedLoop(key, records) = f
  BY DEF ProjectedLoop
<1> HIDE DEF f
<1> QED BY <1>4, <1>5

\* The records are one for each row, in order, and linked.
LEMMA ExportRecords ==
  ASSUME NEW key, NEW S, NEW q, NEW m, Numbered(S, q, m), Len(q) = m
  PROVE  LET out == ProjectAll(key, q)
         IN /\ DOMAIN out = 1..m /\ Len(out) = m
            /\ \A i \in 1..m : /\ out[i].bundle = key /\ out[i].seq = i
                               /\ out[i].prev = (IF i = 1 THEN None ELSE out[i - 1].hash)
                               /\ out[i].event = Project(key, q[i].event)
                               /\ out[i].hash = HashProjected(key, i, out[i].prev, out[i].event)
<1> DEFINE out == ProjectAll(key, q)
           before(i) == IF i = 1 THEN None ELSE out[i - 1].hash
<1>1. m \in Nat /\ \A i \in 1..m : q[i].seq = i
  BY DEF Numbered
<1>2. out = [i \in 1..m |-> ProjectStep(key, before(i), q[i])]
  BY <1>1, ProjectRuns
<1> HIDE DEF out
<1>3. DOMAIN out = 1..m /\ Len(out) = m
  BY <1>1, <1>2
<1>4. ASSUME NEW i \in 1..m
      PROVE  /\ out[i].bundle = key /\ out[i].seq = i /\ out[i].prev = before(i)
             /\ out[i].event = Project(key, q[i].event)
             /\ out[i].hash = HashProjected(key, i, out[i].prev, out[i].event)
  <2> HIDE DEF before
  <2>1. out[i] = ProjectStep(key, before(i), q[i]) /\ q[i].seq = i
    BY <1>1, <1>2
  <2> DEFINE p == Project(key, q[i].event)
             hash == HashProjected(key, q[i].seq, before(i), p)
  <2>2. out[i] = [bundle |-> key, seq |-> q[i].seq, prev |-> before(i), event |-> p, hash |-> hash]
    BY <2>1 DEF ProjectStep
  <2> HIDE DEF p, hash
  <2>3. /\ out[i].bundle = key /\ out[i].seq = q[i].seq /\ out[i].prev = before(i)
        /\ out[i].event = p /\ out[i].hash = hash
    BY <2>2
  <2> QED BY <2>1, <2>3 DEF p, hash
<1> QED BY <1>3, <1>4 DEF out

\* One step of a loop, field by field.
LEMMA StepOf ==
  ASSUME NEW prev, NEW next, NEW at, NEW ids, NEW r
  PROVE  Step([ok |-> TRUE, prev |-> prev, next |-> next, at |-> at, ids |-> ids], r)
           = [ok |-> TRUE, prev |-> r.hash, next |-> next + 1, at |-> Advance(at, r.event), ids |-> ids \cup {r.event.id}]
<1> DEFINE v == [ok |-> TRUE, prev |-> prev, next |-> next, at |-> at, ids |-> ids]
           a == Advance(at, r.event)
           One(x1, x2, x3, x4, x5) == [ok : {x1}, prev : {x2}, next : {x3}, at : {x4}, ids : {x5}]
<1>1. v \in One(TRUE, prev, next, at, ids) /\ v.at = at
  OBVIOUS
<1>2. Step(v, r) = [v EXCEPT !.prev = r.hash, !.next = @ + 1, !.at = a, !.ids = @ \cup {r.event.id}]
  BY <1>1 DEF Step
<1> HIDE DEF a, v
<1>3. [v EXCEPT !.prev = r.hash, !.next = @ + 1, !.at = a, !.ids = @ \cup {r.event.id}]
        \in One(TRUE, r.hash, next + 1, a, ids \cup {r.event.id})
  BY <1>1
<1>4. \A u, x1, x2, x3, x4, x5 : u \in One(x1, x2, x3, x4, x5)
         => u = [ok |-> x1, prev |-> x2, next |-> x3, at |-> x4, ids |-> x5]
  OBVIOUS
<1> QED BY <1>2, <1>3, <1>4 DEF a, v

\* Nothing that verify_projected_records asks of them fails, and it follows
\* the revisions that verify_stream followed.
LEMMA ExportLoop ==
  ASSUME JournalAssumption, Keyed, NEW t \in Tasks, NEW q, NEW m, Accepted(t, q, m), NEW key
  PROVE  LET out == ProjectAll(key, q)
         IN \A k \in 0..m : ProjectedLoop(key, out)[k] =
              [ok |-> TRUE, prev |-> IF k = 0 THEN None ELSE out[k].hash, next |-> k + 1,
               at |-> StreamLoop(t, q)[k].at, ids |-> {out[j].event.id : j \in 1..k}]
<1> DEFINE out == ProjectAll(key, q)
           w == ProjectedLoop(key, out)
           v == StreamLoop(t, q)
           Before_(k) == IF k = 0 THEN None ELSE out[k].hash
           Ids_(k) == {out[j].event.id : j \in 1..k}
           Seen(k) == [ok |-> TRUE, prev |-> Before_(k), next |-> k + 1, at |-> v[k].at, ids |-> Ids_(k)]
           T == {k \in Nat : k \in 0..m => w[k] = Seen(k)}
<1>1. /\ m \in Nat /\ Len(q) = m /\ v[0] = Begun /\ Numbered(Stream(t), q, m)
      /\ \A j \in 1..m : /\ q[j] \in Rows /\ q[j] \in Stream(t) /\ q[j].seq = j
                         /\ Passes(t, v[j - 1], q[j]) /\ v[j].at = Advance(v[j - 1].at, q[j].event)
  BY DEF Accepted, Numbered
<1>2. /\ DOMAIN out = 1..m /\ Len(out) = m
      /\ \A i \in 1..m : /\ out[i].bundle = key /\ out[i].seq = i
                         /\ out[i].prev = (IF i = 1 THEN None ELSE out[i - 1].hash)
                         /\ out[i].event = Project(key, q[i].event)
                         /\ out[i].hash = HashProjected(key, i, out[i].prev, out[i].event)
  BY <1>1, ExportRecords
<1>3. w[0] = Begun /\ \A i \in 1..m : w[i] = ProjectedStep(key, w[i - 1], out[i])
  <2>1. Len(out) \in Nat
    BY <1>1, <1>2
  <2> HIDE DEF out
  <2> QED BY <1>2, <2>1, ProjectedLoopRuns
<1> HIDE DEF out, w, v
<1>4. ASSUME NEW j \in 1..m
      PROVE  /\ q[j].event \in Events /\ q[j].index = IndexOf(q[j].event)
             /\ out[j].event.id = Alias(key, "event", q[j].event.id)
  <2>1. q[j].event \in Events /\ q[j].index = IndexOf(q[j].event)
    BY <1>1 DEF Rows, Passes
  <2>2. out[j].event = Project(key, q[j].event)
    BY <1>2
  <2> QED BY <2>1, <2>2, ProjectionFacts
<1>5. ASSUME NEW i \in 1..m, NEW j \in 1..m, out[i].event.id = out[j].event.id PROVE i = j
  <2>1. q[i].event.id = q[j].event.id
    BY <1>4, <1>5, AliasesDiffer
  <2>2. q[i].index.id = q[i].event.id /\ q[j].index.id = q[j].event.id
    <3>1. ASSUME NEW e PROVE IndexOf(e).id = e.id
      BY DEF IndexOf
    <3> QED BY <1>4, <3>1
  <2>3. q[i] \in rows /\ q[j] \in rows /\ q[i].seq = i /\ q[j].seq = j
    BY <1>1 DEF Stream
  <2>4. q[i] = q[j]
    BY <2>1, <2>2, <2>3 DEF Keyed
  <2> QED BY <2>3, <2>4
<1>6. 0 \in T
  <2>1. Ids_(0) = {}
    OBVIOUS
  <2>2. v[0].at = NoPoint
    BY <1>1, BegunType
  <2>3. w[0] = Seen(0)
    <3>1. w[0] = [ok |-> TRUE, prev |-> None, next |-> 1, at |-> NoPoint, ids |-> {}]
      BY <1>3 DEF Begun
    <3>2. Before_(0) = None /\ 0 + 1 = 1
      OBVIOUS
    <3> HIDE DEF T, Before_, Ids_
    <3> QED BY <2>1, <2>2, <3>1, <3>2
  <2> QED BY <2>3
<1>7. ASSUME NEW k \in T PROVE k + 1 \in T
  <2> SUFFICES ASSUME k + 1 \in 0..m PROVE w[k + 1] = Seen(k + 1)
    <3> HIDE DEF Seen
    <3> QED OBVIOUS
  <2>1. k \in Nat /\ k \in 0..m /\ k + 1 \in 1..m /\ (k + 1) - 1 = k /\ (k + 1 = 1 <=> k = 0)
    BY <1>1
  <2> DEFINE r == out[k + 1]
             e == q[k + 1].event
             at == v[k].at
  <2>2. /\ w[k].ok = TRUE /\ w[k].prev = Before_(k) /\ w[k].next = k + 1 /\ w[k].at = at /\ w[k].ids = Ids_(k)
    <3>1. w[k] = Seen(k)
      BY <2>1
    <3> HIDE DEF T, Before_, Ids_
    <3> QED BY ONLY <3>1
  <2>3. /\ r.bundle = key /\ r.seq = k + 1 /\ r.prev = Before_(k) /\ r.event = Project(key, e)
        /\ r.hash = HashProjected(key, k + 1, r.prev, r.event)
    BY <1>2, <2>1
  <2>4. e \in Events /\ Passes(t, v[k], q[k + 1]) /\ q[k + 1].seq = k + 1 /\ v[k + 1].at = Advance(at, e)
    BY <1>1, <1>4, <2>1
  <2>5. ValidAt(k + 1, e) /\ Advance(at, e) # NoPoint
    BY <2>4 DEF Passes, VerifyOne
  <2>6. /\ ValidProjected(r.event) /\ OneNamespace(r.event)
        /\ Advance(at, r.event) = Advance(at, e) /\ ValidAt(k + 1, r.event)
    BY <2>3, <2>4, <2>5, ProjectionFacts
  <2>7. r.event.id \notin Ids_(k)
    <3> SUFFICES ASSUME NEW j \in 1..k, r.event.id = out[j].event.id PROVE FALSE
      OBVIOUS
    <3>1. j \in 1..m /\ j # k + 1
      BY <1>1, <2>1
    <3> QED BY <1>5, <2>1, <3>1
  <2>8. w[k + 1] = ProjectedStep(key, w[k], r)
    BY <1>3, <2>1
  <2>9. Ids_(k + 1) = Ids_(k) \cup {r.event.id} /\ Before_(k + 1) = r.hash
    <3>1. \A j : j \in 1..(k + 1) <=> j \in 1..k \/ j = k + 1
      BY <2>1
    <3>2. k + 1 # 0
      BY <2>1
    <3> QED BY <3>1, <3>2
  <2>10. w[k] = Seen(k)
    BY <2>1
  <2> HIDE DEF r, e, at, Before_, Ids_, T
  <2>11. ProjectedOne(key, w[k], r)
    BY <2>2, <2>3, <2>6, <2>7 DEF ProjectedOne
  <2>12. w[k + 1] = Step(w[k], r)
    BY <2>2, <2>5, <2>6, <2>8, <2>11 DEF ProjectedStep
  <2>13. Step(Seen(k), r) = [ok |-> TRUE, prev |-> r.hash, next |-> (k + 1) + 1, at |-> Advance(v[k].at, r.event),
                             ids |-> Ids_(k) \cup {r.event.id}]
    BY ONLY StepOf
  <2>14. v[k + 1].at = Advance(v[k].at, r.event)
    BY <2>4, <2>6 DEF at
  <2> QED BY <2>9, <2>10, <2>12, <2>13, <2>14
<1>8. T = Nat
  <2>1. T \in SUBSET Nat
    OBVIOUS
  <2> HIDE DEF T
  <2> QED BY <1>6, <1>7, <2>1, SetInduction
<1>9. \A k \in 0..m : w[k] = Seen(k)
  <2> TAKE k \in 0..m
  <2>1. k \in T
    <3>1. k \in Nat
      BY <1>1
    <3> HIDE DEF T
    <3> QED BY <1>8, <3>1
  <2> HIDE DEF Seen
  <2> QED BY <2>1
<1> QED BY <1>9 DEF w, out, v

\* The record of these fields, and no other.
Only(ok, prev, next, at, ids) == [ok : {ok}, prev : {prev}, next : {next}, at : {at}, ids : {ids}]
HasShape(v) == v \in Only(v.ok, v.prev, v.next, v.at, v.ids)

\* A record that passes continues the numbers; one that does not ends the loop.
LEMMA ProjectedStepFacts ==
  ASSUME NEW key, NEW v, NEW r, HasShape(v)
  PROVE  LET u == ProjectedStep(key, v, r)
         IN HasShape(u) /\ (u.ok => v.ok /\ r.seq = v.next /\ u.next = v.next + 1)
<1> DEFINE u == ProjectedStep(key, v, r)
           go == v.ok /\ ProjectedOne(key, v, r) /\ Advance(v.at, r.event) # NoPoint
<1>1. u = IF go THEN Step(v, r) ELSE Bad(v)
  BY DEF ProjectedStep
<1>2. Step(v, r) \in Only(v.ok, r.hash, v.next + 1, Advance(v.at, r.event), v.ids \cup {r.event.id})
  <2> DEFINE a == Advance(v.at, r.event)
  <2>1. Step(v, r) = [v EXCEPT !.prev = r.hash, !.next = @ + 1, !.at = a, !.ids = @ \cup {r.event.id}]
    BY DEF Step
  <2> HIDE DEF a
  <2>2. [v EXCEPT !.prev = r.hash, !.next = @ + 1, !.at = a, !.ids = @ \cup {r.event.id}]
          \in Only(v.ok, r.hash, v.next + 1, a, v.ids \cup {r.event.id})
    BY DEF HasShape, Only
  <2> QED BY <2>1, <2>2 DEF a
<1>3. Bad(v) \in Only(FALSE, v.prev, v.next, v.at, v.ids)
  BY DEF Bad, HasShape, Only
<1> HIDE DEF u, go
<1>4. ASSUME NEW w, NEW ok, NEW prev, NEW next, NEW at, NEW ids, w \in Only(ok, prev, next, at, ids)
      PROVE  HasShape(w) /\ w.ok = ok /\ w.next = next
  BY <1>4 DEF Only, HasShape
<1>5. CASE go
  <2>1. HasShape(u) /\ u.next = v.next + 1
    BY <1>1, <1>2, <1>4, <1>5
  <2> QED BY <1>5, <2>1 DEF go, u, ProjectedOne
<1>6. CASE ~go
  <2>1. HasShape(u) /\ u.ok = FALSE
    BY <1>1, <1>3, <1>4, <1>6
  <2> QED BY <2>1 DEF u
<1> QED BY <1>5, <1>6

\* Records that verify are numbered from 1 on.
LEMMA ProjectedSaw ==
  ASSUME NEW key, NEW records, Len(records) \in Nat, ProjectedLoop(key, records)[Len(records)].ok
  PROVE  \A j \in 1..Len(records) : records[j].seq = j
<1> DEFINE m == Len(records)
           v == ProjectedLoop(key, records)
           Numbers(k) == v[k].next = k + 1 /\ \A j \in 1..k : records[j].seq = j
           T == {k \in Nat : k \in 0..m => HasShape(v[k]) /\ (v[k].ok => Numbers(k))}
<1>1. v[0] = Begun /\ \A i \in 1..m : v[i] = ProjectedStep(key, v[i - 1], records[i])
  BY ProjectedLoopRuns
<1> HIDE DEF v, m
<1>2. m \in Nat
  BY DEF m
<1>3. 0 \in T
  <2>1. HasShape(Begun) /\ Begun.next = 1
    BY DEF Begun, HasShape, Only
  <2> QED BY <1>1, <2>1
<1>4. ASSUME NEW k \in T PROVE k + 1 \in T
  <2> SUFFICES ASSUME k + 1 \in 0..m PROVE HasShape(v[k + 1]) /\ (v[k + 1].ok => Numbers(k + 1))
    <3> HIDE DEF Numbers
    <3> QED OBVIOUS
  <2>1. k \in Nat /\ k \in 0..m /\ k + 1 \in 1..m /\ (k + 1) - 1 = k
    BY <1>2
  <2>2. HasShape(v[k]) /\ (v[k].ok => Numbers(k)) /\ v[k + 1] = ProjectedStep(key, v[k], records[k + 1])
    BY <1>1, <2>1
  <2> DEFINE x == v[k]
             y == v[k + 1]
             r == records[k + 1]
  <2>3. HasShape(y) /\ (y.ok => x.ok /\ r.seq = x.next /\ y.next = x.next + 1)
    <3>1. HasShape(x) /\ y = ProjectedStep(key, x, r)
      BY <2>2
    <3> HIDE DEF x, y, r, T
    <3> QED BY <3>1, ProjectedStepFacts
  <2>4. ASSUME y.ok PROVE Numbers(k + 1)
    <3>1. Numbers(k) /\ r.seq = k + 1 /\ y.next = (k + 1) + 1
      BY <2>2, <2>3, <2>4
    <3>2. \A j \in 1..(k + 1) : j \in 1..k \/ j = k + 1
      BY <2>1
    <3> QED BY <3>1, <3>2
  <2> QED BY <2>3, <2>4
<1>5. T = Nat
  <2>1. T \in SUBSET Nat
    OBVIOUS
  <2> HIDE DEF T
  <2> QED BY <1>3, <1>4, <2>1, SetInduction
<1>6. v[m].ok => Numbers(m)
  <2>1. m \in T /\ m \in 0..m
    <3> HIDE DEF T
    <3> QED BY <1>2, <1>5
  <2> QED BY <2>1
<1> QED BY <1>6 DEF v, m

\* What ExportsVerify says of a bundle.
Complete(b) ==
  b.records # <<>> =>
    /\ Len(b.records) = b.source /\ VerifyExport(b, b.records)
    /\ ProjectedLoop(b.key, b.records)[b.source].at = b.at
Lost(s, i) == [k \in 1..(Len(s) - 1) |-> s[IF k < i THEN k ELSE k + 1]]
Exchanged(s, i, j) == [s EXCEPT ![i] = s[j], ![j] = s[i]]
Pins(b) ==
  \A i, j \in DOMAIN b.records :
    ~VerifyExport(b, Lost(b.records, i)) /\ (i # j => ~VerifyExport(b, Exchanged(b.records, i, j)))

\* The property before and after a step, as one of the bundle.
LEMMA ExportsAreBundles ==
  /\ ExportsVerify <=> Complete(bundle) /\ Pins(bundle)
  /\ ExportsVerify' <=> Complete(bundle') /\ Pins(bundle')
<1>1. ExportsVerify <=> Complete(bundle) /\ Pins(bundle)
  BY DEF ExportsVerify, ExportIsComplete, ExportPinsRecords, Complete, Pins, Lost, Exchanged
<1>2. ExportsVerify' <=> Complete(bundle') /\ Pins(bundle')
  BY DEF ExportsVerify, ExportIsComplete, ExportPinsRecords, Complete, Pins, Lost, Exchanged, VerifyExport
<1> QED BY <1>1, <1>2

\* The manifest counts the records and the chain orders them.
LEMMA ExportPins ==
  ASSUME NEW b, NEW m \in Nat \ {0}, b.records = [i \in 1..m |-> b.records[i]], b.count = m,
         \A i \in 1..m : b.records[i].seq = i
  PROVE  Pins(b)
<1> DEFINE s == b.records
           X == {s[i] : i \in 1..m}
<1>1. s \in [1..m -> X] /\ DOMAIN s = 1..m
  OBVIOUS
<1>2. s \in Seq(X) /\ Len(s) = m
  BY <1>1, FcnIsSeq
<1> SUFFICES ASSUME NEW i \in 1..m, NEW j \in 1..m
             PROVE  ~VerifyExport(b, Lost(s, i)) /\ (i # j => ~VerifyExport(b, Exchanged(s, i, j)))
  BY <1>1 DEF Pins
<1>3. ~VerifyExport(b, Lost(s, i))
  <2>1. Len(Lost(s, i)) = m - 1
    BY <1>2 DEF Lost
  <2>2. m - 1 # m
    OBVIOUS
  <2> QED BY <2>1, <2>2 DEF VerifyExport
<1>4. ASSUME i # j, VerifyExport(b, Exchanged(s, i, j)) PROVE FALSE
  <2> DEFINE x == Exchanged(s, i, j)
  <2>1. x \in [1..m -> X] /\ x[i] = s[j]
    BY <1>1, <1>4 DEF Exchanged
  <2> HIDE DEF x
  <2>2. Len(x) = m
    BY <2>1, FcnIsSeq
  <2>3. ProjectedLoop(b.key, x)[Len(x)].ok
    BY <1>4 DEF VerifyExport, x
  <2>4. x[i].seq = i
    BY <2>2, <2>3, ProjectedSaw
  <2> QED BY <1>4, <2>1, <2>4
<1> QED BY <1>3, <1>4

\* What export_jsonl_with_validation writes is the stream, and verifies.
LEMMA ExportSound ==
  ASSUME JournalAssumption, Keyed, NEW t \in Tasks, ExportJsonl(t)
  PROVE  Complete(bundle') /\ Pins(bundle')
<1> DEFINE q == Ordered(t)
           m == Cardinality(Stream(t))
           key == 1 - bundle.key
           out == ProjectAll(key, q)
           b == bundle'
<1>1. VerifyStream(t, 0, None) /\ taskRow[t] = Latest(t)
  BY DEF ExportJsonl, ExportAdmits
<1>2. Accepted(t, q, m)
  BY <1>1, StreamAccepted
<1>3. /\ m \in Nat \ {0} /\ Numbered(Stream(t), q, m) /\ Len(q) = m
      /\ \A j \in 1..m : q[j].event \in Events /\ q[j].event.task = t
  BY <1>2 DEF Accepted, Numbered, Rows, Passes, VerifyOne
<1>4. Paged(t) = q
  <2> HIDE DEF q
  <2> QED BY <1>3, PagedReadsAll
<1>5. b = [key |-> key, records |-> out, count |-> Len(out), head |-> out[Len(out)].seq,
           headHash |-> out[Len(out)].hash, at |-> taskRow[t], source |-> m]
  BY <1>4 DEF ExportJsonl
<1>6. /\ DOMAIN out = 1..m /\ Len(out) = m
      /\ \A i \in 1..m : /\ out[i].bundle = key /\ out[i].seq = i
                         /\ out[i].prev = (IF i = 1 THEN None ELSE out[i - 1].hash)
                         /\ out[i].event = Project(key, q[i].event)
                         /\ out[i].hash = HashProjected(key, i, out[i].prev, out[i].event)
  <2> HIDE DEF q, m, key
  <2> QED BY <1>3, ExportRecords
<1>7. out = [i \in 1..m |-> out[i]]
  <2> DEFINE k == key
  <2> HIDE DEF q, m, k
  <2>1. ProjectAll(k, q) = [i \in 1..Len(q) |-> ProjectStep(k, IF i = 1 THEN None ELSE ProjectAll(k, q)[i - 1].hash, q[i])]
    BY <1>3, ProjectRuns
  <2> QED BY <1>3, <2>1 DEF k
<1> DEFINE last == ProjectedLoop(key, out)[m]
<1>8. last.ok /\ last.prev = out[m].hash /\ last.at = taskRow[t]
  <2> DEFINE old == StreamLoop(t, q)[m].at
             hash == IF m = 0 THEN None ELSE out[m].hash
             ids == {out[j].event.id : j \in 1..m}
  <2>1. m \in 0..m /\ hash = out[m].hash
    BY <1>3
  <2>2. old = taskRow[t]
    <3> HIDE DEF q, m
    <3> QED BY <1>1, <1>2, AcceptedLatest
  <2>3. last = [ok |-> TRUE, prev |-> hash, next |-> m + 1, at |-> old, ids |-> ids]
    <3> HIDE DEF q, m, key
    <3> QED BY <1>2, <2>1, ExportLoop
  <2> HIDE DEF old, hash, ids, last
  <2>4. last.ok = TRUE /\ last.prev = hash /\ last.at = old
    BY <2>3
  <2> QED BY <2>1, <2>2, <2>4
<1>9. \A i \in 1..m : out[i].event.task = Alias(key, "task", t)
  <2> TAKE i \in 1..m
  <2>1. q[i].event \in Events /\ q[i].event.task = t
    BY <1>3
  <2>2. Project(key, q[i].event).task = Alias(key, "task", q[i].event.task)
    <3> DEFINE e == q[i].event
    <3> HIDE DEF e, key
    <3>1. e \in Events
      BY <2>1 DEF e
    <3>2. Project(key, e).task = Alias(key, "task", e.task)
      BY <3>1, ProjectionFacts
    <3> QED BY <3>2 DEF e
  <2> QED BY <1>6, <2>1, <2>2
<1> HIDE DEF q, m, key, out, last, b
<1>10. /\ b.key = key /\ b.records = out /\ b.count = m /\ b.head = m /\ b.headHash = out[m].hash
       /\ b.at = taskRow[t] /\ b.source = m
  <2>1. Len(out) = m /\ out[m].seq = m
    BY <1>3, <1>6
  <2> QED BY <1>5, <2>1
<1>11. out # <<>>
  BY <1>3, <1>6
<1>12. VerifyExport(b, out)
  BY <1>3, <1>6, <1>8, <1>9, <1>10, <1>11 DEF VerifyExport, last
<1>13. Complete(b)
  BY <1>6, <1>8, <1>10, <1>12 DEF Complete, last
<1>14. Pins(b)
  BY <1>3, <1>6, <1>7, <1>10, ExportPins
<1> QED BY <1>13, <1>14 DEF b

\* No step but an export writes a bundle.
LEMMA ExportStep ==
  ASSUME JournalAssumption, Keyed, ExportsVerify, [Next]_vars PROVE ExportsVerify'
<1>1. CASE UNCHANGED bundle
  BY <1>1, ExportsAreBundles
<1>2. CASE \E t \in Tasks : ExportJsonl(t)
  BY <1>2, ExportSound, ExportsAreBundles
<1>3. UNCHANGED bundle \/ \E t \in Tasks : ExportJsonl(t)
  BY DEF Next, vars, AppendInTx, TakeCheckpoint, ChangeEvent, ChangeIndex, LoseRow, LoseTail, Hurt
<1> QED BY <1>1, <1>2, <1>3

-----------------------------------------------------------------------------
\* The keys of the table hold whatever was damaged, the checkpoint's hash says
\* what it was taken of, and undamaged streams are those the loop of
\* verify_stream ends well with.
THEOREM JournalInvariant ==
  ASSUME JournalAssumption PROVE Spec => []JournalInv
<1>1. Init => JournalInv
  BY InitInv
<1>2. JournalInv /\ [Next]_vars => JournalInv'
  BY KeyedStep, PinnedStep, SoundStep DEF JournalInv
<1> QED BY <1>1, <1>2, PTL DEF Spec

\* Damage of the rows does not go unnoticed: a checkpoint accepts no other
\* history, verify_records accepts what verify_stream does, and a stream that
\* does not verify was damaged, for streams of any length.
THEOREM DamageStaysFound ==
  ASSUME JournalAssumption PROVE Spec => []DamageIsFound
<1>1. JournalInv => DamageIsFound
  BY PinnedPins, KeyedAgree, SoundVerifies DEF JournalInv, DamageIsFound
<1> QED BY <1>1, JournalInvariant, PTL

\* While nothing is damaged every step of the journal is one of the
\* append-only log or leaves it: append_in_tx implements EventLog.
THEOREM JournalImplementsLog ==
  ASSUME JournalAssumption PROVE Spec => JournalIsLog
<1>1. Init => Log!Init
  BY InitLog
<1>2. JournalInv /\ [Next]_vars => [damage' = 0 => UNCHANGED LogOf \/ Log!Next]_vars
  BY LogStep DEF JournalInv
<1> QED BY <1>1, <1>2, JournalInvariant, PTL DEF Spec, JournalIsLog

\* A journal that nothing damages refines the log as a whole.
THEOREM JournalRefinesLog ==
  ASSUME JournalAssumption, MaxDamage = 0 PROVE Spec => Log!Spec
<1> DEFINE Whole == damage = 0
<1>1. Init => Log!Init /\ Whole
  BY InitLog DEF Init
<1>2. JournalInv /\ Whole /\ [Next]_vars => Whole'
  <2> SUFFICES ASSUME Whole, [Next]_vars PROVE Whole'
    OBVIOUS
  <2>1. CASE Outside
    BY <2>1 DEF Outside, ChangeEvent, ChangeIndex, LoseRow, LoseTail, Hurt
  <2>2. CASE \E t \in Tasks, e \in Events, x \in {"any", "empty", "exact"} : AppendInTx(t, e, x)
    BY <2>2 DEF AppendInTx
  <2>3. CASE \E t \in Tasks : TakeCheckpoint(t) \/ ExportJsonl(t)
    BY <2>3 DEF TakeCheckpoint, ExportJsonl
  <2>4. CASE UNCHANGED vars
    BY <2>4 DEF vars
  <2> QED BY <2>1, <2>2, <2>3, <2>4 DEF Next, Outside
<1>3. JournalInv /\ Whole' /\ [Next]_vars => [Log!Next]_LogOf
  BY LogStep DEF JournalInv
<1> HIDE DEF Whole
<1> QED BY <1>1, <1>2, <1>3, JournalInvariant, PTL DEF Spec, Log!Spec

\* An export of a stream of any length, read in pages of any size, is the
\* whole stream of its snapshot, passes verify_projected_records and ends at
\* the Task's row; the same manifest refuses it with a record lost or two of
\* them exchanged.
THEOREM ExportsStayVerified ==
  ASSUME JournalAssumption PROVE Spec => []ExportsVerify
<1>1. Init => ExportsVerify
  BY DEF Init, ExportsVerify, ExportIsComplete, ExportPinsRecords
<1>2. JournalInv /\ ExportsVerify /\ [Next]_vars => ExportsVerify'
  BY ExportStep DEF JournalInv
<1> QED BY <1>1, <1>2, JournalInvariant, PTL DEF Spec

=============================================================================

---------------------- MODULE TransitionProtocolProofs ----------------------
(***************************************************************************)
(* Proofs about TransitionProtocol for any Tasks, callers, ids, requests   *)
(* and number of crashes.                                                  *)
(*                                                                         *)
(* The properties are not inductive by themselves: that a caller was told  *)
(* the truth rests on every answer in flight being a stored receipt (or an *)
(* id clash with one), and that rests on receipts and journal growing      *)
(* together.  IInv names those parts.  Every action reaches the store in   *)
(* one of three ways, Commit, PersistRejection or CreateTask, so the store *)
(* parts are proved once per way and the actions cite them.                *)
(***************************************************************************)
EXTENDS TransitionProtocol, SequenceTheorems, TLAPS

-----------------------------------------------------------------------------
(* The inductive invariant. *)

\* The first event of a Task is its creation, under an id no request has.
FirstIsCreation ==
  \A t \in Tasks : journal[t] # <<>> => journal[t][1].id = <<"created", t, 0>>

\* An id is decided once.
ReceiptsFunctional ==
  \A r, s \in receipts : r.request.id = s.request.id => r = s

\* A committed receipt names its event.
AppliedInJournal ==
  \A r \in receipts : Applied(r) =>
    /\ r.rev = r.request.rev + 1
    /\ r.rev \in 2..Len(journal[r.request.task])
    /\ journal[r.request.task][r.rev] =
         Event(r.request.id, r.request.from, r.request.to)

\* An event after the first has its receipt.
JournalHasReceipt ==
  \A t \in Tasks : \A n \in 2..Len(journal[t]) :
    \E r \in receipts :
      /\ Applied(r)
      /\ r.request.task = t
      /\ r.rev = n
      /\ r.request.id = journal[t][n].id

\* An answer is one of the receipts R, or reports the clash with one.
Backed(a, R) ==
  \/ a \in R /\ a.code # "TASK_TRANSITION_ID_REUSE_CONFLICT"
  \/ /\ a.code = "TASK_TRANSITION_ID_REUSE_CONFLICT"
     /\ \E r \in R : r.request.id = a.request.id /\ r.request # a.request

AnswersBacked ==
  /\ \A a \in told : Backed(a, receipts)
  /\ \A c \in Clients : reply[c] # None => Backed(reply[c], receipts)
  /\ \A r \in receipts : r.code # "TASK_TRANSITION_ID_REUSE_CONFLICT"

\* Startup still has work only while it runs, and only on executing Tasks.
TodoExecuting ==
  \A t \in todo : mgr = "STARTING" /\ state[t] \in Executing

StoreType ==
  /\ state \in [Tasks -> TaskState \cup {Absent}]
  /\ revision \in [Tasks -> Nat]
  /\ journal \in [Tasks -> Seq(EventType)]
  /\ receipts \subseteq AnswerType

StoreInv ==
  /\ StoreType
  /\ HeadIsLastEvent
  /\ FirstIsCreation
  /\ ReceiptsFunctional
  /\ AppliedInJournal
  /\ JournalHasReceipt

IInv == TypeOK /\ StoreInv /\ AnswersBacked /\ TodoExecuting

-----------------------------------------------------------------------------
(* Requests and ids. *)

\* A caller's request is well formed, under an id of the caller's namespace.
LEMMA ClientRequests == Requests \subseteq RequestType
BY RequestsAssumption DEF RequestType, AnyId, ClientId

\* The manager's own requests are well formed.
LEMMA RecoveryRequests ==
  ASSUME StoreType, NEW t \in Tasks, state[t] \in TaskState,
         NEW id \in {LiveId(t, revision[t]), StartupId(t, revision[t])}
  PROVE  /\ RecoveryRequest(t, id) \in RequestType
         /\ RecoveryRequest(t, id).id = id
         /\ RecoveryRequest(t, id).task = t
         /\ RecoveryRequest(t, id).rev = revision[t]
BY DEF StoreType, RecoveryRequest, RequestType, AnyId, LiveId, StartupId, TaskState

\* No request has the id of a creation event.
LEMMA CreationIdsApart == ASSUME NEW id \in AnyId, NEW t PROVE id # <<"created", t, 0>>
BY DEF AnyId

-----------------------------------------------------------------------------
(* The three ways to change the store. *)

\* A new receipt under a fresh id keeps ids decided once.
LEMMA FreshReceipt ==
  ASSUME ReceiptsFunctional, NEW a, ~Known(a.request.id),
         receipts' = receipts \cup {a}
  PROVE  ReceiptsFunctional'
BY DEF ReceiptsFunctional, Known

\* Committing a request that passed the compare-and-set keeps Task row,
\* journal and receipts in step.
LEMMA CommitKeepsStore ==
  ASSUME StoreInv, NEW q \in RequestType, ~Known(q.id),
         state[q.task] # Absent, q.rev = revision[q.task], Commit(q)
  PROVE  StoreInv'
<1> DEFINE t == q.task
           e == Event(q.id, q.from, q.to)
           r == Answer(q, "TASK_TRANSITION_APPLIED", revision[t] + 1)
<1>1. /\ t = q.task /\ t \in Tasks /\ q.from \in TaskState /\ q.to \in TaskState /\ q.id \in AnyId
      /\ q.rev \in Nat
  BY DEF RequestType
<1>2. /\ journal[t] \in Seq(EventType)
      /\ e \in EventType
      /\ e = Event(q.id, q.from, q.to) /\ e.id = q.id /\ e.to = q.to
  BY <1>1 DEF StoreInv, StoreType, EventType, Event
<1>3. /\ journal'[t] = Append(journal[t], e)
      /\ Len(journal'[t]) = Len(journal[t]) + 1
      /\ journal'[t][Len(journal[t]) + 1] = e
      /\ \A n \in 1..Len(journal[t]) : journal'[t][n] = journal[t][n]
      /\ Append(journal[t], e) \in Seq(EventType)
      /\ Len(journal[t]) \in Nat
  <2>1. journal'[t] = Append(journal[t], e)
    BY <1>1 DEF Commit, StoreInv, StoreType
  <2> QED BY <2>1, <1>2, AppendProperties, LenProperties
<1>4. \A u \in Tasks : u # t => /\ journal'[u] = journal[u]
                               /\ state'[u] = state[u]
                               /\ revision'[u] = revision[u]
  BY <1>1 DEF Commit, StoreInv, StoreType
<1>5. state'[t] = q.to /\ revision'[t] = revision[t] + 1
  BY <1>1 DEF Commit, StoreInv, StoreType
<1>6. /\ receipts' = receipts \cup {r}
      /\ r \in AnswerType
      /\ r.request = q /\ r.rev = revision[t] + 1 /\ Applied(r)
  BY <1>1 DEF Commit, Answer, AnswerType, Code, Applied, StoreInv, StoreType
<1>7. Len(journal[t]) = revision[t] /\ journal[t] # <<>> /\ Len(journal[t]) >= 1
  BY <1>1, <1>2, <1>3, EmptySeq DEF StoreInv, HeadIsLastEvent
<1> HIDE DEF t, e, r
<1>8. StoreType'
  <2>1. journal' \in [Tasks -> Seq(EventType)]
    BY <1>1, <1>3, <1>4 DEF Commit, StoreInv, StoreType
  <2> QED BY <2>1, <1>1, <1>6 DEF Commit, StoreInv, StoreType
<1>9. HeadIsLastEvent'
  BY <1>1, <1>2, <1>3, <1>4, <1>5, <1>7 DEF StoreInv, HeadIsLastEvent
<1>10. FirstIsCreation'
  <2>1. journal'[t][1] = journal[t][1]
    BY <1>3, <1>7
  <2> QED BY <2>1, <1>4, <1>7 DEF StoreInv, FirstIsCreation
<1>11. ReceiptsFunctional'
  BY <1>6, FreshReceipt DEF StoreInv
<1>12. AppliedInJournal'
  <2> SUFFICES ASSUME NEW s \in receipts', Applied(s)
               PROVE  /\ s.rev = s.request.rev + 1
                      /\ s.rev \in 2..Len(journal'[s.request.task])
                      /\ journal'[s.request.task][s.rev] =
                           Event(s.request.id, s.request.from, s.request.to)
    BY DEF AppliedInJournal
  <2>1. CASE s = r
    BY <2>1, <1>1, <1>2, <1>3, <1>6, <1>7
  <2>2. CASE s \in receipts
    <3>1. s.request.task \in Tasks
      BY <2>2 DEF StoreInv, StoreType, AnswerType, RequestType
    <3>2. /\ s.rev = s.request.rev + 1
          /\ s.rev \in 2..Len(journal[s.request.task])
          /\ journal[s.request.task][s.rev] =
               Event(s.request.id, s.request.from, s.request.to)
      BY <2>2 DEF StoreInv, AppliedInJournal
    <3> QED BY <3>1, <3>2, <1>3, <1>4
  <2> QED BY <2>1, <2>2, <1>6
<1>13. JournalHasReceipt'
  <2> SUFFICES ASSUME NEW u \in Tasks, NEW n \in 2..Len(journal'[u])
               PROVE  \E s \in receipts' :
                        /\ Applied(s)
                        /\ s.request.task = u
                        /\ s.rev = n
                        /\ s.request.id = journal'[u][n].id
    BY DEF JournalHasReceipt, Applied
  <2>1. CASE u = t /\ n = Len(journal[t]) + 1
    BY <2>1, <1>1, <1>2, <1>3, <1>6, <1>7
  <2>2. CASE ~(u = t /\ n = Len(journal[t]) + 1)
    <3>1. n \in 2..Len(journal[u]) /\ journal'[u][n] = journal[u][n]
      BY <2>2, <1>3, <1>4
    <3> QED BY <3>1, <1>6 DEF StoreInv, JournalHasReceipt
  <2> QED BY <2>1, <2>2
<1> QED BY <1>8, <1>9, <1>10, <1>11, <1>12, <1>13 DEF StoreInv

\* Storing a refusal changes the receipts only.
LEMMA RejectionKeepsStore ==
  ASSUME StoreInv, NEW q \in RequestType, ~Known(q.id),
         NEW code \in Code \ {"TASK_TRANSITION_APPLIED"}, PersistRejection(q, code)
  PROVE  StoreInv'
<1> DEFINE r == Answer(q, code, revision[q.task])
<1>1. /\ receipts' = receipts \cup {r}
      /\ state' = state /\ revision' = revision /\ journal' = journal
  BY DEF PersistRejection
<1>2. r \in AnswerType /\ r.request = q /\ ~Applied(r)
  BY DEF Answer, AnswerType, Applied, RequestType, StoreInv, StoreType
<1> HIDE DEF r
<1>3. ReceiptsFunctional'
  BY <1>1, <1>2, FreshReceipt DEF StoreInv
<1>4. StoreType' /\ HeadIsLastEvent' /\ FirstIsCreation'
  BY <1>1, <1>2 DEF StoreInv, StoreType, HeadIsLastEvent, FirstIsCreation
<1>5. AppliedInJournal'
  BY <1>1, <1>2 DEF StoreInv, AppliedInJournal
<1>6. JournalHasReceipt'
  BY <1>1 DEF StoreInv, JournalHasReceipt
<1> QED BY <1>3, <1>4, <1>5, <1>6 DEF StoreInv

\* Creating a Task starts its journal.
LEMMA CreationKeepsStore ==
  ASSUME StoreInv, NEW t \in Tasks, CreateTask(t)
  PROVE  StoreInv'
<1> DEFINE e == Event(<<"created", t, 0>>, Absent, "CREATED")
<1>1. /\ state[t] = Absent
      /\ state' = [state EXCEPT ![t] = "CREATED"]
      /\ revision' = [revision EXCEPT ![t] = 1]
      /\ journal' = [journal EXCEPT ![t] = <<e>>]
      /\ receipts' = receipts
  BY DEF CreateTask
<1>2. e \in EventType /\ e.id = <<"created", t, 0>> /\ e.to = "CREATED"
  BY DEF Event, EventType, TaskState
<1>3. journal[t] = <<>>
  <2> SUFFICES ASSUME journal[t] # <<>> PROVE FALSE
    OBVIOUS
  <2>1. journal[t] \in Seq(EventType) /\ Len(journal[t]) \in 1..Len(journal[t])
    BY EmptySeq, LenProperties DEF StoreInv, StoreType
  <2>2. journal[t][Len(journal[t])].to \in TaskState
    <3>1. journal[t][Len(journal[t])] \in EventType
      BY <2>1, ElementOfSeq
    <3> QED BY <3>1 DEF EventType
  <2> QED BY <2>2, <1>1 DEF StoreInv, HeadIsLastEvent, Absent, TaskState
<1> HIDE DEF e
<1>4. <<e>> \in Seq(EventType) /\ Len(<<e>>) = 1 /\ <<e>>[1] = e /\ <<e>> # <<>>
  BY <1>2
<1>5. StoreType'
  BY <1>1, <1>4 DEF StoreInv, StoreType, TaskState
<1>6. HeadIsLastEvent'
  BY <1>1, <1>2, <1>4 DEF StoreInv, StoreType, HeadIsLastEvent
<1>7. FirstIsCreation'
  BY <1>1, <1>2, <1>4 DEF StoreInv, StoreType, FirstIsCreation
<1>8. ReceiptsFunctional'
  BY <1>1 DEF StoreInv, ReceiptsFunctional
<1>9. AppliedInJournal'
  BY <1>1, <1>3 DEF StoreInv, StoreType, AppliedInJournal
<1>10. JournalHasReceipt'
  <2>1. \A u \in Tasks : u # t => journal'[u] = journal[u]
    BY <1>1 DEF StoreInv, StoreType
  <2>2. 2..Len(journal'[t]) = {}
    BY <1>1, <1>4 DEF StoreInv, StoreType
  <2> QED BY <2>1, <2>2, <1>1 DEF StoreInv, JournalHasReceipt
<1> QED BY <1>5, <1>6, <1>7, <1>8, <1>9, <1>10 DEF StoreInv

\* A step that leaves the store alone keeps the store parts.
LEMMA StutterKeepsStore == ASSUME StoreInv, UNCHANGED store PROVE StoreInv'
BY DEF store, StoreInv, StoreType, HeadIsLastEvent, FirstIsCreation,
       ReceiptsFunctional, AppliedInJournal, JournalHasReceipt

-----------------------------------------------------------------------------
(* The handler. *)

\* A request is refused with a code of its own, or it passed every check.
LEMMA VerdictCodes ==
  ASSUME NEW q, NEW g \in BOOLEAN
  PROVE  /\ Verdict(q, g) \in Code \ {"TASK_TRANSITION_ID_REUSE_CONFLICT"}
         /\ Verdict(q, g) = "TASK_TRANSITION_APPLIED" =>
              /\ state[q.task] # Absent
              /\ q.rev = revision[q.task]
              /\ q.from = state[q.task]
              /\ ~TerminalRefuses(q.from, q.to)
              /\ AllowedTransition(q.from, q.to)
BY DEF Verdict, Code

\* What was backed stays backed when receipts are only added.
LEMMA BackedStays ==
  ASSUME NEW R, NEW S, R \subseteq S, NEW a, Backed(a, R)
  PROVE  Backed(a, S)
BY DEF Backed

\* Serving a request keeps the store parts, only adds receipts, none of them
\* an id clash, and answers with a receipt or with a clash.
LEMMA HandlerAnswers ==
  ASSUME StoreInv, \A r \in receipts : r.code # "TASK_TRANSITION_ID_REUSE_CONFLICT",
         reply \in [Clients -> AnswerType \cup {None}],
         NEW c \in Clients, NEW q \in RequestType, TransitionImpl(c, q)
  PROVE  /\ StoreInv'
         /\ receipts \subseteq receipts'
         /\ \A r \in receipts' : r.code # "TASK_TRANSITION_ID_REUSE_CONFLICT"
         /\ reply' \in [Clients -> AnswerType \cup {None}]
         /\ \A d \in Clients : d # c => reply'[d] = reply[d]
         /\ Backed(reply'[c], receipts')
<1>1. CASE Known(q.id) /\ UNCHANGED store
           /\ reply' = [reply EXCEPT ![c] =
                IF Stored(q.id).request = q THEN Stored(q.id)
                ELSE Answer(q, "TASK_TRANSITION_ID_REUSE_CONFLICT", revision[q.task])]
  <2> DEFINE r == Stored(q.id)
             clash == Answer(q, "TASK_TRANSITION_ID_REUSE_CONFLICT", revision[q.task])
  <2>1. r \in receipts /\ r.request.id = q.id
    BY <1>1 DEF Known, Stored
  <2>2. /\ clash \in AnswerType /\ clash.code = "TASK_TRANSITION_ID_REUSE_CONFLICT"
        /\ clash.request = q
    BY DEF Answer, AnswerType, Code, RequestType, StoreInv, StoreType
  <2>3. r \in AnswerType
    BY <2>1 DEF StoreInv, StoreType
  <2>4. reply' = [reply EXCEPT ![c] = IF r.request = q THEN r ELSE clash]
    BY <1>1
  <2>5. receipts' = receipts
    BY <1>1 DEF store
  <2> HIDE DEF r, clash
  <2>6. reply'[c] = IF r.request = q THEN r ELSE clash
    BY <2>4
  <2>7. Backed(reply'[c], receipts')
    BY <2>1, <2>2, <2>5, <2>6 DEF Backed
  <2> QED BY <1>1, <2>2, <2>3, <2>4, <2>5, <2>7, StutterKeepsStore
<1>2. CASE ~Known(q.id)
  <2>1. PICK g \in BOOLEAN :
          IF Verdict(q, g) = "TASK_TRANSITION_APPLIED"
          THEN /\ Commit(q)
               /\ reply' = [reply EXCEPT ![c] =
                    Answer(q, Verdict(q, g), revision[q.task] + 1)]
          ELSE /\ PersistRejection(q, Verdict(q, g))
               /\ reply' = [reply EXCEPT ![c] =
                    Answer(q, Verdict(q, g), revision[q.task])]
    BY <1>2 DEF TransitionImpl
  <2> DEFINE code == Verdict(q, g)
             r == IF code = "TASK_TRANSITION_APPLIED"
                  THEN Answer(q, code, revision[q.task] + 1)
                  ELSE Answer(q, code, revision[q.task])
  <2>2. code \in Code \ {"TASK_TRANSITION_ID_REUSE_CONFLICT"}
    BY VerdictCodes
  <2>3. StoreInv'
    <3>1. CASE code = "TASK_TRANSITION_APPLIED"
      BY <3>1, <1>2, <2>1, VerdictCodes, CommitKeepsStore
    <3>2. CASE code # "TASK_TRANSITION_APPLIED"
      <4>1. PersistRejection(q, code)
        BY <3>2, <2>1
      <4> HIDE DEF code
      <4> QED BY <4>1, <3>2, <1>2, <2>2, RejectionKeepsStore
    <3> QED BY <3>1, <3>2
  <2>4. receipts' = receipts \cup {r} /\ reply' = [reply EXCEPT ![c] = r]
    BY <2>1 DEF Commit, PersistRejection
  <2>5. r \in AnswerType /\ r.code = code
    <3>1. revision[q.task] \in Nat
      BY DEF StoreInv, StoreType, RequestType
    <3> HIDE DEF code
    <3> QED BY <3>1, <2>2 DEF Answer, AnswerType
  <2> HIDE DEF r, code
  <2>6. Backed(reply'[c], receipts')
    BY <2>2, <2>4, <2>5 DEF Backed
  <2> QED BY <2>2, <2>3, <2>4, <2>5, <2>6
<1> QED BY <1>1, <1>2 DEF TransitionImpl

-----------------------------------------------------------------------------
(* The invariant is inductive. *)

\* A commit of the manager's own request keeps everything but the list of
\* Tasks startup has still to visit, which its callers account for.
LEMMA RecoveryKeepsInv ==
  ASSUME IInv, NEW t \in Tasks, state[t] \in Executing,
         NEW id \in {LiveId(t, revision[t]), StartupId(t, revision[t])},
         ~Known(id), Commit(RecoveryRequest(t, id)), UNCHANGED calls
  PROVE  /\ StoreInv'
         /\ AnswersBacked'
         /\ state' = [state EXCEPT ![t] = "RECOVERING"]
<1> DEFINE q == RecoveryRequest(t, id)
<1>1. state[t] \in TaskState /\ state[t] # Absent
  BY DEF Executing, TaskState, Absent
<1>2. q \in RequestType /\ q.id = id /\ q.task = t /\ q.rev = revision[t]
  BY <1>1, RecoveryRequests DEF IInv, StoreInv
<1>3. q.to = "RECOVERING"
  BY DEF RecoveryRequest
<1>4. Commit(q)
  OBVIOUS
<1> HIDE DEF q
<1>5. StoreInv'
  BY <1>1, <1>2, <1>4, CommitKeepsStore DEF IInv
<1> DEFINE r == Answer(q, "TASK_TRANSITION_APPLIED", revision[q.task] + 1)
<1>6. /\ receipts' = receipts \cup {r}
      /\ r.code # "TASK_TRANSITION_ID_REUSE_CONFLICT"
      /\ state' = [state EXCEPT ![t] = "RECOVERING"]
  BY <1>2, <1>3, <1>4 DEF Commit, Answer
<1> HIDE DEF r
<1>7. AnswersBacked'
  BY <1>6, BackedStays DEF IInv, AnswersBacked, calls
<1> QED BY <1>5, <1>6, <1>7

\* Initially the invariant holds.
LEMMA InitInv == Init => IInv
<1> SUFFICES ASSUME Init PROVE IInv
  OBVIOUS
<1>1. TypeOK
  BY RequestsAssumption, EmptySeq DEF Init, TypeOK
<1>2. StoreInv
  BY <1>1, EmptySeq DEF Init, TypeOK, StoreInv, StoreType, HeadIsLastEvent, FirstIsCreation,
       ReceiptsFunctional, AppliedInJournal, JournalHasReceipt
<1>3. AnswersBacked /\ TodoExecuting
  BY DEF Init, AnswersBacked, TodoExecuting
<1> QED BY <1>1, <1>2, <1>3 DEF IInv

\* Every step of the protocol preserves the invariant.
LEMMA NextInv == IInv /\ [Next]_vars => IInv'
<1> SUFFICES ASSUME IInv, [Next]_vars PROVE IInv'
  OBVIOUS
<1> USE DEF IInv
<1>1. ASSUME NEW t \in Tasks, CreateTask(t) PROVE IInv'
  <2>1. StoreInv'
    BY <1>1, CreationKeepsStore
  <2>2. mgr = "UP" /\ todo = {} /\ UNCHANGED <<receipts, asking, reply, told, mgr, todo, crashes>>
    BY <1>1 DEF CreateTask, TodoExecuting, calls, process
  <2>3. TypeOK'
    BY <2>1, <2>2 DEF TypeOK, StoreInv, StoreType
  <2>4. AnswersBacked' /\ TodoExecuting'
    BY <2>2 DEF AnswersBacked, TodoExecuting
  <2> QED BY <2>1, <2>3, <2>4
<1>2. ASSUME NEW t \in Tasks, ReconcileLive(t) PROVE IInv'
  <2>1. StoreInv' /\ AnswersBacked'
    BY <1>2, RecoveryKeepsInv DEF ReconcileLive
  <2>2. mgr = "UP" /\ UNCHANGED <<asking, reply, told, mgr, todo, crashes>>
    BY <1>2 DEF ReconcileLive, calls, process
  <2>3. TypeOK' /\ TodoExecuting'
    BY <2>1, <2>2 DEF TypeOK, StoreInv, StoreType, TodoExecuting
  <2> QED BY <2>1, <2>3
<1>3. ASSUME NEW t \in Tasks, RecoverStartup(t) PROVE IInv'
  <2>1. /\ mgr = "STARTING" /\ t \in todo /\ todo' = todo \ {t} /\ state[t] \in Executing
        /\ UNCHANGED <<asking, reply, told, mgr, crashes>>
    BY <1>3 DEF RecoverStartup, calls, TodoExecuting
  <2>2. CASE UNCHANGED store
    <3>1. StoreInv'
      BY <2>2, StutterKeepsStore
    <3>2. TypeOK' /\ AnswersBacked' /\ TodoExecuting'
      BY <2>1, <2>2, <3>1 DEF store, TypeOK, StoreInv, StoreType, AnswersBacked, TodoExecuting
    <3> QED BY <3>1, <3>2
  <2>3. CASE /\ ~Known(StartupId(t, revision[t]))
             /\ Commit(RecoveryRequest(t, StartupId(t, revision[t])))
    <3>1. StoreInv' /\ AnswersBacked' /\ state' = [state EXCEPT ![t] = "RECOVERING"]
      BY <2>1, <2>3, RecoveryKeepsInv DEF calls
    <3>2. TypeOK'
      BY <2>1, <3>1 DEF TypeOK, StoreInv, StoreType
    <3>3. TodoExecuting'
      BY <2>1, <3>1 DEF TypeOK, TodoExecuting
    <3> QED BY <3>1, <3>2, <3>3
  <2> QED BY <1>3, <2>2, <2>3 DEF RecoverStartup
<1>4. ASSUME NEW c \in Clients, NEW q \in Requests, Send(c, q) PROVE IInv'
  <2>1. /\ asking' = [asking EXCEPT ![c] = q]
        /\ UNCHANGED <<store, reply, told, mgr, todo, crashes>>
    BY <1>4 DEF Send, process
  <2>2. StoreInv'
    BY <2>1, StutterKeepsStore
  <2>3. TypeOK' /\ AnswersBacked' /\ TodoExecuting'
    BY <2>1, <2>2 DEF store, TypeOK, StoreInv, StoreType, AnswersBacked, TodoExecuting
  <2> QED BY <2>2, <2>3
<1>5. ASSUME NEW c \in Clients, Handle(c) PROVE IInv'
  <2> DEFINE q == asking[c]
  <2>1. q \in RequestType /\ TransitionImpl(c, q) /\ mgr = "UP"
        /\ UNCHANGED <<asking, told, mgr, todo, crashes>>
    BY <1>5, ClientRequests DEF Handle, TypeOK, process
  <2> HIDE DEF q
  <2>2. /\ StoreInv'
        /\ receipts \subseteq receipts'
        /\ \A r \in receipts' : r.code # "TASK_TRANSITION_ID_REUSE_CONFLICT"
        /\ reply' \in [Clients -> AnswerType \cup {None}]
        /\ \A d \in Clients : d # c => reply'[d] = reply[d]
        /\ Backed(reply'[c], receipts')
    BY <2>1, HandlerAnswers DEF TypeOK, AnswersBacked
  <2>3. TypeOK' /\ TodoExecuting'
    BY <2>1, <2>2 DEF TypeOK, StoreInv, StoreType, TodoExecuting
  <2>4. AnswersBacked'
    BY <2>1, <2>2, BackedStays DEF AnswersBacked
  <2> QED BY <2>2, <2>3, <2>4
<1>6. ASSUME NEW c \in Clients, Deliver(c) \/ GiveUp(c) PROVE IInv'
  <2>1. /\ asking' = [asking EXCEPT ![c] = None]
        /\ reply' = [reply EXCEPT ![c] = None]
        /\ told' = told \/ (reply[c] # None /\ told' = told \cup {reply[c]})
        /\ UNCHANGED <<store, mgr, todo, crashes>>
    BY <1>6 DEF Deliver, GiveUp, process
  <2>2. StoreInv'
    BY <2>1, StutterKeepsStore
  <2>3. TypeOK'
    BY <2>1, <2>2 DEF store, TypeOK, StoreInv, StoreType
  <2>4. AnswersBacked' /\ TodoExecuting'
    BY <2>1 DEF store, TypeOK, AnswersBacked, TodoExecuting
  <2> QED BY <2>2, <2>3, <2>4
<1>7. ASSUME Crash \/ Start \/ Ready PROVE IInv'
  <2>1. UNCHANGED <<store, asking, told>> /\ \A c \in Clients : reply'[c] \in {None, reply[c]}
    BY <1>7 DEF Crash, Start, Ready, calls, TypeOK
  <2>2. StoreInv'
    BY <2>1, StutterKeepsStore
  <2>3. TypeOK'
    BY <1>7, <2>1, <2>2, RequestsAssumption
       DEF Crash, Start, Ready, calls, store, TypeOK, StoreInv, StoreType
  <2>4. AnswersBacked'
    BY <2>1 DEF store, AnswersBacked
  <2>5. TodoExecuting'
    BY <1>7 DEF Crash, Start, Ready, store, TodoExecuting
  <2> QED BY <2>2, <2>3, <2>4, <2>5
<1>8. CASE UNCHANGED vars
  <2>1. StoreInv'
    BY <1>8, StutterKeepsStore DEF vars
  <2> QED BY <1>8, <2>1 DEF vars, store, calls, process, TypeOK, AnswersBacked, TodoExecuting
<1> QED BY <1>1, <1>2, <1>3, <1>4, <1>5, <1>6, <1>7, <1>8 DEF Next

\* The inductive invariant holds throughout every behaviour.
THEOREM InvariantHolds == Spec => []IInv
BY InitInv, NextInv, PTL DEF Spec

-----------------------------------------------------------------------------
(* What the invariant implies. *)

\* The store and the calls in flight keep their types (state machine of
\* transition_impl, its callers, and the crash and startup of the manager).
THEOREM TypeCorrect == Spec => []TypeOK
<1>1. IInv => TypeOK
  BY DEF IInv
<1> QED BY <1>1, InvariantHolds, PTL

\* Task row, journal and receipts account for each other in every reachable
\* state: what verify_task_head and authenticated_transition_result demand of
\* a store is what transition_impl leaves behind.
THEOREM StoreStaysConsistent == Spec => []StoreConsistent
<1>1. IInv => StoreConsistent
  BY DEF IInv, StoreInv, ReceiptsFunctional, AppliedInJournal, JournalHasReceipt,
         ReceiptsMatchJournal, StoreConsistent
<1> QED BY <1>1, InvariantHolds, PTL

\* Every repetition of a request, by any caller and across any number of
\* crashes, is answered alike.
LEMMA AnswersNeverDiffer == IInv => AnswersAgree
<1> SUFFICES ASSUME IInv, NEW a \in told, NEW b \in told, a.request = b.request
             PROVE  /\ a.code = b.code
                    /\ a.code # "TASK_TRANSITION_ID_REUSE_CONFLICT" => a = b
  BY DEF AnswersAgree
<1>1. Backed(a, receipts) /\ Backed(b, receipts) /\ ReceiptsFunctional
  BY DEF IInv, AnswersBacked, StoreInv
<1>2. CASE a \in receipts /\ b \in receipts
  BY <1>1, <1>2 DEF ReceiptsFunctional
<1>3. CASE a.code # b.code
  BY <1>1, <1>3 DEF Backed, ReceiptsFunctional
<1> QED BY <1>1, <1>2, <1>3 DEF Backed

\* "Applied" names an event that is in the journal, and a refusal means that
\* no event with this id ever gets there.
LEMMA AnswersStayTrue == IInv => ToldTruth
<1> SUFFICES ASSUME IInv, NEW a \in told
             PROVE  /\ Applied(a) =>
                         /\ a.rev \in 2..Len(journal[a.request.task])
                         /\ journal[a.request.task][a.rev] =
                              Event(a.request.id, a.request.from, a.request.to)
                    /\ a.code \notin {"TASK_TRANSITION_APPLIED",
                                     "TASK_TRANSITION_ID_REUSE_CONFLICT"} =>
                         \A t \in Tasks : \A n \in 1..Len(journal[t]) :
                           journal[t][n].id # a.request.id
  BY DEF ToldTruth
<1>1. Backed(a, receipts)
  BY DEF IInv, AnswersBacked
<1>2. ASSUME Applied(a)
      PROVE  /\ a.rev \in 2..Len(journal[a.request.task])
             /\ journal[a.request.task][a.rev] =
                  Event(a.request.id, a.request.from, a.request.to)
  <2>1. a \in receipts
    BY <1>1, <1>2 DEF Backed, Applied
  <2> QED BY <2>1, <1>2 DEF IInv, StoreInv, AppliedInJournal
<1>3. ASSUME a.code \notin {"TASK_TRANSITION_APPLIED",
                           "TASK_TRANSITION_ID_REUSE_CONFLICT"},
             NEW t \in Tasks, NEW n \in 1..Len(journal[t])
      PROVE  journal[t][n].id # a.request.id
  <2>1. a \in receipts /\ ~Applied(a)
    BY <1>1, <1>3 DEF Backed, Applied
  <2>2. CASE n = 1
    <3>1. journal[t][1].id = <<"created", t, 0>>
      <4>1. journal[t] # <<>>
        BY <2>2, EmptySeq
      <4> QED BY <4>1 DEF IInv, StoreInv, FirstIsCreation
    <3>2. a.request.id \in AnyId
      BY DEF IInv, TypeOK, AnswerType, RequestType
    <3> QED BY <2>2, <3>1, <3>2, CreationIdsApart
  <2>3. CASE n # 1
    <3>1. n \in 2..Len(journal[t])
      BY <2>3, LenProperties DEF IInv, TypeOK
    <3>2. PICK r \in receipts : Applied(r) /\ r.request.id = journal[t][n].id
      BY <3>1 DEF IInv, StoreInv, JournalHasReceipt
    <3> QED BY <2>1, <3>2 DEF IInv, StoreInv, ReceiptsFunctional
  <2> QED BY <2>2, <2>3
<1> QED BY <1>2, <1>3

\* Every answer a caller was given, by the handler, by a replay of a stored
\* receipt or by recovery, agrees with every other answer to that request and
\* with the journal, for good.
THEOREM RepliesStayTruthful == Spec => []RepliesTruthful
<1>1. IInv => RepliesTruthful
  BY AnswersNeverDiffer, AnswersStayTrue DEF RepliesTruthful
<1> QED BY <1>1, InvariantHolds, PTL

\* Of the callers that raced for one revision of a Task at most one was told
\* that it won.
THEOREM AtMostOneWinner == Spec => []OneWinner
<1>1. IInv => OneWinner
  <2> SUFFICES ASSUME IInv, NEW a \in told, NEW b \in told, Applied(a), Applied(b),
                      a.request.task = b.request.task, a.request.rev = b.request.rev
               PROVE  a = b
    BY DEF OneWinner
  <2>1. a \in receipts /\ b \in receipts
    BY DEF IInv, AnswersBacked, Backed, Applied
  <2>2. a.rev = b.rev
    BY <2>1 DEF IInv, StoreInv, AppliedInJournal
  <2>3. Event(a.request.id, a.request.from, a.request.to) =
        Event(b.request.id, b.request.from, b.request.to)
    BY <2>1, <2>2 DEF IInv, StoreInv, AppliedInJournal
  <2>4. a.request.id = b.request.id
    BY <2>3 DEF Event
  <2> QED BY <2>1, <2>4 DEF IInv, StoreInv, ReceiptsFunctional
<1> QED BY <1>1, InvariantHolds, PTL

-----------------------------------------------------------------------------
(* The protocol implements the ledger. *)

\* An internal move to RECOVERING from an executing state is a ledger step.
LEMMA RecoveryAdvances ==
  ASSUME IInv, NEW t \in Tasks, NEW id, state[t] \in Executing,
         Commit(RecoveryRequest(t, id))
  PROVE  Ledger!Next
<1>1. /\ state' = [state EXCEPT ![t] = "RECOVERING"]
      /\ revision' = [revision EXCEPT ![t] = @ + 1]
  BY DEF Commit, RecoveryRequest
<1>2. /\ state[t] # Absent
      /\ ~TerminalRefuses(state[t], "RECOVERING")
      /\ AllowedTransition(state[t], "RECOVERING")
      /\ "RECOVERING" \in TaskState
  BY DEF Executing, Absent, Terminal, TerminalRefuses, AllowedTransition, Successors, TaskState
<1>3. Ledger!Advance(t, "RECOVERING")
  BY <1>1, <1>2 DEF Ledger!Advance, Ledger!TerminalRefuses, Ledger!AllowedTransition, Ledger!Absent,
                    Ledger!Successors, Ledger!Terminal, TerminalRefuses, AllowedTransition, Absent,
                    Successors, Terminal
<1> QED BY <1>2, <1>3 DEF Ledger!Next, Ledger!TaskState, TaskState

\* Serving a request is a ledger step or leaves the ledger alone.
LEMMA HandlerAdvances ==
  ASSUME IInv, NEW c \in Clients, NEW q \in RequestType, TransitionImpl(c, q)
  PROVE  Ledger!Next \/ UNCHANGED <<state, revision>>
<1>1. CASE UNCHANGED store
  BY <1>1 DEF store
<1>2. CASE \E g \in BOOLEAN : PersistRejection(q, Verdict(q, g))
  BY <1>2 DEF PersistRejection
<1>3. CASE \E g \in BOOLEAN : Verdict(q, g) = "TASK_TRANSITION_APPLIED" /\ Commit(q)
  <2>1. /\ state[q.task] # Absent
        /\ q.from = state[q.task]
        /\ ~TerminalRefuses(q.from, q.to)
        /\ AllowedTransition(q.from, q.to)
    BY <1>3, VerdictCodes
  <2>2. /\ state' = [state EXCEPT ![q.task] = q.to]
        /\ revision' = [revision EXCEPT ![q.task] = @ + 1]
    BY <1>3 DEF Commit
  <2>3. Ledger!Advance(q.task, q.to)
    BY <2>1, <2>2 DEF Ledger!Advance, Ledger!TerminalRefuses, Ledger!AllowedTransition,
                      Ledger!Absent, Ledger!Successors, Ledger!Terminal, TerminalRefuses,
                      AllowedTransition, Absent, Successors, Terminal
  <2> QED BY <2>3 DEF Ledger!Next, Ledger!TaskState, TaskState, RequestType
<1> QED BY <1>1, <1>2, <1>3 DEF TransitionImpl

\* Whatever callers ask, however often the manager dies, a Task's state and
\* revision move only as the abstract ledger allows.
THEOREM ProtocolImplementsLedger == Spec => ImplementsLedger
<1>1. Init => Ledger!Init
  BY DEF Init, Ledger!Init, Ledger!Absent, Absent
<1>2. IInv /\ [Next]_vars => [Ledger!Next]_<<state, revision>>
  <2> SUFFICES ASSUME IInv, [Next]_vars
               PROVE  Ledger!Next \/ UNCHANGED <<state, revision>>
    OBVIOUS
  <2>1. ASSUME NEW t \in Tasks, CreateTask(t) PROVE Ledger!Next
    BY <2>1 DEF CreateTask, Ledger!Next, Ledger!Create, Ledger!Absent, Absent
  <2>2. ASSUME NEW t \in Tasks, ReconcileLive(t) PROVE Ledger!Next
    BY <2>2, RecoveryAdvances DEF ReconcileLive
  <2>3. ASSUME NEW t \in Tasks, RecoverStartup(t)
        PROVE  Ledger!Next \/ UNCHANGED <<state, revision>>
    <3>1. state[t] \in Executing
      BY <2>3 DEF RecoverStartup, IInv, TodoExecuting
    <3> QED BY <2>3, <3>1, RecoveryAdvances DEF RecoverStartup, store
  <2>4. ASSUME NEW c \in Clients, Handle(c)
        PROVE  Ledger!Next \/ UNCHANGED <<state, revision>>
    <3>1. asking[c] \in RequestType /\ TransitionImpl(c, asking[c])
      BY <2>4, ClientRequests DEF Handle, IInv, TypeOK
    <3> QED BY <3>1, HandlerAdvances
  <2>5. ASSUME NEW c \in Clients, \/ \E q \in Requests : Send(c, q)
                                 \/ Deliver(c)
                                 \/ GiveUp(c)
        PROVE  UNCHANGED <<state, revision>>
    BY <2>5 DEF Send, Deliver, GiveUp, store
  <2>6. ASSUME Crash \/ Start \/ Ready PROVE UNCHANGED <<state, revision>>
    BY <2>6 DEF Crash, Start, Ready, store
  <2>7. CASE UNCHANGED vars
    BY <2>7 DEF vars, store
  <2> QED BY <2>1, <2>2, <2>3, <2>4, <2>5, <2>6, <2>7 DEF Next
<1> QED BY <1>1, <1>2, InvariantHolds, PTL
        DEF Spec, ImplementsLedger, Ledger!Spec, Ledger!ledgerVars

=============================================================================

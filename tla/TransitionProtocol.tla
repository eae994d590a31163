------------------------- MODULE TransitionProtocol -------------------------
(***************************************************************************)
(* The request protocol of the Task Manager: compare-and-set on the Task's *)
(* revision and state, a durable receipt per transition id, one provenance *)
(* event per committed transition, and replay of the stored answer when a  *)
(* caller repeats a request.  Callers are separate processes that may give *)
(* up, repeat a request or share an id; the manager may crash after the    *)
(* commit and before the answer is delivered.                              *)
(*                                                                         *)
(* `guard_failure` reads execution facts that live in TaskStore; here its  *)
(* verdict is a free choice, so what holds here holds whatever the guards  *)
(* say.                                                                    *)
(***************************************************************************)
EXTENDS Naturals, Sequences, TaskStates

CONSTANTS
  Tasks,      \* Task ids
  Clients,    \* callers of `transition`
  Ids,        \* transition ids callers use
  Requests,   \* the transition requests callers may send
  MaxCrashes  \* how often the manager process may die

None == [kind |-> "none"]

\* The caller's id namespace, and the two internal ones keyed by Task and
\* revision; `validate_transition_request` keeps them apart.
ClientId(i) == <<"client", i, 0>>
LiveId(t, n) == <<"live", t, n>>
StartupId(t, n) == <<"startup", t, n>>

ASSUME RequestsAssumption ==
  /\ MaxCrashes \in Nat
  /\ Requests \subseteq
       [id : {ClientId(i) : i \in Ids}, task : Tasks, rev : Nat \ {0},
        from : TaskState, to : TaskState]

VARIABLES
  state,     \* tasks.state
  revision,  \* tasks.revision
  journal,   \* the Task's task.created and task.transitioned events, in order
  receipts,  \* rows of task_transitions
  asking,    \* what each caller is waiting to hear about
  reply,     \* an answer computed but not yet delivered
  told,      \* every answer ever delivered
  mgr,       \* "UP", "STARTING" or "DOWN"
  todo,      \* Tasks startup recovery has still to look at
  crashes    \* crashes so far

store == <<state, revision, journal, receipts>>
calls == <<asking, reply, told>>
process == <<mgr, todo, crashes>>
vars == <<store, calls, process>>

Init ==
  /\ state = [t \in Tasks |-> Absent]
  /\ revision = [t \in Tasks |-> 0]
  /\ journal = [t \in Tasks |-> <<>>]
  /\ receipts = {}
  /\ asking = [c \in Clients |-> None]
  /\ reply = [c \in Clients |-> None]
  /\ told = {}
  /\ mgr = "UP"
  /\ todo = {}
  /\ crashes = 0

-----------------------------------------------------------------------------
(* The store transaction. *)

Event(id, from, to) == [id |-> id, from |-> from, to |-> to]

Answer(q, code, n) ==
  [kind |-> "answer", request |-> q, code |-> code, rev |-> n]

Known(id) == \E r \in receipts : r.request.id = id

Stored(id) == CHOOSE r \in receipts : r.request.id = id

\* Compensation evidence has no owner yet, and RECOVERING is entered by the
\* manager only; every other guard may hold or fail.
GuardMayHold(q) == q.to \notin {"ROLLING_BACK", "ROLLED_BACK", "RECOVERING"}

\* Mutant: the compare-and-set is dropped.
VerdictUnchecked(q, guardHolds) ==
  IF state[q.task] = Absent THEN "TASK_NOT_FOUND"
  ELSE IF TerminalRefuses(q.from, q.to) THEN "TASK_TERMINAL_STATE"
  ELSE IF ~AllowedTransition(q.from, q.to) THEN "TASK_ILLEGAL_TRANSITION"
  ELSE IF ~guardHolds THEN "TASK_TRANSITION_GUARD_FAILED"
  ELSE "TASK_TRANSITION_APPLIED"

\* The checks of transition_impl in their order.
Verdict(q, guardHolds) ==
  IF state[q.task] = Absent THEN "TASK_NOT_FOUND"
  ELSE IF q.rev # revision[q.task] THEN "TASK_REVISION_CONFLICT"
  ELSE IF q.from # state[q.task] THEN "TASK_STATE_CONFLICT"
  ELSE IF TerminalRefuses(q.from, q.to) THEN "TASK_TERMINAL_STATE"
  ELSE IF ~AllowedTransition(q.from, q.to) THEN "TASK_ILLEGAL_TRANSITION"
  ELSE IF ~guardHolds THEN "TASK_TRANSITION_GUARD_FAILED"
  ELSE "TASK_TRANSITION_APPLIED"

\* Mutant: the receipt is not part of the transaction.
CommitUnreceipted(q) ==
  /\ state' = [state EXCEPT ![q.task] = q.to]
  /\ revision' = [revision EXCEPT ![q.task] = @ + 1]
  /\ journal' = [journal EXCEPT ![q.task] = Append(@, Event(q.id, q.from, q.to))]
  /\ UNCHANGED receipts

\* Event, Task row and receipt commit together.
Commit(q) ==
  /\ state' = [state EXCEPT ![q.task] = q.to]
  /\ revision' = [revision EXCEPT ![q.task] = @ + 1]
  /\ journal' = [journal EXCEPT ![q.task] = Append(@, Event(q.id, q.from, q.to))]
  /\ receipts' = receipts \cup
       {Answer(q, "TASK_TRANSITION_APPLIED", revision[q.task] + 1)}

PersistRejectionForgotten(q, code) == UNCHANGED store

\* A refusal is stored under the id too, and changes nothing else.
PersistRejection(q, code) ==
  /\ receipts' = receipts \cup {Answer(q, code, revision[q.task])}
  /\ UNCHANGED <<state, revision, journal>>

\* The whole of transition_impl for caller c, up to the point where the
\* answer leaves the manager.  An id clash is not stored: it reports the
\* revision of the moment.  An error return rolls everything back and is to
\* the caller as no answer (GiveUp).
TransitionImpl(c, q) ==
  \/ /\ Known(q.id)
     /\ reply' = [reply EXCEPT ![c] =
          IF Stored(q.id).request = q
          THEN Stored(q.id)
          ELSE Answer(q, "TASK_TRANSITION_ID_REUSE_CONFLICT", revision[q.task])]
     /\ UNCHANGED store
  \/ /\ ~Known(q.id)
     /\ \E guardHolds \in BOOLEAN :
          /\ guardHolds => GuardMayHold(q)
          /\ LET code == Verdict(q, guardHolds) IN
             IF code = "TASK_TRANSITION_APPLIED"
             THEN /\ Commit(q)
                  /\ reply' = [reply EXCEPT ![c] =
                       Answer(q, code, revision[q.task] + 1)]
             ELSE /\ PersistRejection(q, code)
                  /\ reply' = [reply EXCEPT ![c] =
                       Answer(q, code, revision[q.task])]

-----------------------------------------------------------------------------
(* Callers. *)

\* create_task: the row at revision 1 and its task.created event.
CreateTask(t) ==
  /\ mgr = "UP"
  /\ state[t] = Absent
  /\ state' = [state EXCEPT ![t] = "CREATED"]
  /\ revision' = [revision EXCEPT ![t] = 1]
  /\ journal' = [journal EXCEPT ![t] = <<Event(<<"created", t, 0>>, Absent, "CREATED")>>]
  /\ UNCHANGED <<receipts, calls, process>>

Send(c, q) ==
  /\ asking[c] = None
  /\ asking' = [asking EXCEPT ![c] = q]
  /\ UNCHANGED <<store, reply, told, process>>

\* Mutant: a request whose id is known is dropped instead of replayed.
HandleFresh(c) ==
  /\ mgr = "UP"
  /\ asking[c] # None /\ reply[c] = None
  /\ ~Known(asking[c].id)
  /\ TransitionImpl(c, asking[c])
  /\ UNCHANGED <<asking, told, process>>

Handle(c) ==
  /\ mgr = "UP"
  /\ asking[c] # None /\ reply[c] = None
  /\ TransitionImpl(c, asking[c])
  /\ UNCHANGED <<asking, told, process>>

Deliver(c) ==
  /\ reply[c] # None
  /\ told' = told \cup {reply[c]}
  /\ asking' = [asking EXCEPT ![c] = None]
  /\ reply' = [reply EXCEPT ![c] = None]
  /\ UNCHANGED <<store, process>>

\* The caller stops waiting; it, or another caller, may send the request again.
GiveUp(c) ==
  /\ asking[c] # None
  /\ asking' = [asking EXCEPT ![c] = None]
  /\ reply' = [reply EXCEPT ![c] = None]
  /\ UNCHANGED <<store, told, process>>

-----------------------------------------------------------------------------
(* The manager's own transitions, and its crashes. *)

RecoveryRequest(t, id) ==
  [id |-> id, task |-> t, rev |-> revision[t], from |-> state[t],
   to |-> "RECOVERING"]

\* Mutant: any Task that has not ended may be sent to recovery.
ReconcileLiveAnywhere(t) ==
  /\ mgr = "UP"
  /\ state[t] \notin Terminal \cup {Absent}
  /\ ~Known(LiveId(t, revision[t]))
  /\ Commit(RecoveryRequest(t, LiveId(t, revision[t])))
  /\ UNCHANGED <<calls, process>>

\* reconcile_live_execution: uncertain execution found while serving.
ReconcileLive(t) ==
  /\ mgr = "UP"
  /\ state[t] \in Executing
  /\ ~Known(LiveId(t, revision[t]))
  /\ Commit(RecoveryRequest(t, LiveId(t, revision[t])))
  /\ UNCHANGED <<calls, process>>

Crash ==
  /\ mgr # "DOWN"
  /\ crashes < MaxCrashes
  /\ mgr' = "DOWN"
  /\ crashes' = crashes + 1
  /\ todo' = {}
  /\ reply' = [c \in Clients |-> None]
  /\ UNCHANGED <<store, asking, told>>

Start ==
  /\ mgr = "DOWN"
  /\ mgr' = "STARTING"
  /\ todo' = {t \in Tasks : state[t] \in Executing}
  /\ UNCHANGED <<store, calls, crashes>>

\* recover_startup visits the Task: uncertain execution moves it to
\* RECOVERING, otherwise it is left alone.
RecoverStartup(t) ==
  /\ mgr = "STARTING"
  /\ t \in todo
  /\ todo' = todo \ {t}
  /\ \/ /\ ~Known(StartupId(t, revision[t]))
        /\ Commit(RecoveryRequest(t, StartupId(t, revision[t])))
     \/ UNCHANGED store
  /\ UNCHANGED <<calls, mgr, crashes>>

Ready ==
  /\ mgr = "STARTING"
  /\ todo = {}
  /\ mgr' = "UP"
  /\ UNCHANGED <<store, calls, todo, crashes>>

Next ==
  \/ \E t \in Tasks : CreateTask(t) \/ ReconcileLive(t) \/ RecoverStartup(t)
  \/ \E c \in Clients :
       \/ \E q \in Requests : Send(c, q)
       \/ Handle(c)
       \/ Deliver(c)
       \/ GiveUp(c)
  \/ Crash
  \/ Start
  \/ Ready

Spec == Init /\ [][Next]_vars

-----------------------------------------------------------------------------
(* Properties *)

Applied(a) == a.code = "TASK_TRANSITION_APPLIED"

AnyId == ({"client"} \X Ids \X {0}) \cup ({"live", "startup"} \X Tasks \X Nat)

\* Every request the manager can see: a caller's or its own.
RequestType ==
  [id : AnyId, task : Tasks, rev : Nat, from : TaskState, to : TaskState]

Code ==
  {"TASK_TRANSITION_APPLIED", "TASK_NOT_FOUND", "TASK_REVISION_CONFLICT",
   "TASK_STATE_CONFLICT", "TASK_TERMINAL_STATE", "TASK_ILLEGAL_TRANSITION",
   "TASK_TRANSITION_GUARD_FAILED", "TASK_TRANSITION_ID_REUSE_CONFLICT"}

AnswerType ==
  [kind : {"answer"}, request : RequestType, code : Code, rev : Nat]

EventType ==
  [id : AnyId \cup ({"created"} \X Tasks \X {0}),
   from : TaskState \cup {Absent}, to : TaskState]

\* The value space of the store and of the calls in flight.
TypeOK ==
  /\ state \in [Tasks -> TaskState \cup {Absent}]
  /\ revision \in [Tasks -> Nat]
  /\ journal \in [Tasks -> Seq(EventType)]
  /\ receipts \subseteq AnswerType
  /\ asking \in [Clients -> Requests \cup {None}]
  /\ reply \in [Clients -> AnswerType \cup {None}]
  /\ told \subseteq AnswerType
  /\ mgr \in {"UP", "STARTING", "DOWN"}
  /\ todo \subseteq Tasks
  /\ crashes \in 0..MaxCrashes

\* The Task row is the head of its journal: as many revisions as events, and
\* the state the last event moved to (verify_task_head relies on it).
HeadIsLastEvent ==
  \A t \in Tasks :
    /\ Len(journal[t]) = revision[t]
    /\ state[t] = IF journal[t] = <<>> THEN Absent
                  ELSE journal[t][Len(journal[t])].to

\* Receipts and journal account for each other: an id is decided once; a
\* committed receipt names the one event it produced, at the revision after
\* the one it expected; and every event after task.created has such a receipt
\* (authenticated_transition_result refuses a store where this fails).
ReceiptsMatchJournal ==
  /\ \A r, s \in receipts : r.request.id = s.request.id => r = s
  /\ \A r \in receipts : Applied(r) =>
       LET q == r.request IN
         /\ r.rev = q.rev + 1
         /\ r.rev \in 2..Len(journal[q.task])
         /\ journal[q.task][r.rev] = Event(q.id, q.from, q.to)
  /\ \A t \in Tasks : \A n \in 2..Len(journal[t]) :
       \E r \in receipts :
         /\ Applied(r)
         /\ r.request.task = t
         /\ r.rev = n
         /\ r.request.id = journal[t][n].id

\* Task row, journal and receipts are well-formed and one story: what
\* verify_task_head and authenticated_transition_result demand of a store when
\* they read it.
StoreConsistent == TypeOK /\ HeadIsLastEvent /\ ReceiptsMatchJournal

\* However often a request is repeated, by whom, and with crashes and lost
\* answers between, every answer ever delivered to it is the same; only an id
\* clash may report another revision each time, and a clash stays one.
AnswersAgree ==
  \A a, b \in told : a.request = b.request =>
    /\ a.code = b.code
    /\ a.code # "TASK_TRANSITION_ID_REUSE_CONFLICT" => a = b

\* What a caller was told is what happened: "applied" names an event that is
\* in the journal for good, at the revision it states; a refusal other than
\* an id clash means that no event with this id ever enters the journal.
ToldTruth ==
  \A a \in told :
    LET q == a.request IN
    /\ Applied(a) =>
         /\ a.rev \in 2..Len(journal[q.task])
         /\ journal[q.task][a.rev] = Event(q.id, q.from, q.to)
    /\ a.code \notin {"TASK_TRANSITION_APPLIED",
                      "TASK_TRANSITION_ID_REUSE_CONFLICT"} =>
         \A t \in Tasks : \A n \in 1..Len(journal[t]) : journal[t][n].id # q.id

\* What a caller hears is true and stays true, however often and by whomever
\* it is asked again.
RepliesTruthful == AnswersAgree /\ ToldTruth

\* Of all callers that expected the same revision of a Task, at most one was
\* told that its transition was applied.
OneWinner ==
  \A a, b \in told :
    /\ Applied(a) /\ Applied(b)
    /\ a.request.task = b.request.task
    /\ a.request.rev = b.request.rev
    => a = b

Ledger == INSTANCE TaskLedger

\* Requests, replays, crashes and recovery together move a Task only as the
\* abstract ledger allows.
ImplementsLedger == Ledger!Spec

\* A caller that keeps waiting hears an answer, crashes included.
Waiting(c) == asking[c] # None

=============================================================================

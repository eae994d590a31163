---------------------------- MODULE TaskRecovery ----------------------------
(***************************************************************************)
(* Crash, startup and recovery.  Startup is the sequence of initialize():  *)
(* settle exports, hand their Tasks to recovery, retire authority of older *)
(* sessions, recover executing Tasks, report terminal ones.  Each step is   *)
(* its own transaction and the process may die between any two of them.    *)
(*                                                                         *)
(* Moving a Task to RECOVERING takes two transactions, the inventory and    *)
(* then the transition; `call` holds the second while it is outstanding.   *)
(***************************************************************************)
EXTENDS TaskTransitions

Idle == [kind |-> "IDLE", slot |-> <<>>, ref |-> NoRef]

\* The inventory is stored; the transition to RECOVERING is outstanding.
Enter(ref) == [kind |-> "ENTER", slot |-> <<>>, ref |-> ref]

\* Authority is retired; the transition back to PLANNING is outstanding.
Replan(t) == [kind |-> "REPLAN", slot |-> <<>>, ref |-> [NoRef EXCEPT !.task = t]]

Starting == {"EXPORTS", "HANDOFF", "RETIRE", "RECOVER", "REPORT"}

Crash ==
  /\ mgr \in Starting \cup {"READY"}
  /\ mgr' = "DOWN"
  /\ call' = Idle
  /\ todo' = {}
  /\ UNCHANGED <<durable, session, refusal>>

\* A new process takes the lease and opens a clock session.
Start ==
  /\ mgr \in {"DOWN", "REFUSED"}
  /\ session < MaxSessions
  /\ mgr' = "EXPORTS"
  /\ session' = session + 1
  /\ refusal' = "NONE"
  /\ UNCHANGED <<durable, todo, call>>

\* initialize() returns an error: the process ends without serving.
Refuse(reason) ==
  /\ mgr' = "REFUSED"
  /\ refusal' = reason
  /\ todo' = {}
  /\ call' = Idle
  /\ UNCHANGED <<durable, session>>

Visited(t) == todo' = todo \ {t} /\ UNCHANGED <<mgr, session, refusal>>

NextPhase(from, to, list) ==
  /\ mgr = from
  /\ call.kind = "IDLE"
  /\ todo = {}
  /\ mgr' = to
  /\ todo' = list
  /\ UNCHANGED <<durable, call, session, refusal>>

-----------------------------------------------------------------------------
(* Entering RECOVERING. *)

\* First transaction of a startup entry.  A row that exists under the same
\* identity with other evidence aborts it, and startup with it.
BeginRecovery(t) ==
  IF EvidenceConflict(t, CurrentRef(t))
  THEN Refuse("EVIDENCE_REUSED")
  ELSE /\ PersistInventory(t, CurrentRef(t))
       /\ call' = Enter(CurrentRef(t))
       /\ UNCHANGED <<task, attempt, mgr, todo, session, refusal>>

\* Mutant: the entry into recovery keeps the revision.
EnterRecoveringUnversioned ==
  LET t == call.ref.task IN
  /\ call.kind = "ENTER"
  /\ task[t].state \in Executing
  /\ task' = [task EXCEPT ![t] = [task[t] EXCEPT !.state = "RECOVERING", !.recovery = call.ref]]
  /\ call' = Idle
  /\ Visited(t)
  /\ UNCHANGED <<attempt, assessed>>

\* Second transaction: the internal transition, carrying the reference.
EnterRecovering ==
  LET t == call.ref.task IN
  /\ call.kind = "ENTER"
  /\ task[t].state \in Executing
  /\ task' = [task EXCEPT ![t] =
       [task[t] EXCEPT !.state = "RECOVERING", !.revision = task[t].revision + 1,
                       !.recovery = call.ref]]
  /\ call' = Idle
  /\ Visited(t)
  /\ UNCHANGED <<attempt, assessed>>

-----------------------------------------------------------------------------
(* Startup. *)

\* Mutant: every interrupted export is taken as having had no effect.
SettledBlind(a) == IF a.op # "STARTED" THEN a ELSE [a EXCEPT !.op = "FAILED"]

Settled(a) ==
  IF a.op # "STARTED" THEN a
  ELSE [a EXCEPT !.op = IF a.phase = "PRE" THEN "FAILED" ELSE "UNKNOWN"]

\* Mutant: only what this start itself found interrupted is handed over; an
\* outcome that an earlier session recorded as unknown is forgotten.
SettleExportsAnew ==
  /\ mgr = "EXPORTS"
  /\ attempt' = [x \in Slots |-> Settled(attempt[x])]
  /\ todo' = {x[1] : x \in {y \in Slots :
       attempt[y].op = "STARTED" /\ Settled(attempt[y]).op = "UNKNOWN"}}
  /\ mgr' = "HANDOFF"
  /\ UNCHANGED <<task, assessed, call, session, refusal>>

\* reconcile_export_operations_startup, first transaction: every STARTED
\* export of the store.
SettleExports ==
  /\ mgr = "EXPORTS"
  /\ attempt' = [x \in Slots |-> Settled(attempt[x])]
  /\ todo' = {x[1] : x \in {y \in Slots : Settled(attempt[y]).op = "UNKNOWN"}}
  /\ mgr' = "HANDOFF"
  /\ UNCHANGED <<task, assessed, call, session, refusal>>

\* The Task keeps its state; what is unresolved is only reported.
ReportInventory(t) ==
  IF EvidenceConflict(t, CurrentRef(t))
  THEN Refuse("EVIDENCE_REUSED")
  ELSE /\ PersistInventory(t, CurrentRef(t))
       /\ Visited(t)
       /\ UNCHANGED <<task, attempt, call>>

\* ensure_unknown_export_recovery_inventory for one Task.  A RECOVERING Task
\* keeps its inventory, which already covers what is unresolved.
HandoffTask(t) ==
  /\ mgr = "HANDOFF" /\ call.kind = "IDLE" /\ t \in todo
  /\ IF task[t].state \in Executing THEN BeginRecovery(t)
     ELSE IF task[t].state = "RECOVERING" THEN Visited(t) /\ UNCHANGED <<durable, call>>
     ELSE ReportInventory(t)

\* Authority prepared for an attempt in an earlier session.
OlderAuthority(t) ==
  \E x \in AttemptsOf(t) : attempt[x].step # "OWNED" /\ attempt[x].session # session

\* Mutants: the scan for obsolete authority forgets a state.
HandoffDoneNotPlanning == NextPhase("HANDOFF", "RETIRE", {t \in Tasks :
  /\ task[t].state \in {"WAITING_FOR_AUTH", "RUNNABLE"}
  /\ OlderAuthority(t)})

HandoffDone == NextPhase("HANDOFF", "RETIRE", {t \in Tasks :
  /\ task[t].state \in {"PLANNING", "WAITING_FOR_AUTH", "RUNNABLE"}
  /\ OlderAuthority(t)})

\* Nothing of the Task can have had an effect: no use of a grant, no
\* operation (the owner's count too), no invocation, and no step beyond READY.
Unused(t) ==
  \A x \in AttemptsOf(t) :
    /\ attempt[x].step = "READY"
    /\ attempt[x].op = "NONE"
    /\ attempt[x].result = "NONE"
    /\ "CONSUMED" \notin {attempt[x].egress, attempt[x].write}

\* retire_obsolete_prepared_authority_startup for one Task, first transaction.
RetireTask(t) ==
  /\ mgr = "RETIRE" /\ call.kind = "IDLE" /\ t \in todo
  /\ \/ /\ ~Unused(t)
        /\ Refuse("OBSOLETE_AUTHORITY_USED")
     \/ /\ Unused(t)
        /\ attempt' = [x \in Slots |->
             IF x \in AttemptsOf(t) /\ attempt[x].session # session
             THEN Revoked(attempt[x]) ELSE attempt[x]]
        /\ UNCHANGED <<task, assessed>>
        /\ IF task[t].state = "PLANNING"
           THEN call' = Idle /\ Visited(t)
           ELSE call' = Replan(t) /\ UNCHANGED <<mgr, todo, session, refusal>>

\* Second transaction: an ordinary transition to PLANNING.
ReplanTask ==
  LET t == call.ref.task IN
  /\ call.kind = "REPLAN"
  /\ Contained(t)
  /\ task' = [task EXCEPT ![t] =
       [task[t] EXCEPT !.state = "PLANNING", !.revision = task[t].revision + 1,
                       !.waiting = IF task[t].state = "WAITING_FOR_AUTH" THEN "CLEAR"
                                   ELSE task[t].waiting]]
  /\ call' = Idle
  /\ Visited(t)
  /\ UNCHANGED <<attempt, assessed>>

RetireDone == NextPhase("RETIRE", "RECOVER", {t \in Tasks :
  task[t].state \in Executing \cup {"RUNNABLE", "WAITING_FOR_INPUT", "WAITING_FOR_AUTH"}})

\* recover_startup for one Task of its first scan.
RecoverTask(t) ==
  /\ mgr = "RECOVER" /\ call.kind = "IDLE" /\ t \in todo
  /\ IF Unresolved(t) = {} THEN Visited(t) /\ UNCHANGED <<durable, call>>
     ELSE IF task[t].state \notin Executing THEN Refuse("UNRESOLVED_NOT_EXECUTING")
     ELSE BeginRecovery(t)

RecoverDone == NextPhase("RECOVER", "REPORT",
  {t \in Tasks : task[t].state \in Terminal /\ Unresolved(t) # {}})

\* The second scan of recover_startup: a terminal Task is never moved.
ReportTask(t) ==
  /\ mgr = "REPORT" /\ call.kind = "IDLE" /\ t \in todo
  /\ ReportInventory(t)

ReportDone == NextPhase("REPORT", "READY", {})

-----------------------------------------------------------------------------
(* Resolving subjects. *)

\* resolved_recovery_subject: what the durable record proves.
Resolvable(t, s) ==
  LET a == attempt[<<t, s[2], s[3]>>] IN
  CASE s[1] = "attempt" -> a.result # "NONE"
    [] s[1] = "operation" -> a.op \in {"SUCCEEDED", "FAILED"}
    [] s[1] = "egress" -> a.egress \in {"CONSUMED", "RETIRED"}
    [] s[1] = "write" -> a.write \in {"CONSUMED", "RETIRED"}

Resolve(r) == (assessed \ {r}) \cup {[r EXCEPT !.evidence = "RESOLVED"]}

\* reconcile_recovery_subject_in_transaction; an attempt takes the outcome
\* of its invocation result.
ReconcileSubject(r) ==
  LET t == r.ref.task
      x == <<t, r.subject[2], r.subject[3]>> IN
  /\ Serving
  /\ r.evidence # "RESOLVED"
  /\ Resolvable(t, r.subject)
  /\ assessed' = Resolve(r)
  /\ attempt' = IF r.subject[1] # "attempt" THEN attempt
                ELSE [attempt EXCEPT ![x].step =
                       IF attempt[x].result = "COMPLETED" THEN "SUCCEEDED" ELSE "FAILED"]
  /\ UNCHANGED <<task, process>>

=============================================================================

------------------------ MODULE MCTransitionProtocol ------------------------
(***************************************************************************)
(* Two callers and one Task.  The requests make the interesting cases      *)
(* meet: two that race for the same revision, two that share an id, and a  *)
(* chain that reaches PAUSED, which recovery has to look at, with a caller *)
(* asking for the edge to RECOVERING that only the manager may take.       *)
(***************************************************************************)
EXTENDS TransitionProtocol, TLC

CONSTANTS t1, c1, c2, i1, i2, i3

MCTasks == {t1}
MCClients == {c1, c2}
MCIds == {i1, i2, i3}

Ask(i, n, from, to) ==
  [id |-> ClientId(i), task |-> t1, rev |-> n, from |-> from, to |-> to]

MCRequests ==
  {Ask(i1, 1, "CREATED", "PLANNING"),
   Ask(i2, 1, "CREATED", "CANCELLED"),
   Ask(i2, 2, "PLANNING", "PAUSED"),
   Ask(i3, 3, "PAUSED", "RECOVERING")}

\* The supervisor restarts a manager that died, startup is a loop over a finite
\* list, and the manager serves its queue and answers.  Nothing is assumed of
\* crashes, of new requests, of the creation of Tasks, or of the other caller.
FairSpec ==
  /\ Spec
  /\ WF_vars(Start) /\ WF_vars(Ready) /\ \A t \in Tasks : WF_vars(RecoverStartup(t))
  /\ WF_vars(Handle(c1)) /\ WF_vars(Deliver(c1))

\* A caller that keeps waiting hears an answer, however often the manager dies
\* in between and whatever the other caller does (transition, retry by id).
Answered == Waiting(c1) ~> ~Waiting(c1)

=============================================================================

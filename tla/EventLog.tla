-------------------------------- MODULE EventLog --------------------------------
(***************************************************************************)
(* What a provenance journal promises: for every Task a sequence of events *)
(* that begins with its creation and only grows, in which each transition  *)
(* starts where the one before it ended, and no event id occurs twice.     *)
(***************************************************************************)
EXTENDS Naturals, Sequences

CONSTANTS Tasks, Events

VARIABLE log

Start == [rev |-> 1, state |-> "CREATED"]

\* Where the transitions of a stream have got to
Reached(s) ==
  LET moves == {i \in DOMAIN s : s[i].type = "transitioned"}
  IN IF moves = {} THEN Start
     ELSE LET last == CHOOSE i \in moves : \A j \in moves : j <= i
          IN [rev |-> s[last].from.rev + 1, state |-> s[last].to]

Add(t, e) ==
  /\ e.task = t
  /\ (e.type = "created") = (log[t] = <<>>)
  /\ e.type = "transitioned" => e.from = Reached(log[t])
  /\ \A u \in Tasks : \A i \in DOMAIN log[u] : log[u][i].id # e.id
  /\ log' = [log EXCEPT ![t] = Append(@, e)]

Init == log = [t \in Tasks |-> <<>>]

Next == \E t \in Tasks, e \in Events : Add(t, e)

Spec == Init /\ [][Next]_log
=============================================================================

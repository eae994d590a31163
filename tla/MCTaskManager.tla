---------------------------- MODULE MCTaskManager ----------------------------
(***************************************************************************)
(* The Task Manager within the bounds of TLC.  A behaviour keeps one of    *)
(* several bounds, each made for one of the hard cases: a second attempt   *)
(* after recovery, failing handoffs, an export of the owner beside one of  *)
(* the plan, and two of the owner.                                         *)
(***************************************************************************)
EXTENDS TaskManager

VARIABLES
  bound,   \* the bounds this behaviour keeps
  faults   \* failures that left an export unsettled in a serving manager

Bound(attempts, owned, revision, most, approvals) ==
  [attempts |-> attempts, owned |-> owned, revision |-> revision, faults |-> most,
   approvals |-> approvals]

SecondAttempt == Bound(2, 0, 8, 0, Approval)
FailingHandoff == Bound(1, 0, 6, 1, Approval)
OwnerBeside == Bound(1, 1, 5, 0, {"NONE"})
OwnerTwice == Bound(0, 2, 3, 1, {"NONE"})

Held(sources) == Cardinality({x \in Slots : x[2] \in sources /\ attempt[x].step # "ABSENT"})

Within(b) ==
  /\ Held(Nodes) <= b.attempts
  /\ Held({Owner}) <= b.owned
  /\ \A t \in Tasks : task[t].revision <= b.revision /\ task[t].approval \in b.approvals
  /\ faults <= b.faults

BoundedInit ==
  /\ Init
  /\ bound \in {SecondAttempt, FailingHandoff, OwnerBeside, OwnerTwice}
  /\ faults = 0

BoundedNext ==
  /\ Next
  /\ bound' = bound
  /\ faults' = faults + (IF FailUnrecorded \/ HandoffFails THEN 1 ELSE 0)
  /\ Within(bound)'

BoundedSpec == BoundedInit /\ [][BoundedNext]_<<vars, bound, faults>>

=============================================================================

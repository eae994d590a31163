----------------------------- MODULE MCLiveness -----------------------------
(***************************************************************************)
(* Scenes for TLC of what has to happen in the end.  A run plays the       *)
(* scenes named by Scenes, one behaviour one scene: the start of a         *)
(* manager, a seal, two publications of one output, and a host.  The       *)
(* publications are the module's own variables and constants, the other    *)
(* components are instances.                                               *)
(***************************************************************************)
EXTENDS ArtifactPublication, TLC

CONSTANTS
  Scenes   \* the scenes this run plays

VARIABLES
  scene,   \* the scene that is played
  asked,   \* in the staging scene, a caller waits for a finish to be completed
  failed,  \* and so many of its retries have failed
  \* TaskManager
  managerTask, attempt, assessed, managerMgr, todo, managerCall, managerSession, refusal,
  \* ArtifactStaging
  row, stagingLapsed, authority, lease, file, inode, names, diskNames, proc, acked, published,
  \* LocalCoordinator
  hostSession, sinks, service, stands, policy, hostTask, receipts, imported, cand, approval,
  expired, hostLapsed, opened, handles, started, told, hostCall

\* Two publications of one output with the same bytes.
SameOutput == [p \in {"p1", "p2"} |-> "o1"]
SameContent == [p \in {"p1", "p2"} |-> "c1"]

First == [c |-> "c1", admission |-> "a1", program |-> "p1", owner |-> "owner", sound |-> TRUE]

-----------------------------------------------------------------------------
Manager == INSTANCE TaskManager WITH Tasks <- {"t1"}, Nodes <- {"n1"}, MaxAttempts <- 1,
  MaxRevision <- 4, MaxSessions <- 2, task <- managerTask, mgr <- managerMgr,
  call <- managerCall, session <- managerSession
Staging == INSTANCE ArtifactStaging WITH Writers <- {"w1"}, MaxGen <- 5, MaxSize <- 1,
  MaxEpoch <- 2, lapsed <- stagingLapsed
Host == INSTANCE LocalCoordinator WITH Candidates <- {"c1", "c2"}, Proposals <- {First},
  Resources <- {"egress"}, Policies <- [{"egress"} -> {"ALLOW"}], Principals <- {"owner"},
  CancelIds <- {}, MaxSessions <- 2, MaxActivations <- 1, MaxExpired <- 0, MaxAttempt <- 3,
  session <- hostSession, task <- hostTask, lapsed <- hostLapsed, call <- hostCall

ASSUME Staging!StagingAssumption
ASSUME PublicationAssumption
ASSUME Host!CoordinatorAssumption

managerVars == <<managerTask, attempt, assessed, managerMgr, todo, managerCall, managerSession,
  refusal>>
stagingVars == <<row, stagingLapsed, authority, lease, file, inode, names, diskNames, proc,
  acked, published>>
hostVars == <<hostSession, sinks, service, stands, policy, hostTask, receipts, imported, cand,
  approval, expired, hostLapsed, opened, handles, started, told, hostCall>>
sceneVars == <<scene, asked, failed, managerVars, stagingVars, vars, hostVars>>

\* The variables of a component that has no part in the scene.
Off == "off"
ManagerOff == managerTask = Off /\ attempt = Off /\ assessed = Off /\ managerMgr = Off /\
  todo = Off /\ managerCall = Off /\ managerSession = Off /\ refusal = Off
StagingOff == row = Off /\ stagingLapsed = Off /\ authority = Off /\ lease = Off /\
  file = Off /\ inode = Off /\ names = Off /\ diskNames = Off /\ proc = Off /\ acked = Off /\
  published = Off
HostOff == hostSession = Off /\ sinks = Off /\ service = Off /\ stands = Off /\ policy = Off /\
  hostTask = Off /\ receipts = Off /\ imported = Off /\ cand = Off /\ approval = Off /\
  expired = Off /\ hostLapsed = Off /\ opened = Off /\ handles = Off /\ started = Off /\
  told = Off /\ hostCall = Off

SceneInit ==
  /\ scene \in Scenes /\ asked = FALSE /\ failed = 0
  /\ \/ scene = "manager" /\ Manager!Init /\ StagingOff /\ Init /\ HostOff
     \/ scene = "staging" /\ Staging!Init /\ ManagerOff /\ Init /\ HostOff
     \/ scene = "publication" /\ Init /\ ManagerOff /\ StagingOff /\ HostOff
     \/ scene = "host" /\ Host!Init /\ ManagerOff /\ StagingOff /\ Init

\* One export, of the plan or of the owner; no approval and no answer of a
\* provider.
ManagerNext ==
  /\ Manager!Next
  /\ managerTask'["t1"].approval = "NONE"
  /\ \A x \in Manager!Slots : attempt'[x].result = "NONE"
  /\ Cardinality({x \in Manager!Slots : attempt[x].step # "ABSENT"})' <= 1

\* A retry of a finish takes a generation, which the code has 2^63 of.  Here two
\* retries may fail and the store may be claimed once, and as long as somebody
\* waits for a finish there is a generation left to retry it with: only one
\* other is used, by the first handle.
StagingNext ==
  /\ Staging!Next
  /\ row'.gen # row.gen => row.gen < 1 \/ (asked /\ Staging!RetryFinish)
  /\ asked' = ((asked \/ Staging!FinishBegun') /\ ~Staging!FinishOver')
  /\ failed' = failed + (IF asked /\ Staging!Abandon("manager") THEN 1 ELSE 0)
  /\ failed' <= 2

InManager == scene = "manager" /\ UNCHANGED <<scene, asked, failed, stagingVars, vars, hostVars>>
InStaging == scene = "staging" /\ UNCHANGED <<scene, managerVars, vars, hostVars>>
InPublication == scene = "publication" /\ UNCHANGED <<scene, asked, failed, managerVars, stagingVars, hostVars>>
InHost == scene = "host" /\ UNCHANGED <<scene, asked, failed, managerVars, stagingVars, vars>>

SceneNext ==
  \/ InManager /\ ManagerNext
  \/ InStaging /\ StagingNext
  \/ InPublication /\ Next
  \/ InHost /\ Host!Next

SceneSpec == SceneInit /\ [][SceneNext]_sceneVars

\* Fairness.  A behaviour plays one scene for ever, so that one condition
\* stands for an action of each scene.  The supervisor starts a manager that
\* died, startup and a seal are straight-line code, deadlines pass, and a
\* caller that does not know an outcome repeats its request.  The errors of a
\* handoff to recovery and of an import pass: what is tried again and again
\* succeeds.  Nothing is assumed of crashes, of new requests, or of providers.
InFinish == InStaging /\ StagingNext
Started ==
  \/ InManager /\ Manager!Start
  \/ InFinish /\ Staging!Reconcile
  \/ InPublication /\ (Place \/ Finish \/ Startup)
  \/ InHost /\ Host!Step
RunOn ==
  \/ InManager /\ Manager!Startup
  \/ InFinish /\ Staging!SealStep("manager")
  \/ InPublication /\ Lapse("o1")
Continued == InFinish /\ Staging!RepairStep
Retried == InFinish /\ asked /\ Staging!RetryFinish

Repeated ==
  \/ InManager /\ \E x \in Manager!Slots : Manager!UnknownOutcome(x) /\ Manager!RetryExport(x)
  \/ InPublication /\ Resume("p1")
  \/ InHost /\ Host!ImportSource /\ imported'
RepeatedToo ==
  \/ InManager /\ Manager!HandoffLive
  \/ InPublication /\ Resume("p2")
  \/ InHost /\ Host!RegisterService

\* A host that goes on retries every call that brings its export forward.
Activated ==
  \/ InManager /\ Manager!EnterRecovering
  \/ InHost /\ \E p \in [{"egress"} -> {"ALLOW"}] : Host!ActivatePolicy(p)
Prepared == InHost /\ Host!Prepare(First)
PreparedAgain == InHost /\ Host!PrepareRestarted("c1", "c2")
HandedOver == InHost /\ Host!ExportAgain /\ hostTask'.state = "RECOVERING"
Launched == InHost /\ \E h \in handles : Host!Start(h)
Exported == InHost /\ \E x \in started : Host!Export(x)

FairSpec ==
  /\ SceneSpec
  /\ WF_sceneVars(Started) /\ WF_sceneVars(RunOn)
  /\ WF_sceneVars(Continued) /\ WF_sceneVars(Retried)
  /\ SF_sceneVars(Repeated) /\ SF_sceneVars(RepeatedToo) /\ SF_sceneVars(Activated)
  /\ SF_sceneVars(Prepared) /\ SF_sceneVars(PreparedAgain)
  /\ SF_sceneVars(Launched) /\ SF_sceneVars(Exported) /\ SF_sceneVars(HandedOver)

-----------------------------------------------------------------------------
\* An export of unknown outcome is settled or reaches quarantine, however often
\* the handoff fails or the manager dies on the way, unless it cannot be
\* started any more.
UnknownReachesQuarantine ==
  (scene = "manager" /\ \E x \in Manager!Slots : Manager!UnknownOutcome(x)) ~>
    (scene = "manager" /\ \A x \in Manager!Slots : Manager!InQuarantine(x))

\* A finish that left evidence behind is completed by a retry that does not
\* fail, unless the allocation ends or its authority does.
FinishCompletes ==
  (scene = "staging" /\ Staging!FinishBegun) ~> (scene = "staging" /\ Staging!FinishOver)

\* A publication never stays undecided: once its Task stops recovering for
\* good, repeating the request settles it, at the latest after the deadline
\* of its output, although the residue of an earlier attempt blocks
\* placement.  The two publications are interchangeable.
PendingSettles ==
  <>[](scene = "publication" => ~recovering) =>
    ((scene = "publication" /\ Undecided("p1")) ~>
     (scene = "publication" /\ Settled("p1")))

\* The host retries under the allowing policy until it is told of the export,
\* unless something happened that ends it: the effect is in recovery or
\* closed without effect, the service or the provider is gone, or an error
\* before arming left the operation to the next start.
EventuallyTold ==
  scene = "host" => <>(scene = "host" /\ Host!ToldOrOver)

=============================================================================

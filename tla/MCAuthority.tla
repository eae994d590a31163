---------------------------- MODULE MCAuthority ----------------------------
(***************************************************************************)
(* Scenes of authority for TLC.  A run plays the scenes named by Scenes,   *)
(* one behaviour one scene: a grant used while clocks move and a handle    *)
(* outlives its manager, candidates of one node from reservation to use,   *)
(* and a host that exports through the trusted coordinator.  Clock and     *)
(* grants are the module's own variables and constants, the other          *)
(* components are instances.                                               *)
(***************************************************************************)
EXTENDS GrantDeadlines, TLC

CONSTANTS
  Scenes,  \* the scenes this run plays
  c1, c2

VARIABLES
  scene,   \* the scene that is played
  \* AuthorityCandidates
  candidateLease, candidateCall, backend, now, candidateTask, provider, candidateService, input,
  candidatePolicy, candidateCand, candidateApproval, decision, used, candidateLapsed, withdrawn,
  \* LocalCoordinator
  hostSession, sinks, hostService, stands, hostPolicy, hostTask, receipts, imported, hostCand,
  hostApproval, expired, hostLapsed, opened, handles, started, told, hostCall

Rule(e, r) == [effect |-> e, resource |-> r]

\* The first asks for consent to the export, the second denies before it allows.
Consenting ==
  {<<Rule("ALLOW", "write"), Rule("REQUIRE_APPROVAL", "egress")>>,
   <<Rule("ALLOW", "write"), Rule("DENY", "egress"), Rule("ALLOW", "egress")>>}
Allowing == {<<Rule("ALLOW", "write")>>}
Asking == {<<Rule("REQUIRE_APPROVAL", "write"), Rule("ALLOW", "write")>>}

Proposal(c, admission, program, owner, sound) ==
  [c |-> c, admission |-> admission, program |-> program, owner |-> owner, sound |-> sound]

First == Proposal("c1", "a1", "p1", "owner", TRUE)

\* The same Task with another program under the same and under another
\* admission, with another owner, and with a plan that does not fit.
SeveralProposals ==
  {First,
   Proposal("c2", "a1", "p2", "owner", TRUE),
   Proposal("c2", "a2", "p2", "owner", TRUE),
   Proposal("c2", "a1", "p1", "other", TRUE),
   Proposal("c1", "a1", "p1", "owner", FALSE)}

-----------------------------------------------------------------------------
Deadlines == INSTANCE GrantDeadlines WITH MaxEpoch <- 1, MaxAdjust <- 2
Consent == INSTANCE AuthorityCandidates WITH Candidates <- {"c1"}, Managers <- 1,
  Resources <- {"write", "egress"}, Egress <- "egress", Policies <- Consenting,
  Principals <- {"owner"}, Owner <- "owner", MaxRevision <- 2, MaxTime <- 0, ApprovalLife <- 1,
  MaxChange <- 0, MaxProgram <- 1, MaxUses <- 1, lease <- candidateLease, call <- candidateCall,
  task <- candidateTask, service <- candidateService, policy <- candidatePolicy,
  cand <- candidateCand, approval <- candidateApproval, lapsed <- candidateLapsed
Lapsing == INSTANCE AuthorityCandidates WITH Candidates <- {"c1"}, Managers <- 1,
  Resources <- {"write", "egress"}, Egress <- "egress", Policies <- Consenting,
  Principals <- {"owner"}, Owner <- "owner", MaxRevision <- 1, MaxTime <- 1, ApprovalLife <- 1,
  MaxChange <- 0, MaxProgram <- 1, MaxUses <- 1, lease <- candidateLease, call <- candidateCall,
  task <- candidateTask, service <- candidateService, policy <- candidatePolicy,
  cand <- candidateCand, approval <- candidateApproval, lapsed <- candidateLapsed
Sessions == INSTANCE AuthorityCandidates WITH Candidates <- {"c1"}, Managers <- 2,
  Resources <- {"write"}, Egress <- "egress", Policies <- Allowing, Principals <- {"owner"},
  Owner <- "owner", MaxRevision <- 1, MaxTime <- 0, ApprovalLife <- 1, MaxChange <- 1,
  MaxProgram <- 1, MaxUses <- 1, lease <- candidateLease, call <- candidateCall,
  task <- candidateTask, service <- candidateService, policy <- candidatePolicy,
  cand <- candidateCand, approval <- candidateApproval, lapsed <- candidateLapsed
Provider == INSTANCE AuthorityCandidates WITH Candidates <- {"c1"}, Managers <- 1,
  Resources <- {"write"}, Egress <- "egress", Policies <- Allowing, Principals <- {"owner"},
  Owner <- "owner", MaxRevision <- 1, MaxTime <- 0, ApprovalLife <- 1, MaxChange <- 2,
  MaxProgram <- 1, MaxUses <- 1, lease <- candidateLease, call <- candidateCall,
  task <- candidateTask, service <- candidateService, policy <- candidatePolicy,
  cand <- candidateCand, approval <- candidateApproval, lapsed <- candidateLapsed
Attempts == INSTANCE AuthorityCandidates WITH Candidates <- {c1, c2}, Managers <- 1,
  Resources <- {"write"}, Egress <- "egress", Policies <- Asking, Principals <- {"owner"},
  Owner <- "owner", MaxRevision <- 1, MaxTime <- 0, ApprovalLife <- 1, MaxChange <- 0,
  MaxProgram <- 1, MaxUses <- 1, lease <- candidateLease, call <- candidateCall,
  task <- candidateTask, service <- candidateService, policy <- candidatePolicy,
  cand <- candidateCand, approval <- candidateApproval, lapsed <- candidateLapsed
Host == INSTANCE LocalCoordinator WITH Candidates <- {"c1", "c2"}, Proposals <- {First},
  Resources <- {"egress"}, Policies <- [{"egress"} -> {"ASK"}], Principals <- {"owner"},
  CancelIds <- {"k1"}, MaxSessions <- 2, MaxActivations <- 2, MaxExpired <- 1, MaxAttempt <- 3,
  session <- hostSession, service <- hostService, policy <- hostPolicy, task <- hostTask,
  cand <- hostCand, approval <- hostApproval, lapsed <- hostLapsed, call <- hostCall
Proposed == INSTANCE LocalCoordinator WITH Candidates <- {"c1", "c2"},
  Proposals <- SeveralProposals, Resources <- {"egress"}, Policies <- [{"egress"} -> {"ALLOW"}],
  Principals <- {"owner", "other"}, CancelIds <- {"k1"}, MaxSessions <- 2, MaxActivations <- 1,
  MaxExpired <- 0, MaxAttempt <- 3, session <- hostSession, service <- hostService,
  policy <- hostPolicy, task <- hostTask, cand <- hostCand, approval <- hostApproval,
  lapsed <- hostLapsed, call <- hostCall
Replan == INSTANCE LocalCoordinator WITH Candidates <- {"c1", "c2", "c3"}, Proposals <- {First},
  Resources <- {"egress"}, Policies <- [{"egress"} -> {"ASK"}], Principals <- {"owner"},
  CancelIds <- {}, MaxSessions <- 3, MaxActivations <- 1, MaxExpired <- 0, MaxAttempt <- 3,
  session <- hostSession, service <- hostService, policy <- hostPolicy, task <- hostTask,
  cand <- hostCand, approval <- hostApproval, lapsed <- hostLapsed, call <- hostCall

ASSUME TimeAssumption
ASSUME DeadlineAssumption
ASSUME Deadlines!TimeAssumption
ASSUME Consent!CandidateAssumption
ASSUME Lapsing!CandidateAssumption
ASSUME Sessions!CandidateAssumption
ASSUME Provider!CandidateAssumption
ASSUME Attempts!CandidateAssumption
ASSUME Host!CoordinatorAssumption
ASSUME Proposed!CoordinatorAssumption
ASSUME Replan!CoordinatorAssumption

candidateVars == <<candidateLease, candidateCall, backend, now, candidateTask, provider,
  candidateService, input, candidatePolicy, candidateCand, candidateApproval, decision, used,
  candidateLapsed, withdrawn>>
hostVars == <<hostSession, sinks, hostService, stands, hostPolicy, hostTask, receipts, imported,
  hostCand, hostApproval, expired, hostLapsed, opened, handles, started, told, hostCall>>
sceneVars == <<scene, vars, candidateVars, hostVars>>

\* The variables of a component that has no part in the scene.
Off == "off"
CandidateOff == candidateLease = Off /\ candidateCall = Off /\ backend = Off /\ now = Off /\
  candidateTask = Off /\ provider = Off /\ candidateService = Off /\ input = Off /\
  candidatePolicy = Off /\ candidateCand = Off /\ candidateApproval = Off /\ decision = Off /\
  used = Off /\ candidateLapsed = Off /\ withdrawn = Off
HostOff == hostSession = Off /\ sinks = Off /\ hostService = Off /\ stands = Off /\
  hostPolicy = Off /\ hostTask = Off /\ receipts = Off /\ imported = Off /\ hostCand = Off /\
  hostApproval = Off /\ expired = Off /\ hostLapsed = Off /\ opened = Off /\ handles = Off /\
  started = Off /\ told = Off /\ hostCall = Off

SceneInit ==
  /\ scene \in Scenes
  /\ \/ scene = "handles" /\ Init /\ CandidateOff /\ HostOff
     \/ scene = "deadlines" /\ Deadlines!Init /\ CandidateOff /\ HostOff
     \/ scene = "consent" /\ Consent!Init /\ Init /\ HostOff
     \/ scene = "expiry" /\ Lapsing!Init /\ Init /\ HostOff
     \/ scene = "sessions" /\ Sessions!Init /\ Init /\ HostOff
     \/ scene = "provider" /\ Provider!Init /\ Init /\ HostOff
     \/ scene = "attempts" /\ Attempts!Init /\ Init /\ HostOff
     \/ scene = "host" /\ Host!Init /\ Init /\ CandidateOff
     \/ scene = "proposals" /\ Proposed!Init /\ Init /\ CandidateOff
     \/ scene = "replan" /\ Replan!Init /\ Init /\ CandidateOff

SceneNext ==
  \/ scene = "handles" /\ Next /\ UNCHANGED <<scene, candidateVars, hostVars>>
  \/ scene = "deadlines" /\ Deadlines!Next /\ UNCHANGED <<scene, candidateVars, hostVars>>
  \/ scene = "consent" /\ Consent!Next /\ UNCHANGED <<scene, vars, hostVars>>
  \/ scene = "expiry" /\ Lapsing!Next /\ UNCHANGED <<scene, vars, hostVars>>
  \/ scene = "sessions" /\ Sessions!Next /\ UNCHANGED <<scene, vars, hostVars>>
  \/ scene = "provider" /\ Provider!Next /\ UNCHANGED <<scene, vars, hostVars>>
  \/ scene = "attempts" /\ Attempts!Next /\ UNCHANGED <<scene, vars, hostVars>>
  \/ scene = "host" /\ Host!Next /\ UNCHANGED <<scene, vars, candidateVars>>
  \/ scene = "proposals" /\ Proposed!Next /\ UNCHANGED <<scene, vars, candidateVars>>
  \/ scene = "replan" /\ Replan!Next /\ UNCHANGED <<scene, vars, candidateVars>>

SceneSpec == SceneInit /\ [][SceneNext]_sceneVars

-----------------------------------------------------------------------------
\* Authority is issued only on what holds at the moment of issue: no rule of
\* the active policy denies a resource, every resource that needs consent has
\* the owner's, given for this candidate under this very activation and
\* neither withdrawn nor lapsed, and the provider stands as it was pinned
\* (finalize_pending_authority_candidate, whose first reads are stale).
IssuedOnCurrentConsent ==
  [][/\ scene = "consent" => Consent!IssuedOnCurrentConsent
     /\ scene = "expiry" => Lapsing!IssuedOnCurrentConsent
     /\ scene = "sessions" => Sessions!IssuedOnCurrentConsent
     /\ scene = "provider" => Provider!IssuedOnCurrentConsent]_sceneVars

\* Authority that was taken back, whose provider was, or that a later attempt
\* replaced, is neither launched nor used, by any manager.
WithdrawnStaysUnused ==
  [][/\ scene = "consent" => Consent!WithdrawnStaysUnused
     /\ scene = "expiry" => Lapsing!WithdrawnStaysUnused
     /\ scene = "sessions" => Sessions!WithdrawnStaysUnused
     /\ scene = "provider" => Provider!WithdrawnStaysUnused
     /\ scene = "attempts" => Attempts!WithdrawnStaysUnused]_sceneVars

\* However often a host asks, its bytes are delivered at most once, it is
\* told of a delivery only when there was one, and one program runs.
DeliveredOnce ==
  /\ scene = "host" => Host!TypeOK
  /\ scene = "host" => Host!NoSecondDelivery
  /\ scene = "host" => Host!ToldIsDelivered
  /\ scene = "host" => Host!LeftoversAreUnused
  /\ scene = "proposals" => Proposed!OneProgram
  /\ scene = "replan" => Replan!NoSecondDelivery
  /\ scene = "replan" => Replan!ToldIsDelivered

\* A destination is opened under the consent of that moment, and never after
\* the cancellation of the Task.
HostUnderConsent ==
  [][/\ scene = "host" => Host!OpensUnderConsent
     /\ scene = "host" => Host!CancelledStaysQuiet
     /\ scene = "replan" => Replan!OpensUnderConsent]_sceneVars

\* What the owner decides can be carried out: consent that stands admits the
\* finalization, a prompt that is shown can be answered, a waiting Task waits
\* for questions that were asked, and a Task that did not start can be
\* cancelled.
ChoiceTakesEffect ==
  /\ scene = "consent" => Consent!ApprovedIsFinalizable
  /\ scene = "consent" => Consent!PromptIsAnswerable
  /\ scene = "expiry" => Lapsing!ApprovedIsFinalizable
  /\ scene = "expiry" => Lapsing!PromptIsAnswerable
  /\ scene = "host" => Host!OwnerCanCancel
  /\ scene = "host" => Host!WaitsForLatest

\* After a restart that retired unused authority, "a new candidate and fresh
\* grants" (docs/77) can be had, when nothing was denied, withdrawn or
\* expired and policy, service and provider are as they were.
ReplannedCanProceed == scene = "replan" => Replan!ReplannedCanProceed

\* The candidates of the scene "attempts" are interchangeable.
Symmetry == Permutations({c1, c2})

=============================================================================

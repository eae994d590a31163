---------------------------- MODULE MCDocuments ----------------------------
(***************************************************************************)
(* Scenes of what is read and judged, for TLC.  A run plays the scenes     *)
(* named by Scenes, one behaviour one scene: the semantic registry whose   *)
(* guards are lost, programs of one or two nodes and every graph of three, *)
(* a registry directory that changes while it is loaded, and contracts     *)
(* with the manifests of providers.  The semantic registry is the module's *)
(* own variables and constants, the other components are instances.        *)
(***************************************************************************)
EXTENDS RegistryStore, MCPrograms, MCBundles, MCContracts

CONSTANTS
  Scenes   \* the scenes this run plays

VARIABLES
  scene,   \* the scene that is played
  \* IRValidator
  doc, pc, diags, truncated, sawError, found, indegree, ready, visited, irReport,
  \* RegistryBundle
  directory, snapshot, mode, bundlePhase, pending, bundleBytes, types, capabilities, registry,
  edits,
  \* ContractConformance
  contract, typed, conformancePhase, manifest, against, options, conformanceReport

\* Two snapshots that share a contract.
SharedContract == "s1" :> {"c0", "c1"} @@ "s2" :> {"c0", "c2"}

-----------------------------------------------------------------------------
Programs == INSTANCE IRValidator WITH Documents <- ProgramDocs, Registry <- Snapshot,
  Types <- {"text", "number", "artifact.file"}, ArtifactTypes <- {"artifact.file"},
  Verified <- TRUE, MaxBytes <- 8, MaxDepth <- 9, SupportedDepth <- 3, MaxNodes <- 3,
  MaxPorts <- 3, MaxRequests <- 3, MaxFallbacks <- 2, RequestedDiagnostics <- 2,
  OutputDiagnostics <- 3, report <- irReport
Graphs == INSTANCE IRValidator WITH Documents <- GraphDocs, Registry <- Snapshot,
  Types <- {"text", "number", "artifact.file"}, ArtifactTypes <- {"artifact.file"},
  Verified <- TRUE, MaxBytes <- 8, MaxDepth <- 9, SupportedDepth <- 3, MaxNodes <- 3,
  MaxPorts <- 2, MaxRequests <- 1, MaxFallbacks <- 1, RequestedDiagnostics <- 0,
  OutputDiagnostics <- 3, report <- irReport
Bundle == INSTANCE RegistryBundle WITH Contracts <- Records, Snapshots <- SnapshotFiles,
  Directories <- Folders, Paths <- {1, 2, 3}, Modes <- {"Strict", "BootstrapGenerate"},
  MaxFileBytes <- 3, MaxTotalBytes <- 6, MaxContracts <- 3, MaxSources <- 3, MaxEdits <- 1,
  phase <- bundlePhase, bytes <- bundleBytes
Envelope == INSTANCE ContractConformance WITH Contracts <- Envelopes,
  TypeContracts <- PlainTypes, Manifests <- Declarations, Rivals <- {}, Settings <- Production,
  phase <- conformancePhase, report <- conformanceReport
Identity == INSTANCE ContractConformance WITH Contracts <- Variants, TypeContracts <- TypePairs,
  Manifests <- Offers, Rivals <- {OpenTo}, Settings <- AllSettings, phase <- conformancePhase,
  report <- conformanceReport

ASSUME RegistryAssumption
ASSUME Programs!LimitsAssumption
ASSUME Graphs!LimitsAssumption
ASSUME Bundle!BundleAssumption
ASSUME Envelope!SettingsAssumption
ASSUME Identity!SettingsAssumption

irVars == <<doc, pc, diags, truncated, sawError, found, indegree, ready, visited, irReport>>
bundleVars == <<directory, snapshot, mode, bundlePhase, pending, bundleBytes, types,
  capabilities, registry, edits>>
conformanceVars == <<contract, typed, conformancePhase, manifest, against, options,
  conformanceReport>>
sceneVars == <<scene, vars, irVars, bundleVars, conformanceVars>>

\* The variables of a component that has no part in the scene.
Off == "off"
IrOff == doc = Off /\ pc = Off /\ diags = Off /\ truncated = Off /\ sawError = Off /\
  found = Off /\ indegree = Off /\ ready = Off /\ visited = Off /\ irReport = Off
BundleOff == directory = Off /\ snapshot = Off /\ mode = Off /\ bundlePhase = Off /\
  pending = Off /\ bundleBytes = Off /\ types = Off /\ capabilities = Off /\ registry = Off /\
  edits = Off
ConformanceOff == contract = Off /\ typed = Off /\ conformancePhase = Off /\ manifest = Off /\
  against = Off /\ options = Off /\ conformanceReport = Off

\* The semantic registry has no part in the scene and is a new store's.
AtRest == Init /\ stamps = {}

SceneInit ==
  /\ scene \in Scenes
  /\ \/ scene = "registry" /\ Init /\ IrOff /\ BundleOff /\ ConformanceOff
     \/ scene = "programs" /\ Programs!Init /\ AtRest /\ BundleOff /\ ConformanceOff
     \/ scene = "graphs" /\ Graphs!Init /\ AtRest /\ BundleOff /\ ConformanceOff
     \/ scene = "bundle" /\ Bundle!Init /\ AtRest /\ IrOff /\ ConformanceOff
     \/ scene = "envelopes" /\ Envelope!Init /\ AtRest /\ IrOff /\ BundleOff
     \/ scene = "identity" /\ Identity!Init /\ AtRest /\ IrOff /\ BundleOff

SceneNext ==
  \/ scene = "registry" /\ Next /\ UNCHANGED <<scene, irVars, bundleVars, conformanceVars>>
  \/ scene = "programs" /\ Programs!Next /\ UNCHANGED <<scene, vars, bundleVars, conformanceVars>>
  \/ scene = "graphs" /\ Graphs!Next /\ UNCHANGED <<scene, vars, bundleVars, conformanceVars>>
  \/ scene = "bundle" /\ Bundle!Next /\ UNCHANGED <<scene, vars, irVars, conformanceVars>>
  \/ scene = "envelopes" /\ Envelope!Next /\ UNCHANGED <<scene, vars, irVars, bundleVars>>
  \/ scene = "identity" /\ Identity!Next /\ UNCHANGED <<scene, vars, irVars, bundleVars>>

SceneSpec == SceneInit /\ [][SceneNext]_sceneVars

-----------------------------------------------------------------------------
\* An accepted program runs under any mixture of its fallbacks, cannot fall
\* back for ever, stays inside the published summary and keeps its meaning
\* under its identity; the bound on findings never changes a verdict, and
\* cycles are found exactly.
ValidatorSound ==
  /\ scene = "programs" => Programs!TypeOK
  /\ scene = "programs" => Programs!SchemaFailureRejects
  /\ scene = "programs" => Programs!TruncationKeepsVerdict
  /\ scene = "programs" => Programs!FallbacksTerminate
  /\ scene = "programs" => Programs!AnyMixtureRuns
  /\ scene = "programs" => Programs!NothingBeyondSummary
  /\ scene = "programs" => Programs!IdentityFixesMeaning
  /\ scene = "graphs" => Graphs!CycleFoundExactly
  /\ scene = "graphs" => Graphs!UnusedFoundExactly

\* A loaded bundle is what its snapshot declares, refers to nothing outside
\* itself and was read within the limits, although files change during the
\* load; and an undisturbed load refuses no acceptable bundle.
LoadedIsDeclared ==
  /\ scene = "bundle" => Bundle!TypeOK
  /\ scene = "bundle" => Bundle!WhatWasDeclared
  /\ scene = "bundle" => Bundle!Closed
  /\ scene = "bundle" => Bundle!BoundedReading
  /\ scene = "bundle" => Bundle!AcceptsTheAcceptable

\* No accepted provider reaches further than its contract allows, equal
\* identities get equal verdicts, every registered contract can be provided,
\* and a cut report keeps its verdict.
ConformanceSound ==
  /\ scene = "envelopes" => Envelope!TypeOK
  /\ scene = "envelopes" => Envelope!RepresentationsFit
  /\ scene = "envelopes" => Envelope!ReachIsAllowed
  /\ scene = "envelopes" => Envelope!EveryContractProvidable
  /\ scene = "identity" => Identity!SameIdentitySameVerdict
  /\ scene = "identity" => Identity!ReportIsHonest

=============================================================================

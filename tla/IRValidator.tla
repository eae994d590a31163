----------------------------- MODULE IRValidator -----------------------------
(***************************************************************************)
(* The AIOS-IR validator: the gates on the document, the semantic phases   *)
(* of `analyze' in their order, the bounded diagnostic collector and the   *)
(* report (crates/aios-ir/src).  A run of the machine is one call of       *)
(* `validate_bytes' on one document against one registry snapshot.         *)
(*                                                                         *)
(* A document is a record: what the gates before the typed program look at *)
(* (bytes, syntax, version, long strings, schema failures) and the program *)
(* itself: inputs, a sequence of nodes, outputs.  Names, types, messages   *)
(* and JSON pointers are opaque; the phases, the graph algorithms and the  *)
(* order in which findings are pushed are the code's.                      *)
(***************************************************************************)
EXTENDS Naturals, FiniteSets, Sequences, SequencesExt, Functions

CONSTANTS
  Documents,        \* the documents a caller may submit
  Registry,         \* capability reference -> its contract
  Types,            \* the type references of the snapshot
  ArtifactTypes,    \* the ones in the `artifact.' namespace
  Verified,         \* was the snapshot loaded with strict verification
  MaxBytes, MaxDepth, SupportedDepth, MaxNodes, MaxPorts, MaxRequests, MaxFallbacks,
  RequestedDiagnostics,        \* the caller's max_diagnostics
  OutputDiagnostics            \* MAX_OUTPUT_DIAGNOSTICS

\* What the instances have to satisfy.
LimitsAssumption ==
  /\ ArtifactTypes \subseteq Types
  /\ {MaxBytes, MaxDepth, SupportedDepth, MaxNodes, MaxPorts, MaxRequests, MaxFallbacks} \subseteq Nat
  /\ RequestedDiagnostics \in Nat
  /\ OutputDiagnostics \in Nat \ {0}

VARIABLES
  doc,          \* the document under validation
  pc,           \* the phase to run next; "done" once a report exists
  diags,        \* DiagnosticCollector.diagnostics
  truncated,    \* DiagnosticCollector.truncated
  sawError,     \* DiagnosticCollector.saw_error
  found,        \* ghost: everything ever pushed, kept or suppressed
  indegree, ready, visited,     \* the locals of validate_acyclic
  report        \* the ValidationReport, or None

vars == <<doc, pc, diags, truncated, sawError, found, indegree, ready, visited, report>>

None == <<>>
Nodes == doc.nodes
Ids == {Nodes[i].id : i \in DOMAIN Nodes}
Node(id) == Nodes[CHOOSE i \in DOMAIN Nodes : Nodes[i].id = id]
Contract(n) == Registry[n.capability]
PerNode(Findings(_)) == FlattenSeq([i \in DOMAIN Nodes |-> Findings(Nodes[i])])

-----------------------------------------------------------------------------
(* Findings and the bounded collector.                                     *)

Finding(code, id) == [code |-> code, node |-> id]
When(cond, f) == IF cond THEN <<f>> ELSE <<>>
ForEach(S, f) == [i \in 1..Cardinality(S) |-> f]

Severity(code) ==
  IF code \in {"IR_GRAPH_UNUSED_PURE_NODE", "IR_LIMIT_DIAGNOSTICS"} THEN "warning" ELSE "error"

MaxDiagnostics ==
  IF RequestedDiagnostics = 0 THEN 1
  ELSE IF RequestedDiagnostics > OutputDiagnostics THEN OutputDiagnostics ELSE RequestedDiagnostics

HasErrors(fs) == \E i \in DOMAIN fs : Severity(fs[i].code) = "error"

(* Pushes fs one after the other; what does not fit is suppressed.         *)
Push(fs) ==
  LET all == diags \o fs IN
  /\ sawError' = (sawError \/ HasErrors(fs))
  /\ diags' = SubSeq(all, 1, IF Len(all) < MaxDiagnostics THEN Len(all) ELSE MaxDiagnostics)
  /\ truncated' = (truncated \/ Len(all) > MaxDiagnostics)
  /\ found' = found \o fs

(* The collector's report: a notice replaces the tail when room was short. *)
Finish ==
  IF truncated /\ MaxDiagnostics > 1
  THEN Append(SubSeq(diags, 1, MaxDiagnostics - 1), Finding("IR_LIMIT_DIAGNOSTICS", None))
  ELSE diags

-----------------------------------------------------------------------------
(* The gates before the typed program.                                     *)

(* A number outside the exact range is read as zero inside metadata, which *)
(* is not part of the program's meaning, and refused anywhere else.        *)
NumbersReadable(d) == d.number # "semantic"

TooDeep(d) == d.depth > IF MaxDepth < SupportedDepth THEN MaxDepth ELSE SupportedDepth

Syntax(d) ==
  CASE TooDeep(d) -> "deep"
    [] ~TooDeep(d) /\ ~NumbersReadable(d) -> "invalid"
    [] OTHER -> d.syntax

ParseFindings ==
  LET s == Syntax(doc) IN
  When(s = "deep", Finding("IR_LIMIT_DEPTH", None))
  \o When(s = "duplicate", Finding("IR_PARSE_DUPLICATE_KEY", None))
  \o When(s = "invalid", Finding("IR_PARSE_INVALID", None))

GateFindings ==
  IF ~Verified THEN <<Finding("REGISTRY_SNAPSHOT_HASH_MISMATCH", None)>>
  ELSE IF doc.bytes > MaxBytes THEN <<Finding("IR_LIMIT_DOCUMENT_SIZE", None)>>
  ELSE ParseFindings

Interfaces ==
  {Cardinality(DOMAIN doc.inputs), Cardinality(DOMAIN doc.outputs)}
  \cup UNION {{Cardinality(DOMAIN Nodes[i].inputs), Cardinality(DOMAIN Nodes[i].outputs)} : i \in DOMAIN Nodes}

LimitFindings ==
  When(Len(Nodes) > MaxNodes, Finding("IR_LIMIT_NODE_COUNT", None))
  \o When(\E c \in Interfaces : c > MaxPorts, Finding("IR_LIMIT_PORT_COUNT", None))
  \o When(\E i \in DOMAIN Nodes : Len(Nodes[i].requests) > MaxRequests,
          Finding("IR_LIMIT_AUTHORITY_REQUEST_COUNT", None))
  \o When(\E i \in DOMAIN Nodes : Len(Nodes[i].fallbacks) > MaxFallbacks,
          Finding("IR_LIMIT_FALLBACK_COUNT", None))
  \o When(doc.longString, Finding("IR_LIMIT_STRING_LENGTH", None))

PrecheckFindings ==
  IF doc.version # "0.1" THEN <<Finding("IR_VERSION_UNSUPPORTED", None)>>
  ELSE PerNode(LAMBDA n :
    When(n.onError \in {"retry", "replan"} /\ ~n.budget, Finding("IR_FAILURE_POLICY_UNBOUNDED", n.id))
    \o When(n.egress = "deny" /\ n.destinations # {}, Finding("IR_EGRESS_CONTRADICTION", n.id)))

(* A schema failure is a plain one with its code, or a failed oneOf with,  *)
(* per branch, the set of that branch's failures.  The branches are told   *)
(* apart by a constant: a branch failure is [tag |-> TRUE] when it is the  *)
(* mismatch of the constant at `path', and names the property it misses.   *)
Mismatches(branch) == {e \in branch : e.tag}

CommonMissing(branches) ==
  {e.missing : e \in {x \in branches[1] : x.missing # ""
                        /\ \A k \in DOMAIN branches : \E y \in branches[k] : y.missing = x.missing}}

(* resolve_discriminated_one_of: which of the branches was meant.          *)
Resolve(f) ==
  LET paths == {e.path : e \in UNION {Mismatches(f.branches[k]) : k \in DOMAIN f.branches}}
      meant == {k \in DOMAIN f.branches : Mismatches(f.branches[k]) = {}} IN
  CASE ~f.object -> "wrong_type"
    [] f.object /\ CommonMissing(f.branches) # {} -> "missing"
    [] f.object /\ CommonMissing(f.branches) = {} /\ Cardinality(paths) # 1 -> "ambiguous"
    [] f.object /\ CommonMissing(f.branches) = {} /\ Cardinality(paths) = 1 ->
         IF Cardinality(meant) = 1 THEN "selected"
         ELSE IF meant # {} THEN "ambiguous"
         ELSE IF f.sameKind THEN "unsupported" ELSE "wrong_type"

Meant(f) == CHOOSE k \in DOMAIN f.branches : Mismatches(f.branches[k]) = {}

(* Each failure of the branch that was meant, once.                        *)
SelectedFindings(f) ==
  LET es == SetToSeq(f.branches[Meant(f)]) IN [i \in DOMAIN es |-> Finding(es[i].code, None)]

FailureFindings(f) ==
  IF ~f.oneOf THEN <<Finding(f.code, None)>>
  ELSE CASE Resolve(f) = "selected" -> SelectedFindings(f)
         [] Resolve(f) = "missing" -> <<Finding("IR_SCHEMA_REQUIRED", None)>>
         [] Resolve(f) = "unsupported" -> <<Finding("IR_SCHEMA_ENUM", None)>>
         [] OTHER -> <<Finding("IR_SCHEMA_TYPE", None)>>

(* The schema's failures are read lazily and no further than the first one *)
(* the collector suppresses.                                               *)
SchemaFindings ==
  LET room == MaxDiagnostics + 1 - Len(diags)
      fs == FlattenSeq([i \in DOMAIN doc.schema |-> FailureFindings(doc.schema[i])]) IN
  SubSeq(fs, 1, IF Len(fs) < room THEN Len(fs) ELSE room)

-----------------------------------------------------------------------------
(* References.                                                             *)

DuplicateFindings ==
  FlattenSeq([i \in DOMAIN Nodes |->
    When(\E j \in 1..i - 1 : Nodes[j].id = Nodes[i].id, Finding("IR_GRAPH_DUPLICATE_NODE_ID", Nodes[i].id))])

(* A value reference is <<"input", name>> or <<"node", id, port>>.         *)
ValueRefFindings(ref, id) ==
  CASE ref[1] = "input" ->
         When(ref[2] \notin DOMAIN doc.inputs, Finding("IR_REFERENCE_INPUT_NOT_FOUND", id))
    [] ref[1] = "node" /\ ref[2] \notin Ids -> <<Finding("IR_REFERENCE_NODE_NOT_FOUND", id)>>
    [] OTHER -> When(ref[3] \notin DOMAIN Node(ref[2]).outputs, Finding("IR_REFERENCE_PORT_NOT_FOUND", id))

ConsumedInputs(n) == {r[2] : r \in {x \in Range(n.inputs) : x[1] = "input"}}

(* An authority request is <<action, resource>>; a resource <<"input", x>> *)
(* selects a program input the node consumes.                              *)
SelectorFindings(n) ==
  FlattenSeq([k \in DOMAIN n.requests |->
    LET res == n.requests[k][2] IN
    When(res[1] = "input" /\ (res[2] \notin DOMAIN doc.inputs \/ res[2] \notin ConsumedInputs(n)),
         Finding("IR_REFERENCE_INPUT_NOT_FOUND", n.id))])

RefSeq(refs, id) ==
  FlattenSeq([k \in 1..Cardinality(DOMAIN refs) |-> ValueRefFindings(refs[SetToSeq(DOMAIN refs)[k]], id)])

ReferenceFindings ==
  PerNode(LAMBDA n : RefSeq(n.inputs, n.id) \o SelectorFindings(n))
  \o FlattenSeq([k \in 1..Cardinality(DOMAIN doc.outputs) |->
       LET ref == doc.outputs[SetToSeq(DOMAIN doc.outputs)[k]] IN
       IF ref[1] = "input" THEN <<Finding("IR_OUTPUT_NOT_FOUND", None)>> ELSE ValueRefFindings(ref, None)])

-----------------------------------------------------------------------------
(* Types, roles and ports.                                                 *)

Producers(n) == {r[2] : r \in {x \in Range(n.inputs) : x[1] = "node"}}
ConsumersOf(id) == {m \in Ids : id \in Producers(Node(m))}

ExpectedRole(n) == IF n.kind = "invoke" THEN "ordinary" ELSE "verifier"
RequiredPorts(ports) == {p \in DOMAIN ports : ports[p].required}

PortShapeFindings(n, c) ==
  LET mismatch == Finding("IR_CAPABILITY_PORT_MISMATCH", n.id) IN
  ForEach(RequiredPorts(c.inputs) \ DOMAIN n.inputs, mismatch)
  \o ForEach(DOMAIN n.inputs \ DOMAIN c.inputs, mismatch)
  \o ForEach(RequiredPorts(c.outputs) \ DOMAIN n.outputs, mismatch)
  \o ForEach({p \in DOMAIN n.outputs : p \notin DOMAIN c.outputs \/ c.outputs[p].type # n.outputs[p]}, mismatch)

RefType(ref) == IF ref[1] = "input" THEN doc.inputs[ref[2]].type ELSE Node(ref[2]).outputs[ref[3]]
MayBeAbsent(ref) == ref[1] = "input" /\ ~doc.inputs[ref[2]].required

FlowTypeFindings(n, c) ==
  LET bound == DOMAIN n.inputs \cap DOMAIN c.inputs IN
  ForEach({p \in bound : MayBeAbsent(n.inputs[p]) /\ c.inputs[p].required},
          Finding("IR_OPTIONAL_INPUT_TO_REQUIRED_PORT", n.id))
  \o ForEach({p \in bound : RefType(n.inputs[p]) # c.inputs[p].type}, Finding("IR_TYPE_MISMATCH", n.id))

TypeFindings ==
  ForEach({x \in DOMAIN doc.inputs : doc.inputs[x].type \notin Types}, Finding("IR_TYPE_NOT_FOUND", None))
  \o PerNode(LAMBDA n :
       ForEach({p \in DOMAIN n.outputs : n.outputs[p] \notin Types}, Finding("IR_TYPE_NOT_FOUND", n.id))
       \o IF n.capability \notin DOMAIN Registry THEN <<Finding("IR_CAPABILITY_NOT_FOUND", n.id)>>
          ELSE When(Contract(n).role # ExpectedRole(n), Finding("IR_CAPABILITY_ROLE_MISMATCH", n.id))
               \o When(n.class \notin Contract(n).classes, Finding("IR_EXECUTION_CLASS_INCOMPATIBLE", n.id))
               \o PortShapeFindings(n, Contract(n))
               \o FlowTypeFindings(n, Contract(n)))

-----------------------------------------------------------------------------
(* Effects, authority and egress.                                          *)

AuthorityEffects == [artifact_read |-> "ARTIFACT_READ", artifact_write |-> "ARTIFACT_WRITE",
  network_connect |-> "NETWORK", data_egress |-> "DATA_EGRESS", external_send |-> "EXTERNAL_MESSAGE",
  secret_use |-> "SECRET_ACCESS", state_write |-> "PERSISTENT_STATE", device_use |-> "DEVICE_ACCESS",
  system_change |-> "SYSTEM_CHANGE"]

Actions(n) == {n.requests[k][1] : k \in DOMAIN n.requests}
Resources(n, action) == {n.requests[k][2] : k \in {j \in DOMAIN n.requests : n.requests[j][1] = action}}

NonLocalOnly(n) == n.locality # {} /\ "local" \notin n.locality

PlacementEffects(n) ==
  IF ~NonLocalOnly(n) THEN {}
  ELSE {"NETWORK"} \cup (IF DOMAIN n.inputs # {} THEN {"DATA_EGRESS"} ELSE {})

NodeEffects(n) ==
  LET derived == (Contract(n).requiredEffects \ {"PURE"})
                 \cup {AuthorityEffects[a] : a \in Actions(n) \cap DOMAIN AuthorityEffects}
                 \cup PlacementEffects(n) IN
  IF derived = {} THEN {"PURE"} ELSE derived

RequestFindings(n, c) ==
  FlattenSeq([k \in DOMAIN n.requests |->
    When(\E j \in 1..k - 1 : n.requests[j] = n.requests[k], Finding("IR_AUTHORITY_DUPLICATE_REQUEST", n.id))
    \o When(n.requests[k][1] \notin c.authority, Finding("IR_AUTHORITY_CLASS_NOT_ALLOWED", n.id))
    \o When(n.requests[k][1] \notin DOMAIN AuthorityEffects, Finding("IR_EFFECT_CLASS_NOT_ALLOWED", n.id))])

ArtifactPorts(n, c) ==
  {p \in DOMAIN n.inputs \cap DOMAIN c.inputs :
     /\ n.inputs[p][1] = "input"
     /\ {c.inputs[p].type, doc.inputs[n.inputs[p][2]].type} \subseteq ArtifactTypes}

ArtifactReadFindings(n, c) ==
  ForEach({p \in ArtifactPorts(n, c) : n.inputs[p] \notin Resources(n, "artifact_read")},
          Finding("IR_REQUIRED_AUTHORITY_MISSING", n.id))

PlacementFindings(n) ==
  ForEach({a \in {"network_connect", "data_egress"} \ Actions(n) : AuthorityEffects[a] \in PlacementEffects(n)},
          Finding("IR_REQUIRED_AUTHORITY_MISSING", n.id))

RequiredAuthorityFindings(n, c) ==
  ForEach(c.requiredAuthority \ Actions(n), Finding("IR_REQUIRED_AUTHORITY_MISSING", n.id))
  \o IF "artifact_read" \in c.requiredAuthority \cap Actions(n) THEN ArtifactReadFindings(n, c) ELSE <<>>

EgressFindings(n, c) ==
  When(n.egress \notin c.egressModes, Finding("IR_EGRESS_NOT_ALLOWED", n.id))
  \o IF n.egress = "deny"
     THEN When(n.destinations # {} \/ Resources(n, "data_egress") # {} \/ "DATA_EGRESS" \in NodeEffects(n),
               Finding("IR_EGRESS_CONTRADICTION", n.id))
     ELSE When(n.destinations = {}
               \/ Resources(n, "data_egress") # {<<"destination", d>> : d \in n.destinations},
               Finding("IR_EGRESS_AUTHORITY_MISMATCH", n.id))

EffectFindings ==
  PerNode(LAMBDA n : LET c == Contract(n) IN
    RequestFindings(n, c)
    \o RequiredAuthorityFindings(n, c)
    \o PlacementFindings(n)
    \o ForEach(NodeEffects(n) \ c.effects, Finding("IR_EFFECT_CLASS_NOT_ALLOWED", n.id))
    \o EgressFindings(n, c)
    \o When(n.cache # "never" /\ n.class # "deterministic", Finding("IR_CACHE_EXECUTION_CLASS_MISMATCH", n.id)))

-----------------------------------------------------------------------------
(* Fallbacks.                                                              *)

Capabilities == DOMAIN Registry \cup UNION {{Nodes[i].capability} \cup Range(Nodes[i].fallbacks) : i \in DOMAIN Nodes}

FallbackRelation ==
  [c \in Capabilities |-> UNION {Range(Nodes[i].fallbacks) : i \in {j \in DOMAIN Nodes : Nodes[j].capability = c}}]

(* The closure a breadth-first search with a visited set computes: after k *)
(* rounds, what can be reached from `start' in at most k steps.            *)
Reached(next, start) ==
  LET r[k \in 0..Cardinality(DOMAIN next)] ==
        IF k = 0 THEN {start} ELSE r[k - 1] \cup UNION {next[c] : c \in r[k - 1] \cap DOMAIN next}
  IN  r[Cardinality(DOMAIN next)]

FallbackPathExists(start, target) == target \in Reached(FallbackRelation, start)

ConsumedPorts(n) ==
  {r[3] : r \in {x \in UNION {Range(Nodes[i].inputs) : i \in DOMAIN Nodes} \cup Range(doc.outputs) :
                   x[1] = "node" /\ x[2] = n.id}}

PortsBoundOnly(n, primary, f) ==
  /\ \A p \in DOMAIN n.inputs : p \in DOMAIN f.inputs /\ f.inputs[p].type = primary.inputs[p].type
  /\ RequiredPorts(f.inputs) \subseteq DOMAIN n.inputs
  /\ \A p \in ConsumedPorts(n) : p \in DOMAIN f.outputs /\ f.outputs[p].type = n.outputs[p]

FallbackPortsCompatible(n, primary, f) ==
  /\ \A p \in DOMAIN n.inputs :
       /\ p \in DOMAIN primary.inputs /\ p \in DOMAIN f.inputs
       /\ f.inputs[p].type = primary.inputs[p].type
       /\ ~(f.inputs[p].required /\ MayBeAbsent(n.inputs[p]))
  /\ RequiredPorts(f.inputs) \subseteq DOMAIN n.inputs
  /\ \A p \in ConsumedPorts(n) : p \in DOMAIN f.outputs /\ f.outputs[p].type = n.outputs[p]

FallbackEnvelopeFindings(n, f) ==
  When(n.class \notin f.classes, Finding("IR_EXECUTION_CLASS_INCOMPATIBLE", n.id))
  \o When(f.role # ExpectedRole(n), Finding("IR_CAPABILITY_ROLE_MISMATCH", n.id))
  \o When(~(f.effects \ {"PURE"} \subseteq NodeEffects(n)), Finding("IR_FALLBACK_EFFECT_BROADENING", n.id))
  \o When(~(f.authority \subseteq Actions(n)), Finding("IR_FALLBACK_AUTHORITY_BROADENING", n.id))
  \o When(n.egress = "deny" /\ f.egressModes # {"deny"}, Finding("IR_FALLBACK_EGRESS_BROADENING", n.id))

OneFallbackFindings(n, ref) ==
  LET recursive == Finding("IR_FAILURE_POLICY_RECURSIVE_FALLBACK", n.id) IN
  IF ref = n.capability THEN <<recursive>>
  ELSE When(FallbackPathExists(ref, n.capability), recursive)
       \o IF ref \notin DOMAIN Registry THEN <<Finding("IR_CAPABILITY_NOT_FOUND", n.id)>>
          ELSE LET f == Registry[ref] IN
               (IF "artifact_read" \in f.requiredAuthority THEN ArtifactReadFindings(n, f) ELSE <<>>)
               \o When(~FallbackPortsCompatible(n, Contract(n), f), Finding("IR_FALLBACK_PORT_MISMATCH", n.id))
               \o FallbackEnvelopeFindings(n, f)

FallbackFindings ==
  PerNode(LAMBDA n : FlattenSeq([k \in DOMAIN n.fallbacks |-> OneFallbackFindings(n, n.fallbacks[k])]))

-----------------------------------------------------------------------------
(* Warnings, the summary and the semantic identity.                        *)

Pure(n) == NodeEffects(n) = {"PURE"}
OutputNodes == {r[2] : r \in {x \in Range(doc.outputs) : x[1] = "node"}}

Useful(n) ==
  \E m \in Reached([id \in Ids |-> ConsumersOf(id)], n.id) : m \in OutputNodes \/ ~Pure(Node(m))

UnusedFindings == PerNode(LAMBDA n : When(Pure(n) /\ ~Useful(n), Finding("IR_GRAPH_UNUSED_PURE_NODE", n.id)))

NodeSummary(n) ==
  [capability |-> n.capability, class |-> n.class, effects |-> NodeEffects(n),
   authority |-> Actions(n), egress |-> n.egress, gate |-> n.kind = "verify"]

Summary ==
  LET effects == UNION {NodeEffects(Node(id)) : id \in Ids} IN
  [nodes |-> [id \in Ids |-> NodeSummary(Node(id))],
   effects |-> IF Cardinality(effects) > 1 THEN effects \ {"PURE"} ELSE effects,
   authority |-> UNION {Actions(Node(id)) : id \in Ids},
   barriers |-> {id \in Ids : Node(id).kind = "verify"},
   opaque |-> \E id \in Ids : Node(id).class = "opaque" \/ "LEGACY_OPAQUE" \in NodeEffects(Node(id))]

(* Set-like collections lose their order, the fallback list keeps it.      *)
NormalizeNode(n) ==
  [capability |-> n.capability, kind |-> n.kind, class |-> n.class, cache |-> n.cache,
   inputs |-> n.inputs, outputs |-> n.outputs, requests |-> Range(n.requests),
   egress |-> n.egress, destinations |-> n.destinations, locality |-> n.locality,
   onError |-> n.onError, fallbacks |-> n.fallbacks]

(* The semantic view of a document: its nodes by id, whatever their order. *)
Normalize(d) ==
  [inputs |-> d.inputs, outputs |-> d.outputs,
   nodes |-> {<<d.nodes[i].id, NormalizeNode(d.nodes[i])>> : i \in DOMAIN d.nodes}]

-----------------------------------------------------------------------------
Invalid ==
  report' = [valid |-> FALSE, diagnostics |-> Finish', truncated |-> truncated', summary |-> None, hash |-> None]

(* The phases are ordered; the first one that leaves an error ends the     *)
(* call with a rejection.                                                  *)
Phase(name, next, findings) ==
  /\ pc = name
  /\ Push(findings)
  /\ IF sawError' THEN pc' = "done" /\ Invalid ELSE pc' = next /\ UNCHANGED report
  /\ UNCHANGED doc

Locals == <<indegree, ready, visited>>

Gate == Phase("gate", "limits", GateFindings) /\ UNCHANGED Locals
InspectLimits == Phase("limits", "prechecks", LimitFindings) /\ UNCHANGED Locals
DomainPrechecks == Phase("prechecks", "schema", PrecheckFindings) /\ UNCHANGED Locals
ValidateSchema == Phase("schema", "index", SchemaFindings) /\ UNCHANGED Locals
IndexNodes == Phase("index", "references", DuplicateFindings) /\ UNCHANGED Locals
ValidateReferences == Phase("references", "edges", ReferenceFindings) /\ UNCHANGED Locals

(* Kahn's algorithm: count each node's distinct producers, then repeatedly *)
(* retire a node that waits for none.                                      *)
CountEdges ==
  /\ pc = "edges"
  /\ indegree' = [id \in Ids |-> Cardinality(Producers(Node(id)))]
  /\ ready' = {id \in Ids : Producers(Node(id)) = {}}
  /\ visited' = 0
  /\ pc' = "retire"
  /\ UNCHANGED <<doc, diags, truncated, sawError, found, report>>

RetireNode ==
  /\ pc = "retire" /\ ready # {}
  /\ LET id == CHOOSE x \in ready : TRUE IN
     LET degree == [m \in Ids |-> IF m \in ConsumersOf(id) THEN indegree[m] - 1 ELSE indegree[m]] IN
     /\ indegree' = degree
     /\ ready' = (ready \ {id}) \cup {m \in ConsumersOf(id) : degree[m] = 0}
  /\ visited' = visited + 1
  /\ UNCHANGED <<doc, pc, diags, truncated, sawError, found, report>>

ValidateAcyclic ==
  /\ ready = {}
  /\ Phase("retire", "types", When(visited # Cardinality(Ids), Finding("IR_GRAPH_CYCLE", None)))
  /\ UNCHANGED Locals

ValidateTypes == Phase("types", "effects", TypeFindings) /\ UNCHANGED Locals
ValidateEffects == Phase("effects", "fallbacks", EffectFindings) /\ UNCHANGED Locals
ValidateFallbacks == Phase("fallbacks", "unused", FallbackFindings) /\ UNCHANGED Locals
WarnUnused == Phase("unused", "accept", UnusedFindings) /\ UNCHANGED Locals

Accept ==
  /\ pc = "accept"
  /\ pc' = "done"
  /\ report' = [valid |-> TRUE, diagnostics |-> Finish, truncated |-> truncated, summary |-> Summary,
                hash |-> Normalize(doc)]
  /\ UNCHANGED <<doc, diags, truncated, sawError, found, Locals>>

Init ==
  /\ doc \in Documents
  /\ pc = "gate"
  /\ diags = <<>> /\ truncated = FALSE /\ sawError = FALSE /\ found = <<>>
  /\ indegree = None /\ ready = {} /\ visited = 0
  /\ report = None

Next ==
  \/ Gate \/ InspectLimits \/ DomainPrechecks \/ ValidateSchema
  \/ IndexNodes \/ ValidateReferences
  \/ CountEdges \/ RetireNode \/ ValidateAcyclic
  \/ ValidateTypes \/ ValidateEffects \/ ValidateFallbacks \/ WarnUnused \/ Accept

Spec == Init /\ [][Next]_vars

-----------------------------------------------------------------------------
Phases == {"gate", "limits", "prechecks", "schema", "index", "references", "edges", "retire", "types",
           "effects", "fallbacks", "unused", "accept", "done"}

(* The collector never holds more than its bound, the loop of              *)
(* validate_acyclic never retires more nodes than there are, and a report  *)
(* exists exactly when the call is over.                                   *)
TypeOK ==
  /\ pc \in Phases
  /\ Len(diags) <= MaxDiagnostics /\ truncated \in BOOLEAN /\ sawError \in BOOLEAN
  /\ visited \in 0..Len(Nodes) /\ ready \subseteq Ids
  /\ (report # None) <=> (pc = "done")

Accepted == pc = "done" /\ report.valid

(* A set of things each of which waits for another one of the set.         *)
HasCycle(S, next(_)) == \E T \in SUBSET S : T # {} /\ \A x \in T : next(x) \cap T # {}

(* validate_acyclic reports a cycle exactly when some nodes feed each other *)
(* in a ring, however many nodes hang off it (semantics.rs:188-242).       *)
CycleFoundExactly ==
  (pc \notin {"gate", "limits", "prechecks", "schema", "index", "references", "edges", "retire"} /\ indegree # None)
  => ((\E i \in DOMAIN found : found[i].code = "IR_GRAPH_CYCLE")
      <=> HasCycle(Ids, LAMBDA id : Producers(Node(id))))

(* A document the schema refuses is never accepted, whichever branch of a  *)
(* oneOf its failures are reported under (schema.rs:47-75, 168-274).       *)
SchemaFailureRejects == Accepted => doc.schema = <<>>

(* A rejection always shows an error, a suppressed finding always shows as *)
(* truncation, and suppression never turns a rejected document into an     *)
(* accepted one (diagnostics.rs:23-60, docs/70 line 82).                   *)
TruncationKeepsVerdict ==
  pc = "done" =>
    /\ report.valid <=> ~HasErrors(found)
    /\ report.valid <=> ~HasErrors(report.diagnostics)
    /\ report.truncated <=> Len(found) > MaxDiagnostics

(* In an accepted program the fallback lists of all its nodes together     *)
(* contain no ring of capabilities, so every chain of fallbacks ends       *)
(* (semantics.rs:966-1002, docs/16 line 71).                               *)
FallbacksTerminate ==
  Accepted => ~HasCycle(Capabilities, LAMBDA c : FallbackRelation[c])

Candidates(n) == {n.capability} \cup Range(n.fallbacks)

(* In an accepted program any mixture of primaries and fallbacks can run:  *)
(* each candidate's required ports are bound to values that exist whatever *)
(* optional inputs are absent, and have the candidate's type whichever     *)
(* candidate produced them (semantics.rs:350-496, 1004-1056).              *)
AnyMixtureRuns ==
  Accepted => \A id \in Ids : \A c \in Candidates(Node(id)) :
    LET n == Node(id) k == Registry[c] IN
    /\ k.role = ExpectedRole(n) /\ n.class \in k.classes
    /\ \A p \in RequiredPorts(k.inputs) : p \in DOMAIN n.inputs /\ ~MayBeAbsent(n.inputs[p])
    /\ \A p \in DOMAIN n.inputs :
         LET ref == n.inputs[p] IN
         IF ref[1] = "input" THEN doc.inputs[ref[2]].type = k.inputs[p].type
         ELSE \A d \in Candidates(Node(ref[2])) :
                ref[3] \in DOMAIN Registry[d].outputs /\ Registry[d].outputs[ref[3]].type = k.inputs[p].type

(* What any candidate of a node may need is in the summary a person or the *)
(* policy engine sees: its required effects and authority, every artifact  *)
(* it reads by name, and data leaves only under policy egress to exactly   *)
(* the destinations asked for (semantics.rs:499-790, 857-940).             *)
NothingBeyondSummary ==
  Accepted => \A id \in Ids : \A c \in Candidates(Node(id)) :
    LET n == Node(id) k == Registry[c] s == report.summary.nodes[id] IN
    /\ k.requiredEffects \ {"PURE"} \subseteq s.effects
    /\ s.effects \ {"PURE"} \subseteq report.summary.effects
    /\ k.requiredAuthority \subseteq s.authority
    /\ "artifact_read" \in k.requiredAuthority =>
         \A p \in DOMAIN n.inputs :
           (k.inputs[p].type \in ArtifactTypes /\ n.inputs[p][1] = "input") =>
             n.inputs[p] \in Resources(n, "artifact_read")
    /\ (NonLocalOnly(n) /\ n.inputs # None) => "DATA_EGRESS" \in s.effects
    /\ ("DATA_EGRESS" \in s.effects \/ (c # n.capability /\ k.egressModes # {"deny"})) =>
         /\ s.egress = "policy"
         /\ n.destinations # {}
         /\ Resources(n, "data_egress") = {<<"destination", d>> : d \in n.destinations}

(* A pure node is reported as unused exactly when no chain of consumers    *)
(* leads from it to a program output or to an effectful node               *)
(* (semantics.rs:1058-1123): the useful nodes are the smallest set closed  *)
(* under "feeds a useful node".                                            *)
UnusedFoundExactly ==
  Accepted =>
    LET base == {id \in Ids : id \in OutputNodes \/ ~Pure(Node(id))}
        closed(S) == base \subseteq S /\ \A id \in Ids : ConsumersOf(id) \cap S # {} => id \in S
        useful == {id \in Ids : \A S \in SUBSET Ids : closed(S) => id \in S} IN
    {found[i].node : i \in DOMAIN found} = Ids \ useful

Reordered(s) == {[i \in DOMAIN s |-> s[f[i]]] : f \in Bijection(DOMAIN s, DOMAIN s)}

(* The same nodes in another order, with requests and fallbacks reordered. *)
Rearranged(d) ==
  {[d EXCEPT !.nodes = ns] : ns \in Reordered(d.nodes)}
  \cup UNION {{[d EXCEPT !.nodes[i].requests = rs, !.nodes[i].fallbacks = fs] :
                 rs \in Reordered(d.nodes[i].requests), fs \in Reordered(d.nodes[i].fallbacks)}
              : i \in DOMAIN d.nodes}

(* The semantic identity of an accepted program does not depend on the     *)
(* order in which its nodes and requests were written, and does depend on  *)
(* the order in which its fallbacks are tried (normalize.rs:17-100).       *)
IdentityFixesMeaning ==
  Accepted => \A d \in Rearranged(doc) :
    (Normalize(d) = report.hash) <=>
      \A i, j \in DOMAIN Nodes : d.nodes[i].id = Nodes[j].id => d.nodes[i].fallbacks = Nodes[j].fallbacks

=============================================================================

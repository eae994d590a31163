------------------------ MODULE ContractConformance ------------------------
(***************************************************************************)
(* What a capability contract must satisfy to enter a registry, and what a  *)
(* provider may declare under it (aios-registry loader.rs, conformance.rs,  *)
(* hash.rs, authority.rs).  A contract is an envelope: effects, authority   *)
(* and egress that are required and allowed.  A provider declares its own   *)
(* effects and actions and says where it runs; what it can reach follows    *)
(* from where it runs.  Lists are sets, with a flag for a repeated member;  *)
(* identifiers, lengths and wording are a flag that they are well formed.   *)
(***************************************************************************)
EXTENDS Naturals, Sequences, FiniteSets, TLC

CONSTANTS
  Contracts,     \* capability contracts a publisher may write
  TypeContracts, \* functions from type names to type contracts
  Manifests,     \* provider manifests, by what they declare
  Rivals,        \* other contracts a provider may have been written against
  Settings       \* [strict, bypass, limit]: a verified registry, and the options

\* What the instances have to satisfy.
SettingsAssumption == Settings \subseteq [strict : BOOLEAN, bypass : BOOLEAN, limit : Nat]

VARIABLES
  contract,  \* the capability contract
  typed,     \* the type contracts its ports name
  phase,     \* "authored", "active", "refused", "reported"
  manifest,  \* what a provider declared
  against,   \* the contract the provider was written against
  options,   \* ProviderConformanceOptions, and whether the registry is strict
  report     \* ProviderConformanceReport

vars == <<contract, typed, phase, manifest, against, options, report>>

\* effect_for_authority_class: a closed table.
EffectFor ==
  "artifact.read" :> "ARTIFACT_READ" @@ "artifact.write" :> "ARTIFACT_WRITE"
  @@ "network.connect" :> "NETWORK" @@ "data.egress" :> "DATA_EGRESS"
  @@ "external.send" :> "EXTERNAL_MESSAGE" @@ "secret.use" :> "SECRET_ACCESS"
  @@ "state.write" :> "PERSISTENT_STATE" @@ "device.use" :> "DEVICE_ACCESS"
  @@ "system.change" :> "SYSTEM_CHANGE"

Mapped(authorities) == authorities \subseteq DOMAIN EffectFor
EffectsOf(authorities) == {EffectFor[a] : a \in authorities \cap DOMAIN EffectFor}
Protected(effects) == effects \ {"PURE", "LEGACY_OPAQUE"}

-----------------------------------------------------------------------------
(* Contracts. *)

\* validate_type_contract; representations are named once.
TypeSound(t) == t.formed /\ ~t.repeats

\* Identifiers, lengths, ports and lists of a capability contract.
Formed(c) ==
  /\ c.formed /\ ~c.repeats
  /\ c.outputs # {}
  /\ \A p \in c.inputs, q \in c.outputs : p.name = q.name => p.type = q.type
  /\ c.exec # {} /\ c.allowEff # {} /\ c.egress # {}

\* What is required must be allowed, and nothing required means PURE will do.
EnvelopesNest(c) ==
  /\ c.reqEff = {} => "PURE" \in c.allowEff
  /\ c.reqEff \subseteq c.allowEff /\ c.reqAuth \subseteq c.allowAuth

\* validate_capability_egress_consistency
EgressAgrees(c) ==
  /\ ("POLICY" \in c.egress) = ("DATA_EGRESS" \in c.allowEff)
  /\ ("POLICY" \in c.egress) = ("data.egress" \in c.allowAuth)
  /\ ("DENY" \notin c.egress) = ("DATA_EGRESS" \in c.reqEff)
  /\ ("DENY" \notin c.egress) = ("data.egress" \in c.reqAuth)

PureStandsAlone(c) == "PURE" \in c.reqEff => c.allowEff \subseteq {"PURE"}

\* Each protected effect that is required comes with its authority, and each
\* authority with its effect.
AuthorityMatchesEffects(c) ==
  /\ Protected(c.reqEff) \subseteq EffectsOf(c.reqAuth)
  /\ Mapped(c.reqAuth) /\ EffectsOf(c.reqAuth) \subseteq c.reqEff
  /\ Mapped(c.allowAuth) /\ EffectsOf(c.allowAuth) \subseteq c.allowEff

ContractSound(c) ==
  /\ Formed(c) /\ EnvelopesNest(c) /\ EgressAgrees(c)
  /\ PureStandsAlone(c) /\ AuthorityMatchesEffects(c)

\* capability_contract_semantic_view: all but the prose; "meaning" stands
\* for the version, role, determinism and error classes.
ContractView(c) ==
  [ports |-> <<{<<p.name, p.type, p.required>> : p \in c.inputs}, {<<p.name, p.type, p.required>> : p \in c.outputs}>>,
   exec |-> c.exec, reqEff |-> c.reqEff, allowEff |-> c.allowEff, reqAuth |-> c.reqAuth,
   allowAuth |-> c.allowAuth, egress |-> c.egress, suite |-> c.suite, meaning |-> c.meaning]

\* type_contract_semantic_view
TypeView(t) == [reps |-> t.reps, meaning |-> t.meaning]

-----------------------------------------------------------------------------
(* Providers. *)

\* The codes of the checks that failed, in their order.
Failed(checks) ==
  LET f == SelectSeq(checks, LAMBDA k : k[1]) IN [i \in 1..Len(f) |-> f[i][2]]

Remote(runtime, claim) == runtime = "REMOTE" \/ claim.locality \ {"LOCAL"} # {}

\* Mutant: a network default counts for nothing.
NeedsNetworkRemote(runtime, claim) == Remote(runtime, claim)

NeedsNetwork(runtime, claim) == claim.network \/ Remote(runtime, claim)

SendsInputs(c, runtime, claim) == Remote(runtime, claim) /\ c.inputs # {}

\* Required fields, uniqueness and the isolation floor.
DeclarationChecks(claim) ==
  <<<<claim.effects = {} \/ claim.locality = {} \/ ~claim.shaped \/ claim.repeats \in {"LOCALITY", "ACTIONS"},
      "DECLARATION_INVALID">>,
    <<~claim.isolated, "ISOLATION_INCOMPATIBLE">>>>

\* Execution class, authority and effects against the envelope.
EnvelopeChecks(c, claim) ==
  <<<<claim.exec \notin c.exec, "EXECUTION_CLASS_INCOMPATIBLE">>,
    <<claim.repeats = "ACTIONS" \/ ~(claim.actions \subseteq c.allowAuth), "AUTHORITY_NOT_ALLOWED">>,
    <<~(c.reqAuth \subseteq claim.actions), "REQUIRED_AUTHORITY_MISSING">>,
    <<~Mapped(claim.actions) \/ ~(EffectsOf(claim.actions) \subseteq claim.effects), "REQUIRED_EFFECT_MISSING">>,
    <<\/ claim.repeats = "EFFECTS" \/ ~(claim.effects \subseteq c.allowEff)
      \/ "PURE" \in claim.effects /\ claim.effects # {"PURE"}, "EFFECT_NOT_ALLOWED">>,
    <<~(c.reqEff \subseteq claim.effects), "REQUIRED_EFFECT_MISSING">>>>

\* Where it runs against what it declares.
NetworkChecks(c, runtime, claim) ==
  LET implied == (IF NeedsNetwork(runtime, claim) THEN {"NETWORK"} ELSE {})
                 \cup (IF SendsInputs(c, runtime, claim) THEN {"DATA_EGRESS"} ELSE {}) IN
  <<<<runtime = "REMOTE" /\ "LOCAL" \in claim.locality, "DECLARATION_INVALID">>,
    <<NeedsNetwork(runtime, claim) /\ "NETWORK" \notin claim.effects, "REQUIRED_EFFECT_MISSING">>,
    <<SendsInputs(c, runtime, claim) /\ "DATA_EGRESS" \notin claim.effects, "REQUIRED_EFFECT_MISSING">>,
    <<~(Protected(claim.effects \cup implied) \subseteq EffectsOf(claim.actions)), "REQUIRED_AUTHORITY_MISSING">>>>

\* Whether data leaves, by what is declared and where it runs.
EgressChecks(c, runtime, claim) ==
  LET egress == IF \/ SendsInputs(c, runtime, claim) \/ "DATA_EGRESS" \in claim.effects
                   \/ "data.egress" \in claim.actions
                THEN "POLICY" ELSE "DENY" IN
  <<<<egress \notin c.egress, "EGRESS_NOT_ALLOWED">>>>

\* The input of the name, or else the output.
PortOf(c, name) ==
  CHOOSE p \in c.inputs \cup c.outputs :
    p.name = name /\ (p \in c.inputs \/ \A q \in c.inputs : q.name # name)

\* The conformance suite, and the representations of each port.
SuiteChecks(c, t, claim) ==
  LET unknown == {p \in DOMAIN claim.reps : p \notin {q.name : q \in c.inputs \cup c.outputs}}
      foreign == {p \in DOMAIN claim.reps \ unknown :
                    claim.repeats = "REPRESENTATIONS" \/ ~(claim.reps[p] \subseteq t[PortOf(c, p).type].reps)} IN
  <<<<claim.suite # c.suite, "SUITE_MISMATCH">>>>
  \o [i \in 1..Cardinality(unknown \cup foreign) |-> <<TRUE, "PORT_OR_TYPE_MISMATCH">>]

\* The contract the claim names, in the exact version, with its hash.
HashChecks(c, claim, a, bypass) ==
  <<<<IF claim.hashed THEN ContractView(a) # ContractView(c) ELSE ~bypass, "CONTRACT_HASH_MISMATCH">>>>

\* validate_provider_capability, with its early returns.
ClaimChecks(c, t, runtime, claim, a, bypass) ==
  DeclarationChecks(claim) \o
  (CASE claim.names = "MALFORMED" -> <<<<TRUE, "DECLARATION_INVALID">>>>
     [] claim.names \in {"ABSENT", "OTHER_VERSION"} -> <<<<TRUE, "CONTRACT_NOT_FOUND">>>>
     [] OTHER -> HashChecks(c, claim, a, bypass) \o EnvelopeChecks(c, claim)
                 \o NetworkChecks(c, runtime, claim) \o EgressChecks(c, runtime, claim)
                 \o SuiteChecks(c, t, claim))

Repeated(provides, i) == \E j \in 1..(i - 1) : provides[j].names = provides[i].names

\* The checks of each claim that is not a repetition, up to the n-th.
ManifestChecks(c, t, m, a, bypass) ==
  LET UpTo[n \in 0..Len(m.provides)] ==
        IF n = 0 THEN <<>>
        ELSE UpTo[n - 1] \o (IF Repeated(m.provides, n) THEN <<<<TRUE, "DECLARATION_INVALID">>>>
                             ELSE ClaimChecks(c, t, m.runtime, m.provides[n], a, bypass))
  IN UpTo[Len(m.provides)]

\* DiagnosticCollector::push
Push(collector, code, limit) ==
  IF Len(collector.diagnostics) >= limit THEN [collector EXCEPT !.invalid = TRUE, !.truncated = TRUE]
  ELSE [collector EXCEPT !.invalid = TRUE, !.diagnostics = Append(@, code)]

Collected(codes, limit) ==
  LET Through[n \in 0..Len(codes)] ==
        IF n = 0 THEN [diagnostics |-> <<>>, truncated |-> FALSE, invalid |-> FALSE]
        ELSE Push(Through[n - 1], codes[n], limit)
  IN Through[Len(codes)]

\* A claim that reached the hash and had none, where that is permitted.
Bypassed(m, bypass) ==
  bypass /\ \E i \in 1..Len(m.provides) :
              m.provides[i].names = "EXACT" /\ ~m.provides[i].hashed /\ ~Repeated(m.provides, i)

\* validate_provider_manifest
Report(c, t, m, a, o) ==
  LET header == <<<<~o.strict, "DECLARATION_INVALID">>, <<~m.identified \/ m.provides = <<>>, "DECLARATION_INVALID">>>>
      end == Collected(Failed(header \o ManifestChecks(c, t, m, a, o.bypass)), o.limit) IN
  [valid |-> ~end.invalid, diagnostics |-> end.diagnostics, truncated |-> end.truncated,
   bypassed |-> Bypassed(m, o.bypass)]

-----------------------------------------------------------------------------
NoManifest == [identified |-> FALSE, runtime |-> "NONE", provides |-> <<>>]
NoReport == [valid |-> FALSE, diagnostics |-> <<>>, truncated |-> FALSE, bypassed |-> FALSE]
NoOptions == [strict |-> FALSE, bypass |-> FALSE, limit |-> 0]

\* The contract is offered to build_registry.
Activate ==
  /\ phase = "authored"
  /\ phase' = IF ContractSound(contract) /\ \A n \in DOMAIN typed : TypeSound(typed[n]) THEN "active" ELSE "refused"
  /\ UNCHANGED <<contract, typed, manifest, against, options, report>>

\* A provider written against some contract declares itself.
Declare(m, a, o) ==
  /\ phase' = "reported" /\ manifest' = m /\ against' = a /\ options' = o
  /\ report' = Report(contract, typed, m, a, o)
  /\ UNCHANGED <<contract, typed>>

Init ==
  /\ contract \in Contracts /\ typed \in TypeContracts
  /\ phase = "authored" /\ manifest = NoManifest
  /\ against = contract /\ options = NoOptions /\ report = NoReport

Next ==
  \/ Activate
  \/ phase = "active" /\ \E m \in Manifests, a \in {contract} \cup Rivals, o \in Settings : Declare(m, a, o)

Spec == Init /\ [][Next]_vars

-----------------------------------------------------------------------------
TypeOK ==
  /\ phase \in {"authored", "active", "refused", "reported"}
  /\ Len(report.diagnostics) <= options.limit
  /\ (phase = "reported") = (manifest.runtime # NoManifest.runtime)

Claims == {manifest.provides[i] : i \in 1..Len(manifest.provides)}

\* What a provider can do, from where it runs and what it may call.
Reach(claim) ==
  LET remote == manifest.runtime = "REMOTE" \/ claim.locality # {"LOCAL"} IN
  claim.effects \cup {EffectFor[a] : a \in claim.actions}
  \cup (IF remote \/ claim.network THEN {"NETWORK"} ELSE {})
  \cup (IF remote /\ contract.inputs # {} THEN {"DATA_EGRESS"} ELSE {})

\* All a conforming provider can reach is allowed by the contract, and each
\* protected effect goes with an authority class the contract allows; a pure
\* provider has neither authority nor network.  Inputs of a contract whose data
\* may not leave are never served elsewhere (validate_provider_capability).
ReachIsAllowed ==
  report.valid => \A claim \in Claims :
    /\ Reach(claim) \subseteq contract.allowEff
    /\ Protected(Reach(claim)) \subseteq EffectsOf(claim.actions \cap contract.allowAuth)
    /\ "DATA_EGRESS" \in Reach(claim) => "POLICY" \in contract.egress
    /\ "PURE" \in claim.effects => Reach(claim) = {"PURE"} /\ claim.actions = {}

\* A contract that entered the registry can be provided: its demands do not
\* exclude each other (validate_capability_contract).
EveryContractProvidable ==
  phase = "active" =>
    \E m \in Manifests : Report(contract, typed, m, contract, [strict |-> TRUE, bypass |-> FALSE, limit |-> 1]).valid

\* The representations of a conforming provider are known to the type of every
\* port they are for, where an input and an output have one name too.
RepresentationsFit ==
  report.valid => \A claim \in Claims : \A p \in contract.inputs \cup contract.outputs :
    p.name \in DOMAIN claim.reps => claim.reps[p.name] \subseteq typed[p.type].reps

\* Contracts and types with the same identity are interchangeable: no verdict
\* depends on what the semantic view leaves out.
SameIdentitySameVerdict ==
  phase = "reported" =>
    \A c \in {d \in Contracts : d # contract} :
      ContractView(c) = ContractView(contract) /\ ContractSound(c) =>
        \A t \in TypeContracts :
          (\A n \in DOMAIN typed : TypeView(t[n]) = TypeView(typed[n]) /\ TypeSound(t[n]))
          => Report(c, t, manifest, against, options) = report

\* A report says what was found although it is cut short, even to nothing, and
\* a verdict without a hash is marked (DiagnosticCollector).
ReportIsHonest ==
  phase = "reported" =>
    /\ report.valid = (report.diagnostics = <<>> /\ ~report.truncated)
    /\ report.valid => options.strict /\ \A claim \in Claims :
         IF claim.hashed THEN ContractView(against) = ContractView(contract) ELSE report.bypassed
=============================================================================

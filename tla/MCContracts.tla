---------------------------- MODULE MCContracts ----------------------------
(***************************************************************************)
(* Capability contracts, type contracts and provider manifests that differ *)
(* in one thing each, and every small envelope and declaration.            *)
(***************************************************************************)
EXTENDS Naturals, TLC

Setting(strict, bypass, limit) == [strict |-> strict, bypass |-> bypass, limit |-> limit]
Production == {Setting(TRUE, FALSE, 1)}
AllSettings == {Setting(TRUE, FALSE, 0), Setting(TRUE, TRUE, 1), Setting(FALSE, FALSE, 0), Setting(TRUE, TRUE, 2)}

Slot(name, type, required) == [name |-> name, type |-> type, required |-> required]
InSlot == Slot("in", "t", TRUE)
OutSlot == Slot("out", "t", TRUE)

Basic ==
  [inputs |-> {InSlot}, outputs |-> {OutSlot}, exec |-> {"ISOLATED"}, reqEff |-> {}, allowEff |-> {"PURE"},
   reqAuth |-> {}, allowAuth |-> {}, egress |-> {"DENY"}, suite |-> "s", meaning |-> "m",
   formed |-> TRUE, repeats |-> FALSE, prose |-> "a"]

\* Every envelope over four effects, three authority classes and both modes.
Effects == {"PURE", "NETWORK", "DATA_EGRESS", "LEGACY_OPAQUE"}
Authorities == {"network.connect", "data.egress", "custom"}
Envelopes ==
  {[Basic EXCEPT !.inputs = i, !.reqEff = re, !.allowEff = ae, !.reqAuth = ra, !.allowAuth = aa, !.egress = e] :
     i \in {{}, {InSlot}}, re \in SUBSET Effects, ae \in SUBSET Effects, ra \in SUBSET Authorities,
     aa \in SUBSET Authorities, e \in SUBSET {"DENY", "POLICY"}}

Kind(reps) == [reps |-> reps, meaning |-> "k", formed |-> TRUE, repeats |-> FALSE, prose |-> "a"]
PlainTypes == {[t |-> Kind({"csv"})]}

Claim ==
  [names |-> "EXACT", hashed |-> TRUE, exec |-> "ISOLATED", effects |-> {"PURE"}, actions |-> {},
   locality |-> {"LOCAL"}, network |-> FALSE, isolated |-> TRUE, shaped |-> TRUE, repeats |-> "NONE",
   suite |-> "s", reps |-> <<>>]
Manifest(runtime, provides) == [identified |-> TRUE, runtime |-> runtime, provides |-> provides]

\* Every declaration of effects, actions and places.
Declarations ==
  {Manifest(r, <<[Claim EXCEPT !.effects = e, !.actions = a, !.locality = l, !.network = n]>>) :
     r \in {"LOCAL", "REMOTE"}, e \in SUBSET Effects, a \in SUBSET Authorities,
     l \in SUBSET {"LOCAL", "CLOUD"}, n \in BOOLEAN}

-----------------------------------------------------------------------------
\* Contracts that differ in one thing each, and types likewise.
OpenTo ==
  [Basic EXCEPT !.reqEff = {"DATA_EGRESS"}, !.allowEff = {"DATA_EGRESS", "NETWORK"}, !.reqAuth = {"data.egress"},
               !.allowAuth = {"data.egress", "network.connect"}, !.egress = {"POLICY"}]
Wide == [Basic EXCEPT !.allowEff = {"PURE", "NETWORK", "LEGACY_OPAQUE"}, !.allowAuth = {"network.connect"}]
VariantsOf(b) ==
  {b, [b EXCEPT !.prose = "b"], [b EXCEPT !.meaning = "n"], [b EXCEPT !.suite = "other"],
   [b EXCEPT !.exec = {"NATIVE"}], [b EXCEPT !.exec = {}], [b EXCEPT !.inputs = {}], [b EXCEPT !.outputs = {}],
   [b EXCEPT !.inputs = {Slot("in", "t", FALSE)}], [b EXCEPT !.inputs = {Slot("in", "u", TRUE)}],
   [b EXCEPT !.inputs = {Slot("out", "u", TRUE)}], [b EXCEPT !.outputs = {Slot("result", "u", TRUE)}],
   [b EXCEPT !.egress = {"DENY", "POLICY"}], [b EXCEPT !.repeats = TRUE], [b EXCEPT !.formed = FALSE]}
Variants == VariantsOf(Basic) \cup VariantsOf(OpenTo) \cup VariantsOf(Wide)

TypePairs ==
  {[t |-> a, u |-> b] :
     a \in {Kind({"csv"}), [Kind({"csv"}) EXCEPT !.prose = "b"], [Kind({"csv"}) EXCEPT !.repeats = TRUE]},
     b \in {Kind({"csv", "arrow"}), Kind({"arrow"})}}

Full == [Claim EXCEPT !.effects = {"DATA_EGRESS"}, !.actions = {"data.egress"}]
OnPort(port, reps) == port :> reps
ClaimVariants ==
  UNION {{b, [b EXCEPT !.hashed = FALSE], [b EXCEPT !.names = "ABSENT"], [b EXCEPT !.names = "MALFORMED"],
          [b EXCEPT !.names = "OTHER_VERSION"], [b EXCEPT !.isolated = FALSE], [b EXCEPT !.shaped = FALSE],
          [b EXCEPT !.exec = "NATIVE"], [b EXCEPT !.suite = "other"],
          [b EXCEPT !.repeats = "EFFECTS"], [b EXCEPT !.repeats = "ACTIONS"],
          [b EXCEPT !.reps = OnPort("in", {"csv"}), !.repeats = "REPRESENTATIONS"],
          [b EXCEPT !.reps = OnPort("in", {"arrow"})], [b EXCEPT !.reps = OnPort("out", {"csv", "arrow"})],
          [b EXCEPT !.reps = OnPort("out", {"arrow"})], [b EXCEPT !.reps = OnPort("none", {})],
          [b EXCEPT !.locality = {"CLOUD"}]} : b \in {Claim, Full}}
Offers ==
  {Manifest("LOCAL", <<a>>) : a \in ClaimVariants}
  \cup {Manifest("LOCAL", <<Claim, a>>) : a \in ClaimVariants}
  \cup {Manifest("LOCAL", <<>>), [Manifest("LOCAL", <<Claim>>) EXCEPT !.identified = FALSE]}

=============================================================================

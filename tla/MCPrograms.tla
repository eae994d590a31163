----------------------------- MODULE MCPrograms -----------------------------
(***************************************************************************)
(* Families of small AIOS-IR documents, and the registry snapshot they are *)
(* validated against.                                                      *)
(***************************************************************************)
EXTENDS Naturals, Sequences, TLC

Port(t, req) == [type |-> t, required |-> req]
Text == "text"
File == "artifact.file"

Base == [role |-> "ordinary", classes |-> {"deterministic", "opaque"},
         inputs |-> "a" :> Port(Text, FALSE) @@ "b" :> Port(Text, FALSE),
         outputs |-> "o" :> Port(Text, TRUE),
         requiredEffects |-> {"PURE"}, effects |-> {"PURE"},
         requiredAuthority |-> {}, authority |-> {}, egressModes |-> {"deny"}]

\* merge: pure.  again: the same with a required port.  number: another
\* output type.  send: effectful.  lookup: may leave the machine.  read,
\* scan: read artifacts.  judge: a verifier.
Snapshot ==
  "merge" :> Base
  @@ "again" :> [Base EXCEPT !.inputs["a"].required = TRUE]
  @@ "number" :> [Base EXCEPT !.outputs["o"].type = "number"]
  @@ "send" :> [Base EXCEPT !.requiredEffects = {"EXTERNAL_MESSAGE"}, !.effects = {"EXTERNAL_MESSAGE"},
                  !.requiredAuthority = {"external_send"}, !.authority = {"external_send"}]
  @@ "lookup" :> [Base EXCEPT !.effects = {"PURE", "NETWORK", "DATA_EGRESS"},
                  !.authority = {"network_connect", "data_egress"}, !.egressModes = {"deny", "policy"}]
  @@ "read" :> [Base EXCEPT !.inputs = "a" :> Port(File, TRUE) @@ "b" :> Port(File, FALSE),
                  !.requiredEffects = {"ARTIFACT_READ"}, !.effects = {"ARTIFACT_READ"},
                  !.requiredAuthority = {"artifact_read"}, !.authority = {"artifact_read"}]
  @@ "scan" :> [Base EXCEPT !.inputs = "a" :> Port(File, FALSE) @@ "b" :> Port(File, FALSE),
                  !.requiredEffects = {"ARTIFACT_READ"}, !.effects = {"ARTIFACT_READ"},
                  !.requiredAuthority = {"artifact_read"}, !.authority = {"artifact_read"}]
  @@ "judge" :> [Base EXCEPT !.role = "verifier"]

N(id, cap, ins, reqs) ==
  [id |-> id, kind |-> "invoke", capability |-> cap, class |-> "deterministic", cache |-> "never",
   inputs |-> ins, outputs |-> "o" :> Text, requests |-> reqs, egress |-> "deny", destinations |-> {},
   locality |-> {}, onError |-> "fail", budget |-> FALSE, fallbacks |-> <<>>]

Doc(ins, ns, outs) ==
  [bytes |-> 1, depth |-> 1, number |-> "metadata", syntax |-> "ok", version |-> "0.1", longString |-> FALSE, schema |-> <<>>,
   inputs |-> ins, nodes |-> ns, outputs |-> outs]

Out(id) == "result" :> <<"node", id, "o">>
Fall(n, fs) == [n EXCEPT !.onError = "fallback", !.fallbacks = fs]

\* Three nodes, each fed by at most two of the three, itself included and
\* possibly twice by the same one.
Three == <<"n1", "n2", "n3">>
Pairs == {<<>>} \cup {<<i>> : i \in 1..3} \cup {<<i, j>> : i \in 1..3, j \in 1..3}
Ordered == {q \in Pairs : Len(q) = 2 => q[1] <= q[2]}
PortName == <<"a", "b">>
Feeds(q) == [p \in {PortName[k] : k \in DOMAIN q} |-> <<"node", Three[q[IF p = "a" THEN 1 ELSE 2]], "o">>]
Sender(cap) == IF cap = "send" THEN <<<<"external_send", <<"destination", "mail">>>>>> ELSE <<>>
GraphDocs ==
  {Doc(<<>>, <<N("n2", cap, Feeds(f2), Sender(cap)), N("n1", "merge", Feeds(f1), <<>>),
               N("n3", "merge", Feeds(f3), <<>>)>>, Out(out)) :
     f1 \in Ordered, f2 \in Ordered, f3 \in Ordered, cap \in {"merge", "send"}, out \in {"n1", "n2"}}

\* Two nodes in a row with fallbacks, fed by an input that may be absent.
Chains == {<<>>, <<"again">>, <<"number">>, <<"lookup">>, <<"judge">>, <<"again", "lookup">>,
           <<"lookup", "again">>, <<"merge">>, <<"gone">>}
FlowDocs ==
  {Doc("x" :> Port(Text, req),
       <<Fall(N("n1", c1, "a" :> <<"input", "x">>, <<>>), h1),
         Fall(N("n2", c2, port :> <<"node", "n1", "o">>, <<>>), h2)>>, Out("n2")) :
     req \in BOOLEAN, c1 \in {"merge", "again"}, c2 \in {"merge", "again", "lookup"}, h1 \in Chains, h2 \in Chains,
     port \in {"a", "b"}}

\* One node whose placement, egress, requests and fallbacks vary.
Net == <<"network_connect", <<"destination", "api">>>>
Egress(d) == <<"data_egress", <<"destination", d>>>>
RemoteDocs ==
  {Doc("x" :> Port(Text, TRUE),
       <<[Fall(N("n1", cap, ins, reqs), h) EXCEPT !.egress = mode, !.destinations = dest, !.locality = loc,
                                                  !.class = cls, !.cache = cache]>>, Out("n1")) :
     cap \in {"merge", "lookup"}, ins \in {<<>>, "a" :> <<"input", "x">>},
     reqs \in {<<>>, <<Net>>, <<Net, Egress("api")>>, <<Net, Egress("api"), Egress("log")>>, <<Net, Net>>},
     h \in {<<>>, <<"lookup">>, <<"again">>, <<"merge", "again">>}, mode \in {"deny", "policy"}, dest \in {{}, {"api"}, {"api", "log"}},
     loc \in {{}, {"cloud"}, {"local", "cloud"}}, cls \in {"deterministic", "opaque"}, cache \in {"never", "content"}}

\* Readers of artifacts: requests by input name, fallbacks that read.
ReadReq(x) == <<"artifact_read", <<"input", x>>>>
ReadDocs ==
  {Doc("x" :> Port(tx, TRUE) @@ "y" :> Port(File, FALSE),
       <<Fall(N("n1", cap, ins, reqs), h)>>, Out("n1")) :
     tx \in {File, Text}, cap \in {"read", "scan"},
     ins \in {"a" :> <<"input", "x">>, "a" :> <<"input", "x">> @@ "b" :> <<"input", "y">>, "a" :> <<"input", "y">>},
     reqs \in {<<>>, <<ReadReq("x")>>, <<ReadReq("x"), ReadReq("y")>>, <<ReadReq("y")>>, <<ReadReq("z")>>},
     h \in {<<>>, <<"read">>, <<"scan">>, <<"merge">>}}

\* Failures of the schema: a oneOf of two branches, each with a mismatch
\* of the tag, a missing property or both.
Failed(code) == [oneOf |-> FALSE, code |-> code]
Tag(path) == [tag |-> TRUE, path |-> path, missing |-> "", code |-> "IR_SCHEMA_ENUM"]
Lacks(prop) == [tag |-> FALSE, path |-> "", missing |-> prop, code |-> "IR_SCHEMA_REQUIRED"]
Wrong == [tag |-> FALSE, path |-> "", missing |-> "", code |-> "IR_SCHEMA_PATTERN"]
Branches == SUBSET {Tag("kind"), Tag("mode"), Lacks("kind"), Lacks("node"), Wrong} \ {{}}
Failures == {[oneOf |-> TRUE, object |-> obj, sameKind |-> same, branches |-> <<b1, b2>>] :
               obj \in BOOLEAN, same \in BOOLEAN, b1 \in Branches, b2 \in {{Tag("kind")}, {Lacks("node")}, {Tag("kind"), Wrong}}}

\* Documents stopped before the semantic phases, and references that miss.
Plain == Doc(<<>>, <<N("n1", "merge", <<>>, <<>>)>>, Out("n1"))
Many == Plain.nodes[1]
GateDocs ==
  {[Plain EXCEPT !.bytes = b, !.depth = dep, !.number = num, !.syntax = s, !.longString = l] :
     b \in {1, 9}, dep \in {1, 4}, num \in {"none", "metadata", "semantic"},
     s \in {"ok", "duplicate", "invalid"}, l \in BOOLEAN}
  \cup {[Plain EXCEPT !.schema = <<f>>] : f \in Failures}
  \cup {[Plain EXCEPT !.schema = <<Failed("IR_SCHEMA_RANGE"), f>>] : f \in Failures}
  \cup {[Plain EXCEPT !.version = "0.2"],
        [Plain EXCEPT !.schema = [i \in 1..4 |-> Failed("IR_SCHEMA_PATTERN")]],
        [Plain EXCEPT !.nodes = <<Many, Many>>],
        [Plain EXCEPT !.nodes = <<[Many EXCEPT !.onError = "retry"]>>],
        [Plain EXCEPT !.nodes = <<[Many EXCEPT !.onError = "replan"]>>],
        [Plain EXCEPT !.nodes = <<[Many EXCEPT !.destinations = {"api"}]>>],
        [Plain EXCEPT !.nodes = <<[Many EXCEPT !.capability = "gone", !.outputs = "o" :> "blob"]>>],
        [Plain EXCEPT !.nodes = <<[Many EXCEPT !.outputs = "p" :> Text]>>],
        [Plain EXCEPT !.nodes = <<[Many EXCEPT !.inputs = "c" :> <<"input", "x">>]>>],
        [Plain EXCEPT !.nodes = <<[Many EXCEPT !.inputs = "a" :> <<"node", "n9", "o">>]>>],
        [Plain EXCEPT !.nodes = [i \in 1..4 |-> [Many EXCEPT !.id = <<"n", i>>]]],
        [Plain EXCEPT !.nodes = <<[Many EXCEPT !.fallbacks = <<"again", "number", "judge">>]>>],
        [Plain EXCEPT !.nodes = <<[Many EXCEPT !.requests = <<Net, Net, Net, Net>>]>>],
        [Plain EXCEPT !.nodes = <<[Many EXCEPT !.kind = "verify", !.capability = "judge"]>>],
        [Plain EXCEPT !.outputs = "r" :> <<"input", "x">>],
        [Plain EXCEPT !.outputs = "r" :> <<"node", "n1", "q">>]}

ProgramDocs == FlowDocs \cup RemoteDocs \cup ReadDocs \cup GateDocs

=============================================================================

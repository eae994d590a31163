----------------------------- MODULE MCBundles -----------------------------
(***************************************************************************)
(* Files and snapshots of small registry directories: two kinds of         *)
(* contracts in two majors, edited copies of them, and snapshots that name *)
(* them rightly and wrongly.                                               *)
(***************************************************************************)
EXTENDS Naturals, Sequences

Present(records) == [there |-> TRUE, records |-> records]
Absent == [there |-> FALSE, records |-> <<>>]
View(ts, cs) == {<<c.kind, c.id, c.version, c.hash>> : c \in ts \cup cs}

Contract(kind, id, version, refs, sound, hash) ==
  [kind |-> kind, id |-> id, version |-> version, refs |-> refs, sound |-> sound, hash |-> hash]

T10 == Contract("type", "t", <<1, 0>>, {<<"c", 1>>}, TRUE, 1)
T10Edited == Contract("type", "t", <<1, 0>>, {}, TRUE, 2)
T11 == Contract("type", "t", <<1, 1>>, {}, TRUE, 3)
T20 == Contract("type", "t", <<2, 0>>, {<<"c", 1>>}, TRUE, 4)
C10 == Contract("capability", "c", <<1, 0>>, {<<"t", 1>>}, TRUE, 5)
C10Edited == Contract("capability", "c", <<1, 0>>, {<<"t", 2>>}, TRUE, 6)
C10Unsound == Contract("capability", "c", <<1, 0>>, {<<"t", 1>>}, FALSE, 7)
Records == {T10, T10Edited, T11, T20, C10, C10Edited, C10Unsound}

TypeFiles == {Present(r) : r \in {<<T10>>, <<T10Edited>>, <<T10, T11>>, <<T10, T20>>, <<T10, T10>>}}
OtherFiles == {Present(<<T11>>), Present(<<T20>>), Present(<<>>), Absent}
CapabilityFiles == {Present(r) : r \in {<<C10>>, <<C10Edited>>, <<C10Unsound>>, <<>>, <<C10, C10>>}}
Folders == {<<a, b, c>> : a \in TypeFiles, b \in OtherFiles, c \in CapabilityFiles}

Entry(c, hash, source) == [id |-> c.id, version |-> c.version, hash |-> hash, source |-> source]
Named(c, source) == Entry(c, c.hash, source)
TypeLists ==
  {<<Named(T10, 1)>>, <<Named(T10Edited, 1)>>, <<Entry(T10, 0, 1)>>, <<Named(T10, 1), Named(T20, 2)>>,
   <<Named(T10, 1), Named(T11, 2)>>, <<Named(T20, 1)>>, <<Entry(T10, 1, 0)>>}
CapabilityLists == {<<>>, <<Named(C10, 3)>>, <<Entry(C10, 0, 3)>>, <<Named(C10Edited, 3)>>, <<Named(C10, 2)>>}

Views == {{}} \cup {View(ts, cs) : ts \in {{T10}, {T10Edited}, {T10, T20}}, cs \in {{}, {C10}}}
SnapshotFiles ==
  {[types |-> t, capabilities |-> c, view |-> v, supported |-> TRUE] :
     t \in TypeLists, c \in CapabilityLists, v \in Views}
  \cup {[types |-> <<Named(T10, 1)>>, capabilities |-> <<Named(C10, 3)>>, view |-> {}, supported |-> FALSE]}

=============================================================================

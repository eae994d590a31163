--------------------------- MODULE RegistryBundle ---------------------------
(***************************************************************************)
(* Loading a semantic registry from a directory: the snapshot is read, then *)
(* each source file it names, types before capabilities, each under what is *)
(* left of the byte and contract limits; the records are then checked       *)
(* against the snapshot and each other (aios-registry loader.rs, schema.rs, *)
(* hash.rs, version.rs).  The directory belongs to nobody: a file may be    *)
(* replaced while the load runs.  A contract is a record of its identity    *)
(* and its references; its content hash is a number that two contracts      *)
(* share only when they mean the same, and 0 is the bootstrap placeholder.  *)
(***************************************************************************)
EXTENDS Naturals, Sequences, FiniteSets

CONSTANTS
  Contracts,      \* [kind, id, version, refs, sound, hash]
  Snapshots,      \* [types, capabilities, view, supported]
  Directories,    \* functions from Paths to a File of Contracts or Missing
  Paths,          \* an interval of the naturals, in path order
  Modes,          \* "Strict", "BootstrapGenerate"
  MaxFileBytes, MaxTotalBytes, MaxContracts, MaxSources,
  MaxEdits        \* files replaced during a load

File(records) == [there |-> TRUE, records |-> records]
Missing == [there |-> FALSE, records |-> <<>>]
NoSource == 0

\* What the instances have to satisfy.
BundleAssumption ==
  /\ Paths \subseteq Nat \ {NoSource}
  /\ {MaxFileBytes, MaxTotalBytes, MaxContracts, MaxSources, MaxEdits} \subseteq Nat
  /\ Modes \subseteq {"Strict", "BootstrapGenerate"}
  /\ \A c, d \in Contracts : c.hash = d.hash => c.refs = d.refs /\ c.sound = d.sound

VARIABLES
  directory, \* the files now
  snapshot,  \* the decoded snapshot file
  mode,      \* hash_verification
  phase,
  pending,   \* sources not read yet, by kind
  bytes,     \* total_bytes
  types,     \* type_contracts
  capabilities,
  registry,  \* the active contracts by kind, id and major
  edits

vars == <<directory, snapshot, mode, phase, pending, bytes, types, capabilities, registry, edits>>

Elements(s) == {s[i] : i \in 1..Len(s)}
Least(S) == CHOOSE p \in S : \A q \in S : p <= q
Entries(s) == s.types \o s.capabilities

\* The placeholder sentinel of bootstrap fixtures.
PlaceholderHash == 0
NoView == {}

-----------------------------------------------------------------------------
(* Reading. *)

SnapshotBytes == 1
FileBytes(f) == 1 + Len(f.records)

Remaining(max, used) == IF used < max THEN max - used ELSE 0

ReadLimit ==
  LET left == Remaining(MaxTotalBytes, bytes) IN IF left < MaxFileBytes THEN left ELSE MaxFileBytes

\* decode_with_record_limit: every record of an array must be of the kind, and
\* no more of them than are left.
Decodes(f, kind, left) ==
  /\ Len(f.records) <= left
  /\ \A c \in Elements(f.records) : c.kind = kind

\* open_local_source, read_bounded, checked_total_bytes
Readable(f, kind) ==
  /\ f.there /\ FileBytes(f) <= ReadLimit
  /\ Decodes(f, kind, Remaining(MaxContracts, Len(types) + Len(capabilities)))

\* collect_sources: every entry names a source.
SourcesOf(entries) == {e.source : e \in Elements(entries)}

SourcesNamed(s) ==
  /\ \A e \in Elements(Entries(s)) : e.source # NoSource
  /\ Cardinality(SourcesOf(Entries(s))) <= MaxSources

Refuse == phase' = "refused" /\ registry' = <<>>

\* The snapshot file, its header, count and sources.
ReadSnapshot ==
  /\ phase = "snapshot"
  /\ IF /\ SnapshotBytes <= MaxFileBytes /\ SnapshotBytes <= MaxTotalBytes
        /\ snapshot.supported /\ Len(Entries(snapshot)) <= MaxContracts
        /\ SourcesNamed(snapshot)
     THEN /\ phase' = "types" /\ bytes' = SnapshotBytes
          /\ pending' = [type |-> SourcesOf(snapshot.types), capability |-> SourcesOf(snapshot.capabilities)]
          /\ UNCHANGED registry
     ELSE Refuse /\ UNCHANGED <<bytes, pending>>
  /\ UNCHANGED <<directory, snapshot, mode, types, capabilities, edits>>

ReadTypes ==
  LET p == Least(pending.type) IN
  /\ phase = "types"
  /\ IF pending.type = {} THEN phase' = "capabilities" /\ UNCHANGED <<bytes, pending, types, registry>>
     ELSE IF Readable(directory[p], "type")
     THEN /\ types' = types \o directory[p].records /\ bytes' = bytes + FileBytes(directory[p])
          /\ pending' = [pending EXCEPT !.type = @ \ {p}]
          /\ UNCHANGED <<phase, registry>>
     ELSE Refuse /\ UNCHANGED <<bytes, pending, types>>
  /\ UNCHANGED <<directory, snapshot, mode, capabilities, edits>>

ReadCapabilities ==
  LET p == Least(pending.capability) IN
  /\ phase = "capabilities"
  /\ IF pending.capability = {} THEN phase' = "build" /\ UNCHANGED <<bytes, pending, capabilities, registry>>
     ELSE IF Readable(directory[p], "capability")
     THEN /\ capabilities' = capabilities \o directory[p].records /\ bytes' = bytes + FileBytes(directory[p])
          /\ pending' = [pending EXCEPT !.capability = @ \ {p}]
          /\ UNCHANGED <<phase, registry>>
     ELSE Refuse /\ UNCHANGED <<bytes, pending, capabilities>>
  /\ UNCHANGED <<directory, snapshot, mode, types, edits>>

-----------------------------------------------------------------------------
(* build_registry. *)

\* FullVersion::parse; two spellings of one version are two versions.
Major(version) == version[1]
FamilyOf(e) == <<e.id, Major(e.version)>>

\* index_snapshot_entries: one active contract per major.
EntriesIndex(entries) ==
  \A i, j \in 1..Len(entries) : i # j => FamilyOf(entries[i]) # FamilyOf(entries[j])

\* index_supplied_types, index_supplied_capabilities
SuppliedIndex(contracts) ==
  \A i, j \in 1..Len(contracts) :
    i # j => <<contracts[i].id, contracts[i].version>> # <<contracts[j].id, contracts[j].version>>

\* The loaded contract of exactly the version the entry names.
MatchOf(e, contracts) == {c \in Elements(contracts) : c.id = e.id /\ c.version = e.version}

\* Mutant: the placeholder is accepted in every mode.
HashVerifiedAlways(declared, computed) == declared \in {computed, PlaceholderHash}

\* verify_declared_hash
HashVerified(declared, computed) ==
  declared = computed \/ (mode = "BootstrapGenerate" /\ declared = PlaceholderHash)

\* validate_type_contract, validate_capability_contract (ContractConformance)
ContractSound(c) == c.sound

EntriesHold(entries, contracts) ==
  \A e \in Elements(entries) :
    \E c \in MatchOf(e, contracts) : ContractSound(c) /\ HashVerified(e.hash, c.hash)

\* The active contracts of a kind.
Active(entries, contracts) == {c \in Elements(contracts) : \E e \in Elements(entries) : c \in MatchOf(e, contracts)}

\* validate_cross_references: a type's conversions exist and carry it; the
\* ports of a capability have types.
CrossReferencesHold(ts, cs) ==
  /\ \A t \in ts : \A r \in t.refs : \E c \in cs : FamilyOf(c) = r /\ FamilyOf(t) \in c.refs
  /\ \A c \in cs : \A r \in c.refs : \E t \in ts : FamilyOf(t) = r

\* registry_snapshot_id: the identities of both kinds, in any order.
SnapshotView(ts, cs) == {<<c.kind, c.id, c.version, c.hash>> : c \in ts \cup cs}

\* verify_snapshot_hash
SnapshotVerified(view) ==
  snapshot.view = view \/ (mode = "BootstrapGenerate" /\ snapshot.view = NoView)

BuildRegistry ==
  LET ts == Active(snapshot.types, types)
      cs == Active(snapshot.capabilities, capabilities) IN
  /\ phase = "build"
  /\ IF /\ Len(types) + Len(capabilities) <= MaxContracts
        /\ EntriesIndex(snapshot.types) /\ EntriesIndex(snapshot.capabilities)
        /\ SuppliedIndex(types) /\ SuppliedIndex(capabilities)
        /\ EntriesHold(snapshot.types, types) /\ EntriesHold(snapshot.capabilities, capabilities)
        /\ CrossReferencesHold(ts, cs)
        /\ SnapshotVerified(SnapshotView(ts, cs))
     THEN phase' = "ready" /\ registry' = [types |-> ts, capabilities |-> cs]
     ELSE Refuse
  /\ UNCHANGED <<directory, snapshot, mode, pending, bytes, types, capabilities, edits>>

-----------------------------------------------------------------------------
\* External: somebody replaces a file of the directory.
Edit(p, f) ==
  /\ phase \notin {"ready", "refused"} /\ edits < MaxEdits
  /\ f # directory[p]
  /\ directory' = [directory EXCEPT ![p] = f] /\ edits' = edits + 1
  /\ UNCHANGED <<snapshot, mode, phase, pending, bytes, types, capabilities, registry>>

Init ==
  /\ directory \in Directories /\ snapshot \in Snapshots /\ mode \in Modes
  /\ phase = "snapshot" /\ pending = [type |-> {}, capability |-> {}]
  /\ bytes = 0 /\ types = <<>> /\ capabilities = <<>> /\ registry = <<>> /\ edits = 0

Next ==
  \/ ReadSnapshot \/ ReadTypes \/ ReadCapabilities \/ BuildRegistry
  \/ \E p \in Paths : \E f \in {d[p] : d \in Directories} : Edit(p, f)

Spec == Init /\ [][Next]_vars

-----------------------------------------------------------------------------
TypeOK ==
  /\ phase \in {"snapshot", "types", "capabilities", "build", "ready", "refused"}
  /\ pending.type \subseteq Paths /\ pending.capability \subseteq Paths
  /\ Elements(types) \cup Elements(capabilities) \subseteq Contracts
  /\ bytes \in Nat /\ edits \in 0..MaxEdits
  /\ (phase = "ready") = (registry # <<>>)

\* No load keeps more than its limits, however the files are spread and
\* whatever is changed under it (read_bounded, decode_with_record_limit).
BoundedReading == bytes <= MaxTotalBytes /\ Len(types) + Len(capabilities) <= MaxContracts

\* A strictly verified registry holds for every entry the one contract whose
\* hash the snapshot declared, although files were replaced between reads; an
\* active family has one contract (build_registry).
WhatWasDeclared ==
  phase = "ready" =>
    LET active == registry.types \cup registry.capabilities IN
    /\ Cardinality(registry.types) = Len(snapshot.types)
    /\ Cardinality(registry.capabilities) = Len(snapshot.capabilities)
    /\ \A c, d \in active : c.kind = d.kind /\ FamilyOf(c) = FamilyOf(d) => c = d
    /\ mode = "Strict" => \A e \in Elements(Entries(snapshot)) :
                            \E c \in active : c.id = e.id /\ c.version = e.version /\ c.hash = e.hash

\* Every reference of a registry that is ready can be followed, from a type to
\* its conversions and back, whatever mixture of files it was read from.
Closed ==
  phase = "ready" =>
    /\ \A c \in registry.capabilities : \A r \in c.refs : \E t \in registry.types : FamilyOf(t) = r
    /\ \A t \in registry.types : \A r \in t.refs :
         \E c \in registry.capabilities : FamilyOf(c) = r /\ FamilyOf(t) \in c.refs

\* What a directory that nobody touches must hold to be accepted, without
\* reference to an order of reading.
Acceptable(d, s, m) ==
  LET tp == SourcesOf(s.types)
      cp == SourcesOf(s.capabilities)
      CountOf[S \in SUBSET Paths] == IF S = {} THEN 0 ELSE LET p == Least(S) IN Len(d[p].records) + CountOf[S \ {p}]
      active == {c \in Contracts : \E e \in Elements(Entries(s)) :
                   c.id = e.id /\ c.version = e.version /\ e.source # NoSource /\ c \in Elements(d[e.source].records)
                   /\ (c.hash = e.hash \/ (m = "BootstrapGenerate" /\ e.hash = PlaceholderHash))} IN
  /\ s.supported /\ \A e \in Elements(Entries(s)) : e.source # NoSource /\ d[e.source].there
  /\ \A p \in tp : FileBytes(d[p]) <= MaxFileBytes /\ \A c \in Elements(d[p].records) : c.kind = "type"
  /\ \A p \in cp : FileBytes(d[p]) <= MaxFileBytes /\ \A c \in Elements(d[p].records) : c.kind = "capability"
  /\ Cardinality(tp \cup cp) <= MaxSources /\ Len(Entries(s)) <= MaxContracts
  /\ CountOf[tp] + CountOf[cp] <= MaxContracts
  /\ SnapshotBytes + CountOf[tp] + CountOf[cp] + Cardinality(tp) + Cardinality(cp) <= MaxTotalBytes
  /\ \A S \in {tp, cp} : \A p, q \in S : \A i \in 1..Len(d[p].records), j \in 1..Len(d[q].records) :
       <<p, i>> # <<q, j>> => 
         d[p].records[i].id # d[q].records[j].id \/ d[p].records[i].version # d[q].records[j].version
  /\ Cardinality(active) = Len(Entries(s))
  /\ \A c, e \in active : c # e /\ c.kind = e.kind => FamilyOf(c) # FamilyOf(e)
  /\ \A c \in active : c.sound /\ \A r \in c.refs : \E e \in active :
       /\ FamilyOf(e) = r /\ e.kind # c.kind
       /\ c.kind = "type" => FamilyOf(c) \in e.refs
  /\ s.view = {<<c.kind, c.id, c.version, c.hash>> : c \in active} \/ (m = "BootstrapGenerate" /\ s.view = NoView)

\* An undisturbed load accepts exactly the bundles that are acceptable: no
\* limit is met one too early, and no file order matters.
AcceptsTheAcceptable ==
  edits = 0 /\ phase \in {"ready", "refused"} => ((phase = "ready") = Acceptable(directory, snapshot, mode))
=============================================================================

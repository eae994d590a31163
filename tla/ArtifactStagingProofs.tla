----------------------- MODULE ArtifactStagingProofs -----------------------
(***************************************************************************)
(* Proofs about one output allocation: bytes of a replaced handle never    *)
(* land behind those of its successor, a complete seal attests bytes that  *)
(* are in the file and durable, and an acknowledged finish survives every  *)
(* restart and power failure, for any number of handles and generations.   *)
(*                                                                         *)
(* The argument is that one actor at a time is current: the handle or the  *)
(* retry that holds the newest generation under the lease, or the manager  *)
(* while it repairs at startup (OneCurrent).  The others fail their fence. *)
(* What the current one knows at each of its steps (Knows) is what the     *)
(* seal may rely on.                                                       *)
(***************************************************************************)
EXTENDS ArtifactStaging, TLAPS

-----------------------------------------------------------------------------
(* The invariant. *)

Names == {"pending", "final"}

Points ==
  {"gone", "open", "hash", "idle", "startup", "create", "sync_new", "admit", "evidence",
   "sync_retry", "remove_seal", "remove_pending", "create_seal", "fill_seal", "sync_seal",
   "sync_dir", "rename_seal", "sync_final"}

ProcRow ==
  [pc : Points, gen : Nat, epoch : Nat, written : Nat, hash : Seq(Nat)]

Typed ==
  /\ row \in [state : States, gen : Nat]
  /\ lease \in Nat \ {0}
  /\ file \in [here : BOOLEAN, bytes : Seq(Nat), synced : Nat]
  /\ file.synced <= Len(file.bytes)
  /\ inode \in [kind : {"Truncated", "Complete"}, bytes : Seq(Nat), synced : BOOLEAN]
  /\ names \in SUBSET Names /\ diskNames \in SUBSET Names
  /\ proc \in [Sealers -> ProcRow]

\* The bytes are in the order of the generations that wrote them.
Ordered ==
  /\ \A i \in 1..Len(file.bytes) : file.bytes[i] <= row.gen
  /\ NoStaleWrite

\* The handle or retry that passes the fence, as long as its grant holds.
Holder(a) == proc[a].gen = row.gen /\ proc[a].epoch = lease /\ row.state = "WRITING"

\* The manager on its way through startup.
Repairing == proc["manager"].gen = 0 /\ proc["manager"].pc \notin Opening \cup {"idle"}

Current(a) == Holder(a) \/ (a = "manager" /\ Repairing)

\* Generations are given out once, and a manager that repairs has not given
\* out any yet.
Procs ==
  /\ proc["manager"].epoch = lease
  /\ \A a \in Sealers : proc[a].gen <= row.gen /\ proc[a].epoch <= lease
  /\ \A a, b \in Sealers : a # b /\ proc[a].gen = proc[b].gen => proc[a].gen = 0
  /\ Repairing => \A w \in Writers : proc[w].epoch # lease
  /\ row.state = "WRITING" => row.gen >= 1

\* Before the first handle nothing has been sealed or acknowledged.
Unused ==
  row.state \in {"NONE", "ALLOCATED"} =>
    /\ names = {} /\ diskNames = {} /\ acked = None
    /\ \A w \in Writers : At(w, "gone")
    /\ proc["manager"].pc \in Opening \cup {"idle", "startup"}

\* A seal name exists only over bytes that are synced.
Files ==
  /\ row.state \in Live /\ diskNames # {} => names # {}
  /\ proc["manager"].pc \in {"sync_new", "admit"} => file.here
  /\ row.state \in Live => file.here
  /\ row.state \in Live /\ names # {} =>
       /\ file.synced = Len(file.bytes)
       /\ inode.kind = "Complete" => inode.bytes = file.bytes

\* What an actor relies on at each of its steps as long as it is current.
Knows(a) ==
  LET pc == proc[a].pc IN
  /\ pc \in {"hash", "create_seal", "remove_seal"} => file.synced = Len(file.bytes)
  /\ pc \in {"create_seal", "fill_seal", "sync_seal", "sync_dir", "rename_seal", "sync_final",
             "sync_retry", "remove_seal", "remove_pending"} => proc[a].hash = file.bytes
  /\ pc = "fill_seal" => names # {} /\ inode.kind = "Truncated"
  /\ pc \in {"sync_seal", "sync_dir", "rename_seal"} => names # {} /\ inode.kind = "Complete"
  /\ pc = "sync_final" => names = {"final"} /\ inode.kind = "Complete"
  /\ pc = "remove_pending" => names = Names /\ inode.kind = "Complete"
  /\ pc \in {"remove_seal", "sync_retry"} => names = {} \/ inode.kind = "Truncated"
  /\ pc = "evidence" /\ a = "manager" /\ Repairing => names # {}

Knowledge == \A a \in Sealers : Current(a) /\ row.state \in Live => Knows(a)

\* An acknowledged seal is durable under its final name.
Acks ==
  /\ acked # None /\ row.state \in Live =>
       /\ "final" \in names /\ "final" \in diskNames
       /\ inode.kind = "Complete" /\ inode.synced = TRUE /\ inode.bytes = acked
  /\ published # None => row.state = "PUBLISHED"
  /\ published # None /\ acked # None => published = acked

IInv == Typed /\ Ordered /\ Procs /\ Unused /\ Files /\ Knowledge /\ Acks

-----------------------------------------------------------------------------
(* Actors. *)

\* Constant rows.
LEMMA Rows ==
  ASSUME StagingAssumption, Typed
  PROVE  /\ Gone \in ProcRow /\ Gone.pc = "gone" /\ Gone.gen = 0 /\ Gone.epoch = 0
         /\ Idle \in ProcRow /\ Idle.pc = "idle" /\ Idle.gen = 0 /\ Idle.epoch = lease
         /\ "manager" \in Sealers /\ "manager" \notin Writers
         /\ Sealers = Writers \cup {"manager"}
         /\ NoFile.bytes = <<>> /\ NewFile.bytes = <<>>
  <1>1. None \in Seq(Nat)
    BY DEF None
  <1>2. Gone \in ProcRow /\ Gone.pc = "gone" /\ Gone.gen = 0 /\ Gone.epoch = 0
    BY <1>1 DEF Gone, ProcRow, Points
  <1>3. Idle \in ProcRow /\ Idle.pc = "idle" /\ Idle.gen = 0 /\ Idle.epoch = lease
    BY <1>1 DEF Gone, Idle, ProcRow, Points, Typed
  <1>4. NoFile.bytes = <<>> /\ NewFile.bytes = <<>>
    BY DEF NoFile, NewFile
  <1> QED BY <1>2, <1>3, <1>4 DEF StagingAssumption, Sealers

\* No two actors are current at once.
LEMMA OneCurrent ==
  ASSUME StagingAssumption, Typed, Procs,
         NEW a \in Sealers, NEW b \in Sealers, Current(a), Current(b)
  PROVE  a = b
  BY DEF StagingAssumption, Typed, ProcRow, Procs, Current, Holder, Repairing, Sealers

\* A seal primitive is only admitted for the current actor.
LEMMA AdmittedIsCurrent ==
  ASSUME StagingAssumption, NEW a \in Sealers, Admitted(a), ~At(a, "idle")
  PROVE  Current(a) /\ (~Starting(a) => row.state = "WRITING")
  BY DEF Admitted, Starting, WriterFence, WriterAuthority, Current, Holder, Repairing, At

\* Only one actor moves.
Moved(a) ==
  /\ proc' \in [Sealers -> ProcRow]
  /\ \A b \in Sealers : b # a => proc'[b] = proc[b]

\* Its generation and lease go with it.
MovedOn(a, pc) ==
  /\ Moved(a)
  /\ proc'[a].pc = pc /\ proc'[a].gen = proc[a].gen /\ proc'[a].epoch = proc[a].epoch

Ended(a) == Moved(a) /\ proc'[a] = IF a = "manager" THEN Idle ELSE Gone

LEMMA GotoMoves ==
  ASSUME Typed, NEW a \in Sealers, NEW pc \in Points, Goto(a, pc)
  PROVE  MovedOn(a, pc) /\ proc'[a].hash = proc[a].hash
  BY DEF Typed, Goto, MovedOn, Moved, ProcRow

\* An operation ends.
LEMMA EndedProcs ==
  ASSUME StagingAssumption, Typed, Procs, NEW a \in Sealers, Ended(a), UNCHANGED <<row, lease>>
  PROVE  Procs'
  <1>1. /\ \A b \in Sealers : proc[b].gen \in Nat /\ proc[b].epoch \in Nat
        /\ row.gen \in Nat /\ lease \in Nat \ {0}
    BY DEF Typed, ProcRow
  <1>2. proc'[a].gen = 0 /\ proc'[a].epoch <= lease
    BY <1>1, Rows DEF Ended
  <1>3. \A b \in Sealers : b # a => proc'[b] = proc[b]
    BY DEF Ended, Moved
  <1>4. proc'["manager"].epoch = lease
    BY <1>3, Rows DEF Ended, Procs
  <1>5. \A b, c \in Sealers : b # c /\ proc'[b].gen = proc'[c].gen => proc'[b].gen = 0
    BY <1>2, <1>3 DEF Procs
  <1>6. \A b \in Sealers : proc'[b].gen <= row.gen /\ proc'[b].epoch <= lease
    BY <1>1, <1>2, <1>3 DEF Procs
  <1>7. Repairing' => \A w \in Writers : proc'[w].epoch # lease
    <2>1. Repairing' => Repairing /\ a # "manager"
      BY <1>3, Rows DEF Repairing, Ended
    <2>2. a # "manager" => proc'[a].epoch # lease
      BY <1>1, Rows DEF Ended
    <2> QED BY <1>3, <2>1, <2>2, Rows DEF Procs
  <1> QED BY <1>4, <1>5, <1>6, <1>7 DEF Procs

\* An operation goes on; startup is not entered this way.
LEMMA MovedProcs ==
  ASSUME StagingAssumption, Typed, Procs, NEW a \in Sealers, NEW pc, MovedOn(a, pc),
         row'.gen = row.gen, lease' = lease, row'.state = "WRITING" => row.state = "WRITING",
         a = "manager" /\ Repairing' => Repairing
  PROVE  Procs'
  <1>1. \A b \in Sealers : proc'[b].gen = proc[b].gen /\ proc'[b].epoch = proc[b].epoch
    BY DEF MovedOn, Moved
  <1>2. \A b \in Sealers : b # a => proc'[b] = proc[b]
    BY DEF MovedOn, Moved
  <1>3. Repairing' => Repairing
    BY <1>2, Rows DEF Repairing
  <1> QED BY <1>1, <1>3, Rows DEF Procs

\* Before the first handle nobody is in the middle of a write or a seal.
LEMMA NobodyBusy ==
  ASSUME StagingAssumption, Unused, NEW a \in Sealers,
         proc[a].pc \notin Opening \cup {"gone", "idle", "startup"}
  PROVE  row.state \notin {"NONE", "ALLOCATED"}
  BY DEF StagingAssumption, Unused, At, Sealers

\* Whoever is not moved, and stays current, was current.
LEMMA StaysCurrent ==
  ASSUME StagingAssumption, Typed, NEW a \in Sealers, NEW b \in Sealers, b # a, Moved(a),
         UNCHANGED <<row, lease>>, Current(b)'
  PROVE  Current(b) /\ proc'[b] = proc[b]
  BY Rows DEF Moved, Current, Holder, Repairing

\* The current actor moves: nobody else relies on anything.
LEMMA OthersKnowNothing ==
  ASSUME StagingAssumption, Typed, Procs, NEW a \in Sealers, Current(a), Moved(a),
         UNCHANGED <<row, lease>>,
         row.state \in Live => Knows(a)'
  PROVE  Knowledge'
  <1> SUFFICES ASSUME NEW b \in Sealers, Current(b)', row.state \in Live PROVE Knows(b)'
    BY DEF Knowledge
  <1>1. CASE b = a
    BY <1>1
  <1>2. CASE b # a
    BY <1>2, StaysCurrent, OneCurrent
  <1> QED BY <1>1, <1>2

\* An actor moves and the files stay: what others rely on still holds.
LEMMA OthersStillKnow ==
  ASSUME StagingAssumption, Typed, Knowledge, NEW a \in Sealers, Moved(a),
         UNCHANGED <<row, lease, file, inode, names>>,
         Current(a)' /\ row.state \in Live => Knows(a)'
  PROVE  Knowledge'
  <1> SUFFICES ASSUME NEW b \in Sealers, Current(b)', row.state \in Live PROVE Knows(b)'
    BY DEF Knowledge
  <1>1. CASE b = a
    BY <1>1
  <1>2. CASE b # a
    <2>1. Current(b) /\ proc'[b] = proc[b]
      BY <1>2, StaysCurrent
    <2>2. Knows(b)
      BY <2>1 DEF Knowledge
    <2>3. b = "manager" /\ Repairing' => Repairing
      BY <2>1 DEF Repairing
    <2> QED BY <2>1, <2>2, <2>3 DEF Knows
  <1> QED BY <1>1, <1>2

\* Points in the middle of a write or a seal.
Busy == Points \ (Opening \cup {"gone", "idle", "startup"})

\* The current actor takes a step that keeps the bytes.
LEMMA CurrentMoves ==
  ASSUME StagingAssumption, IInv, NEW a \in Sealers, Current(a), proc[a].pc \in Busy,
         NEW pc \in Busy, MovedOn(a, pc),
         UNCHANGED <<row, lease>>, file'.bytes = file.bytes,
         row.state \in Live => Knows(a)'
  PROVE  Ordered' /\ Procs' /\ Unused' /\ Knowledge'
  <1>1. Ordered'
    BY DEF IInv, Ordered, NoStaleWrite
  <1>2. Procs'
    <2>1. a = "manager" /\ Repairing' => Repairing
      BY DEF MovedOn, Repairing, Busy
    <2> QED BY <2>1, MovedProcs DEF IInv
  <1>3. Unused'
    <2>1. proc[a].pc \notin Opening \cup {"gone", "idle", "startup"}
      BY DEF Busy
    <2>2. row.state \notin {"NONE", "ALLOCATED"}
      BY <2>1, NobodyBusy DEF IInv
    <2> QED BY <2>2 DEF Unused
  <1>4. Knowledge'
    BY OthersKnowNothing DEF IInv, MovedOn
  <1> QED BY <1>1, <1>2, <1>3, <1>4

\* The manager is at one of the points of opening after the step only if it
\* was the one who moved.
LEMMA FilesOfManager ==
  ASSUME StagingAssumption, IInv, NEW a \in Sealers, Moved(a),
         proc'[a].pc \notin {"sync_new", "admit"}, file'.here = file.here
  PROVE  proc'["manager"].pc \in {"sync_new", "admit"} => file'.here
  BY Rows DEF IInv, Moved, Files

\* What the admission of a seal primitive gives.
LEMMA SealAdmission ==
  ASSUME StagingAssumption, IInv, NEW a \in Sealers, Admitted(a), proc[a].pc \in Busy
  PROVE  /\ Current(a) /\ row.state \in Live => Knows(a)
         /\ Current(a)
         /\ ~Starting(a) => row.state = "WRITING"
  <1>1. ~At(a, "idle")
    BY DEF At, Busy
  <1> QED BY <1>1, AdmittedIsCurrent DEF IInv, Knowledge

-----------------------------------------------------------------------------
(* Steps of the seal. *)

\* The new seal is empty, over bytes that are synced.
LEMMA CreateSealStep ==
  ASSUME StagingAssumption, IInv, NEW a \in Sealers, CreateSeal(a)
  PROVE  IInv'
  <1>1. proc[a].pc = "create_seal" /\ Admitted(a) /\ names = {} /\ Goto(a, "fill_seal")
    BY DEF CreateSeal, At, Unsealed
  <1>2. /\ inode' = EmptySeal /\ names' = {"pending"}
        /\ UNCHANGED <<row, lease, file, diskNames, acked, published>>
    BY DEF CreateSeal, Row, Ghosts
  <1>3. {"create_seal", "fill_seal"} \subseteq Busy /\ "fill_seal" \in Points
    BY DEF Busy, Points, Opening
  <1>4. MovedOn(a, "fill_seal") /\ proc'[a].hash = proc[a].hash
    BY <1>1, <1>3, GotoMoves DEF IInv
  <1>5. Current(a) /\ (row.state \in Live => Knows(a))
    BY <1>1, <1>3, SealAdmission
  <1>6. /\ EmptySeal \in [kind : {"Truncated", "Complete"}, bytes : Seq(Nat), synced : BOOLEAN]
        /\ EmptySeal.kind = "Truncated"
    BY DEF EmptySeal
  <1>7. Typed'
    BY <1>2, <1>4, <1>6 DEF IInv, Typed, Names, MovedOn, Moved
  <1>8. row.state \in Live => Knows(a)'
    BY <1>1, <1>2, <1>4, <1>5, <1>6 DEF Knows, MovedOn
  <1>9. Ordered' /\ Procs' /\ Unused' /\ Knowledge'
    BY <1>1, <1>2, <1>3, <1>4, <1>5, <1>8, CurrentMoves
  <1>10. Files'
    <2>1. proc'["manager"].pc \in {"sync_new", "admit"} => file'.here
      BY <1>2, <1>4, FilesOfManager DEF MovedOn
    <2>2. row.state \in Live => file.synced = Len(file.bytes)
      BY <1>1, <1>5 DEF Knows
    <2> QED BY <1>2, <1>6, <2>1, <2>2 DEF IInv, Files
  <1>11. Acks'
    BY <1>1, <1>2 DEF IInv, Acks
  <1> QED BY <1>7, <1>9, <1>10, <1>11 DEF IInv

\* The seal is filled with the hash of the bytes that are there.
LEMMA FillSealStep ==
  ASSUME StagingAssumption, IInv, NEW a \in Sealers, FillSeal(a)
  PROVE  IInv'
  <1>1. proc[a].pc = "fill_seal" /\ Admitted(a) /\ Goto(a, "sync_seal")
    BY DEF FillSeal, At
  <1>2. /\ inode' = [inode EXCEPT !.kind = "Complete", !.bytes = proc[a].hash]
        /\ UNCHANGED <<row, lease, file, names, diskNames, acked, published>>
    BY DEF FillSeal, Row, Ghosts
  <1>3. {"fill_seal", "sync_seal"} \subseteq Busy /\ "sync_seal" \in Points
    BY DEF Busy, Points, Opening
  <1>4. MovedOn(a, "sync_seal") /\ proc'[a].hash = proc[a].hash
    BY <1>1, <1>3, GotoMoves DEF IInv
  <1>5. Current(a) /\ (row.state \in Live => Knows(a))
    BY <1>1, <1>3, SealAdmission
  <1>6. /\ inode' \in [kind : {"Truncated", "Complete"}, bytes : Seq(Nat), synced : BOOLEAN]
        /\ inode'.kind = "Complete" /\ inode'.bytes = proc[a].hash
    BY <1>2 DEF IInv, Typed, ProcRow
  <1>7. Typed'
    BY <1>2, <1>4, <1>6 DEF IInv, Typed, MovedOn, Moved
  <1>8. row.state \in Live => Knows(a)'
    BY <1>1, <1>2, <1>4, <1>5, <1>6 DEF Knows, MovedOn
  <1>9. Ordered' /\ Procs' /\ Unused' /\ Knowledge'
    BY <1>1, <1>2, <1>3, <1>4, <1>5, <1>8, CurrentMoves
  <1>10. Files'
    <2>1. proc'["manager"].pc \in {"sync_new", "admit"} => file'.here
      BY <1>2, <1>4, FilesOfManager DEF MovedOn
    <2>2. row.state \in Live => proc[a].hash = file.bytes
      BY <1>1, <1>5 DEF Knows
    <2> QED BY <1>2, <1>6, <2>1, <2>2 DEF IInv, Files
  <1>11. Acks'
    <2>1. row.state \in Live => inode.kind = "Truncated"
      BY <1>1, <1>5 DEF Knows
    <2> QED BY <1>2, <2>1 DEF IInv, Acks
  <1> QED BY <1>7, <1>9, <1>10, <1>11 DEF IInv

\* Steps of the current actor that leave row, bytes and seal content alone:
\* what is left to show is about the names.
LEMMA NamesMove ==
  ASSUME StagingAssumption, IInv, NEW a \in Sealers, Current(a), proc[a].pc \in Busy,
         NEW pc \in Busy, MovedOn(a, pc),
         UNCHANGED <<row, lease, acked, published>>,
         inode' \in [kind : {"Truncated", "Complete"}, bytes : Seq(Nat), synced : BOOLEAN],
         inode'.kind = inode.kind, inode'.bytes = inode.bytes,
         inode.synced = TRUE => inode'.synced = TRUE,
         \/ file' = file
         \/ file' = [file EXCEPT !.synced = Len(file.bytes)],
         names' \in SUBSET Names, diskNames' \in SUBSET Names,
         row.state \in Live /\ diskNames' # {} => names' # {},
         row.state \in Live /\ names = {} => names' = {},
         acked # None /\ row.state \in Live => "final" \in names' /\ "final" \in diskNames',
         row.state \in Live => Knows(a)'
  PROVE  IInv'
  <1>1. /\ file' \in [here : BOOLEAN, bytes : Seq(Nat), synced : Nat]
        /\ file'.bytes = file.bytes /\ file'.here = file.here
        /\ file'.synced <= Len(file'.bytes)
        /\ file.synced = Len(file.bytes) => file'.synced = Len(file.bytes)
    <2>1. /\ file \in [here : BOOLEAN, bytes : Seq(Nat), synced : Nat]
          /\ file.synced <= Len(file.bytes) /\ Len(file.bytes) \in Nat
      BY DEF IInv, Typed
    <2>2. CASE file' = file
      BY <2>1, <2>2
    <2>3. CASE file' = [file EXCEPT !.synced = Len(file.bytes)]
      BY <2>1, <2>3
    <2> QED BY <2>2, <2>3
  <1>2. Typed'
    BY <1>1 DEF IInv, Typed, MovedOn, Moved
  <1>3. Ordered' /\ Procs' /\ Unused' /\ Knowledge'
    BY <1>1, CurrentMoves
  <1>4. Files'
    <2>1. pc \notin {"sync_new", "admit"}
      BY DEF Busy, Opening
    <2>2. proc'["manager"].pc \in {"sync_new", "admit"} => file'.here
      BY <1>1, <2>1, FilesOfManager DEF MovedOn
    <2> QED BY <1>1, <2>2 DEF IInv, Files
  <1>5. Acks'
    BY DEF IInv, Acks
  <1> QED BY <1>2, <1>3, <1>4, <1>5 DEF IInv

LEMMA SyncSealStep ==
  ASSUME StagingAssumption, IInv, NEW a \in Sealers, SyncSeal(a)
  PROVE  IInv'
  <1>1. /\ proc[a].pc = "sync_seal" /\ Admitted(a) /\ Goto(a, "sync_dir")
        /\ inode' = [inode EXCEPT !.synced = TRUE]
        /\ UNCHANGED <<row, lease, file, names, diskNames, acked, published>>
    BY DEF SyncSeal, At, Row, Ghosts
  <1>2. {"sync_seal", "sync_dir"} \subseteq Busy /\ "sync_dir" \in Points
    BY DEF Busy, Points, Opening
  <1>3. MovedOn(a, "sync_dir") /\ proc'[a].hash = proc[a].hash
    BY <1>1, <1>2, GotoMoves DEF IInv
  <1>4. Current(a) /\ (row.state \in Live => Knows(a))
    BY <1>1, <1>2, SealAdmission
  <1>5. /\ inode' \in [kind : {"Truncated", "Complete"}, bytes : Seq(Nat), synced : BOOLEAN]
        /\ inode'.kind = inode.kind /\ inode'.bytes = inode.bytes /\ inode'.synced = TRUE
    BY <1>1 DEF IInv, Typed
  <1>6. row.state \in Live => Knows(a)'
    BY <1>1, <1>3, <1>4, <1>5 DEF Knows, MovedOn
  <1>7. /\ names' \in SUBSET Names /\ diskNames' \in SUBSET Names
        /\ row.state \in Live /\ diskNames' # {} => names' # {}
        /\ row.state \in Live /\ names = {} => names' = {}
        /\ acked # None /\ row.state \in Live => "final" \in names' /\ "final" \in diskNames'
    BY <1>1 DEF IInv, Typed, Files, Acks
  <1> QED BY <1>1, <1>2, <1>3, <1>4, <1>5, <1>6, <1>7, NamesMove

LEMMA SyncSealDirStep ==
  ASSUME StagingAssumption, IInv, NEW a \in Sealers, SyncSealDir(a)
  PROVE  IInv'
  <1>1. /\ proc[a].pc = "sync_dir" /\ Admitted(a) /\ Goto(a, "rename_seal")
        /\ diskNames' = names
        /\ UNCHANGED <<row, lease, file, inode, names, acked, published>>
    BY DEF SyncSealDir, At, Row, Ghosts
  <1>2. {"sync_dir", "rename_seal"} \subseteq Busy /\ "rename_seal" \in Points
    BY DEF Busy, Points, Opening
  <1>3. MovedOn(a, "rename_seal") /\ proc'[a].hash = proc[a].hash
    BY <1>1, <1>2, GotoMoves DEF IInv
  <1>4. Current(a) /\ (row.state \in Live => Knows(a))
    BY <1>1, <1>2, SealAdmission
  <1>5. row.state \in Live => Knows(a)'
    BY <1>1, <1>3, <1>4 DEF Knows, MovedOn
  <1>6. /\ names' \in SUBSET Names /\ diskNames' \in SUBSET Names
        /\ row.state \in Live /\ diskNames' # {} => names' # {}
        /\ row.state \in Live /\ names = {} => names' = {}
        /\ acked # None /\ row.state \in Live => "final" \in names' /\ "final" \in diskNames'
    BY <1>1 DEF IInv, Typed, Files, Acks
  <1>7. inode' \in [kind : {"Truncated", "Complete"}, bytes : Seq(Nat), synced : BOOLEAN]
    BY <1>1 DEF IInv, Typed
  <1> QED BY <1>1, <1>2, <1>3, <1>4, <1>5, <1>6, <1>7, NamesMove

LEMMA RenameSealStep ==
  ASSUME StagingAssumption, IInv, NEW a \in Sealers, RenameSeal(a)
  PROVE  IInv'
  <1>1. /\ proc[a].pc = "rename_seal" /\ Admitted(a) /\ Goto(a, "sync_final")
        /\ names' = {"final"}
        /\ UNCHANGED <<row, lease, file, inode, diskNames, acked, published>>
    BY DEF RenameSeal, At, Row, Ghosts
  <1>2. {"rename_seal", "sync_final"} \subseteq Busy /\ "sync_final" \in Points
    BY DEF Busy, Points, Opening
  <1>3. MovedOn(a, "sync_final") /\ proc'[a].hash = proc[a].hash
    BY <1>1, <1>2, GotoMoves DEF IInv
  <1>4. Current(a) /\ (row.state \in Live => Knows(a))
    BY <1>1, <1>2, SealAdmission
  <1>5. row.state \in Live => Knows(a)' /\ names # {}
    BY <1>1, <1>3, <1>4 DEF Knows, MovedOn
  <1>6. /\ names' \in SUBSET Names /\ diskNames' \in SUBSET Names
        /\ row.state \in Live /\ diskNames' # {} => names' # {}
        /\ row.state \in Live /\ names = {} => names' = {}
        /\ acked # None /\ row.state \in Live => "final" \in names' /\ "final" \in diskNames'
    BY <1>1, <1>5 DEF IInv, Typed, Files, Acks, Names
  <1>7. inode' \in [kind : {"Truncated", "Complete"}, bytes : Seq(Nat), synced : BOOLEAN]
    BY <1>1 DEF IInv, Typed
  <1> QED BY <1>1, <1>2, <1>3, <1>4, <1>5, <1>6, <1>7, NamesMove

LEMMA RemovePendingStep ==
  ASSUME StagingAssumption, IInv, RemovePending
  PROVE  IInv'
  <1> DEFINE a == "manager"
  <1>1. /\ proc[a].pc = "remove_pending" /\ Admitted(a) /\ Goto(a, "sync_final") /\ a \in Sealers
        /\ names' = names \ {"pending"}
        /\ UNCHANGED <<row, lease, file, inode, diskNames, acked, published>>
    BY DEF RemovePending, Manager, At, Row, Ghosts, Sealers
  <1>2. {"remove_pending", "sync_final"} \subseteq Busy /\ "sync_final" \in Points
    BY DEF Busy, Points, Opening
  <1>3. MovedOn(a, "sync_final") /\ proc'[a].hash = proc[a].hash
    BY <1>1, <1>2, GotoMoves DEF IInv
  <1>4. Current(a) /\ (row.state \in Live => Knows(a))
    BY <1>1, <1>2, SealAdmission
  <1>5. row.state \in Live => Knows(a)' /\ names' = {"final"} /\ names # {}
    BY <1>1, <1>3, <1>4 DEF Knows, MovedOn, Names
  <1>6. /\ names' \in SUBSET Names /\ diskNames' \in SUBSET Names
        /\ row.state \in Live /\ names = {} => names' = {}
        /\ acked # None /\ row.state \in Live => "final" \in names' /\ "final" \in diskNames'
    BY <1>1, <1>5 DEF IInv, Typed, Files, Acks, Names
  <1>7. inode' \in [kind : {"Truncated", "Complete"}, bytes : Seq(Nat), synced : BOOLEAN]
    BY <1>1 DEF IInv, Typed
  <1> QED BY <1>1, <1>2, <1>3, <1>4, <1>5, <1>6, <1>7, NamesMove

LEMMA RemoveSealStep ==
  ASSUME StagingAssumption, IInv, RemoveSeal
  PROVE  IInv'
  <1> DEFINE a == "manager"
  <1>1. /\ proc[a].pc = "remove_seal" /\ Admitted(a) /\ Goto(a, "create_seal") /\ a \in Sealers
        /\ names' = {} /\ diskNames' = {}
        /\ UNCHANGED <<row, lease, file, inode, acked, published>>
    BY DEF RemoveSeal, Manager, At, Row, Ghosts, Sealers
  <1>2. {"remove_seal", "create_seal"} \subseteq Busy /\ "create_seal" \in Points
    BY DEF Busy, Points, Opening
  <1>3. MovedOn(a, "create_seal") /\ proc'[a].hash = proc[a].hash
    BY <1>1, <1>2, GotoMoves DEF IInv
  <1>4. Current(a) /\ (row.state \in Live => Knows(a))
    BY <1>1, <1>2, SealAdmission
  <1>5. row.state \in Live => Knows(a)' /\ (names = {} \/ inode.kind = "Truncated")
    BY <1>1, <1>3, <1>4 DEF Knows, MovedOn
  <1>6. acked # None => row.state \notin Live
    BY <1>5 DEF IInv, Acks
  <1>7. inode' \in [kind : {"Truncated", "Complete"}, bytes : Seq(Nat), synced : BOOLEAN]
    BY <1>1 DEF IInv, Typed
  <1> QED BY <1>1, <1>2, <1>3, <1>4, <1>5, <1>6, <1>7, NamesMove

\* A sync of the staging file by the current actor, in finish or in a retry.
LEMMA StagingSynced ==
  ASSUME StagingAssumption, IInv, NEW a \in Sealers, Current(a), proc[a].pc \in Busy,
         NEW pc \in Busy, MovedOn(a, pc),
         file' = [file EXCEPT !.synced = Len(file.bytes)],
         UNCHANGED <<row, lease, inode, names, diskNames, acked, published>>,
         row.state \in Live => Knows(a)'
  PROVE  IInv'
  <1>1. /\ names' \in SUBSET Names /\ diskNames' \in SUBSET Names
        /\ row.state \in Live /\ diskNames' # {} => names' # {}
        /\ acked # None /\ row.state \in Live => "final" \in names' /\ "final" \in diskNames'
        /\ inode' \in [kind : {"Truncated", "Complete"}, bytes : Seq(Nat), synced : BOOLEAN]
    BY DEF IInv, Typed, Files, Acks
  <1> QED BY <1>1, NamesMove

LEMMA SyncRetryStep ==
  ASSUME StagingAssumption, IInv, SyncRetry
  PROVE  IInv'
  <1> DEFINE a == "manager"
             pc == IF names = {} THEN "create_seal" ELSE "remove_seal"
  <1>1. /\ proc[a].pc = "sync_retry" /\ Admitted(a) /\ Goto(a, pc) /\ a \in Sealers
        /\ file' = [file EXCEPT !.synced = Len(file.bytes)]
        /\ UNCHANGED <<row, lease, inode, names, diskNames, acked, published>>
    BY DEF SyncRetry, Manager, At, Row, Ghosts, Sealers
  <1>2. {"sync_retry", "create_seal", "remove_seal"} \subseteq Busy /\ pc \in Busy /\ pc \in Points
    BY DEF Busy, Points, Opening
  <1>3. MovedOn(a, pc) /\ proc'[a].hash = proc[a].hash
    BY <1>1, <1>2, GotoMoves DEF IInv
  <1>4. Current(a) /\ (row.state \in Live => Knows(a))
    BY <1>1, <1>2, SealAdmission
  <1>5. file'.bytes = file.bytes /\ file'.synced = Len(file.bytes)
    BY <1>1 DEF IInv, Typed
  <1>6. row.state \in Live => Knows(a)'
    BY <1>1, <1>3, <1>4, <1>5 DEF Knows, MovedOn
  <1> HIDE DEF pc
  <1> QED BY <1>1, <1>2, <1>3, <1>4, <1>6, StagingSynced

\* A handle that passes its fence is the current actor.
LEMMA FenceIsCurrent ==
  ASSUME NEW a \in Sealers, WriterFence(a)
  PROVE  Current(a) /\ proc[a].gen = row.gen /\ row.state = "WRITING"
  BY DEF WriterFence, WriterAuthority, Current, Holder

LEMMA SyncStagingStep ==
  ASSUME StagingAssumption, IInv, NEW w \in Writers, SyncStaging(w)
  PROVE  IInv'
  <1>1. /\ proc[w].pc = "open" /\ WriterFence(w) /\ Goto(w, "hash") /\ w \in Sealers
        /\ file' = [file EXCEPT !.synced = Len(file.bytes)]
        /\ UNCHANGED <<row, lease, inode, names, diskNames, acked, published>>
    BY DEF SyncStaging, At, Row, Ghosts, Sealers
  <1>2. {"open", "hash"} \subseteq Busy /\ "hash" \in Points
    BY DEF Busy, Points, Opening
  <1>3. MovedOn(w, "hash")
    BY <1>1, <1>2, GotoMoves DEF IInv
  <1>4. file'.bytes = file.bytes /\ file'.synced = Len(file.bytes)
    BY <1>1 DEF IInv, Typed
  <1>5. Knows(w)'
    BY <1>3, <1>4 DEF Knows, MovedOn
  <1> QED BY <1>1, <1>2, <1>3, <1>5, FenceIsCurrent, StagingSynced

\* A step of an actor in the middle of its operation that changes nothing on
\* disk.
LEMMA ReaderMoves ==
  ASSUME StagingAssumption, IInv, NEW a \in Sealers, proc[a].pc \in Busy,
         NEW pc \in Busy, MovedOn(a, pc),
         UNCHANGED <<row, lease, file, inode, names, diskNames, acked, published>>,
         Current(a) /\ row.state \in Live => Knows(a)'
  PROVE  IInv'
  <1>1. Typed' /\ Ordered'
    BY DEF IInv, Typed, Ordered, NoStaleWrite, MovedOn, Moved
  <1>2. a = "manager" /\ Repairing' => Repairing
    BY DEF MovedOn, Repairing, Busy
  <1>3. Procs'
    BY <1>2, MovedProcs DEF IInv
  <1>4. Unused'
    <2>1. row.state \notin {"NONE", "ALLOCATED"}
      BY NobodyBusy DEF IInv, Busy
    <2> QED BY <2>1 DEF Unused
  <1>5. Current(a)' => Current(a)
    BY <1>2 DEF MovedOn, Current, Holder
  <1>6. Knowledge'
    BY <1>5, OthersStillKnow DEF IInv, MovedOn
  <1>7. Files'
    <2>1. pc \notin {"sync_new", "admit"}
      BY DEF Busy, Opening
    <2>2. proc'["manager"].pc \in {"sync_new", "admit"} => file'.here
      BY <2>1, FilesOfManager DEF MovedOn
    <2> QED BY <2>2 DEF IInv, Files
  <1>8. Acks'
    BY DEF IInv, Acks
  <1> QED BY <1>1, <1>3, <1>4, <1>6, <1>7, <1>8 DEF IInv

\* hash_reader reads what the sync made durable, if the handle is current.
LEMMA HashStagingStep ==
  ASSUME StagingAssumption, IInv, NEW w \in Writers, HashStaging(w)
  PROVE  IInv'
  <1>1. /\ proc[w].pc = "hash" /\ w \in Sealers
        /\ proc' = [proc EXCEPT ![w].pc = "create_seal", ![w].hash = file.bytes]
        /\ UNCHANGED <<row, lease, file, inode, names, diskNames, acked, published>>
    BY DEF HashStaging, At, Row, Disk, Ghosts, Sealers
  <1>2. {"hash", "create_seal"} \subseteq Busy /\ "create_seal" \in Points
    BY DEF Busy, Points, Opening
  <1>3. MovedOn(w, "create_seal") /\ proc'[w].hash = file.bytes
    BY <1>1, <1>2 DEF IInv, Typed, MovedOn, Moved, ProcRow
  <1>4. Current(w) /\ row.state \in Live => Knows(w)'
    <2>1. Current(w) /\ row.state \in Live => file.synced = Len(file.bytes)
      BY <1>1 DEF IInv, Knowledge, Knows
    <2> QED BY <1>1, <1>3, <2>1 DEF Knows, MovedOn
  <1> QED BY <1>1, <1>2, <1>3, <1>4, ReaderMoves

\* The evidence decides how the seal goes on; both names are one inode.
LEMMA ReadEvidenceStep ==
  ASSUME StagingAssumption, IInv, ReadEvidence
  PROVE  IInv'
  <1> DEFINE a == "manager"
             pc == AfterEvidence
  <1>1. /\ proc[a].pc = "evidence" /\ a \in Sealers /\ SealValid
        /\ proc' = [proc EXCEPT ![a].pc = pc, ![a].hash = file.bytes]
        /\ UNCHANGED <<row, lease, file, inode, names, diskNames, acked, published>>
    BY DEF ReadEvidence, Manager, At, Row, Disk, Ghosts, Sealers
  <1>2. names \subseteq {"pending", "final"} /\ inode.kind \in {"Truncated", "Complete"}
    BY DEF IInv, Typed, Names
  <1>3. \/ pc = "remove_pending" /\ names = {"pending", "final"} /\ inode.kind = "Complete"
        \/ pc = "rename_seal" /\ names # {} /\ inode.kind = "Complete"
        \/ pc = "sync_final" /\ names = {"final"} /\ inode.kind = "Complete"
        \/ /\ names = {} \/ inode.kind = "Truncated"
           /\ pc = IF Starting(a) THEN "remove_seal" ELSE "sync_retry"
    <2>1. /\ Complete("final") <=> "final" \in names /\ inode.kind = "Complete"
          /\ Complete("pending") <=> "pending" \in names /\ inode.kind = "Complete"
      BY DEF Complete, Kind
    <2>2. CASE Complete("final") /\ Complete("pending")
      <3>1. names = {"pending", "final"} /\ inode.kind = "Complete"
        BY <1>2, <2>1, <2>2
      <3>2. pc = "remove_pending"
        BY <2>2 DEF AfterEvidence
      <3> QED BY <3>1, <3>2
    <2>3. CASE ~Complete("final") /\ Complete("pending")
      BY <2>1, <2>3 DEF AfterEvidence
    <2>4. CASE Complete("final") /\ ~Complete("pending")
      BY <1>2, <2>1, <2>4 DEF AfterEvidence
    <2>5. CASE ~Complete("final") /\ ~Complete("pending")
      <3>1. names = {} \/ inode.kind = "Truncated"
        BY <1>2, <2>1, <2>5
      <3> QED BY <2>5, <3>1 DEF AfterEvidence
    <2> QED BY <2>2, <2>3, <2>4, <2>5
  <1>4. {"evidence", "remove_pending", "rename_seal", "sync_final", "remove_seal", "sync_retry"}
          \subseteq Busy \cap Points
    BY DEF Busy, Points, Opening
  <1>5. pc \in Busy /\ pc \in Points
    BY <1>3, <1>4
  <1> HIDE DEF pc
  <1>6. MovedOn(a, pc) /\ proc'[a].hash = file.bytes
    BY <1>1, <1>5 DEF IInv, Typed, MovedOn, Moved, ProcRow
  <1>7. Starting(a) <=> Repairing
    BY <1>1 DEF Starting, Repairing, Opening
  <1>8. Current(a) /\ row.state \in Live /\ Repairing => names # {} /\ file.synced = Len(file.bytes)
    BY <1>1 DEF IInv, Knowledge, Knows, Files
  <1>9. Current(a) /\ row.state \in Live => Knows(a)'
    BY <1>1, <1>3, <1>6, <1>7, <1>8 DEF Knows, MovedOn, Names
  <1> QED BY <1>1, <1>4, <1>5, <1>6, <1>9, ReaderMoves


-----------------------------------------------------------------------------
(* Steps that end an operation, and writes. *)

\* The directory sync of the final name: an acknowledgement is given over a
\* complete seal only.
LEMMA SyncFinalStep ==
  ASSUME StagingAssumption, IInv, NEW a \in Sealers, SyncFinal(a)
  PROVE  IInv'
  <1>1. /\ proc[a].pc = "sync_final" /\ Admitted(a) /\ diskNames' = names
        /\ acked' = IF Starting(a) \/ ~inode.synced THEN acked ELSE proc[a].hash
        /\ proc' = [proc EXCEPT ![a] = IF a = "manager" THEN Idle ELSE Gone]
        /\ UNCHANGED <<row, lease, file, inode, names, published>>
    BY DEF SyncFinal, At, Row
  <1>2. "sync_final" \in Busy
    BY DEF Busy, Points, Opening
  <1>3. /\ Current(a) /\ (row.state \in Live => Knows(a))
        /\ ~Starting(a) => row.state = "WRITING"
    BY <1>1, <1>2, SealAdmission
  <1>4. Ended(a) /\ proc'[a].pc \in {"idle", "gone"}
    BY <1>1, Rows DEF IInv, Typed, Ended, Moved
  <1>5. Typed' /\ Ordered'
    BY <1>1, <1>4 DEF IInv, Typed, Ordered, NoStaleWrite, Ended, Moved
  <1>6. Procs'
    BY <1>1, <1>4, EndedProcs DEF IInv
  <1>7. Unused'
    <2>1. row.state \notin {"NONE", "ALLOCATED"}
      BY <1>1, <1>2, NobodyBusy DEF IInv, Busy
    <2> QED BY <1>1, <2>1 DEF Unused
  <1>8. Knowledge'
    <2>1. Knows(a)'
      BY <1>4 DEF Knows
    <2> QED BY <1>1, <1>3, <1>4, <2>1, OthersKnowNothing DEF IInv, Ended
  <1>9. row.state \in Live => names = {"final"} /\ inode.kind = "Complete" /\ proc[a].hash = file.bytes
    BY <1>1, <1>3 DEF Knows
  <1>10. Files'
    <2>1. proc'["manager"].pc \in {"sync_new", "admit"} => file'.here
      BY <1>1, <1>4, FilesOfManager DEF Ended
    <2> QED BY <1>1, <2>1 DEF IInv, Files
  <1>11. Acks'
    <2>1. CASE acked' = acked
      BY <1>1, <1>9, <2>1 DEF IInv, Acks
    <2>2. CASE ~Starting(a) /\ inode.synced = TRUE /\ acked' = proc[a].hash
      <3>1. row.state = "WRITING" /\ row.state \in Live
        BY <1>3, <2>2 DEF Live
      <3>2. published = None
        BY <3>1 DEF IInv, Acks
      <3>3. inode.bytes = proc[a].hash
        BY <1>9, <3>1 DEF IInv, Files
      <3> QED BY <1>1, <1>9, <2>2, <3>1, <3>2, <3>3 DEF Acks
    <2>3. inode.synced \in BOOLEAN
      BY DEF IInv, Typed
    <2> QED BY <1>1, <2>1, <2>2, <2>3
  <1> QED BY <1>5, <1>6, <1>7, <1>8, <1>10, <1>11 DEF IInv

\* An operation ends without touching the disk.
LEMMA EndedStep ==
  ASSUME StagingAssumption, IInv, NEW a \in Sealers, Ended(a),
         UNCHANGED <<row, lease, file, inode, names, diskNames, acked, published>>
  PROVE  IInv'
  <1>1. proc'[a].pc \in {"idle", "gone"}
    BY Rows DEF IInv, Ended
  <1>2. Typed' /\ Ordered'
    BY DEF IInv, Typed, Ordered, NoStaleWrite, Ended, Moved
  <1>3. Procs'
    BY EndedProcs DEF IInv
  <1>4. Unused'
    BY Rows DEF IInv, Unused, Ended, Moved, At
  <1>5. Knowledge'
    <2>1. Knows(a)'
      BY <1>1 DEF Knows
    <2> QED BY <2>1, OthersStillKnow DEF IInv, Ended
  <1>6. Files'
    <2>1. proc'["manager"].pc \in {"sync_new", "admit"} => file'.here
      BY <1>1, FilesOfManager DEF Ended
    <2> QED BY <2>1 DEF IInv, Files
  <1>7. Acks'
    BY DEF IInv, Acks
  <1> QED BY <1>2, <1>3, <1>4, <1>5, <1>6, <1>7 DEF IInv

LEMMA AbandonStep ==
  ASSUME StagingAssumption, IInv, NEW a \in Sealers, Abandon(a)
  PROVE  IInv'
  <1>1. Ended(a)
    BY Rows DEF Abandon, IInv, Typed, Ended, Moved
  <1> QED BY <1>1, EndedStep DEF Abandon, Row, Disk, Ghosts

\* The handle that passes the fence appends its generation, the newest one.
LEMMA Appends ==
  ASSUME StagingAssumption, IInv, NEW w \in Writers, WriterFence(w), Append1(w)
  PROVE  /\ file' \in [here : BOOLEAN, bytes : Seq(Nat), synced : Nat]
         /\ file'.here = file.here /\ file'.synced <= Len(file'.bytes)
         /\ row' = row => Ordered'
  <1> DEFINE g == proc[w].gen
  <1>1. /\ file \in [here : BOOLEAN, bytes : Seq(Nat), synced : Nat]
        /\ file.synced <= Len(file.bytes) /\ row.gen \in Nat /\ g = row.gen
    BY FenceIsCurrent DEF IInv, Typed, Sealers
  <1>2. file' = [file EXCEPT !.bytes = Append(file.bytes, g)]
    BY DEF Append1
  <1> HIDE DEF g
  <1>3. /\ file'.bytes = Append(file.bytes, g) /\ file'.here = file.here /\ file'.synced = file.synced
    BY <1>1, <1>2
  <1>4. /\ Append(file.bytes, g) \in Seq(Nat)
        /\ Len(Append(file.bytes, g)) = Len(file.bytes) + 1
        /\ \A i \in 1..Len(file.bytes) : Append(file.bytes, g)[i] = file.bytes[i]
        /\ Append(file.bytes, g)[Len(file.bytes) + 1] = g
        /\ Len(file.bytes) \in Nat
    BY <1>1
  <1>5. file' \in [here : BOOLEAN, bytes : Seq(Nat), synced : Nat]
    BY <1>1, <1>2, <1>4
  <1>6. /\ \A i \in 1..Len(file.bytes) : file.bytes[i] \in Nat /\ file.bytes[i] <= row.gen
        /\ \A i, j \in 1..Len(file.bytes) : i < j => file.bytes[i] <= file.bytes[j]
    BY <1>1 DEF IInv, Ordered, NoStaleWrite
  <1>7. \A i \in 1..(Len(file.bytes) + 1) : i \in 1..Len(file.bytes) \/ i = Len(file.bytes) + 1
    BY <1>4
  <1>8. \A i \in 1..Len(file'.bytes) : file'.bytes[i] <= row.gen
    BY <1>1, <1>3, <1>4, <1>6, <1>7
  <1>9. \A i, j \in 1..Len(file'.bytes) : i < j => file'.bytes[i] <= file'.bytes[j]
    <2> SUFFICES ASSUME NEW i \in 1..(Len(file.bytes) + 1), NEW j \in 1..(Len(file.bytes) + 1), i < j
                 PROVE  Append(file.bytes, g)[i] <= Append(file.bytes, g)[j]
      BY <1>3, <1>4
    <2>1. i \in 1..Len(file.bytes)
      BY <1>4, <1>7
    <2>2. CASE j \in 1..Len(file.bytes)
      BY <1>4, <1>6, <2>1, <2>2
    <2>3. CASE j = Len(file.bytes) + 1
      BY <1>1, <1>4, <1>6, <2>1, <2>3
    <2> QED BY <1>7, <2>2, <2>3
  <1>10. row' = row => Ordered'
    BY <1>8, <1>9 DEF Ordered, NoStaleWrite
  <1> QED BY <1>1, <1>3, <1>4, <1>5, <1>10

\* A write, whole or failed, by the current handle before any seal.
LEMMA WriteSteps ==
  ASSUME StagingAssumption, IInv, NEW w \in Writers, Write(w) \/ FailWrite(w)
  PROVE  IInv'
  <1>1. /\ proc[w].pc = "open" /\ WriterFence(w) /\ names = {} /\ w \in Sealers /\ w # "manager"
        /\ UNCHANGED <<row, lease, inode, names, diskNames, acked, published>>
    BY DEF Write, FailWrite, At, Unsealed, Row, Ghosts, Sealers, StagingAssumption
  <1>2. Append1(w) \/ file' = file
    BY DEF Write, FailWrite
  <1>3. /\ file' \in [here : BOOLEAN, bytes : Seq(Nat), synced : Nat]
        /\ file'.here = file.here /\ file'.synced <= Len(file'.bytes) /\ Ordered'
    <2>1. CASE Append1(w)
      BY <1>1, <2>1, Appends
    <2>2. CASE file' = file
      BY <1>1, <2>2 DEF IInv, Typed, Ordered, NoStaleWrite
    <2> QED BY <1>2, <2>1, <2>2
  <1>4. MovedOn(w, "open") \/ Ended(w)
    <2>1. CASE Write(w)
      <3>1. proc' = [proc EXCEPT ![w].written = proc[w].written + 1]
        BY <2>1 DEF Write
      <3> DEFINE r == [proc[w] EXCEPT !.written = proc[w].written + 1]
      <3>2. proc \in [Sealers -> ProcRow] /\ proc[w] \in ProcRow
        BY <1>1 DEF IInv, Typed
      <3>3. r \in ProcRow /\ r.pc = "open" /\ r.gen = proc[w].gen /\ r.epoch = proc[w].epoch
        <4>1. \A q \in ProcRow, n \in Nat : [q EXCEPT !.written = n] \in ProcRow
          BY DEF ProcRow
        <4>2. proc[w].written + 1 \in Nat
          BY <3>2 DEF ProcRow
        <4>3. r \in ProcRow
          BY <3>2, <4>1, <4>2
        <4>4. r.pc = proc[w].pc /\ r.gen = proc[w].gen /\ r.epoch = proc[w].epoch
          BY <3>2 DEF ProcRow
        <4> QED BY <1>1, <4>3, <4>4
      <3>4. proc' = [proc EXCEPT ![w] = r]
        BY <3>1
      <3> HIDE DEF r
      <3> QED BY <1>1, <3>2, <3>3, <3>4 DEF MovedOn, Moved
    <2>2. CASE FailWrite(w)
      BY <1>1, <2>2, Rows DEF FailWrite, IInv, Typed, Ended, Moved
    <2> QED BY <2>1, <2>2
  <1>5. Moved(w) /\ proc'[w].pc \in {"open", "gone"}
    BY <1>1, <1>4, Rows DEF MovedOn, Ended, IInv
  <1>6. Current(w) /\ row.state = "WRITING"
    BY <1>1, FenceIsCurrent
  <1>7. Typed'
    BY <1>1, <1>3, <1>5 DEF IInv, Typed, Moved
  <1>8. Procs'
    BY <1>1, <1>4, MovedProcs, EndedProcs DEF IInv
  <1>9. Unused'
    BY <1>1, <1>6 DEF Unused
  <1>10. Knowledge'
    <2>1. Knows(w)'
      BY <1>5 DEF Knows
    <2> QED BY <1>1, <1>5, <1>6, <2>1, OthersKnowNothing DEF IInv
  <1>11. Files'
    <2>1. proc'["manager"].pc \in {"sync_new", "admit"} => file'.here
      BY <1>1, <1>3, <1>5, FilesOfManager
    <2> QED BY <1>1, <1>3, <2>1 DEF IInv, Files
  <1>12. Acks'
    BY <1>1 DEF IInv, Acks
  <1> QED BY <1>3, <1>7, <1>8, <1>9, <1>10, <1>11, <1>12 DEF IInv


-----------------------------------------------------------------------------
(* New generations. *)

\* A fresh generation: only its owner can be current afterwards, unless the
\* manager repairs, which it does not while it hands out generations.
LEMMA FreshProcs ==
  ASSUME StagingAssumption, IInv, NEW a \in Sealers,
         row'.gen = row.gen + 1, lease' = lease, proc' \in [Sealers -> ProcRow],
         proc'[a].gen = row.gen + 1, proc'[a].epoch = lease,
         \A b \in Sealers : b # a => proc'[b].gen <= row.gen /\ proc'[b].epoch <= lease,
         \A b, c \in Sealers : b # a /\ c # a /\ b # c /\ proc'[b].gen = proc'[c].gen => proc'[b].gen = 0,
         proc'["manager"].epoch = lease, ~Repairing'
  PROVE  /\ Procs'
         /\ \A b \in Sealers : Current(b)' => b = a
  <1>1. /\ row.gen \in Nat /\ lease \in Nat /\ \A b \in Sealers : proc'[b].gen \in Nat
    BY DEF IInv, Typed, ProcRow
  <1>2. \A b \in Sealers : proc'[b].gen <= row'.gen /\ proc'[b].epoch <= lease'
    BY <1>1
  <1>3. \A b, c \in Sealers : b # c /\ proc'[b].gen = proc'[c].gen => proc'[b].gen = 0
    BY <1>1
  <1>4. Procs'
    BY <1>1, <1>2, <1>3 DEF Procs
  <1>5. \A b \in Sealers : Current(b)' => b = a
    BY <1>1 DEF Current, Holder
  <1> QED BY <1>4, <1>5

\* The bytes stay in order when the generation grows.
LEMMA OrderGrows ==
  ASSUME IInv, file' = file, row'.gen = row.gen + 1
  PROVE  Ordered'
  <1>1. row.gen \in Nat /\ file.bytes \in Seq(Nat)
    BY DEF IInv, Typed
  <1>2. \A i \in 1..Len(file.bytes) : file.bytes[i] \in Nat /\ file.bytes[i] <= row.gen
    BY <1>1 DEF IInv, Ordered
  <1> QED BY <1>1, <1>2 DEF IInv, Ordered, NoStaleWrite

\* The first handle of the allocation.
LEMMA AdmitWriterStep ==
  ASSUME StagingAssumption, IInv, NEW w \in Writers, AdmitWriter(w)
  PROVE  IInv'
  <1> DEFINE h == Handle(row.gen + 1, 0)
  <1>1. /\ proc["manager"].pc = "admit" /\ row.state = "ALLOCATED"
        /\ row' = [state |-> "WRITING", gen |-> row.gen + 1]
        /\ proc' = [proc EXCEPT !["manager"] = Idle, ![w] = h]
        /\ UNCHANGED <<lease, file, inode, names, diskNames, acked, published>>
    BY DEF AdmitWriter, Manager, At, OpenPin, Disk, Ghosts
  <1>2. /\ row.gen \in Nat /\ lease \in Nat /\ w \in Sealers /\ w # "manager" /\ "manager" \in Sealers
        /\ proc \in [Sealers -> ProcRow]
    BY DEF IInv, Typed, Sealers, StagingAssumption
  <1>3. None \in Seq(Nat)
    BY DEF None
  <1>4. h \in ProcRow /\ h.pc = "open" /\ h.gen = row.gen + 1 /\ h.epoch = lease
    BY <1>2, <1>3 DEF Handle, ProcRow, Points
  <1> HIDE DEF h
  <1>5. /\ Idle \in ProcRow /\ Idle.pc = "idle" /\ Idle.gen = 0 /\ Idle.epoch = lease
    BY Rows DEF IInv
  <1>6. /\ proc' \in [Sealers -> ProcRow] /\ proc'[w] = h /\ proc'["manager"] = Idle
        /\ \A b \in Sealers : b # w /\ b # "manager" => proc'[b] = proc[b]
    BY <1>1, <1>2, <1>4, <1>5
  <1>7. row' \in [state : States, gen : Nat] /\ row'.gen = row.gen + 1 /\ row'.state = "WRITING"
    BY <1>1, <1>2 DEF States
  <1>8. ~Repairing'
    BY <1>5, <1>6 DEF Repairing
  <1>9. \A b \in Sealers : proc[b].gen \in Nat /\ proc[b].gen <= row.gen /\ proc[b].epoch <= lease
    BY <1>2 DEF IInv, Procs, ProcRow
  <1>10. Procs' /\ \A b \in Sealers : Current(b)' => b = w
    <2>1. \A b \in Sealers : b # w => proc'[b].gen <= row.gen /\ proc'[b].epoch <= lease
      BY <1>2, <1>5, <1>6, <1>9
    <2>2. \A b, c \in Sealers :
            b # w /\ c # w /\ b # c /\ proc'[b].gen = proc'[c].gen => proc'[b].gen = 0
      BY <1>5, <1>6 DEF IInv, Procs
    <2> QED BY <1>1, <1>2, <1>4, <1>5, <1>6, <1>7, <1>8, <2>1, <2>2, FreshProcs
  <1>11. Typed'
    BY <1>1, <1>6, <1>7 DEF IInv, Typed
  <1>12. Ordered'
    BY <1>1, <1>7, OrderGrows
  <1>13. Unused'
    BY <1>7 DEF Unused
  <1>14. Knowledge'
    <2>1. Knows(w)'
      BY <1>4, <1>6 DEF Knows
    <2> QED BY <1>10, <2>1 DEF Knowledge
  <1>15. names = {} /\ diskNames = {} /\ acked = None /\ file.here /\ published = None
    BY <1>1 DEF IInv, Unused, Files, Acks
  <1>16. Files' /\ Acks'
    BY <1>1, <1>5, <1>6, <1>15 DEF Files, Acks
  <1> QED BY <1>10, <1>11, <1>12, <1>13, <1>14, <1>16 DEF IInv

\* Another handle replaces the one before, as long as nothing is sealed.
LEMMA ReopenStep ==
  ASSUME StagingAssumption, IInv, NEW w \in Writers, Reopen(w)
  PROVE  IInv'
  <1> DEFINE h == Handle(row.gen + 1, Len(file.bytes))
  <1>1. /\ proc["manager"].pc = "idle" /\ row.state = "WRITING" /\ names = {} /\ file.here
        /\ row' = [row EXCEPT !.gen = row.gen + 1]
        /\ proc' = [proc EXCEPT ![w] = h]
        /\ UNCHANGED <<lease, file, inode, names, diskNames, acked, published>>
    BY DEF Reopen, Serving, Manager, At, WriterAuthority, Unsealed, Disk, Ghosts
  <1>2. /\ row.gen \in Nat /\ lease \in Nat /\ w \in Sealers /\ w # "manager" /\ "manager" \in Sealers
        /\ proc \in [Sealers -> ProcRow] /\ Len(file.bytes) \in Nat
        /\ row \in [state : States, gen : Nat]
    BY DEF IInv, Typed, Sealers, StagingAssumption
  <1>3. None \in Seq(Nat)
    BY DEF None
  <1>4. h \in ProcRow /\ h.pc = "open" /\ h.gen = row.gen + 1 /\ h.epoch = lease
    BY <1>2, <1>3 DEF Handle, ProcRow, Points
  <1> HIDE DEF h
  <1>5. /\ proc' \in [Sealers -> ProcRow] /\ proc'[w] = h
        /\ \A b \in Sealers : b # w => proc'[b] = proc[b]
    BY <1>1, <1>2, <1>4
  <1>6. row' \in [state : States, gen : Nat] /\ row'.gen = row.gen + 1 /\ row'.state = "WRITING"
    BY <1>1, <1>2
  <1>7. ~Repairing'
    BY <1>1, <1>2, <1>5 DEF Repairing
  <1>8. Procs' /\ \A b \in Sealers : Current(b)' => b = w
    <2>1. \A b \in Sealers : b # w => proc'[b].gen <= row.gen /\ proc'[b].epoch <= lease
      BY <1>5 DEF IInv, Procs
    <2>2. \A b, c \in Sealers :
            b # w /\ c # w /\ b # c /\ proc'[b].gen = proc'[c].gen => proc'[b].gen = 0
      BY <1>5 DEF IInv, Procs
    <2>3. proc'["manager"].epoch = lease
      BY <1>2, <1>5 DEF IInv, Procs
    <2> QED BY <1>1, <1>2, <1>4, <1>5, <1>6, <1>7, <2>1, <2>2, <2>3, FreshProcs
  <1>9. Typed'
    BY <1>1, <1>5, <1>6 DEF IInv, Typed
  <1>10. Ordered'
    BY <1>1, <1>6, OrderGrows
  <1>11. Unused'
    BY <1>6 DEF Unused
  <1>12. Knowledge'
    <2>1. Knows(w)'
      BY <1>4, <1>5 DEF Knows
    <2> QED BY <1>8, <2>1 DEF Knowledge
  <1>13. row.state \in Live
    BY <1>1 DEF Live
  <1>14. Files' /\ Acks'
    BY <1>1, <1>2, <1>5, <1>6, <1>13 DEF IInv, Files, Acks
  <1> QED BY <1>8, <1>9, <1>10, <1>11, <1>12, <1>14 DEF IInv

\* A retry of finish takes the generation from whoever had it.
LEMMA RetryFinishStep ==
  ASSUME StagingAssumption, IInv, RetryFinish
  PROVE  IInv'
  <1> DEFINE m == "manager"
             h == [proc[m] EXCEPT !.pc = "evidence", !.gen = row.gen + 1]
  <1>1. /\ proc[m].pc = "idle" /\ row.state = "WRITING"
        /\ row' = [row EXCEPT !.gen = row.gen + 1]
        /\ proc' = [proc EXCEPT ![m].pc = "evidence", ![m].gen = row.gen + 1]
        /\ UNCHANGED <<lease, file, inode, names, diskNames, acked, published>>
    BY DEF RetryFinish, Serving, Manager, At, WriterAuthority, Disk, Ghosts
  <1>2. /\ row.gen \in Nat /\ lease \in Nat /\ m \in Sealers
        /\ proc \in [Sealers -> ProcRow] /\ row \in [state : States, gen : Nat]
    BY DEF IInv, Typed, Sealers
  <1>3. h \in ProcRow /\ h.pc = "evidence" /\ h.gen = row.gen + 1 /\ h.epoch = lease
    <2>1. proc[m] \in ProcRow /\ proc[m].epoch = lease
      BY <1>2 DEF IInv, Procs
    <2>2. row.gen + 1 \in Nat /\ "evidence" \in Points
      BY <1>2 DEF Points
    <2> QED BY <2>1, <2>2 DEF ProcRow
  <1>4. proc' = [proc EXCEPT ![m] = h]
    BY <1>1, <1>2
  <1> HIDE DEF h
  <1>5. /\ proc' \in [Sealers -> ProcRow] /\ proc'[m] = h
        /\ \A b \in Sealers : b # m => proc'[b] = proc[b]
    BY <1>2, <1>3, <1>4
  <1>6. row' \in [state : States, gen : Nat] /\ row'.gen = row.gen + 1 /\ row'.state = "WRITING"
    BY <1>1, <1>2
  <1>7. ~Repairing'
    BY <1>2, <1>3, <1>5 DEF Repairing
  <1>8. Procs' /\ \A b \in Sealers : Current(b)' => b = m
    <2>1. \A b \in Sealers : b # m => proc'[b].gen <= row.gen /\ proc'[b].epoch <= lease
      BY <1>5 DEF IInv, Procs
    <2>2. \A b, c \in Sealers :
            b # m /\ c # m /\ b # c /\ proc'[b].gen = proc'[c].gen => proc'[b].gen = 0
      BY <1>5 DEF IInv, Procs
    <2> QED BY <1>1, <1>2, <1>3, <1>5, <1>6, <1>7, <2>1, <2>2, FreshProcs
  <1>9. Typed'
    BY <1>1, <1>5, <1>6 DEF IInv, Typed
  <1>10. Ordered'
    BY <1>1, <1>6, OrderGrows
  <1>11. Unused'
    BY <1>6 DEF Unused
  <1>12. Knowledge'
    <2>1. Knows(m)'
      BY <1>3, <1>5, <1>7 DEF Knows
    <2> QED BY <1>8, <2>1 DEF Knowledge
  <1>13. row.state \in Live
    BY <1>1 DEF Live
  <1>14. Files' /\ Acks'
    BY <1>1, <1>3, <1>5, <1>6, <1>13 DEF IInv, Files, Acks
  <1> QED BY <1>8, <1>9, <1>10, <1>11, <1>12, <1>14 DEF IInv


-----------------------------------------------------------------------------
(* Crashes and startup. *)

\* Whatever handles a new manager finds, they have an older lease: nobody but
\* the manager is current.
LEMMA NewLease ==
  ASSUME StagingAssumption, IInv, lease' = lease + 1, row' = row, NEW kept \in SUBSET Writers,
         proc' = [a \in Sealers |->
           IF a = "manager" THEN [Gone EXCEPT !.pc = "startup", !.epoch = lease + 1]
           ELSE IF a \in kept THEN proc[a] ELSE Gone]
  PROVE  /\ proc' \in [Sealers -> ProcRow] /\ proc'["manager"].pc = "startup"
         /\ \A w \in Writers : At(w, "gone") => At(w, "gone")'
         /\ Procs' /\ Knowledge'
  <1> DEFINE m == [Gone EXCEPT !.pc = "startup", !.epoch = lease + 1]
  <1>1. /\ Gone \in ProcRow /\ Gone.pc = "gone" /\ Gone.gen = 0 /\ Gone.epoch = 0
        /\ "manager" \in Sealers /\ "manager" \notin Writers /\ Sealers = Writers \cup {"manager"}
    BY Rows DEF IInv
  <1>2. /\ row.gen \in Nat /\ lease \in Nat /\ lease + 1 \in Nat /\ proc \in [Sealers -> ProcRow]
    BY DEF IInv, Typed
  <1>3. m \in ProcRow /\ m.pc = "startup" /\ m.gen = 0 /\ m.epoch = lease + 1
    BY <1>1, <1>2 DEF ProcRow, Points
  <1>4. /\ proc'["manager"] = m
        /\ \A w \in Writers : proc'[w] = proc[w] \/ proc'[w] = Gone
        /\ proc' \in [Sealers -> ProcRow]
    BY <1>1, <1>2, <1>3
  <1> HIDE DEF m
  <1>5. \A w \in Writers : /\ proc'[w].gen <= row.gen /\ proc'[w].gen \in Nat
                           /\ proc'[w].epoch <= lease /\ proc'[w].epoch \in Nat
    BY <1>1, <1>2, <1>4 DEF IInv, Procs, ProcRow
  <1>6. \A w \in Writers : proc'[w].epoch # lease + 1
    BY <1>2, <1>5
  <1>7. \A b, c \in Sealers : b # c /\ proc'[b].gen = proc'[c].gen => proc'[b].gen = 0
    BY <1>1, <1>3, <1>4 DEF IInv, Procs
  <1>8. \A b \in Sealers : proc'[b].gen <= row.gen /\ proc'[b].epoch <= lease + 1
    BY <1>1, <1>2, <1>3, <1>4, <1>5
  <1>9. Procs'
    BY <1>3, <1>4, <1>6, <1>7, <1>8 DEF IInv, Procs
  <1>10. \A w \in Writers : ~Current(w)'
    BY <1>1, <1>6 DEF Current, Holder
  <1>11. Knows("manager")'
    BY <1>3, <1>4 DEF Knows
  <1>12. Knowledge'
    BY <1>1, <1>10, <1>11 DEF Knowledge
  <1>13. \A w \in Writers : At(w, "gone") => At(w, "gone")'
    BY <1>1, <1>4 DEF At
  <1> QED BY <1>3, <1>4, <1>9, <1>12, <1>13

\* The process died, or its manager did.
LEMMA ClaimStep ==
  ASSUME StagingAssumption, IInv, Claim
  PROVE  IInv'
  <1>1. PICK kept \in SUBSET Writers :
          proc' = [a \in Sealers |->
            IF a = "manager" THEN [Gone EXCEPT !.pc = "startup", !.epoch = lease + 1]
            ELSE IF a \in kept THEN proc[a] ELSE Gone]
    BY DEF Claim
  <1>2. lease' = lease + 1 /\ UNCHANGED <<row, file, inode, names, diskNames, acked, published>>
    BY DEF Claim, Disk, Ghosts
  <1>3. /\ proc' \in [Sealers -> ProcRow] /\ proc'["manager"].pc = "startup"
        /\ \A w \in Writers : At(w, "gone") => At(w, "gone")'
        /\ Procs' /\ Knowledge'
    BY <1>1, <1>2, NewLease
  <1>4. Typed' /\ Ordered'
    BY <1>2, <1>3 DEF IInv, Typed, Ordered, NoStaleWrite
  <1>5. Unused' /\ Files' /\ Acks'
    BY <1>2, <1>3 DEF IInv, Unused, Files, Acks
  <1> QED BY <1>3, <1>4, <1>5 DEF IInv

\* A prefix of ordered bytes is ordered.
LEMMA PrefixOrdered ==
  ASSUME IInv, row' = row, NEW n \in file.synced..Len(file.bytes),
         file' = [file EXCEPT !.bytes = SubSeq(file.bytes, 1, n), !.synced = n]
  PROVE  /\ file' \in [here : BOOLEAN, bytes : Seq(Nat), synced : Nat]
         /\ file'.here = file.here /\ file'.synced = Len(file'.bytes)
         /\ file.synced = Len(file.bytes) => file'.bytes = file.bytes
         /\ Ordered'
  <1>1. /\ file \in [here : BOOLEAN, bytes : Seq(Nat), synced : Nat]
        /\ n \in Nat /\ n <= Len(file.bytes) /\ Len(file.bytes) \in Nat
    BY DEF IInv, Typed
  <1> DEFINE s == SubSeq(file.bytes, 1, n)
  <1>2. s \in Seq(Nat) /\ Len(s) = n /\ \A i \in 1..n : s[i] = file.bytes[i]
    BY <1>1
  <1>3. n = Len(file.bytes) => s = file.bytes
    BY <1>1
  <1> HIDE DEF s
  <1>4. /\ file' \in [here : BOOLEAN, bytes : Seq(Nat), synced : Nat]
        /\ file'.here = file.here /\ file'.bytes = s /\ file'.synced = n
    BY <1>1, <1>2 DEF s
  <1>5. file.synced = Len(file.bytes) => n = Len(file.bytes)
    BY <1>1
  <1>6. Ordered'
    <2>1. \A i \in 1..n : i \in 1..Len(file.bytes)
      BY <1>1
    <2>2. \A i \in 1..Len(file'.bytes) : file'.bytes[i] <= row'.gen
      BY <1>2, <1>4, <2>1 DEF IInv, Ordered
    <2>3. \A i, j \in 1..Len(file'.bytes) : i < j => file'.bytes[i] <= file'.bytes[j]
      BY <1>2, <1>4, <2>1 DEF IInv, Ordered, NoStaleWrite
    <2> QED BY <2>2, <2>3 DEF Ordered, NoStaleWrite
  <1> QED BY <1>2, <1>3, <1>4, <1>5, <1>6

\* The machine stopped: what was never synced may be gone.
LEMMA PowerLossStep ==
  ASSUME StagingAssumption, IInv, PowerLoss
  PROVE  IInv'
  <1>1. /\ lease' = lease + 1 /\ UNCHANGED <<row, acked, published>>
        /\ names' \in {names, diskNames, names \cup diskNames} /\ diskNames' = names'
        /\ inode' = inode \/ (~inode.synced /\ inode' = EmptySeal)
    BY DEF PowerLoss, Ghosts
  <1>2. PICK n \in file.synced..Len(file.bytes) :
          file' = [file EXCEPT !.bytes = SubSeq(file.bytes, 1, n), !.synced = n]
    BY DEF PowerLoss
  <1>3. proc' = [a \in Sealers |->
          IF a = "manager" THEN [Gone EXCEPT !.pc = "startup", !.epoch = lease + 1]
          ELSE IF a \in {} THEN proc[a] ELSE Gone]
    BY DEF PowerLoss
  <1>4. {} \in SUBSET Writers
    OBVIOUS
  <1>5. /\ proc' \in [Sealers -> ProcRow] /\ proc'["manager"].pc = "startup"
        /\ \A w \in Writers : At(w, "gone") => At(w, "gone")'
        /\ Procs' /\ Knowledge'
    BY <1>1, <1>3, <1>4, NewLease
  <1>6. /\ file' \in [here : BOOLEAN, bytes : Seq(Nat), synced : Nat]
        /\ file'.here = file.here /\ file'.synced = Len(file'.bytes)
        /\ file.synced = Len(file.bytes) => file'.bytes = file.bytes
        /\ Ordered'
    BY <1>1, <1>2, PrefixOrdered
  <1>7. /\ EmptySeal \in [kind : {"Truncated", "Complete"}, bytes : Seq(Nat), synced : BOOLEAN]
        /\ EmptySeal.kind = "Truncated"
    BY DEF EmptySeal
  <1>8. Typed'
    <2>1. lease' \in Nat \ {0} /\ row' \in [state : States, gen : Nat]
      BY <1>1 DEF IInv, Typed
    <2>2. names' \in SUBSET Names /\ diskNames' \in SUBSET Names
      BY <1>1 DEF IInv, Typed
    <2>3. inode' \in [kind : {"Truncated", "Complete"}, bytes : Seq(Nat), synced : BOOLEAN]
      BY <1>1, <1>7 DEF IInv, Typed
    <2>4. file'.synced <= Len(file'.bytes)
      BY <1>6
    <2> QED BY <1>5, <1>6, <2>1, <2>2, <2>3, <2>4 DEF Typed
  <1>9. Unused'
    BY <1>1, <1>5 DEF IInv, Unused
  <1>10. Files'
    <2>1. row.state \in Live /\ names' # {} => names # {}
      BY <1>1 DEF IInv, Files
    <2>2. inode'.kind = "Complete" => inode' = inode
      BY <1>1, <1>7
    <2> QED BY <1>1, <1>5, <1>6, <2>1, <2>2 DEF IInv, Files
  <1>11. Acks'
    BY <1>1 DEF IInv, Acks
  <1> QED BY <1>5, <1>6, <1>8, <1>9, <1>10, <1>11 DEF IInv

\* The files of an allocation that has ended are removed.
LEMMA ResidueRemoved ==
  ASSUME StagingAssumption, IInv, RemoveResidue, row'.state \notin Live, row'.gen = row.gen
  PROVE  /\ file' \in [here : BOOLEAN, bytes : Seq(Nat), synced : Nat]
         /\ file'.synced <= Len(file'.bytes) /\ Ordered'
         /\ names' = {} /\ diskNames' = {} /\ inode' = inode
  <1>1. /\ NoFile \in [here : BOOLEAN, bytes : Seq(Nat), synced : Nat]
        /\ NoFile.synced <= Len(NoFile.bytes) /\ Len(NoFile.bytes) = 0
    BY DEF NoFile
  <1> QED BY <1>1 DEF RemoveResidue, Ordered, NoStaleWrite

\* reconcile_artifacts_startup
LEMMA ReconcileStep ==
  ASSUME StagingAssumption, IInv, Reconcile
  PROVE  IInv'
  <1> DEFINE m == "manager"
  <1>1. /\ proc[m].pc = "startup" /\ m \in Sealers /\ proc \in [Sealers -> ProcRow]
        /\ UNCHANGED <<lease, acked, published>>
    BY DEF Reconcile, Manager, At, Ghosts, Sealers, IInv, Typed
  <1>2. ASSUME row' = [row EXCEPT !.state = Settled], row'.state \in Removable, RemoveResidue,
               proc' = [proc EXCEPT ![m] = Idle]
        PROVE  IInv'
    <2>1. /\ row' \in [state : States, gen : Nat] /\ row'.gen = row.gen /\ row'.state = Settled
      <3>1. row \in [state : States, gen : Nat] /\ Settled \in States
        BY DEF IInv, Typed, Settled, States
      <3> QED BY <1>2, <3>1
    <2>2. row'.state \notin Live /\ row'.state # "WRITING"
      BY <1>2 DEF Removable, Live
    <2>3. /\ file' \in [here : BOOLEAN, bytes : Seq(Nat), synced : Nat]
          /\ file'.synced <= Len(file'.bytes) /\ Ordered'
          /\ names' = {} /\ diskNames' = {} /\ inode' = inode
      BY <1>2, <2>1, <2>2, ResidueRemoved
    <2>4. Ended(m)
      BY <1>1, <1>2, Rows DEF Ended, Moved, IInv
    <2>5. /\ proc'[m].pc = "idle" /\ proc'[m].gen = 0 /\ proc'[m].epoch = lease
          /\ \A b \in Sealers : b # m => proc'[b] = proc[b]
          /\ proc' \in [Sealers -> ProcRow]
      BY <2>4, Rows DEF Ended, Moved, IInv
    <2>6. Procs'
      <3>1. \A b \in Sealers : proc[b].gen \in Nat /\ proc[b].epoch \in Nat /\ proc[b].epoch <= lease
        BY <1>1 DEF ProcRow, IInv, Procs
      <3>2. \A b \in Sealers : proc'[b].gen <= row'.gen /\ proc'[b].epoch <= lease
        <4>1. row.gen \in Nat /\ lease \in Nat
          BY DEF IInv, Typed
        <4>2. \A b \in Sealers : proc[b].gen <= row.gen /\ proc[b].epoch <= lease
          BY DEF IInv, Procs
        <4> QED BY <2>1, <2>5, <4>1, <4>2
      <3>3. \A b, c \in Sealers : b # c /\ proc'[b].gen = proc'[c].gen => proc'[b].gen = 0
        BY <2>5 DEF IInv, Procs
      <3>4. ~Repairing'
        BY <2>5 DEF Repairing
      <3> QED BY <1>1, <2>2, <2>5, <3>2, <3>3, <3>4 DEF Procs
    <2>7. Typed'
      BY <1>1, <2>1, <2>3, <2>5 DEF IInv, Typed
    <2>8. row'.state \in {"NONE", "ALLOCATED"} => row.state = row'.state
      BY <2>1 DEF Settled
    <2>9. Unused'
      BY <1>1, <2>3, <2>5, <2>8, Rows DEF IInv, Unused, At
    <2>10. row.state = "PUBLISHED" => row'.state = "PUBLISHED"
      BY <2>1 DEF Settled, Live
    <2>11. Files' /\ Acks' /\ Knowledge'
      BY <1>1, <2>2, <2>5, <2>10 DEF IInv, Files, Acks, Knowledge
    <2> QED BY <2>3, <2>6, <2>7, <2>9, <2>11 DEF IInv
  <1>3. ASSUME row.state \in Live, UNCHANGED <<row, file, inode, names, diskNames>>,
               Goto(m, IF names = {} THEN "idle" ELSE "evidence")
        PROVE  IInv'
    <2> DEFINE pc == IF names = {} THEN "idle" ELSE "evidence"
    <2>1. pc \in Points /\ pc \notin {"sync_new", "admit"}
      BY DEF Points
    <2>2. MovedOn(m, pc)
      BY <1>1, <1>3, <2>1, GotoMoves DEF IInv
    <2>3. Repairing' => Repairing
      BY <1>1, <2>2 DEF Repairing, MovedOn, Opening
    <2>4. Procs'
      BY <1>1, <1>3, <2>2, <2>3, MovedProcs DEF IInv
    <2>5. Knows(m)'
      BY <1>3, <2>2 DEF Knows, MovedOn
    <2>6. Knowledge'
      BY <1>1, <1>3, <2>2, <2>5, OthersStillKnow DEF IInv, MovedOn
    <2>7. Typed' /\ Ordered'
      BY <1>1, <1>3, <2>2 DEF IInv, Typed, Ordered, NoStaleWrite, MovedOn, Moved
    <2>8. Unused'
      BY <1>3 DEF Unused, Live
    <2>9. Files' /\ Acks'
      BY <1>1, <1>3, <2>1, <2>2 DEF IInv, Files, Acks, MovedOn
    <2> QED BY <2>4, <2>6, <2>7, <2>8, <2>9 DEF IInv
  <1>4. ASSUME row.state = "NONE", UNCHANGED <<row, file, inode, names, diskNames>>,
               proc' = [proc EXCEPT ![m] = Idle]
        PROVE  IInv'
    <2>1. Ended(m)
      BY <1>1, <1>4, Rows DEF Ended, Moved, IInv
    <2> QED BY <1>1, <1>4, <2>1, EndedStep
  <1> QED BY <1>2, <1>3, <1>4 DEF Reconcile, Disk


-----------------------------------------------------------------------------
(* Steps of the allocation's row. *)

\* The row moves to a state in which nobody new becomes current, with the
\* manager idle and the files as they are.
LEMMA RowMoves ==
  ASSUME StagingAssumption, IInv, NEW st \in States, st # "WRITING",
         proc["manager"].pc = "idle",
         row' = [row EXCEPT !.state = st],
         UNCHANGED <<lease, file, inode, names, diskNames, proc, acked>>,
         st \in {"NONE", "ALLOCATED"} => row.state \in {"NONE", "ALLOCATED"},
         st \in Live => row.state \in Live,
         \/ published' = published /\ (published # None => st = "PUBLISHED")
         \/ st = "PUBLISHED" /\ (acked # None => published' = acked)
  PROVE  IInv'
  <1>1. /\ row' \in [state : States, gen : Nat] /\ row'.gen = row.gen /\ row'.state = st
    <2>1. row \in [state : States, gen : Nat]
      BY DEF IInv, Typed
    <2> QED BY <2>1
  <1>2. Typed' /\ Ordered'
    BY <1>1 DEF IInv, Typed, Ordered, NoStaleWrite
  <1>3. Procs'
    BY <1>1 DEF IInv, Procs, Repairing
  <1>4. Unused'
    BY <1>1 DEF IInv, Unused, At
  <1>5. Files'
    BY <1>1 DEF IInv, Files
  <1>6. \A a \in Sealers : ~Current(a)'
    BY <1>1 DEF Current, Holder, Repairing
  <1>7. Knowledge'
    BY <1>6 DEF Knowledge
  <1>8. Acks'
    BY <1>1 DEF IInv, Acks
  <1> QED BY <1>2, <1>3, <1>4, <1>5, <1>7, <1>8 DEF IInv

LEMMA RowSteps ==
  ASSUME StagingAssumption, IInv, Allocate \/ OpenExpired \/ BeginPublication \/ Publish
  PROVE  IInv'
  <1>1. CASE Allocate
    <2>1. published = None
      BY <1>1 DEF Allocate, IInv, Acks
    <2> QED BY <1>1, <2>1, RowMoves DEF Allocate, Serving, Manager, At, Disk, Ghosts, States, Live
  <1>2. CASE OpenExpired
    <2>1. published = None
      BY <1>2 DEF OpenExpired, IInv, Acks
    <2> QED BY <1>2, <2>1, RowMoves DEF OpenExpired, Serving, Manager, At, Disk, Ghosts, States, Live
  <1>3. CASE BeginPublication
    <2>1. row.state = "WRITING" /\ published = None
      BY <1>3 DEF BeginPublication, WriterAuthority, IInv, Acks
    <2> QED BY <1>3, <2>1, RowMoves
        DEF BeginPublication, Serving, Manager, At, Disk, Ghosts, States, Live
  <1>4. CASE Publish
    <2>1. /\ proc["manager"].pc = "idle" /\ row.state = "FINALIZING" /\ row.state \in Live
          /\ UNCHANGED <<lease, file, inode, names, diskNames, proc, acked>>
      BY <1>4 DEF Publish, Serving, Manager, At, Disk, Live
    <2>2. published = None
      BY <2>1 DEF IInv, Acks
    <2>3. CASE /\ SealValid /\ Complete("final")
               /\ row' = [row EXCEPT !.state = "PUBLISHED"] /\ published' = file.bytes
      <3>1. inode.kind = "Complete" /\ names # {}
        BY <2>3 DEF Complete, Kind
      <3>2. inode.bytes = file.bytes
        BY <2>3, <3>1 DEF SealValid
      <3>3. acked # None => published' = acked
        BY <2>1, <2>3, <3>2 DEF IInv, Acks
      <3> QED BY <2>1, <2>3, <3>3, RowMoves DEF States, Live
    <2>4. CASE row' = [row EXCEPT !.state = "FAILED"] /\ published' = published
      BY <2>1, <2>2, <2>4, RowMoves DEF States, Live
    <2> QED BY <1>4, <2>3, <2>4 DEF Publish
  <1> QED BY <1>1, <1>2, <1>3, <1>4

\* The first handle is being opened; nobody is current yet.
LEMMA OpeningSteps ==
  ASSUME StagingAssumption, IInv, BeginOpen \/ CreateStaging \/ SyncNewStaging
  PROVE  IInv'
  <1> DEFINE m == "manager"
  <1>1. PICK pc \in {"create", "sync_new", "admit"} :
          /\ Goto(m, pc) /\ row.state = "ALLOCATED" /\ proc[m].pc \in Opening \cup {"idle"}
          /\ pc = "create" => file' = file /\ diskNames' = diskNames
          /\ pc = "sync_new" => file' = NewFile /\ diskNames' = diskNames
          /\ pc = "admit" => file' = file /\ diskNames' = names /\ proc[m].pc = "sync_new"
          /\ UNCHANGED <<row, lease, inode, names, acked, published>>
    BY DEF BeginOpen, CreateStaging, SyncNewStaging, Serving, Manager, At, OpenPin, Row, Disk, Ghosts,
       Opening
  <1>2. pc \in Points /\ m \in Sealers
    BY DEF Points, Sealers
  <1>3. MovedOn(m, pc)
    BY <1>1, <1>2, GotoMoves DEF IInv
  <1>4. /\ names = {} /\ diskNames = {} /\ acked = None
        /\ \A w \in Writers : At(w, "gone")
    BY <1>1 DEF IInv, Unused
  <1>5. /\ NewFile \in [here : BOOLEAN, bytes : Seq(Nat), synced : Nat]
        /\ NewFile.synced = 0 /\ Len(NewFile.bytes) = 0 /\ NewFile.here = TRUE
    <2>1. <<>> \in Seq(Nat) /\ Len(<<>>) = 0
      OBVIOUS
    <2>2. NoFile \in [here : BOOLEAN, bytes : Seq(Nat), synced : Nat] /\ NoFile.synced = 0
      BY <2>1 DEF NoFile
    <2>3. NewFile.bytes = <<>>
      BY Rows DEF IInv
    <2>4. /\ NewFile \in [here : BOOLEAN, bytes : Seq(Nat), synced : Nat]
          /\ NewFile.here = TRUE /\ NewFile.synced = NoFile.synced
      <3> HIDE DEF NoFile
      <3> QED BY <2>2 DEF NewFile
    <2> QED BY <2>1, <2>2, <2>3, <2>4
  <1>6. /\ file' \in [here : BOOLEAN, bytes : Seq(Nat), synced : Nat]
        /\ file'.synced <= Len(file'.bytes)
    <2>1. CASE file' = file
      BY <2>1 DEF IInv, Typed
    <2>2. CASE file' = NewFile
      BY <1>5, <2>2
    <2> QED BY <1>1, <2>1, <2>2
  <1>7. Typed'
    BY <1>1, <1>3, <1>4, <1>6 DEF IInv, Typed, MovedOn, Moved
  <1>8. Ordered'
    <2>1. CASE file' = file
      BY <1>1, <2>1 DEF IInv, Ordered, NoStaleWrite
    <2>2. CASE file' = NewFile
      BY <1>5, <2>2 DEF Ordered, NoStaleWrite
    <2> QED BY <1>1, <2>1, <2>2
  <1>9. ~Repairing'
    BY <1>1, <1>3 DEF Repairing, MovedOn, Opening
  <1>10. Procs'
    BY <1>1, <1>2, <1>3, <1>9, MovedProcs DEF IInv
  <1>11. Unused'
    <2>1. \A w \in Writers : proc'[w] = proc[w]
      BY <1>3, Rows DEF IInv, MovedOn, Moved
    <2> QED BY <1>1, <1>3, <1>4, <2>1 DEF Unused, At, MovedOn, Opening
  <1>12. Knowledge' /\ Acks'
    BY <1>1, <1>4 DEF IInv, Knowledge, Acks, Live
  <1>13. Files'
    <2>1. pc \in {"sync_new", "admit"} => file'.here
      BY <1>1, <1>5 DEF IInv, Files
    <2> QED BY <1>1, <1>3, <2>1 DEF Files, Live, MovedOn
  <1> QED BY <1>7, <1>8, <1>10, <1>11, <1>12, <1>13 DEF IInv

\* remove_terminal_publication_residue
LEMMA CleanTerminalStep ==
  ASSUME StagingAssumption, IInv, CleanTerminal
  PROVE  IInv'
  <1>1. /\ proc["manager"].pc = "idle" /\ row.state \in {"PUBLISHED", "FAILED"} /\ RemoveResidue
        /\ UNCHANGED <<row, lease, proc, acked, published>>
    BY DEF CleanTerminal, Serving, Manager, At, Row, Ghosts
  <1>2. row'.state \notin Live /\ row'.gen = row.gen
    BY <1>1 DEF Live
  <1>3. /\ file' \in [here : BOOLEAN, bytes : Seq(Nat), synced : Nat]
        /\ file'.synced <= Len(file'.bytes) /\ Ordered'
        /\ names' = {} /\ diskNames' = {} /\ inode' = inode
    BY <1>1, <1>2, ResidueRemoved
  <1>4. Typed' /\ Procs'
    BY <1>1, <1>3 DEF IInv, Typed, Procs, Repairing
  <1>5. Unused' /\ Files' /\ Knowledge' /\ Acks'
    BY <1>1, <1>2, <1>3 DEF IInv, Unused, Files, Knowledge, Acks, Live
  <1> QED BY <1>3, <1>4, <1>5 DEF IInv

\* Grants and deadlines are outside; the fence reads them.
LEMMA OutsideSteps ==
  ASSUME IInv, UNCHANGED <<row, lease, file, inode, names, diskNames, proc, acked, published>>
  PROVE  IInv'
  <1>1. Typed' /\ Ordered'
    BY DEF IInv, Typed, Ordered, NoStaleWrite
  <1>2. Procs' /\ (Repairing' <=> Repairing)
    BY DEF IInv, Procs, Repairing
  <1>3. Unused'
    BY DEF IInv, Unused, At
  <1>4. Files'
    BY DEF IInv, Files
  <1>5. Knowledge'
    <2> SUFFICES ASSUME NEW a \in Sealers, Current(a)', row'.state \in Live PROVE Knows(a)'
      BY DEF Knowledge
    <2>1. Current(a)
      BY <1>2 DEF Current, Holder
    <2>2. Knows(a)
      BY <2>1 DEF IInv, Knowledge
    <2> QED BY <1>2, <2>2 DEF Knows
  <1>6. Acks'
    BY DEF IInv, Acks
  <1> QED BY <1>1, <1>2, <1>3, <1>4, <1>5, <1>6 DEF IInv

-----------------------------------------------------------------------------
(* The invariant holds. *)

LEMMA InitIInv == ASSUME StagingAssumption PROVE Init => IInv
  <1> SUFFICES ASSUME Init PROVE IInv
    OBVIOUS
  <1> DEFINE m == [Gone EXCEPT !.pc = "idle", !.epoch = 1]
  <1>1. None \in Seq(Nat)
    BY DEF None
  <1>2. /\ Gone \in ProcRow /\ Gone.pc = "gone" /\ Gone.gen = 0 /\ Gone.epoch = 0
        /\ m \in ProcRow /\ m.pc = "idle" /\ m.gen = 0 /\ m.epoch = 1
    BY <1>1 DEF Gone, ProcRow, Points
  <1>3. proc = [a \in Sealers |-> IF a = "manager" THEN m ELSE Gone]
    BY DEF Init
  <1> HIDE DEF m
  <1>4. /\ "manager" \in Sealers /\ "manager" \notin Writers /\ Writers \subseteq Sealers
        /\ Sealers = Writers \cup {"manager"}
    BY DEF Sealers, StagingAssumption
  <1>5. /\ proc \in [Sealers -> ProcRow] /\ proc["manager"] = m
        /\ \A w \in Writers : proc[w] = Gone
    BY <1>2, <1>3, <1>4
  <1>6. /\ NoFile \in [here : BOOLEAN, bytes : Seq(Nat), synced : Nat]
        /\ NoFile.synced = 0 /\ Len(NoFile.bytes) = 0
        /\ EmptySeal \in [kind : {"Truncated", "Complete"}, bytes : Seq(Nat), synced : BOOLEAN]
    BY DEF NoFile, EmptySeal
  <1>7. row.state = "NONE" /\ row.gen = 0 /\ row \in [state : States, gen : Nat] /\ lease = 1
    BY DEF Init, States
  <1>8. Typed
    BY <1>5, <1>6, <1>7 DEF Init, Typed
  <1>9. Ordered
    BY <1>6 DEF Init, Ordered, NoStaleWrite
  <1>10. Procs
    <2>1. \A a \in Sealers : proc[a].gen = 0 /\ proc[a].epoch <= 1
      BY <1>2, <1>4, <1>5
    <2>2. ~Repairing
      BY <1>2, <1>5 DEF Repairing
    <2> QED BY <1>2, <1>5, <1>7, <2>1, <2>2 DEF Procs
  <1>11. Unused /\ Files /\ Knowledge /\ Acks
    BY <1>2, <1>5, <1>7 DEF Init, Unused, At, Files, Knowledge, Acks, Live
  <1> QED BY <1>8, <1>9, <1>10, <1>11 DEF IInv

LEMMA NextIInv ==
  ASSUME StagingAssumption, IInv, [Next]_vars
  PROVE  IInv'
  <1>1. CASE UNCHANGED vars
    BY <1>1, OutsideSteps DEF vars
  <1>2. CASE Lapse \/ Revoke
    BY <1>2, OutsideSteps DEF Lapse, Revoke, Disk, Ghosts
  <1>3. CASE Claim \/ PowerLoss \/ Reconcile
    BY <1>3, ClaimStep, PowerLossStep, ReconcileStep
  <1>4. CASE Allocate \/ OpenExpired \/ BeginPublication \/ Publish \/ CleanTerminal
    BY <1>4, RowSteps, CleanTerminalStep
  <1>5. CASE BeginOpen \/ CreateStaging \/ SyncNewStaging
    BY <1>5, OpeningSteps
  <1>6. ASSUME NEW w \in Writers, WriterStep(w) PROVE IInv'
    BY <1>6, AdmitWriterStep, ReopenStep, WriteSteps, SyncStagingStep, HashStagingStep DEF WriterStep
  <1>7. ASSUME NEW a \in Sealers, SealStep(a) \/ Abandon(a) PROVE IInv'
    BY <1>7, CreateSealStep, FillSealStep, SyncSealStep, SyncSealDirStep, RenameSealStep, SyncFinalStep,
       AbandonStep DEF SealStep
  <1>8. CASE RetryFinish \/ RepairStep
    BY <1>8, RetryFinishStep, ReadEvidenceStep, SyncRetryStep, RemoveSealStep, RemovePendingStep
    DEF RepairStep
  <1> QED BY <1>1, <1>2, <1>3, <1>4, <1>5, <1>6, <1>7, <1>8 DEF Next

\* The inductive invariant of an output allocation.
THEOREM StagingInvariant ==
  ASSUME StagingAssumption
  PROVE  Spec => []IInv
  <1>1. Init => IInv
    BY InitIInv
  <1>2. IInv /\ [Next]_vars => IInv'
    BY NextIInv
  <1> QED BY <1>1, <1>2, PTL DEF Spec

\* The generation fence: no byte of a replaced handle lands behind a byte of
\* its successor, whatever handles survive a change of manager.
THEOREM SingleWriter ==
  ASSUME StagingAssumption
  PROVE  Spec => []NoStaleWrite
  <1>1. IInv => NoStaleWrite
    BY DEF IInv, Ordered
  <1> QED BY <1>1, StagingInvariant, PTL

\* A complete seal attests the bytes of the staging file, and a synced one
\* bytes that a power failure cannot take: repair meets no mismatch.
THEOREM SealsAttest ==
  ASSUME StagingAssumption
  PROVE  Spec => []SealAttestsDurableBytes
  <1>1. IInv => SealAttestsDurableBytes
    BY DEF IInv, Files, SealAttestsDurableBytes
  <1> QED BY <1>1, StagingInvariant, PTL

\* What finish acknowledged over a synced seal is sealed under its final name
\* until the allocation ends, and nothing else is published.
THEOREM AcknowledgedSurvives ==
  ASSUME StagingAssumption
  PROVE  Spec => []AckedSurvives
  <1>1. IInv => AckedSurvives
    BY DEF IInv, Acks, AckedSurvives, Complete, Kind
  <1> QED BY <1>1, StagingInvariant, PTL

=============================================================================

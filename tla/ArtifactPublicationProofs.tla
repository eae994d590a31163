---------------------- MODULE ArtifactPublicationProofs ----------------------
(***************************************************************************)
(* Proofs about ArtifactPublication for any outputs, publications, imports *)
(* and contents, any number of stops and any amount of damage.             *)
(*                                                                         *)
(* Rows and files are written apart, and the manager may stop between any  *)
(* two writes.  Two facts carry over every stop: how the row of an output  *)
(* and the rows of its publications go together, and what was last seen of *)
(* a blob that a verified artifact rests on.  The call in progress adds    *)
(* what it has established since its last check.                           *)
(***************************************************************************)
EXTENDS ArtifactPublication, FiniteSetTheorems, TLAPS

-----------------------------------------------------------------------------
(* The inductive invariant. *)

PlacePcs == {"create", "copy", "receipt", "link", "quarantine", "unlink", "commit", "remove", "return"}
StartPcs == {"idle", "placements", "audit", "outputs"}

Typed ==
  /\ TypeOK
  /\ mgr \in [pc : PlacePcs \cup {"begin", "fail"} \cup StartPcs, id : Ids \cup {NoPub}, reused : BOOLEAN,
              todo : SUBSET (Ids \cup Contents \cup Outs)]

\* An output that is open is being finalized by its pending publication or not
\* at all; all other publications of it were never reserved.
OutputsAgree ==
  /\ \A p, q \in Pubs : OutOf[p] = OutOf[q] /\ pub[p] # "NONE" /\ pub[q] # "NONE" => p = q
  /\ \A p \in Pubs : pub[p] = "PENDING" => alloc[OutOf[p]].state \in Open
  /\ \A o \in Outs : alloc[o].pub # NoPub => OutOf[alloc[o].pub] = o /\ pub[alloc[o].pub] # "NONE"
  /\ \A o \in Outs : alloc[o].state = "WRITING" => alloc[o].pub = NoPub
  /\ \A o \in Outs : alloc[o].state = "FINALIZING" => alloc[o].pub # NoPub /\ pub[alloc[o].pub] = "PENDING"
  /\ \A o \in Outs : alloc[o].state \in Ended /\ alloc[o].pub # NoPub =>
                       pub[alloc[o].pub] \in {"FAILED", "ABORTED"}

\* The call in progress holds a pending publication; once the blob is in its
\* place it stays intact unless damaged, and before a colliding blob is taken
\* away nothing counts as verified with it.
CallHolds ==
  /\ mgr.pc \in StartPcs => Cur = NoPub
  /\ mgr.pc \in PlacePcs => Cur \in Ids
  /\ mgr.pc \in {"begin", "fail"} => Cur \in Pubs
  /\ Cur \in Pubs => pub[Cur] = "PENDING"
  /\ mgr.pc \in {"unlink", "commit"} /\ Content \notin dirty => final[Content] = "good"
  /\ mgr.pc = "quarantine" => \A i \in Ids : ContentOf[i] = Content => art[i] # "verified"

IInv == Typed /\ OutputsAgree /\ CallHolds /\ VerifiedIsReadable

-----------------------------------------------------------------------------
(* Steps that leave a part of the state alone. *)

LEMMA OutputsKept ==
  ASSUME OutputsAgree, UNCHANGED <<alloc, pub>> PROVE OutputsAgree'
BY DEF OutputsAgree

LEMMA ReadableKept ==
  ASSUME VerifiedIsReadable, UNCHANGED <<art, blob, final, dirty>> PROVE VerifiedIsReadable'
BY DEF VerifiedIsReadable

\* The call returns, or startup goes on: there is no call in progress.
LEMMA NoCall ==
  ASSUME PublicationAssumption, mgr'.pc \in StartPcs, mgr'.id = NoPub PROVE CallHolds'
<1>1. mgr'.pc \notin PlacePcs \cup {"begin", "fail", "unlink", "commit", "quarantine"}
  BY DEF StartPcs, PlacePcs
<1>2. Cur' = NoPub /\ Cur' \notin Pubs
  BY DEF Cur, PublicationAssumption, Ids
<1> QED BY <1>1, <1>2 DEF CallHolds

LEMMA IdleFacts ==
  /\ Idle \in [pc : PlacePcs \cup {"begin", "fail"} \cup StartPcs, id : Ids \cup {NoPub}, reused : BOOLEAN,
               todo : SUBSET (Ids \cup Contents \cup Outs)]
  /\ Idle.pc \in StartPcs /\ Idle.id = NoPub
BY DEF Idle, StartPcs

\* A call of the manager returns and changes neither rows nor the final file.
LEMMA Returns ==
  ASSUME PublicationAssumption, IInv, Return, UNCHANGED <<Rows, final, World>>,
         pending' \in [Ids -> {"absent", "partial", "full"}]
  PROVE  IInv'
<1>1. UNCHANGED <<alloc, pub, art, blob, receipt, final, dirty>> /\ mgr' = Idle
  BY DEF Rows, World, Return
<1>2. Typed'
  BY <1>1, IdleFacts DEF IInv, Typed, TypeOK
<1>3. OutputsAgree' /\ VerifiedIsReadable'
  BY <1>1, OutputsKept, ReadableKept DEF IInv
<1>4. CallHolds'
  BY <1>1, IdleFacts, NoCall
<1> QED BY <1>2, <1>3, <1>4 DEF IInv

\* A call goes on and changes neither rows nor the final file.
LEMMA GoesOn ==
  ASSUME PublicationAssumption, IInv, UNCHANGED <<Rows, final, World>>,
         pending' \in [Ids -> {"absent", "partial", "full"}],
         NEW pc \in PlacePcs \cup {"fail"}, Goto(pc), mgr.pc \in PlacePcs \cup {"begin"},
         pc = "fail" => Publishing,
         pc = "quarantine" => FALSE,
         pc \in {"unlink", "commit"} => mgr.pc \in {"unlink", "commit"}
  PROVE  IInv'
<1>1. UNCHANGED <<alloc, pub, art, blob, receipt, final, dirty>>
  BY DEF Rows, World
<1>2. mgr' = [mgr EXCEPT !.pc = pc] /\ mgr'.pc = pc /\ mgr'.id = mgr.id
  BY DEF Goto, IInv, Typed
<1>3. Typed'
  BY <1>1, <1>2 DEF IInv, Typed, TypeOK
<1>4. OutputsAgree' /\ VerifiedIsReadable'
  BY <1>1, OutputsKept, ReadableKept DEF IInv
<1>5. CallHolds'
  <2>1. Cur' = Cur /\ Content' = Content
    BY <1>2 DEF Cur, Content
  <2>2. Cur \in Ids
    BY DEF IInv, CallHolds, Ids
  <2> QED BY <1>1, <1>2, <2>1, <2>2 DEF IInv, CallHolds, Publishing, PlacePcs, StartPcs
<1> QED BY <1>3, <1>4, <1>5 DEF IInv

-----------------------------------------------------------------------------
(* Requests, and the rows they write. *)

LEMMA InitInv == ASSUME PublicationAssumption, Init PROVE IInv
<1>1. Typed
  BY IdleFacts DEF Init, Typed, TypeOK, Open
<1>2. OutputsAgree
  BY DEF Init, OutputsAgree, Ended, PublicationAssumption
<1>3. mgr.pc = "idle" /\ mgr.id = NoPub
  BY DEF Init, Idle
<1>4. CallHolds
  BY <1>3 DEF CallHolds, Cur, PlacePcs, PublicationAssumption, Ids
<1>5. VerifiedIsReadable
  BY DEF Init, VerifiedIsReadable
<1> QED BY <1>1, <1>2, <1>4, <1>5 DEF IInv

\* The manager takes up a request.
LEMMA CallBegins ==
  ASSUME PublicationAssumption, NEW pc \in {"begin", "create"}, NEW i \in Ids,
         pc = "begin" => i \in Pubs, i \in Pubs => pub'[i] = "PENDING",
         mgr' = [Idle EXCEPT !.pc = pc, !.id = i]
  PROVE  /\ CallHolds'
         /\ mgr' \in [pc : PlacePcs \cup {"begin", "fail"} \cup StartPcs, id : Ids \cup {NoPub}, reused : BOOLEAN,
                      todo : SUBSET (Ids \cup Contents \cup Outs)]
<1>1. mgr' = [pc |-> pc, id |-> i, reused |-> FALSE, todo |-> {}]
  BY DEF Idle
<1>2. Cur' = i /\ mgr'.pc = pc
  BY <1>1 DEF Cur
<1>3. CallHolds'
  BY <1>2 DEF CallHolds, StartPcs
<1>4. pc \in PlacePcs \cup {"begin", "fail"} \cup StartPcs /\ i \in Ids \cup {NoPub}
  BY DEF PlacePcs
<1>5. mgr' \in [pc : PlacePcs \cup {"begin", "fail"} \cup StartPcs, id : Ids \cup {NoPub}, reused : BOOLEAN,
                todo : SUBSET (Ids \cup Contents \cup Outs)]
  BY <1>4, IdleFacts
<1> QED BY <1>3, <1>5

LEMMA ReserveStep ==
  ASSUME PublicationAssumption, IInv, NEW p \in Pubs, Reserve(p) PROVE IInv'
<1>1. /\ pub' = [pub EXCEPT ![p] = "PENDING"] /\ mgr' = [Idle EXCEPT !.pc = "begin", !.id = p]
      /\ UNCHANGED <<alloc, art, blob, receipt, final, pending, dirty>>
  BY DEF Reserve, Files, World
<1>2. pub \in [Pubs -> {"NONE", "PENDING", "COMMITTED", "FAILED", "ABORTED"}]
  BY DEF IInv, Typed, TypeOK
<1>3. pub'[p] = "PENDING" /\ p \in Ids /\ \A q \in Pubs : q # p => pub'[q] = pub[q]
  BY <1>1, <1>2 DEF Ids
<1>4. CallHolds' /\ Typed'
  BY <1>1, <1>2, <1>3, CallBegins DEF IInv, Typed, TypeOK
<1>5. OutputsAgree'
  <2>1. /\ alloc[OutOf[p]].state \in Open /\ pub[p] = "NONE" /\ OutputsAgree
        /\ \A q \in Pubs : OutOf[q] = OutOf[p] => pub[q] = "NONE"
    BY DEF Reserve, IInv
  <2>2. \A o \in Outs : alloc[o].pub # NoPub => alloc[o].pub \in Pubs /\ alloc[o].pub # p
    BY <2>1 DEF IInv, Typed, TypeOK, OutputsAgree
  <2> QED BY <1>1, <1>3, <2>1, <2>2 DEF OutputsAgree
<1>6. VerifiedIsReadable'
  BY <1>1, ReadableKept DEF IInv
<1> QED BY <1>4, <1>5, <1>6 DEF IInv

LEMMA ResumeStep ==
  ASSUME PublicationAssumption, IInv, NEW p \in Pubs, Resume(p) PROVE IInv'
<1>1. /\ mgr' = [Idle EXCEPT !.pc = "begin", !.id = p] /\ pub[p] = "PENDING" /\ p \in Ids
      /\ UNCHANGED <<alloc, pub, art, blob, receipt, final, pending, dirty>>
  BY DEF Resume, Rows, Files, World, Ids
<1>2. CallHolds' /\ Typed'
  BY <1>1, CallBegins DEF IInv, Typed, TypeOK
<1>3. OutputsAgree' /\ VerifiedIsReadable'
  BY <1>1, OutputsKept, ReadableKept DEF IInv
<1> QED BY <1>2, <1>3 DEF IInv

LEMMA ImportStep ==
  ASSUME PublicationAssumption, IInv, NEW i \in Imports, Import(i) PROVE IInv'
<1>1. /\ mgr' = [Idle EXCEPT !.pc = "create", !.id = i] /\ i \in Ids /\ i \notin Pubs
      /\ UNCHANGED <<alloc, pub, art, blob, receipt, final, pending, dirty>>
  BY DEF Import, Rows, Files, World, Ids, PublicationAssumption
<1>2. CallHolds' /\ Typed'
  BY <1>1, CallBegins DEF IInv, Typed, TypeOK
<1>3. OutputsAgree' /\ VerifiedIsReadable'
  BY <1>1, OutputsKept, ReadableKept DEF IInv
<1> QED BY <1>2, <1>3 DEF IInv

\* A pending publication ends together with its output.
LEMMA TerminateOutputs ==
  ASSUME PublicationAssumption, TypeOK, OutputsAgree, NEW p \in Pubs, pub[p] = "PENDING",
         NEW s \in {"FAILED", "ABORTED"}, Terminate(p, s)
  PROVE  /\ pub' = [pub EXCEPT ![p] = s]
         /\ alloc' = [alloc EXCEPT ![OutOf[p]] = [state |-> s, pub |-> p]]
         /\ OutputsAgree'
<1>1. OutOf[p] \in Outs
  BY DEF PublicationAssumption
<1>2. alloc[OutOf[p]].state \in Open /\ alloc[OutOf[p]].pub \in {NoPub, p}
  BY <1>1 DEF OutputsAgree, TypeOK
<1>3. pub' = [pub EXCEPT ![p] = s] /\ alloc' = [alloc EXCEPT ![OutOf[p]] = [state |-> s, pub |-> p]]
  BY <1>2 DEF Terminate, SetOut
<1>4. pub'[p] = s /\ \A q \in Pubs : q # p => pub'[q] = pub[q]
  BY <1>3 DEF TypeOK
<1>5. alloc'[OutOf[p]] = [state |-> s, pub |-> p] /\ \A o \in Outs : o # OutOf[p] => alloc'[o] = alloc[o]
  BY <1>1, <1>3 DEF TypeOK
<1>6. \A o \in Outs : o # OutOf[p] /\ alloc[o].pub # NoPub => alloc[o].pub \in Pubs /\ alloc[o].pub # p
  BY DEF OutputsAgree, TypeOK
<1>7. \A q \in Pubs : q # p /\ OutOf[q] = OutOf[p] => pub[q] = "NONE"
  BY DEF OutputsAgree
<1>8. \A q \in Pubs : OutOf[q] \in Outs
  BY DEF PublicationAssumption
<1>9. OutputsAgree'
  <2>1. (\A q, r \in Pubs : OutOf[q] = OutOf[r] /\ pub[q] # "NONE" /\ pub[r] # "NONE" => q = r)'
    BY <1>4, <1>7 DEF OutputsAgree
  <2>2. (\A q \in Pubs : pub[q] = "PENDING" => alloc[OutOf[q]].state \in Open)'
    BY <1>4, <1>5, <1>7, <1>8 DEF OutputsAgree
  <2>3. (\A o \in Outs : alloc[o].pub # NoPub => OutOf[alloc[o].pub] = o /\ pub[alloc[o].pub] # "NONE")'
    BY <1>4, <1>5, <1>6 DEF OutputsAgree
  <2>4. (\A o \in Outs : alloc[o].state = "WRITING" => alloc[o].pub = NoPub)'
    BY <1>5 DEF OutputsAgree
  <2>5. (\A o \in Outs : alloc[o].state = "FINALIZING" => alloc[o].pub # NoPub /\ pub[alloc[o].pub] = "PENDING")'
    BY <1>4, <1>5, <1>6 DEF OutputsAgree
  <2>6. (\A o \in Outs : alloc[o].state \in Ended /\ alloc[o].pub # NoPub =>
                           pub[alloc[o].pub] \in {"FAILED", "ABORTED"})'
    BY <1>4, <1>5, <1>6 DEF OutputsAgree
  <2> QED BY <2>1, <2>2, <2>3, <2>4, <2>5, <2>6 DEF OutputsAgree
<1> QED BY <1>3, <1>9

LEMMA FailStep ==
  ASSUME PublicationAssumption, IInv, Fail PROVE IInv'
<1>1. Cur \in Pubs /\ pub[Cur] = "PENDING"
  BY DEF Fail, At, IInv, CallHolds
<1>2. Terminate(Cur, "FAILED") /\ mgr' = Idle /\ UNCHANGED <<art, blob, receipt, final, pending, dirty>>
  BY DEF Fail, Return, Files, World
<1>3. /\ pub' = [pub EXCEPT ![Cur] = "FAILED"]
      /\ alloc' = [alloc EXCEPT ![OutOf[Cur]] = [state |-> "FAILED", pub |-> Cur]]
      /\ OutputsAgree'
  BY <1>1, <1>2, TerminateOutputs DEF IInv, Typed
<1>4. Typed'
  <2>1. OutOf[Cur] \in Outs
    BY <1>1 DEF PublicationAssumption
  <2> QED BY <1>1, <1>2, <1>3, <2>1, IdleFacts DEF IInv, Typed, TypeOK, Ended
<1>5. CallHolds' /\ VerifiedIsReadable'
  BY <1>2, IdleFacts, NoCall, ReadableKept DEF IInv
<1> QED BY <1>3, <1>4, <1>5 DEF IInv

LEMMA AbortStep ==
  ASSUME PublicationAssumption, IInv, NEW p \in Pubs, Abort(p) PROVE IInv'
<1>1. /\ pub[p] = "PENDING" /\ Terminate(p, "ABORTED") /\ mgr.pc = "idle"
      /\ UNCHANGED <<art, blob, receipt, final, pending, dirty, mgr>>
  BY DEF Abort, Files, World, At
<1>2. /\ pub' = [pub EXCEPT ![p] = "ABORTED"]
      /\ alloc' = [alloc EXCEPT ![OutOf[p]] = [state |-> "ABORTED", pub |-> p]]
      /\ OutputsAgree'
  BY <1>1, TerminateOutputs DEF IInv, Typed
<1>3. Typed'
  <2>1. OutOf[p] \in Outs
    BY DEF PublicationAssumption
  <2> QED BY <1>1, <1>2, <2>1 DEF IInv, Typed, TypeOK, Ended
<1>4. mgr.id = NoPub
  BY <1>1 DEF IInv, CallHolds, StartPcs, Cur
<1>5. CallHolds' /\ VerifiedIsReadable'
  BY <1>1, <1>4, NoCall, ReadableKept DEF IInv, StartPcs
<1> QED BY <1>2, <1>3, <1>5 DEF IInv

-----------------------------------------------------------------------------
(* The steps of a call. *)

LEMMA BeginStep ==
  ASSUME PublicationAssumption, IInv, Begin PROVE IInv'
<1>1. /\ mgr.pc = "begin" /\ Cur \in Pubs /\ pub[Cur] = "PENDING" /\ OutOf[Cur] \in Outs
      /\ alloc[OutOf[Cur]].state \in Open
      /\ Goto("create") /\ UNCHANGED <<pub, art, blob, receipt, final, pending, dirty>>
  BY DEF Begin, At, Authorized, Files, World, IInv, CallHolds, PublicationAssumption
<1>2. mgr' = [mgr EXCEPT !.pc = "create"] /\ mgr'.pc = "create" /\ mgr'.id = mgr.id /\ Cur' = Cur
  BY <1>1 DEF Goto, IInv, Typed, Cur
<1>3. CallHolds'
  BY <1>1, <1>2 DEF CallHolds, StartPcs, Ids
<1>4. VerifiedIsReadable'
  BY <1>1, ReadableKept DEF IInv
<1>5. Typed' /\ OutputsAgree'
  <2>1. CASE alloc[OutOf[Cur]].state # "WRITING"
    <3>1. UNCHANGED alloc
      BY <2>1 DEF Begin, Out
    <3> QED BY <1>1, <1>2, <3>1, OutputsKept DEF IInv, Typed, TypeOK, PlacePcs
  <2>2. CASE alloc[OutOf[Cur]].state = "WRITING"
    <3>1. alloc' = [alloc EXCEPT ![OutOf[Cur]] = [state |-> "FINALIZING", pub |-> Cur]]
      BY <2>2 DEF Begin, Out, SetOut
    <3>2. /\ alloc'[OutOf[Cur]] = [state |-> "FINALIZING", pub |-> Cur]
          /\ \A o \in Outs : o # OutOf[Cur] => alloc'[o] = alloc[o]
      BY <1>1, <3>1 DEF IInv, Typed, TypeOK
    <3>3. \A q \in Pubs : OutOf[q] \in Outs
      BY DEF PublicationAssumption
    <3>4. Cur # NoPub
      BY <1>1 DEF PublicationAssumption, Ids
    <3>5. OutputsAgree'
      BY <1>1, <3>2, <3>3, <3>4 DEF IInv, OutputsAgree, Open, Ended
    <3> QED BY <1>1, <1>2, <3>1, <3>5 DEF IInv, Typed, TypeOK, PlacePcs, Open
  <2> QED BY <2>1, <2>2
<1> QED BY <1>3, <1>4, <1>5 DEF IInv

\* Placement up to the link, and what a call does when it is refused.
LEMMA QuietCallStep ==
  ASSUME PublicationAssumption, IInv,
         \/ BeginDenied \/ CreatePending \/ CreateRefused \/ CopyPending \/ CopyFails
         \/ UnlinkPending \/ PlacementFails \/ CommitDenied \/ EndCall
  PROVE  IInv'
<1> USE DEF At, Files
<1>1. pending \in [Ids -> {"absent", "partial", "full"}] /\ (mgr.pc \in PlacePcs => Cur \in Ids)
  BY DEF IInv, Typed, TypeOK, CallHolds
<1>2. CASE BeginDenied
  <2>1. Publishing
    BY <1>2 DEF BeginDenied, IInv, CallHolds, Publishing
  <2> QED BY <1>1, <1>2, <2>1, GoesOn DEF BeginDenied, PlacePcs
<1>3. CASE CreatePending
  <2>1. pending' \in [Ids -> {"absent", "partial", "full"}]
    BY <1>1, <1>3 DEF CreatePending
  <2> QED BY <1>3, <2>1, GoesOn DEF CreatePending, PlacePcs
<1>4. CASE CreateRefused
  BY <1>1, <1>4, Returns DEF CreateRefused
<1>5. CASE CopyPending
  <2>1. pending' \in [Ids -> {"absent", "partial", "full"}]
    BY <1>1, <1>5 DEF CopyPending
  <2>2. CASE Publishing
    BY <1>5, <2>1, <2>2, GoesOn DEF CopyPending, PlacePcs
  <2>3. CASE ~Publishing
    BY <1>5, <2>1, <2>3, GoesOn DEF CopyPending, PlacePcs
  <2> QED BY <2>2, <2>3
<1>6. CASE CopyFails
  <2>1. pending' \in [Ids -> {"absent", "partial", "full"}]
    BY <1>1, <1>6 DEF CopyFails
  <2> QED BY <1>6, <2>1, Returns DEF CopyFails
<1>7. CASE UnlinkPending
  <2>1. pending' \in [Ids -> {"absent", "partial", "full"}]
    BY <1>1, <1>7 DEF UnlinkPending
  <2> QED BY <1>7, <2>1, GoesOn DEF UnlinkPending, PlacePcs
<1>8. CASE PlacementFails
  BY <1>1, <1>8, Returns DEF PlacementFails
<1>9. CASE CommitDenied
  <2>1. PICK pc \in {"remove", "fail", "return"} : Goto(pc) /\ (pc = "fail" => Publishing)
    BY <1>9 DEF CommitDenied
  <2>2. mgr.pc = "commit" /\ UNCHANGED <<Rows, final, pending, World>>
    BY <1>9 DEF CommitDenied
  <2> QED BY <1>1, <2>1, <2>2, GoesOn DEF PlacePcs
<1>10. CASE EndCall
  BY <1>1, <1>10, Returns DEF EndCall
<1> QED BY <1>2, <1>3, <1>4, <1>5, <1>6, <1>7, <1>8, <1>9, <1>10

LEMMA AdmitImportStep ==
  ASSUME PublicationAssumption, IInv, AdmitImport PROVE IInv'
<1>1. /\ mgr.pc = "receipt" /\ Cur \in Ids /\ receipt' = receipt \cup {Cur}
      /\ Goto("link") /\ UNCHANGED <<alloc, pub, art, blob, final, pending, dirty>>
  BY DEF AdmitImport, At, Files, World, IInv, CallHolds, PlacePcs
<1>2. mgr' = [mgr EXCEPT !.pc = "link"] /\ mgr'.pc = "link" /\ Cur' = Cur
  BY <1>1 DEF Goto, IInv, Typed, Cur
<1>3. Typed'
  BY <1>1, <1>2 DEF IInv, Typed, TypeOK, PlacePcs
<1>4. OutputsAgree' /\ VerifiedIsReadable'
  BY <1>1, OutputsKept, ReadableKept DEF IInv
<1>5. CallHolds'
  BY <1>1, <1>2 DEF IInv, CallHolds, StartPcs
<1> QED BY <1>3, <1>4, <1>5 DEF IInv

\* The blob is put in its place, or found there and hashed.
LEMMA LinkStep ==
  ASSUME PublicationAssumption, IInv, Link \/ LinkReuses PROVE IInv'
<1>1. /\ mgr.pc = "link" /\ Cur \in Ids /\ Content \in Contents /\ receipt' \subseteq Ids
      /\ dirty' = dirty \ {Content} /\ UNCHANGED <<alloc, pub, art, blob, pending>>
  BY DEF Link, LinkReuses, At, Rows, Files, Seen, IInv, Typed, TypeOK, CallHolds, PlacePcs, Content, PublicationAssumption
<1>2. final' = [final EXCEPT ![Content] = "good"]
  BY DEF Link, LinkReuses, Files, IInv, Typed, TypeOK
<1>3. final' \in [Contents -> {"absent", "good", "bad"}] /\ final'[Content] = "good"
      /\ \A c \in Contents : c # Content => final'[c] = final[c]
  BY <1>1, <1>2 DEF IInv, Typed, TypeOK
<1>4. /\ mgr' \in [pc : PlacePcs \cup {"begin", "fail"} \cup StartPcs, id : Ids \cup {NoPub}, reused : BOOLEAN,
                   todo : SUBSET (Ids \cup Contents \cup Outs)]
      /\ mgr'.pc = "unlink" /\ mgr'.id = mgr.id
  BY DEF Link, LinkReuses, Goto, IInv, Typed, PlacePcs
<1>5. Typed' /\ OutputsAgree'
  BY <1>1, <1>3, <1>4, OutputsKept DEF IInv, Typed, TypeOK
<1>6. CallHolds'
  <2>1. Cur' = Cur /\ Content' = Content
    BY <1>4 DEF Cur, Content
  <2> QED BY <1>1, <1>3, <1>4, <2>1 DEF IInv, CallHolds, StartPcs
<1>7. VerifiedIsReadable'
  <2>1. \A i \in Ids : ContentOf[i] \in Contents
    BY DEF PublicationAssumption
  <2> QED BY <1>1, <1>3, <2>1 DEF IInv, VerifiedIsReadable
<1> QED BY <1>5, <1>6, <1>7 DEF IInv

\* A blob found missing or with other bytes takes all that use it with it.
LEMMA MarkFailedFacts ==
  ASSUME PublicationAssumption, TypeOK, NEW c \in Contents,
         NEW s \in {"CORRUPT", "MISSING"}, MarkFailed(c, s)
  PROVE  /\ blob' \in [Contents -> {"NONE", "DURABLE", "ORPHANED", "MISSING", "CORRUPT"}]
         /\ art' \in [Ids -> {"none", "verified", "failed"}]
         /\ \A d \in Contents : d # c => blob'[d] = blob[d]
         /\ \A i \in Ids : art'[i] = "verified" => art[i] = "verified" /\ ContentOf[i] # c
<1>1. /\ blob' = [blob EXCEPT ![c] = IF @ = "NONE" THEN @ ELSE s]
      /\ art' = [i \in Ids |-> IF i \in Users(c) THEN "failed" ELSE art[i]]
  BY DEF MarkFailed
<1>2. \A i \in Ids : art'[i] = "verified" => art[i] = "verified" /\ ContentOf[i] # c
  BY <1>1 DEF Users
<1>3. blob' \in [Contents -> {"NONE", "DURABLE", "ORPHANED", "MISSING", "CORRUPT"}]
      /\ \A d \in Contents : d # c => blob'[d] = blob[d]
  BY <1>1 DEF TypeOK
<1>4. art' \in [Ids -> {"none", "verified", "failed"}]
  BY <1>1 DEF TypeOK
<1> QED BY <1>2, <1>3, <1>4


LEMMA LinkCollidesStep ==
  ASSUME PublicationAssumption, IInv, LinkCollides PROVE IInv'
<1>1. /\ mgr.pc = "link" /\ Cur \in Ids /\ Content \in Contents
      /\ MarkFailed(Content, "CORRUPT") /\ Goto("quarantine")
      /\ UNCHANGED <<alloc, pub, receipt, final, pending, dirty>>
  BY DEF LinkCollides, At, Files, World, IInv, CallHolds, PlacePcs, Content, PublicationAssumption
<1>2. /\ blob' \in [Contents -> {"NONE", "DURABLE", "ORPHANED", "MISSING", "CORRUPT"}]
      /\ art' \in [Ids -> {"none", "verified", "failed"}]
      /\ \A d \in Contents : d # Content => blob'[d] = blob[d]
      /\ \A i \in Ids : art'[i] = "verified" => art[i] = "verified" /\ ContentOf[i] # Content
  BY <1>1, MarkFailedFacts DEF IInv, Typed
<1>3. mgr' = [mgr EXCEPT !.pc = "quarantine"] /\ mgr'.pc = "quarantine" /\ Cur' = Cur /\ Content' = Content
  BY <1>1 DEF Goto, IInv, Typed, Cur, Content
<1>4. Typed' /\ OutputsAgree'
  BY <1>1, <1>2, <1>3, OutputsKept DEF IInv, Typed, TypeOK, PlacePcs
<1>5. CallHolds'
  BY <1>1, <1>2, <1>3 DEF IInv, CallHolds, StartPcs
<1>6. VerifiedIsReadable'
  <2>1. \A i \in Ids : ContentOf[i] \in Contents
    BY DEF PublicationAssumption
  <2> QED BY <1>1, <1>2, <2>1 DEF IInv, VerifiedIsReadable
<1> QED BY <1>4, <1>5, <1>6 DEF IInv

\* A blob that nothing verified uses is taken away.
LEMMA TakenAway ==
  ASSUME PublicationAssumption, TypeOK, VerifiedIsReadable, NEW c \in Contents,
         final' = [final EXCEPT ![c] = "absent"], UNCHANGED <<art, blob, dirty>>,
         \A i \in Ids : ContentOf[i] = c => art[i] # "verified"
  PROVE  final' \in [Contents -> {"absent", "good", "bad"}] /\ VerifiedIsReadable'
<1>1. \A i \in Ids : ContentOf[i] \in Contents
  BY DEF PublicationAssumption
<1>2. final' \in [Contents -> {"absent", "good", "bad"}] /\ \A d \in Contents : d # c => final'[d] = final[d]
  BY DEF TypeOK
<1> QED BY <1>1, <1>2 DEF VerifiedIsReadable

LEMMA QuarantineStep ==
  ASSUME PublicationAssumption, IInv, QuarantineCollision PROVE IInv'
<1>1. /\ mgr.pc = "quarantine" /\ Cur \in Ids /\ Content \in Contents
      /\ final' = [final EXCEPT ![Content] = "absent"] /\ pending' = [pending EXCEPT ![Cur] = "absent"]
      /\ UNCHANGED <<alloc, pub, art, blob, receipt, dirty>>
  BY DEF QuarantineCollision, At, Rows, World, IInv, CallHolds, PlacePcs, Content, PublicationAssumption
<1>2. \A i \in Ids : ContentOf[i] = Content => art[i] # "verified"
  BY <1>1 DEF IInv, CallHolds
<1>3. final' \in [Contents -> {"absent", "good", "bad"}] /\ VerifiedIsReadable'
  BY <1>1, <1>2, TakenAway DEF IInv, Typed
<1>4. TypeOK' /\ OutputsAgree'
  BY <1>1, <1>3, OutputsKept DEF IInv, Typed, TypeOK
<1>5. CASE Publishing
  <2>1. mgr' = [mgr EXCEPT !.pc = "fail"]
    BY <1>5 DEF QuarantineCollision, Goto
  <2>2. mgr'.pc = "fail" /\ Cur' = Cur
    BY <2>1 DEF IInv, Typed, Cur
  <2>3. CallHolds'
    BY <1>1, <1>5, <2>2 DEF IInv, CallHolds, StartPcs, PlacePcs, Publishing
  <2> QED BY <1>3, <1>4, <2>1, <2>3 DEF IInv, Typed
<1>6. CASE ~Publishing
  <2>1. mgr' = Idle
    BY <1>6 DEF QuarantineCollision, Return
  <2> QED BY <1>3, <1>4, <2>1, IdleFacts, NoCall DEF IInv, Typed
<1> QED BY <1>5, <1>6

LEMMA RemoveStep ==
  ASSUME PublicationAssumption, IInv, RemoveBlob PROVE IInv'
<1>1. /\ mgr.pc = "remove" /\ Cur \in Ids /\ Content \in Contents
      /\ final' = [final EXCEPT ![Content] = "absent"]
      /\ UNCHANGED <<alloc, pub, art, blob, receipt, pending, dirty>>
  BY DEF RemoveBlob, At, Rows, World, IInv, CallHolds, PlacePcs, Content, PublicationAssumption
<1>2. \A i \in Ids : ContentOf[i] = Content => art[i] # "verified"
  BY DEF RemoveBlob, Removable, Referenced, Users
<1>3. final' \in [Contents -> {"absent", "good", "bad"}] /\ VerifiedIsReadable'
  BY <1>1, <1>2, TakenAway DEF IInv, Typed
<1>4. PICK pc \in {"fail", "return"} : Goto(pc) /\ (pc = "fail" => Publishing)
  BY DEF RemoveBlob
<1>5. mgr' = [mgr EXCEPT !.pc = pc] /\ mgr'.pc = pc /\ Cur' = Cur
  BY <1>4 DEF IInv, Typed, Cur, Goto
<1>6. Typed' /\ OutputsAgree'
  BY <1>1, <1>3, <1>5, OutputsKept DEF IInv, Typed, TypeOK, PlacePcs
<1>7. CallHolds'
  BY <1>1, <1>4, <1>5 DEF IInv, CallHolds, StartPcs, Publishing
<1> QED BY <1>3, <1>6, <1>7 DEF IInv

\* The commit: the blob was seen intact, and everything else that is verified
\* with it keeps it.
LEMMA Committed ==
  ASSUME PublicationAssumption, IInv, CommitArtifact, mgr.pc = "commit", Return,
         UNCHANGED <<receipt, final, pending, dirty>>
  PROVE  /\ CallHolds' /\ VerifiedIsReadable' /\ Cur \in Ids
         /\ alloc' \in [Outs -> [state : Open \cup Ended \cup {"PUBLISHED"}, pub : Pubs \cup {NoPub}]]
              /\ pub' \in [Pubs -> {"NONE", "PENDING", "COMMITTED", "FAILED", "ABORTED"}] => Typed'
<1>1. Cur \in Ids /\ Content \in Contents /\ (Content \notin dirty => final[Content] = "good")
  BY DEF IInv, CallHolds, PlacePcs, Content, PublicationAssumption
<1>2. blob' = [blob EXCEPT ![Content] = "DURABLE"] /\ art' = [art EXCEPT ![Cur] = "verified"] /\ mgr' = Idle
  BY DEF CommitArtifact, Return
<1>3. /\ blob' \in [Contents -> {"NONE", "DURABLE", "ORPHANED", "MISSING", "CORRUPT"}]
      /\ art' \in [Ids -> {"none", "verified", "failed"}]
  BY <1>1, <1>2 DEF IInv, Typed, TypeOK
<1>4. CallHolds'
  BY <1>2, IdleFacts, NoCall
<1>5. VerifiedIsReadable'
  <2>1. \A i \in Ids : ContentOf[i] \in Contents
    BY DEF PublicationAssumption
  <2>2. \A i \in Ids : art'[i] = "verified" => i = Cur \/ art[i] = "verified"
    BY <1>1, <1>2 DEF IInv, Typed, TypeOK
  <2>3. blob'[Content] = "DURABLE" /\ \A d \in Contents : d # Content => blob'[d] = blob[d]
    BY <1>1, <1>2 DEF IInv, Typed, TypeOK
  <2>4. ContentOf[Cur] = Content
    BY DEF Content
  <2> QED BY <1>1, <2>1, <2>2, <2>3, <2>4 DEF IInv, VerifiedIsReadable
<1>6. alloc' \in [Outs -> [state : Open \cup Ended \cup {"PUBLISHED"}, pub : Pubs \cup {NoPub}]]
        /\ pub' \in [Pubs -> {"NONE", "PENDING", "COMMITTED", "FAILED", "ABORTED"}] => Typed'
  BY <1>2, <1>3, IdleFacts DEF IInv, Typed, TypeOK
<1> QED BY <1>1, <1>4, <1>5, <1>6

LEMMA CommitImportStep ==
  ASSUME PublicationAssumption, IInv, CommitImport PROVE IInv'
<1>1. mgr.pc = "commit" /\ CommitArtifact /\ Return /\ UNCHANGED <<alloc, pub, receipt, final, pending, dirty>>
  BY DEF CommitImport, At, Files, World
<1>2. CallHolds' /\ VerifiedIsReadable' /\ Typed'
  BY <1>1, Committed DEF IInv, Typed, TypeOK
<1> QED BY <1>1, <1>2, OutputsKept DEF IInv

LEMMA CommitPublicationStep ==
  ASSUME PublicationAssumption, IInv, CommitPublication PROVE IInv'
<1>1. /\ mgr.pc = "commit" /\ CommitArtifact /\ Return /\ UNCHANGED <<receipt, final, pending, dirty>>
      /\ Cur \in Pubs /\ OutOf[Cur] \in Outs /\ pub[Cur] = "PENDING"
      /\ pub' = [pub EXCEPT ![Cur] = "COMMITTED"]
      /\ alloc' = [alloc EXCEPT ![OutOf[Cur]] = [state |-> "PUBLISHED", pub |-> Cur]]
  BY DEF CommitPublication, At, Files, World, Publishing, SetOut, PublicationAssumption, PlacementAdmitted
<1>2. CallHolds' /\ VerifiedIsReadable'
  BY <1>1, Committed
<1>3. /\ alloc' \in [Outs -> [state : Open \cup Ended \cup {"PUBLISHED"}, pub : Pubs \cup {NoPub}]]
      /\ pub' \in [Pubs -> {"NONE", "PENDING", "COMMITTED", "FAILED", "ABORTED"}]
  BY <1>1 DEF IInv, Typed, TypeOK
<1>4. Typed'
  BY <1>1, <1>3, Committed
<1>5. OutputsAgree'
  <2>1. pub'[Cur] = "COMMITTED" /\ \A q \in Pubs : q # Cur => pub'[q] = pub[q]
    BY <1>1 DEF IInv, Typed, TypeOK
  <2>2. /\ alloc'[OutOf[Cur]] = [state |-> "PUBLISHED", pub |-> Cur]
        /\ \A o \in Outs : o # OutOf[Cur] => alloc'[o] = alloc[o]
    BY <1>1 DEF IInv, Typed, TypeOK
  <2>3. \A o \in Outs : o # OutOf[Cur] /\ alloc[o].pub # NoPub => alloc[o].pub \in Pubs /\ alloc[o].pub # Cur
    BY DEF IInv, OutputsAgree, Typed, TypeOK
  <2>4. \A q \in Pubs : q # Cur /\ OutOf[q] = OutOf[Cur] => pub[q] = "NONE"
    BY <1>1 DEF IInv, OutputsAgree
  <2>5. \A q \in Pubs : OutOf[q] \in Outs
    BY DEF PublicationAssumption
  <2> QED BY <1>1, <2>1, <2>2, <2>3, <2>4, <2>5 DEF IInv, OutputsAgree, Ended
<1> QED BY <1>2, <1>4, <1>5 DEF IInv

LEMMA ReplayStep ==
  ASSUME PublicationAssumption, IInv, NEW i \in Ids, Replay(i) PROVE IInv'
<1>1. ContentOf[i] \in Contents /\ UNCHANGED <<alloc, pub, receipt, final, pending, dirty, mgr>>
      /\ mgr.pc = "idle"
  BY DEF Replay, At, Files, World, PublicationAssumption
<1>2. PICK s \in {"CORRUPT", "MISSING"} : MarkFailed(ContentOf[i], s)
  BY DEF Replay
<1>3. /\ blob' \in [Contents -> {"NONE", "DURABLE", "ORPHANED", "MISSING", "CORRUPT"}]
      /\ art' \in [Ids -> {"none", "verified", "failed"}]
      /\ \A d \in Contents : d # ContentOf[i] => blob'[d] = blob[d]
      /\ \A j \in Ids : art'[j] = "verified" => art[j] = "verified" /\ ContentOf[j] # ContentOf[i]
  BY <1>1, <1>2, MarkFailedFacts DEF IInv, Typed
<1>4. Typed' /\ OutputsAgree'
  BY <1>1, <1>3, OutputsKept DEF IInv, Typed, TypeOK
<1>5. CallHolds'
  BY <1>1, NoCall DEF IInv, CallHolds, StartPcs, Cur
<1>6. VerifiedIsReadable'
  <2>1. \A j \in Ids : ContentOf[j] \in Contents
    BY DEF PublicationAssumption
  <2> QED BY <1>1, <1>3, <2>1 DEF IInv, VerifiedIsReadable
<1> QED BY <1>4, <1>5, <1>6 DEF IInv


-----------------------------------------------------------------------------
(* Stop, startup and the rest of the system. *)

\* Startup goes on with what is left to do.
LEMMA StartupGoesOn ==
  ASSUME PublicationAssumption, IInv, mgr.pc \in StartPcs,
         \/ \E x \in Ids \cup Contents \cup Outs : Done(x)
         \/ \E pc \in StartPcs, todo \in SUBSET (Ids \cup Contents \cup Outs) :
              mgr' = [mgr EXCEPT !.pc = pc, !.todo = todo]
  PROVE  /\ CallHolds'
         /\ mgr' \in [pc : PlacePcs \cup {"begin", "fail"} \cup StartPcs, id : Ids \cup {NoPub}, reused : BOOLEAN,
                      todo : SUBSET (Ids \cup Contents \cup Outs)]
<1>1. mgr.id = NoPub
  BY DEF IInv, CallHolds, Cur
<1>2. /\ mgr' \in [pc : PlacePcs \cup {"begin", "fail"} \cup StartPcs, id : Ids \cup {NoPub}, reused : BOOLEAN,
                   todo : SUBSET (Ids \cup Contents \cup Outs)]
      /\ mgr'.id = mgr.id /\ mgr'.pc \in StartPcs
  BY DEF IInv, Typed, Done
<1> QED BY <1>1, <1>2, NoCall

LEMMA StopStep ==
  ASSUME PublicationAssumption, IInv, Stop PROVE IInv'
<1>1. UNCHANGED <<alloc, pub, art, blob, receipt, final, pending, dirty>>
  BY DEF Stop, Rows, Files
<1>2. PICK todo \in SUBSET Ids : mgr' = [Idle EXCEPT !.pc = "placements", !.todo = todo]
  BY DEF Stop
<1>3. mgr' = [pc |-> "placements", id |-> NoPub, reused |-> FALSE, todo |-> todo]
  BY <1>2 DEF Idle
<1>4. CallHolds'
  BY <1>3, NoCall DEF StartPcs
<1>5. Typed' /\ OutputsAgree' /\ VerifiedIsReadable'
  BY <1>1, <1>3, OutputsKept, ReadableKept DEF IInv, Typed, TypeOK, StartPcs
<1> QED BY <1>4, <1>5 DEF IInv

LEMMA PhaseStep ==
  ASSUME PublicationAssumption, IInv, PlacementsDone \/ AuditDone \/ OutputsDone PROVE IInv'
<1>1. CASE OutputsDone
  BY <1>1, Returns DEF OutputsDone, Files, IInv, Typed, TypeOK
<1>2. CASE PlacementsDone \/ AuditDone
  <2>1. /\ UNCHANGED <<alloc, pub, art, blob, receipt, final, pending, dirty>>
        /\ mgr.pc \in StartPcs
        /\ \E pc \in StartPcs, todo \in SUBSET (Ids \cup Contents \cup Outs) :
             mgr' = [mgr EXCEPT !.pc = pc, !.todo = todo]
    BY <1>2 DEF PlacementsDone, AuditDone, At, Rows, Files, World, StartPcs
  <2> QED BY <2>1, StartupGoesOn, OutputsKept, ReadableKept DEF IInv, Typed, TypeOK
<1> QED BY <1>1, <1>2

LEMMA ReconcilePlacementStep ==
  ASSUME PublicationAssumption, IInv, NEW i \in Ids, ReconcilePlacement(i) PROVE IInv'
<1>1. /\ mgr.pc \in StartPcs /\ Done(i) /\ i \in Ids \cup Contents \cup Outs /\ ContentOf[i] \in Contents
      /\ UNCHANGED <<alloc, pub, art, blob, receipt, dirty>>
  BY DEF ReconcilePlacement, At, StartPcs, Rows, World, PublicationAssumption
<1>2. TypeOK
  BY DEF IInv, Typed
<1>3. final' = final \/ final' = [final EXCEPT ![ContentOf[i]] = "good"]
  BY DEF ReconcilePlacement, Files
<1>4. /\ final' \in [Contents -> {"absent", "good", "bad"}]
      /\ \A c \in Contents : final[c] = "good" => final'[c] = "good"
  BY <1>1, <1>2, <1>3 DEF TypeOK
<1>5. pending' \in [Ids -> {"absent", "partial", "full"}]
  <2>1. \/ pending' = pending \/ pending' = [pending EXCEPT ![i] = "absent"]
        \/ pending' = [pending EXCEPT ![i] = IF @ = "full" THEN @ ELSE "absent"]
    BY DEF ReconcilePlacement, Files
  <2> QED BY <1>2, <2>1 DEF TypeOK
<1>6. CallHolds' /\ Typed'
  BY <1>1, <1>2, <1>4, <1>5, StartupGoesOn DEF Typed, TypeOK
<1>7. VerifiedIsReadable'
  <2>1. \A j \in Ids : ContentOf[j] \in Contents
    BY DEF PublicationAssumption
  <2> QED BY <1>1, <1>4, <2>1 DEF IInv, VerifiedIsReadable
<1> QED BY <1>1, <1>6, <1>7, OutputsKept DEF IInv

LEMMA AuditStep ==
  ASSUME PublicationAssumption, IInv, NEW c \in Contents, Audit(c) PROVE IInv'
<1>1. /\ mgr.pc \in StartPcs /\ Done(c) /\ c \in Ids \cup Contents \cup Outs
      /\ UNCHANGED <<alloc, pub, receipt, pending>> /\ dirty' = dirty \ {c}
      /\ AuditKnown(c) \/ AuditUnknown(c)
  BY DEF Audit, At, StartPcs
<1>2. TypeOK /\ VerifiedIsReadable /\ \A j \in Ids : ContentOf[j] \in Contents
  BY DEF IInv, Typed, PublicationAssumption
<1>3. /\ final' \in [Contents -> {"absent", "good", "bad"}]
      /\ blob' \in [Contents -> {"NONE", "DURABLE", "ORPHANED", "MISSING", "CORRUPT"}]
      /\ art' \in [Ids -> {"none", "verified", "failed"}]
      /\ VerifiedIsReadable'
  <2>1. CASE AuditKnown(c)
    <3>1. CASE final[c] = "good"
      <4>1. UNCHANGED <<blob, art, final>>
        BY <2>1, <3>1 DEF AuditKnown
      <4> QED BY <1>1, <1>2, <3>1, <4>1 DEF TypeOK, VerifiedIsReadable
    <3>2. CASE final[c] # "good"
      <4>1. PICK s \in {"CORRUPT", "MISSING"} : MarkFailed(c, s)
        BY <2>1, <3>2 DEF AuditKnown
      <4>2. /\ blob' \in [Contents -> {"NONE", "DURABLE", "ORPHANED", "MISSING", "CORRUPT"}]
            /\ art' \in [Ids -> {"none", "verified", "failed"}]
            /\ \A d \in Contents : d # c => blob'[d] = blob[d]
            /\ \A i \in Ids : art'[i] = "verified" => art[i] = "verified" /\ ContentOf[i] # c
        BY <1>2, <4>1, MarkFailedFacts
      <4>3. final' = final
        BY <2>1 DEF AuditKnown
      <4> QED BY <1>1, <1>2, <4>2, <4>3 DEF TypeOK, VerifiedIsReadable
    <3> QED BY <3>1, <3>2
  <2>2. CASE AuditUnknown(c)
    <3>1. \A i \in Ids : art[i] = "verified" => ContentOf[i] # c
      BY <1>2, <2>2 DEF AuditUnknown, VerifiedIsReadable
    <3>2. /\ art' = art
          /\ final' \in [Contents -> {"absent", "good", "bad"}]
          /\ blob' \in [Contents -> {"NONE", "DURABLE", "ORPHANED", "MISSING", "CORRUPT"}]
          /\ \A d \in Contents : d # c => blob'[d] = blob[d] /\ final'[d] = final[d]
      BY <1>2, <2>2 DEF AuditUnknown, TypeOK
    <3> QED BY <1>1, <1>2, <3>1, <3>2 DEF TypeOK, VerifiedIsReadable
  <2> QED BY <1>1, <2>1, <2>2
<1>4. CallHolds' /\ Typed'
  BY <1>1, <1>2, <1>3, StartupGoesOn DEF Typed, TypeOK
<1> QED BY <1>1, <1>3, <1>4, OutputsKept DEF IInv

\* Startup ends an output that is over together with its pending publication.
LEMMA SettleOutputs ==
  ASSUME PublicationAssumption, TypeOK, OutputsAgree, NEW o \in Outs, SettleOutput(o)
  PROVE  /\ alloc' \in [Outs -> [state : Open \cup Ended \cup {"PUBLISHED"}, pub : Pubs \cup {NoPub}]]
         /\ pub' \in [Pubs -> {"NONE", "PENDING", "COMMITTED", "FAILED", "ABORTED"}]
         /\ OutputsAgree'
<1>1. \A p \in Pubs : p \in PendingOf(o) <=> OutOf[p] = o /\ pub[p] = "PENDING"
  BY DEF PendingOf
<1>2. /\ pub' \in [Pubs -> {"NONE", "PENDING", "COMMITTED", "FAILED", "ABORTED"}]
      /\ \A p \in Pubs : p \notin PendingOf(o) => pub'[p] = pub[p]
      /\ \A p \in Pubs : p \in PendingOf(o) => pub'[p] \in {"FAILED", "ABORTED"}
  BY DEF SettleOutput, TypeOK
<1>3. PICK st \in Ended, q \in Pubs \cup {NoPub} :
        /\ alloc' = [alloc EXCEPT ![o] = [state |-> st, pub |-> q]]
        /\ IF alloc[o].pub = NoPub /\ PendingOf(o) # {} THEN q \in PendingOf(o) ELSE q = alloc[o].pub
  <2> DEFINE st == IF alloc[o].state \in Ended THEN alloc[o].state
                   ELSE IF o \in lapsed THEN "EXPIRED" ELSE "ABORTED"
             q == IF alloc[o].pub = NoPub /\ PendingOf(o) # {} THEN CHOOSE p \in PendingOf(o) : TRUE ELSE alloc[o].pub
  <2>1. st \in Ended
    BY DEF Ended
  <2>2. PendingOf(o) # {} => (CHOOSE p \in PendingOf(o) : TRUE) \in PendingOf(o)
    OBVIOUS
  <2>3. q \in Pubs \cup {NoPub}
    BY <2>2 DEF TypeOK, PendingOf
  <2>4. alloc' = [alloc EXCEPT ![o] = [state |-> st, pub |-> q]]
    BY DEF SettleOutput, TypeOK
  <2>5. IF alloc[o].pub = NoPub /\ PendingOf(o) # {} THEN q \in PendingOf(o) ELSE q = alloc[o].pub
    BY <2>2
  <2> HIDE DEF st, q
  <2> QED BY <2>1, <2>3, <2>4, <2>5
<1>4. /\ alloc' \in [Outs -> [state : Open \cup Ended \cup {"PUBLISHED"}, pub : Pubs \cup {NoPub}]]
      /\ alloc'[o].state = st /\ alloc'[o].pub = q
      /\ \A r \in Outs : r # o => alloc'[r] = alloc[r]
  <2>1. alloc \in [Outs -> [state : Open \cup Ended \cup {"PUBLISHED"}, pub : Pubs \cup {NoPub}]]
    BY DEF TypeOK
  <2>2. alloc' = [alloc EXCEPT ![o] = [state |-> st, pub |-> q]]
    BY <1>3
  <2>3. alloc'[o] = [state |-> st, pub |-> q] /\ \A r \in Outs : r # o => alloc'[r] = alloc[r]
    BY <2>1, <2>2
  <2>4. [state |-> st, pub |-> q] \in [state : Open \cup Ended \cup {"PUBLISHED"}, pub : Pubs \cup {NoPub}]
    BY <1>3
  <2> QED BY <2>1, <2>2, <2>3, <2>4
<1>5. st \notin {"WRITING", "FINALIZING"} /\ st \notin Open
  BY <1>3 DEF Ended, Open
<1>6. alloc[o].state \in Open \cup Ended
  BY DEF SettleOutput
<1>7. q # NoPub => q \in Pubs /\ OutOf[q] = o /\ pub'[q] \in {"FAILED", "ABORTED"}
  <2> SUFFICES ASSUME q # NoPub PROVE q \in Pubs /\ OutOf[q] = o /\ pub'[q] \in {"FAILED", "ABORTED"}
    OBVIOUS
  <2>1. q \in Pubs
    BY <1>3
  <2>2. CASE q \in PendingOf(o)
    BY <1>1, <1>2, <2>1, <2>2
  <2>3. CASE q \notin PendingOf(o)
    <3>1. q = alloc[o].pub
      BY <1>3, <2>3
    <3>2. OutOf[q] = o /\ pub[q] # "PENDING"
      BY <1>1, <2>1, <2>3, <3>1 DEF OutputsAgree
    <3>3. alloc[o].state \in Ended
      BY <1>6, <3>1, <3>2 DEF OutputsAgree, Open
    <3> QED BY <1>2, <2>1, <2>3, <3>1, <3>2, <3>3 DEF OutputsAgree
  <2> QED BY <2>2, <2>3
<1>8. \A r \in Outs : r # o /\ alloc[r].pub # NoPub => alloc[r].pub \in Pubs /\ alloc[r].pub \notin PendingOf(o)
  BY <1>1 DEF TypeOK, OutputsAgree
<1>9. \A p \in Pubs : (pub'[p] = "NONE" <=> pub[p] = "NONE") /\ OutOf[p] \in Outs
  BY <1>1, <1>2 DEF PublicationAssumption
<1>10. OutputsAgree'
  <2>1. (\A p, r \in Pubs : OutOf[p] = OutOf[r] /\ pub[p] # "NONE" /\ pub[r] # "NONE" => p = r)'
    BY <1>9 DEF OutputsAgree
  <2>2. (\A p \in Pubs : pub[p] = "PENDING" => alloc[OutOf[p]].state \in Open)'
    BY <1>1, <1>2, <1>4, <1>9 DEF OutputsAgree
  <2>3. (\A r \in Outs : alloc[r].pub # NoPub => OutOf[alloc[r].pub] = r /\ pub[alloc[r].pub] # "NONE")'
    BY <1>2, <1>4, <1>7, <1>8 DEF OutputsAgree
  <2>4. (\A r \in Outs : alloc[r].state = "WRITING" => alloc[r].pub = NoPub)'
    BY <1>4, <1>5 DEF OutputsAgree
  <2>5. (\A r \in Outs : alloc[r].state = "FINALIZING" => alloc[r].pub # NoPub /\ pub[alloc[r].pub] = "PENDING")'
    BY <1>2, <1>4, <1>5, <1>8 DEF OutputsAgree
  <2>6. (\A r \in Outs : alloc[r].state \in Ended /\ alloc[r].pub # NoPub =>
                           pub[alloc[r].pub] \in {"FAILED", "ABORTED"})'
    BY <1>2, <1>4, <1>7, <1>8 DEF OutputsAgree
  <2> QED BY <2>1, <2>2, <2>3, <2>4, <2>5, <2>6 DEF OutputsAgree
<1> QED BY <1>2, <1>4, <1>10

LEMMA ReconcileOutputStep ==
  ASSUME PublicationAssumption, IInv, NEW o \in Outs, ReconcileOutput(o) PROVE IInv'
<1>1. /\ mgr.pc \in StartPcs /\ Done(o) /\ o \in Ids \cup Contents \cup Outs
      /\ UNCHANGED <<art, blob, receipt, final, pending, dirty>>
      /\ SettleOutput(o) \/ UNCHANGED <<alloc, pub>>
  BY DEF ReconcileOutput, At, StartPcs, Files, World
<1>2. /\ alloc' \in [Outs -> [state : Open \cup Ended \cup {"PUBLISHED"}, pub : Pubs \cup {NoPub}]]
      /\ pub' \in [Pubs -> {"NONE", "PENDING", "COMMITTED", "FAILED", "ABORTED"}]
      /\ OutputsAgree'
  BY <1>1, SettleOutputs, OutputsKept DEF IInv, Typed, TypeOK
<1>3. CallHolds' /\ Typed'
  BY <1>1, <1>2, StartupGoesOn DEF IInv, Typed, TypeOK
<1> QED BY <1>1, <1>2, <1>3, ReadableKept DEF IInv

LEMMA DamageStep ==
  ASSUME PublicationAssumption, IInv, NEW c \in Contents, Damage(c) PROVE IInv'
<1>1. UNCHANGED <<alloc, pub, art, blob, receipt, pending, mgr>> /\ dirty' = dirty \cup {c}
  BY DEF Damage, Keep, Rows
<1>2. /\ final' \in [Contents -> {"absent", "good", "bad"}]
      /\ \A d \in Contents : d # c => final'[d] = final[d]
  BY DEF Damage, IInv, Typed, TypeOK
<1>3. \A j \in Ids : ContentOf[j] \in Contents
  BY DEF PublicationAssumption
<1>4. VerifiedIsReadable'
  BY <1>1, <1>2, <1>3 DEF IInv, VerifiedIsReadable
<1>5. Typed' /\ OutputsAgree'
  BY <1>1, <1>2, OutputsKept DEF IInv, Typed, TypeOK
<1>6. CallHolds'
  <2>1. Cur' = Cur /\ Content' = Content /\ (mgr.pc \in PlacePcs => Content \in Contents)
    BY <1>1, <1>3 DEF Cur, Content, IInv, CallHolds
  <2> QED BY <1>1, <1>2, <2>1 DEF IInv, CallHolds, PlacePcs
<1> QED BY <1>4, <1>5, <1>6 DEF IInv

\* Steps that change nothing the invariant looks at.
LEMMA OtherStep ==
  ASSUME IInv, UNCHANGED <<alloc, pub, art, blob, receipt, final, pending, dirty, mgr>> PROVE IInv'
<1>1. Cur' = Cur /\ Content' = Content
  BY DEF Cur, Content
<1>2. CallHolds'
  BY <1>1 DEF IInv, CallHolds
<1> QED BY <1>2, OutputsKept, ReadableKept DEF IInv, Typed, TypeOK

LEMMA NextInv == ASSUME PublicationAssumption, IInv, [Next]_vars PROVE IInv'
<1>1. CASE Request
  BY <1>1, ReserveStep, ResumeStep, AbortStep, ImportStep DEF Request
<1>2. CASE Place
  BY <1>2, QuietCallStep, AdmitImportStep, LinkStep, LinkCollidesStep, QuarantineStep DEF Place
<1>3. CASE Finish
  BY <1>3, QuietCallStep, BeginStep, FailStep, CommitPublicationStep, CommitImportStep, RemoveStep DEF Finish
<1>4. CASE \E i \in Ids : Replay(i)
  BY <1>4, ReplayStep
<1>5. CASE Stop
  BY <1>5, StopStep
<1>6. CASE Startup
  BY <1>6, ReconcilePlacementStep, AuditStep, ReconcileOutputStep, PhaseStep DEF Startup
<1>7. CASE Environment
  <2>1. CASE \E c \in Contents : Damage(c)
    BY <2>1, DamageStep
  <2>2. CASE (\E o \in Outs : Lapse(o)) \/ (\E p \in Pubs : Deny(p)) \/ StartRecovering \/ EndRecovering
    BY <2>2, OtherStep DEF Lapse, Deny, StartRecovering, EndRecovering, Keep, Rows
  <2> QED BY <1>7, <2>1, <2>2 DEF Environment
<1>8. CASE UNCHANGED vars
  BY <1>8, OtherStep DEF vars
<1> QED BY <1>1, <1>2, <1>3, <1>4, <1>5, <1>6, <1>7, <1>8 DEF Next

-----------------------------------------------------------------------------
(* The theorems. *)

\* The rows of an output and of its publications are coherent.
LEMMA InvCoherent == ASSUME PublicationAssumption, IInv PROVE StartupNeverGivesUp
<1> SUFFICES ASSUME NEW o \in Outs PROVE OutputCoherent(o)
  BY DEF StartupNeverGivesUp
<1>1. \A p, q \in PendingOf(o) : p = q
  BY DEF PendingOf, IInv, OutputsAgree
<1>2. Cardinality(PendingOf(o)) <= 1
  <2>1. CASE PendingOf(o) = {}
    BY <2>1, FS_EmptySet
  <2>2. CASE PendingOf(o) # {}
    <3>1. PICK p : PendingOf(o) = {p}
      BY <1>1, <2>2
    <3>2. Cardinality(PendingOf(o)) = 1
      BY <3>1, FS_Singleton, Zenon
    <3> QED BY <3>2
  <2> QED BY <2>1, <2>2
<1>3. alloc[o].pub \in Pubs \cup {NoPub}
  BY DEF IInv, Typed, TypeOK
<1>4. alloc[o].pub # NoPub => PendingOf(o) \subseteq {alloc[o].pub}
  BY <1>3 DEF PendingOf, IInv, OutputsAgree
<1>5. alloc[o].state = "FINALIZING" => PendingOf(o) # {}
  BY <1>3 DEF PendingOf, IInv, OutputsAgree
<1>6. alloc[o].state \in Ended /\ alloc[o].pub # NoPub => pub[alloc[o].pub] \in {"FAILED", "ABORTED"}
  BY DEF IInv, OutputsAgree
<1> QED BY <1>2, <1>4, <1>5, <1>6 DEF OutputCoherent

\* The invariant holds in every reachable state.
THEOREM PublicationInvariant == ASSUME PublicationAssumption PROVE Spec => []IInv
<1>1. Init => IInv
  BY InitInv
<1>2. IInv /\ [Next]_vars => IInv'
  BY NextInv
<1> QED BY <1>1, <1>2, PTL DEF Spec

\* For any number of publications, imports and stops: whatever the manager was
\* doing when it stopped, every output row and its publications are in a
\* combination that reconcile_artifacts_startup accepts.
THEOREM StartupAcceptsRows == ASSUME PublicationAssumption PROVE Spec => []StartupNeverGivesUp
<1>1. IInv => StartupNeverGivesUp
  BY InvCoherent
<1> QED BY <1>1, PublicationInvariant, PTL

\* For any number of publications and imports that share a content: nothing
\* the manager does takes the blob of a verified artifact away, and damage is
\* found when the blob is next hashed.
THEOREM VerifiedStaysReadable == ASSUME PublicationAssumption PROVE Spec => []VerifiedIsReadable
<1>1. IInv => VerifiedIsReadable
  BY DEF IInv
<1> QED BY <1>1, PublicationInvariant, PTL

\* The two together, as the run checks them.
THEOREM PublicationStaysSafe == ASSUME PublicationAssumption PROVE Spec => []PublicationSafe
<1>1. VerifiedIsReadable /\ StartupNeverGivesUp => PublicationSafe
  BY DEF PublicationSafe
<1> QED BY <1>1, StartupAcceptsRows, VerifiedStaysReadable, PTL

\* Every variable keeps its type.
THEOREM PublicationTypeCorrect == ASSUME PublicationAssumption PROVE Spec => []TypeOK
<1>1. IInv => TypeOK
  BY DEF IInv, Typed
<1> QED BY <1>1, PublicationInvariant, PTL

=============================================================================

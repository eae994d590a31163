------------------------- MODULE RegistryStoreProofs -------------------------
(***************************************************************************)
(* Proofs about RegistryStore for any snapshots, contracts, scopes,        *)
(* repairs, revisions and writes from outside.                             *)
(*                                                                         *)
(* What a running manager may rely on is spread over tables that were      *)
(* written at different times: by builds that had no ledgers, while guards *)
(* were missing, and by the repair that found them missing.  The invariant *)
(* says for each such period which table still tells what was decided.     *)
(***************************************************************************)
EXTENDS RegistryStore, TLAPS

-----------------------------------------------------------------------------
(* The inductive invariant. *)

Old == {"0012"}
Both == {"0012", "0014"}
AllGuards == Guards \cup FenceGuards

Typed ==
  /\ TypeOK
  /\ contained \subseteq Snapshots /\ suspect \subseteq Snapshots
  /\ given \in [Scopes -> SUBSET [snap : Snapshots, rev : Nat]]

\* A store without a registry is empty; a manager runs on such a store or on
\* one that has both migrations and every guard.
Stamped ==
  /\ stamps \in {{}, Old, Both}
  /\ stamps = {} =>
       /\ guards = {} /\ contained = {} /\ suspect = {} /\ receipts = {}
       /\ \A s \in Snapshots : state[s] = None
       /\ \A sc \in Scopes : act[sc].snap = None
  /\ running => stamps = {} \/ (stamps = Both /\ AllGuards \subseteq guards)

\* Before 0014 the row tells that a snapshot was contained, unless the guard
\* of the row was lost; since then the ledgers tell, unless theirs was.
Contained ==
  /\ \A s \in contained : state[s] # None
  /\ stamps = Old => "one_way" \notin guards \/ \A s \in contained : state[s] \in Terminal
  /\ stamps = Both => "ledger" \notin guards \/ contained \subseteq terminal \cup unprovable

\* While all guards are there, what was admitted before one was missing is
\* behind a fence and has no receipt of its generation.
Fenced ==
  /\ \A s \in suspect : state[s] # None
  /\ \A r \in receipts : r.fence <= fence
  /\ Guards \subseteq guards =>
       \A s \in suspect : fence > 0 /\ \A r \in receipts : ~(r.snap = s /\ r.fence = fence)

\* The activation of a scope is the last that was given out.
Latest(sc) == act[sc] \in given[sc] /\ \A a \in given[sc] : a.rev <= act[sc].rev

\* It is, unless the guard of the row is missing or was found missing.
Numbered ==
  /\ stamps # Both => ~barred
  /\ \A sc \in Scopes : act[sc].snap = None => given[sc] = {}
  /\ \A sc \in Scopes :
       \/ act[sc].snap = None \/ Latest(sc)
       \/ "monotonic" \notin guards \/ barred \/ sc \in invalid

IInv == Typed /\ Stamped /\ Contained /\ Fenced /\ Numbered

-----------------------------------------------------------------------------
(* Initial states, and steps that change nothing the invariant looks at. *)

LEMMA InitInv == ASSUME RegistryAssumption, Init PROVE IInv
<1> USE RegistryAssumption DEF RegistryAssumption, Init, Old, Both, AllGuards, Guards, FenceGuards
<1>1. Typed
  <2>1. stamps \in SUBSET {"0012", "0014"} /\ guards \in SUBSET (Guards \cup FenceGuards)
    OBVIOUS
  <2>2. state \in [Snapshots -> States \cup {None}] /\ bytes \in [Contracts -> {"absent", "good", "bad"}]
    BY DEF States
  <2>3. fence \in 0..MaxFence /\ outside \in 0..MaxOutside
    OBVIOUS
  <2>4. act \in [Scopes -> [snap : Snapshots \cup {None}, rev : 0..MaxRevision]]
    OBVIOUS
  <2>5. given \in [Scopes -> SUBSET [snap : Snapshots, rev : Nat]]
    OBVIOUS
  <2> HIDE DEF Guards, FenceGuards
  <2> QED BY <2>1, <2>2, <2>3, <2>4, <2>5 DEF Typed, TypeOK
<1>2. Stamped
  BY DEF Stamped
<1>3. Contained /\ Fenced
  BY DEF Contained, Fenced
<1>4. Numbered
  BY DEF Numbered
<1> QED BY <1>1, <1>2, <1>3, <1>4 DEF IInv

\* A call that reads, gives up or stops, or a step that stutters.
LEMMA QuietStep ==
  ASSUME RegistryAssumption, IInv, UNCHANGED <<stamps, guards, dbvars, outside, history>>,
         running' \in {running, FALSE}, opened' \in Snapshots \cup {None}
  PROVE  IInv'
<1> USE DEF IInv, dbvars, history
<1>1. Typed'
  BY DEF Typed, TypeOK
<1>2. Stamped'
  <2>1. stamps' = stamps /\ guards' = guards
    OBVIOUS
  <2>3. ASSUME running' PROVE running
    <3>1. CASE running' = running
      BY <2>3, <3>1
    <3>2. CASE running' = FALSE
      BY <2>3, <3>2
    <3> QED BY <3>1, <3>2
  <2>2. (stamps = {} =>
           /\ guards = {} /\ contained = {} /\ suspect = {} /\ receipts = {}
           /\ \A s \in Snapshots : state[s] = None
           /\ \A sc \in Scopes : act[sc].snap = None)'
    BY DEF Stamped
  <2> QED BY <2>1, <2>2, <2>3 DEF Stamped
<1>3. Contained' /\ Fenced'
  BY DEF Contained, Fenced
<1>4. Numbered'
  BY DEF Numbered, Latest
<1> QED BY <1>1, <1>2, <1>3, <1>4

-----------------------------------------------------------------------------
(* Opening the store. *)

\* Startup with something to upgrade: the ledgers are there and the fence is
\* raised over what was unguarded.
LEMMA UpgradeStep ==
  ASSUME RegistryAssumption, IInv, Upgrade, ~running,
         UNCHANGED <<state, bytes, receipts, act, opened, outside, history>>, running' = TRUE
  PROVE  IInv'
<1> USE DEF IInv, history
<1>1. /\ stamps' = Both /\ guards' = AllGuards /\ stamps \in {Old, Both}
      /\ UNCHANGED <<state, bytes, receipts, act, opened, outside, contained, suspect, given>>
  BY DEF Upgrade, Stamped, Both, Old, AllGuards
<1>2. stamps = Both => UNCHANGED <<terminal, scopes, unprovable, barred>> /\ "ledger" \in guards /\ ScopesAgree
  BY DEF Upgrade, UpgradeAllowed, FenceGuards, Both
<1>3. stamps = Old => Bootstrap
  BY DEF Upgrade, Old
<1>4. \/ ~(Guards \subseteq guards) /\ Repair
      \/ Guards \subseteq guards /\ UNCHANGED <<fence, invalid>>
  BY DEF Upgrade, Missing
<1>5. Typed /\ Stamped /\ Contained /\ Fenced /\ Numbered
  OBVIOUS
<1> USE DEF Old, Both
<1>6. Typed'
  <2>1. terminal' \subseteq Snapshots /\ unprovable' \subseteq Snapshots /\ scopes' \subseteq Scopes /\ barred' \in BOOLEAN
    BY <1>1, <1>2, <1>3, <1>5 DEF Typed, TypeOK, Bootstrap, Missing
  <2>2. fence' \in 0..MaxFence /\ fence' >= fence /\ invalid' \subseteq Scopes
    BY <1>4, <1>5, <2>1, RegistryAssumption DEF Typed, TypeOK, Repair, RegistryAssumption
  <2> QED BY <1>1, <1>5, <2>1, <2>2 DEF Typed, TypeOK, AllGuards
<1>7. Stamped'
  BY <1>1, <1>5 DEF Stamped
<1>8. Contained'
  <2>1. contained \subseteq terminal' \cup unprovable'
    <3>1. CASE stamps = Both
      BY <1>2, <1>5, <3>1 DEF Contained
    <3>2. CASE stamps = Old
      BY <1>3, <1>5, <3>2 DEF Contained, Bootstrap, Missing, Typed
    <3> QED BY <1>1, <3>1, <3>2
  <2> QED BY <1>1, <1>5, <2>1 DEF Contained
<1>9. Fenced'
  <2>1. CASE ~(Guards \subseteq guards) /\ Repair
    <3>1. fence' = fence + 1 /\ fence \in Nat
      BY <2>1, <1>5, RegistryAssumption DEF Repair, Typed, TypeOK, RegistryAssumption
    <3>2. \A r \in receipts' : r.fence \in Nat /\ r.fence <= fence
      BY <1>1, <1>5, RegistryAssumption DEF Fenced, Typed, TypeOK, RegistryAssumption
    <3>3. \A r \in receipts' : r.fence <= fence' /\ r.fence # fence'
      BY <3>1, <3>2
    <3> QED BY <1>1, <1>5, <3>1, <3>3 DEF Fenced
  <2>2. CASE Guards \subseteq guards /\ UNCHANGED <<fence, invalid>>
    BY <2>2, <1>1, <1>5 DEF Fenced
  <2> QED BY <2>1, <2>2, <1>4
<1>10. Numbered'
  <2>1. ASSUME NEW sc \in Scopes, act[sc].snap # None, ~Latest(sc), sc \notin invalid', ~barred'
        PROVE  FALSE
    <3>1. sc \in scopes'
      BY <1>1, <1>2, <1>3, <2>1 DEF ScopesAgree, Bootstrap
    <3>2. Guards \subseteq guards /\ UNCHANGED <<fence, invalid>>
      BY <1>4, <2>1, <3>1 DEF Repair
    <3>3. "monotonic" \in guards
      BY <3>2 DEF Guards
    <3>4. barred
      BY <1>5, <2>1, <3>2, <3>3 DEF Numbered
    <3> QED BY <1>1, <1>2, <1>5, <2>1, <3>4 DEF Numbered
  <2> QED BY <1>1, <1>5, <2>1 DEF Numbered, Latest
<1> QED BY <1>6, <1>7, <1>8, <1>9, <1>10

\* Startup, on a store with a registry or without.
LEMMA StartupStep == ASSUME RegistryAssumption, IInv, Startup PROVE IInv'
<1>1. CASE Upgrade
  BY <1>1, UpgradeStep DEF Startup
<1>2. CASE stamps = {} /\ UNCHANGED <<stamps, guards, terminal, scopes, unprovable, barred, fence, invalid>>
  <2> USE <1>2 DEF Startup, IInv, history
  <2>1. Typed'
    BY DEF Typed, TypeOK
  <2>2. Stamped'
    BY DEF Stamped
  <2>3. Contained' /\ Fenced'
    BY DEF Contained, Fenced
  <2>4. Numbered'
    BY DEF Numbered, Latest
  <2> QED BY <2>1, <2>2, <2>3, <2>4
<1> QED BY <1>1, <1>2 DEF Startup

\* A registry is installed in an empty store.
LEMMA InstallStep == ASSUME RegistryAssumption, IInv, Install PROVE IInv'
<1> USE DEF IInv, Install, dbvars, history, Both, Old
<1>1. Typed'
  BY DEF Typed, TypeOK
<1>2. Stamped'
  BY DEF Stamped, AllGuards
<1>3. Contained' /\ Fenced'
  BY DEF Stamped, Contained, Fenced
<1>4. Numbered'
  BY DEF Stamped, Numbered, Latest
<1> QED BY <1>1, <1>2, <1>3, <1>4

-----------------------------------------------------------------------------
(* Operations of the running manager. *)

\* A manager that serves the registry has both migrations and every guard.
LEMMA ReadyStore == ASSUME IInv, Ready PROVE stamps = Both /\ AllGuards \subseteq guards
BY DEF IInv, Ready, Stamped, Both, Old

\* A new snapshot brings its own receipt, a known one brings none.
LEMMA AdmitStep ==
  ASSUME RegistryAssumption, IInv, NEW s \in Snapshots, AdmitRegistry(s)
  PROVE  IInv'
<1> USE DEF IInv, history
<1>1. stamps = Both /\ AllGuards \subseteq guards /\ Both # {} /\ Both # Old
  BY ReadyStore DEF AdmitRegistry, Both, Old
<1>2. /\ UNCHANGED <<running, stamps, guards, terminal, unprovable, fence, act, scopes, invalid, barred,
                     opened, outside, contained, suspect, given>>
      /\ state' = [state EXCEPT ![s] = IF @ = None THEN "ADMITTED" ELSE @]
      /\ bytes' = [c \in Contracts |-> IF c \in ContractsOf[s] THEN "good" ELSE bytes[c]]
      /\ receipts' = receipts \cup
           (IF state[s] = None /\ fence > 0 THEN {[snap |-> s, fence |-> fence, by |-> "admission"]} ELSE {})
  BY DEF AdmitRegistry
<1>3. Typed'
  <2>1. state' \in [Snapshots -> States \cup {None}] /\ bytes' \in [Contracts -> {"absent", "good", "bad"}]
    BY <1>2 DEF Typed, TypeOK, States
  <2>2. \A r \in receipts' : r.snap \in Snapshots /\ r.fence \in 1..MaxFence
    BY <1>2, RegistryAssumption DEF Typed, TypeOK, RegistryAssumption
  <2> QED BY <1>2, <2>1, <2>2 DEF Typed, TypeOK
<1>4. Stamped'
  BY <1>1, <1>2 DEF Stamped
<1>5. \A x \in Snapshots : state[x] # None => state'[x] # None
  BY <1>2 DEF Typed, TypeOK
<1>6. Contained'
  BY <1>1, <1>2, <1>5 DEF Contained, Typed
<1>7. Fenced'
  <2>1. \A r \in receipts' : r.fence <= fence'
    BY <1>2, RegistryAssumption DEF Fenced, Typed, TypeOK, RegistryAssumption
  <2>2. ASSUME NEW x \in suspect, NEW r \in receipts', r.snap = x, r.fence = fence'
        PROVE  r \in receipts
    BY <1>2, <2>2 DEF Fenced
  <2> QED BY <1>2, <1>5, <2>1, <2>2 DEF Fenced, Typed
<1>8. Numbered'
  BY <1>2 DEF Numbered, Latest
<1> QED BY <1>3, <1>4, <1>6, <1>7, <1>8

\* A decision on one snapshot lifts the suspicion against that one only.
LEMMA ReattestStep ==
  ASSUME RegistryAssumption, IInv, NEW s \in Snapshots, NEW d \in Decisions, ReattestSnapshot(s, d)
  PROVE  IInv'
<1> USE DEF IInv
<1>1. /\ UNCHANGED <<running, stamps, guards, state, bytes, terminal, unprovable, fence, act, scopes, invalid,
                     barred, opened, outside, contained, given>>
      /\ receipts' = receipts \cup {[snap |-> s, fence |-> fence, by |-> d]}
      /\ suspect' = suspect \ {s} /\ fence > 0 /\ stamps = Both
  BY ReadyStore DEF ReattestSnapshot
<1>2. Typed'
  <2>1. \A r \in receipts' : r.snap \in Snapshots /\ r.fence \in 1..MaxFence
    BY <1>1, RegistryAssumption DEF Typed, TypeOK, RegistryAssumption
  <2> QED BY <1>1, <2>1 DEF Typed, TypeOK
<1>3. Stamped'
  BY <1>1 DEF Stamped, Both, Old
<1>4. Contained'
  BY <1>1 DEF Contained
<1>5. Fenced'
  <2>1. \A r \in receipts' : r.fence <= fence'
    BY <1>1, RegistryAssumption DEF Fenced, Typed, TypeOK, RegistryAssumption
  <2>2. \A x \in suspect' : \A r \in receipts' : r.snap = x => r \in receipts
    BY <1>1
  <2> QED BY <1>1, <2>1, <2>2 DEF Fenced
<1>6. Numbered'
  BY <1>1 DEF Numbered, Latest
<1> QED BY <1>2, <1>3, <1>4, <1>5, <1>6

\* A row and its ledger are written together.
LEMMA SetStateStep ==
  ASSUME RegistryAssumption, IInv, NEW s \in Snapshots, NEW st \in States, SetSnapshotState(s, st)
  PROVE  IInv'
<1> USE DEF IInv
<1>1. /\ UNCHANGED <<running, stamps, guards, bytes, unprovable, fence, receipts, act, scopes, invalid, barred,
                     outside, suspect, given>>
      /\ state' = [state EXCEPT ![s] = st] /\ opened' = None /\ stamps = Both /\ AllGuards \subseteq guards
      /\ terminal' = (IF st \in Terminal THEN terminal \cup {s} ELSE terminal)
      /\ contained' = (IF st \in Terminal THEN contained \cup {s} ELSE contained)
  BY ReadyStore DEF SetSnapshotState, SetRow
<1>2. st # None
  BY DEF States, None
<1>3. Typed'
  BY <1>1 DEF Typed, TypeOK
<1>4. Stamped'
  BY <1>1 DEF Stamped, Both, Old
<1>5. Contained'
  BY <1>1, <1>2 DEF Contained, Typed, TypeOK, AllGuards, FenceGuards, Both, Old
<1>6. Fenced'
  BY <1>1, <1>2 DEF Fenced, Typed, TypeOK
<1>7. Numbered'
  BY <1>1 DEF Numbered, Latest
<1> QED BY <1>3, <1>4, <1>5, <1>6, <1>7

\* The row of a scope gets a higher revision, whoever activates.
LEMMA ActivateNumbers ==
  ASSUME RegistryAssumption, Typed, Numbered, NEW sc \in Scopes, NEW s \in Snapshots,
         act' = [act EXCEPT ![sc] = [snap |-> s, rev |-> @.rev + 1]],
         given' = [given EXCEPT ![sc] = @ \cup {act'[sc]}],
         UNCHANGED <<stamps, guards, barred, invalid>>, act[sc].rev < MaxRevision
  PROVE  /\ Numbered'
         /\ act' \in [Scopes -> [snap : Snapshots \cup {None}, rev : 0..MaxRevision]]
         /\ given' \in [Scopes -> SUBSET [snap : Snapshots, rev : Nat]]
<1>1. /\ act \in [Scopes -> [snap : Snapshots \cup {None}, rev : 0..MaxRevision]] /\ MaxRevision \in Nat
      /\ given \in [Scopes -> SUBSET [snap : Snapshots, rev : Nat]] /\ None \notin Snapshots
  BY RegistryAssumption DEF Typed, TypeOK, RegistryAssumption
<1>2. /\ act[sc].rev \in Nat /\ act'[sc] = [snap |-> s, rev |-> act[sc].rev + 1]
      /\ given'[sc] = given[sc] \cup {act'[sc]}
      /\ \A x \in Scopes : x # sc => act'[x] = act[x] /\ given'[x] = given[x]
  BY <1>1
<1>3. act'[sc] \in [snap : Snapshots, rev : Nat] /\ act'[sc].rev \in 0..MaxRevision
  BY <1>1, <1>2
<1>4. \A x \in Scopes : x # sc => (Latest(x)' <=> Latest(x))
  BY <1>2 DEF Latest
<1>5. \/ Latest(sc)' \/ "monotonic" \notin guards \/ barred \/ sc \in invalid
  <2> SUFFICES ASSUME "monotonic" \in guards, ~barred, sc \notin invalid PROVE Latest(sc)'
    OBVIOUS
  <2>1. \A a \in given[sc] : a.rev \in Nat /\ a.rev <= act[sc].rev
    BY <1>1 DEF Numbered, Latest
  <2> QED BY <1>2, <2>1 DEF Latest
<1>6. Numbered'
  BY <1>1, <1>2, <1>4, <1>5 DEF Numbered
<1> QED BY <1>1, <1>2, <1>3, <1>6

LEMMA ActivateStep ==
  ASSUME RegistryAssumption, IInv, NEW s \in Snapshots, NEW sc \in Scopes, NEW r \in 0..MaxRevision,
         ActivateDefault(sc, r, s)
  PROVE  IInv'
<1> USE DEF IInv
<1>1. /\ UNCHANGED <<running, stamps, guards, state, bytes, terminal, unprovable, fence, receipts, invalid, barred,
                     outside, contained, suspect>>
      /\ act' = [act EXCEPT ![sc] = [snap |-> s, rev |-> @.rev + 1]] /\ act[sc].rev < MaxRevision
      /\ given' = [given EXCEPT ![sc] = @ \cup {act'[sc]}]
      /\ scopes' = scopes \cup {sc} /\ opened' = None /\ stamps = Both
  BY ReadyStore DEF ActivateDefault
<1>2. /\ Numbered'
      /\ act' \in [Scopes -> [snap : Snapshots \cup {None}, rev : 0..MaxRevision]]
      /\ given' \in [Scopes -> SUBSET [snap : Snapshots, rev : Nat]]
  BY <1>1, ActivateNumbers
<1>3. Typed'
  BY <1>1, <1>2 DEF Typed, TypeOK
<1>4. Stamped'
  BY <1>1 DEF Stamped, Both, Old
<1>5. Contained' /\ Fenced'
  BY <1>1 DEF Contained, Fenced
<1> QED BY <1>2, <1>3, <1>4, <1>5

-----------------------------------------------------------------------------
(* Outside. *)

\* An earlier build writes rows and no ledgers.
LEMMA EarlierStep ==
  ASSUME RegistryAssumption, IInv, NEW s \in Snapshots, NEW sc \in Scopes, EarlierBuild(s, sc)
  PROVE  IInv'
<1> USE DEF IInv
<1>1. /\ UNCHANGED <<guards, terminal, unprovable, fence, receipts, scopes, invalid, barred, suspect, running,
                     stamps, opened>>
      /\ stamps = Old /\ outside' = outside + 1 /\ outside < MaxOutside /\ ~running /\ Old # {} /\ Old # Both
  BY DEF EarlierBuild, Write, Old, Both
<1>2. outside' \in 0..MaxOutside
  BY <1>1, RegistryAssumption DEF Typed, TypeOK, RegistryAssumption
<1>3. Stamped'
  BY <1>1 DEF Stamped
<1>4. CASE /\ state[s] = None
           /\ state' = [state EXCEPT ![s] = "ADMITTED"]
           /\ bytes' = [c \in Contracts |-> IF c \in ContractsOf[s] THEN "good" ELSE bytes[c]]
           /\ UNCHANGED <<act, contained, given>>
  <2>1. Typed'
    <3>1. state' \in [Snapshots -> States \cup {None}] /\ bytes' \in [Contracts -> {"absent", "good", "bad"}]
      BY <1>4 DEF Typed, TypeOK, States
    <3> QED BY <1>1, <1>2, <1>4, <3>1 DEF Typed, TypeOK
  <2>2. Contained' /\ Fenced'
    BY <1>1, <1>4 DEF Contained, Fenced, Typed, TypeOK, None
  <2>3. Numbered'
    BY <1>1, <1>4 DEF Numbered, Latest
  <2> QED BY <1>3, <2>1, <2>2, <2>3
<1>5. CASE /\ state[s] \in {"ADMITTED", "DEPRECATED"}
           /\ state' = [state EXCEPT ![s] = "REVOKED"] /\ contained' = contained \cup {s}
           /\ UNCHANGED <<bytes, act, given>>
  <2>1. Typed'
    <3>1. state' \in [Snapshots -> States \cup {None}]
      BY <1>5 DEF Typed, TypeOK, States
    <3> QED BY <1>1, <1>2, <1>5, <3>1 DEF Typed, TypeOK
  <2>2. Contained' /\ Fenced'
    BY <1>1, <1>5 DEF Contained, Fenced, Typed, TypeOK, None, Terminal
  <2>3. Numbered'
    BY <1>1, <1>5 DEF Numbered, Latest
  <2> QED BY <1>3, <2>1, <2>2, <2>3
<1>6. CASE /\ state[s] = "ADMITTED" /\ act[sc].rev < MaxRevision
           /\ act' = [act EXCEPT ![sc] = [snap |-> s, rev |-> @.rev + 1]]
           /\ given' = [given EXCEPT ![sc] = @ \cup {act'[sc]}]
           /\ UNCHANGED <<state, bytes, contained>>
  <2>1. /\ Numbered'
        /\ act' \in [Scopes -> [snap : Snapshots \cup {None}, rev : 0..MaxRevision]]
        /\ given' \in [Scopes -> SUBSET [snap : Snapshots, rev : Nat]]
    BY <1>1, <1>6, ActivateNumbers
  <2>2. Typed'
    BY <1>1, <1>2, <1>6, <2>1 DEF Typed, TypeOK
  <2>3. Contained' /\ Fenced'
    BY <1>1, <1>6 DEF Contained, Fenced
  <2> QED BY <1>3, <2>1, <2>2, <2>3
<1> QED BY <1>4, <1>5, <1>6 DEF EarlierBuild

\* A guard is lost: what it kept is no longer claimed, and everything admitted
\* becomes suspect.
LEMMA LoseStep ==
  ASSUME RegistryAssumption, IInv, NEW g \in AllGuards, LoseGuard(g)
  PROVE  IInv'
<1> USE DEF IInv
<1>1. /\ UNCHANGED <<state, bytes, terminal, unprovable, fence, receipts, act, scopes, invalid, barred, contained,
                     given, running, stamps, opened>>
      /\ guards' = guards \ {g} /\ ~running /\ g \in guards /\ outside' = outside + 1 /\ outside < MaxOutside
      /\ suspect' = IF g \in Guards THEN {s \in Snapshots : state[s] # None} ELSE suspect
  BY DEF LoseGuard, Write, dbvars
<1>2. outside' \in 0..MaxOutside
  BY <1>1, RegistryAssumption DEF Typed, TypeOK, RegistryAssumption
<1>3. Typed'
  BY <1>1, <1>2 DEF Typed, TypeOK
<1>4. Stamped'
  BY <1>1 DEF Stamped
<1>5. Contained'
  BY <1>1 DEF Contained
<1>6. Fenced'
  BY <1>1 DEF Fenced
<1>7. Numbered'
  BY <1>1 DEF Numbered, Latest
<1> QED BY <1>3, <1>4, <1>5, <1>6, <1>7

\* What a missing guard lets through.
LEMMA TamperStep ==
  ASSUME RegistryAssumption, IInv,
         \/ \E s \in Snapshots : Rewind(s) \/ Forget(s)
         \/ \E s \in Snapshots, sc \in Scopes, r \in 1..MaxRevision : RewindActivation(sc, s, r)
         \/ \E c \in Contracts : Spoil(c)
  PROVE  IInv'
<1> USE DEF IInv
<1>1. /\ UNCHANGED <<guards, unprovable, fence, receipts, scopes, invalid, barred, contained, suspect, given,
                     running, stamps, opened>>
      /\ ~running /\ outside' = outside + 1 /\ outside < MaxOutside /\ stamps # {}
  BY DEF Rewind, Forget, RewindActivation, Spoil, Write, history
<1>2. outside' \in 0..MaxOutside
  BY <1>1, RegistryAssumption DEF Typed, TypeOK, RegistryAssumption
<1>3. Stamped'
  BY <1>1 DEF Stamped
<1>4. ASSUME NEW s \in Snapshots, Rewind(s) PROVE IInv'
  <2>1. /\ state' = [state EXCEPT ![s] = "ADMITTED"] /\ "one_way" \notin guards
        /\ UNCHANGED <<bytes, terminal, act>>
    BY <1>4 DEF Rewind
  <2>2. Typed'
    BY <1>1, <1>2, <2>1 DEF Typed, TypeOK, States
  <2>3. Contained' /\ Fenced'
    BY <1>1, <2>1 DEF Contained, Fenced, Typed, TypeOK, None
  <2>4. Numbered'
    BY <1>1, <2>1 DEF Numbered, Latest
  <2> QED BY <1>3, <2>2, <2>3, <2>4
<1>5. ASSUME NEW s \in Snapshots, Forget(s) PROVE IInv'
  <2>1. /\ terminal' = terminal \ {s} /\ "ledger" \notin guards /\ UNCHANGED <<state, bytes, act>>
    BY <1>5 DEF Forget
  <2>2. Typed'
    BY <1>1, <1>2, <2>1 DEF Typed, TypeOK
  <2>3. Contained' /\ Fenced'
    BY <1>1, <2>1 DEF Contained, Fenced
  <2>4. Numbered'
    BY <1>1, <2>1 DEF Numbered, Latest
  <2> QED BY <1>3, <2>2, <2>3, <2>4
<1>6. ASSUME NEW s \in Snapshots, NEW sc \in Scopes, NEW r \in 1..MaxRevision, RewindActivation(sc, s, r)
      PROVE IInv'
  <2>1. /\ act' = [act EXCEPT ![sc] = [snap |-> s, rev |-> r]] /\ "monotonic" \notin guards
        /\ UNCHANGED <<state, bytes, terminal>>
    BY <1>6 DEF RewindActivation
  <2>2. None \notin Snapshots /\ MaxRevision \in Nat
    BY RegistryAssumption DEF RegistryAssumption
  <2>3. act' \in [Scopes -> [snap : Snapshots \cup {None}, rev : 0..MaxRevision]]
    BY <2>1, <2>2 DEF Typed, TypeOK
  <2>4. Typed'
    BY <1>1, <1>2, <2>1, <2>3 DEF Typed, TypeOK
  <2>5. Contained' /\ Fenced'
    BY <1>1, <2>1 DEF Contained, Fenced
  <2>6. \A x \in Scopes : act'[x].snap = None => act[x].snap = None
    BY <2>1, <2>2 DEF Typed, TypeOK
  <2>7. Numbered'
    BY <1>1, <2>1, <2>6 DEF Numbered
  <2> QED BY <1>3, <2>4, <2>5, <2>7
<1>7. ASSUME NEW c \in Contracts, Spoil(c) PROVE IInv'
  <2>1. bytes' = [bytes EXCEPT ![c] = "bad"] /\ UNCHANGED <<state, terminal, act>>
    BY <1>7 DEF Spoil
  <2>2. Typed'
    BY <1>1, <1>2, <2>1 DEF Typed, TypeOK
  <2>3. Contained' /\ Fenced'
    BY <1>1, <2>1 DEF Contained, Fenced
  <2>4. Numbered'
    BY <1>1, <2>1 DEF Numbered, Latest
  <2> QED BY <1>3, <2>2, <2>3, <2>4
<1> QED BY <1>4, <1>5, <1>6, <1>7

-----------------------------------------------------------------------------
(* The theorems. *)

LEMMA NextInv == ASSUME RegistryAssumption, IInv, [Next]_vars PROVE IInv'
<1>1. CASE Startup
  BY <1>1, StartupStep
<1>2. CASE Install
  BY <1>2, InstallStep
<1>3. CASE Stop \/ GiveUp \/ UNCHANGED vars \/ \E s \in Snapshots : Reads(s)
  <2>1. /\ UNCHANGED <<stamps, guards, dbvars, outside, history>>
        /\ running' \in {running, FALSE} /\ opened' \in Snapshots \cup {None}
    BY <1>3 DEF Stop, GiveUp, Reads, vars, IInv, Typed, TypeOK
  <2> QED BY <2>1, QuietStep
<1>4. ASSUME NEW s \in Snapshots,
             \/ AdmitRegistry(s) \/ \E d \in Decisions : ReattestSnapshot(s, d)
             \/ \E st \in States : SetSnapshotState(s, st)
             \/ \E sc \in Scopes, r \in 0..MaxRevision : ActivateDefault(sc, r, s)
             \/ \E sc \in Scopes : EarlierBuild(s, sc)
      PROVE  IInv'
  BY <1>4, AdmitStep, ReattestStep, SetStateStep, ActivateStep, EarlierStep
<1>5. CASE \E g \in Guards \cup FenceGuards : LoseGuard(g)
  BY <1>5, LoseStep DEF AllGuards
<1>6. CASE \/ \E s \in Snapshots : Rewind(s) \/ Forget(s)
           \/ \E s \in Snapshots, sc \in Scopes, r \in 1..MaxRevision : RewindActivation(sc, s, r)
           \/ \E c \in Contracts : Spoil(c)
  BY <1>6, TamperStep
<1> QED BY <1>1, <1>2, <1>3, <1>4, <1>5, <1>6 DEF Next

\* The invariant implies the three properties: a running manager has every
\* guard, so each table tells what was decided.
LEMMA InvImplies == ASSUME RegistryAssumption, IInv PROVE RepairKeepsDecisions
<1> USE DEF IInv
<1>1. ContainedStaysContained
  BY DEF ContainedStaysContained, Usable, Stamped, Contained, AllGuards, FenceGuards, Both, None
<1>2. RepairNeedsDecision
  BY DEF RepairNeedsDecision, Usable, Stamped, Fenced, AllGuards, None
<1>3. RevisionsNeverReused
  <2> SUFFICES ASSUME running, NEW sc \in Scopes, DefaultSnapshot(sc).snap # None
               PROVE  DefaultSnapshot(sc) = act[sc] /\ Latest(sc)
    BY DEF RevisionsNeverReused, Latest
  <2>1. act[sc].snap # None /\ ~barred /\ sc \notin invalid /\ DefaultSnapshot(sc) = act[sc]
    BY DEF DefaultSnapshot, Pointer
  <2>2. "monotonic" \in guards
    BY <2>1 DEF Stamped, AllGuards, Guards
  <2> QED BY <2>1, <2>2 DEF Numbered
<1> QED BY <1>1, <1>2, <1>3 DEF RepairKeepsDecisions

\* The invariant of the registry store holds in every reachable state,
\* whatever guards were lost and whatever was written while they were missing.
THEOREM RegistryInvariant == ASSUME RegistryAssumption PROVE Spec => []IInv
<1>1. Init => IInv
  BY InitInv
<1>2. IInv /\ [Next]_vars => IInv'
  BY NextInv
<1> QED BY <1>1, <1>2, PTL DEF Spec

\* What was decided before guards were lost holds after the repair, for any
\* number of repairs, snapshots, scopes and writes from outside: a contained
\* snapshot is never usable, one admitted before a loss is usable only by a
\* new decision, and no revision of a scope stands for two snapshots.
THEOREM DecisionsSurviveRepair == ASSUME RegistryAssumption PROVE Spec => []RepairKeepsDecisions
<1>1. IInv => RepairKeepsDecisions
  BY InvImplies
<1> QED BY <1>1, RegistryInvariant, PTL

\* Every variable keeps its type.
THEOREM RegistryTypeCorrect == ASSUME RegistryAssumption PROVE Spec => []TypeOK
<1>1. IInv => TypeOK
  BY DEF IInv, Typed
<1> QED BY <1>1, RegistryInvariant, PTL

=============================================================================

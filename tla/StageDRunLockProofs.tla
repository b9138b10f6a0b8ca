------------------------ MODULE StageDRunLockProofs ------------------------
(***************************************************************************)
(* Proofs about StageDRunLock for any number of runs, replacements of the  *)
(* operation root, crashes and I/O failures.  The argument: whoever is     *)
(* past admission, or ended unsettled, owns the trust fence, the one fence *)
(* that a replaced operation root cannot lose.                             *)
(***************************************************************************)
EXTENDS StageDRunLock, TLAPS, SequenceTheorems

Creating  == {"create", "undo", "cleanup"}
Exclusive == {"validate", "bind", "working", "rebind", "verify"}

(* The trust fence: the outermost place does not depend on the generation. *)
TrustPlace == <<0, Trust>>

(* How far each run is with its fences at each point of the code.          *)
Phase(r) ==
    /\ pc[r] \in {"idle", "refused", "released"} => held[r] = 0 /\ ~half[r]
    /\ pc[r] = "create" => held[r] < Root /\ ~half[r]
    /\ pc[r] \in {"undo", "cleanup"} => held[r] < Root
    /\ pc[r] = "cleanup" => ~half[r]
    /\ pc[r] \in Exclusive => held[r] = Root /\ ~half[r]
    /\ pc[r] = "release" => held[r] > 0
    /\ half[r] => held[r] > 0

PhaseInv == \A r \in Run : Phase(r)

(* A run that must own the trust fence: it has created it and not yet      *)
(* unlinked it, or it ended without a clean release.                       *)
MustHold(r) ==
    \/ /\ pc[r] \in Creating \cup Exclusive \cup {"release"}
       /\ held[r] > 0
       /\ ~(half[r] /\ held[r] = Trust)
    \/ r \in unresolved

LockInv ==
    /\ \A r \in Run : MustHold(r) => fence[TrustPlace] = r
    /\ \A r \in unresolved : pc[r] = "stopped"

(* The fences that bear a run's name are the ones its created flags name.  *)
Known(r) == {PlaceOf(r, l) : l \in {k \in Level : k <= held[r]}}

Accounted(r) ==
    pc[r] \in {"idle", "create", "undo", "refused", "release", "released"}
       \cup Exclusive
    => \A p \in Place : fence[p] = r =>
          p \in Known(r) /\ ~(half[r] /\ p = Innermost(r))

CleanInv == \A r \in Run : Accounted(r)

(* The two failures that come after the trust fence was unlinked.          *)
NoTrustSyncFailure == Faults \cap {"undoSync", "trustSync"} = {}

-----------------------------------------------------------------------------
(* The places of a run exist, and only the outermost is the trust fence.   *)
LEMMA PlaceFacts ==
    ASSUME TypeOK, NEW r \in Run
    PROVE  /\ TrustPlace \in Place
           /\ \A l \in Level : PlaceOf(r, l) \in Place
           /\ \A l \in Level : PlaceOf(r, l) = TrustPlace <=> l = Trust
           /\ \A l, m \in Level : PlaceOf(r, l) = PlaceOf(r, m) => l = m
  BY SMTT(40), BoundAssumption
  DEF TypeOK, TrustPlace, Place, PlaceOf, Level, Trust, Root, Generation

LEMMA AnchorFacts ==
    ASSUME TypeOK, NEW r \in Run
    PROVE  Observed(r) \in Anchors /\ NextAnchor(r) \in Anchors
  BY DEF TypeOK, Observed, NextAnchor, Anchors

LEMMA InitTyped == Init => TypeOK /\ PhaseInv
  BY BoundAssumption, RunAssumption
  DEF Init, TypeOK, PhaseInv, Phase, Generation, NoAnchor, Anchors, Labels,
      Exclusive, Root, Trust, Place

(* Every step keeps the types and the bookkeeping of the created flags.    *)
LEMMA TypedStep == TypeOK /\ PhaseInv /\ [Next]_vars => TypeOK' /\ PhaseInv'
<1>. SUFFICES ASSUME TypeOK, PhaseInv, [Next]_vars
              PROVE  TypeOK' /\ PhaseInv'
  OBVIOUS
<1>. USE BoundAssumption
<1>a. \A r \in Run : \A l \in Level : PlaceOf(r, l) \in Place
  BY PlaceFacts
<1>b. \A r \in Run : Observed(r) \in Anchors /\ NextAnchor(r) \in Anchors
  BY AnchorFacts
<1>c. \A r \in Run : /\ pc[r] \in Labels /\ held[r] \in 0..4 /\ half[r] \in BOOLEAN
                     /\ Phase(r)
  BY DEF TypeOK, PhaseInv, Root
<1>1. ASSUME NEW r \in Run, Acquiring(r)
      PROVE  TypeOK' /\ PhaseInv'
  <2>. USE DEF disk, local, past, used, At, Goto, SetFence, Held, Half, Fault,
         NoFault, Stop, Level, Root, Trust, Phase, Exclusive, Labels
  <2>1. CASE Open(r)
    <3>1. TypeOK'
      BY <2>1, <1>a, <1>b, <1>c DEF TypeOK, Open
    <3>2. PhaseInv'
      BY SMTT(40), <2>1, <1>c DEF PhaseInv, TypeOK, Open
    <3>. QED  BY <3>1, <3>2
  <2>2. CASE Create(r)
    <3>a. held[r] + 1 \in Level /\ NextPlace(r) \in Place
      BY <2>2, <1>a, <1>c DEF Create, NextPlace
    <3>1. TypeOK'
      BY SMTT(40), <2>2, <1>a, <1>b, <3>a DEF TypeOK, Create, NextPlace
    <3>2. ASSUME NEW s \in Run PROVE Phase(s)'
      <4>1. CASE s = r
        BY SMTT(40), <4>1, <2>2, <1>c, <3>a DEF TypeOK, Create, NextPlace
      <4>2. CASE s # r
        BY <4>2, <2>2, <1>c, <3>a DEF TypeOK, Create, NextPlace
      <4>. QED  BY <4>1, <4>2
    <3>. QED  BY <3>1, <3>2 DEF PhaseInv
  <2>3. CASE Exists(r)
    <3>1. TypeOK'
      BY <2>3, <1>a, <1>b, <1>c DEF TypeOK, Exists
    <3>2. PhaseInv'
      BY <2>3, <1>c DEF PhaseInv, TypeOK, Exists
    <3>. QED  BY <3>1, <3>2
  <2>4. CASE CreateFails(r)
    <3>a. NextPlace(r) \in Place
      BY <2>4, <1>a, <1>c DEF CreateFails, NextPlace
    <3>b. fence' \in [Place -> Run \cup {Nobody}]
      BY <2>4, <3>a DEF CreateFails, TypeOK
    <3>1. TypeOK'
      BY SMTT(40), <2>4, <3>a, <3>b DEF CreateFails, TypeOK
    <3>2. PhaseInv'
      BY <2>4, <1>c, <3>a DEF PhaseInv, TypeOK, CreateFails, NextPlace
    <3>. QED  BY <3>1, <3>2
  <2>5. CASE UndoUnlink(r)
    <3>a. held[r] \in Level /\ Innermost(r) \in Place
      BY <2>5, <1>a, <1>c DEF UndoUnlink, TakenBack, Innermost
    <3>1. TypeOK'
      BY <2>5, <1>a, <1>b, <3>a DEF TypeOK, UndoUnlink, TakenBack, Innermost
    <3>2. ASSUME NEW s \in Run PROVE Phase(s)'
      <4>1. CASE s = r
        BY SMTT(40), <4>1, <2>5, <1>c, <3>a DEF TypeOK, UndoUnlink, TakenBack, Innermost
      <4>2. CASE s # r
        BY <4>2, <2>5, <1>c, <3>a DEF TypeOK, UndoUnlink, TakenBack, Innermost
      <4>. QED  BY <4>1, <4>2
    <3>. QED  BY <3>1, <3>2 DEF PhaseInv
  <2>6. CASE UndoSync(r)
    <3>a. held[r] - 1 \in 0..3
      BY <2>6, <1>a, <1>c DEF UndoSync
    <3>1. TypeOK'
      BY SMTT(40), <2>6, <1>a, <1>b, <3>a DEF TypeOK, UndoSync
    <3>2. ASSUME NEW s \in Run PROVE Phase(s)'
      <4>1. CASE s = r
        BY SMTT(40), <4>1, <2>6, <1>c, <3>a DEF TypeOK, UndoSync
      <4>2. CASE s # r
        BY <4>2, <2>6, <1>c, <3>a DEF TypeOK, UndoSync
      <4>. QED  BY <4>1, <4>2
    <3>. QED  BY <3>1, <3>2 DEF PhaseInv
  <2>7. CASE UndoFails(r)
    <3>1. TypeOK'
      BY SMTT(40), <2>7, <1>a, <1>b, <1>c DEF TypeOK, UndoFails
    <3>2. PhaseInv'
      BY <2>7, <1>c DEF PhaseInv, TypeOK, UndoFails
    <3>. QED  BY <3>1, <3>2
  <2>8. CASE Refuse(r)
    <3>1. TypeOK'
      BY <2>8, <1>a, <1>b, <1>c DEF TypeOK, Refuse, TakenBack
    <3>2. PhaseInv'
      BY SMTT(40), <2>8, <1>c DEF PhaseInv, TypeOK, Refuse, TakenBack
    <3>. QED  BY <3>1, <3>2
  <2>9. CASE Cleanup(r)
    <3>a. held[r] - 1 \in 0..4 /\ Innermost(r) \in Place
      BY <2>9, <1>a, <1>c DEF Cleanup, Innermost
    <3>b. fence' \in [Place -> Run \cup {Nobody}] /\ held' \in [Run -> 0..4]
      BY <2>9, <3>a DEF Cleanup, TypeOK
    <3>1. TypeOK'
      BY SMTT(40), <2>9, <3>a, <3>b DEF Cleanup, TypeOK
    <3>2. ASSUME NEW s \in Run PROVE Phase(s)'
      <4>1. CASE s = r
        BY SMTT(40), <4>1, <2>9, <1>c, <3>a DEF TypeOK, Cleanup, Innermost
      <4>2. CASE s # r
        BY <4>2, <2>9, <1>c, <3>a DEF TypeOK, Cleanup, Innermost
      <4>. QED  BY <4>1, <4>2
    <3>. QED  BY <3>1, <3>2 DEF PhaseInv
  <2>10. CASE GiveUp(r)
    <3>1. TypeOK'
      BY <2>10, <1>a, <1>b, <1>c DEF TypeOK, GiveUp
    <3>2. PhaseInv'
      BY <2>10, <1>c DEF PhaseInv, TypeOK, GiveUp
    <3>. QED  BY <3>1, <3>2
  <2>11. CASE Validate(r)
    <3>1. TypeOK'
      BY <2>11, <1>a, <1>b, <1>c DEF TypeOK, Validate
    <3>2. PhaseInv'
      BY <2>11, <1>c DEF PhaseInv, TypeOK, Validate
    <3>. QED  BY <3>1, <3>2
  <2>12. CASE ValidateFails(r)
    <3>1. TypeOK'
      BY SMTT(40), <2>12, <1>a, <1>b, <1>c DEF TypeOK, ValidateFails
    <3>2. PhaseInv'
      BY <2>12, <1>c DEF PhaseInv, TypeOK, ValidateFails
    <3>. QED  BY <3>1, <3>2
  <2>. QED
    BY <1>1, <2>1, <2>2, <2>3, <2>4, <2>5, <2>6, <2>7, <2>8, <2>9, <2>10, <2>11, <2>12 DEF Acquiring
<1>2. ASSUME NEW r \in Run, Cycling(r)
      PROVE  TypeOK' /\ PhaseInv'
  <2>. USE DEF disk, local, past, used, At, Goto, SetFence, Held, Half, Fault,
         NoFault, Stop, Level, Root, Trust, Phase, Exclusive, Labels
  <2>1. CASE Bind(r)
    <3>1. TypeOK'
      BY <2>1, <1>a, <1>b, <1>c DEF TypeOK, Bind
    <3>2. PhaseInv'
      BY SMTT(40), <2>1, <1>c DEF PhaseInv, TypeOK, Bind
    <3>. QED  BY <3>1, <3>2
  <2>2. CASE BindFails(r)
    <3>1. TypeOK'
      BY SMTT(40), <2>2, <1>a, <1>b, <1>c DEF TypeOK, BindFails
    <3>2. PhaseInv'
      BY <2>2, <1>c DEF PhaseInv, TypeOK, BindFails
    <3>. QED  BY <3>1, <3>2
  <2>3. CASE AppendEvent(r)
    <3>a. wrote[r] + 1 \in 0..MaxEvents /\ Append(ledger[path], r) \in Seq(Run)
      BY SMTT(40), <2>3, <1>a, <1>c DEF AppendEvent, MayAppend, TypeOK
    <3>1. TypeOK'
      BY <2>3, <1>a, <1>b, <3>a DEF TypeOK, AppendEvent, MayAppend
    <3>2. PhaseInv'
      BY <2>3, <1>c, <3>a DEF PhaseInv, TypeOK, AppendEvent, MayAppend
    <3>. QED  BY <3>1, <3>2
  <2>4. CASE Abandon(r)
    <3>1. TypeOK'
      BY <2>4, <1>a, <1>b, <1>c DEF TypeOK, Abandon
    <3>2. PhaseInv'
      BY <2>4, <1>c DEF PhaseInv, TypeOK, Abandon
    <3>. QED  BY <3>1, <3>2
  <2>5. CASE Finish(r)
    <3>1. TypeOK'
      BY <2>5, <1>a, <1>b, <1>c DEF TypeOK, Finish
    <3>2. PhaseInv'
      BY <2>5, <1>c DEF PhaseInv, TypeOK, Finish
    <3>. QED  BY <3>1, <3>2
  <2>. QED
    BY <1>2, <2>1, <2>2, <2>3, <2>4, <2>5 DEF Cycling
<1>3. ASSUME NEW r \in Run, Releasing(r)
      PROVE  TypeOK' /\ PhaseInv'
  <2>. USE DEF disk, local, past, used, At, Goto, SetFence, Held, Half, Fault,
         NoFault, Stop, Level, Root, Trust, Phase, Exclusive, Labels
  <2>1. CASE Verify(r)
    <3>a. unresolved' \subseteq Run
      BY SMTT(40), <2>1, <1>a, <1>c DEF Verify, TypeOK
    <3>1. TypeOK'
      BY <2>1, <1>a, <1>b, <3>a DEF TypeOK, Verify
    <3>2. ASSUME NEW s \in Run PROVE Phase(s)'
      <4>1. CASE s = r
        BY <4>1, <2>1, <1>c, <3>a DEF TypeOK, Verify
      <4>2. CASE s # r
        BY <4>2, <2>1, <1>c, <3>a DEF TypeOK, Verify
      <4>. QED  BY <4>1, <4>2
    <3>. QED  BY <3>1, <3>2 DEF PhaseInv
  <2>2. CASE Unlink(r)
    <3>1. TypeOK'
      BY <2>2, <1>a, <1>b, <1>c DEF TypeOK, Unlink, Innermost
    <3>2. PhaseInv'
      BY <2>2, <1>c DEF PhaseInv, TypeOK, Unlink, Innermost
    <3>. QED  BY <3>1, <3>2
  <2>3. CASE Sync(r)
    <3>a. held[r] - 1 \in 0..4 /\ (held[r] = 1 <=> held[r] - 1 = 0)
      BY <2>3, <1>a, <1>c DEF Sync
    <3>b. held' \in [Run -> 0..4] /\ half' \in [Run -> BOOLEAN] /\ pc' \in [Run -> Labels]
      BY <2>3, <3>a DEF Sync, TypeOK
    <3>1. TypeOK'
      BY <2>3, <3>a, <3>b DEF Sync, TypeOK
    <3>2. ASSUME NEW s \in Run PROVE Phase(s)'
      <4>1. CASE s = r
        BY SMTT(40), <4>1, <2>3, <1>c, <3>a DEF TypeOK, Sync
      <4>2. CASE s # r
        BY <4>2, <2>3, <1>c, <3>a DEF TypeOK, Sync
      <4>. QED  BY <4>1, <4>2
    <3>. QED  BY <3>1, <3>2 DEF PhaseInv
  <2>4. CASE ReleaseFails(r)
    <3>1. TypeOK'
      BY SMTT(40), <2>4, <1>a, <1>b, <1>c DEF TypeOK, ReleaseFails
    <3>2. PhaseInv'
      BY <2>4, <1>c DEF PhaseInv, TypeOK, ReleaseFails
    <3>. QED  BY <3>1, <3>2
  <2>. QED
    BY <1>3, <2>1, <2>2, <2>3, <2>4 DEF Releasing
<1>4. ASSUME NEW r \in Run, Crash(r)
      PROVE  TypeOK' /\ PhaseInv'
  BY SMTT(40), <1>4 DEF Crash, TypeOK, PhaseInv, Phase, Exclusive, Labels, disk, local,
       Goto
<1>5. CASE Swap
  <2>. PICK n \in 0..Len(ledger[path]) :
          ledger' = [ledger EXCEPT ![path + 1] = SubSeq(ledger[path], 1, n)]
    BY <1>5 DEF Swap
  <2>1. path + 1 \in Generation /\ SubSeq(ledger[path], 1, n) \in Seq(Run)
    <3>1. path \in Generation /\ ledger[path] \in Seq(Run) /\ path < MaxSwaps
      BY <1>5 DEF Swap, TypeOK
    <3>2. MaxSwaps \in Nat
      OBVIOUS
    <3>3. \A i \in 1..n : ledger[path][i] \in Run
      BY <3>1
    <3>. QED  BY <3>1, <3>2, <3>3, SubSeqProperties DEF Generation
  <2>. QED
    BY <1>5, <2>1 DEF Swap, TypeOK, PhaseInv, Phase, local, past, used
<1>6. CASE Rollback
  <2>. PICK n \in 0..(Len(ledger[path]) - 1) :
          ledger' = [ledger EXCEPT ![path] = SubSeq(@, 1, n)]
    BY <1>6 DEF Rollback
  <2>1. SubSeq(ledger[path], 1, n) \in Seq(Run)
    <3>1. ledger[path] \in Seq(Run)
      BY DEF TypeOK
    <3>. QED  BY <3>1, SubSeqProperties
  <2>2. rollbacks' \in 0..MaxRollbacks
    <3>1. rollbacks < MaxRollbacks /\ rollbacks' = rollbacks + 1
      BY <1>6 DEF Rollback
    <3>2. rollbacks \in 0..MaxRollbacks /\ MaxRollbacks \in Nat
      BY DEF TypeOK
    <3>. QED  BY <3>1, <3>2
  <2>. QED
    BY <1>6, <2>1, <2>2 DEF Rollback, TypeOK, PhaseInv, Phase, local, past
<1>7. CASE Reconcile
  BY <1>7 DEF Reconcile, TypeOK, PhaseInv, Phase, Exclusive, local, used
<1>8. CASE UNCHANGED vars
  BY <1>8 DEF vars, TypeOK, PhaseInv, Phase, disk, local, past, used
<1>. QED
  BY <1>1, <1>2, <1>3, <1>4, <1>5, <1>6, <1>7, <1>8 DEF Next

THEOREM TypedAlways == Spec => [](TypeOK /\ PhaseInv)
<1>1. Init => TypeOK /\ PhaseInv
  BY InitTyped
<1>2. TypeOK /\ PhaseInv /\ [Next]_vars => TypeOK' /\ PhaseInv'
  BY TypedStep
<1>. QED  BY <1>1, <1>2, PTL DEF Spec

(* Type correctness (all of StageDRunLock), whatever fails.                *)
THEOREM TypeCorrect == Spec => []TypeOK
<1>. QED  BY TypedAlways, PTL

-----------------------------------------------------------------------------
(* The trust fence. *)

(* A run that unlinks its outermost fence owned it until then; nobody else *)
(* had to hold it.                                                         *)
LEMMA TrustKept ==
    ASSUME TypeOK, TypeOK', LockInv, NEW r \in Run, NEW l \in Level,
           NEW owner,
           SetFence(PlaceOf(r, l), owner),
           l = Trust => fence[TrustPlace] \in {r, Nobody}
    PROVE  \A s \in Run \ {r} : MustHold(s) => fence'[TrustPlace] = s
<1>. SUFFICES ASSUME NEW s \in Run \ {r}, MustHold(s)
              PROVE  fence'[TrustPlace] = s
  OBVIOUS
<1>1. fence[TrustPlace] = s
  BY DEF LockInv
<1>2. l # Trust
  BY <1>1, RunAssumption
<1>3. PlaceOf(r, l) # TrustPlace
  BY <1>2, PlaceFacts
<1>. QED
  BY <1>1, <1>3, PlaceFacts DEF SetFence, TypeOK

(* A step of one run leaves the others where they are.                     *)
Alone(r) ==
    /\ \A s \in Run \ {r} :
          pc'[s] = pc[s] /\ held'[s] = held[s] /\ half'[s] = half[s]
    /\ pc[r] # "stopped"
    /\ \/ unresolved' = unresolved
       \/ unresolved' = unresolved \cup {r} /\ pc'[r] = "stopped"

LEMMA StepAlone ==
    ASSUME TypeOK, NEW r \in Run,
           Acquiring(r) \/ Cycling(r) \/ Releasing(r) \/ Crash(r)
    PROVE  Alone(r)
<1>. USE DEF TypeOK, Alone, disk, local, past, used, At, Goto, Held, Half,
       Stop
<1>1. CASE Acquiring(r)
  BY <1>1 DEF Acquiring, Open, Create, Exists, CreateFails, UndoUnlink,
       UndoSync, UndoFails, Refuse, Cleanup, GiveUp, Validate, ValidateFails
<1>2. CASE Cycling(r)
  BY <1>2 DEF Cycling, Bind, BindFails, AppendEvent, Abandon, Finish
<1>3. CASE Releasing(r)
  BY SMTT(40), <1>3 DEF Releasing, Verify, Unlink, Sync, ReleaseFails
<1>4. CASE Crash(r)
  BY <1>4 DEF Crash, Live, Ended
<1>. QED  BY <1>1, <1>2, <1>3, <1>4

(* What is left to show of a step of run r: that the fences of the others  *)
(* stay, and that r itself holds the trust fence if it must.               *)
LEMMA LockByRun ==
    ASSUME TypeOK, LockInv, NEW r \in Run, Alone(r),
           \A s \in Run \ {r} : MustHold(s) => fence'[TrustPlace] = s,
           MustHold(r)' => fence'[TrustPlace] = r
    PROVE  LockInv'
<1>1. \A s \in Run \ {r} : MustHold(s)' => MustHold(s)
  BY DEF MustHold, Alone
<1>2. \A s \in Run : MustHold(s)' => fence'[TrustPlace] = s
  BY <1>1
<1>3. \A s \in unresolved' : pc'[s] = "stopped"
  BY DEF LockInv, Alone, TypeOK
<1>. QED  BY <1>2, <1>3 DEF LockInv, TrustPlace

LEMMA LockStep ==
    ASSUME NoTrustSyncFailure, TypeOK, TypeOK', PhaseInv, LockInv, [Next]_vars
    PROVE  LockInv'
<1>a. ASSUME NEW r \in Run
      PROVE  /\ pc[r] \in Labels /\ held[r] \in 0..4 /\ half[r] \in BOOLEAN
             /\ Phase(r)
             /\ MustHold(r) => fence[TrustPlace] = r
             /\ r \in unresolved => pc[r] = "stopped"
  BY DEF TypeOK, PhaseInv, LockInv, Root
<1>1. ASSUME NEW r \in Run, Acquiring(r)
      PROVE  LockInv'
  <2>. USE DEF disk, local, past, used, At, Goto, Held, Half, Fault, NoFault,
         Stop, Level, Root, Trust, Phase, Exclusive, Creating, Labels,
         NoTrustSyncFailure
  <2>c. Alone(r)
    BY <1>1, StepAlone
  <2>d. UNCHANGED fence => \A s \in Run \ {r} : MustHold(s) => fence'[TrustPlace] = s
    BY <1>a DEF TrustPlace
  <2>e. /\ pc \in [Run -> Labels] /\ held \in [Run -> 0..4]
       /\ half \in [Run -> BOOLEAN]
    BY DEF TypeOK
  <2>1. CASE Open(r)
    <3>1. UNCHANGED fence
      BY <2>1 DEF Open
    <3>2. MustHold(r)' => MustHold(r)
      BY <2>1, <1>a, <2>e DEF Open, MustHold
    <3>. QED  BY <3>1, <3>2, <1>a, <2>c, <2>d, LockByRun
  <2>2. CASE Create(r)
    <3>1. held[r] + 1 \in Level /\ fence[PlaceOf(r, held[r] + 1)] = Nobody
      BY <2>2, <1>a DEF Create, FenceFree, NextPlace
    <3>2. held[r] + 1 = Trust => fence[TrustPlace] = Nobody
      BY <3>1, PlaceFacts DEF TrustPlace, PlaceOf
    <3>3. \A s \in Run \ {r} : MustHold(s) => fence'[TrustPlace] = s
      BY <2>2, <3>1, <3>2, TrustKept DEF Create, NextPlace
    <3>4. CASE held[r] = 0
      <4>1. PlaceOf(r, held[r] + 1) = TrustPlace
        BY <3>4, <3>1, PlaceFacts
      <4>2. fence'[TrustPlace] = r
        BY <2>2, <4>1, PlaceFacts DEF Create, NextPlace, SetFence, TypeOK
      <4>. QED  BY <2>c, <3>3, <4>2, LockByRun
    <3>5. CASE held[r] > 0
      <4>1. fence[TrustPlace] = r
        BY <2>2, <3>5, <1>a, <2>e DEF Create, MustHold
      <4>2. PlaceOf(r, held[r] + 1) # TrustPlace
        BY <3>5, <3>1, <1>a, PlaceFacts
      <4>3. fence'[TrustPlace] = r
        BY <2>2, <4>1, <4>2, PlaceFacts DEF Create, NextPlace, SetFence, TypeOK
      <4>. QED  BY <2>c, <3>3, <4>3, LockByRun
    <3>. QED  BY <3>1, <3>4, <3>5, <1>a
  <2>3. CASE Exists(r)
    <3>1. UNCHANGED fence
      BY <2>3 DEF Exists
    <3>2. MustHold(r)' => MustHold(r)
      BY <2>3, <1>a, <2>e DEF Exists, MustHold
    <3>. QED  BY <3>1, <3>2, <1>a, <2>c, <2>d, LockByRun
  <2>4. CASE CreateFails(r)
    <3>1. held[r] + 1 \in Level /\ fence[PlaceOf(r, held[r] + 1)] = Nobody
      BY <2>4, <1>a DEF CreateFails, FenceFree, NextPlace
    <3>2. held[r] + 1 = Trust => fence[TrustPlace] = Nobody
      BY <3>1, PlaceFacts DEF TrustPlace, PlaceOf
    <3>3. CASE SetFence(NextPlace(r), r)
      <4>1. \A s \in Run \ {r} : MustHold(s) => fence'[TrustPlace] = s
        BY <3>3, <3>1, <3>2, TrustKept DEF NextPlace
      <4>2. ASSUME MustHold(r)' PROVE fence'[TrustPlace] = r
        <5>1. held[r] > 0 /\ MustHold(r)
          BY <4>2, <2>4, <1>a, <2>e DEF CreateFails, MustHold
        <5>2. PlaceOf(r, held[r] + 1) # TrustPlace
          BY <5>1, <3>1, <1>a, PlaceFacts
        <5>. QED
          BY <5>1, <5>2, <3>3, <1>a, PlaceFacts DEF NextPlace, SetFence, TypeOK
      <4>. QED  BY <2>c, <4>1, <4>2, LockByRun
    <3>4. CASE UNCHANGED fence
      <4>1. MustHold(r)' => MustHold(r)
        BY <2>4, <1>a, <2>e DEF CreateFails, MustHold
      <4>. QED  BY <3>4, <4>1, <1>a, <2>c, <2>d, LockByRun
    <3>. QED  BY <2>4, <3>3, <3>4 DEF CreateFails
  <2>5. CASE UndoUnlink(r)
    <3>1. held[r] \in Level /\ MustHold(r)
      BY <2>5, <1>a, <2>e DEF UndoUnlink, MustHold, TakenBack
    <3>2. SetFence(PlaceOf(r, held[r]), Nobody)
      BY <2>5, <3>1 DEF UndoUnlink, Innermost
    <3>3. \A s \in Run \ {r} : MustHold(s) => fence'[TrustPlace] = s
      BY <3>1, <3>2, <1>a, TrustKept
    <3>4. ASSUME MustHold(r)' PROVE fence'[TrustPlace] = r
      <4>1. held[r] > Trust
        BY <3>4, <2>5, <3>1, <1>a, <2>e DEF UndoUnlink, MustHold
      <4>2. PlaceOf(r, held[r]) # TrustPlace
        BY <4>1, <3>1, PlaceFacts
      <4>. QED
        BY <4>2, <3>2, <3>1, <1>a, PlaceFacts DEF SetFence, TypeOK
    <3>. QED  BY <2>c, <3>3, <3>4, LockByRun
  <2>6. CASE UndoSync(r)
    <3>1. UNCHANGED fence
      BY <2>6 DEF UndoSync
    <3>2. MustHold(r)' => MustHold(r)
      BY <2>6, <1>a, <2>e DEF UndoSync, MustHold
    <3>. QED  BY <3>1, <3>2, <1>a, <2>c, <2>d, LockByRun
  <2>7. CASE UndoFails(r)
    <3>1. UNCHANGED fence
      BY <2>7 DEF UndoFails
    <3>2. MustHold(r)' => MustHold(r)
      BY <2>7, <1>a, <2>e DEF UndoFails, MustHold
    <3>. QED  BY <3>1, <3>2, <1>a, <2>c, <2>d, LockByRun
  <2>8. CASE Refuse(r)
    <3>1. UNCHANGED fence
      BY <2>8 DEF Refuse
    <3>2. MustHold(r)' => MustHold(r)
      BY <2>8, <1>a, <2>e DEF Refuse, MustHold, TakenBack
    <3>. QED  BY <3>1, <3>2, <1>a, <2>c, <2>d, LockByRun
  <2>9. CASE Cleanup(r)
    <3>1. held[r] \in Level /\ MustHold(r)
      BY <2>9, <1>a, <2>e DEF Cleanup, MustHold
    <3>a. CASE SetFence(Innermost(r), Nobody)
      <4>2. SetFence(PlaceOf(r, held[r]), Nobody)
        BY <2>9, <3>a, <3>1 DEF Cleanup, Innermost
      <4>3. \A s \in Run \ {r} : MustHold(s) => fence'[TrustPlace] = s
        BY <3>1, <4>2, <1>a, TrustKept
      <4>4. ASSUME MustHold(r)' PROVE fence'[TrustPlace] = r
        <5>1. held[r] > Trust
          BY <4>4, <2>9, <3>a, <3>1, <1>a, <2>e DEF Cleanup, MustHold
        <5>2. PlaceOf(r, held[r]) # TrustPlace
          BY <5>1, <3>1, PlaceFacts
        <5>. QED
          BY <5>2, <4>2, <3>1, <1>a, PlaceFacts DEF SetFence, TypeOK
      <4>. QED  BY <2>c, <4>3, <4>4, LockByRun
    <3>b. CASE UNCHANGED fence
      BY <3>b, <3>1, <1>a, <2>c, <2>d, LockByRun DEF TrustPlace
    <3>. QED  BY <2>9, <3>a, <3>b DEF Cleanup
  <2>10. CASE GiveUp(r)
    <3>1. UNCHANGED fence
      BY <2>10 DEF GiveUp
    <3>2. MustHold(r)' => MustHold(r)
      BY <2>10, <1>a, <2>e DEF GiveUp, MustHold
    <3>. QED  BY <3>1, <3>2, <1>a, <2>c, <2>d, LockByRun
  <2>11. CASE Validate(r)
    <3>1. UNCHANGED fence
      BY <2>11 DEF Validate
    <3>2. MustHold(r)' => MustHold(r)
      BY <2>11, <1>a, <2>e DEF Validate, MustHold
    <3>. QED  BY <3>1, <3>2, <1>a, <2>c, <2>d, LockByRun
  <2>12. CASE ValidateFails(r)
    <3>1. UNCHANGED fence
      BY <2>12 DEF ValidateFails
    <3>2. MustHold(r)' => MustHold(r)
      BY <2>12, <1>a, <2>e DEF ValidateFails, MustHold
    <3>. QED  BY <3>1, <3>2, <1>a, <2>c, <2>d, LockByRun
  <2>. QED
    BY <1>1, <2>1, <2>2, <2>3, <2>4, <2>5, <2>6, <2>7, <2>8, <2>9, <2>10, <2>11, <2>12 DEF Acquiring
<1>2. ASSUME NEW r \in Run, Cycling(r)
      PROVE  LockInv'
  <2>. USE DEF disk, local, past, used, At, Goto, Held, Half, Fault, NoFault,
         Stop, Level, Root, Trust, Phase, Exclusive, Creating, Labels,
         NoTrustSyncFailure
  <2>c. Alone(r)
    BY <1>2, StepAlone
  <2>d. UNCHANGED fence => \A s \in Run \ {r} : MustHold(s) => fence'[TrustPlace] = s
    BY <1>a DEF TrustPlace
  <2>e. /\ pc \in [Run -> Labels] /\ held \in [Run -> 0..4]
       /\ half \in [Run -> BOOLEAN]
    BY DEF TypeOK
  <2>1. CASE Bind(r)
    <3>1. UNCHANGED fence
      BY <2>1 DEF Bind
    <3>2. MustHold(r)' => MustHold(r)
      BY <2>1, <1>a, <2>e DEF Bind, MustHold
    <3>. QED  BY <3>1, <3>2, <1>a, <2>c, <2>d, LockByRun
  <2>2. CASE BindFails(r)
    <3>1. UNCHANGED fence
      BY <2>2 DEF BindFails
    <3>2. MustHold(r)' => MustHold(r)
      BY <2>2, <1>a, <2>e DEF BindFails, MustHold
    <3>. QED  BY <3>1, <3>2, <1>a, <2>c, <2>d, LockByRun
  <2>3. CASE AppendEvent(r)
    <3>1. UNCHANGED fence
      BY <2>3 DEF AppendEvent
    <3>2. MustHold(r)' => MustHold(r)
      BY <2>3, <1>a, <2>e DEF AppendEvent, MustHold, MayAppend
    <3>. QED  BY <3>1, <3>2, <1>a, <2>c, <2>d, LockByRun
  <2>4. CASE Abandon(r)
    <3>1. UNCHANGED fence
      BY <2>4 DEF Abandon
    <3>2. MustHold(r)' => MustHold(r)
      BY <2>4, <1>a, <2>e DEF Abandon, MustHold
    <3>. QED  BY <3>1, <3>2, <1>a, <2>c, <2>d, LockByRun
  <2>5. CASE Finish(r)
    <3>1. UNCHANGED fence
      BY <2>5 DEF Finish
    <3>2. MustHold(r)' => MustHold(r)
      BY <2>5, <1>a, <2>e DEF Finish, MustHold
    <3>. QED  BY <3>1, <3>2, <1>a, <2>c, <2>d, LockByRun
  <2>. QED
    BY <1>2, <2>1, <2>2, <2>3, <2>4, <2>5 DEF Cycling
<1>3. ASSUME NEW r \in Run, Releasing(r)
      PROVE  LockInv'
  <2>. USE DEF disk, local, past, used, At, Goto, Held, Half, Fault, NoFault,
         Stop, Level, Root, Trust, Phase, Exclusive, Creating, Labels,
         NoTrustSyncFailure
  <2>c. Alone(r)
    BY <1>3, StepAlone
  <2>d. UNCHANGED fence => \A s \in Run \ {r} : MustHold(s) => fence'[TrustPlace] = s
    BY <1>a DEF TrustPlace
  <2>e. /\ pc \in [Run -> Labels] /\ held \in [Run -> 0..4]
       /\ half \in [Run -> BOOLEAN]
    BY DEF TypeOK
  <2>1. CASE Verify(r)
    <3>1. UNCHANGED fence
      BY <2>1 DEF Verify
    <3>2. MustHold(r)' => MustHold(r)
      BY <2>1, <1>a, <2>e DEF Verify, MustHold
    <3>. QED  BY <3>1, <3>2, <1>a, <2>c, <2>d, LockByRun
  <2>2. CASE Unlink(r)
    <3>1. held[r] \in Level /\ MustHold(r)
      BY <2>2, <1>a, <2>e DEF Unlink, MustHold
    <3>2. SetFence(PlaceOf(r, held[r]), Nobody)
      BY <2>2, <3>1 DEF Unlink, Innermost
    <3>3. \A s \in Run \ {r} : MustHold(s) => fence'[TrustPlace] = s
      BY <3>1, <3>2, <1>a, TrustKept
    <3>4. ASSUME MustHold(r)' PROVE fence'[TrustPlace] = r
      <4>1. held[r] > Trust
        BY <3>4, <2>2, <3>1, <1>a, <2>e DEF Unlink, MustHold
      <4>2. PlaceOf(r, held[r]) # TrustPlace
        BY <4>1, <3>1, PlaceFacts
      <4>. QED
        BY <4>2, <3>2, <3>1, <1>a, PlaceFacts DEF SetFence, TypeOK
    <3>. QED  BY <2>c, <3>3, <3>4, LockByRun
  <2>3. CASE Sync(r)
    <3>1. UNCHANGED fence
      BY <2>3 DEF Sync
    <3>2. MustHold(r)' => MustHold(r)
      BY <2>3, <1>a, <2>e DEF Sync, MustHold
    <3>. QED  BY <3>1, <3>2, <1>a, <2>c, <2>d, LockByRun
  <2>4. CASE ReleaseFails(r)
    <3>1. UNCHANGED fence
      BY <2>4 DEF ReleaseFails
    <3>2. MustHold(r)' => MustHold(r)
      BY <2>4, <1>a, <2>e DEF ReleaseFails, MustHold
    <3>. QED  BY <3>1, <3>2, <1>a, <2>c, <2>d, LockByRun
  <2>. QED
    BY <1>3, <2>1, <2>2, <2>3, <2>4 DEF Releasing
<1>4. ASSUME NEW r \in Run, Crash(r)
      PROVE  LockInv'
  <2>1. Alone(r)
    BY <1>4, StepAlone
  <2>2. MustHold(r)' => MustHold(r)
    BY <1>4, <1>a DEF Crash, MustHold, Admitted, PastRelease, Goto, local, Phase,
         Creating, Exclusive, Labels, Root, Trust, TypeOK
  <2>. QED  BY <1>4, <1>a, <2>1, <2>2, LockByRun DEF Crash, disk, TrustPlace
<1>5. CASE Swap \/ Rollback \/ UNCHANGED vars
  BY <1>5 DEF Swap, Rollback, vars, disk, local, past, used, LockInv, MustHold,
       TrustPlace
<1>6. CASE Reconcile
  <2>1. \A s \in Run : ~MustHold(s)'
    BY <1>6, <1>a DEF Reconcile, Live, Ended, MustHold, Creating, Exclusive,
         local, used
  <2>. QED  BY <1>6, <2>1 DEF LockInv, Reconcile
<1>. QED
  BY <1>1, <1>2, <1>3, <1>4, <1>5, <1>6 DEF Next

LEMMA AdmittedHolds ==
    ASSUME TypeOK, PhaseInv, NEW r \in Run, Admitted(r)
    PROVE  MustHold(r)
  BY DEF PhaseInv, Phase, MustHold, Admitted, PastRelease, TypeOK, Exclusive,
       Root, Trust

(* The invariant behind both theorems: it is LockInv that makes admission  *)
(* exclusive, and LockInv needs the created flags to be exact (PhaseInv).  *)
LEMMA LockAlways ==
    ASSUME NoTrustSyncFailure
    PROVE  Spec => [](TypeOK /\ PhaseInv /\ LockInv)
<1>1. Init => TypeOK /\ PhaseInv /\ LockInv
  BY InitTyped DEF Init, LockInv, MustHold
<1>2. TypeOK /\ PhaseInv /\ LockInv /\ [Next]_vars
      => TypeOK' /\ PhaseInv' /\ LockInv'
  BY TypedStep, LockStep
<1>. QED  BY <1>1, <1>2, PTL DEF Spec

(* No two runs are past admission, when no directory sync fails after the  *)
(* trust fence was unlinked.                                               *)
THEOREM MutualExclusion ==
    ASSUME NoTrustSyncFailure
    PROVE  Spec => []RunMutualExclusion
<1>1. TypeOK /\ PhaseInv /\ LockInv => RunMutualExclusion
  BY AdmittedHolds DEF LockInv, RunMutualExclusion
<1>. QED  BY <1>1, LockAlways, PTL

(* After a run that ended unsettled nobody is admitted, under the same     *)
(* assumption.                                                             *)
THEOREM FailsClosed ==
    ASSUME NoTrustSyncFailure
    PROVE  Spec => []FailClosed
<1>1. TypeOK /\ PhaseInv /\ LockInv => FailClosed
  <2>. SUFFICES ASSUME TypeOK, PhaseInv, LockInv, NEW u \in unresolved,
                       NEW r \in Run, Admitted(r)
                PROVE  FALSE
    BY DEF FailClosed
  <2>1. fence[TrustPlace] = u /\ pc[u] = "stopped"
    BY DEF LockInv, MustHold, TypeOK
  <2>2. MustHold(r)
    BY AdmittedHolds
  <2>3. r = u
    BY <2>1, <2>2 DEF LockInv
  <2>. QED  BY <2>1, <2>3 DEF Admitted
<1>. QED  BY <1>1, LockAlways, PTL

-----------------------------------------------------------------------------
(* The fences of refused and released runs. *)

LEMMA KnownFacts ==
    ASSUME TypeOK, NEW r \in Run
    PROVE  /\ held[r] = 0 => Known(r) = {}
           /\ \A p \in Known(r) : \E l \in Level : p = PlaceOf(r, l) /\ l <= held[r]
           /\ \A l \in Level : l <= held[r] => PlaceOf(r, l) \in Known(r)
  BY DEF Known, TypeOK, Level, Trust, Root

(* What is left to show of a step of run r: that it names only itself in   *)
(* fences, and that its own fences stay accounted for.                     *)
LEMMA CleanByRun ==
    ASSUME TypeOK, CleanInv, NEW r \in Run, Alone(r),
           \A s \in Run \ {r} : pinned'[s] = pinned[s],
           \A p \in Place : fence'[p] = fence[p] \/ fence'[p] \in {r, Nobody},
           Accounted(r)'
    PROVE  CleanInv'
<1>1. ASSUME NEW s \in Run \ {r} PROVE Accounted(s)'
  <2>1. Known(s)' = Known(s) /\ Innermost(s)' = Innermost(s)
    BY DEF Alone, Known, Innermost, PlaceOf
  <2>2. \A p \in Place : fence'[p] = s => fence[p] = s
    BY RunAssumption
  <2>. QED  BY <2>1, <2>2 DEF Accounted, CleanInv, Alone
<1>. QED  BY <1>1 DEF CleanInv

LEMMA CleanStep ==
    ASSUME TypeOK, TypeOK', PhaseInv, CleanInv, [Next]_vars
    PROVE  CleanInv'
<1>a. ASSUME NEW r \in Run
      PROVE  /\ pc[r] \in Labels /\ held[r] \in 0..4 /\ half[r] \in BOOLEAN
             /\ Phase(r) /\ Accounted(r)
  BY DEF TypeOK, PhaseInv, CleanInv, Root
<1>b. /\ pc \in [Run -> Labels] /\ held \in [Run -> 0..4]
      /\ half \in [Run -> BOOLEAN] /\ fence \in [Place -> Run \cup {Nobody}]
  BY DEF TypeOK, Root
<1>1. ASSUME NEW r \in Run, Acquiring(r)
      PROVE  CleanInv'
  <2>. USE DEF disk, local, past, used, At, Goto, SetFence, Held, Half, Stop,
         Level, Root, Trust, Phase, Exclusive
  <2>c. Alone(r)
    BY <1>1, StepAlone
  <2>1. CASE Open(r)
    <3>1. UNCHANGED fence /\ \A p \in Place : fence[p] # r
      BY <2>1, <1>a, KnownFacts DEF Open, Accounted
    <3>2. \A s \in Run \ {r} : pinned'[s] = pinned[s]
      BY <2>1 DEF Open, TypeOK
    <3>3. Accounted(r)'
      BY <3>1 DEF Accounted
    <3>. QED  BY <3>1, <3>2, <3>3, <2>c, CleanByRun
  <2>2. CASE Create(r)
    <3>1. \A p \in Place : fence'[p] = fence[p] \/ fence'[p] \in {r, Nobody}
      BY <2>2, <1>b DEF Create, NextPlace
    <3>2. \A s \in Run \ {r} : pinned'[s] = pinned[s]
      BY <2>2 DEF Create, TypeOK
    <3>3. held[r] + 1 \in Level /\ held'[r] = held[r] + 1 /\ ~half'[r]
      BY <2>2, <1>a, <1>b DEF Create
    <3>4. \A l \in Level : PlaceOf(r, l)' = PlaceOf(r, l)
      BY <2>2 DEF Create, PlaceOf
    <3>5. ASSUME NEW p \in Place, fence'[p] = r PROVE p \in Known(r)'
      <4>1. CASE p = PlaceOf(r, held[r] + 1)
        BY <4>1, <3>3, <3>4 DEF Known
      <4>2. CASE p # PlaceOf(r, held[r] + 1)
        <5>1. fence[p] = r
          BY <4>2, <3>5, <2>2, <1>b DEF Create, NextPlace
        <5>2. p \in Known(r)
          BY <5>1, <2>2, <1>a DEF Create, Accounted
        <5>3. PICK l \in Level : p = PlaceOf(r, l) /\ l <= held[r]
          BY <5>2, KnownFacts
        <5>4. l <= held'[r]
          BY <5>3, <3>3, <1>a
        <5>. QED  BY <5>3, <5>4, <3>4 DEF Known
      <4>. QED  BY <4>1, <4>2
    <3>6. Accounted(r)'
      BY <3>3, <3>5 DEF Accounted
    <3>. QED  BY <3>1, <3>2, <3>6, <2>c, CleanByRun
  <2>3. CASE Exists(r)
    <3>1. \A p \in Place : fence'[p] = fence[p] \/ fence'[p] \in {r, Nobody}
      BY <2>3, <1>b DEF Exists
    <3>2. \A s \in Run \ {r} : pinned'[s] = pinned[s]
      BY <2>3 DEF Exists, TypeOK
    <3>3. Known(r)' = Known(r) /\ Innermost(r)' = Innermost(r)
      BY <2>3 DEF Exists, Known, Innermost, PlaceOf
    <3>4. Accounted(r)'
      BY <2>3, <3>3, <1>a, <1>b DEF Exists, Accounted, Exclusive
    <3>. QED  BY <3>1, <3>2, <3>4, <2>c, CleanByRun
  <2>4. CASE CreateFails(r)
    <3>1. \A p \in Place : fence'[p] = fence[p] \/ fence'[p] \in {r, Nobody}
      BY <2>4, <1>b DEF CreateFails, NextPlace
    <3>2. \A s \in Run \ {r} : pinned'[s] = pinned[s]
      BY <2>4 DEF CreateFails, TypeOK
    <3>3. pc'[r] \in {"cleanup", "error", "stopped"}
      BY <2>4, <1>b DEF CreateFails
    <3>4. Accounted(r)'
      BY <3>3 DEF Accounted, Exclusive
    <3>. QED  BY <3>1, <3>2, <3>4, <2>c, CleanByRun
  <2>5. CASE UndoUnlink(r)
    <3>1. \A p \in Place : fence'[p] = fence[p] \/ fence'[p] \in {r, Nobody}
      BY <2>5, <1>b DEF UndoUnlink, Innermost
    <3>2. \A s \in Run \ {r} : pinned'[s] = pinned[s]
      BY <2>5 DEF UndoUnlink, TypeOK
    <3>3. Known(r)' = Known(r) /\ Innermost(r)' = Innermost(r)
      BY <2>5 DEF UndoUnlink, Known, Innermost, PlaceOf
    <3>4. held[r] \in Level
      BY <2>5, <1>a DEF UndoUnlink, TakenBack
    <3>5. fence'[Innermost(r)] = Nobody
      BY <2>5, <3>4, <1>b, PlaceFacts DEF UndoUnlink, Innermost
    <3>6. \A p \in Place : fence'[p] = r => fence[p] = r /\ p # Innermost(r)
      BY <2>5, <3>5, <1>b, RunAssumption DEF UndoUnlink
    <3>7. \A p \in Place : fence[p] = r => p \in Known(r)
      BY <2>5, <1>a DEF UndoUnlink, Accounted
    <3>8. Accounted(r)'
      BY <3>3, <3>6, <3>7 DEF Accounted
    <3>. QED  BY <3>1, <3>2, <3>8, <2>c, CleanByRun
  <2>6. CASE UndoSync(r)
    <3>1. \A p \in Place : fence'[p] = fence[p] \/ fence'[p] \in {r, Nobody}
      BY <2>6, <1>b DEF UndoSync
    <3>2. \A s \in Run \ {r} : pinned'[s] = pinned[s]
      BY <2>6 DEF UndoSync, TypeOK
    <3>3. held[r] \in Level /\ held'[r] = held[r] - 1 /\ half'[r] = FALSE
      BY <2>6, <1>a, <1>b DEF UndoSync
    <3>4. \A l \in Level : PlaceOf(r, l)' = PlaceOf(r, l)
      BY <2>6 DEF UndoSync, PlaceOf
    <3>5. ASSUME NEW p \in Place, fence'[p] = r PROVE p \in Known(r)'
      <4>1. p \in Known(r) /\ p # PlaceOf(r, held[r])
        BY <3>5, <2>6, <1>a DEF UndoSync, Accounted, Innermost
      <4>2. PICK l \in Level : p = PlaceOf(r, l) /\ l <= held[r] /\ l # held[r]
        BY <4>1, KnownFacts
      <4>3. l <= held'[r]
        BY <4>2, <3>3
      <4>. QED  BY <4>2, <4>3, <3>4 DEF Known
    <3>6. Accounted(r)'
      BY <3>3, <3>5 DEF Accounted
    <3>. QED  BY <3>1, <3>2, <3>6, <2>c, CleanByRun
  <2>7. CASE UndoFails(r)
    <3>1. \A p \in Place : fence'[p] = fence[p] \/ fence'[p] \in {r, Nobody}
      BY <2>7, <1>b DEF UndoFails
    <3>2. \A s \in Run \ {r} : pinned'[s] = pinned[s]
      BY <2>7 DEF UndoFails, TypeOK
    <3>3. pc'[r] \in {"cleanup", "error", "stopped"}
      BY <2>7, <1>b DEF UndoFails
    <3>4. Accounted(r)'
      BY <3>3 DEF Accounted, Exclusive
    <3>. QED  BY <3>1, <3>2, <3>4, <2>c, CleanByRun
  <2>8. CASE Refuse(r)
    <3>1. \A p \in Place : fence'[p] = fence[p] \/ fence'[p] \in {r, Nobody}
      BY <2>8, <1>b DEF Refuse
    <3>2. \A s \in Run \ {r} : pinned'[s] = pinned[s]
      BY <2>8 DEF Refuse, TypeOK
    <3>3. Known(r)' = Known(r) /\ Innermost(r)' = Innermost(r)
      BY <2>8 DEF Refuse, Known, Innermost, PlaceOf
    <3>4. Accounted(r)'
      BY <2>8, <3>3, <1>a, <1>b DEF Refuse, Accounted, Exclusive
    <3>. QED  BY <3>1, <3>2, <3>4, <2>c, CleanByRun
  <2>9. CASE Cleanup(r)
    <3>1. \A p \in Place : fence'[p] = fence[p] \/ fence'[p] \in {r, Nobody}
      BY <2>9, <1>b DEF Cleanup, Innermost
    <3>2. \A s \in Run \ {r} : pinned'[s] = pinned[s]
      BY <2>9 DEF Cleanup, TypeOK
    <3>3. pc'[r] \in {"cleanup", "error", "stopped"}
      BY <2>9, <1>b DEF Cleanup
    <3>4. Accounted(r)'
      BY <3>3 DEF Accounted, Exclusive
    <3>. QED  BY <3>1, <3>2, <3>4, <2>c, CleanByRun
  <2>10. CASE GiveUp(r)
    <3>1. \A p \in Place : fence'[p] = fence[p] \/ fence'[p] \in {r, Nobody}
      BY <2>10, <1>b DEF GiveUp
    <3>2. \A s \in Run \ {r} : pinned'[s] = pinned[s]
      BY <2>10 DEF GiveUp, TypeOK
    <3>3. pc'[r] \in {"cleanup", "error", "stopped"}
      BY <2>10, <1>b DEF GiveUp
    <3>4. Accounted(r)'
      BY <3>3 DEF Accounted, Exclusive
    <3>. QED  BY <3>1, <3>2, <3>4, <2>c, CleanByRun
  <2>11. CASE Validate(r)
    <3>1. \A p \in Place : fence'[p] = fence[p] \/ fence'[p] \in {r, Nobody}
      BY <2>11, <1>b DEF Validate
    <3>2. \A s \in Run \ {r} : pinned'[s] = pinned[s]
      BY <2>11 DEF Validate, TypeOK
    <3>3. Known(r)' = Known(r) /\ Innermost(r)' = Innermost(r)
      BY <2>11 DEF Validate, Known, Innermost, PlaceOf
    <3>4. Accounted(r)'
      BY <2>11, <3>3, <1>a, <1>b DEF Validate, Accounted, Exclusive
    <3>. QED  BY <3>1, <3>2, <3>4, <2>c, CleanByRun
  <2>12. CASE ValidateFails(r)
    <3>1. \A p \in Place : fence'[p] = fence[p] \/ fence'[p] \in {r, Nobody}
      BY <2>12, <1>b DEF ValidateFails
    <3>2. \A s \in Run \ {r} : pinned'[s] = pinned[s]
      BY <2>12 DEF ValidateFails, TypeOK
    <3>3. pc'[r] \in {"cleanup", "error", "stopped"}
      BY <2>12, <1>b DEF ValidateFails
    <3>4. Accounted(r)'
      BY <3>3 DEF Accounted, Exclusive
    <3>. QED  BY <3>1, <3>2, <3>4, <2>c, CleanByRun
  <2>. QED
    BY <1>1, <2>1, <2>2, <2>3, <2>4, <2>5, <2>6, <2>7, <2>8, <2>9, <2>10, <2>11, <2>12 DEF Acquiring
<1>2. ASSUME NEW r \in Run, Cycling(r)
      PROVE  CleanInv'
  <2>. USE DEF disk, local, past, used, At, Goto, SetFence, Held, Half, Stop,
         Level, Root, Trust, Phase, Exclusive
  <2>c. Alone(r)
    BY <1>2, StepAlone
  <2>1. CASE Bind(r)
    <3>1. \A p \in Place : fence'[p] = fence[p] \/ fence'[p] \in {r, Nobody}
      BY <2>1, <1>b DEF Bind
    <3>2. \A s \in Run \ {r} : pinned'[s] = pinned[s]
      BY <2>1 DEF Bind, TypeOK
    <3>3. Known(r)' = Known(r) /\ Innermost(r)' = Innermost(r)
      BY <2>1 DEF Bind, Known, Innermost, PlaceOf
    <3>4. Accounted(r)'
      BY <2>1, <3>3, <1>a, <1>b DEF Bind, Accounted, Exclusive
    <3>. QED  BY <3>1, <3>2, <3>4, <2>c, CleanByRun
  <2>2. CASE BindFails(r)
    <3>1. \A p \in Place : fence'[p] = fence[p] \/ fence'[p] \in {r, Nobody}
      BY <2>2, <1>b DEF BindFails
    <3>2. \A s \in Run \ {r} : pinned'[s] = pinned[s]
      BY <2>2 DEF BindFails, TypeOK
    <3>3. pc'[r] \in {"cleanup", "error", "stopped"}
      BY <2>2, <1>b DEF BindFails
    <3>4. Accounted(r)'
      BY <3>3 DEF Accounted, Exclusive
    <3>. QED  BY <3>1, <3>2, <3>4, <2>c, CleanByRun
  <2>3. CASE AppendEvent(r)
    <3>1. \A p \in Place : fence'[p] = fence[p] \/ fence'[p] \in {r, Nobody}
      BY <2>3, <1>b DEF AppendEvent
    <3>2. \A s \in Run \ {r} : pinned'[s] = pinned[s]
      BY <2>3 DEF AppendEvent, TypeOK
    <3>3. Known(r)' = Known(r) /\ Innermost(r)' = Innermost(r)
      BY <2>3 DEF AppendEvent, Known, Innermost, PlaceOf
    <3>4. Accounted(r)'
      BY <2>3, <3>3, <1>a, <1>b DEF AppendEvent, Accounted, Exclusive
    <3>. QED  BY <3>1, <3>2, <3>4, <2>c, CleanByRun
  <2>4. CASE Abandon(r)
    <3>1. \A p \in Place : fence'[p] = fence[p] \/ fence'[p] \in {r, Nobody}
      BY <2>4, <1>b DEF Abandon
    <3>2. \A s \in Run \ {r} : pinned'[s] = pinned[s]
      BY <2>4 DEF Abandon, TypeOK
    <3>3. pc'[r] \in {"cleanup", "error", "stopped"}
      BY <2>4, <1>b DEF Abandon
    <3>4. Accounted(r)'
      BY <3>3 DEF Accounted, Exclusive
    <3>. QED  BY <3>1, <3>2, <3>4, <2>c, CleanByRun
  <2>5. CASE Finish(r)
    <3>1. \A p \in Place : fence'[p] = fence[p] \/ fence'[p] \in {r, Nobody}
      BY <2>5, <1>b DEF Finish
    <3>2. \A s \in Run \ {r} : pinned'[s] = pinned[s]
      BY <2>5 DEF Finish, TypeOK
    <3>3. Known(r)' = Known(r) /\ Innermost(r)' = Innermost(r)
      BY <2>5 DEF Finish, Known, Innermost, PlaceOf
    <3>4. Accounted(r)'
      BY <2>5, <3>3, <1>a, <1>b DEF Finish, Accounted, Exclusive
    <3>. QED  BY <3>1, <3>2, <3>4, <2>c, CleanByRun
  <2>. QED
    BY <1>2, <2>1, <2>2, <2>3, <2>4, <2>5 DEF Cycling
<1>3. ASSUME NEW r \in Run, Releasing(r)
      PROVE  CleanInv'
  <2>. USE DEF disk, local, past, used, At, Goto, SetFence, Held, Half, Stop,
         Level, Root, Trust, Phase, Exclusive
  <2>c. Alone(r)
    BY <1>3, StepAlone
  <2>1. CASE Verify(r)
    <3>1. \A p \in Place : fence'[p] = fence[p] \/ fence'[p] \in {r, Nobody}
      BY <2>1, <1>b DEF Verify
    <3>2. \A s \in Run \ {r} : pinned'[s] = pinned[s]
      BY <2>1 DEF Verify, TypeOK
    <3>3. Known(r)' = Known(r) /\ Innermost(r)' = Innermost(r)
      BY <2>1 DEF Verify, Known, Innermost, PlaceOf
    <3>4. Accounted(r)'
      BY <2>1, <3>3, <1>a, <1>b DEF Verify, Accounted, Exclusive
    <3>. QED  BY <3>1, <3>2, <3>4, <2>c, CleanByRun
  <2>2. CASE Unlink(r)
    <3>1. \A p \in Place : fence'[p] = fence[p] \/ fence'[p] \in {r, Nobody}
      BY <2>2, <1>b DEF Unlink, Innermost
    <3>2. \A s \in Run \ {r} : pinned'[s] = pinned[s]
      BY <2>2 DEF Unlink, TypeOK
    <3>3. Known(r)' = Known(r) /\ Innermost(r)' = Innermost(r)
      BY <2>2 DEF Unlink, Known, Innermost, PlaceOf
    <3>4. held[r] \in Level
      BY <2>2, <1>a DEF Unlink
    <3>5. fence'[Innermost(r)] = Nobody
      BY <2>2, <3>4, <1>b, PlaceFacts DEF Unlink, Innermost
    <3>6. \A p \in Place : fence'[p] = r => fence[p] = r /\ p # Innermost(r)
      BY <2>2, <3>5, <1>b, RunAssumption DEF Unlink
    <3>7. \A p \in Place : fence[p] = r => p \in Known(r)
      BY <2>2, <1>a DEF Unlink, Accounted
    <3>8. Accounted(r)'
      BY <3>3, <3>6, <3>7 DEF Accounted
    <3>. QED  BY <3>1, <3>2, <3>8, <2>c, CleanByRun
  <2>3. CASE Sync(r)
    <3>1. \A p \in Place : fence'[p] = fence[p] \/ fence'[p] \in {r, Nobody}
      BY <2>3, <1>b DEF Sync
    <3>2. \A s \in Run \ {r} : pinned'[s] = pinned[s]
      BY <2>3 DEF Sync, TypeOK
    <3>3. held[r] \in Level /\ held'[r] = held[r] - 1 /\ half'[r] = FALSE
      BY <2>3, <1>a, <1>b DEF Sync
    <3>4. \A l \in Level : PlaceOf(r, l)' = PlaceOf(r, l)
      BY <2>3 DEF Sync, PlaceOf
    <3>5. ASSUME NEW p \in Place, fence'[p] = r PROVE p \in Known(r)'
      <4>1. p \in Known(r) /\ p # PlaceOf(r, held[r])
        BY <3>5, <2>3, <1>a DEF Sync, Accounted, Innermost
      <4>2. PICK l \in Level : p = PlaceOf(r, l) /\ l <= held[r] /\ l # held[r]
        BY <4>1, KnownFacts
      <4>3. l <= held'[r]
        BY <4>2, <3>3
      <4>. QED  BY <4>2, <4>3, <3>4 DEF Known
    <3>6. Accounted(r)'
      BY <3>3, <3>5 DEF Accounted
    <3>. QED  BY <3>1, <3>2, <3>6, <2>c, CleanByRun
  <2>4. CASE ReleaseFails(r)
    <3>1. \A p \in Place : fence'[p] = fence[p] \/ fence'[p] \in {r, Nobody}
      BY <2>4, <1>b DEF ReleaseFails
    <3>2. \A s \in Run \ {r} : pinned'[s] = pinned[s]
      BY <2>4 DEF ReleaseFails, TypeOK
    <3>3. pc'[r] \in {"cleanup", "error", "stopped"}
      BY <2>4, <1>b DEF ReleaseFails
    <3>4. Accounted(r)'
      BY <3>3 DEF Accounted, Exclusive
    <3>. QED  BY <3>1, <3>2, <3>4, <2>c, CleanByRun
  <2>. QED
    BY <1>3, <2>1, <2>2, <2>3, <2>4 DEF Releasing
<1>4. ASSUME NEW r \in Run, Crash(r)
      PROVE  CleanInv'
  <2>1. Alone(r)
    BY <1>4, StepAlone
  <2>2. pc'[r] = "stopped" /\ UNCHANGED <<fence, pinned>>
    BY <1>4, <1>b DEF Crash, Goto, disk, local
  <2>3. Accounted(r)'
    BY <2>2 DEF Accounted, Exclusive
  <2>. QED  BY <2>1, <2>2, <2>3, CleanByRun
<1>5. CASE Swap \/ Rollback \/ UNCHANGED vars
  BY <1>5 DEF Swap, Rollback, vars, disk, local, past, used, CleanInv,
       Accounted, Known, Innermost, PlaceOf
<1>6. CASE Reconcile
  <2>1. \A p \in Place : fence'[p] = Nobody
    BY <1>6 DEF Reconcile
  <2>. QED  BY <2>1, RunAssumption DEF CleanInv, Accounted
<1>. QED
  BY <1>1, <1>2, <1>3, <1>4, <1>5, <1>6 DEF Next

(* A refused or released run leaves no fence of its own behind, whatever   *)
(* fails in the others.                                                    *)
THEOREM CleanExits == Spec => []CleanExit
<1>1. Init => TypeOK /\ PhaseInv /\ CleanInv
  BY InitTyped, RunAssumption DEF Init, CleanInv, Accounted
<1>2. TypeOK /\ PhaseInv /\ CleanInv /\ [Next]_vars
      => TypeOK' /\ PhaseInv' /\ CleanInv'
  BY TypedStep, CleanStep
<1>3. TypeOK /\ PhaseInv /\ CleanInv => CleanExit
  <2>. SUFFICES ASSUME TypeOK, PhaseInv, CleanInv, NEW r \in Run,
                       pc[r] \in {"refused", "released"}
                PROVE  \A p \in Place : fence[p] # r
    BY DEF CleanExit
  <2>1. Known(r) = {}
    BY KnownFacts DEF PhaseInv, Phase
  <2>. QED  BY <2>1 DEF CleanInv, Accounted
<1>. QED  BY <1>1, <1>2, <1>3, PTL DEF Spec

-----------------------------------------------------------------------------
(* What has been spent: prefixes of ledgers first.                         *)
LEMMA PrefixByElements ==
    ASSUME NEW s \in Seq(Run), NEW t \in Seq(Run)
    PROVE  IsPrefix(s, t) <=> /\ Len(s) <= Len(t)
                              /\ \A i \in 1..Len(s) : s[i] = t[i]
<1>1. ASSUME Len(s) <= Len(t)
      PROVE  /\ Len(SubSeq(s, 1, Len(s))) = Len(s)
             /\ Len(SubSeq(t, 1, Len(s))) = Len(s)
             /\ SubSeq(s, 1, Len(s)) \in Seq(Run)
             /\ SubSeq(t, 1, Len(s)) \in Seq(Run)
             /\ \A i \in 1..Len(s) : /\ SubSeq(s, 1, Len(s))[i] = s[i]
                                     /\ SubSeq(t, 1, Len(s))[i] = t[i]
  BY <1>1
<1>. QED  BY <1>1, SeqEqual DEF IsPrefix

LEMMA PrefixFacts ==
    ASSUME NEW s \in Seq(Run), NEW t \in Seq(Run)
    PROVE  /\ IsPrefix(<<>>, s)
           /\ IsPrefix(s, s)
           /\ \A r \in Run : IsPrefix(s, t) => IsPrefix(s, Append(t, r))
           /\ \A u \in Seq(Run) :
                 IsPrefix(s, t) /\ IsPrefix(t, u) => IsPrefix(s, u)
           /\ IsPrefix(s, t) /\ ~(Len(t) > Len(s)) => s = t
<1>1. IsPrefix(<<>>, s)
  <2>1. <<>> \in Seq(Run) /\ Len(<<>>) = 0 /\ Len(s) \in Nat
    OBVIOUS
  <2>. QED  BY <2>1 DEF IsPrefix
<1>2. IsPrefix(s, s)
  BY PrefixByElements
<1>3. ASSUME NEW r \in Run, IsPrefix(s, t) PROVE IsPrefix(s, Append(t, r))
  <2>. DEFINE u == Append(t, r)
  <2>1. /\ u \in Seq(Run) /\ Len(u) = Len(t) + 1
        /\ \A i \in 1..Len(t) : u[i] = t[i]
    OBVIOUS
  <2>. HIDE DEF u
  <2>2. IsPrefix(s, u)
    BY <2>1, <1>3, PrefixByElements
  <2>. QED  BY <2>2 DEF u
<1>4. ASSUME NEW u \in Seq(Run), IsPrefix(s, t), IsPrefix(t, u)
      PROVE  IsPrefix(s, u)
  BY <1>4, PrefixByElements
<1>5. ASSUME IsPrefix(s, t), ~(Len(t) > Len(s)) PROVE s = t
  <2>1. Len(s) = Len(t) /\ \A i \in 1..Len(s) : s[i] = t[i]
    BY <1>5, PrefixByElements
  <2>. QED  BY <2>1, SeqEqual
<1>. QED  BY <1>1, <1>2, <1>3, <1>4, <1>5

(* What a run may count on: while it works, the spent prefix; from its     *)
(* second binding on, that the anchor is the ledger it will settle.        *)
Remembers(r) ==
    /\ pinned[r] <= path
    /\ pc[r] = "working" /\ path = pinned[r] => IsPrefix(settled, ledger[path])
    /\ pc[r] = "verify" =>
          /\ anchor.bound /\ pinned[r] <= anchor.base
          /\ anchor.entries = ledger[anchor.base]
    /\ pc[r] = "release" /\ ~PastRelease(r) =>
          anchor.bound /\ anchor.entries = ledger[pinned[r]]

SpentInv ==
    /\ anchor.bound => anchor.base <= path
    /\ IF anchor.bound THEN IsPrefix(settled, anchor.entries)
       ELSE settled = <<>>
    /\ \A r \in Run : Remembers(r)

(* Past the last fence and before the release only one run is there.       *)
Engaged(r) == pc[r] \in Exclusive \/ Admitted(r)

LEMMA OneEngaged ==
    ASSUME TypeOK, PhaseInv, LockInv, NEW r \in Run, NEW s \in Run,
           Engaged(r), Engaged(s)
    PROVE  r = s
<1>1. ASSUME NEW x \in Run, Engaged(x) PROVE MustHold(x)
  BY <1>1, AdmittedHolds
  DEF Engaged, PhaseInv, Phase, MustHold, Exclusive, Root, Trust
<1>. QED  BY <1>1 DEF LockInv

(* Whoever is not engaged counts on nothing.                               *)
LEMMA NotEngaged ==
    ASSUME NEW r, ~(pc[r] \in Exclusive \/ Admitted(r)), pinned[r] <= path
    PROVE  Remembers(r)
  BY DEF Remembers, Exclusive, Admitted, PastRelease

LEMMA SpentQuiet ==
    ASSUME TypeOK, SpentInv, NEW r \in Run, Alone(r),
           \A s \in Run \ {r} : pinned'[s] = pinned[s],
           UNCHANGED <<path, ledger, anchor, settled>>,
           Remembers(r)'
    PROVE  SpentInv'
<1>1. ASSUME NEW s \in Run \ {r} PROVE Remembers(s)'
  BY DEF SpentInv, Remembers, Alone, PastRelease
<1>. QED  BY <1>1 DEF SpentInv

LEMMA SpentEngaged ==
    ASSUME TypeOK, PhaseInv, LockInv, SpentInv, NEW r \in Run, Alone(r),
           Engaged(r), UNCHANGED <<path, pinned>>,
           Remembers(r)',
           anchor'.bound => anchor'.base <= path,
           IF anchor'.bound THEN IsPrefix(settled', anchor'.entries)
           ELSE settled' = <<>>
    PROVE  SpentInv'
<1>1. ASSUME NEW s \in Run \ {r} PROVE Remembers(s)'
  <2>1. ~Engaged(s) /\ pinned[s] <= path
    BY OneEngaged DEF SpentInv, Remembers
  <2>2. ~(pc'[s] \in Exclusive \/ Admitted(s)')
    BY <2>1 DEF Engaged, Alone, Admitted, PastRelease
  <2>. QED  BY <2>1, <2>2 DEF Remembers, Exclusive, Admitted, PastRelease
<1>. QED  BY <1>1 DEF SpentInv

LEMMA SpentStep ==
    ASSUME TypeOK, PhaseInv, LockInv, SpentInv, [Next]_vars
    PROVE  SpentInv'
<1>a. ASSUME NEW r \in Run
      PROVE  /\ Remembers(r) /\ Phase(r)
             /\ pc[r] \in Labels /\ held[r] \in 0..4 /\ half[r] \in BOOLEAN
             /\ pinned[r] \in Nat
  <2>1. Remembers(r) /\ Phase(r)
    BY DEF SpentInv, PhaseInv
  <2>2. pinned[r] \in Nat
    BY BoundAssumption DEF TypeOK, Generation
  <2>3. pc[r] \in Labels /\ held[r] \in 0..4 /\ half[r] \in BOOLEAN
    BY DEF TypeOK, Root
  <2>. QED  BY <2>1, <2>2, <2>3
<1>b. /\ path \in Generation /\ Generation \subseteq Nat
      /\ ledger \in [Generation -> Seq(Run)] /\ anchor \in Anchors
      /\ settled \in Seq(Run)
      /\ anchor.entries \in Seq(Run) /\ anchor.base \in Generation
      /\ anchor.bound \in BOOLEAN
      /\ pc \in [Run -> Labels] /\ held \in [Run -> 0..4]
      /\ half \in [Run -> BOOLEAN] /\ pinned \in [Run -> Generation]
  <2>1. Generation \subseteq Nat
    BY BoundAssumption DEF Generation
  <2>2. anchor \in Anchors
    BY DEF TypeOK
  <2>3. /\ anchor.entries \in Seq(Run) /\ anchor.base \in Generation
        /\ anchor.bound \in BOOLEAN
    BY <2>2 DEF Anchors
  <2>. QED  BY <2>1, <2>2, <2>3 DEF TypeOK, Root
<1>1. ASSUME NEW r \in Run, Acquiring(r) PROVE SpentInv'
  <2>. USE DEF disk, local, past, used, At, Goto, Held, Half
  <2>1. Alone(r)
    BY <1>1, StepAlone
  <2>2. /\ UNCHANGED <<path, ledger, anchor, settled>>
        /\ pinned' = pinned \/ pinned' = [pinned EXCEPT ![r] = path]
        /\ pc'[r] \notin {"working", "verify", "release"}
    BY <1>1, <1>b
    DEF Acquiring, Open, Create, Exists, CreateFails, UndoUnlink, UndoSync,
        UndoFails, Refuse, Cleanup, GiveUp, Validate, ValidateFails
  <2>3. pinned'[r] <= path /\ \A s \in Run \ {r} : pinned'[s] = pinned[s]
    BY <1>a, <1>b, <2>2 DEF Remembers
  <2>4. Remembers(r)'
    BY <2>2, <2>3 DEF Remembers
  <2>. QED  BY <2>1, <2>2, <2>3, <2>4, SpentQuiet
<1>2. ASSUME NEW r \in Run, Bind(r) \/ BindFails(r) PROVE SpentInv'
  <2>. USE DEF disk, local, past, used, At, Goto
  <2>1. Alone(r) /\ Engaged(r)
    BY <1>2, StepAlone DEF Cycling, Bind, BindFails, Engaged, Exclusive
  <2>2. UNCHANGED <<path, ledger, pinned, settled>>
    BY <1>2 DEF Bind, BindFails
  <2>3. anchor' = anchor \/ (AnchorAccepts(r) /\ anchor' = NextAnchor(r))
    BY <1>2 DEF Bind, BindFails
  <2>4. ASSUME AnchorAccepts(r), anchor' = NextAnchor(r)
        PROVE  /\ anchor'.bound /\ anchor'.base = path
               /\ anchor'.entries = ledger[path]
               /\ IsPrefix(settled, ledger[path])
    <3>0. ledger[path] \in Seq(Run)
      BY <1>b
    <3>1. CASE ~anchor.bound
      <4>1. settled = <<>>
        BY <3>1 DEF SpentInv
      <4>2. IsPrefix(settled, ledger[path])
        BY <4>1, <3>0, <1>b, PrefixFacts
      <4>. QED  BY <4>2, <3>1, <2>4 DEF NextAnchor, Observed
    <3>2. CASE anchor.bound
      <4>1. /\ anchor.base = path /\ IsPrefix(anchor.entries, ledger[path])
            /\ IsPrefix(settled, anchor.entries)
        BY <3>2, <2>4 DEF AnchorAccepts, SpentInv
      <4>2. IsPrefix(settled, ledger[path])
        BY <4>1, <3>0, <1>b, PrefixFacts
      <4>3. ~(Len(ledger[path]) > Len(anchor.entries))
            => anchor.entries = ledger[path]
        BY <4>1, <3>0, <1>b, PrefixFacts
      <4>. QED
        BY <4>1, <4>2, <4>3, <3>2, <2>4 DEF NextAnchor, Observed
    <3>. QED  BY <3>1, <3>2
  <2>5. /\ anchor'.bound => anchor'.base <= path
        /\ IF anchor'.bound THEN IsPrefix(settled', anchor'.entries)
           ELSE settled' = <<>>
    BY <2>2, <2>3, <2>4, <1>b DEF SpentInv
  <2>6. CASE BindFails(r)
    <3>1. pc'[r] = "stopped"
      BY <2>6, <1>b DEF BindFails, Stop
    <3>2. Remembers(r)'
      BY <3>1, <2>2, <1>a DEF Remembers
    <3>. QED  BY <3>2, <2>1, <2>2, <2>5, SpentEngaged
  <2>7. CASE Bind(r)
    <3>1. pc'[r] \in {"working", "verify"} /\ anchor' = NextAnchor(r)
          /\ AnchorAccepts(r)
      BY <2>7, <1>b DEF Bind
    <3>2. Remembers(r)'
      BY <3>1, <2>2, <2>4, <1>a DEF Remembers
    <3>. QED  BY <3>2, <2>1, <2>2, <2>5, SpentEngaged
  <2>. QED  BY <1>2, <2>6, <2>7
<1>3. ASSUME NEW r \in Run, AppendEvent(r) PROVE SpentInv'
  <2>. USE DEF disk, local, past, used, At, Goto
  <2>1. Alone(r) /\ Engaged(r)
    BY <1>3, StepAlone DEF Cycling, AppendEvent, Engaged, Exclusive
  <2>2. /\ UNCHANGED <<path, anchor, pinned, settled, pc>>
        /\ pc[r] = "working" /\ path = pinned[r]
        /\ ledger'[path] = Append(ledger[path], r)
    BY <1>3, <1>b DEF AppendEvent
  <2>3. IsPrefix(settled, Append(ledger[path], r))
    <3>1. ledger[path] \in Seq(Run) /\ IsPrefix(settled, ledger[path])
      BY <1>a, <1>b, <2>2 DEF Remembers
    <3>. QED  BY <3>1, <1>b, PrefixFacts
  <2>4. Remembers(r)'
    BY <2>2, <2>3, <1>a DEF Remembers
  <2>5. /\ anchor'.bound => anchor'.base <= path
        /\ IF anchor'.bound THEN IsPrefix(settled', anchor'.entries)
           ELSE settled' = <<>>
    BY <2>2 DEF SpentInv
  <2>. QED  BY <2>1, <2>2, <2>4, <2>5, SpentEngaged
<1>4. ASSUME NEW r \in Run, Abandon(r) \/ Finish(r) \/ Crash(r)
      PROVE  SpentInv'
  <2>. USE DEF disk, local, past, used, At, Goto, Stop
  <2>1. Alone(r)
    BY <1>4, StepAlone DEF Cycling
  <2>2. UNCHANGED <<path, ledger, anchor, pinned, settled>>
        /\ pc'[r] \in {"stopped", "rebind"}
    BY <1>4, <1>b DEF Abandon, Finish, Crash
  <2>3. Remembers(r)'
    BY <2>2, <1>a DEF Remembers
  <2>. QED  BY <2>1, <2>2, <2>3, SpentQuiet
<1>5. ASSUME NEW r \in Run, Verify(r) \/ Sync(r) \/ ReleaseFails(r)
      PROVE  SpentInv'
  <2>. USE DEF disk, local, past, used, At, Goto, Stop, Half, Held
  <2>1. Alone(r)
    BY <1>5, StepAlone DEF Releasing
  <2>2. UNCHANGED <<path, ledger, anchor, pinned, settled>>
    BY <1>5 DEF Verify, Sync, ReleaseFails
  <2>3. Remembers(r)'
    <3>1. CASE pc'[r] \notin {"working", "verify", "release"}
      BY <3>1, <2>2, <1>a DEF Remembers
    <3>2. CASE Verify(r) /\ pc'[r] \in {"working", "verify", "release"}
      <4>1. pc[r] = "verify" /\ pc'[r] = "release" /\ path = pinned[r]
        BY <3>2, <1>b DEF Verify, Owns
      <4>2. /\ anchor.bound /\ pinned[r] <= anchor.base /\ anchor.base <= path
            /\ anchor.entries = ledger[anchor.base]
        BY <4>1, <1>a DEF Remembers, SpentInv
      <4>3. anchor.base = pinned[r]
        <5>1. anchor.base \in Nat /\ path \in Nat
          BY <1>b
        <5>. QED  BY <5>1, <4>1, <4>2
      <4>. QED  BY <4>1, <4>2, <4>3, <2>2, <1>a DEF Remembers
    <3>3. CASE Sync(r) /\ pc'[r] \in {"working", "verify", "release"}
      <4>1. pc[r] = "release" /\ pc'[r] = "release" /\ held[r] # Trust
        BY <3>3, <1>b DEF Sync
      <4>. QED  BY <4>1, <2>2, <1>a DEF Remembers, PastRelease
    <3>4. CASE ReleaseFails(r)
      <4>1. pc'[r] = "stopped"
        BY <3>4, <1>b DEF ReleaseFails
      <4>. QED  BY <4>1, <3>1
    <3>. QED  BY <1>5, <3>1, <3>2, <3>3, <3>4
  <2>. QED  BY <2>1, <2>2, <2>3, SpentQuiet
<1>6. ASSUME NEW r \in Run, Unlink(r) PROVE SpentInv'
  <2>. USE DEF disk, local, past, used, At, Goto, Half
  <2>1. Alone(r) /\ Engaged(r) /\ ~PastRelease(r)
    BY <1>6, StepAlone DEF Releasing, Unlink, Engaged, Admitted, PastRelease
  <2>2. /\ UNCHANGED <<path, ledger, anchor, pinned, pc, held>>
        /\ pc[r] = "release" /\ half'[r]
        /\ settled' = IF held[r] = Trust THEN ledger[pinned[r]] ELSE settled
    BY <1>6, <1>b DEF Unlink
  <2>3. anchor.bound /\ anchor.entries = ledger[pinned[r]]
    BY <2>1, <2>2, <1>a DEF Remembers
  <2>4. IsPrefix(settled', anchor.entries)
    <3>1. IsPrefix(anchor.entries, anchor.entries)
      BY <1>b, PrefixFacts
    <3>. QED  BY <3>1, <2>2, <2>3 DEF SpentInv
  <2>5. Remembers(r)'
    BY <2>2, <2>3, <1>a DEF Remembers
  <2>6. /\ anchor'.bound => anchor'.base <= path
        /\ IF anchor'.bound THEN IsPrefix(settled', anchor'.entries)
           ELSE settled' = <<>>
    BY <2>2, <2>3, <2>4 DEF SpentInv
  <2>. QED  BY <2>1, <2>2, <2>5, <2>6, SpentEngaged
<1>7. CASE Swap
  <2>. USE DEF disk, local, past, used
  <2>1. /\ path' = path + 1 /\ path' \in Nat
        /\ UNCHANGED <<anchor, pc, pinned, held, half, settled>>
        /\ \A g \in Generation : g <= path => ledger'[g] = ledger[g]
    BY <1>7, <1>b DEF Swap
  <2>2. ASSUME NEW r \in Run PROVE Remembers(r)'
    <3>1. pinned[r] <= path /\ pinned[r] \in Generation /\ path \in Nat
          /\ pinned[r] # path' /\ pinned[r] <= path'
      BY <1>a, <1>b, <2>1 DEF Remembers
    <3>2. pc[r] = "verify" =>
             /\ anchor.bound /\ pinned[r] <= anchor.base
             /\ anchor.entries = ledger'[anchor.base]
      BY <1>a, <1>b, <2>1 DEF Remembers, SpentInv
    <3>3. pc[r] = "release" /\ ~PastRelease(r) =>
             anchor.bound /\ anchor.entries = ledger'[pinned[r]]
      BY <1>a, <1>b, <2>1, <3>1 DEF Remembers
    <3>. QED  BY <2>1, <3>1, <3>2, <3>3 DEF Remembers, PastRelease
  <2>3. anchor'.bound => anchor'.base <= path'
    <3>1. anchor.base \in Nat /\ path \in Nat
      BY <1>b
    <3>2. anchor.bound => anchor.base <= path
      BY DEF SpentInv
    <3>. QED  BY <3>1, <3>2, <2>1
  <2>. QED  BY <2>1, <2>2, <2>3 DEF SpentInv
<1>8. CASE Rollback
  <2>. USE DEF disk, local, past, used
  <2>1. /\ UNCHANGED <<path, anchor, pc, pinned, held, half, settled>>
        /\ \A r \in Run : ~Admitted(r)
    BY <1>8 DEF Rollback
  <2>2. \A r \in Run : Remembers(r)'
    BY <1>a, <2>1 DEF Remembers, Admitted, PastRelease
  <2>. QED  BY <2>1, <2>2 DEF SpentInv
<1>9. CASE Reconcile \/ UNCHANGED vars
  BY <1>9 DEF Reconcile, vars, disk, local, past, used, SpentInv, Remembers,
     PastRelease
<1>. QED
  BY <1>1, <1>2, <1>3, <1>4, <1>5, <1>6, <1>7, <1>8, <1>9
  DEF Next, Cycling, Releasing

(* A run that can append has under it everything that was in the ledger    *)
(* when the last run was released, under the same assumption: an older     *)
(* copy in another root, or put back in place, never passes the anchor.    *)
THEOREM NeverForgets ==
    ASSUME NoTrustSyncFailure
    PROVE  Spec => []SpentNeverForgotten
<1>1. Init => SpentInv
  <2>. SUFFICES ASSUME Init PROVE SpentInv
    OBVIOUS
  <2>1. ~anchor.bound /\ settled = <<>> /\ path = 0
    BY DEF Init, NoAnchor
  <2>2. \A r \in Run : pinned[r] = 0 /\ pc[r] = "idle"
    BY DEF Init
  <2>. QED  BY <2>1, <2>2 DEF SpentInv, Remembers
<1>2. TypeOK /\ PhaseInv /\ LockInv /\ SpentInv /\ [Next]_vars => SpentInv'
  BY SpentStep
<1>3. SpentInv => SpentNeverForgotten
  BY DEF SpentInv, Remembers, SpentNeverForgotten, At
<1>. QED  BY <1>1, <1>2, <1>3, LockAlways, PTL DEF Spec
=============================================================================

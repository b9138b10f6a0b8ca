--------------------------- MODULE StageDRunLock ---------------------------
(***************************************************************************)
(* Admission of Stage D runs (market_evidence/stageDOperations.js): the    *)
(* four fence files that acquireStageDRunLock creates from the runtime     *)
(* trust root down to the operation root, the ledger-generation anchors    *)
(* that bindStageDRunLockGeneration keeps beside the outermost fence, and  *)
(* the release, abandonment, crash or refusal of each run, while the       *)
(* operation root may be replaced by an older copy of itself.              *)
(***************************************************************************)
EXTENDS Integers, Sequences, SequencesExt

CONSTANTS
    Run,           \* runs; a run_id is used for one cycle
    Nobody,        \* no fence file
    MaxEvents,     \* ledger events of one cycle
    MaxSwaps,      \* bound: replacements of the operation root
    MaxRollbacks,  \* bound: restorations of an old ledger in place
    MaxCrashes,    \* bound: process crashes
    Faults,        \* the I/O failures that may happen
    MaxFaults      \* bound: number of I/O failures

FaultKinds == {"create", "undo", "undoSync", "cleanup", "validate", "bind",
               "unlink", "sync", "trustSync"}

ASSUME RunAssumption == Nobody \notin Run

ASSUME BoundAssumption ==
    /\ {MaxEvents, MaxSwaps, MaxRollbacks, MaxCrashes, MaxFaults} \subseteq Nat
    /\ Faults \subseteq FaultKinds

VARIABLES
    fence,       \* owner of the fence file at each place
    path,        \* the generation the operation root's path names
    ledger,      \* the request ledger in each generation, by run of each event
    anchor,      \* the latest ledger-generation anchor in the trust root
    pc,          \* where each run is
    pinned,      \* the generation whose descriptors each run holds
    held,        \* fences whose created flag each run has set
    half,        \* a fence is unlinked, its directory is not synced yet
    wrote,       \* events each run has appended
    unresolved,  \* history: admitted runs that ended without a clean release
    settled,     \* history: the ledger at the last clean release
    faults, crashes, rollbacks  \* how much of each bound is used up

disk  == <<fence, path, ledger, anchor>>
local == <<pinned, held, half, wrote>>
past  == <<unresolved, settled>>
used  == <<faults, crashes, rollbacks>>
vars  == <<disk, pc, local, past, used>>

(* The fences from the outside in: runtime trust root, ancestor, parent    *)
(* and operation root.                                                     *)
Trust == 1
Root  == 4
Level == Trust..Root
Generation == 0..MaxSwaps

(* The trust root is outside the operation root: it has one generation.    *)
Place == Generation \X Level
PlaceOf(r, l) == <<IF l = Trust THEN 0 ELSE pinned[r], l>>

NoAnchor == [root |-> 0, base |-> 0, entries |-> <<>>, bound |-> FALSE]

Labels == {"idle", "create", "undo", "cleanup", "validate", "bind", "working",
           "rebind", "verify", "release", "refused", "error", "released",
           "stopped"}

Ended == {"refused", "error", "released", "stopped"}
Live(r) == pc[r] \notin Ended \cup {"idle"}

(* The unlink of the trust fence is the point of release. *)
PastRelease(r) == pc[r] = "release" /\ held[r] = Trust /\ half[r]

(* The run may talk to the provider, or has not yet settled what it did.   *)
Admitted(r) ==
    /\ pc[r] \in {"working", "rebind", "verify", "release"}
    /\ ~PastRelease(r)

-----------------------------------------------------------------------------
Init ==
    /\ fence = [p \in Place |-> Nobody]
    /\ path = 0
    /\ ledger = [g \in Generation |-> <<>>]
    /\ anchor = NoAnchor
    /\ pc = [r \in Run |-> "idle"]
    /\ pinned = [r \in Run |-> 0]
    /\ held = [r \in Run |-> 0]
    /\ half = [r \in Run |-> FALSE]
    /\ wrote = [r \in Run |-> 0]
    /\ unresolved = {}
    /\ settled = <<>>
    /\ faults = 0 /\ crashes = 0 /\ rollbacks = 0

At(r, label) == pc[r] = label
Goto(r, label) == pc' = [pc EXCEPT ![r] = label]

SetFence(p, owner) == fence' = [fence EXCEPT ![p] = owner]
Held(r, n) == held' = [held EXCEPT ![r] = n]
Half(r, b) == half' = [half EXCEPT ![r] = b]

(* Failure k happens now. *)
Fault(k) == k \in Faults /\ faults < MaxFaults /\ faults' = faults + 1
NoFault == UNCHANGED faults

(* The run's outcome needs reconciliation: its fences are left in place.   *)
Stop(r) == Goto(r, "stopped") /\ unresolved' = unresolved \cup {r}

-----------------------------------------------------------------------------
(* acquireStageDRunLock: create the fences from the outside in. *)

Open(r) ==
    /\ At(r, "idle")
    /\ Goto(r, "create")
    /\ pinned' = [pinned EXCEPT ![r] = path]
    /\ UNCHANGED <<disk, held, half, wrote, past, used>>

NextPlace(r) == PlaceOf(r, held[r] + 1)

(* Mutant: the file is not created exclusively. *)
FenceFree_NotExclusive(p) == TRUE

(* Mutant: the fence of a run that has ended is stale and taken over. *)
FenceFree_Takeover(p) == fence[p] \in Run => ~Live(fence[p])

FenceFree(p) == fence[p] = Nobody

Create(r) ==
    /\ At(r, "create")
    /\ FenceFree(NextPlace(r))
    /\ SetFence(NextPlace(r), r)
    /\ Held(r, held[r] + 1)
    /\ IF held[r] + 1 = Root THEN Goto(r, "validate") ELSE UNCHANGED pc
    /\ UNCHANGED <<path, ledger, anchor, pinned, half, wrote, past, used>>

(* EEXIST: what this run has created is removed before it is refused. *)
Exists(r) ==
    /\ At(r, "create")
    /\ ~FenceFree(NextPlace(r))
    /\ Goto(r, "undo")
    /\ UNCHANGED <<disk, local, past, used>>

(* Creating, writing or syncing the file fails: it may be there all the    *)
(* same, and its created flag is not set.                                  *)
CreateFails(r) ==
    /\ At(r, "create")
    /\ FenceFree(NextPlace(r))
    /\ Fault("create")
    /\ SetFence(NextPlace(r), r) \/ UNCHANGED fence
    /\ Goto(r, "cleanup")
    /\ UNCHANGED <<path, ledger, anchor, local, past, crashes, rollbacks>>

(* Mutant: the EEXIST branch forgets the outermost fence. *)
TakenBack_ButTrust(r) == held[r] <= Trust

TakenBack(r) == held[r] = 0

Innermost(r) == PlaceOf(r, held[r])

UndoUnlink(r) ==
    /\ At(r, "undo") /\ ~TakenBack(r) /\ ~half[r]
    /\ fence[Innermost(r)] # Nobody
    /\ SetFence(Innermost(r), Nobody)
    /\ Half(r, TRUE)
    /\ UNCHANGED <<path, ledger, anchor, pc, pinned, held, wrote, past, used>>

(* The created flag is reset after the directory is synced. *)
UndoSync(r) ==
    /\ At(r, "undo") /\ half[r]
    /\ Half(r, FALSE)
    /\ Held(r, held[r] - 1)
    /\ UNCHANGED <<disk, pc, pinned, wrote, past, used>>

(* An error while undoing goes on to the finally block. *)
UndoFails(r) ==
    /\ At(r, "undo") /\ ~TakenBack(r)
    /\ IF half[r]
       THEN Fault("undoSync")
       ELSE (fence[Innermost(r)] = Nobody /\ NoFault) \/ Fault("undo")
    /\ Goto(r, "cleanup")
    /\ Half(r, FALSE)
    /\ UNCHANGED <<disk, pinned, held, wrote, past, crashes, rollbacks>>

Refuse(r) ==
    /\ At(r, "undo") /\ TakenBack(r)
    /\ Goto(r, "refused")
    /\ UNCHANGED <<disk, local, past, used>>

(* The finally block: best effort for every fence whose flag is still set. *)
Cleanup(r) ==
    /\ At(r, "cleanup") /\ held[r] > 0
    /\ \/ SetFence(Innermost(r), Nobody) /\ NoFault
       \/ UNCHANGED fence /\ Fault("cleanup")
    /\ Held(r, held[r] - 1)
    /\ UNCHANGED <<path, ledger, anchor, pc, pinned, half, wrote, past,
                   crashes, rollbacks>>

GiveUp(r) ==
    /\ At(r, "cleanup") /\ held[r] = 0
    /\ Goto(r, "error")
    /\ UNCHANGED <<disk, local, past, used>>

AllPresent(r) == \A l \in Level : fence[PlaceOf(r, l)] # Nobody

Validate(r) ==
    /\ At(r, "validate")
    /\ AllPresent(r)
    /\ Goto(r, "bind")
    /\ UNCHANGED <<disk, local, past, used>>

(* The fences are left in place on purpose. *)
ValidateFails(r) ==
    /\ At(r, "validate")
    /\ (~AllPresent(r) /\ NoFault) \/ Fault("validate")
    /\ Goto(r, "error")
    /\ UNCHANGED <<disk, local, past, crashes, rollbacks>>

-----------------------------------------------------------------------------
(* bindStageDRunLockGeneration: the anchored ledger must still be there.   *)
(* The ledger is read through the path, the root is the pinned one.        *)

Observed(r) ==
    [root |-> pinned[r], base |-> path, entries |-> ledger[path], bound |-> TRUE]

AnchorAccepts(r) ==
    anchor.bound =>
       /\ anchor.root = pinned[r]
       /\ anchor.base = path
       /\ IsPrefix(anchor.entries, ledger[path])

(* Mutant: only the first run of a root writes an anchor. *)
NextAnchor_FirstOnly(r) == IF anchor.bound THEN anchor ELSE Observed(r)

NextAnchor(r) ==
    IF ~anchor.bound \/ Len(ledger[path]) > Len(anchor.entries)
    THEN Observed(r) ELSE anchor

Bind(r) ==
    /\ \/ At(r, "bind") /\ Goto(r, "working")
       \/ At(r, "rebind") /\ Goto(r, "verify")
    /\ AnchorAccepts(r)
    /\ anchor' = NextAnchor(r)
    /\ UNCHANGED <<fence, path, ledger, local, past, used>>

BindFails(r) ==
    /\ pc[r] \in {"bind", "rebind"}
    /\ \/ ~AnchorAccepts(r) /\ NoFault /\ UNCHANGED anchor
       \/ /\ Fault("bind")
          /\ anchor' \in {anchor, IF AnchorAccepts(r) THEN NextAnchor(r) ELSE anchor}
    /\ Stop(r)
    /\ UNCHANGED <<fence, path, ledger, local, settled, crashes, rollbacks>>

-----------------------------------------------------------------------------
(* The cycle, as far as the run lock sees it. *)

(* Mutant: a retry loop in the cycle. *)
MayAppend_Retry(r) == wrote[r] <= MaxEvents

MayAppend(r) == wrote[r] < MaxEvents

(* Every ledger access checks the identity of the pinned root. *)
AppendEvent(r) ==
    /\ At(r, "working")
    /\ path = pinned[r]
    /\ MayAppend(r)
    /\ ledger' = [ledger EXCEPT ![path] = Append(@, r)]
    /\ wrote' = [wrote EXCEPT ![r] = @ + 1]
    /\ UNCHANGED <<fence, path, anchor, pc, pinned, held, half, past, used>>

(* reconcileRequired: the root was replaced, or a step's outcome is not    *)
(* known; the token is abandoned.                                          *)
Abandon(r) ==
    /\ At(r, "working")
    /\ Stop(r)
    /\ UNCHANGED <<disk, local, settled, used>>

(* The cycle has a result, or failed before anything was sent. *)
Finish(r) ==
    /\ At(r, "working")
    /\ Goto(r, "rebind")
    /\ UNCHANGED <<disk, local, past, used>>

-----------------------------------------------------------------------------
(* releaseStageDRunLock: verify everything, then unlink from the inside    *)
(* out; the trust fence goes last.                                         *)

Owns(r) ==
    /\ path = pinned[r]
    /\ \A l \in Level : fence[PlaceOf(r, l)] = r

Verify(r) ==
    /\ At(r, "verify")
    /\ IF Owns(r) THEN Goto(r, "release") /\ UNCHANGED unresolved ELSE Stop(r)
    /\ UNCHANGED <<disk, local, settled, used>>

Unlink(r) ==
    /\ At(r, "release") /\ ~half[r]
    /\ fence[Innermost(r)] # Nobody
    /\ SetFence(Innermost(r), Nobody)
    /\ Half(r, TRUE)
    /\ settled' = IF held[r] = Trust THEN ledger[pinned[r]] ELSE settled
    /\ UNCHANGED <<path, ledger, anchor, pc, pinned, held, wrote, unresolved, used>>

Sync(r) ==
    /\ At(r, "release") /\ half[r]
    /\ Half(r, FALSE)
    /\ Held(r, held[r] - 1)
    /\ IF held[r] = Trust THEN Goto(r, "released") ELSE UNCHANGED pc
    /\ UNCHANGED <<disk, pinned, wrote, past, used>>

ReleaseFails(r) ==
    /\ At(r, "release")
    /\ \/ ~half[r] /\ fence[Innermost(r)] = Nobody /\ NoFault
       \/ Fault(IF ~half[r] THEN "unlink"
                ELSE IF held[r] = Trust THEN "trustSync" ELSE "sync")
    /\ Stop(r)
    /\ UNCHANGED <<disk, local, settled, crashes, rollbacks>>

-----------------------------------------------------------------------------
(* The environment. *)

Crash(r) ==
    /\ Live(r)
    /\ crashes < MaxCrashes
    /\ crashes' = crashes + 1
    /\ Goto(r, "stopped")
    /\ unresolved' = IF Admitted(r)
                     THEN unresolved \cup {r} ELSE unresolved
    /\ UNCHANGED <<disk, local, settled, faults, rollbacks>>

(* The operation root, its parent or its ancestor is replaced by an older  *)
(* copy of itself that has none of the inner fences.                       *)
Swap ==
    /\ path < MaxSwaps
    /\ path' = path + 1
    /\ \E n \in 0..Len(ledger[path]) :
          ledger' = [ledger EXCEPT ![path + 1] = SubSeq(ledger[path], 1, n)]
    /\ UNCHANGED <<fence, anchor, pc, local, past, used>>

(* An old copy of the ledger is put in place between two runs. *)
Rollback ==
    /\ rollbacks < MaxRollbacks
    /\ rollbacks' = rollbacks + 1
    /\ \A r \in Run : ~Admitted(r)
    /\ \E n \in 0..(Len(ledger[path]) - 1) :
          ledger' = [ledger EXCEPT ![path] = SubSeq(@, 1, n)]
    /\ UNCHANGED <<fence, path, anchor, pc, local, past, faults, crashes>>

(* Manual reconciliation, with no run under way. *)
Reconcile ==
    /\ \A r \in Run : ~Live(r)
    /\ \E p \in Place : fence[p] # Nobody
    /\ fence' = [p \in Place |-> Nobody]
    /\ unresolved' = {}
    /\ UNCHANGED <<path, ledger, anchor, pc, local, settled, used>>

-----------------------------------------------------------------------------
Acquiring(r) ==
    \/ Open(r) \/ Create(r) \/ Exists(r) \/ CreateFails(r)
    \/ UndoUnlink(r) \/ UndoSync(r) \/ UndoFails(r) \/ Refuse(r)
    \/ Cleanup(r) \/ GiveUp(r) \/ Validate(r) \/ ValidateFails(r)

Cycling(r) ==
    \/ Bind(r) \/ BindFails(r) \/ AppendEvent(r) \/ Abandon(r) \/ Finish(r)

Releasing(r) == Verify(r) \/ Unlink(r) \/ Sync(r) \/ ReleaseFails(r)

Next ==
    \/ \E r \in Run : Acquiring(r) \/ Cycling(r) \/ Releasing(r) \/ Crash(r)
    \/ Swap \/ Rollback \/ Reconcile

Spec == Init /\ [][Next]_vars

-----------------------------------------------------------------------------
Anchors == [root : Generation, base : Generation, entries : Seq(Run),
            bound : BOOLEAN]

(* Every variable ranges over the values its code counterpart takes; a     *)
(* cycle appends the events of one request only (executeStageDOneCycle has *)
(* no retry loop).                                                         *)
TypeOK ==
    /\ fence \in [Place -> Run \cup {Nobody}]
    /\ path \in Generation
    /\ ledger \in [Generation -> Seq(Run)]
    /\ anchor \in Anchors
    /\ pc \in [Run -> Labels]
    /\ pinned \in [Run -> Generation]
    /\ held \in [Run -> 0..Root]
    /\ half \in [Run -> BOOLEAN]
    /\ wrote \in [Run -> 0..MaxEvents]
    /\ unresolved \subseteq Run
    /\ settled \in Seq(Run)
    /\ faults \in 0..MaxFaults
    /\ crashes \in 0..MaxCrashes
    /\ rollbacks \in 0..MaxRollbacks

(* Two runs are never both past admission, however the operation root is   *)
(* replaced between or during them (acquireStageDRunLock and               *)
(* bindStageDRunLockGeneration).  It is the trust fence, removed last, that *)
(* keeps a replaced root out ("A second run ... stop the next run").  It is *)
(* stated for Faults without "undoSync" and "trustSync": a directory sync   *)
(* that fails after the unlink of the trust fence breaks it.               *)
RunMutualExclusion ==
    \A r, s \in Run : Admitted(r) /\ Admitted(s) => r = s

(* After a run that crashed, was abandoned or could not release its lock,  *)
(* no run is admitted until an operator has reconciled ("stop the next run *)
(* with reconciliation required"), again but for those two faults.         *)
FailClosed == unresolved # {} => \A r \in Run : ~Admitted(r)

(* A run that can append to the ledger has under it everything that was in *)
(* the ledger when the last run was released, whatever old copies were put *)
(* in its place ("a valid old ledger copy is a reconciliation failure").   *)
(* Checked with the faults RunMutualExclusion is checked with.             *)
SpentNeverForgotten ==
    \A r \in Run :
       At(r, "working") /\ path = pinned[r] => IsPrefix(settled, ledger[path])

(* A run that was refused or released leaves none of its fences behind, so *)
(* it blocks no later run: the EEXIST branches of acquireStageDRunLock     *)
(* take back every fence created so far, in whatever generation.           *)
CleanExit ==
    \A r \in Run : pc[r] \in {"refused", "released"} =>
       \A p \in Place : fence[p] # r
=============================================================================

--------------------------- MODULE IsolatedRestore ---------------------------
(***************************************************************************)
(* executeRestore (backup/restoreExecutor.js) next to the writers of       *)
(* SnapshotGeneration: a generation that passes the verifier is rebuilt in *)
(* a staging directory, proved there, and moved into a destination that    *)
(* must not exist, one top-level directory after the other.  A failed move *)
(* is rolled back.  Several restores are given the same destination.       *)
(***************************************************************************)
EXTENDS SnapshotGeneration

CONSTANTS
    Restorer,
    Top,           \* the top-level directory of each file
    Nobody

ASSUME NobodyAssumption == Nobody \notin Restorer

VARIABLES
    rpc,       \* where each restore is
    manifest,  \* the manifest it was admitted with
    staging,   \* the files below its staging directory
    todo,      \* the entries the commit, or its rollback, has yet to move
    owner,     \* the restore that made the destination, or Nobody
    dest,      \* the files below the destination
    cut        \* history: a commit ended without the destination in order

restoreVars == <<rpc, manifest, staging, todo, owner, dest, cut>>
vars == <<snapshotVars, restoreVars>>

Init ==
    /\ SnapshotInit
    /\ rpc = [r \in Restorer |-> "idle"]
    /\ manifest = [r \in Restorer |-> Nothing]
    /\ staging = [r \in Restorer |-> Nothing]
    /\ todo = [r \in Restorer |-> {}]
    /\ owner = Nobody
    /\ dest = Nothing
    /\ cut = FALSE

At(r, l, m) == rpc[r] = l /\ rpc' = [rpc EXCEPT ![r] = m]

(* verifySnapshot, loadAcceptedManifest and assertFreshDestination; then   *)
(* the staging directory is made.  Otherwise nothing happens at all.       *)
Admit(r, g) ==
    /\ Verifies(g)
    /\ owner = Nobody
    /\ At(r, "idle", "fetch")
    /\ manifest' = [manifest EXCEPT ![r] = BoundManifest(g)]
    /\ UNCHANGED <<snapshotVars, staging, todo, owner, dest, cut>>

(* One artifact, in the order of the manifest, is written to the staging   *)
(* directory if the generation holds what the manifest binds.              *)
Fetch(r, f) ==
    LET held == objects[manifest[r].snapshot_id]
        left == DOMAIN manifest[r].artifacts \ DOMAIN staging[r] IN
    /\ At(r, "fetch", "fetch")
    /\ f \in left
    /\ \A x \in left : PathOrder[f] <= PathOrder[x]
    /\ f \in DOMAIN held
    /\ held[f] = manifest[r].artifacts[f]
    /\ staging' = [staging EXCEPT ![r] = Add(@, f, held[f])]
    /\ UNCHANGED <<snapshotVars, manifest, todo, owner, dest, cut>>

(* proveRestoredRoot: files and identity are those of the manifest.        *)
Proved(r) ==
    /\ staging[r] = manifest[r].artifacts
    /\ \A f \in Identified :
           manifest[r].identity[f] =
               IF f \in DOMAIN staging[r] THEN staging[r][f] ELSE AbsentAt[f]

Prove(r) ==
    /\ At(r, "fetch", "proved")
    /\ Proved(r)
    /\ UNCHANGED <<snapshotVars, manifest, staging, todo, owner, dest, cut>>

(* The restore reports an error or dies, and nobody reads its staging      *)
(* directory any more, should discardStagingRoot have left it there.       *)
Fail(r) ==
    /\ At(r, rpc[r], "failed")
    /\ manifest' = [manifest EXCEPT ![r] = Nothing]
    /\ staging' = [staging EXCEPT ![r] = Nothing]
    /\ todo' = [todo EXCEPT ![r] = {}]
    /\ UNCHANGED <<snapshotVars, dest>>

Entries(fs) == {Top[f] : f \in fs}

(* Mutant: a destination that appeared meanwhile is adopted. *)
MakeDestination_Adopt(r) ==
    /\ At(r, "proved", "made")
    /\ owner' = r
    /\ UNCHANGED <<snapshotVars, manifest, staging, todo, dest, cut>>

(* commitStagedRoot: mkdir of the destination, which fails if it exists.   *)
MakeDestination(r) ==
    /\ At(r, "proved", "made")
    /\ owner = Nobody
    /\ owner' = r
    /\ UNCHANGED <<snapshotVars, manifest, staging, todo, dest, cut>>

(* chmod and open of the new directory, before the block that rolls back.  *)
OpenDestination(r) ==
    /\ At(r, "made", "moving")
    /\ todo' = [todo EXCEPT ![r] = Entries(DOMAIN staging[r])]
    /\ UNCHANGED <<snapshotVars, manifest, staging, owner, dest, cut>>

OpenFails(r) ==
    /\ rpc[r] = "made"
    /\ Fail(r)
    /\ cut' = TRUE
    /\ UNCHANGED owner

Below(tree, e) == [f \in {x \in DOMAIN tree : Top[x] = e} |-> tree[f]]
Without(tree, e) == [f \in {x \in DOMAIN tree : Top[x] # e} |-> tree[f]]
Join(a, b) == [f \in DOMAIN a \cup DOMAIN b |-> IF f \in DOMAIN a THEN a[f] ELSE b[f]]

(* rename of one entry *)
Move(r, e) ==
    /\ At(r, "moving", "moving")
    /\ e \in todo[r]
    /\ dest' = Join(Below(staging[r], e), dest)
    /\ staging' = [staging EXCEPT ![r] = Without(@, e)]
    /\ todo' = [todo EXCEPT ![r] = @ \ {e}]
    /\ UNCHANGED <<snapshotVars, manifest, owner, cut>>

Restored(r) ==
    /\ At(r, "moving", "done")
    /\ todo[r] = {}
    /\ UNCHANGED <<snapshotVars, manifest, staging, todo, owner, dest, cut>>

(* A rename fails: rollbackCommittedEntries begins.                        *)
MoveFails(r) ==
    /\ At(r, "moving", "undo")
    /\ todo[r] # {}
    /\ todo' = [todo EXCEPT ![r] = Entries(DOMAIN dest)]
    /\ UNCHANGED <<snapshotVars, manifest, staging, owner, dest, cut>>

MoveBack(r, e) ==
    /\ At(r, "undo", "undo")
    /\ e \in todo[r]
    /\ staging' = [staging EXCEPT ![r] = Join(Below(dest, e), @)]
    /\ dest' = Without(dest, e)
    /\ todo' = [todo EXCEPT ![r] = @ \ {e}]
    /\ UNCHANGED <<snapshotVars, manifest, owner, cut>>

(* A rename back that fails is noted on the error; the rest goes on.       *)
MoveBackFails(r, e) ==
    /\ At(r, "undo", "undo")
    /\ e \in todo[r]
    /\ todo' = [todo EXCEPT ![r] = @ \ {e}]
    /\ UNCHANGED <<snapshotVars, manifest, staging, owner, dest, cut>>

(* rmdir of the destination, then discardStagingRoot.                      *)
RemoveDestination(r) ==
    /\ rpc[r] = "undo" /\ todo[r] = {}
    /\ DOMAIN dest = {}
    /\ Fail(r)
    /\ owner' = Nobody
    /\ UNCHANGED cut

(* rmdir fails, as it must while an entry could not be moved back.         *)
RemoveFails(r) ==
    /\ rpc[r] = "undo" /\ todo[r] = {}
    /\ Fail(r)
    /\ cut' = TRUE
    /\ UNCHANGED owner

(* An error before the destination is made, EEXIST of its mkdir included.  *)
GiveUp(r) ==
    /\ rpc[r] \in {"fetch", "proved"}
    /\ Fail(r)
    /\ UNCHANGED <<owner, cut>>

Committing == {"made", "moving", "undo"}

(* The process dies in the middle of its commit; before, it is a GiveUp.   *)
Crash(r) ==
    /\ rpc[r] \in Committing
    /\ Fail(r)
    /\ cut' = TRUE
    /\ UNCHANGED owner

RestoreStep(r) ==
    \/ Prove(r) \/ MakeDestination(r) \/ OpenDestination(r) \/ OpenFails(r)
    \/ Restored(r) \/ MoveFails(r) \/ RemoveDestination(r) \/ RemoveFails(r)
    \/ GiveUp(r) \/ Crash(r)
    \/ \E g \in Generation : Admit(r, g)
    \/ \E f \in File : Fetch(r, f)
    \/ \E e \in Entries(File) : Move(r, e) \/ MoveBack(r, e) \/ MoveBackFails(r, e)

Next ==
    \/ SnapshotNext /\ UNCHANGED restoreVars
    \/ \E r \in Restorer : RestoreStep(r)

Spec == Init /\ [][Next]_vars

-----------------------------------------------------------------------------
(* Properties                                                              *)

RestorerState == {"idle", "fetch", "proved", "made", "moving", "undo", "done", "failed"}

(* The type invariant of the writers, the generations and the restores     *)
(* (writeSnapshot, executeRestore).                                        *)
TypeOK ==
    /\ SnapshotTypeOK
    /\ rpc \in [Restorer -> RestorerState]
    /\ manifest \in [Restorer -> ManifestObject \cup {Nothing}]
    /\ staging \in [Restorer -> Tree]
    /\ todo \in [Restorer -> SUBSET Entries(File)]
    /\ owner \in Restorer \cup {Nobody}
    /\ dest \in Tree
    /\ cut \in BOOLEAN

(* SAFETY.  A restore that reported success made the destination itself,   *)
(* and the destination holds, for good, the files of one single moment of  *)
(* the source, whatever the source, the writers and other restores into    *)
(* the same place do.  A destination that exists and that no commit is     *)
(* working on is such a one, unless a commit was cut short (executeRestore,*)
(* commitStagedRoot, rollbackCommittedEntries).                            *)
RestoredIsWhole ==
    /\ \A r \in Restorer : rpc[r] = "done" =>
           owner = r /\ dest = manifest[r].artifacts /\ OneMoment(manifest[r])
    /\ owner # Nobody /\ ~cut /\ rpc[owner] \notin Committing => rpc[owner] = "done"
    /\ owner = Nobody => dest = Nothing

(* What restoreExecutor.js says of its commit: "any failure moves every    *)
(* entry back where it came from and removes the directory again: the      *)
(* destination is either absent, or the complete proven tree".             *)
AbsentOrComplete ==
    owner # Nobody /\ rpc[owner] \notin Committing =>
        \E g \in Generation : Verifies(g) /\ dest = BoundManifest(g).artifacts
=============================================================================

------------------------ MODULE IsolatedRestoreProofs ------------------------
(***************************************************************************)
(* Proofs about restores next to the writers of generations: whatever the  *)
(* other restores and the writers do, a restore that reports success left  *)
(* the tree of one moment of the source in its destination.                *)
(***************************************************************************)
EXTENDS IsolatedRestore, SnapshotGenerationProofs

-----------------------------------------------------------------------------
(* Generations                                                             *)

(* The store only ever adds objects.                                       *)
LEMMA ObjectsGrow ==
    ASSUME SnapshotTypeOK, SnapshotNext, NEW g \in Generation
    PROVE  \A k \in DOMAIN objects[g] : k \in DOMAIN objects'[g] /\ objects'[g][k] = objects[g][k]
    <1>1. ASSUME NEW w \in Writer, NEW key, NEW c, Put(w, key, c)
          PROVE  \A k \in DOMAIN objects[g] :
                     k \in DOMAIN objects'[g] /\ objects'[g][k] = objects[g][k]
        BY <1>1 DEF SnapshotTypeOK, Put, Add
    <1>2. CASE objects' = objects
        BY <1>2
    <1>3. CASE \E f \in File : Change(f)
        BY <1>2, <1>3 DEF Change
    <1>4. ASSUME NEW w \in Writer, WriterStep(w)
          PROVE  objects' = objects \/ \E key, c : Put(w, key, c)
        BY <1>4 DEF WriterStep, Start, Enumerated, IdentityTaken, Copied, IdentityKept,
                    EnumeratedAgain, Survived, WriteManifest, WriteMarker, WriteFails, PutFails,
                    KeyTaken, Stop, Enumerate, Identify, Copy, IdentifyAgain, EnumerateAgain,
                    Reread
    <1> QED BY <1>1, <1>2, <1>3, <1>4 DEF SnapshotNext

LEMMA SealedStays ==
    ASSUME SnapshotTypeOK, SnapshotNext, NEW g \in Generation, Sealed(g)
    PROVE  Sealed(g)' /\ BoundManifest(g)' = BoundManifest(g)
    BY ObjectsGrow DEF Sealed, BoundManifest

LEMMA SealedFacts ==
    ASSUME SnapshotInv, NEW g \in Generation, Sealed(g)
    PROVE  BoundManifest(g) \in ManifestObject /\ OneMoment(BoundManifest(g))
    <1>1. objects[g][MarkerKey] \in Contents(MarkerKey) /\ objects[g][MarkerKey] # Torn
        BY DEF SnapshotInv, SnapshotTypeOK, Sealed
    <1>2. objects[g][MarkerKey] \in MarkerObject
        BY <1>1, ContentsFacts
    <1>3. BoundManifest(g) \in ManifestObject
        BY <1>2 DEF BoundManifest, MarkerObject
    <1>4. OneMoment(BoundManifest(g))
        BY DEF SnapshotInv, Settled
    <1> QED BY <1>3, <1>4

-----------------------------------------------------------------------------
(* Trees                                                                   *)

LEMMA TreeEqual ==
    ASSUME NEW t \in Tree, NEW u \in Tree, DOMAIN t = DOMAIN u,
           \A f \in DOMAIN t : t[f] = u[f]
    PROVE  t = u
    <1>1. t = [f \in DOMAIN t |-> t[f]] /\ u = [f \in DOMAIN u |-> u[f]]
        BY TreeFacts
    <1> QED BY <1>1

LEMMA EmptyTree ==
    ASSUME NEW t \in Tree, DOMAIN t = {}
    PROVE  t = Nothing
    BY NothingTree, TreeEqual

LEMMA BelowFacts ==
    ASSUME NEW t \in Tree, NEW e
    PROVE  /\ Below(t, e) \in Tree
           /\ DOMAIN Below(t, e) = {f \in DOMAIN t : Top[f] = e}
           /\ \A f \in DOMAIN Below(t, e) : Below(t, e)[f] = t[f]
    <1>1. DOMAIN t \subseteq File /\ \A f \in DOMAIN t : t[f] \in Version
        BY TreeFacts
    <1>2. Below(t, e) \in [{f \in DOMAIN t : Top[f] = e} -> Version]
        BY <1>1 DEF Below
    <1>3. {f \in DOMAIN t : Top[f] = e} \in SUBSET File
        BY <1>1
    <1>4. Below(t, e) \in Tree
        BY <1>2, <1>3, TreeIntro
    <1> QED BY <1>4 DEF Below

LEMMA WithoutFacts ==
    ASSUME NEW t \in Tree, NEW e
    PROVE  /\ Without(t, e) \in Tree
           /\ DOMAIN Without(t, e) = {f \in DOMAIN t : Top[f] # e}
           /\ \A f \in DOMAIN Without(t, e) : Without(t, e)[f] = t[f]
    <1>1. DOMAIN t \subseteq File /\ \A f \in DOMAIN t : t[f] \in Version
        BY TreeFacts
    <1>2. Without(t, e) \in [{f \in DOMAIN t : Top[f] # e} -> Version]
        BY <1>1 DEF Without
    <1>3. {f \in DOMAIN t : Top[f] # e} \in SUBSET File
        BY <1>1
    <1>4. Without(t, e) \in Tree
        BY <1>2, <1>3, TreeIntro
    <1> QED BY <1>4 DEF Without

LEMMA JoinFacts ==
    ASSUME NEW a \in Tree, NEW b \in Tree
    PROVE  /\ Join(a, b) \in Tree
           /\ DOMAIN Join(a, b) = DOMAIN a \cup DOMAIN b
           /\ \A f \in DOMAIN a : Join(a, b)[f] = a[f]
           /\ \A f \in DOMAIN b \ DOMAIN a : Join(a, b)[f] = b[f]
    <1>1. /\ DOMAIN a \subseteq File /\ \A f \in DOMAIN a : a[f] \in Version
          /\ DOMAIN b \subseteq File /\ \A f \in DOMAIN b : b[f] \in Version
        BY TreeFacts
    <1>2. Join(a, b) \in [DOMAIN a \cup DOMAIN b -> Version]
        BY <1>1 DEF Join
    <1>3. DOMAIN a \cup DOMAIN b \in SUBSET File
        BY <1>1
    <1>4. Join(a, b) \in Tree
        BY <1>2, <1>3, TreeIntro
    <1> QED BY <1>4 DEF Join

LEMMA EntriesFacts ==
    /\ \A fs \in SUBSET File : Entries(fs) \subseteq Entries(File)
    /\ \A fs \in SUBSET File : \A f \in fs : Top[f] \in Entries(fs)
    BY DEF Entries

-----------------------------------------------------------------------------
(* The inductive invariant                                                 *)

(* A restore under way was admitted with the manifest of a sealed          *)
(* generation.                                                             *)
Admitted(r) ==
    rpc[r] \notin {"idle", "failed"} =>
        /\ manifest[r] \in ManifestObject
        /\ Sealed(manifest[r].snapshot_id)
        /\ BoundManifest(manifest[r].snapshot_id) = manifest[r]

(* Staging directory and destination together always hold the whole tree.  *)
Placed(r) ==
    LET tree == manifest[r].artifacts IN
    /\ rpc[r] \in Committing \cup {"done"} => owner = r
    /\ rpc[r] \in {"proved", "made"} => staging[r] = tree
    /\ rpc[r] = "made" => dest = Nothing
    /\ rpc[r] = "moving" =>
           /\ DOMAIN staging[r] \cup DOMAIN dest = DOMAIN tree
           /\ \A f \in DOMAIN staging[r] : staging[r][f] = tree[f] /\ Top[f] \in todo[r]
           /\ \A f \in DOMAIN dest : dest[f] = tree[f]
    /\ rpc[r] = "done" => dest = tree

Destination ==
    /\ owner = Nobody => dest = Nothing
    /\ owner # Nobody /\ ~cut /\ rpc[owner] \notin Committing => rpc[owner] = "done"

RestoreInv ==
    /\ SnapshotInv
    /\ TypeOK
    /\ \A r \in Restorer : Admitted(r) /\ Placed(r)
    /\ Destination

LEMMA RestoreInitially == Init => RestoreInv
    <1> SUFFICES ASSUME Init PROVE RestoreInv
        OBVIOUS
    <1>1. SnapshotInv
        BY SnapshotInitially DEF Init
    <1>2. /\ rpc = [r \in Restorer |-> "idle"] /\ manifest = [r \in Restorer |-> Nothing]
          /\ staging = [r \in Restorer |-> Nothing] /\ todo = [r \in Restorer |-> {}]
          /\ owner = Nobody /\ dest = Nothing /\ cut = FALSE
        BY DEF Init
    <1>3. TypeOK
        BY <1>1, <1>2, NothingTree DEF TypeOK, SnapshotInv, RestorerState
    <1>4. \A r \in Restorer : Admitted(r) /\ Placed(r)
        BY <1>2 DEF Admitted, Placed, Committing
    <1>5. Destination
        BY <1>2 DEF Destination
    <1> QED BY <1>1, <1>3, <1>4, <1>5 DEF RestoreInv

(* The writers go on.                                                      *)
LEMMA SnapshotStepRestores ==
    ASSUME RestoreInv, SnapshotNext, UNCHANGED restoreVars
    PROVE  RestoreInv'
    <1>1. SnapshotInv /\ SnapshotTypeOK
        BY DEF RestoreInv, SnapshotInv
    <1>2. SnapshotInv'
        BY <1>1, SnapshotStepKeeps
    <1>3. /\ rpc' = rpc /\ manifest' = manifest /\ staging' = staging /\ todo' = todo
          /\ owner' = owner /\ dest' = dest /\ cut' = cut
        BY DEF restoreVars
    <1>4. TypeOK'
        BY <1>2, <1>3 DEF RestoreInv, TypeOK, SnapshotInv
    <1>5. ASSUME NEW r \in Restorer PROVE Admitted(r)'
        <2> SUFFICES ASSUME rpc[r] \notin {"idle", "failed"}
                     PROVE  /\ manifest[r] \in ManifestObject
                            /\ Sealed(manifest[r].snapshot_id)'
                            /\ BoundManifest(manifest[r].snapshot_id)' = manifest[r]
            BY <1>3 DEF Admitted, Sealed, BoundManifest
        <2> DEFINE g == manifest[r].snapshot_id
        <2>1. manifest[r] \in ManifestObject /\ Sealed(g) /\ BoundManifest(g) = manifest[r]
            BY DEF RestoreInv, Admitted
        <2>2. g \in Generation
            BY <2>1 DEF ManifestObject
        <2>3. /\ MarkerKey \in DOMAIN objects[g]
              /\ MarkerKey \in DOMAIN objects'[g] /\ objects'[g][MarkerKey] = objects[g][MarkerKey]
            BY <1>1, <2>1, <2>2, ObjectsGrow DEF Sealed
        <2>4. objects[g][MarkerKey] # Torn /\ objects[g][MarkerKey].manifest = manifest[r]
            BY <2>1 DEF Sealed, BoundManifest
        <2> QED BY <1>3, <2>1, <2>3, <2>4 DEF Sealed, BoundManifest
    <1>6. \A r \in Restorer : Placed(r)'
        BY <1>3 DEF RestoreInv, Placed
    <1>7. Destination'
        BY <1>3 DEF RestoreInv, Destination
    <1> QED BY <1>2, <1>4, <1>5, <1>6, <1>7 DEF RestoreInv

(* A step of the restore r, which leaves the writers alone, and owner and  *)
(* destination too unless they are its own or nobody's.                    *)
LEMMA Restores ==
    ASSUME RestoreInv, NEW r \in Restorer, UNCHANGED snapshotVars,
           rpc' \in [Restorer -> RestorerState],
           manifest' \in [Restorer -> ManifestObject \cup {Nothing}],
           staging' \in [Restorer -> Tree],
           todo' \in [Restorer -> SUBSET Entries(File)],
           owner' \in Restorer \cup {Nobody}, dest' \in Tree, cut' \in BOOLEAN,
           \A q \in Restorer : q # r =>
               /\ rpc'[q] = rpc[q] /\ manifest'[q] = manifest[q]
               /\ staging'[q] = staging[q] /\ todo'[q] = todo[q],
           owner \in {r, Nobody} \/ (owner' = owner /\ dest' = dest),
           Admitted(r)', Placed(r)', Destination'
    PROVE  RestoreInv'
    <1>1. SnapshotInv'
        BY SnapshotStutterKeeps DEF RestoreInv
    <1>2. TypeOK'
        BY <1>1 DEF TypeOK, SnapshotInv
    <1>3. objects' = objects
        BY DEF snapshotVars
    <1>4. ASSUME NEW q \in Restorer, q # r PROVE Admitted(q)'
        BY <1>3, <1>4 DEF RestoreInv, Admitted, Sealed, BoundManifest
    <1>5. ASSUME NEW q \in Restorer, q # r PROVE Placed(q)'
        <2>1. Placed(q)
            BY DEF RestoreInv
        <2>2. rpc[q] \in Committing \cup {"done"} => owner' = owner /\ dest' = dest
            BY <1>5, <2>1, NobodyAssumption DEF Placed
        <2> QED BY <1>5, <2>1, <2>2 DEF Placed, Committing
    <1> QED BY <1>1, <1>2, <1>4, <1>5 DEF RestoreInv

-----------------------------------------------------------------------------
(* The steps of a restore                                                  *)

(* What is known before a step of r.                                       *)
LEMMA RestorerFacts ==
    ASSUME RestoreInv, NEW r \in Restorer
    PROVE  /\ rpc \in [Restorer -> RestorerState]
           /\ manifest \in [Restorer -> ManifestObject \cup {Nothing}]
           /\ staging \in [Restorer -> Tree] /\ staging[r] \in Tree
           /\ todo \in [Restorer -> SUBSET Entries(File)]
           /\ owner \in Restorer \cup {Nobody} /\ dest \in Tree /\ cut \in BOOLEAN
           /\ Admitted(r) /\ Placed(r) /\ Destination /\ SnapshotInv
    BY DEF RestoreInv, TypeOK

LEMMA ArtifactsTree ==
    ASSUME RestoreInv, NEW r \in Restorer, rpc[r] \notin {"idle", "failed"}
    PROVE  /\ manifest[r].artifacts \in Tree /\ DOMAIN manifest[r].artifacts \subseteq File
           /\ \A f \in DOMAIN manifest[r].artifacts : manifest[r].artifacts[f] \in Version
    <1>1. manifest[r] \in ManifestObject
        BY RestorerFacts DEF Admitted
    <1>2. manifest[r].artifacts \in Tree
        BY <1>1 DEF ManifestObject
    <1> QED BY <1>2, TreeFacts

LEMMA AtFacts ==
    ASSUME RestoreInv, NEW r \in Restorer, NEW l, NEW m \in RestorerState, At(r, l, m)
    PROVE  /\ rpc[r] = l /\ rpc'[r] = m /\ rpc' \in [Restorer -> RestorerState]
           /\ \A q \in Restorer : q # r => rpc'[q] = rpc[q]
    BY RestorerFacts DEF At

(* A restore that is admitted keeps what it was admitted with.             *)
LEMMA AdmittedStays ==
    ASSUME RestoreInv, NEW r \in Restorer, UNCHANGED snapshotVars,
           rpc[r] \notin {"idle", "failed"}, manifest' = manifest
    PROVE  Admitted(r)'
    <1>1. Admitted(r)
        BY DEF RestoreInv
    <1> QED BY <1>1 DEF Admitted, Sealed, BoundManifest, snapshotVars

LEMMA AdmitKeeps ==
    ASSUME RestoreInv, NEW r \in Restorer, NEW g \in Generation, Admit(r, g)
    PROVE  RestoreInv'
    <1>1. /\ Verifies(g) /\ owner = Nobody /\ At(r, "idle", "fetch")
          /\ manifest' = [manifest EXCEPT ![r] = BoundManifest(g)]
          /\ UNCHANGED snapshotVars
          /\ staging' = staging /\ todo' = todo /\ owner' = owner /\ dest' = dest /\ cut' = cut
        BY DEF Admit
    <1>2. /\ Sealed(g) /\ BoundManifest(g).snapshot_id = g
          /\ BoundManifest(g) \in ManifestObject
        BY <1>1, RestorerFacts, SealedFacts DEF Verifies
    <1>3. /\ rpc[r] = "idle" /\ rpc'[r] = "fetch" /\ rpc' \in [Restorer -> RestorerState]
          /\ \A q \in Restorer : q # r => rpc'[q] = rpc[q]
        <2>1. "fetch" \in RestorerState
            BY DEF RestorerState
        <2> QED BY <1>1, <2>1, AtFacts
    <1>4. /\ manifest' \in [Restorer -> ManifestObject \cup {Nothing}]
          /\ manifest'[r] = BoundManifest(g)
          /\ \A q \in Restorer : q # r => manifest'[q] = manifest[q]
        BY <1>1, <1>2, RestorerFacts
    <1>5. Admitted(r)'
        BY <1>1, <1>2, <1>4 DEF Admitted, Sealed, BoundManifest, snapshotVars
    <1>6. Placed(r)'
        BY <1>3 DEF Placed, Committing
    <1>7. Destination'
        <2>1. Destination
            BY RestorerFacts
        <2> QED BY <1>1, <2>1 DEF Destination
    <1> QED BY <1>1, <1>3, <1>4, <1>5, <1>6, <1>7, RestorerFacts, Restores

LEMMA FetchKeeps ==
    ASSUME RestoreInv, NEW r \in Restorer, NEW f \in File, Fetch(r, f)
    PROVE  RestoreInv'
    <1> DEFINE held == objects[manifest[r].snapshot_id]
               s == Add(staging[r], f, held[f])
    <1>1. /\ At(r, "fetch", "fetch")
          /\ f \in DOMAIN manifest[r].artifacts
          /\ held[f] = manifest[r].artifacts[f]
          /\ staging' = [staging EXCEPT ![r] = s]
          /\ UNCHANGED snapshotVars
          /\ manifest' = manifest /\ todo' = todo /\ owner' = owner /\ dest' = dest /\ cut' = cut
        BY DEF Fetch
    <1>2. /\ rpc[r] = "fetch" /\ rpc'[r] = "fetch" /\ rpc' \in [Restorer -> RestorerState]
          /\ \A q \in Restorer : q # r => rpc'[q] = rpc[q]
        <2>1. "fetch" \in RestorerState
            BY DEF RestorerState
        <2> QED BY <1>1, <2>1, AtFacts
    <1>3. held[f] \in Version
        BY <1>1, <1>2, ArtifactsTree
    <1>4. s \in Tree
        BY <1>3, RestorerFacts, AddTree
    <1> HIDE DEF s
    <1>5. /\ staging' \in [Restorer -> Tree]
          /\ \A q \in Restorer : q # r => staging'[q] = staging[q]
        BY <1>1, <1>4, RestorerFacts
    <1>6. Admitted(r)'
        BY <1>1, <1>2, AdmittedStays
    <1>7. Placed(r)'
        BY <1>2 DEF Placed, Committing
    <1>8. Destination'
        <2>1. Destination
            BY RestorerFacts
        <2>2. owner # Nobody => rpc'[owner] = rpc[owner]
            BY <1>2, RestorerFacts
        <2> QED BY <1>1, <2>1, <2>2 DEF Destination
    <1> QED BY <1>1, <1>2, <1>5, <1>6, <1>7, <1>8, RestorerFacts, Restores

LEMMA ProveKeeps ==
    ASSUME RestoreInv, NEW r \in Restorer, Prove(r)
    PROVE  RestoreInv'
    <1>1. /\ At(r, "fetch", "proved") /\ staging[r] = manifest[r].artifacts
          /\ UNCHANGED snapshotVars
          /\ manifest' = manifest /\ staging' = staging /\ todo' = todo
          /\ owner' = owner /\ dest' = dest /\ cut' = cut
        BY DEF Prove, Proved
    <1>2. /\ rpc[r] = "fetch" /\ rpc'[r] = "proved" /\ rpc' \in [Restorer -> RestorerState]
          /\ \A q \in Restorer : q # r => rpc'[q] = rpc[q]
        <2>1. "proved" \in RestorerState
            BY DEF RestorerState
        <2> QED BY <1>1, <2>1, AtFacts
    <1>3. Admitted(r)'
        BY <1>1, <1>2, AdmittedStays
    <1>4. Placed(r)'
        BY <1>1, <1>2 DEF Placed, Committing
    <1>5. Destination'
        <2>1. Destination
            BY RestorerFacts
        <2>2. owner # Nobody /\ ~cut => rpc[owner] # "fetch" /\ rpc'[owner] = rpc[owner]
            BY <1>2, <2>1, RestorerFacts DEF Destination, Committing
        <2> QED BY <1>1, <2>1, <2>2 DEF Destination
    <1> QED BY <1>1, <1>2, <1>3, <1>4, <1>5, RestorerFacts, Restores

LEMMA MakeDestinationKeeps ==
    ASSUME RestoreInv, NEW r \in Restorer, MakeDestination(r)
    PROVE  RestoreInv'
    <1>1. /\ At(r, "proved", "made") /\ owner = Nobody /\ owner' = r
          /\ UNCHANGED snapshotVars
          /\ manifest' = manifest /\ staging' = staging /\ todo' = todo
          /\ dest' = dest /\ cut' = cut
        BY DEF MakeDestination
    <1>2. /\ rpc[r] = "proved" /\ rpc'[r] = "made" /\ rpc' \in [Restorer -> RestorerState]
          /\ \A q \in Restorer : q # r => rpc'[q] = rpc[q]
        <2>1. "made" \in RestorerState
            BY DEF RestorerState
        <2> QED BY <1>1, <2>1, AtFacts
    <1>3. Admitted(r)'
        BY <1>1, <1>2, AdmittedStays
    <1>4. Placed(r)'
        <2>1. Placed(r) /\ Destination
            BY RestorerFacts
        <2> QED BY <1>1, <1>2, <2>1 DEF Placed, Committing, Destination
    <1>5. Destination'
        BY <1>1, <1>2, NobodyAssumption DEF Destination, Committing
    <1> QED BY <1>1, <1>2, <1>3, <1>4, <1>5, RestorerFacts, Restores

LEMMA OpenDestinationKeeps ==
    ASSUME RestoreInv, NEW r \in Restorer, OpenDestination(r)
    PROVE  RestoreInv'
    <1>1. /\ At(r, "made", "moving")
          /\ todo' = [todo EXCEPT ![r] = Entries(DOMAIN staging[r])]
          /\ UNCHANGED snapshotVars
          /\ manifest' = manifest /\ staging' = staging /\ owner' = owner
          /\ dest' = dest /\ cut' = cut
        BY DEF OpenDestination
    <1>2. /\ rpc[r] = "made" /\ rpc'[r] = "moving" /\ rpc' \in [Restorer -> RestorerState]
          /\ \A q \in Restorer : q # r => rpc'[q] = rpc[q]
        <2>1. "moving" \in RestorerState
            BY DEF RestorerState
        <2> QED BY <1>1, <2>1, AtFacts
    <1>3. DOMAIN staging[r] \in SUBSET File
        BY RestorerFacts, TreeFacts
    <1>4. /\ todo' \in [Restorer -> SUBSET Entries(File)]
          /\ todo'[r] = Entries(DOMAIN staging[r])
          /\ \A q \in Restorer : q # r => todo'[q] = todo[q]
        BY <1>1, <1>3, RestorerFacts, EntriesFacts
    <1>5. Admitted(r)'
        BY <1>1, <1>2, AdmittedStays
    <1>6. Placed(r)'
        <2>1. owner = r /\ staging[r] = manifest[r].artifacts /\ dest = Nothing
            BY <1>2, RestorerFacts DEF Placed, Committing
        <2>2. \A f \in DOMAIN staging[r] : Top[f] \in todo'[r]
            BY <1>3, <1>4, EntriesFacts
        <2> QED BY <1>1, <1>2, <2>1, <2>2, NothingTree DEF Placed, Committing
    <1>7. Destination'
        <2>1. owner = r
            BY <1>2, RestorerFacts DEF Placed, Committing
        <2> QED BY <1>1, <1>2, <2>1, NobodyAssumption DEF Destination, Committing
    <1> QED BY <1>1, <1>2, <1>4, <1>5, <1>6, <1>7, RestorerFacts, Restores

(* A restore that fails, and what becomes of owner and cut.                *)
LEMMA FailKeeps ==
    ASSUME RestoreInv, NEW r \in Restorer, Fail(r),
           \/ owner' = owner /\ cut' = TRUE /\ owner = r
           \/ owner' = Nobody /\ cut' = cut /\ owner = r /\ DOMAIN dest = {}
           \/ owner' = owner /\ cut' = cut /\ rpc[r] \in {"fetch", "proved"}
    PROVE  RestoreInv'
    <1>1. /\ At(r, rpc[r], "failed")
          /\ manifest' = [manifest EXCEPT ![r] = Nothing]
          /\ staging' = [staging EXCEPT ![r] = Nothing]
          /\ todo' = [todo EXCEPT ![r] = {}]
          /\ UNCHANGED snapshotVars /\ dest' = dest
        BY DEF Fail
    <1>2. /\ rpc'[r] = "failed" /\ rpc' \in [Restorer -> RestorerState]
          /\ \A q \in Restorer : q # r => rpc'[q] = rpc[q]
        <2>1. "failed" \in RestorerState
            BY DEF RestorerState
        <2> QED BY <1>1, <2>1, AtFacts
    <1>3. /\ manifest' \in [Restorer -> ManifestObject \cup {Nothing}]
          /\ staging' \in [Restorer -> Tree]
          /\ todo' \in [Restorer -> SUBSET Entries(File)]
          /\ \A q \in Restorer : q # r => manifest'[q] = manifest[q]
                                          /\ staging'[q] = staging[q] /\ todo'[q] = todo[q]
        BY <1>1, RestorerFacts, NothingTree
    <1>4. Admitted(r)' /\ Placed(r)'
        BY <1>2 DEF Admitted, Placed, Committing
    <1>5. /\ owner' \in Restorer \cup {Nobody} /\ cut' \in BOOLEAN
          /\ owner \in {r, Nobody} \/ (owner' = owner /\ dest' = dest)
        BY <1>1, RestorerFacts
    <1>6. Destination'
        <2>1. Destination
            BY RestorerFacts
        <2>2. CASE owner' = owner /\ cut' = TRUE /\ owner = r
            BY <2>2, NobodyAssumption DEF Destination
        <2>3. CASE owner' = Nobody /\ DOMAIN dest = {}
            <3>1. dest = Nothing
                BY <2>3, RestorerFacts, EmptyTree
            <3> QED BY <1>1, <2>3, <3>1 DEF Destination
        <2>4. CASE owner' = owner /\ cut' = cut /\ rpc[r] \in {"fetch", "proved"}
            <3>1. owner # Nobody /\ ~cut => owner # r
                BY <2>1, <2>4 DEF Destination, Committing
            <3>2. owner # Nobody /\ ~cut => rpc'[owner] = rpc[owner]
                BY <1>2, <3>1, RestorerFacts
            <3> QED BY <1>1, <2>1, <2>4, <3>2 DEF Destination
        <2> QED BY <2>2, <2>3, <2>4
    <1> QED BY <1>1, <1>2, <1>3, <1>4, <1>5, <1>6, RestorerFacts, Restores

LEMMA MoveKeeps ==
    ASSUME RestoreInv, NEW r \in Restorer, NEW e, Move(r, e)
    PROVE  RestoreInv'
    <1> DEFINE tree == manifest[r].artifacts
               b == Below(staging[r], e)
               o == Without(staging[r], e)
    <1>1. /\ At(r, "moving", "moving")
          /\ dest' = Join(b, dest)
          /\ staging' = [staging EXCEPT ![r] = o]
          /\ todo' = [todo EXCEPT ![r] = @ \ {e}]
          /\ UNCHANGED snapshotVars
          /\ manifest' = manifest /\ owner' = owner /\ cut' = cut
        BY DEF Move
    <1>2. /\ b \in Tree /\ DOMAIN b = {f \in DOMAIN staging[r] : Top[f] = e}
          /\ \A f \in DOMAIN b : b[f] = staging[r][f]
          /\ o \in Tree /\ DOMAIN o = {f \in DOMAIN staging[r] : Top[f] # e}
          /\ \A f \in DOMAIN o : o[f] = staging[r][f]
        <2>1. staging[r] \in Tree
            BY RestorerFacts
        <2>2. /\ b \in Tree /\ DOMAIN b = {f \in DOMAIN staging[r] : Top[f] = e}
              /\ \A f \in DOMAIN b : b[f] = staging[r][f]
            BY <2>1, BelowFacts
        <2>3. /\ o \in Tree /\ DOMAIN o = {f \in DOMAIN staging[r] : Top[f] # e}
              /\ \A f \in DOMAIN o : o[f] = staging[r][f]
            BY <2>1, WithoutFacts
        <2> QED BY <2>2, <2>3
    <1> HIDE DEF b, o
    <1>3. /\ dest' \in Tree /\ DOMAIN dest' = DOMAIN b \cup DOMAIN dest
          /\ \A f \in DOMAIN b : dest'[f] = b[f]
          /\ \A f \in DOMAIN dest \ DOMAIN b : dest'[f] = dest[f]
        <2>1. b \in Tree /\ dest \in Tree
            BY <1>2, RestorerFacts
        <2>2. /\ Join(b, dest) \in Tree /\ DOMAIN Join(b, dest) = DOMAIN b \cup DOMAIN dest
              /\ \A f \in DOMAIN b : Join(b, dest)[f] = b[f]
              /\ \A f \in DOMAIN dest \ DOMAIN b : Join(b, dest)[f] = dest[f]
            BY <2>1, JoinFacts
        <2> QED BY <1>1, <2>2
    <1>4. /\ rpc[r] = "moving" /\ rpc'[r] = "moving" /\ rpc' \in [Restorer -> RestorerState]
          /\ \A q \in Restorer : q # r => rpc'[q] = rpc[q]
        <2>1. "moving" \in RestorerState
            BY DEF RestorerState
        <2> QED BY <1>1, <2>1, AtFacts
    <1>5. /\ staging' \in [Restorer -> Tree] /\ staging'[r] = o
          /\ todo' \in [Restorer -> SUBSET Entries(File)] /\ todo'[r] = todo[r] \ {e}
          /\ \A q \in Restorer : q # r => staging'[q] = staging[q] /\ todo'[q] = todo[q]
        BY <1>1, <1>2, RestorerFacts
    <1>6. Admitted(r)'
        BY <1>1, <1>4, AdmittedStays
    <1>7. /\ owner = r
          /\ DOMAIN staging[r] \cup DOMAIN dest = DOMAIN tree
          /\ \A f \in DOMAIN staging[r] : staging[r][f] = tree[f] /\ Top[f] \in todo[r]
          /\ \A f \in DOMAIN dest : dest[f] = tree[f]
        BY <1>4, RestorerFacts DEF Placed, Committing
    <1>8. Placed(r)'
        <2>1. DOMAIN o \cup DOMAIN dest' = DOMAIN tree
            BY <1>2, <1>3, <1>7
        <2>2. \A f \in DOMAIN o : o[f] = tree[f] /\ Top[f] \in todo'[r]
            BY <1>2, <1>5, <1>7
        <2>3. \A f \in DOMAIN dest' : dest'[f] = tree[f]
            BY <1>2, <1>3, <1>7
        <2> QED BY <1>1, <1>4, <1>5, <1>7, <2>1, <2>2, <2>3 DEF Placed, Committing
    <1>9. Destination'
        BY <1>1, <1>4, <1>7, NobodyAssumption DEF Destination, Committing
    <1> QED BY <1>1, <1>3, <1>4, <1>5, <1>6, <1>7, <1>8, <1>9, RestorerFacts, Restores

LEMMA RestoredKeeps ==
    ASSUME RestoreInv, NEW r \in Restorer, Restored(r)
    PROVE  RestoreInv'
    <1>1. /\ At(r, "moving", "done") /\ todo[r] = {}
          /\ UNCHANGED snapshotVars
          /\ manifest' = manifest /\ staging' = staging /\ todo' = todo
          /\ owner' = owner /\ dest' = dest /\ cut' = cut
        BY DEF Restored
    <1>2. /\ rpc[r] = "moving" /\ rpc'[r] = "done" /\ rpc' \in [Restorer -> RestorerState]
          /\ \A q \in Restorer : q # r => rpc'[q] = rpc[q]
        <2>1. "done" \in RestorerState
            BY DEF RestorerState
        <2> QED BY <1>1, <2>1, AtFacts
    <1>3. Admitted(r)'
        BY <1>1, <1>2, AdmittedStays
    <1>4. /\ owner = r
          /\ DOMAIN staging[r] \cup DOMAIN dest = DOMAIN manifest[r].artifacts
          /\ \A f \in DOMAIN staging[r] : Top[f] \in todo[r]
          /\ \A f \in DOMAIN dest : dest[f] = manifest[r].artifacts[f]
        BY <1>2, RestorerFacts DEF Placed, Committing
    <1>5. dest = manifest[r].artifacts
        <2>1. DOMAIN dest = DOMAIN manifest[r].artifacts
            BY <1>1, <1>4
        <2>2. manifest[r].artifacts \in Tree
            BY <1>2, ArtifactsTree
        <2>3. dest \in Tree
            BY RestorerFacts
        <2> QED BY <1>4, <2>1, <2>2, <2>3, TreeEqual
    <1>6. Placed(r)'
        BY <1>1, <1>2, <1>4, <1>5 DEF Placed, Committing
    <1>7. Destination'
        BY <1>1, <1>2, <1>4, NobodyAssumption DEF Destination
    <1> QED BY <1>1, <1>2, <1>3, <1>4, <1>6, <1>7, RestorerFacts, Restores

(* The rollback, which may leave anything of the tree behind.              *)
LEMMA UndoKeeps ==
    ASSUME RestoreInv, NEW r \in Restorer, NEW l \in {"moving", "undo"}, At(r, l, "undo"),
           UNCHANGED snapshotVars, manifest' = manifest, owner' = owner, cut' = cut,
           staging' \in [Restorer -> Tree], dest' \in Tree,
           todo' \in [Restorer -> SUBSET Entries(File)],
           \A q \in Restorer : q # r => staging'[q] = staging[q] /\ todo'[q] = todo[q]
    PROVE  RestoreInv'
    <1>1. /\ rpc[r] = l /\ rpc'[r] = "undo" /\ rpc' \in [Restorer -> RestorerState]
          /\ \A q \in Restorer : q # r => rpc'[q] = rpc[q]
        <2>1. "undo" \in RestorerState
            BY DEF RestorerState
        <2> QED BY <2>1, AtFacts
    <1>2. owner = r
        BY <1>1, RestorerFacts DEF Placed, Committing
    <1>3. Admitted(r)'
        BY <1>1, AdmittedStays
    <1>4. Placed(r)'
        BY <1>1, <1>2 DEF Placed, Committing
    <1>5. Destination'
        BY <1>1, <1>2, NobodyAssumption DEF Destination, Committing
    <1> QED BY <1>1, <1>2, <1>3, <1>4, <1>5, RestorerFacts, Restores

LEMMA RollbackKeeps ==
    ASSUME RestoreInv, NEW r \in Restorer, NEW e,
           MoveFails(r) \/ MoveBack(r, e) \/ MoveBackFails(r, e)
    PROVE  RestoreInv'
    <1>1. CASE MoveFails(r)
        <2>1. DOMAIN dest \in SUBSET File
            BY RestorerFacts, TreeFacts
        <2>2. todo' = [todo EXCEPT ![r] = Entries(DOMAIN dest)]
            BY <1>1 DEF MoveFails
        <2>3. /\ todo' \in [Restorer -> SUBSET Entries(File)]
              /\ \A q \in Restorer : q # r => todo'[q] = todo[q]
            BY <2>1, <2>2, RestorerFacts, EntriesFacts
        <2> QED BY <1>1, <2>3, RestorerFacts, UndoKeeps DEF MoveFails
    <1>2. CASE MoveBack(r, e)
        <2> DEFINE s == Join(Below(dest, e), staging[r])
        <2>1. s \in Tree /\ Without(dest, e) \in Tree
            BY RestorerFacts, BelowFacts, WithoutFacts, JoinFacts
        <2>2. /\ staging' = [staging EXCEPT ![r] = s] /\ dest' = Without(dest, e)
              /\ todo' = [todo EXCEPT ![r] = @ \ {e}]
            BY <1>2 DEF MoveBack
        <2> HIDE DEF s
        <2>3. /\ staging' \in [Restorer -> Tree] /\ dest' \in Tree
              /\ todo' \in [Restorer -> SUBSET Entries(File)]
              /\ \A q \in Restorer : q # r => staging'[q] = staging[q] /\ todo'[q] = todo[q]
            BY <2>1, <2>2, RestorerFacts
        <2> QED BY <1>2, <2>3, UndoKeeps DEF MoveBack
    <1>3. CASE MoveBackFails(r, e)
        <2>1. todo' = [todo EXCEPT ![r] = @ \ {e}]
            BY <1>3 DEF MoveBackFails
        <2>2. /\ todo' \in [Restorer -> SUBSET Entries(File)]
              /\ \A q \in Restorer : q # r => todo'[q] = todo[q]
            BY <2>1, RestorerFacts
        <2> QED BY <1>3, <2>2, RestorerFacts, UndoKeeps DEF MoveBackFails
    <1> QED BY <1>1, <1>2, <1>3

LEMMA FailuresKeep ==
    ASSUME RestoreInv, NEW r \in Restorer,
           OpenFails(r) \/ RemoveDestination(r) \/ RemoveFails(r) \/ GiveUp(r) \/ Crash(r)
    PROVE  RestoreInv'
    <1>1. rpc[r] \in Committing => owner = r
        BY RestorerFacts DEF Placed
    <1> QED BY <1>1, FailKeeps
            DEF OpenFails, RemoveDestination, RemoveFails, GiveUp, Crash, Committing

LEMMA RestoreStepKeeps ==
    ASSUME RestoreInv, NEW r \in Restorer, RestoreStep(r)
    PROVE  RestoreInv'
    BY AdmitKeeps, FetchKeeps, ProveKeeps, MakeDestinationKeeps, OpenDestinationKeeps,
       MoveKeeps, RestoredKeeps, RollbackKeeps, FailuresKeep DEF RestoreStep

LEMMA RestoreStutterKeeps ==
    ASSUME RestoreInv, UNCHANGED vars
    PROVE  RestoreInv'
    <1>1. UNCHANGED snapshotVars /\ UNCHANGED restoreVars
        BY DEF vars
    <1>2. SnapshotInv'
        BY <1>1, SnapshotStutterKeeps DEF RestoreInv
    <1>3. objects' = objects
        BY <1>1 DEF snapshotVars
    <1>4. TypeOK'
        BY <1>1, <1>2 DEF RestoreInv, TypeOK, SnapshotInv, restoreVars
    <1> QED BY <1>1, <1>2, <1>3, <1>4
            DEF RestoreInv, Admitted, Placed, Destination, Sealed, BoundManifest, restoreVars

LEMMA InvIsWhole == RestoreInv => RestoredIsWhole
    <1> SUFFICES ASSUME RestoreInv PROVE RestoredIsWhole
        OBVIOUS
    <1>1. ASSUME NEW r \in Restorer, rpc[r] = "done"
          PROVE  owner = r /\ dest = manifest[r].artifacts /\ OneMoment(manifest[r])
        <2>1. /\ manifest[r].snapshot_id \in Generation
              /\ Sealed(manifest[r].snapshot_id)
              /\ BoundManifest(manifest[r].snapshot_id) = manifest[r]
            BY <1>1, RestorerFacts DEF Admitted, ManifestObject
        <2>2. OneMoment(BoundManifest(manifest[r].snapshot_id))
            BY <2>1, RestorerFacts, SealedFacts
        <2> QED BY <1>1, <2>1, <2>2, RestorerFacts DEF Placed
    <1>2. Destination
        BY DEF RestoreInv
    <1> QED BY <1>1, <1>2 DEF RestoredIsWhole, Destination

-----------------------------------------------------------------------------
(* Theorems                                                                *)

(* The inductive invariant holds of any writers and restores together.     *)
THEOREM RestoreInvariance == Spec => []RestoreInv
    <1>1. RestoreInv /\ [Next]_vars => RestoreInv'
        <2> SUFFICES ASSUME RestoreInv, [Next]_vars PROVE RestoreInv'
            OBVIOUS
        <2>1. CASE SnapshotNext /\ UNCHANGED restoreVars
            BY <2>1, SnapshotStepRestores
        <2>2. CASE \E r \in Restorer : RestoreStep(r)
            BY <2>2, RestoreStepKeeps
        <2>3. CASE UNCHANGED vars
            BY <2>3, RestoreStutterKeeps
        <2> QED BY <2>1, <2>2, <2>3 DEF Next
    <1> QED BY RestoreInitially, <1>1, PTL DEF Spec

(* The type invariant of writers, generations and restores (writeSnapshot, *)
(* executeRestore).                                                        *)
THEOREM RestoreTyped == Spec => []TypeOK
    <1>1. RestoreInv => TypeOK
        BY DEF RestoreInv
    <1> QED BY RestoreInvariance, <1>1, PTL

(* Restores in between, a sealed generation verifies and is one moment     *)
(* (writeSnapshot, verifySnapshot).                                        *)
THEOREM SealedGenerationsKept == Spec => []SealedIsOneMoment
    <1>1. RestoreInv => SealedIsOneMoment
        BY InvIsOneMoment DEF RestoreInv
    <1> QED BY RestoreInvariance, <1>1, PTL

(* A restore that reported success left a whole tree of one moment         *)
(* (executeRestore, commitStagedRoot).                                     *)
THEOREM RestoredTrees == Spec => []RestoredIsWhole
    BY RestoreInvariance, InvIsWhole, PTL
=============================================================================

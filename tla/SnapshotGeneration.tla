------------------------- MODULE SnapshotGeneration -------------------------
(***************************************************************************)
(* The Stage D backup (market_evidence/backup): writeSnapshot copies the   *)
(* governed files, which keep changing, into one immutable generation of a *)
(* store that only ever adds objects, and seals it with a completeness     *)
(* marker that is written last; verifySnapshot says which generations may  *)
(* be restored.  Several writers may be given the same generation id; they *)
(* are given the same inputs.                                              *)
(*                                                                         *)
(* A content is the number of the version of its file it is the content    *)
(* of: the content of a file does not come back after it was replaced.  A  *)
(* hash is what it is a hash of.  The code copies the files in the order of *)
(* their logical paths; its other passes go from one group of files to the *)
(* next, here in any order.                                                *)
(***************************************************************************)
EXTENDS Naturals

CONSTANTS
    Writer,
    Generation,    \* generation ids
    File,          \* governed files, by logical path
    First,         \* the quota configuration
    PathOrder,     \* position of a file's logical path: config/... comes first
    Identified,    \* the files the identity tuple binds: all but the run state
    LastVersion,   \* bound: how often each file changes
    AbsentAt,      \* the version of a file in which it is not there
    Torn           \* an object whose writer stopped inside the write

ManifestKey == "SNAPSHOT_MANIFEST"
MarkerKey   == "COMPLETE"

ASSUME FileAssumption ==
    /\ First \in Identified
    /\ Identified \subseteq File
    /\ ManifestKey \notin File /\ MarkerKey \notin File
    /\ LastVersion \in [File -> Nat]
    /\ AbsentAt \in [File -> Nat]
    /\ PathOrder \in [File -> Nat]
    /\ \A f \in File \ {First} : PathOrder[First] < PathOrder[f]

VARIABLES
    source,   \* the governed files: the version each of them is in
    objects,  \* the objects of each generation, by key
    wpc, job, \* where each writer is, and the locals of writeSnapshot
    moment    \* history: the source when each writer had copied the last file

snapshotVars == <<source, objects, wpc, job, moment>>

Present(s) == {f \in File : s[f] # AbsentAt[f]}

Nothing == [f \in {} |-> 0]

Add(fn, k, v) == [x \in DOMAIN fn \cup {k} |-> IF x = k THEN v ELSE fn[x]]

-----------------------------------------------------------------------------
(* The source                                                              *)

(* The publisher adds a package, a cycle a ledger entry; the operator      *)
(* replaces a configuration, a run its state.                              *)
Change(f) ==
    /\ source[f] < LastVersion[f]
    /\ source' = [source EXCEPT ![f] = @ + 1]
    /\ UNCHANGED <<objects, wpc, job, moment>>

-----------------------------------------------------------------------------
(* The verifier                                                            *)

Sealed(g) == MarkerKey \in DOMAIN objects[g] /\ objects[g][MarkerKey] # Torn

(* The manifest the marker binds.                                          *)
BoundManifest(g) == objects[g][MarkerKey].manifest

ArtifactsIntact(g) ==
    \A f \in DOMAIN BoundManifest(g).artifacts :
        f \in DOMAIN objects[g] /\ objects[g][f] = BoundManifest(g).artifacts[f]

(* Nothing but what the manifest accounts for, and all of it.              *)
ObjectSetExact(g) ==
    DOMAIN objects[g] = DOMAIN BoundManifest(g).artifacts \cup {ManifestKey, MarkerKey}

Verifies(g) ==
    /\ Sealed(g)
    /\ BoundManifest(g).snapshot_id = g
    /\ ManifestKey \in DOMAIN objects[g]
    /\ objects[g][ManifestKey] = BoundManifest(g)
    /\ ArtifactsIntact(g)
    /\ First \in DOMAIN BoundManifest(g).artifacts
    /\ ObjectSetExact(g)

-----------------------------------------------------------------------------
(* The writer                                                              *)

IdleJob(g) == [gen |-> g, left |-> {}, inputs |-> {}, before |-> Nothing, copied |-> Nothing]

SnapshotInit ==
    /\ source = [f \in File |-> 0]
    /\ objects = [g \in Generation |-> Nothing]
    /\ wpc = [w \in Writer |-> "idle"]
    /\ job \in [Writer -> {IdleJob(g) : g \in Generation}]
    /\ moment = [w \in Writer |-> source]

Goto(w, l) == wpc' = [wpc EXCEPT ![w] = l]

(* A pass over the files in fs begins.                                     *)
Pass(w, l, fs, j) ==
    /\ Goto(w, l)
    /\ job' = [job EXCEPT ![w] = [j EXCEPT !.left = fs]]

(* assertGenerationAbsent, then the first enumeration begins.              *)
Start(w) ==
    /\ wpc[w] = "idle"
    /\ DOMAIN objects[job[w].gen] = {}
    /\ Pass(w, "enumerate", File, job[w])
    /\ UNCHANGED <<source, objects, moment>>

(* f is a file that pass l may visit next.                                 *)
Visit(w, l, f) == wpc[w] = l /\ f \in job[w].left

(* job after f was visited and j changed accordingly.                      *)
Visited(w, f, j) == job' = [job EXCEPT ![w] = [j EXCEPT !.left = @ \ {f}]]

(* enumerateSnapshotInputs: inputsBefore.                                  *)
Enumerate(w, f) ==
    /\ Visit(w, "enumerate", f)
    /\ Visited(w, f, [job[w] EXCEPT !.inputs =
                         IF f \in Present(source) THEN @ \cup {f} ELSE @])
    /\ UNCHANGED <<source, objects, wpc, moment>>

Enumerated(w) ==
    /\ wpc[w] = "enumerate" /\ job[w].left = {}
    /\ First \in job[w].inputs
    /\ Pass(w, "identify", Identified, job[w])
    /\ UNCHANGED <<source, objects, moment>>

(* captureSourceIdentity: identityBefore.                                  *)
Identify(w, f) ==
    /\ Visit(w, "identify", f)
    /\ Visited(w, f, [job[w] EXCEPT !.before = Add(@, f, source[f])])
    /\ UNCHANGED <<source, objects, wpc, moment>>

IdentityTaken(w) ==
    /\ wpc[w] = "identify" /\ job[w].left = {}
    /\ Pass(w, "copy", job[w].inputs, job[w])
    /\ UNCHANGED <<source, objects, moment>>

(* The writer returns, stops with an error, or dies: its locals are gone.  *)
End(w, l) ==
    /\ Goto(w, l)
    /\ job' = [job EXCEPT ![w] = IdleJob(@.gen)]
    /\ UNCHANGED <<source, moment>>

(* writeObjectCreateOnly: what a put leaves behind.  The object is written *)
(* and read back; or the writer stops with an error after writing it,      *)
(* inside the write, or because the key was taken.                         *)
Put(w, key, content) ==
    /\ key \notin DOMAIN objects[job[w].gen]
    /\ objects' = [objects EXCEPT ![job[w].gen] = Add(@, key, content)]

PutFails(w, key, content) ==
    /\ \E c \in {content, Torn} : Put(w, key, c)
    /\ End(w, "failed")

KeyTaken(w, key) ==
    /\ key \in DOMAIN objects[job[w].gen]
    /\ End(w, "failed")
    /\ UNCHANGED objects

(* Files are copied in the order of their logical paths.                   *)
NextToCopy(w, f) ==
    /\ Visit(w, "copy", f)
    /\ \A x \in job[w].left : PathOrder[f] <= PathOrder[x]
    /\ f \in Present(source)

Copy(w, f) ==
    /\ NextToCopy(w, f)
    /\ Put(w, f, source[f])
    /\ Visited(w, f, [job[w] EXCEPT !.copied = Add(@, f, source[f])])
    /\ UNCHANGED <<source, wpc, moment>>

Copied(w) ==
    /\ wpc[w] = "copy" /\ job[w].left = {}
    /\ Pass(w, "identifyAgain", Identified, job[w])
    /\ moment' = [moment EXCEPT ![w] = source]
    /\ UNCHANGED <<source, objects>>

(* identityAfter, which must be identityBefore.                            *)
IdentifyAgain(w, f) ==
    /\ Visit(w, "identifyAgain", f)
    /\ source[f] = job[w].before[f]
    /\ Visited(w, f, job[w])
    /\ UNCHANGED <<source, objects, wpc, moment>>

IdentityKept(w) ==
    /\ wpc[w] = "identifyAgain" /\ job[w].left = {}
    /\ Pass(w, "enumerateAgain", File, job[w])
    /\ UNCHANGED <<source, objects, moment>>

(* inputsAfter: the same files are there ...                               *)
EnumerateAgain(w, f) ==
    /\ Visit(w, "enumerateAgain", f)
    /\ (f \in Present(source)) = (f \in job[w].inputs)
    /\ Visited(w, f, job[w])
    /\ UNCHANGED <<source, objects, wpc, moment>>

EnumeratedAgain(w) ==
    /\ wpc[w] = "enumerateAgain" /\ job[w].left = {}
    /\ Pass(w, "reread", job[w].inputs, job[w])
    /\ UNCHANGED <<source, objects, moment>>

(* Mutant: the files are listed again and not read again. *)
Reread_ListOnly(w, f) ==
    /\ Visit(w, "reread", f)
    /\ Visited(w, f, job[w])
    /\ UNCHANGED <<source, objects, wpc, moment>>

(* ... and each of them holds what was copied.                             *)
Reread(w, f) ==
    /\ Visit(w, "reread", f)
    /\ source[f] = job[w].copied[f]
    /\ Visited(w, f, job[w])
    /\ UNCHANGED <<source, objects, wpc, moment>>

Survived(w) ==
    /\ wpc[w] = "reread" /\ job[w].left = {}
    /\ Goto(w, "manifest")
    /\ UNCHANGED <<source, objects, job, moment>>

(* buildSnapshotManifest; its time of creation sets it apart from that of  *)
(* any other writer.                                                       *)
Manifest(w) ==
    [snapshot_id |-> job[w].gen, artifacts |-> job[w].copied,
     identity |-> job[w].before, by |-> w]

(* Mutant: the manifest goes under the key of the marker. *)
WriteManifest_AsMarker(w) ==
    /\ wpc[w] = "manifest"
    /\ Put(w, MarkerKey, Manifest(w))
    /\ Goto(w, "marker")
    /\ UNCHANGED <<source, job, moment>>

WriteManifest(w) ==
    /\ wpc[w] = "manifest"
    /\ Put(w, ManifestKey, Manifest(w))
    /\ Goto(w, "marker")
    /\ UNCHANGED <<source, job, moment>>

(* buildCompletenessMarker *)
Marker(w) == [manifest |-> Manifest(w)]

WriteMarker(w) ==
    /\ wpc[w] = "marker"
    /\ Put(w, MarkerKey, Marker(w))
    /\ End(w, "done")

(* A write that goes wrong.                                                *)
WriteFails(w) ==
    \/ \E f \in File : NextToCopy(w, f) /\ (PutFails(w, f, source[f]) \/ KeyTaken(w, f))
    \/ wpc[w] = "manifest" /\ (PutFails(w, ManifestKey, Manifest(w)) \/ KeyTaken(w, ManifestKey))
    \/ wpc[w] = "marker" /\ (PutFails(w, MarkerKey, Marker(w)) \/ KeyTaken(w, MarkerKey))

(* Between two writes the writer dies, a read fails, or a comparison does. *)
Stop(w) ==
    /\ wpc[w] \notin {"idle", "done", "failed"}
    /\ End(w, "failed")
    /\ UNCHANGED objects

WriterStep(w) ==
    \/ Start(w) \/ Enumerated(w) \/ IdentityTaken(w) \/ Copied(w)
    \/ IdentityKept(w) \/ EnumeratedAgain(w) \/ Survived(w)
    \/ WriteManifest(w) \/ WriteMarker(w) \/ WriteFails(w) \/ Stop(w)
    \/ \E f \in File :
          \/ Enumerate(w, f) \/ Identify(w, f) \/ Copy(w, f)
          \/ IdentifyAgain(w, f) \/ EnumerateAgain(w, f) \/ Reread(w, f)

SnapshotNext == (\E f \in File : Change(f)) \/ (\E w \in Writer : WriterStep(w))

SnapshotSpec == SnapshotInit /\ [][SnapshotNext]_snapshotVars

-----------------------------------------------------------------------------
(* Properties                                                              *)

Version == UNION {0 .. LastVersion[f] : f \in File}

Tree == UNION {[fs -> Version] : fs \in SUBSET File}

ManifestObject == [snapshot_id : Generation, artifacts : Tree, identity : Tree, by : Writer]

MarkerObject == [manifest : ManifestObject]

Contents(key) ==
    {Torn} \cup IF key = ManifestKey THEN ManifestObject
                ELSE IF key = MarkerKey THEN MarkerObject ELSE Version

ASSUME TornAssumption == Torn \notin MarkerObject

Locals == [gen : Generation, left : SUBSET File, inputs : SUBSET File,
           before : Tree, copied : Tree]

WriterState ==
    {"idle", "enumerate", "identify", "copy", "identifyAgain", "enumerateAgain",
     "reread", "manifest", "marker", "done", "failed"}

SnapshotTypeOK ==
    /\ source \in [File -> Version] /\ \A f \in File : source[f] <= LastVersion[f]
    /\ DOMAIN objects = Generation
    /\ \A g \in Generation :
           /\ DOMAIN objects[g] \subseteq File \cup {ManifestKey, MarkerKey}
           /\ \A key \in DOMAIN objects[g] : objects[g][key] \in Contents(key)
    /\ wpc \in [Writer -> WriterState]
    /\ job \in [Writer -> Locals]
    /\ moment \in [Writer -> [File -> Version]]

(* A manifest describes the source as it was in the state s: the files     *)
(* that were there, their contents, and the identity.                      *)
Describes(m, s) ==
    /\ DOMAIN m.artifacts = Present(s)
    /\ \A f \in Present(s) : m.artifacts[f] = s[f]
    /\ \A f \in Identified : m.identity[f] = s[f]

OneMoment(m) == Describes(m, moment[m.by])

(* SAFETY.  A completeness marker alone is enough: whoever wrote it,       *)
(* whether or not the writer lived to report success, and whatever other   *)
(* writers tried the same generation id, the generation passes the         *)
(* verifier, and its files and its identity are those the source had in    *)
(* one single moment, when the last file had been copied (writeSnapshot:   *)
(* identity, copy, identity, re-read, manifest, marker).  A writer that    *)
(* reported success left such a marker.                                    *)
SealedIsOneMoment ==
    /\ \A g \in Generation :
           Sealed(g) => Verifies(g) /\ OneMoment(BoundManifest(g))
    /\ \A w \in Writer : wpc[w] = "done" => Sealed(job[w].gen)
=============================================================================

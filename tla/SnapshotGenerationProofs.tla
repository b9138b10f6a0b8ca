---------------------- MODULE SnapshotGenerationProofs ----------------------
(***************************************************************************)
(* Proofs about the writers of backup generations, for any files, writers  *)
(* and generation ids, and any way the source changes.                     *)
(***************************************************************************)
EXTENDS SnapshotGeneration, TLAPS

-----------------------------------------------------------------------------
(* Trees and locals                                                        *)

LEMMA AddFacts ==
    ASSUME NEW fn, NEW k, NEW v
    PROVE  /\ DOMAIN Add(fn, k, v) = DOMAIN fn \cup {k}
           /\ Add(fn, k, v)[k] = v
           /\ \A x \in DOMAIN fn : x # k => Add(fn, k, v)[x] = fn[x]
    BY DEF Add

LEMMA VersionFacts ==
    /\ Version \subseteq Nat
    /\ \A f \in File : \A n \in Nat : n <= LastVersion[f] => n \in Version
    BY FileAssumption DEF Version

LEMMA TreeFacts ==
    ASSUME NEW t \in Tree
    PROVE  /\ DOMAIN t \subseteq File
           /\ \A f \in DOMAIN t : t[f] \in Version
           /\ t = [f \in DOMAIN t |-> t[f]]
    <1>1. PICK fs \in SUBSET File : t \in [fs -> Version]
        BY DEF Tree
    <1> QED BY <1>1

LEMMA TreeIntro ==
    ASSUME NEW fs \in SUBSET File, NEW t \in [fs -> Version]
    PROVE  t \in Tree
    BY DEF Tree

LEMMA AddTree ==
    ASSUME NEW t \in Tree, NEW f \in File, NEW v \in Version
    PROVE  Add(t, f, v) \in Tree
    <1>1. DOMAIN t \cup {f} \in SUBSET File
        BY TreeFacts
    <1>2. Add(t, f, v) \in [DOMAIN t \cup {f} -> Version]
        BY TreeFacts DEF Add
    <1> QED BY <1>1, <1>2, TreeIntro

LEMMA NothingTree == Nothing \in Tree /\ DOMAIN Nothing = {}
    <1>1. Nothing \in [{} -> Version]
        BY DEF Nothing
    <1> QED BY <1>1, TreeIntro DEF Nothing

LEMMA IdleFacts ==
    ASSUME NEW g \in Generation
    PROVE  /\ IdleJob(g) \in Locals
           /\ IdleJob(g).gen = g /\ IdleJob(g).left = {} /\ IdleJob(g).inputs = {}
           /\ DOMAIN IdleJob(g).before = {} /\ DOMAIN IdleJob(g).copied = {}
    BY NothingTree DEF IdleJob, Locals

(* What a pass, a visit and the end of a writer do to the locals.          *)
LEMMA PassFacts ==
    ASSUME SnapshotTypeOK, NEW w \in Writer, NEW l \in WriterState,
           NEW fs, fs \subseteq File, Pass(w, l, fs, job[w])
    PROVE  /\ wpc' \in [Writer -> WriterState] /\ wpc'[w] = l
           /\ job' \in [Writer -> Locals]
           /\ job'[w].left = fs
           /\ job'[w].gen = job[w].gen /\ job'[w].inputs = job[w].inputs
           /\ job'[w].before = job[w].before /\ job'[w].copied = job[w].copied
           /\ \A u \in Writer : u # w => wpc'[u] = wpc[u] /\ job'[u] = job[u]
    BY DEF SnapshotTypeOK, Pass, Goto, Locals

LEMMA VisitedFacts ==
    ASSUME SnapshotTypeOK, NEW w \in Writer, NEW f, NEW j \in Locals, Visited(w, f, j)
    PROVE  /\ job' \in [Writer -> Locals]
           /\ job'[w].left = j.left \ {f}
           /\ job'[w].gen = j.gen /\ job'[w].inputs = j.inputs
           /\ job'[w].before = j.before /\ job'[w].copied = j.copied
           /\ \A u \in Writer : u # w => job'[u] = job[u]
    BY DEF SnapshotTypeOK, Visited, Locals

LEMMA EndFacts ==
    ASSUME SnapshotTypeOK, NEW w \in Writer, NEW l \in WriterState, End(w, l)
    PROVE  /\ wpc' \in [Writer -> WriterState] /\ wpc'[w] = l
           /\ job' \in [Writer -> Locals]
           /\ job'[w] = IdleJob(job[w].gen)
           /\ \A u \in Writer : u # w => wpc'[u] = wpc[u] /\ job'[u] = job[u]
    <1>1. job[w].gen \in Generation
        BY DEF SnapshotTypeOK, Locals
    <1>2. IdleJob(job[w].gen) \in Locals
        BY <1>1, IdleFacts
    <1> QED BY <1>1, <1>2 DEF SnapshotTypeOK, End, Goto

LEMMA GotoFacts ==
    ASSUME SnapshotTypeOK, NEW w \in Writer, NEW l \in WriterState, Goto(w, l)
    PROVE  /\ wpc' \in [Writer -> WriterState] /\ wpc'[w] = l
           /\ \A u \in Writer : u # w => wpc'[u] = wpc[u]
    BY DEF SnapshotTypeOK, Goto

LEMMA ContentsFacts ==
    /\ \A f \in File : Contents(f) = {Torn} \cup Version
    /\ Contents(ManifestKey) = {Torn} \cup ManifestObject
    /\ Contents(MarkerKey) = {Torn} \cup MarkerObject
    BY FileAssumption DEF Contents, ManifestKey, MarkerKey

Keys == File \cup {ManifestKey, MarkerKey}

LEMMA PutFacts ==
    ASSUME SnapshotTypeOK, NEW w \in Writer, NEW key \in Keys,
           NEW c \in Contents(key), Put(w, key, c)
    PROVE  /\ job[w].gen \in Generation
           /\ key \notin DOMAIN objects[job[w].gen]
           /\ DOMAIN objects' = Generation
           /\ DOMAIN objects'[job[w].gen] = DOMAIN objects[job[w].gen] \cup {key}
           /\ objects'[job[w].gen][key] = c
           /\ \A k \in DOMAIN objects[job[w].gen] :
                  objects'[job[w].gen][k] = objects[job[w].gen][k]
           /\ \A g \in Generation : g # job[w].gen => objects'[g] = objects[g]
           /\ \A g \in Generation :
                 /\ DOMAIN objects'[g] \subseteq File \cup {ManifestKey, MarkerKey}
                 /\ \A k \in DOMAIN objects'[g] : objects'[g][k] \in Contents(k)
    <1> DEFINE gen == job[w].gen
               new == Add(objects[gen], key, c)
    <1>1. gen \in Generation
        BY DEF SnapshotTypeOK, Locals
    <1>2. /\ objects' = [objects EXCEPT ![gen] = new]
          /\ key \notin DOMAIN objects[gen]
        BY DEF Put
    <1>3. /\ DOMAIN new = DOMAIN objects[gen] \cup {key}
          /\ new[key] = c
          /\ \A x \in DOMAIN objects[gen] : x # key => new[x] = objects[gen][x]
        BY DEF Add
    <1> HIDE DEF new
    <1>4. /\ DOMAIN objects = Generation
          /\ \A g \in Generation :
                 /\ DOMAIN objects[g] \subseteq File \cup {ManifestKey, MarkerKey}
                 /\ \A k \in DOMAIN objects[g] : objects[g][k] \in Contents(k)
        BY DEF SnapshotTypeOK
    <1>5. /\ DOMAIN objects' = Generation
          /\ objects'[gen] = new
          /\ \A g \in Generation : g # gen => objects'[g] = objects[g]
        BY <1>1, <1>2, <1>4
    <1> QED BY <1>1, <1>2, <1>3, <1>4, <1>5 DEF Keys

-----------------------------------------------------------------------------
(* The inductive invariant                                                 *)

(* Past the copy, up to the end.                                           *)
Checking == {"identifyAgain", "enumerateAgain", "reread", "manifest", "marker"}

(* The writer that created the first object of its generation.             *)
Claimed(w) == wpc[w] \in Checking \cup {"copy"} /\ First \in DOMAIN job[w].copied

(* Its generation holds what it wrote, and nothing else.                   *)
Held(w) ==
    LET j == job[w] IN
    /\ DOMAIN objects[j.gen] =
           DOMAIN j.copied \cup IF wpc[w] = "marker" THEN {ManifestKey} ELSE {}
    /\ \A f \in DOMAIN j.copied : objects[j.gen][f] = j.copied[f]
    /\ wpc[w] = "marker" => objects[j.gen][ManifestKey] = Manifest(w)

AlreadyGone(j, s) == \A f \in File \ j.inputs : AbsentAt[f] <= s[f]

(* What a writer has read of the source, before it has copied everything,  *)
Gathered(w) ==
    LET j == job[w] IN
    /\ wpc[w] \in {"idle", "done", "failed"} => j = IdleJob(j.gen)
    /\ wpc[w] = "enumerate" =>
           /\ DOMAIN j.before = {} /\ DOMAIN j.copied = {}
           /\ \A f \in File \ (j.left \cup j.inputs) : AbsentAt[f] <= source[f]
    /\ wpc[w] = "identify" =>
           /\ First \in j.inputs
           /\ DOMAIN j.copied = {}
           /\ j.left \subseteq Identified /\ DOMAIN j.before = Identified \ j.left
           /\ \A f \in DOMAIN j.before : j.before[f] <= source[f]
           /\ AlreadyGone(j, source)
    /\ wpc[w] = "copy" =>
           /\ First \in j.inputs
           /\ DOMAIN j.before = Identified
           /\ \A f \in Identified : j.before[f] <= source[f]
           /\ AlreadyGone(j, source)
           /\ j.left \cup DOMAIN j.copied = j.inputs /\ j.left \cap DOMAIN j.copied = {}
           /\ First \notin DOMAIN j.copied => DOMAIN j.copied = {}
           /\ \A f \in DOMAIN j.copied : j.copied[f] <= source[f] /\ j.copied[f] # AbsentAt[f]

(* and then, compared with the moment when it had.                         *)
Compared(w) ==
    LET j == job[w]
        s == moment[w] IN
    /\ \A f \in File : s[f] <= source[f]
    /\ wpc[w] \in Checking =>
           /\ First \in j.inputs
           /\ DOMAIN j.before = Identified
           /\ \A f \in Identified : j.before[f] <= s[f]
           /\ AlreadyGone(j, s)
           /\ DOMAIN j.copied = j.inputs
           /\ \A f \in j.inputs : j.copied[f] <= s[f] /\ j.copied[f] # AbsentAt[f]
           /\ \A f \in Identified :
                  (wpc[w] = "identifyAgain" /\ f \in j.left) \/ j.before[f] = s[f]
    /\ wpc[w] \in Checking \ {"identifyAgain"} =>
           \A f \in File \ j.inputs :
               (wpc[w] = "enumerateAgain" /\ f \in j.left) \/ s[f] = AbsentAt[f]
    /\ wpc[w] \in {"reread", "manifest", "marker"} =>
           \A f \in j.inputs : (wpc[w] = "reread" /\ f \in j.left) \/ j.copied[f] = s[f]

Exclusive ==
    \A u, v \in Writer :
        Claimed(u) /\ Claimed(v) /\ job[u].gen = job[v].gen => u = v

(* What is known of a generation: its first object came first, and a       *)
(* sealed one is complete and has no writer any more.                      *)
Settled(g) ==
    /\ DOMAIN objects[g] # {} => First \in DOMAIN objects[g]
    /\ Sealed(g) =>
           /\ Verifies(g)
           /\ BoundManifest(g).by \in Writer
           /\ wpc[BoundManifest(g).by] \in {"done", "failed"}
           /\ OneMoment(BoundManifest(g))

SnapshotInv ==
    /\ SnapshotTypeOK
    /\ \A w \in Writer : Gathered(w) /\ Compared(w)
    /\ \A w \in Writer : Claimed(w) => Held(w)
    /\ Exclusive
    /\ \A g \in Generation : Settled(g)
    /\ \A w \in Writer : wpc[w] = "done" => Sealed(job[w].gen)

LEMMA SnapshotInitially == SnapshotInit => SnapshotInv
    <1> SUFFICES ASSUME SnapshotInit PROVE SnapshotInv
        OBVIOUS
    <1> USE DEF SnapshotInit
    <1>1. job \in [Writer -> Locals] /\ \A w \in Writer : job[w] = IdleJob(job[w].gen)
        BY IdleFacts
    <1>2. \A g \in Generation : objects[g] = Nothing /\ DOMAIN objects[g] = {}
        BY NothingTree
    <1>3. \A f \in File : source[f] \in Version /\ source[f] = 0
        BY VersionFacts, FileAssumption
    <1>4. SnapshotTypeOK
        <2>1. source \in [File -> Version] /\ \A f \in File : source[f] <= LastVersion[f]
            BY <1>3, FileAssumption
        <2>2. moment \in [Writer -> [File -> Version]]
            BY <2>1
        <2>3. wpc \in [Writer -> WriterState]
            BY DEF WriterState
        <2>4. DOMAIN objects = Generation
            OBVIOUS
        <2> HIDE DEF SnapshotInit
        <2> QED BY <1>1, <1>2, <2>1, <2>2, <2>3, <2>4 DEF SnapshotTypeOK
    <1>5. ASSUME NEW w \in Writer PROVE Gathered(w) /\ Compared(w)
        <2>1. /\ wpc[w] = "idle" /\ job[w] = IdleJob(job[w].gen) /\ moment[w] = source
              /\ \A f \in File : source[f] = 0
            BY <1>1
        <2> HIDE DEF SnapshotInit
        <2>2. Gathered(w)
            BY <2>1 DEF Gathered
        <2>3. Compared(w)
            BY <2>1 DEF Compared, Checking
        <2> QED BY <2>2, <2>3
    <1>6. \A w \in Writer : ~Claimed(w) /\ wpc[w] # "done"
        BY DEF Claimed, Checking
    <1>7. \A g \in Generation : Settled(g)
        BY <1>2 DEF Settled, Sealed
    <1> QED BY <1>4, <1>5, <1>6, <1>7 DEF SnapshotInv, Exclusive

-----------------------------------------------------------------------------
(* Frames                                                                  *)

(* The source only gets newer, which no writer can tell from what it holds. *)
LEMMA OlderStays ==
    ASSUME SnapshotTypeOK, SnapshotTypeOK', NEW u \in Writer,
           Gathered(u), Compared(u),
           \A f \in File : source[f] <= source'[f],
           wpc'[u] = wpc[u], job'[u] = job[u], moment'[u] = moment[u]
    PROVE  Gathered(u)' /\ Compared(u)'
    <1>1. /\ \A f \in File : source[f] \in Nat /\ source'[f] \in Nat /\ moment[u][f] \in Nat
          /\ \A f \in File : AbsentAt[f] \in Nat
          /\ Identified \subseteq File
          /\ DOMAIN job[u].before \subseteq File /\ DOMAIN job[u].copied \subseteq File
          /\ \A f \in DOMAIN job[u].before : job[u].before[f] \in Nat
          /\ \A f \in DOMAIN job[u].copied : job[u].copied[f] \in Nat
        BY VersionFacts, TreeFacts, FileAssumption DEF SnapshotTypeOK, Locals
    <1>2. ASSUME NEW fs \in SUBSET File, NEW t, \A f \in fs : t[f] \in Nat,
                 \A f \in fs : t[f] <= source[f]
          PROVE  \A f \in fs : t[f] <= source'[f]
        BY <1>1, <1>2
    <1>3. Gathered(u)'
        <2> DEFINE j == job[u]
        <2>1. wpc[u] = "enumerate" =>
                  \A f \in File \ (j.left \cup j.inputs) : AbsentAt[f] <= source'[f]
            BY <1>1 DEF Gathered
        <2>2. AlreadyGone(j, source) => AlreadyGone(j, source')
            BY <1>1 DEF AlreadyGone
        <2>3. wpc[u] = "identify" => \A f \in DOMAIN j.before : j.before[f] <= source'[f]
            BY <1>1 DEF Gathered
        <2>4. wpc[u] = "copy" => \A f \in Identified : j.before[f] <= source'[f]
            BY <1>1 DEF Gathered
        <2>5. wpc[u] = "copy" =>
                  \A f \in DOMAIN j.copied : j.copied[f] <= source'[f] /\ j.copied[f] # AbsentAt[f]
            BY <1>1 DEF Gathered
        <2> QED BY <2>1, <2>2, <2>3, <2>4, <2>5 DEF Gathered
    <1>4. Compared(u)'
        <2>1. \A f \in File : moment[u][f] <= source'[f]
            BY <1>1 DEF Compared
        <2> QED BY <2>1 DEF Compared, AlreadyGone
    <1> QED BY <1>3, <1>4

(* A step of w that reads, or that ends w before it wrote.                 *)
LEMMA Reads ==
    ASSUME SnapshotInv, NEW w \in Writer,
           source' = source, objects' = objects,
           wpc' \in [Writer -> WriterState], job' \in [Writer -> Locals],
           moment' \in [Writer -> [File -> Version]],
           \A u \in Writer : u # w =>
               wpc'[u] = wpc[u] /\ job'[u] = job[u] /\ moment'[u] = moment[u],
           wpc[w] \notin {"done", "failed"}, wpc'[w] \notin {"done", "marker"},
           job'[w].gen = job[w].gen,
           moment'[w] = moment[w] \/ wpc[w] = "copy",
           Gathered(w)', Compared(w)',
           Claimed(w)' => /\ Claimed(w) /\ wpc[w] # "marker"
                          /\ job'[w].copied = job[w].copied
    PROVE  SnapshotInv'
    <1>1. SnapshotTypeOK'
        BY DEF SnapshotInv, SnapshotTypeOK
    <1>2. ASSUME NEW u \in Writer PROVE Gathered(u)' /\ Compared(u)'
        <2>1. CASE u = w BY <2>1
        <2>2. CASE u # w
            <3>1. \A f \in File : source[f] <= source'[f]
                <4>1. \A f \in File : source[f] \in Version
                    BY DEF SnapshotInv, SnapshotTypeOK
                <4>2. \A f \in File : source[f] \in Nat
                    BY <4>1, VersionFacts
                <4> QED BY <4>2
            <3>2. SnapshotTypeOK /\ Gathered(u) /\ Compared(u)
                BY DEF SnapshotInv
            <3> QED BY <1>1, <2>2, <3>1, <3>2, OlderStays
        <2> QED BY <2>1, <2>2
    <1>3. ASSUME NEW u \in Writer, Claimed(u)'
          PROVE  /\ Claimed(u) /\ Held(u)' /\ job'[u].gen = job[u].gen
        <2>1. CASE u = w
            <3>1. Claimed(w) /\ Held(w)
                BY <1>3, <2>1 DEF SnapshotInv
            <3> QED BY <1>3, <2>1, <3>1 DEF Held
        <2>2. CASE u # w
            <3>1. Claimed(u)
                BY <1>3, <2>2 DEF Claimed
            <3>2. Held(u)
                BY <3>1 DEF SnapshotInv
            <3> QED BY <2>2, <3>1, <3>2 DEF Held, Manifest
        <2> QED BY <2>1, <2>2
    <1>4. Exclusive'
        BY <1>3 DEF SnapshotInv, Exclusive
    <1>5. ASSUME NEW g \in Generation PROVE Settled(g)'
        <2>1. Settled(g)
            BY DEF SnapshotInv
        <2>2. /\ Sealed(g)' <=> Sealed(g)
              /\ Verifies(g)' <=> Verifies(g)
              /\ BoundManifest(g)' = BoundManifest(g)
            BY DEF Sealed, Verifies, BoundManifest, ArtifactsIntact, ObjectSetExact
        <2>3. CASE ~Sealed(g)
            BY <2>1, <2>2, <2>3 DEF Settled
        <2>4. CASE Sealed(g)
            <3> DEFINE by == BoundManifest(g).by
            <3>1. /\ Verifies(g) /\ by \in Writer /\ wpc[by] \in {"done", "failed"}
                  /\ OneMoment(BoundManifest(g))
                BY <2>1, <2>4 DEF Settled
            <3>2. wpc'[by] = wpc[by] /\ moment'[by] = moment[by]
                BY <3>1
            <3>3. OneMoment(BoundManifest(g))'
                BY <2>2, <3>1, <3>2 DEF OneMoment
            <3> QED BY <2>1, <2>2, <3>1, <3>2, <3>3 DEF Settled
        <2> QED BY <2>3, <2>4
    <1>6. ASSUME NEW u \in Writer, wpc'[u] = "done" PROVE Sealed(job[u].gen)'
        BY <1>6 DEF SnapshotInv, Sealed
    <1>7. \A u \in Writer : wpc'[u] = "done" => job'[u].gen = job[u].gen
        OBVIOUS
    <1>8. \A u \in Writer : wpc'[u] = "done" => Sealed(job[u].gen)'
        BY <1>6
    <1>9. (\A u \in Writer : wpc[u] = "done" => Sealed(job[u].gen))'
        BY <1>7, <1>8 DEF Sealed
    <1> QED BY <1>1, <1>2, <1>3, <1>4, <1>5, <1>9 DEF SnapshotInv

-----------------------------------------------------------------------------
(* Steps that do not write                                                 *)

LEMMA ChangeKeeps ==
    ASSUME SnapshotInv, NEW f \in File, Change(f)
    PROVE  SnapshotInv'
    <1>1. /\ source' = [source EXCEPT ![f] = @ + 1]
          /\ source[f] < LastVersion[f]
          /\ objects' = objects /\ wpc' = wpc /\ job' = job /\ moment' = moment
        BY DEF Change
    <1>2. SnapshotTypeOK /\ source \in [File -> Version]
        BY DEF SnapshotInv, SnapshotTypeOK
    <1>3. \A x \in File : source[x] \in Nat
        BY <1>2, VersionFacts
    <1>4. /\ \A x \in File : source'[x] \in Nat /\ source[x] <= source'[x]
          /\ \A x \in File : source'[x] <= LastVersion[x]
          /\ DOMAIN source' = File /\ source' = [x \in File |-> source'[x]]
        <2>1. \A x \in File : LastVersion[x] \in Nat /\ source[x] <= LastVersion[x]
            BY <1>2, FileAssumption DEF SnapshotTypeOK
        <2>2. \A x \in File : source'[x] = IF x = f THEN source[x] + 1 ELSE source[x]
            BY <1>1, <1>2
        <2>3. DOMAIN source' = File /\ source' = [x \in File |-> source'[x]]
            BY <1>1, <1>2
        <2> QED BY <1>1, <1>3, <2>1, <2>2, <2>3
    <1>5. source' \in [File -> Version]
        BY <1>4, VersionFacts
    <1>6. SnapshotTypeOK'
        BY <1>1, <1>2, <1>4, <1>5 DEF SnapshotTypeOK
    <1>7. \A u \in Writer : Gathered(u)' /\ Compared(u)'
        BY <1>1, <1>2, <1>4, <1>6, OlderStays DEF SnapshotInv
    <1>8. /\ (\A w \in Writer : Claimed(w) => Held(w))'
          /\ Exclusive'
          /\ (\A g \in Generation : Settled(g))'
          /\ (\A w \in Writer : wpc[w] = "done" => Sealed(job[w].gen))'
        BY <1>1 DEF SnapshotInv, Claimed, Held, Manifest, Exclusive, Settled, Sealed, Verifies,
                    BoundManifest, ArtifactsIntact, ObjectSetExact, OneMoment
    <1> QED BY <1>6, <1>7, <1>8 DEF SnapshotInv

(* What a writer's locals are, for the steps below.                        *)
LEMMA WriterFacts ==
    ASSUME SnapshotInv, NEW w \in Writer
    PROVE  /\ SnapshotTypeOK /\ Gathered(w) /\ Compared(w)
           /\ job[w] \in Locals /\ job[w].gen \in Generation
           /\ job[w].left \subseteq File /\ job[w].inputs \subseteq File
           /\ job[w].before \in Tree /\ job[w].copied \in Tree
           /\ \A f \in File : source[f] \in Version /\ source[f] \in Nat
           /\ \A f \in File : moment[w][f] \in Nat
           /\ moment \in [Writer -> [File -> Version]]
           /\ wpc \in [Writer -> WriterState] /\ job \in [Writer -> Locals]
           /\ source \in [File -> Version]
    <1>1. SnapshotTypeOK
        BY DEF SnapshotInv
    <1>2. /\ source \in [File -> Version] /\ moment \in [Writer -> [File -> Version]]
          /\ wpc \in [Writer -> WriterState] /\ job \in [Writer -> Locals]
        BY <1>1 DEF SnapshotTypeOK
    <1>3. \A f \in File : source[f] \in Version /\ moment[w][f] \in Version
        BY <1>2
    <1>4. \A f \in File : source[f] \in Nat /\ moment[w][f] \in Nat
        BY <1>3, VersionFacts
    <1> QED BY <1>1, <1>2, <1>3, <1>4 DEF SnapshotInv, Locals

LEMMA EndKeeps ==
    ASSUME SnapshotInv, NEW w \in Writer, End(w, "failed"), objects' = objects,
           wpc[w] \notin {"done", "failed"}
    PROVE  SnapshotInv'
    <1>1. /\ wpc' \in [Writer -> WriterState] /\ wpc'[w] = "failed"
          /\ job' \in [Writer -> Locals] /\ job'[w] = IdleJob(job[w].gen)
          /\ \A u \in Writer : u # w => wpc'[u] = wpc[u] /\ job'[u] = job[u]
        BY WriterFacts, EndFacts DEF WriterState
    <1>2. source' = source /\ moment' = moment
        BY DEF End
    <1>3. job'[w].gen = job[w].gen /\ ~Claimed(w)'
        BY <1>1 DEF IdleJob, Claimed, Checking
    <1>4. Gathered(w)'
        BY <1>1, <1>3 DEF Gathered
    <1>5. Compared(w)'
        BY <1>1, <1>2, WriterFacts DEF Compared, Checking
    <1> QED BY <1>1, <1>2, <1>3, <1>4, <1>5, WriterFacts, Reads

LEMMA StartKeeps ==
    ASSUME SnapshotInv, NEW w \in Writer, Start(w)
    PROVE  SnapshotInv'
    <1>1. wpc[w] = "idle" /\ Pass(w, "enumerate", File, job[w])
          /\ source' = source /\ objects' = objects /\ moment' = moment
        BY DEF Start
    <1>2. /\ wpc' \in [Writer -> WriterState] /\ wpc'[w] = "enumerate"
          /\ job' \in [Writer -> Locals] /\ job'[w].left = File
          /\ job'[w].gen = job[w].gen
          /\ job'[w].before = job[w].before /\ job'[w].copied = job[w].copied
          /\ \A u \in Writer : u # w => wpc'[u] = wpc[u] /\ job'[u] = job[u]
        BY <1>1, WriterFacts, PassFacts DEF WriterState
    <1>3. DOMAIN job[w].before = {} /\ DOMAIN job[w].copied = {}
        <2>1. job[w] = IdleJob(job[w].gen)
            BY <1>1, WriterFacts DEF Gathered
        <2> QED BY <2>1, WriterFacts, IdleFacts
    <1>4. Gathered(w)'
        BY <1>2, <1>3 DEF Gathered
    <1>5. Compared(w)' /\ ~Claimed(w)'
        BY <1>1, <1>2, WriterFacts DEF Compared, Claimed, Checking
    <1> QED BY <1>1, <1>2, <1>4, <1>5, WriterFacts, Reads

LEMMA EnumerateKeeps ==
    ASSUME SnapshotInv, NEW w \in Writer, NEW f \in File, Enumerate(w, f)
    PROVE  SnapshotInv'
    <1> DEFINE j == [job[w] EXCEPT !.inputs = IF f \in Present(source) THEN @ \cup {f} ELSE @]
    <1>1. /\ wpc[w] = "enumerate" /\ f \in job[w].left /\ Visited(w, f, j)
          /\ source' = source /\ objects' = objects /\ wpc' = wpc /\ moment' = moment
        BY DEF Enumerate, Visit
    <1>2. /\ j \in Locals
          /\ j.left = job[w].left /\ j.gen = job[w].gen
          /\ j.before = job[w].before /\ j.copied = job[w].copied
          /\ job[w].inputs \subseteq j.inputs
          /\ f \in Present(source) => f \in j.inputs
        BY WriterFacts DEF Locals
    <1> HIDE DEF j
    <1>3. /\ job' \in [Writer -> Locals]
          /\ job'[w].left = job[w].left \ {f}
          /\ job'[w].gen = job[w].gen /\ job'[w].inputs = j.inputs
          /\ job'[w].before = job[w].before /\ job'[w].copied = job[w].copied
          /\ \A u \in Writer : u # w => job'[u] = job[u]
        BY <1>1, <1>2, WriterFacts, VisitedFacts
    <1>4. ASSUME NEW x \in File \ (job'[w].left \cup job'[w].inputs)
          PROVE  AbsentAt[x] <= source[x]
        <2>1. CASE x = f
            BY <1>2, <1>3, <2>1, WriterFacts DEF Present
        <2>2. CASE x # f
            BY <1>1, <1>2, <1>3, <2>2, WriterFacts DEF Gathered
        <2> QED BY <2>1, <2>2
    <1>5. Gathered(w)'
        BY <1>1, <1>3, <1>4, WriterFacts DEF Gathered
    <1>6. Compared(w)' /\ ~Claimed(w)'
        BY <1>1, <1>3, WriterFacts DEF Compared, Claimed, Checking
    <1> QED BY <1>1, <1>3, <1>5, <1>6, WriterFacts, Reads

LEMMA EnumeratedKeeps ==
    ASSUME SnapshotInv, NEW w \in Writer, Enumerated(w)
    PROVE  SnapshotInv'
    <1>1. /\ wpc[w] = "enumerate" /\ job[w].left = {} /\ First \in job[w].inputs
          /\ Pass(w, "identify", Identified, job[w])
          /\ source' = source /\ objects' = objects /\ moment' = moment
        BY DEF Enumerated
    <1>2. /\ wpc' \in [Writer -> WriterState] /\ wpc'[w] = "identify"
          /\ job' \in [Writer -> Locals] /\ job'[w].left = Identified
          /\ job'[w].gen = job[w].gen /\ job'[w].inputs = job[w].inputs
          /\ job'[w].before = job[w].before /\ job'[w].copied = job[w].copied
          /\ \A u \in Writer : u # w => wpc'[u] = wpc[u] /\ job'[u] = job[u]
        <2>1. Identified \subseteq File
            BY FileAssumption
        <2>2. SnapshotTypeOK /\ "identify" \in WriterState
            BY WriterFacts DEF WriterState
        <2> QED BY ZenonT(60), <1>1, <2>1, <2>2, PassFacts
    <1>3. Gathered(w)'
        BY ZenonT(60), <1>1, <1>2, WriterFacts DEF Gathered, AlreadyGone
    <1>4. Compared(w)' /\ ~Claimed(w)'
        BY <1>1, <1>2, WriterFacts DEF Compared, Claimed, Checking
    <1> QED BY <1>1, <1>2, <1>3, <1>4, WriterFacts, Reads

LEMMA IdentifyKeeps ==
    ASSUME SnapshotInv, NEW w \in Writer, NEW f \in File, Identify(w, f)
    PROVE  SnapshotInv'
    <1> DEFINE b == Add(job[w].before, f, source[f])
               j == [job[w] EXCEPT !.before = b]
    <1>1. /\ wpc[w] = "identify" /\ f \in job[w].left /\ Visited(w, f, j)
          /\ source' = source /\ objects' = objects /\ wpc' = wpc /\ moment' = moment
        BY DEF Identify, Visit
    <1>2. /\ b \in Tree
          /\ DOMAIN b = DOMAIN job[w].before \cup {f}
          /\ b[f] = source[f]
          /\ \A x \in DOMAIN job[w].before : x # f => b[x] = job[w].before[x]
        <2>1. b \in Tree
            BY WriterFacts, AddTree
        <2> QED BY <2>1 DEF Add
    <1> HIDE DEF b
    <1>3. /\ j \in Locals
          /\ j.left = job[w].left /\ j.gen = job[w].gen /\ j.inputs = job[w].inputs
          /\ j.before = b /\ j.copied = job[w].copied
        BY <1>2, WriterFacts DEF Locals
    <1> HIDE DEF j
    <1>4. /\ job' \in [Writer -> Locals]
          /\ job'[w].left = job[w].left \ {f}
          /\ job'[w].gen = job[w].gen /\ job'[w].inputs = job[w].inputs
          /\ job'[w].before = b /\ job'[w].copied = job[w].copied
          /\ \A u \in Writer : u # w => job'[u] = job[u]
        BY <1>1, <1>3, WriterFacts, VisitedFacts
    <1>5. /\ First \in job[w].inputs /\ DOMAIN job[w].copied = {}
          /\ job[w].left \subseteq Identified
          /\ DOMAIN job[w].before = Identified \ job[w].left
          /\ \A x \in DOMAIN job[w].before : job[w].before[x] <= source[x]
          /\ AlreadyGone(job[w], source)
        BY <1>1, WriterFacts DEF Gathered
    <1>6. \A x \in DOMAIN b : b[x] <= source[x]
        BY <1>2, <1>5, WriterFacts
    <1>7. Gathered(w)'
        BY <1>1, <1>2, <1>4, <1>5, <1>6 DEF Gathered, AlreadyGone
    <1>8. Compared(w)' /\ ~Claimed(w)'
        BY <1>1, <1>4, WriterFacts DEF Compared, Claimed, Checking
    <1> QED BY <1>1, <1>4, <1>7, <1>8, WriterFacts, Reads

LEMMA IdentityTakenKeeps ==
    ASSUME SnapshotInv, NEW w \in Writer, IdentityTaken(w)
    PROVE  SnapshotInv'
    <1>1. /\ wpc[w] = "identify" /\ job[w].left = {}
          /\ Pass(w, "copy", job[w].inputs, job[w])
          /\ source' = source /\ objects' = objects /\ moment' = moment
        BY DEF IdentityTaken
    <1>2. /\ wpc' \in [Writer -> WriterState] /\ wpc'[w] = "copy"
          /\ job' \in [Writer -> Locals] /\ job'[w].left = job[w].inputs
          /\ job'[w].gen = job[w].gen /\ job'[w].inputs = job[w].inputs
          /\ job'[w].before = job[w].before /\ job'[w].copied = job[w].copied
          /\ \A u \in Writer : u # w => wpc'[u] = wpc[u] /\ job'[u] = job[u]
        <2>1. job[w].inputs \subseteq File
            BY WriterFacts
        <2>2. "copy" \in WriterState
            BY DEF WriterState
        <2>3. SnapshotTypeOK
            BY DEF SnapshotInv
        <2>4. Pass(w, "copy", job[w].inputs, job[w])
            BY <1>1
        <2> QED BY <2>1, <2>2, <2>3, <2>4 DEF SnapshotTypeOK, Pass, Goto, Locals
    <1>3. DOMAIN job[w].copied = {}
        BY <1>1, WriterFacts DEF Gathered
    <1>4. Gathered(w)'
        BY ZenonT(60), <1>1, <1>2, <1>3, WriterFacts DEF Gathered, AlreadyGone
    <1>5. Compared(w)' /\ ~Claimed(w)'
        BY <1>1, <1>2, <1>3, WriterFacts DEF Compared, Claimed, Checking
    <1> QED BY <1>1, <1>2, <1>4, <1>5, WriterFacts, Reads

LEMMA CopiedKeeps ==
    ASSUME SnapshotInv, NEW w \in Writer, Copied(w)
    PROVE  SnapshotInv'
    <1>1. /\ wpc[w] = "copy" /\ job[w].left = {}
          /\ Pass(w, "identifyAgain", Identified, job[w])
          /\ source' = source /\ objects' = objects
          /\ moment' = [moment EXCEPT ![w] = source]
        BY DEF Copied
    <1>2. /\ wpc' \in [Writer -> WriterState] /\ wpc'[w] = "identifyAgain"
          /\ job' \in [Writer -> Locals] /\ job'[w].left = Identified
          /\ job'[w].gen = job[w].gen /\ job'[w].inputs = job[w].inputs
          /\ job'[w].before = job[w].before /\ job'[w].copied = job[w].copied
          /\ \A u \in Writer : u # w => wpc'[u] = wpc[u] /\ job'[u] = job[u]
        <2>1. Identified \subseteq File
            BY FileAssumption
        <2>2. "identifyAgain" \in WriterState
            BY DEF WriterState
        <2>3. SnapshotTypeOK
            BY DEF SnapshotInv
        <2>4. Pass(w, "identifyAgain", Identified, job[w])
            BY <1>1
        <2> QED BY ZenonT(60), <2>1, <2>2, <2>3, <2>4 DEF SnapshotTypeOK, Pass, Goto, Locals
    <1>3. /\ moment' \in [Writer -> [File -> Version]] /\ moment'[w] = source
          /\ \A u \in Writer : u # w => moment'[u] = moment[u]
        BY <1>1, WriterFacts
    <1>4. Gathered(w)'
        BY <1>2 DEF Gathered
    <1>5. /\ First \in job[w].inputs
          /\ DOMAIN job[w].before = Identified
          /\ \A f \in Identified : job[w].before[f] <= source[f]
          /\ AlreadyGone(job[w], source)
          /\ DOMAIN job[w].copied = job[w].inputs
          /\ \A f \in DOMAIN job[w].copied :
                 job[w].copied[f] <= source[f] /\ job[w].copied[f] # AbsentAt[f]
        BY <1>1, WriterFacts DEF Gathered
    <1>6. Compared(w)'
        BY <1>1, <1>2, <1>3, <1>5, WriterFacts DEF Compared, AlreadyGone
    <1>7. Claimed(w)
        BY <1>1, <1>5 DEF Claimed
    <1> QED BY <1>1, <1>2, <1>3, <1>4, <1>6, <1>7, WriterFacts, Reads

LEMMA CheckingFacts ==
    ASSUME SnapshotInv, NEW w \in Writer, wpc[w] \in Checking
    PROVE  /\ Claimed(w)
           /\ First \in job[w].inputs
           /\ DOMAIN job[w].before = Identified
           /\ \A f \in Identified : job[w].before[f] <= moment[w][f]
           /\ AlreadyGone(job[w], moment[w])
           /\ DOMAIN job[w].copied = job[w].inputs
           /\ \A f \in job[w].inputs :
                  job[w].copied[f] <= moment[w][f] /\ job[w].copied[f] # AbsentAt[f]
           /\ \A f \in File : moment[w][f] <= source[f]
           /\ \A f \in Identified : job[w].before[f] \in Nat
           /\ \A f \in job[w].inputs : job[w].copied[f] \in Nat
    <1>1. /\ First \in job[w].inputs
          /\ DOMAIN job[w].before = Identified
          /\ \A f \in Identified : job[w].before[f] <= moment[w][f]
          /\ AlreadyGone(job[w], moment[w])
          /\ DOMAIN job[w].copied = job[w].inputs
          /\ \A f \in job[w].inputs :
                 job[w].copied[f] <= moment[w][f] /\ job[w].copied[f] # AbsentAt[f]
          /\ \A f \in File : moment[w][f] <= source[f]
        BY WriterFacts DEF Compared
    <1>2. Claimed(w)
        BY <1>1 DEF Claimed
    <1>3. /\ \A f \in Identified : job[w].before[f] \in Version
          /\ \A f \in job[w].inputs : job[w].copied[f] \in Version
        BY <1>1, WriterFacts, TreeFacts
    <1>4. /\ \A f \in Identified : job[w].before[f] \in Nat
          /\ \A f \in job[w].inputs : job[w].copied[f] \in Nat
        BY <1>3, VersionFacts
    <1> QED BY <1>1, <1>2, <1>4

LEMMA IdentifyAgainKeeps ==
    ASSUME SnapshotInv, NEW w \in Writer, NEW f \in File, IdentifyAgain(w, f)
    PROVE  SnapshotInv'
    <1>1. /\ wpc[w] = "identifyAgain" /\ f \in job[w].left /\ Visited(w, f, job[w])
          /\ source[f] = job[w].before[f]
          /\ source' = source /\ objects' = objects /\ wpc' = wpc /\ moment' = moment
        BY DEF IdentifyAgain, Visit
    <1>2. /\ job' \in [Writer -> Locals]
          /\ job'[w].left = job[w].left \ {f}
          /\ job'[w].gen = job[w].gen /\ job'[w].inputs = job[w].inputs
          /\ job'[w].before = job[w].before /\ job'[w].copied = job[w].copied
          /\ \A u \in Writer : u # w => job'[u] = job[u]
        BY <1>1, WriterFacts, VisitedFacts
    <1>3. wpc[w] \in Checking
        BY <1>1 DEF Checking
    <1>4. Gathered(w)'
        BY <1>1 DEF Gathered
    <1>5. \A x \in Identified : x \in job'[w].left \/ job[w].before[x] = moment[w][x]
        <2>1. \A x \in Identified : x \in job[w].left \/ job[w].before[x] = moment[w][x]
            BY <1>1, <1>3, WriterFacts DEF Compared
        <2>2. ASSUME f \in Identified PROVE job[w].before[f] = moment[w][f]
            <3>1. job[w].before[f] <= moment[w][f] /\ moment[w][f] <= source[f]
                BY <1>3, <2>2, CheckingFacts
            <3>2. moment[w][f] \in Nat /\ source[f] \in Nat
                BY WriterFacts
            <3> QED BY <1>1, <3>1, <3>2
        <2> QED BY <1>2, <2>1, <2>2
    <1>6. Compared(w)'
        BY <1>1, <1>2, <1>3, <1>5, CheckingFacts DEF Compared, AlreadyGone
    <1> QED BY <1>1, <1>2, <1>3, <1>4, <1>6, CheckingFacts, WriterFacts, Reads

LEMMA IdentityKeptKeeps ==
    ASSUME SnapshotInv, NEW w \in Writer, IdentityKept(w)
    PROVE  SnapshotInv'
    <1>1. /\ wpc[w] = "identifyAgain" /\ job[w].left = {}
          /\ Pass(w, "enumerateAgain", File, job[w])
          /\ source' = source /\ objects' = objects /\ moment' = moment
        BY DEF IdentityKept
    <1>2. /\ wpc' \in [Writer -> WriterState] /\ wpc'[w] = "enumerateAgain"
          /\ job' \in [Writer -> Locals] /\ job'[w].left = File
          /\ job'[w].gen = job[w].gen /\ job'[w].inputs = job[w].inputs
          /\ job'[w].before = job[w].before /\ job'[w].copied = job[w].copied
          /\ \A u \in Writer : u # w => wpc'[u] = wpc[u] /\ job'[u] = job[u]
        <2>1. "enumerateAgain" \in WriterState
            BY DEF WriterState
        <2>2. SnapshotTypeOK
            BY DEF SnapshotInv
        <2> QED BY ZenonT(60), <1>1, <2>1, <2>2, PassFacts
    <1>3. wpc[w] \in Checking
        BY <1>1 DEF Checking
    <1>4. Gathered(w)'
        BY <1>2 DEF Gathered
    <1>5. \A f \in Identified : job[w].before[f] = moment[w][f]
        BY <1>1, <1>3, WriterFacts DEF Compared
    <1>6. Compared(w)'
        BY <1>1, <1>2, <1>3, <1>5, CheckingFacts DEF Compared, AlreadyGone
    <1> QED BY <1>1, <1>2, <1>3, <1>4, <1>6, CheckingFacts, WriterFacts, Reads

LEMMA EnumerateAgainKeeps ==
    ASSUME SnapshotInv, NEW w \in Writer, NEW f \in File, EnumerateAgain(w, f)
    PROVE  SnapshotInv'
    <1>1. /\ wpc[w] = "enumerateAgain" /\ f \in job[w].left /\ Visited(w, f, job[w])
          /\ (f \in Present(source)) = (f \in job[w].inputs)
          /\ source' = source /\ objects' = objects /\ wpc' = wpc /\ moment' = moment
        BY DEF EnumerateAgain, Visit
    <1>2. /\ job' \in [Writer -> Locals]
          /\ job'[w].left = job[w].left \ {f}
          /\ job'[w].gen = job[w].gen /\ job'[w].inputs = job[w].inputs
          /\ job'[w].before = job[w].before /\ job'[w].copied = job[w].copied
          /\ \A u \in Writer : u # w => job'[u] = job[u]
        BY <1>1, WriterFacts, VisitedFacts
    <1>3. wpc[w] \in Checking
        BY <1>1 DEF Checking
    <1>4. Gathered(w)'
        BY <1>1 DEF Gathered
    <1>5. \A x \in File \ job[w].inputs : x \in job'[w].left \/ moment[w][x] = AbsentAt[x]
        <2>1. \A x \in File \ job[w].inputs : x \in job[w].left \/ moment[w][x] = AbsentAt[x]
            BY <1>1, <1>3, WriterFacts DEF Compared, Checking
        <2>2. ASSUME f \notin job[w].inputs PROVE moment[w][f] = AbsentAt[f]
            <3>1. source[f] = AbsentAt[f]
                BY <1>1, <2>2 DEF Present
            <3>2. AbsentAt[f] <= moment[w][f] /\ moment[w][f] <= source[f]
                BY <1>3, <2>2, CheckingFacts DEF AlreadyGone
            <3>3. moment[w][f] \in Nat /\ source[f] \in Nat
                BY WriterFacts
            <3> QED BY <3>1, <3>2, <3>3
        <2> QED BY <1>2, <2>1, <2>2
    <1>6. \A x \in Identified : job[w].before[x] = moment[w][x]
        BY <1>1, <1>3, WriterFacts DEF Compared
    <1>7. Compared(w)'
        BY <1>1, <1>2, <1>3, <1>5, <1>6, CheckingFacts DEF Compared, AlreadyGone
    <1> QED BY <1>1, <1>2, <1>3, <1>4, <1>7, CheckingFacts, WriterFacts, Reads

LEMMA EnumeratedAgainKeeps ==
    ASSUME SnapshotInv, NEW w \in Writer, EnumeratedAgain(w)
    PROVE  SnapshotInv'
    <1>1. /\ wpc[w] = "enumerateAgain" /\ job[w].left = {}
          /\ Pass(w, "reread", job[w].inputs, job[w])
          /\ source' = source /\ objects' = objects /\ moment' = moment
        BY DEF EnumeratedAgain
    <1>2. /\ wpc' \in [Writer -> WriterState] /\ wpc'[w] = "reread"
          /\ job' \in [Writer -> Locals] /\ job'[w].left = job[w].inputs
          /\ job'[w].gen = job[w].gen /\ job'[w].inputs = job[w].inputs
          /\ job'[w].before = job[w].before /\ job'[w].copied = job[w].copied
          /\ \A u \in Writer : u # w => wpc'[u] = wpc[u] /\ job'[u] = job[u]
        <2>1. job[w].inputs \subseteq File
            BY WriterFacts
        <2>2. "reread" \in WriterState
            BY DEF WriterState
        <2>3. SnapshotTypeOK
            BY DEF SnapshotInv
        <2>4. Pass(w, "reread", job[w].inputs, job[w])
            BY <1>1
        <2> QED BY <2>1, <2>2, <2>3, <2>4 DEF SnapshotTypeOK, Pass, Goto, Locals
    <1>3. wpc[w] \in Checking
        BY <1>1 DEF Checking
    <1>4. Gathered(w)'
        BY <1>2 DEF Gathered
    <1>5. /\ \A f \in Identified : job[w].before[f] = moment[w][f]
          /\ \A f \in File \ job[w].inputs : moment[w][f] = AbsentAt[f]
        BY <1>1, <1>3, WriterFacts DEF Compared
    <1>6. Compared(w)'
        BY <1>1, <1>2, <1>3, <1>5, CheckingFacts DEF Compared, AlreadyGone
    <1> QED BY <1>1, <1>2, <1>3, <1>4, <1>6, CheckingFacts, WriterFacts, Reads

LEMMA RereadKeeps ==
    ASSUME SnapshotInv, NEW w \in Writer, NEW f \in File, Reread(w, f)
    PROVE  SnapshotInv'
    <1>1. /\ wpc[w] = "reread" /\ f \in job[w].left /\ Visited(w, f, job[w])
          /\ source[f] = job[w].copied[f]
          /\ source' = source /\ objects' = objects /\ wpc' = wpc /\ moment' = moment
        BY DEF Reread, Visit
    <1>2. /\ job' \in [Writer -> Locals]
          /\ job'[w].left = job[w].left \ {f}
          /\ job'[w].gen = job[w].gen /\ job'[w].inputs = job[w].inputs
          /\ job'[w].before = job[w].before /\ job'[w].copied = job[w].copied
          /\ \A u \in Writer : u # w => job'[u] = job[u]
        BY <1>1, WriterFacts, VisitedFacts
    <1>3. wpc[w] \in Checking
        BY <1>1 DEF Checking
    <1>4. Gathered(w)'
        BY <1>1 DEF Gathered
    <1>5. \A x \in job[w].inputs : x \in job'[w].left \/ job[w].copied[x] = moment[w][x]
        <2>1. \A x \in job[w].inputs : x \in job[w].left \/ job[w].copied[x] = moment[w][x]
            BY <1>1, <1>3, WriterFacts DEF Compared
        <2>2. ASSUME f \in job[w].inputs PROVE job[w].copied[f] = moment[w][f]
            <3>1. job[w].copied[f] <= moment[w][f] /\ moment[w][f] <= source[f]
                BY <1>3, <2>2, CheckingFacts
            <3>2. moment[w][f] \in Nat /\ source[f] \in Nat
                BY WriterFacts
            <3> QED BY <1>1, <3>1, <3>2
        <2> QED BY <1>2, <2>1, <2>2
    <1>6. /\ \A x \in Identified : job[w].before[x] = moment[w][x]
          /\ \A x \in File \ job[w].inputs : moment[w][x] = AbsentAt[x]
        BY <1>1, <1>3, WriterFacts DEF Compared
    <1>7. Compared(w)'
        BY <1>1, <1>2, <1>3, <1>5, <1>6, CheckingFacts DEF Compared, AlreadyGone
    <1> QED BY <1>1, <1>2, <1>3, <1>4, <1>7, CheckingFacts, WriterFacts, Reads

(* What the writer knows when every comparison held.                       *)
Agreed(w) ==
    /\ DOMAIN job[w].before = Identified /\ DOMAIN job[w].copied = job[w].inputs
    /\ First \in job[w].inputs
    /\ \A f \in Identified : job[w].before[f] = moment[w][f]
    /\ \A f \in File \ job[w].inputs : moment[w][f] = AbsentAt[f]
    /\ \A f \in job[w].inputs : job[w].copied[f] = moment[w][f]

LEMMA SurvivedKeeps ==
    ASSUME SnapshotInv, NEW w \in Writer, Survived(w)
    PROVE  SnapshotInv'
    <1>1. /\ wpc[w] = "reread" /\ job[w].left = {} /\ Goto(w, "manifest")
          /\ source' = source /\ objects' = objects /\ job' = job /\ moment' = moment
        BY DEF Survived
    <1>2. /\ wpc' \in [Writer -> WriterState] /\ wpc'[w] = "manifest"
          /\ \A u \in Writer : u # w => wpc'[u] = wpc[u]
        <2>1. "manifest" \in WriterState
            BY DEF WriterState
        <2>2. SnapshotTypeOK
            BY DEF SnapshotInv
        <2> QED BY <1>1, <2>1, <2>2, GotoFacts
    <1>3. wpc[w] \in Checking
        BY <1>1 DEF Checking
    <1>4. Gathered(w)'
        BY <1>2 DEF Gathered
    <1>5. Agreed(w)
        BY ZenonT(60), <1>1, <1>3, CheckingFacts, WriterFacts DEF Compared, Agreed
    <1>6. Compared(w)'
        BY <1>1, <1>2, <1>3, <1>5, CheckingFacts DEF Compared, AlreadyGone, Agreed
    <1> QED BY <1>1, <1>2, <1>3, <1>4, <1>6, CheckingFacts, WriterFacts, Reads

-----------------------------------------------------------------------------
(* Steps that write                                                        *)

(* A writer that still copies is the only one to have claimed its          *)
(* generation, or the generation is empty and it is about to.              *)
LEMMA AloneCopying ==
    ASSUME SnapshotInv, NEW w \in Writer, NEW f \in File, NextToCopy(w, f),
           f \notin DOMAIN objects[job[w].gen]
    PROVE  /\ DOMAIN objects[job[w].gen] = DOMAIN job[w].copied
           /\ \A x \in DOMAIN job[w].copied : objects[job[w].gen][x] = job[w].copied[x]
           /\ First \in DOMAIN job[w].copied \cup {f}
           /\ \A u \in Writer : u # w /\ Claimed(u) => job[u].gen # job[w].gen
    <1>1. /\ wpc[w] = "copy" /\ f \in job[w].left
          /\ \A x \in job[w].left : PathOrder[f] <= PathOrder[x]
        BY DEF NextToCopy, Visit
    <1>2. /\ First \in job[w].inputs
          /\ job[w].left \cup DOMAIN job[w].copied = job[w].inputs
          /\ First \notin DOMAIN job[w].copied => DOMAIN job[w].copied = {}
        BY <1>1, WriterFacts DEF Gathered
    <1>3. CASE First \in DOMAIN job[w].copied
        <2>1. Claimed(w)
            BY <1>1, <1>3 DEF Claimed
        <2>2. Held(w)
            BY <2>1 DEF SnapshotInv
        <2>3. \A u \in Writer : u # w /\ Claimed(u) => job[u].gen # job[w].gen
            BY <2>1 DEF SnapshotInv, Exclusive
        <2> QED BY <1>1, <1>3, <2>2, <2>3 DEF Held
    <1>4. CASE First \notin DOMAIN job[w].copied
        <2>1. DOMAIN job[w].copied = {} /\ First \in job[w].left
            BY <1>2, <1>4
        <2>2. f = First
            <3>1. PathOrder[f] <= PathOrder[First] /\ PathOrder[f] \in Nat /\ PathOrder[First] \in Nat
                BY <1>1, <2>1, FileAssumption
            <3>2. f # First => PathOrder[First] < PathOrder[f]
                BY FileAssumption
            <3> QED BY <3>1, <3>2
        <2>3. DOMAIN objects[job[w].gen] = {}
            <3>1. Settled(job[w].gen)
                BY WriterFacts DEF SnapshotInv
            <3> QED BY <2>2, <3>1 DEF Settled
        <2>4. ASSUME NEW u \in Writer, u # w, Claimed(u) PROVE job[u].gen # job[w].gen
            <3>1. Held(u)
                BY <2>4 DEF SnapshotInv
            <3>2. First \in DOMAIN objects[job[u].gen]
                BY <2>4, <3>1 DEF Held, Claimed
            <3> QED BY <2>3, <3>2
        <2> QED BY <2>1, <2>2, <2>3, <2>4
    <1> QED BY <1>3, <1>4

(* So is one that has copied.                                              *)
LEMMA AloneChecking ==
    ASSUME SnapshotInv, NEW w \in Writer, wpc[w] \in Checking
    PROVE  /\ Held(w)
           /\ First \in DOMAIN objects[job[w].gen]
           /\ MarkerKey \notin DOMAIN objects[job[w].gen]
           /\ \A u \in Writer : u # w /\ Claimed(u) => job[u].gen # job[w].gen
    <1>1. /\ Claimed(w) /\ DOMAIN job[w].copied = job[w].inputs /\ First \in job[w].inputs
        BY CheckingFacts
    <1>2. Held(w)
        BY <1>1 DEF SnapshotInv
    <1>3. \A u \in Writer : u # w /\ Claimed(u) => job[u].gen # job[w].gen
        BY <1>1 DEF SnapshotInv, Exclusive
    <1>4. job[w].inputs \subseteq File
        BY WriterFacts
    <1> QED BY <1>1, <1>2, <1>3, <1>4, FileAssumption DEF Held, ManifestKey, MarkerKey

(* A step of w that adds one object to a generation no other writer works  *)
(* on, which it leaves unsealed or sealed in order.                        *)
LEMMA Writes ==
    ASSUME SnapshotInv, NEW w \in Writer, NEW key \in Keys, NEW c \in Contents(key),
           Put(w, key, c),
           MarkerKey \notin DOMAIN objects[job[w].gen],
           First \in DOMAIN objects[job[w].gen] \cup {key},
           \A u \in Writer : u # w /\ Claimed(u) => job[u].gen # job[w].gen,
           source' = source, moment' = moment,
           wpc' \in [Writer -> WriterState], job' \in [Writer -> Locals],
           \A u \in Writer : u # w => wpc'[u] = wpc[u] /\ job'[u] = job[u],
           wpc[w] \notin {"done", "failed"},
           job'[w].gen = job[w].gen,
           Gathered(w)', Compared(w)', Claimed(w)' => Held(w)',
           Sealed(job[w].gen)' => Settled(job[w].gen)',
           wpc'[w] = "done" => Sealed(job[w].gen)'
    PROVE  SnapshotInv'
    <1> DEFINE gen == job[w].gen
    <1>1. SnapshotTypeOK
        BY DEF SnapshotInv
    <1>2. /\ gen \in Generation
          /\ DOMAIN objects' = Generation
          /\ DOMAIN objects'[gen] = DOMAIN objects[gen] \cup {key}
          /\ \A g \in Generation : g # gen => objects'[g] = objects[g]
          /\ \A g \in Generation :
                 /\ DOMAIN objects'[g] \subseteq File \cup {ManifestKey, MarkerKey}
                 /\ \A k \in DOMAIN objects'[g] : objects'[g][k] \in Contents(k)
        BY <1>1, PutFacts
    <1>3. SnapshotTypeOK'
        BY <1>1, <1>2 DEF SnapshotTypeOK
    <1>4. ASSUME NEW u \in Writer PROVE Gathered(u)' /\ Compared(u)'
        <2>1. CASE u = w BY <2>1
        <2>2. CASE u # w
            <3>1. \A f \in File : source[f] <= source'[f]
                BY WriterFacts
            <3>2. Gathered(u) /\ Compared(u)
                BY DEF SnapshotInv
            <3> QED BY <1>1, <1>3, <2>2, <3>1, <3>2, OlderStays
        <2> QED BY <2>1, <2>2
    <1>5. ASSUME NEW u \in Writer, u # w, Claimed(u)'
          PROVE  Claimed(u) /\ job[u].gen # gen /\ Held(u)'
        <2>1. Claimed(u)
            BY <1>5 DEF Claimed
        <2>2. job[u].gen # gen /\ job[u].gen \in Generation
            BY <1>5, <2>1, WriterFacts
        <2>3. objects'[job[u].gen] = objects[job[u].gen] /\ wpc'[u] = wpc[u] /\ job'[u] = job[u]
            BY <1>2, <1>5, <2>2
        <2>4. Held(u)
            BY <2>1 DEF SnapshotInv
        <2> HIDE DEF gen
        <2> QED BY <2>1, <2>2, <2>3, <2>4 DEF Held, Manifest
    <1>6. \A u \in Writer : Claimed(u)' => Held(u)'
        BY <1>5
    <1>7. Exclusive'
        <2> SUFFICES ASSUME NEW u \in Writer, NEW v \in Writer,
                            Claimed(u)', Claimed(v)', job'[u].gen = job'[v].gen
                     PROVE  u = v
            BY DEF Exclusive
        <2>1. CASE u # w /\ v # w
            BY <1>5, <2>1 DEF SnapshotInv, Exclusive
        <2>2. CASE u = w /\ v # w
            BY <1>5, <2>2
        <2>3. CASE u # w /\ v = w
            BY <1>5, <2>3
        <2> QED BY <2>1, <2>2, <2>3
    <1>8. ASSUME NEW g \in Generation, g # gen PROVE Settled(g)'
        <2>1. Settled(g) /\ objects'[g] = objects[g]
            BY <1>2, <1>8 DEF SnapshotInv
        <2>2. /\ Sealed(g)' <=> Sealed(g)
              /\ Verifies(g)' <=> Verifies(g)
              /\ BoundManifest(g)' = BoundManifest(g)
            BY <2>1 DEF Sealed, Verifies, BoundManifest, ArtifactsIntact, ObjectSetExact
        <2>3. CASE ~Sealed(g)
            BY <2>1, <2>2, <2>3 DEF Settled
        <2>4. CASE Sealed(g)
            <3> DEFINE by == BoundManifest(g).by
            <3>1. /\ Verifies(g) /\ by \in Writer /\ wpc[by] \in {"done", "failed"}
                  /\ OneMoment(BoundManifest(g))
                BY <2>1, <2>4 DEF Settled
            <3>2. wpc'[by] = wpc[by] /\ moment'[by] = moment[by]
                BY <3>1
            <3>3. OneMoment(BoundManifest(g))'
                BY <2>2, <3>1, <3>2 DEF OneMoment
            <3> QED BY <2>1, <2>2, <3>1, <3>2, <3>3 DEF Settled
        <2> QED BY <2>3, <2>4
    <1>9. Settled(gen)'
        <2>1. CASE Sealed(gen)' BY <2>1
        <2>2. CASE ~Sealed(gen)'
            <3>1. (First \in DOMAIN objects[gen])'
                BY <1>2
            <3> QED BY <2>2, <3>1 DEF Settled
        <2> QED BY <2>1, <2>2
    <1>10. \A g \in Generation : Settled(g)'
        BY <1>8, <1>9
    <1>11. ASSUME NEW u \in Writer, wpc'[u] = "done" PROVE (Sealed(job[u].gen))'
        <2>1. CASE u = w
            BY <1>11, <2>1 DEF Sealed
        <2>2. CASE u # w
            <3>1. Sealed(job[u].gen) /\ job[u].gen \in Generation
                BY <1>11, <2>2, WriterFacts DEF SnapshotInv
            <3>2. job[u].gen # gen
                BY <3>1 DEF Sealed
            <3>3. objects'[job[u].gen] = objects[job[u].gen] /\ job'[u] = job[u]
                BY <1>2, <2>2, <3>1, <3>2
            <3> HIDE DEF gen
            <3> QED BY <3>1, <3>3 DEF Sealed
        <2> QED BY <2>1, <2>2
    <1> QED BY <1>3, <1>4, <1>6, <1>7, <1>10, <1>11 DEF SnapshotInv

LEMMA CopyKeeps ==
    ASSUME SnapshotInv, NEW w \in Writer, NEW f \in File, Copy(w, f)
    PROVE  SnapshotInv'
    <1> DEFINE d == Add(job[w].copied, f, source[f])
               j == [job[w] EXCEPT !.copied = d]
    <1>1. /\ NextToCopy(w, f) /\ Put(w, f, source[f]) /\ Visited(w, f, j)
          /\ wpc[w] = "copy" /\ f \in job[w].left /\ f \in Present(source)
          /\ source' = source /\ wpc' = wpc /\ moment' = moment
        BY DEF Copy, NextToCopy, Visit
    <1>2. /\ d \in Tree
          /\ DOMAIN d = DOMAIN job[w].copied \cup {f}
          /\ d[f] = source[f]
          /\ \A x \in DOMAIN job[w].copied : x # f => d[x] = job[w].copied[x]
        <2>1. d \in Tree
            BY WriterFacts, AddTree
        <2> QED BY <2>1 DEF Add
    <1> HIDE DEF d
    <1>3. /\ j \in Locals
          /\ j.left = job[w].left /\ j.gen = job[w].gen /\ j.inputs = job[w].inputs
          /\ j.before = job[w].before /\ j.copied = d
        BY <1>2, WriterFacts DEF Locals
    <1> HIDE DEF j
    <1>4. /\ job' \in [Writer -> Locals]
          /\ job'[w].left = job[w].left \ {f}
          /\ job'[w].gen = job[w].gen /\ job'[w].inputs = job[w].inputs
          /\ job'[w].before = job[w].before /\ job'[w].copied = d
          /\ \A u \in Writer : u # w => job'[u] = job[u]
        BY <1>1, <1>3, WriterFacts, VisitedFacts
    <1>5. f \notin DOMAIN objects[job[w].gen]
        BY <1>1 DEF Put
    <1>6. /\ DOMAIN objects[job[w].gen] = DOMAIN job[w].copied
          /\ \A x \in DOMAIN job[w].copied : objects[job[w].gen][x] = job[w].copied[x]
          /\ First \in DOMAIN job[w].copied \cup {f}
          /\ \A u \in Writer : u # w /\ Claimed(u) => job[u].gen # job[w].gen
        BY <1>1, <1>5, AloneCopying
    <1>7. f \in Keys /\ source[f] \in Contents(f)
        BY WriterFacts, ContentsFacts DEF Keys
    <1>8. /\ DOMAIN objects'[job[w].gen] = DOMAIN objects[job[w].gen] \cup {f}
          /\ objects'[job[w].gen][f] = source[f]
          /\ \A k \in DOMAIN objects[job[w].gen] :
                 objects'[job[w].gen][k] = objects[job[w].gen][k]
        BY <1>1, <1>7, WriterFacts, PutFacts
    <1>9. MarkerKey \notin DOMAIN objects[job[w].gen] /\ MarkerKey # f
        <2>1. DOMAIN job[w].copied \subseteq File
            BY WriterFacts, TreeFacts
        <2> QED BY <1>6, <2>1, FileAssumption
    <1>10. ~Sealed(job[w].gen)'
        BY <1>4, <1>8, <1>9 DEF Sealed
    <1>11. Held(w)'
        BY <1>1, <1>2, <1>4, <1>5, <1>6, <1>8 DEF Held
    <1>12. Gathered(w)'
        <2>1. /\ First \in job[w].inputs
              /\ DOMAIN job[w].before = Identified
              /\ \A x \in Identified : job[w].before[x] <= source[x]
              /\ AlreadyGone(job[w], source)
              /\ job[w].left \cup DOMAIN job[w].copied = job[w].inputs
              /\ job[w].left \cap DOMAIN job[w].copied = {}
              /\ \A x \in DOMAIN job[w].copied :
                     job[w].copied[x] <= source[x] /\ job[w].copied[x] # AbsentAt[x]
            BY <1>1, WriterFacts DEF Gathered
        <2>2. \A x \in DOMAIN d : d[x] <= source[x] /\ d[x] # AbsentAt[x]
            BY <1>1, <1>2, <2>1, WriterFacts DEF Present
        <2>3. /\ job'[w].left \cup DOMAIN d = job[w].inputs
              /\ job'[w].left \cap DOMAIN d = {}
              /\ First \in DOMAIN d
            BY <1>1, <1>2, <1>4, <1>6, <2>1
        <2> QED BY <1>1, <1>4, <2>1, <2>2, <2>3 DEF Gathered, AlreadyGone
    <1>13. Compared(w)'
        BY <1>1, WriterFacts DEF Compared, Checking
    <1>14. wpc' \in [Writer -> WriterState] /\ job[w].gen \in Generation
        BY <1>1, WriterFacts
    <1> QED BY <1>1, <1>4, <1>6, <1>7, <1>9, <1>10, <1>11, <1>12, <1>13, <1>14, Writes

LEMMA ManifestFacts ==
    ASSUME SnapshotInv, NEW w \in Writer
    PROVE  /\ Manifest(w) \in ManifestObject /\ Marker(w) \in MarkerObject
           /\ Manifest(w) \in Contents(ManifestKey) /\ Marker(w) \in Contents(MarkerKey)
           /\ Marker(w) # Torn
           /\ Torn \in Contents(ManifestKey) /\ Torn \in Contents(MarkerKey)
           /\ \A f \in File : Torn \in Contents(f) /\ source[f] \in Contents(f)
    <1>1. Manifest(w) \in ManifestObject /\ Marker(w) \in MarkerObject
        BY WriterFacts DEF Manifest, ManifestObject, Marker, MarkerObject
    <1> QED BY <1>1, WriterFacts, ContentsFacts, TornAssumption

LEMMA WriteManifestKeeps ==
    ASSUME SnapshotInv, NEW w \in Writer, WriteManifest(w)
    PROVE  SnapshotInv'
    <1>1. /\ wpc[w] = "manifest" /\ Put(w, ManifestKey, Manifest(w)) /\ Goto(w, "marker")
          /\ source' = source /\ job' = job /\ moment' = moment
        BY DEF WriteManifest
    <1>2. /\ wpc' \in [Writer -> WriterState] /\ wpc'[w] = "marker"
          /\ \A u \in Writer : u # w => wpc'[u] = wpc[u]
        <2>1. "marker" \in WriterState
            BY DEF WriterState
        <2>2. SnapshotTypeOK
            BY DEF SnapshotInv
        <2> QED BY <1>1, <2>1, <2>2, GotoFacts
    <1>3. wpc[w] \in Checking
        BY <1>1 DEF Checking
    <1>4. /\ Held(w)
          /\ First \in DOMAIN objects[job[w].gen]
          /\ MarkerKey \notin DOMAIN objects[job[w].gen]
          /\ \A u \in Writer : u # w /\ Claimed(u) => job[u].gen # job[w].gen
        BY <1>3, AloneChecking
    <1>5. ManifestKey \in Keys /\ Manifest(w) \in Contents(ManifestKey) /\ ManifestKey # MarkerKey
        BY ManifestFacts DEF Keys, ManifestKey, MarkerKey
    <1>6. /\ DOMAIN objects'[job[w].gen] = DOMAIN objects[job[w].gen] \cup {ManifestKey}
          /\ objects'[job[w].gen][ManifestKey] = Manifest(w)
          /\ \A k \in DOMAIN objects[job[w].gen] :
                 objects'[job[w].gen][k] = objects[job[w].gen][k]
        BY <1>1, <1>5, WriterFacts, PutFacts
    <1>7. ~Sealed(job[w].gen)'
        BY <1>1, <1>4, <1>5, <1>6 DEF Sealed
    <1>8. Held(w)'
        BY <1>1, <1>2, <1>4, <1>6 DEF Held, Manifest
    <1>9. Gathered(w)'
        BY <1>2 DEF Gathered
    <1>10. Compared(w)'
        BY <1>1, <1>2, <1>3, CheckingFacts, WriterFacts DEF Compared, AlreadyGone
    <1>11. job' \in [Writer -> Locals]
        BY <1>1, WriterFacts
    <1> QED BY <1>1, <1>2, <1>4, <1>5, <1>7, <1>8, <1>9, <1>10, <1>11, Writes

(* A put that fails leaves an object, or a torn one, and ends the writer.  *)
LEMMA BrokenWriteKeeps ==
    ASSUME SnapshotInv, NEW w \in Writer, NEW key \in Keys \ {MarkerKey},
           NEW c \in Contents(key), Put(w, key, c), End(w, "failed"),
           wpc[w] \notin {"done", "failed"},
           MarkerKey \notin DOMAIN objects[job[w].gen],
           First \in DOMAIN objects[job[w].gen] \cup {key},
           \A u \in Writer : u # w /\ Claimed(u) => job[u].gen # job[w].gen
    PROVE  SnapshotInv'
    <1>1. /\ wpc' \in [Writer -> WriterState] /\ wpc'[w] = "failed"
          /\ job' \in [Writer -> Locals] /\ job'[w] = IdleJob(job[w].gen)
          /\ \A u \in Writer : u # w => wpc'[u] = wpc[u] /\ job'[u] = job[u]
        BY WriterFacts, EndFacts DEF WriterState
    <1>2. source' = source /\ moment' = moment
        BY DEF End
    <1>3. job'[w].gen = job[w].gen /\ ~Claimed(w)'
        BY <1>1 DEF IdleJob, Claimed, Checking
    <1>4. Gathered(w)'
        BY <1>1, <1>3 DEF Gathered
    <1>5. Compared(w)'
        BY <1>1, <1>2, WriterFacts DEF Compared, Checking
    <1>6. DOMAIN objects'[job[w].gen] = DOMAIN objects[job[w].gen] \cup {key}
        BY WriterFacts, PutFacts
    <1>7. ~Sealed(job[w].gen)'
        BY <1>3, <1>6 DEF Sealed
    <1> QED BY <1>1, <1>2, <1>3, <1>4, <1>5, <1>7, Writes

(* The marker, written or torn, by a writer that ends with it.             *)
LEMMA MarkerKeeps ==
    ASSUME SnapshotInv, NEW w \in Writer, wpc[w] = "marker",
           NEW c \in {Marker(w), Torn}, Put(w, MarkerKey, c),
           NEW l \in {"done", "failed"}, End(w, l),
           l = "done" => c = Marker(w)
    PROVE  SnapshotInv'
    <1> DEFINE gen == job[w].gen
               m == Manifest(w)
    <1>1. /\ wpc' \in [Writer -> WriterState] /\ wpc'[w] = l
          /\ job' \in [Writer -> Locals] /\ job'[w] = IdleJob(job[w].gen)
          /\ \A u \in Writer : u # w => wpc'[u] = wpc[u] /\ job'[u] = job[u]
        BY WriterFacts, EndFacts DEF WriterState
    <1>2. source' = source /\ moment' = moment
        BY DEF End
    <1>3. job'[w].gen = gen /\ ~Claimed(w)'
        BY <1>1 DEF IdleJob, Claimed, Checking
    <1>4. Gathered(w)'
        BY <1>1, <1>3 DEF Gathered
    <1>5. Compared(w)'
        BY <1>1, <1>2, WriterFacts DEF Compared, Checking
    <1>6. wpc[w] \in Checking
        BY DEF Checking
    <1>7. /\ Held(w)
          /\ First \in DOMAIN objects[gen]
          /\ MarkerKey \notin DOMAIN objects[gen]
          /\ \A u \in Writer : u # w /\ Claimed(u) => job[u].gen # gen
        BY <1>6, AloneChecking
    <1>8. MarkerKey \in Keys /\ c \in Contents(MarkerKey) /\ Marker(w) # Torn
        BY ManifestFacts DEF Keys
    <1>9. /\ DOMAIN objects'[gen] = DOMAIN objects[gen] \cup {MarkerKey}
          /\ objects'[gen][MarkerKey] = c
          /\ \A k \in DOMAIN objects[gen] : objects'[gen][k] = objects[gen][k]
        BY <1>8, WriterFacts, PutFacts
    <1>10. /\ DOMAIN job[w].before = Identified /\ DOMAIN job[w].copied = job[w].inputs
           /\ First \in job[w].inputs
           /\ \A f \in Identified : job[w].before[f] = moment[w][f]
           /\ \A f \in File \ job[w].inputs : moment[w][f] = AbsentAt[f]
           /\ \A f \in job[w].inputs :
                  job[w].copied[f] = moment[w][f] /\ job[w].copied[f] # AbsentAt[f]
        BY <1>6, CheckingFacts, WriterFacts DEF Compared
    <1>11. Describes(m, moment[w])
        BY <1>10, WriterFacts, FileAssumption DEF Describes, Present, Manifest
    <1>12. ASSUME Sealed(job[w].gen)' PROVE Settled(job[w].gen)'
        <2>1. c = Marker(w)
            BY <1>3, <1>9, <1>12 DEF Sealed
        <2>2. (BoundManifest(job[w].gen))' = m
            BY <1>3, <1>9, <2>1 DEF BoundManifest, Marker
        <2>3. /\ m.snapshot_id = gen /\ m.artifacts = job[w].copied /\ m.by = w
            BY DEF Manifest
        <2>4. /\ DOMAIN objects[gen] = DOMAIN job[w].copied \cup {ManifestKey}
              /\ \A f \in DOMAIN job[w].copied : objects[gen][f] = job[w].copied[f]
              /\ objects[gen][ManifestKey] = m
            BY <1>7 DEF Held
        <2> HIDE DEF m
        <2>5. Verifies(job[w].gen)'
            BY <1>3, <1>9, <1>10, <1>12, <2>2, <2>3, <2>4
               DEF Verifies, ArtifactsIntact, ObjectSetExact
        <2>6. (OneMoment(BoundManifest(job[w].gen)))'
            BY <1>2, <1>11, <2>2, <2>3 DEF OneMoment
        <2>7. (First \in DOMAIN objects[job[w].gen])'
            BY <1>3, <1>7, <1>9
        <2> QED BY <1>1, <2>2, <2>3, <2>5, <2>6, <2>7 DEF Settled
    <1>13. wpc'[w] = "done" => Sealed(job[w].gen)'
        BY <1>1, <1>3, <1>8, <1>9 DEF Sealed
    <1> QED BY <1>1, <1>2, <1>3, <1>4, <1>5, <1>7, <1>8, <1>12, <1>13, Writes

LEMMA WriteFailsKeeps ==
    ASSUME SnapshotInv, NEW w \in Writer, WriteFails(w)
    PROVE  SnapshotInv'
    <1>1. CASE \E f \in File : NextToCopy(w, f) /\ (PutFails(w, f, source[f]) \/ KeyTaken(w, f))
        <2>1. PICK f \in File : NextToCopy(w, f) /\ (PutFails(w, f, source[f]) \/ KeyTaken(w, f))
            BY <1>1
        <2>2. wpc[w] = "copy"
            BY <2>1 DEF NextToCopy, Visit
        <2>3. CASE KeyTaken(w, f)
            BY <2>2, <2>3, EndKeeps DEF KeyTaken
        <2>4. CASE PutFails(w, f, source[f])
            <3>1. PICK c \in {source[f], Torn} : Put(w, f, c)
                BY <2>4 DEF PutFails
            <3>2. End(w, "failed") /\ f \notin DOMAIN objects[job[w].gen]
                BY <2>4, <3>1 DEF PutFails, Put
            <3>3. /\ DOMAIN objects[job[w].gen] = DOMAIN job[w].copied
                  /\ First \in DOMAIN job[w].copied \cup {f}
                  /\ \A u \in Writer : u # w /\ Claimed(u) => job[u].gen # job[w].gen
                BY <2>1, <3>2, AloneCopying
            <3>4. MarkerKey \notin DOMAIN objects[job[w].gen]
                <4>1. DOMAIN job[w].copied \subseteq File
                    BY WriterFacts, TreeFacts
                <4> QED BY <3>3, <4>1, FileAssumption
            <3>5. f \in Keys \ {MarkerKey} /\ c \in Contents(f)
                BY ManifestFacts, FileAssumption DEF Keys
            <3> QED BY <2>2, <3>1, <3>2, <3>3, <3>4, <3>5, BrokenWriteKeeps
        <2> QED BY <2>1, <2>3, <2>4
    <1>2. CASE wpc[w] = "manifest"
               /\ (PutFails(w, ManifestKey, Manifest(w)) \/ KeyTaken(w, ManifestKey))
        <2>1. CASE KeyTaken(w, ManifestKey)
            BY <1>2, <2>1, EndKeeps DEF KeyTaken
        <2>2. CASE PutFails(w, ManifestKey, Manifest(w))
            <3>1. PICK c \in {Manifest(w), Torn} : Put(w, ManifestKey, c)
                BY <2>2 DEF PutFails
            <3>2. End(w, "failed")
                BY <2>2 DEF PutFails
            <3>3. wpc[w] \in Checking
                BY <1>2 DEF Checking
            <3>4. /\ First \in DOMAIN objects[job[w].gen]
                  /\ MarkerKey \notin DOMAIN objects[job[w].gen]
                  /\ \A u \in Writer : u # w /\ Claimed(u) => job[u].gen # job[w].gen
                BY <3>3, AloneChecking
            <3>5. ManifestKey \in Keys \ {MarkerKey} /\ c \in Contents(ManifestKey)
                BY ManifestFacts DEF Keys, ManifestKey, MarkerKey
            <3> QED BY <1>2, <3>1, <3>2, <3>4, <3>5, BrokenWriteKeeps
        <2> QED BY <1>2, <2>1, <2>2
    <1>3. CASE wpc[w] = "marker"
               /\ (PutFails(w, MarkerKey, Marker(w)) \/ KeyTaken(w, MarkerKey))
        <2>1. CASE KeyTaken(w, MarkerKey)
            BY <1>3, <2>1, EndKeeps DEF KeyTaken
        <2>2. CASE PutFails(w, MarkerKey, Marker(w))
            <3>1. PICK c \in {Marker(w), Torn} : Put(w, MarkerKey, c)
                BY <2>2 DEF PutFails
            <3>2. End(w, "failed")
                BY <2>2 DEF PutFails
            <3> QED BY <1>3, <3>1, <3>2, MarkerKeeps
        <2> QED BY <1>3, <2>1, <2>2
    <1> QED BY <1>1, <1>2, <1>3 DEF WriteFails

LEMMA WriterStepKeeps ==
    ASSUME SnapshotInv, NEW w \in Writer, WriterStep(w)
    PROVE  SnapshotInv'
    <1>1. CASE Start(w) BY <1>1, StartKeeps
    <1>2. CASE Enumerated(w) BY <1>2, EnumeratedKeeps
    <1>3. CASE IdentityTaken(w) BY <1>3, IdentityTakenKeeps
    <1>4. CASE Copied(w) BY <1>4, CopiedKeeps
    <1>5. CASE IdentityKept(w) BY <1>5, IdentityKeptKeeps
    <1>6. CASE EnumeratedAgain(w) BY <1>6, EnumeratedAgainKeeps
    <1>7. CASE Survived(w) BY <1>7, SurvivedKeeps
    <1>8. CASE WriteManifest(w) BY <1>8, WriteManifestKeeps
    <1>9. CASE WriteMarker(w)
        BY <1>9, MarkerKeeps DEF WriteMarker
    <1>10. CASE WriteFails(w) BY <1>10, WriteFailsKeeps
    <1>11. CASE Stop(w)
        BY <1>11, EndKeeps DEF Stop
    <1>12. CASE \E f \in File :
                   \/ Enumerate(w, f) \/ Identify(w, f) \/ Copy(w, f)
                   \/ IdentifyAgain(w, f) \/ EnumerateAgain(w, f) \/ Reread(w, f)
        BY <1>12, EnumerateKeeps, IdentifyKeeps, CopyKeeps,
           IdentifyAgainKeeps, EnumerateAgainKeeps, RereadKeeps
    <1> QED BY <1>1, <1>2, <1>3, <1>4, <1>5, <1>6, <1>7, <1>8, <1>9, <1>10, <1>11, <1>12
            DEF WriterStep

LEMMA SnapshotStepKeeps ==
    ASSUME SnapshotInv, SnapshotNext
    PROVE  SnapshotInv'
    BY SMTT(40), ChangeKeeps, WriterStepKeeps DEF SnapshotNext

LEMMA SnapshotStutterKeeps ==
    ASSUME SnapshotInv, UNCHANGED snapshotVars
    PROVE  SnapshotInv'
    <1>1. /\ source' = source /\ objects' = objects /\ wpc' = wpc /\ job' = job
          /\ moment' = moment
        BY DEF snapshotVars
    <1> QED BY SMTT(40), <1>1 DEF SnapshotInv, SnapshotTypeOK, Gathered, Compared, AlreadyGone, Claimed,
               Held, Manifest, Exclusive, Settled, Sealed, Verifies, BoundManifest,
               ArtifactsIntact, ObjectSetExact, OneMoment

LEMMA InvIsOneMoment == SnapshotInv => SealedIsOneMoment
    BY DEF SnapshotInv, Settled, SealedIsOneMoment

-----------------------------------------------------------------------------
(* Theorems                                                                *)

(* The inductive invariant holds of any number of writers.                 *)
THEOREM SnapshotInvariance == SnapshotSpec => []SnapshotInv
    <1>1. SnapshotInv /\ [SnapshotNext]_snapshotVars => SnapshotInv'
        BY SnapshotStepKeeps, SnapshotStutterKeeps
    <1> QED BY SnapshotInitially, <1>1, PTL DEF SnapshotSpec

(* The type invariant of the writers and the generations (writeSnapshot).  *)
THEOREM SnapshotTyped == SnapshotSpec => []SnapshotTypeOK
    <1>1. SnapshotInv => SnapshotTypeOK
        BY DEF SnapshotInv
    <1> QED BY SnapshotInvariance, <1>1, PTL

(* Every sealed generation verifies and is the source of one moment        *)
(* (writeSnapshot, verifySnapshot).                                        *)
THEOREM SealedGenerations == SnapshotSpec => []SealedIsOneMoment
    BY SnapshotInvariance, InvIsOneMoment, PTL
=============================================================================

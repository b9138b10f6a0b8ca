---------------------- MODULE FotMobStagingStoreProofs ----------------------
(***************************************************************************)
(* Proofs about the staging store, for any batches, processes, crashes and *)
(* failing file operations.                                                *)
(***************************************************************************)
EXTENDS FotMobStagingStore, TLAPS, FiniteSetTheorems, WellFoundedInduction

-----------------------------------------------------------------------------
(* Names and files                                                         *)

LEMMA Names ==
    /\ \A k : markerFile(k).type = "marker" /\ markerFile(k).seq = k
    /\ \A k : summaryFile(k).type = "summary" /\ ledgerFile(k).type = "ledger"
    /\ \A k : ledgerFile(k).seq = k /\ summaryFile(k).seq = k
    /\ \A m, v : artifactFile(m, v).type = "artifact" /\ quarantineFile(m, v).type = "quarantine"
    /\ \A p : tmpFile(p).type = "tmp"
    BY DEF markerFile, summaryFile, ledgerFile, artifactFile, quarantineFile, tmpFile

LEMMA PutFacts ==
    ASSUME NEW d, NEW n, NEW doc
    PROVE  /\ DOMAIN Put(d, n, doc) = DOMAIN d \cup {n}
           /\ Put(d, n, doc)[n] = doc
           /\ \A x \in DOMAIN d : x # n => Put(d, n, doc)[x] = d[x]
    BY DEF Put

LEMMA PutIsFunction ==
    ASSUME NEW d, NEW n, NEW doc
    PROVE  Put(d, n, doc) = [x \in DOMAIN Put(d, n, doc) |-> Put(d, n, doc)[x]]
    BY DEF Put

LEMMA RestrictFacts ==
    ASSUME NEW d, NEW S
    PROVE  /\ DOMAIN Restrict(d, S) = S
           /\ \A x \in S : Restrict(d, S)[x] = d[x]
    BY DEF Restrict

LEMMA RestrictIsFunction ==
    ASSUME NEW d, NEW S
    PROVE  Restrict(d, S) = [x \in DOMAIN Restrict(d, S) |-> Restrict(d, S)[x]]
    BY DEF Restrict

(* A store whose committed state is the markers 1 .. n and what they bind. *)
Store(d, n) ==
    /\ n \in Nat
    /\ Files(d, "marker") = {markerFile(k) : k \in 1 .. n}
    /\ \A k \in 1 .. n :
          LET files == d[markerFile(k)].files IN
          /\ Linked(d, k)
          /\ \A f \in DOMAIN files : /\ f \in DOMAIN d /\ d[f] = files[f]
                                     /\ f.type \notin {"marker", "tmp"}
          /\ {summaryFile(k), ledgerFile(k)} \subseteq DOMAIN files

LEMMA StoreFacts ==
    ASSUME NEW d, NEW n, Store(d, n)
    PROVE  /\ Chained(d) = Files(d, "marker")
           /\ LatestSeq(d) = n
           /\ Bound(d) \subseteq DOMAIN d
           /\ \A f : f \in Bound(d) <=> \E k \in 1 .. n : f \in DOMAIN d[markerFile(k)].files
           /\ \A f \in Bound(d) : f.type \notin {"marker", "tmp"}
           /\ BoundIntact(d)
           /\ LedgerOf(d) = IF n = 0 THEN EmptyLedger ELSE d[ledgerFile(n)]
           /\ n # 0 => ledgerFile(n) \in Bound(d)
    <1>1. Chained(d) = Files(d, "marker")
        BY Names DEF Store, Chained
    <1>2. LatestSeq(d) = n
        <2> DEFINE Seqs == {0} \cup {x.seq : x \in Chained(d)}
        <2>1. Seqs = 0 .. n
            <3>1. {x.seq : x \in Chained(d)} = 1 .. n
                BY <1>1, Names DEF Store
            <3> QED BY <3>1 DEF Store
        <2>2. \A k \in Seqs : (\A x \in Chained(d) : x.seq <= k) <=> k = n
            <3>1. \A k \in 1 .. n : markerFile(k) \in Chained(d)
                BY <1>1 DEF Store
            <3>2. \A x \in Chained(d) : \E k \in 1 .. n : x.seq = k
                BY <1>1, Names DEF Store
            <3> QED BY <2>1, <3>1, <3>2, Names DEF Store
        <2>3. n \in Seqs
            BY <2>1 DEF Store
        <2> HIDE DEF Seqs
        <2>4. (CHOOSE k \in Seqs : \A x \in Chained(d) : x.seq <= k) = n
            BY <2>2, <2>3
        <2> QED BY <2>4 DEF LatestSeq, Seqs
    <1>3. \A f : f \in Bound(d) <=> \E k \in 1 .. n : f \in DOMAIN d[markerFile(k)].files
        BY <1>1 DEF Store, Bound
    <1>4. Bound(d) \subseteq DOMAIN d /\ \A f \in Bound(d) : f.type \notin {"marker", "tmp"}
        BY <1>3 DEF Store
    <1>5. BoundIntact(d)
        BY <1>1 DEF Store, BoundIntact
    <1>6. n # 0 => ledgerFile(n) \in Bound(d)
        BY <1>3 DEF Store
    <1>7. LedgerOf(d) = IF n = 0 THEN EmptyLedger ELSE d[ledgerFile(n)]
        BY <1>2, <1>4, <1>6 DEF LedgerOf, Store
    <1> QED BY <1>1, <1>2, <1>3, <1>4, <1>5, <1>6, <1>7

(* Files that no marker binds come and go: the committed state stays.      *)
LEMMA StoreFrame ==
    ASSUME NEW d, NEW n, Store(d, n), NEW e,
           Files(e, "marker") = Files(d, "marker"),
           \A f \in Files(d, "marker") \cup Bound(d) : f \in DOMAIN e /\ e[f] = d[f]
    PROVE  /\ Store(e, n)
           /\ Bound(e) = Bound(d)
           /\ LatestSeq(e) = LatestSeq(d)
           /\ LedgerOf(e) = LedgerOf(d)
    <1>1. \A k \in 1 .. n : e[markerFile(k)] = d[markerFile(k)] /\ markerFile(k) \in DOMAIN e
        BY DEF Store
    <1>2. \A k \in 1 .. n : Linked(e, k)
        <2> SUFFICES ASSUME NEW k \in 1 .. n PROVE Linked(e, k)
            OBVIOUS
        <2>1. Linked(d, k)
            BY DEF Store
        <2>2. k # 1 => k - 1 \in 1 .. n
            BY DEF Store
        <2> QED BY <1>1, <2>1, <2>2 DEF Linked
    <1>3. \A k \in 1 .. n : \A f \in DOMAIN d[markerFile(k)].files : f \in DOMAIN e /\ e[f] = d[f]
        BY StoreFacts
    <1>4. Store(e, n)
        BY <1>1, <1>2, <1>3 DEF Store
    <1>5. Bound(e) = Bound(d)
        <2>1. \A f : f \in Bound(d) <=> \E k \in 1 .. n : f \in DOMAIN d[markerFile(k)].files
            BY StoreFacts
        <2>2. \A f : f \in Bound(e) <=> \E k \in 1 .. n : f \in DOMAIN e[markerFile(k)].files
            BY <1>4, StoreFacts
        <2> QED BY <1>1, <2>1, <2>2
    <1>6. LatestSeq(e) = LatestSeq(d)
        BY <1>4, StoreFacts
    <1>7. LedgerOf(e) = LedgerOf(d)
        BY <1>4, StoreFacts
    <1> QED BY <1>4, <1>5, <1>6, <1>7

(* The rename of the next marker makes its files the latest commit.        *)
LEMMA StoreCommit ==
    ASSUME NEW d, NEW n, Store(d, n), NEW m, NEW t,
           t.type = "tmp",
           \A f \in DOMAIN m.files : /\ f \in DOMAIN d /\ d[f] = m.files[f]
                                     /\ f.type \notin {"marker", "tmp"},
           {summaryFile(n + 1), ledgerFile(n + 1)} \subseteq DOMAIN m.files,
           m.prev = IF n = 0 THEN 0 ELSE d[markerFile(n)].at
    PROVE  LET e == Put(Restrict(d, DOMAIN d \ {t}), markerFile(n + 1), m) IN
           /\ Store(e, n + 1)
           /\ LedgerOf(e) = m.files[ledgerFile(n + 1)]
    <1> DEFINE e == Put(Restrict(d, DOMAIN d \ {t}), markerFile(n + 1), m)
    <1>0. n \in Nat /\ n + 1 \in Nat \ {0} /\ 1 .. n + 1 = 1 .. n \cup {n + 1} /\ n + 1 \notin 1 .. n
        BY DEF Store
    <1> DEFINE r == Restrict(d, DOMAIN d \ {t})
    <1>a. DOMAIN r = DOMAIN d \ {t} /\ \A x \in DOMAIN d \ {t} : r[x] = d[x]
        BY RestrictFacts
    <1>b. e = Put(r, markerFile(n + 1), m)
        OBVIOUS
    <1> HIDE DEF r, e
    <1>1. DOMAIN e = (DOMAIN d \ {t}) \cup {markerFile(n + 1)} /\ e[markerFile(n + 1)] = m
        BY <1>a, <1>b DEF Put
    <1>2. \A x \in DOMAIN d \ {t} : x # markerFile(n + 1) => e[x] = d[x]
        BY <1>a, <1>b DEF Put
    <1>3. \A k \in 1 .. n : markerFile(k) # markerFile(n + 1) /\ markerFile(k) # t
        BY <1>0, Names
    <1>4. \A k \in 1 .. n : markerFile(k) \in DOMAIN d
        BY DEF Store, Files
    <1>5. \A k \in 1 .. n : markerFile(k) \in DOMAIN e /\ e[markerFile(k)] = d[markerFile(k)]
        BY <1>1, <1>2, <1>3, <1>4
    <1>6. Files(e, "marker") = {markerFile(k) : k \in 1 .. n + 1}
        <2>1. \A x \in DOMAIN e : x.type = "marker" =>
                  x = markerFile(n + 1) \/ x \in Files(d, "marker")
            BY <1>1 DEF Files
        <2>2. \A x \in DOMAIN e : x.type = "marker" => \E k \in 1 .. n + 1 : x = markerFile(k)
            BY <2>1, <1>0 DEF Store
        <2>3. \A k \in 1 .. n + 1 : markerFile(k) \in DOMAIN e /\ markerFile(k).type = "marker"
            BY <1>0, <1>1, <1>5, Names
        <2> QED BY <2>2, <2>3 DEF Files
    <1>7. \A f \in DOMAIN d : f.type \notin {"marker", "tmp"} => f \in DOMAIN e /\ e[f] = d[f]
        BY <1>1, <1>2, Names
    <1>8. ASSUME NEW k \in 1 .. n
          PROVE  LET files == e[markerFile(k)].files IN
                 /\ Linked(e, k)
                 /\ \A f \in DOMAIN files : /\ f \in DOMAIN e /\ e[f] = files[f]
                                            /\ f.type \notin {"marker", "tmp"}
                 /\ {summaryFile(k), ledgerFile(k)} \subseteq DOMAIN files
        <2>1. Linked(d, k)
            BY DEF Store
        <2>2. k # 1 => k - 1 \in 1 .. n
            BY <1>0
        <2>3. Linked(e, k)
            BY <1>5, <2>1, <2>2 DEF Linked
        <2> QED BY <1>5, <1>7, <2>3 DEF Store
    <1>9. Linked(e, n + 1)
        <2>1. n # 0 => n \in 1 .. n
            BY <1>0
        <2>2. n # 0 => e[markerFile(n)] = d[markerFile(n)]
            BY <2>1, <1>5
        <2>3. n + 1 - 1 = n
            BY <1>0
        <2>4. n + 1 = 1 <=> n = 0
            BY <1>0
        <2>5. markerFile(n + 1) \in DOMAIN e
            BY <1>1
        <2>6. CASE n = 0
            <3>1. n + 1 = 1
                BY <2>6
            <3>2. markerFile(1) \in DOMAIN e /\ e[markerFile(1)].prev = 0
                BY <1>1, <2>5, <2>6, <3>1
            <3>3. Linked(e, 1)
                BY <3>2 DEF Linked
            <3> QED BY <3>1, <3>3
        <2>7. CASE n # 0
            <3> DEFINE k == n + 1
            <3>1. k # 1 /\ k - 1 = n
                BY <2>7, <1>0
            <3>2. markerFile(k) \in DOMAIN e /\ e[markerFile(k)].prev = e[markerFile(n)].at
                BY <1>1, <2>2, <2>5, <2>7
            <3> HIDE DEF k
            <3>3. Linked(e, k)
                BY <3>1, <3>2 DEF Linked
            <3> QED BY <3>3 DEF k
        <2> QED BY <2>6, <2>7
    <1>10. \A f \in DOMAIN m.files : /\ f \in DOMAIN e /\ e[f] = m.files[f]
                                     /\ f.type \notin {"marker", "tmp"}
        BY <1>7
    <1>11. Store(e, n + 1)
        BY <1>0, <1>1, <1>6, <1>8, <1>9, <1>10 DEF Store
    <1>12. LedgerOf(e) = m.files[ledgerFile(n + 1)]
        BY <1>0, <1>10, <1>11, StoreFacts
    <1> QED BY <1>11, <1>12 DEF e, r

-----------------------------------------------------------------------------
(* What a commit writes                                                    *)

Extends(old, new) ==
    /\ old.obs \subseteq new.obs
    /\ old.quar \subseteq new.quar
    /\ \A o \in new.obs \ old.obs : ~\E x \in old.obs : Committed!SameObservation(o, x)
    /\ \A q \in new.quar \ old.quar : ~\E x \in old.quar : Committed!SameQuarantine(q, x)

LEMMA NextLedgerFacts ==
    ASSUME NEW b \in Seq(Result), NEW l \in Ledger, NEW at \in Nat
    PROVE  NextLedger(b, l, at) \in Ledger /\ Extends(l, NextLedger(b, l, at))
    <1> DEFINE new == NextLedger(b, l, at)
    <1>1. \A i \in DOMAIN b : b[i] \in Result
        OBVIOUS
    <1>2. ASSUME NEW i \in DOMAIN b, BringsArtifact(b, i, l)
          PROVE  /\ Observation(b[i], l) \in Observations
                 /\ ~\E x \in l.obs : Committed!SameObservation(Observation(b[i], l), x)
        <2>1. Classify(b[i], l) \in Fresh
            BY <1>2 DEF BringsArtifact
        <2>2. b[i].kind = "ok"
            BY <1>1, <2>1 DEF Classify, Fresh, Result
        <2>3. b[i].match \in Match /\ b[i].payload \in Payload /\ b[i].identity \in Identity
            BY <1>1, <2>2 DEF Result
        <2>4. ~\E o \in Staged(l, b[i].match) : o.payload = b[i].payload
            BY <2>1, <2>2 DEF Classify, Fresh
        <2> QED BY <2>1, <2>3, <2>4
                DEF Observation, Observations, Staged, Committed!SameObservation
    <1>3. ASSUME NEW i \in DOMAIN b, BringsQuarantine(b, i, l)
          PROVE  LET q == [match |-> b[i].match, code |-> b[i].code, at |-> at] IN
                 q \in Evidence /\ ~\E x \in l.quar : Committed!SameQuarantine(q, x)
        <2>1. b[i].kind = "quarantined" /\ b[i] \in Result
            BY <1>1, <1>3 DEF BringsQuarantine
        <2>2. b[i].match \in Match /\ b[i].code \in Code
            BY <2>1 DEF Result
        <2>3. ~\E q \in l.quar : q.match = b[i].match /\ q.code = b[i].code
            BY <1>3 DEF BringsQuarantine
        <2> QED BY <2>2, <2>3 DEF Evidence, Committed!SameQuarantine
    <1>4. l.obs \subseteq Observations /\ l.quar \subseteq Evidence
        BY DEF Ledger
    <1>5. new.obs = l.obs \cup NewObservations(b, l) /\ new.quar = l.quar \cup NewQuarantines(b, l, at)
        BY DEF NextLedger
    <1>6. \A o \in NewObservations(b, l) :
             o \in Observations /\ ~\E x \in l.obs : Committed!SameObservation(o, x)
        BY <1>2 DEF NewObservations
    <1>7. \A q \in NewQuarantines(b, l, at) :
             q \in Evidence /\ ~\E x \in l.quar : Committed!SameQuarantine(q, x)
        BY <1>3 DEF NewQuarantines
    <1>8. new \in Ledger
        BY <1>4, <1>6, <1>7 DEF NextLedger, Ledger
    <1>9. Extends(l, new)
        BY <1>5, <1>6, <1>7 DEF Extends
    <1> QED BY <1>8, <1>9

LEMMA DocumentsFacts ==
    ASSUME NEW b \in Seq(Result), NEW l, NEW k \in Nat \ {0}, NEW at
    PROVE  LET docs == Documents(b, l, k, at) IN
           /\ {summaryFile(k), ledgerFile(k)} \subseteq DOMAIN docs
           /\ docs[ledgerFile(k)] = NextLedger(b, l, at)
           /\ \A f \in DOMAIN docs :
                 /\ f \in ArtifactName \cup QuarantineName \cup SummaryName \cup LedgerName
                 /\ f.type = "ledger" => f = ledgerFile(k)
    <1> DEFINE docs == Documents(b, l, k, at)
               observed == {artifactFile(a.match, a.payload) : a \in Artifacts(b, l)}
               evidence == {quarantineFile(q.match, q.code) : q \in NewQuarantines(b, l, at)}
    <1>1. DOMAIN docs = observed \cup evidence \cup {summaryFile(k), ledgerFile(k)}
        BY DEF Documents
    <1>2. \A i \in DOMAIN b : b[i] \in Result
        OBVIOUS
    <1>3. observed \subseteq ArtifactName
        <2> SUFFICES ASSUME NEW i \in DOMAIN b, BringsArtifact(b, i, l)
                     PROVE  artifactFile(FinalArtifact(b[i], l).match,
                                         FinalArtifact(b[i], l).payload) \in ArtifactName
            BY DEF Artifacts
        <2>1. b[i].kind = "ok" /\ b[i] \in Result
            BY <1>2 DEF BringsArtifact, Classify, Fresh, Result
        <2>2. b[i].match \in Match /\ b[i].payload \in Payload
            BY <2>1 DEF Result
        <2> QED BY <2>2 DEF FinalArtifact, Converted, ArtifactName, artifactFile
    <1>4. evidence \subseteq QuarantineName
        <2> SUFFICES ASSUME NEW i \in DOMAIN b, BringsQuarantine(b, i, l)
                     PROVE  quarantineFile(b[i].match, b[i].code) \in QuarantineName
            BY DEF NewQuarantines
        <2>1. b[i].kind = "quarantined" /\ b[i] \in Result
            BY <1>2 DEF BringsQuarantine
        <2>2. b[i].match \in Match /\ b[i].code \in Code
            BY <2>1 DEF Result
        <2> QED BY <2>2 DEF QuarantineName, quarantineFile
    <1>5. summaryFile(k) \in SummaryName /\ ledgerFile(k) \in LedgerName
        BY DEF SummaryName, LedgerName, summaryFile, ledgerFile
    <1>6. docs[ledgerFile(k)] = NextLedger(b, l, at)
        <2>1. ledgerFile(k) \in DOMAIN docs
            BY <1>1
        <2> QED BY <2>1, Names DEF Documents
    <1>7. \A f \in DOMAIN docs : f.type = "ledger" => f = ledgerFile(k)
        <2>1. \A f \in observed : f.type = "artifact"
            BY <1>3 DEF ArtifactName
        <2>2. \A f \in evidence : f.type = "quarantine"
            BY <1>4 DEF QuarantineName
        <2> QED BY <1>1, <2>1, <2>2, Names
    <1> QED BY <1>1, <1>3, <1>4, <1>5, <1>6, <1>7

-----------------------------------------------------------------------------
(* Steps that leave the committed state alone                              *)

Frame(d, e) ==
    /\ Files(e, "marker") = Files(d, "marker")
    /\ \A f \in Files(d, "marker") \cup Bound(d) : f \in DOMAIN e /\ e[f] = d[f]

LEMMA FrameRemove ==
    ASSUME NEW d, NEW n, Store(d, n), NEW S,
           \A f \in S : f.type # "marker" /\ f \notin Bound(d)
    PROVE  Frame(d, Restrict(d, DOMAIN d \ S))
    <1> DEFINE e == Restrict(d, DOMAIN d \ S)
    <1>1. DOMAIN e = DOMAIN d \ S /\ \A x \in DOMAIN d \ S : e[x] = d[x]
        BY RestrictFacts
    <1> HIDE DEF e
    <1>2. Bound(d) \subseteq DOMAIN d
        BY StoreFacts
    <1>3. Files(e, "marker") = Files(d, "marker")
        BY <1>1 DEF Files
    <1>4. \A f \in Files(d, "marker") \cup Bound(d) : f \in DOMAIN d \ S
        BY <1>2 DEF Files
    <1> QED BY <1>1, <1>3, <1>4 DEF Frame, e

LEMMA FramePut ==
    ASSUME NEW d, NEW n, Store(d, n), NEW f, NEW doc,
           f.type # "marker", f \notin Bound(d)
    PROVE  Frame(d, Put(d, f, doc))
    <1> DEFINE e == Put(d, f, doc)
    <1>1. DOMAIN e = DOMAIN d \cup {f} /\ \A x \in DOMAIN d : x # f => e[x] = d[x]
        BY DEF Put
    <1> HIDE DEF e
    <1>2. Bound(d) \subseteq DOMAIN d
        BY StoreFacts
    <1>3. Files(e, "marker") = Files(d, "marker")
        BY <1>1 DEF Files
    <1>4. \A x \in Files(d, "marker") \cup Bound(d) : x \in DOMAIN d /\ x # f
        BY <1>2 DEF Files
    <1> QED BY <1>1, <1>3, <1>4 DEF Frame, e

LEMMA FrameTransitive ==
    ASSUME NEW d, NEW n, Store(d, n), NEW e, NEW g, Frame(d, e), Frame(e, g)
    PROVE  Frame(d, g)
    <1>1. Bound(e) = Bound(d)
        BY StoreFrame DEF Frame
    <1> QED BY <1>1 DEF Frame

-----------------------------------------------------------------------------
(* The invariant.  j is the job of a process at point c whose temporary    *)
(* file is t, and d is the disk.                                           *)

Plan(j, d) ==
    LET m == j.plan[markerFile(j.seq)] IN
    /\ j.seq = LatestSeq(d) + 1
    /\ markerFile(j.seq) \in DOMAIN j.plan
    /\ DOMAIN m.files = DOMAIN j.plan \ {markerFile(j.seq)}
    /\ \A f \in DOMAIN m.files :
          /\ m.files[f] = j.plan[f]
          /\ f \in ArtifactName \cup QuarantineName \cup SummaryName \cup LedgerName
          /\ f.type = "ledger" => f = ledgerFile(j.seq)
    /\ {summaryFile(j.seq), ledgerFile(j.seq)} \subseteq DOMAIN m.files
    /\ m.prev = IF LatestSeq(d) = 0 THEN 0 ELSE d[markerFile(LatestSeq(d))].at
    /\ m.files[ledgerFile(j.seq)] = NextLedger(j.batch, LedgerOf(d), j.at)

(* What the rollback would unlink, and what stays, is bound by no marker.  *)
Unbound(j, d) ==
    /\ \A f \in j.written :
          f \in DOMAIN j.plan /\ f.type \notin {"marker", "tmp"} /\ f \notin Bound(d)
    /\ \A f \in j.left : f.type # "marker" /\ f \notin Bound(d)

(* The disk is what the commit found, what it wrote and can still unlink,  *)
(* and what stays of it.                                                   *)
Trace(j, c, t, d) ==
    /\ DOMAIN d = DOMAIN j.base \cup j.written \cup j.left \cup (IF c = "rename" THEN {t} ELSE {})
    /\ DOMAIN j.base \cap (j.written \cup j.left) = {}
    /\ j.written \cap j.left = {}
    /\ t \notin DOMAIN j.base
    /\ \A f \in DOMAIN j.base : d[f] = j.base[f]
    /\ j.base = [f \in DOMAIN j.base |-> j.base[f]]
    /\ c # "rollback" => j.left = {}

Missing(j, d) == {n \in DOMAIN j.plan : n \notin DOMAIN d}

(* When a file is about to be renamed, those before it are as planned.     *)
Ready(j, d) ==
    \A n \in DOMAIN j.plan \cap DOMAIN d :
        (\A f \in Missing(j, d) : Rank(n) <= Rank(f)) => d[n] = j.plan[n]

Mid(j, c, t, d) ==
    /\ DOMAIN j = DOMAIN IdleJob
    /\ j.at \in Nat
    /\ c # "idle" => j.batch \in Batches
    /\ c = "idle" => j.written = {}
    /\ c = "load" => j.written = {} /\ ~j.committed /\ j.left = {} /\ j.plan = <<>>
    /\ c \in {"write", "rename", "rollback"} =>
          ~j.committed /\ Plan(j, d) /\ Unbound(j, d) /\ Trace(j, c, t, d)
    /\ c = "rename" => Ready(j, d)
    /\ c = "release" =>
          /\ j.written \subseteq DOMAIN j.plan
          /\ j.committed => j.plan[ledgerFile(j.seq)] = LedgerOf(d)
          /\ ~j.committed =>
                /\ Restrict(d, DOMAIN d \ j.left) = j.base
                /\ j.left \subseteq Residue(d)

Holders == \A p \in Process : pc[p] # "idle" => lock = p

Mids == \A p \in Process : Mid(job[p], pc[p], tmpFile(p), disk)

Shape ==
    /\ disk = [f \in DOMAIN disk |-> disk[f]]
    /\ \E n : Store(disk, n)
    /\ DOMAIN job = Process

IInv == TypeOK /\ Shape /\ Holders /\ Mids /\ AcknowledgedKept

(* How a step may change what readers see.                                 *)
Progress ==
    [Committed!Commit]_<<LedgerOf(disk), LatestSeq(disk)>>

LEMMA PlanFrame ==
    ASSUME NEW d, NEW n, Store(d, n), NEW e, Frame(d, e), NEW j, Plan(j, d)
    PROVE  Plan(j, e)
    <1>1. LatestSeq(e) = LatestSeq(d) /\ LedgerOf(e) = LedgerOf(d)
        BY StoreFrame DEF Frame
    <1>2. LatestSeq(d) # 0 => e[markerFile(LatestSeq(d))] = d[markerFile(LatestSeq(d))]
        <2>1. LatestSeq(d) = n
            BY StoreFacts
        <2>2. n # 0 => markerFile(n) \in Files(d, "marker")
            BY DEF Store
        <2> QED BY <2>1, <2>2 DEF Frame
    <1>3. LatestSeq(d) # 0 =>
              e[markerFile(LatestSeq(e))].at = d[markerFile(LatestSeq(d))].at
        BY <1>1, <1>2
    <1> QED BY <1>1, <1>3 DEF Plan

LEMMA UnboundFrame ==
    ASSUME NEW d, NEW n, Store(d, n), NEW e, Frame(d, e), NEW j, Unbound(j, d)
    PROVE  Unbound(j, e)
    <1>1. Bound(e) = Bound(d)
        BY StoreFrame DEF Frame
    <1> QED BY <1>1 DEF Unbound

THEOREM Initially == Init => IInv
    <1> SUFFICES ASSUME Init PROVE IInv
        OBVIOUS
    <1>1. DOMAIN disk = {} /\ disk = [f \in DOMAIN disk |-> disk[f]]
        BY DEF Init
    <1>2. Store(disk, 0)
        BY <1>1 DEF Store, Files
    <1>3. \A p \in Process : job[p] = IdleJob /\ pc[p] = "idle"
        BY DEF Init
    <1>4. Mids
        BY <1>3 DEF Mids, Mid, IdleJob
    <1>5. TypeOK
        BY <1>1, <1>3, BoundAssumption DEF Init, TypeOK, IdleJob
    <1>6. DOMAIN job = Process
        BY DEF Init
    <1> QED BY <1>1, <1>2, <1>3, <1>4, <1>5, <1>6
            DEF IInv, Shape, Holders, AcknowledgedKept, Init

-----------------------------------------------------------------------------
(* Facts of a state in which the invariant holds                           *)

FileNames == ArtifactName \cup QuarantineName \cup SummaryName \cup LedgerName
             \cup MarkerName \cup TmpName

DiskOK(d) == \A n \in DOMAIN d : n \in FileNames /\ (n.type = "ledger" => d[n] \in Ledger)

LEMMA LedgerTyped ==
    ASSUME NEW d, NEW n, Store(d, n), DiskOK(d)
    PROVE  LedgerOf(d) \in Ledger
    <1>1. EmptyLedger \in Ledger
        BY DEF EmptyLedger, Ledger
    <1>2. n # 0 => ledgerFile(n) \in DOMAIN d
        BY StoreFacts
    <1>3. n # 0 => d[ledgerFile(n)] \in Ledger
        BY <1>2, Names DEF DiskOK
    <1> QED BY <1>1, <1>3, StoreFacts

LEMMA PlanTyped ==
    ASSUME NEW d, NEW n, Store(d, n), DiskOK(d), NEW j, Plan(j, d),
           j.batch \in Batches, j.at \in Nat
    PROVE  /\ j.seq = n + 1
           /\ \A f \in DOMAIN j.plan : /\ f \in FileNames /\ f.type # "tmp"
                                       /\ f.type = "ledger" => j.plan[f] \in Ledger
                                       /\ f.type = "marker" => f = markerFile(n + 1)
           /\ j.plan[ledgerFile(j.seq)] = NextLedger(j.batch, LedgerOf(d), j.at)
           /\ ledgerFile(j.seq) \in DOMAIN j.plan
           /\ Extends(LedgerOf(d), j.plan[ledgerFile(j.seq)])
           /\ j.plan[ledgerFile(j.seq)] \in Ledger
    <1> DEFINE m == j.plan[markerFile(j.seq)]
    <1>1. j.seq = n + 1 /\ n + 1 \in Nat \ {0}
        <2>1. n \in Nat
            BY DEF Store
        <2>2. LatestSeq(d) = n
            BY StoreFacts
        <2>3. j.seq = LatestSeq(d) + 1
            BY DEF Plan
        <2> QED BY <2>1, <2>2, <2>3
    <1>2. markerFile(n + 1) \in MarkerName
        BY <1>1 DEF MarkerName, markerFile
    <1>3. DOMAIN j.plan = DOMAIN m.files \cup {markerFile(n + 1)}
        BY <1>1 DEF Plan
    <1>4. \A f \in DOMAIN m.files :
              /\ f \in FileNames /\ f.type \notin {"tmp", "marker"}
              /\ j.plan[f] = m.files[f] /\ (f.type = "ledger" => f = ledgerFile(j.seq))
        BY DEF Plan, FileNames, ArtifactName, QuarantineName, SummaryName, LedgerName
    <1>5. ledgerFile(j.seq) \in DOMAIN m.files
        BY DEF Plan
    <1>6. j.plan[ledgerFile(j.seq)] = NextLedger(j.batch, LedgerOf(d), j.at)
        BY <1>4, <1>5 DEF Plan
    <1>7. j.batch \in Seq(Result)
        BY InputAssumption
    <1>8. /\ j.plan[ledgerFile(j.seq)] \in Ledger
          /\ Extends(LedgerOf(d), j.plan[ledgerFile(j.seq)])
        BY <1>6, <1>7, LedgerTyped, NextLedgerFacts
    <1>9. \A f \in DOMAIN j.plan : /\ f \in FileNames /\ f.type # "tmp"
                                   /\ f.type = "ledger" => j.plan[f] \in Ledger
                                   /\ f.type = "marker" => f = markerFile(n + 1)
        BY <1>2, <1>3, <1>4, <1>8, Names DEF FileNames
    <1> QED BY <1>1, <1>3, <1>5, <1>6, <1>8, <1>9

LEMMA TypeOKSplit ==
    TypeOK => /\ DiskOK(disk)
              /\ lock \in Process \cup {NoLock} /\ acked \subseteq Ledger
              /\ pc \in [Process -> {"idle", "load", "write", "rename", "rollback", "release"}]
              /\ starts \in 0 .. MaxStarts /\ crashes \in 0 .. MaxCrashes /\ faults \in 0 .. MaxFaults
    BY DEF TypeOK, DiskOK, FileNames

JobsOK == \A p \in Process : job[p].batch \in Batches \cup {<<>>}
                             /\ job[p].written \subseteq DOMAIN job[p].plan

LEMMA TypeOKJoin ==
    /\ DiskOK(disk) /\ JobsOK
    /\ lock \in Process \cup {NoLock} /\ acked \subseteq Ledger
    /\ pc \in [Process -> {"idle", "load", "write", "rename", "rollback", "release"}]
    /\ starts \in 0 .. MaxStarts /\ crashes \in 0 .. MaxCrashes /\ faults \in 0 .. MaxFaults
    => TypeOK
    BY DEF TypeOK, DiskOK, FileNames, JobsOK

(* Only the process that holds the lock is at work.                        *)
LEMMA Alone ==
    ASSUME IInv, NEW p \in Process, pc[p] # "idle" \/ lock = NoLock
    PROVE  \A q \in Process \ {p} : pc[q] = "idle"
    BY LockAssumption DEF IInv, Holders

(* When one process moves the others stay idle.                            *)
LEMMA OneMoves ==
    ASSUME IInv, NEW p \in Process, pc[p] # "idle" \/ lock = NoLock, NEW c, NEW j,
           pc' = [pc EXCEPT ![p] = c],
           job' = [job EXCEPT ![p] = j],
           Mid(j, c, tmpFile(p), disk'),
           c # "idle" => lock' = p,
           c \in {"idle", "load", "write", "rename", "rollback", "release"},
           j.batch \in Batches \cup {<<>>}, j.written \subseteq DOMAIN j.plan
    PROVE  /\ Mids' /\ Holders' /\ DOMAIN job' = Process /\ JobsOK'
           /\ pc' \in [Process -> {"idle", "load", "write", "rename", "rollback", "release"}]
    <1>1. pc \in [Process -> {"idle", "load", "write", "rename", "rollback", "release"}]
        BY TypeOKSplit DEF IInv
    <1>2. DOMAIN job = Process
        BY DEF IInv, Shape
    <1>3. job'[p] = j /\ pc'[p] = c
        BY <1>1, <1>2
    <1>4. \A q \in Process \ {p} : job'[q] = job[q] /\ pc'[q] = "idle" /\ pc[q] = "idle"
        BY <1>1, <1>2, Alone
    <1>5. \A q \in Process \ {p} : Mid(job'[q], pc'[q], tmpFile(q), disk')
        <2> SUFFICES ASSUME NEW q \in Process \ {p}
                     PROVE  Mid(job[q], "idle", tmpFile(q), disk')
            BY <1>4
        <2>1. Mid(job[q], "idle", tmpFile(q), disk)
            BY <1>4 DEF IInv, Mids
        <2> QED BY <2>1 DEF Mid
    <1>6. Mids'
        BY <1>3, <1>5 DEF Mids
    <1>7. Holders'
        BY <1>3, <1>4 DEF Holders
    <1>8. JobsOK'
        <2>1. JobsOK
            BY DEF IInv, TypeOK, JobsOK
        <2> QED BY <2>1, <1>3, <1>4 DEF JobsOK
    <1> QED BY <1>1, <1>2, <1>6, <1>7, <1>8

(* What a step that leaves the committed state alone has to show besides.  *)
LEMMA Framed ==
    ASSUME IInv, Frame(disk, disk'), acked' = acked,
           disk' = [f \in DOMAIN disk' |-> disk'[f]], DOMAIN job' = Process
    PROVE  Shape' /\ AcknowledgedKept' /\ Progress
    <1>1. PICK n : Store(disk, n)
        BY DEF IInv, Shape
    <1>2. Store(disk', n) /\ LatestSeq(disk') = LatestSeq(disk) /\ LedgerOf(disk') = LedgerOf(disk)
        BY <1>1, StoreFrame DEF Frame
    <1>3. Shape'
        BY <1>2 DEF Shape
    <1>4. AcknowledgedKept'
        BY <1>2 DEF IInv, AcknowledgedKept
    <1> QED BY <1>2, <1>3, <1>4 DEF Progress

LEMMA SameDisk ==
    ASSUME IInv, disk' = disk
    PROVE  Frame(disk, disk') /\ disk' = [f \in DOMAIN disk' |-> disk'[f]]
    <1>1. PICK n : Store(disk, n)
        BY DEF IInv, Shape
    <1>2. Bound(disk) \subseteq DOMAIN disk
        BY <1>1, StoreFacts
    <1> QED BY <1>2 DEF IInv, Shape, Frame, Files

-----------------------------------------------------------------------------
(* The steps                                                               *)

Kept == IInv' /\ Progress

LEMMA KeptJoin ==
    ASSUME DiskOK(disk'), JobsOK', Shape', Holders', Mids', AcknowledgedKept', Progress,
           lock' \in Process \cup {NoLock}, acked' \subseteq Ledger,
           pc' \in [Process -> {"idle", "load", "write", "rename", "rollback", "release"}],
           starts' \in 0 .. MaxStarts, crashes' \in 0 .. MaxCrashes,
           faults' \in 0 .. MaxFaults
    PROVE  Kept
    <1>1. TypeOK'
        BY DEF TypeOK, DiskOK, FileNames, JobsOK
    <1> QED BY <1>1 DEF Kept, IInv

LEMMA Faults == ASSUME IInv, Fault PROVE faults' \in 0 .. MaxFaults
    BY BoundAssumption, TypeOKSplit DEF IInv, Fault

LEMMA AcquireStep ==
    ASSUME IInv, NEW p \in Process, NEW b \in Batches, Acquire(p, b)
    PROVE  Kept
    <1> DEFINE j == [IdleJob EXCEPT !.batch = b, !.at = starts + 1]
    <1>1. /\ pc' = [pc EXCEPT ![p] = "load"] /\ job' = [job EXCEPT ![p] = j]
          /\ lock = NoLock /\ lock' = p /\ starts < MaxStarts /\ starts' = starts + 1
          /\ UNCHANGED <<disk, acked, crashes, faults>>
        BY DEF Acquire, Goto
    <1>2. /\ DOMAIN j = DOMAIN IdleJob /\ j.batch = b /\ j.at = starts + 1
          /\ j.written = {} /\ j.plan = <<>> /\ j.committed = FALSE /\ j.left = {}
        BY DEF IdleJob
    <1> HIDE DEF j
    <1>3. starts + 1 \in Nat /\ starts' \in 0 .. MaxStarts
        BY <1>1, BoundAssumption, TypeOKSplit DEF IInv
    <1>4. Mid(j, "load", tmpFile(p), disk')
        BY <1>2, <1>3 DEF Mid
    <1>5. /\ Mids' /\ Holders' /\ DOMAIN job' = Process /\ JobsOK'
          /\ pc' \in [Process -> {"idle", "load", "write", "rename", "rollback", "release"}]
        <2>1. j.batch \in Batches \cup {<<>>} /\ j.written \subseteq DOMAIN j.plan
            BY <1>2
        <2> QED BY <1>1, <1>4, <2>1, OneMoves
    <1>6. Shape' /\ AcknowledgedKept' /\ Progress
        BY <1>1, <1>5, SameDisk, Framed
    <1> QED BY <1>1, <1>3, <1>5, <1>6, KeptJoin, TypeOKSplit DEF IInv

LEMMA IdleMid ==
    ASSUME NEW t, NEW d
    PROVE  /\ Mid(IdleJob, "idle", t, d)
           /\ IdleJob.batch \in Batches \cup {<<>>} /\ IdleJob.written \subseteq DOMAIN IdleJob.plan
    BY DEF Mid, IdleJob

(* A process that ends its commit without touching the disk.               *)
LEMMA Ends ==
    ASSUME IInv, NEW p \in Process, pc[p] # "idle",
           pc' = [pc EXCEPT ![p] = "idle"], job' = [job EXCEPT ![p] = IdleJob],
           disk' = disk
    PROVE  /\ Mids' /\ Holders' /\ DOMAIN job' = Process /\ JobsOK'
           /\ pc' \in [Process -> {"idle", "load", "write", "rename", "rollback", "release"}]
    BY IdleMid, OneMoves

LEMMA AcquireFailsStep ==
    ASSUME IInv, NEW p \in Process, AcquireFails(p)
    PROVE  Kept
    <1>1. /\ pc' = [pc EXCEPT ![p] = "idle"] /\ job' = [job EXCEPT ![p] = IdleJob]
          /\ pc[p] = "load" /\ lock' \in {NoLock, lock}
          /\ UNCHANGED <<disk, acked, starts, crashes>>
        BY DEF AcquireFails, Goto
    <1>2. faults' \in 0 .. MaxFaults
        BY Faults DEF AcquireFails
    <1>3. /\ Mids' /\ Holders' /\ DOMAIN job' = Process /\ JobsOK'
          /\ pc' \in [Process -> {"idle", "load", "write", "rename", "rollback", "release"}]
        BY <1>1, Ends
    <1>4. Shape' /\ AcknowledgedKept' /\ Progress
        BY <1>1, <1>3, SameDisk, Framed
    <1> QED BY <1>1, <1>2, <1>3, <1>4, KeptJoin, TypeOKSplit DEF IInv

LEMMA CrashStep ==
    ASSUME IInv, NEW p \in Process, Crash(p)
    PROVE  Kept
    <1>1. /\ pc' = [pc EXCEPT ![p] = "idle"] /\ job' = [job EXCEPT ![p] = IdleJob]
          /\ pc[p] # "idle" /\ crashes < MaxCrashes /\ crashes' = crashes + 1
          /\ UNCHANGED <<disk, lock, acked, starts, faults>>
        BY DEF Crash, Goto
    <1>2. crashes' \in 0 .. MaxCrashes
        BY <1>1, BoundAssumption, TypeOKSplit DEF IInv
    <1>3. /\ Mids' /\ Holders' /\ DOMAIN job' = Process /\ JobsOK'
          /\ pc' \in [Process -> {"idle", "load", "write", "rename", "rollback", "release"}]
        BY <1>1, Ends
    <1>4. Shape' /\ AcknowledgedKept' /\ Progress
        BY <1>1, <1>3, SameDisk, Framed
    <1> QED BY <1>1, <1>2, <1>3, <1>4, KeptJoin, TypeOKSplit DEF IInv

LEMMA ReleaseStep ==
    ASSUME IInv, NEW p \in Process, Release(p)
    PROVE  Kept
    <1> DEFINE l == job[p].plan[ledgerFile(job[p].seq)]
    <1>1. /\ pc' = [pc EXCEPT ![p] = "idle"] /\ job' = [job EXCEPT ![p] = IdleJob]
          /\ pc[p] = "release" /\ lock' \in {NoLock, lock}
          /\ acked' = IF job[p].committed THEN acked \cup {l} ELSE acked
          /\ UNCHANGED <<disk, starts, crashes>>
        BY DEF Release, Goto
    <1>2. faults' \in 0 .. MaxFaults
        BY Faults, TypeOKSplit DEF Release, IInv
    <1>3. /\ Mids' /\ Holders' /\ DOMAIN job' = Process /\ JobsOK'
          /\ pc' \in [Process -> {"idle", "load", "write", "rename", "rollback", "release"}]
        BY <1>1, Ends
    <1>4. PICK n : Store(disk, n)
        BY DEF IInv, Shape
    <1>5. LedgerOf(disk) \in Ledger
        BY <1>4, LedgerTyped, TypeOKSplit DEF IInv
    <1>6. job[p].committed => l = LedgerOf(disk)
        BY <1>1 DEF IInv, Mids, Mid
    <1>7. acked' \subseteq acked \cup {LedgerOf(disk)}
        BY <1>1, <1>6
    <1>8. acked' \subseteq Ledger
        BY <1>5, <1>7, TypeOKSplit DEF IInv
    <1>9. AcknowledgedKept'
        BY <1>1, <1>7 DEF IInv, AcknowledgedKept
    <1>10. Shape' /\ Progress
        BY <1>1, <1>3, SameDisk DEF IInv, Shape, Progress
    <1> QED BY <1>1, <1>2, <1>3, <1>8, <1>9, <1>10, KeptJoin, TypeOKSplit DEF IInv

LEMMA WorkMid ==
    ASSUME NEW j, NEW t, NEW d, NEW c, c \in {"write", "rename", "rollback"},
           DOMAIN j = DOMAIN IdleJob, j.at \in Nat, j.batch \in Batches,
           ~j.committed, Plan(j, d), Unbound(j, d), Trace(j, c, t, d),
           c = "rename" => Ready(j, d)
    PROVE  Mid(j, c, t, d)
    BY DEF Mid

(* The job is as it was.                                                   *)
LEMMA SameJob ==
    ASSUME IInv, NEW p \in Process, pc[p] # "idle", NEW c,
           pc' = [pc EXCEPT ![p] = c], job' = job,
           Mid(job[p], c, tmpFile(p), disk'),
           c # "idle" => lock' = p,
           c \in {"idle", "load", "write", "rename", "rollback", "release"}
    PROVE  /\ Mids' /\ Holders' /\ DOMAIN job' = Process /\ JobsOK'
           /\ pc' \in [Process -> {"idle", "load", "write", "rename", "rollback", "release"}]
    <1>1. pc \in [Process -> {"idle", "load", "write", "rename", "rollback", "release"}]
        BY TypeOKSplit DEF IInv
    <1>2. \A q \in Process \ {p} : pc'[q] = "idle" /\ pc[q] = "idle"
        BY <1>1, Alone
    <1>3. \A q \in Process \ {p} : Mid(job[q], "idle", tmpFile(q), disk')
        <2> SUFFICES ASSUME NEW q \in Process \ {p}
                     PROVE  Mid(job[q], "idle", tmpFile(q), disk')
            OBVIOUS
        <2>1. Mid(job[q], "idle", tmpFile(q), disk)
            BY <1>2 DEF IInv, Mids
        <2> QED BY <2>1 DEF Mid
    <1>4. Mids' /\ Holders'
        BY <1>1, <1>2, <1>3 DEF Mids, Holders
    <1>5. JobsOK' /\ DOMAIN job' = Process
        BY DEF IInv, TypeOK, JobsOK, Shape
    <1> QED BY <1>1, <1>4, <1>5

LEMMA LoadStep ==
    ASSUME IInv, NEW p \in Process, Load(p)
    PROVE  Kept
    <1> DEFINE jp == job[p]
               ledger == LedgerOf(disk)
               seq == LatestSeq(disk) + 1
               docs == Documents(jp.batch, ledger, seq, jp.at)
               mk == Marker(disk, docs, jp.at)
               plan == Put(docs, markerFile(seq), mk)
               go == [jp EXCEPT !.base = disk, !.seq = seq, !.plan = plan]
               stop == [jp EXCEPT !.base = disk]
    <1>1. PICK n : Store(disk, n)
        BY DEF IInv, Shape
    <1>2. /\ n \in Nat /\ LatestSeq(disk) = n /\ seq = n + 1 /\ seq \in Nat \ {0}
        <2>1. n \in Nat
            BY <1>1 DEF Store
        <2>2. LatestSeq(disk) = n
            BY <1>1, StoreFacts
        <2> QED BY <2>1, <2>2
    <1>3. Mid(jp, "load", tmpFile(p), disk) /\ pc[p] = "load"
        BY DEF IInv, Mids, Load
    <1>4. /\ DOMAIN jp = DOMAIN IdleJob /\ jp.at \in Nat /\ jp.batch \in Batches
          /\ jp.written = {} /\ ~jp.committed /\ jp.left = {} /\ jp.plan = <<>>
        BY <1>3 DEF Mid
    <1>5. /\ DOMAIN go = DOMAIN IdleJob /\ go.at = jp.at /\ go.batch = jp.batch
          /\ go.written = {} /\ ~go.committed /\ go.left = {}
          /\ go.base = disk /\ go.seq = seq /\ go.plan = plan
        BY <1>4 DEF IdleJob
    <1>6. /\ DOMAIN stop = DOMAIN IdleJob /\ stop.at = jp.at /\ stop.batch = jp.batch
          /\ stop.written = {} /\ stop.committed = jp.committed /\ stop.base = disk
          /\ stop.plan = jp.plan /\ stop.left = {}
        BY <1>4 DEF IdleJob
    <1>7. jp.batch \in Seq(Result)
        BY <1>4, InputAssumption
    <1>8. /\ {summaryFile(seq), ledgerFile(seq)} \subseteq DOMAIN docs
          /\ docs[ledgerFile(seq)] = NextLedger(jp.batch, ledger, jp.at)
          /\ \A f \in DOMAIN docs :
                /\ f \in ArtifactName \cup QuarantineName \cup SummaryName \cup LedgerName
                /\ f.type = "ledger" => f = ledgerFile(seq)
        BY SMTT(40), <1>2, <1>7, DocumentsFacts
    <1>9. /\ mk.files = docs
          /\ mk.prev = IF LatestSeq(disk) = 0 THEN 0 ELSE disk[markerFile(LatestSeq(disk))].at
        BY DEF Marker
    <1>10. /\ disk' = disk /\ lock' = lock /\ UNCHANGED <<acked, starts, crashes, faults>>
           /\ \/ /\ Loads(disk) /\ pc' = [pc EXCEPT ![p] = "write"]
                 /\ job' = [job EXCEPT ![p] = go]
              \/ /\ pc' = [pc EXCEPT ![p] = "release"] /\ job' = [job EXCEPT ![p] = stop]
        BY DEF Load, Goto
    <1> HIDE DEF go, stop
    <1>11. Plan(go, disk)
        <2>1. /\ DOMAIN plan = DOMAIN docs \cup {markerFile(seq)} /\ plan[markerFile(seq)] = mk
              /\ \A f \in DOMAIN docs : f # markerFile(seq) => plan[f] = docs[f]
            BY DEF Put
        <2>2. markerFile(seq) \notin DOMAIN docs
            BY <1>8, Names DEF ArtifactName, QuarantineName, SummaryName, LedgerName
        <2> HIDE DEF docs, mk, plan, seq, ledger, jp
        <2>3. DOMAIN docs = DOMAIN plan \ {markerFile(seq)}
            BY <2>1, <2>2
        <2>4. \A f \in DOMAIN docs : docs[f] = plan[f]
            BY <2>1, <2>2
        <2>5. go.plan[markerFile(go.seq)] = mk /\ markerFile(go.seq) \in DOMAIN go.plan
            BY <1>5, <2>1
        <2>6. DOMAIN mk.files = DOMAIN go.plan \ {markerFile(go.seq)}
            BY <1>5, <1>9, <2>3
        <2>7. \A f \in DOMAIN mk.files :
                 /\ mk.files[f] = go.plan[f]
                 /\ f \in ArtifactName \cup QuarantineName \cup SummaryName \cup LedgerName
                 /\ f.type = "ledger" => f = ledgerFile(go.seq)
            BY <1>5, <1>8, <1>9, <2>4
        <2>8. /\ {summaryFile(go.seq), ledgerFile(go.seq)} \subseteq DOMAIN mk.files
              /\ mk.files[ledgerFile(go.seq)] = NextLedger(go.batch, LedgerOf(disk), go.at)
            BY <1>5, <1>8, <1>9 DEF ledger
        <2>9. go.seq = LatestSeq(disk) + 1
            BY <1>5 DEF seq
        <2> QED BY <1>9, <2>5, <2>6, <2>7, <2>8, <2>9 DEF Plan
    <1>12. ASSUME Loads(disk) PROVE Mid(go, "write", tmpFile(p), disk)
        <2>1. tmpFile(p) \notin DOMAIN disk
            <3>1. tmpFile(p) \notin Bound(disk) /\ tmpFile(p).type = "tmp"
                BY <1>1, StoreFacts, Names
            <3> QED BY <3>1, <1>12 DEF Loads, Residue, Files
        <2>2. Trace(go, "write", tmpFile(p), disk)
            BY <1>5, <2>1 DEF Trace, IInv, Shape
        <2>3. Unbound(go, disk)
            BY <1>5 DEF Unbound
        <2> QED BY <1>4, <1>5, <1>11, <2>2, <2>3, WorkMid
    <1>13. Mid(stop, "release", tmpFile(p), disk)
        <2>1. DOMAIN disk \ {} = DOMAIN disk
            OBVIOUS
        <2>2. Restrict(disk, DOMAIN disk \ stop.left) = stop.base
            BY <1>6, <2>1 DEF Restrict, IInv, Shape
        <2> QED BY <1>4, <1>6, <2>2 DEF Mid
    <1>14. /\ Mids' /\ Holders' /\ DOMAIN job' = Process /\ JobsOK'
           /\ pc' \in [Process -> {"idle", "load", "write", "rename", "rollback", "release"}]
        <2>1. lock = p
            BY <1>3 DEF IInv, Holders
        <2>2. CASE /\ Loads(disk) /\ pc' = [pc EXCEPT ![p] = "write"]
                   /\ job' = [job EXCEPT ![p] = go]
            BY <1>3, <1>4, <1>5, <1>10, <1>12, <2>1, <2>2, OneMoves
        <2>3. CASE pc' = [pc EXCEPT ![p] = "release"] /\ job' = [job EXCEPT ![p] = stop]
            BY <1>3, <1>4, <1>6, <1>10, <1>13, <2>1, <2>3, OneMoves
        <2> QED BY <1>10, <2>2, <2>3
    <1>15. Shape' /\ AcknowledgedKept' /\ Progress
        BY <1>10, <1>14, SameDisk, Framed
    <1> QED BY <1>10, <1>14, <1>15, KeptJoin, TypeOKSplit DEF IInv

(* The point at which a process that writes, renames or rolls back is.     *)
LEMMA AtWork ==
    ASSUME IInv, NEW p \in Process, pc[p] \in {"write", "rename", "rollback"}
    PROVE  /\ DOMAIN job[p] = DOMAIN IdleJob /\ job[p].at \in Nat /\ job[p].batch \in Batches
           /\ ~job[p].committed /\ Plan(job[p], disk) /\ Unbound(job[p], disk)
           /\ Trace(job[p], pc[p], tmpFile(p), disk)
           /\ pc[p] = "rename" => Ready(job[p], disk)
           /\ job[p].written \subseteq DOMAIN job[p].plan
           /\ lock = p
    BY DEF IInv, Mids, Mid, Unbound, Holders

LEMMA RolledBackStep ==
    ASSUME IInv, NEW p \in Process, RolledBack(p)
    PROVE  Kept
    <1>1. /\ pc' = [pc EXCEPT ![p] = "release"] /\ job' = job
          /\ pc[p] = "rollback" /\ job[p].written = {}
          /\ UNCHANGED <<disk, lock, acked, starts, crashes, faults>>
        BY DEF RolledBack, Goto
    <1>2. /\ DOMAIN job[p] = DOMAIN IdleJob /\ job[p].at \in Nat /\ job[p].batch \in Batches
          /\ ~job[p].committed /\ Trace(job[p], "rollback", tmpFile(p), disk)
          /\ Unbound(job[p], disk)
          /\ job[p].written \subseteq DOMAIN job[p].plan /\ lock = p
        BY <1>1, AtWork
    <1>3. /\ Restrict(disk, DOMAIN disk \ job[p].left) = job[p].base
          /\ job[p].left \subseteq Residue(disk)
        <2> DEFINE base == job[p].base
                   left == job[p].left
        <2>1. /\ DOMAIN disk = DOMAIN base \cup left /\ DOMAIN base \cap left = {}
              /\ \A f \in DOMAIN base : disk[f] = base[f]
              /\ base = [f \in DOMAIN base |-> base[f]]
            BY <1>1, <1>2 DEF Trace
        <2>2. \A f \in left : f.type # "marker" /\ f \notin Bound(disk)
            BY <1>2 DEF Unbound
        <2> HIDE DEF base, left
        <2>3. DOMAIN disk \ left = DOMAIN base
            BY <2>1
        <2>4. Restrict(disk, DOMAIN disk \ left) = base
            BY <2>1, <2>3 DEF Restrict
        <2>5. left \subseteq Residue(disk)
            BY <2>1, <2>2 DEF Residue, Files
        <2> QED BY <2>4, <2>5 DEF base, left
    <1>4. Mid(job[p], "release", tmpFile(p), disk')
        BY <1>1, <1>2, <1>3 DEF Mid
    <1>6. /\ Mids' /\ Holders' /\ DOMAIN job' = Process /\ JobsOK'
          /\ pc' \in [Process -> {"idle", "load", "write", "rename", "rollback", "release"}]
        BY <1>1, <1>2, <1>4, SameJob
    <1>7. Shape' /\ AcknowledgedKept' /\ Progress
        BY <1>1, <1>6, SameDisk, Framed
    <1> QED BY <1>1, <1>6, <1>7, KeptJoin, TypeOKSplit DEF IInv

LEMMA WriteTmpStep ==
    ASSUME IInv, NEW p \in Process, WriteTmp(p)
    PROVE  Kept
    <1> DEFINE t == tmpFile(p)
               j == job[p]
    <1>1. PICK n : Store(disk, n)
        BY DEF IInv, Shape
    <1>2. pc[p] = "write" /\ UNCHANGED <<lock, job, acked, starts, crashes, faults>>
        BY DEF WriteTmp
    <1>3. /\ DOMAIN j = DOMAIN IdleJob /\ j.at \in Nat /\ j.batch \in Batches
          /\ ~j.committed /\ Plan(j, disk) /\ Unbound(j, disk) /\ Trace(j, "write", t, disk)
          /\ lock = p
        BY <1>2, AtWork
    <1>4. t.type = "tmp" /\ t \notin DOMAIN j.plan
        BY <1>1, <1>3, Names, PlanTyped, TypeOKSplit DEF IInv
    <1>5. t \in FileNames /\ t.type # "ledger"
        BY <1>4 DEF FileNames, TmpName, tmpFile
    <1>6. CASE Conflict(p)
        <2>1. disk' = disk /\ pc' = [pc EXCEPT ![p] = "rollback"]
            BY <1>6 DEF WriteTmp, Goto
        <2>2. Trace(j, "rollback", t, disk)
            BY <1>3 DEF Trace
        <2>3. Mid(j, "rollback", t, disk')
            BY <1>3, <2>1, <2>2, WorkMid
        <2>4. /\ Mids' /\ Holders' /\ DOMAIN job' = Process /\ JobsOK'
              /\ pc' \in [Process -> {"idle", "load", "write", "rename", "rollback", "release"}]
            BY <1>2, <1>3, <2>1, <2>3, SameJob
        <2>5. Shape' /\ AcknowledgedKept' /\ Progress
            BY <1>2, <2>1, <2>4, SameDisk, Framed
        <2> QED BY <1>2, <2>1, <2>4, <2>5, KeptJoin, TypeOKSplit DEF IInv
    <1>7. CASE ~Conflict(p)
        <2> DEFINE e == Put(disk, t, None)
        <2>1. disk' = e /\ pc' = [pc EXCEPT ![p] = "rename"]
            BY <1>7 DEF WriteTmp, Goto
        <2>2. DOMAIN e = DOMAIN disk \cup {t} /\ \A x \in DOMAIN disk : x # t => e[x] = disk[x]
            BY DEF Put
        <2>3. Frame(disk, e)
            BY <1>1, <1>4, StoreFacts, FramePut
        <2>4. e = [f \in DOMAIN e |-> e[f]]
            BY PutIsFunction
        <2> HIDE DEF e
        <2>5. Plan(j, e) /\ Unbound(j, e)
            BY <1>1, <1>3, <2>3, PlanFrame, UnboundFrame
        <2>6. Trace(j, "rename", t, e)
            BY <1>3, <2>2 DEF Trace
        <2>7. Ready(j, e)
            <3>1. Todo(p) = Missing(j, e)
                BY <1>4, <2>2 DEF Todo, Missing
            <3>2. ASSUME NEW x \in DOMAIN j.plan \cap DOMAIN e,
                         \A f \in Missing(j, e) : Rank(x) <= Rank(f)
                  PROVE  e[x] = j.plan[x]
                <4>1. x \in DOMAIN disk /\ e[x] = disk[x]
                    BY <1>4, <2>2
                <4>2. Reached(p, x)
                    BY <3>1, <3>2 DEF Reached
                <4> QED BY <1>7, <4>1, <4>2 DEF Conflict
            <3> QED BY <3>2 DEF Ready
        <2>8. Mid(j, "rename", t, disk')
            BY <1>3, <2>1, <2>5, <2>6, <2>7, WorkMid
        <2>9. /\ Mids' /\ Holders' /\ DOMAIN job' = Process /\ JobsOK'
              /\ pc' \in [Process -> {"idle", "load", "write", "rename", "rollback", "release"}]
            BY <1>2, <1>3, <2>1, <2>8, SameJob
        <2>10. Shape' /\ AcknowledgedKept' /\ Progress
            BY <1>2, <2>1, <2>3, <2>4, <2>9, Framed
        <2>11. DiskOK(disk')
            BY <1>5, <2>1, <2>2, TypeOKSplit DEF IInv, DiskOK
        <2> QED BY <1>2, <2>9, <2>10, <2>11, KeptJoin, TypeOKSplit DEF IInv
    <1> QED BY <1>6, <1>7

(* A file that is renamed, other than the marker.                          *)
LEMMA RenamedFacts ==
    ASSUME IInv, NEW p \in Process, pc[p] = "rename", NEW f \in Todo(p), f.type # "marker"
    PROVE  LET e == Renamed(p, f)  t == tmpFile(p) IN
           /\ Frame(disk, e)
           /\ DiskOK(e)
           /\ e = [x \in DOMAIN e |-> e[x]]
           /\ DOMAIN e = (DOMAIN disk \ {t}) \cup {f}
           /\ \A x \in DOMAIN disk \ {t} : e[x] = disk[x]
           /\ f \notin Bound(e) /\ f \in DOMAIN job[p].plan /\ f \notin DOMAIN disk /\ f.type # "tmp"
    <1> DEFINE t == tmpFile(p)
               j == job[p]
               r == Restrict(disk, DOMAIN disk \ {t})
               e == Renamed(p, f)
    <1>1. PICK n : Store(disk, n)
        BY DEF IInv, Shape
    <1>2. Plan(j, disk) /\ j.at \in Nat /\ j.batch \in Batches
        BY AtWork
    <1>3. f \in DOMAIN j.plan /\ f \notin DOMAIN disk
        BY DEF Todo
    <1>4. /\ f \in FileNames /\ f.type # "tmp"
          /\ f.type = "ledger" => j.plan[f] \in Ledger
        BY <1>1, <1>2, <1>3, PlanTyped, TypeOKSplit DEF IInv
    <1>5. Frame(disk, r)
        <2>1. t.type # "marker" /\ t \notin Bound(disk)
            BY <1>1, StoreFacts, Names
        <2> QED BY <1>1, <2>1, FrameRemove
    <1>6. Store(r, n) /\ Bound(r) = Bound(disk)
        BY <1>1, <1>5, StoreFrame DEF Frame
    <1>7. f \notin Bound(disk)
        BY <1>1, <1>3, StoreFacts
    <1>8. DOMAIN r = DOMAIN disk \ {t} /\ \A x \in DOMAIN disk \ {t} : r[x] = disk[x]
        BY RestrictFacts
    <1>9. e = Put(r, f, j.plan[f])
        BY DEF Renamed
    <1> HIDE DEF r, e
    <1>10. Frame(r, e)
        BY <1>6, <1>7, <1>9, FramePut
    <1>11. Frame(disk, e)
        BY <1>1, <1>5, <1>10, FrameTransitive
    <1>12. /\ DOMAIN e = DOMAIN r \cup {f} /\ e[f] = j.plan[f]
           /\ \A x \in DOMAIN r : x # f => e[x] = r[x]
        BY <1>9 DEF Put
    <1>13. e = [x \in DOMAIN e |-> e[x]]
        BY <1>9, PutIsFunction
    <1>14. \A x \in DOMAIN disk \ {t} : e[x] = disk[x]
        BY <1>3, <1>8, <1>12
    <1>15. DiskOK(e)
        BY <1>4, <1>8, <1>12, <1>14, TypeOKSplit DEF IInv, DiskOK
    <1>16. Bound(e) = Bound(disk)
        BY <1>1, <1>11, StoreFrame DEF Frame
    <1> QED BY <1>3, <1>4, <1>7, <1>8, <1>11, <1>12, <1>13, <1>14, <1>15, <1>16 DEF e

LEMMA RenameFileStep ==
    ASSUME IInv, NEW p \in Process, pc[p] = "rename", NEW f \in Todo(p), f.type # "marker",
           disk' = Renamed(p, f),
           job' = [job EXCEPT ![p].written = @ \cup Noted(f), ![p].committed = (f.type = "marker")],
           pc' = [pc EXCEPT ![p] = "write"],
           UNCHANGED <<lock, acked, starts, crashes, faults>>
    PROVE  Kept
    <1> DEFINE t == tmpFile(p)
               j == job[p]
               k == [j EXCEPT !.written = @ \cup {f}, !.committed = FALSE]
               e == Renamed(p, f)
    <1>1. PICK n : Store(disk, n)
        BY DEF IInv, Shape
    <1>2. /\ DOMAIN j = DOMAIN IdleJob /\ j.at \in Nat /\ j.batch \in Batches
          /\ ~j.committed /\ Plan(j, disk) /\ Unbound(j, disk) /\ Trace(j, "rename", t, disk)
          /\ j.written \subseteq DOMAIN j.plan /\ lock = p
        BY AtWork
    <1>3. /\ Frame(disk, e) /\ DiskOK(e) /\ e = [x \in DOMAIN e |-> e[x]]
          /\ DOMAIN e = (DOMAIN disk \ {t}) \cup {f}
          /\ \A x \in DOMAIN disk \ {t} : e[x] = disk[x]
          /\ f \notin Bound(e) /\ f \in DOMAIN j.plan /\ f \notin DOMAIN disk /\ f.type # "tmp"
        BY RenamedFacts
    <1>4. /\ DOMAIN k = DOMAIN IdleJob /\ k.written = j.written \cup {f} /\ k.committed = FALSE
          /\ k.at = j.at /\ k.batch = j.batch /\ k.plan = j.plan /\ k.seq = j.seq
          /\ k.base = j.base /\ k.left = j.left
        BY <1>2 DEF IdleJob
    <1>5. job' = [job EXCEPT ![p] = k]
        BY DEF Noted
    <1> HIDE DEF e, k
    <1>6. Plan(k, e)
        <2>1. Plan(j, e)
            BY <1>1, <1>2, <1>3, PlanFrame
        <2> QED BY <1>4, <2>1 DEF Plan
    <1>7. Unbound(k, e)
        <2>1. Unbound(j, e)
            BY <1>1, <1>2, <1>3, UnboundFrame
        <2> QED BY <1>3, <1>4, <2>1 DEF Unbound
    <1>8. Trace(k, "write", t, e)
        <2>1. /\ DOMAIN disk = DOMAIN j.base \cup j.written \cup {t}
              /\ DOMAIN j.base \cap j.written = {} /\ t \notin DOMAIN j.base
              /\ \A x \in DOMAIN j.base : disk[x] = j.base[x]
              /\ j.base = [x \in DOMAIN j.base |-> j.base[x]]
              /\ j.left = {}
            BY <1>2 DEF Trace
        <2>2. t \notin j.written
            BY <1>2, Names DEF Unbound
        <2>3. /\ DOMAIN e = DOMAIN j.base \cup j.written \cup {f}
              /\ DOMAIN j.base \cap (j.written \cup {f}) = {}
              /\ \A x \in DOMAIN j.base : e[x] = j.base[x]
            BY <1>3, <2>1, <2>2
        <2> QED BY <1>4, <2>1, <2>3 DEF Trace
    <1>9. Mid(k, "write", t, disk')
        <2>1. k.at \in Nat /\ k.batch \in Batches /\ ~k.committed
            BY <1>2, <1>4
        <2> QED BY <1>4, <1>6, <1>7, <1>8, <2>1, WorkMid DEF e
    <1>10. k.batch \in Batches \cup {<<>>} /\ k.written \subseteq DOMAIN k.plan
        BY <1>2, <1>3, <1>4
    <1>11. /\ Mids' /\ Holders' /\ DOMAIN job' = Process /\ JobsOK'
           /\ pc' \in [Process -> {"idle", "load", "write", "rename", "rollback", "release"}]
        BY <1>2, <1>5, <1>9, <1>10, OneMoves
    <1>12. Shape' /\ AcknowledgedKept' /\ Progress
        BY <1>3, <1>11, Framed DEF e
    <1>13. DiskOK(disk')
        BY <1>3 DEF e
    <1> QED BY <1>11, <1>12, <1>13, KeptJoin, TypeOKSplit DEF IInv

(* The rename of the marker f, the n + 1st, when all it binds is there.    *)
MarkerRenamed(p, f, n) ==
    LET j == job[p]  m == j.plan[f]  t == tmpFile(p)  e == Renamed(p, f) IN
    /\ n \in Nat /\ LatestSeq(disk) = n
    /\ j.seq = n + 1 /\ f = markerFile(n + 1)
    /\ j.plan[ledgerFile(j.seq)] = NextLedger(j.batch, LedgerOf(disk), j.at)
    /\ j.plan[ledgerFile(j.seq)] \in Ledger
    /\ Extends(LedgerOf(disk), j.plan[ledgerFile(j.seq)])
    /\ \A x \in DOMAIN m.files : x \in DOMAIN disk /\ x # t /\ disk[x] = m.files[x]
    /\ Store(e, n + 1) /\ LedgerOf(e) = j.plan[ledgerFile(j.seq)]
    /\ DOMAIN e = (DOMAIN disk \ {t}) \cup {f} /\ e[f] = m
    /\ \A x \in DOMAIN disk \ {t} : e[x] = disk[x]

LEMMA MarkerFacts ==
    ASSUME IInv, NEW p \in Process, pc[p] = "rename", NEW f \in Todo(p), f.type = "marker",
           Reached(p, f), NEW n, Store(disk, n)
    PROVE  MarkerRenamed(p, f, n)
    <1> DEFINE t == tmpFile(p)
               j == job[p]
               e == Renamed(p, f)
               m == j.plan[f]
               next == j.plan[ledgerFile(j.seq)]
    <1>1. j.at \in Nat /\ j.batch \in Batches /\ Plan(j, disk) /\ Ready(j, disk)
        BY AtWork
    <1>2. f \in DOMAIN j.plan /\ f \notin DOMAIN disk
        BY DEF Todo
    <1>3. /\ j.seq = n + 1 /\ f = markerFile(n + 1)
          /\ next \in Ledger /\ Extends(LedgerOf(disk), next)
          /\ next = NextLedger(j.batch, LedgerOf(disk), j.at)
        BY <1>1, <1>2, PlanTyped, TypeOKSplit DEF IInv
    <1>4. LatestSeq(disk) = n /\ n \in Nat
        <2>1. LatestSeq(disk) = n
            BY StoreFacts
        <2> QED BY <2>1 DEF Store
    <1>5. /\ DOMAIN m.files = DOMAIN j.plan \ {f}
          /\ \A x \in DOMAIN m.files : /\ m.files[x] = j.plan[x]
                                       /\ x.type \in {"artifact", "quarantine", "summary", "ledger"}
          /\ {summaryFile(n + 1), ledgerFile(n + 1)} \subseteq DOMAIN m.files
          /\ m.prev = IF n = 0 THEN 0 ELSE disk[markerFile(n)].at
        BY SMTT(40), <1>1, <1>3, <1>4 DEF Plan, ArtifactName, QuarantineName, SummaryName, LedgerName
    <1>6. m.files[ledgerFile(n + 1)] = next
        BY <1>3, <1>5
    <1>7. t.type = "tmp"
        BY Names
    <1>8. \A x \in DOMAIN m.files : x \in DOMAIN disk /\ x # t /\ disk[x] = m.files[x]
        <2> SUFFICES ASSUME NEW x \in DOMAIN m.files PROVE x \in DOMAIN disk /\ disk[x] = m.files[x]
            BY <1>5, <1>7
        <2>1. Rank(f) = 5 /\ Rank(x) \in 1 .. 4
            BY <1>5 DEF Rank
        <2>2. \A g \in Todo(p) : 5 <= Rank(g)
            BY <2>1 DEF Reached
        <2>3. x \in DOMAIN j.plan /\ x \in DOMAIN disk
            BY <1>5, <2>1, <2>2 DEF Todo
        <2>4. \A g \in Missing(j, disk) : Rank(x) <= Rank(g)
            <3> SUFFICES ASSUME NEW g \in Missing(j, disk) PROVE Rank(x) <= Rank(g)
                OBVIOUS
            <3>1. 5 <= Rank(g)
                BY <2>2 DEF Missing, Todo
            <3>2. Rank(g) \in Nat
                BY DEF Rank
            <3> QED BY <2>1, <3>1, <3>2
        <2> QED BY <1>1, <1>5, <2>3, <2>4 DEF Ready
    <1>9. e = Put(Restrict(disk, DOMAIN disk \ {t}), markerFile(n + 1), m)
        BY <1>3 DEF Renamed
    <1>10. Store(e, n + 1) /\ LedgerOf(e) = next
        BY <1>5, <1>6, <1>7, <1>8, <1>9, StoreCommit
    <1>11. /\ DOMAIN e = (DOMAIN disk \ {t}) \cup {f} /\ e[f] = m
           /\ \A x \in DOMAIN disk \ {t} : e[x] = disk[x]
        BY <1>2 DEF Renamed, Put, Restrict
    <1> QED BY <1>3, <1>4, <1>8, <1>10, <1>11 DEF MarkerRenamed

LEMMA RenameMarkerStep ==
    ASSUME IInv, NEW p \in Process, pc[p] = "rename", NEW f \in Todo(p), f.type = "marker",
           Reached(p, f),
           disk' = Renamed(p, f),
           job' = [job EXCEPT ![p].written = @ \cup Noted(f), ![p].committed = (f.type = "marker")],
           pc' = [pc EXCEPT ![p] = "release"],
           UNCHANGED <<lock, acked, starts, crashes, faults>>
    PROVE  Kept
    <1> DEFINE t == tmpFile(p)
               j == job[p]
               k == [j EXCEPT !.written = @ \cup {}, !.committed = TRUE]
               e == Renamed(p, f)
               next == j.plan[ledgerFile(j.seq)]
    <1>1. PICK n : Store(disk, n)
        BY DEF IInv, Shape
    <1>2. /\ DOMAIN j = DOMAIN IdleJob /\ j.at \in Nat /\ j.batch \in Batches
          /\ j.written \subseteq DOMAIN j.plan /\ lock = p
        BY AtWork
    <1>3. /\ n \in Nat /\ LatestSeq(disk) = n /\ f = markerFile(n + 1)
          /\ next \in Ledger /\ Extends(LedgerOf(disk), next)
          /\ Store(e, n + 1) /\ LedgerOf(e) = next
          /\ DOMAIN e = (DOMAIN disk \ {t}) \cup {f}
          /\ \A x \in DOMAIN disk \ {t} : e[x] = disk[x]
        <2>1. MarkerRenamed(p, f, n)
            BY <1>1, MarkerFacts
        <2> QED BY <2>1 DEF MarkerRenamed
    <1>4. LatestSeq(e) = n + 1
        BY <1>3, StoreFacts
    <1>5. DiskOK(e)
        <2>1. f \in FileNames
            BY <1>3 DEF FileNames, MarkerName, markerFile
        <2> QED BY <1>3, <2>1, TypeOKSplit DEF IInv, DiskOK
    <1>6. e = [x \in DOMAIN e |-> e[x]]
        BY SMTT(40), PutIsFunction DEF Renamed
    <1>7. /\ DOMAIN k = DOMAIN IdleJob /\ k.written = j.written /\ k.committed = TRUE
          /\ k.at = j.at /\ k.batch = j.batch /\ k.plan = j.plan /\ k.seq = j.seq
        BY <1>2 DEF IdleJob
    <1>8. job' = [job EXCEPT ![p] = k]
        BY DEF Noted
    <1> HIDE DEF e, k, next
    <1>9. Mid(k, "release", t, disk')
        <2>1. k.plan[ledgerFile(k.seq)] = LedgerOf(disk')
            BY <1>3, <1>7 DEF next, e
        <2> QED BY <1>2, <1>7, <2>1 DEF Mid
    <1>10. /\ Mids' /\ Holders' /\ DOMAIN job' = Process /\ JobsOK'
           /\ pc' \in [Process -> {"idle", "load", "write", "rename", "rollback", "release"}]
        <2>1. k.batch \in Batches \cup {<<>>} /\ k.written \subseteq DOMAIN k.plan
            BY <1>2, <1>7
        <2> QED BY <1>2, <1>8, <1>9, <2>1, OneMoves
    <1>11. disk' = e
        BY DEF e
    <1>12. Shape'
        BY <1>3, <1>6, <1>10, <1>11 DEF Shape
    <1>13. AcknowledgedKept'
        <2>1. LedgerOf(disk)'.obs = next.obs /\ LedgerOf(disk)'.quar = next.quar
            BY <1>3, <1>11
        <2>2. LedgerOf(disk).obs \subseteq next.obs /\ LedgerOf(disk).quar \subseteq next.quar
            BY <1>3 DEF Extends
        <2> QED BY <2>1, <2>2 DEF IInv, AcknowledgedKept
    <1>14. Progress
        <2>1. LatestSeq(disk)' = LatestSeq(disk) + 1 /\ LedgerOf(disk)' = next
            BY <1>3, <1>4, <1>11
        <2> QED BY <1>3, <2>1 DEF Progress, Committed!Commit, Extends
    <1>15. DiskOK(disk')
        BY <1>5, <1>11
    <1> QED BY <1>10, <1>12, <1>13, <1>14, <1>15, KeptJoin, TypeOKSplit DEF IInv

LEMMA RenameStep ==
    ASSUME IInv, NEW p \in Process, Rename(p)
    PROVE  Kept
    <1>1. PICK f \in DOMAIN job[p].plan :
              /\ f \in Todo(p) /\ Reached(p, f)
              /\ disk' = Renamed(p, f)
              /\ job' = [job EXCEPT ![p].written = @ \cup Noted(f),
                                    ![p].committed = (f.type = "marker")]
              /\ pc' = [pc EXCEPT ![p] = IF f.type = "marker" THEN "release" ELSE "write"]
        BY DEF Rename, Goto
    <1>2. pc[p] = "rename" /\ UNCHANGED <<lock, acked, starts, crashes, faults>>
        BY DEF Rename
    <1>3. CASE f.type = "marker"
        BY <1>1, <1>2, <1>3, RenameMarkerStep
    <1>4. CASE f.type # "marker"
        BY <1>1, <1>2, <1>4, RenameFileStep
    <1> QED BY <1>3, <1>4

(* A commit turns to its rollback, or stays in it, after the committed     *)
(* state was left alone.                                                   *)
LEMMA ToRollback ==
    ASSUME IInv, NEW p \in Process, pc[p] \in {"write", "rename", "rollback"},
           NEW k, NEW written \in SUBSET job[p].written, NEW left,
           \A x \in left : x.type # "marker" /\ x \notin Bound(disk),
           k = [job[p] EXCEPT !.written = written, !.left = left],
           job' = [job EXCEPT ![p] = k],
           pc' = [pc EXCEPT ![p] = "rollback"],
           Frame(disk, disk'), DiskOK(disk'),
           disk' = [x \in DOMAIN disk' |-> disk'[x]],
           Trace(k, "rollback", tmpFile(p), disk'),
           faults' \in 0 .. MaxFaults,
           UNCHANGED <<lock, acked, starts, crashes>>
    PROVE  Kept
    <1> DEFINE j == job[p]
    <1>1. PICK n : Store(disk, n)
        BY DEF IInv, Shape
    <1>2. /\ DOMAIN j = DOMAIN IdleJob /\ j.at \in Nat /\ j.batch \in Batches
          /\ ~j.committed /\ Plan(j, disk) /\ Unbound(j, disk)
          /\ j.written \subseteq DOMAIN j.plan /\ lock = p
        BY AtWork
    <1>3. /\ DOMAIN k = DOMAIN IdleJob /\ k.written = written /\ k.committed = j.committed
          /\ k.left = left
          /\ k.at = j.at /\ k.batch = j.batch /\ k.plan = j.plan /\ k.seq = j.seq
        BY <1>2 DEF IdleJob
    <1>4. Plan(k, disk')
        <2>1. Plan(j, disk')
            BY <1>1, <1>2, PlanFrame
        <2> QED BY ZenonT(60), <1>3, <2>1 DEF Plan
    <1>5. Unbound(k, disk')
        <2>1. Bound(disk') = Bound(disk)
            BY <1>1, StoreFrame DEF Frame
        <2> QED BY <1>2, <1>3, <2>1 DEF Unbound
    <1>6. Mid(k, "rollback", tmpFile(p), disk')
        <2>1. k.at \in Nat /\ k.batch \in Batches /\ ~k.committed
            BY <1>2, <1>3
        <2> QED BY <1>3, <1>4, <1>5, <2>1, WorkMid
    <1>7. k.batch \in Batches \cup {<<>>} /\ k.written \subseteq DOMAIN k.plan
        BY <1>2, <1>3
    <1>8. /\ Mids' /\ Holders' /\ DOMAIN job' = Process /\ JobsOK'
          /\ pc' \in [Process -> {"idle", "load", "write", "rename", "rollback", "release"}]
        BY <1>2, <1>6, <1>7, OneMoves
    <1>9. Shape' /\ AcknowledgedKept' /\ Progress
        BY <1>8, Framed
    <1> QED BY <1>8, <1>9, KeptJoin, TypeOKSplit DEF IInv

LEMMA WriteFailsStep ==
    ASSUME IInv, NEW p \in Process, WriteFails(p)
    PROVE  Kept
    <1> DEFINE t == tmpFile(p)
               j == job[p]
               e == Restrict(disk, DOMAIN disk \ {t})
    <1>1. PICK n : Store(disk, n)
        BY DEF IInv, Shape
    <1>2. /\ pc[p] \in {"write", "rename"} /\ pc' = [pc EXCEPT ![p] = "rollback"]
          /\ UNCHANGED <<lock, acked, starts, crashes>>
          /\ \/ disk' = e /\ job' = job
             \/ /\ pc[p] = "rename" /\ disk' = disk
                /\ job' = [job EXCEPT ![p].left = @ \cup {t}]
        BY DEF WriteFails, Goto
    <1>3. faults' \in 0 .. MaxFaults
        BY Faults DEF WriteFails
    <1>4. /\ DOMAIN j = DOMAIN IdleJob /\ Unbound(j, disk) /\ Trace(j, pc[p], t, disk)
          /\ j.at \in Nat /\ j.batch \in Batches /\ ~j.committed /\ Plan(j, disk) /\ lock = p
        BY <1>2, AtWork
    <1>5. CASE disk' = e /\ job' = job
        <2>1. DOMAIN e = DOMAIN disk \ {t} /\ \A x \in DOMAIN e : e[x] = disk[x]
            BY DEF Restrict
        <2>2. e = [x \in DOMAIN e |-> e[x]]
            BY RestrictIsFunction
        <2>3. Frame(disk, e)
            <3>1. t.type # "marker" /\ t \notin Bound(disk)
                BY <1>1, StoreFacts, Names
            <3> QED BY <1>1, <3>1, FrameRemove
        <2> HIDE DEF e
        <2>4. DiskOK(e)
            BY <2>1, TypeOKSplit DEF IInv, DiskOK
        <2>5. Trace(j, "rollback", t, e)
            <3>1. t \notin j.written
                BY <1>4, Names DEF Unbound
            <3> QED BY <1>2, <1>4, <2>1, <3>1 DEF Trace
        <2>6. Plan(j, e) /\ Unbound(j, e)
            BY <1>1, <1>4, <2>3, PlanFrame, UnboundFrame
        <2>7. Mid(j, "rollback", t, disk')
            BY <1>4, <1>5, <2>5, <2>6, WorkMid
        <2>8. /\ Mids' /\ Holders' /\ DOMAIN job' = Process /\ JobsOK'
              /\ pc' \in [Process -> {"idle", "load", "write", "rename", "rollback", "release"}]
            BY <1>2, <1>4, <1>5, <2>7, SameJob
        <2>9. Shape' /\ AcknowledgedKept' /\ Progress
            BY <1>2, <1>5, <2>2, <2>3, <2>8, Framed
        <2> QED BY <1>2, <1>3, <1>5, <2>4, <2>8, <2>9, KeptJoin, TypeOKSplit DEF IInv
    <1>6. CASE /\ pc[p] = "rename" /\ disk' = disk
               /\ job' = [job EXCEPT ![p].left = @ \cup {t}]
        <2> DEFINE k == [j EXCEPT !.written = j.written, !.left = j.left \cup {t}]
        <2>1. k = [j EXCEPT !.left = @ \cup {t}]
            BY <1>4 DEF IdleJob
        <2>2. k.left = j.left \cup {t} /\ k.written = j.written /\ k.base = j.base
            BY <1>4 DEF IdleJob
        <2>3. job' = [job EXCEPT ![p] = k]
            BY <1>6, <2>1
        <2> HIDE DEF k
        <2>4. t.type = "tmp" /\ t \notin Bound(disk) /\ t \notin j.written
            BY <1>1, <1>4, StoreFacts, Names DEF Unbound
        <2>5. Trace(k, "rollback", t, disk')
            BY <1>4, <1>6, <2>2, <2>4 DEF Trace
        <2>6. \A x \in j.left \cup {t} : x.type # "marker" /\ x \notin Bound(disk)
            BY <1>4, <2>4 DEF Unbound
        <2>7. DiskOK(disk')
            BY <1>6, TypeOKSplit DEF IInv
        <2>8. Frame(disk, disk') /\ disk' = [x \in DOMAIN disk' |-> disk'[x]]
            BY <1>6, SameDisk
        <2> QED BY <1>2, <1>3, <2>3, <2>5, <2>6, <2>7, <2>8, ToRollback DEF k
    <1> QED BY <1>2, <1>5, <1>6

LEMMA LateFailureStep ==
    ASSUME "marker" \notin LateAt, IInv, NEW p \in Process, LateFailure(p)
    PROVE  Kept
    <1> DEFINE t == tmpFile(p)
               j == job[p]
    <1>1. PICK f \in DOMAIN job[p].plan :
              /\ f.type \in LateAt /\ f \in Todo(p) /\ disk' = Renamed(p, f)
              /\ job' = [job EXCEPT ![p].left = @ \cup {f}]
        BY DEF LateFailure
    <1>2. /\ pc[p] = "rename" /\ pc' = [pc EXCEPT ![p] = "rollback"]
          /\ UNCHANGED <<lock, acked, starts, crashes>>
        BY DEF LateFailure, Goto
    <1>3. faults' \in 0 .. MaxFaults
        BY Faults DEF LateFailure
    <1>4. /\ Frame(disk, disk') /\ DiskOK(disk')
          /\ disk' = [x \in DOMAIN disk' |-> disk'[x]]
          /\ DOMAIN disk' = (DOMAIN disk \ {t}) \cup {f}
          /\ \A x \in DOMAIN disk \ {t} : disk'[x] = disk[x]
          /\ f \notin DOMAIN disk
        <2>1. f.type # "marker" /\ f \in Todo(p)
            BY <1>1
        <2>2. LET e == Renamed(p, f) IN
              /\ Frame(disk, e) /\ DiskOK(e) /\ e = [x \in DOMAIN e |-> e[x]]
              /\ DOMAIN e = (DOMAIN disk \ {t}) \cup {f}
              /\ \A x \in DOMAIN disk \ {t} : e[x] = disk[x]
              /\ f \notin DOMAIN disk
            BY <1>2, <2>1, RenamedFacts
        <2> QED BY <1>1, <2>2
    <1>5. /\ DOMAIN j = DOMAIN IdleJob /\ Unbound(j, disk) /\ Trace(j, "rename", t, disk)
        BY <1>2, AtWork
    <1> DEFINE k == [j EXCEPT !.written = j.written, !.left = j.left \cup {f}]
    <1>6. k = [j EXCEPT !.left = @ \cup {f}]
        BY <1>5 DEF IdleJob
    <1>7. k.left = j.left \cup {f} /\ k.written = j.written /\ k.base = j.base
        BY <1>5 DEF IdleJob
    <1>8. job' = [job EXCEPT ![p] = k]
        BY <1>1, <1>6
    <1> HIDE DEF k
    <1>9. Trace(k, "rollback", t, disk')
        <2>1. /\ DOMAIN disk = DOMAIN j.base \cup j.written \cup {t}
              /\ DOMAIN j.base \cap j.written = {} /\ t \notin DOMAIN j.base
              /\ \A x \in DOMAIN j.base : disk[x] = j.base[x]
              /\ j.base = [x \in DOMAIN j.base |-> j.base[x]]
              /\ j.left = {}
            BY <1>5 DEF Trace
        <2>2. t \notin j.written
            BY <1>5, Names DEF Unbound
        <2>3. /\ DOMAIN disk' = DOMAIN j.base \cup j.written \cup {f}
              /\ f \notin DOMAIN j.base /\ f \notin j.written
              /\ \A x \in DOMAIN j.base : disk'[x] = j.base[x]
            BY <1>4, <2>1, <2>2
        <2> QED BY <1>7, <2>1, <2>3 DEF Trace
    <1>10. \A x \in j.left \cup {f} : x.type # "marker" /\ x \notin Bound(disk)
        <2>1. PICK n : Store(disk, n)
            BY DEF IInv, Shape
        <2>2. f \notin Bound(disk) /\ f.type # "marker"
            BY <1>1, <1>4, <2>1, StoreFacts
        <2> QED BY <1>5, <2>2 DEF Unbound
    <1> QED BY <1>2, <1>3, <1>4, <1>8, <1>9, <1>10, ToRollback DEF k

LEMMA RollbackStep ==
    ASSUME IInv, NEW p \in Process, Rollback(p)
    PROVE  Kept
    <1> DEFINE t == tmpFile(p)
               j == job[p]
    <1>1. PICK n : Store(disk, n)
        BY DEF IInv, Shape
    <1>2. PICK f \in j.written :
              \/ /\ disk' = Restrict(disk, DOMAIN disk \ {f})
                 /\ job' = [job EXCEPT ![p].written = @ \ {f}]
                 /\ faults' = faults
              \/ /\ Fault
                 /\ disk' = disk
                 /\ job' = [job EXCEPT ![p].written = @ \ {f}, ![p].left = @ \cup {f}]
        BY DEF Rollback
    <1>3. pc[p] = "rollback" /\ UNCHANGED <<lock, pc, acked, starts, crashes>>
        BY DEF Rollback
    <1>4. DOMAIN j = DOMAIN IdleJob /\ Unbound(j, disk) /\ Trace(j, "rollback", t, disk)
        BY <1>3, AtWork
    <1>5. pc' = [pc EXCEPT ![p] = "rollback"]
        BY <1>3, TypeOKSplit DEF IInv
    <1>6. CASE /\ disk' = Restrict(disk, DOMAIN disk \ {f})
               /\ job' = [job EXCEPT ![p].written = @ \ {f}]
               /\ faults' = faults
        <2> DEFINE k == [j EXCEPT !.written = j.written \ {f}, !.left = j.left]
        <2>1. k = [j EXCEPT !.written = @ \ {f}]
            BY <1>4 DEF IdleJob
        <2>2. job' = [job EXCEPT ![p] = k]
            BY <1>6, <2>1
        <2>3. /\ k.written = j.written \ {f} /\ k.left = j.left /\ k.base = j.base
            BY <1>4 DEF IdleJob
        <2> HIDE DEF k
        <2>4. DOMAIN disk' = DOMAIN disk \ {f} /\ \A x \in DOMAIN disk' : disk'[x] = disk[x]
            BY <1>6, RestrictFacts
        <2>5. disk' = [x \in DOMAIN disk' |-> disk'[x]]
            BY <1>6, RestrictIsFunction
        <2>6. Frame(disk, disk')
            BY <1>1, <1>4, <1>6, FrameRemove DEF Unbound
        <2>7. DiskOK(disk')
            BY <2>4, TypeOKSplit DEF IInv, DiskOK
        <2>8. Trace(k, "rollback", t, disk')
            BY <1>4, <2>3, <2>4 DEF Trace
        <2>9. faults' \in 0 .. MaxFaults /\ j.written \ {f} \in SUBSET j.written
            BY <1>6, TypeOKSplit DEF IInv
        <2>10. \A x \in j.left : x.type # "marker" /\ x \notin Bound(disk)
            BY <1>4 DEF Unbound
        <2> QED BY <1>3, <1>5, <2>2, <2>5, <2>6, <2>7, <2>8, <2>9, <2>10, ToRollback DEF k
    <1>7. CASE /\ Fault
               /\ disk' = disk
               /\ job' = [job EXCEPT ![p].written = @ \ {f}, ![p].left = @ \cup {f}]
        <2> DEFINE k == [j EXCEPT !.written = j.written \ {f}, !.left = j.left \cup {f}]
        <2>1. k = [j EXCEPT !.written = @ \ {f}, !.left = @ \cup {f}]
            BY <1>4 DEF IdleJob
        <2>2. job' = [job EXCEPT ![p] = k]
            BY <1>7, <2>1
        <2>3. /\ k.written = j.written \ {f} /\ k.left = j.left \cup {f} /\ k.base = j.base
            BY <1>4 DEF IdleJob
        <2> HIDE DEF k
        <2>4. Trace(k, "rollback", t, disk')
            BY <1>4, <1>7, <2>3 DEF Trace
        <2>5. \A x \in j.left \cup {f} : x.type # "marker" /\ x \notin Bound(disk)
            BY <1>4 DEF Unbound
        <2>6. DiskOK(disk')
            BY <1>7, TypeOKSplit DEF IInv
        <2>7. Frame(disk, disk') /\ disk' = [x \in DOMAIN disk' |-> disk'[x]]
            BY <1>7, SameDisk
        <2>8. faults' \in 0 .. MaxFaults /\ j.written \ {f} \in SUBSET j.written
            BY <1>7, Faults
        <2> QED BY <1>3, <1>5, <2>2, <2>4, <2>5, <2>6, <2>7, <2>8, ToRollback DEF k
    <1> QED BY <1>2, <1>6, <1>7

-----------------------------------------------------------------------------
(* The operator                                                            *)

LEMMA QuietStep ==
    ASSUME IInv, Quiet, pc' = pc, job' = job
    PROVE  /\ Mids' /\ Holders' /\ JobsOK' /\ DOMAIN job' = Process
           /\ pc' \in [Process -> {"idle", "load", "write", "rename", "rollback", "release"}]
    <1>1. \A p \in Process : Mid(job[p], "idle", tmpFile(p), disk')
        <2> SUFFICES ASSUME NEW p \in Process PROVE Mid(job[p], "idle", tmpFile(p), disk')
            OBVIOUS
        <2>1. Mid(job[p], "idle", tmpFile(p), disk)
            BY DEF IInv, Mids, Quiet
        <2> QED BY <2>1 DEF Mid
    <1>2. Mids' /\ Holders'
        BY <1>1 DEF Mids, Holders, Quiet
    <1>3. JobsOK' /\ DOMAIN job' = Process
        BY DEF IInv, TypeOK, JobsOK, Shape
    <1> QED BY <1>2, <1>3, TypeOKSplit DEF IInv

LEMMA RemoveLockStep ==
    ASSUME IInv, RemoveLock
    PROVE  Kept
    <1>1. Quiet /\ lock' = NoLock /\ UNCHANGED <<disk, pc, job, acked, starts, crashes, faults>>
        BY DEF RemoveLock
    <1>2. Frame(disk, disk') /\ disk' = [x \in DOMAIN disk' |-> disk'[x]]
        BY <1>1, SameDisk
    <1>3. /\ Mids' /\ Holders' /\ JobsOK' /\ DOMAIN job' = Process
          /\ pc' \in [Process -> {"idle", "load", "write", "rename", "rollback", "release"}]
        BY <1>1, QuietStep
    <1>4. Shape' /\ AcknowledgedKept' /\ Progress
        BY <1>1, <1>2, <1>3, Framed
    <1> QED BY <1>1, <1>3, <1>4, KeptJoin, TypeOKSplit DEF IInv

LEMMA RemoveResidueStep ==
    ASSUME IInv, RemoveResidue
    PROVE  Kept
    <1> DEFINE e == Restrict(disk, DOMAIN disk \ Residue(disk))
    <1>1. /\ Quiet /\ disk' = e
          /\ UNCHANGED <<lock, pc, job, acked, starts, crashes, faults>>
        BY DEF RemoveResidue
    <1>2. PICK n : Store(disk, n)
        BY DEF IInv, Shape
    <1>3. Frame(disk, e)
        <2>1. \A f \in Residue(disk) : f.type # "marker" /\ f \notin Bound(disk)
            BY DEF Residue, Files
        <2> QED BY <1>2, <2>1, FrameRemove
    <1>4. e = [x \in DOMAIN e |-> e[x]]
        BY RestrictIsFunction
    <1>5. DOMAIN e \subseteq DOMAIN disk /\ \A x \in DOMAIN e : e[x] = disk[x]
        BY DEF Restrict
    <1> HIDE DEF e
    <1>6. DiskOK(disk')
        BY <1>1, <1>5, TypeOKSplit DEF IInv, DiskOK
    <1>7. /\ Mids' /\ Holders' /\ JobsOK' /\ DOMAIN job' = Process
          /\ pc' \in [Process -> {"idle", "load", "write", "rename", "rollback", "release"}]
        BY <1>1, QuietStep
    <1>8. Shape' /\ AcknowledgedKept' /\ Progress
        BY <1>1, <1>3, <1>4, <1>7, Framed
    <1> QED BY <1>1, <1>6, <1>7, <1>8, KeptJoin, TypeOKSplit DEF IInv

LEMMA Stutters == IInv /\ UNCHANGED vars => Kept
    <1> SUFFICES ASSUME IInv, UNCHANGED vars PROVE Kept
        OBVIOUS
    <1>1. UNCHANGED <<disk, lock, pc, job, acked, starts, crashes, faults>>
        BY DEF vars
    <1>2. IInv'
        BY <1>1 DEF IInv, TypeOK, Shape, Holders, Mids, AcknowledgedKept
    <1>3. Progress
        BY <1>1 DEF Progress
    <1> QED BY <1>2, <1>3 DEF Kept

LEMMA EveryStep ==
    ASSUME "marker" \notin LateAt, IInv, [Next]_vars
    PROVE  Kept
    <1>1. CASE UNCHANGED vars
        BY <1>1, Stutters
    <1>2. CASE RemoveLock
        BY <1>2, RemoveLockStep
    <1>3. CASE RemoveResidue
        BY <1>3, RemoveResidueStep
    <1>4. ASSUME NEW p \in Process, Step(p) PROVE Kept
        <2>1. CASE \E b \in Batches : Acquire(p, b)
            BY <2>1, AcquireStep
        <2>2. CASE AcquireFails(p)
            BY <2>2, AcquireFailsStep
        <2>3. CASE Load(p)
            BY <2>3, LoadStep
        <2>4. CASE WriteTmp(p)
            BY <2>4, WriteTmpStep
        <2>5. CASE Rename(p)
            BY <2>5, RenameStep
        <2>6. CASE WriteFails(p)
            BY <2>6, WriteFailsStep
        <2>7. CASE LateFailure(p)
            BY <2>7, LateFailureStep
        <2>8. CASE Rollback(p)
            BY <2>8, RollbackStep
        <2>9. CASE RolledBack(p)
            BY <2>9, RolledBackStep
        <2>10. CASE Release(p)
            BY <2>10, ReleaseStep
        <2>11. CASE Crash(p)
            BY <2>11, CrashStep
        <2> QED BY <1>4, <2>1, <2>2, <2>3, <2>4, <2>5, <2>6, <2>7, <2>8, <2>9, <2>10, <2>11
                DEF Step
    <1> QED BY <1>1, <1>2, <1>3, <1>4 DEF Next

-----------------------------------------------------------------------------
(* A non-empty set of natural numbers has a least element: the intervals   *)
(* 1 .. k of its elements are well-founded under strict inclusion.         *)
LEMMA Least ==
    ASSUME NEW K \in SUBSET Nat, K # {}
    PROVE  \E k \in K : \A i \in K : k <= i
    <1> DEFINE T == {1 .. k : k \in K}
               R == StrictSubsetOrdering(Nat)
    <1>1. IsWellFoundedOn(R, FiniteSubsetsOf(Nat))
        BY FS_StrictSubsetOrderingWellFounded
    <1>2. T \subseteq FiniteSubsetsOf(Nat) /\ T # {}
        <2>1. \A k \in Nat : 1 .. k \in SUBSET Nat /\ IsFiniteSet(1 .. k)
            BY FS_Interval
        <2> QED BY <2>1 DEF FiniteSubsetsOf
    <1>3. PICK x \in T : \A y \in T : <<y, x>> \notin R
        <2> HIDE DEF R, T
        <2> QED BY <1>1, <1>2, WFMin
    <1>4. PICK k \in K : x = 1 .. k
        OBVIOUS
    <1>5. ASSUME NEW i \in K, i < k PROVE FALSE
        <2>1. 1 .. i \in T /\ 1 .. i \in SUBSET Nat /\ x \in SUBSET Nat
            BY <1>4
        <2>2. 1 .. i \subseteq x /\ 1 .. i # x
            BY <1>4, <1>5
        <2>3. <<1 .. i, x>> \in R
            BY <2>1, <2>2 DEF StrictSubsetOrdering
        <2> QED BY <1>3, <2>1, <2>3
    <1> QED BY <1>5

(* What a commit records of a result is the artifact it writes for it.     *)
LEMMA SameRecord == \A r, l : FinalArtifact(r, l) = Observation(r, l)
    BY DEF FinalArtifact, Converted, Observation

LEMMA ArtifactsAreObservations == \A b, l : Artifacts(b, l) = NewObservations(b, l)
    BY SameRecord DEF Artifacts, NewObservations

(* A batch brings each snapshot once.                                      *)
LEMMA BroughtOnce ==
    ASSUME NEW b \in Seq(Result), NEW l,
           NEW o \in NewObservations(b, l), NEW x \in NewObservations(b, l),
           o.match = x.match, o.payload = x.payload
    PROVE  o = x
    <1>1. PICK i \in DOMAIN b : BringsArtifact(b, i, l) /\ o = Observation(b[i], l)
        BY DEF NewObservations
    <1>2. PICK k \in DOMAIN b : BringsArtifact(b, k, l) /\ x = Observation(b[k], l)
        BY DEF NewObservations
    <1>3. b[i].match = b[k].match /\ b[i].payload = b[k].payload
        BY <1>1, <1>2 DEF Observation
    <1>4. i \in 1 .. Len(b) /\ k \in 1 .. Len(b) /\ Len(b) \in Nat
        OBVIOUS
    <1>5. i = k
        <2>1. CASE i < k
            <3>1. i \in 1 .. k - 1
                BY <1>4, <2>1
            <3> QED BY <1>1, <1>2, <1>3, <3>1 DEF BringsArtifact
        <2>2. CASE k < i
            <3>1. k \in 1 .. i - 1
                BY <1>4, <2>2
            <3> QED BY <1>1, <1>2, <1>3, <3>1 DEF BringsArtifact
        <2> QED BY <1>4, <2>1, <2>2
    <1> QED BY <1>1, <1>2, <1>5

(* A fresh snapshot of a batch is brought by the first result that has it. *)
LEMMA FirstBrings ==
    ASSUME NEW b \in Seq(Result), NEW l, NEW i \in DOMAIN b, Classify(b[i], l) \in Fresh
    PROVE  \E o \in NewObservations(b, l) : o.match = b[i].match /\ o.payload = b[i].payload
    <1> DEFINE K == {k \in DOMAIN b : /\ Classify(b[k], l) \in Fresh
                                      /\ <<b[k].match, b[k].payload>> = <<b[i].match, b[i].payload>>}
    <1>1. DOMAIN b = 1 .. Len(b) /\ Len(b) \in Nat
        OBVIOUS
    <1>2. K \in SUBSET Nat /\ K # {}
        BY <1>1
    <1>3. PICK k \in K : \A j \in K : k <= j
        BY <1>2, Least
    <1>4. BringsArtifact(b, k, l)
        <2> SUFFICES ASSUME NEW j \in 1 .. k - 1, Classify(b[j], l) \in Fresh,
                            <<b[j].match, b[j].payload>> = <<b[k].match, b[k].payload>>
                     PROVE  FALSE
            BY DEF BringsArtifact
        <2>1. j \in DOMAIN b /\ j < k
            BY <1>1
        <2>2. j \in K
            BY <2>1
        <2> QED BY <1>1, <1>3, <2>1, <2>2
    <1>5. Observation(b[k], l) \in NewObservations(b, l)
        BY <1>4 DEF NewObservations
    <1> QED BY <1>5 DEF Observation

(* So is the evidence of a quarantine, unless the ledger has it.           *)
LEMMA FirstQuarantines ==
    ASSUME NEW b \in Seq(Result), NEW l, NEW at, NEW i \in DOMAIN b, b[i].kind = "quarantined"
    PROVE  \E q \in l.quar \cup NewQuarantines(b, l, at) :
               q.match = b[i].match /\ q.code = b[i].code
    <1> DEFINE K == {k \in DOMAIN b : /\ b[k].kind = "quarantined"
                                      /\ <<b[k].match, b[k].code>> = <<b[i].match, b[i].code>>}
    <1> SUFFICES ASSUME ~\E q \in l.quar : q.match = b[i].match /\ q.code = b[i].code
                 PROVE  \E q \in NewQuarantines(b, l, at) :
                            q.match = b[i].match /\ q.code = b[i].code
        OBVIOUS
    <1>1. DOMAIN b = 1 .. Len(b) /\ Len(b) \in Nat
        OBVIOUS
    <1>2. K \in SUBSET Nat /\ K # {}
        BY <1>1
    <1>3. PICK k \in K : \A j \in K : k <= j
        BY <1>2, Least
    <1>4. BringsQuarantine(b, k, l)
        <2>1. ASSUME NEW j \in 1 .. k - 1, b[j].kind = "quarantined",
                     <<b[j].match, b[j].code>> = <<b[k].match, b[k].code>>
              PROVE  FALSE
            <3>1. j \in DOMAIN b /\ j < k
                BY <1>1
            <3>2. j \in K
                BY <2>1, <3>1
            <3> QED BY <1>1, <1>3, <3>1, <3>2
        <2> QED BY <2>1 DEF BringsQuarantine
    <1> DEFINE q == [match |-> b[k].match, code |-> b[k].code, at |-> at]
    <1>5. q \in NewQuarantines(b, l, at)
        BY <1>4 DEF NewQuarantines
    <1> QED BY <1>5

-----------------------------------------------------------------------------
(* The files of a commit agree with the ledger it writes.                  *)

LEMMA ArtifactDocuments ==
    ASSUME NEW b \in Seq(Result), NEW l, NEW k, NEW at
    PROVE  LET docs == Documents(b, l, k, at) IN
           /\ \A o \in NewObservations(b, l) :
                 LET f == artifactFile(o.match, o.payload) IN f \in DOMAIN docs /\ docs[f] = o
           /\ \A f \in DOMAIN docs : f.type = "artifact" => docs[f] \in NewObservations(b, l)
    <1> DEFINE docs == Documents(b, l, k, at)
               arts == NewObservations(b, l)
               observed == {artifactFile(a.match, a.payload) : a \in arts}
               evidence == {quarantineFile(q.match, q.code) : q \in NewQuarantines(b, l, at)}
    <1>1. DOMAIN docs = observed \cup evidence \cup {summaryFile(k), ledgerFile(k)}
        BY ArtifactsAreObservations DEF Documents
    <1>2. \A f \in DOMAIN docs : f.type = "artifact" =>
              /\ f \in observed
              /\ docs[f] = CHOOSE a \in arts : artifactFile(a.match, a.payload) = f
        <2>1. \A f \in DOMAIN docs : f.type = "artifact" => f \in observed
            BY <1>1, Names
        <2>2. \A f \in DOMAIN docs : f.type = "artifact" =>
                  docs[f] = CHOOSE a \in Artifacts(b, l) : artifactFile(a.match, a.payload) = f
            BY DEF Documents
        <2> QED BY <2>1, <2>2, ArtifactsAreObservations
    <1> HIDE DEF docs, arts
    <1>3. ASSUME NEW f \in DOMAIN docs, f.type = "artifact"
          PROVE  docs[f] \in arts /\ artifactFile(docs[f].match, docs[f].payload) = f
        <2>1. \E a \in arts : artifactFile(a.match, a.payload) = f
            BY <1>2, <1>3
        <2> QED BY <1>2, <1>3, <2>1
    <1>4. ASSUME NEW o \in arts
          PROVE  LET f == artifactFile(o.match, o.payload) IN f \in DOMAIN docs /\ docs[f] = o
        <2> DEFINE f == artifactFile(o.match, o.payload)
        <2>1. f \in DOMAIN docs /\ f.type = "artifact"
            BY <1>1, Names
        <2>2. docs[f] \in arts /\ artifactFile(docs[f].match, docs[f].payload) = f
            BY <1>3, <2>1
        <2>3. docs[f].match = o.match /\ docs[f].payload = o.payload
            BY <2>2 DEF artifactFile
        <2>4. docs[f] = o
            BY <2>2, <2>3, BroughtOnce DEF arts
        <2> QED BY <2>1, <2>4
    <1> QED BY <1>3, <1>4 DEF docs, arts

LEMMA QuarantineDocuments ==
    ASSUME NEW b \in Seq(Result), NEW l, NEW k, NEW at
    PROVE  LET docs == Documents(b, l, k, at) IN
           /\ \A q \in NewQuarantines(b, l, at) :
                 LET f == quarantineFile(q.match, q.code) IN f \in DOMAIN docs /\ docs[f] = q
           /\ \A f \in DOMAIN docs : f.type = "quarantine" => docs[f] \in NewQuarantines(b, l, at)
    <1> DEFINE docs == Documents(b, l, k, at)
               quar == NewQuarantines(b, l, at)
               observed == {artifactFile(a.match, a.payload) : a \in Artifacts(b, l)}
               evidence == {quarantineFile(q.match, q.code) : q \in quar}
    <1>1. DOMAIN docs = observed \cup evidence \cup {summaryFile(k), ledgerFile(k)}
        BY DEF Documents
    <1>2. \A f \in DOMAIN docs : f.type = "quarantine" =>
              f \in evidence /\ docs[f] = [match |-> f.match, code |-> f.code, at |-> at]
        <2>1. \A f \in DOMAIN docs : f.type = "quarantine" => f \in evidence
            BY <1>1, Names
        <2>2. \A f \in DOMAIN docs : f.type = "quarantine" =>
                  docs[f] = [match |-> f.match, code |-> f.code, at |-> at]
            BY DEF Documents
        <2> QED BY <2>1, <2>2
    <1>3. \A q \in quar : q = [match |-> q.match, code |-> q.code, at |-> at]
        BY DEF NewQuarantines
    <1>4. \A q \in quar : LET f == quarantineFile(q.match, q.code) IN
              f.type = "quarantine" /\ f.match = q.match /\ f.code = q.code
        BY DEF quarantineFile
    <1> HIDE DEF docs, quar
    <1>5. \A q \in quar : LET f == quarantineFile(q.match, q.code) IN
              f \in DOMAIN docs /\ docs[f] = q
        BY <1>1, <1>2, <1>3, <1>4
    <1>6. \A f \in DOMAIN docs : f.type = "quarantine" => docs[f] \in quar
        BY <1>2, <1>3, <1>4
    <1> QED BY <1>5, <1>6 DEF docs, quar

(* What the summary says of a result is backed by the ledger after it.     *)
LEMMA RowsBacked ==
    ASSUME NEW b \in Seq(Result), NEW l, NEW at, NEW i \in DOMAIN b
    PROVE  RowBacked(Row(b, i, l), NextLedger(b, l, at))
    <1> DEFINE r == Row(b, i, l)
               new == NextLedger(b, l, at)
               c == Classify(b[i], l)
    <1>1. /\ r.match = b[i].match /\ r.state = TerminalState(b, i, l)
          /\ r.file = BringsArtifact(b, i, l)
          /\ b[i].kind = "ok" => r.payload = b[i].payload
          /\ b[i].kind # "ok" => r.code = b[i].code
        BY DEF Row
    <1>2. /\ new.obs = l.obs \cup NewObservations(b, l)
          /\ new.quar = l.quar \cup NewQuarantines(b, l, at)
        BY DEF NextLedger
    <1>3. b[i] \in Result
        OBVIOUS
    <1>4. b[i].kind \in {"ok", "quarantined", "rejected"}
        BY <1>3 DEF Result
    <1>5. /\ b[i].kind # "ok" => c = b[i].kind
          /\ b[i].kind = "ok" => c \in Fresh \cup {"ACCEPTED_REPEAT_EXACT", "REJECTED_IDENTITY_INCONSISTENT"}
          /\ b[i].kind = "ok" /\ c = "ACCEPTED_REPEAT_EXACT" =>
                \E o \in l.obs : o.match = b[i].match /\ o.payload = b[i].payload
        BY DEF Classify, Fresh, Staged
    <1>6. Fresh = {"ACCEPTED_NEW", "ACCEPTED_REPEAT_EQUIVALENT"}
        BY DEF Fresh
    <1>7. r.state = IF c \in Fresh /\ ~BringsArtifact(b, i, l) THEN "ACCEPTED_REPEAT_EXACT" ELSE c
        BY <1>1 DEF TerminalState
    <1>8. c \in Fresh => b[i].kind = "ok"
        BY <1>4, <1>5, <1>6
    <1> HIDE DEF r, new, c
    <1>9. ASSUME r.file
          PROVE  \E o \in new.obs : o.match = r.match /\ o.payload = r.payload /\ o.state = r.state
        <2>1. BringsArtifact(b, i, l) /\ c \in Fresh
            BY <1>1, <1>9 DEF BringsArtifact, c
        <2>2. Observation(b[i], l) \in new.obs
            BY <1>2, <2>1 DEF NewObservations
        <2>3. /\ Observation(b[i], l).match = r.match /\ Observation(b[i], l).state = c
              /\ Observation(b[i], l).payload = r.payload
            BY <1>1, <1>8, <2>1 DEF Observation, c
        <2> QED BY <1>7, <2>1, <2>2, <2>3
    <1>10. ~r.file => r.state \notin Fresh
        BY <1>1, <1>6, <1>7
    <1>11. ASSUME r.state = "ACCEPTED_REPEAT_EXACT"
           PROVE  \E o \in new.obs : o.match = r.match /\ o.payload = r.payload
        <2>1. b[i].kind = "ok"
            BY <1>4, <1>5, <1>7, <1>8, <1>11
        <2>2. CASE c \in Fresh
            <3>1. \E o \in NewObservations(b, l) : o.match = b[i].match /\ o.payload = b[i].payload
                BY <2>2, FirstBrings DEF c
            <3> QED BY <1>1, <1>2, <2>1, <3>1
        <2>3. CASE c \notin Fresh
            <3>1. c = "ACCEPTED_REPEAT_EXACT"
                BY <1>7, <1>11, <2>3
            <3> QED BY <1>1, <1>2, <1>5, <2>1, <3>1
        <2> QED BY <2>2, <2>3
    <1>12. ASSUME r.state = "quarantined"
           PROVE  \E q \in new.quar : q.match = r.match /\ q.code = r.code
        <2>1. b[i].kind = "quarantined"
            BY <1>4, <1>5, <1>6, <1>7, <1>12
        <2>2. \E q \in l.quar \cup NewQuarantines(b, l, at) :
                  q.match = b[i].match /\ q.code = b[i].code
            BY <2>1, FirstQuarantines
        <2> QED BY <1>1, <1>2, <2>1, <2>2
    <1>13. RowBacked(r, new)
        BY <1>9, <1>10, <1>11, <1>12 DEF RowBacked
    <1> QED BY <1>13 DEF r, new

-----------------------------------------------------------------------------
(* In every committed state the ledger, the files and the summaries agree. *)

(* l is the ledger, and files are what the markers bind.                   *)
Agrees(d, files, l) ==
    /\ \A o \in l.obs : LET f == artifactFile(o.match, o.payload) IN f \in files /\ d[f] = o
    /\ \A q \in l.quar : LET f == quarantineFile(q.match, q.code) IN f \in files /\ d[f] = q
    /\ \A f \in files :
          /\ f.type = "artifact" => d[f] \in l.obs
          /\ f.type = "quarantine" => d[f] \in l.quar
          /\ f.type = "summary" => /\ ValidSummary(d[f])
                                   /\ \A i \in DOMAIN d[f].rows : RowBacked(d[f].rows[i], l)

Backed(d) == Agrees(d, Bound(d), LedgerOf(d))

(* The marker of a commit in progress binds the documents of its batch.    *)
Planned(j, d) ==
    LET m == j.plan[markerFile(j.seq)] IN
    /\ m.files = Documents(j.batch, LedgerOf(d), j.seq, j.at)
    /\ ValidSummary(m.files[summaryFile(j.seq)])

Planners == \A p \in Process :
    pc[p] \in {"write", "rename", "rollback"} => Planned(job[p], disk)

Audit == Backed(disk) /\ Planners

(* A row that a ledger backs is backed by every ledger that has more.      *)
LEMMA RowsStayBacked ==
    ASSUME NEW l, NEW new, l.obs \subseteq new.obs, l.quar \subseteq new.quar,
           NEW r, RowBacked(r, l)
    PROVE  RowBacked(r, new)
    BY DEF RowBacked

LEMMA BackedFrame ==
    ASSUME NEW d, NEW n, Store(d, n), NEW e, Frame(d, e), Backed(d)
    PROVE  Backed(e)
    <1>1. Bound(e) = Bound(d) /\ LedgerOf(e) = LedgerOf(d)
        BY StoreFrame DEF Frame
    <1>2. \A f \in Bound(d) : e[f] = d[f]
        BY DEF Frame
    <1> QED BY <1>1, <1>2 DEF Backed, Agrees

(* The documents of a commit agree with its ledger as old files do.        *)
LEMMA DocumentsAgree ==
    ASSUME NEW b \in Seq(Result), NEW l, NEW k \in Nat \ {0}, NEW at, NEW d, NEW files,
           Agrees(d, files, l), NEW e,
           LET docs == Documents(b, l, k, at) IN
           /\ ValidSummary(docs[summaryFile(k)])
           /\ \A f \in files : e[f] = d[f]
           /\ \A f \in DOMAIN docs : e[f] = docs[f]
    PROVE  Agrees(e, files \cup DOMAIN Documents(b, l, k, at), NextLedger(b, l, at))
    <1> DEFINE docs == Documents(b, l, k, at)
               new == NextLedger(b, l, at)
               all == files \cup DOMAIN docs
    <1>1. /\ \A o \in NewObservations(b, l) :
                LET f == artifactFile(o.match, o.payload) IN f \in DOMAIN docs /\ docs[f] = o
          /\ \A f \in DOMAIN docs : f.type = "artifact" => docs[f] \in NewObservations(b, l)
        BY ArtifactDocuments
    <1>2. /\ \A q \in NewQuarantines(b, l, at) :
                LET f == quarantineFile(q.match, q.code) IN f \in DOMAIN docs /\ docs[f] = q
          /\ \A f \in DOMAIN docs : f.type = "quarantine" => docs[f] \in NewQuarantines(b, l, at)
        BY QuarantineDocuments
    <1>3. \A f \in DOMAIN docs : f.type = "summary" =>
              f = summaryFile(k) /\ docs[f] = Summary(b, l, at)
        <2> DEFINE observed == {artifactFile(a.match, a.payload) : a \in Artifacts(b, l)}
                   evidence == {quarantineFile(q.match, q.code) : q \in NewQuarantines(b, l, at)}
        <2>1. DOMAIN docs = observed \cup evidence \cup {summaryFile(k), ledgerFile(k)}
            BY DEF Documents
        <2>2. \A f \in DOMAIN docs : f.type = "summary" => f = summaryFile(k)
            BY <2>1, Names
        <2>3. \A f \in DOMAIN docs : f.type = "summary" => docs[f] = Summary(b, l, at)
            BY DEF Documents
        <2> QED BY <2>2, <2>3
    <1>4. /\ DOMAIN Summary(b, l, at).rows = DOMAIN b
          /\ \A i \in DOMAIN b : Summary(b, l, at).rows[i] = Row(b, i, l)
        BY DEF Summary
    <1>5. \A i \in DOMAIN b : RowBacked(Row(b, i, l), new)
        BY RowsBacked
    <1>6. /\ new.obs = l.obs \cup NewObservations(b, l)
          /\ new.quar = l.quar \cup NewQuarantines(b, l, at)
        BY DEF NextLedger
    <1>7. \A f \in files : e[f] = d[f]
        OBVIOUS
    <1>8. ValidSummary(docs[summaryFile(k)]) /\ \A f \in DOMAIN docs : e[f] = docs[f]
        OBVIOUS
    <1> HIDE DEF docs, new
    <1>9. \A o \in new.obs : LET f == artifactFile(o.match, o.payload) IN f \in all /\ e[f] = o
        <2>1. \A o \in l.obs : LET f == artifactFile(o.match, o.payload) IN f \in files /\ d[f] = o
            BY DEF Agrees
        <2> QED BY <1>1, <1>6, <1>7, <1>8, <2>1
    <1>10. \A q \in new.quar : LET f == quarantineFile(q.match, q.code) IN f \in all /\ e[f] = q
        <2>1. \A q \in l.quar : LET f == quarantineFile(q.match, q.code) IN f \in files /\ d[f] = q
            BY DEF Agrees
        <2> QED BY <1>2, <1>6, <1>7, <1>8, <2>1
    <1>11. ASSUME NEW f \in files
           PROVE  /\ f.type = "artifact" => e[f] \in new.obs
                  /\ f.type = "quarantine" => e[f] \in new.quar
                  /\ f.type = "summary" =>
                        /\ ValidSummary(e[f])
                        /\ \A i \in DOMAIN e[f].rows : RowBacked(e[f].rows[i], new)
        <2>1. /\ f.type = "artifact" => d[f] \in l.obs
              /\ f.type = "quarantine" => d[f] \in l.quar
              /\ f.type = "summary" => /\ ValidSummary(d[f])
                                       /\ \A i \in DOMAIN d[f].rows : RowBacked(d[f].rows[i], l)
            BY DEF Agrees
        <2>2. \A r : RowBacked(r, l) => RowBacked(r, new)
            BY <1>6, RowsStayBacked
        <2> QED BY <1>6, <1>7, <2>1, <2>2
    <1>12. ASSUME NEW f \in DOMAIN docs
           PROVE  /\ f.type = "artifact" => e[f] \in new.obs
                  /\ f.type = "quarantine" => e[f] \in new.quar
                  /\ f.type = "summary" =>
                        /\ ValidSummary(e[f])
                        /\ \A i \in DOMAIN e[f].rows : RowBacked(e[f].rows[i], new)
        <2>1. f.type = "artifact" => e[f] \in new.obs
            BY <1>1, <1>6, <1>8
        <2>2. f.type = "quarantine" => e[f] \in new.quar
            BY <1>2, <1>6, <1>8
        <2>3. f.type = "summary" => e[f] = Summary(b, l, at) /\ ValidSummary(e[f])
            BY <1>3, <1>8
        <2> QED BY <1>4, <1>5, <2>1, <2>2, <2>3
    <1>13. Agrees(e, all, new)
        BY <1>9, <1>10, <1>11, <1>12 DEF Agrees
    <1> QED BY <1>13 DEF docs, new

-----------------------------------------------------------------------------
(* The steps, once more                                                    *)

AtWorkStates == {"write", "rename", "rollback"}

(* A step that leaves the committed state and the plans alone.             *)
LEMMA AuditFramed ==
    ASSUME IInv, Audit, Frame(disk, disk'),
           \A q \in Process : pc'[q] \in AtWorkStates =>
               /\ pc[q] \in AtWorkStates
               /\ job'[q].plan = job[q].plan /\ job'[q].seq = job[q].seq
               /\ job'[q].batch = job[q].batch /\ job'[q].at = job[q].at
    PROVE  Audit'
    <1>1. PICK n : Store(disk, n)
        BY DEF IInv, Shape
    <1>2. Backed(disk')
        BY <1>1, BackedFrame DEF Audit
    <1>3. LedgerOf(disk') = LedgerOf(disk)
        BY <1>1, StoreFrame DEF Frame
    <1>4. ASSUME NEW q \in Process, pc'[q] \in AtWorkStates PROVE Planned(job'[q], disk')
        <2>1. Planned(job[q], disk)
            BY <1>4 DEF Audit, Planners, AtWorkStates
        <2>2. /\ job'[q].plan = job[q].plan /\ job'[q].seq = job[q].seq
              /\ job'[q].batch = job[q].batch /\ job'[q].at = job[q].at
            BY <1>4
        <2> QED BY <1>3, <2>1, <2>2 DEF Planned
    <1>5. Planners'
        BY <1>4 DEF Planners, AtWorkStates
    <1> QED BY <1>2, <1>5 DEF Audit

(* Who is not the one that moves is where it was.                          *)
LEMMA Others ==
    ASSUME IInv, NEW p \in Process, NEW c, NEW j,
           pc' = [pc EXCEPT ![p] = c], job' = [job EXCEPT ![p] = j]
    PROVE  /\ pc'[p] = c /\ job'[p] = j
           /\ \A q \in Process \ {p} : pc'[q] = pc[q] /\ job'[q] = job[q]
    <1>1. pc \in [Process -> {"idle", "load", "write", "rename", "rollback", "release"}]
        BY TypeOKSplit DEF IInv
    <1> QED BY <1>1 DEF IInv, Shape

(* One process moves, to where it needs no plan or with the plan it had.   *)
LEMMA AuditMoves ==
    ASSUME IInv, Audit, Frame(disk, disk'), NEW p \in Process, NEW c, NEW j,
           pc' = [pc EXCEPT ![p] = c], job' = [job EXCEPT ![p] = j],
           c \in AtWorkStates =>
               /\ pc[p] \in AtWorkStates
               /\ j.plan = job[p].plan /\ j.seq = job[p].seq
               /\ j.batch = job[p].batch /\ j.at = job[p].at
    PROVE  Audit'
    <1>1. /\ pc'[p] = c /\ job'[p] = j
          /\ \A q \in Process \ {p} : pc'[q] = pc[q] /\ job'[q] = job[q]
        BY Others
    <1> QED BY <1>1, AuditFramed

LEMMA AuditKeeps ==
    ASSUME IInv, Audit, Frame(disk, disk'), NEW p \in Process, NEW c,
           pc' = [pc EXCEPT ![p] = c], job' = job,
           c \in AtWorkStates => pc[p] \in AtWorkStates
    PROVE  Audit'
    <1>1. pc \in [Process -> {"idle", "load", "write", "rename", "rollback", "release"}]
        BY TypeOKSplit DEF IInv
    <1>2. pc'[p] = c /\ \A q \in Process \ {p} : pc'[q] = pc[q]
        BY <1>1
    <1> QED BY <1>2, AuditFramed

(* The rename of the marker: the files it binds are those of its batch.    *)
LEMMA AuditMarker ==
    ASSUME IInv, Audit, NEW p \in Process, pc[p] = "rename", NEW f \in Todo(p),
           f.type = "marker", Reached(p, f), disk' = Renamed(p, f)
    PROVE  Backed(disk')
    <1> DEFINE t == tmpFile(p)
               j == job[p]
               e == Renamed(p, f)
               m == j.plan[f]
               l == LedgerOf(disk)
               docs == Documents(j.batch, l, j.seq, j.at)
    <1>1. PICK n : Store(disk, n)
        BY DEF IInv, Shape
    <1>2. j.at \in Nat /\ j.batch \in Batches
        BY AtWork
    <1>3. /\ n \in Nat /\ j.seq = n + 1 /\ f = markerFile(n + 1)
          /\ \A x \in DOMAIN m.files : x \in DOMAIN disk /\ x # t /\ disk[x] = m.files[x]
          /\ Store(e, n + 1) /\ LedgerOf(e) = NextLedger(j.batch, l, j.at)
          /\ e[f] = m /\ \A x \in DOMAIN disk \ {t} : e[x] = disk[x]
        <2>1. MarkerRenamed(p, f, n)
            BY <1>1, MarkerFacts
        <2> QED BY <2>1 DEF MarkerRenamed
    <1>4. m.files = docs /\ ValidSummary(docs[summaryFile(j.seq)])
        <2>1. Planned(j, disk)
            BY DEF Audit, Planners
        <2> QED BY <1>3, <2>1 DEF Planned
    <1>5. t.type = "tmp"
        BY Names
    <1> HIDE DEF e, m, docs, l, j, t
    <1>6. Bound(e) = Bound(disk) \cup DOMAIN docs
        <2>1. \A x : x \in Bound(disk) <=> \E k \in 1 .. n : x \in DOMAIN disk[markerFile(k)].files
            BY <1>1, StoreFacts
        <2>2. \A x : x \in Bound(e) <=> \E k \in 1 .. n + 1 : x \in DOMAIN e[markerFile(k)].files
            BY <1>3, StoreFacts
        <2>3. \A k \in 1 .. n : e[markerFile(k)] = disk[markerFile(k)]
            <3>1. \A k \in 1 .. n : markerFile(k) \in DOMAIN disk
                BY <1>1 DEF Store, Files
            <3> QED BY <1>3, <1>5, <3>1, Names
        <2>4. 1 .. n + 1 = 1 .. n \cup {n + 1}
            BY <1>3
        <2>5. DOMAIN e[markerFile(n + 1)].files = DOMAIN docs
            BY <1>3, <1>4
        <2>6. \A x : x \in Bound(e) <=> x \in Bound(disk) \/ x \in DOMAIN docs
            BY <2>1, <2>2, <2>3, <2>4, <2>5
        <2> QED BY <2>6
    <1>7. \A x \in Bound(disk) : e[x] = disk[x]
        <2>1. Bound(disk) \subseteq DOMAIN disk /\ \A x \in Bound(disk) : x.type # "tmp"
            BY <1>1, StoreFacts
        <2> QED BY <1>3, <1>5, <2>1
    <1>8. \A x \in DOMAIN docs : e[x] = docs[x]
        BY <1>3, <1>4
    <1>9. Agrees(disk, Bound(disk), l)
        BY DEF Audit, Backed, l
    <1>10. j.batch \in Seq(Result) /\ j.seq \in Nat \ {0}
        BY <1>2, <1>3, InputAssumption
    <1>11. Agrees(e, Bound(disk) \cup DOMAIN docs, NextLedger(j.batch, l, j.at))
        BY <1>4, <1>7, <1>8, <1>9, <1>10, DocumentsAgree DEF docs
    <1>12. Backed(e)
        BY <1>3, <1>6, <1>11 DEF Backed
    <1> QED BY <1>12 DEF e

LEMMA AuditAcquire ==
    ASSUME IInv, Audit, NEW p \in Process, NEW b \in Batches, Acquire(p, b)
    PROVE  Audit'
    <1>1. Frame(disk, disk')
        BY SameDisk DEF Acquire
    <1>2. /\ pc' = [pc EXCEPT ![p] = "load"]
          /\ job' = [job EXCEPT ![p] = [IdleJob EXCEPT !.batch = b, !.at = starts + 1]]
        BY DEF Acquire, Goto
    <1> QED BY <1>1, <1>2, AuditMoves DEF AtWorkStates

LEMMA AuditEnds ==
    ASSUME IInv, Audit, NEW p \in Process, AcquireFails(p) \/ Release(p) \/ Crash(p)
    PROVE  Audit'
    <1>1. Frame(disk, disk')
        <2>1. disk' = disk
            BY DEF AcquireFails, Release, Crash
        <2> QED BY <2>1, SameDisk
    <1>2. pc' = [pc EXCEPT ![p] = "idle"] /\ job' = [job EXCEPT ![p] = IdleJob]
        BY DEF AcquireFails, Release, Crash, Goto
    <1> QED BY <1>1, <1>2, AuditMoves DEF AtWorkStates

LEMMA AuditLoad ==
    ASSUME IInv, Audit, NEW p \in Process, Load(p)
    PROVE  Audit'
    <1> DEFINE jp == job[p]
               ledger == LedgerOf(disk)
               seq == LatestSeq(disk) + 1
               docs == Documents(jp.batch, ledger, seq, jp.at)
               mk == Marker(disk, docs, jp.at)
               plan == Put(docs, markerFile(seq), mk)
               go == [jp EXCEPT !.base = disk, !.seq = seq, !.plan = plan]
    <1>1. disk' = disk /\ Frame(disk, disk')
        <2>1. disk' = disk
            BY DEF Load
        <2> QED BY <2>1, SameDisk
    <1>2. \/ /\ ValidSummary(docs[summaryFile(seq)])
             /\ pc' = [pc EXCEPT ![p] = "write"] /\ job' = [job EXCEPT ![p] = go]
          \/ /\ pc' = [pc EXCEPT ![p] = "release"]
             /\ job' = [job EXCEPT ![p] = [jp EXCEPT !.base = disk]]
        BY DEF Load, Goto
    <1>3. CASE /\ pc' = [pc EXCEPT ![p] = "release"]
               /\ job' = [job EXCEPT ![p] = [jp EXCEPT !.base = disk]]
        BY <1>1, <1>3, AuditMoves DEF AtWorkStates
    <1>4. CASE /\ ValidSummary(docs[summaryFile(seq)])
               /\ pc' = [pc EXCEPT ![p] = "write"] /\ job' = [job EXCEPT ![p] = go]
        <2>1. DOMAIN jp = DOMAIN IdleJob
            BY DEF IInv, Mids, Mid
        <2>2. go.seq = seq /\ go.plan = plan /\ go.batch = jp.batch /\ go.at = jp.at
            BY <2>1 DEF IdleJob
        <2>3. plan[markerFile(seq)] = mk /\ mk.files = docs
            BY DEF Put, Marker
        <2>4. Planned(go, disk')
            BY <1>1, <1>4, <2>2, <2>3 DEF Planned
        <2>5. /\ pc'[p] = "write" /\ job'[p] = go
              /\ \A q \in Process \ {p} : pc'[q] = pc[q] /\ job'[q] = job[q]
            <3> HIDE DEF go
            <3> QED BY <1>4, Others
        <2> HIDE DEF go, plan, docs, mk
        <2>6. Planners'
            BY <1>1, <2>4, <2>5 DEF Audit, Planners
        <2> QED BY <1>1, <2>6 DEF Audit
    <1> QED BY <1>2, <1>3, <1>4

LEMMA AuditWriteTmp ==
    ASSUME IInv, Audit, NEW p \in Process, WriteTmp(p)
    PROVE  Audit'
    <1>1. PICK n : Store(disk, n)
        BY DEF IInv, Shape
    <1>2. tmpFile(p).type # "marker" /\ tmpFile(p) \notin Bound(disk)
        BY <1>1, StoreFacts, Names
    <1>3. Frame(disk, disk')
        <2>1. disk' = disk \/ disk' = Put(disk, tmpFile(p), None)
            BY DEF WriteTmp
        <2> QED BY <1>1, <1>2, <2>1, SameDisk, FramePut
    <1>4. /\ pc[p] = "write" /\ job' = job
          /\ pc' = [pc EXCEPT ![p] = IF Conflict(p) THEN "rollback" ELSE "rename"]
        BY DEF WriteTmp, Goto
    <1> QED BY <1>3, <1>4, AuditKeeps DEF AtWorkStates

LEMMA AuditRename ==
    ASSUME IInv, Audit, NEW p \in Process, Rename(p)
    PROVE  Audit'
    <1>1. PICK f \in DOMAIN job[p].plan :
              /\ f \in Todo(p) /\ Reached(p, f)
              /\ disk' = Renamed(p, f)
              /\ job' = [job EXCEPT ![p].written = @ \cup Noted(f),
                                    ![p].committed = (f.type = "marker")]
              /\ pc' = [pc EXCEPT ![p] = IF f.type = "marker" THEN "release" ELSE "write"]
        BY DEF Rename, Goto
    <1>2. pc[p] = "rename" /\ DOMAIN job[p] = DOMAIN IdleJob
        BY AtWork DEF Rename
    <1> DEFINE k == [job[p] EXCEPT !.written = @ \cup Noted(f), !.committed = (f.type = "marker")]
    <1>3. job' = [job EXCEPT ![p] = k]
        BY <1>1
    <1>4. /\ k.plan = job[p].plan /\ k.seq = job[p].seq
          /\ k.batch = job[p].batch /\ k.at = job[p].at
        BY <1>2 DEF IdleJob
    <1> HIDE DEF k
    <1>5. CASE f.type # "marker"
        <2>1. Frame(disk, disk')
            <3>1. f \in Todo(p)
                BY <1>1
            <3>2. Frame(disk, Renamed(p, f))
                BY <1>2, <1>5, <3>1, RenamedFacts
            <3> QED BY <1>1, <3>2
        <2>2. pc' = [pc EXCEPT ![p] = "write"]
            BY <1>1, <1>5
        <2> QED BY <1>2, <1>3, <1>4, <2>1, <2>2, AuditMoves DEF AtWorkStates
    <1>6. CASE f.type = "marker"
        <2>1. Backed(disk')
            BY <1>1, <1>2, <1>6, AuditMarker
        <2>2. pc' = [pc EXCEPT ![p] = "release"]
            BY <1>1, <1>6
        <2>3. pc'[p] = "release" /\ \A q \in Process \ {p} : pc'[q] = pc[q]
            BY <1>3, <2>2, Others
        <2>4. \A q \in Process \ {p} : pc[q] = "idle"
            BY <1>2, Alone
        <2>5. Planners'
            BY <2>3, <2>4 DEF Planners
        <2> QED BY <2>1, <2>5 DEF Audit
    <1> QED BY <1>5, <1>6

LEMMA AuditWriteFails ==
    ASSUME IInv, Audit, NEW p \in Process, WriteFails(p)
    PROVE  Audit'
    <1> DEFINE t == tmpFile(p)
               k == [job[p] EXCEPT !.left = @ \cup {t}]
    <1>1. PICK n : Store(disk, n)
        BY DEF IInv, Shape
    <1>2. /\ pc[p] \in {"write", "rename"} /\ pc' = [pc EXCEPT ![p] = "rollback"]
          /\ \/ disk' = Restrict(disk, DOMAIN disk \ {t}) /\ job' = job
             \/ disk' = disk /\ job' = [job EXCEPT ![p] = k]
        BY DEF WriteFails, Goto
    <1>3. Frame(disk, disk')
        <2>1. t.type # "marker" /\ t \notin Bound(disk)
            BY <1>1, StoreFacts, Names
        <2>2. Frame(disk, Restrict(disk, DOMAIN disk \ {t}))
            BY <1>1, <2>1, FrameRemove
        <2> QED BY <1>2, <2>2, SameDisk
    <1>4. CASE job' = job
        BY <1>2, <1>3, <1>4, AuditKeeps DEF AtWorkStates
    <1>5. CASE job' = [job EXCEPT ![p] = k]
        <2>1. DOMAIN job[p] = DOMAIN IdleJob
            BY <1>2, AtWork
        <2>2. /\ k.plan = job[p].plan /\ k.seq = job[p].seq
              /\ k.batch = job[p].batch /\ k.at = job[p].at
            BY <2>1 DEF IdleJob
        <2> HIDE DEF k
        <2> QED BY <1>2, <1>3, <1>5, <2>2, AuditMoves DEF AtWorkStates
    <1> QED BY <1>2, <1>4, <1>5

LEMMA AuditLateFailure ==
    ASSUME "marker" \notin LateAt, IInv, Audit, NEW p \in Process, LateFailure(p)
    PROVE  Audit'
    <1>1. PICK f \in DOMAIN job[p].plan :
              /\ f.type \in LateAt /\ f \in Todo(p) /\ disk' = Renamed(p, f)
              /\ job' = [job EXCEPT ![p].left = @ \cup {f}]
        BY DEF LateFailure
    <1> DEFINE k == [job[p] EXCEPT !.left = @ \cup {f}]
    <1>2. /\ pc[p] = "rename" /\ pc' = [pc EXCEPT ![p] = "rollback"]
          /\ job' = [job EXCEPT ![p] = k]
        BY <1>1 DEF LateFailure, Goto
    <1>3. Frame(disk, disk')
        <2>1. f.type # "marker" /\ f \in Todo(p)
            BY <1>1
        <2>2. Frame(disk, Renamed(p, f))
            BY <1>2, <2>1, RenamedFacts
        <2> QED BY <1>1, <2>2
    <1>4. DOMAIN job[p] = DOMAIN IdleJob
        BY <1>2, AtWork
    <1>5. /\ k.plan = job[p].plan /\ k.seq = job[p].seq
          /\ k.batch = job[p].batch /\ k.at = job[p].at
        BY <1>4 DEF IdleJob
    <1> HIDE DEF k
    <1> QED BY <1>2, <1>3, <1>5, AuditMoves DEF AtWorkStates

LEMMA AuditRollback ==
    ASSUME IInv, Audit, NEW p \in Process, Rollback(p) \/ RolledBack(p)
    PROVE  Audit'
    <1>1. PICK n : Store(disk, n)
        BY DEF IInv, Shape
    <1>2. CASE Rollback(p)
        <2>1. PICK f \in job[p].written :
                  \/ /\ disk' = Restrict(disk, DOMAIN disk \ {f})
                     /\ job' = [job EXCEPT ![p].written = @ \ {f}]
                  \/ /\ disk' = disk
                     /\ job' = [job EXCEPT ![p].written = @ \ {f}, ![p].left = @ \cup {f}]
            BY <1>2 DEF Rollback
        <2>2. pc[p] = "rollback" /\ pc' = pc
            BY <1>2 DEF Rollback
        <2>3. DOMAIN job[p] = DOMAIN IdleJob /\ Unbound(job[p], disk)
            BY <2>2, AtWork
        <2>4. Frame(disk, disk')
            <3>1. f.type # "marker" /\ f \notin Bound(disk)
                BY <2>3 DEF Unbound
            <3>2. Frame(disk, Restrict(disk, DOMAIN disk \ {f}))
                BY <1>1, <3>1, FrameRemove
            <3> QED BY <2>1, <3>2, SameDisk
        <2>5. pc' = [pc EXCEPT ![p] = "rollback"]
            BY <2>2, TypeOKSplit DEF IInv
        <2> DEFINE j == [job[p] EXCEPT !.written = @ \ {f}]
                   k == [job[p] EXCEPT !.written = @ \ {f}, !.left = @ \cup {f}]
        <2>6. job' = [job EXCEPT ![p] = j] \/ job' = [job EXCEPT ![p] = k]
            BY <2>1
        <2>7. /\ j.plan = job[p].plan /\ j.seq = job[p].seq
              /\ j.batch = job[p].batch /\ j.at = job[p].at
              /\ k.plan = job[p].plan /\ k.seq = job[p].seq
              /\ k.batch = job[p].batch /\ k.at = job[p].at
            BY <2>3 DEF IdleJob
        <2> HIDE DEF j, k
        <2>8. CASE job' = [job EXCEPT ![p] = j]
            BY <2>2, <2>4, <2>5, <2>7, <2>8, AuditMoves DEF AtWorkStates
        <2>9. CASE job' = [job EXCEPT ![p] = k]
            BY <2>2, <2>4, <2>5, <2>7, <2>9, AuditMoves DEF AtWorkStates
        <2> QED BY <2>6, <2>8, <2>9
    <1>3. CASE RolledBack(p)
        <2>1. disk' = disk /\ job' = job /\ pc' = [pc EXCEPT ![p] = "release"]
            BY <1>3 DEF RolledBack, Goto
        <2> QED BY <2>1, SameDisk, AuditKeeps DEF AtWorkStates
    <1> QED BY <1>2, <1>3

(* The operator's steps, and no step at all.                               *)
LEMMA AuditOperator ==
    ASSUME IInv, Audit, RemoveLock \/ RemoveResidue \/ UNCHANGED vars
    PROVE  Audit'
    <1>1. PICK n : Store(disk, n)
        BY DEF IInv, Shape
    <1>2. pc' = pc /\ job' = job
        BY DEF RemoveLock, RemoveResidue, vars
    <1>3. disk' = disk \/ disk' = Restrict(disk, DOMAIN disk \ Residue(disk))
        BY DEF RemoveLock, RemoveResidue, vars
    <1>4. Frame(disk, disk')
        <2>1. \A f \in Residue(disk) : f.type # "marker" /\ f \notin Bound(disk)
            BY DEF Residue, Files
        <2>2. Frame(disk, Restrict(disk, DOMAIN disk \ Residue(disk)))
            BY <1>1, <2>1, FrameRemove
        <2> QED BY <1>3, <2>2, SameDisk
    <1> QED BY <1>2, <1>4, AuditFramed

LEMMA AuditStep ==
    ASSUME "marker" \notin LateAt, IInv, Audit, [Next]_vars
    PROVE  Audit'
    <1>1. CASE RemoveLock \/ RemoveResidue \/ UNCHANGED vars
        BY <1>1, AuditOperator
    <1>2. ASSUME NEW p \in Process, Step(p) PROVE Audit'
        <2>1. CASE \E b \in Batches : Acquire(p, b)
            BY <2>1, AuditAcquire
        <2>2. CASE AcquireFails(p) \/ Release(p) \/ Crash(p)
            BY <2>2, AuditEnds
        <2>3. CASE Load(p)
            BY <2>3, AuditLoad
        <2>4. CASE WriteTmp(p)
            BY <2>4, AuditWriteTmp
        <2>5. CASE Rename(p)
            BY <2>5, AuditRename
        <2>6. CASE WriteFails(p)
            BY <2>6, AuditWriteFails
        <2>7. CASE LateFailure(p)
            BY <2>7, AuditLateFailure
        <2>8. CASE Rollback(p) \/ RolledBack(p)
            BY <2>8, AuditRollback
        <2> QED BY <1>2, <2>1, <2>2, <2>3, <2>4, <2>5, <2>6, <2>7, <2>8 DEF Step
    <1> QED BY <1>1, <1>2 DEF Next

LEMMA AuditInitially == Init => Audit
    <1> SUFFICES ASSUME Init PROVE Audit
        OBVIOUS
    <1>1. Store(disk, 0)
        BY DEF Init, Store, Files
    <1>2. LedgerOf(disk) = EmptyLedger /\ Bound(disk) = {}
        BY <1>1, StoreFacts
    <1>3. Backed(disk)
        BY <1>2 DEF Backed, Agrees, EmptyLedger
    <1>4. Planners
        BY DEF Planners, Init
    <1> QED BY <1>3, <1>4 DEF Audit

-----------------------------------------------------------------------------
(* The theorems.  LateFailure after the rename of a marker is excluded: it *)
(* is the one step that does not keep what is committed.                   *)

(* The store has its shape in every reachable state: one lock holder, one  *)
(* point of the commit per process, files named as the store names them.   *)
THEOREM TypeCorrect == "marker" \notin LateAt /\ Spec => []TypeOK
    <1> SUFFICES ASSUME "marker" \notin LateAt PROVE Spec => []TypeOK
        OBVIOUS
    <1>1. IInv /\ [Next]_vars => IInv'
        BY EveryStep DEF Kept
    <1>2. IInv => TypeOK
        BY DEF IInv
    <1> QED BY Initially, <1>1, <1>2, PTL DEF Spec

(* Whatever fails or dies, and wherever: the markers form one chain and    *)
(* what they bind is there as it was bound (collectCommittedState).        *)
THEOREM CommittedStaysIntact == "marker" \notin LateAt /\ Spec => []CommittedIntact
    <1> SUFFICES ASSUME "marker" \notin LateAt PROVE Spec => []CommittedIntact
        OBVIOUS
    <1>1. IInv /\ [Next]_vars => IInv'
        BY EveryStep DEF Kept
    <1>2. IInv => CommittedIntact
        <2> SUFFICES ASSUME IInv PROVE CommittedIntact
            OBVIOUS
        <2>1. PICK n : Store(disk, n)
            BY DEF IInv, Shape
        <2>2. Files(disk, "marker") = Chained(disk) /\ BoundIntact(disk)
            BY <2>1, StoreFacts
        <2>3. \A m \in Files(disk, "marker") :
                  {summaryFile(m.seq), ledgerFile(m.seq)} \subseteq DOMAIN disk[m].files
            BY <2>1, Names DEF Store
        <2> QED BY <2>2, <2>3 DEF CommittedIntact
    <1> QED BY Initially, <1>1, <1>2, PTL DEF Spec

(* What a commit that returned had recorded stays in the ledger for ever   *)
(* (commitObservations: the merge keeps every entry).                      *)
THEOREM AcknowledgedForever == "marker" \notin LateAt /\ Spec => []AcknowledgedKept
    <1> SUFFICES ASSUME "marker" \notin LateAt PROVE Spec => []AcknowledgedKept
        OBVIOUS
    <1>1. IInv /\ [Next]_vars => IInv'
        BY EveryStep DEF Kept
    <1>2. IInv => AcknowledgedKept
        BY DEF IInv
    <1> QED BY Initially, <1>1, <1>2, PTL DEF Spec

(* A commit that throws leaves the store as it found it, apart from        *)
(* exactly the files whose unlink failed and the one that was renamed when *)
(* the check of the directory threw; those are bound by no marker          *)
(* (commitObservations, writeJsonAtomically).                              *)
THEOREM FailuresAreUndone == "marker" \notin LateAt /\ Spec => []FailedCommitUndone
    <1> SUFFICES ASSUME "marker" \notin LateAt PROVE Spec => []FailedCommitUndone
        OBVIOUS
    <1>1. IInv /\ [Next]_vars => IInv'
        BY EveryStep DEF Kept
    <1>2. IInv => FailedCommitUndone
        BY DEF IInv, Mids, Mid, FailedCommitUndone
    <1> QED BY Initially, <1>1, <1>2, PTL DEF Spec

(* Every store that loads passes its own validation: what a commit leaves  *)
(* in the ledger, the files and the summaries, old and new, says the same  *)
(* (validateOutputRoot).                                                   *)
THEOREM CommitsValidate == "marker" \notin LateAt /\ Spec => []CommitValidates
    <1> SUFFICES ASSUME "marker" \notin LateAt PROVE Spec => []CommitValidates
        OBVIOUS
    <1>1. IInv /\ Audit /\ [Next]_vars => IInv' /\ Audit'
        BY EveryStep, AuditStep DEF Kept
    <1>2. IInv /\ Audit => CommitValidates
        <2> SUFFICES ASSUME Audit, Loads(disk)
                     PROVE  /\ LedgerBacked
                            /\ \A n \in Files(disk, "summary") :
                                  /\ ValidSummary(disk[n])
                                  /\ \A i \in DOMAIN disk[n].rows :
                                        RowBacked(disk[n].rows[i], LedgerOf(disk))
            BY DEF CommitValidates
        <2>1. \A f \in DOMAIN disk : f.type # "marker" => f \in Bound(disk)
            BY DEF Loads, Residue, Files
        <2>2. /\ Files(disk, "artifact") \subseteq Bound(disk)
              /\ Files(disk, "quarantine") \subseteq Bound(disk)
              /\ Files(disk, "summary") \subseteq Bound(disk)
            BY <2>1 DEF Files
        <2>3. Agrees(disk, Bound(disk), LedgerOf(disk))
            BY DEF Audit, Backed
        <2>4. LedgerBacked
            BY <2>2, <2>3 DEF Agrees, LedgerBacked, Files
        <2>5. ASSUME NEW n \in Files(disk, "summary")
              PROVE  /\ ValidSummary(disk[n])
                     /\ \A i \in DOMAIN disk[n].rows :
                           RowBacked(disk[n].rows[i], LedgerOf(disk))
            <3>1. n \in Bound(disk) /\ n.type = "summary"
                BY <2>2 DEF Files
            <3> QED BY <2>3, <3>1 DEF Agrees
        <2> QED BY <2>4, <2>5
    <1> QED BY Initially, AuditInitially, <1>1, <1>2, PTL DEF Spec

(* For its readers the store is one ledger that grows by whole commits:    *)
(* every step of a commit, a rollback, a crash or the operator is a step   *)
(* of CommittedLedger or changes nothing there.                            *)
THEOREM ImplementsLedger == "marker" \notin LateAt /\ Spec => ImplementsCommittedLedger
    <1> SUFFICES ASSUME "marker" \notin LateAt PROVE Spec => ImplementsCommittedLedger
        OBVIOUS
    <1>1. IInv /\ [Next]_vars => IInv' /\ Progress
        BY EveryStep DEF Kept
    <1>2. Init => Committed!Init
        <2> SUFFICES ASSUME Init PROVE Committed!Init
            OBVIOUS
        <2>1. Store(disk, 0)
            BY DEF Init, Store, Files
        <2>2. LatestSeq(disk) = 0 /\ LedgerOf(disk) = EmptyLedger
            BY <2>1, StoreFacts
        <2> QED BY <2>2 DEF Committed!Init, EmptyLedger
    <1>3. Progress => [Committed!Commit]_(Committed!vars)
        BY DEF Progress, Committed!Commit, Committed!vars, Committed!SameObservation,
               Committed!SameQuarantine, Extends
    <1> QED BY Initially, <1>1, <1>2, <1>3, PTL
            DEF Spec, ImplementsCommittedLedger, Committed!Spec
=============================================================================

------------------------- MODULE FotMobStagingStore -------------------------
(***************************************************************************)
(* The staging store of FotMob details                                     *)
(* (fotmob/FotMobDetailStagingRetention.js): batches of converted results  *)
(* are committed to one directory, file by file, with a marker written     *)
(* last.  Commits run under an exclusive lock file; one that fails unlinks *)
(* what it wrote, one that dies leaves its lock and its files for the      *)
(* operator.                                                               *)
(*                                                                         *)
(* A hash is what it is a hash of.  The marker of a commit binds a summary *)
(* with the time of its attempt; that time stands for the marker's bytes.  *)
(***************************************************************************)
EXTENDS Naturals, Sequences, FiniteSets, Functions

CONSTANTS
    Process,
    Match, Payload, Identity,
    Code,         \* error codes of quarantines and rejections
    Batches,      \* the batches that are staged
    NoLock,
    None,         \* an absent payload or file in a summary row
    LateAt,       \* types of files after whose rename the directory check fails
    MaxStarts,    \* bound: commits that are attempted
    MaxFaults,    \* bound: failing file operations
    MaxCrashes    \* bound: process deaths

(* What the converter hands over: an accepted artifact, or the reason why  *)
(* there is none.                                                          *)
Result == [kind : {"ok"}, match : Match, payload : Payload, identity : Identity]
          \cup [kind : {"quarantined", "rejected"}, match : Match, code : Code]

ASSUME InputAssumption == Batches \subseteq Seq(Result)

ASSUME LockAssumption == NoLock \notin Process

ASSUME BoundAssumption ==
    {MaxStarts, MaxFaults, MaxCrashes} \subseteq Nat

VARIABLES
    disk,    \* the files of the store, by name
    lock,    \* .staging-write.lock: the process that created it, or NoLock
    pc, job, \* where each process is, and the locals of commitObservations
    acked,   \* history: the ledgers of the commits that returned
    starts, crashes, faults

vars == <<disk, lock, pc, job, acked, starts, crashes, faults>>

ArtifactName   == [type : {"artifact"}, match : Match, payload : Payload]
QuarantineName == [type : {"quarantine"}, match : Match, code : Code]
SummaryName    == [type : {"summary"}, seq : Nat \ {0}]
LedgerName     == [type : {"ledger"}, seq : Nat \ {0}]
MarkerName     == [type : {"marker"}, seq : Nat \ {0}]
TmpName        == [type : {"tmp"}, by : Process]

artifactFile(m, v)   == [type |-> "artifact", match |-> m, payload |-> v]
quarantineFile(m, c) == [type |-> "quarantine", match |-> m, code |-> c]
summaryFile(n)       == [type |-> "summary", seq |-> n]
ledgerFile(n)        == [type |-> "ledger", seq |-> n]
markerFile(n)        == [type |-> "marker", seq |-> n]
tmpFile(p)           == [type |-> "tmp", by |-> p]

Put(d, n, doc) == [x \in DOMAIN d \cup {n} |-> IF x = n THEN doc ELSE d[x]]

EmptyLedger == [obs |-> {}, quar |-> {}]

-----------------------------------------------------------------------------
(* collectCommittedState                                                   *)

Files(d, t) == {n \in DOMAIN d : n.type = t}

(* The k-th marker is there and names the marker before it.               *)
Linked(d, k) ==
    /\ markerFile(k) \in DOMAIN d
    /\ d[markerFile(k)].prev = IF k = 1 THEN 0 ELSE d[markerFile(k - 1)].at

(* The markers that form a chain from 1.                                   *)
Chained(d) == {n \in Files(d, "marker") : \A k \in 1 .. n.seq : Linked(d, k)}

(* commit_seq of the latest valid marker.                                  *)
LatestSeq(d) ==
    CHOOSE k \in {0} \cup {n.seq : n \in Chained(d)} :
        \A n \in Chained(d) : n.seq <= k

Bound(d) == UNION {DOMAIN d[n].files : n \in Chained(d)}

(* Everything a valid marker binds is there as it was bound.               *)
BoundIntact(d) ==
    \A n \in Chained(d) : \A f \in DOMAIN d[n].files :
        f \in DOMAIN d /\ d[f] = d[n].files[f]

Residue(d) == (DOMAIN d \ Files(d, "marker")) \ Bound(d)

LedgerOf(d) ==
    LET n == LatestSeq(d) IN
    IF n > 0 /\ ledgerFile(n) \in DOMAIN d THEN d[ledgerFile(n)] ELSE EmptyLedger

(* loadCommittedState goes on only from a store in a committed state.      *)
Loads(d) == Files(d, "marker") \subseteq Chained(d) /\ BoundIntact(d) /\ Residue(d) = {}

-----------------------------------------------------------------------------
(* classifyAgainstStore                                                    *)

Staged(ledger, m) == {o \in ledger.obs : o.match = m}

Classify(r, ledger) ==
    IF r.kind # "ok" THEN r.kind
    ELSE IF \E o \in Staged(ledger, r.match) : o.payload = r.payload
         THEN "ACCEPTED_REPEAT_EXACT"
    ELSE IF \E o \in Staged(ledger, r.match) : o.identity # r.identity
         THEN "REJECTED_IDENTITY_INCONSISTENT"
    ELSE IF Staged(ledger, r.match) # {} THEN "ACCEPTED_REPEAT_EQUIVALENT"
    ELSE "ACCEPTED_NEW"

Fresh == {"ACCEPTED_NEW", "ACCEPTED_REPEAT_EQUIVALENT"}

(* The i-th result brings a snapshot that neither the ledger nor an        *)
(* earlier result of the batch has.                                        *)
BringsArtifact(b, i, ledger) ==
    /\ Classify(b[i], ledger) \in Fresh
    /\ \A k \in 1 .. i - 1 :
           Classify(b[k], ledger) \in Fresh =>
               <<b[k].match, b[k].payload>> # <<b[i].match, b[i].payload>>

(* The final classification: a repetition within the batch is folded.      *)
TerminalState(b, i, ledger) ==
    LET c == Classify(b[i], ledger) IN
    IF c \in Fresh /\ ~BringsArtifact(b, i, ledger) THEN "ACCEPTED_REPEAT_EXACT" ELSE c

(* Evidence of a quarantine is recorded once per match and code.           *)
BringsQuarantine(b, i, ledger) ==
    /\ b[i].kind = "quarantined"
    /\ ~\E q \in ledger.quar : q.match = b[i].match /\ q.code = b[i].code
    /\ \A k \in 1 .. i - 1 :
           b[k].kind = "quarantined" =>
               <<b[k].match, b[k].code>> # <<b[i].match, b[i].code>>

(* The converter takes every artifact for the first of its match.          *)
Converted(r) ==
    [match |-> r.match, payload |-> r.payload, identity |-> r.identity,
     state |-> "ACCEPTED_NEW"]

(* Mutant: the artifact of a new version is not rebuilt. *)
FinalArtifact_AsConverted(r, ledger) == Converted(r)

(* The artifact of a new version is rebuilt with its final state.          *)
FinalArtifact(r, ledger) == [Converted(r) EXCEPT !.state = Classify(r, ledger)]

(* Mutant: the ledger keeps what the converter called the result. *)
Observation_Raw(r, ledger) ==
    [match |-> r.match, payload |-> r.payload, identity |-> r.identity, state |-> r.kind]

(* The entry of the ledger for an artifact.                                *)
Observation(r, ledger) ==
    [match |-> r.match, payload |-> r.payload, identity |-> r.identity,
     state |-> Classify(r, ledger)]

Artifacts(b, ledger) ==
    {FinalArtifact(b[i], ledger) : i \in {k \in DOMAIN b : BringsArtifact(b, k, ledger)}}

NewObservations(b, ledger) ==
    {Observation(b[i], ledger) : i \in {k \in DOMAIN b : BringsArtifact(b, k, ledger)}}

NewQuarantines(b, ledger, at) ==
    {[match |-> b[i].match, code |-> b[i].code, at |-> at] :
        i \in {k \in DOMAIN b : BringsQuarantine(b, k, ledger)}}

(* Mutant: the ledger of a commit starts from nothing. *)
NextLedger_FromNothing(b, ledger, at) ==
    [obs |-> NewObservations(b, ledger), quar |-> NewQuarantines(b, ledger, at)]

(* Mutant: a new version takes the place of the earlier ones. *)
NextLedger_LatestVersion(b, ledger, at) ==
    LET new == NewObservations(b, ledger) IN
    [obs  |-> {o \in ledger.obs : ~\E x \in new : x.match = o.match} \cup new,
     quar |-> ledger.quar \cup NewQuarantines(b, ledger, at)]

(* The merge keeps every entry.                                            *)
NextLedger(b, ledger, at) ==
    [obs  |-> ledger.obs \cup NewObservations(b, ledger),
     quar |-> ledger.quar \cup NewQuarantines(b, ledger, at)]

(* A row of the summary: what buildSummary says of one result.             *)
Row(b, i, ledger) ==
    [match   |-> b[i].match,
     state   |-> TerminalState(b, i, ledger),
     payload |-> IF b[i].kind = "ok" THEN b[i].payload ELSE None,
     file    |-> BringsArtifact(b, i, ledger),
     code    |-> IF b[i].kind = "ok" THEN None ELSE b[i].code]

(* The rows are told apart without their code.                             *)
RowKey(r) == <<r.match, r.payload, r.state, r.file>>

Summary(b, ledger, at) == [at |-> at, rows |-> [i \in DOMAIN b |-> Row(b, i, ledger)]]

(* validateSummaryDoc, as far as it can fail: no two rows are alike.       *)
ValidSummary(s) ==
    \A i, k \in DOMAIN s.rows : RowKey(s.rows[i]) = RowKey(s.rows[k]) => i = k

(* The files of a commit, without its marker.                              *)
Documents(b, ledger, seq, at) ==
    LET arts == Artifacts(b, ledger)
        quar == NewQuarantines(b, ledger, at)
        observed == {artifactFile(a.match, a.payload) : a \in arts}
        evidence == {quarantineFile(q.match, q.code) : q \in quar}
    IN [n \in observed \cup evidence \cup {summaryFile(seq), ledgerFile(seq)} |->
          CASE n.type = "artifact"   -> CHOOSE a \in arts : artifactFile(a.match, a.payload) = n
            [] n.type = "quarantine" -> [match |-> n.match, code |-> n.code, at |-> at]
            [] n.type = "summary"    -> Summary(b, ledger, at)
            [] n.type = "ledger"     -> NextLedger(b, ledger, at)]

(* The commit marker binds every file of the commit and the marker before. *)
Marker(d, docs, at) ==
    [at |-> at, files |-> docs,
     prev |-> IF LatestSeq(d) = 0 THEN 0 ELSE d[markerFile(LatestSeq(d))].at]

-----------------------------------------------------------------------------
(* A commit                                                                *)

(* What the rollback knows is in written; left is a history of the files   *)
(* that stay although the commit fails: one renamed before the error was   *)
(* thrown, one whose unlink failed.                                        *)
IdleJob == [batch |-> <<>>, at |-> 0, base |-> <<>>, plan |-> <<>>, seq |-> 0,
            written |-> {}, left |-> {}, committed |-> FALSE]

Init ==
    /\ disk = <<>>
    /\ lock = NoLock
    /\ pc = [p \in Process |-> "idle"]
    /\ job = [p \in Process |-> IdleJob]
    /\ acked = {}
    /\ starts = 0 /\ crashes = 0 /\ faults = 0

Goto(p, l) == pc' = [pc EXCEPT ![p] = l]

Fault == faults < MaxFaults /\ faults' = faults + 1

(* withStoreLock.  A lock that is there refuses the commit, whether its    *)
(* holder lives or not, and nothing changes.                               *)
Acquire(p, b) ==
    /\ pc[p] = "idle"
    /\ starts < MaxStarts
    /\ lock = NoLock
    /\ lock' = p
    /\ job' = [job EXCEPT ![p] = [IdleJob EXCEPT !.batch = b, !.at = starts + 1]]
    /\ starts' = starts + 1
    /\ Goto(p, "load")
    /\ UNCHANGED <<disk, acked, crashes, faults>>

(* The process id could not be written: the lock is unlinked again, if     *)
(* that succeeds.                                                          *)
AcquireFails(p) ==
    /\ pc[p] = "load"
    /\ Fault
    /\ lock' \in {NoLock, lock}
    /\ job' = [job EXCEPT ![p] = IdleJob]
    /\ Goto(p, "idle")
    /\ UNCHANGED <<disk, acked, starts, crashes>>

(* Everything up to the first write: nothing is written for a store that   *)
(* is not in a committed state, nor for a summary that would not validate. *)
Load(p) ==
    LET j == job[p]
        ledger == LedgerOf(disk)
        seq == LatestSeq(disk) + 1
        docs == Documents(j.batch, ledger, seq, j.at)
    IN
    /\ pc[p] = "load"
    /\ IF Loads(disk) /\ ValidSummary(docs[summaryFile(seq)])
       THEN /\ job' = [job EXCEPT ![p].base = disk, ![p].seq = seq,
                                  ![p].plan = Put(docs, markerFile(seq),
                                                  Marker(disk, docs, j.at))]
            /\ Goto(p, "write")
       ELSE /\ job' = [job EXCEPT ![p].base = disk]
            /\ Goto(p, "release")
    /\ UNCHANGED <<disk, lock, acked, starts, crashes, faults>>

(* Mutant: the marker is written before the ledger it binds. *)
Rank_MarkerEarly(n) == CASE n.type \in {"artifact", "quarantine"} -> 1
                         [] n.type \in {"summary", "marker"}      -> 2
                         [] OTHER                                 -> 3

(* The order of the write plan.                                            *)
Rank(n) == CASE n.type = "artifact"   -> 1
             [] n.type = "quarantine" -> 2
             [] n.type = "summary"    -> 3
             [] n.type = "ledger"     -> 4
             [] OTHER                 -> 5

(* What is there already is not written again.                             *)
Todo(p) == {n \in DOMAIN job[p].plan : n \notin DOMAIN disk}

Reached(p, n) == \A f \in Todo(p) : Rank(n) <= Rank(f)

(* A file that is there with other contents stops the commit.              *)
Conflict(p) ==
    \E n \in DOMAIN job[p].plan \cap DOMAIN disk :
        Reached(p, n) /\ disk[n] # job[p].plan[n]

(* writeJsonAtomically: the temporary file, then the rename.               *)
WriteTmp(p) ==
    /\ pc[p] = "write"
    /\ disk' = IF Conflict(p) THEN disk ELSE Put(disk, tmpFile(p), None)
    /\ Goto(p, IF Conflict(p) THEN "rollback" ELSE "rename")
    /\ UNCHANGED <<lock, job, acked, starts, crashes, faults>>

Renamed(p, n) == Put(Restrict(disk, DOMAIN disk \ {tmpFile(p)}), n, job[p].plan[n])

(* Mutant: the rollback forgets the summary. *)
Noted_Evidence(n) == IF n.type \in {"marker", "summary"} THEN {} ELSE {n}

(* What the rollback would unlink: not the marker, which comes last.       *)
Noted(n) == IF n.type = "marker" THEN {} ELSE {n}

Rename(p) ==
    /\ pc[p] = "rename"
    /\ \E n \in DOMAIN job[p].plan :
         /\ n \in Todo(p) /\ Reached(p, n)
         /\ disk' = Renamed(p, n)
         /\ job' = [job EXCEPT ![p].written = @ \cup Noted(n),
                               ![p].committed = (n.type = "marker")]
         /\ Goto(p, IF n.type = "marker" THEN "release" ELSE "write")
    /\ UNCHANGED <<lock, acked, starts, crashes, faults>>

(* An error before the rename; the temporary file is unlinked if that      *)
(* succeeds.                                                               *)
WriteFails(p) ==
    /\ pc[p] \in {"write", "rename"}
    /\ Fault
    /\ \/ /\ disk' = Restrict(disk, DOMAIN disk \ {tmpFile(p)})
          /\ job' = job
       \/ /\ pc[p] = "rename"
          /\ disk' = disk
          /\ job' = [job EXCEPT ![p].left = @ \cup {tmpFile(p)}]
    /\ Goto(p, "rollback")
    /\ UNCHANGED <<lock, acked, starts, crashes>>

(* An error after the rename: the directory cannot be identified again.    *)
(* The file is in its place and the rollback does not know it.             *)
LateFailure(p) ==
    /\ pc[p] = "rename"
    /\ Fault
    /\ \E n \in DOMAIN job[p].plan :
         /\ n.type \in LateAt
         /\ n \in Todo(p) /\ Reached(p, n)
         /\ disk' = Renamed(p, n)
         /\ job' = [job EXCEPT ![p].left = @ \cup {n}]
    /\ Goto(p, "rollback")
    /\ UNCHANGED <<lock, acked, starts, crashes>>

(* One unlink of the rollback, best effort.                                *)
Rollback(p) ==
    /\ pc[p] = "rollback"
    /\ \E n \in job[p].written :
         /\ \/ /\ disk' = Restrict(disk, DOMAIN disk \ {n})
               /\ job' = [job EXCEPT ![p].written = @ \ {n}]
               /\ faults' = faults
            \/ /\ Fault
               /\ disk' = disk
               /\ job' = [job EXCEPT ![p].written = @ \ {n}, ![p].left = @ \cup {n}]
    /\ UNCHANGED <<lock, pc, acked, starts, crashes>>

RolledBack(p) ==
    /\ pc[p] = "rollback"
    /\ job[p].written = {}
    /\ Goto(p, "release")
    /\ UNCHANGED <<disk, lock, job, acked, starts, crashes, faults>>

(* The finally block unlinks the lock, best effort; then the call returns, *)
(* or throws.                                                              *)
Release(p) ==
    /\ pc[p] = "release"
    /\ \/ lock' = NoLock /\ faults' = faults
       \/ lock' = lock /\ Fault
    /\ acked' = IF job[p].committed
                THEN acked \cup {job[p].plan[ledgerFile(job[p].seq)]} ELSE acked
    /\ job' = [job EXCEPT ![p] = IdleJob]
    /\ Goto(p, "idle")
    /\ UNCHANGED <<disk, starts, crashes>>

Crash(p) ==
    /\ pc[p] # "idle"
    /\ crashes < MaxCrashes
    /\ crashes' = crashes + 1
    /\ job' = [job EXCEPT ![p] = IdleJob]
    /\ Goto(p, "idle")
    /\ UNCHANGED <<disk, lock, acked, starts, faults>>

-----------------------------------------------------------------------------
(* The operator, after making sure that no commit is running.              *)

Quiet == \A p \in Process : pc[p] = "idle"

RemoveLock ==
    /\ Quiet
    /\ lock # NoLock
    /\ lock' = NoLock
    /\ UNCHANGED <<disk, pc, job, acked, starts, crashes, faults>>

RemoveResidue ==
    /\ Quiet
    /\ Residue(disk) # {}
    /\ disk' = Restrict(disk, DOMAIN disk \ Residue(disk))
    /\ UNCHANGED <<lock, pc, job, acked, starts, crashes, faults>>

Step(p) ==
    \/ \E b \in Batches : Acquire(p, b)
    \/ AcquireFails(p) \/ Load(p)
    \/ WriteTmp(p) \/ Rename(p) \/ WriteFails(p) \/ LateFailure(p)
    \/ Rollback(p) \/ RolledBack(p) \/ Release(p) \/ Crash(p)

Next == (\E p \in Process : Step(p)) \/ RemoveLock \/ RemoveResidue

Spec == Init /\ [][Next]_vars

-----------------------------------------------------------------------------
Observations == [match : Match, payload : Payload, identity : Identity, state : Fresh]
Evidence     == [match : Match, code : Code, at : Nat]

Ledger == [obs : SUBSET Observations, quar : SUBSET Evidence]

(* The lock has one holder, every process is at one point of its commit    *)
(* (withStoreLock, commitObservations), the files have the names of the    *)
(* store and a ledger file holds a ledger.                                 *)
TypeOK ==
    /\ \A n \in DOMAIN disk :
          /\ n \in ArtifactName \cup QuarantineName \cup SummaryName
                    \cup LedgerName \cup MarkerName \cup TmpName
          /\ n.type = "ledger" => disk[n] \in Ledger
    /\ lock \in Process \cup {NoLock}
    /\ pc \in [Process -> {"idle", "load", "write", "rename", "rollback", "release"}]
    /\ \A p \in Process :
          /\ job[p].batch \in Batches \cup {<<>>}
          /\ job[p].written \subseteq DOMAIN job[p].plan
    /\ acked \subseteq Ledger
    /\ starts \in 0 .. MaxStarts /\ crashes \in 0 .. MaxCrashes
    /\ faults \in 0 .. MaxFaults

(* "The old committed state stays valid": at every moment, also between    *)
(* two files of a commit, in its rollback and after a crash, the markers   *)
(* form one chain and everything they bind is there as it was bound.       *)
CommittedIntact ==
    /\ Files(disk, "marker") = Chained(disk)
    /\ BoundIntact(disk)
    /\ \A n \in Chained(disk) :
          {summaryFile(n.seq), ledgerFile(n.seq)} \subseteq DOMAIN disk[n].files

(* What a commit that returned had recorded is in the ledger for ever,     *)
(* whatever later commits, rollbacks, crashes and the operator do.         *)
AcknowledgedKept ==
    \A l \in acked : /\ l.obs \subseteq LedgerOf(disk).obs
                     /\ l.quar \subseteq LedgerOf(disk).quar

(* "A commit can never succeed while producing a store its own validator   *)
(* rejects" (validateOutputRoot): in a store without residue the ledger,   *)
(* the artifacts, the quarantine files and every summary, the old ones     *)
(* included, say the same.                                                 *)
LedgerBacked ==
    LET ledger == LedgerOf(disk) IN
    /\ \A o \in ledger.obs : /\ artifactFile(o.match, o.payload) \in Bound(disk)
                             /\ disk[artifactFile(o.match, o.payload)] = o
    /\ \A q \in ledger.quar : /\ quarantineFile(q.match, q.code) \in Bound(disk)
                              /\ disk[quarantineFile(q.match, q.code)] = q
    /\ \A n \in Files(disk, "artifact") : disk[n] \in ledger.obs
    /\ \A n \in Files(disk, "quarantine") : disk[n] \in ledger.quar

RowBacked(r, ledger) ==
    /\ r.file => \E o \in ledger.obs : /\ o.match = r.match /\ o.payload = r.payload
                                      /\ o.state = r.state
    /\ ~r.file => r.state \notin Fresh
    /\ r.state = "ACCEPTED_REPEAT_EXACT" =>
           \E o \in ledger.obs : o.match = r.match /\ o.payload = r.payload
    /\ r.state = "quarantined" =>
           \E q \in ledger.quar : q.match = r.match /\ q.code = r.code

CommitValidates ==
    Loads(disk) =>
        /\ LedgerBacked
        /\ \A n \in Files(disk, "summary") :
              /\ ValidSummary(disk[n])
              /\ \A i \in DOMAIN disk[n].rows : RowBacked(disk[n].rows[i], LedgerOf(disk))

(* What "a failed commit removes the files it wrote" comes to: a commit    *)
(* that throws leaves the store byte for byte as it found it, except for   *)
(* exactly the files whose unlink failed in its cleanup and the one that   *)
(* was renamed when the check of the directory threw (writeJsonAtomically, *)
(* the comment does not foresee it).  Those are residue: no marker binds   *)
(* them, so that no reader takes them for data.                            *)
FailedCommitUndone ==
    \A p \in Process :
        pc[p] = "release" /\ ~job[p].committed =>
            /\ Restrict(disk, DOMAIN disk \ job[p].left) = job[p].base
            /\ job[p].left \subseteq Residue(disk)

(* For its readers the store is one ledger that grows by whole batches:    *)
(* the files of a commit count from the rename of its marker on, together. *)
Committed == INSTANCE CommittedLedger
    WITH ledger <- LedgerOf(disk), commits <- LatestSeq(disk)

ImplementsCommittedLedger == Committed!Spec
=============================================================================

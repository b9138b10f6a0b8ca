-------------------------- MODULE AtomicPublisher --------------------------
(***************************************************************************)
(* The market-evidence transaction authority: processes that open a        *)
(* snapshot of the committed directory, build a candidate transaction      *)
(* against it and publish the candidate under the store's writer lock      *)
(* (market_evidence/atomicPublisher.js, authorityReader.js and             *)
(* prospectiveBatch.js).                                                   *)
(*                                                                         *)
(* A transaction's identity hashes its content and its parent's identity,  *)
(* so an identity is represented by the history it commits to: the         *)
(* sequence of entries from the root to the transaction.  Its parent is    *)
(* the Front of the sequence and <<>> is the empty authority.              *)
(***************************************************************************)
EXTENDS Integers, FiniteSets, Sequences, SequencesExt

CONSTANTS
    Writer,           \* publishing processes
    Batch,            \* capture receipts with their RAW payload and versions
    Item,             \* decisions, observations and registry entries
    KeyOf,            \* Batch -> its logical_batch_key
    CaptureOf,        \* Batch -> its provider and capture_id
    SourceOf,         \* Batch -> its receipt and RAW hashes
    Items,            \* Batch -> the items its payload resolves to
    EvidenceAt,       \* Batch -> the latest governed evidence time
    CreatedAt,        \* STORE.json authority_created_at
    ClockFloor,       \* bound: the earliest time the wall clock may show
    MaxClock,         \* bound: the latest time the wall clock may show
    MaxReadRetries,   \* maxRetries of openMarketEvidenceAuthoritySnapshot
    Faults,           \* the I/O failures that may happen
    MaxFaults,        \* bound: number of I/O failures
    MaxCrashes,       \* bound: number of process crashes
    MaxPowerLosses,   \* bound: number of power losses
    MaxCalls,         \* bound: number of calls the writers make
    Free, Stale       \* the lock file is absent / was left by nobody alive

FaultKinds == {"lockSetup", "stage", "rename", "sync", "reader", "release"}

ASSUME BatchAssumption ==
    /\ Batch # {}
    /\ Items \in [Batch -> SUBSET Item]
    /\ EvidenceAt \in [Batch -> Int]
    /\ \A a, b \in Batch : KeyOf[a] = KeyOf[b] => CaptureOf[a] = CaptureOf[b]

ASSUME ClockAssumption ==
    /\ {CreatedAt, ClockFloor, MaxClock} \subseteq Int
    /\ ClockFloor <= CreatedAt
    /\ CreatedAt <= MaxClock

ASSUME BoundAssumption ==
    /\ {MaxReadRetries, MaxFaults, MaxCrashes, MaxPowerLosses, MaxCalls}
          \subseteq Nat
    /\ Faults \subseteq FaultKinds

ASSUME LockAssumption == Free \notin Writer /\ Stale \notin Writer /\ Free # Stale

VARIABLES
    committed,  \* identities of the packages in committed/
    staging,    \* identities of the packages left in .staging/
    durable,    \* length of the history the last directory fsync covered
    lock,       \* .writer-lock: Free, the writer holding it, or Stale
    clock,      \* Date.now()
    pc,         \* where each writer is
    cand,       \* the candidate transaction of each writer
    seen,       \* the committed listing a snapshot read started from
    tries,      \* repeated listings of the current snapshot read
    tx,         \* publicationCandidate: its identity, <<>> while null
    renamed,    \* possibleRename
    outcome,    \* the identity in `outcome`, <<>> while null
    verdict,    \* pendingError, and at the end what the caller was told
    acked,      \* history: identities reported COMMITTED to a caller
    unsynced,   \* history: identities renamed and not synced by their publisher
    calls, faults, crashes, losses  \* how much of each bound is used up

store == <<committed, staging, durable>>
call  == <<cand, seen, tries, tx, renamed, outcome, verdict>>
used  == <<calls, faults, crashes, losses>>
told  == <<acked, unsynced>>
vars  == <<store, lock, clock, pc, call, told, used>>

Entry == [batch : Batch, delta : SUBSET Item, kt : Int]

Candidate ==
    [batch : Batch, parent : Seq(Entry), delta : SUBSET Item, built : BOOLEAN]

Labels == {"idle", "reading", "acquire", "recheck", "stage", "rename",
           "sync", "verify", "resolve", "release", "done"}

Verdicts == {"none", "COMMITTED", "ERROR", "WRITER_LOCKED",
             "LOGICAL_BATCH_CONFLICT", "STALE_PARENT_TRANSACTION",
             "STAGING_RESIDUE_EXISTS", "COMMIT_OUTCOME_UNKNOWN"}

NoCandidate(b) == [batch |-> b, parent |-> <<>>, delta |-> {}, built |-> FALSE]

(* What the memory of a process that makes no call is taken to hold. *)
Blank == NoCandidate(CHOOSE b \in Batch : TRUE)

-----------------------------------------------------------------------------
(* What authorityReader makes of a set of committed packages. *)

(* The items a history has published. *)
Known(h) == UNION {h[i].delta : i \in 1..Len(h)}

(* Entry i of h is one the reader accepts after the entries before it. *)
ValidEntry(h, i) ==
    /\ h[i].kt >= CreatedAt
    /\ h[i].kt >= EvidenceAt[h[i].batch]
    /\ \A j \in 1..(i - 1) :
          /\ h[j].kt < h[i].kt
          /\ CaptureOf[h[j].batch] = CaptureOf[h[i].batch]
                => SourceOf[h[j].batch] = SourceOf[h[i].batch]
          /\ h[j].delta \cap h[i].delta = {}

ValidHistory(h) == \A i \in 1..Len(h) : ValidEntry(h, i)

(* No orphan, one root, no fork, and every link valid. *)
Readable(C) ==
    /\ \A s \in C : Len(s) = 1 \/ Front(s) \in C
    /\ \A s, t \in C : Len(s) = Len(t) => s = t
    /\ \A s \in C : ValidHistory(s)

(* The head transaction of a readable set, <<>> for the empty one. *)
HeadOf(C) ==
    IF C = {} THEN <<>>
    ELSE CHOOSE s \in C : \A t \in C : Len(t) <= Len(s)

-----------------------------------------------------------------------------
Init ==
    /\ committed = {}
    /\ staging = {}
    /\ durable = 0
    /\ lock = Free
    /\ clock = CreatedAt
    /\ pc = [w \in Writer |-> "idle"]
    /\ cand = [w \in Writer |-> Blank]
    /\ seen = [w \in Writer |-> {}]
    /\ tries = [w \in Writer |-> 0]
    /\ tx = [w \in Writer |-> <<>>]
    /\ renamed = [w \in Writer |-> FALSE]
    /\ outcome = [w \in Writer |-> <<>>]
    /\ verdict = [w \in Writer |-> "none"]
    /\ acked = {}
    /\ unsynced = {}
    /\ calls = 0 /\ faults = 0 /\ crashes = 0 /\ losses = 0

(* The local variables of the writers W start over, with candidate c and   *)
(* listing C.                                                              *)
Fresh(W, c, C) ==
    /\ cand' = [w \in Writer |-> IF w \in W THEN c ELSE cand[w]]
    /\ seen' = [w \in Writer |-> IF w \in W THEN C ELSE seen[w]]
    /\ tries' = [w \in Writer |-> IF w \in W THEN 0 ELSE tries[w]]
    /\ tx' = [w \in Writer |-> IF w \in W THEN <<>> ELSE tx[w]]
    /\ renamed' = [w \in Writer |-> IF w \in W THEN FALSE ELSE renamed[w]]
    /\ outcome' = [w \in Writer |-> IF w \in W THEN <<>> ELSE outcome[w]]
    /\ verdict' = [w \in Writer |-> IF w \in W THEN "none" ELSE verdict[w]]

At(w, label) == pc[w] = label
Goto(w, label) == pc' = [pc EXCEPT ![w] = label]

(* A writer leaves the call, or the locked section, with error v. *)
Answer(w, v) == Goto(w, "done") /\ verdict' = [verdict EXCEPT ![w] = v]
Raise(w, v) == Goto(w, "release") /\ verdict' = [verdict EXCEPT ![w] = v]

(* Failure k happens now. *)
Fault(k) == k \in Faults /\ faults < MaxFaults /\ faults' = faults + 1
NoFault == UNCHANGED faults

-----------------------------------------------------------------------------
(* Opening the snapshot and building the candidate, without any lock. *)

Begin(w, b) ==
    /\ pc[w] \in {"idle", "done"}
    /\ calls < MaxCalls
    /\ calls' = calls + 1
    /\ Goto(w, "reading")
    /\ Fresh({w}, NoCandidate(b), committed)
    /\ UNCHANGED <<store, lock, clock, told, faults, crashes, losses>>

(* A reader throws on what it sees, or on an I/O error. *)
ReaderThrows(C) == (~Readable(C) /\ NoFault) \/ Fault("reader")

ReadThrows(w) ==
    /\ At(w, "reading")
    /\ ReaderThrows(seen[w])
    /\ Answer(w, "ERROR")
    /\ seen' = [seen EXCEPT ![w] = {}]
    /\ tries' = [tries EXCEPT ![w] = 0]
    /\ UNCHANGED <<store, lock, clock, cand, tx, renamed, outcome, told,
                   calls, crashes, losses>>

(* Mutant: one listing too many. *)
MayReread_OneMore(n) == n <= MaxReadRetries

MayReread(n) == n < MaxReadRetries

(* The second listing differs from the first: start over, or give up. *)
Reread(w) ==
    /\ At(w, "reading")
    /\ Readable(seen[w])
    /\ seen[w] # committed
    /\ IF MayReread(tries[w])
       THEN /\ seen' = [seen EXCEPT ![w] = committed]
            /\ tries' = [tries EXCEPT ![w] = @ + 1]
            /\ UNCHANGED <<pc, verdict>>
       ELSE Answer(w, "ERROR") /\ UNCHANGED <<seen, tries>>
    /\ UNCHANGED <<store, lock, clock, cand, tx, renamed, outcome, told, used>>

(* A capture is bound for ever to the source that first published it. *)
CaptureTaken(h, b) ==
    \E i \in 1..Len(h) : /\ CaptureOf[h[i].batch] = CaptureOf[b]
                         /\ SourceOf[h[i].batch] # SourceOf[b]

(* The items of b its parent does not have yet. *)
DeltaFor(h, b) == Items[b] \ Known(h)

Build(w) ==
    /\ At(w, "reading")
    /\ Readable(seen[w])
    /\ seen[w] = committed
    /\ seen' = [seen EXCEPT ![w] = {}]
    /\ tries' = [tries EXCEPT ![w] = 0]
    /\ LET b == cand[w].batch
           h == HeadOf(committed)
       IN IF CaptureTaken(h, b)
          THEN Answer(w, "ERROR") /\ UNCHANGED cand
          ELSE /\ cand' = [cand EXCEPT ![w] =
                     [batch |-> b, parent |-> h, delta |-> DeltaFor(h, b),
                      built |-> TRUE]]
               /\ Goto(w, "acquire")
               /\ UNCHANGED verdict
    /\ UNCHANGED <<store, lock, clock, tx, renamed, outcome, told, used>>

(* publish is called again with the candidate of an earlier call. *)
Republish(w) ==
    /\ At(w, "done")
    /\ cand[w].built
    /\ calls < MaxCalls
    /\ calls' = calls + 1
    /\ Goto(w, "acquire")
    /\ Fresh({w}, cand[w], {})
    /\ UNCHANGED <<store, lock, clock, told, faults, crashes, losses>>

-----------------------------------------------------------------------------
(* The writer lock. *)

(* Mutant: a lock that stays for long is taken over. *)
LockAvailable_Takeover == lock \in Writer \cup {Free}

LockAvailable == lock = Free

Acquire(w) ==
    /\ At(w, "acquire")
    /\ LockAvailable
    /\ lock' = w
    /\ Goto(w, "recheck")
    /\ UNCHANGED <<store, clock, call, told, used>>

(* The lock file was created, then writing or syncing it failed: the error *)
(* reaches the caller and the file stays.                                  *)
AcquireSetupFails(w) ==
    /\ At(w, "acquire")
    /\ LockAvailable
    /\ Fault("lockSetup")
    /\ lock' = Stale
    /\ Answer(w, "ERROR")
    /\ UNCHANGED <<store, clock, cand, seen, tries, tx, renamed, outcome,
                   told, calls, crashes, losses>>

(* Mutant: the wait has no deadline. *)
DeadlinePasses_Never == FALSE

(* The five-second deadline passes while the file exists. *)
DeadlinePasses == ~LockAvailable

AcquireTimesOut(w) ==
    /\ At(w, "acquire")
    /\ DeadlinePasses
    /\ Answer(w, "WRITER_LOCKED")
    /\ UNCHANGED <<store, lock, clock, cand, seen, tries, tx, renamed,
                   outcome, told, used>>

-----------------------------------------------------------------------------
(* The locked section: recheck, finalize, stage, rename, sync, verify. *)

locked == <<lock, clock, cand, seen, tries, acked, calls, crashes, losses>>
within == <<locked, unsynced>>

RecheckThrows(w) ==
    /\ At(w, "recheck")
    /\ ReaderThrows(committed)
    /\ Raise(w, "ERROR")
    /\ UNCHANGED <<store, tx, renamed, outcome, within>>

(* Positions of the head history that hold batch b's logical key. *)
SameLogical(h, b) == {i \in 1..Len(h) : KeyOf[h[i].batch] = KeyOf[b]}

(* Mutant: the sources are not compared. *)
IsRetry_AnySource(h, i, c) ==
    \/ /\ h[i].delta = c.delta
       /\ Known(SubSeq(h, 1, i - 1)) = Known(c.parent)
    \/ c.delta = {}

(* Entry i of h is what candidate c asks for: the same source, and either  *)
(* the same content on the same base state or nothing left to add.         *)
IsRetry(h, i, c) ==
    /\ SourceOf[h[i].batch] = SourceOf[c.batch]
    /\ \/ /\ h[i].delta = c.delta
          /\ Known(SubSeq(h, 1, i - 1)) = Known(c.parent)
       \/ c.delta = {}

(* The logical batch is committed already: reuse that transaction, or      *)
(* refuse a conflicting one.  Nothing is written.                          *)
Reuse(w) ==
    /\ At(w, "recheck")
    /\ Readable(committed)
    /\ LET h == HeadOf(committed) IN
       \E i \in SameLogical(h, cand[w].batch) :
          IF IsRetry(h, i, cand[w])
          THEN /\ outcome' = [outcome EXCEPT ![w] = SubSeq(h, 1, i)]
               /\ Goto(w, "release")
               /\ UNCHANGED verdict
          ELSE Raise(w, "LOGICAL_BATCH_CONFLICT") /\ UNCHANGED outcome
    /\ UNCHANGED <<store, tx, renamed, faults, within>>

(* Mutant: the parent is not rechecked under the lock. *)
ParentIsCurrent_Unchecked(c) == TRUE

ParentIsCurrent(c) == c.parent = HeadOf(committed)

NewBatch(w) ==
    /\ At(w, "recheck")
    /\ Readable(committed)
    /\ SameLogical(HeadOf(committed), cand[w].batch) = {}

RejectParent(w) ==
    /\ NewBatch(w)
    /\ ~ParentIsCurrent(cand[w])
    /\ Raise(w, "STALE_PARENT_TRANSACTION")
    /\ UNCHANGED <<store, tx, renamed, outcome, faults, within>>

(* The publisher's clock shows a time before the captured evidence. *)
RejectClock(w) ==
    /\ NewBatch(w)
    /\ ParentIsCurrent(cand[w])
    /\ clock < EvidenceAt[cand[w].batch]
    /\ Raise(w, "ERROR")
    /\ UNCHANGED <<store, tx, renamed, outcome, faults, within>>

(* Mutant: the time is the wall clock's, whatever the parent's is. *)
KnowledgeTime_WallClock(h) == clock

(* The publisher-owned time of a transaction with parent history h. *)
KnowledgeTime(h) ==
    IF h # <<>> /\ clock <= h[Len(h)].kt THEN h[Len(h)].kt + 1 ELSE clock

Finalized(c) ==
    Append(c.parent,
           [batch |-> c.batch, delta |-> c.delta, kt |-> KnowledgeTime(c.parent)])

Finalize(w) ==
    /\ NewBatch(w)
    /\ ParentIsCurrent(cand[w])
    /\ clock >= EvidenceAt[cand[w].batch]
    /\ tx' = [tx EXCEPT ![w] = Finalized(cand[w])]
    /\ IF Finalized(cand[w]) \in committed \cup staging
       THEN Raise(w, "STAGING_RESIDUE_EXISTS")
       ELSE Goto(w, "stage") /\ UNCHANGED verdict
    /\ UNCHANGED <<store, renamed, outcome, faults, within>>

Stage(w) ==
    /\ At(w, "stage")
    /\ staging' = staging \cup {tx[w]}
    /\ Goto(w, "rename")
    /\ UNCHANGED <<committed, durable, tx, renamed, outcome, verdict, faults, within>>

(* A write, fsync or reopen of the staged package fails; nothing removes   *)
(* what was written.                                                       *)
StageFails(w) ==
    /\ At(w, "stage")
    /\ Fault("stage")
    /\ staging' \in {staging, staging \cup {tx[w]}}
    /\ Raise(w, "ERROR")
    /\ UNCHANGED <<committed, durable, tx, renamed, outcome, within>>

Move(w) ==
    /\ committed' = committed \cup {tx[w]}
    /\ staging' = staging \ {tx[w]}

(* w leaves the window between the rename and the fsync without the fsync. *)
LeavesUnsynced(w) == unsynced' = unsynced \cup {tx[w]}

Rename(w) ==
    /\ At(w, "rename")
    /\ Move(w)
    /\ renamed' = [renamed EXCEPT ![w] = TRUE]
    /\ Goto(w, "sync")
    /\ UNCHANGED <<durable, tx, outcome, verdict, faults, within>>

(* rename reports an error, which says nothing of whether it was done. *)
RenameErrors(w) ==
    /\ At(w, "rename")
    /\ Fault("rename")
    /\ \/ Move(w) /\ LeavesUnsynced(w)
       \/ UNCHANGED <<committed, staging, unsynced>>
    /\ Goto(w, "resolve")
    /\ UNCHANGED <<durable, tx, renamed, outcome, verdict, locked>>

(* Mutant: another directory is synced. *)
SyncedLength_Elsewhere == durable

(* What fsync of the committed directory makes durable. *)
SyncedLength == Len(HeadOf(committed))

Sync(w) ==
    /\ At(w, "sync")
    /\ durable' = SyncedLength
    /\ unsynced' = unsynced \ committed
    /\ Goto(w, "verify")
    /\ UNCHANGED <<committed, staging, tx, renamed, outcome, verdict, faults, locked>>

SyncFails(w) ==
    /\ At(w, "sync")
    /\ Fault("sync")
    /\ LeavesUnsynced(w)
    /\ Goto(w, "resolve")
    /\ UNCHANGED <<store, tx, renamed, outcome, verdict, locked>>

BecameHead(w) == Readable(committed) /\ HeadOf(committed) = tx[w]

Verify(w) ==
    /\ At(w, "verify")
    /\ BecameHead(w)
    /\ outcome' = [outcome EXCEPT ![w] = tx[w]]
    /\ Goto(w, "release")
    /\ UNCHANGED <<store, tx, renamed, verdict, faults, within>>

VerifyFails(w) ==
    /\ At(w, "verify")
    /\ (~BecameHead(w) /\ NoFault) \/ Fault("reader")
    /\ Raise(w, "COMMIT_OUTCOME_UNKNOWN")
    /\ UNCHANGED <<store, tx, renamed, outcome, within>>

(* A fresh reader decides what a failed rename or fsync came to. *)
Resolve(w) ==
    /\ At(w, "resolve")
    /\ Readable(committed)
    /\ IF HeadOf(committed) = tx[w]
       THEN /\ outcome' = [outcome EXCEPT ![w] = tx[w]]
            /\ renamed' = [renamed EXCEPT ![w] = TRUE]
            /\ Goto(w, "release")
            /\ UNCHANGED verdict
       ELSE Raise(w, "ERROR") /\ UNCHANGED <<outcome, renamed>>
    /\ UNCHANGED <<store, tx, faults, within>>

ResolveFails(w) ==
    /\ At(w, "resolve")
    /\ ReaderThrows(committed)
    /\ Raise(w, "COMMIT_OUTCOME_UNKNOWN")
    /\ UNCHANGED <<store, tx, renamed, outcome, within>>

-----------------------------------------------------------------------------
(* Releasing the lock and answering the caller. *)

Release(w) ==
    /\ At(w, "release")
    /\ lock' = Free
    /\ IF verdict[w] = "none"
       THEN Answer(w, "COMMITTED") /\ acked' = acked \cup {outcome[w]}
       ELSE Goto(w, "done") /\ UNCHANGED <<verdict, acked>>
    /\ UNCHANGED <<store, clock, cand, seen, tries, tx, renamed, outcome, unsynced, used>>

(* The error that replaces the outcome when the release fails. *)
ReleaseError(w) ==
    IF renamed[w] /\ tx[w] # <<>> THEN "COMMIT_OUTCOME_UNKNOWN" ELSE "ERROR"

(* Unlink or the directory fsync failed: the file may be there or not. *)
ReleaseFails(w) ==
    /\ At(w, "release")
    /\ Fault("release")
    /\ lock' \in {Free, Stale}
    /\ Answer(w, ReleaseError(w))
    /\ UNCHANGED <<store, clock, cand, seen, tries, tx, renamed, outcome,
                   told, calls, crashes, losses>>

-----------------------------------------------------------------------------
(* The environment. *)

Busy(w) == pc[w] \notin {"idle", "done"}

(* A process dies; a lock it holds outlives it. *)
Crash(w) ==
    /\ Busy(w)
    /\ crashes < MaxCrashes
    /\ crashes' = crashes + 1
    /\ Goto(w, "idle")
    /\ lock' = IF lock = w THEN Stale ELSE lock
    /\ Fresh({w}, Blank, {})
    /\ IF At(w, "sync") THEN LeavesUnsynced(w) ELSE UNCHANGED unsynced
    /\ UNCHANGED <<store, clock, acked, calls, faults, losses>>

(* The machine loses power.  Renames reach the disk in order (metadata     *)
(* journalling), so what survives is a prefix of the history that holds at *)
(* least what was synced; a lock file and staged packages may be lost.     *)
PowerLoss ==
    /\ losses < MaxPowerLosses
    /\ losses' = losses + 1
    /\ \E n \in durable..Len(HeadOf(committed)) :
          /\ committed' = {s \in committed : Len(s) <= n}
          /\ durable' = n
    /\ unsynced' = unsynced \ committed'
    /\ staging' \in SUBSET staging
    /\ lock' \in IF lock = Free THEN {Free} ELSE {Free, Stale}
    /\ pc' = [w \in Writer |-> "idle"]
    /\ Fresh(Writer, Blank, {})
    /\ UNCHANGED <<clock, acked, calls, faults, crashes>>

(* "Manual recovery": an operator removes a lock nobody holds. *)
OperatorRecovers ==
    /\ lock = Stale
    /\ lock' = Free
    /\ UNCHANGED <<store, clock, pc, call, told, used>>

(* Wall-clock time passes, or the clock is stepped back. *)
Tick ==
    /\ clock < MaxClock
    /\ clock' = clock + 1
    /\ UNCHANGED <<store, lock, pc, call, told, used>>

StepBack ==
    /\ clock' \in ClockFloor..(clock - 1)
    /\ UNCHANGED <<store, lock, pc, call, told, used>>

-----------------------------------------------------------------------------
(* What a live writer does of its own once it has been called. *)
Proceed(w) ==
    \/ ReadThrows(w) \/ Reread(w) \/ Build(w)
    \/ Acquire(w) \/ AcquireTimesOut(w)
    \/ RecheckThrows(w) \/ Reuse(w) \/ RejectParent(w) \/ RejectClock(w)
    \/ Finalize(w) \/ Stage(w) \/ Rename(w) \/ Sync(w)
    \/ Verify(w) \/ VerifyFails(w) \/ Resolve(w) \/ ResolveFails(w)
    \/ Release(w)

Misfortune(w) ==
    \/ AcquireSetupFails(w) \/ StageFails(w) \/ RenameErrors(w)
    \/ SyncFails(w) \/ ReleaseFails(w) \/ Crash(w)

Next ==
    \/ \E w \in Writer :
          \/ \E b \in Batch : Begin(w, b)
          \/ Republish(w)
          \/ Proceed(w)
          \/ Misfortune(w)
    \/ PowerLoss \/ OperatorRecovers \/ Tick \/ StepBack

Spec == Init /\ [][Next]_vars

(* A process that is running keeps running; nothing obliges a caller to    *)
(* call, the operator to recover or a failure to happen.                   *)
FairSpec == Spec /\ \A w \in Writer : WF_vars(Proceed(w))

-----------------------------------------------------------------------------
StoreType ==
    /\ committed \subseteq Seq(Entry)
    /\ staging \subseteq Seq(Entry)
    /\ durable \in Nat
    /\ lock \in Writer \cup {Free, Stale}
    /\ clock \in ClockFloor..MaxClock
    /\ acked \subseteq Seq(Entry)
    /\ unsynced \subseteq Seq(Entry)

CallType ==
    /\ pc \in [Writer -> Labels]
    /\ cand \in [Writer -> Candidate]
    /\ seen \in [Writer -> SUBSET Seq(Entry)]
    /\ tries \in [Writer -> 0..MaxReadRetries]
    /\ tx \in [Writer -> Seq(Entry)]
    /\ renamed \in [Writer -> BOOLEAN]
    /\ outcome \in [Writer -> Seq(Entry)]
    /\ verdict \in [Writer -> Verdicts]

BoundType ==
    /\ calls \in 0..MaxCalls
    /\ faults \in 0..MaxFaults
    /\ crashes \in 0..MaxCrashes
    /\ losses \in 0..MaxPowerLosses

(* Every variable ranges over the values its code counterpart takes; a     *)
(* snapshot read (openMarketEvidenceAuthoritySnapshot) repeats its listing *)
(* at most maxRetries times.                                               *)
TypeOK == StoreType /\ CallType /\ BoundType

(* The locked section of publish. *)
InSection(w) ==
    pc[w] \in {"recheck", "stage", "rename", "sync", "verify", "resolve", "release"}

(* Two writers are never both between acquireLock and release, whatever    *)
(* crashed, timed out or failed before.                                    *)
LockMutualExclusion ==
    \A v, w \in Writer : InSection(v) /\ InSection(w) => v = w

(* The committed directory can always be opened: no publication, failure   *)
(* or crash leaves a fork, an orphan, a knowledge time that does not       *)
(* increase, a rebound capture or an item published twice for the reader   *)
(* (reconstruct) to throw on, which would stop every later publication.    *)
AuthorityReadable == Readable(committed)

(* A logical batch is published at most once, however often and by however *)
(* many processes it is built and published (existingLogicalBatch); the    *)
(* reader itself would accept a second, empty transaction for it.          *)
OnePerLogicalBatch ==
    \A s \in committed : \A i, j \in 1..Len(s) :
       KeyOf[s[i].batch] = KeyOf[s[j].batch] => i = j

(* What a reader finds in the committed directory, at any moment of any    *)
(* publication: one valid history (reconstruct) without a repeated batch.  *)
AuthoritySound == AuthorityReadable /\ OnePerLogicalBatch

(* Writer w's call is being answered with v. *)
Answered(w, v) == Busy(w) /\ pc'[w] = "done" /\ verdict'[w] = v

(* When a caller is told COMMITTED, the transaction it is given is in the  *)
(* authority, was published for its logical batch and from its source, and *)
(* the authority holds every item of its payload (reuse of a committed     *)
(* batch included).                                                        *)
SuccessIsPublished ==
    [][\A w \in Writer : Answered(w, "COMMITTED") =>
         LET h == outcome[w]
             b == cand[w].batch
         IN /\ h \in committed
            /\ KeyOf[h[Len(h)].batch] = KeyOf[b]
            /\ SourceOf[h[Len(h)].batch] = SourceOf[b]
            /\ Items[b] \subseteq Known(HeadOf(committed))]_vars

(* When a caller gets any error other than COMMIT_OUTCOME_UNKNOWN, the     *)
(* transaction it tried to publish is not in the authority (test "all      *)
(* final reader failures after rename produce COMMIT_OUTCOME_UNKNOWN").    *)
HonestFailure ==
    [][\A w \in Writer :
         \A v \in Verdicts \ {"COMMITTED", "COMMIT_OUTCOME_UNKNOWN"} :
            Answered(w, v) => tx[w] \notin committed]_vars

(* What a caller is told is so: COMMITTED means that it is published, any  *)
(* other answer but COMMIT_OUTCOME_UNKNOWN that it is not.                 *)
TruthfulAnswers == SuccessIsPublished /\ HonestFailure

(* The one way to lose a transaction that was reported COMMITTED.  It is    *)
(* in the authority, over power losses and after any failure, unless its   *)
(* own publisher died or failed between the rename and the fsync of the    *)
(* committed directory, or in that fsync, and no later fsync covered it:   *)
(* then resolveAfterRename reads it back, or a retry reuses it             *)
(* (existingLogicalBatch), and the answer is COMMITTED all the same.       *)
LostOnlyIfUnsynced == acked \ committed \subseteq unsynced

(* The store is an append-only history of valid, never repeated            *)
(* transactions to which one publication at a time adds one transaction,   *)
(* and every COMMITTED answer names a transaction of it                    *)
(* (publishProspectiveMarketEvidenceTransaction).                          *)
Authority ==
    INSTANCE TransactionAuthority WITH
        AuthEntry <- [batch : Batch, delta : SUBSET Item,
                      kt : CreatedAt..(MaxClock + Cardinality(Batch))],
        Extends <- LAMBDA h, e :
                      /\ ValidEntry(Append(h, e), Len(h) + 1)
                      /\ SameLogical(h, e.batch) = {}
                      /\ Items[e.batch] \subseteq Known(Append(h, e)),
        MayLose <- MaxPowerLosses > 0,
        chain <- HeadOf(committed),
        reported <- acked

ImplementsAuthority == Authority!Spec

(* A call that got under way is answered, or its process dies: the reader  *)
(* retries a bounded number of times and the lock wait has a deadline.     *)
PublishTerminates == \A w \in Writer : Busy(w) ~> ~Busy(w)
=============================================================================

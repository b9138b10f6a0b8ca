----------------------- MODULE FotMobCaptureRunProofs -----------------------
(***************************************************************************)
(* Proofs about FotMobCaptureRun.                                          *)
(***************************************************************************)
EXTENDS FotMobCaptureRun, TLAPS, FiniteSetTheorems, SequenceTheorems

(* Where a process works on the candidate of its job. *)
OnCandidate(p) ==
    \/ pc[p] \in {"wait", "fetch", "inFlight", "content", "pair", "manifest"}
    \/ pc[p] \in {"verify", "write"} /\ job[p].next \in InsideTry

(* What the control state of a process says about its job.                 *)
JobFits(p) ==
    /\ OnCandidate(p) => job[p].ord \in Ordinal
    /\ pc[p] \in {"verify", "write"} => job[p].next # "none"

TypeInv == TypeOK /\ \A p \in Proc : JobFits(p)

(* Where a process goes by having published the lock.                      *)
Owning == {"owned", "read", "verify", "write", "seed", "candidate", "wait",
           "fetch", "inFlight", "content", "pair", "manifest", "release"}

(* A token in the run directory was made by an instance that was started.  *)
Known(t) == t # Free => t[2] <= inst[t[1]]

(* The lock of an owner lies in its place or was moved aside by the other  *)
(* contender, which has yet to put it back; what a contender may delete    *)
(* belongs to a process that is dead and stays so.                         *)
LockInv ==
    /\ Known(lock)
    /\ \A p \in Proc : Known(trash[p]) /\ Known(seen[p])
    /\ \A p \in Proc : pc[p] \in {"grab", "grabbed"} => ~Alive(seen[p])
    /\ \A p \in Proc : pc[p] \in Owning =>
          \/ lock = Token(p)
          \/ /\ lock = Free
             /\ \E q \in Proc : /\ pc[q] \in {"grabbed", "released"}
                               /\ trash[q] = Token(p)

(* Two processes compete, and neither dies while it has to put a live lock *)
(* back.                                                                   *)
TwoContenders ==
    /\ \A p, q, r \in Proc : p = q \/ q = r \/ p = r
    /\ ~MoverMayDie

(* A run-state write of a process that goes on with one of these.          *)
Writing(p, continuations) ==
    pc[p] \in {"verify", "write"} /\ job[p].next \in continuations

LastStart == fetches[Len(fetches)].at

(* A wall clock reading from which a wait cannot end too early, and a      *)
(* moment at which the next request may start.                             *)
Covers(a) == fetches # <<>> => a >= 1 + MaxSetBack - setBack + LastStart
Waited == fetches # <<>> => clock >= LastStart + Delay

(* What a run state must say of the requests so far, so that a process     *)
(* that resumes from it keeps to the budget and to the delay.              *)
Accounts(s) ==
    /\ Len(fetches) <= s.attempted
    /\ s.attempted <= MaxRequests
    /\ s.inFlight \/ s.attempted = MaxRequests \/ Covers(s.lastAt)

RequestsShared ==
    /\ RequestSpacing
    /\ fetches # <<>> => LastStart <= clock
    /\ Len(fetches) <= MaxRequests
    /\ runState = Absent => fetches = <<>>
    /\ runState # Absent => Accounts(runState)

RequestsLocal(p) ==
    LET j == job[p] IN
    /\ pc[p] \in {"verify", "write", "candidate", "content", "pair", "manifest"} =>
          Accounts(j.mem)
    /\ pc[p] \in {"seed", "fetch"} => runState # Absent /\ runState = j.mem
    /\ \/ pc[p] \in {"candidate", "fetch", "inFlight", "content", "pair", "manifest"}
       \/ Writing(p, {"mark", "fetch", "content", "candidate", "final"})
       => j.mem.attempted = j.used /\ Len(fetches) <= j.used /\ j.used <= MaxRequests
    /\ pc[p] = "candidate" \/ Writing(p, {"candidate"}) =>
          (j.used < MaxRequests => Covers(j.anchor))
    /\ pc[p] \in {"inFlight", "content", "pair", "manifest"} \/ Writing(p, {"content"}) =>
          Covers(j.anchor)
    /\ Writing(p, {"mark", "fetch", "content"}) => Covers(j.mem.lastAt)
    /\ pc[p] = "fetch" \/ Writing(p, {"mark", "fetch"}) =>
          Len(fetches) + 1 <= j.used /\ Waited
    /\ pc[p] = "fetch" \/ Writing(p, {"fetch"}) => j.mem.inFlight
    /\ pc[p] = "wait" =>
          /\ Len(fetches) + 1 <= j.used /\ j.used <= MaxRequests
          /\ fetches # <<>> => j.wake >= LastStart + Delay

RequestsInv == RequestsShared /\ \A p \in Proc : RequestsLocal(p)

Kept     == {o \in Ordinal : pairs[o] # "absent"}
Complete == {o \in Ordinal : pairs[o] = "complete"}

(* What a run state must say of the captures: every file that is kept came *)
(* with a response, and every capture it names is complete.                *)
FaithfulTo(s, kept, complete) ==
    /\ s.received <= s.attempted
    /\ Cardinality(kept) <= s.received
    /\ s.captured = Cardinality(s.done)
    /\ s.done \subseteq complete
    /\ s.attempted > 0 => s.lastAt > 0
    /\ s.status = "complete" => s.done = Ordinal

Faithful(s) == FaithfulTo(s, Kept, Complete)

CapturesShared ==
    /\ runState = Absent => Kept = {}
    /\ runState # Absent => Faithful(runState)

(* Between the lock and its release; on the candidate, before and after    *)
(* the response.                                                           *)
Working == Owning \ {"owned", "read", "release"}

CapturesLocal(p) ==
    LET j == job[p] IN
    /\ pc[p] \in Working => Faithful(j.mem)
    /\ (pc[p] \in Working \ {"seed"} /\ ~Writing(p, {"seed", "release"})) =>
          j.captures = Cardinality(j.done) /\ j.mem.done \subseteq j.done /\ j.done \subseteq Complete
    /\ pc[p] \in {"wait", "fetch", "inFlight"} \/ Writing(p, {"mark", "fetch"}) =>
          j.mem.received + 1 <= j.used
    /\ pc[p] \in {"wait", "fetch"} \/ Writing(p, {"mark", "fetch"}) => pairs[j.ord] = "absent"
    /\ pc[p] = "inFlight" => j.anchor > 0
    /\ pc[p] \in {"content", "pair"} \/ Writing(p, {"content"}) =>
          Cardinality(Kept) + 1 <= j.mem.received
    /\ pc[p] \in {"content", "pair", "manifest"} => runState # Absent /\ runState = j.mem
    /\ pc[p] = "manifest" => pairs[j.ord] = "partial"

CapturesInv == CapturesShared /\ \A p \in Proc : CapturesLocal(p)

-----------------------------------------------------------------------------
(* Steps, seen by the control state and the job of their process.          *)

LocalType == pc \in [Proc -> Label] /\ job \in [Proc -> Job]

LEMMA IdleJobType == IdleJob \in Job
BY BudgetAssumption DEF IdleJob, Job, FreshState, RunState, Status, Continuation

LEMMA GotoEffect ==
    ASSUME LocalType, NEW p \in Proc, NEW l \in Label, Goto(p, l)
    PROVE  /\ pc' \in [Proc -> Label]
           /\ pc'[p] = l
           /\ \A q \in Proc : q # p => pc'[q] = pc[q]
BY DEF Goto, LocalType

LEMMA EndEffect ==
    ASSUME LocalType, NEW p \in Proc, End(p)
    PROVE  /\ pc' \in [Proc -> Label] /\ job' \in [Proc -> Job]
           /\ pc'[p] = "down" /\ job'[p] = IdleJob
           /\ \A q \in Proc : q # p => pc'[q] = pc[q] /\ job'[q] = job[q]
BY IdleJobType DEF End, Goto, LocalType, Label

LEMMA PersistEffect ==
    ASSUME LocalType, NEW p \in Proc, NEW j \in Job, NEW s \in RunState,
           NEW l \in Continuation, Persist(p, j, s, l)
    PROVE  /\ pc' \in [Proc -> Label] /\ job' \in [Proc -> Job]
           /\ pc'[p] = "verify"
           /\ job'[p].mem = s /\ job'[p].next = l
           /\ job'[p].used = j.used /\ job'[p].captures = j.captures
           /\ job'[p].done = j.done /\ job'[p].anchor = j.anchor
           /\ job'[p].ord = j.ord /\ job'[p].wake = j.wake
           /\ job'[p].stopped = j.stopped
           /\ \A q \in Proc : q # p => pc'[q] = pc[q] /\ job'[q] = job[q]
BY DEF Persist, Goto, LocalType, Label, Job

(* States that a process may hold in memory.                               *)
LEMMA WallType ==
    ASSUME clock \in Nat, setBack \in 0..MaxSetBack
    PROVE  Wall \in Int /\ Wall > 0
BY BudgetAssumption DEF Wall

LEMMA StateTypes ==
    ASSUME NEW j \in Job, clock \in Nat, setBack \in 0..MaxSetBack
    PROVE  /\ FinalState(j) \in RunState
           /\ Marked(j) \in RunState
           /\ Counted(j) \in RunState
           /\ Settled(j) \in RunState
           /\ [Settled(j) EXCEPT !.received = @ + 1] \in RunState
           /\ AfterCapture(j) \in RunState
           /\ [j.mem EXCEPT !.attempted = j.used, !.inFlight = FALSE] \in RunState
           /\ FreshState \in RunState
<1>. j.mem \in RunState /\ j.used \in Nat /\ j.captures \in Nat
     /\ j.done \in SUBSET Ordinal /\ j.anchor \in Int
  BY DEF Job
<1>. Wall \in Int
  BY WallType
<1>1. FinalState(j) \in RunState
  BY DEF FinalState, RunState, Status
<1>2. Marked(j) \in RunState /\ Counted(j) \in RunState
  BY DEF Marked, Counted, RunState
<1>3. Settled(j) \in RunState
  BY DEF Settled, RunState
<1>4. [Settled(j) EXCEPT !.received = @ + 1] \in RunState
  BY <1>3 DEF RunState
<1>5. AfterCapture(j) \in RunState
  BY DEF AfterCapture, RunState
<1>6. [j.mem EXCEPT !.attempted = j.used, !.inFlight = FALSE] \in RunState
  BY DEF RunState
<1>7. FreshState \in RunState
  BY DEF FreshState, RunState, Status
<1>. QED BY <1>1, <1>2, <1>3, <1>4, <1>5, <1>6, <1>7

-----------------------------------------------------------------------------
(* Type correctness.                                                       *)

LockType ==
    /\ lock \in (Proc \X Nat) \cup {Free}
    /\ trash \in [Proc -> (Proc \X Nat) \cup {Free}]
    /\ seen \in [Proc -> (Proc \X Nat) \cup {Free}]
    /\ retried \in [Proc -> BOOLEAN]
    /\ inst \in [Proc -> Nat]

DataType ==
    /\ runState \in RunState \cup {Absent}
    /\ pairs \in [Ordinal -> {"absent", "partial", "complete"}]
    /\ fetches \in Seq([at : Nat, ord : Ordinal])
    /\ clock \in Nat /\ setBack \in 0..MaxSetBack
    /\ crashes \in Nat /\ faults \in Nat

LEMMA TypeParts == TypeOK <=> LocalType /\ LockType /\ DataType
BY DEF TypeOK, LocalType, LockType, DataType

(* Only the process itself moves, in a step of p.                          *)
LEMMA LocalStep ==
    ASSUME TypeInv, NEW p \in Proc, Step(p)
    PROVE  /\ LocalType'
           /\ \A q \in Proc : q # p => pc'[q] = pc[q] /\ job'[q] = job[q]
           /\ JobFits(p)'
<1>. DEFINE j == job[p]
            Local ==
              /\ LocalType'
              /\ \A q \in Proc : q # p => pc'[q] = pc[q] /\ job'[q] = job[q]
              /\ JobFits(p)'
<1>t. LocalType /\ j \in Job /\ clock \in Nat /\ setBack \in 0..MaxSetBack
      /\ runState \in RunState \cup {Absent}
  BY DEF TypeInv, TypeOK, LocalType
<1>j. /\ j.used \in Nat /\ j.ord \in Nat \ {0} /\ j.mem \in RunState
      /\ j.captures \in Nat /\ j.done \in SUBSET Ordinal /\ j.next \in Continuation
      /\ j.anchor \in Int
  BY <1>t DEF Job
<1>s. /\ FinalState(j) \in RunState /\ Marked(j) \in RunState
      /\ Counted(j) \in RunState /\ Settled(j) \in RunState
      /\ [Settled(j) EXCEPT !.received = @ + 1] \in RunState
      /\ [j.mem EXCEPT !.attempted = j.used, !.inFlight = FALSE] \in RunState
      /\ FreshState \in RunState
  BY <1>t, StateTypes
<1>o. /\ OnCandidate(p) => j.ord \in Ordinal
      /\ pc[p] \in {"verify", "write"} => j.next # "none"
  BY DEF TypeInv, JobFits
<1>x. [j EXCEPT !.stopped = TRUE] \in Job /\ [j EXCEPT !.stopped = TRUE].ord = j.ord
  BY <1>t DEF Job
<1>f. FinalState([j EXCEPT !.stopped = TRUE]) \in RunState
  BY <1>t, <1>x, StateTypes
<1>g. ASSUME NEW l \in Label, Goto(p, l), job' = job,
             l \in {"fetch", "inFlight", "content", "pair", "manifest", "wait"}
                => OnCandidate(p),
             l # "verify", l = "write" => pc[p] = "verify"
      PROVE  Local
  <2>1. pc' \in [Proc -> Label] /\ pc'[p] = l /\ \A q \in Proc : q # p => pc'[q] = pc[q]
    BY <1>t, <1>g, GotoEffect
  <2>2. job'[p] = j /\ LocalType'
    BY <2>1, <1>t, <1>g DEF LocalType
  <2>3. OnCandidate(p)' => OnCandidate(p)
    BY <2>1, <2>2, <1>g DEF OnCandidate
  <2>. QED BY <2>1, <2>2, <2>3, <1>g, <1>o DEF JobFits
<1>p. ASSUME NEW k \in Job, NEW s \in RunState, NEW l \in Continuation,
             Persist(p, k, s, l), l \in InsideTry => k.ord \in Ordinal, l # "none"
      PROVE  Local
  BY <1>t, <1>p, PersistEffect DEF LocalType, OnCandidate, JobFits
<1>e. ASSUME End(p) PROVE Local
  BY <1>t, <1>e, EndEffect DEF LocalType, OnCandidate, JobFits
<1>u. ASSUME UNCHANGED <<pc, job>> PROVE Local
  BY <1>t, <1>u, <1>o DEF LocalType, OnCandidate, JobFits
<1>k. ASSUME NEW k \in Job, NEW l \in Label, Goto(p, l), job' = [job EXCEPT ![p] = k],
             l \in {"candidate", "wait", "seed", "inFlight"},
             l \in {"wait", "inFlight"} => k.ord \in Ordinal
      PROVE  Local
  <2>. pc' \in [Proc -> Label] /\ pc'[p] = l /\ \A q \in Proc : q # p => pc'[q] = pc[q]
    BY <1>t, <1>k, GotoEffect
  <2>1. LocalType' /\ job'[p] = k /\ \A q \in Proc : q # p => job'[q] = job[q]
    BY <1>t, <1>k DEF LocalType
  <2>2. OnCandidate(p)' => l \in {"wait", "inFlight"}
    BY <1>k DEF OnCandidate
  <2>3. JobFits(p)'
    BY <2>1, <2>2, <1>k DEF JobFits
  <2>. QED BY <2>1, <2>3
<1>. SUFFICES Local
  OBVIOUS
<1>. HIDE DEF Local
<1>w. ASSUME WriteError(p), pc[p] \in {"verify", "write"} PROVE Local
  <2>1. CASE j.next \in InsideTry
    BY <2>1, <1>w, <1>x, <1>s, <1>o, <1>p DEF WriteError, Continuation, OnCandidate
  <2>2. CASE j.next \notin InsideTry
    BY <2>2, <1>w, <1>g DEF WriteError, Label
  <2>. QED BY <2>1, <2>2
<1>h. ASSUME Finish(p, [j EXCEPT !.stopped = TRUE]) PROVE Local
  BY <1>h, <1>x, <1>f, <1>p DEF Finish, Continuation, InsideTry
<1>1. CASE Start(p)
  BY <1>1, <1>g DEF Start, Label
<1>2. CASE Publish(p)
  BY <1>2, <1>g DEF Publish, Label
<1>3. CASE Judge(p)
  BY <1>3, <1>g, <1>e DEF Judge, Label
<1>4. CASE Grab(p)
  BY <1>4, <1>g DEF Grab, Label
<1>5. CASE SettleGrab(p)
  BY <1>5, <1>g DEF SettleGrab, Label
<1>6. CASE CheckOwned(p)
  BY <1>6, <1>g, <1>e DEF CheckOwned, Label
<1>7. CASE Release(p)
  BY <1>7, <1>g, <1>e DEF Release, Label
<1>8. CASE SettleRelease(p)
  BY <1>8, <1>e DEF SettleRelease
<1>9. CASE Verify(p)
  <2>1. CASE lock = Token(p)
    BY <1>9, <2>1, <1>g DEF Verify, Label
  <2>2. CASE lock # Token(p)
    BY <1>9, <2>2, <1>w DEF Verify
  <2>. QED BY <2>1, <2>2
<1>10. CASE WriteFails(p)
  BY <1>10, <1>w DEF WriteFails
<1>11. CASE Write(p)
  <2>1. CASE j.next = "mark"
    BY <1>11, <2>1, <1>t, <1>s, <1>o, <1>p DEF Write, Continuation, OnCandidate, InsideTry
  <2>2. CASE j.next = "final"
    BY <1>11, <2>2, <1>t, <1>s, <1>p DEF Write, Finish, Continuation, InsideTry
  <2>3. CASE j.next \notin {"mark", "final"}
    <3>1. Goto(p, j.next) /\ job' = job
      BY <1>11, <2>3 DEF Write
    <3>2. j.next \in Continuation \ {"mark", "final"} /\ pc[p] = "write"
      BY <1>j, <1>11, <2>3 DEF Write
    <3>3. j.next \in {"fetch", "content"} => OnCandidate(p)
      BY <3>2 DEF OnCandidate, InsideTry
    <3>. QED BY <3>1, <3>2, <3>3, <1>o, <1>g DEF Continuation, Label
  <2>. QED BY <2>1, <2>2, <2>3
<1>12. CASE ReadRunState(p)
  <2>1. CASE runState = Absent
    BY <1>12, <2>1, <1>t, <1>s, <1>g, <1>p DEF ReadRunState, Label, Continuation, InsideTry
  <2>2. CASE runState # Absent /\ ReadableState(runState)
    <3>. [j EXCEPT !.mem = runState] \in Job
      BY <1>t, <2>2 DEF Job
    <3>. job' = [job EXCEPT ![p] = [j EXCEPT !.mem = runState]] /\ Goto(p, "seed")
      BY <1>12, <2>2 DEF ReadRunState
    <3>. QED BY <1>k DEF Label
  <2>3. CASE runState # Absent /\ ~ReadableState(runState)
    BY <1>12, <2>3, <1>g DEF ReadRunState, Label
  <2>. QED BY <2>1, <2>2, <2>3
<1>13. CASE Seed(p)
  <2>. DEFINE k == [j EXCEPT !.used = j.mem.attempted, !.captures = j.mem.captured,
                            !.done = j.mem.done, !.anchor = ResumeAnchor(j.mem)]
  <2>1. k \in Job
    <3>. ResumeAnchor(j.mem) \in Int
      BY <1>t, <1>j, WallType DEF ResumeAnchor, RunState
    <3>. QED BY <1>t, <1>j DEF Job, RunState
  <2>2. job' = [job EXCEPT ![p] = k] /\ Goto(p, "candidate")
    BY <1>13, <1>t DEF Seed, LocalType, Job
  <2>. QED BY <2>1, <2>2, <1>k DEF Label
<1>14. CASE AdoptPair(p)
  <2>. DEFINE k == [j EXCEPT !.ord = @ + 1,
                            !.captures = IF Recorded(j) THEN @ ELSE @ + 1,
                            !.done = @ \cup {j.ord}]
  <2>1. k \in Job
    <3>. j.ord + 1 \in Nat \ {0} /\ j.done \cup {j.ord} \in SUBSET Ordinal
         /\ (IF Recorded(j) THEN j.captures ELSE j.captures + 1) \in Nat
      BY <1>14, <1>j DEF AdoptPair
    <3>. QED BY <1>t DEF Job
  <2>2. job' = [job EXCEPT ![p] = k] /\ pc' = pc /\ pc[p] = "candidate"
    BY <1>14, <1>t DEF AdoptPair, LocalType, Job
  <2>. QED BY <2>1, <2>2, <1>t, <1>k DEF Label, Goto, LocalType
<1>15. CASE RefusePair(p)
  BY <1>15, <1>h DEF RefusePair
<1>16. CASE Request(p)
  <2>1. CASE MayRequest(j)
    <3>. DEFINE k == [j EXCEPT !.used = @ + 1, !.wake = WaitFrom(j.anchor)]
    <3>1. k \in Job /\ k.ord \in Ordinal
      <4>. WaitFrom(j.anchor) \in Int
        <5>. Delay \in Nat /\ Wall \in Int
          BY <1>t, WallType, BudgetAssumption
        <5>. QED BY <1>t, <1>j DEF WaitFrom
      <4>1. j.ord \in Ordinal
        BY <1>16 DEF Request
      <4>2. j.used + 1 \in Nat
        BY <1>j
      <4>. HIDE DEF j
      <4>. QED BY <1>t, <4>1, <4>2 DEF Job
    <3>2. job' = [job EXCEPT ![p] = k] /\ Goto(p, "wait")
      BY <1>16, <2>1, <1>t DEF Request, LocalType, Job
    <3>. QED BY <3>1, <3>2, <1>k DEF Label
  <2>2. CASE ~MayRequest(j)
    <3>. Persist(p, [j EXCEPT !.stopped = TRUE],
                 [j.mem EXCEPT !.attempted = j.used, !.inFlight = FALSE], "final")
      BY <1>16, <2>2 DEF Request
    <3>. QED BY <1>x, <1>s, <1>p DEF Continuation, InsideTry
  <2>. QED BY <2>1, <2>2
<1>17. CASE PlanDone(p)
  BY <1>17, <1>t, <1>s, <1>p DEF PlanDone, Finish, Continuation, InsideTry
<1>18. CASE BeforeFetch(p)
  BY <1>18, <1>t, <1>s, <1>o, <1>p DEF BeforeFetch, Continuation, OnCandidate
<1>19. CASE BeginFetch(p)
  <2>. DEFINE k == [j EXCEPT !.anchor = Wall]
  <2>1. k \in Job /\ k.ord \in Ordinal
    BY <1>19, <1>t, <1>o, WallType DEF Job, BeginFetch, OnCandidate
  <2>2. job' = [job EXCEPT ![p] = k] /\ Goto(p, "inFlight")
    BY <1>19, <1>t DEF BeginFetch, LocalType, Job
  <2>. QED BY <2>1, <2>2, <1>k DEF Label
<1>20. CASE Respond(p)
  BY <1>20, <1>t, <1>s, <1>o, <1>p DEF Respond, Continuation, OnCandidate
<1>21. CASE FetchFails(p)
  BY <1>21, <1>x, <1>s, <1>p DEF FetchFails, Continuation, InsideTry
<1>22. CASE RejectContent(p)
  BY <1>22, <1>h DEF RejectContent
<1>23. CASE AcceptContent(p)
  <2>. OnCandidate(p)
    BY <1>23 DEF AcceptContent, OnCandidate
  <2>. QED BY <1>23, <1>g DEF AcceptContent, Label
<1>24. CASE KeepPayload(p)
  <2>1. CASE pairs[j.ord] = "absent"
    <3>. OnCandidate(p)
      BY <1>24 DEF KeepPayload, OnCandidate
    <3>. QED BY <1>24, <2>1, <1>g DEF KeepPayload, Label
  <2>2. CASE pairs[j.ord] # "absent"
    BY <1>24, <2>2, <1>h DEF KeepPayload
  <2>. QED BY <2>1, <2>2
<1>25. CASE KeepManifest(p)
  <2>. DEFINE k == [j EXCEPT !.captures = @ + 1, !.done = @ \cup {j.ord}, !.ord = @ + 1]
  <2>1. k \in Job
    <3>. j.ord \in Ordinal
      BY <1>25, <1>o DEF KeepManifest, OnCandidate
    <3>. j.ord + 1 \in Nat \ {0} /\ j.done \cup {j.ord} \in SUBSET Ordinal
         /\ j.captures + 1 \in Nat
      BY <1>j
    <3>. QED BY <1>t DEF Job
  <2>2. AfterCapture(k) \in RunState
    BY <2>1, <1>t, StateTypes
  <2>3. Persist(p, k, AfterCapture(k), "candidate")
    BY <1>25 DEF KeepManifest
  <2>. QED BY <2>1, <2>2, <2>3, <1>p DEF Continuation, InsideTry
<1>26. CASE PairFails(p)
  BY <1>26, <1>h DEF PairFails
<1>27. CASE Crash(p)
  BY <1>27, <1>e DEF Crash
<1>. QED
  BY <1>1, <1>2, <1>3, <1>4, <1>5, <1>6, <1>7, <1>8, <1>9, <1>10, <1>11, <1>12,
     <1>13, <1>14, <1>15, <1>16, <1>17, <1>18, <1>19, <1>20, <1>21, <1>22, <1>23,
     <1>24, <1>25, <1>26, <1>27 DEF Step

LEMMA LockTypeStep ==
    ASSUME TypeInv, NEW p \in Proc, Step(p)
    PROVE  LockType'
<1>t. LockType
  BY DEF TypeInv, TypeOK, LockType
<1>k. Token(p) \in Proc \X Nat
  BY <1>t DEF Token, LockType
<1>1. CASE Start(p)
  BY <1>1, <1>t DEF Start, LockType, lockVars
<1>2. CASE Publish(p)
  BY <1>2, <1>t, <1>k DEF Publish, LockType
<1>3. CASE Judge(p)
  BY <1>3, <1>t DEF Judge, End, Forget, LockType
<1>4. CASE Grab(p)
  BY <1>4, <1>t DEF Grab, LockType
<1>5. CASE SettleGrab(p)
  BY <1>5, <1>t DEF SettleGrab, PutBack, LockType
<1>6. CASE CheckOwned(p)
  BY <1>6, <1>t DEF CheckOwned, End, Forget, LockType
<1>7. CASE Release(p)
  BY <1>7, <1>t DEF Release, End, Forget, LockType
<1>8. CASE SettleRelease(p)
  BY <1>8, <1>t DEF SettleRelease, PutBack, End, Forget, LockType
<1>9. CASE Crash(p)
  BY <1>9, <1>t DEF Crash, End, Forget, LockType
<1>10. CASE UNCHANGED <<lock, trash, seen, retried, inst>>
  BY <1>10, <1>t DEF LockType
<1>. QED
  BY <1>1, <1>2, <1>3, <1>4, <1>5, <1>6, <1>7, <1>8, <1>9, <1>10
  DEF Step, Verify, WriteFails, Write, ReadRunState, Seed, AdoptPair, RefusePair,
      Request, PlanDone, BeforeFetch, BeginFetch, Respond, FetchFails,
      RejectContent, AcceptContent, KeepPayload, KeepManifest, PairFails, lockVars

LEMMA DataTypeStep ==
    ASSUME TypeInv, NEW p \in Proc, Step(p)
    PROVE  DataType'
<1>t. DataType /\ pc \in [Proc -> Label] /\ job \in [Proc -> Job]
  BY DEF TypeInv, TypeOK, DataType
<1>o. OnCandidate(p) => job[p].ord \in Ordinal
  BY DEF TypeInv, JobFits
<1>1. CASE Write(p)
  <2>. runState' = job[p].mem /\ UNCHANGED <<pairs, fetches, clock, setBack, crashes, faults>>
    BY <1>1 DEF Write, world, used
  <2>. QED BY <1>t DEF DataType, Job
<1>2. CASE BeginFetch(p)
  <2>. job[p].ord \in Ordinal
    BY <1>2, <1>o DEF BeginFetch, OnCandidate
  <2>. [at |-> clock, ord |-> job[p].ord] \in [at : Nat, ord : Ordinal]
    BY <1>t DEF DataType
  <2>. fetches' \in Seq([at : Nat, ord : Ordinal])
    BY <1>2, <1>t DEF BeginFetch, DataType
  <2>. QED BY <1>2, <1>t DEF BeginFetch, DataType, world, used
<1>3. CASE KeepPayload(p)
  BY <1>3, <1>t DEF KeepPayload, DataType, world, used
<1>4. CASE KeepManifest(p)
  <2>. /\ pairs' = [pairs EXCEPT ![job[p].ord] = "complete"]
       /\ UNCHANGED <<runState, fetches, clock, setBack, crashes, faults>>
    BY <1>4 DEF KeepManifest, world, used
  <2>. job[p].ord \in Ordinal
    BY <1>4, <1>o DEF KeepManifest, OnCandidate
  <2>. pairs' \in [Ordinal -> {"absent", "partial", "complete"}]
    BY <1>t DEF DataType
  <2>. QED BY <1>t DEF DataType
<1>5. CASE PairFails(p)
  <2>. /\ pairs' = [pairs EXCEPT ![job[p].ord] = "absent"] /\ faults' = faults + 1
       /\ UNCHANGED <<runState, fetches, clock, setBack, crashes>>
    BY <1>5 DEF PairFails, world
  <2>. job[p].ord \in Ordinal
    BY <1>5, <1>o DEF PairFails, OnCandidate
  <2>. QED BY <1>t DEF DataType
<1>6. CASE WriteFails(p)
  BY <1>6, <1>t DEF WriteFails, DataType, world
<1>7. CASE Crash(p)
  BY <1>7, <1>t DEF Crash, DataType, world
<1>8. CASE UNCHANGED <<runState, pairs, fetches, clock, setBack, crashes, faults>>
  BY <1>8, <1>t DEF DataType
<1>. QED
  BY <1>1, <1>2, <1>3, <1>4, <1>5, <1>6, <1>7, <1>8
  DEF Step, Start, Publish, Judge, Grab, SettleGrab, CheckOwned, Release,
      SettleRelease, Verify, ReadRunState, Seed, AdoptPair, RefusePair, Request,
      PlanDone, BeforeFetch, Respond, FetchFails, RejectContent, AcceptContent,
      world, used

LEMMA TypeInit == Init => TypeInv
<1>. SUFFICES ASSUME Init PROVE TypeInv
  OBVIOUS
<1>. LocalType /\ \A p \in Proc : JobFits(p)
  BY IdleJobType DEF Init, LocalType, Label, JobFits, OnCandidate
<1>. LockType
  BY DEF Init, LockType
<1>. DataType
  BY BudgetAssumption DEF Init, DataType
<1>. QED BY TypeParts DEF TypeInv

LEMMA TypeStep == TypeInv /\ [Next]_vars => TypeInv'
<1>. SUFFICES ASSUME TypeInv, [Next]_vars PROVE TypeInv'
  OBVIOUS
<1>t. LocalType /\ LockType /\ DataType
  BY TypeParts DEF TypeInv
<1>1. ASSUME NEW p \in Proc, Step(p) PROVE TypeInv'
  <2>1. LocalType' /\ LockType' /\ DataType' /\ JobFits(p)'
    BY <1>1, LocalStep, LockTypeStep, DataTypeStep
  <2>2. \A q \in Proc : q # p => (JobFits(q) => JobFits(q)')
    BY <1>1, LocalStep DEF JobFits, OnCandidate
  <2>. QED BY <2>1, <2>2, TypeParts DEF TypeInv, TypeOK, LocalType, LockType, DataType
<1>2. CASE Tick \/ SetBack \/ UNCHANGED vars
  <2>1. UNCHANGED <<pc, job>> /\ LockType'
    BY <1>2, <1>t DEF Tick, SetBack, vars, lockVars, used, LockType
  <2>3. DataType'
    <3>1. CASE Tick
      BY <3>1, <1>t DEF Tick, used, DataType
    <3>2. CASE SetBack
      BY <3>2, <1>t, BudgetAssumption DEF SetBack, used, DataType
    <3>3. CASE UNCHANGED vars
      BY <3>3, <1>t DEF vars, DataType
    <3>. QED BY <1>2, <3>1, <3>2, <3>3
  <2>. QED BY <2>1, <2>3, <1>t DEF TypeInv, TypeOK, LocalType, LockType, DataType, JobFits, OnCandidate
<1>. QED BY <1>1, <1>2 DEF Next

(* The run directory and the processes are always well typed: no state of  *)
(* the lock, of run-state.json or of a pair is ever torn.                  *)
THEOREM TypeCorrect == Spec => []TypeOK
<1>1. TypeInv => TypeOK
  BY DEF TypeInv
<1>. QED BY TypeInit, TypeStep, <1>1, PTL DEF Spec

-----------------------------------------------------------------------------
(* The run lock.                                                           *)

(* Steps of an owner, other than its release.                              *)
Within(p) ==
    /\ pc[p] \in Owning /\ pc'[p] \in Owning
    /\ UNCHANGED <<lock, trash, seen, retried, inst>>

LEMMA WithinSteps ==
    ASSUME TypeInv, NEW p \in Proc,
           \/ Verify(p) \/ WriteFails(p) \/ Write(p) \/ ReadRunState(p)
           \/ Seed(p) \/ AdoptPair(p) \/ RefusePair(p) \/ Request(p)
           \/ PlanDone(p) \/ BeforeFetch(p) \/ BeginFetch(p) \/ Respond(p)
           \/ FetchFails(p) \/ RejectContent(p) \/ AcceptContent(p)
           \/ KeepPayload(p) \/ KeepManifest(p) \/ PairFails(p)
    PROVE  Within(p)
<1>t. LocalType /\ job[p] \in Job /\ JobFits(p)
  BY TypeParts DEF TypeInv, LocalType
<1>1. pc[p] \in Owning
  BY DEF Verify, WriteFails, Write, ReadRunState, Seed, AdoptPair, RefusePair,
         Request, PlanDone, BeforeFetch, BeginFetch, Respond, FetchFails,
         RejectContent, AcceptContent, KeepPayload, KeepManifest, PairFails, Owning
<1>2. UNCHANGED <<lock, trash, seen, retried, inst>>
  BY DEF Verify, WriteFails, Write, ReadRunState, Seed, AdoptPair, RefusePair,
         Request, PlanDone, BeforeFetch, BeginFetch, Respond, FetchFails,
         RejectContent, AcceptContent, KeepPayload, KeepManifest, PairFails, lockVars
<1>3. pc'[p] \in Owning
  <2>1. CASE Write(p)
    <3>. pc[p] = "write" /\ job[p].next \in Continuation \ {"none"}
      BY <2>1, <1>t DEF Write, JobFits, Job
    <3>1. CASE job[p].next = "final" \/ job[p].next = "mark"
      BY <2>1, <3>1, <1>t DEF Write, Finish, Persist, Goto, LocalType, Owning
    <3>2. CASE job[p].next \notin {"final", "mark"}
      <4>. Goto(p, job[p].next)
        BY <2>1, <3>2 DEF Write
      <4>. pc'[p] = job[p].next
        BY <1>t DEF Goto, LocalType
      <4>. QED BY <3>2 DEF Continuation, Owning
    <3>. QED BY <3>1, <3>2
  <2>2. CASE Verify(p) \/ WriteFails(p)
    BY <2>2, <1>t DEF Verify, WriteFails, WriteError, Persist, Goto, LocalType, Owning
  <2>3. CASE ReadRunState(p) \/ Request(p) \/ Seed(p) \/ KeepPayload(p)
    BY <2>3, <1>t DEF ReadRunState, Request, Seed, KeepPayload, Finish, Persist, Goto, LocalType, Owning
  <2>4. CASE RefusePair(p) \/ PlanDone(p) \/ RejectContent(p) \/ PairFails(p) \/ KeepManifest(p)
    BY <2>4, <1>t DEF RefusePair, PlanDone, RejectContent, PairFails, KeepManifest,
                      Finish, Persist, Goto, LocalType, Owning
  <2>5. CASE AdoptPair(p) \/ BeforeFetch(p) \/ BeginFetch(p) \/ Respond(p) \/ FetchFails(p) \/ AcceptContent(p)
    BY <2>5, <1>t, <1>1 DEF AdoptPair, BeforeFetch, BeginFetch, Respond, FetchFails,
                      AcceptContent, Persist, Goto, LocalType, Owning
  <2>. QED BY <2>1, <2>2, <2>3, <2>4, <2>5
<1>. QED BY <1>1, <1>2, <1>3 DEF Within

(* A token is not Free, tells slots apart, and is alive while its process  *)
(* runs.                                                                   *)
LEMMA Tokens ==
    ASSUME TypeInv
    PROVE  /\ \A p \in Proc : Token(p) # Free
           /\ \A p, q \in Proc : Token(p) = Token(q) => p = q
           /\ \A p \in Proc : pc[p] # "down" => Alive(Token(p))
           /\ \A p \in Proc : Known(Token(p))
<1>. inst \in [Proc -> Nat]
  BY DEF TypeInv, TypeOK
<1>1. \A p \in Proc : Token(p) # Free /\ Token(p)[1] = p /\ Token(p)[2] = inst[p]
  BY TokenAssumption DEF Token
<1>. QED BY <1>1 DEF Alive, Known

(* One owner at a time.                                                    *)
LEMMA OneOwner ==
    ASSUME TypeInv, LockInv, TwoContenders,
           NEW p \in Proc, NEW q \in Proc, pc[p] \in Owning, pc[q] \in Owning
    PROVE  p = q
<1>. SUFFICES ASSUME p # q PROVE FALSE
  OBVIOUS
<1>1. \A r \in Proc : r = p \/ r = q
  BY DEF TwoContenders
<1>2. \A r \in Proc : pc[r] \notin {"grabbed", "released"}
  BY <1>1 DEF Owning
<1>3. lock = Token(p) /\ lock = Token(q)
  BY <1>2 DEF LockInv
<1>. QED BY <1>3, Tokens

(* Instances only grow, and only by a start. *)
LEMMA InstanceStep ==
    ASSUME TypeInv, NEW p \in Proc, Step(p)
    PROVE  \/ Start(p)
           \/ inst' = inst /\ pc[p] # "down"
BY WithinSteps DEF Step, Within, Owning, Publish, Judge, Grab, SettleGrab, CheckOwned,
       Release, SettleRelease, Crash

LEMMA DeadStaysDead ==
    ASSUME TypeInv, NEW p \in Proc, Step(p), NEW t \in (Proc \X Nat) \cup {Free},
           Known(t)
    PROVE  /\ Known(t)'
           /\ ~Alive(t) => ~Alive(t)'
<1>t. inst \in [Proc -> Nat] /\ pc \in [Proc -> Label]
  BY DEF TypeInv, TypeOK
<1>l. \A q \in Proc : q # p => pc'[q] = pc[q]
  BY LocalStep
<1>1. CASE t = Free
  BY <1>1 DEF Known, Alive
<1>2. CASE t # Free
  <2>1. PICK r \in Proc, i \in Nat : t = <<r, i>>
    BY <1>2
  <2>2. i <= inst[r]
    BY <1>2, <2>1 DEF Known
  <2>3. CASE Start(p)
    <3>. inst' = [inst EXCEPT ![p] = @ + 1]
      BY <2>3 DEF Start
    <3>. QED BY <1>t, <1>l, <2>1, <2>2 DEF Known, Alive
  <2>4. CASE inst' = inst /\ pc[p] # "down"
    BY <2>1, <2>2, <2>4, <1>t, <1>l DEF Known, Alive
  <2>. QED BY <2>3, <2>4, InstanceStep
<1>. QED BY <1>1, <1>2

LEMMA LockInit == Init => LockInv
BY DEF Init, LockInv, Known, Owning

LEMMA LockStep ==
    ASSUME TypeInv, LockInv, TwoContenders, NEW p \in Proc, Step(p)
    PROVE  LockInv'
<1>. DEFINE Held(q) == \/ lock = Token(q)
                       \/ /\ lock = Free
                          /\ \E r \in Proc : /\ pc[r] \in {"grabbed", "released"}
                                            /\ trash[r] = Token(q)
<1>t. /\ lock \in (Proc \X Nat) \cup {Free}
      /\ trash \in [Proc -> (Proc \X Nat) \cup {Free}]
      /\ seen \in [Proc -> (Proc \X Nat) \cup {Free}]
      /\ inst \in [Proc -> Nat] /\ pc \in [Proc -> Label]
  BY DEF TypeInv, TypeOK
<1>l. \A q \in Proc : q # p => pc'[q] = pc[q]
  BY LocalStep
<1>i. /\ Known(lock) /\ \A q \in Proc : Known(trash[q]) /\ Known(seen[q])
      /\ \A q \in Proc : pc[q] \in {"grab", "grabbed"} => ~Alive(seen[q])
      /\ \A q \in Proc : pc[q] \in Owning => Held(q)
  BY DEF LockInv
<1>p. pc' \in [Proc -> Label]
  BY LocalStep DEF LocalType
<1>k. \A q \in Proc : q # p => Token(q)' = Token(q)
  BY InstanceStep, <1>t DEF Start, Token
(* Which tokens a step leaves where. *)
<1>1. /\ lock' \in {lock, Free, Token(p), trash[p]}
      /\ \A q \in Proc : trash'[q] \in {trash[q], lock, Free}
      /\ \A q \in Proc : seen'[q] \in {seen[q], lock, Free}
  BY <1>t, WithinSteps
  DEF Step, Start, Publish, Judge, Grab, SettleGrab, CheckOwned, Release,
      SettleRelease, Crash, PutBack, End, Forget, Within, lockVars
<1>2. \A t \in {lock, Free, Token(p)} \cup {trash[q] : q \in Proc} \cup {seen[q] : q \in Proc} :
         /\ t \in (Proc \X Nat) \cup {Free}
         /\ Known(t)
  BY <1>t, <1>i, Tokens DEF Token, Known
<1>3. Known(lock)' /\ \A q \in Proc : Known(trash[q])' /\ Known(seen[q])'
  <2>1. \A t \in (Proc \X Nat) \cup {Free} : Known(t) => Known(t)'
    BY DeadStaysDead
  <2>. QED BY <1>1, <1>2, <2>1 DEF Known
<1>4. ASSUME NEW q \in Proc, pc'[q] \in {"grab", "grabbed"}
      PROVE  ~Alive(seen[q])'
  <2>1. CASE Judge(p) /\ q = p
    <3>1. seen'[q] = lock /\ ~Alive(lock)
      BY <2>1, <1>4, <1>t DEF Judge, Refused, End, Goto
    <3>. QED BY <3>1, <1>2, DeadStaysDead DEF Alive
  <2>2. CASE ~(Judge(p) /\ q = p)
    <3>1. pc[q] \in {"grab", "grabbed"} /\ seen'[q] = seen[q]
      BY <2>2, <1>4, <1>l, <1>t, WithinSteps
      DEF Step, Start, Publish, Judge, Grab, SettleGrab, CheckOwned, Release,
          SettleRelease, Crash, PutBack, End, Forget, Goto, Within, Owning, lockVars
    <3>. QED BY <3>1, <1>2, <1>i, DeadStaysDead DEF Alive
  <2>. QED BY <2>1, <2>2
<1>5. ASSUME NEW q \in Proc, pc'[q] \in Owning
      PROVE  Held(q)'
  <2>1. CASE q = p
    <3>1. CASE Publish(p)
      <4>. Goto(p, "owned") /\ lock' = Token(p) /\ inst' = inst
        BY <3>1, <2>1, <1>5, <1>t DEF Publish, Goto, Owning
      <4>. QED BY <2>1 DEF Token
    <3>2. CASE CheckOwned(p)
      <4>. lock = Token(p) /\ lock' = lock /\ inst' = inst
        BY <3>2, <2>1, <1>5, <1>t DEF CheckOwned, End, Goto, Owning
      <4>. QED BY <2>1 DEF Token
    <3>3. CASE Within(p)
      <4>1. Held(p) /\ lock' = lock /\ inst' = inst /\ trash' = trash /\ pc[p] \in Owning
        BY <3>3, <1>i DEF Within
      <4>2. \A r \in Proc : pc[r] \in {"grabbed", "released"} => pc'[r] = pc[r]
        BY <4>1, <1>l DEF Owning
      <4>. QED BY <4>1, <4>2, <2>1 DEF Token
    <3>4. CASE Start(p) \/ Judge(p) \/ Grab(p) \/ SettleGrab(p) \/ Release(p)
               \/ SettleRelease(p) \/ Crash(p)
      BY <3>4, <2>1, <1>5, <1>t
      DEF Start, Judge, Grab, SettleGrab, Release, SettleRelease, Crash, End, Goto, Owning
    <3>. QED BY <3>1, <3>2, <3>3, <3>4, WithinSteps DEF Step
  <2>2. CASE q # p
    <3>q. pc[q] \in Owning /\ Held(q) /\ Token(q)' = Token(q)
      BY <2>2, <1>5, <1>l, <1>i, <1>k
    <3>r. \A r \in Proc : r = p \/ r = q
      BY <2>2 DEF TwoContenders
    <3>h. \/ lock = Token(q)
          \/ lock = Free /\ pc[p] \in {"grabbed", "released"} /\ trash[p] = Token(q)
      BY <3>q, <3>r DEF Owning
    <3>a. /\ Token(q) # Free /\ Token(q) # Token(p)
          /\ pc[p] = "grabbed" => Token(q) # seen[p]
      <4>. pc[q] # "down"
        BY <3>q DEF Owning
      <4>. QED BY <2>2, <1>i, Tokens
    <3>n. pc[p] \notin Owning
      BY <2>2, <3>q, OneOwner
    <3>1. CASE Start(p) \/ Judge(p)
      <4>. lock' = lock /\ pc[p] \notin {"grabbed", "released"}
        BY <3>1 DEF Start, Judge, lockVars
      <4>. QED BY <3>h, <3>q
    <3>2. CASE Publish(p)
      BY <3>2, <3>h, <3>q, <3>a DEF Publish
    <3>3. CASE Grab(p)
      <4>. lock = Token(q) /\ lock' = Free /\ trash'[p] = Token(q) /\ pc'[p] = "grabbed"
        BY <3>3, <3>h, <3>a, <1>t DEF Grab, Goto
      <4>. QED BY <3>q
    <3>4. CASE SettleGrab(p)
      <4>. lock' = Token(q)
        BY <3>4, <3>h, <3>a DEF SettleGrab, PutBack
      <4>. QED BY <3>q
    <3>5. CASE SettleRelease(p)
      <4>. lock' = Token(q)
        BY <3>5, <3>h, <3>a DEF SettleRelease, PutBack
      <4>. QED BY <3>q
    <3>6. CASE Release(p) \/ CheckOwned(p) \/ Within(p)
      BY <3>6, <3>n DEF Release, CheckOwned, Within, Owning
    <3>7. CASE Crash(p)
      <4>1. lock' = lock /\ ~Restoring(p)
        BY <3>7 DEF Crash, TwoContenders
      <4>2. lock = Token(q)
        BY <4>1, <3>h, <3>a DEF Restoring
      <4>. QED BY <4>1, <4>2, <3>q
    <3>. QED BY <3>1, <3>2, <3>3, <3>4, <3>5, <3>6, <3>7, WithinSteps DEF Step
  <2>. QED BY <2>1, <2>2
<1>. QED BY <1>3, <1>4, <1>5 DEF LockInv

LEMMA LockNext ==
    ASSUME TwoContenders
    PROVE  TypeInv /\ LockInv /\ [Next]_vars => LockInv'
<1>. SUFFICES ASSUME TypeInv, LockInv, [Next]_vars PROVE LockInv'
  OBVIOUS
<1>1. CASE \E p \in Proc : Step(p)
  BY <1>1, LockStep
<1>2. CASE Tick \/ SetBack \/ UNCHANGED vars
  <2>. UNCHANGED <<lock, trash, seen, inst, pc>>
    BY <1>2 DEF Tick, SetBack, vars, lockVars
  <2>. QED BY DEF LockInv, Known, Alive, Token
<1>. QED BY <1>1, <1>2 DEF Next

(* With two contenders, neither of which dies while it has a live lock to  *)
(* put back, at most one process has a request on the wire, for any number *)
(* of deaths, restarts, stale locks and failing writes.                    *)
THEOREM OneFetcherAtATime ==
    ASSUME TwoContenders
    PROVE  Spec => []OneFetcher
<1>1. TypeInv /\ LockInv => OneFetcher
  BY OneOwner DEF OneFetcher, InFlight, Owning
<1>. QED BY TypeInit, TypeStep, LockInit, LockNext, <1>1, PTL DEF Spec

-----------------------------------------------------------------------------
(* Requests.                                                               *)

(* The fields of the states that a run persists. *)
LEMMA StateFields ==
    ASSUME NEW j \in Job
    PROVE  /\ LET s == FinalState(j) IN
              /\ s.attempted = j.used /\ s.received = j.mem.received
              /\ s.captured = j.captures /\ s.done = j.done
              /\ s.lastAt = j.mem.lastAt /\ s.inFlight = j.mem.inFlight
              /\ s.status = "complete" => j.done = Ordinal
           /\ LET s == Marked(j) IN
              /\ s.attempted = j.mem.attempted /\ s.received = j.mem.received
              /\ s.captured = j.mem.captured /\ s.done = j.mem.done
              /\ s.lastAt = Wall /\ s.inFlight = TRUE /\ s.status = j.mem.status
           /\ LET s == Counted(j) IN
              /\ s.attempted = j.used /\ s.received = j.mem.received
              /\ s.captured = j.mem.captured /\ s.done = j.mem.done
              /\ s.lastAt = Wall /\ s.inFlight = FALSE /\ s.status = j.mem.status
           /\ LET s == Settled(j) IN
              /\ s.attempted = j.used /\ s.received = j.mem.received
              /\ s.captured = j.mem.captured /\ s.done = j.mem.done
              /\ s.lastAt = j.anchor /\ s.inFlight = FALSE /\ s.status = j.mem.status
           /\ LET s == [Settled(j) EXCEPT !.received = @ + 1] IN
              /\ s.attempted = j.used /\ s.received = j.mem.received + 1
              /\ s.captured = j.mem.captured /\ s.done = j.mem.done
              /\ s.lastAt = j.anchor /\ s.inFlight = FALSE /\ s.status = j.mem.status
           /\ LET s == AfterCapture(j) IN
              /\ s.attempted = j.used /\ s.received = j.mem.received
              /\ s.captured = j.captures /\ s.done = j.done
              /\ s.lastAt = j.mem.lastAt /\ s.inFlight = j.mem.inFlight
              /\ s.status = j.mem.status
           /\ LET s == [j.mem EXCEPT !.attempted = j.used, !.inFlight = FALSE] IN
              /\ s.attempted = j.used /\ s.received = j.mem.received
              /\ s.captured = j.mem.captured /\ s.done = j.mem.done
              /\ s.lastAt = j.mem.lastAt /\ s.inFlight = FALSE
              /\ s.status = j.mem.status
<1>. j.mem \in RunState
  BY DEF Job
<1>1. LET s == FinalState(j) IN
              /\ s.attempted = j.used /\ s.received = j.mem.received
              /\ s.captured = j.captures /\ s.done = j.done
              /\ s.lastAt = j.mem.lastAt /\ s.inFlight = j.mem.inFlight
              /\ s.status = "complete" => j.done = Ordinal
  BY DEF FinalState, RunState
<1>2. LET s == [Settled(j) EXCEPT !.received = @ + 1] IN
              /\ s.attempted = j.used /\ s.received = j.mem.received + 1
              /\ s.captured = j.mem.captured /\ s.done = j.mem.done
              /\ s.lastAt = j.anchor /\ s.inFlight = FALSE /\ s.status = j.mem.status
  BY DEF Settled, RunState
<1>. QED BY <1>1, <1>2 DEF Marked, Counted, Settled, AfterCapture, RunState

(* A process that has the lock is the only one whose state matters; a step *)
(* of another one leaves the data alone.                                   *)
LEMMA Bystander ==
    ASSUME TypeInv, LockInv, TwoContenders, NEW p \in Proc, Step(p),
           NEW q \in Proc, q # p
    PROVE  /\ pc'[q] = pc[q] /\ job'[q] = job[q]
           /\ \/ UNCHANGED <<runState, pairs, fetches, clock, setBack>>
              \/ pc[q] \notin Owning
<1>1. pc'[q] = pc[q] /\ job'[q] = job[q]
  BY LocalStep
<1>2. CASE Within(p)
  BY <1>1, <1>2, OneOwner DEF Within
<1>3. CASE ~Within(p)
  <2>. UNCHANGED <<runState, pairs, fetches, clock, setBack>>
    BY <1>3, WithinSteps DEF Step, Start, Publish, Judge, Grab, SettleGrab,
        CheckOwned, Release, SettleRelease, Crash, world
  <2>. QED BY <1>1
<1>. QED BY <1>1, <1>2, <1>3

(* A step that is not one within the run leaves the data alone, and its    *)
(* process is not, or not yet, working on the run.                         *)
LEMMA OutsideSteps ==
    ASSUME TypeInv, NEW p \in Proc,
           \/ Start(p) \/ Publish(p) \/ Judge(p) \/ Grab(p) \/ SettleGrab(p)
           \/ CheckOwned(p) \/ Release(p) \/ SettleRelease(p) \/ Crash(p)
    PROVE  /\ UNCHANGED <<runState, pairs, fetches, clock, setBack>>
           /\ pc'[p] \in {"publish", "owned", "judge", "grab", "grabbed", "read",
                          "released", "down"}
<1>. pc \in [Proc -> Label]
  BY DEF TypeInv, TypeOK
<1>. QED BY DEF Start, Publish, Judge, Grab, SettleGrab, CheckOwned, Release,
        SettleRelease, Crash, End, Goto, world

(* What a run-state write has to keep to. *)
LEMMA PersistRequests ==
    ASSUME LocalType, NEW p \in Proc, NEW k \in Job, NEW s \in RunState,
           NEW l \in Continuation, Persist(p, k, s, l),
           UNCHANGED <<fetches, clock, setBack>>,
           Accounts(s),
           l \notin {"seed", "release", "none"} =>
             s.attempted = k.used /\ Len(fetches) <= k.used /\ k.used <= MaxRequests,
           l = "candidate" => (k.used < MaxRequests => Covers(k.anchor)),
           l = "content" => Covers(k.anchor),
           l \in InsideTry => Covers(s.lastAt),
           l \in {"mark", "fetch"} => Len(fetches) + 1 <= k.used /\ Waited,
           l = "fetch" => s.inFlight
    PROVE  RequestsLocal(p)'
<1>1. pc'[p] = "verify" /\ job'[p].mem = s /\ job'[p].next = l
      /\ job'[p].used = k.used /\ job'[p].anchor = k.anchor
  BY PersistEffect
<1>2. (Covers(k.anchor) <=> Covers(k.anchor)') /\ (Covers(s.lastAt) <=> Covers(s.lastAt)')
      /\ (Accounts(s) <=> Accounts(s)') /\ (Waited <=> Waited') /\ Len(fetches)' = Len(fetches)
  BY DEF Covers, Accounts, Waited, LastStart
<1>3. Covers(job[p].anchor)' <=> Covers(k.anchor)'
  BY <1>1 DEF Covers
<1>4. Covers(job[p].mem.lastAt)' <=> Covers(s.lastAt)'
  BY <1>1 DEF Covers
<1>5. Accounts(job[p].mem)' <=> Accounts(s)'
  BY <1>1 DEF Accounts, Covers
<1>. HIDE DEF Covers, Accounts, Waited
<1>. QED BY <1>1, <1>2, <1>3, <1>4, <1>5 DEF RequestsLocal, Writing, InsideTry

LEMMA RequestsInit == Init => RequestsInv
<1>. SUFFICES ASSUME Init PROVE RequestsInv
  OBVIOUS
<1>. fetches = <<>> /\ Len(fetches) = 0 /\ runState = Absent /\ \A p \in Proc : pc[p] = "down"
  BY DEF Init
<1>. RequestsShared
  BY BudgetAssumption DEF RequestsShared, RequestSpacing
<1>. QED BY DEF RequestsInv, RequestsLocal, Writing

LEMMA RequestsStep ==
    ASSUME TypeInv, LockInv, RequestsInv, TwoContenders, NEW p \in Proc, Step(p)
    PROVE  RequestsInv'
<1>. DEFINE j == job[p]
            n == Len(fetches)
            stop == [j EXCEPT !.stopped = TRUE]
            Good == RequestsShared' /\ RequestsLocal(p)'
<1>t. /\ LocalType /\ LocalType' /\ j \in Job /\ clock \in Nat /\ setBack \in 0..MaxSetBack
      /\ runState \in RunState \cup {Absent}
      /\ fetches \in Seq([at : Nat, ord : Ordinal]) /\ n \in Nat
      /\ MaxRequests \in Nat /\ Delay \in Nat /\ MaxSetBack \in Nat
  <2>1. MaxRequests \in Nat /\ Delay \in Nat /\ MaxSetBack \in Nat
    BY BudgetAssumption
  <2>2. LocalType'
    BY LocalStep
  <2>3. /\ LocalType /\ j \in Job /\ clock \in Nat /\ setBack \in 0..MaxSetBack
        /\ runState \in RunState \cup {Absent}
        /\ fetches \in Seq([at : Nat, ord : Ordinal])
    BY DEF TypeInv, TypeOK, LocalType
  <2>. QED BY <2>1, <2>2, <2>3
<1>j. /\ j.used \in Nat /\ j.mem \in RunState /\ j.anchor \in Int /\ j.wake \in Int
      /\ j.next \in Continuation
      /\ j.mem.attempted \in Nat /\ j.mem.lastAt \in Int /\ j.mem.inFlight \in BOOLEAN
  BY <1>t DEF Job, RunState
<1>w. Wall \in Int /\ Wall = 1 + MaxSetBack + clock - setBack
  BY WallType, <1>t DEF Wall
<1>l. fetches # <<>> => LastStart \in Nat
  <2>. SUFFICES ASSUME fetches # <<>> PROVE LastStart \in Nat
    OBVIOUS
  <2>. PICK m \in Nat : m = Len(fetches) /\ m \in 1 .. Len(fetches)
    BY <1>t
  <2>. fetches[m] \in [at : Nat, ord : Ordinal]
    BY <1>t, ElementOfSeq
  <2>. QED BY DEF LastStart
<1>i. RequestsShared /\ RequestsLocal(p)
  BY DEF RequestsInv
<1>c. Covers(Wall)
  BY <1>i, <1>w, <1>l, <1>t DEF RequestsShared, Covers
<1>s. /\ stop \in Job /\ stop.used = j.used /\ stop.anchor = j.anchor /\ stop.mem = j.mem
      /\ stop.done = j.done /\ stop.captures = j.captures
  BY <1>t DEF Job
<1>y. /\ FinalState(j) \in RunState /\ FinalState(stop) \in RunState /\ Marked(j) \in RunState
      /\ Counted(j) \in RunState /\ Settled(j) \in RunState
      /\ [Settled(j) EXCEPT !.received = @ + 1] \in RunState
      /\ [j.mem EXCEPT !.attempted = j.used, !.inFlight = FALSE] \in RunState
      /\ FreshState \in RunState
  BY <1>t, <1>s, StateTypes
<1>q. ASSUME Good PROVE RequestsInv'
  <2>. ASSUME NEW q \in Proc, q # p PROVE RequestsLocal(q)'
    <3>1. pc'[q] = pc[q] /\ job'[q] = job[q]
      BY Bystander
    <3>2. CASE UNCHANGED <<runState, pairs, fetches, clock, setBack>>
      <4>. RequestsLocal(q)
        BY DEF RequestsInv
      <4>. QED BY <3>1, <3>2 DEF RequestsLocal, Writing, Accounts, Covers, Waited, LastStart
    <3>3. CASE pc[q] \notin Owning
      BY <3>1, <3>3 DEF RequestsLocal, Writing, Owning
    <3>. QED BY <3>2, <3>3, Bystander
  <2>. QED BY <1>q DEF RequestsInv
(* Steps that leave the data alone. *)
<1>u. ASSUME UNCHANGED <<runState, fetches, clock, setBack>> PROVE RequestsShared'
  BY <1>u, <1>i DEF RequestsShared, RequestSpacing, Accounts, Covers, LastStart
<1>n. ASSUME UNCHANGED <<runState, fetches, clock, setBack>>,
             pc'[p] \in {"release", "down", "released", "publish", "owned", "judge",
                        "grab", "grabbed", "read"}
      PROVE  Good
  BY <1>u, <1>n DEF RequestsLocal, Writing
<1>f. ASSUME Finish(p, j) \/ Finish(p, stop), UNCHANGED <<runState, fetches, clock, setBack>>,
             Accounts(j.mem), j.mem.attempted = j.used, n <= j.used, j.used <= MaxRequests
      PROVE  Good
  <2>1. /\ FinalState(j).attempted = j.used /\ FinalState(j).lastAt = j.mem.lastAt
        /\ FinalState(j).inFlight = j.mem.inFlight
        /\ FinalState(stop).attempted = j.used /\ FinalState(stop).lastAt = j.mem.lastAt
        /\ FinalState(stop).inFlight = j.mem.inFlight
    <3>1. ASSUME NEW k \in Job
          PROVE  /\ FinalState(k).attempted = k.used
                 /\ FinalState(k).lastAt = k.mem.lastAt
                 /\ FinalState(k).inFlight = k.mem.inFlight
      BY StateFields
    <3>. HIDE DEF j, stop
    <3>. QED BY <3>1, <1>s, <1>t
  <2>4. Accounts(FinalState(j)) /\ Accounts(FinalState(stop))
    BY <2>1, <1>f DEF Accounts
  <2>2. CASE Finish(p, j)
    <3>. Persist(p, j, FinalState(j), "release")
      BY <2>2 DEF Finish
    <3>. QED BY <2>1, <2>4, <1>t, <1>y, <1>u, <1>f, PersistRequests DEF InsideTry, Continuation
  <2>3. CASE Finish(p, stop)
    <3>. Persist(p, stop, FinalState(stop), "release")
      BY <2>3 DEF Finish
    <3>. QED BY <2>1, <2>4, <1>t, <1>y, <1>s, <1>u, <1>f, PersistRequests DEF InsideTry, Continuation
  <2>. QED BY <1>f, <2>2, <2>3
<1>e. ASSUME WriteError(p), pc[p] \in {"verify", "write"},
             UNCHANGED <<runState, fetches, clock, setBack>>
      PROVE  Good
  <2>1. CASE j.next \in InsideTry
    <3>. DEFINE s == [j.mem EXCEPT !.attempted = j.used, !.inFlight = FALSE]
    <3>1. Persist(p, stop, s, "final")
      BY <2>1, <1>e DEF WriteError
    <3>2. s.attempted = j.used /\ s.lastAt = j.mem.lastAt /\ s.inFlight = FALSE
      BY StateFields, <1>t
    <3>3. n <= j.used /\ j.used <= MaxRequests /\ Covers(j.mem.lastAt)
      BY <1>i, <1>e, <2>1 DEF RequestsLocal, Writing, InsideTry
    <3>4. Accounts(s)
      BY <3>2, <3>3 DEF Accounts
    <3>5. s \in RunState
      BY <1>y
    <3>. HIDE DEF s
    <3>. QED BY <3>1, <3>2, <3>3, <3>4, <3>5, <1>t, <1>s, <1>u, <1>e, PersistRequests DEF InsideTry, Continuation
  <2>2. CASE j.next \notin InsideTry
    <3>. Goto(p, "release")
      BY <2>2, <1>e DEF WriteError
    <3>. QED BY <1>n, <1>e, <1>t DEF Goto, LocalType
  <2>. QED BY <2>1, <2>2
<1>. SUFFICES Good
  BY <1>q
<1>. HIDE DEF Good
<1>1. CASE \/ Start(p) \/ Publish(p) \/ Judge(p) \/ Grab(p) \/ SettleGrab(p)
           \/ CheckOwned(p) \/ Release(p) \/ SettleRelease(p) \/ Crash(p)
  BY <1>1, <1>n, OutsideSteps
<1>9. CASE Verify(p)
  <2>0. UNCHANGED <<runState, fetches, clock, setBack>> /\ pc[p] = "verify"
    BY <1>9 DEF Verify, world
  <2>1. CASE lock = Token(p)
    <3>. pc'[p] = "write" /\ job' = job
      BY <1>9, <2>1, <1>t DEF Verify, Goto, LocalType
    <3>. RequestsLocal(p)'
      BY <2>0, <1>i DEF RequestsLocal, Writing, Accounts, Covers, Waited, LastStart
    <3>. QED BY <2>0, <1>u DEF Good
  <2>2. CASE lock # Token(p)
    BY <1>9, <2>0, <2>2, <1>e DEF Verify
  <2>. QED BY <2>1, <2>2
<1>10. CASE WriteFails(p)
  <2>. UNCHANGED <<runState, fetches, clock, setBack>> /\ WriteError(p) /\ pc[p] = "write"
    BY <1>10 DEF WriteFails, world
  <2>. QED BY <1>e
<1>11. CASE Write(p)
  <2>0. UNCHANGED <<fetches, clock, setBack>> /\ pc[p] = "write" /\ runState' = j.mem
    BY <1>11 DEF Write, world
  <2>a. Accounts(j.mem)
    BY <2>0, <1>i DEF RequestsLocal
  <2>b. RequestsShared'
    <3>. j.mem # Absent
      BY <1>j, AbsentAssumption
    <3>. Accounts(runState)'
      BY <2>0, <2>a DEF Accounts, Covers, LastStart
    <3>. QED BY <2>0, <1>i DEF RequestsShared, RequestSpacing, LastStart
  <2>1. CASE j.next = "mark"
    <3>1. Persist(p, j, Marked(j), "fetch")
      BY <1>11, <2>1 DEF Write
    <3>2. Marked(j).attempted = j.mem.attempted /\ Marked(j).lastAt = Wall /\ Marked(j).inFlight
      BY StateFields, <1>t
    <3>3. /\ j.mem.attempted = j.used /\ n <= j.used /\ j.used <= MaxRequests
          /\ n + 1 <= j.used /\ Waited
      BY <1>i, <2>0, <2>1 DEF RequestsLocal, Writing
    <3>4. Accounts(Marked(j))
      BY <3>2, <3>3 DEF Accounts
    <3>5. RequestsLocal(p)'
      BY <3>1, <3>2, <3>3, <3>4, <1>c, <1>t, <1>y, <2>0, PersistRequests DEF Continuation, InsideTry
    <3>. QED BY <3>5, <2>b DEF Good
  <2>2. CASE j.next = "final"
    <3>1. Persist(p, j, FinalState(j), "release")
      BY <1>11, <2>2 DEF Write, Finish
    <3>2. /\ FinalState(j).attempted = j.used /\ FinalState(j).lastAt = j.mem.lastAt
          /\ FinalState(j).inFlight = j.mem.inFlight
      BY StateFields, <1>t
    <3>3. j.mem.attempted = j.used /\ n <= j.used /\ j.used <= MaxRequests
      BY <1>i, <2>0, <2>2 DEF RequestsLocal, Writing
    <3>4. Accounts(FinalState(j))
      BY <3>2, <3>3, <2>a DEF Accounts
    <3>5. RequestsLocal(p)'
      BY <3>1, <3>2, <3>3, <3>4, <1>t, <1>y, <2>0, PersistRequests DEF Continuation, InsideTry
    <3>. QED BY <3>5, <2>b DEF Good
  <2>3. CASE j.next \notin {"mark", "final"}
    <3>1. pc'[p] = j.next /\ job' = job
      BY <1>11, <2>3, <1>t DEF Write, Goto, LocalType
    <3>2. j.next # "none"
      BY <2>0 DEF TypeInv, JobFits
    <3>3. \A a : (Covers(a)' <=> Covers(a))
      BY <2>0 DEF Covers, LastStart
    <3>4. Waited' <=> Waited
      BY <2>0 DEF Waited, LastStart
    <3>5. Accounts(job[p].mem)' /\ runState' # Absent
      BY <2>0, <2>a, <3>1, <1>j, AbsentAssumption DEF Accounts, Covers, LastStart
    <3>6. (Covers(job[p].anchor))' <=> Covers(j.anchor)
      BY <2>0, <3>1 DEF Covers, LastStart
    <3>7. n' = n /\ job'[p] = j
      BY <2>0, <3>1
    <3>8. RequestsLocal(p)'
      BY <2>0, <2>a, <2>3, <3>1, <3>2, <3>4, <3>5, <3>6, <3>7, <1>i, <1>j
      DEF RequestsLocal, Writing, Continuation
    <3>. QED BY <3>8, <2>b DEF Good
  <2>. QED BY <2>1, <2>2, <2>3
<1>12. CASE ReadRunState(p)
  <2>0. UNCHANGED <<runState, fetches, clock, setBack>> /\ pc[p] = "read"
    BY <1>12 DEF ReadRunState, world
  <2>1. CASE runState = Absent /\ ~(\E o \in Ordinal : pairs[o] # "absent")
    <3>1. Persist(p, j, FreshState, "seed")
      BY <1>12, <2>1 DEF ReadRunState
    <3>2. Accounts(FreshState)
      BY <2>1, <1>i, <1>t DEF RequestsShared, Accounts, Covers, FreshState
    <3>3. RequestsLocal(p)'
      BY <3>1, <3>2, <1>t, <1>y, <2>0, PersistRequests DEF Continuation, InsideTry
    <3>. QED BY <3>3, <2>0, <1>u DEF Good
  <2>2. CASE runState # Absent /\ ReadableState(runState)
    <3>. job' = [job EXCEPT ![p].mem = runState] /\ Goto(p, "seed")
      BY <1>12, <2>2 DEF ReadRunState
    <3>. pc'[p] = "seed" /\ job'[p].mem = runState
      BY <1>t DEF Goto, LocalType, Job
    <3>. RequestsLocal(p)'
      BY <2>0, <2>2 DEF RequestsLocal, Writing
    <3>. QED BY <2>0, <1>u DEF Good
  <2>3. CASE ~(runState = Absent /\ ~(\E o \in Ordinal : pairs[o] # "absent"))
             /\ ~(runState # Absent /\ ReadableState(runState))
    <3>. Goto(p, "release")
      BY <1>12, <2>3 DEF ReadRunState
    <3>. QED BY <1>n, <2>0, <1>t DEF Goto, LocalType
  <2>. QED BY <2>1, <2>2, <2>3
<1>13. CASE Seed(p)
  <2>0. UNCHANGED <<runState, fetches, clock, setBack>> /\ pc[p] = "seed"
    BY SMTT(40), <1>13 DEF Seed, world
  <2>1. /\ pc'[p] = "candidate" /\ job'[p].mem = j.mem
        /\ job'[p].used = j.mem.attempted /\ job'[p].anchor = ResumeAnchor(j.mem)
    BY <1>13, <1>t DEF Seed, Goto, LocalType, Job
  <2>2. Accounts(j.mem)
    BY <2>0, <1>i DEF RequestsLocal, RequestsShared
  <2>3. j.mem.attempted < MaxRequests => Covers(ResumeAnchor(j.mem))
    <3>1. CASE j.mem.attempted = 0
      BY <3>1, <2>2, <1>t DEF Accounts, Covers
    <3>2. CASE j.mem.attempted # 0 /\ j.mem.inFlight
      BY <3>2, <1>c DEF ResumeAnchor
    <3>3. CASE j.mem.attempted # 0 /\ ~j.mem.inFlight
      BY <3>3, <2>2, <1>j, <1>t DEF ResumeAnchor, Accounts
    <3>. QED BY <3>1, <3>2, <3>3
  <2>4. /\ Accounts(job[p].mem)'
        /\ job'[p].used < MaxRequests => (Covers(job[p].anchor))'
        /\ n' = n
    BY <2>0, <2>1, <2>2, <2>3 DEF Accounts, Covers, LastStart
  <2>6. n <= j.mem.attempted /\ j.mem.attempted <= MaxRequests
    BY <2>2 DEF Accounts
  <2>7. /\ job'[p].mem.attempted = job'[p].used
        /\ n' <= job'[p].used /\ job'[p].used <= MaxRequests
    BY <2>1, <2>4, <2>6
  <2>5. RequestsLocal(p)'
    BY <2>1, <2>4, <2>7 DEF RequestsLocal, Writing
  <2>. QED BY <2>5, <2>0, <1>u DEF Good
<1>14. CASE AdoptPair(p)
  <2>0. UNCHANGED <<runState, fetches, clock, setBack>> /\ pc[p] = "candidate" /\ pc' = pc
    BY <1>14 DEF AdoptPair, world
  <2>1. job'[p].mem = j.mem /\ job'[p].used = j.used /\ job'[p].anchor = j.anchor
    BY <1>14, <1>t DEF AdoptPair, LocalType, Job
  <2>2. RequestsLocal(p)'
    BY <2>0, <2>1, <1>i DEF RequestsLocal, Writing, Accounts, Covers, LastStart
  <2>. QED BY <2>2, <2>0, <1>u DEF Good
<1>15. CASE RefusePair(p) \/ PlanDone(p) \/ RejectContent(p) \/ PairFails(p)
            \/ (KeepPayload(p) /\ pairs[j.ord] # "absent")
  <2>1. UNCHANGED <<runState, fetches, clock, setBack>> /\ (Finish(p, j) \/ Finish(p, stop))
        /\ pc[p] \in {"candidate", "content", "pair", "manifest"}
    BY <1>15 DEF RefusePair, PlanDone, RejectContent, PairFails, KeepPayload, world
  <2>. QED BY <2>1, <1>i, <1>f DEF RequestsLocal
<1>16. CASE Request(p)
  <2>0. UNCHANGED <<runState, fetches, clock, setBack>> /\ pc[p] = "candidate"
    BY <1>16 DEF Request, world
  <2>i. /\ Accounts(j.mem) /\ n <= j.used /\ j.used <= MaxRequests
        /\ j.used < MaxRequests => Covers(j.anchor)
    BY <2>0, <1>i DEF RequestsLocal
  <2>1. CASE MayRequest(j)
    <3>1. pc'[p] = "wait" /\ job'[p].used = j.used + 1 /\ job'[p].wake = WaitFrom(j.anchor)
      BY <1>16, <2>1, <1>t DEF Request, Goto, LocalType, Job
    <3>2. ASSUME fetches # <<>> PROVE WaitFrom(j.anchor) >= LastStart + Delay
      <4>1. /\ j.anchor >= 1 + MaxSetBack - setBack + LastStart
            /\ LastStart <= clock /\ LastStart \in Nat
        BY <3>2, <2>i, <2>1, <1>i, <1>l DEF MayRequest, Covers, RequestsShared
      <4>. QED BY SMTT(40), <4>1, <1>w, <1>t, <1>j DEF WaitFrom
    <3>3. RequestsLocal(p)'
      BY <3>1, <3>2, <2>0, <2>i, <2>1, <1>t, <1>j DEF RequestsLocal, Writing, MayRequest, LastStart
    <3>. QED BY <3>3, <2>0, <1>u DEF Good
  <2>2. CASE ~MayRequest(j)
    <3>. DEFINE s == [j.mem EXCEPT !.attempted = j.used, !.inFlight = FALSE]
    <3>1. Persist(p, stop, s, "final")
      BY <1>16, <2>2 DEF Request
    <3>2. s.attempted = j.used /\ s.lastAt = j.mem.lastAt
      BY StateFields, <1>t
    <3>3. j.used = MaxRequests
      BY <2>2, <2>i, <1>t, <1>j DEF MayRequest
    <3>4. Accounts(s)
      BY <3>2, <3>3, <2>i DEF Accounts
    <3>5. s \in RunState
      BY <1>y
    <3>. HIDE DEF s
    <3>6. RequestsLocal(p)'
      BY <3>1, <3>2, <3>4, <3>5, <2>0, <2>i, <1>t, <1>s, PersistRequests DEF InsideTry, Continuation
    <3>. QED BY <3>6, <2>0, <1>u DEF Good
  <2>. QED BY <2>1, <2>2
<1>18. CASE BeforeFetch(p)
  <2>0. UNCHANGED <<runState, fetches, clock, setBack>> /\ pc[p] = "wait" /\ clock >= j.wake
        /\ Persist(p, j, Counted(j), "mark")
    BY <1>18 DEF BeforeFetch, world
  <2>1. Counted(j).attempted = j.used /\ Counted(j).lastAt = Wall
    BY StateFields, <1>t
  <2>2. /\ n + 1 <= j.used /\ j.used <= MaxRequests
        /\ fetches # <<>> => j.wake >= LastStart + Delay
    BY <2>0, <1>i DEF RequestsLocal
  <2>3. Waited
    BY SMTT(40), <2>0, <2>2, <1>l, <1>t, <1>j DEF Waited
  <2>4. Accounts(Counted(j)) /\ n <= j.used
    BY SMTT(40), <2>1, <2>2, <1>c, <1>t, <1>j DEF Accounts
  <2>5. RequestsLocal(p)'
    BY <2>0, <2>1, <2>2, <2>3, <2>4, <1>c, <1>t, <1>y, PersistRequests DEF InsideTry, Continuation
  <2>. QED BY <2>5, <2>0, <1>u DEF Good
<1>19. CASE BeginFetch(p)
  <2>0. /\ UNCHANGED <<runState, clock, setBack>> /\ pc[p] = "fetch"
        /\ fetches' = Append(fetches, [at |-> clock, ord |-> j.ord])
    BY <1>19 DEF BeginFetch, world
  <2>1. pc'[p] = "inFlight" /\ job'[p].mem = j.mem /\ job'[p].used = j.used
        /\ job'[p].anchor = Wall
    BY <1>19, <1>t DEF BeginFetch, Goto, LocalType, Job
  <2>2. /\ runState # Absent /\ runState = j.mem /\ j.mem.inFlight
        /\ j.mem.attempted = j.used /\ n + 1 <= j.used /\ j.used <= MaxRequests /\ Waited
    BY <2>0, <1>i DEF RequestsLocal
  <2>o. j.ord \in Ordinal
    BY <2>0 DEF TypeInv, JobFits, OnCandidate
  <2>3. /\ Len(fetches') = n + 1 /\ fetches'[n + 1].at = clock
        /\ \A i \in 1 .. n : fetches'[i] = fetches[i]
    <3>. DEFINE e == [at |-> clock, ord |-> j.ord]
    <3>1. e \in [at : Nat, ord : Ordinal] /\ e.at = clock
      BY <2>o, <1>t
    <3>. HIDE DEF e
    <3>. fetches' = Append(fetches, e)
      BY <2>0 DEF e
    <3>. QED BY <3>1, <1>t, AppendProperties
  <2>4. LastStart' = clock
    BY <2>3, <1>t DEF LastStart
  <2>5. RequestSpacing'
    <3>. SUFFICES ASSUME NEW i \in 1 .. n PROVE fetches'[i + 1].at - fetches'[i].at >= Delay
      BY <2>3, <1>t DEF RequestSpacing
    <3>1. CASE i = n
      <4>. fetches # <<>> /\ fetches'[n].at = LastStart
        BY <3>1, <2>3, <1>t DEF LastStart
      <4>. LastStart \in Nat /\ clock >= LastStart + Delay
        BY <2>2, <1>l DEF Waited
      <4>. QED BY <3>1, <2>3, <1>t
    <3>2. CASE i # n
      <4>. i \in 1 .. n - 1 /\ i + 1 \in 1 .. n
        BY <3>2, <1>t
      <4>. fetches[i + 1].at - fetches[i].at >= Delay
        BY <1>i DEF RequestsShared, RequestSpacing
      <4>. QED BY <2>3
    <3>. QED BY <3>1, <3>2
  <2>6. Accounts(runState)'
    BY <2>0, <2>2, <2>3 DEF Accounts
  <2>7. RequestsShared'
    BY <2>0, <2>2, <2>3, <2>4, <2>5, <2>6, <1>t, <1>j DEF RequestsShared
  <2>8. Covers(job[p].anchor)'
    BY SMTT(40), <2>0, <2>1, <2>4, <1>w, <1>t DEF Covers
  <2>9. RequestsLocal(p)'
    BY <2>1, <2>2, <2>3, <2>8, <1>t, <1>j DEF RequestsLocal, Writing
  <2>. QED BY <2>7, <2>9 DEF Good
<1>20. CASE Respond(p) \/ FetchFails(p)
  <2>. DEFINE r == [Settled(j) EXCEPT !.received = @ + 1]
  <2>0. /\ UNCHANGED <<runState, fetches, clock, setBack>> /\ pc[p] = "inFlight"
        /\ Persist(p, j, r, "content") \/ Persist(p, stop, Settled(j), "final")
    BY <1>20 DEF Respond, FetchFails, world
  <2>1. /\ Settled(j).attempted = j.used /\ Settled(j).lastAt = j.anchor
        /\ r.attempted = j.used /\ r.lastAt = j.anchor
    BY StateFields, <1>t
  <2>2. n <= j.used /\ j.used <= MaxRequests /\ Covers(j.anchor)
    BY <2>0, <1>i DEF RequestsLocal
  <2>r. r \in RunState /\ Settled(j) \in RunState
    BY <1>y
  <2>. HIDE DEF r
  <2>3. Accounts(Settled(j)) /\ Accounts(r)
    BY <2>1, <2>2 DEF Accounts
  <2>4. CASE Persist(p, j, r, "content")
    <3>. RequestsLocal(p)'
      BY <2>0, <2>1, <2>2, <2>3, <2>4, <2>r, <1>t, PersistRequests DEF InsideTry, Continuation
    <3>. QED BY <2>0, <1>u DEF Good
  <2>5. CASE Persist(p, stop, Settled(j), "final")
    <3>. RequestsLocal(p)'
      BY <2>0, <2>1, <2>2, <2>3, <2>5, <2>r, <1>t, <1>s, PersistRequests DEF InsideTry, Continuation
    <3>. QED BY <2>0, <1>u DEF Good
  <2>. QED BY <2>0, <2>4, <2>5
<1>23. CASE AcceptContent(p) \/ (KeepPayload(p) /\ pairs[j.ord] = "absent")
  <2>0. UNCHANGED <<runState, fetches, clock, setBack, job>> /\ pc[p] \in {"content", "pair"}
        /\ (Goto(p, "pair") \/ Goto(p, "manifest"))
    BY <1>23 DEF AcceptContent, KeepPayload, world
  <2>1. pc'[p] \in {"pair", "manifest"}
    BY <2>0, <1>t DEF Goto, LocalType
  <2>2. RequestsLocal(p)'
    BY <2>0, <2>1, <1>i DEF RequestsLocal, Writing, Accounts, Covers, LastStart
  <2>. QED BY <2>2, <2>0, <1>u DEF Good
<1>25. CASE KeepManifest(p)
  <2>. DEFINE k == [j EXCEPT !.captures = @ + 1, !.done = @ \cup {j.ord}, !.ord = @ + 1]
  <2>0. UNCHANGED <<runState, fetches, clock, setBack>> /\ pc[p] = "manifest"
        /\ Persist(p, k, AfterCapture(k), "candidate")
    BY <1>25 DEF KeepManifest, world
  <2>o. j.ord \in Ordinal
    BY <2>0 DEF TypeInv, JobFits, OnCandidate
  <2>p. j.ord + 1 \in Nat \ {0} /\ j.captures + 1 \in Nat /\ j.done \cup {j.ord} \in SUBSET Ordinal
    BY <2>o, <1>t DEF Job, Ordinal
  <2>k. k \in Job /\ k.used = j.used /\ k.anchor = j.anchor /\ k.mem = j.mem
    BY <2>p, <1>t DEF Job
  <2>. HIDE DEF k
  <2>a. ASSUME NEW m \in Job
        PROVE  /\ AfterCapture(m).attempted = m.used /\ AfterCapture(m).lastAt = m.mem.lastAt
               /\ AfterCapture(m).inFlight = m.mem.inFlight
    BY StateFields
  <2>1. /\ AfterCapture(k).attempted = j.used /\ AfterCapture(k).lastAt = j.mem.lastAt
        /\ AfterCapture(k).inFlight = j.mem.inFlight /\ AfterCapture(k) \in RunState
    <3>1. AfterCapture(k) \in RunState
      BY <2>k, <1>t, StateTypes
    <3>. HIDE DEF j
    <3>. QED BY <3>1, <2>k, <2>a
  <2>2. /\ Accounts(j.mem) /\ j.mem.attempted = j.used
        /\ n <= j.used /\ j.used <= MaxRequests /\ Covers(j.anchor)
    BY <2>0, <1>i DEF RequestsLocal
  <2>3. Accounts(AfterCapture(k))
    BY <2>1, <2>2 DEF Accounts
  <2>4. RequestsLocal(p)'
    BY <2>0, <2>1, <2>2, <2>3, <2>k, <1>t, PersistRequests DEF InsideTry, Continuation
  <2>. QED BY <2>4, <2>0, <1>u DEF Good
<1>26. KeepPayload(p) => pairs[j.ord] = "absent" \/ pairs[j.ord] # "absent"
  OBVIOUS
<1>. QED BY <1>1, <1>9, <1>10, <1>11, <1>12, <1>13, <1>14, <1>15, <1>16, <1>18, <1>19,
             <1>20, <1>23, <1>25, <1>26 DEF Step

LEMMA RequestsNext ==
    ASSUME TwoContenders
    PROVE  TypeInv /\ LockInv /\ RequestsInv /\ [Next]_vars => RequestsInv'
<1>. SUFFICES ASSUME TypeInv, LockInv, RequestsInv, [Next]_vars PROVE RequestsInv'
  OBVIOUS
<1>t. clock \in Nat /\ setBack \in Int /\ MaxSetBack \in Int /\ Delay \in Nat
      /\ fetches \in Seq([at : Nat, ord : Ordinal])
  BY BudgetAssumption DEF TypeInv, TypeOK
<1>1. CASE \E p \in Proc : Step(p)
  BY <1>1, RequestsStep
<1>2. CASE Tick \/ SetBack \/ UNCHANGED vars
  <2>1. /\ UNCHANGED <<runState, fetches, pc, job>>
        /\ clock' \in {clock, clock + 1} /\ setBack' \in {setBack, setBack + 1}
    BY <1>2 DEF Tick, SetBack, vars, lockVars
  <2>2. fetches # <<>> => LastStart \in Nat
    <3>. SUFFICES ASSUME fetches # <<>> PROVE LastStart \in Nat
      OBVIOUS
    <3>. PICK m \in Nat : m = Len(fetches) /\ m \in 1 .. Len(fetches)
      BY <1>t
    <3>. fetches[m] \in [at : Nat, ord : Ordinal]
      BY <1>t, ElementOfSeq
    <3>. QED BY DEF LastStart
  <2>3. \A a \in Int : Covers(a) => Covers(a)'
    BY <2>1, <2>2, <1>t DEF Covers, LastStart
  <2>4. Waited => Waited'
    BY <2>1, <2>2, <1>t DEF Waited, LastStart
  <2>5. \A s \in RunState : Accounts(s) => Accounts(s)'
    BY <2>1, <2>3 DEF Accounts, RunState
  <2>6. RequestsShared'
    BY <2>1, <2>2, <2>5, <1>t DEF RequestsInv, RequestsShared, RequestSpacing, LastStart, TypeInv, TypeOK
  <2>7. ASSUME NEW p \in Proc PROVE RequestsLocal(p)'
    <3>1. /\ job[p].mem \in RunState /\ job[p].anchor \in Int /\ job[p].mem.lastAt \in Int
          /\ job' = job /\ pc' = pc /\ Len(fetches)' = Len(fetches) /\ LastStart' = LastStart
      BY <2>1 DEF TypeInv, TypeOK, Job, RunState, LastStart
    <3>2. /\ Accounts(job[p].mem) => Accounts(job[p].mem)'
          /\ Covers(job[p].anchor) => Covers(job[p].anchor)'
          /\ Covers(job[p].mem.lastAt) => Covers(job[p].mem.lastAt)'
      BY <3>1, <2>3, <2>5 DEF Accounts, Covers
    <3>3. RequestsLocal(p)
      BY DEF RequestsInv
    <3>. HIDE DEF Accounts, Covers, Waited
    <3>. QED BY <3>1, <3>2, <3>3, <2>1, <2>4 DEF RequestsLocal, Writing
  <2>. QED BY <2>6, <2>7 DEF RequestsInv
<1>. QED BY <1>1, <1>2 DEF Next

(* With two contenders, every request that was sent stands in the run      *)
(* state that the next process reads, and the budget is never exceeded,    *)
(* for any number of deaths, restarts and failing writes.                  *)
THEOREM RequestsAccounted ==
    ASSUME TwoContenders
    PROVE  Spec => []RequestsRecorded
<1>1. RequestsInv => RequestsRecorded
  BY DEF RequestsInv, RequestsShared, Accounts, RequestsRecorded
<1>. QED BY TypeInit, TypeStep, LockInit, LockNext, RequestsInit, RequestsNext, <1>1, PTL DEF Spec

(* The starts of any two consecutive requests are the minimum delay apart, *)
(* whichever processes sent them and however far the clock was set back.   *)
THEOREM RequestsSpaced ==
    ASSUME TwoContenders
    PROVE  Spec => []RequestSpacing
<1>1. RequestsInv => RequestSpacing
  BY DEF RequestsInv, RequestsShared
<1>. QED BY TypeInit, TypeStep, LockInit, LockNext, RequestsInit, RequestsNext, <1>1, PTL DEF Spec

-----------------------------------------------------------------------------
(* Captures.                                                               *)

LEMMA OrdinalsFinite ==
    /\ IsFiniteSet(Ordinal)
    /\ \A S \in SUBSET Ordinal : IsFiniteSet(S) /\ Cardinality(S) \in Nat
<1>. PlanSize \in Int
  BY BudgetAssumption
<1>. IsFiniteSet(Ordinal)
  BY FS_Interval DEF Ordinal
<1>. QED BY FS_Subset, FS_CardinalityType

LEMMA AddCapture ==
    ASSUME NEW S \in SUBSET Ordinal, NEW o \in Ordinal
    PROVE  Cardinality(S \cup {o}) = IF o \in S THEN Cardinality(S) ELSE Cardinality(S) + 1
BY OrdinalsFinite, FS_AddElement

(* What a run-state write has to keep to. *)
LEMMA PersistCaptures ==
    ASSUME LocalType, NEW p \in Proc, NEW k \in Job, NEW s \in RunState,
           NEW l \in Continuation, Persist(p, k, s, l),
           FaithfulTo(s, Kept', Complete'),
           l \notin {"seed", "release"} =>
             /\ k.captures = Cardinality(k.done)
             /\ s.done \subseteq k.done /\ k.done \subseteq Complete',
           l \in {"mark", "fetch"} =>
             s.received + 1 <= k.used /\ pairs'[k.ord] = "absent",
           l = "content" => Cardinality(Kept') + 1 <= s.received
    PROVE  CapturesLocal(p)'
<1>1. pc'[p] = "verify" /\ job'[p].mem = s /\ job'[p].next = l
      /\ job'[p].used = k.used /\ job'[p].captures = k.captures
      /\ job'[p].done = k.done /\ job'[p].ord = k.ord
  BY PersistEffect
<1>2. Faithful(job[p].mem)'
  BY <1>1 DEF Faithful
<1>. HIDE DEF Faithful, Kept, Complete
<1>. QED BY <1>1, <1>2 DEF CapturesLocal, Writing

LEMMA CapturesInit == Init => CapturesInv
BY DEF Init, CapturesInv, CapturesShared, CapturesLocal, Kept, Writing, Working, Owning

LEMMA CapturesStep ==
    ASSUME TypeInv, LockInv, RequestsInv, CapturesInv, TwoContenders,
           NEW p \in Proc, Step(p)
    PROVE  CapturesInv'
<1>. DEFINE j == job[p]
            stop == [j EXCEPT !.stopped = TRUE]
            Good == CapturesShared' /\ CapturesLocal(p)'
<1>t. /\ LocalType /\ j \in Job /\ clock \in Nat /\ setBack \in 0..MaxSetBack
      /\ runState \in RunState \cup {Absent}
      /\ pairs \in [Ordinal -> {"absent", "partial", "complete"}]
  BY DEF TypeInv, TypeOK, LocalType
<1>j. /\ j.used \in Nat /\ j.mem \in RunState /\ j.captures \in Nat
      /\ j.done \in SUBSET Ordinal /\ j.anchor \in Int /\ j.next \in Continuation
      /\ j.mem.attempted \in Nat /\ j.mem.received \in Nat /\ j.mem.captured \in Nat
      /\ j.mem.done \in SUBSET Ordinal /\ j.mem.lastAt \in Int
  BY <1>t DEF Job, RunState
<1>w. Wall \in Int /\ Wall > 0
  BY WallType, <1>t
<1>i. CapturesShared /\ CapturesLocal(p) /\ RequestsLocal(p)
  BY DEF CapturesInv, RequestsInv
<1>c. Kept \in SUBSET Ordinal /\ Complete \in SUBSET Ordinal /\ Cardinality(Kept) \in Nat
  BY OrdinalsFinite DEF Kept, Complete
<1>s. /\ stop \in Job /\ stop.used = j.used /\ stop.mem = j.mem /\ stop.ord = j.ord
      /\ stop.done = j.done /\ stop.captures = j.captures
  BY <1>t DEF Job
<1>y. /\ FinalState(j) \in RunState /\ FinalState(stop) \in RunState /\ Marked(j) \in RunState
      /\ Counted(j) \in RunState /\ Settled(j) \in RunState
      /\ [Settled(j) EXCEPT !.received = @ + 1] \in RunState
      /\ [j.mem EXCEPT !.attempted = j.used, !.inFlight = FALSE] \in RunState
      /\ FreshState \in RunState
  BY <1>t, <1>s, StateTypes
<1>v. OnCandidate(p) => j.ord \in Ordinal
  BY DEF TypeInv, JobFits
<1>q. ASSUME Good PROVE CapturesInv'
  <2>. ASSUME NEW q \in Proc, q # p PROVE CapturesLocal(q)'
    <3>1. pc'[q] = pc[q] /\ job'[q] = job[q]
      BY Bystander
    <3>2. CASE UNCHANGED <<runState, pairs, fetches, clock, setBack>>
      <4>. CapturesLocal(q)
        BY DEF CapturesInv
      <4>. QED BY <3>1, <3>2 DEF CapturesLocal, Writing, Faithful, Kept, Complete
    <3>3. CASE pc[q] \notin Owning
      BY <3>1, <3>3 DEF CapturesLocal, Writing, Owning, Working
    <3>. QED BY <3>2, <3>3, Bystander
  <2>. QED BY <1>q DEF CapturesInv
(* Steps that leave the data alone. *)
<1>u. ASSUME UNCHANGED <<runState, pairs>>
      PROVE  Kept' = Kept /\ Complete' = Complete /\ CapturesShared'
  BY <1>u, <1>i DEF CapturesShared, Faithful, Kept, Complete
<1>n. ASSUME UNCHANGED <<runState, pairs>>,
             pc'[p] \in {"release", "down", "released", "publish", "owned", "judge",
                        "grab", "grabbed", "read"}
      PROVE  Good
  BY <1>u, <1>n DEF CapturesLocal, Writing, Working, Owning
(* The summing up, with the pairs as they then are. *)
<1>r. ASSUME Finish(p, j) \/ Finish(p, stop),
             FaithfulTo(j.mem, Kept', Complete'), j.mem.attempted = j.used,
             j.captures = Cardinality(j.done), j.done \subseteq Complete'
      PROVE  CapturesLocal(p)'
  <2>1. ASSUME NEW k \in Job, k.mem = j.mem, k.used = j.used, k.done = j.done,
               k.captures = j.captures, FinalState(k) \in RunState, Finish(p, k)
        PROVE  CapturesLocal(p)'
    <3>0. /\ FinalState(k).attempted = k.used /\ FinalState(k).received = k.mem.received
          /\ FinalState(k).captured = k.captures /\ FinalState(k).done = k.done
          /\ FinalState(k).lastAt = k.mem.lastAt
          /\ FinalState(k).status = "complete" => k.done = Ordinal
      BY <2>1, StateFields
    <3>1. /\ FinalState(k).attempted = j.used /\ FinalState(k).received = j.mem.received
          /\ FinalState(k).captured = j.captures /\ FinalState(k).done = j.done
          /\ FinalState(k).lastAt = j.mem.lastAt
          /\ FinalState(k).status = "complete" => j.done = Ordinal
      BY <2>1, <3>0
    <3>2. FaithfulTo(FinalState(k), Kept', Complete')
      BY <3>1, <1>r DEF FaithfulTo
    <3>3. Persist(p, k, FinalState(k), "release")
      BY <2>1 DEF Finish
    <3>. QED BY <3>2, <3>3, <2>1, <1>t, PersistCaptures DEF Continuation
  <2>. QED BY <2>1, <1>r, <1>s, <1>t, <1>y
<1>f. ASSUME Finish(p, j) \/ Finish(p, stop), UNCHANGED <<runState, pairs>>,
             Faithful(j.mem), j.mem.attempted = j.used,
             j.captures = Cardinality(j.done), j.done \subseteq Complete
      PROVE  Good
  <2>. Kept' = Kept /\ Complete' = Complete
    BY <1>u, <1>f
  <2>. CapturesLocal(p)'
    BY <1>f, <1>r DEF Faithful
  <2>. QED BY <1>u, <1>f
<1>e. ASSUME WriteError(p), pc[p] \in {"verify", "write"}, UNCHANGED <<runState, pairs>>
      PROVE  Good
  <2>1. CASE j.next \in InsideTry
    <3>. DEFINE s == [j.mem EXCEPT !.attempted = j.used, !.inFlight = FALSE]
    <3>1. Persist(p, stop, s, "final")
      BY <2>1, <1>e DEF WriteError
    <3>2. /\ s.attempted = j.used /\ s.lastAt = j.mem.lastAt /\ s.received = j.mem.received
          /\ s.captured = j.mem.captured /\ s.done = j.mem.done /\ s.status = j.mem.status
      BY StateFields, <1>t
    <3>3. j.mem.attempted = j.used
      BY <1>i, <1>e, <2>1 DEF RequestsLocal, Writing, InsideTry
    <3>4. /\ Faithful(j.mem) /\ j.captures = Cardinality(j.done)
          /\ j.mem.done \subseteq j.done /\ j.done \subseteq Complete
      BY <1>i, <1>e, <2>1 DEF CapturesLocal, Writing, InsideTry, Working, Owning
    <3>5. s \in RunState
      BY <1>y
    <3>. HIDE DEF s
    <3>6. FaithfulTo(s, Kept, Complete)
      BY <3>2, <3>3, <3>4 DEF Faithful, FaithfulTo
    <3>7. Kept' = Kept /\ Complete' = Complete
      BY <1>u, <1>e
    <3>8. CapturesLocal(p)'
      BY <3>1, <3>2, <3>4, <3>5, <3>6, <3>7, <1>t, <1>s, PersistCaptures DEF Continuation
    <3>. QED BY <3>8, <1>u, <1>e
  <2>2. CASE j.next \notin InsideTry
    <3>. Goto(p, "release")
      BY <2>2, <1>e DEF WriteError
    <3>. QED BY <1>n, <1>e, <1>t DEF Goto, LocalType
  <2>. QED BY <2>1, <2>2
<1>. SUFFICES Good
  BY <1>q
<1>. HIDE DEF Good
<1>1. CASE \/ Start(p) \/ Publish(p) \/ Judge(p) \/ Grab(p) \/ SettleGrab(p)
           \/ CheckOwned(p) \/ Release(p) \/ SettleRelease(p) \/ Crash(p)
  BY <1>1, <1>n, OutsideSteps
<1>9. CASE Verify(p)
  <2>0. UNCHANGED <<runState, pairs>> /\ pc[p] = "verify"
    BY <1>9 DEF Verify
  <2>1. CASE lock = Token(p)
    <3>. pc'[p] = "write" /\ job' = job
      BY <1>9, <2>1, <1>t DEF Verify, Goto, LocalType
    <3>. Kept' = Kept /\ Complete' = Complete
      BY <2>0, <1>u
    <3>. CapturesLocal(p)'
      BY <2>0, <1>i DEF CapturesLocal, Writing, Faithful, Working, Owning
    <3>. QED BY <2>0, <1>u DEF Good
  <2>2. CASE lock # Token(p)
    BY <1>9, <2>0, <2>2, <1>e DEF Verify
  <2>. QED BY <2>1, <2>2
<1>10. CASE WriteFails(p)
  <2>. UNCHANGED <<runState, pairs>> /\ WriteError(p) /\ pc[p] = "write"
    BY <1>10 DEF WriteFails
  <2>. QED BY <1>e
<1>11. CASE Write(p)
  <2>0. UNCHANGED pairs /\ pc[p] = "write" /\ runState' = j.mem
    BY <1>11 DEF Write
  <2>k. Kept' = Kept /\ Complete' = Complete
    BY <2>0 DEF Kept, Complete
  <2>a. Faithful(j.mem)
    BY <2>0, <1>i DEF CapturesLocal, Working, Owning
  <2>b. CapturesShared'
    <3>. j.mem # Absent
      BY <1>j, AbsentAssumption
    <3>. QED BY <2>0, <2>a, <2>k DEF CapturesShared, Faithful
  <2>1. CASE j.next = "mark"
    <3>1. Persist(p, j, Marked(j), "fetch")
      BY <1>11, <2>1 DEF Write
    <3>2. /\ Marked(j).attempted = j.mem.attempted /\ Marked(j).lastAt = Wall
          /\ Marked(j).received = j.mem.received /\ Marked(j).captured = j.mem.captured
          /\ Marked(j).done = j.mem.done /\ Marked(j).status = j.mem.status
      BY StateFields, <1>t
    <3>3. /\ j.mem.received + 1 <= j.used /\ pairs[j.ord] = "absent"
          /\ j.captures = Cardinality(j.done)
          /\ j.mem.done \subseteq j.done /\ j.done \subseteq Complete
      BY <1>i, <2>0, <2>1 DEF CapturesLocal, Writing, Working, Owning
    <3>4. FaithfulTo(Marked(j), Kept, Complete)
      BY <3>2, <2>a, <1>w DEF Faithful, FaithfulTo
    <3>5. CapturesLocal(p)'
      BY <3>1, <3>2, <3>3, <3>4, <2>k, <2>0, <1>t, <1>y, PersistCaptures DEF Continuation
    <3>. QED BY <3>5, <2>b DEF Good
  <2>2. CASE j.next = "final"
    <3>1. Finish(p, j)
      BY <1>11, <2>2 DEF Write
    <3>2. /\ j.captures = Cardinality(j.done) /\ j.done \subseteq Complete
      BY <1>i, <2>0, <2>2 DEF CapturesLocal, Writing, Working, Owning
    <3>3. j.mem.attempted = j.used
      BY <1>i, <2>0, <2>2 DEF RequestsLocal, Writing
    <3>4. CapturesLocal(p)'
      BY <3>1, <3>2, <3>3, <2>a, <2>k, <1>r DEF Faithful
    <3>. QED BY <3>4, <2>b DEF Good
  <2>3. CASE j.next \notin {"mark", "final"}
    <3>1. pc'[p] = j.next /\ job' = job
      BY <1>11, <2>3, <1>t DEF Write, Goto, LocalType
    <3>2. j.next # "none"
      BY <2>0 DEF TypeInv, JobFits
    <3>3. Faithful(job[p].mem)' /\ job'[p] = j /\ runState' # Absent
      BY <3>1, <2>a, <2>k, <1>j, <2>0, AbsentAssumption DEF Faithful
    <3>4. CapturesLocal(p)'
      BY <2>0, <2>k, <2>3, <3>1, <3>2, <3>3, <1>i, <1>j
      DEF CapturesLocal, Writing, Continuation, Working, Owning
    <3>. QED BY <3>4, <2>b DEF Good
  <2>. QED BY <2>1, <2>2, <2>3
<1>12. CASE ReadRunState(p)
  <2>0. UNCHANGED <<runState, pairs>> /\ pc[p] = "read"
    BY <1>12 DEF ReadRunState
  <2>k. Kept' = Kept /\ Complete' = Complete
    BY <2>0, <1>u
  <2>1. CASE runState = Absent /\ ~(\E o \in Ordinal : pairs[o] # "absent")
    <3>1. Persist(p, j, FreshState, "seed")
      BY <1>12, <2>1 DEF ReadRunState
    <3>2. Kept = {} /\ Cardinality(Kept) = 0 /\ Cardinality({}) = 0
      BY <2>1, FS_EmptySet DEF Kept
    <3>3. FaithfulTo(FreshState, Kept, Complete)
      BY <3>2 DEF FaithfulTo, FreshState
    <3>4. CapturesLocal(p)'
      BY <3>1, <3>3, <2>k, <1>t, <1>y, PersistCaptures DEF Continuation
    <3>. QED BY <3>4, <2>0, <1>u DEF Good
  <2>2. CASE runState # Absent /\ ReadableState(runState)
    <3>. job' = [job EXCEPT ![p].mem = runState] /\ Goto(p, "seed")
      BY <1>12, <2>2 DEF ReadRunState
    <3>. pc'[p] = "seed" /\ job'[p].mem = runState
      BY <1>t DEF Goto, LocalType, Job
    <3>. Faithful(runState) /\ Faithful(job[p].mem)'
      BY <2>2, <2>k, <1>i DEF CapturesShared, Faithful
    <3>. CapturesLocal(p)'
      BY DEF CapturesLocal, Writing
    <3>. QED BY <2>0, <1>u DEF Good
  <2>3. CASE ~(runState = Absent /\ ~(\E o \in Ordinal : pairs[o] # "absent"))
             /\ ~(runState # Absent /\ ReadableState(runState))
    <3>. Goto(p, "release")
      BY <1>12, <2>3 DEF ReadRunState
    <3>. QED BY <1>n, <2>0, <1>t DEF Goto, LocalType
  <2>. QED BY <2>1, <2>2, <2>3
<1>13. CASE Seed(p)
  <2>0. UNCHANGED <<runState, pairs>> /\ pc[p] = "seed"
    BY <1>13 DEF Seed
  <2>k. Kept' = Kept /\ Complete' = Complete
    BY <2>0, <1>u
  <2>1. /\ pc'[p] = "candidate" /\ job'[p].mem = j.mem
        /\ job'[p].captures = j.mem.captured /\ job'[p].done = j.mem.done
    BY <1>13, <1>t DEF Seed, Goto, LocalType, Job
  <2>2. Faithful(j.mem)
    BY <2>0, <1>i DEF CapturesLocal, Working, Owning
  <2>3. /\ Faithful(job[p].mem)' /\ job'[p].captures = Cardinality(job'[p].done)
        /\ job'[p].done \subseteq Complete'
    BY <2>1, <2>2, <2>k DEF Faithful, FaithfulTo
  <2>4. CapturesLocal(p)'
    BY <2>1, <2>3 DEF CapturesLocal, Writing
  <2>. QED BY <2>4, <2>0, <1>u DEF Good
<1>14. CASE AdoptPair(p)
  <2>0. /\ UNCHANGED <<runState, pairs>> /\ pc[p] = "candidate" /\ pc' = pc
        /\ j.ord \in Ordinal /\ pairs[j.ord] = "complete"
    BY <1>14 DEF AdoptPair
  <2>k. Kept' = Kept /\ Complete' = Complete
    BY <2>0, <1>u
  <2>1. /\ job'[p].mem = j.mem /\ job'[p].done = j.done \cup {j.ord}
        /\ job'[p].captures = IF j.ord \in j.done THEN j.captures ELSE j.captures + 1
    BY <1>14, <1>t DEF AdoptPair, Recorded, LocalType, Job
  <2>2. /\ Faithful(j.mem) /\ j.captures = Cardinality(j.done)
        /\ j.mem.done \subseteq j.done /\ j.done \subseteq Complete
    BY <2>0, <1>i DEF CapturesLocal, Writing, Working, Owning
  <2>3. Faithful(job[p].mem)'
    BY <2>1, <2>2, <2>k DEF Faithful
  <2>4. job'[p].captures = Cardinality(job'[p].done)
    BY <2>0, <2>1, <2>2, <1>j, AddCapture
  <2>5. job'[p].mem.done \subseteq job'[p].done /\ job'[p].done \subseteq Complete'
    BY <2>0, <2>1, <2>2, <2>k DEF Complete
  <2>6. CapturesLocal(p)'
    BY <2>0, <2>3, <2>4, <2>5 DEF CapturesLocal, Writing
  <2>. QED BY <2>6, <2>0, <1>u DEF Good
<1>15. CASE RefusePair(p) \/ PlanDone(p) \/ RejectContent(p)
            \/ (KeepPayload(p) /\ pairs[j.ord] # "absent")
  <2>1. UNCHANGED <<runState, pairs>> /\ (Finish(p, j) \/ Finish(p, stop))
        /\ pc[p] \in {"candidate", "content", "pair"}
    BY <1>15 DEF RefusePair, PlanDone, RejectContent, KeepPayload
  <2>2. /\ Faithful(j.mem) /\ j.captures = Cardinality(j.done) /\ j.done \subseteq Complete
        /\ j.mem.attempted = j.used
    BY <2>1, <1>i DEF CapturesLocal, RequestsLocal, Writing, Working, Owning
  <2>. QED BY <2>1, <2>2, <1>f
<1>16. CASE Request(p)
  <2>0. /\ UNCHANGED <<runState, pairs>> /\ pc[p] = "candidate"
        /\ pairs[j.ord] = "absent"
    BY <1>16 DEF Request, MayFetch
  <2>k. Kept' = Kept /\ Complete' = Complete
    BY <2>0, <1>u
  <2>i. /\ Faithful(j.mem) /\ j.captures = Cardinality(j.done)
        /\ j.mem.done \subseteq j.done /\ j.done \subseteq Complete
        /\ j.mem.attempted = j.used
    BY <2>0, <1>i DEF CapturesLocal, RequestsLocal, Writing, Working, Owning
  <2>1. CASE MayRequest(j)
    <3>1. /\ pc'[p] = "wait" /\ job'[p].used = j.used + 1 /\ job'[p].mem = j.mem
          /\ job'[p].captures = j.captures /\ job'[p].done = j.done /\ job'[p].ord = j.ord
      BY <1>16, <2>1, <1>t DEF Request, Goto, LocalType, Job
    <3>2. j.mem.received + 1 <= j.used + 1
      BY <2>i, <1>j DEF Faithful, FaithfulTo
    <3>3. Faithful(job[p].mem)'
      BY <3>1, <2>i, <2>k DEF Faithful
    <3>4. CapturesLocal(p)'
      BY <3>1, <3>2, <3>3, <2>0, <2>i, <2>k DEF CapturesLocal, Writing
    <3>. QED BY <3>4, <2>0, <1>u DEF Good
  <2>2. CASE ~MayRequest(j)
    <3>. DEFINE s == [j.mem EXCEPT !.attempted = j.used, !.inFlight = FALSE]
    <3>1. Persist(p, stop, s, "final")
      BY <1>16, <2>2 DEF Request
    <3>2. /\ s.attempted = j.used /\ s.lastAt = j.mem.lastAt /\ s.received = j.mem.received
          /\ s.captured = j.mem.captured /\ s.done = j.mem.done /\ s.status = j.mem.status
      BY StateFields, <1>t
    <3>5. s \in RunState
      BY <1>y
    <3>. HIDE DEF s
    <3>6. FaithfulTo(s, Kept, Complete)
      BY <3>2, <2>i DEF Faithful, FaithfulTo
    <3>8. CapturesLocal(p)'
      BY <3>1, <3>2, <3>5, <3>6, <2>i, <2>k, <1>t, <1>s, PersistCaptures DEF Continuation
    <3>. QED BY <3>8, <2>0, <1>u DEF Good
  <2>. QED BY <2>1, <2>2
<1>18. CASE BeforeFetch(p)
  <2>0. UNCHANGED <<runState, pairs>> /\ pc[p] = "wait" /\ Persist(p, j, Counted(j), "mark")
    BY <1>18 DEF BeforeFetch
  <2>k. Kept' = Kept /\ Complete' = Complete
    BY <2>0, <1>u
  <2>1. /\ Counted(j).attempted = j.used /\ Counted(j).lastAt = Wall
        /\ Counted(j).received = j.mem.received /\ Counted(j).captured = j.mem.captured
        /\ Counted(j).done = j.mem.done /\ Counted(j).status = j.mem.status
    BY StateFields, <1>t
  <2>2. /\ Faithful(j.mem) /\ j.mem.received + 1 <= j.used /\ pairs[j.ord] = "absent"
        /\ j.captures = Cardinality(j.done)
        /\ j.mem.done \subseteq j.done /\ j.done \subseteq Complete
    BY <2>0, <1>i DEF CapturesLocal, Writing, Working, Owning
  <2>3. j.mem.received <= j.used
    BY <2>2, <1>j
  <2>4. FaithfulTo(Counted(j), Kept, Complete)
    BY <2>1, <2>2, <2>3, <1>w DEF Faithful, FaithfulTo
  <2>5. CapturesLocal(p)'
    BY <2>0, <2>1, <2>2, <2>4, <2>k, <1>t, <1>y, PersistCaptures DEF Continuation
  <2>. QED BY <2>5, <2>0, <1>u DEF Good
<1>19. CASE BeginFetch(p)
  <2>0. UNCHANGED <<runState, pairs>> /\ pc[p] = "fetch"
    BY <1>19 DEF BeginFetch
  <2>k. Kept' = Kept /\ Complete' = Complete
    BY <2>0, <1>u
  <2>1. /\ pc'[p] = "inFlight" /\ job'[p].mem = j.mem /\ job'[p].used = j.used
        /\ job'[p].captures = j.captures /\ job'[p].done = j.done /\ job'[p].ord = j.ord
        /\ job'[p].anchor = Wall
    BY <1>19, <1>t DEF BeginFetch, Goto, LocalType, Job
  <2>2. /\ Faithful(j.mem) /\ j.mem.received + 1 <= j.used
        /\ j.captures = Cardinality(j.done)
        /\ j.mem.done \subseteq j.done /\ j.done \subseteq Complete
    BY <2>0, <1>i DEF CapturesLocal, Writing, Working, Owning
  <2>3. Faithful(job[p].mem)'
    BY <2>1, <2>2, <2>k DEF Faithful
  <2>4. CapturesLocal(p)'
    BY <2>1, <2>2, <2>3, <2>k, <1>w DEF CapturesLocal, Writing
  <2>. QED BY <2>4, <2>0, <1>u DEF Good
<1>20. CASE Respond(p) \/ FetchFails(p)
  <2>. DEFINE r == [Settled(j) EXCEPT !.received = @ + 1]
  <2>0. /\ UNCHANGED <<runState, pairs>> /\ pc[p] = "inFlight"
        /\ Persist(p, j, r, "content") \/ Persist(p, stop, Settled(j), "final")
    BY <1>20 DEF Respond, FetchFails
  <2>k. Kept' = Kept /\ Complete' = Complete
    BY <2>0, <1>u
  <2>1. /\ Settled(j).attempted = j.used /\ Settled(j).lastAt = j.anchor
        /\ Settled(j).received = j.mem.received /\ Settled(j).captured = j.mem.captured
        /\ Settled(j).done = j.mem.done /\ Settled(j).status = j.mem.status
        /\ r.attempted = j.used /\ r.lastAt = j.anchor
        /\ r.received = j.mem.received + 1 /\ r.captured = j.mem.captured
        /\ r.done = j.mem.done /\ r.status = j.mem.status
    BY StateFields, <1>t
  <2>2. /\ Faithful(j.mem) /\ j.mem.received + 1 <= j.used /\ j.anchor > 0
        /\ j.captures = Cardinality(j.done)
        /\ j.mem.done \subseteq j.done /\ j.done \subseteq Complete
    BY <2>0, <1>i DEF CapturesLocal, Writing, Working, Owning
  <2>3. /\ j.mem.received <= j.used /\ Cardinality(Kept) <= j.mem.received + 1
        /\ Cardinality(Kept) + 1 <= j.mem.received + 1
    BY <2>2, <1>j, <1>c DEF Faithful, FaithfulTo
  <2>r. r \in RunState /\ Settled(j) \in RunState
    BY <1>y
  <2>. HIDE DEF r
  <2>4. FaithfulTo(Settled(j), Kept, Complete) /\ FaithfulTo(r, Kept, Complete)
    BY <2>1, <2>2, <2>3 DEF Faithful, FaithfulTo
  <2>5. CASE Persist(p, j, r, "content")
    <3>. CapturesLocal(p)'
      BY <2>1, <2>2, <2>3, <2>4, <2>5, <2>k, <2>r, <1>t, PersistCaptures DEF Continuation
    <3>. QED BY <2>0, <1>u DEF Good
  <2>6. CASE Persist(p, stop, Settled(j), "final")
    <3>. CapturesLocal(p)'
      BY <2>1, <2>2, <2>3, <2>4, <2>6, <2>k, <2>r, <1>t, <1>s, PersistCaptures DEF Continuation
    <3>. QED BY <2>0, <1>u DEF Good
  <2>. QED BY <2>0, <2>5, <2>6
<1>23. CASE AcceptContent(p)
  <2>0. UNCHANGED <<runState, pairs, job>> /\ pc[p] = "content" /\ pc'[p] = "pair"
    BY <1>23, <1>t DEF AcceptContent, Goto, LocalType
  <2>k. Kept' = Kept /\ Complete' = Complete
    BY <2>0, <1>u
  <2>2. CapturesLocal(p)'
    BY <2>0, <2>k, <1>i DEF CapturesLocal, Writing, Faithful, Working, Owning
  <2>. QED BY <2>2, <2>0, <1>u DEF Good
<1>24. CASE KeepPayload(p) /\ pairs[j.ord] = "absent"
  <2>0. /\ UNCHANGED <<runState, job>> /\ pc[p] = "pair" /\ pc'[p] = "manifest"
        /\ pairs' = [pairs EXCEPT ![j.ord] = "partial"]
    BY <1>24, <1>t DEF KeepPayload, Goto, LocalType
  <2>o. j.ord \in Ordinal
    BY <2>0, <1>v DEF OnCandidate
  <2>1. Kept' = Kept \cup {j.ord} /\ Complete' = Complete /\ pairs'[j.ord] = "partial"
    BY <2>0, <2>o, <1>24, <1>t DEF Kept, Complete
  <2>2. /\ Faithful(j.mem) /\ Cardinality(Kept) + 1 <= j.mem.received
        /\ runState # Absent /\ runState = j.mem
        /\ j.captures = Cardinality(j.done)
        /\ j.mem.done \subseteq j.done /\ j.done \subseteq Complete
    BY <2>0, <1>i DEF CapturesLocal, Writing, Working, Owning
  <2>3. Cardinality(Kept') <= j.mem.received
    <3>. Cardinality(Kept') \in {Cardinality(Kept), Cardinality(Kept) + 1}
      BY <2>1, <2>o, <1>c, AddCapture
    <3>. QED BY <2>2, <1>c, <1>j
  <2>4. FaithfulTo(j.mem, Kept', Complete')
    BY <2>1, <2>2, <2>3 DEF Faithful, FaithfulTo
  <2>5. CapturesShared'
    BY <2>0, <2>2, <2>4 DEF CapturesShared, Faithful
  <2>6. CapturesLocal(p)'
    BY <2>0, <2>1, <2>2, <2>4 DEF CapturesLocal, Writing, Faithful
  <2>. QED BY <2>5, <2>6 DEF Good
<1>25. CASE KeepManifest(p)
  <2>. DEFINE k == [j EXCEPT !.captures = @ + 1, !.done = @ \cup {j.ord}, !.ord = @ + 1]
  <2>0. /\ UNCHANGED runState /\ pc[p] = "manifest"
        /\ pairs' = [pairs EXCEPT ![j.ord] = "complete"]
        /\ Persist(p, k, AfterCapture(k), "candidate")
    BY <1>25 DEF KeepManifest
  <2>2. /\ Faithful(j.mem) /\ pairs[j.ord] = "partial"
        /\ runState # Absent /\ runState = j.mem
        /\ j.captures = Cardinality(j.done)
        /\ j.mem.done \subseteq j.done /\ j.done \subseteq Complete
        /\ j.mem.attempted = j.used
    BY <2>0, <1>i DEF CapturesLocal, RequestsLocal, Writing, Working, Owning
  <2>o. j.ord \in Ordinal /\ j.ord \notin j.done
    BY <2>0, <2>2, <1>v DEF OnCandidate, Complete
  <2>p. j.ord + 1 \in Nat \ {0} /\ j.captures + 1 \in Nat /\ j.done \cup {j.ord} \in SUBSET Ordinal
    BY SMTT(40), <2>o, <1>t DEF Job, Ordinal
  <2>k. /\ k \in Job /\ k.used = j.used /\ k.mem = j.mem
        /\ k.done = j.done \cup {j.ord} /\ k.captures = j.captures + 1
    BY <2>p, <1>t DEF Job
  <2>. HIDE DEF k
  <2>1. Kept' = Kept /\ Complete' = Complete \cup {j.ord}
    BY <2>0, <2>2, <2>o, <1>t DEF Kept, Complete
  <2>3. k.captures = Cardinality(k.done) /\ k.done \subseteq Complete'
    BY <2>1, <2>2, <2>o, <2>k, <1>j, AddCapture
  <2>4. /\ AfterCapture(k).attempted = k.used /\ AfterCapture(k).received = k.mem.received
        /\ AfterCapture(k).captured = k.captures /\ AfterCapture(k).done = k.done
        /\ AfterCapture(k).lastAt = k.mem.lastAt /\ AfterCapture(k).status = k.mem.status
        /\ AfterCapture(k) \in RunState
    <3>1. AfterCapture(k) \in RunState
      BY <2>k, <1>t, StateTypes
    <3>. QED BY <3>1, <2>k, StateFields
  <2>5. FaithfulTo(AfterCapture(k), Kept', Complete')
    <3>1. j.mem.status = "complete" => k.done = Ordinal
      BY <2>2, <2>k, <2>o, <1>j DEF Faithful, FaithfulTo
    <3>. HIDE DEF j
    <3>. QED BY <3>1, <2>1, <2>2, <2>3, <2>4, <2>k DEF Faithful, FaithfulTo
  <2>6. CapturesLocal(p)'
    BY <2>0, <2>3, <2>4, <2>5, <2>k, <1>t, PersistCaptures DEF Continuation
  <2>7. CapturesShared'
    BY <2>0, <2>1, <2>2 DEF CapturesShared, Faithful, FaithfulTo
  <2>. QED BY <2>6, <2>7 DEF Good
<1>26. CASE PairFails(p)
  <2>0. /\ UNCHANGED runState /\ pc[p] = "manifest" /\ Finish(p, stop)
        /\ pairs' = [pairs EXCEPT ![j.ord] = "absent"]
    BY <1>26 DEF PairFails
  <2>2. /\ Faithful(j.mem) /\ pairs[j.ord] = "partial"
        /\ runState # Absent /\ runState = j.mem
        /\ j.captures = Cardinality(j.done) /\ j.done \subseteq Complete
        /\ j.mem.attempted = j.used
    BY <2>0, <1>i DEF CapturesLocal, RequestsLocal, Writing, Working, Owning
  <2>o. j.ord \in Ordinal
    BY <2>0, <1>v DEF OnCandidate
  <2>1. Kept' \subseteq Kept /\ Complete' = Complete
    BY <2>0, <2>2, <2>o, <1>t DEF Kept, Complete
  <2>3. Cardinality(Kept') <= Cardinality(Kept) /\ Cardinality(Kept') \in Nat
    BY <2>1, <1>c, OrdinalsFinite, FS_Subset
  <2>4. FaithfulTo(j.mem, Kept', Complete')
    BY <2>1, <2>2, <2>3, <1>c, <1>j DEF Faithful, FaithfulTo
  <2>5. CapturesLocal(p)'
    BY <2>0, <2>1, <2>2, <2>4, <1>r
  <2>6. CapturesShared'
    BY <2>0, <2>2, <2>4 DEF CapturesShared, Faithful
  <2>. QED BY <2>5, <2>6 DEF Good
<1>. QED BY <1>1, <1>9, <1>10, <1>11, <1>12, <1>13, <1>14, <1>15, <1>16, <1>18, <1>19,
             <1>20, <1>23, <1>24, <1>25, <1>26 DEF Step

LEMMA CapturesNext ==
    ASSUME TwoContenders
    PROVE  TypeInv /\ LockInv /\ RequestsInv /\ CapturesInv /\ [Next]_vars => CapturesInv'
<1>. SUFFICES ASSUME TypeInv, LockInv, RequestsInv, CapturesInv, [Next]_vars
              PROVE  CapturesInv'
  OBVIOUS
<1>1. CASE \E p \in Proc : Step(p)
  BY <1>1, CapturesStep
<1>2. CASE Tick \/ SetBack \/ UNCHANGED vars
  <2>. UNCHANGED <<runState, pairs, pc, job>>
    BY <1>2 DEF Tick, SetBack, vars, lockVars
  <2>. QED BY ZenonT(60) DEF CapturesInv, CapturesShared, CapturesLocal, Faithful, Kept, Complete, Writing
<1>. QED BY <1>1, <1>2 DEF Next

LEMMA FaithfulIsReadable ==
    ASSUME NEW s \in RunState, TypeOK, Faithful(s)
    PROVE  ReadableState(s)
<1>1. /\ Kept \in SUBSET Ordinal /\ s.done \in SUBSET Ordinal /\ s.done \subseteq Kept
  BY DEF Faithful, FaithfulTo, Kept, Complete, RunState
<1>2. Cardinality(s.done) <= Cardinality(Kept) /\ Cardinality(Kept) \in Nat /\ Cardinality(s.done) \in Nat
  BY <1>1, OrdinalsFinite, FS_Subset
<1>. QED BY <1>2 DEF Faithful, FaithfulTo, ReadableState, RunState

(* With two contenders, no run-state.json that a run leaves behind is one  *)
(* that the validation of the next process refuses.                        *)
THEOREM StateAlwaysReadable ==
    ASSUME TwoContenders
    PROVE  Spec => []StateStaysReadable
<1>1. TypeInv /\ CapturesInv => StateStaysReadable
  BY FaithfulIsReadable DEF TypeInv, TypeOK, CapturesInv, CapturesShared, StateStaysReadable
<1>. QED BY TypeInit, TypeStep, LockInit, LockNext, RequestsInit, RequestsNext,
            CapturesInit, CapturesNext, <1>1, PTL DEF Spec

(* With two contenders, what the run state calls captured is on disk, and  *)
(* a run that calls itself complete has captured every planned candidate.  *)
THEOREM CapturesAreKept ==
    ASSUME TwoContenders
    PROVE  Spec => []DoneIsCaptured
<1>1. TypeInv /\ CapturesInv => DoneIsCaptured
  <2>. SUFFICES ASSUME TypeInv, CapturesInv, runState # Absent
                PROVE  /\ \A o \in runState.done : pairs[o] = "complete"
                       /\ runState.status = "complete" =>
                              \A o \in Ordinal : pairs[o] = "complete"
    BY DEF DoneIsCaptured
  <2>. Faithful(runState)
    BY DEF CapturesInv, CapturesShared
  <2>. QED BY DEF Faithful, FaithfulTo, Complete
<1>. QED BY TypeInit, TypeStep, LockInit, LockNext, RequestsInit, RequestsNext,
            CapturesInit, CapturesNext, <1>1, PTL DEF Spec

(* With two contenders, no request goes out for a candidate of which       *)
(* anything is kept already.                                               *)
THEOREM NothingFetchedTwice ==
    ASSUME TwoContenders
    PROVE  Spec => NoSecondCapture
<1>. DEFINE Fresh == fetches' # fetches => pairs[fetches'[Len(fetches')].ord] = "absent"
<1>1. TypeInv /\ CapturesInv /\ [Next]_vars => [Fresh]_vars
  <2>. SUFFICES ASSUME TypeInv, CapturesInv, Next, fetches' # fetches
                PROVE  pairs[fetches'[Len(fetches')].ord] = "absent"
    BY DEF vars
  <2>1. PICK p \in Proc : BeginFetch(p)
    BY ZenonT(60) DEF Next, Step, Start, Publish, Judge, Grab, SettleGrab, CheckOwned, Release,
       SettleRelease, Verify, WriteFails, Write, ReadRunState, Seed, AdoptPair, RefusePair,
       Request, PlanDone, BeforeFetch, Respond, FetchFails, RejectContent, AcceptContent,
       KeepPayload, KeepManifest, PairFails, Crash, Tick, SetBack
  <2>. DEFINE e == [at |-> clock, ord |-> job[p].ord]
  <2>2. pairs[job[p].ord] = "absent" /\ job[p].ord \in Ordinal
    BY <2>1 DEF BeginFetch, CapturesInv, CapturesLocal, TypeInv, JobFits, OnCandidate
  <2>3. e \in [at : Nat, ord : Ordinal] /\ fetches \in Seq([at : Nat, ord : Ordinal])
    BY <2>2 DEF TypeInv, TypeOK
  <2>4. fetches' = Append(fetches, e)
    BY <2>1 DEF BeginFetch
  <2>5. e.ord = job[p].ord
    OBVIOUS
  <2>. HIDE DEF e
  <2>6. fetches'[Len(fetches')] = e
    BY <2>3, <2>4, AppendProperties
  <2>. QED BY <2>2, <2>5, <2>6
<1>2. [][Fresh]_vars <=> NoSecondCapture
  BY DEF NoSecondCapture
<1>. HIDE DEF Fresh
<1>. QED BY TypeInit, TypeStep, LockInit, LockNext, RequestsInit, RequestsNext,
            CapturesInit, CapturesNext, <1>1, <1>2, PTL DEF Spec

(* Under the same assumption the run state is readable and true of what is *)
(* on disk, wherever a process dies or a write fails (readRunState).       *)
THEOREM StateIsAlwaysSound ==
    ASSUME TwoContenders
    PROVE  Spec => []StateIsSound
<1>1. StateStaysReadable /\ DoneIsCaptured => StateIsSound
  BY DEF StateIsSound
<1>. QED  BY <1>1, StateAlwaysReadable, CapturesAreKept, PTL
=============================================================================

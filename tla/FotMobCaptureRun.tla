-------------------------- MODULE FotMobCaptureRun --------------------------
(***************************************************************************)
(* A FotMob detail capture run (fotmob/FotMobDetailCapturePipeline.js with *)
(* FotMobDetailCaptureRetention.js): operating-system processes start, die *)
(* and are started again under one run id.  Each takes the run lock by     *)
(* renaming a complete directory into place, resumes from run-state.json,  *)
(* fetches the planned candidates one at a time under a request budget and *)
(* a minimum delay, and keeps each capture as a payload and a manifest.    *)
(*                                                                         *)
(* The binding of a run state, a pair or a snapshot to another plan,       *)
(* authorization or revision is not modelled: every process runs the same  *)
(* command.  Neither is the diagnostic transport-observations file, nor    *)
(* the option resume = false.                                              *)
(***************************************************************************)
EXTENDS Integers, Sequences, FiniteSets

CONSTANTS
    Proc,         \* process slots; a slot that is started again is a new instance
    PlanSize,     \* candidates of the plan, by ordinal
    MaxRequests,  \* the authorized request budget
    Delay,        \* minimum time between the starts of two requests
    MoverMayDie,  \* may a process die between grabbing and restoring a live lock?
    Free,         \* no lock directory at a path
    Absent,       \* no run-state.json
    MaxClock,     \* bound: time
    MaxSetBack,   \* bound: how far the wall clock is set back
    MaxStarts,    \* bound: instances of one slot
    MaxCrashes,   \* bound: process deaths
    MaxFaults     \* bound: failing run-state writes

ASSUME BudgetAssumption ==
    /\ {PlanSize, MaxRequests, Delay, MaxClock, MaxSetBack, MaxStarts,
        MaxCrashes, MaxFaults} \subseteq Nat
    /\ MoverMayDie \in BOOLEAN

Ordinal == 1..PlanSize

Status == {"in_progress", "stopped", "complete"}

(* The counters and markers of run-state.json.  next_allowed_request_at is *)
(* lastAt + Delay in every write and is not kept apart.                    *)
RunState == [attempted : Nat, received : Nat, captured : Nat,
             done : SUBSET Ordinal, lastAt : Int, inFlight : BOOLEAN,
             status : Status]

ASSUME TokenAssumption == Free \notin Proc \X Nat

ASSUME AbsentAssumption == Absent \notin RunState

VARIABLES
    \* shared: the run directory
    lock,      \* token in the lock directory, or Free
    trash,     \* token in the directory each process has moved aside, or Free
    runState,  \* run-state.json, or Absent
    pairs,     \* what is kept of each capture
    \* the processes
    pc,        \* where each process is
    inst,      \* instances of each slot so far: pid and start ticks
    seen,      \* the token a contender judged stale
    retried,   \* a contender is in its second and last attempt
    job,       \* the local variables of executeCaptureRunLocked
    \* the world
    clock,     \* true time
    setBack,   \* how far the wall clock is behind the true time
    fetches,   \* history: start and ordinal of every request that went out
    crashes, faults

lockVars == <<lock, trash, seen, retried>>
world    == <<clock, setBack>>
used     == <<crashes, faults>>
vars     == <<lock, trash, runState, pairs, pc, inst, seen, retried, job,
              clock, setBack, fetches, crashes, faults>>

(* The wall clock.  Its zero lies before every reading a run can take.     *)
Wall == 1 + MaxSetBack + clock - setBack

Token(p) == <<p, inst[p]>>

(* A token names a process instance, not a pid: a slot that was started    *)
(* again does not keep the lock of its predecessor alive.                  *)
Alive(t) == /\ t # Free
            /\ pc[t[1]] # "down"
            /\ inst[t[1]] = t[2]

FreshState == [attempted |-> 0, received |-> 0, captured |-> 0, done |-> {},
               lastAt |-> 0, inFlight |-> FALSE, status |-> "in_progress"]

(* What validateRunState demands of a state that is read.                  *)
ReadableState(s) ==
    /\ s.received <= s.attempted
    /\ s.captured <= s.received
    /\ s.captured = Cardinality(s.done)
    /\ s.attempted > 0 => s.lastAt > 0

(* mem: the run state in memory; used: requests counted by the adapter,    *)
(* those of earlier processes included; captures and done: captures that   *)
(* count as completed; anchor: start of the last request as the adapter    *)
(* knows it, 0 for none; wake: end of the current wait; next: where the    *)
(* run goes after the run-state write that is under way.                   *)
IdleJob == [mem |-> FreshState, used |-> 0, captures |-> 0, done |-> {},
            anchor |-> 0, wake |-> 0, ord |-> 1, next |-> "none",
            stopped |-> FALSE]

InFlight(p) == pc[p] = "inFlight"

(* A fetch has failed, or stopped the run, when its own write fails.       *)
InsideTry == {"mark", "fetch", "content"}

-----------------------------------------------------------------------------
Init ==
    /\ lock = Free
    /\ trash = [p \in Proc |-> Free]
    /\ runState = Absent
    /\ pairs = [o \in Ordinal |-> "absent"]
    /\ pc = [p \in Proc |-> "down"]
    /\ inst = [p \in Proc |-> 0]
    /\ seen = [p \in Proc |-> Free]
    /\ retried = [p \in Proc |-> FALSE]
    /\ job = [p \in Proc |-> IdleJob]
    /\ clock = 0 /\ setBack = 0
    /\ fetches = <<>>
    /\ crashes = 0 /\ faults = 0

Goto(p, l) == pc' = [pc EXCEPT ![p] = l]

(* The local variables of acquireRunLock do not outlive the call.          *)
Forget(p) ==
    /\ seen' = [seen EXCEPT ![p] = Free]
    /\ retried' = [retried EXCEPT ![p] = FALSE]

(* The process ends.                                                       *)
End(p) ==
    /\ Goto(p, "down")
    /\ job' = [job EXCEPT ![p] = IdleJob]
    /\ Forget(p)

-----------------------------------------------------------------------------
(* acquireRunLock                                                          *)

Start(p) ==
    /\ pc[p] = "down"
    /\ inst[p] < MaxStarts
    /\ Goto(p, "publish")
    /\ inst' = [inst EXCEPT ![p] = @ + 1]
    /\ UNCHANGED <<lockVars, runState, pairs, job, world, fetches, used>>

(* The renameSync that makes a complete lock appear; over another complete *)
(* lock it fails.                                                          *)
Publish(p) ==
    /\ pc[p] = "publish"
    /\ \/ /\ lock = Free
          /\ lock' = Token(p)
          /\ Goto(p, "owned")
       \/ /\ lock # Free
          /\ lock' = lock
          /\ Goto(p, "judge")
    /\ UNCHANGED <<trash, seen, retried, runState, pairs, inst, job, world,
                   fetches, used>>

(* A live holder, or a second conflict, ends the process.                  *)
Refused(p) == Alive(lock) \/ retried[p]

Judge(p) ==
    /\ pc[p] = "judge"
    /\ IF Refused(p)
       THEN End(p)
       ELSE /\ Goto(p, "grab")
            /\ seen' = [seen EXCEPT ![p] = lock]
            /\ UNCHANGED <<retried, job>>
    /\ UNCHANGED <<lock, trash, runState, pairs, inst, world, fetches, used>>

(* Whatever lies at the lock path at this instant is moved aside.          *)
Grab(p) ==
    /\ pc[p] = "grab"
    /\ lock' = Free
    /\ trash' = [trash EXCEPT ![p] = lock]
    /\ IF lock = Free
       THEN Goto(p, "publish") /\ retried' = [retried EXCEPT ![p] = TRUE]
       ELSE Goto(p, "grabbed") /\ retried' = retried
    /\ UNCHANGED <<seen, runState, pairs, inst, job, world, fetches, used>>

(* Mutant: what was moved aside is never put back. *)
PutBack_DeletesAnything(p, deletable) ==
    /\ trash' = [trash EXCEPT ![p] = Free]
    /\ lock' = lock

(* A directory that was moved aside goes back unless its token is the one  *)
(* that may be deleted; when the path is occupied again it stays aside.    *)
PutBack(p, deletable) ==
    /\ trash' = [trash EXCEPT ![p] = Free]
    /\ lock' = IF trash[p] # deletable /\ lock = Free THEN trash[p] ELSE lock

SettleGrab(p) ==
    /\ pc[p] = "grabbed"
    /\ PutBack(p, seen[p])
    /\ Goto(p, "publish")
    /\ retried' = [retried EXCEPT ![p] = TRUE]
    /\ UNCHANGED <<seen, runState, pairs, inst, job, world, fetches, used>>

CheckOwned(p) ==
    /\ pc[p] = "owned"
    /\ IF lock = Token(p)
       THEN Goto(p, "read") /\ Forget(p) /\ job' = job
       ELSE End(p)
    /\ UNCHANGED <<lock, trash, runState, pairs, inst, world, fetches, used>>

-----------------------------------------------------------------------------
(* releaseRunLock, in the finally block of executeCaptureRun               *)

Release(p) ==
    /\ pc[p] = "release"
    /\ lock' = Free
    /\ trash' = [trash EXCEPT ![p] = lock]
    /\ IF lock = Free
       THEN End(p)
       ELSE Goto(p, "released") /\ UNCHANGED <<seen, retried, job>>
    /\ UNCHANGED <<runState, pairs, inst, world, fetches, used>>

SettleRelease(p) ==
    /\ pc[p] = "released"
    /\ PutBack(p, Token(p))
    /\ End(p)
    /\ UNCHANGED <<runState, pairs, inst, world, fetches, used>>

-----------------------------------------------------------------------------
(* Run-state writes: writeRunStateLocked                                   *)

(* The process goes on with state s in memory and persists it; then it     *)
(* continues at label l.                                                   *)
Persist(p, j, s, l) ==
    /\ job' = [job EXCEPT ![p] = [j EXCEPT !.mem = s, !.next = l]]
    /\ Goto(p, "verify")

(* An error of the run-state write.  In the request loop it stops the run  *)
(* like a failed request, which is written down in its turn; elsewhere it  *)
(* ends the process.                                                       *)
WriteError(p) ==
    IF job[p].next \in InsideTry
    THEN Persist(p, [job[p] EXCEPT !.stopped = TRUE],
                 [job[p].mem EXCEPT !.attempted = job[p].used,
                                    !.inFlight = FALSE], "final")
    ELSE Goto(p, "release") /\ job' = job

(* verifyRunLockOwnership: the token is read again before every write.     *)
Verify(p) ==
    /\ pc[p] = "verify"
    /\ IF lock = Token(p)
       THEN Goto(p, "write") /\ job' = job
       ELSE WriteError(p)
    /\ UNCHANGED <<lockVars, runState, pairs, inst, world, fetches, used>>

WriteFails(p) ==
    /\ pc[p] = "write"
    /\ faults < MaxFaults
    /\ faults' = faults + 1
    /\ WriteError(p)
    /\ UNCHANGED <<lockVars, runState, pairs, inst, world, fetches, crashes>>

(* Mutant: every request is taken for a capture. *)
FinalState_CountsAttempts(j) ==
    [j.mem EXCEPT !.attempted = j.used,
                  !.captured = j.captures,
                  !.done = j.done,
                  !.status = IF j.used = PlanSize THEN "complete"
                             ELSE IF j.stopped THEN "stopped"
                             ELSE "in_progress"]

(* The summing up at the end of executeCaptureRunLocked.                   *)
FinalState(j) ==
    [j.mem EXCEPT !.attempted = j.used,
                  !.captured = j.captures,
                  !.done = j.done,
                  !.status = IF j.stopped THEN "stopped"
                             ELSE IF j.done = Ordinal THEN "complete"
                             ELSE "in_progress"]

Finish(p, j) == Persist(p, j, FinalState(j), "release")

(* The second pre-fetch write marks the request as possibly in flight.     *)
Marked(j) == [j.mem EXCEPT !.lastAt = Wall, !.inFlight = TRUE]

Write(p) ==
    LET j == job[p] IN
    /\ pc[p] = "write"
    /\ runState' = j.mem
    /\ CASE j.next = "mark"  -> Persist(p, j, Marked(j), "fetch")
         [] j.next = "final" -> Finish(p, j)
         [] OTHER            -> Goto(p, j.next) /\ job' = job
    /\ UNCHANGED <<lockVars, pairs, inst, world, fetches, used>>

-----------------------------------------------------------------------------
(* executeCaptureRunLocked                                                 *)

(* Captures without a run state are not guessed at; an unreadable state is *)
(* refused.                                                                *)
ReadRunState(p) ==
    /\ pc[p] = "read"
    /\ IF runState = Absent
       THEN IF \E o \in Ordinal : pairs[o] # "absent"
            THEN Goto(p, "release") /\ job' = job
            ELSE Persist(p, job[p], FreshState, "seed")
       ELSE IF ReadableState(runState)
            THEN /\ job' = [job EXCEPT ![p].mem = runState]
                 /\ Goto(p, "seed")
            ELSE Goto(p, "release") /\ job' = job
    /\ UNCHANGED <<lockVars, runState, pairs, inst, world, fetches, used>>

(* Mutant: the marker of a request in flight is not looked at. *)
ResumeAnchor_TrustsState(s) == IF s.attempted = 0 THEN 0 ELSE s.lastAt

(* Where the delay of a resumed run is measured from: an earlier process   *)
(* may have died with a request in flight, and only an explicit FALSE of   *)
(* the marker proves that its start was recorded exactly.                  *)
ResumeAnchor(s) ==
    IF s.attempted = 0 THEN 0 ELSE IF s.inFlight THEN Wall ELSE s.lastAt

Seed(p) ==
    LET s == job[p].mem IN
    /\ pc[p] = "seed"
    /\ job' = [job EXCEPT ![p].used = s.attempted, ![p].captures = s.captured,
                          ![p].done = s.done, ![p].anchor = ResumeAnchor(s)]
    /\ Goto(p, "candidate")
    /\ UNCHANGED <<lockVars, runState, pairs, inst, world, fetches, used>>

(* The wait that fetchOnce computes; a clock that went backwards waits for *)
(* the full delay.                                                         *)
WaitFrom(anchor) ==
    IF anchor = 0 \/ Wall - anchor >= Delay THEN clock
    ELSE clock + Delay - (IF Wall < anchor THEN 0 ELSE Wall - anchor)

(* The capture of the candidate was counted by an earlier process.         *)
Recorded(j) == j.ord \in j.done

(* A pair found complete counts as captured; a partial one, or one that    *)
(* the state records and the directory lacks, stops the run.               *)
AdoptPair(p) ==
    LET j == job[p] IN
    /\ pc[p] = "candidate"
    /\ j.ord \in Ordinal
    /\ pairs[j.ord] = "complete"
    /\ job' = [job EXCEPT ![p].ord = @ + 1,
                          ![p].captures = IF Recorded(j) THEN @ ELSE @ + 1,
                          ![p].done = @ \cup {j.ord}]
    /\ UNCHANGED <<lockVars, runState, pairs, pc, inst, world, fetches, used>>

RefusePair(p) ==
    LET j == job[p] IN
    /\ pc[p] = "candidate"
    /\ j.ord \in Ordinal
    /\ pairs[j.ord] = "partial" \/ (pairs[j.ord] = "absent" /\ j.ord \in j.done)
    /\ Finish(p, [j EXCEPT !.stopped = TRUE])
    /\ UNCHANGED <<lockVars, runState, pairs, inst, world, fetches, used>>

MayRequest(j) == j.used < MaxRequests

(* Mutant: only a complete pair keeps a candidate from being fetched. *)
MayFetch_UnlessComplete(j) == pairs[j.ord] # "complete"

(* Neither file of the pair is there, and none was ever recorded.          *)
MayFetch(j) == pairs[j.ord] = "absent" /\ j.ord \notin j.done

(* fetchOnce up to its first await: the budget, then the wait.             *)
Request(p) ==
    LET j == job[p] IN
    /\ pc[p] = "candidate"
    /\ j.ord \in Ordinal
    /\ MayFetch(j)
    /\ IF MayRequest(j)
       THEN /\ job' = [job EXCEPT ![p].used = @ + 1,
                                  ![p].wake = WaitFrom(j.anchor)]
            /\ Goto(p, "wait")
       ELSE Persist(p, [j EXCEPT !.stopped = TRUE],
                    [j.mem EXCEPT !.attempted = j.used, !.inFlight = FALSE],
                    "final")
    /\ UNCHANGED <<lockVars, runState, pairs, inst, world, fetches, used>>

PlanDone(p) ==
    /\ pc[p] = "candidate"
    /\ job[p].ord \notin Ordinal
    /\ Finish(p, job[p])
    /\ UNCHANGED <<lockVars, runState, pairs, inst, world, fetches, used>>

(* Mutant: the attempt is counted when the request settles. *)
Counted_AfterTheFact(j) == [j.mem EXCEPT !.lastAt = Wall, !.inFlight = FALSE]

(* The first pre-fetch write records the attempt.                          *)
Counted(j) ==
    [j.mem EXCEPT !.attempted = j.used, !.lastAt = Wall, !.inFlight = FALSE]

BeforeFetch(p) ==
    LET j == job[p] IN
    /\ pc[p] = "wait"
    /\ clock >= j.wake
    /\ Persist(p, j, Counted(j), "mark")
    /\ UNCHANGED <<lockVars, runState, pairs, inst, world, fetches, used>>

(* The native fetch.  The adapter takes its anchor here.                   *)
BeginFetch(p) ==
    /\ pc[p] = "fetch"
    /\ fetches' = Append(fetches, [at |-> clock, ord |-> job[p].ord])
    /\ job' = [job EXCEPT ![p].anchor = Wall]
    /\ Goto(p, "inFlight")
    /\ UNCHANGED <<lockVars, runState, pairs, inst, world, used>>

(* Actualization with the true start of the request.                       *)
Settled(j) ==
    [j.mem EXCEPT !.attempted = j.used, !.lastAt = j.anchor,
                  !.inFlight = FALSE]

Respond(p) ==
    LET j == job[p] IN
    /\ pc[p] = "inFlight"
    /\ Persist(p, j, [Settled(j) EXCEPT !.received = @ + 1], "content")
    /\ UNCHANGED <<lockVars, runState, pairs, inst, world, fetches, used>>

(* Timeout, abort, oversized body or a transport error.                    *)
FetchFails(p) ==
    LET j == job[p] IN
    /\ pc[p] = "inFlight"
    /\ Persist(p, [j EXCEPT !.stopped = TRUE], Settled(j), "final")
    /\ UNCHANGED <<lockVars, runState, pairs, inst, world, fetches, used>>

(* Access control, the detail parser or the content-validity gate.         *)
RejectContent(p) ==
    /\ pc[p] = "content"
    /\ Finish(p, [job[p] EXCEPT !.stopped = TRUE])
    /\ UNCHANGED <<lockVars, runState, pairs, inst, world, fetches, used>>

AcceptContent(p) ==
    /\ pc[p] = "content"
    /\ Goto(p, "pair")
    /\ UNCHANGED <<lockVars, runState, pairs, inst, job, world, fetches, used>>

(* writeCapturePair: the payload is renamed into place, then the manifest. *)
(* A pair that is already there has another manifest and is not replaced.  *)
KeepPayload(p) ==
    LET j == job[p] IN
    /\ pc[p] = "pair"
    /\ IF pairs[j.ord] = "absent"
       THEN /\ pairs' = [pairs EXCEPT ![j.ord] = "partial"]
            /\ Goto(p, "manifest") /\ job' = job
       ELSE Finish(p, [j EXCEPT !.stopped = TRUE]) /\ pairs' = pairs
    /\ UNCHANGED <<lockVars, runState, inst, world, fetches, used>>

(* Mutant: the ordinal is advanced too early. *)
AfterCapture_NextOrdinal(j) ==
    [j.mem EXCEPT !.attempted = j.used, !.captured = j.captures,
                  !.done = j.done \cup {j.ord}]

(* The write that follows each capture.                                    *)
AfterCapture(j) ==
    [j.mem EXCEPT !.attempted = j.used, !.captured = j.captures,
                  !.done = j.done]

KeepManifest(p) ==
    LET j == [job[p] EXCEPT !.captures = @ + 1, !.done = @ \cup {job[p].ord},
                            !.ord = @ + 1] IN
    /\ pc[p] = "manifest"
    /\ pairs' = [pairs EXCEPT ![job[p].ord] = "complete"]
    /\ Persist(p, j, AfterCapture(j), "candidate")
    /\ UNCHANGED <<lockVars, runState, inst, world, fetches, used>>

(* The manifest could not be renamed: the payload is unlinked again.       *)
PairFails(p) ==
    /\ pc[p] = "manifest"
    /\ faults < MaxFaults
    /\ faults' = faults + 1
    /\ pairs' = [pairs EXCEPT ![job[p].ord] = "absent"]
    /\ Finish(p, [job[p] EXCEPT !.stopped = TRUE])
    /\ UNCHANGED <<lockVars, runState, inst, world, fetches, crashes>>

-----------------------------------------------------------------------------
(* The world                                                               *)

(* A process that has moved a lock aside which it may not delete.          *)
Restoring(p) ==
    \/ pc[p] = "grabbed" /\ trash[p] # seen[p]
    \/ pc[p] = "released" /\ trash[p] # Token(p)

Crash(p) ==
    /\ pc[p] # "down"
    /\ crashes < MaxCrashes
    /\ Restoring(p) => MoverMayDie
    /\ crashes' = crashes + 1
    /\ End(p)
    /\ trash' = [trash EXCEPT ![p] = Free]
    /\ UNCHANGED <<lock, runState, pairs, inst, world, fetches, faults>>

Tick ==
    /\ clock < MaxClock
    /\ clock' = clock + 1
    /\ UNCHANGED <<lockVars, runState, pairs, pc, inst, job, setBack, fetches,
                   used>>

SetBack ==
    /\ setBack < MaxSetBack
    /\ setBack' = setBack + 1
    /\ UNCHANGED <<lockVars, runState, pairs, pc, inst, job, clock, fetches,
                   used>>

Step(p) ==
    \/ Start(p) \/ Publish(p) \/ Judge(p) \/ Grab(p) \/ SettleGrab(p)
    \/ CheckOwned(p) \/ Release(p) \/ SettleRelease(p)
    \/ Verify(p) \/ WriteFails(p) \/ Write(p)
    \/ ReadRunState(p) \/ Seed(p)
    \/ AdoptPair(p) \/ RefusePair(p) \/ Request(p) \/ PlanDone(p)
    \/ BeforeFetch(p) \/ BeginFetch(p) \/ Respond(p) \/ FetchFails(p)
    \/ RejectContent(p) \/ AcceptContent(p)
    \/ KeepPayload(p) \/ KeepManifest(p) \/ PairFails(p)
    \/ Crash(p)

Next == (\E p \in Proc : Step(p)) \/ Tick \/ SetBack

Spec == Init /\ [][Next]_vars

-----------------------------------------------------------------------------
Label == {"down", "publish", "judge", "grab", "grabbed", "owned", "read",
          "verify", "write", "seed", "candidate", "wait", "fetch",
          "inFlight", "content", "pair", "manifest", "release", "released"}

Continuation == {"none", "seed", "mark", "fetch", "content", "candidate",
                 "final", "release"}

Job == [mem : RunState, used : Nat, captures : Nat, done : SUBSET Ordinal,
        anchor : Int, wake : Int, ord : Nat \ {0},
        next : Continuation,
        stopped : BOOLEAN]

(* Type correctness of the run directory and of the processes: a token is  *)
(* always a complete one, and run-state.json is never torn.                *)
TypeOK ==
    /\ lock \in (Proc \X Nat) \cup {Free}
    /\ trash \in [Proc -> (Proc \X Nat) \cup {Free}]
    /\ seen \in [Proc -> (Proc \X Nat) \cup {Free}]
    /\ retried \in [Proc -> BOOLEAN]
    /\ inst \in [Proc -> Nat]
    /\ pc \in [Proc -> Label]
    /\ runState \in RunState \cup {Absent}
    /\ pairs \in [Ordinal -> {"absent", "partial", "complete"}]
    /\ job \in [Proc -> Job]
    /\ fetches \in Seq([at : Nat, ord : Ordinal])
    /\ clock \in Nat /\ setBack \in 0..MaxSetBack
    /\ crashes \in Nat /\ faults \in Nat

(* One run id is worked on by one process at a time: the takeover of a     *)
(* stale lock, the grab and the putting back of a live one, never leave    *)
(* two processes with a request on the wire.                               *)
OneFetcher == \A p, q \in Proc : InFlight(p) /\ InFlight(q) => p = q

(* Every request that went out, by whichever process, is in the run state  *)
(* that the next process will read, and all of them are within the budget. *)
RequestsRecorded ==
    fetches # <<>> => /\ runState # Absent
                      /\ Len(fetches) <= runState.attempted
                      /\ Len(fetches) <= MaxRequests

(* The starts of two requests are Delay apart, across crashes, failing     *)
(* writes, restarts, slow writes and a wall clock that is set back.        *)
RequestSpacing ==
    \A i \in 1 .. Len(fetches) - 1 :
        fetches[i + 1].at - fetches[i].at >= Delay

(* No request goes out for a candidate whose capture is already complete,  *)
(* nor for one of which half is kept.                                      *)
NoSecondCapture ==
    [][fetches' # fetches => pairs[fetches'[Len(fetches')].ord] = "absent"]_vars

(* The run never writes a state that its own reader would refuse, which    *)
(* would end the run id for good.                                          *)
StateStaysReadable == runState # Absent => ReadableState(runState)

(* A candidate that the run state calls captured has both files, and a run *)
(* that calls itself complete has captured the whole plan.                 *)
DoneIsCaptured ==
    runState # Absent =>
        /\ \A o \in runState.done : pairs[o] = "complete"
        /\ runState.status = "complete" =>
               \A o \in Ordinal : pairs[o] = "complete"

(* What a run leaves in its state is readable by the process that resumes  *)
(* it, and true of the pairs on disk.                                      *)
StateIsSound == StateStaysReadable /\ DoneIsCaptured
=============================================================================

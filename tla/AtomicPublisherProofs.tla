----------------------- MODULE AtomicPublisherProofs -----------------------
(***************************************************************************)
(* Proofs about AtomicPublisher for every set of writers and batches and   *)
(* every bound.  The committed directory is shown to be, in every          *)
(* reachable state, the set of prefixes of one history.                    *)
(***************************************************************************)
EXTENDS AtomicPublisher, TLAPS, SequenceTheorems, FiniteSetTheorems

(* The identities of a history and of everything before it. *)
PrefixSet(h) == {SubSeq(h, 1, n) : n \in 1..Len(h)}

(* The parent of a transaction that extends a history is that history. *)
LEMMA FrontOfAppend ==
    ASSUME NEW S, NEW h \in Seq(S), NEW e \in S
    PROVE  Front(Append(h, e)) = h
<1>1. Append(h, e) \in Seq(S) /\ Len(Append(h, e)) = Len(h) + 1
  OBVIOUS
<1>2. Front(Append(h, e)) = SubSeq(Append(h, e), 1, Len(h))
  BY <1>1 DEF Front
<1>3. \A i \in 1..Len(h) : Append(h, e)[i] = h[i]
  OBVIOUS
<1>4. Len(SubSeq(Append(h, e), 1, Len(h))) = Len(h)
  BY <1>1, SubSeqProperties
<1>5. \A i \in 1..Len(h) : SubSeq(Append(h, e), 1, Len(h))[i] = h[i]
  BY <1>1, <1>3, SubSeqProperties
<1>6. SubSeq(Append(h, e), 1, Len(h)) \in Seq(S)
  BY <1>1, SubSeqProperties
<1>. QED  BY <1>2, <1>4, <1>5, <1>6, SeqEqual

(* A prefix of a history, and the prefixes of that prefix. *)
LEMMA PrefixFacts ==
    ASSUME NEW S, NEW h \in Seq(S), NEW n \in 0..Len(h)
    PROVE  /\ SubSeq(h, 1, n) \in Seq(S)
           /\ Len(SubSeq(h, 1, n)) = n
           /\ \A i \in 1..n : SubSeq(h, 1, n)[i] = h[i]
           /\ \A k \in 0..n : SubSeq(SubSeq(h, 1, n), 1, k) = SubSeq(h, 1, k)
<1>1. /\ SubSeq(h, 1, n) \in Seq(S)
      /\ Len(SubSeq(h, 1, n)) = n
      /\ \A i \in 1..n : SubSeq(h, 1, n)[i] = h[i]
  BY SubSeqProperties
<1>2. ASSUME NEW k \in 0..n
      PROVE  SubSeq(SubSeq(h, 1, n), 1, k) = SubSeq(h, 1, k)
  <2>1. /\ SubSeq(h, 1, k) \in Seq(S)
        /\ Len(SubSeq(h, 1, k)) = k
        /\ \A i \in 1..k : SubSeq(h, 1, k)[i] = h[i]
    BY SubSeqProperties
  <2>2. /\ SubSeq(SubSeq(h, 1, n), 1, k) \in Seq(S)
        /\ Len(SubSeq(SubSeq(h, 1, n), 1, k)) = k
        /\ \A i \in 1..k : SubSeq(SubSeq(h, 1, n), 1, k)[i] = SubSeq(h, 1, n)[i]
    BY <1>1, SubSeqProperties
  <2>3. \A i \in 1..k : SubSeq(SubSeq(h, 1, n), 1, k)[i] = SubSeq(h, 1, k)[i]
    BY <1>1, <2>1, <2>2
  <2>. QED  BY <2>1, <2>2, <2>3, SeqEqual
<1>. QED  BY <1>1, <1>2

(* Publishing adds exactly one identity. *)
LEMMA PrefixSetAppend ==
    ASSUME NEW S, NEW h \in Seq(S), NEW e \in S
    PROVE  PrefixSet(Append(h, e)) = PrefixSet(h) \cup {Append(h, e)}
<1>. DEFINE g == Append(h, e)
<1>1. g \in Seq(S) /\ Len(g) = Len(h) + 1 /\ Len(h) \in Nat
  OBVIOUS
<1>2. SubSeq(g, 1, Len(h)) = h
  BY FrontOfAppend, <1>1 DEF Front
<1>3. SubSeq(g, 1, Len(g)) = g
  BY <1>1, SubSeqFull
<1>4. \A n \in 1..Len(h) : SubSeq(g, 1, n) = SubSeq(h, 1, n)
  BY <1>1, <1>2, PrefixFacts, Len(h) \in 0..Len(g)
<1>. HIDE DEF g
<1>5. PrefixSet(g) = {SubSeq(g, 1, n) : n \in 1..Len(h)} \cup {g}
  BY <1>1, <1>3 DEF PrefixSet
<1>. QED  BY <1>4, <1>5 DEF PrefixSet, g

(* A power loss leaves the prefixes of a shorter history. *)
LEMMA PrefixSetTruncate ==
    ASSUME NEW S, NEW h \in Seq(S), NEW n \in 0..Len(h)
    PROVE  {s \in PrefixSet(h) : Len(s) <= n} = PrefixSet(SubSeq(h, 1, n))
<1>1. \A k \in 1..Len(h) : Len(SubSeq(h, 1, k)) = k
  BY PrefixFacts
<1>2. {s \in PrefixSet(h) : Len(s) <= n} = {SubSeq(h, 1, k) : k \in 1..n}
  BY <1>1 DEF PrefixSet
<1>3. Len(SubSeq(h, 1, n)) = n
      /\ \A k \in 1..n : SubSeq(SubSeq(h, 1, n), 1, k) = SubSeq(h, 1, k)
  BY PrefixFacts
<1>. QED  BY <1>2, <1>3 DEF PrefixSet

(* The head of the prefixes of a history is the history. *)
LEMMA HeadOfPrefixSet ==
    ASSUME NEW S, NEW h \in Seq(S)
    PROVE  HeadOf(PrefixSet(h)) = h
<1>1. CASE h = <<>>
  BY <1>1 DEF PrefixSet, HeadOf
<1>2. CASE h # <<>>
  <2>1. Len(h) \in Nat /\ Len(h) >= 1
    BY <1>2
  <2>2. \A k \in 1..Len(h) : Len(SubSeq(h, 1, k)) = k
    BY PrefixFacts
  <2>3. SubSeq(h, 1, Len(h)) = h
    BY SMTT(40), SubSeqFull
  <2>4. h \in PrefixSet(h)
    <3>1. Len(h) \in 1..Len(h)
      BY <2>1
    <3>. QED  BY <2>3, <3>1 DEF PrefixSet
  <2>5. ASSUME NEW t \in PrefixSet(h)
        PROVE  \E k \in 1..Len(h) : t = SubSeq(h, 1, k) /\ Len(t) = k
    BY <2>2 DEF PrefixSet
  <2>6. \A t \in PrefixSet(h) : Len(t) <= Len(h)
    BY <2>1, <2>5
  <2>7. ASSUME NEW s \in PrefixSet(h), \A t \in PrefixSet(h) : Len(t) <= Len(s)
        PROVE  s = h
    <3>1. PICK k \in 1..Len(h) : s = SubSeq(h, 1, k) /\ Len(s) = k
      BY <2>5
    <3>2. k = Len(h)
      BY <2>1, <2>4, <2>7, <3>1
    <3>. QED  BY <2>3, <3>1, <3>2
  <2>8. PrefixSet(h) # {}
    BY <2>4
  <2>. QED  BY <2>4, <2>6, <2>7, <2>8 DEF HeadOf
<1>. QED  BY <1>1, <1>2
-----------------------------------------------------------------------------
(* The parts of the inductive invariant. *)

Chain == HeadOf(committed)

(* committed/ holds one history and everything before it, in which no      *)
(* logical batch occurs twice.                                             *)
ChainInv ==
    /\ Chain \in Seq(Entry)
    /\ committed = PrefixSet(Chain)
    /\ \A i, j \in 1..Len(Chain) :
          KeyOf[Chain[i].batch] = KeyOf[Chain[j].batch] => i = j

(* The lock file is there, and is the writer's own, in the locked section. *)
LockInv == \A w \in Writer : InSection(w) => lock = w

(* What a writer is about to rename extends the head by a new batch.       *)
TxInv ==
    \A w \in Writer : pc[w] \in {"stage", "rename"} =>
       /\ SameLogical(Chain, cand[w].batch) = {}
       /\ \E e \in Entry : /\ tx[w] = Append(Chain, e)
                           /\ e.batch = cand[w].batch

IInv == TypeOK /\ ChainInv /\ LockInv /\ TxInv

(* The head of the store is a sequence of entries, read from any snapshot. *)
LEMMA HeadFacts ==
    ASSUME TypeOK, ChainInv
    PROVE  /\ Chain \in Seq(Entry)
           /\ Len(Chain) \in Nat
           /\ \A n \in 0..Len(Chain) : SubSeq(Chain, 1, n) \in Seq(Entry)
           /\ <<>> \in Seq(Entry)
  BY PrefixFacts DEF ChainInv

-----------------------------------------------------------------------------
(* Type correctness. *)

LEMMA BlankType ==
    /\ Blank \in Candidate
    /\ \A b \in Batch : NoCandidate(b) \in Candidate
  BY BatchAssumption DEF Blank, NoCandidate, Candidate

LEMMA TypeInit == Init => TypeOK
<1>. QED
  BY BlankType, ClockAssumption, BoundAssumption
  DEF Init, TypeOK, StoreType, CallType, BoundType, Labels, Verdicts

(* What the named assumptions say of each constant. *)
LEMMA Numbers ==
    /\ CreatedAt \in Int /\ ClockFloor \in Int /\ MaxClock \in Int
    /\ ClockFloor <= CreatedAt /\ CreatedAt <= MaxClock
    /\ MaxReadRetries \in Nat /\ MaxFaults \in Nat /\ MaxCrashes \in Nat
    /\ MaxPowerLosses \in Nat /\ MaxCalls \in Nat
  BY ClockAssumption, BoundAssumption

(* The time and identity the publisher gives a candidate. *)
LEMMA FinalizedType ==
    ASSUME TypeOK, NEW w \in Writer
    PROVE  /\ KnowledgeTime(cand[w].parent) \in Int
           /\ Finalized(cand[w]) \in Seq(Entry)
<1>. DEFINE p == cand[w].parent
<1>1. p \in Seq(Entry) /\ cand[w].batch \in Batch
      /\ cand[w].delta \in SUBSET Item /\ clock \in Int
  BY Numbers DEF TypeOK, CallType, StoreType, Candidate
<1>2. ASSUME p # <<>>
      PROVE  p[Len(p)].kt \in Int
  <2>1. Len(p) \in 1..Len(p)
    BY <1>1, <1>2
  <2>2. p[Len(p)] \in Entry
    BY <1>1, <2>1
  <2>. QED  BY <2>2 DEF Entry
<1>3. KnowledgeTime(cand[w].parent) \in Int
  BY <1>1, <1>2 DEF KnowledgeTime
<1>4. [batch |-> cand[w].batch, delta |-> cand[w].delta,
       kt |-> KnowledgeTime(cand[w].parent)] \in Entry
  BY <1>1, <1>3 DEF Entry
<1>. QED  BY <1>1, <1>3, <1>4 DEF Finalized

(* Starting a call over leaves every local variable well typed. *)
LEMMA FreshType ==
    ASSUME CallType, NEW W, NEW c \in Candidate, NEW C \in SUBSET Seq(Entry),
           Fresh(W, c, C), pc' \in [Writer -> Labels]
    PROVE  CallType'
<1>1. /\ cand' \in [Writer -> Candidate]
      /\ seen' \in [Writer -> SUBSET Seq(Entry)]
  BY DEF CallType, Fresh
<1>2. tries' \in [Writer -> 0..MaxReadRetries]
  BY Numbers DEF CallType, Fresh
<1>3. /\ tx' \in [Writer -> Seq(Entry)]
      /\ outcome' \in [Writer -> Seq(Entry)]
  BY DEF CallType, Fresh
<1>4. /\ renamed' \in [Writer -> BOOLEAN]
      /\ verdict' \in [Writer -> Verdicts]
  BY DEF CallType, Fresh, Verdicts
<1>. QED  BY <1>1, <1>2, <1>3, <1>4 DEF CallType

LEMMA BoundStep == TypeOK /\ [Next]_vars => BoundType'
<1>. SUFFICES ASSUME BoundType, [Next]_vars
              PROVE  BoundType'
  BY DEF TypeOK
<1>. USE Numbers DEF BoundType, At, Goto, store, call, used, locked, within, told
<1>1. ASSUME NEW w \in Writer, NEW b \in Batch, Begin(w, b)
      PROVE  BoundType'
  BY <1>1 DEF Begin, Fresh, NoCandidate
<1>2. ASSUME NEW w \in Writer, Republish(w)
      PROVE  BoundType'
  BY <1>2 DEF Republish, Fresh
<1>3. ASSUME NEW w \in Writer, ReadThrows(w)
      PROVE  BoundType'
  BY <1>3 DEF ReadThrows, ReaderThrows, Fault, NoFault, Answer
<1>4. ASSUME NEW w \in Writer, Reread(w)
      PROVE  BoundType'
  BY <1>4 DEF Reread, MayReread, Answer
<1>5. ASSUME NEW w \in Writer, Build(w)
      PROVE  BoundType'
  BY <1>5 DEF Build, Answer, DeltaFor
<1>6. ASSUME NEW w \in Writer, Acquire(w)
      PROVE  BoundType'
  BY <1>6 DEF Acquire
<1>7. ASSUME NEW w \in Writer, AcquireTimesOut(w)
      PROVE  BoundType'
  BY <1>7 DEF AcquireTimesOut, Answer
<1>8. ASSUME NEW w \in Writer, RecheckThrows(w)
      PROVE  BoundType'
  BY <1>8 DEF RecheckThrows, ReaderThrows, Fault, NoFault, Raise
<1>9. ASSUME NEW w \in Writer, Reuse(w)
      PROVE  BoundType'
  BY <1>9 DEF Reuse, Raise, SameLogical
<1>10. ASSUME NEW w \in Writer, RejectParent(w)
      PROVE  BoundType'
  BY <1>10 DEF RejectParent, NewBatch, Raise
<1>11. ASSUME NEW w \in Writer, RejectClock(w)
      PROVE  BoundType'
  BY <1>11 DEF RejectClock, NewBatch, Raise
<1>12. ASSUME NEW w \in Writer, Finalize(w)
      PROVE  BoundType'
  BY <1>12 DEF Finalize, NewBatch, Raise
<1>13. ASSUME NEW w \in Writer, Stage(w)
      PROVE  BoundType'
  BY <1>13 DEF Stage
<1>14. ASSUME NEW w \in Writer, Rename(w)
      PROVE  BoundType'
  BY <1>14 DEF Rename, Move
<1>15. ASSUME NEW w \in Writer, Sync(w)
      PROVE  BoundType'
  BY <1>15 DEF Sync, SyncedLength
<1>16. ASSUME NEW w \in Writer, Verify(w)
      PROVE  BoundType'
  BY <1>16 DEF Verify
<1>17. ASSUME NEW w \in Writer, VerifyFails(w)
      PROVE  BoundType'
  BY <1>17 DEF VerifyFails, Fault, NoFault, Raise
<1>18. ASSUME NEW w \in Writer, Resolve(w)
      PROVE  BoundType'
  BY <1>18 DEF Resolve, Raise
<1>19. ASSUME NEW w \in Writer, ResolveFails(w)
      PROVE  BoundType'
  BY <1>19 DEF ResolveFails, ReaderThrows, Fault, NoFault, Raise
<1>20. ASSUME NEW w \in Writer, Release(w)
      PROVE  BoundType'
  BY <1>20 DEF Release, Answer
<1>21. ASSUME NEW w \in Writer, AcquireSetupFails(w)
      PROVE  BoundType'
  BY <1>21 DEF AcquireSetupFails, Fault, Answer
<1>22. ASSUME NEW w \in Writer, StageFails(w)
      PROVE  BoundType'
  BY <1>22 DEF StageFails, Fault, Raise
<1>23. ASSUME NEW w \in Writer, RenameErrors(w)
      PROVE  BoundType'
  BY <1>23 DEF RenameErrors, Fault, Move
<1>24. ASSUME NEW w \in Writer, SyncFails(w)
      PROVE  BoundType'
  BY <1>24 DEF SyncFails, Fault
<1>25. ASSUME NEW w \in Writer, ReleaseFails(w)
      PROVE  BoundType'
  BY <1>25 DEF ReleaseFails, Fault, Answer, ReleaseError
<1>26. ASSUME NEW w \in Writer, Crash(w)
      PROVE  BoundType'
  BY <1>26 DEF Crash, Fresh
<1>27. CASE PowerLoss
  BY <1>27 DEF PowerLoss, Fresh
<1>28. CASE OperatorRecovers
  BY <1>28 DEF OperatorRecovers
<1>29. CASE Tick
  BY <1>29 DEF Tick
<1>30. CASE StepBack
  BY <1>30 DEF StepBack
<1>31. CASE UNCHANGED vars
  BY <1>31 DEF vars
<1>. QED
  BY <1>1, <1>2, <1>3, <1>4, <1>5, <1>6, <1>7, <1>8, <1>9, <1>10,
     <1>11, <1>12, <1>13, <1>14, <1>15, <1>16, <1>17, <1>18, <1>19, <1>20,
     <1>21, <1>22, <1>23, <1>24, <1>25, <1>26, <1>27, <1>28, <1>29, <1>30,
     <1>31
  DEF Next, Proceed, Misfortune

LEMMA StoreStep == TypeOK /\ ChainInv /\ [Next]_vars => StoreType'
<1>. SUFFICES ASSUME TypeOK, StoreType, CallType, ChainInv, [Next]_vars
              PROVE  StoreType'
  BY DEF TypeOK
<1>. USE Numbers DEF StoreType, At, Goto, store, call, used, locked, within, told
<1>1. ASSUME NEW w \in Writer, NEW b \in Batch, Begin(w, b)
      PROVE  StoreType'
  BY <1>1 DEF Begin, Fresh, NoCandidate
<1>2. ASSUME NEW w \in Writer, Republish(w)
      PROVE  StoreType'
  BY <1>2 DEF Republish, Fresh
<1>3. ASSUME NEW w \in Writer, ReadThrows(w)
      PROVE  StoreType'
  BY <1>3 DEF ReadThrows, ReaderThrows, Fault, NoFault, Answer
<1>4. ASSUME NEW w \in Writer, Reread(w)
      PROVE  StoreType'
  BY <1>4 DEF Reread, MayReread, Answer
<1>5. ASSUME NEW w \in Writer, Build(w)
      PROVE  StoreType'
  BY <1>5 DEF Build, Answer, DeltaFor
<1>6. ASSUME NEW w \in Writer, Acquire(w)
      PROVE  StoreType'
  BY <1>6 DEF Acquire
<1>7. ASSUME NEW w \in Writer, AcquireTimesOut(w)
      PROVE  StoreType'
  BY <1>7 DEF AcquireTimesOut, Answer
<1>8. ASSUME NEW w \in Writer, RecheckThrows(w)
      PROVE  StoreType'
  BY <1>8 DEF RecheckThrows, ReaderThrows, Fault, NoFault, Raise
<1>9. ASSUME NEW w \in Writer, Reuse(w)
      PROVE  StoreType'
  BY <1>9 DEF Reuse, Raise, SameLogical
<1>10. ASSUME NEW w \in Writer, RejectParent(w)
      PROVE  StoreType'
  BY <1>10 DEF RejectParent, NewBatch, Raise
<1>11. ASSUME NEW w \in Writer, RejectClock(w)
      PROVE  StoreType'
  BY <1>11 DEF RejectClock, NewBatch, Raise
<1>12. ASSUME NEW w \in Writer, Finalize(w)
      PROVE  StoreType'
  BY <1>12 DEF Finalize, NewBatch, Raise
<1>13. ASSUME NEW w \in Writer, Stage(w)
      PROVE  StoreType'
  BY <1>13 DEF Stage, CallType
<1>14. ASSUME NEW w \in Writer, Rename(w)
      PROVE  StoreType'
  BY <1>14 DEF Rename, Move, CallType
<1>15. ASSUME NEW w \in Writer, Sync(w)
      PROVE  StoreType'
  BY <1>15, HeadFacts DEF Sync, SyncedLength, Chain
<1>16. ASSUME NEW w \in Writer, Verify(w)
      PROVE  StoreType'
  BY <1>16 DEF Verify
<1>17. ASSUME NEW w \in Writer, VerifyFails(w)
      PROVE  StoreType'
  BY <1>17 DEF VerifyFails, Fault, NoFault, Raise
<1>18. ASSUME NEW w \in Writer, Resolve(w)
      PROVE  StoreType'
  BY <1>18 DEF Resolve, Raise
<1>19. ASSUME NEW w \in Writer, ResolveFails(w)
      PROVE  StoreType'
  BY <1>19 DEF ResolveFails, ReaderThrows, Fault, NoFault, Raise
<1>20. ASSUME NEW w \in Writer, Release(w)
      PROVE  StoreType'
  BY <1>20 DEF Release, Answer, CallType
<1>21. ASSUME NEW w \in Writer, AcquireSetupFails(w)
      PROVE  StoreType'
  BY <1>21 DEF AcquireSetupFails, Fault, Answer
<1>22. ASSUME NEW w \in Writer, StageFails(w)
      PROVE  StoreType'
  BY <1>22 DEF StageFails, Fault, Raise, CallType
<1>23. ASSUME NEW w \in Writer, RenameErrors(w)
      PROVE  StoreType'
  BY <1>23 DEF RenameErrors, Fault, Move, LeavesUnsynced, CallType
<1>24. ASSUME NEW w \in Writer, SyncFails(w)
      PROVE  StoreType'
  BY <1>24 DEF SyncFails, Fault, LeavesUnsynced, CallType
<1>25. ASSUME NEW w \in Writer, ReleaseFails(w)
      PROVE  StoreType'
  BY <1>25 DEF ReleaseFails, Fault, Answer, ReleaseError
<1>26. ASSUME NEW w \in Writer, Crash(w)
      PROVE  StoreType'
  BY <1>26 DEF Crash, Fresh, LeavesUnsynced, CallType
<1>27. CASE PowerLoss
  BY <1>27, HeadFacts DEF PowerLoss, Fresh, Chain
<1>28. CASE OperatorRecovers
  BY <1>28 DEF OperatorRecovers
<1>29. CASE Tick
  BY <1>29 DEF Tick
<1>30. CASE StepBack
  BY <1>30 DEF StepBack
<1>31. CASE UNCHANGED vars
  BY <1>31 DEF vars
<1>. QED
  BY <1>1, <1>2, <1>3, <1>4, <1>5, <1>6, <1>7, <1>8, <1>9, <1>10,
     <1>11, <1>12, <1>13, <1>14, <1>15, <1>16, <1>17, <1>18, <1>19, <1>20,
     <1>21, <1>22, <1>23, <1>24, <1>25, <1>26, <1>27, <1>28, <1>29, <1>30,
     <1>31
  DEF Next, Proceed, Misfortune

LEMMA CallStep == TypeOK /\ ChainInv /\ [Next]_vars => CallType'
<1>. SUFFICES ASSUME TypeOK, StoreType, CallType, ChainInv, [Next]_vars
              PROVE  CallType'
  BY DEF TypeOK
<1>. USE Numbers DEF CallType, Labels, Verdicts, At, Goto, store, call, used, locked, within, told
<1>1. ASSUME NEW w \in Writer, NEW b \in Batch, Begin(w, b)
      PROVE  CallType'
  <2>1. committed \in SUBSET Seq(Entry)
    BY DEF StoreType
  <2>2. Fresh({w}, NoCandidate(b), committed) /\ pc' \in [Writer -> Labels]
    BY <1>1 DEF Begin
  <2>. QED  BY <2>1, <2>2, FreshType, BlankType
<1>2. ASSUME NEW w \in Writer, Republish(w)
      PROVE  CallType'
  <2>1. cand[w] \in Candidate
    OBVIOUS
  <2>2. Fresh({w}, cand[w], {}) /\ pc' \in [Writer -> Labels]
    BY <1>2 DEF Republish
  <2>3. {} \in SUBSET Seq(Entry)
    OBVIOUS
  <2>. HIDE DEF CallType, Goto, At, Labels
  <2>. QED  BY <2>1, <2>2, <2>3, FreshType
<1>3. ASSUME NEW w \in Writer, ReadThrows(w)
      PROVE  CallType'
  BY <1>3 DEF ReadThrows, ReaderThrows, Fault, NoFault, Answer
<1>4. ASSUME NEW w \in Writer, Reread(w)
      PROVE  CallType'
  <2>1. CASE MayReread(tries[w])
    <3>1. seen' \in [Writer -> SUBSET Seq(Entry)]
      BY ZenonT(60), <1>4, <2>1 DEF Reread, StoreType
    <3>2. tries' \in [Writer -> 0..MaxReadRetries]
      <4>1. tries[w] + 1 \in 0..MaxReadRetries
        BY <2>1 DEF MayReread
      <4>2. tries' = [tries EXCEPT ![w] = @ + 1]
        BY <1>4, <2>1 DEF Reread
      <4>. QED  BY <4>1, <4>2
    <3>. QED  BY <1>4, <2>1, <3>1, <3>2 DEF Reread
  <2>2. CASE ~MayReread(tries[w])
    BY <1>4, <2>2 DEF Reread, Answer
  <2>. QED  BY <2>1, <2>2
<1>5. ASSUME NEW w \in Writer, Build(w)
      PROVE  CallType'
  <2>. DEFINE b == cand[w].batch
              c == [batch |-> b, parent |-> Chain, delta |-> DeltaFor(Chain, b),
                    built |-> TRUE]
  <2>1. /\ seen' \in [Writer -> SUBSET Seq(Entry)]
        /\ tries' \in [Writer -> 0..MaxReadRetries]
    BY <1>5 DEF Build
  <2>2. c \in Candidate
    BY HeadFacts, BatchAssumption DEF DeltaFor, Candidate
  <2>3. CASE CaptureTaken(Chain, b)
    BY <1>5, <2>1, <2>3 DEF Build, Answer, Chain
  <2>4. CASE ~CaptureTaken(Chain, b)
    <3>1. cand' = [cand EXCEPT ![w] = c]
      BY <1>5, <2>4 DEF Build, Chain
    <3>2. cand' \in [Writer -> Candidate]
      BY <2>2, <3>1
    <3>. QED  BY <1>5, <2>1, <2>4, <3>2 DEF Build, Chain
  <2>. QED  BY <2>3, <2>4
<1>6. ASSUME NEW w \in Writer, Acquire(w)
      PROVE  CallType'
  BY <1>6 DEF Acquire
<1>7. ASSUME NEW w \in Writer, AcquireTimesOut(w)
      PROVE  CallType'
  BY <1>7 DEF AcquireTimesOut, Answer
<1>8. ASSUME NEW w \in Writer, RecheckThrows(w)
      PROVE  CallType'
  BY <1>8 DEF RecheckThrows, ReaderThrows, Fault, NoFault, Raise
<1>9. ASSUME NEW w \in Writer, Reuse(w)
      PROVE  CallType'
  <2>1. PICK i \in SameLogical(Chain, cand[w].batch) :
           IF IsRetry(Chain, i, cand[w])
           THEN /\ outcome' = [outcome EXCEPT ![w] = SubSeq(Chain, 1, i)]
                /\ Goto(w, "release")
                /\ UNCHANGED verdict
           ELSE Raise(w, "LOGICAL_BATCH_CONFLICT") /\ UNCHANGED outcome
    BY <1>9 DEF Reuse, Chain
  <2>2. SubSeq(Chain, 1, i) \in Seq(Entry)
    BY HeadFacts DEF SameLogical
  <2>3. outcome' \in [Writer -> Seq(Entry)]
    BY <2>1, <2>2
  <2>. QED  BY <1>9, <2>1, <2>3 DEF Reuse, Raise
<1>10. ASSUME NEW w \in Writer, RejectParent(w)
      PROVE  CallType'
  BY <1>10 DEF RejectParent, NewBatch, Raise
<1>11. ASSUME NEW w \in Writer, RejectClock(w)
      PROVE  CallType'
  BY <1>11 DEF RejectClock, NewBatch, Raise
<1>12. ASSUME NEW w \in Writer, Finalize(w)
      PROVE  CallType'
  BY <1>12, FinalizedType DEF Finalize, NewBatch, Raise
<1>13. ASSUME NEW w \in Writer, Stage(w)
      PROVE  CallType'
  BY <1>13 DEF Stage
<1>14. ASSUME NEW w \in Writer, Rename(w)
      PROVE  CallType'
  BY <1>14 DEF Rename, Move
<1>15. ASSUME NEW w \in Writer, Sync(w)
      PROVE  CallType'
  BY <1>15 DEF Sync, SyncedLength
<1>16. ASSUME NEW w \in Writer, Verify(w)
      PROVE  CallType'
  BY <1>16 DEF Verify
<1>17. ASSUME NEW w \in Writer, VerifyFails(w)
      PROVE  CallType'
  BY <1>17 DEF VerifyFails, Fault, NoFault, Raise
<1>18. ASSUME NEW w \in Writer, Resolve(w)
      PROVE  CallType'
  BY <1>18 DEF Resolve, Raise
<1>19. ASSUME NEW w \in Writer, ResolveFails(w)
      PROVE  CallType'
  BY <1>19 DEF ResolveFails, ReaderThrows, Fault, NoFault, Raise
<1>20. ASSUME NEW w \in Writer, Release(w)
      PROVE  CallType'
  BY <1>20 DEF Release, Answer
<1>21. ASSUME NEW w \in Writer, AcquireSetupFails(w)
      PROVE  CallType'
  BY <1>21 DEF AcquireSetupFails, Fault, Answer
<1>22. ASSUME NEW w \in Writer, StageFails(w)
      PROVE  CallType'
  BY <1>22 DEF StageFails, Fault, Raise
<1>23. ASSUME NEW w \in Writer, RenameErrors(w)
      PROVE  CallType'
  BY <1>23 DEF RenameErrors, Fault, Move
<1>24. ASSUME NEW w \in Writer, SyncFails(w)
      PROVE  CallType'
  BY <1>24 DEF SyncFails, Fault
<1>25. ASSUME NEW w \in Writer, ReleaseFails(w)
      PROVE  CallType'
  BY <1>25 DEF ReleaseFails, Fault, Answer, ReleaseError
<1>26. ASSUME NEW w \in Writer, Crash(w)
      PROVE  CallType'
  <2>1. Fresh({w}, Blank, {}) /\ pc' \in [Writer -> Labels]
    BY <1>26 DEF Crash
  <2>. QED  BY <2>1, FreshType, BlankType
<1>27. CASE PowerLoss
  <2>1. Fresh(Writer, Blank, {}) /\ pc' \in [Writer -> Labels]
    BY <1>27 DEF PowerLoss
  <2>. QED  BY <2>1, FreshType, BlankType
<1>28. CASE OperatorRecovers
  BY <1>28 DEF OperatorRecovers
<1>29. CASE Tick
  BY <1>29 DEF Tick
<1>30. CASE StepBack
  BY <1>30 DEF StepBack
<1>31. CASE UNCHANGED vars
  BY <1>31 DEF vars
<1>. QED
  BY <1>1, <1>2, <1>3, <1>4, <1>5, <1>6, <1>7, <1>8, <1>9, <1>10,
     <1>11, <1>12, <1>13, <1>14, <1>15, <1>16, <1>17, <1>18, <1>19, <1>20,
     <1>21, <1>22, <1>23, <1>24, <1>25, <1>26, <1>27, <1>28, <1>29, <1>30,
     <1>31
  DEF Next, Proceed, Misfortune

-----------------------------------------------------------------------------
(* Mutual exclusion. *)

LEMMA LockStep == TypeOK /\ LockInv /\ [Next]_vars => LockInv'
<1>. SUFFICES ASSUME CallType, LockInv, [Next]_vars
              PROVE  LockInv'
  BY DEF TypeOK
<1>. USE LockAssumption
     DEF CallType, LockInv, InSection, At, Goto, store, call, used, locked, within, told
<1>1. ASSUME NEW w \in Writer, NEW b \in Batch, Begin(w, b)
      PROVE  LockInv'
  BY <1>1 DEF Begin
<1>2. ASSUME NEW w \in Writer, Republish(w)
      PROVE  LockInv'
  BY <1>2 DEF Republish
<1>3. ASSUME NEW w \in Writer, ReadThrows(w)
      PROVE  LockInv'
  BY <1>3 DEF ReadThrows, Answer
<1>4. ASSUME NEW w \in Writer, Reread(w)
      PROVE  LockInv'
  BY <1>4 DEF Reread, Answer
<1>5. ASSUME NEW w \in Writer, Build(w)
      PROVE  LockInv'
  BY <1>5 DEF Build, Answer
<1>6. ASSUME NEW w \in Writer, Acquire(w)
      PROVE  LockInv'
  BY <1>6 DEF Acquire, LockAvailable
<1>7. ASSUME NEW w \in Writer, AcquireTimesOut(w)
      PROVE  LockInv'
  BY <1>7 DEF AcquireTimesOut, Answer
<1>8. ASSUME NEW w \in Writer, RecheckThrows(w)
      PROVE  LockInv'
  BY <1>8 DEF RecheckThrows, Raise
<1>9. ASSUME NEW w \in Writer, Reuse(w)
      PROVE  LockInv'
  BY <1>9 DEF Reuse, Raise
<1>10. ASSUME NEW w \in Writer, RejectParent(w)
      PROVE  LockInv'
  BY <1>10 DEF RejectParent, Raise, NewBatch
<1>11. ASSUME NEW w \in Writer, RejectClock(w)
      PROVE  LockInv'
  BY <1>11 DEF RejectClock, Raise, NewBatch
<1>12. ASSUME NEW w \in Writer, Finalize(w)
      PROVE  LockInv'
  BY <1>12 DEF Finalize, Raise, NewBatch
<1>13. ASSUME NEW w \in Writer, Stage(w)
      PROVE  LockInv'
  BY <1>13 DEF Stage
<1>14. ASSUME NEW w \in Writer, Rename(w)
      PROVE  LockInv'
  BY <1>14 DEF Rename
<1>15. ASSUME NEW w \in Writer, Sync(w)
      PROVE  LockInv'
  BY <1>15 DEF Sync
<1>16. ASSUME NEW w \in Writer, Verify(w)
      PROVE  LockInv'
  BY <1>16 DEF Verify
<1>17. ASSUME NEW w \in Writer, VerifyFails(w)
      PROVE  LockInv'
  BY <1>17 DEF VerifyFails, Raise
<1>18. ASSUME NEW w \in Writer, Resolve(w)
      PROVE  LockInv'
  BY <1>18 DEF Resolve, Raise
<1>19. ASSUME NEW w \in Writer, ResolveFails(w)
      PROVE  LockInv'
  BY <1>19 DEF ResolveFails, Raise
<1>20. ASSUME NEW w \in Writer, Release(w)
      PROVE  LockInv'
  BY ZenonT(60), <1>20 DEF Release, Answer
<1>21. ASSUME NEW w \in Writer, AcquireSetupFails(w)
      PROVE  LockInv'
  BY <1>21 DEF AcquireSetupFails, Answer, LockAvailable
<1>22. ASSUME NEW w \in Writer, StageFails(w)
      PROVE  LockInv'
  BY <1>22 DEF StageFails, Raise
<1>23. ASSUME NEW w \in Writer, RenameErrors(w)
      PROVE  LockInv'
  BY <1>23 DEF RenameErrors
<1>24. ASSUME NEW w \in Writer, SyncFails(w)
      PROVE  LockInv'
  BY <1>24 DEF SyncFails
<1>25. ASSUME NEW w \in Writer, ReleaseFails(w)
      PROVE  LockInv'
  BY <1>25 DEF ReleaseFails, Answer
<1>26. ASSUME NEW w \in Writer, Crash(w)
      PROVE  LockInv'
  BY <1>26 DEF Crash
<1>27. CASE PowerLoss
  BY <1>27 DEF PowerLoss
<1>28. CASE OperatorRecovers
  BY <1>28 DEF OperatorRecovers
<1>29. CASE Tick
  BY <1>29 DEF Tick
<1>30. CASE StepBack
  BY <1>30 DEF StepBack
<1>31. CASE UNCHANGED vars
  BY <1>31 DEF vars
<1>. QED
  BY <1>1, <1>2, <1>3, <1>4, <1>5, <1>6, <1>7, <1>8, <1>9, <1>10,
     <1>11, <1>12, <1>13, <1>14, <1>15, <1>16, <1>17, <1>18, <1>19, <1>20,
     <1>21, <1>22, <1>23, <1>24, <1>25, <1>26, <1>27, <1>28, <1>29, <1>30,
     <1>31
  DEF Next, Proceed, Misfortune

-----------------------------------------------------------------------------
(* The history and what is about to extend it. *)

(* Only a rename and a power loss change committed/. *)
LEMMA CommittedStep ==
    ASSUME [Next]_vars
    PROVE  \/ UNCHANGED committed
           \/ \E w \in Writer : pc[w] = "rename" /\ Move(w)
           \/ PowerLoss
<1>. DEFINE Goal == \/ UNCHANGED committed
                    \/ \E w \in Writer : pc[w] = "rename" /\ Move(w)
                    \/ PowerLoss
<1>. USE DEF store, call, used, locked, within, told, vars, At
<1>1. ASSUME NEW w \in Writer, Proceed(w) PROVE Goal
  <2>1. CASE Rename(w)
    BY <2>1 DEF Rename
  <2>2. CASE ReadThrows(w) \/ Reread(w) \/ Build(w) \/ Acquire(w)
             \/ AcquireTimesOut(w)
    BY <2>2 DEF ReadThrows, Reread, Build, Acquire, AcquireTimesOut
  <2>3. CASE RecheckThrows(w) \/ Reuse(w) \/ RejectParent(w) \/ RejectClock(w)
             \/ Finalize(w) \/ Stage(w) \/ Sync(w)
    BY <2>3 DEF RecheckThrows, Reuse, RejectParent, RejectClock, Finalize,
                Stage, Sync
  <2>4. CASE Verify(w) \/ VerifyFails(w) \/ Resolve(w) \/ ResolveFails(w)
             \/ Release(w)
    BY <2>4 DEF Verify, VerifyFails, Resolve, ResolveFails, Release
  <2>. QED  BY <1>1, <2>1, <2>2, <2>3, <2>4 DEF Proceed
<1>2. ASSUME NEW w \in Writer, Misfortune(w) PROVE Goal
  <2>1. CASE RenameErrors(w)
    BY <2>1 DEF RenameErrors
  <2>2. CASE AcquireSetupFails(w) \/ StageFails(w) \/ SyncFails(w)
             \/ ReleaseFails(w) \/ Crash(w)
    BY <2>2 DEF AcquireSetupFails, StageFails, SyncFails, ReleaseFails, Crash
  <2>. QED  BY <1>2, <2>1, <2>2 DEF Misfortune
<1>3. ASSUME NEW w \in Writer,
             (\E b \in Batch : Begin(w, b)) \/ Republish(w) PROVE Goal
  BY <1>3 DEF Begin, Republish
<1>4. CASE OperatorRecovers \/ Tick \/ StepBack \/ UNCHANGED vars
  BY <1>4 DEF OperatorRecovers, Tick, StepBack
<1>. QED  BY <1>1, <1>2, <1>3, <1>4 DEF Next

LEMMA ChainStep ==
    TypeOK /\ ChainInv /\ LockInv /\ TxInv /\ [Next]_vars => ChainInv'
<1>. SUFFICES ASSUME TypeOK, ChainInv, LockInv, TxInv, [Next]_vars
              PROVE  ChainInv'
  OBVIOUS
<1>1. CASE UNCHANGED committed
  BY <1>1 DEF ChainInv, Chain
<1>2. ASSUME NEW w \in Writer, pc[w] = "rename", Move(w)
      PROVE  ChainInv'
  <2>1. PICK e \in Entry : tx[w] = Append(Chain, e) /\ e.batch = cand[w].batch
    BY <1>2 DEF TxInv
  <2>2. Chain \in Seq(Entry) /\ Append(Chain, e) \in Seq(Entry)
    BY DEF ChainInv
  <2>3. committed' = PrefixSet(Append(Chain, e))
    BY <1>2, <2>1, <2>2, PrefixSetAppend DEF Move, ChainInv
  <2>4. Chain' = Append(Chain, e)
    BY <2>2, <2>3, HeadOfPrefixSet DEF Chain
  <2>5. \A i \in 1..Len(Chain) : KeyOf[Chain[i].batch] # KeyOf[e.batch]
    BY <1>2, <2>1 DEF TxInv, SameLogical
  <2>6. \A i, j \in 1..Len(Append(Chain, e)) :
           KeyOf[Append(Chain, e)[i].batch] = KeyOf[Append(Chain, e)[j].batch]
             => i = j
    <3>1. /\ Len(Append(Chain, e)) = Len(Chain) + 1 /\ Len(Chain) \in Nat
          /\ Append(Chain, e)[Len(Chain) + 1] = e
          /\ \A i \in 1..Len(Chain) : Append(Chain, e)[i] = Chain[i]
      BY <2>2
    <3>2. \A i, j \in 1..Len(Chain) :
             KeyOf[Chain[i].batch] = KeyOf[Chain[j].batch] => i = j
      BY DEF ChainInv
    <3>. QED  BY <2>5, <3>1, <3>2
  <2>. QED  BY <2>2, <2>3, <2>4, <2>6 DEF ChainInv
<1>3. CASE PowerLoss
  <2>1. PICK n \in durable..Len(Chain) :
           committed' = {s \in committed : Len(s) <= n}
    BY <1>3 DEF PowerLoss, Chain
  <2>2. Chain \in Seq(Entry) /\ n \in 0..Len(Chain)
    BY <2>1, HeadFacts DEF TypeOK, StoreType
  <2>3. committed' = PrefixSet(SubSeq(Chain, 1, n))
    BY <2>1, <2>2, PrefixSetTruncate DEF ChainInv
  <2>4. /\ SubSeq(Chain, 1, n) \in Seq(Entry)
        /\ Len(SubSeq(Chain, 1, n)) = n
        /\ \A i \in 1..n : SubSeq(Chain, 1, n)[i] = Chain[i]
    BY <2>2, PrefixFacts
  <2>5. Chain' = SubSeq(Chain, 1, n)
    BY <2>3, <2>4, HeadOfPrefixSet DEF Chain
  <2>6. \A i, j \in 1..n :
           KeyOf[SubSeq(Chain, 1, n)[i].batch] = KeyOf[SubSeq(Chain, 1, n)[j].batch]
             => i = j
    BY <2>2, <2>4 DEF ChainInv
  <2>. QED  BY <2>3, <2>4, <2>5, <2>6 DEF ChainInv
<1>. QED  BY <1>1, <1>2, <1>3, CommittedStep

(* A writer enters the staging steps only by Finalize, and while it is in  *)
(* them its identity and candidate do not change.                          *)
LEMMA StagingStep ==
    ASSUME TypeOK, LockInv, [Next]_vars, NEW v \in Writer,
           pc'[v] \in {"stage", "rename"}
    PROVE  \/ Finalize(v) /\ pc'[v] = "stage" /\ UNCHANGED committed
           \/ /\ pc[v] \in {"stage", "rename"}
              /\ tx'[v] = tx[v]
              /\ cand'[v] = cand[v]
              /\ UNCHANGED committed
<1>. DEFINE Goal == \/ Finalize(v) /\ pc'[v] = "stage" /\ UNCHANGED committed
                    \/ /\ pc[v] \in {"stage", "rename"}
                       /\ tx'[v] = tx[v]
                       /\ cand'[v] = cand[v]
                       /\ UNCHANGED committed
<1>. USE DEF TypeOK, CallType, store, call, used, locked, within, told, At, Goto
<1>1. ASSUME NEW w \in Writer, NEW b \in Batch, Begin(w, b)
      PROVE  Goal
  BY <1>1 DEF Begin, Fresh
<1>2. ASSUME NEW w \in Writer, Republish(w)
      PROVE  Goal
  BY <1>2 DEF Republish, Fresh
<1>3. ASSUME NEW w \in Writer, ReadThrows(w)
      PROVE  Goal
  BY <1>3 DEF ReadThrows, Answer
<1>4. ASSUME NEW w \in Writer, Reread(w)
      PROVE  Goal
  BY <1>4 DEF Reread, Answer
<1>5. ASSUME NEW w \in Writer, Build(w)
      PROVE  Goal
  BY <1>5 DEF Build, Answer
<1>6. ASSUME NEW w \in Writer, Acquire(w)
      PROVE  Goal
  BY <1>6 DEF Acquire
<1>7. ASSUME NEW w \in Writer, AcquireTimesOut(w)
      PROVE  Goal
  BY <1>7 DEF AcquireTimesOut, Answer
<1>8. ASSUME NEW w \in Writer, RecheckThrows(w)
      PROVE  Goal
  BY <1>8 DEF RecheckThrows, Raise
<1>9. ASSUME NEW w \in Writer, Reuse(w)
      PROVE  Goal
  BY <1>9 DEF Reuse, Raise
<1>10. ASSUME NEW w \in Writer, RejectParent(w)
      PROVE  Goal
  BY <1>10 DEF RejectParent, Raise, NewBatch
<1>11. ASSUME NEW w \in Writer, RejectClock(w)
      PROVE  Goal
  BY <1>11 DEF RejectClock, Raise, NewBatch
<1>12. ASSUME NEW w \in Writer, Finalize(w)
      PROVE  Goal
  <2>1. UNCHANGED <<committed, cand>>
    BY <1>12 DEF Finalize
  <2>2. CASE v = w
    <3>1. pc'[v] = "stage"
      BY <1>12, <2>2 DEF Finalize, Raise
    <3>. QED  BY <1>12, <2>1, <2>2, <3>1
  <2>3. CASE v # w
    BY <1>12, <2>1, <2>3 DEF Finalize, Raise
  <2>. QED  BY <2>2, <2>3
<1>13. ASSUME NEW w \in Writer, Stage(w)
      PROVE  Goal
  BY <1>13 DEF Stage
<1>14. ASSUME NEW w \in Writer, Rename(w)
      PROVE  Goal
  BY <1>14 DEF Rename, Move, LockInv, InSection
<1>15. ASSUME NEW w \in Writer, Sync(w)
      PROVE  Goal
  BY <1>15 DEF Sync
<1>16. ASSUME NEW w \in Writer, Verify(w)
      PROVE  Goal
  BY <1>16 DEF Verify
<1>17. ASSUME NEW w \in Writer, VerifyFails(w)
      PROVE  Goal
  BY <1>17 DEF VerifyFails, Raise
<1>18. ASSUME NEW w \in Writer, Resolve(w)
      PROVE  Goal
  BY <1>18 DEF Resolve, Raise
<1>19. ASSUME NEW w \in Writer, ResolveFails(w)
      PROVE  Goal
  BY <1>19 DEF ResolveFails, Raise
<1>20. ASSUME NEW w \in Writer, Release(w)
      PROVE  Goal
  BY <1>20 DEF Release, Answer
<1>21. ASSUME NEW w \in Writer, AcquireSetupFails(w)
      PROVE  Goal
  BY <1>21 DEF AcquireSetupFails, Answer
<1>22. ASSUME NEW w \in Writer, StageFails(w)
      PROVE  Goal
  BY <1>22 DEF StageFails, Raise
<1>23. ASSUME NEW w \in Writer, RenameErrors(w)
      PROVE  Goal
  BY <1>23 DEF RenameErrors, Move, LockInv, InSection
<1>24. ASSUME NEW w \in Writer, SyncFails(w)
      PROVE  Goal
  BY <1>24 DEF SyncFails
<1>25. ASSUME NEW w \in Writer, ReleaseFails(w)
      PROVE  Goal
  BY <1>25 DEF ReleaseFails, Answer
<1>26. ASSUME NEW w \in Writer, Crash(w)
      PROVE  Goal
  BY <1>26 DEF Crash, Fresh
<1>27. CASE PowerLoss
  BY <1>27 DEF PowerLoss
<1>28. CASE OperatorRecovers
  BY <1>28 DEF OperatorRecovers
<1>29. CASE Tick
  BY <1>29 DEF Tick
<1>30. CASE StepBack
  BY <1>30 DEF StepBack
<1>31. CASE UNCHANGED vars
  BY <1>31 DEF vars
<1>. QED
  BY <1>1, <1>2, <1>3, <1>4, <1>5, <1>6, <1>7, <1>8, <1>9, <1>10,
     <1>11, <1>12, <1>13, <1>14, <1>15, <1>16, <1>17, <1>18, <1>19, <1>20,
     <1>21, <1>22, <1>23, <1>24, <1>25, <1>26, <1>27, <1>28, <1>29, <1>30,
     <1>31
  DEF Next, Proceed, Misfortune

LEMMA TxStep ==
    TypeOK /\ ChainInv /\ LockInv /\ TxInv /\ [Next]_vars => TxInv'
<1>. SUFFICES ASSUME TypeOK, ChainInv, LockInv, TxInv, [Next]_vars,
                     NEW v \in Writer, pc'[v] \in {"stage", "rename"}
              PROVE  /\ SameLogical(Chain', cand'[v].batch) = {}
                     /\ \E e \in Entry : /\ tx'[v] = Append(Chain', e)
                                         /\ e.batch = cand'[v].batch
  BY DEF TxInv
<1>1. CASE Finalize(v) /\ pc'[v] = "stage" /\ UNCHANGED committed
  <2>. DEFINE e == [batch |-> cand[v].batch, delta |-> cand[v].delta,
                    kt |-> KnowledgeTime(cand[v].parent)]
  <2>1. Chain' = Chain /\ cand' = cand /\ SameLogical(Chain, cand[v].batch) = {}
        /\ cand[v].parent = Chain
    BY <1>1 DEF Finalize, NewBatch, ParentIsCurrent, Chain, locked, within
  <2>2. tx'[v] = Append(Chain, e)
    BY <1>1, <2>1 DEF Finalize, Finalized, TypeOK, CallType
  <2>3. e \in Entry
    BY FinalizedType DEF TypeOK, CallType, Candidate, Entry
  <2>. QED  BY <2>1, <2>2, <2>3
<1>2. CASE /\ pc[v] \in {"stage", "rename"}
           /\ tx'[v] = tx[v]
           /\ cand'[v] = cand[v]
           /\ UNCHANGED committed
  BY <1>2 DEF TxInv, Chain
<1>. QED  BY <1>1, <1>2, StagingStep

-----------------------------------------------------------------------------
(* The theorems. *)

LEMMA InvInit == Init => IInv
<1>. SUFFICES ASSUME Init PROVE IInv
  OBVIOUS
<1>1. Chain = <<>> /\ committed = {}
  BY DEF Init, Chain, HeadOf
<1>2. ChainInv
  BY <1>1 DEF ChainInv, PrefixSet
<1>3. LockInv /\ TxInv
  BY DEF Init, LockInv, TxInv, InSection
<1>. QED  BY <1>2, <1>3, TypeInit DEF IInv

LEMMA InvStep == IInv /\ [Next]_vars => IInv'
  BY BoundStep, StoreStep, CallStep, LockStep, ChainStep, TxStep
  DEF IInv, TypeOK

THEOREM Invariance == Spec => []IInv
<1>1. Init => IInv
  BY InvInit
<1>2. IInv /\ [Next]_vars => IInv'
  BY InvStep
<1>. QED  BY <1>1, <1>2, PTL DEF Spec

(* Every reachable state is well typed, for all constants: in particular a *)
(* snapshot read never lists the directory more than maxRetries times      *)
(* again (openMarketEvidenceAuthoritySnapshot).                            *)
THEOREM TypeCorrect == Spec => []TypeOK
<1>1. IInv => TypeOK
  BY DEF IInv
<1>. QED  BY <1>1, Invariance, PTL

(* Whatever number of processes publish, crash, time out or fail to        *)
(* release, two of them are never between acquireLock and release.         *)
THEOREM MutualExclusion == Spec => []LockMutualExclusion
<1>1. IInv => LockMutualExclusion
  BY DEF IInv, LockInv, LockMutualExclusion
<1>. QED  BY <1>1, Invariance, PTL

(* No logical batch is ever committed twice, for any number of writers,    *)
(* retries, failures and power losses (existingLogicalBatch).              *)
THEOREM OncePerBatch == Spec => []OnePerLogicalBatch
<1>1. ASSUME IInv PROVE OnePerLogicalBatch
  <2>1. SUFFICES ASSUME NEW s \in committed, NEW i \in 1..Len(s),
                        NEW j \in 1..Len(s),
                        KeyOf[s[i].batch] = KeyOf[s[j].batch]
                 PROVE  i = j
    BY DEF OnePerLogicalBatch
  <2>2. Chain \in Seq(Entry) /\ committed = PrefixSet(Chain)
    BY <1>1 DEF IInv, ChainInv
  <2>3. PICK n \in 1..Len(Chain) : s = SubSeq(Chain, 1, n)
    BY <2>2 DEF PrefixSet
  <2>4. n \in 0..Len(Chain)
    BY <2>2
  <2>5. Len(s) = n /\ \A k \in 1..n : s[k] = Chain[k]
    BY <2>2, <2>3, <2>4, PrefixFacts
  <2>. QED  BY <1>1, <2>1, <2>3, <2>4, <2>5 DEF IInv, ChainInv
<1>. QED  BY <1>1, Invariance, PTL

-----------------------------------------------------------------------------
(* The authority stays readable when the wall clock is never behind        *)
(* authority_created_at.                                                   *)

(* A built candidate holds exactly what its parent lacks, and its capture  *)
(* is not bound to another source there.                                   *)
Sound(c) ==
    /\ ~CaptureTaken(c.parent, c.batch)
    /\ c.delta = DeltaFor(c.parent, c.batch)

CandInv ==
    \A w \in Writer :
       /\ cand[w].built => Sound(cand[w])
       /\ pc[w] \in {"acquire", "recheck"} => cand[w].built

ValidInv ==
    /\ ValidHistory(Chain)
    /\ \A w \in Writer :
          pc[w] \in {"stage", "rename"} => ValidEntry(tx[w], Len(tx[w]))

(* A link is judged by the entries up to it alone. *)
LEMMA ValidEntryLocal ==
    ASSUME NEW g, NEW h, NEW i \in Nat, \A k \in 1..i : g[k] = h[k], i >= 1,
           ValidEntry(h, i)
    PROVE  ValidEntry(g, i)
<1>1. g[i] = h[i] /\ \A j \in 1..(i - 1) : g[j] = h[j]
  OBVIOUS
<1>. QED  BY <1>1 DEF ValidEntry

LEMMA ValidPrefix ==
    ASSUME NEW h \in Seq(Entry), ValidHistory(h), NEW n \in 0..Len(h)
    PROVE  ValidHistory(SubSeq(h, 1, n))
<1>1. Len(SubSeq(h, 1, n)) = n /\ \A i \in 1..n : SubSeq(h, 1, n)[i] = h[i]
  BY PrefixFacts
<1>2. ASSUME NEW i \in 1..n PROVE ValidEntry(SubSeq(h, 1, n), i)
  <2>1. \A k \in 1..i : SubSeq(h, 1, n)[k] = h[k]
    BY <1>1
  <2>2. ValidEntry(h, i)
    BY DEF ValidHistory
  <2>3. i \in Nat /\ i >= 1
    OBVIOUS
  <2>. QED  BY <2>1, <2>2, <2>3, ValidEntryLocal
<1>. QED  BY <1>1, <1>2 DEF ValidHistory

LEMMA ValidAppend ==
    ASSUME NEW h \in Seq(Entry), NEW e \in Entry, ValidHistory(h),
           ValidEntry(Append(h, e), Len(h) + 1)
    PROVE  ValidHistory(Append(h, e))
<1>1. /\ Len(Append(h, e)) = Len(h) + 1 /\ Len(h) \in Nat
      /\ \A i \in 1..Len(h) : Append(h, e)[i] = h[i]
  OBVIOUS
<1>2. ASSUME NEW i \in 1..Len(h) PROVE ValidEntry(Append(h, e), i)
  <2>1. \A k \in 1..i : Append(h, e)[k] = h[k]
    BY <1>1
  <2>2. ValidEntry(h, i)
    BY DEF ValidHistory
  <2>3. i \in Nat /\ i >= 1
    OBVIOUS
  <2>. QED  BY <2>1, <2>2, <2>3, ValidEntryLocal
<1>. QED  BY <1>1, <1>2 DEF ValidHistory

(* The reader accepts the prefixes of a valid history. *)
LEMMA PrefixSetReadable ==
    ASSUME NEW h \in Seq(Entry), ValidHistory(h)
    PROVE  Readable(PrefixSet(h))
<1>1. ASSUME NEW n \in 1..Len(h)
      PROVE  /\ Len(SubSeq(h, 1, n)) = n
             /\ n # 1 => Front(SubSeq(h, 1, n)) \in PrefixSet(h)
             /\ ValidHistory(SubSeq(h, 1, n))
  <2>1. n \in 0..Len(h)
    OBVIOUS
  <2>2. Len(SubSeq(h, 1, n)) = n
    BY <2>1, PrefixFacts
  <2>3. ASSUME n # 1 PROVE Front(SubSeq(h, 1, n)) \in PrefixSet(h)
    <3>1. n - 1 \in 1..Len(h) /\ n - 1 \in 0..n
      BY <2>3
    <3>2. Front(SubSeq(h, 1, n)) = SubSeq(h, 1, n - 1)
      BY <2>1, <2>2, <3>1, PrefixFacts DEF Front
    <3>. QED  BY <3>1, <3>2 DEF PrefixSet
  <2>. QED  BY <2>1, <2>2, <2>3, ValidPrefix
<1>2. \A s \in PrefixSet(h) : \E n \in 1..Len(h) : s = SubSeq(h, 1, n)
  BY DEF PrefixSet
<1>3. \A s \in PrefixSet(h) : Len(s) = 1 \/ Front(s) \in PrefixSet(h)
  BY <1>1, <1>2
<1>4. \A s, t \in PrefixSet(h) : Len(s) = Len(t) => s = t
  BY <1>1, <1>2
<1>5. \A s \in PrefixSet(h) : ValidHistory(s)
  BY <1>1, <1>2
<1>. QED  BY <1>3, <1>4, <1>5 DEF Readable

LEMMA CandStep ==
    TypeOK /\ ChainInv /\ CandInv /\ [Next]_vars => CandInv'
<1>. SUFFICES ASSUME TypeOK, CallType, CandInv, [Next]_vars
              PROVE  CandInv'
  BY DEF TypeOK
<1>. USE DEF CallType, CandInv, store, call, used, locked, within, told, At, Goto
<1>1. ASSUME NEW w \in Writer, NEW b \in Batch, Begin(w, b)
      PROVE  CandInv'
  BY <1>1 DEF Begin, Fresh, NoCandidate
<1>2. ASSUME NEW w \in Writer, Republish(w)
      PROVE  CandInv'
  BY <1>2 DEF Republish, Fresh
<1>3. ASSUME NEW w \in Writer, ReadThrows(w)
      PROVE  CandInv'
  BY <1>3 DEF ReadThrows, Answer
<1>4. ASSUME NEW w \in Writer, Reread(w)
      PROVE  CandInv'
  BY <1>4 DEF Reread, Answer
<1>5. ASSUME NEW w \in Writer, Build(w)
      PROVE  CandInv'
  BY <1>5 DEF Build, Answer, Sound, Candidate
<1>6. ASSUME NEW w \in Writer, Acquire(w)
      PROVE  CandInv'
  BY <1>6 DEF Acquire
<1>7. ASSUME NEW w \in Writer, AcquireTimesOut(w)
      PROVE  CandInv'
  BY <1>7 DEF AcquireTimesOut, Answer
<1>8. ASSUME NEW w \in Writer, RecheckThrows(w)
      PROVE  CandInv'
  BY <1>8 DEF RecheckThrows, Raise
<1>9. ASSUME NEW w \in Writer, Reuse(w)
      PROVE  CandInv'
  BY <1>9 DEF Reuse, Raise
<1>10. ASSUME NEW w \in Writer, RejectParent(w)
      PROVE  CandInv'
  BY <1>10 DEF RejectParent, NewBatch, Raise
<1>11. ASSUME NEW w \in Writer, RejectClock(w)
      PROVE  CandInv'
  BY <1>11 DEF RejectClock, NewBatch, Raise
<1>12. ASSUME NEW w \in Writer, Finalize(w)
      PROVE  CandInv'
  BY <1>12 DEF Finalize, NewBatch, Raise
<1>13. ASSUME NEW w \in Writer, Stage(w)
      PROVE  CandInv'
  BY <1>13 DEF Stage
<1>14. ASSUME NEW w \in Writer, Rename(w)
      PROVE  CandInv'
  BY <1>14 DEF Rename
<1>15. ASSUME NEW w \in Writer, Sync(w)
      PROVE  CandInv'
  BY <1>15 DEF Sync
<1>16. ASSUME NEW w \in Writer, Verify(w)
      PROVE  CandInv'
  BY <1>16 DEF Verify
<1>17. ASSUME NEW w \in Writer, VerifyFails(w)
      PROVE  CandInv'
  BY <1>17 DEF VerifyFails, Raise
<1>18. ASSUME NEW w \in Writer, Resolve(w)
      PROVE  CandInv'
  BY <1>18 DEF Resolve, Raise
<1>19. ASSUME NEW w \in Writer, ResolveFails(w)
      PROVE  CandInv'
  BY <1>19 DEF ResolveFails, Raise
<1>20. ASSUME NEW w \in Writer, Release(w)
      PROVE  CandInv'
  BY <1>20 DEF Release, Answer
<1>21. ASSUME NEW w \in Writer, AcquireSetupFails(w)
      PROVE  CandInv'
  BY <1>21 DEF AcquireSetupFails, Answer
<1>22. ASSUME NEW w \in Writer, StageFails(w)
      PROVE  CandInv'
  BY <1>22 DEF StageFails, Raise
<1>23. ASSUME NEW w \in Writer, RenameErrors(w)
      PROVE  CandInv'
  BY <1>23 DEF RenameErrors
<1>24. ASSUME NEW w \in Writer, SyncFails(w)
      PROVE  CandInv'
  BY <1>24 DEF SyncFails
<1>25. ASSUME NEW w \in Writer, ReleaseFails(w)
      PROVE  CandInv'
  BY <1>25 DEF ReleaseFails, Answer
<1>26. ASSUME NEW w \in Writer, Crash(w)
      PROVE  CandInv'
  BY <1>26 DEF Crash, Fresh, Blank, NoCandidate
<1>27. CASE PowerLoss
  BY <1>27 DEF PowerLoss, Fresh, Blank, NoCandidate
<1>28. CASE OperatorRecovers
  BY <1>28 DEF OperatorRecovers
<1>29. CASE Tick
  BY <1>29 DEF Tick
<1>30. CASE StepBack
  BY <1>30 DEF StepBack
<1>31. CASE UNCHANGED vars
  BY <1>31 DEF vars
<1>. QED
  BY <1>1, <1>2, <1>3, <1>4, <1>5, <1>6, <1>7, <1>8, <1>9, <1>10,
     <1>11, <1>12, <1>13, <1>14, <1>15, <1>16, <1>17, <1>18, <1>19, <1>20,
     <1>21, <1>22, <1>23, <1>24, <1>25, <1>26, <1>27, <1>28, <1>29, <1>30,
     <1>31
  DEF Next, Proceed, Misfortune

(* The entry a publisher finalizes is one the reader accepts.              *)
LEMMA FinalizedValid ==
    ASSUME ClockFloor >= CreatedAt, TypeOK, ChainInv, CandInv, ValidHistory(Chain),
           NEW w \in Writer, Finalize(w)
    PROVE  ValidEntry(Finalized(cand[w]), Len(Chain) + 1)
<1>. DEFINE b == cand[w].batch
            k == KnowledgeTime(Chain)
            e == [batch |-> b, delta |-> cand[w].delta, kt |-> k]
            g == Append(Chain, e)
<1>1. /\ cand[w].parent = Chain /\ cand[w].built /\ clock >= EvidenceAt[b]
      /\ Sound(cand[w])
  BY DEF Finalize, NewBatch, At, ParentIsCurrent, Chain, CandInv
<1>2. Chain \in Seq(Entry) /\ Len(Chain) \in Nat
  BY HeadFacts
<1>3. clock \in Int /\ clock >= CreatedAt /\ EvidenceAt[b] \in Int /\ CreatedAt \in Int
  BY Numbers, BatchAssumption DEF TypeOK, StoreType, CallType, Candidate
<1>4. ASSUME NEW j \in 1..Len(Chain)
      PROVE  Chain[j] \in Entry /\ Chain[j].kt \in Int
  <2>1. Chain[j] \in Entry
    BY <1>2
  <2>. QED  BY <2>1 DEF Entry
<1>5. k \in Int /\ k >= clock /\ \A j \in 1..Len(Chain) : Chain[j].kt < k
  <2>1. CASE Chain = <<>>
    BY <1>3, <2>1 DEF KnowledgeTime
  <2>2. CASE Chain # <<>>
    <3>1. Len(Chain) \in 1..Len(Chain)
      BY <1>2, <2>2
    <3>2. \A j \in 1..(Len(Chain) - 1) : Chain[j].kt < Chain[Len(Chain)].kt
      BY <3>1 DEF ValidHistory, ValidEntry
    <3>3. k \in Int /\ k >= clock /\ Chain[Len(Chain)].kt < k
      BY <1>3, <1>4, <2>2, <3>1 DEF KnowledgeTime
    <3>4. ASSUME NEW j \in 1..Len(Chain) PROVE Chain[j].kt < k
      <4>1. CASE j = Len(Chain)
        BY <3>3, <4>1
      <4>2. CASE j # Len(Chain)
        <5>1. j \in 1..(Len(Chain) - 1)
          BY <1>2, <4>2
        <5>. QED  BY <1>4, <3>1, <3>2, <3>3, <5>1
      <4>. QED  BY <4>1, <4>2
    <3>. QED  BY <3>3, <3>4
  <2>. QED  BY <2>1, <2>2
<1>6. \A j \in 1..Len(Chain) : CaptureOf[Chain[j].batch] = CaptureOf[b]
                                => SourceOf[Chain[j].batch] = SourceOf[b]
  BY <1>1 DEF Sound, CaptureTaken
<1>7. \A j \in 1..Len(Chain) : Chain[j].delta \cap cand[w].delta = {}
  BY <1>1 DEF Sound, DeltaFor, Known
<1>8. /\ g[Len(Chain) + 1] = e
      /\ \A j \in 1..Len(Chain) : g[j] = Chain[j]
  BY <1>2
<1>9. e.batch = b /\ e.delta = cand[w].delta /\ e.kt = k
  OBVIOUS
<1>10. (Len(Chain) + 1) - 1 = Len(Chain)
  BY <1>2
<1>11. k >= CreatedAt /\ k >= EvidenceAt[b]
  BY <1>1, <1>3, <1>5
<1>12. Finalized(cand[w]) = g
  BY <1>1 DEF Finalized
<1>. HIDE DEF g, e, k
<1>. QED
  BY <1>5, <1>6, <1>7, <1>8, <1>9, <1>10, <1>11, <1>12 DEF ValidEntry

LEMMA ValidStep ==
    ASSUME ClockFloor >= CreatedAt, IInv, CandInv, ValidInv, [Next]_vars
    PROVE  ValidInv'
<1>. USE DEF IInv
<1>1. ValidHistory(Chain')
  <2>1. CASE UNCHANGED committed
    BY <2>1 DEF ValidInv, Chain
  <2>2. ASSUME NEW w \in Writer, pc[w] = "rename", Move(w)
        PROVE  ValidHistory(Chain')
    <3>1. PICK e \in Entry : tx[w] = Append(Chain, e)
      BY <2>2 DEF TxInv
    <3>2. Chain \in Seq(Entry) /\ Append(Chain, e) \in Seq(Entry)
          /\ Len(Append(Chain, e)) = Len(Chain) + 1
      BY DEF ChainInv
    <3>3. committed' = PrefixSet(Append(Chain, e))
      BY <2>2, <3>1, <3>2, PrefixSetAppend DEF Move, ChainInv
    <3>4. Chain' = Append(Chain, e)
      BY <3>2, <3>3, HeadOfPrefixSet DEF Chain
    <3>5. ValidEntry(Append(Chain, e), Len(Chain) + 1)
      BY <2>2, <3>1, <3>2 DEF ValidInv
    <3>. QED  BY <3>2, <3>4, <3>5, ValidAppend DEF ValidInv
  <2>3. CASE PowerLoss
    <3>1. PICK n \in durable..Len(Chain) :
             committed' = {s \in committed : Len(s) <= n}
      BY <2>3 DEF PowerLoss, Chain
    <3>2. Chain \in Seq(Entry) /\ n \in 0..Len(Chain)
      BY <3>1, HeadFacts DEF TypeOK, StoreType
    <3>3. committed' = PrefixSet(SubSeq(Chain, 1, n))
      BY <3>1, <3>2, PrefixSetTruncate DEF ChainInv
    <3>4. SubSeq(Chain, 1, n) \in Seq(Entry)
      BY <3>2, PrefixFacts
    <3>5. Chain' = SubSeq(Chain, 1, n)
      BY <3>3, <3>4, HeadOfPrefixSet DEF Chain
    <3>. QED  BY <3>2, <3>5, ValidPrefix DEF ValidInv
  <2>. QED  BY <2>1, <2>2, <2>3, CommittedStep
<1>2. ASSUME NEW v \in Writer, pc'[v] \in {"stage", "rename"}
      PROVE  ValidEntry(tx'[v], Len(tx'[v]))
  <2>1. CASE Finalize(v)
    <3>1. tx'[v] = Finalized(cand[v]) /\ cand[v].parent = Chain
      BY <2>1 DEF Finalize, ParentIsCurrent, Chain, TypeOK, CallType
    <3>2. Len(tx'[v]) = Len(Chain) + 1
      BY <3>1, HeadFacts DEF Finalized
    <3>. QED  BY <2>1, <3>1, <3>2, FinalizedValid DEF ValidInv
  <2>2. CASE pc[v] \in {"stage", "rename"} /\ tx'[v] = tx[v]
    BY <2>2 DEF ValidInv
  <2>. QED  BY <1>2, <2>1, <2>2, StagingStep
<1>. QED  BY <1>1, <1>2 DEF ValidInv

LEMMA ValidInit == Init => CandInv /\ ValidInv
<1>. SUFFICES ASSUME Init PROVE CandInv /\ ValidInv
  OBVIOUS
<1>1. Chain = <<>>
  BY DEF Init, Chain, HeadOf
<1>2. ValidHistory(Chain)
  BY <1>1 DEF ValidHistory
<1>. QED  BY <1>2 DEF Init, CandInv, ValidInv, Blank, NoCandidate

(* No interleaving, failure, crash or power loss makes the authority       *)
(* unreadable, provided the publisher's clock never shows a time before    *)
(* authority_created_at: it is the one thing publish does not check before *)
(* the rename (reconstruct does, after it).                                *)
THEOREM ReadableForever ==
    ASSUME ClockFloor >= CreatedAt
    PROVE  Spec => []AuthorityReadable
<1>. DEFINE V == IInv /\ CandInv /\ ValidInv
<1>1. Init => V
  BY InvInit, ValidInit
<1>2. V /\ [Next]_vars => V'
  BY InvStep, CandStep, ValidStep DEF IInv
<1>3. V => AuthorityReadable
  BY PrefixSetReadable DEF IInv, ChainInv, ValidInv, AuthorityReadable
<1>. QED  BY <1>1, <1>2, <1>3, PTL DEF Spec

-----------------------------------------------------------------------------
(* What a call knows of the transaction it publishes. *)

(* A publication is under way for w's candidate. *)
Publishing(w) == pc[w] \in {"stage", "rename", "sync", "verify", "resolve"}

(* What w publishes is its candidate, on the candidate's parent. *)
Carries(w) ==
    Publishing(w) =>
       /\ cand[w].built
       /\ \E e \in Entry : /\ tx[w] = Append(cand[w].parent, e)
                           /\ e.batch = cand[w].batch
                           /\ e.delta = cand[w].delta

(* The state a candidate was built on has not been taken back. *)
Based(w) == cand[w].built => Known(cand[w].parent) \subseteq Known(Chain)

(* The answer COMMITTED that w is about to give is true. *)
Granted(w) ==
    pc[w] = "release" /\ verdict[w] = "none" =>
       LET h == outcome[w]
           b == cand[w].batch
       IN /\ h \in committed
          /\ KeyOf[h[Len(h)].batch] = KeyOf[b]
          /\ SourceOf[h[Len(h)].batch] = SourceOf[b]
          /\ Items[b] \subseteq Known(Chain)

(* What w knows of where its own transaction is. *)
Placed(w) ==
    /\ pc[w] \in {"reading", "acquire", "recheck"}
          => tx[w] = <<>> /\ ~renamed[w]
    /\ pc[w] \in {"stage", "rename"} => ~renamed[w]
    /\ pc[w] \in {"sync", "verify"} => renamed[w] /\ tx[w] = Chain
    /\ pc[w] = "resolve" =>
          /\ tx[w] = Chain \/ (~renamed[w] /\ tx[w] \notin committed)
          /\ ~renamed[w] => "rename" \in Faults /\ faults >= 1
    /\ pc[w] = "release" /\ tx[w] \in committed =>
          /\ verdict[w] \in {"none", "COMMIT_OUTCOME_UNKNOWN"}
          /\ ~renamed[w] => {"rename", "reader"} \subseteq Faults /\ faults >= 2

(* Until a call is answered its verdict is open, or the error it got.      *)
Open(w) ==
    /\ Busy(w) => verdict[w] # "COMMITTED"
    /\ Busy(w) /\ pc[w] # "release" => verdict[w] = "none"

(* What publishing, or taking a prefix, does to the items of a history. *)
LEMMA KnownAppend ==
    ASSUME NEW h \in Seq(Entry), NEW e \in Entry
    PROVE  Known(Append(h, e)) = Known(h) \cup e.delta
<1>1. /\ Len(Append(h, e)) = Len(h) + 1 /\ Len(h) \in Nat
      /\ \A i \in 1..Len(h) : Append(h, e)[i] = h[i]
      /\ Append(h, e)[Len(h) + 1] = e
  OBVIOUS
<1>2. 1..(Len(h) + 1) = (1..Len(h)) \cup {Len(h) + 1}
  BY <1>1
<1>. DEFINE g == Append(h, e)
<1>. HIDE DEF g
<1>3. {g[i].delta : i \in 1..(Len(h) + 1)} = {h[i].delta : i \in 1..Len(h)} \cup {e.delta}
  BY <1>1, <1>2 DEF g
<1>4. Known(g) = UNION {g[i].delta : i \in 1..(Len(h) + 1)}
  BY <1>1 DEF Known, g
<1>. QED  BY <1>3, <1>4 DEF Known, g

LEMMA KnownPrefix ==
    ASSUME NEW h \in Seq(Entry), NEW i \in 1..Len(h)
    PROVE  /\ Known(SubSeq(h, 1, i)) \subseteq Known(h)
           /\ Known(SubSeq(h, 1, i)) = Known(SubSeq(h, 1, i - 1)) \cup h[i].delta
<1>1. i \in 0..Len(h) /\ i - 1 \in 0..Len(h)
  OBVIOUS
<1>2. /\ Len(SubSeq(h, 1, i)) = i
      /\ \A k \in 1..i : SubSeq(h, 1, i)[k] = h[k]
  BY <1>1, PrefixFacts
<1>3. /\ Len(SubSeq(h, 1, i - 1)) = i - 1
      /\ \A k \in 1..(i - 1) : SubSeq(h, 1, i - 1)[k] = h[k]
  BY <1>1, PrefixFacts
<1>4. Known(SubSeq(h, 1, i)) = UNION {h[k].delta : k \in 1..i}
  BY <1>2 DEF Known
<1>5. Known(SubSeq(h, 1, i - 1)) = UNION {h[k].delta : k \in 1..(i - 1)}
  BY <1>3 DEF Known
<1>6. 1..i = (1..(i - 1)) \cup {i}
  OBVIOUS
<1>7. Known(SubSeq(h, 1, i)) \subseteq Known(h)
  BY <1>4 DEF Known
<1>8. {h[k].delta : k \in 1..i} = {h[k].delta : k \in 1..(i - 1)} \cup {h[i].delta}
  BY <1>6
<1>. QED  BY <1>4, <1>5, <1>7, <1>8

(* Outside a power loss the authority only grows, and only a writer in the *)
(* rename step makes it grow.                                              *)
LEMMA GrowthStep ==
    ASSUME IInv, [Next]_vars, ~PowerLoss
    PROVE  /\ committed \subseteq committed'
           /\ Known(Chain) \subseteq Known(Chain')
           /\ committed' # committed => \E w \in Writer : pc[w] = "rename"
<1>1. CASE UNCHANGED committed
  BY <1>1 DEF Chain
<1>2. ASSUME NEW w \in Writer, pc[w] = "rename", Move(w)
      PROVE  /\ committed \subseteq committed'
             /\ Known(Chain) \subseteq Known(Chain')
  <2>1. PICK e \in Entry : tx[w] = Append(Chain, e)
    BY <1>2 DEF IInv, TxInv
  <2>2. Chain \in Seq(Entry) /\ Append(Chain, e) \in Seq(Entry)
    BY DEF IInv, ChainInv
  <2>3. committed' = PrefixSet(Append(Chain, e))
    BY <1>2, <2>1, <2>2, PrefixSetAppend DEF Move, IInv, ChainInv
  <2>4. Chain' = Append(Chain, e)
    BY <2>2, <2>3, HeadOfPrefixSet DEF Chain
  <2>. QED  BY <1>2, <2>2, <2>4, KnownAppend DEF Move
<1>. QED  BY <1>1, <1>2, CommittedStep

-----------------------------------------------------------------------------
(* The steps of one writer. *)

Own(w) ==
    \/ \E b \in Batch : Begin(w, b)
    \/ Republish(w)
    \/ Proceed(w)
    \/ Misfortune(w)

(* A step of another writer leaves a writer's call alone. *)
Undisturbed(v) ==
    /\ pc'[v] = pc[v] /\ cand'[v] = cand[v] /\ tx'[v] = tx[v]
    /\ renamed'[v] = renamed[v] /\ outcome'[v] = outcome[v]
    /\ verdict'[v] = verdict[v]

LEMMA OthersKeep ==
    ASSUME TypeOK, NEW v \in Writer, NEW w \in Writer, v # w, Own(w)
    PROVE  Undisturbed(v)
<1>. USE DEF TypeOK, CallType, store, call, used, locked, within, told, At, Goto, Undisturbed
<1>1. CASE (\E b \in Batch : Begin(w, b)) \/ Republish(w)
  BY <1>1 DEF Begin, Republish, Fresh
<1>2. CASE ReadThrows(w) \/ Reread(w) \/ Build(w) \/ Acquire(w) \/ AcquireTimesOut(w)
  BY <1>2 DEF ReadThrows, Reread, Build, Acquire, AcquireTimesOut, Answer
<1>3. CASE RecheckThrows(w) \/ Reuse(w) \/ RejectParent(w) \/ RejectClock(w)
  BY <1>3 DEF RecheckThrows, Reuse, RejectParent, RejectClock, Raise
<1>4. CASE Finalize(w) \/ Stage(w) \/ Rename(w) \/ Sync(w)
  BY <1>4 DEF Finalize, Stage, Rename, Sync, Raise
<1>5. CASE Verify(w) \/ VerifyFails(w) \/ Resolve(w) \/ ResolveFails(w) \/ Release(w)
  BY <1>5 DEF Verify, VerifyFails, Resolve, ResolveFails, Release, Raise, Answer
<1>6. CASE AcquireSetupFails(w) \/ StageFails(w) \/ RenameErrors(w)
           \/ SyncFails(w) \/ ReleaseFails(w) \/ Crash(w)
  BY <1>6 DEF AcquireSetupFails, StageFails, RenameErrors, SyncFails,
              ReleaseFails, Crash, Raise, Answer, Fresh
<1>. QED  BY <1>1, <1>2, <1>3, <1>4, <1>5, <1>6 DEF Own, Proceed, Misfortune

(* Every step is a step of the writer, one that leaves its call alone, or  *)
(* a power loss.                                                           *)
LEMMA StepsOf ==
    ASSUME TypeOK, [Next]_vars, NEW v \in Writer
    PROVE  Own(v) \/ Undisturbed(v) \/ PowerLoss
<1>1. CASE \E w \in Writer : Own(w)
  BY <1>1, OthersKeep
<1>2. CASE OperatorRecovers \/ Tick \/ StepBack \/ UNCHANGED vars
  BY <1>2 DEF OperatorRecovers, Tick, StepBack, vars, call, Undisturbed
<1>. QED  BY <1>1, <1>2 DEF Next, Own

(* Failures are only ever counted up. *)
LEMMA FaultsGrow ==
    ASSUME TypeOK, [Next]_vars
    PROVE  faults \in Nat /\ faults' \in Nat /\ faults' >= faults
<1>. USE DEF TypeOK, BoundType, store, call, used, locked, within, told, At, Goto
<1>0. faults \in Nat /\ faults + 1 >= faults
  BY Numbers
<1>1. ASSUME NEW w \in Writer, Proceed(w) PROVE UNCHANGED faults \/ faults' = faults + 1
  <2>1. CASE ReadThrows(w) \/ RecheckThrows(w) \/ VerifyFails(w) \/ ResolveFails(w)
    BY <2>1 DEF ReadThrows, RecheckThrows, VerifyFails, ResolveFails,
                ReaderThrows, Fault, NoFault
  <2>2. CASE Reread(w) \/ Build(w) \/ Acquire(w) \/ AcquireTimesOut(w)
             \/ Reuse(w) \/ RejectParent(w) \/ RejectClock(w)
    BY <2>2 DEF Reread, Build, Acquire, AcquireTimesOut, Reuse, RejectParent,
                RejectClock
  <2>3. CASE Finalize(w) \/ Stage(w) \/ Rename(w) \/ Sync(w) \/ Verify(w)
             \/ Resolve(w) \/ Release(w)
    BY <2>3 DEF Finalize, Stage, Rename, Sync, Verify, Resolve, Release
  <2>. QED  BY <1>1, <2>1, <2>2, <2>3 DEF Proceed
<1>2. ASSUME NEW w \in Writer, Misfortune(w) PROVE UNCHANGED faults \/ faults' = faults + 1
  BY <1>2 DEF Misfortune, AcquireSetupFails, StageFails, RenameErrors, SyncFails,
              ReleaseFails, Crash, Fault
<1>3. ASSUME NEW w \in Writer, (\E b \in Batch : Begin(w, b)) \/ Republish(w)
      PROVE  UNCHANGED faults
  BY <1>3 DEF Begin, Republish
<1>4. CASE PowerLoss \/ OperatorRecovers \/ Tick \/ StepBack \/ UNCHANGED vars
  BY <1>4 DEF PowerLoss, OperatorRecovers, Tick, StepBack, vars
<1>5. CASE \E w \in Writer : Own(w)
  BY <1>0, <1>1, <1>2, <1>3, <1>5 DEF Own
<1>6. \/ \E w \in Writer : Own(w)
      \/ PowerLoss \/ OperatorRecovers \/ Tick \/ StepBack \/ UNCHANGED vars
  BY DEF Next, Own
<1>. QED  BY <1>0, <1>4, <1>5, <1>6

-----------------------------------------------------------------------------
(* What is published is the candidate, and its base stays known. *)

LEMMA CarriesStep ==
    ASSUME IInv, CandInv, [Next]_vars, NEW v \in Writer, Carries(v)
    PROVE  Carries(v)'
<1>. USE DEF IInv, TypeOK, CallType, Carries, Publishing, store, call, used,
         locked, within, told, At, Goto
<1>1. CASE Undisturbed(v)
  BY <1>1 DEF Undisturbed
<1>2. CASE PowerLoss
  BY <1>2 DEF PowerLoss
<1>3. CASE (\E b \in Batch : Begin(v, b)) \/ Republish(v)
  BY <1>3 DEF Begin, Republish
<1>4. CASE ReadThrows(v) \/ Reread(v) \/ Build(v) \/ Acquire(v) \/ AcquireTimesOut(v)
  BY <1>4 DEF ReadThrows, Reread, Build, Acquire, AcquireTimesOut, Answer
<1>5. CASE RecheckThrows(v) \/ Reuse(v) \/ RejectParent(v) \/ RejectClock(v)
  BY <1>5 DEF RecheckThrows, Reuse, RejectParent, RejectClock, Raise
<1>6. CASE Finalize(v)
  <2>. DEFINE e == [batch |-> cand[v].batch, delta |-> cand[v].delta,
                    kt |-> KnowledgeTime(cand[v].parent)]
  <2>1. cand' = cand /\ cand[v].built
    BY <1>6 DEF Finalize, NewBatch, CandInv
  <2>2. tx'[v] = Append(cand[v].parent, e)
    BY <1>6 DEF Finalize, Finalized
  <2>3. e \in Entry
    BY FinalizedType DEF Candidate, Entry
  <2>4. e.batch = cand[v].batch /\ e.delta = cand[v].delta
    OBVIOUS
  <2>. QED  BY <2>1, <2>2, <2>3, <2>4
<1>7. CASE Stage(v) \/ Rename(v) \/ Sync(v) \/ RenameErrors(v) \/ SyncFails(v)
  BY <1>7 DEF Stage, Rename, Sync, RenameErrors, SyncFails
<1>8. CASE Verify(v) \/ VerifyFails(v) \/ Resolve(v) \/ ResolveFails(v) \/ Release(v)
  BY <1>8 DEF Verify, VerifyFails, Resolve, ResolveFails, Release, Raise, Answer
<1>9. CASE AcquireSetupFails(v) \/ StageFails(v) \/ ReleaseFails(v) \/ Crash(v)
  BY <1>9 DEF AcquireSetupFails, StageFails, ReleaseFails, Crash, Raise, Answer
<1>. QED
  BY <1>1, <1>2, <1>3, <1>4, <1>5, <1>6, <1>7, <1>8, <1>9, StepsOf
  DEF Own, Proceed, Misfortune

LEMMA BasedStep ==
    ASSUME IInv, [Next]_vars, NEW v \in Writer, Based(v)
    PROVE  Based(v)'
<1>. USE DEF IInv, TypeOK, CallType, Based, store, call, used, locked, within, told, At, Goto
<1>1. CASE PowerLoss
  BY <1>1 DEF PowerLoss, Fresh, Blank, NoCandidate
<1>2. ASSUME ~PowerLoss, cand'[v] = cand[v] PROVE Based(v)'
  BY <1>2, GrowthStep
<1>3. ASSUME NEW b \in Batch, Begin(v, b) PROVE Based(v)'
  BY <1>3 DEF Begin, Fresh, NoCandidate
<1>4. CASE Crash(v)
  BY <1>4 DEF Crash, Fresh, Blank, NoCandidate
<1>5. CASE Build(v)
  <2>1. Chain' = Chain
    BY <1>5 DEF Build, Chain
  <2>2. cand'[v] = cand[v] \/ cand'[v].parent = Chain
    BY <1>5 DEF Build, Chain
  <2>. QED  BY <2>1, <2>2
<1>6. CASE Undisturbed(v)
  BY <1>2, <1>6, <1>1 DEF Undisturbed
<1>7. ASSUME Own(v), ~Build(v), ~Crash(v), ~\E b \in Batch : Begin(v, b)
      PROVE  cand'[v] = cand[v]
  <2>1. CASE Republish(v) \/ ReadThrows(v) \/ Reread(v) \/ Acquire(v)
             \/ AcquireTimesOut(v) \/ AcquireSetupFails(v)
    BY <2>1 DEF Republish, Fresh, ReadThrows, Reread, Acquire, AcquireTimesOut,
                AcquireSetupFails
  <2>2. CASE RecheckThrows(v) \/ Reuse(v) \/ RejectParent(v) \/ RejectClock(v)
             \/ Finalize(v) \/ Stage(v) \/ StageFails(v)
    BY <2>2 DEF RecheckThrows, Reuse, RejectParent, RejectClock, Finalize, Stage,
                StageFails
  <2>3. CASE Rename(v) \/ RenameErrors(v) \/ Sync(v) \/ SyncFails(v)
             \/ Verify(v) \/ VerifyFails(v)
    BY <2>3 DEF Rename, RenameErrors, Sync, SyncFails, Verify, VerifyFails
  <2>4. CASE Resolve(v) \/ ResolveFails(v) \/ Release(v) \/ ReleaseFails(v)
    BY <2>4 DEF Resolve, ResolveFails, Release, ReleaseFails
  <2>. QED  BY <1>7, <2>1, <2>2, <2>3, <2>4 DEF Own, Proceed, Misfortune
<1>. QED  BY <1>1, <1>2, <1>3, <1>4, <1>5, <1>6, <1>7, StepsOf

(* A history that is its own head in committed/ is in committed/. *)
LEMMA HeadIsCommitted ==
    ASSUME IInv
    PROVE  /\ <<>> \notin committed
           /\ Chain # <<>> => Chain \in committed
           /\ \A s \in committed : Len(s) <= Len(Chain)
           /\ \A i \in 1..Len(Chain) : SubSeq(Chain, 1, i) \in committed
<1>1. Chain \in Seq(Entry) /\ committed = PrefixSet(Chain) /\ Len(Chain) \in Nat
  BY HeadFacts DEF IInv, ChainInv
<1>2. \A n \in 1..Len(Chain) : Len(SubSeq(Chain, 1, n)) = n
  BY <1>1, PrefixFacts
<1>3. \A s \in committed : Len(s) \in 1..Len(Chain)
  BY <1>1, <1>2 DEF PrefixSet
<1>4. \A i \in 1..Len(Chain) : SubSeq(Chain, 1, i) \in committed
  BY <1>1 DEF PrefixSet
<1>5. ASSUME Chain # <<>> PROVE Chain \in committed
  <2>1. Len(Chain) \in 1..Len(Chain)
    BY <1>1, <1>5
  <2>2. SubSeq(Chain, 1, Len(Chain)) = Chain
    BY <1>1, SubSeqFull
  <2>. QED  BY <1>4, <2>1, <2>2
<1>6. <<>> \notin committed
  BY <1>3
<1>. QED  BY <1>1, <1>3, <1>4, <1>5, <1>6

(* What Granted says of a transaction that holds a candidate's items. *)
LEMMA ReuseGrants ==
    ASSUME IInv, CandInv, NEW v \in Writer, Based(v), At(v, "recheck"),
           NEW i \in SameLogical(Chain, cand[v].batch), IsRetry(Chain, i, cand[v])
    PROVE  LET h == SubSeq(Chain, 1, i)
               b == cand[v].batch
           IN /\ h \in committed
              /\ KeyOf[h[Len(h)].batch] = KeyOf[b]
              /\ SourceOf[h[Len(h)].batch] = SourceOf[b]
              /\ Items[b] \subseteq Known(Chain)
<1>. DEFINE h == SubSeq(Chain, 1, i)
            b == cand[v].batch
<1>1. Chain \in Seq(Entry) /\ i \in 1..Len(Chain)
  BY HeadFacts DEF IInv, SameLogical
<1>2. i \in 0..Len(Chain)
  BY <1>1
<1>3. Len(h) = i /\ h[i] = Chain[i]
  BY <1>1, <1>2, PrefixFacts
<1>4. Sound(cand[v]) /\ cand[v].built
  BY DEF CandInv, At
<1>5. Items[b] \subseteq cand[v].delta \cup Known(cand[v].parent)
  BY <1>4 DEF Sound, DeltaFor
<1>6. Known(cand[v].parent) \subseteq Known(Chain)
  BY <1>4 DEF Based
<1>7. Items[b] \subseteq Known(Chain)
  <2>1. CASE cand[v].delta = {}
    BY <2>1, <1>5, <1>6
  <2>2. CASE /\ Chain[i].delta = cand[v].delta
             /\ Known(SubSeq(Chain, 1, i - 1)) = Known(cand[v].parent)
    BY <2>2, <1>1, <1>5, KnownPrefix
  <2>. QED  BY <2>1, <2>2 DEF IsRetry
<1>8. h \in committed
  BY <1>1, HeadIsCommitted
<1>9. KeyOf[Chain[i].batch] = KeyOf[b] /\ SourceOf[Chain[i].batch] = SourceOf[b]
  BY DEF SameLogical, IsRetry
<1>. QED  BY <1>3, <1>7, <1>8, <1>9

LEMMA PublishGrants ==
    ASSUME IInv, CandInv, NEW v \in Writer, Carries(v), Publishing(v), Chain = tx[v]
    PROVE  LET h == tx[v]
               b == cand[v].batch
           IN /\ h \in committed
              /\ KeyOf[h[Len(h)].batch] = KeyOf[b]
              /\ SourceOf[h[Len(h)].batch] = SourceOf[b]
              /\ Items[b] \subseteq Known(Chain)
<1>1. PICK e \in Entry : /\ tx[v] = Append(cand[v].parent, e)
                         /\ e.batch = cand[v].batch
                         /\ e.delta = cand[v].delta
  BY DEF Carries
<1>2. cand[v].parent \in Seq(Entry)
  BY DEF IInv, TypeOK, CallType, Candidate
<1>3. tx[v] # <<>> /\ tx[v][Len(tx[v])] = e
  BY <1>1, <1>2
<1>4. tx[v] \in committed
  BY <1>3, HeadIsCommitted
<1>5. Known(Chain) = Known(cand[v].parent) \cup e.delta
  BY <1>1, <1>2, KnownAppend
<1>6. Sound(cand[v])
  BY DEF CandInv, Carries
<1>7. Items[cand[v].batch] \subseteq Known(Chain)
  BY <1>1, <1>5, <1>6 DEF Sound, DeltaFor
<1>. QED  BY <1>1, <1>3, <1>4, <1>7

LEMMA OpenStep ==
    ASSUME IInv, [Next]_vars, NEW v \in Writer, Open(v)
    PROVE  Open(v)'
<1>. USE DEF IInv, TypeOK, CallType, Open, Busy, store, call, used, locked, within, told, At, Goto
<1>1. CASE Undisturbed(v)
  BY <1>1 DEF Undisturbed
<1>2. CASE PowerLoss
  BY <1>2 DEF PowerLoss
<1>3. CASE (\E b \in Batch : Begin(v, b)) \/ Republish(v)
  BY <1>3 DEF Begin, Republish, Fresh
<1>4. CASE ReadThrows(v) \/ Reread(v) \/ Build(v) \/ Acquire(v) \/ AcquireTimesOut(v)
  BY <1>4 DEF ReadThrows, Reread, Build, Acquire, AcquireTimesOut, Answer
<1>5. CASE RecheckThrows(v) \/ Reuse(v) \/ RejectParent(v) \/ RejectClock(v)
  BY <1>5 DEF RecheckThrows, Reuse, RejectParent, RejectClock, NewBatch, Raise
<1>6. CASE Finalize(v) \/ Stage(v) \/ Rename(v) \/ Sync(v)
  BY <1>6 DEF Finalize, NewBatch, Stage, Rename, Sync, Raise
<1>7. CASE Verify(v) \/ VerifyFails(v) \/ Resolve(v) \/ ResolveFails(v) \/ Release(v)
  BY <1>7 DEF Verify, VerifyFails, Resolve, ResolveFails, Release, Raise, Answer
<1>8. CASE AcquireSetupFails(v) \/ StageFails(v) \/ RenameErrors(v) \/ SyncFails(v)
           \/ ReleaseFails(v) \/ Crash(v)
  BY <1>8 DEF AcquireSetupFails, StageFails, RenameErrors, SyncFails,
              ReleaseFails, Crash, Raise, Answer
<1>. QED
  BY <1>1, <1>2, <1>3, <1>4, <1>5, <1>6, <1>7, <1>8, StepsOf
  DEF Own, Proceed, Misfortune

LEMMA GrantedStep ==
    ASSUME IInv, CandInv, [Next]_vars, NEW v \in Writer, Carries(v), Based(v),
           Open(v), Granted(v)
    PROVE  Granted(v)'
<1>. USE DEF IInv, TypeOK, CallType, store, call, used, locked, within, told, At, Goto
<1>1. CASE PowerLoss
  BY <1>1 DEF PowerLoss, Granted
<1>2. CASE Undisturbed(v) /\ ~PowerLoss
  <2>1. pc'[v] = "release" /\ verdict'[v] = "none"
           => /\ outcome'[v] = outcome[v] /\ cand'[v] = cand[v]
              /\ pc[v] = "release" /\ verdict[v] = "none"
    BY <1>2 DEF Undisturbed
  <2>. QED  BY <1>2, <2>1, GrowthStep DEF Granted
<1>3. CASE Reuse(v)
  <2>1. /\ Chain' = Chain /\ committed' = committed /\ cand' = cand
    BY <1>3 DEF Reuse, Chain
  <2>2. PICK i \in SameLogical(Chain, cand[v].batch) :
           IF IsRetry(Chain, i, cand[v])
           THEN outcome' = [outcome EXCEPT ![v] = SubSeq(Chain, 1, i)]
           ELSE Raise(v, "LOGICAL_BATCH_CONFLICT")
    BY <1>3 DEF Reuse, Chain
  <2>3. CASE IsRetry(Chain, i, cand[v])
    <3>1. outcome'[v] = SubSeq(Chain, 1, i) /\ At(v, "recheck")
      BY <1>3, <2>2, <2>3 DEF Reuse
    <3>. QED  BY <2>1, <2>3, <3>1, ReuseGrants DEF Granted
  <2>4. CASE ~IsRetry(Chain, i, cand[v])
    BY <2>2, <2>4 DEF Raise, Granted
  <2>. QED  BY <2>3, <2>4
<1>4. CASE Verify(v) \/ Resolve(v)
  <2>1. /\ Chain' = Chain /\ committed' = committed /\ cand' = cand /\ Publishing(v)
    BY <1>4 DEF Verify, Resolve, Chain, Publishing
  <2>2. \/ outcome'[v] = tx[v] /\ Chain = tx[v]
        \/ verdict'[v] # "none"
    BY <1>4 DEF Verify, BecameHead, Resolve, Raise, Chain
  <2>. QED  BY <2>1, <2>2, PublishGrants DEF Granted
<1>5. ASSUME Own(v), ~Reuse(v), ~Verify(v), ~Resolve(v)
      PROVE  pc'[v] # "release" \/ verdict'[v] # "none"
  <2>1. CASE (\E b \in Batch : Begin(v, b)) \/ Republish(v)
    BY <2>1 DEF Begin, Republish
  <2>2. CASE ReadThrows(v) \/ Reread(v) \/ Build(v) \/ Acquire(v) \/ AcquireTimesOut(v)
    BY <2>2 DEF ReadThrows, Reread, Build, Acquire, AcquireTimesOut, Answer
  <2>3. CASE RecheckThrows(v) \/ RejectParent(v) \/ RejectClock(v) \/ Finalize(v)
    BY <2>3 DEF RecheckThrows, RejectParent, RejectClock, Finalize, Raise
  <2>4. CASE Stage(v) \/ Rename(v) \/ Sync(v) \/ VerifyFails(v)
             \/ ResolveFails(v) \/ Release(v)
    BY <2>4 DEF Stage, Rename, Sync, VerifyFails, ResolveFails, Release, Raise, Answer
  <2>5. CASE AcquireSetupFails(v) \/ StageFails(v) \/ RenameErrors(v)
             \/ SyncFails(v) \/ ReleaseFails(v) \/ Crash(v)
    BY <2>5 DEF AcquireSetupFails, StageFails, RenameErrors, SyncFails,
                ReleaseFails, Crash, Raise, Answer
  <2>. QED  BY <1>5, <2>1, <2>2, <2>3, <2>4, <2>5 DEF Own, Proceed, Misfortune
<1>. QED  BY <1>1, <1>2, <1>3, <1>4, <1>5, StepsOf DEF Granted

-----------------------------------------------------------------------------
(* Success. *)

(* What every call under way has established. *)
CallInv ==
    \A w \in Writer : Carries(w) /\ Based(w) /\ Open(w) /\ Granted(w)

LEMMA CallInit == Init => CallInv
  BY DEF Init, CallInv, Carries, Based, Open, Granted, Publishing, Busy, Blank,
         NoCandidate

LEMMA CallInvStep ==
    ASSUME IInv, CandInv, CallInv, [Next]_vars
    PROVE  CallInv'
<1>1. ASSUME NEW v \in Writer PROVE Carries(v)' /\ Based(v)' /\ Open(v)' /\ Granted(v)'
  BY CarriesStep, BasedStep, OpenStep, GrantedStep DEF CallInv
<1>. QED  BY <1>1 DEF CallInv

(* Only the release answers COMMITTED. *)
LEMMA CommittedAnswer ==
    ASSUME IInv, [Next]_vars, NEW v \in Writer, Open(v), Answered(v, "COMMITTED")
    PROVE  Release(v) /\ verdict[v] = "none"
<1>. USE DEF IInv, TypeOK, CallType, Open, Busy, Answered, store, call, used, locked, within, told,
         At, Goto
<1>1. CASE Undisturbed(v)
  BY <1>1 DEF Undisturbed
<1>2. CASE PowerLoss
  BY <1>2 DEF PowerLoss
<1>3. CASE (\E b \in Batch : Begin(v, b)) \/ Republish(v)
  BY <1>3 DEF Begin, Republish
<1>4. CASE ReadThrows(v) \/ Reread(v) \/ Build(v) \/ Acquire(v) \/ AcquireTimesOut(v)
  BY <1>4 DEF ReadThrows, Reread, Build, Acquire, AcquireTimesOut, Answer
<1>5. CASE RecheckThrows(v) \/ Reuse(v) \/ RejectParent(v) \/ RejectClock(v)
  BY <1>5 DEF RecheckThrows, Reuse, RejectParent, RejectClock, Raise
<1>6. CASE Finalize(v) \/ Stage(v) \/ Rename(v) \/ Sync(v)
  BY <1>6 DEF Finalize, Stage, Rename, Sync, Raise
<1>7. CASE Verify(v) \/ VerifyFails(v) \/ Resolve(v) \/ ResolveFails(v)
  BY <1>7 DEF Verify, VerifyFails, Resolve, ResolveFails, Raise
<1>8. CASE AcquireSetupFails(v) \/ StageFails(v) \/ RenameErrors(v) \/ SyncFails(v)
           \/ ReleaseFails(v) \/ Crash(v)
  BY <1>8 DEF AcquireSetupFails, StageFails, RenameErrors, SyncFails,
              ReleaseFails, ReleaseError, Crash, Raise, Answer
<1>9. CASE Release(v)
  BY <1>9 DEF Release, Answer
<1>. QED
  BY <1>1, <1>2, <1>3, <1>4, <1>5, <1>6, <1>7, <1>8, <1>9, StepsOf
  DEF Own, Proceed, Misfortune

(* A caller that is told COMMITTED is given a transaction of its own       *)
(* logical batch and source that the authority holds, and every item of    *)
(* its payload is published, for any number of writers, crashes, power     *)
(* losses and failures and whatever the clock does (publish).              *)
THEOREM CommittedIsTrue == Spec => SuccessIsPublished
<1>. DEFINE V == IInv /\ CandInv /\ CallInv
<1>1. Init => V
  BY InvInit, ValidInit, CallInit
<1>2. V /\ [Next]_vars => V'
  BY InvStep, CandStep, CallInvStep DEF IInv
<1>3. ASSUME V, [Next]_vars
      PROVE  \A w \in Writer : Answered(w, "COMMITTED") =>
               LET h == outcome[w]
                   b == cand[w].batch
               IN /\ h \in committed
                  /\ KeyOf[h[Len(h)].batch] = KeyOf[b]
                  /\ SourceOf[h[Len(h)].batch] = SourceOf[b]
                  /\ Items[b] \subseteq Known(HeadOf(committed))
  <2>1. SUFFICES ASSUME NEW w \in Writer, Answered(w, "COMMITTED")
                 PROVE  LET h == outcome[w]
                            b == cand[w].batch
                        IN /\ h \in committed
                           /\ KeyOf[h[Len(h)].batch] = KeyOf[b]
                           /\ SourceOf[h[Len(h)].batch] = SourceOf[b]
                           /\ Items[b] \subseteq Known(HeadOf(committed))
    OBVIOUS
  <2>2. Granted(w) /\ pc[w] = "release" /\ verdict[w] = "none"
    BY <1>3, <2>1, CommittedAnswer DEF CallInv, Release, At
  <2>. QED  BY <2>2 DEF Granted, Chain
<1>. QED  BY <1>1, <1>2, <1>3, PTL DEF Spec, SuccessIsPublished

-----------------------------------------------------------------------------
(* Failure. *)

(* What w is about to rename is not there yet, and becomes the head. *)
LEMMA MoveMakesHead ==
    ASSUME IInv, NEW w \in Writer, pc[w] \in {"stage", "rename"}
    PROVE  /\ tx[w] \notin committed
           /\ Move(w) => Chain' = tx[w]
<1>1. PICK e \in Entry : tx[w] = Append(Chain, e)
  BY DEF IInv, TxInv
<1>2. Chain \in Seq(Entry) /\ Append(Chain, e) \in Seq(Entry)
      /\ Len(Append(Chain, e)) = Len(Chain) + 1 /\ Len(Chain) \in Nat
  BY DEF IInv, ChainInv
<1>3. tx[w] \notin committed
  <2>1. ~(Len(tx[w]) <= Len(Chain))
    BY <1>1, <1>2
  <2>. QED  BY <2>1, HeadIsCommitted
<1>4. ASSUME Move(w) PROVE Chain' = tx[w]
  <2>1. committed' = PrefixSet(Append(Chain, e))
    BY <1>1, <1>2, <1>4, PrefixSetAppend DEF Move, IInv, ChainInv
  <2>. QED  BY <1>1, <1>2, <2>1, HeadOfPrefixSet DEF Chain
<1>. QED  BY <1>3, <1>4

LEMMA PlacedStep ==
    ASSUME IInv, CandInv, AuthorityReadable, [Next]_vars,
           NEW v \in Writer, Carries(v), Open(v), Placed(v)
    PROVE  Placed(v)'
<1>. USE DEF IInv, TypeOK, CallType, store, call, used, locked, within, told, At, Goto
<1>f. faults \in Nat /\ faults' \in Nat /\ faults' >= faults
  BY FaultsGrow
<1>0. <<>> \notin committed
  BY HeadIsCommitted
<1>1. CASE PowerLoss
  BY <1>1 DEF PowerLoss, Placed
<1>2. CASE Undisturbed(v) /\ ~PowerLoss
  <2>1. CASE committed' = committed
    <3>1. Chain' = Chain
      BY <2>1 DEF Chain
    <3>. QED  BY <1>2, <1>f, <2>1, <3>1 DEF Undisturbed, Placed
  <2>2. CASE committed' # committed
    <3>1. PICK w \in Writer : pc[w] = "rename"
      BY <1>2, <2>2, GrowthStep
    <3>2. pc[v] = "rename" \/ ~InSection(v)
      BY <3>1 DEF LockInv, InSection
    <3>. QED  BY <1>2, <3>2 DEF Undisturbed, Placed, InSection
  <2>. QED  BY <2>1, <2>2
<1>3. CASE (\E b \in Batch : Begin(v, b)) \/ Republish(v)
  BY <1>3 DEF Begin, Republish, Fresh, Placed
<1>4. CASE ReadThrows(v) \/ Reread(v) \/ Build(v) \/ Acquire(v) \/ AcquireTimesOut(v)
  BY <1>4 DEF ReadThrows, Reread, Build, Acquire, AcquireTimesOut, Answer, Placed
<1>5. CASE RecheckThrows(v) \/ Reuse(v) \/ RejectParent(v) \/ RejectClock(v)
  <2>1. tx' = tx /\ tx[v] = <<>> /\ committed' = committed /\ pc'[v] = "release"
    BY <1>5 DEF RecheckThrows, Reuse, RejectParent, RejectClock, NewBatch, Raise, Placed
  <2>. QED  BY <1>0, <2>1 DEF Placed
<1>6. CASE Finalize(v)
  <2>. DEFINE e == [batch |-> cand[v].batch, delta |-> cand[v].delta,
                    kt |-> KnowledgeTime(cand[v].parent)]
  <2>1. /\ committed' = committed /\ renamed'[v] = FALSE
        /\ tx'[v] = Append(Chain, e)
    BY <1>6 DEF Finalize, NewBatch, ParentIsCurrent, Finalized, Chain, Placed
  <2>2. e \in Entry
    BY FinalizedType DEF Candidate, Entry
  <2>3. tx'[v] \notin committed
    <3>1. Len(Append(Chain, e)) = Len(Chain) + 1 /\ Len(Chain) \in Nat
      BY <2>2, HeadFacts
    <3>2. ~(Len(tx'[v]) <= Len(Chain))
      BY <2>1, <3>1
    <3>. QED  BY <2>1, <3>2, HeadIsCommitted
  <2>4. pc'[v] \in {"release", "stage"}
    BY <1>6 DEF Finalize, Raise
  <2>. QED  BY <2>1, <2>3, <2>4 DEF Placed
<1>7. CASE Stage(v) \/ StageFails(v)
  <2>1. /\ committed' = committed /\ tx' = tx /\ renamed' = renamed
        /\ pc[v] = "stage" /\ pc'[v] \in {"rename", "release"}
    BY <1>7 DEF Stage, StageFails, Raise
  <2>2. tx[v] \notin committed
    BY <2>1, MoveMakesHead
  <2>. QED  BY <2>1, <2>2 DEF Placed
<1>8. CASE Rename(v)
  <2>1. /\ pc'[v] = "sync" /\ renamed'[v] = TRUE /\ tx' = tx /\ Chain' = tx[v]
    BY <1>8, MoveMakesHead DEF Rename
  <2>. QED  BY <2>1 DEF Placed
<1>9. CASE RenameErrors(v)
  <2>1. /\ pc[v] = "rename" /\ pc'[v] = "resolve" /\ tx' = tx /\ renamed' = renamed
        /\ "rename" \in Faults /\ faults' = faults + 1
    BY <1>9 DEF RenameErrors, Fault
  <2>2. ~renamed[v] /\ tx[v] \notin committed
    BY <2>1, MoveMakesHead DEF Placed
  <2>3. Chain' = tx[v] \/ committed' = committed
    BY <1>9, <2>1, MoveMakesHead DEF RenameErrors
  <2>. QED  BY <1>f, <2>1, <2>2, <2>3 DEF Placed
<1>10. CASE Sync(v) \/ SyncFails(v)
  <2>1. /\ Chain' = Chain /\ committed' = committed /\ tx' = tx
        /\ renamed' = renamed /\ pc[v] = "sync" /\ pc'[v] \in {"verify", "resolve"}
    BY <1>10 DEF Sync, SyncFails, Chain
  <2>. QED  BY <2>1 DEF Placed
<1>11. CASE Verify(v) \/ VerifyFails(v)
  <2>1. /\ renamed' = renamed /\ pc[v] = "verify" /\ pc'[v] = "release"
        /\ verdict'[v] \in {"none", "COMMIT_OUTCOME_UNKNOWN"}
    BY <1>11 DEF Verify, VerifyFails, Raise, Open, Busy
  <2>. QED  BY <2>1 DEF Placed
<1>12. CASE Resolve(v)
  <2>1. /\ pc[v] = "resolve" /\ pc'[v] = "release" /\ tx' = tx
        /\ committed' = committed
    BY <1>12 DEF Resolve, Raise
  <2>2. CASE Chain = tx[v]
    <3>1. renamed'[v] = TRUE /\ verdict'[v] = "none"
      BY <1>12, <2>2 DEF Resolve, Chain, Open, Busy
    <3>. QED  BY <2>1, <3>1 DEF Placed
  <2>3. CASE Chain # tx[v]
    BY <2>1, <2>3 DEF Placed
  <2>. QED  BY <2>2, <2>3
<1>13. CASE ResolveFails(v)
  <2>1. /\ pc[v] = "resolve" /\ pc'[v] = "release" /\ tx' = tx
        /\ committed' = committed /\ renamed' = renamed
        /\ verdict'[v] = "COMMIT_OUTCOME_UNKNOWN"
    BY <1>13 DEF ResolveFails, Raise
  <2>2. "reader" \in Faults /\ faults' = faults + 1
    BY <1>13 DEF ResolveFails, ReaderThrows, Fault, AuthorityReadable
  <2>3. ~renamed[v] => "rename" \in Faults /\ faults >= 1
    BY <2>1 DEF Placed
  <2>. QED  BY <1>f, <2>1, <2>2, <2>3 DEF Placed
<1>14. CASE Release(v) \/ AcquireSetupFails(v) \/ ReleaseFails(v) \/ Crash(v)
  <2>1. pc'[v] \in {"done", "idle"}
    BY <1>14 DEF Release, AcquireSetupFails, ReleaseFails, Crash, Answer
  <2>. QED  BY <2>1 DEF Placed
<1>. QED
  BY <1>1, <1>2, <1>3, <1>4, <1>5, <1>6, <1>7, <1>8, <1>9, <1>10, <1>11,
     <1>12, <1>13, <1>14, StepsOf
  DEF Own, Proceed, Misfortune

(* What happens to a transaction when its caller is told of an error. *)
LEMMA FailureIsAbsent ==
    ASSUME IInv, [Next]_vars, NEW w \in Writer, Carries(w), Open(w), Placed(w),
           MaxFaults <= 2 \/ ~({"rename", "reader", "release"} \subseteq Faults),
           NEW a \in Verdicts \ {"COMMITTED", "COMMIT_OUTCOME_UNKNOWN"},
           Answered(w, a)
    PROVE  tx[w] \notin committed
<1>. USE DEF IInv, TypeOK, CallType, Answered, Busy, store, call, used, locked, within, told, At, Goto
<1>0. <<>> \notin committed
  BY HeadIsCommitted
<1>1. CASE Undisturbed(w) \/ PowerLoss
  BY <1>1 DEF Undisturbed, PowerLoss
<1>2. CASE (\E b \in Batch : Begin(w, b)) \/ Republish(w)
  BY <1>2 DEF Begin, Republish
<1>3. CASE ReadThrows(w) \/ Reread(w) \/ Build(w) \/ Acquire(w)
           \/ AcquireTimesOut(w) \/ AcquireSetupFails(w)
  <2>1. pc[w] \in {"reading", "acquire"}
    BY <1>3 DEF ReadThrows, Reread, Build, Acquire, AcquireTimesOut, AcquireSetupFails
  <2>. QED  BY <1>0, <2>1 DEF Placed
<1>4. CASE RecheckThrows(w) \/ Reuse(w) \/ RejectParent(w) \/ RejectClock(w)
           \/ Finalize(w) \/ Stage(w) \/ StageFails(w)
  BY <1>4 DEF RecheckThrows, Reuse, RejectParent, RejectClock, Finalize, Stage,
              StageFails, Raise
<1>5. CASE Rename(w) \/ RenameErrors(w) \/ Sync(w) \/ SyncFails(w) \/ Verify(w)
           \/ VerifyFails(w) \/ Resolve(w) \/ ResolveFails(w) \/ Crash(w)
  BY <1>5 DEF Rename, RenameErrors, Sync, SyncFails, Verify, VerifyFails, Resolve,
              ResolveFails, Crash, Raise
<1>6. CASE Release(w)
  <2>1. pc[w] = "release" /\ verdict[w] \notin {"none", "COMMIT_OUTCOME_UNKNOWN"}
    BY <1>6 DEF Release, Answer
  <2>. QED  BY <2>1 DEF Placed
<1>7. CASE ReleaseFails(w)
  <2>1. /\ pc[w] = "release" /\ ~(renamed[w] /\ tx[w] # <<>>)
        /\ "release" \in Faults /\ faults < MaxFaults
    BY <1>7 DEF ReleaseFails, ReleaseError, Answer, Fault
  <2>2. CASE tx[w] = <<>>
    BY <1>0, <2>2
  <2>3. CASE ~renamed[w]
    <3>1. faults \in Nat /\ MaxFaults \in Nat
      BY Numbers, FaultsGrow
    <3>. QED  BY <2>1, <2>3, <3>1 DEF Placed
  <2>. QED  BY <2>1, <2>2, <2>3
<1>. QED
  BY <1>1, <1>2, <1>3, <1>4, <1>5, <1>6, <1>7, StepsOf DEF Own, Proceed, Misfortune

(* A caller that gets an error other than COMMIT_OUTCOME_UNKNOWN may       *)
(* believe it: its transaction is not in the authority.  The assumptions   *)
(* are the two ways publish has to lie: an authority that became           *)
(* unreadable (the clock behind authority_created_at), and the three       *)
(* failures in a row (of rename, of the reader that resolves it, of the    *)
(* release) after which possibleRename is still false.                     *)
THEOREM ErrorIsHonest ==
    ASSUME ClockFloor >= CreatedAt,
           MaxFaults <= 2 \/ ~({"rename", "reader", "release"} \subseteq Faults)
    PROVE  Spec => HonestFailure
<1>. DEFINE V == /\ IInv /\ CandInv /\ ValidInv /\ CallInv
                 /\ \A w \in Writer : Placed(w)
<1>1. Init => V
  <2>1. Init => \A w \in Writer : Placed(w)
    BY DEF Init, Placed
  <2>. QED  BY <2>1, InvInit, ValidInit, CallInit
<1>2. ASSUME V PROVE AuthorityReadable
  BY <1>2, PrefixSetReadable DEF IInv, ChainInv, ValidInv, AuthorityReadable
<1>3. V /\ [Next]_vars => V'
  <2>1. SUFFICES ASSUME V, [Next]_vars PROVE V'
    OBVIOUS
  <2>2. IInv' /\ CandInv' /\ ValidInv' /\ CallInv'
    BY <2>1, InvStep, CandStep, ValidStep, CallInvStep DEF IInv
  <2>3. ASSUME NEW v \in Writer PROVE Placed(v)'
    BY <1>2, <2>1, PlacedStep DEF CallInv
  <2>. QED  BY <2>2, <2>3
<1>4. ASSUME V, [Next]_vars
      PROVE  \A w \in Writer :
               \A v \in Verdicts \ {"COMMITTED", "COMMIT_OUTCOME_UNKNOWN"} :
                  Answered(w, v) => tx[w] \notin committed
  BY <1>4, FailureIsAbsent DEF CallInv
<1>. QED  BY <1>1, <1>3, <1>4, PTL DEF Spec, HonestFailure

-----------------------------------------------------------------------------
(* Durability. *)

(* The steps that touch the store or the answers given. *)
LEMMA StoreMoves ==
    ASSUME [Next]_vars
    PROVE  \/ UNCHANGED <<committed, durable, told>>
           \/ PowerLoss
           \/ \E w \in Writer : \/ Rename(w) \/ RenameErrors(w) \/ Sync(w)
                                \/ SyncFails(w) \/ Crash(w) \/ Release(w)
<1>. DEFINE Idle == UNCHANGED <<committed, durable, told>>
<1>. USE DEF store, call, used, locked, within, told
<1>1. ASSUME NEW w \in Writer, (\E b \in Batch : Begin(w, b)) \/ Republish(w)
      PROVE  Idle
  BY <1>1 DEF Begin, Republish
<1>2. ASSUME NEW w \in Writer, Proceed(w), ~Rename(w), ~Sync(w), ~Release(w)
      PROVE  Idle
  <2>1. CASE ReadThrows(w) \/ Reread(w) \/ Build(w) \/ Acquire(w) \/ AcquireTimesOut(w)
    BY <2>1 DEF ReadThrows, Reread, Build, Acquire, AcquireTimesOut
  <2>2. CASE RecheckThrows(w) \/ Reuse(w) \/ RejectParent(w) \/ RejectClock(w)
             \/ Finalize(w) \/ Stage(w)
    BY <2>2 DEF RecheckThrows, Reuse, RejectParent, RejectClock, Finalize, Stage
  <2>3. CASE Verify(w) \/ VerifyFails(w) \/ Resolve(w) \/ ResolveFails(w)
    BY <2>3 DEF Verify, VerifyFails, Resolve, ResolveFails
  <2>. QED  BY <1>2, <2>1, <2>2, <2>3 DEF Proceed
<1>3. ASSUME NEW w \in Writer, Misfortune(w),
             ~RenameErrors(w), ~SyncFails(w), ~Crash(w)
      PROVE  Idle
  BY <1>3 DEF Misfortune, AcquireSetupFails, StageFails, ReleaseFails
<1>4. CASE OperatorRecovers \/ Tick \/ StepBack \/ UNCHANGED vars
  BY <1>4 DEF OperatorRecovers, Tick, StepBack, vars
<1>. QED  BY <1>1, <1>2, <1>3, <1>4 DEF Next

(* A power loss cuts the history somewhere after what was synced. *)
LEMMA PowerLossCuts ==
    ASSUME IInv, PowerLoss
    PROVE  \E n \in 0..Len(Chain) :
              /\ durable <= n
              /\ committed' = {s \in committed : Len(s) <= n}
              /\ Chain' = SubSeq(Chain, 1, n)
              /\ Len(Chain') = n
              /\ durable' = n
<1>1. PICK n \in durable..Len(Chain) :
         committed' = {s \in committed : Len(s) <= n} /\ durable' = n
  BY DEF PowerLoss, Chain
<1>2. Chain \in Seq(Entry) /\ n \in 0..Len(Chain) /\ durable <= n
  BY <1>1, HeadFacts DEF IInv, TypeOK, StoreType
<1>3. committed' = PrefixSet(SubSeq(Chain, 1, n))
  BY <1>1, <1>2, PrefixSetTruncate DEF IInv, ChainInv
<1>4. SubSeq(Chain, 1, n) \in Seq(Entry) /\ Len(SubSeq(Chain, 1, n)) = n
  BY <1>2, PrefixFacts
<1>5. Chain' = SubSeq(Chain, 1, n)
  BY <1>3, <1>4, HeadOfPrefixSet DEF Chain
<1>. QED  BY <1>1, <1>2, <1>4, <1>5

(* A transaction a power loss keeps, or one known to have been left        *)
(* without a directory fsync.                                              *)
Covered(s) == Len(s) <= durable \/ s \in unsynced

(* Whatever is visible is Covered, but for what a live writer has just     *)
(* renamed: it holds the lock until its own fsync, its failure or its      *)
(* death, so that nobody else can answer with it.                          *)
DurableInv ==
    /\ durable <= Len(Chain)
    /\ \A s \in committed :
          Covered(s) \/ \E w \in Writer : pc[w] = "sync" /\ s = tx[w]
    /\ \A w \in Writer : pc[w] = "release" /\ verdict[w] = "none"
                            => Covered(outcome[w])
    /\ \A s \in acked : Covered(s)

(* What a writer in the locked section outside that window reads. *)
LEMMA CoveredInSection ==
    ASSUME IInv, DurableInv, NEW v \in Writer, InSection(v), pc[v] # "sync",
           NEW s \in committed
    PROVE  Covered(s)
<1>1. ASSUME NEW w \in Writer, pc[w] = "sync" PROVE FALSE
  <2>1. InSection(w)
    BY <1>1 DEF InSection
  <2>2. v = w
    BY <2>1 DEF IInv, LockInv
  <2>. QED  BY <1>1, <2>2
<1>. QED  BY <1>1 DEF DurableInv

(* How the last synced length and the transactions left without an fsync   *)
(* move.                                                                   *)
LEMMA UnsyncedMoves ==
    ASSUME [Next]_vars
    PROVE  \/ durable' = durable /\ unsynced \subseteq unsynced'
           \/ /\ durable' = Len(Chain) /\ committed' = committed
              /\ unsynced' = unsynced \ committed
           \/ PowerLoss
<1>. USE DEF store, locked, within, told
<1>1. CASE UNCHANGED <<committed, durable, told>>
  BY <1>1
<1>2. ASSUME NEW w \in Writer, Rename(w) \/ RenameErrors(w) \/ SyncFails(w)
      PROVE  durable' = durable /\ unsynced \subseteq unsynced'
  BY <1>2 DEF Rename, RenameErrors, SyncFails, LeavesUnsynced
<1>3. ASSUME NEW w \in Writer, Crash(w) \/ Release(w)
      PROVE  durable' = durable /\ unsynced \subseteq unsynced'
  BY <1>3 DEF Crash, Release, LeavesUnsynced
<1>4. ASSUME NEW w \in Writer, Sync(w)
      PROVE  /\ durable' = Len(Chain) /\ committed' = committed
             /\ unsynced' = unsynced \ committed
  BY <1>4 DEF Sync, SyncedLength, Chain
<1>. QED  BY <1>1, <1>2, <1>3, <1>4, StoreMoves

(* What is Covered stays so. *)
LEMMA CoveredStays ==
    ASSUME IInv, DurableInv, [Next]_vars
    PROVE  /\ durable \in Nat /\ durable' \in Nat /\ durable <= durable'
           /\ \A s \in Seq(Entry) : Covered(s) => Covered(s)'
<1>0. durable \in Nat /\ Len(Chain) \in Nat /\ durable <= Len(Chain)
  BY HeadFacts DEF IInv, TypeOK, StoreType, DurableInv
<1>h. \A s \in committed : Len(s) <= Len(Chain)
  BY HeadIsCommitted
<1>1. CASE durable' = durable /\ unsynced \subseteq unsynced'
  BY <1>0, <1>1 DEF Covered
<1>2. CASE /\ durable' = Len(Chain) /\ committed' = committed
           /\ unsynced' = unsynced \ committed
  <2>1. ASSUME NEW s \in Seq(Entry), Covered(s) PROVE Len(s) <= durable' \/ s \in unsynced'
    <3>1. Len(s) \in Nat
      OBVIOUS
    <3>. QED  BY <1>0, <1>h, <1>2, <2>1, <3>1 DEF Covered
  <2>. QED  BY <1>0, <1>2, <2>1 DEF Covered
<1>3. CASE PowerLoss
  <2>1. PICK n \in 0..Len(Chain) : /\ durable <= n /\ durable' = n
                                   /\ committed' = {s \in committed : Len(s) <= n}
    BY <1>3, PowerLossCuts
  <2>2. unsynced' = unsynced \ committed'
    BY <1>3 DEF PowerLoss
  <2>3. ASSUME NEW s \in Seq(Entry), Covered(s) PROVE Len(s) <= durable' \/ s \in unsynced'
    <3>1. Len(s) \in Nat
      OBVIOUS
    <3>. QED  BY <1>0, <2>1, <2>2, <2>3, <3>1 DEF Covered
  <2>. QED  BY <1>0, <2>1, <2>3 DEF Covered
<1>. QED  BY <1>1, <1>2, <1>3, UnsyncedMoves

(* A writer leaves the window by its own fsync, or by an end that leaves   *)
(* its transaction without one.                                            *)
LEMMA WindowStep ==
    ASSUME IInv, [Next]_vars, NEW v \in Writer, pc[v] = "sync"
    PROVE  \/ pc'[v] = "sync" /\ tx'[v] = tx[v]
           \/ Sync(v)
           \/ tx[v] \in unsynced'
           \/ PowerLoss
<1>. USE DEF IInv, TypeOK, CallType, store, call, used, locked, within, told, At, Goto
<1>1. CASE Undisturbed(v)
  BY <1>1 DEF Undisturbed
<1>2. CASE (\E b \in Batch : Begin(v, b)) \/ Republish(v)
  BY <1>2 DEF Begin, Republish
<1>3. CASE ReadThrows(v) \/ Reread(v) \/ Build(v) \/ Acquire(v) \/ AcquireTimesOut(v)
  BY <1>3 DEF ReadThrows, Reread, Build, Acquire, AcquireTimesOut
<1>4. CASE RecheckThrows(v) \/ Reuse(v) \/ RejectParent(v) \/ RejectClock(v) \/ Finalize(v)
  BY <1>4 DEF RecheckThrows, Reuse, RejectParent, RejectClock, NewBatch, Finalize
<1>5. CASE Stage(v) \/ Rename(v) \/ Verify(v) \/ VerifyFails(v)
           \/ Resolve(v) \/ ResolveFails(v) \/ Release(v)
  BY <1>5 DEF Stage, Rename, Verify, VerifyFails, Resolve, ResolveFails, Release
<1>6. CASE SyncFails(v) \/ Crash(v)
  BY <1>6 DEF SyncFails, Crash, LeavesUnsynced
<1>7. CASE AcquireSetupFails(v) \/ StageFails(v) \/ RenameErrors(v) \/ ReleaseFails(v)
  BY <1>7 DEF AcquireSetupFails, StageFails, RenameErrors, ReleaseFails
<1>. QED
  BY <1>1, <1>2, <1>3, <1>4, <1>5, <1>6, <1>7, StepsOf DEF Own, Proceed, Misfortune

(* What becomes visible is in the window, or left without an fsync. *)
LEMMA VisibleStep ==
    ASSUME IInv, DurableInv, [Next]_vars, NEW s \in committed'
    PROVE  Covered(s)' \/ \E w \in Writer : pc'[w] = "sync" /\ s = tx'[w]
<1>. USE DEF IInv, TypeOK, StoreType, CallType
<1>0. durable' \in Nat /\ Len(Chain) \in Nat
  BY CoveredStays, HeadFacts
<1>1. CASE PowerLoss
  <2>1. PICK n \in 0..Len(Chain) : /\ durable' = n
                                   /\ committed' = {t \in committed : Len(t) <= n}
    BY <1>1, PowerLossCuts
  <2>. QED  BY <2>1 DEF Covered
<1>2. ASSUME s \in committed, ~PowerLoss
      PROVE  Covered(s)' \/ \E w \in Writer : pc'[w] = "sync" /\ s = tx'[w]
  <2>1. CASE Covered(s)
    BY <1>2, <2>1, CoveredStays
  <2>2. ASSUME NEW w \in Writer, pc[w] = "sync", s = tx[w]
        PROVE  Covered(s)' \/ (pc'[w] = "sync" /\ s = tx'[w])
    <3>1. CASE Sync(w)
      <4>1. durable' = Len(Chain)
        BY <3>1 DEF Sync, SyncedLength, Chain
      <4>2. Len(s) <= Len(Chain)
        BY <1>2, HeadIsCommitted
      <4>. QED  BY <4>1, <4>2 DEF Covered
    <3>. QED  BY <1>2, <2>2, <3>1, WindowStep DEF Covered
  <2>. QED  BY <1>2, <2>1, <2>2 DEF DurableInv
<1>3. ASSUME NEW w \in Writer, Rename(w) \/ RenameErrors(w), s \notin committed
      PROVE  Covered(s)' \/ (pc'[w] = "sync" /\ s = tx'[w])
  <2>1. CASE Rename(w)
    <3>1. s = tx[w] /\ tx' = tx /\ pc'[w] = "sync"
      BY <1>3, <2>1 DEF Rename, Move, Goto
    <3>. QED  BY <3>1
  <2>2. CASE RenameErrors(w)
    <3>1. s \in unsynced'
      BY <1>3, <2>2 DEF RenameErrors, Move, LeavesUnsynced
    <3>. QED  BY <3>1 DEF Covered
  <2>. QED  BY <1>3, <2>1, <2>2
<1>4. ASSUME ~PowerLoss, ~\E w \in Writer : Rename(w) \/ RenameErrors(w)
      PROVE  committed' = committed
  BY <1>4, StoreMoves DEF Sync, SyncFails, Crash, Release, store
<1>. QED  BY <1>1, <1>2, <1>3, <1>4

(* What an answer about to be given names is Covered. *)
LEMMA OutcomeCovered ==
    ASSUME IInv, DurableInv, [Next]_vars, NEW v \in Writer,
           pc'[v] = "release", verdict'[v] = "none"
    PROVE  Covered(outcome[v])'
<1>. USE DEF IInv, TypeOK, CallType, store, call, used, locked, within, told, At, Goto
<1>c. Chain \in Seq(Entry) /\ Len(Chain) \in Nat
  BY HeadFacts
<1>s. \A s \in committed : s \in Seq(Entry)
  BY DEF StoreType
<1>m. ASSUME NEW s \in committed, InSection(v), pc[v] # "sync" PROVE Covered(s)'
  BY <1>m, <1>s, CoveredInSection, CoveredStays
<1>1. CASE PowerLoss
  BY <1>1 DEF PowerLoss
<1>2. CASE Undisturbed(v)
  <2>1. pc[v] = "release" /\ verdict[v] = "none" /\ outcome'[v] = outcome[v]
    BY <1>2 DEF Undisturbed
  <2>2. Covered(outcome[v]) /\ outcome[v] \in Seq(Entry)
    BY <2>1 DEF DurableInv
  <2>. QED  BY <2>1, <2>2, CoveredStays
<1>3. CASE Reuse(v)
  <2>1. PICK i \in SameLogical(Chain, cand[v].batch) :
           IF IsRetry(Chain, i, cand[v])
           THEN outcome' = [outcome EXCEPT ![v] = SubSeq(Chain, 1, i)]
           ELSE Raise(v, "LOGICAL_BATCH_CONFLICT")
    BY <1>3 DEF Reuse, Chain
  <2>2. outcome'[v] = SubSeq(Chain, 1, i)
    BY <2>1 DEF Raise
  <2>3. outcome'[v] \in committed
    BY <2>2 DEF SameLogical, ChainInv, PrefixSet
  <2>4. InSection(v) /\ pc[v] # "sync"
    BY <1>3 DEF Reuse, InSection
  <2>. QED  BY <1>m, <2>3, <2>4
<1>4. CASE Verify(v) \/ Resolve(v)
  <2>1. outcome'[v] = Chain /\ InSection(v) /\ pc[v] # "sync"
    BY <1>4 DEF Verify, Resolve, BecameHead, Chain, Raise, InSection
  <2>2. CASE Chain = <<>>
    <3>1. Len(outcome'[v]) = 0 /\ durable' \in Nat
      BY <2>1, <2>2, CoveredStays
    <3>. QED  BY <3>1 DEF Covered
  <2>3. CASE Chain # <<>>
    <3>1. Chain \in committed
      BY <2>3, <1>c, HeadIsCommitted
    <3>. QED  BY <1>m, <2>1, <3>1
  <2>. QED  BY <2>2, <2>3
<1>5. ASSUME Own(v), ~Reuse(v), ~Verify(v), ~Resolve(v)
      PROVE  pc'[v] # "release" \/ verdict'[v] # "none"
  <2>1. CASE (\E b \in Batch : Begin(v, b)) \/ Republish(v)
    BY <2>1 DEF Begin, Republish
  <2>2. CASE ReadThrows(v) \/ Reread(v) \/ Build(v) \/ Acquire(v) \/ AcquireTimesOut(v)
    BY <2>2 DEF ReadThrows, Reread, Build, Acquire, AcquireTimesOut, Answer
  <2>3. CASE RecheckThrows(v) \/ RejectParent(v) \/ RejectClock(v) \/ Finalize(v)
    BY <2>3 DEF RecheckThrows, RejectParent, RejectClock, Finalize, Raise
  <2>4. CASE Stage(v) \/ Rename(v) \/ Sync(v) \/ VerifyFails(v)
             \/ ResolveFails(v) \/ Release(v)
    BY <2>4 DEF Stage, Rename, Sync, VerifyFails, ResolveFails, Release, Raise, Answer
  <2>5. CASE AcquireSetupFails(v) \/ StageFails(v) \/ RenameErrors(v)
             \/ SyncFails(v) \/ ReleaseFails(v) \/ Crash(v)
    BY <2>5 DEF AcquireSetupFails, StageFails, RenameErrors, SyncFails,
                ReleaseFails, Crash, Raise, Answer
  <2>. QED  BY <1>5, <2>1, <2>2, <2>3, <2>4, <2>5 DEF Own, Proceed, Misfortune
<1>. QED  BY <1>1, <1>2, <1>3, <1>4, <1>5, StepsOf

(* Only an answer COMMITTED reports a transaction. *)
LEMMA ReportStep ==
    ASSUME [Next]_vars, NEW s \in acked', s \notin acked
    PROVE  \E w \in Writer : /\ Release(w) /\ pc[w] = "release"
                             /\ verdict[w] = "none" /\ s = outcome[w]
<1>1. ASSUME NEW w \in Writer,
             Rename(w) \/ RenameErrors(w) \/ Sync(w) \/ SyncFails(w) \/ Crash(w)
      PROVE  acked' = acked
  BY <1>1 DEF Rename, RenameErrors, Sync, SyncFails, Crash, locked, within
<1>2. PowerLoss => acked' = acked
  BY DEF PowerLoss
<1>3. PICK w \in Writer : Release(w)
  BY <1>1, <1>2, StoreMoves DEF told
<1>. QED  BY <1>3 DEF Release, At

LEMMA DurableStep ==
    ASSUME IInv, DurableInv, CallInv, [Next]_vars
    PROVE  DurableInv'
<1>. USE DEF IInv
<1>g. durable \in Nat /\ durable' \in Nat /\ Len(Chain) \in Nat /\ Chain \in Seq(Entry)
  BY CoveredStays, HeadFacts
<1>1. durable' <= Len(Chain')
  <2>1. CASE PowerLoss
    BY <1>g, <2>1, PowerLossCuts
  <2>2. CASE committed' = committed
    <3>1. Chain' = Chain
      BY <2>2 DEF Chain
    <3>2. durable' = durable \/ durable' = Len(Chain) \/ PowerLoss
      BY UnsyncedMoves
    <3>. QED  BY <1>g, <2>1, <3>1, <3>2 DEF DurableInv
  <2>3. ASSUME NEW w \in Writer, pc[w] = "rename", Move(w), ~PowerLoss
        PROVE  durable' <= Len(Chain')
    <3>1. PICK e \in Entry : tx[w] = Append(Chain, e)
      BY <2>3 DEF TxInv
    <3>2. Chain' = tx[w] /\ tx[w] \notin committed
      BY <2>3, MoveMakesHead
    <3>3. Len(tx[w]) = Len(Chain) + 1
      BY <1>g, <3>1
    <3>4. durable' = durable
      BY <2>3, <3>2, UnsyncedMoves DEF Move
    <3>. QED  BY <1>g, <3>2, <3>3, <3>4 DEF DurableInv
  <2>. QED  BY <2>1, <2>2, <2>3, CommittedStep
<1>2. \A s \in acked' : Covered(s)'
  <2>1. \A s \in acked : Covered(s) /\ s \in Seq(Entry)
    BY DEF DurableInv, TypeOK, StoreType
  <2>2. ASSUME NEW s \in acked', s \notin acked PROVE Covered(s) /\ s \in Seq(Entry)
    BY <2>2, ReportStep DEF DurableInv, TypeOK, CallType
  <2>. QED  BY <2>1, <2>2, CoveredStays
<1>. QED  BY <1>1, <1>2, VisibleStep, OutcomeCovered DEF DurableInv

LEMMA LossStep ==
    ASSUME IInv, CallInv, DurableInv, LostOnlyIfUnsynced, [Next]_vars,
           NEW s \in acked', s \notin committed'
    PROVE  s \in unsynced'
<1>. USE DEF IInv, TypeOK, StoreType
<1>1. ASSUME ~PowerLoss PROVE s \in unsynced /\ s \notin committed
  <2>1. s \notin committed
    BY <1>1, GrowthStep
  <2>2. s \in acked
    <3>1. ASSUME s \notin acked PROVE s \in committed
      BY <3>1, ReportStep DEF CallInv, Granted
    <3>. QED  BY <2>1, <3>1
  <2>. QED  BY <2>1, <2>2 DEF LostOnlyIfUnsynced
<1>2. CASE PowerLoss
  <2>1. PICK n \in 0..Len(Chain) : /\ durable <= n
                                   /\ committed' = {t \in committed : Len(t) <= n}
    BY <1>2, PowerLossCuts
  <2>2. s \in acked /\ unsynced' = unsynced \ committed'
    BY <1>2 DEF PowerLoss
  <2>3. Covered(s) /\ Len(s) \in Nat /\ durable \in Nat
    BY <2>2 DEF DurableInv
  <2>4. s \in committed => ~(Len(s) <= durable)
    BY <2>1, <2>3
  <2>. QED  BY <2>2, <2>3, <2>4 DEF Covered, LostOnlyIfUnsynced
<1>. QED  BY <1>1, <1>2, UnsyncedMoves

(* With any number of writers, deaths, failures and power losses, a        *)
(* transaction that was reported COMMITTED is missing only if its own      *)
(* publisher left the window between the rename and the directory fsync    *)
(* without that fsync and no later one covered it: every other answer of   *)
(* publish is durable when it is given.                                    *)
THEOREM OnlyUnsyncedIsLost == Spec => []LostOnlyIfUnsynced
<1>. DEFINE V == IInv /\ CandInv /\ CallInv /\ DurableInv /\ LostOnlyIfUnsynced
<1>1. Init => V
  <2>1. ASSUME Init PROVE LostOnlyIfUnsynced /\ DurableInv
    <3>1. Chain = <<>> /\ Len(<<>>) = 0
      BY <2>1 DEF Init, Chain, HeadOf
    <3>. QED  BY <2>1, <3>1 DEF Init, LostOnlyIfUnsynced, DurableInv
  <2>. QED  BY <2>1, InvInit, ValidInit, CallInit
<1>2. V /\ [Next]_vars => V'
  <2>1. SUFFICES ASSUME V, [Next]_vars PROVE V'
    OBVIOUS
  <2>2. IInv' /\ CandInv' /\ CallInv'
    BY <2>1, InvStep, CandStep, CallInvStep DEF IInv
  <2>3. LostOnlyIfUnsynced'
    BY <2>1, LossStep DEF LostOnlyIfUnsynced
  <2>4. DurableInv'
    BY <2>1, DurableStep
  <2>. QED  BY <2>2, <2>3, <2>4
<1>3. V => LostOnlyIfUnsynced
  OBVIOUS
<1>. QED  BY <1>1, <1>2, <1>3, PTL DEF Spec

-----------------------------------------------------------------------------
(* The store implements the authority its callers are promised. *)

(* Every transaction's time is bounded by the clock and its position. *)
TimeInv ==
    /\ \A i \in 1..Len(Chain) : Chain[i].kt <= MaxClock + (i - 1)
    /\ \A w \in Writer : pc[w] \in {"stage", "rename"}
          => tx[w][Len(tx[w])].kt <= MaxClock + (Len(tx[w]) - 1)

LEMMA FinalizedTime ==
    ASSUME IInv, TimeInv, NEW w \in Writer, Finalize(w)
    PROVE  tx'[w][Len(tx'[w])].kt <= MaxClock + (Len(tx'[w]) - 1)
<1>. DEFINE k == KnowledgeTime(Chain)
            e == [batch |-> cand[w].batch, delta |-> cand[w].delta, kt |-> k]
<1>1. Chain \in Seq(Entry) /\ Len(Chain) \in Nat
  BY HeadFacts DEF IInv
<1>2. cand[w].parent = Chain
  BY DEF Finalize, ParentIsCurrent, Chain
<1>3. tx'[w] = Append(Chain, e)
  BY <1>2 DEF Finalize, Finalized, IInv, TypeOK, CallType
<1>4. clock \in Int /\ clock <= MaxClock /\ MaxClock \in Int
  BY Numbers DEF IInv, TypeOK, StoreType
<1>5. k <= MaxClock + Len(Chain)
  <2>1. CASE Chain = <<>>
    BY <1>1, <1>4, <2>1 DEF KnowledgeTime
  <2>2. CASE Chain # <<>>
    <3>1. Len(Chain) \in 1..Len(Chain)
      BY <1>1, <2>2
    <3>2. Chain[Len(Chain)] \in Entry
      BY <1>1, <3>1
    <3>3. Chain[Len(Chain)].kt \in Int
      BY <3>2 DEF Entry
    <3>4. Chain[Len(Chain)].kt <= MaxClock + (Len(Chain) - 1)
      BY <3>1 DEF TimeInv
    <3>. QED  BY <1>1, <1>4, <2>2, <3>3, <3>4 DEF KnowledgeTime
  <2>. QED  BY <2>1, <2>2
<1>6. Len(tx'[w]) = Len(Chain) + 1 /\ tx'[w][Len(Chain) + 1] = e
  BY <1>1, <1>3
<1>7. e.kt = k
  OBVIOUS
<1>. HIDE DEF k, e
<1>. QED  BY <1>1, <1>4, <1>5, <1>6, <1>7

LEMMA TimeStep ==
    ASSUME IInv, TimeInv, [Next]_vars
    PROVE  TimeInv'
<1>. USE DEF IInv
<1>c. Chain \in Seq(Entry) /\ Len(Chain) \in Nat
  BY HeadFacts
<1>1. \A i \in 1..Len(Chain') : Chain'[i].kt <= MaxClock + (i - 1)
  <2>1. CASE UNCHANGED committed
    BY <2>1 DEF TimeInv, Chain
  <2>2. ASSUME NEW w \in Writer, pc[w] = "rename", Move(w)
        PROVE  \A i \in 1..Len(Chain') : Chain'[i].kt <= MaxClock + (i - 1)
    <3>1. PICK e \in Entry : tx[w] = Append(Chain, e)
      BY <2>2 DEF TxInv
    <3>2. Chain' = tx[w]
      BY <2>2, MoveMakesHead
    <3>3. /\ Len(tx[w]) = Len(Chain) + 1
          /\ \A i \in 1..Len(Chain) : tx[w][i] = Chain[i]
      BY <1>c, <3>1
    <3>4. \A i \in 1..Len(Chain) : Chain[i].kt <= MaxClock + (i - 1)
      BY DEF TimeInv
    <3>5. tx[w][Len(Chain) + 1].kt <= MaxClock + ((Len(Chain) + 1) - 1)
      BY <2>2, <3>3 DEF TimeInv
    <3>. QED  BY <1>c, <3>2, <3>3, <3>4, <3>5
  <2>3. CASE PowerLoss
    <3>1. PICK n \in 0..Len(Chain) : Chain' = SubSeq(Chain, 1, n)
      BY <2>3, PowerLossCuts
    <3>2. Len(SubSeq(Chain, 1, n)) = n
          /\ \A i \in 1..n : SubSeq(Chain, 1, n)[i] = Chain[i]
      BY <1>c, PrefixFacts
    <3>. QED  BY <1>c, <3>1, <3>2 DEF TimeInv
  <2>. QED  BY <2>1, <2>2, <2>3, CommittedStep
<1>2. ASSUME NEW v \in Writer, pc'[v] \in {"stage", "rename"}
      PROVE  tx'[v][Len(tx'[v])].kt <= MaxClock + (Len(tx'[v]) - 1)
  <2>1. CASE Finalize(v)
    BY <2>1, FinalizedTime
  <2>2. CASE pc[v] \in {"stage", "rename"} /\ tx'[v] = tx[v]
    BY <2>2 DEF TimeInv
  <2>. QED  BY <1>2, <2>1, <2>2, StagingStep
<1>. QED  BY <1>1, <1>2 DEF TimeInv

(* There are no more transactions than batches. *)
LEMMA HistoryFits ==
    ASSUME IsFiniteSet(Batch), NEW h \in Seq(Entry),
           \A i, j \in 1..Len(h) : KeyOf[h[i].batch] = KeyOf[h[j].batch] => i = j
    PROVE  Cardinality(Batch) \in Nat /\ Len(h) <= Cardinality(Batch)
<1>. DEFINE f == [i \in 1..Len(h) |-> h[i].batch]
<1>1. Len(h) \in Nat /\ \A i \in 1..Len(h) : h[i].batch \in Batch
  <2>1. \A i \in 1..Len(h) : h[i] \in Entry
    OBVIOUS
  <2>. QED  BY <2>1 DEF Entry
<1>2. f \in [1..Len(h) -> Batch]
  BY <1>1
<1>3. \A i, j \in 1..Len(h) : f[i] = f[j] => i = j
  OBVIOUS
<1>4. f \in Injection(1..Len(h), Batch)
  BY <1>2, <1>3 DEF Injection, IsInjective
<1>5. Cardinality(1..Len(h)) <= Cardinality(Batch)
  BY <1>4, FS_Injection
<1>6. Cardinality(1..Len(h)) = Len(h)
  <2>1. Cardinality(1..Len(h)) = IF 1 > Len(h) THEN 0 ELSE Len(h) - 1 + 1
    BY <1>1, FS_Interval, 1 \in Int, Len(h) \in Int
  <2>. QED  BY <1>1, <2>1
<1>7. Cardinality(Batch) \in Nat
  BY FS_CardinalityType
<1>. QED  BY <1>5, <1>6, <1>7

(* A rename that takes place is a publication. *)
LEMMA MovePublishes ==
    ASSUME IsFiniteSet(Batch), IInv, CandInv, ValidInv, CallInv, TimeInv, ChainInv',
           NEW w \in Writer, pc[w] = "rename", Move(w), UNCHANGED acked
    PROVE  Authority!Publish
<1>1. PICK e \in Entry : tx[w] = Append(Chain, e) /\ e.batch = cand[w].batch
  BY DEF IInv, TxInv
<1>2. /\ Chain \in Seq(Entry) /\ Len(Chain) \in Nat
      /\ Len(Append(Chain, e)) = Len(Chain) + 1
      /\ Append(Chain, e)[Len(Chain) + 1] = e
  BY HeadFacts DEF IInv
<1>3. Chain' = Append(Chain, e)
  BY <1>1, MoveMakesHead
<1>4. Cardinality(Batch) \in Nat /\ Len(Append(Chain, e)) <= Cardinality(Batch)
  <2>1. Append(Chain, e) \in Seq(Entry)
    BY <1>2
  <2>2. \A i, j \in 1..Len(Append(Chain, e)) :
           KeyOf[Append(Chain, e)[i].batch] = KeyOf[Append(Chain, e)[j].batch] => i = j
    BY <1>3 DEF ChainInv
  <2>. QED  BY <2>1, <2>2, HistoryFits
<1>5. ValidEntry(Append(Chain, e), Len(Chain) + 1)
  BY <1>1, <1>2 DEF ValidInv
<1>6. e.kt \in CreatedAt..(MaxClock + Cardinality(Batch))
  <2>1. e.kt \in Int /\ CreatedAt \in Int /\ MaxClock \in Int
    BY Numbers DEF Entry
  <2>2. e.kt >= CreatedAt
    BY <1>2, <1>5 DEF ValidEntry
  <2>3. e.kt <= MaxClock + ((Len(Chain) + 1) - 1)
    BY <1>1, <1>2 DEF TimeInv
  <2>. QED  BY <1>2, <1>4, <2>1, <2>2, <2>3
<1>7. e \in [batch : Batch, delta : SUBSET Item,
             kt : CreatedAt..(MaxClock + Cardinality(Batch))]
  BY <1>6 DEF Entry
<1>8. SameLogical(Chain, e.batch) = {}
  BY <1>1 DEF IInv, TxInv
<1>9. Items[e.batch] \subseteq Known(Append(Chain, e))
  <2>1. PICK d \in Entry : /\ tx[w] = Append(cand[w].parent, d)
                           /\ d.delta = cand[w].delta
    BY DEF CallInv, Carries, Publishing
  <2>2. Sound(cand[w]) /\ cand[w].parent \in Seq(Entry)
    BY DEF CallInv, Carries, Publishing, CandInv, IInv, TypeOK, CallType, Candidate
  <2>3. Known(tx[w]) = Known(cand[w].parent) \cup d.delta
    BY <2>1, <2>2, KnownAppend
  <2>. QED  BY <1>1, <2>1, <2>2, <2>3 DEF Sound, DeltaFor
<1>. QED  BY <1>3, <1>5, <1>7, <1>8, <1>9 DEF Authority!Publish, Chain

(* A release that answers COMMITTED is a report. *)
LEMMA ReleaseReports ==
    ASSUME IInv, CallInv, NEW w \in Writer, Release(w)
    PROVE  Authority!Report \/ UNCHANGED <<HeadOf(committed), acked>>
<1>1. committed' = committed
  BY DEF Release, store
<1>2. CASE verdict[w] = "none"
  <2>1. acked' = acked \cup {outcome[w]} /\ outcome[w] \in committed
    BY <1>2 DEF Release, At, CallInv, Granted
  <2>2. PICK n \in 1..Len(Chain) : outcome[w] = SubSeq(Chain, 1, n)
    BY <2>1 DEF IInv, ChainInv, PrefixSet
  <2>. QED  BY <1>1, <2>1, <2>2 DEF Authority!Report, Chain
<1>3. CASE verdict[w] # "none"
  BY <1>1, <1>3 DEF Release
<1>. QED  BY <1>2, <1>3

LEMMA StepSimulation ==
    ASSUME IsFiniteSet(Batch), IInv, CandInv, ValidInv, CallInv, TimeInv, ChainInv',
           [Next]_vars
    PROVE  Authority!Next \/ UNCHANGED <<HeadOf(committed), acked>>
<1>. USE DEF store, call, used, locked, within, told
<1>1. CASE UNCHANGED <<committed, durable, told>>
  BY <1>1
<1>2. CASE PowerLoss
  <2>1. PICK n \in 0..Len(Chain) : Chain' = SubSeq(Chain, 1, n)
    BY <1>2, PowerLossCuts
  <2>2. UNCHANGED acked /\ MaxPowerLosses > 0
    BY <1>2, Numbers DEF PowerLoss, IInv, TypeOK, BoundType
  <2>. QED  BY <2>1, <2>2 DEF Authority!Next, Authority!Lose, Chain
<1>3. ASSUME NEW w \in Writer, Rename(w) \/ RenameErrors(w)
      PROVE  Authority!Publish \/ UNCHANGED <<HeadOf(committed), acked>>
  <2>1. pc[w] = "rename" /\ UNCHANGED acked /\ (Move(w) \/ UNCHANGED committed)
    BY <1>3 DEF Rename, RenameErrors, At
  <2>. QED  BY <2>1, MovePublishes
<1>4. ASSUME NEW w \in Writer, Sync(w) \/ SyncFails(w) \/ Crash(w)
      PROVE  UNCHANGED <<HeadOf(committed), acked>>
  BY <1>4 DEF Sync, SyncFails, Crash
<1>. QED  BY <1>1, <1>2, <1>3, <1>4, ReleaseReports, StoreMoves DEF Authority!Next

(* Seen through the head of committed/ and the answers given, the lock,    *)
(* the staging directory, the retries and the failures disappear: the      *)
(* publisher is an append-only history to which one valid transaction at a *)
(* time is added, in which only a power loss takes anything back, and from *)
(* which every COMMITTED answer is drawn.                                  *)
THEOREM PublisherImplementsAuthority ==
    ASSUME ClockFloor >= CreatedAt, IsFiniteSet(Batch)
    PROVE  Spec => ImplementsAuthority
<1>. DEFINE V == IInv /\ CandInv /\ ValidInv /\ CallInv /\ TimeInv
<1>1. Init => V
  <2>1. ASSUME Init PROVE TimeInv
    <3>1. Chain = <<>>
      BY <2>1 DEF Init, Chain, HeadOf
    <3>. QED  BY <2>1, <3>1 DEF Init, TimeInv
  <2>. QED  BY <2>1, InvInit, ValidInit, CallInit
<1>2. V /\ [Next]_vars => V'
  BY InvStep, CandStep, ValidStep, CallInvStep, TimeStep DEF IInv
<1>3. Init => Authority!Init
  BY DEF Init, Authority!Init, HeadOf
<1>4. V /\ [Next]_vars => [Authority!Next]_<<HeadOf(committed), acked>>
  BY <1>2, StepSimulation DEF IInv
<1>. QED  BY <1>1, <1>2, <1>3, <1>4, PTL DEF Spec, ImplementsAuthority, Authority!Spec

-----------------------------------------------------------------------------
(* Whatever writers, crashes, power losses and failures do, what a reader  *)
(* finds is one valid history without a repeated batch (reconstruct), when *)
(* no clock shows a time before STORE.json was created.                    *)
THEOREM AuthorityStaysSound ==
    ASSUME ClockFloor >= CreatedAt
    PROVE  Spec => []AuthoritySound
<1>1. AuthorityReadable /\ OnePerLogicalBatch => AuthoritySound
  BY DEF AuthoritySound
<1>. QED  BY <1>1, ReadableForever, OncePerBatch, PTL

(* Both answers of publish are true, under the assumptions of ErrorIsHonest. *)
THEOREM AnswersAreTrue ==
    ASSUME ClockFloor >= CreatedAt,
           MaxFaults <= 2 \/ ~({"rename", "reader", "release"} \subseteq Faults)
    PROVE  Spec => TruthfulAnswers
  BY CommittedIsTrue, ErrorIsHonest, PTL DEF TruthfulAnswers
=============================================================================

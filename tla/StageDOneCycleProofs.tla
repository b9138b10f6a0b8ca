------------------------ MODULE StageDOneCycleProofs ------------------------
(***************************************************************************)
(* Proofs about StageDOneCycle for any number of cycles, authorizations,   *)
(* failures and any limits.  The argument: under the lock the ledger grows *)
(* in one order, intent, transmission, terminal event, so that whatever    *)
(* was checked at admission still holds when the transmission is recorded. *)
(***************************************************************************)
EXTENDS StageDOneCycle, TLAPS, FiniteSetTheorems

(* Where a cycle must own the lock; where it was admitted and has not      *)
(* recorded its transmission; where it has and the outcome is open.        *)
InLock  == {"admit", "intent", "check", "mark", "send", "answer", "reconcile",
            "receipt", "post", "received", "reopen", "publish", "release",
            "stopped"}
Pending == {"intent", "check", "mark"}
Posted  == {"send", "answer", "reconcile", "receipt", "post", "received"}

(* Where the answer is known to be a successful one. *)
Answered == {"reconcile", "receipt", "received", "reopen", "publish"}

(* What the types need beside TypeOK. *)
ReplyInv ==
    \A c \in Cycle :
       /\ reply[c].kind = "ok" => reply[c].payload \in Payload
       /\ pc[c] \in Answered => reply[c].kind = "ok"

AdjudicationInv ==
    /\ Len(adjudications) <= 2
    /\ \A c \in Cycle : bound[c].adj <= Len(adjudications)

(* A ledger with a balance has a latest one, and consumption is finite.    *)
LedgerInv ==
    /\ IsFiniteSet(Consumed(ledger))
    /\ Balances(ledger) # {} =>
          \E i \in Balances(ledger) : \A j \in Balances(ledger) : j <= i

TypeInv == TypeOK /\ ReplyInv /\ AdjudicationInv /\ LedgerInv

LockInv == \A c \in Cycle : pc[c] \in InLock => lock = c

(* The last event of the ledger is a transmission without an outcome. *)
Open(L) == L # <<>> /\ Last(L).type = "started"
Settled(L) == RequestsIn(OfType(L, Terminal))

OrderInv ==
    /\ AmbiguityBlocks
    /\ Open(ledger) => Last(ledger).request \notin Settled(ledger)
    /\ \A c \in Cycle :
       /\ pc[c] \in Pending => ~Open(ledger)
       /\ pc[c] \in {"check", "mark"} =>
             request(c) \notin Consumed(ledger) \cup Settled(ledger)
       /\ pc[c] \in Posted =>
             /\ Open(ledger)
             /\ Last(ledger).request = request(c)
             /\ Last(ledger).run = run(c)

BudgetInv ==
    /\ WithinBudget
    /\ \A e \in OfType(ledger, {"started"}) : e.at <= now
    /\ \A c \in Cycle : pc[c] \in Pending =>
          /\ Units(ledger) + 1 <= SpendLimit
          /\ UnitsOn(ledger, now) + 1 <= DailyCap

SpendInv ==
    /\ SpendAccounted
    /\ \A c \in Cycle :
          pc[c] = "send" => used + 1 <= InitialUsed + Units(ledger)

SendInv ==
    /\ OneTransmission
    /\ \A i \in DOMAIN sent : \E e \in ToSet(ledger) : e.run = run(sent[i])
    /\ \A c \in Cycle :
       /\ pc[c] \in Pending \cup {"send"} =>
             \A i \in DOMAIN sent : run(sent[i]) # run(c)
       /\ pc[c] = "send" =>
             \A i \in DOMAIN sent : request(sent[i]) # request(c)

-----------------------------------------------------------------------------
(* The kinds of step, seen by the ledger, the lock, the clock and the      *)
(* provider.                                                               *)
Core == <<ledger, lock, now, used, sent>>

Quiet(c) ==
    /\ UNCHANGED Core
    /\ \E to \in Labels \ {"intent", "check", "send"} :
          /\ Goto(c, to)
          /\ to \in InLock => lock = c
          /\ to \in Pending => pc[c] = "check"
          /\ to \in Posted => pc[c] \in Posted

Acquiring(c) ==
    /\ lock = None /\ lock' = c
    /\ Goto(c, "admit")
    /\ UNCHANGED <<ledger, now, used, sent>>

Admitting(c) ==
    /\ At(c, "admit") /\ Admissible(c)
    /\ Goto(c, "intent")
    /\ UNCHANGED Core

Recording(c, e, to) ==
    /\ ledger' = Append(ledger, e)
    /\ Goto(c, to)
    /\ UNCHANGED <<lock, now, used, sent>>

Intending(c) ==
    /\ At(c, "intent") /\ FreshRequest(c)
    /\ \E to \in {"check", "stopped"} : Recording(c, EventOf(c, "intent"), to)

Marking(c) ==
    /\ At(c, "mark")
    /\ \E to \in {"send", "stopped"} : Recording(c, StartEvent(c), to)

Settling(c) ==
    /\ pc[c] \in {"check"} \cup (Posted \ {"send"})
    /\ \E e \in Event, to \in {"release", "reopen", "stopped"} :
          /\ e.type \in Terminal /\ e.request = request(c)
          /\ Recording(c, e, to)

Sending(c) ==
    /\ At(c, "send")
    /\ sent' = Append(sent, c)
    /\ used' \in {used, used + 1}
    /\ Goto(c, "answer")
    /\ UNCHANGED <<ledger, lock, now>>

Releasing(c) ==
    /\ lock = c /\ lock' = None
    /\ pc[c] \in {"release", "stopped"} /\ Goto(c, "ended")
    /\ UNCHANGED <<ledger, now, used, sent>>

Waiting ==
    /\ now' \in {now, now + 1}
    /\ UNCHANGED <<ledger, lock, used, sent, pc>>

Kind(c) == \/ Quiet(c) \/ Acquiring(c) \/ Admitting(c) \/ Intending(c)
           \/ Marking(c) \/ Settling(c) \/ Sending(c) \/ Releasing(c)

Move == Waiting \/ \E c \in Cycle : Kind(c)

-----------------------------------------------------------------------------
LEMMA EventFacts ==
    ASSUME TypeOK, NEW c \in Cycle
    PROVE  /\ run(c) \in Run /\ request(c) \in Request
           /\ \A t \in {"intent", "started"} \cup Terminal :
                 EventOf(c, t) \in Event
           /\ StartEvent(c) \in Event
           /\ PostEvent(c) \in Event
           /\ \A q \in Nat :
                 [EventOf(c, "received") EXCEPT !.quota = q] \in Event
<1>1. run(c) \in Run /\ request(c) \in Request
  BY AuthorizationAssumption DEF run, request, Run, Request
<1>2. reply[c].quota \in Nat /\ class[c] \in Class /\ now \in Nat
  BY DEF TypeOK
<1>. QED
  BY <1>1, <1>2 DEF EventOf, StartEvent, PostEvent, Event, Terminal, Class

(* Every action is one of the kinds of step.                               *)
LEMMA Moves == TypeInv /\ LockInv /\ [Next]_vars => Move
<1>. SUFFICES ASSUME TypeInv, LockInv, [Next]_vars PROVE Move
  OBVIOUS
<1>. USE DEF TypeInv, TypeOK, Core, vars, evidence, owner, provider, local
<1>1. ASSUME NEW c \in Cycle,
             \/ Start(c) \/ Refuse(c) \/ Consume(c) \/ ConsumeFails(c)
             \/ LockBusy(c) \/ Deny(c) \/ AdmitFails(c) \/ IntentRejected(c)
             \/ Check(c)
      PROVE  Quiet(c)
  BY SMTT(40), <1>1 DEF Quiet, Start, Refuse, Consume, ConsumeFails, LockBusy, Deny,
     AdmitFails, IntentRejected, Check, OnlyLedger, Stop, End, Goto, At,
     LockInv, InLock, Pending, Posted, Labels
<1>2. ASSUME NEW c \in Cycle,
             \/ SendRefused(c) \/ PersistRaw(c) \/ PersistRawFails(c)
             \/ Reconcile(c) \/ Diverge(c)
             \/ PersistReceipt(c) \/ PersistReceiptFails(c)
      PROVE  Quiet(c)
  BY <1>2 DEF Quiet, SendRefused, PersistRaw, PersistRawFails, Reconcile,
     Diverge, PersistReceipt, PersistReceiptFails, Answer, Failed, Goto, At,
     LockInv, InLock, Pending, Posted, Labels
<1>3. ASSUME NEW c \in Cycle,
             \/ Reopen(c) \/ Duplicate(c) \/ ReopenFails(c) \/ BuildFails(c)
             \/ Publish(c) \/ PublishFails(c) \/ ReleaseFails(c)
      PROVE  Quiet(c)
  BY SMTT(40), <1>3 DEF Quiet, Reopen, Duplicate, ReopenFails, BuildFails, Publish,
     PublishFails, ReleaseFails, Stop, End, Goto, At,
     LockInv, InLock, Pending, Posted, Labels
<1>4. ASSUME NEW c \in Cycle, Crash(c)
      PROVE  Quiet(c)
  <2>1. CASE lock = c
    <3>1. Goto(c, "stopped") /\ UNCHANGED Core
      BY <1>4, <2>1 DEF Crash, End
    <3>. QED  BY <2>1, <3>1 DEF Quiet, Pending, Posted, Labels
  <2>2. CASE lock # c
    <3>1. Goto(c, "ended") /\ UNCHANGED Core
      BY <1>4, <2>2 DEF Crash, End
    <3>. QED  BY <3>1 DEF Quiet, InLock, Pending, Posted, Labels
  <2>. QED  BY <2>1, <2>2
<1>5. ASSUME NEW c \in Cycle, Acquire(c)
      PROVE  Acquiring(c)
  BY <1>5 DEF Acquire, Acquiring, LockFree
<1>6. ASSUME NEW c \in Cycle, Admit(c)
      PROVE  Admitting(c)
  BY <1>6 DEF Admit, Admitting
<1>7. ASSUME NEW c \in Cycle, NEW e, NEW to \in Labels,
             Record(c, e, to), OnlyLedger, pc[c] \in InLock
      PROVE  Quiet(c) \/ \E t \in {to, "stopped"} : Recording(c, e, t)
  BY <1>7 DEF Record, OnlyLedger, Quiet, Recording, Stop, End, Goto,
     LockInv, InLock, Pending, Posted, Labels
<1>8. ASSUME NEW c \in Cycle, Intend(c) \/ Cancel(c) \/ Mark(c)
      PROVE  Kind(c)
  <2>1. CASE Intend(c)
    <3>1. Quiet(c) \/ \E t \in {"check", "stopped"} :
                         Recording(c, EventOf(c, "intent"), t)
      BY <2>1, <1>7 DEF Intend, At, InLock, Labels
    <3>. QED  BY <2>1, <3>1 DEF Kind, Intending, Intend
  <2>2. CASE Mark(c)
    <3>1. Quiet(c) \/ \E t \in {"send", "stopped"} :
                         Recording(c, StartEvent(c), t)
      BY <2>2, <1>7 DEF Mark, At, InLock, Labels
    <3>. QED  BY <2>2, <3>1 DEF Kind, Marking, Mark
  <2>3. CASE Cancel(c)
    <3>1. Quiet(c) \/ \E t \in {"release", "stopped"} :
                         Recording(c, EventOf(c, "cancelled"), t)
      BY <2>3, <1>7 DEF Cancel, At, InLock, Labels
    <3>2. EventOf(c, "cancelled") \in Event
      BY EventFacts DEF Terminal
    <3>. QED
      BY <2>3, <3>1, <3>2
      DEF Kind, Settling, Cancel, At, Terminal, EventOf
  <2>. QED  BY <1>8, <2>1, <2>2, <2>3
<1>9. ASSUME NEW c \in Cycle, TransmissionFailed(c) \/ PostFailed(c) \/ Receive(c)
      PROVE  Kind(c)
  <2>. DEFINE To == {"release", "reopen", "stopped"}
  <2>0. ASSUME NEW e \in Event, NEW t \in To, NEW label \in Posted \ {"send"},
               e.type \in Terminal, e.request = request(c),
               Recording(c, e, t), At(c, label)
        PROVE  Kind(c)
    BY <2>0 DEF Kind, Settling, At
  <2>1. CASE TransmissionFailed(c)
    <3>. DEFINE e == EventOf(c, reply[c].kind)
    <3>1. e \in Event /\ e.type \in Terminal /\ e.request = request(c)
      BY <2>1, EventFacts DEF TransmissionFailed, Terminal, EventOf
    <3>2. Quiet(c) \/ \E t \in {"release", "stopped"} : Recording(c, e, t)
      BY <2>1, <1>7 DEF TransmissionFailed, At, InLock, Labels
    <3>3. At(c, "answer") /\ "answer" \in Posted \ {"send"}
      BY <2>1 DEF TransmissionFailed, Posted
    <3>. QED  BY <3>1, <3>2, <3>3, <2>0 DEF Kind
  <2>2. CASE PostFailed(c)
    <3>. DEFINE e == PostEvent(c)
    <3>1. e \in Event /\ e.type \in Terminal /\ e.request = request(c)
      BY EventFacts DEF PostEvent, Terminal, EventOf
    <3>2. Quiet(c) \/ \E t \in {"release", "stopped"} : Recording(c, e, t)
      BY <2>2, <1>7 DEF PostFailed, At, InLock, Labels
    <3>3. At(c, "post") /\ "post" \in Posted \ {"send"}
      BY <2>2 DEF PostFailed, Posted
    <3>. QED  BY <3>1, <3>2, <3>3, <2>0 DEF Kind
  <2>3. CASE Receive(c)
    <3>. DEFINE e == [EventOf(c, "received") EXCEPT !.quota = reply[c].quota]
    <3>0. reply[c].quota \in Nat
      OBVIOUS
    <3>1. e \in Event /\ e.type \in Terminal /\ e.request = request(c)
      BY <3>0, EventFacts DEF Terminal, EventOf
    <3>2. Quiet(c) \/ \E t \in {"reopen", "stopped"} : Recording(c, e, t)
      BY <2>3, <1>7 DEF Receive, At, InLock, Labels
    <3>3. At(c, "received") /\ "received" \in Posted \ {"send"}
      BY <2>3 DEF Receive, Posted
    <3>. QED  BY <3>1, <3>2, <3>3, <2>0 DEF Kind
  <2>. QED  BY <1>9, <2>1, <2>2, <2>3
<1>10. ASSUME NEW c \in Cycle, Send(c)
       PROVE  Sending(c)
  BY <1>10 DEF Send, Sending, Answer
<1>11. ASSUME NEW c \in Cycle, Release(c)
       PROVE  Releasing(c)
  BY <1>11 DEF Release, Releasing, End, At, LockInv, InLock
<1>12. ASSUME Clear
       PROVE  \E c \in Cycle : Releasing(c)
  BY <1>12 DEF Clear, Releasing
<1>13. CASE \/ Draft \/ PersistDraft \/ ChangeSource \/ Tick \/ OtherPublish
            \/ UNCHANGED vars
  BY <1>13 DEF Move, Waiting, Draft, PersistDraft, ChangeSource, Tick,
     OtherPublish
<1>. QED
  <2>1. ASSUME NEW c \in Cycle, Kind(c)
        PROVE  Move
    BY <2>1 DEF Move
  <2>2. CASE Clear
    BY <2>2, <1>12 DEF Move, Kind
  <2>. QED
    BY <1>1, <1>2, <1>3, <1>4, <1>5, <1>6, <1>8, <1>9, <1>10, <1>11, <1>13,
       <2>1, <2>2 DEF Next, Kind

-----------------------------------------------------------------------------
(* Appending to the ledger. *)
LEMMA AppendFacts ==
    ASSUME NEW L \in Seq(Event), NEW e \in Event
    PROVE  /\ Append(L, e) \in Seq(Event) /\ Append(L, e) # <<>>
           /\ Len(Append(L, e)) = Len(L) + 1 /\ Last(Append(L, e)) = e
           /\ \A i \in DOMAIN L : i \in DOMAIN Append(L, e)
                                  /\ Append(L, e)[i] = L[i]
           /\ ToSet(Append(L, e)) = ToSet(L) \cup {e}
           /\ \A x \in ToSet(L) : x \in Event
  BY DEF ToSet, Last

(* The requests of some types after an append. *)
LEMMA AppendRequests ==
    ASSUME NEW L \in Seq(Event), NEW e \in Event, NEW T
    PROVE  /\ e.type \in T =>
                 /\ OfType(Append(L, e), T) = OfType(L, T) \cup {e}
                 /\ RequestsIn(OfType(Append(L, e), T)) =
                       RequestsIn(OfType(L, T)) \cup {e.request}
           /\ e.type \notin T => OfType(Append(L, e), T) = OfType(L, T)
<1>1. ToSet(Append(L, e)) = ToSet(L) \cup {e}
  BY AppendFacts
<1>2. e.type \in T => OfType(Append(L, e), T) = OfType(L, T) \cup {e}
  BY <1>1 DEF OfType
<1>3. e.type \notin T => OfType(Append(L, e), T) = OfType(L, T)
  BY <1>1 DEF OfType
<1>. QED  BY <1>2, <1>3 DEF RequestsIn

LEMMA AppendConsumed ==
    ASSUME NEW L \in Seq(Event), NEW e \in Event, IsFiniteSet(Consumed(L))
    PROVE  /\ IsFiniteSet(Consumed(Append(L, e)))
           /\ Units(L) \in Nat
           /\ e.type # "started" => Consumed(Append(L, e)) = Consumed(L)
                                    /\ Units(Append(L, e)) = Units(L)
           /\ e.type = "started" =>
                 /\ Consumed(Append(L, e)) = Consumed(L) \cup {e.request}
                 /\ e.request \notin Consumed(L) =>
                       Units(Append(L, e)) = Units(L) + 1
<1>1. e.type # "started" => Consumed(Append(L, e)) = Consumed(L)
  BY AppendRequests DEF Consumed
<1>2. e.type = "started" =>
         Consumed(Append(L, e)) = Consumed(L) \cup {e.request}
  BY AppendRequests DEF Consumed
<1>3. IsFiniteSet(Consumed(L) \cup {e.request})
  BY FS_AddElement
<1>4. e.request \notin Consumed(L) =>
         Cardinality(Consumed(L) \cup {e.request}) = Units(L) + 1
  BY FS_AddElement DEF Units
<1>5. Units(L) \in Nat
  BY FS_CardinalityType DEF Units
<1>. QED  BY <1>1, <1>2, <1>3, <1>4, <1>5 DEF Units

(* What is consumed on one day after an append.                            *)
OnDay(L, day) == RequestsIn({e \in OfType(L, {"started"}) : e.at = day})

LEMMA DayFinite ==
    ASSUME NEW L \in Seq(Event), IsFiniteSet(Consumed(L)), NEW day
    PROVE  /\ IsFiniteSet(OnDay(L, day))
           /\ UnitsOn(L, day) = Cardinality(OnDay(L, day))
           /\ UnitsOn(L, day) \in Nat
<1>1. OnDay(L, day) \in SUBSET Consumed(L)
  BY DEF OnDay, Consumed, RequestsIn
<1>2. IsFiniteSet(OnDay(L, day))
  BY <1>1, FS_Subset
<1>3. UnitsOn(L, day) = Cardinality(OnDay(L, day))
  BY DEF UnitsOn, OnDay
<1>. QED  BY <1>2, <1>3, FS_CardinalityType

LEMMA AppendDay ==
    ASSUME NEW L \in Seq(Event), NEW e \in Event, IsFiniteSet(Consumed(L)),
           NEW day
    PROVE  /\ e.type # "started" \/ e.at # day =>
                 UnitsOn(Append(L, e), day) = UnitsOn(L, day)
           /\ UnitsOn(Append(L, e), day) <= UnitsOn(L, day) + 1
<1>. DEFINE D == OnDay(L, day)
            D2 == OnDay(Append(L, e), day)
<1>1. IsFiniteSet(D) /\ UnitsOn(L, day) = Cardinality(D)
      /\ UnitsOn(L, day) \in Nat
  BY DayFinite
<1>2. UnitsOn(Append(L, e), day) = Cardinality(D2)
  BY DEF UnitsOn, OnDay
<1>3. e.type # "started" \/ e.at # day => D2 = D
  BY AppendRequests DEF OnDay, RequestsIn
<1>4. e.type = "started" /\ e.at = day => D2 = D \cup {e.request}
  BY AppendRequests DEF OnDay, RequestsIn
<1>. HIDE DEF D, D2
<1>a. Cardinality(D \cup {e.request}) =
         IF e.request \in D THEN Cardinality(D) ELSE Cardinality(D) + 1
  BY <1>1, FS_AddElement, Zenon
<1>5. Cardinality(D \cup {e.request}) \in {Cardinality(D), Cardinality(D) + 1}
  BY <1>a
<1>6. Cardinality(D2) <= Cardinality(D) + 1
  <2>1. CASE e.type # "started" \/ e.at # day
    <3>1. Cardinality(D2) = Cardinality(D)
      BY <2>1, <1>3, Zenon
    <3>. QED  BY <3>1, <1>1
  <2>2. CASE e.type = "started" /\ e.at = day
    <3>1. Cardinality(D2) = Cardinality(D \cup {e.request})
      BY <2>2, <1>4, Zenon
    <3>. QED  BY <3>1, <1>1, <1>5
  <2>. QED  BY <2>1, <2>2
<1>. QED  BY <1>1, <1>2, <1>3, <1>6

-----------------------------------------------------------------------------
(* A step leaves the ledger alone or appends one event to it.              *)
LEMMA LedgerMoves ==
    ASSUME TypeOK, Move
    PROVE  ledger' = ledger \/ \E e \in Event : ledger' = Append(ledger, e)
<1>1. CASE Waiting
  BY <1>1 DEF Waiting
<1>2. ASSUME NEW c \in Cycle, Kind(c)
      PROVE  ledger' = ledger \/ \E e \in Event : ledger' = Append(ledger, e)
  <2>1. CASE Intending(c)
    <3>1. EventOf(c, "intent") \in Event
      BY EventFacts
    <3>. QED  BY <2>1, <3>1 DEF Intending, Recording
  <2>2. CASE Marking(c)
    <3>1. StartEvent(c) \in Event
      BY EventFacts
    <3>. QED  BY <2>2, <3>1 DEF Marking, Recording
  <2>3. CASE Settling(c)
    BY <2>3 DEF Settling, Recording
  <2>4. CASE \/ Quiet(c) \/ Acquiring(c) \/ Admitting(c) \/ Sending(c)
             \/ Releasing(c)
    BY <2>4 DEF Quiet, Acquiring, Admitting, Sending, Releasing, Core
  <2>. QED  BY <1>2, <2>1, <2>2, <2>3, <2>4 DEF Kind
<1>. QED  BY <1>1, <1>2 DEF Move

LEMMA LedgerStep == TypeOK /\ LedgerInv /\ Move => LedgerInv'
<1>. SUFFICES ASSUME TypeOK, LedgerInv, Move PROVE LedgerInv'
  OBVIOUS
<1>1. CASE ledger' = ledger
  BY <1>1 DEF LedgerInv, Consumed, OfType, RequestsIn, Balances
<1>2. ASSUME NEW e \in Event, ledger' = Append(ledger, e)
      PROVE  LedgerInv'
  <2>0. ledger \in Seq(Event)
    BY DEF TypeOK
  <2>1. IsFiniteSet(Consumed(Append(ledger, e)))
    BY <2>0, AppendConsumed DEF LedgerInv
  <2>2. \/ Balances(Append(ledger, e)) = {}
        \/ \E i \in Balances(Append(ledger, e)) :
              \A j \in Balances(Append(ledger, e)) : j <= i
    <3>1. CASE e.quota # 0
      <4>1. Len(ledger) + 1 \in Balances(Append(ledger, e))
        BY <2>0, <3>1 DEF Balances
      <4>2. \A j \in Balances(Append(ledger, e)) : j <= Len(ledger) + 1
        BY <2>0 DEF Balances
      <4>. QED  BY <4>1, <4>2
    <3>2. CASE e.quota = 0
      <4>1. Balances(Append(ledger, e)) = Balances(ledger)
        BY <2>0, <3>2 DEF Balances
      <4>2. Balances(ledger) = {} \/
               \E i \in Balances(ledger) : \A j \in Balances(ledger) : j <= i
        BY DEF LedgerInv
      <4>. QED  BY <4>1, <4>2, Zenon
    <3>. QED  BY <3>1, <3>2
  <2>3. IsFiniteSet(Consumed(ledger'))
    BY <1>2, <2>1
  <2>4. Balances(ledger') # {} =>
           \E i \in Balances(ledger') : \A j \in Balances(ledger') : j <= i
    BY <1>2, <2>2
  <2>. QED
    BY <2>3, <2>4 DEF LedgerInv, Consumed, OfType, RequestsIn, Balances
<1>. QED  BY <1>1, <1>2, LedgerMoves

LEMMA LockStep == TypeOK /\ LockInv /\ Move => LockInv'
<1>. SUFFICES ASSUME TypeOK, LockInv, Move PROVE LockInv'
  OBVIOUS
<1>. USE DEF TypeOK, LockInv, InLock, Goto
<1>1. CASE Waiting
  BY <1>1 DEF Waiting
<1>2. ASSUME NEW c \in Cycle, Kind(c)
      PROVE  LockInv'
  <2>1. CASE Quiet(c)
    BY <2>1 DEF Quiet, Core
  <2>2. CASE Acquiring(c)
    BY <2>2, AuthorizationAssumption DEF Acquiring
  <2>3. CASE Admitting(c)
    BY <2>3 DEF Admitting, Core, At
  <2>4. CASE Intending(c)
    BY <2>4 DEF Intending, Recording, At
  <2>5. CASE Marking(c)
    BY <2>5 DEF Marking, Recording, At
  <2>6. CASE Settling(c)
    BY <2>6 DEF Settling, Recording, Posted
  <2>7. CASE Sending(c)
    BY <2>7 DEF Sending, At
  <2>8. CASE Releasing(c)
    BY <2>8, AuthorizationAssumption DEF Releasing
  <2>. QED
    BY <1>2, <2>1, <2>2, <2>3, <2>4, <2>5, <2>6, <2>7, <2>8 DEF Kind
<1>. QED  BY <1>1, <1>2 DEF Move

-----------------------------------------------------------------------------
(* The order of the ledger.                                                *)
LEMMA LastFacts ==
    ASSUME NEW L \in Seq(Event), Open(L)
    PROVE  Last(L).request \in Consumed(L) /\ Last(L) \in ToSet(L)
<1>1. Len(L) \in DOMAIN L
  BY DEF Open
<1>2. Last(L) \in ToSet(L)
  BY <1>1 DEF ToSet, Last
<1>. QED  BY <1>2 DEF Open, Consumed, OfType, RequestsIn

LEMMA AppendBlocks ==
    ASSUME TypeOK, AmbiguityBlocks, NEW e \in Event,
           ledger' = Append(ledger, e),
           Open(ledger) => e.type \in Terminal /\ e.request = Last(ledger).request
    PROVE  AmbiguityBlocks'
<1>0. ledger \in Seq(Event)
  BY DEF TypeOK
<1>1. /\ Len(ledger') = Len(ledger) + 1 /\ Len(ledger) \in Nat
      /\ DOMAIN ledger' = 1..(Len(ledger) + 1)
      /\ DOMAIN ledger = 1..Len(ledger)
      /\ \A i \in DOMAIN ledger : ledger'[i] = ledger[i]
      /\ ledger'[Len(ledger) + 1] = e
  BY <1>0
<1>. SUFFICES ASSUME NEW i \in DOMAIN ledger', ledger'[i].type = "started",
                     i # Len(ledger')
              PROVE  /\ ledger'[i+1].type \in Terminal
                     /\ ledger'[i+1].request = ledger'[i].request
  BY SMTT(40) DEF AmbiguityBlocks
<1>2. i \in DOMAIN ledger /\ ledger[i].type = "started" /\ i \in Nat
  BY <1>1
<1>3. CASE i = Len(ledger)
  <2>0. ledger # <<>>
    BY <1>0, <1>2
  <2>1. Open(ledger) /\ Last(ledger) = ledger[i]
    BY <2>0, <1>2, <1>3 DEF Open, Last
  <2>. QED  BY <1>1, <1>2, <1>3, <2>1
<1>4. CASE i # Len(ledger)
  <2>1. /\ ledger[i+1].type \in Terminal
        /\ ledger[i+1].request = ledger[i].request
    BY <1>2, <1>4 DEF AmbiguityBlocks
  <2>2. i + 1 \in DOMAIN ledger
    BY <1>1, <1>2, <1>4
  <2>. QED  BY <1>1, <1>2, <2>1, <2>2
<1>. QED  BY <1>3, <1>4

(* Only one cycle is past the lock.                                        *)
LEMMA Alone ==
    ASSUME LockInv, NEW c \in Cycle, NEW d \in Cycle,
           pc[c] \in InLock, pc[d] \in InLock
    PROVE  c = d
  BY DEF LockInv

LEMMA Where == Pending \subseteq InLock /\ Posted \subseteq InLock
  BY DEF Pending, Posted, InLock

(* What OrderInv says of one cycle. *)
Ordered(c) ==
    /\ pc[c] \in Pending => ~Open(ledger)
    /\ pc[c] \in {"check", "mark"} =>
          request(c) \notin Consumed(ledger) \cup Settled(ledger)
    /\ pc[c] \in Posted =>
          /\ Open(ledger)
          /\ Last(ledger).request = request(c)
          /\ Last(ledger).run = run(c)

LEMMA OrderStep ==
    TypeOK /\ LockInv /\ OrderInv /\ Move => OrderInv'
<1>. SUFFICES ASSUME TypeOK, LockInv, OrderInv, Move PROVE OrderInv'
  OBVIOUS
<1>0. ledger \in Seq(Event) /\ pc \in [Cycle -> Labels]
  BY DEF TypeOK
<1>o. \A d \in Cycle : Ordered(d)
  BY DEF OrderInv, Ordered
<1>a. ASSUME ledger' = ledger, \A d \in Cycle : Ordered(d)'
      PROVE  OrderInv'
  <2>1. AmbiguityBlocks'
    BY <1>a DEF OrderInv, AmbiguityBlocks
  <2>2. (Open(ledger) => Last(ledger).request \notin Settled(ledger))'
    BY <1>a DEF OrderInv
  <2>. QED  BY <2>1, <2>2, <1>a DEF OrderInv, Ordered
<1>1. CASE Waiting
  <2>1. ledger' = ledger /\ pc' = pc
    BY <1>1 DEF Waiting
  <2>2. \A d \in Cycle : Ordered(d)'
    BY <2>1, <1>o DEF Ordered
  <2>. QED  BY <2>1, <2>2, <1>a
<1>2. ASSUME NEW c \in Cycle, Kind(c)
      PROVE  OrderInv'
  <2>a. ASSUME NEW to, Goto(c, to), NEW d \in Cycle
        PROVE  pc'[d] = IF d = c THEN to ELSE pc[d]
    BY <2>a, <1>0 DEF Goto
  <2>b. ASSUME pc[c] \in InLock, NEW d \in Cycle \ {c}
        PROVE  pc[d] \notin Pending \cup Posted
    BY <2>b, Alone, Where
  <2>1. CASE Quiet(c)
    <3>1. PICK to \in Labels \ {"intent", "check", "send"} :
                /\ Goto(c, to)
                /\ to \in Pending => pc[c] = "check"
                /\ to \in Posted => pc[c] \in Posted
      BY <2>1 DEF Quiet
    <3>2. ledger' = ledger
      BY <2>1 DEF Quiet, Core
    <3>3. ASSUME NEW d \in Cycle PROVE Ordered(d)'
      <4>1. pc'[d] = IF d = c THEN to ELSE pc[d]
        BY <3>1, <2>a
      <4>. QED  BY <4>1, <3>1, <3>2, <1>o DEF Ordered, Pending, Posted
    <3>. QED  BY <3>2, <3>3, <1>a
  <2>2. CASE Acquiring(c) \/ Sending(c) \/ Releasing(c)
    <3>1. PICK to \in {"admit", "answer", "ended"} :
                /\ Goto(c, to)
                /\ to = "answer" => pc[c] = "send"
      BY <2>2 DEF Acquiring, Sending, Releasing, At
    <3>2. ledger' = ledger
      BY <2>2 DEF Acquiring, Sending, Releasing
    <3>3. ASSUME NEW d \in Cycle PROVE Ordered(d)'
      <4>1. pc'[d] = IF d = c THEN to ELSE pc[d]
        BY <3>1, <2>a
      <4>. QED  BY <4>1, <3>1, <3>2, <1>o DEF Ordered, Pending, Posted
    <3>. QED  BY <3>2, <3>3, <1>a
  <2>3. CASE Admitting(c)
    <3>1. Goto(c, "intent") /\ ledger' = ledger /\ Ambiguous(ledger) = {}
      BY <2>3 DEF Admitting, Core, Admissible, LedgerSettled
    <3>2. ~Open(ledger)
      <4>. SUFFICES ASSUME Open(ledger) PROVE FALSE
        OBVIOUS
      <4>1. Last(ledger).request \in Consumed(ledger)
        BY <1>0, LastFacts
      <4>2. Last(ledger).request \notin Settled(ledger)
        BY DEF OrderInv
      <4>. QED  BY <4>1, <4>2, <3>1 DEF Ambiguous, Settled
    <3>3. ASSUME NEW d \in Cycle PROVE Ordered(d)'
      <4>1. pc'[d] = IF d = c THEN "intent" ELSE pc[d]
        BY <3>1, <2>a
      <4>. QED  BY <4>1, <3>1, <3>2, <1>o DEF Ordered, Pending, Posted
    <3>. QED  BY <3>1, <3>3, <1>a
  <2>4. CASE Intending(c)
    <3>. DEFINE e == EventOf(c, "intent")
    <3>1. PICK to \in {"check", "stopped"} : Recording(c, e, to)
      BY <2>4 DEF Intending
    <3>2. e \in Event /\ e.type = "intent" /\ "intent" \notin Terminal
      BY EventFacts DEF EventOf, Terminal
    <3>. HIDE DEF e
    <3>3. pc[c] = "intent" /\ ledger' = Append(ledger, e) /\ Goto(c, to)
      BY <2>4, <3>1 DEF Intending, At, Recording
    <3>4. ~Open(ledger)
      BY <3>3, <1>o DEF Ordered, Pending
    <3>5. AmbiguityBlocks'
      BY <3>2, <3>3, <3>4, AppendBlocks DEF OrderInv
    <3>6. ~Open(ledger')
      BY <3>2, <3>3, <1>0, AppendFacts DEF Open
    <3>7. Consumed(ledger') = Consumed(ledger) /\ Settled(ledger') = Settled(ledger)
      BY <3>2, <3>3, <1>0, AppendRequests DEF Consumed, Settled
    <3>8. request(c) \notin Consumed(ledger) \cup Settled(ledger)
      BY <2>4 DEF Intending, FreshRequest, Consumed, Settled, OfType, RequestsIn
    <3>9. ASSUME NEW d \in Cycle PROVE Ordered(d)'
      <4>1. pc'[d] = IF d = c THEN to ELSE pc[d]
        BY <3>3, <2>a
      <4>2. d # c => pc[d] \notin Pending \cup Posted
        BY <3>3, <2>b DEF InLock
      <4>. QED
        BY <4>1, <4>2, <3>1, <3>6, <3>7, <3>8 DEF Ordered, Pending, Posted
    <3>. QED  BY <3>5, <3>6, <3>9 DEF OrderInv, Ordered
  <2>5. CASE Marking(c)
    <3>. DEFINE e == StartEvent(c)
    <3>1. PICK to \in {"send", "stopped"} : Recording(c, e, to)
      BY <2>5 DEF Marking
    <3>2. /\ e \in Event /\ e.type = "started" /\ "started" \notin Terminal
          /\ e.request = request(c) /\ e.run = run(c)
      BY EventFacts DEF StartEvent, EventOf, Terminal
    <3>. HIDE DEF e
    <3>3. pc[c] = "mark" /\ ledger' = Append(ledger, e) /\ Goto(c, to)
      BY <2>5, <3>1 DEF Marking, At, Recording
    <3>4. ~Open(ledger) /\ request(c) \notin Consumed(ledger) \cup Settled(ledger)
      BY <3>3, <1>o DEF Ordered, Pending
    <3>5. AmbiguityBlocks'
      BY <3>2, <3>3, <3>4, AppendBlocks DEF OrderInv
    <3>6. Open(ledger') /\ Last(ledger') = e
      BY <3>2, <3>3, <1>0, AppendFacts DEF Open
    <3>7. Settled(ledger') = Settled(ledger)
      BY <3>2, <3>3, <1>0, AppendRequests DEF Settled
    <3>9. ASSUME NEW d \in Cycle PROVE Ordered(d)'
      <4>1. pc'[d] = IF d = c THEN to ELSE pc[d]
        BY <3>3, <2>a
      <4>2. d # c => pc[d] \notin Pending \cup Posted
        BY <3>3, <2>b DEF InLock
      <4>. QED
        BY <4>1, <4>2, <3>1, <3>2, <3>6, <3>7 DEF Ordered, Pending, Posted
    <3>. QED
      BY <3>2, <3>4, <3>5, <3>6, <3>7, <3>9 DEF OrderInv, Ordered
  <2>6. CASE Settling(c)
    <3>1. PICK e \in Event, to \in {"release", "reopen", "stopped"} :
                /\ e.type \in Terminal /\ e.request = request(c)
                /\ Recording(c, e, to)
      BY <2>6 DEF Settling
    <3>3. /\ pc[c] \in {"check"} \cup Posted
          /\ ledger' = Append(ledger, e) /\ Goto(c, to)
          /\ e.type # "started"
      BY <2>6, <3>1 DEF Settling, Recording, Terminal
    <3>4. Open(ledger) => e.request = Last(ledger).request
      BY <3>1, <3>3, <1>o DEF Ordered, Pending
    <3>5. AmbiguityBlocks'
      BY <3>1, <3>3, <3>4, AppendBlocks DEF OrderInv
    <3>6. ~Open(ledger')
      BY <3>3, <1>0, AppendFacts DEF Open
    <3>9. ASSUME NEW d \in Cycle PROVE Ordered(d)'
      <4>1. pc'[d] = IF d = c THEN to ELSE pc[d]
        BY <3>3, <2>a
      <4>2. d # c => pc[d] \notin Pending \cup Posted
        BY <3>3, <2>b DEF InLock, Posted
      <4>. QED  BY <4>1, <4>2, <3>1 DEF Ordered, Pending, Posted
    <3>. QED  BY <3>5, <3>6, <3>9 DEF OrderInv, Ordered
  <2>. QED  BY <1>2, <2>1, <2>2, <2>3, <2>4, <2>5, <2>6 DEF Kind
<1>. QED  BY <1>1, <1>2 DEF Move

-----------------------------------------------------------------------------
(* The budget.                                                             *)
Room ==
    /\ Units(ledger) + 1 <= SpendLimit
    /\ UnitsOn(ledger, now) + 1 <= DailyCap

LEMMA UsageFacts ==
    ASSUME TypeInv, NEW a \in 0..Len(adjudications)
    PROVE  /\ Units(ledger) \in Nat
           /\ Usage(ledger, a) \in Nat
           /\ Units(ledger) <= Usage(ledger, a)
<1>1. Units(ledger) \in Nat
  BY FS_CardinalityType DEF TypeInv, LedgerInv, Units
<1>2. a # 0 => adjudications[a].usage \in Nat
  <2>1. adjudications \in Seq(Adjudication)
    BY DEF TypeInv, TypeOK
  <2>2. a # 0 => adjudications[a] \in Adjudication
    BY <2>1
  <2>. QED  BY <2>2 DEF Adjudication
<1>. QED  BY <1>1, <1>2 DEF Usage, Larger

LEMMA BudgetStep ==
    TypeInv /\ LockInv /\ OrderInv /\ BudgetInv /\ Move => BudgetInv'
<1>. SUFFICES ASSUME TypeInv, LockInv, OrderInv, BudgetInv, Move
              PROVE  BudgetInv'
  OBVIOUS
<1>0. /\ ledger \in Seq(Event) /\ pc \in [Cycle -> Labels] /\ now \in Nat
      /\ IsFiniteSet(Consumed(ledger))
  BY DEF TypeInv, TypeOK, LedgerInv
<1>u. Units(ledger) \in Nat /\ \A day : UnitsOn(ledger, day) \in Nat
  BY <1>0, DayFinite, FS_CardinalityType DEF Units
<1>n. SpendLimit \in Nat /\ DailyCap \in Nat
  BY QuotaAssumption
<1>b. /\ Units(ledger) <= SpendLimit
      /\ \A e \in OfType(ledger, {"started"}) :
            e.at <= now /\ UnitsOn(ledger, e.at) <= DailyCap
      /\ \A d \in Cycle : pc[d] \in Pending => Room
  BY DEF BudgetInv, WithinBudget, Room
<1>g. ASSUME NEW c \in Cycle, NEW to, Goto(c, to), NEW d \in Cycle
      PROVE  pc'[d] = IF d = c THEN to ELSE pc[d]
  BY <1>g, <1>0 DEF Goto
<1>a. ASSUME ledger' = ledger, now' = now,
             \A d \in Cycle : pc'[d] \in Pending => Room
      PROVE  BudgetInv'
  BY <1>a, <1>b DEF BudgetInv, WithinBudget, Room
<1>t. ASSUME NEW e \in Event, ledger' = Append(ledger, e), now' = now,
             e.type # "started",
             \A d \in Cycle : pc'[d] \in Pending => Room
      PROVE  BudgetInv'
  <2>1. Units(ledger') = Units(ledger)
    BY <1>0, <1>t, AppendConsumed
  <2>2. \A day : UnitsOn(ledger', day) = UnitsOn(ledger, day)
    BY <1>0, <1>t, AppendDay
  <2>3. OfType(ledger', {"started"}) = OfType(ledger, {"started"})
    BY <1>0, <1>t, AppendRequests
  <2>. QED
    BY <2>1, <2>2, <2>3, <1>t, <1>b DEF BudgetInv, WithinBudget, Room
<1>1. CASE Waiting
  <2>1. ledger' = ledger /\ pc' = pc /\ now' \in {now, now + 1}
    BY <1>1 DEF Waiting
  <2>2. CASE now' = now
    BY <2>1, <2>2, <1>a, <1>b
  <2>3. CASE now' = now + 1
    <3>1. UnitsOn(ledger, now + 1) = 0
      <4>1. {e \in OfType(ledger, {"started"}) : e.at = now + 1} = {}
        BY <1>b, <1>0
      <4>. QED  BY <4>1, FS_EmptySet DEF UnitsOn, RequestsIn
    <3>2. \A d \in Cycle : pc[d] \in Pending =>
              Units(ledger) + 1 <= SpendLimit /\ 1 <= DailyCap
      BY <1>b, <1>u, <1>n DEF Room
    <3>3. \A e \in OfType(ledger, {"started"}) : e.at <= now + 1
      <4>1. \A e \in OfType(ledger, {"started"}) : e.at \in Nat
        <5>1. \A e \in OfType(ledger, {"started"}) : e \in Event
          BY <1>0 DEF OfType, ToSet
        <5>. QED  BY <5>1 DEF Event
      <4>. QED  BY <4>1, <1>b, <1>0
    <3>. QED
      BY <2>1, <2>3, <3>1, <3>2, <3>3, <1>b DEF BudgetInv, WithinBudget
  <2>. QED  BY <2>1, <2>2, <2>3
<1>2. ASSUME NEW c \in Cycle, Kind(c)
      PROVE  BudgetInv'
  <2>b. ASSUME pc[c] \in InLock, NEW d \in Cycle \ {c}
        PROVE  pc[d] \notin Pending
    BY <2>b, Alone, Where
  <2>1. CASE Quiet(c)
    <3>1. PICK to \in Labels \ {"intent", "check", "send"} :
                Goto(c, to) /\ (to \in Pending => pc[c] = "check")
      BY <2>1 DEF Quiet
    <3>2. \A d \in Cycle : pc'[d] \in Pending => Room
      BY <3>1, <1>g, <1>b DEF Pending
    <3>. QED  BY <2>1, <3>2, <1>a DEF Quiet, Core
  <2>2. CASE Acquiring(c) \/ Sending(c) \/ Releasing(c)
    <3>1. PICK to \in {"admit", "answer", "ended"} : Goto(c, to)
      BY <2>2 DEF Acquiring, Sending, Releasing
    <3>2. \A d \in Cycle : pc'[d] \in Pending => Room
      BY <3>1, <1>g, <1>b DEF Pending
    <3>. QED  BY <2>2, <3>2, <1>a DEF Acquiring, Sending, Releasing
  <2>3. CASE Admitting(c)
    <3>1. bound[c].adj \in 0..Len(adjudications)
      <4>1. bound[c].adj \in 0..2 /\ Len(adjudications) \in Nat
        BY SMTT(40) DEF TypeInv, TypeOK
      <4>. QED  BY <4>1 DEF TypeInv, AdjudicationInv
    <3>2. Room
      BY <2>3, <3>1, <1>u, <1>n, UsageFacts
      DEF Admitting, Admissible, WithinLimits, Room
    <3>. QED  BY <2>3, <3>2, <1>a DEF Admitting, Core
  <2>4. CASE Intending(c)
    <3>1. PICK to : Recording(c, EventOf(c, "intent"), to)
      BY <2>4 DEF Intending
    <3>2. /\ EventOf(c, "intent") \in Event
          /\ EventOf(c, "intent").type # "started"
      BY EventFacts DEF EventOf, TypeInv
    <3>3. Room
      BY <2>4, <1>b DEF Intending, At, Pending
    <3>. QED  BY <3>1, <3>2, <3>3, <1>t DEF Recording
  <2>5. CASE Marking(c)
    <3>. DEFINE e == StartEvent(c)
    <3>1. PICK to \in {"send", "stopped"} : Recording(c, e, to)
      BY <2>5 DEF Marking
    <3>2. e \in Event /\ e.type = "started" /\ e.request = request(c) /\ e.at = now
      BY EventFacts, <1>0 DEF StartEvent, EventOf, TypeInv
    <3>. HIDE DEF e
    <3>3. /\ pc[c] = "mark" /\ ledger' = Append(ledger, e) /\ Goto(c, to)
          /\ now' = now
      BY <2>5, <3>1 DEF Marking, At, Recording
    <3>4. Room /\ e.request \notin Consumed(ledger)
      BY <3>2, <3>3, <1>b DEF OrderInv, Pending
    <3>5. Units(ledger') <= SpendLimit
      <4>1. Units(ledger') = Units(ledger) + 1
        BY <1>0, <3>2, <3>3, <3>4, AppendConsumed
      <4>. QED  BY <4>1, <3>4 DEF Room
    <3>6. OfType(ledger', {"started"}) = OfType(ledger, {"started"}) \cup {e}
      BY <1>0, <3>2, <3>3, AppendRequests
    <3>7. \A day : /\ day # now => UnitsOn(ledger', day) = UnitsOn(ledger, day)
                   /\ UnitsOn(ledger', day) <= UnitsOn(ledger, day) + 1
      BY <1>0, <3>2, <3>3, AppendDay
    <3>8. UnitsOn(ledger', now) \in Nat
      <4>1. ledger' \in Seq(Event) /\ IsFiniteSet(Consumed(ledger'))
        BY <1>0, <3>2, <3>3, AppendFacts, AppendConsumed
      <4>. QED  BY <4>1, DayFinite
    <3>9. UnitsOn(ledger', now) <= DailyCap
      BY <3>4, <3>7, <3>8, <1>u, <1>n DEF Room
    <3>10. \A x \in OfType(ledger', {"started"}) :
              x.at <= now /\ UnitsOn(ledger', x.at) <= DailyCap
      BY <3>2, <3>6, <3>7, <3>9, <1>b, <1>0
    <3>11. \A d \in Cycle : pc'[d] \notin Pending
      <4>1. \A d \in Cycle : d # c => pc[d] \notin Pending
        BY <3>3, <2>b DEF InLock
      <4>. QED  BY <4>1, <3>1, <3>3, <1>g DEF Pending
    <3>. QED
      BY <3>3, <3>5, <3>10, <3>11 DEF BudgetInv, WithinBudget
  <2>6. CASE Settling(c)
    <3>1. PICK e \in Event, to \in {"release", "reopen", "stopped"} :
                e.type \in Terminal /\ Recording(c, e, to)
      BY <2>6 DEF Settling
    <3>2. \A d \in Cycle : d # c => pc[d] \notin Pending
      BY <2>6, <2>b DEF Settling, InLock, Posted
    <3>3. \A d \in Cycle : pc'[d] \notin Pending
      BY <3>1, <3>2, <1>g DEF Recording, Pending
    <3>. QED  BY <3>1, <3>3, <1>t DEF Recording, Terminal
  <2>. QED  BY <1>2, <2>1, <2>2, <2>3, <2>4, <2>5, <2>6 DEF Kind
<1>. QED  BY <1>1, <1>2 DEF Move

-----------------------------------------------------------------------------
(* What was sent and charged.                                              *)
LEMMA SpendStep ==
    TypeInv /\ LockInv /\ OrderInv /\ SpendInv /\ Move => SpendInv'
<1>. SUFFICES ASSUME TypeInv, LockInv, OrderInv, SpendInv, Move
              PROVE  SpendInv'
  OBVIOUS
<1>0. /\ ledger \in Seq(Event) /\ pc \in [Cycle -> Labels]
      /\ used \in Nat /\ InitialUsed \in Nat /\ sent \in Seq(Cycle)
      /\ IsFiniteSet(Consumed(ledger))
  BY QuotaAssumption DEF TypeInv, TypeOK, LedgerInv, Larger
<1>u. Units(ledger) \in Nat
  BY <1>0, FS_CardinalityType DEF Units
<1>b. /\ \A i \in DOMAIN sent : request(sent[i]) \in Consumed(ledger)
      /\ used <= InitialUsed + Units(ledger)
      /\ \A d \in Cycle : pc[d] = "send" => used + 1 <= InitialUsed + Units(ledger)
  BY DEF SpendInv, SpendAccounted
<1>g. ASSUME NEW c \in Cycle, NEW to, Goto(c, to), NEW d \in Cycle
      PROVE  pc'[d] = IF d = c THEN to ELSE pc[d]
  BY <1>g, <1>0 DEF Goto
<1>a. ASSUME sent' = sent, used' = used,
             Consumed(ledger) \subseteq Consumed(ledger'),
             Units(ledger') \in Nat, Units(ledger) <= Units(ledger'),
             \A d \in Cycle : pc'[d] = "send" =>
                pc[d] = "send" \/ Units(ledger') = Units(ledger) + 1
      PROVE  SpendInv'
  BY <1>a, <1>b, <1>0, <1>u DEF SpendInv, SpendAccounted
<1>e. ASSUME ledger' = ledger, sent' = sent, used' = used,
             \A d \in Cycle : pc'[d] = "send" => pc[d] = "send"
      PROVE  SpendInv'
  BY <1>e, <1>a, <1>u
<1>t. ASSUME NEW e \in Event, ledger' = Append(ledger, e), e.type # "started",
             sent' = sent, used' = used,
             \A d \in Cycle : pc'[d] = "send" => pc[d] = "send"
      PROVE  SpendInv'
  <2>1. Consumed(ledger') = Consumed(ledger) /\ Units(ledger') = Units(ledger)
    BY <1>0, <1>t, AppendConsumed
  <2>. QED  BY <2>1, <1>t, <1>a, <1>u
<1>1. CASE Waiting
  BY <1>1, <1>e DEF Waiting
<1>2. ASSUME NEW c \in Cycle, Kind(c)
      PROVE  SpendInv'
  <2>1. CASE Quiet(c)
    BY <2>1, <1>e, <1>g DEF Quiet, Core
  <2>2. CASE Acquiring(c) \/ Releasing(c) \/ Admitting(c)
    <3>1. PICK to \in {"admit", "ended", "intent"} : Goto(c, to)
      BY <2>2 DEF Acquiring, Releasing, Admitting
    <3>2. \A d \in Cycle : pc'[d] = "send" => pc[d] = "send"
      BY <3>1, <1>g
    <3>. QED  BY <2>2, <3>2, <1>e DEF Acquiring, Releasing, Admitting, Core
  <2>3. CASE Sending(c)
    <3>1. /\ pc[c] = "send" /\ ledger' = ledger /\ sent' = Append(sent, c)
          /\ used' \in {used, used + 1} /\ Goto(c, "answer")
      BY <2>3 DEF Sending, At
    <3>2. request(c) \in Consumed(ledger)
      <4>1. Open(ledger) /\ Last(ledger).request = request(c)
        BY <3>1 DEF OrderInv, Posted
      <4>. QED  BY <4>1, <1>0, LastFacts
    <3>3. \A i \in DOMAIN sent' : sent'[i] = c \/ (i \in DOMAIN sent /\ sent'[i] = sent[i])
      BY <3>1, <1>0
    <3>4. \A d \in Cycle : pc'[d] # "send"
      <4>1. \A d \in Cycle : d # c => pc[d] # "send"
        BY <3>1, Alone DEF InLock
      <4>. QED  BY <4>1, <3>1, <1>g
    <3>5. used' <= InitialUsed + Units(ledger')
      BY <3>1, <1>b, <1>0, <1>u
    <3>6. \A i \in DOMAIN sent' : request(sent'[i]) \in Consumed(ledger')
      BY <3>1, <3>2, <3>3, <1>b
    <3>. QED
      BY <3>4, <3>5, <3>6 DEF SpendInv, SpendAccounted, request
  <2>4. CASE Intending(c)
    <3>1. PICK to \in {"check", "stopped"} : Recording(c, EventOf(c, "intent"), to)
      BY <2>4 DEF Intending
    <3>2. /\ EventOf(c, "intent") \in Event
          /\ EventOf(c, "intent").type # "started"
      BY EventFacts DEF EventOf, TypeInv
    <3>3. \A d \in Cycle : pc'[d] = "send" => pc[d] = "send"
      BY <3>1, <1>g DEF Recording
    <3>. QED  BY <3>1, <3>2, <3>3, <1>t DEF Recording
  <2>5. CASE Marking(c)
    <3>1. PICK to \in {"send", "stopped"} : Recording(c, StartEvent(c), to)
      BY <2>5 DEF Marking
    <3>2. /\ StartEvent(c) \in Event /\ StartEvent(c).type = "started"
          /\ StartEvent(c).request = request(c)
      BY EventFacts DEF StartEvent, EventOf, TypeInv
    <3>3. request(c) \notin Consumed(ledger)
      BY <2>5 DEF Marking, At, OrderInv
    <3>4. /\ Consumed(ledger) \subseteq Consumed(ledger')
          /\ Units(ledger') = Units(ledger) + 1
      BY <1>0, <3>1, <3>2, <3>3, AppendConsumed DEF Recording
    <3>. QED  BY <3>1, <3>4, <1>a, <1>u DEF Recording
  <2>6. CASE Settling(c)
    <3>1. PICK e \in Event, to \in {"release", "reopen", "stopped"} :
                e.type \in Terminal /\ Recording(c, e, to)
      BY <2>6 DEF Settling
    <3>2. \A d \in Cycle : pc'[d] = "send" => pc[d] = "send"
      BY <3>1, <1>g DEF Recording
    <3>. QED  BY <3>1, <3>2, <1>t DEF Recording, Terminal
  <2>. QED  BY <1>2, <2>1, <2>2, <2>3, <2>4, <2>5, <2>6 DEF Kind
<1>. QED  BY <1>1, <1>2 DEF Move

(* Two calls differ.                                                       *)
LEMMA SendStep ==
    TypeOK /\ LockInv /\ OrderInv /\ SpendInv /\ SendInv /\ Move => SendInv'
<1>. SUFFICES ASSUME TypeOK, LockInv, OrderInv, SpendInv, SendInv, Move
              PROVE  SendInv'
  OBVIOUS
<1>0. /\ ledger \in Seq(Event) /\ pc \in [Cycle -> Labels]
      /\ sent \in Seq(Cycle)
  BY DEF TypeOK
<1>b. /\ OneTransmission
      /\ \A i \in DOMAIN sent : /\ \E e \in ToSet(ledger) : e.run = run(sent[i])
                               /\ request(sent[i]) \in Consumed(ledger)
      /\ \A d \in Cycle : pc[d] \in Pending \cup {"send"} =>
            \A i \in DOMAIN sent : run(sent[i]) # run(d)
      /\ \A d \in Cycle : pc[d] = "send" =>
            \A i \in DOMAIN sent : request(sent[i]) # request(d)
  BY DEF SendInv, SpendInv, SpendAccounted
<1>g. ASSUME NEW c \in Cycle, NEW to, Goto(c, to), NEW d \in Cycle
      PROVE  pc'[d] = IF d = c THEN to ELSE pc[d]
  BY <1>g, <1>0 DEF Goto
<1>s. ToSet(ledger) \subseteq ToSet(ledger')
  BY <1>0, LedgerMoves, AppendFacts
<1>a. ASSUME sent' = sent, NEW c \in Cycle, NEW to, Goto(c, to),
             to \in Pending \cup {"send"} =>
                 \A i \in DOMAIN sent : run(sent[i]) # run(c),
             to = "send" =>
                 \A i \in DOMAIN sent : request(sent[i]) # request(c)
      PROVE  SendInv'
  <2>1. OneTransmission'
    BY <1>a, <1>b DEF OneTransmission, run, request
  <2>2. \A i \in DOMAIN sent' : \E e \in ToSet(ledger') : e.run = run(sent'[i])
    BY <1>a, <1>b, <1>s
  <2>3. \A d \in Cycle : pc'[d] \in Pending \cup {"send"} =>
           \A i \in DOMAIN sent' : run(sent'[i]) # run(d)
    BY <1>a, <1>b, <1>g
  <2>4. \A d \in Cycle : pc'[d] = "send" =>
           \A i \in DOMAIN sent' : request(sent'[i]) # request(d)
    BY <1>a, <1>b, <1>g
  <2>. QED  BY <2>1, <2>2, <2>3, <2>4 DEF SendInv, run, request
<1>1. CASE Waiting
  BY <1>1, <1>b
  DEF Waiting, SendInv, OneTransmission, run, request, ToSet
<1>2. ASSUME NEW c \in Cycle, Kind(c)
      PROVE  SendInv'
  <2>1. CASE Quiet(c)
    <3>1. PICK to \in Labels \ {"intent", "check", "send"} :
                Goto(c, to) /\ (to \in Pending => pc[c] = "check")
      BY <2>1 DEF Quiet
    <3>. QED  BY <2>1, <3>1, <1>a, <1>b DEF Quiet, Core, Pending
  <2>2. CASE Acquiring(c) \/ Releasing(c)
    <3>1. PICK to \in {"admit", "ended"} : Goto(c, to)
      BY <2>2 DEF Acquiring, Releasing
    <3>. QED  BY <2>2, <3>1, <1>a DEF Acquiring, Releasing, Pending
  <2>3. CASE Admitting(c)
    <3>1. \A e \in ToSet(ledger) : e.run # run(c)
      BY <2>3 DEF Admitting, Admissible, FreshRun
    <3>2. \A i \in DOMAIN sent : run(sent[i]) # run(c)
      BY <3>1, <1>b
    <3>. QED  BY <2>3, <3>2, <1>a DEF Admitting, Core
  <2>4. CASE Intending(c)
    <3>1. PICK to \in {"check", "stopped"} :
                Recording(c, EventOf(c, "intent"), to)
      BY <2>4 DEF Intending
    <3>2. \A i \in DOMAIN sent : run(sent[i]) # run(c)
      BY <2>4, <1>b DEF Intending, At, Pending
    <3>. QED  BY <3>1, <3>2, <1>a DEF Recording
  <2>5. CASE Marking(c)
    <3>1. PICK to \in {"send", "stopped"} : Recording(c, StartEvent(c), to)
      BY <2>5 DEF Marking
    <3>2. \A i \in DOMAIN sent : run(sent[i]) # run(c)
      BY <2>5, <1>b DEF Marking, At, Pending
    <3>3. request(c) \notin Consumed(ledger)
      BY <2>5 DEF Marking, At, OrderInv
    <3>4. \A i \in DOMAIN sent : request(sent[i]) # request(c)
      BY <3>3, <1>b
    <3>. QED  BY <3>1, <3>2, <3>4, <1>a DEF Recording
  <2>6. CASE Settling(c)
    <3>1. PICK e \in Event, to \in {"release", "reopen", "stopped"} :
                Recording(c, e, to)
      BY <2>6 DEF Settling
    <3>. QED  BY <3>1, <1>a DEF Recording, Pending
  <2>7. CASE Sending(c)
    <3>1. /\ pc[c] = "send" /\ ledger' = ledger /\ sent' = Append(sent, c)
          /\ Goto(c, "answer")
      BY <2>7 DEF Sending, At
    <3>2. \A i \in DOMAIN sent :
             run(sent[i]) # run(c) /\ request(sent[i]) # request(c)
      BY <3>1, <1>b
    <3>3. \A i \in DOMAIN sent' :
             \/ i = Len(sent) + 1 /\ sent'[i] = c
             \/ i \in DOMAIN sent /\ sent'[i] = sent[i]
      BY <3>1, <1>0
    <3>4. OneTransmission'
      <4>. SUFFICES ASSUME NEW i \in DOMAIN sent', NEW j \in DOMAIN sent', i # j
                    PROVE  /\ AuthOf[sent'[i]] # AuthOf[sent'[j]]
                           /\ run(sent'[i]) # run(sent'[j])
                           /\ request(sent'[i]) # request(sent'[j])
        BY DEF OneTransmission, run, request
      <4>1. /\ run(sent'[i]) # run(sent'[j])
            /\ request(sent'[i]) # request(sent'[j])
        BY <3>2, <3>3, <1>b DEF OneTransmission
      <4>. QED  BY <4>1 DEF run
    <3>5. \E e \in ToSet(ledger) : e.run = run(c)
      <4>1. Open(ledger) /\ Last(ledger).run = run(c)
        BY <3>1 DEF OrderInv, Posted
      <4>. QED  BY <4>1, <1>0, LastFacts
    <3>6. \A i \in DOMAIN sent' : \E e \in ToSet(ledger') : e.run = run(sent'[i])
      BY <3>1, <3>3, <3>5, <1>b
    <3>7. \A d \in Cycle : pc'[d] \notin Pending \cup {"send"}
      <4>1. \A d \in Cycle : d # c => pc[d] \notin Pending \cup {"send"}
        BY <3>1, Alone, Where DEF InLock
      <4>. QED  BY <4>1, <3>1, <1>g DEF Pending
    <3>. QED  BY <3>4, <3>6, <3>7 DEF SendInv, run, request
  <2>. QED  BY <1>2, <2>1, <2>2, <2>3, <2>4, <2>5, <2>6, <2>7 DEF Kind
<1>. QED  BY <1>1, <1>2 DEF Move

-----------------------------------------------------------------------------
(* Types.                                                                  *)
LEMMA LatestTyped ==
    ASSUME TypeOK, LedgerInv
    PROVE  LatestBalance(ledger) \in Nat
<1>1. ledger \in Seq(Event)
  BY DEF TypeOK
<1>2. CASE Balances(ledger) = {}
  BY <1>2 DEF LatestBalance
<1>3. CASE Balances(ledger) # {}
  <2>. DEFINE i == CHOOSE k \in Balances(ledger) :
                      \A j \in Balances(ledger) : j <= k
  <2>1. i \in Balances(ledger)
    BY <1>3 DEF LedgerInv
  <2>2. ledger[i] \in Event
    BY <1>1, <2>1 DEF Balances
  <2>3. LatestBalance(ledger) = ledger[i].quota
    BY <1>3 DEF LatestBalance
  <2>. HIDE DEF i
  <2>. QED  BY <2>2, <2>3 DEF Event
<1>. QED  BY <1>2, <1>3

(* The types of what each cycle holds, and of what all share.              *)
LocalTyped ==
    /\ pc \in [Cycle -> Labels]
    /\ bound \in [Cycle -> [head: Nat, adj: 0..2, from: Nat]]
    /\ base \in [Cycle -> Nat]
    /\ head \in [Cycle -> Nat]
    /\ reply \in [Cycle -> [kind: {"none", "ok", "http", "transport"},
                            payload: Payload \cup {None}, quota: Nat]]
    /\ class \in [Cycle -> Class]
    /\ ReplyInv
    /\ \A c \in Cycle : bound[c].adj <= Len(adjudications)

SharedTyped ==
    /\ ledger \in Seq(Event)
    /\ lock \in Cycle \cup {None}
    /\ consumed \subseteq Authorization
    /\ raw \subseteq Payload
    /\ receipts \subseteq Request \X Payload
    /\ authority \in Seq([payload: Payload, request: Request \cup {None}])
    /\ adjudications \in Seq(Adjudication) /\ Len(adjudications) <= 2
    /\ draft \in Adjudication
    /\ source \in Nat /\ now \in Nat
    /\ used \in 0..Larger(PlanLimit, InitialUsed)
    /\ sent \in Seq(Cycle)
    /\ delivered \subseteq Request \X Payload
    /\ faults \in 0..MaxFaults

Typed == LocalTyped /\ SharedTyped

LEMMA Typing == Typed <=> TypeOK /\ ReplyInv /\ AdjudicationInv
  BY DEF Typed, LocalTyped, SharedTyped, TypeOK, AdjudicationInv

LEMMA FaultTyped ==
    ASSUME SharedTyped, NEW k, Fault(k)
    PROVE  faults' \in 0..MaxFaults
<1>1. MaxFaults \in Nat
  BY BoundAssumption
<1>. QED  BY <1>1 DEF SharedTyped, Fault

LEMMA EndTyped ==
    ASSUME LocalTyped, NEW c \in Cycle, NEW label \in {"ended", "stopped"},
           End(c, label), adjudications' = adjudications,
           Len(adjudications) \in Nat
    PROVE  LocalTyped'
<1>. USE DEF LocalTyped, End, Goto
<1>1. pc' \in [Cycle -> Labels]
  BY DEF Labels
<1>2. bound' \in [Cycle -> [head: Nat, adj: 0..2, from: Nat]]
  BY DEF NotBound
<1>3. base' \in [Cycle -> Nat] /\ head' \in [Cycle -> Nat]
  OBVIOUS
<1>4. reply' \in [Cycle -> [kind: {"none", "ok", "http", "transport"},
                           payload: Payload \cup {None}, quota: Nat]]
  BY DEF NoReply
<1>5. class' \in [Cycle -> Class]
  BY DEF Class
<1>6. ReplyInv'
  BY DEF ReplyInv, NoReply, Answered
<1>7. (\A d \in Cycle : bound[d].adj <= Len(adjudications))'
  BY DEF NotBound
<1>. QED  BY <1>1, <1>2, <1>3, <1>4, <1>5, <1>6, <1>7

LEMMA GotoTyped ==
    ASSUME LocalTyped, NEW c \in Cycle, NEW label \in Labels,
           Goto(c, label), label \in Answered => reply[c].kind = "ok",
           UNCHANGED <<bound, base, reply, class, adjudications>>,
           head' \in [Cycle -> Nat]
    PROVE  LocalTyped'
  BY DEF LocalTyped, Goto, ReplyInv

LEMMA LocalSteps ==
    ASSUME Typed, NEW c \in Cycle,
           \/ Refuse(c) \/ Consume(c) \/ ConsumeFails(c)
           \/ Acquire(c) \/ LockBusy(c) \/ Deny(c) \/ AdmitFails(c)
           \/ IntentRejected(c) \/ Check(c)
           \/ Reopen(c) \/ Duplicate(c) \/ ReopenFails(c) \/ BuildFails(c)
           \/ Release(c) \/ ReleaseFails(c) \/ Crash(c)
    PROVE  Typed'
<1>a. LocalTyped /\ SharedTyped /\ Len(adjudications) \in Nat
  BY DEF Typed, SharedTyped
<1>b. AuthOf[c] \in Authorization
  BY AuthorizationAssumption
<1>c. \A k : Fault(k) => faults' \in 0..MaxFaults
  BY <1>a, FaultTyped
<1>d. ASSUME NEW label \in {"ended", "stopped"}, End(c, label),
             adjudications' = adjudications
      PROVE  LocalTyped'
  BY <1>a, <1>d, EndTyped
<1>e. ASSUME NEW label \in Labels, Goto(c, label),
             label \in Answered => reply[c].kind = "ok",
             adjudications' = adjudications, UNCHANGED local
      PROVE  LocalTyped'
  BY <1>a, <1>e, GotoTyped DEF local, LocalTyped
<1>r. pc[c] \in Answered => reply[c].kind = "ok"
  BY <1>a DEF LocalTyped, ReplyInv
<1>. USE DEF evidence, owner, provider, Stop, OnlyLedger, At, Labels, Answered
<1>1. CASE Refuse(c)
  <2>2. LocalTyped'
    BY <1>1, <1>d DEF Refuse
  <2>3. SharedTyped'
    BY <1>1, <1>a, <1>b, <1>c DEF Refuse, SharedTyped
  <2>. QED  BY <2>2, <2>3 DEF Typed
<1>2. CASE Consume(c)
  <2>2. LocalTyped'
    BY <1>2, <1>e, <1>r DEF Consume
  <2>3. SharedTyped'
    BY <1>2, <1>a, <1>b, <1>c DEF Consume, SharedTyped
  <2>. QED  BY <2>2, <2>3 DEF Typed
<1>3. CASE ConsumeFails(c)
  <2>2. LocalTyped'
    BY <1>3, <1>d DEF ConsumeFails
  <2>3. SharedTyped'
    BY <1>3, <1>a, <1>b, <1>c DEF ConsumeFails, SharedTyped
  <2>. QED  BY <2>2, <2>3 DEF Typed
<1>4. CASE Acquire(c)
  <2>2. LocalTyped'
    BY <1>4, <1>e, <1>r DEF Acquire
  <2>3. SharedTyped'
    BY <1>4, <1>a, <1>b, <1>c DEF Acquire, SharedTyped
  <2>. QED  BY <2>2, <2>3 DEF Typed
<1>5. CASE LockBusy(c)
  <2>2. LocalTyped'
    BY <1>5, <1>d DEF LockBusy
  <2>3. SharedTyped'
    BY <1>5, <1>a, <1>b, <1>c DEF LockBusy, SharedTyped
  <2>. QED  BY <2>2, <2>3 DEF Typed
<1>6. CASE Deny(c)
  <2>2. LocalTyped'
    BY <1>6, <1>e, <1>r DEF Deny
  <2>3. SharedTyped'
    BY <1>6, <1>a, <1>b, <1>c DEF Deny, SharedTyped
  <2>. QED  BY <2>2, <2>3 DEF Typed
<1>7. CASE AdmitFails(c)
  <2>2. LocalTyped'
    BY <1>7, <1>d, <1>e DEF AdmitFails
  <2>3. SharedTyped'
    BY <1>7, <1>a, <1>b, <1>c DEF AdmitFails, SharedTyped
  <2>. QED  BY <2>2, <2>3 DEF Typed
<1>8. CASE IntentRejected(c)
  <2>2. LocalTyped'
    BY <1>8, <1>d DEF IntentRejected
  <2>3. SharedTyped'
    BY <1>8, <1>a, <1>b, <1>c DEF IntentRejected, SharedTyped
  <2>. QED  BY <2>2, <2>3 DEF Typed
<1>9. CASE Check(c)
  <2>2. LocalTyped'
    BY <1>9, <1>e, <1>r DEF Check
  <2>3. SharedTyped'
    BY <1>9, <1>a, <1>b, <1>c DEF Check, SharedTyped
  <2>. QED  BY <2>2, <2>3 DEF Typed
<1>10. CASE Reopen(c)
  <2>1. head' \in [Cycle -> Nat]
    BY <1>10, <1>a DEF Reopen, LocalTyped, SharedTyped
  <2>2. LocalTyped'
    BY <1>10, <1>a, <1>r, <2>1, GotoTyped DEF Reopen
  <2>3. SharedTyped'
    BY <1>10, <1>a, <1>b, <1>c DEF Reopen, SharedTyped
  <2>. QED  BY <2>2, <2>3 DEF Typed
<1>11. CASE Duplicate(c)
  <2>2. LocalTyped'
    BY <1>11, <1>e, <1>r DEF Duplicate
  <2>3. SharedTyped'
    BY <1>11, <1>a, <1>b, <1>c DEF Duplicate, SharedTyped
  <2>. QED  BY <2>2, <2>3 DEF Typed
<1>12. CASE ReopenFails(c)
  <2>2. LocalTyped'
    BY <1>12, <1>d DEF ReopenFails
  <2>3. SharedTyped'
    BY <1>12, <1>a, <1>b, <1>c DEF ReopenFails, SharedTyped
  <2>. QED  BY <2>2, <2>3 DEF Typed
<1>13. CASE BuildFails(c)
  <2>2. LocalTyped'
    BY <1>13, <1>e, <1>r DEF BuildFails
  <2>3. SharedTyped'
    BY <1>13, <1>a, <1>b, <1>c DEF BuildFails, SharedTyped
  <2>. QED  BY <2>2, <2>3 DEF Typed
<1>14. CASE Release(c)
  <2>2. LocalTyped'
    BY <1>14, <1>d DEF Release
  <2>3. SharedTyped'
    BY <1>14, <1>a, <1>b, <1>c DEF Release, SharedTyped
  <2>. QED  BY <2>2, <2>3 DEF Typed
<1>15. CASE ReleaseFails(c)
  <2>2. LocalTyped'
    BY <1>15, <1>d DEF ReleaseFails
  <2>3. SharedTyped'
    BY <1>15, <1>a, <1>b, <1>c DEF ReleaseFails, SharedTyped
  <2>. QED  BY <2>2, <2>3 DEF Typed
<1>16. CASE Crash(c)
  <2>2. LocalTyped'
    BY <1>16, <1>d DEF Crash
  <2>3. SharedTyped'
    BY <1>16, <1>a, <1>b, <1>c DEF Crash, SharedTyped
  <2>. QED  BY <2>2, <2>3 DEF Typed
<1>. QED
  BY <1>1, <1>2, <1>3, <1>4, <1>5, <1>6, <1>7, <1>8, <1>9, <1>10, <1>11,
     <1>12, <1>13, <1>14, <1>15, <1>16

LEMMA RecordTyped ==
    ASSUME Typed, NEW c \in Cycle, NEW e \in Event,
           NEW next \in {"check", "release", "send", "reopen"},
           Record(c, e, next), OnlyLedger,
           next = "reopen" => reply[c].kind = "ok"
    PROVE  Typed'
<1>a. LocalTyped /\ SharedTyped /\ Len(adjudications) \in Nat
  BY DEF Typed, SharedTyped
<1>h. head \in [Cycle -> Nat]
  BY <1>a DEF LocalTyped
<1>. USE DEF evidence, owner, provider, OnlyLedger
<1>1. CASE /\ ledger' = Append(ledger, e) /\ Goto(c, next)
           /\ UNCHANGED <<local, faults>>
  <2>1. LocalTyped'
    BY <1>1, <1>a, <1>h, GotoTyped DEF local, Labels, Answered
  <2>2. SharedTyped'
    BY <1>1, <1>a DEF SharedTyped
  <2>. QED  BY <2>1, <2>2 DEF Typed
<1>2. CASE /\ Fault("ledger") /\ ledger' \in {ledger, Append(ledger, e)}
           /\ Stop(c)
  <2>1. LocalTyped'
    BY <1>2, <1>a, EndTyped DEF Stop
  <2>2. faults' \in 0..MaxFaults
    BY <1>2, <1>a, FaultTyped
  <2>3. ledger' \in Seq(Event)
    <3>1. ledger \in Seq(Event) /\ Append(ledger, e) \in Seq(Event)
      BY <1>a DEF SharedTyped
    <3>. QED  BY <3>1, <1>2
  <2>4. SharedTyped'
    BY <1>2, <1>a, <2>2, <2>3 DEF SharedTyped
  <2>. QED  BY <2>1, <2>4 DEF Typed
<1>. QED  BY <1>1, <1>2 DEF Record

LEMMA RecordSteps ==
    ASSUME Typed, NEW c \in Cycle,
           \/ Intend(c) \/ Cancel(c) \/ Mark(c) \/ TransmissionFailed(c)
           \/ PostFailed(c) \/ Receive(c)
    PROVE  Typed'
<1>0. TypeOK /\ LocalTyped
  BY Typing DEF Typed
<1>1. CASE Intend(c)
  <2>1. EventOf(c, "intent") \in Event
    BY <1>0, EventFacts
  <2>. QED  BY <1>1, <2>1, RecordTyped DEF Intend
<1>2. CASE Cancel(c)
  <2>1. EventOf(c, "cancelled") \in Event
    BY <1>0, EventFacts DEF Terminal
  <2>. QED  BY <1>2, <2>1, RecordTyped DEF Cancel
<1>3. CASE Mark(c)
  <2>1. StartEvent(c) \in Event
    BY <1>0, EventFacts
  <2>. QED  BY <1>3, <2>1, RecordTyped DEF Mark
<1>4. CASE TransmissionFailed(c)
  <2>1. EventOf(c, reply[c].kind) \in Event
    BY <1>0, <1>4, EventFacts DEF TransmissionFailed, Terminal
  <2>. QED  BY <1>4, <2>1, RecordTyped DEF TransmissionFailed
<1>5. CASE PostFailed(c)
  <2>1. PostEvent(c) \in Event
    BY <1>0, EventFacts
  <2>. QED  BY <1>5, <2>1, RecordTyped DEF PostFailed
<1>6. CASE Receive(c)
  <2>1. reply[c].quota \in Nat /\ reply[c].kind = "ok"
    BY <1>0, <1>6 DEF LocalTyped, ReplyInv, Receive, At, Answered
  <2>2. [EventOf(c, "received") EXCEPT !.quota = reply[c].quota] \in Event
    BY <1>0, <2>1, EventFacts
  <2>. QED  BY <1>6, <2>1, <2>2, RecordTyped DEF Receive
<1>. QED  BY <1>1, <1>2, <1>3, <1>4, <1>5, <1>6

(* The steps that change a local value, the evidence or the provider.      *)
LEMMA AnswerSteps ==
    ASSUME Typed, NEW c \in Cycle,
           \/ Start(c) \/ Admit(c) \/ Send(c) \/ SendRefused(c)
           \/ PersistRaw(c) \/ PersistRawFails(c)
           \/ Reconcile(c) \/ Diverge(c)
           \/ PersistReceipt(c) \/ PersistReceiptFails(c)
    PROVE  Typed'
<1>a. LocalTyped /\ SharedTyped /\ Len(adjudications) \in Nat
  BY DEF Typed, SharedTyped
<1>h. head \in [Cycle -> Nat]
  BY <1>a DEF LocalTyped
<1>b. request(c) \in Request /\ run(c) \in Run
  BY Typing, EventFacts
<1>c. \A k : Fault(k) => faults' \in 0..MaxFaults
  BY <1>a, FaultTyped
<1>e. ASSUME NEW label \in Labels, Goto(c, label),
             label \in Answered => reply[c].kind = "ok",
             adjudications' = adjudications, UNCHANGED local
      PROVE  LocalTyped'
  BY <1>a, <1>e, GotoTyped DEF local, LocalTyped
<1>f. ASSUME NEW k \in Class, Failed(c, k), adjudications' = adjudications,
             UNCHANGED <<bound, base, head, reply>>
      PROVE  LocalTyped'
  BY <1>a, <1>f DEF LocalTyped, Failed, Goto, Labels, ReplyInv, Answered
<1>g. ASSUME NEW r \in [kind: {"none", "ok", "http", "transport"},
                        payload: Payload \cup {None}, quota: Nat],
             r.kind = "ok" => r.payload \in Payload,
             pc[c] = "send", Answer(c, r), adjudications' = adjudications,
             UNCHANGED <<bound, base, head, class>>
      PROVE  LocalTyped'
  BY <1>a, <1>g DEF LocalTyped, Answer, Goto, Labels, ReplyInv, Answered
<1>r. /\ pc[c] \in Answered => reply[c].kind = "ok"
      /\ reply[c].kind = "ok" => reply[c].payload \in Payload
  BY <1>a DEF LocalTyped, ReplyInv
<1>. USE DEF evidence, owner, provider, At, Labels, Answered, Class
<1>1. CASE Start(c)
  <2>1. PICK b \in [head: {Len(authority)}, adj: {0, Len(adjudications)},
                    from: 0..now] : bound' = [bound EXCEPT ![c] = b]
    BY <1>1 DEF Start
  <2>2. b \in [head: Nat, adj: 0..2, from: Nat] /\ b.adj <= Len(adjudications)
    BY <2>1, <1>a DEF SharedTyped
  <2>3. LocalTyped'
    BY <1>1, <1>a, <2>1, <2>2 DEF Start, LocalTyped, Goto, ReplyInv
  <2>4. SharedTyped'
    BY <1>1, <1>a DEF Start, SharedTyped
  <2>. QED  BY <2>3, <2>4 DEF Typed
<1>2. CASE Admit(c)
  <2>1. LocalTyped'
    BY SMTT(40), <1>2, <1>a DEF Admit, LocalTyped, SharedTyped, Goto, ReplyInv
  <2>2. SharedTyped'
    BY <1>2, <1>a DEF Admit, SharedTyped
  <2>. QED  BY <2>1, <2>2 DEF Typed
<1>3. CASE Send(c)
  <2>1. PICK cost \in 0..1 :
              /\ used + cost <= PlanLimit /\ used' = used + cost
              /\ \E r \in Answers(c, cost) :
                    /\ Answer(c, r)
                    /\ delivered' = IF r.kind = "ok"
                                    THEN delivered \cup {<<request(c), r.payload>>}
                                    ELSE delivered
    BY <1>3 DEF Send
  <2>2. PICK r \in Answers(c, cost) :
              /\ Answer(c, r)
              /\ delivered' = IF r.kind = "ok"
                              THEN delivered \cup {<<request(c), r.payload>>}
                              ELSE delivered
    BY <2>1
  <2>3. used \in Nat /\ PlanLimit \in Nat /\ InitialUsed \in Nat
    BY <1>a, QuotaAssumption DEF SharedTyped, Larger
  <2>4. /\ r \in [kind: {"none", "ok", "http", "transport"},
                  payload: Payload \cup {None}, quota: Nat]
        /\ r.kind = "ok" => r.payload \in Payload
    BY <2>2, <2>3 DEF Answers
  <2>5. LocalTyped'
    BY <1>3, <2>2, <2>4, <1>g DEF Send
  <2>6. used' \in 0..Larger(PlanLimit, InitialUsed)
    BY <2>1, <2>3 DEF Larger
  <2>7. sent' \in Seq(Cycle) /\ delivered' \subseteq Request \X Payload
    BY SMTT(40), <1>3, <2>2, <2>4, <1>a, <1>b DEF Send, SharedTyped
  <2>8. SharedTyped'
    BY <1>3, <2>6, <2>7, <1>a DEF Send, SharedTyped
  <2>. QED  BY <2>5, <2>8 DEF Typed
<1>4. CASE SendRefused(c)
  <2>1. LocalTyped'
    <3>. DEFINE r == [NoReply EXCEPT !.kind = "transport"]
    <3>1. r \in [kind: {"none", "ok", "http", "transport"},
                 payload: Payload \cup {None}, quota: Nat] /\ r.kind # "ok"
      BY DEF NoReply
    <3>. QED  BY <1>4, <3>1, <1>g DEF SendRefused
  <2>2. SharedTyped'
    BY <1>4, <1>a DEF SendRefused, SharedTyped
  <2>. QED  BY <2>1, <2>2 DEF Typed
<1>5. CASE PersistRaw(c)
  <2>1. LocalTyped'
    BY <1>5, <1>e DEF PersistRaw
  <2>2. SharedTyped'
    BY <1>5, <1>a, <1>r DEF PersistRaw, SharedTyped
  <2>. QED  BY <2>1, <2>2 DEF Typed
<1>6. CASE PersistRawFails(c)
  <2>1. LocalTyped'
    BY <1>6, <1>f DEF PersistRawFails
  <2>2. SharedTyped'
    BY <1>6, <1>a, <1>c, <1>r DEF PersistRawFails, SharedTyped
  <2>. QED  BY <2>1, <2>2 DEF Typed
<1>7. CASE Reconcile(c)
  <2>1. LocalTyped'
    BY <1>7, <1>e, <1>r DEF Reconcile
  <2>2. SharedTyped'
    BY <1>7, <1>a DEF Reconcile, SharedTyped
  <2>. QED  BY <2>1, <2>2 DEF Typed
<1>8. CASE Diverge(c)
  <2>1. LocalTyped'
    BY <1>8, <1>f DEF Diverge
  <2>2. SharedTyped'
    BY <1>8, <1>a DEF Diverge, SharedTyped
  <2>. QED  BY <2>1, <2>2 DEF Typed
<1>9. CASE PersistReceipt(c)
  <2>1. LocalTyped'
    BY <1>9, <1>e, <1>r DEF PersistReceipt
  <2>2. SharedTyped'
    BY <1>9, <1>a, <1>b, <1>r DEF PersistReceipt, SharedTyped
  <2>. QED  BY <2>1, <2>2 DEF Typed
<1>10. CASE PersistReceiptFails(c)
  <2>1. LocalTyped'
    BY <1>10, <1>f DEF PersistReceiptFails
  <2>2. SharedTyped'
    BY <1>10, <1>a, <1>b, <1>c, <1>r DEF PersistReceiptFails, SharedTyped
  <2>. QED  BY <2>1, <2>2 DEF Typed
<1>. QED
  BY <1>1, <1>2, <1>3, <1>4, <1>5, <1>6, <1>7, <1>8, <1>9, <1>10

LEMMA PublishSteps ==
    ASSUME Typed, NEW c \in Cycle, Publish(c) \/ PublishFails(c)
    PROVE  Typed'
<1>a. LocalTyped /\ SharedTyped /\ Len(adjudications) \in Nat
  BY DEF Typed, SharedTyped
<1>h. head \in [Cycle -> Nat]
  BY <1>a DEF LocalTyped
<1>1. pc[c] = "publish"
  BY DEF Publish, PublishFails, At
<1>2. Transaction(c) \in [payload: Payload, request: Request \cup {None}]
  <2>1. reply[c].payload \in Payload
    BY <1>1, <1>a DEF LocalTyped, ReplyInv, Answered
  <2>2. request(c) \in Request
    BY Typing, EventFacts
  <2>. QED  BY <2>1, <2>2 DEF Transaction
<1>3. Extended(c) \in Seq([payload: Payload, request: Request \cup {None}])
  BY <1>2, <1>a DEF Extended, SharedTyped
<1>. USE DEF evidence, owner, provider
<1>4. CASE Publish(c)
  <2>1. LocalTyped'
    BY <1>4, <1>a, <1>h, GotoTyped DEF Publish, local, Labels, Answered
  <2>2. SharedTyped'
    BY <1>4, <1>a, <1>3 DEF Publish, SharedTyped
  <2>. QED  BY <2>1, <2>2 DEF Typed
<1>5. CASE PublishFails(c)
  <2>1. LocalTyped'
    BY <1>5, <1>a, EndTyped DEF PublishFails, Stop
  <2>2. faults' \in 0..MaxFaults
    BY <1>5, <1>a, FaultTyped DEF PublishFails, SharedTyped
  <2>3. SharedTyped'
    BY <1>5, <1>a, <1>3, <2>2 DEF PublishFails, SharedTyped
  <2>. QED  BY <2>1, <2>3 DEF Typed
<1>. QED  BY <1>4, <1>5

LEMMA OwnerSteps ==
    ASSUME Typed, LedgerInv,
           \/ Draft \/ PersistDraft \/ ChangeSource \/ Clear \/ Tick
           \/ OtherPublish
    PROVE  Typed'
<1>a. LocalTyped /\ SharedTyped /\ Len(adjudications) \in Nat
  BY DEF Typed, SharedTyped
<1>h. head \in [Cycle -> Nat]
  BY <1>a DEF LocalTyped
<1>b. ASSUME UNCHANGED <<pc, local>>, Len(adjudications) <= Len(adjudications'),
             Len(adjudications') \in Nat
      PROVE  LocalTyped'
  <2>1. \A c \in Cycle : bound[c].adj \in Nat /\ bound[c].adj <= Len(adjudications)
    BY <1>a DEF LocalTyped
  <2>2. \A c \in Cycle : bound'[c].adj <= Len(adjudications')
    BY <2>1, <1>a, <1>b DEF local
  <2>3. ReplyInv'
    BY <1>a, <1>b DEF LocalTyped, ReplyInv, local
  <2>. QED  BY <2>2, <2>3, <1>a, <1>b DEF LocalTyped, local
<1>. USE DEF evidence, owner, provider
<1>1. CASE Draft
  <2>1. LocalTyped'
    BY <1>1, <1>a, <1>b DEF Draft
  <2>2. PICK q \in Request :
              draft' = [version |-> Len(adjudications) + 1,
                        entries |-> Len(ledger), request |-> q,
                        usage |-> Larger(Usage(ledger, Len(adjudications)),
                                         LatestBalance(ledger)),
                        source |-> source]
    BY <1>1 DEF Draft
  <2>3. Larger(Usage(ledger, Len(adjudications)), LatestBalance(ledger)) \in Nat
    <3>1. LatestBalance(ledger) \in Nat
      BY LatestTyped, Typing
    <3>2. Usage(ledger, Len(adjudications)) \in Nat
      BY <1>a, UsageFacts, Typing DEF TypeInv
    <3>. QED  BY <3>1, <3>2 DEF Larger
  <2>4. Len(adjudications) + 1 \in 0..2
    BY <1>1, <1>a DEF Draft, Refreshable
  <2>5. draft' \in Adjudication
    BY <2>2, <2>3, <2>4, <1>a DEF Adjudication, SharedTyped
  <2>6. SharedTyped'
    BY <1>1, <2>5, <1>a DEF Draft, SharedTyped
  <2>. QED  BY <2>1, <2>6 DEF Typed
<1>2. CASE PersistDraft
  <2>1. adjudications' \in Seq(Adjudication)
        /\ Len(adjudications') = Len(adjudications) + 1
    BY <1>2, <1>a DEF PersistDraft, SharedTyped
  <2>2. Len(adjudications') <= 2
    BY SMTT(40), <1>2, <1>a, <2>1 DEF PersistDraft, SharedTyped, Adjudication
  <2>3. LocalTyped'
    BY <1>2, <1>a, <1>b, <2>1 DEF PersistDraft
  <2>4. NoDraft \in Adjudication
    BY DEF NoDraft, Adjudication
  <2>5. SharedTyped'
    BY <1>2, <1>a, <2>1, <2>2, <2>4 DEF PersistDraft, SharedTyped
  <2>. QED  BY <2>3, <2>5 DEF Typed
<1>3. CASE ChangeSource
  <2>1. LocalTyped'
    BY <1>3, <1>a, <1>b DEF ChangeSource
  <2>2. SharedTyped'
    BY <1>3, <1>a DEF ChangeSource, SharedTyped
  <2>. QED  BY <2>1, <2>2 DEF Typed
<1>4. CASE Clear
  <2>1. lock \in Cycle
    BY <1>4, <1>a DEF Clear, SharedTyped
  <2>2. LocalTyped'
    BY <1>4, <1>a, <1>h, <2>1, GotoTyped DEF Clear, local, Labels, Answered
  <2>3. SharedTyped'
    BY <1>4, <1>a DEF Clear, SharedTyped
  <2>. QED  BY <2>2, <2>3 DEF Typed
<1>5. CASE Tick
  <2>1. LocalTyped'
    BY <1>5, <1>a, <1>b DEF Tick
  <2>2. SharedTyped'
    BY <1>5, <1>a DEF Tick, SharedTyped
  <2>. QED  BY <2>1, <2>2 DEF Typed
<1>6. CASE OtherPublish
  <2>1. LocalTyped'
    BY <1>6, <1>a, <1>b DEF OtherPublish
  <2>2. PICK p \in Payload :
              authority' = Append(authority, [payload |-> p, request |-> None])
    BY <1>6 DEF OtherPublish
  <2>3. authority' \in Seq([payload: Payload, request: Request \cup {None}])
    BY <2>2, <1>a DEF SharedTyped
  <2>4. SharedTyped'
    BY <1>6, <1>a, <2>3 DEF OtherPublish, SharedTyped
  <2>. QED  BY <2>1, <2>4 DEF Typed
<1>. QED  BY <1>1, <1>2, <1>3, <1>4, <1>5, <1>6

LEMMA TypeStep == TypeInv /\ LockInv /\ [Next]_vars => TypeInv'
<1>. SUFFICES ASSUME TypeInv, LockInv, [Next]_vars PROVE TypeInv'
  OBVIOUS
<1>1. Typed /\ LedgerInv
  BY Typing DEF TypeInv
<1>2. Typed'
  <2>2. CASE UNCHANGED vars
    <3>. USE DEF vars, evidence, owner, provider, local
    <3>1. LocalTyped'
      BY <2>2, <1>1 DEF Typed, LocalTyped, ReplyInv
    <3>2. SharedTyped'
      BY <2>2, <1>1 DEF Typed, SharedTyped
    <3>. QED  BY <3>1, <3>2 DEF Typed
  <2>3. CASE Next
    <3>1. \A c \in Cycle :
             \/ Start(c) \/ Admit(c) \/ Send(c) \/ SendRefused(c)
             \/ PersistRaw(c) \/ PersistRawFails(c)
             \/ Reconcile(c) \/ Diverge(c)
             \/ PersistReceipt(c) \/ PersistReceiptFails(c)
             => Typed'
      BY <1>1, AnswerSteps
    <3>2. \A c \in Cycle :
             \/ Refuse(c) \/ Consume(c) \/ ConsumeFails(c)
             \/ Acquire(c) \/ LockBusy(c) \/ Deny(c) \/ AdmitFails(c)
             \/ IntentRejected(c) \/ Check(c)
             \/ Reopen(c) \/ Duplicate(c) \/ ReopenFails(c) \/ BuildFails(c)
             \/ Release(c) \/ ReleaseFails(c) \/ Crash(c)
             => Typed'
      BY <1>1, LocalSteps
    <3>3. \A c \in Cycle :
             \/ Intend(c) \/ Cancel(c) \/ Mark(c) \/ TransmissionFailed(c)
             \/ PostFailed(c) \/ Receive(c)
             => Typed'
      BY <1>1, RecordSteps
    <3>4. \A c \in Cycle : Publish(c) \/ PublishFails(c) => Typed'
      BY <1>1, PublishSteps
    <3>5. \/ Draft \/ PersistDraft \/ ChangeSource \/ Clear \/ Tick
          \/ OtherPublish
          => Typed'
      BY <1>1, OwnerSteps
    <3>. QED  BY <2>3, <3>1, <3>2, <3>3, <3>4, <3>5 DEF Next
  <2>. QED  BY <2>2, <2>3
<1>5. LedgerInv'
  BY Moves, LedgerStep DEF TypeInv
<1>6. (TypeOK /\ ReplyInv /\ AdjudicationInv)'
  BY <1>2 DEF Typed, LocalTyped, SharedTyped, TypeOK, AdjudicationInv
<1>. QED  BY <1>5, <1>6 DEF TypeInv

-----------------------------------------------------------------------------
(* The invariant of the cycle.                                             *)
CycleInv ==
    TypeInv /\ LockInv /\ OrderInv /\ BudgetInv /\ SpendInv /\ SendInv

LEMMA InitInv == Init => CycleInv
<1>. SUFFICES ASSUME Init PROVE CycleInv
  OBVIOUS
<1>1. ledger = <<>> /\ sent = <<>> /\ \A c \in Cycle : pc[c] = "idle"
  BY DEF Init
<1>2. Consumed(ledger) = {} /\ OfType(ledger, {"started"}) = {}
      /\ Balances(ledger) = {}
  BY <1>1 DEF Consumed, OfType, RequestsIn, Balances, ToSet
<1>3. Units(ledger) = 0
  BY <1>2, FS_EmptySet DEF Units
<1>4. LedgerInv
  BY <1>2, FS_EmptySet DEF LedgerInv
<1>5. TypeOK
  <2>1. \A c \in Cycle : pc[c] \in Labels
    BY <1>1 DEF Labels
  <2>. QED
    BY <2>1, QuotaAssumption, BoundAssumption, AuthorizationAssumption
    DEF Init, TypeOK, Labels, Class, NotBound, NoReply, NoDraft, Adjudication,
        Larger
<1>6. ReplyInv /\ AdjudicationInv
  BY DEF Init, ReplyInv, AdjudicationInv, NoReply, NotBound, Answered
<1>7. LockInv
  BY <1>1 DEF LockInv, InLock
<1>8. OrderInv
  BY <1>1 DEF OrderInv, AmbiguityBlocks, Open, Pending, Posted
<1>9. BudgetInv
  BY <1>1, <1>2, <1>3, QuotaAssumption DEF BudgetInv, WithinBudget, Pending
<1>10. SpendInv
  BY <1>1, <1>3, QuotaAssumption DEF Init, SpendInv, SpendAccounted
<1>11. SendInv
  BY <1>1 DEF SendInv, OneTransmission, Pending
<1>. QED
  BY <1>4, <1>5, <1>6, <1>7, <1>8, <1>9, <1>10, <1>11 DEF CycleInv, TypeInv

LEMMA InvStep == CycleInv /\ [Next]_vars => CycleInv'
<1>. SUFFICES ASSUME CycleInv, [Next]_vars PROVE CycleInv'
  OBVIOUS
<1>1. TypeInv /\ TypeOK /\ LockInv /\ OrderInv /\ BudgetInv /\ SpendInv /\ SendInv
  BY DEF CycleInv, TypeInv
<1>2. Move
  BY <1>1, Moves
<1>. QED
  BY <1>1, <1>2, TypeStep, LockStep, OrderStep, BudgetStep, SpendStep, SendStep
  DEF CycleInv

THEOREM Invariance == Spec => []CycleInv
  BY InitInv, InvStep, PTL DEF Spec

(* Every variable of the cycle stays in its type.                          *)
THEOREM TypeCorrect == Spec => []TypeOK
<1>1. CycleInv => TypeOK
  BY DEF CycleInv, TypeInv
<1>. QED  BY <1>1, Invariance, PTL

(* The automated spend limit and the daily cap are never exceeded, although *)
(* the clock moves and cycles crash between the check and the record.      *)
THEOREM BudgetHolds == Spec => []WithinBudget
<1>1. CycleInv => WithinBudget
  BY DEF CycleInv, BudgetInv
<1>. QED  BY <1>1, Invariance, PTL

(* Whatever reached the provider, or was charged by it, is consumed in the *)
(* ledger, also when the answer is lost or the process dies.               *)
THEOREM SpendIsAccounted == Spec => []SpendAccounted
<1>1. CycleInv => SpendAccounted
  BY DEF CycleInv, SpendInv
<1>. QED  BY <1>1, Invariance, PTL

(* No authorization, run or request reaches the provider twice.            *)
THEOREM NeverRetried == Spec => []OneTransmission
<1>1. CycleInv => OneTransmission
  BY DEF CycleInv, SendInv
<1>. QED  BY <1>1, Invariance, PTL

(* After a transmission only its own outcome enters the ledger.            *)
THEOREM AmbiguityStops == Spec => []AmbiguityBlocks
<1>1. CycleInv => AmbiguityBlocks
  BY DEF CycleInv, OrderInv
<1>. QED  BY <1>1, Invariance, PTL

-----------------------------------------------------------------------------
(* What the cycle knows of evidence, authority and ledger.                 *)

(* The steps of one cycle. *)
Step(c) ==
    \/ Start(c) \/ Refuse(c) \/ Consume(c) \/ ConsumeFails(c)
    \/ Acquire(c) \/ LockBusy(c)
    \/ Admit(c) \/ Deny(c) \/ AdmitFails(c)
    \/ Intend(c) \/ IntentRejected(c)
    \/ Check(c) \/ Cancel(c) \/ Mark(c)
    \/ Send(c) \/ SendRefused(c) \/ TransmissionFailed(c)
    \/ PersistRaw(c) \/ PersistRawFails(c)
    \/ Reconcile(c) \/ Diverge(c)
    \/ PersistReceipt(c) \/ PersistReceiptFails(c)
    \/ PostFailed(c) \/ Receive(c)
    \/ Reopen(c) \/ Duplicate(c) \/ ReopenFails(c)
    \/ BuildFails(c) \/ Publish(c) \/ PublishFails(c)
    \/ Release(c) \/ ReleaseFails(c) \/ Crash(c)

Same(d) ==
    /\ pc'[d] = pc[d] /\ reply'[d] = reply[d] /\ class'[d] = class[d]
    /\ base'[d] = base[d] /\ head'[d] = head[d] /\ bound'[d] = bound[d]

(* Evidence is only added to.                                              *)
Grown ==
    /\ raw \subseteq raw' /\ receipts \subseteq receipts'
    /\ delivered \subseteq delivered'
    /\ ledger' = ledger \/ \E e \in Event : ledger' = Append(ledger, e)
    /\ authority' = authority \/ \E t : authority' = Append(authority, t)
    /\ \/ adjudications' = adjudications
       \/ \E d \in Adjudication : adjudications' = Append(adjudications, d)

LEMMA Recorded ==
    ASSUME TypeOK, NEW c \in Cycle, NEW e \in Event, NEW to,
           Record(c, e, to), OnlyLedger
    PROVE  /\ \A d \in Cycle \ {c} : Same(d)
           /\ Grown
           /\ ledger' \in {ledger, Append(ledger, e)}
           /\ pc'[c] \in {to, "stopped"}
           /\ pc'[c] # "stopped" =>
                 ledger' = Append(ledger, e) /\ UNCHANGED local
  BY ZenonT(60) DEF TypeOK, Record, OnlyLedger, Stop, End, Goto, Same, Grown, local,
     evidence, owner, provider

LEMMA RecordingSteps ==
    ASSUME TypeOK, NEW c \in Cycle
    PROVE  /\ Intend(c) =>
                 Record(c, EventOf(c, "intent"), "check") /\ OnlyLedger
           /\ Cancel(c) =>
                 Record(c, EventOf(c, "cancelled"), "release") /\ OnlyLedger
           /\ Mark(c) => Record(c, StartEvent(c), "send") /\ OnlyLedger
           /\ TransmissionFailed(c) =>
                 Record(c, EventOf(c, reply[c].kind), "release") /\ OnlyLedger
           /\ PostFailed(c) => Record(c, PostEvent(c), "release") /\ OnlyLedger
           /\ Receive(c) =>
                 /\ Record(c, [EventOf(c, "received") EXCEPT
                                  !.quota = reply[c].quota], "reopen")
                 /\ OnlyLedger
  BY DEF Intend, Cancel, Mark, TransmissionFailed, PostFailed, Receive

LEMMA Frames ==
    ASSUME TypeInv, NEW c \in Cycle, Step(c)
    PROVE  Grown /\ \A d \in Cycle \ {c} : Same(d)
<1>. USE DEF TypeInv, TypeOK, vars, evidence, owner, provider, local
<1>1. CASE \/ Start(c) \/ Refuse(c) \/ Consume(c) \/ ConsumeFails(c)
           \/ Acquire(c) \/ LockBusy(c) \/ Admit(c) \/ Deny(c) \/ AdmitFails(c)
           \/ IntentRejected(c) \/ Check(c)
  BY ZenonT(60), <1>1 DEF Grown, Same, Start, Refuse, Consume, ConsumeFails, Acquire,
     LockBusy, Admit, Deny, AdmitFails, IntentRejected, Check, OnlyLedger,
     Stop, End, Goto
<1>2. CASE \/ Send(c) \/ SendRefused(c) \/ PersistRaw(c) \/ PersistRawFails(c)
           \/ Reconcile(c) \/ Diverge(c)
           \/ PersistReceipt(c) \/ PersistReceiptFails(c)
  BY <1>2 DEF Grown, Same, Send, SendRefused, PersistRaw, PersistRawFails,
     Reconcile, Diverge, PersistReceipt, PersistReceiptFails, Answer, Failed,
     Goto
<1>3. CASE \/ Reopen(c) \/ Duplicate(c) \/ ReopenFails(c) \/ BuildFails(c)
           \/ Publish(c) \/ PublishFails(c) \/ Release(c) \/ ReleaseFails(c)
           \/ Crash(c)
  BY ZenonT(60), <1>3 DEF Grown, Same, Reopen, Duplicate, ReopenFails, BuildFails, Publish,
     Extended, PublishFails, Release, ReleaseFails, Crash, Stop, End, Goto
<1>4. CASE Intend(c) \/ Cancel(c) \/ Mark(c) \/ PostFailed(c) \/ Receive(c)
  BY <1>4, RecordingSteps, Recorded, EventFacts DEF Terminal
<1>5. CASE TransmissionFailed(c)
  <2>1. EventOf(c, reply[c].kind) \in Event
    BY <1>5, EventFacts DEF TransmissionFailed, Terminal
  <2>. QED BY <2>1, <1>5, RecordingSteps, Recorded
<1>. QED  BY <1>1, <1>2, <1>3, <1>4, <1>5 DEF Step

(* The steps of the owner, the operator, the clock and other publishers.   *)
LEMMA OutsideFrames ==
    ASSUME TypeInv,
           \/ Draft \/ PersistDraft \/ ChangeSource \/ Clear \/ Tick
           \/ OtherPublish \/ UNCHANGED vars
    PROVE  /\ Grown
           /\ ledger' = ledger
           /\ \A d \in Cycle : Same(d) \/ pc'[d] = "ended"
           /\ \/ authority' = authority
              \/ \E p \in Payload \ Bodies :
                    authority' = Append(authority,
                                        [payload |-> p, request |-> None])
<1>. USE DEF TypeInv, vars, evidence, owner, provider, local
<1>1. CASE \/ Draft \/ PersistDraft \/ ChangeSource \/ Tick \/ OtherPublish
           \/ UNCHANGED vars
  <2>1. ledger' = ledger /\ \A d \in Cycle : Same(d)
    BY <1>1 DEF Draft, PersistDraft, ChangeSource, Tick, OtherPublish, Same
  <2>2. \/ authority' = authority
        \/ \E p \in Payload \ Bodies :
              authority' = Append(authority, [payload |-> p, request |-> None])
    BY <1>1 DEF Draft, PersistDraft, ChangeSource, Tick, OtherPublish
  <2>3. Grown
    BY <1>1, <2>1, <2>2
    DEF Draft, PersistDraft, ChangeSource, Tick, OtherPublish, Grown, TypeOK
  <2>. QED  BY <2>1, <2>2, <2>3
<1>2. CASE Clear
  <2>1. Grown /\ ledger' = ledger /\ authority' = authority
    BY <1>2 DEF Clear, Grown
  <2>2. \A d \in Cycle : Same(d) \/ pc'[d] = "ended"
    BY <1>2 DEF Clear, Same, Goto, TypeOK
  <2>. QED  BY <2>1, <2>2
<1>. QED  BY <1>1, <1>2

-----------------------------------------------------------------------------
(* Evidence before ledger, ledger before publication.                      *)
Holding == Answered \cup {"answer", "post"}

(* What a cycle that holds an answer may count on.                         *)
Vouched(c) ==
    LET p == reply[c].payload IN
    /\ pc[c] = "post" => reply[c].kind = "ok"
    /\ pc[c] \in Holding /\ reply[c].kind = "ok" =>
          <<request(c), p>> \in delivered
    /\ pc[c] \in Answered \/ (pc[c] = "post" /\ class[c] # "raw") => p \in raw
    /\ pc[c] \in {"received", "reopen", "publish"} =>
          <<request(c), p>> \in receipts
    /\ pc[c] \in Answered \ {"reconcile"}
          \/ (pc[c] = "post" /\ class[c] = "receipt") => reply[c].quota # 0
    /\ pc[c] \in {"reopen", "publish"} =>
          \E e \in OfType(ledger, {"received"}) :
             e.request = request(c) /\ e.quota # 0
    /\ pc[c] = "publish" =>
          /\ head[c] <= Len(authority)
          /\ head[c] = Len(authority) => p \notin Bodies

Attested(e) ==
    /\ e.type = "received" =>
          \E p \in raw : <<e.request, p>> \in receipts \cap delivered
    /\ e.class \in {"quota", "receipt"} =>
          \E p \in raw : <<e.request, p>> \in delivered

Backed(t) ==
    t.request # None =>
       /\ t.payload \in raw
       /\ <<t.request, t.payload>> \in receipts \cap delivered
       /\ \E e \in OfType(ledger, {"received"}) :
             e.request = t.request /\ e.quota # 0

EvidenceInv ==
    EvidenceFirst /\ PublishedIsSettled /\ \A c \in Cycle : Vouched(c)

LEMMA OfTypeGrows ==
    ASSUME TypeOK, Grown, NEW T
    PROVE  OfType(ledger, T) \subseteq OfType(ledger', T)
<1>1. CASE ledger' = ledger
  BY <1>1
<1>2. ASSUME NEW e \in Event, ledger' = Append(ledger, e)
      PROVE  OfType(ledger, T) \subseteq OfType(ledger', T)
  BY <1>2, AppendFacts DEF TypeOK, OfType
<1>. QED  BY <1>1, <1>2 DEF Grown

LEMMA AttestedKept ==
    ASSUME TypeOK, EvidenceFirst, Grown,
           \/ ledger' = ledger
           \/ \E e \in Event : ledger' = Append(ledger, e) /\ Attested(e)
    PROVE  EvidenceFirst'
<1>1. \A e \in ToSet(ledger) : Attested(e)
  BY DEF EvidenceFirst, Attested
<1>2. \A e \in ToSet(ledger') : Attested(e)
  <2>1. CASE ledger' = ledger
    BY <1>1, <2>1
  <2>2. ASSUME NEW e \in Event, ledger' = Append(ledger, e), Attested(e)
        PROVE  \A x \in ToSet(ledger') : Attested(x)
    <3>1. ToSet(ledger') = ToSet(ledger) \cup {e}
      BY <2>2, AppendFacts DEF TypeOK
    <3>. QED  BY <3>1, <1>1, <2>2, Zenon
  <2>. QED  BY <2>1, <2>2
<1>3. ASSUME NEW e, Attested(e) PROVE Attested(e)'
  BY <1>3 DEF Attested, Grown
<1>. QED  BY <1>2, <1>3 DEF EvidenceFirst, Attested

LEMMA BackedKept ==
    ASSUME TypeOK, PublishedIsSettled, Grown,
           \/ authority' = authority
           \/ \E p \in Payload, q \in Request \cup {None} :
                 LET t == [payload |-> p, request |-> q] IN
                 authority' = Append(authority, t) /\ Backed(t) /\ p \notin Bodies
    PROVE  PublishedIsSettled'
<1>0. authority \in Seq([payload: Payload, request: Request \cup {None}])
  BY DEF TypeOK
<1>1. ASSUME NEW t, Backed(t) PROVE Backed(t)'
  BY <1>1, OfTypeGrows DEF Backed, Grown
<1>2. \A t \in ToSet(authority) : Backed(t)
  BY DEF PublishedIsSettled, Backed
<1>3. /\ \A t \in ToSet(authority') : Backed(t)
      /\ \A i, j \in DOMAIN authority' :
            authority'[i].payload = authority'[j].payload => i = j
  <2>1. CASE authority' = authority
    BY <2>1, <1>2 DEF PublishedIsSettled
  <2>2. ASSUME NEW p \in Payload, NEW q \in Request \cup {None},
               authority' = Append(authority, [payload |-> p, request |-> q]),
               Backed([payload |-> p, request |-> q]), p \notin Bodies
        PROVE  <1>3!1 /\ <1>3!2
    <3>. DEFINE t == [payload |-> p, request |-> q]
    <3>1. /\ DOMAIN authority' = 1..(Len(authority) + 1)
          /\ DOMAIN authority = 1..Len(authority) /\ Len(authority) \in Nat
          /\ \A i \in DOMAIN authority : authority'[i] = authority[i]
          /\ authority'[Len(authority) + 1] = t
      BY <1>0, <2>2
    <3>2. ToSet(authority') = ToSet(authority) \cup {t}
      BY <3>1 DEF ToSet
    <3>3. \A i \in DOMAIN authority : authority[i].payload # p
      BY <2>2 DEF Bodies, ToSet
    <3>4. ASSUME NEW i \in DOMAIN authority', NEW j \in DOMAIN authority',
                 authority'[i].payload = authority'[j].payload
          PROVE  i = j
      <4>1. CASE i \in DOMAIN authority /\ j \in DOMAIN authority
        BY <4>1, <3>1, <3>4 DEF PublishedIsSettled
      <4>2. CASE i = Len(authority) + 1 \/ j = Len(authority) + 1
        BY <4>2, <3>1, <3>3, <3>4
      <4>. QED  BY <4>1, <4>2, <3>1
    <3>. QED  BY <3>2, <3>4, <1>2, <2>2
  <2>. QED  BY <2>1, <2>2
<1>. QED  BY <1>1, <1>3 DEF PublishedIsSettled, Backed

LEMMA VouchedKept ==
    ASSUME TypeOK, Grown, NEW d \in Cycle, Vouched(d), Same(d)
    PROVE  Vouched(d)'
<1>1. OfType(ledger, {"received"}) \subseteq OfType(ledger', {"received"})
  BY OfTypeGrows
<1>2. pc[d] = "publish" =>
          /\ head[d] <= Len(authority')
          /\ head[d] = Len(authority') => reply[d].payload \notin Bodies'
  <2>1. CASE authority' = authority
    BY <2>1 DEF Vouched, Bodies
  <2>2. ASSUME NEW t, authority' = Append(authority, t)
        PROVE  pc[d] = "publish" =>
                 head[d] <= Len(authority') /\ head[d] # Len(authority')
    <3>1. Len(authority') = Len(authority) + 1 /\ Len(authority) \in Nat
          /\ head[d] \in Nat
      BY <2>2 DEF TypeOK
    <3>. QED  BY <3>1 DEF Vouched
  <2>. QED  BY <2>1, <2>2 DEF Grown
<1>. QED  BY <1>1, <1>2 DEF Vouched, Same, Grown, request

LEMMA VouchedLeft ==
    ASSUME NEW c, pc'[c] \notin Holding
    PROVE  Vouched(c)'
  BY DEF Vouched, Holding, Answered

(* A step keeps what its own cycle may count on.                           *)
LEMMA HoldingSteps ==
    ASSUME TypeInv, NEW c \in Cycle, Vouched(c), Step(c)
    PROVE  Vouched(c)'
<1>0. Grown
  BY Frames
<1>. USE DEF TypeInv, TypeOK, evidence, owner, provider, local
<1>1. CASE \/ Start(c) \/ Refuse(c) \/ Consume(c) \/ ConsumeFails(c)
           \/ Acquire(c) \/ LockBusy(c) \/ Admit(c) \/ Deny(c) \/ AdmitFails(c)
           \/ IntentRejected(c) \/ Check(c)
  <2>1. pc'[c] \notin Holding
    BY <1>1 DEF Start, Refuse, Consume, ConsumeFails, Acquire, LockBusy,
       Admit, Deny, AdmitFails, IntentRejected, Check, Stop, End, Goto,
       Holding, Answered
  <2>. QED  BY <2>1, VouchedLeft
<1>2. CASE \/ Duplicate(c) \/ ReopenFails(c) \/ BuildFails(c)
           \/ Publish(c) \/ PublishFails(c) \/ Release(c) \/ ReleaseFails(c)
           \/ Crash(c)
  <2>1. pc'[c] \notin Holding
    BY ZenonT(60), <1>2 DEF Duplicate, ReopenFails, BuildFails, Publish, PublishFails,
       Release, ReleaseFails, Crash, Stop, End, Goto, Holding, Answered
  <2>. QED  BY <2>1, VouchedLeft
<1>3. CASE \/ Intend(c) \/ Cancel(c) \/ Mark(c) \/ TransmissionFailed(c)
           \/ PostFailed(c)
  <2>1. pc'[c] \in {"check", "release", "send", "stopped"}
    BY <1>3 DEF Intend, Cancel, Mark, TransmissionFailed, PostFailed, Record,
       Stop, End, Goto
  <2>. QED  BY <2>1, VouchedLeft DEF Holding, Answered
<1>4. CASE Send(c)
  <2>0. PICK cost \in 0..1 : \E r \in Answers(c, cost) :
               /\ Answer(c, r)
               /\ delivered' = IF r.kind = "ok"
                               THEN delivered \cup {<<request(c), r.payload>>}
                               ELSE delivered
    BY <1>4 DEF Send
  <2>1. PICK r \in Answers(c, cost) :
               /\ Answer(c, r)
               /\ delivered' = IF r.kind = "ok"
                               THEN delivered \cup {<<request(c), r.payload>>}
                               ELSE delivered
    BY <2>0
  <2>2. pc'[c] = "answer" /\ reply'[c] = r
    BY <2>1 DEF Answer, Goto
  <2>. QED  BY <2>1, <2>2 DEF Vouched, Answered, Holding, request
<1>5. CASE SendRefused(c)
  <2>1. pc'[c] = "answer" /\ reply'[c].kind = "transport"
    BY <1>5 DEF SendRefused, Answer, Goto, NoReply
  <2>. QED  BY <2>1 DEF Vouched, Answered
<1>6. CASE PersistRaw(c) \/ PersistRawFails(c)
  BY ZenonT(60), <1>6 DEF PersistRaw, PersistRawFails, Failed, Goto, At, Vouched, Answered,
     Holding, request
<1>7. CASE Reconcile(c) \/ Diverge(c)
  BY <1>7 DEF Reconcile, Diverge, Reconciles, Failed, Goto, At, Vouched,
     Answered, Holding, request, TypeInv, ReplyInv
<1>8. CASE PersistReceipt(c) \/ PersistReceiptFails(c)
  BY <1>8 DEF PersistReceipt, PersistReceiptFails, Failed, Goto, At, Vouched,
     Answered, Holding, request, ReplyInv
<1>9. CASE Receive(c)
  <2>. DEFINE e == [EventOf(c, "received") EXCEPT !.quota = reply[c].quota]
  <2>1. e \in Event /\ e.type = "received" /\ e.request = request(c)
        /\ e.quota = reply[c].quota
    BY EventFacts DEF EventOf
  <2>2. CASE pc'[c] = "stopped"
    BY <2>2, VouchedLeft DEF Holding, Answered
  <2>3. CASE pc'[c] # "stopped"
    <3>1. ledger' = Append(ledger, e) /\ UNCHANGED local /\ pc'[c] = "reopen"
          /\ UNCHANGED <<raw, receipts, delivered, authority>>
      BY <1>9, <2>3 DEF Receive, Record, OnlyLedger, Stop, End, Goto
    <3>. HIDE DEF e
    <3>2. e \in OfType(ledger', {"received"})
      <4>1. ledger \in Seq(Event)
        OBVIOUS
      <4>2. ToSet(Append(ledger, e)) = ToSet(ledger) \cup {e}
        BY <4>1, <2>1, AppendFacts, Zenon
      <4>. QED  BY <4>2, <3>1, <2>1 DEF OfType
    <3>3. reply[c].quota # 0 /\ reply[c].payload \in raw
          /\ <<request(c), reply[c].payload>> \in delivered
          /\ <<request(c), reply[c].payload>> \in receipts
      BY <1>9 DEF Receive, At, Vouched, Answered, Holding, ReplyInv
    <3>4. \E x \in OfType(ledger', {"received"}) :
             x.request = request(c) /\ x.quota # 0
      BY <3>2, <3>3, <2>1
    <3>. QED  BY <3>1, <3>3, <3>4 DEF Vouched, Answered, Holding, request
  <2>. QED  BY <2>2, <2>3
<1>10. CASE Reopen(c)
  BY <1>10 DEF Reopen, NotYetPublished, Goto, At, Vouched, Answered, Holding,
     request, Bodies
<1>. QED
  BY <1>1, <1>2, <1>3, <1>4, <1>5, <1>6, <1>7, <1>8, <1>9, <1>10 DEF Step

(* What a step of a cycle adds to the ledger is attested.                  *)
LEMMA AttestedSteps ==
    ASSUME TypeInv, NEW c \in Cycle, Vouched(c), Step(c)
    PROVE  \/ ledger' = ledger
           \/ \E e \in Event : ledger' = Append(ledger, e) /\ Attested(e)
<1>. USE DEF TypeInv
<1>a. ASSUME NEW e \in Event, NEW to, Record(c, e, to), Attested(e)
      PROVE  \/ ledger' = ledger
             \/ \E x \in Event : ledger' = Append(ledger, x) /\ Attested(x)
  BY <1>a DEF Record
<1>b. \A t \in {"intent", "started", "cancelled", "http", "transport"} :
         EventOf(c, t) \in Event /\ Attested(EventOf(c, t))
  BY EventFacts DEF Attested, EventOf, Terminal
<1>1. CASE Intend(c) \/ Cancel(c)
  BY <1>1, <1>a, <1>b, RecordingSteps
<1>2. CASE Mark(c)
  <2>1. StartEvent(c) \in Event /\ Attested(StartEvent(c))
    BY EventFacts DEF Attested, EventOf, StartEvent
  <2>. QED  BY <1>2, <2>1, <1>a, RecordingSteps
<1>3. CASE TransmissionFailed(c)
  <2>1. reply[c].kind \in {"http", "transport"}
    BY <1>3 DEF TransmissionFailed
  <2>. QED  BY <1>3, <2>1, <1>a, <1>b, RecordingSteps
<1>4. CASE PostFailed(c)
  <2>1. PostEvent(c) \in Event /\ PostEvent(c).type = "post"
        /\ PostEvent(c).class = class[c] /\ PostEvent(c).request = request(c)
    BY EventFacts DEF EventOf, PostEvent
  <2>2. reply[c].kind = "ok" /\ <<request(c), reply[c].payload>> \in delivered
        /\ (class[c] \in {"quota", "receipt"} => reply[c].payload \in raw)
    BY <1>4 DEF PostFailed, At, Vouched, Holding
  <2>3. Attested(PostEvent(c))
    BY <2>1, <2>2 DEF Attested
  <2>. QED  BY <1>4, <2>1, <2>3, <1>a, RecordingSteps
<1>5. CASE Receive(c)
  <2>. DEFINE e == [EventOf(c, "received") EXCEPT !.quota = reply[c].quota]
  <2>1. e \in Event /\ e.class = "none" /\ e.request = request(c)
    BY EventFacts DEF EventOf, TypeOK
  <2>2. reply[c].payload \in raw
        /\ <<request(c), reply[c].payload>> \in receipts \cap delivered
    BY <1>5 DEF Receive, At, Vouched, Answered, Holding, ReplyInv
  <2>. HIDE DEF e
  <2>3. Attested(e)
    BY <2>1, <2>2 DEF Attested
  <2>4. Record(c, e, "reopen")
    BY <1>5, RecordingSteps DEF e
  <2>. QED  BY <2>1, <2>3, <2>4, <1>a
<1>6. ASSUME ~(\/ Intend(c) \/ Cancel(c) \/ Mark(c) \/ TransmissionFailed(c)
               \/ PostFailed(c) \/ Receive(c))
      PROVE  ledger' = ledger
  BY <1>6 DEF Step, Start, Refuse, Consume, ConsumeFails, Acquire, LockBusy,
     Admit, Deny, AdmitFails, IntentRejected, Check, Send, SendRefused,
     PersistRaw, PersistRawFails, Reconcile, Diverge, PersistReceipt,
     PersistReceiptFails, Reopen, Duplicate, ReopenFails, BuildFails, Publish,
     PublishFails, Release, ReleaseFails, Crash
<1>. QED  BY <1>1, <1>2, <1>3, <1>4, <1>5, <1>6

(* What a cycle adds to the authority is backed and new.                   *)
LEMMA BackedSteps ==
    ASSUME TypeInv, NEW c \in Cycle, Vouched(c), Step(c)
    PROVE  \/ authority' = authority
           \/ \E p \in Payload, q \in Request \cup {None} :
                 LET t == [payload |-> p, request |-> q] IN
                 authority' = Append(authority, t) /\ Backed(t) /\ p \notin Bodies
<1>. USE DEF TypeInv, TypeOK, evidence, owner, provider, local
<1>1. CASE Publish(c) \/ PublishFails(c)
  <2>. DEFINE p == reply[c].payload
  <2>1. CASE authority' = authority
    BY <2>1
  <2>2. CASE authority' # authority
    <3>1. authority' = Append(authority, [payload |-> p, request |-> request(c)])
          /\ pc[c] = "publish" /\ head[c] = Len(authority)
      BY <1>1, <2>2 DEF Publish, PublishFails, Extended, Transaction, At
    <3>2. p \in Payload /\ request(c) \in Request /\ reply[c].kind = "ok"
      BY <3>1, EventFacts DEF ReplyInv, Answered
    <3>3. p \notin Bodies /\ p \in raw
          /\ <<request(c), p>> \in receipts \cap delivered
          /\ \E e \in OfType(ledger, {"received"}) :
                e.request = request(c) /\ e.quota # 0
      BY <3>1, <3>2 DEF Vouched, Answered, Holding
    <3>. HIDE DEF p
    <3>4. Backed([payload |-> p, request |-> request(c)])
      BY <3>3 DEF Backed
    <3>. QED  BY <3>1, <3>2, <3>3, <3>4
  <2>. QED  BY <2>1, <2>2
<1>2. CASE \/ Intend(c) \/ Cancel(c) \/ Mark(c) \/ TransmissionFailed(c)
           \/ PostFailed(c) \/ Receive(c)
  BY <1>2, RecordingSteps DEF OnlyLedger
<1>3. CASE ~(\/ Publish(c) \/ PublishFails(c)
             \/ Intend(c) \/ Cancel(c) \/ Mark(c) \/ TransmissionFailed(c)
             \/ PostFailed(c) \/ Receive(c))
  BY <1>3 DEF Step, Start, Refuse, Consume, ConsumeFails, Acquire, LockBusy,
     Admit, Deny, AdmitFails, IntentRejected, Check, OnlyLedger, Send,
     SendRefused, PersistRaw, PersistRawFails, Reconcile, Diverge,
     PersistReceipt, PersistReceiptFails, Reopen, Duplicate, ReopenFails,
     BuildFails, Release, ReleaseFails, Crash
<1>. QED  BY <1>1, <1>2, <1>3

LEMMA EvidenceStep == TypeInv /\ EvidenceInv /\ [Next]_vars => EvidenceInv'
<1>. SUFFICES ASSUME TypeInv, EvidenceInv, [Next]_vars PROVE EvidenceInv'
  OBVIOUS
<1>. USE DEF TypeInv
<1>1. ASSUME NEW c \in Cycle, Step(c) PROVE EvidenceInv'
  <2>1. Grown /\ \A d \in Cycle \ {c} : Same(d)
    BY <1>1, Frames
  <2>2. Vouched(c)
    BY DEF EvidenceInv
  <2>3. \A d \in Cycle : Vouched(d)'
    BY <2>1, <1>1, HoldingSteps, VouchedKept DEF EvidenceInv
  <2>4. EvidenceFirst'
    BY <2>1, <2>2, <1>1, AttestedSteps, AttestedKept DEF EvidenceInv
  <2>5. PublishedIsSettled'
    BY <2>1, <2>2, <1>1, BackedSteps, BackedKept DEF EvidenceInv
  <2>. QED  BY <2>3, <2>4, <2>5 DEF EvidenceInv
<1>2. ASSUME Grown, \A d \in Cycle : Same(d) \/ pc'[d] = "ended",
             ledger' = ledger,
             \/ authority' = authority
             \/ \E p \in Payload \ Bodies :
                   authority' = Append(authority, [payload |-> p, request |-> None])
      PROVE  EvidenceInv'
  <2>1. \A d \in Cycle : Vouched(d)'
    BY <1>2, VouchedKept, VouchedLeft DEF EvidenceInv, Holding, Answered
  <2>2. EvidenceFirst'
    BY <1>2, AttestedKept DEF EvidenceInv
  <2>3. \A p : Backed([payload |-> p, request |-> None])
    BY DEF Backed
  <2>4. PublishedIsSettled'
    BY <1>2, <2>3, BackedKept DEF EvidenceInv
  <2>. QED  BY <2>1, <2>2, <2>4 DEF EvidenceInv
<1>. QED  BY <1>1, <1>2, OutsideFrames DEF Next, Step

-----------------------------------------------------------------------------
(* The ledger the budget was decided on, and the balances.                 *)
Covered(q, L) == q >= Units(L) /\ PlanLimit - q >= SpendLimit - Units(L)

(* An adjudication covers the divergence of L, within its own usage.       *)
Adjudicated(L) ==
    Divergent(L) # {} =>
       \E i \in DOMAIN adjudications :
          LET d == adjudications[i] IN
          /\ d.entries = Len(L)
          /\ Divergent(L) = {d.request}
          /\ d.usage + 1 <= SpendLimit

(* How far the ledger has moved on from the one the cycle was admitted on. *)
Decided(c) ==
    LET L == Admitted(c) IN
    /\ pc[c] \in Pending \cup {"send", "answer", "reconcile"} =>
          base[c] <= Len(ledger)
    /\ pc[c] \in Pending => Units(ledger) = Units(L)
    /\ pc[c] \in {"send", "answer", "reconcile"} =>
          Units(ledger) = Units(L) + 1
    /\ pc[c] \in {"receipt", "received"}
          \/ (pc[c] = "post" /\ class[c] = "receipt") =>
             Covered(reply[c].quota, ledger)
    /\ pc[c] = "intent" => base[c] = Len(ledger)
    /\ pc[c] \in {"check", "mark"} => base[c] = Len(ledger) - 1
    /\ pc[c] = "send" => base[c] = Len(ledger) - 2
    /\ pc[c] \in Pending \cup {"send"} =>
          Divergent(ledger) = Divergent(L) /\ Adjudicated(L)

DecisionInv == BalanceCovers /\ \A c \in Cycle : Decided(c)

LEMMA PrefixFacts ==
    ASSUME NEW L \in Seq(Event), NEW e \in Event
    PROVE  /\ SubSeq(L, 1, Len(L)) = L
           /\ \A i \in 0..Len(L) : SubSeq(Append(L, e), 1, i) = SubSeq(L, 1, i)
           /\ \A i \in 0..Len(L) : Len(SubSeq(L, 1, i)) = i
<1>1. SubSeq(L, 1, Len(L)) = L
  OBVIOUS
<1>2. ASSUME NEW i \in 0..Len(L)
      PROVE  SubSeq(Append(L, e), 1, i) = SubSeq(L, 1, i)
  OBVIOUS
<1>3. ASSUME NEW i \in 0..Len(L)
      PROVE  Len(SubSeq(L, 1, i)) = i
  OBVIOUS
<1>. QED  BY <1>1, <1>2, <1>3

LEMMA DivergentAppend ==
    ASSUME NEW L \in Seq(Event), NEW e \in Event, e.class # "quota"
    PROVE  Divergent(Append(L, e)) = Divergent(L)
<1>1. ToSet(Append(L, e)) = ToSet(L) \cup {e}
  BY AppendFacts
<1>2. {x \in ToSet(Append(L, e)) : x.class = "quota"}
         = {x \in ToSet(L) : x.class = "quota"}
  BY <1>1
<1>. QED  BY <1>2 DEF Divergent

(* A balance that covers the ledger it enters keeps the invariant.         *)
LEMMA BalancesKept ==
    ASSUME TypeInv, BalanceCovers,
           \/ ledger' = ledger
           \/ \E e \in Event : /\ ledger' = Append(ledger, e)
                               /\ e.quota # 0 => e.type # "started"
                                                 /\ Covered(e.quota, ledger)
    PROVE  BalanceCovers'
<1>0. ledger \in Seq(Event) /\ IsFiniteSet(Consumed(ledger))
  BY DEF TypeInv, TypeOK, LedgerInv
<1>1. CASE ledger' = ledger
  BY <1>1 DEF BalanceCovers, Balances, Units, Consumed
<1>2. ASSUME NEW e \in Event, ledger' = Append(ledger, e),
             e.quota # 0 => e.type # "started" /\ Covered(e.quota, ledger)
      PROVE  BalanceCovers'
  <2>1. /\ DOMAIN ledger' = 1..(Len(ledger) + 1)
        /\ DOMAIN ledger = 1..Len(ledger) /\ Len(ledger) \in Nat
        /\ \A i \in DOMAIN ledger : ledger'[i] = ledger[i]
        /\ ledger'[Len(ledger) + 1] = e
        /\ ledger' \in Seq(Event) /\ Len(ledger') = Len(ledger) + 1
    BY <1>0, <1>2
  <2>2. ASSUME NEW i \in Balances(ledger')
        PROVE  Covered(ledger'[i].quota, SubSeq(ledger', 1, i))
    <3>0. i \in DOMAIN ledger' /\ ledger'[i].quota # 0
      BY DEF Balances
    <3>1. CASE i \in DOMAIN ledger
      <4>1. i \in Balances(ledger)
        BY <2>1, <3>0, <3>1 DEF Balances
      <4>2. SubSeq(ledger', 1, i) = SubSeq(ledger, 1, i)
        <5>1. i \in 0..Len(ledger)
          BY <2>1, <3>1
        <5>. QED  BY <5>1, <1>0, <1>2, PrefixFacts
      <4>. QED  BY <4>1, <4>2, <2>1, <3>1 DEF BalanceCovers, Covered
    <3>2. CASE i = Len(ledger')
      <4>1. SubSeq(ledger', 1, i) = ledger'
        BY <2>1, <3>2, PrefixFacts
      <4>2. ledger'[i] = e
        BY <2>1, <3>2
      <4>3. Units(ledger') = Units(ledger) /\ Covered(e.quota, ledger)
        BY <4>2, <3>0, <1>0, <1>2, AppendConsumed
      <4>. QED  BY <4>1, <4>2, <4>3 DEF Covered
    <3>. QED  BY <3>0, <3>1, <3>2, <2>1
  <2>. QED  BY <2>2 DEF BalanceCovers, Covered
<1>. QED  BY <1>1, <1>2

(* A cycle that does not move keeps its decision while the ledger stands.  *)
LEMMA DecisionKept ==
    ASSUME TypeOK, Grown, NEW d \in Cycle, Decided(d), Same(d),
           ledger' = ledger
    PROVE  Decided(d)'
<1>1. Admitted(d)' = Admitted(d)
  BY DEF Admitted, Same
<1>2. ASSUME NEW L, Adjudicated(L) PROVE Adjudicated(L)'
  <2>1. CASE adjudications' = adjudications
    BY <2>1, <1>2 DEF Adjudicated
  <2>2. ASSUME NEW a \in Adjudication, adjudications' = Append(adjudications, a)
        PROVE  Adjudicated(L)'
    <3>1. \A i \in DOMAIN adjudications :
             i \in DOMAIN adjudications' /\ adjudications'[i] = adjudications[i]
      BY SMTT(40), <2>2 DEF TypeOK
    <3>. QED  BY <3>1, <1>2 DEF Adjudicated
  <2>. QED  BY <2>1, <2>2 DEF Grown
<1>. QED  BY <1>1, <1>2 DEF Decided, Same

LEMMA DecisionLeft ==
    ASSUME NEW c, pc'[c] \notin Pending \cup Posted
    PROVE  Decided(c)'
  BY DEF Decided, Pending, Posted

(* The decision: what admission establishes.                               *)
LEMMA DecisionMade ==
    ASSUME TypeInv, NEW c \in Cycle, Admit(c)
    PROVE  Decided(c)'
<1>0. ledger \in Seq(Event) /\ base \in [Cycle -> Nat]
      /\ pc \in [Cycle -> Labels]
      /\ bound[c].adj \in 0..Len(adjudications)
      /\ adjudications \in Seq(Adjudication)
  <2>1. /\ ledger \in Seq(Event) /\ base \in [Cycle -> Nat]
        /\ pc \in [Cycle -> Labels] /\ adjudications \in Seq(Adjudication)
    BY DEF TypeInv, TypeOK
  <2>2. bound \in [Cycle -> [head: Nat, adj: 0..2, from: Nat]]
    BY DEF TypeInv, TypeOK
  <2>3. bound[c].adj \in Nat /\ bound[c].adj <= Len(adjudications)
    BY <2>2 DEF TypeInv, AdjudicationInv
  <2>. QED  BY <2>1, <2>3
<1>1. /\ base'[c] = Len(ledger) /\ pc'[c] = "intent"
      /\ ledger' = ledger /\ adjudications' = adjudications
  BY <1>0 DEF Admit, Goto, owner
<1>2. Admitted(c)' = ledger
  BY <1>0, <1>1, PrefixFacts DEF Admitted
<1>3. Adjudicated(ledger)
  <2>1. CASE bound[c].adj = 0
    BY <2>1 DEF Admit, Admissible, LedgerSettled, Adjudicated
  <2>2. CASE bound[c].adj # 0
    <3>. DEFINE i == bound[c].adj
    <3>1. i \in DOMAIN adjudications
      BY <1>0, <2>2
    <3>2. Covers(adjudications[i], ledger)
      BY <2>2 DEF Admit, Admissible, LedgerSettled, ValidAdjudication
    <3>3. adjudications[i].usage + 1 <= SpendLimit
      <4>1. adjudications[i].usage \in Nat
        <5>1. adjudications[i] \in Adjudication
          BY <1>0, <3>1
        <5>. QED  BY <5>1 DEF Adjudication
      <4>2. Usage(ledger, i) + 1 <= SpendLimit
        BY DEF Admit, Admissible, WithinLimits
      <4>3. Units(ledger) \in Nat
        BY <1>0, UsageFacts
      <4>. QED
        BY <4>1, <4>2, <4>3, <2>2, QuotaAssumption DEF Usage, Larger
    <3>. HIDE DEF i
    <3>. QED  BY <3>1, <3>2, <3>3 DEF Adjudicated, Covers
  <2>. QED  BY <2>1, <2>2
<1>4. Adjudicated(ledger)' /\ Units(ledger)' = Units(ledger)
      /\ Divergent(ledger)' = Divergent(ledger)
  BY <1>1, <1>3 DEF Adjudicated
<1>5. Len(ledger) \in Nat
  BY <1>0
<1>. QED  BY <1>1, <1>2, <1>3, <1>5 DEF Decided, Adjudicated, Pending

(* The decision while the cycle records its intent and its transmission.   *)
LEMMA DecisionRecorded ==
    ASSUME TypeInv, OrderInv, NEW c \in Cycle, Decided(c),
           NEW e \in Event, NEW to, Record(c, e, to), OnlyLedger,
           e.class # "quota",
           \/ At(c, "intent") /\ e.type = "intent" /\ to = "check"
           \/ At(c, "mark") /\ e.type = "started" /\ to = "send"
                            /\ e.request = request(c)
    PROVE  Decided(c)'
<1>0. ledger \in Seq(Event) /\ IsFiniteSet(Consumed(ledger))
      /\ pc \in [Cycle -> Labels] /\ base[c] \in Nat /\ Len(ledger) \in Nat
  BY SMTT(40) DEF TypeInv, TypeOK, LedgerInv
<1>1. CASE pc'[c] = "stopped"
  BY <1>1, DecisionLeft DEF Pending, Posted
<1>2. CASE pc'[c] # "stopped"
  <2>1. /\ ledger' = Append(ledger, e) /\ base' = base /\ pc'[c] = to
        /\ adjudications' = adjudications
    BY <1>2, <1>0 DEF Record, Stop, End, Goto, OnlyLedger, owner, local
  <2>2. base[c] \in 0..Len(ledger)
    BY <1>0 DEF Decided, At, Pending
  <2>3. Admitted(c)' = Admitted(c) /\ Len(ledger') = Len(ledger) + 1
    BY <2>1, <2>2, <1>0, PrefixFacts DEF Admitted
  <2>4. Divergent(ledger') = Divergent(ledger)
    BY <2>1, <1>0, DivergentAppend
  <2>5. Adjudicated(Admitted(c))' /\ Divergent(ledger') = Divergent(Admitted(c))
    BY <2>1, <2>3, <2>4 DEF Decided, At, Pending, Adjudicated
  <2>6. CASE At(c, "intent")
    <3>1. Units(ledger') = Units(ledger)
      BY <2>1, <2>6, <1>0, AppendConsumed DEF At
    <3>2. base[c] = Len(ledger) /\ Units(ledger) = Units(Admitted(c))
      BY <2>6 DEF Decided, At, Pending
    <3>3. pc'[c] = "check"
      BY <2>1, <2>6 DEF At
    <3>4. base'[c] <= Len(ledger') /\ base'[c] = Len(ledger') - 1
          /\ Units(ledger') = Units(Admitted(c)')
      BY <3>1, <3>2, <2>1, <2>3, <1>0
    <3>. QED  BY <3>3, <3>4, <2>5, <2>3 DEF Decided
  <2>7. CASE At(c, "mark")
    <3>0. e.request \notin Consumed(ledger) /\ e.type = "started"
      BY <2>7 DEF OrderInv, At
    <3>1. Units(ledger') = Units(ledger) + 1
      BY <2>1, <3>0, <1>0, AppendConsumed
    <3>2. base[c] = Len(ledger) - 1 /\ Units(ledger) = Units(Admitted(c))
      BY <2>7 DEF Decided, At, Pending
    <3>3. pc'[c] = "send"
      BY <2>1, <2>7 DEF At
    <3>4. base'[c] <= Len(ledger') /\ base'[c] = Len(ledger') - 2
          /\ Units(ledger') = Units(Admitted(c)') + 1
      BY <3>1, <3>2, <2>1, <2>3, <1>0
    <3>. QED  BY <3>3, <3>4, <2>5, <2>3 DEF Decided, Pending
  <2>. QED  BY <2>6, <2>7
<1>. QED  BY <1>1, <1>2

LEMMA DecisionSteps ==
    ASSUME TypeInv, OrderInv, NEW c \in Cycle, Decided(c), Step(c)
    PROVE  Decided(c)'
<1>. USE DEF TypeInv, TypeOK, evidence, owner, provider, local
<1>1. CASE Admit(c)
  BY <1>1, DecisionMade
<1>2. CASE Intend(c)
  <2>1. EventOf(c, "intent") \in Event /\ EventOf(c, "intent").class = "none"
        /\ EventOf(c, "intent").type = "intent"
    BY EventFacts DEF EventOf
  <2>. QED  BY <1>2, <2>1, RecordingSteps, DecisionRecorded DEF Intend
<1>3. CASE Mark(c)
  <2>1. StartEvent(c) \in Event /\ StartEvent(c).class = "none"
        /\ StartEvent(c).type = "started" /\ StartEvent(c).request = request(c)
    BY EventFacts DEF EventOf, StartEvent
  <2>. QED  BY <1>3, <2>1, RecordingSteps, DecisionRecorded DEF Mark
<1>4. CASE \/ Start(c) \/ Refuse(c) \/ Consume(c) \/ ConsumeFails(c)
           \/ Acquire(c) \/ LockBusy(c) \/ Deny(c) \/ AdmitFails(c)
           \/ IntentRejected(c)
  <2>1. pc'[c] \notin Pending \cup Posted
    BY <1>4 DEF Start, Refuse, Consume, ConsumeFails, Acquire, LockBusy, Deny,
       AdmitFails, IntentRejected, Stop, End, Goto, Pending, Posted
  <2>. QED  BY <2>1, DecisionLeft
<1>5. CASE \/ Reopen(c) \/ Duplicate(c) \/ ReopenFails(c) \/ BuildFails(c)
           \/ Publish(c) \/ PublishFails(c) \/ Release(c) \/ ReleaseFails(c)
           \/ Crash(c)
  <2>1. pc'[c] \notin Pending \cup Posted
    BY ZenonT(60), <1>5 DEF Reopen, Duplicate, ReopenFails, BuildFails, Publish,
       PublishFails, Release, ReleaseFails, Crash, Stop, End, Goto,
       Pending, Posted
  <2>. QED  BY <2>1, DecisionLeft
<1>6. CASE Cancel(c) \/ TransmissionFailed(c) \/ PostFailed(c) \/ Receive(c)
  <2>1. pc'[c] \in {"release", "reopen", "stopped"}
    BY <1>6 DEF Cancel, TransmissionFailed, PostFailed, Receive, Record, Stop,
       End, Goto
  <2>. QED  BY <2>1, DecisionLeft DEF Pending, Posted
<1>7. CASE \/ Check(c) \/ Send(c) \/ SendRefused(c) \/ PersistRaw(c)
           \/ PersistRawFails(c) \/ Reconcile(c) \/ Diverge(c)
           \/ PersistReceipt(c) \/ PersistReceiptFails(c)
  <2>1. /\ ledger' = ledger /\ base' = base /\ adjudications' = adjudications
        /\ Admitted(c)' = Admitted(c)
    BY <1>7 DEF Check, Send, SendRefused, PersistRaw, PersistRawFails,
       Reconcile, Diverge, PersistReceipt, PersistReceiptFails, OnlyLedger,
       Admitted
  <2>2. Adjudicated(Admitted(c)) => Adjudicated(Admitted(c))'
    BY <2>1 DEF Adjudicated
  <2>3. CASE Check(c)
    <3>1. pc[c] = "check" /\ pc'[c] = "mark"
      BY <2>3 DEF Check, At, Goto
    <3>. QED  BY <3>1, <2>1, <2>2 DEF Decided, Pending
  <2>4. CASE Send(c) \/ SendRefused(c)
    <3>1. pc[c] = "send" /\ pc'[c] = "answer"
      BY <2>4 DEF Send, SendRefused, Answer, At, Goto
    <3>. QED  BY <3>1, <2>1 DEF Decided, Pending
  <2>5. CASE PersistRaw(c) \/ PersistRawFails(c)
    <3>1. /\ pc[c] = "answer"
          /\ pc'[c] # "reconcile" => pc'[c] = "post" /\ class'[c] = "raw"
      BY <2>5 DEF PersistRaw, PersistRawFails, Failed, At, Goto
    <3>. QED  BY <3>1, <2>1 DEF Decided, Pending
  <2>6. CASE Reconcile(c)
    <3>1. pc[c] = "reconcile" /\ pc'[c] = "receipt" /\ reply' = reply
      BY <2>6 DEF Reconcile, At, Goto
    <3>2. Units(ledger) = Units(Admitted(c)) + 1
      BY <3>1 DEF Decided
    <3>3. Covered(reply[c].quota, ledger)
      BY <2>6, <3>2 DEF Reconcile, Reconciles, Covered
    <3>. QED  BY <3>1, <3>3, <2>1 DEF Decided, Covered, Pending
  <2>7. CASE Diverge(c)
    <3>1. pc'[c] = "post" /\ class'[c] = "quota"
      BY <2>7 DEF Diverge, Failed, Goto
    <3>. QED  BY <3>1 DEF Decided, Pending
  <2>8. CASE PersistReceipt(c) \/ PersistReceiptFails(c)
    <3>1. pc[c] = "receipt" /\ pc'[c] \in {"received", "post"} /\ reply' = reply
      BY <2>8 DEF PersistReceipt, PersistReceiptFails, Failed, At, Goto
    <3>2. Covered(reply[c].quota, ledger)
      BY <3>1 DEF Decided
    <3>. QED  BY <3>1, <3>2, <2>1 DEF Decided, Covered, Pending
  <2>. QED  BY <1>7, <2>3, <2>4, <2>5, <2>6, <2>7, <2>8
<1>. QED  BY <1>1, <1>2, <1>3, <1>4, <1>5, <1>6, <1>7 DEF Step

(* What a step of a cycle adds to the ledger carries no balance, or one    *)
(* that covers the ledger.                                                 *)
LEMMA CoveredSteps ==
    ASSUME TypeInv, NEW c \in Cycle, Decided(c), Step(c)
    PROVE  \/ ledger' = ledger
           \/ /\ pc[c] \in InLock
              /\ \E e \in Event : /\ ledger' = Append(ledger, e)
                                  /\ e.quota # 0 => e.type # "started"
                                                    /\ Covered(e.quota, ledger)
<1>. USE DEF TypeInv
<1>. DEFINE Fit(e) ==
         e.quota # 0 => e.type # "started" /\ Covered(e.quota, ledger)
<1>a. ASSUME NEW e \in Event, NEW to, Record(c, e, to), Fit(e), pc[c] \in InLock
      PROVE  \/ ledger' = ledger
             \/ /\ pc[c] \in InLock
                /\ \E x \in Event : ledger' = Append(ledger, x) /\ Fit(x)
  BY <1>a DEF Record
<1>1. CASE Intend(c) \/ Cancel(c)
  <2>1. /\ EventOf(c, "intent") \in Event /\ EventOf(c, "cancelled") \in Event
        /\ EventOf(c, "intent").quota = 0 /\ EventOf(c, "cancelled").quota = 0
    BY EventFacts DEF EventOf, Terminal
  <2>2. pc[c] \in InLock
    BY <1>1 DEF Intend, Cancel, At, InLock
  <2>. QED  BY <1>1, <2>1, <2>2, <1>a, RecordingSteps
<1>2. CASE Mark(c)
  <2>1. StartEvent(c) \in Event /\ StartEvent(c).quota = 0
    BY EventFacts DEF EventOf, StartEvent
  <2>2. pc[c] \in InLock
    BY <1>2 DEF Mark, At, InLock
  <2>. QED  BY <1>2, <2>1, <2>2, <1>a, RecordingSteps
<1>3. CASE TransmissionFailed(c)
  <2>1. reply[c].kind \in {"http", "transport"} /\ pc[c] \in InLock
    BY <1>3 DEF TransmissionFailed, At, InLock
  <2>2. EventOf(c, reply[c].kind) \in Event
        /\ EventOf(c, reply[c].kind).quota = 0
    BY <2>1, EventFacts DEF EventOf, Terminal
  <2>. QED  BY <1>3, <2>1, <2>2, <1>a, RecordingSteps
<1>4. CASE PostFailed(c)
  <2>. DEFINE e == PostEvent(c)
  <2>1. /\ e \in Event /\ e.type = "post"
        /\ e.quota = IF class[c] = "receipt" THEN reply[c].quota ELSE 0
    BY EventFacts DEF EventOf, PostEvent
  <2>2. pc[c] = "post" /\ pc[c] \in InLock
    BY <1>4 DEF PostFailed, At, InLock
  <2>3. Record(c, e, "release")
    BY <1>4, RecordingSteps
  <2>. HIDE DEF e
  <2>4. e.quota # 0 => Covered(e.quota, ledger)
    BY <2>1, <2>2 DEF Decided
  <2>5. Fit(e)
    BY <2>1, <2>4
  <2>. QED  BY <2>1, <2>2, <2>3, <2>5, <1>a
<1>5. CASE Receive(c)
  <2>. DEFINE e == [EventOf(c, "received") EXCEPT !.quota = reply[c].quota]
  <2>0. reply[c].quota \in Nat
    BY DEF TypeOK
  <2>1. /\ e \in Event /\ e.type = "received" /\ e.quota = reply[c].quota
    BY <2>0, EventFacts DEF EventOf
  <2>2. pc[c] = "received" /\ pc[c] \in InLock
    BY <1>5 DEF Receive, At, InLock
  <2>3. Record(c, e, "reopen")
    BY <1>5, RecordingSteps
  <2>. HIDE DEF e
  <2>4. Covered(e.quota, ledger)
    BY <2>1, <2>2 DEF Decided
  <2>5. Fit(e)
    BY <2>1, <2>4
  <2>. QED  BY <2>1, <2>2, <2>3, <2>5, <1>a
<1>6. ASSUME ~(\/ Intend(c) \/ Cancel(c) \/ Mark(c) \/ TransmissionFailed(c)
               \/ PostFailed(c) \/ Receive(c))
      PROVE  ledger' = ledger
  BY <1>6 DEF Step, Start, Refuse, Consume, ConsumeFails, Acquire, LockBusy,
     Admit, Deny, AdmitFails, IntentRejected, Check, Send, SendRefused,
     PersistRaw, PersistRawFails, Reconcile, Diverge, PersistReceipt,
     PersistReceiptFails, Reopen, Duplicate, ReopenFails, BuildFails, Publish,
     PublishFails, Release, ReleaseFails, Crash
<1>. QED  BY <1>1, <1>2, <1>3, <1>4, <1>5, <1>6

LEMMA DecisionStep ==
    TypeInv /\ LockInv /\ OrderInv /\ DecisionInv /\ [Next]_vars => DecisionInv'
<1>. SUFFICES ASSUME TypeInv, LockInv, OrderInv, DecisionInv, [Next]_vars
              PROVE  DecisionInv'
  OBVIOUS
<1>0. TypeOK /\ BalanceCovers /\ \A c \in Cycle : Decided(c)
  BY DEF TypeInv, DecisionInv
<1>1. ASSUME NEW c \in Cycle, Step(c) PROVE DecisionInv'
  <2>1. Grown /\ \A d \in Cycle \ {c} : Same(d)
    BY <1>1, Frames
  <2>2. \/ ledger' = ledger
        \/ /\ pc[c] \in InLock
           /\ \E e \in Event : /\ ledger' = Append(ledger, e)
                               /\ e.quota # 0 => e.type # "started"
                                                 /\ Covered(e.quota, ledger)
    BY <1>0, <1>1, CoveredSteps
  <2>3. BalanceCovers'
    BY <1>0, <2>2, BalancesKept
  <2>4. ASSUME NEW d \in Cycle PROVE Decided(d)'
    <3>1. CASE d = c
      BY <3>1, <1>0, <1>1, DecisionSteps
    <3>2. CASE d # c /\ ledger' = ledger
      BY <3>2, <1>0, <2>1, DecisionKept
    <3>3. CASE d # c /\ pc[c] \in InLock
      <4>1. pc[d] \notin InLock /\ pc'[d] = pc[d]
        BY <3>3, <2>1, Alone DEF Same
      <4>. QED  BY <4>1, Where, DecisionLeft
    <3>. QED  BY <3>1, <3>2, <3>3, <2>2
  <2>. QED  BY <2>3, <2>4 DEF DecisionInv
<1>2. ASSUME Grown, ledger' = ledger,
             \A d \in Cycle : Same(d) \/ pc'[d] = "ended"
      PROVE  DecisionInv'
  <2>1. BalanceCovers'
    BY <1>0, <1>2, BalancesKept
  <2>2. "ended" \notin Pending \cup Posted
    BY DEF Pending, Posted
  <2>3. \A d \in Cycle : Decided(d)'
    BY <1>0, <1>2, <2>2, DecisionKept, DecisionLeft
  <2>. QED  BY <2>1, <2>3 DEF DecisionInv
<1>. QED  BY <1>1, <1>2, <1>0, OutsideFrames DEF Next, Step

-----------------------------------------------------------------------------
(* What is on disk and what was decided, beside the ledger's own order.    *)
KnowledgeInv == EvidenceInv /\ DecisionInv

LEMMA InitKnowledge == Init => KnowledgeInv
<1>. SUFFICES ASSUME Init PROVE KnowledgeInv
  OBVIOUS
<1>1. ledger = <<>> /\ authority = <<>> /\ \A c \in Cycle : pc[c] = "idle"
  BY DEF Init
<1>2. EvidenceFirst /\ PublishedIsSettled /\ BalanceCovers
  BY <1>1 DEF EvidenceFirst, PublishedIsSettled, BalanceCovers, Balances, ToSet
<1>3. \A c \in Cycle : Vouched(c) /\ Decided(c)
  BY <1>1 DEF Vouched, Holding, Answered, Decided, Pending
<1>. QED  BY <1>2, <1>3 DEF KnowledgeInv, EvidenceInv, DecisionInv

THEOREM KnowledgeInvariance == Spec => []KnowledgeInv
<1>1. CycleInv /\ KnowledgeInv /\ [Next]_vars => KnowledgeInv'
  BY EvidenceStep, DecisionStep DEF CycleInv, KnowledgeInv
<1>. QED  BY InitKnowledge, Invariance, <1>1, PTL DEF Spec

(* The ledger tells of a received or a failed response only when its RAW,  *)
(* and for a received one its receipt, is on disk, whatever append,        *)
(* persistence or process fails in between.                                *)
THEOREM EvidenceComesFirst == Spec => []EvidenceFirst
<1>1. KnowledgeInv => EvidenceFirst
  BY DEF KnowledgeInv, EvidenceInv
<1>. QED  BY <1>1, KnowledgeInvariance, PTL

(* What a cycle publishes is delivered, on disk and settled in the ledger, *)
(* and no body enters the authority twice.                                 *)
THEOREM PublicationIsSettled == Spec => []PublishedIsSettled
<1>1. KnowledgeInv => PublishedIsSettled
  BY DEF KnowledgeInv, EvidenceInv
<1>. QED  BY <1>1, KnowledgeInvariance, PTL

(* A reconciled balance covers everything consumed up to its event and     *)
(* leaves the provider able to serve the rest of the spend limit.          *)
THEOREM BalancesCover == Spec => []BalanceCovers
<1>1. KnowledgeInv => BalanceCovers
  BY DEF KnowledgeInv, DecisionInv
<1>. QED  BY <1>1, KnowledgeInvariance, PTL

(* After a divergence the provider is called only under an adjudication of *)
(* exactly the ledger of that admission, within the usage it declares: the *)
(* ledger has grown by the intent and the transmission, and nothing else.  *)
THEOREM DivergenceNeedsAdjudication == Spec => DivergenceIsAdjudicated
<1>1. ASSUME CycleInv, KnowledgeInv, [Next]_vars,
             sent' # sent, Divergent(ledger) # {}
      PROVE  \E i \in DOMAIN adjudications :
                LET d == adjudications[i] IN
                /\ d.entries = Len(Before(ledger))
                /\ Divergent(Before(ledger)) = {d.request}
                /\ d.usage + 1 <= SpendLimit
  <2>1. PICK c \in Cycle : Send(c)
    <3>. USE DEF vars, evidence, owner, provider, local
    <3>1. CASE \/ Draft \/ PersistDraft \/ ChangeSource \/ Clear \/ Tick
               \/ OtherPublish \/ UNCHANGED vars
      BY <3>1, <1>1 DEF Draft, PersistDraft, ChangeSource, Clear, Tick,
         OtherPublish
    <3>2. ASSUME NEW c \in Cycle, Step(c) PROVE Send(c)
      BY <3>2, <1>1 DEF Step, Start, Refuse, Consume, ConsumeFails, Acquire,
         LockBusy, Admit, Deny, AdmitFails, Intend, IntentRejected, Check,
         Cancel, Mark, OnlyLedger, SendRefused, TransmissionFailed,
         PersistRaw, PersistRawFails, Reconcile, Diverge, PersistReceipt,
         PersistReceiptFails, PostFailed, Receive, Reopen, Duplicate,
         ReopenFails, BuildFails, Publish, PublishFails, Release,
         ReleaseFails, Crash
    <3>. QED  BY <3>1, <3>2, <1>1 DEF Next, Step
  <2>2. /\ pc[c] = "send"
        /\ base[c] = Len(ledger) - 2
        /\ Divergent(ledger) = Divergent(Admitted(c))
        /\ Adjudicated(Admitted(c))
    BY <2>1, <1>1 DEF Send, At, KnowledgeInv, DecisionInv, Decided
  <2>3. Before(ledger) = Admitted(c)
    BY <2>2 DEF Before, Admitted
  <2>. QED  BY <2>2, <2>3, <1>1 DEF Adjudicated
<1>2. CycleInv /\ KnowledgeInv /\ [Next]_vars =>
        [sent' # sent /\ Divergent(ledger) # {} =>
          \E i \in DOMAIN adjudications :
             LET d == adjudications[i] IN
             /\ d.entries = Len(Before(ledger))
             /\ Divergent(Before(ledger)) = {d.request}
             /\ d.usage + 1 <= SpendLimit]_vars
  BY <1>1
<1>. QED
  BY <1>2, Invariance, KnowledgeInvariance, PTL
  DEF Spec, DivergenceIsAdjudicated

(* No request is transmitted twice or while an earlier one is unsettled,   *)
(* whatever fails or dies between the fences of a cycle (runOneCycle).     *)
THEOREM NothingIsRetried == Spec => []NoRetry
<1>1. OneTransmission /\ AmbiguityBlocks => NoRetry
  BY DEF NoRetry
<1>. QED  BY <1>1, NeverRetried, AmbiguityStops, PTL

(* RAW, receipt, ledger and publication are told of in the order in which  *)
(* they were written, whatever is written without taking effect.           *)
THEOREM RecordsFollow == Spec => []RecordsInOrder
<1>1. EvidenceFirst /\ PublishedIsSettled => RecordsInOrder
  BY DEF RecordsInOrder
<1>. QED  BY <1>1, EvidenceComesFirst, PublicationIsSettled, PTL
=============================================================================

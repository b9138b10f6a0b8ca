------------------------ MODULE GovernedLedgersProofs ------------------------
(***************************************************************************)
(* Proofs about the two ledgers of canonical evidence, for any processes,  *)
(* events, captures and bounds.                                            *)
(***************************************************************************)
EXTENDS GovernedLedgers, TLAPS, SequenceTheorems

-----------------------------------------------------------------------------
(* Sequences, and decisions in a prefix of them.                           *)

Prefix(s, t) == Len(s) <= Len(t) /\ \A i \in 1 .. Len(s) : s[i] = t[i]

LEMMA PrefixAppend ==
    ASSUME NEW S, NEW s \in Seq(S), NEW t \in Seq(S), NEW x \in S, Prefix(s, t)
    PROVE  Prefix(s, Append(t, x)) /\ s # Append(t, x)
BY DEF Prefix

LEMMA PrefixSelf ==
    ASSUME NEW s, Len(s) \in Nat
    PROVE  Prefix(s, s)
BY DEF Prefix

LEMMA PrefixSame ==
    ASSUME NEW S, NEW s \in Seq(S), NEW t \in Seq(S), Prefix(s, t), Len(t) <= Len(s)
    PROVE  s = t
BY DEF Prefix

LEMMA PrefixLineage ==
    ASSUME NEW s, NEW t, NEW n, n \in 0 .. Len(s), Len(s) \in Nat, Prefix(s, t), NEW e
    PROVE  Lineage(s, n, e) = Lineage(t, n, e)
<1>1. Latest(s, n, e) = Latest(t, n, e)
  BY DEF Latest, Prefix
<1>2. \A i \in Latest(s, n, e) : s[i] = t[i]
  BY DEF Latest, Prefix
<1> QED
  BY <1>1, <1>2 DEF Lineage

LEMMA PrefixSupersedes ==
    ASSUME NEW s, NEW t, NEW n, n \in 0 .. Len(s), Len(s) \in Nat, Prefix(s, t), NEW d
    PROVE  Supersedes(d, s, n) <=> Supersedes(d, t, n)
BY PrefixLineage DEF Supersedes

LEMMA PrefixChain ==
    ASSUME NEW s, NEW t, NEW n, n \in 0 .. Len(s), Len(s) \in Nat, Prefix(s, t)
    PROVE  Chain(s, n) <=> Chain(t, n)
<1>1. ASSUME NEW i \in 1 .. n
      PROVE  Supersedes(s[i], s, i - 1) <=> Supersedes(t[i], t, i - 1)
  <2>1. s[i] = t[i] /\ i - 1 \in 0 .. Len(s)
    BY DEF Prefix
  <2> QED
    BY <2>1, PrefixSupersedes
<1> QED
  BY <1>1 DEF Chain

LEMMA PrefixActive ==
    ASSUME NEW s, NEW t, NEW n, n \in 0 .. Len(s), Len(s) \in Nat, Prefix(s, t), NEW d
    PROVE  Active(d, s, n) <=> Active(d, t, n)
BY PrefixChain, PrefixLineage DEF Active

LEMMA ChainAppend ==
    ASSUME NEW S, NEW s \in Seq(S), NEW d \in S, Chain(s, Len(s)), Supersedes(d, s, Len(s))
    PROVE  Chain(Append(s, d), Len(Append(s, d)))
<1> DEFINE t == Append(s, d)
<1>1. /\ Prefix(s, t) /\ Len(t) = Len(s) + 1 /\ t[Len(t)] = d
      /\ Len(s) \in Nat /\ Len(s) \in 0 .. Len(s)
  BY DEF Prefix
<1> HIDE DEF t
<1>2. Chain(t, Len(s))
  BY <1>1, PrefixChain
<1>3. Supersedes(d, t, Len(s))
  BY <1>1, PrefixSupersedes
<1>4. Supersedes(t[Len(t)], t, Len(t) - 1)
  BY <1>1, <1>3
<1> QED
  BY <1>1, <1>2, <1>4 DEF Chain, t

-----------------------------------------------------------------------------
(* What the variables hold.                                                *)

RowOf(l) == IF l = "decisions" THEN Decision ELSE Observation

Early == {"idle", "survey", "plan"}

Typed ==
    /\ TypeOK
    /\ \A l \in Ledger : file[l].rows \in Seq(RowOf(l)) /\ manifest[l].rows \in Seq(RowOf(l))
    /\ \A p \in Process :
           /\ call[p].known \in Seq(Decision)
           /\ call[p].todo \in Seq(RowOf(call[p].ledger))
           /\ call[p].base \in Seq(RowOf(call[p].ledger))
           /\ call[p].pc \notin Early => call[p].todo # <<>>
           /\ call[p].pc = "idle" => call[p].base = <<>>

CallType ==
    [pc : PC, ledger : Ledger, capture : Capture, registry : Seq(Decision),
     todo : Seq(Decision \cup Observation), base : Seq(Decision \cup Observation),
     known : Seq(Decision \cup Observation), fresh : BOOLEAN, failed : BOOLEAN, began : Nat]

(* The locals of one call, with their rows of the call's own ledger.       *)
CallOK(r) ==
    /\ r \in CallType
    /\ r.known \in Seq(Decision)
    /\ r.todo \in Seq(RowOf(r.ledger))
    /\ r.base \in Seq(RowOf(r.ledger))
    /\ r.pc \notin Early => r.todo # <<>>
    /\ r.pc = "idle" => r.base = <<>>

CallsOK == call \in [Process -> CallType] /\ \A p \in Process : CallOK(call[p])

FileType ==
    [exists : BOOLEAN, rows : Seq(Decision \cup Observation), torn : BOOLEAN,
     readonly : BOOLEAN]

ManifestType ==
    [exists : BOOLEAN, rows : Seq(Decision \cup Observation), whole : BOOLEAN,
     readonly : BOOLEAN]

FilesOK ==
    /\ file \in [Ledger -> FileType]
    /\ manifest \in [Ledger -> ManifestType]
    /\ \A l \in Ledger : file[l].rows \in Seq(RowOf(l)) /\ manifest[l].rows \in Seq(RowOf(l))

RestOK ==
    /\ acked \in [Ledger -> SUBSET (Decision \cup Observation)]
    /\ spoiled \subseteq Ledger
    /\ since \in Seq(Nat)
    /\ troubles \in 0 .. MaxTroubles

LEMMA TypedParts ==
    /\ Typed <=> FilesOK /\ CallsOK /\ RestOK
    /\ Typed' <=> FilesOK' /\ CallsOK' /\ RestOK'
BY DEF Typed, TypeOK, CallOK, CallType, FilesOK, FileType, ManifestType, CallsOK, RestOK

LEMMA SeqSubset ==
    ASSUME NEW S, NEW T, S \subseteq T, NEW s \in Seq(S)
    PROVE  s \in Seq(T)
OBVIOUS

LEMMA TailTyped ==
    ASSUME NEW S, NEW s \in Seq(S), s # <<>>
    PROVE  Head(s) \in S /\ Tail(s) \in Seq(S) /\ (Len(s) # 1 => Tail(s) # <<>>)
<1>1. Head(s) \in S /\ Tail(s) \in Seq(S) /\ Len(Tail(s)) = Len(s) - 1
  BY HeadTailProperties
<1>2. ASSUME NEW u, u = Tail(s), u = <<>>
      PROVE  Len(s) = 1
  <2>1. Len(u) = 0
    BY <1>2, EmptySeq
  <2>2. Len(u) = Len(s) - 1 /\ Len(s) \in Nat
    BY <1>1, <1>2
  <2> QED
    BY <2>1, <2>2
<1> QED
  BY <1>1, <1>2

LEMMA RowOfLedger == \A l \in Ledger : RowOf(l) \subseteq Decision \cup Observation
BY DEF RowOf, Ledger

LEMMA IdleOK == CallOK(Idle)
<1>1. (CHOOSE c \in Capture : TRUE) \in Capture
  BY PayloadAssumption
<1>2. Idle \in CallType
  BY <1>1 DEF Idle, CallType, PC, Ledger
<1> QED
  BY <1>2 DEF CallOK, Idle, RowOf, Early

LEMMA KeptOK ==
    ASSUME Typed, NEW p \in Process
    PROVE  CallOK(Kept(p))
<1>1. call[p].capture \in Capture /\ call[p].registry \in Seq(Decision)
  BY DEF Typed, TypeOK
<1>2. Idle \in CallType
  BY IdleOK DEF CallOK
<1>3. Kept(p) \in CallType
  BY <1>1, <1>2 DEF Kept, CallType
<1>4. /\ Kept(p).known = <<>> /\ Kept(p).todo = <<>> /\ Kept(p).base = <<>>
      /\ Kept(p).pc = "idle"
  BY DEF Kept, Idle
<1> QED
  BY <1>3, <1>4 DEF CallOK, Early

(* A row at the head of the list is of the call's ledger.                  *)
LEMMA RowTyped ==
    ASSUME Typed, NEW p \in Process, call[p].pc \notin Early
    PROVE  Row(p) \in RowOf(call[p].ledger)
BY DEF Typed, Row

LEMMA OneCall ==
    ASSUME CallsOK, NEW p \in Process, NEW r, CallOK(r), call' = [call EXCEPT ![p] = r]
    PROVE  CallsOK'
BY DEF CallsOK, CallOK

LEMMA GotoOK ==
    ASSUME CallsOK, NEW p \in Process, NEW pc \in PC \ Early, call[p].pc \notin Early,
           Goto(p, pc) \/ Fails(p, pc)
    PROVE  CallsOK'
<1> DEFINE r == [call[p] EXCEPT !.pc = pc]
           s == [call[p] EXCEPT !.pc = pc, !.failed = TRUE]
<1>1. CallOK(call[p]) /\ call[p] \in CallType
  BY DEF CallsOK
<1>2. CallOK(r) /\ CallOK(s)
  BY <1>1 DEF CallOK, CallType, Early
<1>3. call' = [call EXCEPT ![p] = r] \/ call' = [call EXCEPT ![p] = s]
  BY DEF Goto, Fails, CallsOK
<1> QED
  BY <1>2, <1>3, OneCall

LEMMA ThrowOK ==
    ASSUME Typed, NEW p \in Process, Throw(p)
    PROVE  CallsOK'
<1>1. call' = [call EXCEPT ![p] = Idle] \/ call' = [call EXCEPT ![p] = Kept(p)]
  BY DEF Throw
<1> QED
  BY <1>1, OneCall, IdleOK, KeptOK, TypedParts

LEMMA ReturnOK ==
    ASSUME Typed, NEW p \in Process, call[p].pc \notin Early, Return(p)
    PROVE  CallsOK' /\ acked' \in [Ledger -> SUBSET (Decision \cup Observation)]
<1> DEFINE r == [Kept(p) EXCEPT !.ledger = call[p].ledger, !.todo = Tail(call[p].todo),
                                !.pc = Entry(call[p].ledger),
                                !.began = Begun(call[p].ledger)]
<1>1. CallOK(Kept(p)) /\ CallOK(call[p]) /\ call[p].todo # <<>>
  BY KeptOK, TypedParts DEF CallsOK, CallOK
<1>2. Entry(call[p].ledger) \in PC /\ Begun(call[p].ledger) \in Nat
  BY TypedParts DEF Entry, PC, Begun, FilesOK, Ledger
<1>3. /\ Tail(call[p].todo) \in Seq(RowOf(call[p].ledger))
      /\ Tail(call[p].todo) \in Seq(Decision \cup Observation)
  BY <1>1, TailTyped DEF CallOK, CallType
<1>4. r \in CallType
  BY <1>1, <1>2, <1>3 DEF CallOK, CallType
<1>5. ASSUME Len(call[p].todo) # 1
      PROVE  CallOK(r)
  <2>1. Tail(call[p].todo) # <<>>
    BY <1>1, <1>5, TailTyped DEF CallOK
  <2>2. /\ r.known = <<>> /\ r.base = <<>> /\ r.ledger = call[p].ledger
        /\ r.todo = Tail(call[p].todo) /\ r.pc = Entry(call[p].ledger)
    BY DEF Kept, Idle
  <2>3. r.pc # "idle"
    BY <2>2 DEF Entry
  <2> HIDE DEF r
  <2>4. r.known \in Seq(Decision) /\ r.base \in Seq(RowOf(r.ledger))
    BY <2>2
  <2> QED
    BY <1>3, <1>4, <2>1, <2>2, <2>3, <2>4 DEF CallOK
<1>6. CallsOK'
  <2>1. \/ call' = [call EXCEPT ![p] = Kept(p)]
        \/ Len(call[p].todo) # 1 /\ call' = [call EXCEPT ![p] = r]
    BY TypedParts DEF Return, CallsOK
  <2> QED
    BY <1>1, <1>5, <2>1, OneCall, TypedParts
<1>7. Row(p) \in Decision \cup Observation /\ call[p].ledger \in Ledger
  BY <1>1, RowTyped, RowOfLedger DEF CallOK, CallType
<1> QED
  BY <1>6, <1>7, TypedParts DEF Return, RestOK

LEMMA DecideOK ==
    ASSUME NEW rows \in Seq(Decision), NEW c \in Capture, NEW e \in Event
    PROVE  Decide(c, e, rows) \in Decision
<1> DEFINE lineage == Lineage(rows, Len(rows), e)
<1>1. lineage \in Seq(Capture)
  <2>1. ASSUME NEW i \in Latest(rows, Len(rows), e)
        PROVE  rows[i].lineage \in Seq(Capture)
    <3>1. i \in 1 .. Len(rows)
      BY DEF Latest
    <3>2. rows[i] \in Decision
      BY <3>1
    <3> QED
      BY <3>2 DEF Decision
  <2> QED
    BY <2>1 DEF Lineage
<1>2. Append(lineage, c) \in Seq(Capture)
  BY <1>1
<1> QED
  BY <1>1, <1>2 DEF Decide, Decision

LEMMA ResolveOK ==
    ASSUME Typed, NEW p \in Process, NEW c \in Capture, Resolve(p, c)
    PROVE  CallsOK'
<1> DEFINE r == [Idle EXCEPT !.pc = "survey", !.capture = c]
<1>1. CallOK(Idle)
  BY IdleOK
<1>2. r \in CallType
  BY <1>1 DEF CallOK, CallType, PC
<1>3. /\ r.known = <<>> /\ r.todo = <<>> /\ r.base = <<>> /\ r.pc = "survey"
  BY DEF Idle
<1> HIDE DEF r
<1>4. CallOK(r)
  BY <1>2, <1>3 DEF CallOK, Early
<1> QED
  BY <1>4, OneCall, TypedParts DEF Resolve, r

LEMMA ReplayOK ==
    ASSUME Typed, NEW p \in Process, Replay(p)
    PROVE  CallsOK'
<1> DEFINE registry == call[p].registry
           todo == [i \in DOMAIN registry |->
                       [capture |-> call[p].capture, decision |-> registry[i],
                        registry |-> registry]]
           r == [call[p] EXCEPT !.pc = "adapt", !.ledger = "observations", !.todo = todo]
<1>1. /\ CallOK(call[p]) /\ call[p] \in CallType
      /\ registry \in Seq(Decision) /\ call[p].capture \in Capture
  BY TypedParts DEF CallsOK, CallType
<1>2. call[p].pc = "idle" /\ registry # <<>>
  BY DEF Replay
<1>3. call[p].base = <<>>
  BY <1>1, <1>2 DEF CallOK
<1>4. todo \in Seq(Observation) /\ todo # <<>>
  <2>1. Len(registry) \in Nat /\ DOMAIN registry = 1 .. Len(registry) /\ Len(registry) # 0
    BY <1>1, <1>2
  <2>2. \A i \in 1 .. Len(registry) :
            [capture |-> call[p].capture, decision |-> registry[i], registry |-> registry]
                \in Observation
    BY <1>1 DEF Observation
  <2>3. todo \in [1 .. Len(registry) -> Observation]
    BY <2>1, <2>2
  <2>4. todo \in Seq(Observation) /\ Len(todo) = Len(registry)
    BY <2>1, <2>3
  <2> QED
    BY <2>1, <2>4, EmptySeq
<1> HIDE DEF todo
<1>5. todo \in Seq(Decision \cup Observation)
  BY <1>4, SeqSubset
<1>6. r \in CallType
  BY <1>1, <1>5 DEF CallType, PC, Ledger
<1>7. /\ r.known = call[p].known /\ r.todo = todo /\ r.base = <<>>
      /\ r.pc = "adapt" /\ r.ledger = "observations"
  BY <1>1, <1>3 DEF CallType
<1>8. call' = [call EXCEPT ![p] = r]
  BY TypedParts DEF Replay, todo, CallsOK
<1> HIDE DEF r
<1>9. CallOK(r)
  <2>1. r.known \in Seq(Decision)
    BY <1>1, <1>7 DEF CallOK
  <2> QED
    BY <1>4, <1>6, <1>7, <2>1 DEF CallOK, Early, RowOf
<1> QED
  BY <1>8, <1>9, OneCall, TypedParts

LEMMA PlanOK ==
    ASSUME Typed, NEW p \in Process, NEW authorized, Plan(p, authorized)
    PROVE  CallsOK'
<1> DEFINE c == call[p].capture
           decisions == [i \in DOMAIN Payload[c] |-> Decide(c, Payload[c][i], call[p].known)]
           r == [Idle EXCEPT !.pc = "read", !.capture = c, !.registry = decisions,
                             !.todo = decisions]
<1>1. c \in Capture /\ call[p].known \in Seq(Decision)
  BY TypedParts DEF CallsOK, CallOK, CallType
<1>2. Payload[c] \in Seq(Event) /\ Payload[c] # <<>>
  BY <1>1, PayloadAssumption
<1>3. decisions \in Seq(Decision) /\ decisions # <<>>
  <2>1. /\ Len(Payload[c]) \in Nat /\ DOMAIN Payload[c] = 1 .. Len(Payload[c])
        /\ Len(Payload[c]) # 0
    BY <1>2
  <2>2. \A i \in 1 .. Len(Payload[c]) : Decide(c, Payload[c][i], call[p].known) \in Decision
    BY <1>1, <1>2, DecideOK
  <2>3. decisions \in [1 .. Len(Payload[c]) -> Decision]
    BY <2>1, <2>2
  <2>4. decisions \in Seq(Decision) /\ Len(decisions) = Len(Payload[c])
    BY <2>1, <2>3
  <2> QED
    BY <2>1, <2>4, EmptySeq
<1>4. call' = [call EXCEPT ![p] = r] \/ Throw(p)
  BY DEF Plan
<1> HIDE DEF decisions
<1>5. decisions \in Seq(Decision \cup Observation)
  BY <1>3, SeqSubset
<1>6. CallOK(Idle)
  BY IdleOK
<1>7. r \in CallType
  BY <1>1, <1>3, <1>5, <1>6 DEF CallOK, CallType, PC
<1>8. r.known = <<>> /\ r.todo = decisions /\ r.base = <<>> /\ r.ledger = "decisions"
      /\ r.pc = "read"
  BY DEF Idle
<1> HIDE DEF r
<1>9. CallOK(r)
  BY <1>3, <1>7, <1>8 DEF CallOK, RowOf
<1> QED
  BY <1>4, <1>9, OneCall, ThrowOK, TypedParts

LEMMA ReadDecisionsOK ==
    ASSUME Typed, NEW p \in Process, ReadDecisions(p)
    PROVE  CallsOK'
<1> DEFINE r(next) == [call[p] EXCEPT !.pc = next, !.known = file["decisions"].rows,
                                      !.fresh = Absent("decisions")]
<1>1. CallOK(call[p]) /\ call[p] \in CallType
  BY TypedParts DEF CallsOK
<1>2. file["decisions"].rows \in Seq(Decision) /\ Absent("decisions") \in BOOLEAN
  BY TypedParts DEF FilesOK, FileType, ManifestType, Ledger, RowOf, Absent
<1>3. file["decisions"].rows \in Seq(Decision \cup Observation)
  BY <1>2, SeqSubset
<1>4. CASE Throw(p)
  BY <1>4, ThrowOK
<1>5. ASSUME NEW next \in {"plan", "adapted", "governed", "reverify"},
             call[p].pc = "survey" => next = "plan",
             call' = [call EXCEPT ![p] = r(next)], call[p].pc # "idle", call[p].pc # "plan",
             call[p].pc # "survey" => next # "plan"
      PROVE  CallsOK'
  <2>1. r(next) \in CallType
    BY <1>1, <1>2, <1>3 DEF CallType, PC
  <2>2. /\ r(next).known = file["decisions"].rows /\ r(next).todo = call[p].todo
        /\ r(next).base = call[p].base /\ r(next).ledger = call[p].ledger /\ r(next).pc = next
    BY <1>1 DEF CallType
  <2> HIDE DEF r
  <2>3. CallOK(r(next))
    BY <1>1, <1>2, <1>5, <2>1, <2>2 DEF CallOK, Early
  <2> QED
    BY <1>5, <2>3, OneCall, TypedParts
<1>6. ASSUME ~Throw(p)
      PROVE  \E next \in {"plan", "adapted", "governed", "reverify"} :
                 /\ call' = [call EXCEPT ![p] = r(next)]
                 /\ call[p].pc = "survey" <=> next = "plan"
                 /\ call[p].pc \notin {"idle", "plan"}
  BY <1>6, TypedParts DEF ReadDecisions, CallsOK
<1> QED
  BY <1>4, <1>5, <1>6

LEMMA CheckedOK ==
    ASSUME Typed, NEW p \in Process, Adapted(p) \/ Governed(p)
    PROVE  CallsOK'
<1> DEFINE r == [call[p] EXCEPT !.pc = "govern", !.known = <<>>, !.fresh = FALSE,
                                !.began = Begun("observations")]
           s == [call[p] EXCEPT !.pc = "read", !.known = <<>>, !.fresh = FALSE]
<1>1. CallOK(call[p]) /\ call[p] \in CallType /\ call[p].pc \notin Early
  BY TypedParts DEF CallsOK, Adapted, Governed, Early
<1>2. Begun("observations") \in Nat
  BY TypedParts DEF FilesOK, Ledger, Begun
<1>3. r \in CallType /\ s \in CallType
  <2>1. <<>> \in Seq(Decision \cup Observation) /\ {"govern", "read"} \subseteq PC
    BY DEF PC
  <2>2. r \in CallType
    BY <1>1, <1>2, <2>1 DEF CallType
  <2>3. s \in CallType
    BY <1>1, <2>1 DEF CallType
  <2> QED
    BY <2>2, <2>3
<1>4. /\ r.known = <<>> /\ r.todo = call[p].todo /\ r.base = call[p].base
      /\ r.ledger = call[p].ledger /\ r.pc = "govern"
      /\ s.known = <<>> /\ s.todo = call[p].todo /\ s.base = call[p].base
      /\ s.ledger = call[p].ledger /\ s.pc = "read"
  BY <1>1 DEF CallType
<1>5. \/ call' = [call EXCEPT ![p] = r] \/ call' = [call EXCEPT ![p] = s] \/ Throw(p)
  BY TypedParts DEF Adapted, Governed, CallsOK
<1> HIDE DEF r, s
<1>6. CallOK(r) /\ CallOK(s)
  BY <1>1, <1>3, <1>4 DEF CallOK, Early
<1> QED
  BY <1>5, <1>6, OneCall, ThrowOK, TypedParts

LEMMA ReadOK ==
    ASSUME Typed, NEW p \in Process, Read(p)
    PROVE  CallsOK'
<1> DEFINE l == call[p].ledger
           r == [call[p] EXCEPT !.pc = "verify", !.base = file[l].rows, !.fresh = Absent(l)]
<1>1. CallOK(call[p]) /\ call[p] \in CallType /\ call[p].pc \notin Early /\ l \in Ledger
  BY TypedParts DEF CallsOK, Read, Early, CallType
<1>2. file[l].rows \in Seq(RowOf(l)) /\ Absent(l) \in BOOLEAN
  BY <1>1, TypedParts DEF FilesOK, FileType, ManifestType, Absent
<1>3. file[l].rows \in Seq(Decision \cup Observation)
  BY <1>1, TypedParts DEF FilesOK, FileType
<1>4. r \in CallType
  BY <1>1, <1>2, <1>3 DEF CallType, PC
<1>5. /\ r.known = call[p].known /\ r.todo = call[p].todo /\ r.base = file[l].rows
      /\ r.ledger = l /\ r.pc = "verify"
  BY <1>1 DEF CallType
<1>6. call' = [call EXCEPT ![p] = r] \/ Throw(p)
  BY TypedParts DEF Read, CallsOK
<1> HIDE DEF r
<1>7. CallOK(r)
  BY <1>1, <1>2, <1>4, <1>5 DEF CallOK, Early
<1> QED
  BY <1>6, <1>7, OneCall, ThrowOK, TypedParts

(* The steps in which a call only moves on, throws or returns.             *)
LEMMA OthersOK ==
    ASSUME Typed, NEW p \in Process,
           \/ Verify(p) \/ Reverify(p) \/ Unlock(p) \/ AppendRow(p) \/ AppendDenied(p)
           \/ \E torn \in BOOLEAN : AppendFails(p, torn)
           \/ Unseal(p) \/ Empty(p) \/ EmptyDenied(p) \/ Seal(p) \/ SealFails(p)
           \/ Reseal(p) \/ Lock(p)
    PROVE  CallsOK' /\ acked' \in [Ledger -> SUBSET (Decision \cup Observation)]
<1>1. call[p].pc \notin Early
  BY DEF Verify, Reverify, Unlock, AppendRow, AppendDenied, AppendFails, Unseal, Empty,
         EmptyDenied, Seal, SealFails, Reseal, Lock, Early
<1>2. \/ \E pc \in PC \ Early : (Goto(p, pc) \/ Fails(p, pc)) /\ UNCHANGED acked
      \/ Throw(p) /\ UNCHANGED acked
      \/ Return(p)
  BY DEF Verify, Reverify, Unlock, AppendRow, AppendDenied, AppendFails, Unseal, Empty,
         EmptyDenied, Seal, SealFails, Reseal, Lock, Early, PC, Writing
<1> QED
  BY <1>1, <1>2, GotoOK, ThrowOK, ReturnOK, TypedParts DEF RestOK

LEMMA CallsTyped ==
    ASSUME Typed, Next
    PROVE  CallsOK' /\ acked' \in [Ledger -> SUBSET (Decision \cup Observation)]
<1> PICK p \in Process :
       \/ \E c \in Capture : Resolve(p, c)
       \/ Replay(p)
       \/ ReadDecisions(p)
       \/ \E authorized \in SUBSET Event : Plan(p, authorized)
       \/ Adapted(p) \/ Governed(p)
       \/ Read(p)
       \/ \/ Verify(p) \/ Reverify(p) \/ Unlock(p) \/ AppendRow(p) \/ AppendDenied(p)
          \/ \E torn \in BOOLEAN : AppendFails(p, torn)
          \/ Unseal(p) \/ Empty(p) \/ EmptyDenied(p) \/ Seal(p) \/ SealFails(p)
          \/ Reseal(p) \/ Lock(p)
       \/ Crash(p)
  BY DEF Next
<1>1. CASE \E c \in Capture : Resolve(p, c)
  BY <1>1, ResolveOK, TypedParts DEF Resolve, RestOK
<1>2. CASE Replay(p)
  BY <1>2, ReplayOK, TypedParts DEF Replay, RestOK
<1>3. CASE ReadDecisions(p)
  BY <1>3, ReadDecisionsOK, TypedParts DEF ReadDecisions, RestOK
<1>4. CASE \E authorized \in SUBSET Event : Plan(p, authorized)
  BY <1>4, PlanOK, TypedParts DEF Plan, RestOK
<1>5. CASE Adapted(p) \/ Governed(p)
  BY <1>5, CheckedOK, TypedParts DEF Adapted, Governed, RestOK
<1>6. CASE Read(p)
  BY <1>6, ReadOK, TypedParts DEF Read, RestOK
<1>7. CASE Crash(p)
  BY <1>7, IdleOK, OneCall, TypedParts DEF Crash, RestOK
<1> QED
  BY <1>1, <1>2, <1>3, <1>4, <1>5, <1>6, <1>7, OthersOK

LEMMA OneFile ==
    ASSUME FilesOK, NEW l \in Ledger, NEW r \in FileType, r.rows \in Seq(RowOf(l)),
           file' = [file EXCEPT ![l] = r], manifest' = manifest
    PROVE  FilesOK'
BY DEF FilesOK

LEMMA OneManifest ==
    ASSUME FilesOK, NEW l \in Ledger, NEW r \in ManifestType, r.rows \in Seq(RowOf(l)),
           manifest' = [manifest EXCEPT ![l] = r], file' = file
    PROVE  FilesOK'
BY DEF FilesOK

(* The writes, on the ledger and on its manifest.                          *)
LEMMA Writer ==
    ASSUME Typed, NEW p \in Process, call[p].pc \notin Early
    PROVE  LET l == call[p].ledger IN
           /\ l \in Ledger /\ Row(p) \in RowOf(l) /\ call[p].base \in Seq(RowOf(l))
           /\ Append(call[p].base, Row(p)) \in Seq(RowOf(l))
           /\ Append(call[p].base, Row(p)) \in Seq(Decision \cup Observation)
           /\ call[p].began \in Nat
           /\ file[l] \in FileType /\ file[l].rows \in Seq(RowOf(l))
           /\ manifest[l] \in ManifestType /\ manifest[l].rows \in Seq(RowOf(l))
<1> DEFINE l == call[p].ledger
<1>1. /\ l \in Ledger /\ Row(p) \in RowOf(l) /\ call[p].base \in Seq(RowOf(l))
      /\ call[p].began \in Nat
  BY RowTyped, TypedParts DEF CallsOK, CallOK, CallType
<1>2. Append(call[p].base, Row(p)) \in Seq(RowOf(l))
  BY <1>1
<1> QED
  BY <1>1, <1>2, SeqSubset, RowOfLedger, TypedParts DEF FilesOK

LEMMA FileWritten ==
    ASSUME Typed, NEW p \in Process,
           \/ Unlock(p) \/ AppendRow(p) \/ Lock(p)
           \/ \E torn \in BOOLEAN : AppendFails(p, torn)
    PROVE  FilesOK'
<1> DEFINE l == call[p].ledger
           f == file[l]
<1>1. call[p].pc \notin Early /\ manifest' = manifest
  BY DEF Unlock, AppendRow, AppendFails, Lock, Early
<1>2. /\ l \in Ledger /\ Row(p) \in RowOf(l) /\ f \in FileType /\ f.rows \in Seq(RowOf(l))
  BY <1>1, Writer
<1>3. CASE Unlock(p) \/ Lock(p)
  <2> DEFINE r(b) == [f EXCEPT !.readonly = b]
  <2>1. \A b \in BOOLEAN : r(b) \in FileType /\ r(b).rows = f.rows
    BY <1>2 DEF FileType
  <2>2. \E b \in BOOLEAN : file' = [file EXCEPT ![l] = r(b)]
    BY <1>2, <1>3, TypedParts DEF Unlock, Lock, FilesOK
  <2> HIDE DEF r
  <2> QED
    BY <1>1, <1>2, <2>1, <2>2, OneFile, TypedParts
<1>4. CASE AppendRow(p)
  <2> DEFINE r == [f EXCEPT !.exists = TRUE, !.rows = Append(f.rows, Row(p)),
                            !.readonly = IF f.exists THEN f.readonly ELSE TRUE]
  <2>1. Append(f.rows, Row(p)) \in Seq(RowOf(l))
    BY <1>2
  <2>2. Append(f.rows, Row(p)) \in Seq(Decision \cup Observation)
    BY <1>2, <2>1, SeqSubset, RowOfLedger
  <2>3. r \in FileType /\ r.rows = Append(f.rows, Row(p))
    BY <1>2, <2>2 DEF FileType
  <2>4. file' = [file EXCEPT ![l] = r]
    BY <1>2, <1>4, TypedParts DEF AppendRow, FilesOK, FileType
  <2> HIDE DEF r
  <2> QED
    BY <1>1, <1>2, <2>1, <2>3, <2>4, OneFile, TypedParts
<1>5. CASE \E torn \in BOOLEAN : AppendFails(p, torn)
  <2> PICK torn \in BOOLEAN : AppendFails(p, torn)
    BY <1>5
  <2> DEFINE r == [f EXCEPT !.exists = TRUE, !.torn = f.torn \/ torn,
                            !.readonly = IF f.exists THEN f.readonly ELSE TRUE]
  <2>1. r \in FileType /\ r.rows = f.rows
    BY <1>2 DEF FileType
  <2>2. file' = [file EXCEPT ![l] = r]
    BY <1>2, TypedParts DEF AppendFails, FilesOK, FileType
  <2> HIDE DEF r
  <2> QED
    BY <1>1, <1>2, <2>1, <2>2, OneFile, TypedParts
<1> QED
  BY <1>3, <1>4, <1>5

LEMMA ManifestWritten ==
    ASSUME Typed, NEW p \in Process, Unseal(p) \/ Empty(p) \/ Seal(p) \/ Reseal(p)
    PROVE  FilesOK'
<1> DEFINE l == call[p].ledger
           m == manifest[l]
           rows == Append(call[p].base, Row(p))
<1>1. call[p].pc \notin Early /\ file' = file
  BY DEF Unseal, Empty, Seal, Reseal, Early
<1>2. /\ l \in Ledger /\ m \in ManifestType /\ m.rows \in Seq(RowOf(l))
      /\ rows \in Seq(RowOf(l)) /\ rows \in Seq(Decision \cup Observation)
  BY <1>1, Writer
<1> HIDE DEF rows
<1>3. CASE Unseal(p) \/ Reseal(p)
  <2> DEFINE r(b) == [m EXCEPT !.readonly = b]
  <2>1. \A b \in BOOLEAN : r(b) \in ManifestType /\ r(b).rows = m.rows
    BY <1>2 DEF ManifestType
  <2>2. m.exists \in BOOLEAN
    BY <1>2 DEF ManifestType
  <2>3. \E b \in BOOLEAN : manifest' = [manifest EXCEPT ![l] = r(b)]
    BY <1>2, <1>3, <2>2, TypedParts DEF Unseal, Reseal, FilesOK
  <2> HIDE DEF r
  <2> QED
    BY <1>1, <1>2, <2>1, <2>3, OneManifest, TypedParts
<1>4. CASE Empty(p)
  <2> DEFINE r == [exists |-> TRUE, rows |-> <<>>, whole |-> FALSE,
                   readonly |-> m.readonly \/ ~m.exists]
  <2>1. r \in ManifestType /\ r.rows = <<>>
    <3>1. <<>> \in Seq(Decision \cup Observation)
      OBVIOUS
    <3> QED
      BY <3>1 DEF ManifestType
  <2>2. manifest' = [manifest EXCEPT ![l] = r] /\ <<>> \in Seq(RowOf(l))
    BY <1>4 DEF Empty
  <2> HIDE DEF r
  <2> QED
    BY <1>1, <1>2, <2>1, <2>2, OneManifest, TypedParts
<1>5. CASE Seal(p)
  <2> DEFINE r(b) == [m EXCEPT !.rows = rows, !.whole = b]
  <2>1. \A b \in BOOLEAN : r(b) \in ManifestType /\ r(b).rows = rows
    BY <1>2 DEF ManifestType
  <2>2. \E b \in BOOLEAN : manifest' = [manifest EXCEPT ![l] = r(b)]
    BY <1>2, <1>5, TypedParts DEF Seal, FilesOK, rows
  <2> HIDE DEF r
  <2> QED
    BY <1>1, <1>2, <2>1, <2>2, OneManifest, TypedParts
<1> QED
  BY <1>3, <1>4, <1>5

LEMMA FilesTyped ==
    ASSUME Typed, Next
    PROVE  FilesOK'
<1>1. CASE UNCHANGED <<file, manifest>>
  BY <1>1, TypedParts DEF FilesOK
<1> QED
  BY <1>1, FileWritten, ManifestWritten
     DEF Next, Resolve, Replay, ReadDecisions, Plan, Adapted, Governed, Read, Verify, Reverify,
         AppendDenied, EmptyDenied, SealFails, Crash

LEMMA HistoryTyped ==
    ASSUME Typed, Next
    PROVE  spoiled' \subseteq Ledger /\ since' \in Seq(Nat) /\ troubles' \in 0 .. MaxTroubles
<1>1. \A p \in Process :
          /\ call[p].ledger \in Ledger /\ call[p].began \in Nat
  BY TypedParts DEF CallsOK, CallType
<1>2. MaxTroubles \in Nat /\ RestOK
  BY BoundAssumption, TypedParts
<1>3. since' = since \/ \E n \in Nat : since' = Append(since, n)
  <2>1. CASE \E p \in Process : AppendRow(p)
    BY <1>1, <2>1 DEF AppendRow
  <2> QED
    BY <2>1
       DEF Next, Resolve, Replay, ReadDecisions, Plan, Adapted, Governed, Read, Verify, Reverify,
           Unlock, AppendDenied, AppendFails, Unseal, Empty, EmptyDenied, Seal, SealFails,
           Reseal, Lock, Crash
<1>4. spoiled' = spoiled \/ \E l \in Ledger : spoiled' = spoiled \cup {l}
  BY <1>1
     DEF Next, Resolve, Replay, ReadDecisions, Plan, Adapted, Governed, Read, Verify, Reverify,
         Unlock, AppendRow, AppendDenied, AppendFails, Unseal, Empty, EmptyDenied, Seal,
         SealFails, Reseal, Lock, Crash
<1>5. \/ troubles' = troubles
      \/ troubles < MaxTroubles /\ troubles' = troubles + 1
  <2>1. CASE \E p \in Process : SealFails(p) \/ Crash(p)
                               \/ \E torn \in BOOLEAN : AppendFails(p, torn)
    BY <2>1 DEF SealFails, Crash, AppendFails
  <2> QED
    BY <2>1
       DEF Next, Resolve, Replay, ReadDecisions, Plan, Adapted, Governed, Read, Verify, Reverify,
           Unlock, AppendRow, AppendDenied, Unseal, Empty, EmptyDenied, Seal, Reseal, Lock
<1>6. since' \in Seq(Nat) /\ spoiled' \subseteq Ledger
  BY <1>2, <1>3, <1>4 DEF RestOK
<1>7. troubles' \in 0 .. MaxTroubles
  BY <1>2, <1>5 DEF RestOK
<1> QED
  BY <1>6, <1>7

LEMMA InitTyped == Init => Typed
<1> SUFFICES ASSUME Init PROVE Typed
  OBVIOUS
<1>1. CallsOK
  BY IdleOK DEF Init, CallsOK, CallOK
<1>2. NoFile \in FileType /\ NoManifest \in ManifestType
  BY DEF NoFile, NoManifest, FileType, ManifestType
<1>3. NoFile.rows = <<>> /\ NoManifest.rows = <<>>
  BY DEF NoFile, NoManifest
<1>4. FilesOK
  <2>1. \A l \in Ledger : file[l] = NoFile /\ manifest[l] = NoManifest
    BY DEF Init
  <2>2. \A l \in Ledger : file[l].rows = <<>> /\ manifest[l].rows = <<>>
    BY <1>3, <2>1
  <2>3. file \in [Ledger -> FileType] /\ manifest \in [Ledger -> ManifestType]
    BY <1>2 DEF Init
  <2>4. \A S : <<>> \in Seq(S)
    OBVIOUS
  <2> QED
    BY <2>2, <2>3, <2>4 DEF FilesOK
<1>5. RestOK
  BY BoundAssumption DEF Init, RestOK
<1> QED
  BY <1>1, <1>4, <1>5, TypedParts

LEMMA TypedStep == Typed /\ [Next]_vars => Typed'
<1>1. ASSUME Typed, Next PROVE Typed'
  BY <1>1, CallsTyped, FilesTyped, HistoryTyped, TypedParts DEF RestOK
<1>2. ASSUME Typed, UNCHANGED vars PROVE Typed'
  BY <1>2, TypedParts DEF FilesOK, CallsOK, CallOK, RestOK, vars
<1> QED
  BY <1>1, <1>2

(* Contents of the files, of the manifests and of every call's locals, for *)
(* any processes, events and captures (resolveOddsEvents, append,          *)
(* appendProjection).                                                      *)
THEOREM LedgersTyped == Spec => []TypeOK
<1>1. Spec => []Typed
  BY InitTyped, TypedStep, PTL DEF Spec
<1>2. Typed => TypeOK
  BY DEF Typed
<1> QED
  BY <1>1, <1>2, PTL

-----------------------------------------------------------------------------
(* What a step does to its call, and to the rows of the ledgers.           *)

Others(p) == \A q \in Process \ {p} : call'[q] = call[q]

SameRow(r, s) ==
    /\ r.ledger = s.ledger /\ r.todo = s.todo /\ r.base = s.base /\ r.known = s.known
    /\ r.fresh = s.fresh /\ r.began = s.began

LEMMA GotoFields ==
    ASSUME Typed, NEW p \in Process, NEW pc, Goto(p, pc)
    PROVE  /\ call'[p].pc = pc /\ SameRow(call'[p], call[p]) /\ call'[p].failed = call[p].failed
           /\ Others(p)
BY TypedParts DEF Others, Goto, SameRow, CallsOK, CallType

LEMMA FailsFields ==
    ASSUME Typed, NEW p \in Process, NEW pc, Fails(p, pc)
    PROVE  /\ call'[p].pc = pc /\ SameRow(call'[p], call[p]) /\ call'[p].failed
           /\ Others(p)
BY TypedParts DEF Others, Fails, SameRow, CallsOK, CallType

LEMMA ThrowFields ==
    ASSUME Typed, NEW p \in Process, Throw(p)
    PROVE  /\ call'[p].pc = "idle"
           /\ Others(p)
BY TypedParts DEF Others, Throw, Kept, Idle, CallsOK

LEMMA ReturnFields ==
    ASSUME Typed, NEW p \in Process, Return(p)
    PROVE  /\ \/ call'[p].pc = "idle"
              \/ /\ call'[p].ledger = call[p].ledger
                 /\ call'[p].pc = Entry(call[p].ledger)
                 /\ call'[p].began = Begun(call[p].ledger)
           /\ Others(p)
BY TypedParts DEF Others, Return, Kept, Idle, CallsOK

LEMMA CallEffect ==
    ASSUME Typed, NEW p \in Process, NEW r, call' = [call EXCEPT ![p] = r]
    PROVE  call'[p] = r /\ Others(p)
BY TypedParts DEF CallsOK, Others

LEMMA ResolveFields ==
    ASSUME Typed, NEW p \in Process, NEW c \in Capture, Resolve(p, c)
    PROVE  call'[p].pc = "survey" /\ Others(p)
<1> DEFINE r == [Idle EXCEPT !.pc = "survey", !.capture = c]
<1>1. r.pc = "survey"
  BY DEF Idle
<1>2. call' = [call EXCEPT ![p] = r]
  BY DEF Resolve
<1> HIDE DEF r
<1> QED
  BY <1>1, <1>2, CallEffect

LEMMA ReplayFields ==
    ASSUME Typed, NEW p \in Process, Replay(p)
    PROVE  call'[p].pc = "adapt" /\ call'[p].ledger = "observations" /\ Others(p)
BY TypedParts DEF Replay, Others, CallsOK, CallType

LEMMA ReadDecisionsFields ==
    ASSUME Typed, NEW p \in Process, ReadDecisions(p)
    PROVE  /\ \/ call'[p].pc = "idle"
              \/ /\ \/ call[p].pc = "survey" /\ call'[p].pc = "plan"
                    \/ call[p].pc = "adapt"  /\ call'[p].pc = "adapted"
                    \/ call[p].pc = "govern" /\ call'[p].pc = "governed"
                    \/ call[p].pc = "reread" /\ call'[p].pc = "reverify"
                 /\ call'[p].known = file["decisions"].rows
                 /\ call'[p].ledger = call[p].ledger /\ call'[p].todo = call[p].todo
                 /\ call'[p].base = call[p].base /\ call'[p].began = call[p].began
           /\ Others(p)
<1> DEFINE r(next) == [call[p] EXCEPT !.pc = next, !.known = file["decisions"].rows,
                                      !.fresh = Absent("decisions")]
<1>1. call[p] \in CallType
  BY TypedParts DEF CallsOK
<1>2. CASE Throw(p)
  BY <1>2, ThrowFields DEF Others
<1>3. CASE ~Throw(p)
  <2>1. PICK next \in {"plan", "adapted", "governed", "reverify"} :
            /\ call' = [call EXCEPT ![p] = r(next)]
            /\ \/ call[p].pc = "survey" /\ next = "plan"
               \/ call[p].pc = "adapt"  /\ next = "adapted"
               \/ call[p].pc = "govern" /\ next = "governed"
               \/ call[p].pc = "reread" /\ next = "reverify"
    BY <1>3, TypedParts DEF ReadDecisions, CallsOK
  <2>2. /\ r(next).known = file["decisions"].rows /\ r(next).todo = call[p].todo
        /\ r(next).base = call[p].base /\ r(next).ledger = call[p].ledger
        /\ r(next).pc = next /\ r(next).began = call[p].began
    BY <1>1 DEF CallType
  <2> HIDE DEF r
  <2>3. call'[p] = r(next) /\ Others(p)
    BY <2>1, CallEffect
  <2> QED
    BY <2>1, <2>2, <2>3
<1> QED
  BY <1>2, <1>3

LEMMA PlanFields ==
    ASSUME Typed, NEW p \in Process, NEW authorized, Plan(p, authorized)
    PROVE  /\ \/ call'[p].pc = "idle"
              \/ call'[p].pc = "read" /\ call'[p].ledger = "decisions"
           /\ Others(p)
<1>1. CASE Throw(p)
  BY <1>1, ThrowFields DEF Others
<1>2. CASE ~Throw(p)
  <2> DEFINE r(decisions) == [Idle EXCEPT !.pc = "read", !.capture = call[p].capture,
                                          !.registry = decisions, !.todo = decisions]
  <2>1. \E decisions : call' = [call EXCEPT ![p] = r(decisions)]
    BY <1>2 DEF Plan
  <2>2. \A decisions : r(decisions).pc = "read" /\ r(decisions).ledger = "decisions"
    BY DEF Idle
  <2> HIDE DEF r
  <2> QED
    BY <2>1, <2>2, CallEffect
<1> QED
  BY <1>1, <1>2

LEMMA CheckedFields ==
    ASSUME Typed, NEW p \in Process, Adapted(p) \/ Governed(p)
    PROVE  /\ \/ call'[p].pc = "idle"
              \/ /\ \/ /\ Adapted(p) /\ call'[p].pc = "govern"
                       /\ call'[p].began = Len(file["decisions"].rows)
                    \/ /\ Governed(p) /\ call'[p].pc = "read"
                       /\ call'[p].began = call[p].began
                       /\ Active(Row(p).decision, call[p].known, Len(call[p].known))
                 /\ call'[p].ledger = call[p].ledger /\ call'[p].todo = call[p].todo
           /\ Others(p)
<1> DEFINE r == [call[p] EXCEPT !.pc = "govern", !.known = <<>>, !.fresh = FALSE,
                                !.began = Begun("observations")]
           s == [call[p] EXCEPT !.pc = "read", !.known = <<>>, !.fresh = FALSE]
<1>1. call[p] \in CallType
  BY TypedParts DEF CallsOK
<1>2. CASE Throw(p)
  BY <1>2, ThrowFields DEF Others
<1>3. CASE ~Throw(p)
  <2>1. \/ Adapted(p) /\ call' = [call EXCEPT ![p] = r]
        \/ /\ Governed(p) /\ call' = [call EXCEPT ![p] = s]
           /\ Active(Row(p).decision, call[p].known, Len(call[p].known))
    BY <1>3, TypedParts DEF Adapted, Governed, CallsOK
  <2>2. /\ r.todo = call[p].todo /\ r.ledger = call[p].ledger /\ r.pc = "govern"
        /\ r.began = Len(file["decisions"].rows)
        /\ s.todo = call[p].todo /\ s.ledger = call[p].ledger /\ s.pc = "read"
        /\ s.began = call[p].began
    BY <1>1 DEF CallType, Begun
  <2> HIDE DEF r, s
  <2>3. (call'[p] = r \/ call'[p] = s) /\ Others(p)
    BY <2>1, CallEffect
  <2>4. \/ Adapted(p) /\ call'[p] = r
        \/ /\ Governed(p) /\ call'[p] = s
           /\ Active(Row(p).decision, call[p].known, Len(call[p].known))
    BY <2>1, CallEffect
  <2> QED
    BY <2>2, <2>3, <2>4
<1> QED
  BY <1>2, <1>3

LEMMA ReadFields ==
    ASSUME Typed, NEW p \in Process, Read(p)
    PROVE  /\ \/ call'[p].pc = "idle"
              \/ /\ call'[p].pc = "verify" /\ call'[p].ledger = call[p].ledger
                 /\ call'[p].todo = call[p].todo /\ call'[p].began = call[p].began
                 /\ call'[p].base = file[call[p].ledger].rows
                 /\ call'[p].fresh = Absent(call[p].ledger)
                 /\ Opens(call[p].ledger) \/ Absent(call[p].ledger)
           /\ Others(p)
<1> DEFINE l == call[p].ledger
           r == [call[p] EXCEPT !.pc = "verify", !.base = file[l].rows, !.fresh = Absent(l)]
<1>1. call[p] \in CallType
  BY TypedParts DEF CallsOK
<1>2. CASE Throw(p)
  BY <1>2, ThrowFields DEF Others
<1>3. CASE ~Throw(p)
  <2>1. call' = [call EXCEPT ![p] = r] /\ (Opens(l) \/ Absent(l))
    BY <1>3, TypedParts DEF Read, CallsOK
  <2>2. /\ r.todo = call[p].todo /\ r.base = file[l].rows /\ r.fresh = Absent(l)
        /\ r.ledger = l /\ r.pc = "verify" /\ r.began = call[p].began
    BY <1>1 DEF CallType
  <2> HIDE DEF r
  <2>3. call'[p] = r /\ Others(p)
    BY <2>1, CallEffect
  <2> QED
    BY <2>1, <2>2, <2>3
<1> QED
  BY <1>2, <1>3

LEMMA CrashFields ==
    ASSUME Typed, NEW p \in Process, Crash(p)
    PROVE  call'[p].pc = "idle" /\ Others(p)
<1>1. Idle.pc = "idle" /\ call' = [call EXCEPT ![p] = Idle]
  BY DEF Crash, Idle
<1> QED
  BY <1>1, CallEffect

(* Which steps touch a ledger's file, and which its manifest.              *)
LEMMA FileChanges ==
    ASSUME Next
    PROVE  \/ file' = file
           \/ \E p \in Process :
                  \/ Unlock(p) \/ AppendRow(p) \/ Lock(p)
                  \/ \E torn \in BOOLEAN : AppendFails(p, torn)
BY DEF Next, Resolve, Replay, ReadDecisions, Plan, Adapted, Governed, Read, Verify, Reverify,
       AppendDenied, Unseal, Empty, EmptyDenied, Seal, SealFails, Reseal, Crash

LEMMA ManifestChanges ==
    ASSUME Next
    PROVE  \/ manifest' = manifest
           \/ \E p \in Process : Unseal(p) \/ Empty(p) \/ Seal(p) \/ Reseal(p)
BY DEF Next, Resolve, Replay, ReadDecisions, Plan, Adapted, Governed, Read, Verify, Reverify,
       Unlock, AppendRow, AppendDenied, AppendFails, EmptyDenied, SealFails, Lock, Crash

LEMMA FileEffect ==
    ASSUME Typed, NEW l \in Ledger, NEW r \in FileType, file' = [file EXCEPT ![l] = r]
    PROVE  file'[l] = r /\ \A k \in Ledger \ {l} : file'[k] = file[k]
BY TypedParts DEF FilesOK

LEMMA ManifestEffect ==
    ASSUME Typed, NEW l \in Ledger, NEW r \in ManifestType, manifest' = [manifest EXCEPT ![l] = r]
    PROVE  manifest'[l] = r /\ \A k \in Ledger \ {l} : manifest'[k] = manifest[k]
BY TypedParts DEF FilesOK

LEMMA ModeSet ==
    ASSUME Typed, NEW p \in Process, Unlock(p) \/ Lock(p)
    PROVE  /\ call[p].ledger \in Ledger
           /\ file'[call[p].ledger].rows = file[call[p].ledger].rows /\ file'[call[p].ledger].exists = file[call[p].ledger].exists
           /\ file'[call[p].ledger].torn = file[call[p].ledger].torn
           /\ file'[call[p].ledger].readonly = (call[p].pc = "lock")
           /\ \A k \in Ledger \ {call[p].ledger} : file'[k] = file[k]
<1> DEFINE l == call[p].ledger
           b == call[p].pc = "lock"
           r == [file[l] EXCEPT !.readonly = b]
<1>1. call[p].pc \notin Early
  BY DEF Unlock, Lock, Early
<1>2. l \in Ledger /\ file[l] \in FileType
  BY <1>1, Writer
<1>3. file' = [file EXCEPT ![l] = r]
  BY <1>2, TypedParts DEF Unlock, Lock, FilesOK
<1>4. /\ r \in FileType /\ r.rows = file[l].rows /\ r.exists = file[l].exists
      /\ r.torn = file[l].torn /\ r.readonly = b
  BY <1>2 DEF FileType
<1> HIDE DEF r
<1> QED
  BY <1>2, <1>3, <1>4, FileEffect

LEMMA RowLost ==
    ASSUME Typed, NEW p \in Process, NEW torn \in BOOLEAN, AppendFails(p, torn)
    PROVE  /\ call[p].ledger \in Ledger
           /\ file'[call[p].ledger].rows = file[call[p].ledger].rows /\ file'[call[p].ledger].exists
           /\ \A k \in Ledger \ {call[p].ledger} : file'[k] = file[k]
<1> DEFINE l == call[p].ledger
           r == [file[l] EXCEPT !.exists = TRUE, !.torn = file[l].torn \/ torn,
                            !.readonly = IF file[l].exists THEN file[l].readonly ELSE TRUE]
<1>1. call[p].pc \notin Early
  BY DEF AppendFails, Early
<1>2. l \in Ledger /\ file[l] \in FileType
  BY <1>1, Writer
<1>3. file' = [file EXCEPT ![l] = r]
  BY <1>2, TypedParts DEF AppendFails, FilesOK, FileType
<1>4. r \in FileType /\ r.rows = file[l].rows /\ r.exists
  BY <1>2 DEF FileType
<1> HIDE DEF r
<1> QED
  BY <1>2, <1>3, <1>4, FileEffect

LEMMA RowAdded ==
    ASSUME Typed, NEW p \in Process, AppendRow(p)
    PROVE  /\ call[p].ledger \in Ledger
           /\ file'[call[p].ledger].rows = Append(file[call[p].ledger].rows, Row(p)) /\ file'[call[p].ledger].exists
           /\ file'[call[p].ledger].torn = file[call[p].ledger].torn
           /\ file'[call[p].ledger].readonly = IF file[call[p].ledger].exists THEN file[call[p].ledger].readonly ELSE TRUE
           /\ \A k \in Ledger \ {call[p].ledger} : file'[k] = file[k]
<1> DEFINE l == call[p].ledger
           r == [file[l] EXCEPT !.exists = TRUE, !.rows = Append(file[l].rows, Row(p)),
                            !.readonly = IF file[l].exists THEN file[l].readonly ELSE TRUE]
<1>1. call[p].pc \notin Early
  BY DEF AppendRow, Early
<1>2. /\ l \in Ledger /\ file[l] \in FileType /\ Row(p) \in RowOf(l)
      /\ file[l].rows \in Seq(RowOf(l))
  BY <1>1, Writer
<1>3. file' = [file EXCEPT ![l] = r]
  BY <1>2, TypedParts DEF AppendRow, FilesOK, FileType
<1>4. Append(file[l].rows, Row(p)) \in Seq(RowOf(l))
  BY <1>2
<1>5. Append(file[l].rows, Row(p)) \in Seq(Decision \cup Observation)
  BY <1>2, <1>4, SeqSubset, RowOfLedger
<1>6. /\ r \in FileType /\ r.rows = Append(file[l].rows, Row(p)) /\ r.exists
      /\ r.torn = file[l].torn
      /\ r.readonly = IF file[l].exists THEN file[l].readonly ELSE TRUE
  BY <1>2, <1>5 DEF FileType
<1> HIDE DEF r
<1> QED
  BY <1>2, <1>3, <1>6, FileEffect

LEMMA SealMoved ==
    ASSUME Typed, NEW p \in Process, Unseal(p) \/ Reseal(p)
    PROVE  /\ call[p].ledger \in Ledger
           /\ manifest'[call[p].ledger].rows = manifest[call[p].ledger].rows
           /\ manifest'[call[p].ledger].exists = manifest[call[p].ledger].exists
           /\ manifest'[call[p].ledger].whole = manifest[call[p].ledger].whole
           /\ manifest'[call[p].ledger].readonly = (call[p].pc = "reseal" /\ manifest[call[p].ledger].exists)
           /\ \A k \in Ledger \ {call[p].ledger} : manifest'[k] = manifest[k]
<1> DEFINE l == call[p].ledger
           b == call[p].pc = "reseal" /\ manifest[l].exists
           r == [manifest[l] EXCEPT !.readonly = b]
<1>1. call[p].pc \notin Early
  BY DEF Unseal, Reseal, Early
<1>2. l \in Ledger /\ manifest[l] \in ManifestType
  BY <1>1, Writer
<1>3. manifest' = [manifest EXCEPT ![l] = r]
  <2>1. manifest[l].exists \in BOOLEAN
    BY <1>2 DEF ManifestType
  <2> QED
    BY <1>2, <2>1, TypedParts DEF Unseal, Reseal, FilesOK
<1>4. /\ r \in ManifestType /\ r.rows = manifest[l].rows /\ r.exists = manifest[l].exists
      /\ r.whole = manifest[l].whole /\ r.readonly = b
  BY <1>2 DEF ManifestType
<1> HIDE DEF r
<1> QED
  BY <1>2, <1>3, <1>4, ManifestEffect

LEMMA ManifestEmptied ==
    ASSUME Typed, NEW p \in Process, Empty(p)
    PROVE  /\ call[p].ledger \in Ledger
           /\ manifest'[call[p].ledger].rows = <<>> /\ manifest'[call[p].ledger].exists /\ ~manifest'[call[p].ledger].whole
           /\ manifest'[call[p].ledger].readonly = (manifest[call[p].ledger].readonly \/ ~manifest[call[p].ledger].exists)
           /\ \A k \in Ledger \ {call[p].ledger} : manifest'[k] = manifest[k]
<1> DEFINE l == call[p].ledger
           r == [exists |-> TRUE, rows |-> <<>>, whole |-> FALSE,
                 readonly |-> manifest[l].readonly \/ ~manifest[l].exists]
<1>1. call[p].pc \notin Early
  BY DEF Empty, Early
<1>2. l \in Ledger /\ manifest[l] \in ManifestType
  BY <1>1, Writer
<1>3. manifest' = [manifest EXCEPT ![l] = r]
  BY DEF Empty
<1>4. <<>> \in Seq(Decision \cup Observation)
  OBVIOUS
<1>5. /\ r \in ManifestType /\ r.rows = <<>> /\ r.exists /\ ~r.whole
      /\ r.readonly = (manifest[l].readonly \/ ~manifest[l].exists)
  BY <1>2, <1>4 DEF ManifestType
<1> HIDE DEF r
<1>6. manifest'[l] = r /\ \A k \in Ledger \ {l} : manifest'[k] = manifest[k]
  BY <1>2, <1>3, <1>5, ManifestEffect
<1> QED
  BY <1>2, <1>5, <1>6

LEMMA ManifestFilled ==
    ASSUME Typed, NEW p \in Process, Seal(p)
    PROVE  /\ call[p].ledger \in Ledger
           /\ manifest'[call[p].ledger].rows = Append(call[p].base, Row(p))
           /\ manifest'[call[p].ledger].exists = manifest[call[p].ledger].exists
           /\ manifest'[call[p].ledger].readonly = manifest[call[p].ledger].readonly
           /\ manifest[call[p].ledger].rows = <<>> => manifest'[call[p].ledger].whole
           /\ \A k \in Ledger \ {call[p].ledger} : manifest'[k] = manifest[k]
<1> DEFINE l == call[p].ledger
           rows == Append(call[p].base, Row(p))
           r(b) == [manifest[l] EXCEPT !.rows = rows, !.whole = b]
<1>1. call[p].pc \notin Early
  BY DEF Seal, Early
<1>2. /\ l \in Ledger /\ manifest[l] \in ManifestType
      /\ rows \in Seq(Decision \cup Observation)
  BY <1>1, Writer
<1>3. \E b \in BOOLEAN : /\ manifest[l].rows = <<>> => b
                         /\ manifest' = [manifest EXCEPT ![l] = r(b)]
  BY <1>2, TypedParts DEF Seal, FilesOK
<1> HIDE DEF rows
<1>4. \A b \in BOOLEAN :
          /\ r(b) \in ManifestType /\ r(b).rows = rows /\ r(b).exists = manifest[l].exists
          /\ r(b).readonly = manifest[l].readonly /\ r(b).whole = b
  BY <1>2 DEF ManifestType
<1> HIDE DEF r
<1> QED
  <2>1. PICK b \in BOOLEAN : /\ manifest[l].rows = <<>> => b
                             /\ manifest' = [manifest EXCEPT ![l] = r(b)]
    BY <1>3
  <2>2. manifest'[l] = r(b) /\ \A k \in Ledger \ {l} : manifest'[k] = manifest[k]
    BY <1>2, <1>4, <2>1, ManifestEffect
  <2> QED
    BY <1>2, <1>4, <2>1, <2>2 DEF rows

(* Rows are only ever added at the end, and by AppendRow.                  *)
LEMMA RowsStay ==
    ASSUME Typed, Next, \A p \in Process : ~AppendRow(p)
    PROVE  \A l \in Ledger : file'[l].rows = file[l].rows
BY FileChanges, ModeSet, RowLost

LEMMA RowsGrow ==
    ASSUME Typed, Next, NEW l \in Ledger
    PROVE  /\ Len(file[l].rows) \in Nat /\ Len(file'[l].rows) \in Nat
           /\ Prefix(file[l].rows, file'[l].rows)
<1>1. file[l].rows \in Seq(RowOf(l)) /\ file'[l].rows \in Seq(RowOf(l))
  BY TypedStep, TypedParts DEF FilesOK
<1>2. CASE \A p \in Process : ~AppendRow(p)
  BY <1>1, <1>2, RowsStay, PrefixSelf
<1>3. ASSUME NEW p \in Process, AppendRow(p)
      PROVE  Prefix(file[l].rows, file'[l].rows)
  <2>1. Row(p) \in RowOf(call[p].ledger)
    BY <1>3, RowTyped DEF AppendRow, Early
  <2>2. CASE l = call[p].ledger
    <3>1. file'[l].rows = Append(file[l].rows, Row(p))
      BY <1>3, <2>2, RowAdded
    <3> QED
      BY <1>1, <2>1, <2>2, <3>1 DEF Prefix
  <2>3. CASE l # call[p].ledger
    <3>1. file'[l] = file[l]
      BY <1>3, <2>3, RowAdded
    <3> QED
      BY <1>1, <3>1 DEF Prefix
  <2> QED
    BY <2>2, <2>3
<1> QED
  BY <1>1, <1>2, <1>3

LEMMA PrefixTrans ==
    ASSUME NEW r, NEW s, NEW t, Len(r) \in Nat, Len(s) \in Nat, Len(t) \in Nat,
           Prefix(r, s), Prefix(s, t)
    PROVE  Prefix(r, t)
BY DEF Prefix

-----------------------------------------------------------------------------
(* What each call knows of its ledger.                                     *)

Based == {"verify", "reread", "reverify"} \cup Writing

CallKnows(r) ==
    /\ r.pc \in Based => Prefix(r.base, file[r.ledger].rows)
    /\ r.pc = "verify" /\ r.fresh => r.base = <<>>
    /\ r.pc = "seal" => manifest[r.ledger].exists
    /\ r.pc \in {"reread", "reverify"} => r.ledger = "decisions"
    /\ r.pc \in {"adapt", "adapted", "govern", "governed"} => r.ledger = "observations"

FilesKnown ==
    \A l \in Ledger :
        /\ ~file[l].exists => file[l].rows = <<>>
        /\ ~manifest[l].exists => manifest[l].rows = <<>>

Tracked == FilesKnown /\ \A p \in Process : CallKnows(call[p])

LEMMA ManifestStays ==
    ASSUME Typed, Next, NEW l \in Ledger, manifest[l].exists
    PROVE  manifest'[l].exists
BY ManifestChanges, SealMoved, ManifestEmptied, ManifestFilled

LEMMA FileStays ==
    ASSUME Typed, Next, NEW l \in Ledger, file[l].exists
    PROVE  file'[l].exists
<1>1. ASSUME NEW p \in Process, AppendRow(p)
      PROVE  file'[l].exists
  BY <1>1, RowAdded
<1> QED
  BY <1>1, FileChanges, ModeSet, RowLost

LEMMA KnowsStill ==
    ASSUME Typed, Next, NEW q \in Process, CallKnows(call[q]), call'[q] = call[q]
    PROVE  CallKnows(call[q])'
<1>1. call[q].ledger \in Ledger /\ Len(call[q].base) \in Nat
  BY TypedParts DEF CallsOK, CallOK, CallType
<1>2. Prefix(call[q].base, file[call[q].ledger].rows)
          => Prefix(call[q].base, file'[call[q].ledger].rows)
  BY <1>1, RowsGrow, PrefixTrans
<1> QED
  BY <1>1, <1>2, ManifestStays DEF CallKnows

LEMMA FilesKnownStep ==
    ASSUME Typed, Tracked, Next
    PROVE  FilesKnown'
<1>1. ASSUME NEW l \in Ledger, ~file'[l].exists
      PROVE  file'[l].rows = <<>>
  <2>1. ~file[l].exists
    BY <1>1, FileStays
  <2>2. CASE \E p \in Process : AppendRow(p)
    BY <1>1, <2>1, <2>2, RowAdded DEF Tracked, FilesKnown
  <2>3. CASE \A p \in Process : ~AppendRow(p)
    BY <2>1, <2>3, RowsStay DEF Tracked, FilesKnown
  <2> QED
    BY <2>2, <2>3
<1>2. ASSUME NEW l \in Ledger, ~manifest'[l].exists
      PROVE  manifest'[l].rows = <<>>
  <2>1. ~manifest[l].exists /\ manifest[l].rows = <<>>
    BY <1>2, ManifestStays DEF Tracked, FilesKnown
  <2>2. CASE manifest' = manifest
    BY <2>1, <2>2
  <2>3. ASSUME NEW p \in Process, Empty(p)
        PROVE  manifest'[l].rows = <<>>
    BY <2>1, <2>3, ManifestEmptied
  <2>4. ASSUME NEW p \in Process, Unseal(p) \/ Reseal(p)
        PROVE  manifest'[l].rows = <<>>
    BY <2>1, <2>4, SealMoved
  <2>5. ASSUME NEW p \in Process, Seal(p)
        PROVE  manifest'[l].rows = <<>>
    <3>1. call[p].ledger # l
      BY <2>1, <2>5 DEF Seal, Tracked, CallKnows
    <3> QED
      BY <2>1, <2>5, <3>1, ManifestFilled
  <2> QED
    BY <2>2, <2>3, <2>4, <2>5, ManifestChanges
<1> QED
  BY <1>1, <1>2 DEF FilesKnown

(* The steps of a call that is not writing.                                *)
LEMMA KnowsReading ==
    ASSUME Typed, Tracked, NEW p \in Process,
           \/ \E c \in Capture : Resolve(p, c)
           \/ Replay(p) \/ ReadDecisions(p)
           \/ \E authorized \in SUBSET Event : Plan(p, authorized)
           \/ Adapted(p) \/ Governed(p) \/ Read(p) \/ Verify(p) \/ Reverify(p) \/ Crash(p)
    PROVE  CallKnows(call[p])' /\ Others(p)
<1>1. /\ call[p].ledger \in Ledger /\ CallKnows(call[p])
      /\ Len(file[call[p].ledger].rows) \in Nat
  BY TypedParts DEF CallsOK, Tracked, CallType, FilesOK
<1>2. CASE Throw(p)
  BY <1>2, ThrowFields DEF CallKnows, Based, Writing
<1>3. CASE Return(p)
  BY <1>1, <1>3, ReturnFields DEF CallKnows, Based, Writing, Entry, Ledger
<1>4. CASE \E c \in Capture : Resolve(p, c)
  BY <1>4, ResolveFields DEF CallKnows, Based, Writing
<1>5. CASE Replay(p)
  BY <1>5, ReplayFields DEF CallKnows, Based, Writing
<1>6. CASE ReadDecisions(p)
  <2>1. file' = file /\ manifest' = manifest
    BY <1>6 DEF ReadDecisions
  <2> QED
    BY <1>1, <1>6, <2>1, ReadDecisionsFields DEF CallKnows, Based, Writing
<1>7. CASE \E authorized \in SUBSET Event : Plan(p, authorized)
  BY <1>7, PlanFields DEF CallKnows, Based, Writing
<1>8. CASE Adapted(p) \/ Governed(p)
  BY <1>1, <1>8, CheckedFields DEF Adapted, Governed, CallKnows, Based, Writing
<1>9. CASE Read(p)
  <2>1. file' = file /\ Prefix(file[call[p].ledger].rows, file[call[p].ledger].rows)
    BY <1>1, <1>9, PrefixSelf DEF Read
  <2>2. Absent(call[p].ledger) => file[call[p].ledger].rows = <<>>
    BY <1>1 DEF Absent, Tracked, FilesKnown
  <2> QED
    BY <1>1, <1>9, <2>1, <2>2, ReadFields DEF CallKnows, Based, Writing
<1>10. CASE (Verify(p) \/ Reverify(p)) /\ ~Throw(p) /\ ~Return(p)
  <2>1. UNCHANGED <<file, manifest>>
    BY <1>10 DEF Verify, Reverify
  <2>2. CASE Verify(p)
    <3>1. PICK pc : /\ Goto(p, pc) /\ pc \in {"reread", "unlock"}
                    /\ pc = "reread" => call[p].ledger = "decisions"
      BY <1>10, <2>2 DEF Verify
    <3>2. call'[p].pc = pc /\ SameRow(call'[p], call[p]) /\ Others(p)
      BY <3>1, GotoFields
    <3>3. call[p].pc = "verify"
      BY <2>2 DEF Verify
    <3> QED
      BY <1>1, <2>1, <3>1, <3>2, <3>3 DEF CallKnows, Based, Writing, SameRow
  <2>3. CASE Reverify(p)
    <3>1. Goto(p, "unlock") /\ call[p].pc = "reverify"
      BY <1>10, <2>3 DEF Reverify
    <3>2. call'[p].pc = "unlock" /\ SameRow(call'[p], call[p]) /\ Others(p)
      BY <3>1, GotoFields
    <3> QED
      BY <1>1, <2>1, <3>1, <3>2 DEF CallKnows, Based, Writing, SameRow
  <2> QED
    BY <1>10, <2>2, <2>3
<1>11. CASE Crash(p)
  BY <1>11, CrashFields DEF CallKnows, Based, Writing
<1> QED
  BY <1>2, <1>3, <1>4, <1>5, <1>6, <1>7, <1>8, <1>9, <1>10, <1>11

(* The steps of a writing call.                                            *)
LEMMA KnowsWriting ==
    ASSUME Typed, Tracked, Next, NEW p \in Process,
           \/ Unlock(p) \/ AppendRow(p) \/ AppendDenied(p)
           \/ \E torn \in BOOLEAN : AppendFails(p, torn)
           \/ Unseal(p) \/ Empty(p) \/ EmptyDenied(p) \/ Seal(p) \/ SealFails(p)
           \/ Reseal(p) \/ Lock(p)
    PROVE  CallKnows(call[p])' /\ Others(p)
<1>1. /\ call[p].ledger \in Ledger /\ CallKnows(call[p]) /\ Len(call[p].base) \in Nat
  BY TypedParts DEF CallsOK, CallOK, Tracked, CallType
<1>2. Prefix(call[p].base, file'[call[p].ledger].rows)
  <2>1. Prefix(call[p].base, file[call[p].ledger].rows)
    BY <1>1 DEF CallKnows, Based, Writing, Unlock, AppendRow, AppendDenied, AppendFails, Unseal,
                Empty, EmptyDenied, Seal, SealFails, Reseal, Lock
  <2> QED
    BY <1>1, <2>1, RowsGrow, PrefixTrans
<1>3. CASE Lock(p)
  BY <1>1, <1>3, ThrowFields, ReturnFields DEF Lock, CallKnows, Based, Writing, Entry, Ledger
<1>4. CASE ~Lock(p)
  <2>1. \/ Goto(p, "append") \/ Goto(p, "unseal") \/ Goto(p, "empty") \/ Goto(p, "reseal")
        \/ Goto(p, "lock") \/ Fails(p, "lock") \/ Fails(p, "reseal")
        \/ Goto(p, "seal") /\ Empty(p)
    BY <1>4 DEF Unlock, AppendRow, AppendDenied, AppendFails, Unseal, Empty, EmptyDenied,
                Seal, SealFails, Reseal
  <2>2. /\ call'[p].pc \in Writing /\ SameRow(call'[p], call[p]) /\ Others(p)
        /\ call'[p].pc = "seal" => Empty(p)
    BY <2>1, GotoFields, FailsFields DEF Writing
  <2>3. call'[p].pc = "seal" => manifest'[call[p].ledger].exists
    BY <2>2, ManifestEmptied
  <2> QED
    BY <1>2, <2>1, <2>2, <2>3 DEF CallKnows, Based, Writing, SameRow
<1> QED
  BY <1>3, <1>4

LEMMA TrackedStep == Typed /\ Tracked /\ [Next]_vars => Tracked'
<1>1. ASSUME Typed, Tracked, Next
      PROVE  Tracked'
  <2>1. PICK p \in Process : CallKnows(call[p])' /\ Others(p)
    BY <1>1, KnowsReading, KnowsWriting DEF Next
  <2>2. ASSUME NEW q \in Process
        PROVE  CallKnows(call[q])'
    BY <1>1, <2>1, KnowsStill DEF Tracked, Others
  <2> QED
    BY <1>1, <2>2, FilesKnownStep DEF Tracked
<1>2. ASSUME Tracked, UNCHANGED vars
      PROVE  Tracked'
  BY <1>2 DEF Tracked, FilesKnown, CallKnows, vars
<1> QED
  BY <1>1, <1>2

LEMMA InitTracked == Init => Tracked
BY DEF Init, Tracked, FilesKnown, CallKnows, Idle, NoFile, NoManifest, Based, Writing

-----------------------------------------------------------------------------
(* Only a chain is ever sealed.                                            *)

Decided == file["decisions"].rows

CallChained(r) ==
    r.ledger = "decisions" =>
        /\ r.pc \in {"reverify", "unlock", "append"} =>
               Prefix(r.known, Decided) /\ Len(r.base) <= Len(r.known)
        /\ r.pc \in {"unlock", "append"} =>
               /\ Chain(r.known, Len(r.known))
               /\ Supersedes(Head(r.todo), r.known, Len(r.known))
        /\ r.pc \in {"unseal", "empty", "seal"} =>
               /\ Len(r.base) < Len(Decided)
               /\ Append(r.base, Head(r.todo)) = Decided => Chain(Decided, Len(Decided))

SealChained ==
    manifest["decisions"].whole =>
        /\ Len(manifest["decisions"].rows) <= Len(Decided)
        /\ manifest["decisions"].rows = Decided => Chain(Decided, Len(Decided))

Chained == SealChained /\ \A p \in Process : CallChained(call[p])

LEMMA DecidedTyped ==
    ASSUME Typed
    PROVE  Decided \in Seq(Decision) /\ Len(Decided) \in Nat
BY TypedParts DEF FilesOK, Decided, Ledger, RowOf

LEMMA DecidedSteps ==
    ASSUME Typed, Next
    PROVE  \/ Decided' = Decided
           \/ \E p \in Process :
                  /\ AppendRow(p) /\ call[p].ledger = "decisions"
                  /\ Decided' = Append(Decided, Row(p)) /\ Row(p) \in Decision
<1>1. CASE \A p \in Process : ~AppendRow(p)
  BY <1>1, RowsStay DEF Decided, Ledger
<1>2. ASSUME NEW p \in Process, AppendRow(p)
      PROVE  \/ Decided' = Decided
             \/ /\ call[p].ledger = "decisions"
                /\ Decided' = Append(Decided, Row(p)) /\ Row(p) \in Decision
  <2>1. Row(p) \in RowOf(call[p].ledger)
    BY <1>2, RowTyped DEF AppendRow, Early
  <2> QED
    BY <1>2, <2>1, RowAdded DEF Decided, Ledger, RowOf
<1> QED
  BY <1>1, <1>2

LEMMA CallChainedStill ==
    ASSUME Typed, Next, NEW q \in Process, CallChained(call[q]), call'[q] = call[q]
    PROVE  CallChained(call[q])'
<1> DEFINE r == call[q]
<1>1. /\ Len(r.base) \in Nat /\ Len(r.known) \in Nat
      /\ r.ledger = "decisions" /\ r.pc \notin Early => r.base \in Seq(Decision) /\ Head(r.todo) \in Decision
  BY TypedParts, Writer DEF CallsOK, CallOK, CallType, RowOf, Row
<1>2. CASE Decided' = Decided
  BY <1>2 DEF CallChained
<1>3. CASE Decided' # Decided
  <2>1. Decided \in Seq(Decision) /\ Len(Decided) \in Nat
    BY DecidedTyped
  <2>2. PICK d \in Decision : Decided' = Append(Decided, d)
    BY <1>3, DecidedSteps
  <2>3. Len(Decided') = Len(Decided) + 1
    BY <2>1, <2>2
  <2>4. Prefix(r.known, Decided) => Prefix(r.known, Decided')
    BY <1>1, <2>1, <2>2 DEF Prefix
  <2>5. ASSUME r.ledger = "decisions", r.pc \in {"unseal", "empty", "seal"}
        PROVE  Append(r.base, Head(r.todo)) # Decided'
    <3>1. Len(Append(r.base, Head(r.todo))) = Len(r.base) + 1
      BY <1>1, <2>5 DEF Early
    <3>2. Len(r.base) < Len(Decided)
      BY <2>5 DEF CallChained
    <3> QED
      BY <1>1, <2>1, <2>3, <3>1, <3>2
  <2> QED
    BY <1>1, <2>1, <2>3, <2>4, <2>5 DEF CallChained
<1> QED
  BY <1>2, <1>3

(* The four steps after which a decision's append knows more than before.  *)
LEMMA ChainedRereads ==
    ASSUME Typed, Tracked, NEW p \in Process, call[p].pc = "reread", ReadDecisions(p)
    PROVE  CallChained(call[p])'
<1>1. Decided' = Decided /\ Len(Decided) \in Nat
  BY DecidedTyped DEF ReadDecisions, Decided
<1>2. Prefix(call[p].base, Decided) /\ Prefix(Decided, Decided)
  BY <1>1, PrefixSelf DEF Tracked, CallKnows, Based, Decided
<1>3. \/ call'[p].pc = "idle"
      \/ /\ call'[p].pc = "reverify" /\ call'[p].known = Decided
         /\ call'[p].base = call[p].base
  BY ReadDecisionsFields DEF Decided
<1> QED
  BY <1>1, <1>2, <1>3 DEF CallChained, Prefix

LEMMA ChainedReverified ==
    ASSUME Typed, NEW p \in Process, CallChained(call[p]), call[p].ledger = "decisions",
           Reverify(p)
    PROVE  CallChained(call[p])'
<1>1. Decided' = Decided /\ call[p].pc = "reverify"
  BY DEF Reverify, Decided
<1>2. CASE Throw(p)
  BY <1>2, ThrowFields DEF CallChained
<1>3. CASE ~Throw(p)
  <2>1. /\ Goto(p, "unlock") /\ Known(p)
        /\ Supersedes(Head(call[p].todo), call[p].known, Len(call[p].known))
    BY <1>3 DEF Reverify, Row
  <2>2. call'[p].pc = "unlock" /\ SameRow(call'[p], call[p])
    BY <2>1, GotoFields
  <2> QED
    BY <1>1, <2>1, <2>2 DEF CallChained, SameRow, Known
<1> QED
  BY <1>2, <1>3

(* An append that leaves what was read, with the new row, is of a chain.   *)
LEMMA ChainedAppended ==
    ASSUME Typed, Tracked, NEW p \in Process, CallChained(call[p]), AppendRow(p),
           call[p].ledger = "decisions"
    PROVE  CallChained(call[p])'
<1> DEFINE r == call[p]
           d == Head(r.todo)
<1>1. /\ r.base \in Seq(Decision) /\ r.known \in Seq(Decision) /\ d \in Decision
      /\ Decided \in Seq(Decision) /\ Row(p) = d
  BY DecidedTyped, Writer, TypedParts DEF AppendRow, Early, RowOf, Row, CallsOK, CallOK
<1>2. call'[p].pc = "unseal" /\ SameRow(call'[p], r)
  BY GotoFields DEF AppendRow
<1>3. Decided' = Append(Decided, d)
  BY <1>1, RowAdded DEF Decided
<1>4. /\ Prefix(r.known, Decided) /\ Len(r.base) <= Len(r.known)
      /\ Chain(r.known, Len(r.known)) /\ Supersedes(d, r.known, Len(r.known))
      /\ Prefix(r.base, Decided)
  BY DEF CallChained, AppendRow, Tracked, CallKnows, Based, Writing, Decided
<1>5. Len(r.base) < Len(Decided')
  BY <1>1, <1>3, <1>4 DEF Prefix
<1>6. ASSUME Append(r.base, d) = Decided'
      PROVE  Chain(Decided', Len(Decided'))
  <2>1. Len(r.base) + 1 = Len(Decided) + 1
    <3>1. Len(Append(r.base, d)) = Len(r.base) + 1 /\ Len(Append(Decided, d)) = Len(Decided) + 1
      BY <1>1
    <3> QED
      BY <1>3, <1>6, <3>1
  <2>2. Len(Decided) <= Len(r.known)
    BY <1>1, <1>4, <2>1
  <2>3. r.known = Decided
    BY <1>1, <1>4, <2>2, PrefixSame
  <2> QED
    BY <1>1, <1>3, <1>4, <2>3, ChainAppend
<1> QED
  BY <1>2, <1>5, <1>6 DEF CallChained, SameRow

LEMMA ChainedOwn ==
    ASSUME Typed, Tracked, Chained, Next, NEW p \in Process,
           \/ \E c \in Capture : Resolve(p, c)
           \/ Replay(p) \/ ReadDecisions(p)
           \/ \E authorized \in SUBSET Event : Plan(p, authorized)
           \/ Adapted(p) \/ Governed(p) \/ Read(p) \/ Verify(p) \/ Reverify(p)
           \/ Unlock(p) \/ AppendRow(p) \/ AppendDenied(p)
           \/ \E torn \in BOOLEAN : AppendFails(p, torn)
           \/ Unseal(p) \/ Empty(p) \/ EmptyDenied(p) \/ Seal(p) \/ SealFails(p)
           \/ Reseal(p) \/ Lock(p) \/ Crash(p)
    PROVE  CallChained(call[p])' /\ Others(p)
<1>1. CallChained(call[p]) /\ CallKnows(call[p]) /\ call[p].ledger \in Ledger
  BY TypedParts DEF Chained, Tracked, CallsOK, CallType
<1>2. Others(p)
  BY KnowsReading, KnowsWriting
<1>3. CASE Throw(p)
  BY <1>2, <1>3, ThrowFields DEF CallChained
<1>4. CASE Return(p)
  BY <1>1, <1>2, <1>4, ReturnFields DEF CallChained, Entry, Ledger
<1>5. CASE (\E c \in Capture : Resolve(p, c)) \/ Replay(p) \/ Read(p) \/ Crash(p)
           \/ \E authorized \in SUBSET Event : Plan(p, authorized)
  BY <1>2, <1>5, ResolveFields, ReplayFields, ReadFields, CrashFields, PlanFields DEF CallChained
<1>6. CASE Adapted(p) \/ Governed(p)
  BY <1>2, <1>6, CheckedFields DEF CallChained
<1>7. CASE ReadDecisions(p)
  <2>1. CASE call[p].pc = "reread"
    BY <1>2, <1>7, <2>1, ChainedRereads
  <2>2. CASE call[p].pc # "reread"
    BY <1>2, <1>7, <2>2, ReadDecisionsFields DEF CallChained
  <2> QED
    BY <2>1, <2>2
<1>8. CASE call[p].ledger # "decisions"
  <2>1. CASE \E pc : Goto(p, pc) \/ Fails(p, pc)
    BY <1>2, <1>8, <2>1, GotoFields, FailsFields DEF CallChained, SameRow
  <2> QED
    BY <1>3, <1>4, <1>5, <1>6, <1>7, <2>1
       DEF Verify, Reverify, Unlock, AppendRow, AppendDenied, AppendFails, Unseal, Empty,
           EmptyDenied, Seal, SealFails, Reseal, Lock
<1>9. CASE Reverify(p) /\ call[p].ledger = "decisions"
  BY <1>1, <1>2, <1>9, ChainedReverified
<1>10. CASE AppendRow(p) /\ call[p].ledger = "decisions"
  BY <1>1, <1>2, <1>10, ChainedAppended
<1>11. CASE Verify(p) /\ call[p].ledger = "decisions"
  <2>1. CASE Goto(p, "reread")
    BY <1>2, <2>1, GotoFields DEF CallChained
  <2> QED
    BY <1>3, <1>4, <1>11, <2>1 DEF Verify
<1>12. CASE /\ call[p].ledger = "decisions"
            /\ \/ Unlock(p) \/ AppendDenied(p) \/ \E torn \in BOOLEAN : AppendFails(p, torn)
               \/ Unseal(p) \/ Empty(p) \/ EmptyDenied(p) \/ Seal(p) \/ SealFails(p) \/ Reseal(p)
  <2>1. Decided' = Decided
    BY <1>12, ModeSet, RowLost
       DEF Decided, AppendDenied, Unseal, Empty, EmptyDenied, Seal, SealFails, Reseal
  <2>2. \/ call[p].pc = "unlock" /\ Goto(p, "append")
        \/ call[p].pc = "unseal" /\ Goto(p, "empty")
        \/ call[p].pc = "empty" /\ Goto(p, "seal")
        \/ \E pc \in {"reseal", "lock"} : Goto(p, pc) \/ Fails(p, pc)
    BY <1>12 DEF Unlock, AppendDenied, AppendFails, Unseal, Empty, EmptyDenied, Seal, SealFails,
                 Reseal
  <2>3. /\ SameRow(call'[p], call[p])
        /\ \/ call[p].pc = "unlock" /\ call'[p].pc = "append"
           \/ call[p].pc = "unseal" /\ call'[p].pc = "empty"
           \/ call[p].pc = "empty" /\ call'[p].pc = "seal"
           \/ call'[p].pc \in {"reseal", "lock"}
    BY <2>2, GotoFields, FailsFields
  <2> QED
    BY <1>1, <1>2, <2>1, <2>3 DEF CallChained, SameRow
<1>13. CASE Lock(p)
  BY <1>3, <1>4, <1>13 DEF Lock
<1> QED
  BY <1>1, <1>3, <1>4, <1>5, <1>6, <1>7, <1>8, <1>9, <1>10, <1>11, <1>12, <1>13

LEMMA SealChainedStep ==
    ASSUME Typed, Tracked, Chained, Next
    PROVE  SealChained'
<1> DEFINE m == manifest["decisions"]
<1>1. "decisions" \in Ledger /\ m.rows \in Seq(Decision) /\ Decided \in Seq(Decision)
  BY DecidedTyped, TypedParts DEF FilesOK, Ledger, RowOf
<1>2. CASE manifest' = manifest
  <2>1. CASE Decided' = Decided
    BY <1>2, <2>1 DEF Chained, SealChained
  <2>2. CASE Decided' # Decided
    <3>1. PICK d \in Decision : Decided' = Append(Decided, d)
      BY <2>2, DecidedSteps
    <3>2. Len(Decided') = Len(Decided) + 1
      BY <1>1, <3>1
    <3> QED
      BY <1>1, <1>2, <3>2 DEF Chained, SealChained
  <2> QED
    BY <2>1, <2>2
<1>3. ASSUME NEW p \in Process, Unseal(p) \/ Reseal(p) \/ Empty(p) \/ Seal(p)
      PROVE  SealChained'
  <2>1. Decided' = Decided
    BY <1>3 DEF Unseal, Reseal, Empty, Seal, Decided
  <2>2. CASE Unseal(p) \/ Reseal(p) \/ Empty(p)
    BY <1>1, <2>1, <2>2, SealMoved, ManifestEmptied DEF Chained, SealChained
  <2>3. CASE Seal(p) /\ call[p].ledger # "decisions"
    BY <1>1, <2>1, <2>3, ManifestFilled DEF Chained, SealChained
  <2>4. CASE Seal(p) /\ call[p].ledger = "decisions"
    <3>1. manifest'["decisions"].rows = Append(call[p].base, Head(call[p].todo))
      BY <2>4, ManifestFilled DEF Row
    <3>2. /\ Len(call[p].base) < Len(Decided)
          /\ Append(call[p].base, Head(call[p].todo)) = Decided => Chain(Decided, Len(Decided))
      BY <2>4 DEF Chained, CallChained, Seal
    <3>3. call[p].base \in Seq(Decision) /\ Head(call[p].todo) \in Decision
      BY <2>4, Writer DEF Seal, Early, RowOf, Row
    <3>4. Len(manifest'["decisions"].rows) = Len(call[p].base) + 1
      BY <3>1, <3>3
    <3> QED
      BY <1>1, <2>1, <3>1, <3>2, <3>3, <3>4 DEF SealChained
  <2> QED
    BY <1>3, <2>2, <2>3, <2>4
<1> QED
  BY <1>2, <1>3, ManifestChanges

LEMMA ChainedStep == Typed /\ Tracked /\ Chained /\ [Next]_vars => Chained'
<1>1. ASSUME Typed, Tracked, Chained, Next
      PROVE  Chained'
  <2>1. PICK p \in Process : CallChained(call[p])' /\ Others(p)
    BY <1>1, ChainedOwn DEF Next
  <2>2. ASSUME NEW q \in Process
        PROVE  CallChained(call[q])'
    BY <1>1, <2>1, CallChainedStill DEF Chained, Others
  <2> QED
    BY <1>1, <2>2, SealChainedStep DEF Chained
<1>2. ASSUME Chained, UNCHANGED vars
      PROVE  Chained'
  BY <1>2 DEF Chained, SealChained, CallChained, Decided, vars
<1> QED
  BY <1>1, <1>2

LEMMA InitChained == Init => Chained
BY DEF Init, Chained, SealChained, CallChained, Idle, NoManifest, Ledger

(* Whatever processes append, fail and die, in any number and order, and   *)
(* however the manifest and the file are rewritten under one another: what *)
(* a reader accepts as the decision ledger is a chain of decisions, each   *)
(* superseding the latest before it (projectDecisionState).                *)
THEOREM VerifiedDecisions == Spec => []VerifiedIsAChain
<1>1. Init => Typed /\ Tracked /\ Chained
  BY InitTyped, InitTracked, InitChained
<1>2. Typed /\ Tracked /\ Chained /\ [Next]_vars => (Typed /\ Tracked /\ Chained)'
  BY TypedStep, TrackedStep, ChainedStep
<1>3. Chained => VerifiedIsAChain
  BY DEF Chained, SealChained, Decided, VerifiedIsAChain, Verifies, Sealed
<1> QED
  BY <1>1, <1>2, <1>3, PTL DEF Spec

-----------------------------------------------------------------------------
(* No observation is sealed twice.                                         *)

Distinct(s) == \A i, j \in DOMAIN s : s[i] = s[j] => i = j

LEMMA DistinctAppend ==
    ASSUME NEW S, NEW s \in Seq(S), NEW x \in S, Distinct(s), x \notin Range(s)
    PROVE  Distinct(Append(s, x))
<1>1. \A i \in 1 .. Len(s) : s[i] # x
  BY DEF Range
<1>2. DOMAIN Append(s, x) = 1 .. Len(s) + 1 /\ DOMAIN s = 1 .. Len(s)
  OBVIOUS
<1>3. \A i \in 1 .. Len(s) : Append(s, x)[i] = s[i]
  OBVIOUS
<1>4. Append(s, x)[Len(s) + 1] = x
  OBVIOUS
<1> QED
  BY <1>1, <1>2, <1>3, <1>4 DEF Distinct

CallNew(r) ==
    r.ledger = "observations" /\ r.pc \in Writing =>
        Distinct(r.base) /\ Head(r.todo) \notin Range(r.base)

SealDistinct ==
    manifest["observations"].whole => Distinct(manifest["observations"].rows)

New == SealDistinct /\ \A p \in Process : CallNew(call[p])

LEMMA NewOwn ==
    ASSUME Typed, Tracked, New, NEW p \in Process,
           \/ \E c \in Capture : Resolve(p, c)
           \/ Replay(p) \/ ReadDecisions(p)
           \/ \E authorized \in SUBSET Event : Plan(p, authorized)
           \/ Adapted(p) \/ Governed(p) \/ Read(p) \/ Verify(p) \/ Reverify(p)
           \/ Unlock(p) \/ AppendRow(p) \/ AppendDenied(p)
           \/ \E torn \in BOOLEAN : AppendFails(p, torn)
           \/ Unseal(p) \/ Empty(p) \/ EmptyDenied(p) \/ Seal(p) \/ SealFails(p)
           \/ Reseal(p) \/ Lock(p) \/ Crash(p)
    PROVE  CallNew(call[p])'
<1>1. CallNew(call[p]) /\ CallKnows(call[p])
  BY DEF New, Tracked
<1>2. CASE Throw(p)
  BY <1>2, ThrowFields DEF CallNew, Writing
<1>3. CASE Return(p)
  BY <1>3, ReturnFields DEF CallNew, Writing, Entry
<1>4. CASE \/ \E c \in Capture : Resolve(p, c)
           \/ Replay(p) \/ Read(p) \/ Crash(p) \/ ReadDecisions(p) \/ Adapted(p) \/ Governed(p)
           \/ \E authorized \in SUBSET Event : Plan(p, authorized)
  BY <1>4, ResolveFields, ReplayFields, ReadFields, CrashFields, PlanFields,
     ReadDecisionsFields, CheckedFields DEF CallNew, Writing
<1>5. CASE Verify(p) /\ ~Throw(p) /\ ~Return(p)
  <2>1. /\ Row(p) \notin Range(call[p].base)
        /\ call[p].fresh \/ Sealed(call[p].ledger, call[p].base)
        /\ \E pc : Goto(p, pc)
    BY <1>5 DEF Verify
  <2>2. SameRow(call'[p], call[p])
    BY <2>1, GotoFields
  <2>3. CASE call[p].fresh
    <3>1. call[p].base = <<>>
      BY <1>1, <1>5, <2>3 DEF CallKnows, Verify
    <3>2. Distinct(call[p].base)
      BY <3>1 DEF Distinct
    <3> QED
      BY <2>1, <2>2, <3>2 DEF CallNew, SameRow, Row
  <2>4. CASE Sealed(call[p].ledger, call[p].base)
    BY <2>1, <2>2, <2>4 DEF CallNew, SameRow, Row, New, SealDistinct, Sealed
  <2> QED
    BY <2>1, <2>3, <2>4
<1>6. CASE Reverify(p) /\ ~Throw(p)
  <2>1. Goto(p, "unlock") /\ call[p].pc = "reverify"
    BY <1>6 DEF Reverify
  <2>2. SameRow(call'[p], call[p])
    BY <2>1, GotoFields
  <2> QED
    BY <1>1, <2>1, <2>2 DEF CallNew, CallKnows, SameRow
<1>7. CASE \/ Unlock(p) \/ AppendRow(p) \/ AppendDenied(p)
           \/ \E torn \in BOOLEAN : AppendFails(p, torn)
           \/ Unseal(p) \/ Empty(p) \/ EmptyDenied(p) \/ Seal(p) \/ SealFails(p) \/ Reseal(p)
  <2>1. call[p].pc \in Writing /\ \E pc : Goto(p, pc) \/ Fails(p, pc)
    BY <1>7 DEF Unlock, AppendRow, AppendDenied, AppendFails, Unseal, Empty, EmptyDenied, Seal,
                SealFails, Reseal, Writing
  <2>2. SameRow(call'[p], call[p])
    BY <2>1, GotoFields, FailsFields
  <2> QED
    BY <1>1, <2>1, <2>2 DEF CallNew, SameRow
<1> QED
  BY <1>2, <1>3, <1>4, <1>5, <1>6, <1>7 DEF Verify, Reverify, Lock

LEMMA SealDistinctStep ==
    ASSUME Typed, New, Next
    PROVE  SealDistinct'
<1>1. "observations" \in Ledger
  BY DEF Ledger
<1>2. ASSUME NEW p \in Process, Unseal(p) \/ Reseal(p) \/ Empty(p)
      PROVE  SealDistinct'
  BY <1>1, <1>2, SealMoved, ManifestEmptied DEF New, SealDistinct
<1>3. ASSUME NEW p \in Process, Seal(p)
      PROVE  SealDistinct'
  <2>1. CASE call[p].ledger # "observations"
    BY <1>1, <1>3, <2>1, ManifestFilled DEF New, SealDistinct
  <2>2. CASE call[p].ledger = "observations"
    <3>1. manifest'["observations"].rows = Append(call[p].base, Row(p))
      BY <1>3, <2>2, ManifestFilled
    <3>2. Distinct(call[p].base) /\ Row(p) \notin Range(call[p].base)
      BY <1>3, <2>2 DEF New, CallNew, Seal, Writing, Row
    <3>3. call[p].base \in Seq(Observation) /\ Row(p) \in Observation
      BY <1>3, <2>2, Writer DEF Seal, Early, RowOf
    <3> QED
      BY <3>1, <3>2, <3>3, DistinctAppend DEF SealDistinct
  <2> QED
    BY <2>1, <2>2
<1> QED
  BY <1>2, <1>3, ManifestChanges DEF New, SealDistinct

LEMMA NewStep == Typed /\ Tracked /\ New /\ [Next]_vars => New'
<1>1. ASSUME Typed, Tracked, New, Next
      PROVE  New'
  <2>1. PICK p \in Process : CallNew(call[p])' /\ Others(p)
    BY <1>1, NewOwn, KnowsReading, KnowsWriting DEF Next
  <2>2. ASSUME NEW q \in Process
        PROVE  CallNew(call[q])'
    BY <1>1, <2>1 DEF New, Others, CallNew
  <2> QED
    BY <1>1, <2>2, SealDistinctStep DEF New
<1>2. ASSUME New, UNCHANGED vars
      PROVE  New'
  BY <1>2 DEF New, SealDistinct, CallNew, vars
<1> QED
  BY <1>1, <1>2

LEMMA InitNew == Init => New
BY DEF Init, New, SealDistinct, CallNew, Idle, NoManifest, Ledger, Writing

(* Under the same conditions, what a reader accepts as the observation     *)
(* ledger holds no observation twice (appendProjection).                   *)
THEOREM VerifiedObservations == Spec => []VerifiedIsOnce
<1>1. Init => Typed /\ Tracked /\ New
  BY InitTyped, InitTracked, InitNew
<1>2. Typed /\ Tracked /\ New /\ [Next]_vars => (Typed /\ Tracked /\ New)'
  BY TypedStep, TrackedStep, NewStep
<1>3. New => VerifiedIsOnce
  BY DEF New, SealDistinct, Distinct, VerifiedIsOnce, Verifies, Sealed
<1> QED
  BY <1>1, <1>2, <1>3, PTL DEF Spec

-----------------------------------------------------------------------------
(* Every observation was appended under a decision active since it began.  *)

Observed == file["observations"].rows

(* Between the from-th decision and now there was a time at which d was    *)
(* the active match.                                                       *)
ActiveSince(d, from) == \E n \in from .. Len(Decided) : Active(d, Decided, n)

CallGoverned(r) ==
    r.ledger = "observations" =>
        /\ r.pc \in {"govern", "governed"} => r.began <= Len(Decided)
        /\ r.pc = "governed" => Prefix(r.known, Decided) /\ r.began <= Len(r.known)
        /\ r.pc \in {"read", "verify", "unlock", "append"} =>
               ActiveSince(Head(r.todo).decision, r.began)

PricesGoverned ==
    /\ Len(since) = Len(Observed)
    /\ \A i \in 1 .. Len(Observed) : ActiveSince(Observed[i].decision, since[i])

Governing == PricesGoverned /\ \A p \in Process : CallGoverned(call[p])

LEMMA DecidedGrows ==
    ASSUME Typed, Next
    PROVE  /\ Prefix(Decided, Decided') /\ Len(Decided) <= Len(Decided')
           /\ Len(Decided) \in Nat /\ Len(Decided') \in Nat
<1>1. "decisions" \in Ledger
  BY DEF Ledger
<1> QED
  BY <1>1, RowsGrow DEF Decided, Prefix

LEMMA ActiveStill ==
    ASSUME Typed, Next, NEW d, NEW from \in Nat, ActiveSince(d, from)
    PROVE  ActiveSince(d, from)'
<1>1. PICK n \in from .. Len(Decided) : Active(d, Decided, n)
  BY DEF ActiveSince
<1>2. /\ Prefix(Decided, Decided') /\ Len(Decided) <= Len(Decided')
      /\ Len(Decided) \in Nat /\ Len(Decided') \in Nat
  BY DecidedGrows
<1>3. n \in 0 .. Len(Decided) /\ n \in from .. Len(Decided')
  BY <1>2
<1>4. Active(d, Decided', n)
  BY <1>1, <1>2, <1>3, PrefixActive
<1> QED
  BY <1>3, <1>4 DEF ActiveSince

LEMMA GovernedStill ==
    ASSUME Typed, Next, NEW q \in Process, CallGoverned(call[q]), call'[q] = call[q]
    PROVE  CallGoverned(call[q])'
<1>1. /\ call[q].began \in Nat /\ Len(call[q].known) \in Nat
  BY TypedParts DEF CallsOK, CallOK, CallType
<1>2. /\ Prefix(Decided, Decided') /\ Len(Decided) <= Len(Decided')
      /\ Len(Decided) \in Nat /\ Len(Decided') \in Nat
  BY DecidedGrows
<1>3. Prefix(call[q].known, Decided) => Prefix(call[q].known, Decided')
  BY <1>1, <1>2, PrefixTrans
<1>4. ActiveSince(Head(call[q].todo).decision, call[q].began)
          => ActiveSince(Head(call[q].todo).decision, call[q].began)'
  BY <1>1, ActiveStill
<1>5. call[q].began <= Len(Decided) => call[q].began <= Len(Decided')
  BY <1>1, <1>2
<1> QED
  BY <1>3, <1>4, <1>5 DEF CallGoverned, ActiveSince

LEMMA GovernedOwn ==
    ASSUME Typed, Tracked, Governing, Next, NEW p \in Process,
           \/ \E c \in Capture : Resolve(p, c)
           \/ Replay(p) \/ ReadDecisions(p)
           \/ \E authorized \in SUBSET Event : Plan(p, authorized)
           \/ Adapted(p) \/ Governed(p) \/ Read(p) \/ Verify(p) \/ Reverify(p)
           \/ Unlock(p) \/ AppendRow(p) \/ AppendDenied(p)
           \/ \E torn \in BOOLEAN : AppendFails(p, torn)
           \/ Unseal(p) \/ Empty(p) \/ EmptyDenied(p) \/ Seal(p) \/ SealFails(p)
           \/ Reseal(p) \/ Lock(p) \/ Crash(p)
    PROVE  CallGoverned(call[p])'
<1>1. /\ CallGoverned(call[p]) /\ Len(Decided) \in Nat
      /\ call[p].began \in Nat /\ call[p].known \in Seq(Decision) /\ Len(call[p].known) \in Nat
  BY DecidedTyped, TypedParts DEF Governing, CallsOK, CallOK, CallType
<1>2. CASE Throw(p)
  BY <1>2, ThrowFields DEF CallGoverned
<1>3. CASE Return(p)
  <2>2. Len(Decided) <= Len(Decided')
    BY DecidedGrows
  <2>3. Begun("observations") = Len(Decided)
    BY DEF Begun, Decided
  <2>4. Len(Decided') \in Nat
    BY DecidedGrows
  <2> QED
    BY <1>1, <1>3, <2>2, <2>3, <2>4, ReturnFields DEF CallGoverned, Entry
<1>4. CASE \/ \E c \in Capture : Resolve(p, c)
           \/ Replay(p) \/ Crash(p)
           \/ \E authorized \in SUBSET Event : Plan(p, authorized)
  BY <1>4, ResolveFields, ReplayFields, CrashFields, PlanFields DEF CallGoverned
<1>5. CASE ReadDecisions(p)
  <2>1. Decided' = Decided
    BY <1>5 DEF ReadDecisions, Decided
  <2>2. Prefix(Decided, Decided)
    BY <1>1, PrefixSelf
  <2>3. \/ call'[p].pc \in {"idle", "plan", "adapted", "reverify"}
        \/ /\ call[p].pc = "govern" /\ call'[p].pc = "governed" /\ call'[p].known = Decided
           /\ call'[p].ledger = call[p].ledger /\ call'[p].began = call[p].began
    BY <1>5, ReadDecisionsFields DEF Decided
  <2> QED
    BY <1>1, <2>1, <2>2, <2>3 DEF CallGoverned
<1>6. CASE Adapted(p) /\ ~Throw(p)
  <2>1. Decided' = Decided /\ call[p].pc = "adapted"
    BY <1>6 DEF Adapted, Decided
  <2>2. ~Governed(p)
    BY <2>1 DEF Governed
  <2> QED
    BY <1>1, <1>6, <2>1, <2>2, CheckedFields DEF CallGoverned, Decided
<1>7. CASE Governed(p)
  <2>1. Decided' = Decided /\ call[p].pc = "governed" /\ ~Adapted(p)
    BY <1>7 DEF Governed, Adapted, Decided
  <2>2. \/ call'[p].pc = "idle"
        \/ /\ call'[p].pc = "read" /\ call'[p].began = call[p].began
           /\ call'[p].ledger = call[p].ledger /\ call'[p].todo = call[p].todo
           /\ Active(Row(p).decision, call[p].known, Len(call[p].known))
    BY <1>7, <2>1, CheckedFields
  <2>3. ASSUME call[p].ledger = "observations",
               Active(Row(p).decision, call[p].known, Len(call[p].known))
        PROVE  ActiveSince(Row(p).decision, call[p].began)
    <3> DEFINE n == Len(call[p].known)
    <3>1. Prefix(call[p].known, Decided) /\ call[p].began <= n
      BY <1>1, <2>1, <2>3 DEF CallGoverned
    <3>2. n \in 0 .. n /\ n \in call[p].began .. Len(Decided)
      BY <1>1, <3>1 DEF Prefix
    <3>3. Active(Row(p).decision, Decided, n)
      BY <1>1, <2>3, <3>1, <3>2, PrefixActive
    <3> QED
      BY <3>2, <3>3 DEF ActiveSince
  <2> QED
    BY <2>1, <2>2, <2>3 DEF CallGoverned, ActiveSince, Row
<1>8. CASE Read(p)
  <2>1. Decided' = Decided /\ call[p].pc = "read"
    BY <1>8 DEF Read, Decided
  <2>2. \/ call'[p].pc = "idle"
        \/ /\ call'[p].pc = "verify" /\ call'[p].began = call[p].began
           /\ call'[p].ledger = call[p].ledger /\ call'[p].todo = call[p].todo
    BY <1>8, ReadFields
  <2> QED
    BY <1>1, <2>1, <2>2 DEF CallGoverned, ActiveSince
<1>9. CASE (Verify(p) \/ Unlock(p)) /\ ~Throw(p) /\ ~Return(p)
  <2>1. Decided' = Decided /\ call[p].pc \in {"verify", "unlock"}
    BY <1>9, ModeSet DEF Verify, Unlock, Decided, Ledger
  <2>2. \E pc \in {"reread", "unlock", "append"} : Goto(p, pc)
    BY <1>9 DEF Verify, Unlock
  <2>3. /\ call'[p].pc \in {"reread", "unlock", "append"} /\ SameRow(call'[p], call[p])
    BY <2>2, GotoFields
  <2> QED
    BY <1>1, <2>1, <2>3 DEF CallGoverned, SameRow, ActiveSince
<1>10. CASE Reverify(p) /\ ~Throw(p)
  <2>1. Goto(p, "unlock") /\ call[p].ledger = "decisions"
    BY <1>10 DEF Reverify, Tracked, CallKnows
  <2> QED
    BY <2>1, GotoFields DEF CallGoverned, SameRow
<1>11. CASE \/ AppendRow(p) \/ AppendDenied(p)
            \/ \E torn \in BOOLEAN : AppendFails(p, torn)
            \/ Unseal(p) \/ Empty(p) \/ EmptyDenied(p) \/ Seal(p) \/ SealFails(p) \/ Reseal(p)
  <2>1. \E pc \in {"unseal", "empty", "seal", "reseal", "lock"} : Goto(p, pc) \/ Fails(p, pc)
    BY <1>11 DEF AppendRow, AppendDenied, AppendFails, Unseal, Empty, EmptyDenied, Seal,
                 SealFails, Reseal
  <2> QED
    BY <2>1, GotoFields, FailsFields DEF CallGoverned
<1> QED
  BY <1>2, <1>3, <1>4, <1>5, <1>6, <1>7, <1>8, <1>9, <1>10, <1>11 DEF Lock

(* Observations are appended together with the time their append began.    *)
LEMMA ObservedSteps ==
    ASSUME Typed, Next
    PROVE  \/ Observed' = Observed /\ since' = since
           \/ \E p \in Process :
                  /\ call[p].ledger = "observations" /\ call[p].pc = "append"
                  /\ Decided' = Decided
                  /\ Observed' = Append(Observed, Row(p)) /\ since' = Append(since, call[p].began)
                  /\ Row(p) \in Observation /\ call[p].began \in Nat
<1>1. {"decisions", "observations"} = Ledger
  BY DEF Ledger
<1>2. CASE \A p \in Process : ~AppendRow(p)
  <2>1. Observed' = Observed
    BY <1>1, <1>2, RowsStay DEF Observed
  <2>2. since' = since
    BY <1>2 DEF Next, Resolve, Replay, ReadDecisions, Plan, Adapted, Governed, Read, Verify,
           Reverify, Unlock, AppendDenied, AppendFails, Unseal, Empty, EmptyDenied, Seal,
           SealFails, Reseal, Lock, Crash
  <2> QED
    BY <2>1, <2>2
<1>3. ASSUME NEW p \in Process, AppendRow(p)
      PROVE  \/ Observed' = Observed /\ since' = since
             \/ /\ call[p].ledger = "observations" /\ call[p].pc = "append"
                /\ Decided' = Decided
                /\ Observed' = Append(Observed, Row(p)) /\ since' = Append(since, call[p].began)
                /\ Row(p) \in Observation /\ call[p].began \in Nat
  <2>1. /\ Row(p) \in RowOf(call[p].ledger) /\ call[p].began \in Nat /\ call[p].pc = "append"
    BY <1>3, Writer DEF AppendRow, Early
  <2>2. since' = IF call[p].ledger = "observations" THEN Append(since, call[p].began) ELSE since
    BY <1>3 DEF AppendRow
  <2> QED
    BY <1>1, <1>3, <2>1, <2>2, RowAdded DEF Observed, Decided, RowOf
<1> QED
  BY <1>2, <1>3

LEMMA PricesStep ==
    ASSUME Typed, Governing, Next
    PROVE  PricesGoverned'
<1>1. since \in Seq(Nat) /\ Observed \in Seq(Observation)
  BY TypedParts DEF RestOK, FilesOK, Observed, Ledger, RowOf
<1>2. Len(since) = Len(Observed)
  BY DEF Governing, PricesGoverned
<1>4. ASSUME NEW i \in 1 .. Len(Observed)
      PROVE  \E n \in since[i] .. Len(Decided') : Active(Observed[i].decision, Decided', n)
  <2>1. ActiveSince(Observed[i].decision, since[i]) /\ since[i] \in Nat
    BY <1>1, <1>2 DEF Governing, PricesGoverned
  <2>2. ASSUME NEW d, NEW from \in Nat, ActiveSince(d, from)
        PROVE  \E n \in from .. Len(Decided') : Active(d, Decided', n)
    <3>1. ActiveSince(d, from)'
      BY <2>2, ActiveStill
    <3> QED
      BY <3>1 DEF ActiveSince
  <2> QED
    BY <2>1, <2>2
<1>5. CASE Observed' = Observed /\ since' = since
  BY <1>2, <1>4, <1>5 DEF PricesGoverned, ActiveSince
<1>6. ASSUME NEW p \in Process, call[p].ledger = "observations", call[p].pc = "append",
             Decided' = Decided,
             Observed' = Append(Observed, Row(p)), since' = Append(since, call[p].began),
             Row(p) \in Observation, call[p].began \in Nat
      PROVE  PricesGoverned'
  <2> DEFINE k == Len(Observed) + 1
  <2>1. Len(Observed') = k /\ Len(since') = k /\ k \in Nat
    BY <1>1, <1>2, <1>6
  <2>2. Observed'[k] = Row(p) /\ since'[k] = call[p].began
    BY <1>1, <1>2, <1>6
  <2>3. \A i \in 1 .. Len(Observed) : Observed'[i] = Observed[i] /\ since'[i] = since[i]
    BY <1>1, <1>2, <1>6
  <2>4. ActiveSince(Row(p).decision, call[p].began)
    BY <1>6 DEF Governing, CallGoverned, Row
  <2>5. \A i \in 1 .. k :
            \E n \in since'[i] .. Len(Decided') : Active(Observed'[i].decision, Decided', n)
    <3>1. \E n \in since'[k] .. Len(Decided') : Active(Observed'[k].decision, Decided', n)
      BY <1>6, <2>2, <2>4 DEF ActiveSince
    <3>2. \A i \in 1 .. k : i = k \/ i \in 1 .. Len(Observed)
      BY <1>1
    <3>3. \A i \in 1 .. Len(Observed) :
              \E n \in since'[i] .. Len(Decided') : Active(Observed'[i].decision, Decided', n)
      BY <1>4, <2>3
    <3> QED
      BY <3>1, <3>2, <3>3
  <2> QED
    BY <2>1, <2>5 DEF PricesGoverned, ActiveSince
<1> QED
  BY <1>5, <1>6, ObservedSteps

LEMMA GoverningStep == Typed /\ Tracked /\ Governing /\ [Next]_vars => Governing'
<1>1. ASSUME Typed, Tracked, Governing, Next
      PROVE  Governing'
  <2>1. PICK p \in Process : CallGoverned(call[p])' /\ Others(p)
    BY <1>1, GovernedOwn, KnowsReading, KnowsWriting DEF Next
  <2>2. ASSUME NEW q \in Process
        PROVE  CallGoverned(call[q])'
    BY <1>1, <2>1, GovernedStill DEF Governing, Others
  <2> QED
    BY <1>1, <2>2, PricesStep DEF Governing
<1>2. ASSUME Governing, UNCHANGED vars
      PROVE  Governing'
  BY <1>2 DEF Governing, PricesGoverned, CallGoverned, ActiveSince, Observed, Decided, vars
<1> QED
  BY <1>1, <1>2

LEMMA InitGoverning == Init => Governing
<1> SUFFICES ASSUME Init PROVE Governing
  OBVIOUS
<1>1. Observed = <<>> /\ since = <<>>
  BY DEF Init, Observed, NoFile, Ledger
<1>2. PricesGoverned
  BY <1>1 DEF PricesGoverned
<1>3. \A p \in Process : call[p].ledger = "decisions"
  BY DEF Init, Idle
<1> QED
  BY <1>2, <1>3 DEF Governing, CallGoverned

(* Every observation in the file names a decision that was the active      *)
(* match of its event after its own append had begun, however old the      *)
(* registry is that the caller holds (appendProjection).                   *)
THEOREM GovernedPrices == Spec => []EveryPriceWasGoverned
<1>1. Init => Typed /\ Tracked /\ Governing
  BY InitTyped, InitTracked, InitGoverning
<1>2. Typed /\ Tracked /\ Governing /\ [Next]_vars => (Typed /\ Tracked /\ Governing)'
  BY TypedStep, TrackedStep, GoverningStep
<1>3. Typed /\ Governing => EveryPriceWasGoverned
  <2> SUFFICES ASSUME Typed, Governing PROVE EveryPriceWasGoverned
    OBVIOUS
  <2>1. Observed \in Seq(Observation)
    BY TypedParts DEF FilesOK, Observed, Ledger, RowOf
  <2>2. DOMAIN Observed = 1 .. Len(Observed)
    BY <2>1
  <2> QED
    BY <2>2 DEF Governing, PricesGoverned, ActiveSince, EveryPriceWasGoverned, Observed, Decided
<1> QED
  BY <1>1, <1>2, <1>3, PTL DEF Spec

-----------------------------------------------------------------------------
(* A ledger that nothing spoiled is whole whenever nobody writes it.       *)

At(q, l, S) == call[q].ledger = l /\ call[q].pc \in S

(* A row is in the file, and the manifest does not describe it yet.        *)
Dirty == {"unseal", "empty", "seal"}

(* What was read is accepted, and the row may be appended to it.           *)
Ready == {"reread", "reverify", "unlock", "append"}

(* The manifest, or the file, may be writable.                             *)
Unsealed == {"empty", "seal", "reseal"}
Unlocked == {"append", "unseal", "empty", "seal", "reseal", "lock"}

Current(q, l) ==
    /\ file[l].exists
    /\ file[l].rows = Append(call[q].base, Head(call[q].todo))
    /\ IF call[q].pc = "seal" THEN manifest[l].rows = <<>>
       ELSE manifest[l].rows # file[l].rows

Described(l) ==
    /\ file[l].exists /\ manifest[l].exists /\ manifest[l].whole
    /\ manifest[l].rows = file[l].rows

Sound(l) ==
    /\ ~file[l].torn
    /\ \A q \in Process : At(q, l, Dirty) => Current(q, l)
    /\ \A q, r \in Process : At(q, l, Dirty) /\ At(r, l, Dirty) => q = r
    /\ (\A q \in Process : ~At(q, l, Dirty)) => Absent(l) \/ Described(l)
    /\ \A q \in Process : At(q, l, Ready) /\ call[q].base = file[l].rows =>
           \A r \in Process : ~At(r, l, Dirty)
    /\ manifest[l].exists /\ ~manifest[l].readonly => \E q \in Process : At(q, l, Unsealed)
    /\ file[l].exists /\ ~file[l].readonly => \E q \in Process : At(q, l, Unlocked)

Unspoiled == \A l \in Ledger \ spoiled : Sound(l)

(* A step that leaves the files of l alone, by a process that is not in    *)
(* the middle of its writes.                                               *)
LEMMA SoundQuiet ==
    ASSUME NEW l \in Ledger, Sound(l), file'[l] = file[l], manifest'[l] = manifest[l],
           NEW p \in Process, Others(p),
           ~At(p, l, Dirty), ~At(p, l, Unsealed), ~At(p, l, Dirty)',
           At(p, l, Unlocked) => At(p, l, Unlocked)',
           At(p, l, Ready)' /\ call'[p].base = file[l].rows =>
               \A r \in Process : ~At(r, l, Dirty)
    PROVE  Sound(l)'
<1>1. \A q \in Process : At(q, l, Dirty)' <=> At(q, l, Dirty)
  BY DEF Others, At
<1>2. \A q \in Process : At(q, l, Dirty)' => Current(q, l)'
  BY <1>1 DEF Others, Sound, Current
<1>3. \A q \in Process : At(q, l, Ready)' /\ call'[q].base = file'[l].rows =>
          \A r \in Process : ~At(r, l, Dirty)
  BY DEF Others, Sound, At
<1>4. (\E q \in Process : At(q, l, Unsealed)) => \E q \in Process : At(q, l, Unsealed)'
  BY DEF Others, At
<1>5. (\E q \in Process : At(q, l, Unlocked)) => \E q \in Process : At(q, l, Unlocked)'
  BY DEF Others, At
<1>6. (Absent(l) \/ Described(l))' <=> (Absent(l) \/ Described(l))
  BY DEF Absent, Described
<1>7. /\ ~file'[l].torn
      /\ \A q, r \in Process : At(q, l, Dirty)' /\ At(r, l, Dirty)' => q = r
      /\ (\A q \in Process : ~At(q, l, Dirty)') => (Absent(l) \/ Described(l))'
      /\ \A q \in Process : At(q, l, Ready)' /\ call'[q].base = file'[l].rows =>
             \A r \in Process : ~At(r, l, Dirty)'
      /\ manifest'[l].exists /\ ~manifest'[l].readonly => \E q \in Process : At(q, l, Unsealed)'
      /\ file'[l].exists /\ ~file'[l].readonly => \E q \in Process : At(q, l, Unlocked)'
  BY <1>1, <1>3, <1>4, <1>5, <1>6 DEF Sound
<1> QED
  BY <1>2, <1>7 DEF Sound

LEMMA SoundUnlock ==
    ASSUME Typed, Tracked, Next, NEW l \in Ledger, Sound(l), NEW p \in Process,
           call[p].ledger = l, Unlock(p)
    PROVE  Sound(l)'
<1>1. /\ call[p].pc = "unlock" /\ call'[p].pc = "append" /\ SameRow(call'[p], call[p])
      /\ Others(p) /\ manifest' = manifest
  BY KnowsWriting, GotoFields DEF Unlock
<1>2. /\ file'[l].rows = file[l].rows /\ file'[l].exists = file[l].exists
      /\ file'[l].torn = file[l].torn
  BY ModeSet
<1>3. \A q \in Process : /\ At(q, l, Dirty)' <=> At(q, l, Dirty)
                         /\ At(q, l, Ready)' <=> At(q, l, Ready)
                         /\ At(q, l, Unsealed)' <=> At(q, l, Unsealed)
                         /\ call'[q].base = call[q].base /\ call'[q].todo = call[q].todo
  BY <1>1 DEF Others, At, SameRow, Dirty, Ready, Unsealed
<1>4. At(p, l, Unlocked)'
  BY <1>1 DEF At, SameRow, Unlocked
<1>5. ASSUME NEW q \in Process, At(q, l, Dirty)'
      PROVE  Current(q, l)'
  <2>1. q # p
    BY <1>1, <1>5 DEF At, Dirty
  <2>2. Current(q, l) /\ call'[q] = call[q]
    BY <1>1, <1>3, <1>5, <2>1 DEF Sound, Others
  <2> QED
    BY <1>1, <1>2, <2>2 DEF Current
<1> QED
  BY <1>1, <1>2, <1>3, <1>4, <1>5 DEF Sound, Absent, Described

LEMMA SoundAppendRow ==
    ASSUME Typed, Tracked, Next, NEW l \in Ledger \ spoiled', Sound(l), NEW p \in Process,
           call[p].ledger = l, AppendRow(p)
    PROVE  Sound(l)'
<1>1. /\ call[p].pc = "append" /\ call'[p].pc = "unseal" /\ SameRow(call'[p], call[p])
      /\ Others(p) /\ manifest' = manifest
  BY KnowsWriting, GotoFields DEF AppendRow
<1>2. /\ file'[l].rows = Append(file[l].rows, Row(p)) /\ file'[l].exists
      /\ file'[l].torn = file[l].torn
  BY RowAdded
<1>3. file[l].rows = call[p].base
  BY DEF AppendRow
<1>4. \A q \in Process : ~At(q, l, Dirty)
  BY <1>1, <1>3 DEF Sound, At, Ready
<1>5. file[l].rows \in Seq(RowOf(l)) /\ Row(p) \in RowOf(l)
  BY <1>1, Writer DEF Early
<1>6. \A q \in Process : At(q, l, Dirty)' <=> q = p
  BY <1>1, <1>4 DEF Others, At, SameRow, Dirty
<1>7. Current(p, l)'
  <2>1. manifest[l].rows # file'[l].rows
    <3>1. CASE Absent(l)
      <4>1. manifest[l].rows = <<>>
        BY <3>1 DEF Absent, Tracked, FilesKnown
      <4>2. Append(file[l].rows, Row(p)) # <<>>
        BY <1>5
      <4> QED
        BY <1>2, <4>1, <4>2
    <3>2. CASE Described(l)
      <4>1. file[l].rows # Append(file[l].rows, Row(p))
        <5>1. Prefix(file[l].rows, file[l].rows)
          BY <1>5, PrefixSelf
        <5> QED
          BY <1>5, <5>1, PrefixAppend
      <4> QED
        BY <1>2, <3>2, <4>1 DEF Described
    <3> QED
      BY <1>4, <3>1, <3>2 DEF Sound
  <2> QED
    BY <1>1, <1>2, <1>3, <2>1 DEF Current, SameRow, Row
<1>8. ASSUME NEW q \in Process, At(q, l, Ready)'
      PROVE  call'[q].base # file'[l].rows
  <2>1. q # p
    BY <1>1, <1>8 DEF At, Ready
  <2>2. At(q, l, Ready) /\ call'[q] = call[q]
    BY <1>1, <1>8, <2>1 DEF Others, At
  <2>3. Prefix(call[q].base, file[l].rows) /\ call[q].base \in Seq(RowOf(l))
    <3>1. call[q].pc \in Based /\ call[q].ledger = l
      BY <2>2 DEF At, Ready, Based, Writing
    <3> QED
      BY <3>1, TypedParts DEF Tracked, CallKnows, CallsOK, CallOK
  <2> QED
    BY <1>2, <1>5, <2>2, <2>3, PrefixAppend
<1>9. At(p, l, Unlocked)'
  BY <1>1 DEF At, SameRow, Unlocked
<1>10. (\E q \in Process : At(q, l, Unsealed)) => \E q \in Process : At(q, l, Unsealed)'
  BY <1>1 DEF Others, At, Unsealed
<1> QED
  BY <1>1, <1>2, <1>6, <1>7, <1>8, <1>9, <1>10 DEF Sound

LEMMA SoundUnseal ==
    ASSUME Typed, Tracked, Next, NEW l \in Ledger, Sound(l), NEW p \in Process,
           call[p].ledger = l, Unseal(p)
    PROVE  Sound(l)'
<1>1. /\ call[p].pc = "unseal" /\ call'[p].pc = "empty" /\ SameRow(call'[p], call[p])
      /\ Others(p) /\ file' = file
  BY KnowsWriting, GotoFields DEF Unseal
<1>2. manifest'[l].rows = manifest[l].rows
  BY SealMoved
<1>3. At(p, l, Dirty)
  BY <1>1 DEF At, Dirty
<1>4. \A q \in Process : At(q, l, Dirty)' <=> q = p
  BY <1>1, <1>3 DEF Others, At, SameRow, Dirty, Sound
<1>5. Current(p, l)'
  BY <1>1, <1>2, <1>3 DEF Sound, Current, SameRow
<1>6. ASSUME NEW q \in Process, At(q, l, Ready)'
      PROVE  call'[q].base # file'[l].rows
  <2>1. q # p
    BY <1>1, <1>6 DEF At, Ready
  <2> QED
    BY <1>1, <1>3, <1>6, <2>1 DEF Others, At, Sound
<1>7. At(p, l, Unlocked)' /\ At(p, l, Unsealed)'
  BY <1>1 DEF At, SameRow, Unlocked, Unsealed
<1> QED
  BY <1>1, <1>4, <1>5, <1>6, <1>7 DEF Sound

LEMMA SoundEmpty ==
    ASSUME Typed, Tracked, Next, NEW l \in Ledger, Sound(l), NEW p \in Process,
           call[p].ledger = l, Empty(p)
    PROVE  Sound(l)'
<1>1. /\ call[p].pc = "empty" /\ call'[p].pc = "seal" /\ SameRow(call'[p], call[p])
      /\ Others(p) /\ file' = file
  BY KnowsWriting, GotoFields DEF Empty
<1>2. manifest'[l].rows = <<>>
  BY ManifestEmptied
<1>3. At(p, l, Dirty)
  BY <1>1 DEF At, Dirty
<1>4. \A q \in Process : At(q, l, Dirty)' <=> q = p
  BY <1>1, <1>3 DEF Others, At, SameRow, Dirty, Sound
<1>5. Current(p, l)'
  BY <1>1, <1>2, <1>3 DEF Sound, Current, SameRow
<1>6. ASSUME NEW q \in Process, At(q, l, Ready)'
      PROVE  call'[q].base # file'[l].rows
  <2>1. q # p
    BY <1>1, <1>6 DEF At, Ready
  <2> QED
    BY <1>1, <1>3, <1>6, <2>1 DEF Others, At, Sound
<1>7. At(p, l, Unlocked)' /\ At(p, l, Unsealed)'
  BY <1>1 DEF At, SameRow, Unlocked, Unsealed
<1> QED
  BY <1>1, <1>4, <1>5, <1>6, <1>7 DEF Sound

LEMMA SoundSeal ==
    ASSUME Typed, Tracked, Next, NEW l \in Ledger, Sound(l), NEW p \in Process,
           call[p].ledger = l, Seal(p)
    PROVE  Sound(l)'
<1>1. /\ call[p].pc = "seal" /\ call'[p].pc = "reseal" /\ SameRow(call'[p], call[p])
      /\ Others(p) /\ file' = file
  BY KnowsWriting, GotoFields DEF Seal
<1>2. At(p, l, Dirty) /\ Current(p, l) /\ manifest[l].exists
  BY <1>1 DEF At, Dirty, Sound, Tracked, CallKnows
<1>3. /\ manifest'[l].rows = file[l].rows /\ manifest'[l].exists /\ manifest'[l].whole
  BY <1>1, <1>2, ManifestFilled DEF Current, Row
<1>4. \A q \in Process : ~At(q, l, Dirty)'
  BY <1>1, <1>2 DEF Others, At, SameRow, Dirty, Sound
<1>5. Described(l)'
  BY <1>1, <1>2, <1>3 DEF Described, Current
<1>6. At(p, l, Unlocked)' /\ At(p, l, Unsealed)'
  BY <1>1 DEF At, SameRow, Unlocked, Unsealed
<1> QED
  BY <1>1, <1>4, <1>5, <1>6 DEF Sound

LEMMA SoundReseal ==
    ASSUME Typed, Tracked, Next, NEW l \in Ledger, Sound(l), NEW p \in Process,
           call[p].ledger = l, Reseal(p)
    PROVE  Sound(l)'
<1>1. /\ call[p].pc = "reseal" /\ call'[p].pc = "lock" /\ SameRow(call'[p], call[p])
      /\ Others(p) /\ file' = file
  BY KnowsWriting, GotoFields DEF Reseal
<1>2. /\ manifest'[l].rows = manifest[l].rows /\ manifest'[l].exists = manifest[l].exists
      /\ manifest'[l].whole = manifest[l].whole
      /\ manifest'[l].exists => manifest'[l].readonly
  BY <1>1, SealMoved
<1>3. \A q \in Process : /\ At(q, l, Dirty)' <=> At(q, l, Dirty)
                         /\ At(q, l, Ready)' <=> At(q, l, Ready)
                         /\ call'[q].base = call[q].base
  BY <1>1 DEF Others, At, SameRow, Dirty, Ready
<1>4. ASSUME NEW q \in Process, At(q, l, Dirty)'
      PROVE  Current(q, l)'
  <2>1. q # p
    BY <1>1, <1>4 DEF At, Dirty
  <2>2. Current(q, l) /\ call'[q] = call[q]
    BY <1>1, <1>3, <1>4, <2>1 DEF Sound, Others
  <2> QED
    BY <1>1, <1>2, <2>2 DEF Current
<1>5. At(p, l, Unlocked)'
  BY <1>1 DEF At, SameRow, Unlocked
<1> QED
  BY <1>1, <1>2, <1>3, <1>4, <1>5 DEF Sound, Absent, Described

LEMMA SoundLock ==
    ASSUME Typed, Tracked, Next, NEW l \in Ledger, Sound(l), NEW p \in Process,
           call[p].ledger = l, Lock(p)
    PROVE  Sound(l)'
<1>1. /\ call[p].pc = "lock" /\ call'[p].pc \in {"idle", "read", "govern"}
      /\ Others(p) /\ manifest' = manifest
  BY KnowsWriting, ThrowFields, ReturnFields DEF Lock, Entry
<1>2. /\ file'[l].rows = file[l].rows /\ file'[l].exists = file[l].exists
      /\ file'[l].torn = file[l].torn /\ file'[l].readonly
  BY <1>1, ModeSet
<1>3. \A q \in Process : /\ At(q, l, Dirty)' <=> At(q, l, Dirty)
                         /\ At(q, l, Ready)' <=> At(q, l, Ready)
                         /\ At(q, l, Unsealed)' <=> At(q, l, Unsealed)
                         /\ At(q, l, Ready)' => call'[q].base = call[q].base
  BY <1>1 DEF Others, At, Dirty, Ready, Unsealed
<1>4. ASSUME NEW q \in Process, At(q, l, Dirty)'
      PROVE  Current(q, l)'
  <2>1. q # p
    BY <1>1, <1>4 DEF At, Dirty
  <2>2. Current(q, l) /\ call'[q] = call[q]
    BY <1>1, <1>3, <1>4, <2>1 DEF Sound, Others
  <2> QED
    BY <1>1, <1>2, <2>2 DEF Current
<1> QED
  BY <1>1, <1>2, <1>3, <1>4 DEF Sound, Absent, Described

(* A call that is not writing disturbs nothing, and what it finds accepted *)
(* is what nobody is appending to.                                         *)
LEMMA SoundReading ==
    ASSUME Typed, Tracked, Next, NEW l \in Ledger, Sound(l), NEW p \in Process,
           \/ \E c \in Capture : Resolve(p, c)
           \/ Replay(p) \/ ReadDecisions(p)
           \/ \E authorized \in SUBSET Event : Plan(p, authorized)
           \/ Adapted(p) \/ Governed(p) \/ Read(p) \/ Verify(p) \/ Reverify(p)
    PROVE  Sound(l)'
<1>1. file' = file /\ manifest' = manifest /\ Others(p)
  BY KnowsReading
     DEF Resolve, Replay, ReadDecisions, Plan, Adapted, Governed, Read, Verify, Reverify
<1>2. call[p].pc \notin Writing
  BY DEF Resolve, Replay, ReadDecisions, Plan, Adapted, Governed, Read, Verify, Reverify, Writing
<1>3. ~At(p, l, Dirty) /\ ~At(p, l, Unsealed) /\ ~At(p, l, Unlocked)
  BY <1>2 DEF At, Dirty, Unsealed, Unlocked, Writing
<1>4. call'[p].pc \notin Dirty /\ (At(p, l, Ready)' =>
          ReadDecisions(p) \/ Verify(p) \/ Reverify(p))
  <2>1. CASE Throw(p) \/ Return(p)
    BY <2>1, ThrowFields, ReturnFields DEF At, Ready, Dirty, Entry
  <2>2. CASE (Verify(p) \/ Reverify(p)) /\ ~Throw(p) /\ ~Return(p)
    <3>1. Goto(p, "reread") \/ Goto(p, "unlock")
      BY <2>2 DEF Verify, Reverify
    <3> QED
      BY <2>2, <3>1, GotoFields DEF Dirty
  <2> QED
    BY <2>1, <2>2, ResolveFields, ReplayFields, ReadDecisionsFields, PlanFields, CheckedFields,
       ReadFields DEF At, Ready, Dirty
<1>5. ASSUME At(p, l, Ready)', call'[p].base = file[l].rows, NEW r \in Process
      PROVE  ~At(r, l, Dirty)
  <2>1. CASE Throw(p) \/ Return(p)
    BY <1>5, <2>1, ThrowFields, ReturnFields DEF At, Ready, Entry
  <2>2. CASE ReadDecisions(p)
    <3>1. At(p, l, Ready) /\ call'[p].base = call[p].base
      BY <1>5, <2>2, ReadDecisionsFields DEF At, Ready
    <3> QED
      BY <1>5, <3>1 DEF Sound
  <2>3. CASE Reverify(p) /\ ~Throw(p)
    <3>1. Goto(p, "unlock") /\ call[p].pc = "reverify"
      BY <2>3 DEF Reverify
    <3>2. At(p, l, Ready) /\ call'[p].base = call[p].base
      BY <1>5, <3>1, GotoFields DEF At, Ready, SameRow
    <3> QED
      BY <1>5, <3>2 DEF Sound
  <2>4. CASE Verify(p) /\ ~Throw(p) /\ ~Return(p)
    <3>1. /\ \E pc : Goto(p, pc)
          /\ call[p].pc = "verify"
          /\ call[p].fresh \/ Sealed(call[p].ledger, call[p].base)
      BY <2>4 DEF Verify
    <3>2. call[p].ledger = l /\ call[p].base = file[l].rows
      BY <1>5, <3>1, GotoFields DEF At, SameRow
    <3>3. SUFFICES ASSUME At(r, l, Dirty) PROVE FALSE
      OBVIOUS
    <3>4. Current(r, l)
      BY <3>3 DEF Sound
    <3>5. file[l].rows # <<>>
      <4>1. /\ call[r].base \in Seq(RowOf(l)) /\ Row(r) \in RowOf(l)
        BY <3>3, Writer DEF At, Dirty, Early
      <4>2. Append(call[r].base, Row(r)) # <<>>
        BY <4>1
      <4> QED
        BY <3>4, <4>2 DEF Current, Row
    <3>6. CASE call[p].fresh
      BY <3>1, <3>2, <3>5, <3>6 DEF Tracked, CallKnows
    <3>7. CASE Sealed(l, file[l].rows)
      BY <3>4, <3>5, <3>7 DEF Current, Sealed
    <3> QED
      BY <3>1, <3>2, <3>6, <3>7
  <2> QED
    BY <1>4, <1>5, <2>1, <2>2, <2>3, <2>4
<1>6. ~At(p, l, Dirty)'
  BY <1>4 DEF At
<1> QED
  BY <1>1, <1>3, <1>5, <1>6, SoundQuiet

(* A writer does not disturb the other ledger.                             *)
LEMMA SoundElsewhere ==
    ASSUME Typed, Tracked, Next, NEW l \in Ledger, Sound(l), NEW p \in Process,
           call[p].ledger # l,
           \/ Unlock(p) \/ AppendRow(p) \/ AppendDenied(p)
           \/ \E torn \in BOOLEAN : AppendFails(p, torn)
           \/ Unseal(p) \/ Empty(p) \/ EmptyDenied(p) \/ Seal(p) \/ SealFails(p)
           \/ Reseal(p) \/ Lock(p)
    PROVE  Sound(l)'
<1>1. Others(p)
  BY KnowsWriting
<1>2. file'[l] = file[l] /\ manifest'[l] = manifest[l]
  <2>1. CASE Unlock(p) \/ Lock(p)
    BY <2>1, ModeSet DEF Unlock, Lock
  <2>2. CASE AppendRow(p)
    BY <2>2, RowAdded DEF AppendRow
  <2>3. ASSUME NEW torn \in BOOLEAN, AppendFails(p, torn)
        PROVE  file'[l] = file[l] /\ manifest'[l] = manifest[l]
    BY <2>3, RowLost DEF AppendFails
  <2>4. CASE Unseal(p) \/ Reseal(p)
    BY <2>4, SealMoved DEF Unseal, Reseal
  <2>5. CASE Empty(p)
    BY <2>5, ManifestEmptied DEF Empty
  <2>6. CASE Seal(p)
    BY <2>6, ManifestFilled DEF Seal
  <2>7. CASE AppendDenied(p) \/ EmptyDenied(p) \/ SealFails(p)
    BY <2>7 DEF AppendDenied, EmptyDenied, SealFails
  <2> QED
    BY <2>1, <2>2, <2>3, <2>4, <2>5, <2>6, <2>7
<1>3. ~At(p, l, Dirty)' /\ ~At(p, l, Ready)'
  <2>1. CASE Throw(p) \/ Return(p)
    BY <2>1, ThrowFields, ReturnFields DEF At, Ready, Dirty, Entry
  <2>2. CASE \E pc : Goto(p, pc) \/ Fails(p, pc)
    BY <2>2, GotoFields, FailsFields DEF At, SameRow
  <2> QED
    BY <2>1, <2>2 DEF Unlock, AppendRow, AppendDenied, AppendFails, Unseal, Empty, EmptyDenied,
                      Seal, SealFails, Reseal, Lock
<1>4. ~At(p, l, Dirty) /\ ~At(p, l, Unsealed) /\ ~At(p, l, Unlocked)
  BY DEF At
<1> QED
  BY <1>1, <1>2, <1>3, <1>4, SoundQuiet

(* What goes wrong without spoiling the ledger comes before the append.    *)
LEMMA SoundTrouble ==
    ASSUME Typed, Tracked, Next, NEW l \in Ledger \ spoiled', Sound(l), NEW p \in Process,
           \/ Crash(p)
           \/ /\ call[p].ledger = l
              /\ \/ AppendDenied(p) \/ EmptyDenied(p) \/ SealFails(p)
                 \/ \E torn \in BOOLEAN : AppendFails(p, torn)
    PROVE  Sound(l)'
<1>1. CASE Crash(p)
  <2>1. file' = file /\ manifest' = manifest /\ Others(p) /\ call'[p].pc = "idle"
    BY <1>1, CrashFields DEF Crash
  <2>2. call[p].ledger = l => call[p].pc \notin Writing \ {"unlock"}
    BY <1>1 DEF Crash
  <2>3. ~At(p, l, Dirty) /\ ~At(p, l, Unsealed) /\ ~At(p, l, Unlocked)
    BY <2>2 DEF At, Dirty, Unsealed, Unlocked, Writing
  <2>4. ~At(p, l, Dirty)' /\ ~At(p, l, Ready)'
    BY <2>1 DEF At, Dirty, Ready
  <2> QED
    BY <2>1, <2>3, <2>4, SoundQuiet
<1>2. CASE AppendDenied(p) /\ call[p].ledger = l
  <2>1. /\ file' = file /\ manifest' = manifest /\ Others(p)
        /\ call[p].pc = "append" /\ call'[p].pc = "lock" /\ SameRow(call'[p], call[p])
    BY <1>2, FailsFields DEF AppendDenied
  <2>2. /\ ~At(p, l, Dirty) /\ ~At(p, l, Unsealed) /\ ~At(p, l, Dirty)' /\ ~At(p, l, Ready)'
        /\ At(p, l, Unlocked)'
    BY <1>2, <2>1 DEF At, Dirty, Ready, Unsealed, Unlocked, SameRow
  <2> QED
    BY <2>1, <2>2, SoundQuiet
<1>3. CASE /\ call[p].ledger = l
           /\ EmptyDenied(p) \/ SealFails(p) \/ \E torn \in BOOLEAN : AppendFails(p, torn)
  BY <1>3 DEF EmptyDenied, SealFails, AppendFails
<1> QED
  BY <1>1, <1>2, <1>3

LEMMA SpoiledGrows == Next => spoiled \subseteq spoiled'
<1>1. ASSUME NEW p \in Process,
             \/ AppendRow(p) \/ EmptyDenied(p) \/ SealFails(p) \/ Crash(p)
             \/ \E torn \in BOOLEAN : AppendFails(p, torn)
      PROVE  spoiled \subseteq spoiled'
  BY <1>1 DEF AppendRow, EmptyDenied, SealFails, Crash, AppendFails
<1> QED
  BY <1>1
     DEF Next, Resolve, Replay, ReadDecisions, Plan, Adapted, Governed, Read, Verify, Reverify,
         Unlock, AppendDenied, Unseal, Empty, Seal, Reseal, Lock

LEMMA UnspoiledStep == Typed /\ Tracked /\ Unspoiled /\ [Next]_vars => Unspoiled'
<1>1. ASSUME Typed, Tracked, Unspoiled, Next, NEW l \in Ledger \ spoiled'
      PROVE  Sound(l)'
  <2>1. l \in Ledger /\ Sound(l)
    BY <1>1, SpoiledGrows DEF Unspoiled
  <2> PICK p \in Process :
         \/ \/ \E c \in Capture : Resolve(p, c)
            \/ Replay(p) \/ ReadDecisions(p)
            \/ \E authorized \in SUBSET Event : Plan(p, authorized)
            \/ Adapted(p) \/ Governed(p) \/ Read(p) \/ Verify(p) \/ Reverify(p)
         \/ \/ Unlock(p) \/ AppendRow(p) \/ AppendDenied(p)
            \/ \E torn \in BOOLEAN : AppendFails(p, torn)
            \/ Unseal(p) \/ Empty(p) \/ EmptyDenied(p) \/ Seal(p) \/ SealFails(p)
            \/ Reseal(p) \/ Lock(p)
         \/ Crash(p)
    BY <1>1 DEF Next
  <2>2. CASE \/ \E c \in Capture : Resolve(p, c)
             \/ Replay(p) \/ ReadDecisions(p)
             \/ \E authorized \in SUBSET Event : Plan(p, authorized)
             \/ Adapted(p) \/ Governed(p) \/ Read(p) \/ Verify(p) \/ Reverify(p)
    BY <1>1, <2>1, <2>2, SoundReading
  <2>3. CASE Crash(p)
    BY <1>1, <2>1, <2>3, SoundTrouble
  <2>4. CASE /\ call[p].ledger # l
             /\ \/ Unlock(p) \/ AppendRow(p) \/ AppendDenied(p)
                \/ \E torn \in BOOLEAN : AppendFails(p, torn)
                \/ Unseal(p) \/ Empty(p) \/ EmptyDenied(p) \/ Seal(p) \/ SealFails(p)
                \/ Reseal(p) \/ Lock(p)
    BY <1>1, <2>1, <2>4, SoundElsewhere
  <2>5. CASE /\ call[p].ledger = l
             /\ \/ AppendDenied(p) \/ EmptyDenied(p) \/ SealFails(p)
                \/ \E torn \in BOOLEAN : AppendFails(p, torn)
    BY <1>1, <2>1, <2>5, SoundTrouble
  <2>6. CASE /\ call[p].ledger = l
             /\ \/ Unlock(p) \/ AppendRow(p) \/ Unseal(p) \/ Empty(p) \/ Seal(p)
                \/ Reseal(p) \/ Lock(p)
    BY <1>1, <2>1, <2>6, SoundUnlock, SoundAppendRow, SoundUnseal, SoundEmpty, SoundSeal,
       SoundReseal, SoundLock
  <2> QED
    BY <2>2, <2>3, <2>4, <2>5, <2>6
<1>2. ASSUME Unspoiled, UNCHANGED vars
      PROVE  Unspoiled'
  BY <1>2 DEF Unspoiled, Sound, At, Current, Absent, Described, vars
<1> QED
  BY <1>1, <1>2 DEF Unspoiled

LEMMA InitUnspoiled == Init => Unspoiled
BY DEF Init, Unspoiled, Sound, At, Absent, Dirty, Ready, Idle, NoFile, NoManifest

(* A ledger is readable whenever nobody writes it, unless a writer died or *)
(* failed in its writes, was denied the manifest, or appended after        *)
(* another one had (append, appendProjection, and their finally blocks).   *)
THEOREM TroubleCloses == Spec => []OnlyTroubleCloses
<1>1. Init => Typed /\ Tracked /\ Unspoiled
  BY InitTyped, InitTracked, InitUnspoiled
<1>2. Typed /\ Tracked /\ Unspoiled /\ [Next]_vars => (Typed /\ Tracked /\ Unspoiled)'
  BY TypedStep, TrackedStep, UnspoiledStep
<1>3. Unspoiled => OnlyTroubleCloses
  <2> SUFFICES ASSUME Unspoiled, NEW l \in Ledger \ spoiled,
                      \A p \in Process : call[p].ledger = l => call[p].pc \notin Writing
               PROVE  Absent(l) \/ Verifies(l)
    BY DEF OnlyTroubleCloses
  <2>1. \A p \in Process : ~At(p, l, Dirty) /\ ~At(p, l, Unsealed) /\ ~At(p, l, Unlocked)
    BY DEF At, Dirty, Unsealed, Unlocked, Writing
  <2>2. Sound(l)
    BY DEF Unspoiled
  <2> QED
    BY <2>1, <2>2 DEF Sound, Described, Verifies, Opens, Sealed
<1> QED
  BY <1>1, <1>2, <1>3, PTL DEF Spec

-----------------------------------------------------------------------------
(* What was acknowledged is kept.                                          *)

CallLogged(r) ==
    r.pc \in {"unseal", "empty", "seal", "reseal", "lock"} /\ ~r.failed =>
        Head(r.todo) \in Range(file[r.ledger].rows)

Logged == AcknowledgedIsKept /\ \A p \in Process : CallLogged(call[p])

LEMMA PrefixRange ==
    ASSUME NEW S, NEW s \in Seq(S), NEW t \in Seq(S), Prefix(s, t)
    PROVE  Range(s) \subseteq Range(t)
<1>1. DOMAIN s = 1 .. Len(s) /\ DOMAIN t = 1 .. Len(t) /\ Len(s) \in Nat /\ Len(t) \in Nat
  OBVIOUS
<1> QED
  BY <1>1 DEF Prefix, Range

LEMMA RangeGrows ==
    ASSUME Typed, Next, NEW l \in Ledger
    PROVE  Range(file[l].rows) \subseteq Range(file'[l].rows)
<1>1. file[l].rows \in Seq(RowOf(l)) /\ file'[l].rows \in Seq(RowOf(l))
  BY TypedStep, TypedParts DEF FilesOK
<1> QED
  BY <1>1, RowsGrow, PrefixRange

LEMMA RangeAdded ==
    ASSUME Typed, Tracked, NEW p \in Process, AppendRow(p)
    PROVE  Row(p) \in Range(file'[call[p].ledger].rows)
<1> DEFINE l == call[p].ledger
           s == file[l].rows
<1>1. s \in Seq(RowOf(l)) /\ Row(p) \in RowOf(l)
  BY Writer DEF AppendRow, Early
<1>2. file'[l].rows = Append(s, Row(p))
  BY RowAdded
<1>3. Len(s) + 1 \in DOMAIN Append(s, Row(p)) /\ Append(s, Row(p))[Len(s) + 1] = Row(p)
  BY <1>1
<1> QED
  BY <1>2, <1>3 DEF Range

LEMMA LoggedOwn ==
    ASSUME Typed, Tracked, Logged, Next, NEW p \in Process,
           \/ \E c \in Capture : Resolve(p, c)
           \/ Replay(p) \/ ReadDecisions(p)
           \/ \E authorized \in SUBSET Event : Plan(p, authorized)
           \/ Adapted(p) \/ Governed(p) \/ Read(p) \/ Verify(p) \/ Reverify(p)
           \/ Unlock(p) \/ AppendRow(p) \/ AppendDenied(p)
           \/ \E torn \in BOOLEAN : AppendFails(p, torn)
           \/ Unseal(p) \/ Empty(p) \/ EmptyDenied(p) \/ Seal(p) \/ SealFails(p)
           \/ Reseal(p) \/ Lock(p) \/ Crash(p)
    PROVE  CallLogged(call[p])'
<1>1. CallLogged(call[p]) /\ call[p].ledger \in Ledger
  BY TypedParts DEF Logged, CallsOK, CallType
<1>2. CASE Throw(p)
  BY <1>2, ThrowFields DEF CallLogged
<1>3. CASE Return(p)
  BY <1>3, ReturnFields DEF CallLogged, Entry
<1>4. CASE \/ \E c \in Capture : Resolve(p, c)
           \/ Replay(p) \/ Crash(p) \/ Adapted(p) \/ Governed(p) \/ ReadDecisions(p) \/ Read(p)
           \/ \E authorized \in SUBSET Event : Plan(p, authorized)
  BY <1>4, ResolveFields, ReplayFields, CrashFields, PlanFields, CheckedFields,
     ReadDecisionsFields, ReadFields DEF CallLogged
<1>5. CASE /\ ~Throw(p) /\ ~Return(p)
           /\ Verify(p) \/ Reverify(p) \/ Unlock(p)
  <2>1. \E pc \in {"reread", "unlock", "append"} : Goto(p, pc)
    BY <1>5 DEF Verify, Reverify, Unlock
  <2> QED
    BY <2>1, GotoFields DEF CallLogged
<1>6. CASE AppendRow(p)
  <2>1. SameRow(call'[p], call[p])
    BY <1>6, GotoFields DEF AppendRow
  <2> QED
    BY <1>6, <2>1, RangeAdded DEF CallLogged, SameRow, Row
<1>7. CASE AppendDenied(p) \/ EmptyDenied(p) \/ SealFails(p)
           \/ \E torn \in BOOLEAN : AppendFails(p, torn)
  BY <1>7, FailsFields DEF CallLogged, AppendDenied, EmptyDenied, SealFails, AppendFails
<1>8. CASE Unseal(p) \/ Empty(p) \/ Seal(p) \/ Reseal(p)
  <2>1. /\ call[p].pc \in {"unseal", "empty", "seal", "reseal"}
        /\ \E pc : Goto(p, pc)
    BY <1>8 DEF Unseal, Empty, Seal, Reseal
  <2>2. SameRow(call'[p], call[p]) /\ call'[p].failed = call[p].failed
    BY <2>1, GotoFields
  <2> QED
    BY <1>1, <2>1, <2>2, RangeGrows DEF CallLogged, SameRow
<1> QED
  BY <1>2, <1>3, <1>4, <1>5, <1>6, <1>7, <1>8 DEF Lock

(* An append returns because its row was read, or because it appended it.  *)
LEMMA Returns ==
    ASSUME Typed, Tracked, Logged, Next, acked' # acked
    PROVE  \E p \in Process : Return(p) /\ Row(p) \in Range(file[call[p].ledger].rows)
<1>1. PICK p \in Process : Verify(p) \/ Lock(p)
  BY DEF Next, Resolve, Replay, ReadDecisions, Plan, Adapted, Governed, Read, Reverify, Unlock,
         AppendRow, AppendDenied, AppendFails, Unseal, Empty, EmptyDenied, Seal, SealFails,
         Reseal, Crash
<1>2. CASE Verify(p)
  <2>1. Return(p) /\ Row(p) \in Range(call[p].base) /\ call[p].pc = "verify"
    BY <1>2 DEF Verify
  <2>2. /\ call[p].base \in Seq(RowOf(call[p].ledger))
        /\ file[call[p].ledger].rows \in Seq(RowOf(call[p].ledger))
    BY <2>1, Writer DEF Early
  <2>3. Prefix(call[p].base, file[call[p].ledger].rows)
    BY <2>1 DEF Tracked, CallKnows, Based
  <2> QED
    BY <2>1, <2>2, <2>3, PrefixRange
<1>3. CASE Lock(p)
  BY <1>3 DEF Lock, Logged, CallLogged, Row
<1> QED
  BY <1>1, <1>2, <1>3

LEMMA LoggedStep == Typed /\ Tracked /\ Logged /\ [Next]_vars => Logged'
<1>1. ASSUME Typed, Tracked, Logged, Next
      PROVE  Logged'
  <2>1. PICK p \in Process : CallLogged(call[p])' /\ Others(p)
    BY <1>1, LoggedOwn, KnowsReading, KnowsWriting DEF Next
  <2>2. ASSUME NEW q \in Process
        PROVE  CallLogged(call[q])'
    <3>1. CASE q = p
      BY <2>1, <3>1
    <3>2. CASE q # p
      <4>1. call'[q] = call[q] /\ call[q].ledger \in Ledger
        BY <1>1, <2>1, <3>2, TypedParts DEF Others, CallsOK, CallType
      <4> QED
        BY <1>1, <4>1, RangeGrows DEF Logged, CallLogged
    <3> QED
      BY <3>1, <3>2
  <2>3. ASSUME NEW l \in Ledger
        PROVE  acked'[l] \subseteq Range(file'[l].rows)
    <3>1. /\ acked[l] \subseteq Range(file[l].rows)
          /\ Range(file[l].rows) \subseteq Range(file'[l].rows)
      BY <1>1, RangeGrows DEF Logged, AcknowledgedIsKept
    <3>2. CASE acked' = acked
      BY <3>1, <3>2
    <3>3. CASE acked' # acked
      <4>1. PICK q \in Process : Return(q) /\ Row(q) \in Range(file[call[q].ledger].rows)
        BY <1>1, <3>3, Returns
      <4>2. acked'[l] \subseteq IF l = call[q].ledger THEN acked[l] \cup {Row(q)} ELSE acked[l]
        BY <1>1, <4>1, TypedParts DEF Return, RestOK
      <4> QED
        BY <3>1, <4>1, <4>2
    <3> QED
      BY <3>2, <3>3
  <2> QED
    BY <2>2, <2>3 DEF Logged, AcknowledgedIsKept
<1>2. ASSUME Logged, UNCHANGED vars
      PROVE  Logged'
  BY <1>2 DEF Logged, AcknowledgedIsKept, CallLogged, vars
<1> QED
  BY <1>1, <1>2

LEMMA InitLogged == Init => Logged
BY DEF Init, Logged, AcknowledgedIsKept, CallLogged, Idle

(* What an append returned for is in the ledger for good, whatever other   *)
(* appends write, fail to write or die in (append, appendProjection).      *)
THEOREM AcknowledgedRows == Spec => []AcknowledgedIsKept
<1>1. Init => Typed /\ Tracked /\ Logged
  BY InitTyped, InitTracked, InitLogged
<1>2. Typed /\ Tracked /\ Logged /\ [Next]_vars => (Typed /\ Tracked /\ Logged)'
  BY TypedStep, TrackedStep, LoggedStep
<1>3. Logged => AcknowledgedIsKept
  BY DEF Logged
<1> QED
  BY <1>1, <1>2, <1>3, PTL DEF Spec

-----------------------------------------------------------------------------
(* What is shut stays shut.                                                *)

(* A ledger whose files nobody writes.                                     *)
LEMMA Undisturbed ==
    ASSUME Typed, Next, NEW l \in Ledger,
           \A p \in Process : call[p].ledger = l => call[p].pc \notin Writing
    PROVE  file'[l] = file[l] /\ manifest'[l] = manifest[l]
<1>1. ASSUME NEW p \in Process,
             \/ Unlock(p) \/ AppendRow(p) \/ Lock(p)
             \/ \E torn \in BOOLEAN : AppendFails(p, torn)
             \/ Unseal(p) \/ Empty(p) \/ Seal(p) \/ Reseal(p)
      PROVE  call[p].ledger # l
  BY <1>1 DEF Unlock, AppendRow, Lock, AppendFails, Unseal, Empty, Seal, Reseal, Writing
<1>2. file'[l] = file[l]
  BY <1>1, FileChanges, ModeSet, RowAdded, RowLost
<1>3. manifest'[l] = manifest[l]
  BY <1>1, ManifestChanges, SealMoved, ManifestEmptied, ManifestFilled
<1> QED
  BY <1>2, <1>3

CallShut(r, l) ==
    r.ledger = l =>
        /\ r.pc \notin Writing \cup {"reread", "reverify"}
        /\ r.pc = "verify" => ~r.fresh /\ ~Sealed(l, r.base)

LEMMA ShutOwn ==
    ASSUME Typed, Tracked, Next, NEW l \in Ledger, Shut(l), NEW p \in Process,
           \/ \E c \in Capture : Resolve(p, c)
           \/ Replay(p) \/ ReadDecisions(p)
           \/ \E authorized \in SUBSET Event : Plan(p, authorized)
           \/ Adapted(p) \/ Governed(p) \/ Read(p) \/ Verify(p) \/ Reverify(p)
           \/ Unlock(p) \/ AppendRow(p) \/ AppendDenied(p)
           \/ \E torn \in BOOLEAN : AppendFails(p, torn)
           \/ Unseal(p) \/ Empty(p) \/ EmptyDenied(p) \/ Seal(p) \/ SealFails(p)
           \/ Reseal(p) \/ Lock(p) \/ Crash(p)
    PROVE  CallShut(call'[p], l)
<1>1. CallShut(call[p], l) /\ ~Absent(l) /\ ~Verifies(l)
  BY DEF Shut, CallShut
<1>2. CASE Throw(p)
  BY <1>2, ThrowFields DEF CallShut, Writing
<1>3. CASE Return(p)
  BY <1>3, ReturnFields DEF CallShut, Writing, Entry
<1>4. CASE \/ \E c \in Capture : Resolve(p, c)
           \/ Replay(p) \/ Crash(p) \/ Adapted(p) \/ Governed(p)
           \/ \E authorized \in SUBSET Event : Plan(p, authorized)
  BY <1>4, ResolveFields, ReplayFields, CrashFields, PlanFields, CheckedFields
     DEF CallShut, Writing
<1>5. CASE ReadDecisions(p)
  BY <1>1, <1>5, ReadDecisionsFields DEF CallShut, Writing
<1>6. CASE Read(p)
  BY <1>1, <1>6, ReadFields DEF CallShut, Writing, Verifies
<1>7. CASE Verify(p) /\ ~Throw(p) /\ ~Return(p)
  <2>1. /\ call[p].fresh \/ Sealed(call[p].ledger, call[p].base)
        /\ call[p].pc = "verify" /\ \E pc : Goto(p, pc)
    BY <1>7 DEF Verify
  <2>2. SameRow(call'[p], call[p])
    BY <2>1, GotoFields
  <2> QED
    BY <1>1, <2>1, <2>2 DEF CallShut, SameRow
<1>8. CASE /\ ~Throw(p) /\ ~Return(p)
           /\ \/ Reverify(p) \/ Unlock(p) \/ AppendRow(p) \/ AppendDenied(p)
              \/ \E torn \in BOOLEAN : AppendFails(p, torn)
              \/ Unseal(p) \/ Empty(p) \/ EmptyDenied(p) \/ Seal(p) \/ SealFails(p)
              \/ Reseal(p) \/ Lock(p)
  <2>1. /\ call[p].pc \in Writing \cup {"reverify"}
        /\ \E pc : Goto(p, pc) \/ Fails(p, pc)
    BY <1>8 DEF Reverify, Unlock, AppendRow, AppendDenied, AppendFails, Unseal, Empty,
                EmptyDenied, Seal, SealFails, Reseal, Lock, Writing
  <2>2. SameRow(call'[p], call[p])
    BY <2>1, GotoFields, FailsFields
  <2> QED
    BY <1>1, <2>1, <2>2 DEF CallShut, SameRow
<1> QED
  BY <1>2, <1>3, <1>4, <1>5, <1>6, <1>7, <1>8

LEMMA ShutStep ==
    ASSUME Typed, Tracked, [Next]_vars, NEW l \in Ledger, Shut(l)
    PROVE  Shut(l)'
<1>1. CASE Next
  <2>1. \A q \in Process : CallShut(call[q], l)
    BY DEF Shut, CallShut
  <2>2. PICK p \in Process : CallShut(call'[p], l) /\ Others(p)
    BY <1>1, ShutOwn, KnowsReading, KnowsWriting DEF Next
  <2>3. \A q \in Process : CallShut(call'[q], l)
    BY <2>1, <2>2 DEF Others
  <2>4. file'[l] = file[l] /\ manifest'[l] = manifest[l]
    BY <1>1, Undisturbed DEF Shut
  <2>5. /\ Absent(l)' <=> Absent(l)
        /\ Verifies(l)' <=> Verifies(l)
        /\ \A q \in Process : Sealed(l, call[q].base)' <=> Sealed(l, call'[q].base)
    BY <2>4 DEF Absent, Verifies, Opens, Sealed
  <2> QED
    BY <2>3, <2>5 DEF Shut, CallShut
<1>2. CASE UNCHANGED vars
  BY <1>2 DEF Shut, Absent, Verifies, Opens, Sealed, vars
<1> QED
  BY <1>1, <1>2

(* A ledger that a death or a failure has closed is neither repaired nor   *)
(* opened again by any later call (verifyLedgerIntegrity, append).         *)
THEOREM ShutForGood == Spec => ShutStaysShut
<1>1. Init => Typed /\ Tracked
  BY InitTyped, InitTracked
<1>2. Typed /\ Tracked /\ [Next]_vars => (Typed /\ Tracked)'
  BY TypedStep, TrackedStep
<1>3. Typed /\ Tracked /\ [Next]_vars =>
          [\A l \in Ledger : Shut(l) => Shut(l)']_vars
  BY ShutStep
<1> QED
  BY <1>1, <1>2, <1>3, PTL DEF Spec, ShutStaysShut

(* A ledger that a reader accepts (verify, verifyLedgerIntegrity) is a     *)
(* chain of decisions, or a set of observations.                           *)
THEOREM VerifiedLedgers == Spec => []VerifiedIsSound
<1>1. VerifiedIsAChain /\ VerifiedIsOnce => VerifiedIsSound
  BY DEF VerifiedIsSound
<1>. QED  BY <1>1, VerifiedDecisions, VerifiedObservations, PTL
=============================================================================

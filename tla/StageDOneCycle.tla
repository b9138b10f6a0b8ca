--------------------------- MODULE StageDOneCycle ---------------------------
(***************************************************************************)
(* One Stage D cycle (market_evidence/stageDOperations.js): a one-shot     *)
(* authorization, admission against the request ledger and the quota, the  *)
(* single transmission to the provider, the evidence it leaves, and the    *)
(* publication.  Several invocations run at once, each may crash or fail   *)
(* at any step, and the owner issues authorizations and adjudications.     *)
(* The run lock is what StageDRunLock promises: one holder, who keeps it   *)
(* until it releases cleanly or the operator reconciles.                   *)
(***************************************************************************)
EXTENDS Integers, Sequences, FiniteSets, SequencesExt

CONSTANTS
    Cycle,          \* invocations of executeStageDControlledInitialization
    Authorization,  \* controlled authorizations
    AuthOf,         \* Cycle -> the authorization it is invoked with
    RunOf,          \* Authorization -> its run_id
    RequestOf,      \* Authorization -> its request_id
    Payload,        \* response bodies, told apart by raw_sha256
    None,           \* no lock holder, no body, no cycle's request
    SpendLimit,     \* automated_spend_limit
    PlanLimit,      \* monthly_quota_limit
    DailyCap,       \* max_requests_per_day
    InitialUsed,    \* what the provider had charged before the epoch
    PeriodEnd,      \* period_end_at; the period starts at 0
    Lifetime,       \* how long an authorization is valid
    MaxTime,        \* bound: the latest time of the clock
    MaxOutside,     \* bound: other publications and source changes together
    Faults,         \* the failures that may happen, a crash among them
    MaxFaults       \* bound: number of failures

FaultKinds == {"marker", "read", "ledger", "credential", "raw", "receipt",
               "build", "publish", "release", "crash"}

ASSUME AuthorizationAssumption ==
    /\ AuthOf \in [Cycle -> Authorization]
    /\ None \notin Cycle \cup Payload
    /\ None \notin {RequestOf[a] : a \in Authorization}

ASSUME QuotaAssumption ==
    /\ {SpendLimit, PlanLimit, DailyCap, InitialUsed, PeriodEnd} \subseteq Nat
    /\ SpendLimit <= PlanLimit

ASSUME BoundAssumption ==
    /\ {Lifetime, MaxTime, MaxOutside, MaxFaults} \subseteq Nat
    /\ Faults \subseteq FaultKinds

VARIABLES
    ledger,         \* the request ledger
    lock,           \* holder of the run lock
    consumed,       \* authorizations with a consumption marker
    raw,            \* payloads persisted as market RAW
    receipts,       \* receipts persisted, <<request, payload>>
    authority,      \* the transactions of the authority, in order
    adjudications,  \* v1 and v2 quota adjudications of the period
    draft,          \* an adjudication computed and not yet persisted
    source,         \* the trusted source version
    now,            \* the system clock
    used,           \* what the provider has charged
    pc,             \* where each cycle is
    bound,          \* what the cycle's authorization binds
    base,           \* length of the ledger the budget decision was made on
    head,           \* length of the authority the candidate was built on
    reply,          \* what transport.send came back with
    class,          \* error_classification of a post-response failure
    sent,           \* history: cycles in the order they called the provider
    delivered,      \* history: successful bodies, <<request, payload>>
    faults          \* how many failures have happened

evidence == <<raw, receipts>>
owner    == <<adjudications, draft, source>>
provider == <<used, sent, delivered>>
local    == <<bound, base, head, reply, class>>
vars     == <<ledger, lock, consumed, evidence, authority, owner, now,
              provider, pc, local, faults>>

Run     == {RunOf[a] : a \in Authorization}
Request == {RequestOf[a] : a \in Authorization}
run(c)     == RunOf[AuthOf[c]]
request(c) == RequestOf[AuthOf[c]]

Larger(a, b) == IF a >= b THEN a ELSE b

-----------------------------------------------------------------------------
(* The request ledger.  An event holds transmitted_at when it starts a     *)
(* transmission and the provider's reconciled balance when it has one.     *)

Terminal == {"cancelled", "received", "http", "transport", "post"}
Class    == {"none", "raw", "quota", "receipt"}

Event == [type: {"intent", "started"} \cup Terminal, run: Run,
          request: Request, at: Nat, class: Class, quota: Nat]

EventOf(c, type) ==
    [type |-> type, run |-> run(c), request |-> request(c),
     at |-> 0, class |-> "none", quota |-> 0]

OfType(L, types) == {e \in ToSet(L) : e.type \in types}
RequestsIn(E) == {e.request : e \in E}

Consumed(L)  == RequestsIn(OfType(L, {"started"}))
Ambiguous(L) == Consumed(L) \ RequestsIn(OfType(L, Terminal))
Divergent(L) == {e.request : e \in {x \in ToSet(L) : x.class = "quota"}}

(* A response failed after it was received, its balance was not reconciled *)
(* and no adjudication is possible.                                        *)
Unreconciled(L) ==
    \E e \in OfType(L, {"post"}) : e.quota = 0 /\ e.class # "quota"

Units(L) == Cardinality(Consumed(L))
UnitsOn(L, day) ==
    Cardinality(RequestsIn({e \in OfType(L, {"started"}) : e.at = day}))

Balances(L) == {i \in DOMAIN L : L[i].quota # 0}
LatestBalance(L) ==
    IF Balances(L) = {} THEN 0
    ELSE L[CHOOSE i \in Balances(L) : \A j \in Balances(L) : j <= i].quota

-----------------------------------------------------------------------------
(* Adjudications: the owner declares one divergence budgeted as consumed.  *)

Adjudication == [version: 0..2, entries: Nat, request: Request \cup {None},
                 usage: Nat, source: Nat]
NoDraft == [version |-> 0, entries |-> 0, request |-> None, usage |-> 0,
            source |-> 0]

(* The adjudication covers exactly what the ledger L leaves open.          *)
Covers(d, L) == d.entries = Len(L) /\ Divergent(L) = {d.request}

ValidAdjudication(d, L) == Covers(d, L) /\ d.source = source

Usage(L, adj) ==
    IF adj = 0 THEN Units(L) ELSE Larger(Units(L), adjudications[adj].usage)

-----------------------------------------------------------------------------
Labels == {"idle", "preflight", "acquire", "admit", "intent", "check", "mark",
           "send", "answer", "reconcile", "receipt", "post", "received",
           "reopen", "publish", "release", "ended", "stopped"}

(* What an authorization binds: the authority, the adjudication, the time. *)
NotBound == [head |-> 0, adj |-> 0, from |-> 0]
NoReply   == [kind |-> "none", payload |-> None, quota |-> 0]

Init ==
    /\ ledger = <<>>
    /\ lock = None
    /\ consumed = {}
    /\ raw = {} /\ receipts = {}
    /\ authority = <<>>
    /\ adjudications = <<>> /\ draft = NoDraft /\ source = 0
    /\ now = 0
    /\ used = InitialUsed
    /\ pc = [c \in Cycle |-> "idle"]
    /\ bound = [c \in Cycle |-> NotBound]
    /\ base = [c \in Cycle |-> 0]
    /\ head = [c \in Cycle |-> 0]
    /\ reply = [c \in Cycle |-> NoReply]
    /\ class = [c \in Cycle |-> "none"]
    /\ sent = <<>> /\ delivered = {}
    /\ faults = 0

At(c, label)   == pc[c] = label
Goto(c, label) == pc' = [pc EXCEPT ![c] = label]

(* Failure k happens now. *)
Fault(k) == k \in Faults /\ faults < MaxFaults /\ faults' = faults + 1

(* The locals end with the process; a lock it did not release stays. *)
End(c, label) ==
    /\ Goto(c, label)
    /\ bound' = [bound EXCEPT ![c] = NotBound]
    /\ base' = [base EXCEPT ![c] = 0]
    /\ head' = [head EXCEPT ![c] = 0]
    /\ reply' = [reply EXCEPT ![c] = NoReply]
    /\ class' = [class EXCEPT ![c] = "none"]

(* reconcileRequired: the cycle keeps the lock. *)
Stop(c) == End(c, "stopped")

InWindow(c) == now >= bound[c].from /\ now < bound[c].from + Lifetime

-----------------------------------------------------------------------------
(* executeStageDControlledInitialization: validate, prove the proxy, and   *)
(* consume the authorization before the cycle asks for the run lock.       *)

Start(c) ==
    /\ At(c, "idle")
    /\ \E b \in [head: {Len(authority)}, adj: {0, Len(adjudications)},
                 from: 0..now] :
         /\ now < b.from + Lifetime /\ now < PeriodEnd
         /\ IF b.adj = 0 THEN Divergent(ledger) = {}
            ELSE ValidAdjudication(adjudications[b.adj], ledger)
         /\ bound' = [bound EXCEPT ![c] = b]
    /\ Goto(c, "preflight")
    /\ UNCHANGED <<ledger, lock, consumed, evidence, authority, owner, now,
                   provider, base, head, reply, class, faults>>

(* The preflight fails, the window has closed, or the marker exists.       *)
Refuse(c) ==
    /\ At(c, "preflight")
    /\ End(c, "ended")
    /\ UNCHANGED <<ledger, lock, consumed, evidence, authority, owner, now,
                   provider, faults>>

Unconsumed(a) == a \notin consumed

Consume(c) ==
    /\ At(c, "preflight")
    /\ InWindow(c) /\ Unconsumed(AuthOf[c])
    /\ consumed' = consumed \cup {AuthOf[c]}
    /\ Goto(c, "acquire")
    /\ UNCHANGED <<ledger, lock, evidence, authority, owner, now, provider,
                   local, faults>>

ConsumeFails(c) ==
    /\ At(c, "preflight")
    /\ InWindow(c) /\ Unconsumed(AuthOf[c])
    /\ Fault("marker")
    /\ consumed' \in {consumed, consumed \cup {AuthOf[c]}}
    /\ End(c, "ended")
    /\ UNCHANGED <<ledger, lock, evidence, authority, owner, now, provider>>

-----------------------------------------------------------------------------
(* executeStageDOneCycle: admission under the run lock. *)

LockFree == lock = None

Acquire(c) ==
    /\ At(c, "acquire")
    /\ LockFree
    /\ lock' = c
    /\ Goto(c, "admit")
    /\ UNCHANGED <<ledger, consumed, evidence, authority, owner, now, provider,
                   local, faults>>

LockBusy(c) ==
    /\ At(c, "acquire")
    /\ lock # None
    /\ End(c, "ended")
    /\ UNCHANGED <<ledger, lock, consumed, evidence, authority, owner, now,
                   provider, faults>>

(* Mutants: what was sent and never answered is not asked about; a         *)
(* divergence is only looked at when the authorization is validated.       *)
LedgerSettled_AmbiguityIgnored(adj) ==
    IF adj = 0 THEN Divergent(ledger) = {}
    ELSE ValidAdjudication(adjudications[adj], ledger)
LedgerSettled_DivergenceIgnored(adj) ==
    /\ Ambiguous(ledger) = {}
    /\ ~Unreconciled(ledger)

(* Every earlier event leaves the account settled. *)
LedgerSettled(adj) ==
    /\ Ambiguous(ledger) = {}
    /\ \A e \in OfType(ledger, {"started"}) : e.at < PeriodEnd
    /\ ~Unreconciled(ledger)
    /\ IF adj = 0 THEN Divergent(ledger) = {}
       ELSE ValidAdjudication(adjudications[adj], ledger)

(* Mutant: the request about to be made is not counted. *)
WithinLimits_OffByOne(adj) ==
    Usage(ledger, adj) <= SpendLimit /\ UnitsOn(ledger, now) <= DailyCap

WithinLimits(adj) ==
    /\ Usage(ledger, adj) + 1 <= SpendLimit
    /\ UnitsOn(ledger, now) + 1 <= DailyCap

FreshRun(c) == \A e \in ToSet(ledger) : e.run # run(c)

Admissible(c) ==
    /\ bound[c].head = Len(authority)
    /\ FreshRun(c)
    /\ now < PeriodEnd
    /\ LedgerSettled(bound[c].adj)
    /\ WithinLimits(bound[c].adj)

Admit(c) ==
    /\ At(c, "admit")
    /\ Admissible(c)
    /\ base' = [base EXCEPT ![c] = Len(ledger)]
    /\ Goto(c, "intent")
    /\ UNCHANGED <<ledger, lock, consumed, evidence, authority, owner, now,
                   provider, bound, head, reply, class, faults>>

Deny(c) ==
    /\ At(c, "admit")
    /\ ~Admissible(c)
    /\ Goto(c, "release")
    /\ UNCHANGED <<ledger, lock, consumed, evidence, authority, owner, now,
                   provider, local, faults>>

(* The lock generation, the authority root or the ledger cannot be read;   *)
(* an authority that opens but does not verify only ends the cycle.        *)
AdmitFails(c) ==
    /\ At(c, "admit")
    /\ Fault("read")
    /\ Stop(c) \/ (Goto(c, "release") /\ UNCHANGED local)
    /\ UNCHANGED <<ledger, lock, consumed, evidence, authority, owner, now,
                   provider>>

-----------------------------------------------------------------------------
(* Appending to the ledger.  An error leaves open whether the event is in  *)
(* the ledger; the cycle then stops for reconciliation.                    *)

Record(c, e, next) ==
    \/ /\ ledger' = Append(ledger, e)
       /\ Goto(c, next)
       /\ UNCHANGED <<local, faults>>
    \/ /\ Fault("ledger")
       /\ ledger' \in {ledger, Append(ledger, e)}
       /\ Stop(c)

OnlyLedger == UNCHANGED <<lock, consumed, evidence, authority, owner, now,
                          provider>>

FreshRequest(c) == request(c) \notin RequestsIn(ToSet(ledger))

Intend(c) ==
    /\ At(c, "intent")
    /\ FreshRequest(c)
    /\ Record(c, EventOf(c, "intent"), "check")
    /\ OnlyLedger

IntentRejected(c) ==
    /\ At(c, "intent")
    /\ ~FreshRequest(c)
    /\ Stop(c)
    /\ UNCHANGED faults
    /\ UNCHANGED ledger /\ OnlyLedger

(* Credential and window checks just before the transmission boundary.     *)
Check(c) ==
    /\ At(c, "check")
    /\ InWindow(c)
    /\ Goto(c, "mark")
    /\ UNCHANGED <<ledger, local, faults>> /\ OnlyLedger

(* The credential is missing or the authorization has expired.             *)
Cancel(c) ==
    /\ At(c, "check")
    /\ ~InWindow(c) \/ "credential" \in Faults
    /\ Record(c, EventOf(c, "cancelled"), "release")
    /\ OnlyLedger

StartEvent(c) == [EventOf(c, "started") EXCEPT !.at = now]

(* Mutant: the provider is called although the append failed. *)
Mark_SendAnyway(c) ==
    /\ At(c, "mark")
    /\ ledger' \in {ledger, Append(ledger, StartEvent(c))}
    /\ Goto(c, "send")
    /\ UNCHANGED <<local, faults>>
    /\ OnlyLedger

Mark(c) ==
    /\ At(c, "mark")
    /\ Record(c, StartEvent(c), "send")
    /\ OnlyLedger

-----------------------------------------------------------------------------
(* transport.send.  The provider may charge a call whose answer is lost or *)
(* an error; a successful answer is charged and tells the balance, or      *)
(* lacks the header.                                                       *)

Answers(c, cost) ==
    {[kind |-> k, payload |-> None, quota |-> 0] : k \in {"transport", "http"}}
    \cup {[kind |-> "ok", payload |-> p, quota |-> q] :
              p \in (IF cost = 1 THEN Payload ELSE {}), q \in {0, used + cost}}

Answer(c, r) == reply' = [reply EXCEPT ![c] = r] /\ Goto(c, "answer")

Send(c) ==
    /\ At(c, "send")
    /\ InWindow(c)
    /\ sent' = Append(sent, c)
    /\ \E cost \in 0..1 :
         /\ used + cost <= PlanLimit
         /\ used' = used + cost
         /\ \E r \in Answers(c, cost) :
              /\ Answer(c, r)
              /\ delivered' = IF r.kind = "ok"
                              THEN delivered \cup {<<request(c), r.payload>>}
                              ELSE delivered
    /\ UNCHANGED <<ledger, lock, consumed, evidence, authority, owner, now,
                   bound, base, head, class, faults>>

(* The transport checks the window again and refuses: nothing is sent.     *)
SendRefused(c) ==
    /\ At(c, "send")
    /\ ~InWindow(c)
    /\ Answer(c, [NoReply EXCEPT !.kind = "transport"])
    /\ UNCHANGED <<ledger, lock, consumed, evidence, authority, owner, now,
                   provider, bound, base, head, class, faults>>

(* A transport or HTTP failure is terminal; the diagnostic that follows    *)
(* changes nothing else, whether it can be written or not.                 *)
TransmissionFailed(c) ==
    /\ At(c, "answer")
    /\ reply[c].kind \in {"transport", "http"}
    /\ Record(c, EventOf(c, reply[c].kind), "release")
    /\ OnlyLedger

-----------------------------------------------------------------------------
(* A successful response: RAW, quota, receipt, ledger, in this order. *)

PersistRaw(c) ==
    /\ At(c, "answer")
    /\ reply[c].kind = "ok"
    /\ raw' = raw \cup {reply[c].payload}
    /\ Goto(c, "reconcile")
    /\ UNCHANGED <<ledger, lock, consumed, receipts, authority, owner, now,
                   provider, local, faults>>

Failed(c, k) == class' = [class EXCEPT ![c] = k] /\ Goto(c, "post")

PersistRawFails(c) ==
    /\ At(c, "answer")
    /\ reply[c].kind = "ok"
    /\ Fault("raw")
    /\ raw' \in {raw, raw \cup {reply[c].payload}}
    /\ Failed(c, "raw")
    /\ UNCHANGED <<ledger, lock, consumed, receipts, authority, owner, now,
                   provider, bound, base, head, reply>>

(* Mutant: the request just made is not counted. *)
Reconciles_WithoutThisRequest(balance, L) ==
    /\ balance # 0
    /\ balance >= Units(L)

(* reconcileProviderQuotaHeaders against the ledger the budget was decided *)
(* on; the balance must continue the last reconciled one.                  *)
Reconciles(balance, L) ==
    /\ balance # 0
    /\ balance >= Units(L) + 1
    /\ PlanLimit - balance >= SpendLimit - (Units(L) + 1)
    /\ LatestBalance(L) # 0 => balance = LatestBalance(L) + 1

Admitted(c) == SubSeq(ledger, 1, base[c])

Reconcile(c) ==
    /\ At(c, "reconcile")
    /\ Reconciles(reply[c].quota, Admitted(c))
    /\ Goto(c, "receipt")
    /\ UNCHANGED <<ledger, lock, consumed, evidence, authority, owner, now,
                   provider, local, faults>>

Diverge(c) ==
    /\ At(c, "reconcile")
    /\ ~Reconciles(reply[c].quota, Admitted(c))
    /\ Failed(c, "quota")
    /\ UNCHANGED <<ledger, lock, consumed, evidence, authority, owner, now,
                   provider, bound, base, head, reply, faults>>

PersistReceipt(c) ==
    /\ At(c, "receipt")
    /\ receipts' = receipts \cup {<<request(c), reply[c].payload>>}
    /\ Goto(c, "received")
    /\ UNCHANGED <<ledger, lock, consumed, raw, authority, owner, now,
                   provider, local, faults>>

PersistReceiptFails(c) ==
    /\ At(c, "receipt")
    /\ Fault("receipt")
    /\ receipts' \in {receipts,
                      receipts \cup {<<request(c), reply[c].payload>>}}
    /\ Failed(c, "receipt")
    /\ UNCHANGED <<ledger, lock, consumed, raw, authority, owner, now,
                   provider, bound, base, head, reply>>

(* Only a receipt failure comes after the balance was reconciled. *)
PostEvent(c) ==
    [EventOf(c, "post") EXCEPT
        !.class = class[c],
        !.quota = IF class[c] = "receipt" THEN reply[c].quota ELSE 0]

PostFailed(c) ==
    /\ At(c, "post")
    /\ Record(c, PostEvent(c), "release")
    /\ OnlyLedger

Receive(c) ==
    /\ At(c, "received")
    /\ Record(c, [EventOf(c, "received") EXCEPT !.quota = reply[c].quota],
              "reopen")
    /\ OnlyLedger

-----------------------------------------------------------------------------
(* Publication.  The publisher is what AtomicPublisher promises: it adds a *)
(* transaction to the head the candidate was built on, or fails, and an    *)
(* error may come after the transaction was committed.                     *)

Bodies == {t.payload : t \in ToSet(authority)}

(* Mutant: the capture is classified on an authority read earlier. *)
NotYetPublished_Any(p) == TRUE
NotYetPublished(p) == p \notin Bodies

Reopen(c) ==
    /\ At(c, "reopen")
    /\ NotYetPublished(reply[c].payload)
    /\ head' = [head EXCEPT ![c] = Len(authority)]
    /\ Goto(c, "publish")
    /\ UNCHANGED <<ledger, lock, consumed, evidence, authority, owner, now,
                   provider, bound, base, reply, class, faults>>

Duplicate(c) ==
    /\ At(c, "reopen")
    /\ ~NotYetPublished(reply[c].payload)
    /\ Goto(c, "release")
    /\ UNCHANGED <<ledger, lock, consumed, evidence, authority, owner, now,
                   provider, local, faults>>

ReopenFails(c) ==
    /\ At(c, "reopen")
    /\ Fault("read")
    /\ Stop(c)
    /\ UNCHANGED <<ledger, lock, consumed, evidence, authority, owner, now,
                   provider>>

BuildFails(c) ==
    /\ At(c, "publish")
    /\ Fault("build")
    /\ Goto(c, "release")
    /\ UNCHANGED <<ledger, lock, consumed, evidence, authority, owner, now,
                   provider, local>>

Transaction(c) == [payload |-> reply[c].payload, request |-> request(c)]
Extended(c) == Append(authority, Transaction(c))

Publish(c) ==
    /\ At(c, "publish")
    /\ head[c] = Len(authority)
    /\ authority' = Extended(c)
    /\ Goto(c, "release")
    /\ UNCHANGED <<ledger, lock, consumed, evidence, owner, now, provider,
                   local, faults>>

PublishFails(c) ==
    /\ At(c, "publish")
    /\ \/ /\ head[c] # Len(authority)
          /\ UNCHANGED <<authority, faults>>
       \/ /\ head[c] = Len(authority)
          /\ Fault("publish")
          /\ authority' \in {authority, Extended(c)}
    /\ Stop(c)
    /\ UNCHANGED <<ledger, lock, consumed, evidence, owner, now, provider>>

Release(c) ==
    /\ At(c, "release")
    /\ lock' = None
    /\ End(c, "ended")
    /\ UNCHANGED <<ledger, consumed, evidence, authority, owner, now, provider,
                   faults>>

ReleaseFails(c) ==
    /\ At(c, "release")
    /\ Fault("release")
    /\ Stop(c)
    /\ UNCHANGED <<ledger, lock, consumed, evidence, authority, owner, now,
                   provider>>

Crash(c) ==
    /\ pc[c] \notin {"idle", "ended", "stopped"}
    /\ Fault("crash")
    /\ End(c, IF lock = c THEN "stopped" ELSE "ended")
    /\ UNCHANGED <<ledger, lock, consumed, evidence, authority, owner, now,
                   provider>>

-----------------------------------------------------------------------------
(* The owner, the operator, the clock and other publishers. *)

(* Mutant: a successor may be refreshed like the first adjudication.       *)
Refreshable_Always == TRUE
Refreshable == Len(adjudications) < 2

(* createStageDQuotaAdjudication, or its successor after a source change.  *)
Draft ==
    /\ draft = NoDraft
    /\ now < PeriodEnd
    /\ Len(adjudications) = 1 =>
          /\ Covers(adjudications[1], ledger)
          /\ adjudications[1].source # source
    /\ Refreshable
    /\ \E q \in Request :
         LET usage == Larger(Usage(ledger, Len(adjudications)),
                             LatestBalance(ledger)) IN
         /\ Divergent(ledger) = {q}
         /\ usage <= SpendLimit
         /\ draft' = [version |-> Len(adjudications) + 1,
                      entries |-> Len(ledger), request |-> q,
                      usage |-> usage, source |-> source]
    /\ UNCHANGED <<ledger, lock, consumed, evidence, authority,
                   adjudications, source, now, provider, pc, local, faults>>

(* persistStageDQuotaAdjudication: the ledger is not read again. *)
PersistDraft ==
    /\ draft # NoDraft
    /\ draft.version = Len(adjudications) + 1
    /\ adjudications' = Append(adjudications, draft)
    /\ draft' = NoDraft
    /\ UNCHANGED <<ledger, lock, consumed, evidence, authority, source,
                   now, provider, pc, local, faults>>

(* What the bound counts: other publications, and changes of the source.    *)
Others == {i \in DOMAIN authority : authority[i].request = None}
Outside == source + Cardinality(Others)

(* (Before an adjudication records a version, a change would not be seen.) *)
ChangeSource ==
    /\ Outside < MaxOutside
    /\ draft # NoDraft \/ adjudications # <<>>
    /\ source' = source + 1
    /\ UNCHANGED <<ledger, lock, consumed, evidence, authority,
                   adjudications, draft, now, provider, pc, local, faults>>

(* The operator reconciles a stopped cycle and removes its lock. *)
Clear ==
    /\ lock # None /\ pc[lock] = "stopped"
    /\ lock' = None
    /\ Goto(lock, "ended")
    /\ UNCHANGED <<ledger, consumed, evidence, authority, owner, now, provider,
                   local, faults>>

Tick ==
    /\ now < MaxTime
    /\ now' = now + 1
    /\ UNCHANGED <<ledger, lock, consumed, evidence, authority, owner,
                   provider, pc, local, faults>>

(* The offline pipeline publishes with the same publisher.  *)
OtherPublish ==
    /\ Outside < MaxOutside
    /\ \E p \in Payload \ Bodies :
         authority' = Append(authority, [payload |-> p, request |-> None])
    /\ UNCHANGED <<ledger, lock, consumed, evidence, owner, now, provider, pc,
                   local, faults>>

-----------------------------------------------------------------------------
Next ==
    \/ \E c \in Cycle :
          \/ Start(c) \/ Refuse(c) \/ Consume(c) \/ ConsumeFails(c)
          \/ Acquire(c) \/ LockBusy(c)
          \/ Admit(c) \/ Deny(c) \/ AdmitFails(c)
          \/ Intend(c) \/ IntentRejected(c)
          \/ Check(c) \/ Cancel(c) \/ Mark(c)
          \/ Send(c) \/ SendRefused(c) \/ TransmissionFailed(c)
          \/ PersistRaw(c) \/ PersistRawFails(c)
          \/ Reconcile(c) \/ Diverge(c)
          \/ PersistReceipt(c) \/ PersistReceiptFails(c)
          \/ PostFailed(c) \/ Receive(c)
          \/ Reopen(c) \/ Duplicate(c) \/ ReopenFails(c)
          \/ BuildFails(c) \/ Publish(c) \/ PublishFails(c)
          \/ Release(c) \/ ReleaseFails(c) \/ Crash(c)
    \/ Draft \/ PersistDraft \/ ChangeSource
    \/ Clear \/ Tick \/ OtherPublish

Spec == Init /\ [][Next]_vars

-----------------------------------------------------------------------------
(* Every variable stays in its type. *)
TypeOK ==
    /\ ledger \in Seq(Event)
    /\ lock \in Cycle \cup {None}
    /\ consumed \subseteq Authorization
    /\ raw \subseteq Payload
    /\ receipts \subseteq Request \X Payload
    /\ authority \in Seq([payload: Payload, request: Request \cup {None}])
    /\ adjudications \in Seq(Adjudication)
    /\ draft \in Adjudication
    /\ source \in Nat /\ now \in Nat
    /\ used \in 0..Larger(PlanLimit, InitialUsed)
    /\ pc \in [Cycle -> Labels]
    /\ bound \in [Cycle -> [head: Nat, adj: 0..2, from: Nat]]
    /\ base \in [Cycle -> Nat]
    /\ head \in [Cycle -> Nat]
    /\ reply \in [Cycle -> [kind: {"none", "ok", "http", "transport"},
                            payload: Payload \cup {None}, quota: Nat]]
    /\ class \in [Cycle -> Class]
    /\ sent \in Seq(Cycle)
    /\ delivered \subseteq Request \X Payload
    /\ faults \in 0..MaxFaults

(* "Usage is never decremented; network ambiguity after the durable        *)
(* transmission boundary remains consumed": the ledger counts every call   *)
(* that reached the provider and everything it charged for them, whatever  *)
(* failed or crashed since.                                                *)
SpendAccounted ==
    /\ \A i \in DOMAIN sent : request(sent[i]) \in Consumed(ledger)
    /\ used <= InitialUsed + Units(ledger)

(* No retry: two calls of the provider differ in authorization, run and    *)
(* request.                                                                *)
OneTransmission ==
    \A i, j \in DOMAIN sent : i # j =>
       /\ AuthOf[sent[i]] # AuthOf[sent[j]]
       /\ run(sent[i]) # run(sent[j])
       /\ request(sent[i]) # request(sent[j])

(* The automated spend limit and the daily cap hold for what is consumed,  *)
(* although both are checked well before the transmission is recorded.     *)
WithinBudget ==
    /\ Units(ledger) <= SpendLimit
    /\ \A e \in OfType(ledger, {"started"}) : UnitsOn(ledger, e.at) <= DailyCap

(* A possible transmission that is not settled blocks every later request: *)
(* only its own terminal event follows it in the ledger.                   *)
AmbiguityBlocks ==
    \A i \in DOMAIN ledger : ledger[i].type = "started" =>
       \/ i = Len(ledger)
       \/ /\ ledger[i+1].type \in Terminal
          /\ ledger[i+1].request = ledger[i].request

(* Nothing is transmitted twice, nor on an account that is not settled.    *)
NoRetry == OneTransmission /\ AmbiguityBlocks

(* The ledger before the latest transmission and its intent. *)
Before(L) == SubSeq(L, 1, Len(L) - 2)

(* The provider is called after a divergence only if an adjudication       *)
(* covers exactly the ledger of that moment, within its own usage bound.   *)
DivergenceIsAdjudicated ==
    [][sent' # sent /\ Divergent(ledger) # {} =>
          \E i \in DOMAIN adjudications :
             LET d == adjudications[i] IN
             /\ d.entries = Len(Before(ledger))
             /\ Divergent(Before(ledger)) = {d.request}
             /\ d.usage + 1 <= SpendLimit]_vars

(* The ledger never tells of evidence that is not on disk: a received      *)
(* response has its RAW and its receipt, a response that failed later has  *)
(* the RAW of what the provider delivered.                                 *)
EvidenceFirst ==
    \A e \in ToSet(ledger) :
       /\ e.type = "received" =>
             \E p \in raw : <<e.request, p>> \in receipts \cap delivered
       /\ e.class \in {"quota", "receipt"} =>
             \E p \in raw : <<e.request, p>> \in delivered

(* A cycle publishes only what the provider delivered to it, with RAW and  *)
(* receipt on disk and the request settled with a reconciled balance; and  *)
(* no body is published twice, by cycles or by other publishers.           *)
PublishedIsSettled ==
    /\ \A t \in ToSet(authority) : t.request # None =>
          /\ t.payload \in raw
          /\ <<t.request, t.payload>> \in receipts \cap delivered
          /\ \E e \in OfType(ledger, {"received"}) :
                e.request = t.request /\ e.quota # 0
    /\ \A i, j \in DOMAIN authority :
          authority[i].payload = authority[j].payload => i = j

(* RAW, receipt, ledger and authority: none tells of what an earlier one   *)
(* of them does not hold.                                                  *)
RecordsInOrder == EvidenceFirst /\ PublishedIsSettled

(* A reconciled balance covers everything consumed up to then, and leaves  *)
(* the provider able to serve the rest of the automated spend limit.       *)
BalanceCovers ==
    \A i \in Balances(ledger) :
       LET L == SubSeq(ledger, 1, i) IN
       /\ ledger[i].quota >= Units(L)
       /\ PlanLimit - ledger[i].quota >= SpendLimit - Units(L)
=============================================================================

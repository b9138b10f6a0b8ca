--------------------------- MODULE GovernedLedgers ---------------------------
(***************************************************************************)
(* The two file ledgers of canonical evidence.  Identity decisions         *)
(* (fixture_universe/IdentityDecisionLedger.js) say which fixture a        *)
(* provider's event is; observations (market_evidence/evidenceStore.js)    *)
(* are prices recorded under an active decision.  Each ledger is a         *)
(* read-only file of rows beside a manifest with its hash.  An append      *)
(* makes the file writable, appends, rewrites the manifest in place and    *)
(* makes both read-only again.  No lock excludes a second process, and     *)
(* nothing is undone by an error or a death on the way.                    *)
(*                                                                         *)
(* A hash is what it is a hash of.  The identity of a decision hashes the  *)
(* decision it supersedes, so it stands for its lineage: the captures of   *)
(* the decisions before it, and its own.                                   *)
(***************************************************************************)
EXTENDS Naturals, Sequences, FiniteSets, Functions

CONSTANTS
    Process,
    Event,        \* provider event ids
    Capture,      \* payloads, each with the time at which it is resolved
    Payload,      \* Payload[c]: the events in c, in order
    Fixture,
    NoFixture,    \* the resolver finds none, and quarantines the event
    Match,        \* Match[c][e]: what the resolver finds for e in c
    MaxRows,      \* bound: no resolution starts with more decisions than this
    MaxTroubles   \* bound: process deaths and failing writes

ASSUME PayloadAssumption ==
    /\ Capture # {}
    /\ Payload \in [Capture -> Seq(Event) \ {<<>>}]

ASSUME MatchAssumption == Match \in [Capture -> [Event -> Fixture \cup {NoFixture}]]

ASSUME BoundAssumption == {MaxRows, MaxTroubles} \subseteq Nat

VARIABLES
    file,      \* the rows of each ledger, and the state of its file
    manifest,  \* the rows each manifest describes, and the state of its file
    call,      \* where each process is, and the locals of its call
    acked,     \* history: the rows whose append returned
    spoiled,   \* history: ledgers on which a writer died, failed, was denied its
               \* manifest, or appended after another one had
    since,     \* history: how many decisions the file held when the append of
               \* each observation began
    troubles

vars == <<file, manifest, call, acked, spoiled, since, troubles>>

Ledger == {"decisions", "observations"}

Decision    == [event : Event, lineage : Seq(Capture)]
Observation == [capture : Capture, decision : Decision, registry : Seq(Decision)]

NoFile     == [exists |-> FALSE, rows |-> <<>>, torn |-> FALSE, readonly |-> FALSE]
NoManifest == [exists |-> FALSE, rows |-> <<>>, whole |-> FALSE, readonly |-> FALSE]

Idle == [pc |-> "idle", ledger |-> "decisions", capture |-> CHOOSE c \in Capture : TRUE,
         registry |-> <<>>, todo |-> <<>>, base |-> <<>>, known |-> <<>>,
         fresh |-> FALSE, failed |-> FALSE, began |-> 0]

-----------------------------------------------------------------------------
(* projectDecisionState                                                    *)

Last(s) == s[Len(s)]

Outcome(d) == Match[Last(d.lineage)][d.event]

(* Where the latest decision about e is among the first n rows, if any.    *)
Latest(rows, n, e) ==
    {i \in 1 .. n : rows[i].event = e /\ \A j \in i + 1 .. n : rows[j].event # e}

(* Its lineage, empty when there is none.                                  *)
Lineage(rows, n, e) ==
    IF Latest(rows, n, e) = {} THEN <<>>
    ELSE rows[CHOOSE i \in Latest(rows, n, e) : TRUE].lineage

(* The decision d supersedes the latest one, or is the first.              *)
Supersedes(d, rows, n) ==
    /\ d.lineage # <<>>
    /\ SubSeq(d.lineage, 1, Len(d.lineage) - 1) = Lineage(rows, n, d.event)

Chain(rows, n) == \A i \in 1 .. n : Supersedes(rows[i], rows, i - 1)

(* assertActiveMatched                                                     *)
Active(d, rows, n) ==
    /\ Chain(rows, n)
    /\ d.lineage # <<>> /\ d.lineage = Lineage(rows, n, d.event)
    /\ Outcome(d) # NoFixture

-----------------------------------------------------------------------------
(* resolveOddsEvents                                                       *)

(* The prior decision says what the capture says.                          *)
Reused(c, d) ==
    IF Match[c][d.event] = NoFixture
    THEN Outcome(d) = NoFixture /\ Last(d.lineage) = c
    ELSE Outcome(d) = Match[c][d.event]

(* Mutant: a decision records what was found in place of where.            *)
Decide_Fixture(c, e, rows) ==
    LET prior == [event |-> e, lineage |-> Lineage(rows, Len(rows), e)] IN
    IF prior.lineage # <<>> /\ Reused(c, prior) THEN prior
    ELSE [event |-> e, lineage |-> Append(prior.lineage, Match[c][e])]

(* The prior decision stands, or a new one supersedes it.                  *)
Decide(c, e, rows) ==
    LET prior == [event |-> e, lineage |-> Lineage(rows, Len(rows), e)] IN
    IF prior.lineage # <<>> /\ Reused(c, prior) THEN prior
    ELSE [event |-> e, lineage |-> Append(prior.lineage, c)]

(* A mapping that would move to another fixture.                           *)
Moves(c, e, rows) ==
    LET prior == [event |-> e, lineage |-> Lineage(rows, Len(rows), e)] IN
    /\ prior.lineage # <<>>
    /\ Outcome(prior) # NoFixture /\ Match[c][e] # NoFixture
    /\ Outcome(prior) # Match[c][e]

-----------------------------------------------------------------------------
(* verify / verifyLedgerIntegrity, in two reads                            *)

Absent(l) == ~file[l].exists /\ ~manifest[l].exists

Opens(l) == file[l].exists /\ file[l].readonly /\ ~file[l].torn

Sealed(l, rows) ==
    /\ manifest[l].exists /\ manifest[l].readonly /\ manifest[l].whole
    /\ manifest[l].rows = rows

(* A reader that is not disturbed accepts the ledger.                      *)
Verifies(l) == Opens(l) /\ Sealed(l, file[l].rows)

Row(p) == Head(call[p].todo)

Kept(p) == [Idle EXCEPT !.capture = call[p].capture, !.registry = call[p].registry]

(* A resolver that throws hands out no registry.                           *)
Throw(p) ==
    call' = [call EXCEPT ![p] = IF @.ledger = "decisions" THEN Idle ELSE Kept(p)]

Entry(l) == IF l = "decisions" THEN "read" ELSE "govern"

Begun(l) == IF l = "decisions" THEN 0 ELSE Len(file["decisions"].rows)

(* One row of the call is appended, or was there; the next one follows.    *)
Return(p) ==
    /\ acked' = [acked EXCEPT ![call[p].ledger] = @ \cup {Row(p)}]
    /\ call' = [call EXCEPT ![p] =
           IF Len(@.todo) = 1 THEN Kept(p)
           ELSE [Kept(p) EXCEPT !.ledger = call[p].ledger, !.todo = Tail(call[p].todo),
                                !.pc = Entry(call[p].ledger),
                                !.began = Begun(call[p].ledger)]]

Goto(p, pc) == call' = [call EXCEPT ![p].pc = pc]

Fails(p, pc) == call' = [call EXCEPT ![p].pc = pc, ![p].failed = TRUE]

-----------------------------------------------------------------------------
Init ==
    /\ file = [l \in Ledger |-> NoFile]
    /\ manifest = [l \in Ledger |-> NoManifest]
    /\ call = [p \in Process |-> Idle]
    /\ acked = [l \in Ledger |-> {}]
    /\ spoiled = {} /\ since = <<>>
    /\ troubles = 0

(* resolveOddsEvents is called with a decision ledger.                     *)
Resolve(p, c) ==
    /\ call[p].pc = "idle"
    /\ Len(file["decisions"].rows) < MaxRows
    /\ call' = [call EXCEPT ![p] = [Idle EXCEPT !.pc = "survey", !.capture = c]]
    /\ UNCHANGED <<file, manifest, acked, spoiled, since, troubles>>

(* replayRaw is called with the registry of the resolution.  The adapter   *)
(* accepts a payload only if each of its events is matched.                *)
Replay(p) ==
    LET registry == call[p].registry IN
    /\ call[p].pc = "idle"
    /\ registry # <<>> /\ \A i \in DOMAIN registry : Outcome(registry[i]) # NoFixture
    /\ call' = [call EXCEPT ![p].pc = "adapt", ![p].ledger = "observations",
           ![p].todo = [i \in DOMAIN registry |->
               [capture |-> call[p].capture, decision |-> registry[i],
                registry |-> registry]]]
    /\ UNCHANGED <<file, manifest, acked, spoiled, since, troubles>>

(* The decision ledger is read: by a resolution, by the adapter, before an *)
(* observation is appended, and a second time while a decision is.         *)
ReadDecisions(p) ==
    LET next == CASE call[p].pc = "survey" -> "plan"
                  [] call[p].pc = "adapt"  -> "adapted"
                  [] call[p].pc = "govern" -> "governed"
                  [] call[p].pc = "reread" -> "reverify" IN
    /\ call[p].pc \in {"survey", "adapt", "govern", "reread"}
    /\ IF Opens("decisions") \/ Absent("decisions")
       THEN call' = [call EXCEPT ![p].pc = next,
                                 ![p].known = file["decisions"].rows,
                                 ![p].fresh = Absent("decisions")]
       ELSE Throw(p)
    /\ UNCHANGED <<file, manifest, acked, spoiled, since, troubles>>

(* What was read of the decisions matches the manifest and is a chain.     *)
Known(p) ==
    /\ call[p].fresh \/ Sealed("decisions", call[p].known)
    /\ Chain(call[p].known, Len(call[p].known))

(* The decisions are made; only then is the first one appended.            *)
Plan(p, authorized) ==
    LET c == call[p].capture
        decisions == [i \in DOMAIN Payload[c] |-> Decide(c, Payload[c][i], call[p].known)] IN
    /\ call[p].pc = "plan"
    /\ IF /\ Known(p)
          /\ \A i \in DOMAIN Payload[c] :
                 Moves(c, Payload[c][i], call[p].known) => Payload[c][i] \in authorized
       THEN call' = [call EXCEPT ![p] = [Idle EXCEPT !.pc = "read", !.capture = c,
                         !.registry = decisions, !.todo = decisions]]
       ELSE Throw(p)
    /\ UNCHANGED <<file, manifest, acked, spoiled, since, troubles>>

(* adaptTheOddsApiRaw: the decision of each event is the active one.       *)
Adapted(p) ==
    /\ call[p].pc = "adapted"
    /\ IF /\ Known(p)
          /\ \A i \in DOMAIN call[p].todo :
                 Active(call[p].todo[i].decision, call[p].known, Len(call[p].known))
       THEN call' = [call EXCEPT ![p].pc = "govern", ![p].known = <<>>, ![p].fresh = FALSE,
                                 ![p].began = Begun("observations")]
       ELSE Throw(p)
    /\ UNCHANGED <<file, manifest, acked, spoiled, since, troubles>>

(* Mutant: the decision is looked up in what was read, without comparing   *)
(* it with the active one.                                                 *)
Governed_IntegrityOnly(p) ==
    /\ call[p].pc = "governed"
    /\ IF Known(p)
       THEN call' = [call EXCEPT ![p].pc = "read", ![p].known = <<>>, ![p].fresh = FALSE]
       ELSE Throw(p)
    /\ UNCHANGED <<file, manifest, acked, spoiled, since, troubles>>

(* appendProjection: the decision of the observation is the active one.    *)
Governed(p) ==
    /\ call[p].pc = "governed"
    /\ IF Known(p) /\ Active(Row(p).decision, call[p].known, Len(call[p].known))
       THEN call' = [call EXCEPT ![p].pc = "read", ![p].known = <<>>, ![p].fresh = FALSE]
       ELSE Throw(p)
    /\ UNCHANGED <<file, manifest, acked, spoiled, since, troubles>>

(* The ledger of the append is verified, in two reads.                     *)
Read(p) ==
    LET l == call[p].ledger IN
    /\ call[p].pc = "read"
    /\ IF Opens(l) \/ Absent(l)
       THEN call' = [call EXCEPT ![p].pc = "verify", ![p].base = file[l].rows,
                                 ![p].fresh = Absent(l)]
       ELSE Throw(p)
    /\ UNCHANGED <<file, manifest, acked, spoiled, since, troubles>>

(* Mutant: the ledger is not compared with its manifest.                   *)
Verify_NoManifest(p) ==
    LET l == call[p].ledger IN
    /\ call[p].pc = "verify"
    /\ IF Row(p) \in Range(call[p].base) THEN Return(p)
       ELSE /\ Goto(p, IF l = "decisions" THEN "reread" ELSE "unlock")
            /\ UNCHANGED acked
    /\ UNCHANGED <<file, manifest, spoiled, since, troubles>>

(* A row that is there already is not appended again.                      *)
Verify(p) ==
    LET l == call[p].ledger IN
    /\ call[p].pc = "verify"
    /\ IF ~(call[p].fresh \/ Sealed(l, call[p].base)) THEN Throw(p) /\ UNCHANGED acked
       ELSE IF Row(p) \in Range(call[p].base) THEN Return(p)
       ELSE /\ Goto(p, IF l = "decisions" THEN "reread" ELSE "unlock")
            /\ UNCHANGED acked
    /\ UNCHANGED <<file, manifest, spoiled, since, troubles>>

(* Mutant: the new decision is not compared with the latest one.           *)
Reverify_AnyDecision(p) ==
    /\ call[p].pc = "reverify"
    /\ IF Known(p) THEN Goto(p, "unlock") ELSE Throw(p)
    /\ UNCHANGED <<file, manifest, acked, spoiled, since, troubles>>

(* decisionState, and the check against the latest decision.               *)
Reverify(p) ==
    /\ call[p].pc = "reverify"
    /\ IF Known(p) /\ Supersedes(Row(p), call[p].known, Len(call[p].known))
       THEN Goto(p, "unlock")
       ELSE Throw(p)
    /\ UNCHANGED <<file, manifest, acked, spoiled, since, troubles>>

-----------------------------------------------------------------------------
(* The writes of append / appendProjection                                 *)

Unlock(p) ==
    LET l == call[p].ledger IN
    /\ call[p].pc = "unlock"
    /\ file' = [file EXCEPT ![l].readonly = FALSE]
    /\ Goto(p, "append")
    /\ UNCHANGED <<manifest, acked, spoiled, since, troubles>>

(* A file that is created is read-only at once.  A privileged process      *)
(* appends to a read-only file as well.                                    *)
AppendRow(p) ==
    LET l == call[p].ledger IN
    /\ call[p].pc = "append"
    /\ file' = [file EXCEPT ![l].exists = TRUE, ![l].rows = Append(@, Row(p)),
                            ![l].readonly = IF file[l].exists THEN @ ELSE TRUE]
    /\ spoiled' = IF file[l].rows = call[p].base THEN spoiled ELSE spoiled \cup {l}
    /\ since' = IF l = "observations" THEN Append(since, call[p].began) ELSE since
    /\ Goto(p, "unseal")
    /\ UNCHANGED <<manifest, acked, troubles>>

(* Another writer has made the file read-only again.                       *)
AppendDenied(p) ==
    LET l == call[p].ledger IN
    /\ call[p].pc = "append"
    /\ file[l].exists /\ file[l].readonly
    /\ Fails(p, "lock")
    /\ UNCHANGED <<file, manifest, acked, spoiled, since, troubles>>

(* The write fails, with or without a part of the row in the file.         *)
AppendFails(p, torn) ==
    LET l == call[p].ledger IN
    /\ call[p].pc = "append"
    /\ troubles < MaxTroubles
    /\ troubles' = troubles + 1
    /\ file' = [file EXCEPT ![l].exists = TRUE, ![l].torn = @ \/ torn,
                            ![l].readonly = IF file[l].exists THEN @ ELSE TRUE]
    /\ spoiled' = spoiled \cup {l}
    /\ Fails(p, "lock")
    /\ UNCHANGED <<manifest, acked, since>>

Unseal(p) ==
    LET l == call[p].ledger IN
    /\ call[p].pc = "unseal"
    /\ manifest' = [manifest EXCEPT ![l].readonly = FALSE]
    /\ Goto(p, "empty")
    /\ UNCHANGED <<file, acked, spoiled, since, troubles>>

(* The manifest is opened for writing, and thereby emptied.                *)
Empty(p) ==
    LET l == call[p].ledger IN
    /\ call[p].pc = "empty"
    /\ manifest' = [manifest EXCEPT ![l] =
           [exists |-> TRUE, rows |-> <<>>, whole |-> FALSE,
            readonly |-> manifest[l].readonly \/ ~manifest[l].exists]]
    /\ Goto(p, "seal")
    /\ UNCHANGED <<file, acked, spoiled, since, troubles>>

(* Another writer has made the manifest read-only again.                   *)
EmptyDenied(p) ==
    LET l == call[p].ledger IN
    /\ call[p].pc = "empty"
    /\ manifest[l].exists /\ manifest[l].readonly
    /\ spoiled' = spoiled \cup {l}
    /\ Fails(p, "reseal")
    /\ UNCHANGED <<file, manifest, acked, since, troubles>>

(* Mutant: the manifest describes the rows before the append.              *)
Seal_Before(p) ==
    LET l == call[p].ledger IN
    /\ call[p].pc = "seal"
    /\ \E whole \in IF manifest[l].rows = <<>> THEN {TRUE} ELSE BOOLEAN :
           manifest' = [manifest EXCEPT ![l].rows = call[p].base, ![l].whole = whole]
    /\ Goto(p, "reseal")
    /\ UNCHANGED <<file, acked, spoiled, since, troubles>>

(* What another writer has written since may stick out of a shorter text.  *)
Seal(p) ==
    LET l == call[p].ledger IN
    /\ call[p].pc = "seal"
    /\ \E whole \in IF manifest[l].rows = <<>> THEN {TRUE} ELSE BOOLEAN :
           manifest' = [manifest EXCEPT ![l].rows = Append(call[p].base, Row(p)),
                                        ![l].whole = whole]
    /\ Goto(p, "reseal")
    /\ UNCHANGED <<file, acked, spoiled, since, troubles>>

SealFails(p) ==
    LET l == call[p].ledger IN
    /\ call[p].pc = "seal"
    /\ troubles < MaxTroubles
    /\ troubles' = troubles + 1
    /\ spoiled' = spoiled \cup {l}
    /\ Fails(p, "reseal")
    /\ UNCHANGED <<file, manifest, acked, since>>

(* finally: the manifest is read-only again.                               *)
Reseal(p) ==
    LET l == call[p].ledger IN
    /\ call[p].pc = "reseal"
    /\ manifest' = [manifest EXCEPT ![l].readonly = manifest[l].exists]
    /\ Goto(p, "lock")
    /\ UNCHANGED <<file, acked, spoiled, since, troubles>>

(* Mutant: an error of the append is lost in finally.                      *)
Lock_Swallow(p) ==
    LET l == call[p].ledger IN
    /\ call[p].pc = "lock"
    /\ file' = [file EXCEPT ![l].readonly = TRUE]
    /\ Return(p)
    /\ UNCHANGED <<manifest, spoiled, since, troubles>>

(* finally: the ledger is read-only again, and the call ends.              *)
Lock(p) ==
    LET l == call[p].ledger IN
    /\ call[p].pc = "lock"
    /\ file' = [file EXCEPT ![l].readonly = TRUE]
    /\ IF call[p].failed THEN Throw(p) /\ UNCHANGED acked ELSE Return(p)
    /\ UNCHANGED <<manifest, spoiled, since, troubles>>

Writing == {"unlock", "append", "unseal", "empty", "seal", "reseal", "lock"}

Crash(p) ==
    /\ troubles < MaxTroubles
    /\ call[p].pc # "idle"
    /\ troubles' = troubles + 1
    /\ call' = [call EXCEPT ![p] = Idle]
    /\ spoiled' = IF call[p].pc \in Writing \ {"unlock"}
                  THEN spoiled \cup {call[p].ledger} ELSE spoiled
    /\ UNCHANGED <<file, manifest, acked, since>>

Next ==
    \E p \in Process :
       \/ \E c \in Capture : Resolve(p, c)
       \/ Replay(p)
       \/ ReadDecisions(p)
       \/ \E authorized \in SUBSET Event : Plan(p, authorized)
       \/ Adapted(p) \/ Governed(p)
       \/ Read(p) \/ Verify(p) \/ Reverify(p)
       \/ Unlock(p) \/ AppendRow(p) \/ AppendDenied(p)
       \/ \E torn \in BOOLEAN : AppendFails(p, torn)
       \/ Unseal(p) \/ Empty(p) \/ EmptyDenied(p)
       \/ Seal(p) \/ SealFails(p)
       \/ Reseal(p) \/ Lock(p)
       \/ Crash(p)

Spec == Init /\ [][Next]_vars

-----------------------------------------------------------------------------
PC == {"idle", "survey", "plan", "adapt", "adapted", "govern", "governed",
       "read", "verify", "reread", "reverify"} \cup Writing

TypeOK ==
    /\ file \in [Ledger -> [exists : BOOLEAN, rows : Seq(Decision \cup Observation),
                            torn : BOOLEAN, readonly : BOOLEAN]]
    /\ manifest \in [Ledger -> [exists : BOOLEAN, rows : Seq(Decision \cup Observation),
                                whole : BOOLEAN, readonly : BOOLEAN]]
    /\ call \in [Process -> [pc : PC, ledger : Ledger, capture : Capture,
                             registry : Seq(Decision), todo : Seq(Decision \cup Observation),
                             base : Seq(Decision \cup Observation),
                             known : Seq(Decision \cup Observation),
                             fresh : BOOLEAN, failed : BOOLEAN, began : Nat]]
    /\ acked \in [Ledger -> SUBSET (Decision \cup Observation)]
    /\ spoiled \subseteq Ledger
    /\ since \in Seq(Nat)
    /\ troubles \in 0 .. MaxTroubles

(* Processes append decisions without excluding each other, and die or     *)
(* fail between any two writes.  Whatever a reader accepts is a chain: the *)
(* first decision about an event, and each later one superseding the       *)
(* latest before it.                                                       *)
VerifiedIsAChain ==
    Verifies("decisions") =>
        Chain(file["decisions"].rows, Len(file["decisions"].rows))

(* Under the same conditions, no observation that a reader accepts is      *)
(* there twice, though each writer looks for it in what it read before.    *)
VerifiedIsOnce ==
    Verifies("observations") =>
        \A i, j \in DOMAIN file["observations"].rows :
            file["observations"].rows[i] = file["observations"].rows[j] => i = j

(* What a reader of either ledger accepts, with no lock between writers.   *)
VerifiedIsSound == VerifiedIsAChain /\ VerifiedIsOnce

(* Every observation in the file, whoever wrote it, names a decision that  *)
(* was the active match of its event at some time after its own append had *)
(* begun: a registry that was resolved long ago does not suffice.          *)
EveryPriceWasGoverned ==
    \A i \in DOMAIN file["observations"].rows :
        \E n \in since[i] .. Len(file["decisions"].rows) :
            Active(file["observations"].rows[i].decision, file["decisions"].rows, n)

(* A ledger that nobody is writing can be read, unless a writer died or    *)
(* failed in the middle of its writes, was denied the manifest by one that *)
(* finished late, or appended after another one had.                       *)
OnlyTroubleCloses ==
    \A l \in Ledger \ spoiled :
        (\A p \in Process : call[p].ledger = l => call[p].pc \notin Writing)
            => Absent(l) \/ Verifies(l)

(* An append returns only when its row is in the ledger, and the row stays *)
(* there, whatever other appends write, fail to write or die in.           *)
AcknowledgedIsKept == \A l \in Ledger : acked[l] \subseteq Range(file[l].rows)

(* A reader does not accept the ledger, and no call goes on from an older  *)
(* state of it.                                                            *)
Shut(l) ==
    /\ ~Absent(l) /\ ~Verifies(l)
    /\ \A p \in Process : call[p].ledger = l =>
           /\ call[p].pc \notin Writing \cup {"reread", "reverify"}
           /\ call[p].pc = "verify" => ~call[p].fresh /\ ~Sealed(l, call[p].base)

(* What a death or a failure closed stays closed: no append repairs or     *)
(* hides it.                                                               *)
ShutStaysShut == [][\A l \in Ledger : Shut(l) => Shut(l)']_vars
=============================================================================

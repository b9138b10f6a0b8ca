# Verification of FootballPrediction's market-evidence pipeline

TLA+ models, model-checking runs and machine-checked proofs for the part of
FootballPrediction that decides what the project may believe about betting
markets and when: the *market evidence* pipeline under
`src/infrastructure/market_evidence` and `src/infrastructure/fixture_universe`,
with its backup, and for the retention of match details under
`src/infrastructure/fotmob`.
(Paths below are relative to the repository; `PROJECT.json` writes them with
one more leading `src/`.)

## 1. The system

The repository holds two generations of software. The older one (harvesters,
browser automation, recon, proxies, the Python prediction service) scrapes and
predicts. The current mainline is the evidence pipeline: it captures odds from
a provider under an audited request budget, resolves provider events to
canonical fixtures, and publishes the result as content-addressed,
append-only transactions that can be replayed *as of* a past moment. Beside it,
a bounded capture of match details from FotMob is retained and staged under the
same discipline. This code
is synchronous, file-based and built around crashes and concurrent processes,
so that is where the modelling starts.

### Components, their state and how they interact

| Component (file) | State it keeps | Operations | Interacts with |
|---|---|---|---|
| Store bootstrap (`transactionStore.js`) | `STORE.json`, `.staging/`, `committed/` | bootstrap, read contract | allocation artifact |
| Prospective builder (`prospectiveBatch.js`, `transactionContract.js`) | none (a candidate in memory) | build, finalize | reads a snapshot, hands a candidate to the publisher |
| Publisher (`atomicPublisher.js`) | `.writer-lock`, `.staging/<tx>`, `committed/<tx>` | acquire, recheck, stage, rename, fsync, verify, resolve, release | other publishers through the lock file and the directory |
| Authority reader (`authorityReader.js`) | none | open a snapshot: list, read, reconstruct, list again | races with the publisher's rename |
| Stage D run lock (`stageDOperations.js`) | four fence files (trust root, ancestor, parent, root), generation anchors | acquire, bind, release, abandon | other runs; the request ledger; replacement of the operation root |
| Stage D cycle (`stageDOperations.js`) | request ledger of one epoch, raw evidence, receipts | intent, preflight, transmit, persist, reconcile quota, publish | run lock, provider, publisher |
| Controlled authorization (`stageDOperations.js`) | consumption record in the trust root | consume once | Stage D cycle |
| Identity governance (`FixtureUniverse.js`, `IdentityDecisionLedger.js`, `ProspectiveGovernanceContext.js`, `identityRegistry.js`) | decision ledger, registry | resolve, supersede, append, verify | builder and reader |
| Evidence store (`evidenceStore.js`) | raw files, projection JSONL and manifest | persist raw, append projection | Stage D cycle, replay |
| As-of view (`asOfView.js`) | none | timeline, latest as of | readers of evidence |
| Backup (`backup/`) | generations of create-only objects, a staging directory, a destination | snapshot, verify, restore | reads the governed files while they change |
| FotMob capture run (`FotMobDetailCapturePipeline.js`, `FotMobDetailCaptureRetention.js`) | run lock, `run-state.json`, payload and manifest of each candidate | lock, take over, fetch, retain, resume | other processes of the same run id; the provider |
| FotMob staging store (`FotMobDetailStagingRetention.js`) | ledger, artifacts, quarantine, summaries, commit markers, store lock | load, classify, commit, roll back, validate | other commits; takes converted captures |

The components share no state but what the table names: the cycle uses the run
lock and the publisher, the publisher the reader; the backup reads the files of
all of them. The modules compose accordingly: a module that uses another
component relies on the property shown of it and says so.

The remaining components (canonical writer, standings, golden dataset, the FotMob
converter, the harvesting stack, the Python services) are listed with the reason
they are left out in `PROJECT.json`.

### What is hard about it

* **Concurrency without a coordinator.** Publishers and runs are separate OS
  processes; all they share is a directory. A candidate is built with no lock
  held and used under one.
* **Errors that say nothing.** `rename`, `fsync` and `unlink` may report an
  error for something that was done; the code distinguishes a definite failure
  from `COMMIT_OUTCOME_UNKNOWN`, and nearly every step has its own answer.
* **Crashes and power loss** between any two file operations, with no recovery
  procedure but "an operator looks at it".
* **Retries** of work that may have been done: same candidate, or a rebuilt one.
* **Time**: a publisher-owned knowledge time that must be strictly increasing
  while the wall clock may stand still or step back.
* **Reading what changes**: a snapshot of many files without a lock.
* **Money**: a request that may have reached the provider must be accounted for
  ever, across crashes, replaced directories and old copies of the ledger.

`PROJECT.json` lists each hazard at the line where it bites.

## 2. Plan

Modules, in the order they are written (the most important behaviour first).
Every module takes its sets and bounds as CONSTANTS with named assumptions, has
one action per operation of the code, and uses no RECURSIVE operator, so that
the same module is model-checked and proved about.

| Module | Composes | Status |
|---|---|---|
| `AtomicPublisher`, `TransactionAuthority` (abstract) | publisher + builder + reader + clock + crashes | done: section 3 |
| `StageDRunLock` | fences + anchors + replaced roots | done: section 4 |
| `StageDOneCycle` | authorization + request ledger + budget + evidence + publication, on top of the lock's promise | done: section 5 |
| `FotMobCaptureRun` | run lock with takeover + run state + budget + retained pairs | done: section 6 |
| `FotMobStagingStore`, `CommittedLedger` (abstract) | store lock + commit + rollback + chain of markers | done: section 7 |
| `SnapshotGeneration`, `IsolatedRestore` | backup of changing files; restore composed with its writers | done: section 8 |
| `GovernedLedgers` | resolution, supersession and replay on the decision and observation ledgers, with concurrent appenders and deaths | done: section 9 |
| `StoreBootstrap` | exclusive bootstrap of `STORE.json` and the allocation artifact | planned |
| `AsOfView` | bitemporal selection against a reference definition | planned |

Further runs: deaths between any two writes of the bootstrap; the selection of
`AsOfView` against its definition over bounded histories. The composition of
`GovernedLedgers` with the publisher's retries would need a batch that is resolved
again under the publisher's lock.

## 3. Publication: `AtomicPublisher`

*Source: `atomicPublisher.js` (whole file), `authorityReader.js` 94-108 and
131-264, `prospectiveBatch.js` 63-211, `transactionContract.js` 84-127,
`offlinePipeline.js` 79-110.*

### State and actions

A transaction id hashes the transaction's content and its parent's id. Without
hash collisions an id therefore stands for a whole history, and the model uses
the history itself: a sequence of entries `[batch, delta, kt]` (the captured
batch, the items it adds, its knowledge time). `committed` is a *set* of such
sequences, so forks, orphans and duplicates are representable, and `Readable`
is what `reconstruct` accepts of such a set. `durable` is how much of the
history the last directory fsync covered; the history variable `unsynced` holds
the transactions whose publisher left the window between rename and fsync
without the fsync (`LeavesUnsynced`), until a later fsync covers them.

| Code | Actions |
|---|---|
| open a snapshot with up to `maxRetries` re-listings, then build | `Begin`, `ReadThrows`, `Reread`, `Build` |
| publish an old candidate again | `Republish` |
| `acquireLock`: exclusive create, 5 s deadline, no cleanup when the write or fsync of the lock fails | `Acquire`, `AcquireTimesOut`, `AcquireSetupFails` |
| reread under the lock, look for the logical batch, check the parent | `RecheckThrows`, `Reuse`, `RejectParent` |
| finalize the knowledge time | `RejectClock`, `Finalize` |
| stage, rename, fsync `committed/`, final reader | `Stage`, `StageFails`, `Rename`, `RenameErrors`, `Sync`, `SyncFails`, `Verify`, `VerifyFails` |
| `resolveAfterRename` | `Resolve`, `ResolveFails` |
| release and answer | `Release`, `ReleaseFails` |
| environment | `Crash`, `PowerLoss`, `OperatorRecovers`, `Tick`, `StepBack` |

A batch is a model value with a logical key, a capture, a source (RAW and
receipt hashes), a set of items and an evidence time; the instance has two
captures that overlap in an item and a third batch that claims the first one's
capture for another payload. A power loss keeps a prefix of the history that
is at least as long as what was synced (ordered metadata journalling); a lock
file and staged packages may or may not survive it.

### Runs

| Run | Instance | Checks |
|---|---|---|
| `publish` | 2 writers, 3 batches, 3 calls, 2 faults of any of the 6 kinds, 1 crash, clock 1..2 | `TypeOK`, `LockMutualExclusion`, `AuthoritySound` (`AuthorityReadable` and `OnePerLogicalBatch`), `TruthfulAnswers` (`SuccessIsPublished` and `HonestFailure`), `ImplementsAuthority` |
| `publish_powerloss` | 2 calls, 1 fault of any of the 6 kinds, 1 crash, 2 power losses, a clock that may start before the store; under `FairSpec` | `LostOnlyIfUnsynced`, `PublishTerminates` |

*Bounds.* Two writers are what a race needs; three calls allow publish, retry
and a conflicting publication between them; two faults allow an error and a
second error while the first is being handled. Two calls are enough for
`publish_powerloss` to publish, die between rename and fsync, be retried, be told
COMMITTED and lose it, and to publish a second batch whose fsync covers the first.

*Limits of what holds.* Two properties hold under conditions that the code does
not enforce, which a change of the named constant in the `.cfg` shows; the third
states its own exception.

* `HonestFailure` holds for any two faults of one call, not for three
  (`MaxFaults = 3` with `"rename"`, `"reader"`, `"release"`): a rename that took
  effect and reported an error, an authority that cannot be read and a release
  that fails. The release error replaces `COMMIT_OUTCOME_UNKNOWN`, because line
  235 asks for `possibleRename`, which was never set.
* COMMITTED is not durable in every case. When the process dies between the
  rename and the directory fsync, or the rename or the fsync reports an error,
  `resolveAfterRename` (or the retry, through `Reuse`) reads the rename from the
  page cache and reports COMMITTED for what was never synced, and a power loss may
  take it away: `acked \subseteq committed` is false in `publish_powerloss`, in
  both ways. No document of the repository promises otherwise (the test
  "post-rename parent fsync error is authoritatively resolved as full committed
  transaction" asks for exactly that answer), so it is not recorded as a finding.
  What is checked and proved is that nothing else is ever lost:
  `LostOnlyIfUnsynced`, with all of these failures on.
* `AuthorityReadable` needs clocks that do not show a time before `STORE.json`
  was created (`ClockFloor >= CreatedAt`). With `ClockFloor = 0` the publisher
  commits a knowledge time that its own reader refuses (authorityReader.js:196),
  as nothing in `prospectiveBatch.js` looks at `authority_created_at`.

*Fairness.* `FairSpec` asks weak fairness of `Proceed(w)` only: a process the
operating system runs keeps running. Calls, recovery by the operator, and
failures are not fair. `Proceed` includes `AcquireTimesOut`, which the deadline
of `acquireLock` justifies: without it (mutant `DeadlinePasses_Never`) a stale
lock blocks a caller for ever.

*Refinement.* `TransactionAuthority` says what the store promises: one history
that only grows by one valid, new transaction at a time (or, with `MayLose`, is
cut back by a power loss), and answers that name a transaction of it.
`ImplementsAuthority` maps the history to the head of `committed`.

### Proofs (`AtomicPublisherProofs`)

For every set of writers, batches and items, every clock range, every subset of
the fault kinds and every bound:

* `TypeCorrect`: `Spec => []TypeOK`.
* `MutualExclusion`: `Spec => []LockMutualExclusion`.
* `OncePerBatch`: `Spec => []OnePerLogicalBatch`.
* `ReadableForever`: if `ClockFloor >= CreatedAt` then `Spec => []AuthorityReadable`.
* `CommittedIsTrue`: `Spec => SuccessIsPublished`, with no further assumption.
* `AuthorityStaysSound`: both of them, `Spec => []AuthoritySound`.
* `ErrorIsHonest`: `Spec => HonestFailure` if `ClockFloor >= CreatedAt` and not
  all of `rename`, `reader` and `release` can fail (or at most two failures
  happen). With all three the code does mislead: the rename was done but
  reported an error, the reader that should resolve it failed, and the failed
  release replaces COMMIT_OUTCOME_UNKNOWN by a plain error because
  `possibleRename` is still false.
* `AnswersAreTrue`: the last two together, `Spec => TruthfulAnswers`.
* `OnlyUnsyncedIsLost`: `Spec => []LostOnlyIfUnsynced`, with no further assumption:
  any faults, any number of deaths and power losses.
* `PublisherImplementsAuthority`: `Spec => ImplementsAuthority` if
  `ClockFloor >= CreatedAt` and `Batch` is finite.

The inductive invariant is `IInv == TypeOK /\ ChainInv /\ LockInv /\ TxInv`.
None of the properties is inductive alone. `ChainInv` says that `committed` is
exactly the set of non-empty prefixes of one history with distinct logical keys;
it survives `Rename` only because the transaction a writer is staging extends
the *current* head and has a new key (`TxInv`), which survives the other
writers' steps only because they are not in the section (`LockInv`: whoever is
in the section is the owner in `lock`). For readability `CandInv` adds that a
candidate whose parent is the head was built from exactly the head's items, and
`ValidInv` that every entry is valid; the clock assumption is used once, in
`FinalizedValid`. The assumptions are the named ones of `AtomicPublisher`
(`BatchAssumption`, `ClockAssumption`, `BoundAssumption`, `LockAssumption`).

`CallInv` adds what a call has established: the transaction it carries is its
candidate on the candidate's parent (`Carries`), the items of that parent are
still published (`Based`), and once it is about to answer COMMITTED the answer is
already true (`Granted`). Reuse is the interesting case: an empty candidate may be
answered by any entry of its key and source, and its items are published only
because its parent's still are. `Placed` follows a caller's own transaction
through rename, fsync and resolution for `ErrorIsHonest`. `DurableInv` says that
everything visible is within the synced length or known to be unsynced (`Covered`),
but for the transaction of a writer that is alive between its rename and its fsync,
which the lock keeps away from every writer that is about to answer; so every
answer names something `Covered`, and `CoveredStays` carries that over every step. The refinement adds
`TimeInv`, which bounds the knowledge times by the clock and the position in the
history, and `HistoryFits`, which bounds the history by the number of batches.

Only model-checked: `PublishTerminates` (liveness is out of the prover's reach).

## 4. Admission of runs: `StageDRunLock`

*Source: `stageDOperations.js` 797-819 (exclusive write), 1155-1275 (generation
anchors, ledger append), 1400-1727 (acquire, release), 3119-3126 (abandon), and
the order in which `executeStageDOneCycle` (3368-3795) calls them.*

### State and actions

`fence` maps every place to the owner of the fence file there. A place is a
generation of the operation root and a level (trust root, ancestor, parent,
root); the trust root has one generation. `path` is the generation the public
path names, `pinned[r]` the one whose descriptors run `r` holds. `held[r]` is
the number of created flags that are set, `half[r]` says that a fence was
unlinked and its directory is not synced yet: between the two, another process
may run. `anchor` is the newest ledger-generation anchor in the trust root.

| Code | Actions |
|---|---|
| pin the descriptors, create four fences from the outside in | `Open`, `Create`, `CreateFails` |
| `EEXIST`: unlink + fsync what was created, then refuse | `Exists`, `UndoUnlink`, `UndoSync`, `UndoFails`, `Refuse` |
| `finally`: best-effort removal | `Cleanup`, `GiveUp` |
| post-create validation; fences stay on error | `Validate`, `ValidateFails` |
| bind the ledger generation, first and last step of a cycle | `Bind`, `BindFails` |
| the cycle | `AppendEvent`, `Finish`, `Abandon` |
| verify everything, unlink + fsync from the inside out | `Verify`, `Unlink`, `Sync`, `ReleaseFails` |
| environment | `Crash`, `Swap` (the root, its parent or its ancestor replaced by an older copy), `Rollback` (an old ledger put back between runs), `Reconcile` (the operator) |

The content of a lock file is its owner; a malformed file refuses the next run
like a valid one, so it is not told apart. `unresolved` and `settled` are
history variables: which admitted runs ended without a clean release, and what
the ledger held at the last clean one.

### Runs

| Run | Instance | Checks |
|---|---|---|
| `run_admission` | 3 runs, 1 swap, 1 rollback, 1 crash, 2 faults of 7 kinds | `TypeOK`, `RunMutualExclusion`, `FailClosed`, `SpentNeverForgotten`, `CleanExit` |
| `run_foreign_fence` | 4 runs, 1 swap, a fence left by a failed creation, an fsync that fails while undoing | `RunMutualExclusion` **fails** |

*Bounds.* Three runs: one that leaves something behind, one that holds, one that
tries. One swap gives two generations, the old one with fences and the new one
without. Events, crashes and rollbacks of one each are enough because what they
are compared with is the anchor of the run before. The two failures left out of
`run_admission` are an fsync that fails *after* the trust fence was unlinked.
While undoing (`"undoSync"`), it is what `run_foreign_fence` shows; three runs
are too few for that, so it has four. While releasing (`"trustSync"`), the run
reports an error that asks for reconciliation (1714-1716) and no fence is left
to enforce it: with `"trustSync"` in `Faults`, `FailClosed` fails. Deadlock is not checked: runs end, and a stale fence stops everybody
until the operator acts, which is the purpose of the code.

### Proofs (`StageDRunLockProofs`)

For every set of runs and every bound: `TypeCorrect` and `CleanExits` with any
faults; `MutualExclusion`, `FailsClosed` and `NeverForgets` under
`NoTrustSyncFailure == Faults \cap {"undoSync", "trustSync"} = {}`, the
assumption shown above to be needed.

`RunMutualExclusion` is not inductive: two runs with all four fences in two
generations would satisfy it and be admitted next. The invariant is `LockInv`:
a run that has created the trust fence and not unlinked it, or that ended
unsettled, owns the *trust* fence. A swap cannot disturb it, as the trust place
does not depend on the generation; `TrustKept` shows that a run which unlinks
the trust fence by name owned it. `PhaseInv` keeps the created flags in step
with the code's position. `CleanInv` says that the fences with a run's name are
those its created flags name, in its pinned generation.

`SpentInv` is what `NeverForgets` rests on. The anchor, once bound, never
changes its root and base, and its entries only grow along the ledger they were
read from; they extend `settled`, because a run on its way out has bound once
more, so that the anchor is the whole ledger of its own generation when the trust
fence goes (`Remembers`: at `verify` the anchor names a generation between the
pinned one and the path, and `Verify` closes that interval). A run begins to
work only past `AnchorAccepts`, and from there on nobody else appends, binds or
restores (`OneEngaged`); a swap takes the path away from what it has pinned.

Nothing of this component is only model-checked.

## 5. One cycle: `StageDOneCycle`

*Source: `stageDOperations.js` 669-775 (authorization), 1015-1326 (ledger
transitions), 1839-1953 (budget), 1971-2288 (adjudication), 2290-2330 (quota),
2607-2654 (evidence), 2891-2978 (transport), 3163-3795 (the two entry points),
`scripts/ops/stage_d_quota_adjudication.js`.*

### State and actions

`ledger` is the sequence of request-ledger entries; an entry keeps what the
decisions read: type, run, request, the time a transmission was recorded, the
classification of a post-response failure and the reconciled balance. `lock`
has at most one holder: that is what `StageDRunLock` establishes, and the two
cases found there in which it may have two are left to it. `bound[c]` is what the authorization of
cycle `c` binds (authority head, adjudication, start of its window), `base[c]`
the ledger its budget was decided on, `head[c]` the authority its candidate was
built on. `used` is the provider's own account; `sent` and `delivered` are
history: who called the provider, and which bodies it returned.

| Code | Actions |
|---|---|
| read and validate everything, prove the proxy, consume the marker | `Start`, `Refuse`, `Consume`, `ConsumeFails` |
| run lock | `Acquire`, `LockBusy`, `Release`, `ReleaseFails` |
| authority, duplicate run, budget | `Admit`, `Deny`, `AdmitFails` |
| intent, credential and window, transmission boundary | `Intend`, `IntentRejected`, `Check`, `Cancel`, `Mark` |
| the call | `Send`, `SendRefused`, `TransmissionFailed` |
| RAW, quota, receipt, terminal record | `PersistRaw`, `Reconcile`, `Diverge`, `PersistReceipt`, `PostFailed`, `Receive` and their failures |
| reopen, duplicates, candidate, publish | `Reopen`, `Duplicate`, `BuildFails`, `Publish`, `PublishFails`, `ReopenFails` |
| owner's tool | `Draft` (reads the ledger without the lock), `PersistDraft` |
| environment | `Crash`, `Clear` (the operator), `ChangeSource`, `Tick`, `OtherPublish` |

An error of an append leaves open whether the entry is in the ledger (`Record`);
so do errors of the marker, RAW, receipt and publication. A call may be charged
although its answer is lost. Publication is what `AtomicPublisher` promises: it
extends the head the candidate was built on or fails, and may fail after the
transaction was committed.

*Simplifications.* One accounting period and one unit per request, as the
governed configuration prescribes. The clock does not step back, so the guard
"transmission cannot precede request intent" never bites and the latest balance
is the last one in the ledger. The failure diagnostics written after a terminal
record change nothing else. `max_requests_per_day` is null in the production
configuration; the model gives it a value because the code enforces one.

### Runs

| Run | Instance | Checks |
|---|---|---|
| `cycle` | 3 invocations; 2 share a request, 2 share a run; any one failure of ten kinds or a crash, 2 days and the time after the period, 1 publication by others or 1 source change | the invariants below and `DivergenceIsAdjudicated` |

* `SpendAccounted`: every call is a consumed request of the ledger, and the
  provider never charged more than the ledger admits.
* `NoRetry`: two calls never share a run, a request or an authorization
  (`OneTransmission`), and after a transmission the ledger's next entry is its own
  terminal record, whatever crashed and whoever cleared the lock (`AmbiguityBlocks`).
* `WithinBudget`: spend limit and daily cap hold for what is consumed, although
  they are checked several steps, and perhaps a day, before.
* `DivergenceIsAdjudicated`: a call after a divergence is covered by an
  adjudication of exactly the ledger it was admitted on.
* `RecordsInOrder` (`EvidenceFirst` and `PublishedIsSettled`): the ledger and the authority never tell
  of evidence that is not on disk, of a body the provider did not deliver to
  that request, or of the same body twice.
* `BalanceCovers`: a reconciled balance is at least what is consumed and leaves
  the rest of the spend limit available.

*Bounds.* Two calls are enough for every property that compares two (the third
invocation reuses their run or request); one failure, because each property is
about what a single lost or half-done step leaves behind for the next cycle. Two
calls reach the daily cap of one; the spend limit of two is reached but not
pressed, which is why `WithinBudget` is also proved. Cycles end for good, so
deadlock is not checked.

*Observations.* The expiry of the quota configuration is checked when the budget
is decided (1816, 1899) and not again: after the intent only the credential and
the authorization's window are checked (3510, 3527). When the period ends in
between, the provider is called under an expired configuration, although the
contract says that one "fails closed before an intent can become a
transmission", and every later budget of the epoch is refused because of that
entry (1856-1860). A RAW persistence failure leaves a consumed request without a
reconciled quota, which no adjudication covers (1867), and after a second
divergence none can be made (2320): a new epoch is the owner's way out. A
response recorded and not published by its cycle is not published later. The
one-shot marker is written before the lock is asked for: a lock conflict or a
denied budget costs the authorization. These are the code's choices to fail
closed; no property is stated about them.

### Proofs (`StageDOneCycleProofs`)

For every set of cycles and authorizations (with any sharing of runs and
requests), every limit and any failures: `TypeCorrect`, `BudgetHolds`,
`SpendIsAccounted`, `NeverRetried`, `AmbiguityStops`, `EvidenceComesFirst`,
`PublicationIsSettled`, `BalancesCover` and the action property
`DivergenceNeedsAdjudication`: every property of the run `cycle`. The assumptions are the
three named ones of the module; that the lock has one holder is part of the
model (`Acquire`), established by `StageDRunLock` with the exception found there.

None of the properties is inductive: each speaks of what has happened and is
kept by what a cycle knows at its point of the code. `CycleInv` adds:

* `LockInv`: whoever is past `Acquire` and not ended, stopped cycles included,
  holds the lock, so at most one cycle is there (`Alone`);
* `OrderInv`: between admission and the transmission boundary the last ledger
  event is not an open transmission; after it, it is the cycle's own; a request
  whose intent is recorded is neither consumed nor settled before its boundary;
* `BudgetInv`: between admission and the boundary there is room for one more
  unit in the limit and on the current day; no transmission is dated in the
  future, so a day that begins meanwhile is empty;
* `SpendInv`: at the call the ledger is one unit ahead of the provider;
* `SendInv`: a run that called the provider is in the ledger, and an admitted
  run is not one of them.

A step is first reduced to one of nine kinds, seen by the ledger, the lock, the
clock and the provider (`Moves`: every action is one of them); the invariants
are then shown for each kind. The types are shown action by action, with
`LedgerInv` (consumption is finite, a ledger with balances has a latest one),
which the computed usage of an adjudication needs.

A second invariant, `KnowledgeInv`, stands beside `CycleInv` and is shown action
by action:

* `EvidenceInv`: `Vouched` says, for each point after the answer, what is already
  on disk, delivered and in the ledger for the body the cycle holds, and, once a
  candidate is built on the current head, that the body is not published yet.
  Evidence is only added to (`Grown`), so no other step takes it back; what a
  step appends to the ledger or to the authority is `Attested` or `Backed`;
* `DecisionInv`: `Decided` says how far the ledger has moved on from the prefix
  the budget was decided on: not at all, by the intent, by the intent and the
  transmission. No other cycle can append meanwhile (`Alone`), and appending an
  event that tells of no divergence leaves the divergent requests alone, so the
  adjudication checked at admission covers exactly `Before(ledger)` at the call,
  and the balance compared with the admitted prefix plus one covers the ledger it
  enters.

`TypeCorrect` is used throughout. Nothing of this component is only
model-checked.



## 6. A capture run: `FotMobCaptureRun`

*Source: `FotMobDetailCapturePipeline.js` 284-390 (the budgeted fetch),
1118-1348 (the run lock), 1429-1497 and 1575-1687 (resume), 1700-2191 (the
candidate loop); `FotMobDetailCaptureRetention.js` 134-235 (pairs), 241-403
(`run-state.json`).*

### State and actions

Operating-system processes work on one run id. `lock` is the token in the lock
directory, `trash[p]` the token in the directory `p` has moved aside: a lock is
taken over and released by renaming *whatever lies there* to a private name,
reading its token and putting it back when it is not the expected one. `runState`
is `run-state.json`, `pairs` what is kept of each capture, `job[p]` the local
variables of `executeCaptureRunLocked`, `fetches` the history of requests that
went out. A slot of `Proc` that is started again is a new process: tokens carry
the start ticks.

| Code | Actions |
|---|---|
| `acquireRunLock` | `Start`, `Publish`, `Judge`, `Grab`, `SettleGrab`, `CheckOwned` |
| `releaseRunLock` | `Release`, `SettleRelease` |
| `writeRunStateLocked` | `Verify`, `Write`, `WriteFails`; `job[p].next` says where the caller goes on |
| resume | `ReadRunState`, `Seed` |
| candidate loop | `AdoptPair`, `RefusePair`, `Request`, `PlanDone` |
| `fetchOnce`, `onBeforeFetch` | `Request` (budget and wait), `BeforeFetch`, `Write` (second mark), `BeginFetch`, `Respond`, `FetchFails` |
| validity, `writeCapturePair` | `RejectContent`, `AcceptContent`, `KeepPayload`, `KeepManifest`, `PairFails` |
| environment | `Crash`, `Tick`, `SetBack` |

Ownership is verified (`Verify`) in one step and the file written in a later one,
as in the code. `Wall` is the wall clock: the true time less how far it has been
set back. It is never set forward; a clock that jumps ahead cuts the delay short
by construction, since the code measures it with `now()`.

*Simplifications.* Every process runs the same command, so the checks that bind
a run state, a pair or a snapshot to another plan are left out; so are the
transport-observations file and `resume = false`. Renames are atomic and ordered
(a process dies, the machine does not).

### Runs

| Run | Instance | Checks |
|---|---|---|
| `capture` | 2 contenders started twice each, 2 candidates, budget 2, delay 2, 2 deaths, 1 fault, clock set back by 1, 4.9 million states | the properties below |
| `capture_takeover` | 3 contenders, 1 death | `OneFetcher` **fails** |

* `OneFetcher`: never two requests of one run id on the wire.
* `RequestsRecorded`: what was sent is counted in the state the next process
  reads, and within the budget.
* `RequestSpacing`: request starts are `Delay` apart across deaths and restarts.
* `NoSecondCapture`: nothing is fetched of which a file is kept.
* `StateIsSound`: no state is written that the reader refuses
  (`StateStaysReadable`), and what the state names is on disk; complete means
  complete (`DoneIsCaptured`).

`capture_takeover` contradicts the comment at 1140-1143: the displaced holder
"fails closed at its next write BEFORE the next fetch". Ownership is verified
before a write and not before the fetch that follows it, so a holder that is
displaced in between fetches once more beside its successor. It takes three
contenders, one of them judging a lock that is taken over meanwhile; with two
the property holds, and is proved.

*Bounds.* Two starts per slot and two deaths allow a takeover of a takeover; a
budget of two lets a resumed run send one more request and be refused another.

### Proofs (`FotMobCaptureRunProofs`)

`TypeCorrect` for any contenders. The others assume
`TwoContenders`: at most two processes, and none dies between moving aside a
lock it must put back and putting it back (a death there loses a live lock for
good; the code's comment accepts that). Deaths anywhere else, restarts, faults,
plan, budget and delay are unbounded.

* `LockInv`: the lock of an owner is in its place or in the trash of the other
  contender, who will put it back because what it may delete is dead and stays
  dead (`DeadStaysDead`); hence `OneOwner`, and from it `Bystander`: whoever
  changes the run's data is the only process whose control state depends on it.
* `RequestsInv` rests on `Accounts(s)`: a run state from which a process may
  resume counts every request, and unless it is marked in flight or the budget is
  spent, its `lastAt` is late enough that no wait computed from it ends early.
* `CapturesInv` rests on `Faithful(s)`: at most as many candidates have a file as
  responses are counted, and what is counted as captured is complete.

## 7. The staging store: `FotMobStagingStore`, `CommittedLedger`

*Source: `FotMobDetailStagingRetention.js` 237-342 (atomic write), 459-585 (store
lock), 591-647 (names), 712-900 (committed state), 915-965 (classification),
1014-1780 (commit), 1791-2028 (summary and its validation).*

### State and actions

A commit turns a batch of converted results into artifacts, quarantine evidence,
a summary and the next version of the ledger, writes them one by one, and writes
a marker last that binds all of them and the marker before it. `disk` maps file
names to contents, `lock` is `.staging-write.lock`, `job[p]` the local variables
of `commitObservations`, `acked` the ledgers of the commits that returned.

| Code | Actions |
|---|---|
| `withStoreLock` | `Acquire`, `AcquireFails`, `Release` |
| `collectCommittedState`, `loadCommittedState` | `Chained`, `Bound`, `BoundIntact`, `Residue`, `Loads` |
| classification, merge, summary, self-validation | `Load` (with `Classify`, `NextLedger`, `Summary`, `Documents`, `Marker`) |
| `writeJsonAtomically` | `WriteTmp`, `Rename`, `WriteFails`, `LateFailure` |
| rollback | `Rollback` (one unlink), `RolledBack` |
| environment | `Crash`, and the operator: `RemoveLock`, `RemoveResidue` |

Hashes are collision-free: a marker binds contents. The marker's own bytes are
told apart by `at`, the time of the attempt, which the summary it binds carries.
`LateAt` is the set of file types after whose rename the directory check may
fail; everything else may fail at any time, within `MaxFaults`. The operator
acts only while no commit runs, as the error message demands.

*Simplifications.* Results satisfy the input contract of lines 1110-1450. No one
but the committing processes and the operator touches the directory, so
`Conflict` (a divergent file in place) never holds under the lock; it is kept
because the code has it. Readers that take no lock (the validator) may see an
unfinished commit; the properties that hold at every moment cover them.

### Runs

| Run | Instance | Checks |
|---|---|---|
| `staging` | 2 processes, 4 commits, 5 batches, 2 faults, 1 crash; `LateAt` everything but the marker; 256 thousand states | the properties below |
| `staging_late_failure` | `LateAt = {"marker"}` | `CommittedIntact` **fails** |

* `CommittedIntact`: at every moment the markers are one chain and everything
  they bind is there, unchanged.
* `AcknowledgedKept`: what a commit that returned recorded stays in the ledger.
* `CommitValidates`: in every store without residue, ledger, artifacts,
  quarantines and all summaries agree (what `validateOutputRoot` would check).
* `FailedCommitUndone`: a commit that throws leaves the directory as it found
  it, apart from exactly the files in `left`: those whose unlink failed (the
  temporary file, or a file of the rollback) and the artifact, quarantine file,
  summary or ledger that was renamed when the directory check behind the rename
  threw, which the rollback does not know. They are residue, bound by no marker.
  The comment at 44-45, "a failed commit removes the files it wrote", holds only
  without them: the late check is not foreseen there.
* `ImplementsCommittedLedger`: a reader sees one ledger that grows by whole
  commits; nothing recorded is removed, changed or recorded twice.

`staging_late_failure`: `writeJsonAtomically` checks the directory after the
rename. When that throws for the marker, the rollback unlinks files the marker
binds, and the store cannot be loaded again.

*Bounds.* Four commits allow a first version, a second one, an identity conflict
and a repetition; one crash leaves the lock, a temporary file or residue for a
later commit; two faults let a rollback fail after a failed write. With two
crashes (482 thousand states) the result is the same.

Two observations without a run. Two versions of one match with different
identities in *one* batch are both accepted, because each is classified against
the committed ledger only (915-965); the source index keeps ids unique per
batch. A batch with the same quarantine twice is refused by the summary's
duplicate check (1977-1990), although the comment at 1217-1223 says that
in-batch keys are reused; the last batch of the instance shows it.

### Proofs (`FotMobStagingStoreProofs`)

For any processes, batches, crashes and faults, under `"marker" \notin LateAt`
(the case that `staging_late_failure` refutes): `TypeCorrect`,
`CommittedStaysIntact`, `AcknowledgedForever`, `CommitsValidate`,
`FailuresAreUndone` and `ImplementsLedger`. The inductive invariant `IInv` adds to the type invariant

* `Shape`: the store is some `Store(disk, n)`: exactly the markers 1 to n, linked,
  with everything they bind in place;
* `Holders`: a process that is in a commit holds the lock, so the disk under a
  commit only changes by its own steps (and the operator waits);
* `Mids`: for each control state, the plan of the commit still fits the store
  (`Plan`), what the rollback would unlink and what stays is bound by no marker
  (`Unbound`), what is on disk is what the commit found, what it wrote and can
  still unlink, and what stays (`Trace`), and when the marker is about to be
  renamed all the files it binds are in place (`Ready`).

`StoreFrame` says that files no marker binds may come and go, `StoreCommit` that
the marker's rename turns `Store(disk, n)` into `Store(disk', n + 1)`: the
linearization point of the refinement.

`CommitsValidate` needs a second invariant beside it, `Audit`:

* `Backed`: the entries of the ledger and the files the markers bind are the
  same, and every summary, also one of an old commit, is backed by the present
  ledger;
* `Planners`: the marker that a commit is about to write binds exactly the
  documents of its batch, and their summary validates.

A step that touches no bound file keeps both (`AuditFramed`). The rename of the
marker adds a batch of documents to the old ones: `DocumentsAgree` shows that
they agree with the merged ledger as old files do, from what a batch does
however it repeats itself: each snapshot is brought once (`BroughtOnce`), and of
the results that share one the first brings it (`FirstBrings`,
`FirstQuarantines`), so a row that was folded into an earlier one of its batch is
backed too (`RowsBacked`). "The first" is the least element of a set of indices
(`Least`), taken from the well-foundedness of strict inclusion of finite sets,
since induction over data cannot be used. What is written before stays backed
because the ledger only grows (`RowsStayBacked`). The strengthening was checked
by TLC on the instance before it was proved. Every property
that the passing run of this module checks is proved.

## 8. Backup and restore: `SnapshotGeneration`, `IsolatedRestore`

*Source, under `market_evidence/backup/`: `snapshotWriter.js` 62-329,
`snapshotInputs.js` 129-288, `snapshotManifest.js` 76-82, 169-197, 364-378,
`snapshotVerifier.js` 51-123, 149-232, `localTransport.js` 243-270,
`r2Transport.js` 212-227, `restoreExecutor.js` 334-360, 670-779, 805-922.*

### State and actions

`writeSnapshot` takes no lock: it copies governed files that the publisher, the
cycles and the operator keep changing, and finds out afterwards whether what it
copied was the source of one moment. `source` is the version each file is in,
`objects[g]` what the store holds of generation `g`, `job[w]` the locals of a
writer. A restore reads one generation into `staging[r]`, proves it, and moves
it into `dest`, which must not exist; `owner` made it.

| Code | Actions |
|---|---|
| the governed files | `Change` (replaced, added, removed, back again) |
| `assertGenerationAbsent`, `enumerateSnapshotInputs`, `captureSourceIdentity` | `Start`, `Enumerate`, `Enumerated`, `Identify`, `IdentityTaken` |
| copy in path order | `Copy`, `Copied` |
| identity again, inputs again, every file again | `IdentifyAgain`, `IdentityKept`, `EnumerateAgain`, `EnumeratedAgain`, `Reread`, `Survived` |
| manifest, then completeness marker | `WriteManifest`, `WriteMarker` |
| create-only puts that fail, with or without an object, whole or torn | `WriteFails` (`PutFails`, `KeyTaken`) |
| any other error, and death | `Stop` |
| `verifySnapshot` | `Verifies` |
| `executeRestore` up to the proof | `Admit`, `Fetch`, `Prove`, `GiveUp` |
| `commitStagedRoot` | `MakeDestination`, `OpenDestination`, `OpenFails`, `Move`, `MoveFails`, `Restored` |
| `rollbackCommittedEntries` | `MoveBack`, `MoveBackFails`, `RemoveDestination`, `RemoveFails` |
| death of the restore within its commit | `Crash` |

`moment` (the source when a writer had copied its last file) and `cut` (a commit
ended with the destination in disorder) are history variables: no guard reads
them.

*Simplifications.* A content is a version number and does not return once it was
replaced; a file that is changed and changed back between two passes cannot be
told apart by the code, which compares contents. A file may be removed and come
back with another content. Writers of one generation id are given the same
inputs, so the path sorted first, the quota configuration, is the same for all:
it is the object that claims the generation, and the order of paths matters for
nothing else. Passes other than the copy visit files in any order, which
includes the code's order. The verifier is one step: objects are never changed
or removed, so it only depends on what is there. Modes, required empty
directories, manifests of the older format and the proof in a second process are
left out, and so are the properties of the remote account (`liveTargetIdentity.js`,
credentials). A writer that reports an error may have left its marker; the
generation then is as good as one that was reported.

### Runs

| Run | Instance | Checks |
|---|---|---|
| `backup` | 2 writers of 1 generation, 2 restores into 1 destination, 3 files in 3 top-level directories; 764 thousand states | `TypeOK`, `SealedIsOneMoment`, `RestoredIsWhole` |
| `restore_interrupted` | the same | `AbsentOrComplete` **fails** |

* `SealedIsOneMoment`: whoever wrote the marker, a generation that has one passes
  the verifier, and files and identity are those of the source at one moment.
* `RestoredIsWhole`: a restore that reported success made the destination, and it
  holds, for good, such a tree; a destination no commit works on is one, unless
  a commit was cut short.

`restore_interrupted`: `chmodSync` and `openStagingDirectory` come after
`mkdirSync` and before the `try` that rolls back, so when one of them throws an
empty destination stays. A commit that dies between two renames leaves part of a
tree; so does a rollback whose renames fail.

*Bounds.* Two writers and one id are what a race for an id needs; two restores
and one destination likewise. The quota configuration is replaced once, a ledger
entry is added, a file of the run state is removed and comes back: each kind of
change, in the middle of any pass. No failure is counted: any put, rename,
rollback or process may fail. Writers and restores end for good, so deadlock is
not checked.

### Proofs (`SnapshotGenerationProofs`, `IsolatedRestoreProofs`)

For any writers, restores, generation ids, files and changes, from the named
assumptions `FileAssumption`, `TornAssumption` and `NobodyAssumption`:
`SealedGenerations` (the writers alone), `RestoreTyped`, `SealedGenerationsKept`
and `RestoredTrees` (with restores).

`SealedIsOneMoment` needs to know what a writer has learnt and that nobody else
interferes. `SnapshotInv` adds, per writer, what its finished passes imply
(`Gathered`: what was enumerated, identified and copied was the source's content
then, and versions only grow; `Compared`: the files a second pass has visited
have not changed since, so they still had, when the last file was copied, the
content that was copied), and for the store: the writer that put the *first*
object has claimed the generation (`Claimed` implies `Held`: the objects are
exactly what it has put so far), at most one writer has (`Exclusive`), a
generation that is not empty has that first object, which refuses every later
writer, and a sealed one has no writer any more (`Settled`). `RestoreInv` adds
that what an admitted restore holds is the manifest of a sealed generation
(`Admitted`), that during the commit its staging directory and the destination
*together* hold the tree, whichever entries have been moved (`Placed`), and in
which cases a destination may be there (`Destination`).

## 9. Identity decisions and observations: `GovernedLedgers`

*Source: `fixture_universe/IdentityDecisionLedger.js` 13-17, 40-124,
`fixture_universe/FixtureUniverse.js` 173-229, `market_evidence/evidenceStore.js`
454-528, `market_evidence/replay.js` 8-28, `market_evidence/theOddsApiAdapter.js`
231-256.*

### State and actions

Two files of JSON lines, each read-only beside a read-only manifest with its
hash: `decisions` says which canonical fixture a provider's event is,
`observations` holds prices, each recorded under the decision that is active for
its event. Both are appended to by the same sequence of operations (writable,
append, manifest writable, emptied, filled, read-only, file read-only), without a
lock, and nothing is undone when one of them fails.

`file[l]` and `manifest[l]` are the rows of a ledger, those its manifest
describes, and the states of the two files: `torn` holds a part of a row,
`whole` says that the manifest's text parses. `call[p]` is where a process is
within `resolveOddsEvents` or `replayRaw`, with its locals. A decision is its
event and its *lineage*, the captures of the decisions it supersedes and its own:
the identity of a decision is a hash of its row, which names the identity of the
one before. What a capture says of an event is the constant `Match`.

| Code | Actions |
|---|---|
| `resolveOddsEvents`: `latestDecisions`, the loop over the events | `Resolve`, `ReadDecisions`, `Plan` |
| `replayRaw`, `adaptTheOddsApiRaw` with `assertActiveMatched` | `Replay`, `ReadDecisions`, `Adapted` |
| `appendProjection`: `assertActiveMatched` | `ReadDecisions`, `Governed` |
| `verify` / `verifyLedgerIntegrity`: the file, then the manifest; a row that is there already | `Read`, `Verify` |
| `append`: `decisionState`, the latest decision | `ReadDecisions`, `Reverify` |
| `chmod`, `appendFileSync`, refused or failing | `Unlock`, `AppendRow`, `AppendDenied`, `AppendFails` |
| `rewriteManifest` / `writeLedgerManifest`, refused or failing | `Unseal`, `Empty`, `EmptyDenied`, `Seal`, `SealFails`, `Reseal` |
| `finally`, return or error | `Lock` (`Return`, `Throw`) |
| death | `Crash` |

`acked` (rows whose append returned), `spoiled` (ledgers on which a writer died,
failed, was denied its manifest, or appended after another one had) and `since`
(how many decisions there were when the append of each observation began) are
history variables: no guard reads them.

*Simplifications.* An event of a replay yields one observation, where the adapter
yields one for each bookmaker, market and selection; the observations of an event
differ only in what no check of the ledger compares. A capture stands for a
payload and the time at which it is resolved, so the same capture resolved again
brings the same decisions. The allocation that the decision ledger is bound to does
not change. Every process may run with privileges that ignore a read-only mode,
so a write that finds the file read-only may be refused or not. Nothing is synced
by this code: what a power loss leaves of either file is not modelled.

### Runs

| Run | Instance | Checks |
|---|---|---|
| `ledgers` | 2 processes, 2 events, a capture that matches both, one that quarantines, one that moves an event; up to 2 decisions when a resolution starts; 1 death or failing write | `TypeOK`, `VerifiedIsSound` (`VerifiedIsAChain` and `VerifiedIsOnce`), `EveryPriceWasGoverned`, `OnlyTroubleCloses`, `AcknowledgedIsKept`, `ShutStaysShut` |

*Bounds.* Two writers are what it takes to read one state and write another. With
two decisions when a resolution starts, a chain reaches a third decision about one event (matched,
quarantined, matched elsewhere) while another process appends. One trouble may
come anywhere; a second one finds a ledger that is closed already. The processes are
interchangeable. Deadlock is not checked: when nothing can be resolved any more,
the processes stop. There is no fairness here, and no liveness claim: a ledger
that trouble has closed stays closed.

### What the code does not promise

* A writer that finishes late makes the manifest read-only under one that is
  about to write it. The second one's row is in the file, its error is reported,
  and the ledger is closed for everyone; the same follows from a death or an error
  after the append began. No operation of this code opens it again.
* `MATCHED`, then `QUARANTINED`, then `MATCHED` with another fixture moves a mapping
  without an entry in `authorizedSupersessions`: only a direct move is guarded.
* An observation is bound to the hash of its whole registry. When another event
  of a payload was decided anew, a replay records the unchanged prices once more,
  under another id: `VerifiedIsOnce` is about equal observations.

### Proofs (`GovernedLedgersProofs`)

All properties are proved, for any processes, events, captures, matches and
bounds, from the three assumptions on the constants: payloads are not empty,
`Match` is a function of capture and event, and the bounds are natural numbers.

* `LedgersTyped`: types, with the rows of each ledger told apart (`Typed`).
* All others rest on `Tracked`: a call that has verified its ledger read a prefix of
  the file, since rows are only added at the end (`RowsGrow`).
* `VerifiedDecisions`: `Chained` adds that a call which may append has read a
  chain that its row extends and that begins with what it read first. The row it appends
  extends that chain; if others appended in between, what it will write into the
  manifest is shorter than the file and can never describe it.
* `VerifiedObservations`: `New` says that what a writer will seal, or has sealed,
  holds no row twice, though the file itself may.
* `VerifiedLedgers`: the two together, for every reader of either ledger.
* `GovernedPrices`: `Governing` carries the time at which the decision was active
  from the check to the append. That time lies in a prefix of the decision file,
  so decisions that are appended meanwhile do not move it (`PrefixActive`).
* `TroubleCloses`: `Unspoiled` says of a ledger that nothing has spoiled: at most one
  writer has appended without having sealed; meanwhile the manifest
  describes something else than the file, so no reader's state of the file is
  the present one; and only a writer that is still going leaves either
  file writable. That invariant is itself checked on the instance above.
* `AcknowledgedRows`: `Logged` says that a writer past its append that has not failed has
  its row in the file; nothing removes one.
* `ShutForGood`: the step invariant needs no more than `Typed` and `Tracked`.

## Not modelled, and why

The components listed as `not_modelled` in `PROJECT.json`, with the reason for
each. Within the modelled ones: permissions, symlink and owner checks, the
byte-level validation of packages and lock files (a package is its content; an
invalid one makes the read fail), hash collisions, and the wording of errors.

Left to TLC only, besides what each section names: liveness under fairness and
anything about `ENABLED`, which the proof system does not handle.

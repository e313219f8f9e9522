# Forge Runtime: TLA+ models, checks and proofs

Forge Runtime executes coding-agent runs. A control plane (PostgreSQL, API
server, workers) decides; a runner (SQLite journal, Docker) executes. What makes
it hard is that both sides crash, requests between them are lost, late or
repeated, leases expire under live workers, and an operation whose outcome is
unknown must neither be repeated nor forgotten. The project models the path a
run takes through the two sides, what it pays for, what it leaves behind and how
it is watched, and checks what each part promises.

Paths below are relative to the repository.

## Inventory

| Component | State | Operations | Hard because |
|---|---|---|---|
| Run reducer, `internal/runtime/reducer.go` | one snapshot: status, stage, version, lease, pending effect, rest of the batch, approval, verification | `Transition` on 17 kinds of event | an accepted event whose result `validateState` refuses blocks the run; stops, reconciliation and approvals overlap |
| Durable store, `internal/persistence` | rows of `runs`, `effects`, `approvals`, `runner_allocations`, messages, attempts | claim, heartbeat, `Advance`, `Defer`, `Cancel`, `Resume`, `Decide`, plan and settle of system effects | several tables follow one event; several workers and API calls compete for a row |
| Driver, `internal/application/driver.go` | a copy of the row; nothing durable | one command at a time: prepare, adopt, context, model, tools, execute, verify, finalize, stop | reads, calls the runner and writes back much later; dies anywhere |
| Runner engine, `internal/runner/engine.go`, `journal.go`, `files.go` | workspace row (epoch, revision, active operation, gate), operation rows, the files, one lock per workspace | prepare, start, execute, inspect, cancel, adopt, stop, seal, release | the receipt is written after the effect; a crash between them must be reconciled from the files or the container |
| Docker sandbox, `internal/sandbox` | containers, one per command | create, start, wait, inspect, kill, remove | the daemon may carry out a request whose caller has gone |
| RPC and grants, `internal/runnerclient`, `internal/runner/grant.go` | none | signed requests bound to a lease epoch | a grant may outlive the lease that was given up early |
| Storage slots, source import, `runner/storage.go`, `initialization.go` | slot leases, imported tree | allocate, resume import, release | crash between two steps of a release |
| Model attempts, pricing, routes, `application/model.go`, `persistence/model_pricing.go` | attempts per step, frozen prices | begin, reserve, dispatch, stream, complete, fail, replay, retry, fall back | paid requests whose answer was lost; three records of one request; text stored while its answer is still open |
| Provider quota, `internal/quota` | per credential group: slots, reserved and committed amounts, window, circuit breaker and probe; one row per attempt | reserve, dispatch, settle, complete, abandon, expire, record outcome | expiry against a late settlement; reserves across a rotation; the probe of a worker that died |
| Scheduler, `persistence/scheduler.go` `claim` | tenant cursor, slots of tenants and runners | claim across runs | limits under concurrent claims |
| Cleanup, `application/cleanup.go`, `persistence/cleanup.go` | phase requested, sealed, released, a lease of its own | acquire, seal, release, complete | crash between the runner's release and its record |
| Event stream, `internal/eventstream`, `httpapi/sse.go` | hubs, subscribers, cursors | subscribe, poll, evict, retire | a subscriber joins between replay and live feed |
| Log capture, `runner/log_capture.go`, `log_publication.go` | a bounded spool and its metadata, per operation | write, finish, read back, publish | a stream that ends early, a write torn by a crash, metadata that outlives the process |
| Progress window, `runtime/progress.go` | last observations, reset by user messages | observe, detect a cycle | a message that arrives between the observation and its record |
| Artifacts and retention, `internal/artifact`, `internal/retention` | objects, journals, references | put, publish, collect | collection against publication |
| API, CLI, providers, telemetry, identity | – | routing, formats, printing | not a state machine of this program |

How they interact: a worker claims a run (one transaction gives it a lease with
a new epoch and a runner slot), reads the row, carries out its pending command
and reports the result as an event. `Advance` checks the lease and the version,
runs the reducer and writes the new snapshot, the effect rows, the approval row
and the allocation in one transaction. An operation is committed as `in_flight`
before the runner is asked to start it. The runner accepts a request only from
the current epoch at the current revision with no other operation active, and
answers an ID it knows with what it has recorded. A worker that takes a run over
*adopts* the workspace: the runner fences the old epoch, closes the gate, stops
what is running, reconciles it, and opens the gate again only when no operation
is without a receipt. Cancelling uses the same path without the reopening.

What correctness means, by component:

* reducer: no accepted event leads to a snapshot it refuses; stopping dominates;
  completion only after verification at the published revision;
* store: snapshot and effect rows agree after each commit; an operation is
  dispatched once; a slot is kept while an operation may be executing;
* runner: one writer per workspace, a revision that identifies the content, a
  receipt that is true and final, patches all or nothing, no receipt for a job
  that may still run, no lock held for ever;
* model call: a request goes out once, stays charged until its end is known, and
  attempt, reservation and circuit tell the same story; its text is stored once;
* context and progress: each context tells the model every accepted message once,
  and a run is stopped for lack of progress only after as many batches that really
  brought nothing, with nothing the user said left unheard;
* quota: slots and reserves are given back exactly once, and a probe is always
  owned by a request that can still report;
* scheduler, storage and cleanup: counters equal the allocations, a volume holds
  the bytes of one run, nothing is deleted before its snapshot is recorded, and
  the volume of a finished run comes back;
* logs and artifacts: what a row refers to exists, a success has the whole
  output, a capture can be read after a crash, no container is left;
* event stream: a client gets every event once and in order, or a clean end, and
  the hub of a run neither dies in the map nor outlives the handlers it has served;
* both sides: the revision a run works with is the runner's, the two ledgers do not
  contradict each other, and nothing happens at the runner after the run ended.

## Modules

| Module | Models | Its state and the code |
|---|---|---|
| `Reducer` | `reducer.go`: one operator per event of `Transition` (`claim`, `adopt`, `settleEffect`, `verify`, ...), one guard operator each (`CanClaim`, ...), `Accepts` for the checks at the top, `validateState` at the bottom | a record `State`: the fields of `runtime.State` a decision reads. Operations are pairs (step, place in the batch), system operations have the negative ordinals of `driver.go`; argument hashes, artifact references and texts are left out |
| `RunControl` | one run's rows and the workers that drive it (`scheduler.go`, `control.go`, `execution.go`, `capacity.go`, the loop of `driver.go`) | `run` the row, `view[w]` the row as worker `w` read it, `effects`, `approvals`, `alloc` the other tables, `late` the deadline. Each action is a whole transaction: `persistTransition` writes all tables. What a worker found out is an argument |
| `OperationLedger` | what the runner promises about one workspace, whatever it does inside | `ws` the gate, `ops` the accepted operations and their receipts, `tree` the content as the operations that changed it |
| `RunnerEngine` | `engine.go`, `journal.go`, `files.go`, `docker*.go`: goroutines, handlers, the file lock, the daemon, crash, shutdown, restart | `wsRow`, `opRow` the journal; `files`; `job` the containers; `holder` the lock; `calls` the adoption, stop and cancel handlers under way; `up` the process. One action per journal transaction or external call |
| `ReceiptProtocol` | `RunControl` and `OperationLedger` joined by the messages of `runnerclient` | adds `sent` (requests, never removed, so each may arrive late, repeatedly or never) and `stops` (answers of adopt and stop). A worker's evidence is what the runner has recorded |
| `Quota` | `internal/quota/store.go`, one credential group | `group` its row of `provider_quotas`, `res` the reservations, `now` the database clock. One action per method, each a transaction that locks the group first (`lockGroup` rotates the window); a call that returns an error changes nothing |
| `ModelAttempts` | the model call of one step: `application/model.go`, `model_route.go`, `text_batch.go`, `persistence/model_pricing.go`, `model_route.go`, the attempt rows of `execution.go`; composed with `Quota` | `run` the row, `attempts` its rows of `model_attempts`, `worker` where each worker is in `callModel`, `sent` the requests the provider got, `log` the text events. One action per transaction or external call; a worker may die or lose its lease between any two |
| `ProgressWindow` | `runtime/progress.go`, `application/progress.go`, `context.go`, `persistence/progress.go`, `AddMessage` and `ConsumeMessages` of `control.go` | `run` the row with the progress record of its snapshot, `messages` the rows with the step that applied them, `steps` the effects each step left, `contexts` what was committed for each step, `worker` the context and the report a worker has built. The windows, the count and the report's check against the rows are operators named as in the code |
| `WorkspacePool` | `scheduler.go`, `capacity.go`, `runner/storage.go`, `initialization.go`, both `cleanup.go`, several runs | `run`, `active`, `reserved` the rows and counters of the database; `cleanup` its phases and lease, `operator` the commands under way; `lease`, `ws` the runner's rows; `disk`, `torn` the volumes |
| `RunnerArtifacts` | extends `OperationLedger` with `docker_attach.go`, `log_capture.go`, `log_publication.go`, `Engine.complete`, `PublishReceipt`, `internal/artifact`, `internal/retention` | `engine` the executor or reconciler, `job` container and spool, `objects` the store, `pins` and `ready` the references of the journal and of the database |
| `EventStream` | `eventstream/hub.go`, `httpapi/sse.go`, the event rows and their trim, `cmd/forge/watch.go` | `stored`, `covered`, `first`, `fin` the log of one run, `hub` the generations of its hub, `current` the map of the manager, `conn` the handlers with their two channels, `client` the cursors. A subscription is three steps: the run is read, a hub is started under the manager's lock if there is none, and the handler joins under the hub's lock; a started hub polls in between |
| `MC...` | instances for TLC, one for each module with a specification of its own | |
| `OperationLedgerProofs`, `RunnerEngineProofs`, `RunnerArtifactsProofs`, `WorkspacePoolProofs`, `EventStreamProofs`, `ProgressWindowProofs` | theorems about the module of that name | |
| `ModelAttemptsProofs` | theorems about `Quota` and `ModelAttempts` | |
| `ReceiptProtocolProofs` | theorems about `Reducer`, `RunControl` and `ReceiptProtocol` | |

Composition and refinement. `ReceiptProtocol` joins `RunControl` and
`OperationLedger`; `ModelAttempts` calls the actions of `Quota`;
`RunnerArtifacts` takes each step of `OperationLedger` together with the steps
that produce what it refers to. `RunnerEngine` implements `OperationLedger`
(`ImplementsLedger`, mapping the journal rows and forgetting everything else), so
the ledger may stand for the engine in the other two.

Each mutation operator (`...KeepsLease`, `adoptRetries`, `LateWrite`, ...) stands
before the definition it varies; no specification uses it. It is the form of that
definition with a plausible mistake, under which the property named with it in
`PROJECT.json` fails.

## Runs

| Run | Instance | Shows |
|---|---|---|
| `control` | 2 workers, 2 claims, a batch of a free and an approved call, 2 rounds | `SnapshotValid`, `LedgerAgrees`, `UncertainKeepsCapacity`, `CompletedVerified`, `ApprovalBinds`, `CancelDominates`, `DispatchOnce` |
| `runner` | a patch and a command, 2 epochs, 1 handler, 1 crash | `ImplementsLedger`, `NoOrphanJob`, `PatchAllOrNothing` |
| `runner_live` | a command, 2 handlers at once, 2 epochs, 1 crash, fairness | `LockFreed` |
| `protocol` | a batch of two and the regression check, 2 claims, 3 revisions | `RevisionAgrees`, `LedgersMatch`, `TerminalFrozen` |
| `artifacts` | a process and a file tool, 2 epochs, 2 units of output of which 1 fits, 1 fault, a second journal, a collector | the ledger's promises `SingleWriter`, `RevisionCountsWrites`, `ReceiptTruth`, `LedgerForward`, and `ReferencedPresent`, `SucceededLogWhole`, `SpoolReadable`, `NoContainerLeft` |
| `quota` | 2 attempts, 2 amounts, 1 or 2 slots, 4 moments, fairness | `CountersMatchRows`, `BudgetHeld`, `ProbeMayReport`, `ProbeRecovered` |
| `attempts` | 2 workers, 3 claims, a step with 2 attempts, 4 moments | `SentOnce`, `OutcomeAgrees`, `RunBudgetHeld`, `TextOnce` |
| `progress` | 2 workers, 2 claims, 3 steps, 2 messages, 2 trees, windows of 2, limits 1 and 2 | `StopJustified`, `MessagesToldOnce` |
| `pool` | 2 runs, 1 volume, 2 operators, 2 claims, 1 fault, fairness | `CountersMatchAllocations`, `VolumeExclusive`, `ContentKept`, `SlotReturned` |
| `stream` | 1 client, 2 handlers, 3 hubs, one reconnect without progress, fairness | `NoProtocolError`, `MappedHubRuns`, `WatchEnds` |
| `unaccepted` | one call, setup and regression check, 2 claims | finding 1 |
| `final_patch` | as `control`, one worker | finding 2 |

The type invariant `LedgerTypeOK` is checked with `artifacts`.

Bounds and why they are enough. `MaxEpoch`, how often a run is claimed: with two
an old worker meets its successor, with three an attempt outlives two of them.
`MaxRevision` 2 and 3: a change of the workspace before and after an approval or
a verification. `MaxVersion` 12 or 14 only limits the resume requests of a user;
every other step is limited by the epochs, the rounds and the batch. The batch
has one call that needs approval after one that does not, so a change can come
between the request and the decision. The limits on rounds, calls and cost are
small enough to be reached. `MaxCrashes` 1: a crash at each point of each
handler, then recovery. Two clients in `runner_live` are two handlers inside the
same operation. Workers are interchangeable, so symmetry is used
where only safety is checked.

`quota`: with `Window` 2 and 4 moments a window ends under open reservations; one
usage exceeds every reserve, one is below a reserve; `MaxAmount` 5 is exceeded by
two of the large usages, the overflow `settle` refuses; two values of `Slots` let
`Configure` take a slot away from running requests; a `Threshold` of 1 opens the
circuit with the first failure, so the second attempt can be its probe.

`attempts`: two attempts are a first request and its retry; the run's limit admits
one reserve or one on each model (a limit of 0 is no limit, and then no fallback
may be configured; the proofs have it); a usage of 3 exceeds its reserve; the
deadline, the request timeout, the cooldown and the quota window all end within
the 4 moments; the reserve of the fallback is larger than that of the primary
model, so a retry may fit on one of them only; three claims let two workers die in one call.

`progress`: three steps let a count reach 2 and be reset; a batch edits and then
reads, so the same reading comes after different edits, and an edit can be undone;
an edit that fails has a cut result and discards the reading; a finish
that does not pass its check asks the model again; facts outnumber the window of
2, so old ones are forgotten; with `CompactEvery` 2 one context goes on from the
provider's state and the next starts afresh. A message can come before, between
and after any two transactions of the worker that builds the context, and so can
the worker's successor.

`pool`: two runs and one volume make every prepare of the second a capacity
rejection until the first is cleaned up; two files make an import that stops half
way; two operators overlap when a cleanup lease expires. `artifacts`: more output
than fits makes a truncated log, one that fits a whole one; one fault is a crash
or a failed write or a failed daemon call at each point (the run also passes with
two). `stream`: a cache of one event and a channel of one event make a handler
slow at once and a cache too short for a late join; a page of two events lets a
new hub read more than the channel of its creator holds; a trim leaves one event;
the second handler is the one that lingers after a reconnect.

Runs may stop (a finished run, a stopped runner), so deadlock is not an error.

Fairness. In `quota`: time passes, and `ExpireRequestSlots` is called again and
again (the maintenance loop of `cmd/forge-worker/main.go:156`); no worker is
assumed to report anything. In `runner_live`: goroutines and handlers that can proceed do, an
operation's context ends at its deadline (`StartOperation` always derives one),
the daemon acts on requests it has, and the process is restarted. Nothing makes a
command exit, a Docker call fail or a client send a request. In `stream`: hubs,
handlers and clients that can proceed do; nothing makes a run finish, a
connection break or an operator trim. In `pool`: the runner finishes a prepare or
a release it has begun, and an operator repeats the cleanup command of a run it
could not finish (`cmd/forge-admin`; the command is idempotent and each lease
it takes expires). Two operators can keep each other out for a while, hence strong
fairness for the acquisition.

## Findings

1. `unaccepted`. `docs/adr/0001-receipt-first-runtime.md:57` promises that an
   intent the runner has provably not accepted is retried under the same ID.
   `Driver.operation` (`driver.go:513`) starts an unknown operation only in the
   epoch that dispatched it. A worker that dies between the commit and the call
   leaves a run that its successor inspects for ever; only a resume or a cancel
   by a user changes its status, and a cancel waits for the same inspection.
2. `final_patch`. `README.md:163` calls the final output a patch checked against
   the original hashes. `CommandFinalize` (`driver.go:433`) takes the result of
   the final `get_diff` whatever its status. A diff that settled as failed or
   cancelled, for example after a runner crash, has no file list, and the run
   completes with an empty patch.

An observation without a finding, because no line of the repository promises
otherwise: `Subscribe` starts the goroutine of a new hub (`hub.go:104`) before it
takes the hub's lock, so the hub may have read more than a channel holds, or more
than it remembers, when its creator comes in. The creator is then refused with
`ErrReset`, and its hub polls on in the map with nobody to close it, until a later
subscriber of the same run closes or the hub retires. `EventStream` has these
states. `MappedHubRuns` therefore does not say that every hub in the map belongs to
a handler, but that one that has served a handler leaves the map with the last.

Three more gaps are in the models and excluded by name from the property beside
them: a system effect that was planned and never sent and a workspace that a late
prepare creates, neither of which any operation cleans up (`SlotReturned`), and a
frame torn by a short write, which no later read accepts (`SpoolReadable`).

## Proofs

Every invariant the runs check is a theorem for every value of the constants; so
are the action properties and the refinements. Some theorems go beyond the runs:
what a step may never do to a reservation, an attempt, a cleanup or a client's
cursor. Each proof
has an inductive invariant: the property alone is seldom preserved, because what
makes a step safe was settled by another actor some steps earlier. The largest of
them (`CallInv`, `DecisionsFit`, `StreamInv`, `ContextInv`, `HistoryInv`) were checked by TLC on the instances of
the runs before they were proved. A proof has one lemma for each action, and
lemmas for what several actions do to the state.

The assumptions are the named `ASSUME`s of the modules: the values that stand for
"none" are no members of the sets they are added to, limits and sizes are
numbers (positive where zero would switch the part off), the attempts of a step
are different, a batch is not empty. The bounds on epochs, versions, revisions,
crashes and faults are arbitrary numbers in the proofs.

| Module | Invariant | Why it is needed | Theorems |
|---|---|---|---|
| `OperationLedgerProofs` | `LedgerInv` = the four invariants and `Grounded` | a settlement keeps the revision right only if the active operation was accepted at it; a write is attributed only if what is in the content was accepted | `LedgerTyped`, `LedgerSingleWriter`, `LedgerRevision`, `LedgerReceiptsTrue`, `LedgerMovesForward` |
| `RunnerEngineProofs` | `EngineInv` = types, `RowsFit`, `JobsFit`, `HolderFits`, `CallsFit` | what the journal knows of an operation bounds what its container and the files may be, and what the thread that holds the lock may still do to them | `EngineImplementsLedger`, `NoJobOutlivesReceipt`, `PatchesAllOrNothing` |
| `RunnerArtifactsProofs` | `ArtifactInv` = `LedgerInv`, `StoreFits`, `ReceiptsPinned`, `EngineFits`, `JobFits` of each process | what a receipt points at is right because of what each step of the executor left for the next: bytes, pins, counters of the capture, spool and metadata | `ArtifactsImplementLedger`, `ReferencesSurvive`, `SuccessHasWholeLog`, `SpoolsReadable`, `ContainersRemoved` |
| `ReceiptProtocolProofs`, parts 1 and 2 | `Good` = type, `validateState`, `Coherent` | `validateState` does not say which stages a claimed run may resume, nor that stages without effects have no pending effect, batch or approval | `SnapshotAlwaysValid` |
| part 3 | `RunInv` = the ledger invariants of `RunControl` with `ToolEffects`, `GrantRecorded`, `SystemRows`, `CommandFits`, `ViewsOld`, `CompletedEmpty` | what a worker commits was read earlier: a view of the row's version is the row's, and an older one is refused | `LedgersFollowSnapshot`, `DispatchedUnderGrant`, `UncertainRunsHoldSlot`, `CompletedRunsVerified`, `EffectsDispatchedOnce`, `CancellationDominates` |
| part 4 | `ProtocolInv` = `RowInv`, `RunInv`, `LedgerInv`, and what requests, views, answers and stops still fit | a request is served long after the row it was made from has moved on | `ProtocolImplementsRunControl`, `ProtocolImplementsLedger`, `SnapshotRevisionTrue`, `LedgersAgree`, `FinishedRunsFrozen` |
| `ModelAttemptsProofs`, `Quota` | `QuotaInv` = `RowsFit`, `GroupFits` | the counters are sums over the reservations, the probe is one of them | `QuotaCountersExact`, `QuotaBudgetHeld`, `ProbeCanReport`, `ReservationsGoForward` |
| the model call | `CallInv` = `QuotaInv`, `RetriesFit`, `DoneFits`, `SendersApart`, `BudgetFits`, and what each reservation, attempt, request and worker fits | three records of one request are written in separate transactions by workers that may have lost the run | `RequestSentOnce`, `OutcomesAgree`, `RunStaysInBudget`, `TextStoredOnce` |
| its decisions | `EpochsFit`, `DecisionsFit` | a worker whose attempt another one has failed may still be sending it: it must have lost the run to the later claim that decided, or it could store text after the decision | `RecordsAreFinal` |
| `WorkspacePoolProofs` | `PoolInv` = types, `LeasesApart`, `RowFits`, `OperatorFits`; `CountInv` | a step on a volume is safe because of what the lock of the workspace says about its rows, a release because of what was recorded when it was sealed | `VolumesNeverShared`, `WorkspaceContentKept`, `CountersExact` |
| its cleanup | `PoolInv`, `SealInv` | the phases of a cleanup are spread over the database's row, the runner's rows and its lease; an operator acts on what it read phases ago | `CleanupMovesForward` |
| `EventStreamProofs` | `StreamInv` = `LogFits`, `HubFits`, `ConnFits`, `ClientFits`, `Fed`, `Mapped`, `Heard` | what a hub remembers and a channel holds are consecutive events, the channel of a handler begins where its replay ends, and a subscriber that is fed is not behind the hub; no variable says so | `ClientsSeeNoGap`, `HubsInMapRun`, `EventsToldInOrder`, `WatchesEndAtTheEnd` |
| `ProgressWindowProofs` | `ContextInv` = `ContextsFit`, `StepsFit`, `CountFits`, `WorkerFits` | a context is built in one transaction and committed in another; it fits as long as the version it was loaded at is the row's | `MessagesTold` |
| its windows | `HistoryInv` = `CheckedFits`, `RowsFit`, `WindowsFit`, `CountTrue(Shown)` | a count is right because of what the windows hold: only what the judged batches really showed, nothing twice, and all of it while there is room; and because a row that was judged no longer changes | `StopsJustified`, `SnapshotsValid` |

How the arguments go.

* The reducer. There is one lemma for the function of each event (`ClaimGood`,
  `AdoptGood`, `ScheduleGood`, `SettleGood`, ...) about the pure reducer. `Link`
  says what one function may do to the parts of a snapshot that the tables
  mirror, and there is one lemma per function for it too. Every step of
  `RunControl` is then a commit, a decision, a system effect or a step that
  leaves row and tables alone; invariant and action properties are proved kind by
  kind. So the check at the end of `Transition` (`reducer.go:249`) is never what
  refuses an event.
* The refinements are proved step by step: the initial states map to initial
  states, and under the invariant every step maps to a step or a stutter. The
  engine and the artifacts implement the ledger; the protocol implements both
  `RunControl` and the ledger. So the theorems about `RunControl` and
  `OperationLedger` hold of the composed system.
* Sums (`SumFunctionOnSet` in `Quota`) and the conversation of a run (a recursive
  function) are defined by recursion. No induction rule can be applied here, so
  both are reasoned about by a least counterexample: a smallest set of indices,
  a least step, at which the claim would fail (`LeastNumber`, `SmallestSet`).
  The conversation is a `CHOOSE`, so that some function satisfies its recursion is
  shown first, with the first messages in order as the witness.
* `StopsJustified` compares the count of the code, a fold over windows that forget,
  with the history of all batches. The windows are related to the history once
  (`SeenFits`), for one observation and then, by a least counterexample again,
  for a batch of any length (`ObserveAll`). A value that is new to the history is
  then new to the windows, so the count never runs ahead; while there is room the
  converse holds and the two are equal. The report of a worker is the one the
  rows justify, because `validateContextProgress` compares the two in the
  transaction that commits the report.
* `RecordsAreFinal` is about workers that do not know they lost the run. A
  completed attempt has all of its text, so its log cannot grow. A failed one may
  still have a sender. `DecisionsFit` follows from who may decide: the sender, which
  then sends no more; the owner of the run that found the request dispatched or
  past its deadline, in a later epoch than the sender's; or one that gave the
  reserve back, after which nobody can mark the request. So whoever still sends
  has lost the run, and a flush needs it (`LeaseProof`).
* `CleanupMovesForward` puts the phase of a run into one number, from the
  database's row, the runner's row and the lease, and shows that no step takes it
  back or skips one. `EventsToldInOrder` is a step of the client's cursor along
  the log; `ClientsSeeNoGap` follows from the same invariant but says only that
  the client never reports an error.

Only model-checked:

* `LockFreed`, `ProbeRecovered`, `SlotReturned` and `WatchEnds`: liveness under
  fairness;
* the two findings, which are counterexamples.

## Abstractions

* Time: a lease expires, a deadline passes, at any moment. Grant expiry by clock
  is left out; a grant that is used late is the case that is kept.
* The database: a transaction is one step. Serialization failures are steps that
  do not happen.
* The content of a workspace is the list of the operations that changed it; a
  tree hash is equality of such lists.
* In `RunControl` the model call is one event and artifact uploads have no effect
  on control; `ModelAttempts` and `RunnerArtifacts` have them. The verdict that
  a batch brought no progress is an input of the context event there;
  `ProgressWindow` computes it. The wording of a context is left out.
* In `ProgressWindow` a fingerprint is the tuple it is computed from and a
  normalised result a value. The answer of the model and the execution of its
  calls leave their rows at once; an idempotency key does not expire; money and
  the deadline may end the run in any round, the limit on rounds does at last.
* In `ModelAttempts` the primary and the fallback model belong to one credential
  group; whether the fallback can take the request is free. Calls of other runs
  reach it only as denials. A cancelled run has no owner from then on, where the
  code lets its worker prove the lease until it next writes the run; what it does
  until then it could have done before the cancel.
  `ErrReconciliation` postpones the run by one moment.
* `RunnerArtifacts` counts output in units; standard output and error are one
  stream, and counters do not reach 2^64. An operation that has had no effect may
  be completed as never started, whether or not its dispatch was recorded. The collector may take any object
  without a reference: the minimum age only makes that rarer.
* `WorkspacePool` has one tenant and one runner; the choice among tenants is
  fairness of service, not safety of the counters.
* A write of an SSE handler reaches the client at once or not at all. A failed poll
  of the database that the next tick repeats is no step; one that finds the run gone
  or of another version retires the hub.
* In `RunControl` a worker may report any evidence a trusted source could give.

Not modelled, with the reasons, under `components` in `PROJECT.json`.

## Plan

1. Done: the modules above, the theorems above.
2. Left to model: the idempotency key of a submission and the receipt files of the
   command line; the candidate copy of a verification.
3. Abstract specifications worth stating and proving: a quota as a bound on
   outstanding cost; the model call as one request, one charge and one answer.
4. Theorems left: the liveness properties, which need another prover.

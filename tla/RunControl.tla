----------------------------- MODULE RunControl -----------------------------
(***************************************************************************)
(* The control plane of one run: the row of "runs" with its lease columns, *)
(* snapshot and pending command, the effect and approval ledgers and the   *)
(* runner allocation that internal/persistence commits in one transaction  *)
(* with every reducer transition, and the workers that drive the run from  *)
(* copies of the row they read earlier.                                    *)
(*                                                                         *)
(* A worker acts on view[w], the row as it last read it; what it found out *)
(* (a receipt, a stop, a verification) is an argument of its action.  Here *)
(* the evidence is any the trusted sources could produce; ReceiptProtocol  *)
(* takes it from the runner.                                               *)
(***************************************************************************)
EXTENDS Reducer

CONSTANTS Idle,        \* the view of a worker that drives nothing
          Batches,     \* tool batches: sequences of "needs approval" flags
          SystemOps,   \* ordinals of the system effects that are modelled
          Outcomes,    \* the settled statuses receipts report
          Costs,       \* what one model request may cost
          MaxEpoch,    \* bound: how often the run is claimed
          MaxVersion,  \* bound: resume requests stop at this version
          MaxRevision  \* bound: workspace revisions receipts report

ASSUME BoundAssumption == /\ MaxEpoch \in Nat /\ MaxVersion \in Nat
                          /\ MaxRevision \in Nat
ASSUME OutcomeAssumption == /\ Outcomes \subseteq Settled
                            /\ Costs \subseteq Nat
                            /\ SystemOps \subseteq {-1, -2, -3, -4}
ASSUME BatchAssumption == \A b \in Batches : b \in Seq(BOOLEAN) /\ Len(b) > 0

VARIABLES run,        \* the run's row: State, lease columns, pending command
          view,       \* view[w]: the row as worker w last read it, or Idle
          effects,    \* effects ledger: operation ID -> row
          approvals,  \* approvals ledger: operation ID -> row
          alloc,      \* runner_allocations.state of this run
          late        \* the run's deadline has passed

vars == <<run, view, effects, approvals, alloc, late>>

NoReceipt == [id |-> <<0, 0>>, epoch |-> 0, status |-> "none",
              before |-> 0, after |-> 0]

\* The trusted verifier's results: [regression, baseline, target].
Evidence == [regression : BOOLEAN, baseline : BOOLEAN, target : BOOLEAN]

\* The statuses in which Drive returns instead of taking another step.
Finished(s) == s.status \in Terminal \cup {"waiting_approval", "queued"}

Init ==
  /\ run = NewState
  /\ view = [w \in Workers |-> Idle]
  /\ effects = << >>
  /\ approvals = << >>
  /\ alloc = "none"
  /\ late = FALSE

-----------------------------------------------------------------------------
(* persistTransition *)

\* validateTools numbers the calls of one model turn: operationID(r, ordinal).
BatchOf(s, flags) ==
  [i \in DOMAIN flags |-> [id |-> <<s.rounds, i - 1>>, appr |-> flags[i]]]

BatchIds(batch) == {batch[i].id : i \in DOMAIN batch}

\* Mutation of PendingRow: the row takes the epoch of the current lease.
PendingRowOfLease(next) ==
  [status |-> next.pending.status, rev |-> next.pending.rev,
   epoch |-> next.epoch]

PendingRow(next) ==
  [status |-> next.pending.status, rev |-> next.pending.rev,
   epoch |-> IF next.pending.epoch = 0 THEN next.epoch
             ELSE next.pending.epoch]

PlannedRow(next) == [status |-> "planned", rev |-> next.revision,
                     epoch |-> next.epoch]

\* The effect rows after a commit: the batch is inserted as planned, the
\* pending effect's row follows the snapshot, a receipt settles its own row.
EffectsAfter(next, batch, r) ==
  [id \in DOMAIN effects \cup BatchIds(batch) |->
     LET row == IF next.pending # NoEffect /\ id = next.pending.id
                THEN PendingRow(next)
                ELSE IF id \in DOMAIN effects THEN effects[id]
                ELSE PlannedRow(next)
     IN IF id = r.id THEN [row EXCEPT !.status = r.status] ELSE row]

\* ON CONFLICT DO NOTHING: an approval row is written once.
ApprovalsAfter(next) ==
  IF next.status = "waiting_approval" /\ next.pending.id \notin DOMAIN approvals
  THEN [id \in DOMAIN approvals \cup {next.pending.id} |->
          IF id \in DOMAIN approvals THEN approvals[id]
          ELSE [rev |-> next.approval.rev, version |-> next.approval.version,
                decision |-> "none"]]
  ELSE approvals

\* releaseAllocation: a row that is not there or already released stays.
Released(a) == IF a = "reserved" THEN "released" ELSE a

\* One commit of next, with the batch it plans, the receipt r it carries and
\* the allocation state a of the same transaction.
persistTransition(next, batch, r, a) ==
  /\ run' = Bump(next)
  /\ effects' = EffectsAfter(next, batch, r)
  /\ approvals' = ApprovalsAfter(next)
  /\ alloc' = IF next.status \in Terminal \cup {"waiting_approval"}
              THEN Released(a) ELSE a
  /\ UNCHANGED late

\* The driver reads the row again after its commit and stops when it is done.
Reload(w) ==
  view' = [view EXCEPT ![w] = IF Finished(run') THEN Idle ELSE run']

\* Store.Advance: worker w reports an event of the given kind about the row it
\* read; the reducer and the UPDATE compare owner, epoch, version and lease.
Advance(w, kind, next, batch, r) ==
  /\ Accepts(run, kind, w, view[w].epoch, view[w].version)
  /\ persistTransition(next, batch, r, alloc)
  /\ Reload(w)

\* The system effects of a step: the initial target check (-1), the final target
\* check (-2), the regression check (-3) and the final diff (-4).
SystemId(s, ordinal) == <<s.rounds, ordinal>>

SystemStatus(s, ordinal) ==
  IF SystemId(s, ordinal) \in DOMAIN effects
  THEN effects[SystemId(s, ordinal)].status ELSE "none"

\* systemOperation returned: the receipts of these system effects, of those the
\* project's source has, are recorded.
SystemDone(w, ordinals) ==
  \A o \in ordinals \cap SystemOps : SystemStatus(view[w], o) \in Settled

Driving(w, command) == view[w] # Idle /\ view[w].command = command

-----------------------------------------------------------------------------
(* Scheduler, leases and the worker's life *)

\* Store.claim for this run: a higher epoch, and an allocation to work on.
Claim(w) ==
  /\ view[w] = Idle
  /\ run.epoch < MaxEpoch
  /\ Accepts(run, "claimed", w, run.epoch + 1, run.version)
  /\ CanClaim(run)
  /\ persistTransition(claim(run, w), << >>, NoReceipt, "reserved")
  /\ Reload(w)

\* Drive reads the row before every step and gives up when the run is done or
\* the lease is another's.
Refresh(w) ==
  /\ view[w] # Idle
  /\ view' = [view EXCEPT ![w] =
                IF Finished(run) \/ run.owner # w \/ run.epoch # @.epoch
                THEN Idle ELSE run]
  /\ UNCHANGED <<run, effects, approvals, alloc, late>>

\* A worker process dies, or its context is cancelled; the lease stays.
Crash(w) ==
  /\ view[w] # Idle
  /\ view' = [view EXCEPT ![w] = Idle]
  /\ UNCHANGED <<run, effects, approvals, alloc, late>>

\* The database clock passes lease_until; the owner column keeps its value.
LeaseExpires ==
  /\ run.live
  /\ run' = [run EXCEPT !.live = FALSE]
  /\ UNCHANGED <<view, effects, approvals, alloc, late>>

DeadlinePasses ==
  /\ ~late /\ late' = TRUE
  /\ UNCHANGED <<run, view, effects, approvals, alloc>>

\* The commands whose errors step turns into a durable wait.
Deferrable == Command \ {"execute_effect", "validate_tools", "ingest_results"}

\* Mutation of Defer: the slot is given back whatever the run is doing.
DeferReleases(w) ==
  /\ view[w] # Idle /\ view[w].command \in Deferrable
  /\ run.owner = w /\ run.epoch = view[w].epoch /\ run.live
  /\ run.version = view[w].version
  /\ run' = [run EXCEPT !.live = FALSE]
  /\ alloc' = Released(alloc)
  /\ view' = [view EXCEPT ![w] = Idle]
  /\ UNCHANGED <<effects, approvals, late>>

\* Store.Defer: the lease ends now; the slot is given back only in a stage
\* that has no process on the runner.
Defer(w) ==
  /\ view[w] # Idle /\ view[w].command \in Deferrable
  /\ run.owner = w /\ run.epoch = view[w].epoch /\ run.live
  /\ run.version = view[w].version
  /\ run' = [run EXCEPT !.live = FALSE]
  /\ alloc' = IF /\ run.status = "running" /\ run.stopTarget = "none"
                 /\ run.pending = NoEffect
                 /\ run.stage \in {"model_step", "build_context"}
              THEN Released(alloc) ELSE alloc
  /\ view' = [view EXCEPT ![w] = Idle]
  /\ UNCHANGED <<effects, approvals, late>>

-----------------------------------------------------------------------------
(* What a worker reports, one action per command it executes *)

\* PrepareWorkspace refused admission: the run is queued again without a slot.
RequeueCapacity(w) ==
  /\ Driving(w, "initialize_workspace")
  /\ Accepts(run, "capacity_rejected", w, view[w].epoch, view[w].version)
  /\ CanRejectCapacity(run) /\ run.command = "initialize_workspace"
  /\ effects = << >> /\ alloc = "reserved"
  /\ persistTransition(capacityRejected(run), << >>, NoReceipt,
                       Released(alloc))
  /\ Reload(w)

WorkspaceReady(w, rev) ==
  /\ Driving(w, "initialize_workspace")
  /\ requireStage(run, "initialize") /\ rev > 0
  /\ SystemDone(w, {-1})
  /\ Advance(w, "workspace_ready", workspaceReady(run, rev), << >>, NoReceipt)

WorkspaceAdopted(w, rev) ==
  /\ Driving(w, "adopt_workspace")
  /\ CanAdopt(run, rev, late)
  /\ Advance(w, "workspace_adopted", adopt(run, rev, late), << >>, NoReceipt)

ContextBuilt(w, stuck) ==
  /\ Driving(w, "build_context")
  /\ requireStage(run, "build_context")
  /\ Advance(w, "context_built", contextBuilt(run, late, stuck), << >>,
             NoReceipt)

ModelCompleted(w, cost, finish) ==
  /\ Driving(w, "call_model")
  /\ requireStage(run, "model_step")
  /\ Advance(w, "model_completed", modelCompleted(run, cost, finish, late),
             << >>, NoReceipt)

\* The reservation for another model request would exceed the run's budget.
BudgetReached(w) ==
  /\ Driving(w, "call_model")
  /\ Advance(w, "budget_reached", stop(run, "budget_exhausted"), << >>,
             NoReceipt)

ToolsValidated(w, flags) ==
  LET batch == BatchOf(view[w], flags)
  IN /\ Driving(w, "validate_tools")
     /\ CanValidate(run, batch)
     /\ BatchIds(batch) \cap DOMAIN effects = {}
     /\ Advance(w, "tools_validated", toolsValidated(run, batch, late), batch,
                NoReceipt)

EffectCompleted(w, r) ==
  /\ Driving(w, "execute_effect")
  /\ requireStage(run, "execute_effects") /\ CanSettle(run, r, FALSE)
  /\ Advance(w, "effect_completed", settleEffect(run, r, late), << >>, r)

EffectUncertain(w) ==
  /\ Driving(w, "execute_effect")
  /\ requireStage(run, "execute_effects") /\ unsettled(run.pending)
  /\ Advance(w, "effect_uncertain", effectUncertain(run), << >>, NoReceipt)

\* An inspection, or the inspection that follows a stop, found the receipt.
Reconciled(w, r) ==
  /\ Driving(w, "inspect_effect") \/ Driving(w, "stop_execution")
  /\ CanReconcile(run, r)
  /\ Advance(w, "reconciled", settleEffect(run, r, late), << >>, r)

ResultsIngested(w) ==
  /\ Driving(w, "ingest_results")
  /\ requireStage(run, "ingest_results")
  /\ Advance(w, "results_ingested", resultsIngested(run), << >>, NoReceipt)

\* The driver binds the evidence to the revision it read; a check passed only if
\* its operation succeeded, and the target failed at first only if that
\* operation failed.
VerificationCompleted(w, e) ==
  LET v == [rev |-> view[w].revision, regression |-> e.regression,
            baseline |-> e.baseline, target |-> e.target]
  IN /\ Driving(w, "verify")
     /\ SystemDone(w, {-2, -3})
     /\ e.regression /\ -3 \in SystemOps
          => SystemStatus(view[w], -3) = "succeeded"
     /\ e.target => -2 \in SystemOps /\ SystemStatus(view[w], -2) = "succeeded"
     /\ e.baseline => -1 \in SystemOps /\ <<0, -1>> \in DOMAIN effects
                         /\ effects[<<0, -1>>].status = "failed"
     /\ CanVerify(run, v)
     /\ Advance(w, "verification_completed", verify(run, v), << >>, NoReceipt)

\* The patch is made from the result of the final diff, whatever its status.
Finalized(w) ==
  /\ Driving(w, "finalize")
  /\ SystemDone(w, {-4})
  /\ CanFinalize(run)
  /\ Advance(w, "finalized", finalized(run), << >>, NoReceipt)

CancellationConfirmed(w, rev) ==
  /\ Driving(w, "stop_execution")
  /\ CanConfirmStop(run, rev)
  /\ Advance(w, "cancellation_confirmed", confirmStop(run, rev), << >>,
             NoReceipt)

\* step reports any other error of a running run as its failure.
Failed(w) ==
  /\ view[w] # Idle /\ view[w].status = "running"
  /\ Advance(w, "failed", stop(run, "failed"), << >>, NoReceipt)

-----------------------------------------------------------------------------
(* System effects *)

\* PlanSystemEffect: the row is written once, with the epoch that wrote it.
PlanSystemEffect(w, ordinal) ==
  LET id == SystemId(view[w], ordinal)
  IN /\ view[w] # Idle
     /\ \/ view[w].command = "initialize_workspace" /\ ordinal = -1
        \/ view[w].command = "verify" /\ ordinal \in {-2, -3}
        \/ view[w].command = "finalize" /\ ordinal = -4
     /\ run.version = view[w].version /\ run.owner = w
     /\ run.epoch = view[w].epoch /\ LeaseValid(run)
     /\ id \notin DOMAIN effects
     /\ effects' = [i \in DOMAIN effects \cup {id} |->
                      IF i = id
                      THEN [status |-> "in_flight", epoch |-> run.epoch,
                            rev |-> IF ordinal = -1 THEN 1
                                    ELSE view[w].revision]
                      ELSE effects[i]]
     /\ UNCHANGED <<run, view, approvals, alloc, late>>

\* SettleSystemEffect needs no lease: the receipt names the row's epoch.
SettleSystemEffect(w, r) ==
  /\ view[w] # Idle
  /\ r.id \in DOMAIN effects /\ r.id[2] < 0 /\ r.id[1] = view[w].rounds
  /\ effects[r.id].epoch = r.epoch /\ r.status \in Settled
  /\ effects' = [effects EXCEPT ![r.id].status = r.status]
  /\ UNCHANGED <<run, view, approvals, alloc, late>>

-----------------------------------------------------------------------------
(* The API's control operations *)

Control(kind, next) ==
  /\ Accepts(run, kind, NoOwner, 0, run.version)
  /\ persistTransition(next, << >>, NoReceipt, alloc)
  /\ UNCHANGED view

\* Store.Cancel; of a stopping or finished run it changes nothing.
Cancel ==
  /\ run.status # "cancel_requested"
  /\ Control("cancel_requested", stop(run, "cancelled"))

\* Store.Resume with the version the caller saw.
Resume ==
  /\ run.version < MaxVersion
  /\ CanResume(run)
  /\ Control("resume_requested", resumeRequested(run))

\* Store.Decide on the approval row of one effect; a decided row never changes.
Decide(id, allow) ==
  LET row == approvals[id]
      b == [id |-> id, rev |-> row.rev, version |-> row.version,
            granted |-> FALSE]
  IN /\ row.decision = "none"
     /\ Accepts(run, "approval_decided", NoOwner, 0, run.version)
     /\ CanDecide(run, b)
     /\ run' = Bump(decideApproval(run, allow))
     /\ effects' = EffectsAfter(decideApproval(run, allow), << >>, NoReceipt)
     /\ approvals' = [approvals EXCEPT ![id].decision =
                        IF allow THEN "allow" ELSE "deny"]
     /\ UNCHANGED <<view, alloc, late>>

-----------------------------------------------------------------------------
(* Evidence the trusted sources may produce *)

Revisions == 1..MaxRevision

ReceiptsFor(e) ==
  [id : {e.id}, epoch : {e.epoch}, status : Outcomes, before : {e.rev},
   after : Revisions]

SystemReceipts ==
  UNION {[id : {i}, epoch : {effects[i].epoch}, status : Outcomes,
          before : {effects[i].rev}, after : {effects[i].rev}]
           : i \in {j \in DOMAIN effects : /\ j[2] < 0
                                           /\ ~(effects[j].status \in Settled)}}

WorkerStep(w) ==
  \/ Claim(w) \/ Refresh(w) \/ Crash(w) \/ Defer(w)
  \/ RequeueCapacity(w)
  \/ WorkspaceReady(w, 1)
  \/ \E rev \in Revisions : WorkspaceAdopted(w, rev)
  \/ \E stuck \in BOOLEAN : ContextBuilt(w, stuck)
  \/ \E cost \in Costs, finish \in BOOLEAN : ModelCompleted(w, cost, finish)
  \/ BudgetReached(w)
  \/ \E flags \in Batches : ToolsValidated(w, flags)
  \/ \E r \in ReceiptsFor(run.pending) : EffectCompleted(w, r)
  \/ EffectUncertain(w)
  \/ \E r \in ReceiptsFor(run.pending) : Reconciled(w, r)
  \/ ResultsIngested(w)
  \/ \E e \in Evidence : VerificationCompleted(w, e)
  \/ Finalized(w)
  \/ \E rev \in {0} \cup Revisions : CancellationConfirmed(w, rev)
  \/ Failed(w)
  \/ \E ordinal \in SystemOps : PlanSystemEffect(w, ordinal)
  \/ \E r \in SystemReceipts : SettleSystemEffect(w, r)

ApiStep ==
  \/ Cancel
  \/ Resume
  \/ \E id \in DOMAIN approvals, allow \in BOOLEAN : Decide(id, allow)

Next ==
  \/ \E w \in Workers : WorkerStep(w)
  \/ ApiStep
  \/ LeaseExpires
  \/ DeadlinePasses

Spec == Init /\ [][Next]_vars
-----------------------------------------------------------------------------
(* Properties *)

Unsettled == {"in_flight", "unknown"}

\* The reducer's final validateState (reducer.go:249) never refuses a
\* transition its cases accepted: a refusal there would leave the worker with
\* an outcome it can never record.  Coherent is what makes this inductive.
SnapshotValid == validateState(run) /\ Coherent(run)

\* A completed run is verified at exactly the revision it publishes: its trusted
\* regression check ran on that revision and succeeded, and no operation of it
\* may still be executing or unknown (verify, finalization guard).
CompletedVerified ==
  run.status = "completed" =>
    /\ run.verification # "unverified" /\ run.verRevision = run.revision
    /\ -3 \in SystemOps =>
         /\ SystemStatus(run, -3) = "succeeded"
         /\ effects[SystemId(run, -3)].rev = run.revision
    /\ run.remaining = << >>
    /\ \A id \in DOMAIN effects :
         id[2] >= 0 => effects[id].status \notin Unsettled

\* A run whose operation may still be executing keeps its runner slot: Defer,
\* a suspended approval and a terminal status never give the slot of such a
\* run to another one, and a valid lease always works on a held slot.
UncertainKeepsCapacity ==
  /\ unsettled(run.pending) => alloc = "reserved"
  /\ LeaseValid(run) /\ run.status \notin Terminal => alloc = "reserved"

\* The effects ledger and the snapshot never disagree: the pending effect's row
\* says what the snapshot says, effects still to run are planned, and no other
\* tool row is executing or unknown, whoever crashed between which commits.
LedgerAgrees ==
  /\ run.pending # NoEffect =>
       /\ run.pending.id \in DOMAIN effects
       /\ effects[run.pending.id].status = run.pending.status
       /\ effects[run.pending.id].rev = run.pending.rev
       /\ unsettled(run.pending)
            => effects[run.pending.id].epoch = run.pending.epoch
  /\ \A i \in DOMAIN run.remaining :
       /\ run.remaining[i].id \in DOMAIN effects
       /\ effects[run.remaining[i].id].status = "planned"
  /\ \A id \in DOMAIN effects :
       id[2] >= 0 /\ effects[id].status \in Unsettled => id = run.pending.id

\* What the README says of the final output: a completed run's patch comes from
\* a diff the runner computed (CommandFinalize, unifiedPatch).
FinalPatchComputed ==
  run.status = "completed" => SystemStatus(run, -4) = "succeeded"

\* An operation that needs approval is dispatched only under a granted row of
\* exactly that operation at exactly the revision it will execute on: a grant
\* never survives a change of the workspace (decideApproval, adopt).
ApprovalBinds ==
  unsettled(run.pending) /\ run.pending.appr =>
    /\ run.pending.id \in DOMAIN approvals
    /\ approvals[run.pending.id].decision = "allow"
    /\ approvals[run.pending.id].rev = run.pending.rev

\* Cancellation dominates: a stopping run only stops, with the target it had,
\* and no late model, tool or verification answer dispatches anything.
CancelDominates ==
  [][run.status \in Terminal \cup {"cancel_requested"} =>
       /\ run'.status \in {run.status, run.stopTarget}
       /\ run.status \in Terminal => run'.status = run.status
       /\ run'.stopTarget = run.stopTarget
       /\ run'.toolCalls = run.toolCalls /\ run'.rounds = run.rounds
       /\ \A id \in DOMAIN effects' : effects'[id].status = "in_flight" =>
            id \in DOMAIN effects /\ effects[id].status = "in_flight"]_vars

\* An operation is dispatched once: its row never becomes in_flight again
\* after a crash, a reconciliation or a resume, a settled row never changes
\* and keeps the epoch that dispatched it.
DispatchOnce ==
  [][\A id \in DOMAIN effects :
       /\ id \in DOMAIN effects'
       /\ effects'[id].status = "in_flight"
            => effects[id].status \in {"planned", "in_flight"}
       /\ effects[id].status \in Unsettled
            => /\ effects'[id].status # "planned"
               /\ effects'[id].epoch = effects[id].epoch
       /\ effects[id].status \in Settled
            => effects'[id] = effects[id]]_vars

=============================================================================

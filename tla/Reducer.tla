------------------------------ MODULE Reducer ------------------------------
(***************************************************************************)
(* The deterministic control flow of one coding run: runtime.Transition of *)
(* internal/runtime/reducer.go.  A State is one record; every event kind   *)
(* has a guard (CanX) that collects the error returns of its case, and a   *)
(* function from the old State to the new one.  Nothing here is a step:    *)
(* RunControl commits the result, ReceiptProtocol feeds it runner facts.   *)
(*                                                                         *)
(* Abstractions of the data.                                               *)
(*  - Time is "live": the lease's Until lies after the database clock, and *)
(*    "late": the run's deadline does not.                                 *)
(*  - An effect's identifier <<step, ordinal>> stands for the operation ID *)
(*    with its immutable kind, arguments, hash and policy version.         *)
(*  - Durable references (OutputRef, ReportRef, Ref) are left out: an event*)
(*    that lacks one is refused and changes nothing.                       *)
(*  - StepSeq always equals ModelRounds (both move only on ContextBuilt),  *)
(*    so "rounds" stands for both.                                         *)
(***************************************************************************)
EXTENDS Integers, Sequences

CONSTANTS Workers,         \* identities a lease can name
          NoOwner,         \* the empty owner of a lease nobody holds
          MaxModelRounds,  \* Limits.MaxModelRounds, 0 for no limit
          MaxToolCalls,    \* Limits.MaxToolCalls, 0 for no limit
          MaxCost          \* Limits.MaxCost, 0 for no limit

ASSUME OwnerAssumption == NoOwner \notin Workers
ASSUME LimitAssumption == /\ MaxModelRounds \in Nat
                          /\ MaxToolCalls \in Nat
                          /\ MaxCost \in Nat

Terminal == {"cancelled", "completed", "failed", "budget_exhausted"}
Status == Terminal \cup {"queued", "running", "waiting_approval",
                         "cancel_requested", "needs_reconciliation"}
StopTargets == {"cancelled", "failed", "budget_exhausted"}
Stage == {"initialize", "adopt_workspace", "build_context", "model_step",
          "validate_tool_calls", "approval_gate", "execute_effects",
          "ingest_results", "verify", "finalize", "reconcile", "stopped"}
Verification == {"unverified", "regression_only", "verified"}
Settled == {"succeeded", "failed", "cancelled"}
EffectStatus == Settled \cup {"planned", "in_flight", "unknown"}
Command == {"none", "initialize_workspace", "adopt_workspace",
            "build_context", "call_model", "validate_tools",
            "execute_effect", "request_approval", "ingest_results", "verify",
            "finalize", "inspect_effect", "stop_execution",
            "publish_terminal"}

OpId == Nat \X Int

State ==
  [version : Nat, status : Status, stage : Stage,
   resumeStage : Stage \cup {"none"}, owner : Workers \cup {NoOwner},
   epoch : Nat, live : BOOLEAN, revision : Nat, reconRevision : Nat,
   pending : [id : OpId, appr : BOOLEAN, rev : Nat, epoch : Nat,
              status : EffectStatus \cup {"none"}],
   remaining : Seq([id : OpId, appr : BOOLEAN]),
   approval : [id : OpId, rev : Nat, version : Nat, granted : BOOLEAN],
   verification : Verification, verRevision : Nat, rounds : Nat,
   toolCalls : Nat, cost : Nat, stopTarget : StopTargets \cup {"none"},
   command : Command]

\* The nil PendingEffect and the nil Approval (a real binding has Version > 0).
NoEffect == [id |-> <<0, 0>>, appr |-> FALSE, rev |-> 0, epoch |-> 0,
             status |-> "none"]
NoApproval == [id |-> <<0, 0>>, rev |-> 0, version |-> 0, granted |-> FALSE]

NewState ==
  [version |-> 1, status |-> "queued", stage |-> "initialize",
   resumeStage |-> "none", owner |-> NoOwner, epoch |-> 0, live |-> FALSE,
   revision |-> 0, reconRevision |-> 0, pending |-> NoEffect,
   remaining |-> << >>, approval |-> NoApproval,
   verification |-> "unverified", verRevision |-> 0, rounds |-> 0,
   toolCalls |-> 0, cost |-> 0, stopTarget |-> "none", command |-> "none"]

-----------------------------------------------------------------------------
(* Predicates *)

\* domain.Lease.ValidAt
LeaseValid(s) == s.owner # NoOwner /\ s.epoch > 0 /\ s.live

unsettled(e) == e.status \in {"in_flight", "unknown"}

requireStage(s, g) == s.status = "running" /\ s.stage = g

approvalMatches(a, e, rev) == a.id = e.id /\ a.rev = rev /\ e.rev = rev

controlEvent == {"cancel_requested", "approval_decided", "resume_requested"}
allowedDuringStop ==
  {"claimed", "cancel_requested", "cancellation_confirmed", "reconciled"}
allowedDuringReconciliation ==
  {"claimed", "cancel_requested", "resume_requested", "reconciled",
   "workspace_adopted"}

\* The checks Transition makes before it looks at the event: the version the
\* sender read, the terminal state, the lease of a worker event, and what a
\* stopping, a reconciling and a waiting run still accept.
Accepts(s, kind, w, e, v) ==
  /\ v = s.version
  /\ s.status \notin Terminal
  /\ kind \notin controlEvent \cup {"claimed"}
        => w = s.owner /\ e = s.epoch /\ LeaseValid(s)
  /\ s.status = "cancel_requested" => kind \in allowedDuringStop
  /\ s.status = "needs_reconciliation" => kind \in allowedDuringReconciliation
  /\ s.status = "waiting_approval"
        => kind \in {"approval_decided", "cancel_requested"}

\* The tail of Transition: every accepted event allocates the next version.
Bump(s) == [s EXCEPT !.version = @ + 1]

budgetReached(s, late, model, tool) ==
  \/ late
  \/ MaxCost > 0 /\ s.cost >= MaxCost
  \/ model /\ MaxModelRounds > 0 /\ s.rounds >= MaxModelRounds
  \/ tool /\ MaxToolCalls > 0 /\ s.toolCalls >= MaxToolCalls

-----------------------------------------------------------------------------
(* The shared pieces of the cases *)

Goto(s, stage, command) == [s EXCEPT !.stage = stage, !.command = command]

stop(s, target) ==
  [s EXCEPT !.stopTarget = target, !.status = "cancel_requested",
            !.command = "stop_execution"]

ClearVerification(s) ==
  [s EXCEPT !.verification = "unverified", !.verRevision = 0]

dispatchEffect(s) ==
  [s EXCEPT !.stage = "execute_effects", !.command = "execute_effect",
            !.pending.status = "in_flight", !.pending.epoch = s.epoch,
            !.toolCalls = @ + 1]

\* Mutation of RequestApproval: the suspended run keeps its lease.
RequestApprovalKeepsLease(s) ==
  [s EXCEPT !.approval = [id |-> s.pending.id, rev |-> s.revision,
                          version |-> 1, granted |-> FALSE],
            !.status = "waiting_approval", !.stage = "approval_gate",
            !.command = "request_approval"]

\* Suspend the run on a binding of exactly this effect at this revision, and
\* give up the lease.
RequestApproval(s) ==
  [s EXCEPT !.approval = [id |-> s.pending.id, rev |-> s.revision,
                          version |-> 1, granted |-> FALSE],
            !.status = "waiting_approval", !.stage = "approval_gate",
            !.owner = NoOwner, !.live = FALSE,
            !.command = "request_approval"]

\* The next planned effect of the batch becomes the pending one.
TakeEffect(s) ==
  [s EXCEPT !.remaining = Tail(s.remaining),
            !.pending = [id |-> Head(s.remaining).id,
                         appr |-> Head(s.remaining).appr, rev |-> s.revision,
                         epoch |-> 0, status |-> "planned"]]

\* Mutation of scheduleEffect: every effect is dispatched at once.
scheduleUnapproved(s, late) ==
  IF s.remaining = << >> THEN Goto(s, "ingest_results", "ingest_results")
  ELSE IF budgetReached(s, late, FALSE, TRUE) THEN stop(s, "budget_exhausted")
  ELSE dispatchEffect(TakeEffect(s))

scheduleEffect(s, late) ==
  IF s.remaining = << >> THEN Goto(s, "ingest_results", "ingest_results")
  ELSE IF budgetReached(s, late, FALSE, TRUE) THEN stop(s, "budget_exhausted")
  ELSE IF Head(s.remaining).appr THEN RequestApproval(TakeEffect(s))
  ELSE dispatchEffect(TakeEffect(s))

\* commandForStage for the stages that do not dispatch.
StageCommand ==
  [g \in {"build_context", "model_step", "validate_tool_calls",
          "ingest_results", "verify", "finalize"} |->
     CASE g = "model_step" -> "call_model"
       [] g = "validate_tool_calls" -> "validate_tools"
       [] OTHER -> g]

CanResumeStage(s) ==
  \/ s.stage \in DOMAIN StageCommand
  \/ /\ s.stage = "execute_effects"
     /\ s.pending.status = "planned"
     /\ s.pending.appr => /\ s.approval.granted
                          /\ approvalMatches(s.approval, s.pending, s.revision)

commandForStage(s) ==
  IF s.stage = "execute_effects" THEN dispatchEffect(s)
  ELSE [s EXCEPT !.command = StageCommand[s.stage]]

-----------------------------------------------------------------------------
(* One guard and one function per event kind *)

CanClaim(s) ==
  /\ ~LeaseValid(s)
  /\ s.status \in {"queued", "running", "needs_reconciliation",
                   "cancel_requested"}
  /\ s.status # "cancel_requested" /\ s.revision = 0
        => s.stage = "initialize" /\ s.pending = NoEffect

claim(s, w) ==
  LET n == [s EXCEPT !.owner = w, !.epoch = @ + 1, !.live = TRUE,
                     !.status = IF @ = "queued" THEN "running" ELSE @]
  IN IF s.status = "cancel_requested"
     THEN [n EXCEPT !.command = "stop_execution"]
     ELSE IF s.revision = 0
     THEN [n EXCEPT !.command = "initialize_workspace"]
     ELSE [n EXCEPT !.resumeStage = IF s.stage = "adopt_workspace" THEN @
                                    ELSE s.stage,
                    !.stage = "adopt_workspace",
                    !.command = "adopt_workspace"]

CanRejectCapacity(s) ==
  /\ requireStage(s, "initialize")
  /\ s.revision = 0 /\ s.rounds = 0 /\ s.toolCalls = 0 /\ s.cost = 0
  /\ s.pending = NoEffect /\ s.remaining = << >> /\ s.approval = NoApproval
  /\ s.resumeStage = "none"

capacityRejected(s) ==
  [s EXCEPT !.status = "queued", !.owner = NoOwner, !.live = FALSE,
            !.command = "none"]

workspaceReady(s, rev) ==
  [Goto(s, "build_context", "build_context") EXCEPT !.revision = rev]

\* Adoption needs the old writer's stop receipt: rev is its workspace revision.
Resumed(s) == [s EXCEPT !.stage = s.resumeStage, !.resumeStage = "none"]

ResumeTooLate(n, late) ==
  budgetReached(n, late, FALSE, n.stage = "execute_effects")

CanAdopt(s, rev, late) ==
  /\ s.stage = "adopt_workspace"
  /\ s.status \in {"running", "needs_reconciliation"}
  /\ rev >= s.revision
  /\ ~unsettled(s.pending) /\ rev = s.revision
        => /\ s.resumeStage # "reconcile"
           /\ ResumeTooLate(Resumed(s), late) \/ CanResumeStage(Resumed(s))

\* Mutation of adopt: an operation that may have executed is dispatched again.
adoptRetries(s, rev, late) ==
  LET n == Resumed(s)
  IN IF unsettled(s.pending) THEN dispatchEffect(n)
     ELSE IF rev # s.revision
     THEN [Goto(s, "reconcile", "none") EXCEPT
              !.status = "needs_reconciliation"]
     ELSE IF ResumeTooLate(n, late)
     THEN stop(n, "budget_exhausted")
     ELSE commandForStage(n)

adopt(s, rev, late) ==
  LET n == Resumed(s)
  IN IF unsettled(s.pending)
     THEN [Goto(s, "reconcile", "inspect_effect") EXCEPT
              !.status = "needs_reconciliation", !.reconRevision = rev]
     ELSE IF rev # s.revision
     THEN [Goto(s, "reconcile", "none") EXCEPT
              !.status = "needs_reconciliation"]
     ELSE IF ResumeTooLate(n, late)
     THEN stop(n, "budget_exhausted")
     ELSE commandForStage(n)

\* stuck: observeProgress counted MaxNoProgressBatches repeated batches.
contextBuilt(s, late, stuck) ==
  IF budgetReached(s, late, TRUE, FALSE) \/ stuck
  THEN stop(s, "budget_exhausted")
  ELSE [Goto(s, "model_step", "call_model") EXCEPT !.rounds = @ + 1]

modelCompleted(s, cost, finish, late) ==
  LET n == [s EXCEPT !.cost = @ + cost]
  IN IF budgetReached(n, late, FALSE, FALSE)
     THEN stop(n, "budget_exhausted")
     ELSE IF finish THEN Goto(n, "verify", "verify")
     ELSE Goto(n, "validate_tool_calls", "validate_tools")

\* A batch has at least one call and no operation ID twice.
CanValidate(s, batch) ==
  /\ requireStage(s, "validate_tool_calls")
  /\ Len(batch) \in 1..128
  /\ \A i, j \in DOMAIN batch : batch[i].id = batch[j].id => i = j

toolsValidated(s, batch, late) ==
  scheduleEffect([s EXCEPT !.remaining = batch], late)

effectUncertain(s) ==
  [Goto(s, "reconcile", "inspect_effect") EXCEPT
     !.pending.status = "unknown", !.status = "needs_reconciliation",
     !.resumeStage = "execute_effects"]

resultsIngested(s) == Goto(s, "build_context", "build_context")

\* r is a receipt [id, epoch, status, before, after] whose operation settled.
CanSettle(s, r, reconciliation) ==
  /\ unsettled(s.pending)
  /\ r.id = s.pending.id /\ r.epoch = s.pending.epoch
  /\ r.before = s.pending.rev /\ r.after >= r.before
  /\ s.reconRevision # 0 => r.after = s.reconRevision
  /\ r.status \in Settled
  /\ reconciliation \/ r.epoch = s.epoch

\* Mutation of settleEffect: a stopping run goes on with its batch.
settleResumes(s, r, late) ==
  LET m == [ClearVerification(s) EXCEPT
              !.revision = r.after, !.reconRevision = 0,
              !.approval = NoApproval, !.status = "running",
              !.pending = NoEffect,
              !.remaining = IF r.status = "succeeded" THEN @ ELSE << >>]
  IN scheduleEffect(m, late)

settleEffect(s, r, late) ==
  LET n == [ClearVerification(s) EXCEPT
              !.pending.status = r.status, !.revision = r.after,
              !.reconRevision = 0, !.approval = NoApproval]
      m == [n EXCEPT !.status = "running", !.pending = NoEffect,
                     !.remaining = IF r.status = "succeeded" THEN @
                                   ELSE << >>]
  IN IF s.status = "cancel_requested"
     THEN [n EXCEPT !.command = "stop_execution"]
     ELSE scheduleEffect(m, late)

CanReconcile(s, r) ==
  /\ s.status \in {"needs_reconciliation", "cancel_requested"}
  /\ s.status = "needs_reconciliation" => s.stage = "reconcile"
  /\ CanSettle(s, r, TRUE)

CanDecide(s, b) ==
  /\ s.status = "waiting_approval" /\ s.stage = "approval_gate"
  /\ s.approval.version > 0 /\ s.pending # NoEffect
  /\ b = s.approval /\ ~b.granted
  /\ approvalMatches(s.approval, s.pending, s.revision)

decideApproval(s, allow) ==
  IF allow
  THEN [s EXCEPT !.approval.granted = TRUE, !.approval.version = @ + 1,
                 !.status = "queued", !.stage = "execute_effects",
                 !.command = "none"]
  ELSE stop(s, "failed")

\* v is the trusted verifier's evidence [rev, regression, baseline, target].
CanVerify(s, v) == requireStage(s, "verify") /\ v.rev = s.revision

\* Mutation of verify: a failed regression check does not count.
verifyTargetOnly(s, v) ==
  LET n == [s EXCEPT !.verRevision = v.rev]
  IN IF v.baseline /\ ~v.target
     THEN [Goto(n, "build_context", "build_context") EXCEPT
             !.verification = "unverified"]
     ELSE [Goto(n, "finalize", "finalize") EXCEPT
             !.verification = IF v.baseline THEN "verified"
                              ELSE "regression_only"]

verify(s, v) ==
  LET n == [s EXCEPT !.verRevision = v.rev]
  IN IF ~v.regression \/ (v.baseline /\ ~v.target)
     THEN [Goto(n, "build_context", "build_context") EXCEPT
             !.verification = "unverified"]
     ELSE [Goto(n, "finalize", "finalize") EXCEPT
             !.verification = IF v.baseline THEN "verified"
                              ELSE "regression_only"]

CanFinalize(s) ==
  /\ requireStage(s, "finalize")
  /\ s.verRevision = s.revision /\ s.verification # "unverified"
  /\ ~unsettled(s.pending) /\ s.remaining = << >>

finalized(s) ==
  [Goto(s, "stopped", "publish_terminal") EXCEPT !.status = "completed"]

CanConfirmStop(s, rev) ==
  /\ s.status = "cancel_requested" /\ s.stopTarget # "none"
  /\ rev >= s.revision
  /\ ~unsettled(s.pending)

confirmStop(s, rev) ==
  LET n == IF rev # s.revision THEN ClearVerification(s) ELSE s
  IN [Goto(n, "stopped", "publish_terminal") EXCEPT
        !.revision = rev, !.status = s.stopTarget, !.remaining = << >>,
        !.approval = NoApproval]

CanResume(s) == s.status = "needs_reconciliation" /\ ~LeaseValid(s)

resumeRequested(s) ==
  [s EXCEPT !.owner = NoOwner, !.live = FALSE, !.command = "none"]

-----------------------------------------------------------------------------
\* The snapshot checks of validateState, which Transition makes of the state it
\* is given and of the state it is about to return.
ValidTerminal(s) ==
  /\ s.status \in Terminal => s.stage = "stopped" /\ ~unsettled(s.pending)
  /\ s.stage = "stopped" => s.status \in Terminal

ValidStopTarget(s) ==
  IF s.status = "cancel_requested" THEN s.stopTarget \in StopTargets
  ELSE s.stopTarget # "none"
         => s.status \in Terminal /\ s.stopTarget = s.status

ValidOwner(s) ==
  /\ s.status = "running" => s.owner # NoOwner /\ s.epoch > 0
  /\ s.status = "queued" => s.owner = NoOwner /\ ~unsettled(s.pending)

ValidWait(s) ==
  /\ s.status = "needs_reconciliation"
        => s.stage \in {"reconcile", "adopt_workspace"}
  /\ s.status = "waiting_approval" =>
        /\ s.stage = "approval_gate" /\ s.owner = NoOwner
        /\ s.pending.status = "planned" /\ s.pending.appr
        /\ s.approval # NoApproval /\ ~s.approval.granted

ValidBatch(s) ==
  /\ Len(s.remaining) <= 128
  /\ \A i, j \in DOMAIN s.remaining :
        s.remaining[i].id = s.remaining[j].id => i = j
  /\ s.pending # NoEffect
        => \A i \in DOMAIN s.remaining : s.remaining[i].id # s.pending.id

ValidPending(s) ==
  /\ s.pending # NoEffect => s.pending.rev > 0
  /\ s.pending.status = "planned" => s.pending.epoch = 0
  /\ unsettled(s.pending) =>
        /\ s.pending.epoch > 0
        /\ \/ s.status = "cancel_requested"
           \/ s.stage \in {"execute_effects", "adopt_workspace", "reconcile"}
  /\ s.pending.status \in Settled => s.pending.epoch > 0
  /\ requireStage(s, "execute_effects") => unsettled(s.pending)

ValidApproval(s) ==
  s.approval # NoApproval =>
    /\ s.pending.appr /\ s.approval.version > 0
    /\ approvalMatches(s.approval, s.pending, s.revision)

ValidVerification(s) ==
  s.verification # "unverified" => s.verRevision = s.revision

validateState(s) ==
  /\ s.version > 0
  /\ ValidTerminal(s) /\ ValidStopTarget(s) /\ ValidOwner(s) /\ ValidWait(s)
  /\ ValidBatch(s) /\ ValidPending(s) /\ ValidApproval(s)
  /\ ValidVerification(s)

\* What links the stages: where a run has no effect, no batch and no approval,
\* which stages a claimed run can resume, and when it has a workspace.
Quiet == DOMAIN StageCommand \cup {"initialize"}

Coherent(s) ==
  /\ s.revision = 0 => /\ s.stage \in {"initialize", "stopped"}
                       /\ s.verification = "unverified"
  /\ s.stage = "initialize" => s.revision = 0 /\ s.pending = NoEffect
  /\ s.stage = "approval_gate"
        => s.status \in {"waiting_approval", "cancel_requested"}
  /\ s.stage = "adopt_workspace" =>
       /\ s.resumeStage \in DOMAIN StageCommand
                              \cup {"execute_effects", "reconcile"}
       /\ s.status = "needs_reconciliation" => s.resumeStage = "reconcile"
  /\ /\ s.status # "cancel_requested"
     /\ \/ s.stage \in Quiet
        \/ s.stage = "adopt_workspace" /\ s.resumeStage \in Quiet
     => s.pending = NoEffect /\ s.remaining = << >> /\ s.approval = NoApproval
=============================================================================

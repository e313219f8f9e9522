----------------------- MODULE ReceiptProtocolProofs -----------------------
(***************************************************************************)
(* The control plane, alone and together with the runner.                  *)
(*                                                                         *)
(* RunControl alone, for every set of workers, every limit and every       *)
(* bound: the snapshot a run's row holds always passes validateState, so   *)
(* the check Transition makes of its result (reducer.go:249) never refuses *)
(* an event whose case accepted it.                                        *)
(*                                                                         *)
(* The first part is about the pure reducer: the function of each event,   *)
(* applied to a good state in which its guard holds, gives a good state.   *)
(* validateState alone is not preserved: it does not say that a claimed    *)
(* run remembers a stage it can resume, nor that a stage without effects   *)
(* has no pending effect, batch or approval.  Coherent adds both.  The     *)
(* second part lifts this to the actions of RunControl.                    *)
(*                                                                         *)
(* The third part is about the ledgers the store commits with a snapshot:  *)
(* the effect rows say what the snapshot says, an operation is dispatched  *)
(* once, under the approval it needs and on a held runner slot, a          *)
(* cancellation dominates, and a completed run was verified at the         *)
(* revision it publishes. Link states what one reducer function may do to  *)
(* the parts of a snapshot that the ledgers mirror; there is one lemma per *)
(* function.  Every step of Next is then one of four kinds (a commit, a    *)
(* decision, a system effect, a step that leaves row and ledgers alone),   *)
(* and the invariant and the action properties are proved kind by kind.    *)
(*                                                                         *)
(* The fourth part is about the control plane and the runner together, for *)
(* every batch and every set of system effects: whatever requests are      *)
(* lost, late or served twice, the protocol is a behaviour of RunControl   *)
(* and of OperationLedger at once, the two ledgers agree, the snapshot's   *)
(* revision is the runner's and a finished run is finished at the runner.  *)
(* None of this is inductive as it stands.  What a request may still do    *)
(* when it is served depends on the row it was made from (RequestsFit), so *)
(* workers' views have to match rows that have moved on (ViewsFit); that   *)
(* no write is under way needs to know which system effects may be open in *)
(* which stage (SystemOpen); and that a stop leaves nothing behind, that   *)
(* no request for a new operation follows a stop (StopsFit).               *)
(***************************************************************************)
EXTENDS ReceiptProtocol, TLAPS


\* The inductive invariant of the snapshot: typed, valid and coherent.
Good(s) == s \in State /\ validateState(s) /\ Coherent(s)

\* The snapshot Submit writes (runtime.NewState) is good.
LEMMA NewGood == Good(NewState)
BY OwnerAssumption
   DEF Good, NewState, State, NoEffect, NoApproval, OpId, Status, Terminal,
   Stage,
       StopTargets, Verification, EffectStatus, Settled, Command, validateState,
       ValidTerminal, ValidStopTarget, ValidOwner, ValidWait, ValidBatch,
       ValidPending, ValidApproval, ValidVerification, Coherent, Quiet,
       StageCommand, unsettled, requireStage

\* The nil pointers of PendingEffect and Approval and the empty batch are
\* values of their fields.
LEMMA NilTyped ==
  /\ NoEffect \in [id : OpId, appr : BOOLEAN, rev : Nat, epoch : Nat,
                   status : EffectStatus \cup {"none"}]
  /\ NoApproval \in [id : OpId, rev : Nat, version : Nat, granted : BOOLEAN]
  /\ << >> \in Seq([id : OpId, appr : BOOLEAN])
BY DEF NoEffect, NoApproval, OpId

\* Allocating the next version at the end of Transition keeps a snapshot good.
LEMMA BumpGood ==
  ASSUME NEW s, Good(s) PROVE Good(Bump(s))
<1> DEFINE v == s.version + 1
<1>1. s \in State /\ v \in Nat /\ v > 0 /\ Bump(s) = [s EXCEPT !.version = v]
  BY DEF Good, State, Bump, validateState
<1> HIDE DEF v
<1>2. Bump(s) \in State
  BY <1>1 DEF State
<1>3. validateState(Bump(s)) /\ Coherent(Bump(s))
  BY <1>1 DEF Good, State, validateState, ValidTerminal, ValidStopTarget,
     ValidOwner, ValidWait, ValidBatch, ValidPending, ValidApproval,
     ValidVerification, Coherent, unsettled, requireStage, approvalMatches
<1> QED BY <1>2, <1>3 DEF Good

\* A claim (reducer.go claim) of a run that is not terminal keeps the snapshot
\* good, whether it initializes, adopts or stops.
LEMMA ClaimGood ==
  ASSUME NEW s, Good(s), NEW w \in Workers, CanClaim(s),
         s.status \notin Terminal
  PROVE  Good(claim(s, w))
<1> DEFINE n == claim(s, w)
           e == s.epoch + 1
           x == IF s.status = "queued" THEN "running" ELSE s.status
           g == IF s.stage = "adopt_workspace" THEN s.resumeStage ELSE s.stage
<1>0. s \in State
  BY DEF Good
<1>1. n \in State
  <2>1. e \in Nat /\ x \in Status /\ g \in Stage \cup {"none"}
    BY <1>0 DEF State, Status
  <2>2. \/ n = [s EXCEPT !.owner = w, !.epoch = e, !.live = TRUE,
                         !.status = x, !.command = "stop_execution"]
        \/ n = [s EXCEPT !.owner = w, !.epoch = e, !.live = TRUE,
                         !.status = x, !.command = "initialize_workspace"]
        \/ n = [s EXCEPT !.owner = w, !.epoch = e, !.live = TRUE,
                         !.status = x, !.resumeStage = g,
                         !.stage = "adopt_workspace",
                         !.command = "adopt_workspace"]
    BY <1>0 DEF claim, State
  <2>3. /\ "stop_execution" \in Command /\ "initialize_workspace" \in Command
        /\ "adopt_workspace" \in Command /\ "adopt_workspace" \in Stage
    BY DEF Command, Stage
  <2> HIDE DEF n, e, x, g
  <2>4. CASE n = [s EXCEPT !.owner = w, !.epoch = e, !.live = TRUE,
                         !.status = x, !.command = "stop_execution"]
    BY <1>0, <2>1, <2>3, <2>4 DEF State
  <2>5. CASE n = [s EXCEPT !.owner = w, !.epoch = e, !.live = TRUE,
                         !.status = x, !.command = "initialize_workspace"]
    BY <1>0, <2>1, <2>3, <2>5 DEF State
  <2>6. CASE n = [s EXCEPT !.owner = w, !.epoch = e, !.live = TRUE,
                         !.status = x, !.resumeStage = g,
                         !.stage = "adopt_workspace",
                         !.command = "adopt_workspace"]
    BY <1>0, <2>1, <2>3, <2>6 DEF State
  <2> QED BY <2>2, <2>4, <2>5, <2>6
<1>2. validateState(n)
  BY OwnerAssumption DEF Good, validateState, claim, CanClaim, ValidTerminal,
     ValidStopTarget, ValidOwner,
    ValidWait, ValidBatch, ValidPending, ValidApproval, ValidVerification,
    State, unsettled, requireStage, approvalMatches, Terminal
<1>3. Coherent(n)
  BY DEF Good, claim, CanClaim, State, Coherent, validateState, ValidTerminal,
     ValidOwner, ValidWait, Quiet, StageCommand, unsettled, Terminal, Stage
<1> QED BY <1>1, <1>2, <1>3 DEF Good

\* stop turns any unfinished run into a stopping one: failure, cancellation
\* and an exhausted budget all go through it.
LEMMA StopGood ==
  ASSUME NEW s, Good(s), NEW t \in StopTargets, s.status \notin Terminal
  PROVE  Good(stop(s, t))
<1> DEFINE n == stop(s, t)
<1>1. s \in State
  BY DEF Good
<1>2. n \in State
  BY <1>1 DEF stop, State, Status, Command, StopTargets, Terminal
<1>3. validateState(n)
  BY <1>1, OwnerAssumption DEF Good, State, stop,
     validateState, ValidTerminal, ValidStopTarget,
     ValidOwner, ValidWait, ValidBatch, ValidPending, ValidApproval,
     ValidVerification, unsettled, requireStage, approvalMatches,
     Terminal, StopTargets, NoEffect, NoApproval
<1>4. Coherent(n)
  BY <1>1 DEF Good, State, stop, Coherent, Quiet, StageCommand,
     validateState, ValidTerminal, ValidOwner, ValidWait, ValidStopTarget,
     ValidPending, requireStage, unsettled, Terminal, Stage, NoEffect,
     NoApproval
<1> QED BY <1>2, <1>3, <1>4 DEF Good

\* A lease that runs out, or that Defer ends, leaves the snapshot good.
LEMMA ExpireGood ==
  ASSUME NEW s, Good(s)
  PROVE  Good([s EXCEPT !.live = FALSE])
<1> DEFINE n == [s EXCEPT !.live = FALSE]
<1>1. s \in State
  BY DEF Good
<1>2. n \in State
  BY <1>1 DEF State
<1>3. validateState(n)
  BY <1>1, OwnerAssumption DEF Good, State,
     validateState, ValidTerminal, ValidStopTarget,
     ValidOwner, ValidWait, ValidBatch, ValidPending, ValidApproval,
     ValidVerification, unsettled, requireStage, approvalMatches,
     Terminal, StopTargets, NoEffect, NoApproval
<1>4. Coherent(n)
  BY <1>1 DEF Good, State, Coherent, Quiet, StageCommand,
     validateState, ValidTerminal, ValidOwner, ValidWait, ValidStopTarget,
     ValidPending, requireStage, unsettled, Terminal, Stage, NoEffect,
     NoApproval
<1> QED BY <1>2, <1>3, <1>4 DEF Good

\* EventCapacityRejected puts a run without a workspace back in the queue.
LEMMA RejectGood ==
  ASSUME NEW s, Good(s), CanRejectCapacity(s)
  PROVE  Good(capacityRejected(s))
<1> DEFINE n == capacityRejected(s)
<1>1. s \in State
  BY DEF Good
<1>2. n \in State
  BY <1>1 DEF capacityRejected, State, Status, Command
<1>3. validateState(n)
  BY <1>1, OwnerAssumption DEF Good, State, capacityRejected, CanRejectCapacity,
     validateState, ValidTerminal, ValidStopTarget,
     ValidOwner, ValidWait, ValidBatch, ValidPending, ValidApproval,
     ValidVerification, unsettled, requireStage, approvalMatches,
     Terminal, StopTargets, NoEffect, NoApproval
<1>4. Coherent(n)
  BY <1>1 DEF Good, State, capacityRejected, CanRejectCapacity, Coherent,
     Quiet, StageCommand,
     validateState, ValidTerminal, ValidOwner, ValidWait, ValidStopTarget,
     ValidPending, requireStage, unsettled, Terminal, Stage, NoEffect,
     NoApproval
<1> QED BY <1>2, <1>3, <1>4 DEF Good

\* EventWorkspaceReady records the first revision and opens the context stage.
LEMMA ReadyGood ==
  ASSUME NEW s, Good(s), requireStage(s, "initialize"), NEW rev \in Nat \ {0}
  PROVE  Good(workspaceReady(s, rev))
<1> DEFINE n == workspaceReady(s, rev)
<1>1. s \in State
  BY DEF Good
<1>2. n \in State
  <2>1. n = [s EXCEPT !.stage = "build_context",
                         !.command = "build_context", !.revision = rev]
    BY <1>1 DEF workspaceReady, Goto, State
  <2>2. "build_context" \in Stage /\ "build_context" \in Command
    BY <1>1 DEF Stage, Command
  <2> HIDE DEF n
  <2> QED BY <1>1, <2>1, <2>2 DEF State
<1>3. validateState(n)
  BY <1>1, OwnerAssumption DEF Good, State, workspaceReady, Goto,
     validateState, ValidTerminal, ValidStopTarget,
     ValidOwner, ValidWait, ValidBatch, ValidPending, ValidApproval,
     ValidVerification, unsettled, requireStage, approvalMatches,
     Terminal, StopTargets, NoEffect, NoApproval, Coherent, Quiet, StageCommand
<1>4. Coherent(n)
  BY <1>1 DEF Good, State, workspaceReady, Goto, Coherent, Quiet, StageCommand,
     validateState, ValidTerminal, ValidOwner, ValidWait, ValidStopTarget,
     ValidPending, requireStage, unsettled, Terminal, Stage, NoEffect,
     NoApproval
<1> QED BY <1>2, <1>3, <1>4 DEF Good

\* EventEffectUncertain keeps the dispatched effect, as unknown, for
\* reconciliation.
LEMMA UncertainGood ==
  ASSUME NEW s, Good(s), requireStage(s, "execute_effects"),
  unsettled(s.pending)
  PROVE  Good(effectUncertain(s))
<1> DEFINE n == effectUncertain(s)
<1>1. s \in State
  BY DEF Good
<1>2. n \in State
  <2>1. n = [s EXCEPT !.stage = "reconcile",
                         !.command = "inspect_effect",
                         !.pending = [s.pending EXCEPT !.status = "unknown"],
                         !.status = "needs_reconciliation",
                         !.resumeStage = "execute_effects"]
    BY <1>1 DEF effectUncertain, Goto, State
  <2>2. /\ "reconcile" \in Stage /\ "execute_effects" \in Stage
        /\ "inspect_effect" \in Command /\ "needs_reconciliation" \in Status
        /\ "unknown" \in EffectStatus
    BY <1>1 DEF Stage, Command, Status, EffectStatus
  <2> HIDE DEF n
  <2> QED BY <1>1, <2>1, <2>2 DEF State
<1>3. validateState(n)
  BY <1>1, OwnerAssumption, SMTT(30) DEF Good, State, effectUncertain, Goto,
     validateState, ValidTerminal, ValidStopTarget,
     ValidOwner, ValidWait, ValidBatch, ValidPending, ValidApproval,
     ValidVerification, unsettled, requireStage, approvalMatches,
     Terminal, StopTargets, NoEffect, NoApproval
<1>4. Coherent(n)
  BY <1>1 DEF Good, State, effectUncertain, Goto, Coherent, Quiet, StageCommand,
     validateState, ValidTerminal, ValidOwner, ValidWait, ValidStopTarget,
     ValidPending, requireStage, unsettled, Terminal, Stage, NoEffect,
     NoApproval
<1> QED BY <1>2, <1>3, <1>4 DEF Good

\* EventResultsIngested goes back to the context stage with no effect left.
LEMMA IngestGood ==
  ASSUME NEW s, Good(s), requireStage(s, "ingest_results")
  PROVE  Good(resultsIngested(s))
<1> DEFINE n == resultsIngested(s)
<1>1. s \in State
  BY DEF Good
<1>2. n \in State
  <2>1. n = [s EXCEPT !.stage = "build_context",
                         !.command = "build_context"]
    BY <1>1 DEF resultsIngested, Goto, State
  <2>2. "build_context" \in Stage /\ "build_context" \in Command
    BY <1>1 DEF Stage, Command
  <2> HIDE DEF n
  <2> QED BY <1>1, <2>1, <2>2 DEF State
<1>3. validateState(n)
  BY <1>1, OwnerAssumption DEF Good, State, resultsIngested, Goto,
     validateState, ValidTerminal, ValidStopTarget,
     ValidOwner, ValidWait, ValidBatch, ValidPending, ValidApproval,
     ValidVerification, unsettled, requireStage, approvalMatches,
     Terminal, StopTargets, NoEffect, NoApproval
<1>4. Coherent(n)
  BY <1>1 DEF Good, State, resultsIngested, Goto, Coherent, Quiet, StageCommand,
     validateState, ValidTerminal, ValidOwner, ValidWait, ValidStopTarget,
     ValidPending, requireStage, unsettled, Terminal, Stage, NoEffect,
     NoApproval
<1> QED BY <1>2, <1>3, <1>4 DEF Good

\* EventResumeRequested clears the owner of a run that waits for
\* reconciliation.
LEMMA ResumeGood ==
  ASSUME NEW s, Good(s), CanResume(s)
  PROVE  Good(resumeRequested(s))
<1> DEFINE n == resumeRequested(s)
<1>1. s \in State
  BY DEF Good
<1>2. n \in State
  BY <1>1 DEF resumeRequested, State, Command
<1>3. validateState(n)
  BY <1>1, OwnerAssumption DEF Good, State, resumeRequested, CanResume,
     validateState, ValidTerminal, ValidStopTarget,
     ValidOwner, ValidWait, ValidBatch, ValidPending, ValidApproval,
     ValidVerification, unsettled, requireStage, approvalMatches,
     Terminal, StopTargets, NoEffect, NoApproval
<1>4. Coherent(n)
  BY <1>1 DEF Good, State, resumeRequested, CanResume, Coherent, Quiet,
     StageCommand,
     validateState, ValidTerminal, ValidOwner, ValidWait, ValidStopTarget,
     ValidPending, requireStage, unsettled, Terminal, Stage, NoEffect,
     NoApproval
<1> QED BY <1>2, <1>3, <1>4 DEF Good

\* EventFinalized completes a run verified at its revision with nothing
\* pending.
LEMMA FinalizeGood ==
  ASSUME NEW s, Good(s), CanFinalize(s)
  PROVE  Good(finalized(s))
<1> DEFINE n == finalized(s)
<1>1. s \in State
  BY DEF Good
<1>2. n \in State
  <2>1. n = [s EXCEPT !.stage = "stopped", !.command = "publish_terminal",
                         !.status = "completed"]
    BY <1>1 DEF finalized, Goto, State
  <2>2. /\ "stopped" \in Stage /\ "publish_terminal" \in Command
        /\ "completed" \in Status
    BY <1>1 DEF Stage, Command, Status, Terminal
  <2> HIDE DEF n
  <2> QED BY <1>1, <2>1, <2>2 DEF State
<1>3. validateState(n)
  BY <1>1, OwnerAssumption DEF Good, State, finalized, CanFinalize, Goto,
     validateState, ValidTerminal, ValidStopTarget,
     ValidOwner, ValidWait, ValidBatch, ValidPending, ValidApproval,
     ValidVerification, unsettled, requireStage, approvalMatches,
     Terminal, StopTargets, NoEffect, NoApproval
<1>4. Coherent(n)
  BY <1>1 DEF Good, State, finalized, CanFinalize, Goto, Coherent, Quiet,
     StageCommand,
     validateState, ValidTerminal, ValidOwner, ValidWait, ValidStopTarget,
     ValidPending, requireStage, unsettled, Terminal, Stage, NoEffect,
     NoApproval
<1> QED BY <1>2, <1>3, <1>4 DEF Good

\* EventVerificationCompleted binds its result to the revision it was computed
\* at.
LEMMA VerifyGood ==
  ASSUME NEW s, Good(s), NEW v, v.rev \in Nat, CanVerify(s, v)
  PROVE  Good(verify(s, v))
<1> DEFINE n == verify(s, v)
<1>1. s \in State
  BY DEF Good
<1>2. n \in State
  <2> DEFINE x == IF ~v.regression \/ (v.baseline /\ ~v.target)
                  THEN "unverified"
                  ELSE IF v.baseline THEN "verified" ELSE "regression_only"
             g == IF ~v.regression \/ (v.baseline /\ ~v.target)
                  THEN "build_context" ELSE "finalize"
  <2>1. n = [s EXCEPT !.verRevision = v.rev, !.verification = x,
                      !.stage = g, !.command = g]
    BY <1>1 DEF verify, Goto, State
  <2>2. x \in Verification /\ g \in Stage /\ g \in Command
    BY DEF Verification, Stage, Command
  <2> HIDE DEF n, x, g
  <2> QED BY <1>1, <2>1, <2>2 DEF State
<1>3. validateState(n)
  BY <1>1, OwnerAssumption DEF Good, State, verify, CanVerify, Goto,
     validateState, ValidTerminal, ValidStopTarget,
     ValidOwner, ValidWait, ValidBatch, ValidPending, ValidApproval,
     ValidVerification, unsettled, requireStage, approvalMatches,
     Terminal, StopTargets, NoEffect, NoApproval
<1>4. Coherent(n)
  BY <1>1 DEF Good, State, verify, CanVerify, Goto, Coherent, Quiet,
     StageCommand,
     validateState, ValidTerminal, ValidOwner, ValidWait, ValidStopTarget,
     ValidPending, requireStage, unsettled, Terminal, Stage, NoEffect,
     NoApproval
<1> QED BY <1>2, <1>3, <1>4 DEF Good

\* EventCancellationConfirmed ends a stopping run with its target, dropping a
\* verification of an older revision.
LEMMA ConfirmGood ==
  ASSUME NEW s, Good(s), NEW rev \in Nat, CanConfirmStop(s, rev)
  PROVE  Good(confirmStop(s, rev))
<1> DEFINE n == confirmStop(s, rev)
<1>1. s \in State
  BY DEF Good
<1>2. n \in State
  <2> DEFINE x == IF rev # s.revision THEN "unverified" ELSE s.verification
             y == IF rev # s.revision THEN 0 ELSE s.verRevision
  <2>1. n = [s EXCEPT !.stage = "stopped", !.command = "publish_terminal",
                      !.revision = rev, !.status = s.stopTarget,
                      !.remaining = << >>, !.approval = NoApproval,
                      !.verification = x, !.verRevision = y]
    BY <1>1 DEF confirmStop, ClearVerification, Goto, State
  <2>2. s.stopTarget \in Status
    BY <1>1 DEF CanConfirmStop, State, Status, Terminal, StopTargets
  <2>3. /\ "stopped" \in Stage /\ "publish_terminal" \in Command
        /\ x \in Verification /\ y \in Nat
    BY <1>1 DEF State, Stage, Command, Verification
  <2> DEFINE a == NoApproval
             m == << >>
  <2>4. /\ a \in [id : OpId, rev : Nat, version : Nat, granted : BOOLEAN]
        /\ m \in Seq([id : OpId, appr : BOOLEAN])
    BY NilTyped
  <2>5. n = [s EXCEPT !.stage = "stopped", !.command = "publish_terminal",
                      !.revision = rev, !.status = s.stopTarget,
                      !.remaining = m, !.approval = a,
                      !.verification = x, !.verRevision = y]
    BY <2>1
  <2> HIDE DEF n, x, y, a, m
  <2> QED BY <1>1, <2>2, <2>3, <2>4, <2>5 DEF State
<1>3. validateState(n)
  BY <1>1, OwnerAssumption DEF Good, State, confirmStop, CanConfirmStop,
     ClearVerification, Goto,
     validateState, ValidTerminal, ValidStopTarget,
     ValidOwner, ValidWait, ValidBatch, ValidPending, ValidApproval,
     ValidVerification, unsettled, requireStage, approvalMatches,
     Terminal, StopTargets, NoEffect, NoApproval
<1>4. Coherent(n)
  BY <1>1 DEF Good, State, confirmStop, CanConfirmStop, ClearVerification,
     Goto, Coherent, Quiet, StageCommand,
     validateState, ValidTerminal, ValidOwner, ValidWait, ValidStopTarget,
     ValidPending, requireStage, unsettled, Terminal, Stage, NoEffect,
     NoApproval
<1> QED BY <1>2, <1>3, <1>4 DEF Good

\* A running run between two effects, with a batch that may be empty.
Schedulable(m) ==
  /\ m \in State /\ m.version > 0 /\ m.status = "running"
  /\ m.stopTarget = "none" /\ m.owner # NoOwner /\ m.epoch > 0
  /\ m.revision > 0 /\ m.pending = NoEffect /\ m.approval = NoApproval
  /\ m.stage \notin {"adopt_workspace", "initialize", "stopped",
                     "approval_gate"}
  /\ ValidBatch(m) /\ ValidVerification(m)

\* scheduleEffect keeps the snapshot good in each of its outcomes: no effect
\* left, budget reached, an approval to wait for, an effect dispatched.
LEMMA ScheduleGood ==
  ASSUME NEW m, Schedulable(m), NEW b
  PROVE  Good(scheduleEffect(m, b))
<1> DEFINE T == [id : OpId, appr : BOOLEAN]
           r == m.remaining
           h == Head(r)
           q == Tail(r)
           e == [id |-> h.id, appr |-> h.appr, rev |-> m.revision,
                 epoch |-> 0, status |-> "planned"]
<1>1. m \in State /\ r \in Seq(T)
  BY DEF Schedulable, State
<1>2. CASE r = << >>
  <2> DEFINE n == [m EXCEPT !.stage = "ingest_results",
                            !.command = "ingest_results"]
  <2>1. scheduleEffect(m, b) = n
    BY <1>1, <1>2 DEF scheduleEffect, Goto, State
  <2>2. n \in State
    <3>1. "ingest_results" \in Stage /\ "ingest_results" \in Command
      BY DEF Stage, Command
    <3> QED BY <1>1, <3>1 DEF State
  <2>3. validateState(n)
    <3>1. /\ n.version = m.version /\ n.status = "running"
          /\ n.stage = "ingest_results" /\ n.owner = m.owner
          /\ n.epoch = m.epoch /\ n.stopTarget = m.stopTarget
          /\ n.pending = NoEffect /\ n.remaining = r
          /\ n.approval = NoApproval /\ n.revision = m.revision
          /\ n.verification = m.verification
          /\ n.verRevision = m.verRevision
      BY <1>1 DEF State, Schedulable
    <3>2. NoEffect.status = "none"
      BY DEF NoEffect
    <3> HIDE DEF n
    <3> QED BY <3>1, <3>2
       DEF Schedulable, validateState, ValidTerminal, ValidStopTarget,
           ValidOwner, ValidWait, ValidBatch, ValidPending, ValidApproval,
           ValidVerification, unsettled, requireStage, Terminal, Settled
  <2>4. Coherent(n)
    BY <1>1, <1>2 DEF Schedulable, State, Coherent
  <2> QED BY <2>1, <2>2, <2>3, <2>4 DEF Good
<1>3. CASE r # << >> /\ budgetReached(m, b, FALSE, TRUE)
  <2> DEFINE n == [m EXCEPT !.stopTarget = "budget_exhausted",
                            !.status = "cancel_requested",
                            !.command = "stop_execution"]
  <2>1. scheduleEffect(m, b) = n
    BY <1>1, <1>3 DEF scheduleEffect, stop, State
  <2>2. n \in State
    BY <1>1, ZenonT(60) DEF State, StopTargets, Status, Command
  <2>3. validateState(n)
    <3>1. /\ n.version = m.version /\ n.status = "cancel_requested"
          /\ n.stage = m.stage /\ n.stopTarget = "budget_exhausted"
          /\ n.pending = NoEffect /\ n.remaining = r
          /\ n.approval = NoApproval /\ n.revision = m.revision
          /\ n.verification = m.verification
          /\ n.verRevision = m.verRevision
      BY <1>1 DEF State, Schedulable
    <3>2. NoEffect.status = "none"
      BY DEF NoEffect
    <3> HIDE DEF n
    <3> QED BY <3>1, <3>2
       DEF Schedulable, validateState, ValidTerminal, ValidStopTarget,
           ValidOwner, ValidWait, ValidBatch, ValidPending, ValidApproval,
           ValidVerification, unsettled, requireStage, Terminal, Settled,
           StopTargets
  <2>4. Coherent(n)
    BY <1>1 DEF Schedulable, State, Coherent
  <2> QED BY <2>1, <2>2, <2>3, <2>4 DEF Good
<1>4. CASE r # << >> /\ ~budgetReached(m, b, FALSE, TRUE)
  <2>1. /\ h \in T /\ q \in Seq(T) /\ Len(q) <= 128
        /\ Len(r) \in Nat /\ Len(q) = Len(r) - 1
        /\ DOMAIN r = 1 .. Len(r) /\ DOMAIN q = 1 .. Len(r) - 1
        /\ r[1] = h /\ \A i \in DOMAIN q : q[i] = r[i + 1]
    <3>1. Len(r) <= 128
      BY DEF Schedulable, ValidBatch
    <3> HIDE DEF T, r
    <3>2. /\ h \in T /\ q \in Seq(T) /\ Len(r) \in Nat
          /\ Len(q) = Len(r) - 1 /\ r[1] = h
          /\ DOMAIN r = 1 .. Len(r) /\ DOMAIN q = 1 .. Len(r) - 1
          /\ \A i \in DOMAIN q : q[i] = r[i + 1]
      BY <1>1, <1>4
    <3> QED BY <3>1, <3>2
  <2>0. \A i, j \in DOMAIN r : r[i].id = r[j].id => i = j
    BY DEF Schedulable, ValidBatch
  <2> HIDE DEF r, h, q
  <2>2. ASSUME NEW i \in DOMAIN q, NEW j \in DOMAIN q, q[i].id = q[j].id
        PROVE  i = j
    <3>1. /\ i + 1 \in DOMAIN r /\ j + 1 \in DOMAIN r
          /\ i \in Int /\ j \in Int
      BY <2>1
    <3>2. i + 1 = j + 1
      BY <2>1, <2>2, <2>0, <3>1
    <3> QED BY <3>1, <3>2
  <2>3. ASSUME NEW i \in DOMAIN q PROVE q[i].id # h.id
    <3>1. i + 1 \in DOMAIN r /\ 1 \in DOMAIN r /\ i + 1 # 1
      BY <2>1
    <3> QED BY <2>1, <2>0, <3>1
  <2> USE DEF r, h, q
  <2>4. e \in [id : OpId, appr : BOOLEAN, rev : Nat, epoch : Nat,
               status : EffectStatus \cup {"none"}]
    BY <1>1, <2>1 DEF State, EffectStatus
  <2>5. TakeEffect(m) = [m EXCEPT !.remaining = q, !.pending = e]
    BY DEF TakeEffect
  <2>6. CASE h.appr
    <3> DEFINE a == [id |-> h.id, rev |-> m.revision, version |-> 1,
                     granted |-> FALSE]
               n == [m EXCEPT !.remaining = q, !.pending = e, !.approval = a,
                       !.status = "waiting_approval",
                       !.stage = "approval_gate", !.owner = NoOwner,
                       !.live = FALSE, !.command = "request_approval"]
    <3>0. scheduleEffect(m, b) = RequestApproval([m EXCEPT !.remaining = q,
                                                           !.pending = e])
      BY <1>4, <2>5, <2>6 DEF scheduleEffect
    <3>1. scheduleEffect(m, b) = n
      BY <1>1, <3>0 DEF RequestApproval, State
    <3>2. a \in [id : OpId, rev : Nat, version : Nat, granted : BOOLEAN]
      BY <1>1, <2>1 DEF State
    <3>3. /\ "waiting_approval" \in Status /\ "approval_gate" \in Stage
          /\ "request_approval" \in Command
      BY DEF Status, Stage, Command
    <3>4. /\ n.version = m.version /\ n.status = "waiting_approval"
          /\ n.stage = "approval_gate" /\ n.owner = NoOwner
          /\ n.stopTarget = m.stopTarget /\ n.pending = e /\ n.remaining = q
          /\ n.approval = a /\ n.revision = m.revision
          /\ n.verification = m.verification
          /\ n.verRevision = m.verRevision
      BY <1>1 DEF State
    <3>5. /\ e.id = h.id /\ e.appr /\ e.rev = m.revision /\ e.epoch = 0
          /\ e.status = "planned" /\ a.id = h.id /\ a.rev = m.revision
          /\ a.version = 1 /\ ~a.granted /\ a # NoApproval
      BY <2>6 DEF NoApproval
    <3> HIDE DEF n, a, e, q, h
    <3>6. n \in State
      <4> DEFINE N == [m EXCEPT !.remaining = q, !.pending = e,
                       !.approval = a, !.status = "waiting_approval",
                       !.stage = "approval_gate", !.owner = NoOwner,
                       !.live = FALSE, !.command = "request_approval"]
      <4>1. N \in State
        BY <1>1, <2>1, <2>4, <3>2, <3>3 DEF State
      <4> QED BY <4>1 DEF n
    <3>7. validateState(n)
      BY <2>1, <2>2, <2>3, <3>4, <3>5
         DEF Schedulable, validateState, ValidTerminal, ValidStopTarget,
             ValidOwner, ValidWait, ValidBatch, ValidPending, ValidApproval,
             ValidVerification, unsettled, requireStage, approvalMatches,
             Terminal, Settled
    <3>8. Coherent(n)
      BY <3>4 DEF Schedulable, Coherent, Quiet, StageCommand
    <3> QED BY <3>1, <3>6, <3>7, <3>8 DEF Good
  <2>7. CASE ~h.appr
    <3> DEFINE p == [e EXCEPT !.status = "in_flight", !.epoch = m.epoch]
               c == m.toolCalls + 1
               n == [m EXCEPT !.remaining = q, !.pending = p,
                       !.stage = "execute_effects",
                       !.command = "execute_effect", !.toolCalls = c]
    <3>0. scheduleEffect(m, b) = dispatchEffect([m EXCEPT !.remaining = q,
                                                          !.pending = e])
      BY <1>4, <2>5, <2>7 DEF scheduleEffect
    <3>1. scheduleEffect(m, b) = n
      BY <1>1, <3>0 DEF dispatchEffect, State
    <3>2. /\ p \in [id : OpId, appr : BOOLEAN, rev : Nat, epoch : Nat,
                    status : EffectStatus \cup {"none"}]
          /\ c \in Nat
      <4>1. m.epoch \in Nat /\ c \in Nat /\ "in_flight" \in EffectStatus
        BY <1>1 DEF State, EffectStatus
      <4> HIDE DEF e
      <4> QED BY <2>4, <4>1
    <3>3. "execute_effects" \in Stage /\ "execute_effect" \in Command
      BY DEF Stage, Command
    <3>4. /\ n.version = m.version /\ n.status = "running"
          /\ n.stage = "execute_effects" /\ n.owner = m.owner
          /\ n.epoch = m.epoch
          /\ n.stopTarget = m.stopTarget /\ n.pending = p /\ n.remaining = q
          /\ n.approval = NoApproval /\ n.revision = m.revision
          /\ n.verification = m.verification
          /\ n.verRevision = m.verRevision
      BY <1>1 DEF State, Schedulable
    <3>5. /\ p.id = h.id /\ p.rev = m.revision /\ p.epoch = m.epoch
          /\ p.status = "in_flight"
      OBVIOUS
    <3> HIDE DEF n, p, c, e, q, h
    <3>6. n \in State
      <4> DEFINE N == [m EXCEPT !.remaining = q, !.pending = p,
                       !.stage = "execute_effects",
                       !.command = "execute_effect", !.toolCalls = c]
      <4>1. N \in State
        BY <1>1, <2>1, <3>2, <3>3 DEF State
      <4> QED BY <4>1 DEF n
    <3>7. validateState(n)
      BY <2>1, <2>2, <2>3, <3>4, <3>5
         DEF Schedulable, validateState, ValidTerminal, ValidStopTarget,
             ValidOwner, ValidWait, ValidBatch, ValidPending, ValidApproval,
             ValidVerification, unsettled, requireStage, approvalMatches,
             Terminal, Settled
    <3>8. Coherent(n)
      BY <3>4 DEF Schedulable, Coherent, Quiet, StageCommand
    <3> QED BY <3>1, <3>6, <3>7, <3>8 DEF Good
  <2> QED BY <2>6, <2>7
<1> QED BY <1>2, <1>3, <1>4

\* What a snapshot says of a run that is running in a stage without effects.
LEMMA QuietFacts ==
  ASSUME NEW s, Good(s), s.status = "running", s.stage \in DOMAIN StageCommand
  PROVE  /\ s \in State /\ s.version > 0 /\ s.stopTarget = "none"
         /\ s.owner # NoOwner /\ s.epoch > 0 /\ s.revision > 0
         /\ s.pending = NoEffect /\ s.remaining = << >>
         /\ s.approval = NoApproval /\ ValidVerification(s)
<1>1. s \in State /\ validateState(s) /\ Coherent(s)
  BY DEF Good
<1>2. /\ s.version > 0 /\ s.stopTarget = "none" /\ s.owner # NoOwner
      /\ s.epoch > 0 /\ ValidVerification(s)
  BY <1>1 DEF validateState, ValidStopTarget, ValidOwner, Terminal
<1>3. s.revision # 0
  BY <1>1 DEF Coherent, StageCommand
<1>4. /\ s.pending = NoEffect /\ s.remaining = << >>
      /\ s.approval = NoApproval
  BY <1>1 DEF Coherent, Quiet
<1>5. s.revision \in Nat
  BY <1>1 DEF State
<1> QED BY <1>1, <1>2, <1>3, <1>4, <1>5

\* The model's cost, the step counter and a new quiet stage keep it good.
LEMMA QuietStepGood ==
  ASSUME NEW s, Good(s), s.status = "running", s.stage \in DOMAIN StageCommand,
         NEW g \in DOMAIN StageCommand, NEW c \in Command,
         NEW x \in Nat, NEW y \in Nat
  PROVE  Good([s EXCEPT !.stage = g, !.command = c, !.rounds = x, !.cost = y])
<1> DEFINE n == [s EXCEPT !.stage = g, !.command = c, !.rounds = x,
                          !.cost = y]
<1>1. /\ s \in State /\ s.version > 0 /\ s.stopTarget = "none"
      /\ s.owner # NoOwner /\ s.epoch > 0 /\ s.revision > 0
      /\ s.pending = NoEffect /\ s.remaining = << >>
      /\ s.approval = NoApproval /\ ValidVerification(s)
  BY QuietFacts
<1>2. n \in State
  <2>1. g \in Stage
    BY DEF StageCommand, Stage
  <2> QED BY <1>1, <2>1 DEF State
<1>3. /\ n.version = s.version /\ n.status = "running" /\ n.stage = g
      /\ n.owner = s.owner /\ n.epoch = s.epoch /\ n.stopTarget = "none"
      /\ n.pending = NoEffect /\ n.remaining = << >>
      /\ n.approval = NoApproval /\ n.revision = s.revision
      /\ n.verification = s.verification /\ n.verRevision = s.verRevision
  BY <1>1 DEF State
<1>4. NoEffect.status = "none"
  BY DEF NoEffect
<1>5. g \notin {"initialize", "adopt_workspace", "stopped", "approval_gate",
               "execute_effects"}
  BY DEF StageCommand
<1> HIDE DEF n
<1>6. validateState(n)
  BY <1>1, <1>3, <1>4, <1>5
     DEF validateState, ValidTerminal, ValidStopTarget, ValidOwner, ValidWait,
         ValidBatch, ValidPending, ValidApproval, ValidVerification, unsettled,
         requireStage, Terminal, Settled
<1>7. Coherent(n)
  BY <1>1, <1>3, <1>5 DEF Coherent
<1> QED BY <1>2, <1>6, <1>7 DEF Good, n

\* EventContextBuilt opens the model stage or stops an exhausted run.
LEMMA ContextGood ==
  ASSUME NEW s, Good(s), requireStage(s, "build_context"), NEW b, NEW k
  PROVE  Good(contextBuilt(s, b, k))
<1>1. /\ s \in State /\ s.status = "running" /\ s.stage = "build_context"
      /\ "build_context" \in DOMAIN StageCommand
      /\ "model_step" \in DOMAIN StageCommand /\ "call_model" \in Command
      /\ s.status \notin Terminal /\ "budget_exhausted" \in StopTargets
  BY DEF Good, requireStage, StageCommand, Command, Terminal, StopTargets
<1>2. CASE budgetReached(s, b, TRUE, FALSE) \/ k
  BY <1>1, <1>2, StopGood DEF contextBuilt
<1>3. CASE ~(budgetReached(s, b, TRUE, FALSE) \/ k)
  <2> DEFINE x == s.rounds + 1
  <2>1. x \in Nat /\ s.cost \in Nat
    BY <1>1 DEF State
  <2>2. contextBuilt(s, b, k) = [s EXCEPT !.stage = "model_step",
          !.command = "call_model", !.rounds = x, !.cost = s.cost]
    BY <1>1, <1>3 DEF contextBuilt, Goto, State
  <2> HIDE DEF x
  <2>3. Good([s EXCEPT !.stage = "model_step", !.command = "call_model",
                       !.rounds = x, !.cost = s.cost])
    BY <1>1, <2>1, QuietStepGood
  <2> QED BY <2>2, <2>3
<1> QED BY <1>2, <1>3

\* EventModelCompleted charges the request and opens the stage its answer asks
\* for.
LEMMA ModelGood ==
  ASSUME NEW s, Good(s), requireStage(s, "model_step"), NEW cost \in Nat,
         NEW finish, NEW b
  PROVE  Good(modelCompleted(s, cost, finish, b))
<1> DEFINE y == s.cost + cost
           m == [s EXCEPT !.cost = y]
<1>1. /\ s \in State /\ s.status = "running" /\ s.stage = "model_step"
      /\ "model_step" \in DOMAIN StageCommand
      /\ "verify" \in DOMAIN StageCommand
      /\ "validate_tool_calls" \in DOMAIN StageCommand
      /\ "verify" \in Command /\ "validate_tools" \in Command
      /\ s.status \notin Terminal /\ "budget_exhausted" \in StopTargets
  BY DEF Good, requireStage, StageCommand, Command, Terminal, StopTargets
<1>2. y \in Nat /\ s.rounds \in Nat /\ s.command \in Command
  BY <1>1, SMTT(30) DEF State
<1>3. Good(m)
  <2> HIDE DEF y
  <2>1. m = [s EXCEPT !.stage = "model_step", !.command = s.command,
                      !.rounds = s.rounds, !.cost = y]
    BY <1>1 DEF State
  <2>2. Good([s EXCEPT !.stage = "model_step", !.command = s.command,
                      !.rounds = s.rounds, !.cost = y])
    BY <1>1, <1>2, QuietStepGood
  <2> QED BY <2>1, <2>2
<1>4. CASE budgetReached(m, b, FALSE, FALSE)
  <2>1. modelCompleted(s, cost, finish, b) = stop(m, "budget_exhausted")
    BY <1>4 DEF modelCompleted
  <2>2. m.status \notin Terminal
    BY <1>1 DEF State
  <2> HIDE DEF m
  <2> QED BY <1>1, <1>3, <2>1, <2>2, StopGood
<1>5. CASE ~budgetReached(m, b, FALSE, FALSE)
  <2> DEFINE g == IF finish THEN "verify" ELSE "validate_tool_calls"
             c == IF finish THEN "verify" ELSE "validate_tools"
  <2>1. modelCompleted(s, cost, finish, b)
          = [s EXCEPT !.stage = g, !.command = c, !.rounds = s.rounds,
                      !.cost = y]
    <3>1. modelCompleted(s, cost, finish, b) = Goto(m, g, c)
      BY <1>5 DEF modelCompleted
    <3> HIDE DEF g, c, y
    <3> QED BY <1>1, <3>1 DEF Goto, State
  <2>2. g \in DOMAIN StageCommand /\ c \in Command
    BY <1>1
  <2> HIDE DEF g, c, y
  <2>3. Good([s EXCEPT !.stage = g, !.command = c, !.rounds = s.rounds,
                       !.cost = y])
    BY <1>1, <1>2, <2>2, QuietStepGood
  <2> QED BY <2>1, <2>3
<1> QED BY <1>4, <1>5

\* EventToolsValidated plans a batch of distinct operations and schedules its
\* first one.
LEMMA ToolsGood ==
  ASSUME NEW s, Good(s), NEW batch \in Seq([id : OpId, appr : BOOLEAN]),
         CanValidate(s, batch), NEW b
  PROVE  Good(toolsValidated(s, batch, b))
<1> DEFINE m == [s EXCEPT !.remaining = batch]
<1>1. /\ s.status = "running" /\ s.stage = "validate_tool_calls"
      /\ s.stage \in DOMAIN StageCommand
  BY DEF CanValidate, requireStage, StageCommand
<1>2. /\ s \in State /\ s.version > 0 /\ s.stopTarget = "none"
      /\ s.owner # NoOwner /\ s.epoch > 0 /\ s.revision > 0
      /\ s.pending = NoEffect /\ s.approval = NoApproval
      /\ ValidVerification(s)
  BY <1>1, QuietFacts
<1>3. /\ m.version = s.version /\ m.status = "running"
      /\ m.stage = "validate_tool_calls" /\ m.owner = s.owner
      /\ m.epoch = s.epoch /\ m.stopTarget = "none" /\ m.pending = NoEffect
      /\ m.remaining = batch /\ m.approval = NoApproval
      /\ m.revision = s.revision /\ m.verification = s.verification
      /\ m.verRevision = s.verRevision /\ m \in State
  BY <1>1, <1>2 DEF State
<1>4. /\ Len(batch) <= 128
      /\ \A i, j \in DOMAIN batch : batch[i].id = batch[j].id => i = j
  <2>1. Len(batch) \in 1 .. 128
    BY DEF CanValidate
  <2>2. \A i, j \in DOMAIN batch : batch[i].id = batch[j].id => i = j
    BY Zenon DEF CanValidate
  <2>3. Len(batch) <= 128
    <3>1. \A i \in 1 .. 128 : i <= 128
      OBVIOUS
    <3> QED BY <2>1, <3>1, Zenon
  <2> QED BY <2>2, <2>3, Zenon
<1> HIDE DEF m
<1>5. Schedulable(m)
  BY <1>2, <1>3, <1>4 DEF Schedulable, ValidBatch, ValidVerification
<1> QED BY <1>5, ScheduleGood DEF toolsValidated, m

\* decideApproval queues the run with a granted binding, or stops it.
LEMMA DecideGood ==
  ASSUME NEW s, Good(s), NEW b, CanDecide(s, b), NEW allow
  PROVE  Good(decideApproval(s, allow))
<1>1. s \in State /\ s.status = "waiting_approval" /\ s.status \notin Terminal
      /\ "failed" \in StopTargets
  BY DEF Good, CanDecide, Terminal, StopTargets
<1>2. CASE ~allow
  BY <1>1, <1>2, StopGood DEF decideApproval
<1>3. CASE allow
  <2> DEFINE v == s.approval.version + 1
             a == [s.approval EXCEPT !.granted = TRUE, !.version = v]
             n == [s EXCEPT !.approval = a, !.status = "queued",
                            !.stage = "execute_effects", !.command = "none"]
  <2>1. decideApproval(s, allow) = n
    BY <1>1, <1>3 DEF decideApproval, State
  <2>2. v \in Nat /\ v > 0
    BY <1>1 DEF State
  <2>3. /\ a \in [id : OpId, rev : Nat, version : Nat, granted : BOOLEAN]
        /\ a.id = s.approval.id /\ a.rev = s.approval.rev /\ a.version = v
    <3> HIDE DEF v
    <3> QED BY <1>1, <2>2 DEF State
  <2>4. /\ "queued" \in Status /\ "execute_effects" \in Stage
        /\ "none" \in Command
    BY DEF Status, Stage, Command
  <2>5. /\ n.version = s.version /\ n.status = "queued"
        /\ n.stage = "execute_effects" /\ n.owner = s.owner
        /\ n.epoch = s.epoch /\ n.stopTarget = s.stopTarget
        /\ n.pending = s.pending /\ n.remaining = s.remaining
        /\ n.approval = a /\ n.revision = s.revision
        /\ n.verification = s.verification /\ n.verRevision = s.verRevision
    BY <1>1 DEF State
  <2> HIDE DEF a, v
  <2>6. n \in State
    BY <1>1, <2>3, <2>4 DEF State
  <2> HIDE DEF n
  <2>7. validateState(n)
    BY <1>1, <2>2, <2>3, <2>5
       DEF Good, validateState, ValidTerminal, ValidStopTarget, ValidOwner,
           ValidWait, ValidBatch, ValidPending, ValidApproval,
           ValidVerification, unsettled, requireStage, approvalMatches,
           Terminal, Settled
  <2>8. Coherent(n)
    BY <1>1, <2>5
       DEF Good, CanDecide, Coherent, Quiet, StageCommand
  <2> QED BY <2>1, <2>6, <2>7, <2>8 DEF Good
<1> QED BY <1>2, <1>3

\* settleEffect, for a completed and for a reconciled effect, records the
\* receipt and schedules the rest of the batch.
LEMMA SettleGood ==
  ASSUME NEW s, Good(s), NEW b, NEW k, NEW r, r.after \in Nat,
         s.status \notin Terminal, s.status # "waiting_approval",
         s.status # "cancel_requested"
           => s.stage \in {"execute_effects", "reconcile"},
         s.owner # NoOwner, s.epoch > 0, CanSettle(s, r, k)
  PROVE  Good(settleEffect(s, r, b))
<1> DEFINE P == [id : OpId, appr : BOOLEAN, rev : Nat, epoch : Nat,
                 status : EffectStatus \cup {"none"}]
           p == [s.pending EXCEPT !.status = r.status]
<1>1. s \in State /\ validateState(s) /\ Coherent(s) /\ s.pending \in P
  BY DEF Good, State
<1>2. /\ unsettled(s.pending) /\ r.status \in Settled
      /\ r.after >= s.pending.rev /\ s.pending # NoEffect
  BY DEF CanSettle, unsettled, NoEffect
<1>3. s.pending.rev > 0 /\ s.pending.epoch > 0
  BY <1>1, <1>2 DEF validateState, ValidPending
<1>4. r.after > 0
  BY <1>1, <1>2, <1>3
<1>5. p \in P /\ p.id = s.pending.id /\ p.rev = s.pending.rev
      /\ p.epoch = s.pending.epoch /\ p.status = r.status
  BY <1>1, <1>2 DEF EffectStatus
<1>6. s.stage \notin {"initialize", "stopped"}
  BY <1>1, <1>2 DEF Coherent, validateState, ValidTerminal
<1>7. "unverified" \in Verification /\ "stop_execution" \in Command
  BY DEF Verification, Command
<1> DEFINE a == NoApproval
<1>8. a \in [id : OpId, rev : Nat, version : Nat, granted : BOOLEAN]
  BY NilTyped
<1>9. CASE s.status = "cancel_requested"
  <2> DEFINE n == [s EXCEPT !.verification = "unverified", !.verRevision = 0,
                     !.pending = p, !.revision = r.after,
                     !.reconRevision = 0, !.approval = a,
                     !.command = "stop_execution"]
  <2>1. settleEffect(s, r, b) = n
    BY <1>1, <1>9 DEF settleEffect, ClearVerification, State
  <2>2. /\ n.version = s.version /\ n.status = "cancel_requested"
        /\ n.stage = s.stage /\ n.resumeStage = s.resumeStage
        /\ n.stopTarget = s.stopTarget /\ n.pending = p
        /\ n.remaining = s.remaining /\ n.approval = NoApproval
        /\ n.revision = r.after /\ n.verification = "unverified"
    BY <1>1, <1>9 DEF State
  <2> HIDE DEF p, a, P
  <2>3. n \in State
    BY <1>1, <1>5, <1>7, <1>8 DEF State, P
  <2> HIDE DEF n
  <2>4. validateState(n)
    BY <1>1, <1>2, <1>3, <1>5, <1>6, <1>9, <2>2
       DEF validateState, ValidTerminal, ValidStopTarget, ValidOwner,
           ValidWait, ValidBatch, ValidPending, ValidApproval,
           ValidVerification, unsettled, requireStage, Terminal, Settled
  <2>5. Coherent(n)
    BY <1>1, <1>4, <1>6, <1>9, <2>2 DEF Coherent
  <2> QED BY <2>1, <2>3, <2>4, <2>5 DEF Good
<1>10. CASE s.status # "cancel_requested"
  <2> DEFINE q == IF r.status = "succeeded" THEN s.remaining ELSE << >>
             c == NoEffect
             m == [s EXCEPT !.verification = "unverified", !.verRevision = 0,
                     !.revision = r.after, !.reconRevision = 0,
                     !.approval = a, !.status = "running", !.pending = c,
                     !.remaining = q]
  <2>1. settleEffect(s, r, b) = scheduleEffect(m, b)
    <3> DEFINE n == [ClearVerification(s) EXCEPT
                       !.pending.status = r.status, !.revision = r.after,
                       !.reconRevision = 0, !.approval = NoApproval]
               o == [n EXCEPT !.status = "running", !.pending = NoEffect,
                              !.remaining = IF r.status = "succeeded" THEN @
                                            ELSE << >>]
    <3>1. settleEffect(s, r, b) = scheduleEffect(o, b)
      BY <1>10 DEF settleEffect
    <3>2. n.remaining = s.remaining
      BY <1>1 DEF ClearVerification, State
    <3>3. o = [n EXCEPT !.status = "running", !.pending = c, !.remaining = q]
      BY <3>2
    <3>4. o = m
      <4> HIDE DEF q, c
      <4> QED BY <1>1, <3>3, ZenonT(60) DEF ClearVerification, State
    <3> HIDE DEF o, m
    <3> QED BY <3>1, <3>4
  <2>2. c \in P
    BY NilTyped
  <2>3. q \in Seq([id : OpId, appr : BOOLEAN])
    BY <1>1, NilTyped DEF State
  <2>4. /\ Len(q) <= 128
        /\ \A i, j \in DOMAIN q : q[i].id = q[j].id => i = j
    <3>1. CASE r.status = "succeeded"
      BY <1>1, <3>1 DEF validateState, ValidBatch
    <3>2. CASE r.status # "succeeded"
      BY <3>2
    <3> QED BY <3>1, <3>2
  <2>5. /\ m.version = s.version /\ m.status = "running"
        /\ m.stage = s.stage /\ m.stopTarget = s.stopTarget
        /\ m.owner = s.owner /\ m.epoch = s.epoch
        /\ m.pending = NoEffect /\ m.remaining = q
        /\ m.approval = NoApproval /\ m.revision = r.after
        /\ m.verification = "unverified"
    <3> HIDE DEF q
    <3> QED BY <1>1 DEF State
  <2>6. "running" \in Status
    BY DEF Status
  <2> HIDE DEF a, P, q, c
  <2>7. m \in State
    BY <1>1, <1>7, <1>8, <2>2, <2>3, <2>6 DEF State, P
  <2>8. s.stopTarget = "none" /\ s.version > 0
    BY <1>1, <1>10 DEF validateState, ValidStopTarget
  <2>9. s.stage \notin {"adopt_workspace", "approval_gate"}
    BY <1>10
  <2> HIDE DEF m
  <2>10. Schedulable(m)
    BY <1>4, <1>6, <2>4, <2>5, <2>7, <2>8, <2>9
       DEF Schedulable, ValidBatch, ValidVerification
  <2> QED BY <2>1, <2>10, ScheduleGood
<1> QED BY <1>9, <1>10

\* adopt reconciles an unsettled effect or a changed revision, and otherwise
\* resumes the stage the claim remembered.
LEMMA AdoptGood ==
  ASSUME NEW s, Good(s), NEW b, NEW rev \in Nat, CanAdopt(s, rev, b)
  PROVE  Good(adopt(s, rev, b))
<1> DEFINE g == s.resumeStage
           m == Resumed(s)
<1>1. /\ s \in State /\ validateState(s) /\ Coherent(s)
      /\ s.stage = "adopt_workspace"
      /\ s.status \in {"running", "needs_reconciliation"}
  BY DEF Good, CanAdopt
<1>2. /\ s.revision # 0 /\ s.version > 0 /\ s.stopTarget = "none"
      /\ g \in DOMAIN StageCommand \cup {"execute_effects", "reconcile"}
      /\ s.status = "needs_reconciliation" => g = "reconcile"
  BY <1>1 DEF Coherent, validateState, ValidStopTarget, Terminal
<1>3. g \in Stage /\ g \notin {"initialize", "adopt_workspace", "stopped",
                               "approval_gate"}
  BY <1>2 DEF Stage, StageCommand
<1>4. m = [s EXCEPT !.stage = g, !.resumeStage = "none"] /\ m.stage = g
  BY <1>1 DEF Resumed, State
<1> HIDE DEF g
<1>5. CASE unsettled(s.pending) \/ rev # s.revision
  <2> DEFINE c == IF unsettled(s.pending) THEN "inspect_effect" ELSE "none"
             x == IF unsettled(s.pending) THEN rev ELSE s.reconRevision
             n == [s EXCEPT !.stage = "reconcile", !.command = c,
                            !.status = "needs_reconciliation",
                            !.reconRevision = x]
  <2>1. adopt(s, rev, b) = n
    BY <1>1, <1>5 DEF adopt, Goto, State
  <2>2. /\ "reconcile" \in Stage /\ c \in Command /\ x \in Nat
        /\ "needs_reconciliation" \in Status
    BY <1>1 DEF State, Stage, Command, Status
  <2> HIDE DEF c, x
  <2>3. n \in State
    BY <1>1, <2>2 DEF State
  <2>4. /\ n.version = s.version /\ n.status = "needs_reconciliation"
        /\ n.stage = "reconcile" /\ n.stopTarget = s.stopTarget
        /\ n.pending = s.pending /\ n.remaining = s.remaining
        /\ n.approval = s.approval /\ n.revision = s.revision
        /\ n.verification = s.verification
        /\ n.verRevision = s.verRevision
    BY <1>1 DEF State
  <2> HIDE DEF n
  <2>5. validateState(n)
    BY <1>1, <1>2, <2>4
       DEF validateState, ValidTerminal, ValidStopTarget, ValidOwner,
           ValidWait, ValidBatch, ValidPending, ValidApproval,
           ValidVerification, unsettled, requireStage, approvalMatches,
           Terminal, Settled
  <2>6. Coherent(n)
    BY <1>2, <2>4 DEF Coherent, Quiet, StageCommand
  <2> QED BY <2>1, <2>3, <2>5, <2>6 DEF Good
<1>6. CASE /\ ~unsettled(s.pending) /\ rev = s.revision
           /\ ResumeTooLate(m, b)
  <2> DEFINE n == [s EXCEPT !.stage = g, !.resumeStage = "none",
                            !.stopTarget = "budget_exhausted",
                            !.status = "cancel_requested",
                            !.command = "stop_execution"]
  <2>1. adopt(s, rev, b) = n
    <3>1. adopt(s, rev, b) = stop(m, "budget_exhausted")
      BY <1>6 DEF adopt
    <3> HIDE DEF m
    <3> QED BY <1>1, <1>4, <3>1 DEF stop, State
  <2>2. /\ "budget_exhausted" \in StopTargets /\ "cancel_requested" \in Status
        /\ "stop_execution" \in Command
    BY DEF StopTargets, Status, Command
  <2>3. n \in State
    BY <1>1, <1>3, <2>2 DEF State
  <2>4. /\ n.version = s.version /\ n.status = "cancel_requested"
        /\ n.stage = g /\ n.stopTarget = "budget_exhausted"
        /\ n.pending = s.pending /\ n.remaining = s.remaining
        /\ n.approval = s.approval /\ n.revision = s.revision
        /\ n.verification = s.verification
        /\ n.verRevision = s.verRevision
    BY <1>1 DEF State
  <2> HIDE DEF n
  <2>5. validateState(n)
    BY <1>1, <1>2, <1>3, <2>2, <2>4
       DEF validateState, ValidTerminal, ValidStopTarget, ValidOwner,
           ValidWait, ValidBatch, ValidPending, ValidApproval,
           ValidVerification, unsettled, requireStage, approvalMatches,
           Terminal, Settled
  <2>6. Coherent(n)
    BY <1>2, <1>3, <2>4 DEF Coherent
  <2> QED BY <2>1, <2>3, <2>5, <2>6 DEF Good
<1>7. CASE /\ ~unsettled(s.pending) /\ rev = s.revision
           /\ ~ResumeTooLate(m, b)
  <2>1. g # "reconcile" /\ CanResumeStage(m) /\ s.status = "running"
    BY <1>1, <1>2, <1>7 DEF CanAdopt, g
  <2>2. adopt(s, rev, b) = commandForStage(m)
    BY <1>7 DEF adopt
  <2> HIDE DEF m
  <2>3. s.owner # NoOwner /\ s.epoch > 0
    BY <1>1, <2>1 DEF validateState, ValidOwner
  <2>4. CASE g = "execute_effects"
    <3> DEFINE P == [id : OpId, appr : BOOLEAN, rev : Nat, epoch : Nat,
                     status : EffectStatus \cup {"none"}]
               p == [s.pending EXCEPT !.status = "in_flight",
                                      !.epoch = s.epoch]
               k == s.toolCalls + 1
               n == [s EXCEPT !.stage = "execute_effects",
                       !.resumeStage = "none", !.command = "execute_effect",
                       !.pending = p, !.toolCalls = k]
    <3>1. adopt(s, rev, b) = n
      <4>1. adopt(s, rev, b) = dispatchEffect(m)
        BY <1>4, <2>2, <2>4 DEF commandForStage
      <4> QED BY <1>1, <1>4, <2>4, <4>1 DEF dispatchEffect, State
    <3>2. s.pending \in P /\ k \in Nat /\ s.epoch \in Nat
      BY <1>1 DEF State
    <3>3. /\ p \in P /\ p.id = s.pending.id /\ p.appr = s.pending.appr
          /\ p.rev = s.pending.rev /\ p.epoch = s.epoch
          /\ p.status = "in_flight"
      BY <3>2 DEF EffectStatus
    <3>4. /\ "execute_effects" \in Stage /\ "execute_effect" \in Command
      BY DEF Stage, Command
    <3>5. s.pending.status = "planned" /\ s.pending # NoEffect
      BY <1>1, <1>4, <2>1, <2>4
         DEF CanResumeStage, StageCommand, State, NoEffect
    <3>6. /\ n.version = s.version /\ n.status = "running"
          /\ n.stage = "execute_effects" /\ n.owner = s.owner
          /\ n.epoch = s.epoch /\ n.stopTarget = s.stopTarget
          /\ n.pending = p /\ n.remaining = s.remaining
          /\ n.approval = s.approval /\ n.revision = s.revision
          /\ n.verification = s.verification
          /\ n.verRevision = s.verRevision
      BY <1>1, <2>1 DEF State
    <3> HIDE DEF P, p, k
    <3>7. n \in State
      BY <1>1, <3>2, <3>3, <3>4 DEF State, P
    <3> HIDE DEF n
    <3>8. validateState(n)
      BY <1>1, <1>2, <2>3, <3>3, <3>5, <3>6
         DEF validateState, ValidTerminal, ValidStopTarget, ValidOwner,
             ValidWait, ValidBatch, ValidPending, ValidApproval,
             ValidVerification, unsettled, requireStage, approvalMatches,
             Terminal, Settled
    <3>9. Coherent(n)
      BY <1>2, <3>6 DEF Coherent, Quiet, StageCommand
    <3> QED BY <3>1, <3>7, <3>8, <3>9 DEF Good
  <2>5. CASE g # "execute_effects"
    <3> DEFINE c == StageCommand[g]
               n == [s EXCEPT !.stage = g, !.resumeStage = "none",
                              !.command = c]
    <3>1. adopt(s, rev, b) = n
      BY <1>1, <1>4, <2>2, <2>5 DEF commandForStage, State
    <3>2. g \in DOMAIN StageCommand /\ c \in Command
      BY <1>2, <2>1, <2>5 DEF StageCommand, Command
    <3> HIDE DEF c
    <3>3. n \in State
      BY <1>1, <1>3, <3>2 DEF State
    <3>4. /\ n.version = s.version /\ n.status = "running" /\ n.stage = g
          /\ n.owner = s.owner /\ n.epoch = s.epoch
          /\ n.stopTarget = s.stopTarget
          /\ n.pending = s.pending /\ n.remaining = s.remaining
          /\ n.approval = s.approval /\ n.revision = s.revision
          /\ n.verification = s.verification
          /\ n.verRevision = s.verRevision
      BY <1>1, <2>1 DEF State
    <3>5. /\ s.pending = NoEffect /\ s.remaining = << >>
          /\ s.approval = NoApproval
      BY <1>1, <2>1, <3>2 DEF Coherent, Quiet, g
    <3> HIDE DEF n
    <3>6. validateState(n)
      BY <1>1, <1>2, <1>3, <1>7, <2>3, <2>5, <3>4
         DEF validateState, ValidTerminal, ValidStopTarget, ValidOwner,
             ValidWait, ValidBatch, ValidPending, ValidApproval,
             ValidVerification, unsettled, requireStage, approvalMatches,
             Terminal, Settled
    <3>7. Coherent(n)
      BY <1>2, <1>3, <3>4, <3>5 DEF Coherent
    <3> QED BY <3>1, <3>3, <3>6, <3>7 DEF Good
  <2> QED BY <2>4, <2>5
<1> QED BY <1>5, <1>6, <1>7

-----------------------------------------------------------------------------
(* The specification *)

\* The row is good and the workers' views, from which a batch takes the step
\* number of its operation IDs, are rows.
RowInv == Good(run) /\ view \in [Workers -> State \cup {Idle}]

\* The specification starts with a good row and idle workers.
LEMMA RowInit == Init => RowInv
<1> SUFFICES ASSUME Init PROVE RowInv
  OBVIOUS
<1>1. Good(run)
  BY NewGood DEF Init
<1> QED BY <1>1 DEF Init, RowInv

\* The worker that commits keeps the row it wrote, or nothing.
LEMMA ReloadTyped ==
  ASSUME NEW w \in Workers, view \in [Workers -> State \cup {Idle}],
         Good(run'), Reload(w)
  PROVE  RowInv'
<1>1. run' \in State
  BY DEF Good
<1>2. view' \in [Workers -> State \cup {Idle}]
  BY <1>1 DEF Reload
<1> QED BY <1>2 DEF RowInv

\* A worker's event commits a good row if the reducer returned one.
LEMMA AdvanceInv ==
  ASSUME RowInv, NEW w \in Workers, NEW kind, NEW next, NEW batch, NEW r,
         Good(next), Advance(w, kind, next, batch, r)
  PROVE  RowInv'
<1>1. Good(run') /\ Reload(w)
  BY BumpGood DEF Advance, persistTransition
<1> QED BY <1>1, ReloadTyped DEF RowInv

\* What an accepted worker event says of the row: a live owner, not terminal.
LEMMA AcceptedFacts ==
  ASSUME NEW w \in Workers, NEW kind, NEW e, NEW v, Accepts(run, kind, w, e, v)
  PROVE  /\ run.status \notin Terminal
         /\ kind \notin controlEvent \cup {"claimed"}
               => run.owner # NoOwner /\ run.epoch > 0
BY OwnerAssumption DEF Accepts, LeaseValid

\* The batch validateTools numbers from a view is a sequence of operations.
LEMMA BatchTyped ==
  ASSUME NEW s \in State, NEW flags \in Batches
  PROVE  BatchOf(s, flags) \in Seq([id : OpId, appr : BOOLEAN])
<1>1. flags \in Seq(BOOLEAN) /\ s.rounds \in Nat
  BY BatchAssumption DEF State
<1>2. /\ DOMAIN flags = 1 .. Len(flags) /\ Len(flags) \in Nat
      /\ \A i \in 1 .. Len(flags) : flags[i] \in BOOLEAN
  BY <1>1
<1>3. \A i \in 1 .. Len(flags) :
        [id |-> <<s.rounds, i - 1>>, appr |-> flags[i]]
          \in [id : OpId, appr : BOOLEAN]
  BY <1>1, <1>2 DEF OpId
<1> QED BY <1>2, <1>3 DEF BatchOf

\* Claim, Refresh, Crash, Defer and RequeueCapacity preserve the invariant.
LEMMA ScheduleSteps ==
  ASSUME RowInv, NEW w \in Workers,
         Claim(w) \/ Refresh(w) \/ Crash(w) \/ Defer(w) \/ RequeueCapacity(w)
  PROVE  RowInv'
<1>1. Good(run) /\ run \in State /\ view \in [Workers -> State \cup {Idle}]
  BY DEF RowInv, Good
<1>2. CASE Claim(w)
  <2>1. Good(claim(run, w))
    BY <1>1, <1>2, ClaimGood DEF Claim, Accepts
  <2>2. Good(run') /\ Reload(w)
    BY <1>2, <2>1, BumpGood DEF Claim, persistTransition
  <2> QED BY <1>1, <2>2, ReloadTyped
<1>3. CASE Refresh(w)
  BY <1>1, <1>3 DEF Refresh, RowInv
<1>4. CASE Crash(w)
  BY <1>1, <1>4 DEF Crash, RowInv
<1>5. CASE Defer(w)
  <2>1. Good(run')
    BY <1>1, <1>5, ExpireGood DEF Defer
  <2> QED BY <1>1, <1>5, <2>1 DEF Defer, RowInv
<1>6. CASE RequeueCapacity(w)
  <2>1. Good(capacityRejected(run))
    BY <1>1, <1>6, RejectGood DEF RequeueCapacity
  <2>2. Good(run') /\ Reload(w)
    BY <1>6, <2>1, BumpGood DEF RequeueCapacity, persistTransition
  <2> QED BY <1>1, <2>2, ReloadTyped
<1> QED BY <1>2, <1>3, <1>4, <1>5, <1>6

\* The reports of a worker about its stage preserve the invariant.
LEMMA StageSteps ==
  ASSUME RowInv, NEW w \in Workers,
         \/ WorkspaceReady(w, 1)
         \/ \E rev \in Revisions : WorkspaceAdopted(w, rev)
         \/ \E stuck \in BOOLEAN : ContextBuilt(w, stuck)
         \/ \E cost \in Costs, finish \in BOOLEAN :
              ModelCompleted(w, cost, finish)
         \/ \E flags \in Batches : ToolsValidated(w, flags)
         \/ ResultsIngested(w)
         \/ \E e \in Evidence : VerificationCompleted(w, e)
         \/ Finalized(w)
  PROVE  RowInv'
<1>1. Good(run) /\ run \in State /\ view \in [Workers -> State \cup {Idle}]
  BY DEF RowInv, Good
<1>2. Revisions \subseteq Nat /\ Costs \subseteq Nat
  BY BoundAssumption, OutcomeAssumption DEF Revisions
<1>3. CASE WorkspaceReady(w, 1)
  <2>1. Good(workspaceReady(run, 1))
    BY <1>1, <1>3, ReadyGood DEF WorkspaceReady
  <2> QED BY <1>3, <2>1, AdvanceInv DEF WorkspaceReady
<1>4. ASSUME NEW rev \in Revisions, WorkspaceAdopted(w, rev) PROVE RowInv'
  <2>1. Good(adopt(run, rev, late))
    BY <1>1, <1>2, <1>4, AdoptGood DEF WorkspaceAdopted
  <2> QED BY <1>4, <2>1, AdvanceInv DEF WorkspaceAdopted
<1>5. ASSUME NEW stuck \in BOOLEAN, ContextBuilt(w, stuck) PROVE RowInv'
  <2>1. Good(contextBuilt(run, late, stuck))
    BY <1>1, <1>5, ContextGood DEF ContextBuilt
  <2> QED BY <1>5, <2>1, AdvanceInv DEF ContextBuilt
<1>6. ASSUME NEW cost \in Costs, NEW finish \in BOOLEAN,
             ModelCompleted(w, cost, finish)
      PROVE  RowInv'
  <2>1. Good(modelCompleted(run, cost, finish, late))
    BY <1>1, <1>2, <1>6, ModelGood DEF ModelCompleted
  <2> QED BY <1>6, <2>1, AdvanceInv DEF ModelCompleted
<1>7. ASSUME NEW flags \in Batches, ToolsValidated(w, flags) PROVE RowInv'
  <2> DEFINE batch == BatchOf(view[w], flags)
  <2>1. view[w] \in State
    BY <1>1, <1>7 DEF ToolsValidated, Driving
  <2>2. batch \in Seq([id : OpId, appr : BOOLEAN])
    BY <2>1, BatchTyped
  <2>3. /\ CanValidate(run, batch)
        /\ Advance(w, "tools_validated", toolsValidated(run, batch, late),
                   batch, NoReceipt)
    BY <1>7 DEF ToolsValidated
  <2> HIDE DEF batch
  <2>4. Good(toolsValidated(run, batch, late))
    BY <1>1, <2>2, <2>3, ToolsGood
  <2> QED BY <2>3, <2>4, AdvanceInv
<1>8. CASE ResultsIngested(w)
  <2>1. Good(resultsIngested(run))
    BY <1>1, <1>8, IngestGood DEF ResultsIngested
  <2> QED BY <1>8, <2>1, AdvanceInv DEF ResultsIngested
<1>9. ASSUME NEW e \in Evidence, VerificationCompleted(w, e) PROVE RowInv'
  <2> DEFINE v == [rev |-> view[w].revision, regression |-> e.regression,
                   baseline |-> e.baseline, target |-> e.target]
  <2>1. /\ CanVerify(run, v) /\ v.rev = run.revision
        /\ Advance(w, "verification_completed", verify(run, v), << >>,
                   NoReceipt)
    BY <1>9 DEF VerificationCompleted, CanVerify
  <2> HIDE DEF v
  <2>2. v.rev \in Nat
    BY <1>1, <2>1 DEF State
  <2>3. Good(verify(run, v))
    BY <1>1, <2>1, <2>2, VerifyGood
  <2> QED BY <2>1, <2>3, AdvanceInv
<1>10. CASE Finalized(w)
  <2>1. Good(finalized(run))
    BY <1>1, <1>10, FinalizeGood DEF Finalized
  <2> QED BY <1>10, <2>1, AdvanceInv DEF Finalized
<1> QED BY <1>3, <1>4, <1>5, <1>6, <1>7, <1>8, <1>9, <1>10

\* The reports of a worker about a tool effect preserve the invariant.
LEMMA EffectSteps ==
  ASSUME RowInv, NEW w \in Workers,
         \/ \E r \in ReceiptsFor(run.pending) : EffectCompleted(w, r)
         \/ EffectUncertain(w)
         \/ \E r \in ReceiptsFor(run.pending) : Reconciled(w, r)
  PROVE  RowInv'
<1>1. Good(run) /\ run \in State
  BY DEF RowInv, Good
<1>2. ASSUME NEW r \in ReceiptsFor(run.pending) PROVE r.after \in Nat
  BY BoundAssumption DEF ReceiptsFor, Revisions
<1>3. ASSUME NEW r \in ReceiptsFor(run.pending), EffectCompleted(w, r)
      PROVE  RowInv'
  <2>1. /\ run.status = "running" /\ run.stage = "execute_effects"
        /\ CanSettle(run, r, FALSE) /\ run.status \notin Terminal
        /\ Accepts(run, "effect_completed", w, view[w].epoch, view[w].version)
        /\ Advance(w, "effect_completed", settleEffect(run, r, late), << >>,
                   r)
    BY <1>3 DEF EffectCompleted, requireStage, Terminal, Advance
  <2>2. run.owner # NoOwner /\ run.epoch > 0
    BY <2>1, AcceptedFacts DEF controlEvent
  <2>3. Good(settleEffect(run, r, late))
    BY <1>1, <1>2, <2>1, <2>2, SettleGood
  <2> QED BY <2>1, <2>3, AdvanceInv
<1>4. CASE EffectUncertain(w)
  <2>1. Good(effectUncertain(run))
    BY <1>1, <1>4, UncertainGood DEF EffectUncertain
  <2> QED BY <1>4, <2>1, AdvanceInv DEF EffectUncertain
<1>5. ASSUME NEW r \in ReceiptsFor(run.pending), Reconciled(w, r)
      PROVE  RowInv'
  <2>1. /\ run.status \in {"needs_reconciliation", "cancel_requested"}
        /\ run.status # "cancel_requested" => run.stage = "reconcile"
        /\ CanSettle(run, r, TRUE)
        /\ Accepts(run, "reconciled", w, view[w].epoch, view[w].version)
        /\ Advance(w, "reconciled", settleEffect(run, r, late), << >>, r)
    BY <1>5 DEF Reconciled, CanReconcile, Advance
  <2>2. /\ run.status \notin Terminal
        /\ run.owner # NoOwner /\ run.epoch > 0
    BY <2>1, AcceptedFacts DEF controlEvent
  <2>3. Good(settleEffect(run, r, late))
    BY <1>1, <1>2, <2>1, <2>2, SettleGood
  <2> QED BY <2>1, <2>3, AdvanceInv
<1> QED BY <1>3, <1>4, <1>5

\* Failures, exhausted budgets and confirmed stops preserve the invariant.
LEMMA StopSteps ==
  ASSUME RowInv, NEW w \in Workers,
         \/ BudgetReached(w) \/ Failed(w)
         \/ \E rev \in {0} \cup Revisions : CancellationConfirmed(w, rev)
  PROVE  RowInv'
<1>1. /\ Good(run) /\ "budget_exhausted" \in StopTargets
      /\ "failed" \in StopTargets
  BY DEF RowInv, StopTargets
<1>2. CASE BudgetReached(w)
  <2>1. run.status \notin Terminal
    BY <1>2 DEF BudgetReached, Advance, Accepts
  <2>2. Good(stop(run, "budget_exhausted"))
    BY <1>1, <2>1, StopGood
  <2> QED BY <1>2, <2>2, AdvanceInv DEF BudgetReached
<1>3. CASE Failed(w)
  <2>1. run.status \notin Terminal
    BY <1>3 DEF Failed, Advance, Accepts
  <2>2. Good(stop(run, "failed"))
    BY <1>1, <2>1, StopGood
  <2> QED BY <1>3, <2>2, AdvanceInv DEF Failed
<1>4. ASSUME NEW rev \in {0} \cup Revisions, CancellationConfirmed(w, rev)
      PROVE  RowInv'
  <2>1. rev \in Nat
    BY BoundAssumption DEF Revisions
  <2>2. Good(confirmStop(run, rev))
    BY <1>1, <1>4, <2>1, ConfirmGood DEF CancellationConfirmed
  <2> QED BY <1>4, <2>2, AdvanceInv DEF CancellationConfirmed
<1> QED BY <1>2, <1>3, <1>4

\* The API's cancel, resume and decision preserve the invariant.
LEMMA ApiSteps == ASSUME RowInv, ApiStep PROVE RowInv'
<1>1. Good(run) /\ "cancelled" \in StopTargets
      /\ view \in [Workers -> State \cup {Idle}]
  BY DEF RowInv, StopTargets
<1>2. CASE Cancel
  <2>1. run.status \notin Terminal
    BY <1>2 DEF Cancel, Control, Accepts
  <2>2. Good(stop(run, "cancelled"))
    BY <1>1, <2>1, StopGood
  <2>3. Good(run') /\ view' = view
    BY <1>2, <2>2, BumpGood DEF Cancel, Control, persistTransition
  <2> QED BY <1>1, <2>3 DEF RowInv
<1>3. CASE Resume
  <2>1. Good(resumeRequested(run))
    BY <1>1, <1>3, ResumeGood DEF Resume
  <2>2. Good(run') /\ view' = view
    BY <1>3, <2>1, BumpGood DEF Resume, Control, persistTransition
  <2> QED BY <1>1, <2>2 DEF RowInv
<1>4. ASSUME NEW id \in DOMAIN approvals, NEW allow \in BOOLEAN,
             Decide(id, allow)
      PROVE  RowInv'
  <2>1. PICK b : CanDecide(run, b)
    BY <1>4 DEF Decide
  <2>2. Good(decideApproval(run, allow))
    BY <1>1, <2>1, DecideGood
  <2>3. Good(run') /\ view' = view
    BY <1>4, <2>2, BumpGood DEF Decide
  <2> QED BY <1>1, <2>3 DEF RowInv
<1> QED BY <1>2, <1>3, <1>4 DEF ApiStep

\* Every step preserves the invariant: one case per group of actions.
LEMMA RowNext == RowInv /\ [Next]_vars => RowInv'
<1> SUFFICES ASSUME RowInv, [Next]_vars PROVE RowInv'
  OBVIOUS
<1>1. ASSUME NEW w \in Workers, WorkerStep(w) PROVE RowInv'
  <2>1. CASE \/ Claim(w) \/ Refresh(w) \/ Crash(w) \/ Defer(w)
             \/ RequeueCapacity(w)
    BY <2>1, ScheduleSteps
  <2>2. CASE \/ WorkspaceReady(w, 1)
             \/ \E rev \in Revisions : WorkspaceAdopted(w, rev)
             \/ \E stuck \in BOOLEAN : ContextBuilt(w, stuck)
             \/ \E cost \in Costs, finish \in BOOLEAN :
                  ModelCompleted(w, cost, finish)
             \/ \E flags \in Batches : ToolsValidated(w, flags)
             \/ ResultsIngested(w)
             \/ \E e \in Evidence : VerificationCompleted(w, e)
             \/ Finalized(w)
    BY <2>2, StageSteps
  <2>3. CASE \/ \E r \in ReceiptsFor(run.pending) : EffectCompleted(w, r)
             \/ EffectUncertain(w)
             \/ \E r \in ReceiptsFor(run.pending) : Reconciled(w, r)
    BY <2>3, EffectSteps
  <2>4. CASE \/ BudgetReached(w) \/ Failed(w)
             \/ \E rev \in {0} \cup Revisions : CancellationConfirmed(w, rev)
    BY <2>4, StopSteps
  <2>5. CASE \/ \E ordinal \in SystemOps : PlanSystemEffect(w, ordinal)
             \/ \E r \in SystemReceipts : SettleSystemEffect(w, r)
    BY <2>5 DEF PlanSystemEffect, SettleSystemEffect, RowInv
  <2> QED BY <1>1, <2>1, <2>2, <2>3, <2>4, <2>5 DEF WorkerStep
<1>2. CASE ApiStep
  BY <1>2, ApiSteps
<1>3. CASE LeaseExpires
  <2>1. Good(run')
    BY <1>3, ExpireGood DEF LeaseExpires, RowInv
  <2> QED BY <1>3, <2>1 DEF LeaseExpires, RowInv
<1>4. CASE DeadlinePasses \/ UNCHANGED vars
  BY <1>4 DEF DeadlinePasses, vars, RowInv
<1> QED BY <1>1, <1>2, <1>3, <1>4 DEF Next

\* For any number of workers, batches, bounds and limits: the row is always a
\* State, and the reducer's last check never refuses what a case accepted.
THEOREM SnapshotAlwaysValid == Spec => [](run \in State /\ SnapshotValid)
<1>1. RowInv => run \in State /\ SnapshotValid
  BY DEF RowInv, Good, SnapshotValid
<1> QED BY RowInit, RowNext, <1>1, PTL DEF Spec

-----------------------------------------------------------------------------
(* The ledgers and the snapshot: the invariant *)

\* The run is in stage g, or a claim will bring it back there.
At(s, g) ==
  /\ s.status # "cancel_requested"
  /\ s.stage = g \/ (s.stage = "adopt_workspace" /\ s.resumeStage = g)

EffectRow == [status : EffectStatus, rev : Nat, epoch : Nat]

\* Rows are typed, and none has the ID of the nil receipt.
RowsTyped ==
  \A id \in DOMAIN effects :
    id \in OpId /\ id # <<0, 0>> /\ effects[id] \in EffectRow

\* The effects of a snapshot are tool calls, never system effects, and a row
\* keeps the epoch that dispatched it after its receipt.
ToolEffects ==
  /\ run.pending # NoEffect =>
       /\ run.pending.id[2] >= 0
       /\ run.pending.epoch > 0
            => effects[run.pending.id].epoch = run.pending.epoch
  /\ \A i \in DOMAIN run.remaining : run.remaining[i].id[2] >= 0

ApprovalRow == [rev : Nat, version : Nat, decision : {"none", "allow", "deny"}]

ApprovalsTyped == \A id \in DOMAIN approvals : approvals[id] \in ApprovalRow

\* A granted binding is a recorded decision.
GrantRecorded ==
  run.approval.granted =>
    /\ run.approval.id \in DOMAIN approvals
    /\ approvals[run.approval.id].decision = "allow"
    /\ approvals[run.approval.id].rev = run.approval.rev

\* System effects are planned for a step the run has reached, the regression
\* check only once the run verifies, at the revision it verifies; a run that
\* finalizes has passed it.  A tool batch is numbered from 1.
SystemRows ==
  /\ \A id \in DOMAIN effects : id[2] < 0 => id[1] <= run.rounds
  /\ At(run, "model_step") =>
       run.rounds > 0 /\ SystemId(run, -3) \notin DOMAIN effects
  /\ At(run, "validate_tool_calls") => run.rounds > 0
  /\ At(run, "verify") /\ SystemId(run, -3) \in DOMAIN effects
        => effects[SystemId(run, -3)].rev = run.revision
  /\ (At(run, "finalize") \/ run.status = "completed") /\ -3 \in SystemOps
        => /\ SystemId(run, -3) \in DOMAIN effects
           /\ effects[SystemId(run, -3)].status = "succeeded"
           /\ effects[SystemId(run, -3)].rev = run.revision

\* The verify command belongs to the verify stage, and a run that stops or has
\* stopped has no other command than to stop or to publish.
CommandFits ==
  /\ run.command = "verify" => run.stage = "verify"
  /\ run.status \in Terminal \cup {"cancel_requested"}
        => run.command \in {"stop_execution", "publish_terminal"}

\* A worker's view is an earlier row, or the row itself up to its lease.
ViewsOld ==
  \A w \in Workers : view[w] # Idle =>
    /\ view[w].version <= run.version
    /\ view[w].version = run.version =>
         /\ view[w].rounds = run.rounds /\ view[w].revision = run.revision
         /\ view[w].command = run.command

\* A completed run has nothing left of a batch.
CompletedEmpty ==
  run.status = "completed" =>
    run.remaining = << >> /\ run.verification # "unverified"

RunInv ==
  /\ RowsTyped /\ LedgerAgrees /\ ToolEffects
  /\ ApprovalsTyped /\ GrantRecorded /\ ApprovalBinds
  /\ UncertainKeepsCapacity
  /\ SystemRows /\ CommandFits /\ ViewsOld /\ CompletedEmpty

-----------------------------------------------------------------------------
(* What a reducer function does to the state the ledgers mirror *)

\* r is a receipt of the effect that may be executing.
ReceiptOf(s, r) ==
  unsettled(s.pending) /\ r.id = s.pending.id /\ r.status \in Settled

\* The pending effect stays, is marked unknown, is dispatched under its grant,
\* or gets its receipt and stays until the run has stopped.
SamePending(s, n, r) ==
  \/ r = NoReceipt /\ n.pending = s.pending
  \/ /\ r = NoReceipt /\ unsettled(s.pending)
     /\ n.pending = [s.pending EXCEPT !.status = "unknown"]
  \/ /\ r = NoReceipt /\ s.pending.status = "planned"
     /\ n.pending = [s.pending EXCEPT !.status = "in_flight",
                                      !.epoch = s.epoch]
     /\ s.pending.appr => /\ s.approval.granted
                          /\ s.approval.id = s.pending.id
                          /\ s.approval.rev = s.pending.rev
     /\ s.status # "cancel_requested"
  \/ /\ ReceiptOf(s, r)
     /\ n.pending = [s.pending EXCEPT !.status = r.status]

\* The pending effect is settled, or there was none, and the next of the batch
\* takes its place: planned, or dispatched at once if it needs no approval.
NextPending(s, n, batch, r) ==
  /\ s.status # "cancel_requested"
  /\ (r = NoReceipt /\ s.pending = NoEffect) \/ ReceiptOf(s, r)
  /\ \/ n.pending = NoEffect
     \/ /\ n.pending.id \in BatchIds(s.remaining) \cup BatchIds(batch)
        /\ n.pending.status \in {"planned", "in_flight"}
        /\ n.pending.status = "in_flight" => ~n.pending.appr

EffectLink(s, n, batch, r) ==
  /\ SamePending(s, n, r) \/ NextPending(s, n, batch, r)
  /\ BatchIds(n.remaining) \subseteq BatchIds(s.remaining) \cup BatchIds(batch)

\* Which stages a step leads to, from where, and what it keeps.
StageLink(s, n) ==
  /\ n.version = s.version /\ n.rounds >= s.rounds
  /\ At(n, "model_step") =>
       \/ At(s, "model_step") /\ n.rounds = s.rounds
       \/ n.rounds = s.rounds + 1
  /\ At(n, "validate_tool_calls") =>
       /\ n.rounds = s.rounds
       /\ At(s, "validate_tool_calls") \/ At(s, "model_step")
  /\ At(n, "verify") =>
       /\ n.rounds = s.rounds /\ n.revision = s.revision
       /\ At(s, "verify") \/ At(s, "model_step")
  /\ At(n, "finalize") \/ n.status = "completed" =>
       /\ n.rounds = s.rounds /\ n.revision = s.revision
       /\ \/ At(s, "finalize")
          \/ /\ At(s, "verify")
             /\ -3 \in SystemOps => SystemStatus(s, -3) = "succeeded"
  /\ n.status = "completed"
       => n.remaining = << >> /\ n.verification # "unverified"
  /\ n.command = "verify" => n.stage = "verify"
  /\ n.status \in Terminal \cup {"cancel_requested"}
       => n.command \in {"stop_execution", "publish_terminal"}

\* A stopping run only stops.
StopLink(s, n) ==
  s.status = "cancel_requested" =>
    /\ n.status \in {s.status, s.stopTarget} /\ n.stopTarget = s.stopTarget
    /\ n.toolCalls = s.toolCalls /\ n.rounds = s.rounds

Link(s, n, batch, r) ==
  EffectLink(s, n, batch, r) /\ StageLink(s, n) /\ StopLink(s, n)

\* No step but a decision grants an approval.
NoGrant(s, n) == n.approval.granted => n.approval = s.approval

\* A claim keeps the effect and the batch, and remembers the stage.
LEMMA ClaimLink ==
  ASSUME NEW s, Good(s), NEW w \in Workers, CanClaim(s),
         s.status \notin Terminal
  PROVE  Link(s, claim(s, w), << >>, NoReceipt) /\ NoGrant(s, claim(s, w))
<1> DEFINE n == claim(s, w)
<1>1. s \in State
  BY DEF Good
<1>2. /\ n.version = s.version /\ n.rounds = s.rounds
      /\ n.pending = s.pending /\ n.remaining = s.remaining
      /\ n.approval = s.approval /\ n.revision = s.revision
      /\ n.stopTarget = s.stopTarget /\ n.toolCalls = s.toolCalls
      /\ n.status = (IF s.status = "queued" THEN "running" ELSE s.status)
      /\ s.status = "cancel_requested" => n.command = "stop_execution"
      /\ n.command # "verify"
  BY <1>1 DEF claim, State
<1>3. s.status # "cancel_requested" =>
        \/ n.stage = "adopt_workspace"
             /\ n.resumeStage = (IF s.stage = "adopt_workspace"
                                 THEN s.resumeStage ELSE s.stage)
        \/ n.stage = "initialize"
  BY <1>1 DEF claim, State, CanClaim
<1> HIDE DEF n
<1>4. EffectLink(s, n, << >>, NoReceipt)
  BY <1>2 DEF EffectLink, SamePending
<1>5. StageLink(s, n)
  BY <1>1, <1>2, <1>3 DEF StageLink, At, State, Terminal
<1>6. StopLink(s, n) /\ NoGrant(s, n)
  BY <1>2 DEF StopLink, NoGrant
<1> QED BY <1>4, <1>5, <1>6 DEF Link, n

\* stop keeps the effect, the batch and the stage.
LEMMA StopLinks ==
  ASSUME NEW s, Good(s), NEW t \in StopTargets, s.status # "cancel_requested"
  PROVE  Link(s, stop(s, t), << >>, NoReceipt) /\ NoGrant(s, stop(s, t))
<1> DEFINE n == stop(s, t)
<1>1. s \in State
  BY DEF Good
<1>2. /\ n.version = s.version /\ n.rounds = s.rounds
      /\ n.pending = s.pending /\ n.remaining = s.remaining
      /\ n.approval = s.approval /\ n.status = "cancel_requested"
      /\ n.command = "stop_execution"
  BY <1>1 DEF stop, State
<1> HIDE DEF n
<1>3. EffectLink(s, n, << >>, NoReceipt)
  BY <1>2 DEF EffectLink, SamePending
<1>4. StageLink(s, n) /\ StopLink(s, n) /\ NoGrant(s, n)
  BY <1>1, <1>2 DEF StageLink, StopLink, NoGrant, At, State
<1> QED BY <1>3, <1>4 DEF Link, n

\* A run without a workspace goes back to the queue as it was.
LEMMA RejectLink ==
  ASSUME NEW s, Good(s), CanRejectCapacity(s)
  PROVE  /\ Link(s, capacityRejected(s), << >>, NoReceipt)
         /\ NoGrant(s, capacityRejected(s))
<1> DEFINE n == capacityRejected(s)
<1>1. s \in State /\ s.status = "running" /\ s.stage = "initialize"
  BY DEF Good, CanRejectCapacity, requireStage
<1>2. /\ n.version = s.version /\ n.rounds = s.rounds
      /\ n.pending = s.pending /\ n.remaining = s.remaining
      /\ n.approval = s.approval /\ n.status = "queued"
      /\ n.stage = "initialize" /\ n.command = "none"
  BY <1>1 DEF capacityRejected, State
<1> HIDE DEF n
<1>3. EffectLink(s, n, << >>, NoReceipt)
  BY <1>2 DEF EffectLink, SamePending
<1>4. StageLink(s, n) /\ StopLink(s, n) /\ NoGrant(s, n)
  BY <1>1, <1>2 DEF StageLink, StopLink, NoGrant, At, State, Terminal
<1> QED BY <1>3, <1>4 DEF Link, n

\* The first revision opens the context stage and touches no effect.
LEMMA ReadyLink ==
  ASSUME NEW s, Good(s), requireStage(s, "initialize"), NEW rev
  PROVE  /\ Link(s, workspaceReady(s, rev), << >>, NoReceipt)
         /\ NoGrant(s, workspaceReady(s, rev))
<1> DEFINE n == workspaceReady(s, rev)
<1>1. s \in State /\ s.status = "running"
  BY DEF Good, requireStage
<1>2. /\ n.version = s.version /\ n.rounds = s.rounds
      /\ n.pending = s.pending /\ n.remaining = s.remaining
      /\ n.approval = s.approval /\ n.status = "running"
      /\ n.stage = "build_context" /\ n.command = "build_context"
  BY <1>1 DEF workspaceReady, Goto, State
<1> HIDE DEF n
<1>3. EffectLink(s, n, << >>, NoReceipt)
  BY <1>2 DEF EffectLink, SamePending
<1>4. StageLink(s, n) /\ StopLink(s, n) /\ NoGrant(s, n)
  BY <1>1, <1>2 DEF StageLink, StopLink, NoGrant, At, State, Terminal
<1> QED BY <1>3, <1>4 DEF Link, n

\* An effect whose answer was lost is marked unknown.
LEMMA UncertainLink ==
  ASSUME NEW s, Good(s), requireStage(s, "execute_effects"),
         unsettled(s.pending)
  PROVE  /\ Link(s, effectUncertain(s), << >>, NoReceipt)
         /\ NoGrant(s, effectUncertain(s))
<1> DEFINE n == effectUncertain(s)
<1>1. s \in State /\ s.status = "running"
  BY DEF Good, requireStage
<1>2. /\ n.version = s.version /\ n.rounds = s.rounds
      /\ n.remaining = s.remaining
      /\ n.approval = s.approval /\ n.status = "needs_reconciliation"
      /\ n.stage = "reconcile" /\ n.command = "inspect_effect"
  BY <1>1 DEF effectUncertain, Goto, State
<1>3. n.pending = [s.pending EXCEPT !.status = "unknown"]
  BY <1>1 DEF effectUncertain, Goto, State
<1> HIDE DEF n
<1>4. EffectLink(s, n, << >>, NoReceipt)
  BY <1>2, <1>3 DEF EffectLink, SamePending
<1>5. StageLink(s, n) /\ StopLink(s, n) /\ NoGrant(s, n)
  BY <1>1, <1>2 DEF StageLink, StopLink, NoGrant, At, State, Terminal
<1> QED BY <1>4, <1>5 DEF Link, n

\* The results of a finished batch lead to the next context.
LEMMA IngestLink ==
  ASSUME NEW s, Good(s), requireStage(s, "ingest_results")
  PROVE  /\ Link(s, resultsIngested(s), << >>, NoReceipt)
         /\ NoGrant(s, resultsIngested(s))
<1> DEFINE n == resultsIngested(s)
<1>1. s \in State /\ s.status = "running"
  BY DEF Good, requireStage
<1>2. /\ n.version = s.version /\ n.rounds = s.rounds
      /\ n.pending = s.pending /\ n.remaining = s.remaining
      /\ n.approval = s.approval /\ n.status = "running"
      /\ n.stage = "build_context" /\ n.command = "build_context"
  BY <1>1 DEF resultsIngested, Goto, State
<1> HIDE DEF n
<1>3. EffectLink(s, n, << >>, NoReceipt)
  BY <1>2 DEF EffectLink, SamePending
<1>4. StageLink(s, n) /\ StopLink(s, n) /\ NoGrant(s, n)
  BY <1>1, <1>2 DEF StageLink, StopLink, NoGrant, At, State, Terminal
<1> QED BY <1>3, <1>4 DEF Link, n

\* A resume request clears the lease of a run that waits for reconciliation.
LEMMA ResumeLink ==
  ASSUME NEW s, Good(s), CanResume(s)
  PROVE  /\ Link(s, resumeRequested(s), << >>, NoReceipt)
         /\ NoGrant(s, resumeRequested(s))
<1> DEFINE n == resumeRequested(s)
<1>1. s \in State /\ s.status = "needs_reconciliation"
  BY DEF Good, CanResume
<1>2. /\ n.version = s.version /\ n.rounds = s.rounds
      /\ n.pending = s.pending /\ n.remaining = s.remaining
      /\ n.approval = s.approval /\ n.status = s.status
      /\ n.revision = s.revision
      /\ n.stage = s.stage /\ n.resumeStage = s.resumeStage
      /\ n.command = "none"
  BY <1>1 DEF resumeRequested, State
<1> HIDE DEF n
<1>3. EffectLink(s, n, << >>, NoReceipt)
  BY <1>2 DEF EffectLink, SamePending
<1>4. StageLink(s, n) /\ StopLink(s, n) /\ NoGrant(s, n)
  BY <1>1, <1>2 DEF StageLink, StopLink, NoGrant, At, State, Terminal
<1> QED BY <1>3, <1>4 DEF Link, n

\* Only a verified run in the finalize stage completes.
LEMMA FinalizeLink ==
  ASSUME NEW s, Good(s), CanFinalize(s)
  PROVE  /\ Link(s, finalized(s), << >>, NoReceipt)
         /\ NoGrant(s, finalized(s))
<1> DEFINE n == finalized(s)
<1>1. /\ s \in State /\ s.status = "running" /\ s.stage = "finalize"
      /\ s.remaining = << >> /\ s.verification # "unverified"
  BY DEF Good, CanFinalize, requireStage
<1>2. /\ n.version = s.version /\ n.rounds = s.rounds
      /\ n.pending = s.pending /\ n.remaining = s.remaining
      /\ n.approval = s.approval /\ n.status = "completed"
      /\ n.revision = s.revision /\ n.verification = s.verification
      /\ n.stage = "stopped" /\ n.command = "publish_terminal"
  BY <1>1 DEF finalized, Goto, State
<1> HIDE DEF n
<1>3. EffectLink(s, n, << >>, NoReceipt)
  BY <1>2 DEF EffectLink, SamePending
<1>4. StageLink(s, n) /\ StopLink(s, n) /\ NoGrant(s, n)
  BY <1>1, <1>2 DEF StageLink, StopLink, NoGrant, At, State, Terminal
<1> QED BY <1>3, <1>4 DEF Link, n

\* Evidence with a passed regression check leads to the finalize stage only if
\* the check's receipt says so.
LEMMA VerifyLink ==
  ASSUME NEW s, Good(s), NEW v, CanVerify(s, v),
         v.regression /\ -3 \in SystemOps => SystemStatus(s, -3) = "succeeded"
  PROVE  /\ Link(s, verify(s, v), << >>, NoReceipt)
         /\ NoGrant(s, verify(s, v))
<1> DEFINE n == verify(s, v)
<1>1. s \in State /\ s.status = "running" /\ s.stage = "verify"
  BY DEF Good, CanVerify, requireStage
<1>2. /\ n.version = s.version /\ n.rounds = s.rounds
      /\ n.pending = s.pending /\ n.remaining = s.remaining
      /\ n.approval = s.approval /\ n.status = "running"
      /\ n.revision = s.revision
      /\ n.stage = n.command
      /\ \/ n.stage = "build_context"
         \/ n.stage = "finalize" /\ v.regression
  BY <1>1 DEF verify, Goto, State
<1> HIDE DEF n
<1>3. EffectLink(s, n, << >>, NoReceipt)
  BY <1>2 DEF EffectLink, SamePending
<1>4. StageLink(s, n) /\ StopLink(s, n) /\ NoGrant(s, n)
  BY <1>1, <1>2, SMTT(30) DEF StageLink, StopLink, NoGrant, At, State, Terminal
<1> QED BY <1>3, <1>4 DEF Link, n

\* A confirmed stop ends the run with the target it had, never as completed.
LEMMA ConfirmLink ==
  ASSUME NEW s, Good(s), NEW rev, CanConfirmStop(s, rev)
  PROVE  /\ Link(s, confirmStop(s, rev), << >>, NoReceipt)
         /\ NoGrant(s, confirmStop(s, rev))
<1> DEFINE n == confirmStop(s, rev)
<1>1. /\ s \in State /\ s.status = "cancel_requested"
      /\ s.stopTarget \in StopTargets
  BY DEF Good, CanConfirmStop, State
<1>2. /\ n.version = s.version /\ n.rounds = s.rounds
      /\ n.pending = s.pending /\ n.remaining = << >>
      /\ n.approval = NoApproval /\ n.status = s.stopTarget
      /\ n.stopTarget = s.stopTarget /\ n.toolCalls = s.toolCalls
      /\ n.stage = "stopped" /\ n.command = "publish_terminal"
  BY <1>1 DEF confirmStop, ClearVerification, Goto, State
<1> HIDE DEF n
<1>3. EffectLink(s, n, << >>, NoReceipt)
  BY <1>2 DEF EffectLink, SamePending, BatchIds
<1>4. StageLink(s, n) /\ StopLink(s, n) /\ NoGrant(s, n)
  BY <1>1, <1>2
     DEF StageLink, StopLink, NoGrant, At, State, StopTargets, NoApproval
<1> QED BY <1>3, <1>4 DEF Link, n

\* What scheduleEffect returns: nothing left, a stop, or the head of the batch
\* planned behind a request for approval or dispatched because it needs none.
LEMMA ScheduleFacts ==
  ASSUME NEW m \in State, m.status = "running", m.pending = NoEffect,
         m.approval = NoApproval, NEW b
  PROVE  LET n == scheduleEffect(m, b)
         IN /\ n.version = m.version /\ n.rounds = m.rounds
            /\ ~n.approval.granted
            /\ n.status \in {"running", "waiting_approval", "cancel_requested"}
            /\ n.status = "cancel_requested" => n.command = "stop_execution"
            /\ n.status # "cancel_requested" =>
                 n.stage \in {"ingest_results", "approval_gate",
                              "execute_effects"}
            /\ n.command # "verify"
            /\ BatchIds(n.remaining) \subseteq BatchIds(m.remaining)
            /\ \/ n.pending = NoEffect
               \/ /\ n.pending.id \in BatchIds(m.remaining)
                  /\ n.pending.status \in {"planned", "in_flight"}
                  /\ n.pending.status = "in_flight" => ~n.pending.appr
<1> DEFINE T == [id : OpId, appr : BOOLEAN]
           r == m.remaining
           h == Head(r)
           q == Tail(r)
           e == [id |-> h.id, appr |-> h.appr, rev |-> m.revision,
                 epoch |-> 0, status |-> "planned"]
<1>1. r \in Seq(T)
  BY DEF State
<1>2. CASE r = << >>
  BY <1>2 DEF scheduleEffect, Goto, State, NoApproval
<1>3. CASE r # << >> /\ budgetReached(m, b, FALSE, TRUE)
  BY <1>3 DEF scheduleEffect, stop, State, NoApproval
<1>4. CASE r # << >> /\ ~budgetReached(m, b, FALSE, TRUE)
  <2>1. /\ h \in T /\ q \in Seq(T) /\ 1 \in DOMAIN r /\ r[1] = h
        /\ DOMAIN r = 1 .. Len(r) /\ DOMAIN q = 1 .. Len(r) - 1
        /\ \A i \in DOMAIN q : q[i] = r[i + 1]
    <3> HIDE DEF T, r
    <3> QED BY <1>1, <1>4
  <2>2. h.id \in BatchIds(r)
    BY <2>1 DEF BatchIds
  <2>3. BatchIds(q) \subseteq BatchIds(r)
    <3>1. \A i \in DOMAIN q : i + 1 \in DOMAIN r
      BY <1>1, <2>1
    <3> HIDE DEF q, r
    <3> QED BY <2>1, <3>1 DEF BatchIds
  <2>4. TakeEffect(m) = [m EXCEPT !.remaining = q, !.pending = e]
    BY DEF TakeEffect
  <2>5. CASE h.appr
    <3> DEFINE n == RequestApproval([m EXCEPT !.remaining = q,
                                              !.pending = e])
    <3>1. scheduleEffect(m, b) = n
      BY <1>4, <2>4, <2>5 DEF scheduleEffect
    <3>2. /\ n.version = m.version /\ n.rounds = m.rounds
          /\ n.approval.granted = FALSE /\ n.status = "waiting_approval"
          /\ n.stage = "approval_gate" /\ n.command = "request_approval"
          /\ n.remaining = q /\ n.pending = e
      BY DEF RequestApproval, State
    <3> HIDE DEF n, h, q
    <3> QED BY <2>2, <2>3, <3>1, <3>2
  <2>6. CASE ~h.appr
    <3> DEFINE n == dispatchEffect([m EXCEPT !.remaining = q, !.pending = e])
    <3>1. scheduleEffect(m, b) = n
      BY <1>4, <2>4, <2>6 DEF scheduleEffect
    <3>2. /\ n.version = m.version /\ n.rounds = m.rounds
          /\ n.approval = NoApproval /\ n.status = "running"
          /\ n.stage = "execute_effects" /\ n.command = "execute_effect"
          /\ n.remaining = q
          /\ n.pending = [e EXCEPT !.status = "in_flight", !.epoch = m.epoch]
      BY DEF dispatchEffect, State
    <3>3. n.pending.id = h.id /\ n.pending.status = "in_flight"
          /\ n.pending.appr = h.appr
      BY <3>2
    <3>4. ~NoApproval.granted
      BY DEF NoApproval
    <3> HIDE DEF n, h, q
    <3> QED BY <2>2, <2>3, <2>6, <3>1, <3>2, <3>3, <3>4
  <2> QED BY <2>5, <2>6
<1> QED BY <1>2, <1>3, <1>4

\* A context opens the next step, unless a limit stops the run.
LEMMA ContextLink ==
  ASSUME NEW s, Good(s), requireStage(s, "build_context"), NEW b, NEW k
  PROVE  /\ Link(s, contextBuilt(s, b, k), << >>, NoReceipt)
         /\ NoGrant(s, contextBuilt(s, b, k))
<1> DEFINE n == [s EXCEPT !.stage = "model_step", !.command = "call_model",
                          !.rounds = s.rounds + 1]
<1>1. s \in State /\ s.status = "running" /\ "budget_exhausted" \in StopTargets
  BY DEF Good, requireStage, StopTargets
<1>2. \/ contextBuilt(s, b, k) = stop(s, "budget_exhausted")
      \/ contextBuilt(s, b, k) = n
  BY <1>1 DEF contextBuilt, Goto, State
<1>3. /\ n.version = s.version /\ n.rounds = s.rounds + 1
      /\ n.pending = s.pending /\ n.remaining = s.remaining
      /\ n.approval = s.approval /\ n.status = "running"
      /\ n.stage = "model_step" /\ n.command = "call_model"
  BY <1>1 DEF State
<1> HIDE DEF n
<1>4. EffectLink(s, n, << >>, NoReceipt)
  BY <1>3 DEF EffectLink, SamePending
<1>5. StageLink(s, n) /\ StopLink(s, n) /\ NoGrant(s, n)
  BY <1>1, <1>3 DEF StageLink, StopLink, NoGrant, At, State, Terminal
<1>6. s.status # "cancel_requested"
  BY <1>1
<1> QED BY <1>1, <1>2, <1>4, <1>5, <1>6, StopLinks DEF Link

\* A model answer leads to the tools it asked for or to the verification.
LEMMA ModelLink ==
  ASSUME NEW s, Good(s), requireStage(s, "model_step"), NEW cost \in Nat,
         NEW finish, NEW b
  PROVE  /\ Link(s, modelCompleted(s, cost, finish, b), << >>, NoReceipt)
         /\ NoGrant(s, modelCompleted(s, cost, finish, b))
<1> DEFINE n == modelCompleted(s, cost, finish, b)
<1>1. s \in State /\ s.status = "running" /\ s.stage = "model_step"
  BY DEF Good, requireStage
<1>2. /\ n.version = s.version /\ n.rounds = s.rounds
      /\ n.pending = s.pending /\ n.remaining = s.remaining
      /\ n.approval = s.approval /\ n.revision = s.revision
      /\ \/ n.status = "cancel_requested" /\ n.command = "stop_execution"
         \/ /\ n.status = "running"
            /\ \/ n.stage = "verify" /\ n.command = "verify"
               \/ /\ n.stage = "validate_tool_calls"
                  /\ n.command = "validate_tools"
  BY <1>1 DEF modelCompleted, stop, Goto, State
<1> HIDE DEF n
<1>3. EffectLink(s, n, << >>, NoReceipt)
  BY <1>2 DEF EffectLink, SamePending
<1>4. StageLink(s, n) /\ StopLink(s, n) /\ NoGrant(s, n)
  BY <1>1, <1>2 DEF StageLink, StopLink, NoGrant, At, State, Terminal
<1> QED BY <1>3, <1>4 DEF Link, n

\* A validated batch is scheduled: its first call is pending.
LEMMA ToolsLink ==
  ASSUME NEW s, Good(s), NEW batch \in Seq([id : OpId, appr : BOOLEAN]),
         CanValidate(s, batch), NEW b
  PROVE  /\ Link(s, toolsValidated(s, batch, b), batch, NoReceipt)
         /\ NoGrant(s, toolsValidated(s, batch, b))
<1> DEFINE m == [s EXCEPT !.remaining = batch]
           n == toolsValidated(s, batch, b)
<1>1. /\ s \in State /\ s.status = "running"
      /\ s.stage \in DOMAIN StageCommand /\ s.stage = "validate_tool_calls"
  BY DEF Good, CanValidate, requireStage, StageCommand
<1>2. s.pending = NoEffect /\ s.approval = NoApproval
  BY <1>1, QuietFacts
<1>3. m \in State /\ m.status = "running" /\ m.pending = NoEffect
      /\ m.approval = NoApproval /\ m.remaining = batch
      /\ m.version = s.version /\ m.rounds = s.rounds
  BY <1>1, <1>2 DEF State
<1>4. n = scheduleEffect(m, b)
  BY DEF toolsValidated
<1> HIDE DEF m, n
<1>5. /\ n.version = s.version /\ n.rounds = s.rounds
      /\ ~n.approval.granted
      /\ n.status \in {"running", "waiting_approval", "cancel_requested"}
      /\ n.status = "cancel_requested" => n.command = "stop_execution"
      /\ n.status # "cancel_requested" =>
           n.stage \in {"ingest_results", "approval_gate", "execute_effects"}
      /\ n.command # "verify"
      /\ BatchIds(n.remaining) \subseteq BatchIds(batch)
      /\ \/ n.pending = NoEffect
         \/ /\ n.pending.id \in BatchIds(batch)
            /\ n.pending.status \in {"planned", "in_flight"}
            /\ n.pending.status = "in_flight" => ~n.pending.appr
  BY <1>3, <1>4, ScheduleFacts
<1>6. EffectLink(s, n, batch, NoReceipt)
  BY <1>1, <1>2, <1>5 DEF EffectLink, NextPending
<1>7. StageLink(s, n) /\ StopLink(s, n) /\ NoGrant(s, n)
  BY <1>1, <1>5 DEF StageLink, StopLink, NoGrant, At, State, Terminal
<1> QED BY <1>6, <1>7 DEF Link, n

\* A decision keeps the effect: the run is queued for it, or stops.
LEMMA DecideLink ==
  ASSUME NEW s, Good(s), NEW c, CanDecide(s, c), NEW allow \in BOOLEAN
  PROVE  LET n == decideApproval(s, allow)
         IN /\ Link(s, n, << >>, NoReceipt)
            /\ n.pending = s.pending /\ n.owner = s.owner
            /\ n.approval.id = s.approval.id /\ n.approval.rev = s.approval.rev
            /\ n.approval.granted => allow
            /\ n.status # "waiting_approval"
<1> DEFINE n == decideApproval(s, allow)
<1>1. s \in State /\ s.status = "waiting_approval" /\ ~s.approval.granted
  BY DEF Good, CanDecide
<1>2. /\ n.version = s.version /\ n.rounds = s.rounds
      /\ n.pending = s.pending /\ n.remaining = s.remaining
      /\ n.approval.id = s.approval.id /\ n.approval.rev = s.approval.rev
      /\ n.approval.granted => allow
      /\ n.owner = s.owner
      /\ \/ n.status = "cancel_requested" /\ n.command = "stop_execution"
         \/ /\ n.status = "queued" /\ n.stage = "execute_effects"
            /\ n.command = "none"
  BY <1>1 DEF decideApproval, stop, State
<1> HIDE DEF n
<1>3. EffectLink(s, n, << >>, NoReceipt)
  BY <1>2 DEF EffectLink, SamePending
<1>4. StageLink(s, n) /\ StopLink(s, n)
  BY <1>1, <1>2 DEF StageLink, StopLink, At, State, Terminal
<1> QED BY <1>2, <1>3, <1>4 DEF Link, n

\* A receipt settles the effect it names; a stopping run keeps it, any other
\* goes on with the batch.
LEMMA SettleLink ==
  ASSUME NEW s, Good(s), NEW b, NEW k, NEW r, r.after \in Nat,
         s.status \notin Terminal, CanSettle(s, r, k)
  PROVE  /\ Link(s, settleEffect(s, r, b), << >>, r)
         /\ NoGrant(s, settleEffect(s, r, b))
<1> DEFINE n == settleEffect(s, r, b)
<1>1. s \in State /\ ReceiptOf(s, r)
  BY DEF Good, CanSettle, ReceiptOf
<1>2. ~NoApproval.granted
  BY DEF NoApproval
<1>3. CASE s.status = "cancel_requested"
  <2>1. /\ n.version = s.version /\ n.rounds = s.rounds
        /\ n.remaining = s.remaining /\ n.approval = NoApproval
        /\ n.status = s.status /\ n.stopTarget = s.stopTarget
        /\ n.toolCalls = s.toolCalls /\ n.command = "stop_execution"
    BY <1>1, <1>3 DEF settleEffect, ClearVerification, State
  <2>2. n.pending = [s.pending EXCEPT !.status = r.status]
    BY <1>1, <1>3 DEF settleEffect, ClearVerification, State
  <2> HIDE DEF n
  <2>3. EffectLink(s, n, << >>, r)
    BY <1>1, <2>1, <2>2 DEF EffectLink, SamePending
  <2>4. StageLink(s, n) /\ StopLink(s, n) /\ NoGrant(s, n)
    BY <1>1, <1>2, <1>3, <2>1 DEF StageLink, StopLink, NoGrant, At, State
  <2> QED BY <2>3, <2>4 DEF Link, n
<1>4. CASE s.status # "cancel_requested"
  <2> DEFINE q == IF r.status = "succeeded" THEN s.remaining ELSE << >>
             a == NoApproval
             c == NoEffect
             x == r.after
             m == [s EXCEPT !.verification = "unverified", !.verRevision = 0,
                     !.revision = x, !.reconRevision = 0,
                     !.approval = a, !.status = "running", !.pending = c,
                     !.remaining = q]
  <2>1. n = scheduleEffect(m, b)
    <3> DEFINE o == [ClearVerification(s) EXCEPT
                       !.pending.status = r.status, !.revision = r.after,
                       !.reconRevision = 0, !.approval = NoApproval]
               p == [o EXCEPT !.status = "running", !.pending = NoEffect,
                              !.remaining = IF r.status = "succeeded" THEN @
                                            ELSE << >>]
    <3>1. n = scheduleEffect(p, b)
      BY <1>4 DEF settleEffect
    <3>2. o.remaining = s.remaining
      BY <1>1 DEF ClearVerification, State
    <3>3. p = [o EXCEPT !.status = "running", !.pending = c, !.remaining = q]
      BY <3>2
    <3>4. p = m
      <4> HIDE DEF q, c
      <4> QED BY <1>1, <3>3 DEF ClearVerification, State
    <3> HIDE DEF p, m, n
    <3> QED BY <3>1, <3>4
  <2>2. /\ m.version = s.version /\ m.status = "running"
        /\ m.rounds = s.rounds /\ m.pending = NoEffect /\ m.remaining = q
        /\ m.approval = NoApproval
    <3> HIDE DEF q
    <3> QED BY <1>1 DEF State
  <2>3. BatchIds(q) \subseteq BatchIds(s.remaining)
    BY DEF BatchIds
  <2>4. c \in [id : OpId, appr : BOOLEAN, rev : Nat, epoch : Nat,
               status : EffectStatus \cup {"none"}]
        /\ a \in [id : OpId, rev : Nat, version : Nat, granted : BOOLEAN]
        /\ q \in Seq([id : OpId, appr : BOOLEAN])
    BY <1>1, NilTyped DEF State
  <2>5. "running" \in Status /\ "unverified" \in Verification
    BY DEF Status, Verification
  <2>6. m \in State
    <3>1. x \in Nat
      OBVIOUS
    <3> HIDE DEF q, a, c, x
    <3> QED BY <1>1, <2>4, <2>5, <3>1 DEF State
  <2> HIDE DEF m, n, q
  <2>7. /\ n.version = s.version /\ n.rounds = s.rounds
        /\ ~n.approval.granted
        /\ n.status \in {"running", "waiting_approval", "cancel_requested"}
        /\ n.status = "cancel_requested" => n.command = "stop_execution"
        /\ n.status # "cancel_requested" =>
             n.stage \in {"ingest_results", "approval_gate",
                          "execute_effects"}
        /\ n.command # "verify"
        /\ BatchIds(n.remaining) \subseteq BatchIds(q)
        /\ \/ n.pending = NoEffect
           \/ /\ n.pending.id \in BatchIds(q)
              /\ n.pending.status \in {"planned", "in_flight"}
              /\ n.pending.status = "in_flight" => ~n.pending.appr
    BY <2>1, <2>2, <2>6, ScheduleFacts
  <2>8. EffectLink(s, n, << >>, r)
    BY <1>1, <1>4, <2>3, <2>7 DEF EffectLink, NextPending
  <2>9. StageLink(s, n) /\ StopLink(s, n) /\ NoGrant(s, n)
    BY <1>1, <1>4, <2>7
       DEF StageLink, StopLink, NoGrant, At, State, Terminal
  <2> QED BY <2>8, <2>9 DEF Link, n
<1> QED BY <1>3, <1>4

\* An adoption dispatches only a planned effect, under the grant it needs, and
\* otherwise only returns to the stage the claim remembered or waits.
LEMMA AdoptLink ==
  ASSUME NEW s, Good(s), NEW b, NEW rev \in Nat, CanAdopt(s, rev, b)
  PROVE  /\ Link(s, adopt(s, rev, b), << >>, NoReceipt)
         /\ NoGrant(s, adopt(s, rev, b))
<1> DEFINE g == s.resumeStage
           m == Resumed(s)
           n == adopt(s, rev, b)
<1>1. /\ s \in State /\ s.stage = "adopt_workspace"
      /\ s.status \in {"running", "needs_reconciliation"}
      /\ g \in DOMAIN StageCommand \cup {"execute_effects", "reconcile"}
  BY DEF Good, Coherent, CanAdopt
<1>2. m = [s EXCEPT !.stage = g, !.resumeStage = "none"]
  BY <1>1 DEF Resumed
<1>3. /\ m.version = s.version /\ m.rounds = s.rounds
      /\ m.pending = s.pending /\ m.remaining = s.remaining
      /\ m.approval = s.approval /\ m.status = s.status /\ m.stage = g
      /\ m.resumeStage = "none" /\ m.revision = s.revision
      /\ m.epoch = s.epoch
  BY <1>1, <1>2 DEF State
<1>4. CASE unsettled(s.pending) \/ rev # s.revision
  <2>1. /\ n.version = s.version /\ n.rounds = s.rounds
        /\ n.pending = s.pending /\ n.remaining = s.remaining
        /\ n.approval = s.approval /\ n.status = "needs_reconciliation"
        /\ n.stage = "reconcile" /\ n.command \in {"inspect_effect", "none"}
    BY <1>1, <1>4 DEF adopt, Goto, State
  <2> HIDE DEF n
  <2>2. EffectLink(s, n, << >>, NoReceipt)
    BY <2>1 DEF EffectLink, SamePending
  <2>3. StageLink(s, n) /\ StopLink(s, n) /\ NoGrant(s, n)
    BY <1>1, <2>1 DEF StageLink, StopLink, NoGrant, At, State, Terminal
  <2> QED BY <2>2, <2>3 DEF Link, n
<1>5. CASE /\ ~unsettled(s.pending) /\ rev = s.revision
           /\ ResumeTooLate(m, b)
  <2>1. n = stop(m, "budget_exhausted")
    BY <1>5 DEF adopt
  <2>2. /\ n.version = s.version /\ n.rounds = s.rounds
        /\ n.pending = s.pending /\ n.remaining = s.remaining
        /\ n.approval = s.approval /\ n.status = "cancel_requested"
        /\ n.command = "stop_execution"
    <3> HIDE DEF n, g
    <3> QED BY <1>1, <1>2, <2>1 DEF stop, State
  <2> HIDE DEF n
  <2>3. EffectLink(s, n, << >>, NoReceipt)
    BY <2>2 DEF EffectLink, SamePending
  <2>4. StageLink(s, n) /\ StopLink(s, n) /\ NoGrant(s, n)
    BY <1>1, <2>2 DEF StageLink, StopLink, NoGrant, At, State, Terminal
  <2> QED BY <2>3, <2>4 DEF Link, n
<1>6. CASE /\ ~unsettled(s.pending) /\ rev = s.revision
           /\ ~ResumeTooLate(m, b)
  <2>1. g # "reconcile" /\ CanResumeStage(m) /\ n = commandForStage(m)
    BY <1>6 DEF CanAdopt, adopt
  <2> HIDE DEF n
  <2>2. CASE g = "execute_effects"
    <3>1. n = dispatchEffect(m)
      BY <1>3, <2>1, <2>2 DEF commandForStage
    <3>2. /\ n.version = s.version /\ n.rounds = s.rounds
          /\ n.remaining = s.remaining /\ n.approval = s.approval
          /\ n.status = s.status /\ n.stage = "execute_effects"
          /\ n.command = "execute_effect"
      <4> HIDE DEF g, m
      <4> QED BY <1>1, <1>2, <3>1 DEF dispatchEffect, State
    <3>3. n.pending = [s.pending EXCEPT !.status = "in_flight",
                                        !.epoch = s.epoch]
      <4> HIDE DEF g, m
      <4> QED BY <1>1, <1>2, <3>1 DEF dispatchEffect, State
    <3>4. /\ s.pending.status = "planned"
          /\ s.pending.appr => /\ s.approval.granted
                               /\ s.approval.id = s.pending.id
                               /\ s.approval.rev = s.pending.rev
      <4> HIDE DEF g, m
      <4> QED BY <1>3, <2>1, <2>2
              DEF CanResumeStage, StageCommand, approvalMatches
    <3>5. EffectLink(s, n, << >>, NoReceipt)
      BY <1>1, <3>2, <3>3, <3>4 DEF EffectLink, SamePending
    <3>6. StageLink(s, n) /\ StopLink(s, n) /\ NoGrant(s, n)
      BY <1>1, <3>2 DEF StageLink, StopLink, NoGrant, At, State, Terminal
    <3> QED BY <3>5, <3>6 DEF Link, n
  <2>3. CASE g # "execute_effects"
    <3>1. g \in DOMAIN StageCommand
      BY <1>1, <2>1, <2>3
    <3>2. /\ n.version = s.version /\ n.rounds = s.rounds
          /\ n.pending = s.pending /\ n.remaining = s.remaining
          /\ n.approval = s.approval /\ n.status = s.status
          /\ n.revision = s.revision
          /\ n.stage = g /\ n.command = StageCommand[g]
      <4>1. n = [m EXCEPT !.command = StageCommand[m.stage]]
        BY <1>3, <2>1, <2>3 DEF commandForStage
      <4> HIDE DEF g, m
      <4> QED BY <1>1, <1>2, <4>1 DEF State
    <3>3. n.command = "verify" => n.stage = "verify"
      BY <3>1, <3>2 DEF StageCommand
    <3>4. EffectLink(s, n, << >>, NoReceipt)
      BY <3>2 DEF EffectLink, SamePending
    <3>5. StageLink(s, n) /\ StopLink(s, n) /\ NoGrant(s, n)
      <4>1. \A x \in Stage : At(n, x) => At(s, x)
        BY <1>1, <3>1, <3>2 DEF At, StageCommand
      <4> QED BY <1>1, <3>2, <3>3, <4>1
              DEF StageLink, StopLink, NoGrant, State, Terminal, Stage
    <3> QED BY <3>4, <3>5 DEF Link, n
  <2> QED BY <2>2, <2>3
<1> QED BY <1>4, <1>5, <1>6

-----------------------------------------------------------------------------
(* The kinds of steps *)

\* The operations of a batch are new tool calls.
FreshBatch(batch) ==
  \A id \in BatchIds(batch) :
    /\ id \in OpId /\ id # <<0, 0>> /\ id[2] >= 0 /\ id \notin DOMAIN effects
    /\ run.revision > 0

\* Where the allocation state a of the commit comes from: a claim reserves, a
\* worker's commit has a valid lease, a control request keeps the effect and
\* gives no lease, a rejected run has neither.
SlotLink(n, a) ==
  \/ a = "reserved"
  \/ a = alloc /\ LeaseValid(run)
  \/ a = alloc /\ (LeaseValid(n) => LeaseValid(run))
       /\ n.pending = run.pending
  \/ n.owner = NoOwner /\ n.pending = NoEffect

Committed(next, batch, r, a) ==
  /\ run.status \notin Terminal
  /\ Good(next) /\ Link(run, next, batch, r) /\ NoGrant(run, next)
  /\ FreshBatch(batch) /\ SlotLink(next, a)
  /\ persistTransition(next, batch, r, a)

\* A commit that carries the receipt r, or NoReceipt.
CommitWith(r) ==
  /\ \E next, batch, a : Committed(next, batch, r, a)
  /\ view' = view \/ \E w \in Workers : Reload(w)

CommitStep == \E r : CommitWith(r)

DecideStep ==
  \E id \in DOMAIN approvals, allow \in BOOLEAN : Decide(id, allow)

SystemStep ==
  \E w \in Workers :
    \/ \E ordinal \in SystemOps : PlanSystemEffect(w, ordinal)
    \/ \E r \in SystemReceipts : SettleSystemEffect(w, r)

LeaseStep ==
  \/ \E w \in Workers : Refresh(w) \/ Crash(w) \/ Defer(w)
  \/ LeaseExpires \/ DeadlinePasses \/ UNCHANGED vars

\* A worker's report commits what the reducer returned under a valid lease.
LEMMA AdvanceCommits ==
  ASSUME NEW w \in Workers, NEW kind, NEW next, NEW batch, NEW r,
         kind \notin controlEvent \cup {"claimed"},
         Good(next), Link(run, next, batch, r), NoGrant(run, next),
         FreshBatch(batch), Advance(w, kind, next, batch, r)
  PROVE  CommitWith(r)
<1>1. /\ run.status \notin Terminal /\ LeaseValid(run)
      /\ persistTransition(next, batch, r, alloc) /\ Reload(w)
  BY DEF Advance, Accepts
<1>2. SlotLink(next, alloc)
  BY <1>1 DEF SlotLink
<1>3. Committed(next, batch, r, alloc)
  BY <1>1, <1>2 DEF Committed
<1> QED BY <1>1, <1>3 DEF CommitWith

\* A commit without a batch plans nothing new.
LEMMA NoBatch == FreshBatch(<< >>)
BY DEF FreshBatch, BatchIds

\* The batch a worker numbers for the step of the row it read is fresh.
LEMMA BatchFresh ==
  ASSUME RowInv, RunInv, NEW w \in Workers, NEW flags \in Batches,
         ToolsValidated(w, flags)
  PROVE  FreshBatch(BatchOf(view[w], flags))
<1> DEFINE batch == BatchOf(view[w], flags)
<1>1. /\ view[w] # Idle /\ view[w].version = run.version
      /\ run.status = "running" /\ run.stage = "validate_tool_calls"
      /\ BatchIds(batch) \cap DOMAIN effects = {}
  BY DEF ToolsValidated, Driving, CanValidate, requireStage, Advance, Accepts
<1>2. view[w].rounds = run.rounds /\ run.rounds > 0
  BY <1>1 DEF RunInv, ViewsOld, SystemRows, At
<1>3. run.rounds \in Nat /\ run.revision > 0
  BY <1>1 DEF RowInv, Good, State, Coherent
<1>4. ASSUME NEW id \in BatchIds(batch)
      PROVE  id \in OpId /\ id # <<0, 0>> /\ id[2] >= 0
  <2>1. flags \in Seq(BOOLEAN)
    BY BatchAssumption
  <2>2. PICK i \in DOMAIN flags : id = <<run.rounds, i - 1>>
    BY <1>2, <2>1 DEF BatchIds, BatchOf
  <2>3. i \in Nat /\ i >= 1
    BY <2>1
  <2> QED BY <1>2, <1>3, <2>2, <2>3 DEF OpId
<1> QED BY <1>1, <1>3, <1>4 DEF FreshBatch

\* Every report of a worker about its stage is a commit.
LEMMA StageCommits ==
  ASSUME RowInv, RunInv, NEW w \in Workers,
         \/ WorkspaceReady(w, 1)
         \/ \E rev \in Revisions : WorkspaceAdopted(w, rev)
         \/ \E stuck \in BOOLEAN : ContextBuilt(w, stuck)
         \/ \E cost \in Costs, finish \in BOOLEAN :
              ModelCompleted(w, cost, finish)
         \/ \E flags \in Batches : ToolsValidated(w, flags)
         \/ ResultsIngested(w)
         \/ \E e \in Evidence : VerificationCompleted(w, e)
         \/ Finalized(w)
  PROVE  CommitWith(NoReceipt)
<1>1. Good(run) /\ run \in State /\ view \in [Workers -> State \cup {Idle}]
  BY DEF RowInv, Good
<1>2. Revisions \subseteq Nat /\ Costs \subseteq Nat
  BY BoundAssumption, OutcomeAssumption DEF Revisions
<1> DEFINE Kinds == {"workspace_ready", "workspace_adopted", "context_built",
                     "model_completed", "tools_validated", "results_ingested",
                     "verification_completed", "finalized"}
<1>3. \A kind \in Kinds : kind \notin controlEvent \cup {"claimed"}
  BY DEF controlEvent
<1>4. CASE WorkspaceReady(w, 1)
  <2>1. /\ Good(workspaceReady(run, 1)) /\ NoGrant(run, workspaceReady(run, 1))
        /\ Link(run, workspaceReady(run, 1), << >>, NoReceipt)
    BY <1>1, <1>4, ReadyGood, ReadyLink DEF WorkspaceReady
  <2> QED BY <1>3, <1>4, <2>1, NoBatch, AdvanceCommits DEF WorkspaceReady
<1>5. ASSUME NEW rev \in Revisions, WorkspaceAdopted(w, rev) PROVE CommitWith(NoReceipt)
  <2>1. /\ Good(adopt(run, rev, late)) /\ NoGrant(run, adopt(run, rev, late))
        /\ Link(run, adopt(run, rev, late), << >>, NoReceipt)
    BY <1>1, <1>2, <1>5, AdoptGood, AdoptLink DEF WorkspaceAdopted
  <2> QED BY <1>3, <1>5, <2>1, NoBatch, AdvanceCommits DEF WorkspaceAdopted
<1>6. ASSUME NEW stuck \in BOOLEAN, ContextBuilt(w, stuck) PROVE CommitWith(NoReceipt)
  <2>1. /\ Good(contextBuilt(run, late, stuck))
        /\ Link(run, contextBuilt(run, late, stuck), << >>, NoReceipt)
        /\ NoGrant(run, contextBuilt(run, late, stuck))
    BY <1>1, <1>6, ContextGood, ContextLink DEF ContextBuilt
  <2> QED BY <1>3, <1>6, <2>1, NoBatch, AdvanceCommits DEF ContextBuilt
<1>7. ASSUME NEW cost \in Costs, NEW finish \in BOOLEAN,
             ModelCompleted(w, cost, finish)
      PROVE  CommitWith(NoReceipt)
  <2>1. /\ Good(modelCompleted(run, cost, finish, late))
        /\ Link(run, modelCompleted(run, cost, finish, late), << >>, NoReceipt)
        /\ NoGrant(run, modelCompleted(run, cost, finish, late))
    BY <1>1, <1>2, <1>7, ModelGood, ModelLink DEF ModelCompleted
  <2> QED BY <1>3, <1>7, <2>1, NoBatch, AdvanceCommits DEF ModelCompleted
<1>8. ASSUME NEW flags \in Batches, ToolsValidated(w, flags) PROVE CommitWith(NoReceipt)
  <2> DEFINE batch == BatchOf(view[w], flags)
  <2>1. view[w] \in State
    BY <1>1, <1>8 DEF ToolsValidated, Driving
  <2>2. batch \in Seq([id : OpId, appr : BOOLEAN]) /\ FreshBatch(batch)
    BY <1>8, <2>1, BatchTyped, BatchFresh
  <2>3. /\ CanValidate(run, batch)
        /\ Advance(w, "tools_validated", toolsValidated(run, batch, late),
                   batch, NoReceipt)
    BY <1>8 DEF ToolsValidated
  <2> HIDE DEF batch
  <2>4. /\ Good(toolsValidated(run, batch, late))
        /\ Link(run, toolsValidated(run, batch, late), batch, NoReceipt)
        /\ NoGrant(run, toolsValidated(run, batch, late))
    BY <1>1, <2>2, <2>3, ToolsGood, ToolsLink
  <2> QED BY <1>3, <2>2, <2>3, <2>4, AdvanceCommits
<1>9. CASE ResultsIngested(w)
  <2>1. /\ Good(resultsIngested(run)) /\ NoGrant(run, resultsIngested(run))
        /\ Link(run, resultsIngested(run), << >>, NoReceipt)
    BY <1>1, <1>9, IngestGood, IngestLink DEF ResultsIngested
  <2> QED BY <1>3, <1>9, <2>1, NoBatch, AdvanceCommits DEF ResultsIngested
<1>10. ASSUME NEW e \in Evidence, VerificationCompleted(w, e) PROVE CommitWith(NoReceipt)
  <2> DEFINE v == [rev |-> view[w].revision, regression |-> e.regression,
                   baseline |-> e.baseline, target |-> e.target]
  <2>1. /\ CanVerify(run, v) /\ v.rev = run.revision
        /\ v.regression = e.regression
        /\ Advance(w, "verification_completed", verify(run, v), << >>,
                   NoReceipt)
        /\ view[w] # Idle /\ view[w].version = run.version
        /\ e.regression /\ -3 \in SystemOps
             => SystemStatus(view[w], -3) = "succeeded"
    BY <1>10
       DEF VerificationCompleted, CanVerify, Driving, Advance, Accepts
  <2> HIDE DEF v
  <2>2. v.rev \in Nat
    BY <1>1, <2>1 DEF State
  <2>3. view[w].rounds = run.rounds
    BY <2>1 DEF RunInv, ViewsOld
  <2>4. v.regression /\ -3 \in SystemOps => SystemStatus(run, -3) = "succeeded"
    BY <2>1, <2>3 DEF SystemStatus, SystemId
  <2>5. /\ Good(verify(run, v)) /\ NoGrant(run, verify(run, v))
        /\ Link(run, verify(run, v), << >>, NoReceipt)
    BY <1>1, <2>1, <2>2, <2>4, VerifyGood, VerifyLink
  <2> QED BY <1>3, <2>1, <2>5, NoBatch, AdvanceCommits
<1>11. CASE Finalized(w)
  <2>1. /\ Good(finalized(run)) /\ NoGrant(run, finalized(run))
        /\ Link(run, finalized(run), << >>, NoReceipt)
    BY <1>1, <1>11, FinalizeGood, FinalizeLink DEF Finalized
  <2> QED BY <1>3, <1>11, <2>1, NoBatch, AdvanceCommits DEF Finalized
<1> QED BY <1>4, <1>5, <1>6, <1>7, <1>8, <1>9, <1>10, <1>11

\* A receipt of the effect that may be executing is committed with the row.
LEMMA ReceiptCommits ==
  ASSUME RowInv, NEW w \in Workers, NEW r \in ReceiptsFor(run.pending),
         EffectCompleted(w, r) \/ Reconciled(w, r)
  PROVE  CommitWith(r)
<1>1. Good(run)
  BY DEF RowInv
<1>2. r.after \in Nat
  BY BoundAssumption DEF ReceiptsFor, Revisions
<1>3. \A kind \in {"effect_completed", "reconciled"} :
        kind \notin controlEvent \cup {"claimed"}
  BY DEF controlEvent
<1>4. ASSUME NEW k, NEW kind,
             kind \in {"effect_completed", "reconciled"},
             CanSettle(run, r, k),
             run.status # "waiting_approval",
             run.status # "cancel_requested"
               => run.stage \in {"execute_effects", "reconcile"},
             Advance(w, kind, settleEffect(run, r, late), << >>, r)
      PROVE  CommitWith(r)
  <2>1. /\ run.status \notin Terminal
        /\ run.owner # NoOwner /\ run.epoch > 0
    BY <1>3, <1>4, AcceptedFacts DEF Advance
  <2>2. Good(settleEffect(run, r, late))
    BY <1>1, <1>2, <1>4, <2>1, SettleGood
  <2>3. /\ Link(run, settleEffect(run, r, late), << >>, r)
        /\ NoGrant(run, settleEffect(run, r, late))
    BY <1>1, <1>2, <1>4, <2>1, SettleLink
  <2> QED BY <1>3, <1>4, <2>2, <2>3, NoBatch, AdvanceCommits
<1>5. CASE EffectCompleted(w, r)
  <2>1. /\ run.status = "running" /\ run.stage = "execute_effects"
        /\ CanSettle(run, r, FALSE)
        /\ Advance(w, "effect_completed", settleEffect(run, r, late), << >>, r)
    BY <1>5 DEF EffectCompleted, requireStage
  <2> QED BY <1>4, <2>1
<1>6. CASE Reconciled(w, r)
  <2>1. /\ run.status \in {"needs_reconciliation", "cancel_requested"}
        /\ run.status # "cancel_requested" => run.stage = "reconcile"
        /\ CanSettle(run, r, TRUE)
        /\ Advance(w, "reconciled", settleEffect(run, r, late), << >>, r)
    BY <1>6 DEF Reconciled, CanReconcile
  <2> QED BY <1>4, <2>1
<1> QED BY <1>5, <1>6

\* A worker that does not know what became of its effect commits that.
LEMMA UncertainCommits ==
  ASSUME RowInv, NEW w \in Workers, EffectUncertain(w)
  PROVE  CommitWith(NoReceipt)
<1>1. Good(run) /\ "effect_uncertain" \notin controlEvent \cup {"claimed"}
  BY DEF RowInv, controlEvent
<1>2. /\ Good(effectUncertain(run)) /\ NoGrant(run, effectUncertain(run))
      /\ Link(run, effectUncertain(run), << >>, NoReceipt)
  BY <1>1, UncertainGood, UncertainLink DEF EffectUncertain
<1> QED BY <1>1, <1>2, NoBatch, AdvanceCommits DEF EffectUncertain

\* Failures, exhausted budgets and confirmed stops are commits.
LEMMA StopCommits ==
  ASSUME RowInv, NEW w \in Workers,
         \/ BudgetReached(w) \/ Failed(w)
         \/ \E rev \in {0} \cup Revisions : CancellationConfirmed(w, rev)
  PROVE  CommitWith(NoReceipt)
<1>1. /\ Good(run) /\ "budget_exhausted" \in StopTargets
      /\ "failed" \in StopTargets
  BY DEF RowInv, StopTargets
<1>2. \A kind \in {"budget_reached", "failed", "cancellation_confirmed"} :
        kind \notin controlEvent \cup {"claimed"}
  BY DEF controlEvent
<1>3. ASSUME NEW t \in StopTargets, NEW kind,
             kind \in {"budget_reached", "failed"},
             Advance(w, kind, stop(run, t), << >>, NoReceipt)
      PROVE  CommitWith(NoReceipt)
  <2>1. run.status \notin Terminal /\ run.status # "cancel_requested"
    BY <1>3 DEF Advance, Accepts, allowedDuringStop
  <2>2. /\ Good(stop(run, t)) /\ NoGrant(run, stop(run, t))
        /\ Link(run, stop(run, t), << >>, NoReceipt)
    BY <1>1, <2>1, StopGood, StopLinks
  <2> QED BY <1>2, <1>3, <2>2, NoBatch, AdvanceCommits
<1>4. CASE BudgetReached(w)
  BY <1>1, <1>3, <1>4 DEF BudgetReached
<1>5. CASE Failed(w)
  BY <1>1, <1>3, <1>5 DEF Failed
<1>6. ASSUME NEW rev \in {0} \cup Revisions, CancellationConfirmed(w, rev)
      PROVE  CommitWith(NoReceipt)
  <2>1. rev \in Nat
    BY BoundAssumption DEF Revisions
  <2>2. /\ Good(confirmStop(run, rev)) /\ NoGrant(run, confirmStop(run, rev))
        /\ Link(run, confirmStop(run, rev), << >>, NoReceipt)
    BY <1>1, <1>6, <2>1, ConfirmGood, ConfirmLink DEF CancellationConfirmed
  <2> QED BY <1>2, <1>6, <2>2, NoBatch, AdvanceCommits
          DEF CancellationConfirmed
<1> QED BY <1>4, <1>5, <1>6

\* A claim and a rejected admission are commits that set the slot.
LEMMA ClaimCommits ==
  ASSUME RowInv, NEW w \in Workers, Claim(w) \/ RequeueCapacity(w)
  PROVE  CommitWith(NoReceipt)
<1>1. Good(run) /\ run \in State
  BY DEF RowInv, Good
<1>2. CASE Claim(w)
  <2>1. /\ run.status \notin Terminal /\ CanClaim(run) /\ Reload(w)
        /\ persistTransition(claim(run, w), << >>, NoReceipt, "reserved")
    BY <1>2 DEF Claim, Accepts
  <2>2. /\ Good(claim(run, w)) /\ NoGrant(run, claim(run, w))
        /\ Link(run, claim(run, w), << >>, NoReceipt)
    BY <1>1, <2>1, ClaimGood, ClaimLink
  <2>3. SlotLink(claim(run, w), "reserved")
    BY DEF SlotLink
  <2>4. Committed(claim(run, w), << >>, NoReceipt, "reserved")
    BY <2>1, <2>2, <2>3, NoBatch DEF Committed
  <2> QED BY <2>1, <2>4 DEF CommitWith
<1>3. CASE RequeueCapacity(w)
  <2> DEFINE n == capacityRejected(run)
             a == Released(alloc)
  <2>1. /\ run.status \notin Terminal /\ CanRejectCapacity(run) /\ Reload(w)
        /\ persistTransition(n, << >>, NoReceipt, a)
    BY <1>3 DEF RequeueCapacity, Accepts
  <2>2. Good(n) /\ NoGrant(run, n) /\ Link(run, n, << >>, NoReceipt)
    BY <1>1, <2>1, RejectGood, RejectLink
  <2>3. n.owner = NoOwner /\ n.pending = NoEffect
    BY <1>1, <2>1 DEF capacityRejected, CanRejectCapacity, State
  <2> HIDE DEF n, a
  <2>4. SlotLink(n, a)
    BY <2>3 DEF SlotLink
  <2>5. Committed(n, << >>, NoReceipt, a)
    BY <2>1, <2>2, <2>4, NoBatch DEF Committed
  <2> QED BY <2>1, <2>5 DEF CommitWith
<1> QED BY <1>2, <1>3

\* The API's cancel and resume are commits that keep lease and effect.
LEMMA ControlCommits ==
  ASSUME RowInv, Cancel \/ Resume
  PROVE  CommitWith(NoReceipt)
<1>1. Good(run) /\ run \in State /\ "cancelled" \in StopTargets
  BY DEF RowInv, Good, StopTargets
<1>2. ASSUME NEW next, NEW kind, Good(next), NoGrant(run, next),
             Link(run, next, << >>, NoReceipt), next.pending = run.pending,
             LeaseValid(next) => LeaseValid(run), Control(kind, next)
      PROVE  CommitWith(NoReceipt)
  <2>1. /\ run.status \notin Terminal /\ view' = view
        /\ persistTransition(next, << >>, NoReceipt, alloc)
    BY <1>2 DEF Control, Accepts
  <2>2. SlotLink(next, alloc)
    BY <1>2 DEF SlotLink
  <2>3. Committed(next, << >>, NoReceipt, alloc)
    BY <1>2, <2>1, <2>2, NoBatch DEF Committed
  <2> QED BY <2>1, <2>3 DEF CommitWith
<1>3. CASE Cancel
  <2>1. run.status \notin Terminal /\ run.status # "cancel_requested"
    BY <1>3 DEF Cancel, Control, Accepts
  <2>2. /\ Good(stop(run, "cancelled")) /\ NoGrant(run, stop(run, "cancelled"))
        /\ Link(run, stop(run, "cancelled"), << >>, NoReceipt)
    BY <1>1, <2>1, StopGood, StopLinks
  <2>3. /\ stop(run, "cancelled").pending = run.pending
        /\ LeaseValid(stop(run, "cancelled")) => LeaseValid(run)
    BY <1>1 DEF stop, State, LeaseValid
  <2> QED BY <1>2, <1>3, <2>2, <2>3 DEF Cancel
<1>4. CASE Resume
  <2>1. /\ Good(resumeRequested(run)) /\ NoGrant(run, resumeRequested(run))
        /\ Link(run, resumeRequested(run), << >>, NoReceipt)
    BY <1>1, <1>4, ResumeGood, ResumeLink DEF Resume
  <2>2. /\ resumeRequested(run).pending = run.pending
        /\ ~LeaseValid(resumeRequested(run))
    BY <1>1 DEF resumeRequested, State, LeaseValid
  <2> QED BY <1>2, <1>4, <2>1, <2>2 DEF Resume
<1> QED BY <1>3, <1>4

\* Every step is a commit, a decision, a system effect or a matter of leases.
LEMMA StepKinds ==
  ASSUME RowInv, RunInv, [Next]_vars
  PROVE  CommitStep \/ DecideStep \/ SystemStep \/ LeaseStep
<1>1. ASSUME NEW w \in Workers, WorkerStep(w)
      PROVE  CommitStep \/ SystemStep \/ LeaseStep
  <2>1. CASE Claim(w) \/ RequeueCapacity(w)
    BY <2>1, ClaimCommits DEF CommitStep
  <2>2. CASE Refresh(w) \/ Crash(w) \/ Defer(w)
    BY <2>2 DEF LeaseStep
  <2>3. CASE \/ WorkspaceReady(w, 1)
             \/ \E rev \in Revisions : WorkspaceAdopted(w, rev)
             \/ \E stuck \in BOOLEAN : ContextBuilt(w, stuck)
             \/ \E cost \in Costs, finish \in BOOLEAN :
                  ModelCompleted(w, cost, finish)
             \/ \E flags \in Batches : ToolsValidated(w, flags)
             \/ ResultsIngested(w)
             \/ \E e \in Evidence : VerificationCompleted(w, e)
             \/ Finalized(w)
    BY <2>3, StageCommits DEF CommitStep
  <2>4. CASE \/ \E r \in ReceiptsFor(run.pending) : EffectCompleted(w, r)
             \/ EffectUncertain(w)
             \/ \E r \in ReceiptsFor(run.pending) : Reconciled(w, r)
    BY <2>4, ReceiptCommits, UncertainCommits DEF CommitStep
  <2>5. CASE \/ BudgetReached(w) \/ Failed(w)
             \/ \E rev \in {0} \cup Revisions : CancellationConfirmed(w, rev)
    BY <2>5, StopCommits DEF CommitStep
  <2>6. CASE \/ \E ordinal \in SystemOps : PlanSystemEffect(w, ordinal)
             \/ \E r \in SystemReceipts : SettleSystemEffect(w, r)
    BY <2>6 DEF SystemStep
  <2> QED BY <1>1, <2>1, <2>2, <2>3, <2>4, <2>5, <2>6 DEF WorkerStep
<1>2. CASE ApiStep
  BY <1>2, ControlCommits DEF ApiStep, CommitStep, DecideStep
<1>3. CASE LeaseExpires \/ DeadlinePasses \/ UNCHANGED vars
  BY <1>3 DEF LeaseStep
<1> QED BY <1>1, <1>2, <1>3 DEF Next

-----------------------------------------------------------------------------
(* The effect rows after a commit *)

\* The pending effect of the committed snapshot is a tool call the ledger
\* knows or the batch brings, and a receipt for it is the one it records.
LEMMA PendingAfter ==
  ASSUME RowInv, RunInv, NEW next, NEW batch, NEW r, Good(next),
         EffectLink(run, next, batch, r), FreshBatch(batch),
         next.pending # NoEffect
  PROVE  /\ next.pending.id \in DOMAIN effects \cup BatchIds(batch)
         /\ next.pending.id[2] >= 0 /\ next.pending.id # <<0, 0>>
         /\ next.pending.status \in EffectStatus
         /\ next.pending.id = r.id => next.pending.status = r.status
<1>1. run \in State /\ next \in State /\ ValidBatch(run)
  BY DEF RowInv, Good, validateState
<1>2. run.pending # NoEffect =>
        /\ run.pending.id \in DOMAIN effects /\ run.pending.id[2] >= 0
        /\ run.pending.id # <<0, 0>>
        /\ run.pending.status \in EffectStatus
  BY DEF RunInv, LedgerAgrees, ToolEffects, RowsTyped, EffectRow
<1>3. NoReceipt.id = <<0, 0>>
  BY DEF NoReceipt
<1>4. unsettled(run.pending) \/ run.pending.status = "planned"
        => run.pending # NoEffect
  BY DEF unsettled, NoEffect
<1>5. CASE SamePending(run, next, r)
  <2>1. CASE r = NoReceipt /\ next.pending = run.pending
    BY <1>2, <1>3, <2>1
  <2>2. CASE /\ r = NoReceipt /\ unsettled(run.pending)
             /\ next.pending = [run.pending EXCEPT !.status = "unknown"]
    BY <1>1, <1>2, <1>3, <1>4, <2>2 DEF State, EffectStatus
  <2>3. CASE /\ r = NoReceipt /\ run.pending.status = "planned"
             /\ next.pending = [run.pending EXCEPT !.status = "in_flight",
                                                   !.epoch = run.epoch]
    BY <1>1, <1>2, <1>3, <1>4, <2>3 DEF State, EffectStatus
  <2>4. CASE /\ ReceiptOf(run, r)
             /\ next.pending = [run.pending EXCEPT !.status = r.status]
    BY <1>1, <1>2, <1>4, <2>4 DEF State, EffectStatus, ReceiptOf
  <2> QED BY <1>5, <2>1, <2>2, <2>3, <2>4 DEF SamePending
<1>6. CASE NextPending(run, next, batch, r)
  <2>1. /\ next.pending.id \in BatchIds(run.remaining) \cup BatchIds(batch)
        /\ next.pending.status \in EffectStatus
    BY <1>6 DEF NextPending, EffectStatus
  <2>2. ASSUME NEW id \in BatchIds(run.remaining)
        PROVE  /\ id \in DOMAIN effects /\ id[2] >= 0 /\ id # <<0, 0>>
               /\ run.pending # NoEffect => id # run.pending.id
    BY <1>1, <2>2
       DEF RunInv, LedgerAgrees, ToolEffects, RowsTyped, BatchIds, ValidBatch
  <2>3. ASSUME NEW id \in BatchIds(batch)
        PROVE  /\ id[2] >= 0 /\ id # <<0, 0>>
               /\ run.pending # NoEffect => id # run.pending.id
    BY <1>2, <2>3 DEF FreshBatch
  <2>4. next.pending.id # r.id
    BY <1>3, <1>4, <1>6, <2>1, <2>2, <2>3 DEF NextPending, ReceiptOf
  <2> QED BY <2>1, <2>2, <2>3, <2>4
<1> QED BY <1>5, <1>6 DEF EffectLink

\* The rows EffectsAfter writes: the pending effect's follows the snapshot, a
\* receipt settles the row it names, a new call is planned, all others stay;
\* and a tool row that may be executing is not left behind.
RowsFollow(next, batch, r) ==
  /\ DOMAIN effects' = DOMAIN effects \cup BatchIds(batch)
  /\ r.id \in DOMAIN effects' => ReceiptOf(run, r) /\ r.id \in DOMAIN effects
  /\ next.pending # NoEffect =>
       /\ next.pending.id \in DOMAIN effects'
       /\ effects'[next.pending.id] = PendingRow(next)
       /\ PendingRow(next) \in EffectRow
  /\ \A id \in DOMAIN effects' :
       next.pending = NoEffect \/ id # next.pending.id =>
         effects'[id] =
           IF id = r.id THEN [effects[id] EXCEPT !.status = r.status]
           ELSE IF id \in DOMAIN effects THEN effects[id]
           ELSE PlannedRow(next)
  /\ \A id \in DOMAIN effects :
       id[2] >= 0 /\ effects[id].status \in Unsettled =>
         \/ next.pending # NoEffect /\ id = next.pending.id
         \/ id = r.id

\* What a commit does to the effect rows.
LEMMA RowsAfter ==
  ASSUME RowInv, RunInv, NEW next, NEW batch, NEW r, Good(next),
         EffectLink(run, next, batch, r), FreshBatch(batch),
         effects' = EffectsAfter(next, batch, r)
  PROVE  RowsFollow(next, batch, r)
<1>1. run \in State /\ next \in State /\ validateState(next)
  BY DEF RowInv, Good
<1>2. DOMAIN effects' = DOMAIN effects \cup BatchIds(batch)
  BY DEF EffectsAfter
<1>3. r = NoReceipt \/ ReceiptOf(run, r)
  BY DEF EffectLink, SamePending, NextPending
<1>4. <<0, 0>> \notin DOMAIN effects'
  BY <1>2 DEF RunInv, RowsTyped, FreshBatch
<1>5. unsettled(run.pending) => run.pending.id \in DOMAIN effects
  BY DEF RunInv, LedgerAgrees, unsettled, NoEffect
<1>6. r.id \in DOMAIN effects' => ReceiptOf(run, r) /\ r.id \in DOMAIN effects
  BY <1>3, <1>4, <1>5 DEF NoReceipt, ReceiptOf
<1>7. ASSUME next.pending # NoEffect
      PROVE  /\ next.pending.id \in DOMAIN effects'
             /\ effects'[next.pending.id] = PendingRow(next)
             /\ PendingRow(next) \in EffectRow
  <2> DEFINE p == next.pending
             row == PendingRow(next)
  <2>1. /\ p.id \in DOMAIN effects' /\ p.status \in EffectStatus
        /\ p.id = r.id => p.status = r.status
    BY <1>2, <1>7, PendingAfter
  <2>2. row \in EffectRow /\ row.status = p.status
    BY <1>1, <2>1 DEF PendingRow, EffectRow, State
  <2>3. effects'[p.id] = IF p.id = r.id THEN [row EXCEPT !.status = r.status]
                         ELSE row
    BY <1>2, <1>7, <2>1 DEF EffectsAfter
  <2>4. [row EXCEPT !.status = row.status] = row
    <3> HIDE DEF row
    <3> QED BY <2>2 DEF EffectRow
  <2> HIDE DEF row
  <2> QED BY <2>1, <2>2, <2>3, <2>4 DEF row
<1>8. ASSUME NEW id \in DOMAIN effects',
             next.pending = NoEffect \/ id # next.pending.id
      PROVE  effects'[id] =
               IF id = r.id THEN [effects[id] EXCEPT !.status = r.status]
               ELSE IF id \in DOMAIN effects THEN effects[id]
               ELSE PlannedRow(next)
  BY <1>2, <1>6, <1>8 DEF EffectsAfter
<1>9. ASSUME NEW id \in DOMAIN effects,
             id[2] >= 0, effects[id].status \in Unsettled
      PROVE  \/ next.pending # NoEffect /\ id = next.pending.id
             \/ id = r.id
  <2>1. id = run.pending.id /\ id # <<0, 0>>
    BY <1>9 DEF RunInv, LedgerAgrees, RowsTyped
  <2>2. run.pending # NoEffect
    BY <2>1 DEF NoEffect
  <2>3. CASE SamePending(run, next, r)
    <3>1. next.pending.id = run.pending.id
      BY <1>1, <2>3 DEF SamePending, State
    <3> QED BY <2>1, <3>1 DEF NoEffect
  <2>4. CASE NextPending(run, next, batch, r)
    BY <2>1, <2>2, <2>4 DEF NextPending, ReceiptOf
  <2> QED BY <2>3, <2>4 DEF EffectLink
<1> QED BY <1>2, <1>6, <1>7, <1>8, <1>9 DEF RowsFollow

\* Bump changes the version and nothing else.
LEMMA BumpFields ==
  ASSUME NEW n \in State
  PROVE  /\ Bump(n).version = n.version + 1 /\ Bump(n).status = n.status
         /\ Bump(n).stage = n.stage /\ Bump(n).resumeStage = n.resumeStage
         /\ Bump(n).owner = n.owner /\ Bump(n).epoch = n.epoch
         /\ Bump(n).live = n.live /\ Bump(n).revision = n.revision
         /\ Bump(n).pending = n.pending /\ Bump(n).remaining = n.remaining
         /\ Bump(n).approval = n.approval /\ Bump(n).rounds = n.rounds
         /\ Bump(n).verification = n.verification
         /\ Bump(n).toolCalls = n.toolCalls /\ Bump(n).command = n.command
         /\ Bump(n).stopTarget = n.stopTarget
BY DEF Bump, State

\* A commit keeps the effect ledger in step with the snapshot.
LEMMA LedgerAfter ==
  ASSUME RowInv, RunInv, NEW next, NEW batch, NEW r, Good(next),
         EffectLink(run, next, batch, r), FreshBatch(batch),
         run' = Bump(next), effects' = EffectsAfter(next, batch, r)
  PROVE  RowsTyped' /\ LedgerAgrees' /\ ToolEffects'
<1>1. run \in State /\ next \in State /\ validateState(next)
  BY DEF RowInv, Good
<1>2. run'.pending = next.pending /\ run'.remaining = next.remaining
  BY <1>1, BumpFields
<1>0. RowsFollow(next, batch, r)
  BY RowsAfter
<1>3. DOMAIN effects' = DOMAIN effects \cup BatchIds(batch)
  BY <1>0 DEF RowsFollow
<1>4. r.id \in DOMAIN effects' => ReceiptOf(run, r) /\ r.id \in DOMAIN effects
  BY <1>0 DEF RowsFollow
<1>5. next.pending # NoEffect =>
        /\ next.pending.id \in DOMAIN effects'
        /\ effects'[next.pending.id] = PendingRow(next)
        /\ PendingRow(next) \in EffectRow
  BY <1>0 DEF RowsFollow
<1>6. \A id \in DOMAIN effects' :
        next.pending = NoEffect \/ id # next.pending.id =>
          effects'[id] =
            IF id = r.id THEN [effects[id] EXCEPT !.status = r.status]
            ELSE IF id \in DOMAIN effects THEN effects[id]
            ELSE PlannedRow(next)
  BY <1>0 DEF RowsFollow
<1>7. PlannedRow(next) \in EffectRow /\ PlannedRow(next).status = "planned"
  BY <1>1 DEF PlannedRow, EffectRow, EffectStatus, State
<1>8. RowsTyped'
  <2> SUFFICES ASSUME NEW id \in DOMAIN effects'
               PROVE  id \in OpId /\ id # <<0, 0>> /\ effects'[id] \in EffectRow
    BY DEF RowsTyped
  <2>1. id \in OpId /\ id # <<0, 0>>
    BY <1>3 DEF RunInv, RowsTyped, FreshBatch
  <2>2. CASE next.pending # NoEffect /\ id = next.pending.id
    BY <1>5, <2>1, <2>2
  <2>3. CASE id = r.id /\ (next.pending = NoEffect \/ id # next.pending.id)
    <3>1. /\ effects'[id] = [effects[id] EXCEPT !.status = r.status]
          /\ effects[id] \in EffectRow /\ r.status \in Settled
      BY <1>4, <1>6, <2>3 DEF ReceiptOf, RunInv, RowsTyped
    <3>2. effects'[id] \in EffectRow
      BY <3>1 DEF EffectRow, EffectStatus
    <3> QED BY <2>1, <3>2
  <2>4. CASE id # r.id /\ (next.pending = NoEffect \/ id # next.pending.id)
    BY <1>6, <1>7, <2>1, <2>4 DEF RunInv, RowsTyped
  <2> QED BY <2>2, <2>3, <2>4
<1>9. LedgerAgrees'
  <2>1. ASSUME next.pending # NoEffect
        PROVE  /\ next.pending.id \in DOMAIN effects'
               /\ effects'[next.pending.id].status = next.pending.status
               /\ effects'[next.pending.id].rev = next.pending.rev
               /\ unsettled(next.pending)
                   => effects'[next.pending.id].epoch = next.pending.epoch
    <3>1. unsettled(next.pending) => next.pending.epoch # 0
      BY <1>1 DEF validateState, ValidPending
    <3> QED BY <1>5, <2>1, <3>1 DEF PendingRow
  <2>2. ASSUME NEW i \in DOMAIN next.remaining
        PROVE  /\ next.remaining[i].id \in DOMAIN effects'
               /\ effects'[next.remaining[i].id].status = "planned"
    <3> DEFINE id == next.remaining[i].id
    <3>1. id \in BatchIds(run.remaining) \cup BatchIds(batch)
      BY DEF EffectLink, BatchIds
    <3>2. id \in BatchIds(run.remaining) =>
            /\ id \in DOMAIN effects /\ effects[id].status = "planned"
            /\ run.pending # NoEffect => id # run.pending.id
      BY DEF RunInv, LedgerAgrees, BatchIds, RowInv, Good, validateState,
             ValidBatch
    <3>3. next.pending # NoEffect => id # next.pending.id
      BY <1>1 DEF validateState, ValidBatch
    <3>4. ReceiptOf(run, r) => run.pending # NoEffect /\ r.id = run.pending.id
      BY DEF ReceiptOf, unsettled, NoEffect
    <3>5. id \in BatchIds(batch) => id \notin DOMAIN effects
      BY DEF FreshBatch
    <3> HIDE DEF id
    <3>6. id # r.id /\ id \in DOMAIN effects'
      BY <1>3, <1>4, <3>1, <3>2, <3>4, <3>5
    <3>7. effects'[id].status = "planned"
      BY <1>6, <1>7, <3>1, <3>2, <3>3, <3>5, <3>6
    <3> QED BY <3>6, <3>7 DEF id
  <2>3. ASSUME NEW id \in DOMAIN effects', id[2] >= 0,
               effects'[id].status \in Unsettled
        PROVE  id = next.pending.id
    <3> SUFFICES ASSUME next.pending = NoEffect \/ id # next.pending.id
                 PROVE  FALSE
      OBVIOUS
    <3>1. id # r.id
      <4> SUFFICES ASSUME id = r.id PROVE FALSE
        OBVIOUS
      <4>1. effects[id] \in EffectRow /\ r.status \in Settled
            /\ effects'[id] = [effects[id] EXCEPT !.status = r.status]
        BY <1>4, <1>6 DEF ReceiptOf, RunInv, RowsTyped
      <4>2. effects'[id].status = r.status
        BY <4>1 DEF EffectRow
      <4> QED BY <2>3, <4>1, <4>2 DEF Settled, Unsettled
    <3>2. id \in DOMAIN effects /\ effects'[id] = effects[id]
      BY <1>6, <1>7, <2>3, <3>1 DEF Unsettled
    <3>3. \/ next.pending # NoEffect /\ id = next.pending.id
          \/ id = r.id
      BY <1>0, <2>3, <3>2 DEF RowsFollow
    <3> QED BY <3>1, <3>3
  <2> QED BY <1>2, <2>1, <2>2, <2>3 DEF LedgerAgrees
<1>10. ToolEffects'
  <2>1. ASSUME next.pending # NoEffect
        PROVE  /\ next.pending.id[2] >= 0
               /\ next.pending.epoch > 0
                    => effects'[next.pending.id].epoch = next.pending.epoch
    <3>1. next.pending.id[2] >= 0
      BY <2>1, PendingAfter
    <3>2. next.pending.epoch > 0
            => effects'[next.pending.id].epoch = next.pending.epoch
      <4>1. next.pending.epoch \in Nat
        BY <1>1 DEF State
      <4>2. effects'[next.pending.id].epoch = PendingRow(next).epoch
        BY <1>5, <2>1
      <4> QED BY <4>1, <4>2 DEF PendingRow
    <3> QED BY <3>1, <3>2
  <2>2. ASSUME NEW i \in DOMAIN next.remaining
        PROVE  next.remaining[i].id[2] >= 0
    <3>1. next.remaining[i].id \in BatchIds(run.remaining) \cup BatchIds(batch)
      BY DEF EffectLink, BatchIds
    <3> QED BY <3>1 DEF RunInv, ToolEffects, FreshBatch, BatchIds
  <2> QED BY <1>2, <2>1, <2>2 DEF ToolEffects
<1> QED BY <1>8, <1>9, <1>10

\* A commit leaves the system rows alone and adds none.
LEMMA SystemRowsKept ==
  ASSUME RowInv, RunInv, NEW next, NEW batch, NEW r, Good(next),
         EffectLink(run, next, batch, r), FreshBatch(batch),
         effects' = EffectsAfter(next, batch, r)
  PROVE  /\ DOMAIN effects \subseteq DOMAIN effects'
         /\ \A id \in DOMAIN effects' : id[2] < 0 =>
              id \in DOMAIN effects /\ effects'[id] = effects[id]
<1>0. RowsFollow(next, batch, r)
  BY RowsAfter
<1>1. DOMAIN effects' = DOMAIN effects \cup BatchIds(batch)
  BY <1>0 DEF RowsFollow
<1>2. ASSUME NEW id \in DOMAIN effects', id[2] < 0
      PROVE  id \in DOMAIN effects /\ effects'[id] = effects[id]
  <2>1. id \in OpId
    BY <1>1 DEF RunInv, RowsTyped, FreshBatch
  <2>2. ~(id[2] >= 0)
    BY <1>2, <2>1 DEF OpId
  <2>3. id \in DOMAIN effects
    BY <1>1, <2>2 DEF FreshBatch
  <2>4. next.pending = NoEffect \/ id # next.pending.id
    BY <2>2, PendingAfter
  <2>5. ReceiptOf(run, r) => run.pending # NoEffect /\ r.id = run.pending.id
    BY DEF ReceiptOf, unsettled, NoEffect
  <2>6. id # r.id
    BY <1>0, <2>2, <2>5 DEF RowsFollow, RunInv, ToolEffects
  <2> QED BY <1>0, <2>3, <2>4, <2>6 DEF RowsFollow
<1> QED BY <1>1, <1>2

\* A commit keeps what the system rows say of the stage.
LEMMA SystemAfter ==
  ASSUME RowInv, RunInv, NEW next, NEW batch, NEW r, Good(next),
         EffectLink(run, next, batch, r), StageLink(run, next),
         FreshBatch(batch), run.status \notin Terminal,
         run' = Bump(next), effects' = EffectsAfter(next, batch, r)
  PROVE  SystemRows' /\ CommandFits' /\ CompletedEmpty'
<1>1. run \in State /\ next \in State
  BY DEF RowInv, Good
<1>2. /\ run'.status = next.status /\ run'.stage = next.stage
      /\ run'.resumeStage = next.resumeStage
      /\ run'.rounds = next.rounds /\ run'.revision = next.revision
      /\ run'.command = next.command /\ run'.remaining = next.remaining
      /\ run'.verification = next.verification
  BY <1>1, BumpFields
<1>3. \A g : At(run, g)' <=> At(next, g)
  BY <1>2 DEF At
<1>4. /\ DOMAIN effects \subseteq DOMAIN effects'
      /\ \A id \in DOMAIN effects' : id[2] < 0 =>
           id \in DOMAIN effects /\ effects'[id] = effects[id]
  BY SystemRowsKept
<1>5. run.rounds \in Nat /\ next.rounds \in Nat /\ next.rounds >= run.rounds
  BY <1>1 DEF State, StageLink
<1> DEFINE x == <<next.rounds, -3>>
           y == <<run.rounds, -3>>
<1>6. /\ SystemId(run, -3)' = x /\ SystemId(run, -3) = y
      /\ x[2] < 0 /\ x[1] = next.rounds /\ y[1] = run.rounds
      /\ next.rounds = run.rounds => x = y
      /\ SystemStatus(run, -3) = "succeeded" =>
           y \in DOMAIN effects /\ effects[y].status = "succeeded"
  BY <1>2 DEF SystemId, SystemStatus
<1>7. SystemRows'
  <2> HIDE DEF x, y
  <2>1. ASSUME NEW id \in DOMAIN effects', id[2] < 0
        PROVE  id[1] <= next.rounds
    <3>1. id \in DOMAIN effects /\ id \in OpId
      BY <1>4, <2>1 DEF RunInv, RowsTyped
    <3>2. id[1] <= run.rounds /\ id[1] \in Nat
      BY <2>1, <3>1 DEF RunInv, SystemRows, OpId
    <3> QED BY <1>5, <3>2
  <2>2. At(next, "model_step") => next.rounds > 0 /\ x \notin DOMAIN effects'
    <3> SUFFICES ASSUME At(next, "model_step")
                 PROVE  next.rounds > 0 /\ x \notin DOMAIN effects'
      OBVIOUS
    <3>1. CASE At(run, "model_step") /\ next.rounds = run.rounds
      BY <1>4, <1>6, <3>1 DEF RunInv, SystemRows
    <3>2. CASE next.rounds = run.rounds + 1
      <4>1. ~(x[1] <= run.rounds)
        BY <1>5, <1>6, <3>2
      <4>2. x \notin DOMAIN effects'
        BY <1>4, <1>6, <4>1 DEF RunInv, SystemRows
      <4> QED BY <1>5, <3>2, <4>2
    <3> QED BY <3>1, <3>2 DEF StageLink
  <2>3. At(next, "validate_tool_calls") => next.rounds > 0
    BY DEF StageLink, RunInv, SystemRows
  <2>4. At(next, "verify") /\ x \in DOMAIN effects'
          => effects'[x].rev = next.revision
    BY <1>4, <1>6 DEF StageLink, RunInv, SystemRows
  <2>5. (At(next, "finalize") \/ next.status = "completed") /\ -3 \in SystemOps
          => /\ x \in DOMAIN effects' /\ effects'[x].status = "succeeded"
             /\ effects'[x].rev = next.revision
    BY <1>4, <1>6 DEF StageLink, RunInv, SystemRows
  <2> QED BY <1>2, <1>3, <1>6, <2>1, <2>2, <2>3, <2>4, <2>5 DEF SystemRows
<1>8. CommandFits' /\ CompletedEmpty'
  BY <1>2 DEF StageLink, CommandFits, CompletedEmpty
<1> QED BY <1>7, <1>8

\* A commit keeps the approvals: rows are only added, and what is dispatched
\* has its grant.
LEMMA ApprovalsFollow ==
  ASSUME RowInv, RunInv, NEW next, NEW batch, NEW r, Good(next),
         EffectLink(run, next, batch, r), NoGrant(run, next),
         run' = Bump(next), approvals' = ApprovalsAfter(next)
  PROVE  ApprovalsTyped' /\ GrantRecorded' /\ ApprovalBinds'
<1>1. run \in State /\ next \in State
  BY DEF RowInv, Good
<1>2. run'.pending = next.pending /\ run'.approval = next.approval
  BY <1>1, BumpFields
<1>3. \A id \in DOMAIN approvals :
        id \in DOMAIN approvals' /\ approvals'[id] = approvals[id]
  BY DEF ApprovalsAfter
<1>4. GrantRecorded'
  BY <1>2, <1>3 DEF NoGrant, GrantRecorded, RunInv
<1>5. ApprovalBinds'
  <2> SUFFICES ASSUME unsettled(next.pending), next.pending.appr
               PROVE  /\ next.pending.id \in DOMAIN approvals
                      /\ approvals[next.pending.id].decision = "allow"
                      /\ approvals[next.pending.id].rev = next.pending.rev
    BY <1>2, <1>3 DEF ApprovalBinds
  <2>1. CASE NextPending(run, next, batch, r)
    BY <2>1 DEF NextPending, unsettled, NoEffect
  <2>2. CASE r = NoReceipt /\ next.pending = run.pending
    BY <2>2 DEF RunInv, ApprovalBinds
  <2>3. CASE /\ r = NoReceipt /\ unsettled(run.pending)
             /\ next.pending = [run.pending EXCEPT !.status = "unknown"]
    <3>1. /\ next.pending.id = run.pending.id
          /\ next.pending.rev = run.pending.rev
          /\ next.pending.appr = run.pending.appr
      BY <1>1, <2>3 DEF State
    <3> QED BY <2>3, <3>1 DEF RunInv, ApprovalBinds
  <2>4. CASE /\ next.pending = [run.pending EXCEPT !.status = "in_flight",
                                                   !.epoch = run.epoch]
             /\ run.pending.appr => /\ run.approval.granted
                                    /\ run.approval.id = run.pending.id
                                    /\ run.approval.rev = run.pending.rev
    <3>1. /\ next.pending.id = run.pending.id
          /\ next.pending.rev = run.pending.rev
          /\ next.pending.appr = run.pending.appr
      BY <1>1, <2>4 DEF State
    <3> QED BY <2>4, <3>1 DEF RunInv, GrantRecorded
  <2>5. CASE /\ ReceiptOf(run, r)
             /\ next.pending = [run.pending EXCEPT !.status = r.status]
    <3>1. next.pending.status = r.status /\ r.status \in Settled
      BY <1>1, <2>5 DEF State, ReceiptOf
    <3> QED BY <3>1 DEF unsettled, Settled
  <2> QED BY <2>1, <2>2, <2>3, <2>4, <2>5 DEF EffectLink, SamePending
<1>6. ApprovalsTyped'
  <2>1. ASSUME NEW id \in DOMAIN approvals', id \notin DOMAIN approvals
        PROVE  approvals'[id] \in ApprovalRow
    <3>1. approvals'[id] = [rev |-> next.approval.rev,
                            version |-> next.approval.version,
                            decision |-> "none"]
      BY <2>1 DEF ApprovalsAfter
    <3>2. next.approval.rev \in Nat /\ next.approval.version \in Nat
      BY <1>1 DEF State
    <3> QED BY <3>1, <3>2 DEF ApprovalRow
  <2> QED BY <1>3, <2>1 DEF ApprovalsTyped, RunInv
<1> QED BY <1>4, <1>5, <1>6

\* A commit gives the slot back only where nothing may be executing and nobody
\* holds the lease.
LEMMA SlotAfter ==
  ASSUME RowInv, RunInv, NEW next, NEW batch, NEW r, NEW a, Good(next),
         SlotLink(next, a), run.status \notin Terminal,
         run' = Bump(next),
         alloc' = IF next.status \in Terminal \cup {"waiting_approval"}
                  THEN Released(a) ELSE a
  PROVE  UncertainKeepsCapacity'
<1>1. run \in State /\ next \in State /\ validateState(next)
  BY DEF RowInv, Good
<1>2. /\ run'.pending = next.pending /\ run'.owner = next.owner
      /\ run'.status = next.status
      /\ LeaseValid(run') <=> LeaseValid(next)
  BY <1>1, BumpFields DEF LeaseValid
<1>3. next.status \in Terminal \cup {"waiting_approval"} =>
        /\ ~unsettled(next.pending)
        /\ next.status \notin Terminal => ~LeaseValid(next)
  BY <1>1 DEF validateState, ValidTerminal, ValidWait, unsettled, LeaseValid,
              Terminal
<1>4. unsettled(next.pending) \/ LeaseValid(next) => a = "reserved"
  BY DEF SlotLink, RunInv, UncertainKeepsCapacity, LeaseValid, unsettled,
         NoEffect
<1> QED BY <1>2, <1>3, <1>4 DEF UncertainKeepsCapacity

\* A commit makes every other view an old one.
LEMMA ViewsAfter ==
  ASSUME RowInv, RunInv, NEW next, Good(next), next.version = run.version,
         run' = Bump(next), view' = view \/ \E w \in Workers : Reload(w)
  PROVE  ViewsOld'
<1>1. /\ run \in State /\ next \in State
      /\ view \in [Workers -> State \cup {Idle}]
  BY DEF RowInv, Good
<1>2. run'.version = run.version + 1 /\ run.version \in Nat
  BY <1>1, BumpFields DEF State
<1> SUFFICES ASSUME NEW v \in Workers, view'[v] # Idle
             PROVE  /\ view'[v].version <= run'.version
                    /\ view'[v].version = run'.version =>
                         /\ view'[v].rounds = run'.rounds
                         /\ view'[v].revision = run'.revision
                         /\ view'[v].command = run'.command
  BY DEF ViewsOld
<1>3. view'[v] = view[v] \/ view'[v] = run'
  BY <1>1 DEF Reload
<1>4. CASE view'[v] = run'
  BY <1>2, <1>4
<1>5. CASE view'[v] = view[v]
  <2>1. view[v].version \in Nat /\ view[v].version <= run.version
    BY <1>1, <1>5 DEF RunInv, ViewsOld, State
  <2> QED BY <1>2, <1>5, <2>1
<1> QED BY <1>3, <1>4, <1>5

\* Commits preserve the invariant.
LEMMA CommitInv ==
  ASSUME RowInv, RunInv, CommitStep PROVE RunInv'
<1>1. PICK next, batch, r, a : Committed(next, batch, r, a)
  BY DEF CommitStep, CommitWith
<1>2. /\ Good(next) /\ EffectLink(run, next, batch, r) /\ StageLink(run, next)
      /\ NoGrant(run, next) /\ FreshBatch(batch) /\ SlotLink(next, a)
      /\ run.status \notin Terminal /\ run' = Bump(next)
      /\ effects' = EffectsAfter(next, batch, r)
      /\ approvals' = ApprovalsAfter(next)
      /\ alloc' = IF next.status \in Terminal \cup {"waiting_approval"}
                  THEN Released(a) ELSE a
      /\ next.version = run.version
  BY <1>1 DEF Committed, persistTransition, Link, StageLink
<1>3. RowsTyped' /\ LedgerAgrees' /\ ToolEffects'
  BY <1>2, LedgerAfter
<1>4. SystemRows' /\ CommandFits' /\ CompletedEmpty'
  BY <1>2, SystemAfter
<1>5. ApprovalsTyped' /\ GrantRecorded' /\ ApprovalBinds'
  BY <1>2, ApprovalsFollow
<1>6. UncertainKeepsCapacity'
  BY <1>2, SlotAfter
<1>7. ViewsOld'
  BY <1>2, ViewsAfter DEF CommitStep, CommitWith
<1> QED BY <1>3, <1>4, <1>5, <1>6, <1>7 DEF RunInv

\* A decision is a commit that records a grant before the snapshot has it.
LEMMA DecideInv ==
  ASSUME RowInv, RunInv, DecideStep PROVE RunInv'
<1>1. PICK id \in DOMAIN approvals, allow \in BOOLEAN : Decide(id, allow)
  BY DEF DecideStep
<1> DEFINE next == decideApproval(run, allow)
<1>2. PICK c : CanDecide(run, c) /\ c.id = id /\ c.rev = approvals[id].rev
  BY <1>1 DEF Decide
<1>3. /\ run.status \notin Terminal /\ run' = Bump(next)
      /\ effects' = EffectsAfter(next, << >>, NoReceipt)
      /\ approvals' = [approvals EXCEPT ![id].decision =
                         IF allow THEN "allow" ELSE "deny"]
      /\ approvals[id].decision = "none"
      /\ view' = view /\ alloc' = alloc
  BY <1>1 DEF Decide, Accepts
<1>4. Good(run) /\ run \in State /\ run.approval.id = id
      /\ run.approval.rev = approvals[id].rev
      /\ run.status = "waiting_approval"
  BY <1>2 DEF RowInv, Good, CanDecide
<1>5. Good(next) /\ next \in State
  BY <1>2, <1>4, DecideGood DEF Good
<1>6. /\ EffectLink(run, next, << >>, NoReceipt) /\ StageLink(run, next)
      /\ next.pending = run.pending /\ next.owner = run.owner
      /\ next.approval.id = id /\ next.approval.rev = approvals[id].rev
      /\ next.approval.granted => allow
      /\ next.version = run.version
  BY <1>2, <1>4, DecideLink DEF Link, StageLink
<1> HIDE DEF next
<1>7. RowsTyped' /\ LedgerAgrees' /\ ToolEffects'
  BY <1>3, <1>5, <1>6, NoBatch, LedgerAfter
<1>8. SystemRows' /\ CommandFits' /\ CompletedEmpty'
  BY <1>3, <1>5, <1>6, NoBatch, SystemAfter
<1>9. /\ run'.pending = run.pending /\ run'.approval = next.approval
      /\ run'.owner = run.owner
  BY <1>3, <1>5, <1>6, BumpFields
<1>10. /\ DOMAIN approvals' = DOMAIN approvals
       /\ \A i \in DOMAIN approvals : i # id => approvals'[i] = approvals[i]
       /\ approvals'[id] \in ApprovalRow
       /\ approvals'[id].rev = approvals[id].rev
       /\ approvals'[id].decision = (IF allow THEN "allow" ELSE "deny")
  <2> DEFINE d == IF allow THEN "allow" ELSE "deny"
  <2>1. d \in {"none", "allow", "deny"} /\ approvals[id] \in ApprovalRow
    BY <1>1 DEF RunInv, ApprovalsTyped
  <2>2. approvals' = [approvals EXCEPT ![id].decision = d]
    BY <1>3
  <2>3. d = (IF allow THEN "allow" ELSE "deny")
    OBVIOUS
  <2> HIDE DEF d
  <2> QED BY <2>1, <2>2, <2>3 DEF ApprovalRow
<1>11. UncertainKeepsCapacity'
  <2>1. run.owner = NoOwner
    BY <1>4 DEF Good, validateState, ValidWait
  <2> QED BY <1>3, <1>9, <2>1
          DEF UncertainKeepsCapacity, LeaseValid, RunInv, unsettled
<1>12. ViewsOld'
  BY <1>3, <1>5, <1>6, ViewsAfter
<1>13. ApprovalBinds'
  <2>1. unsettled(run.pending) /\ run.pending.appr => run.pending.id # id
    BY <1>3 DEF RunInv, ApprovalBinds
  <2> QED BY <1>9, <1>10, <2>1 DEF RunInv, ApprovalBinds, unsettled
<1>14. GrantRecorded'
  BY <1>6, <1>9, <1>10 DEF GrantRecorded
<1>15. ApprovalsTyped'
  BY <1>10 DEF RunInv, ApprovalsTyped
<1> QED BY <1>7, <1>8, <1>11, <1>12, <1>13, <1>14, <1>15 DEF RunInv

\* System effects touch only rows of system effects: a row is planned once, by
\* the worker whose view is the row, and a receipt settles an unsettled one.
LEMMA SystemInv ==
  ASSUME RowInv, RunInv, SystemStep PROVE RunInv'
<1>1. PICK w \in Workers :
        \/ \E ordinal \in SystemOps : PlanSystemEffect(w, ordinal)
        \/ \E r \in SystemReceipts : SettleSystemEffect(w, r)
  BY DEF SystemStep
<1>2. /\ run' = run /\ view' = view /\ approvals' = approvals
      /\ alloc' = alloc
  BY <1>1 DEF PlanSystemEffect, SettleSystemEffect
<1>3. Good(run) /\ run \in State /\ view \in [Workers -> State \cup {Idle}]
  BY DEF RowInv, Good
<1>4. /\ ApprovalsTyped' /\ GrantRecorded' /\ ApprovalBinds'
      /\ UncertainKeepsCapacity' /\ CommandFits' /\ ViewsOld'
      /\ CompletedEmpty'
  BY <1>2 DEF RunInv, ApprovalsTyped, GrantRecorded, ApprovalBinds,
     UncertainKeepsCapacity, CommandFits, ViewsOld, CompletedEmpty
<1>5. ASSUME \A id \in DOMAIN effects :
               /\ id \in DOMAIN effects'
               /\ ~(id[2] < 0) => effects'[id] = effects[id],
             \A id \in DOMAIN effects' :
               ~(id[2] < 0) => id \in DOMAIN effects,
             RowsTyped'
      PROVE  LedgerAgrees' /\ ToolEffects'
  <2>1. \A id \in DOMAIN effects : id[2] \in Int
    BY DEF RunInv, RowsTyped, OpId
  <2>2. run.pending # NoEffect =>
          /\ run.pending.id \in DOMAIN effects /\ ~(run.pending.id[2] < 0)
          /\ effects'[run.pending.id] = effects[run.pending.id]
    BY <1>5, <2>1 DEF RunInv, LedgerAgrees, ToolEffects
  <2>3. ToolEffects'
    BY <1>2, <2>2 DEF RunInv, ToolEffects
  <2>4. ASSUME NEW i \in DOMAIN run.remaining
        PROVE  /\ run.remaining[i].id \in DOMAIN effects'
               /\ effects'[run.remaining[i].id].status = "planned"
    BY <1>5, <2>1 DEF RunInv, LedgerAgrees, ToolEffects
  <2>5. ASSUME NEW id \in DOMAIN effects', id[2] >= 0,
               effects'[id].status \in Unsettled
        PROVE  id = run.pending.id
    <3>1. id[2] \in Int
      BY <1>5 DEF RowsTyped, OpId
    <3> QED BY <1>5, <2>5, <3>1 DEF RunInv, LedgerAgrees
  <2>6. run.pending # NoEffect =>
          /\ run.pending.id \in DOMAIN effects'
          /\ effects'[run.pending.id].status = run.pending.status
          /\ effects'[run.pending.id].rev = run.pending.rev
          /\ unsettled(run.pending)
               => effects'[run.pending.id].epoch = run.pending.epoch
    BY <1>5, <2>2 DEF RunInv, LedgerAgrees
  <2> QED BY <1>2, <2>3, <2>4, <2>5, <2>6 DEF LedgerAgrees
<1>6. ASSUME NEW ordinal \in SystemOps, PlanSystemEffect(w, ordinal)
      PROVE  RunInv'
  <2> DEFINE id == SystemId(view[w], ordinal)
             row == [status |-> "in_flight", epoch |-> run.epoch,
                     rev |-> IF ordinal = -1 THEN 1 ELSE view[w].revision]
  <2>1. /\ view[w] # Idle /\ view[w].version = run.version
        /\ id \notin DOMAIN effects
        /\ ordinal \in {-2, -3} => view[w].command = "verify"
        /\ DOMAIN effects' = DOMAIN effects \cup {id}
        /\ effects'[id] = row
        /\ \A i \in DOMAIN effects : effects'[i] = effects[i]
    BY <1>6 DEF PlanSystemEffect
  <2>2. /\ view[w].rounds = run.rounds /\ view[w].revision = run.revision
        /\ view[w].command = run.command
    BY <2>1 DEF RunInv, ViewsOld
  <2>3. ordinal \in Int /\ ordinal < 0
    BY OutcomeAssumption
  <2>4. /\ id = <<run.rounds, ordinal>> /\ id \in OpId
        /\ id[2] < 0 /\ id[1] = run.rounds /\ id # <<0, 0>>
        /\ run.rounds \in Nat
    <3>1. run.rounds \in Nat
      BY <1>3 DEF State
    <3>2. id = <<run.rounds, ordinal>>
      BY <2>2 DEF SystemId
    <3>3. <<run.rounds, ordinal>> \in OpId
      BY <2>3, <3>1 DEF OpId
    <3> QED BY <2>3, <3>1, <3>2, <3>3
  <2>5. /\ row \in EffectRow
        /\ ordinal = -3 => row.rev = run.revision
    BY <1>3, <2>2 DEF EffectRow, EffectStatus, State
  <2> HIDE DEF row
  <2>6. RowsTyped'
    BY <2>1, <2>4, <2>5 DEF RunInv, RowsTyped
  <2>7. LedgerAgrees' /\ ToolEffects'
    BY <1>5, <2>1, <2>4, <2>6
  <2>8. SystemRows'
    <3> DEFINE x == <<run.rounds, -3>>
    <3>1. SystemId(run, -3) = x /\ SystemId(run, -3)' = x
      BY <1>2 DEF SystemId
    <3>2. x = id => ordinal = -3
      BY <2>4
    <3>3. x = id => run.stage = "verify"
      BY <2>1, <2>2, <3>2 DEF RunInv, CommandFits
    <3>4. run.status = "completed" => run.stage = "stopped"
      BY <1>3 DEF Good, validateState, ValidTerminal, Terminal
    <3>5. x = id => ~At(run, "model_step")
      BY <3>3 DEF At
    <3>6. /\ x \in DOMAIN effects' => x \in DOMAIN effects \/ x = id
          /\ x \in DOMAIN effects =>
               x \in DOMAIN effects' /\ effects'[x] = effects[x]
          /\ x = id => effects'[x].rev = run.revision
      BY <2>1, <2>5, <3>2
    <3>7. \A i \in DOMAIN effects' : i[2] < 0 => i[1] <= run.rounds
      BY <2>1, <2>4 DEF RunInv, SystemRows
    <3> HIDE DEF id, x
    <3>8. At(run, "model_step") => run.rounds > 0 /\ x \notin DOMAIN effects'
      BY <3>1, <3>5, <3>6 DEF RunInv, SystemRows
    <3>9. At(run, "validate_tool_calls") => run.rounds > 0
      BY DEF RunInv, SystemRows
    <3>10. At(run, "verify") /\ x \in DOMAIN effects'
              => effects'[x].rev = run.revision
      BY <3>1, <3>6 DEF RunInv, SystemRows
    <3>11. (At(run, "finalize") \/ run.status = "completed")
             /\ -3 \in SystemOps
             => /\ x \in DOMAIN effects' /\ effects'[x].status = "succeeded"
                /\ effects'[x].rev = run.revision
      BY <3>1, <3>6 DEF RunInv, SystemRows
    <3> QED BY <1>2, <3>1, <3>7, <3>8, <3>9, <3>10, <3>11 DEF SystemRows, At
  <2> QED BY <1>4, <2>6, <2>7, <2>8 DEF RunInv
<1>7. ASSUME NEW r \in SystemReceipts, SettleSystemEffect(w, r)
      PROVE  RunInv'
  <2>1. /\ r.id \in DOMAIN effects /\ r.id[2] < 0 /\ r.status \in Settled
        /\ effects' = [effects EXCEPT ![r.id].status = r.status]
        /\ effects[r.id] \in EffectRow
    BY <1>7 DEF SettleSystemEffect, RunInv, RowsTyped
  <2>2. effects[r.id].status \notin Settled
    BY <1>7 DEF SystemReceipts
  <2>3. /\ DOMAIN effects' = DOMAIN effects
        /\ \A i \in DOMAIN effects : i # r.id => effects'[i] = effects[i]
        /\ effects'[r.id] = [effects[r.id] EXCEPT !.status = r.status]
    BY <2>1
  <2>4. effects'[r.id] \in EffectRow /\ effects'[r.id].rev = effects[r.id].rev
    BY <2>1, <2>3 DEF EffectRow, EffectStatus
  <2>5. RowsTyped'
    BY <2>3, <2>4 DEF RunInv, RowsTyped
  <2>6. LedgerAgrees' /\ ToolEffects'
    BY <1>5, <2>1, <2>3, <2>5
  <2>7. SystemRows'
    <3> DEFINE x == SystemId(run, -3)
    <3>1. SystemId(run, -3)' = x
      BY <1>2 DEF SystemId
    <3>2. x \in DOMAIN effects => effects'[x].rev = effects[x].rev
      BY <2>3, <2>4
    <3>3. x \in DOMAIN effects /\ effects[x].status = "succeeded"
            => effects'[x] = effects[x]
      BY <2>2, <2>3 DEF Settled
    <3> HIDE DEF x
    <3> QED BY <1>2, <2>3, <3>1, <3>2, <3>3 DEF RunInv, SystemRows, At, x
  <2> QED BY <1>4, <2>5, <2>6, <2>7 DEF RunInv
<1> QED BY <1>1, <1>6, <1>7

\* Leases that end, views that are dropped or read again and the deadline
\* change neither the ledgers nor what the row says of them.
LEMMA LeaseInv ==
  ASSUME RowInv, RunInv, LeaseStep PROVE RunInv'
<1>1. /\ Good(run) /\ run \in State /\ view \in [Workers -> State \cup {Idle}]
  BY DEF RowInv, Good
<1>2. /\ effects' = effects /\ approvals' = approvals
      /\ \/ run' = run
         \/ run' = [run EXCEPT !.live = FALSE]
  BY DEF LeaseStep, Refresh, Crash, Defer, LeaseExpires, DeadlinePasses, vars
<1>3. /\ run'.version = run.version /\ run'.status = run.status
      /\ run'.stage = run.stage /\ run'.resumeStage = run.resumeStage
      /\ run'.owner = run.owner /\ run'.epoch = run.epoch
      /\ run'.revision = run.revision /\ run'.pending = run.pending
      /\ run'.remaining = run.remaining /\ run'.approval = run.approval
      /\ run'.rounds = run.rounds /\ run'.verification = run.verification
      /\ run'.command = run.command
      /\ LeaseValid(run)' => LeaseValid(run)
  BY <1>1, <1>2 DEF State, LeaseValid
<1>4. RowsTyped' /\ LedgerAgrees' /\ ToolEffects'
  BY <1>2, <1>3 DEF RunInv, RowsTyped, LedgerAgrees, ToolEffects, unsettled
<1>5. ApprovalsTyped' /\ GrantRecorded' /\ ApprovalBinds'
  BY <1>2, <1>3
     DEF RunInv, ApprovalsTyped, GrantRecorded, ApprovalBinds, unsettled
<1>6. SystemRows' /\ CommandFits' /\ CompletedEmpty'
  BY <1>2, <1>3 DEF RunInv, SystemRows, CommandFits, CompletedEmpty, At,
                    SystemId
<1>7. UncertainKeepsCapacity'
  <2>1. CASE alloc' = alloc
    BY <1>3, <2>1 DEF RunInv, UncertainKeepsCapacity, unsettled
  <2>2. CASE \E w \in Workers : Defer(w)
    <3>1. /\ ~LeaseValid(run)'
          /\ alloc' = alloc \/ run.pending = NoEffect
      BY <1>1, <2>2 DEF Defer, LeaseValid, State
    <3> QED BY <1>3, <3>1
            DEF RunInv, UncertainKeepsCapacity, unsettled, NoEffect
  <2> QED BY <2>1, <2>2
          DEF LeaseStep, Refresh, Crash, LeaseExpires, DeadlinePasses, vars
<1>8. ViewsOld'
  <2> SUFFICES ASSUME NEW v \in Workers, view'[v] # Idle
               PROVE  /\ view'[v].version <= run'.version
                      /\ view'[v].version = run'.version =>
                           /\ view'[v].rounds = run'.rounds
                           /\ view'[v].revision = run'.revision
                           /\ view'[v].command = run'.command
    BY DEF ViewsOld
  <2>1. view'[v] = view[v] \/ view'[v] = run
    BY <1>1
       DEF LeaseStep, Refresh, Crash, Defer, LeaseExpires, DeadlinePasses, vars
  <2>2. run.version \in Nat
    BY <1>1 DEF State
  <2> QED BY <1>3, <2>1, <2>2 DEF RunInv, ViewsOld
<1> QED BY <1>4, <1>5, <1>6, <1>7, <1>8 DEF RunInv

-----------------------------------------------------------------------------
(* The theorems *)

\* The first state has no effect, no approval and no lease.
LEMMA RunInit == Init => RunInv
<1> SUFFICES ASSUME Init PROVE RunInv
  OBVIOUS
<1>1. /\ run = NewState /\ DOMAIN effects = {} /\ DOMAIN approvals = {}
      /\ \A w \in Workers : view[w] = Idle
  BY DEF Init
<1>2. /\ run.pending = NoEffect /\ run.remaining = << >>
      /\ run.approval = NoApproval /\ run.owner = NoOwner
      /\ run.status = "queued" /\ run.stage = "initialize"
      /\ run.command = "none"
  BY <1>1 DEF NewState
<1> QED BY <1>1, <1>2
     DEF RunInv, RowsTyped, LedgerAgrees, ToolEffects, ApprovalsTyped,
         GrantRecorded, ApprovalBinds, UncertainKeepsCapacity, SystemRows,
         CommandFits, ViewsOld, CompletedEmpty, At, LeaseValid, unsettled,
         NoEffect, NoApproval, Terminal

\* Every step preserves the invariant: one case per kind of step.
LEMMA RunNext == RowInv /\ RunInv /\ [Next]_vars => RunInv'
BY StepKinds, CommitInv, DecideInv, SystemInv, LeaseInv

\* Both invariants hold of every reachable state.
LEMMA RunAlways == Spec => [](RowInv /\ RunInv)
BY RowInit, RowNext, RunInit, RunNext, PTL DEF Spec

\* For any number of workers, batches, bounds and limits: the effect rows and
\* the snapshot never disagree, whoever crashed between which commits.
THEOREM LedgersFollowSnapshot == Spec => []LedgerAgrees
<1>1. RunInv => LedgerAgrees
  BY DEF RunInv
<1> QED BY RunAlways, <1>1, PTL

\* An operation that needs approval may be executing only under a recorded
\* grant of that operation at that revision.
THEOREM DispatchedUnderGrant == Spec => []ApprovalBinds
<1>1. RunInv => ApprovalBinds
  BY DEF RunInv
<1> QED BY RunAlways, <1>1, PTL

\* A run whose operation may be executing, and a run under a valid lease, has
\* its runner slot.
THEOREM UncertainRunsHoldSlot == Spec => []UncertainKeepsCapacity
<1>1. RunInv => UncertainKeepsCapacity
  BY DEF RunInv
<1> QED BY RunAlways, <1>1, PTL

\* A completed run is verified at the revision it publishes, its regression
\* check succeeded there, and nothing of it may still be executing.
THEOREM CompletedRunsVerified == Spec => []CompletedVerified
<1>1. RowInv /\ RunInv => CompletedVerified
  <2> SUFFICES ASSUME RowInv, RunInv, run.status = "completed"
               PROVE  /\ run.verification # "unverified"
                      /\ run.verRevision = run.revision
                      /\ -3 \in SystemOps =>
                           /\ SystemStatus(run, -3) = "succeeded"
                           /\ effects[SystemId(run, -3)].rev = run.revision
                      /\ run.remaining = << >>
                      /\ \A id \in DOMAIN effects :
                           id[2] >= 0 => effects[id].status \notin Unsettled
    BY DEF CompletedVerified
  <2>1. /\ run.verification # "unverified" /\ run.remaining = << >>
        /\ run.verRevision = run.revision
    BY DEF RunInv, CompletedEmpty, RowInv, Good, validateState,
           ValidVerification
  <2>2. -3 \in SystemOps =>
          /\ SystemStatus(run, -3) = "succeeded"
          /\ effects[SystemId(run, -3)].rev = run.revision
    BY DEF RunInv, SystemRows, SystemStatus
  <2>3. ~unsettled(run.pending)
    BY DEF RowInv, Good, validateState, ValidTerminal, Terminal
  <2>4. ASSUME NEW id \in DOMAIN effects, id[2] >= 0,
               effects[id].status \in Unsettled
        PROVE  FALSE
    <3>1. id = run.pending.id /\ id # <<0, 0>>
      BY <2>4 DEF RunInv, LedgerAgrees, RowsTyped
    <3>2. run.pending # NoEffect
      BY <3>1 DEF NoEffect
    <3> QED BY <2>3, <2>4, <3>1, <3>2
            DEF RunInv, LedgerAgrees, unsettled, Unsettled
  <2> QED BY <2>1, <2>2, <2>4
<1> QED BY RunAlways, <1>1, PTL

-----------------------------------------------------------------------------
(* What a step may never do *)

\* What DispatchOnce says of the row of one operation, and that a dispatched one
\* keeps its revision.
RowOnce(id) ==
  /\ id \in DOMAIN effects'
  /\ effects'[id].status = "in_flight"
       => effects[id].status \in {"planned", "in_flight"}
  /\ effects[id].status \in Unsettled
       => /\ effects'[id].status # "planned"
          /\ effects'[id].epoch = effects[id].epoch
          /\ effects'[id].rev = effects[id].rev
  /\ effects[id].status \in Settled => effects'[id] = effects[id]

\* A row that does not change, or is settled once, keeps to RowOnce.
LEMMA RowKeeps ==
  ASSUME NEW id \in DOMAIN effects, id \in DOMAIN effects', RowsTyped,
         \/ effects'[id] = effects[id]
         \/ \E st \in Settled : /\ effects[id].status \notin Settled
                               /\ effects'[id] =
                                    [effects[id] EXCEPT !.status = st]
  PROVE  RowOnce(id)
<1>1. effects[id] \in EffectRow
  BY DEF RowsTyped
<1>2. CASE effects'[id] = effects[id]
  BY <1>1, <1>2 DEF RowOnce, Unsettled, EffectRow, EffectStatus
<1>3. ASSUME NEW st \in Settled, effects[id].status \notin Settled,
             effects'[id] = [effects[id] EXCEPT !.status = st]
      PROVE  RowOnce(id)
  <2>1. /\ effects'[id].status = st /\ effects'[id].epoch = effects[id].epoch
        /\ effects'[id].rev = effects[id].rev
    BY <1>1, <1>3 DEF EffectRow
  <2> QED BY <1>3, <2>1 DEF RowOnce, Settled
<1> QED BY <1>2, <1>3

\* The pending effect's row after a commit: a dispatch comes from planned, and
\* the epoch of a dispatched effect is the row's for ever.
LEMMA PendingOnce ==
  ASSUME RowInv, RunInv, NEW next, NEW batch, NEW r, Good(next),
         EffectLink(run, next, batch, r), FreshBatch(batch),
         RowsFollow(next, batch, r),
         next.pending # NoEffect, next.pending.id \in DOMAIN effects
  PROVE  RowOnce(next.pending.id)
<1> DEFINE p == run.pending
           q == next.pending
           id == q.id
<1>1. run \in State /\ next \in State
  BY DEF RowInv, Good
<1>2. /\ id \in DOMAIN effects' /\ effects'[id].status = q.status
      /\ effects'[id].rev = q.rev
      /\ q.epoch > 0 => effects'[id].epoch = q.epoch
      /\ effects[id] \in EffectRow /\ effects'[id] \in EffectRow
      /\ q.epoch \in Nat /\ p.epoch \in Nat
  <2>1. q.epoch \in Nat /\ p.epoch \in Nat
    BY <1>1 DEF State
  <2>2. /\ id \in DOMAIN effects' /\ effects'[id] = PendingRow(next)
        /\ effects[id] \in EffectRow /\ effects'[id] \in EffectRow
    BY DEF RowsFollow, RunInv, RowsTyped
  <2>3. /\ PendingRow(next).status = q.status /\ PendingRow(next).rev = q.rev
        /\ q.epoch > 0 => PendingRow(next).epoch = q.epoch
    BY <2>1 DEF PendingRow
  <2> QED BY <2>1, <2>2, <2>3
<1>3. p # NoEffect =>
        /\ effects[p.id].status = p.status /\ effects[p.id].rev = p.rev
        /\ p.epoch > 0 => effects[p.id].epoch = p.epoch
  BY DEF RunInv, LedgerAgrees, ToolEffects
<1>4. unsettled(p) \/ p.status \in Settled => p.epoch > 0
  BY DEF RowInv, Good, validateState, ValidPending
<1>5. p.status \in {"planned"} \cup Unsettled \cup Settled => p # NoEffect
  BY DEF NoEffect, Unsettled, Settled
<1> SUFFICES RowOnce(id)
  OBVIOUS
<1> HIDE DEF p, q, id
<1>6. CASE SamePending(run, next, r)
  <2>1. CASE r = NoReceipt /\ q = p
    <3>1. /\ effects'[id].status = effects[id].status
          /\ p.epoch > 0 => effects'[id].epoch = effects[id].epoch
          /\ effects'[id].rev = effects[id].rev
          /\ effects[id].status = p.status
      BY <1>2, <1>3, <2>1 DEF q, id
    <3>2. p.epoch > 0 => effects'[id] = effects[id]
      BY <1>2, <3>1 DEF EffectRow
    <3> QED BY <1>2, <1>4, <3>1, <3>2 DEF RowOnce, unsettled, Unsettled
  <2>2. CASE /\ r = NoReceipt /\ unsettled(p)
             /\ q = [p EXCEPT !.status = "unknown"]
    <3>1. /\ q.id = p.id /\ q.status = "unknown" /\ q.epoch = p.epoch
          /\ q.rev = p.rev
      BY <1>1, <2>2 DEF State, p
    <3> QED BY <1>2, <1>3, <1>4, <1>5, <2>2, <3>1
            DEF RowOnce, unsettled, Unsettled, Settled, id
  <2>3. CASE /\ r = NoReceipt /\ p.status = "planned"
             /\ q = [p EXCEPT !.status = "in_flight", !.epoch = run.epoch]
    <3>1. q.id = p.id
      BY <1>1, <2>3 DEF State, p
    <3> QED BY <1>2, <1>3, <1>5, <2>3, <3>1
            DEF RowOnce, Unsettled, Settled, id
  <2>4. CASE ReceiptOf(run, r) /\ q = [p EXCEPT !.status = r.status]
    <3>1. /\ q.id = p.id /\ q.status = r.status /\ q.epoch = p.epoch
          /\ q.rev = p.rev
      BY <1>1, <2>4 DEF State, p
    <3>2. unsettled(p) /\ r.status \in Settled
      BY <2>4 DEF ReceiptOf, p
    <3> QED BY <1>2, <1>3, <1>4, <1>5, <3>1, <3>2
            DEF RowOnce, unsettled, Unsettled, Settled, id
  <2> QED BY <1>6, <2>1, <2>2, <2>3, <2>4 DEF SamePending, p, q
<1>7. CASE NextPending(run, next, batch, r)
  <2>1. id \in BatchIds(run.remaining)
    BY <1>7 DEF NextPending, FreshBatch, id, q
  <2>2. effects[id].status = "planned"
    BY <2>1 DEF BatchIds, RunInv, LedgerAgrees
  <2> QED BY <1>2, <2>2 DEF RowOnce, Unsettled, Settled
<1> QED BY <1>6, <1>7 DEF EffectLink, id, q

\* A commit dispatches only what was planned and settles a row once.
LEMMA CommitOnce ==
  ASSUME RowInv, RunInv, NEW next, NEW batch, NEW r, Good(next),
         EffectLink(run, next, batch, r), FreshBatch(batch),
         effects' = EffectsAfter(next, batch, r)
  PROVE  \A id \in DOMAIN effects : RowOnce(id)
<1> SUFFICES ASSUME NEW id \in DOMAIN effects PROVE RowOnce(id)
  OBVIOUS
<1>1. RowsFollow(next, batch, r) /\ RowsTyped
  BY RowsAfter DEF RunInv
<1>2. id \in DOMAIN effects'
  BY <1>1 DEF RowsFollow
<1>3. CASE next.pending # NoEffect /\ id = next.pending.id
  BY <1>1, <1>3, PendingOnce
<1>4. CASE next.pending = NoEffect \/ id # next.pending.id
  <2>1. CASE id = r.id
    <3>1. /\ ReceiptOf(run, r)
          /\ effects'[id] = [effects[id] EXCEPT !.status = r.status]
      BY <1>1, <1>2, <1>4, <2>1 DEF RowsFollow
    <3>2. /\ r.status \in Settled /\ run.pending # NoEffect
          /\ id = run.pending.id
          /\ run.pending.status \notin Settled
      BY <2>1, <3>1 DEF ReceiptOf, unsettled, NoEffect, Settled
    <3>3. effects[id].status \notin Settled
      BY <3>2 DEF RunInv, LedgerAgrees
    <3> QED BY <1>1, <1>2, <3>1, <3>2, <3>3, RowKeeps
  <2>2. CASE id # r.id
    <3>1. effects'[id] = effects[id]
      BY <1>1, <1>2, <1>4, <2>2 DEF RowsFollow
    <3> QED BY <1>1, <1>2, <3>1, RowKeeps
  <2> QED BY <2>1, <2>2
<1> QED BY <1>3, <1>4

\* What system effects do to the rows: one is added as in_flight by a run that
\* is not stopping, or one that is not settled gets its receipt.
LEMMA SystemOnce ==
  ASSUME RowInv, RunInv, SystemStep
  PROVE  /\ run' = run
         /\ \A id \in DOMAIN effects : RowOnce(id)
         /\ run.status \in Terminal \cup {"cancel_requested"} =>
              \A id \in DOMAIN effects' : effects'[id].status = "in_flight" =>
                id \in DOMAIN effects /\ effects[id].status = "in_flight"
<1>1. RowsTyped
  BY DEF RunInv
<1>2. ASSUME NEW w \in Workers, NEW ordinal \in SystemOps,
             PlanSystemEffect(w, ordinal)
      PROVE  /\ run' = run
             /\ \A id \in DOMAIN effects : RowOnce(id)
             /\ run.status \notin Terminal \cup {"cancel_requested"}
  <2>1. /\ run' = run /\ view[w] # Idle /\ view[w].version = run.version
        /\ view[w].command \in {"initialize_workspace", "verify", "finalize"}
        /\ \A i \in DOMAIN effects :
             i \in DOMAIN effects' /\ effects'[i] = effects[i]
    BY <1>2 DEF PlanSystemEffect
  <2>2. run.command = view[w].command
    BY <2>1 DEF RunInv, ViewsOld
  <2>3. run.status \notin Terminal \cup {"cancel_requested"}
    BY <2>1, <2>2 DEF RunInv, CommandFits
  <2>4. ASSUME NEW id \in DOMAIN effects PROVE RowOnce(id)
    BY <1>1, <2>1, RowKeeps
  <2> QED BY <2>1, <2>3, <2>4
<1>3. ASSUME NEW w \in Workers, NEW r \in SystemReceipts,
             SettleSystemEffect(w, r)
      PROVE  /\ run' = run
             /\ \A id \in DOMAIN effects : RowOnce(id)
             /\ \A id \in DOMAIN effects' : effects'[id].status = "in_flight" =>
                  id \in DOMAIN effects /\ effects[id].status = "in_flight"
  <2>1. /\ run' = run /\ r.id \in DOMAIN effects /\ r.status \in Settled
        /\ effects' = [effects EXCEPT ![r.id].status = r.status]
        /\ effects[r.id] \in EffectRow
    BY <1>1, <1>3 DEF SettleSystemEffect, RowsTyped
  <2>2. effects[r.id].status \notin Settled
    BY <1>3 DEF SystemReceipts
  <2>3. /\ DOMAIN effects' = DOMAIN effects
        /\ \A i \in DOMAIN effects : i # r.id => effects'[i] = effects[i]
        /\ effects'[r.id] = [effects[r.id] EXCEPT !.status = r.status]
    BY <2>1
  <2>4. ASSUME NEW id \in DOMAIN effects PROVE RowOnce(id)
    BY <1>1, <2>1, <2>2, <2>3, RowKeeps
  <2>5. effects'[r.id].status # "in_flight"
    BY <2>1, <2>3 DEF EffectRow, Settled
  <2> QED BY <2>1, <2>3, <2>4, <2>5
<1> QED BY <1>2, <1>3 DEF SystemStep

\* What a step does to the row of an operation.
LEMMA OnceNext ==
  ASSUME RowInv, RunInv, [Next]_vars
  PROVE  \A id \in DOMAIN effects : RowOnce(id)
<1>0. RowsTyped
  BY DEF RunInv
<1>1. CASE CommitStep
  <2>1. PICK next, batch, r, a : Committed(next, batch, r, a)
    BY <1>1 DEF CommitStep, CommitWith
  <2> QED BY <2>1, CommitOnce DEF Committed, persistTransition, Link
<1>2. CASE DecideStep
  <2>1. PICK id \in DOMAIN approvals, allow \in BOOLEAN : Decide(id, allow)
    BY <1>2 DEF DecideStep
  <2> DEFINE next == decideApproval(run, allow)
  <2>2. PICK c : CanDecide(run, c)
    BY <2>1 DEF Decide
  <2>3. effects' = EffectsAfter(next, << >>, NoReceipt) /\ Good(run)
    BY <2>1 DEF Decide, RowInv
  <2>4. Good(next) /\ EffectLink(run, next, << >>, NoReceipt)
    BY <2>2, <2>3, DecideGood, DecideLink DEF Link
  <2> HIDE DEF next
  <2> QED BY <2>3, <2>4, NoBatch, CommitOnce
<1>3. CASE SystemStep
  BY <1>3, SystemOnce
<1>4. CASE LeaseStep
  <2>1. effects' = effects
    BY <1>4 DEF LeaseStep, Refresh, Crash, Defer, LeaseExpires,
                DeadlinePasses, vars
  <2> QED BY <1>0, <2>1, RowKeeps
<1> QED BY <1>1, <1>2, <1>3, <1>4, StepKinds

\* An operation is dispatched once in the life of a run, whatever workers
\* crash, lose their lease or reconcile, and a receipt is final.
THEOREM EffectsDispatchedOnce == Spec => DispatchOnce
<1> DEFINE Once ==
      \A id \in DOMAIN effects :
        /\ id \in DOMAIN effects'
        /\ effects'[id].status = "in_flight"
             => effects[id].status \in {"planned", "in_flight"}
        /\ effects[id].status \in Unsettled
             => /\ effects'[id].status # "planned"
                /\ effects'[id].epoch = effects[id].epoch
        /\ effects[id].status \in Settled => effects'[id] = effects[id]
<1>1. RowInv /\ RunInv /\ [Next]_vars => [Once]_vars
  BY OnceNext DEF RowOnce
<1> QED BY RunAlways, <1>1, PTL DEF Spec, DispatchOnce

\* What CancelDominates says of a step of a stopping or finished run.
StopsOnly ==
  /\ run'.status \in {run.status, run.stopTarget}
  /\ run.status \in Terminal => run'.status = run.status
  /\ run'.stopTarget = run.stopTarget
  /\ run'.toolCalls = run.toolCalls /\ run'.rounds = run.rounds
  /\ \A id \in DOMAIN effects' : effects'[id].status = "in_flight" =>
       id \in DOMAIN effects /\ effects[id].status = "in_flight"

\* The commits a stopping run still accepts dispatch nothing.
LEMMA CommitStops ==
  ASSUME RowInv, RunInv, NEW next, NEW batch, NEW r, NEW a,
         Committed(next, batch, r, a), run.status = "cancel_requested"
  PROVE  StopsOnly
<1>1. /\ Good(next) /\ EffectLink(run, next, batch, r) /\ StopLink(run, next)
      /\ FreshBatch(batch) /\ run' = Bump(next)
      /\ effects' = EffectsAfter(next, batch, r)
      /\ run \in State /\ next \in State
  BY DEF Committed, persistTransition, Link, RowInv, Good
<1>2. RowsFollow(next, batch, r)
  BY <1>1, RowsAfter
<1>3. /\ run'.status \in {run.status, run.stopTarget}
      /\ run'.stopTarget = run.stopTarget
      /\ run'.toolCalls = run.toolCalls /\ run'.rounds = run.rounds
  BY <1>1, BumpFields DEF StopLink
<1>4. ASSUME NEW id \in DOMAIN effects', effects'[id].status = "in_flight"
      PROVE  id \in DOMAIN effects /\ effects[id].status = "in_flight"
  <2>1. CASE next.pending # NoEffect /\ id = next.pending.id
    <3>1. next.pending.status = "in_flight"
      BY <1>2, <1>4, <2>1 DEF RowsFollow, PendingRow
    <3>2. r = NoReceipt /\ next.pending = run.pending
      BY <1>1, <3>1
         DEF EffectLink, SamePending, NextPending, ReceiptOf, Settled, State
    <3> QED BY <2>1, <3>1, <3>2 DEF RunInv, LedgerAgrees
  <2>2. CASE next.pending = NoEffect \/ id # next.pending.id
    <3>1. CASE id = r.id
      <4>1. /\ effects'[id] = [effects[id] EXCEPT !.status = r.status]
            /\ r.status \in Settled /\ id \in DOMAIN effects
        BY <1>2, <2>2, <3>1 DEF RowsFollow, ReceiptOf
      <4>2. effects[id] \in EffectRow
        BY <4>1 DEF RunInv, RowsTyped
      <4> QED BY <1>4, <4>1, <4>2 DEF EffectRow, Settled
    <3>2. CASE id # r.id
      <4>1. effects'[id] = IF id \in DOMAIN effects THEN effects[id]
                           ELSE PlannedRow(next)
        BY <1>2, <2>2, <3>2 DEF RowsFollow
      <4>2. PlannedRow(next).status = "planned"
        BY DEF PlannedRow
      <4> QED BY <1>4, <4>1, <4>2
    <3> QED BY <3>1, <3>2
  <2> QED BY <2>1, <2>2
<1> QED BY <1>3, <1>4 DEF StopsOnly, Terminal

\* No step leads a stopping or finished run back to work.
LEMMA StopNext ==
  ASSUME RowInv, RunInv, [Next]_vars,
         run.status \in Terminal \cup {"cancel_requested"}
  PROVE  StopsOnly
<1>1. CASE CommitStep
  <2>1. PICK next, batch, r, a : Committed(next, batch, r, a)
    BY <1>1 DEF CommitStep, CommitWith
  <2>2. run.status = "cancel_requested"
    BY <2>1 DEF Committed
  <2> QED BY <2>1, <2>2, CommitStops
<1>2. CASE DecideStep
  BY <1>2 DEF DecideStep, Decide, CanDecide, Terminal
<1>3. CASE SystemStep
  BY <1>3, SystemOnce DEF StopsOnly
<1>4. CASE LeaseStep
  <2>1. /\ effects' = effects
        /\ run' = run \/ run' = [run EXCEPT !.live = FALSE]
    BY <1>4 DEF LeaseStep, Refresh, Crash, Defer, LeaseExpires,
                DeadlinePasses, vars
  <2>2. run \in State
    BY DEF RowInv, Good
  <2> QED BY <2>1, <2>2 DEF StopsOnly, State
<1> QED BY <1>1, <1>2, <1>3, <1>4, StepKinds

\* Once a stop is requested no answer of a model, a tool or a verification
\* dispatches anything or changes what the run will end as.
THEOREM CancellationDominates == Spec => CancelDominates
<1> DEFINE Dominates ==
      run.status \in Terminal \cup {"cancel_requested"} => StopsOnly
<1>1. RowInv /\ RunInv /\ [Next]_vars => [Dominates]_vars
  BY StopNext
<1> QED BY RunAlways, <1>1, PTL
        DEF Spec, CancelDominates, StopsOnly

-----------------------------------------------------------------------------
(* The fourth part: the control plane and the runner *)

LP == INSTANCE OperationLedgerProofs WITH OpIds <- OpId, Epochs <- 1..MaxEpoch

-----------------------------------------------------------------------------
(* The invariant *)

Stopping == {"cancelled", "failed", "budget_exhausted", "cancel_requested"}

RequestType ==
  [rpc : {"start", "prepare", "adopt", "stop"}, id : OpId \cup {NoOp},
   epoch : 1..MaxEpoch, rev : Nat]

\* The row of a dispatched operation has this epoch and revision.
Dispatched(id, e, rev) ==
  /\ id \in DOMAIN effects /\ effects[id].status # "planned"
  /\ effects[id].epoch = e /\ effects[id].rev = rev

\* A request is of an epoch the run has reached, one that starts an operation
\* has a dispatched row and a workspace, and one to stop comes from a run that
\* stops, whose owner sends no other request any more.
RequestsFit ==
  \A m \in sent :
    /\ m \in RequestType /\ m.epoch <= run.epoch
    /\ m.rpc = "start" =>
         ws.exists /\ m.id \in OpId /\ Dispatched(m.id, m.epoch, m.rev)
    /\ m.rpc = "stop" => run.status \in Stopping

OwnersStop ==
  (\E m \in sent : m.rpc = "stop") =>
    \A w \in Workers :
      view[w] # Idle /\ view[w].epoch = run.epoch /\ run.owner = w
        => view[w].command \in {"stop_execution", "publish_terminal"}

\* A worker's view is a good row; an operation it has dispatched has its row, a
\* workspace it has used exists, and a stop it has seen is not taken back.
ViewsFit ==
  \A w \in Workers : view[w] # Idle =>
    /\ Good(view[w]) /\ view[w].epoch <= run.epoch
    /\ view[w].pending.epoch > 0
         => /\ ws.exists
            /\ Dispatched(view[w].pending.id, view[w].pending.epoch,
                          view[w].pending.rev)
    /\ view[w].command \in {"verify", "finalize"} => ws.exists
    /\ view[w].command = "stop_execution" => run.status \in Stopping

\* What the row's command says of its stage, and the bound on claims.
RowFits ==
  /\ run.epoch <= MaxEpoch
  /\ run.command = "stop_execution" => run.status = "cancel_requested"
  /\ run.command = "initialize_workspace" => run.stage = "initialize"
  /\ run.command = "finalize" => run.stage = "finalize"

\* The effects ledger maps operation IDs to rows.
RowsByID == effects = [id \in DOMAIN effects |-> effects[id]]

\* The stage in which a system effect is planned.
StageOf(ordinal) ==
  IF ordinal = -1 THEN "initialize"
  ELSE IF ordinal = -4 THEN "finalize" ELSE "verify"

Stuck(s) == At(s, "reconcile") /\ ~unsettled(s.pending)

\* A system effect without a receipt belongs to the stage and the step the run
\* is in, unless the run stops or cannot go on.
SystemOpen ==
  \A id \in DOMAIN effects : id[2] < 0 =>
    /\ id[2] \in SystemOps /\ effects[id].status # "planned"
    /\ \/ effects[id].status \in Settled
       \/ run.status \in Stopping
       \/ Stuck(run)
       \/ At(run, StageOf(id[2])) /\ id[1] = run.rounds

\* The runner's revision is the one the snapshot has, or the one of the receipt
\* it waits for; before the first revision there are no tool effects.
RevisionFits ==
  /\ run.revision > 0 =>
       /\ ws.exists
       /\ ws.revision = IF unsettled(run.pending)
                           /\ SettledAtRunner(run.pending.id)
                        THEN ops[run.pending.id].after ELSE run.revision
  /\ run.revision = 0 => \A id \in DOMAIN effects : id[2] < 0

\* Only tools write, within the bound, and receipts have modelled outcomes.
WritesFit ==
  /\ \A i \in DOMAIN tree : tree[i][2] >= 0
  /\ 1 + Len(tree) <= MaxRevision
  /\ \A id \in DOMAIN ops :
       ops[id].status # "open" =>
         ops[id].status \in Outcomes /\ ops[id].after <= MaxRevision

StopType ==
  [rpc : {"adopt", "stop"}, epoch : 1..MaxEpoch, revision : 0..MaxRevision]

\* A stop receipt answers a request; after the receipt of a stop the workspace
\* is stopped and idle, or there was none and no operation is ever started.
StopsFit ==
  \A s \in stops :
    /\ s \in StopType
    /\ \E m \in sent : m.rpc = s.rpc /\ m.epoch = s.epoch
    /\ s.rpc = "adopt" => s.revision > 0
    /\ s.rpc = "stop" =>
         \/ ws.stopped /\ ws.active = NoOp /\ s.revision = ws.revision
         \/ /\ s.revision = 0 /\ DOMAIN ops = {}
            /\ \A m \in sent : m.rpc # "start"

\* A run that was stopped has a stop receipt.
StoppedFits ==
  run.status \in Terminal \ {"completed"} => \E s \in stops : s.rpc = "stop"

ProtocolInv ==
  /\ RowInv /\ RunInv /\ LP!LedgerInv /\ LedgersMatch /\ RowsByID
  /\ RequestsFit /\ OwnersStop /\ ViewsFit /\ RowFits /\ SystemOpen
  /\ RevisionFits /\ WritesFit /\ StopsFit /\ StoppedFits

-----------------------------------------------------------------------------
(* The runner's side is an operation ledger *)

\* What the protocol does to the workspace preserves the ledger's invariant.
LEMMA LedgerKept == LP!LedgerInv /\ [L!LedgerNext]_runner => LP!LedgerInv'
<1>1. NoOp \notin OpId /\ 1..MaxEpoch \subseteq Nat \ {0}
  BY NoOpAssumption, BoundAssumption
<1>2. LP!LedgerInv /\ [LP!LedgerNext]_(LP!ledgerVars) => LP!LedgerInv'
  BY <1>1, LP!LedgerNextInv
<1>3. [L!LedgerNext]_runner => [LP!LedgerNext]_(LP!ledgerVars)
  BY DEF runner, LP!ledgerVars, L!LedgerNext, LP!LedgerNext, L!Prepare,
         LP!Prepare, L!Reopen, LP!Reopen, L!Release, LP!Release, L!Fence,
         LP!Fence, L!Accept, LP!Accept, L!Write, LP!Write, L!Settle, LP!Settle,
         L!Outcome, LP!Outcome, L!NoWorkspace, LP!NoWorkspace, L!Changed,
         LP!Changed
<1> QED BY <1>2, <1>3

-----------------------------------------------------------------------------
(* What a reducer function does to the stage, the lease and the revision *)

\* The system effects of stage g in the run's step have their receipts.
Closed(s, g) ==
  \A o \in SystemOps : StageOf(o) = g => SystemStatus(s, o) \in Settled

\* A stage with system effects is left when these are closed, or for a stop; a
\* run that cannot go on can only be stopped; a command fits its stage.
FlowLink(s, n) ==
  /\ n.command = "stop_execution" => n.status = "cancel_requested"
  /\ n.command = "initialize_workspace" => n.stage = "initialize"
  /\ n.command = "finalize" => n.stage = "finalize"
  /\ \A g \in {"initialize", "verify", "finalize"} : At(s, g) =>
       \/ n.status = "cancel_requested" \/ Stuck(n) \/ Closed(s, g)
       \/ At(n, g) /\ n.rounds = s.rounds
  /\ Stuck(s) => n.status = "cancel_requested" \/ Stuck(n)

\* The lease is the one it was, or is given up.
LeaseKept(s, n) == n.epoch = s.epoch /\ n.owner \in {s.owner, NoOwner}

\* Only a confirmed stop ends a run other than as completed.
Unstopped(s, n) == n.status \in StopTargets => n.status = s.status

Kept(s, n) ==
  /\ FlowLink(s, n) /\ LeaseKept(s, n) /\ Unstopped(s, n)
  /\ n.revision = s.revision

\* A claim remembers the stage, under a new epoch.
LEMMA ClaimFlow ==
  ASSUME NEW s, Good(s), CanClaim(s), NEW w
  PROVE  /\ FlowLink(s, claim(s, w)) /\ claim(s, w).revision = s.revision
         /\ Unstopped(s, claim(s, w))
         /\ claim(s, w).owner = w /\ claim(s, w).epoch = s.epoch + 1
<1>1. s \in State
  BY DEF Good
<1> DEFINE n == claim(s, w)
<1>2. /\ n.revision = s.revision /\ n.owner = w /\ n.epoch = s.epoch + 1
      /\ n.rounds = s.rounds /\ n.pending = s.pending
      /\ n.status = "cancel_requested" <=> s.status = "cancel_requested"
      /\ n.status \in {s.status, "running"} /\ "running" \notin StopTargets
  BY <1>1 DEF claim, State, StopTargets
<1>3. /\ n.command \in {"stop_execution", "initialize_workspace",
                        "adopt_workspace"}
      /\ n.command = "stop_execution" => s.status = "cancel_requested"
      /\ n.command = "initialize_workspace"
           => s.revision = 0 /\ s.status # "cancel_requested"
  BY <1>1 DEF claim, State
<1>4. s.status # "cancel_requested" =>
        \/ /\ s.revision = 0 /\ n.stage = s.stage
           /\ n.resumeStage = s.resumeStage
        \/ /\ s.revision # 0 /\ n.stage = "adopt_workspace"
           /\ n.resumeStage = IF s.stage = "adopt_workspace"
                              THEN s.resumeStage ELSE s.stage
  BY <1>1 DEF claim, State
<1> HIDE DEF n
<1>5. n.command = "initialize_workspace" => n.stage = "initialize"
  BY <1>3, <1>4 DEF CanClaim
<1>6. \A g : At(s, g) => At(n, g)
  BY <1>2, <1>4 DEF At
<1>7. Stuck(s) => Stuck(n)
  BY <1>2, <1>6 DEF Stuck
<1> QED BY <1>2, <1>3, <1>5, <1>6, <1>7 DEF FlowLink, Unstopped, n

\* A stop keeps stage, lease and revision.
LEMMA StopFlow == ASSUME NEW s, Good(s), NEW t PROVE Kept(s, stop(s, t))
BY DEF Good, stop, Kept, Unstopped, StopTargets, FlowLink, LeaseKept, State

\* A rejected run is in the same stage.
LEMMA RejectFlow ==
  ASSUME NEW s, Good(s), CanRejectCapacity(s)
  PROVE  Kept(s, capacityRejected(s))
<1>1. s \in State /\ s.stage = "initialize"
  BY DEF Good, CanRejectCapacity, requireStage
<1> QED BY <1>1 DEF capacityRejected, Kept, Unstopped, StopTargets, FlowLink,
                    LeaseKept, State, At,
                    Stuck

\* A workspace is ready once the initial check has its receipt.
LEMMA ReadyFlow ==
  ASSUME NEW s, Good(s), requireStage(s, "initialize"), NEW rev \in Nat,
         Closed(s, "initialize")
  PROVE  LET n == workspaceReady(s, rev)
         IN /\ FlowLink(s, n) /\ LeaseKept(s, n) /\ n.revision = rev
            /\ n.pending = s.pending /\ Unstopped(s, n)
<1>1. s \in State /\ s.stage = "initialize"
  BY DEF Good, requireStage
<1> HIDE DEF Closed
<1> QED BY <1>1 DEF workspaceReady, Goto, FlowLink, LeaseKept, Unstopped,
                    State, At, Stuck

\* A context is built in a stage without system effects.
LEMMA ContextFlow ==
  ASSUME NEW s, Good(s), requireStage(s, "build_context"), NEW b, NEW k
  PROVE  Kept(s, contextBuilt(s, b, k))
<1>1. s \in State /\ s.stage = "build_context"
  BY DEF Good, requireStage
<1>2. ~Stuck(s) /\ \A g \in {"initialize", "verify", "finalize"} : ~At(s, g)
  BY <1>1 DEF At, Stuck
<1>3. CASE contextBuilt(s, b, k) = stop(s, "budget_exhausted")
  BY <1>3, StopFlow
<1>4. CASE contextBuilt(s, b, k) =
             [Goto(s, "model_step", "call_model") EXCEPT !.rounds = @ + 1]
  BY <1>1, <1>2, <1>4 DEF Goto, Kept, Unstopped, StopTargets, FlowLink,
                          LeaseKept, State
<1> QED BY <1>3, <1>4 DEF contextBuilt

\* So is a model's answer taken.
LEMMA ModelFlow ==
  ASSUME NEW s, Good(s), requireStage(s, "model_step"), NEW c, NEW f, NEW b
  PROVE  Kept(s, modelCompleted(s, c, f, b))
<1>1. s \in State /\ s.stage = "model_step"
  BY DEF Good, requireStage
<1>2. ~Stuck(s) /\ \A g \in {"initialize", "verify", "finalize"} : ~At(s, g)
  BY <1>1 DEF At, Stuck
<1> QED BY <1>1, <1>2
        DEF modelCompleted, stop, Goto, Kept, Unstopped, StopTargets,
            FlowLink, LeaseKept, State

\* An uncertain effect, and ingested results.
LEMMA UncertainFlow ==
  ASSUME NEW s, Good(s), requireStage(s, "execute_effects")
  PROVE  Kept(s, effectUncertain(s))
<1>1. s \in State /\ s.stage = "execute_effects"
  BY DEF Good, requireStage
<1>2. ~Stuck(s) /\ \A g \in {"initialize", "verify", "finalize"} : ~At(s, g)
  BY <1>1 DEF At, Stuck
<1> QED BY <1>1, <1>2
        DEF effectUncertain, Goto, Kept, Unstopped, StopTargets, FlowLink,
            LeaseKept, State

\* ResultsIngested leaves what the ledgers mirror as it was.
LEMMA IngestFlow ==
  ASSUME NEW s, Good(s), requireStage(s, "ingest_results")
  PROVE  Kept(s, resultsIngested(s))
<1>1. s \in State /\ s.stage = "ingest_results"
  BY DEF Good, requireStage
<1>2. ~Stuck(s) /\ \A g \in {"initialize", "verify", "finalize"} : ~At(s, g)
  BY <1>1 DEF At, Stuck
<1> QED BY <1>1, <1>2
        DEF resultsIngested, Goto, Kept, Unstopped, StopTargets, FlowLink,
            LeaseKept, State

\* A verification needs the receipts of the checks.
LEMMA VerifyFlow ==
  ASSUME NEW s, Good(s), requireStage(s, "verify"), NEW v, Closed(s, "verify")
  PROVE  Kept(s, verify(s, v))
<1>1. s \in State /\ s.stage = "verify"
  BY DEF Good, requireStage
<1> HIDE DEF Closed
<1> QED BY <1>1 DEF verify, Goto, Kept, Unstopped, StopTargets, FlowLink,
                    LeaseKept, State, At, Stuck

\* A completion needs the receipt of the diff.
LEMMA FinalizeFlow ==
  ASSUME NEW s, Good(s), CanFinalize(s), Closed(s, "finalize")
  PROVE  Kept(s, finalized(s))
<1>1. s \in State /\ s.stage = "finalize"
  BY DEF Good, CanFinalize, requireStage
<1> HIDE DEF Closed
<1> QED BY <1>1 DEF finalized, Goto, Kept, Unstopped, StopTargets, FlowLink,
                    LeaseKept, State, At,
                    Stuck

\* A confirmed stop takes the revision of the stop receipt.
LEMMA ConfirmFlow ==
  ASSUME NEW s, Good(s), NEW rev \in Nat, CanConfirmStop(s, rev)
  PROVE  LET n == confirmStop(s, rev)
         IN /\ FlowLink(s, n) /\ LeaseKept(s, n) /\ n.revision = rev
            /\ n.pending = s.pending
<1>1. s \in State /\ s.status = "cancel_requested"
  BY DEF Good, CanConfirmStop
<1> QED BY <1>1 DEF confirmStop, ClearVerification, Goto, FlowLink, LeaseKept,
                    State, At, Stuck

\* A resume request gives the lease up.
LEMMA ResumeFlow ==
  ASSUME NEW s, Good(s) PROVE Kept(s, resumeRequested(s))
<1>1. s \in State
  BY DEF Good
<1> QED BY <1>1 DEF resumeRequested, Kept, Unstopped, StopTargets, FlowLink,
                    LeaseKept, State, At,
                    Stuck, unsettled

\* A decision is made at the approval gate.
LEMMA DecideFlow ==
  ASSUME NEW s, Good(s), NEW c, CanDecide(s, c), NEW allow \in BOOLEAN
  PROVE  Kept(s, decideApproval(s, allow))
<1>1. s \in State /\ s.stage = "approval_gate"
  BY DEF Good, CanDecide
<1>2. ~Stuck(s) /\ \A g \in {"initialize", "verify", "finalize"} : ~At(s, g)
  BY <1>1 DEF At, Stuck
<1> QED BY <1>1, <1>2
        DEF decideApproval, stop, Kept, Unstopped, StopTargets, FlowLink,
            LeaseKept, State

\* Taking the next effect of a batch keeps the lease, or gives it up to wait.
LEMMA ScheduleFlow ==
  ASSUME NEW m \in State, m.status = "running", NEW b
  PROVE  LET n == scheduleEffect(m, b)
         IN /\ LeaseKept(m, n) /\ n.revision = m.revision
            /\ n.status \notin StopTargets
            /\ n.command = "stop_execution" => n.status = "cancel_requested"
            /\ n.command \notin {"initialize_workspace", "finalize"}
<1>1. CASE m.remaining = << >>
  BY <1>1 DEF scheduleEffect, Goto, LeaseKept, State, StopTargets
<1>2. CASE m.remaining # << >> /\ budgetReached(m, b, FALSE, TRUE)
  BY <1>2 DEF scheduleEffect, stop, LeaseKept, State, StopTargets
<1>3. CASE m.remaining # << >> /\ ~budgetReached(m, b, FALSE, TRUE)
  <2> DEFINE t == TakeEffect(m)
             h == Head(m.remaining).appr
  <2>1. /\ scheduleEffect(m, b) = IF h THEN RequestApproval(t)
                                  ELSE dispatchEffect(t)
    BY <1>3 DEF scheduleEffect
  <2>2. PICK q, e : t = [m EXCEPT !.remaining = q, !.pending = e]
    BY DEF TakeEffect
  <2> HIDE DEF t, h
  <2>3. CASE h
    <3>1. scheduleEffect(m, b) = RequestApproval(t)
      BY <2>1, <2>3
    <3>2. /\ RequestApproval(t).epoch = m.epoch
          /\ RequestApproval(t).owner = NoOwner
          /\ RequestApproval(t).revision = m.revision
          /\ RequestApproval(t).command = "request_approval"
          /\ RequestApproval(t).status = "waiting_approval"
      BY <2>2 DEF RequestApproval, State
    <3> QED BY <3>1, <3>2 DEF LeaseKept, StopTargets
  <2>4. CASE ~h
    <3>1. scheduleEffect(m, b) = dispatchEffect(t)
      BY <2>1, <2>4
    <3>2. /\ dispatchEffect(t).epoch = m.epoch
          /\ dispatchEffect(t).owner = m.owner
          /\ dispatchEffect(t).revision = m.revision
          /\ dispatchEffect(t).command = "execute_effect"
          /\ dispatchEffect(t).status = "running"
      BY <2>2 DEF dispatchEffect, State
    <3> QED BY <3>1, <3>2 DEF LeaseKept, StopTargets
  <2> QED BY <2>3, <2>4
<1> QED BY <1>1, <1>2, <1>3

\* A batch is planned in a stage without system effects.
LEMMA ToolsFlow ==
  ASSUME NEW s, Good(s), NEW batch \in Seq([id : OpId, appr : BOOLEAN]),
         CanValidate(s, batch), NEW b
  PROVE  Kept(s, toolsValidated(s, batch, b))
<1> DEFINE m == [s EXCEPT !.remaining = batch]
           n == scheduleEffect(m, b)
<1>1. s \in State /\ s.stage = "validate_tool_calls" /\ s.status = "running"
  BY DEF Good, CanValidate, requireStage
<1>2. ~Stuck(s) /\ \A g \in {"initialize", "verify", "finalize"} : ~At(s, g)
  BY <1>1 DEF At, Stuck
<1>3. /\ m \in State /\ m.status = "running" /\ m.epoch = s.epoch
      /\ m.owner = s.owner /\ m.revision = s.revision
  BY <1>1 DEF State
<1>4. toolsValidated(s, batch, b) = n
  BY DEF toolsValidated
<1> HIDE DEF m
<1>5. /\ LeaseKept(m, n) /\ n.revision = m.revision
      /\ n.status \notin StopTargets
      /\ n.command = "stop_execution" => n.status = "cancel_requested"
      /\ n.command \notin {"initialize_workspace", "finalize"}
  BY <1>3, ScheduleFlow
<1> HIDE DEF n
<1> QED BY <1>2, <1>3, <1>4, <1>5 DEF Kept, Unstopped, StopTargets, FlowLink,
                                      LeaseKept

\* A receipt moves the revision to what the operation left.
LEMMA SettleFlow ==
  ASSUME NEW s, Good(s), NEW r, r.after \in Nat, unsettled(s.pending),
         r.status \in Settled,
         s.status # "cancel_requested"
           => s.stage \in {"execute_effects", "reconcile"},
         NEW b
  PROVE  LET n == settleEffect(s, r, b)
         IN /\ FlowLink(s, n) /\ LeaseKept(s, n) /\ Unstopped(s, n)
            /\ n.revision = r.after
<1>1. s \in State
  BY DEF Good
<1>2. ~Stuck(s) /\ \A g \in {"initialize", "verify", "finalize"} : ~At(s, g)
  BY DEF At, Stuck
<1>3. CASE s.status = "cancel_requested"
  BY <1>1, <1>2, <1>3
     DEF settleEffect, ClearVerification, FlowLink, LeaseKept, State,
         Unstopped, StopTargets
<1>4. CASE s.status # "cancel_requested"
  <2> DEFINE c == [ClearVerification(s) EXCEPT
                     !.pending.status = r.status, !.revision = r.after,
                     !.reconRevision = 0, !.approval = NoApproval]
             q == IF r.status = "succeeded" THEN c.remaining ELSE << >>
             m == [c EXCEPT !.status = "running", !.pending = NoEffect,
                            !.remaining = q]
             n == scheduleEffect(m, b)
  <2>1. settleEffect(s, r, b) = n
    BY <1>4 DEF settleEffect
  <2>2. c.remaining = s.remaining
    BY <1>1 DEF ClearVerification, State
  <2>3. q \in Seq([id : OpId, appr : BOOLEAN])
    <3>1. s.remaining \in Seq([id : OpId, appr : BOOLEAN])
      BY <1>1 DEF State
    <3> QED BY <2>2, <3>1
  <2> HIDE DEF q
  <2>4. m = [s EXCEPT !.verification = "unverified", !.verRevision = 0,
                      !.revision = r.after, !.reconRevision = 0,
                      !.approval = NoApproval, !.status = "running",
                      !.pending = NoEffect, !.remaining = q]
    BY <1>1 DEF ClearVerification, State
  <2>5. /\ m \in State /\ m.status = "running" /\ m.epoch = s.epoch
        /\ m.owner = s.owner /\ m.revision = r.after
    <3> DEFINE a == NoApproval
               e == NoEffect
               x == r.after
    <3>1. /\ a \in [id : OpId, rev : Nat, version : Nat, granted : BOOLEAN]
          /\ e \in [id : OpId, appr : BOOLEAN, rev : Nat, epoch : Nat,
                    status : EffectStatus \cup {"none"}]
          /\ x \in Nat
      BY NilTyped
    <3>2. m = [s EXCEPT !.verification = "unverified", !.verRevision = 0,
                        !.revision = x, !.reconRevision = 0,
                        !.approval = a, !.status = "running",
                        !.pending = e, !.remaining = q]
      BY <2>4
    <3> HIDE DEF a, e, x, m
    <3>3. m \in State /\ m.status = "running" /\ m.epoch = s.epoch
          /\ m.owner = s.owner /\ m.revision = x
      BY <1>1, <2>3, <3>1, <3>2 DEF State, Status, Verification
    <3> QED BY <3>3 DEF x
  <2> HIDE DEF m
  <2>6. /\ LeaseKept(m, n) /\ n.revision = m.revision
        /\ n.status \notin StopTargets
        /\ n.command = "stop_execution" => n.status = "cancel_requested"
        /\ n.command \notin {"initialize_workspace", "finalize"}
    BY <2>5, ScheduleFlow
  <2> HIDE DEF n
  <2> QED BY <1>2, <2>1, <2>5, <2>6 DEF FlowLink, LeaseKept, Unstopped
<1> QED BY <1>3, <1>4

\* An adoption takes the run back to its stage, or to where it cannot go on.
LEMMA AdoptFlow ==
  ASSUME NEW s, Good(s), NEW rev \in Nat, NEW b, CanAdopt(s, rev, b)
  PROVE  Kept(s, adopt(s, rev, b))
<1> DEFINE m == Resumed(s)
           n == adopt(s, rev, b)
<1>1. /\ s \in State /\ s.stage = "adopt_workspace"
      /\ s.status \in {"running", "needs_reconciliation"}
  BY DEF Good, CanAdopt
<1>2. /\ m.stage = s.resumeStage /\ m.epoch = s.epoch /\ m.owner = s.owner
      /\ m.revision = s.revision /\ m.rounds = s.rounds
      /\ m.status = s.status /\ m.pending = s.pending
      /\ m = [s EXCEPT !.stage = s.resumeStage, !.resumeStage = "none"]
  BY <1>1 DEF Resumed, State
<1>3. CASE unsettled(s.pending)
  <2>1. s.resumeStage \notin Quiet
    BY <1>1, <1>3 DEF Good, Coherent, unsettled, NoEffect
  <2>2. ~Stuck(s) /\ \A g \in {"initialize", "verify", "finalize"} : ~At(s, g)
    BY <1>1, <1>3, <2>1 DEF At, Stuck, Quiet, StageCommand
  <2>3. /\ n.command = "inspect_effect" /\ n.epoch = s.epoch
        /\ n.status = "needs_reconciliation" /\ n.owner = s.owner /\ n.revision = s.revision
    BY <1>1, <1>3 DEF adopt, Goto, State
  <2> HIDE DEF n
  <2> QED BY <2>2, <2>3 DEF Kept, Unstopped, StopTargets, FlowLink, LeaseKept,
                            n
<1>4. CASE ~unsettled(s.pending) /\ rev # s.revision
  <2>1. /\ n.command = "none" /\ n.epoch = s.epoch /\ n.owner = s.owner
        /\ n.revision = s.revision /\ n.stage = "reconcile"
        /\ n.status = "needs_reconciliation" /\ n.pending = s.pending
    BY <1>1, <1>4 DEF adopt, Goto, State
  <2> HIDE DEF n
  <2>2. Stuck(n)
    BY <1>4, <2>1 DEF Stuck, At
  <2> QED BY <2>1, <2>2 DEF Kept, Unstopped, StopTargets, FlowLink, LeaseKept,
                            n
<1>5. CASE ~unsettled(s.pending) /\ rev = s.revision
  <2>1. s.resumeStage # "reconcile" /\ ~Stuck(s)
    BY <1>1, <1>5 DEF CanAdopt, Stuck, At
  <2> HIDE DEF m
  <2>2. CASE ResumeTooLate(m, b)
    <3>1. n = stop(m, "budget_exhausted")
      BY <1>5, <2>2 DEF adopt, m
    <3>2. /\ n.status = "cancel_requested" /\ n.command = "stop_execution"
          /\ n.epoch = s.epoch /\ n.owner = s.owner
          /\ n.revision = s.revision
      BY <1>1, <1>2, <3>1 DEF stop, State
    <3> HIDE DEF n
    <3> QED BY <3>2 DEF Kept, Unstopped, StopTargets, FlowLink, LeaseKept, n
  <2>3. CASE ~ResumeTooLate(m, b)
    <3>1. n = commandForStage(m) /\ CanResumeStage(m)
      BY <1>5, <2>3 DEF adopt, CanAdopt, m
    <3>2. /\ n.stage = m.stage /\ n.epoch = s.epoch /\ n.owner = s.owner
          /\ n.revision = s.revision /\ n.rounds = s.rounds
          /\ n.status = s.status
      <4>1. CASE m.stage = "execute_effects"
        <5>1. n = dispatchEffect(m)
          BY <3>1, <4>1 DEF commandForStage
        <5> QED BY <1>1, <1>2, <4>1, <5>1 DEF dispatchEffect, State
      <4>2. CASE m.stage # "execute_effects"
        <5>1. n = [m EXCEPT !.command = StageCommand[m.stage]]
          BY <3>1, <4>2 DEF commandForStage
        <5> QED BY <1>1, <1>2, <5>1 DEF State
      <4> QED BY <4>1, <4>2
    <3>3. /\ n.command \notin {"stop_execution", "initialize_workspace"}
          /\ n.command = "finalize" => n.stage = "finalize"
      <4>1. CASE m.stage = "execute_effects"
        <5>1. n = dispatchEffect(m)
          BY <3>1, <4>1 DEF commandForStage
        <5>2. n.command = "execute_effect"
          BY <1>1, <1>2, <5>1 DEF dispatchEffect, State
        <5> QED BY <5>2
      <4>2. CASE m.stage # "execute_effects"
        <5>1. n = [m EXCEPT !.command = StageCommand[m.stage]]
          BY <3>1, <4>2 DEF commandForStage
        <5>2. m.stage \in DOMAIN StageCommand
          BY <3>1, <4>2 DEF CanResumeStage
        <5>3. n.command = StageCommand[m.stage] /\ n.stage = m.stage
          BY <1>1, <1>2, <5>1 DEF State
        <5>4. \A g \in DOMAIN StageCommand :
                /\ StageCommand[g] \notin {"stop_execution",
                                           "initialize_workspace"}
                /\ StageCommand[g] = "finalize" => g = "finalize"
          BY DEF StageCommand
        <5> QED BY <5>2, <5>3, <5>4
      <4> QED BY <4>1, <4>2
    <3> HIDE DEF n
    <3>4. \A g \in {"initialize", "verify", "finalize"} :
            At(s, g) => At(n, g) /\ n.rounds = s.rounds
      BY <1>1, <1>2, <3>2 DEF At
    <3> QED BY <2>1, <3>2, <3>3, <3>4 DEF Kept, Unstopped, StopTargets,
                                          FlowLink, LeaseKept, n
  <2> QED BY <2>2, <2>3
<1> QED BY <1>3, <1>4, <1>5

-----------------------------------------------------------------------------
(* Every step of the protocol is a step of RunControl *)

\* What the runner's ledger says, in the terms of the protocol.
LEMMA LedgerFacts ==
  ASSUME LP!LedgerInv
  PROVE  /\ ws \in [exists : BOOLEAN, epoch : Nat, revision : Nat,
                    active : OpId \cup {NoOp}, adopting : BOOLEAN,
                    stopped : BOOLEAN, released : BOOLEAN]
         /\ tree \in Seq(OpId) /\ DOMAIN ops \subseteq OpId
         /\ \A id \in DOMAIN ops :
              /\ ops[id] \in [epoch : Nat, rev : Nat,
                              status : Settled \cup {"open"}, after : Nat]
              /\ ops[id].status = "open" <=> ws.active = id
              /\ ops[id].status # "open" =>
                   ops[id].after = ops[id].rev + (IF L!Changed(id) THEN 1 ELSE 0)
         /\ ws.active # NoOp =>
              /\ ws.active \in DOMAIN ops /\ ws.exists
              /\ ops[ws.active].rev = ws.revision
         /\ \A i \in DOMAIN tree : tree[i] \in DOMAIN ops
         /\ ~ws.exists => /\ DOMAIN ops = {} /\ tree = << >>
                          /\ ws.active = NoOp /\ ~ws.stopped
         /\ ws.exists =>
              ws.revision = 1 + Len(tree) -
                (IF ws.active # NoOp /\ L!Changed(ws.active) THEN 1 ELSE 0)
BY DEF LP!LedgerInv, LP!LedgerTypeOK, LP!SingleWriter, LP!RevisionCountsWrites,
       LP!ReceiptTruth, LP!Grounded, LP!Operation, LP!Outcome, LP!NoWorkspace,
       LP!Changed, L!Changed, Settled

\* A run without a revision finds its workspace at the first one.
LEMMA FirstRevision ==
  ASSUME ProtocolInv, run.revision = 0, ws.exists
  PROVE  ws.revision = 1
<1>1. ASSUME NEW i \in DOMAIN tree PROVE FALSE
  <2>1. tree[i] \in DOMAIN ops /\ tree[i] \in OpId
    BY LedgerFacts DEF ProtocolInv
  <2>2. tree[i] \in DOMAIN effects /\ tree[i][2] >= 0
    BY <2>1 DEF ProtocolInv, LedgersMatch, WritesFit
  <2>3. tree[i][2] < 0 /\ tree[i][2] \in Int
    BY <2>1, <2>2 DEF ProtocolInv, RevisionFits, OpId
  <2> QED BY <2>2, <2>3
<1>2. tree \in Seq(OpId)
  BY LedgerFacts DEF ProtocolInv
<1>3. Len(tree) = 0
  <2>1. Len(tree) \in Nat /\ DOMAIN tree = 1..Len(tree)
    BY <1>2
  <2>2. 1 \notin DOMAIN tree
    BY <1>1
  <2> QED BY <2>1, <2>2
<1>4. ~L!Changed(ws.active)
  BY <1>1 DEF L!Changed
<1> QED BY <1>3, <1>4, LedgerFacts DEF ProtocolInv

\* The receipt a worker reports is one RunControl expects.
LEMMA ReceiptFits ==
  ASSUME ProtocolInv, SettledAtRunner(run.pending.id), NEW k,
         CanSettle(run, receipt(run.pending.id), k)
  PROVE  receipt(run.pending.id) \in ReceiptsFor(run.pending)
<1> DEFINE id == run.pending.id
           op == ops[id]
<1>1. id \in DOMAIN ops /\ op.status \in Settled
  BY DEF SettledAtRunner
<1>2. /\ op \in [epoch : Nat, rev : Nat, status : Settled \cup {"open"},
                 after : Nat]
      /\ op.status # "open"
  BY <1>1, LedgerFacts DEF ProtocolInv, Settled
<1>3. op.status \in Outcomes /\ op.after <= MaxRevision
  BY <1>1, <1>2 DEF ProtocolInv, WritesFit
<1>4. /\ op.epoch = run.pending.epoch /\ op.rev = run.pending.rev
      /\ op.after >= op.rev /\ unsettled(run.pending)
  BY DEF CanSettle, receipt
<1>5. run.pending.rev > 0
  BY <1>4 DEF ProtocolInv, RowInv, Good, validateState, ValidPending,
              unsettled,
              NoEffect
<1> HIDE DEF op
<1>6. op.after \in Revisions
  BY <1>2, <1>3, <1>4, <1>5, BoundAssumption DEF Revisions
<1> HIDE DEF id
<1>7. receipt(id) = [id |-> id, epoch |-> op.epoch, status |-> op.status,
                     before |-> op.rev, after |-> op.after]
  BY DEF receipt, op
<1>8. receipt(id) \in ReceiptsFor(run.pending)
  BY <1>3, <1>4, <1>6, <1>7 DEF ReceiptsFor, id
<1> QED BY <1>8 DEF id

\* The receipt of a system effect settles its row, or has settled it before.
LEMMA SystemReceiptFits ==
  ASSUME ProtocolInv, NEW w \in Workers, NEW id \in DOMAIN ops, id[2] < 0,
         ReportSystemSettled(w, id)
  PROVE  \/ \E r \in SystemReceipts : SettleSystemEffect(w, r)
         \/ UNCHANGED vars
<1> DEFINE r == receipt(id)
<1>1. /\ ops[id].status \in Settled /\ SettleSystemEffect(w, r)
      /\ r.id = id /\ r.status = ops[id].status
  BY DEF ReportSystemSettled, SettledAtRunner, receipt
<1>2. /\ id \in DOMAIN effects /\ ops[id].epoch = effects[id].epoch
      /\ ops[id].rev = effects[id].rev
  BY DEF ProtocolInv, LedgersMatch
<1>3. CASE effects[id].status \in Settled
  <2>1. effects' = [effects EXCEPT ![id].status = effects[id].status]
    BY <1>1, <1>3 DEF SettleSystemEffect, ProtocolInv, LedgersMatch
  <2>2. effects[id] \in EffectRow
    BY <1>2 DEF ProtocolInv, RunInv, RowsTyped
  <2>3. [effects[id] EXCEPT !.status = effects[id].status] = effects[id]
    BY <2>2 DEF EffectRow
  <2>4. effects' = effects
    <3>1. effects = [i \in DOMAIN effects |-> effects[i]]
      BY DEF ProtocolInv, RowsByID
    <3> QED BY <2>1, <2>3, <3>1
  <2> QED BY <1>1, <2>4 DEF SettleSystemEffect, vars
<1>4. CASE effects[id].status \notin Settled
  <2>1. /\ id \in OpId /\ ops[id].rev \in Nat /\ ops[id].status # "open"
        /\ ops[id].after = ops[id].rev + (IF L!Changed(id) THEN 1 ELSE 0)
    BY <1>1, LedgerFacts DEF ProtocolInv, Settled
  <2>2. ~L!Changed(id)
    BY <2>1 DEF L!Changed, ProtocolInv, WritesFit, OpId
  <2>3. ops[id].after = ops[id].rev
    BY <2>1, <2>2
  <2>4. ops[id].status \in Outcomes
    BY <2>1 DEF ProtocolInv, WritesFit
  <2>5. r = [id |-> id, epoch |-> effects[id].epoch, status |-> ops[id].status,
             before |-> effects[id].rev, after |-> effects[id].rev]
    BY <1>2, <2>3 DEF receipt
  <2>6. r \in SystemReceipts
    BY <1>2, <1>4, <2>4, <2>5 DEF SystemReceipts
  <2> QED BY <1>1, <2>6
<1> QED BY <1>3, <1>4

\* What a worker does with the runner's evidence, RunControl allows with any.
LEMMA ControlRefines ==
  ASSUME ProtocolInv, NEW w \in Workers, ControlStep(w)
  PROVE  [Next]_vars
<1>1. ASSUME ReportReady(w) PROVE WorkerStep(w)
  <2>1. ws.exists /\ WorkspaceReady(w, ws.revision)
    BY <1>1 DEF ReportReady
  <2>2. run.revision = 0
    BY <2>1 DEF WorkspaceReady, requireStage, ProtocolInv, RowInv, Good,
                Coherent
  <2>3. ws.revision = 1
    BY <2>1, <2>2, FirstRevision
  <2> QED BY <2>1, <2>3 DEF WorkerStep
<1>2. ASSUME ReportAdopted(w) PROVE WorkerStep(w)
  <2>1. PICK s \in stops : s.rpc = "adopt" /\ WorkspaceAdopted(w, s.revision)
    BY <1>2 DEF ReportAdopted, StopReceipt
  <2>2. s.revision \in 0..MaxRevision /\ s.revision > 0
    BY <2>1 DEF ProtocolInv, StopsFit, StopType
  <2>3. s.revision \in Revisions
    BY <2>2, BoundAssumption DEF Revisions
  <2> QED BY <2>1, <2>3 DEF WorkerStep
<1>3. ASSUME ReportCompleted(w) PROVE WorkerStep(w)
  <2>1. /\ SettledAtRunner(run.pending.id)
        /\ EffectCompleted(w, receipt(run.pending.id))
    BY <1>3 DEF ReportCompleted
  <2>2. receipt(run.pending.id) \in ReceiptsFor(run.pending)
    BY <2>1, ReceiptFits DEF EffectCompleted
  <2> QED BY <2>1, <2>2 DEF WorkerStep
<1>4. ASSUME ReportReconciled(w) PROVE WorkerStep(w)
  <2>1. /\ SettledAtRunner(run.pending.id)
        /\ Reconciled(w, receipt(run.pending.id))
    BY <1>4 DEF ReportReconciled
  <2>2. receipt(run.pending.id) \in ReceiptsFor(run.pending)
    BY <2>1, ReceiptFits DEF Reconciled, CanReconcile
  <2> QED BY <2>1, <2>2 DEF WorkerStep
<1>5. ASSUME ReportStopped(w) PROVE WorkerStep(w)
  <2>1. PICK s \in stops : CancellationConfirmed(w, s.revision)
    BY <1>5 DEF ReportStopped, StopReceipt
  <2>2. s.revision \in {0} \cup Revisions
    BY BoundAssumption DEF ProtocolInv, StopsFit, StopType, Revisions
  <2> QED BY <2>1, <2>2 DEF WorkerStep
<1>6. ASSUME NEW id \in DOMAIN ops, id[2] < 0, ReportSystemSettled(w, id)
      PROVE  WorkerStep(w) \/ UNCHANGED vars
  BY <1>6, SystemReceiptFits DEF WorkerStep
<1>7. WorkerStep(w) \/ UNCHANGED vars
  BY <1>1, <1>2, <1>3, <1>4, <1>5, <1>6 DEF ControlStep, WorkerStep
<1> QED BY <1>7 DEF Next

\* Every step of the protocol is a step of RunControl or none.
LEMMA ProtocolRun ==
  ASSUME ProtocolInv, [ProtocolNext]_protocolVars
  PROVE  [Next]_vars
<1>1. ASSUME NEW w \in Workers, SendAny(w) PROVE UNCHANGED vars
  BY <1>1 DEF SendAny, SendPrepare, SendAdopt, SendStart, SendStop,
              SendSystemStart, Send
<1>2. ASSUME NEW m \in sent, Serve(m) PROVE UNCHANGED vars
  BY <1>2 DEF Serve, ServePrepare, ServeStart, ServeFence, ServeReopen,
              ServeStopped, ServeAbsent
<1>3. CASE RunnerWrites \/ \E status \in Outcomes : RunnerSettles(status)
  BY <1>3 DEF RunnerWrites, RunnerSettles
<1>4. CASE ApiStep \/ LeaseExpires \/ DeadlinePasses
  BY <1>4 DEF Next
<1>5. CASE UNCHANGED protocolVars
  BY <1>5 DEF protocolVars, vars
<1> QED BY <1>1, <1>2, <1>3, <1>4, <1>5, ControlRefines DEF ProtocolNext

\* Every step of the protocol is a step of the runner's ledger or none.
LEMMA ProtocolLedger ==
  ASSUME ProtocolInv, [ProtocolNext]_protocolVars
  PROVE  [L!LedgerNext]_runner
<1>1. ASSUME NEW m \in sent, Serve(m) PROVE [L!LedgerNext]_runner
  <2>1. m.epoch \in 1..MaxEpoch /\ (m.rpc = "start" => m.id \in OpId)
    BY DEF ProtocolInv, RequestsFit, RequestType
  <2>2. CASE ServePrepare(m)
    BY <2>1, <2>2 DEF ServePrepare, L!LedgerNext
  <2>3. CASE ServeStart(m)
    <3>1. m.id \in OpId /\ L!Accept(m.id, m.epoch, m.rev)
      BY <2>1, <2>3 DEF ServeStart
    <3>2. m.rev = ws.revision
      BY <3>1 DEF L!Accept
    <3>3. L!Accept(m.id, m.epoch, ws.revision)
      BY <3>1, <3>2
    <3> QED BY <2>1, <3>1, <3>3 DEF L!LedgerNext
  <2>4. CASE ServeFence(m)
    <3>1. L!Fence(m.epoch, m.rpc = "stop") /\ (m.rpc = "stop") \in BOOLEAN
      BY <2>4 DEF ServeFence
    <3> QED BY <2>1, <3>1 DEF L!LedgerNext
  <2>5. CASE ServeReopen(m)
    BY <2>1, <2>5 DEF ServeReopen, L!LedgerNext
  <2>6. CASE ServeStopped(m) \/ ServeAbsent(m)
    BY <2>6 DEF ServeStopped, ServeAbsent
  <2> QED BY <1>1, <2>2, <2>3, <2>4, <2>5, <2>6 DEF Serve
<1>2. ws.active # NoOp => ws.active \in OpId
  BY LedgerFacts DEF ProtocolInv
<1>3. CASE RunnerWrites
  BY <1>2, <1>3 DEF RunnerWrites, L!LedgerNext
<1>4. ASSUME NEW status \in Outcomes, RunnerSettles(status)
      PROVE  [L!LedgerNext]_runner
  <2>1. status \in L!Outcome
    BY OutcomeAssumption DEF L!Outcome, Settled
  <2> QED BY <1>2, <1>4, <2>1 DEF RunnerSettles, L!LedgerNext
<1>5. ASSUME NEW w \in Workers, SendAny(w) PROVE UNCHANGED runner
  BY <1>5 DEF SendAny, SendPrepare, SendAdopt, SendStart, SendStop,
              SendSystemStart, Send
<1>6. CASE UNCHANGED protocolVars
  BY <1>6 DEF protocolVars, runner
<1> QED BY <1>1, <1>3, <1>4, <1>5, <1>6 DEF ProtocolNext


-----------------------------------------------------------------------------
(* What the commits of the protocol do to the row *)

\* The row committed is the state the reducer returned, with the next version.
LEMMA BumpFlow ==
  ASSUME NEW n \in State, run' = Bump(n)
  PROVE  /\ FlowLink(run, n) => FlowLink(run, run')
         /\ LeaseKept(run, n) => LeaseKept(run, run')
         /\ Unstopped(run, n) => Unstopped(run, run')
         /\ run'.revision = n.revision /\ run'.status = n.status
         /\ run'.pending = n.pending /\ run'.owner = n.owner
         /\ run'.epoch = n.epoch
<1>1. /\ run'.status = n.status /\ run'.stage = n.stage
      /\ run'.resumeStage = n.resumeStage /\ run'.owner = n.owner
      /\ run'.epoch = n.epoch /\ run'.revision = n.revision
      /\ run'.pending = n.pending /\ run'.rounds = n.rounds
      /\ run'.command = n.command
  BY BumpFields
<1>2. (\A g : At(n, g) <=> At(run', g)) /\ (Stuck(n) <=> Stuck(run'))
  BY <1>1 DEF At, Stuck
<1>3. FlowLink(run, n) => FlowLink(run, run')
  BY <1>1, <1>2 DEF FlowLink
<1> QED BY <1>1, <1>3 DEF LeaseKept, Unstopped

\* The same for a commit that keeps the revision.
LEMMA BumpKept ==
  ASSUME NEW n, Good(n), Kept(run, n), run' = Bump(n)
  PROVE  Kept(run, run')
BY BumpFlow DEF Good, Kept

\* A worker that reports about a stage found its system effects closed.
LEMMA SystemClosed ==
  ASSUME RunInv, NEW w \in Workers, view[w] # Idle,
         view[w].version = run.version, NEW g,
         SystemDone(w, {o \in SystemOps : StageOf(o) = g})
  PROVE  Closed(run, g)
<1>1. view[w].rounds = run.rounds
  BY DEF RunInv, ViewsOld
<1>2. \A o : SystemStatus(view[w], o) = SystemStatus(run, o)
  BY <1>1 DEF SystemStatus, SystemId
<1> QED BY <1>2 DEF Closed, SystemDone

\* What the worker of a run reports about its stage keeps lease and revision.
LEMMA StageKept ==
  ASSUME RowInv, RunInv, NEW w \in Workers,
         \/ \E rev \in Revisions : WorkspaceAdopted(w, rev)
         \/ \E stuck \in BOOLEAN : ContextBuilt(w, stuck)
         \/ \E cost \in Costs, finish \in BOOLEAN :
              ModelCompleted(w, cost, finish)
         \/ \E flags \in Batches : ToolsValidated(w, flags)
         \/ ResultsIngested(w)
         \/ \E e \in Evidence : VerificationCompleted(w, e)
         \/ Finalized(w)
  PROVE  Kept(run, run')
<1>1. Good(run) /\ run \in State /\ view \in [Workers -> State \cup {Idle}]
  BY DEF RowInv, Good
<1>2. Revisions \subseteq Nat /\ Costs \subseteq Nat
  BY BoundAssumption, OutcomeAssumption DEF Revisions
<1>3. ASSUME NEW kind, NEW n, NEW batch,
             Advance(w, kind, n, batch, NoReceipt)
      PROVE  run' = Bump(n) /\ view[w].version = run.version
  BY <1>3 DEF Advance, Accepts, persistTransition
<1>4. ASSUME NEW rev \in Revisions, WorkspaceAdopted(w, rev)
      PROVE  Kept(run, run')
  <2> DEFINE n == adopt(run, rev, late)
  <2>1. Good(n) /\ Kept(run, n)
    BY <1>1, <1>2, <1>4, AdoptGood, AdoptFlow DEF WorkspaceAdopted
  <2>2. run' = Bump(n)
    BY <1>3, <1>4 DEF WorkspaceAdopted
  <2> HIDE DEF n
  <2> QED BY <2>1, <2>2, BumpKept
<1>5. ASSUME NEW stuck \in BOOLEAN, ContextBuilt(w, stuck)
      PROVE  Kept(run, run')
  <2> DEFINE n == contextBuilt(run, late, stuck)
  <2>1. Good(n) /\ Kept(run, n)
    BY <1>1, <1>5, ContextGood, ContextFlow DEF ContextBuilt
  <2>2. run' = Bump(n)
    BY <1>3, <1>5 DEF ContextBuilt
  <2> HIDE DEF n
  <2> QED BY <2>1, <2>2, BumpKept
<1>6. ASSUME NEW cost \in Costs, NEW finish \in BOOLEAN,
             ModelCompleted(w, cost, finish)
      PROVE  Kept(run, run')
  <2> DEFINE n == modelCompleted(run, cost, finish, late)
  <2>1. Good(n) /\ Kept(run, n)
    BY <1>1, <1>2, <1>6, ModelGood, ModelFlow DEF ModelCompleted
  <2>2. run' = Bump(n)
    BY <1>3, <1>6 DEF ModelCompleted
  <2> HIDE DEF n
  <2> QED BY <2>1, <2>2, BumpKept
<1>7. ASSUME NEW flags \in Batches, ToolsValidated(w, flags)
      PROVE  Kept(run, run')
  <2> DEFINE batch == BatchOf(view[w], flags)
             n == toolsValidated(run, batch, late)
  <2>1. view[w] \in State
    BY <1>1, <1>7 DEF ToolsValidated, Driving
  <2>2. batch \in Seq([id : OpId, appr : BOOLEAN])
    BY <2>1, BatchTyped
  <2>3. CanValidate(run, batch) /\ run' = Bump(n)
    BY <1>3, <1>7 DEF ToolsValidated
  <2> HIDE DEF batch
  <2>4. Good(n) /\ Kept(run, n)
    BY <1>1, <2>2, <2>3, ToolsGood, ToolsFlow
  <2> HIDE DEF n
  <2> QED BY <2>3, <2>4, BumpKept
<1>8. CASE ResultsIngested(w)
  <2> DEFINE n == resultsIngested(run)
  <2>1. Good(n) /\ Kept(run, n)
    BY <1>1, <1>8, IngestGood, IngestFlow DEF ResultsIngested
  <2>2. run' = Bump(n)
    BY <1>3, <1>8 DEF ResultsIngested
  <2> HIDE DEF n
  <2> QED BY <2>1, <2>2, BumpKept
<1>9. ASSUME NEW e \in Evidence, VerificationCompleted(w, e)
      PROVE  Kept(run, run')
  <2> DEFINE v == [rev |-> view[w].revision, regression |-> e.regression,
                   baseline |-> e.baseline, target |-> e.target]
             n == verify(run, v)
  <2>1. /\ CanVerify(run, v) /\ v.rev = run.revision /\ run' = Bump(n)
        /\ view[w] # Idle /\ view[w].version = run.version
        /\ SystemDone(w, {-2, -3}) /\ requireStage(run, "verify")
    BY <1>3, <1>9 DEF VerificationCompleted, CanVerify, Driving
  <2>2. {o \in SystemOps : StageOf(o) = "verify"} \subseteq {-2, -3}
    BY OutcomeAssumption DEF StageOf
  <2>3. Closed(run, "verify")
    <3>1. SystemDone(w, {o \in SystemOps : StageOf(o) = "verify"})
      BY <2>1, <2>2 DEF SystemDone
    <3> QED BY <2>1, <3>1, SystemClosed
  <2>4. v.rev \in Nat
    BY <1>1, <2>1 DEF State
  <2> HIDE DEF v
  <2>5. Good(n) /\ Kept(run, n)
    BY <1>1, <2>1, <2>3, <2>4, VerifyGood, VerifyFlow
  <2> HIDE DEF n
  <2> QED BY <2>1, <2>5, BumpKept
<1>10. CASE Finalized(w)
  <2> DEFINE n == finalized(run)
  <2>1. /\ CanFinalize(run) /\ run' = Bump(n)
        /\ view[w] # Idle /\ view[w].version = run.version
        /\ SystemDone(w, {-4})
    BY <1>3, <1>10 DEF Finalized, Driving
  <2>2. {o \in SystemOps : StageOf(o) = "finalize"} \subseteq {-4}
    BY OutcomeAssumption DEF StageOf
  <2>3. Closed(run, "finalize")
    <3>1. SystemDone(w, {o \in SystemOps : StageOf(o) = "finalize"})
      BY <2>1, <2>2 DEF SystemDone
    <3> QED BY <2>1, <3>1, SystemClosed
  <2>4. Good(n) /\ Kept(run, n)
    BY <1>1, <2>1, <2>3, FinalizeGood, FinalizeFlow
  <2> HIDE DEF n
  <2> QED BY <2>1, <2>4, BumpKept
<1> QED BY <1>4, <1>5, <1>6, <1>7, <1>8, <1>9, <1>10

\* So do a failure, an exhausted budget, an uncertain effect, a rejected
\* admission and what the API asks for.
LEMMA OtherKept ==
  ASSUME RowInv, RunInv,
         \/ Cancel \/ Resume
         \/ \E w \in Workers : \/ BudgetReached(w) \/ Failed(w)
                               \/ EffectUncertain(w) \/ RequeueCapacity(w)
  PROVE  Kept(run, run')
<1>1. Good(run) /\ {"cancelled", "failed", "budget_exhausted"} = StopTargets
  BY DEF RowInv, StopTargets
<1>2. ASSUME NEW t \in StopTargets, run' = Bump(stop(run, t)),
             run.status \notin Terminal
      PROVE  Kept(run, run')
  BY <1>1, <1>2, StopGood, StopFlow, BumpKept
<1>3. CASE Cancel
  BY <1>1, <1>2, <1>3 DEF Cancel, Control, Accepts, persistTransition
<1>4. CASE Resume
  <2> DEFINE n == resumeRequested(run)
  <2>1. Good(n) /\ Kept(run, n)
    BY <1>1, <1>4, ResumeGood, ResumeFlow DEF Resume
  <2>2. run' = Bump(n)
    BY <1>4 DEF Resume, Control, persistTransition
  <2> HIDE DEF n
  <2> QED BY <2>1, <2>2, BumpKept
<1>5. ASSUME NEW w \in Workers, BudgetReached(w) \/ Failed(w)
      PROVE  Kept(run, run')
  BY <1>1, <1>2, <1>5
     DEF BudgetReached, Failed, Advance, Accepts, persistTransition
<1>6. ASSUME NEW w \in Workers, EffectUncertain(w) PROVE Kept(run, run')
  <2> DEFINE n == effectUncertain(run)
  <2>1. Good(n) /\ Kept(run, n)
    BY <1>1, <1>6, UncertainGood, UncertainFlow DEF EffectUncertain
  <2>2. run' = Bump(n)
    BY <1>6 DEF EffectUncertain, Advance, persistTransition
  <2> HIDE DEF n
  <2> QED BY <2>1, <2>2, BumpKept
<1>7. ASSUME NEW w \in Workers, RequeueCapacity(w) PROVE Kept(run, run')
  <2> DEFINE n == capacityRejected(run)
  <2>1. Good(n) /\ Kept(run, n)
    BY <1>1, <1>7, RejectGood, RejectFlow DEF RequeueCapacity
  <2>2. run' = Bump(n)
    BY <1>7 DEF RequeueCapacity, persistTransition
  <2> HIDE DEF n
  <2> QED BY <2>1, <2>2, BumpKept
<1> QED BY <1>3, <1>4, <1>5, <1>6, <1>7


-----------------------------------------------------------------------------
(* What a step of the control plane has to show *)

\* The lease is kept, given up or claimed under the next epoch.
LeaseMoves ==
  \/ LeaseKept(run, run')
  \/ run'.epoch = run.epoch + 1 /\ run'.epoch <= MaxEpoch

\* A view is the one it was, given up, or the row.
ViewsMove == \A w \in Workers : view'[w] \in {view[w], Idle, run'}

\* A row is settled only with what the runner recorded.
SettledFits ==
  \A id \in DOMAIN effects' : effects'[id].status \in Settled =>
    id \in DOMAIN ops /\ ops[id].status = effects'[id].status

\* The system rows are the ones there were.
SystemKept ==
  \A id \in DOMAIN effects' : id[2] < 0 =>
    id \in DOMAIN effects /\ effects'[id] = effects[id]

\* A dispatched row stays one, with its epoch and revision.
LEMMA DispatchedStays ==
  ASSUME RowInv, RunInv, [Next]_vars, NEW id, NEW e, NEW rev,
         Dispatched(id, e, rev)
  PROVE  Dispatched(id, e, rev)'
<1>1. /\ id \in DOMAIN effects /\ effects[id].status # "planned"
      /\ effects[id].epoch = e /\ effects[id].rev = rev
  BY DEF Dispatched
<1>2. effects[id].status \in Settled \cup Unsettled
  BY <1>1 DEF RunInv, RowsTyped, EffectRow, EffectStatus, Unsettled
<1>3. RowOnce(id)
  BY <1>1, OnceNext
<1>4. /\ id \in DOMAIN effects' /\ effects'[id].status # "planned"
      /\ effects'[id].epoch = e /\ effects'[id].rev = rev
  BY <1>1, <1>2, <1>3 DEF RowOnce
<1> QED BY <1>4 DEF Dispatched

\* A run that stops goes on to stop.
LEMMA StopStays ==
  ASSUME RowInv, RunInv, [Next]_vars, run.status \in Stopping
  PROVE  run'.status \in Stopping
<1>1. StopsOnly
  BY StopNext DEF Stopping, Terminal
<1>2. run.status = "cancel_requested" => run.stopTarget \in StopTargets
  BY DEF RowInv, Good, validateState, ValidStopTarget
<1> QED BY <1>1, <1>2 DEF StopsOnly, Stopping, StopTargets, Terminal

\* The invariant after a step that leaves the runner and the requests alone.
LEMMA ControlInv ==
  ASSUME ProtocolInv, [Next]_vars, UNCHANGED <<runner, net>>,
         FlowLink(run, run'), LeaseMoves, ViewsMove, SettledFits,
         RowsByID', SystemOpen', RevisionFits', StoppedFits'
  PROVE  ProtocolInv'
<1>1. RowInv /\ RunInv /\ RowInv' /\ RunInv'
  BY RowNext, RunNext DEF ProtocolInv
<1>2. /\ UNCHANGED <<ws, ops, tree, sent, stops>> /\ LP!LedgerInv'
  <2>1. UNCHANGED <<ws, ops, tree, sent, stops>>
    BY DEF runner, net
  <2>2. [L!LedgerNext]_runner
    BY DEF runner
  <2> QED BY <2>1, <2>2, LedgerKept DEF ProtocolInv
<1>3. /\ run \in State /\ run' \in State
      /\ run.epoch \in Nat /\ run'.epoch \in Nat /\ run'.revision \in Nat
      /\ view \in [Workers -> State \cup {Idle}]
  BY <1>1 DEF RowInv, Good, State
<1>4. run'.epoch >= run.epoch
  BY <1>3 DEF LeaseMoves, LeaseKept
<1>5. LedgersMatch'
  <2>1. ASSUME NEW id \in DOMAIN ops
        PROVE  /\ id \in DOMAIN effects' /\ effects'[id].status # "planned"
               /\ ops[id].epoch = effects'[id].epoch
               /\ ops[id].rev = effects'[id].rev
    <3> DEFINE e == ops[id].epoch
               rev == ops[id].rev
    <3>1. Dispatched(id, e, rev)
      BY DEF ProtocolInv, LedgersMatch, Dispatched
    <3>2. PICK x, y : x = e /\ y = rev
      OBVIOUS
    <3>3. Dispatched(id, x, y)'
      BY <1>1, <3>1, <3>2, DispatchedStays
    <3> QED BY <3>2, <3>3 DEF Dispatched
  <2> QED BY <1>2, <2>1 DEF LedgersMatch, SettledFits
<1>6. RequestsFit'
  <2>1. ASSUME NEW m \in sent
        PROVE  /\ m \in RequestType /\ m.epoch <= run'.epoch
               /\ m.rpc = "start" =>
                    ws.exists /\ m.id \in OpId
                      /\ Dispatched(m.id, m.epoch, m.rev)'
               /\ m.rpc = "stop" => run'.status \in Stopping
    <3>1. /\ m \in RequestType /\ m.epoch <= run.epoch /\ m.epoch \in Nat
          /\ m.rpc = "start" =>
               ws.exists /\ m.id \in OpId /\ Dispatched(m.id, m.epoch, m.rev)
          /\ m.rpc = "stop" => run.status \in Stopping
      BY DEF ProtocolInv, RequestsFit, RequestType
    <3>2. m.rpc = "start" => Dispatched(m.id, m.epoch, m.rev)'
      BY <1>1, <3>1, DispatchedStays
    <3> QED BY <1>1, <1>3, <1>4, <3>1, <3>2, StopStays
  <2> QED BY <1>2, <2>1 DEF RequestsFit
<1>7. OwnersStop'
  <2> SUFFICES ASSUME NEW m \in sent, m.rpc = "stop", NEW w \in Workers,
                      view'[w] # Idle, view'[w].epoch = run'.epoch,
                      run'.owner = w
               PROVE  view'[w].command \in {"stop_execution",
                                            "publish_terminal"}
    BY <1>2 DEF OwnersStop
  <2>1. run'.status \in Stopping /\ run.status \in Stopping
    BY <1>1, StopStays DEF ProtocolInv, RequestsFit
  <2>2. CASE view'[w] = run'
    BY <1>1, <2>1, <2>2 DEF RunInv, CommandFits, Stopping, Terminal
  <2>3. CASE view'[w] = view[w]
    <3>1. view[w].epoch \in Nat /\ view[w].epoch <= run.epoch
      BY <1>3, <2>3 DEF ProtocolInv, ViewsFit, State
    <3>2. view[w].epoch = run.epoch /\ run.owner = w
      BY <1>3, <1>4, <2>3, <3>1, OwnerAssumption DEF LeaseMoves, LeaseKept
    <3> QED BY <2>3, <3>2 DEF ProtocolInv, OwnersStop
  <2> QED BY <2>2, <2>3 DEF ViewsMove
<1>8. RowFits'
  <2>1. run'.epoch <= MaxEpoch
    BY DEF LeaseMoves, LeaseKept, ProtocolInv, RowFits
  <2> QED BY <2>1 DEF RowFits, FlowLink, Stopping
<1>9. ViewsFit'
  <2> SUFFICES ASSUME NEW w \in Workers, view'[w] # Idle
               PROVE  /\ Good(view'[w]) /\ view'[w].epoch <= run'.epoch
                      /\ view'[w].pending.epoch > 0
                           => /\ ws.exists
                              /\ Dispatched(view[w].pending.id,
                                            view[w].pending.epoch,
                                            view[w].pending.rev)'
                      /\ view'[w].command \in {"verify", "finalize"}
                           => ws.exists
                      /\ view'[w].command = "stop_execution"
                           => run'.status \in Stopping
    BY <1>2 DEF ViewsFit
  <2>1. CASE view'[w] = run'
    <3>1. Good(run')
      BY <1>1 DEF RowInv
    <3>2. run'.revision > 0 => ws.exists
      BY <1>2 DEF RevisionFits
    <3>3. run'.pending.epoch > 0 =>
            /\ ws.exists
            /\ run'.pending.id \in DOMAIN effects'
            /\ effects'[run'.pending.id].status # "planned"
            /\ effects'[run'.pending.id].epoch = run'.pending.epoch
            /\ effects'[run'.pending.id].rev = run'.pending.rev
      <4> SUFFICES ASSUME run'.pending.epoch > 0
                   PROVE  /\ ws.exists
                          /\ run'.pending.id \in DOMAIN effects'
                          /\ effects'[run'.pending.id].status # "planned"
                          /\ effects'[run'.pending.id].epoch
                               = run'.pending.epoch
                          /\ effects'[run'.pending.id].rev = run'.pending.rev
        OBVIOUS
      <4>1. run'.pending # NoEffect
        BY DEF NoEffect
      <4>2. /\ run'.pending.id \in DOMAIN effects'
            /\ effects'[run'.pending.id].status = run'.pending.status
            /\ effects'[run'.pending.id].epoch = run'.pending.epoch
            /\ effects'[run'.pending.id].rev = run'.pending.rev
            /\ run'.pending.id[2] >= 0
        BY <1>1, <4>1 DEF RunInv, LedgerAgrees, ToolEffects
      <4>3. run'.pending.status # "planned"
        BY <3>1 DEF Good, validateState, ValidPending
      <4>4. run'.pending.id \in OpId
        BY <1>3 DEF State
      <4>5. run'.revision # 0
        BY <4>2, <4>4 DEF RevisionFits, OpId
      <4> QED BY <1>3, <3>2, <4>2, <4>3, <4>5
    <3>4. run'.command \in {"verify", "finalize"} => run'.revision > 0
      BY <1>1, <1>3, <1>8, <3>1
         DEF RunInv, CommandFits, RowFits, Good, Coherent
    <3> QED BY <1>3, <1>8, <2>1, <3>1, <3>2, <3>3, <3>4
            DEF RowFits, Dispatched, Stopping
  <2>2. CASE view'[w] = view[w]
    <3>1. /\ Good(view[w]) /\ view[w].epoch <= run.epoch
          /\ view[w].epoch \in Nat
          /\ view[w].pending.epoch > 0
               => /\ ws.exists
                  /\ Dispatched(view[w].pending.id, view[w].pending.epoch,
                                view[w].pending.rev)
          /\ view[w].command \in {"verify", "finalize"} => ws.exists
          /\ view[w].command = "stop_execution" => run.status \in Stopping
      BY <1>3, <2>2 DEF ProtocolInv, ViewsFit, State
    <3>2. PICK p : p = view[w].pending
      OBVIOUS
    <3>3. p.epoch > 0 => Dispatched(p.id, p.epoch, p.rev)'
      BY <1>1, <3>1, <3>2, DispatchedStays
    <3>4. view'[w].epoch <= run'.epoch
      BY <1>3, <1>4, <2>2, <3>1
    <3>5. view'[w].command = "stop_execution" => run'.status \in Stopping
      BY <1>1, <2>2, <3>1, StopStays
    <3>6. view'[w].pending = p
      BY <2>2, <3>2
    <3> QED BY <2>2, <3>1, <3>2, <3>3, <3>4, <3>5, <3>6 DEF Dispatched
  <2> QED BY <2>1, <2>2 DEF ViewsMove
<1>10. WritesFit' /\ StopsFit'
  BY <1>2 DEF ProtocolInv, WritesFit, StopsFit
<1> QED BY <1>1, <1>2, <1>5, <1>6, <1>7, <1>8, <1>9, <1>10 DEF ProtocolInv


-----------------------------------------------------------------------------
(* The rows and the revision after a commit *)

\* A receipt the runner gave for the operation it names, or none.
ReceiptGiven(r) ==
  r = NoReceipt \/ (r.id \in DOMAIN ops /\ ops[r.id].status = r.status)

\* What a commit does to the rows the runner knows of.
LEMMA CommitRows ==
  ASSUME ProtocolInv, NEW next, NEW batch, NEW r, Good(next),
         EffectLink(run, next, batch, r), FreshBatch(batch),
         ReceiptGiven(r), effects' = EffectsAfter(next, batch, r)
  PROVE  /\ RowsByID' /\ SystemKept /\ SettledFits
         /\ run.revision = 0 => DOMAIN effects' = DOMAIN effects
<1>1. RowInv /\ RunInv /\ LedgersMatch
  BY DEF ProtocolInv
<1>2. RowsFollow(next, batch, r)
  BY <1>1, RowsAfter
<1>3. RowsByID'
  BY DEF RowsByID, EffectsAfter
<1>4. SystemKept
  BY <1>1, SystemRowsKept DEF SystemKept
<1>5. run.revision = 0 => DOMAIN effects' = DOMAIN effects
  BY <1>2 DEF RowsFollow, FreshBatch
<1>6. r.status \in Settled => r # NoReceipt
  BY DEF NoReceipt, Settled
<1>7. ASSUME NEW id \in DOMAIN effects', effects'[id].status \in Settled
      PROVE  id \in DOMAIN ops /\ ops[id].status = effects'[id].status
  <2>1. CASE next.pending # NoEffect /\ id = next.pending.id
    <3>1. next.pending.status = effects'[id].status
      BY <1>2, <2>1 DEF RowsFollow, PendingRow
    <3>2. run \in State
      BY <1>1 DEF RowInv, Good
    <3>3. CASE r = NoReceipt /\ next.pending = run.pending
      BY <1>1, <1>7, <2>1, <3>1, <3>3
         DEF RunInv, LedgerAgrees, LedgersMatch
    <3>4. CASE /\ ReceiptOf(run, r)
               /\ next.pending = [run.pending EXCEPT !.status = r.status]
      <4>1. id = r.id /\ r.status = effects'[id].status
        BY <2>1, <3>1, <3>2, <3>4 DEF State, ReceiptOf
      <4> QED BY <1>6, <1>7, <4>1 DEF ReceiptGiven
    <3>5. ASSUME \/ next.pending = [run.pending EXCEPT !.status = "unknown"]
                 \/ next.pending = [run.pending EXCEPT !.status = "in_flight",
                                                       !.epoch = run.epoch]
          PROVE  FALSE
      BY <1>7, <3>1, <3>2, <3>5 DEF State, Settled
    <3>6. ASSUME NextPending(run, next, batch, r) PROVE FALSE
      BY <1>7, <2>1, <3>1, <3>6 DEF NextPending, Settled
    <3> QED BY <3>3, <3>4, <3>5, <3>6 DEF EffectLink, SamePending
  <2>2. CASE next.pending = NoEffect \/ id # next.pending.id
    <3>1. CASE id = r.id
      <4>1. /\ r.status \in Settled /\ id \in DOMAIN effects
            /\ effects'[id] = [effects[id] EXCEPT !.status = r.status]
        BY <1>2, <2>2, <3>1 DEF RowsFollow, ReceiptOf
      <4>2. effects[id] \in EffectRow
        BY <1>1, <4>1 DEF RunInv, RowsTyped
      <4>3. effects'[id].status = r.status
        BY <4>1, <4>2 DEF EffectRow
      <4> QED BY <1>6, <3>1, <4>1, <4>3 DEF ReceiptGiven
    <3>2. CASE id # r.id
      <4>1. effects'[id] = IF id \in DOMAIN effects THEN effects[id]
                           ELSE PlannedRow(next)
        BY <1>2, <2>2, <3>2 DEF RowsFollow
      <4>2. PlannedRow(next).status \notin Settled
        BY DEF PlannedRow, Settled
      <4> QED BY <1>1, <1>7, <4>1, <4>2 DEF LedgersMatch
    <3> QED BY <3>1, <3>2
  <2> QED BY <2>1, <2>2
<1> QED BY <1>3, <1>4, <1>5, <1>7 DEF SettledFits

\* The runner has a receipt for the pending effect that the row waits for.
Awaited(s) == unsettled(s.pending) /\ SettledAtRunner(s.pending.id)

\* A commit without a receipt waits for a receipt if the row did before; one
\* with a receipt waits for none: the runner has not seen a planned effect.
LEMMA AwaitedAfter ==
  ASSUME ProtocolInv, NEW next, NEW batch, NEW r, Good(next),
         EffectLink(run, next, batch, r), FreshBatch(batch)
  PROVE  /\ r = NoReceipt =>
              /\ Awaited(next) <=> Awaited(run)
              /\ Awaited(run) => next.pending.id = run.pending.id
         /\ ReceiptOf(run, r) => ~Awaited(next)
<1>1. run \in State /\ RunInv /\ LedgersMatch
  BY DEF ProtocolInv, RowInv, Good
<1>2. ~ReceiptOf(run, NoReceipt) /\ ~unsettled(NoEffect)
  BY DEF ReceiptOf, NoReceipt, Settled, unsettled, NoEffect
<1>3. ASSUME NEW id, \/ id \in DOMAIN effects /\ effects[id].status = "planned"
                     \/ id \notin DOMAIN effects
      PROVE  ~SettledAtRunner(id)
  BY <1>1, <1>3 DEF SettledAtRunner, LedgersMatch
<1>4. CASE r = NoReceipt /\ next.pending = run.pending
  BY <1>2, <1>4 DEF Awaited
<1>5. CASE /\ r = NoReceipt /\ unsettled(run.pending)
           /\ next.pending = [run.pending EXCEPT !.status = "unknown"]
  <2>1. next.pending.id = run.pending.id /\ unsettled(next.pending)
    BY <1>1, <1>5 DEF State, unsettled
  <2> QED BY <1>2, <1>5, <2>1 DEF Awaited
<1>6. CASE /\ r = NoReceipt /\ run.pending.status = "planned"
           /\ next.pending = [run.pending EXCEPT !.status = "in_flight",
                                                 !.epoch = run.epoch]
  <2>1. next.pending.id = run.pending.id /\ ~unsettled(run.pending)
    BY <1>1, <1>6 DEF State, unsettled
  <2>2. ~SettledAtRunner(run.pending.id)
    BY <1>1, <1>3, <1>6 DEF RunInv, LedgerAgrees, NoEffect
  <2> QED BY <1>2, <1>6, <2>1, <2>2 DEF Awaited
<1>7. CASE /\ ReceiptOf(run, r)
           /\ next.pending = [run.pending EXCEPT !.status = r.status]
  <2>1. ~unsettled(next.pending)
    BY <1>1, <1>7 DEF State, unsettled, ReceiptOf, Settled
  <2> QED BY <1>2, <1>7, <2>1 DEF Awaited
<1>8. CASE NextPending(run, next, batch, r)
  <2>1. ~Awaited(next)
    <3>1. CASE next.pending = NoEffect
      BY <1>2, <3>1 DEF Awaited
    <3>2. CASE next.pending.id \in BatchIds(run.remaining)
      BY <1>1, <1>3, <3>2 DEF Awaited, BatchIds, RunInv, LedgerAgrees
    <3>3. CASE next.pending.id \in BatchIds(batch)
      BY <1>3, <3>3 DEF Awaited, FreshBatch
    <3> QED BY <1>8, <3>1, <3>2, <3>3 DEF NextPending
  <2> QED BY <1>2, <1>8, <2>1 DEF NextPending, Awaited
<1> QED BY <1>4, <1>5, <1>6, <1>7, <1>8 DEF EffectLink, SamePending

\* The revision of a commit that keeps it is the runner's if it was before.
LEMMA RevisionKept ==
  ASSUME ProtocolInv, UNCHANGED <<runner, net>>,
         run'.revision = run.revision,
         run.revision = 0 => \A id \in DOMAIN effects' : id[2] < 0,
         Awaited(run') <=> Awaited(run),
         Awaited(run) => run'.pending.id = run.pending.id
  PROVE  RevisionFits'
<1>1. UNCHANGED <<ws, ops>>
  BY DEF runner
<1>2. unsettled(run.pending)' /\ SettledAtRunner(run.pending.id)'
        <=> Awaited(run')
  BY <1>1 DEF Awaited, SettledAtRunner
<1> QED BY <1>1, <1>2 DEF ProtocolInv, RevisionFits, Awaited

\* What the system effects of the run's stage say after a commit.
LEMMA SystemOpenAfter ==
  ASSUME ProtocolInv, [Next]_vars, FlowLink(run, run'), SystemKept
  PROVE  SystemOpen'
<1> SUFFICES ASSUME NEW id \in DOMAIN effects', id[2] < 0
             PROVE  /\ id[2] \in SystemOps /\ effects'[id].status # "planned"
                    /\ \/ effects'[id].status \in Settled
                       \/ run'.status \in Stopping
                       \/ Stuck(run')
                       \/ At(run', StageOf(id[2])) /\ id[1] = run'.rounds
  BY DEF SystemOpen, Stuck, At, unsettled
<1>1. id \in DOMAIN effects /\ effects'[id] = effects[id] /\ id \in OpId
  BY DEF SystemKept, ProtocolInv, RunInv, RowsTyped
<1>2. /\ id[2] \in SystemOps /\ effects[id].status # "planned"
      /\ \/ effects[id].status \in Settled
         \/ run.status \in Stopping
         \/ Stuck(run)
         \/ At(run, StageOf(id[2])) /\ id[1] = run.rounds
  BY <1>1 DEF ProtocolInv, SystemOpen
<1>3. CASE run.status \in Stopping
  BY <1>1, <1>2, <1>3, StopStays DEF ProtocolInv
<1>4. CASE Stuck(run)
  BY <1>1, <1>2, <1>4 DEF FlowLink, Stopping
<1>5. CASE At(run, StageOf(id[2])) /\ id[1] = run.rounds
  <2>1. StageOf(id[2]) \in {"initialize", "verify", "finalize"}
    BY DEF StageOf
  <2>2. Closed(run, StageOf(id[2])) => effects[id].status \in Settled
    <3>1. SystemId(run, id[2]) = id
      BY <1>1, <1>5 DEF SystemId, OpId
    <3> QED BY <1>1, <1>2, <3>1 DEF Closed, SystemStatus
  <2> QED BY <1>1, <1>2, <1>5, <2>1, <2>2 DEF FlowLink, Stopping
<1> QED BY <1>1, <1>2, <1>3, <1>4, <1>5


-----------------------------------------------------------------------------
(* The steps of the control plane preserve the invariant *)

\* Commits, given what they do to the stage, the lease and the revision.
LEMMA CommitProtocol ==
  ASSUME ProtocolInv, [Next]_vars, UNCHANGED <<runner, net>>, NEW r,
         CommitWith(r), ReceiptGiven(r), FlowLink(run, run'), LeaseMoves,
         RevisionFits', StoppedFits'
  PROVE  ProtocolInv'
<1>1. PICK next, batch, a : Committed(next, batch, r, a)
  BY DEF CommitWith
<1>2. /\ Good(next) /\ EffectLink(run, next, batch, r) /\ FreshBatch(batch)
      /\ effects' = EffectsAfter(next, batch, r)
  BY <1>1 DEF Committed, Link, persistTransition
<1>3. RowsByID' /\ SystemKept /\ SettledFits
  BY <1>2, CommitRows
<1>4. SystemOpen'
  BY <1>3, SystemOpenAfter
<1>5. ViewsMove
  <2>1. view \in [Workers -> State \cup {Idle}]
    BY DEF ProtocolInv, RowInv
  <2> QED BY <2>1 DEF CommitWith, Reload, ViewsMove
<1> QED BY <1>3, <1>4, <1>5, ControlInv

\* The run has its stop receipt, if only a confirmed stop ends it.
LEMMA StoppedAfter ==
  ASSUME ProtocolInv, UNCHANGED net, Unstopped(run, run')
  PROVE  StoppedFits'
BY DEF ProtocolInv, StoppedFits, Unstopped, StopTargets, Terminal, net

\* Commits that carry no receipt and keep the revision.
LEMMA PlainProtocol ==
  ASSUME ProtocolInv, [Next]_vars, UNCHANGED <<runner, net>>,
         CommitWith(NoReceipt), FlowLink(run, run'), LeaseMoves,
         Unstopped(run, run'), run'.revision = run.revision
  PROVE  ProtocolInv'
<1>1. PICK next, batch, a : Committed(next, batch, NoReceipt, a)
  BY DEF CommitWith
<1>2. /\ Good(next) /\ EffectLink(run, next, batch, NoReceipt)
      /\ FreshBatch(batch) /\ run' = Bump(next) /\ next \in State
      /\ effects' = EffectsAfter(next, batch, NoReceipt)
  BY <1>1 DEF Committed, Link, persistTransition, Good
<1>3. /\ Awaited(next) <=> Awaited(run)
      /\ Awaited(run) => next.pending.id = run.pending.id
  BY <1>2, AwaitedAfter
<1>4. run'.pending = next.pending
  BY <1>2, BumpFlow
<1>5. Awaited(run') <=> Awaited(next)
  BY <1>4 DEF Awaited
<1>6. ReceiptGiven(NoReceipt)
  BY DEF ReceiptGiven
<1>7. run.revision = 0 => \A id \in DOMAIN effects' : id[2] < 0
  BY <1>2, <1>6, CommitRows DEF ProtocolInv, RevisionFits
<1>8. RevisionFits'
  BY <1>3, <1>4, <1>5, <1>7, RevisionKept
<1>9. StoppedFits'
  BY StoppedAfter
<1> QED BY <1>6, <1>8, <1>9, CommitProtocol

\* A claim opens the next epoch.
LEMMA ClaimProtocol ==
  ASSUME ProtocolInv, [Next]_vars, UNCHANGED <<runner, net>>,
         NEW w \in Workers, Claim(w)
  PROVE  ProtocolInv'
<1> DEFINE n == claim(run, w)
<1>1. /\ Good(run) /\ CanClaim(run) /\ run.status \notin Terminal
      /\ run' = Bump(n) /\ run.epoch < MaxEpoch /\ run.epoch \in Nat
  BY DEF ProtocolInv, RowInv, Good, State, Claim, Accepts, persistTransition
<1>2. Good(n) /\ CommitWith(NoReceipt)
  BY <1>1, ClaimGood, ClaimCommits DEF ProtocolInv
<1>3. /\ FlowLink(run, n) /\ n.revision = run.revision /\ Unstopped(run, n)
      /\ n.epoch = run.epoch + 1
  BY <1>1, ClaimFlow
<1> HIDE DEF n
<1>4. /\ FlowLink(run, run') /\ run'.revision = run.revision
      /\ Unstopped(run, run') /\ run'.epoch = run.epoch + 1
  BY <1>1, <1>2, <1>3, BumpFlow DEF Good
<1>5. LeaseMoves
  BY <1>1, <1>4, BoundAssumption DEF LeaseMoves
<1> QED BY <1>2, <1>4, <1>5, PlainProtocol

\* Commits that keep the lease and the revision.
LEMMA KeptProtocol ==
  ASSUME ProtocolInv, [Next]_vars, UNCHANGED <<runner, net>>,
         NEW w \in Workers,
         \/ \E rev \in Revisions : WorkspaceAdopted(w, rev)
         \/ \E stuck \in BOOLEAN : ContextBuilt(w, stuck)
         \/ \E cost \in Costs, finish \in BOOLEAN :
              ModelCompleted(w, cost, finish)
         \/ \E flags \in Batches : ToolsValidated(w, flags)
         \/ ResultsIngested(w)
         \/ \E e \in Evidence : VerificationCompleted(w, e)
         \/ Finalized(w)
         \/ BudgetReached(w) \/ Failed(w) \/ EffectUncertain(w)
         \/ RequeueCapacity(w) \/ Cancel \/ Resume
  PROVE  ProtocolInv'
<1>1. RowInv /\ RunInv
  BY DEF ProtocolInv
<1>2. Kept(run, run')
  BY <1>1, StageKept, OtherKept
<1>3. CommitWith(NoReceipt)
  BY <1>1, StageCommits, StopCommits, UncertainCommits, ClaimCommits,
     ControlCommits
<1> QED BY <1>2, <1>3, PlainProtocol DEF Kept, LeaseMoves

\* A run takes the first revision of the workspace it was given.
LEMMA ReadyProtocol ==
  ASSUME ProtocolInv, [Next]_vars, UNCHANGED <<runner, net>>,
         NEW w \in Workers, ReportReady(w)
  PROVE  ProtocolInv'
<1> DEFINE n == workspaceReady(run, 1)
<1>1. /\ Good(run) /\ RowInv /\ RunInv /\ ws.exists
      /\ WorkspaceReady(w, ws.revision) /\ requireStage(run, "initialize")
  BY DEF ProtocolInv, RowInv, ReportReady, WorkspaceReady
<1>2. run.revision = 0 /\ run.pending = NoEffect
  BY <1>1 DEF requireStage, Good, Coherent
<1>3. ws.revision = 1 /\ WorkspaceReady(w, 1)
  <2>1. ws.revision = 1
    BY <1>1, <1>2, FirstRevision
  <2> QED BY <1>1, <2>1
<1>4. /\ run' = Bump(n) /\ view[w] # Idle /\ view[w].version = run.version
      /\ SystemDone(w, {-1})
  BY <1>3 DEF WorkspaceReady, Advance, Accepts, persistTransition, Driving
<1>5. Closed(run, "initialize")
  <2>1. {o \in SystemOps : StageOf(o) = "initialize"} \subseteq {-1}
    BY OutcomeAssumption DEF StageOf
  <2>2. SystemDone(w, {o \in SystemOps : StageOf(o) = "initialize"})
    BY <1>4, <2>1 DEF SystemDone
  <2> QED BY <1>1, <1>4, <2>2, SystemClosed
<1>6. /\ Good(n) /\ FlowLink(run, n) /\ LeaseKept(run, n) /\ n.revision = 1
      /\ n.pending = run.pending /\ Unstopped(run, n)
  BY <1>1, <1>5, ReadyGood, ReadyFlow
<1> HIDE DEF n
<1>7. /\ FlowLink(run, run') /\ LeaseKept(run, run') /\ run'.revision = 1
      /\ run'.pending = NoEffect /\ Unstopped(run, run')
  BY <1>2, <1>4, <1>6, BumpFlow DEF Good
<1>8. CommitWith(NoReceipt) /\ ReceiptGiven(NoReceipt)
  BY <1>1, <1>3, StageCommits DEF ReceiptGiven
<1>9. RevisionFits'
  <2>1. ~unsettled(run.pending)'
    BY <1>7 DEF unsettled, NoEffect
  <2>2. UNCHANGED ws
    BY DEF runner
  <2> QED BY <1>1, <1>3, <1>7, <2>1, <2>2 DEF RevisionFits
<1>10. StoppedFits'
  BY <1>7, StoppedAfter
<1> QED BY <1>7, <1>8, <1>9, <1>10, CommitProtocol DEF LeaseMoves

\* A receipt brings the revision the runner already has.
LEMMA ReceiptProtocolStep ==
  ASSUME ProtocolInv, [Next]_vars, UNCHANGED <<runner, net>>,
         NEW w \in Workers, ReportCompleted(w) \/ ReportReconciled(w)
  PROVE  ProtocolInv'
<1> DEFINE id == run.pending.id
           r == receipt(id)
           n == settleEffect(run, r, late)
<1>1. RowInv /\ RunInv /\ Good(run) /\ run \in State
  BY DEF ProtocolInv, RowInv, Good
<1>2. /\ SettledAtRunner(id) /\ (EffectCompleted(w, r) \/ Reconciled(w, r))
      /\ r.id = id /\ r.status = ops[id].status /\ r.after = ops[id].after
  BY DEF ReportCompleted, ReportReconciled, receipt
<1>3. PICK k : CanSettle(run, r, k)
  BY <1>2 DEF EffectCompleted, Reconciled, CanReconcile
<1>4. r \in ReceiptsFor(run.pending)
  BY <1>2, <1>3, ReceiptFits
<1>5. r.after \in Nat /\ r.after > 0 /\ unsettled(run.pending)
      /\ r.status \in Settled
  BY <1>3, <1>4, BoundAssumption DEF ReceiptsFor, Revisions, CanSettle
<1>6. /\ run' = Bump(n) /\ run.status \notin Terminal
      /\ run.status # "waiting_approval"
      /\ run.status # "cancel_requested"
           => run.stage \in {"execute_effects", "reconcile"}
      /\ run.owner # NoOwner /\ run.epoch > 0
  <2>1. CASE EffectCompleted(w, r)
    BY <2>1, OwnerAssumption
       DEF EffectCompleted, Advance, persistTransition, Accepts, requireStage,
           LeaseValid, controlEvent
  <2>2. CASE Reconciled(w, r)
    BY <2>2, OwnerAssumption
       DEF Reconciled, CanReconcile, Advance, persistTransition, Accepts,
           LeaseValid, controlEvent
  <2> QED BY <1>2, <2>1, <2>2
<1>7. CommitWith(r)
  BY <1>1, <1>2, <1>4, ReceiptCommits
<1>8. ReceiptGiven(r) /\ ReceiptOf(run, r)
  BY <1>2, <1>5 DEF ReceiptGiven, SettledAtRunner, ReceiptOf
<1> HIDE DEF r
<1>9. /\ Good(n) /\ FlowLink(run, n) /\ LeaseKept(run, n) /\ Unstopped(run, n)
      /\ n.revision = r.after
  BY <1>1, <1>3, <1>5, <1>6, SettleGood, SettleFlow
<1> HIDE DEF n
<1>10. /\ FlowLink(run, run') /\ LeaseKept(run, run') /\ Unstopped(run, run')
       /\ run'.revision = r.after
  BY <1>6, <1>9, BumpFlow DEF Good
<1>11. RevisionFits'
  <2>1. ws.exists /\ ws.revision = r.after
    <3>1. id \in DOMAIN effects /\ id \in OpId /\ id[2] >= 0
      BY <1>1, <1>5 DEF RunInv, LedgerAgrees, ToolEffects, unsettled, NoEffect,
                        State
    <3>2. run.revision # 0 /\ run.revision \in Nat
      BY <1>1, <3>1, SMTT(30) DEF ProtocolInv, RevisionFits, OpId, State
    <3> QED BY <1>2, <1>5, <3>2 DEF ProtocolInv, RevisionFits
  <2>2. ~Awaited(run')
    <3>1. PICK next, batch, a : Committed(next, batch, r, a)
      BY <1>7 DEF CommitWith
    <3>2. /\ Good(next) /\ EffectLink(run, next, batch, r)
          /\ FreshBatch(batch) /\ run' = Bump(next) /\ next \in State
      BY <3>1 DEF Committed, Link, persistTransition, Good
    <3>3. ~Awaited(next) /\ run'.pending = next.pending
      BY <1>8, <3>2, AwaitedAfter, BumpFlow
    <3> QED BY <3>3 DEF Awaited
  <2>3. UNCHANGED <<ws, ops>>
    BY DEF runner
  <2>4. ~(unsettled(run.pending)' /\ SettledAtRunner(run.pending.id)')
    BY <2>2, <2>3 DEF Awaited, SettledAtRunner
  <2> QED BY <1>5, <1>10, <2>1, <2>3, <2>4 DEF RevisionFits
<1>12. StoppedFits'
  BY <1>10, StoppedAfter
<1> QED BY <1>7, <1>8, <1>10, <1>11, <1>12, CommitProtocol DEF LeaseMoves


\* A confirmed stop takes the revision the workspace was stopped at.
LEMMA StopProtocol ==
  ASSUME ProtocolInv, [Next]_vars, UNCHANGED <<runner, net>>,
         NEW w \in Workers, ReportStopped(w)
  PROVE  ProtocolInv'
<1>1. RowInv /\ RunInv /\ Good(run) /\ run \in State
  BY DEF ProtocolInv, RowInv, Good
<1>2. PICK s \in stops : s.rpc = "stop" /\ CancellationConfirmed(w, s.revision)
  BY DEF ReportStopped, StopReceipt
<1>3. PICK rev : rev = s.revision
  OBVIOUS
<1> DEFINE n == confirmStop(run, rev)
<1>4. /\ rev \in {0} \cup Revisions /\ rev \in Nat
      /\ \/ ws.stopped /\ ws.active = NoOp /\ rev = ws.revision
         \/ rev = 0
  <2>1. s.revision \in 0..MaxRevision
    BY DEF ProtocolInv, StopsFit, StopType
  <2> QED BY <1>2, <1>3, <2>1, BoundAssumption
          DEF ProtocolInv, StopsFit, Revisions
<1>5. /\ CanConfirmStop(run, rev) /\ run' = Bump(n)
      /\ CancellationConfirmed(w, rev)
  BY <1>2, <1>3 DEF CancellationConfirmed, Advance, persistTransition
<1>6. /\ Good(n) /\ FlowLink(run, n) /\ LeaseKept(run, n) /\ n.revision = rev
      /\ n.pending = run.pending
  BY <1>1, <1>4, <1>5, ConfirmGood, ConfirmFlow
<1> HIDE DEF n
<1>7. /\ FlowLink(run, run') /\ LeaseKept(run, run') /\ run'.revision = rev
      /\ run'.pending = run.pending
  BY <1>5, <1>6, BumpFlow DEF Good
<1>8. CommitWith(NoReceipt) /\ ReceiptGiven(NoReceipt)
  BY <1>1, <1>4, <1>5, StopCommits DEF ReceiptGiven
<1>9. RevisionFits'
  <2>1. ~unsettled(run.pending)' /\ UNCHANGED <<ws, ops>>
    BY <1>5, <1>7 DEF CanConfirmStop, runner
  <2>2. CASE ws.stopped /\ ws.active = NoOp /\ rev = ws.revision
    <3>1. /\ ws.exists /\ tree \in Seq(OpId) /\ ws.revision = 1 + Len(tree)
      BY <2>2, LedgerFacts DEF ProtocolInv
    <3>2. ws.revision # 0
      BY <3>1
    <3> QED BY <1>7, <2>1, <2>2, <3>1, <3>2 DEF RevisionFits
  <2>3. CASE rev = 0
    <3>1. run.revision = 0
      BY <1>1, <1>5, <2>3 DEF CanConfirmStop, State
    <3>2. PICK next, batch, a : Committed(next, batch, NoReceipt, a)
      BY <1>8 DEF CommitWith
    <3>3. DOMAIN effects' = DOMAIN effects
      BY <1>8, <3>1, <3>2, CommitRows DEF Committed, Link, persistTransition
    <3> QED BY <1>7, <2>3, <3>1, <3>3 DEF ProtocolInv, RevisionFits
  <2> QED BY <1>4, <2>2, <2>3
<1>10. StoppedFits'
  BY <1>2 DEF StoppedFits, net
<1> QED BY <1>7, <1>8, <1>9, <1>10, CommitProtocol DEF LeaseMoves

\* A step that leaves the row as it is, up to its lease, keeps its stage.
LEMMA SameFlow ==
  ASSUME ProtocolInv, run' = run \/ run' = [run EXCEPT !.live = FALSE]
  PROVE  /\ FlowLink(run, run') /\ LeaseMoves /\ Unstopped(run, run')
         /\ run'.revision = run.revision /\ run'.pending = run.pending
<1>1. run \in State
  BY DEF ProtocolInv, RowInv, Good
<1>2. /\ run'.status = run.status /\ run'.stage = run.stage
      /\ run'.resumeStage = run.resumeStage /\ run'.owner = run.owner
      /\ run'.epoch = run.epoch /\ run'.revision = run.revision
      /\ run'.pending = run.pending /\ run'.rounds = run.rounds
      /\ run'.command = run.command
  BY <1>1 DEF State
<1>3. (\A g : At(run, g) => At(run', g)) /\ (Stuck(run) => Stuck(run'))
  BY <1>2 DEF At, Stuck
<1> QED BY <1>2, <1>3
        DEF FlowLink, LeaseMoves, LeaseKept, Unstopped, ProtocolInv, RowFits

\* Matters of leases and views.
LEMMA LeaseProtocol ==
  ASSUME ProtocolInv, [Next]_vars, UNCHANGED <<runner, net>>, LeaseStep
  PROVE  ProtocolInv'
<1>1. /\ effects' = effects
      /\ run' = run \/ run' = [run EXCEPT !.live = FALSE]
  BY DEF LeaseStep, Refresh, Crash, Defer, LeaseExpires, DeadlinePasses, vars
<1>2. /\ FlowLink(run, run') /\ LeaseMoves /\ Unstopped(run, run')
      /\ run'.revision = run.revision /\ run'.pending = run.pending
  BY <1>1, SameFlow
<1>3. ViewsMove
  <2>1. view \in [Workers -> State \cup {Idle}]
    BY DEF ProtocolInv, RowInv
  <2> QED BY <2>1 DEF LeaseStep, Refresh, Crash, Defer, LeaseExpires,
                      DeadlinePasses, vars, ViewsMove
<1>4. SettledFits /\ SystemKept /\ RowsByID'
  BY <1>1 DEF ProtocolInv, LedgersMatch, SettledFits, SystemKept, RowsByID
<1>5. SystemOpen'
  BY <1>2, <1>4, SystemOpenAfter
<1>6. RevisionFits'
  <2>1. Awaited(run') <=> Awaited(run)
    BY <1>2 DEF Awaited
  <2>2. run.revision = 0 => \A id \in DOMAIN effects' : id[2] < 0
    BY <1>1 DEF ProtocolInv, RevisionFits
  <2> QED BY <1>2, <2>1, <2>2, RevisionKept
<1>7. StoppedFits'
  BY <1>2, StoppedAfter
<1> QED BY <1>2, <1>3, <1>4, <1>5, <1>6, <1>7, ControlInv

\* A decision about an approval.
LEMMA DecideProtocol ==
  ASSUME ProtocolInv, [Next]_vars, UNCHANGED <<runner, net>>,
         NEW id \in DOMAIN approvals, NEW allow \in BOOLEAN, Decide(id, allow)
  PROVE  ProtocolInv'
<1> DEFINE n == decideApproval(run, allow)
<1>1. RowInv /\ RunInv /\ Good(run)
  BY DEF ProtocolInv, RowInv
<1>2. PICK c : CanDecide(run, c)
  BY DEF Decide
<1>3. /\ run' = Bump(n) /\ effects' = EffectsAfter(n, << >>, NoReceipt)
      /\ view' = view
  BY DEF Decide
<1>4. /\ Good(n) /\ EffectLink(run, n, << >>, NoReceipt) /\ Kept(run, n)
      /\ FreshBatch(<< >>) /\ ReceiptGiven(NoReceipt)
  BY <1>1, <1>2, DecideGood, DecideLink, DecideFlow, NoBatch
     DEF Link, ReceiptGiven
<1> HIDE DEF n
<1>5. Kept(run, run') /\ run'.pending = n.pending
  BY <1>3, <1>4, BumpKept, BumpFlow DEF Good
<1>6. /\ RowsByID' /\ SystemKept /\ SettledFits
      /\ run.revision = 0 => DOMAIN effects' = DOMAIN effects
  BY <1>3, <1>4, CommitRows
<1>7. SystemOpen'
  BY <1>5, <1>6, SystemOpenAfter DEF Kept
<1>8. RevisionFits'
  <2>1. /\ Awaited(run') <=> Awaited(run)
        /\ Awaited(run) => run'.pending.id = run.pending.id
    <3>1. /\ Awaited(n) <=> Awaited(run)
          /\ Awaited(run) => n.pending.id = run.pending.id
      BY <1>4, AwaitedAfter
    <3> QED BY <1>5, <3>1 DEF Awaited
  <2>2. run.revision = 0 => \A i \in DOMAIN effects' : i[2] < 0
    BY <1>6 DEF ProtocolInv, RevisionFits
  <2> QED BY <1>5, <2>1, <2>2, RevisionKept DEF Kept
<1>9. StoppedFits'
  BY <1>5, StoppedAfter DEF Kept
<1> QED BY <1>3, <1>5, <1>6, <1>7, <1>8, <1>9, ControlInv
        DEF Kept, LeaseMoves, ViewsMove

\* The plan of a system effect belongs to the stage of the run.
LEMMA PlanProtocol ==
  ASSUME ProtocolInv, [Next]_vars, UNCHANGED <<runner, net>>,
         NEW w \in Workers, NEW ordinal \in SystemOps,
         PlanSystemEffect(w, ordinal)
  PROVE  ProtocolInv'
<1> DEFINE id == SystemId(view[w], ordinal)
<1>1. /\ run' = run /\ view' = view /\ view[w] # Idle
      /\ view[w].version = run.version
      /\ DOMAIN effects' = DOMAIN effects \cup {id} /\ id \notin DOMAIN effects
      /\ \A i \in DOMAIN effects : effects'[i] = effects[i]
      /\ effects'[id].status = "in_flight"
  BY DEF PlanSystemEffect
<1>2. view[w].rounds = run.rounds /\ view[w].command = run.command
  BY <1>1 DEF ProtocolInv, RunInv, ViewsOld
<1>3. /\ ordinal < 0 /\ id = <<run.rounds, ordinal>>
      /\ id[1] = run.rounds /\ id[2] = ordinal
  BY <1>2, OutcomeAssumption DEF SystemId
<1>4. At(run, StageOf(ordinal))
  <2>1. run.status # "cancel_requested"
    BY <1>2 DEF PlanSystemEffect, ProtocolInv, RunInv, CommandFits
  <2>2. run.stage = StageOf(ordinal)
    BY <1>2 DEF PlanSystemEffect, ProtocolInv, RunInv, CommandFits, RowFits,
                StageOf
  <2> QED BY <2>1, <2>2 DEF At
<1> HIDE DEF id
<1>5. SystemOpen'
  <2> SUFFICES ASSUME NEW i \in DOMAIN effects', i[2] < 0
               PROVE  /\ i[2] \in SystemOps /\ effects'[i].status # "planned"
                      /\ \/ effects'[i].status \in Settled
                         \/ run.status \in Stopping
                         \/ Stuck(run)
                         \/ At(run, StageOf(i[2])) /\ i[1] = run.rounds
    BY <1>1 DEF SystemOpen, Stuck, At, unsettled
  <2>1. CASE i = id
    BY <1>1, <1>3, <1>4, <2>1
  <2>2. CASE i # id
    BY <1>1, <2>2 DEF ProtocolInv, SystemOpen
  <2> QED BY <2>1, <2>2
<1>6. SettledFits
  BY <1>1 DEF ProtocolInv, LedgersMatch, SettledFits, Settled
<1>7. RowsByID'
  BY DEF PlanSystemEffect, RowsByID
<1>8. /\ FlowLink(run, run') /\ LeaseMoves /\ Unstopped(run, run')
  BY <1>1, SameFlow
<1>9. RevisionFits'
  <2>1. run.revision = 0 => \A i \in DOMAIN effects' : i[2] < 0
    BY <1>1, <1>3 DEF ProtocolInv, RevisionFits
  <2> QED BY <1>1, <2>1, RevisionKept
<1>10. StoppedFits'
  BY <1>8, StoppedAfter
<1> QED BY <1>1, <1>5, <1>6, <1>7, <1>8, <1>9, <1>10, ControlInv DEF ViewsMove

\* The receipt of a system effect settles its row.
LEMMA SystemProtocol ==
  ASSUME ProtocolInv, [Next]_vars, UNCHANGED <<runner, net>>,
         NEW w \in Workers, NEW id \in DOMAIN ops, ReportSystemSettled(w, id)
  PROVE  ProtocolInv'
<1>1. /\ run' = run /\ view' = view /\ id \in DOMAIN effects /\ id[2] < 0
      /\ effects' = [effects EXCEPT ![id].status = ops[id].status]
      /\ ops[id].status \in Settled
  BY DEF ReportSystemSettled, SettleSystemEffect, SettledAtRunner, receipt
<1>2. effects[id] \in EffectRow
  BY <1>1 DEF ProtocolInv, RunInv, RowsTyped
<1>3. /\ DOMAIN effects' = DOMAIN effects
      /\ \A i \in DOMAIN effects : i # id => effects'[i] = effects[i]
      /\ effects'[id].status = ops[id].status
  BY <1>1, <1>2 DEF EffectRow
<1>4. SystemOpen'
  <2> SUFFICES ASSUME NEW i \in DOMAIN effects', i[2] < 0
               PROVE  /\ i[2] \in SystemOps /\ effects'[i].status # "planned"
                      /\ \/ effects'[i].status \in Settled
                         \/ run.status \in Stopping
                         \/ Stuck(run)
                         \/ At(run, StageOf(i[2])) /\ i[1] = run.rounds
    BY <1>1 DEF SystemOpen, Stuck, At, unsettled
  <2>1. CASE i = id
    BY <1>1, <1>3, <2>1 DEF ProtocolInv, SystemOpen, Settled
  <2>2. CASE i # id
    BY <1>3, <2>2 DEF ProtocolInv, SystemOpen
  <2> QED BY <2>1, <2>2
<1>5. SettledFits
  BY <1>3 DEF ProtocolInv, LedgersMatch, SettledFits
<1>6. RowsByID'
  BY <1>1 DEF RowsByID
<1>7. /\ FlowLink(run, run') /\ LeaseMoves /\ Unstopped(run, run')
  BY <1>1, SameFlow
<1>8. RevisionFits'
  <2>1. run.revision = 0 => \A i \in DOMAIN effects' : i[2] < 0
    BY <1>3 DEF ProtocolInv, RevisionFits
  <2> QED BY <1>1, <2>1, RevisionKept
<1>9. StoppedFits'
  BY <1>7, StoppedAfter
<1> QED BY <1>1, <1>4, <1>5, <1>6, <1>7, <1>8, <1>9, ControlInv DEF ViewsMove


\* Whatever a worker does with the runner's evidence.
LEMMA ControlProtocol ==
  ASSUME ProtocolInv, UNCHANGED <<runner, net>>, NEW w \in Workers,
         ControlStep(w)
  PROVE  ProtocolInv'
<1>1. [Next]_vars
  BY ControlRefines
<1>2. CASE Claim(w)
  BY <1>1, <1>2, ClaimProtocol
<1>3. CASE Refresh(w) \/ Crash(w) \/ Defer(w)
  BY <1>1, <1>3, LeaseProtocol DEF LeaseStep
<1>4. CASE \/ \E stuck \in BOOLEAN : ContextBuilt(w, stuck)
           \/ \E cost \in Costs, finish \in BOOLEAN :
                ModelCompleted(w, cost, finish)
           \/ \E flags \in Batches : ToolsValidated(w, flags)
           \/ ResultsIngested(w)
           \/ \E e \in Evidence : VerificationCompleted(w, e)
           \/ Finalized(w)
           \/ BudgetReached(w) \/ Failed(w) \/ EffectUncertain(w)
           \/ RequeueCapacity(w)
  BY <1>1, <1>4, KeptProtocol
<1>5. CASE ReportAdopted(w)
  <2>1. PICK s \in stops : s.rpc = "adopt" /\ WorkspaceAdopted(w, s.revision)
    BY <1>5 DEF ReportAdopted, StopReceipt
  <2>2. s.revision \in 0..MaxRevision /\ s.revision > 0
    BY <2>1 DEF ProtocolInv, StopsFit, StopType
  <2>3. s.revision \in Revisions
    BY <2>2, BoundAssumption DEF Revisions
  <2> QED BY <1>1, <2>1, <2>3, KeptProtocol
<1>6. CASE ReportReady(w)
  BY <1>1, <1>6, ReadyProtocol
<1>7. CASE ReportCompleted(w) \/ ReportReconciled(w)
  BY <1>1, <1>7, ReceiptProtocolStep
<1>8. CASE ReportStopped(w)
  BY <1>1, <1>8, StopProtocol
<1>9. CASE \E ordinal \in SystemOps : PlanSystemEffect(w, ordinal)
  BY <1>1, <1>9, PlanProtocol
<1>10. CASE \E id \in DOMAIN ops : id[2] < 0 /\ ReportSystemSettled(w, id)
  BY <1>1, <1>10, SystemProtocol
<1> QED BY <1>2, <1>3, <1>4, <1>5, <1>6, <1>7, <1>8, <1>9, <1>10
        DEF ControlStep

\* What the API and the clocks do.
LEMMA ApiProtocol ==
  ASSUME ProtocolInv, UNCHANGED <<runner, net>>,
         ApiStep \/ LeaseExpires \/ DeadlinePasses
  PROVE  ProtocolInv'
<1>1. [Next]_vars
  BY DEF Next
<1>2. CASE LeaseExpires \/ DeadlinePasses
  BY <1>1, <1>2, LeaseProtocol DEF LeaseStep
<1>3. CASE Cancel \/ Resume
  <2>1. RowInv /\ RunInv
    BY DEF ProtocolInv
  <2>2. Kept(run, run') /\ CommitWith(NoReceipt)
    BY <1>3, <2>1, OtherKept, ControlCommits
  <2> QED BY <1>1, <2>2, PlainProtocol DEF Kept, LeaseMoves
<1>4. CASE \E id \in DOMAIN approvals, allow \in BOOLEAN : Decide(id, allow)
  BY <1>1, <1>4, DecideProtocol
<1> QED BY <1>2, <1>3, <1>4 DEF ApiStep

-----------------------------------------------------------------------------
(* Requests and the runner's answers preserve the invariant *)

\* The invariant after a step that leaves the control plane alone.
LEMMA RunnerInv ==
  ASSUME ProtocolInv, [L!LedgerNext]_runner, UNCHANGED vars,
         LedgersMatch', RequestsFit', OwnersStop', ws.exists => ws'.exists,
         RevisionFits', WritesFit', StopsFit', stops \subseteq stops'
  PROVE  ProtocolInv'
<1>1. UNCHANGED <<run, view, effects>>
  BY DEF vars
<1>2. RowInv' /\ RunInv'
  BY RowNext, RunNext DEF ProtocolInv
<1>3. LP!LedgerInv'
  BY LedgerKept DEF ProtocolInv
<1>4. RowsByID' /\ RowFits'
  BY <1>1 DEF ProtocolInv, RowsByID, RowFits
<1>5. SystemOpen'
  BY <1>1 DEF ProtocolInv, SystemOpen, Stuck, At, unsettled
<1>6. ViewsFit'
  BY <1>1 DEF ProtocolInv, ViewsFit, Dispatched, Good, validateState, Coherent
<1>7. StoppedFits'
  BY <1>1 DEF ProtocolInv, StoppedFits
<1> QED BY <1>2, <1>3, <1>4, <1>5, <1>6, <1>7 DEF ProtocolInv

\* A request that fits, from the worker that holds the lease.
LEMMA SendFits ==
  ASSUME ProtocolInv, NEW w \in Workers, NEW m, m \in RequestType, Send(w, m),
         m.epoch = view[w].epoch,
         m.rpc = "start" =>
           /\ ws.exists /\ m.id \in OpId /\ Dispatched(m.id, m.epoch, m.rev)
           /\ view[w].command \notin {"stop_execution", "publish_terminal"},
         m.rpc = "stop" => view[w].command = "stop_execution"
  PROVE  ProtocolInv'
<1>1. /\ sent' = sent \cup {m} /\ UNCHANGED <<vars, runner, stops>>
      /\ UNCHANGED <<run, view, effects, ws, ops, tree>>
      /\ view[w] # Idle /\ run.owner = w /\ run.epoch = view[w].epoch
      /\ run.epoch \in Nat
  BY DEF Send, Granted, vars, runner, ProtocolInv, RowInv, Good, State
<1>2. m.rpc = "stop" => run.status \in Stopping
  BY <1>1 DEF ProtocolInv, ViewsFit
<1>3. RequestsFit'
  BY <1>1, <1>2 DEF ProtocolInv, RequestsFit, Dispatched
<1>4. OwnersStop'
  <2>1. CASE m.rpc = "stop"
    BY <1>1, <2>1 DEF OwnersStop
  <2>2. CASE m.rpc # "stop"
    BY <1>1, <2>2 DEF ProtocolInv, OwnersStop
  <2> QED BY <2>1, <2>2
<1>5. StopsFit'
  <2>1. ASSUME NEW s \in stops, s.rpc = "stop" PROVE m.rpc # "start"
    <3>1. \E k \in sent : k.rpc = "stop"
      BY <2>1 DEF ProtocolInv, StopsFit
    <3> QED BY <1>1, <3>1 DEF ProtocolInv, OwnersStop
  <2> SUFFICES ASSUME NEW s \in stops
               PROVE  /\ s \in StopType
                      /\ \E k \in sent' : k.rpc = s.rpc /\ k.epoch = s.epoch
                      /\ s.rpc = "adopt" => s.revision > 0
                      /\ s.rpc = "stop" =>
                           \/ /\ ws.stopped /\ ws.active = NoOp
                              /\ s.revision = ws.revision
                           \/ /\ s.revision = 0 /\ DOMAIN ops = {}
                              /\ \A k \in sent' : k.rpc # "start"
    BY <1>1 DEF StopsFit
  <2> QED BY <1>1, <2>1 DEF ProtocolInv, StopsFit
<1>6. LedgersMatch' /\ RevisionFits' /\ WritesFit'
  BY <1>1
     DEF ProtocolInv, LedgersMatch, RevisionFits, WritesFit, SettledAtRunner,
         unsettled
<1> QED BY <1>1, <1>3, <1>4, <1>5, <1>6, RunnerInv DEF runner

\* Every request a worker sends fits.
LEMMA SendProtocol ==
  ASSUME ProtocolInv, NEW w \in Workers, SendAny(w)
  PROVE  ProtocolInv'
<1> DEFINE v == view[w]
<1>1. ASSUME NEW m, Send(w, m)
      PROVE  /\ v # Idle /\ v \in State /\ v.epoch \in 1..MaxEpoch
  <2>1. v # Idle /\ run.epoch = v.epoch /\ LeaseValid(run)
    BY <1>1 DEF Send, Granted
  <2>2. v \in State /\ run \in State
    BY <2>1 DEF ProtocolInv, RowInv, Good
  <2>3. run.epoch > 0 /\ run.epoch \in Nat /\ run.epoch <= MaxEpoch
    BY <2>1, <2>2 DEF LeaseValid, State, ProtocolInv, RowFits
  <2> QED BY <2>1, <2>2, <2>3, BoundAssumption
<1>2. ASSUME NEW rpc \in {"prepare", "adopt", "stop"},
             Send(w, Request(rpc, NoOp, v.epoch, 0)),
             rpc = "stop" => v.command = "stop_execution"
      PROVE  ProtocolInv'
  <2> DEFINE m == Request(rpc, NoOp, v.epoch, 0)
  <2>1. m \in RequestType /\ m.epoch = v.epoch /\ m.rpc = rpc
    BY <1>1, <1>2 DEF Request, RequestType
  <2>2. Send(w, m)
    BY <1>2
  <2> HIDE DEF m
  <2> QED BY <1>2, <2>1, <2>2, SendFits
<1>3. ASSUME NEW id \in OpId, NEW rev \in Nat,
             Send(w, Request("start", id, v.epoch, rev)),
             ws.exists, Dispatched(id, v.epoch, rev),
             v.command \notin {"stop_execution", "publish_terminal"}
      PROVE  ProtocolInv'
  <2> DEFINE m == Request("start", id, v.epoch, rev)
  <2>1. /\ m \in RequestType /\ m.epoch = v.epoch /\ m.rpc = "start"
        /\ m.id = id /\ m.rev = rev
    BY <1>1, <1>3 DEF Request, RequestType
  <2>2. Send(w, m)
    BY <1>3
  <2> HIDE DEF m
  <2> QED BY <1>3, <2>1, <2>2, SendFits
<1>4. CASE SendPrepare(w)
  BY <1>2, <1>4 DEF SendPrepare
<1>5. CASE SendAdopt(w)
  BY <1>2, <1>5 DEF SendAdopt
<1>6. CASE SendStop(w)
  BY <1>2, <1>6 DEF SendStop, Driving
<1>7. CASE SendStart(w)
  <2> DEFINE e == v.pending
  <2>1. /\ Send(w, Request("start", e.id, v.epoch, e.rev))
        /\ v.command = "execute_effect" /\ e.epoch = v.epoch
    BY <1>7 DEF SendStart, CanStart, Driving
  <2>2. v # Idle /\ v \in State /\ v.epoch \in 1..MaxEpoch
    BY <1>1, <2>1
  <2>3. e.id \in OpId /\ e.rev \in Nat /\ e.epoch > 0
    BY <2>1, <2>2 DEF State
  <2>4. ws.exists /\ Dispatched(e.id, e.epoch, e.rev)
    BY <2>2, <2>3 DEF ProtocolInv, ViewsFit
  <2> HIDE DEF e
  <2> QED BY <1>3, <2>1, <2>3, <2>4
<1>8. ASSUME NEW ordinal \in SystemOps, SendSystemStart(w, ordinal)
      PROVE  ProtocolInv'
  <2> DEFINE id == SystemId(v, ordinal)
             rev == effects[id].rev
  <2>1. /\ id \in DOMAIN effects /\ v # Idle
        /\ v.command \in {"initialize_workspace", "verify", "finalize"}
        /\ v.command = "initialize_workspace" => ws.exists
        /\ effects[id].epoch = v.epoch
        /\ Send(w, Request("start", id, v.epoch, rev))
    BY <1>8 DEF SendSystemStart, CanStart
  <2>2. id[2] = ordinal /\ ordinal < 0
    BY OutcomeAssumption DEF SystemId
  <2>3. id \in OpId /\ rev \in Nat
    BY <2>1 DEF ProtocolInv, RunInv, RowsTyped, EffectRow
  <2> HIDE DEF id
  <2>4. Dispatched(id, v.epoch, rev)
    BY <2>1, <2>2 DEF ProtocolInv, SystemOpen, Dispatched
  <2>5. ws.exists
    BY <2>1 DEF ProtocolInv, ViewsFit
  <2> HIDE DEF rev
  <2> QED BY <1>3, <2>1, <2>3, <2>4, <2>5
<1> QED BY <1>4, <1>5, <1>6, <1>7, <1>8 DEF SendAny


\* What the steps of the runner keep, if they keep its revision, its receipts
\* and its operations.
LEMMA GateProtocol ==
  ASSUME ProtocolInv, [L!LedgerNext]_runner, UNCHANGED <<vars, ops, tree, sent>>,
         ws.exists => ws'.exists /\ ws'.revision = ws.revision,
         StopsFit', stops \subseteq stops'
  PROVE  ProtocolInv'
<1>1. UNCHANGED <<run, view, effects, ops, tree, sent>>
  BY DEF vars
<1>2. LedgersMatch' /\ WritesFit' /\ RequestsFit' /\ OwnersStop'
  BY <1>1 DEF ProtocolInv, LedgersMatch, WritesFit, RequestsFit, OwnersStop,
              Dispatched
<1>3. RevisionFits'
  BY <1>1 DEF ProtocolInv, RevisionFits, SettledAtRunner, unsettled
<1> QED BY <1>1, <1>2, <1>3, RunnerInv

\* The revision of an idle workspace is one a receipt may report.
LEMMA IdleRevision ==
  ASSUME ProtocolInv, ws.exists, ws.active = NoOp
  PROVE  ws.revision \in 1..MaxRevision
<1>1. ws.revision = 1 + Len(tree) /\ tree \in Seq(OpId)
  BY LedgerFacts DEF ProtocolInv
<1>2. Len(tree) \in Nat /\ 1 + Len(tree) <= MaxRevision
  BY <1>1 DEF ProtocolInv, WritesFit
<1> QED BY <1>1, <1>2, BoundAssumption

\* Preparing, fencing and reopening a workspace, and stop receipts.
LEMMA FenceProtocol ==
  ASSUME ProtocolInv, [L!LedgerNext]_runner, NEW m \in sent,
         \/ ServePrepare(m) \/ ServeFence(m) \/ ServeReopen(m)
         \/ ServeStopped(m) \/ ServeAbsent(m)
  PROVE  ProtocolInv'
<1>1. /\ ws \in [exists : BOOLEAN, epoch : Nat, revision : Nat,
                 active : OpId \cup {NoOp}, adopting : BOOLEAN,
                 stopped : BOOLEAN, released : BOOLEAN]
      /\ ~ws.exists => DOMAIN ops = {} /\ ~ws.stopped
  BY LedgerFacts DEF ProtocolInv
<1>2. m.epoch \in 1..MaxEpoch
  BY DEF ProtocolInv, RequestsFit, RequestType
<1>3. ASSUME NEW s \in stops
      PROVE  /\ s \in StopType
             /\ \E k \in sent : k.rpc = s.rpc /\ k.epoch = s.epoch
             /\ s.rpc = "adopt" => s.revision > 0
             /\ s.rpc = "stop" =>
                  \/ /\ ws.stopped /\ ws.active = NoOp
                     /\ s.revision = ws.revision
                  \/ /\ s.revision = 0 /\ DOMAIN ops = {}
                     /\ \A k \in sent : k.rpc # "start"
  BY DEF ProtocolInv, StopsFit
<1>4. CASE ServePrepare(m)
  <2>1. /\ ~ws.exists /\ UNCHANGED <<vars, ops, tree, sent, stops>>
    BY <1>4 DEF ServePrepare, L!Prepare, net
  <2>2. StopsFit'
    BY <1>1, <1>3, <2>1 DEF StopsFit
  <2> QED BY <2>1, <2>2, GateProtocol
<1>5. CASE ServeFence(m)
  <2>1. UNCHANGED <<vars, ops, tree, sent, stops>>
    BY <1>5 DEF ServeFence, L!Fence, net
  <2>2. /\ ws'.exists = ws.exists /\ ws'.revision = ws.revision
        /\ ws'.active = ws.active /\ (ws.stopped => ws'.stopped)
    BY <1>1, <1>5 DEF ServeFence, L!Fence
  <2>3. StopsFit'
    BY <1>3, <2>1, <2>2 DEF StopsFit
  <2> QED BY <2>1, <2>2, <2>3, GateProtocol
<1>6. CASE ServeReopen(m)
  <2> DEFINE t == Stopped(m, ws.revision)
  <2>1. /\ UNCHANGED <<vars, ops, tree, sent>> /\ stops' = stops \cup {t}
        /\ m.rpc = "adopt" /\ ws.exists /\ ws.active = NoOp /\ ~ws.stopped
    BY <1>6 DEF ServeReopen, L!Reopen
  <2>2. /\ ws'.exists = ws.exists /\ ws'.revision = ws.revision
        /\ ws'.active = ws.active /\ ws'.stopped = ws.stopped
    BY <1>1, <1>6 DEF ServeReopen, L!Reopen
  <2>3. ws.revision \in 1..MaxRevision
    BY <2>1, IdleRevision
  <2>4. /\ t \in StopType /\ t.rpc = m.rpc /\ t.epoch = m.epoch
        /\ t.revision > 0
    BY <1>2, <2>1, <2>3, BoundAssumption DEF Stopped, StopType
  <2> HIDE DEF t
  <2>5. StopsFit'
    BY <1>3, <2>1, <2>2, <2>4 DEF StopsFit
  <2> QED BY <2>1, <2>2, <2>5, GateProtocol
<1>7. CASE ServeStopped(m)
  <2> DEFINE t == Stopped(m, ws.revision)
  <2>1. /\ UNCHANGED <<vars, ws, ops, tree, sent>> /\ stops' = stops \cup {t}
        /\ m.rpc = "stop" /\ ws.active = NoOp /\ ws.stopped
    BY <1>7 DEF ServeStopped, runner
  <2>2. ws.revision \in 1..MaxRevision
    BY <1>1, <2>1, IdleRevision
  <2>3. /\ t \in StopType /\ t.rpc = m.rpc /\ t.epoch = m.epoch
        /\ t.revision = ws.revision
    BY <1>2, <2>1, <2>2, BoundAssumption DEF Stopped, StopType
  <2> HIDE DEF t
  <2>4. StopsFit'
    BY <1>3, <2>1, <2>3 DEF StopsFit
  <2> QED BY <2>1, <2>4, GateProtocol
<1>8. CASE ServeAbsent(m)
  <2> DEFINE t == Stopped(m, 0)
  <2>1. /\ UNCHANGED <<vars, ws, ops, tree, sent>> /\ stops' = stops \cup {t}
        /\ m.rpc = "stop" /\ ~ws.exists
    BY <1>8 DEF ServeAbsent, runner
  <2>2. \A k \in sent : k.rpc # "start"
    BY <2>1 DEF ProtocolInv, RequestsFit
  <2>3. /\ t \in StopType /\ t.rpc = m.rpc /\ t.epoch = m.epoch
        /\ t.revision = 0
    BY <1>2, <2>1, BoundAssumption DEF Stopped, StopType
  <2> HIDE DEF t
  <2>4. StopsFit'
    BY <1>1, <1>3, <2>1, <2>2, <2>3 DEF StopsFit
  <2> QED BY <2>1, <2>4, GateProtocol
<1> QED BY <1>4, <1>5, <1>6, <1>7, <1>8

\* An operation is accepted from a request whose row is dispatched.
LEMMA StartProtocol ==
  ASSUME ProtocolInv, [L!LedgerNext]_runner, NEW m \in sent, ServeStart(m)
  PROVE  ProtocolInv'
<1>1. /\ m.rpc = "start" /\ m.id \notin DOMAIN ops /\ ~ws.stopped
      /\ UNCHANGED <<vars, tree, sent, stops>>
      /\ DOMAIN ops' = DOMAIN ops \cup {m.id}
      /\ \A id \in DOMAIN ops : ops'[id] = ops[id]
      /\ ops'[m.id] = [epoch |-> m.epoch, rev |-> m.rev, status |-> "open",
                       after |-> 0]
      /\ ws' = [ws EXCEPT !.active = m.id] /\ ws.exists
  BY DEF ServeStart, L!Accept, net
<1>2. UNCHANGED <<run, view, effects>>
  BY <1>1 DEF vars
<1>3. ws'.exists = ws.exists /\ ws'.revision = ws.revision
  BY <1>1, LedgerFacts DEF ProtocolInv
<1>4. Dispatched(m.id, m.epoch, m.rev)
  BY <1>1 DEF ProtocolInv, RequestsFit
<1>5. LedgersMatch'
  <2>1. effects[m.id].status \notin Settled
    BY <1>1, <1>4 DEF ProtocolInv, LedgersMatch, Dispatched
  <2> QED BY <1>1, <1>2, <1>4, <2>1 DEF ProtocolInv, LedgersMatch, Dispatched
<1>6. RequestsFit' /\ OwnersStop'
  BY <1>1, <1>2, <1>3 DEF ProtocolInv, RequestsFit, OwnersStop, Dispatched
<1>7. RevisionFits'
  <2>1. SettledAtRunner(run.pending.id)' <=> SettledAtRunner(run.pending.id)
    BY <1>1, <1>2 DEF SettledAtRunner, Settled
  <2>2. SettledAtRunner(run.pending.id) =>
          ops'[run.pending.id] = ops[run.pending.id]
    BY <1>1 DEF SettledAtRunner
  <2> QED BY <1>2, <1>3, <2>1, <2>2 DEF ProtocolInv, RevisionFits, unsettled
<1>8. WritesFit'
  BY <1>1 DEF ProtocolInv, WritesFit
<1>9. StopsFit'
  BY <1>1 DEF ProtocolInv, StopsFit
<1> QED BY <1>1, <1>3, <1>5, <1>6, <1>7, <1>8, <1>9, RunnerInv

\* A write of the active operation stays within the bound.
LEMMA WriteProtocol ==
  ASSUME ProtocolInv, [L!LedgerNext]_runner, RunnerWrites
  PROVE  ProtocolInv'
<1>1. /\ ws.active # NoOp /\ ws.active[2] >= 0 /\ ws.revision < MaxRevision
      /\ ~L!Changed(ws.active) /\ tree' = Append(tree, ws.active)
      /\ UNCHANGED <<vars, ws, ops, sent, stops>>
      /\ UNCHANGED <<run, view, effects>>
  BY DEF RunnerWrites, L!Write, net, vars
<1>2. /\ tree \in Seq(OpId) /\ ws.active \in OpId
      /\ ws.revision = 1 + Len(tree)
  BY <1>1, LedgerFacts DEF ProtocolInv
<1>3. /\ Len(tree') = Len(tree) + 1 /\ DOMAIN tree' = 1..(Len(tree) + 1)
      /\ \A i \in DOMAIN tree' :
           tree'[i] = IF i \in DOMAIN tree THEN tree[i] ELSE ws.active
  BY <1>1, <1>2
<1>4. WritesFit'
  <2>1. \A i \in DOMAIN tree' : tree'[i][2] >= 0
    BY <1>1, <1>3 DEF ProtocolInv, WritesFit
  <2>2. 1 + Len(tree') <= MaxRevision
    BY <1>1, <1>2, <1>3, BoundAssumption
  <2> QED BY <1>1, <2>1, <2>2 DEF ProtocolInv, WritesFit
<1>5. LedgersMatch' /\ RequestsFit' /\ OwnersStop' /\ StopsFit'
  BY <1>1 DEF ProtocolInv, LedgersMatch, RequestsFit, OwnersStop, StopsFit,
              Dispatched
<1>6. RevisionFits'
  BY <1>1 DEF ProtocolInv, RevisionFits, SettledAtRunner, unsettled
<1> QED BY <1>1, <1>4, <1>5, <1>6, RunnerInv

\* A receipt of the active operation: of the pending effect, or of a system
\* effect, which has changed nothing.
LEMMA SettleProtocol ==
  ASSUME ProtocolInv, [L!LedgerNext]_runner, NEW status \in Outcomes,
         RunnerSettles(status)
  PROVE  ProtocolInv'
<1> DEFINE id == ws.active
           after == ops[id].rev + (IF L!Changed(id) THEN 1 ELSE 0)
<1>1. /\ id # NoOp /\ UNCHANGED <<vars, tree, sent, stops>>
      /\ UNCHANGED <<run, view, effects>>
      /\ ops' = [ops EXCEPT ![id].status = status, ![id].after = after]
      /\ ws' = [ws EXCEPT !.active = NoOp, !.revision = after]
  BY DEF RunnerSettles, L!Settle, net, vars
<1>2. /\ id \in DOMAIN ops /\ id \in OpId /\ ws.exists
      /\ ops[id] \in [epoch : Nat, rev : Nat, status : Settled \cup {"open"},
                      after : Nat]
      /\ ops[id].status = "open" /\ ops[id].rev = ws.revision
      /\ ws.revision = 1 + Len(tree) - (IF L!Changed(id) THEN 1 ELSE 0)
      /\ tree \in Seq(OpId)
      /\ ws \in [exists : BOOLEAN, epoch : Nat, revision : Nat,
                 active : OpId \cup {NoOp}, adopting : BOOLEAN,
                 stopped : BOOLEAN, released : BOOLEAN]
  BY <1>1, LedgerFacts DEF ProtocolInv
<1>3. after = 1 + Len(tree) /\ after \in Nat /\ after <= MaxRevision
  BY <1>2 DEF ProtocolInv, WritesFit
<1>4. id[2] < 0 => after = ws.revision
  <2>1. id[2] < 0 => ~L!Changed(id)
    BY <1>2 DEF L!Changed, ProtocolInv, WritesFit, OpId
  <2> QED BY <1>2, <2>1
<1> HIDE DEF after, id
<1>5. /\ DOMAIN ops' = DOMAIN ops
      /\ \A i \in DOMAIN ops : i # id => ops'[i] = ops[i]
      /\ ops'[id].status = status /\ ops'[id].after = after
      /\ ops'[id].epoch = ops[id].epoch /\ ops'[id].rev = ops[id].rev
  BY <1>1, <1>2
<1>6. /\ ws'.exists /\ ws'.revision = after /\ ws'.stopped = ws.stopped
      /\ ws'.active = NoOp
  BY <1>1, <1>2
<1>7. LedgersMatch'
  BY <1>1, <1>2, <1>5 DEF ProtocolInv, LedgersMatch, Settled
<1>8. RequestsFit' /\ OwnersStop'
  BY <1>1, <1>6 DEF ProtocolInv, RequestsFit, OwnersStop, Dispatched
<1>9. WritesFit'
  BY <1>1, <1>3, <1>5 DEF ProtocolInv, WritesFit
<1>10. StopsFit'
  BY <1>1, <1>2 DEF ProtocolInv, StopsFit, id
<1>11. RevisionFits'
  <2>1. CASE id[2] >= 0
    <3>1. /\ id \in DOMAIN effects /\ effects[id].status \in Unsettled
          /\ id # <<0, 0>>
      BY <1>2 DEF ProtocolInv, LedgersMatch, RunInv, RowsTyped, EffectRow,
                  EffectStatus, Unsettled, Settled
    <3>2. id = run.pending.id
      BY <2>1, <3>1 DEF ProtocolInv, RunInv, LedgerAgrees
    <3>3. run.pending.status = effects[id].status
      BY <3>1, <3>2 DEF ProtocolInv, RunInv, LedgerAgrees, NoEffect
    <3>4. unsettled(run.pending)' /\ SettledAtRunner(run.pending.id)'
      BY <1>1, <1>2, <1>5, <3>1, <3>2, <3>3, OutcomeAssumption
         DEF unsettled, Unsettled, SettledAtRunner
    <3>5. run.revision # 0
      BY <1>2, <2>1, <3>1 DEF ProtocolInv, RevisionFits, OpId
    <3> QED BY <1>1, <1>5, <1>6, <3>2, <3>4, <3>5 DEF RevisionFits
  <2>2. CASE id[2] < 0
    <3>1. run.pending.id[2] >= 0
      BY DEF ProtocolInv, RunInv, ToolEffects, NoEffect
    <3>2. run.pending.id # id
      BY <1>2, <2>2, <3>1 DEF OpId
    <3>3. /\ SettledAtRunner(run.pending.id)'
               <=> SettledAtRunner(run.pending.id)
          /\ SettledAtRunner(run.pending.id) =>
               ops'[run.pending.id] = ops[run.pending.id]
      BY <1>1, <1>5, <3>2 DEF SettledAtRunner
    <3> QED BY <1>1, <1>4, <1>6, <2>2, <3>3
            DEF ProtocolInv, RevisionFits, unsettled
  <2> QED BY <1>2, <2>1, <2>2 DEF OpId
<1> QED BY <1>1, <1>6, <1>7, <1>8, <1>9, <1>10, <1>11, RunnerInv


-----------------------------------------------------------------------------
(* The theorems *)

\* Every step of the protocol preserves the invariant: a commit of the control
\* plane, a request, an answer, a write or a receipt.
LEMMA ProtocolNextInv ==
  ProtocolInv /\ [ProtocolNext]_protocolVars => ProtocolInv'
<1> SUFFICES ASSUME ProtocolInv, [ProtocolNext]_protocolVars
             PROVE  ProtocolInv'
  OBVIOUS
<1>1. [L!LedgerNext]_runner /\ [Next]_vars
  BY ProtocolLedger, ProtocolRun
<1>2. CASE /\ \/ \E w \in Workers : ControlStep(w)
              \/ ApiStep \/ LeaseExpires \/ DeadlinePasses
           /\ UNCHANGED <<runner, net>>
  BY <1>2, ControlProtocol, ApiProtocol
<1>3. CASE \E w \in Workers : SendAny(w)
  BY <1>3, SendProtocol
<1>4. CASE \E m \in sent : Serve(m)
  BY <1>1, <1>4, FenceProtocol, StartProtocol DEF Serve
<1>5. CASE RunnerWrites
  BY <1>1, <1>5, WriteProtocol
<1>6. CASE \E status \in Outcomes : RunnerSettles(status)
  BY <1>1, <1>6, SettleProtocol
<1>7. CASE UNCHANGED protocolVars
  <2>1. UNCHANGED <<runner, net>> /\ UNCHANGED vars
    BY <1>7 DEF protocolVars, vars, runner, net
  <2> QED BY <1>1, <2>1, LeaseProtocol DEF LeaseStep
<1> QED BY <1>2, <1>3, <1>4, <1>5, <1>6, <1>7 DEF ProtocolNext

\* The invariant holds before the run is claimed and the workspace prepared.
LEMMA ProtocolInitInv == ProtocolInit => ProtocolInv
<1> SUFFICES ASSUME ProtocolInit PROVE ProtocolInv
  OBVIOUS
<1>1. /\ run = NewState /\ view = [w \in Workers |-> Idle] /\ effects = << >>
      /\ ws = L!NoWorkspace /\ ops = << >> /\ tree = << >>
      /\ sent = {} /\ stops = {} /\ Init
  BY DEF ProtocolInit, Init, L!LedgerInit
<1>2. RowInv /\ RunInv
  BY <1>1, RowInit, RunInit
<1>3. LP!LedgerInv
  <2>1. NoOp \notin OpId /\ 1..MaxEpoch \subseteq Nat \ {0}
    BY NoOpAssumption, BoundAssumption
  <2>2. LP!LedgerInit => LP!LedgerInv
    BY <2>1, LP!LedgerInitInv
  <2>3. LP!LedgerInit
    BY <1>1 DEF LP!LedgerInit, LP!NoWorkspace, L!NoWorkspace
  <2> QED BY <2>2, <2>3
<1>4. DOMAIN effects = {} /\ DOMAIN ops = {} /\ DOMAIN tree = {}
  BY <1>1
<1>5. /\ run.epoch = 0 /\ run.command = "none" /\ run.revision = 0
      /\ run.status = "queued"
  BY <1>1 DEF NewState
<1>6. LedgersMatch /\ RequestsFit /\ OwnersStop /\ ViewsFit /\ StopsFit
  BY <1>1, <1>4
     DEF LedgersMatch, RequestsFit, OwnersStop, ViewsFit, StopsFit
<1>7. RowFits /\ SystemOpen /\ RevisionFits /\ StoppedFits
  BY <1>4, <1>5, BoundAssumption
     DEF RowFits, SystemOpen, RevisionFits, StoppedFits, Terminal
<1>8. WritesFit
  <2>1. Len(tree) = 0
    BY <1>1
  <2> QED BY <1>4, <2>1, BoundAssumption, RevisionAssumption DEF WritesFit
<1>9. RowsByID
  BY <1>1, <1>4 DEF RowsByID
<1> QED BY <1>2, <1>3, <1>6, <1>7, <1>8, <1>9 DEF ProtocolInv

\* The invariant of the protocol, always.
LEMMA ProtocolAlways == ProtocolSpec => []ProtocolInv
BY ProtocolInitInv, ProtocolNextInv, PTL DEF ProtocolSpec

\* With the evidence the runner gives, whatever was lost, late or repeated, the
\* control plane does only what RunControl allows, so that everything proved of
\* RunControl holds of the protocol.
THEOREM ProtocolImplementsRunControl == ProtocolSpec => Spec
<1>1. ProtocolInit => Init
  BY DEF ProtocolInit
<1>2. ProtocolInv /\ [ProtocolNext]_protocolVars => [Next]_vars
  BY ProtocolRun
<1> QED BY <1>1, <1>2, ProtocolAlways, PTL DEF ProtocolSpec, Spec

\* On the other side of the wire the same steps are those of the operation
\* ledger, which RunnerEngine implements.
THEOREM ProtocolImplementsLedger == ProtocolSpec => L!LedgerSpec
<1>1. ProtocolInit => L!LedgerInit
  BY DEF ProtocolInit
<1>2. ProtocolInv /\ [ProtocolNext]_protocolVars => [L!LedgerNext]_runner
  BY ProtocolLedger
<1> QED BY <1>1, <1>2, ProtocolAlways, PTL
        DEF ProtocolSpec, L!LedgerSpec, L!ledgerVars, runner

\* A run that proceeds or has completed is never wrong about its workspace.
THEOREM SnapshotRevisionTrue == ProtocolSpec => []RevisionAgrees
<1>1. ProtocolInv => RevisionAgrees
  BY DEF ProtocolInv, RevisionFits, RevisionAgrees
<1> QED BY <1>1, ProtocolAlways, PTL

\* The runner accepts only what the database has dispatched, and the database
\* records only what the runner's receipts say.
THEOREM LedgersAgree == ProtocolSpec => []LedgersMatch
<1>1. ProtocolInv => LedgersMatch
  BY DEF ProtocolInv
<1> QED BY <1>1, ProtocolAlways, PTL

\* A finished run has settled every operation, or is stopped at the runner.
LEMMA FinishedIdle ==
  ASSUME ProtocolInv, run.status \in Terminal
  PROVE  /\ ws.active = NoOp
         /\ ws.stopped \/ \A m \in sent : m.rpc = "start" => m.id \in DOMAIN ops
<1>1. CASE run.status = "completed"
  <2>1. run \in State /\ validateState(run)
    BY DEF ProtocolInv, RowInv, Good
  <2>2. /\ run.stage = "stopped" /\ ~unsettled(run.pending)
        /\ run.status \notin Stopping
    BY <1>1, <2>1 DEF validateState, ValidTerminal, Stopping
  <2>3. ASSUME NEW id \in DOMAIN effects, effects[id].status # "planned"
        PROVE  effects[id].status \in Settled
    <3>1. id \in OpId /\ effects[id].status \in Settled \cup Unsettled
      BY <2>3 DEF ProtocolInv, RunInv, RowsTyped, EffectRow, EffectStatus,
                  Unsettled
    <3>2. CASE id[2] < 0
      BY <2>2, <3>2 DEF ProtocolInv, SystemOpen, Stuck, At, StageOf
    <3>3. CASE id[2] >= 0
      <4>1. id # <<0, 0>>
        BY DEF ProtocolInv, RunInv, RowsTyped
      <4>2. ASSUME effects[id].status \in Unsettled PROVE FALSE
        <5>1. id = run.pending.id
          BY <3>3, <4>2 DEF ProtocolInv, RunInv, LedgerAgrees
        <5>2. run.pending.status = effects[id].status
          BY <4>1, <5>1 DEF ProtocolInv, RunInv, LedgerAgrees, NoEffect
        <5> QED BY <2>2, <4>2, <5>2 DEF unsettled, Unsettled
      <4> QED BY <3>1, <4>2
    <3> QED BY <3>1, <3>2, <3>3 DEF OpId
  <2>4. ASSUME NEW id \in DOMAIN ops PROVE ops[id].status # "open"
    BY <2>3 DEF ProtocolInv, LedgersMatch, Settled
  <2>5. ws.active = NoOp
    BY <2>4, LedgerFacts DEF ProtocolInv
  <2>6. ASSUME NEW m \in sent, m.rpc = "start" PROVE m.id \in DOMAIN ops
    BY <2>3, <2>6 DEF ProtocolInv, RequestsFit, Dispatched, LedgersMatch
  <2> QED BY <2>5, <2>6
<1>2. CASE run.status # "completed"
  <2>1. \/ ws.stopped /\ ws.active = NoOp
        \/ DOMAIN ops = {} /\ \A m \in sent : m.rpc # "start"
    BY <1>2 DEF ProtocolInv, StoppedFits, StopsFit
  <2>2. DOMAIN ops = {} => ws.active = NoOp
    BY LedgerFacts DEF ProtocolInv
  <2> QED BY <2>1, <2>2
<1> QED BY <1>1, <1>2

\* A finished run is finished at the runner: no late request starts anything.
THEOREM FinishedRunsFrozen == ProtocolSpec => TerminalFrozen
<1> DEFINE Frozen ==
      run.status \in Terminal =>
        /\ ws.active = NoOp
        /\ DOMAIN ops' = DOMAIN ops /\ tree' = tree
<1>1. ASSUME ProtocolInv, [ProtocolNext]_protocolVars, run.status \in Terminal
      PROVE  ws.active = NoOp /\ DOMAIN ops' = DOMAIN ops /\ tree' = tree
  <2>1. /\ ws.active = NoOp
        /\ ws.stopped \/ \A m \in sent : m.rpc = "start" => m.id \in DOMAIN ops
    BY <1>1, FinishedIdle
  <2>2. ~RunnerWrites /\ \A status \in Outcomes : ~RunnerSettles(status)
    BY <2>1 DEF RunnerWrites, RunnerSettles
  <2>3. ASSUME NEW m \in sent, Serve(m) PROVE UNCHANGED <<ops, tree>>
    <3>1. ~ServeStart(m)
      BY <2>1 DEF ServeStart, L!Accept
    <3> QED BY <2>3, <3>1
            DEF Serve, ServePrepare, ServeFence, ServeReopen, ServeStopped,
                ServeAbsent, L!Prepare, L!Fence, L!Reopen, runner
  <2>4. ASSUME NEW w \in Workers, SendAny(w) PROVE UNCHANGED <<ops, tree>>
    BY <2>4 DEF SendAny, SendPrepare, SendAdopt, SendStart, SendStop,
                SendSystemStart, Send, runner
  <2>5. UNCHANGED <<ops, tree>>
    BY <1>1, <2>2, <2>3, <2>4 DEF ProtocolNext, protocolVars, runner
  <2> QED BY <2>1, <2>5
<1>2. ProtocolInv /\ [ProtocolNext]_protocolVars => [Frozen]_protocolVars
  BY <1>1
<1> QED BY <1>2, ProtocolAlways, PTL DEF ProtocolSpec, TerminalFrozen
=============================================================================

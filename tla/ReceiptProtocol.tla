-------------------------- MODULE ReceiptProtocol --------------------------
(***************************************************************************)
(* RunControl and OperationLedger together: the worker of                  *)
(* internal/application/driver.go learns about the workspace only from the *)
(* runner, over RPCs it may lose, repeat or outlive.                       *)
(*                                                                         *)
(* A worker sends a request only while LeaseProof grants it (grant), but   *)
(* the request, with its signed grant, may be served at any later time and *)
(* more than once: after the worker has crashed, after its lease was given *)
(* up early, after the run is done.  What a worker reports is then what the*)
(* ledger recorded, never what the request asked for.                      *)
(***************************************************************************)
EXTENDS RunControl

CONSTANT NoOp  \* the empty active_operation of the workspace

ASSUME NoOpAssumption == NoOp \notin OpId
ASSUME RevisionAssumption == MaxRevision > 0  \* a workspace starts at 1

VARIABLES ws, ops, tree,  \* the runner's ledger, see OperationLedger
          sent,           \* requests on their way, served or not
          stops           \* stop receipts of AdoptWorkspace, StopWorkspace

runner == <<ws, ops, tree>>
net == <<sent, stops>>
protocolVars == <<run, view, effects, approvals, alloc, late, ws, ops, tree,
                  sent, stops>>

L == INSTANCE OperationLedger WITH OpIds <- OpId, Epochs <- 1..MaxEpoch

ProtocolInit ==
  /\ Init
  /\ L!LedgerInit
  /\ sent = {} /\ stops = {}

-----------------------------------------------------------------------------
(* Requests *)

Request(rpc, id, e, rev) == [rpc |-> rpc, id |-> id, epoch |-> e, rev |-> rev]

\* LeaseProof: owner, epoch and an unexpired lease in a state that is active.
Granted(w) ==
  /\ view[w] # Idle
  /\ run.owner = w /\ run.epoch = view[w].epoch /\ LeaseValid(run)
  /\ run.status \in {"running", "cancel_requested", "needs_reconciliation"}

Send(w, m) ==
  /\ Granted(w)
  /\ sent' = sent \cup {m}
  /\ UNCHANGED <<vars, runner, stops>>

\* operation: inspection found nothing, this is not a reconciliation, and the
\* intent is of this worker's own epoch.
CanStart(w, id, e) ==
  /\ id \notin DOMAIN ops
  /\ view[w].command # "inspect_effect"
  /\ e = view[w].epoch

\* The tool operation of an effect the row shows as dispatched.
SendStart(w) ==
  LET e == view[w].pending
  IN /\ Driving(w, "execute_effect") \/ Driving(w, "inspect_effect")
     /\ CanStart(w, e.id, e.epoch)
     /\ Send(w, Request("start", e.id, view[w].epoch, e.rev))

\* systemOperation, once PlanSystemEffect has returned the row.
SendSystemStart(w, ordinal) ==
  LET id == SystemId(view[w], ordinal)
  IN /\ view[w] # Idle /\ id \in DOMAIN effects
     /\ \/ view[w].command = "initialize_workspace" /\ ordinal = -1
           /\ ws.exists
        \/ view[w].command = "verify" /\ ordinal \in {-2, -3}
        \/ view[w].command = "finalize" /\ ordinal = -4
     /\ CanStart(w, id, effects[id].epoch)
     /\ Send(w, Request("start", id, view[w].epoch, effects[id].rev))

SendPrepare(w) ==
  /\ Driving(w, "initialize_workspace")
  /\ Send(w, Request("prepare", NoOp, view[w].epoch, 0))

\* AdoptWorkspace, also when PrepareWorkspace was fenced by an older epoch.
SendAdopt(w) ==
  /\ \/ Driving(w, "adopt_workspace")
     \/ Driving(w, "initialize_workspace") /\ ws.exists
          /\ ws.epoch # view[w].epoch
  /\ Send(w, Request("adopt", NoOp, view[w].epoch, 0))

SendStop(w) ==
  /\ Driving(w, "stop_execution")
  /\ Send(w, Request("stop", NoOp, view[w].epoch, 0))

-----------------------------------------------------------------------------
(* The runner serves a request *)

Stopped(m, rev) == [rpc |-> m.rpc, epoch |-> m.epoch, revision |-> rev]

ServePrepare(m) ==
  /\ m.rpc = "prepare" /\ L!Prepare(m.epoch)
  /\ UNCHANGED <<vars, net>>

ServeStart(m) ==
  /\ m.rpc = "start" /\ L!Accept(m.id, m.epoch, m.rev)
  /\ UNCHANGED <<vars, net>>

ServeFence(m) ==
  /\ m.rpc \in {"adopt", "stop"} /\ L!Fence(m.epoch, m.rpc = "stop")
  /\ UNCHANGED <<vars, net>>

\* The receipts of stopAndAdopt, when nothing is active any more.
ServeReopen(m) ==
  /\ m.rpc = "adopt" /\ ws.adopting /\ L!Reopen(m.epoch)
  /\ stops' = stops \cup {Stopped(m, ws.revision)}
  /\ UNCHANGED <<vars, sent>>

ServeStopped(m) ==
  /\ m.rpc = "stop" /\ ws.stopped
  /\ ws.epoch = m.epoch /\ ws.active = NoOp
  /\ stops' = stops \cup {Stopped(m, ws.revision)}
  /\ UNCHANGED <<vars, runner, sent>>

\* ErrNotFound of StopWorkspace: there is no workspace to stop.
ServeAbsent(m) ==
  /\ m.rpc = "stop" /\ ~ws.exists
  /\ stops' = stops \cup {Stopped(m, 0)}
  /\ UNCHANGED <<vars, runner, sent>>

\* Tools change the content, up to the bound on revisions; checks and diffs only
\* read it.
RunnerWrites ==
  /\ ws.active # NoOp /\ ws.active[2] >= 0 /\ ws.revision < MaxRevision
  /\ L!Write(ws.active)
  /\ UNCHANGED <<vars, net>>

RunnerSettles(status) ==
  /\ ws.active # NoOp
  /\ L!Settle(ws.active, status)
  /\ UNCHANGED <<vars, net>>

-----------------------------------------------------------------------------
(* Reports backed by what the runner answered *)

SettledAtRunner(id) == id \in DOMAIN ops /\ ops[id].status \in Settled

\* Mutation of receipt: the driver counts on its own idea of the outcome.
receiptAssumed(id) ==
  [id |-> id, epoch |-> ops[id].epoch, status |-> "succeeded",
   before |-> ops[id].rev, after |-> ops[id].after]

\* Mutation of receipt: the revision before the operation is reported.
receiptBefore(id) ==
  [id |-> id, epoch |-> ops[id].epoch, status |-> ops[id].status,
   before |-> ops[id].rev, after |-> ops[id].rev]

receipt(id) ==
  [id |-> id, epoch |-> ops[id].epoch, status |-> ops[id].status,
   before |-> ops[id].rev, after |-> ops[id].after]

StopReceipt(w, rpc) ==
  {s \in stops : s.rpc = rpc /\ view[w] # Idle /\ s.epoch = view[w].epoch}

\* PrepareWorkspace returned the workspace under this epoch.
ReportReady(w) ==
  /\ view[w] # Idle
  /\ ws.exists /\ ws.epoch = view[w].epoch /\ ~ws.released /\ ~ws.stopped
  /\ WorkspaceReady(w, ws.revision)

ReportAdopted(w) ==
  \E s \in StopReceipt(w, "adopt") : WorkspaceAdopted(w, s.revision)

ReportCompleted(w) ==
  /\ SettledAtRunner(run.pending.id)
  /\ EffectCompleted(w, receipt(run.pending.id))

\* A stopping run inspects its effect after the workspace has been stopped.
ReportReconciled(w) ==
  /\ SettledAtRunner(run.pending.id)
  /\ Driving(w, "stop_execution") => StopReceipt(w, "stop") # {}
  /\ Reconciled(w, receipt(run.pending.id))

\* Mutation of ReportStopped: the receipt of any earlier request will do.
ReportStoppedStale(w) ==
  \E s \in stops : CancellationConfirmed(w, s.revision)

\* The absence of a workspace counts only for a run that never had one.
ReportStopped(w) ==
  \E s \in StopReceipt(w, "stop") :
    /\ s.revision = 0 => view[w].revision = 0
    /\ CancellationConfirmed(w, s.revision)

ReportSystemSettled(w, id) ==
  /\ SettledAtRunner(id)
  /\ SettleSystemEffect(w, receipt(id))

-----------------------------------------------------------------------------
Serve(m) ==
  \/ ServePrepare(m) \/ ServeStart(m) \/ ServeFence(m)
  \/ ServeReopen(m) \/ ServeStopped(m) \/ ServeAbsent(m)

SendAny(w) ==
  \/ SendPrepare(w) \/ SendAdopt(w) \/ SendStart(w) \/ SendStop(w)
  \/ \E ordinal \in SystemOps : SendSystemStart(w, ordinal)

\* Everything RunControl does, with the runner's evidence in place of any.
ControlStep(w) ==
  \/ Claim(w) \/ Refresh(w) \/ Crash(w) \/ Defer(w)
  \/ ~ws.exists /\ RequeueCapacity(w)
  \/ ReportReady(w) \/ ReportAdopted(w)
  \/ \E stuck \in BOOLEAN : ContextBuilt(w, stuck)
  \/ \E cost \in Costs, finish \in BOOLEAN : ModelCompleted(w, cost, finish)
  \/ BudgetReached(w)
  \/ \E flags \in Batches : ToolsValidated(w, flags)
  \/ ReportCompleted(w) \/ EffectUncertain(w) \/ ReportReconciled(w)
  \/ ResultsIngested(w)
  \/ \E e \in Evidence : VerificationCompleted(w, e)
  \/ Finalized(w)
  \/ ReportStopped(w) \/ Failed(w)
  \/ \E ordinal \in SystemOps : PlanSystemEffect(w, ordinal)
  \/ \E id \in DOMAIN ops : id[2] < 0 /\ ReportSystemSettled(w, id)

ProtocolNext ==
  \/ /\ \/ \E w \in Workers : ControlStep(w)
        \/ ApiStep \/ LeaseExpires \/ DeadlinePasses
     /\ UNCHANGED <<runner, net>>
  \/ \E w \in Workers : SendAny(w)
  \/ \E m \in sent : Serve(m)
  \/ RunnerWrites
  \/ \E status \in Outcomes : RunnerSettles(status)

ProtocolSpec == ProtocolInit /\ [][ProtocolNext]_protocolVars

-----------------------------------------------------------------------------
(* Properties *)

\* A run that proceeds or has completed is never wrong about its workspace: whatever request was
\* lost, late or served twice, the revision in the snapshot is the runner's,
\* unless an operation is unsettled or the workspace is yet to be adopted.
RevisionAgrees ==
  /\ run.status \in {"running", "waiting_approval", "queued", "completed"}
  /\ run.revision > 0 /\ run.stage # "adopt_workspace"
  /\ ~unsettled(run.pending)
  => ws.exists /\ ws.revision = run.revision

\* The runner has accepted only intents the database had committed before, at
\* the epoch and revision committed there, and a settled row of the database
\* has the outcome of the runner's receipt.
LedgersMatch ==
  /\ \A id \in DOMAIN ops :
       /\ id \in DOMAIN effects /\ effects[id].status # "planned"
       /\ ops[id].epoch = effects[id].epoch /\ ops[id].rev = effects[id].rev
  /\ \A id \in DOMAIN effects :
       effects[id].status \in Settled =>
         id \in DOMAIN ops /\ ops[id].status = effects[id].status

\* A finished run is finished at the runner too: nothing is active, and no late
\* request starts anything or changes the content it finished with.
TerminalFrozen ==
  [][run.status \in Terminal =>
       /\ ws.active = NoOp
       /\ DOMAIN ops' = DOMAIN ops /\ tree' = tree]_protocolVars

\* What the operation protocol of docs/adr/0001 says in step 6: an intent that
\* inspection proves was not accepted (and no longer can be: its epoch is
\* fenced) is retried under the same operation ID (Driver.operation).
UnacceptedRetried ==
  \A w \in Workers :
    /\ Granted(w) /\ view[w] = run /\ Driving(w, "inspect_effect")
    /\ ws.epoch = run.epoch /\ ~ws.adopting /\ run.pending.epoch < ws.epoch
    /\ run.pending.id \notin DOMAIN ops
    => CanStart(w, run.pending.id, run.pending.epoch)
=============================================================================

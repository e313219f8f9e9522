---------------------------- MODULE RunnerEngine ----------------------------
(***************************************************************************)
(* One workspace of the runner: internal/runner/engine.go over the SQLite  *)
(* journal of journal.go, with the Docker backend of internal/sandbox.     *)
(*                                                                         *)
(* Durable: the journal (wsRow, opRow), the files and the containers.      *)
(* Volatile: the RPC handlers (calls), the executor goroutine and the      *)
(* thread that holds the workspace's file lock.  The lock is exclusive, so *)
(* "holder" is the local state of whichever thread has it.  A crash clears *)
(* what is volatile; containers go on, and so do requests the Docker       *)
(* daemon has already received.                                            *)
(*                                                                         *)
(* A request may arrive at any time, with any epoch and any number of      *)
(* times: this covers delay, duplication, loss and retries of RPCs.  Read- *)
(* only answers, refused grants and errors before the journal leave no     *)
(* trace and are not actions.                                              *)
(***************************************************************************)
EXTENDS Integers, Sequences, FiniteSets

CONSTANTS Ops,       \* operation IDs
          KindOf,    \* KindOf[op]: "read", "patch" or "command"
          None,      \* no operation, no lock holder, no call
          Clients,   \* RPC handlers of multi-step requests
          Epochs,    \* lease epochs requests carry
          MaxCrashes \* bound: how often the runner process dies

ASSUME EngineAssumption ==
  /\ None \notin Ops
  /\ KindOf \in [Ops -> {"read", "patch", "command"}]
  /\ Epochs \subseteq Nat \ {0}
  /\ MaxCrashes \in Nat

VARIABLES wsRow,    \* the workspaces row
          opRow,    \* operations rows: the accepted IDs -> row
          files,    \* the workspace content: the writes that made it
          job,      \* job[op]: the container named after the operation
          holder,   \* the thread that holds the file lock
          calls,    \* multi-step RPCs under way
          up,       \* the process: "up", "closing" or "down"
          crashes

vars == <<wsRow, opRow, files, job, holder, calls, up, crashes>>
journal == <<wsRow, opRow>>

Terminal == {"succeeded", "failed", "cancelled"}

isProcess(op) == KindOf[op] = "command"

-----------------------------------------------------------------------------
(* Files and containers *)

\* A write is [op, part]: a patch of several files, or a command, may have
\* changed some of what it changes, or all of it.
Touched(op) == \E i \in DOMAIN files : files[i].op = op
Patched(op) == \E i \in DOMAIN files : files[i] = [op |-> op, part |-> "full"]

\* The hash comparisons of the content with BeforeHash and ExpectedAfterHash:
\* the operation's own writes are the only ones since it was reserved.
IsBefore(op) == ~Touched(op)
IsExpectedAfter(op) == KindOf[op] = "patch" /\ Patched(op)

WritePartly(op) == files' = Append(files, [op |-> op, part |-> "partial"])
WriteRest(op) ==
  files' = [i \in DOMAIN files |->
              IF files[i].op = op THEN [op |-> op, part |-> "full"]
              ELSE files[i]]

\* What Docker.Inspect reports of a container.
Found(op) == job[op] \in {"created", "starting", "running", "ok", "bad"}
Started(op) == job[op] \in {"running", "ok", "bad"}
Exited(op) == job[op] \in {"ok", "bad"}

\* The outcomes of a container that exited by itself: without a complete
\* capture of its output a successful exit counts as failed (publishLogs).
ExitOutcomes(op) == IF job[op] = "ok" THEN {"succeeded", "failed"}
                    ELSE {"failed"}

\* The daemon acts on requests it has received, whoever still waits for them.
DaemonCreates(op) ==
  /\ job[op] = "creating" /\ job' = [job EXCEPT ![op] = "created"]
  /\ UNCHANGED <<wsRow, opRow, files, holder, calls, up, crashes>>

DaemonStarts(op) ==
  /\ job[op] = "starting" /\ job' = [job EXCEPT ![op] = "running"]
  /\ UNCHANGED <<wsRow, opRow, files, holder, calls, up, crashes>>

\* The command writes to the mounted workspace while it runs, and exits.
JobWrites(op) ==
  /\ job[op] = "running" /\ ~Touched(op)
  /\ WritePartly(op)
  /\ UNCHANGED <<wsRow, opRow, job, holder, calls, up, crashes>>

JobExits(op, code) ==
  /\ job[op] = "running" /\ job' = [job EXCEPT ![op] = code]
  /\ UNCHANGED <<wsRow, opRow, files, holder, calls, up, crashes>>

-----------------------------------------------------------------------------
(* The journal's transactions *)

NoRow == [exists |-> FALSE, epoch |-> 0, revision |-> 0, active |-> None,
          adopting |-> FALSE, stopped |-> FALSE, released |-> FALSE]

markRunning(op) ==
  opRow' = [opRow EXCEPT
              ![op].status = IF @ = "prepared" THEN "running" ELSE @,
              ![op].dispatched = @ \/ opRow[op].status = "prepared"]

markUnknown(op) ==
  opRow' = [opRow EXCEPT ![op].status = IF @ \in Terminal THEN @
                                        ELSE "unknown"]

WithCancel(rows, op) ==
  IF op \in DOMAIN rows /\ rows[op].status \notin Terminal
  THEN [rows EXCEPT ![op].cancel = TRUE] ELSE rows

\* Mutation of AfterRevision: every receipt moves the revision.
NextRevision(op) == opRow[op].rev + 1

\* AfterRevision of complete: one more if the content changed.
AfterRevision(op) == opRow[op].rev + (IF IsBefore(op) THEN 0 ELSE 1)

CanFinish(op) == wsRow.active = op /\ AfterRevision(op) >= wsRow.revision

finish(op, status) ==
  /\ opRow' = [opRow EXCEPT ![op].status = status,
                            ![op].after = AfterRevision(op)]
  /\ wsRow' = [wsRow EXCEPT !.active = None, !.revision = AfterRevision(op)]

-----------------------------------------------------------------------------
(* Requests that need no second step *)

PrepareWorkspace(e) ==
  /\ up = "up" /\ holder = None
  /\ ~wsRow.exists
  /\ wsRow' = [NoRow EXCEPT !.exists = TRUE, !.epoch = e, !.revision = 1]
  /\ UNCHANGED <<opRow, files, job, holder, calls, up, crashes>>

\* StartOperation takes the lock, reserves and hands the lock to the executor;
\* a process that is closing leaves the prepared record behind.
StartOperation(op, e, rev) ==
  /\ up # "down" /\ holder = None
  /\ wsRow.exists /\ wsRow.epoch = e
  /\ ~wsRow.adopting /\ ~wsRow.released /\ ~wsRow.stopped
  /\ op \notin DOMAIN opRow
  /\ wsRow.active = None /\ wsRow.revision = rev
  /\ wsRow' = [wsRow EXCEPT !.active = op]
  /\ opRow' = [o \in DOMAIN opRow \cup {op} |->
                 IF o = op
                 THEN [epoch |-> e, rev |-> rev, status |-> "prepared",
                       after |-> 0, cancel |-> FALSE, dispatched |-> FALSE,
                       intent |-> FALSE]
                 ELSE opRow[o]]
  /\ holder' = IF up = "closing" THEN None
               ELSE [kind |-> "exec", op |-> op, pc |-> "spawned",
                     status |-> "none", ended |-> FALSE]
  /\ UNCHANGED <<files, job, calls, up, crashes>>

\* ReleaseWorkspace removes the containers of the settled operations, then
\* closes the workspace for good.
ReleaseWorkspace(e) ==
  /\ up = "up" /\ holder = None
  /\ wsRow.exists /\ wsRow.epoch = e /\ wsRow.active = None
  /\ job' = [op \in Ops |-> IF Exited(op) THEN "removed" ELSE job[op]]
  /\ wsRow' = [wsRow EXCEPT !.released = TRUE, !.adopting = TRUE]
  /\ UNCHANGED <<opRow, files, holder, calls, up, crashes>>

-----------------------------------------------------------------------------
(* The executor goroutine: execute, complete, unknown *)

Exec(op, pc) ==
  /\ up # "down"
  /\ holder # None /\ holder.kind = "exec" /\ holder.op = op /\ holder.pc = pc

Goto(pc) == holder' = [holder EXCEPT !.pc = pc]
Completing(status) == holder' = [holder EXCEPT !.pc = "complete",
                                               !.status = status]

\* unknown: the row keeps the workspace closed, the executor ends.
GiveUp(op) == markUnknown(op) /\ holder' = None

MarkRunning(op) ==
  /\ Exec(op, "spawned")
  /\ markRunning(op)
  /\ Goto("marked")
  /\ UNCHANGED <<wsRow, files, job, calls, up, crashes>>

\* A cancellation requested before dispatch is honoured without any effect.
CheckCancel(op) ==
  /\ Exec(op, "marked")
  /\ IF opRow[op].cancel THEN Completing("cancelled")
     ELSE Goto(IF isProcess(op) THEN "create" ELSE "file")
  /\ UNCHANGED <<wsRow, opRow, files, job, calls, up, crashes>>

\* fileTool: a read succeeds or fails; a patch replaces file after file and
\* fails between two of them when its context is done.
FileTool(op) ==
  /\ Exec(op, "file")
  /\ \/ Completing("failed") /\ UNCHANGED files
     \/ KindOf[op] = "read" /\ Completing("succeeded") /\ UNCHANGED files
     \/ KindOf[op] = "patch" /\ ~Touched(op) /\ WritePartly(op)
          /\ UNCHANGED holder
     \/ KindOf[op] = "patch" /\ Touched(op) /\ ~Patched(op) /\ WriteRest(op)
          /\ UNCHANGED holder
     \/ KindOf[op] = "patch" /\ Patched(op) /\ Completing("succeeded")
          /\ UNCHANGED files
  /\ UNCHANGED <<wsRow, opRow, job, calls, up, crashes>>

\* A command whose arguments do not decode fails without a container.
\* Docker.Start: create the named container ...
CreateContainer(op) ==
  /\ Exec(op, "create") /\ job[op] = "none"
  /\ \/ job' = [job EXCEPT ![op] = "creating"] /\ Goto("created")
          /\ UNCHANGED opRow
     \/ Completing("failed") /\ UNCHANGED <<opRow, job>>
     \/ GiveUp(op) /\ UNCHANGED job
  /\ UNCHANGED <<wsRow, files, calls, up, crashes>>

\* ... record the intent to start it, unless a cancellation came first ...
BeforeStart(op) ==
  /\ Exec(op, "created") /\ job[op] = "created"
  /\ IF opRow[op].status = "running" /\ ~opRow[op].cancel
     THEN /\ opRow' = [opRow EXCEPT ![op].intent = TRUE]
          /\ Goto("start")
     ELSE GiveUp(op)
  /\ UNCHANGED <<wsRow, files, job, calls, up, crashes>>

\* ... and start it.
StartContainer(op) ==
  /\ Exec(op, "start")
  /\ job' = [job EXCEPT ![op] = "starting"]
  /\ Goto("wait")
  /\ UNCHANGED <<wsRow, opRow, files, calls, up, crashes>>

\* A Docker command fails or times out: the outcome stays unknown.
DockerFails(op) ==
  /\ Exec(op, "created") \/ Exec(op, "start") \/ Exec(op, "wait")
  /\ GiveUp(op)
  /\ UNCHANGED <<wsRow, files, job, calls, up, crashes>>

JobDone(op) ==
  /\ Exec(op, "wait") /\ Exited(op)
  /\ \E status \in ExitOutcomes(op) : Completing(status)
  /\ UNCHANGED <<wsRow, opRow, files, job, calls, up, crashes>>

\* Mutation of ContextEnds: only a closing runner reacts.
ContextEndsClosing(op) ==
  /\ Exec(op, "wait") /\ holder.ended /\ up = "closing"
  /\ GiveUp(op)
  /\ UNCHANGED <<wsRow, files, job, calls, up, crashes>>

\* The context ended: a closing runner detaches from the job, otherwise the
\* job is killed and that is its outcome.
ContextEnds(op) ==
  /\ Exec(op, "wait") /\ holder.ended
  /\ IF up = "closing" THEN GiveUp(op) /\ UNCHANGED job
     ELSE /\ job[op] = "running"
          /\ job' = [job EXCEPT ![op] = "bad"]
          /\ Completing("cancelled")
          /\ UNCHANGED opRow
  /\ UNCHANGED <<wsRow, files, calls, up, crashes>>

\* Mutation of Complete: a partly applied patch is settled as failed.
CompletePartly(op) ==
  /\ Exec(op, "complete")
  /\ \/ CanFinish(op) /\ finish(op, holder.status) /\ holder' = None
     \/ GiveUp(op) /\ UNCHANGED wsRow
  /\ UNCHANGED <<files, job, calls, up, crashes>>

\* complete: publish the receipt and commit it, or leave the row unknown.  A
\* patch that failed between two files is never settled.
Complete(op) ==
  /\ Exec(op, "complete")
  /\ \/ /\ \/ KindOf[op] # "patch" \/ holder.status = "succeeded"
           \/ IsBefore(op) \/ IsExpectedAfter(op)
        /\ CanFinish(op) /\ finish(op, holder.status)
        /\ holder' = None
     \/ GiveUp(op) /\ UNCHANGED wsRow
  /\ UNCHANGED <<files, job, calls, up, crashes>>

\* The executor's context is done: cancelled or past its deadline.
Ended == [holder EXCEPT !.ended = TRUE]

\* The request's deadline passes.
Deadline ==
  /\ holder # None /\ holder.kind = "exec" /\ ~holder.ended
  /\ holder' = Ended
  /\ UNCHANGED <<wsRow, opRow, files, job, calls, up, crashes>>

-----------------------------------------------------------------------------
(* Inspect, cancel, adopt and stop *)

\* A call keeps the epoch it has to compare again (adopt, stop).
NoCall == [rpc |-> "none", op |-> None, epoch |-> 0, pc |-> "idle"]

Live(op) == holder # None /\ holder.kind = "exec" /\ holder.op = op

CancelsJob(rpc) == rpc # "inspect"

\* AdoptWorkspace and StopWorkspace commit the fence before they wait.
FenceWorkspace(c, rpc, e) ==
  /\ up = "up" /\ calls[c] = NoCall /\ rpc \in {"adopt", "stop"}
  /\ wsRow.exists /\ e >= wsRow.epoch /\ ~wsRow.released
  /\ wsRow.stopped => rpc = "stop"
  /\ wsRow' = [wsRow EXCEPT !.epoch = e, !.adopting = TRUE,
                            !.stopped = @ \/ rpc = "stop"]
  /\ calls' = [calls EXCEPT ![c] = [rpc |-> rpc, op |-> None, epoch |-> e,
                                    pc |-> "fenced"]]
  /\ UNCHANGED <<opRow, files, job, holder, up, crashes>>

\* InspectOperation of an operation no local executor runs.
InspectOperation(c, op, e) ==
  /\ up = "up" /\ calls[c] = NoCall
  /\ op \in DOMAIN opRow /\ e >= wsRow.epoch
  /\ opRow[op].status \notin Terminal /\ ~Live(op)
  /\ calls' = [calls EXCEPT ![c] = [rpc |-> "inspect", op |-> op,
                                    epoch |-> 0, pc |-> "lock"]]
  /\ UNCHANGED <<wsRow, opRow, files, job, holder, up, crashes>>

\* CancelOperation fences an older owner, but never reopens.
CancelOperation(c, op, e) ==
  /\ up = "up" /\ calls[c] = NoCall
  /\ op \in DOMAIN opRow /\ e >= wsRow.epoch
  /\ opRow[op].status \notin Terminal
  /\ e > wsRow.epoch => ~wsRow.released /\ ~wsRow.stopped
  /\ wsRow' = IF e > wsRow.epoch
              THEN [wsRow EXCEPT !.epoch = e, !.adopting = TRUE] ELSE wsRow
  /\ calls' = [calls EXCEPT ![c] = [rpc |-> "cancel", op |-> op,
                                    epoch |-> 0, pc |-> "fenced"]]
  /\ UNCHANGED <<opRow, files, job, holder, up, crashes>>

\* requestCancel of the operation in the way, and the executor's context.
RequestCancel(c) ==
  LET target == IF calls[c].rpc = "cancel" THEN calls[c].op
                ELSE wsRow.active
  IN /\ up # "down" /\ calls[c].pc = "fenced"
     /\ IF calls[c].rpc # "cancel" /\ wsRow.epoch # calls[c].epoch
        THEN calls' = [calls EXCEPT ![c] = NoCall]
             /\ UNCHANGED <<opRow, holder>>
        ELSE /\ opRow' = WithCancel(opRow, target)
             /\ holder' = IF Live(target) THEN Ended ELSE holder
             /\ calls' = [calls EXCEPT ![c].pc = "lock"]
     /\ UNCHANGED <<wsRow, files, job, up, crashes>>

\* The handler gets the lock; adopt and stop check their epoch again and take
\* the operation that is active now.
TakeLock(c) ==
  LET call == calls[c]
      op == IF call.rpc \in {"adopt", "stop"} THEN wsRow.active ELSE call.op
  IN /\ up # "down" /\ call.pc = "lock" /\ holder = None
     /\ \/ /\ call.rpc \in {"adopt", "stop"}
                => up = "up" /\ wsRow.epoch = call.epoch
           /\ holder' = [kind |-> call.rpc, op |-> op, status |-> "none",
                         epoch |-> call.epoch,
                         pc |-> IF op = None THEN "settled" ELSE "reconcile"]
        \/ /\ call.rpc \in {"adopt", "stop"}
           /\ up = "closing" \/ wsRow.epoch # call.epoch
           /\ UNCHANGED holder
     /\ calls' = [calls EXCEPT ![c] = NoCall]
     /\ UNCHANGED <<wsRow, opRow, files, job, up, crashes>>

Recon(pc) == /\ up # "down" /\ holder # None /\ holder.kind # "exec"
             /\ holder.pc = pc

\* reconcileLocked of an operation whose dispatch never began, or of a file
\* tool, which the content decides.
ReconcileFiles ==
  LET op == holder.op
  IN /\ Recon("reconcile")
     /\ \/ /\ opRow[op].status \in Terminal
           /\ Goto("settled") /\ UNCHANGED opRow
        \/ /\ opRow[op].status \notin Terminal
           /\ ~opRow[op].dispatched
           /\ CancelsJob(holder.kind) \/ opRow[op].cancel
           /\ Completing("cancelled") /\ UNCHANGED opRow
        \/ /\ opRow[op].status \notin Terminal /\ ~isProcess(op)
           /\ opRow[op].dispatched
                \/ ~(CancelsJob(holder.kind) \/ opRow[op].cancel)
           /\ \/ IsExpectedAfter(op) /\ Completing("succeeded")
                   /\ UNCHANGED opRow
              \/ IsBefore(op) /\ Completing("failed") /\ UNCHANGED opRow
              \/ ~IsExpectedAfter(op) /\ ~IsBefore(op) /\ GiveUp(op)
     /\ UNCHANGED <<wsRow, files, job, calls, up, crashes>>

\* Mutation of ReconcileJob: a container that was not seen to start is taken for
\* one that never will.
ReconcileAsNeverStarted(kill) ==
  LET op == holder.op
  IN /\ Recon("reconcile") /\ isProcess(op)
     /\ opRow[op].status \notin Terminal
     /\ IF Started(op)
        THEN /\ job' = [job EXCEPT ![op] = IF @ = "running" THEN "bad" ELSE @]
             /\ Completing("failed")
        ELSE Completing("cancelled") /\ UNCHANGED job
     /\ UNCHANGED <<wsRow, opRow, files, calls, up, crashes>>

\* reconcileLocked of a process: what its container shows, and the kill or the
\* removal that a cancellation or a passed deadline (kill = TRUE) adds.
ReconcileJob(kill) ==
  LET op == holder.op
      must == CancelsJob(holder.kind) \/ opRow[op].cancel
  IN /\ Recon("reconcile") /\ isProcess(op)
     /\ opRow[op].status \notin Terminal
     /\ opRow[op].dispatched \/ ~must
     /\ must => kill
     /\ \/ /\ ~Found(op) /\ GiveUp(op) /\ UNCHANGED job
        \/ /\ Found(op) /\ ~Started(op) /\ kill /\ ~opRow[op].intent
           /\ job' = [job EXCEPT ![op] = "removed"]
           /\ Completing("cancelled") /\ UNCHANGED opRow
        \/ /\ Found(op) /\ ~Started(op) /\ (kill => opRow[op].intent)
           /\ GiveUp(op) /\ UNCHANGED job
        \/ /\ job[op] = "running" /\ kill
           /\ job' = [job EXCEPT ![op] = "bad"]
           /\ Completing("cancelled") /\ UNCHANGED opRow
        \/ /\ job[op] = "running" /\ ~kill /\ UNCHANGED job
           /\ GiveUp(op) \/ (holder' = None /\ UNCHANGED opRow)
        \/ /\ Exited(op)
           /\ \E status \in ExitOutcomes(op) : Completing(status)
           /\ UNCHANGED <<opRow, job>>
     /\ UNCHANGED <<wsRow, files, calls, up, crashes>>

\* The backend does not answer.
ReconcileFails ==
  /\ Recon("reconcile") /\ isProcess(holder.op)
  /\ opRow[holder.op].status \notin Terminal
  /\ \/ opRow[holder.op].dispatched
     \/ ~CancelsJob(holder.kind) /\ ~opRow[holder.op].cancel
  /\ GiveUp(holder.op)
  /\ UNCHANGED <<wsRow, files, job, calls, up, crashes>>

\* complete called from reconcileLocked.
CompleteReconciled ==
  LET op == holder.op
  IN /\ Recon("complete")
     /\ \/ /\ \/ KindOf[op] # "patch" \/ holder.status = "succeeded"
              \/ IsBefore(op) \/ IsExpectedAfter(op)
           /\ CanFinish(op) /\ finish(op, holder.status)
           /\ Goto("settled")
        \/ GiveUp(op) /\ UNCHANGED wsRow
     /\ UNCHANGED <<files, job, calls, up, crashes>>

\* completeAdoption, or the stop receipt of a workspace that stays closed; an
\* inspection and a cancellation just return the operation.
FinishCall ==
  /\ Recon("settled")
  /\ wsRow' = IF /\ holder.kind = "adopt" /\ wsRow.epoch = holder.epoch
                 /\ wsRow.active = None /\ ~wsRow.stopped /\ ~wsRow.released
              THEN [wsRow EXCEPT !.adopting = FALSE] ELSE wsRow
  /\ holder' = None
  /\ UNCHANGED <<opRow, files, job, calls, up, crashes>>

-----------------------------------------------------------------------------
(* The process *)

BeginShutdown ==
  /\ up = "up" /\ up' = "closing"
  /\ holder' = IF holder # None /\ holder.kind = "exec" THEN Ended ELSE holder
  /\ UNCHANGED <<wsRow, opRow, files, job, calls, crashes>>

\* The process dies, with its goroutines, its calls and its file locks.
Crash ==
  /\ up # "down" /\ crashes < MaxCrashes
  /\ up' = "down" /\ crashes' = crashes + 1
  /\ holder' = None
  /\ calls' = [c \in Clients |-> NoCall]
  /\ UNCHANGED <<wsRow, opRow, files, job>>

Restart ==
  /\ up = "down" /\ up' = "up"
  /\ UNCHANGED <<wsRow, opRow, files, job, holder, calls, crashes>>

-----------------------------------------------------------------------------
Init ==
  /\ wsRow = NoRow /\ opRow = << >> /\ files = << >>
  /\ job = [op \in Ops |-> "none"]
  /\ holder = None
  /\ calls = [c \in Clients |-> NoCall]
  /\ up = "up" /\ crashes = 0

Request ==
  \/ \E e \in Epochs :
       \/ PrepareWorkspace(e) \/ ReleaseWorkspace(e)
       \/ \E op \in Ops : StartOperation(op, e, wsRow.revision)
  \/ \E c \in Clients, e \in Epochs :
       \/ \E rpc \in {"adopt", "stop"} : FenceWorkspace(c, rpc, e)
       \/ \E op \in Ops :
            InspectOperation(c, op, e) \/ CancelOperation(c, op, e)

Daemon(op) ==
  \/ DaemonCreates(op) \/ DaemonStarts(op) \/ JobWrites(op)
  \/ \E code \in {"ok", "bad"} : JobExits(op, code)

Executor(op) ==
  \/ MarkRunning(op) \/ CheckCancel(op) \/ FileTool(op)
  \/ CreateContainer(op) \/ BeforeStart(op) \/ StartContainer(op)
  \/ JobDone(op) \/ ContextEnds(op) \/ Complete(op)

Handler ==
  \/ \E c \in Clients : RequestCancel(c) \/ TakeLock(c)
  \/ ReconcileFiles \/ ReconcileFails \/ CompleteReconciled \/ FinishCall
  \/ \E kill \in BOOLEAN : ReconcileJob(kill)

Next ==
  \/ Request \/ Handler \/ Deadline
  \/ \E op \in Ops : Daemon(op) \/ Executor(op) \/ DockerFails(op)
  \/ BeginShutdown \/ Crash \/ Restart

Spec == Init /\ [][Next]_vars

\* The process keeps running its goroutines, the daemon its requests, and an
\* operation's context ends at its deadline.  Nothing makes a command exit or a
\* Docker command fail.
Fairness ==
  /\ WF_vars(Handler) /\ WF_vars(Deadline) /\ WF_vars(Restart)
  /\ \A op \in Ops : /\ WF_vars(Executor(op))
                     /\ WF_vars(DaemonCreates(op)) /\ WF_vars(DaemonStarts(op))

FairSpec == Spec /\ Fairness

-----------------------------------------------------------------------------
(* Properties *)

\* The journal, read as the abstract ledger, and the content as the operations
\* that touched it.
OpsView ==
  [op \in DOMAIN opRow |->
     [epoch |-> opRow[op].epoch, rev |-> opRow[op].rev,
      after |-> opRow[op].after,
      status |-> IF opRow[op].status \in Terminal THEN opRow[op].status
                 ELSE "open"]]

L == INSTANCE OperationLedger WITH OpIds <- Ops, NoOp <- None, ws <- wsRow,
       ops <- OpsView, tree <- [i \in DOMAIN files |-> files[i].op]

\* The engine implements the ledger through crashes, restarts, shutdowns, lost
\* and duplicated requests: an operation changes the content only between its
\* acceptance and its receipt, and every receipt states the change it made.
ImplementsLedger == L!LedgerSpec

\* A receipt is never issued for a container that runs or may still be started
\* by a request the daemon holds (docker_start_intent, CancelNeverDispatched).
NoOrphanJob ==
  \A op \in DOMAIN opRow :
    opRow[op].status \in Terminal => job[op] \notin {"starting", "running"}

\* A settled patch is there in full or not at all, in full when it succeeded,
\* and a patch cancelled before dispatch left nothing.
PatchAllOrNothing ==
  \A op \in DOMAIN opRow :
    KindOf[op] = "patch" /\ opRow[op].status \in Terminal =>
      /\ IsBefore(op) \/ IsExpectedAfter(op)
      /\ opRow[op].status = "succeeded" => IsExpectedAfter(op)
      /\ opRow[op].status = "cancelled" => IsBefore(op)

\* Nobody keeps the workspace lock for ever: whoever takes it, through crashes
\* and shutdowns, gives it back, so adoption and cancellation get their turn.
LockFreed == []<>(holder = None)
=============================================================================

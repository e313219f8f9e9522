------------------------- MODULE RunnerEngineProofs -------------------------
(***************************************************************************)
(* For every set of operations, epochs and handlers and any number of      *)
(* crashes: RunnerEngine implements OperationLedger step by step, no       *)
(* receipt is issued for a container that runs or may still start, and a   *)
(* settled patch is applied in full or not at all.                         *)
(*                                                                         *)
(* The refinement needs the invariant EngineInv: what the journal knows of *)
(* an operation bounds what its container and the content may be, and what *)
(* the thread that holds the lock may still do with them.                  *)
(***************************************************************************)
EXTENDS RunnerEngine, SequenceTheorems, TLAPS

-----------------------------------------------------------------------------
(* The invariant *)

OpRow == [epoch : Nat, rev : Nat,
          status : Terminal \cup {"prepared", "running", "unknown"},
          after : Nat, cancel : BOOLEAN, dispatched : BOOLEAN,
          intent : BOOLEAN]

FileWrite == [op : Ops, part : {"partial", "full"}]

JobState == {"none", "creating", "created", "starting", "running", "ok",
             "bad", "removed"}

Rpcs == {"inspect", "cancel", "adopt", "stop"}

ExecHolder ==
  [kind : {"exec"}, op : Ops, status : Terminal \cup {"none"},
   ended : BOOLEAN,
   pc : {"spawned", "marked", "file", "create", "created", "start", "wait",
         "complete"}]

ReconHolder ==
  [kind : Rpcs, op : Ops \cup {None}, status : Terminal \cup {"none"},
   epoch : Nat, pc : {"reconcile", "complete", "settled"}]

EngineTyped ==
  /\ wsRow \in [exists : BOOLEAN, epoch : Nat, revision : Nat,
                active : Ops \cup {None}, adopting : BOOLEAN,
                stopped : BOOLEAN, released : BOOLEAN]
  /\ DOMAIN opRow \subseteq Ops
  /\ \A op \in DOMAIN opRow : opRow[op] \in OpRow
  /\ files \in Seq(FileWrite)
  /\ job \in [Ops -> JobState]
  /\ calls \in [Clients -> [rpc : Rpcs \cup {"none"}, op : Ops \cup {None},
                            epoch : Nat, pc : {"idle", "fenced", "lock"}]]

\* The active operation is the one without a receipt, at this revision.
RowsFit ==
  /\ \A op \in DOMAIN opRow :
       opRow[op].status \notin Terminal <=> wsRow.active = op
  /\ wsRow.active # None => /\ wsRow.active \in DOMAIN opRow
                            /\ opRow[wsRow.active].rev = wsRow.revision
  /\ ~wsRow.exists => wsRow = NoRow /\ DOMAIN opRow = {}

\* What an operation that the journal has not dispatched, not meant to start or
\* settled may have done.
JobFits(op) ==
  /\ op \notin DOMAIN opRow => job[op] = "none" /\ ~Touched(op)
  /\ ~isProcess(op) => job[op] = "none"
  /\ op \in DOMAIN opRow =>
       /\ ~opRow[op].dispatched => job[op] = "none" /\ ~Touched(op)
       /\ ~opRow[op].intent
            => job[op] \notin {"starting", "running", "ok", "bad"}
       /\ opRow[op].status \in Terminal
            => job[op] \notin {"starting", "running"}

JobsFit == \A op \in Ops : JobFits(op)

\* An outcome that may be made the operation's receipt.
OutcomeFits(op, status) ==
  /\ status \in Terminal /\ job[op] \notin {"starting", "running"}
  /\ KindOf[op] = "patch" =>
       /\ status = "succeeded" => Patched(op)
       /\ status = "cancelled" => ~Touched(op)

\* The executor works for the active operation and knows how far it is.
ExecFits(h) ==
  /\ h \in ExecHolder /\ wsRow.active = h.op
  /\ h.pc = "spawned" => /\ opRow[h.op].status = "prepared"
                         /\ ~opRow[h.op].dispatched
  /\ h.pc # "spawned" => opRow[h.op].dispatched
  /\ h.pc \in {"marked", "create"} => job[h.op] = "none" /\ ~Touched(h.op)
  /\ h.pc = "file" => ~isProcess(h.op)
  /\ h.pc \in {"create", "created", "start", "wait"} => isProcess(h.op)
  /\ h.pc = "created" => job[h.op] \in {"creating", "created"}
  /\ h.pc = "start" => opRow[h.op].intent
  /\ h.pc = "complete" => OutcomeFits(h.op, h.status)

\* A handler that has the lock reconciles an accepted operation.
ReconFits(h) ==
  /\ h \in ReconHolder
  /\ h.pc # "settled" => h.op \in DOMAIN opRow
  /\ h.kind = "adopt" => h.epoch \in Epochs
  /\ h.pc = "complete" => OutcomeFits(h.op, h.status)

HolderFits ==
  holder # None => IF holder.kind = "exec" THEN ExecFits(holder)
                   ELSE ReconFits(holder)

CallFits(call) ==
  call.pc # "idle" =>
    /\ call.rpc # "none"
    /\ call.rpc \in {"adopt", "stop"} => call.epoch \in Epochs
    /\ call.rpc \in {"inspect", "cancel"} => call.op \in DOMAIN opRow

CallsFit == \A c \in Clients : CallFits(calls[c])

EngineInv ==
  /\ EngineTyped /\ RowsFit /\ JobsFit /\ HolderFits /\ CallsFit
  /\ PatchAllOrNothing

-----------------------------------------------------------------------------
(* Steps that leave the ledger alone *)

\* Rows keep what the ledger shows of them, receipts are final, and marks are
\* not taken back.
RowsQuiet ==
  /\ DOMAIN opRow' = DOMAIN opRow
  /\ \A op \in DOMAIN opRow :
       /\ opRow'[op] \in OpRow
       /\ opRow'[op].epoch = opRow[op].epoch /\ opRow'[op].rev = opRow[op].rev
       /\ opRow'[op].after = opRow[op].after
       /\ opRow[op].status \in Terminal
            => opRow'[op].status = opRow[op].status
       /\ opRow[op].status \notin Terminal => opRow'[op].status \notin Terminal
       /\ opRow[op].dispatched => opRow'[op].dispatched
       /\ opRow[op].intent => opRow'[op].intent

\* The transactions of the journal that write no receipt.
LEMMA QuietRows ==
  ASSUME EngineInv
  PROVE  /\ opRow' = opRow => RowsQuiet
         /\ \A op \in DOMAIN opRow :
              markRunning(op) \/ markUnknown(op) => RowsQuiet
         /\ \A op : opRow' = WithCancel(opRow, op) => RowsQuiet
<1>1. \A op \in DOMAIN opRow : opRow[op] \in OpRow
  BY DEF EngineInv, EngineTyped
<1>2. opRow' = opRow => RowsQuiet
  BY <1>1 DEF RowsQuiet
<1>3. ASSUME NEW op \in DOMAIN opRow, markRunning(op) PROVE RowsQuiet
  BY <1>1, <1>3 DEF RowsQuiet, markRunning, OpRow, Terminal
<1>4. ASSUME NEW op \in DOMAIN opRow, markUnknown(op) PROVE RowsQuiet
  BY <1>1, <1>4 DEF RowsQuiet, markUnknown, OpRow, Terminal
<1>5. ASSUME NEW op, opRow' = WithCancel(opRow, op) PROVE RowsQuiet
  BY <1>1, <1>5 DEF RowsQuiet, WithCancel, OpRow
<1> QED BY <1>2, <1>3, <1>4, <1>5

\* A step that changes neither the workspace's row nor the content, and rows
\* and containers only so far, keeps the invariant but for the threads' part.
LEMMA QuietStep ==
  ASSUME EngineInv, wsRow' = wsRow, RowsQuiet, files' = files,
         job' \in [Ops -> JobState],
         \A op \in Ops : job'[op] = job[op] \/ JobFits(op)'
  PROVE  /\ RowsFit' /\ JobsFit' /\ PatchAllOrNothing'
         /\ L!ledgerVars' = L!ledgerVars
<1>1. RowsFit'
  BY DEF EngineInv, EngineTyped, RowsFit, RowsQuiet
<1>2. \A op : /\ Touched(op)' <=> Touched(op) 
              /\ Patched(op)' <=> Patched(op)
  BY DEF Touched, Patched
<1>3. JobsFit'
  <2> SUFFICES ASSUME NEW op \in Ops, job'[op] = job[op] PROVE JobFits(op)'
    BY DEF JobsFit
  <2>1. JobFits(op)
    BY DEF EngineInv, JobsFit
  <2> QED BY <1>2, <2>1 DEF JobFits, RowsQuiet
<1>4. PatchAllOrNothing'
  BY <1>2 DEF EngineInv, PatchAllOrNothing, RowsQuiet, IsBefore,
              IsExpectedAfter
<1>5. OpsView' = OpsView
  BY DEF OpsView, RowsQuiet
<1> QED BY <1>1, <1>3, <1>4, <1>5 DEF L!ledgerVars

\* What the executor that has the lock knows.
LEMMA ExecKnows ==
  ASSUME EngineInv, NEW op, NEW pc, Exec(op, pc)
  PROVE  /\ ExecFits(holder) /\ holder \in ExecHolder
         /\ holder.op = op /\ holder.pc = pc /\ holder.kind = "exec"
         /\ op \in Ops /\ op \in DOMAIN opRow /\ wsRow.active = op
         /\ opRow[op] \in OpRow /\ opRow[op].status \notin Terminal
         /\ JobFits(op) /\ job[op] \in JobState
<1>1. ExecFits(holder) /\ holder.op = op /\ holder.pc = pc
      /\ holder.kind = "exec"
  BY DEF EngineInv, HolderFits, Exec
<1>2. holder \in ExecHolder /\ op \in Ops /\ wsRow.active = op
  BY <1>1 DEF ExecFits, ExecHolder
<1>3. op \in DOMAIN opRow
  BY <1>2, EngineAssumption DEF EngineInv, RowsFit
<1> QED BY <1>1, <1>2, <1>3
        DEF EngineInv, RowsFit, EngineTyped, JobsFit

\* A quiet step of a thread that leaves the calls alone.
LEMMA ThreadStep ==
  ASSUME EngineInv, wsRow' = wsRow, RowsQuiet, files' = files, calls' = calls,
         job' \in [Ops -> JobState],
         \A op \in Ops : job'[op] = job[op] \/ JobFits(op)',
         HolderFits'
  PROVE  EngineInv' /\ L!ledgerVars' = L!ledgerVars
<1>1. /\ RowsFit' /\ JobsFit' /\ PatchAllOrNothing'
      /\ L!ledgerVars' = L!ledgerVars
  BY QuietStep
<1>2. EngineTyped'
  BY DEF EngineInv, EngineTyped, RowsQuiet
<1>3. CallsFit'
  BY DEF EngineInv, CallsFit, CallFits, RowsQuiet
<1> QED BY <1>1, <1>2, <1>3 DEF EngineInv

\* unknown: the executor or handler ends, its operation stays unsettled.
LEMMA GiveUpStep ==
  ASSUME EngineInv, NEW op \in DOMAIN opRow, GiveUp(op),
         UNCHANGED <<wsRow, files, job, calls>>
  PROVE  EngineInv' /\ L!ledgerVars' = L!ledgerVars
<1>1. RowsQuiet /\ HolderFits'
  BY QuietRows DEF GiveUp, HolderFits
<1>2. job' \in [Ops -> JobState] /\ \A o \in Ops : job'[o] = job[o]
  BY DEF EngineInv, EngineTyped
<1> QED BY <1>1, <1>2, ThreadStep

\* The executor's steps up to the container, and the end of its context.
LEMMA ExecutorInv ==
  ASSUME EngineInv, NEW op,
         \/ MarkRunning(op) \/ CheckCancel(op) \/ CreateContainer(op)
         \/ BeforeStart(op) \/ StartContainer(op) \/ DockerFails(op)
         \/ JobDone(op) \/ ContextEnds(op) \/ Deadline
  PROVE  EngineInv' /\ L!ledgerVars' = L!ledgerVars
<1>0. job \in [Ops -> JobState] /\ (opRow' = opRow => RowsQuiet)
  BY QuietRows DEF EngineInv, EngineTyped
<1>1. CASE MarkRunning(op)
  <2>1. Exec(op, "spawned") /\ markRunning(op) /\ Goto("marked")
        /\ UNCHANGED <<wsRow, files, job, calls>>
    BY <1>1 DEF MarkRunning
  <2>2. /\ ExecFits(holder) /\ holder \in ExecHolder /\ holder.op = op
        /\ op \in DOMAIN opRow /\ op \in Ops /\ JobFits(op)
        /\ opRow[op] \in OpRow /\ holder.pc = "spawned"
    BY <2>1, ExecKnows
  <2>3. opRow'[op].dispatched = TRUE
    BY <2>1, <2>2 DEF markRunning, ExecFits, OpRow
  <2>4. job'[op] = "none" /\ ~Touched(op)'
    BY <2>1, <2>2 DEF ExecFits, JobFits, Touched
  <2>5. HolderFits'
    BY <2>1, <2>2, <2>3, <2>4 DEF HolderFits, ExecFits, ExecHolder, Goto
  <2>6. RowsQuiet
    BY <2>1, <2>2, QuietRows
  <2> QED BY <1>0, <2>1, <2>5, <2>6, ThreadStep
<1>2. CASE CheckCancel(op)
  <2>1. Exec(op, "marked") /\ UNCHANGED <<wsRow, opRow, files, job, calls>>
    BY <1>2 DEF CheckCancel
  <2>2. /\ ExecFits(holder) /\ holder \in ExecHolder /\ holder.op = op
        /\ holder.pc = "marked"
    BY <2>1, ExecKnows
  <2>3. job'[op] = "none" /\ ~Touched(op)' /\ opRow'[op].dispatched
    BY <2>1, <2>2 DEF ExecFits, Touched
  <2>4. ASSUME Completing("cancelled") PROVE HolderFits'
    <3>1. OutcomeFits(op, "cancelled")'
      BY <2>3 DEF OutcomeFits, Terminal
    <3> QED BY <2>1, <2>2, <2>3, <2>4, <3>1
            DEF HolderFits, ExecFits, ExecHolder, Completing, Terminal
  <2>5. ASSUME Goto(IF isProcess(op) THEN "create" ELSE "file")
        PROVE  HolderFits'
    BY <2>1, <2>2, <2>3, <2>5 DEF HolderFits, ExecFits, ExecHolder, Goto
  <2>6. HolderFits'
    BY <1>2, <2>4, <2>5 DEF CheckCancel
  <2> QED BY <1>0, <2>1, <2>6, ThreadStep
<1>3. CASE CreateContainer(op)
  <2>1. Exec(op, "create") /\ UNCHANGED <<wsRow, files, calls>>
    BY <1>3 DEF CreateContainer
  <2>2. /\ ExecFits(holder) /\ holder \in ExecHolder /\ holder.op = op
        /\ holder.pc = "create" /\ op \in Ops /\ op \in DOMAIN opRow
    BY <2>1, ExecKnows
  <2>3. CASE job' = [job EXCEPT ![op] = "creating"] /\ Goto("created")
             /\ UNCHANGED opRow
    <3>1. HolderFits'
      BY <1>0, <2>1, <2>2, <2>3
         DEF HolderFits, ExecFits, ExecHolder, Goto, isProcess
    <3>2. JobFits(op)' /\ job' \in [Ops -> JobState]
      BY <1>0, <2>1, <2>2, <2>3 DEF JobFits, ExecFits, JobState, isProcess
    <3> QED BY <1>0, <2>1, <2>2, <2>3, <3>1, <3>2, ThreadStep
  <2>4. CASE Completing("failed") /\ UNCHANGED <<opRow, job>>
    <3>1. HolderFits'
      BY <2>1, <2>2, <2>4
         DEF HolderFits, ExecFits, ExecHolder, OutcomeFits, Completing,
             Touched, Patched, isProcess, Terminal
    <3> QED BY <1>0, <2>1, <2>4, <3>1, ThreadStep
  <2>5. CASE GiveUp(op) /\ UNCHANGED job
    BY <2>1, <2>2, <2>5, GiveUpStep
  <2> QED BY <1>3, <2>3, <2>4, <2>5 DEF CreateContainer
<1>4. CASE BeforeStart(op)
  <2>1. Exec(op, "created") /\ job[op] = "created"
        /\ UNCHANGED <<wsRow, files, job, calls>>
    BY <1>4 DEF BeforeStart
  <2>2. /\ ExecFits(holder) /\ holder \in ExecHolder /\ holder.op = op
        /\ holder.pc = "created" /\ op \in Ops /\ op \in DOMAIN opRow
        /\ opRow[op] \in OpRow
    BY <2>1, ExecKnows
  <2>3. CASE opRow' = [opRow EXCEPT ![op].intent = TRUE] /\ Goto("start")
    <3>1. RowsQuiet
      BY <2>3, ZenonT(60) DEF RowsQuiet, OpRow, EngineInv, EngineTyped
    <3>2. opRow'[op].intent /\ opRow'[op].dispatched
      BY <2>2, <2>3 DEF OpRow, ExecFits
    <3>3. HolderFits'
      BY <2>1, <2>2, <2>3, <3>2
         DEF HolderFits, ExecFits, ExecHolder, Goto, isProcess
    <3> QED BY <1>0, <2>1, <3>1, <3>3, ThreadStep
  <2> QED BY <1>4, <2>1, <2>2, <2>3, GiveUpStep DEF BeforeStart
<1>5. CASE StartContainer(op)
  <2>1. /\ Exec(op, "start") /\ job' = [job EXCEPT ![op] = "starting"]
        /\ Goto("wait") /\ UNCHANGED <<wsRow, opRow, files, calls>>
    BY <1>5 DEF StartContainer
  <2>2. /\ ExecFits(holder) /\ holder \in ExecHolder /\ holder.op = op
        /\ holder.pc = "start" /\ op \in Ops /\ op \in DOMAIN opRow
        /\ opRow[op].status \notin Terminal
    BY <2>1, ExecKnows
  <2>3. HolderFits'
    BY <1>0, <2>1, <2>2
       DEF HolderFits, ExecFits, ExecHolder, Goto, isProcess
  <2>4. JobFits(op)' /\ job' \in [Ops -> JobState]
    BY <1>0, <2>1, <2>2 DEF JobFits, ExecFits, JobState, isProcess
  <2> QED BY <1>0, <2>1, <2>3, <2>4, ThreadStep
<1>6. CASE DockerFails(op)
  <2>1. op \in DOMAIN opRow
    BY <1>6, ExecKnows DEF DockerFails
  <2> QED BY <1>6, <2>1, GiveUpStep DEF DockerFails
<1>7. CASE JobDone(op)
  <2>1. PICK status \in ExitOutcomes(op) : Completing(status)
    BY <1>7 DEF JobDone
  <2>2. Exec(op, "wait") /\ Exited(op)
        /\ UNCHANGED <<wsRow, opRow, files, job, calls>>
    BY <1>7 DEF JobDone
  <2>3. /\ ExecFits(holder) /\ holder \in ExecHolder /\ holder.op = op
        /\ holder.pc = "wait" /\ isProcess(op)
    BY <2>2, ExecKnows DEF ExecFits
  <2>4. OutcomeFits(op, status)' /\ status \in Terminal
    BY <2>1, <2>2, <2>3
       DEF OutcomeFits, ExitOutcomes, Exited, isProcess, Terminal
  <2>5. HolderFits'
    BY <2>1, <2>2, <2>3, <2>4
       DEF HolderFits, ExecFits, ExecHolder, Completing
  <2> QED BY <1>0, <2>2, <2>5, ThreadStep
<1>8. CASE ContextEnds(op)
  <2>1. Exec(op, "wait") /\ UNCHANGED <<wsRow, files, calls>>
    BY <1>8 DEF ContextEnds
  <2>2. /\ ExecFits(holder) /\ holder \in ExecHolder /\ holder.op = op
        /\ holder.pc = "wait" /\ isProcess(op) /\ op \in Ops
        /\ op \in DOMAIN opRow /\ JobFits(op)
    BY <2>1, ExecKnows DEF ExecFits
  <2>3. CASE GiveUp(op) /\ UNCHANGED job
    BY <2>1, <2>2, <2>3, GiveUpStep
  <2>4. CASE /\ job[op] = "running" /\ job' = [job EXCEPT ![op] = "bad"]
             /\ Completing("cancelled") /\ UNCHANGED opRow
    <3>1. JobFits(op)' /\ job' \in [Ops -> JobState]
      BY <1>0, <2>1, <2>2, <2>4 DEF JobFits, JobState, Touched
    <3>2. OutcomeFits(op, "cancelled")'
      BY <1>0, <2>2, <2>4 DEF OutcomeFits, isProcess, Terminal
    <3>3. HolderFits'
      BY <2>1, <2>2, <2>4, <3>2
         DEF HolderFits, ExecFits, ExecHolder, Completing, Terminal
    <3> QED BY <1>0, <2>1, <2>4, <3>1, <3>3, ThreadStep
  <2> QED BY <1>8, <2>3, <2>4 DEF ContextEnds
<1>9. CASE Deadline
  <2>1. /\ holder # None /\ holder.kind = "exec" /\ holder' = Ended
        /\ UNCHANGED <<wsRow, opRow, files, job, calls>>
    BY <1>9 DEF Deadline
  <2>2. ExecFits(holder)
    BY <2>1 DEF EngineInv, HolderFits
  <2>3. HolderFits'
    BY <2>1, <2>2 DEF HolderFits, ExecFits, ExecHolder, Ended, OutcomeFits,
                      Touched, Patched
  <2> QED BY <1>0, <2>1, <2>3, ThreadStep
<1> QED BY <1>1, <1>2, <1>3, <1>4, <1>5, <1>6, <1>7, <1>8, <1>9

-----------------------------------------------------------------------------
(* Handlers, the daemon and the process *)

\* A quiet step that changes the calls too.
LEMMA CallStep ==
  ASSUME EngineInv, UNCHANGED <<wsRow, files, job>>, RowsQuiet, HolderFits',
         calls' \in [Clients -> [rpc : Rpcs \cup {"none"},
                                 op : Ops \cup {None}, epoch : Nat,
                                 pc : {"idle", "fenced", "lock"}]],
         \A c \in Clients : calls'[c] = calls[c] \/ CallFits(calls'[c])
  PROVE  EngineInv' /\ L!ledgerVars' = L!ledgerVars
<1>1. job' \in [Ops -> JobState] /\ \A op \in Ops : job'[op] = job[op]
  BY DEF EngineInv, EngineTyped
<1>2. /\ RowsFit' /\ JobsFit' /\ PatchAllOrNothing'
      /\ L!ledgerVars' = L!ledgerVars
  BY <1>1, QuietStep
<1>3. EngineTyped'
  BY <1>1 DEF EngineInv, EngineTyped, RowsQuiet
<1>4. CallsFit'
  BY DEF EngineInv, CallsFit, CallFits, RowsQuiet
<1> QED BY <1>2, <1>3, <1>4 DEF EngineInv

\* Where rows, containers and content keep their state, so does the holder.
LEMMA HolderKept ==
  ASSUME EngineInv, UNCHANGED <<wsRow, files, job>>, RowsQuiet,
         holder' = holder,
         \A op \in DOMAIN opRow :
           /\ opRow'[op].status = opRow[op].status
           /\ opRow'[op].dispatched = opRow[op].dispatched
           /\ opRow'[op].intent = opRow[op].intent
  PROVE  HolderFits'
<1> SUFFICES ASSUME holder # None
             PROVE  IF holder.kind = "exec" THEN ExecFits(holder)'
                    ELSE ReconFits(holder)'
  BY DEF HolderFits
<1>1. CASE holder.kind = "exec"
  <2>1. ExecFits(holder)
    BY <1>1 DEF EngineInv, HolderFits
  <2>2. holder.op \in DOMAIN opRow
    BY <2>1, EngineAssumption
       DEF ExecFits, ExecHolder, EngineInv, RowsFit
  <2> QED BY <1>1, <2>1, <2>2
          DEF ExecFits, OutcomeFits, Touched, Patched, isProcess
<1>2. CASE holder.kind # "exec"
  BY <1>2 DEF EngineInv, HolderFits, ReconFits, RowsQuiet, OutcomeFits,
              Touched, Patched
<1> QED BY <1>1, <1>2

\* The context of the executor is cancelled, and its row may say so.
LEMMA EndedFits ==
  ASSUME EngineInv, UNCHANGED <<wsRow, files, job>>, RowsQuiet,
         holder # None, holder.kind = "exec", holder' = Ended,
         \A op \in DOMAIN opRow :
           /\ opRow'[op].status = opRow[op].status
           /\ opRow'[op].dispatched = opRow[op].dispatched
           /\ opRow'[op].intent = opRow[op].intent
  PROVE  HolderFits'
<1>1. ExecFits(holder) /\ holder \in ExecHolder
  BY DEF EngineInv, HolderFits, ExecFits
<1>2. holder.op \in DOMAIN opRow
  BY <1>1, EngineAssumption DEF ExecFits, ExecHolder, EngineInv, RowsFit
<1>3. /\ holder' \in ExecHolder /\ holder'.op = holder.op
      /\ holder'.pc = holder.pc /\ holder'.status = holder.status
      /\ holder'.kind = "exec"
  BY <1>1 DEF Ended, ExecHolder
<1> QED BY <1>1, <1>2, <1>3
        DEF HolderFits, ExecFits, OutcomeFits, Touched, Patched, isProcess

\* Handlers on their way to the lock.
LEMMA HandlerInv ==
  ASSUME EngineInv, NEW c \in Clients,
         \/ RequestCancel(c) \/ TakeLock(c)
         \/ \E op \in Ops, e \in Epochs : InspectOperation(c, op, e)
  PROVE  EngineInv' /\ L!ledgerVars' = L!ledgerVars
<1> DEFINE Call == [rpc : Rpcs \cup {"none"}, op : Ops \cup {None},
                    epoch : Nat, pc : {"idle", "fenced", "lock"}]
<1>0. /\ calls \in [Clients -> Call] /\ CallFits(calls[c])
      /\ opRow' = opRow => RowsQuiet
      /\ \A op \in DOMAIN opRow : opRow[op] \in OpRow
      /\ wsRow.active \in Ops \cup {None}
  BY QuietRows DEF EngineInv, EngineTyped, CallsFit
<1>1. NoCall \in Call /\ CallFits(NoCall)
  BY DEF NoCall, CallFits
<1> HIDE DEF Call
<1>2. CASE RequestCancel(c)
  <2> DEFINE target == IF calls[c].rpc = "cancel" THEN calls[c].op
                       ELSE wsRow.active
  <2>1. calls[c].pc = "fenced" /\ UNCHANGED <<wsRow, files, job>>
    BY <1>2 DEF RequestCancel
  <2>2. CASE calls' = [calls EXCEPT ![c] = NoCall] /\ UNCHANGED <<opRow, holder>>
    <3>1. HolderFits'
      BY <1>0, <2>1, <2>2, HolderKept
    <3>2. /\ calls' \in [Clients -> Call]
          /\ \A d \in Clients : calls'[d] = calls[d] \/ CallFits(calls'[d])
      BY <1>0, <1>1, <2>2
    <3> QED BY <1>0, <2>1, <2>2, <3>1, <3>2, CallStep DEF Call
  <2>3. CASE /\ opRow' = WithCancel(opRow, target)
             /\ holder' = IF Live(target) THEN Ended ELSE holder
             /\ calls' = [calls EXCEPT ![c].pc = "lock"]
    <3>1. RowsQuiet
      BY <2>3, QuietRows
    <3>2. \A op \in DOMAIN opRow :
            /\ opRow'[op].status = opRow[op].status
            /\ opRow'[op].dispatched = opRow[op].dispatched
            /\ opRow'[op].intent = opRow[op].intent
      <4> HIDE DEF target
      <4> QED BY <1>0, <2>3 DEF WithCancel, OpRow
    <3>3. HolderFits'
      BY <2>1, <2>3, <3>1, <3>2, HolderKept, EndedFits DEF Live
    <3>4. /\ calls'[c] \in Call /\ CallFits(calls'[c])
          /\ \A d \in Clients \ {c} : calls'[d] = calls[d]
          /\ DOMAIN calls' = Clients
      BY <1>0, <2>1, <2>3 DEF Call, CallFits
    <3>5. calls' \in [Clients -> Call]
      BY <1>0, <2>3, <3>4 DEF Call
    <3> QED BY <2>1, <3>1, <3>3, <3>4, <3>5, CallStep DEF Call
  <2> QED BY <1>2, <2>2, <2>3 DEF RequestCancel
<1>3. CASE TakeLock(c)
  <2> DEFINE op == IF calls[c].rpc \in {"adopt", "stop"} THEN wsRow.active
                   ELSE calls[c].op
             h == [kind |-> calls[c].rpc, op |-> op, status |-> "none",
                   epoch |-> calls[c].epoch,
                   pc |-> IF op = None THEN "settled" ELSE "reconcile"]
  <2>1. /\ calls[c].pc = "lock" /\ holder = None
        /\ calls' = [calls EXCEPT ![c] = NoCall]
        /\ UNCHANGED <<wsRow, opRow, files, job>>
        /\ holder' = h \/ holder' = holder
    BY <1>3 DEF TakeLock
  <2>2. calls[c] \in Call
    BY <1>0
  <2>3. /\ calls[c].rpc \in Rpcs /\ op \in Ops \cup {None}
        /\ op # None => op \in DOMAIN opRow
        /\ calls[c].epoch \in Nat
        /\ calls[c].rpc = "adopt" => calls[c].epoch \in Epochs
    BY <1>0, <2>1, <2>2
       DEF Call, CallFits, Rpcs, EngineInv, RowsFit
  <2> HIDE DEF op
  <2>4. /\ h \in ReconHolder /\ h.kind # "exec" /\ h.pc # "complete"
        /\ h.pc # "settled" => h.op \in DOMAIN opRow
        /\ h.kind = "adopt" => h.epoch \in Epochs
    BY <2>3 DEF ReconHolder, Rpcs
  <2> HIDE DEF h
  <2>5. HolderFits'
    BY <2>1, <2>4 DEF HolderFits, ReconFits
  <2>6. /\ calls' \in [Clients -> Call]
        /\ \A d \in Clients : calls'[d] = calls[d] \/ CallFits(calls'[d])
    BY <1>0, <1>1, <2>1
  <2> QED BY <1>0, <2>1, <2>5, <2>6, CallStep DEF Call
<1>4. ASSUME NEW op \in Ops, NEW e \in Epochs, InspectOperation(c, op, e)
      PROVE  EngineInv' /\ L!ledgerVars' = L!ledgerVars
  <2> DEFINE n == [rpc |-> "inspect", op |-> op, epoch |-> 0, pc |-> "lock"]
  <2>1. /\ op \in DOMAIN opRow /\ calls' = [calls EXCEPT ![c] = n]
        /\ UNCHANGED <<wsRow, opRow, files, job, holder>>
    BY <1>4 DEF InspectOperation
  <2>2. n \in Call /\ CallFits(n)
    BY <2>1 DEF Call, CallFits, Rpcs
  <2> HIDE DEF n
  <2>3. /\ calls' \in [Clients -> Call]
        /\ \A d \in Clients : calls'[d] = calls[d] \/ CallFits(calls'[d])
    BY <1>0, <2>1, <2>2
  <2>4. HolderFits'
    BY <1>0, <2>1, HolderKept
  <2> QED BY <1>0, <2>1, <2>3, <2>4, CallStep DEF Call
<1> QED BY <1>2, <1>3, <1>4

\* What a handler that has the lock knows of the operation it reconciles.
LEMMA ReconKnows ==
  ASSUME EngineInv, NEW pc, Recon(pc)
  PROVE  /\ ReconFits(holder) /\ holder \in ReconHolder
         /\ holder.pc = pc /\ holder.kind # "exec"
         /\ pc # "settled" =>
              /\ holder.op \in DOMAIN opRow /\ holder.op \in Ops
              /\ JobFits(holder.op) /\ opRow[holder.op] \in OpRow
<1>1. ReconFits(holder) /\ holder.pc = pc /\ holder.kind # "exec"
  BY DEF EngineInv, HolderFits, Recon
<1> QED BY <1>1 DEF EngineInv, ReconFits, EngineTyped, JobsFit

\* A reconciliation that has found an outcome goes on to commit it.
LEMMA CompletingFits ==
  ASSUME holder \in ReconHolder, holder.kind # "exec", ReconFits(holder),
         NEW op, holder.op = op, op \in DOMAIN opRow, opRow' = opRow,
         NEW status, Completing(status), OutcomeFits(op, status)'
  PROVE  HolderFits'
<1>0. status \in Terminal
  BY DEF OutcomeFits
<1>1. /\ holder' \in ReconHolder /\ holder'.kind = holder.kind
      /\ holder'.op = op /\ holder'.pc = "complete"
      /\ holder'.status = status /\ holder'.epoch = holder.epoch
  BY <1>0 DEF Completing, ReconHolder
<1> QED BY <1>1 DEF HolderFits, ReconFits

\* Reconciliation decides by the content, by the container or not at all.
LEMMA ReconcileInv ==
  ASSUME EngineInv,
         \/ ReconcileFiles \/ ReconcileFails
         \/ \E kill \in BOOLEAN : ReconcileJob(kill)
  PROVE  EngineInv' /\ L!ledgerVars' = L!ledgerVars
<1>0. /\ job \in [Ops -> JobState] /\ (opRow' = opRow => RowsQuiet)
      /\ Recon("reconcile") /\ UNCHANGED <<wsRow, files, calls>>
  BY QuietRows
     DEF EngineInv, EngineTyped, ReconcileFiles, ReconcileFails, ReconcileJob
<1>1. PICK op : op = holder.op
  OBVIOUS
<1>2. /\ ReconFits(holder) /\ holder \in ReconHolder
      /\ holder.pc = "reconcile" /\ holder.kind # "exec"
      /\ op \in DOMAIN opRow /\ op \in Ops /\ JobFits(op)
      /\ opRow[op] \in OpRow
  BY <1>0, <1>1, ReconKnows
<1>3. \A o : /\ Touched(o)' <=> Touched(o)
             /\ Patched(o)' <=> Patched(o)
  BY <1>0 DEF Touched, Patched
<1>4. ASSUME GiveUp(op), UNCHANGED job
      PROVE  EngineInv' /\ L!ledgerVars' = L!ledgerVars
  BY <1>0, <1>2, <1>4, GiveUpStep
<1>5. ASSUME NEW status, Completing(status), OutcomeFits(op, status)',
             opRow' = opRow, job' \in [Ops -> JobState],
             \A o \in Ops : job'[o] = job[o] \/ JobFits(o)'
      PROVE  EngineInv' /\ L!ledgerVars' = L!ledgerVars
  <2>1. HolderFits'
    BY <1>1, <1>2, <1>5, CompletingFits
  <2> QED BY <1>0, <1>5, <2>1, ThreadStep
<1>6. CASE ReconcileFiles
  <2>0. UNCHANGED job
    BY <1>6 DEF ReconcileFiles
  <2>1. CASE Goto("settled") /\ UNCHANGED opRow
    <3>1. HolderFits'
      BY <1>0, <1>2, <2>1 DEF HolderFits, ReconFits, ReconHolder, Goto
    <3> QED BY <1>0, <2>0, <2>1, <3>1, ThreadStep
  <2>2. CASE /\ ~opRow[op].dispatched
             /\ Completing("cancelled") /\ UNCHANGED opRow
    <3>1. OutcomeFits(op, "cancelled")'
      BY <1>2, <1>3, <2>0, <2>2 DEF OutcomeFits, JobFits, Terminal
    <3> QED BY <1>0, <1>5, <2>0, <2>2, <3>1
  <2>3. CASE /\ ~isProcess(op)
             /\ \/ IsExpectedAfter(op) /\ Completing("succeeded")
                \/ IsBefore(op) /\ Completing("failed")
             /\ UNCHANGED opRow
    <3>1. PICK status \in {"succeeded", "failed"} :
            Completing(status) /\ (status = "succeeded" => Patched(op))
      BY <2>3 DEF IsExpectedAfter
    <3>2. OutcomeFits(op, status)'
      BY <1>2, <1>3, <2>0, <2>3, <3>1 DEF OutcomeFits, JobFits, Terminal
    <3> QED BY <1>0, <1>5, <2>0, <2>3, <3>1, <3>2
  <2> QED BY <1>1, <1>4, <1>6, <2>0, <2>1, <2>2, <2>3 DEF ReconcileFiles
<1>7. CASE ReconcileFails
  BY <1>0, <1>1, <1>4, <1>7 DEF ReconcileFails
<1>8. ASSUME NEW kill \in BOOLEAN, ReconcileJob(kill)
      PROVE  EngineInv' /\ L!ledgerVars' = L!ledgerVars
  <2>1. /\ isProcess(op) /\ KindOf[op] # "patch"
        /\ opRow[op].status \notin Terminal
    BY <1>1, <1>8 DEF ReconcileJob, isProcess
  <2>2. ASSUME NEW st \in {"removed", "bad"}, job' = [job EXCEPT ![op] = st],
               ~opRow[op].intent => st = "removed", opRow[op].dispatched,
               Completing("cancelled"), opRow' = opRow
        PROVE  EngineInv' /\ L!ledgerVars' = L!ledgerVars
    <3>1. job' \in [Ops -> JobState] /\ job'[op] = st
      BY <1>0, <1>2, <2>2 DEF JobState
    <3>2. JobFits(op)'
      BY <1>2, <2>1, <2>2, <3>1 DEF JobFits, isProcess
    <3>3. OutcomeFits(op, "cancelled")'
      BY <2>1, <2>2, <3>1 DEF OutcomeFits, Terminal
    <3> QED BY <1>0, <1>2, <1>5, <2>2, <3>1, <3>2, <3>3
  <2>3. CASE /\ Found(op) /\ ~Started(op) /\ ~opRow[op].intent
             /\ job' = [job EXCEPT ![op] = "removed"]
             /\ Completing("cancelled") /\ UNCHANGED opRow
    <3>1. opRow[op].dispatched
      BY <1>2, <2>3 DEF JobFits, Found
    <3> QED BY <2>2, <2>3, <3>1
  <2>4. CASE /\ job[op] = "running" /\ job' = [job EXCEPT ![op] = "bad"]
             /\ Completing("cancelled") /\ UNCHANGED opRow
    <3>1. opRow[op].dispatched /\ opRow[op].intent
      BY <1>2, <2>4 DEF JobFits
    <3> QED BY <2>2, <2>4, <3>1
  <2>5. CASE holder' = None /\ UNCHANGED <<job, opRow>>
    <3>1. HolderFits'
      BY <2>5 DEF HolderFits
    <3> QED BY <1>0, <2>5, <3>1, ThreadStep
  <2>6. CASE /\ Exited(op) /\ \E status \in ExitOutcomes(op) : Completing(status)
             /\ UNCHANGED <<opRow, job>>
    <3>1. PICK status \in ExitOutcomes(op) : Completing(status)
      BY <2>6
    <3>2. OutcomeFits(op, status)'
      BY <2>1, <2>6, <3>1 DEF OutcomeFits, ExitOutcomes, Exited, Terminal
    <3> QED BY <1>0, <1>5, <2>6, <3>1, <3>2
  <2> QED BY <1>1, <1>4, <1>8, <2>3, <2>4, <2>5, <2>6 DEF ReconcileJob
<1> QED BY <1>6, <1>7, <1>8

\* The daemon acts on the requests it has; the process stops, dies and returns.
LEMMA DaemonInv ==
  ASSUME EngineInv,
         \/ \E op \in Ops : \/ DaemonCreates(op) \/ DaemonStarts(op)
                            \/ \E code \in {"ok", "bad"} : JobExits(op, code)
         \/ BeginShutdown \/ Crash \/ Restart
  PROVE  EngineInv' /\ L!ledgerVars' = L!ledgerVars
<1>0. /\ job \in [Ops -> JobState] /\ RowsQuiet
      /\ UNCHANGED <<wsRow, opRow, files>>
  BY QuietRows
     DEF EngineInv, EngineTyped, DaemonCreates, DaemonStarts, JobExits,
         BeginShutdown, Crash, Restart
<1>1. ASSUME NEW op \in Ops, NEW st \in JobState,
             job' = [job EXCEPT ![op] = st], UNCHANGED <<holder, calls>>,
             \/ job[op] = "creating" /\ st = "created"
             \/ job[op] = "starting" /\ st = "running"
             \/ job[op] = "running" /\ st \in {"ok", "bad"}
      PROVE  EngineInv' /\ L!ledgerVars' = L!ledgerVars
  <2>1. /\ job' \in [Ops -> JobState] /\ job'[op] = st
        /\ \A o \in Ops \ {op} : job'[o] = job[o]
    BY <1>0, <1>1
  <2>2. \A o : /\ Touched(o)' <=> Touched(o)
               /\ Patched(o)' <=> Patched(o)
    BY <1>0 DEF Touched, Patched
  <2>3. JobFits(op) /\ isProcess(op)
    BY <1>1 DEF EngineInv, JobsFit, JobFits
  <2>4. JobFits(op)'
    BY <1>0, <1>1, <2>1, <2>2, <2>3 DEF JobFits
  <2>5. HolderFits'
    <3> SUFFICES ASSUME holder # None
                 PROVE  IF holder.kind = "exec" THEN ExecFits(holder)'
                        ELSE ReconFits(holder)'
      BY <1>1 DEF HolderFits
    <3>0. \A o \in Ops : \A s : OutcomeFits(o, s) => OutcomeFits(o, s)'
      BY <1>1, <2>1, <2>2 DEF OutcomeFits
    <3>1. CASE holder.kind = "exec"
      <4>1. ExecFits(holder) /\ holder.op \in Ops
        BY <3>1 DEF EngineInv, HolderFits, ExecFits, ExecHolder
      <4>2. holder.pc \in {"marked", "create"} => holder.op # op
        BY <1>1, <4>1 DEF ExecFits
      <4> QED BY <1>0, <1>1, <2>1, <2>2, <3>0, <3>1, <4>1, <4>2
              DEF ExecFits, isProcess
    <3>2. CASE holder.kind # "exec"
      <4>1. ReconFits(holder)
        BY <3>2 DEF EngineInv, HolderFits
      <4>2. holder.pc = "complete" => holder.op \in Ops
        BY <4>1 DEF ReconFits, EngineInv, EngineTyped
      <4> QED BY <1>0, <1>1, <3>0, <3>2, <4>1, <4>2 DEF ReconFits
    <3> QED BY <3>1, <3>2
  <2> QED BY <1>0, <1>1, <2>1, <2>4, <2>5, ThreadStep
<1>2. ASSUME NEW op \in Ops,
             \/ DaemonCreates(op) \/ DaemonStarts(op)
             \/ \E code \in {"ok", "bad"} : JobExits(op, code)
      PROVE  EngineInv' /\ L!ledgerVars' = L!ledgerVars
  BY <1>1, <1>2 DEF DaemonCreates, DaemonStarts, JobExits, JobState
<1>3. CASE BeginShutdown
  <2>1. UNCHANGED <<job, calls>>
    BY <1>3 DEF BeginShutdown
  <2>2. HolderFits'
    BY <1>0, <1>3, <2>1, HolderKept, EndedFits DEF BeginShutdown
  <2> QED BY <1>0, <2>1, <2>2, ThreadStep
<1>4. CASE Crash
  <2>1. /\ HolderFits' /\ UNCHANGED job
        /\ calls' = [c \in Clients |-> NoCall]
    BY <1>4 DEF Crash, HolderFits
  <2>2. \A c \in Clients : CallFits(calls'[c])
    BY <2>1 DEF CallFits, NoCall
  <2>3. calls' \in [Clients -> [rpc : Rpcs \cup {"none"},
                                op : Ops \cup {None}, epoch : Nat,
                                pc : {"idle", "fenced", "lock"}]]
    BY <2>1 DEF NoCall
  <2> QED BY <1>0, <2>1, <2>2, <2>3, CallStep
<1>5. CASE Restart
  <2>1. UNCHANGED <<job, calls, holder>>
    BY <1>5 DEF Restart
  <2>2. HolderFits'
    BY <1>0, <2>1, HolderKept
  <2> QED BY <1>0, <2>1, <2>2, ThreadStep
<1> QED BY <1>2, <1>3, <1>4, <1>5

-----------------------------------------------------------------------------
(* Steps of the ledger *)

\* The content as the ledger sees it, and what it says of an operation.
LEMMA TreeView ==
  ASSUME EngineInv
  PROVE  /\ [i \in DOMAIN files |-> files[i].op] \in Seq(Ops)
         /\ Len([i \in DOMAIN files |-> files[i].op]) = Len(files)
         /\ \A op : L!Changed(op) <=> Touched(op)
<1> DEFINE tree == [i \in DOMAIN files |-> files[i].op]
<1>1. files \in Seq(FileWrite) /\ DOMAIN files = 1..Len(files)
      /\ Len(files) \in Nat
  BY DEF EngineInv, EngineTyped
<1>2. tree \in [1..Len(files) -> Ops]
  <2>1. \A i \in 1..Len(files) : files[i] \in FileWrite
    BY <1>1
  <2>2. \A i \in 1..Len(files) : files[i].op \in Ops
    BY <2>1 DEF FileWrite
  <2> QED BY <1>1, <2>2
<1>3. tree \in Seq(Ops) /\ Len(tree) = Len(files)
  BY <1>1, <1>2
<1>4. \A op : L!Changed(op) <=> Touched(op)
  BY DEF L!Changed, Touched
<1> QED BY <1>3, <1>4

\* The active operation touches the content for the first time.
LEMMA WriteStep ==
  ASSUME EngineInv, NEW op \in Ops, wsRow.active = op, ~Touched(op),
         WritePartly(op), UNCHANGED journal
  PROVE  /\ L!Write(op) /\ files' \in Seq(FileWrite)
         /\ \A o : /\ Touched(o)' <=> Touched(o) \/ o = op
                   /\ Patched(o)' <=> Patched(o)
<1> DEFINE tree == [i \in DOMAIN files |-> files[i].op]
           w == [op |-> op, part |-> "partial"]
<1>1. /\ files \in Seq(FileWrite) /\ DOMAIN files = 1..Len(files)
      /\ Len(files) \in Nat /\ w \in FileWrite
  BY DEF EngineInv, EngineTyped, FileWrite
<1>2. files' = Append(files, w)
  BY DEF WritePartly
<1>3. w.op = op /\ \A o : w # [op |-> o, part |-> "full"]
  OBVIOUS
<1> HIDE DEF w
<1>4. /\ files' \in Seq(FileWrite) /\ Len(files') = Len(files) + 1
      /\ DOMAIN files' = 1..(Len(files) + 1)
      /\ files'[Len(files) + 1] = w
      /\ \A i \in 1..Len(files) : files'[i] = files[i]
  BY <1>1, <1>2
<1>5. \A o : /\ Touched(o)' <=> Touched(o) \/ o = op
             /\ Patched(o)' <=> Patched(o)
  BY <1>1, <1>3, <1>4 DEF Touched, Patched
<1>6. tree' = Append(tree, op)
  <2>1. tree \in Seq(Ops) /\ Len(tree) = Len(files) 
    BY TreeView
  <2>2. /\ Append(tree, op) \in Seq(Ops)
        /\ Len(Append(tree, op)) = Len(files) + 1
        /\ \A i \in 1..Len(files) : Append(tree, op)[i] = files[i].op
        /\ Append(tree, op)[Len(files) + 1] = op
    <3>1. \A i \in 1..Len(files) : tree[i] = files[i].op
      BY <1>1
    <3> HIDE DEF tree
    <3> QED BY <2>1, <3>1, AppendProperties
  <2>3. DOMAIN Append(tree, op) = 1..(Len(files) + 1)
    <3> HIDE DEF tree
    <3> QED BY <2>2
  <2>4. tree' = [i \in 1..(Len(files) + 1) |-> files'[i].op]
    BY <1>4
  <2>5. ASSUME NEW i \in 1..(Len(files) + 1)
        PROVE  tree'[i] = Append(tree, op)[i]
    <3>1. tree'[i] = files'[i].op
      BY <2>4
    <3>2. CASE i = Len(files) + 1
      BY <1>3, <1>4, <2>2, <3>1, <3>2
    <3>3. CASE i \in 1..Len(files)
      <4> HIDE DEF tree
      <4> QED BY <1>4, <2>2, <3>1, <3>3
    <3> QED BY <1>1, <3>2, <3>3
  <2>6. tree' \in Seq(Ops) /\ Len(tree') = Len(files) + 1
    <3>1. \A i \in 1..(Len(files) + 1) : files'[i] \in FileWrite
      BY <1>4
    <3>2. tree' \in [1..(Len(files) + 1) -> Ops]
      BY <2>4, <3>1 DEF FileWrite
    <3> HIDE DEF tree
    <3> QED BY <1>1, <3>2
  <2> HIDE DEF tree
  <2> QED BY <1>1, <2>2, <2>5, <2>6, SeqEqual
<1>7. OpsView' = OpsView /\ wsRow' = wsRow
  BY DEF OpsView, journal
<1>8. ~L!Changed(op)
  BY TreeView
<1>9. L!Write(op)
  BY <1>6, <1>7, <1>8 DEF L!Write
<1> QED BY <1>4, <1>5, <1>9

\* The rest of a patch that has begun: the same content to the ledger.
LEMMA RestStep ==
  ASSUME EngineInv, NEW op \in Ops, Touched(op), WriteRest(op),
         UNCHANGED journal
  PROVE  /\ L!ledgerVars' = L!ledgerVars /\ files' \in Seq(FileWrite)
         /\ \A o : /\ Touched(o)' <=> Touched(o)
                   /\ o # op => (Patched(o)' <=> Patched(o))
<1> DEFINE w == [op |-> op, part |-> "full"]
<1>1. /\ files \in Seq(FileWrite) /\ DOMAIN files = 1..Len(files)
      /\ Len(files) \in Nat /\ w \in FileWrite
  BY DEF EngineInv, EngineTyped, FileWrite
<1>2. files' = [i \in DOMAIN files |-> IF files[i].op = op THEN w ELSE files[i]]
  BY DEF WriteRest
<1>3. w.op = op /\ \A o : o # op => w # [op |-> o, part |-> "full"]
  OBVIOUS
<1>3a. \A o, q : [op |-> o, part |-> q].op = o
  OBVIOUS
<1> HIDE DEF w
<1>4. files' \in Seq(FileWrite)
  <2>1. files' \in [1..Len(files) -> FileWrite]
    BY <1>1, <1>2
  <2> QED BY <1>1, <2>1
<1>5. \A i \in DOMAIN files : files'[i].op = files[i].op
  BY <1>2, <1>3
<1>6. \A o : Touched(o)' <=> Touched(o)
  BY <1>2, <1>5 DEF Touched
<1>7. ASSUME NEW o, o # op PROVE Patched(o)' <=> Patched(o)
  BY <1>2, <1>3, <1>3a, <1>7 DEF Patched
<1>8. [i \in DOMAIN files |-> files[i].op]'
        = [i \in DOMAIN files |-> files[i].op]
  BY <1>2, <1>5
<1>9. OpsView' = OpsView /\ wsRow' = wsRow
  BY DEF OpsView, journal
<1> QED BY <1>4, <1>6, <1>7, <1>8, <1>9 DEF L!ledgerVars

\* A write of the active operation, by its executor or its container, keeps
\* the invariant.
LEMMA WriteInv ==
  ASSUME EngineInv, NEW op \in Ops, wsRow.active = op, ~Touched(op),
         WritePartly(op), UNCHANGED <<wsRow, opRow, job, holder, calls>>,
         \/ job[op] = "running"
         \/ Exec(op, "file")
  PROVE  EngineInv' /\ L!Write(op)
<1>1. /\ L!Write(op) /\ files' \in Seq(FileWrite)
      /\ \A o : /\ Touched(o)' <=> Touched(o) \/ o = op
                /\ Patched(o)' <=> Patched(o)
  BY WriteStep DEF journal
<1>2. /\ op \in DOMAIN opRow /\ opRow[op].status \notin Terminal
      /\ JobFits(op)
  BY EngineAssumption DEF EngineInv, RowsFit, JobsFit
<1>3. opRow[op].dispatched
  BY <1>2, ExecKnows DEF JobFits, ExecFits
<1>4. EngineTyped' /\ RowsFit' /\ CallsFit'
  BY <1>1 DEF EngineInv, EngineTyped, RowsFit, CallsFit, CallFits
<1>5. JobsFit'
  BY <1>1, <1>2, <1>3 DEF EngineInv, JobsFit, JobFits, isProcess
<1>6. PatchAllOrNothing'
  BY <1>1, <1>2 DEF EngineInv, PatchAllOrNothing, IsBefore, IsExpectedAfter
<1>7. HolderFits'
  <2> SUFFICES ASSUME holder # None
               PROVE  IF holder.kind = "exec" THEN ExecFits(holder)'
                      ELSE ReconFits(holder)'
    BY DEF HolderFits
  <2>1. CASE holder.kind = "exec"
    <3>1. ExecFits(holder) /\ holder.op = op
      BY <2>1 DEF EngineInv, HolderFits, ExecFits
    <3>2. holder.pc \notin {"marked", "create"}
      BY <3>1 DEF ExecFits, Exec
    <3>3. holder.pc = "complete" => KindOf[op] # "patch"
      <4>1. job[op] = "running" => isProcess(op)
        BY <1>2 DEF JobFits
      <4> QED BY <3>1, <4>1 DEF ExecFits, Exec, isProcess
    <3> QED BY <1>1, <2>1, <3>1, <3>2, <3>3
            DEF ExecFits, OutcomeFits, isProcess
  <2>2. CASE holder.kind # "exec"
    <3>1. ReconFits(holder) /\ job[op] = "running" /\ isProcess(op)
      BY <1>2, <2>2 DEF EngineInv, HolderFits, Exec, JobFits
    <3> QED BY <1>1, <2>2, <3>1 DEF ReconFits, OutcomeFits, isProcess
  <2> QED BY <2>1, <2>2
<1> QED BY <1>1, <1>4, <1>5, <1>6, <1>7 DEF EngineInv

\* Containers write while they run, file tools one file after the other.
LEMMA ContentInv ==
  ASSUME EngineInv, NEW op \in Ops, JobWrites(op) \/ FileTool(op)
  PROVE  EngineInv' /\ (L!Write(op) \/ L!ledgerVars' = L!ledgerVars)
<1>0. job \in [Ops -> JobState] /\ (opRow' = opRow => RowsQuiet)
  BY QuietRows DEF EngineInv, EngineTyped
<1>1. CASE JobWrites(op)
  <2>1. /\ job[op] = "running" /\ ~Touched(op) /\ WritePartly(op)
        /\ UNCHANGED <<wsRow, opRow, job, holder, calls>>
    BY <1>1 DEF JobWrites
  <2>2. op \in DOMAIN opRow /\ opRow[op].status \notin Terminal
    BY <2>1 DEF EngineInv, JobsFit, JobFits
  <2>3. wsRow.active = op
    BY <2>2 DEF EngineInv, RowsFit
  <2> QED BY <2>1, <2>3, WriteInv
<1>2. CASE FileTool(op)
  <2>1. Exec(op, "file") /\ UNCHANGED <<wsRow, opRow, job, calls>>
    BY <1>2 DEF FileTool
  <2>2. /\ ExecFits(holder) /\ holder \in ExecHolder /\ holder.op = op
        /\ holder.pc = "file" /\ wsRow.active = op /\ JobFits(op)
        /\ job[op] = "none" /\ op \in DOMAIN opRow
        /\ opRow[op].status \notin Terminal
    BY <2>1, ExecKnows DEF ExecFits, JobFits
  <2>3. ASSUME NEW status \in {"failed", "succeeded"}, Completing(status),
               UNCHANGED files,
               KindOf[op] = "patch" /\ status = "succeeded" => Patched(op)
        PROVE  EngineInv' /\ L!ledgerVars' = L!ledgerVars
    <3>1. OutcomeFits(op, status)'
      BY <2>1, <2>2, <2>3 DEF OutcomeFits, Patched, Terminal
    <3>2. HolderFits'
      BY <2>1, <2>2, <2>3, <3>1
         DEF HolderFits, ExecFits, ExecHolder, Completing, Terminal
    <3> QED BY <1>0, <2>1, <2>3, <3>2, ThreadStep
  <2>4. CASE ~Touched(op) /\ WritePartly(op) /\ UNCHANGED holder
    BY <2>1, <2>2, <2>4, WriteInv
  <2>5. CASE Touched(op) /\ WriteRest(op) /\ UNCHANGED holder
    <3>1. /\ L!ledgerVars' = L!ledgerVars /\ files' \in Seq(FileWrite)
          /\ \A o : /\ Touched(o)' <=> Touched(o)
                    /\ o # op => (Patched(o)' <=> Patched(o))
      BY <2>1, <2>5, RestStep DEF journal
    <3>2. EngineTyped' /\ RowsFit' /\ CallsFit'
      BY <2>1, <3>1 DEF EngineInv, EngineTyped, RowsFit, CallsFit, CallFits
    <3>3. JobsFit'
      BY <2>1, <3>1 DEF EngineInv, JobsFit, JobFits, isProcess
    <3>4. PatchAllOrNothing'
      BY <2>1, <2>2, <3>1
         DEF EngineInv, PatchAllOrNothing, IsBefore, IsExpectedAfter
    <3>5. HolderFits'
      <4>1. holder.kind = "exec"
        BY <2>2 DEF ExecHolder
      <4> QED BY <2>1, <2>2, <2>5, <3>1, <4>1
              DEF HolderFits, ExecFits, isProcess
    <3> QED BY <3>1, <3>2, <3>3, <3>4, <3>5 DEF EngineInv
  <2> QED BY <1>2, <2>3, <2>4, <2>5 DEF FileTool
<1> QED BY <1>1, <1>2

\* A commit of a receipt is the ledger's Settle.
LEMMA FinishStep ==
  ASSUME EngineInv, NEW op \in Ops, NEW status, OutcomeFits(op, status),
         \/ KindOf[op] # "patch" \/ status = "succeeded"
         \/ IsBefore(op) \/ IsExpectedAfter(op),
         CanFinish(op), finish(op, status),
         UNCHANGED <<files, job, calls>>, HolderFits'
  PROVE  EngineInv' /\ L!Settle(op, status)
<1>1. /\ op # None /\ op \in DOMAIN opRow /\ wsRow.active = op
      /\ opRow[op].status \notin Terminal /\ opRow[op].rev = wsRow.revision
      /\ status \in Terminal
      /\ opRow[op] \in OpRow
  BY EngineAssumption
     DEF EngineInv, EngineTyped, RowsFit, CanFinish, OutcomeFits
<1> DEFINE after == AfterRevision(op)
<1>2. after \in Nat
  BY <1>1 DEF AfterRevision, OpRow
<1>3. after = opRow[op].rev + (IF L!Changed(op) THEN 1 ELSE 0)
  BY TreeView DEF AfterRevision, IsBefore
<1>4. /\ opRow' = [opRow EXCEPT ![op].status = status, ![op].after = after]
      /\ wsRow' = [wsRow EXCEPT !.active = None, !.revision = after]
  BY DEF finish
<1> HIDE DEF after
<1>5. /\ DOMAIN opRow' = DOMAIN opRow
      /\ \A o \in DOMAIN opRow : o # op => opRow'[o] = opRow[o]
      /\ opRow'[op] \in OpRow /\ opRow'[op].status = status
      /\ opRow'[op].after = after /\ opRow'[op].epoch = opRow[op].epoch
      /\ opRow'[op].rev = opRow[op].rev
      /\ opRow'[op].dispatched = opRow[op].dispatched
      /\ opRow'[op].intent = opRow[op].intent
  BY <1>1, <1>2, <1>4 DEF OpRow
<1>6. /\ wsRow' \in [exists : BOOLEAN, epoch : Nat, revision : Nat,
                     active : Ops \cup {None}, adopting : BOOLEAN,
                     stopped : BOOLEAN, released : BOOLEAN]
      /\ wsRow'.active = None /\ wsRow'.exists = wsRow.exists
  BY <1>2, <1>4 DEF EngineInv, EngineTyped
<1>7. EngineTyped' /\ CallsFit'
  BY <1>5, <1>6 DEF EngineInv, EngineTyped, CallsFit, CallFits
<1>8. RowsFit'
  <2>1. wsRow.exists
    BY <1>1 DEF EngineInv, RowsFit
  <2>2. DOMAIN opRow \subseteq Ops
    BY DEF EngineInv, EngineTyped
  <2> QED BY <1>1, <1>5, <1>6, <2>1, <2>2, EngineAssumption
          DEF EngineInv, RowsFit
<1>9. JobsFit'
  <2> SUFFICES ASSUME NEW o \in Ops PROVE JobFits(o)'
    BY DEF JobsFit
  <2>1. JobFits(o) /\ (Touched(o)' <=> Touched(o))
    BY DEF EngineInv, JobsFit, Touched
  <2> QED BY <1>1, <1>5, <2>1 DEF JobFits, OutcomeFits
<1>10. PatchAllOrNothing'
  <2>1. \A o : /\ Touched(o)' <=> Touched(o)
               /\ Patched(o)' <=> Patched(o)
    BY DEF Touched, Patched
  <2> QED BY <1>5, <2>1 DEF EngineInv, PatchAllOrNothing, IsBefore,
                            IsExpectedAfter, OutcomeFits
<1>11. L!Settle(op, status)
  <2> DEFINE row(o) == [epoch |-> opRow[o].epoch, rev |-> opRow[o].rev,
                        after |-> opRow[o].after,
                        status |-> IF opRow[o].status \in Terminal
                                   THEN opRow[o].status ELSE "open"]
  <2>1. OpsView = [o \in DOMAIN opRow |-> row(o)]
    BY DEF OpsView
  <2>2. OpsView[op].rev = opRow[op].rev
    BY <1>1 DEF OpsView
  <2>3. OpsView' = [OpsView EXCEPT ![op].status = status, ![op].after = after]
    <3>1. OpsView' = [o \in DOMAIN opRow' |-> row(o)']
      BY DEF OpsView
    <3>2. row(op)' = [epoch |-> opRow[op].epoch, rev |-> opRow[op].rev,
                      after |-> after, status |-> status]
      BY <1>1, <1>5
    <3>3. [row(op) EXCEPT !.status = status, !.after = after]
            = [epoch |-> opRow[op].epoch, rev |-> opRow[op].rev,
               after |-> after, status |-> status]
      <4> DEFINE T == [epoch : Nat, rev : Nat, after : Nat,
                       status : Terminal \cup {"open"}]
      <4>1. row(op) \in T /\ row(op).epoch = opRow[op].epoch
            /\ row(op).rev = opRow[op].rev
        BY <1>1 DEF OpRow
      <4> HIDE DEF row
      <4> DEFINE y == [row(op) EXCEPT !.status = status, !.after = after]
                 z == [epoch |-> opRow[op].epoch, rev |-> opRow[op].rev,
                       after |-> after, status |-> status]
      <4>2. /\ y \in T /\ y.epoch = opRow[op].epoch
            /\ y.rev = opRow[op].rev /\ y.after = after /\ y.status = status
        BY <1>1, <1>2, <4>1
      <4>3. /\ z \in T /\ z.epoch = opRow[op].epoch
            /\ z.rev = opRow[op].rev /\ z.after = after /\ z.status = status
        BY <1>1, <1>2 DEF OpRow
      <4> HIDE DEF y, z
      <4>4. y = z
        BY <4>2, <4>3
      <4> QED BY <4>4 DEF y, z
    <3>4. \A o \in DOMAIN opRow : o # op => row(o)' = row(o)
      BY <1>5
    <3> HIDE DEF row
    <3> QED BY <1>5, <2>1, <3>1, <3>2, <3>3, <3>4
  <2>4. [i \in DOMAIN files |-> files[i].op]'
          = [i \in DOMAIN files |-> files[i].op]
    OBVIOUS
  <2>5. status \in L!Outcome
    BY <1>1 DEF L!Outcome, Terminal
  <2> HIDE DEF row
  <2> QED BY <1>1, <1>3, <1>4, <2>2, <2>3, <2>4, <2>5 DEF L!Settle
<1> QED BY <1>7, <1>8, <1>9, <1>10, <1>11 DEF EngineInv

\* complete, of the executor and of a reconciliation.
LEMMA CompleteInv ==
  ASSUME EngineInv,
         CompleteReconciled \/ \E op \in Ops : Complete(op)
  PROVE  EngineInv' /\ (\/ \E op \in Ops, status \in L!Outcome :
                              L!Settle(op, status)
                        \/ L!ledgerVars' = L!ledgerVars)
<1>0. L!Outcome = Terminal
  BY DEF L!Outcome, Terminal
<1>1. ASSUME NEW op \in Ops, Complete(op)
      PROVE  EngineInv' /\ (\/ \E status \in L!Outcome : L!Settle(op, status)
                            \/ L!ledgerVars' = L!ledgerVars)
  <2>1. Exec(op, "complete") /\ UNCHANGED <<files, job, calls>>
    BY <1>1 DEF Complete
  <2>2. /\ ExecFits(holder) /\ holder.op = op /\ holder.pc = "complete"
        /\ op \in DOMAIN opRow
    BY <2>1, ExecKnows
  <2>3. OutcomeFits(op, holder.status)
    BY <2>2 DEF ExecFits
  <2>4. CASE /\ \/ KindOf[op] # "patch" \/ holder.status = "succeeded"
                \/ IsBefore(op) \/ IsExpectedAfter(op)
             /\ CanFinish(op) /\ finish(op, holder.status) /\ holder' = None
    <3>1. HolderFits'
      BY <2>4 DEF HolderFits
    <3>2. PICK status : status = holder.status
      OBVIOUS
    <3>3. EngineInv' /\ L!Settle(op, status)
      BY <2>1, <2>3, <2>4, <3>1, <3>2, FinishStep
    <3>4. status \in L!Outcome
      BY <1>0, <2>3, <3>2 DEF OutcomeFits
    <3> QED BY <3>3, <3>4
  <2>5. CASE GiveUp(op) /\ UNCHANGED wsRow
    BY <2>1, <2>2, <2>5, GiveUpStep
  <2> QED BY <1>1, <2>4, <2>5 DEF Complete
<1>2. CASE CompleteReconciled
  <2>1. Recon("complete") /\ UNCHANGED <<files, job, calls>>
    BY <1>2 DEF CompleteReconciled
  <2>2. PICK op, status : op = holder.op /\ status = holder.status
    OBVIOUS
  <2>3. /\ ReconFits(holder) /\ holder \in ReconHolder
        /\ holder.pc = "complete" /\ holder.kind # "exec"
        /\ op \in DOMAIN opRow /\ op \in Ops
    BY <2>1, <2>2, ReconKnows
  <2>4. OutcomeFits(op, status) /\ status \in L!Outcome
    BY <1>0, <2>2, <2>3 DEF ReconFits, OutcomeFits
  <2>5. CASE /\ \/ KindOf[op] # "patch" \/ status = "succeeded"
                \/ IsBefore(op) \/ IsExpectedAfter(op)
             /\ CanFinish(op) /\ finish(op, status) /\ Goto("settled")
    <3>1. HolderFits'
      BY <2>3, <2>5 DEF HolderFits, ReconFits, ReconHolder, Goto
    <3>2. EngineInv' /\ L!Settle(op, status)
      BY <2>1, <2>3, <2>4, <2>5, <3>1, FinishStep
    <3> QED BY <2>3, <2>4, <3>2
  <2>6. CASE GiveUp(op) /\ UNCHANGED wsRow
    BY <2>1, <2>3, <2>6, GiveUpStep
  <2> QED BY <1>2, <2>2, <2>5, <2>6 DEF CompleteReconciled
<1> QED BY <1>1, <1>2

\* The workspace's row changes its epoch and its gate, and nothing else.
LEMMA GateInv ==
  ASSUME EngineInv, UNCHANGED <<opRow, files>>,
         wsRow' \in [exists : BOOLEAN, epoch : Nat, revision : Nat,
                     active : Ops \cup {None}, adopting : BOOLEAN,
                     stopped : BOOLEAN, released : BOOLEAN],
         wsRow.exists \/ DOMAIN opRow = {}, wsRow'.exists,
         wsRow'.active = wsRow.active,
         wsRow.active # None => wsRow'.revision = wsRow.revision
  PROVE  /\ RowsFit' /\ PatchAllOrNothing'
         /\ (job' = job => JobsFit')
         /\ OpsView' = OpsView
         /\ [i \in DOMAIN files |-> files[i].op]'
              = [i \in DOMAIN files |-> files[i].op]
<1>1. \A o : /\ Touched(o)' <=> Touched(o)
             /\ Patched(o)' <=> Patched(o)
  BY DEF Touched, Patched
<1>2. RowsFit' /\ OpsView' = OpsView
  BY DEF EngineInv, RowsFit, OpsView
<1>3. PatchAllOrNothing' /\ (job' = job => JobsFit')
  BY <1>1 DEF EngineInv, PatchAllOrNothing, IsBefore, IsExpectedAfter,
              JobsFit, JobFits, isProcess
<1> QED BY <1>2, <1>3

\* Requests and adoptions that move the gate.
LEMMA RequestInv ==
  ASSUME EngineInv, NEW e \in Epochs,
         \/ PrepareWorkspace(e) \/ ReleaseWorkspace(e)
         \/ \E c \in Clients, rpc \in {"adopt", "stop"} :
              FenceWorkspace(c, rpc, e)
         \/ \E c \in Clients, op \in Ops : CancelOperation(c, op, e)
  PROVE  EngineInv' /\ (L!LedgerNext \/ L!ledgerVars' = L!ledgerVars)
<1> DEFINE Row == [exists : BOOLEAN, epoch : Nat, revision : Nat,
                   active : Ops \cup {None}, adopting : BOOLEAN,
                   stopped : BOOLEAN, released : BOOLEAN]
           Call == [rpc : Rpcs \cup {"none"}, op : Ops \cup {None},
                    epoch : Nat, pc : {"idle", "fenced", "lock"}]
<1>0. /\ wsRow \in Row /\ calls \in [Clients -> Call] /\ e \in Nat
      /\ job \in [Ops -> JobState] /\ wsRow.epoch \in Nat
  BY EngineAssumption DEF EngineInv, EngineTyped
<1>1. ASSUME PrepareWorkspace(e)
      PROVE  EngineInv' /\ L!Prepare(e)
  <2>1. /\ ~wsRow.exists /\ holder = None
        /\ wsRow' = [NoRow EXCEPT !.exists = TRUE, !.epoch = e, !.revision = 1]
        /\ UNCHANGED <<opRow, files, job, holder, calls>>
    BY <1>1 DEF PrepareWorkspace
  <2>2. wsRow = NoRow /\ DOMAIN opRow = {}
    BY <2>1 DEF EngineInv, RowsFit
  <2>3. /\ wsRow' \in Row /\ wsRow'.exists /\ wsRow'.active = None
        /\ wsRow.active = None
    BY <1>0, <2>1, <2>2 DEF NoRow
  <2>4. /\ RowsFit' /\ PatchAllOrNothing' /\ JobsFit' /\ OpsView' = OpsView
        /\ [i \in DOMAIN files |-> files[i].op]'
             = [i \in DOMAIN files |-> files[i].op]
    BY <2>1, <2>2, <2>3, GateInv
  <2>5. EngineTyped' /\ CallsFit' /\ HolderFits'
    BY <1>0, <2>1, <2>3
       DEF EngineInv, EngineTyped, CallsFit, CallFits, HolderFits
  <2>6. L!Prepare(e)
    BY <2>1, <2>4 DEF L!Prepare, L!NoWorkspace, NoRow
  <2> QED BY <2>4, <2>5, <2>6 DEF EngineInv
<1>2. ASSUME ReleaseWorkspace(e)
      PROVE  EngineInv' /\ L!Release(e)
  <2>1. /\ holder = None /\ wsRow.exists /\ wsRow.epoch = e
        /\ wsRow.active = None
        /\ job' = [op \in Ops |-> IF Exited(op) THEN "removed" ELSE job[op]]
        /\ wsRow' = [wsRow EXCEPT !.released = TRUE, !.adopting = TRUE]
        /\ UNCHANGED <<opRow, files, holder, calls>>
    BY <1>2 DEF ReleaseWorkspace
  <2>2. /\ wsRow' \in Row /\ wsRow'.exists /\ wsRow'.active = wsRow.active
    BY <1>0, <2>1
  <2>3. /\ RowsFit' /\ PatchAllOrNothing' /\ OpsView' = OpsView
        /\ [i \in DOMAIN files |-> files[i].op]'
             = [i \in DOMAIN files |-> files[i].op]
    BY <2>1, <2>2, GateInv
  <2>4. /\ job' \in [Ops -> JobState]
        /\ \A op \in Ops : \/ job'[op] = job[op]
                           \/ job[op] \in {"ok", "bad"} /\ job'[op] = "removed"
    BY <1>0, <2>1 DEF Exited, JobState
  <2>5. JobsFit'
    <3>1. \A o : Touched(o)' <=> Touched(o)
      BY <2>1 DEF Touched
    <3> QED BY <2>1, <2>4, <3>1 DEF EngineInv, JobsFit, JobFits, isProcess
  <2>6. EngineTyped' /\ CallsFit' /\ HolderFits'
    BY <1>0, <2>1, <2>2, <2>4
       DEF EngineInv, EngineTyped, CallsFit, CallFits, HolderFits
  <2>7. L!Release(e)
    BY <2>1, <2>3 DEF L!Release
  <2> QED BY <2>3, <2>5, <2>6, <2>7 DEF EngineInv
<1>3. ASSUME NEW c \in Clients, NEW n \in Call, CallFits(n),
             NEW stop \in BOOLEAN,
             wsRow.exists, e >= wsRow.epoch, ~wsRow.released,
             wsRow.stopped => stop,
             wsRow' = [wsRow EXCEPT !.epoch = e, !.adopting = TRUE,
                                    !.stopped = @ \/ stop],
             calls' = [calls EXCEPT ![c] = n],
             UNCHANGED <<opRow, files, job, holder>>
      PROVE  EngineInv' /\ L!Fence(e, stop)
  <2>1. /\ wsRow' \in Row /\ wsRow'.exists /\ wsRow'.active = wsRow.active
        /\ wsRow'.revision = wsRow.revision
    BY <1>0, <1>3
  <2>2. /\ RowsFit' /\ PatchAllOrNothing' /\ JobsFit' /\ OpsView' = OpsView
        /\ [i \in DOMAIN files |-> files[i].op]'
             = [i \in DOMAIN files |-> files[i].op]
    BY <1>3, <2>1, GateInv
  <2>3. calls' \in [Clients -> Call]
    <3> HIDE DEF Call
    <3> QED BY <1>0, <1>3
  <2>4. CallsFit'
    <3>1. \A d \in Clients : calls'[d] = calls[d] \/ calls'[d] = n
      <4> HIDE DEF Call
      <4> QED BY <1>0, <1>3
    <3> QED BY <1>3, <3>1 DEF EngineInv, CallsFit, CallFits
  <2>5. EngineTyped'
    BY <1>0, <1>3, <2>1, <2>3 DEF EngineInv, EngineTyped
  <2>6. HolderFits'
    BY <1>3, <2>1 DEF EngineInv, HolderFits, ExecFits, ReconFits,
       OutcomeFits, Touched, Patched, isProcess
  <2>7. L!Fence(e, stop)
    BY <1>3, <2>2 DEF L!Fence
  <2> QED BY <2>2, <2>4, <2>5, <2>6, <2>7 DEF EngineInv
<1>4. ASSUME NEW c \in Clients, NEW rpc \in {"adopt", "stop"},
             FenceWorkspace(c, rpc, e)
      PROVE  EngineInv' /\ \E stop \in BOOLEAN : L!Fence(e, stop)
  <2> DEFINE n == [rpc |-> rpc, op |-> None, epoch |-> e, pc |-> "fenced"]
             stop == (rpc = "stop")
  <2>1. n \in Call /\ CallFits(n) /\ stop \in BOOLEAN
    BY <1>0 DEF CallFits, Rpcs
  <2>2. /\ wsRow.exists /\ e >= wsRow.epoch /\ ~wsRow.released
        /\ wsRow.stopped => stop
        /\ wsRow' = [wsRow EXCEPT !.epoch = e, !.adopting = TRUE,
                                  !.stopped = @ \/ stop]
        /\ calls' = [calls EXCEPT ![c] = n]
        /\ UNCHANGED <<opRow, files, job, holder>>
    BY <1>4 DEF FenceWorkspace
  <2> HIDE DEF n, stop, Call
  <2> QED BY <1>3, <2>1, <2>2
<1>5. ASSUME NEW c \in Clients, NEW op \in Ops, CancelOperation(c, op, e)
      PROVE  /\ EngineInv'
             /\ (\E stop \in BOOLEAN : L!Fence(e, stop))
                  \/ L!ledgerVars' = L!ledgerVars
  <2> DEFINE n == [rpc |-> "cancel", op |-> op, epoch |-> 0, pc |-> "fenced"]
  <2>1. /\ op \in DOMAIN opRow /\ calls' = [calls EXCEPT ![c] = n]
        /\ UNCHANGED <<opRow, files, job, holder>> /\ e >= wsRow.epoch
    BY <1>5 DEF CancelOperation
  <2>2. n \in Call /\ CallFits(n) /\ wsRow.exists
    BY <2>1 DEF CallFits, Rpcs, EngineInv, RowsFit
  <2> HIDE DEF n
  <2>3. CASE e > wsRow.epoch
    <3>1. /\ wsRow' = [wsRow EXCEPT !.epoch = e, !.adopting = TRUE]
          /\ ~wsRow.released /\ ~wsRow.stopped
      BY <1>5, <2>3 DEF CancelOperation
    <3>2. wsRow' = [wsRow EXCEPT !.epoch = e, !.adopting = TRUE,
                                 !.stopped = @ \/ FALSE]
      BY <1>0, <3>1
    <3> HIDE DEF Call
    <3> QED BY <1>3, <2>1, <2>2, <3>1, <3>2
  <2>4. CASE ~(e > wsRow.epoch)
    <3>1. wsRow' = wsRow
      BY <1>5, <2>4 DEF CancelOperation
    <3>2. RowsQuiet
      BY <2>1, QuietRows
    <3>3. HolderFits'
      BY <2>1, <3>1, <3>2, HolderKept
    <3>4. /\ calls' \in [Clients -> Call]
          /\ \A d \in Clients : calls'[d] = calls[d] \/ CallFits(calls'[d])
      <4> HIDE DEF Call
      <4> QED BY <1>0, <2>1, <2>2
    <3> QED BY <2>1, <3>1, <3>2, <3>3, <3>4, CallStep
  <2> QED BY <2>3, <2>4
<1> QED BY <1>1, <1>2, <1>4, <1>5 DEF L!LedgerNext

\* StartOperation is the ledger's Accept.
LEMMA StartInv ==
  ASSUME EngineInv, NEW op \in Ops, NEW e \in Epochs,
         StartOperation(op, e, wsRow.revision)
  PROVE  EngineInv' /\ L!Accept(op, e, wsRow.revision)
<1> DEFINE new == [epoch |-> e, rev |-> wsRow.revision, status |-> "prepared",
                   after |-> 0, cancel |-> FALSE, dispatched |-> FALSE,
                   intent |-> FALSE]
<1>1. /\ holder = None /\ wsRow.exists /\ wsRow.epoch = e
      /\ ~wsRow.adopting /\ ~wsRow.released /\ ~wsRow.stopped
      /\ op \notin DOMAIN opRow /\ wsRow.active = None
      /\ wsRow' = [wsRow EXCEPT !.active = op]
      /\ opRow' = [o \in DOMAIN opRow \cup {op} |->
                     IF o = op THEN new ELSE opRow[o]]
      /\ holder' = None
           \/ holder' = [kind |-> "exec", op |-> op, pc |-> "spawned",
                         status |-> "none", ended |-> FALSE]
      /\ UNCHANGED <<files, job, calls>>
  BY DEF StartOperation
<1>2. /\ DOMAIN opRow' = DOMAIN opRow \cup {op} /\ opRow'[op] = new
      /\ \A o \in DOMAIN opRow : o # op /\ opRow'[o] = opRow[o]
  BY <1>1
<1>3. /\ wsRow \in [exists : BOOLEAN, epoch : Nat, revision : Nat,
                    active : Ops \cup {None}, adopting : BOOLEAN,
                    stopped : BOOLEAN, released : BOOLEAN]
      /\ e \in Nat /\ op # None
  BY EngineAssumption DEF EngineInv, EngineTyped
<1>4. /\ wsRow'.active = op /\ wsRow'.exists
      /\ wsRow'.revision = wsRow.revision
      /\ wsRow' \in [exists : BOOLEAN, epoch : Nat, revision : Nat,
                    active : Ops \cup {None}, adopting : BOOLEAN,
                    stopped : BOOLEAN, released : BOOLEAN]
  BY <1>1, <1>3
<1>5. /\ new \in OpRow /\ new.status = "prepared" /\ new.status \notin Terminal
      /\ ~new.dispatched /\ ~new.intent /\ new.rev = wsRow.revision
      /\ new.epoch = e /\ new.after = 0
  BY <1>3 DEF OpRow, Terminal
<1> HIDE DEF new
<1>6. EngineTyped' /\ CallsFit'
  BY <1>1, <1>2, <1>4, <1>5
     DEF EngineInv, EngineTyped, CallsFit, CallFits
<1>7. RowsFit'
  <2>1. \A o \in DOMAIN opRow : opRow[o].status \in Terminal
    BY <1>1, EngineAssumption DEF EngineInv, RowsFit, EngineTyped
  <2> QED BY <1>2, <1>4, <1>5, <2>1 DEF RowsFit
<1>8. \A o : /\ Touched(o)' <=> Touched(o)
             /\ Patched(o)' <=> Patched(o)
  BY <1>1 DEF Touched, Patched
<1>9. JobsFit' /\ job[op] = "none" /\ ~Touched(op)
  BY <1>1, <1>2, <1>5, <1>8 DEF EngineInv, JobsFit, JobFits, isProcess
<1>10. PatchAllOrNothing'
  BY <1>2, <1>5, <1>8
     DEF EngineInv, PatchAllOrNothing, IsBefore, IsExpectedAfter
<1>11. HolderFits'
  <2>1. CASE holder' = None
    BY <2>1 DEF HolderFits
  <2>2. CASE holder' = [kind |-> "exec", op |-> op, pc |-> "spawned",
                        status |-> "none", ended |-> FALSE]
    <3>1. /\ holder' \in ExecHolder /\ holder'.kind = "exec"
          /\ holder'.op = op /\ holder'.pc = "spawned"
      BY <2>2 DEF ExecHolder
    <3>2. opRow'[op].status = "prepared" /\ ~opRow'[op].dispatched
      BY <1>2, <1>5
    <3>3. ExecFits(holder)'
      BY <1>4, <3>1, <3>2 DEF ExecFits
    <3> QED BY <3>1, <3>3 DEF HolderFits
  <2> QED BY <1>1, <2>1, <2>2
<1>12. L!Accept(op, e, wsRow.revision)
  <2>1. DOMAIN OpsView = DOMAIN opRow
    BY DEF OpsView
  <2>2. OpsView' = [o \in DOMAIN opRow \cup {op} |->
                      IF o = op
                      THEN [epoch |-> e, rev |-> wsRow.revision,
                            status |-> "open", after |-> 0]
                      ELSE OpsView[o]]
    <3>1. OpsView' = [o \in DOMAIN opRow' |->
                        [epoch |-> opRow'[o].epoch, rev |-> opRow'[o].rev,
                         after |-> opRow'[o].after,
                         status |-> IF opRow'[o].status \in Terminal
                                    THEN opRow'[o].status ELSE "open"]]
      BY DEF OpsView
    <3>2. \A o \in DOMAIN opRow :
            [epoch |-> opRow'[o].epoch, rev |-> opRow'[o].rev,
             after |-> opRow'[o].after,
             status |-> IF opRow'[o].status \in Terminal
                        THEN opRow'[o].status ELSE "open"] = OpsView[o]
      BY <1>2 DEF OpsView
    <3> QED BY <1>2, <1>5, <3>1, <3>2
  <2>3. [i \in DOMAIN files |-> files[i].op]'
          = [i \in DOMAIN files |-> files[i].op]
    BY <1>1
  <2> QED BY <1>1, <2>1, <2>2, <2>3 DEF L!Accept
<1> QED BY <1>6, <1>7, <1>9, <1>10, <1>11, <1>12 DEF EngineInv

\* The end of a call: an adoption reopens the gate if it still may.
LEMMA FinishCallInv ==
  ASSUME EngineInv, FinishCall
  PROVE  EngineInv' /\ (\/ \E e \in Epochs : L!Reopen(e)
                        \/ L!ledgerVars' = L!ledgerVars)
<1>1. /\ Recon("settled") /\ holder' = None
      /\ UNCHANGED <<opRow, files, job, calls>>
  BY DEF FinishCall
<1>2. ReconFits(holder) /\ HolderFits'
  BY <1>1, ReconKnows DEF HolderFits
<1>3. CASE wsRow' = wsRow
  BY <1>1, <1>2, <1>3, QuietRows, ThreadStep DEF EngineInv, EngineTyped
<1>4. CASE /\ holder.kind = "adopt" /\ wsRow.epoch = holder.epoch
           /\ wsRow.active = None /\ ~wsRow.stopped /\ ~wsRow.released
           /\ wsRow' = [wsRow EXCEPT !.adopting = FALSE]
  <2>1. PICK e \in Epochs : e = holder.epoch
    BY <1>2, <1>4 DEF ReconFits
  <2>2. wsRow.exists
    BY <1>4, <2>1, EngineAssumption DEF EngineInv, RowsFit, NoRow
  <2>3. /\ wsRow' \in [exists : BOOLEAN, epoch : Nat, revision : Nat,
                       active : Ops \cup {None}, adopting : BOOLEAN,
                       stopped : BOOLEAN, released : BOOLEAN]
        /\ wsRow'.exists /\ wsRow'.active = wsRow.active
        /\ wsRow'.revision = wsRow.revision
    BY <1>4, <2>2 DEF EngineInv, EngineTyped
  <2>4. /\ RowsFit' /\ PatchAllOrNothing' /\ JobsFit' /\ OpsView' = OpsView
        /\ [i \in DOMAIN files |-> files[i].op]'
             = [i \in DOMAIN files |-> files[i].op]
    BY <1>1, <2>2, <2>3, GateInv
  <2>5. EngineTyped' /\ CallsFit'
    BY <1>1, <2>3 DEF EngineInv, EngineTyped, CallsFit, CallFits
  <2>6. L!Reopen(e)
    BY <1>1, <1>4, <2>1, <2>2, <2>4 DEF L!Reopen
  <2> QED BY <1>2, <2>4, <2>5, <2>6 DEF EngineInv
<1> QED BY <1>3, <1>4 DEF FinishCall

-----------------------------------------------------------------------------
(* The theorems *)

\* Nothing has happened yet, in the engine and in the ledger.
LEMMA EngineInit == Init => EngineInv /\ L!LedgerInit
<1> SUFFICES ASSUME Init PROVE EngineInv /\ L!LedgerInit
  OBVIOUS
<1>1. /\ wsRow = NoRow /\ opRow = << >> /\ files = << >> /\ holder = None
      /\ job = [op \in Ops |-> "none"] /\ calls = [c \in Clients |-> NoCall]
  BY DEF Init
<1>2. DOMAIN opRow = {} /\ DOMAIN files = {}
  BY <1>1
<1>3. EngineTyped
  BY <1>1, <1>2 DEF EngineTyped, NoRow, JobState, NoCall
<1>4. RowsFit /\ HolderFits /\ CallsFit /\ PatchAllOrNothing
  BY <1>1, <1>2 DEF RowsFit, NoRow, HolderFits, CallsFit, CallFits, NoCall,
                    PatchAllOrNothing
<1>5. JobsFit
  BY <1>1, <1>2 DEF JobsFit, JobFits, Touched
<1>6. L!LedgerInit
  <2>1. OpsView = << >> /\ [i \in DOMAIN files |-> files[i].op] = << >>
    BY <1>2 DEF OpsView
  <2> QED BY <1>1, <2>1 DEF L!LedgerInit, L!NoWorkspace, NoRow
<1> QED BY <1>3, <1>4, <1>5, <1>6 DEF EngineInv

\* Every step of the engine keeps the invariant and is a step of the ledger or
\* invisible to it.
LEMMA EngineNext ==
  EngineInv /\ [Next]_vars => EngineInv' /\ [L!LedgerNext]_(L!ledgerVars)
<1> SUFFICES ASSUME EngineInv, [Next]_vars
             PROVE  EngineInv' /\ (L!LedgerNext \/ L!ledgerVars' = L!ledgerVars)
  OBVIOUS
<1>1. CASE Request
  <2>1. ASSUME NEW e \in Epochs, NEW op \in Ops,
               StartOperation(op, e, wsRow.revision)
        PROVE  EngineInv' /\ L!LedgerNext
    BY <2>1, StartInv DEF L!LedgerNext
  <2> QED BY <1>1, <2>1, RequestInv, HandlerInv DEF Request
<1>2. CASE Handler
  <2>1. CASE \E c \in Clients : RequestCancel(c) \/ TakeLock(c)
    BY <2>1, HandlerInv
  <2>2. CASE \/ ReconcileFiles \/ ReconcileFails
             \/ \E kill \in BOOLEAN : ReconcileJob(kill)
    BY <2>2, ReconcileInv
  <2>3. CASE CompleteReconciled
    BY <2>3, CompleteInv DEF L!LedgerNext
  <2>4. CASE FinishCall
    BY <2>4, FinishCallInv DEF L!LedgerNext
  <2> QED BY <1>2, <2>1, <2>2, <2>3, <2>4 DEF Handler
<1>3. ASSUME NEW op \in Ops, Daemon(op) \/ Executor(op) \/ DockerFails(op)
      PROVE  EngineInv' /\ (L!LedgerNext \/ L!ledgerVars' = L!ledgerVars)
  <2>1. CASE JobWrites(op) \/ FileTool(op)
    BY <2>1, ContentInv DEF L!LedgerNext
  <2>2. CASE Complete(op)
    BY <2>2, CompleteInv DEF L!LedgerNext
  <2> QED BY <1>3, <2>1, <2>2, DaemonInv, ExecutorInv DEF Daemon, Executor
<1>4. CASE Deadline
  BY <1>4, ExecutorInv
<1>5. CASE BeginShutdown \/ Crash \/ Restart
  BY <1>5, DaemonInv
<1>6. CASE UNCHANGED vars
  <2>1. UNCHANGED <<wsRow, opRow, files, job, holder, calls>>
    BY <1>6 DEF vars
  <2>2. RowsQuiet
    BY <2>1, QuietRows
  <2>3. HolderFits'
    BY <2>1, <2>2, HolderKept
  <2> QED BY <2>1, <2>2, <2>3, ThreadStep DEF EngineInv, EngineTyped
<1> QED BY <1>1, <1>2, <1>3, <1>4, <1>5, <1>6 DEF Next

\* The invariant holds of every reachable state.
LEMMA EngineAlways == Spec => []EngineInv
BY EngineInit, EngineNext, PTL DEF Spec

\* Through crashes, restarts, shutdowns, lost and repeated requests of any
\* number of handlers and epochs, the engine implements the ledger.
THEOREM EngineImplementsLedger == Spec => ImplementsLedger
BY EngineInit, EngineNext, PTL DEF Spec, ImplementsLedger, L!LedgerSpec

\* No receipt is issued for a container that runs or may still be started.
THEOREM NoJobOutlivesReceipt == Spec => []NoOrphanJob
<1>1. EngineInv => NoOrphanJob
  BY DEF EngineInv, EngineTyped, JobsFit, JobFits, NoOrphanJob
<1> QED BY EngineAlways, <1>1, PTL

\* A settled patch is there in full or not at all.
THEOREM PatchesAllOrNothing == Spec => []PatchAllOrNothing
<1>1. EngineInv => PatchAllOrNothing
  BY DEF EngineInv
<1> QED BY EngineAlways, <1>1, PTL
=============================================================================

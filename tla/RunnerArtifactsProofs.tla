------------------------ MODULE RunnerArtifactsProofs ------------------------
(***************************************************************************)
(* Proofs about RunnerArtifacts for every set of operations, processes and *)
(* epochs and every bound.  What a receipt points at is right because of   *)
(* what each step of the executor has left behind for the next one:        *)
(* ArtifactInv says, for the stage the engine is in, which bytes are there *)
(* and pinned, what state the container is in, and how the counters of the *)
(* capture, the spool, its metadata and the published log are related.     *)
(***************************************************************************)
EXTENDS RunnerArtifacts, OperationLedgerProofs

-----------------------------------------------------------------------------
(* The inductive invariant *)

Reasons == {"none", "unset", "output_limit", "spool_io_error", "capture_gap",
            "never_started"}
LogMeta == [complete : BOOLEAN, seen : Nat, kept : Nat, dropped : Int,
            truncated : BOOLEAN, reason : Reasons, requested : BOOLEAN]
JobRow == [box : {"none", "created", "running", "exited", "removed"},
           known : BOOLEAN, intent : BOOLEAN, ok : BOOLEAN, written : Nat,
           cut : BOOLEAN, kept : Nat, torn : BOOLEAN, meta : LogMeta,
           log : LogMeta]
EngineState ==
  [pc : {"idle", "run", "ready", "pinlog", "pin", "finish"},
   status : Outcome \cup {"none"}, never : BOOLEAN, killed : BOOLEAN,
   stream : {"off", "on", "eof", "gap"}, seen : Nat,
   failed : {"none", "output_limit", "spool_io_error"}, requested : BOOLEAN]

ArtifactTyped ==
  /\ engine \in EngineState /\ job \in [Process -> JobRow]
  /\ DOMAIN pins = {"own", "other"}

\* The objects that are referenced are there; a journal that is not registered
\* has pinned nothing.
StoreFits ==
  /\ ready \subseteq objects /\ pins["own"] \subseteq objects
  /\ pins["other"] \subseteq objects
  /\ "other" \notin registered => pins["other"] = {}

\* A log that calls itself complete accounts for what was written, and one that a
\* verification accepts has dropped nothing.
LogFits(j) ==
  /\ j.log.complete /\ ~j.cut => j.log.kept + j.log.dropped = j.written
  /\ VerificationLogValid(j.log) => j.log.dropped = 0

\* The metadata authenticates the spool.
MetaFits(j) ==
  j.meta # NoLog =>
    /\ j.intent /\ j.meta.kept = j.kept /\ validLogMetadata(j.meta, j.kept)
    /\ j.meta.complete /\ ~j.cut => j.meta.seen = j.written

\* What is left of the container of an operation that has been completed.
BoxStopped(j) == j.box \in {"none", "removed"} \/ (j.box = "exited" /\ j.known)

JobFits(id) ==
  LET j == job[id]
  IN /\ id \notin DOMAIN ops => j = NewJob
     /\ j.box \in {"running", "exited"} => j.known /\ j.intent
     /\ j.box = "none" => ~j.known /\ ~j.intent
     /\ j.box = "running" => ws.active = id
     /\ ~j.intent => j.written = 0 /\ j.kept = 0
     /\ MetaFits(j)
     /\ Settled(id) => /\ BoxStopped(j) /\ LogFits(j)
                       /\ ops[id].status = "succeeded" => VerificationLogValid(j.log)
     /\ ws.released => j.box \in {"none", "removed"}

\* The capture, while the executor drains the output.
CaptureFits(j) ==
  /\ j.meta = NoLog /\ engine.seen >= j.kept
  /\ engine.failed = "none" => engine.seen = j.kept
  /\ engine.requested => engine.failed # "none"
  /\ engine.stream # "off" => j.intent
  /\ engine.stream = "eof" /\ ~j.cut => engine.seen = j.written

\* The stages of Engine.complete for a process.
PublicationFits(id) ==
  LET j == job[id]
  IN /\ engine.pc = "run" => CaptureFits(j)
     /\ engine.pc \in {"ready", "pinlog", "pin", "finish"} => BoxStopped(j)
     /\ engine.pc = "ready" /\ engine.never => ~j.intent
     /\ engine.pc \in {"pinlog", "pin", "finish"} =>
          LogFits(j) /\ (engine.status = "succeeded" => VerificationLogValid(j.log))
     /\ engine.pc = "pinlog" => LogObject(id) \in objects

EngineFits ==
  /\ engine.pc # "idle" => ws.active \in OpIds
  /\ engine.pc = "pinlog" => ws.active \in Process
  /\ engine.pc \in {"ready", "pinlog", "pin", "finish"} => engine.status \in Outcome
  /\ engine.pc = "pin" => Receipt(ws.active, engine.status) \in objects
  /\ engine.pc = "finish" => Receipt(ws.active, engine.status) \in pins["own"]
  /\ ws.active \in Process => PublicationFits(ws.active)

ReceiptsPinned ==
  \A id \in OpIds : Settled(id) => Receipt(id, ops[id].status) \in pins["own"]

ArtifactInv ==
  /\ LedgerInv /\ ArtifactTyped /\ StoreFits /\ ReceiptsPinned /\ EngineFits
  /\ \A id \in Process : JobFits(id)

-----------------------------------------------------------------------------
(* What a step must show *)

\* Every step is a step of the ledger or leaves it alone.
LEMMA ArtifactLedger ==
  ASSUME ArtifactNext
  PROVE  [LedgerNext]_ledgerVars
<1>1. ASSUME NEW id \in Process, JobStep(id) PROVE UNCHANGED ledgerVars
  BY <1>1 DEF JobStep, CreateJob, recordLogContainer, StartJob, JobExits, Drain,
       StreamEnds, StopJob, FinishCapture, PublishLog
<1>2. ASSUME NEW id \in OpIds, OpStep(id) PROVE [LedgerNext]_ledgerVars
  <2>1. CASE ChangeContent(id)
    BY <2>1 DEF ChangeContent, LedgerNext
  <2>2. CASE Commit(id)
    BY <2>2 DEF Commit, LedgerNext, Settle
  <2>3. ASSUME NEW e \in Epochs, AcceptOp(id, e) PROVE LedgerNext
    BY <2>3 DEF AcceptOp, LedgerNext
  <2>4. CASE \/ FinishTool(id) \/ CompleteUnstarted(id) \/ Reconcile(id)
             \/ PutReceipt(id) \/ PinReceipt(id) \/ PublishReceipt(id)
    BY <2>4 DEF FinishTool, CompleteUnstarted, Reconcile, PutReceipt, PinReceipt,
         PublishReceipt
  <2> QED BY <1>2, <2>1, <2>2, <2>3, <2>4 DEF OpStep
<1>3. ASSUME NEW e \in Epochs, Gate(e) \/ ReleaseWorkspace(e) PROVE LedgerNext
  BY <1>3 DEF Gate, ReleaseWorkspace, LedgerNext
<1>4. CASE Crash \/ OtherRunner \/ Collect
  BY <1>4 DEF Crash, OtherRunner, Collect
<1> QED BY <1>1, <1>2, <1>3, <1>4 DEF ArtifactNext

\* The part of the state that is the ledger keeps the ledger's invariant.
LEMMA LedgerKept ==
  ASSUME ArtifactInv, [LedgerNext]_ledgerVars
  PROVE  LedgerInv'
BY LedgerNextInv DEF ArtifactInv

\* The active operation has no receipt, and its workspace is not released.
LEMMA ActiveOpen ==
  ASSUME ArtifactInv, ws.active \in OpIds
  PROVE  /\ ws.active \in DOMAIN ops /\ ops[ws.active].status = "open"
         /\ ~Settled(ws.active) /\ ~ws.released /\ ws.active # NoOp
BY OpAssumption
   DEF ArtifactInv, LedgerInv, SingleWriter, Grounded, Settled

\* The receipts that were pinned stay so where nothing is settled.
LEMMA ReceiptsKept ==
  ASSUME ArtifactInv, pins["own"] \subseteq pins'["own"],
         \A i \in OpIds :
           Settled(i)' =>
             /\ Settled(i) /\ ops'[i] = ops[i]
             /\ i \in Process => job'[i].log.kept = job[i].log.kept
  PROVE  ReceiptsPinned'
<1> SUFFICES ASSUME NEW i \in OpIds, Settled(i)'
             PROVE  Receipt(i, ops[i].status)' \in pins'["own"]
  BY DEF ReceiptsPinned
<1>1. Receipt(i, ops[i].status)' = Receipt(i, ops[i].status)
  BY DEF Receipt, Object
<1>2. Receipt(i, ops[i].status) \in pins["own"]
  BY DEF ArtifactInv, ReceiptsPinned
<1> QED BY <1>1, <1>2

\* Steps of the store and of the gate.
LEMMA StoreInv ==
  ASSUME ArtifactInv, LedgerInv', UNCHANGED <<ops, engine, job>>,
         ws'.active = ws.active, ws'.released = ws.released,
         DOMAIN pins' = {"own", "other"}, StoreFits',
         pins["own"] \subseteq pins'["own"],
         Publishing => objects \subseteq objects'
  PROVE  ArtifactInv'
<1>1. ArtifactTyped'
  BY DEF ArtifactInv, ArtifactTyped
<1>2. ReceiptsPinned'
  BY ReceiptsKept DEF Settled
<1>3. EngineFits'
  <2>1. EngineFits
    BY DEF ArtifactInv
  <2>2. ws.active \in Process => PublicationFits(ws.active)'
    BY <2>1
       DEF EngineFits, PublicationFits, CaptureFits, BoxStopped, LogFits,
           LogObject, Object, Publishing
  <2>3. Receipt(ws.active, engine.status)' = Receipt(ws.active, engine.status)
    BY DEF Receipt, Object
  <2> QED BY <2>1, <2>2, <2>3 DEF EngineFits, Publishing
<1>4. ASSUME NEW i \in Process PROVE JobFits(i)'
  <2>1. JobFits(i)
    BY DEF ArtifactInv
  <2> QED BY <2>1 DEF JobFits, MetaFits, Settled, BoxStopped, LogFits
<1> QED BY <1>1, <1>2, <1>3, <1>4 DEF ArtifactInv

\* Steps of the engine that leave the ledger and the jobs alone.
LEMMA EngineStepInv ==
  ASSUME ArtifactInv, UNCHANGED <<ledgerVars, job>>,
         engine' \in EngineState, EngineFits',
         DOMAIN pins' = {"own", "other"}, StoreFits',
         pins["own"] \subseteq pins'["own"]
  PROVE  ArtifactInv'
<1>1. UNCHANGED <<ws, ops, tree>>
  BY DEF ledgerVars
<1>2. ArtifactTyped'
  BY DEF ArtifactInv, ArtifactTyped
<1>3. ReceiptsPinned'
  BY <1>1, ReceiptsKept DEF Settled
<1>4. ASSUME NEW i \in Process PROVE JobFits(i)'
  <2>1. JobFits(i)
    BY DEF ArtifactInv
  <2> QED BY <1>1, <2>1 DEF JobFits, MetaFits, Settled, BoxStopped, LogFits
<1>5. LedgerInv'
  BY LedgerKept
<1> QED BY <1>2, <1>3, <1>4, <1>5 DEF ArtifactInv

\* Steps of the active process's job, before its log is published.
LEMMA JobRowInv ==
  ASSUME ArtifactInv, UNCHANGED <<ledgerVars, storeVars>>,
         NEW id \in Process, ws.active = id,
         NEW j \in JobRow, job' = [job EXCEPT ![id] = j],
         engine' \in EngineState,
         j.box \in {"running", "exited"} => j.known /\ j.intent,
         j.box = "none" => ~j.known /\ ~j.intent,
         ~j.intent => j.written = 0 /\ j.kept = 0,
         MetaFits(j),
         engine'.pc \in {"idle", "run", "ready"},
         engine'.pc = "run" => CaptureFits(j)',
         engine'.pc = "ready" => /\ engine'.status \in Outcome
                                 /\ BoxStopped(j) /\ (engine'.never => ~j.intent)
  PROVE  ArtifactInv'
<1>1. /\ UNCHANGED <<ws, ops, tree, objects, pins, ready, registered>>
      /\ job \in [Process -> JobRow] /\ id \in OpIds
  BY ArtifactAssumption DEF ledgerVars, storeVars, ArtifactInv, ArtifactTyped
<1>2. job'[id] = j /\ \A i \in Process \ {id} : job'[i] = job[i]
  BY <1>1
<1>3. id \in DOMAIN ops /\ ops[id].status = "open" /\ ~Settled(id) /\ ~ws.released
  BY <1>1, ActiveOpen
<1>4. LedgerInv'
  BY LedgerKept
<1>5. ArtifactTyped' /\ StoreFits'
  BY <1>1 DEF ArtifactInv, ArtifactTyped, StoreFits
<1>6. ReceiptsPinned'
  BY <1>1, <1>2, <1>3, ReceiptsKept DEF Settled
<1>7. ASSUME NEW i \in Process PROVE JobFits(i)'
  <2>1. CASE i = id
    BY <1>1, <1>2, <1>3, <2>1 DEF JobFits, Settled, MetaFits
  <2>2. CASE i # id
    <3>1. JobFits(i) /\ job'[i] = job[i]
      BY <1>2, <2>2 DEF ArtifactInv
    <3> QED BY <1>1, <3>1 DEF JobFits, MetaFits, Settled, BoxStopped, LogFits
  <2> QED BY <2>1, <2>2
<1>8. EngineFits'
  <2>1. PublicationFits(id)'
    BY <1>2 DEF PublicationFits, CaptureFits, BoxStopped
  <2> QED BY <1>1, <2>1 DEF EngineFits
<1> QED BY <1>4, <1>5, <1>6, <1>7, <1>8 DEF ArtifactInv

-----------------------------------------------------------------------------
(* The container and its capture *)

\* The row of the active process, before and after.
LEMMA JobFacts ==
  ASSUME ArtifactInv, NEW id \in Process, ws.active = id
  PROVE  /\ job[id] \in JobRow /\ engine \in EngineState
         /\ job \in [Process -> JobRow]
         /\ JobFits(id) /\ PublicationFits(id) /\ id \in OpIds
BY ArtifactAssumption
   DEF ArtifactInv, ArtifactTyped, EngineFits

\* The container is created and its ID recorded.
LEMMA CreateInv ==
  ASSUME ArtifactInv, NEW id \in Process,
         CreateJob(id) \/ recordLogContainer(id)
  PROVE  ArtifactInv'
<1>1. /\ ws.active = id /\ engine.pc = "run"
      /\ UNCHANGED <<ledgerVars, engine, storeVars>>
      /\ job[id].box \in {"none", "created"}
  BY DEF CreateJob, recordLogContainer, Running
<1>2. /\ job[id] \in JobRow /\ engine \in EngineState
      /\ job \in [Process -> JobRow]
      /\ JobFits(id) /\ PublicationFits(id)
  BY <1>1, JobFacts
<1> DEFINE row == [job[id] EXCEPT !.box = "created"]
           rec == [job[id] EXCEPT !.known = TRUE]
<1>3. PICK j : /\ job' = [job EXCEPT ![id] = j]
               /\ j = row \/ (job[id].box = "created" /\ j = rec)
  BY <1>2 DEF CreateJob, recordLogContainer
<1>4. /\ j \in JobRow /\ j.box = "created" /\ j.intent = job[id].intent
      /\ j.written = job[id].written /\ j.kept = job[id].kept
      /\ j.meta = job[id].meta /\ j.cut = job[id].cut
  BY <1>2, <1>3 DEF JobRow
<1>5. MetaFits(j) /\ CaptureFits(j)' /\ (~j.intent => j.written = 0 /\ j.kept = 0)
  BY <1>1, <1>2, <1>4
     DEF JobFits, PublicationFits, MetaFits, CaptureFits
<1> QED BY <1>1, <1>2, <1>3, <1>4, <1>5, JobRowInv

\* The container starts and its output is attached.
LEMMA StartInv ==
  ASSUME ArtifactInv, NEW id \in Process, StartJob(id)
  PROVE  ArtifactInv'
<1>1. /\ ws.active = id /\ engine.pc = "run" /\ job[id].known /\ ~job[id].intent
      /\ UNCHANGED <<ledgerVars, storeVars>>
  BY DEF StartJob, Running
<1>2. /\ job[id] \in JobRow /\ engine \in EngineState
      /\ job \in [Process -> JobRow]
      /\ JobFits(id) /\ PublicationFits(id)
  BY <1>1, JobFacts
<1>3. PICK started \in BOOLEAN, told \in BOOLEAN, n \in 0..MaxOut :
        /\ job' = [job EXCEPT ![id].intent = TRUE, ![id].written = n,
                              ![id].box = IF started THEN "running" ELSE @]
        /\ engine' = [engine EXCEPT !.stream = IF told THEN "on" ELSE "gap"]
  BY DEF StartJob
<1> DEFINE row == [job[id] EXCEPT !.intent = TRUE, !.written = n,
                                  !.box = IF started THEN "running" ELSE job[id].box]
<1>4. PICK j : j = row
  OBVIOUS
<1>5. job' = [job EXCEPT ![id] = j]
  BY <1>2, <1>3, <1>4
<1>6. n \in Nat
  BY ArtifactAssumption
<1>7. /\ j \in JobRow /\ j.known /\ j.intent /\ j.box # "none"
      /\ j.kept = job[id].kept /\ j.meta = job[id].meta
  BY <1>1, <1>2, <1>4, <1>6 DEF JobRow, JobFits
<1>8. /\ engine' \in EngineState /\ engine'.pc = "run"
      /\ engine'.seen = engine.seen /\ engine'.failed = engine.failed
      /\ engine'.requested = engine.requested /\ engine'.stream # "eof"
  BY <1>1, <1>2, <1>3 DEF EngineState
<1>9. MetaFits(j) /\ CaptureFits(j)'
  BY <1>1, <1>2, <1>7, <1>8
     DEF PublicationFits, MetaFits, CaptureFits
<1> QED BY <1>1, <1>5, <1>7, <1>8, <1>9, JobRowInv

\* A container that runs belongs to the active operation, whoever executes it.
LEMMA ExitInv ==
  ASSUME ArtifactInv, NEW id \in Process, JobExits(id)
  PROVE  ArtifactInv'
<1>1. /\ job[id].box = "running" /\ UNCHANGED <<ledgerVars, engine, storeVars>>
  BY DEF JobExits
<1>2. ws.active = id
  BY <1>1 DEF ArtifactInv, JobFits
<1>3. /\ job[id] \in JobRow /\ engine \in EngineState
      /\ job \in [Process -> JobRow]
      /\ JobFits(id) /\ PublicationFits(id)
  BY <1>2, JobFacts
<1>4. PICK ok \in BOOLEAN :
        job' = [job EXCEPT ![id].box = "exited", ![id].ok = ok]
  BY DEF JobExits
<1> DEFINE row == [job[id] EXCEPT !.box = "exited", !.ok = ok]
<1>5. PICK j : j = row
  OBVIOUS
<1>6. job' = [job EXCEPT ![id] = j]
  BY <1>3, <1>4, <1>5
<1>7. /\ j \in JobRow /\ j.box = "exited" /\ j.known = job[id].known
      /\ j.intent = job[id].intent /\ j.written = job[id].written
      /\ j.kept = job[id].kept /\ j.meta = job[id].meta /\ j.cut = job[id].cut
  BY <1>3, <1>5 DEF JobRow
<1>8. engine.pc \in {"idle", "run"} /\ j.known /\ j.intent
  BY <1>1, <1>3, <1>7 DEF PublicationFits, BoxStopped, EngineState, JobFits
<1>9. MetaFits(j) /\ (engine.pc = "run" => CaptureFits(j)')
  BY <1>1, <1>3, <1>7
     DEF JobFits, PublicationFits, MetaFits, CaptureFits
<1> QED BY <1>1, <1>2, <1>3, <1>6, <1>7, <1>8, <1>9, JobRowInv

\* logCapture.Write: what is not kept is counted, and from then on nothing is kept.
LEMMA WriteFits ==
  ASSUME ArtifactInv, NEW id \in Process, ws.active = id, engine.pc = "run",
         engine.stream = "on", NEW failed \in {"none", "spool_io_error"},
         NEW torn \in BOOLEAN, CaptureWrite(id, failed, torn),
         UNCHANGED <<ledgerVars, storeVars>>
  PROVE  ArtifactInv'
<1>1. /\ job[id] \in JobRow /\ engine \in EngineState
      /\ job \in [Process -> JobRow]
      /\ JobFits(id) /\ PublicationFits(id)
  BY JobFacts
<1> DEFINE fits == job[id].kept < Limit
           keep == engine.failed = "none" /\ failed = "none" /\ fits
           why == IF engine.failed # "none" THEN engine.failed
                  ELSE IF failed = "none" /\ ~fits THEN "output_limit" ELSE failed
           n == IF keep THEN job[id].kept + 1 ELSE job[id].kept
           t == job[id].torn \/ torn
           row == [job[id] EXCEPT !.kept = n, !.torn = t]
<1>2. PICK j : j = row
  OBVIOUS
<1>3. /\ job' = [job EXCEPT ![id] = j]
      /\ engine' = [engine EXCEPT !.seen = engine.seen + 1, !.failed = why]
  BY <1>1, <1>2 DEF CaptureWrite
<1>4. /\ job[id].kept \in Nat /\ n \in Nat /\ t \in BOOLEAN
      /\ engine.seen \in Nat /\ engine.seen + 1 \in Nat
  <2>1. job[id].kept \in Nat /\ job[id].kept + 1 \in Nat
    BY <1>1 DEF JobRow
  <2>2. engine.seen \in Nat /\ engine.seen + 1 \in Nat
    BY <1>1 DEF EngineState
  <2>3. job[id].torn \in BOOLEAN
    BY <1>1 DEF JobRow
  <2>4. t \in BOOLEAN
    BY <2>3
  <2>5. n = job[id].kept + 1 \/ n = job[id].kept
    OBVIOUS
  <2> HIDE DEF n, t
  <2> QED BY <2>1, <2>2, <2>4, <2>5
<1>5. /\ why \in {"none", "output_limit", "spool_io_error"}
      /\ why = "none" => keep
  BY <1>1 DEF EngineState
<1>a. (keep => n = job[id].kept + 1) /\ (~keep => n = job[id].kept)
  OBVIOUS
<1> HIDE DEF t, why, keep, n
<1>6. /\ j \in JobRow /\ j.kept = n /\ j.box = job[id].box
      /\ j.known = job[id].known /\ j.intent = job[id].intent
      /\ j.meta = job[id].meta /\ j.written = job[id].written /\ j.cut = job[id].cut
  BY <1>1, <1>2, <1>4 DEF JobRow
<1>7. /\ engine' \in EngineState /\ engine'.pc = "run" /\ engine'.stream = "on"
      /\ engine'.seen = engine.seen + 1 /\ engine'.failed = why
      /\ engine'.requested = engine.requested
  BY <1>1, <1>3, <1>4, <1>5 DEF EngineState
<1>8. /\ job[id].meta = NoLog /\ engine.seen >= job[id].kept
      /\ engine.failed = "none" => engine.seen = job[id].kept
      /\ engine.requested => engine.failed # "none"
      /\ job[id].intent
  BY <1>1 DEF PublicationFits, CaptureFits
<1>9. keep => engine.failed = "none"
  BY DEF keep
<1>10. CaptureFits(j)'
  <2>1. engine'.seen >= j.kept
    BY <1>4, <1>a, <1>6, <1>7, <1>8
  <2>2. engine'.failed = "none" => engine'.seen = j.kept
    BY <1>4, <1>5, <1>a, <1>6, <1>7, <1>8, <1>9
  <2>3. engine'.requested => engine'.failed # "none"
    BY <1>5, <1>7, <1>8, <1>9
  <2> QED BY <1>6, <1>7, <1>8, <2>1, <2>2, <2>3 DEF CaptureFits
<1>11. MetaFits(j) /\ j.intent
  BY <1>6, <1>8 DEF MetaFits, CaptureFits
<1> QED BY <1>1, <1>3, <1>6, <1>7, <1>10, <1>11, JobRowInv DEF JobFits

\* The capture takes a unit of output or drops it.
LEMMA DrainInv ==
  ASSUME ArtifactInv, NEW id \in Process, Drain(id)
  PROVE  ArtifactInv'
<1>1. /\ ws.active = id /\ engine.pc = "run" /\ engine.stream = "on"
      /\ UNCHANGED <<ledgerVars, storeVars>>
  BY DEF Drain, Running
<1>2. \E failed \in {"none", "spool_io_error"}, torn \in BOOLEAN :
        CaptureWrite(id, failed, torn)
  BY DEF Drain
<1> QED BY <1>1, <1>2, WriteFits

\* The stream ends, or breaks before the output does.
LEMMA StreamInv ==
  ASSUME ArtifactInv, NEW id \in Process, StreamEnds(id)
  PROVE  ArtifactInv'
<1>1. /\ ws.active = id /\ engine.pc = "run" /\ engine.stream = "on"
      /\ UNCHANGED <<ledgerVars, storeVars>>
  BY DEF StreamEnds, Running
<1>2. /\ job[id] \in JobRow /\ engine \in EngineState
      /\ job \in [Process -> JobRow]
      /\ JobFits(id) /\ PublicationFits(id)
  BY <1>1, JobFacts
<1>3. CaptureFits(job[id])
  BY <1>1, <1>2 DEF PublicationFits
<1> DEFINE row == [job[id] EXCEPT !.cut = TRUE]
<1>4. PICK j : /\ job' = [job EXCEPT ![id] = j]
               /\ \/ /\ j = row /\ engine' = [engine EXCEPT !.stream = "eof"]
                  \/ /\ j = job[id]
                     /\ \/ engine' = [engine EXCEPT !.stream = "gap"]
                        \/ /\ engine' = [engine EXCEPT !.stream = "eof"]
                           /\ engine.seen = job[id].written
  <2>1. job = [job EXCEPT ![id] = job[id]]
    BY <1>2
  <2>2. CASE job' = [job EXCEPT ![id].cut = TRUE]
             /\ engine' = [engine EXCEPT !.stream = "eof"]
    <3>1. job' = [job EXCEPT ![id] = row]
      BY <1>2, <2>2
    <3> QED BY <2>2, <3>1
  <2>3. CASE /\ job' = job
             /\ \/ engine' = [engine EXCEPT !.stream = "gap"]
                \/ /\ engine' = [engine EXCEPT !.stream = "eof"]
                   /\ engine.seen = job[id].written
    BY <2>1, <2>3
  <2> QED BY <2>2, <2>3 DEF StreamEnds
<1>5. /\ j \in JobRow /\ j.kept = job[id].kept /\ j.box = job[id].box
      /\ j.known = job[id].known /\ j.intent = job[id].intent
      /\ j.meta = job[id].meta /\ j.written = job[id].written
      /\ j.cut \/ j.cut = job[id].cut
  BY <1>2, <1>4 DEF JobRow
<1>6. /\ engine' \in EngineState /\ engine'.pc = "run"
      /\ engine'.stream = "eof" => j.cut \/ engine.seen = job[id].written
      /\ engine'.seen = engine.seen /\ engine'.failed = engine.failed
      /\ engine'.requested = engine.requested
  BY <1>1, <1>2, <1>4 DEF EngineState, JobRow
<1>7. CaptureFits(j)' /\ MetaFits(j) /\ j.intent
  BY <1>1, <1>3, <1>5, <1>6 DEF CaptureFits, MetaFits
<1> QED BY <1>1, <1>2, <1>4, <1>5, <1>6, <1>7, JobRowInv DEF JobFits

\* Docker.Cancel stops a container that was started.
LEMMA CancelFits ==
  ASSUME NEW id \in Process, job \in [Process -> JobRow]
  PROVE  \E j \in JobRow :
           /\ Cancel(id) = [job EXCEPT ![id] = j] /\ j.box = "exited"
           /\ j.known = job[id].known /\ j.intent = job[id].intent
           /\ j.written = job[id].written /\ j.kept = job[id].kept
           /\ j.meta = job[id].meta /\ j.cut = job[id].cut
<1> DEFINE ok == IF job[id].box = "running" THEN FALSE ELSE job[id].ok
           row == [job[id] EXCEPT !.box = "exited", !.ok = ok]
<1>1. ok \in BOOLEAN
  BY DEF JobRow
<1>2. Cancel(id) = [job EXCEPT ![id] = row]
  BY DEF Cancel
<1> HIDE DEF ok
<1>3. /\ row \in JobRow /\ row.box = "exited"
      /\ row.known = job[id].known /\ row.intent = job[id].intent
      /\ row.written = job[id].written /\ row.kept = job[id].kept
      /\ row.meta = job[id].meta /\ row.cut = job[id].cut
  BY <1>1 DEF JobRow
<1> QED BY <1>2, <1>3

\* The container is stopped.
LEMMA StopInv ==
  ASSUME ArtifactInv, NEW id \in Process, StopJob(id)
  PROVE  ArtifactInv'
<1>1. /\ ws.active = id /\ engine.pc = "run" /\ engine.stream = "on"
      /\ UNCHANGED <<ledgerVars, storeVars>> /\ job' = Cancel(id)
      /\ job[id].box \in {"running", "exited"}
  BY DEF StopJob, Running
<1>2. /\ job[id] \in JobRow /\ engine \in EngineState
      /\ job \in [Process -> JobRow]
      /\ JobFits(id) /\ PublicationFits(id)
  BY <1>1, JobFacts
<1>3. CaptureFits(job[id]) /\ job[id].known /\ job[id].intent
  BY <1>1, <1>2 DEF PublicationFits, JobFits
<1>4. PICK j \in JobRow :
           /\ job' = [job EXCEPT ![id] = j] /\ j.box = "exited"
           /\ j.known = job[id].known /\ j.intent = job[id].intent
           /\ j.written = job[id].written /\ j.kept = job[id].kept
           /\ j.meta = job[id].meta /\ j.cut = job[id].cut
  BY <1>1, <1>2, CancelFits
<1>5. /\ engine' \in EngineState /\ engine'.pc = "run" /\ engine'.stream = "on"
      /\ engine'.seen = engine.seen /\ engine'.failed = engine.failed
      /\ engine'.requested => engine.requested \/ engine.failed # "none"
  <2>1. CASE /\ engine.failed # "none"
             /\ engine' = [engine EXCEPT !.requested = TRUE, !.killed = FALSE]
    BY <1>1, <1>2, <2>1 DEF EngineState
  <2>2. CASE engine' = [engine EXCEPT !.killed = TRUE]
    BY <1>1, <1>2, <2>2 DEF EngineState
  <2> QED BY <2>1, <2>2 DEF StopJob
<1>6. CaptureFits(j)' /\ MetaFits(j)
  BY <1>3, <1>4, <1>5 DEF CaptureFits, MetaFits
<1> QED BY <1>1, <1>3, <1>4, <1>5, <1>6, JobRowInv

\* An idle engine, and one that begins.
LEMMA IdleTyped ==
  /\ Idle \in EngineState /\ Idle.pc = "idle" /\ Idle.never = FALSE
  /\ \A status \in Outcome :
       /\ [Idle EXCEPT !.pc = "ready", !.status = status] \in EngineState
       /\ [Idle EXCEPT !.pc = "ready", !.status = status].pc = "ready"
       /\ [Idle EXCEPT !.pc = "ready", !.status = status].never = FALSE
       /\ [Idle EXCEPT !.pc = "ready", !.status = status].status = status
  /\ [Idle EXCEPT !.pc = "run"] \in EngineState
BY DEF Idle, EngineState, Outcome

\* However a capture ends, its summary is one that validLogMetadata accepts.
LEMMA FinishFits ==
  ASSUME NEW id \in Process, engine \in EngineState, job[id] \in JobRow,
         CaptureFits(job[id]), NEW complete \in BOOLEAN
  PROVE  /\ Finish(id, complete) \in LogMeta
         /\ Finish(id, complete).kept = job[id].kept
         /\ Finish(id, complete).seen = engine.seen
         /\ Finish(id, complete).complete = complete
         /\ validLogMetadata(Finish(id, complete), job[id].kept)
<1>1. /\ engine.seen \in Nat /\ job[id].kept \in Nat /\ engine.requested \in BOOLEAN
      /\ engine.failed \in {"none", "output_limit", "spool_io_error"}
      /\ engine.seen - job[id].kept \in Int
  BY DEF EngineState, JobRow
<1>2. /\ engine.seen >= job[id].kept
      /\ engine.failed = "none" => engine.seen = job[id].kept
      /\ engine.requested => engine.failed # "none"
  BY DEF CaptureFits
<1> DEFINE dropped == IF complete THEN engine.seen - job[id].kept ELSE 0
           truncated == engine.failed # "none" \/ ~complete
           reason == IF engine.failed # "none" THEN engine.failed
                     ELSE IF complete THEN "none" ELSE "capture_gap"
<1>3. /\ dropped \in Int /\ (complete => dropped = engine.seen - job[id].kept)
      /\ ~complete => dropped = 0
  BY <1>1
<1>4. /\ truncated \in BOOLEAN /\ reason \in Reasons
      /\ ~complete => truncated /\ reason # "none"
      /\ complete => (reason = "none" <=> engine.failed = "none")
      /\ complete /\ reason = "none" => ~truncated
      /\ complete /\ reason # "none" => truncated
  BY <1>1 DEF Reasons
<1>5. PICK m : m = [complete |-> complete, seen |-> engine.seen,
                    kept |-> job[id].kept, dropped |-> dropped,
                    truncated |-> truncated, reason |-> reason,
                    requested |-> engine.requested]
  OBVIOUS
<1>6. Finish(id, complete) = m
  BY <1>5 DEF Finish
<1> HIDE DEF dropped, truncated, reason
<1>7. /\ m \in LogMeta /\ m.kept = job[id].kept /\ m.seen = engine.seen
      /\ m.complete = complete /\ m.dropped = dropped /\ m.truncated = truncated
      /\ m.reason = reason /\ m.requested = engine.requested
  BY <1>1, <1>3, <1>4, <1>5 DEF LogMeta
<1>8. validLogMetadata(m, job[id].kept)
  <2>1. CASE complete
    <3>1. m.complete /\ m.dropped = m.seen - job[id].kept /\ m.seen >= job[id].kept
      BY <1>2, <1>3, <1>7, <2>1
    <3>2. CASE reason = "none"
      <4>1. ~m.truncated /\ ~m.requested /\ m.reason = "none"
        BY <1>2, <1>4, <1>7, <2>1, <3>2
      <4>2. m.dropped = 0
        BY <1>1, <1>2, <1>3, <1>4, <1>7, <2>1, <3>2
      <4> QED BY <3>1, <4>1, <4>2 DEF validLogMetadata
    <3>3. CASE reason # "none"
      BY <1>4, <1>7, <2>1, <3>1, <3>3 DEF validLogMetadata
    <3> QED BY <3>2, <3>3
  <2>2. CASE ~complete
    <3>1. /\ m.seen >= job[id].kept /\ ~m.complete /\ m.truncated
          /\ m.reason # "none" /\ m.dropped = 0
      BY <1>2, <1>3, <1>4, <1>7, <2>2
    <3> QED BY <3>1 DEF validLogMetadata
  <2> QED BY <2>1, <2>2
<1> QED BY <1>6, <1>7, <1>8

\* The capture is closed and its metadata written.
LEMMA FinishCaptureInv ==
  ASSUME ArtifactInv, NEW id \in Process, FinishCapture(id)
  PROVE  ArtifactInv'
<1> DEFINE complete == engine.stream = "eof" /\ job[id].box = "exited"
<1>1. /\ ws.active = id /\ engine.pc = "run" /\ engine.stream \in {"eof", "gap"}
      /\ UNCHANGED <<ledgerVars, storeVars>>
  BY DEF FinishCapture, Running
<1>2. /\ job[id] \in JobRow /\ engine \in EngineState
      /\ job \in [Process -> JobRow]
      /\ JobFits(id) /\ PublicationFits(id)
  BY <1>1, JobFacts
<1>3. /\ CaptureFits(job[id]) /\ job[id].intent
      /\ job[id].box = "exited" => job[id].known
      /\ job[id].box = "running" => job[id].known
      /\ job[id].box # "none"
  BY <1>1, <1>2 DEF PublicationFits, CaptureFits, JobFits
<1>4. PICK synced \in BOOLEAN, stored \in BOOLEAN, told \in BOOLEAN :
        /\ job' = IF stored
                  THEN [job EXCEPT ![id].meta = Finish(id, complete /\ synced)]
                  ELSE job
        /\ engine' = IF complete /\ told
                     THEN [Idle EXCEPT !.pc = "ready",
                             !.status = IF engine.killed THEN "cancelled"
                                        ELSE IF job[id].ok /\ VerificationLogValid(Finish(id, complete /\ synced))
                                        THEN "succeeded" ELSE "failed"]
                     ELSE Idle
  BY DEF FinishCapture
<1> DEFINE c == complete /\ synced
<1>5. PICK m : m = Finish(id, c)
  OBVIOUS
<1>6. /\ m \in LogMeta /\ m.kept = job[id].kept /\ m.seen = engine.seen
      /\ m.complete = c /\ validLogMetadata(m, job[id].kept)
  <2>1. c \in BOOLEAN
    OBVIOUS
  <2> HIDE DEF c
  <2> QED BY <1>2, <1>3, <1>5, <2>1, FinishFits
<1>7. PICK j : /\ job' = [job EXCEPT ![id] = j]
               /\ j = [job[id] EXCEPT !.meta = m] \/ j = job[id]
  <2>1. job = [job EXCEPT ![id] = job[id]]
    BY <1>2
  <2>2. [job EXCEPT ![id].meta = m] = [job EXCEPT ![id] = [job[id] EXCEPT !.meta = m]]
    BY <1>2
  <2>3. job' = [job EXCEPT ![id].meta = m] \/ job' = job
    BY <1>4, <1>5
  <2> QED BY <2>1, <2>2, <2>3
<1>8. /\ j \in JobRow /\ j.box = job[id].box /\ j.known = job[id].known
      /\ j.intent = job[id].intent /\ j.kept = job[id].kept
      /\ j.written = job[id].written /\ j.cut = job[id].cut
      /\ j.meta = m \/ j.meta = job[id].meta
  BY <1>2, <1>6, <1>7 DEF JobRow
<1>9. c => engine.stream = "eof"
  OBVIOUS
<1>10. MetaFits(j)
  BY <1>2, <1>3, <1>6, <1>8, <1>9 DEF MetaFits, CaptureFits
<1>11. /\ engine' \in EngineState /\ engine'.pc \in {"idle", "ready"}
       /\ engine'.pc = "ready" =>
            /\ engine'.status \in Outcome /\ engine'.never = FALSE
            /\ job[id].box = "exited"
  <2> DEFINE status == IF engine.killed THEN "cancelled"
                       ELSE IF job[id].ok /\ VerificationLogValid(m)
                       THEN "succeeded" ELSE "failed"
  <2>1. status \in Outcome
    BY DEF Outcome
  <2>2. \/ complete /\ engine' = [Idle EXCEPT !.pc = "ready", !.status = status]
        \/ engine' = Idle
    BY <1>4, <1>5
  <2> HIDE DEF status
  <2> QED BY <2>1, <2>2, IdleTyped
<1>12. engine'.pc = "ready" => BoxStopped(j)
  BY <1>3, <1>8, <1>11 DEF BoxStopped
<1> QED BY <1>1, <1>2, <1>3, <1>7, <1>8, <1>10, <1>11, <1>12, JobRowInv

-----------------------------------------------------------------------------
(* Reconciliation, publication and receipts *)

\* Where the store is as it was.
LEMMA SameStore ==
  ASSUME ArtifactInv, UNCHANGED <<ledgerVars, job, storeVars>>,
         engine' \in EngineState, EngineFits'
  PROVE  ArtifactInv'
<1>1. /\ UNCHANGED <<objects, pins, ready, registered>>
      /\ DOMAIN pins' = {"own", "other"} /\ StoreFits'
  BY DEF storeVars, ArtifactInv, ArtifactTyped, StoreFits
<1> QED BY <1>1, EngineStepInv

\* The engine stops, or a file tool is ready to be completed.
LEMMA EngineStops ==
  ASSUME ArtifactInv, UNCHANGED <<ledgerVars, job, storeVars>>, engine' = Idle
  PROVE  ArtifactInv'
<1>1. engine' \in EngineState /\ engine'.pc = "idle"
  BY IdleTyped
<1>2. EngineFits'
  BY <1>1 DEF EngineFits, PublicationFits
<1> QED BY <1>1, <1>2, SameStore

\* A file tool has its outcome.
LEMMA ToolReady ==
  ASSUME ArtifactInv, UNCHANGED <<ledgerVars, job, storeVars>>,
         ws.active \in OpIds \ Process, NEW status \in Outcome,
         engine' = [Idle EXCEPT !.pc = "ready", !.status = status]
  PROVE  ArtifactInv'
<1>1. engine' \in EngineState /\ engine'.pc = "ready" /\ engine'.status = status
  BY IdleTyped
<1>2. EngineFits'
  BY <1>1 DEF EngineFits, ledgerVars
<1> QED BY <1>1, <1>2, SameStore

\* A file tool ends.
LEMMA FinishToolInv ==
  ASSUME ArtifactInv, NEW id \in OpIds, FinishTool(id)
  PROVE  ArtifactInv'
<1>1. /\ ws.active \in OpIds \ Process /\ UNCHANGED <<ledgerVars, job, storeVars>>
      /\ \E status \in {"succeeded", "failed"} :
           engine' = [Idle EXCEPT !.pc = "ready", !.status = status]
  BY DEF FinishTool, Running
<1> QED BY <1>1, ToolReady DEF Outcome

\* An operation is completed before anything of it was done.
LEMMA UnstartedInv ==
  ASSUME ArtifactInv, NEW id \in OpIds, CompleteUnstarted(id)
  PROVE  ArtifactInv'
<1>1. ws.active = id /\ UNCHANGED <<ledgerVars, job, storeVars>>
  BY DEF CompleteUnstarted
<1>2. /\ engine' \in EngineState /\ engine'.pc = "ready"
      /\ engine'.status \in Outcome
  <2>1. \/ engine' = [Idle EXCEPT !.pc = "ready", !.status = "cancelled", !.never = TRUE]
        \/ engine' = [Idle EXCEPT !.pc = "ready", !.status = "failed"]
    BY DEF CompleteUnstarted
  <2>2. CASE engine' = [Idle EXCEPT !.pc = "ready", !.status = "cancelled",
                                    !.never = TRUE]
    BY <2>2 DEF Idle, EngineState, Outcome
  <2>3. CASE engine' = [Idle EXCEPT !.pc = "ready", !.status = "failed"]
    BY <2>3, IdleTyped DEF Outcome
  <2> QED BY <2>1, <2>2, <2>3
<1>3. CASE id \notin Process
  <2>1. EngineFits'
    BY <1>1, <1>2, <1>3 DEF EngineFits, ledgerVars
  <2> QED BY <1>1, <1>2, <2>1, SameStore
<1>4. CASE id \in Process
  <2>1. /\ job[id] \in JobRow /\ engine \in EngineState
        /\ job \in [Process -> JobRow]
        /\ JobFits(id) /\ PublicationFits(id)
    BY <1>1, <1>4, JobFacts
  <2>2. PICK j : j = job[id]
    OBVIOUS
  <2>3. job' = [job EXCEPT ![id] = j]
    BY <1>1, <2>1, <2>2
  <2>4. j.box = "none"
    BY <1>4, <2>2 DEF CompleteUnstarted
  <2>5. /\ j \in JobRow /\ ~j.known /\ ~j.intent /\ j.written = 0 /\ j.kept = 0
        /\ MetaFits(j) /\ BoxStopped(j)
    BY <2>1, <2>2, <2>4 DEF JobFits, BoxStopped
  <2> QED BY <1>1, <1>2, <1>4, <2>3, <2>4, <2>5, JobRowInv
<1> QED BY <1>3, <1>4

\* After a crash the outcome is taken from the container or the files.
LEMMA ReconcileInv ==
  ASSUME ArtifactInv, NEW id \in OpIds, Reconcile(id)
  PROVE  ArtifactInv'
<1>1. ws.active = id /\ UNCHANGED <<ledgerVars, storeVars>>
  BY DEF Reconcile
<1>2. CASE id \notin Process
  <2>1. job' = job /\ \E status \in Outcome :
                        engine' = [Idle EXCEPT !.pc = "ready", !.status = status]
    BY <1>2 DEF Reconcile, Outcome
  <2> QED BY <1>1, <1>2, <2>1, ToolReady
<1>3. CASE id \in Process
  <2>1. /\ job[id] \in JobRow /\ engine \in EngineState
        /\ job \in [Process -> JobRow]
        /\ JobFits(id) /\ PublicationFits(id)
    BY <1>1, <1>3, JobFacts
  <2>2. ASSUME NEW j \in JobRow, job' = [job EXCEPT ![id] = j],
               j.known = job[id].known, j.intent = job[id].intent,
               j.kept = job[id].kept, j.written = job[id].written,
               j.cut = job[id].cut, j.meta = job[id].meta,
               j.box = "removed"
                 \/ (j.box = "exited" /\ job[id].box \in {"running", "exited"}),
               engine' \in EngineState, engine'.pc = "ready",
               engine'.status \in Outcome, engine'.never => ~j.intent
        PROVE  ArtifactInv'
    <3>1. /\ j.box \in {"running", "exited"} => j.known /\ j.intent
          /\ ~j.intent => j.written = 0 /\ j.kept = 0
          /\ MetaFits(j) /\ BoxStopped(j)
      BY <2>1, <2>2 DEF JobFits, MetaFits, BoxStopped
    <3> QED BY <1>1, <1>3, <2>2, <3>1, JobRowInv
  <2>3. CASE /\ job[id].box = "exited" /\ job' = job
             /\ engine' = [Idle EXCEPT !.pc = "ready",
                             !.status = IF job[id].ok THEN "succeeded" ELSE "failed"]
    <3>1. \E status \in Outcome :
            engine' = [Idle EXCEPT !.pc = "ready", !.status = status]
      BY <2>3 DEF Outcome
    <3>2. job' = [job EXCEPT ![id] = job[id]]
      BY <2>1, <2>3
    <3>3. /\ engine' \in EngineState /\ engine'.pc = "ready"
          /\ engine'.status \in Outcome /\ engine'.never = FALSE
      BY <3>1, IdleTyped, ZenonT(60)
    <3> QED BY <2>1, <2>2, <2>3, <3>2, <3>3
  <2>4. CASE /\ job[id].box = "running" /\ job' = Cancel(id)
             /\ engine' = [Idle EXCEPT !.pc = "ready", !.status = "cancelled"]
    <3>1. /\ engine' \in EngineState /\ engine'.pc = "ready"
          /\ engine'.status \in Outcome /\ engine'.never = FALSE
      BY <2>4, IdleTyped DEF Outcome
    <3> QED BY <1>3, <2>1, <2>2, <2>4, <3>1, CancelFits
  <2>5. CASE /\ ~job[id].intent /\ job' = CancelNeverDispatched(id)
             /\ engine' = [Idle EXCEPT !.pc = "ready", !.status = "cancelled",
                                       !.never = TRUE]
    <3>1. /\ engine' \in EngineState /\ engine'.pc = "ready"
          /\ engine'.status \in Outcome
      BY <2>5 DEF Idle, EngineState, Outcome
    <3>2. PICK j : j = [job[id] EXCEPT !.box = "removed"]
      OBVIOUS
    <3>3. job' = [job EXCEPT ![id] = j]
      BY <2>1, <2>5, <3>2 DEF CancelNeverDispatched
    <3>4. /\ j \in JobRow /\ j.box = "removed" /\ j.known = job[id].known
          /\ j.intent = job[id].intent /\ j.kept = job[id].kept
          /\ j.written = job[id].written /\ j.cut = job[id].cut
          /\ j.meta = job[id].meta
      BY <2>1, <3>2 DEF JobRow
    <3> QED BY <2>2, <2>5, <3>1, <3>3, <3>4
  <2> QED BY <1>3, <2>3, <2>4, <2>5 DEF Reconcile
<1> QED BY <1>2, <1>3

\* readLogCapture and publishLogs: the log that is published accounts for the
\* output, if it says so.
LEMMA PublishFits ==
  ASSUME ArtifactInv, NEW id \in Process, ws.active = id, engine.pc = "ready",
         Readable(id), NEW j, j = [job[id] EXCEPT !.log = publishLogs(id)]
  PROVE  /\ j \in JobRow /\ j.log = publishLogs(id) /\ LogFits(j)
         /\ j.box = job[id].box /\ j.known = job[id].known
         /\ j.intent = job[id].intent /\ j.kept = job[id].kept
         /\ j.written = job[id].written /\ j.cut = job[id].cut
         /\ j.meta = job[id].meta
<1>1. job[id] \in JobRow /\ JobFits(id) /\ PublicationFits(id)
  BY JobFacts
<1>2. /\ job[id].meta \in LogMeta /\ job[id].kept \in Nat
      /\ job[id].written \in Nat
  BY <1>1 DEF JobRow
<1> DEFINE gap == [NoLog EXCEPT !.seen = job[id].kept, !.kept = job[id].kept,
                                !.truncated = TRUE, !.reason = "capture_gap"]
<1>3. /\ gap \in LogMeta /\ gap.kept = job[id].kept /\ gap.dropped = 0
      /\ gap.complete = FALSE /\ gap.reason = "capture_gap"
  <2>1. PICK n \in Nat : n = job[id].kept
    BY <1>2
  <2>2. "capture_gap" \in Reasons
    BY DEF Reasons
  <2>3. NoLog \in LogMeta /\ NoLog.complete = FALSE /\ NoLog.dropped = 0
    BY DEF NoLog, LogMeta, Reasons
  <2> QED BY <2>1, <2>2, <2>3 DEF LogMeta
<1>4. PICK base : base = readLogCapture(id)
  OBVIOUS
<1>5. base = IF job[id].meta # NoLog THEN job[id].meta ELSE gap
  BY <1>4 DEF readLogCapture
<1> HIDE DEF gap
<1>6. base \in LogMeta
  BY <1>2, <1>3, <1>5
<1>7. PICK log : log = publishLogs(id)
  OBVIOUS
<1>8. log = IF engine.never
            THEN [base EXCEPT !.complete = TRUE, !.truncated = FALSE,
                              !.reason = "never_started"]
            ELSE base
  BY <1>4, <1>7 DEF publishLogs
<1>9. log \in LogMeta
  BY <1>6, <1>8 DEF LogMeta, Reasons
<1>10. /\ j \in JobRow /\ j.log = log
       /\ j.box = job[id].box /\ j.known = job[id].known
       /\ j.intent = job[id].intent /\ j.kept = job[id].kept
       /\ j.written = job[id].written /\ j.cut = job[id].cut
       /\ j.meta = job[id].meta
  BY <1>1, <1>7, <1>9 DEF JobRow
<1>11. LogFits(j)
  <2>1. CASE engine.never
    <3>1. ~job[id].intent /\ job[id].written = 0 /\ job[id].kept = 0
      BY <1>1, <2>1 DEF PublicationFits, JobFits
    <3>2. job[id].meta = NoLog
      BY <1>1, <3>1 DEF JobFits, MetaFits
    <3>3. base = gap
      BY <1>5, <3>2
    <3>4. log.kept = 0 /\ log.dropped = 0 /\ log.reason = "never_started"
      BY <1>3, <1>8, <2>1, <3>1, <3>3 DEF LogMeta
    <3> QED BY <1>10, <3>1, <3>4 DEF LogFits
  <2>2. CASE ~engine.never /\ job[id].meta = NoLog
    <3>1. log = gap
      BY <1>5, <1>8, <2>2
    <3> QED BY <1>3, <1>10, <3>1 DEF LogFits
  <2>3. CASE ~engine.never /\ job[id].meta # NoLog
    <3>1. log = job[id].meta
      BY <1>5, <1>8, <2>3
    <3>2. /\ log.kept = job[id].kept /\ validLogMetadata(log, job[id].kept)
          /\ log.complete /\ ~job[id].cut => log.seen = job[id].written
      BY <1>1, <2>3, <3>1 DEF JobFits, MetaFits
    <3>3. /\ log.complete => log.dropped = log.seen - job[id].kept
          /\ log.complete /\ log.reason = "none" => log.dropped = 0
      BY <3>2 DEF validLogMetadata
    <3>4. log.seen \in Nat /\ log.kept \in Nat
      BY <1>9 DEF LogMeta
    <3>5. log.complete /\ ~j.cut => log.kept + log.dropped = j.written
      BY <1>2, <1>10, <3>2, <3>3, <3>4
    <3>6. VerificationLogValid(log) => log.dropped = 0
      BY <3>3 DEF VerificationLogValid
    <3> QED BY <1>10, <3>5, <3>6 DEF LogFits
  <2> QED BY <2>1, <2>2, <2>3
<1> QED BY <1>7, <1>10, <1>11

\* The log is stored before anything refers to it.
LEMMA PublishLogInv ==
  ASSUME ArtifactInv, NEW id \in Process, PublishLog(id)
  PROVE  ArtifactInv'
<1>1. ws.active = id /\ engine.pc = "ready" /\ UNCHANGED ledgerVars
  BY DEF PublishLog
<1>2. CASE ~Readable(id)
  BY <1>1, <1>2, EngineStops DEF PublishLog
<1>3. CASE Readable(id)
  <2>1. /\ job[id] \in JobRow /\ engine \in EngineState
        /\ job \in [Process -> JobRow] /\ id \in OpIds
        /\ JobFits(id) /\ PublicationFits(id)
    BY <1>1, JobFacts
  <2>2. PICK j : j = [job[id] EXCEPT !.log = publishLogs(id)]
    OBVIOUS
  <2>3. /\ j \in JobRow /\ j.log = publishLogs(id) /\ LogFits(j)
        /\ j.box = job[id].box /\ j.known = job[id].known
        /\ j.intent = job[id].intent /\ j.kept = job[id].kept
        /\ j.written = job[id].written /\ j.cut = job[id].cut
        /\ j.meta = job[id].meta
    BY <1>1, <1>3, <2>2, PublishFits
  <2> DEFINE status == IF engine.status # "cancelled" /\ ~VerificationLogValid(j.log)
                       THEN "failed" ELSE engine.status
  <2>4. /\ job' = [job EXCEPT ![id] = j]
        /\ engine' = [engine EXCEPT !.pc = "pinlog", !.status = status]
        /\ objects' = objects \cup {Object("log", NoOp, "none", j.log.kept)}
        /\ UNCHANGED <<ws, ops, tree, pins, ready, registered>>
    BY <1>1, <1>3, <2>1, <2>2, <2>3 DEF PublishLog, Put, ledgerVars
  <2>5. job'[id] = j /\ \A i \in Process \ {id} : job'[i] = job[i]
    BY <2>1, <2>4
  <2>6. engine.status \in Outcome
    BY <1>1 DEF ArtifactInv, EngineFits
  <2>7. /\ status \in Outcome
        /\ status = "succeeded" => VerificationLogValid(j.log)
    BY <2>6 DEF Outcome
  <2> HIDE DEF status
  <2>8. engine' \in EngineState /\ engine'.pc = "pinlog" /\ engine'.status = status
    BY <2>1, <2>4, <2>7 DEF EngineState
  <2>9. id \in DOMAIN ops /\ ~Settled(id) /\ ~ws.released
    BY <1>1, <2>1, ActiveOpen
  <2>10. LedgerInv'
    BY <1>1, LedgerKept
  <2>11. ArtifactTyped' /\ StoreFits'
    BY <2>1, <2>3, <2>4, <2>8 DEF ArtifactInv, ArtifactTyped, StoreFits
  <2>12. ReceiptsPinned'
    BY <2>4, <2>5, <2>9, ReceiptsKept DEF Settled
  <2>13. BoxStopped(job[id])
    BY <1>1, <2>1 DEF PublicationFits
  <2>14. ASSUME NEW i \in Process PROVE JobFits(i)'
    <3>1. JobFits(i)
      BY DEF ArtifactInv
    <3>2. CASE i = id
      BY <1>1, <2>3, <2>4, <2>5, <2>9, <2>13, <3>1, <3>2
         DEF JobFits, Settled, MetaFits, BoxStopped
    <3>3. CASE i # id
      <4>1. job'[i] = job[i]
        BY <2>5, <3>3
      <4> QED BY <2>4, <3>1, <4>1 DEF JobFits, MetaFits, Settled, BoxStopped, LogFits
    <3> QED BY <3>2, <3>3
  <2>15. EngineFits'
    <3>1. LogObject(id)' \in objects'
      BY <2>4, <2>5 DEF LogObject
    <3>2. PublicationFits(id)'
      BY <2>3, <2>5, <2>7, <2>8, <2>13, <3>1 DEF PublicationFits, BoxStopped
    <3> QED BY <1>1, <2>1, <2>4, <2>7, <2>8, <3>2 DEF EngineFits
  <2> QED BY <2>10, <2>11, <2>12, <2>14, <2>15 DEF ArtifactInv
<1> QED BY <1>2, <1>3

\* The receipt is stored.
LEMMA PutReceiptInv ==
  ASSUME ArtifactInv, NEW id \in OpIds, PutReceipt(id)
  PROVE  ArtifactInv'
<1>1. /\ ws.active = id /\ UNCHANGED <<ledgerVars, job, ready, registered>>
      /\ objects' = objects \cup {Receipt(id, engine.status)}
      /\ pins' = [pins EXCEPT !["own"] = IF id \in Process
                                         THEN @ \cup {LogObject(id)} ELSE @]
      /\ engine' = [engine EXCEPT !.pc = "pin"]
      /\ engine.pc = IF id \in Process THEN "pinlog" ELSE "ready"
      /\ ws' = ws
  BY DEF PutReceipt, ledgerVars
<1>2. engine \in EngineState /\ EngineFits /\ StoreFits /\ DOMAIN pins = {"own", "other"}
  BY DEF ArtifactInv, ArtifactTyped
<1>3. /\ engine' \in EngineState /\ engine'.pc = "pin"
      /\ engine'.status = engine.status
  BY <1>1, <1>2 DEF EngineState
<1>4. id \in Process => LogObject(id) \in objects /\ PublicationFits(id)
  BY <1>1, <1>2 DEF EngineFits, PublicationFits
<1>5. /\ DOMAIN pins' = {"own", "other"} /\ pins'["other"] = pins["other"]
      /\ pins["own"] \subseteq pins'["own"]
      /\ pins'["own"] \subseteq pins["own"] \cup (IF id \in Process THEN {LogObject(id)} ELSE {})
  BY <1>1, <1>2
<1>6. StoreFits'
  BY <1>1, <1>2, <1>4, <1>5 DEF StoreFits
<1>7. Receipt(id, engine.status)' = Receipt(id, engine.status)
  BY <1>1, <1>3 DEF Receipt, Object
<1>8. id \in Process => PublicationFits(id)'
  BY <1>1, <1>3, <1>4 DEF PublicationFits, BoxStopped, LogFits
<1>9. engine.status \in Outcome
  BY <1>1, <1>2 DEF EngineFits
<1>10. EngineFits'
  BY <1>1, <1>3, <1>7, <1>8, <1>9 DEF EngineFits
<1> QED BY <1>1, <1>3, <1>5, <1>6, <1>10, EngineStepInv

\* The journal refers to the stored receipt.
LEMMA PinReceiptInv ==
  ASSUME ArtifactInv, NEW id \in OpIds, PinReceipt(id)
  PROVE  ArtifactInv'
<1>1. /\ ws.active = id /\ engine.pc = "pin"
      /\ UNCHANGED <<ledgerVars, job, objects, ready, registered>> /\ ws' = ws
      /\ pins' = [pins EXCEPT !["own"] = @ \cup {Receipt(id, engine.status)}]
      /\ engine' = [engine EXCEPT !.pc = "finish"]
  BY DEF PinReceipt, pinArtifact, ledgerVars
<1>2. engine \in EngineState /\ EngineFits /\ StoreFits /\ DOMAIN pins = {"own", "other"}
  BY DEF ArtifactInv, ArtifactTyped
<1>3. /\ engine' \in EngineState /\ engine'.pc = "finish"
      /\ engine'.status = engine.status
  BY <1>1, <1>2 DEF EngineState
<1>4. Receipt(id, engine.status) \in objects /\ engine.status \in Outcome
  BY <1>1, <1>2 DEF EngineFits
<1>5. /\ DOMAIN pins' = {"own", "other"} /\ pins'["other"] = pins["other"]
      /\ pins'["own"] = pins["own"] \cup {Receipt(id, engine.status)}
  BY <1>1, <1>2
<1>6. StoreFits'
  BY <1>1, <1>2, <1>4, <1>5 DEF StoreFits
<1>7. Receipt(id, engine.status)' = Receipt(id, engine.status)
  BY <1>1, <1>3 DEF Receipt, Object
<1>8. id \in Process => PublicationFits(id)'
  BY <1>1, <1>2, <1>3 DEF EngineFits, PublicationFits, BoxStopped, LogFits
<1>9. EngineFits'
  BY <1>1, <1>3, <1>4, <1>5, <1>7, <1>8 DEF EngineFits
<1> QED BY <1>1, <1>3, <1>5, <1>6, <1>9, EngineStepInv

\* journal.finish: the receipt is pinned and the container has stopped.
LEMMA CommitInv ==
  ASSUME ArtifactInv, NEW id \in OpIds, Commit(id)
  PROVE  ArtifactInv'
<1>1. /\ ws.active = id /\ engine.pc = "finish" /\ Settle(id, engine.status)
      /\ engine' = Idle /\ UNCHANGED <<objects, pins, ready, registered>>
      /\ job' = [j \in Process |-> IF j = id THEN Forget(job[j]) ELSE job[j]]
  BY DEF Commit, storeVars
<1>2. /\ LedgerInv /\ EngineFits /\ job \in [Process -> JobRow]
      /\ ArtifactTyped /\ StoreFits
      /\ \A i \in Process : JobFits(i)
  BY DEF ArtifactInv, ArtifactTyped
<1>3. id \in DOMAIN ops /\ ~ws.released /\ NoOp \notin OpIds /\ Process \subseteq OpIds
  BY <1>1, ActiveOpen, OpAssumption, ArtifactAssumption
<1>4. /\ DOMAIN ops' = DOMAIN ops /\ ops'[id].status = engine.status
      /\ engine.status \in Outcome /\ "open" \notin Outcome
      /\ \A i \in DOMAIN ops \ {id} : ops'[i] = ops[i]
      /\ ws'.active = NoOp /\ ws'.released = ws.released
  BY <1>1, <1>2, <1>3
     DEF Settle, LedgerInv, LedgerTypeOK, Operation, Outcome
<1>5. LedgerInv'
  <2>1. LedgerNext
    BY <1>1, <1>4 DEF LedgerNext
  <2> QED BY <2>1, LedgerKept
<1>6. ASSUME NEW i \in Process
      PROVE  /\ job'[i] \in JobRow /\ job'[i].log = job[i].log
             /\ job'[i].box = job[i].box /\ job'[i].known = job[i].known
             /\ job'[i].intent = job[i].intent /\ job'[i].cut = job[i].cut
             /\ job'[i].written = job[i].written
             /\ i # id => job'[i] = job[i]
             /\ i = id => job'[i].meta = NoLog /\ job'[i].kept = 0
  <2>1. NoLog \in LogMeta
    BY DEF NoLog, LogMeta, Reasons
  <2>2. job[i] \in JobRow
    BY <1>2
  <2>3. CASE i = id
    <3>1. job'[i] = [job[i] EXCEPT !.ok = FALSE, !.kept = 0, !.torn = FALSE,
                                   !.meta = NoLog]
      BY <1>1, <2>3 DEF Forget
    <3>2. PICK r \in JobRow : r = job[i]
      BY <2>2
    <3>3. PICK q : q = [r EXCEPT !.ok = FALSE, !.kept = 0, !.torn = FALSE,
                                 !.meta = NoLog]
      OBVIOUS
    <3>4. /\ q \in JobRow /\ q.log = r.log /\ q.box = r.box /\ q.known = r.known
          /\ q.intent = r.intent /\ q.cut = r.cut /\ q.written = r.written
          /\ q.meta = NoLog /\ q.kept = 0
      BY <2>1, <3>2, <3>3 DEF JobRow
    <3>5. job'[i] = q
      BY <3>1, <3>2, <3>3
    <3> QED BY <2>3, <3>2, <3>4, <3>5
  <2>4. CASE i # id
    BY <1>1, <2>2, <2>4
  <2> QED BY <2>3, <2>4
<1>7. ArtifactTyped' /\ StoreFits'
  <2>1. job' \in [Process -> JobRow]
    BY <1>1, <1>6
  <2> QED BY <1>1, <1>2, <2>1, IdleTyped DEF ArtifactTyped, StoreFits
<1>8. EngineFits'
  BY <1>1, <1>3, <1>4, IdleTyped DEF EngineFits
<1>9. ReceiptsPinned'
  <2> SUFFICES ASSUME NEW i \in OpIds, Settled(i)'
               PROVE  Receipt(i, ops[i].status)' \in pins'["own"]
    BY DEF ReceiptsPinned
  <2>1. CASE i = id
    <3>1. Receipt(i, ops[i].status)' = Receipt(ws.active, engine.status)
      BY <1>1, <1>4, <1>6, <2>1 DEF Receipt, Object
    <3> QED BY <1>1, <1>2, <3>1 DEF EngineFits
  <2>2. CASE i # id
    <3>1. Settled(i) /\ ops'[i] = ops[i]
      BY <1>4, <2>2 DEF Settled
    <3>2. Receipt(i, ops[i].status)' = Receipt(i, ops[i].status)
      BY <1>6, <3>1 DEF Receipt, Object
    <3> QED BY <1>1, <3>1, <3>2 DEF ArtifactInv, ReceiptsPinned
  <2> QED BY <2>1, <2>2
<1>10. ASSUME NEW i \in Process PROVE JobFits(i)'
  <2>1. JobFits(i)
    BY <1>2
  <2>2. CASE i = id
    <3>1. /\ BoxStopped(job[i]) /\ LogFits(job[i])
          /\ engine.status = "succeeded" => VerificationLogValid(job[i].log)
      BY <1>1, <1>2, <2>2 DEF EngineFits, PublicationFits
    <3>2. BoxStopped(job'[i]) /\ LogFits(job'[i]) /\ MetaFits(job'[i])
      BY <1>6, <2>2, <3>1 DEF BoxStopped, LogFits, MetaFits
    <3> QED BY <1>3, <1>4, <1>6, <2>1, <2>2, <3>1, <3>2
            DEF JobFits, Settled, BoxStopped
  <2>3. CASE i # id
    <3>1. job'[i] = job[i] /\ job[i].box # "running"
      BY <1>1, <1>6, <2>1, <2>3 DEF JobFits
    <3> QED BY <1>3, <1>4, <2>1, <2>3, <3>1
            DEF JobFits, MetaFits, Settled, BoxStopped, LogFits
  <2> QED BY <2>2, <2>3
<1> QED BY <1>5, <1>7, <1>8, <1>9, <1>10 DEF ArtifactInv

-----------------------------------------------------------------------------
(* The store, the gate and new operations *)

\* The database refers to what the journal has pinned.
LEMMA PublishReceiptInv ==
  ASSUME ArtifactInv, NEW id \in OpIds, PublishReceipt(id)
  PROVE  ArtifactInv'
<1>1. /\ UNCHANGED <<ledgerVars, engine, job, objects, pins, registered>>
      /\ \E refs : (\A o \in refs : o \in objects) /\ ready' = ready \cup refs
  BY DEF PublishReceipt, PublishArtifact, Stat
<1>2. StoreFits' /\ DOMAIN pins' = {"own", "other"} /\ UNCHANGED <<ws, ops>>
  BY <1>1 DEF ArtifactInv, StoreFits, ArtifactTyped, ledgerVars
<1> QED BY <1>1, <1>2, LedgerKept, StoreInv

\* Another runner pins and lets go of its own objects.
LEMMA OtherInv ==
  ASSUME ArtifactInv, OtherRunner
  PROVE  ArtifactInv'
<1>1. UNCHANGED <<ledgerVars, engine, job, ready>> /\ UNCHANGED <<ws, ops>>
  BY DEF OtherRunner, ledgerVars
<1>2. /\ DOMAIN pins' = {"own", "other"} /\ pins'["own"] = pins["own"]
      /\ pins'["other"] = pins["other"] \cup {Foreign}
      /\ objects' = objects \cup {Foreign} /\ "other" \in registered'
  BY DEF OtherRunner, ArtifactInv, ArtifactTyped
<1>3. StoreFits'
  BY <1>1, <1>2 DEF ArtifactInv, StoreFits
<1> QED BY <1>1, <1>2, <1>3, LedgerKept, StoreInv

\* The collector keeps what either authority it has read references, and the only
\* journal it has not read has pinned nothing.
LEMMA CollectInv ==
  ASSUME ArtifactInv, Collect
  PROVE  ArtifactInv'
<1>1. /\ UNCHANGED <<ledgerVars, engine, job, pins, ready, registered>>
      /\ UNCHANGED <<ws, ops>> /\ ~Publishing /\ registered = {"own"}
      /\ objects' = objects \cap (ready \cup pins["own"])
  BY DEF Collect, CheckJournal, Remove, postgresReferences, journalReferences,
         ledgerVars
<1>2. "other" \notin registered
  BY <1>1
<1>3. StoreFits' /\ DOMAIN pins' = {"own", "other"}
  BY <1>1, <1>2 DEF ArtifactInv, StoreFits, ArtifactTyped
<1> QED BY <1>1, <1>3, LedgerKept, StoreInv

\* Prepare, adopt and reopen change the workspace row only.
LEMMA GateStepInv ==
  ASSUME ArtifactInv, NEW e \in Epochs, Gate(e)
  PROVE  ArtifactInv'
<1>1. /\ UNCHANGED <<ops, engine, job, storeVars>>
      /\ Prepare(e) \/ Reopen(e) \/ \E stop \in BOOLEAN : Fence(e, stop)
  BY DEF Gate, Prepare, Reopen, Fence
<1>2. ws'.active = ws.active /\ ws'.released = ws.released
  <2>1. CASE Prepare(e)
    <3>1. ws = NoWorkspace
      BY <2>1 DEF Prepare, ArtifactInv, LedgerInv, Grounded
    <3> QED BY <2>1, <3>1 DEF Prepare, NoWorkspace
  <2>2. CASE Reopen(e) \/ \E stop \in BOOLEAN : Fence(e, stop)
    BY <2>2 DEF Reopen, Fence, ArtifactInv, LedgerInv, LedgerTypeOK
  <2> QED BY <1>1, <2>1, <2>2
<1>3. LedgerInv'
  <2>1. LedgerNext
    BY <1>1 DEF LedgerNext
  <2> QED BY <2>1, LedgerKept
<1>4. /\ UNCHANGED <<objects, pins, ready, registered>>
      /\ StoreFits' /\ DOMAIN pins' = {"own", "other"}
  BY <1>1 DEF storeVars, ArtifactInv, StoreFits, ArtifactTyped
<1> QED BY <1>1, <1>2, <1>3, <1>4, StoreInv

\* The active operation changes the content.
LEMMA ChangeInv ==
  ASSUME ArtifactInv, NEW id \in OpIds, ChangeContent(id)
  PROVE  ArtifactInv'
<1>1. /\ UNCHANGED <<ws, ops, engine, job, objects, pins, ready, registered>>
      /\ Write(id)
  BY DEF ChangeContent, Write, storeVars
<1>2. LedgerInv'
  <2>1. LedgerNext
    BY <1>1 DEF LedgerNext
  <2> QED BY <2>1, LedgerKept
<1>3. StoreFits' /\ DOMAIN pins' = {"own", "other"}
  BY <1>1 DEF ArtifactInv, StoreFits, ArtifactTyped
<1> QED BY <1>1, <1>2, <1>3, StoreInv

\* A new operation has no container, no spool and no log.
LEMMA AcceptOpInv ==
  ASSUME ArtifactInv, NEW id \in OpIds, NEW e \in Epochs, AcceptOp(id, e)
  PROVE  ArtifactInv'
<1>1. /\ Accept(id, e, ws.revision) /\ engine' = [Idle EXCEPT !.pc = "run"]
      /\ UNCHANGED <<job, objects, pins, ready, registered>>
  BY DEF AcceptOp, storeVars
<1>2. /\ id \notin DOMAIN ops /\ ws.active = NoOp /\ ~ws.released
      /\ DOMAIN ops' = DOMAIN ops \cup {id} /\ ops'[id].status = "open"
      /\ \A i \in DOMAIN ops : i # id /\ ops'[i] = ops[i]
      /\ ws'.active = id /\ ws'.released = ws.released
  BY <1>1 DEF Accept, ArtifactInv, LedgerInv, LedgerTypeOK
<1>3. LedgerInv'
  <2>1. LedgerNext
    BY <1>1 DEF LedgerNext
  <2> QED BY <2>1, LedgerKept
<1>4. ArtifactTyped' /\ StoreFits'
  BY <1>1, IdleTyped DEF ArtifactInv, ArtifactTyped, StoreFits
<1>5. \A i : Settled(i)' => Settled(i) /\ ops'[i] = ops[i]
  BY <1>2 DEF Settled
<1>6. ReceiptsPinned'
  BY <1>1, <1>5, ReceiptsKept
<1>7. ASSUME NEW i \in Process PROVE JobFits(i)'
  <2>1. JobFits(i) /\ NoOp \notin Process
    BY OpAssumption, ArtifactAssumption DEF ArtifactInv
  <2>2. job[i].box # "running"
    BY <1>2, <2>1 DEF JobFits
  <2>3. i \notin DOMAIN ops' => i \notin DOMAIN ops
    BY <1>2
  <2> QED BY <1>1, <1>2, <1>5, <2>1, <2>2, <2>3
          DEF JobFits, MetaFits, BoxStopped, LogFits
<1>8. EngineFits'
  <2>1. /\ engine'.pc = "run" /\ engine'.seen = 0 /\ engine'.failed = "none"
        /\ engine'.requested = FALSE /\ engine'.stream = "off"
    BY <1>1 DEF Idle
  <2>2. id \in Process => PublicationFits(id)'
    <3> SUFFICES ASSUME id \in Process PROVE PublicationFits(id)'
      OBVIOUS
    <3>1. job'[id].meta = NoLog /\ job'[id].kept = 0
      BY <1>1, <1>2 DEF ArtifactInv, JobFits, NewJob
    <3>2. CaptureFits(job[id])'
      BY <2>1, <3>1 DEF CaptureFits
    <3> QED BY <2>1, <3>2 DEF PublicationFits
  <2> QED BY <1>2, <2>1, <2>2 DEF EngineFits
<1> QED BY <1>3, <1>4, <1>6, <1>7, <1>8 DEF ArtifactInv

\* cleanupLogContainers: every operation of a workspace that can be released has
\* its receipt, so its container has stopped and is recorded, or is gone.
LEMMA ReleaseInv ==
  ASSUME ArtifactInv, NEW e \in Epochs, ReleaseWorkspace(e)
  PROVE  ArtifactInv'
<1>1. /\ Release(e) /\ UNCHANGED <<ops, engine, objects, pins, ready, registered>>
      /\ job' = [id \in Process |-> IF job[id].known
                                    THEN [job[id] EXCEPT !.box = "removed"]
                                    ELSE job[id]]
  BY DEF ReleaseWorkspace, Release, storeVars
<1>2. ws.active = NoOp /\ ws'.active = ws.active /\ NoOp \notin OpIds
  BY <1>1, OpAssumption DEF Release, ArtifactInv, LedgerInv, LedgerTypeOK
<1>3. LedgerInv'
  <2>1. LedgerNext
    BY <1>1 DEF LedgerNext
  <2> QED BY <2>1, LedgerKept
<1>4. ASSUME NEW i \in Process
      PROVE  /\ job'[i] \in JobRow /\ job'[i].log = job[i].log
             /\ job'[i].known = job[i].known /\ job'[i].meta = job[i].meta
             /\ job'[i].intent = job[i].intent /\ job'[i].cut = job[i].cut
             /\ job'[i].written = job[i].written /\ job'[i].kept = job[i].kept
             /\ job[i].known => job'[i].box = "removed"
             /\ ~job[i].known => job'[i] = job[i]
  <2>1. PICK r \in JobRow : r = job[i]
    BY DEF ArtifactInv, ArtifactTyped
  <2>2. CASE job[i].known
    <3>1. job'[i] = [r EXCEPT !.box = "removed"]
      BY <1>1, <2>1, <2>2
    <3>2. PICK q : q = [r EXCEPT !.box = "removed"]
      OBVIOUS
    <3>3. /\ q \in JobRow /\ q.log = r.log /\ q.known = r.known /\ q.meta = r.meta
          /\ q.intent = r.intent /\ q.cut = r.cut /\ q.written = r.written
          /\ q.kept = r.kept /\ q.box = "removed"
      BY <3>2 DEF JobRow
    <3> QED BY <2>1, <2>2, <3>1, <3>2, <3>3
  <2>3. CASE ~job[i].known
    BY <1>1, <2>1, <2>3
  <2> QED BY <2>2, <2>3
<1>5. ArtifactTyped' /\ StoreFits'
  <2>1. job' \in [Process -> JobRow]
    BY <1>1, <1>4
  <2> QED BY <1>1, <2>1 DEF ArtifactInv, ArtifactTyped, StoreFits
<1>6. ReceiptsPinned'
  BY <1>1, <1>4, ReceiptsKept DEF Settled
<1>7. EngineFits'
  <2>1. engine.pc = "idle"
    BY <1>2 DEF ArtifactInv, EngineFits
  <2>2. ws.active \notin Process
    BY <1>2, ArtifactAssumption
  <2> QED BY <1>1, <1>2, <2>1, <2>2 DEF EngineFits
<1>8. ASSUME NEW i \in Process PROVE JobFits(i)'
  <2>1. JobFits(i)
    BY DEF ArtifactInv
  <2>2. CASE i \notin DOMAIN ops
    <3>1. job[i] = NewJob
      BY <2>1, <2>2 DEF JobFits
    <3>2. job'[i] = NewJob
      BY <1>4, <3>1 DEF NewJob
    <3>3. NewJob.box = "none" /\ ~NewJob.known /\ ~NewJob.intent /\ NewJob.meta = NoLog
          /\ NewJob.written = 0 /\ NewJob.kept = 0
      BY DEF NewJob
    <3> QED BY <1>1, <2>2, <3>2, <3>3 DEF JobFits, Settled, MetaFits
  <2>3. CASE i \in DOMAIN ops
    <3>1. Settled(i)
      BY <1>2, <2>3, ArtifactAssumption
         DEF Settled, ArtifactInv, LedgerInv, SingleWriter
    <3>2. job'[i].box = "removed" \/ (job'[i] = job[i] /\ job[i].box = "none")
      BY <1>4, <2>1, <3>1 DEF JobFits, BoxStopped
    <3> QED BY <1>1, <1>4, <2>1, <2>3, <3>1, <3>2
            DEF JobFits, Settled, MetaFits, BoxStopped, LogFits
  <2> QED BY <2>2, <2>3
<1> QED BY <1>3, <1>5, <1>6, <1>7, <1>8 DEF ArtifactInv

-----------------------------------------------------------------------------
(* The theorems *)

\* Nothing is stored and nothing runs.
LEMMA ArtifactStart == ArtifactInit => ArtifactInv
<1> SUFFICES ASSUME ArtifactInit PROVE ArtifactInv
  OBVIOUS
<1>1. LedgerInv /\ ws = NoWorkspace /\ DOMAIN ops = {}
  BY LedgerInitInv DEF ArtifactInit, LedgerInit
<1>2. NewJob \in JobRow
  <2>1. NoLog \in LogMeta
    BY DEF NoLog, LogMeta, Reasons
  <2> QED BY <2>1 DEF NewJob, JobRow
<1>3. ArtifactTyped /\ StoreFits
  BY <1>2, IdleTyped DEF ArtifactInit, ArtifactTyped, StoreFits
<1>4. ReceiptsPinned /\ EngineFits
  BY <1>1, IdleTyped, OpAssumption, ArtifactAssumption
     DEF ArtifactInit, ReceiptsPinned, Settled, EngineFits, NoWorkspace
<1>5. ASSUME NEW i \in Process PROVE JobFits(i)
  <2>1. job[i] = NewJob
    BY DEF ArtifactInit
  <2>2. NewJob.box = "none" /\ ~NewJob.known /\ ~NewJob.intent /\ NewJob.meta = NoLog
        /\ NewJob.written = 0 /\ NewJob.kept = 0
    BY DEF NewJob
  <2> QED BY <1>1, <2>1, <2>2 DEF JobFits, Settled, MetaFits
<1> QED BY <1>1, <1>3, <1>4, <1>5 DEF ArtifactInv

\* Every step keeps ArtifactInv.
LEMMA ArtifactStep == ArtifactInv /\ [ArtifactNext]_artifactVars => ArtifactInv'
<1> SUFFICES ASSUME ArtifactInv, [ArtifactNext]_artifactVars PROVE ArtifactInv'
  OBVIOUS
<1>1. CASE UNCHANGED artifactVars
  <2>1. /\ UNCHANGED ledgerVars /\ UNCHANGED <<ws, ops, engine, job>>
        /\ UNCHANGED <<objects, pins, ready, registered>>
    BY <1>1 DEF artifactVars, ledgerVars
  <2>2. StoreFits' /\ DOMAIN pins' = {"own", "other"}
    BY <2>1 DEF ArtifactInv, StoreFits, ArtifactTyped
  <2> QED BY <2>1, <2>2, LedgerKept, StoreInv
<1>2. ASSUME NEW id \in Process, JobStep(id) PROVE ArtifactInv'
  BY <1>2, CreateInv, StartInv, ExitInv, DrainInv, StreamInv, StopInv,
     FinishCaptureInv, PublishLogInv DEF JobStep
<1>3. ASSUME NEW id \in OpIds, OpStep(id) PROVE ArtifactInv'
  BY <1>3, ChangeInv, FinishToolInv, UnstartedInv, ReconcileInv, PutReceiptInv,
     PinReceiptInv, CommitInv, PublishReceiptInv, AcceptOpInv DEF OpStep
<1>4. ASSUME NEW e \in Epochs, Gate(e) \/ ReleaseWorkspace(e) PROVE ArtifactInv'
  BY <1>4, GateStepInv, ReleaseInv
<1>5. CASE Crash
  BY <1>5, EngineStops DEF Crash
<1>6. CASE OtherRunner \/ Collect
  BY <1>6, OtherInv, CollectInv
<1> QED BY <1>1, <1>2, <1>3, <1>4, <1>5, <1>6 DEF ArtifactNext

\* ArtifactInv always holds.
LEMMA ArtifactAlways == ArtifactSpec => []ArtifactInv
<1> QED BY ArtifactStart, ArtifactStep, PTL DEF ArtifactSpec

\* The runner with its captures, its artifact store and its collector is an
\* operation ledger: every step is one of the ledger's or does not touch it, so
\* what holds of the ledger holds here.
THEOREM ArtifactsImplementLedger == ArtifactSpec => LedgerSpec
<1>1. ArtifactInit => LedgerInit
  BY DEF ArtifactInit
<1>2. [ArtifactNext]_artifactVars => [LedgerNext]_ledgerVars
  BY ArtifactLedger DEF artifactVars, ledgerVars
<1> QED BY <1>1, <1>2, PTL DEF ArtifactSpec, LedgerSpec

\* Nothing a journal has pinned, a receipt names or the database lists is ever
\* collected, and every receipt is pinned, whatever dies between the bytes and
\* their reference and whichever runner registers when (WithPublication,
\* Collect, CheckJournal): for every set of operations and every bound.
THEOREM ReferencesSurvive == ArtifactSpec => []ReferencedPresent
<1>1. ArtifactInv => ReferencedPresent
  BY DEF ArtifactInv, StoreFits, ReceiptsPinned, ReferencedPresent
<1> QED BY <1>1, ArtifactAlways, PTL

\* A process that succeeded has all of its output in its log, and a log that
\* calls itself complete accounts for every unit that was written, unless the
\* daemon closed the stream early (startCaptured, publishLogs).
THEOREM SuccessHasWholeLog == ArtifactSpec => []SucceededLogWhole
<1>1. ArtifactInv => SucceededLogWhole
  <2> SUFFICES ASSUME ArtifactInv, NEW id \in Process, Settled(id), ~job[id].cut
               PROVE  /\ ops[id].status = "succeeded" =>
                           job[id].log.complete
                           /\ job[id].log.kept = job[id].written
                      /\ job[id].log.complete =>
                           job[id].log.kept + job[id].log.dropped = job[id].written
    BY DEF SucceededLogWhole
  <2>1. /\ LogFits(job[id])
        /\ ops[id].status = "succeeded" => VerificationLogValid(job[id].log)
    BY DEF ArtifactInv, JobFits
  <2>2. job[id].log.complete =>
          job[id].log.kept + job[id].log.dropped = job[id].written
    BY <2>1 DEF LogFits
  <2>3. ops[id].status = "succeeded" =>
          job[id].log.complete /\ job[id].log.dropped = 0
    BY <2>1 DEF LogFits, VerificationLogValid
  <2>4. job[id].log.kept \in Nat
    BY DEF ArtifactInv, ArtifactTyped, JobRow, LogMeta
  <2> QED BY <2>2, <2>3, <2>4
<1> QED BY <1>1, ArtifactAlways, PTL

\* However a capture ended, its metadata is one that validLogMetadata accepts for
\* the frames that were kept, so the operation can be settled; a frame that was
\* written in part is the exception (Finish, validLogMetadata).
THEOREM SpoolsReadable == ArtifactSpec => []SpoolReadable
<1>1. ArtifactInv => SpoolReadable
  BY DEF ArtifactInv, JobFits, MetaFits, SpoolReadable, Readable
<1> QED BY <1>1, ArtifactAlways, PTL

\* A settled operation leaves no container that runs, and a released workspace
\* none at all, recorded or not (cleanupLogContainers, CancelNeverDispatched).
THEOREM ContainersRemoved == ArtifactSpec => []NoContainerLeft
<1>1. ArtifactInv => NoContainerLeft
  <2> SUFFICES ASSUME ArtifactInv, NEW id \in Process
               PROVE  /\ Settled(id) => job[id].box # "running"
                      /\ ws.released => job[id].box \in {"none", "removed"}
    BY DEF NoContainerLeft
  <2>1. JobFits(id)
    BY DEF ArtifactInv
  <2> QED BY <2>1 DEF JobFits, BoxStopped
<1> QED BY <1>1, ArtifactAlways, PTL
=============================================================================

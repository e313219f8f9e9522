-------------------------- MODULE RunnerArtifacts --------------------------
(***************************************************************************)
(* What the receipts of OperationLedger point at.  A process writes to a   *)
(* container whose output the executor drains into a bounded spool         *)
(* (internal/sandbox/docker_attach.go, internal/runner/log_capture.go);    *)
(* the spool and the receipt become objects of the artifact store, which   *)
(* the journal pins before the receipt is committed                        *)
(* (internal/runner/log_publication.go, Engine.complete); workers verify   *)
(* them and list them in the database; and an operator's collector removes *)
(* old objects that neither authority references                           *)
(* (internal/artifact/retention.go, internal/retention).                   *)
(*                                                                         *)
(* Publishers hold the publication lock in shared mode from their bytes to *)
(* their reference, the collector holds it exclusively.  The runner may    *)
(* die anywhere; containers, spools, objects and rows stay.                *)
(***************************************************************************)
EXTENDS OperationLedger, FiniteSets

CONSTANTS Process,    \* the operations that run in a container
          MaxLogOps,  \* MaxOperations and RunBytes of the log policy
          Limit,      \* OperationBytes, in frames of one unit of output
          MaxOut,     \* bound: what a process writes
          MaxFaults   \* bound: crashes and failures of the file system or the daemon

ASSUME ArtifactAssumption ==
  /\ Process \subseteq OpIds /\ IsFiniteSet(Process)
  /\ {MaxLogOps, Limit, MaxOut, MaxFaults} \subseteq Nat

VARIABLES engine,     \* the executor or reconciler of the active operation
          job,        \* container and spool of each process
          objects,    \* the objects of the run's directory
          pins,       \* runner_artifacts, by journal
          ready,      \* the READY rows of artifacts
          registered, \* journals registered with the store
          faults      \* faults so far

storeVars == <<objects, pins, ready, registered>>
artifactVars == <<ws, ops, tree, engine, job, objects, pins, ready,
                  registered, faults>>

\* "none" is the code's empty failure or reason, NoLog stands for a nil summary.
Idle == [pc |-> "idle", status |-> "none", never |-> FALSE, killed |-> FALSE,
         stream |-> "off", seen |-> 0, failed |-> "none", requested |-> FALSE]
NoLog == [complete |-> FALSE, seen |-> 0, kept |-> 0, dropped |-> 0,
          truncated |-> FALSE, reason |-> "unset", requested |-> FALSE]
NewJob == [box |-> "none", known |-> FALSE, intent |-> FALSE, ok |-> FALSE,
           written |-> 0, cut |-> FALSE, kept |-> 0, torn |-> FALSE,
           meta |-> NoLog, log |-> NoLog]

\* Objects are addressed by their content.
Object(kind, op, status, size) ==
  [kind |-> kind, op |-> op, status |-> status, size |-> size]
LogObject(id) == Object("log", NoOp, "none", job[id].log.kept)
Receipt(id, status) ==
  Object("receipt", id, status, IF id \in Process THEN job[id].log.kept ELSE 0)
Foreign == Object("foreign", NoOp, "none", 0)

ArtifactInit ==
  /\ LedgerInit
  /\ engine = Idle /\ job = [id \in Process |-> NewJob]
  /\ objects = {} /\ ready = {} /\ registered = {"own"}
  /\ pins = [j \in {"own", "other"} |-> {}]
  /\ faults = 0

-----------------------------------------------------------------------------
(* The container and its capture *)

Running(id) == ws.active = id /\ engine.pc = "run"

\* journal.reserve with reserveLogs in the same transaction, and the dispatch.
AcceptOp(id, e) ==
  /\ Accept(id, e, ws.revision)
  /\ id \in Process => Cardinality(Process \cap DOMAIN ops) < MaxLogOps
  /\ engine' = [Idle EXCEPT !.pc = "run"]
  /\ UNCHANGED <<job, storeVars, faults>>

\* newLogCapture, and the container of the operation.
CreateJob(id) ==
  /\ Running(id) /\ job[id].box = "none"
  /\ job' = [job EXCEPT ![id].box = "created"]
  /\ UNCHANGED <<ledgerVars, engine, storeVars, faults>>

recordLogContainer(id) ==
  /\ Running(id) /\ job[id].box = "created" /\ ~job[id].known
  /\ job' = [job EXCEPT ![id].known = TRUE]
  /\ UNCHANGED <<ledgerVars, engine, storeVars, faults>>

\* The output is attached and the intent stored before the container starts; a
\* failed start may have started it.  written is all it will have written when it
\* stops, however it stops.
StartJob(id) ==
  /\ Running(id) /\ job[id].known /\ ~job[id].intent
  /\ \E started, told \in BOOLEAN, n \in 0..MaxOut :
       /\ told => started
       /\ n > 0 => started
       /\ job' = [job EXCEPT ![id].intent = TRUE, ![id].written = n,
                             ![id].box = IF started THEN "running" ELSE @]
       /\ engine' = [engine EXCEPT !.stream = IF told THEN "on" ELSE "gap"]
  /\ UNCHANGED <<ledgerVars, storeVars, faults>>

JobExits(id) ==
  /\ job[id].box = "running"
  /\ \E ok \in BOOLEAN : job' = [job EXCEPT ![id].box = "exited", ![id].ok = ok]
  /\ UNCHANGED <<ledgerVars, engine, storeVars, faults>>

\* A process changes files while its container runs, a file tool while it executes.
ChangeContent(id) ==
  /\ IF id \in Process THEN job[id].box = "running" ELSE engine.pc = "run"
  /\ Write(id)
  /\ UNCHANGED <<engine, job, storeVars, faults>>

\* logCapture.Write: everything is counted, frames are kept up to the limit, and
\* after a failure, which may leave part of a frame, nothing is kept.
CaptureWrite(id, failed, torn) ==
  LET fits == job[id].kept < Limit
      keep == engine.failed = "none" /\ failed = "none" /\ fits
      why == IF engine.failed # "none" THEN engine.failed
             ELSE IF failed = "none" /\ ~fits THEN "output_limit"
             ELSE failed
  IN /\ job' = [job EXCEPT ![id].kept = IF keep THEN @ + 1 ELSE @,
                           ![id].torn = @ \/ torn]
     /\ engine' = [engine EXCEPT !.seen = @ + 1, !.failed = why]

\* drainAttach hands on the next unit of output.
Drain(id) ==
  /\ Running(id) /\ engine.stream = "on" /\ engine.seen < job[id].written
  /\ \/ CaptureWrite(id, "none", FALSE) /\ UNCHANGED faults
     \/ /\ engine.failed = "none" /\ faults < MaxFaults /\ faults' = faults + 1
        /\ \E torn \in BOOLEAN : CaptureWrite(id, "spool_io_error", torn)
  /\ UNCHANGED <<ledgerVars, storeVars>>

\* The stream ends with the output, or breaks, or the daemon closes it early.
StreamEnds(id) ==
  /\ Running(id) /\ engine.stream = "on"
  /\ \/ /\ job[id].box = "exited" /\ engine.seen = job[id].written
        /\ engine' = [engine EXCEPT !.stream = "eof"] /\ UNCHANGED <<job, faults>>
     \/ /\ faults < MaxFaults /\ faults' = faults + 1
        /\ \/ engine' = [engine EXCEPT !.stream = "gap"] /\ UNCHANGED job
           \/ /\ engine' = [engine EXCEPT !.stream = "eof"]
              /\ job' = [job EXCEPT ![id].cut = TRUE]
  /\ UNCHANGED <<ledgerVars, storeVars>>

\* Docker.Cancel: what runs is killed, what has stopped keeps its exit code.
Cancel(id) ==
  [job EXCEPT ![id].box = "exited", ![id].ok = IF job[id].box = "running" THEN FALSE ELSE @]

\* The container is stopped for a failed capture, or for its caller or its
\* deadline; then it was interrupted.
StopJob(id) ==
  /\ Running(id) /\ engine.stream = "on" /\ job[id].box \in {"running", "exited"}
  /\ \/ /\ engine.failed # "none" /\ ~engine.requested
        /\ engine' = [engine EXCEPT !.requested = TRUE, !.killed = FALSE]
     \/ /\ job[id].box = "running" /\ ~engine.requested
        /\ engine' = [engine EXCEPT !.killed = TRUE]
  /\ job' = Cancel(id)
  /\ UNCHANGED <<ledgerVars, storeVars, faults>>

\* Mutation of Finish: an incomplete capture is not marked as truncated.
FinishUnmarked(id, complete) ==
  [complete |-> complete, seen |-> engine.seen, kept |-> job[id].kept,
   dropped |-> IF complete THEN engine.seen - job[id].kept ELSE 0,
   truncated |-> engine.failed # "none",
   reason |-> IF engine.failed # "none" THEN engine.failed
              ELSE IF complete THEN "none" ELSE "capture_gap",
   requested |-> engine.requested]

\* logCapture.Finish: the summary that becomes the metadata.
Finish(id, complete) ==
  [complete |-> complete, seen |-> engine.seen, kept |-> job[id].kept,
   dropped |-> IF complete THEN engine.seen - job[id].kept ELSE 0,
   truncated |-> engine.failed # "none" \/ ~complete,
   reason |-> IF engine.failed # "none" THEN engine.failed
              ELSE IF complete THEN "none" ELSE "capture_gap",
   requested |-> engine.requested]

VerificationLogValid(log) ==
  log.complete /\ ~log.truncated /\ log.reason = "none" /\ ~log.requested

\* startCaptured returns: complete only with the end of the stream and a stopped
\* container; the spool may not be synced, the metadata not written, or written
\* with an error.  Without them the operation is left for a reconciliation.
FinishCapture(id) ==
  LET complete == engine.stream = "eof" /\ job[id].box = "exited"
  IN /\ Running(id) /\ engine.stream \in {"eof", "gap"}
     /\ \E synced, stored, told \in BOOLEAN :
          LET m == Finish(id, complete /\ synced)
          IN /\ told => stored
             /\ ~(synced /\ told) => faults < MaxFaults
             /\ faults' = faults + (IF synced /\ told THEN 0 ELSE 1)
             /\ job' = IF stored THEN [job EXCEPT ![id].meta = m] ELSE job
             /\ engine' = IF complete /\ told
                          THEN [Idle EXCEPT !.pc = "ready",
                                  !.status = IF engine.killed THEN "cancelled"
                                             ELSE IF job[id].ok /\ VerificationLogValid(m)
                                             THEN "succeeded" ELSE "failed"]
                          ELSE Idle
     /\ UNCHANGED <<ledgerVars, storeVars>>

\* A file tool returns.
FinishTool(id) ==
  /\ Running(id) /\ id \notin Process
  /\ \E status \in {"succeeded", "failed"} :
       engine' = [Idle EXCEPT !.pc = "ready", !.status = status]
  /\ UNCHANGED <<ledgerVars, job, storeVars, faults>>

\* Completed before anything of it was done, by the executor or a reconciliation:
\* the cancel came before the dispatch, or a process has no valid command.  Whether
\* a dispatch was recorded is not kept, only that it has had no effect yet.
CompleteUnstarted(id) ==
  /\ ws.active = id /\ engine.pc \in {"idle", "run"} /\ ~Changed(id)
  /\ id \in Process => job[id].box = "none"
  /\ \/ engine' = [Idle EXCEPT !.pc = "ready", !.status = "cancelled", !.never = TRUE]
     \/ /\ id \in Process /\ engine.pc = "run"
        /\ engine' = [Idle EXCEPT !.pc = "ready", !.status = "failed"]
  /\ UNCHANGED <<ledgerVars, job, storeVars, faults>>

-----------------------------------------------------------------------------
(* Reconciliation *)

\* Mutation of CancelNeverDispatched: the container is left as it is.
CancelKeepsContainer(id) == job

\* A container that was created but never to start is removed.
CancelNeverDispatched(id) == [job EXCEPT ![id].box = "removed"]

\* reconcileLocked: a container that has stopped is completed from its exit code
\* and its spool, one that runs may be cancelled, one that was never to start is
\* removed.
Reconcile(id) ==
  /\ ws.active = id /\ engine.pc = "idle"
  /\ \/ /\ id \notin Process
        /\ engine' = [Idle EXCEPT !.pc = "ready",
                                  !.status = IF Changed(id) THEN "succeeded" ELSE "failed"]
        /\ UNCHANGED job
     \/ /\ id \in Process /\ job[id].box = "exited"
        /\ engine' = [Idle EXCEPT !.pc = "ready",
                                  !.status = IF job[id].ok THEN "succeeded" ELSE "failed"]
        /\ UNCHANGED job
     \/ /\ id \in Process /\ job[id].box = "running"
        /\ engine' = [Idle EXCEPT !.pc = "ready", !.status = "cancelled"]
        /\ job' = Cancel(id)
     \/ /\ id \in Process /\ job[id].box = "created" /\ ~job[id].intent
        /\ engine' = [Idle EXCEPT !.pc = "ready", !.status = "cancelled", !.never = TRUE]
        /\ job' = CancelNeverDispatched(id)
  /\ UNCHANGED <<ledgerVars, storeVars, faults>>

\* What is volatile is lost: the executor, and the counters of its capture.
Crash ==
  /\ engine.pc # "idle" /\ faults < MaxFaults /\ faults' = faults + 1
  /\ engine' = Idle
  /\ UNCHANGED <<ledgerVars, job, storeVars>>

-----------------------------------------------------------------------------
(* Publication *)

\* validLogMetadata: the metadata agrees with the frames that were read back.
validLogMetadata(m, kept) ==
  /\ m.seen >= kept
  /\ IF m.complete
     THEN /\ m.dropped = m.seen - kept
          /\ IF m.reason = "none" THEN m.dropped = 0 /\ ~m.truncated /\ ~m.requested
             ELSE m.truncated
     ELSE m.truncated /\ m.reason # "none" /\ m.dropped = 0

\* readLogCapture: metadata must authenticate the whole spool.
Readable(id) ==
  job[id].meta = NoLog \/ (~job[id].torn /\ validLogMetadata(job[id].meta, job[id].kept))

\* Mutation of readLogCapture: a spool without metadata is taken for whole.
readLogUnchecked(id) ==
  IF job[id].meta # NoLog THEN job[id].meta
  ELSE [NoLog EXCEPT !.complete = TRUE, !.seen = job[id].kept, !.kept = job[id].kept,
                     !.reason = "none"]

readLogCapture(id) ==
  IF job[id].meta # NoLog THEN job[id].meta
  ELSE [NoLog EXCEPT !.seen = job[id].kept, !.kept = job[id].kept,
                     !.truncated = TRUE, !.reason = "capture_gap"]

publishLogs(id) ==
  IF engine.never
  THEN [readLogCapture(id) EXCEPT !.complete = TRUE, !.truncated = FALSE,
                                  !.reason = "never_started"]
  ELSE readLogCapture(id)

\* LocalStore.put: an object that is there is used again, however old.
Put(o) == objects' = objects \cup {o} /\ UNCHANGED <<pins, ready, registered>>

\* Engine.complete, step by step, under one publication lock.
PublishLog(id) ==
  /\ ws.active = id /\ id \in Process /\ engine.pc = "ready"
  /\ IF ~Readable(id) THEN engine' = Idle /\ UNCHANGED <<job, storeVars>>
     ELSE LET log == publishLogs(id)
          IN /\ job' = [job EXCEPT ![id].log = log]
             /\ engine' = [engine EXCEPT !.pc = "pinlog",
                  !.status = IF @ # "cancelled" /\ ~VerificationLogValid(log)
                             THEN "failed" ELSE @]
             /\ Put(Object("log", NoOp, "none", log.kept))
  /\ UNCHANGED <<ledgerVars, faults>>

pinArtifact(o) ==
  pins' = [pins EXCEPT !["own"] = @ \cup {o}] /\ UNCHANGED <<objects, ready, registered>>

\* The log is pinned, and the receipt that names it is put.
PutReceipt(id) ==
  /\ ws.active = id
  /\ IF id \in Process THEN engine.pc = "pinlog" ELSE engine.pc = "ready"
  /\ objects' = objects \cup {Receipt(id, engine.status)}
  /\ pins' = [pins EXCEPT !["own"] = IF id \in Process THEN @ \cup {LogObject(id)} ELSE @]
  /\ engine' = [engine EXCEPT !.pc = "pin"]
  /\ UNCHANGED <<ledgerVars, job, ready, registered, faults>>

PinReceipt(id) ==
  /\ ws.active = id /\ engine.pc = "pin"
  /\ pinArtifact(Receipt(id, engine.status)) /\ engine' = [engine EXCEPT !.pc = "finish"]
  /\ UNCHANGED <<ledgerVars, job, faults>>

\* After the receipt nothing reads the spool or the exit code.
Forget(j) == [j EXCEPT !.ok = FALSE, !.kept = 0, !.torn = FALSE, !.meta = NoLog]

\* journal.finish.
Commit(id) ==
  /\ ws.active = id /\ engine.pc = "finish"
  /\ Settle(id, engine.status) /\ engine' = Idle
  /\ job' = [j \in Process |-> IF j = id THEN Forget(job[j]) ELSE job[j]]
  /\ UNCHANGED <<storeVars, faults>>

\* LocalStore.Stat and Open find the object, with the bytes of its name.
Stat(o) == o \in objects

\* verifiedLogArtifact: the receipt is read back, and authenticates its log.
verifiedLogArtifact(id) ==
  IF id \in Process /\ Stat(Receipt(id, ops[id].status)) THEN {LogObject(id)} ELSE {}

\* Store.PublishArtifact: READY rows, once each.
PublishArtifact(refs) == ready' = ready \cup refs

\* Driver.publish of the receipt of a settled operation and of its log.
PublishReceipt(id) ==
  /\ id \in DOMAIN ops /\ ops[id].status # "open"
  /\ LET refs == verifiedLogArtifact(id) \cup {Receipt(id, ops[id].status)}
     IN (\A o \in refs : Stat(o)) /\ PublishArtifact(refs)
  /\ UNCHANGED <<ledgerVars, engine, job, objects, pins, registered, faults>>

\* A second runner registers its journal with the store as it opens it, and then
\* publishes too.
OtherRunner ==
  /\ "other" \notin registered
  /\ registered' = registered \cup {"other"} /\ objects' = objects \cup {Foreign}
  /\ pins' = [pins EXCEPT !["other"] = @ \cup {Foreign}]
  /\ UNCHANGED <<ledgerVars, engine, job, ready, faults>>

-----------------------------------------------------------------------------
(* Collection *)

\* Publishers that hold the lock.
Publishing == engine.pc \in {"pinlog", "pin", "finish"}

\* The collector knows one journal, and it must be the only one.
CheckJournal == registered = {"own"}

\* Every row of artifacts, and every pin of the runner's journal.
postgresReferences == ready
journalReferences == pins["own"]

\* What is not referenced goes; all of it may be older than MinAge.
Remove(refs) == objects' = objects \cap refs

\* Mutation of Collect: the lock is not waited for.
CollectUnlocked ==
  /\ CheckJournal /\ Remove(postgresReferences \cup journalReferences)
  /\ UNCHANGED <<ledgerVars, engine, job, pins, ready, registered, faults>>

\* The references are read, and the store is walked, under the exclusive lock:
\* nothing that publishes comes between, so this is one step.
Collect ==
  /\ ~Publishing /\ CheckJournal /\ Remove(postgresReferences \cup journalReferences)
  /\ UNCHANGED <<ledgerVars, engine, job, pins, ready, registered, faults>>

-----------------------------------------------------------------------------
(* The gate of the workspace *)

Gate(e) ==
  /\ Prepare(e) \/ Reopen(e) \/ \E stop \in BOOLEAN : Fence(e, stop)
  /\ UNCHANGED <<engine, job, storeVars, faults>>

\* cleanupLogContainers: every container is removed, and one that may have been
\* started without being recorded stops the release.
cleanupLogContainers(id) == IF job[id].known THEN job[id].box # "running" ELSE ~job[id].intent

ReleaseWorkspace(e) ==
  /\ \A id \in Process \cap DOMAIN ops : cleanupLogContainers(id)
  /\ Release(e)
  /\ job' = [id \in Process |-> IF job[id].known THEN [job[id] EXCEPT !.box = "removed"]
                                ELSE job[id]]
  /\ UNCHANGED <<engine, storeVars, faults>>

-----------------------------------------------------------------------------
JobStep(id) ==
  \/ CreateJob(id) \/ recordLogContainer(id) \/ StartJob(id) \/ JobExits(id)
  \/ Drain(id) \/ StreamEnds(id) \/ StopJob(id) \/ FinishCapture(id) \/ PublishLog(id)

OpStep(id) ==
  \/ ChangeContent(id) \/ FinishTool(id) \/ CompleteUnstarted(id) \/ Reconcile(id)
  \/ PutReceipt(id) \/ PinReceipt(id) \/ Commit(id) \/ PublishReceipt(id)
  \/ \E e \in Epochs : AcceptOp(id, e)

ArtifactNext ==
  \/ \E id \in Process : JobStep(id)
  \/ \E id \in OpIds : OpStep(id)
  \/ \E e \in Epochs : Gate(e) \/ ReleaseWorkspace(e)
  \/ Crash \/ OtherRunner \/ Collect

ArtifactSpec == ArtifactInit /\ [][ArtifactNext]_artifactVars

-----------------------------------------------------------------------------
(* Properties *)

Settled(id) == id \in DOMAIN ops /\ ops[id].status # "open"

\* Whatever a journal has pinned, a receipt names or the database lists can be
\* opened: neither a crash between the bytes and their reference, nor an old
\* object that is put again, nor a second runner lets the collector take it
\* (WithPublication, Collect, CheckJournal).
ReferencedPresent ==
  /\ ready \cup pins["own"] \cup pins["other"] \subseteq objects
  /\ \A id \in OpIds : Settled(id) => Receipt(id, ops[id].status) \in pins["own"]

\* A process succeeds only with all of its output kept, and a log that calls
\* itself complete accounts for every unit,
\* except where the daemon closed the stream early (startCaptured, publishLogs).
SucceededLogWhole ==
  \A id \in Process : Settled(id) /\ ~job[id].cut =>
    LET log == job[id].log
    IN /\ ops[id].status = "succeeded" => log.complete /\ log.kept = job[id].written
       /\ log.complete => log.kept + log.dropped = job[id].written

\* However a capture ended, its spool can be read back, so that the operation can
\* be settled; except with part of a frame (Finish against validLogMetadata).
SpoolReadable ==
  \A id \in Process : job[id].torn \/ Readable(id)

\* A released workspace leaves no container behind, and a settled operation none
\* that runs (cleanupLogContainers, CancelNeverDispatched).
NoContainerLeft ==
  \A id \in Process :
    /\ Settled(id) => job[id].box # "running"
    /\ ws.released => job[id].box \in {"none", "removed"}
=============================================================================

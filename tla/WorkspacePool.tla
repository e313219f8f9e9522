--------------------------- MODULE WorkspacePool ---------------------------
(***************************************************************************)
(* The two capacities a run uses and how they are given back: execution    *)
(* slots, counted in the database (internal/persistence/scheduler.go,      *)
(* capacity.go), and storage slots, leased by the runner until an operator *)
(* cleans the finished run up (internal/runner/storage.go,                 *)
(* initialization.go, internal/application/cleanup.go,                     *)
(* internal/persistence/cleanup.go).                                       *)
(*                                                                         *)
(* Several runs of one tenant share one runner.  Of a run's own life only  *)
(* what moves the two capacities is kept; RunControl has the rest, and     *)
(* OperationLedger what tools do to a workspace's revision, which is 1     *)
(* here.  A prepare request may be served late or more than once; the      *)
(* requests of an operator end with the cleanup lease, as their grants do. *)
(***************************************************************************)
EXTENDS Integers, FiniteSets

CONSTANTS Runs,       \* runs of one tenant, all on one runner
          Slots,      \* configured volumes
          Operators,  \* processes that clean up
          None,       \* no slot, no operator, no run
          MaxActive,  \* max_active of the tenant
          MaxSlots,   \* max_slots of the runner
          Files,      \* files of the imported source
          MaxEpoch,   \* bound: claims of one run
          MaxFaults   \* bound: deaths of the runner and interrupted cleanups

ASSUME PoolAssumption ==
  /\ {MaxActive, MaxSlots, MaxEpoch, Files} \subseteq Nat \ {0}
  /\ MaxFaults \in Nat
  /\ None \notin Slots \cup Operators \cup Runs

VARIABLES run,       \* rows of the runs and their allocations
          active,    \* active_count of the tenant
          reserved,  \* reserved_slots of the runner
          cleanup,   \* rows of workspace_cleanup
          operator,  \* what each operator process is doing
          lease,     \* volume_leases
          ws,        \* rows of the workspaces
          disk,      \* files a workspace has on its volume
          torn,      \* runs with a half-written file on the volume
          lock,      \* who holds a workspace's lock
          up, faults

database == <<run, active, reserved>>
journal == <<lease, ws>>
volumes == <<disk, torn>>
process == <<up, faults>>
poolVars == <<run, active, reserved, cleanup, operator, lease, ws, disk, torn,
              lock, up, faults>>

NewRun == [status |-> "queued", epoch |-> 0, alloc |-> FALSE, revision |-> 0,
           unsettled |-> FALSE]
NoCleanup == [phase |-> "none", owner |-> None, epoch |-> 0, revision |-> 0,
              snapshot |-> 0]
NoLease == [slot |-> None, epoch |-> 0, released |-> FALSE]
NoWorkspace == [exists |-> FALSE, epoch |-> 0, stopped |-> FALSE,
                released |-> FALSE]
Idle == [pc |-> "idle", run |-> None, read |-> 0]

PoolInit ==
  /\ run = [r \in Runs |-> NewRun] /\ active = 0 /\ reserved = 0
  /\ cleanup = [r \in Runs |-> NoCleanup]
  /\ operator = [k \in Operators |-> Idle]
  /\ lease = [r \in Runs |-> NoLease] /\ ws = [r \in Runs |-> NoWorkspace]
  /\ disk = [r \in Runs |-> 0] /\ torn = {}
  /\ lock = [r \in Runs |-> "nobody"]
  /\ up = TRUE /\ faults = 0

-----------------------------------------------------------------------------
(* Execution slots: claim, releaseAllocation *)

OnlyDatabase == UNCHANGED <<cleanup, operator, journal, volumes, lock, process>>

\* A worker drives the run: it has a lease, and with it the allocation.
Working(r) == run[r].status = "running" /\ run[r].alloc

\* Mutation of CountIn: a run that is claimed again is counted again.
CountInAlways(r) == active' = active + 1 /\ reserved' = reserved + 1

\* A run that still has its allocation is not counted again.
CountIn(r) ==
  IF run[r].alloc THEN UNCHANGED <<active, reserved>>
  ELSE active' = active + 1 /\ reserved' = reserved + 1

\* The run is queued, was deferred, or its lease has expired.  Without an
\* allocation it needs room with the tenant and on the runner; a claim that
\* finds none only postpones the run.
Claim(r) ==
  /\ run[r].status # "ended" /\ run[r].epoch < MaxEpoch
  /\ run[r].alloc \/ (active < MaxActive /\ reserved < MaxSlots)
  /\ CountIn(r)
  /\ run' = [run EXCEPT ![r].status = "running", ![r].alloc = TRUE,
                        ![r].epoch = @ + 1]
  /\ OnlyDatabase

\* Given back once, whoever asks.
releaseAllocation(r) ==
  IF run[r].alloc THEN active' = active - 1 /\ reserved' = reserved - 1
  ELSE UNCHANGED <<active, reserved>>

GiveBack(r, row) ==
  /\ releaseAllocation(r)
  /\ run' = [run EXCEPT ![r] = [row EXCEPT !.alloc = FALSE]]
  /\ OnlyDatabase

\* An approval is awaited or a retry is due later: the slot and the lease go.
Defer(r) == Working(r) /\ run[r].revision > 0 /\ GiveBack(r, run[r])

Occupied == {lease[r].slot : r \in {u \in Runs : ~lease[u].released}} \ {None}

\* PrepareWorkspace finds no volume, and the run goes back to the queue.  The
\* answer changes nothing on the runner, so it and the transaction it leads to
\* are one step.
RequeueCapacity(r) ==
  /\ Working(r) /\ run[r].revision = 0 /\ up
  /\ ~ws[r].exists /\ lease[r].slot = None /\ Slots \subseteq Occupied
  /\ GiveBack(r, [run[r] EXCEPT !.status = "queued"])

\* The prepared workspace is reported under the epoch it was prepared in.
WorkspaceReady(r) ==
  /\ Working(r) /\ run[r].revision = 0
  /\ ws[r].exists /\ ws[r].epoch = run[r].epoch /\ ~ws[r].stopped
  /\ run' = [run EXCEPT ![r].revision = 1]
  /\ UNCHANGED <<active, reserved>> /\ OnlyDatabase

\* The run ends: completed or failed with its workspace, stopped with the
\* revision of the fenced workspace, or stopped when the runner has said that
\* there is none.  unsettled: an effect stays in flight that nobody will settle;
\* of a stopped run, one of its system effects, which Driver.stop does not inspect.
Ends(r, revision, unsettled) ==
  GiveBack(r, [run[r] EXCEPT !.status = "ended", !.revision = revision,
                             !.unsettled = unsettled])

Finished(r) ==
  /\ Working(r) /\ run[r].revision > 0
  /\ \E u \in BOOLEAN : Ends(r, 1, u)

Stopped(r) ==
  /\ Working(r) /\ ws[r].stopped /\ ws[r].epoch = run[r].epoch
  /\ lock[r] = "nobody"
  /\ \E u \in BOOLEAN : (u => run[r].revision > 0) /\ Ends(r, 1, u)

StoppedAbsent(r) ==
  /\ Working(r) /\ run[r].revision = 0 /\ up /\ ~ws[r].exists
  /\ Ends(r, 0, FALSE)

-----------------------------------------------------------------------------
(* Storage slots: PrepareWorkspace, allocateStorage, resumeImport *)

OnlyRunner == UNCHANGED <<database, cleanup, operator, process>>

\* A prepare of a claimed epoch, perhaps a late one, starts or resumes the
\* import under its durable lease.
PrepareWorkspace(r, epoch) ==
  /\ up /\ epoch <= run[r].epoch /\ lock[r] = "nobody"
  /\ ~ws[r].exists /\ epoch >= lease[r].epoch /\ ~lease[r].released
  /\ \E s \in (IF lease[r].slot = None THEN Slots \ Occupied ELSE {lease[r].slot}) :
       lease' = [lease EXCEPT ![r].slot = s, ![r].epoch = epoch]
  /\ lock' = [lock EXCEPT ![r] = "prepare"]
  /\ UNCHANGED <<ws, volumes>> /\ OnlyRunner

\* One more file; the files that are there must be whole files of the source.
resumeImport(r) ==
  /\ lock[r] = "prepare" /\ r \notin torn /\ disk[r] < Files
  /\ disk' = [disk EXCEPT ![r] = @ + 1]
  /\ UNCHANGED <<journal, torn, lock>> /\ OnlyRunner

\* Mutation of createWorkspace: the row is written before the import.
createWorkspaceEarly(r) ==
  /\ lock[r] = "prepare"
  /\ ws' = [ws EXCEPT ![r] = [NoWorkspace EXCEPT !.exists = TRUE,
                                                 !.epoch = lease[r].epoch]]
  /\ lock' = [lock EXCEPT ![r] = "nobody"]
  /\ UNCHANGED <<lease, volumes>> /\ OnlyRunner

\* The row appears when the whole source is on the volume.
createWorkspace(r) ==
  /\ lock[r] = "prepare" /\ r \notin torn /\ disk[r] = Files
  /\ ws' = [ws EXCEPT ![r] = [NoWorkspace EXCEPT !.exists = TRUE,
                                                 !.epoch = lease[r].epoch]]
  /\ lock' = [lock EXCEPT ![r] = "nobody"]
  /\ UNCHANGED <<lease, volumes>> /\ OnlyRunner

\* The request's context ends, or damage is found on the volume.
PrepareFails(r) ==
  /\ lock[r] = "prepare"
  /\ lock' = [lock EXCEPT ![r] = "nobody"]
  /\ UNCHANGED <<journal, volumes>> /\ OnlyRunner

\* A fence needs no lock: it passes a running prepare, whose workspace it does
\* not see.
setFence(r, epoch, stop) ==
  /\ ws[r].exists /\ epoch >= ws[r].epoch /\ ~ws[r].released
  /\ ws[r].stopped => stop
  /\ ws' = [ws EXCEPT ![r].epoch = epoch, ![r].stopped = @ \/ stop]

\* The worker adopts the workspace of an earlier epoch, or stops it.
AdoptWorkspace(r) ==
  /\ Working(r) /\ up /\ setFence(r, run[r].epoch, FALSE)
  /\ UNCHANGED <<lease, volumes, lock>> /\ OnlyRunner

StopWorkspace(r) ==
  /\ Working(r) /\ up /\ setFence(r, run[r].epoch, TRUE)
  /\ UNCHANGED <<lease, volumes, lock>> /\ OnlyRunner

\* The process dies with its locks; an import may leave half a file.  It comes
\* up again unless a workspace has no lease (openStorage).
Crash ==
  /\ up /\ faults < MaxFaults /\ faults' = faults + 1
  /\ lock' = [r \in Runs |-> "nobody"]
  /\ torn' \in {torn, torn \cup {r \in Runs : lock[r] = "prepare"
                                              /\ disk[r] < Files}}
  /\ up' = \A r \in Runs : ws[r].exists /\ ~ws[r].released => lease[r].slot # None
  /\ UNCHANGED <<database, cleanup, operator, journal, disk>>

-----------------------------------------------------------------------------
(* Cleanup of a finished run: Driver.CleanupWorkspace *)

\* The terminal row, its allocation and its effects are checked; the cleanup
\* lease is taken, renewed, or taken over when it has expired.
AcquireWorkspaceCleanup(k, r) ==
  /\ operator[k] = Idle
  /\ run[r].status = "ended" /\ ~run[r].alloc /\ ~run[r].unsettled
  /\ cleanup[r].phase # "released" /\ cleanup[r].owner \in {k, None}
  /\ cleanup' = [cleanup EXCEPT ![r] =
       IF @.phase # "none" THEN [@ EXCEPT !.owner = k]
       ELSE [NoCleanup EXCEPT !.phase = "requested", !.owner = k,
                              !.epoch = run[r].epoch + 1,
                              !.revision = run[r].revision]]
  /\ operator' = [operator EXCEPT ![k] = [Idle EXCEPT !.run = r,
       !.pc = IF cleanup[r].phase = "sealed" THEN "release" ELSE "stop"]]
  /\ UNCHANGED <<database, journal, volumes, lock, process>>

\* The lease of an operator that is gone, or of one that is too slow.
CleanupLeaseExpires(r) ==
  LET k == cleanup[r].owner
  IN /\ k # None /\ cleanup[r].phase # "released"
     /\ faults' = faults + (IF operator[k].run = r THEN 1 ELSE 0)
     /\ faults' <= MaxFaults
     /\ cleanup' = [cleanup EXCEPT ![r].owner = None]
     /\ UNCHANGED <<database, operator, journal, volumes, lock, up>>

\* The cleanup lease and its phase: asked by CleanupProof before each request to
\* the runner, by the statements of Seal and Complete themselves.
CleanupProof(k, phases) ==
  /\ cleanup[operator[k].run].owner = k
  /\ cleanup[operator[k].run].phase \in phases

\* The operator's request at step pc is served and it goes on to next.
Step(k, pc, next, phases) ==
  /\ operator[k].pc = pc /\ CleanupProof(k, phases)
  /\ operator' = [operator EXCEPT ![k] = IF next = "idle" THEN Idle
                                         ELSE [@ EXCEPT !.pc = next]]

CleanupStop(k) ==
  LET r == operator[k].run
  IN /\ Step(k, "stop", IF cleanup[r].revision = 1 THEN "snapshot" ELSE "idle",
             {"requested", "sealed"})
     /\ up /\ lock[r] = "nobody" /\ setFence(r, cleanup[r].epoch, TRUE)
     /\ UNCHANGED <<database, cleanup, lease, volumes, lock, process>>

\* SealSnapshot reads the files that are there and publishes them.
SealSnapshot(k) ==
  LET r == operator[k].run
  IN /\ operator[k].pc = "snapshot" /\ CleanupProof(k, {"requested", "sealed"})
     /\ up /\ lock[r] = "nobody"
     /\ ws[r].exists /\ ws[r].epoch = cleanup[r].epoch /\ ~ws[r].released
     /\ operator' = [operator EXCEPT ![k].pc = "seal", ![k].read = disk[r]]
     /\ UNCHANGED <<database, cleanup, journal, volumes, lock, process>>

SealWorkspaceCleanup(k) ==
  /\ Step(k, "seal", "release", {"requested"})
  /\ cleanup' = [cleanup EXCEPT ![operator[k].run].phase = "sealed",
                                ![operator[k].run].snapshot = operator[k].read]
  /\ UNCHANGED <<database, journal, volumes, lock, process>>

\* Mutation of ReleaseWorkspace: a workspace that is marked released is refused,
\* as it is for a snapshot.
ReleaseWorkspaceOnce(k) ==
  LET r == operator[k].run
  IN /\ Step(k, "release", "releasing", {"sealed"})
     /\ up /\ lock[r] = "nobody" /\ ws[r].exists /\ ws[r].epoch = cleanup[r].epoch
     /\ ~ws[r].released
     /\ ws' = [ws EXCEPT ![r].released = TRUE]
     /\ lock' = [lock EXCEPT ![r] = "release"]
     /\ UNCHANGED <<database, cleanup, lease, volumes, process>>

\* ReleaseWorkspace marks the row, then works on the volume.
ReleaseWorkspace(k) ==
  LET r == operator[k].run
  IN /\ Step(k, "release", "releasing", {"sealed"})
     /\ up /\ lock[r] = "nobody" /\ ws[r].exists /\ ws[r].epoch = cleanup[r].epoch
     /\ ws' = [ws EXCEPT ![r].released = TRUE]
     /\ lock' = [lock EXCEPT ![r] = "release"]
     /\ UNCHANGED <<database, cleanup, lease, volumes, process>>

\* releaseStorage: the bytes go, and are gone for good, before the lease.
RemoveAll(r) ==
  /\ lock[r] = "release"
  /\ disk' = [disk EXCEPT ![r] = 0] /\ torn' = torn \ {r}
  /\ lock' = [lock EXCEPT ![r] = "free"]
  /\ UNCHANGED journal /\ OnlyRunner

\* Mutation of FreeSlot: the lease is given back while the bytes are there.
FreeSlotFirst(r) ==
  /\ lock[r] \in {"release", "free"}
  /\ lease' = [lease EXCEPT ![r].released = TRUE]
  /\ lock' = [lock EXCEPT ![r] = IF @ = "free" THEN "nobody" ELSE @]
  /\ UNCHANGED <<ws, volumes>> /\ OnlyRunner

FreeSlot(r) ==
  /\ lock[r] = "free"
  /\ lease' = [lease EXCEPT ![r].released = TRUE]
  /\ lock' = [lock EXCEPT ![r] = "nobody"]
  /\ UNCHANGED <<ws, volumes>> /\ OnlyRunner

CompleteWorkspaceCleanup(k) ==
  /\ Step(k, "releasing", "idle", {"sealed"})
  /\ lock[operator[k].run] = "nobody" /\ lease[operator[k].run].released
  /\ cleanup' = [cleanup EXCEPT ![operator[k].run].phase = "released"]
  /\ UNCHANGED <<database, journal, volumes, lock, process>>

\* A call fails or the process is killed: the operator starts again, or another
\* one does.
GiveUp(k) ==
  /\ operator[k] # Idle /\ operator' = [operator EXCEPT ![k] = Idle]
  /\ faults < MaxFaults /\ faults' = faults + 1
  /\ UNCHANGED <<database, cleanup, journal, volumes, lock, up>>

\* The database or the runner refuses the operator's request.
Refused(k) ==
  LET r == operator[k].run
  IN /\ operator[k] # Idle
     /\ ~(/\ up /\ ws[r].exists /\ ws[r].epoch <= cleanup[r].epoch
          /\ cleanup[r].owner = k
          /\ (operator[k].pc = "releasing" /\ lock[r] = "nobody"
              => lease[r].released))
     /\ operator' = [operator EXCEPT ![k] = Idle]
     /\ UNCHANGED <<database, cleanup, journal, volumes, lock, process>>

-----------------------------------------------------------------------------
ControlStep(r) ==
  \/ Claim(r) \/ Defer(r) \/ RequeueCapacity(r) \/ WorkspaceReady(r)
  \/ Finished(r) \/ Stopped(r) \/ StoppedAbsent(r)
  \/ AdoptWorkspace(r) \/ StopWorkspace(r)

RunnerStep(r) ==
  \/ resumeImport(r) \/ createWorkspace(r) \/ RemoveAll(r) \/ FreeSlot(r)

CleanupStep(k) ==
  \/ CleanupStop(k) \/ SealSnapshot(k) \/ SealWorkspaceCleanup(k)
  \/ ReleaseWorkspace(k) \/ CompleteWorkspaceCleanup(k) \/ Refused(k)

PoolNext ==
  \/ \E r \in Runs : \/ ControlStep(r) \/ RunnerStep(r) \/ PrepareFails(r)
                     \/ CleanupLeaseExpires(r)
                     \/ \E epoch \in 1..MaxEpoch : PrepareWorkspace(r, epoch)
  \/ \E k \in Operators : \/ CleanupStep(k) \/ GiveUp(k)
                          \/ \E r \in Runs : AcquireWorkspaceCleanup(k, r)
  \/ Crash

PoolSpec == PoolInit /\ [][PoolNext]_poolVars

\* The runner finishes what it has begun, and an operator repeats a cleanup that
\* failed until it is through (docs/operations.md).
PoolFair ==
  /\ PoolSpec
  /\ \A r \in Runs :
       /\ WF_poolVars(createWorkspace(r) \/ PrepareFails(r))
       /\ WF_poolVars(RemoveAll(r) \/ FreeSlot(r))
  /\ \A k \in Operators :
       /\ WF_poolVars(CleanupStep(k))
       /\ \A r \in Runs : SF_poolVars(AcquireWorkspaceCleanup(k, r))

-----------------------------------------------------------------------------
(* Properties *)

\* The two counters of the database are the allocations that are held, and they
\* keep to their limits, through claims of runs that kept or lost their slot,
\* capacity rejections, deferrals and ends (claim, releaseAllocation).
CountersMatchAllocations ==
  LET held == Cardinality({r \in Runs : run[r].alloc})
  IN active = held /\ reserved = held /\ held <= MaxActive /\ held <= MaxSlots

\* A volume has the bytes of one workspace at most: whatever is on it belongs
\* to the run that holds its unreleased lease, through late prepares, crashes
\* between the steps of a release, and releases that are repeated.  A cleanup
\* that is recorded as released means a free volume, and no volume is freed
\* before its run's cleanup is sealed (allocateStorage, releaseStorage,
\* CompleteWorkspaceCleanup).
VolumeExclusive ==
  \A r \in Runs :
    /\ disk[r] > 0 => lease[r].slot # None /\ ~lease[r].released
    /\ cleanup[r].phase = "released" => lease[r].released
    /\ lease[r].released => cleanup[r].phase \in {"sealed", "released"}
    /\ \A q \in Runs \ {r} :
         lease[r].slot # None /\ lease[r].slot = lease[q].slot =>
           lease[r].released \/ lease[q].released

\* The content of a workspace is complete while its row says it is usable, and
\* it is removed only after a snapshot of all of it is recorded under the
\* revision the run ended with (createWorkspace, SealWorkspaceCleanup,
\* ReleaseWorkspace).
ContentKept ==
  \A r \in Runs :
    ws[r].exists =>
      \/ disk[r] = Files
      \/ /\ ws[r].released /\ cleanup[r].phase \in {"sealed", "released"}
         /\ cleanup[r].snapshot = Files /\ cleanup[r].revision = run[r].revision

\* A run that ended with its workspace and without an effect in flight gives its
\* volume back and is recorded as cleaned up, whatever crashes, lost leases and
\* abandoned attempts come between (CleanupWorkspace).
SlotReturned ==
  \A r \in Runs :
    run[r].status = "ended" /\ run[r].revision > 0 /\ ~run[r].unsettled
      ~> cleanup[r].phase = "released"
=============================================================================

------------------------- MODULE WorkspacePoolProofs -------------------------
(***************************************************************************)
(* Proofs about WorkspacePool for every set of runs, volumes and operators *)
(* and every limit.  Neither VolumeExclusive nor ContentKept is inductive: *)
(* a step on the volume is safe because of what the lock of the workspace  *)
(* says about its rows, and a release because of what was recorded when it *)
(* was sealed, so PoolInv ties the locks, the cleanup rows and the         *)
(* operators' steps to the rows of the run.                                *)
(***************************************************************************)
EXTENDS WorkspacePool, FiniteSetTheorems, TLAPS

-----------------------------------------------------------------------------
(* The inductive invariant *)

RunRow == [status : {"queued", "running", "ended"}, epoch : Nat,
           alloc : BOOLEAN, revision : {0, 1}, unsettled : BOOLEAN]
CleanupRow == [phase : {"none", "requested", "sealed", "released"},
               owner : Operators \cup {None}, epoch : Nat, revision : {0, 1},
               snapshot : Nat]
LeaseRow == [slot : Slots \cup {None}, epoch : Nat, released : BOOLEAN]
WorkspaceRow == [exists : BOOLEAN, epoch : Nat, stopped : BOOLEAN,
                 released : BOOLEAN]
OperatorState ==
  [pc : {"idle", "stop", "snapshot", "seal", "release", "releasing"},
   run : Runs \cup {None}, read : Nat]

PoolTyped ==
  /\ run \in [Runs -> RunRow] /\ active \in Int /\ reserved \in Int
  /\ cleanup \in [Runs -> CleanupRow]
  /\ operator \in [Operators -> OperatorState]
  /\ lease \in [Runs -> LeaseRow] /\ ws \in [Runs -> WorkspaceRow]
  /\ disk \in [Runs -> Nat]
  /\ lock \in [Runs -> {"nobody", "prepare", "release", "free"}]

Sealed(r) == cleanup[r].phase \in {"sealed", "released"}

\* What the rows of one run say about each other.
RowFits(r) ==
  /\ cleanup[r].phase # "none" =>
       run[r].status = "ended" /\ cleanup[r].revision = run[r].revision
  /\ Sealed(r) => cleanup[r].snapshot = Files
  /\ cleanup[r].phase = "released" => lease[r].released
  /\ lease[r].released => Sealed(r)
  /\ disk[r] > 0 => lease[r].slot # None /\ ~lease[r].released
  /\ lock[r] = "prepare" =>
       ~ws[r].exists /\ lease[r].slot # None /\ ~lease[r].released
  /\ lock[r] \in {"release", "free"} => ws[r].released /\ Sealed(r)
  /\ lock[r] = "free" => disk[r] = 0
  /\ ws[r].exists => disk[r] = Files \/ (ws[r].released /\ Sealed(r))

\* A volume has one unreleased lease.
LeasesApart ==
  \A r, q \in Runs :
    r # q /\ lease[r].slot # None /\ lease[r].slot = lease[q].slot =>
      lease[r].released \/ lease[q].released

\* An operator that works has a run, and what it read is all of its files.
OperatorFits(k) ==
  /\ operator[k].pc # "idle" => operator[k].run \in Runs
  /\ operator[k].pc = "seal" => operator[k].read = Files

PoolInv ==
  /\ PoolTyped /\ LeasesApart
  /\ \A r \in Runs : RowFits(r)
  /\ \A k \in Operators : OperatorFits(k)

-----------------------------------------------------------------------------
(* Steps that keep PoolInv *)

\* A step that changes the rows of one run and nothing an operator has read.
LEMMA RowStep ==
  ASSUME PoolInv, PoolTyped', NEW r \in Runs, RowFits(r)', UNCHANGED operator,
         \A q \in Runs \ {r} :
           /\ run'[q] = run[q] /\ cleanup'[q] = cleanup[q]
           /\ lease'[q] = lease[q] /\ ws'[q] = ws[q]
           /\ disk'[q] = disk[q] /\ lock'[q] = lock[q],
         \/ lease'[r].slot = lease[r].slot
            /\ (lease[r].released => lease'[r].released)
         \/ lease'[r].slot \notin Occupied
  PROVE  PoolInv'
<1>1. ASSUME NEW q \in Runs PROVE RowFits(q)'
  <2>1. CASE q = r
    BY <2>1
  <2>2. CASE q # r
    <3>1. RowFits(q)
      BY DEF PoolInv
    <3> QED BY <2>2, <3>1 DEF RowFits, Sealed
  <2> QED BY <2>1, <2>2
<1>2. \A k \in Operators : OperatorFits(k)'
  BY DEF PoolInv, OperatorFits
<1>3. LeasesApart'
  <2> SUFFICES ASSUME NEW p \in Runs, NEW q \in Runs, p # q,
                      lease'[p].slot # None, lease'[p].slot = lease'[q].slot
               PROVE  lease'[p].released \/ lease'[q].released
    BY DEF LeasesApart
  <2>1. \A x, y \in Runs :
          x # y /\ lease[x].slot # None /\ lease[x].slot = lease[y].slot =>
            lease[x].released \/ lease[y].released
    BY DEF PoolInv, LeasesApart
  <2>2. CASE /\ lease'[r].slot = lease[r].slot
             /\ lease[r].released => lease'[r].released
    BY <2>1, <2>2
  <2>3. CASE lease'[r].slot \notin Occupied
    <3>1. \A x \in Runs : lease[x].slot = None \/ lease[x].released
                            \/ lease[x].slot # lease'[r].slot
      BY <2>3 DEF Occupied
    <3> QED BY <2>1, <3>1
  <2> QED BY <2>2, <2>3
<1> QED BY <1>1, <1>2, <1>3 DEF PoolInv

\* A transaction on the row of a run that has not ended.
LEMMA DatabaseInv ==
  ASSUME PoolInv, NEW r \in Runs, run[r].status # "ended",
         NEW row \in RunRow, run' = [run EXCEPT ![r] = row],
         active' \in Int, reserved' \in Int, OnlyDatabase
  PROVE  PoolInv'
<1>1. /\ UNCHANGED <<cleanup, operator, lease, ws, disk, lock>>
      /\ PoolTyped /\ RowFits(r)
  BY DEF OnlyDatabase, journal, volumes, PoolInv
<1>2. PoolTyped'
  BY <1>1 DEF PoolTyped
<1>3. RowFits(r)'
  BY <1>1 DEF RowFits, Sealed
<1> QED BY <1>1, <1>2, <1>3, RowStep DEF PoolTyped

\* The transactions of the scheduler and of the run's worker.
LEMMA ControlInv ==
  ASSUME PoolInv, NEW r \in Runs, ControlStep(r)
  PROVE  PoolInv'
<1>1. PoolTyped /\ RowFits(r) /\ run[r] \in RunRow
  BY DEF PoolInv, PoolTyped
<1>2. ASSUME NEW row \in RunRow, GiveBack(r, row), run[r].status # "ended"
      PROVE  PoolInv'
  <2>1. [row EXCEPT !.alloc = FALSE] \in RunRow
    BY DEF RunRow
  <2>2. active' \in Int /\ reserved' \in Int
    BY <1>1, <1>2 DEF GiveBack, releaseAllocation, PoolTyped
  <2> QED BY <1>2, <2>1, <2>2, DatabaseInv DEF GiveBack
<1>3. CASE Claim(r)
  <2> DEFINE row == [run[r] EXCEPT !.status = "running", !.alloc = TRUE,
                                   !.epoch = run[r].epoch + 1]
  <2>1. run[r].status # "ended" /\ OnlyDatabase
    BY <1>3 DEF Claim
  <2>2. run' = [run EXCEPT ![r] = row]
    BY <1>1, <1>3 DEF Claim, PoolTyped
  <2>3. run[r].epoch + 1 \in Nat
    BY <1>1 DEF RunRow
  <2>4. row \in RunRow
    BY <1>1, <2>3 DEF RunRow
  <2>5. active' \in Int /\ reserved' \in Int
    BY <1>1, <1>3 DEF Claim, CountIn, PoolTyped
  <2> HIDE DEF row
  <2> QED BY <2>1, <2>2, <2>4, <2>5, DatabaseInv
<1>4. CASE Defer(r)
  BY <1>1, <1>2, <1>4 DEF Defer, Working
<1>5. CASE RequeueCapacity(r)
  <2>1. [run[r] EXCEPT !.status = "queued"] \in RunRow
    BY <1>1 DEF RunRow
  <2> QED BY <1>2, <1>5, <2>1 DEF RequeueCapacity, Working
<1>6. CASE WorkspaceReady(r)
  <2>1. [run[r] EXCEPT !.revision = 1] \in RunRow
    BY <1>1 DEF RunRow
  <2>2. /\ run' = [run EXCEPT ![r] = [run[r] EXCEPT !.revision = 1]]
        /\ run[r].status # "ended" /\ OnlyDatabase
        /\ active' \in Int /\ reserved' \in Int
    BY <1>1, <1>6 DEF WorkspaceReady, Working, PoolTyped
  <2> QED BY <2>1, <2>2, DatabaseInv
<1>7. ASSUME NEW v \in {0, 1}, NEW u \in BOOLEAN, Ends(r, v, u), Working(r)
      PROVE  PoolInv'
  <2>1. [run[r] EXCEPT !.status = "ended", !.revision = v, !.unsettled = u]
          \in RunRow
    BY <1>1 DEF RunRow
  <2> QED BY <1>2, <1>7, <2>1 DEF Ends, Working
<1>8. CASE Finished(r)
  BY <1>7, <1>8 DEF Finished
<1>9. CASE Stopped(r) \/ StoppedAbsent(r)
  BY <1>7, <1>9 DEF Stopped, StoppedAbsent
<1>10. ASSUME NEW stop \in BOOLEAN, setFence(r, run[r].epoch, stop),
              UNCHANGED <<lease, volumes, lock>>, OnlyRunner
       PROVE  PoolInv'
  <2>1. UNCHANGED <<run, active, reserved, cleanup, operator, lease, disk, lock>>
    BY <1>10 DEF OnlyRunner, database, volumes
  <2>2. /\ ws' = [ws EXCEPT ![r].epoch = run[r].epoch,
                            ![r].stopped = @ \/ stop]
        /\ ws[r] \in WorkspaceRow /\ run[r].epoch \in Nat
    BY <1>1, <1>10 DEF setFence, PoolTyped, RunRow
  <2>3. /\ ws' \in [Runs -> WorkspaceRow]
        /\ ws'[r].exists = ws[r].exists /\ ws'[r].released = ws[r].released
        /\ \A q \in Runs \ {r} : ws'[q] = ws[q]
    BY <1>1, <2>2 DEF PoolTyped, WorkspaceRow
  <2>4. PoolTyped' /\ RowFits(r)'
    BY <1>1, <2>1, <2>3 DEF PoolTyped, RowFits, Sealed
  <2> QED BY <2>1, <2>3, <2>4, RowStep
<1>11. CASE AdoptWorkspace(r) \/ StopWorkspace(r)
  BY <1>10, <1>11 DEF AdoptWorkspace, StopWorkspace
<1> QED BY <1>3, <1>4, <1>5, <1>6, <1>8, <1>9, <1>11 DEF ControlStep

\* PrepareWorkspace takes a volume no other run has.
LEMMA PrepareInv ==
  ASSUME PoolInv, NEW r \in Runs, NEW epoch \in Nat, PrepareWorkspace(r, epoch)
  PROVE  PoolInv'
<1>1. PoolTyped /\ RowFits(r) /\ lease[r] \in LeaseRow
  BY DEF PoolInv, PoolTyped
<1>2. UNCHANGED <<run, active, reserved, cleanup, operator, ws, disk>>
  BY DEF PrepareWorkspace, OnlyRunner, database, volumes
<1>3. PICK s \in (IF lease[r].slot = None THEN Slots \ Occupied
                  ELSE {lease[r].slot}) :
        lease' = [lease EXCEPT ![r].slot = s, ![r].epoch = epoch]
  BY DEF PrepareWorkspace
<1>4. s \in Slots /\ s # None
  BY <1>1, PoolAssumption DEF LeaseRow
<1>5. /\ lease' \in [Runs -> LeaseRow]
      /\ lease'[r].slot = s /\ lease'[r].released = lease[r].released
      /\ \A q \in Runs \ {r} : lease'[q] = lease[q]
  BY <1>1, <1>3, <1>4 DEF PoolTyped, LeaseRow
<1>6. /\ lock' = [lock EXCEPT ![r] = "prepare"]
      /\ ~ws[r].exists /\ ~lease[r].released
  BY DEF PrepareWorkspace
<1>7. PoolTyped'
  BY <1>1, <1>2, <1>5, <1>6 DEF PoolTyped
<1>8. RowFits(r)'
  BY <1>1, <1>2, <1>4, <1>5, <1>6 DEF RowFits, Sealed, PoolTyped
<1> QED BY <1>1, <1>2, <1>3, <1>5, <1>6, <1>7, <1>8, RowStep DEF PoolTyped

\* The runner's own steps of a prepare or a release.
LEMMA RunnerInv ==
  ASSUME PoolInv, NEW r \in Runs, RunnerStep(r) \/ PrepareFails(r)
  PROVE  PoolInv'
<1>1. /\ PoolTyped /\ RowFits(r) /\ lease[r] \in LeaseRow /\ ws[r] \in WorkspaceRow
      /\ Files \in Nat /\ Files > 0
  BY PoolAssumption DEF PoolInv, PoolTyped
<1>2. UNCHANGED <<run, active, reserved, cleanup, operator>>
  BY DEF RunnerStep, PrepareFails, resumeImport, createWorkspace, RemoveAll,
         FreeSlot, OnlyRunner, database
<1>3. CASE resumeImport(r)
  <2>1. /\ disk' = [disk EXCEPT ![r] = disk[r] + 1] /\ lock[r] = "prepare"
        /\ UNCHANGED <<lease, ws, lock>>
    BY <1>3 DEF resumeImport, journal
  <2>2. PoolTyped' /\ RowFits(r)'
    BY <1>1, <1>2, <2>1 DEF PoolTyped, RowFits, Sealed
  <2> QED BY <1>1, <1>2, <2>1, <2>2, RowStep DEF PoolTyped
<1>4. CASE createWorkspace(r)
  <2> DEFINE row == [NoWorkspace EXCEPT !.exists = TRUE, !.epoch = lease[r].epoch]
  <2>1. /\ ws' = [ws EXCEPT ![r] = row] /\ disk[r] = Files
        /\ lock' = [lock EXCEPT ![r] = "nobody"] /\ UNCHANGED <<lease, disk>>
    BY <1>4 DEF createWorkspace, volumes
  <2>2. row \in WorkspaceRow
    BY <1>1 DEF LeaseRow, WorkspaceRow, NoWorkspace
  <2> HIDE DEF row
  <2>3. PoolTyped'
    BY <1>1, <1>2, <2>1, <2>2 DEF PoolTyped
  <2>4. RowFits(r)'
    BY <1>1, <1>2, <2>1 DEF PoolTyped, RowFits, Sealed
  <2> QED BY <1>1, <1>2, <2>1, <2>3, <2>4, RowStep DEF PoolTyped
<1>5. CASE RemoveAll(r)
  <2>1. /\ disk' = [disk EXCEPT ![r] = 0] /\ lock[r] = "release"
        /\ lock' = [lock EXCEPT ![r] = "free"] /\ UNCHANGED <<lease, ws>>
    BY <1>5 DEF RemoveAll, journal
  <2>2. PoolTyped' /\ RowFits(r)'
    BY <1>1, <1>2, <2>1 DEF PoolTyped, RowFits, Sealed
  <2> QED BY <1>1, <1>2, <2>1, <2>2, RowStep DEF PoolTyped
<1>6. CASE FreeSlot(r)
  <2>1. /\ lease' = [lease EXCEPT ![r].released = TRUE] /\ lock[r] = "free"
        /\ lock' = [lock EXCEPT ![r] = "nobody"] /\ UNCHANGED <<ws, disk>>
    BY <1>6 DEF FreeSlot, volumes
  <2>2. /\ lease' \in [Runs -> LeaseRow]
        /\ lease'[r].slot = lease[r].slot /\ lease'[r].released
        /\ \A q \in Runs \ {r} : lease'[q] = lease[q]
    BY <1>1, <2>1 DEF PoolTyped, LeaseRow
  <2>3. PoolTyped'
    BY <1>1, <1>2, <2>1, <2>2 DEF PoolTyped
  <2>4. RowFits(r)'
    BY <1>1, <1>2, <2>1, <2>2 DEF PoolTyped, RowFits, Sealed
  <2> QED BY <1>1, <1>2, <2>1, <2>2, <2>3, <2>4, RowStep DEF PoolTyped
<1>7. CASE PrepareFails(r)
  <2>1. /\ lock' = [lock EXCEPT ![r] = "nobody"] /\ UNCHANGED <<lease, ws, disk>>
    BY <1>7 DEF PrepareFails, journal, volumes
  <2>2. PoolTyped' /\ RowFits(r)'
    BY <1>1, <1>2, <2>1 DEF PoolTyped, RowFits, Sealed
  <2> QED BY <1>1, <1>2, <2>1, <2>2, RowStep DEF PoolTyped
<1> QED BY <1>3, <1>4, <1>5, <1>6, <1>7 DEF RunnerStep

\* A crash of the runner frees the locks and nothing else.
LEMMA CrashInv ==
  ASSUME PoolInv, Crash
  PROVE  PoolInv'
<1>1. /\ UNCHANGED <<run, active, reserved, cleanup, operator, lease, ws, disk>>
      /\ lock' = [r \in Runs |-> "nobody"]
  BY DEF Crash, database, journal
<1>2. PoolTyped' /\ LeasesApart'
  BY <1>1 DEF PoolInv, PoolTyped, LeasesApart
<1>3. ASSUME NEW r \in Runs PROVE RowFits(r)'
  BY <1>1 DEF PoolInv, RowFits, Sealed
<1>4. \A k \in Operators : OperatorFits(k)'
  BY <1>1 DEF PoolInv, OperatorFits
<1> QED BY <1>2, <1>3, <1>4 DEF PoolInv

\* A step of the operators that leaves the runner and the run's row alone: the
\* row of one cleanup is written and one operator goes on.
LEMMA CleanupStepInv ==
  ASSUME PoolInv, NEW r \in Runs, NEW row \in CleanupRow,
         cleanup' = [cleanup EXCEPT ![r] = row],
         operator' \in [Operators -> OperatorState],
         \A k \in Operators : operator'[k] = operator[k] \/ OperatorFits(k)',
         UNCHANGED <<run, active, reserved, lease, ws, disk, lock>>,
         row.phase # "none" =>
           run[r].status = "ended" /\ row.revision = run[r].revision,
         row.phase \in {"sealed", "released"} => row.snapshot = Files,
         row.phase = "released" => lease[r].released,
         Sealed(r) => row.phase \in {"sealed", "released"}
  PROVE  PoolInv'
<1>1. PoolTyped /\ RowFits(r) /\ \A k \in Operators : OperatorFits(k)
  BY DEF PoolInv
<1>2. PoolTyped' /\ LeasesApart'
  BY DEF PoolInv, PoolTyped, LeasesApart
<1>3. ASSUME NEW q \in Runs PROVE RowFits(q)'
  <2>1. CASE q = r
    <3>1. cleanup'[r] = row
      BY <1>1 DEF PoolTyped
    <3> QED BY <1>1, <2>1, <3>1 DEF RowFits, Sealed
  <2>2. CASE q # r
    <3>1. RowFits(q) /\ cleanup'[q] = cleanup[q]
      BY <1>1, <2>2 DEF PoolInv, PoolTyped
    <3> QED BY <3>1 DEF RowFits, Sealed
  <2> QED BY <2>1, <2>2
<1>4. \A k \in Operators : OperatorFits(k)'
  BY <1>1 DEF OperatorFits
<1> QED BY <1>2, <1>3, <1>4 DEF PoolInv

\* The same, with the row as it is.
LEMMA OperatorInv ==
  ASSUME PoolInv, operator' \in [Operators -> OperatorState],
         \A k \in Operators : operator'[k] = operator[k] \/ OperatorFits(k)',
         UNCHANGED <<run, active, reserved, cleanup, lease, ws, disk, lock>>
  PROVE  PoolInv'
<1>1. PoolTyped' /\ LeasesApart' /\ \A k \in Operators : OperatorFits(k)'
  BY DEF PoolInv, PoolTyped, LeasesApart, OperatorFits
<1>2. ASSUME NEW q \in Runs PROVE RowFits(q)'
  BY DEF PoolInv, RowFits, Sealed
<1> QED BY <1>1, <1>2 DEF PoolInv

\* An operator that works on a run of its own goes on to another step.
LEMMA StepFits ==
  ASSUME PoolInv, NEW k \in Operators, NEW pc, NEW next, NEW phases,
         Step(k, pc, next, phases), pc # "idle",
         next \in {"idle", "stop", "snapshot", "release", "releasing"}
  PROVE  /\ operator[k].run \in Runs
         /\ cleanup[operator[k].run].phase \in phases
         /\ operator' \in [Operators -> OperatorState]
         /\ \A j \in Operators : operator'[j] = operator[j] \/ OperatorFits(j)'
<1>1. operator[k].run \in Runs /\ operator[k] \in OperatorState
  BY DEF PoolInv, PoolTyped, OperatorFits, Step
<1>2. Idle \in OperatorState /\ Idle.pc = "idle"
  BY DEF Idle, OperatorState
<1> DEFINE new == IF next = "idle" THEN Idle ELSE [operator[k] EXCEPT !.pc = next]
<1>3. /\ new \in OperatorState
      /\ new.pc # "idle" => new.run = operator[k].run
      /\ new.pc # "seal"
  <2>1. CASE next = "idle"
    BY <1>2, <2>1
  <2>2. CASE next # "idle"
    BY <1>1, <2>2 DEF OperatorState
  <2> QED BY <2>1, <2>2
<1>4. operator' = [operator EXCEPT ![k] = new]
  BY DEF Step, PoolInv, PoolTyped
<1> HIDE DEF new
<1>5. /\ operator' \in [Operators -> OperatorState] /\ operator'[k] = new
      /\ \A j \in Operators \ {k} : operator'[j] = operator[j]
  BY <1>3, <1>4 DEF PoolInv, PoolTyped
<1>6. OperatorFits(k)'
  BY <1>1, <1>3, <1>5 DEF OperatorFits
<1> QED BY <1>1, <1>5, <1>6 DEF Step, CleanupProof

\* An operator that stops.
LEMMA StopFits ==
  ASSUME PoolInv, NEW k \in Operators, operator' = [operator EXCEPT ![k] = Idle]
  PROVE  /\ operator' \in [Operators -> OperatorState]
         /\ \A j \in Operators : operator'[j] = operator[j] \/ OperatorFits(j)'
<1>1. Idle \in OperatorState /\ Idle.pc = "idle"
  BY DEF Idle, OperatorState
<1>2. /\ operator' \in [Operators -> OperatorState] /\ operator'[k] = Idle
      /\ \A j \in Operators \ {k} : operator'[j] = operator[j]
  BY <1>1 DEF PoolInv, PoolTyped
<1>3. OperatorFits(k)'
  BY <1>1, <1>2 DEF OperatorFits
<1> QED BY <1>2, <1>3

\* An operator takes the cleanup of a run that has ended.
LEMMA AcquireInv ==
  ASSUME PoolInv, NEW k \in Operators, NEW r \in Runs,
         AcquireWorkspaceCleanup(k, r)
  PROVE  PoolInv'
<1>1. /\ PoolTyped /\ RowFits(r) /\ cleanup[r] \in CleanupRow /\ run[r] \in RunRow
  BY DEF PoolInv, PoolTyped
<1> DEFINE old == [cleanup[r] EXCEPT !.owner = k]
           fresh == [NoCleanup EXCEPT !.phase = "requested", !.owner = k,
                                      !.epoch = run[r].epoch + 1,
                                      !.revision = run[r].revision]
           row == IF cleanup[r].phase # "none" THEN old ELSE fresh
           new == [Idle EXCEPT !.run = r,
                     !.pc = IF cleanup[r].phase = "sealed" THEN "release" ELSE "stop"]
<1>2. /\ cleanup' = [cleanup EXCEPT ![r] = row]
      /\ operator' = [operator EXCEPT ![k] = new]
      /\ run[r].status = "ended"
      /\ UNCHANGED <<run, active, reserved, lease, ws, disk, lock>>
  BY <1>1 DEF AcquireWorkspaceCleanup, database, journal, volumes, PoolTyped
<1>3. /\ old \in CleanupRow /\ old.phase = cleanup[r].phase
      /\ old.revision = cleanup[r].revision /\ old.snapshot = cleanup[r].snapshot
  BY <1>1 DEF CleanupRow
<1>4. /\ fresh \in CleanupRow /\ fresh.phase = "requested"
      /\ fresh.revision = run[r].revision
  <2>1. run[r].epoch + 1 \in Nat /\ run[r].revision \in {0, 1}
    BY <1>1 DEF RunRow
  <2> QED BY <2>1 DEF CleanupRow, NoCleanup
<1>5. /\ row \in CleanupRow
      /\ row.phase # "none" => row.revision = run[r].revision
      /\ row.phase \in {"sealed", "released"} => row.snapshot = Files
      /\ row.phase = "released" => lease[r].released
      /\ Sealed(r) => row.phase \in {"sealed", "released"}
  <2> HIDE DEF old, fresh
  <2> QED BY <1>1, <1>3, <1>4 DEF RowFits, Sealed
<1>6. new \in OperatorState /\ new.run = r /\ new.pc # "seal"
  BY DEF OperatorState, Idle
<1> HIDE DEF row, new
<1>7. /\ operator' \in [Operators -> OperatorState] /\ operator'[k] = new
      /\ \A j \in Operators \ {k} : operator'[j] = operator[j]
  BY <1>1, <1>2, <1>6 DEF PoolTyped
<1>8. OperatorFits(k)'
  BY <1>6, <1>7 DEF OperatorFits
<1> QED BY <1>2, <1>5, <1>7, <1>8, CleanupStepInv

\* A cleanup lease ends under its operator.
LEMMA ExpireInv ==
  ASSUME PoolInv, NEW r \in Runs, CleanupLeaseExpires(r)
  PROVE  PoolInv'
<1>1. /\ PoolTyped /\ RowFits(r) /\ cleanup[r] \in CleanupRow
  BY DEF PoolInv, PoolTyped
<1> DEFINE row == [cleanup[r] EXCEPT !.owner = None]
<1>2. /\ cleanup' = [cleanup EXCEPT ![r] = row]
      /\ UNCHANGED <<run, active, reserved, operator, lease, ws, disk, lock>>
  BY <1>1 DEF CleanupLeaseExpires, database, journal, volumes, PoolTyped
<1>3. /\ row \in CleanupRow /\ row.phase = cleanup[r].phase
      /\ row.revision = cleanup[r].revision /\ row.snapshot = cleanup[r].snapshot
  BY <1>1 DEF CleanupRow
<1> HIDE DEF row
<1> QED BY <1>1, <1>2, <1>3, CleanupStepInv DEF PoolTyped, RowFits, Sealed

\* The steps of the cleanup command, and giving it up.
LEMMA CleanupInv ==
  ASSUME PoolInv, NEW k \in Operators, CleanupStep(k) \/ GiveUp(k)
  PROVE  PoolInv'
<1> DEFINE r == operator[k].run
<1>1. /\ PoolTyped /\ OperatorFits(k) /\ operator[k] \in OperatorState
      /\ \A q \in Runs : RowFits(q) /\ cleanup[q] \in CleanupRow
                                    /\ ws[q] \in WorkspaceRow
  BY DEF PoolInv, PoolTyped
<1>2. CASE GiveUp(k) \/ Refused(k)
  <2>1. /\ operator' = [operator EXCEPT ![k] = Idle]
        /\ UNCHANGED <<run, active, reserved, cleanup, lease, ws, disk, lock>>
    BY <1>2 DEF GiveUp, Refused, database, journal, volumes
  <2> QED BY <2>1, StopFits, OperatorInv
<1>3. CASE SealSnapshot(k)
  <2> DEFINE new == [operator[k] EXCEPT !.pc = "seal", !.read = disk[r]]
  <2>1. /\ operator' = [operator EXCEPT ![k] = new]
        /\ r \in Runs /\ ws[r].exists /\ ~ws[r].released
        /\ UNCHANGED <<run, active, reserved, cleanup, lease, ws, disk, lock>>
    BY <1>1, <1>3
       DEF SealSnapshot, database, journal, volumes, PoolTyped, OperatorFits
  <2>2. disk[r] = Files /\ disk[r] \in Nat
    BY <1>1, <2>1 DEF RowFits, PoolTyped
  <2>3. new \in OperatorState /\ new.run = r /\ new.read = Files
    BY <1>1, <2>2 DEF OperatorState
  <2> HIDE DEF new
  <2>4. /\ operator' \in [Operators -> OperatorState] /\ operator'[k] = new
        /\ \A j \in Operators \ {k} : operator'[j] = operator[j]
    BY <1>1, <2>1, <2>3 DEF PoolTyped
  <2>5. OperatorFits(k)'
    BY <2>1, <2>3, <2>4 DEF OperatorFits
  <2> QED BY <2>1, <2>4, <2>5, OperatorInv
<1>4. CASE SealWorkspaceCleanup(k)
  <2> DEFINE row == [cleanup[r] EXCEPT !.phase = "sealed",
                                       !.snapshot = operator[k].read]
  <2>1. Step(k, "seal", "release", {"requested"})
    BY <1>4 DEF SealWorkspaceCleanup
  <2>2. /\ r \in Runs /\ cleanup[r].phase = "requested"
        /\ operator' \in [Operators -> OperatorState]
        /\ \A j \in Operators : operator'[j] = operator[j] \/ OperatorFits(j)'
    BY <2>1, StepFits
  <2>3. operator[k].read = Files /\ operator[k].read \in Nat
    BY <1>1, <2>1 DEF OperatorFits, OperatorState, Step
  <2>4. /\ cleanup' = [cleanup EXCEPT ![r] = row]
        /\ UNCHANGED <<run, active, reserved, lease, ws, disk, lock>>
    BY <1>1, <1>4, <2>2
       DEF SealWorkspaceCleanup, database, journal, volumes, PoolTyped
  <2>5. /\ row \in CleanupRow /\ row.phase = "sealed" /\ row.snapshot = Files
        /\ row.revision = cleanup[r].revision
    BY <1>1, <2>2, <2>3 DEF CleanupRow
  <2>6. run[r].status = "ended" /\ cleanup[r].revision = run[r].revision
    BY <1>1, <2>2 DEF RowFits
  <2> HIDE DEF row, r
  <2> QED BY <2>2, <2>4, <2>5, <2>6, CleanupStepInv
<1>5. CASE CompleteWorkspaceCleanup(k)
  <2> DEFINE row == [cleanup[r] EXCEPT !.phase = "released"]
  <2>1. Step(k, "releasing", "idle", {"sealed"})
    BY <1>5 DEF CompleteWorkspaceCleanup
  <2>2. /\ r \in Runs /\ cleanup[r].phase = "sealed"
        /\ operator' \in [Operators -> OperatorState]
        /\ \A j \in Operators : operator'[j] = operator[j] \/ OperatorFits(j)'
    BY <2>1, StepFits
  <2>3. /\ cleanup' = [cleanup EXCEPT ![r] = row] /\ lease[r].released
        /\ UNCHANGED <<run, active, reserved, lease, ws, disk, lock>>
    BY <1>1, <1>5, <2>2
       DEF CompleteWorkspaceCleanup, database, journal, volumes, PoolTyped
  <2>4. /\ row \in CleanupRow /\ row.phase = "released"
        /\ row.snapshot = cleanup[r].snapshot
        /\ row.revision = cleanup[r].revision
    BY <1>1, <2>2 DEF CleanupRow
  <2>5. /\ run[r].status = "ended" /\ cleanup[r].revision = run[r].revision
        /\ cleanup[r].snapshot = Files
    BY <1>1, <2>2 DEF RowFits, Sealed
  <2> HIDE DEF row, r
  <2> QED BY <2>2, <2>3, <2>4, <2>5, CleanupStepInv
<1>6. ASSUME NEW q \in Runs, ws' \in [Runs -> WorkspaceRow],
             operator' \in [Operators -> OperatorState],
             \A j \in Operators : operator'[j] = operator[j] \/ OperatorFits(j)',
             \A p \in Runs \ {q} : ws'[p] = ws[p] /\ lock'[p] = lock[p],
             lock' \in [Runs -> {"nobody", "prepare", "release", "free"}],
             UNCHANGED <<run, active, reserved, cleanup, lease, disk>>,
             RowFits(q)'
      PROVE  PoolInv'
  <2>1. PoolTyped' /\ LeasesApart' /\ \A j \in Operators : OperatorFits(j)'
    BY <1>6 DEF PoolInv, PoolTyped, LeasesApart, OperatorFits
  <2>2. ASSUME NEW p \in Runs, p # q PROVE RowFits(p)'
    BY <1>1, <1>6, <2>2 DEF RowFits, Sealed
  <2> QED BY <1>6, <2>1, <2>2 DEF PoolInv
<1>7. CASE CleanupStop(k)
  <2>1. PICK next \in {"idle", "snapshot"} :
          Step(k, "stop", next, {"requested", "sealed"})
    BY <1>7 DEF CleanupStop
  <2>2. /\ r \in Runs /\ operator' \in [Operators -> OperatorState]
        /\ \A j \in Operators : operator'[j] = operator[j] \/ OperatorFits(j)'
    BY <2>1, StepFits
  <2>3. /\ ws' = [ws EXCEPT ![r].epoch = cleanup[r].epoch, ![r].stopped = TRUE]
        /\ UNCHANGED <<run, active, reserved, cleanup, lease, disk, lock>>
    BY <1>1, <1>7, <2>2
       DEF CleanupStop, setFence, database, volumes, PoolTyped, WorkspaceRow
  <2>4. cleanup[r].epoch \in Nat /\ ws[r] \in WorkspaceRow /\ RowFits(r)
    BY <1>1, <2>2 DEF CleanupRow
  <2> HIDE DEF r
  <2>5. /\ ws' \in [Runs -> WorkspaceRow] /\ ws'[r].exists = ws[r].exists
        /\ ws'[r].released = ws[r].released
        /\ \A p \in Runs \ {r} : ws'[p] = ws[p]
    BY <1>1, <2>2, <2>3, <2>4 DEF PoolTyped, WorkspaceRow
  <2>6. PICK q \in Runs : q = r
    BY <2>2
  <2>7. RowFits(q)'
    BY <2>3, <2>4, <2>5, <2>6 DEF RowFits, Sealed
  <2> QED BY <1>1, <1>6, <2>2, <2>3, <2>5, <2>6, <2>7 DEF PoolTyped
<1>8. CASE ReleaseWorkspace(k)
  <2>1. Step(k, "release", "releasing", {"sealed"})
    BY <1>8 DEF ReleaseWorkspace
  <2>2. /\ r \in Runs /\ operator' \in [Operators -> OperatorState]
        /\ cleanup[r].phase = "sealed"
        /\ \A j \in Operators : operator'[j] = operator[j] \/ OperatorFits(j)'
    BY <2>1, StepFits
  <2>3. /\ ws' = [ws EXCEPT ![r].released = TRUE]
        /\ lock' = [lock EXCEPT ![r] = "release"]
        /\ UNCHANGED <<run, active, reserved, cleanup, lease, disk>>
    BY <1>1, <1>8 DEF ReleaseWorkspace, database, volumes
  <2>4. ws[r] \in WorkspaceRow /\ RowFits(r)
    BY <1>1, <2>2
  <2> HIDE DEF r
  <2>5. /\ ws' \in [Runs -> WorkspaceRow] /\ ws'[r].exists = ws[r].exists
        /\ ws'[r].released
        /\ lock' \in [Runs -> {"nobody", "prepare", "release", "free"}]
        /\ lock'[r] = "release"
        /\ \A p \in Runs \ {r} : ws'[p] = ws[p] /\ lock'[p] = lock[p]
    BY <1>1, <2>2, <2>3, <2>4 DEF PoolTyped, WorkspaceRow
  <2>6. PICK q \in Runs : q = r
    BY <2>2
  <2>7. RowFits(q)'
    BY <2>2, <2>3, <2>4, <2>5, <2>6 DEF RowFits, Sealed
  <2> QED BY <1>6, <2>2, <2>3, <2>5, <2>6, <2>7
<1> QED BY <1>2, <1>3, <1>4, <1>5, <1>7, <1>8 DEF CleanupStep

-----------------------------------------------------------------------------
(* The theorems *)

\* No run has a volume.
LEMMA PoolStart == PoolInit => PoolInv
<1> SUFFICES ASSUME PoolInit PROVE PoolInv
  OBVIOUS
<1>1. /\ NewRun \in RunRow /\ NoCleanup \in CleanupRow /\ NoLease \in LeaseRow
      /\ NoWorkspace \in WorkspaceRow /\ Idle \in OperatorState
  BY DEF NewRun, RunRow, NoCleanup, CleanupRow, NoLease, LeaseRow, NoWorkspace,
         WorkspaceRow, Idle, OperatorState
<1>2. PoolTyped
  BY <1>1 DEF PoolInit, PoolTyped
<1>3. LeasesApart /\ \A r \in Runs : RowFits(r)
  BY DEF PoolInit, LeasesApart, RowFits, Sealed, NoLease, NoCleanup, NoWorkspace
<1>4. \A k \in Operators : OperatorFits(k)
  BY DEF PoolInit, OperatorFits, Idle
<1> QED BY <1>2, <1>3, <1>4 DEF PoolInv

\* Every step keeps PoolInv.
LEMMA PoolStep == PoolInv /\ [PoolNext]_poolVars => PoolInv'
<1> SUFFICES ASSUME PoolInv, [PoolNext]_poolVars PROVE PoolInv'
  OBVIOUS
<1>1. CASE UNCHANGED poolVars
  BY <1>1, OperatorInv DEF poolVars, PoolInv, PoolTyped
<1>2. ASSUME NEW r \in Runs,
             \/ ControlStep(r) \/ RunnerStep(r) \/ PrepareFails(r)
             \/ CleanupLeaseExpires(r)
             \/ \E epoch \in 1..MaxEpoch : PrepareWorkspace(r, epoch)
      PROVE  PoolInv'
  <2>1. 1..MaxEpoch \subseteq Nat
    BY PoolAssumption
  <2> QED BY <1>2, <2>1, ControlInv, RunnerInv, ExpireInv, PrepareInv
<1>3. ASSUME NEW k \in Operators,
             \/ CleanupStep(k) \/ GiveUp(k)
             \/ \E r \in Runs : AcquireWorkspaceCleanup(k, r)
      PROVE  PoolInv'
  BY <1>3, CleanupInv, AcquireInv
<1>4. CASE Crash
  BY <1>4, CrashInv
<1> QED BY <1>1, <1>2, <1>3, <1>4 DEF PoolNext

\* PoolInv always holds.
LEMMA PoolAlways == PoolSpec => []PoolInv
<1> QED BY PoolStart, PoolStep, PTL DEF PoolSpec

\* However late prepares, crashes and repeated releases interleave, the bytes on
\* a volume belong to the one run that leases it, a lease is returned only after
\* the run's cleanup is sealed, and a cleanup recorded as released has returned
\* it (allocateStorage, releaseStorage, CompleteWorkspaceCleanup): for every
\* number of runs, volumes, operators, files, epochs and faults.
THEOREM VolumesNeverShared == PoolSpec => []VolumeExclusive
<1>1. PoolInv => VolumeExclusive
  BY DEF PoolInv, RowFits, Sealed, LeasesApart, VolumeExclusive
<1> QED BY <1>1, PoolAlways, PTL

\* A workspace whose row exists has all of its files, or was released after all
\* of them were recorded in a snapshot under the revision the run ended with
\* (createWorkspace, SealWorkspaceCleanup, ReleaseWorkspace).
THEOREM WorkspaceContentKept == PoolSpec => []ContentKept
<1>1. PoolInv => ContentKept
  <2> SUFFICES ASSUME PoolInv, NEW r \in Runs, ws[r].exists
               PROVE  \/ disk[r] = Files
                      \/ /\ ws[r].released
                         /\ cleanup[r].phase \in {"sealed", "released"}
                         /\ cleanup[r].snapshot = Files
                         /\ cleanup[r].revision = run[r].revision
    BY DEF ContentKept
  <2>1. RowFits(r)
    BY DEF PoolInv
  <2> QED BY <2>1 DEF RowFits, Sealed
<1> QED BY <1>1, PoolAlways, PTL

\* The runs that hold an allocation; a finite set in every reachable state,
\* however many runs there are.
Held == {r \in Runs : run[r].alloc}

CountInv ==
  /\ IsFiniteSet(Held)
  /\ active = Cardinality(Held) /\ reserved = Cardinality(Held)
  /\ Cardinality(Held) <= MaxActive /\ Cardinality(Held) <= MaxSlots

\* A transaction that gives the allocation of r back, if it has one.
LEMMA GiveBackCounts ==
  ASSUME PoolInv, CountInv, NEW r \in Runs, NEW row, GiveBack(r, row),
         row \in RunRow
  PROVE  CountInv'
<1>1. /\ run \in [Runs -> RunRow] /\ MaxActive \in Nat /\ MaxSlots \in Nat
      /\ run' = [run EXCEPT ![r] = [row EXCEPT !.alloc = FALSE]]
  BY PoolAssumption DEF PoolInv, PoolTyped, GiveBack
<1>2. Held' = Held \ {r}
  <2>1. run'[r].alloc = FALSE /\ \A q \in Runs \ {r} : run'[q] = run[q]
    BY <1>1 DEF RunRow
  <2> QED BY <2>1 DEF Held
<1>3. Cardinality(Held) \in Nat
  BY FS_CardinalityType DEF CountInv
<1>4. CASE run[r].alloc
  <2>1. r \in Held
    BY <1>4 DEF Held
  <2>2. /\ IsFiniteSet(Held \ {r})
        /\ Cardinality(Held \ {r}) = Cardinality(Held) - 1
    BY <2>1, FS_RemoveElement DEF CountInv
  <2>3. active' = active - 1 /\ reserved' = reserved - 1
    BY <1>4 DEF GiveBack, releaseAllocation
  <2> QED BY <1>1, <1>2, <1>3, <2>2, <2>3 DEF CountInv
<1>5. CASE ~run[r].alloc
  <2>1. Held' = Held
    BY <1>2, <1>5 DEF Held
  <2>2. active' = active /\ reserved' = reserved
    BY <1>5 DEF GiveBack, releaseAllocation
  <2> QED BY <2>1, <2>2 DEF CountInv
<1> QED BY <1>4, <1>5

\* A claim counts one more run, within both limits.
LEMMA ClaimCounts ==
  ASSUME PoolInv, CountInv, NEW r \in Runs, Claim(r)
  PROVE  CountInv'
<1>1. /\ run \in [Runs -> RunRow] /\ MaxActive \in Nat /\ MaxSlots \in Nat
      /\ run' = [run EXCEPT ![r].status = "running", ![r].alloc = TRUE,
                            ![r].epoch = @ + 1]
  BY PoolAssumption DEF PoolInv, PoolTyped, Claim
<1>2. Held' = Held \cup {r}
  <2>1. run'[r].alloc = TRUE /\ \A q \in Runs \ {r} : run'[q] = run[q]
    BY <1>1 DEF RunRow
  <2> QED BY <2>1 DEF Held
<1>3. Cardinality(Held) \in Nat
  BY FS_CardinalityType DEF CountInv
<1>4. CASE run[r].alloc
  <2>1. Held' = Held
    BY <1>2, <1>4 DEF Held
  <2>2. active' = active /\ reserved' = reserved
    BY <1>4 DEF Claim, CountIn
  <2> QED BY <2>1, <2>2 DEF CountInv
<1>5. CASE ~run[r].alloc
  <2>1. r \notin Held
    BY <1>5 DEF Held
  <2>2. /\ IsFiniteSet(Held \cup {r})
        /\ Cardinality(Held \cup {r}) = Cardinality(Held) + 1
    BY <2>1, FS_AddElement DEF CountInv
  <2>3. /\ active' = active + 1 /\ reserved' = reserved + 1
        /\ active < MaxActive /\ reserved < MaxSlots
    BY <1>5 DEF Claim, CountIn
  <2> QED BY <1>1, <1>2, <1>3, <2>2, <2>3 DEF CountInv
<1> QED BY <1>4, <1>5

\* A step that leaves the allocations and the counters alone.
LEMMA SameCounts ==
  ASSUME CountInv, UNCHANGED <<active, reserved>>, Held' = Held
  PROVE  CountInv'
BY DEF CountInv

\* Every step keeps the counters exact.
LEMMA CountStep == PoolInv /\ CountInv /\ [PoolNext]_poolVars => CountInv'
<1> SUFFICES ASSUME PoolInv, CountInv, [PoolNext]_poolVars PROVE CountInv'
  OBVIOUS
<1>1. ASSUME UNCHANGED <<run, active, reserved>> PROVE CountInv'
  BY <1>1, SameCounts DEF Held
<1>2. CASE UNCHANGED poolVars
  BY <1>1, <1>2 DEF poolVars
<1>3. ASSUME NEW r \in Runs, ControlStep(r) PROVE CountInv'
  <2>1. run \in [Runs -> RunRow] /\ run[r] \in RunRow
    BY DEF PoolInv, PoolTyped
  <2>2. CASE Claim(r)
    BY <2>2, ClaimCounts
  <2>3. CASE Defer(r)
    BY <2>1, <2>3, GiveBackCounts DEF Defer
  <2>4. CASE RequeueCapacity(r)
    <3>1. [run[r] EXCEPT !.status = "queued"] \in RunRow
      BY <2>1 DEF RunRow
    <3> QED BY <2>4, <3>1, GiveBackCounts DEF RequeueCapacity
  <2>5. CASE WorkspaceReady(r)
    <3>1. /\ run' = [run EXCEPT ![r].revision = 1]
          /\ UNCHANGED <<active, reserved>>
      BY <2>5 DEF WorkspaceReady
    <3>2. \A q \in Runs : run'[q].alloc = run[q].alloc
      BY <2>1, <3>1 DEF RunRow
    <3> QED BY <3>1, <3>2, SameCounts DEF Held
  <2>6. ASSUME NEW v \in {0, 1}, NEW u \in BOOLEAN, Ends(r, v, u)
        PROVE  CountInv'
    <3>1. [run[r] EXCEPT !.status = "ended", !.revision = v, !.unsettled = u]
            \in RunRow
      BY <2>1 DEF RunRow
    <3> QED BY <2>6, <3>1, GiveBackCounts DEF Ends
  <2>7. CASE Finished(r) \/ Stopped(r) \/ StoppedAbsent(r)
    BY <2>6, <2>7 DEF Finished, Stopped, StoppedAbsent
  <2>8. CASE AdoptWorkspace(r) \/ StopWorkspace(r)
    BY <1>1, <2>8 DEF AdoptWorkspace, StopWorkspace, OnlyRunner, database
  <2> QED BY <1>3, <2>2, <2>3, <2>4, <2>5, <2>7, <2>8 DEF ControlStep
<1>4. ASSUME NEW r \in Runs,
             \/ RunnerStep(r) \/ PrepareFails(r) \/ CleanupLeaseExpires(r)
             \/ \E epoch \in 1..MaxEpoch : PrepareWorkspace(r, epoch)
      PROVE  CountInv'
  BY <1>1, <1>4
     DEF RunnerStep, PrepareFails, CleanupLeaseExpires, PrepareWorkspace,
         resumeImport, createWorkspace, RemoveAll, FreeSlot, OnlyRunner, database
<1>5. ASSUME NEW k \in Operators,
             \/ CleanupStep(k) \/ GiveUp(k)
             \/ \E r \in Runs : AcquireWorkspaceCleanup(k, r)
      PROVE  CountInv'
  BY <1>1, <1>5
     DEF CleanupStep, CleanupStop, SealSnapshot, SealWorkspaceCleanup,
         ReleaseWorkspace, CompleteWorkspaceCleanup, Refused, GiveUp,
         AcquireWorkspaceCleanup, database
<1>6. CASE Crash
  BY <1>1, <1>6 DEF Crash, database
<1> QED BY <1>2, <1>3, <1>4, <1>5, <1>6 DEF PoolNext

\* The counters of the tenant and of the runner are the number of runs that hold
\* an allocation, and that number keeps to both limits, through claims of runs
\* that kept or lost theirs, capacity rejections, deferrals and ends (claim,
\* releaseAllocation): for every set of runs and every pair of limits.
THEOREM CountersExact == PoolSpec => []CountersMatchAllocations
<1>1. PoolInit => CountInv
  <2> SUFFICES ASSUME PoolInit PROVE CountInv
    OBVIOUS
  <2>1. Held = {}
    BY DEF PoolInit, Held, NewRun
  <2> QED BY <2>1, FS_EmptySet, PoolAssumption DEF PoolInit, CountInv
<1>2. CountInv => CountersMatchAllocations
  BY DEF CountInv, CountersMatchAllocations, Held
<1> QED BY <1>1, <1>2, CountStep, PoolAlways, PTL DEF PoolSpec

-----------------------------------------------------------------------------
(* Cleanup moves forward *)

\* How far the reclaiming of a run's volume has come: asked for, sealed, its
\* workspace marked, its lease returned, recorded.
Reclaimed(r) ==
  CASE cleanup[r].phase = "none" -> 0
    [] cleanup[r].phase = "requested" -> 1
    [] cleanup[r].phase = "sealed" ->
         IF lease[r].released THEN 4 ELSE IF ws[r].released THEN 3 ELSE 2
    [] cleanup[r].phase = "released" -> 5

\* Only a workspace there is gets sealed, and only a sealed one is marked; an
\* operator that has read a snapshot read it from a workspace.
SealInv ==
  /\ \A r \in Runs : /\ ws[r].released => Sealed(r)
                     /\ Sealed(r) => ws[r].exists
  /\ \A k \in Operators : operator[k].pc = "seal" => ws[operator[k].run].exists

\* What one step may do to the rows of a run: one of them moves, and only when
\* the ones before it have moved.
Moves(r) ==
  /\ ws[r].exists => ws'[r].exists
  /\ \/ /\ cleanup'[r].phase = cleanup[r].phase
        /\ cleanup'[r].snapshot = cleanup[r].snapshot
     \/ cleanup[r].phase = "none" /\ cleanup'[r].phase = "requested"
     \/ /\ cleanup[r].phase = "requested" /\ cleanup'[r].phase = "sealed"
        /\ ws[r].exists
     \/ /\ cleanup[r].phase = "sealed" /\ cleanup'[r].phase = "released"
        /\ cleanup'[r].snapshot = cleanup[r].snapshot
  /\ \/ lease'[r].released = lease[r].released
     \/ cleanup'[r].phase = cleanup[r].phase /\ ws[r].released /\ lease'[r].released
  /\ \/ ws'[r].released = ws[r].released
     \/ /\ cleanup'[r].phase = cleanup[r].phase /\ cleanup[r].phase = "sealed"
        /\ lease'[r].released = lease[r].released /\ ws'[r].released
  /\ ws[r].exists =>
       disk'[r] = disk[r] \/ (ws[r].released /\ disk'[r] = 0)

\* What one step may do to an operator: only SealSnapshot brings it to "seal".
Reads(k) ==
  operator'[k].pc = "seal" =>
    operator'[k] = operator[k] \/ ws[operator'[k].run].exists

\* The transactions of the scheduler and of a worker, and its fences.
LEMMA ControlMoves ==
  ASSUME PoolInv, SealInv, NEW r \in Runs, ControlStep(r)
  PROVE  UNCHANGED operator /\ \A q \in Runs : Moves(q)
<1>1. ws \in [Runs -> WorkspaceRow]
  BY DEF PoolInv, PoolTyped
<1>2. CASE AdoptWorkspace(r) \/ StopWorkspace(r)
  <2>1. /\ UNCHANGED <<cleanup, operator, lease, disk>>
        /\ \E e, s : ws' = [ws EXCEPT ![r].epoch = e, ![r].stopped = s]
    BY <1>2 DEF AdoptWorkspace, StopWorkspace, setFence, OnlyRunner, volumes
  <2>2. \A q \in Runs : /\ ws'[q].exists = ws[q].exists
                        /\ ws'[q].released = ws[q].released
    BY <1>1, <2>1 DEF WorkspaceRow
  <2> QED BY <2>1, <2>2 DEF Moves
<1>3. CASE ~(AdoptWorkspace(r) \/ StopWorkspace(r))
  <2>1. UNCHANGED <<cleanup, operator, lease, ws, disk>>
    BY <1>3 DEF ControlStep, Claim, Defer, RequeueCapacity, WorkspaceReady,
                Finished, Stopped, StoppedAbsent, Ends, GiveBack, OnlyDatabase,
                journal, volumes
  <2> QED BY <2>1 DEF Moves
<1> QED BY <1>2, <1>3

\* The runner's steps: an import finds no workspace yet, a removal finds one that
\* is marked.
LEMMA RunnerMoves ==
  ASSUME PoolInv, SealInv, NEW r \in Runs,
         \/ RunnerStep(r) \/ PrepareFails(r)
         \/ \E epoch \in 1..MaxEpoch : PrepareWorkspace(r, epoch)
  PROVE  UNCHANGED operator /\ \A q \in Runs : Moves(q)
<1>1. /\ ws \in [Runs -> WorkspaceRow] /\ lease \in [Runs -> LeaseRow]
      /\ disk \in [Runs -> Nat] /\ RowFits(r)
      /\ ws[r].released => ws[r].exists
  BY DEF PoolInv, PoolTyped, SealInv
<1>2. UNCHANGED <<cleanup, operator>>
  BY DEF RunnerStep, resumeImport, createWorkspace, RemoveAll, FreeSlot,
         PrepareFails, PrepareWorkspace, OnlyRunner
<1>3. CASE resumeImport(r)
  <2>1. /\ UNCHANGED <<lease, ws>> /\ ~ws[r].exists
        /\ disk' = [disk EXCEPT ![r] = @ + 1]
    BY <1>1, <1>3 DEF resumeImport, RowFits, journal
  <2> QED BY <1>1, <1>2, <2>1 DEF Moves
<1>4. CASE createWorkspace(r)
  <2>1. /\ UNCHANGED <<lease, disk>> /\ ~ws[r].exists /\ ~ws[r].released
        /\ ws' = [ws EXCEPT ![r] = [NoWorkspace EXCEPT !.exists = TRUE,
                                                       !.epoch = lease[r].epoch]]
    BY <1>1, <1>4 DEF createWorkspace, RowFits, volumes
  <2>2. ws'[r].released = FALSE /\ \A q \in Runs \ {r} : ws'[q] = ws[q]
    BY <1>1, <2>1 DEF NoWorkspace
  <2>3. ws[r].released = FALSE
    BY <1>1, <2>1 DEF WorkspaceRow
  <2> QED BY <1>2, <2>1, <2>2, <2>3 DEF Moves
<1>5. CASE RemoveAll(r)
  <2>1. /\ UNCHANGED <<lease, ws>> /\ ws[r].released
        /\ disk' = [disk EXCEPT ![r] = 0]
    BY <1>1, <1>5 DEF RemoveAll, RowFits, journal
  <2> QED BY <1>1, <1>2, <2>1 DEF Moves
<1>6. CASE FreeSlot(r)
  <2>1. /\ UNCHANGED <<ws, disk>> /\ ws[r].released
        /\ lease' = [lease EXCEPT ![r].released = TRUE]
    BY <1>1, <1>6 DEF FreeSlot, RowFits, volumes
  <2>2. lease'[r].released /\ \A q \in Runs \ {r} : lease'[q] = lease[q]
    BY <1>1, <2>1 DEF LeaseRow
  <2> QED BY <1>2, <2>1, <2>2 DEF Moves
<1>7. CASE PrepareFails(r)
  <2>1. UNCHANGED <<lease, ws, disk>>
    BY <1>7 DEF PrepareFails, journal, volumes
  <2> QED BY <1>2, <2>1 DEF Moves
<1>8. CASE \E epoch \in 1..MaxEpoch : PrepareWorkspace(r, epoch)
  <2>1. /\ UNCHANGED <<ws, disk>>
        /\ \E s, e : lease' = [lease EXCEPT ![r].slot = s, ![r].epoch = e]
    BY <1>8 DEF PrepareWorkspace, volumes
  <2>2. \A q \in Runs : lease'[q].released = lease[q].released
    BY <1>1, <2>1 DEF LeaseRow
  <2> QED BY <1>2, <2>1, <2>2 DEF Moves
<1> QED BY <1>3, <1>4, <1>5, <1>6, <1>7, <1>8 DEF RunnerStep

\* The cleanup lease is taken, or ends.
LEMMA LeaseMoves ==
  ASSUME PoolInv, SealInv, NEW r \in Runs,
         CleanupLeaseExpires(r)
           \/ \E k \in Operators : AcquireWorkspaceCleanup(k, r)
  PROVE  (\A k \in Operators : Reads(k)) /\ \A q \in Runs : Moves(q)
<1>1. /\ cleanup \in [Runs -> CleanupRow] /\ cleanup[r] \in CleanupRow
      /\ operator \in [Operators -> OperatorState]
  BY DEF PoolInv, PoolTyped
<1>2. UNCHANGED <<lease, ws, disk>>
  BY DEF CleanupLeaseExpires, AcquireWorkspaceCleanup, journal, volumes
<1>3. ASSUME NEW row, cleanup' = [cleanup EXCEPT ![r] = row],
             \/ row.phase = cleanup[r].phase /\ row.snapshot = cleanup[r].snapshot
             \/ cleanup[r].phase = "none" /\ row.phase = "requested"
      PROVE  \A q \in Runs : Moves(q)
  <2>1. cleanup'[r] = row /\ \A q \in Runs \ {r} : cleanup'[q] = cleanup[q]
    BY <1>1, <1>3
  <2> QED BY <1>2, <1>3, <2>1 DEF Moves
<1> DEFINE Owned(o) == [cleanup[r] EXCEPT !.owner = o]
<1>4. \A o : /\ Owned(o).phase = cleanup[r].phase
             /\ Owned(o).snapshot = cleanup[r].snapshot
  BY <1>1 DEF CleanupRow
<1>5. CASE CleanupLeaseExpires(r)
  <2>1. cleanup' = [cleanup EXCEPT ![r] = Owned(None)] /\ UNCHANGED operator
    BY <1>1, <1>5 DEF CleanupLeaseExpires
  <2>2. \A k \in Operators : Reads(k)
    BY <2>1 DEF Reads
  <2> HIDE DEF Owned
  <2> QED BY <1>3, <1>4, <2>1, <2>2
<1>6. ASSUME NEW k \in Operators, AcquireWorkspaceCleanup(k, r)
      PROVE  (\A j \in Operators : Reads(j)) /\ \A q \in Runs : Moves(q)
  <2> DEFINE fresh == [NoCleanup EXCEPT !.phase = "requested", !.owner = k,
                                        !.epoch = run[r].epoch + 1,
                                        !.revision = run[r].revision]
             new == [Idle EXCEPT !.run = r,
                       !.pc = IF cleanup[r].phase = "sealed" THEN "release"
                              ELSE "stop"]
  <2>1. /\ cleanup' = [cleanup EXCEPT ![r] =
              IF cleanup[r].phase # "none" THEN Owned(k) ELSE fresh]
        /\ operator' = [operator EXCEPT ![k] = new]
    BY <1>1, <1>6 DEF AcquireWorkspaceCleanup
  <2>2. fresh.phase = "requested"
    BY DEF NoCleanup
  <2>3. new.pc # "seal"
    BY DEF Idle
  <2> HIDE DEF Owned, fresh, new
  <2>4. \A j \in Operators : Reads(j)
    BY <1>1, <2>1, <2>3 DEF Reads
  <2>5. \A q \in Runs : Moves(q)
    BY <1>3, <1>4, <2>1, <2>2
  <2> QED BY <2>4, <2>5
<1> QED BY <1>5, <1>6

\* An operator's step does not bring it to "seal" but for SealSnapshot.
LEMMA StepReads ==
  ASSUME PoolInv, NEW k \in Operators, NEW new, new.pc # "seal",
         operator' = [operator EXCEPT ![k] = new]
  PROVE  \A j \in Operators : Reads(j)
<1> QED BY DEF PoolInv, PoolTyped, Reads

\* The steps of the cleanup command, and giving it up.
LEMMA CleanupMoves ==
  ASSUME PoolInv, SealInv, NEW k \in Operators, CleanupStep(k) \/ GiveUp(k)
  PROVE  (\A j \in Operators : Reads(j)) /\ \A q \in Runs : Moves(q)
<1>1. /\ cleanup \in [Runs -> CleanupRow] /\ ws \in [Runs -> WorkspaceRow]
      /\ operator \in [Operators -> OperatorState] /\ OperatorFits(k)
      /\ operator[k].pc = "seal" => ws[operator[k].run].exists
  BY DEF PoolInv, PoolTyped, SealInv
<1>2. UNCHANGED <<lease, disk>>
  BY DEF CleanupStep, CleanupStop, SealSnapshot, SealWorkspaceCleanup,
         ReleaseWorkspace, CompleteWorkspaceCleanup, Refused, GiveUp, journal,
         volumes
<1>3. Idle.pc # "seal"
  BY DEF Idle
<1>4. ASSUME NEW pc, NEW next, NEW phases, pc # "idle", next # "seal",
             Step(k, pc, next, phases)
      PROVE  /\ operator[k].run \in Runs /\ operator[k].pc = pc
             /\ cleanup[operator[k].run].phase \in phases
             /\ \A j \in Operators : Reads(j)
  <2> DEFINE new == IF next = "idle" THEN Idle
                    ELSE [operator[k] EXCEPT !.pc = next]
  <2>1. new.pc # "seal"
    BY <1>1, <1>3, <1>4 DEF OperatorState
  <2>2. operator' = [operator EXCEPT ![k] = new]
    BY <1>1, <1>4 DEF Step
  <2> HIDE DEF new
  <2>3. \A j \in Operators : Reads(j)
    BY <2>1, <2>2, StepReads
  <2> QED BY <1>1, <1>4, <2>3 DEF Step, CleanupProof, OperatorFits
<1>5. CASE GiveUp(k) \/ Refused(k)
  <2>1. operator' = [operator EXCEPT ![k] = Idle] /\ UNCHANGED <<cleanup, ws>>
    BY <1>5 DEF GiveUp, Refused, journal
  <2>2. \A j \in Operators : Reads(j)
    BY <1>3, <2>1, StepReads
  <2> QED BY <1>2, <2>1, <2>2 DEF Moves
<1>6. CASE SealSnapshot(k)
  <2> DEFINE new == [operator[k] EXCEPT !.pc = "seal",
                                        !.read = disk[operator[k].run]]
  <2>1. /\ operator' = [operator EXCEPT ![k] = new] /\ UNCHANGED <<cleanup, ws>>
        /\ ws[operator[k].run].exists
    BY <1>1, <1>6 DEF SealSnapshot, journal
  <2>2. new.run = operator[k].run
    BY <1>1 DEF OperatorState
  <2> HIDE DEF new
  <2>3. /\ operator'[k] = new
        /\ \A j \in Operators \ {k} : operator'[j] = operator[j]
    BY <1>1, <2>1
  <2>4. \A j \in Operators : Reads(j)
    BY <2>1, <2>2, <2>3 DEF Reads
  <2> QED BY <1>2, <2>1, <2>4 DEF Moves
<1>7. CASE SealWorkspaceCleanup(k)
  <2>1. Step(k, "seal", "release", {"requested"})
    BY <1>7 DEF SealWorkspaceCleanup
  <2>2. PICK r \in Runs : r = operator[k].run
    BY <1>4, <2>1
  <2>3. /\ cleanup[r].phase = "requested" /\ ws[r].exists
        /\ \A j \in Operators : Reads(j)
    BY <1>1, <1>4, <2>1, <2>2
  <2>4. /\ cleanup' = [cleanup EXCEPT ![r].phase = "sealed",
                                      ![r].snapshot = operator[k].read]
        /\ UNCHANGED ws
    BY <1>7, <2>2 DEF SealWorkspaceCleanup, journal
  <2>5. /\ cleanup'[r].phase = "sealed"
        /\ \A q \in Runs \ {r} : cleanup'[q] = cleanup[q]
    BY <1>1, <2>4 DEF CleanupRow
  <2> QED BY <1>2, <2>3, <2>4, <2>5 DEF Moves
<1>8. CASE CompleteWorkspaceCleanup(k)
  <2>1. Step(k, "releasing", "idle", {"sealed"})
    BY <1>8 DEF CompleteWorkspaceCleanup
  <2>2. PICK r \in Runs : r = operator[k].run
    BY <1>4, <2>1
  <2>3. cleanup[r].phase = "sealed" /\ \A j \in Operators : Reads(j)
    BY <1>4, <2>1, <2>2
  <2>4. /\ cleanup' = [cleanup EXCEPT ![r].phase = "released"] /\ UNCHANGED ws
    BY <1>8, <2>2 DEF CompleteWorkspaceCleanup, journal
  <2>5. /\ cleanup'[r].phase = "released"
        /\ cleanup'[r].snapshot = cleanup[r].snapshot
        /\ \A q \in Runs \ {r} : cleanup'[q] = cleanup[q]
    BY <1>1, <2>4 DEF CleanupRow
  <2> QED BY <1>2, <2>3, <2>4, <2>5 DEF Moves
<1>9. CASE CleanupStop(k)
  <2>1. PICK next \in {"idle", "snapshot"} :
          Step(k, "stop", next, {"requested", "sealed"})
    BY <1>9 DEF CleanupStop
  <2>2. PICK r \in Runs : r = operator[k].run
    BY <1>4, <2>1
  <2>3. \A j \in Operators : Reads(j)
    BY <1>4, <2>1
  <2>4. /\ UNCHANGED cleanup
        /\ \E e, s : ws' = [ws EXCEPT ![r].epoch = e, ![r].stopped = s]
    BY <1>9, <2>2 DEF CleanupStop, setFence
  <2>5. \A q \in Runs : /\ ws'[q].exists = ws[q].exists
                        /\ ws'[q].released = ws[q].released
    BY <1>1, <2>4 DEF WorkspaceRow
  <2> QED BY <1>2, <2>3, <2>4, <2>5 DEF Moves
<1>10. CASE ReleaseWorkspace(k)
  <2>1. Step(k, "release", "releasing", {"sealed"})
    BY <1>10 DEF ReleaseWorkspace
  <2>2. PICK r \in Runs : r = operator[k].run
    BY <1>4, <2>1
  <2>3. cleanup[r].phase = "sealed" /\ \A j \in Operators : Reads(j)
    BY <1>4, <2>1, <2>2
  <2>4. UNCHANGED cleanup /\ ws' = [ws EXCEPT ![r].released = TRUE]
    BY <1>10, <2>2 DEF ReleaseWorkspace
  <2>5. /\ ws'[r].released /\ ws'[r].exists = ws[r].exists
        /\ \A q \in Runs \ {r} : ws'[q] = ws[q]
    BY <1>1, <2>4 DEF WorkspaceRow
  <2> QED BY <1>2, <2>3, <2>4, <2>5 DEF Moves
<1> QED BY <1>5, <1>6, <1>7, <1>8, <1>9, <1>10 DEF CleanupStep

\* Every step moves the rows of every run as Moves says.
LEMMA AllMove ==
  ASSUME PoolInv, SealInv, [PoolNext]_poolVars
  PROVE  (\A k \in Operators : Reads(k)) /\ \A q \in Runs : Moves(q)
<1>1. UNCHANGED operator => \A k \in Operators : Reads(k)
  BY DEF Reads
<1>2. CASE UNCHANGED poolVars \/ Crash
  <2>1. UNCHANGED <<cleanup, operator, lease, ws, disk>>
    BY <1>2 DEF poolVars, Crash, journal
  <2> QED BY <1>1, <2>1 DEF Moves
<1>3. ASSUME NEW r \in Runs,
             \/ ControlStep(r) \/ RunnerStep(r) \/ PrepareFails(r)
             \/ CleanupLeaseExpires(r)
             \/ \E epoch \in 1..MaxEpoch : PrepareWorkspace(r, epoch)
      PROVE  (\A k \in Operators : Reads(k)) /\ \A q \in Runs : Moves(q)
  BY <1>1, <1>3, ControlMoves, RunnerMoves, LeaseMoves
<1>4. ASSUME NEW k \in Operators,
             \/ CleanupStep(k) \/ GiveUp(k)
             \/ \E r \in Runs : AcquireWorkspaceCleanup(k, r)
      PROVE  (\A j \in Operators : Reads(j)) /\ \A q \in Runs : Moves(q)
  BY <1>4, CleanupMoves, LeaseMoves
<1> QED BY <1>2, <1>3, <1>4 DEF PoolNext

\* SealInv is kept by steps that move as Moves and Reads say.
LEMMA SealStep ==
  PoolInv /\ SealInv /\ [PoolNext]_poolVars => SealInv'
<1> SUFFICES ASSUME PoolInv, SealInv, [PoolNext]_poolVars PROVE SealInv'
  OBVIOUS
<1>1. (\A k \in Operators : Reads(k)) /\ \A q \in Runs : Moves(q)
  BY AllMove
<1>2. PoolInv'
  BY PoolStep
<1>3. ASSUME NEW r \in Runs
      PROVE  (ws'[r].released => Sealed(r)') /\ (Sealed(r)' => ws'[r].exists)
  <2>1. Moves(r) /\ (ws[r].released => Sealed(r)) /\ (Sealed(r) => ws[r].exists)
    BY <1>1 DEF SealInv
  <2> QED BY <2>1 DEF Moves, Sealed
<1>4. ASSUME NEW k \in Operators, operator'[k].pc = "seal"
      PROVE  ws'[operator'[k].run].exists
  <2>1. operator'[k].run \in Runs
    BY <1>2, <1>4 DEF PoolInv, OperatorFits
  <2>2. ws[operator'[k].run].exists
    BY <1>1, <1>4 DEF Reads, SealInv
  <2> QED BY <1>1, <2>1, <2>2 DEF Moves
<1> QED BY <1>3, <1>4 DEF SealInv

\* SealInv always holds.
LEMMA SealAlways == PoolSpec => []SealInv
<1>1. PoolInit => SealInv
  BY DEF PoolInit, SealInv, Sealed, NoWorkspace, NoCleanup, Idle
<1> QED BY <1>1, SealStep, PoolAlways, PTL DEF PoolSpec

\* One step of one run's reclaiming.
LEMMA ReclaimStep ==
  ASSUME PoolInv, SealInv, [PoolNext]_poolVars, NEW r \in Runs
  PROVE  /\ Reclaimed(r)' \in {Reclaimed(r), Reclaimed(r) + 1}
         /\ Reclaimed(r) >= 2 =>
              /\ cleanup'[r].snapshot = cleanup[r].snapshot
              /\ disk'[r] = disk[r] \/ (ws[r].released /\ disk'[r] = 0)
<1>1. Moves(r) /\ (ws[r].released => Sealed(r)) /\ (Sealed(r) => ws[r].exists)
  BY AllMove DEF SealInv
<1>2. RowFits(r) /\ RowFits(r)'
  BY PoolStep DEF PoolInv
<1>3. /\ cleanup[r].phase \in {"none", "requested", "sealed", "released"}
      /\ cleanup'[r].phase \in {"none", "requested", "sealed", "released"}
  BY PoolStep DEF PoolInv, PoolTyped, CleanupRow
<1>4. CASE cleanup'[r].phase = cleanup[r].phase
  <2>1. cleanup[r].phase # "sealed" => Reclaimed(r)' = Reclaimed(r)
    BY <1>3, <1>4 DEF Reclaimed
  <2>2. cleanup[r].phase = "sealed" =>
          Reclaimed(r)' \in {Reclaimed(r), Reclaimed(r) + 1}
    BY <1>1, <1>3, <1>4 DEF Reclaimed, Moves
  <2>3. cleanup'[r].snapshot = cleanup[r].snapshot
    BY <1>1, <1>4 DEF Moves
  <2>4. Reclaimed(r) >= 2 => ws[r].exists
    BY <1>1, <1>3 DEF Reclaimed, Sealed
  <2>5. ws[r].exists => disk'[r] = disk[r] \/ (ws[r].released /\ disk'[r] = 0)
    BY <1>1 DEF Moves
  <2> QED BY <2>1, <2>2, <2>3, <2>4, <2>5
<1>5. CASE cleanup[r].phase = "none" /\ cleanup'[r].phase = "requested"
  BY <1>5 DEF Reclaimed
<1>6. CASE cleanup[r].phase = "requested" /\ cleanup'[r].phase = "sealed"
  <2>1. ~lease'[r].released /\ ~ws'[r].released
    BY <1>1, <1>2, <1>6 DEF Moves, RowFits, Sealed
  <2> QED BY <1>6, <2>1 DEF Reclaimed
<1>7. CASE cleanup[r].phase = "sealed" /\ cleanup'[r].phase = "released"
  <2>1. lease[r].released
    BY <1>1, <1>2, <1>7 DEF Moves, RowFits
  <2>2. Reclaimed(r) = 4 /\ Reclaimed(r)' = 5
    BY <1>7, <2>1 DEF Reclaimed
  <2>3. cleanup'[r].snapshot = cleanup[r].snapshot
    BY <1>1, <1>7 DEF Moves
  <2>4. disk'[r] = disk[r] \/ (ws[r].released /\ disk'[r] = 0)
    BY <1>1, <1>7 DEF Moves, Sealed
  <2> QED BY <2>2, <2>3, <2>4
<1> QED BY <1>1, <1>4, <1>5, <1>6, <1>7 DEF Moves

\* Reclaiming a volume only moves forward and skips nothing: asked for, sealed,
\* marked, freed, recorded, whatever crashes, expired cleanup leases, rival
\* operators and repeated requests come between (AcquireWorkspaceCleanup,
\* SealWorkspaceCleanup, ReleaseWorkspace, releaseStorage,
\* CompleteWorkspaceCleanup).  From the seal on, the recorded snapshot is final,
\* and no file changes but by the removal of all of them from a workspace that is
\* marked released.
THEOREM CleanupMovesForward ==
  PoolSpec =>
    [][\A r \in Runs :
         /\ Reclaimed(r)' \in {Reclaimed(r), Reclaimed(r) + 1}
         /\ Reclaimed(r) >= 2 =>
              /\ cleanup'[r].snapshot = cleanup[r].snapshot
              /\ disk'[r] = disk[r] \/ (ws[r].released /\ disk'[r] = 0)]_poolVars
<1>1. PoolInv /\ SealInv /\ [PoolNext]_poolVars =>
        \A r \in Runs :
          /\ Reclaimed(r)' \in {Reclaimed(r), Reclaimed(r) + 1}
          /\ Reclaimed(r) >= 2 =>
               /\ cleanup'[r].snapshot = cleanup[r].snapshot
               /\ disk'[r] = disk[r] \/ (ws[r].released /\ disk'[r] = 0)
  BY ReclaimStep
<1> QED BY <1>1, PoolAlways, SealAlways, PTL DEF PoolSpec
=============================================================================

----------------------- MODULE ProgressWindowProofs ------------------------
(***************************************************************************)
(* Proofs about ProgressWindow for every set of workers and of messages,   *)
(* every plan and every limit: what a context tells the model, that a run  *)
(* is stopped for lack of progress only when it made none, and what such a *)
(* run has heard.                                                          *)
(*                                                                         *)
(* A context is built in one transaction and committed in another, so what *)
(* it goes on from may have moved on in between.  ContextInv says what a   *)
(* worker's context still fits: as long as the version it was loaded at is *)
(* that of the row, the run goes on and no step and no context has been    *)
(* added since.                                                            *)
(*                                                                         *)
(* HistoryInv ties the windows to all that the checked steps have shown: a *)
(* window holds nothing that was not seen, nothing twice, and everything   *)
(* as long as it has room.  It also says which steps have been checked and *)
(* that their rows are settled, so that what they show no longer changes.  *)
(***************************************************************************)
EXTENDS ProgressWindow, SequenceTheorems, FiniteSetTheorems, WellFoundedInduction, TLAPS

-----------------------------------------------------------------------------
(* The inductive invariant *)

RunKeys == {"status", "stage", "resume", "reason", "step", "version", "report",
            "owner", "epoch", "live", "tree", "progress", "limit"}

WorkerKeys == {"pc", "epoch", "version", "step", "report", "context", "frame"}

Context == [native : BOOLEAN, from : Nat, upto : Nat]

\* A sequence, whatever its elements are.
IsSeq(s) == Len(s) \in Nat /\ s = [i \in 1..Len(s) |-> s[i]]

RowsTyped ==
  /\ DOMAIN run = RunKeys /\ run.version \in Nat /\ run.limit \in Nat \ {0}
  /\ IsSeq(messages) /\ IsSeq(steps)
  /\ DOMAIN worker = Workers /\ \A w \in Workers : DOMAIN worker[w] = WorkerKeys

\* What the conversation has been told by the context of step s.
Upto(s) == IF s = 0 THEN 0 ELSE contexts[s].c.upto

\* A context begins where the conversation it goes on from ends.
Continues(c, s) == c.from = (IF c.native THEN Upto(s) + 1 ELSE 1)

\* The committed contexts: each has every message of its time.
ContextsFit ==
  /\ contexts \in Seq([c : Context, heard : Nat])
  /\ \A s \in 1..Len(contexts) :
       /\ contexts[s].heard = contexts[s].c.upto
       /\ Upto(s - 1) <= Upto(s) /\ Upto(s) <= Len(messages)
       /\ Continues(contexts[s].c, s - 1)

\* The stage of the run, or the one it will resume.
Stage == IF run.stage = "adopt_workspace" THEN run.resume ELSE run.stage

\* Each context has an answer, but for the last while the model is asked.
StepsFit ==
  /\ Stage = "model" => Len(contexts) = Len(steps) + 1
  /\ Stage \in {"build_context", "execute_effects", "verify"} =>
       Len(contexts) = Len(steps)

\* The count of repeats, and what a run that has reached the limit has heard.
CountFits ==
  /\ run.progress.repeated \in Nat /\ run.progress.repeated <= run.limit
  /\ run.status = "running" =>
       run.progress.repeated < run.limit /\ run.reason = "none"
  /\ run.reason = "repeated_no_progress" =>
       /\ run.status \in {"cancel_requested", "ended"}
       /\ run.progress.repeated = run.limit /\ run.progress.seq = Len(messages)

\* What a worker has loaded and built.
WorkerFits(x) ==
  /\ x.version \in Nat /\ x.version <= run.version
  /\ x.pc \in {"loaded", "built", "reported"} /\ x.version = run.version =>
       run.status = "running"
  /\ x.pc \in {"built", "reported"} =>
       /\ x.context \in Context /\ x.context.upto <= Len(messages)
       /\ x.version = run.version => Continues(x.context, Len(contexts))
  /\ x.pc = "reported" => x.frame.seq = x.context.upto

ContextInv ==
  /\ RowsTyped /\ ContextsFit /\ StepsFit /\ CountFits
  /\ \A w \in Workers : WorkerFits(worker[w])


-----------------------------------------------------------------------------
(* Sequences *)

\* Append makes a sequence longer by one.
LEMMA SeqAppended ==
  ASSUME NEW s, IsSeq(s), NEW e
  PROVE  IsSeq(Append(s, e)) /\ Len(Append(s, e)) = Len(s) + 1
<1>1. PICK S : S = {s[i] : i \in 1..Len(s)} \cup {e}
  OBVIOUS
<1>2. s \in [1..Len(s) -> S] /\ e \in S
  BY <1>1 DEF IsSeq
<1>3. s \in Seq(S)
  BY <1>2, SeqDef DEF IsSeq
<1> QED BY <1>2, <1>3, AppendProperties, LenProperties DEF IsSeq

\* A function on the indices of a sequence is a sequence of that length.
LEMMA SeqMapped ==
  ASSUME NEW s, IsSeq(s), NEW t, DOMAIN t = DOMAIN s, t = [i \in DOMAIN t |-> t[i]]
  PROVE  IsSeq(t) /\ Len(t) = Len(s)
<1>1. PICK S : S = {t[i] : i \in 1..Len(s)}
  OBVIOUS
<1>2. DOMAIN t = 1..Len(s) /\ t \in [1..Len(s) -> S]
  BY <1>1 DEF IsSeq
<1>3. t \in Seq(S)
  BY <1>2, SeqDef DEF IsSeq
<1>4. Len(t) = Len(s)
  BY <1>2, <1>3, LenProperties DEF IsSeq
<1> QED BY <1>2, <1>4 DEF IsSeq

-----------------------------------------------------------------------------
(* What a step has to show *)

\* The types of what has been committed.
LEMMA ContextsTyped ==
  ASSUME ContextsFit
  PROVE  /\ Len(contexts) \in Nat
         /\ \A s \in 0..Len(contexts) : Upto(s) \in Nat
         /\ \A s \in 1..Len(contexts) : /\ contexts[s].c \in Context
                                        /\ Upto(s) = contexts[s].c.upto
<1>1. contexts \in Seq([c : Context, heard : Nat]) /\ Len(contexts) \in Nat
  BY LenProperties DEF ContextsFit
<1>2. ASSUME NEW s \in 1..Len(contexts)
      PROVE  /\ contexts[s].c \in Context /\ Upto(s) = contexts[s].c.upto
             /\ Upto(s) \in Nat
  <2>1. PICK S : S = [c : Context, heard : Nat]
    OBVIOUS
  <2>2. contexts \in Seq(S)
    BY <1>1, <2>1
  <2>3. contexts[s] \in S
    BY <2>2, ElementOfSeq
  <2>4. s # 0
    BY <1>1
  <2> QED BY <2>1, <2>3, <2>4 DEF Upto, Context
<1>3. Upto(0) \in Nat
  BY DEF Upto
<1>4. \A s \in 0..Len(contexts) : s = 0 \/ s \in 1..Len(contexts)
  BY <1>1
<1> QED BY <1>1, <1>2, <1>3, <1>4

\* What a worker has built stays right until the row moves on.
LEMMA WorkerKept ==
  ASSUME ContextInv, NEW x, WorkerFits(x),
         Len(messages') \in Nat, Len(messages) <= Len(messages'),
         \/ run'.version = run.version + 1
         \/ /\ run'.version = run.version /\ run'.status = run.status
            /\ contexts' = contexts
  PROVE  WorkerFits(x)'
<1>1. run.version \in Nat /\ x.version \in Nat /\ Len(messages) \in Nat
  BY DEF ContextInv, RowsTyped, WorkerFits, IsSeq
<1>2. x.pc \in {"built", "reported"} =>
        x.context \in Context /\ x.context.upto \in Nat
        /\ x.context.upto <= Len(messages')
  BY <1>1 DEF WorkerFits, Context
<1>3. CASE run'.version = run.version + 1
  BY <1>1, <1>2, <1>3 DEF WorkerFits
<1>4. CASE /\ run'.version = run.version /\ run'.status = run.status
           /\ contexts' = contexts
  BY <1>1, <1>2, <1>4 DEF WorkerFits, Continues, Upto
<1> QED BY <1>3, <1>4

\* A step that commits no context.
LEMMA QuietStep ==
  ASSUME ContextInv, RowsTyped', StepsFit', CountFits', UNCHANGED contexts,
         Len(messages) <= Len(messages'),
         \/ run'.version = run.version + 1
         \/ run'.version = run.version /\ run'.status = run.status,
         \A v \in Workers : worker'[v] # worker[v] => WorkerFits(worker[v])'
  PROVE  ContextInv'
<1>1. Len(messages) \in Nat /\ Len(messages') \in Nat
  BY DEF ContextInv, RowsTyped, IsSeq
<1>2. ContextsFit'
  <2>1. \A s \in 1..Len(contexts) : Upto(s) \in Nat
    BY ContextsTyped DEF ContextInv
  <2> QED BY <1>1, <2>1 DEF ContextInv, ContextsFit, Upto, Continues
<1>3. ASSUME NEW v \in Workers PROVE WorkerFits(worker[v])'
  <2>1. CASE worker'[v] = worker[v]
    <3>1. PICK x : x = worker[v]
      OBVIOUS
    <3>2. WorkerFits(x)
      BY <3>1 DEF ContextInv
    <3>3. WorkerFits(x)'
      BY <1>1, <3>2, WorkerKept
    <3> QED BY <2>1, <3>1, <3>3 DEF WorkerFits
  <2> QED BY <2>1
<1> QED BY <1>2, <1>3 DEF ContextInv

\* A worker without a context fits every row.
LEMMA FreshFits ==
  ASSUME RowsTyped', NEW x, x.version = 0, x.pc \in {"idle", "drive"}
  PROVE  WorkerFits(x)'
BY DEF RowsTyped, WorkerFits

\* The workers after a step in which one of them starts afresh.
LEMMA ReloadStep ==
  ASSUME ContextInv, NEW w \in Workers, NEW y, worker' = [worker EXCEPT ![w] = y],
         DOMAIN y = WorkerKeys, y.version = 0, y.pc \in {"idle", "drive"}
  PROVE  /\ DOMAIN worker' = Workers /\ \A v \in Workers : DOMAIN worker'[v] = WorkerKeys
         /\ RowsTyped' => \A v \in Workers :
                            worker'[v] # worker[v] => WorkerFits(worker[v])'
<1>1. /\ DOMAIN worker' = Workers /\ worker'[w] = y
      /\ \A v \in Workers \ {w} : worker'[v] = worker[v]
  BY DEF ContextInv, RowsTyped
<1>2. \A v \in Workers : DOMAIN worker'[v] = WorkerKeys
  BY <1>1 DEF ContextInv, RowsTyped
<1>3. ASSUME RowsTyped' PROVE WorkerFits(worker[w])'
  <2>1. WorkerFits(y)'
    BY <1>3, FreshFits
  <2> QED BY <1>1, <2>1 DEF WorkerFits
<1> QED BY <1>1, <1>2, <1>3


-----------------------------------------------------------------------------
(* Leases and control *)

\* A commit that leaves messages and contexts alone, by a worker or none.
LEMMA CommitStep ==
  ASSUME ContextInv, NEW r, DOMAIN r = RunKeys, r.version = run.version,
         r.limit = run.limit, Commit(r), UNCHANGED <<messages, contexts, worker>>,
         IsSeq(steps'), StepsFit', CountFits'
  PROVE  ContextInv'
<1>1. /\ DOMAIN run' = RunKeys /\ run'.version = run.version + 1
      /\ run'.limit = run.limit /\ run.version \in Nat
  BY DEF Commit, RunKeys, ContextInv, RowsTyped
<1>2. RowsTyped'
  BY <1>1 DEF ContextInv, RowsTyped
<1>3. Len(messages) <= Len(messages')
  BY DEF ContextInv, RowsTyped, IsSeq
<1> QED BY <1>1, <1>2, <1>3, QuietStep

\* The parts of the row that the steps and the count do not depend on.
LEMMA RowKept ==
  ASSUME ContextInv, UNCHANGED <<messages, contexts, steps>>, Stage' = Stage,
         run'.status = run.status, run'.reason = run.reason,
         run'.progress = run.progress, run'.limit = run.limit
  PROVE  StepsFit' /\ CountFits'
BY DEF ContextInv, StepsFit, CountFits

\* A claim keeps the stage to be resumed.
LEMMA ClaimInv ==
  ASSUME ContextInv, NEW w \in Workers, Claim(w)
  PROVE  ContextInv'
<1> DEFINE y == [Idle EXCEPT !.pc = "drive", !.epoch = run.epoch + 1]
<1>1. DOMAIN run = RunKeys /\ run.version \in Nat /\ IsSeq(messages)
  BY DEF ContextInv, RowsTyped
<1>2. /\ DOMAIN run' = RunKeys /\ run'.version = run.version + 1
      /\ run'.status = run.status /\ run'.reason = run.reason
      /\ run'.progress = run.progress /\ run'.limit = run.limit
      /\ UNCHANGED <<messages, contexts, steps>>
  BY <1>1 DEF Claim, Commit, RunKeys
<1>3. Stage' = Stage
  BY <1>1 DEF Claim, Commit, RunKeys, Stage
<1>4. StepsFit' /\ CountFits'
  BY <1>2, <1>3, RowKept
<1>5. /\ worker' = [worker EXCEPT ![w] = y] /\ DOMAIN y = WorkerKeys
      /\ y.version = 0 /\ y.pc = "drive"
  BY DEF Claim, Idle, WorkerKeys
<1> HIDE DEF y
<1>6. /\ DOMAIN worker' = Workers /\ \A v \in Workers : DOMAIN worker'[v] = WorkerKeys
      /\ RowsTyped' => \A v \in Workers :
                         worker'[v] # worker[v] => WorkerFits(worker[v])'
  BY <1>5, ReloadStep
<1>7. RowsTyped'
  BY <1>1, <1>2, <1>6 DEF ContextInv, RowsTyped
<1>8. Len(messages) <= Len(messages')
  BY <1>1, <1>2 DEF IsSeq
<1> QED BY <1>2, <1>4, <1>6, <1>7, <1>8, QuietStep

\* A lease that ends changes nothing the contexts depend on.
LEMMA LeaseExpiresInv ==
  ASSUME ContextInv, LeaseExpires
  PROVE  ContextInv'
<1>1. DOMAIN run = RunKeys /\ run.version \in Nat /\ IsSeq(messages)
  BY DEF ContextInv, RowsTyped
<1>2. /\ DOMAIN run' = RunKeys /\ run'.version = run.version
      /\ run'.status = run.status /\ run'.reason = run.reason
      /\ run'.progress = run.progress /\ run'.limit = run.limit
      /\ UNCHANGED <<messages, contexts, steps, worker>> /\ Stage' = Stage
  BY <1>1 DEF LeaseExpires, RunKeys, Stage
<1>3. StepsFit' /\ CountFits'
  BY <1>2, RowKept
<1>4. RowsTyped' /\ Len(messages) <= Len(messages')
  BY <1>1, <1>2 DEF ContextInv, RowsTyped, IsSeq
<1> QED BY <1>2, <1>3, <1>4, QuietStep

\* A worker leaves, or gives its context up, and the row stays as it is.
LEMMA GiveUpInv ==
  ASSUME ContextInv, NEW w \in Workers, Leave(w) \/ ContextRefused(w)
  PROVE  ContextInv'
<1>1. PICK y : /\ worker' = [worker EXCEPT ![w] = y] /\ DOMAIN y = WorkerKeys
               /\ y.version = 0 /\ y.pc \in {"idle", "drive"}
  <2>1. CASE Leave(w)
    <3>1. /\ worker' = [worker EXCEPT ![w] = Idle] /\ DOMAIN Idle = WorkerKeys
          /\ Idle.version = 0 /\ Idle.pc = "idle"
      BY <2>1 DEF Leave, Idle, WorkerKeys
    <3> QED BY <3>1
  <2>2. CASE ContextRefused(w)
    <3> DEFINE y == [Idle EXCEPT !.pc = "drive", !.epoch = worker[w].epoch]
    <3>1. /\ worker' = [worker EXCEPT ![w] = y] /\ DOMAIN y = WorkerKeys
          /\ y.version = 0 /\ y.pc = "drive"
      BY <2>2 DEF ContextRefused, Reload, Idle, WorkerKeys
    <3> HIDE DEF y
    <3> QED BY <3>1
  <2> QED BY <2>1, <2>2
<1>2. UNCHANGED <<run, messages, steps, contexts>>
  BY DEF Leave, ContextRefused
<1>3. /\ DOMAIN worker' = Workers /\ \A v \in Workers : DOMAIN worker'[v] = WorkerKeys
      /\ RowsTyped' => \A v \in Workers :
                         worker'[v] # worker[v] => WorkerFits(worker[v])'
  BY <1>1, ReloadStep
<1>4. RowsTyped' /\ Len(messages) <= Len(messages') /\ run.version \in Nat
  BY <1>2, <1>3 DEF ContextInv, RowsTyped, IsSeq
<1>5. StepsFit' /\ CountFits'
  BY <1>2, RowKept DEF Stage
<1> QED BY <1>2, <1>3, <1>4, <1>5, QuietStep

\* After adoption the run is in the stage that was interrupted.
LEMMA AdoptInv ==
  ASSUME ContextInv, NEW w \in Workers, Adopt(w)
  PROVE  ContextInv'
<1> DEFINE r == [run EXCEPT !.stage = run.resume, !.resume = "none"]
<1>1. DOMAIN run = RunKeys /\ IsSeq(steps)
  BY DEF ContextInv, RowsTyped
<1>2. /\ Commit(r) /\ UNCHANGED <<messages, steps, contexts, worker>>
      /\ run.stage = "adopt_workspace"
  BY DEF Adopt, At
<1>3. /\ DOMAIN r = RunKeys /\ r.version = run.version /\ r.limit = run.limit
  BY <1>1 DEF RunKeys
<1>4. /\ run'.status = run.status /\ run'.reason = run.reason
      /\ run'.progress = run.progress /\ run'.limit = run.limit
      /\ run'.stage = run.resume /\ run'.resume = "none"
  BY <1>1, <1>2 DEF RunKeys, Commit
<1>5. CountFits'
  BY <1>2, <1>4 DEF ContextInv, CountFits
<1>6. StepsFit'
  BY <1>2, <1>4 DEF ContextInv, StepsFit, Stage
<1> HIDE DEF r
<1> QED BY <1>1, <1>2, <1>3, <1>5, <1>6, CommitStep

\* A cancellation stops the run for its own reason.
LEMMA CancelRunInv ==
  ASSUME ContextInv, CancelRun
  PROVE  ContextInv'
<1> DEFINE r == stop(run, "cancellation requested")
<1>1. DOMAIN run = RunKeys /\ IsSeq(steps)
  BY DEF ContextInv, RowsTyped
<1>2. Commit(r) /\ UNCHANGED <<messages, steps, contexts, worker>>
  BY DEF CancelRun
<1>3. /\ DOMAIN r = RunKeys /\ r.version = run.version /\ r.limit = run.limit
  BY <1>1 DEF RunKeys, stop
<1>4. /\ run'.status = "cancel_requested" /\ run'.reason = "cancellation requested"
      /\ run'.progress = run.progress /\ run'.limit = run.limit
      /\ run'.stage = run.stage /\ run'.resume = run.resume
  BY <1>1, <1>2 DEF RunKeys, Commit, stop
<1>5. CountFits' /\ StepsFit'
  BY <1>2, <1>4 DEF ContextInv, CountFits, StepsFit, Stage
<1> HIDE DEF r
<1> QED BY <1>1, <1>2, <1>3, <1>5, CommitStep

\* The end of a stop keeps its reason.
LEMMA ConfirmStopInv ==
  ASSUME ContextInv, NEW w \in Workers, ConfirmStop(w)
  PROVE  ContextInv'
<1> DEFINE r == [run EXCEPT !.status = "ended", !.stage = "stopped", !.live = FALSE]
<1>1. DOMAIN run = RunKeys /\ IsSeq(steps)
  BY DEF ContextInv, RowsTyped
<1>2. Commit(r) /\ UNCHANGED <<messages, steps, contexts, worker>>
  BY DEF ConfirmStop
<1>3. /\ DOMAIN r = RunKeys /\ r.version = run.version /\ r.limit = run.limit
  BY <1>1 DEF RunKeys
<1>4. /\ run'.status = "ended" /\ run'.reason = run.reason
      /\ run'.progress = run.progress /\ run'.limit = run.limit
      /\ run'.stage = "stopped"
  BY <1>1, <1>2 DEF RunKeys, Commit
<1>5. CountFits' /\ StepsFit'
  BY <1>2, <1>4 DEF ContextInv, CountFits, StepsFit, Stage
<1> HIDE DEF r
<1> QED BY <1>1, <1>2, <1>3, <1>5, CommitStep

-----------------------------------------------------------------------------
(* The model's answer and its batch *)

\* A commit of the owner at a stage: the run goes on, or it has ended.
LEMMA StageStep ==
  ASSUME ContextInv, NEW w \in Workers, NEW stage, At(w, stage),
         stage # "adopt_workspace",
         NEW r, DOMAIN r = RunKeys, r.version = run.version, r.limit = run.limit,
         r.progress = run.progress, r.reason = run.reason, r.stage # "adopt_workspace",
         r.status \in {"running", "ended"},
         Commit(r), UNCHANGED <<messages, contexts, worker>>, IsSeq(steps'),
         r.stage = "model" => Len(contexts) = Len(steps') + 1,
         r.stage \in {"build_context", "execute_effects", "verify"} =>
           Len(contexts) = Len(steps')
  PROVE  ContextInv'
<1>1. /\ run'.status = r.status /\ run'.reason = run.reason /\ run.status = "running"
      /\ run'.progress = run.progress /\ run'.limit = run.limit
      /\ run'.stage = r.stage
  BY DEF Commit, RunKeys, At
<1>2. StepsFit'
  BY <1>1 DEF StepsFit, Stage
<1>3. CountFits'
  BY <1>1 DEF ContextInv, CountFits
<1> QED BY <1>2, <1>3, CommitStep

\* The answer adds a step for the last context.
LEMMA ModelCompletedInv ==
  ASSUME ContextInv, NEW w \in Workers, ModelCompleted(w)
  PROVE  ContextInv'
<1>1. DOMAIN run = RunKeys /\ IsSeq(steps) /\ Len(steps) \in Nat
  BY DEF ContextInv, RowsTyped, IsSeq
<1>2. Len(contexts) = Len(steps) + 1 /\ At(w, "model")
  BY DEF ModelCompleted, At, ContextInv, StepsFit, Stage
<1>3. PICK e, stage : /\ steps' = Append(steps, e)
                      /\ stage \in {"execute_effects", "verify"}
                      /\ Commit([run EXCEPT !.stage = stage])
                      /\ UNCHANGED <<messages, contexts, worker>>
  BY DEF ModelCompleted
<1>4. IsSeq(steps') /\ Len(steps') = Len(steps) + 1
  BY <1>1, <1>3, SeqAppended
<1>5. PICK r : r = [run EXCEPT !.stage = stage]
  OBVIOUS
<1>6. /\ DOMAIN r = RunKeys /\ r.version = run.version /\ r.limit = run.limit
      /\ r.progress = run.progress /\ r.reason = run.reason
      /\ r.stage = stage /\ r.status = "running"
  BY <1>1, <1>2, <1>5 DEF RunKeys, At
<1>7. Len(contexts) = Len(steps')
  BY <1>2, <1>4
<1> QED BY <1>2, <1>3, <1>4, <1>5, <1>6, <1>7, StageStep

\* The rows of a step change, and the number of steps does not.
LEMMA RowsChange ==
  ASSUME ContextInv, NEW k, NEW x, steps' = [steps EXCEPT ![k] = x]
  PROVE  IsSeq(steps') /\ Len(steps') = Len(steps)
<1>1. IsSeq(steps)
  BY DEF ContextInv, RowsTyped
<1>2. DOMAIN steps' = DOMAIN steps /\ steps' = [i \in DOMAIN steps' |-> steps'[i]]
  OBVIOUS
<1> QED BY <1>1, <1>2, SeqMapped

\* A call that ends changes the rows of its step only.
LEMMA EffectCompletedInv ==
  ASSUME ContextInv, NEW w \in Workers, EffectCompleted(w)
  PROVE  ContextInv'
<1>1. DOMAIN run = RunKeys
  BY DEF ContextInv, RowsTyped
<1>2. /\ Len(contexts) = Len(steps) /\ At(w, "execute_effects")
      /\ UNCHANGED <<messages, contexts, worker>>
  BY DEF EffectCompleted, At, ContextInv, StepsFit, Stage
<1>3. PICK k, x, tree, stage :
        /\ steps' = [steps EXCEPT ![k] = x]
        /\ stage \in {"execute_effects", "build_context"}
        /\ Commit([run EXCEPT !.tree = tree, !.report = FALSE, !.stage = stage])
  <2>1. PICK i, o, tree :
          /\ steps' = [steps EXCEPT ![run.step].rows[i] =
                         [kind |-> @.kind, status |-> o[1], result |-> o[2],
                          before |-> run.tree, after |-> tree]]
          /\ Commit([run EXCEPT !.tree = tree, !.report = FALSE,
               !.stage = IF o[1] = "failed" \/ i = Len(steps[run.step].rows)
                         THEN "build_context" ELSE @])
    BY Zenon DEF EffectCompleted
  <2>2. PICK stage : stage = IF o[1] = "failed" \/ i = Len(steps[run.step].rows)
                             THEN "build_context" ELSE run.stage
    OBVIOUS
  <2>3. stage \in {"execute_effects", "build_context"}
    BY <1>2, <2>2 DEF At
  <2>4. Commit([run EXCEPT !.tree = tree, !.report = FALSE, !.stage = stage])
    BY <2>1, <2>2
  <2>5. \E x : steps' = [steps EXCEPT ![run.step] = x]
    BY <2>1, Zenon
  <2> QED BY <2>3, <2>4, <2>5
<1>4. IsSeq(steps') /\ Len(steps') = Len(steps)
  BY <1>3, RowsChange
<1>5. PICK r : r = [run EXCEPT !.tree = tree, !.report = FALSE, !.stage = stage]
  OBVIOUS
<1>6. /\ DOMAIN r = RunKeys /\ r.version = run.version /\ r.limit = run.limit
      /\ r.progress = run.progress /\ r.reason = run.reason
      /\ r.stage = stage /\ r.status = "running"
  BY <1>1, <1>2, <1>5 DEF RunKeys, At
<1>7. Len(contexts) = Len(steps')
  BY <1>2, <1>4
<1> QED BY <1>2, <1>3, <1>4, <1>5, <1>6, <1>7, StageStep

\* The checks of a finish are rows of its step.
LEMMA VerifyInv ==
  ASSUME ContextInv, NEW w \in Workers, Verify(w)
  PROVE  ContextInv'
<1>1. DOMAIN run = RunKeys /\ IsSeq(steps)
  BY DEF ContextInv, RowsTyped
<1>2. /\ Len(contexts) = Len(steps) /\ At(w, "verify")
      /\ UNCHANGED <<messages, contexts, worker>>
  BY DEF Verify, At, ContextInv, StepsFit, Stage
<1> DEFINE ended == [run EXCEPT !.status = "ended", !.stage = "stopped", !.live = FALSE]
           again == [run EXCEPT !.stage = "build_context", !.report = TRUE]
<1>3. CASE Commit(ended) /\ UNCHANGED steps
  <2>1. PICK r : r = ended
    OBVIOUS
  <2>2. /\ DOMAIN r = RunKeys /\ r.version = run.version /\ r.limit = run.limit
        /\ r.progress = run.progress /\ r.reason = run.reason
        /\ r.stage = "stopped" /\ r.status = "ended"
    BY <1>1, <2>1 DEF RunKeys
  <2>3. IsSeq(steps') /\ Commit(r)
    BY <1>1, <1>3, <2>1
  <2> HIDE DEF ended, again
  <2> QED BY <1>2, <2>2, <2>3, StageStep
<1>4. CASE \E o \in [1..Checks -> Outcomes["verify"]] :
             /\ steps' = [steps EXCEPT ![run.step].rows =
                  [i \in 1..Checks |-> [Row("verify", o[i][1]) EXCEPT !.result = o[i][2]]]]
             /\ Commit(again)
  <2>1. PICK r : r = again
    OBVIOUS
  <2>2. /\ DOMAIN r = RunKeys /\ r.version = run.version /\ r.limit = run.limit
        /\ r.progress = run.progress /\ r.reason = run.reason
        /\ r.stage = "build_context" /\ r.status = "running"
    BY <1>1, <1>2, <2>1 DEF RunKeys, At
  <2>3. Commit(r)
    BY <1>4, <2>1
  <2> HIDE DEF ended, again
  <2>4. PICK k, x : steps' = [steps EXCEPT ![k] = x]
    BY <1>4
  <2>5. IsSeq(steps') /\ Len(steps') = Len(steps)
    BY <2>4, RowsChange
  <2>6. Len(contexts) = Len(steps')
    BY <1>2, <2>5
  <2> QED BY <1>2, <2>2, <2>3, <2>5, <2>6, StageStep
<1> QED BY <1>3, <1>4 DEF Verify

-----------------------------------------------------------------------------
(* Messages, and what a worker builds of them *)

\* The workers after a step in which one of them goes on.
LEMMA WorkerStep ==
  ASSUME ContextInv, NEW w \in Workers, NEW y, worker' = [worker EXCEPT ![w] = y],
         DOMAIN y = WorkerKeys, WorkerFits(y)'
  PROVE  /\ DOMAIN worker' = Workers /\ \A v \in Workers : DOMAIN worker'[v] = WorkerKeys
         /\ \A v \in Workers : worker'[v] # worker[v] => WorkerFits(worker[v])'
<1>1. /\ DOMAIN worker' = Workers /\ worker'[w] = y
      /\ \A v \in Workers \ {w} : worker'[v] = worker[v]
  BY DEF ContextInv, RowsTyped
<1>2. \A v \in Workers : DOMAIN worker'[v] = WorkerKeys
  BY <1>1 DEF ContextInv, RowsTyped
<1>3. WorkerFits(worker[w])'
  BY <1>1 DEF WorkerFits
<1> QED BY <1>1, <1>2, <1>3

\* A step of a worker that leaves the run, the steps and the contexts alone.
LEMMA WorkStep ==
  ASSUME ContextInv, NEW w \in Workers, NEW y, worker' = [worker EXCEPT ![w] = y],
         DOMAIN y = WorkerKeys, WorkerFits(y)', UNCHANGED <<run, steps, contexts>>,
         IsSeq(messages'), Len(messages') = Len(messages)
  PROVE  ContextInv'
<1>1. /\ DOMAIN worker' = Workers /\ \A v \in Workers : DOMAIN worker'[v] = WorkerKeys
      /\ \A v \in Workers : worker'[v] # worker[v] => WorkerFits(worker[v])'
  BY WorkerStep
<1>2. RowsTyped'
  BY <1>1 DEF ContextInv, RowsTyped
<1>3. StepsFit' /\ CountFits'
  BY DEF ContextInv, StepsFit, CountFits, Stage
<1>4. Len(messages) <= Len(messages')
  BY DEF IsSeq
<1> QED BY <1>1, <1>2, <1>3, <1>4, QuietStep

\* A message comes only to a run that was not stopped for repeats.
LEMMA AddMessageInv ==
  ASSUME ContextInv, NEW k \in Keys, AddMessage(k)
  PROVE  ContextInv'
<1>1. IsSeq(messages) /\ Len(messages) \in Nat
  BY DEF ContextInv, RowsTyped, IsSeq
<1>2. PICK e : messages' = Append(messages, e)
  BY DEF AddMessage
<1>3. IsSeq(messages') /\ Len(messages') = Len(messages) + 1
  BY <1>1, <1>2, SeqAppended
<1>4. UNCHANGED <<run, steps, contexts, worker>>
  BY DEF AddMessage
<1>5. RowsTyped'
  BY <1>3, <1>4 DEF ContextInv, RowsTyped
<1>6. run.reason # "repeated_no_progress"
  BY DEF ContextInv, CountFits, AddMessage
<1>7. StepsFit' /\ CountFits'
  BY <1>4, <1>6 DEF ContextInv, StepsFit, CountFits, Stage
<1>8. Len(messages) <= Len(messages')
  BY <1>1, <1>3
<1> QED BY <1>4, <1>5, <1>7, <1>8, QuietStep

\* The worker remembers the version it has read.
LEMMA LoadRunInv ==
  ASSUME ContextInv, NEW w \in Workers, LoadRun(w)
  PROVE  ContextInv'
<1> DEFINE y == [Idle EXCEPT !.pc = "loaded", !.epoch = run.epoch,
                             !.version = run.version, !.step = run.step,
                             !.report = run.report]
<1>1. run.version \in Nat /\ IsSeq(messages)
  BY DEF ContextInv, RowsTyped
<1>2. /\ worker' = [worker EXCEPT ![w] = y] /\ run.status = "running"
      /\ UNCHANGED <<run, messages, steps, contexts>>
  BY DEF LoadRun
<1>3. DOMAIN y = WorkerKeys /\ y.pc = "loaded" /\ y.version = run.version
  BY DEF Idle, WorkerKeys
<1> HIDE DEF y
<1>4. PICK x : x = y
  OBVIOUS
<1>5. WorkerFits(x)'
  BY <1>1, <1>2, <1>3, <1>4 DEF WorkerFits
<1> QED BY <1>1, <1>2, <1>3, <1>4, <1>5, WorkStep

\* buildContext goes on from the context of the last answer.
LEMMA BuildContextInv ==
  ASSUME ContextInv, NEW w \in Workers, BuildContext(w)
  PROVE  ContextInv'
<1>1. /\ IsSeq(messages) /\ Len(messages) \in Nat /\ IsSeq(steps)
      /\ run.version \in Nat /\ DOMAIN worker[w] = WorkerKeys
      /\ DOMAIN worker = Workers
  BY DEF ContextInv, RowsTyped, IsSeq
<1>2. /\ messages' = Taken(run.step) /\ run.stage = "build_context"
      /\ worker[w].pc = "loaded" /\ UNCHANGED <<run, steps, contexts>>
  BY DEF BuildContext
<1>3. IsSeq(messages') /\ Len(messages') = Len(messages)
  <2>1. /\ DOMAIN messages' = DOMAIN messages
        /\ messages' = [i \in DOMAIN messages' |-> messages'[i]]
    BY <1>2 DEF Taken
  <2> QED BY <1>1, <2>1, SeqMapped
<1>4. Len(steps) = Len(contexts) /\ Len(steps) \in Nat
  BY <1>1, <1>2 DEF ContextInv, StepsFit, Stage, IsSeq
<1>5. PICK n : n = Len(steps)
  OBVIOUS
<1>6. PICK native \in BOOLEAN : native = (n > 0 /\ Native /\ n % CompactEvery # 0)
  OBVIOUS
<1>7. PICK from : from = IF native THEN contexts[n].c.upto + 1 ELSE 1
  OBVIOUS
<1>8. PICK c : c = [native |-> native, upto |-> Len(messages), from |-> from]
  OBVIOUS
<1>9. worker' = [worker EXCEPT ![w].pc = "built", ![w].context = c]
  BY <1>5, <1>6, <1>7, <1>8 DEF BuildContext
<1>10. c \in Context /\ c.upto = Len(messages) /\ Continues(c, Len(contexts))
  <2>1. CASE native
    <3>1. n \in 1..Len(contexts) /\ n = Len(contexts)
      <4>1. n > 0
        BY <1>6, <2>1, Zenon
      <4> QED BY <1>4, <1>5, <4>1
    <3>2. contexts[n].c \in Context /\ Upto(n) = contexts[n].c.upto
      BY <3>1, ContextsTyped DEF ContextInv
    <3>3. from \in Nat /\ from = Upto(Len(contexts)) + 1
      BY <1>7, <2>1, <3>1, <3>2 DEF Context
    <3> QED BY <1>1, <1>8, <2>1, <3>3 DEF Context, Continues
  <2>2. CASE ~native
    BY <1>1, <1>7, <1>8, <2>2 DEF Context, Continues
  <2> QED BY <2>1, <2>2
<1>11. PICK y : y = [worker[w] EXCEPT !.pc = "built", !.context = c]
  OBVIOUS
<1>12. worker' = [worker EXCEPT ![w] = y]
  BY <1>1, <1>9, <1>11
<1>13. /\ DOMAIN y = WorkerKeys /\ y.pc = "built" /\ y.context = c
       /\ y.version = worker[w].version
  BY <1>1, <1>11 DEF WorkerKeys
<1>14. /\ y.version \in Nat /\ y.version <= run.version
       /\ y.version = run.version => run.status = "running"
  BY <1>2, <1>13 DEF ContextInv, WorkerFits
<1>15. Continues(c, Len(contexts))'
  BY <1>2, <1>10 DEF Continues, Upto
<1>16. WorkerFits(y)'
  BY <1>1, <1>2, <1>3, <1>10, <1>13, <1>14, <1>15 DEF WorkerFits
<1> QED BY <1>2, <1>3, <1>12, <1>13, <1>16, WorkStep

\* The report speaks of the messages of its context.
LEMMA ContextProgressInv ==
  ASSUME ContextInv, NEW w \in Workers, ContextProgress(w)
  PROVE  ContextInv'
<1>1. /\ IsSeq(messages) /\ Len(messages) \in Nat /\ DOMAIN worker[w] = WorkerKeys
      /\ DOMAIN worker = Workers
  BY DEF ContextInv, RowsTyped, IsSeq
<1>2. UNCHANGED <<run, messages, steps, contexts>> /\ worker[w].pc = "built"
  BY DEF ContextProgress
<1>3. PICK f : /\ f.seq = worker[w].context.upto
               /\ worker' = [worker EXCEPT ![w].pc = "reported", ![w].frame = f]
  <2> DEFINE s == worker[w].step
             g == [seq |-> worker[w].context.upto, step |-> s,
                   report |-> s > 0 /\ steps[s].finish,
                   observations |-> IF s = 0 THEN << >> ELSE Observations(steps[s])]
  <2>1. worker' = [worker EXCEPT ![w].pc = "reported", ![w].frame = g]
    BY DEF ContextProgress
  <2>2. g.seq = worker[w].context.upto
    OBVIOUS
  <2> HIDE DEF g
  <2> QED BY <2>1, <2>2
<1>4. PICK y : y = [worker[w] EXCEPT !.pc = "reported", !.frame = f]
  OBVIOUS
<1>5. worker' = [worker EXCEPT ![w] = y]
  BY <1>1, <1>3, <1>4
<1>6. /\ DOMAIN y = WorkerKeys /\ y.pc = "reported" /\ y.frame = f
      /\ y.version = worker[w].version /\ y.context = worker[w].context
  BY <1>1, <1>4 DEF WorkerKeys
<1>7. /\ y.version \in Nat /\ y.version <= run.version
      /\ y.version = run.version => run.status = "running"
      /\ y.context \in Context /\ y.context.upto <= Len(messages)
      /\ y.version = run.version => Continues(y.context, Len(contexts))
  BY <1>2, <1>6 DEF ContextInv, WorkerFits
<1>8. y.version = run.version => Continues(y.context, Len(contexts))'
  BY <1>2, <1>7 DEF Continues, Upto
<1>9. WorkerFits(y)'
  BY <1>2, <1>3, <1>6, <1>7, <1>8 DEF WorkerFits
<1> QED BY <1>1, <1>2, <1>5, <1>6, <1>9, WorkStep

\* A context that cannot be built stops the run.
LEMMA BuildFailsInv ==
  ASSUME ContextInv, NEW w \in Workers, BuildFails(w)
  PROVE  ContextInv'
<1> DEFINE y == [Idle EXCEPT !.pc = "drive", !.epoch = worker[w].epoch]
<1>1. DOMAIN run = RunKeys /\ run.version \in Nat /\ IsSeq(messages) /\ IsSeq(steps)
  BY DEF ContextInv, RowsTyped
<1>2. /\ Commit(stop(run, "failed")) /\ worker' = [worker EXCEPT ![w] = y]
      /\ UNCHANGED <<messages, steps, contexts>>
  BY DEF BuildFails, Reload
<1>3. /\ DOMAIN run' = RunKeys /\ run'.version = run.version + 1
      /\ run'.status = "cancel_requested" /\ run'.reason = "failed"
      /\ run'.progress = run.progress /\ run'.limit = run.limit
      /\ run'.stage = run.stage /\ run'.resume = run.resume
  BY <1>1, <1>2 DEF RunKeys, Commit, stop
<1>4. DOMAIN y = WorkerKeys /\ y.version = 0 /\ y.pc = "drive"
  BY DEF Idle, WorkerKeys
<1> HIDE DEF y
<1>5. /\ DOMAIN worker' = Workers /\ \A v \in Workers : DOMAIN worker'[v] = WorkerKeys
      /\ RowsTyped' => \A v \in Workers :
                         worker'[v] # worker[v] => WorkerFits(worker[v])'
  BY <1>2, <1>4, ReloadStep
<1>6. RowsTyped'
  BY <1>1, <1>2, <1>3, <1>5 DEF ContextInv, RowsTyped
<1>7. StepsFit' /\ CountFits'
  BY <1>2, <1>3 DEF ContextInv, CountFits, StepsFit, Stage
<1>8. Len(messages) <= Len(messages')
  BY <1>1, <1>2 DEF IsSeq
<1> QED BY <1>2, <1>3, <1>5, <1>6, <1>7, <1>8, QuietStep

-----------------------------------------------------------------------------
(* The commit of a context *)

\* observeProgress: the count starts again or grows by one.
LEMMA CountMoves ==
  ASSUME NEW p, p.repeated \in Nat, NEW f
  PROVE  /\ observeProgress(p, f).seq = f.seq
         /\ observeProgress(p, f).repeated \in {0, p.repeated + 1}
BY DEF observeProgress, NoProgress

\* What the worker that commits a context has: all the messages, and a context
\* that goes on from the last one committed.
LEMMA AcceptedContext ==
  ASSUME ContextInv, NEW w \in Workers, ContextBuilt(w)
  PROVE  /\ worker[w].context \in Context
         /\ worker[w].context.upto = Len(messages)
         /\ worker[w].frame.seq = Len(messages)
         /\ Continues(worker[w].context, Len(contexts))
         /\ run.status = "running" /\ run.stage = "build_context"
<1>1. worker[w].pc = "reported" /\ WorkerFits(worker[w])
  BY DEF ContextInv, ContextBuilt
<1>2. /\ worker[w].frame.seq = Len(messages) /\ run.version = worker[w].version
      /\ run.status = "running" /\ run.stage = "build_context"
  BY DEF ContextBuilt, Accepted, validateContextProgress, Transitions
<1> QED BY <1>1, <1>2 DEF WorkerFits

\* The contexts after one more, which has all the messages.
LEMMA ContextAppended ==
  ASSUME ContextInv, NEW c \in Context, c.upto = Len(messages),
         Continues(c, Len(contexts)), UNCHANGED messages,
         contexts' = Append(contexts, [c |-> c, heard |-> Len(messages)])
  PROVE  ContextsFit' /\ Len(contexts') = Len(contexts) + 1
<1>1. /\ Len(contexts) \in Nat
      /\ \A s \in 0..Len(contexts) : Upto(s) \in Nat
      /\ \A s \in 1..Len(contexts) : contexts[s].c \in Context
      /\ \A s \in 1..Len(contexts) : Upto(s) = contexts[s].c.upto
  BY ContextsTyped DEF ContextInv
<1>2. PICK e : e = [c |-> c, heard |-> Len(messages)]
  OBVIOUS
<1>3. PICK S : S = [c : Context, heard : Nat]
  OBVIOUS
<1>4. Len(messages) \in Nat
  BY DEF ContextInv, RowsTyped, IsSeq
<1>5. e \in S /\ e.c = c /\ e.heard = Len(messages)
  BY <1>2, <1>3, <1>4
<1>6. contexts \in Seq(S)
  BY <1>3 DEF ContextInv, ContextsFit
<1>7. PICK n : n = Len(contexts)
  OBVIOUS
<1>8. /\ contexts' \in Seq(S) /\ Len(contexts') = n + 1 /\ contexts'[n + 1] = e
      /\ \A s \in 1..n : contexts'[s] = contexts[s]
  BY <1>2, <1>5, <1>6, <1>7, AppendProperties
<1>9. n \in Nat
  BY <1>1, <1>7
<1>10. /\ \A s \in 0..n : Upto(s)' = Upto(s)
       /\ Upto(n + 1)' = Len(messages)
  BY <1>5, <1>8, <1>9 DEF Upto
<1>11. Upto(n) <= Len(messages)
  <2>1. CASE n = 0
    BY <1>4, <2>1 DEF Upto
  <2>2. CASE n \in 1..Len(contexts)
    BY <2>2 DEF ContextInv, ContextsFit
  <2> QED BY <1>7, <1>9, <2>1, <2>2
<1>12. ASSUME NEW s \in 1..(n + 1)
       PROVE  /\ contexts'[s].heard = contexts'[s].c.upto
              /\ Upto(s - 1)' <= Upto(s)' /\ Upto(s)' <= Len(messages)
              /\ Continues(contexts[s].c, s - 1)'
  <2>1. CASE s = n + 1
    <3>1. s - 1 = n /\ n \in 0..n /\ contexts'[s] = e
      BY <1>8, <1>9, <2>1
    <3>2. Upto(s - 1)' = Upto(n) /\ Upto(s)' = Len(messages)
      BY <1>10, <2>1, <3>1
    <3>3. Continues(contexts[s].c, s - 1)'
      BY <1>5, <1>7, <3>1, <3>2 DEF Continues
    <3>4. contexts'[s].heard = contexts'[s].c.upto
      BY <1>5, <3>1
    <3>5. Upto(s - 1)' <= Upto(s)' /\ Upto(s)' <= Len(messages)
      BY <1>4, <1>11, <3>2
    <3> QED BY <3>3, <3>4, <3>5, Zenon
  <2>2. CASE s \in 1..n
    <3>1. s \in 0..n /\ s - 1 \in 0..n /\ s \in 1..Len(contexts)
      BY <1>7, <1>9, <2>2
    <3>2. Upto(s - 1)' = Upto(s - 1) /\ Upto(s)' = Upto(s) /\ contexts'[s] = contexts[s]
      BY <1>8, <1>10, <2>2, <3>1
    <3> QED BY <3>1, <3>2 DEF ContextInv, ContextsFit, Continues
  <2>3. s = n + 1 \/ s \in 1..n
    BY <1>9
  <2> QED BY <2>1, <2>2, <2>3, Zenon
<1> QED BY <1>3, <1>7, <1>8, <1>12 DEF ContextsFit

\* The commit of a context, or the stop that its report leads to.
LEMMA ContextBuiltInv ==
  ASSUME ContextInv, NEW w \in Workers, ContextBuilt(w)
  PROVE  ContextInv'
<1> DEFINE y == [Idle EXCEPT !.pc = "drive", !.epoch = worker[w].epoch]
<1>1. /\ DOMAIN run = RunKeys /\ run.version \in Nat /\ IsSeq(messages)
      /\ IsSeq(steps) /\ run.limit \in Nat /\ Len(steps) \in Nat
  BY DEF ContextInv, RowsTyped, IsSeq
<1>2. worker' = [worker EXCEPT ![w] = y] /\ UNCHANGED <<messages, steps>>
  BY DEF ContextBuilt, Reload
<1>3. DOMAIN y = WorkerKeys /\ y.version = 0 /\ y.pc = "drive"
  BY DEF Idle, WorkerKeys
<1> HIDE DEF y
<1>4. /\ DOMAIN worker' = Workers /\ \A v \in Workers : DOMAIN worker'[v] = WorkerKeys
      /\ RowsTyped' => \A v \in Workers :
                         worker'[v] # worker[v] => WorkerFits(worker[v])'
  BY <1>2, <1>3, ReloadStep
<1>5. /\ worker[w].context \in Context /\ worker[w].context.upto = Len(messages)
      /\ worker[w].frame.seq = Len(messages)
      /\ Continues(worker[w].context, Len(contexts))
      /\ run.status = "running" /\ run.stage = "build_context"
  BY AcceptedContext
<1>6. /\ run.progress.repeated \in Nat /\ run.progress.repeated < run.limit
      /\ run.reason = "none"
  BY <1>5 DEF ContextInv, CountFits
<1>7. PICK p : p = observeProgress(run.progress, worker[w].frame)
  OBVIOUS
<1>8. p.seq = Len(messages) /\ p.repeated \in Nat /\ p.repeated <= run.limit
  <2>1. p.seq = Len(messages) /\ p.repeated \in {0, run.progress.repeated + 1}
    BY <1>5, <1>6, <1>7, CountMoves
  <2> QED BY <1>1, <1>6, <2>1
<1>9. Len(contexts) = Len(steps)
  BY <1>5 DEF ContextInv, StepsFit, Stage
<1>10. Len(messages) <= Len(messages')
  BY <1>1, <1>2 DEF IsSeq
<1>11. ASSUME NEW reason, reason # "none",
              Commit(stop([run EXCEPT !.progress = p], reason)), UNCHANGED contexts,
              reason = "repeated_no_progress" => p.repeated = run.limit
       PROVE  ContextInv'
  <2>1. /\ DOMAIN run' = RunKeys /\ run'.version = run.version + 1
        /\ run'.status = "cancel_requested" /\ run'.reason = reason
        /\ run'.progress = p /\ run'.limit = run.limit
        /\ run'.stage = run.stage /\ run'.resume = run.resume
    BY <1>1, <1>11 DEF RunKeys, Commit, stop
  <2>2. RowsTyped'
    BY <1>1, <1>2, <1>4, <2>1 DEF ContextInv, RowsTyped
  <2>3. StepsFit'
    BY <1>2, <1>11, <2>1 DEF ContextInv, StepsFit, Stage
  <2>4. CountFits'
    BY <1>2, <1>8, <1>11, <2>1 DEF CountFits
  <2> QED BY <1>4, <1>10, <1>11, <2>1, <2>2, <2>3, <2>4, QuietStep
<1>12. ASSUME p.repeated < run.limit,
              Commit([[run EXCEPT !.progress = p] EXCEPT !.stage = "model", !.step = @ + 1]),
              contexts' = Append(contexts, [c |-> worker[w].context, heard |-> Len(messages)])
       PROVE  ContextInv'
  <2>1. /\ DOMAIN run' = RunKeys /\ run'.version = run.version + 1
        /\ run'.status = run.status /\ run'.reason = run.reason
        /\ run'.progress = p /\ run'.limit = run.limit /\ run'.stage = "model"
    BY <1>1, <1>12 DEF RunKeys, Commit
  <2>2. RowsTyped'
    BY <1>1, <1>2, <1>4, <2>1 DEF ContextInv, RowsTyped
  <2>3. PICK c \in Context : c = worker[w].context
    BY <1>5
  <2>4. ContextsFit' /\ Len(contexts') = Len(contexts) + 1
    BY <1>2, <1>5, <1>12, <2>3, ContextAppended
  <2>5. StepsFit'
    BY <1>2, <1>9, <2>1, <2>4 DEF StepsFit, Stage
  <2>6. CountFits'
    BY <1>2, <1>5, <1>6, <1>8, <1>12, <2>1 DEF CountFits
  <2>7. ASSUME NEW v \in Workers PROVE WorkerFits(worker[v])'
    <3>1. CASE worker'[v] = worker[v]
      <4>1. PICK x : x = worker[v]
        OBVIOUS
      <4>2. WorkerFits(x)
        BY <4>1 DEF ContextInv
      <4>3. Len(messages') \in Nat
        BY <1>1, <1>2 DEF IsSeq
      <4>4. WorkerFits(x)'
        BY <1>10, <2>1, <4>2, <4>3, WorkerKept
      <4> QED BY <3>1, <4>1, <4>4 DEF WorkerFits
    <3> QED BY <1>4, <2>2, <3>1
  <2> QED BY <2>2, <2>4, <2>5, <2>6, <2>7 DEF ContextInv
<1>13. CASE /\ Commit(stop([run EXCEPT !.progress = p], "model budget reached"))
            /\ UNCHANGED contexts
  BY <1>11, <1>13
<1>14. CASE /\ p.repeated >= run.limit /\ UNCHANGED contexts
            /\ Commit(stop([run EXCEPT !.progress = p], "repeated_no_progress"))
  <2>1. p.repeated = run.limit
    BY <1>1, <1>8, <1>14
  <2> QED BY <1>11, <1>14, <2>1
<1>15. CASE /\ p.repeated < run.limit
            /\ Commit([[run EXCEPT !.progress = p] EXCEPT !.stage = "model", !.step = @ + 1])
            /\ contexts' = Append(contexts,
                 [c |-> worker[w].context, heard |-> Len(messages)])
  BY <1>12, <1>15
<1> QED BY <1>7, <1>13, <1>14, <1>15 DEF ContextBuilt

-----------------------------------------------------------------------------
(* The invariant holds *)

\* Nothing has been said.
LEMMA ContextInit == ProgressInit => ContextInv
<1> SUFFICES ASSUME ProgressInit PROVE ContextInv
  OBVIOUS
<1>1. PICK limit \in NoProgressLimits :
        run = [status |-> "running", stage |-> "build_context", resume |-> "none",
               reason |-> "none", step |-> 0, version |-> 0, report |-> FALSE,
               owner |-> NoWorker, epoch |-> 0, live |-> FALSE,
               tree |-> Baseline, progress |-> NoProgress, limit |-> limit]
  BY DEF ProgressInit
<1>2. limit \in Nat \ {0}
  BY ProgressAssumption
<1>3. /\ DOMAIN run = RunKeys /\ run.version = 0 /\ run.limit = limit
      /\ run.status = "running" /\ run.stage = "build_context" /\ run.reason = "none"
      /\ run.progress.repeated = 0
  BY <1>1 DEF RunKeys, NoProgress
<1>4. messages = << >> /\ steps = << >> /\ contexts = << >>
  BY DEF ProgressInit
<1>5. IsSeq(messages) /\ IsSeq(steps) /\ Len(contexts) = 0 /\ Len(steps) = 0
  BY <1>4 DEF IsSeq
<1>6. worker = [w \in Workers |-> Idle] /\ DOMAIN Idle = WorkerKeys
      /\ Idle.version = 0 /\ Idle.pc = "idle"
  BY DEF ProgressInit, Idle, WorkerKeys
<1>7. RowsTyped
  BY <1>2, <1>3, <1>5, <1>6 DEF RowsTyped
<1>8. ContextsFit
  <2>1. PICK S : S = [c : Context, heard : Nat]
    OBVIOUS
  <2>2. contexts \in Seq(S)
    BY <1>4
  <2>3. \A s \in 1..Len(contexts) : FALSE
    BY <1>5
  <2> QED BY <2>1, <2>2, <2>3 DEF ContextsFit
<1>9. StepsFit
  BY <1>3, <1>5 DEF StepsFit, Stage
<1>10. CountFits
  BY <1>2, <1>3 DEF CountFits
<1>11. \A w \in Workers : WorkerFits(worker[w])
  BY <1>3, <1>6 DEF WorkerFits
<1> QED BY <1>7, <1>8, <1>9, <1>10, <1>11 DEF ContextInv

\* Every step keeps ContextInv.
LEMMA ContextNext == ContextInv /\ [ProgressNext]_progressVars => ContextInv'
<1> SUFFICES ASSUME ContextInv, [ProgressNext]_progressVars PROVE ContextInv'
  OBVIOUS
<1>1. CASE UNCHANGED progressVars
  BY <1>1 DEF progressVars, ContextInv, RowsTyped, ContextsFit, StepsFit, CountFits,
              WorkerFits, Continues, Upto, Stage
<1>2. ASSUME NEW w \in Workers,
             \/ Claim(w) \/ Leave(w) \/ Adopt(w) \/ ConfirmStop(w)
             \/ ModelCompleted(w) \/ EffectCompleted(w) \/ Verify(w)
      PROVE  ContextInv'
  BY <1>2, ClaimInv, GiveUpInv, AdoptInv, ConfirmStopInv, ModelCompletedInv,
     EffectCompletedInv, VerifyInv
<1>3. ASSUME NEW w \in Workers,
             \/ LoadRun(w) \/ BuildContext(w) \/ ContextProgress(w) \/ BuildFails(w)
             \/ ContextBuilt(w) \/ ContextRefused(w)
      PROVE  ContextInv'
  BY <1>3, LoadRunInv, BuildContextInv, ContextProgressInv, BuildFailsInv,
     ContextBuiltInv, GiveUpInv
<1>4. ASSUME NEW k \in Keys, AddMessage(k) PROVE ContextInv'
  BY <1>4, AddMessageInv
<1> QED BY <1>1, <1>2, <1>3, <1>4, LeaseExpiresInv, CancelRunInv DEF ProgressNext

\* The count of repeats never exceeds the limit, and a run stopped for it has
\* reached that limit in a context that had every message: EventContextBuilt
\* stops the run in the transaction that compared the report with the rows, and
\* AddMessage refuses what comes later.
THEOREM StopsHaveHeard == ProgressSpec => []StopHeard
<1>1. ContextInv => StopHeard
  BY DEF ContextInv, CountFits, StopHeard
<1> QED BY <1>1, ContextInit, ContextNext, PTL DEF ProgressSpec

-----------------------------------------------------------------------------
(* The conversation *)

\* A set of numbers has a least one.
LEMMA LeastNumber ==
  ASSUME NEW T, T \subseteq Nat, T # {}
  PROVE  \E n \in T : \A m \in T : ~(m < n)
<1>1. IsWellFoundedOn(OpToRel(<, Nat), Nat)
  BY NatLessThanWellFounded
<1>2. \E n \in T : \A m \in T : ~(<<m, n>> \in OpToRel(<, Nat))
  BY <1>1, WFMin
<1>3. \A m, n \in Nat : m < n => <<m, n>> \in OpToRel(<, Nat)
  BY DEF OpToRel
<1> QED BY <1>2, <1>3

Numbers(n) == [i \in 1..n |-> i]

Said(c) == [i \in 1..(c.upto - c.from + 1) |-> c.from + i - 1]

\* What makes a function the conversation: the step of its recursion.
Tell(f, s) ==
  IF s = 0 THEN << >>
  ELSE IF contexts[s].c.native THEN f[s - 1] \o Said(contexts[s].c)
       ELSE Said(contexts[s].c)

Told(f) == f = [s \in 0..Len(contexts) |-> Tell(f, s)]

\* Conversation is some function that satisfies its recursion.
LEMMA ConversationChosen == Conversation = CHOOSE f : Told(f)
BY DEF Conversation, Told, Tell, Said

\* The first n messages in order.
LEMMA NumbersSeq ==
  ASSUME NEW n \in Nat
  PROVE  /\ Numbers(n) \in Seq(Nat) /\ Len(Numbers(n)) = n
         /\ \A i \in 1..n : Numbers(n)[i] = i
<1>1. Numbers(n) \in [1..n -> Nat] /\ \A i \in 1..n : Numbers(n)[i] = i
  BY DEF Numbers
<1>2. Numbers(n) \in Seq(Nat)
  BY <1>1, SeqDef
<1>3. DOMAIN Numbers(n) = 1..n
  BY DEF Numbers
<1> QED BY <1>1, <1>2, <1>3, LenProperties

\* What a context says: the messages after the m-th.
LEMMA SaidSeq ==
  ASSUME NEW m \in Nat, NEW n \in Nat, m <= n,
         NEW c, c.from = m + 1, c.upto = n
  PROVE  /\ Said(c) \in Seq(Nat) /\ Len(Said(c)) = n - m
         /\ \A i \in 1..(n - m) : Said(c)[i] = m + i
<1>1. n - m \in Nat /\ c.upto - c.from + 1 = n - m
  OBVIOUS
<1>2. \A i \in 1..(n - m) : c.from + i - 1 = m + i /\ m + i \in Nat
  BY <1>1
<1>3. Said(c) \in [1..(n - m) -> Nat] /\ \A i \in 1..(n - m) : Said(c)[i] = m + i
  BY <1>1, <1>2 DEF Said
<1>4. DOMAIN Said(c) = 1..(n - m)
  BY <1>3
<1>5. Said(c) \in Seq(Nat)
  BY <1>1, <1>3, SeqDef
<1> QED BY <1>1, <1>3, <1>4, <1>5, LenProperties

\* A context that begins where the conversation ends completes it.
LEMMA SaidJoins ==
  ASSUME NEW m \in Nat, NEW n \in Nat, m <= n,
         NEW c, c.from = m + 1, c.upto = n
  PROVE  Numbers(m) \o Said(c) = Numbers(n)
<1>1. PICK a : a = Numbers(m)
  OBVIOUS
<1>2. PICK b : b = Said(c)
  OBVIOUS
<1>3. PICK t : t = Numbers(n)
  OBVIOUS
<1>4. a \in Seq(Nat) /\ Len(a) = m /\ \A i \in 1..m : a[i] = i
  BY <1>1, NumbersSeq
<1>5. b \in Seq(Nat) /\ Len(b) = n - m /\ \A i \in 1..(n - m) : b[i] = m + i
  BY <1>2, SaidSeq
<1>6. t \in Seq(Nat) /\ Len(t) = n /\ \A i \in 1..n : t[i] = i
  BY <1>3, NumbersSeq
<1>7. PICK j : j = a \o b
  OBVIOUS
<1>8. /\ j \in Seq(Nat) /\ Len(j) = Len(a) + Len(b)
      /\ \A i \in 1..(Len(a) + Len(b)) :
           j[i] = IF i <= Len(a) THEN a[i] ELSE b[i - Len(a)]
  BY <1>4, <1>5, <1>7, ConcatProperties
<1>9. Len(a) + Len(b) = n
  BY <1>4, <1>5
<1>10. \A i \in 1..n : j[i] = IF i <= m THEN a[i] ELSE b[i - m]
  BY <1>4, <1>8, <1>9
<1>11. ASSUME NEW i \in 1..n PROVE j[i] = t[i]
  <2>1. CASE i <= m
    <3>1. i \in 1..m
      BY <2>1
    <3> QED BY <1>4, <1>6, <1>10, <2>1, <3>1
  <2>2. CASE ~(i <= m)
    <3>1. i - m \in 1..(n - m) /\ m + (i - m) = i
      BY <2>2
    <3>2. b[i - m] = i
      BY <1>5, <3>1
    <3> QED BY <1>6, <1>10, <2>2, <3>2
  <2> QED BY <2>1, <2>2
<1>12. Len(j) = n
  BY <1>8, <1>9
<1>13. j = t
  BY <1>6, <1>8, <1>11, <1>12, SeqEqual
<1> QED BY <1>1, <1>2, <1>3, <1>7, <1>13

\* What a context adds is what the conversation lacks.
LEMMA TellNumbers ==
  ASSUME ContextInv, NEW f, NEW s \in 0..Len(contexts),
         s # 0 => f[s - 1] = Numbers(Upto(s - 1))
  PROVE  Tell(f, s) = Numbers(Upto(s))
<1>1. /\ Len(contexts) \in Nat /\ \A t \in 0..Len(contexts) : Upto(t) \in Nat
      /\ \A t \in 1..Len(contexts) : contexts[t].c \in Context
      /\ \A t \in 1..Len(contexts) : Upto(t) = contexts[t].c.upto
  BY ContextsTyped DEF ContextInv
<1>2. CASE s = 0
  <2>1. Numbers(0) = << >>
    BY DEF Numbers
  <2> QED BY <1>2, <2>1 DEF Tell, Upto
<1>3. CASE s # 0
  <2>1. s \in 1..Len(contexts) /\ s - 1 \in 0..Len(contexts)
    BY <1>1, <1>3
  <2>2. PICK c : c = contexts[s].c
    OBVIOUS
  <2>3. PICK m : m = Upto(s - 1)
    OBVIOUS
  <2>4. PICK n : n = Upto(s)
    OBVIOUS
  <2>5. m \in Nat /\ n \in Nat /\ m <= n /\ c.upto = n /\ 0 \in Nat /\ 0 <= n
    BY <1>1, <2>1, <2>2, <2>3, <2>4 DEF ContextInv, ContextsFit
  <2>6. c.from = IF c.native THEN m + 1 ELSE 1
    BY <2>1, <2>2, <2>3 DEF ContextInv, ContextsFit, Continues
  <2>7. CASE c.native
    <3>1. Numbers(m) \o Said(c) = Numbers(n)
      BY <2>5, <2>6, <2>7, SaidJoins
    <3>2. Tell(f, s) = f[s - 1] \o Said(c)
      BY <1>3, <2>2, <2>7 DEF Tell
    <3> QED BY <1>3, <2>3, <2>4, <3>1, <3>2
  <2>8. CASE ~c.native
    <3>1. c.from = 0 + 1
      BY <2>6, <2>8
    <3>2. Numbers(0) \o Said(c) = Numbers(n)
      BY <2>5, <3>1, SaidJoins
    <3>3. Said(c) \in Seq(Nat)
      BY <2>5, <3>1, SaidSeq
    <3>4. Numbers(0) = << >>
      BY DEF Numbers
    <3>5. Said(c) = Numbers(n)
      BY <3>2, <3>3, <3>4, ConcatEmptySeq
    <3>6. Tell(f, s) = Said(c)
      BY <1>3, <2>2, <2>8 DEF Tell
    <3> QED BY <2>4, <3>5, <3>6
  <2> QED BY <2>7, <2>8
<1> QED BY <1>2, <1>3

\* There is such a function.
LEMMA ConversationExists ==
  ASSUME ContextInv
  PROVE  \E f : Told(f)
<1>1. PICK f : f = [s \in 0..Len(contexts) |-> Numbers(Upto(s))]
  OBVIOUS
<1>2. Len(contexts) \in Nat
  BY ContextsTyped DEF ContextInv
<1>3. ASSUME NEW s \in 0..Len(contexts) PROVE Tell(f, s) = Numbers(Upto(s))
  <2>1. s # 0 => f[s - 1] = Numbers(Upto(s - 1))
    <3>1. s # 0 => s - 1 \in 0..Len(contexts)
      BY <1>2
    <3> QED BY <1>1, <3>1
  <2> QED BY <2>1, TellNumbers
<1>4. [s \in 0..Len(contexts) |-> Tell(f, s)] = [s \in 0..Len(contexts) |-> Numbers(Upto(s))]
  BY <1>3
<1>5. Told(f)
  BY <1>1, <1>4 DEF Told
<1> QED BY <1>5

\* By the least step at which a conversation would tell something else.
LEMMA ConversationNumbers ==
  ASSUME ContextInv, NEW f, Told(f), NEW s \in 0..Len(contexts)
  PROVE  f[s] = Numbers(Upto(s))
<1> DEFINE T == {t \in 0..Len(contexts) : f[t] # Numbers(Upto(t))}
<1>1. Len(contexts) \in Nat
  BY ContextsTyped DEF ContextInv
<1>2. \A t \in 0..Len(contexts) : f[t] = Tell(f, t)
  BY DEF Told
<1>3. ASSUME T # {} PROVE FALSE
  <2>1. PICK t \in T : \A u \in T : ~(u < t)
    <3>1. T \subseteq Nat
      BY <1>1
    <3> HIDE DEF T
    <3> QED BY <1>3, <3>1, LeastNumber
  <2>2. t \in 0..Len(contexts) /\ f[t] # Numbers(Upto(t))
    BY <2>1
  <2>3. t # 0 => f[t - 1] = Numbers(Upto(t - 1))
    <3>1. t # 0 => t - 1 \in 0..Len(contexts) /\ t - 1 < t
      BY <1>1, <2>2
    <3> QED BY <2>1, <3>1
  <2>4. Tell(f, t) = Numbers(Upto(t))
    BY <2>2, <2>3, TellNumbers
  <2> QED BY <1>2, <2>2, <2>4
<1> QED BY <1>3

\* Every context that is committed tells the model each message accepted before
\* the commit once and in order, whether it goes on from the provider's state or
\* starts afresh: buildContext goes on from the context of the last answer, and
\* ContextBuilt refuses one that a message or another commit has overtaken.
THEOREM MessagesTold == ProgressSpec => []MessagesToldOnce
<1>1. ASSUME ContextInv PROVE MessagesToldOnce
  <2>1. Told(Conversation)
    BY <1>1, ConversationExists, ConversationChosen
  <2>2. /\ Len(contexts) \in Nat /\ DOMAIN contexts = 1..Len(contexts)
        /\ \A s \in 1..Len(contexts) : Upto(s) = contexts[s].c.upto
    BY <1>1, ContextsTyped, LenProperties DEF ContextInv, ContextsFit
  <2>3. ASSUME NEW s \in DOMAIN contexts
        PROVE  Conversation[s] = [i \in 1..contexts[s].heard |-> i]
    <3>1. s \in 1..Len(contexts) /\ s \in 0..Len(contexts)
      BY <2>2
    <3>2. Conversation[s] = Numbers(Upto(s))
      BY <1>1, <2>1, <3>1, ConversationNumbers
    <3>3. Upto(s) = contexts[s].heard
      BY <1>1, <2>2, <3>1 DEF ContextInv, ContextsFit
    <3> QED BY <3>2, <3>3 DEF Numbers
  <2> QED BY <2>3 DEF MessagesToldOnce
<1> QED BY <1>1, ContextInit, ContextNext, PTL DEF ProgressSpec

-----------------------------------------------------------------------------
(* The count of batches that brought nothing *)

Distinct(list) == \A i, j \in 1..Len(list) : list[i] = list[j] => i = j

\* A window of what has been seen: all of it as long as there is room.
Fits(list, seen, capacity) ==
  /\ IsSeq(list) /\ Len(list) <= capacity /\ Distinct(list)
  /\ IsFiniteSet(seen) /\ Range(list) \subseteq seen
  /\ Cardinality(seen) <= capacity =>
       Range(list) = seen /\ Len(list) = Cardinality(seen)

\* The trees of a run that has observed nothing are where it began.
TreesOf(x) == IF x.trees = << >> THEN <<Baseline>> ELSE x.trees

SeenFits(x, seen) ==
  /\ Fits(x.evidence, Facts(seen), EvidenceWindow)
  /\ Fits(TreesOf(x), Places(seen), TreeWindow)

\* The settled rows of a step come first.
StepFits(x) ==
  /\ DOMAIN x = {"finish", "rows"} /\ IsSeq(x.rows)
  /\ \A i \in 1..Len(x.rows) : x.rows[i].kind \in Kinds \cup {"verify"}
  /\ \E n \in 0..Len(x.rows) : \A i \in 1..Len(x.rows) : Settled(x.rows[i]) <=> i <= n

FirstSettled == Len(steps) > 0 /\ 1 <= Len(steps[1].rows) /\ Settled(steps[1].rows[1])

\* What the answers of the model have left.
RowsFit ==
  /\ \A s \in 1..Len(steps) : StepFits(steps[s])
  /\ Stage = "execute_effects" =>
       /\ Len(steps) > 0
       /\ \E i \in 1..Len(steps[Len(steps)].rows) : ~Settled(steps[Len(steps)].rows[i])
  /\ Stage = "verify" => Len(steps) > 0 /\ steps[Len(steps)].rows = << >>
  /\ IF FirstSettled THEN steps[1].rows[1].before = Baseline ELSE run.tree = Baseline

\* Which steps have been checked, and when.
CheckedFits ==
  /\ run.step = Len(contexts) /\ run.progress.checked \in Nat
  /\ run.progress.checked <= Len(steps) /\ run.progress.checked <= run.step
  /\ run.status = "running" =>
       run.progress.checked = IF run.step = 0 THEN 0 ELSE run.step - 1
  /\ run.progress.checked < Len(contexts) =>
       contexts[run.progress.checked + 1].heard = run.progress.seq
  /\ run.progress.checked > 0 => FirstSettled /\ run.progress.trees # << >>

WindowsFit == SeenFits(run.progress, Past(Shown, run.progress.checked + 1))

HistoryInv == CheckedFits /\ RowsFit /\ WindowsFit /\ CountTrue(Shown)
-----------------------------------------------------------------------------
(* The windows *)

\* Append keeps what is there and adds one.
LEMMA AppendedAt ==
  ASSUME NEW s, IsSeq(s), NEW e
  PROVE  /\ IsSeq(Append(s, e)) /\ Len(Append(s, e)) = Len(s) + 1
         /\ \A i \in 1..Len(s) : Append(s, e)[i] = s[i]
         /\ Append(s, e)[Len(s) + 1] = e
<1>1. PICK S : S = {s[i] : i \in 1..Len(s)} \cup {e}
  OBVIOUS
<1>2. s \in [1..Len(s) -> S] /\ e \in S
  BY <1>1 DEF IsSeq
<1>3. s \in Seq(S)
  BY <1>2, SeqDef DEF IsSeq
<1> QED BY <1>2, <1>3, AppendProperties, SeqAppended

\* The last elements of a sequence.
LEMMA LastOf ==
  ASSUME NEW s, IsSeq(s), NEW l, l = Len(s), NEW n, n \in 1..l,
         NEW k, k = l - n + 1, NEW t, t = SubSeq(s, k, l)
  PROVE  /\ Len(t) = n /\ \A i \in 1..n : t[i] = s[l - n + i]
<1>1. l \in Nat /\ n \in Nat /\ l \in Int /\ k \in Int /\ k <= l /\ l - k + 1 = n
  BY DEF IsSeq
<1>2. PICK S : S = {s[i] : i \in k..l}
  OBVIOUS
<1>3. \A i \in k..l : s[i] \in S
  BY <1>2
<1>4. /\ t \in Seq(S) /\ Len(t) = l - k + 1
      /\ \A i \in 1..(l - k + 1) : t[i] = s[k + i - 1]
  BY <1>1, <1>3, SubSeqProperties
<1>5. Len(t) = n /\ \A i \in 1..n : t[i] = s[k + i - 1]
  BY <1>1, <1>4
<1>6. \A i \in 1..n : k + i - 1 = l - n + i
  BY <1>1
<1> QED BY <1>4, <1>5, <1>6

\* What a sequence holds, by index.
LEMMA RangeOf ==
  ASSUME NEW s, IsSeq(s)
  PROVE  Range(s) = {s[i] : i \in 1..Len(s)}
<1>1. DOMAIN s = 1..Len(s)
  BY DEF IsSeq
<1> QED BY <1>1 DEF Range

\* The less of two numbers.
LEMMA MinOfTwo ==
  ASSUME NEW a \in Nat, NEW b \in Nat, NEW n, n = Min({a, b})
  PROVE  n \in {a, b} /\ n <= a /\ n <= b
<1>1. \E x \in {a, b} : \A y \in {a, b} : x <= y
  <2>1. CASE a <= b
    BY <2>1
  <2>2. CASE b <= a
    BY <2>2
  <2> QED BY <2>1, <2>2
<1>2. n = CHOOSE x \in {a, b} : \A y \in {a, b} : x <= y
  BY DEF Min
<1>3. n \in {a, b} /\ \A y \in {a, b} : n <= y
  BY <1>1, <1>2
<1> QED BY <1>3

\* remember keeps a window of what has been seen, and adds to it.
LEMMA RememberFits ==
  ASSUME NEW list, NEW seen, NEW capacity \in Nat \ {0}, NEW v,
         Fits(list, seen, capacity)
  PROVE  /\ Fits(remember(list, v, capacity), seen \cup {v}, capacity)
         /\ remember(list, v, capacity) # << >>
<1>1. /\ IsSeq(list) /\ Len(list) \in Nat /\ Len(list) <= capacity /\ Distinct(list)
      /\ IsFiniteSet(seen) /\ Range(list) \subseteq seen
      /\ Cardinality(seen) \in Nat /\ Range(list) = {list[i] : i \in 1..Len(list)}
  BY FS_CardinalityType, RangeOf DEF Fits, IsSeq
<1>2. CASE Contains(list, v)
  <2>1. v \in Range(list)
    BY <1>1, <1>2 DEF Contains
  <2>2. seen \cup {v} = seen
    BY <1>1, <2>1
  <2>3. remember(list, v, capacity) = list
    BY <1>2 DEF remember
  <2>4. list # << >>
    BY <1>1, <1>2 DEF Contains
  <2> QED BY <2>2, <2>3, <2>4
<1>3. CASE ~Contains(list, v)
  <2>1. PICK longer : longer = Append(list, v)
    OBVIOUS
  <2>2. PICK n : n = Min({capacity, Len(longer)})
    OBVIOUS
  <2>3. PICK t : t = SubSeq(longer, Len(longer) - n + 1, Len(longer))
    OBVIOUS
  <2>4. remember(list, v, capacity) = t
    BY <1>3, <2>1, <2>2, <2>3 DEF remember
  <2>5. PICK m \in Nat : m = Len(list)
    BY <1>1
  <2>6. /\ IsSeq(longer) /\ Len(longer) = m + 1 /\ longer[m + 1] = v
        /\ \A i \in 1..m : longer[i] = list[i]
    BY <1>1, <2>1, <2>5, AppendedAt
  <2>7. n \in 1..(m + 1) /\ n <= capacity /\ (m + 1 <= capacity => n = m + 1)
    <3>1. n \in {capacity, m + 1} /\ n <= capacity /\ n <= m + 1
      BY <2>2, <2>6, MinOfTwo
    <3> QED BY <3>1
  <2>8. IsSeq(t) /\ Len(t) = n /\ \A i \in 1..n : t[i] = longer[m + 1 - n + i]
    <3>1. PICK l : l = Len(longer)
      OBVIOUS
    <3>2. PICK k : k = l - n + 1
      OBVIOUS
    <3>3. l = m + 1
      BY <2>6, <3>1
    <3>4. IsSeq(longer)
      BY <2>6
    <3>5. n \in 1..l
      BY <2>7, <3>3
    <3>6. t = SubSeq(longer, k, l)
      BY <2>3, <3>1, <3>2
    <3>7. Len(t) = n
      BY <3>1, <3>2, <3>4, <3>5, <3>6, LastOf
    <3>8. \A i \in 1..n : t[i] = longer[l - n + i]
      BY <3>1, <3>2, <3>4, <3>5, <3>6, LastOf
    <3>9. IsSeq(t)
      <4>1. PICK S : S = {longer[i] : i \in k..l}
        OBVIOUS
      <4>2. \A i \in k..l : longer[i] \in S
        BY <4>1
      <4>3. k \in Int /\ l \in Int
        BY <3>2, <3>3, <3>5
      <4>4. t \in Seq(S)
        BY <3>6, <4>2, <4>3, SubSeqProperties
      <4> QED BY <4>4, LenProperties DEF IsSeq
    <3> QED BY <3>3, <3>7, <3>8, <3>9
  <2>9. \A i \in 1..m : list[i] # v
    BY <1>3, <2>5 DEF Contains
  <2>10. Distinct(longer)
    <3>1. \A i, j \in 1..m : longer[i] = longer[j] => i = j
      BY <1>1, <2>5, <2>6 DEF Distinct
    <3>2. \A i \in 1..m : longer[i] # longer[m + 1]
      BY <2>6, <2>9
    <3>3. \A i \in 1..(m + 1) : i \in 1..m \/ i = m + 1
      OBVIOUS
    <3> QED BY <2>6, <3>1, <3>2, <3>3 DEF Distinct
  <2>11. \A i \in 1..n : m + 1 - n + i \in 1..(m + 1)
    BY <2>7
  <2>12. Distinct(t)
    <3>1. SUFFICES ASSUME NEW i \in 1..n, NEW j \in 1..n, t[i] = t[j] PROVE i = j
      BY <2>8 DEF Distinct
    <3>2. longer[m + 1 - n + i] = longer[m + 1 - n + j]
      BY <2>8, <3>1
    <3>3. m + 1 - n + i = m + 1 - n + j
      BY <2>6, <2>10, <2>11, <3>2 DEF Distinct
    <3> QED BY <2>7, <3>3
  <2>13. \A i \in 1..(m + 1) : longer[i] \in seen \cup {v}
    BY <1>1, <2>5, <2>6
  <2>14. Range(t) = {t[i] : i \in 1..n}
    BY <2>8, RangeOf
  <2>15. Range(t) \subseteq seen \cup {v}
    BY <2>8, <2>11, <2>13, <2>14
  <2>16. /\ IsFiniteSet(seen \cup {v})
         /\ Cardinality(seen \cup {v}) = IF v \in seen THEN Cardinality(seen) ELSE Cardinality(seen) + 1
    BY <1>1, FS_AddElement
  <2>17. ASSUME Cardinality(seen \cup {v}) <= capacity
         PROVE  Range(t) = seen \cup {v} /\ Len(t) = Cardinality(seen \cup {v})
    <3>1. Cardinality(seen) <= capacity
      BY <1>1, <2>16, <2>17
    <3>2. Range(list) = seen /\ m = Cardinality(seen)
      BY <2>5, <3>1 DEF Fits
    <3>3. v \notin seen
      BY <1>1, <2>5, <2>9, <3>2
    <3>4. Cardinality(seen \cup {v}) = m + 1 /\ n = m + 1
      BY <2>7, <2>16, <2>17, <3>2, <3>3
    <3>5. \A i \in 1..(m + 1) : t[i] = longer[i]
      BY <2>8, <3>4
    <3>6. ASSUME NEW x \in seen \cup {v} PROVE x \in Range(t)
      <4>1. CASE x = v
        BY <2>6, <2>14, <3>4, <3>5, <4>1
      <4>2. CASE x \in seen
        <5>1. PICK i \in 1..m : x = list[i]
          BY <1>1, <2>5, <3>2, <4>2
        <5>2. i \in 1..(m + 1) /\ t[i] = x
          BY <2>6, <3>5, <5>1
        <5> QED BY <2>14, <3>4, <5>2
      <4> QED BY <4>1, <4>2
    <3> QED BY <2>8, <2>15, <3>4, <3>6
  <2>18. t # << >>
    BY <2>7, <2>8
  <2> QED BY <2>4, <2>7, <2>8, <2>12, <2>15, <2>16, <2>17, <2>18 DEF Fits
<1> QED BY <1>2, <1>3
-----------------------------------------------------------------------------
(* What one observation, and a batch of them, does to the windows *)

\* What is seen after one more observation.
LEMMA SeenAfter ==
  ASSUME NEW seen, NEW o, NEW next, next = seen \cup {o}, o.indeterminate \in BOOLEAN
  PROVE  /\ o.indeterminate => Facts(next) = Facts(seen)
         /\ ~o.indeterminate => Facts(next) = Facts(seen) \cup {o.fingerprint}
         /\ Places(next) = Places(seen) \cup {o.after}
<1>1. CASE o.indeterminate
  <2>1. {x \in next : ~x.indeterminate} = {x \in seen : ~x.indeterminate}
    BY <1>1
  <2> QED BY <1>1, <2>1 DEF Facts, Places
<1>2. CASE ~o.indeterminate
  <2>1. {x \in next : ~x.indeterminate} = {x \in seen : ~x.indeterminate} \cup {o}
    BY <1>2
  <2> QED BY <1>2, <2>1 DEF Facts, Places
<1> QED BY <1>1, <1>2

\* A batch has shown something new, or something that cannot be compared.
Moved(x) == x.novel \/ x.uncertain

\* A window holds only what was seen, and all of it while there is room.
LEMMA WindowSays ==
  ASSUME NEW list, NEW seen, NEW capacity, NEW v, Fits(list, seen, capacity)
  PROVE  /\ Contains(list, v) => v \in seen
         /\ Cardinality(seen) <= capacity /\ v \in seen => Contains(list, v)
<1>1. Range(list) = {list[i] : i \in 1..Len(list)} /\ Range(list) \subseteq seen
  BY RangeOf DEF Fits
<1>2. Cardinality(seen) <= capacity => Range(list) = seen
  BY DEF Fits
<1>3. Contains(list, v) <=> v \in Range(list)
  BY <1>1 DEF Contains
<1> QED BY <1>1, <1>2, <1>3

\* Observe keeps the windows right, and moves exactly when the observation is not
\* known: always if it does not move, and while the windows have room if it does.
LEMMA ObserveStep ==
  ASSUME NEW x, NEW o, NEW seen, SeenFits(x, seen),
         x.novel \in BOOLEAN, x.uncertain \in BOOLEAN, o.indeterminate \in BOOLEAN,
         x.trees = << >> => o.before = Baseline,
         NEW y, y = Observe(x, o), NEW next, next = seen \cup {o}
  PROVE  /\ SeenFits(y, next) /\ y.trees # << >>
         /\ y.novel \in BOOLEAN /\ y.uncertain \in BOOLEAN
         /\ ~Moved(y) => ~Moved(x) /\ Known(o, seen)
         /\ Moved(y) /\ AllRemembered(seen) => Moved(x) \/ ~Known(o, seen)
<1>1. EvidenceWindow \in Nat \ {0} /\ TreeWindow \in Nat \ {0}
  BY ProgressAssumption
<1>2. PICK start : start = IF x.trees = << >> THEN <<o.before>> ELSE x.trees
  OBVIOUS
<1>3. start = TreesOf(x)
  BY <1>2 DEF TreesOf
<1>4. /\ Fits(x.evidence, Facts(seen), EvidenceWindow)
      /\ Fits(start, Places(seen), TreeWindow)
  BY <1>3 DEF SeenFits
<1>5. PICK newTree \in BOOLEAN : newTree = ~Contains(start, o.after)
  OBVIOUS
<1>6. PICK newFact \in BOOLEAN :
        newFact = (~o.indeterminate /\ ~Contains(x.evidence, o.fingerprint))
  OBVIOUS
<1>7. /\ y.trees = remember(start, o.after, TreeWindow)
      /\ y.evidence = IF o.indeterminate THEN x.evidence
                      ELSE remember(x.evidence, o.fingerprint, EvidenceWindow)
      /\ y.novel = (x.novel \/ newTree \/ newFact)
      /\ y.uncertain = (x.uncertain \/ o.indeterminate)
  BY <1>2, <1>5, <1>6 DEF Observe
<1>8. /\ Fits(y.trees, Places(seen) \cup {o.after}, TreeWindow) /\ y.trees # << >>
  BY <1>1, <1>4, <1>7, RememberFits
<1>9. Fits(y.evidence, Facts(next), EvidenceWindow)
  <2>1. CASE o.indeterminate
    <3>1. Facts(next) = Facts(seen)
      BY <2>1, SeenAfter
    <3> QED BY <1>4, <1>7, <2>1, <3>1
  <2>2. CASE ~o.indeterminate
    <3>1. Facts(next) = Facts(seen) \cup {o.fingerprint}
      BY <2>2, SeenAfter
    <3>2. y.evidence = remember(x.evidence, o.fingerprint, EvidenceWindow)
      BY <1>7, <2>2
    <3>3. Fits(y.evidence, Facts(seen) \cup {o.fingerprint}, EvidenceWindow)
      BY <1>1, <1>4, <3>2, RememberFits
    <3> QED BY <3>1, <3>3
  <2> QED BY <2>1, <2>2
<1>10. SeenFits(y, next)
  <2>1. Places(next) = Places(seen) \cup {o.after}
    BY SeenAfter
  <2>2. TreesOf(y) = y.trees
    BY <1>8 DEF TreesOf
  <2> QED BY <1>8, <1>9, <2>1, <2>2 DEF SeenFits
<1>11. Moved(y) <=> Moved(x) \/ newTree \/ newFact \/ o.indeterminate
  BY <1>7 DEF Moved
<1>12. y.novel \in BOOLEAN /\ y.uncertain \in BOOLEAN
  BY <1>7
<1>13. /\ ~newTree => o.after \in Places(seen)
       /\ newTree /\ AllRemembered(seen) => o.after \notin Places(seen)
  BY <1>4, <1>5, WindowSays DEF AllRemembered
<1>14. /\ ~newFact /\ ~o.indeterminate => o.fingerprint \in Facts(seen)
       /\ newFact /\ AllRemembered(seen) => o.fingerprint \notin Facts(seen)
  <2>1. PICK list, facts : list = x.evidence /\ facts = Facts(seen)
    OBVIOUS
  <2>2. Fits(list, facts, EvidenceWindow)
    BY <1>4, <2>1
  <2>3. /\ Contains(list, o.fingerprint) => o.fingerprint \in facts
        /\ Cardinality(facts) <= EvidenceWindow /\ o.fingerprint \in facts =>
             Contains(list, o.fingerprint)
    BY <2>2, WindowSays
  <2> QED BY <1>6, <2>1, <2>3 DEF AllRemembered
<1>15. ~Moved(y) => ~Moved(x) /\ Known(o, seen)
  BY <1>11, <1>13, <1>14 DEF Known
<1>16. Moved(y) /\ AllRemembered(seen) => Moved(x) \/ ~Known(o, seen)
  BY <1>11, <1>13, <1>14 DEF Known
<1> QED BY <1>8, <1>10, <1>12, <1>15, <1>16
\* What has been seen by the i-th observation of a batch.
SeenBy(past, obs, i) == past \cup {obs[j] : j \in 1..i}

\* The recursion of ObserveAll, and a function that satisfies it.
Look(p, obs, g, i) ==
  IF i = 0 THEN [trees |-> p.trees, evidence |-> p.evidence,
                 novel |-> FALSE, uncertain |-> FALSE]
  ELSE Observe(g[i - 1], obs[i])

Looks(p, obs, n, g) == g = [i \in 0..n |-> Look(p, obs, g, i)]

\* By the least number of observations for which there would be no such function.
LEMMA LooksExist ==
  ASSUME NEW p, NEW obs, NEW n \in Nat
  PROVE  \E g : Looks(p, obs, n, g)
<1> DEFINE T == {m \in Nat : ~\E g : Looks(p, obs, m, g)}
<1>1. ASSUME T # {} PROVE FALSE
  <2>1. PICK m \in T : \A k \in T : ~(k < m)
    <3>1. T \subseteq Nat
      OBVIOUS
    <3> HIDE DEF T
    <3> QED BY <1>1, <3>1, LeastNumber
  <2>2. m \in Nat /\ ~\E g : Looks(p, obs, m, g)
    BY <2>1
  <2>3. CASE m = 0
    <3>1. PICK g : g = [i \in 0..0 |-> Look(p, obs, << >>, i)]
      OBVIOUS
    <3>2. \A i \in 0..0 : Look(p, obs, g, i) = Look(p, obs, << >>, i)
      BY DEF Look
    <3>3. Looks(p, obs, m, g)
      BY <2>3, <3>1, <3>2 DEF Looks
    <3> QED BY <2>2, <3>3
  <2>4. CASE m # 0
    <3>1. m - 1 \in Nat /\ m - 1 < m
      BY <2>2, <2>4
    <3>2. PICK g : Looks(p, obs, m - 1, g)
      BY <2>1, <3>1
    <3>3. PICK h : h = [i \in 0..m |-> Look(p, obs, g, i)]
      OBVIOUS
    <3>4. ASSUME NEW i \in 0..m PROVE Look(p, obs, h, i) = Look(p, obs, g, i)
      <4>1. CASE i = 0
        BY <4>1 DEF Look
      <4>2. CASE i # 0
        <5>1. i - 1 \in 0..(m - 1) /\ i - 1 \in 0..m
          BY <2>2, <4>2
        <5>2. h[i - 1] = Look(p, obs, g, i - 1)
          BY <3>3, <5>1
        <5>3. g[i - 1] = Look(p, obs, g, i - 1)
          BY <3>2, <5>1 DEF Looks
        <5> QED BY <4>2, <5>2, <5>3 DEF Look
      <4> QED BY <4>1, <4>2
    <3>5. [i \in 0..m |-> Look(p, obs, h, i)] = [i \in 0..m |-> Look(p, obs, g, i)]
      BY <3>4
    <3>6. Looks(p, obs, m, h)
      BY <3>3, <3>5 DEF Looks
    <3> QED BY <2>2, <3>6
  <2> QED BY <2>3, <2>4
<1> QED BY <1>1

\* ObserveAll is the last value of such a function.
LEMMA ObserveAllReads ==
  ASSUME NEW p, NEW obs, Len(obs) \in Nat
  PROVE  \E g : Looks(p, obs, Len(obs), g) /\ ObserveAll(p, obs) = g[Len(obs)]
<1>1. PICK h : h = CHOOSE g : Looks(p, obs, Len(obs), g)
  OBVIOUS
<1>2. ObserveAll(p, obs) = h[Len(obs)]
  BY <1>1 DEF ObserveAll, Looks, Look
<1>3. Looks(p, obs, Len(obs), h)
  BY <1>1, LooksExist
<1> QED BY <1>2, <1>3

\* Room for what is seen is room for what was seen before.
LEMMA RoomBefore ==
  ASSUME NEW seen, NEW less, less \subseteq seen, AllRemembered(seen),
         IsFiniteSet(Facts(seen)), IsFiniteSet(Places(seen))
  PROVE  AllRemembered(less)
<1>1. Facts(less) \subseteq Facts(seen) /\ Places(less) \subseteq Places(seen)
  BY DEF Facts, Places
<1>2. /\ IsFiniteSet(Facts(less)) /\ Cardinality(Facts(less)) <= Cardinality(Facts(seen))
      /\ IsFiniteSet(Places(less)) /\ Cardinality(Places(less)) <= Cardinality(Places(seen))
  BY <1>1, FS_Subset
<1>3. /\ Cardinality(Facts(less)) \in Nat /\ Cardinality(Facts(seen)) \in Nat
      /\ Cardinality(Places(less)) \in Nat /\ Cardinality(Places(seen)) \in Nat
      /\ EvidenceWindow \in Nat /\ TreeWindow \in Nat
  BY <1>2, FS_CardinalityType, ProgressAssumption
<1>4. Cardinality(Facts(seen)) <= EvidenceWindow /\ Cardinality(Places(seen)) <= TreeWindow
  BY DEF AllRemembered
<1>5. Cardinality(Facts(less)) <= EvidenceWindow /\ Cardinality(Places(less)) <= TreeWindow
  BY <1>2, <1>3, <1>4
<1> QED BY <1>5 DEF AllRemembered

\* What ObserveAll has after i observations.
Looked(p, obs, past, x, i) ==
  /\ SeenFits(x, SeenBy(past, obs, i))
  /\ i = 0 => x.trees = p.trees
  /\ i # 0 => x.trees # << >>
  /\ x.novel \in BOOLEAN /\ x.uncertain \in BOOLEAN
  /\ ~Moved(x) => \A j \in 1..i : Known(obs[j], SeenBy(past, obs, j - 1))
  /\ Moved(x) => \E j \in 1..i : \/ ~Known(obs[j], SeenBy(past, obs, j - 1))
                                 \/ ~AllRemembered(SeenBy(past, obs, j - 1))

\* One observation more.
LEMMA LookedStep ==
  ASSUME NEW p, NEW obs, NEW past, NEW x, NEW i \in Nat \ {0},
         Looked(p, obs, past, x, i - 1), obs[i].indeterminate \in BOOLEAN,
         i = 1 /\ p.trees = << >> => obs[1].before = Baseline
  PROVE  Looked(p, obs, past, Observe(x, obs[i]), i)
<1>1. PICK seen : seen = SeenBy(past, obs, i - 1)
  OBVIOUS
<1>2. PICK next : next = SeenBy(past, obs, i)
  OBVIOUS
<1>3. next = seen \cup {obs[i]}
  <2>1. 1..i = (1..(i - 1)) \cup {i}
    OBVIOUS
  <2>2. {obs[j] : j \in 1..i} = {obs[j] : j \in 1..(i - 1)} \cup {obs[i]}
    BY <2>1
  <2> QED BY <1>1, <1>2, <2>2 DEF SeenBy
<1>4. PICK y : y = Observe(x, obs[i])
  OBVIOUS
<1>5. PICK o : o = obs[i]
  OBVIOUS
<1>6. /\ SeenFits(x, seen) /\ x.novel \in BOOLEAN /\ x.uncertain \in BOOLEAN
      /\ x.trees = << >> => o.before = Baseline
      /\ o.indeterminate \in BOOLEAN /\ next = seen \cup {o} /\ y = Observe(x, o)
  BY <1>1, <1>3, <1>4, <1>5 DEF Looked
<1>7. /\ SeenFits(y, next) /\ y.trees # << >>
      /\ y.novel \in BOOLEAN /\ y.uncertain \in BOOLEAN
      /\ ~Moved(y) => ~Moved(x) /\ Known(o, seen)
      /\ Moved(y) /\ AllRemembered(seen) => Moved(x) \/ ~Known(o, seen)
  BY <1>6, ObserveStep
<1>8. \A j \in 1..i : j \in 1..(i - 1) \/ j = i
  OBVIOUS
<1>9. ~Moved(y) => \A j \in 1..i : Known(obs[j], SeenBy(past, obs, j - 1))
  BY <1>1, <1>5, <1>7, <1>8 DEF Looked
<1>10. Moved(y) => \E j \in 1..i : \/ ~Known(obs[j], SeenBy(past, obs, j - 1))
                                   \/ ~AllRemembered(SeenBy(past, obs, j - 1))
  <2>1. CASE Moved(x)
    <3>1. \A j \in 1..(i - 1) : j \in 1..i
      OBVIOUS
    <3> QED BY <2>1, <3>1 DEF Looked
  <2>2. CASE ~Moved(x)
    <3>1. i \in 1..i
      OBVIOUS
    <3>2. Moved(y) => ~Known(obs[i], SeenBy(past, obs, i - 1)) \/ ~AllRemembered(SeenBy(past, obs, i - 1))
      BY <1>1, <1>5, <1>7, <2>2
    <3> QED BY <3>1, <3>2
  <2> QED BY <2>1, <2>2
<1> QED BY <1>2, <1>4, <1>7, <1>9, <1>10 DEF Looked

\* What a batch does to the windows, and when it has moved.
LEMMA BatchLooked ==
  ASSUME NEW p, NEW obs, NEW past, Len(obs) \in Nat, SeenFits(p, past),
         \A i \in 1..Len(obs) : obs[i].indeterminate \in BOOLEAN,
         p.trees = << >> => obs[1].before = Baseline
  PROVE  Looked(p, obs, past, ObserveAll(p, obs), Len(obs))
<1>1. PICK n \in Nat : n = Len(obs)
  OBVIOUS
<1>2. PICK g : Looks(p, obs, n, g) /\ ObserveAll(p, obs) = g[n]
  BY <1>1, ObserveAllReads
<1>3. \A i \in 0..n : g[i] = Look(p, obs, g, i)
  BY <1>2 DEF Looks
<1>4. Looked(p, obs, past, g[0], 0)
  <2>1. /\ g[0].trees = p.trees /\ g[0].evidence = p.evidence
        /\ g[0].novel = FALSE /\ g[0].uncertain = FALSE
    BY <1>1, <1>3 DEF Look
  <2>2. SeenBy(past, obs, 0) = past
    BY DEF SeenBy
  <2>3. PICK x : x = g[0]
    OBVIOUS
  <2>4. SeenFits(x, SeenBy(past, obs, 0))
    BY <2>1, <2>2, <2>3 DEF SeenFits, TreesOf
  <2>5. \A j \in 1..0 : FALSE
    OBVIOUS
  <2>6. ~Moved(x)
    BY <2>1, <2>3 DEF Moved
  <2>7. Looked(p, obs, past, x, 0)
    BY <2>1, <2>3, <2>4, <2>5, <2>6 DEF Looked
  <2> QED BY <2>3, <2>7
<1> DEFINE T == {i \in 0..n : ~Looked(p, obs, past, g[i], i)}
<1>5. ASSUME T # {} PROVE FALSE
  <2>1. PICK i \in T : \A k \in T : ~(k < i)
    <3>1. T \subseteq Nat
      OBVIOUS
    <3> HIDE DEF T
    <3> QED BY <1>5, <3>1, LeastNumber
  <2>2. i \in 0..n /\ ~Looked(p, obs, past, g[i], i)
    BY <2>1
  <2>3. i # 0
    BY <1>4, <2>2
  <2>4. i \in Nat \ {0} /\ i \in 1..n /\ i - 1 \in 0..n /\ i - 1 < i
    BY <2>2, <2>3
  <2>5. PICK x : x = g[i - 1]
    OBVIOUS
  <2>6. Looked(p, obs, past, x, i - 1)
    BY <2>1, <2>4, <2>5
  <2>7. g[i] = Observe(x, obs[i])
    BY <1>3, <2>2, <2>3, <2>5 DEF Look
  <2>8. Looked(p, obs, past, Observe(x, obs[i]), i)
    BY <1>1, <2>4, <2>6, LookedStep
  <2> QED BY <2>2, <2>7, <2>8
<1>6. Looked(p, obs, past, g[n], n)
  BY <1>5
<1> QED BY <1>1, <1>2, <1>6
-----------------------------------------------------------------------------
(* What the checked steps have shown does not change *)

\* A step that checks nothing, and leaves the rows of the checked steps alone.
LEMMA QuietHistory ==
  ASSUME HistoryInv, RowsFit', UNCHANGED contexts,
         run'.progress = run.progress, run'.step = run.step,
         run'.status = "running" => run.status = "running",
         Len(steps) \in Nat, Len(steps') \in Nat, Len(steps) <= Len(steps'),
         \A s \in 1..run.progress.checked : steps'[s] = steps[s]
  PROVE  HistoryInv'
<1>1. PICK n \in Nat : n = run.progress.checked
  BY DEF HistoryInv, CheckedFits
<1>2. n <= Len(steps) /\ n <= Len(steps')
  BY <1>1 DEF HistoryInv, CheckedFits
<1>3. Shown' = Shown
  BY <1>1 DEF Shown
<1>4. PICK h : h = Shown
  OBVIOUS
<1>5. WindowsFit'
  BY <1>3 DEF HistoryInv, WindowsFit
<1>6. CountTrue(h)'
  BY <1>4 DEF HistoryInv, CountTrue, Repeats, HeardAfter
<1>7. CountTrue(Shown)'
  BY <1>3, <1>4, <1>6 DEF CountTrue, Repeats, HeardAfter
<1>8. n > 0 => FirstSettled'
  <2>1. n > 0 => steps'[1] = steps[1] /\ Len(steps') > 0
    BY <1>1, <1>2
  <2> QED BY <1>1, <2>1 DEF HistoryInv, CheckedFits, FirstSettled
<1>9. CheckedFits'
  BY <1>1, <1>2, <1>8 DEF HistoryInv, CheckedFits
<1> QED BY <1>5, <1>7, <1>9 DEF HistoryInv

\* The rows stay as they are, and the run does not come to a stage with calls.
LEMMA RowsKept ==
  ASSUME RowsFit, UNCHANGED steps, run'.tree = run.tree,
         Stage' = Stage \/ Stage' \notin {"execute_effects", "verify"}
  PROVE  RowsFit'
BY DEF RowsFit, FirstSettled

\* A step that leaves rows and contexts alone.
LEMMA StillHistory ==
  ASSUME ContextInv, HistoryInv, UNCHANGED <<steps, contexts>>,
         run'.progress = run.progress, run'.step = run.step, run'.tree = run.tree,
         run'.status = "running" => run.status = "running",
         Stage' = Stage \/ Stage' \notin {"execute_effects", "verify"}
  PROVE  HistoryInv'
<1>1. RowsFit'
  BY RowsKept DEF HistoryInv
<1>2. Len(steps) \in Nat /\ Len(steps) <= Len(steps')
  BY DEF ContextInv, RowsTyped, IsSeq
<1> QED BY <1>1, <1>2, QuietHistory

\* Leases, control and messages, and what a worker builds, show nothing new.
LEMMA ControlHistory ==
  ASSUME ContextInv, HistoryInv,
         \/ LeaseExpires \/ CancelRun \/ \E k \in Keys : AddMessage(k)
         \/ \E w \in Workers :
              \/ Claim(w) \/ Leave(w) \/ Adopt(w) \/ ConfirmStop(w)
              \/ LoadRun(w) \/ BuildContext(w) \/ ContextProgress(w) \/ BuildFails(w)
              \/ ContextRefused(w)
  PROVE  HistoryInv'
<1>1. DOMAIN run = RunKeys
  BY DEF ContextInv, RowsTyped
<1>2. CASE run' = run /\ UNCHANGED <<steps, contexts>>
  BY <1>2, StillHistory DEF Stage
<1>3. CASE LeaseExpires
  <2>1. /\ UNCHANGED <<steps, contexts>> /\ run'.status = run.status
        /\ run'.progress = run.progress /\ run'.step = run.step /\ run'.tree = run.tree
        /\ Stage' = Stage
    BY <1>1, <1>3 DEF LeaseExpires, RunKeys, Stage
  <2> QED BY <2>1, StillHistory
<1>4. CASE CancelRun
  <2>1. /\ UNCHANGED <<steps, contexts>> /\ run'.status = "cancel_requested"
        /\ run'.progress = run.progress /\ run'.step = run.step /\ run'.tree = run.tree
        /\ Stage' = Stage
    BY <1>1, <1>4 DEF CancelRun, Commit, stop, RunKeys, Stage
  <2> QED BY <2>1, StillHistory
<1>5. ASSUME NEW w \in Workers, Claim(w) PROVE HistoryInv'
  <2>1. /\ UNCHANGED <<steps, contexts>> /\ run'.status = run.status
        /\ run'.progress = run.progress /\ run'.step = run.step /\ run'.tree = run.tree
        /\ Stage' = Stage
    BY <1>1, <1>5 DEF Claim, Commit, RunKeys, Stage
  <2> QED BY <2>1, StillHistory
<1>6. ASSUME NEW w \in Workers, Adopt(w) PROVE HistoryInv'
  <2>1. /\ UNCHANGED <<steps, contexts>> /\ run'.status = run.status
        /\ run'.progress = run.progress /\ run'.step = run.step /\ run'.tree = run.tree
        /\ run'.stage = run.resume /\ run'.resume = "none" /\ run.stage = "adopt_workspace"
    BY <1>1, <1>6 DEF Adopt, At, Commit, RunKeys
  <2>2. Stage' = Stage \/ Stage' \notin {"execute_effects", "verify"}
    BY <2>1 DEF Stage
  <2> QED BY <2>1, <2>2, StillHistory
<1>7. ASSUME NEW w \in Workers, ConfirmStop(w) PROVE HistoryInv'
  <2>1. /\ UNCHANGED <<steps, contexts>> /\ run'.status = "ended"
        /\ run'.progress = run.progress /\ run'.step = run.step /\ run'.tree = run.tree
        /\ Stage' = "stopped"
    BY <1>1, <1>7 DEF ConfirmStop, Commit, RunKeys, Stage
  <2> QED BY <2>1, StillHistory
<1>8. ASSUME NEW w \in Workers, BuildFails(w) PROVE HistoryInv'
  <2>1. /\ UNCHANGED <<steps, contexts>> /\ run'.status = "cancel_requested"
        /\ run'.progress = run.progress /\ run'.step = run.step /\ run'.tree = run.tree
        /\ Stage' = Stage
    BY <1>1, <1>8 DEF BuildFails, Commit, stop, RunKeys, Stage
  <2> QED BY <2>1, StillHistory
<1>9. ASSUME NEW k \in Keys, AddMessage(k) PROVE HistoryInv'
  BY <1>2, <1>9 DEF AddMessage
<1>10. ASSUME NEW w \in Workers,
              \/ Leave(w) \/ LoadRun(w) \/ BuildContext(w) \/ ContextProgress(w)
              \/ ContextRefused(w)
       PROVE  HistoryInv'
  <2>1. run' = run /\ UNCHANGED <<steps, contexts>>
    BY <1>10 DEF Leave, LoadRun, BuildContext, ContextProgress, ContextRefused
  <2> QED BY <1>2, <2>1
<1> QED BY <1>3, <1>4, <1>5, <1>6, <1>7, <1>8, <1>9, <1>10
-----------------------------------------------------------------------------
(* The rows of a batch *)

\* A step with the answer of the model and before any of its calls.
LEMMA NewStep ==
  ASSUME NEW w \in Workers, ModelCompleted(w)
  PROVE  \E x, stage :
           /\ steps' = Append(steps, x) /\ Commit([run EXCEPT !.stage = stage])
           /\ UNCHANGED contexts /\ StepFits(x)
           /\ \A i \in 1..Len(x.rows) : ~Settled(x.rows[i])
           /\ \/ stage = "execute_effects" /\ Len(x.rows) > 0
              \/ stage = "verify" /\ x.rows = << >>
<1>1. UNCHANGED contexts
  BY DEF ModelCompleted
<1>2. ASSUME NEW plan \in Plans,
             steps' = Append(steps, [finish |-> FALSE,
               rows |-> [i \in DOMAIN plan |-> Row(plan[i], "planned")]]),
             Commit([run EXCEPT !.stage = "execute_effects"])
      PROVE  \E x : /\ steps' = Append(steps, x) /\ StepFits(x) /\ Len(x.rows) > 0
                    /\ \A i \in 1..Len(x.rows) : ~Settled(x.rows[i])
  <2>1. PICK rows : rows = [i \in DOMAIN plan |-> Row(plan[i], "planned")]
    OBVIOUS
  <2>2. PICK x : x = [finish |-> FALSE, rows |-> rows]
    OBVIOUS
  <2>3. plan \in Seq(Kinds) /\ plan # << >>
    BY ProgressAssumption
  <2>4. /\ DOMAIN plan = 1..Len(plan) /\ Len(plan) \in Nat /\ Len(plan) > 0
        /\ \A i \in 1..Len(plan) : plan[i] \in Kinds
    BY <2>3, LenProperties, ElementOfSeq, EmptySeq
  <2>5. IsSeq(plan)
    BY <2>3, <2>4, LenProperties DEF IsSeq
  <2>6. DOMAIN rows = DOMAIN plan /\ rows = [i \in DOMAIN rows |-> rows[i]]
    BY <2>1
  <2>7. IsSeq(rows) /\ Len(rows) = Len(plan)
    BY <2>5, <2>6, SeqMapped
  <2>8. \A i \in 1..Len(rows) : ~Settled(rows[i]) /\ rows[i].kind \in Kinds
    BY <2>1, <2>4, <2>7 DEF Row, Settled
  <2>9. DOMAIN x = {"finish", "rows"} /\ x.rows = rows
    BY <2>2
  <2>10. \A i \in 1..Len(rows) : Settled(rows[i]) <=> i <= 0
    BY <2>4, <2>7, <2>8
  <2>11. 0 \in 0..Len(rows) /\ Len(rows) > 0
    BY <2>4, <2>7
  <2>12. StepFits(x)
    BY <2>7, <2>8, <2>9, <2>10, <2>11 DEF StepFits
  <2> QED BY <1>2, <2>1, <2>2, <2>8, <2>9, <2>11, <2>12
<1>3. ASSUME steps' = Append(steps, [finish |-> TRUE, rows |-> << >>])
      PROVE  \E x : steps' = Append(steps, x) /\ StepFits(x) /\ x.rows = << >>
  <2>1. PICK x : x = [finish |-> TRUE, rows |-> << >>]
    OBVIOUS
  <2>2. DOMAIN x = {"finish", "rows"} /\ x.rows = << >> /\ Len(x.rows) = 0 /\ IsSeq(x.rows)
    BY <2>1 DEF IsSeq
  <2>3. StepFits(x)
    BY <2>2 DEF StepFits
  <2> QED BY <1>3, <2>1, <2>2, <2>3
<1>4. CASE \E plan \in Plans :
             /\ steps' = Append(steps, [finish |-> FALSE,
                  rows |-> [i \in DOMAIN plan |-> Row(plan[i], "planned")]])
             /\ Commit([run EXCEPT !.stage = "execute_effects"])
  BY <1>1, <1>2, <1>4
<1>5. CASE /\ steps' = Append(steps, [finish |-> TRUE, rows |-> << >>])
           /\ Commit([run EXCEPT !.stage = "verify"])
  <2>1. PICK x : steps' = Append(steps, x) /\ StepFits(x) /\ x.rows = << >>
    BY <1>3, <1>5
  <2>2. \A i \in 1..Len(x.rows) : ~Settled(x.rows[i])
    BY <2>1
  <2> QED BY <1>1, <1>5, <2>1, <2>2
<1> QED BY <1>4, <1>5 DEF ModelCompleted

\* An answer adds a step and leaves those before it alone.
LEMMA ModelCompletedHistory ==
  ASSUME ContextInv, HistoryInv, NEW w \in Workers, ModelCompleted(w)
  PROVE  HistoryInv'
<1>1. PICK x, stage :
        /\ steps' = Append(steps, x) /\ Commit([run EXCEPT !.stage = stage])
        /\ UNCHANGED contexts /\ StepFits(x)
        /\ \A i \in 1..Len(x.rows) : ~Settled(x.rows[i])
        /\ \/ stage = "execute_effects" /\ Len(x.rows) > 0
           \/ stage = "verify" /\ x.rows = << >>
  BY NewStep
<1>2. DOMAIN run = RunKeys /\ IsSeq(steps)
  BY DEF ContextInv, RowsTyped
<1>3. PICK n \in Nat : n = Len(steps)
  BY <1>2 DEF IsSeq
<1>4. /\ Len(steps') = n + 1 /\ steps'[n + 1] = x
      /\ \A s \in 1..n : steps'[s] = steps[s]
  BY <1>1, <1>2, <1>3, AppendedAt
<1>5. /\ run'.progress = run.progress /\ run'.step = run.step /\ run'.tree = run.tree
      /\ run'.status = run.status /\ Stage' = stage
  BY <1>1, <1>2 DEF Commit, RunKeys, Stage
<1>6. RowsFit'
  <2>1. \A s \in 1..(n + 1) : StepFits(steps'[s])
    <3>1. \A s \in 1..(n + 1) : s \in 1..n \/ s = n + 1
      OBVIOUS
    <3> QED BY <1>1, <1>3, <1>4, <3>1 DEF HistoryInv, RowsFit
  <2>2. FirstSettled' <=> FirstSettled
    <3>1. CASE n = 0
      BY <1>1, <1>3, <1>4, <3>1 DEF FirstSettled, StepFits, IsSeq
    <3>2. CASE n > 0
      <4>1. steps'[1] = steps[1] /\ Len(steps') > 0 /\ Len(steps) > 0
        BY <1>3, <1>4, <3>2
      <4> QED BY <4>1 DEF FirstSettled
    <3> QED BY <3>1, <3>2
  <2>3. IF FirstSettled' THEN steps'[1].rows[1].before = Baseline ELSE run'.tree = Baseline
    <3>1. CASE FirstSettled
      <4>1. n > 0
        BY <1>3, <3>1 DEF FirstSettled
      <4>2. steps'[1] = steps[1]
        BY <1>4, <4>1
      <4> QED BY <2>2, <3>1, <4>2 DEF HistoryInv, RowsFit
    <3>2. CASE ~FirstSettled
      BY <1>5, <2>2, <3>2 DEF HistoryInv, RowsFit
    <3> QED BY <3>1, <3>2
  <2>4. Len(steps') > 0 /\ steps'[Len(steps')] = x
    BY <1>4
  <2>5. stage = "execute_effects" => \E i \in 1..Len(x.rows) : ~Settled(x.rows[i])
    <3>1. stage = "execute_effects" => Len(x.rows) \in Nat /\ Len(x.rows) > 0
      BY <1>1 DEF StepFits, IsSeq
    <3>2. stage = "execute_effects" => 1 \in 1..Len(x.rows)
      BY <3>1
    <3> QED BY <1>1, <3>2
  <2> QED BY <1>1, <1>4, <1>5, <2>1, <2>3, <2>4, <2>5 DEF RowsFit
<1>7. Len(steps) \in Nat /\ Len(steps') \in Nat /\ Len(steps) <= Len(steps')
  BY <1>3, <1>4
<1>8. \A s \in 1..run.progress.checked : steps'[s] = steps[s]
  BY <1>3, <1>4 DEF HistoryInv, CheckedFits
<1> QED BY <1>1, <1>5, <1>6, <1>7, <1>8, QuietHistory
\* The rows of the step that is at work change.
LEMMA BatchHistory ==
  ASSUME ContextInv, HistoryInv, run.status = "running", Len(contexts) = Len(steps),
         Len(steps) > 0, NEW x, steps' = [steps EXCEPT ![run.step] = x], StepFits(x),
         UNCHANGED contexts, run'.progress = run.progress, run'.step = run.step,
         \/ Stage' = "build_context"
         \/ Stage' = "execute_effects" /\ \E i \in 1..Len(x.rows) : ~Settled(x.rows[i]),
         run.step = 1 => /\ 1 <= Len(x.rows) /\ Settled(x.rows[1])
                         /\ x.rows[1].before = Baseline
  PROVE  HistoryInv'
<1>1. IsSeq(steps) /\ IsSeq(steps') /\ Len(steps') = Len(steps)
  BY RowsChange DEF ContextInv, RowsTyped
<1>2. PICK n \in Nat : n = Len(steps)
  BY <1>1 DEF IsSeq
<1>3. n > 0 /\ run.step = n /\ DOMAIN steps = 1..n
  BY <1>1, <1>2 DEF HistoryInv, CheckedFits, IsSeq
<1>4. run.progress.checked = n - 1
  BY <1>3 DEF HistoryInv, CheckedFits
<1>5. steps'[n] = x /\ \A s \in 1..(n - 1) : steps'[s] = steps[s]
  BY <1>3
<1>6. RowsFit'
  <2>1. \A s \in 1..n : StepFits(steps'[s])
    <3>1. \A s \in 1..n : s \in 1..(n - 1) \/ s = n
      BY <1>3
    <3>2. \A s \in 1..(n - 1) : s \in 1..n
      OBVIOUS
    <3> QED BY <1>2, <1>5, <3>1, <3>2 DEF HistoryInv, RowsFit
  <2>2. FirstSettled' /\ steps'[1].rows[1].before = Baseline
    <3>1. CASE n = 1
      BY <1>1, <1>2, <1>3, <1>5, <3>1 DEF FirstSettled
    <3>2. CASE n # 1
      <4>1. 1 \in 1..(n - 1) /\ n - 1 > 0
        BY <1>3, <3>2
      <4>2. steps'[1] = steps[1] /\ FirstSettled
        BY <1>4, <1>5, <4>1 DEF HistoryInv, CheckedFits
      <4>3. FirstSettled'
        BY <1>1, <4>2 DEF FirstSettled
      <4> QED BY <4>2, <4>3 DEF HistoryInv, RowsFit
    <3> QED BY <3>1, <3>2
  <2>3. steps'[Len(steps')] = x /\ Len(steps') = n
    BY <1>1, <1>2, <1>5
  <2> QED BY <1>3, <2>1, <2>2, <2>3 DEF RowsFit
<1>7. Len(steps) \in Nat /\ Len(steps') \in Nat /\ Len(steps) <= Len(steps')
  BY <1>1, <1>2
<1>8. \A s \in 1..run.progress.checked : steps'[s] = steps[s]
  BY <1>4, <1>5
<1> QED BY <1>6, <1>7, <1>8, QuietHistory

\* The next call of a batch is the first one that is planned.
LEMMA FirstPlanned ==
  ASSUME NEW rows, IsSeq(rows), \E j \in 1..Len(rows) : ~Settled(rows[j]),
         NEW i, i = SelectInSeq(rows, LAMBDA r : r.status = "planned")
  PROVE  /\ i \in 1..Len(rows) /\ ~Settled(rows[i])
         /\ \A j \in 1..Len(rows) : ~Settled(rows[j]) => i <= j
<1>1. Len(rows) \in Nat
  BY DEF IsSeq
<1>2. PICK I : I = {j \in 1..Len(rows) : rows[j].status = "planned"}
  OBVIOUS
<1>3. i = IF I # {} THEN Min(I) ELSE 0
  BY <1>2 DEF SelectInSeq
<1>4. I # {} /\ I \subseteq Nat /\ \A j \in 1..Len(rows) : j \in I <=> ~Settled(rows[j])
  BY <1>1, <1>2 DEF Settled
<1>5. PICK k \in I : \A j \in I : ~(j < k)
  BY <1>4, LeastNumber
<1>6. \A j \in I : k <= j
  BY <1>4, <1>5
<1>7. i = CHOOSE y \in I : \A j \in I : y <= j
  BY <1>3, <1>4 DEF Min
<1>8. i \in I /\ \A j \in I : i <= j
  BY <1>5, <1>6, <1>7
<1> QED BY <1>2, <1>4, <1>8

\* A call settles the first row that is planned.
LEMMA EffectCompletedHistory ==
  ASSUME ContextInv, HistoryInv, NEW w \in Workers, EffectCompleted(w)
  PROVE  HistoryInv'
<1>1. /\ run.status = "running" /\ Stage = "execute_effects" /\ run.stage = "execute_effects"
      /\ UNCHANGED contexts /\ Len(contexts) = Len(steps) /\ DOMAIN run = RunKeys
      /\ IsSeq(steps)
  BY DEF EffectCompleted, At, Stage, ContextInv, StepsFit, RowsTyped
<1>2. PICK n \in Nat : n = Len(steps)
  BY <1>1 DEF IsSeq
<1>3. n > 0 /\ run.step = n /\ DOMAIN steps = 1..n /\ n \in 1..n
  BY <1>1, <1>2 DEF HistoryInv, CheckedFits, RowsFit, IsSeq
<1>4. PICK rows : rows = steps[n].rows
  OBVIOUS
<1>5. /\ DOMAIN steps[n] = {"finish", "rows"} /\ IsSeq(rows)
      /\ \A j \in 1..Len(rows) : rows[j].kind \in Kinds \cup {"verify"}
      /\ \E m \in 0..Len(rows) : \A j \in 1..Len(rows) : Settled(rows[j]) <=> j <= m
      /\ \E j \in 1..Len(rows) : ~Settled(rows[j])
  BY <1>1, <1>2, <1>3, <1>4 DEF HistoryInv, RowsFit, StepFits
<1>6. PICK i : i = SelectInSeq(rows, LAMBDA r : r.status = "planned")
  OBVIOUS
<1>7. /\ i \in 1..Len(rows) /\ ~Settled(rows[i])
      /\ \A j \in 1..Len(rows) : ~Settled(rows[j]) => i <= j
  BY <1>5, <1>6, FirstPlanned
<1>8. PICK o \in Outcomes[rows[i].kind],
           tree \in IF rows[i].kind = "write" THEN Trees ELSE {run.tree} :
        /\ steps' = [steps EXCEPT ![run.step].rows[i] =
                       [kind |-> @.kind, status |-> o[1], result |-> o[2],
                        before |-> run.tree, after |-> tree]]
        /\ Commit([run EXCEPT !.tree = tree, !.report = FALSE,
             !.stage = IF o[1] = "failed" \/ i = Len(rows)
                       THEN "build_context" ELSE @])
  BY <1>3, <1>4, <1>6, ZenonT(60) DEF EffectCompleted
<1>9. o[1] \in {"succeeded", "failed"}
  <2>0. PICK kind \in Kinds \cup {"verify"} : kind = rows[i].kind
    BY <1>5, <1>7
  <2>1. Outcomes[kind] \in SUBSET ({"succeeded", "failed"} \X (Results \cup {Truncated}))
    BY <2>0, ProgressAssumption
  <2>2. o \in {"succeeded", "failed"} \X (Results \cup {Truncated})
    BY <2>0, <2>1
  <2> QED BY <2>2
<1>10. PICK e : e = [kind |-> rows[i].kind, status |-> o[1], result |-> o[2],
                     before |-> run.tree, after |-> tree]
  OBVIOUS
<1>11. e.kind = rows[i].kind /\ Settled(e) /\ e.before = run.tree
  BY <1>9, <1>10 DEF Settled
<1>12. PICK next : next = [rows EXCEPT ![i] = e]
  OBVIOUS
<1>13. PICK x : x = [steps[n] EXCEPT !.rows = next]
  OBVIOUS
<1>14. steps' = [steps EXCEPT ![run.step] = x]
  BY <1>3, <1>4, <1>5, <1>8, <1>10, <1>12, <1>13
<1>15. DOMAIN x = {"finish", "rows"} /\ x.rows = next
  BY <1>5, <1>13
<1>16. PICK l \in Nat : l = Len(rows)
  BY <1>5 DEF IsSeq
<1>17. IsSeq(next) /\ Len(next) = l
  <2>1. DOMAIN next = DOMAIN rows /\ next = [j \in DOMAIN next |-> next[j]]
    BY <1>12
  <2> QED BY <1>5, <1>16, <2>1, SeqMapped
<1>18. next[i] = e /\ \A j \in 1..l : j # i => next[j] = rows[j]
  BY <1>5, <1>7, <1>12, <1>16 DEF IsSeq
<1>19. \A j \in 1..l : Settled(rows[j]) <=> j < i
  <2>1. PICK m \in 0..l : \A j \in 1..l : Settled(rows[j]) <=> j <= m
    BY <1>5, <1>16
  <2>2. i \in 1..l /\ ~(i <= m)
    BY <1>7, <1>16, <2>1
  <2>3. \A j \in 1..l : ~(j <= m) => i <= j
    BY <1>7, <1>16, <2>1
  <2>4. i = m + 1
    <3>1. m + 1 \in 1..l /\ ~(m + 1 <= m)
      BY <2>1, <2>2
    <3>2. i <= m + 1
      BY <2>3, <3>1
    <3> QED BY <2>2, <3>2
  <2>5. \A j \in 1..l : j <= m <=> j < i
    BY <2>4
  <2> QED BY <2>1, <2>5
<1>20. \A j \in 1..l : Settled(next[j]) <=> j <= i
  <2> SUFFICES ASSUME NEW j \in 1..l PROVE Settled(next[j]) <=> j <= i
    OBVIOUS
  <2>1. CASE j = i
    BY <1>11, <1>18, <2>1
  <2>2. CASE j # i
    <3>1. Settled(next[j]) <=> j < i
      BY <1>18, <1>19, <2>2
    <3>2. j < i <=> j <= i
      BY <1>7, <1>16, <2>2
    <3> QED BY <3>1, <3>2
  <2> QED BY <2>1, <2>2
<1>21. StepFits(x)
  <2>1. \A j \in 1..l : next[j].kind \in Kinds \cup {"verify"}
    BY <1>5, <1>7, <1>11, <1>16, <1>18
  <2>2. i \in 0..l
    BY <1>7, <1>16
  <2> QED BY <1>15, <1>17, <1>20, <2>1, <2>2 DEF StepFits
<1>22. PICK stage : stage = IF o[1] = "failed" \/ i = l THEN "build_context" ELSE run.stage
  OBVIOUS
<1>23. /\ run'.progress = run.progress /\ run'.step = run.step /\ Stage' = stage
  <2>1. Commit([run EXCEPT !.tree = tree, !.report = FALSE, !.stage = stage])
    BY <1>8, <1>16, <1>22
  <2>2. stage # "adopt_workspace"
    BY <1>1, <1>22
  <2> QED BY <1>1, <2>1, <2>2 DEF Commit, RunKeys, Stage
<1>24. \/ Stage' = "build_context"
       \/ Stage' = "execute_effects" /\ \E j \in 1..Len(x.rows) : ~Settled(x.rows[j])
  <2>1. CASE o[1] = "failed" \/ i = l
    BY <1>22, <1>23, <2>1
  <2>2. CASE ~(o[1] = "failed" \/ i = l)
    <3>1. i + 1 \in 1..l /\ ~(i + 1 <= i)
      BY <1>7, <1>16, <2>2
    <3>2. ~Settled(next[i + 1])
      BY <1>20, <3>1
    <3> QED BY <1>1, <1>15, <1>17, <1>22, <1>23, <2>2, <3>1, <3>2
  <2> QED BY <2>1, <2>2
<1>25. run.step = 1 => /\ 1 <= Len(x.rows) /\ Settled(x.rows[1])
                       /\ x.rows[1].before = Baseline
  <2> SUFFICES ASSUME n = 1
               PROVE  1 <= Len(x.rows) /\ Settled(x.rows[1]) /\ x.rows[1].before = Baseline
    BY <1>3
  <2>1. 1 \in 1..l /\ 1 <= i
    BY <1>7, <1>16
  <2>2. 1 <= Len(x.rows) /\ Settled(x.rows[1])
    BY <1>15, <1>17, <1>20, <2>1
  <2>3. CASE i = 1
    <3>1. ~FirstSettled
      BY <1>4, <1>7, <2>3 DEF FirstSettled
    <3>2. run.tree = Baseline
      BY <3>1 DEF HistoryInv, RowsFit
    <3> QED BY <1>11, <1>15, <1>18, <2>2, <2>3, <3>2
  <2>4. CASE i # 1
    <3>1. next[1] = rows[1] /\ Settled(rows[1])
      <4>1. 1 < i
        BY <1>7, <1>16, <2>1, <2>4
      <4> QED BY <1>18, <1>19, <2>1, <2>4, <4>1
    <3>2. FirstSettled
      <4>1. Len(steps) > 0 /\ steps[1].rows = rows
        BY <1>2, <1>3, <1>4
      <4>2. 1 <= Len(rows)
        BY <1>16, <2>1
      <4> QED BY <3>1, <4>1, <4>2 DEF FirstSettled
    <3>3. rows[1].before = Baseline
      BY <1>4, <3>2 DEF HistoryInv, RowsFit
    <3> QED BY <1>15, <2>2, <3>1, <3>3
  <2> QED BY <2>3, <2>4
<1> QED BY <1>1, <1>2, <1>3, <1>14, <1>21, <1>23, <1>24, <1>25, BatchHistory
\* The checks of a finish settle all their rows at once.
LEMMA VerifyHistory ==
  ASSUME ContextInv, HistoryInv, NEW w \in Workers, Verify(w)
  PROVE  HistoryInv'
<1>1. /\ run.status = "running" /\ Stage = "verify" /\ run.stage = "verify"
      /\ UNCHANGED contexts /\ Len(contexts) = Len(steps) /\ DOMAIN run = RunKeys
      /\ IsSeq(steps)
  BY DEF Verify, At, Stage, ContextInv, StepsFit, RowsTyped
<1>2. PICK n \in Nat : n = Len(steps)
  BY <1>1 DEF IsSeq
<1>3. n > 0 /\ run.step = n /\ n \in 1..n /\ steps[n].rows = << >>
  BY <1>1, <1>2 DEF HistoryInv, CheckedFits, RowsFit
<1>4. CASE /\ Commit([run EXCEPT !.status = "ended", !.stage = "stopped", !.live = FALSE])
           /\ UNCHANGED steps
  <2>1. /\ run'.progress = run.progress /\ run'.step = run.step /\ run'.tree = run.tree
        /\ run'.status = "ended" /\ Stage' = "stopped"
    BY <1>1, <1>4 DEF Commit, RunKeys, Stage
  <2> QED BY <1>1, <1>4, <2>1, StillHistory
<1>5. ASSUME NEW o \in [1..Checks -> Outcomes["verify"]],
             steps' = [steps EXCEPT ![run.step].rows =
               [i \in 1..Checks |-> [Row("verify", o[i][1]) EXCEPT !.result = o[i][2]]]],
             Commit([run EXCEPT !.stage = "build_context", !.report = TRUE])
      PROVE  HistoryInv'
  <2>1. PICK rows : rows = [i \in 1..Checks |->
                              [Row("verify", o[i][1]) EXCEPT !.result = o[i][2]]]
    OBVIOUS
  <2>2. PICK x : x = [steps[n] EXCEPT !.rows = rows]
    OBVIOUS
  <2>3. DOMAIN steps[n] = {"finish", "rows"}
    BY <1>2, <1>3 DEF HistoryInv, RowsFit, StepFits
  <2>4. steps' = [steps EXCEPT ![run.step] = x]
    BY <1>3, <1>5, <2>1, <2>2
  <2>5. DOMAIN x = {"finish", "rows"} /\ x.rows = rows
    BY <2>2, <2>3
  <2>6. PICK l \in Nat \ {0} : l = Checks
    BY ProgressAssumption
  <2>7. IsSeq(rows) /\ Len(rows) = l
    BY <2>1, <2>6 DEF IsSeq
  <2>8. \A i \in 1..l : /\ Settled(rows[i]) /\ rows[i].kind = "verify"
                        /\ rows[i].before = run.tree
    <3> SUFFICES ASSUME NEW i \in 1..l
                 PROVE  /\ Settled(rows[i]) /\ rows[i].kind = "verify"
                        /\ rows[i].before = run.tree
      OBVIOUS
    <3>1. /\ Outcomes["verify"] \in SUBSET ({"succeeded", "failed"} \X (Results \cup {Truncated}))
      BY ProgressAssumption
    <3>2. o[i] \in {"succeeded", "failed"} \X (Results \cup {Truncated})
      BY <1>5, <2>6, <3>1
    <3>3. o[i][1] \in {"succeeded", "failed"}
      BY <3>2
    <3>4. PICK r : r = Row("verify", o[i][1])
      OBVIOUS
    <3>5. /\ DOMAIN r = {"kind", "status", "result", "before", "after"}
          /\ r.kind = "verify" /\ r.status = o[i][1] /\ r.before = run.tree
      BY <3>4 DEF Row
    <3>6. rows[i] = [r EXCEPT !.result = o[i][2]]
      BY <2>1, <2>6, <3>4
    <3> QED BY <3>3, <3>5, <3>6 DEF Settled
  <2>9. StepFits(x)
    <3>1. l \in 0..l /\ \A i \in 1..l : Settled(rows[i]) <=> i <= l
      BY <2>8
    <3> QED BY <2>5, <2>7, <2>8, <3>1 DEF StepFits
  <2>10. /\ run'.progress = run.progress /\ run'.step = run.step
         /\ Stage' = "build_context"
    BY <1>1, <1>5 DEF Commit, RunKeys, Stage
  <2>11. run.step = 1 => /\ 1 <= Len(x.rows) /\ Settled(x.rows[1])
                         /\ x.rows[1].before = Baseline
    <3> SUFFICES ASSUME n = 1
                 PROVE  1 <= Len(x.rows) /\ Settled(x.rows[1]) /\ x.rows[1].before = Baseline
      BY <1>3
    <3>1. 1 \in 1..l /\ 1 <= l
      OBVIOUS
    <3>2. ~FirstSettled
      BY <1>3 DEF FirstSettled
    <3>3. run.tree = Baseline
      BY <3>2 DEF HistoryInv, RowsFit
    <3> QED BY <2>5, <2>7, <2>8, <3>1, <3>3
  <2> QED BY <1>1, <1>2, <1>3, <2>4, <2>9, <2>10, <2>11, BatchHistory
<1> QED BY <1>4, <1>5 DEF Verify

-----------------------------------------------------------------------------
(* A checked step *)

\* What a step shows, in the order of its rows.
LEMMA ObservationsFit ==
  ASSUME NEW x, StepFits(x), NEW obs, obs = Observations(x)
  PROVE  /\ IsSeq(obs) /\ Len(obs) <= Len(x.rows)
         /\ \A i \in 1..Len(obs) : /\ obs[i].indeterminate \in BOOLEAN
                                   /\ obs[i].before = x.rows[i].before
                                   /\ Settled(x.rows[i])
<1>1. PICK rows : rows = x.rows
  OBVIOUS
<1>2. PICK l \in Nat : l = Len(rows)
  BY <1>1 DEF StepFits, IsSeq
<1>3. PICK n \in 0..l : \A i \in 1..l : Settled(rows[i]) <=> i <= n
  BY <1>1, <1>2 DEF StepFits
<1>4. DOMAIN rows = 1..l
  BY <1>1, <1>2 DEF StepFits, IsSeq
<1>5. {i \in DOMAIN rows : Settled(rows[i])} = 1..n
  BY <1>3, <1>4
<1>6. PICK verdict : verdict = [i \in 1..n |-> rows[i].status]
  OBVIOUS
<1>7. obs = [i \in 1..n |->
               IF x.finish
               THEN [observation(rows[i]) EXCEPT !.fingerprint = <<@, verdict>>]
               ELSE observation(rows[i])]
  BY <1>1, <1>5, <1>6 DEF Observations
<1>8. n \in Nat /\ n <= l
  BY <1>2, <1>3
<1>9. IsSeq(obs) /\ Len(obs) = n
  BY <1>7, <1>8 DEF IsSeq
<1>10. ASSUME NEW i \in 1..n
       PROVE  obs[i].indeterminate \in BOOLEAN /\ obs[i].before = rows[i].before
  <2>1. PICK o : o = observation(rows[i])
    OBVIOUS
  <2>2. /\ DOMAIN o = {"indeterminate", "fingerprint", "before", "after"}
        /\ o.indeterminate \in BOOLEAN /\ o.before = rows[i].before
    BY <2>1 DEF observation
  <2>3. obs[i] = o \/ obs[i] = [o EXCEPT !.fingerprint = <<o.fingerprint, verdict>>]
    BY <1>7, <2>1
  <2> QED BY <2>2, <2>3
<1>11. \A i \in 1..n : Settled(rows[i])
  BY <1>2, <1>3
<1> QED BY <1>1, <1>2, <1>8, <1>9, <1>10, <1>11

\* The batch of step s has shown only what is known.
NothingNew(h, s) == \A i \in DOMAIN h[s] : Known(h[s][i], Before(h, s, i))

\* Two histories that agree before a step have the same past there.
LEMMA PastAgrees ==
  ASSUME NEW g, NEW h, NEW s \in Nat \ {0}, \A t \in 1..(s - 1) : g[t] = h[t]
  PROVE  Past(g, s) = Past(h, s)
<1>1. {Range(g[t]) : t \in 1..(s - 1)} = {Range(h[t]) : t \in 1..(s - 1)}
  OBVIOUS
<1> QED BY <1>1 DEF Past

\* And if they agree on the step as well, they say the same of it.
LEMMA NewsAgrees ==
  ASSUME NEW g, NEW h, NEW s \in Nat \ {0}, \A t \in 1..s : g[t] = h[t]
  PROVE  NothingNew(g, s) <=> NothingNew(h, s)
<1>1. (\A t \in 1..(s - 1) : g[t] = h[t]) /\ g[s] = h[s]
  OBVIOUS
<1>2. Past(g, s) = Past(h, s)
  BY <1>1, PastAgrees
<1>3. \A i : Before(g, s, i) = Before(h, s, i)
  BY <1>1, <1>2 DEF Before
<1> QED BY <1>1, <1>3 DEF NothingNew

\* The past with one step more, observation by observation.
LEMMA PastGrows ==
  ASSUME NEW g, NEW n \in Nat \ {0}, NEW obs, obs = g[n], IsSeq(obs),
         NEW past, past = Past(g, n)
  PROVE  /\ Past(g, n + 1) = SeenBy(past, obs, Len(obs))
         /\ NothingNew(g, n) <=>
              \A i \in 1..Len(obs) : Known(obs[i], SeenBy(past, obs, i - 1))
<1>1. Past(g, n + 1) = past \cup Range(obs)
  <2>1. 1..((n + 1) - 1) = 1..(n - 1) \cup {n}
    OBVIOUS
  <2>2. PICK I : I = 1..(n - 1)
    OBVIOUS
  <2>3. UNION {Range(g[t]) : t \in I \cup {n}} = (UNION {Range(g[t]) : t \in I}) \cup Range(g[n])
    OBVIOUS
  <2> QED BY <2>1, <2>2, <2>3 DEF Past
<1>2. Range(obs) = {obs[i] : i \in 1..Len(obs)}
  BY RangeOf
<1>3. DOMAIN obs = 1..Len(obs)
  BY DEF IsSeq
<1>4. \A i : Before(g, n, i) = SeenBy(past, obs, i - 1)
  BY DEF Before, SeenBy
<1> QED BY <1>1, <1>2, <1>3, <1>4 DEF NothingNew, SeenBy

\* What is seen is finite.
LEMMA SeenFinite ==
  ASSUME NEW x, NEW seen, SeenFits(x, seen)
  PROVE  IsFiniteSet(Facts(seen)) /\ IsFiniteSet(Places(seen))
BY DEF SeenFits, Fits

\* A batch that has not moved has shown nothing new, and while the windows have
\* room one that has moved has.
LEMMA BatchTrue ==
  ASSUME NEW p, NEW g, NEW n \in Nat \ {0}, NEW obs, obs = g[n], IsSeq(obs), obs # << >>,
         NEW past, past = Past(g, n), SeenFits(p, past),
         \A i \in 1..Len(obs) : obs[i].indeterminate \in BOOLEAN,
         p.trees = << >> => obs[1].before = Baseline,
         NEW y, y = ObserveAll(p, obs)
  PROVE  /\ SeenFits(y, Past(g, n + 1)) /\ y.trees # << >>
         /\ y.novel \in BOOLEAN /\ y.uncertain \in BOOLEAN
         /\ ~Moved(y) => NothingNew(g, n)
         /\ Moved(y) /\ AllRemembered(Past(g, n + 1)) => ~NothingNew(g, n)
<1>1. PICK l \in Nat : l = Len(obs)
  BY DEF IsSeq
<1>2. l # 0
  BY <1>1 DEF IsSeq
<1>3. PICK seen : seen = Past(g, n + 1)
  OBVIOUS
<1>4. /\ seen = SeenBy(past, obs, l)
      /\ NothingNew(g, n) <=> \A i \in 1..l : Known(obs[i], SeenBy(past, obs, i - 1))
  BY <1>1, <1>3, PastGrows
<1>5. Looked(p, obs, past, y, l)
  BY <1>1, BatchLooked
<1>6. /\ SeenFits(y, seen) /\ y.trees # << >>
      /\ y.novel \in BOOLEAN /\ y.uncertain \in BOOLEAN
      /\ ~Moved(y) => \A i \in 1..l : Known(obs[i], SeenBy(past, obs, i - 1))
      /\ Moved(y) => \E i \in 1..l : \/ ~Known(obs[i], SeenBy(past, obs, i - 1))
                                     \/ ~AllRemembered(SeenBy(past, obs, i - 1))
  BY <1>2, <1>4, <1>5, Zenon DEF Looked
<1>7. ASSUME AllRemembered(seen), NEW i \in 1..l
      PROVE  AllRemembered(SeenBy(past, obs, i - 1))
  <2>1. PICK less : less = SeenBy(past, obs, i - 1)
    OBVIOUS
  <2>2. 1..(i - 1) \subseteq 1..l
    OBVIOUS
  <2>3. less \subseteq seen
    BY <1>4, <2>1, <2>2 DEF SeenBy
  <2>4. AllRemembered(less)
    BY <1>6, <1>7, <2>3, SeenFinite, RoomBefore
  <2> QED BY <2>1, <2>4
<1>8. Moved(y) /\ AllRemembered(seen) => ~NothingNew(g, n)
  BY <1>4, <1>6, <1>7
<1>9. ~Moved(y) => NothingNew(g, n)
  BY <1>4, <1>6
<1> QED BY <1>3, <1>6, <1>8, <1>9

\* What the commit of a context leaves.
LEMMA ContextBuiltLeaves ==
  ASSUME ContextInv, HistoryInv, NEW w \in Workers, ContextBuilt(w)
  PROVE  \E f, p, c : \E s \in Nat :
           /\ p = observeProgress(run.progress, f) /\ f.step = s /\ f.seq = Len(messages)
           /\ s = Len(steps) /\ s = Len(contexts) /\ run.step = s /\ run.status = "running"
           /\ s > 0 => /\ f.observations # << >> /\ f.observations = Observations(steps[s])
                       /\ f.seq >= run.progress.seq
           /\ UNCHANGED steps /\ run'.progress = p /\ run'.tree = run.tree
           /\ \/ /\ contexts' = contexts /\ run'.step = s
                 /\ run'.status = "cancel_requested" /\ Stage' = "build_context"
              \/ /\ contexts' = Append(contexts, c) /\ c.heard = f.seq /\ run'.step = s + 1
                 /\ run'.status = "running" /\ Stage' = "model"
<1>1. PICK f : f = worker[w].frame
  OBVIOUS
<1>2. PICK p : p = observeProgress(run.progress, f)
  OBVIOUS
<1>3. PICK c : c = [c |-> worker[w].context, heard |-> Len(messages)]
  OBVIOUS
<1>4. PICK r : r = [run EXCEPT !.progress = p]
  OBVIOUS
<1>5. validateContextProgress(f) /\ Transitions(w) /\ UNCHANGED steps
  BY <1>1 DEF ContextBuilt, Accepted
<1>6. /\ f.seq = Len(messages) /\ f.step = run.step
      /\ f.step > 0 => f.observations # << >> /\ f.observations = Observations(steps[f.step])
  BY <1>5 DEF validateContextProgress
<1>7. /\ run.status = "running" /\ run.stage = "build_context"
      /\ f.step > 0 => f.seq >= run.progress.seq
  BY <1>1, <1>5 DEF Transitions
<1>8. Stage = "build_context" /\ DOMAIN run = RunKeys /\ IsSeq(steps)
  BY <1>7 DEF Stage, ContextInv, RowsTyped
<1>9. PICK s \in Nat : s = Len(steps)
  BY <1>8 DEF IsSeq
<1>10. s = Len(contexts) /\ run.step = s
  BY <1>8, <1>9 DEF ContextInv, StepsFit, HistoryInv, CheckedFits
<1>11. /\ DOMAIN r = RunKeys /\ r.progress = p /\ r.stage = "build_context"
       /\ r.tree = run.tree /\ r.step = s /\ r.status = "running"
  BY <1>4, <1>7, <1>8, <1>10 DEF RunKeys
<1>12. ASSUME NEW reason, Commit(stop(r, reason)), UNCHANGED contexts
       PROVE  /\ run'.progress = p /\ run'.tree = run.tree
              /\ contexts' = contexts /\ run'.step = s
              /\ run'.status = "cancel_requested" /\ Stage' = "build_context"
  BY <1>11, <1>12 DEF Commit, stop, RunKeys, Stage
<1>13. ASSUME Commit([r EXCEPT !.stage = "model", !.step = @ + 1]),
              contexts' = Append(contexts, c)
       PROVE  /\ run'.progress = p /\ run'.tree = run.tree
              /\ run'.step = s + 1 /\ run'.status = "running" /\ Stage' = "model"
  BY <1>11, <1>13 DEF Commit, RunKeys, Stage
<1>14. \/ \E reason : Commit(stop(r, reason)) /\ UNCHANGED contexts
       \/ Commit([r EXCEPT !.stage = "model", !.step = @ + 1]) /\ contexts' = Append(contexts, c)
  BY <1>1, <1>2, <1>3, <1>4 DEF ContextBuilt
<1>15. c.heard = f.seq
  BY <1>3, <1>6
<1>16. /\ UNCHANGED steps /\ run'.progress = p /\ run'.tree = run.tree
       /\ \/ /\ contexts' = contexts /\ run'.step = s
             /\ run'.status = "cancel_requested" /\ Stage' = "build_context"
          \/ /\ contexts' = Append(contexts, c) /\ c.heard = f.seq /\ run'.step = s + 1
             /\ run'.status = "running" /\ Stage' = "model"
  BY <1>5, <1>12, <1>13, <1>14, <1>15
<1>17. /\ f.step = s /\ f.seq = Len(messages)
       /\ s > 0 => /\ f.observations # << >> /\ f.observations = Observations(steps[s])
                   /\ f.seq >= run.progress.seq
  BY <1>6, <1>7, <1>10
<1> QED BY <1>2, <1>7, <1>9, <1>10, <1>16, <1>17, Zenon

\* Before the first answer nothing has been seen, and the tree is the imported one.
LEMMA NothingSeen ==
  ASSUME NEW x, x.evidence = << >>, x.trees = << >>, NEW h
  PROVE  SeenFits(x, Past(h, 1))
<1>1. PICK seen : seen = Past(h, 1)
  OBVIOUS
<1>2. seen = {}
  BY <1>1 DEF Past
<1>3. Facts(seen) = {} /\ Places(seen) = {Baseline}
  BY <1>2 DEF Facts, Places
<1>4. /\ IsFiniteSet({}) /\ Cardinality({}) = 0
      /\ IsFiniteSet({Baseline}) /\ Cardinality({Baseline}) = 1
  BY FS_EmptySet, FS_Singleton
<1>5. EvidenceWindow \in Nat \ {0} /\ TreeWindow \in Nat \ {0}
  BY ProgressAssumption
<1>6. Fits(x.evidence, {}, EvidenceWindow)
  <2>1. PICK list : list = << >>
    OBVIOUS
  <2>2. IsSeq(list) /\ Len(list) = 0 /\ Range(list) = {} /\ Distinct(list)
    BY <2>1, RangeOf DEF IsSeq, Distinct, Range
  <2>3. Fits(list, {}, EvidenceWindow)
    BY <1>4, <1>5, <2>2 DEF Fits
  <2> QED BY <2>1, <2>3
<1>7. Fits(TreesOf(x), {Baseline}, TreeWindow)
  <2>1. PICK list : list = <<Baseline>>
    OBVIOUS
  <2>2. IsSeq(list) /\ Len(list) = 1 /\ list[1] = Baseline
    BY <2>1 DEF IsSeq
  <2>3. Range(list) = {Baseline} /\ Distinct(list)
    BY <2>2, RangeOf DEF Distinct
  <2>4. Fits(list, {Baseline}, TreeWindow)
    BY <1>4, <1>5, <2>2, <2>3 DEF Fits
  <2> QED BY <2>1, <2>4 DEF TreesOf
<1> QED BY <1>1, <1>3, <1>6, <1>7 DEF SeenFits

\* The first context: nothing has been checked.
LEMMA FirstContextHistory ==
  ASSUME HistoryInv, UNCHANGED steps, NEW f, NEW c, Len(contexts) = 0, IsSeq(contexts),
         run'.progress = [NoProgress EXCEPT !.ready = TRUE, !.seq = f.seq],
         run'.tree = run.tree, Len(steps) = 0,
         \/ /\ contexts' = contexts /\ run'.step = 0
            /\ run'.status = "cancel_requested" /\ Stage' = "build_context"
         \/ /\ contexts' = Append(contexts, c) /\ c.heard = f.seq /\ run'.step = 1
            /\ run'.status = "running" /\ Stage' = "model"
  PROVE  HistoryInv'
<1>1. PICK q : q = run'.progress
  OBVIOUS
<1>2. /\ q.checked = 0 /\ q.repeated = 0 /\ q.evidence = << >> /\ q.trees = << >>
      /\ q.seq = f.seq
  BY <1>1 DEF NoProgress
<1>3. PICK h : h = Shown'
  OBVIOUS
<1>4. WindowsFit'
  <2>1. SeenFits(q, Past(h, 1))
    BY <1>2, NothingSeen
  <2> QED BY <1>1, <1>2, <1>3, <2>1 DEF WindowsFit
<1>5. CountTrue(Shown)'
  BY <1>1, <1>2 DEF CountTrue
<1>6. RowsFit'
  BY RowsKept DEF HistoryInv
<1>7. CheckedFits'
  <2>1. CASE contexts' = contexts /\ run'.step = 0 /\ run'.status = "cancel_requested"
    BY <1>1, <1>2, <2>1 DEF CheckedFits
  <2>2. CASE /\ contexts' = Append(contexts, c) /\ c.heard = f.seq /\ run'.step = 1
             /\ run'.status = "running"
    <3>1. Len(contexts') = 1 /\ contexts'[1] = c
      BY <2>2, AppendedAt
    <3> QED BY <1>1, <1>2, <2>2, <3>1 DEF CheckedFits
  <2> QED BY <2>1, <2>2
<1> QED BY <1>4, <1>5, <1>6, <1>7 DEF HistoryInv

\* What has been heard, before and after the commit of a context.
LEMMA HeardOn ==
  ASSUME NEW s \in Nat \ {0}, s = Len(contexts), IsSeq(contexts), NEW c,
         run.progress.checked = s - 1, HistoryInv, NEW seq, run'.progress.seq = seq,
         contexts' = contexts \/ (contexts' = Append(contexts, c) /\ c.heard = seq)
  PROVE  /\ \A t \in 0..(s - 1) : HeardAfter(t)' = HeardAfter(t)
         /\ HeardAfter(s)' = seq /\ HeardAfter(s - 1) = run.progress.seq
<1>1. /\ Len(contexts') \in {s, s + 1} /\ \A t \in 1..s : contexts'[t] = contexts[t]
      /\ Len(contexts') = s + 1 => contexts'[s + 1].heard = seq
  <2>1. CASE contexts' = contexts
    BY <2>1
  <2>2. CASE contexts' = Append(contexts, c) /\ c.heard = seq
    BY <2>2, AppendedAt
  <2> QED BY <2>1, <2>2
<1>2. ASSUME NEW t \in 0..(s - 1) PROVE HeardAfter(t)' = HeardAfter(t)
  <2>1. t + 1 \in 1..s /\ t < Len(contexts) /\ t < Len(contexts')
    BY <1>1
  <2> QED BY <1>1, <2>1 DEF HeardAfter
<1>3. HeardAfter(s)' = seq
  BY <1>1 DEF HeardAfter
<1>4. HeardAfter(s - 1) = run.progress.seq
  BY DEF HeardAfter, HistoryInv, CheckedFits
<1> QED BY <1>2, <1>3, <1>4

\* The count after a batch, from what is true of that batch.
LEMMA CountGoesOn ==
  ASSUME NEW s \in Nat \ {0}, NEW h, NEW g, \A t \in 1..(s - 1) : g[t] = h[t],
         NEW r \in Nat, NEW y, SeenFits(y, Past(g, s + 1)),
         run.progress.checked = s - 1, run.progress.repeated = r, CountTrue(h),
         \A t \in 0..(s - 1) : HeardAfter(t)' = HeardAfter(t),
         NEW moved \in BOOLEAN, run'.progress.checked = s,
         run'.progress.repeated = IF moved THEN 0 ELSE r + 1,
         ~moved => Repeats(g, s)',
         moved /\ AllRemembered(Past(g, s + 1)) => ~Repeats(g, s)'
  PROVE  CountTrue(g)'
<1>1. PICK n \in Int : n = (s - 1) - r
  OBVIOUS
<1>2. /\ 0 <= n /\ \A t \in (n + 1)..(s - 1) : Repeats(h, t)
      /\ n > 0 /\ AllRemembered(Past(h, s)) => ~Repeats(h, n)
  BY <1>1 DEF CountTrue
<1>3. \A t \in 1..(s - 1) : Repeats(g, t)' <=> Repeats(h, t)
  <2> SUFFICES ASSUME NEW t \in 1..(s - 1) PROVE Repeats(g, t)' <=> Repeats(h, t)
    OBVIOUS
  <2>1. NothingNew(g, t) <=> NothingNew(h, t)
    <3>1. t \in Nat \ {0} /\ \A u \in 1..t : g[u] = h[u]
      OBVIOUS
    <3> QED BY <3>1, NewsAgrees
  <2>2. HeardAfter(t)' = HeardAfter(t) /\ HeardAfter(t - 1)' = HeardAfter(t - 1)
    OBVIOUS
  <2>3. Repeats(g, t)' <=> NothingNew(g, t) /\ HeardAfter(t)' = HeardAfter(t - 1)'
    BY DEF Repeats, NothingNew
  <2>4. Repeats(h, t) <=> NothingNew(h, t) /\ HeardAfter(t) = HeardAfter(t - 1)
    BY DEF Repeats, NothingNew
  <2> QED BY <2>1, <2>2, <2>3, <2>4
<1>4. CASE moved
  <2>1. run'.progress.repeated = 0
    BY <1>4
  <2>2. 0 <= s - 0 /\ s - 0 = s /\ (s + 1)..s = {}
    OBVIOUS
  <2> QED BY <1>4, <2>1, <2>2 DEF CountTrue
<1>5. CASE ~moved
  <2>1. run'.progress.repeated = r + 1
    BY <1>5
  <2>2. s - (r + 1) = n /\ n <= s - 1
    BY <1>1
  <2>3. \A t \in (n + 1)..s : Repeats(g, t)'
    <3> SUFFICES ASSUME NEW t \in (n + 1)..s PROVE Repeats(g, t)'
      OBVIOUS
    <3>1. CASE t = s
      BY <1>5, <3>1
    <3>2. CASE t # s
      <4>1. t \in (n + 1)..(s - 1) /\ t \in 1..(s - 1)
        BY <1>2, <3>2
      <4> QED BY <1>2, <1>3, <4>1
    <3> QED BY <3>1, <3>2
  <2>4. ASSUME n > 0, AllRemembered(Past(g, s + 1)) PROVE ~Repeats(g, n)'
    <3>1. PICK seen, less : seen = Past(g, s + 1) /\ less = Past(h, s)
      OBVIOUS
    <3>2. less \subseteq seen
      <4>1. Past(g, s) = Past(h, s)
        BY PastAgrees
      <4>2. 1..(s - 1) \subseteq 1..((s + 1) - 1)
        OBVIOUS
      <4>3. Past(g, s) \subseteq Past(g, s + 1)
        BY <4>2 DEF Past
      <4> QED BY <3>1, <4>1, <4>3
    <3>3. SeenFits(y, seen) /\ AllRemembered(seen)
      BY <2>4, <3>1
    <3>4. AllRemembered(less)
      BY <3>2, <3>3, SeenFinite, RoomBefore
    <3>5. ~Repeats(h, n) /\ n \in 1..(s - 1)
      BY <1>2, <2>2, <2>4, <3>1, <3>4
    <3> QED BY <1>3, <3>5
  <2> QED BY <1>2, <2>1, <2>2, <2>3, <2>4 DEF CountTrue
<1> QED BY <1>4, <1>5

\* A later context: the batch of the last answer has been checked.
LEMMA NextContextHistory ==
  ASSUME ContextInv, HistoryInv, UNCHANGED steps, NEW f, NEW c, NEW s \in Nat \ {0},
         s = Len(steps), s = Len(contexts), run.step = s, run.status = "running",
         f.step = s, f.seq = Len(messages), f.observations # << >>,
         f.observations = Observations(steps[s]), f.seq >= run.progress.seq,
         run'.progress = observeProgress(run.progress, f), run'.tree = run.tree,
         \/ /\ contexts' = contexts /\ run'.step = s
            /\ run'.status = "cancel_requested" /\ Stage' = "build_context"
         \/ /\ contexts' = Append(contexts, c) /\ c.heard = f.seq /\ run'.step = s + 1
            /\ run'.status = "running" /\ Stage' = "model"
  PROVE  HistoryInv'
<1>1. PICK p, q, obs : /\ p = run.progress /\ q = run'.progress
                       /\ obs = f.observations
  OBVIOUS
<1>2. PICK h, g : h = Shown /\ g = [t \in 1..s |-> Observations(steps[t])]
  OBVIOUS
<1>3. p.checked = s - 1 /\ p.repeated \in Nat
  BY <1>1 DEF HistoryInv, CheckedFits, ContextInv, CountFits
<1>4. (\A t \in 1..(s - 1) : g[t] = h[t]) /\ g[s] = obs /\ h = [t \in 1..(s - 1) |-> Observations(steps[t])]
  BY <1>1, <1>2, <1>3 DEF Shown
<1>5. StepFits(steps[s])
  BY DEF HistoryInv, RowsFit
<1>6. /\ IsSeq(obs) /\ Len(obs) <= Len(steps[s].rows)
      /\ \A i \in 1..Len(obs) : /\ obs[i].indeterminate \in BOOLEAN
                                /\ obs[i].before = steps[s].rows[i].before
                                /\ Settled(steps[s].rows[i])
  BY <1>1, <1>5, ObservationsFit
<1>7. Len(obs) \in Nat /\ Len(steps[s].rows) \in Nat
  BY <1>5, <1>6 DEF StepFits, IsSeq
<1>8. 1 \in 1..Len(obs) /\ 1 <= Len(steps[s].rows)
  <2>1. Len(obs) # 0
    BY <1>1, <1>6 DEF IsSeq
  <2> QED BY <1>6, <1>7, <2>1
<1>9. FirstSettled
  <2>1. CASE s = 1
    BY <1>6, <1>8, <2>1 DEF FirstSettled
  <2>2. CASE s # 1
    <3>1. p.checked > 0
      BY <1>3, <2>2
    <3> QED BY <1>1, <3>1 DEF HistoryInv, CheckedFits
  <2> QED BY <2>1, <2>2
<1>10. p.trees = << >> => obs[1].before = Baseline
  <2> SUFFICES ASSUME p.trees = << >> PROVE obs[1].before = Baseline
    OBVIOUS
  <2>1. s = 1
    BY <1>1, <1>3 DEF HistoryInv, CheckedFits
  <2>2. steps[1].rows[1].before = Baseline
    BY <1>9 DEF HistoryInv, RowsFit
  <2> QED BY <1>6, <1>8, <2>1, <2>2
<1>11. PICK past : past = Past(g, s)
  OBVIOUS
<1>12. SeenFits(p, past)
  <2>1. (s - 1) + 1 = s /\ s - 1 \in Nat /\ s \in 1..((s - 1) + 1)
    OBVIOUS
  <2>2. Past(g, s) = Past(h, s)
    BY <1>4, PastAgrees
  <2> QED BY <1>1, <1>2, <1>3, <1>11, <2>1, <2>2 DEF HistoryInv, WindowsFit
<1>13. PICK y : y = ObserveAll(p, obs)
  OBVIOUS
<1>14. /\ SeenFits(y, Past(g, s + 1)) /\ y.trees # << >>
       /\ y.novel \in BOOLEAN /\ y.uncertain \in BOOLEAN
       /\ ~Moved(y) => NothingNew(g, s)
       /\ Moved(y) /\ AllRemembered(Past(g, s + 1)) => ~NothingNew(g, s)
  <2>1. obs # << >> /\ obs = g[s]
    BY <1>1, <1>4
  <2> QED BY <1>6, <1>10, <1>11, <1>12, <1>13, <2>1, BatchTrue
<1>15. PICK moved \in BOOLEAN : moved <=> f.seq > p.seq \/ Moved(y)
  OBVIOUS
<1>16. /\ q.checked = s /\ q.seq = f.seq /\ q.evidence = y.evidence /\ q.trees = y.trees
       /\ q.repeated = IF moved THEN 0 ELSE p.repeated + 1
  BY <1>1, <1>13, <1>15 DEF observeProgress, Moved
<1>17. Shown' = g
  BY <1>1, <1>2, <1>16 DEF Shown
<1>18. WindowsFit'
  <2>1. SeenFits(q, Past(g, s + 1))
    BY <1>14, <1>16 DEF SeenFits, TreesOf
  <2> QED BY <1>1, <1>16, <1>17, <2>1 DEF WindowsFit
<1>19. IsSeq(contexts) /\ p.seq \in Nat /\ f.seq \in Nat
  <2>1. /\ contexts \in Seq([c : Context, heard : Nat]) /\ IsSeq(contexts)
    BY LenProperties DEF ContextInv, ContextsFit, IsSeq
  <2>2. contexts[s].heard \in Nat
    <3>1. PICK C : C = [c : Context, heard : Nat]
      OBVIOUS
    <3>2. s \in 1..Len(contexts) /\ contexts \in Seq(C)
      BY <2>1, <3>1
    <3>3. contexts[s] \in C
      BY <3>2, ElementOfSeq
    <3> QED BY <3>1, <3>3
  <2>3. contexts[s].heard = p.seq
    <3>1. s - 1 < s /\ (s - 1) + 1 = s
      OBVIOUS
    <3> QED BY <1>1, <1>3, <3>1 DEF HistoryInv, CheckedFits
  <2> QED BY <2>1, <2>2, <2>3 DEF ContextInv, RowsTyped, IsSeq
<1>20. /\ \A t \in 0..(s - 1) : HeardAfter(t)' = HeardAfter(t)
       /\ HeardAfter(s)' = f.seq /\ HeardAfter(s - 1)' = p.seq
  <2>1. run'.progress.seq = f.seq /\ run.progress.checked = s - 1
    BY <1>1, <1>3, <1>16
  <2>2. contexts' = contexts \/ (contexts' = Append(contexts, c) /\ c.heard = f.seq)
    OBVIOUS
  <2>3. PICK seq : seq = f.seq
    OBVIOUS
  <2>4. /\ \A t \in 0..(s - 1) : HeardAfter(t)' = HeardAfter(t)
        /\ HeardAfter(s)' = seq /\ HeardAfter(s - 1) = run.progress.seq
    BY <1>19, <2>1, <2>2, <2>3, HeardOn
  <2>5. s - 1 \in 0..(s - 1)
    OBVIOUS
  <2> QED BY <1>1, <2>3, <2>4, <2>5
<1>21. Repeats(g, s)' <=> NothingNew(g, s) /\ ~(f.seq > p.seq)
  <2>1. Repeats(g, s)' <=> NothingNew(g, s) /\ HeardAfter(s)' = HeardAfter(s - 1)'
    BY DEF Repeats, NothingNew
  <2>2. f.seq = p.seq <=> ~(f.seq > p.seq)
    BY <1>1, <1>19
  <2> QED BY <1>20, <2>1, <2>2
<1>22. /\ ~moved => Repeats(g, s)'
       /\ moved /\ AllRemembered(Past(g, s + 1)) => ~Repeats(g, s)'
  BY <1>14, <1>15, <1>21
<1>23. CountTrue(Shown)'
  <2>1. CountTrue(h)
    BY <1>2 DEF HistoryInv
  <2>2. /\ run.progress.checked = s - 1 /\ run'.progress.checked = s
        /\ run'.progress.repeated = IF moved THEN 0 ELSE p.repeated + 1
    BY <1>1, <1>3, <1>16
  <2>3. PICK r \in Nat : r = p.repeated
    BY <1>3
  <2>4. CountTrue(g)'
    BY <1>1, <1>4, <1>14, <1>20, <1>22, <2>1, <2>2, <2>3, CountGoesOn
  <2> QED BY <1>17, <2>4 DEF CountTrue, Repeats, HeardAfter
<1>24. RowsFit'
  BY RowsKept DEF HistoryInv
<1>25. CheckedFits'
  <2>1. FirstSettled' /\ run'.progress.trees # << >> /\ run'.progress.checked = s
        /\ run'.progress.seq = f.seq
    BY <1>1, <1>9, <1>14, <1>16 DEF FirstSettled
  <2>2. CASE contexts' = contexts /\ run'.step = s /\ run'.status = "cancel_requested"
    BY <2>1, <2>2 DEF CheckedFits
  <2>3. CASE /\ contexts' = Append(contexts, c) /\ c.heard = f.seq /\ run'.step = s + 1
             /\ run'.status = "running"
    <3>1. Len(contexts') = s + 1 /\ contexts'[s + 1] = c
      BY <1>19, <2>3, AppendedAt
    <3> QED BY <2>1, <2>3, <3>1 DEF CheckedFits
  <2> QED BY <2>2, <2>3
<1> QED BY <1>18, <1>23, <1>24, <1>25 DEF HistoryInv

\* The commit of a context checks the batch before it.
LEMMA ContextBuiltHistory ==
  ASSUME ContextInv, HistoryInv, NEW w \in Workers, ContextBuilt(w)
  PROVE  HistoryInv'
<1>1. PICK f, p, c : \E s \in Nat :
        /\ p = observeProgress(run.progress, f) /\ f.step = s /\ f.seq = Len(messages)
        /\ s = Len(steps) /\ s = Len(contexts) /\ run.step = s /\ run.status = "running"
        /\ s > 0 => /\ f.observations # << >> /\ f.observations = Observations(steps[s])
                    /\ f.seq >= run.progress.seq
        /\ UNCHANGED steps /\ run'.progress = p /\ run'.tree = run.tree
        /\ \/ /\ contexts' = contexts /\ run'.step = s
              /\ run'.status = "cancel_requested" /\ Stage' = "build_context"
           \/ /\ contexts' = Append(contexts, c) /\ c.heard = f.seq /\ run'.step = s + 1
              /\ run'.status = "running" /\ Stage' = "model"
  BY ContextBuiltLeaves
<1>2. PICK s \in Nat :
        /\ p = observeProgress(run.progress, f) /\ f.step = s /\ f.seq = Len(messages)
        /\ s = Len(steps) /\ s = Len(contexts) /\ run.step = s /\ run.status = "running"
        /\ s > 0 => /\ f.observations # << >> /\ f.observations = Observations(steps[s])
                    /\ f.seq >= run.progress.seq
        /\ UNCHANGED steps /\ run'.progress = p /\ run'.tree = run.tree
        /\ \/ /\ contexts' = contexts /\ run'.step = s
              /\ run'.status = "cancel_requested" /\ Stage' = "build_context"
           \/ /\ contexts' = Append(contexts, c) /\ c.heard = f.seq /\ run'.step = s + 1
              /\ run'.status = "running" /\ Stage' = "model"
  BY <1>1
<1>3. CASE s = 0
  <2>1. p = [NoProgress EXCEPT !.ready = TRUE, !.seq = f.seq]
    BY <1>2, <1>3 DEF observeProgress
  <2>2. IsSeq(contexts)
    BY LenProperties DEF ContextInv, ContextsFit, IsSeq
  <2>3. /\ UNCHANGED steps /\ Len(contexts) = 0 /\ Len(steps) = 0
        /\ run'.progress = [NoProgress EXCEPT !.ready = TRUE, !.seq = f.seq]
        /\ run'.tree = run.tree
        /\ \/ /\ contexts' = contexts /\ run'.step = 0
              /\ run'.status = "cancel_requested" /\ Stage' = "build_context"
           \/ /\ contexts' = Append(contexts, c) /\ c.heard = f.seq /\ run'.step = 1
              /\ run'.status = "running" /\ Stage' = "model"
    BY <1>2, <1>3, <2>1
  <2> QED BY <2>2, <2>3, FirstContextHistory
<1>4. CASE s # 0
  <2>1. s \in Nat \ {0} /\ s > 0
    BY <1>4
  <2> QED BY <1>2, <2>1, NextContextHistory
<1> QED BY <1>3, <1>4

-----------------------------------------------------------------------------
(* The count is true *)

\* Nothing has been shown.
LEMMA HistoryInit == ProgressInit => HistoryInv
<1> SUFFICES ASSUME ProgressInit PROVE HistoryInv
  OBVIOUS
<1>1. /\ run.step = 0 /\ run.stage = "build_context" /\ run.tree = Baseline
      /\ run.progress = NoProgress
  BY DEF ProgressInit
<1>2. /\ NoProgress.checked = 0 /\ NoProgress.repeated = 0
      /\ NoProgress.evidence = << >> /\ NoProgress.trees = << >>
  BY DEF NoProgress
<1>3. Len(steps) = 0 /\ Len(contexts) = 0
  BY DEF ProgressInit
<1>4. CheckedFits
  BY <1>1, <1>2, <1>3 DEF CheckedFits
<1>5. RowsFit
  BY <1>1, <1>3 DEF RowsFit, Stage, FirstSettled
<1>6. WindowsFit
  <2>1. PICK h, x : h = Shown /\ x = run.progress
    OBVIOUS
  <2>2. SeenFits(x, Past(h, 1))
    BY <1>1, <1>2, <2>1, NothingSeen
  <2> QED BY <1>1, <1>2, <2>1, <2>2 DEF WindowsFit
<1>7. CountTrue(Shown)
  BY <1>1, <1>2 DEF CountTrue
<1> QED BY <1>4, <1>5, <1>6, <1>7 DEF HistoryInv

\* Every step keeps HistoryInv.
LEMMA HistoryNext ==
  ContextInv /\ HistoryInv /\ [ProgressNext]_progressVars => HistoryInv'
<1> SUFFICES ASSUME ContextInv, HistoryInv, [ProgressNext]_progressVars PROVE HistoryInv'
  OBVIOUS
<1>1. CASE UNCHANGED progressVars
  BY <1>1, StillHistory DEF progressVars, Stage
<1>2. ASSUME NEW w \in Workers,
             ModelCompleted(w) \/ EffectCompleted(w) \/ Verify(w) \/ ContextBuilt(w)
      PROVE  HistoryInv'
  BY <1>2, ModelCompletedHistory, EffectCompletedHistory, VerifyHistory, ContextBuiltHistory
<1>3. ASSUME NEW w \in Workers,
             \/ Claim(w) \/ Leave(w) \/ Adopt(w) \/ ConfirmStop(w)
             \/ LoadRun(w) \/ BuildContext(w) \/ ContextProgress(w) \/ BuildFails(w)
             \/ ContextRefused(w)
      PROVE  HistoryInv'
  BY <1>3, ControlHistory
<1>4. CASE LeaseExpires \/ CancelRun \/ \E k \in Keys : AddMessage(k)
  BY <1>4, ControlHistory
<1> QED BY <1>1, <1>2, <1>3, <1>4 DEF ProgressNext

\* The count of repeated batches never exceeds the batches in a row that really
\* brought nothing, is their number while the windows have room, and a run is
\* stopped for it only then and with every message heard: observeProgress judges
\* each batch once, in the transaction that compares the report with the rows
\* (validateContextProgress), whatever workers died or were fenced meanwhile, and
\* rows that have been judged no longer change.
THEOREM StopsJustified == ProgressSpec => []StopJustified
<1>1. ContextInv /\ HistoryInv => StopJustified
  BY DEF ContextInv, CountFits, StopHeard, HistoryInv, StopJustified
<1> QED BY <1>1, ContextInit, ContextNext, HistoryInit, HistoryNext, PTL DEF ProgressSpec

-----------------------------------------------------------------------------
(* A snapshot can be read again *)

MessagesBounded ==
  /\ Len(messages) <= MaxMessages
  /\ run.progress.seq \in Nat /\ run.progress.seq <= Len(messages)

\* The bounds of a snapshot: no step later than the run's, no count over the
\* limit, and windows within their size that hold nothing twice.
SnapshotFits ==
  /\ run.progress.checked <= run.step /\ run.progress.repeated <= run.limit
  /\ run.progress.seq <= MaxMessages
  /\ Len(run.progress.evidence) <= EvidenceWindow /\ Distinct(run.progress.evidence)
  /\ Len(run.progress.trees) <= TreeWindow /\ Distinct(run.progress.trees)

\* The messages of a run, and those its last report had, stay within the bound.
LEMMA MessagesNext ==
  ContextInv /\ HistoryInv /\ MessagesBounded /\ [ProgressNext]_progressVars
    => MessagesBounded'
<1> SUFFICES ASSUME ContextInv, HistoryInv, MessagesBounded, [ProgressNext]_progressVars
             PROVE  MessagesBounded'
  OBVIOUS
<1>1. /\ DOMAIN run = RunKeys /\ IsSeq(messages) /\ Len(messages) \in Nat
      /\ MaxMessages \in Nat
  BY ProgressAssumption DEF ContextInv, RowsTyped, IsSeq
<1>2. ASSUME run'.progress = run.progress, Len(messages') = Len(messages)
      PROVE  MessagesBounded'
  BY <1>2 DEF MessagesBounded
<1>3. ASSUME NEW k \in Keys, AddMessage(k) PROVE MessagesBounded'
  <2>1. PICK e : messages' = Append(messages, e)
    BY <1>3 DEF AddMessage
  <2>2. Len(messages') = Len(messages) + 1 /\ run' = run /\ Len(messages) < MaxMessages
    BY <1>1, <1>3, <2>1, SeqAppended DEF AddMessage
  <2> QED BY <1>1, <2>2 DEF MessagesBounded
<1>4. ASSUME NEW w \in Workers, BuildContext(w) PROVE MessagesBounded'
  <2>1. messages' = Taken(run.step) /\ run' = run
    BY <1>4 DEF BuildContext
  <2>2. DOMAIN messages' = DOMAIN messages /\ messages' = [i \in DOMAIN messages' |-> messages'[i]]
    BY <2>1 DEF Taken
  <2>3. Len(messages') = Len(messages)
    BY <1>1, <2>2, SeqMapped
  <2> QED BY <1>2, <2>1, <2>3
<1>5. ASSUME NEW w \in Workers, ContextBuilt(w) PROVE MessagesBounded'
  <2>1. PICK f, p, c : \E s \in Nat :
          /\ p = observeProgress(run.progress, f) /\ f.seq = Len(messages)
          /\ run'.progress = p
    BY <1>5, ContextBuiltLeaves, Zenon
  <2>2. p.seq = f.seq
    BY <2>1 DEF observeProgress, NoProgress
  <2>3. UNCHANGED messages
    BY <1>5 DEF ContextBuilt
  <2> QED BY <1>1, <2>1, <2>2, <2>3 DEF MessagesBounded
<1>6. ASSUME NEW w \in Workers,
             \/ Claim(w) \/ Adopt(w) \/ ConfirmStop(w) \/ BuildFails(w)
             \/ ModelCompleted(w) \/ EffectCompleted(w) \/ Verify(w)
      PROVE  MessagesBounded'
  <2>1. UNCHANGED messages
    BY <1>6 DEF Claim, Adopt, ConfirmStop, BuildFails, ModelCompleted, EffectCompleted, Verify
  <2>2. CASE Claim(w)
    BY <1>1, <1>2, <2>1, <2>2 DEF Claim, Commit, RunKeys
  <2>3. CASE Adopt(w) \/ ConfirmStop(w) \/ BuildFails(w)
    BY <1>1, <1>2, <2>1, <2>3 DEF Adopt, ConfirmStop, BuildFails, Commit, stop, RunKeys
  <2>4. CASE ModelCompleted(w)
    BY <1>1, <1>2, <2>1, <2>4 DEF ModelCompleted, Commit, RunKeys
  <2>5. CASE EffectCompleted(w)
    <3>1. \E tree, stage : Commit([run EXCEPT !.tree = tree, !.report = FALSE, !.stage = stage])
      BY <2>5 DEF EffectCompleted
    <3> QED BY <1>1, <1>2, <2>1, <3>1 DEF Commit, RunKeys
  <2>6. CASE Verify(w)
    BY <1>1, <1>2, <2>1, <2>6 DEF Verify, Commit, RunKeys
  <2> QED BY <1>6, <2>2, <2>3, <2>4, <2>5, <2>6
<1>7. ASSUME NEW w \in Workers,
             Leave(w) \/ LoadRun(w) \/ ContextProgress(w) \/ ContextRefused(w)
      PROVE  MessagesBounded'
  BY <1>2, <1>7 DEF Leave, LoadRun, ContextProgress, ContextRefused
<1>8. CASE LeaseExpires \/ CancelRun
  BY <1>1, <1>2, <1>8 DEF LeaseExpires, CancelRun, Commit, stop, RunKeys
<1>9. CASE UNCHANGED progressVars
  BY <1>2, <1>9 DEF progressVars
<1> QED BY <1>3, <1>4, <1>5, <1>6, <1>7, <1>8, <1>9 DEF ProgressNext

\* validateProgressState never refuses a snapshot that observeProgress has
\* written, whatever batches, messages and stops led to it: no run is lost to the
\* check (validateState) that its snapshot has to pass before each later event.
THEOREM SnapshotsValid == ProgressSpec => []SnapshotFits
<1>1. ProgressInit => MessagesBounded
  <2> SUFFICES ASSUME ProgressInit PROVE MessagesBounded
    OBVIOUS
  <2>1. Len(messages) = 0 /\ run.progress = NoProgress
    BY DEF ProgressInit
  <2>2. NoProgress.seq = 0
    BY DEF NoProgress
  <2> QED BY <2>1, <2>2, ProgressAssumption DEF MessagesBounded
<1>2. ASSUME ContextInv, HistoryInv, MessagesBounded PROVE SnapshotFits
  <2>1. /\ run.progress.checked <= run.step /\ run.progress.repeated <= run.limit
    BY <1>2 DEF HistoryInv, CheckedFits, ContextInv, CountFits
  <2>2. run.progress.seq <= MaxMessages
    <3>1. run.progress.seq \in Nat /\ Len(messages) \in Nat /\ MaxMessages \in Nat
      BY <1>2, ProgressAssumption DEF MessagesBounded, ContextInv, RowsTyped, IsSeq
    <3>2. run.progress.seq <= Len(messages) /\ Len(messages) <= MaxMessages
      BY <1>2 DEF MessagesBounded
    <3> QED BY <3>1, <3>2
  <2>3. PICK x, h : x = run.progress /\ h = Shown
    OBVIOUS
  <2>4. PICK seen : seen = Past(h, x.checked + 1)
    OBVIOUS
  <2>5. SeenFits(x, seen)
    BY <1>2, <2>3, <2>4 DEF HistoryInv, WindowsFit
  <2>6. Len(x.evidence) <= EvidenceWindow /\ Distinct(x.evidence)
    BY <2>5 DEF SeenFits, Fits
  <2>7. Len(x.trees) <= TreeWindow /\ Distinct(x.trees)
    <3>1. CASE x.trees = << >>
      BY <3>1, ProgressAssumption DEF Distinct
    <3>2. CASE x.trees # << >>
      BY <2>5, <3>2 DEF SeenFits, Fits, TreesOf
    <3> QED BY <3>1, <3>2
  <2> QED BY <2>1, <2>2, <2>3, <2>6, <2>7 DEF SnapshotFits
<1> QED BY <1>1, <1>2, ContextInit, ContextNext, HistoryInit, HistoryNext, MessagesNext, PTL
        DEF ProgressSpec
=============================================================================

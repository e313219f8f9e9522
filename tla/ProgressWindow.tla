--------------------------- MODULE ProgressWindow ---------------------------
(***************************************************************************)
(* The context of each step of a run: the user messages it carries and the *)
(* count of batches without progress that stops the run.                   *)
(*                                                                         *)
(* The driver (internal/application/context.go, progress.go) takes the     *)
(* messages, builds the context and a report of what the last batch showed *)
(* in several transactions; the store (internal/persistence/progress.go)   *)
(* binds the report to the rows when the context is committed, and the     *)
(* reducer (internal/runtime/progress.go) keeps the windows and the count. *)
(* A client may add a message, or cancel, between any two of these steps,  *)
(* and another worker may take the run over.                               *)
(*                                                                         *)
(* The model's answer and the execution of a batch are reduced to the rows *)
(* they leave; RunControl has their stages, approvals and receipts.        *)
(***************************************************************************)
EXTENDS Integers, Sequences, FiniteSets, SequencesExt

CONSTANTS Workers, NoWorker,
          Keys,           \* idempotency keys of the clients' messages
          Plans,          \* batches the model may ask for: sequences of kinds
          Kinds,          \* kinds that occur in Plans
          Results,        \* normalised results of calls
          Truncated,      \* a result that was cut
          Outcomes,       \* by kind, how a call may end: pairs of status and result
          Trees, Baseline,\* workspace trees by hash; the imported one
          Checks,         \* verify runs of a finish: 2 with a target, else 1
          NoProgressLimits, \* values of Limits.MaxNoProgressBatches of the run
          MaxModelRounds, \* Limits.MaxModelRounds
          EvidenceWindow, TreeWindow, \* ProgressEvidenceWindow, ProgressTreeWindow
          MaxMessages,    \* messages of a run
          Native,         \* whether the provider's answers carry its state
          CompactEvery,   \* contexts between two that start the provider afresh
          MaxEpoch        \* bound: claims

ASSUME ProgressAssumption ==
  /\ NoWorker \notin Workers /\ Truncated \notin Results
  /\ Outcomes \in [Kinds \cup {"verify"} ->
                    SUBSET ({"succeeded", "failed"} \X (Results \cup {Truncated}))]
  /\ Kinds \subseteq {"read", "write"} /\ Plans \subseteq Seq(Kinds) \ {<< >>}
  /\ Native \in BOOLEAN /\ Baseline \in Trees /\ Checks \in 1..2
  /\ NoProgressLimits \subseteq Nat \ {0}
  /\ {MaxModelRounds, EvidenceWindow, TreeWindow, MaxMessages,
      CompactEvery, MaxEpoch} \subseteq Nat \ {0}

VARIABLES run,      \* the row of the run with its snapshot
          messages, \* run_messages, in order of their seq
          steps,    \* what each completed step left: its attempt and effects
          contexts, \* the context committed for each step
          worker    \* what each worker is doing

progressVars == <<run, messages, steps, contexts, worker>>

Unapplied == -1
NoFrame == [seq |-> 0, step |-> 0, report |-> FALSE, observations |-> << >>]
NoContext == [native |-> FALSE, from |-> 1, upto |-> 0]
Idle == [pc |-> "idle", epoch |-> 0, version |-> 0, step |-> 0, report |-> FALSE,
         context |-> NoContext, frame |-> NoFrame]
NoProgress == [ready |-> FALSE, checked |-> 0, seq |-> 0, repeated |-> 0,
               evidence |-> << >>, trees |-> << >>]

\* The run after WorkspaceReady, without a lease that holds.
ProgressInit ==
  /\ \E limit \in NoProgressLimits :
       run = [status |-> "running", stage |-> "build_context", resume |-> "none",
              reason |-> "none", step |-> 0, version |-> 0, report |-> FALSE,
              owner |-> NoWorker, epoch |-> 0, live |-> FALSE,
              tree |-> Baseline, progress |-> NoProgress,
              limit |-> limit]
  /\ messages = << >>
  /\ steps = << >>
  /\ contexts = << >>
  /\ worker = [w \in Workers |-> Idle]

-----------------------------------------------------------------------------
(* Leases and control *)

Commit(r) == run' = [r EXCEPT !.version = @ + 1]
\* The worker goes back to the loop of Drive.
Reload(w) == worker' = [worker EXCEPT ![w] =
                          [Idle EXCEPT !.pc = "drive", !.epoch = worker[w].epoch]]

\* The lease check of Transition and of ConsumeMessages.
Holds(w) == run.live /\ run.owner = w /\ run.epoch = worker[w].epoch

\* stop: the run has to be stopped before it ends.
stop(r, reason) == [r EXCEPT !.status = "cancel_requested", !.reason = reason]

Claim(w) ==
  /\ worker[w].pc = "idle" /\ ~run.live /\ run.epoch < MaxEpoch
  /\ run.status \in {"running", "cancel_requested"}
  /\ LET leased == [run EXCEPT !.owner = w, !.epoch = @ + 1, !.live = TRUE]
     IN Commit(IF run.status = "cancel_requested" THEN leased
               ELSE [leased EXCEPT !.stage = "adopt_workspace",
                                   !.resume = IF run.stage = "adopt_workspace"
                                              THEN @ ELSE run.stage])
  /\ worker' = [worker EXCEPT ![w] = [Idle EXCEPT !.pc = "drive",
                                                  !.epoch = run.epoch + 1]]
  /\ UNCHANGED <<messages, steps, contexts>>

LeaseExpires ==
  /\ run.live /\ run.epoch < MaxEpoch
  /\ run' = [run EXCEPT !.live = FALSE]
  /\ UNCHANGED <<messages, steps, contexts, worker>>

\* The worker dies, or Drive returns: its run has ended or is another's.
Leave(w) ==
  /\ worker[w].pc # "idle"
  /\ worker' = [worker EXCEPT ![w] = Idle]
  /\ UNCHANGED <<run, messages, steps, contexts>>

\* The owner's event at a stage, committed from what it has just loaded.
At(w, stage) ==
  /\ worker[w].pc = "drive" /\ Holds(w)
  /\ run.status = "running" /\ run.stage = stage

\* adopt, and the command of the stage that was interrupted.
Adopt(w) ==
  /\ At(w, "adopt_workspace")
  /\ Commit([run EXCEPT !.stage = run.resume, !.resume = "none"])
  /\ UNCHANGED <<messages, steps, contexts, worker>>

CancelRun ==
  /\ run.status = "running"
  /\ Commit(stop(run, "cancellation requested"))
  /\ UNCHANGED <<messages, steps, contexts, worker>>

ConfirmStop(w) ==
  /\ worker[w].pc = "drive" /\ Holds(w) /\ run.status = "cancel_requested"
  /\ Commit([run EXCEPT !.status = "ended", !.stage = "stopped", !.live = FALSE])
  /\ UNCHANGED <<messages, steps, contexts, worker>>

-----------------------------------------------------------------------------
(* The model's answer and its batch *)

Row(kind, status) == [kind |-> kind, status |-> status, result |-> Truncated,
                      before |-> run.tree, after |-> run.tree]

\* The answer is stored with its attempt, and the effects of its calls are
\* planned.
ModelCompleted(w) ==
  /\ At(w, "model")
  /\ \/ \E plan \in Plans :
          /\ steps' = Append(steps, [finish |-> FALSE,
               rows |-> [i \in DOMAIN plan |-> Row(plan[i], "planned")]])
          /\ Commit([run EXCEPT !.stage = "execute_effects"])
     \/ /\ steps' = Append(steps, [finish |-> TRUE, rows |-> << >>])
        /\ Commit([run EXCEPT !.stage = "verify"])
  /\ UNCHANGED <<messages, contexts, worker>>

\* EffectCompleted; after the last call, or the first that failed, also
\* ResultsIngested.  A call that failed may have changed the workspace.
EffectCompleted(w) ==
  /\ At(w, "execute_effects")
  /\ LET rows == steps[run.step].rows
         i == SelectInSeq(rows, LAMBDA r : r.status = "planned")
     IN \E o \in Outcomes[rows[i].kind],
           tree \in IF rows[i].kind = "write" THEN Trees ELSE {run.tree} :
          /\ steps' = [steps EXCEPT ![run.step].rows[i] =
                         [kind |-> @.kind, status |-> o[1], result |-> o[2],
                          before |-> run.tree, after |-> tree]]
          /\ Commit([run EXCEPT
               !.tree = tree, !.report = FALSE,
               !.stage = IF o[1] = "failed" \/ i = Len(rows) THEN "build_context" ELSE @])
  /\ UNCHANGED <<messages, contexts, worker>>

\* verify: the checks run on the workspace as it is.  If they pass, the run is
\* finalized; if not, the model is asked again with the report.
Verify(w) ==
  /\ At(w, "verify")
  /\ \/ /\ Commit([run EXCEPT !.status = "ended", !.stage = "stopped", !.live = FALSE])
        /\ UNCHANGED steps
     \/ \E o \in [1..Checks -> Outcomes["verify"]] :
          /\ steps' = [steps EXCEPT ![run.step].rows =
               [i \in 1..Checks |-> [Row("verify", o[i][1]) EXCEPT !.result = o[i][2]]]]
          /\ Commit([run EXCEPT !.stage = "build_context", !.report = TRUE])
  /\ UNCHANGED <<messages, contexts, worker>>

-----------------------------------------------------------------------------
(* Messages *)

\* A request that repeats its key is answered with the message it stored.
AddMessage(k) ==
  /\ \A i \in DOMAIN messages : messages[i].key # k
  /\ run.status # "ended"
  /\ ~(run.status = "cancel_requested" /\ run.reason = "repeated_no_progress")
  /\ Len(messages) < MaxMessages
  /\ messages' = Append(messages, [key |-> k, applied |-> Unapplied])
  /\ UNCHANGED <<run, steps, contexts, worker>>

\* GetRun in the loop of Drive, and the command to build the context.
LoadRun(w) ==
  /\ worker[w].pc = "drive" /\ run.owner = w /\ run.epoch = worker[w].epoch
  /\ run.status = "running" /\ run.stage = "build_context"
  /\ worker' = [worker EXCEPT ![w] =
       [Idle EXCEPT !.pc = "loaded", !.epoch = run.epoch, !.version = run.version,
                    !.step = run.step, !.report = run.report]]
  /\ UNCHANGED <<run, messages, steps, contexts>>

\* ConsumeMessages: what no step has taken is this step's.
Taken(step) ==
  [i \in DOMAIN messages |->
     IF messages[i].applied = Unapplied THEN [messages[i] EXCEPT !.applied = step]
     ELSE messages[i]]

\* buildContext.  If the last answer came with the provider's state the context
\* goes on from it and carries only what the request before it did not have;
\* every CompactEvery steps, and without such a state, it carries everything.
BuildContext(w) ==
  /\ worker[w].pc = "loaded"
  /\ Holds(w) /\ run.stage = "build_context" /\ run.step = worker[w].step
  /\ messages' = Taken(run.step)
  /\ LET n == Len(steps)
         native == n > 0 /\ Native /\ n % CompactEvery # 0
     IN worker' = [worker EXCEPT ![w].pc = "built",
          ![w].context = [native |-> native, upto |-> Len(messages),
                          from |-> IF native THEN contexts[n].c.upto + 1 ELSE 1]]
  /\ UNCHANGED <<run, steps, contexts>>

-----------------------------------------------------------------------------
(* The report on the batch *)

Settled(row) == row.status # "planned"

\* observation: a result that was cut shows nothing that can be compared, and
\* what a read shows does not depend on the rest of the workspace.
observation(row) ==
  [indeterminate |-> row.result = Truncated,
   fingerprint |-> IF row.kind = "read" THEN <<row.kind, row.status, row.result>>
                   ELSE <<row.kind, row.status, row.result, row.before, row.after>>,
   before |-> row.before, after |-> row.after]

\* The rows with a receipt: calls run in their order, so these come first.  What
\* the checks of a finish show includes the verdict on all of them.
Observations(step) ==
  LET rows == step.rows
      settled == {i \in DOMAIN rows : Settled(rows[i])}
      verdict == [i \in settled |-> rows[i].status]
      shown(o) == IF step.finish THEN [o EXCEPT !.fingerprint = <<@, verdict>>] ELSE o
  IN [i \in settled |-> shown(observation(rows[i]))]

\* contextProgress: the report is an artifact of its own, bound to the context.
ContextProgress(w) ==
  /\ worker[w].pc = "built"
  /\ LET s == worker[w].step
         f == [seq |-> worker[w].context.upto, step |-> s,
               report |-> s > 0 /\ steps[s].finish,
               observations |-> IF s = 0 THEN << >> ELSE Observations(steps[s])]
     IN /\ f.report => worker[w].report
        /\ worker' = [worker EXCEPT ![w].pc = "reported", ![w].frame = f]
  /\ UNCHANGED <<run, messages, steps, contexts>>

\* The context is too large, or an artifact cannot be read: EventFailed.
BuildFails(w) ==
  /\ worker[w].pc \in {"loaded", "built"}
  /\ Holds(w) /\ run.version = worker[w].version
  /\ Commit(stop(run, "failed"))
  /\ Reload(w)
  /\ UNCHANGED <<messages, steps, contexts>>

-----------------------------------------------------------------------------
(* The windows *)

\* Adds only what is not there, and gives up the oldest.
remember(list, value, capacity) ==
  IF Contains(list, value) THEN list
  ELSE LET longer == Append(list, value)
       IN SubSeq(longer, Len(longer) - Min({capacity, Len(longer)}) + 1, Len(longer))

\* One observation.  The tree before the first is where the run began.
Observe(seen, o) ==
  LET start == IF seen.trees = << >> THEN <<o.before>> ELSE seen.trees
      newTree == ~Contains(start, o.after)
      newFact == ~o.indeterminate /\ ~Contains(seen.evidence, o.fingerprint)
  IN [trees |-> remember(start, o.after, TreeWindow),
      evidence |-> IF o.indeterminate THEN seen.evidence
                   ELSE remember(seen.evidence, o.fingerprint, EvidenceWindow),
      novel |-> seen.novel \/ newTree \/ newFact,
      uncertain |-> seen.uncertain \/ o.indeterminate]

\* The observations of a batch, in the order of its receipts.
ObserveAll(p, observations) ==
  LET seen[i \in 0..Len(observations)] ==
        IF i = 0 THEN [trees |-> p.trees, evidence |-> p.evidence,
                       novel |-> FALSE, uncertain |-> FALSE]
        ELSE Observe(seen[i - 1], observations[i])
  IN seen[Len(observations)]

\* Mutant: a batch whose result was cut counts like one that showed nothing.
observeCut(p, f) ==
  IF f.step = 0 THEN [NoProgress EXCEPT !.ready = TRUE, !.seq = f.seq]
  ELSE LET seen == ObserveAll(p, f.observations)
       IN [ready |-> TRUE, checked |-> f.step, seq |-> f.seq,
           repeated |-> IF f.seq > p.seq \/ seen.novel THEN 0 ELSE p.repeated + 1,
           evidence |-> seen.evidence, trees |-> seen.trees]

observeProgress(p, f) ==
  IF f.step = 0 THEN [NoProgress EXCEPT !.ready = TRUE, !.seq = f.seq]
  ELSE LET seen == ObserveAll(p, f.observations)
           moved == f.seq > p.seq \/ seen.novel \/ seen.uncertain
       IN [ready |-> TRUE, checked |-> f.step, seq |-> f.seq,
           repeated |-> IF moved THEN 0 ELSE p.repeated + 1,
           evidence |-> seen.evidence, trees |-> seen.trees]

-----------------------------------------------------------------------------
(* The commit of a context *)

\* Mutant: a message that came while the context was built does not matter.
validateUnderLatest(f) ==
  /\ f.seq <= Len(messages)
  /\ f.step = run.step
  /\ \A i \in 1..f.seq : messages[i].applied \in 0..run.step
  /\ f.step > 0 => f.report = run.report /\ f.observations = Observations(steps[f.step])

\* The report has to have every message and every receipt of the step.
validateContextProgress(f) ==
  /\ f.seq = Len(messages)
  /\ f.step = run.step
  /\ \A i \in 1..f.seq : messages[i].applied \in 0..run.step
  /\ f.step > 0 => /\ f.report = run.report
                   /\ f.observations # << >>
                   /\ f.observations = Observations(steps[f.step])

\* The reducer's part: the fence, the stage and the order of the reports.
Transitions(w) ==
  /\ Holds(w) /\ run.version = worker[w].version
  /\ run.status = "running" /\ run.stage = "build_context"
  /\ run.progress.ready => /\ worker[w].frame.seq >= run.progress.seq
                           /\ worker[w].frame.step > run.progress.checked
  /\ worker[w].frame.step > 0 => run.progress.ready

Accepted(w) == validateContextProgress(worker[w].frame) /\ Transitions(w)

\* ContextBuilt.  heard records how many messages had been accepted by then.  The
\* budget is reached at the last round at the latest; the deadline and the cost
\* are not in the state, so that it may be reached in any round before.
ContextBuilt(w) ==
  /\ worker[w].pc = "reported" /\ Accepted(w)
  /\ LET p == observeProgress(run.progress, worker[w].frame)
         r == [run EXCEPT !.progress = p]
     IN \/ /\ Commit(stop(r, "model budget reached"))
           /\ UNCHANGED contexts
        \/ /\ run.step < MaxModelRounds /\ p.repeated >= run.limit
           /\ Commit(stop(r, "repeated_no_progress"))
           /\ UNCHANGED contexts
        \/ /\ run.step < MaxModelRounds /\ p.repeated < run.limit
           /\ Commit([r EXCEPT !.stage = "model", !.step = @ + 1])
           /\ contexts' = Append(contexts,
                [c |-> worker[w].context, heard |-> Len(messages)])
  /\ Reload(w)
  /\ UNCHANGED <<messages, steps>>

\* ErrContextStale and the other refusals: the run is read again.
ContextRefused(w) ==
  /\ worker[w].pc = "reported" /\ ~Accepted(w)
  /\ Reload(w)
  /\ UNCHANGED <<run, messages, steps, contexts>>

ProgressNext ==
  \/ \E w \in Workers :
       \/ Claim(w) \/ Leave(w) \/ Adopt(w) \/ ConfirmStop(w)
       \/ ModelCompleted(w) \/ EffectCompleted(w) \/ Verify(w)
       \/ LoadRun(w) \/ BuildContext(w) \/ ContextProgress(w) \/ BuildFails(w)
       \/ ContextBuilt(w) \/ ContextRefused(w)
  \/ \E k \in Keys : AddMessage(k)
  \/ LeaseExpires \/ CancelRun

ProgressSpec == ProgressInit /\ [][ProgressNext]_progressVars

-----------------------------------------------------------------------------
(* Properties *)

\* What the rows of each checked step show, without a limit on memory.
Shown == [s \in 1..run.progress.checked |-> Observations(steps[s])]

\* What a history shows before step s, and before its i-th observation.
Past(h, s) == UNION {Range(h[t]) : t \in 1..s - 1}
Before(h, s, i) == Past(h, s) \cup {h[s][j] : j \in 1..i - 1}

Facts(seen) == {o.fingerprint : o \in {x \in seen : ~x.indeterminate}}
Places(seen) == {Baseline} \cup {o.after : o \in seen}

\* An observation of a fact and of a tree that have been seen.
Known(o, seen) ==
  ~o.indeterminate /\ o.fingerprint \in Facts(seen) /\ o.after \in Places(seen)

\* Messages accepted before the context that follows step s.
HeardAfter(s) == IF s < Len(contexts) THEN contexts[s + 1].heard ELSE run.progress.seq

\* The batch of step s brought nothing, and the user said nothing meanwhile.
Repeats(h, s) ==
  /\ \A i \in DOMAIN h[s] : Known(h[s][i], Before(h, s, i))
  /\ HeardAfter(s) = HeardAfter(s - 1)

\* Nothing has been pushed out of the windows.
AllRemembered(seen) ==
  /\ Cardinality(Facts(seen)) <= EvidenceWindow
  /\ Cardinality(Places(seen)) <= TreeWindow

\* The last steps were repeats, as many as are counted, and while the windows
\* have room the step before them was not.
CountTrue(h) ==
  LET last == run.progress.checked
      since == last - run.progress.repeated
  IN /\ 0 <= since
     /\ \A s \in since + 1..last : Repeats(h, s)
     /\ since > 0 /\ AllRemembered(Past(h, last + 1)) => ~Repeats(h, since)

\* A count never exceeds the limit a snapshot may hold (validateProgressState),
\* and a run stopped for it (EventContextBuilt) has reached that limit, with no
\* message of the user that was not in the context it was judged by, then or
\* later (AddMessage).
StopHeard ==
  /\ run.progress.repeated <= run.limit
  /\ run.reason = "repeated_no_progress" =>
       run.progress.repeated = run.limit /\ run.progress.seq = Len(messages)

\* The count of repeated batches (observeProgress), whatever workers died or
\* were fenced and however often a context was rebuilt, never exceeds the batches
\* in a row that really brought nothing, and is their number while the windows
\* have room; and a run is stopped for it only as StopHeard says, so that many
\* batches really brought nothing.
StopJustified == StopHeard /\ CountTrue(Shown)

\* What the provider has been told by the context of each step: what a context
\* sends is added to the conversation it goes on from (buildContext).
Conversation ==
  LET said(c) == [i \in 1..(c.upto - c.from + 1) |-> c.from + i - 1]
      told[s \in 0..Len(contexts)] ==
        IF s = 0 THEN << >>
        ELSE LET c == contexts[s].c
             IN IF c.native THEN told[s - 1] \o said(c) ELSE said(c)
  IN told

\* Every context that is committed tells the model each message accepted before
\* the commit once and in order, whether it goes on from the provider's own
\* state or starts afresh, and however late the message came
\* (ConsumeMessages, validateContextProgress).
MessagesToldOnce ==
  \A s \in DOMAIN contexts : Conversation[s] = [i \in 1..contexts[s].heard |-> i]
=============================================================================

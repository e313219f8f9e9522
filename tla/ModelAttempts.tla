--------------------------- MODULE ModelAttempts ---------------------------
(***************************************************************************)
(* The model call of one step of one run (internal/application/model.go):  *)
(* its attempts in the database (internal/persistence/model_pricing.go,    *)
(* execution.go), their reservations with the provider's group (Quota),    *)
(* the request itself, and the text it streams into the event log          *)
(* (internal/application/text_batch.go).                                   *)
(*                                                                         *)
(* A worker's call is a sequence of transactions.  Between any two of them *)
(* it may die or lose its lease without noticing, and another worker takes *)
(* the run over and meets what the first has left behind.  The run has a   *)
(* primary model and one fallback of the same credential group             *)
(* (internal/application/model_route.go).  Calls for other runs are left   *)
(* out: this run would meet them as denials, which its own failures bring  *)
(* as well by opening the circuit.                                         *)
(***************************************************************************)
EXTENDS Quota, Sequences, SequencesExt

CONSTANTS Workers, NoWorker,
          Own,          \* sequence of the attempt IDs of the step, in order
          Routes,       \* "primary", and "fallback" if the run has one
          Cost,         \* reserve of an attempt by route (pricing.reserveCost)
          RequestTime,  \* RequestTimeout of the model
          RunDeadline,  \* Limits.Deadline of the run
          MaxCosts,     \* values of Limits.MaxCost of the run, 0 for no limit
          RetryTime,    \* TotalBudget of the retry policy
          Delays,       \* delays the retry policy may choose
          Chunks,       \* text deltas of one answer
          MaxEpoch      \* bound: claims

ASSUME AttemptAssumption ==
  /\ Own \in Seq(Attempts) /\ IsInjective(Own)
  /\ "primary" \in Routes /\ Routes \subseteq {"primary", "fallback"}
  /\ Cost \in [Routes -> Nat]
  /\ NoWorker \notin Workers
  /\ {RequestTime, RunDeadline, RetryTime, MaxEpoch} \subseteq Nat \ {0}
  /\ MaxCosts \cup Delays \subseteq Nat /\ Chunks \in Nat
  /\ "fallback" \in Routes => 0 \notin MaxCosts  \* Config.Validate

VARIABLES run,      \* the row of the run, at stage model
          attempts, \* model_attempts of the step, in order
          worker,   \* what each worker is doing
          sent,     \* requests that went to the provider, by attempt number
          log       \* text.delta events of each attempt, by their chunks

callVars == <<run, attempts, worker, sent, log>>
attemptVars == <<now, group, res, run, attempts, worker, sent, log>>

Unknown == -1  \* usage that cannot be priced
Plan(code, retry, outcome) == [code |-> code, retry |-> retry, outcome |-> outcome]
NoPlan == Plan("none", FALSE, "none")
NoPolicy == [plan |-> NoPlan, notBefore |-> 0]
Idle == [pc |-> "idle", epoch |-> 0, n |-> 0, route |-> "primary", plan |-> NoPlan,
         fed |-> 0, done |-> 0, usage |-> Unknown]
NewAttempt(route, deadline) ==
  [status |-> "prepared", route |-> route, deadline |-> deadline, started |-> now,
   policy |-> NoPolicy, usage |-> Unknown]

AttemptInit ==
  /\ QuotaInit
  /\ \E m \in MaxCosts :
       run = [status |-> "model", owner |-> NoWorker, epoch |-> 0,
              notBefore |-> 0, maxCost |-> m]
  /\ attempts = << >>
  /\ worker = [w \in Workers |-> Idle]
  /\ sent = [n \in 1..Len(Own) |-> 0]
  /\ log = [n \in 1..Len(Own) |-> << >>]

-----------------------------------------------------------------------------
(* Leases, and how a call ends *)

\* LeaseProof; Advance and Defer check the same.  A lease that has expired has
\* no owner, and neither has a run whose cancellation is requested: its worker may
\* still prove the lease there, and leaves at the next step that writes the run.
Owner(w) ==
  run.status = "model" /\ run.owner = w /\ run.epoch = worker[w].epoch

Goto(w, pc) == worker' = [worker EXCEPT ![w].pc = pc]

\* The worker goes on with its attempt and a plan, and forgets the rest.
GoOn(w, pc, plan) ==
  worker' = [worker EXCEPT ![w] =
    [Idle EXCEPT !.pc = pc, !.n = worker[w].n, !.epoch = worker[w].epoch, !.plan = plan]]
Leave(w) == worker' = [worker EXCEPT ![w] = Idle]

\* The event of the call is committed, if the worker still owns the run.
Advance(w, status) ==
  /\ run' = IF Owner(w) THEN [run EXCEPT !.status = status, !.owner = NoWorker]
            ELSE run
  /\ Leave(w)

deferRun(w, until) ==
  /\ run' = IF Owner(w) THEN [run EXCEPT !.owner = NoWorker, !.notBefore = until]
            ELSE run
  /\ Leave(w)

\* Any other error than a lost lease ends the run, but ErrReconciliation only
\* postpones it (Driver.step).
Fails(w) == Advance(w, "failed")
Reconcile(w) == deferRun(w, now + 1)

\* Where LatestAttempt sends a worker.
Resume(n) ==
  CASE n = 0 -> "route"
    [] n > 0 /\ attempts[n].status = "prepared" -> "get"
    [] n > 0 /\ attempts[n].status = "completed" -> "settle"
    [] n > 0 /\ attempts[n].status = "failed" -> "replay"

\* The claim and the read of the latest attempt.
Claim(w) ==
  /\ worker[w] = Idle /\ run.status = "model" /\ run.owner = NoWorker
  /\ now >= run.notBefore /\ run.epoch < MaxEpoch
  /\ run' = [run EXCEPT !.owner = w, !.epoch = @ + 1]
  /\ worker' = [worker EXCEPT ![w] =
       [Idle EXCEPT !.pc = Resume(Len(attempts)), !.n = Len(attempts),
                    !.epoch = run.epoch + 1]]
  /\ UNCHANGED <<quotaVars, attempts, sent, log>>

LeaseExpires ==
  /\ run.owner # NoWorker /\ run' = [run EXCEPT !.owner = NoWorker]
  /\ UNCHANGED <<quotaVars, attempts, worker, sent, log>>

Cancel ==
  /\ run.status = "model"
  /\ run' = [run EXCEPT !.status = "cancelled", !.owner = NoWorker]
  /\ UNCHANGED <<quotaVars, attempts, worker, sent, log>>

Die(w) ==
  /\ worker[w] # Idle /\ Leave(w)
  /\ UNCHANGED <<quotaVars, run, attempts, sent, log>>

-----------------------------------------------------------------------------
(* Up to the reservation *)

Id(w) == Own[worker[w].n]
Row(w) == attempts[worker[w].n]
Reserved(w) == Id(w) \in DOMAIN res
Dispatched(w) == Reserved(w) /\ res[Id(w)].dispatched

\* RunCost: what is not settled counts with its reserve.
RunCost ==
  SumFunctionOnSet([a \in DOMAIN res |-> IF res[a].status = "settled"
                                         THEN res[a].used ELSE res[a].amount],
                   Range(Own) \cap DOMAIN res)

\* The run has a limit, and another attempt on the route would pass it.
OverBudget(route) == run.maxCost > 0 /\ RunCost + Cost[route] > run.maxCost

\* FallbackFailure: the provider failed, and not the worker or the quota.
FallbackFailure(n) == attempts[n].policy.plan.code = "unavailable"

\* ActiveModelRoute, latestRunAttempt: the run keeps the route of its latest attempt.
ActiveModelRoute ==
  IF attempts = << >> THEN "primary" ELSE attempts[Len(attempts)].route

\* fallbackContext: the attempt the worker has seen fail lets the run leave the
\* primary route.
MayFallBack(w) ==
  /\ "fallback" \in Routes /\ ActiveModelRoute = "primary"
  /\ worker[w].n > 0 /\ Row(w).status = "failed" /\ FallbackFailure(worker[w].n)

\* The route of the next attempt.  A fallback that cannot take the request leaves
\* the retry to the primary; one the run cannot pay for ends it, before any
\* attempt is stored; a request that cannot be handed over fails the call or, for an
\* unfinished batch of tools, postpones the run.
SelectRoute(w) ==
  /\ worker[w].pc = "route"
  /\ \/ /\ MayFallBack(w)
        /\ IF OverBudget("fallback") THEN Advance(w, "budget")
           ELSE /\ worker' = [worker EXCEPT ![w].pc = "begin", ![w].route = "fallback"]
                /\ UNCHANGED run
     \/ /\ worker' = [worker EXCEPT ![w].pc = "begin", ![w].route = ActiveModelRoute]
        /\ UNCHANGED run
     \/ MayFallBack(w) /\ (Fails(w) \/ Reconcile(w))
  /\ UNCHANGED <<quotaVars, attempts, sent, log>>

\* validateModelRoute: the run stays on its route, or leaves the primary one
\* after a failure of the provider.  At stage model its effects are settled.
validateModelRoute(route) ==
  LET n == Len(attempts)
  IN route # ActiveModelRoute =>
       /\ ActiveModelRoute = "primary" /\ route = "fallback"
       /\ n > 0 /\ attempts[n].status = "failed" /\ FallbackFailure(n)

\* An attempt that has not failed is taken over.  A next one needs a lease, a
\* latest attempt that failed for a retry that is due, and time; its deadline
\* never moves again.
BeginPricedAttempt(w) ==
  LET n == Len(attempts)
      deadline == Min({now + RequestTime, RunDeadline})
  IN /\ worker[w].pc = "begin"
     /\ IF Owner(w) /\ n > 0 /\ attempts[n].status # "failed"
        THEN /\ worker' = [worker EXCEPT ![w].pc = "get", ![w].n = n,
                                         ![w].route = "primary"]
             /\ UNCHANGED <<run, attempts>>
        ELSE IF /\ Owner(w) /\ n < Len(Own) /\ now < deadline
                /\ n > 0 => /\ attempts[n].policy.plan.retry
                            /\ now >= attempts[n].policy.notBefore
                            /\ now < attempts[1].started + RetryTime
                /\ validateModelRoute(worker[w].route)
        THEN /\ attempts' = Append(attempts, NewAttempt(worker[w].route, deadline))
             /\ worker' = [worker EXCEPT ![w].pc = "get", ![w].n = n + 1,
                                         ![w].route = "primary"]
             /\ UNCHANGED run
        ELSE Fails(w) /\ UNCHANGED attempts
     /\ UNCHANGED <<quotaVars, sent, log>>

\* Get: the worker remembers what it has seen of its reservation.
GetReservation(w) ==
  /\ worker[w].pc = "get"
  /\ Goto(w, IF Dispatched(w) THEN "dispatched"
             ELSE IF Reserved(w) THEN "reserved" ELSE "missing")
  /\ UNCHANGED <<quotaVars, run, attempts, sent, log>>

Late(code) == Plan(code, TRUE, "neutral")

\* The lease is proved and the clock is read with it.  A late attempt that the
\* worker has not seen dispatched fails, and may be retried.
ProveLease(w) ==
  LET pc == worker[w].pc
      late == now >= Row(w).deadline
  IN /\ pc \in {"missing", "reserved", "dispatched"}
     /\ IF ~Owner(w) THEN Leave(w)
        ELSE IF pc = "dispatched"
        THEN GoOn(w, "reserve", IF late THEN Late("unconfirmed_previous_dispatch")
                                ELSE NoPlan)
        ELSE IF late
        THEN GoOn(w, IF pc = "reserved" THEN "abandon" ELSE "finish",
                  Late("request_expired_before_dispatch"))
        ELSE GoOn(w, IF pc = "reserved" THEN "reserve" ELSE "cost", NoPlan)
     /\ UNCHANGED <<quotaVars, run, attempts, sent, log>>

\* Mutation of CheckCost: the cost of the earlier attempts is not looked at.
CostUnchecked(w) ==
  /\ worker[w].pc = "cost" /\ Goto(w, "reserve")
  /\ UNCHANGED <<quotaVars, run, attempts, sent, log>>

\* A reservation that was missing must fit the budget of the run.
CheckCost(w) ==
  /\ worker[w].pc = "cost"
  /\ IF OverBudget(Row(w).route) THEN Advance(w, "budget")
     ELSE Goto(w, "reserve") /\ UNCHANGED run
  /\ UNCHANGED <<quotaVars, attempts, sent, log>>

\* A request that was not dispatched is given up.
Abandon(w) ==
  /\ worker[w].pc = "abandon"
  /\ IF ~res[Id(w)].dispatched
     THEN AbandonBeforeDispatch(Id(w)) /\ Goto(w, "finish") /\ UNCHANGED run
     ELSE Fails(w) /\ UNCHANGED quotaVars
  /\ UNCHANGED <<attempts, sent, log>>

\* Reserve is repeated for a reservation that exists; a denial postpones the run.
ReserveQuota(w) ==
  /\ worker[w].pc = "reserve"
  /\ IF ~Reserved(w) /\ now >= Row(w).deadline THEN Fails(w) /\ UNCHANGED quotaVars
     ELSE /\ Reserve(Id(w), Cost[Row(w).route], Row(w).deadline)
          /\ IF Id(w) \notin DOMAIN res'
             THEN deferRun(w, Min({now + 1, Row(w).deadline}))
             ELSE /\ Goto(w, IF ~res'[Id(w)].dispatched THEN "ready"
                             ELSE IF res'[Id(w)].status = "settled" THEN "wait"
                             ELSE "unsure")
                  /\ UNCHANGED run
  /\ UNCHANGED <<attempts, sent, log>>

\* Someone has dispatched the request before and nobody has settled it; if it is
\* settled by now the call fails.
Unsure(w) ==
  /\ worker[w].pc = "unsure"
  /\ IF res[Id(w)].status = "settled" THEN Fails(w) /\ UNCHANGED quotaVars
     ELSE MarkUnknown(Id(w)) /\ Goto(w, "wait") /\ UNCHANGED run
  /\ UNCHANGED <<attempts, sent, log>>

\* The answer to someone else's request is waited for until the deadline, and
\* given up if the lease was proved after it.
Wait(w) ==
  /\ worker[w].pc = "wait"
  /\ IF worker[w].plan # NoPlan
     THEN ExpireRequestSlots /\ Goto(w, "finish") /\ UNCHANGED run
     ELSE deferRun(w, Row(w).deadline) /\ UNCHANGED quotaVars
  /\ UNCHANGED <<attempts, sent, log>>

-----------------------------------------------------------------------------
(* The request *)

\* The input fits the model and the lease is still there, or the request is
\* given up for good; without its provider or its context the call fails, and with
\* other credentials than those that were reserved for it is postponed.
Ready(w) ==
  /\ worker[w].pc = "ready"
  /\ \/ GoOn(w, "abandon", Plan("input_bound", FALSE, "neutral")) /\ UNCHANGED run
     \/ (IF Owner(w) THEN Goto(w, "mark") ELSE Leave(w)) /\ UNCHANGED run
     \/ Fails(w) \/ Reconcile(w)
  /\ UNCHANGED <<quotaVars, attempts, sent, log>>

\* Mutation of Mark: a marker that is there already is taken for one's own.
MarkAgain(w) ==
  LET r == res[Id(w)]
  IN /\ worker[w].pc = "mark"
     /\ IF r.dispatched THEN Goto(w, "send") /\ UNCHANGED <<run, quotaVars>>
        ELSE IF r.status = "reserved" /\ ~r.released /\ now < r.deadline
        THEN /\ MarkDispatched(Id(w)) /\ Goto(w, "send") /\ UNCHANGED run
        ELSE Fails(w) /\ UNCHANGED quotaVars
     /\ UNCHANGED <<attempts, sent, log>>

\* The marker is committed before the request goes out.
Mark(w) ==
  LET r == res[Id(w)]
  IN /\ worker[w].pc = "mark"
     /\ IF ~r.dispatched /\ r.status = "reserved" /\ ~r.released /\ now < r.deadline
        THEN /\ MarkDispatched(Id(w)) /\ Goto(w, "send") /\ UNCHANGED run
        ELSE Fails(w) /\ UNCHANGED quotaVars
     /\ UNCHANGED <<attempts, sent, log>>

Send(w) ==
  /\ worker[w].pc = "send" /\ Goto(w, "stream")
  /\ sent' = [sent EXCEPT ![worker[w].n] = @ + 1]
  /\ UNCHANGED <<quotaVars, run, attempts, log>>

\* streamSink.emit: the next piece of text waits for a flush.
emit(w) ==
  /\ worker[w].pc = "stream" /\ now < Row(w).deadline /\ worker[w].fed < Chunks
  /\ worker' = [worker EXCEPT ![w].fed = @ + 1]
  /\ UNCHANGED <<quotaVars, run, attempts, sent, log>>

Pending(w) == [i \in 1..(worker[w].fed - worker[w].done) |-> worker[w].done + i]

\* Mutation of flush: a failed append is repeated by the next flush.
flushAgain(w, stored, told) ==
  /\ stored => Owner(w)
  /\ log' = IF stored THEN [log EXCEPT ![worker[w].n] = @ \o Pending(w)] ELSE log
  /\ worker' = [worker EXCEPT ![w].done = IF told THEN worker[w].fed ELSE @]

\* streamSink.flush: AppendWorkerEvent stores the pending text if the worker owns
\* the run; a failure, also one after the commit, ends the stream for good.
flush(w, stored, told) ==
  /\ stored => Owner(w)
  /\ log' = IF stored THEN [log EXCEPT ![worker[w].n] = @ \o Pending(w)] ELSE log
  /\ IF told THEN worker' = [worker EXCEPT ![w].done = worker[w].fed]
     ELSE GoOn(w, "unknown", Plan("consumer", FALSE, "neutral"))

Flush(w) ==
  /\ worker[w].pc = "stream" /\ worker[w].fed > worker[w].done
  /\ \E stored, told \in BOOLEAN : (told => stored) /\ flush(w, stored, told)
  /\ UNCHANGED <<quotaVars, run, attempts, sent>>

\* The stream fails: a provider's transient error, or anything else.
StreamFails(w) ==
  /\ worker[w].pc = "stream"
  /\ \E retry \in BOOLEAN :
       /\ retry => now < Row(w).deadline /\ run.status # "cancelled"
       /\ GoOn(w, "unknown", IF retry THEN Plan("unavailable", TRUE, "failure")
                             ELSE Plan("other", FALSE, "neutral"))
  /\ UNCHANGED <<quotaVars, run, attempts, sent, log>>

\* The answer is complete and the sink, closed, has flushed all of its text.
\* An answer to some other request fails the attempt.
StreamEnds(w) ==
  /\ worker[w].pc = "stream" /\ now < Row(w).deadline
  /\ worker[w].fed = Chunks /\ worker[w].done = Chunks
  /\ \/ GoOn(w, "finish", Plan("response_identity_mismatch", FALSE, "neutral"))
     \/ \E u \in Usages \cup {Unknown} :
          worker' = [worker EXCEPT ![w].pc = "complete", ![w].usage = u]
  /\ UNCHANGED <<quotaVars, run, attempts, sent, log>>

-----------------------------------------------------------------------------
(* Failed attempts *)

StreamUnknown(w) ==
  /\ worker[w].pc = "unknown"
  /\ IF res[Id(w)].status = "settled" THEN Fails(w) /\ UNCHANGED quotaVars
     ELSE MarkUnknown(Id(w)) /\ Goto(w, "finish") /\ UNCHANGED run
  /\ UNCHANGED <<attempts, sent, log>>

\* RetryPolicy.Next: a retry comes after a delay and within its time.
NextRetry(w, delay) ==
  LET plan == worker[w].plan
  IN IF /\ plan.retry /\ worker[w].n < Len(Own)
        /\ now + delay < Min({attempts[1].started + RetryTime, RunDeadline})
     THEN [plan |-> plan, notBefore |-> now + delay]
     ELSE [plan |-> [plan EXCEPT !.retry = FALSE], notBefore |-> 0]

Failed(w, policy) ==
  [attempts EXCEPT ![worker[w].n].status = "failed", ![worker[w].n].policy = policy]

\* Mutation of FinishFailedAttempt: an attempt that was completed is failed.
FinishAnyAttempt(w) ==
  /\ worker[w].pc = "finish"
  /\ \E delay \in Delays : attempts' = Failed(w, NextRetry(w, delay))
  /\ GoOn(w, "record", NoPlan)
  /\ UNCHANGED <<quotaVars, run, sent, log>>

\* The decision is stored with the failure; whoever comes second must have
\* decided the same.
FinishFailedAttempt(w) ==
  /\ worker[w].pc = "finish"
  /\ \E delay \in Delays :
       LET policy == NextRetry(w, delay)
       IN IF \/ Row(w).status = "prepared"
             \/ Row(w).status = "failed" /\ Row(w).policy = policy
          THEN attempts' = Failed(w, policy) /\ GoOn(w, "record", NoPlan) /\ UNCHANGED run
          ELSE Fails(w) /\ UNCHANGED attempts
  /\ UNCHANGED <<quotaVars, sent, log>>

\* The lease is gone or the time for retries is over.
TooLate(w) == ~Owner(w) \/ now >= attempts[1].started + RetryTime

\* What a worker does once the failure is accounted for: failModel defers the
\* run, callModel goes on when the retry is due.  A dispatch without an answer
\* that is not retried postpones the run; the next worker ends it.
AfterFailure(w) ==
  IF /\ worker[w].pc = "record" /\ ~Row(w).policy.plan.retry
     /\ Row(w).policy.plan.code = "unconfirmed_previous_dispatch"
  THEN Reconcile(w)
  ELSE IF ~Row(w).policy.plan.retry \/ (worker[w].pc = "replay" /\ TooLate(w))
  THEN Fails(w)
  ELSE IF worker[w].pc = "record" \/ now < Row(w).policy.notBefore
  THEN deferRun(w, Row(w).policy.notBefore)
  ELSE Goto(w, "route") /\ UNCHANGED run

\* replayFailureOutcome: repeated by every worker that meets the failed attempt.
replayFailureOutcome(w) ==
  /\ worker[w].pc \in {"record", "replay"}
  /\ IF ~Reserved(w) THEN AfterFailure(w) /\ UNCHANGED quotaVars
     ELSE IF ~Dispatched(w) THEN AbandonBeforeDispatch(Id(w)) /\ AfterFailure(w)
     ELSE IF res[Id(w)].status = "reserved"
     THEN MarkUnknown(Id(w)) /\ UNCHANGED <<run, worker>>
     ELSE IF res[Id(w)].outcome \in {"none", Row(w).policy.plan.outcome}
     THEN RecordOutcome(Id(w), Row(w).policy.plan.outcome) /\ AfterFailure(w)
     ELSE Fails(w) /\ UNCHANGED quotaVars
  /\ UNCHANGED <<attempts, sent, log>>

-----------------------------------------------------------------------------
(* Completed attempts *)

\* The answer is stored before anything is settled; a failed attempt refuses it.
CompleteAttempt(w) ==
  /\ worker[w].pc = "complete"
  /\ IF Row(w).status = "prepared"
     THEN /\ attempts' = [attempts EXCEPT ![worker[w].n].status = "completed",
                                          ![worker[w].n].usage = worker[w].usage]
          /\ GoOn(w, "settle", NoPlan) /\ UNCHANGED run
     ELSE Fails(w) /\ UNCHANGED attempts
  /\ UNCHANGED <<quotaVars, sent, log>>

\* completedModel: the usage is settled, or the slot is given back.  The Reserve
\* it repeats changes nothing but what the sweep does.
SettleUsage(w) ==
  /\ worker[w].pc = "settle"
  /\ IF ~Reserved(w) THEN Fails(w) /\ UNCHANGED quotaVars
     ELSE IF ~Dispatched(w) THEN Reconcile(w) /\ UNCHANGED quotaVars
     ELSE /\ IF Row(w).usage # Unknown THEN Settle(Id(w), Row(w).usage)
             ELSE IF res[Id(w)].status # "settled"
             THEN CompleteWithUnknownUsage(Id(w))
             ELSE UNCHANGED quotaVars
          /\ Goto(w, "success") /\ UNCHANGED run
  /\ UNCHANGED <<attempts, sent, log>>

RecordSuccess(w) ==
  /\ worker[w].pc = "success"
  /\ IF res[Id(w)].outcome \in {"none", "success"}
     THEN RecordOutcome(Id(w), "success") /\ Goto(w, "advance") /\ UNCHANGED run
     ELSE Fails(w) /\ UNCHANGED quotaVars
  /\ UNCHANGED <<attempts, sent, log>>

ModelCompleted(w) ==
  /\ worker[w].pc = "advance" /\ Advance(w, "done")
  /\ UNCHANGED <<quotaVars, attempts, sent, log>>

-----------------------------------------------------------------------------
WorkerStep(w) ==
  \/ Claim(w) \/ SelectRoute(w) \/ BeginPricedAttempt(w) \/ GetReservation(w)
  \/ ProveLease(w) \/ CheckCost(w) \/ Abandon(w) \/ ReserveQuota(w)
  \/ Unsure(w) \/ Wait(w) \/ Ready(w) \/ Mark(w) \/ Send(w)
  \/ emit(w) \/ Flush(w) \/ StreamFails(w) \/ StreamEnds(w)
  \/ StreamUnknown(w) \/ FinishFailedAttempt(w) \/ replayFailureOutcome(w)
  \/ CompleteAttempt(w) \/ SettleUsage(w) \/ RecordSuccess(w) \/ ModelCompleted(w)

\* The sweep of the maintenance loop, and the clock.
OthersStep ==
  /\ ExpireRequestSlots \/ Tick
  /\ UNCHANGED callVars

AttemptNext ==
  \/ \E w \in Workers : WorkerStep(w) \/ Die(w)
  \/ LeaseExpires \/ Cancel \/ OthersStep

AttemptSpec == AttemptInit /\ [][AttemptNext]_attemptVars

-----------------------------------------------------------------------------
(* Properties *)

\* A request goes to the provider once, whatever workers die, lose their lease
\* and take over between the marker and the answer, and it is paid for: its
\* reserve is settled by its usage or kept, and never given back as if it had
\* not been sent (MarkDispatched, AbandonBeforeDispatch).
SentOnce ==
  \A n \in DOMAIN sent :
    /\ sent[n] <= 1
    /\ sent[n] > 0 => Own[n] \in DOMAIN res /\ res[Own[n]].kind # "not_dispatched"

\* The attempt and its reservation tell the same story: an answer is stored for a
\* dispatched request only, settled with the usage of that answer, and the
\* circuit hears the outcome that was stored, from whichever worker.  Every
\* attempt but the last has failed and is due for the retry that followed, on
\* another model only after a failure of the provider and never back, and
\* a step that is done has stored, settled and reported its answer
\* (CompleteAttempt, FinishFailedAttempt, replayFailureOutcome, completedModel).
OutcomeAgrees ==
  \A n \in DOMAIN attempts :
    LET a == Own[n]
    IN /\ n < Len(attempts) =>
            /\ attempts[n].status = "failed" /\ attempts[n].policy.plan.retry
            /\ attempts[n].route # attempts[n + 1].route =>
                 attempts[n].route = "primary" /\ attempts[n].policy.plan.outcome = "failure"
       /\ n = Len(attempts) /\ run.status = "done" =>
            attempts[n].status = "completed" /\ res[a].released
            /\ res[a].outcome = "success"
       /\ attempts[n].status = "completed" => a \in DOMAIN res /\ res[a].dispatched
       /\ a \in DOMAIN res =>
            /\ res[a].kind = "actual_usage" =>
                 attempts[n].status = "completed" /\ res[a].used = attempts[n].usage
            /\ res[a].outcome # "none" =>
                 CASE attempts[n].status = "completed" -> res[a].outcome = "success"
                   [] attempts[n].status = "failed" ->
                        res[a].outcome = attempts[n].policy.plan.outcome
                   [] OTHER -> FALSE

\* The run's own limit, if it has one, holds for what it has reserved and spent,
\* but for usage beyond a reserve, although the check and the reservation are two
\* transactions and workers overlap (RunCost).
RunBudgetHeld ==
  run.maxCost > 0 =>
    RunCost <= run.maxCost + SumFunctionOnSet(Overage, Range(Own) \cap DOMAIN res)

\* The stored text of an attempt is a prefix of its answer, each piece once, and
\* all of it when the answer is stored (streamSink).
TextOnce ==
  \A n \in DOMAIN log :
    /\ IsPrefix(log[n], [i \in 1..Chunks |-> i])
    /\ n \in DOMAIN attempts /\ attempts[n].status = "completed" =>
         Len(log[n]) = Chunks
=============================================================================

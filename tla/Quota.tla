------------------------------- MODULE Quota -------------------------------
(***************************************************************************)
(* internal/quota: the capacity of one credential group, shared by all     *)
(* workers.  Every operation locks the group's row, rotates its window if  *)
(* that has ended, and changes the row and one reservation in the same     *)
(* transaction; an operation that returns an error changes nothing.        *)
(*                                                                         *)
(* Tokens and money are reserved, committed and limited by the same code;  *)
(* one amount stands for both.                                             *)
(***************************************************************************)
EXTENDS Integers, FiniteSets, FiniteSetsExt

CONSTANTS Attempts,   \* attempt IDs, which are the reservation IDs
          NoAttempt,  \* no probe
          Amounts,    \* what a request may reserve
          Usages,     \* what a request may turn out to have used
          Timeouts,   \* from a reservation to its deadline
          Slots,      \* values of MaxConcurrent
          Budgets,    \* values of MaxTokens, MaxCost
          Window, Cooldown, Threshold,
          MaxAmount,  \* the largest integer, math.MaxInt64 in the code
          MaxTime     \* bound: the last moment of the clock, and the last deadline

ASSUME QuotaAssumption ==
  /\ NoAttempt \notin Attempts /\ IsFiniteSet(Attempts)
  /\ Amounts \subseteq Nat /\ Usages \subseteq Nat
  /\ Timeouts \subseteq Nat \ {0}
  /\ Slots \subseteq Nat \ {0} /\ Budgets \subseteq Nat
  /\ Window \in Nat \ {0} /\ Cooldown \in Nat \ {0} /\ Threshold \in Nat \ {0}
  /\ MaxAmount \in Nat /\ MaxTime \in Nat

VARIABLES now,    \* clock_timestamp()
          group,  \* the row of provider_quotas
          res     \* quota_reservations: attempt -> row

quotaVars == <<now, group, res>>

Outcomes == {"success", "failure", "neutral"}

\* A nil breaker_until is 0; the clock starts at 1.
QuotaInit ==
  /\ now = 1
  /\ \E s \in Slots, b \in Budgets :
       group = [slots |-> s, budget |-> b, active |-> 0, reserved |-> 0,
                committed |-> 0, windowEnd |-> 1 + Window, breaker |-> 0,
                failures |-> 0, probe |-> NoAttempt]
  /\ res = << >>

-----------------------------------------------------------------------------
(* What the operations are made of *)

\* lockGroup: a window that has ended forgets what was committed in it.
lockGroup ==
  IF now < group.windowEnd THEN group
  ELSE [group EXCEPT !.committed = 0, !.windowEnd = now + Window]

reopen(g) == [g EXCEPT !.breaker = now + Cooldown, !.probe = NoAttempt]

Expired == {a \in DOMAIN res : ~res[a].released /\ res[a].deadline <= now}

\* expireSlots gives back the slots of requests past their deadline, and their
\* slots only; a probe past its deadline is given up, with its slot or without.
ExpiredRows ==
  [a \in DOMAIN res |->
     IF a \in Expired
     THEN [res[a] EXCEPT !.released = TRUE,
                         !.status = IF @ = "settled" THEN @ ELSE "unknown"]
     ELSE res[a]]

\* Mutation of expireSlots: only a probe that still has its slot is given up.
expireSlotsOnly(g) ==
  LET h == [g EXCEPT !.active = @ - Cardinality(Expired)]
  IN IF h.probe \in Expired THEN reopen(h) ELSE h

expireSlots(g) ==
  LET h == [g EXCEPT !.active = @ - Cardinality(Expired)]
  IN IF h.probe # NoAttempt /\ res[h.probe].deadline <= now
     THEN reopen(h) ELSE h

\* Mutation of Admits: what is reserved and not settled is not counted.
AdmitsCommitted(g, amount) ==
  /\ g.breaker # 0 => now >= g.breaker /\ g.probe = NoAttempt
  /\ g.active < g.slots
  /\ g.committed <= g.budget /\ amount <= g.budget - g.committed

\* The admission checks of Reserve.
Admits(g, amount) ==
  /\ g.breaker # 0 => now >= g.breaker /\ g.probe = NoAttempt
  /\ g.active < g.slots
  /\ g.committed <= g.budget /\ g.reserved <= g.budget - g.committed
  /\ amount <= g.budget - g.committed - g.reserved

-----------------------------------------------------------------------------
(* Operations *)

\* ExpireRequestSlots, and what a Reserve leaves behind that is denied or that
\* finds its reservation.
ExpireRequestSlots ==
  /\ group' = expireSlots(lockGroup)
  /\ res' = ExpiredRows
  /\ UNCHANGED now

\* halfOpen remembers that the reservation was admitted as a probe.
Reserve(a, amount, deadline) ==
  LET g == expireSlots(lockGroup)
  IN \/ /\ a \notin DOMAIN res /\ now < deadline /\ Admits(g, amount)
        /\ res' = [i \in DOMAIN res \cup {a} |->
                     IF i = a
                     THEN [amount |-> amount, deadline |-> deadline,
                           status |-> "reserved", released |-> FALSE,
                           dispatched |-> FALSE, used |-> 0, kind |-> "none",
                           outcome |-> "none", halfOpen |-> g.breaker # 0]
                     ELSE ExpiredRows[i]]
        /\ group' = [g EXCEPT !.active = @ + 1, !.reserved = @ + amount,
                              !.probe = IF g.breaker # 0 THEN a ELSE @]
        /\ UNCHANGED now
     \/ /\ IF a \in DOMAIN res
           THEN res[a].amount = amount /\ res[a].deadline = deadline
           ELSE now < deadline /\ ~Admits(g, amount)
        /\ ExpireRequestSlots

MarkDispatched(a) ==
  /\ a \in DOMAIN res /\ ~res[a].dispatched
  /\ res[a].status = "reserved" /\ ~res[a].released /\ now < res[a].deadline
  /\ res' = [res EXCEPT ![a].dispatched = TRUE]
  /\ group' = lockGroup
  /\ UNCHANGED now

MarkUnknown(a) ==
  /\ a \in DOMAIN res /\ res[a].status # "settled"
  /\ res' = [res EXCEPT ![a].status = "unknown"]
  /\ group' = lockGroup
  /\ UNCHANGED now

\* A complete answer without usable usage gives back the slot only.
CompleteWithUnknownUsage(a) ==
  /\ a \in DOMAIN res /\ res[a].dispatched /\ res[a].status # "settled"
  /\ res' = [res EXCEPT ![a].status = "unknown", ![a].released = TRUE]
  /\ group' = [lockGroup EXCEPT !.active = @ - (IF res[a].released THEN 0
                                                ELSE 1)]
  /\ UNCHANGED now

\* Mutation of settle: the slot is given back a second time.
settleTwice(a, used, kind) ==
  LET g == lockGroup
  IN /\ a \in DOMAIN res /\ res[a].status # "settled"
     /\ kind = "not_dispatched" <=> ~res[a].dispatched
     /\ used <= MaxAmount - g.committed
     /\ res' = [res EXCEPT ![a].status = "settled", ![a].used = used,
                           ![a].kind = kind, ![a].released = TRUE]
     /\ group' = [g EXCEPT !.reserved = @ - res[a].amount,
                           !.committed = @ + used, !.active = @ - 1]
     /\ UNCHANGED now

\* settle: with usage only after the dispatch, without only before it; the same
\* settlement again is accepted and changes nothing.
settle(a, used, kind) ==
  LET g == lockGroup
      h == [g EXCEPT !.reserved = @ - res[a].amount,
                     !.committed = @ + used,
                     !.active = @ - (IF res[a].released THEN 0 ELSE 1)]
  IN /\ a \in DOMAIN res
     /\ \/ /\ res[a].status = "settled"
           /\ res[a].kind = kind /\ res[a].used = used
           /\ group' = g /\ UNCHANGED res
        \/ /\ res[a].status # "settled"
           /\ kind = "not_dispatched" <=> ~res[a].dispatched
           /\ used <= MaxAmount - g.committed
           /\ res' = [res EXCEPT ![a].status = "settled", ![a].used = used,
                                 ![a].kind = kind, ![a].released = TRUE]
           /\ group' = IF kind = "not_dispatched" /\ h.probe = a
                       THEN reopen(h) ELSE h
     /\ UNCHANGED now

Settle(a, used) == settle(a, used, "actual_usage")

AbandonBeforeDispatch(a) == settle(a, 0, "not_dispatched")

\* What an outcome does to the circuit; p: the attempt is the probe.
AfterOutcome(g, outcome, p) ==
  LET failures == g.failures + (IF g.failures < Threshold THEN 1 ELSE 0)
  IN CASE outcome = "success" ->
            IF g.breaker = 0 \/ p
            THEN [g EXCEPT !.failures = 0, !.breaker = 0, !.probe = NoAttempt]
            ELSE g
       [] outcome = "failure" ->
            LET h == [g EXCEPT !.failures = failures]
            IN IF failures >= Threshold \/ p THEN reopen(h) ELSE h
       [] outcome = "neutral" -> IF p THEN reopen(g) ELSE g

\* Mutation of RecordOutcome: a probe's neutral outcome is recorded only.
RecordOutcomeOnly(a, outcome) ==
  /\ a \in DOMAIN res /\ res[a].dispatched /\ res[a].outcome = "none"
  /\ res' = [res EXCEPT ![a].outcome = outcome]
  /\ group' = IF outcome = "neutral" THEN lockGroup
              ELSE AfterOutcome(lockGroup, outcome, group.probe = a)
  /\ UNCHANGED now

\* Once for each attempt; the same outcome again is accepted.
RecordOutcome(a, outcome) ==
  /\ a \in DOMAIN res
  /\ \/ /\ res[a].outcome = outcome
        /\ group' = lockGroup /\ UNCHANGED res
     \/ /\ res[a].outcome = "none" /\ res[a].dispatched
        /\ res' = [res EXCEPT ![a].outcome = outcome]
        /\ group' = AfterOutcome(lockGroup, outcome, group.probe = a)
  /\ UNCHANGED now

Configure(s, b) ==
  /\ group' = [group EXCEPT !.slots = s, !.budget = b]
  /\ UNCHANGED <<now, res>>

Tick == now < MaxTime /\ now' = now + 1 /\ UNCHANGED <<group, res>>

-----------------------------------------------------------------------------
QuotaNext ==
  \/ ExpireRequestSlots \/ Tick
  \/ \E s \in Slots, b \in Budgets : Configure(s, b)
  \/ \E a \in Attempts :
       \/ \E n \in Amounts, t \in Timeouts :
            now + t <= MaxTime /\ Reserve(a, n, now + t)
       \/ MarkDispatched(a) \/ MarkUnknown(a) \/ CompleteWithUnknownUsage(a)
       \/ \E u \in Usages : Settle(a, u)
       \/ AbandonBeforeDispatch(a)
       \/ \E o \in Outcomes : RecordOutcome(a, o)

QuotaSpec == QuotaInit /\ [][QuotaNext]_quotaVars

\* Time passes, and the maintenance loop of cmd/forge-worker sweeps every second.
QuotaFair ==
  QuotaSpec /\ WF_quotaVars(Tick) /\ WF_quotaVars(ExpireRequestSlots)

-----------------------------------------------------------------------------
(* Properties *)

Unsettled == {a \in DOMAIN res : res[a].status # "settled"}
Amount == [a \in DOMAIN res |-> res[a].amount]
Overage ==
  [a \in DOMAIN res |-> IF a \notin Unsettled /\ res[a].used > res[a].amount
                        THEN res[a].used - res[a].amount ELSE 0]

\* The row's counters never drift from the reservations: each slot is given
\* back once, by whoever comes first of settlement, completion and expiry, and
\* each reserve stays until it is settled.
CountersMatchRows ==
  /\ group.active = Cardinality({a \in DOMAIN res : ~res[a].released})
  /\ group.reserved = SumFunctionOnSet(Amount, Unsettled)

\* No interleaving of reservations, late settlements, expiries and rotations
\* spends more than the budget, but for what requests used beyond their reserve
\* (Reserve, lockGroup).
BudgetHeld ==
  \E b \in Budgets :
    group.reserved + group.committed <= b + SumFunction(Overage)

\* The circuit's probe is a reservation that may still report: it has no outcome
\* and was not abandoned (RecordOutcome, settle, expireSlots).
ProbeMayReport ==
  group.probe # NoAttempt =>
    /\ group.breaker # 0 /\ group.probe \in DOMAIN res
    /\ res[group.probe].halfOpen /\ res[group.probe].outcome = "none"
    /\ res[group.probe].kind # "not_dispatched"

\* A vanished probe does not keep the circuit open for ever, wherever its worker
\* died (expireSlots).
ProbeRecovered ==
  \A a \in Attempts : group.probe = a ~> group.probe # a
=============================================================================

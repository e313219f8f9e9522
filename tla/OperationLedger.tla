-------------------------- MODULE OperationLedger --------------------------
(***************************************************************************)
(* What the runner promises the control plane about one workspace: a gate  *)
(* with an epoch, operations accepted one at a time at the revision they   *)
(* were planned for, each of which changes the content only between its    *)
(* acceptance and its receipt, and a revision that moves only with a       *)
(* receipt whose operation changed the content.                            *)
(*                                                                         *)
(* RunnerEngine implements this with a journal, a file lock, an executor   *)
(* goroutine and a container that outlives the process; ReceiptProtocol    *)
(* uses it as the runner a worker talks to.                                *)
(***************************************************************************)
EXTENDS Integers, Sequences

CONSTANTS OpIds,     \* operation IDs
          NoOp,      \* the empty active_operation
          Epochs     \* lease epochs requests carry

ASSUME OpAssumption == NoOp \notin OpIds
ASSUME EpochAssumption == Epochs \subseteq Nat \ {0}

VARIABLES ws,    \* the row of workspaces
          ops,   \* accepted operations: ID -> [epoch, rev, status, after]
          tree   \* the content, as the operations that changed it, in order

ledgerVars == <<ws, ops, tree>>

Outcome == {"succeeded", "failed", "cancelled"}

NoWorkspace == [exists |-> FALSE, epoch |-> 0, revision |-> 0,
                active |-> NoOp, adopting |-> FALSE, stopped |-> FALSE,
                released |-> FALSE]

Changed(id) == \E i \in DOMAIN tree : tree[i] = id

LedgerInit ==
  /\ ws = NoWorkspace
  /\ ops = << >>
  /\ tree = << >>

\* PrepareWorkspace imports the source: revision 1 under the caller's epoch.
Prepare(e) ==
  /\ ~ws.exists
  /\ ws' = [NoWorkspace EXCEPT !.exists = TRUE, !.epoch = e, !.revision = 1]
  /\ UNCHANGED <<ops, tree>>

\* Mutation of Fence: an adoption takes back a stop.
FenceReopens(e, stop) ==
  /\ ws.exists /\ e >= ws.epoch /\ ~ws.released
  /\ ws' = [ws EXCEPT !.epoch = e, !.adopting = TRUE, !.stopped = stop]
  /\ UNCHANGED <<ops, tree>>

\* journal.setFence: no operation of any epoch enters until adoption completes,
\* and a stop is never taken back.
Fence(e, stop) ==
  /\ ws.exists /\ e >= ws.epoch /\ ~ws.released
  /\ ws.stopped => stop
  /\ ws' = [ws EXCEPT !.epoch = e, !.adopting = TRUE,
                      !.stopped = @ \/ stop]
  /\ UNCHANGED <<ops, tree>>

\* Mutation of Accept: the row has no after_revision before its receipt.
AcceptPartly(id, e, rev) ==
  /\ ws.exists /\ ws.epoch = e
  /\ ~ws.adopting /\ ~ws.released /\ ~ws.stopped
  /\ id \notin DOMAIN ops
  /\ ws.active = NoOp /\ ws.revision = rev
  /\ ops' = [i \in DOMAIN ops \cup {id} |->
               IF i = id THEN [epoch |-> e, rev |-> rev, status |-> "open"]
               ELSE ops[i]]
  /\ ws' = [ws EXCEPT !.active = id]
  /\ UNCHANGED tree

\* journal.reserve: admission and the durable record in one transaction.
Accept(id, e, rev) ==
  /\ ws.exists /\ ws.epoch = e
  /\ ~ws.adopting /\ ~ws.released /\ ~ws.stopped
  /\ id \notin DOMAIN ops
  /\ ws.active = NoOp /\ ws.revision = rev
  /\ ops' = [i \in DOMAIN ops \cup {id} |->
               IF i = id THEN [epoch |-> e, rev |-> rev, status |-> "open",
                               after |-> 0]
               ELSE ops[i]]
  /\ ws' = [ws EXCEPT !.active = id]
  /\ UNCHANGED tree

\* Mutation of Write: a writer that outlives its receipt.
LateWrite(id) ==
  /\ id \in DOMAIN ops /\ ~Changed(id)
  /\ tree' = Append(tree, id)
  /\ UNCHANGED <<ws, ops>>

\* The active operation changes the content, once as far as anyone can tell.
Write(id) ==
  /\ ws.active = id /\ ~Changed(id)
  /\ tree' = Append(tree, id)
  /\ UNCHANGED <<ws, ops>>

\* Mutation of Settle: only a success moves the revision.
SettleSuccess(id, status) ==
  /\ ws.active = id /\ status \in Outcome
  /\ LET after == ops[id].rev + (IF status = "succeeded" THEN 1 ELSE 0)
     IN /\ ops' = [ops EXCEPT ![id].status = status, ![id].after = after]
        /\ ws' = [ws EXCEPT !.active = NoOp, !.revision = after]
  /\ UNCHANGED tree

\* journal.finish: the receipt, the revision and the gate in one transaction.
Settle(id, status) ==
  /\ ws.active = id /\ status \in Outcome
  /\ LET after == ops[id].rev + (IF Changed(id) THEN 1 ELSE 0)
     IN /\ ops' = [ops EXCEPT ![id].status = status, ![id].after = after]
        /\ ws' = [ws EXCEPT !.active = NoOp, !.revision = after]
  /\ UNCHANGED tree

\* Mutation of Reopen: adoption completes while the old writer is active.
ReopenEarly(e) ==
  /\ ws.exists /\ ws.epoch = e /\ ~ws.stopped /\ ~ws.released
  /\ ws' = [ws EXCEPT !.adopting = FALSE]
  /\ UNCHANGED <<ops, tree>>

\* journal.completeAdoption: only with the old writer's operation settled.
Reopen(e) ==
  /\ ws.exists /\ ws.epoch = e /\ ws.active = NoOp
  /\ ~ws.stopped /\ ~ws.released
  /\ ws' = [ws EXCEPT !.adopting = FALSE]
  /\ UNCHANGED <<ops, tree>>

\* ReleaseWorkspace closes the gate for good.
Release(e) ==
  /\ ws.exists /\ ws.epoch = e /\ ws.active = NoOp
  /\ ws' = [ws EXCEPT !.released = TRUE, !.adopting = TRUE]
  /\ UNCHANGED <<ops, tree>>

LedgerNext ==
  \/ \E e \in Epochs :
       \/ Prepare(e) \/ Reopen(e) \/ Release(e)
       \/ \E stop \in BOOLEAN : Fence(e, stop)
       \/ \E id \in OpIds : Accept(id, e, ws.revision)
  \/ \E id \in OpIds : Write(id) \/ \E status \in Outcome : Settle(id, status)

LedgerSpec == LedgerInit /\ [][LedgerNext]_ledgerVars

-----------------------------------------------------------------------------
(* Properties *)

Operation == [epoch : Nat, rev : Nat, status : Outcome \cup {"open"},
              after : Nat]

\* Types, the content being a sequence of accepted operations.
LedgerTypeOK ==
  /\ ws \in [exists : BOOLEAN, epoch : Nat, revision : Nat,
             active : OpIds \cup {NoOp}, adopting : BOOLEAN,
             stopped : BOOLEAN, released : BOOLEAN]
  /\ DOMAIN ops \subseteq OpIds
  /\ \A id \in DOMAIN ops : ops[id] \in Operation
  /\ tree \in Seq(OpIds)

\* One writer: the active operation is the only one without a receipt, and
\* an open gate lets only the current epoch's operation be active.
SingleWriter ==
  /\ \A id \in DOMAIN ops : ops[id].status = "open" <=> ws.active = id
  /\ ws.active # NoOp => ws.active \in DOMAIN ops
  /\ ws.active # NoOp /\ ~ws.adopting => ops[ws.active].epoch = ws.epoch

\* The revision tells the content apart: it is one more than the number of
\* settled operations that changed it, so equal revisions are equal contents.
RevisionCountsWrites ==
  ws.exists =>
    ws.revision = 1 + Len(tree) -
      (IF ws.active # NoOp /\ Changed(ws.active) THEN 1 ELSE 0)

\* Every receipt tells the truth about the content, for ever.
ReceiptTruth ==
  \A id \in DOMAIN ops : ops[id].status # "open" =>
    ops[id].after = ops[id].rev + (IF Changed(id) THEN 1 ELSE 0)

\* What one step may do to what is already recorded.
StepForward ==
  /\ ws'.epoch >= ws.epoch /\ ws'.revision >= ws.revision
  /\ ws.stopped => ws'.stopped /\ DOMAIN ops' = DOMAIN ops
  /\ ws.released => ws' = ws /\ tree' = tree
  /\ \A id \in DOMAIN ops :
       /\ id \in DOMAIN ops'
       /\ ops[id].status # "open" => ops'[id] = ops[id]

\* An accepted operation is never forgotten, its receipt never rewritten, the
\* epoch never goes back and a stop or a release is never taken back.
LedgerForward == [][StepForward]_ledgerVars
=============================================================================

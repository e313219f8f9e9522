------------------------ MODULE OperationLedgerProofs ------------------------
(***************************************************************************)
(* OperationLedger is correct for every set of operations and epochs.      *)
(* The invariants are not inductive as they stand: that a receipt counts   *)
(* the right revision needs to know at which revision the active operation *)
(* was accepted, and that a new operation starts with no writes needs to   *)
(* know that only accepted operations have written.                        *)
(***************************************************************************)
EXTENDS OperationLedger, TLAPS

\* The active operation was accepted at the current revision; what has changed
\* the content has been accepted; without a workspace there is nothing; a
\* released workspace is closed and idle.
Grounded ==
  /\ ws.active # NoOp => ws.exists /\ ops[ws.active].rev = ws.revision
  /\ \A i \in DOMAIN tree : tree[i] \in DOMAIN ops
  /\ ~ws.exists => ws = NoWorkspace /\ DOMAIN ops = {} /\ tree = << >>
  /\ ws.released => ws.active = NoOp /\ ws.adopting

LedgerInv ==
  LedgerTypeOK /\ SingleWriter /\ RevisionCountsWrites /\ ReceiptTruth
    /\ Grounded

\* The first state has no workspace, no operation and no content.
LEMMA LedgerInitInv == LedgerInit => LedgerInv
BY OpAssumption
   DEF LedgerInit, LedgerInv, LedgerTypeOK, SingleWriter, RevisionCountsWrites,
       ReceiptTruth, Grounded, NoWorkspace, Operation, Outcome, Changed

\* PrepareWorkspace acts only where there was no workspace.
LEMMA PrepareInv ==
  ASSUME LedgerInv, NEW e \in Epochs, Prepare(e)
  PROVE  LedgerInv'
<1>1. /\ DOMAIN ops' = {} /\ tree' = << >> /\ ws'.active = NoOp
      /\ ws'.exists /\ ws'.revision = 1 /\ ~ws'.released
  BY DEF Prepare, LedgerInv, Grounded, NoWorkspace
<1>2. LedgerTypeOK'
  <2>1. e \in Nat
    BY EpochAssumption
  <2>2. ws' = [exists |-> TRUE, epoch |-> e, revision |-> 1, active |-> NoOp,
               adopting |-> FALSE, stopped |-> FALSE, released |-> FALSE]
    BY DEF Prepare, NoWorkspace
  <2>3. tree' \in Seq(OpIds)
    BY <1>1
  <2> QED BY <1>1, <2>1, <2>2, <2>3 DEF LedgerTypeOK
<1>3. SingleWriter' /\ ReceiptTruth'
  BY <1>1 DEF SingleWriter, ReceiptTruth
<1>4. RevisionCountsWrites' /\ Grounded'
  BY <1>1 DEF RevisionCountsWrites, Grounded
<1> QED BY <1>2, <1>3, <1>4 DEF LedgerInv

\* A fence, a reopening and a release touch the gate and nothing else.
LEMMA GateInv ==
  ASSUME LedgerInv, NEW e \in Epochs,
         Reopen(e) \/ Release(e) \/ \E stop \in BOOLEAN : Fence(e, stop)
  PROVE  LedgerInv'
<1>1. /\ ops' = ops /\ tree' = tree /\ ws.exists
      /\ ws'.exists /\ ws'.revision = ws.revision /\ ws'.active = ws.active
      /\ ws.active # NoOp /\ ~ws'.adopting => ~ws.adopting
                                               /\ ws'.epoch = ws.epoch
      /\ ws'.released => ws.active = NoOp /\ ws'.adopting
  BY DEF Reopen, Release, Fence, LedgerInv, LedgerTypeOK
<1>2. LedgerTypeOK'
  <2>1. ws' \in [exists : BOOLEAN, epoch : Nat, revision : Nat,
                 active : OpIds \cup {NoOp}, adopting : BOOLEAN,
                 stopped : BOOLEAN, released : BOOLEAN]
    <3>1. CASE Reopen(e)
      BY <3>1 DEF Reopen, LedgerInv, LedgerTypeOK
    <3>2. CASE Release(e)
      BY <3>2 DEF Release, LedgerInv, LedgerTypeOK
    <3>3. ASSUME NEW stop \in BOOLEAN, Fence(e, stop)
          PROVE  ws' \in [exists : BOOLEAN, epoch : Nat, revision : Nat,
                          active : OpIds \cup {NoOp}, adopting : BOOLEAN,
                          stopped : BOOLEAN, released : BOOLEAN]
      <4> DEFINE b == ws.stopped \/ stop
      <4>1. b \in BOOLEAN
        OBVIOUS
      <4>2. ws' = [ws EXCEPT !.epoch = e, !.adopting = TRUE, !.stopped = b]
        BY <3>3 DEF Fence
      <4> HIDE DEF b
      <4> QED BY <4>1, <4>2, EpochAssumption DEF LedgerInv, LedgerTypeOK
    <3> QED BY <3>1, <3>2, <3>3
  <2> QED BY <1>1, <2>1 DEF LedgerInv, LedgerTypeOK
<1>3. SingleWriter'
  BY <1>1 DEF LedgerInv, SingleWriter
<1>4. RevisionCountsWrites' /\ ReceiptTruth' /\ Grounded'
  BY <1>1 DEF LedgerInv, RevisionCountsWrites, ReceiptTruth, Grounded, Changed
<1> QED BY <1>2, <1>3, <1>4 DEF LedgerInv

\* An accepted operation is new, so nothing of it is in the content yet.
LEMMA AcceptInv ==
  ASSUME LedgerInv, NEW e \in Epochs, NEW id \in OpIds,
         Accept(id, e, ws.revision)
  PROVE  LedgerInv'
<1>1. ~Changed(id)
  BY DEF LedgerInv, Grounded, Accept, Changed
<1>2. /\ DOMAIN ops' = DOMAIN ops \cup {id} /\ id # NoOp
      /\ ops'[id] = [epoch |-> e, rev |-> ws.revision, status |-> "open",
                     after |-> 0]
      /\ \A i \in DOMAIN ops : ops'[i] = ops[i]
      /\ ws' = [ws EXCEPT !.active = id] /\ tree' = tree
  BY OpAssumption DEF Accept
<1>3. LedgerTypeOK'
  BY <1>2, EpochAssumption
     DEF LedgerInv, LedgerTypeOK, Operation, Outcome
<1>4. SingleWriter'
  <2>1. /\ ws'.active = id /\ ws'.epoch = e /\ ws.active = NoOp
        /\ id \notin DOMAIN ops /\ NoOp \notin DOMAIN ops
    BY <1>2, OpAssumption DEF Accept, LedgerInv, LedgerTypeOK
  <2>2. ASSUME NEW j \in DOMAIN ops
        PROVE  ops'[j].status # "open" /\ ws'.active # j
    BY <1>2, <2>1 DEF LedgerInv, SingleWriter
  <2>3. ops'[id].status = "open" /\ ops'[id].epoch = e
    BY <1>2
  <2> QED BY <1>2, <2>1, <2>2, <2>3 DEF SingleWriter
<1>5. RevisionCountsWrites'
  BY <1>1, <1>2
     DEF Accept, LedgerInv, LedgerTypeOK, RevisionCountsWrites, Changed
<1>6. ReceiptTruth'
  BY <1>2 DEF LedgerInv, ReceiptTruth, Changed
<1>7. Grounded'
  BY <1>2 DEF Accept, LedgerInv, LedgerTypeOK, Grounded
<1> QED BY <1>3, <1>4, <1>5, <1>6, <1>7 DEF LedgerInv

\* A write adds the active operation, and only it, to the content.
LEMMA WriteInv ==
  ASSUME LedgerInv, NEW id \in OpIds, Write(id)
  PROVE  LedgerInv'
<1>1. /\ tree \in Seq(OpIds) /\ tree' = Append(tree, id)
      /\ ws' = ws /\ ops' = ops /\ ws.active = id /\ ~Changed(id)
      /\ id # NoOp /\ id \in DOMAIN ops /\ ops[id].status = "open"
  BY OpAssumption DEF Write, LedgerInv, LedgerTypeOK, SingleWriter
<1>2. /\ Len(tree') = Len(tree) + 1 /\ tree' \in Seq(OpIds)
      /\ tree'[Len(tree')] = id /\ DOMAIN tree' = 1 .. Len(tree) + 1
      /\ \A i \in 1 .. Len(tree) : tree'[i] = tree[i]
      /\ DOMAIN tree = 1 .. Len(tree) /\ Len(tree) \in Nat
  BY <1>1
<1>3. Changed(id)'
  BY <1>2 DEF Changed
<1>4. ASSUME NEW j \in OpIds, j # id
      PROVE  Changed(j)' <=> Changed(j)
  BY <1>2, <1>4 DEF Changed
<1>5. LedgerTypeOK' /\ SingleWriter'
  BY <1>1, <1>2 DEF LedgerInv, LedgerTypeOK, SingleWriter
<1>6. RevisionCountsWrites'
  BY <1>1, <1>2, <1>3 DEF LedgerInv, LedgerTypeOK, RevisionCountsWrites
<1>7. ReceiptTruth'
  <2> SUFFICES ASSUME NEW j \in DOMAIN ops, ops[j].status # "open"
               PROVE  ops[j].after = ops[j].rev
                                      + (IF Changed(j)' THEN 1 ELSE 0)
    BY <1>1 DEF ReceiptTruth, Changed
  <2>1. j \in OpIds /\ j # id
    BY <1>1 DEF LedgerInv, LedgerTypeOK
  <2> QED BY <2>1, <1>4 DEF LedgerInv, ReceiptTruth
<1>8. Grounded'
  BY <1>1, <1>2 DEF LedgerInv, Grounded
<1> QED BY <1>5, <1>6, <1>7, <1>8 DEF LedgerInv

\* The receipt of the active operation closes it with the revision it made.
LEMMA SettleInv ==
  ASSUME LedgerInv, NEW id \in OpIds, NEW status \in Outcome,
         Settle(id, status)
  PROVE  LedgerInv'
<1> DEFINE after == ops[id].rev + (IF Changed(id) THEN 1 ELSE 0)
<1>1. /\ ws.active = id /\ id # NoOp /\ id \in DOMAIN ops /\ ws.exists
      /\ ops[id].rev = ws.revision /\ ops[id] \in Operation
  BY OpAssumption
     DEF Settle, LedgerInv, LedgerTypeOK, SingleWriter, Grounded
<1>2. after \in Nat
  BY <1>1 DEF Operation
<1>3. /\ DOMAIN ops' = DOMAIN ops
      /\ ops'[id] = [ops[id] EXCEPT !.status = status, !.after = after]
      /\ \A i \in DOMAIN ops : i # id => ops'[i] = ops[i]
      /\ ws' = [ws EXCEPT !.active = NoOp, !.revision = after]
      /\ tree' = tree
  BY <1>1 DEF Settle
<1> HIDE DEF after
<1>4. /\ ops'[id] \in Operation /\ ops'[id].status = status
      /\ ops'[id].after = after /\ ops'[id].rev = ops[id].rev
      /\ status # "open"
  BY <1>1, <1>2, <1>3 DEF Operation, Outcome
<1>5. LedgerTypeOK'
  BY <1>1, <1>2, <1>3, <1>4 DEF LedgerInv, LedgerTypeOK
<1>6. SingleWriter'
  <2>1. ws'.active = NoOp /\ NoOp \notin DOMAIN ops
    BY <1>3, OpAssumption DEF LedgerInv, LedgerTypeOK
  <2>2. ASSUME NEW j \in DOMAIN ops PROVE ops'[j].status # "open"
    BY <1>1, <1>3, <1>4, ZenonT(60) DEF LedgerInv, SingleWriter
  <2> QED BY <1>3, <2>1, <2>2 DEF SingleWriter
<1>7. RevisionCountsWrites'
  BY <1>1, <1>3 DEF after, LedgerInv, LedgerTypeOK, RevisionCountsWrites,
                    Changed, Operation
<1>8. ReceiptTruth'
  <2>1. ASSUME NEW j PROVE Changed(j)' <=> Changed(j)
    BY <1>3 DEF Changed
  <2>2. ops'[id].after = ops'[id].rev + (IF Changed(id)' THEN 1 ELSE 0)
    BY <1>4, <2>1 DEF after
  <2>3. ASSUME NEW j \in DOMAIN ops, j # id, ops'[j].status # "open"
        PROVE  ops'[j].after = ops'[j].rev + (IF Changed(j)' THEN 1 ELSE 0)
    BY <1>3, <2>1, <2>3 DEF LedgerInv, ReceiptTruth
  <2> QED BY <1>3, <2>2, <2>3 DEF ReceiptTruth
<1>9. Grounded'
  BY <1>1, <1>3 DEF LedgerInv, LedgerTypeOK, Grounded
<1> QED BY <1>5, <1>6, <1>7, <1>8, <1>9 DEF LedgerInv

\* Every step of the journal preserves the invariant: one case per action.
LEMMA LedgerNextInv == LedgerInv /\ [LedgerNext]_ledgerVars => LedgerInv'
<1> SUFFICES ASSUME LedgerInv, [LedgerNext]_ledgerVars
             PROVE  LedgerInv'
  OBVIOUS
<1>1. ASSUME NEW e \in Epochs, Prepare(e) PROVE LedgerInv'
  BY <1>1, PrepareInv
<1>2. ASSUME NEW e \in Epochs,
             Reopen(e) \/ Release(e) \/ \E stop \in BOOLEAN : Fence(e, stop)
      PROVE  LedgerInv'
  BY <1>2, GateInv
<1>3. ASSUME NEW e \in Epochs, NEW id \in OpIds, Accept(id, e, ws.revision)
      PROVE  LedgerInv'
  BY <1>3, AcceptInv
<1>4. ASSUME NEW id \in OpIds, Write(id) PROVE LedgerInv'
  BY <1>4, WriteInv
<1>5. ASSUME NEW id \in OpIds, NEW status \in Outcome, Settle(id, status)
      PROVE  LedgerInv'
  BY <1>5, SettleInv
<1>6. CASE UNCHANGED ledgerVars
  BY <1>6 DEF ledgerVars, LedgerInv, LedgerTypeOK, SingleWriter,
              RevisionCountsWrites, ReceiptTruth, Grounded, Changed
<1> QED BY <1>1, <1>2, <1>3, <1>4, <1>5, <1>6 DEF LedgerNext

\* For all operations and epochs: at most one operation of the workspace has
\* no receipt, and it is the one the open gate names.
THEOREM LedgerSingleWriter == LedgerSpec => []SingleWriter
<1>1. LedgerInv => SingleWriter
  BY DEF LedgerInv
<1> QED BY LedgerInitInv, LedgerNextInv, <1>1, PTL DEF LedgerSpec

\* The revision counts the settled operations that changed the content.
THEOREM LedgerRevision == LedgerSpec => []RevisionCountsWrites
<1>1. LedgerInv => RevisionCountsWrites
  BY DEF LedgerInv
<1> QED BY LedgerInitInv, LedgerNextInv, <1>1, PTL DEF LedgerSpec

\* No receipt denies a write that happened.
THEOREM LedgerReceiptsTrue == LedgerSpec => []ReceiptTruth
<1>1. LedgerInv => ReceiptTruth
  BY DEF LedgerInv
<1> QED BY LedgerInitInv, LedgerNextInv, <1>1, PTL DEF LedgerSpec

\* The types of the ledger hold of every reachable state.
THEOREM LedgerTyped == LedgerSpec => []LedgerTypeOK
<1>1. LedgerInv => LedgerTypeOK
  BY DEF LedgerInv
<1> QED BY LedgerInitInv, LedgerNextInv, <1>1, PTL DEF LedgerSpec

\* For all operations and epochs: receipts are final, accepted operations are
\* remembered, and no step takes back an epoch, a stop or a release.
THEOREM LedgerMovesForward == LedgerSpec => LedgerForward
<1>1. ASSUME LedgerInv, LedgerNext PROVE StepForward
  <2>1. ASSUME NEW e \in Epochs, Prepare(e) PROVE StepForward
    <3>1. e \in Nat
      BY EpochAssumption
    <3>2. /\ ws.epoch = 0 /\ ws.revision = 0 /\ ~ws.stopped /\ ~ws.released
          /\ DOMAIN ops = {} /\ ws'.epoch = e /\ ws'.revision = 1
      BY <1>1, <2>1 DEF LedgerInv, Grounded, Prepare, NoWorkspace
    <3> QED BY <3>1, <3>2 DEF StepForward
  <2>2. ASSUME NEW e \in Epochs,
               Reopen(e) \/ Release(e) \/ \E stop \in BOOLEAN : Fence(e, stop)
        PROVE  StepForward
    <3>1. CASE Reopen(e)
      BY <1>1, <3>1 DEF Reopen, StepForward, LedgerInv, LedgerTypeOK
    <3>2. CASE Release(e)
      <4>1. ws.released => ws.released = TRUE /\ ws.adopting = TRUE
        BY <1>1 DEF LedgerInv, LedgerTypeOK, Grounded
      <4>2. ws.released => ws' = ws
        BY <1>1, <3>2, <4>1 DEF Release, LedgerInv, LedgerTypeOK
      <4> QED BY <1>1, <3>2, <4>2
              DEF Release, StepForward, LedgerInv, LedgerTypeOK
    <3>3. CASE \E stop \in BOOLEAN : Fence(e, stop)
      BY <1>1, <3>3, EpochAssumption
         DEF Fence, StepForward, LedgerInv, LedgerTypeOK
    <3> QED BY <2>2, <3>1, <3>2, <3>3
  <2>3. ASSUME NEW e \in Epochs, NEW id \in OpIds, Accept(id, e, ws.revision)
        PROVE  StepForward
    BY <1>1, <2>3 DEF Accept, StepForward, LedgerInv, LedgerTypeOK
  <2>4. ASSUME NEW id \in OpIds, Write(id) PROVE StepForward
    BY <1>1, <2>4, OpAssumption
       DEF Write, StepForward, LedgerInv, LedgerTypeOK, Grounded
  <2>5. ASSUME NEW id \in OpIds, NEW status \in Outcome, Settle(id, status)
        PROVE  StepForward
    <3>1. /\ ws.active = id /\ id # NoOp /\ id \in DOMAIN ops
          /\ ops[id].status = "open" /\ ops[id].rev = ws.revision
          /\ ~ws.released /\ ws.revision \in Nat /\ ws.epoch \in Nat
      BY <1>1, <2>5, OpAssumption
         DEF Settle, LedgerInv, LedgerTypeOK, SingleWriter, Grounded
    <3>2. /\ DOMAIN ops' = DOMAIN ops
          /\ \A i \in DOMAIN ops : i # id => ops'[i] = ops[i]
          /\ ws'.epoch = ws.epoch /\ ws'.stopped = ws.stopped
      BY <1>1, <2>5 DEF Settle, LedgerInv, LedgerTypeOK
    <3>3. ws'.revision >= ws.revision
      BY <1>1, <2>5, <3>1 DEF Settle, LedgerInv, LedgerTypeOK
    <3> QED BY <3>1, <3>2, <3>3 DEF StepForward
  <2> QED BY <1>1, <2>1, <2>2, <2>3, <2>4, <2>5 DEF LedgerNext
<1>2. LedgerInv /\ [LedgerNext]_ledgerVars => [StepForward]_ledgerVars
  BY <1>1
<1> QED BY LedgerInitInv, LedgerNextInv, <1>2, PTL
        DEF LedgerSpec, LedgerForward
=============================================================================

------------------------- MODULE MCReceiptProtocol -------------------------
(* ReceiptProtocol on one worker that is claimed again and again. *)
EXTENDS ReceiptProtocol, TLC

MCBatches == {<<FALSE, TRUE>>}

MCOneCall == {<<FALSE>>}

MCFinalOps == {-3}

MCSystemOps == {-1, -3}
=============================================================================

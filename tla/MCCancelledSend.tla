--------------------------- MODULE MCCancelledSend ---------------------------
(* A small instance of CancelledSend for TLC.                              *)
EXTENDS CancelledSend, TLC

Fresh == {0 :> 0}
Empty == {<<>>}
=============================================================================

------------------------- MODULE MCIncomingDelivery -------------------------
(* Small instances of IncomingDelivery for TLC.                            *)
EXTENDS IncomingDelivery, TLC

Senders == 1 :> "a" @@ 2 :> "b"
=============================================================================

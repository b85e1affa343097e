------------------------- MODULE MCOutgoingDelivery -------------------------
(* Small instances of OutgoingDelivery for TLC.                            *)
EXTENDS OutgoingDelivery, TLC

(* With the last generation at 3: two rows to be used once each, and one   *)
(* row to be used three times beside one that is used up.                  *)
Worn == {0 :> 2 @@ 1 :> 2, 0 :> 0 @@ 1 :> 3}

Outbox == {<<>>, <<"QUEUED">>}
=============================================================================

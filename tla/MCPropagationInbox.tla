------------------------- MODULE MCPropagationInbox -------------------------
(* Small instances of PropagationInbox for TLC.                            *)
EXTENDS PropagationInbox, TLC

Senders == 1 :> "a" @@ 2 :> "a"
Kept    == 1 :> {1, 2} @@ 2 :> {}
=============================================================================

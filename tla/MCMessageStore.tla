--------------------------- MODULE MCMessageStore ---------------------------
(* A small instance of MessageStore for TLC: one conversation deleted,     *)
(* written and read beside a room operation; the jobs carry the peer of the *)
(* protected recording, which is that conversation.                        *)
EXTENDS MessageStore

Req(op, p) == [operation |-> op, need |-> 0, peer |-> p]

Clients == {Req("Create", "p"), Req("DeleteConversation", "p"),
            Req("DeleteConversation", "q"), Req("Rrc", "p")}
Passes  == {Req("RetainAudio", "p"), Req("Reclaim", "p")}
Both    == Clients \cup Passes
=============================================================================

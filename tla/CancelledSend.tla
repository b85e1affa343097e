---------------------------- MODULE CancelledSend ----------------------------
(* OutgoingDelivery with what the senders have been told: DeviceService    *)
(* reports a saved message as "Message saved; sending cancelled" when it   *)
(* acknowledges a row that its sender cancelled, or that was suppressed    *)
(* when its creation was settled.                                          *)
EXTENDS OutgoingDelivery

VARIABLES
  cancelled,  \* sends whose sender gave up, by ticket: pending.cancelled
  told        \* records reported as saved, their sending cancelled

ToldInit == Init /\ cancelled = {} /\ told = {}

Suppressed(s) == "InitialSuppressed" \in row[s].flags \/ Ticket(s) \in cancelled
Reported == {row[s].counter : s \in {t \in Slots : "Acknowledged" \notin row[t].flags
               /\ "Acknowledged" \in row'[t].flags /\ Suppressed(t)}} \ {0}
Forgiven == {c \in told : c \in DOMAIN record' /\ record[c] # record'[c]}

(* pollSends() passes a sender's wish to give up on to the engine.  Asking *)
(* for another attempt is a new wish to send.                              *)
ToldNext ==
  /\ \/ Next /\ ~(\E s \in Slots : Cancel(s)) /\ UNCHANGED cancelled
     \/ \E s \in Slots : Cancel(s) /\ cancelled' = cancelled \cup {Ticket(s)}
  /\ told' = (told \cup Reported) \ Forgiven

ToldSpec == ToldInit /\ [][ToldNext]_<<vars, cancelled, told>>

(* OutgoingContract.h: a committed result may say that "cancellation       *)
(* suppressed network TX", and DeviceService.cpp says "sending cancelled". *)
(* A packet of such a message is not transmitted.                          *)
SuppressedNotSent == \A r \in air : LeaseLive(r) => row[r.slot].counter \notin told
=============================================================================

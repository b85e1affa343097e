--------------------------- MODULE OrderedTickets ---------------------------
(***************************************************************************)
(* What the storage executor promises its owner, without slots, queues or  *)
(* tasks: admitted requests are numbered, answered once each and in the    *)
(* order of their numbers; a request whose cancellation was accepted is    *)
(* answered "cancelled" and no other request is; an answer stays until the *)
(* owner releases it.                                                      *)
(***************************************************************************)
EXTENDS Naturals

CONSTANT MaxSequence    \* tickets ever issued; the real bound is UINT64_MAX

VARIABLE status         \* what became of each ticket

Ticket == 1 .. MaxSequence
Answer == {"committed", "failed", "cancelled"}
Status == {"unissued", "pending", "cancelling", "released"} \cup Answer

Settled(t) == status[t] \in Answer \cup {"released"}

Init == status = [t \in Ticket |-> "unissued"]

Move(t, s) == status' = [status EXCEPT ![t] = s]

(* Every earlier ticket has been issued / answered.                        *)
Next1(t)  == status[t] = "unissued" /\ \A u \in 1 .. t-1 : status[u] # "unissued"
InTurn(t) == \A u \in 1 .. t-1 : Settled(u)

Admit(t) == Next1(t) /\ Move(t, "pending")

(* Execution inside the admitting call.                                    *)
AdmitAndFinish(t) ==
  /\ Next1(t) /\ InTurn(t)
  /\ \E a \in {"committed", "failed"} : Move(t, a)

Cancel(t) == status[t] = "pending" /\ Move(t, "cancelling")

Finish(t) ==
  /\ InTurn(t)
  /\ \/ status[t] = "pending" /\ \E a \in {"committed", "failed"} : Move(t, a)
     \/ status[t] = "cancelling" /\ Move(t, "cancelled")

Release(t) == status[t] \in Answer /\ Move(t, "released")

Next == \E t \in Ticket : Admit(t) \/ AdmitAndFinish(t) \/ Cancel(t) \/ Finish(t) \/ Release(t)

Spec == Init /\ [][Next]_status

=============================================================================

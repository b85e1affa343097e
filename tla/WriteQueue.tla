----------------------------- MODULE WriteQueue -----------------------------
(***************************************************************************)
(* storage/WriteQueue: the fixed-slot queue between the task that owns the *)
(* message store and the storage worker task.  The owner fills a free slot *)
(* and sends its index; the worker claims, executes and publishes it; the  *)
(* owner alone frees it.  The two tasks share only the slot states (atomic *)
(* words), the index queue and workerStopped.                              *)
(*                                                                         *)
(* One action per step another task can observe: a submission is two steps *)
(* (publish the slot, then send its index), nextReady reads one slot state *)
(* per step, and the worker receives, claims and publishes separately.     *)
(***************************************************************************)
EXTENDS Integers, Sequences, FiniteSets

CONSTANTS
  NormalSlots,   \* slots with a payload buffer (Budget::NormalSlots, 4)
  Compact,       \* CompactProfile: all but the last buffer are small
  Requests,      \* the requests the owner may submit
  Executed,      \* the outcomes the executor may report
  Tasks,         \* the tasks that may own the queue (setup, service)
  MaxSequence    \* _nextSequence stops here (UINT64_MAX)

SlotCount  == NormalSlots + 2       \* + the two reserved slots
Slots      == 0 .. SlotCount - 1
DeleteSlot == NormalSlots
StatusSlot == NormalSlots + 1
StopSlot   == 255                   \* the sentinel index, UINT8_MAX
NoSlot     == 255                   \* the slot of an invalid Ticket
NoCreditQueueLength == SlotCount    \* fault: the sentinel has no place of its own
QueueLength == SlotCount + 1        \* an independent credit for the sentinel

Deletes    == {"DeleteConversation", "DeleteRecord"}
Statuses   == {"UpdateStatus", "RetryOutgoing", "MarkRead"}
Operations == Deletes \cup Statuses \cup {"Create", "Read", "Rrc", "RetainAudio", "Reclaim"}

(* A request needs no payload, a small buffer or a large one (0, 1, 2).    *)
RequestOK(r) ==
  /\ r.operation \in Operations
  /\ r.need \in 0 .. 2
  /\ r.operation \in Deletes \cup Statuses => r.need = 0

ASSUME WriteQueueAssumption ==
  /\ NormalSlots \in 1 .. 250
  /\ Compact \in BOOLEAN
  /\ MaxSequence \in Nat
  /\ Tasks # {}
  /\ \A r \in Requests : RequestOK(r)
  /\ Executed \subseteq {"Failed", "Committed"}

VARIABLES
  state,         \* Slot::state, the atomic word of each slot
  sequence,      \* Slot::sequence
  request,       \* Slot::request, NoRequest before the first use
  outcome,       \* Slot::result.outcome
  queue,         \* the FreeRTOS queue of slot indices
  nextSequence, outstanding, accepting, stopRequested, execution, owner,
  bound,         \* _executor is set
  workerStopped, \* _workerStopped: no worker task exists
  working,       \* the index the worker received, or NoSlot
  sending,       \* the slot published but not yet sent, or NoSlot
  scan           \* the progress of a nextReady call

slotVars   == <<state, sequence, request, outcome>>
ownerVars  == <<nextSequence, outstanding, accepting, stopRequested, execution, owner, bound>>
workerVars == <<workerStopped, working>>
vars == <<slotVars, ownerVars, workerVars, queue, sending, scan>>

Unfinished == {"Queued", "CancelQueued", "Running"}
States     == Unfinished \cup {"Free", "Ready"}
Outcomes   == {"Failed", "Committed", "Cancelled"}
NoRequest  == [operation |-> "None", need |-> 0]
NoScan     == [phase |-> "idle", at |-> 0, after |-> 0, first |-> NoSlot]

Init ==
  /\ state = [i \in Slots |-> "Free"]
  /\ sequence = [i \in Slots |-> 0]
  /\ request = [i \in Slots |-> NoRequest]
  /\ outcome = [i \in Slots |-> "Failed"]
  /\ queue = <<>>
  /\ nextSequence = 0 /\ outstanding = 0
  /\ accepting = FALSE /\ stopRequested = FALSE /\ execution = "Immediate"
  /\ owner \in Tasks /\ bound = FALSE
  /\ workerStopped = TRUE /\ working = NoSlot
  /\ sending = NoSlot /\ scan = NoScan

Enqueue(i) == Append(queue, i)

-----------------------------------------------------------------------------
(* The owner's calls.  A call starts only when the previous one returned.  *)
OwnerIdle == sending = NoSlot /\ scan.phase = "idle"

(* finishStop() succeeds: the worker is gone and every answer released.    *)
Drained == ~accepting /\ workerStopped /\ outstanding = 0

FinishStop ==
  /\ OwnerIdle /\ Drained /\ bound
  /\ bound' = FALSE /\ queue' = <<>>
  /\ UNCHANGED <<slotVars, nextSequence, outstanding, accepting, stopRequested, execution,
                 owner, workerVars, sending, scan>>

(* begin(): runs finishStop, then starts the worker unless `e` is          *)
(* Immediate.  The queue or the task may fail to be created.               *)
Begin(e, ok) ==
  /\ OwnerIdle /\ Drained
  /\ e = "Immediate" => ok
  /\ bound' = TRUE /\ execution' = e /\ stopRequested' = FALSE
  /\ queue' = <<>>
  /\ workerStopped' = ~(ok /\ e = "Deferred")
  /\ accepting' = ok
  /\ UNCHANGED <<slotVars, nextSequence, outstanding, owner, working, sending, scan>>

Transferable == outstanding = 0 /\ (stopRequested => workerStopped)

AdoptOwner(t) ==
  /\ OwnerIdle /\ Transferable
  /\ owner' = t
  /\ UNCHANGED <<slotVars, nextSequence, outstanding, accepting, stopRequested, execution,
                 bound, workerVars, queue, sending, scan>>

Capacity(i) == IF i >= NormalSlots THEN 0
               ELSE IF Compact /\ i < NormalSlots - 1 THEN 1 ELSE 2

Candidates(r) ==
  IF r.operation \in Deletes THEN {DeleteSlot}
  ELSE IF r.operation \in Statuses THEN {StatusSlot}
  ELSE 0 .. NormalSlots - 1

Usable(r) == {i \in Candidates(r) : state[i] = "Free" /\ Capacity(i) >= r.need}

FirstFit(i, r) == i \in Usable(r) /\ \A j \in Usable(r) : i <= j

LastNumberReused == nextSequence <= MaxSequence   \* fault: numbers past the last one
NumbersLeft == nextSequence < MaxSequence

(* submit() up to the publication of the slot.  An immediate queue runs    *)
(* the request in place; a deferred one has the index still to send.       *)
Submit(r) ==
  /\ OwnerIdle
  /\ accepting /\ NumbersLeft
  /\ \E i \in Slots :
       /\ FirstFit(i, r)
       /\ request' = [request EXCEPT ![i] = r]
       /\ sequence' = [sequence EXCEPT ![i] = nextSequence + 1]
       /\ IF execution = "Deferred"
          THEN /\ state' = [state EXCEPT ![i] = "Queued"]
               /\ outcome' = [outcome EXCEPT ![i] = "Failed"]
               /\ sending' = i
          ELSE /\ state' = [state EXCEPT ![i] = "Ready"]
               /\ \E o \in Executed : outcome' = [outcome EXCEPT ![i] = o]
               /\ UNCHANGED sending
  /\ nextSequence' = nextSequence + 1 /\ outstanding' = outstanding + 1
  /\ UNCHANGED <<accepting, stopRequested, execution, owner, bound, workerVars, queue, scan>>

(* xQueueSend without waiting; a refused send undoes the admission.        *)
SubmitSend ==
  /\ sending # NoSlot
  /\ IF Len(queue) < QueueLength
     THEN queue' = Enqueue(sending) /\ UNCHANGED <<state, outstanding>>
     ELSE /\ state' = [state EXCEPT ![sending] = "Free"]
          /\ outstanding' = outstanding - 1
          /\ UNCHANGED queue
  /\ sending' = NoSlot
  /\ UNCHANGED <<sequence, request, outcome, nextSequence, accepting, stopRequested,
                 execution, owner, bound, workerVars, scan>>

AnsweredAtOnce == "Ready"              \* fault: cancel() answers itself
Cancelling     == "CancelQueued"

Cancel(i) ==
  /\ OwnerIdle
  /\ state[i] = "Queued"
  /\ state' = [state EXCEPT ![i] = Cancelling]
  /\ UNCHANGED <<sequence, request, outcome, ownerVars, workerVars, queue, sending, scan>>

ReleaseResult(i) ==
  /\ OwnerIdle
  /\ state[i] = "Ready"
  /\ state' = [state EXCEPT ![i] = "Free"]
  /\ outstanding' = outstanding - 1
  /\ UNCHANGED <<sequence, request, outcome, nextSequence, accepting, stopRequested,
                 execution, owner, bound, workerVars, queue, sending, scan>>

(* nextReady(after): one slot state read per step.                         *)
ScanBegin(after) ==
  /\ OwnerIdle
  /\ scan' = [phase |-> "scanning", at |-> 0, after |-> after, first |-> NoSlot]
  /\ UNCHANGED <<slotVars, ownerVars, workerVars, queue, sending>>

Older(i) == scan.first = NoSlot \/ sequence[i] < sequence[scan.first]

ReadyOnlyTakes(i) == state[i] = "Ready" /\ sequence[i] > scan.after /\ Older(i)  \* fault
ScanTakes(i) == state[i] # "Free" /\ sequence[i] > scan.after /\ Older(i)

ScanStep ==
  /\ scan.phase = "scanning" /\ scan.at < SlotCount
  /\ scan' = [phase |-> "scanning", at |-> scan.at + 1, after |-> scan.after,
              first |-> IF ScanTakes(scan.at) THEN scan.at ELSE scan.first]
  /\ UNCHANGED <<slotVars, ownerVars, workerVars, queue, sending>>

(* What nextReady returns: the oldest ticket, if it is ready by now.       *)
ScanDone   == scan.phase = "scanning" /\ scan.at = SlotCount
ScanAnswer == IF scan.first # NoSlot /\ state[scan.first] = "Ready" THEN scan.first ELSE NoSlot

ScanEnd ==
  /\ ScanDone
  /\ scan' = NoScan
  /\ UNCHANGED <<slotVars, ownerVars, workerVars, queue, sending>>

SentinelFirst == <<StopSlot>> \o queue  \* fault: the stop overtakes what is queued
SentinelLast  == Enqueue(StopSlot)

RequestStop ==
  /\ OwnerIdle /\ (accepting \/ ~stopRequested)
  /\ accepting' = FALSE /\ stopRequested' = TRUE
  /\ queue' = IF ~stopRequested /\ ~workerStopped /\ Len(queue) < QueueLength
              THEN SentinelLast ELSE queue
  /\ UNCHANGED <<slotVars, nextSequence, outstanding, execution, owner, bound,
                 workerVars, sending, scan>>

-----------------------------------------------------------------------------
(* The worker task.                                                        *)
WorkerReceive ==
  /\ ~workerStopped /\ working = NoSlot /\ queue # <<>>
  /\ queue' = Tail(queue)
  /\ IF Head(queue) = StopSlot
     THEN workerStopped' = TRUE /\ UNCHANGED working
     ELSE working' = Head(queue) /\ UNCHANGED workerStopped
  /\ UNCHANGED <<slotVars, ownerVars, sending, scan>>

(* executeSlot() claims a queued slot, or answers a cancelled one.         *)
WorkerClaim ==
  /\ working # NoSlot /\ state[working] # "Running"
  /\ IF state[working] = "Queued"
     THEN state' = [state EXCEPT ![working] = "Running"] /\ UNCHANGED <<outcome, working>>
     ELSE /\ working' = NoSlot
          /\ IF state[working] = "CancelQueued"
             THEN /\ state' = [state EXCEPT ![working] = "Ready"]
                  /\ outcome' = [outcome EXCEPT ![working] = "Cancelled"]
             ELSE UNCHANGED <<state, outcome>>
  /\ UNCHANGED <<sequence, request, ownerVars, workerStopped, queue, sending, scan>>

(* The executor returned or threw; its outcome is published with Ready.    *)
WorkerPublish(o) ==
  /\ working # NoSlot /\ state[working] = "Running"
  /\ state' = [state EXCEPT ![working] = "Ready"]
  /\ outcome' = [outcome EXCEPT ![working] = o]
  /\ working' = NoSlot
  /\ UNCHANGED <<sequence, request, ownerVars, workerStopped, queue, sending, scan>>

-----------------------------------------------------------------------------
Submitting == \E r \in Requests : Submit(r)
Starting   == \E e \in {"Immediate", "Deferred"}, ok \in BOOLEAN : Begin(e, ok)
Adopting   == \E t \in Tasks : AdoptOwner(t)
Withdrawing == \E i \in Slots : Cancel(i)
Releasing  == \E i \in Slots : ReleaseResult(i)
Scanning   == \E after \in 0 .. nextSequence : ScanBegin(after)

Owner  == \/ Starting \/ FinishStop \/ Adopting \/ Submitting \/ SubmitSend \/ Withdrawing
          \/ Releasing \/ Scanning \/ ScanStep \/ ScanEnd \/ RequestStop
Worker == WorkerReceive \/ WorkerClaim \/ (\E o \in Executed : WorkerPublish(o))

Next == Owner \/ Worker

Spec == Init /\ [][Next]_vars

(* The worker is a task of its own that FreeRTOS keeps scheduling and the  *)
(* executor returns; an owner call in progress returns.  The owner is not  *)
(* obliged to call anything.                                               *)
FairSpec == Spec /\ WF_vars(Worker) /\ WF_vars(SubmitSend)

-----------------------------------------------------------------------------
(* The slots; the numbers and indices; the flags; the scan.                *)
SlotTypeOK ==
  /\ state \in [Slots -> States]
  /\ sequence \in [Slots -> 0 .. MaxSequence]
  /\ request \in [Slots -> Requests \cup {NoRequest}]
  /\ outcome \in [Slots -> Outcomes]

IndexTypeOK ==
  /\ nextSequence \in 0 .. MaxSequence /\ outstanding \in Int
  /\ queue \in Seq(Slots \cup {StopSlot})
  /\ working \in Slots \cup {NoSlot} /\ sending \in Slots \cup {NoSlot}

FlagTypeOK ==
  /\ accepting \in BOOLEAN /\ stopRequested \in BOOLEAN
  /\ bound \in BOOLEAN /\ workerStopped \in BOOLEAN
  /\ execution \in {"Immediate", "Deferred"} /\ owner \in Tasks

ScanTypeOK ==
  scan \in [phase : {"idle", "scanning"}, at : 0 .. SlotCount, after : 0 .. MaxSequence,
            first : Slots \cup {NoSlot}]

(* Type invariant of the queue's fields (WriteQueue.h 70-84).              *)
TypeOK == SlotTypeOK /\ IndexTypeOK /\ FlagTypeOK /\ ScanTypeOK

(* Requests complete in admission order: none is ready while an older one  *)
(* is unfinished.  MessageStore::poll relies on it to settle in order.     *)
CompletionInOrder == \A i, j \in Slots :
  state[i] = "Ready" /\ state[j] \in Unfinished => sequence[i] < sequence[j]

(* Once the worker task is gone nothing it should have answered is left:   *)
(* the sentinel is behind every admitted index.                            *)
StopDrains == workerStopped =>
  /\ queue = <<>> /\ working = NoSlot
  /\ \A i \in Slots : state[i] \in {"Free", "Ready"}

(* Every admitted request is answered.                                     *)
AdmittedIsAnswered == \A i \in Slots : state[i] \in Unfinished ~> state[i] = "Ready"

(* A requested stop ends the worker.                                       *)
StopCompletes == stopRequested ~> workerStopped

(* Why requests complete in order, as an invariant that every step keeps:  *)
(* tickets are numbered once; the index queue holds waiting slots, oldest  *)
(* first, with the sentinel last; the slot in execution is older than all  *)
(* of them and the one being sent is younger; nothing else is unfinished.  *)
Waiting == {"Queued", "CancelQueued"}

NumberedOnce ==
  /\ \A i \in Slots : sequence[i] <= nextSequence /\ (state[i] # "Free" => sequence[i] > 0)
  /\ \A i, j \in Slots : state[i] # "Free" /\ state[j] # "Free" /\ i # j
                         => sequence[i] # sequence[j]

QueueInOrder ==
  /\ \A k \in 1 .. Len(queue) : queue[k] # StopSlot => state[queue[k]] \in Waiting
  /\ \A k, l \in 1 .. Len(queue) : k < l =>
       /\ queue[k] # StopSlot
       /\ queue[l] # StopSlot => sequence[queue[k]] < sequence[queue[l]]

WorkerAhead == working # NoSlot =>
  /\ state[working] \in Unfinished
  /\ \A k \in 1 .. Len(queue) : queue[k] # StopSlot => sequence[working] < sequence[queue[k]]

SenderBehind == sending # NoSlot =>
  /\ state[sending] \in Waiting /\ sequence[sending] = nextSequence
  /\ sending # working
  /\ \A k \in 1 .. Len(queue) : queue[k] # StopSlot /\ queue[k] # sending

UnfinishedHeld == \A i \in Slots : state[i] \in Unfinished =>
  /\ i = working \/ i = sending \/ \E k \in 1 .. Len(queue) : queue[k] = i
  /\ state[i] = "Running" => i = working

StopInOrder ==
  /\ workerStopped => queue = <<>> /\ working = NoSlot /\ sending = NoSlot
  /\ accepting => ~stopRequested
  /\ accepting /\ execution = "Deferred" => ~workerStopped
  /\ execution = "Immediate" => workerStopped
  /\ (\E k \in 1 .. Len(queue) : queue[k] = StopSlot) => stopRequested

OrderInvariant ==
  /\ NumberedOnce /\ QueueInOrder /\ WorkerAhead /\ SenderBehind
  /\ UnfinishedHeld /\ StopInOrder /\ CompletionInOrder

-----------------------------------------------------------------------------
(* The queue implements OrderedTickets: a ticket is read off its slot, and *)
(* an issued ticket in no slot has been released.                          *)
InSlot(t) == {i \in Slots : state[i] # "Free" /\ sequence[i] = t}

SlotStatus(i) ==
  CASE state[i] \in {"Queued", "Running"} -> "pending"
    [] state[i] = "CancelQueued" -> "cancelling"
    [] state[i] = "Ready" -> [Failed |-> "failed", Committed |-> "committed",
                              Cancelled |-> "cancelled"][outcome[i]]

TicketStatus == [t \in 1 .. MaxSequence |->
  IF t > nextSequence THEN "unissued"
  ELSE IF InSlot(t) = {} THEN "released" ELSE SlotStatus(CHOOSE i \in InSlot(t) : TRUE)]

Abstract == INSTANCE OrderedTickets WITH status <- TicketStatus

(* Refinement: admission order, answer order, cancellation and release of  *)
(* the slots, the index queue and the two tasks are those of the tickets.  *)
ImplementsOrderedTickets == Abstract!Spec

=============================================================================

------------------------- MODULE MessageStoreProofs -------------------------
(***************************************************************************)
(* Theorems about the storage queue (WriteQueue) and the store that owns   *)
(* it (MessageStore), for every number of slots, requests, clients, jobs,  *)
(* tasks and tickets.                                                      *)
(*                                                                         *)
(* The queue: an unfinished slot is in the index queue, with the worker or *)
(* being sent, in this order of age (OrderInvariant); so the worker        *)
(* completes the oldest, and a stop leaves none behind.  A ticket's number *)
(* is in at most one slot, so its status can be read off that slot, and a  *)
(* step that changes one slot changes one ticket: that is the refinement   *)
(* of OrderedTickets.                                                      *)
(*                                                                         *)
(* The store: settlement in ticket order, release only after settlement,   *)
(* and the fence of a deletion.  An admitted ticket stays in its slot      *)
(* until poll() settled it, so the ticket after the last settled one is in *)
(* a slot whenever it was issued, and the scan, which takes the oldest     *)
(* occupied slot, cannot answer with a later one.  The worker changes what *)
(* a slot holds during a scan but never whether it is occupied.            *)
(***************************************************************************)
EXTENDS MessageStore, FiniteSetTheorems, TLAPS

-----------------------------------------------------------------------------
(* The queue alone: vars, Init, Next and Spec are WriteQueue's.            *)

USE DEF NoSlot, StopSlot, DeleteSlot, StatusSlot

(* Slot indices are naturals below the invalid and the sentinel index.     *)
LEMMA SlotsBelow == /\ Slots \subseteq 0 .. 251
                    /\ NoSlot \notin Slots /\ SlotCount \in Nat
BY WriteQueueAssumption DEF Slots, SlotCount

LEMMA NoScanType ==
  NoScan \in [phase : {"idle", "scanning"}, at : 0 .. SlotCount, after : 0 .. MaxSequence,
              first : Slots \cup {NoSlot}]
BY SlotsBelow, WriteQueueAssumption DEF NoScan

LEMMA TypeInit == Init => TypeOK
<1> USE DEF States, Unfinished, Outcomes
<1> SUFFICES ASSUME Init PROVE TypeOK
  OBVIOUS
<1>1. SlotTypeOK
  BY WriteQueueAssumption DEF Init, SlotTypeOK
<1>2. IndexTypeOK
  BY WriteQueueAssumption DEF Init, IndexTypeOK
<1>3. FlagTypeOK
  BY WriteQueueAssumption DEF Init, FlagTypeOK
<1>4. ScanTypeOK
  BY NoScanType DEF Init, ScanTypeOK
<1> QED
  BY <1>1, <1>2, <1>3, <1>4 DEF TypeOK

(* Every call of the owner and every step of the worker keeps each field   *)
(* in its range.                                                           *)
LEMMA TypeStep == TypeOK /\ [Next]_vars => TypeOK'
<1> USE DEF States, Unfinished, Outcomes, ownerVars, slotVars, workerVars
<1> SUFFICES ASSUME TypeOK, [Next]_vars PROVE TypeOK'
  OBVIOUS
<1> USE WriteQueueAssumption, SlotsBelow DEF TypeOK
<1>1. CASE Starting
  <2>1. SlotTypeOK'
    BY <1>1 DEF Starting, Begin, SlotTypeOK
  <2>2. IndexTypeOK'
    BY <1>1 DEF Starting, Begin, IndexTypeOK
  <2>3. FlagTypeOK'
    BY <1>1 DEF Starting, Begin, FlagTypeOK
  <2>4. ScanTypeOK'
    BY <1>1 DEF Starting, Begin, ScanTypeOK
  <2> QED
    BY <2>1, <2>2, <2>3, <2>4 DEF TypeOK
<1>2. CASE FinishStop
  <2>1. SlotTypeOK'
    BY <1>2 DEF FinishStop, SlotTypeOK
  <2>2. IndexTypeOK'
    BY <1>2 DEF FinishStop, IndexTypeOK
  <2>3. FlagTypeOK'
    BY <1>2 DEF FinishStop, FlagTypeOK
  <2>4. ScanTypeOK'
    BY <1>2 DEF FinishStop, ScanTypeOK
  <2> QED
    BY <2>1, <2>2, <2>3, <2>4 DEF TypeOK
<1>3. CASE Adopting
  <2>1. SlotTypeOK'
    BY <1>3 DEF Adopting, AdoptOwner, SlotTypeOK
  <2>2. IndexTypeOK'
    BY <1>3 DEF Adopting, AdoptOwner, IndexTypeOK
  <2>3. FlagTypeOK'
    BY <1>3 DEF Adopting, AdoptOwner, FlagTypeOK
  <2>4. ScanTypeOK'
    BY <1>3 DEF Adopting, AdoptOwner, ScanTypeOK
  <2> QED
    BY <2>1, <2>2, <2>3, <2>4 DEF TypeOK
<1>4. CASE Submitting
  <2>1. PICK r \in Requests : Submit(r)
    BY <1>4 DEF Submitting
  <2>2. PICK i \in Slots :
          /\ request' = [request EXCEPT ![i] = r]
          /\ sequence' = [sequence EXCEPT ![i] = nextSequence + 1]
          /\ state' \in {[state EXCEPT ![i] = "Queued"], [state EXCEPT ![i] = "Ready"]}
          /\ \E o \in Outcomes : outcome' = [outcome EXCEPT ![i] = o]
          /\ sending' \in {i, sending}
    BY <2>1 DEF Submit
  <2>3. nextSequence + 1 \in 0 .. MaxSequence
    BY <2>1 DEF Submit, NumbersLeft, IndexTypeOK
  <2>4. SlotTypeOK'
    BY <2>2, <2>3 DEF SlotTypeOK
  <2>5. IndexTypeOK'
    BY <2>1, <2>2, <2>3 DEF Submit, IndexTypeOK
  <2>6. FlagTypeOK' /\ ScanTypeOK'
    BY <2>1 DEF Submit, FlagTypeOK, ScanTypeOK
  <2> QED
    BY <2>4, <2>5, <2>6 DEF TypeOK
<1>5. CASE SubmitSend
  <2>1. SlotTypeOK'
    BY <1>5 DEF SubmitSend, Enqueue, SlotTypeOK, IndexTypeOK
  <2>2. IndexTypeOK'
    <3>1. sending \in Slots /\ outstanding - 1 \in Int
      BY <1>5 DEF SubmitSend, IndexTypeOK
    <3>2. queue' \in Seq(Slots \cup {StopSlot})
      BY <1>5, <3>1 DEF SubmitSend, Enqueue, IndexTypeOK
    <3> QED
      BY <1>5, <3>1, <3>2 DEF SubmitSend, IndexTypeOK
  <2>3. FlagTypeOK'
    BY <1>5 DEF SubmitSend, Enqueue, FlagTypeOK
  <2>4. ScanTypeOK'
    BY <1>5 DEF SubmitSend, Enqueue, ScanTypeOK
  <2> QED
    BY <2>1, <2>2, <2>3, <2>4 DEF TypeOK
<1>6. CASE Withdrawing
  <2>1. SlotTypeOK'
    BY <1>6 DEF Withdrawing, Cancel, Cancelling, SlotTypeOK
  <2>2. IndexTypeOK'
    BY <1>6 DEF Withdrawing, Cancel, Cancelling, IndexTypeOK
  <2>3. FlagTypeOK'
    BY <1>6 DEF Withdrawing, Cancel, Cancelling, FlagTypeOK
  <2>4. ScanTypeOK'
    BY <1>6 DEF Withdrawing, Cancel, Cancelling, ScanTypeOK
  <2> QED
    BY <2>1, <2>2, <2>3, <2>4 DEF TypeOK
<1>7. CASE Releasing
  <2>1. SlotTypeOK'
    BY <1>7 DEF Releasing, ReleaseResult, SlotTypeOK
  <2>2. IndexTypeOK'
    BY <1>7 DEF Releasing, ReleaseResult, IndexTypeOK
  <2>3. FlagTypeOK'
    BY <1>7 DEF Releasing, ReleaseResult, FlagTypeOK
  <2>4. ScanTypeOK'
    BY <1>7 DEF Releasing, ReleaseResult, ScanTypeOK
  <2> QED
    BY <2>1, <2>2, <2>3, <2>4 DEF TypeOK
<1>8. CASE Scanning
  <2>1. SlotTypeOK'
    BY <1>8 DEF Scanning, ScanBegin, NoScan, SlotTypeOK
  <2>2. IndexTypeOK'
    BY <1>8 DEF Scanning, ScanBegin, NoScan, IndexTypeOK
  <2>3. FlagTypeOK'
    BY <1>8 DEF Scanning, ScanBegin, NoScan, FlagTypeOK
  <2>4. ScanTypeOK'
    BY <1>8 DEF Scanning, ScanBegin, NoScan, ScanTypeOK, IndexTypeOK
  <2> QED
    BY <2>1, <2>2, <2>3, <2>4 DEF TypeOK
<1>9. CASE ScanStep
  <2>1. SlotTypeOK'
    BY <1>9 DEF ScanStep, Slots, SlotTypeOK
  <2>2. IndexTypeOK'
    BY <1>9 DEF ScanStep, Slots, IndexTypeOK
  <2>3. FlagTypeOK'
    BY <1>9 DEF ScanStep, Slots, FlagTypeOK
  <2>4. ScanTypeOK'
    <3>1. scan.at \in Slots /\ scan.at + 1 \in 0 .. SlotCount
      BY <1>9 DEF ScanStep, ScanTypeOK, Slots
    <3> QED
      BY <1>9, <3>1 DEF ScanStep, ScanTypeOK
  <2> QED
    BY <2>1, <2>2, <2>3, <2>4 DEF TypeOK
<1>10. CASE ScanEnd
  <2>1. SlotTypeOK'
    BY <1>10 DEF ScanEnd, NoScan, SlotTypeOK
  <2>2. IndexTypeOK'
    BY <1>10 DEF ScanEnd, NoScan, IndexTypeOK
  <2>3. FlagTypeOK'
    BY <1>10 DEF ScanEnd, NoScan, FlagTypeOK
  <2>4. ScanTypeOK'
    BY <1>10, NoScanType DEF ScanEnd, ScanTypeOK
  <2> QED
    BY <2>1, <2>2, <2>3, <2>4 DEF TypeOK
<1>11. CASE RequestStop
  <2>1. SlotTypeOK'
    BY <1>11 DEF RequestStop, SentinelLast, Enqueue, SlotTypeOK
  <2>2. IndexTypeOK'
    BY <1>11 DEF RequestStop, SentinelLast, Enqueue, IndexTypeOK
  <2>3. FlagTypeOK'
    BY <1>11 DEF RequestStop, SentinelLast, Enqueue, FlagTypeOK
  <2>4. ScanTypeOK'
    BY <1>11 DEF RequestStop, SentinelLast, Enqueue, ScanTypeOK
  <2> QED
    BY <2>1, <2>2, <2>3, <2>4 DEF TypeOK
<1>12. CASE WorkerReceive
  <2>1. SlotTypeOK'
    BY <1>12 DEF WorkerReceive, SlotTypeOK, IndexTypeOK
  <2>2. IndexTypeOK'
    BY <1>12 DEF WorkerReceive, IndexTypeOK
  <2>3. FlagTypeOK'
    BY <1>12 DEF WorkerReceive, FlagTypeOK
  <2>4. ScanTypeOK'
    BY <1>12 DEF WorkerReceive, ScanTypeOK
  <2> QED
    BY <2>1, <2>2, <2>3, <2>4 DEF TypeOK
<1>13. CASE WorkerClaim
  <2>1. SlotTypeOK'
    BY <1>13 DEF WorkerClaim, SlotTypeOK, IndexTypeOK
  <2>2. IndexTypeOK'
    BY <1>13 DEF WorkerClaim, IndexTypeOK
  <2>3. FlagTypeOK'
    BY <1>13 DEF WorkerClaim, FlagTypeOK
  <2>4. ScanTypeOK'
    BY <1>13 DEF WorkerClaim, ScanTypeOK
  <2> QED
    BY <2>1, <2>2, <2>3, <2>4 DEF TypeOK
<1>14. CASE \E o \in Executed : WorkerPublish(o)
  <2>1. SlotTypeOK'
    BY <1>14 DEF WorkerPublish, SlotTypeOK, IndexTypeOK
  <2>2. IndexTypeOK'
    BY <1>14 DEF WorkerPublish, IndexTypeOK
  <2>3. FlagTypeOK'
    BY <1>14 DEF WorkerPublish, FlagTypeOK
  <2>4. ScanTypeOK'
    BY <1>14 DEF WorkerPublish, ScanTypeOK
  <2> QED
    BY <2>1, <2>2, <2>3, <2>4 DEF TypeOK
<1>15. CASE UNCHANGED vars
  <2>1. SlotTypeOK'
    BY <1>15 DEF vars, SlotTypeOK
  <2>2. IndexTypeOK'
    BY <1>15 DEF vars, IndexTypeOK
  <2>3. FlagTypeOK'
    BY <1>15 DEF vars, FlagTypeOK
  <2>4. ScanTypeOK'
    BY <1>15 DEF vars, ScanTypeOK
  <2> QED
    BY <2>1, <2>2, <2>3, <2>4 DEF TypeOK
<1> QED
  BY <1>1, <1>2, <1>3, <1>4, <1>5, <1>6, <1>7, <1>8, <1>9, <1>10, <1>11, <1>12, <1>13,
     <1>14, <1>15 DEF Next, Owner, Worker

(* Type correctness, whatever the two tasks interleave.                    *)
THEOREM TypeCorrect == Spec => []TypeOK
BY TypeInit, TypeStep, PTL DEF Spec

(* The slot in execution is the oldest unfinished one.                     *)
LEMMA OldestAtWorker ==
  ASSUME TypeOK, OrderInvariant, working # NoSlot,
         NEW j \in Slots, j # working, state[j] \in Unfinished
  PROVE  sequence[working] < sequence[j]
<1>1. working \in Slots /\ sequence[working] \in Nat /\ sequence[j] \in Nat
      /\ nextSequence \in Nat
  BY WriteQueueAssumption DEF TypeOK, IndexTypeOK, SlotTypeOK
<1>2. CASE j = sending
  BY <1>1, <1>2, SlotsBelow DEF OrderInvariant, SenderBehind, NumberedOnce,
     WorkerAhead, Waiting, Unfinished
<1>3. CASE j # sending
  <2>1. PICK k \in 1 .. Len(queue) : queue[k] = j
    BY <1>3 DEF OrderInvariant, UnfinishedHeld
  <2> QED
    BY <2>1, SlotsBelow DEF OrderInvariant, WorkerAhead
<1> QED
  BY <1>2, <1>3

(* Each step of either task keeps the order of the index queue, of the     *)
(* slot in execution and of the slot being sent.                           *)
LEMMA OrderStep == TypeOK /\ OrderInvariant /\ [Next]_vars => OrderInvariant'
<1> SUFFICES ASSUME TypeOK, OrderInvariant, [Next]_vars PROVE OrderInvariant'
  OBVIOUS
<1> USE SlotsBelow DEF slotVars, ownerVars, workerVars, Unfinished, Waiting
<1>1. CASE Starting
  <2>1. NumberedOnce'
    BY <1>1 DEF Starting, Begin, Drained, OrderInvariant, NumberedOnce
  <2>2. QueueInOrder'
    BY <1>1 DEF Starting, Begin, Drained, OrderInvariant, QueueInOrder
  <2>3. WorkerAhead'
    BY <1>1 DEF Starting, Begin, Drained, OrderInvariant, WorkerAhead
  <2>4. SenderBehind'
    BY <1>1 DEF Starting, Begin, Drained, OrderInvariant, SenderBehind
  <2>5. UnfinishedHeld'
    BY <1>1 DEF Starting, Begin, Drained, TypeOK, SlotTypeOK, IndexTypeOK,
       OrderInvariant, UnfinishedHeld, QueueInOrder, WorkerAhead,
       SenderBehind, StopInOrder
  <2>6. StopInOrder'
    <3>1. queue' = <<>> /\ working' = NoSlot /\ sending' = NoSlot
      BY <1>1 DEF Starting, Begin, Drained, OwnerIdle, OrderInvariant, StopInOrder
    <3>2. /\ accepting' => ~stopRequested'
          /\ accepting' /\ execution' = "Deferred" => ~workerStopped'
          /\ execution' = "Immediate" => workerStopped'
      <4>1. PICK e \in {"Immediate", "Deferred"}, ok \in BOOLEAN : Begin(e, ok)
        BY <1>1 DEF Starting
      <4>2. /\ accepting' = ok /\ stopRequested' = FALSE /\ execution' = e
            /\ workerStopped' = ~(ok /\ e = "Deferred")
        BY <4>1 DEF Begin
      <4> QED
        BY <4>2
    <3> QED
      BY <3>1, <3>2 DEF StopInOrder
  <2>7. CompletionInOrder'
    BY <1>1 DEF Starting, Begin, Drained, OrderInvariant, CompletionInOrder
  <2> QED
    BY <2>1, <2>2, <2>3, <2>4, <2>5, <2>6, <2>7 DEF OrderInvariant
<1>2. CASE FinishStop
  <2>1. NumberedOnce'
    BY <1>2 DEF FinishStop, Drained, OrderInvariant, NumberedOnce
  <2>2. QueueInOrder'
    BY <1>2 DEF FinishStop, Drained, OrderInvariant, QueueInOrder
  <2>3. WorkerAhead'
    BY <1>2 DEF FinishStop, Drained, OrderInvariant, WorkerAhead
  <2>4. SenderBehind'
    BY <1>2 DEF FinishStop, Drained, OrderInvariant, SenderBehind
  <2>5. UnfinishedHeld'
    BY <1>2 DEF FinishStop, Drained, TypeOK, SlotTypeOK, IndexTypeOK,
       OrderInvariant, UnfinishedHeld, QueueInOrder, WorkerAhead,
       SenderBehind, StopInOrder
  <2>6. StopInOrder'
    BY <1>2 DEF FinishStop, Drained, OrderInvariant, StopInOrder
  <2>7. CompletionInOrder'
    BY <1>2 DEF FinishStop, Drained, OrderInvariant, CompletionInOrder
  <2> QED
    BY <2>1, <2>2, <2>3, <2>4, <2>5, <2>6, <2>7 DEF OrderInvariant
<1>3. CASE Submitting
  <2>1. PICK r \in Requests : Submit(r)
    BY <1>3 DEF Submitting
  <2>2. PICK i \in Slots :
          /\ FirstFit(i, r)
          /\ sequence' = [sequence EXCEPT ![i] = nextSequence + 1]
          /\ \/ /\ execution = "Deferred"
                /\ state' = [state EXCEPT ![i] = "Queued"] /\ sending' = i
             \/ /\ execution # "Deferred"
                /\ state' = [state EXCEPT ![i] = "Ready"] /\ sending' = sending
    BY <2>1 DEF Submit
  <2>3. /\ state[i] = "Free" /\ sending = NoSlot /\ accepting
        /\ nextSequence' = nextSequence + 1
        /\ UNCHANGED <<queue, working, workerStopped, accepting, stopRequested, execution>>
    BY <2>1, <2>2 DEF Submit, FirstFit, Usable, OwnerIdle
  <2>4. /\ sequence \in [Slots -> Nat] /\ nextSequence \in Nat /\ state \in [Slots -> States]
        /\ queue \in Seq(Slots \cup {StopSlot})
        /\ working \in Slots \cup {NoSlot}
    BY WriteQueueAssumption DEF TypeOK, SlotTypeOK, IndexTypeOK
  <2>5. execution = "Deferred" => ~workerStopped
    BY <2>3 DEF OrderInvariant, StopInOrder
  <2>6. execution # "Deferred" => workerStopped
    BY DEF TypeOK, FlagTypeOK, OrderInvariant, StopInOrder
  <2>7. \A k \in 1 .. Len(queue) : queue[k] \in Slots /\ queue[k] # i
    BY <2>3, <2>4 DEF OrderInvariant, StopInOrder, QueueInOrder
  <2>8. working # i
    BY <2>2, <2>3 DEF OrderInvariant, WorkerAhead
  <2>9. \A j \in Slots : j # i => state'[j] = state[j] /\ sequence'[j] = sequence[j]
    BY <2>2, <2>4
  <2>10. sequence'[i] = nextSequence + 1 /\ state'[i] \in {"Queued", "Ready"}
    BY <2>2, <2>4
  <2>11. NumberedOnce'
    BY <2>2, <2>3, <2>4, <2>9, <2>10 DEF OrderInvariant, NumberedOnce
  <2>12. QueueInOrder'
    <3>1. \A k \in 1 .. Len(queue) : state'[queue[k]] = state[queue[k]]
                                      /\ sequence'[queue[k]] = sequence[queue[k]]
      BY <2>7, <2>9
    <3> QED
      BY <3>1, <2>3 DEF OrderInvariant, QueueInOrder
  <2>13. WorkerAhead'
    BY <2>3, <2>4, <2>7, <2>8, <2>9 DEF OrderInvariant, WorkerAhead
  <2>14. SenderBehind'
    BY <2>2, <2>3, <2>4, <2>7, <2>8, <2>10 DEF SenderBehind
  <2>15. UnfinishedHeld'
    <3> SUFFICES ASSUME NEW j \in Slots, state'[j] \in Unfinished
                 PROVE /\ j = working \/ j = sending' \/ \E k \in 1 .. Len(queue) : queue[k] = j
                       /\ state'[j] = "Running" => j = working
      BY <2>3 DEF UnfinishedHeld
    <3>1. CASE j = i
      BY <3>1, <2>2, <2>4
    <3>2. CASE j # i
      BY <3>2, <2>3, <2>9 DEF OrderInvariant, UnfinishedHeld
    <3> QED
      BY <3>1, <3>2
  <2>16. StopInOrder'
    BY <2>2, <2>3, <2>5 DEF OrderInvariant, StopInOrder
  <2>17. CompletionInOrder'
    <3>1. CASE execution = "Deferred"
      BY <3>1, <2>2, <2>3, <2>4, <2>9, <2>10 DEF OrderInvariant, CompletionInOrder, NumberedOnce
    <3>2. CASE execution # "Deferred"
      <4>1. \A j \in Slots : state[j] \notin Unfinished
        BY <3>2, <2>3, <2>6 DEF OrderInvariant, StopInOrder, UnfinishedHeld
      <4> QED
        BY <4>1, <3>2, <2>2, <2>4, <2>9 DEF CompletionInOrder
    <3> QED
      BY <3>1, <3>2
  <2> QED
    BY <2>11, <2>12, <2>13, <2>14, <2>15, <2>16, <2>17 DEF OrderInvariant
<1>4. CASE SubmitSend
  <2> DEFINE sent == queue' = Append(queue, sending) /\ UNCHANGED state
  <2>a. sending \in Slots /\ queue \in Seq(Slots \cup {StopSlot})
    BY <1>4 DEF SubmitSend, TypeOK, IndexTypeOK
  <2>b. CASE sent
    <3>1. /\ Len(queue') = Len(queue) + 1 /\ Len(queue) \in Nat
          /\ queue'[Len(queue) + 1] = sending
          /\ \A k \in 1 .. Len(queue) : queue'[k] = queue[k] /\ queue[k] \in Slots \cup {StopSlot}
      BY <2>a, <2>b
    <3>2. /\ sending' = NoSlot
          /\ UNCHANGED <<sequence, nextSequence, working, workerStopped, accepting,
                         stopRequested, execution>>
      BY <1>4 DEF SubmitSend
    <3>3. sequence \in [Slots -> Nat] /\ working \in Slots \cup {NoSlot}
          /\ nextSequence \in Nat
      BY WriteQueueAssumption DEF TypeOK, SlotTypeOK, IndexTypeOK
    <3>4. \A i \in Slots : i # sending /\ state[i] # "Free" => sequence[i] < sequence[sending]
      BY <2>a, <3>3 DEF OrderInvariant, NumberedOnce, SenderBehind, Waiting
    <3>5. \A k \in 1 .. Len(queue) : /\ queue[k] \in Slots /\ state[queue[k]] \in Waiting
                                     /\ sequence[queue[k]] < sequence[sending]
      <4> SUFFICES ASSUME NEW k \in 1 .. Len(queue)
                   PROVE  /\ queue[k] \in Slots /\ state[queue[k]] \in Waiting
                          /\ sequence[queue[k]] < sequence[sending]
        OBVIOUS
      <4>1. queue[k] # StopSlot /\ queue[k] # sending
        BY <2>a DEF OrderInvariant, SenderBehind
      <4>2. queue[k] \in Slots /\ state[queue[k]] \in Waiting
        BY <3>1, <4>1 DEF OrderInvariant, QueueInOrder
      <4> QED
        BY <3>4, <4>1, <4>2
    <3>6. NumberedOnce' /\ CompletionInOrder'
      BY <2>b, <3>2 DEF OrderInvariant, NumberedOnce, CompletionInOrder
    <3>7. QueueInOrder'
      BY <2>a, <2>b, <3>1, <3>2, <3>3, <3>5 DEF OrderInvariant, QueueInOrder, SenderBehind
    <3>8. WorkerAhead'
      BY <2>a, <2>b, <3>1, <3>2, <3>3, <3>4, <3>5 DEF OrderInvariant, WorkerAhead, SenderBehind
    <3>9. UnfinishedHeld'
      <4> SUFFICES ASSUME NEW i \in Slots, state[i] \in Unfinished
                   PROVE /\ i = working \/ \E k \in 1 .. Len(queue') : queue'[k] = i
                         /\ state[i] = "Running" => i = working
        BY <2>b, <3>2 DEF UnfinishedHeld
      <4>1. CASE i = sending
        BY <4>1, <2>a, <3>1 DEF OrderInvariant, SenderBehind
      <4>2. CASE i # sending
        BY <4>2, <2>a, <3>1 DEF OrderInvariant, UnfinishedHeld
      <4> QED
        BY <4>1, <4>2
    <3>10. StopInOrder' /\ SenderBehind'
      BY <2>a, <2>b, <3>1, <3>2 DEF OrderInvariant, StopInOrder, SenderBehind
    <3> QED
      BY <3>6, <3>7, <3>8, <3>9, <3>10 DEF OrderInvariant
  <2>c. CASE ~sent
    <3>1. /\ state' = [state EXCEPT ![sending] = "Free"]
          /\ UNCHANGED <<queue, sequence, nextSequence, working, workerStopped, accepting,
                         stopRequested, execution>>
          /\ sending' = NoSlot
      BY <1>4, <2>c DEF SubmitSend, Enqueue
    <3> QED
      BY <2>a, <3>1 DEF TypeOK, SlotTypeOK, IndexTypeOK, OrderInvariant, NumberedOnce,
         QueueInOrder, WorkerAhead, SenderBehind, UnfinishedHeld, StopInOrder, CompletionInOrder
  <2> QED
    BY <2>b, <2>c
<1>5. CASE Withdrawing
  <2>1. PICK i \in Slots : state[i] = "Queued" /\ state' = [state EXCEPT ![i] = "CancelQueued"]
    BY <1>5 DEF Withdrawing, Cancel, Cancelling
  <2>2. UNCHANGED <<sequence, queue, nextSequence, accepting, stopRequested, execution,
                    workerStopped, working, sending>>
    BY <1>5 DEF Withdrawing, Cancel, Cancelling
  <2>3. \A j \in Slots : state'[j] = IF j = i THEN "CancelQueued" ELSE state[j]
    BY <2>1 DEF TypeOK, SlotTypeOK
  <2>4. /\ \A k \in 1 .. Len(queue) : queue[k] \in Slots \cup {StopSlot}
        /\ working \in Slots \cup {NoSlot} /\ sending \in Slots \cup {NoSlot}
    BY DEF TypeOK, IndexTypeOK
  <2>5. NumberedOnce'
    BY <2>1, <2>2, <2>3 DEF OrderInvariant, NumberedOnce
  <2>6. QueueInOrder'
    BY <2>1, <2>2, <2>3, <2>4 DEF OrderInvariant, QueueInOrder
  <2>7. WorkerAhead'
    BY <2>1, <2>2, <2>3, <2>4 DEF OrderInvariant, WorkerAhead
  <2>8. SenderBehind'
    BY <2>1, <2>2, <2>3, <2>4 DEF OrderInvariant, SenderBehind
  <2>9. UnfinishedHeld'
    BY <2>1, <2>2, <2>3 DEF OrderInvariant, UnfinishedHeld
  <2>10. StopInOrder'
    BY <2>2 DEF OrderInvariant, StopInOrder
  <2>11. CompletionInOrder'
    BY <2>1, <2>2, <2>3 DEF OrderInvariant, CompletionInOrder
  <2> QED
    BY <2>5, <2>6, <2>7, <2>8, <2>9, <2>10, <2>11 DEF OrderInvariant
<1>6. CASE Releasing
  <2>1. PICK i \in Slots : state[i] = "Ready" /\ state' = [state EXCEPT ![i] = "Free"]
    BY <1>6 DEF Releasing, ReleaseResult
  <2>2. UNCHANGED <<sequence, queue, nextSequence, accepting, stopRequested, execution,
                    workerStopped, working, sending>>
    BY <1>6 DEF Releasing, ReleaseResult
  <2>3. \A j \in Slots : state'[j] = IF j = i THEN "Free" ELSE state[j]
    BY <2>1 DEF TypeOK, SlotTypeOK
  <2>4. /\ \A k \in 1 .. Len(queue) : queue[k] \in Slots \cup {StopSlot}
        /\ working \in Slots \cup {NoSlot} /\ sending \in Slots \cup {NoSlot}
    BY DEF TypeOK, IndexTypeOK
  <2>5. NumberedOnce'
    BY <2>1, <2>2, <2>3 DEF OrderInvariant, NumberedOnce
  <2>6. QueueInOrder'
    BY <2>1, <2>2, <2>3, <2>4 DEF OrderInvariant, QueueInOrder
  <2>7. WorkerAhead'
    BY <2>1, <2>2, <2>3, <2>4 DEF OrderInvariant, WorkerAhead
  <2>8. SenderBehind'
    BY <2>1, <2>2, <2>3, <2>4 DEF OrderInvariant, SenderBehind
  <2>9. UnfinishedHeld'
    BY <2>1, <2>2, <2>3 DEF OrderInvariant, UnfinishedHeld
  <2>10. StopInOrder'
    BY <2>2 DEF OrderInvariant, StopInOrder
  <2>11. CompletionInOrder'
    BY <2>1, <2>2, <2>3 DEF OrderInvariant, CompletionInOrder
  <2> QED
    BY <2>5, <2>6, <2>7, <2>8, <2>9, <2>10, <2>11 DEF OrderInvariant
<1>7. CASE RequestStop
  <2>1. NumberedOnce'
    BY <1>7 DEF RequestStop, SentinelLast, Enqueue, OwnerIdle, OrderInvariant, NumberedOnce
  <2>2. QueueInOrder'
    BY <1>7 DEF RequestStop, SentinelLast, Enqueue, OwnerIdle, TypeOK, SlotTypeOK,
       IndexTypeOK, OrderInvariant, QueueInOrder, WorkerAhead, SenderBehind,
       StopInOrder
  <2>3. WorkerAhead'
    BY <1>7 DEF RequestStop, SentinelLast, Enqueue, OwnerIdle, OrderInvariant, WorkerAhead
  <2>4. SenderBehind'
    BY <1>7 DEF RequestStop, SentinelLast, Enqueue, OwnerIdle, OrderInvariant, SenderBehind
  <2>5. UnfinishedHeld'
    BY <1>7 DEF RequestStop, SentinelLast, Enqueue, OwnerIdle, OrderInvariant, UnfinishedHeld
  <2>6. StopInOrder'
    BY <1>7 DEF RequestStop, SentinelLast, Enqueue, OwnerIdle, OrderInvariant, StopInOrder
  <2>7. CompletionInOrder'
    BY <1>7 DEF RequestStop, SentinelLast, Enqueue, OwnerIdle, OrderInvariant, CompletionInOrder
  <2> QED
    BY <2>1, <2>2, <2>3, <2>4, <2>5, <2>6, <2>7 DEF OrderInvariant
<1>8. CASE WorkerReceive
  <2>1. NumberedOnce'
    BY <1>8 DEF WorkerReceive, OrderInvariant, NumberedOnce
  <2>2. QueueInOrder'
    BY <1>8 DEF WorkerReceive, OrderInvariant, QueueInOrder
  <2>3. WorkerAhead'
    BY <1>8 DEF WorkerReceive, TypeOK, SlotTypeOK, IndexTypeOK,
       OrderInvariant, WorkerAhead, QueueInOrder, SenderBehind, StopInOrder
  <2>4. SenderBehind'
    BY <1>8 DEF WorkerReceive, OrderInvariant, SenderBehind
  <2>5. UnfinishedHeld'
    <3> SUFFICES ASSUME NEW i \in Slots, state[i] \in Unfinished
                 PROVE /\ i = working' \/ i = sending
                          \/ \E k \in 1 .. Len(queue') : queue'[k] = i
                       /\ state[i] = "Running" => i = working'
      BY <1>8 DEF WorkerReceive, UnfinishedHeld
    <3>1. /\ queue \in Seq(Slots \cup {StopSlot}) /\ queue # <<>> /\ queue' = Tail(queue)
          /\ working = NoSlot
          /\ Head(queue) # StopSlot => working' = Head(queue)
      BY <1>8 DEF WorkerReceive, TypeOK, IndexTypeOK
    <3>2. /\ Len(queue) \in Nat \ {0} /\ Len(queue') = Len(queue) - 1
          /\ \A k \in 1 .. Len(queue') : queue'[k] = queue[k+1]
          /\ Head(queue) = queue[1]
      BY <3>1
    <3>3. state[i] # "Running" /\ (i = sending \/ \E k \in 1 .. Len(queue) : queue[k] = i)
      BY <3>1 DEF OrderInvariant, UnfinishedHeld
    <3>4. ASSUME NEW k \in 1 .. Len(queue), queue[k] = i, i # working'
          PROVE \E l \in 1 .. Len(queue') : queue'[l] = i
      <4>1. k # 1
        BY <3>1, <3>2, <3>4
      <4>2. k - 1 \in 1 .. Len(queue') /\ queue'[k-1] = queue[k]
        BY <4>1, <3>2
      <4> QED
        BY <4>2, <3>4
    <3> QED
      BY <3>3, <3>4
  <2>6. StopInOrder'
    BY <1>8 DEF WorkerReceive, TypeOK, SlotTypeOK, IndexTypeOK,
       OrderInvariant, StopInOrder, QueueInOrder, WorkerAhead, SenderBehind
  <2>7. CompletionInOrder'
    BY <1>8 DEF WorkerReceive, OrderInvariant, CompletionInOrder
  <2> QED
    BY <2>1, <2>2, <2>3, <2>4, <2>5, <2>6, <2>7 DEF OrderInvariant
<1>9. CASE WorkerClaim
  <2>1. /\ working \in Slots /\ state[working] \in Waiting
        /\ UNCHANGED <<sequence, queue, nextSequence, accepting, stopRequested, execution,
                       workerStopped, sending>>
    BY <1>9 DEF WorkerClaim, TypeOK, IndexTypeOK, OrderInvariant, WorkerAhead
  <2>2. \/ state' = [state EXCEPT ![working] = "Running"] /\ working' = working
        \/ state' = [state EXCEPT ![working] = "Ready"] /\ working' = NoSlot
    BY <1>9, <2>1 DEF WorkerClaim
  <2>3. /\ \A j \in Slots : j # working => state'[j] = state[j]
        /\ \/ state'[working] = "Running" /\ working' = working
           \/ state'[working] = "Ready" /\ working' = NoSlot
    BY <2>1, <2>2 DEF TypeOK, SlotTypeOK
  <2>4. \A k \in 1 .. Len(queue) : /\ queue[k] \in Slots \cup {StopSlot}
                                   /\ queue[k] # working
    BY <2>1 DEF TypeOK, IndexTypeOK, SlotTypeOK, OrderInvariant, WorkerAhead
  <2>5. NumberedOnce'
    BY <2>1, <2>3 DEF OrderInvariant, NumberedOnce
  <2>6. QueueInOrder'
    <3> SUFFICES ASSUME NEW k \in 1 .. Len(queue), queue[k] # StopSlot
                 PROVE  state'[queue[k]] = state[queue[k]]
      BY <2>1 DEF OrderInvariant, QueueInOrder
    <3>1. queue[k] \in Slots /\ queue[k] # working
      BY <2>4
    <3>2. \A j \in Slots : j # working => state'[j] = state[j]
      BY <2>3
    <3> QED
      BY <3>1, <3>2
  <2>7. WorkerAhead'
    BY <2>1, <2>3, <2>4 DEF OrderInvariant, WorkerAhead
  <2>8. SenderBehind'
    BY <2>1, <2>3 DEF TypeOK, IndexTypeOK, OrderInvariant, SenderBehind
  <2>9. UnfinishedHeld'
    BY <2>1, <2>3 DEF OrderInvariant, UnfinishedHeld
  <2>10. StopInOrder'
    BY <2>1, <2>3 DEF OrderInvariant, StopInOrder
  <2>11. CompletionInOrder'
    <3> SUFFICES ASSUME NEW i \in Slots, NEW j \in Slots,
                        state'[i] = "Ready", state'[j] \in Unfinished
                 PROVE sequence[i] < sequence[j]
      BY <2>1 DEF CompletionInOrder
    <3>1. CASE i # working
      BY <3>1, <2>1, <2>3 DEF OrderInvariant, CompletionInOrder
    <3>2. CASE i = working
      <4>1. j # working /\ state[j] \in Unfinished
        BY <3>2, <2>3
      <4> QED
        BY <3>2, <4>1, OldestAtWorker
    <3> QED
      BY <3>1, <3>2
  <2> QED
    BY <2>5, <2>6, <2>7, <2>8, <2>9, <2>10, <2>11 DEF OrderInvariant
<1>10. CASE \E o \in Executed : WorkerPublish(o)
  <2>1. NumberedOnce'
    BY <1>10 DEF WorkerPublish, OrderInvariant, NumberedOnce
  <2>2. QueueInOrder'
    BY <1>10 DEF WorkerPublish, OrderInvariant, QueueInOrder
  <2>3. WorkerAhead'
    BY <1>10 DEF WorkerPublish, OrderInvariant, WorkerAhead
  <2>4. SenderBehind'
    BY <1>10 DEF WorkerPublish, OrderInvariant, SenderBehind
  <2>5. UnfinishedHeld'
    BY <1>10 DEF WorkerPublish, TypeOK, SlotTypeOK, IndexTypeOK, OrderInvariant, UnfinishedHeld
  <2>6. StopInOrder'
    BY <1>10 DEF WorkerPublish, OrderInvariant, StopInOrder
  <2>7. CompletionInOrder'
    BY <1>10 DEF WorkerPublish, TypeOK, SlotTypeOK, IndexTypeOK,
       OrderInvariant, NumberedOnce, QueueInOrder, WorkerAhead, SenderBehind,
       UnfinishedHeld, StopInOrder, CompletionInOrder
  <2> QED
    BY <2>1, <2>2, <2>3, <2>4, <2>5, <2>6, <2>7 DEF OrderInvariant
<1>11. CASE Adopting \/ Scanning \/ ScanStep \/ ScanEnd \/ UNCHANGED vars
  <2>1. UNCHANGED <<state, sequence, queue, nextSequence, accepting, stopRequested,
                    execution, workerStopped, working, sending>>
    BY <1>11 DEF Adopting, AdoptOwner, Scanning, ScanBegin, ScanStep, ScanEnd, vars
  <2> QED
    BY <2>1 DEF OrderInvariant, NumberedOnce, QueueInOrder, WorkerAhead, SenderBehind,
       UnfinishedHeld, StopInOrder, CompletionInOrder
<1> QED
  BY <1>1, <1>2, <1>3, <1>4, <1>5, <1>6, <1>7, <1>8, <1>9, <1>10, <1>11 DEF Next, Owner, Worker

(* An index that is sent finds room: the queue holds each slot at most     *)
(* once, not the one being sent, and the sentinel has a place of its own.  *)
LEMMA RoomForIndex ==
  ASSUME TypeOK, OrderInvariant, sending # NoSlot
  PROVE  Len(queue) < QueueLength
<1>1. /\ queue \in Seq(Slots \cup {StopSlot}) /\ Len(queue) \in Nat
      /\ sending \in Slots /\ SlotCount \in Nat
  BY SlotsBelow DEF TypeOK, IndexTypeOK
<1> DEFINE K == 1 .. Len(queue)
           U == Slots \cup {StopSlot}
           T == U \ {sending}
           f == [k \in K |-> queue[k]]
<1>2. IsFiniteSet(K) /\ Cardinality(K) = Len(queue)
  <2>1. /\ IsFiniteSet(1 .. Len(queue))
        /\ Cardinality(1 .. Len(queue)) = IF 1 > Len(queue) THEN 0 ELSE Len(queue) - 1 + 1
    <3> DEFINE n == Len(queue)
    <3>1. 1 \in Int /\ n \in Int
      BY <1>1
    <3> HIDE DEF n
    <3>2. IsFiniteSet(1 .. n) /\ Cardinality(1 .. n) = IF 1 > n THEN 0 ELSE n - 1 + 1
      BY <3>1, FS_Interval, Zenon
    <3> QED
      BY <3>2 DEF n
  <2> QED
    BY <1>1, <2>1
<1>3. IsFiniteSet(T) /\ Cardinality(T) = SlotCount
  <2>1. IsFiniteSet(Slots) /\ Cardinality(Slots) = SlotCount
    <3>1. SlotCount - 1 \in Int /\ 0 \in Int /\ SlotCount >= 3
      BY WriteQueueAssumption DEF SlotCount
    <3> DEFINE n == SlotCount - 1
    <3>2. Slots = 0 .. n
      BY Zenon DEF Slots
    <3>3. n \in Int /\ n >= 2 /\ n + 1 = SlotCount
      BY <1>1, <3>1
    <3> HIDE DEF n
    <3>4. IsFiniteSet(0 .. n) /\ Cardinality(0 .. n) = IF 0 > n THEN 0 ELSE n - 0 + 1
      BY <3>1, <3>3, FS_Interval, Zenon
    <3> QED
      BY <3>2, <3>3, <3>4
  <2>2. StopSlot \notin Slots
    BY SlotsBelow
  <2>3. IsFiniteSet(U) /\ Cardinality(U) = SlotCount + 1
    BY <2>1, <2>2, FS_AddElement
  <2>4. sending \in U
    BY <1>1
  <2> HIDE DEF U
  <2>5. IsFiniteSet(U \ {sending}) /\ Cardinality(U \ {sending}) = Cardinality(U) - 1
    BY <2>3, <2>4, FS_RemoveElement
  <2> QED
    BY <1>1, <2>3, <2>5
<1>4. \A k \in K : queue[k] \in T
  BY <1>1 DEF OrderInvariant, SenderBehind
<1>5. \A k, l \in K : k < l => queue[k] # queue[l]
  <2> SUFFICES ASSUME NEW k \in K, NEW l \in K, k < l PROVE queue[k] # queue[l]
    OBVIOUS
  <2>1. queue[k] # StopSlot /\ (queue[l] # StopSlot => sequence[queue[k]] < sequence[queue[l]])
    BY DEF OrderInvariant, QueueInOrder
  <2>2. queue[k] \in Slots /\ sequence[queue[k]] \in Int
    BY <1>1, <2>1, WriteQueueAssumption DEF TypeOK, SlotTypeOK
  <2> QED
    BY <2>1, <2>2
<1>6. \A k, l \in K : k # l => f[k] # f[l]
  BY <1>1, <1>5
<1>7. f \in [K -> T]
  BY <1>4
<1>8. Cardinality(T) < Cardinality(K) \/ Len(queue) < QueueLength
  BY <1>1, <1>2, <1>3 DEF QueueLength
<1> HIDE DEF K, T, f
<1>9. Cardinality(T) < Cardinality(K) => \E k, l \in K : k # l /\ f[k] = f[l]
  BY <1>2, <1>3, <1>7, FS_PigeonHole
<1> QED
  BY <1>6, <1>8, <1>9

LEMMA OrderInit == Init => OrderInvariant
BY SlotsBelow DEF Init, OrderInvariant, NumberedOnce, QueueInOrder, WorkerAhead, SenderBehind,
   UnfinishedHeld, StopInOrder, CompletionInOrder, Unfinished, Waiting

(* The order of the index queue, of the slot in execution and of the slot  *)
(* being sent holds in every interleaving of submissions, cancellations,   *)
(* releases, stops and restarts with the worker.                           *)
THEOREM OrderCorrect == Spec => []OrderInvariant
<1>1. OrderInvariant /\ [](TypeOK) /\ [][Next]_vars => []OrderInvariant
  BY OrderStep, PTL
<1> QED
  BY OrderInit, TypeCorrect, <1>1, PTL DEF Spec

(* Admitted requests complete in the order of their tickets.               *)
THEOREM CompletesInOrder == Spec => []CompletionInOrder
BY OrderCorrect, PTL DEF OrderInvariant

(* A worker that has stopped leaves no admitted request unanswered.        *)
THEOREM StopLeavesNothing == Spec => []StopDrains
<1>1. TypeOK /\ OrderInvariant => StopDrains
  <2> SUFFICES ASSUME TypeOK, OrderInvariant, workerStopped,
                      NEW i \in Slots, state[i] \in Unfinished
               PROVE  FALSE
    BY DEF StopDrains, OrderInvariant, StopInOrder, TypeOK, SlotTypeOK, States
  <2>1. queue = <<>> /\ working = NoSlot /\ sending = NoSlot
    BY DEF OrderInvariant, StopInOrder
  <2> QED
    BY <2>1, SlotsBelow DEF OrderInvariant, UnfinishedHeld
<1> QED
  BY <1>1, TypeCorrect, OrderCorrect, PTL

(* The status of each ticket, read off the slots: one not yet admitted is  *)
(* unissued, one in no slot is released, and one in a slot has the status  *)
(* of its slot, because tickets are numbered once.                         *)
StatusReadOff ==
  /\ \A t \in 1 .. MaxSequence : t > nextSequence => TicketStatus[t] = "unissued"
  /\ \A t \in 1 .. MaxSequence : t <= nextSequence /\ (\A i \in Slots :
       state[i] # "Free" => sequence[i] # t) => TicketStatus[t] = "released"
  /\ \A i \in Slots : state[i] # "Free" =>
       /\ sequence[i] \in 1 .. MaxSequence /\ sequence[i] <= nextSequence
       /\ TicketStatus[sequence[i]] = SlotStatus(i)

LEMMA ReadOff == TypeOK /\ NumberedOnce => StatusReadOff
<1> SUFFICES ASSUME TypeOK, NumberedOnce PROVE StatusReadOff
  OBVIOUS
<1>1. nextSequence \in Nat /\ MaxSequence \in Nat /\ \A i \in Slots : sequence[i] \in 0 .. MaxSequence
  BY WriteQueueAssumption DEF TypeOK, SlotTypeOK, IndexTypeOK
<1>2. \A t \in 1 .. MaxSequence : t > nextSequence => TicketStatus[t] = "unissued"
  BY DEF TicketStatus
<1>3. ASSUME NEW t \in 1 .. MaxSequence, t <= nextSequence,
             \A i \in Slots : state[i] # "Free" => sequence[i] # t
      PROVE  TicketStatus[t] = "released"
  <2>1. InSlot(t) = {} /\ ~(t > nextSequence)
    BY <1>1, <1>3 DEF InSlot
  <2> QED
    BY <2>1 DEF TicketStatus
<1>4. ASSUME NEW i \in Slots, state[i] # "Free"
      PROVE  /\ sequence[i] \in 1 .. MaxSequence /\ sequence[i] <= nextSequence
             /\ TicketStatus[sequence[i]] = SlotStatus(i)
  <2>1. sequence[i] \in 1 .. MaxSequence /\ sequence[i] <= nextSequence /\ ~(sequence[i] > nextSequence)
    BY <1>1, <1>4 DEF NumberedOnce
  <2>2. InSlot(sequence[i]) = {i}
    BY <1>4 DEF InSlot, NumberedOnce
  <2>3. (CHOOSE j \in InSlot(sequence[i]) : TRUE) = i
    BY <2>2
  <2> QED
    BY <2>1, <2>2, <2>3 DEF TicketStatus
<1> QED
  BY <1>2, <1>3, <1>4 DEF StatusReadOff

(* The same of the next state.                                             *)
LEMMA ReadOffNext == TypeOK' /\ NumberedOnce' => StatusReadOff'
BY ReadOff, PTL

LEMMA StatusIsFunction ==
  /\ TicketStatus = [t \in 1 .. MaxSequence |-> TicketStatus[t]]
  /\ TicketStatus' = [t \in 1 .. MaxSequence |-> TicketStatus'[t]]
BY DEF TicketStatus

(* A step that changes one occupied slot and no number changes the status  *)
(* of that slot's ticket alone.                                            *)
LEMMA OneSlotMoves ==
  ASSUME TypeOK, OrderInvariant, TypeOK', OrderInvariant',
         UNCHANGED <<sequence, nextSequence>>,
         NEW i \in Slots, state[i] # "Free",
         \A j \in Slots : j # i => state'[j] = state[j] /\ outcome'[j] = outcome[j]
  PROVE  /\ sequence[i] \in 1 .. MaxSequence
         /\ TicketStatus[sequence[i]] = SlotStatus(i)
         /\ state'[i] = "Free" =>
              TicketStatus' = [TicketStatus EXCEPT ![sequence[i]] = "released"]
         /\ state'[i] # "Free" =>
              TicketStatus' = [TicketStatus EXCEPT ![sequence[i]] = SlotStatus(i)']
<1>1. StatusReadOff /\ StatusReadOff'
  BY ReadOff, ReadOffNext DEF OrderInvariant
<1>2. /\ sequence[i] \in 1 .. MaxSequence /\ sequence[i] <= nextSequence
      /\ TicketStatus[sequence[i]] = SlotStatus(i)
  BY <1>1 DEF StatusReadOff
<1>3. /\ sequence' = sequence /\ nextSequence' = nextSequence /\ nextSequence \in Int
      /\ \A j \in Slots : j # i /\ state[j] # "Free" => sequence[j] # sequence[i]
  BY DEF OrderInvariant, NumberedOnce, TypeOK, IndexTypeOK
<1>4. ASSUME NEW t \in 1 .. MaxSequence, t # sequence[i]
      PROVE  TicketStatus'[t] = TicketStatus[t]
  <2>1. CASE t > nextSequence
    BY <1>1, <1>3, <2>1 DEF StatusReadOff
  <2>2. CASE t <= nextSequence /\ \A j \in Slots : state[j] # "Free" => sequence[j] # t
    <3>1. \A j \in Slots : state'[j] # "Free" => sequence'[j] # t
      BY <1>3, <1>4, <2>2
    <3> QED
      BY <1>1, <1>3, <2>2, <3>1 DEF StatusReadOff
  <2>3. CASE \E j \in Slots : state[j] # "Free" /\ sequence[j] = t
    <3>1. PICK j \in Slots : state[j] # "Free" /\ sequence[j] = t
      BY <2>3
    <3>2. j # i /\ state'[j] = state[j] /\ outcome'[j] = outcome[j]
      BY <1>4, <3>1
    <3>3. TicketStatus[t] = SlotStatus(j) /\ TicketStatus'[t] = SlotStatus(j)'
      BY <1>1, <1>3, <3>1, <3>2 DEF StatusReadOff
    <3> QED
      BY <3>2, <3>3 DEF SlotStatus
  <2> QED
    BY <1>3, <2>1, <2>2, <2>3
<1>5. CASE state'[i] = "Free"
  <2>1. TicketStatus'[sequence[i]] = "released"
    BY <1>1, <1>2, <1>3, <1>5 DEF StatusReadOff
  <2> QED
    BY <1>2, <1>4, <1>5, <2>1, StatusIsFunction
<1>6. CASE state'[i] # "Free"
  <2>1. TicketStatus'[sequence[i]] = SlotStatus(i)'
    BY <1>1, <1>3, <1>6 DEF StatusReadOff
  <2> QED
    BY <1>2, <1>4, <1>6, <2>1, StatusIsFunction
<1> QED
  BY <1>5, <1>6

(* The tickets before `t` are settled when no unfinished slot has one.     *)
LEMMA EarlierSettled ==
  ASSUME TypeOK, OrderInvariant, NEW t \in 1 .. MaxSequence, t <= nextSequence + 1,
         \A j \in Slots : state[j] \in Unfinished => sequence[j] >= t
  PROVE  Abstract!InTurn(t)
<1> SUFFICES ASSUME NEW u \in 1 .. t - 1
             PROVE  TicketStatus[u] \in {"committed", "failed", "cancelled", "released"}
  BY DEF Abstract!InTurn, Abstract!Settled, Abstract!Answer
<1>1. StatusReadOff
  BY ReadOff DEF OrderInvariant
<1>2. /\ nextSequence \in Int /\ u \in 1 .. MaxSequence /\ u <= nextSequence /\ u < t
      /\ state \in [Slots -> States] /\ outcome \in [Slots -> Outcomes]
  BY WriteQueueAssumption DEF TypeOK, SlotTypeOK, IndexTypeOK
<1>3. CASE \A j \in Slots : state[j] # "Free" => sequence[j] # u
  BY <1>1, <1>2, <1>3 DEF StatusReadOff
<1>4. CASE \E j \in Slots : state[j] # "Free" /\ sequence[j] = u
  <2>1. PICK j \in Slots : state[j] # "Free" /\ sequence[j] = u
    BY <1>4
  <2>2. ~(sequence[j] >= t)
    BY <1>2, <2>1
  <2>3. state[j] = "Ready"
    BY <1>2, <2>1, <2>2 DEF States
  <2>4. TicketStatus[u] = SlotStatus(j) /\ outcome[j] \in Outcomes
    BY <1>1, <1>2, <2>1 DEF StatusReadOff
  <2> QED
    BY <2>3, <2>4 DEF SlotStatus, Outcomes
<1> QED
  BY <1>3, <1>4

(* Every step of the queue is one move of a ticket, or none.               *)
LEMMA StepRefines ==
  TypeOK /\ OrderInvariant /\ TypeOK' /\ OrderInvariant' /\ [Next]_vars
    => [Abstract!Next]_TicketStatus
<1> SUFFICES ASSUME TypeOK, OrderInvariant, TypeOK', OrderInvariant', [Next]_vars
             PROVE  Abstract!Next \/ TicketStatus' = TicketStatus
  OBVIOUS
<1> USE DEF slotVars, ownerVars, workerVars
<1> DEFINE Move(t, s) == TicketStatus' = [TicketStatus EXCEPT ![t] = s]
<1>t. /\ state \in [Slots -> States] /\ outcome \in [Slots -> Outcomes]
      /\ state' \in [Slots -> States] /\ outcome' \in [Slots -> Outcomes]
      /\ sequence \in [Slots -> 0 .. MaxSequence] /\ nextSequence \in 0 .. MaxSequence
      /\ sending \in Slots \cup {NoSlot} /\ working \in Slots \cup {NoSlot}
  BY DEF TypeOK, SlotTypeOK, IndexTypeOK
<1>1. CASE UNCHANGED <<state, sequence, outcome, nextSequence>>
  BY <1>1 DEF TicketStatus, InSlot, SlotStatus
<1>2. CASE Submitting
  <2>1. PICK r \in Requests : Submit(r)
    BY <1>2 DEF Submitting
  <2>2. PICK i \in Slots :
          /\ FirstFit(i, r)
          /\ sequence' = [sequence EXCEPT ![i] = nextSequence + 1]
          /\ \/ /\ execution = "Deferred"
                /\ state' = [state EXCEPT ![i] = "Queued"]
                /\ outcome' = [outcome EXCEPT ![i] = "Failed"]
             \/ /\ execution # "Deferred"
                /\ state' = [state EXCEPT ![i] = "Ready"]
                /\ \E o \in Executed : outcome' = [outcome EXCEPT ![i] = o]
    BY <2>1 DEF Submit
  <2> DEFINE t == nextSequence + 1
  <2>3. /\ state[i] = "Free" /\ nextSequence' = t
        /\ t \in 1 .. MaxSequence /\ nextSequence < MaxSequence
    <3>1. state[i] = "Free"
      BY <2>2 DEF FirstFit, Usable
    <3>2. nextSequence' = t /\ nextSequence < MaxSequence
      BY <2>1 DEF Submit, NumbersLeft
    <3> QED
      BY <1>t, <3>1, <3>2, WriteQueueAssumption
  <2>4. /\ \A j \in Slots : j # i => /\ state'[j] = state[j] /\ outcome'[j] = outcome[j]
                                     /\ sequence'[j] = sequence[j]
        /\ sequence'[i] = t /\ state'[i] # "Free"
    BY <2>2, <1>t
  <2>5. StatusReadOff /\ StatusReadOff'
    BY ReadOff, ReadOffNext DEF OrderInvariant
  <2>6. ASSUME NEW u \in 1 .. MaxSequence, u # t
        PROVE  TicketStatus'[u] = TicketStatus[u]
    <3>1. CASE u > nextSequence
      BY <1>t, <2>3, <2>5, <2>6, <3>1 DEF StatusReadOff
    <3>2. CASE u <= nextSequence /\ \A j \in Slots : state[j] # "Free" => sequence[j] # u
      <4>1. \A j \in Slots : state'[j] # "Free" => sequence'[j] # u
        BY <2>4, <2>6, <3>2
      <4> QED
        BY <1>t, <2>3, <2>5, <3>2, <4>1 DEF StatusReadOff
    <3>3. CASE \E j \in Slots : state[j] # "Free" /\ sequence[j] = u
      <4>1. PICK j \in Slots : state[j] # "Free" /\ sequence[j] = u
        BY <3>3
      <4>2. j # i /\ state'[j] = state[j] /\ outcome'[j] = outcome[j] /\ sequence'[j] = u
        BY <2>3, <2>4, <4>1
      <4>3. TicketStatus[u] = SlotStatus(j) /\ TicketStatus'[u] = SlotStatus(j)'
        BY <2>5, <4>1, <4>2 DEF StatusReadOff
      <4> QED
        BY <4>2, <4>3 DEF SlotStatus
    <3> QED
      BY <1>t, <3>1, <3>2, <3>3
  <2>7. TicketStatus'[t] = SlotStatus(i)'
    BY <2>4, <2>5 DEF StatusReadOff
  <2>8. Move(t, SlotStatus(i)')
    BY <2>3, <2>6, <2>7, StatusIsFunction
  <2>9. Abstract!Next1(t)
    <3>1. TicketStatus[t] = "unissued"
      BY <1>t, <2>3, <2>5 DEF StatusReadOff
    <3>2. ASSUME NEW u \in 1 .. t - 1 PROVE TicketStatus[u] # "unissued"
      <4>1. u \in 1 .. MaxSequence /\ u <= nextSequence
        BY <1>t, <2>3, WriteQueueAssumption
      <4>2. CASE \A j \in Slots : state[j] # "Free" => sequence[j] # u
        BY <2>5, <4>1, <4>2 DEF StatusReadOff
      <4>3. CASE \E j \in Slots : state[j] # "Free" /\ sequence[j] = u
        <5>1. PICK j \in Slots : state[j] # "Free" /\ sequence[j] = u
          BY <4>3
        <5>2. TicketStatus[u] = SlotStatus(j) /\ state[j] \in States /\ outcome[j] \in Outcomes
          BY <1>t, <2>5, <5>1 DEF StatusReadOff
        <5> QED
          BY <5>1, <5>2 DEF SlotStatus, States, Unfinished, Outcomes
      <4> QED
        BY <4>2, <4>3
    <3> QED
      BY <3>1, <3>2 DEF Abstract!Next1
  <2>10. CASE execution = "Deferred"
    <3>1. SlotStatus(i)' = "pending"
      BY <1>t, <2>2, <2>10 DEF SlotStatus
    <3>2. Abstract!Admit(t)
      BY <2>8, <2>9, <3>1 DEF Abstract!Admit, Abstract!Move
    <3> QED
      BY <2>3, <3>2 DEF Abstract!Next, Abstract!Ticket
  <2>11. CASE execution # "Deferred"
    <3>1. SlotStatus(i)' \in {"committed", "failed"}
      BY <1>t, <2>2, <2>11, WriteQueueAssumption DEF SlotStatus
    <3>2. \A j \in Slots : state[j] \notin Unfinished
      <4>1. workerStopped
        BY <2>11 DEF TypeOK, FlagTypeOK, OrderInvariant, StopInOrder
      <4> QED
        BY <4>1, SlotsBelow DEF OrderInvariant, StopInOrder, UnfinishedHeld
    <3>3. Abstract!InTurn(t)
      BY <2>3, <3>2, EarlierSettled
    <3>4. Abstract!AdmitAndFinish(t)
      BY <2>8, <2>9, <3>1, <3>3 DEF Abstract!AdmitAndFinish, Abstract!Move
    <3> QED
      BY <2>3, <3>4 DEF Abstract!Next, Abstract!Ticket
  <2> QED
    BY <2>10, <2>11
<1>3. CASE SubmitSend
  <2>1. UNCHANGED <<state, sequence, outcome, nextSequence>>
    BY <1>3, RoomForIndex DEF SubmitSend
  <2> QED
    BY <1>1, <2>1
<1>4. CASE Withdrawing
  <2>1. PICK i \in Slots : Cancel(i)
    BY <1>4 DEF Withdrawing
  <2>2. /\ state[i] = "Queued" /\ state'[i] = "CancelQueued"
        /\ \A j \in Slots : j # i => state'[j] = state[j] /\ outcome'[j] = outcome[j]
        /\ UNCHANGED <<sequence, nextSequence>>
    BY <1>t, <2>1 DEF Cancel, Cancelling
  <2>3. SlotStatus(i) = "pending" /\ SlotStatus(i)' = "cancelling"
    BY <2>2 DEF SlotStatus
  <2>4. /\ sequence[i] \in 1 .. MaxSequence /\ TicketStatus[sequence[i]] = "pending"
        /\ Move(sequence[i], "cancelling")
    BY <2>2, <2>3, OneSlotMoves
  <2>5. Abstract!Cancel(sequence[i])
    BY <2>4 DEF Abstract!Cancel, Abstract!Move
  <2> QED
    BY <2>4, <2>5 DEF Abstract!Next, Abstract!Ticket
<1>5. CASE Releasing
  <2>1. PICK i \in Slots : ReleaseResult(i)
    BY <1>5 DEF Releasing
  <2>2. /\ state[i] = "Ready" /\ state'[i] = "Free" /\ outcome[i] \in Outcomes
        /\ \A j \in Slots : j # i => state'[j] = state[j] /\ outcome'[j] = outcome[j]
        /\ UNCHANGED <<sequence, nextSequence>>
    BY <1>t, <2>1 DEF ReleaseResult
  <2>3. SlotStatus(i) \in {"committed", "failed", "cancelled"}
    BY <2>2 DEF SlotStatus, Outcomes
  <2>4. /\ sequence[i] \in 1 .. MaxSequence /\ TicketStatus[sequence[i]] = SlotStatus(i)
        /\ Move(sequence[i], "released")
    BY <2>2, OneSlotMoves
  <2>5. Abstract!Release(sequence[i])
    BY <2>3, <2>4 DEF Abstract!Release, Abstract!Move, Abstract!Answer
  <2> QED
    BY <2>4, <2>5 DEF Abstract!Next, Abstract!Ticket
<1>6. CASE WorkerClaim \/ \E o \in Executed : WorkerPublish(o)
  <2>w. PICK i \in Slots : i = working
    BY <1>t, <1>6 DEF WorkerClaim, WorkerPublish
  <2> DEFINE t == sequence[i]
  <2>1. /\ working # NoSlot /\ state[i] \in Unfinished
        /\ UNCHANGED <<sequence, nextSequence>>
    BY <2>w, <1>t, <1>6 DEF WorkerClaim, WorkerPublish, OrderInvariant, WorkerAhead
  <2>2. \/ /\ state[i] = "Queued" /\ state' = [state EXCEPT ![i] = "Running"]
           /\ outcome' = outcome
        \/ /\ state[i] = "CancelQueued" /\ state' = [state EXCEPT ![i] = "Ready"]
           /\ outcome' = [outcome EXCEPT ![i] = "Cancelled"]
        \/ /\ state[i] = "Running" /\ state' = [state EXCEPT ![i] = "Ready"]
           /\ \E o \in Executed : outcome' = [outcome EXCEPT ![i] = o]
    BY <1>6, <2>w, <2>1 DEF WorkerClaim, WorkerPublish, Unfinished
  <2>3. /\ \A j \in Slots : j # i => state'[j] = state[j] /\ outcome'[j] = outcome[j]
        /\ \/ SlotStatus(i) = "pending" /\ state'[i] = "Running"
           \/ /\ SlotStatus(i) = "cancelling" /\ state'[i] = "Ready"
              /\ SlotStatus(i)' = "cancelled"
           \/ /\ SlotStatus(i) = "pending" /\ state'[i] = "Ready"
              /\ SlotStatus(i)' \in {"committed", "failed"}
    BY <1>t, <2>1, <2>2, WriteQueueAssumption DEF SlotStatus
  <2>4. /\ t \in 1 .. MaxSequence /\ TicketStatus[t] = SlotStatus(i)
        /\ Move(t, SlotStatus(i)')
    BY <2>1, <2>3, OneSlotMoves DEF Unfinished
  <2>5. Abstract!InTurn(t)
    <3>1. \A j \in Slots : state[j] \in Unfinished => sequence[j] >= t
      BY <1>t, <2>w, <2>1, OldestAtWorker
    <3>2. t <= nextSequence + 1
      BY <1>t, <2>1 DEF OrderInvariant, NumberedOnce
    <3> QED
      BY <2>4, <3>1, <3>2, EarlierSettled
  <2>6. CASE state'[i] = "Running"
    <3>1. SlotStatus(i)' = "pending" /\ TicketStatus[t] = "pending"
      BY <2>3, <2>4, <2>6 DEF SlotStatus
    <3> QED
      BY <2>4, <3>1, StatusIsFunction
  <2>7. CASE state'[i] = "Ready"
    <3>1. Abstract!Finish(t)
      BY <2>3, <2>4, <2>5, <2>7 DEF Abstract!Finish, Abstract!Move
    <3> QED
      BY <2>4, <3>1 DEF Abstract!Next, Abstract!Ticket
  <2> QED
    BY <2>3, <2>6, <2>7
<1>7. CASE Starting \/ FinishStop \/ Adopting \/ Scanning \/ ScanStep \/ ScanEnd
           \/ RequestStop \/ WorkerReceive \/ UNCHANGED vars
  <2>1. UNCHANGED <<state, sequence, outcome, nextSequence>>
    BY <1>7 DEF Starting, Begin, FinishStop, Adopting, AdoptOwner, Scanning, ScanBegin, ScanStep,
       ScanEnd, RequestStop, WorkerReceive, vars
  <2> QED
    BY <1>1, <2>1
<1> QED
  BY <1>2, <1>3, <1>4, <1>5, <1>6, <1>7 DEF Next, Owner, Worker

(* The queue implements OrderedTickets: tickets are issued in order,       *)
(* answered once each and in that order, cancelled and released, however   *)
(* the two tasks interleave and for any number of slots.                   *)
THEOREM RefinesOrderedTickets == Spec => ImplementsOrderedTickets
<1>1. Init => Abstract!Init
  <2> SUFFICES ASSUME Init PROVE \A t \in 1 .. MaxSequence : TicketStatus[t] = "unissued"
    BY StatusIsFunction DEF Abstract!Init, Abstract!Ticket
  <2> QED
    BY DEF Init, TicketStatus
<1> QED
  BY <1>1, StepRefines, TypeCorrect, OrderCorrect, PTL
     DEF Spec, ImplementsOrderedTickets, Abstract!Spec
-----------------------------------------------------------------------------
(* The store: allVars, StoreInit and StoreNext are MessageStore's.         *)


(* A step that leaves numbers, requests and settlement alone and neither   *)
(* fills nor frees a slot: cancellations, restarts and the worker's steps. *)
QuietStep ==
  /\ UNCHANGED <<sequence, request, nextSequence, settledThrough, settled, fence, sending, scan>>
  /\ poll' = poll \/ (poll \in Jobs \cup {"idle"} /\ poll' \in Jobs \cup {"idle"})
  /\ \A i \in Slots : state'[i] = "Free" <=> state[i] = "Free"

(* An admission by a client or by a job.                                   *)
AdmitStep == \E r \in Requests :
  /\ Submit(r)
  /\ IF execution = "Immediate" THEN FenceRaised(r, nextSequence') ELSE UNCHANGED fence
  /\ UNCHANGED <<settledThrough, settled>>
  /\ poll \in Jobs \cup {"idle"} /\ poll' \in Jobs \cup {"idle"}

(* A release by a client or by a job.                                      *)
ReleaseStep == \E i \in Slots :
  /\ ReleaseResult(i) /\ sequence[i] <= settledThrough
  /\ UNCHANGED <<settledThrough, settled, fence, poll>>

LEMMA StoreSteps ==
  ASSUME SettlingInvariant, [StoreNext]_allVars
  PROVE  \/ QuietStep \/ AdmitStep \/ ReleaseStep \/ StoreSend
         \/ PollBegin \/ PollScan \/ PollSettle \/ PollSettled
<1> USE DEF storeVars, slotVars, ownerVars, workerVars, Jobs
<1>t. /\ state \in [Slots -> States] /\ working \in Slots \cup {NoSlot}
      /\ poll \in Jobs \cup {"idle", "settling"}
      /\ working # NoSlot => state[working] \in Unfinished
  BY DEF SettlingInvariant, TypeOK, SlotTypeOK, IndexTypeOK, PollInOrder, OrderInvariant, WorkerAhead
<1>1. CASE UNCHANGED allVars
  BY <1>1 DEF allVars, vars, QuietStep
<1>2. CASE \E r \in ClientRequests : ClientSubmit(r)
  BY <1>2, MessageStoreAssumption DEF ClientSubmit, StoreSubmit, Accepted, FenceRaised, Idle, AdmitStep
<1>3. CASE \E i \in Slots : ClientRelease(i)
  BY <1>3 DEF ClientRelease, Releasable, ReleaseStep
<1>4. CASE \E i \in Slots : ClientCancel(i)
  BY <1>4, <1>t DEF ClientCancel, Cancel, Cancelling, QuietStep
<1>5. CASE SetExternal \/ VoiceChanged \/ BeginDeferred
  BY <1>5 DEF SetExternal, VoiceChanged, BeginDeferred, JobsStartOver, vars, QuietStep
<1>6. CASE StoreStop \/ StoreAdopt \/ StoreFinishStop
  BY <1>6 DEF StoreStop, StoreAdopt, StoreFinishStop, RequestStop, Adopting, AdoptOwner,
     FinishStop, QuietStep
<1>7. CASE \E e \in {"Immediate", "Deferred"}, ok \in BOOLEAN : StoreBegin(e, ok)
  BY <1>7 DEF StoreBegin, Begin, JobsStartOver, QuietStep
<1>8. CASE \E j \in Jobs : JobWaits(j) \/ JobRests(j)
  BY <1>8 DEF JobWaits, JobRests, vars, After, QuietStep
<1>9. CASE \E j \in Jobs : JobDone(j)
  BY <1>9 DEF JobDone, JobResult, Releasable, ReleaseStep
<1>10. CASE \E j \in Jobs : JobSubmit(j)
  BY <1>10, MessageStoreAssumption DEF JobSubmit, StoreSubmit, Accepted, FenceRaised, After, AdmitStep
<1>11. CASE StoreWorker
  <2>1. /\ UNCHANGED <<sequence, request, nextSequence, sending, scan>>
        /\ UNCHANGED <<settledThrough, settled, fence, poll>>
    BY <1>11 DEF StoreWorker, Worker, WorkerReceive, WorkerClaim, WorkerPublish
  <2>2. \A i \in Slots : state'[i] = "Free" <=> state[i] = "Free"
    <3>1. \/ state' = state
          \/ /\ working \in Slots /\ state[working] # "Free"
             /\ \E s \in {"Running", "Ready"} : state' = [state EXCEPT ![working] = s]
      BY <1>11, <1>t DEF StoreWorker, Worker, WorkerReceive, WorkerClaim, WorkerPublish, Unfinished
    <3> QED
      BY <3>1, <1>t
  <2> QED
    BY <2>1, <2>2 DEF QuietStep
<1> QED
  BY <1>1, <1>2, <1>3, <1>4, <1>5, <1>6, <1>7, <1>8, <1>9, <1>10, <1>11
     DEF StoreNext, Client, PollStep

(* The store drives the queue through its own steps; settling a ticket     *)
(* only starts the scan over.                                              *)
LEMMA QueueUnderStore ==
  ASSUME SettlingInvariant, [StoreNext]_allVars
  PROVE  TypeOK' /\ OrderInvariant'
<1> USE DEF SettlingInvariant
<1>1. CASE PollSettle
  <2>1. ScanAnswer \in Slots
    BY <1>1 DEF PollSettle, ScanAnswer, TypeOK, ScanTypeOK
  <2>2. /\ UNCHANGED <<slotVars, ownerVars, workerVars, queue, sending>>
        /\ scan' = [phase |-> "scanning", at |-> 0, after |-> sequence[ScanAnswer], first |-> NoSlot]
    BY <1>1 DEF PollSettle
  <2>3. sequence[ScanAnswer] \in 0 .. MaxSequence
    BY <2>1 DEF TypeOK, SlotTypeOK
  <2>4. ScanTypeOK'
    BY <2>2, <2>3, SlotsBelow DEF ScanTypeOK
  <2>5. SlotTypeOK' /\ IndexTypeOK' /\ FlagTypeOK'
    BY <2>2 DEF TypeOK, SlotTypeOK, IndexTypeOK, FlagTypeOK, slotVars, ownerVars, workerVars
  <2>6. OrderInvariant'
    BY <2>2 DEF OrderInvariant, NumberedOnce, QueueInOrder, WorkerAhead, SenderBehind, UnfinishedHeld,
       StopInOrder, CompletionInOrder, slotVars, ownerVars, workerVars
  <2> QED
    BY <2>4, <2>5, <2>6 DEF TypeOK
<1>2. CASE ~PollSettle
  <2>1. [Next]_vars
    <3> USE DEF Next, Owner
    <3>1. CASE UNCHANGED allVars
      BY <3>1 DEF allVars
    <3>2. CASE Client
      BY <3>2, MessageStoreAssumption
         DEF Client, ClientSubmit, StoreSubmit, Submitting, ClientRelease, Releasing,
             ClientCancel, Withdrawing, SetExternal, VoiceChanged, StoreStop, StoreAdopt,
             StoreFinishStop, BeginDeferred, StoreBegin, Starting
    <3>3. CASE StoreSend \/ StoreWorker
      BY <3>3 DEF StoreSend, StoreWorker
    <3>4. CASE PollBegin
      BY <3>4 DEF PollBegin, Scanning, PollInOrder
    <3>5. CASE PollScan \/ PollSettled
      BY <3>5 DEF PollScan, PollSettled
    <3>6. CASE \E j \in Jobs : JobWaits(j) \/ JobDone(j) \/ JobSubmit(j) \/ JobRests(j)
      BY <3>6, MessageStoreAssumption
         DEF JobWaits, JobDone, JobResult, JobSubmit, StoreSubmit, JobRests, Releasing, Submitting
    <3> QED
      BY <1>2, <3>1, <3>2, <3>3, <3>4, <3>5, <3>6 DEF StoreNext, PollStep
  <2> QED
    BY <2>1, TypeStep, OrderStep
<1> QED
  BY <1>1, <1>2

(* The ticket a poll settles is the one after the last settled one.        *)
LEMMA SettlesNext ==
  ASSUME SettlingInvariant, PollSettle
  PROVE  ScanAnswer \in Slots /\ sequence[ScanAnswer] = settledThrough + 1
         /\ settledThrough + 1 <= nextSequence
<1> DEFINE i == ScanAnswer
<1>1. i \in Slots /\ i = scan.first /\ scan.at = SlotCount /\ poll = "settling"
  BY DEF PollSettle, ScanDone, ScanAnswer, SettlingInvariant, TypeOK, ScanTypeOK
<1>2. /\ settledThrough \in Nat /\ nextSequence \in Nat /\ \A j \in Slots : sequence[j] \in Nat
      /\ scan.after = settledThrough
  BY <1>1, WriteQueueAssumption
     DEF SettlingInvariant, PollInOrder, TypeOK, SlotTypeOK, IndexTypeOK
<1>3. sequence[i] > settledThrough /\ sequence[i] <= nextSequence
  BY <1>1, <1>2, SlotsBelow DEF SettlingInvariant, FoundOldest, OrderInvariant, NumberedOnce
<1>4. PICK j \in Slots : state[j] # "Free" /\ sequence[j] = settledThrough + 1
  <2>1. settledThrough + 1 \in 1 .. nextSequence /\ settledThrough + 1 > settledThrough
    BY <1>1, <1>2, <1>3
  <2> QED
    BY <2>1 DEF SettlingInvariant, ConsumedAfterSettled
<1>5. j < scan.at
  BY <1>1, SlotsBelow DEF Slots
<1>6. sequence[i] <= sequence[j]
  BY <1>1, <1>2, <1>4, <1>5 DEF SettlingInvariant, FoundOldest
<1> QED
  BY <1>1, <1>2, <1>3, <1>4, <1>6

LEMMA StoreInvariantInit == StoreInit => SettlingInvariant
<1> SUFFICES ASSUME StoreInit PROVE SettlingInvariant
  OBVIOUS
<1>1. TypeOK /\ OrderInvariant
  BY TypeInit, OrderInit DEF StoreInit
<1>2. PollInOrder /\ FoundOldest /\ NoneSkipped /\ ConsumedAfterSettled
  BY DEF StoreInit, Init, NoScan, PollInOrder, FoundOldest, NoneSkipped, ConsumedAfterSettled
<1>3. OneDeletion /\ DeletionFenced
  BY DEF StoreInit, Init, NoRequest, Deletes, OneDeletion, DeletionFenced
<1> QED
  BY <1>1, <1>2, <1>3 DEF SettlingInvariant

(* Each step of the store, of a client, of a job or of the worker keeps    *)
(* the order of settlement.                                                *)
LEMMA StoreInvariantStep == SettlingInvariant /\ [StoreNext]_allVars => SettlingInvariant'
<1> SUFFICES ASSUME SettlingInvariant, [StoreNext]_allVars PROVE SettlingInvariant'
  OBVIOUS
<1>q. TypeOK' /\ OrderInvariant'
  BY QueueUnderStore
<1>t. /\ state \in [Slots -> States] /\ sequence \in [Slots -> Nat] /\ nextSequence \in Nat
      /\ request \in [Slots -> Requests \cup {NoRequest}] /\ settledThrough \in Nat
      /\ settledThrough <= nextSequence
      /\ sending \in Slots \cup {NoSlot}
  BY WriteQueueAssumption DEF SettlingInvariant, TypeOK, SlotTypeOK, IndexTypeOK, PollInOrder
<1>s. scan.at \in Nat /\ scan.first \in Slots \cup {NoSlot}
  BY DEF SettlingInvariant, TypeOK, ScanTypeOK
<1> USE DEF Jobs
<1>1. CASE QuietStep
  <2>1. PollInOrder' /\ OneDeletion' /\ NoneSkipped'
    BY <1>1 DEF QuietStep, SettlingInvariant, PollInOrder, OneDeletion, NoneSkipped
  <2>2. FoundOldest' /\ ConsumedAfterSettled' /\ DeletionFenced'
    BY <1>1 DEF QuietStep, SettlingInvariant, FoundOldest, ConsumedAfterSettled, DeletionFenced
  <2> QED
    BY <1>q, <2>1, <2>2 DEF SettlingInvariant
<1>2. CASE AdmitStep
  <2>1. PICK r \in Requests :
          /\ Submit(r)
          /\ IF execution = "Immediate" THEN FenceRaised(r, nextSequence') ELSE UNCHANGED fence
          /\ UNCHANGED <<settledThrough, settled>>
          /\ poll \in Jobs \cup {"idle"} /\ poll' \in Jobs \cup {"idle"}
    BY <1>2 DEF AdmitStep
  <2>2. PICK i \in Slots :
          /\ FirstFit(i, r)
          /\ request' = [request EXCEPT ![i] = r]
          /\ sequence' = [sequence EXCEPT ![i] = nextSequence + 1]
          /\ \/ /\ execution = "Deferred"
                /\ state' = [state EXCEPT ![i] = "Queued"] /\ sending' = i
             \/ /\ execution # "Deferred"
                /\ state' = [state EXCEPT ![i] = "Ready"] /\ sending' = sending
    BY <2>1 DEF Submit
  <2>3. /\ state[i] = "Free" /\ sending = NoSlot
        /\ nextSequence' = nextSequence + 1 /\ scan' = scan
        /\ r.operation \in Deletes => i = DeleteSlot
    BY <2>1, <2>2 DEF Submit, FirstFit, Usable, OwnerIdle, Candidates
  <2>4. /\ \A j \in Slots : j # i => /\ state'[j] = state[j] /\ sequence'[j] = sequence[j]
                                     /\ request'[j] = request[j]
        /\ sequence'[i] = nextSequence + 1 /\ state'[i] # "Free" /\ request'[i] = r
    BY <2>2, <1>t
  <2>5. PollInOrder' /\ FoundOldest' /\ NoneSkipped'
    BY <1>t, <2>1, <2>3 DEF SettlingInvariant, PollInOrder, FoundOldest, NoneSkipped
  <2>6. OneDeletion'
    BY <2>3, <2>4 DEF SettlingInvariant, OneDeletion
  <2>7. ConsumedAfterSettled'
    <3> SUFFICES ASSUME NEW t \in 1 .. nextSequence + 1, t > settledThrough
                 PROVE  \E j \in Slots : state'[j] # "Free" /\ sequence'[j] = t
      BY <2>1, <2>3 DEF ConsumedAfterSettled
    <3>1. CASE t = nextSequence + 1
      BY <2>4, <3>1
    <3>2. CASE t # nextSequence + 1
      <4>1. PICK j \in Slots : state[j] # "Free" /\ sequence[j] = t
        BY <1>t, <3>2 DEF SettlingInvariant, ConsumedAfterSettled
      <4> QED
        BY <2>3, <2>4, <4>1
    <3> QED
      BY <3>1, <3>2
  <2>8. DeletionFenced'
    <3> SUFFICES ASSUME NEW j \in Slots, state'[j] # "Free", j # sending',
                        request'[j].operation = "DeleteConversation",
                        sequence'[j] > settledThrough
                 PROVE  fence' = sequence'[j]
      BY <2>1 DEF DeletionFenced
    <3>1. CASE j = i
      <4>1. execution # "Deferred"
        BY <2>2, <3>1
      <4>2. execution = "Immediate" /\ r.operation = "DeleteConversation"
        BY <2>4, <3>1, <4>1 DEF SettlingInvariant, TypeOK, FlagTypeOK
      <4> QED
        BY <2>1, <2>3, <2>4, <3>1, <4>2 DEF FenceRaised
    <3>2. CASE j # i
      <4>1. r.operation # "DeleteConversation"
        BY <2>3, <2>4, <3>2 DEF SettlingInvariant, OneDeletion, Deletes
      <4>2. fence' = fence
        BY <2>1, <4>1 DEF FenceRaised
      <4>3. fence = sequence[j]
        BY <2>3, <2>4, <3>2, SlotsBelow DEF SettlingInvariant, DeletionFenced
      <4> QED
        BY <2>4, <3>2, <4>2, <4>3
    <3> QED
      BY <3>1, <3>2
  <2> QED
    BY <1>q, <2>5, <2>6, <2>7, <2>8 DEF SettlingInvariant
<1>3. CASE ReleaseStep
  <2>1. PICK i \in Slots : /\ ReleaseResult(i) /\ sequence[i] <= settledThrough
                           /\ UNCHANGED <<settledThrough, settled, fence, poll>>
    BY <1>3 DEF ReleaseStep
  <2>2. /\ UNCHANGED <<sequence, request, nextSequence, sending, scan>>
        /\ \A j \in Slots : state'[j] # "Free" => state[j] # "Free"
        /\ \A j \in Slots : sequence[j] > settledThrough => state'[j] = state[j]
    BY <1>t, <2>1 DEF ReleaseResult
  <2>3. PollInOrder' /\ OneDeletion' /\ NoneSkipped'
    BY <2>1, <2>2 DEF SettlingInvariant, PollInOrder, OneDeletion, NoneSkipped
  <2>4. FoundOldest' /\ DeletionFenced'
    BY <2>1, <2>2 DEF SettlingInvariant, FoundOldest, DeletionFenced
  <2>5. ConsumedAfterSettled'
    BY <1>t, <2>1, <2>2 DEF SettlingInvariant, ConsumedAfterSettled
  <2> QED
    BY <1>q, <2>3, <2>4, <2>5 DEF SettlingInvariant
<1>4. CASE StoreSend
  <2>1. /\ UNCHANGED <<state, sequence, request, nextSequence, settledThrough, settled, poll, scan>>
        /\ sending # NoSlot /\ sending \in Slots /\ sending' = NoSlot
        /\ state[sending] # "Free" /\ FenceRaised(request[sending], sequence[sending])
    <3>1. Len(queue) < QueueLength /\ sending # NoSlot
      BY <1>4, RoomForIndex DEF StoreSend, SubmitSend, SettlingInvariant
    <3>2. UNCHANGED <<state, sequence, request, nextSequence, scan>> /\ sending' = NoSlot
      BY <1>4, <3>1 DEF StoreSend, SubmitSend
    <3>3. sending \in Slots /\ state[sending] # "Free"
      BY <1>t, <3>1 DEF SettlingInvariant, OrderInvariant, SenderBehind, Waiting
    <3> QED
      BY <1>4, <3>1, <3>2, <3>3 DEF StoreSend, Accepted
  <2>2. PollInOrder' /\ OneDeletion' /\ NoneSkipped' /\ FoundOldest' /\ ConsumedAfterSettled'
    BY <2>1 DEF SettlingInvariant, PollInOrder, OneDeletion, NoneSkipped, FoundOldest,
       ConsumedAfterSettled
  <2>3. DeletionFenced'
    <3> SUFFICES ASSUME NEW j \in Slots, state[j] # "Free",
                        request[j].operation = "DeleteConversation", sequence[j] > settledThrough
                 PROVE  fence' = sequence[j]
      BY <2>1 DEF DeletionFenced
    <3>1. CASE j = sending
      BY <2>1, <3>1 DEF FenceRaised
    <3>2. CASE j # sending
      <4>1. request[sending].operation # "DeleteConversation"
        BY <2>1, <3>2 DEF SettlingInvariant, OneDeletion, Deletes
      <4> QED
        BY <2>1, <3>2, <4>1 DEF FenceRaised, SettlingInvariant, DeletionFenced
    <3> QED
      BY <3>1, <3>2
  <2> QED
    BY <1>q, <2>2, <2>3 DEF SettlingInvariant
<1>5. CASE PollBegin
  <2>1. /\ UNCHANGED <<state, sequence, request, nextSequence, settledThrough, settled, fence, sending>>
        /\ scan' = [phase |-> "scanning", at |-> 0, after |-> settledThrough, first |-> NoSlot]
        /\ poll' = "settling"
    BY <1>5 DEF PollBegin, ScanBegin, slotVars, ownerVars
  <2>2. PollInOrder' /\ OneDeletion' /\ NoneSkipped' /\ DeletionFenced'
    BY <2>1 DEF SettlingInvariant, PollInOrder, OneDeletion, NoneSkipped, DeletionFenced
  <2>3. FoundOldest' /\ ConsumedAfterSettled'
    BY <2>1, SlotsBelow DEF SettlingInvariant, FoundOldest, ConsumedAfterSettled
  <2> QED
    BY <1>q, <2>2, <2>3 DEF SettlingInvariant
<1>6. CASE PollScan
  <2>1. /\ UNCHANGED <<state, sequence, request, nextSequence, settledThrough, settled, fence,
                       sending, poll>>
        /\ poll = "settling" /\ scan.at < SlotCount
        /\ scan' = [phase |-> "scanning", at |-> scan.at + 1, after |-> scan.after,
                    first |-> IF ScanTakes(scan.at) THEN scan.at ELSE scan.first]
    BY <1>6 DEF PollScan, ScanStep, slotVars, ownerVars, storeVars
  <2>2. PollInOrder' /\ OneDeletion' /\ NoneSkipped' /\ DeletionFenced' /\ ConsumedAfterSettled'
    BY <2>1 DEF SettlingInvariant, PollInOrder, OneDeletion, NoneSkipped, DeletionFenced,
       ConsumedAfterSettled
  <2>3. FoundOldest'
    <3> DEFINE a == scan.at
    <3>1. a \in Slots
      BY <1>s, <2>1, SlotsBelow DEF Slots
    <3>2. /\ scan.first # NoSlot => sequence[scan.first] > scan.after
          /\ \A i \in Slots : i < a /\ state[i] # "Free" /\ sequence[i] > scan.after
               => scan.first # NoSlot /\ sequence[scan.first] <= sequence[i]
      BY <2>1 DEF SettlingInvariant, FoundOldest
    <3>3. scan'.at = a + 1 /\ scan'.after = scan.after
      BY <2>1
    <3>4. \A i \in Slots : i < a + 1 => i < a \/ i = a
      BY <1>s DEF Slots
    <3>5. scan.after \in Nat
      BY <1>t, <2>1 DEF SettlingInvariant, PollInOrder
    <3>6. CASE ScanTakes(a)
      <4>1. /\ scan'.first = a /\ sequence[a] > scan.after
            /\ scan.first = NoSlot \/ sequence[a] < sequence[scan.first]
        BY <2>1, <3>6 DEF ScanTakes, Older
      <4>2. ASSUME NEW i \in Slots, i < a + 1, state[i] # "Free", sequence[i] > scan.after
            PROVE  sequence[a] <= sequence[i]
        <5>1. CASE i = a
          BY <1>t, <3>1, <5>1
        <5>2. CASE i # a
          <6>1. scan.first # NoSlot /\ sequence[scan.first] <= sequence[i]
            BY <3>2, <3>4, <4>2, <5>2
          <6> QED
            BY <1>t, <1>s, <3>1, <4>1, <6>1
        <5> QED
          BY <5>1, <5>2
      <4>3. a # NoSlot
        BY <3>1, SlotsBelow
      <4> QED
        BY <2>1, <3>3, <4>1, <4>2, <4>3 DEF FoundOldest
    <3>7. CASE ~ScanTakes(a)
      <4>1. /\ scan'.first = scan.first
            /\ state[a] # "Free" /\ sequence[a] > scan.after
                 => scan.first # NoSlot /\ ~(sequence[a] < sequence[scan.first])
        BY <2>1, <3>7 DEF ScanTakes, Older
      <4> QED
        BY <1>t, <1>s, <2>1, <3>1, <3>2, <3>3, <3>4, <3>5, <4>1 DEF FoundOldest
    <3> QED
      BY <3>6, <3>7
  <2> QED
    BY <1>q, <2>2, <2>3 DEF SettlingInvariant
<1>7. CASE PollSettle
  <2>1. PICK i \in Slots : i = ScanAnswer
    BY <1>7, SettlesNext
  <2>2. sequence[i] = settledThrough + 1 /\ settledThrough + 1 <= nextSequence
    BY <1>7, <2>1, SettlesNext
  <2>3. /\ UNCHANGED <<state, sequence, request, nextSequence, sending, poll>>
        /\ settledThrough' = settledThrough + 1 /\ poll = "settling"
        /\ settled' = settled \cup {settledThrough + 1}
        /\ fence' = IF fence = settledThrough + 1 THEN 0 ELSE fence
        /\ scan' = [phase |-> "scanning", at |-> 0, after |-> settledThrough + 1, first |-> NoSlot]
    BY <1>7, <2>1, <2>2 DEF PollSettle, FenceEnds, slotVars, ownerVars
  <2>4. PollInOrder' /\ OneDeletion' /\ FoundOldest'
    BY <1>t, <2>2, <2>3, SlotsBelow DEF SettlingInvariant, PollInOrder, OneDeletion, FoundOldest
  <2>5. NoneSkipped'
    BY <1>t, <2>3 DEF SettlingInvariant, NoneSkipped
  <2>6. ConsumedAfterSettled' /\ DeletionFenced'
    BY <1>t, <2>3 DEF SettlingInvariant, ConsumedAfterSettled, DeletionFenced
  <2> QED
    BY <1>q, <2>4, <2>5, <2>6 DEF SettlingInvariant
<1>8. CASE PollSettled
  <2>1. /\ UNCHANGED <<state, sequence, request, nextSequence, settledThrough, settled, fence, sending>>
        /\ scan' = NoScan /\ poll' = "RetainAudio"
    BY <1>8 DEF PollSettled, ScanEnd, slotVars, ownerVars
  <2>2. PollInOrder' /\ OneDeletion' /\ NoneSkipped' /\ DeletionFenced' /\ FoundOldest'
        /\ ConsumedAfterSettled'
    BY <2>1 DEF SettlingInvariant, PollInOrder, OneDeletion, NoneSkipped, DeletionFenced,
       FoundOldest, ConsumedAfterSettled, NoScan
  <2> QED
    BY <1>q, <2>2 DEF SettlingInvariant
<1> QED
  BY <1>1, <1>2, <1>3, <1>4, <1>5, <1>6, <1>7, <1>8, StoreSteps

(* The order of settlement holds in every interleaving of clients, polls,  *)
(* jobs, stops and restarts with the worker.                               *)
THEOREM SettlesInOrder == StoreSpec => []SettlingInvariant
BY StoreInvariantInit, StoreInvariantStep, PTL DEF StoreSpec

(* settle() runs once for every ticket up to the settled one: no committed *)
(* change is skipped because a later ticket was seen first.                *)
THEOREM NoTicketSkipped == StoreSpec => []NoneSkipped
BY SettlesInOrder, PTL DEF SettlingInvariant

(* A result leaves its slot only after its settlement.                     *)
THEOREM ReleasedAfterSettled == StoreSpec => []ConsumedAfterSettled
BY SettlesInOrder, PTL DEF SettlingInvariant

(* An admitted deletion keeps its conversation fenced until it is settled. *)
THEOREM DeletionStaysFenced == StoreSpec => []DeletionFenced
BY SettlesInOrder, PTL DEF SettlingInvariant
=============================================================================

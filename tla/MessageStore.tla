---------------------------- MODULE MessageStore ----------------------------
(***************************************************************************)
(* storage/MessageStore: the owner of the write queue.  It submits for its *)
(* clients, settles every answer once and in ticket order before a client  *)
(* may see it, keeps a conversation fenced from its deletion's admission   *)
(* to its settlement, and runs two background jobs (voice retention and    *)
(* space reclaim) through the same slots.                                  *)
(*                                                                         *)
(* A call of the store is a sequence of queue steps: `poll` says where a   *)
(* poll() in progress is, and no other call starts meanwhile.  Whether a   *)
(* job has something to do, a maintenance gate is open or an execution     *)
(* meets a write error is left open.                                       *)
(***************************************************************************)
EXTENDS WriteQueue

CONSTANTS ClientRequests,    \* what clients submit
          JobRequests        \* what the background jobs submit

Jobs == {"RetainAudio", "Reclaim"}

ASSUME MessageStoreAssumption ==
  /\ Requests = ClientRequests \cup JobRequests
  /\ \A r \in JobRequests : r.operation \in Jobs
  /\ \A r \in ClientRequests : r.operation \notin Jobs

VARIABLES
  settledThrough,  \* every ticket up to this one has been settled
  settled,         \* the tickets settle() ran for, only to state properties
  fence,           \* _deleteFence: the ticket of a deletion, 0 without one
  fencedPeer,
  ticket,          \* the ticket of each job, 0 without one
  due,             \* the job has work to submit
  poll             \* the step of poll() in progress, "idle" outside it

storeVars == <<settledThrough, settled, fence, fencedPeer, ticket, due, poll>>
allVars   == <<vars, storeVars>>

NoPeer == "none"

StoreInit ==
  /\ Init
  /\ settledThrough = 0 /\ settled = {}
  /\ fence = 0 /\ fencedPeer = NoPeer
  /\ ticket = [j \in Jobs |-> 0] /\ due = [j \in Jobs |-> TRUE]
  /\ poll = "idle"

Idle == poll = "idle" /\ OwnerIdle

-----------------------------------------------------------------------------
(* submit(): a fenced conversation admits nothing but room operations.     *)
Fenced(r)   == fence # 0 /\ r.peer = fencedPeer /\ r.operation # "Rrc"

(* What the accepted ticket t of request r leaves behind in the store.     *)
FenceRaised(r, t) ==
  IF r.operation = "DeleteConversation"
  THEN fence' = t /\ fencedPeer' = r.peer
  ELSE UNCHANGED <<fence, fencedPeer>>

Accepted(r, t) ==
  /\ FenceRaised(r, t)
  /\ IF r.operation \in Jobs
     THEN /\ ticket' = [ticket EXCEPT ![r.operation] = t]
          /\ due' = [due EXCEPT ![r.operation] = FALSE]
     ELSE UNCHANGED <<ticket, due>>

(* An immediate queue has answered when Submit returns; a deferred one     *)
(* accepts when the index is sent.                                         *)
StoreSubmit(r) ==
  /\ ~Fenced(r) /\ Submit(r)
  /\ IF execution = "Immediate" THEN Accepted(r, nextSequence')
     ELSE UNCHANGED <<fence, fencedPeer, ticket, due>>
  /\ UNCHANGED <<settledThrough, settled>>

StoreSend ==
  /\ SubmitSend
  /\ IF state'[sending] # "Free" THEN Accepted(request[sending], sequence[sending])
     ELSE UNCHANGED <<fence, fencedPeer, ticket, due>>
  /\ UNCHANGED <<settledThrough, settled, poll>>

ClientSubmit(r) == Idle /\ StoreSubmit(r) /\ UNCHANGED poll

(* A client sees and releases only what has been settled.                  *)
AnyReleasable(t) == TRUE                                     \* fault
Releasable(t)    == t <= settledThrough

ClientRelease(i) ==
  /\ Idle /\ Releasable(sequence[i]) /\ sequence[i] \notin {ticket[j] : j \in Jobs}
  /\ ReleaseResult(i)
  /\ UNCHANGED storeVars

ClientCancel(i) == Idle /\ request[i].operation \notin Jobs /\ Cancel(i) /\ UNCHANGED storeVars

(* setExternalStorageEnabled(): only between writes.                       *)
SetExternal ==
  /\ Idle /\ outstanding = 0
  /\ due' = [j \in Jobs |-> TRUE]
  /\ UNCHANGED <<vars, settledThrough, settled, fence, fencedPeer, ticket, poll>>

(* configureVoiceRetention(), protectVoiceRecord() with a new value.       *)
VoiceChanged ==
  /\ Idle
  /\ due' = [due EXCEPT !["RetainAudio"] = TRUE]
  /\ UNCHANGED <<vars, settledThrough, settled, fence, fencedPeer, ticket, poll>>

StoreStop  == Idle /\ RequestStop /\ UNCHANGED storeVars
StoreAdopt == Idle /\ Adopting /\ UNCHANGED storeVars

(* finishStop(), after the poll() it makes first.                          *)
StoreFinishStop == Idle /\ FinishStop /\ UNCHANGED storeVars

(* begin(): the jobs start over, the fence and the tickets go on.  A lease, *)
(* directory, migration or index that fails ends it before the queue.      *)
JobsStartOver ==
  /\ due' = [j \in Jobs |-> TRUE] /\ ticket' = [ticket EXCEPT !["Reclaim"] = 0]
  /\ UNCHANGED <<settledThrough, settled, fence, fencedPeer, poll>>

StoreBegin(e, ok) == Idle /\ Begin(e, ok) /\ JobsStartOver
BeginDeferred     == Idle /\ Drained /\ JobsStartOver /\ UNCHANGED vars

-----------------------------------------------------------------------------
(* poll(): settle what is ready, oldest first; then each job in turn.      *)
PollBegin ==
  /\ Idle /\ ScanBegin(settledThrough)
  /\ poll' = "settling"
  /\ UNCHANGED <<settledThrough, settled, fence, fencedPeer, ticket, due>>

PollScan == poll = "settling" /\ ScanStep /\ UNCHANGED storeVars

(* settle(): a failed write makes the reclaim due, a commit may make       *)
(* either job due; a reclaim's own failure does not repeat it.             *)
Settle(i) ==
  \E more \in SUBSET Jobs :
    /\ request[i].operation = "Reclaim" /\ outcome[i] # "Committed" => more = {}
    /\ due' = [j \in Jobs |-> due[j] \/ j \in more]

NeverEnds(t)  == FALSE                \* fault: settled, still fenced
AnyEnds(t)    == TRUE                 \* fault: any settlement lifts the fence
FenceEnds(t)  == fence = t

PollSettle ==
  /\ poll = "settling" /\ ScanDone /\ ScanAnswer # NoSlot
  /\ Settle(ScanAnswer)
  /\ settledThrough' = sequence[ScanAnswer]
  /\ settled' = settled \cup {sequence[ScanAnswer]}
  /\ fence' = IF FenceEnds(sequence[ScanAnswer]) THEN 0 ELSE fence
  /\ scan' = [phase |-> "scanning", at |-> 0, after |-> sequence[ScanAnswer], first |-> NoSlot]
  /\ UNCHANGED <<slotVars, ownerVars, workerVars, queue, sending, fencedPeer, ticket, poll>>

PollSettled ==
  /\ poll = "settling" /\ ScanAnswer = NoSlot /\ ScanEnd
  /\ poll' = "RetainAudio"
  /\ UNCHANGED <<settledThrough, settled, fence, fencedPeer, ticket, due>>

After(j) == IF j = "RetainAudio" THEN "Reclaim" ELSE "idle"

(* The slot of job j's ticket, if its result may be seen.                  *)
CommittedResult(j) == {i \in Slots : /\ sequence[i] = ticket[j] /\ state[i] = "Ready"
                                     /\ outcome[i] = "Committed"}   \* fault
JobResult(j) == {i \in Slots : /\ sequence[i] = ticket[j] /\ Releasable(ticket[j])
                               /\ state[i] = "Ready"}

Pending(j)     == ticket[j] # 0

(* The job's last pass is not over: leave it alone.                        *)
JobWaits(j) ==
  /\ poll = j /\ OwnerIdle
  /\ Pending(j) /\ JobResult(j) = {}
  /\ poll' = After(j)
  /\ UNCHANGED <<vars, settledThrough, settled, fence, fencedPeer, ticket, due>>

(* It is over: an unfinished or failed retention is due again, a committed *)
(* reclaim that wants more as well.                                        *)
JobDone(j) ==
  /\ poll = j /\ OwnerIdle /\ Pending(j)
  /\ \E i \in JobResult(j), more \in BOOLEAN :
       /\ outcome[i] # "Committed" => more = (j = "RetainAudio")
       /\ due' = [due EXCEPT ![j] = @ \/ more]
       /\ ReleaseResult(i)
  /\ ticket' = [ticket EXCEPT ![j] = 0]
  /\ UNCHANGED <<settledThrough, settled, fence, fencedPeer, poll>>

(* None is running: submit the next one if it is due, the gates are open   *)
(* and the queue takes it; or leave it for a later poll.                   *)
JobSubmit(j) ==
  /\ poll = j /\ OwnerIdle /\ ~Pending(j) /\ due[j]
  /\ \E r \in JobRequests : r.operation = j /\ StoreSubmit(r)
  /\ poll' = After(j)

JobRests(j) ==
  /\ poll = j /\ OwnerIdle /\ ~Pending(j)
  /\ poll' = After(j)
  /\ UNCHANGED <<vars, settledThrough, settled, fence, fencedPeer, ticket, due>>

PollStep ==
  \/ PollScan \/ PollSettle \/ PollSettled
  \/ \E j \in Jobs : JobWaits(j) \/ JobDone(j) \/ JobSubmit(j) \/ JobRests(j)

-----------------------------------------------------------------------------
Client ==
  \/ \E r \in ClientRequests : ClientSubmit(r)
  \/ \E i \in Slots : ClientRelease(i) \/ ClientCancel(i)
  \/ SetExternal \/ VoiceChanged \/ StoreStop \/ StoreAdopt \/ StoreFinishStop \/ BeginDeferred
  \/ \E e \in {"Immediate", "Deferred"}, ok \in BOOLEAN : StoreBegin(e, ok)

StoreWorker == Worker /\ UNCHANGED storeVars

StoreNext == Client \/ StoreSend \/ PollBegin \/ PollStep \/ StoreWorker

StoreSpec == StoreInit /\ [][StoreNext]_allVars

(* The service task polls on every tick and finishes the calls it starts;  *)
(* the worker runs.  No client is obliged to do anything.                  *)
StoreFairSpec ==
  /\ StoreSpec
  /\ WF_allVars(PollBegin) /\ WF_allVars(PollStep) /\ WF_allVars(StoreSend)
  /\ WF_allVars(StoreWorker)

-----------------------------------------------------------------------------
(* settle() has run for exactly the tickets up to _settledThrough: none of *)
(* the committed deltas is skipped because a later ticket was seen first.  *)
NoneSkipped == settled = 1 .. settledThrough

(* A result leaves its slot only after its settlement, so the counters and *)
(* revisions a client reads next to a result already include it.           *)
ConsumedAfterSettled == \A t \in 1 .. nextSequence :
  t > settledThrough => \E i \in Slots : state[i] # "Free" /\ sequence[i] = t

(* Every admitted deletion is fenced until it is settled: a second one     *)
(* cannot replace the fence of the first.                                  *)
DeletionFenced == \A i \in Slots :
  state[i] # "Free" /\ i # sending /\ request[i].operation = "DeleteConversation"
    /\ sequence[i] > settledThrough => fence = sequence[i]

(* Every fence is lifted: a deletion cannot lock a conversation for good.  *)
FenceLifts == fence # 0 ~> fence = 0

(* Every admitted pass of a job is collected and its slot freed.           *)
PassCollected == \A j \in Jobs : ticket[j] # 0 ~> ticket[j] = 0

(* Why none is skipped, as an invariant that every step keeps: poll() goes *)
(* on from the last settled ticket, what it has found so far is the oldest *)
(* one it has passed, and every deletion shares one slot.                  *)
PollInOrder ==
  /\ settledThrough \in 0 .. nextSequence
  /\ poll \in Jobs \cup {"idle", "settling"}
  /\ poll = "settling" <=> scan.phase = "scanning"
  /\ poll = "settling" => scan.after = settledThrough

FoundOldest == poll = "settling" =>
  /\ scan.first # NoSlot => sequence[scan.first] > scan.after
  /\ \A i \in Slots : i < scan.at /\ state[i] # "Free" /\ sequence[i] > scan.after
       => scan.first # NoSlot /\ sequence[scan.first] <= sequence[i]

OneDeletion == \A i \in Slots : request[i].operation \in Deletes => i = DeleteSlot

SettlingInvariant ==
  /\ TypeOK /\ OrderInvariant /\ PollInOrder /\ FoundOldest /\ OneDeletion
  /\ NoneSkipped /\ ConsumedAfterSettled /\ DeletionFenced
=============================================================================

--------------------------- MODULE ServiceMailbox ---------------------------
(***************************************************************************)
(* runtime/ServiceMailbox.h: the slots between the UI task and the service *)
(* task.  The UI submits, cancels a send and releases results; the service *)
(* takes requests in publication order, keeps what does not finish at once *)
(* and publishes each result in its own slot.  One more slot is reserved   *)
(* for a lifecycle request (restart, format, factory reset and the like).  *)
(*                                                                         *)
(* There is no lock.  Every atomic variable the other task reads is a step *)
(* of its own: `ui` and `svc` say where each task is.  Fields of a slot    *)
(* that only its present owner touches change with the step that hands the *)
(* slot over.  The generation of a request never goes stale: nothing in    *)
(* the program changes it.                                                 *)
(***************************************************************************)
EXTENDS Integers, FiniteSets

CONSTANTS NormalSlots,
          BlockCount,    \* blocks of the payload arena
          Requests,      \* [operation, need]: what the UI submits
          MaxId          \* bound on _nextId

ASSUME MailboxAssumption ==
  /\ NormalSlots \in Nat \ {0} /\ MaxId \in Nat /\ BlockCount \in Nat
  /\ \A r \in Requests : r.need \in 0 .. 4

Lifecycle == NormalSlots           \* the reserved slot
Normal    == 0 .. NormalSlots - 1
Slots     == 0 .. NormalSlots
NoSlot    == -1
Blocks    == 0 .. BlockCount - 1

IsLifecycle(r) == r.operation \notin {"Send", "Query"}

VARIABLES
  state, request, id, held,         \* of each slot; held: its blocks
  readySlots, readyHead, readyTail, \* the ring of published slots
  accepting, recovery,
  usedBlocks, nextId, outstanding,  \* the UI's
  result,                           \* of each slot: [outcome, suppressed]
  ui,                               \* [phase, slot, request]
  svc,                              \* [phase, slot, outcome, cancelled]
  sends, noticed,                   \* slots with an engine ticket; cancelled there
  acknowledged, lastTaken           \* only to state properties

slotVars == <<state, request, id, held, result>>
ringVars == <<readySlots, readyHead, readyTail>>
gateVars == <<accepting, recovery>>
uiVars   == <<usedBlocks, nextId, outstanding, ui, acknowledged>>
svcVars  == <<svc, sends, noticed, lastTaken>>
vars     == <<slotVars, ringVars, gateVars, uiVars, svcVars>>

NoRequest == [operation |-> "none", need |-> 0]
UiIdle  == [phase |-> "idle", slot |-> NoSlot, request |-> NoRequest]
SvcIdle == [phase |-> "idle", slot |-> NoSlot, outcome |-> "none", cancelled |-> FALSE]
NoResult == [outcome |-> "none", suppressed |-> FALSE]

Running == {"Running", "CancelRunning", "Completing"}      \* runningState()
Pending == {"Ready", "CancelReady"} \cup Running           \* normalWorkPending()

Empty ==
  /\ state = [i \in Slots |-> "Free"] /\ id = [i \in Slots |-> 0]
  /\ request = [i \in Slots |-> NoRequest]
  /\ held = [i \in Slots |-> {}] /\ result = [i \in Slots |-> NoResult]
  /\ readySlots = [i \in Normal |-> 0] /\ readyHead = 0 /\ readyTail = 0
  /\ usedBlocks = {} /\ nextId = 0 /\ outstanding = 0
  /\ ui = UiIdle /\ svc = SvcIdle /\ sends = {} /\ noticed = {}
  /\ acknowledged = {} /\ lastTaken = 0

Init == Empty /\ accepting = TRUE /\ recovery = FALSE        \* begin()

-----------------------------------------------------------------------------
(* The UI: submit()                                                        *)
Admissible(r) == accepting \/ (r.operation = "Restart" /\ recovery)

SubmitCheck(r) ==
  /\ ui = UiIdle /\ Admissible(r)
  /\ ui' = [phase |-> "checked", slot |-> NoSlot, request |-> r]
  /\ UNCHANGED <<slotVars, ringVars, gateVars, usedBlocks, nextId, outstanding,
                 acknowledged, svcVars>>

(* The first free slot of the request's kind.                              *)
Candidates(r) == IF IsLifecycle(r) THEN {Lifecycle} ELSE Normal
FreeSlots(r)  == {i \in Candidates(r) : state[i] = "Free"}
FirstFree(r)  == CHOOSE i \in FreeSlots(r) : \A j \in FreeSlots(r) : i <= j

FreeBlocks   == Blocks \ usedBlocks
Fits(r)      == r.need <= Cardinality(FreeBlocks)
Allocated(r) == {b \in FreeBlocks : Cardinality({c \in FreeBlocks : c < b}) < r.need}

(* Busy, or out of request ids: nothing is kept.                           *)
LeaksBlocks(r) == usedBlocks' = usedBlocks \cup Allocated(r)  \* fault
GivesBack(r)   == UNCHANGED usedBlocks

SubmitRefused ==
  LET r == ui.request IN
  /\ ui.phase = "checked"
  /\ FreeSlots(r) = {} \/ ~Fits(r) \/ nextId = MaxId
  /\ GivesBack(r)
  /\ ui' = UiIdle
  /\ UNCHANGED <<slotVars, ringVars, gateVars, nextId, outstanding, acknowledged, svcVars>>

(* The slot is filled and becomes Ready.  A lifecycle request first closes *)
(* admission; a normal one is not in the ring yet.                         *)
SubmitReady ==
  LET r == ui.request
      i == FirstFree(r) IN
  /\ ui.phase = "checked"
  /\ FreeSlots(r) # {} /\ Fits(r) /\ nextId < MaxId
  /\ held' = [held EXCEPT ![i] = Allocated(r)] /\ usedBlocks' = usedBlocks \cup Allocated(r)
  /\ nextId' = nextId + 1 /\ id' = [id EXCEPT ![i] = nextId + 1]
  /\ request' = [request EXCEPT ![i] = r] /\ result' = [result EXCEPT ![i] = NoResult]
  /\ outstanding' = outstanding + 1
  /\ accepting' = (accepting /\ ~IsLifecycle(r))
  /\ state' = [state EXCEPT ![i] = "Ready"]
  /\ ui' = IF IsLifecycle(r) THEN UiIdle ELSE [ui EXCEPT !.phase = "ready", !.slot = i]
  /\ UNCHANGED <<ringVars, recovery, acknowledged, svcVars>>

SubmitPush ==
  /\ ui.phase = "ready"
  /\ readySlots' = [readySlots EXCEPT ![readyTail % NormalSlots] = ui.slot]
  /\ readyTail' = readyTail + 1
  /\ ui' = UiIdle
  /\ UNCHANGED <<slotVars, readyHead, gateVars, usedBlocks, nextId, outstanding,
                 acknowledged, svcVars>>

(* cancelSend(): true while the send is queued, running or cancelled.  Its *)
(* one step is the exchange that settles the loop; FALSE changes nothing.  *)
CancelSend(i) ==
  /\ ui = UiIdle /\ i \in Normal /\ request[i].operation = "Send"
  /\ state[i] \in {"Ready", "Running", "CancelReady", "CancelRunning"}
  /\ state' = [state EXCEPT ![i] = CASE @ = "Ready"   -> "CancelReady"
                                     [] @ = "Running" -> "CancelRunning"
                                     [] OTHER         -> @]
  /\ acknowledged' = acknowledged \cup {id[i]}
  /\ UNCHANGED <<request, id, held, result, ringVars, gateVars, usedBlocks, nextId,
                 outstanding, ui, svcVars>>

(* nextResult() and release(), as ServiceClient::poll calls them.          *)
Results == {i \in Slots : state[i] = "Done"}

Release(i) ==
  /\ ui = UiIdle /\ i \in Results /\ \A j \in Results : i <= j
  /\ usedBlocks' = usedBlocks \ held[i] /\ outstanding' = outstanding - 1
  /\ state' = [state EXCEPT ![i] = "Free"]
  /\ acknowledged' = acknowledged \ {id[i]}
  /\ UNCHANGED <<request, id, held, result, ringVars, gateVars, nextId, ui, svcVars>>

-----------------------------------------------------------------------------
(* The service: take()                                                     *)
Goto(p) == svc' = [svc EXCEPT !.phase = p]

(* A lifecycle request that is seen closes admission.                      *)
TakeBegin ==
  /\ svc = SvcIdle
  /\ accepting' = (accepting /\ state[Lifecycle] # "Ready")
  /\ Goto("head")
  /\ UNCHANGED <<slotVars, ringVars, recovery, uiVars, sends, noticed, lastTaken>>

NewestFirst == readySlots[(readyTail - 1) % NormalSlots]     \* fault
LowestSlot  == CHOOSE i \in Normal : /\ state[i] \in {"Ready", "CancelReady"}   \* fault
                                     /\ \A j \in Normal :
                                          state[j] \in {"Ready", "CancelReady"} => i <= j
RingHead    == readySlots[readyHead % NormalSlots]

TakeHead ==
  /\ svc.phase = "head"
  /\ IF readyHead # readyTail
     THEN /\ svc' = [svc EXCEPT !.phase = "take", !.slot = RingHead]
          /\ readyHead' = readyHead + 1
     ELSE Goto("lifecycle") /\ UNCHANGED readyHead
  /\ UNCHANGED <<slotVars, readySlots, readyTail, gateVars, uiVars, sends, noticed, lastTaken>>

(* The ring was empty.  A lifecycle request seen now was published after   *)
(* every normal one: look at the ring again before taking it.              *)
TakeLifecycle ==
  /\ svc.phase = "lifecycle"
  /\ IF state[Lifecycle] = "Ready" THEN Goto("recheck") ELSE svc' = SvcIdle
  /\ UNCHANGED <<slotVars, ringVars, gateVars, uiVars, sends, noticed,
                 lastTaken>>

Unchecked   == FALSE                                   \* fault: no second look
RingRefills == readyHead # readyTail

TakeRecheck ==
  /\ svc.phase = "recheck"
  /\ IF RingRefills \/ \E i \in Normal : state[i] \in Running
     THEN svc' = SvcIdle
     ELSE svc' = [svc EXCEPT !.phase = "take", !.slot = Lifecycle]
  /\ UNCHANGED <<slotVars, ringVars, gateVars, uiVars, sends, noticed,
                 lastTaken>>

Take ==
  /\ svc.phase = "take"
  /\ state' = [state EXCEPT ![svc.slot] =
                 IF @ = "CancelReady" THEN "CancelRunning" ELSE "Running"]
  /\ lastTaken' = IF svc.slot = Lifecycle THEN lastTaken ELSE id[svc.slot]
  /\ Goto("execute")
  /\ UNCHANGED <<request, id, held, result, ringVars, gateVars, uiVars, sends, noticed>>

(* takeLifecycle(), at the beginning of every DeviceService::poll().       *)
ClaimLifecycle ==
  /\ svc = SvcIdle /\ state[Lifecycle] = "Ready"
  /\ state' = [state EXCEPT ![Lifecycle] = "Running"]
  /\ svc' = [SvcIdle EXCEPT !.phase = "execute", !.slot = Lifecycle]
  /\ UNCHANGED <<request, id, held, result, ringVars, gateVars, uiVars, sends, noticed,
                 lastTaken>>

-----------------------------------------------------------------------------
(* The service: execute() answers at once, hands a send to the engine, or  *)
(* keeps the slot running.  A send is also refused while a maintenance     *)
(* pauses outgoing messages, which DeviceService models.                   *)
Completes(i, o) == svc' = [phase |-> "claim", slot |-> i, outcome |-> o, cancelled |-> FALSE]

CancelRequested(i) == state[i] \in {"CancelReady", "CancelRunning"}

ExecuteSend ==
  LET i == svc.slot IN
  /\ svc.phase = "execute" /\ request[i].operation = "Send"
  /\ \/ CancelRequested(i) /\ Completes(i, "Cancelled") /\ UNCHANGED sends
     \/ ~CancelRequested(i) /\ sends' = sends \cup {i} /\ svc' = SvcIdle
     \/ /\ ~CancelRequested(i) /\ UNCHANGED sends
        /\ \E o \in {"Failed", "Cancelled"} : Completes(i, o)
  /\ UNCHANGED <<slotVars, ringVars, gateVars, uiVars, noticed, lastTaken>>

ExecuteOther ==
  LET i == svc.slot IN
  /\ svc.phase = "execute" /\ request[i].operation # "Send"
  /\ \/ \E o \in {"Ok", "Failed"} : Completes(i, o)
     \/ svc' = SvcIdle
  /\ UNCHANGED <<slotVars, ringVars, gateVars, uiVars, sends, noticed,
                 lastTaken>>

(* pollSends(): tell the engine of a cancellation; later its answer is in. *)
NoticeCancel(i) ==
  /\ svc = SvcIdle /\ i \in sends \ noticed /\ CancelRequested(i)
  /\ noticed' = noticed \cup {i}
  /\ UNCHANGED <<slotVars, ringVars, gateVars, uiVars, svc, sends, lastTaken>>

(* A running slot is finished by the poll that waited for it.              *)
Finish(i) ==
  /\ svc = SvcIdle /\ state[i] \in {"Running", "CancelRunning"}
  /\ request[i].operation = "Send" => i \in sends
  /\ \E o \in {"Ok", "Failed"} : Completes(i, o)
  /\ UNCHANGED <<slotVars, ringVars, gateVars, uiVars, sends, noticed,
                 lastTaken>>

(* claimCompletion(): from here on a cancellation is refused.              *)
ClaimCompletion ==
  /\ svc.phase = "claim"
  /\ state' = [state EXCEPT ![svc.slot] = "Completing"]
  /\ svc' = [svc EXCEPT !.phase = "publish", !.cancelled = (state[svc.slot] = "CancelRunning")]
  /\ UNCHANGED <<request, id, held, result, ringVars, gateVars, uiVars, sends, noticed,
                 lastTaken>>

(* publishCompletion(): a send is suppressed if its cancellation was       *)
(* noticed before or was found by the claim.                               *)
LateCancelLost(i) == i \in noticed                           \* fault
Suppressed(i)     == i \in noticed \/ (i \in sends /\ svc.cancelled)

Settled(i)     == sends' = sends \ {i} /\ noticed' = noticed \ {i}

PublishCompletion ==
  LET i == svc.slot IN
  /\ svc.phase = "publish"
  /\ result' = [result EXCEPT ![i] =
       [outcome |-> svc.outcome, suppressed |-> Suppressed(i) \/ svc.outcome = "Cancelled"]]
  /\ state' = [state EXCEPT ![i] = "Done"]
  /\ Settled(i)
  /\ svc' = SvcIdle
  /\ UNCHANGED <<request, id, held, ringVars, gateVars, uiVars, lastTaken>>

(* allowRecovery(): after a refused owner or failed maintenance.           *)
AllowRecovery ==
  /\ svc = SvcIdle /\ ~recovery
  /\ recovery' = TRUE /\ accepting' = FALSE
  /\ UNCHANGED <<slotVars, ringVars, uiVars, svcVars>>

-----------------------------------------------------------------------------
Submitting  == SubmitRefused \/ SubmitReady \/ SubmitPush
Ui          == \/ \E r \in Requests : SubmitCheck(r)
               \/ Submitting
               \/ \E i \in Slots : CancelSend(i) \/ Release(i)
TakeStep    == TakeHead \/ TakeLifecycle \/ TakeRecheck \/ Take
ExecuteStep == ExecuteSend \/ ExecuteOther
PublishStep == ClaimCompletion \/ PublishCompletion
ServiceStep == TakeStep \/ ExecuteStep \/ PublishStep
Service     == \/ TakeBegin \/ ServiceStep \/ ClaimLifecycle
               \/ \E i \in Slots : NoticeCancel(i) \/ Finish(i)

Next == Ui \/ Service \/ AllowRecovery

Spec == Init /\ [][Next]_vars

(* The tick takes on every round and asks every kept slot for its answer;  *)
(* what a slot waits for ends.  A submit in progress ends.  The UI need    *)
(* not collect results.                                                    *)
FairSpec ==
  /\ Spec
  /\ WF_vars(Submitting) /\ WF_vars(ServiceStep)
  /\ SF_vars(TakeBegin) /\ SF_vars(ClaimLifecycle)
  /\ \A i \in Slots : SF_vars(Finish(i))

-----------------------------------------------------------------------------
Occupied == {i \in Slots : state[i] # "Free"}

(* Payload blocks belong to one occupied slot each and every other block   *)
(* is free, through refusals, cancellations and releases in any order.     *)
BlocksAccounted ==
  /\ usedBlocks = UNION {held[i] : i \in Occupied}
  /\ \A i, j \in Occupied : i # j => held[i] \cap held[j] = {}
  /\ outstanding = Cardinality(Occupied)

(* Normal requests reach the service in the order they were admitted.      *)
TakenInOrder == [][lastTaken' >= lastTaken]_lastTaken

(* take() hands out a lifecycle request only when every normal request     *)
(* admitted before it has its result: nothing is torn down under it.       *)
LifecycleLast ==
  svc.phase = "take" /\ svc.slot = Lifecycle => \A i \in Normal : state[i] \notin Pending

(* A send whose cancellation was acknowledged never ends as sent: either   *)
(* it was not saved or its transmission is reported suppressed.            *)
CancelHonoured == \A i \in Slots :
  state[i] = "Done" /\ id[i] \in acknowledged
    => result[i].outcome # "Ok" \/ result[i].suppressed

(* Every admitted request is answered, whether or not the UI collects      *)
(* the results before it.                                                  *)
AdmittedIsAnswered == \A i \in Slots : state[i] = "Ready" ~> state[i] = "Done"
=============================================================================

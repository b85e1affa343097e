--------------------------- MODULE ServiceProofs ---------------------------
(***************************************************************************)
(* Proofs about ServiceMailbox and DeviceService, for any number of slots, *)
(* blocks and requests.                                                    *)
(*                                                                         *)
(* The mailbox.  What the service task relies on at each of its positions  *)
(* (ServiceInv) and what a lifecycle request does to admission             *)
(* (AdmissionInv) come first.  The ring is then read by request id: ids    *)
(* grow from head to tail, the slot being taken is older than all of them  *)
(* and the one the UI is about to push is younger (RingInv), so slots in   *)
(* the ring are distinct and, by the pigeonhole principle, there is always *)
(* room for one more.  Every other waiting slot is in the hands of one of  *)
(* the two tasks (WaitingInv): that is why an empty ring, seen twice,      *)
(* means that no normal request is left.                                   *)
(*                                                                         *)
(* The device service takes the same steps and a few of its own (Hands,    *)
(* Gates); the mailbox invariant is proved for all of them at once and     *)
(* then used by the invariants of the maintenance.                         *)
(***************************************************************************)
EXTENDS DeviceService, FiniteSetTheorems, WellFoundedInduction, TLAPS

(* The slots of the mailbox and what the two tasks may hold.               *)
SlotStates == {"Free", "Ready", "CancelReady", "Running", "CancelRunning", "Completing", "Done"}
Outcomes   == {"none", "Ok", "Failed", "Cancelled", "NotReady"}
UiPhases   == {"idle", "checked", "ready"}
SvcPhases  == {"idle", "head", "lifecycle", "recheck", "take", "execute", "claim", "publish",
               "perform"}
Kept       == {"Running", "CancelRunning"}

UiType  == [phase : UiPhases, slot : Slots \cup {NoSlot}, request : Requests \cup {NoRequest}]
SvcType == [phase : SvcPhases, slot : Slots \cup {NoSlot}, outcome : Outcomes,
            cancelled : BOOLEAN]

MailType ==
  /\ state \in [Slots -> SlotStates] /\ id \in [Slots -> Nat]
  /\ request \in [Slots -> Requests \cup {NoRequest}]
  /\ held \in [Slots -> SUBSET Blocks]
  /\ result \in [Slots -> [outcome : Outcomes, suppressed : BOOLEAN]]
  /\ readySlots \in [Normal -> Normal] /\ readyHead \in Nat /\ readyTail \in Nat
  /\ usedBlocks \subseteq Blocks /\ nextId \in Nat /\ lastTaken \in Nat
  /\ outstanding \in Int /\ acknowledged \subseteq Nat
  /\ ui \in UiType /\ svc \in SvcType
  /\ sends \subseteq Slots /\ noticed \subseteq Slots

(* What the service task may rely on at each position.                     *)
ServiceInv ==
  /\ svc.phase \in {"take", "execute", "claim", "publish"} => svc.slot \in Slots
  /\ svc.phase = "take" => state[svc.slot] \in {"Ready", "CancelReady"}
  /\ svc.phase \in {"execute", "claim"} => state[svc.slot] \in Kept
  /\ svc.phase = "publish" => state[svc.slot] = "Completing"
  /\ \A i \in sends : i \in Normal /\ state[i] \in Running
  /\ svc.phase \in {"claim", "publish"} /\ svc.outcome = "Ok"
       /\ request[svc.slot].operation = "Send" => svc.slot \in sends

(* A lifecycle request closes admission for as long as it has its slot.    *)
AdmissionInv ==
  /\ state[Lifecycle] \notin {"CancelReady", "CancelRunning"}
  /\ state[Lifecycle] # "Free" =>
       /\ ~accepting /\ IsLifecycle(request[Lifecycle])
       /\ ui.phase # "idle" => IsLifecycle(ui.request)
  /\ svc.phase = "recheck" => state[Lifecycle] = "Ready"
  /\ ui.phase = "ready" => ~IsLifecycle(ui.request)

(* The published slots, oldest first; every other waiting slot is with one *)
(* of the two tasks.                                                       *)
InRing  == readyHead .. readyTail - 1
Ring(k) == readySlots[k % NormalSlots]
Waiting == {"Ready", "CancelReady"}
Taking  == svc.phase = "take" /\ svc.slot # Lifecycle

RingInv ==
  /\ readyHead <= readyTail /\ readyTail <= readyHead + NormalSlots
  /\ \A k \in InRing : state[Ring(k)] \in Waiting /\ lastTaken < id[Ring(k)]
  /\ \A k, l \in InRing : k < l => id[Ring(k)] < id[Ring(l)]
  /\ Taking => lastTaken < id[svc.slot] /\ \A k \in InRing : id[svc.slot] < id[Ring(k)]
  /\ ui.phase = "ready" =>
       /\ ui.slot \in Normal /\ state[ui.slot] \in Waiting /\ id[ui.slot] = nextId
       /\ lastTaken < nextId
       /\ Taking => id[svc.slot] < nextId
       /\ \A k \in InRing : id[Ring(k)] < nextId
  /\ lastTaken <= nextId /\ \A i \in Slots : id[i] <= nextId

WaitingInv == \A i \in Normal : state[i] \in Waiting =>
  \/ ui.phase = "ready" /\ ui.slot = i
  \/ Taking /\ svc.slot = i
  \/ \E k \in InRing : Ring(k) = i

(* An acknowledged cancellation stays with its request until it is told.   *)
CancelInv ==
  /\ \A n \in acknowledged : n <= nextId
  /\ \A i, j \in Occupied : id[i] = id[j] => i = j
  /\ \A i \in Occupied : id[i] \in acknowledged =>
       /\ request[i].operation = "Send"
       /\ state[i] \in {"CancelReady", "CancelRunning", "Completing", "Done"}
  /\ svc.phase = "publish" /\ id[svc.slot] \in acknowledged => svc.cancelled
  /\ CancelHonoured

-----------------------------------------------------------------------------
(* One more step of the service task than the mailbox itself has: with     *)
(* nothing else changed it becomes idle, goes on to the maintenance        *)
(* operation, or answers the lifecycle request that is running.            *)
Hands ==
  /\ svc.phase \in {"idle", "execute", "perform"}
  /\ UNCHANGED <<slotVars, ringVars, accepting, uiVars, sends, noticed, lastTaken>>
  /\ \/ svc' = SvcIdle
     \/ Goto("perform")
     \/ state[Lifecycle] \in Kept /\ \E o \in Outcomes : Completes(Lifecycle, o)

(* Admission may open only while no lifecycle request has the slot.        *)
Gates ==
  /\ UNCHANGED <<slotVars, ringVars, uiVars, svcVars>>
  /\ accepting' => state[Lifecycle] = "Free"

(* Every step of the mailbox, alone or driven by the device service.       *)
MailStep == Ui \/ Service \/ Hands \/ Gates

-----------------------------------------------------------------------------
(* The reserved slot is none of the normal ones.                           *)
LEMMA SlotFacts ==
  /\ Lifecycle \in Slots /\ Lifecycle \notin Normal /\ Normal \subseteq Slots
  /\ \A i \in Slots : i \in Normal \/ i = Lifecycle
  /\ NoSlot \notin Slots /\ NormalSlots \in Nat \ {0} /\ Slots \subseteq Nat
BY MailboxAssumption DEF Lifecycle, Normal, Slots, NoSlot

(* Every nonempty set of naturals has a least element.                     *)
LEMMA Least ==
  ASSUME NEW T, T \subseteq Nat, T # {}
  PROVE  \E x \in T : \A y \in T : x <= y
<1> DEFINE Less == OpToRel(<, Nat)
<1>1. IsWellFoundedOn(Less, Nat)
  BY NatLessThanWellFounded
<1>2. \A x, y \in Nat : y < x => <<y, x>> \in Less
  BY DEF OpToRel
<1> HIDE DEF Less
<1>3. PICK x \in T : \A y \in T : ~(<<y, x>> \in Less)
  BY <1>1, WFMin, Zenon
<1>4. ASSUME NEW y \in T PROVE ~(y < x)
  BY <1>2, <1>3, Zenon
<1>5. ASSUME NEW y \in T PROVE x <= y
  <2>1. ~(y < x) /\ x \in Nat /\ y \in Nat
    BY <1>4, Zenon
  <2> QED
    BY <2>1
<1> QED
  BY <1>5

(* submit() finds a free slot of the request's kind if there is one.       *)
LEMMA FreeSlotFound ==
  ASSUME NEW r, FreeSlots(r) # {}
  PROVE  /\ FirstFree(r) \in Slots /\ state[FirstFree(r)] = "Free"
         /\ FirstFree(r) = Lifecycle <=> IsLifecycle(r)
<1>1. FreeSlots(r) \subseteq Nat
  BY SlotFacts, Zenon DEF FreeSlots, Candidates
<1>2. \E i \in FreeSlots(r) : \A j \in FreeSlots(r) : i <= j
  BY <1>1, Least, Zenon
<1>3. FirstFree(r) \in FreeSlots(r)
  BY <1>2, Zenon DEF FirstFree
<1> QED
  BY <1>3, SlotFacts, Zenon DEF FreeSlots, Candidates

(* What submit() does when it keeps a request.                             *)
Fills(i, r) ==
  /\ ui.phase = "checked"
  /\ i \in Slots /\ state[i] = "Free" /\ (i = Lifecycle <=> IsLifecycle(r))
  /\ held' = [held EXCEPT ![i] = Allocated(r)] /\ usedBlocks' = usedBlocks \cup Allocated(r)
  /\ nextId' = nextId + 1 /\ id' = [id EXCEPT ![i] = nextId + 1]
  /\ request' = [request EXCEPT ![i] = r] /\ result' = [result EXCEPT ![i] = NoResult]
  /\ outstanding' = outstanding + 1
  /\ accepting' = (accepting /\ ~IsLifecycle(r))
  /\ state' = [state EXCEPT ![i] = "Ready"]
  /\ ui' = IF IsLifecycle(r) THEN UiIdle ELSE [ui EXCEPT !.phase = "ready", !.slot = i]
  /\ UNCHANGED <<ringVars, recovery, acknowledged, svcVars>>

LEMMA SubmitFills ==
  ASSUME SubmitReady
  PROVE  \E i : Fills(i, ui.request)
<1> DEFINE r == ui.request
<1>1. FreeSlots(r) # {}
  BY Zenon DEF SubmitReady
<1>2. Fills(FirstFree(r), r)
  BY <1>1, FreeSlotFound, Zenon DEF SubmitReady, Fills
<1> QED
  BY <1>2, Zenon

-----------------------------------------------------------------------------
(* The steps in groups: what the service does without touching a slot, and *)
(* the steps that change one.                                              *)
ServiceOnly ==
  /\ UNCHANGED <<slotVars, ringVars, uiVars, lastTaken>>
  /\ TakeBegin \/ TakeLifecycle \/ TakeRecheck \/ ExecuteSend \/ ExecuteOther
     \/ (\E i \in Slots : NoticeCancel(i) \/ Finish(i)) \/ Hands \/ Gates

UiStep ==
  \/ \E r \in Requests : SubmitCheck(r)
  \/ SubmitRefused \/ (\E i : Fills(i, ui.request)) \/ SubmitPush
  \/ \E i \in Slots : CancelSend(i) \/ Release(i)

SlotStep ==
  \/ TakeHead \/ Take \/ ClaimLifecycle \/ ClaimCompletion \/ PublishCompletion

LEMMA UiSteps == Ui => UiStep
BY SubmitFills, Zenon DEF Ui, Submitting, UiStep

LEMMA StepKinds == MailStep => UiStep \/ ServiceOnly \/ SlotStep
<1>1. Ui => UiStep
  BY UiSteps
<1>2. Service => ServiceOnly \/ SlotStep
  BY Zenon DEF Service, ServiceStep, TakeStep, ExecuteStep, PublishStep, ServiceOnly, SlotStep,
        TakeBegin, TakeLifecycle, TakeRecheck, ExecuteSend, ExecuteOther, NoticeCancel, Finish,
        gateVars
<1>3. Hands \/ Gates => ServiceOnly
  BY Zenon DEF Hands, Gates, ServiceOnly, svcVars
<1> QED
  BY <1>1, <1>2, <1>3 DEF MailStep

-----------------------------------------------------------------------------
(* The types.                                                              *)
LEMMA MailTypeInit == Empty => MailType
BY SlotFacts, SMT DEF Empty, MailType, UiType, SvcType, SlotStates, Outcomes, UiPhases, SvcPhases,
     NoResult, UiIdle, SvcIdle, Blocks, Normal, MailboxAssumption

(* The index a slot gets in the ring.                                      *)
LEMMA RingIndexTyped == \A k \in Nat : k % NormalSlots \in Normal
<1> SUFFICES ASSUME NEW k \in Nat PROVE k % NormalSlots \in Normal
  OBVIOUS
<1> DEFINE n == NormalSlots
<1>1. n \in Nat \ {0}
  BY SlotFacts
<1> HIDE DEF n
<1>2. k % n \in 0 .. n - 1
  BY <1>1
<1> QED
  BY <1>2 DEF n, Normal

LEMMA TypeFills ==
  ASSUME MailType, NEW i, NEW r, Fills(i, r), r \in Requests \cup {NoRequest}
  PROVE  MailType'
<1> USE DEF Fills
<1>1. Allocated(r) \subseteq Blocks
  BY Zenon DEF Allocated, FreeBlocks
<1>2. held' \in [Slots -> SUBSET Blocks] /\ usedBlocks' \subseteq Blocks
  BY <1>1 DEF MailType
<1>3. state' \in [Slots -> SlotStates] /\ id' \in [Slots -> Nat] /\ nextId' \in Nat
      /\ outstanding' \in Int
  BY DEF MailType, SlotStates
<1>4. request' \in [Slots -> Requests \cup {NoRequest}]
  BY DEF MailType
<1>5. NoResult \in [outcome : Outcomes, suppressed : BOOLEAN]
  BY DEF NoResult, Outcomes
<1>6. result' \in [Slots -> [outcome : Outcomes, suppressed : BOOLEAN]]
  BY <1>5, Zenon DEF MailType
<1>7. ui' \in UiType
  BY DEF MailType, UiType, UiIdle, UiPhases
<1> QED
  BY <1>2, <1>3, <1>4, <1>6, <1>7 DEF MailType, UiType, ringVars, svcVars

LEMMA TypeUi ==
  ASSUME MailType, UiStep, ui.phase = "ready" => ui.slot \in Normal
  PROVE  MailType'
<1>1. CASE \E r \in Requests : SubmitCheck(r)
  <2>1. ui' \in UiType
    BY <1>1 DEF SubmitCheck, UiType, UiPhases
  <2> QED
    BY <1>1, <2>1 DEF MailType, SubmitCheck, slotVars, ringVars, svcVars
<1>2. CASE SubmitRefused
  <2>1. ui' \in UiType
    BY <1>2 DEF SubmitRefused, UiType, UiPhases, UiIdle
  <2> QED
    BY <1>2, <2>1 DEF MailType, SubmitRefused, slotVars, ringVars, svcVars, GivesBack
<1>3. CASE \E i : Fills(i, ui.request)
  <2>1. ui.request \in Requests \cup {NoRequest}
    BY DEF MailType, UiType
  <2> QED
    BY <1>3, <2>1, TypeFills
<1>4. CASE SubmitPush
  <2>1. ui' \in UiType /\ readyTail' \in Nat
    BY <1>4 DEF SubmitPush, UiType, UiIdle, UiPhases, MailType
  <2>2. readySlots' \in [Normal -> Normal]
    <3> DEFINE n == readyTail % NormalSlots
    <3>1. n \in Normal
      BY RingIndexTyped DEF MailType
    <3> HIDE DEF n
    <3>2. readySlots' = [readySlots EXCEPT ![n] = ui.slot] /\ ui.slot \in Normal
      BY <1>4 DEF SubmitPush, n
    <3>3. readySlots \in [Normal -> Normal]
      BY DEF MailType
    <3> QED
      BY <3>1, <3>2, <3>3
  <2> QED
    BY <1>4, <2>1, <2>2 DEF MailType, SubmitPush, slotVars, svcVars
<1>5. CASE \E i \in Slots : CancelSend(i)
  BY <1>5 DEF MailType, CancelSend, SlotStates, ringVars, svcVars
<1>6. CASE \E i \in Slots : Release(i)
  <2> PICK i \in Slots : Release(i)
    BY <1>6
  <2>1. state' \in [Slots -> SlotStates]
    BY DEF Release, MailType, SlotStates
  <2>2. outstanding' \in Int
    BY DEF Release, MailType
  <2>3. usedBlocks' \subseteq Blocks /\ acknowledged' \subseteq Nat
    BY Zenon DEF Release, MailType
  <2> QED
    BY <2>1, <2>2, <2>3 DEF MailType, Release, ringVars, svcVars
<1> QED
  BY <1>1, <1>2, <1>3, <1>4, <1>5, <1>6 DEF UiStep

Answer(i, o) == [phase |-> "claim", slot |-> i, outcome |-> o, cancelled |-> FALSE]

LEMMA ServicePositions ==
  ASSUME svc \in SvcType
  PROVE  /\ SvcIdle \in SvcType
         /\ \A i \in Slots, o \in Outcomes : Answer(i, o) \in SvcType
         /\ \A p \in SvcPhases : [svc EXCEPT !.phase = p] \in SvcType
         /\ \A i \in Slots : [svc EXCEPT !.phase = "take", !.slot = i] \in SvcType
<1>1. "idle" \in SvcPhases /\ "claim" \in SvcPhases /\ "take" \in SvcPhases /\ "none" \in Outcomes
  BY DEF SvcPhases, Outcomes
<1>2. SvcIdle \in SvcType
  BY <1>1 DEF SvcIdle, SvcType
<1>3. \A i \in Slots, o \in Outcomes : Answer(i, o) \in SvcType
  BY <1>1 DEF Answer, SvcType
<1>4. \A p \in SvcPhases : [svc EXCEPT !.phase = p] \in SvcType
  BY DEF SvcType
<1>5. ASSUME NEW i \in Slots PROVE [svc EXCEPT !.phase = "take", !.slot = i] \in SvcType
  BY <1>1 DEF SvcType
<1> QED
  BY <1>2, <1>3, <1>4, <1>5

LEMMA TypeServiceOnly ==
  ASSUME MailType, ServiceOnly,
         svc.phase = "execute" => svc.slot \in Slots
  PROVE  MailType'
<1>1. svc' \in SvcType
  <2>1. svc \in SvcType
    BY DEF MailType, SvcType
  <2>2. SvcIdle \in SvcType
    BY <2>1, ServicePositions, Zenon DEF SvcType
  <2>3. ASSUME NEW p \in SvcPhases, Goto(p) PROVE svc' \in SvcType
    BY <2>1, <2>3, ServicePositions, Zenon DEF Goto, SvcType
  <2>4. ASSUME NEW i \in Slots, NEW o \in Outcomes, Completes(i, o) PROVE svc' \in SvcType
    BY <2>1, <2>4, ServicePositions, Zenon DEF Completes, Answer, SvcType
  <2>5. /\ "head" \in SvcPhases /\ "lifecycle" \in SvcPhases /\ "recheck" \in SvcPhases
        /\ "take" \in SvcPhases /\ "perform" \in SvcPhases
        /\ "Ok" \in Outcomes /\ "Failed" \in Outcomes /\ "Cancelled" \in Outcomes
    BY DEF SvcPhases, Outcomes
  <2>6. CASE TakeBegin \/ TakeLifecycle
    BY <2>2, <2>3, <2>5, <2>6, Zenon DEF TakeBegin, TakeLifecycle, SvcType
  <2>7. CASE TakeRecheck
    <3>1. [svc EXCEPT !.phase = "take", !.slot = Lifecycle] \in SvcType
      BY <2>1, ServicePositions, SlotFacts, Zenon
    <3> QED
      BY <2>2, <2>7, <3>1, Zenon DEF TakeRecheck
  <2>8. CASE ExecuteSend
    BY <2>2, <2>4, <2>5, <2>8, Zenon DEF ExecuteSend, SvcType
  <2>9. CASE ExecuteOther
    BY <2>2, <2>4, <2>5, <2>9, Zenon DEF ExecuteOther, SvcType
  <2>10. CASE \E i \in Slots : NoticeCancel(i) \/ Finish(i)
    BY <2>1, <2>4, <2>5, <2>10, Zenon DEF NoticeCancel, Finish, SvcType
  <2>11. CASE Hands
    BY <2>2, <2>3, <2>4, <2>5, <2>11, SlotFacts, Zenon DEF Hands, SvcType
  <2>12. CASE Gates
    BY <2>1, <2>12, Zenon DEF Gates, svcVars, SvcType
  <2> QED
    BY <2>6, <2>7, <2>8, <2>9, <2>10, <2>11, <2>12, Zenon DEF ServiceOnly
<1>2. sends' \subseteq Slots /\ noticed' \subseteq Slots
  <2>1. CASE ExecuteSend
    BY <2>1 DEF ExecuteSend, MailType
  <2>2. CASE \E i \in Slots : NoticeCancel(i) \/ Finish(i)
    BY <2>2 DEF NoticeCancel, Finish, MailType
  <2>3. CASE TakeBegin \/ TakeLifecycle \/ TakeRecheck \/ ExecuteOther \/ Hands \/ Gates
    BY <2>3 DEF TakeBegin, TakeLifecycle, TakeRecheck, ExecuteOther, Hands, Gates, svcVars, MailType
  <2> QED
    BY <2>1, <2>2, <2>3 DEF ServiceOnly
<1>3. UNCHANGED <<slotVars, ringVars, uiVars, lastTaken>>
  BY DEF ServiceOnly
<1> QED
  BY <1>1, <1>2, <1>3 DEF MailType, SvcType, slotVars, ringVars, uiVars

LEMMA TypeSlotStep ==
  ASSUME MailType, ServiceInv, SlotStep
  PROVE  MailType'
<1>1. CASE TakeHead
  <2>1. svc' \in SvcType /\ readyHead' \in Nat
    <3>1. readySlots[readyHead % NormalSlots] \in Slots
      BY RingIndexTyped, SlotFacts DEF MailType
    <3>2. svc \in SvcType /\ "lifecycle" \in SvcPhases
      BY DEF MailType, SvcType, SvcPhases
    <3>3. [svc EXCEPT !.phase = "lifecycle"] \in SvcType
      BY <3>2, ServicePositions, Zenon
    <3>4. [svc EXCEPT !.phase = "take", !.slot = RingHead] \in SvcType
      BY <3>1, <3>2, ServicePositions, Zenon DEF RingHead
    <3>5. svc' \in SvcType
      BY <1>1, <3>3, <3>4, Zenon DEF TakeHead, Goto
    <3>6. readyHead' \in Nat
      BY <1>1 DEF TakeHead, MailType
    <3> QED
      BY <3>5, <3>6, Zenon DEF SvcType
  <2> QED
    BY <1>1, <2>1 DEF TakeHead, MailType, SvcType, slotVars, uiVars
<1>2. CASE Take
  <2>1. svc' \in SvcType
    <3>1. "execute" \in SvcPhases /\ svc \in SvcType
      BY DEF SvcPhases, MailType
    <3> QED
      BY <1>2, <3>1, ServicePositions, Zenon DEF Take, Goto
  <2>2. state' \in [Slots -> SlotStates] /\ lastTaken' \in Nat
    BY <1>2 DEF Take, MailType, ServiceInv, SlotStates
  <2> QED
    BY <1>2, <2>1, <2>2 DEF Take, MailType, ringVars, uiVars
<1>3. CASE ClaimLifecycle
  <2>1. svc' \in SvcType
    BY <1>3, SlotFacts DEF ClaimLifecycle, SvcType, SvcIdle, SvcPhases, Outcomes
  <2>2. state' \in [Slots -> SlotStates]
    BY <1>3 DEF ClaimLifecycle, MailType, SlotStates
  <2> QED
    BY <1>3, <2>1, <2>2 DEF ClaimLifecycle, MailType, ringVars, uiVars
<1>4. CASE ClaimCompletion
  <2>1. svc' \in SvcType
    <3>1. "publish" \in SvcPhases /\ svc \in SvcType
      BY DEF SvcPhases, MailType
    <3>2. (state[svc.slot] = "CancelRunning") \in BOOLEAN
      OBVIOUS
    <3>3. \A c \in BOOLEAN : [svc EXCEPT !.phase = "publish", !.cancelled = c] \in SvcType
      BY <3>1 DEF SvcType
    <3> QED
      BY <1>4, <3>2, <3>3, Zenon DEF ClaimCompletion
  <2>2. state' \in [Slots -> SlotStates]
    BY <1>4 DEF ClaimCompletion, MailType, SlotStates
  <2> QED
    BY <1>4, <2>1, <2>2 DEF ClaimCompletion, MailType, ringVars, uiVars
<1>5. CASE PublishCompletion
  <2>1. svc' \in SvcType
    BY <1>5, ServicePositions, Zenon DEF PublishCompletion, MailType
  <2>2. state' \in [Slots -> SlotStates]
    BY <1>5 DEF PublishCompletion, MailType, SlotStates
  <2>3. result' \in [Slots -> [outcome : Outcomes, suppressed : BOOLEAN]]
    <3> DEFINE c == Suppressed(svc.slot) \/ svc.outcome = "Cancelled"
    <3>2. c \in BOOLEAN
      BY Zenon DEF Suppressed
    <3> HIDE DEF c
    <3>3. svc.outcome \in Outcomes
      BY DEF MailType, SvcType
    <3>4. [outcome |-> svc.outcome, suppressed |-> c] \in [outcome : Outcomes, suppressed : BOOLEAN]
      BY <3>2, <3>3
    <3>5. result' = [result EXCEPT ![svc.slot] = [outcome |-> svc.outcome, suppressed |-> c]]
      BY <1>5, Zenon DEF PublishCompletion, c
    <3> QED
      BY <3>4, <3>5, Zenon DEF MailType
  <2>4. sends' \subseteq Slots /\ noticed' \subseteq Slots
    BY <1>5, Zenon DEF PublishCompletion, Settled, MailType
  <2> QED
    BY <1>5, <2>1, <2>2, <2>3, <2>4 DEF PublishCompletion, MailType, ringVars, uiVars
<1> QED
  BY <1>1, <1>2, <1>3, <1>4, <1>5 DEF SlotStep

-----------------------------------------------------------------------------
(* What the service task may rely on at each of its positions.             *)
LEMMA MailTypeFacts ==
  ASSUME MailType
  PROVE  /\ state \in [Slots -> SlotStates] /\ request \in [Slots -> Requests \cup {NoRequest}]
         /\ id \in [Slots -> Nat] /\ sends \subseteq Slots
         /\ svc \in SvcType /\ ui \in UiType
BY DEF MailType

(* cancelSend() marks one slot and no other.                               *)
LEMMA CancelMarks ==
  ASSUME MailType, NEW i \in Slots, CancelSend(i)
  PROVE  /\ \A j \in Slots :
              \/ state'[j] = state[j]
              \/ j = i /\ state[j] = "Ready" /\ state'[j] = "CancelReady"
              \/ j = i /\ state[j] = "Running" /\ state'[j] = "CancelRunning"
         /\ state'[i] \notin {"Ready", "Running"}
<1> DEFINE v == CASE state[i] = "Ready"   -> "CancelReady"
                  [] state[i] = "Running" -> "CancelRunning"
                  [] OTHER                -> state[i]
<1>1. state' = [state EXCEPT ![i] = v] /\ state \in [Slots -> SlotStates]
  BY MailTypeFacts DEF CancelSend
<1>2. /\ state[i] = "Ready" => v = "CancelReady"
      /\ state[i] = "Running" => v = "CancelRunning"
      /\ state[i] \notin {"Ready", "Running"} => v = state[i]
  OBVIOUS
<1> HIDE DEF v
<1>3. state'[i] = v /\ \A j \in Slots : j # i => state'[j] = state[j]
  BY <1>1
<1> QED
  BY <1>2, <1>3

LEMMA ServiceUi ==
  ASSUME MailType, ServiceInv, UiStep
  PROVE  ServiceInv'
<1> USE MailTypeFacts, SlotFacts
<1>1. CASE \E r \in Requests : SubmitCheck(r)
  BY <1>1 DEF ServiceInv, SubmitCheck, slotVars, svcVars
<1>2. CASE SubmitRefused
  BY <1>2 DEF ServiceInv, SubmitRefused, slotVars, svcVars
<1>3. CASE \E i : Fills(i, ui.request)
  <2> PICK i : Fills(i, ui.request)
    BY <1>3
  <2>1. \A j \in Slots : state[j] # "Free" => state'[j] = state[j] /\ request'[j] = request[j]
    BY DEF Fills
  <2> QED
    BY <2>1 DEF ServiceInv, Fills, svcVars, Kept, Running
<1>4. CASE SubmitPush
  BY <1>4 DEF ServiceInv, SubmitPush, slotVars, svcVars
<1>5. CASE \E i \in Slots : CancelSend(i)
  <2> PICK i \in Slots : CancelSend(i)
    BY <1>5
  <2>1. \A j \in Slots : \/ state'[j] = state[j]
                         \/ state[j] = "Ready" /\ state'[j] = "CancelReady"
                         \/ state[j] = "Running" /\ state'[j] = "CancelRunning"
    BY CancelMarks
  <2> QED
    BY <2>1 DEF ServiceInv, CancelSend, svcVars, Kept, Running
<1>6. CASE \E i \in Slots : Release(i)
  <2> PICK i \in Slots : Release(i)
    BY <1>6
  <2>1. \A j \in Slots : state[j] # "Done" => state'[j] = state[j]
    BY DEF Release, Results
  <2> QED
    BY <2>1 DEF ServiceInv, Release, svcVars, Kept, Running
<1> QED
  BY <1>1, <1>2, <1>3, <1>4, <1>5, <1>6 DEF UiStep

LEMMA ServiceAlone ==
  ASSUME MailType, ServiceInv, AdmissionInv, ServiceOnly
  PROVE  ServiceInv'
<1> USE MailTypeFacts, SlotFacts
<1>0. UNCHANGED <<state, request>>
  BY DEF ServiceOnly, slotVars
<1>1. CASE TakeBegin \/ TakeLifecycle \/ Gates
  <2>1. /\ svc'.phase \notin {"take", "execute", "claim", "publish"} \/ svc' = svc
        /\ sends' = sends
    <3>1. CASE TakeBegin
      BY <3>1 DEF TakeBegin, Goto, SvcType
    <3>2. CASE TakeLifecycle
      BY <3>2 DEF TakeLifecycle, Goto, SvcIdle, SvcType
    <3>3. CASE Gates
      BY <3>3 DEF Gates, svcVars
    <3> QED
      BY <1>1, <3>1, <3>2, <3>3
  <2> QED
    BY <1>0, <2>1 DEF ServiceInv
<1>2. CASE TakeRecheck
  <2>1. CASE svc' = SvcIdle
    BY <1>0, <1>2, <2>1 DEF TakeRecheck, SvcIdle, ServiceInv
  <2>2. CASE svc' = [svc EXCEPT !.phase = "take", !.slot = Lifecycle]
    <3>1. svc'.phase = "take" /\ svc'.slot = Lifecycle
      BY <2>2 DEF SvcType
    <3>2. state[Lifecycle] = "Ready" /\ sends' = sends
      BY <1>2 DEF TakeRecheck, AdmissionInv
    <3> QED
      BY <1>0, <3>1, <3>2 DEF ServiceInv
  <2> QED
    BY <1>2, <2>1, <2>2 DEF TakeRecheck
<1>3. CASE ExecuteSend
  <2>1. svc.slot \in Normal /\ state[svc.slot] \in Kept /\ svc.slot \in Slots
    <3>1. svc.slot \in Slots /\ state[svc.slot] \in Kept
      BY <1>3 DEF ExecuteSend, ServiceInv
    <3>2. svc.slot # Lifecycle
      BY <1>3, <3>1 DEF ExecuteSend, AdmissionInv, IsLifecycle, Kept
    <3> QED
      BY <3>1, <3>2
  <2> QED
    BY <1>0, <1>3, <2>1 DEF ExecuteSend, Completes, SvcIdle, ServiceInv, Running, Kept
<1>4. CASE ExecuteOther
  BY <1>0, <1>4 DEF ExecuteOther, Completes, SvcIdle, ServiceInv
<1>5. CASE \E i \in Slots : NoticeCancel(i)
  BY <1>0, <1>5 DEF NoticeCancel, ServiceInv
<1>6. CASE \E i \in Slots : Finish(i)
  BY <1>0, <1>6 DEF Finish, Completes, ServiceInv, Kept
<1>7. CASE Hands
  BY <1>0, <1>7 DEF Hands, Completes, SvcIdle, ServiceInv, AdmissionInv, IsLifecycle, Kept, Goto, SvcType
<1> QED
  BY <1>1, <1>2, <1>3, <1>4, <1>5, <1>6, <1>7 DEF ServiceOnly

LEMMA ServiceSlots ==
  ASSUME MailType, ServiceInv, RingInv, SlotStep
  PROVE  ServiceInv'
<1> USE MailTypeFacts, SlotFacts
<1>1. CASE TakeHead
  <2>1. CASE readyHead = readyTail
    BY <1>1, <2>1 DEF TakeHead, Goto, ServiceInv, slotVars, SvcType
  <2>2. CASE readyHead # readyTail
    <3>1. readyHead \in InRing
      BY <2>2 DEF RingInv, InRing, MailType
    <3>2. RingHead \in Slots /\ state[RingHead] \in Waiting
      <4>1. RingHead = Ring(readyHead)
        BY DEF RingHead, Ring
      <4>2. Ring(readyHead) \in Normal
        BY RingIndexTyped DEF Ring, MailType
      <4> QED
        BY <3>1, <4>1, <4>2 DEF RingInv
    <3> QED
      BY <1>1, <2>2, <3>2 DEF TakeHead, ServiceInv, slotVars, SvcType, Waiting
  <2> QED
    BY <2>1, <2>2
<1>2. CASE Take
  BY <1>2 DEF Take, Goto, ServiceInv, SvcType, Kept, Running
<1>3. CASE ClaimLifecycle
  BY <1>3 DEF ClaimLifecycle, SvcIdle, ServiceInv, Kept, Running
<1>4. CASE ClaimCompletion
  BY <1>4 DEF ClaimCompletion, ServiceInv, SvcType, Kept, Running
<1>5. CASE PublishCompletion
  BY <1>5 DEF PublishCompletion, Settled, SvcIdle, ServiceInv, Running
<1> QED
  BY <1>1, <1>2, <1>3, <1>4, <1>5 DEF SlotStep

-----------------------------------------------------------------------------
(* Admission is closed while a lifecycle request has its slot.             *)
LEMMA AdmissionUi ==
  ASSUME MailType, AdmissionInv, UiStep
  PROVE  AdmissionInv'
<1> USE MailTypeFacts, SlotFacts
<1>1. CASE \E r \in Requests : SubmitCheck(r)
  <2> PICK r \in Requests : SubmitCheck(r)
    BY <1>1
  <2>1. ~accepting => IsLifecycle(r)
    BY DEF SubmitCheck, Admissible, IsLifecycle
  <2>2. ui'.phase = "checked" /\ ui'.request = r
    BY DEF SubmitCheck
  <2>3. UNCHANGED <<state, request, svc, accepting>>
    BY DEF SubmitCheck, slotVars, svcVars, gateVars
  <2> QED
    BY <2>1, <2>2, <2>3, Zenon DEF AdmissionInv, IsLifecycle
<1>2. CASE SubmitRefused
  <2>1. UNCHANGED <<state, request, svc, accepting>> /\ ui' = UiIdle /\ UiIdle.phase = "idle"
    BY <1>2 DEF SubmitRefused, slotVars, svcVars, gateVars, UiIdle
  <2> QED
    BY <2>1 DEF AdmissionInv, IsLifecycle
<1>3. CASE \E i : Fills(i, ui.request)
  <2> PICK i : Fills(i, ui.request)
    BY <1>3
  <2> DEFINE r == ui.request
  <2>1. \A j \in Slots : j # i => state'[j] = state[j] /\ request'[j] = request[j]
    BY DEF Fills
  <2>2. state'[i] = "Ready" /\ request'[i] = r /\ state[i] = "Free" /\ i \in Slots /\ svc' = svc
    BY DEF Fills, svcVars
  <2>3. CASE IsLifecycle(r)
    <3>1. i = Lifecycle /\ ~accepting' /\ ui' = UiIdle
      BY <2>3, Zenon DEF Fills
    <3>2. UiIdle.phase = "idle"
      BY DEF UiIdle
    <3> QED
      BY <2>2, <2>3, <3>1, <3>2, Zenon DEF AdmissionInv, IsLifecycle
  <2>4. CASE ~IsLifecycle(r)
    <3>1. i # Lifecycle /\ accepting' = (accepting /\ ~IsLifecycle(r))
          /\ ui' = [ui EXCEPT !.phase = "ready", !.slot = i]
      BY <2>4, Zenon DEF Fills
    <3>2. ui'.request = r /\ ui'.phase = "ready"
      BY <3>1 DEF UiType
    <3>3. state'[Lifecycle] = state[Lifecycle] /\ request'[Lifecycle] = request[Lifecycle]
      BY <2>1, <3>1
    <3>4. state[Lifecycle] = "Free"
      <4>1. ui.phase # "idle"
        BY DEF Fills
      <4> QED
        BY <2>4, <4>1, Zenon DEF AdmissionInv
    <3> QED
      BY <2>2, <2>4, <3>2, <3>3, <3>4 DEF AdmissionInv, IsLifecycle
  <2> QED
    BY <2>3, <2>4
<1>4. CASE SubmitPush
  <2>1. UNCHANGED <<state, request, svc, accepting>> /\ ui' = UiIdle /\ UiIdle.phase = "idle"
    BY <1>4 DEF SubmitPush, slotVars, svcVars, gateVars, UiIdle
  <2> QED
    BY <2>1 DEF AdmissionInv, IsLifecycle
<1>5. CASE \E i \in Slots : CancelSend(i)
  <2> PICK i \in Slots : CancelSend(i)
    BY <1>5
  <2>1. state'[Lifecycle] = state[Lifecycle]
    BY CancelMarks DEF CancelSend
  <2>2. UNCHANGED <<request, svc, accepting, ui>>
    BY DEF CancelSend, svcVars, gateVars
  <2> QED
    BY <2>1, <2>2 DEF AdmissionInv, IsLifecycle
<1>6. CASE \E i \in Slots : Release(i)
  <2> PICK i \in Slots : Release(i)
    BY <1>6
  <2>1. state'[Lifecycle] \in {"Free", state[Lifecycle]} /\ (state[Lifecycle] = "Ready" => state'[Lifecycle] = "Ready")
    BY DEF Release, Results
  <2>2. UNCHANGED <<request, svc, accepting, ui>>
    BY DEF Release, svcVars, gateVars
  <2> QED
    BY <2>1, <2>2 DEF AdmissionInv, IsLifecycle
<1> QED
  BY <1>1, <1>2, <1>3, <1>4, <1>5, <1>6 DEF UiStep

LEMMA AdmissionAlone ==
  ASSUME MailType, ServiceInv, AdmissionInv, ServiceOnly
  PROVE  AdmissionInv'
<1> USE MailTypeFacts, SlotFacts
<1>1. UNCHANGED <<state, request, ui>>
  BY DEF ServiceOnly, slotVars, uiVars
<1>2. svc'.phase = "recheck" => state[Lifecycle] = "Ready"
  <2>1. CASE TakeBegin
    BY <2>1 DEF TakeBegin, Goto, SvcType
  <2>2. CASE TakeLifecycle
    BY <2>2 DEF TakeLifecycle, Goto, SvcType, SvcIdle
  <2>3. CASE TakeRecheck
    <3>1. svc' = SvcIdle \/ svc' = [svc EXCEPT !.phase = "take", !.slot = Lifecycle]
      BY <2>3 DEF TakeRecheck
    <3>2. SvcIdle.phase = "idle" /\ [svc EXCEPT !.phase = "take", !.slot = Lifecycle].phase = "take"
      BY DEF SvcType, SvcIdle
    <3> QED
      BY <3>1, <3>2
  <2>4. CASE ExecuteSend \/ ExecuteOther
    BY <2>4 DEF ExecuteSend, ExecuteOther, Completes, SvcIdle
  <2>5. CASE \E i \in Slots : NoticeCancel(i) \/ Finish(i)
    BY <2>5 DEF NoticeCancel, Finish, Completes, SvcIdle
  <2>6. CASE Hands
    BY <2>6 DEF Hands, Completes, SvcIdle, Goto, SvcType
  <2>7. CASE Gates
    BY <2>7 DEF Gates, AdmissionInv, svcVars
  <2> QED
    BY <2>1, <2>2, <2>3, <2>4, <2>5, <2>6, <2>7 DEF ServiceOnly
<1>3. state[Lifecycle] # "Free" => (~accepting => ~accepting')
  BY Zenon DEF ServiceOnly, TakeBegin, TakeLifecycle, TakeRecheck, ExecuteSend, ExecuteOther, NoticeCancel,
      Finish, Hands, Gates, gateVars
<1> QED
  BY <1>1, <1>2, <1>3, Zenon DEF AdmissionInv, IsLifecycle

LEMMA AdmissionSlots ==
  ASSUME MailType, ServiceInv, AdmissionInv, RingInv, SlotStep
  PROVE  AdmissionInv'
<1> USE MailTypeFacts, SlotFacts
<1>1. UNCHANGED <<request, ui>>
  BY Zenon DEF SlotStep, TakeHead, Take, ClaimLifecycle, ClaimCompletion, PublishCompletion, slotVars, uiVars
<1>2. accepting' = accepting
  BY Zenon DEF SlotStep, TakeHead, Take, ClaimLifecycle, ClaimCompletion, PublishCompletion, gateVars
<1>3. svc'.phase # "recheck"
  <2>1. CASE TakeHead
    <3>1. Goto("lifecycle") \/ svc' = [svc EXCEPT !.phase = "take", !.slot = RingHead]
      BY <2>1, Zenon DEF TakeHead
    <3> QED
      BY <3>1 DEF Goto, SvcType
  <2>2. CASE Take \/ ClaimLifecycle
    BY <2>2 DEF Take, ClaimLifecycle, Goto, SvcIdle, SvcType
  <2>3. CASE ClaimCompletion
    <3>1. \A c : [svc EXCEPT !.phase = "publish", !.cancelled = c].phase = "publish"
      BY DEF SvcType
    <3> QED
      BY <2>3, <3>1, Zenon DEF ClaimCompletion
  <2>4. CASE PublishCompletion
    BY <2>4 DEF PublishCompletion, SvcIdle
  <2> QED
    BY <2>1, <2>2, <2>3, <2>4 DEF SlotStep
<1>4. /\ state'[Lifecycle] \notin {"CancelReady", "CancelRunning"}
      /\ state[Lifecycle] = "Free" => state'[Lifecycle] = "Free"
  <2>1. CASE TakeHead
    BY <2>1 DEF TakeHead, slotVars, AdmissionInv
  <2>2. CASE Take
    BY <2>2 DEF Take, ServiceInv, AdmissionInv
  <2>3. CASE ClaimLifecycle
    BY <2>3 DEF ClaimLifecycle, AdmissionInv
  <2>4. CASE ClaimCompletion
    BY <2>4 DEF ClaimCompletion, ServiceInv, AdmissionInv, Kept
  <2>5. CASE PublishCompletion
    BY <2>5 DEF PublishCompletion, ServiceInv, AdmissionInv
  <2> QED
    BY <2>1, <2>2, <2>3, <2>4, <2>5 DEF SlotStep
<1> QED
  BY <1>1, <1>2, <1>3, <1>4, Zenon DEF AdmissionInv, IsLifecycle

-----------------------------------------------------------------------------
(* The ring.  Positions that a step leaves alone keep their slots.         *)
LEMMA RingKept ==
  ASSUME UNCHANGED ringVars
  PROVE  InRing' = InRing /\ \A k : Ring(k)' = Ring(k)
BY Zenon DEF ringVars, InRing, Ring

LEMMA RingTyped ==
  ASSUME MailType
  PROVE  /\ InRing \subseteq Nat /\ \A k \in InRing : Ring(k) \in Normal
         /\ readyHead \in Nat /\ readyTail \in Nat /\ nextId \in Nat /\ lastTaken \in Nat
<1>1. readyHead \in Nat /\ readyTail \in Nat /\ nextId \in Nat /\ lastTaken \in Nat
      /\ readySlots \in [Normal -> Normal]
  BY DEF MailType
<1>2. InRing \subseteq Nat
  BY <1>1 DEF InRing
<1> QED
  BY <1>1, <1>2, RingIndexTyped, Zenon DEF Ring

(* Two positions less than a round apart have different indices.           *)
LEMMA IndexDivides ==
  ASSUME NEW n \in Nat \ {0}, NEW k \in Nat
  PROVE  k = n * (k \div n) + (k % n) /\ k \div n \in Int /\ k % n \in Int
OBVIOUS

LEMMA IndexDiffers ==
  ASSUME NEW n \in Nat \ {0}, NEW k \in Nat, NEW l \in Nat, k < l, l - k < n
  PROVE  k % n # l % n
<1> SUFFICES ASSUME k % n = l % n PROVE FALSE
  OBVIOUS
<1> DEFINE a == k \div n
           b == l \div n
           r == k % n
<1>1. k = n * a + r /\ l = n * b + r /\ a \in Int /\ b \in Int /\ r \in Int
  BY IndexDivides
<1> HIDE DEF a, b, r
<1>2. l - k = n * (b - a)
  BY <1>1
<1>3. CASE b - a <= 0
  BY <1>1, <1>2, <1>3
<1>4. CASE b - a >= 1
  BY <1>1, <1>2, <1>4
<1> QED
  BY <1>1, <1>3, <1>4

(* A step that publishes and takes nothing keeps the order of the ring.    *)
LEMMA RingFrame ==
  ASSUME MailType, RingInv,
         UNCHANGED <<ringVars, id, nextId, lastTaken>>,
         \A i \in Normal : state[i] \in Waiting => state'[i] \in Waiting,
         Taking' => Taking /\ svc'.slot = svc.slot,
         ui'.phase = "ready" => ui' = ui
  PROVE  RingInv'
<1>1. InRing' = InRing /\ \A k : Ring(k)' = Ring(k)
  BY RingKept
<1> QED
  BY <1>1, RingTyped DEF RingInv, ringVars

(* Every published slot is another one and the slot about to be published  *)
(* is none of them: the ring has room for it.                              *)
LEMMA RoomInRing ==
  ASSUME MailType, RingInv, ui.phase = "ready"
  PROVE  readyTail < readyHead + NormalSlots
<1> DEFINE S == readyHead .. readyTail
           f == [k \in S |-> IF k = readyTail THEN ui.slot ELSE Ring(k)]
<1>1. readyHead \in Nat /\ readyTail \in Nat /\ readyHead <= readyTail /\ NormalSlots \in Nat \ {0}
      /\ readyTail <= readyHead + NormalSlots
  BY RingTyped, SlotFacts DEF RingInv
<1>2. \A k \in S : k \in InRing \/ k = readyTail
  BY <1>1 DEF InRing
<1>3. f \in [S -> Normal]
  BY <1>2, RingTyped DEF RingInv
<1>4. \A k, l \in S : k < l => f[k] # f[l]
  <2> SUFFICES ASSUME NEW k \in S, NEW l \in S, k < l PROVE f[k] # f[l]
    OBVIOUS
  <2>1. k \in InRing /\ f[k] = Ring(k)
    BY <1>1 DEF InRing
  <2>2. CASE l = readyTail
    <3>1. f[l] = ui.slot /\ id[ui.slot] = nextId /\ id[Ring(k)] < nextId /\ nextId \in Nat
      BY <2>1, <2>2, RingTyped DEF RingInv
    <3> HIDE DEF f
    <3> QED
      BY <2>1, <3>1
  <2>3. CASE l # readyTail
    <3>1. l \in InRing /\ f[l] = Ring(l)
      BY <2>3, <1>2
    <3>2. id[Ring(k)] < id[Ring(l)] /\ id[Ring(k)] \in Nat
      BY <2>1, <3>1, RingTyped, MailTypeFacts, SlotFacts DEF RingInv
    <3> HIDE DEF f
    <3> QED
      BY <2>1, <3>1, <3>2
  <2> QED
    BY <2>2, <2>3
<1>5. IsFiniteSet(S) /\ Cardinality(S) = readyTail - readyHead + 1
  BY <1>1, FS_Interval
<1>6. IsFiniteSet(Normal) /\ Cardinality(Normal) = NormalSlots
  BY <1>1, FS_Interval DEF Normal
<1> HIDE DEF f
<1>7. ~(Cardinality(Normal) < Cardinality(S))
  <2> SUFFICES ASSUME Cardinality(Normal) < Cardinality(S) PROVE FALSE
    OBVIOUS
  <2>1. \E k, l \in S : k # l /\ f[k] = f[l]
    <3> HIDE DEF S
    <3> QED
      BY <1>3, <1>5, <1>6, FS_PigeonHole
  <2>2. PICK k \in S, l \in S : k # l /\ f[k] = f[l]
    BY <2>1
  <2>3. k < l \/ l < k
    BY <2>2, <1>1
  <2> QED
    BY <2>2, <2>3, <1>4, Zenon
<1> QED
  BY <1>1, <1>5, <1>6, <1>7

(* Publication adds one position at the end and leaves the others.         *)
LEMMA PushAppends ==
  ASSUME MailType, RingInv, SubmitPush
  PROVE  /\ \A k : k \in InRing' <=> k \in InRing \/ k = readyTail
         /\ \A k \in InRing : k # readyTail /\ Ring(k)' = Ring(k)
         /\ \A k \in InRing' : k = readyTail => Ring(k)' = ui.slot
         /\ readyTail \in InRing'
         /\ readyHead' = readyHead /\ readyTail' = readyTail + 1
         /\ readyTail < readyHead + NormalSlots
<1>1. readyHead \in Nat /\ readyTail \in Nat /\ readyHead <= readyTail
      /\ readySlots \in [Normal -> Normal] /\ NormalSlots \in Nat \ {0}
  BY RingTyped, SlotFacts DEF RingInv, MailType
<1>2. ui.phase = "ready" /\ readyHead' = readyHead /\ readyTail' = readyTail + 1
  BY DEF SubmitPush
<1>3. readyTail < readyHead + NormalSlots
  BY <1>2, RoomInRing
<1>4. \A k : k \in InRing' <=> k \in InRing \/ k = readyTail
  BY <1>1, <1>2 DEF InRing
<1>5. \A k \in InRing : k \in Nat /\ k < readyTail /\ readyTail - k < NormalSlots
  BY <1>1, <1>3 DEF InRing
<1>6. readySlots' = [readySlots EXCEPT ![readyTail % NormalSlots] = ui.slot]
  BY DEF SubmitPush
<1>7. ASSUME NEW k \in InRing PROVE k # readyTail /\ Ring(k)' = Ring(k)
  <2>1. k # readyTail
    BY <1>5, <1>1
  <2>2. k % NormalSlots # readyTail % NormalSlots
    BY <1>1, <1>5, IndexDiffers
  <2>3. k % NormalSlots \in Normal
    BY <1>5, RingIndexTyped
  <2> DEFINE m == k % NormalSlots
             n == readyTail % NormalSlots
  <2>4. m \in Normal /\ m # n /\ readySlots' = [readySlots EXCEPT ![n] = ui.slot]
    BY <1>6, <2>2, <2>3
  <2>5. Ring(k) = readySlots[m] /\ Ring(k)' = readySlots'[m]
    BY Zenon DEF Ring
  <2> HIDE DEF m, n
  <2>6. readySlots'[m] = readySlots[m]
    BY <1>1, <2>4
  <2> QED
    BY <2>1, <2>5, <2>6
<1>8. ASSUME NEW k \in InRing', k = readyTail PROVE Ring(k)' = ui.slot
  <2> DEFINE m == k % NormalSlots
  <2>1. m \in Normal
    BY <1>1, <1>8, RingIndexTyped
  <2>2. readySlots' = [readySlots EXCEPT ![m] = ui.slot]
    BY <1>6, <1>8
  <2>3. Ring(k)' = readySlots'[m]
    BY Zenon DEF Ring
  <2> HIDE DEF m
  <2> QED
    BY <1>1, <2>1, <2>2, <2>3
<1> QED
  BY <1>2, <1>3, <1>4, <1>7, <1>8

LEMMA RingPush ==
  ASSUME MailType, RingInv, SubmitPush
  PROVE  RingInv'
<1>1. UNCHANGED <<state, id, svc, lastTaken, nextId>> /\ ui.phase = "ready" /\ ui' = UiIdle
  BY DEF SubmitPush, slotVars, svcVars
<1>2. ui'.phase # "ready" /\ (Taking' <=> Taking)
  BY <1>1 DEF UiIdle, Taking
<1>3. \A k \in InRing' : \/ k \in InRing /\ Ring(k)' = Ring(k)
                         \/ k = readyTail /\ Ring(k)' = ui.slot
  BY PushAppends, Zenon
<1>4. \A k \in InRing' : state[Ring(k)'] \in Waiting /\ lastTaken < id[Ring(k)']
  BY <1>1, <1>3 DEF RingInv
<1>5. \A k, l \in InRing' : k < l => id[Ring(k)'] < id[Ring(l)']
  <2> SUFFICES ASSUME NEW k \in InRing', NEW l \in InRing', k < l
               PROVE  id[Ring(k)'] < id[Ring(l)']
    OBVIOUS
  <2>1. k \in InRing /\ Ring(k)' = Ring(k)
    <3>1. l \in InRing \/ l = readyTail
      BY <1>3
    <3>2. k # readyTail
      BY <3>1, RingTyped DEF InRing
    <3> QED
      BY <1>3, <3>2
  <2>2. CASE l \in InRing /\ Ring(l)' = Ring(l)
    BY <2>1, <2>2 DEF RingInv
  <2>3. CASE l = readyTail /\ Ring(l)' = ui.slot
    BY <1>1, <2>1, <2>3 DEF RingInv
  <2> QED
    BY <1>3, <2>2, <2>3
<1>6. Taking => \A k \in InRing' : id[svc.slot] < id[Ring(k)']
  BY <1>1, <1>3 DEF RingInv
<1>7. readyHead' <= readyTail' /\ readyTail' <= readyHead' + NormalSlots
  BY PushAppends, RingTyped, SlotFacts DEF RingInv
<1> QED
  BY <1>1, <1>2, <1>4, <1>5, <1>6, <1>7 DEF RingInv

LEMMA RingFill ==
  ASSUME MailType, ServiceInv, RingInv, NEW i, NEW r, Fills(i, r)
  PROVE  RingInv'
<1> USE SlotFacts
<1>1. InRing' = InRing /\ \A k : Ring(k)' = Ring(k)
  BY RingKept DEF Fills
<1>2. /\ state[i] = "Free" /\ i \in Slots /\ id' = [id EXCEPT ![i] = nextId + 1] /\ nextId' = nextId + 1
      /\ state' = [state EXCEPT ![i] = "Ready"]
      /\ UNCHANGED <<readyHead, readyTail, svc, lastTaken>>
  BY DEF Fills, ringVars, svcVars
<1>3. \A j \in Slots : j # i => state'[j] = state[j] /\ id'[j] = id[j]
  BY <1>2, MailTypeFacts
<1>4. state'[i] = "Ready" /\ id'[i] = nextId + 1
  BY <1>2, MailTypeFacts
<1>5. \A k \in InRing : Ring(k) \in Slots /\ Ring(k) # i
  BY <1>2, RingTyped DEF RingInv, Waiting
<1>6. Taking => svc.slot \in Slots /\ svc.slot # i
  BY <1>2 DEF Taking, ServiceInv
<1>7. nextId \in Nat /\ lastTaken \in Nat /\ \A j \in Slots : id[j] \in Nat
  BY RingTyped, MailTypeFacts
<1>8. Taking' <=> Taking
  BY <1>2 DEF Taking
<1>9. /\ \A k \in InRing : state'[Ring(k)] \in Waiting /\ lastTaken < id'[Ring(k)]
      /\ \A k, l \in InRing : k < l => id'[Ring(k)] < id'[Ring(l)]
      /\ Taking => lastTaken < id'[svc.slot] /\ \A k \in InRing : id'[svc.slot] < id'[Ring(k)]
  BY <1>3, <1>5, <1>6 DEF RingInv
<1>10. \A j \in Slots : id'[j] <= nextId + 1
  <2>1. \A j \in Slots : id[j] \in Nat /\ id[j] <= nextId
    BY <1>7 DEF RingInv
  <2> QED
    BY <1>3, <1>4, <1>7, <2>1
<1>14. /\ \A k \in InRing : id'[Ring(k)] < nextId + 1
       /\ Taking => id'[svc.slot] < nextId + 1
       /\ lastTaken < nextId + 1
  <2>1. \A j \in Slots : id[j] \in Nat /\ id[j] <= nextId
    BY <1>7 DEF RingInv
  <2>2. \A j \in Slots : id[j] < nextId + 1
    BY <1>7, <2>1
  <2>3. \A j \in Slots : j # i => id'[j] < nextId + 1
    BY <1>3, <2>2
  <2>4. lastTaken < nextId + 1
    BY <1>7 DEF RingInv
  <2> QED
    BY <1>5, <1>6, <2>3, <2>4
<1>11. ui'.phase = "ready" => ui'.slot = i /\ i \in Normal
  <2>1. CASE IsLifecycle(r)
    <3>1. ui' = UiIdle
      BY <2>1, Zenon DEF Fills
    <3> QED
      BY <3>1 DEF UiIdle
  <2>2. CASE ~IsLifecycle(r)
    <3>1. ui' = [ui EXCEPT !.phase = "ready", !.slot = i] /\ i # Lifecycle
      BY <2>2, Zenon DEF Fills
    <3> QED
      BY <1>2, <3>1, MailTypeFacts DEF UiType
  <2> QED
    BY <2>1, <2>2
<1>12. readyHead <= readyTail /\ readyTail <= readyHead + NormalSlots
  BY DEF RingInv
<1>13. lastTaken <= nextId + 1
  BY <1>14, <1>7
<1> QED
  BY <1>1, <1>2, <1>4, <1>8, <1>9, <1>10, <1>11, <1>12, <1>13, <1>14 DEF RingInv, Waiting

LEMMA RingUi ==
  ASSUME MailType, ServiceInv, RingInv, UiStep
  PROVE  RingInv'
<1>1. CASE \E r \in Requests : SubmitCheck(r)
  BY <1>1, RingFrame DEF SubmitCheck, slotVars, svcVars, Taking
<1>2. CASE SubmitRefused
  BY <1>2, RingFrame DEF SubmitRefused, slotVars, svcVars, UiIdle, Taking
<1>3. CASE \E i : Fills(i, ui.request)
  BY <1>3, RingFill
<1>4. CASE SubmitPush
  BY <1>4, RingPush
<1>5. CASE \E i \in Slots : CancelSend(i)
  <2> PICK i \in Slots : CancelSend(i)
    BY <1>5
  <2>1. \A j \in Normal : state[j] \in Waiting => state'[j] \in Waiting
    BY CancelMarks, SlotFacts DEF Waiting
  <2> QED
    BY <2>1, RingFrame DEF CancelSend, svcVars, Taking
<1>6. CASE \E i \in Slots : Release(i)
  <2> PICK i \in Slots : Release(i)
    BY <1>6
  <2>1. \A j \in Normal : state[j] \in Waiting => state'[j] \in Waiting
    BY MailTypeFacts, SlotFacts DEF Waiting, Release, Results
  <2> QED
    BY <2>1, RingFrame DEF Release, svcVars, Taking
<1> QED
  BY <1>1, <1>2, <1>3, <1>4, <1>5, <1>6 DEF UiStep

(* Alone, the service takes nothing but the lifecycle request, and only at *)
(* its second look.                                                        *)
LEMMA AloneTakes ==
  ASSUME MailType, ServiceOnly
  PROVE  /\ svc'.phase = "take" => svc' = svc \/ (TakeRecheck /\ svc'.slot = Lifecycle)
         /\ svc.phase = "take" => svc' = svc
<1> USE MailTypeFacts
<1>1. CASE TakeBegin
  BY <1>1 DEF TakeBegin, Goto, SvcIdle, SvcType
<1>2. CASE TakeLifecycle
  BY <1>2 DEF TakeLifecycle, Goto, SvcType, SvcIdle
<1>3. CASE TakeRecheck
  <2>1. svc' = SvcIdle \/ svc' = [svc EXCEPT !.phase = "take", !.slot = Lifecycle]
    BY <1>3 DEF TakeRecheck
  <2>2. SvcIdle.phase = "idle" /\ [svc EXCEPT !.phase = "take", !.slot = Lifecycle].slot = Lifecycle
    BY DEF SvcType, SvcIdle
  <2>3. svc.phase = "recheck"
    BY <1>3 DEF TakeRecheck
  <2> QED
    BY <1>3, <2>1, <2>2, <2>3
<1>4. CASE ExecuteSend \/ ExecuteOther
  BY <1>4 DEF ExecuteSend, ExecuteOther, Completes, SvcIdle
<1>5. CASE \E i \in Slots : NoticeCancel(i) \/ Finish(i)
  BY <1>5 DEF NoticeCancel, Finish, Completes, SvcIdle
<1>6. CASE Hands
  BY <1>6 DEF Hands, Completes, SvcIdle, Goto, SvcType
<1>7. CASE Gates
  BY <1>7 DEF Gates, svcVars
<1> QED
  BY <1>1, <1>2, <1>3, <1>4, <1>5, <1>6, <1>7 DEF ServiceOnly

LEMMA RingAlone ==
  ASSUME MailType, RingInv, ServiceOnly
  PROVE  RingInv'
<1>1. Taking' => Taking /\ svc'.slot = svc.slot
  BY AloneTakes, SlotFacts DEF Taking
<1>2. UNCHANGED <<slotVars, ringVars, uiVars, lastTaken>>
  BY DEF ServiceOnly
<1> QED
  BY <1>1, <1>2, RingFrame DEF slotVars, uiVars

LEMMA RingSlots ==
  ASSUME MailType, ServiceInv, RingInv, SlotStep
  PROVE  RingInv'
<1> USE SlotFacts
<1>0. /\ state \in [Slots -> SlotStates] /\ id \in [Slots -> Nat]
      /\ \A k \in InRing : Ring(k) \in Normal
  BY MailTypeFacts, RingTyped
<1>1. CASE TakeHead /\ readyHead = readyTail
  <2>1. Goto("lifecycle") /\ UNCHANGED <<slotVars, ringVars, uiVars, lastTaken>>
    BY <1>1 DEF TakeHead, ringVars
  <2>2. ~Taking'
    BY <2>1, MailTypeFacts DEF Taking, Goto, SvcType
  <2> QED
    BY <2>1, <2>2, RingFrame DEF slotVars, uiVars
<1>2. CASE TakeHead /\ readyHead # readyTail
  <2>1. /\ UNCHANGED <<state, id, lastTaken, readyTail, ui, nextId>> /\ readyHead' = readyHead + 1
        /\ readySlots' = readySlots
    BY <1>2 DEF TakeHead, slotVars, uiVars
  <2>2. readyHead \in InRing /\ RingHead = Ring(readyHead)
    BY <1>2, RingTyped DEF RingInv, InRing, RingHead, Ring
  <2>3. svc'.phase = "take" /\ svc'.slot = Ring(readyHead)
    BY <1>2, <2>2, MailTypeFacts DEF TakeHead, SvcType
  <2>4. \A k \in InRing' : k \in InRing /\ readyHead < k
    BY <2>1, RingTyped DEF InRing
  <2>5. \A k : Ring(k)' = Ring(k)
    BY <2>1, Zenon DEF Ring
  <2>6. readyHead' <= readyTail /\ readyTail <= readyHead' + NormalSlots
    BY <1>2, <2>1, RingTyped DEF RingInv
  <2>7. \A k \in InRing' : id[Ring(readyHead)] < id[Ring(k)]
    BY <2>2, <2>4 DEF RingInv
  <2>8. \A k \in InRing' : state[Ring(k)] \in Waiting /\ lastTaken < id[Ring(k)]
    BY <2>4 DEF RingInv
  <2>9. \A k, l \in InRing' : k < l => id[Ring(k)] < id[Ring(l)]
    BY <2>4 DEF RingInv
  <2>10. lastTaken < id[Ring(readyHead)]
    BY <2>2 DEF RingInv
  <2>11. ui.phase = "ready" => /\ id[Ring(readyHead)] < nextId
                              /\ \A k \in InRing' : id[Ring(k)] < nextId
    BY <2>2, <2>4 DEF RingInv
  <2>12. /\ ui.phase = "ready" =>
              /\ ui.slot \in Normal /\ state[ui.slot] \in Waiting /\ id[ui.slot] = nextId
              /\ lastTaken < nextId
         /\ lastTaken <= nextId /\ \A i \in Slots : id[i] <= nextId
    BY DEF RingInv
  <2> QED
    BY <2>1, <2>3, <2>5, <2>6, <2>7, <2>8, <2>9, <2>10, <2>11, <2>12 DEF RingInv, Taking
<1>3. CASE Take /\ svc.slot = Lifecycle
  <2>1. /\ UNCHANGED <<ringVars, id, nextId, lastTaken, ui>> /\ Goto("execute")
        /\ \A i \in Normal : state'[i] = state[i]
    BY <1>0, <1>3 DEF Take, uiVars
  <2>2. ~Taking'
    BY <2>1, MailTypeFacts DEF Taking, Goto, SvcType
  <2> QED
    BY <2>1, <2>2, RingFrame
<1>4. CASE Take /\ svc.slot # Lifecycle
  <2>1. /\ UNCHANGED <<readyHead, readyTail, readySlots, id, nextId, ui>> /\ lastTaken' = id[svc.slot]
        /\ svc.slot \in Normal /\ \A i \in Slots : i # svc.slot => state'[i] = state[i]
    BY <1>0, <1>4 DEF Take, ServiceInv, uiVars, ringVars
  <2>2. InRing' = InRing /\ \A k : Ring(k)' = Ring(k)
    BY <1>4, RingKept DEF Take
  <2>3. ~Taking' /\ Taking
    BY <1>4, MailTypeFacts DEF Take, Taking, Goto, SvcType
  <2>4. /\ \A k \in InRing : id[svc.slot] < id[Ring(k)] /\ Ring(k) # svc.slot
        /\ ui.phase = "ready" => id[svc.slot] < nextId /\ ui.slot # svc.slot
    <3>1. /\ \A k \in InRing : id[svc.slot] < id[Ring(k)]
          /\ ui.phase = "ready" => id[svc.slot] < nextId /\ id[ui.slot] = nextId
      BY <2>3 DEF RingInv
    <3>2. id[svc.slot] \in Nat
      BY <1>0, <2>1
    <3> QED
      BY <3>1, <3>2
  <2>5. \A k \in InRing : state'[Ring(k)] \in Waiting
    BY <1>0, <2>1, <2>4 DEF RingInv
  <2>6. ui.phase = "ready" => state'[ui.slot] \in Waiting
    BY <2>1, <2>4 DEF RingInv
  <2>7. id[svc.slot] <= nextId
    BY <2>1 DEF RingInv
  <2> QED
    BY <2>1, <2>2, <2>3, <2>4, <2>5, <2>6, <2>7 DEF RingInv
<1>5. CASE ClaimLifecycle \/ ClaimCompletion \/ PublishCompletion
  <2>1. UNCHANGED <<ringVars, id, nextId, lastTaken, ui>>
    BY <1>5 DEF ClaimLifecycle, ClaimCompletion, PublishCompletion, uiVars
  <2>2. \A i \in Normal : state[i] \in Waiting => state'[i] \in Waiting
    <3>1. CASE ClaimLifecycle
      BY <1>0, <3>1 DEF ClaimLifecycle
    <3>2. CASE ClaimCompletion
      BY <1>0, <3>2 DEF ClaimCompletion, ServiceInv, Waiting, Kept
    <3>3. CASE PublishCompletion
      BY <1>0, <3>3 DEF PublishCompletion, ServiceInv, Waiting
    <3> QED
      BY <1>5, <3>1, <3>2, <3>3
  <2>3. ~Taking'
    <3>1. CASE ClaimLifecycle
      BY <3>1 DEF ClaimLifecycle, Taking, SvcIdle
    <3>2. CASE ClaimCompletion
      <4>1. \A c : [svc EXCEPT !.phase = "publish", !.cancelled = c].phase = "publish"
        BY MailTypeFacts DEF SvcType
      <4>2. svc'.phase = "publish"
        BY <3>2, <4>1, Zenon DEF ClaimCompletion
      <4> QED
        BY <4>2 DEF Taking
    <3>3. CASE PublishCompletion
      BY <3>3 DEF PublishCompletion, Taking, SvcIdle
    <3> QED
      BY <1>5, <3>1, <3>2, <3>3
  <2> QED
    BY <2>1, <2>2, <2>3, RingFrame
<1> QED
  BY <1>1, <1>2, <1>3, <1>4, <1>5 DEF SlotStep

-----------------------------------------------------------------------------
(* No waiting request is forgotten.                                        *)
LEMMA WaitingFrame ==
  ASSUME WaitingInv, UNCHANGED ringVars,
         \A i \in Normal : state'[i] \in Waiting => state[i] \in Waiting,
         Taking => Taking' /\ svc'.slot = svc.slot,
         ui.phase = "ready" => ui' = ui
  PROVE  WaitingInv'
<1>1. InRing' = InRing /\ \A k : Ring(k)' = Ring(k)
  BY RingKept
<1> QED
  BY <1>1, Zenon DEF WaitingInv

LEMMA WaitingUi ==
  ASSUME MailType, ServiceInv, RingInv, WaitingInv, UiStep
  PROVE  WaitingInv'
<1>1. CASE \E r \in Requests : SubmitCheck(r)
  <2>1. ui.phase = "idle" /\ UNCHANGED <<ringVars, state, svc>>
    BY <1>1 DEF SubmitCheck, slotVars, svcVars, UiIdle
  <2> QED
    BY <2>1, WaitingFrame DEF Taking
<1>2. CASE SubmitRefused
  <2>1. ui.phase = "checked" /\ UNCHANGED <<ringVars, state, svc>>
    BY <1>2 DEF SubmitRefused, slotVars, svcVars
  <2> QED
    BY <2>1, WaitingFrame DEF Taking
<1>3. CASE \E i : Fills(i, ui.request)
  <2> PICK i : Fills(i, ui.request)
    BY <1>3
  <2>1. /\ ui.phase = "checked" /\ svc' = svc
        /\ \A j \in Slots : j # i => state'[j] = state[j]
    BY MailTypeFacts DEF Fills, svcVars
  <2>2. i \in Normal => ui'.phase = "ready" /\ ui'.slot = i
    <3>1. i \in Normal => ~IsLifecycle(ui.request)
      BY SlotFacts, Zenon DEF Fills
    <3>2. i \in Normal => ui' = [ui EXCEPT !.phase = "ready", !.slot = i]
      BY <3>1, Zenon DEF Fills
    <3> QED
      BY <3>2, MailTypeFacts DEF UiType
  <2>3. InRing' = InRing /\ \A k : Ring(k)' = Ring(k)
    BY RingKept DEF Fills
  <2>4. Taking' <=> Taking
    BY <2>1 DEF Taking
  <2> SUFFICES ASSUME NEW j \in Normal, state'[j] \in Waiting
               PROVE  \/ ui'.phase = "ready" /\ ui'.slot = j
                      \/ Taking' /\ svc'.slot = j
                      \/ \E k \in InRing' : Ring(k)' = j
    BY Zenon DEF WaitingInv
  <2>5. CASE j # i
    BY <2>1, <2>3, <2>4, <2>5, SlotFacts DEF WaitingInv
  <2> QED
    BY <2>2, <2>5
<1>4. CASE SubmitPush
  <2>1. ui.phase = "ready" /\ UNCHANGED <<state, svc>>
    BY <1>4 DEF SubmitPush, slotVars, svcVars
  <2>2. Taking' <=> Taking
    BY <2>1 DEF Taking
  <2>3. /\ \A k \in InRing : k \in InRing' /\ Ring(k)' = Ring(k)
        /\ \E k \in InRing' : Ring(k)' = ui.slot
    BY <1>4, PushAppends, Zenon
  <2> SUFFICES ASSUME NEW j \in Normal, state'[j] \in Waiting
               PROVE  \/ Taking' /\ svc'.slot = j
                      \/ \E k \in InRing' : Ring(k)' = j
    BY Zenon DEF WaitingInv
  <2> QED
    BY <2>1, <2>2, <2>3, Zenon DEF WaitingInv
<1>5. CASE \E i \in Slots : CancelSend(i)
  <2> PICK i \in Slots : CancelSend(i)
    BY <1>5
  <2>1. \A j \in Normal : state'[j] \in Waiting => state[j] \in Waiting
    BY CancelMarks, SlotFacts DEF Waiting
  <2> QED
    BY <2>1, WaitingFrame DEF CancelSend, svcVars, Taking
<1>6. CASE \E i \in Slots : Release(i)
  <2> PICK i \in Slots : Release(i)
    BY <1>6
  <2>1. \A j \in Normal : state'[j] \in Waiting => state[j] \in Waiting
    BY MailTypeFacts, SlotFacts DEF Waiting, Release
  <2> QED
    BY <2>1, WaitingFrame DEF Release, svcVars, Taking
<1> QED
  BY <1>1, <1>2, <1>3, <1>4, <1>5, <1>6 DEF UiStep

LEMMA WaitingAlone ==
  ASSUME MailType, WaitingInv, ServiceOnly
  PROVE  WaitingInv'
<1>1. Taking => Taking' /\ svc'.slot = svc.slot
  BY AloneTakes DEF Taking
<1>2. UNCHANGED <<slotVars, ringVars, uiVars>>
  BY DEF ServiceOnly
<1> QED
  BY <1>1, <1>2, WaitingFrame DEF slotVars, uiVars

LEMMA WaitingSlots ==
  ASSUME MailType, ServiceInv, RingInv, WaitingInv, SlotStep
  PROVE  WaitingInv'
<1> USE SlotFacts
<1>0. /\ state \in [Slots -> SlotStates] /\ id \in [Slots -> Nat]
      /\ \A k \in InRing : Ring(k) \in Normal
  BY MailTypeFacts, RingTyped
<1>1. CASE TakeHead /\ readyHead = readyTail
  <2>1. svc.phase = "head" /\ UNCHANGED <<ringVars, state, ui>>
    BY <1>1 DEF TakeHead, ringVars, slotVars, uiVars
  <2> QED
    BY <2>1, WaitingFrame DEF Taking
<1>2. CASE TakeHead /\ readyHead # readyTail
  <2>1. /\ UNCHANGED <<state, readyTail, ui>> /\ readyHead' = readyHead + 1
        /\ readySlots' = readySlots /\ svc.phase = "head"
    BY <1>2 DEF TakeHead, slotVars, uiVars
  <2>2. readyHead \in InRing /\ RingHead = Ring(readyHead)
    BY <1>2, RingTyped DEF RingInv, InRing, RingHead, Ring
  <2>3. Taking' /\ svc'.slot = Ring(readyHead)
    <3>1. svc'.phase = "take" /\ svc'.slot = Ring(readyHead)
      BY <1>2, <2>2, MailTypeFacts DEF TakeHead, SvcType
    <3>2. Ring(readyHead) # Lifecycle
      BY <1>0, <2>2
    <3> QED
      BY <3>1, <3>2 DEF Taking
  <2>4. \A k \in InRing : k = readyHead \/ k \in InRing'
    BY <2>1, RingTyped DEF InRing
  <2>5. \A k : Ring(k)' = Ring(k)
    BY <2>1, Zenon DEF Ring
  <2>6. ~Taking
    BY <2>1 DEF Taking
  <2> QED
    BY <2>1, <2>3, <2>4, <2>5, <2>6, Zenon DEF WaitingInv
<1>3. CASE Take
  <2>1. /\ UNCHANGED <<ringVars, ui>> /\ svc.slot \in Slots
        /\ \A i \in Slots : i # svc.slot => state'[i] = state[i]
    BY <1>0, <1>3 DEF Take, ServiceInv, uiVars
  <2>2. state'[svc.slot] \notin Waiting
    BY <1>0, <1>3, <2>1 DEF Take, Waiting
  <2>3. InRing' = InRing /\ \A k : Ring(k)' = Ring(k)
    BY <2>1, RingKept
  <2> SUFFICES ASSUME NEW j \in Normal, state'[j] \in Waiting
               PROVE  \/ ui'.phase = "ready" /\ ui'.slot = j
                      \/ \E k \in InRing' : Ring(k)' = j
    BY Zenon DEF WaitingInv
  <2>4. j # svc.slot /\ state[j] \in Waiting
    BY <2>1, <2>2
  <2> QED
    BY <2>1, <2>3, <2>4, Zenon DEF WaitingInv
<1>4. CASE ClaimLifecycle \/ ClaimCompletion \/ PublishCompletion
  <2>1. UNCHANGED <<ringVars, ui>> /\ svc.phase # "take"
    BY <1>4 DEF ClaimLifecycle, ClaimCompletion, PublishCompletion, uiVars, SvcIdle
  <2>2. \A i \in Normal : state'[i] \in Waiting => state[i] \in Waiting
    BY <1>0, <1>4 DEF ClaimLifecycle, ClaimCompletion, PublishCompletion, Waiting
  <2> QED
    BY <2>1, <2>2, WaitingFrame DEF Taking
<1> QED
  BY <1>1, <1>2, <1>3, <1>4 DEF SlotStep

-----------------------------------------------------------------------------
(* The lifecycle request is taken last.                                    *)
LEMMA LastUi ==
  ASSUME MailType, ServiceInv, AdmissionInv, LifecycleLast, UiStep
  PROVE  LifecycleLast'
<1> USE SlotFacts
<1>1. svc' = svc
  BY Zenon DEF UiStep, SubmitCheck, SubmitRefused, Fills, SubmitPush, CancelSend, Release, svcVars
<1> SUFFICES ASSUME svc.phase = "take", svc.slot = Lifecycle, NEW j \in Normal
             PROVE  state'[j] \notin Pending
  BY <1>1, Zenon DEF LifecycleLast
<1>2. state[j] \notin Pending /\ state[Lifecycle] \in Waiting
  BY DEF LifecycleLast, ServiceInv, Waiting
<1>3. CASE (\E r \in Requests : SubmitCheck(r)) \/ SubmitRefused \/ SubmitPush
  BY <1>2, <1>3 DEF SubmitCheck, SubmitRefused, SubmitPush, slotVars
<1>4. CASE \E i : Fills(i, ui.request)
  <2> PICK i : Fills(i, ui.request)
    BY <1>4
  <2>1. state[Lifecycle] # "Free" /\ ui.phase = "checked" /\ state[i] = "Free"
    BY <1>2 DEF Fills, Waiting
  <2>2. IsLifecycle(ui.request)
    BY <2>1 DEF AdmissionInv
  <2>3. i = Lifecycle
    BY <2>2, Zenon DEF Fills
  <2> QED
    BY <2>1, <2>3
<1>5. CASE \E i \in Slots : CancelSend(i)
  <2> PICK i \in Slots : CancelSend(i)
    BY <1>5
  <2>1. state'[j] = state[j] \/ state[j] \in {"Ready", "Running"}
    BY CancelMarks
  <2> QED
    BY <1>2, <2>1 DEF Pending, Running
<1>6. CASE \E i \in Slots : Release(i)
  BY <1>2, <1>6, MailTypeFacts DEF Release, Pending, Running
<1> QED
  BY <1>3, <1>4, <1>5, <1>6 DEF UiStep

LEMMA LastAlone ==
  ASSUME MailType, ServiceInv, AdmissionInv, RingInv, WaitingInv, LifecycleLast, ServiceOnly
  PROVE  LifecycleLast'
<1> USE SlotFacts
<1> SUFFICES ASSUME svc'.phase = "take", svc'.slot = Lifecycle, NEW j \in Normal
             PROVE  state[j] \notin Pending
  BY Zenon DEF LifecycleLast, ServiceOnly, slotVars
<1>1. CASE svc' = svc
  BY <1>1 DEF LifecycleLast
<1>2. CASE svc' # svc
  <2>1. TakeRecheck
    BY <1>2, AloneTakes
  <2>2. svc.phase = "recheck" /\ svc' # SvcIdle
    BY <2>1 DEF TakeRecheck, SvcIdle
  <2>3. readyHead = readyTail /\ state[j] \notin Running
    BY <2>1, <2>2 DEF TakeRecheck, RingRefills
  <2>4. ui.phase # "ready"
    <3>1. state[Lifecycle] # "Free"
      BY <2>2 DEF AdmissionInv
    <3> QED
      BY <3>1, Zenon DEF AdmissionInv
  <2>5. InRing = {}
    BY <2>3, RingTyped DEF InRing
  <2>6. state[j] \notin Waiting
    BY <2>2, <2>4, <2>5 DEF WaitingInv, Taking
  <2> QED
    BY <2>3, <2>6 DEF Pending, Waiting
<1> QED
  BY <1>1, <1>2

LEMMA LastSlots ==
  ASSUME MailType, ServiceInv, RingInv, LifecycleLast, SlotStep
  PROVE  LifecycleLast'
<1> USE SlotFacts
<1> SUFFICES ASSUME svc'.phase = "take", svc'.slot = Lifecycle PROVE FALSE
  BY Zenon DEF LifecycleLast
<1>1. CASE TakeHead
  <2>1. CASE readyHead = readyTail
    BY <1>1, <2>1, MailTypeFacts DEF TakeHead, Goto, SvcType
  <2>2. CASE readyHead # readyTail
    <3>1. readyHead \in InRing /\ RingHead = Ring(readyHead)
      BY <2>2, RingTyped DEF RingInv, InRing, RingHead, Ring
    <3>2. svc'.slot = Ring(readyHead)
      BY <1>1, <2>2, <3>1, MailTypeFacts DEF TakeHead, SvcType
    <3> QED
      BY <3>1, <3>2, RingTyped
  <2> QED
    BY <2>1, <2>2
<1>2. CASE Take \/ ClaimLifecycle
  BY <1>2, MailTypeFacts DEF Take, ClaimLifecycle, Goto, SvcType, SvcIdle
<1>3. CASE ClaimCompletion
  <2>1. \A c : [svc EXCEPT !.phase = "publish", !.cancelled = c].phase = "publish"
    BY MailTypeFacts DEF SvcType
  <2>2. svc'.phase = "publish"
    BY <1>3, <2>1, Zenon DEF ClaimCompletion
  <2> QED
    BY <2>2
<1>4. CASE PublishCompletion
  BY <1>4 DEF PublishCompletion, SvcIdle
<1> QED
  BY <1>1, <1>2, <1>3, <1>4 DEF SlotStep

-----------------------------------------------------------------------------
(* Acknowledged cancellations.                                             *)
LEMMA CancelUi ==
  ASSUME MailType, ServiceInv, RingInv, CancelInv, UiStep
  PROVE  CancelInv'
<1> USE SlotFacts
<1>0. /\ state \in [Slots -> SlotStates] /\ id \in [Slots -> Nat] /\ nextId \in Nat
      /\ request \in [Slots -> Requests \cup {NoRequest}]
      /\ result \in [Slots -> [outcome : Outcomes, suppressed : BOOLEAN]]
      /\ acknowledged \subseteq Nat
  BY DEF MailType
<1>1. CASE (\E r \in Requests : SubmitCheck(r)) \/ SubmitRefused \/ SubmitPush
  <2>1. UNCHANGED <<slotVars, acknowledged, nextId, svc>>
    BY <1>1, Zenon DEF SubmitCheck, SubmitRefused, SubmitPush, svcVars
  <2> QED
    BY <2>1, Zenon DEF CancelInv, CancelHonoured, Occupied, slotVars
<1>2. CASE \E i : Fills(i, ui.request)
  <2> PICK i : Fills(i, ui.request)
    BY <1>2
  <2>1. /\ i \in Slots /\ state[i] = "Free" /\ nextId' = nextId + 1
        /\ acknowledged' = acknowledged /\ svc' = svc
        /\ \A j \in Slots : j # i => /\ state'[j] = state[j] /\ id'[j] = id[j]
                                   /\ request'[j] = request[j] /\ result'[j] = result[j]
        /\ id'[i] = nextId + 1 /\ state'[i] = "Ready"
    BY <1>0 DEF Fills, svcVars
  <2>2. id'[i] \notin acknowledged /\ \A j \in Slots : j # i => id'[j] # id'[i]
    <3>1. \A n \in acknowledged : n <= nextId
      BY DEF CancelInv
    <3>2. \A j \in Slots : id[j] <= nextId /\ id[j] \in Nat
      BY <1>0 DEF RingInv
    <3>3. nextId + 1 \notin acknowledged
      BY <1>0, <3>1
    <3>4. \A j \in Slots : id[j] # nextId + 1
      BY <1>0, <3>2
    <3> QED
      BY <2>1, <3>3, <3>4
  <2>3. \A n \in acknowledged' : n <= nextId'
    BY <1>0, <2>1 DEF CancelInv
  <2>4. \A j, k \in Occupied' : id'[j] = id'[k] => j = k
    BY <2>1, <2>2 DEF Occupied, CancelInv
  <2>5. \A j \in Occupied' : id'[j] \in acknowledged' =>
          /\ request'[j].operation = "Send"
          /\ state'[j] \in {"CancelReady", "CancelRunning", "Completing", "Done"}
    BY <2>1, <2>2 DEF Occupied, CancelInv
  <2>6. svc'.phase = "publish" /\ id'[svc'.slot] \in acknowledged' => svc'.cancelled
    <3>1. svc.phase = "publish" => svc.slot \in Slots /\ svc.slot # i
      BY <2>1 DEF ServiceInv
    <3>2. svc.phase = "publish" => id'[svc.slot] = id[svc.slot]
      BY <2>1, <3>1
    <3> QED
      BY <2>1, <3>2, Zenon DEF CancelInv
  <2>7. CancelHonoured'
    BY <2>1, <2>2 DEF CancelInv, CancelHonoured
  <2> QED
    BY <2>3, <2>4, <2>5, <2>6, <2>7 DEF CancelInv
<1>3. CASE \E i \in Slots : CancelSend(i)
  <2> PICK i \in Slots : CancelSend(i)
    BY <1>3
  <2>1. /\ UNCHANGED <<id, request, result, svc, nextId>> /\ acknowledged' = acknowledged \cup {id[i]}
        /\ request[i].operation = "Send" /\ state[i] \in {"Ready", "Running", "CancelReady", "CancelRunning"}
    BY DEF CancelSend, svcVars
  <2>2. \A j \in Slots : j # i => state'[j] = state[j]
    BY CancelMarks
  <2>3. state'[i] \in {"CancelReady", "CancelRunning"}
    BY <2>1, CancelMarks
  <2>4. Occupied' = Occupied /\ i \in Occupied
    BY <2>1, <2>2, <2>3 DEF Occupied
  <2>5. \A j \in Occupied : j # i => (id[j] \in acknowledged' <=> id[j] \in acknowledged)
    BY <2>1, <2>4 DEF CancelInv
  <2>6. \A n \in acknowledged' : n <= nextId'
    BY <2>1 DEF CancelInv, RingInv
  <2>7. \A j \in Occupied : j \in Slots
    BY DEF Occupied
  <2>8. \A j \in Occupied' : id'[j] \in acknowledged' =>
          /\ request'[j].operation = "Send"
          /\ state'[j] \in {"CancelReady", "CancelRunning", "Completing", "Done"}
    BY <2>1, <2>2, <2>3, <2>4, <2>5, <2>7 DEF CancelInv
  <2>9. svc'.phase = "publish" /\ id'[svc'.slot] \in acknowledged' => svc'.cancelled
    <3>1. svc.phase = "publish" => svc.slot \in Occupied /\ svc.slot # i
      BY <2>1 DEF ServiceInv, Occupied
    <3> QED
      BY <2>1, <2>5, <3>1, Zenon DEF CancelInv
  <2>10. CancelHonoured'
    <3> SUFFICES ASSUME NEW j \in Slots, state'[j] = "Done", id'[j] \in acknowledged'
                 PROVE  result'[j].outcome # "Ok" \/ result'[j].suppressed
      BY Zenon DEF CancelHonoured
    <3>1. j # i /\ state[j] = "Done"
      BY <2>2, <2>3
    <3>2. j \in Occupied
      BY <3>1 DEF Occupied
    <3>3. id[j] \in acknowledged
      BY <2>1, <2>5, <3>1, <3>2, Zenon
    <3> QED
      BY <2>1, <3>1, <3>3, Zenon DEF CancelInv, CancelHonoured
  <2>11. \A j, k \in Occupied' : id'[j] = id'[k] => j = k
    BY <2>1, <2>4 DEF CancelInv
  <2> QED
    BY <2>6, <2>8, <2>9, <2>10, <2>11, Zenon DEF CancelInv
<1>4. CASE \E i \in Slots : Release(i)
  <2> PICK i \in Slots : Release(i)
    BY <1>4
  <2>1. /\ UNCHANGED <<id, request, result, svc, nextId>> /\ acknowledged' \subseteq acknowledged
        /\ \A j \in Slots : state'[j] # "Free" => state'[j] = state[j]
    BY <1>0 DEF Release, svcVars
  <2>2. Occupied' \subseteq Occupied /\ \A j \in Occupied' : state'[j] = state[j]
    BY <2>1 DEF Occupied
  <2>3. CancelHonoured'
    BY <2>1, Zenon DEF CancelInv, CancelHonoured
  <2>4. \A j \in Occupied' : id'[j] \in acknowledged' =>
          /\ request'[j].operation = "Send"
          /\ state'[j] \in {"CancelReady", "CancelRunning", "Completing", "Done"}
    BY <2>1, <2>2 DEF CancelInv
  <2> QED
    BY <2>1, <2>2, <2>3, <2>4, Zenon DEF CancelInv
<1> QED
  BY <1>1, <1>2, <1>3, <1>4 DEF UiStep

LEMMA CancelAlone ==
  ASSUME MailType, CancelInv, ServiceOnly
  PROVE  CancelInv'
<1> USE MailTypeFacts
<1>1. svc'.phase = "publish" => svc' = svc
  <2>1. CASE TakeBegin
    BY <2>1 DEF TakeBegin, Goto, SvcType
  <2>2. CASE TakeLifecycle
    BY <2>2 DEF TakeLifecycle, Goto, SvcType, SvcIdle
  <2>3. CASE TakeRecheck
    <3>1. svc' = SvcIdle \/ svc' = [svc EXCEPT !.phase = "take", !.slot = Lifecycle]
      BY <2>3 DEF TakeRecheck
    <3>2. SvcIdle.phase = "idle" /\ [svc EXCEPT !.phase = "take", !.slot = Lifecycle].phase = "take"
      BY DEF SvcType, SvcIdle
    <3> QED
      BY <3>1, <3>2
  <2>4. CASE ExecuteSend \/ ExecuteOther
    BY <2>4 DEF ExecuteSend, ExecuteOther, Completes, SvcIdle
  <2>5. CASE \E i \in Slots : NoticeCancel(i) \/ Finish(i)
    BY <2>5 DEF NoticeCancel, Finish, Completes
  <2>6. CASE Hands
    BY <2>6 DEF Hands, Completes, SvcIdle, Goto, SvcType
  <2>7. CASE Gates
    BY <2>7 DEF Gates, svcVars
  <2> QED
    BY <2>1, <2>2, <2>3, <2>4, <2>5, <2>6, <2>7 DEF ServiceOnly
<1>2. UNCHANGED <<state, request, id, held, result, acknowledged, nextId>>
  BY DEF ServiceOnly, slotVars, uiVars
<1> QED
  BY <1>1, <1>2, Zenon DEF CancelInv, CancelHonoured, Occupied

LEMMA CancelSlots ==
  ASSUME MailType, ServiceInv, CancelInv, SlotStep
  PROVE  CancelInv'
<1> USE SlotFacts
<1>0. /\ state \in [Slots -> SlotStates] /\ svc \in SvcType
      /\ result \in [Slots -> [outcome : Outcomes, suppressed : BOOLEAN]]
  BY DEF MailType
<1>1. CASE TakeHead
  <2>1. svc'.phase # "publish"
    <3>1. Goto("lifecycle") \/ svc' = [svc EXCEPT !.phase = "take", !.slot = RingHead]
      BY <1>1, Zenon DEF TakeHead
    <3> QED
      BY <1>0, <3>1 DEF Goto, SvcType
  <2>2. UNCHANGED <<slotVars, acknowledged, nextId>>
    BY <1>1 DEF TakeHead, uiVars
  <2> QED
    BY <2>1, <2>2, Zenon DEF CancelInv, CancelHonoured, Occupied, slotVars
<1>2. CASE Take \/ ClaimLifecycle
  <2> DEFINE i == IF Take THEN svc.slot ELSE Lifecycle
  <2>1. /\ UNCHANGED <<id, request, result, acknowledged, nextId>>
        /\ i \in Slots /\ state[i] \in Waiting
        /\ \A j \in Slots : j # i => state'[j] = state[j]
        /\ state'[i] = IF state[i] = "CancelReady" THEN "CancelRunning" ELSE "Running"
    <3>1. CASE Take
      BY <1>0, <3>1 DEF Take, ServiceInv, uiVars, Waiting
    <3>2. CASE ClaimLifecycle /\ ~Take
      BY <1>0, <3>2 DEF ClaimLifecycle, uiVars, Waiting
    <3> QED
      BY <1>2, <3>1, <3>2
  <2>2. svc'.phase # "publish"
    BY <1>0, <1>2 DEF Take, ClaimLifecycle, Goto, SvcIdle, SvcType
  <2> HIDE DEF i
  <2>3. Occupied' = Occupied /\ i \in Occupied /\ state'[i] # "Done"
    BY <2>1 DEF Occupied, Waiting
  <2>4. id[i] \in acknowledged => state'[i] = "CancelRunning"
    BY <2>1, <2>3 DEF CancelInv, Waiting
  <2>5. \A j \in Occupied' : id'[j] \in acknowledged' =>
          /\ request'[j].operation = "Send"
          /\ state'[j] \in {"CancelReady", "CancelRunning", "Completing", "Done"}
    BY <2>1, <2>3, <2>4 DEF CancelInv, Occupied
  <2>6. CancelHonoured'
    BY <2>1, <2>3, Zenon DEF CancelHonoured, CancelInv
  <2>7. /\ \A n \in acknowledged' : n <= nextId'
        /\ \A j, k \in Occupied' : id'[j] = id'[k] => j = k
    BY <2>1, <2>3, Zenon DEF CancelInv
  <2> QED
    BY <2>2, <2>5, <2>6, <2>7, Zenon DEF CancelInv
<1>3. CASE ClaimCompletion
  <2> DEFINE i == svc.slot
  <2>1. /\ UNCHANGED <<id, request, result, acknowledged, nextId>>
        /\ i \in Slots /\ state[i] \in Kept
        /\ \A j \in Slots : j # i => state'[j] = state[j]
        /\ state'[i] = "Completing"
    BY <1>0, <1>3 DEF ClaimCompletion, ServiceInv, uiVars
  <2>2. svc'.slot = svc.slot /\ (svc'.cancelled <=> state[i] = "CancelRunning")
    <3>1. \A c \in BOOLEAN : /\ [svc EXCEPT !.phase = "publish", !.cancelled = c].slot = svc.slot
                             /\ [svc EXCEPT !.phase = "publish", !.cancelled = c].cancelled = c
      BY <1>0 DEF SvcType
    <3>2. svc' = [svc EXCEPT !.phase = "publish", !.cancelled = (state[i] = "CancelRunning")]
      BY <1>3 DEF ClaimCompletion
    <3>3. (state[i] = "CancelRunning") \in BOOLEAN
      OBVIOUS
    <3> HIDE DEF i
    <3> QED
      BY <3>1, <3>2, <3>3, Zenon
  <2> HIDE DEF i
  <2>3. Occupied' = Occupied /\ i \in Occupied
    BY <2>1 DEF Occupied, Kept
  <2>4. id[i] \in acknowledged => state[i] = "CancelRunning"
    BY <2>1, <2>3 DEF CancelInv, Kept
  <2>5. svc'.phase = "publish" /\ id'[svc'.slot] \in acknowledged' => svc'.cancelled
    BY <2>1, <2>2, <2>4, Zenon DEF i
  <2>6. \A j \in Occupied' : id'[j] \in acknowledged' =>
          /\ request'[j].operation = "Send"
          /\ state'[j] \in {"CancelReady", "CancelRunning", "Completing", "Done"}
    BY <2>1, <2>3 DEF CancelInv, Occupied
  <2>7. CancelHonoured'
    <3>1. \A j \in Slots : state'[j] = "Done" => state[j] = "Done"
      BY <2>1
    <3> QED
      BY <2>1, <3>1, Zenon DEF CancelHonoured, CancelInv
  <2>8. /\ \A n \in acknowledged' : n <= nextId'
        /\ \A j, k \in Occupied' : id'[j] = id'[k] => j = k
    BY <2>1, <2>3, Zenon DEF CancelInv
  <2> QED
    BY <2>5, <2>6, <2>7, <2>8, Zenon DEF CancelInv
<1>4. CASE PublishCompletion
  <2> DEFINE i == svc.slot
             c == Suppressed(i) \/ svc.outcome = "Cancelled"
  <2>1. /\ UNCHANGED <<id, request, acknowledged, nextId>>
        /\ i \in Slots /\ state[i] = "Completing" /\ svc.phase = "publish"
        /\ \A j \in Slots : j # i => state'[j] = state[j]
        /\ state'[i] = "Done"
    BY <1>0, <1>4 DEF PublishCompletion, ServiceInv, uiVars
  <2>2. result' = [result EXCEPT ![i] = [outcome |-> svc.outcome, suppressed |-> c]]
    BY <1>4, Zenon DEF PublishCompletion
  <2>3. svc'.phase # "publish"
    BY <1>4 DEF PublishCompletion, SvcIdle
  <2>4. i \in Occupied
    BY <2>1 DEF Occupied
  <2>5. id[i] \in acknowledged /\ svc.outcome = "Ok" => c
    <3> SUFFICES ASSUME id[i] \in acknowledged, svc.outcome = "Ok" PROVE i \in sends /\ svc.cancelled
      BY Zenon DEF Suppressed
    <3>1. request[i].operation = "Send" /\ svc.cancelled
      BY <2>1, <2>4, Zenon DEF CancelInv
    <3> QED
      BY <2>1, <3>1, Zenon DEF ServiceInv
  <2> HIDE DEF c
  <2>6. /\ \A j \in Slots : j # i => result'[j] = result[j]
        /\ result'[i] = [outcome |-> svc.outcome, suppressed |-> c]
    BY <1>0, <2>1, <2>2
  <2>7. result'[i].outcome = svc.outcome /\ result'[i].suppressed = c
    BY <2>6
  <2> HIDE DEF i
  <2>8. Occupied' = Occupied
    BY <2>1 DEF Occupied
  <2>9. \A j \in Occupied' : id'[j] \in acknowledged' =>
          /\ request'[j].operation = "Send"
          /\ state'[j] \in {"CancelReady", "CancelRunning", "Completing", "Done"}
    BY <2>1, <2>8 DEF CancelInv, Occupied
  <2>10. CancelHonoured'
    <3> SUFFICES ASSUME NEW j \in Slots, state'[j] = "Done", id'[j] \in acknowledged'
                 PROVE  result'[j].outcome # "Ok" \/ result'[j].suppressed
      BY Zenon DEF CancelHonoured
    <3>1. CASE j # i
      BY <2>1, <2>6, <3>1, Zenon DEF CancelInv, CancelHonoured
    <3>2. CASE j = i
      BY <2>1, <2>5, <2>7, <3>2, Zenon
    <3> QED
      BY <3>1, <3>2
  <2>11. /\ \A n \in acknowledged' : n <= nextId'
         /\ \A j, k \in Occupied' : id'[j] = id'[k] => j = k
    BY <2>1, <2>8, Zenon DEF CancelInv
  <2> QED
    BY <2>3, <2>9, <2>10, <2>11, Zenon DEF CancelInv
<1> QED
  BY <1>1, <1>2, <1>3, <1>4 DEF SlotStep

-----------------------------------------------------------------------------
(* Payload blocks.                                                         *)
LEMMA OccupiedFinite == IsFiniteSet(Occupied) /\ Cardinality(Occupied) \in Nat
<1>1. IsFiniteSet(Slots)
  BY SlotFacts, FS_Interval DEF Slots
<1>2. Occupied \in SUBSET Slots
  BY DEF Occupied
<1>3. IsFiniteSet(Occupied)
  BY <1>1, <1>2, FS_Subset
<1> QED
  BY <1>3, FS_CardinalityType

LEMMA BlocksFrame ==
  ASSUME BlocksAccounted, UNCHANGED <<held, usedBlocks, outstanding>>, Occupied' = Occupied
  PROVE  BlocksAccounted'
BY Zenon DEF BlocksAccounted

LEMMA BlocksUi ==
  ASSUME MailType, BlocksAccounted, UiStep
  PROVE  BlocksAccounted'
<1> USE SlotFacts
<1>0. /\ state \in [Slots -> SlotStates] /\ held \in [Slots -> SUBSET Blocks]
      /\ usedBlocks \subseteq Blocks
  BY DEF MailType
<1>1. CASE (\E r \in Requests : SubmitCheck(r)) \/ SubmitRefused \/ SubmitPush
  <2>1. UNCHANGED <<slotVars, usedBlocks, outstanding>>
    BY <1>1, Zenon DEF SubmitCheck, SubmitRefused, SubmitPush, GivesBack
  <2>2. Occupied' = Occupied
    BY <2>1 DEF Occupied, slotVars
  <2> QED
    BY <2>1, <2>2, BlocksFrame DEF slotVars
<1>2. CASE \E i : Fills(i, ui.request)
  <2> PICK i : Fills(i, ui.request)
    BY <1>2
  <2> DEFINE new == Allocated(ui.request)
  <2>1. /\ i \in Slots /\ state[i] = "Free" /\ outstanding' = outstanding + 1
        /\ state' = [state EXCEPT ![i] = "Ready"] /\ held' = [held EXCEPT ![i] = new]
        /\ usedBlocks' = usedBlocks \cup new
    BY Zenon DEF Fills
  <2>2. new \cap usedBlocks = {}
    BY Zenon DEF Allocated, FreeBlocks
  <2> HIDE DEF new
  <2>3. Occupied' = Occupied \cup {i} /\ i \notin Occupied
    BY <1>0, <2>1 DEF Occupied
  <2>4. held'[i] = new /\ \A j \in Occupied : held'[j] = held[j] /\ j \in Slots
    BY <1>0, <2>1 DEF Occupied
  <2>5. usedBlocks' = UNION {held'[j] : j \in Occupied'}
    <3>1. {held'[j] : j \in Occupied'} = {held[j] : j \in Occupied} \cup {new}
      BY <2>3, <2>4
    <3> QED
      BY <2>1, <3>1, Zenon DEF BlocksAccounted
  <2>6. \A j \in Occupied : held[j] \subseteq usedBlocks
    BY Zenon DEF BlocksAccounted
  <2>7. \A j, k \in Occupied' : j # k => held'[j] \cap held'[k] = {}
    <3> SUFFICES ASSUME NEW j \in Occupied', NEW k \in Occupied', j # k
                 PROVE  held'[j] \cap held'[k] = {}
      OBVIOUS
    <3>1. CASE j \in Occupied /\ k \in Occupied
      BY <2>4, <3>1 DEF BlocksAccounted
    <3>2. CASE j = i
      BY <2>2, <2>3, <2>4, <2>6, <3>2
    <3>3. CASE k = i
      BY <2>2, <2>3, <2>4, <2>6, <3>3
    <3> QED
      BY <2>3, <3>1, <3>2, <3>3
  <2>8. outstanding' = Cardinality(Occupied')
    <3>1. Cardinality(Occupied \cup {i}) = Cardinality(Occupied) + 1
      BY <2>3, OccupiedFinite, FS_AddElement
    <3> QED
      BY <2>1, <2>3, <3>1 DEF BlocksAccounted
  <2> QED
    BY <2>5, <2>7, <2>8, Zenon DEF BlocksAccounted
<1>3. CASE \E i \in Slots : CancelSend(i)
  <2> PICK i \in Slots : CancelSend(i)
    BY <1>3
  <2>1. Occupied' = Occupied
    BY CancelMarks DEF Occupied
  <2> QED
    BY <2>1, BlocksFrame DEF CancelSend
<1>4. CASE \E i \in Slots : Release(i)
  <2> PICK i \in Slots : Release(i)
    BY <1>4
  <2>1. /\ state[i] = "Done" /\ outstanding' = outstanding - 1 /\ held' = held
        /\ state' = [state EXCEPT ![i] = "Free"] /\ usedBlocks' = usedBlocks \ held[i]
    BY Zenon DEF Release, Results
  <2>2. Occupied' = Occupied \ {i} /\ i \in Occupied
    BY <1>0, <2>1 DEF Occupied
  <2>3. usedBlocks' = UNION {held'[j] : j \in Occupied'}
    <3>1. usedBlocks = UNION {held[j] : j \in Occupied}
      BY Zenon DEF BlocksAccounted
    <3>2. \A j \in Occupied' : held[j] \cap held[i] = {}
      BY <2>2 DEF BlocksAccounted
    <3>3. \A b : b \in usedBlocks <=> \E j \in Occupied : b \in held[j]
      BY <3>1, Zenon
    <3>4. \A b : b \in usedBlocks' <=> \E j \in Occupied' : b \in held'[j]
      BY <2>1, <2>2, <3>2, <3>3
    <3> QED
      BY <3>4, Zenon
  <2>4. \A j, k \in Occupied' : j # k => held'[j] \cap held'[k] = {}
    BY <2>1, <2>2 DEF BlocksAccounted
  <2>5. outstanding' = Cardinality(Occupied')
    <3>1. Cardinality(Occupied \ {i}) = Cardinality(Occupied) - 1
      BY <2>2, OccupiedFinite, FS_RemoveElement
    <3> QED
      BY <2>1, <2>2, <3>1 DEF BlocksAccounted
  <2> QED
    BY <2>3, <2>4, <2>5, Zenon DEF BlocksAccounted
<1> QED
  BY <1>1, <1>2, <1>3, <1>4 DEF UiStep

LEMMA BlocksService ==
  ASSUME MailType, ServiceInv, BlocksAccounted, ServiceOnly \/ SlotStep
  PROVE  BlocksAccounted'
<1> USE SlotFacts
<1>1. CASE ServiceOnly \/ TakeHead
  <2>1. UNCHANGED <<slotVars, uiVars>>
    BY <1>1, Zenon DEF ServiceOnly, TakeHead
  <2>2. Occupied' = Occupied
    BY <2>1 DEF Occupied, slotVars
  <2> QED
    BY <2>1, <2>2, BlocksFrame DEF slotVars, uiVars
<1>2. CASE Take \/ ClaimLifecycle \/ ClaimCompletion \/ PublishCompletion
  <2>1. UNCHANGED <<held, uiVars>>
    BY <1>2, Zenon DEF Take, ClaimLifecycle, ClaimCompletion, PublishCompletion
  <2>2. Occupied' = Occupied
    <3> USE MailTypeFacts DEF Occupied
    <3>1. CASE Take
      BY <3>1 DEF Take, ServiceInv
    <3>2. CASE ClaimLifecycle
      BY <3>2 DEF ClaimLifecycle
    <3>3. CASE ClaimCompletion
      BY <3>3 DEF ClaimCompletion, ServiceInv, Kept
    <3>4. CASE PublishCompletion
      BY <3>4 DEF PublishCompletion, ServiceInv
    <3> QED
      BY <1>2, <3>1, <3>2, <3>3, <3>4
  <2> QED
    BY <2>1, <2>2, BlocksFrame DEF uiVars
<1> QED
  BY <1>1, <1>2 DEF SlotStep

-----------------------------------------------------------------------------
(* The mailbox.                                                            *)
MailInv ==
  /\ MailType /\ ServiceInv /\ AdmissionInv /\ RingInv /\ WaitingInv
  /\ LifecycleLast /\ CancelInv /\ BlocksAccounted

LEMMA MailInit == Empty => MailInv
<1> SUFFICES ASSUME Empty PROVE MailInv
  OBVIOUS
<1> USE SlotFacts
<1>1. /\ \A i \in Slots : state[i] = "Free" /\ id[i] = 0
      /\ svc.phase = "idle" /\ ui.phase = "idle" /\ sends = {} /\ acknowledged = {}
      /\ readyHead = 0 /\ readyTail = 0 /\ lastTaken = 0 /\ nextId = 0
      /\ usedBlocks = {} /\ outstanding = 0
  BY DEF Empty, SvcIdle, UiIdle
<1>2. Occupied = {} /\ InRing = {}
  <2>1. Occupied = {}
    BY <1>1, Zenon DEF Occupied
  <2>2. readyHead = 0 /\ readyTail = 0
    BY <1>1
  <2>3. InRing = {}
    BY <2>2 DEF InRing
  <2> QED
    BY <2>1, <2>3
<1>3. ServiceInv /\ AdmissionInv /\ WaitingInv /\ LifecycleLast
  BY <1>1 DEF ServiceInv, AdmissionInv, WaitingInv, LifecycleLast, Waiting
<1>4. RingInv
  BY <1>1, <1>2 DEF RingInv, Taking
<1>5. CancelInv
  BY <1>1, <1>2 DEF CancelInv, CancelHonoured
<1>6. BlocksAccounted
  <2>1. Cardinality(Occupied) = 0
    BY <1>2, FS_EmptySet
  <2>2. UNION {held[i] : i \in Occupied} = {}
    BY <1>2, Zenon
  <2> QED
    BY <1>1, <1>2, <2>1, <2>2 DEF BlocksAccounted
<1> QED
  BY <1>3, <1>4, <1>5, <1>6, MailTypeInit DEF MailInv

LEMMA MailKeeps ==
  ASSUME MailInv, MailStep
  PROVE  MailInv'
<1> USE DEF MailInv
<1>1. CASE UiStep
  <2>1. MailType'
    BY <1>1, TypeUi DEF RingInv
  <2> QED
    BY <1>1, <2>1, ServiceUi, AdmissionUi, RingUi, WaitingUi, LastUi, CancelUi, BlocksUi
<1>2. CASE ServiceOnly
  <2>1. MailType'
    BY <1>2, TypeServiceOnly DEF ServiceInv
  <2> QED
    BY <1>2, <2>1, ServiceAlone, AdmissionAlone, RingAlone, WaitingAlone, LastAlone, CancelAlone,
       BlocksService
<1>3. CASE SlotStep
  BY <1>3, TypeSlotStep, ServiceSlots, AdmissionSlots, RingSlots, WaitingSlots, LastSlots, CancelSlots,
     BlocksService
<1> QED
  BY <1>1, <1>2, <1>3, StepKinds

LEMMA MailStutters ==
  ASSUME MailInv, UNCHANGED vars
  PROVE  MailInv'
<1>1. UNCHANGED <<slotVars, ringVars, accepting, uiVars, svcVars>>
  BY DEF vars, gateVars
<1>2. InRing' = InRing /\ (\A k : Ring(k)' = Ring(k)) /\ (Taking' <=> Taking)
  BY <1>1, RingKept, Zenon DEF Taking, svcVars
<1>3. MailType' /\ ServiceInv' /\ AdmissionInv' /\ LifecycleLast'
  BY <1>1, Zenon DEF MailInv, MailType, ServiceInv, AdmissionInv, LifecycleLast, IsLifecycle, slotVars,
     ringVars, uiVars, svcVars
<1>4. RingInv' /\ WaitingInv'
  BY <1>1, <1>2, Zenon DEF MailInv, RingInv, WaitingInv, slotVars, ringVars, uiVars, svcVars
<1>5. Occupied' = Occupied
  BY <1>1 DEF Occupied, slotVars
<1>6. CancelHonoured'
  BY <1>1 DEF MailInv, CancelInv, CancelHonoured, slotVars, uiVars
<1>7. CancelInv'
  BY <1>1, <1>5, <1>6 DEF MailInv, CancelInv, slotVars, uiVars, svcVars
<1>8. BlocksAccounted'
  BY <1>1, <1>5, BlocksFrame DEF MailInv, slotVars, uiVars
<1> QED
  BY <1>3, <1>4, <1>7, <1>8 DEF MailInv

(* Next is one of the steps above.                                         *)
LEMMA MailboxSteps == MailInv /\ [Next]_vars => MailInv'
<1>1. ASSUME MailInv, AllowRecovery PROVE MailStep
  BY <1>1, Zenon DEF AllowRecovery, MailStep, Gates
<1>2. Next => MailStep \/ AllowRecovery
  BY Zenon DEF Next, MailStep
<1> QED
  BY <1>1, <1>2, MailKeeps, MailStutters

(* The mailbox keeps its invariant, alone.                                 *)
THEOREM MailboxInvariant == Spec => []MailInv
<1>1. Init => MailInv
  BY MailInit DEF Init
<1> QED
  BY <1>1, MailboxSteps, PTL DEF Spec

(* Payload blocks belong to one occupied slot each and every other block   *)
(* is free, for any number of slots and blocks and any requests.           *)
THEOREM BlocksAreAccounted == Spec => []BlocksAccounted
<1>1. MailInv => BlocksAccounted
  BY DEF MailInv
<1> QED
  BY <1>1, MailboxInvariant, PTL

(* take() hands out a lifecycle request only when no normal request is     *)
(* left unanswered.                                                        *)
THEOREM LifecycleIsLast == Spec => []LifecycleLast
<1>1. MailInv => LifecycleLast
  BY DEF MailInv
<1> QED
  BY <1>1, MailboxInvariant, PTL

(* A send whose cancellation was acknowledged never ends as sent.          *)
THEOREM CancelIsHonoured == Spec => []CancelHonoured
<1>1. MailInv => CancelHonoured
  BY DEF MailInv, CancelInv
<1> QED
  BY <1>1, MailboxInvariant, PTL

(* A step takes nothing older than what was taken before.                  *)
LEMMA StepTakesInOrder ==
  ASSUME MailInv, MailStep
  PROVE  lastTaken' = lastTaken \/ lastTaken' >= lastTaken
<1>1. CASE UiStep
  BY <1>1, Zenon DEF UiStep, SubmitCheck, SubmitRefused, Fills, SubmitPush, CancelSend, Release, svcVars
<1>2. CASE ServiceOnly
  BY <1>2 DEF ServiceOnly
<1>3. CASE SlotStep
  <2>1. CASE Take /\ svc.slot # Lifecycle
    <3>1. Taking /\ lastTaken' = id[svc.slot] /\ svc.slot \in Slots
      BY <2>1 DEF Take, Taking, MailInv, ServiceInv
    <3>2. lastTaken < id[svc.slot] /\ lastTaken \in Nat /\ id[svc.slot] \in Nat
      BY <3>1, RingTyped, MailTypeFacts DEF MailInv, RingInv
    <3> QED
      BY <3>1, <3>2
  <2>2. CASE ~(Take /\ svc.slot # Lifecycle)
    BY <1>3, <2>2 DEF SlotStep, TakeHead, Take, ClaimLifecycle, ClaimCompletion, PublishCompletion
  <2> QED
    BY <2>1, <2>2
<1> QED
  BY <1>1, <1>2, <1>3, StepKinds

(* Normal requests reach the service in the order they were admitted.      *)
THEOREM TakesInOrder == Spec => TakenInOrder
<1>1. MailInv /\ [Next]_vars => [lastTaken' >= lastTaken]_lastTaken
  <2> SUFFICES ASSUME MailInv, [Next]_vars PROVE lastTaken' = lastTaken \/ lastTaken' >= lastTaken
    BY Zenon
  <2>1. CASE UNCHANGED vars
    BY <2>1 DEF vars, svcVars
  <2>2. CASE AllowRecovery
    BY <2>2 DEF AllowRecovery, svcVars
  <2>3. CASE Next /\ ~AllowRecovery
    BY <2>3, StepTakesInOrder, Zenon DEF Next, MailStep
  <2> QED
    BY <2>1, <2>2, <2>3
<1> QED
  BY <1>1, MailboxInvariant, PTL DEF Spec, TakenInOrder

-----------------------------------------------------------------------------
(* The device service.                                                     *)
DevicePhases == {"Running", "Quiescing", "Settling", "Performing", "Failed", "Stopped"}
Owned == {"Quiescing", "Settling", "Performing"}

(* Before an owner is bound nothing was submitted.                         *)
Blank ==
  /\ ui = UiIdle /\ svc = SvcIdle /\ ~accepting /\ ~recovery
  /\ \A i \in Slots : state[i] = "Free"

BarrierInv ==
  /\ phase = "Running" => status \in {"Starting", "Running", "Failed"}
  /\ phase \in Owned => status = "Quiescing"
  /\ phase = "Failed" => status = "Failed"
  /\ phase = "Stopped" => status = "Stopped"
  /\ phase \in DevicePhases
  /\ lifecycleSlot = (IF phase \in Owned THEN Lifecycle ELSE NoSlot)
  /\ svc.phase = "perform" <=> phase = "Performing"
  /\ status = "Starting" => Blank
  /\ status = "Failed" => recovery

(* The request being carried out keeps its slot until it is answered.      *)
OwnerInv ==
  /\ phase \in Owned => state[Lifecycle] = "Running"
  /\ phase \in Owned /\ svc.slot = Lifecycle => svc.phase \notin {"execute", "claim"}
  /\ svc.phase \in {"claim", "publish"} /\ svc.slot = Lifecycle => recovery \/ status = "Stopped"

OnceInv ==
  /\ performed \in {0, 1} /\ reported \in BOOLEAN
  /\ phase \notin {"Failed", "Stopped"} => performed = 0 /\ ~reported
  /\ FailureIsFinal

DeviceInv ==
  /\ MailInv /\ BarrierInv /\ OwnerInv /\ OnceInv
  /\ PerformsAlone /\ AlwaysAWayOut

(* Its steps in groups: the mailbox as it is used by the tick, in four     *)
(* parts; the maintenance; and the owners, who leave the mailbox alone.    *)
Moves ==
  /\ (Started /\ TakeBegin) \/ TakeHead \/ TakeLifecycle \/ TakeRecheck
     \/ \E i \in Slots : NoticeCancel(i)
  /\ UNCHANGED deviceVars

Answers ==
  /\ (svc.slot \in Normal /\ ExecuteStep) \/ \E i \in Normal : Finish(i)
  /\ UNCHANGED deviceVars

Passes ==
  /\ Take \/ (Started /\ ClaimLifecycle) \/ ClaimCompletion \/ PublishCompletion
  /\ UNCHANGED deviceVars

Ordinary == DeviceUi \/ Moves \/ Answers \/ Passes

LEMMA DeviceKinds ==
  ASSUME DeviceNext
  PROVE  \/ Ordinary \/ Owners \/ Deadline
         \/ (\E ok \in BOOLEAN : BindOwner(ok))
         \/ ExecuteLifecycle \/ PollMaintenance \/ RunLifecycle
<1>3. DeviceTake => Moves
  BY Zenon DEF DeviceTake, Moves
<1>4. DeviceClaim => Passes
  BY Zenon DEF DeviceClaim, Passes
<1>5. DeviceStep => Moves \/ Passes \/ Answers \/ ExecuteLifecycle \/ RunLifecycle
  BY Zenon DEF DeviceStep, TakeStep, PublishStep, ExecuteNormal, Moves, Passes, Answers
<1>6. ASSUME NEW i \in Slots, DeviceNotice(i) PROVE Moves
  BY <1>6, Zenon DEF DeviceNotice, Moves
<1>7. ASSUME NEW i \in Slots, DeviceFinish(i) PROVE Answers
  BY <1>7, Zenon DEF DeviceFinish, Answers
<1> QED
  BY <1>3, <1>4, <1>5, <1>6, <1>7, Zenon DEF DeviceNext, Ordinary

(* What each group does to the position of the service.                    *)
LEMMA MovesFacts ==
  ASSUME MailType, Moves
  PROVE  /\ UNCHANGED <<slotVars, uiVars, recovery, sends>>
         /\ svc.phase \in {"idle", "head", "lifecycle", "recheck"}
         /\ svc'.phase \in {"idle", "head", "lifecycle", "recheck", "take"}
         /\ accepting => accepting' \/ state[Lifecycle] = "Ready"
<1>1. UNCHANGED <<slotVars, uiVars, recovery, sends>>
  BY Zenon DEF Moves, TakeBegin, TakeHead, TakeLifecycle, TakeRecheck, NoticeCancel, gateVars
<1>2. accepting => accepting' \/ state[Lifecycle] = "Ready"
  BY Zenon DEF Moves, TakeBegin, TakeHead, TakeLifecycle, TakeRecheck, NoticeCancel, gateVars
<1>3. /\ svc.phase \in {"idle", "head", "lifecycle", "recheck"}
      /\ svc'.phase \in {"idle", "head", "lifecycle", "recheck", "take"}
  <2> USE MailTypeFacts DEF SvcType, SvcIdle, Goto
  <2>1. CASE TakeBegin
    BY <2>1 DEF TakeBegin
  <2>2. CASE TakeHead
    BY <2>2 DEF TakeHead
  <2>3. CASE TakeLifecycle
    BY <2>3 DEF TakeLifecycle
  <2>4. CASE TakeRecheck
    <3>1. svc.phase = "recheck"
      BY <2>4 DEF TakeRecheck
    <3>2. svc' = SvcIdle \/ svc' = [svc EXCEPT !.phase = "take", !.slot = Lifecycle]
      BY <2>4, Zenon DEF TakeRecheck
    <3>3. [svc EXCEPT !.phase = "take", !.slot = Lifecycle].phase = "take" /\ SvcIdle.phase = "idle"
      OBVIOUS
    <3>4. svc'.phase \in {"idle", "take"}
      BY <3>2, <3>3, Zenon
    <3> QED
      BY <3>1, <3>4, Zenon
  <2>5. CASE \E i \in Slots : NoticeCancel(i)
    <3>1. svc = SvcIdle /\ svc' = svc
      BY <2>5, Zenon DEF NoticeCancel
    <3> QED
      BY <3>1
  <2> QED
    BY <2>1, <2>2, <2>3, <2>4, <2>5 DEF Moves
<1> QED
  BY <1>1, <1>2, <1>3

LEMMA AnswersFacts ==
  ASSUME MailType, Answers
  PROVE  /\ UNCHANGED <<slotVars, uiVars, gateVars>>
         /\ svc.phase \in {"idle", "execute"}
         /\ svc'.phase \in {"idle", "claim"}
         /\ svc'.phase = "claim" => svc'.slot \in Normal
<1>1. UNCHANGED <<slotVars, uiVars, gateVars>>
  BY Zenon DEF Answers, ExecuteStep, ExecuteSend, ExecuteOther, Finish
<1>2. svc.phase \in {"idle", "execute"}
  <2>1. svc.phase = "execute" \/ svc = SvcIdle
    BY Zenon DEF Answers, ExecuteStep, ExecuteSend, ExecuteOther, Finish
  <2> QED
    BY <2>1 DEF SvcIdle
<1>3. svc' = SvcIdle \/ \E i \in Normal : \E o : Completes(i, o)
  BY Zenon DEF Answers, ExecuteStep, ExecuteSend, ExecuteOther, Finish
<1> QED
  BY <1>1, <1>2, <1>3 DEF SvcIdle, Completes

LEMMA PassesFacts ==
  ASSUME MailType, ServiceInv, AdmissionInv, Passes
  PROVE  /\ UNCHANGED <<request, id, held, ringVars, gateVars, uiVars>>
         /\ svc.phase # "perform" /\ svc'.phase # "perform" /\ svc'.phase # "claim"
         /\ svc'.phase = "execute" /\ svc'.slot = Lifecycle => state[Lifecycle] = "Ready"
         /\ svc'.phase = "publish" => svc.phase = "claim" /\ svc'.slot = svc.slot
         /\ \/ state'[Lifecycle] = state[Lifecycle]
            \/ state[Lifecycle] = "Ready" /\ state'[Lifecycle] = "Running"
            \/ svc.phase = "claim" /\ svc.slot = Lifecycle /\ state'[Lifecycle] = "Completing"
            \/ svc.phase = "publish" /\ svc.slot = Lifecycle /\ state[Lifecycle] = "Completing"
<1>0. /\ state \in [Slots -> SlotStates] /\ Lifecycle \in Slots
      /\ svc.phase \in {"take", "execute", "claim", "publish"} => svc.slot \in Slots
      /\ svc.phase = "take" => state[svc.slot] \in {"Ready", "CancelReady"}
      /\ svc.phase = "publish" => state[svc.slot] = "Completing"
      /\ state[Lifecycle] # "CancelReady"
  BY MailTypeFacts, SlotFacts DEF ServiceInv, AdmissionInv
<1>1. UNCHANGED <<request, id, held, ringVars, gateVars, uiVars>>
  BY Zenon DEF Passes, Take, ClaimLifecycle, ClaimCompletion, PublishCompletion
<1>2. CASE Take
  <2>1. svc.phase = "take" /\ svc'.phase = "execute" /\ svc'.slot = svc.slot
    BY <1>2, MailTypeFacts DEF Take, Goto, SvcType
  <2>2. state' = [state EXCEPT ![svc.slot] = IF @ = "CancelReady" THEN "CancelRunning" ELSE "Running"]
    BY <1>2 DEF Take
  <2> QED
    BY <1>0, <1>1, <2>1, <2>2
<1>3. CASE ClaimLifecycle
  <2>1. svc.phase = "idle" /\ svc'.phase = "execute" /\ state[Lifecycle] = "Ready"
    BY <1>3 DEF ClaimLifecycle, SvcIdle
  <2>2. state' = [state EXCEPT ![Lifecycle] = "Running"]
    BY <1>3 DEF ClaimLifecycle
  <2> QED
    BY <1>0, <1>1, <2>1, <2>2
<1>4. CASE ClaimCompletion
  <2>1. svc.phase = "claim" /\ svc'.phase = "publish" /\ svc'.slot = svc.slot
    <3>1. svc \in SvcType /\ svc.phase = "claim"
      BY <1>4, MailTypeFacts DEF ClaimCompletion
    <3>2. \A c : LET w == [svc EXCEPT !.phase = "publish", !.cancelled = c] IN
            w.phase = "publish" /\ w.slot = svc.slot
      BY <3>1 DEF SvcType
    <3> QED
      BY <1>4, <3>1, <3>2, Zenon DEF ClaimCompletion
  <2>2. state' = [state EXCEPT ![svc.slot] = "Completing"]
    BY <1>4 DEF ClaimCompletion
  <2> QED
    BY <1>0, <1>1, <2>1, <2>2
<1>5. CASE PublishCompletion
  <2>1. svc.phase = "publish" /\ svc'.phase = "idle"
    BY <1>5 DEF PublishCompletion, SvcIdle
  <2>2. state' = [state EXCEPT ![svc.slot] = "Done"]
    BY <1>5, Zenon DEF PublishCompletion
  <2> QED
    BY <1>0, <1>1, <2>1, <2>2
<1> QED
  BY <1>2, <1>3, <1>4, <1>5 DEF Passes

(* What the UI does to the reserved slot and to admission.                 *)
LEMMA UiFacts ==
  ASSUME MailType, Ui
  PROVE  /\ UNCHANGED <<svcVars, recovery>>
         /\ state'[Lifecycle] = state[Lifecycle] \/ state[Lifecycle] \in {"Free", "Done"}
         /\ accepting => accepting' \/ state'[Lifecycle] = "Ready"
         /\ accepting' => accepting
         /\ \A i \in Normal : state'[i] \in Pending /\ state[i] \notin Pending
              => ui.phase = "checked" /\ ~IsLifecycle(ui.request)
<1>0. state \in [Slots -> SlotStates] /\ Lifecycle \in Slots /\ Lifecycle \notin Normal
      /\ Normal \subseteq Slots
  BY MailTypeFacts, SlotFacts
<1>1. CASE \E r \in Requests : SubmitCheck(r)
  <2>1. state' = state /\ accepting' = accepting /\ UNCHANGED <<svcVars, recovery>>
    BY <1>1, Zenon DEF SubmitCheck, slotVars, gateVars
  <2> QED
    BY <2>1
<1>2. CASE SubmitRefused \/ SubmitPush
  <2>1. state' = state /\ accepting' = accepting /\ UNCHANGED <<svcVars, recovery>>
    BY <1>2, Zenon DEF SubmitRefused, SubmitPush, slotVars, gateVars
  <2> QED
    BY <2>1
<1>3. CASE \E i : Fills(i, ui.request)
  <2> PICK i : Fills(i, ui.request)
    BY <1>3, Zenon
  <2>1. /\ i \in Slots /\ state[i] = "Free" /\ (i = Lifecycle <=> IsLifecycle(ui.request))
        /\ state' = [state EXCEPT ![i] = "Ready"] /\ UNCHANGED <<svcVars, recovery>>
        /\ ui.phase = "checked"
    BY Zenon DEF Fills
  <2>2. (accepting => accepting' \/ i = Lifecycle) /\ (accepting' => accepting)
    BY <2>1, Zenon DEF Fills
  <2>3. state'[Lifecycle] = state[Lifecycle] \/ state[Lifecycle] \in {"Free", "Done"}
    BY <1>0, <2>1
  <2>4. i = Lifecycle => state'[Lifecycle] = "Ready"
    BY <1>0, <2>1
  <2>5. \A j \in Normal : j # i => state'[j] = state[j]
    BY <1>0, <2>1
  <2> QED
    BY <1>0, <2>1, <2>2, <2>3, <2>4, <2>5, Zenon
<1>4. CASE \E i \in Slots : CancelSend(i)
  <2> PICK i \in Slots : CancelSend(i)
    BY <1>4
  <2>1. UNCHANGED <<svcVars, recovery>> /\ accepting' = accepting /\ i \in Normal /\ state[i] \in Pending
    BY DEF CancelSend, gateVars, Pending, Running
  <2>2. \A j \in Slots : j # i => state'[j] = state[j]
    BY CancelMarks, Zenon DEF CancelSend
  <2> QED
    BY <1>0, <2>1, <2>2
<1>5. CASE \E i \in Slots : Release(i)
  <2> PICK i \in Slots : Release(i)
    BY <1>5
  <2>1. UNCHANGED <<svcVars, recovery>> /\ accepting' = accepting /\ state[i] = "Done"
        /\ state' = [state EXCEPT ![i] = "Free"]
    BY Zenon DEF Release, Results, gateVars
  <2> QED
    BY <1>0, <2>1 DEF Pending, Running
<1> QED
  BY <1>1, <1>2, <1>3, <1>4, <1>5, UiSteps DEF UiStep

-----------------------------------------------------------------------------
(* The mailbox under the device service takes steps of the mailbox.        *)
LEMMA DeviceMails ==
  ASSUME DeviceInv, DeviceNext
  PROVE  MailStep \/ UNCHANGED vars
<1>1. Moves \/ Answers \/ Passes => Service
  BY SlotFacts, Zenon DEF Moves, Answers, Passes, Service, ServiceStep, TakeStep, PublishStep
<1>2. CASE DeviceUi
  BY <1>2, Zenon DEF DeviceUi, MailStep
<1>3. CASE \E ok \in BOOLEAN : BindOwner(ok)
  <2>1. state[Lifecycle] = "Free"
    BY <1>3, SlotFacts DEF BindOwner, DeviceInv, BarrierInv, Blank
  <2> QED
    BY <1>3, <2>1, Zenon DEF BindOwner, Gates, MailStep
<1>4. CASE ExecuteLifecycle
  <2>1. state[Lifecycle] \in Kept /\ svc.phase = "execute"
    BY <1>4 DEF ExecuteLifecycle, DeviceInv, MailInv, ServiceInv
  <2>2. svc' = SvcIdle \/ Completes(Lifecycle, "Ok") \/ Completes(Lifecycle, "NotReady")
    BY <1>4, Zenon DEF ExecuteLifecycle
  <2>3. UNCHANGED <<slotVars, ringVars, accepting, uiVars, sends, noticed, lastTaken>>
    BY <1>4, Zenon DEF ExecuteLifecycle, gateVars
  <2>4. "Ok" \in Outcomes /\ "NotReady" \in Outcomes
    BY DEF Outcomes
  <2> QED
    BY <2>1, <2>2, <2>3, <2>4 DEF Hands, MailStep
<1>5. CASE PollMaintenance
  <2>1. svc = SvcIdle /\ svc.phase = "idle"
    BY <1>5 DEF PollMaintenance, SvcIdle
  <2>2. lifecycleSlot # NoSlot => lifecycleSlot = Lifecycle /\ state[Lifecycle] \in Kept
    BY DEF DeviceInv, BarrierInv, OwnerInv, Kept
  <2>3. svc' = svc \/ Goto("perform") \/ (lifecycleSlot # NoSlot /\ Completes(lifecycleSlot, "Failed"))
    BY <1>5, Zenon DEF PollMaintenance
  <2>4. UNCHANGED <<slotVars, ringVars, accepting, uiVars, sends, noticed, lastTaken>>
    BY <1>5, Zenon DEF PollMaintenance
  <2>5. "Failed" \in Outcomes
    BY DEF Outcomes
  <2> QED
    BY <2>1, <2>2, <2>3, <2>4, <2>5 DEF Hands, MailStep
<1>6. CASE RunLifecycle
  <2>1. lifecycleSlot = Lifecycle /\ state[Lifecycle] \in Kept /\ svc.phase = "perform"
    BY <1>6 DEF RunLifecycle, DeviceInv, BarrierInv, OwnerInv, Kept, Owned
  <2>2. Completes(Lifecycle, "Ok") \/ Completes(Lifecycle, "Failed")
    BY <1>6, <2>1, Zenon DEF RunLifecycle
  <2>3. UNCHANGED <<slotVars, ringVars, accepting, uiVars, sends, noticed, lastTaken>>
    BY <1>6, Zenon DEF RunLifecycle
  <2>4. "Ok" \in Outcomes /\ "Failed" \in Outcomes
    BY DEF Outcomes
  <2> QED
    BY <2>1, <2>2, <2>3, <2>4 DEF Hands, MailStep
<1>7. CASE Owners \/ Deadline
  BY <1>7, Zenon DEF Owners, Deadline
<1> QED
  BY <1>1, <1>2, <1>3, <1>4, <1>5, <1>6, <1>7, DeviceKinds DEF Ordinary, MailStep

(* How the mailbox moves under the barrier, in one place.                  *)
LEMMA OrdinaryFacts ==
  ASSUME MailInv, Ordinary
  PROVE  /\ UNCHANGED deviceVars /\ recovery' = recovery
         /\ svc'.phase = "perform" <=> svc.phase = "perform"
         /\ svc.phase = "perform" => DeviceUi
         /\ svc'.phase = "execute" /\ svc'.slot = Lifecycle =>
              (svc.phase = "execute" /\ svc.slot = Lifecycle) \/ state[Lifecycle] = "Ready"
         /\ svc'.phase \in {"claim", "publish"} /\ svc'.slot = Lifecycle =>
              svc.phase \in {"claim", "publish"} /\ svc.slot = Lifecycle
         /\ svc'.phase = "claim" /\ svc'.slot = Lifecycle => svc.phase = "claim"
         /\ \/ state'[Lifecycle] = state[Lifecycle]
            \/ state[Lifecycle] = "Ready" /\ state'[Lifecycle] = "Running"
            \/ svc.phase = "claim" /\ svc.slot = Lifecycle /\ state'[Lifecycle] = "Completing"
            \/ svc.phase = "publish" /\ svc.slot = Lifecycle /\ state[Lifecycle] = "Completing"
            \/ state[Lifecycle] \in {"Free", "Done"}
         /\ accepting /\ ~accepting' => state[Lifecycle] = "Ready" \/ state'[Lifecycle] = "Ready"
<1>0. MailType /\ ServiceInv /\ AdmissionInv /\ Lifecycle \notin Normal
  BY SlotFacts DEF MailInv
<1>1. CASE DeviceUi
  <2>1. svc' = svc /\ UNCHANGED deviceVars /\ recovery' = recovery
    BY <1>0, <1>1, UiFacts DEF DeviceUi, svcVars
  <2> QED
    BY <1>0, <1>1, <2>1, UiFacts DEF DeviceUi
<1>2. CASE Moves
  <2>1. UNCHANGED deviceVars
    BY <1>2 DEF Moves
  <2>2. state' = state /\ recovery' = recovery
    BY <1>0, <1>2, MovesFacts DEF slotVars
  <2> QED
    BY <1>0, <1>2, <2>1, <2>2, MovesFacts
<1>3. CASE Answers
  <2>1. UNCHANGED deviceVars
    BY <1>3 DEF Answers
  <2>2. state' = state /\ recovery' = recovery /\ accepting' = accepting
    BY <1>0, <1>3, AnswersFacts DEF slotVars, gateVars
  <2> QED
    BY <1>0, <1>3, <2>1, <2>2, AnswersFacts
<1>4. CASE Passes
  <2>1. UNCHANGED deviceVars
    BY <1>4 DEF Passes
  <2>2. recovery' = recovery /\ accepting' = accepting
    BY <1>0, <1>4, PassesFacts DEF gateVars
  <2> QED
    BY <1>0, <1>4, <2>1, <2>2, PassesFacts
<1> QED
  BY <1>1, <1>2, <1>3, <1>4 DEF Ordinary

(* Before an owner is bound the mailbox takes no step.                     *)
LEMMA BlankWaits ==
  ASSUME MailType, Blank, status = "Starting"
  PROVE  ~Ordinary
<1>1. svc.phase = "idle" /\ ui.phase = "idle" /\ ~Started
  BY DEF Blank, SvcIdle, UiIdle, Started
<1>2. \A i \in Slots : state[i] = "Free"
  BY DEF Blank
<1>3. ~DeviceUi
  <2>1. \A r : ~SubmitCheck(r)
    BY DEF SubmitCheck, Admissible, Blank
  <2>2. ~Submitting
    BY <1>1 DEF Submitting, SubmitRefused, SubmitReady, SubmitPush
  <2>3. \A i \in Slots : ~CancelSend(i) /\ ~Release(i)
    BY <1>2 DEF CancelSend, Release, Results
  <2> QED
    BY <2>1, <2>2, <2>3, Zenon DEF DeviceUi, Ui
<1>4. ~Moves
  <2>1. \A i \in Slots : ~NoticeCancel(i)
    BY <1>2 DEF NoticeCancel, CancelRequested
  <2> QED
    BY <1>1, <2>1 DEF Moves, TakeHead, TakeLifecycle, TakeRecheck
<1>5. ~Answers
  <2>1. \A i \in Normal : ~Finish(i)
    BY <1>2, SlotFacts DEF Finish
  <2> QED
    BY <1>1, <2>1 DEF Answers, ExecuteStep, ExecuteSend, ExecuteOther
<1>6. ~Passes
  BY <1>1 DEF Passes, Take, ClaimCompletion, PublishCompletion
<1> QED
  BY <1>3, <1>4, <1>5, <1>6 DEF Ordinary

LEMMA BarrierOrdinary ==
  ASSUME DeviceInv, Ordinary
  PROVE  BarrierInv'
<1>1. status # "Starting"
  BY BlankWaits DEF DeviceInv, MailInv, BarrierInv
<1>2. /\ UNCHANGED <<status, phase, lifecycleSlot>> /\ recovery' = recovery
      /\ svc'.phase = "perform" <=> svc.phase = "perform"
  BY OrdinaryFacts DEF DeviceInv, deviceVars, barrierVars
<1> QED
  BY <1>1, <1>2 DEF DeviceInv, BarrierInv

LEMMA OwnerOrdinary ==
  ASSUME DeviceInv, Ordinary
  PROVE  OwnerInv'
<1>1. UNCHANGED <<status, phase>> /\ recovery' = recovery
  BY OrdinaryFacts DEF DeviceInv, deviceVars, barrierVars
<1>2. MailInv /\ OwnerInv
  BY DEF DeviceInv
<1>3. phase \in Owned => state'[Lifecycle] = "Running"
  BY <1>2, OrdinaryFacts DEF OwnerInv
<1>4. phase \in Owned /\ svc'.slot = Lifecycle => svc'.phase \notin {"execute", "claim"}
  BY <1>2, OrdinaryFacts DEF OwnerInv
<1>5. svc'.phase \in {"claim", "publish"} /\ svc'.slot = Lifecycle => recovery \/ status = "Stopped"
  BY <1>2, OrdinaryFacts DEF OwnerInv
<1> QED
  BY <1>1, <1>3, <1>4, <1>5 DEF OwnerInv

LEMMA WayOutOrdinary ==
  ASSUME DeviceInv, Ordinary
  PROVE  AlwaysAWayOut'
<1>1. status' = status /\ recovery' = recovery
  BY OrdinaryFacts DEF DeviceInv, deviceVars
<1>2. MailInv /\ OwnerInv /\ AlwaysAWayOut /\ BarrierInv
  BY DEF DeviceInv
<1>3. CASE recovery \/ status = "Stopped"
  BY <1>1, <1>3 DEF AlwaysAWayOut
<1>4. CASE ~recovery /\ status # "Stopped"
  <2>1. ~(svc.phase \in {"claim", "publish"} /\ svc.slot = Lifecycle)
    BY <1>2, <1>4 DEF OwnerInv
  <2>2. \/ state'[Lifecycle] = state[Lifecycle]
        \/ state[Lifecycle] = "Ready" /\ state'[Lifecycle] = "Running"
        \/ state[Lifecycle] \in {"Free", "Done"}
    BY <1>2, <2>1, OrdinaryFacts
  <2>3. accepting /\ ~accepting' => state[Lifecycle] = "Ready" \/ state'[Lifecycle] = "Ready"
    BY <1>2, OrdinaryFacts
  <2> QED
    BY <1>1, <1>2, <1>4, <2>2, <2>3 DEF AlwaysAWayOut, Started, Pending, Running
<1> QED
  BY <1>3, <1>4

LEMMA AloneOrdinary ==
  ASSUME DeviceInv, Ordinary
  PROVE  PerformsAlone'
<1>0. MailInv /\ OwnerInv /\ BarrierInv /\ PerformsAlone
  BY DEF DeviceInv
<1> SUFFICES ASSUME svc'.phase = "perform" PROVE PerformsAlone'
  BY DEF PerformsAlone
<1>1. svc.phase = "perform" /\ Ui /\ UNCHANGED deviceVars
  BY <1>0, OrdinaryFacts DEF DeviceUi
<1>2. state[Lifecycle] = "Running"
  BY <1>0, <1>1 DEF BarrierInv, OwnerInv, Owned
<1>3. MailType /\ (ui.phase # "idle" => IsLifecycle(ui.request))
  BY <1>0, <1>2 DEF MailInv, AdmissionInv
<1>4. /\ \A i \in Normal : state[i] \notin Pending
      /\ sends = {} /\ ~unsettled /\ ~application /\ ~helpers /\ storageStopped
      /\ ~accepting /\ ui.phase # "ready"
  BY <1>0, <1>1 DEF PerformsAlone
<1>5. \A i \in Normal : state'[i] \notin Pending
  BY <1>1, <1>3, <1>4, UiFacts
<1>6. sends' = {} /\ ~accepting' /\ UNCHANGED <<unsettled, application, helpers, storageStopped>>
  BY <1>1, <1>3, <1>4, UiFacts DEF svcVars, deviceVars, ownerVars
<1>7. ui'.phase # "ready"
  <2>1. MailInv'
    BY <1>0, <1>1, MailKeeps DEF MailStep
  <2>2. state'[Lifecycle] = "Running"
    BY <1>1, <1>2, <1>3, UiFacts
  <2> QED
    BY <2>1, <2>2 DEF MailInv, AdmissionInv
<1> QED
  BY <1>4, <1>5, <1>6, <1>7 DEF PerformsAlone

LEMMA OnceOrdinary ==
  ASSUME DeviceInv, UNCHANGED <<phase, toldVars>>
  PROVE  OnceInv'
BY DEF DeviceInv, OnceInv, FailureIsFinal, toldVars

-----------------------------------------------------------------------------
(* The steps of the maintenance, one by one.                               *)
Told == BarrierInv /\ OwnerInv /\ OnceInv /\ PerformsAlone /\ AlwaysAWayOut

LEMMA BindKeeps ==
  ASSUME DeviceInv, NEW ok \in BOOLEAN, BindOwner(ok)
  PROVE  Told'
<1>1. status = "Starting" /\ phase = "Running" /\ svc.phase = "idle"
  BY DEF BindOwner, DeviceInv, BarrierInv, Blank, SvcIdle, DevicePhases, Owned
<1>2. UNCHANGED <<state, svc, phase, lifecycleSlot, performed, reported>>
  BY Zenon DEF BindOwner, slotVars, svcVars, barrierVars, toldVars
<1>3. \/ status' = "Running" /\ accepting'
      \/ status' = "Failed" /\ recovery'
  BY Zenon DEF BindOwner
<1>4. BarrierInv'
  BY <1>1, <1>2, <1>3 DEF DeviceInv, BarrierInv, DevicePhases, Owned
<1>5. OwnerInv'
  BY <1>1, <1>2 DEF OwnerInv, Owned
<1>6. OnceInv'
  BY <1>2, OnceOrdinary DEF toldVars
<1>7. PerformsAlone' /\ AlwaysAWayOut'
  BY <1>1, <1>2, <1>3 DEF PerformsAlone, AlwaysAWayOut
<1> QED
  BY <1>4, <1>5, <1>6, <1>7 DEF Told

LEMMA ExecuteKeeps ==
  ASSUME DeviceInv, ExecuteLifecycle
  PROVE  Told'
<1>0. BarrierInv /\ OwnerInv /\ OnceInv /\ AlwaysAWayOut
  BY DEF DeviceInv
<1>1. svc.phase = "execute" /\ svc.slot = Lifecycle
  BY DEF ExecuteLifecycle
<1>2. UNCHANGED <<state, recovery, accepting, performed, reported>>
  BY Zenon DEF ExecuteLifecycle, slotVars, gateVars, toldVars
<1>3. status # "Starting" /\ phase \notin Owned
  BY <1>0, <1>1 DEF BarrierInv, OwnerInv, Blank, SvcIdle
<1>4. \/ /\ status = "Failed" \/ status # "Running" \/ ~Open
         /\ \E o : Completes(Lifecycle, o)
         /\ UNCHANGED <<phase, status, lifecycleSlot>>
      \/ /\ status = "Running" /\ Open
         /\ phase' = "Quiescing" /\ status' = "Quiescing" /\ lifecycleSlot' = Lifecycle
         /\ svc' = SvcIdle
  BY Zenon DEF ExecuteLifecycle, Forced
<1>5. CASE /\ status = "Failed" \/ status # "Running" \/ ~Open
           /\ \E o : Completes(Lifecycle, o)
           /\ UNCHANGED <<phase, status, lifecycleSlot>>
  <2>1. svc'.phase = "claim" /\ svc'.slot = Lifecycle
    BY <1>5 DEF Completes
  <2>2. status \in {"Failed", "Stopped"}
    BY <1>0, <1>3, <1>5 DEF BarrierInv, DevicePhases, Owned, Open
  <2>3. BarrierInv'
    BY <1>0, <1>1, <1>2, <1>3, <1>5, <2>1 DEF BarrierInv
  <2>4. OwnerInv'
    BY <1>0, <1>2, <1>3, <1>5, <2>1, <2>2 DEF BarrierInv, OwnerInv
  <2>5. OnceInv'
    BY <1>2, <1>5, OnceOrdinary DEF toldVars
  <2>6. PerformsAlone' /\ AlwaysAWayOut'
    BY <1>0, <1>2, <1>5, <2>1 DEF PerformsAlone, AlwaysAWayOut, Started
  <2> QED
    BY <2>3, <2>4, <2>5, <2>6 DEF Told
<1>6. CASE /\ status = "Running" /\ Open
           /\ phase' = "Quiescing" /\ status' = "Quiescing" /\ lifecycleSlot' = Lifecycle
           /\ svc' = SvcIdle
  <2>1. svc'.phase = "idle"
    BY <1>6 DEF SvcIdle
  <2>2. state[Lifecycle] = "Running"
    <3>1. state[Lifecycle] \in Kept /\ state[Lifecycle] # "CancelRunning"
      BY <1>1 DEF DeviceInv, MailInv, ServiceInv, AdmissionInv
    <3> QED
      BY <3>1 DEF Kept
  <2>3. BarrierInv'
    BY <1>6, <2>1 DEF BarrierInv, DevicePhases, Owned
  <2>4. OwnerInv'
    BY <1>2, <2>1, <2>2 DEF OwnerInv
  <2>5. OnceInv'
    BY <1>0, <1>2, <1>6 DEF OnceInv, FailureIsFinal, Open
  <2>6. PerformsAlone' /\ AlwaysAWayOut'
    BY <1>0, <1>2, <1>6, <2>1, <2>2 DEF PerformsAlone, AlwaysAWayOut, Pending, Running
  <2> QED
    BY <2>3, <2>4, <2>5, <2>6 DEF Told
<1> QED
  BY <1>4, <1>5, <1>6

LEMMA RunKeeps ==
  ASSUME DeviceInv, RunLifecycle
  PROVE  Told'
<1>0. BarrierInv /\ OwnerInv /\ OnceInv
  BY DEF DeviceInv
<1>1. phase = "Performing" /\ lifecycleSlot = Lifecycle
  BY <1>0 DEF RunLifecycle, BarrierInv, Owned
<1>2. UNCHANGED <<state, reported>> /\ lifecycleSlot' = NoSlot
  BY Zenon DEF RunLifecycle, slotVars
<1>3. PICK ok \in BOOLEAN, begun \in BOOLEAN :
        /\ performed' = IF begun THEN performed + 1 ELSE performed
        /\ phase' = IF ok THEN "Stopped" ELSE "Failed"
        /\ status' = IF ok THEN "Stopped" ELSE "Failed"
        /\ recovery' = (recovery \/ ~ok)
        /\ Completes(Lifecycle, IF ok THEN "Ok" ELSE "Failed")
  BY <1>1, Zenon DEF RunLifecycle, LeavesOpen
<1>4. \/ phase' = "Stopped" /\ status' = "Stopped"
      \/ phase' = "Failed" /\ status' = "Failed" /\ recovery'
  BY <1>3, Zenon
<1>5. svc'.phase = "claim"
  BY <1>3 DEF Completes
<1>6. performed = 0 /\ ~reported /\ performed' \in {0, 1}
  BY <1>0, <1>1, <1>3 DEF OnceInv
<1>7. BarrierInv'
  BY <1>2, <1>4, <1>5 DEF BarrierInv, DevicePhases, Owned
<1>8. OwnerInv'
  BY <1>4 DEF OwnerInv, Owned
<1>9. OnceInv'
  BY <1>0, <1>2, <1>4, <1>6 DEF OnceInv, FailureIsFinal
<1>10. PerformsAlone' /\ AlwaysAWayOut'
  BY <1>4, <1>5 DEF PerformsAlone, AlwaysAWayOut
<1> QED
  BY <1>7, <1>8, <1>9, <1>10 DEF Told

(* pollMaintenance(): past the deadline; on a device that has failed; the  *)
(* operation begins; or one stage more.                                    *)
LEMMA PollKinds ==
  ASSUME PollMaintenance
  PROVE  \/ /\ late /\ phase # "Failed"
            /\ phase' = "Failed" /\ status' = "Failed" /\ recovery' /\ reported'
            /\ lifecycleSlot' = NoSlot
            /\ svc' = SvcIdle \/ Completes(lifecycleSlot, "Failed")
         \/ /\ UNCHANGED <<phase, status, recovery, reported, lifecycleSlot, svc>>
         \/ /\ Performs /\ phase # "Failed" /\ phase' = "Performing" /\ Goto("perform")
            /\ UNCHANGED <<status, recovery, reported, lifecycleSlot>>
         \/ /\ phase # "Failed" /\ phase' = "Settling"
            /\ UNCHANGED <<status, recovery, reported, lifecycleSlot, svc>>
<1>1. CASE Expired
  <2>1. ~Performs /\ late /\ phase # "Failed"
    BY <1>1, Zenon DEF Performs, Expired
  <2>2. phase' = "Failed"
    BY <1>1, <2>1, Zenon DEF PollMaintenance
  <2> QED
    BY <1>1, <2>1, <2>2, Zenon DEF PollMaintenance
<1>2. CASE Performs
  <2>1. ~Expired /\ phase # "Failed"
    BY <1>2, Zenon DEF Performs
  <2> QED
    BY <1>2, <2>1, Zenon DEF PollMaintenance
<1>3. CASE ~Expired /\ ~Performs
  <2>1. UNCHANGED <<status, recovery, reported, lifecycleSlot, svc>>
    BY <1>3, Zenon DEF PollMaintenance
  <2>2. \/ phase' = phase
        \/ phase # "Failed" /\ phase' = "Settling"
    BY <1>3, Zenon DEF PollMaintenance
  <2> QED
    BY <2>1, <2>2, Zenon
<1> QED
  BY <1>1, <1>2, <1>3

LEMMA PollKeeps ==
  ASSUME DeviceInv, PollMaintenance
  PROVE  Told'
<1>0. BarrierInv /\ OwnerInv /\ OnceInv /\ AlwaysAWayOut /\ PerformsAlone /\ MailInv
  BY DEF DeviceInv
<1>1. /\ svc.phase = "idle" /\ svc = SvcIdle /\ phase \in {"Quiescing", "Settling", "Failed"}
      /\ UNCHANGED <<state, accepting, ui, sends, ownerVars, performed>>
  BY DEF PollMaintenance, slotVars, uiVars, SvcIdle
<1>2. CASE /\ late /\ phase # "Failed"
           /\ phase' = "Failed" /\ status' = "Failed" /\ recovery' /\ reported'
           /\ lifecycleSlot' = NoSlot
           /\ svc' = SvcIdle \/ Completes(lifecycleSlot, "Failed")
  <2>1. svc'.phase \in {"idle", "claim"}
    BY <1>2 DEF SvcIdle, Completes
  <2>2. performed = 0
    BY <1>0, <1>1, <1>2 DEF OnceInv
  <2>3. BarrierInv'
    BY <1>2, <2>1 DEF BarrierInv, DevicePhases, Owned
  <2>4. OwnerInv'
    BY <1>2 DEF OwnerInv, Owned
  <2>5. OnceInv'
    BY <1>0, <1>1, <1>2, <2>2, Zenon DEF OnceInv, FailureIsFinal
  <2>6. PerformsAlone' /\ AlwaysAWayOut'
    BY <1>2, <2>1 DEF PerformsAlone, AlwaysAWayOut
  <2> QED
    BY <2>3, <2>4, <2>5, <2>6 DEF Told
<1>3. CASE UNCHANGED <<phase, status, recovery, reported, lifecycleSlot, svc>>
  <2>1. BarrierInv'
    BY <1>0, <1>1, <1>3 DEF BarrierInv, Blank, SvcIdle, Owned
  <2>2. OwnerInv'
    BY <1>0, <1>1, <1>3 DEF OwnerInv
  <2>3. OnceInv'
    BY <1>1, <1>3, OnceOrdinary DEF toldVars
  <2>4. PerformsAlone' /\ AlwaysAWayOut'
    BY <1>0, <1>1, <1>3 DEF PerformsAlone, AlwaysAWayOut, Started
  <2> QED
    BY <2>1, <2>2, <2>3, <2>4 DEF Told
<1>4. CASE /\ Performs /\ phase # "Failed" /\ phase' = "Performing" /\ Goto("perform")
           /\ UNCHANGED <<status, recovery, reported, lifecycleSlot>>
  <2>1. svc'.phase = "perform" /\ svc'.slot = NoSlot
    BY <1>1, <1>4 DEF Goto, SvcIdle
  <2>2. phase \in Owned /\ state[Lifecycle] = "Running"
    BY <1>0, <1>1, <1>4 DEF Owned, OwnerInv
  <2>3. BarrierInv'
    BY <1>0, <1>4, <2>1, <2>2 DEF BarrierInv, DevicePhases, Owned
  <2>4. OwnerInv'
    BY <1>0, <1>1, <1>4, <2>1, <2>2, SlotFacts DEF OwnerInv, Owned
  <2>5. OnceInv'
    BY <1>0, <1>1, <1>4 DEF OnceInv, FailureIsFinal
  <2>6. /\ ~unsettled /\ ~application /\ ~helpers /\ storageStopped
        /\ \A i \in Normal : state[i] \notin Pending
    BY <1>4, Zenon DEF Performs, Quiet, NormalPending
  <2>7. sends = {}
    BY <1>0, <2>6 DEF MailInv, ServiceInv, Pending
  <2>8. ~accepting /\ ui.phase # "ready"
    BY <1>0, <2>2 DEF MailInv, AdmissionInv
  <2>9. PerformsAlone'
    BY <1>1, <2>6, <2>7, <2>8 DEF PerformsAlone, ownerVars
  <2>10. AlwaysAWayOut'
    BY <1>1, <2>2 DEF AlwaysAWayOut, Pending, Running
  <2> QED
    BY <2>3, <2>4, <2>5, <2>9, <2>10 DEF Told
<1>5. CASE /\ phase # "Failed" /\ phase' = "Settling"
           /\ UNCHANGED <<status, recovery, reported, lifecycleSlot, svc>>
  <2>1. phase \in Owned
    BY <1>1, <1>5 DEF Owned
  <2>2. BarrierInv'
    BY <1>0, <1>1, <1>5, <2>1 DEF BarrierInv, DevicePhases, Owned
  <2>3. OwnerInv'
    BY <1>0, <1>1, <1>5, <2>1 DEF OwnerInv
  <2>4. OnceInv'
    BY <1>0, <1>1, <1>5 DEF OnceInv, FailureIsFinal
  <2>5. PerformsAlone' /\ AlwaysAWayOut'
    BY <1>0, <1>1, <1>5 DEF PerformsAlone, AlwaysAWayOut, Started
  <2> QED
    BY <2>2, <2>3, <2>4, <2>5 DEF Told
<1> QED
  BY <1>2, <1>3, <1>4, <1>5, PollKinds

(* The owners leave the mailbox and the barrier alone, and have nothing    *)
(* left to do while the operation runs.                                    *)
LEMMA RestsKeep ==
  ASSUME DeviceInv, \/ Owners \/ Deadline \/ UNCHANGED allVars
  PROVE  Told'
<1>1. UNCHANGED <<vars, status, phase, lifecycleSlot, performed, reported>>
  BY Zenon DEF Owners, Deadline, allVars, deviceVars, barrierVars, toldVars
<1>2. UNCHANGED <<state, ui, svc, accepting, recovery, sends>>
  BY <1>1, Zenon DEF vars, slotVars, gateVars, uiVars, svcVars
<1>3. BarrierInv'
  BY <1>1, <1>2 DEF DeviceInv, BarrierInv, Blank
<1>4. OwnerInv'
  BY <1>1, <1>2 DEF DeviceInv, OwnerInv
<1>5. OnceInv'
  BY <1>1, OnceOrdinary DEF toldVars
<1>6. AlwaysAWayOut'
  BY <1>1, <1>2 DEF DeviceInv, AlwaysAWayOut, Started
<1>7. PerformsAlone'
  <2> SUFFICES ASSUME svc.phase = "perform" PROVE PerformsAlone'
    BY <1>2 DEF PerformsAlone
  <2>1. /\ ~unsettled /\ ~application /\ ~helpers /\ storageStopped
        /\ \A i \in Normal : state[i] \notin Pending
    BY DEF DeviceInv, PerformsAlone
  <2>2. ~Open
    BY DEF DeviceInv, BarrierInv, Open
  <2>3. ~unsettled' /\ ~application' /\ ~helpers' /\ storageStopped'
    <3>1. CASE Owners
      <4>1. CASE unsettled' \in {FALSE, \E i \in Normal : state[i] \in Pending} \ {unsettled}
                 /\ UNCHANGED <<application, helpers, storageStopped>>
        BY <2>1, <4>1
      <4>2. CASE /\ application' = (~application /\ Open) /\ UNCHANGED <<unsettled, helpers, storageStopped>>
        BY <2>1, <2>2, <4>2
      <4> QED
        BY <2>1, <3>1, <4>1, <4>2, Zenon DEF Owners
    <3>2. CASE Deadline \/ UNCHANGED allVars
      <4>1. UNCHANGED <<unsettled, application, helpers, storageStopped>>
        BY <3>2, Zenon DEF Deadline, allVars, deviceVars, ownerVars
      <4> QED
        BY <2>1, <4>1
    <3> QED
      BY <3>1, <3>2
  <2> QED
    BY <1>2, <2>1, <2>3 DEF DeviceInv, PerformsAlone
<1> QED
  BY <1>3, <1>4, <1>5, <1>6, <1>7 DEF Told

-----------------------------------------------------------------------------
LEMMA DeviceStarts == DeviceInit => DeviceInv
<1> SUFFICES ASSUME DeviceInit PROVE DeviceInv
  OBVIOUS
<1>1. MailInv
  BY MailInit DEF DeviceInit
<1>2. Blank /\ svc.phase = "idle"
  BY DEF DeviceInit, Blank, Empty, SvcIdle
<1>3. BarrierInv /\ OwnerInv
  BY <1>2 DEF DeviceInit, BarrierInv, OwnerInv, DevicePhases, Owned
<1>4. OnceInv
  <2>1. performed = 0 /\ reported = FALSE
    BY Zenon DEF DeviceInit
  <2>2. FailureIsFinal
    BY <2>1 DEF FailureIsFinal
  <2> QED
    BY <2>1, <2>2, Zenon DEF OnceInv
<1>5. PerformsAlone /\ AlwaysAWayOut
  BY <1>2 DEF DeviceInit, PerformsAlone, AlwaysAWayOut, Started
<1> QED
  BY <1>1, <1>3, <1>4, <1>5 DEF DeviceInv

LEMMA DeviceSteps == DeviceInv /\ [DeviceNext]_allVars => DeviceInv'
<1> SUFFICES ASSUME DeviceInv, [DeviceNext]_allVars PROVE DeviceInv'
  OBVIOUS
<1>1. MailInv'
  <2>1. UNCHANGED allVars => UNCHANGED vars
    BY DEF allVars
  <2>2. MailStep \/ UNCHANGED vars
    BY <2>1, DeviceMails
  <2> QED
    BY <2>2, MailKeeps, MailStutters DEF DeviceInv
<1>2. Told'
  <2>1. CASE Ordinary
    <3>1. UNCHANGED <<phase, toldVars>>
      BY <2>1, OrdinaryFacts DEF DeviceInv, deviceVars, barrierVars
    <3> QED
      BY <2>1, <3>1, BarrierOrdinary, OwnerOrdinary, OnceOrdinary, AloneOrdinary, WayOutOrdinary DEF Told
  <2>2. CASE \E ok \in BOOLEAN : BindOwner(ok)
    BY <2>2, BindKeeps
  <2>3. CASE ExecuteLifecycle \/ PollMaintenance \/ RunLifecycle
    BY <2>3, ExecuteKeeps, PollKeeps, RunKeeps
  <2>4. CASE Owners \/ Deadline \/ UNCHANGED allVars
    BY <2>4, RestsKeep
  <2> QED
    BY <2>1, <2>2, <2>3, <2>4, DeviceKinds
<1> QED
  BY <1>1, <1>2 DEF DeviceInv, Told

(* The device service keeps its invariant, and with it the mailbox keeps   *)
(* its own while lifecycle requests, maintenance and a deadline drive it.  *)
THEOREM DeviceInvariant == DeviceSpec => []DeviceInv
BY DeviceStarts, DeviceSteps, PTL DEF DeviceSpec

(* The destructive operation begins, and runs, with nobody else at work:   *)
(* no normal request waiting or kept, no send in the engine, every owner   *)
(* drained, storage gone and admission closed.                             *)
THEOREM OperationAlone == DeviceSpec => []PerformsAlone
<1>1. DeviceInv => PerformsAlone
  BY DEF DeviceInv
<1> QED
  BY <1>1, DeviceInvariant, PTL

(* A lifecycle request that was answered with a failure is never carried   *)
(* out later, and none is carried out twice.                               *)
THEOREM FailedForGood == DeviceSpec => []FailureIsFinal
<1>1. DeviceInv => FailureIsFinal
  BY DEF DeviceInv, OnceInv
<1> QED
  BY <1>1, DeviceInvariant, PTL

(* Admission never closes without an answer to come, a stopped device, or  *)
(* a restart the user may force.                                           *)
THEOREM WayOutRemains == DeviceSpec => []AlwaysAWayOut
<1>1. DeviceInv => AlwaysAWayOut
  BY DEF DeviceInv
<1> QED
  BY <1>1, DeviceInvariant, PTL

=============================================================================

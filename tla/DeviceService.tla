--------------------------- MODULE DeviceService ---------------------------
(***************************************************************************)
(* runtime/DeviceService.cpp with runtime/MaintenanceBarrier.h and         *)
(* runtime/MaintenanceOperation.cpp: what the service makes of a lifecycle *)
(* request.  Its admission pauses the owners; normal commands settle, then *)
(* helpers are stopped, then storage, then the operation runs once.  Past  *)
(* the deadline the request is answered with a failure, the settlement     *)
(* goes on without it, and a second Restart is forced through.             *)
(*                                                                         *)
(* Application work (messages, rooms, voice), helpers (network, a radio    *)
(* burst, diagnostics) and the storage worker are owners that drain in     *)
(* their own time or never; `late` says that the deadline passed or that   *)
(* the radio owner declared itself broken.                                 *)
(***************************************************************************)
EXTENDS ServiceMailbox

VARIABLES
  bound,            \* _storageOwnerBound
  status,           \* _status.state
  phase,            \* of the barrier
  helpersStarted, stopStarted,   \* its latches: helpers told, storage told
  lifecycleSlot,    \* _lifecycleSlot
  unsettled, application, helpers, storageStopped, late,
  reported, performed            \* only to state properties

barrierVars == <<phase, helpersStarted, stopStarted>>
ownerVars   == <<unsettled, application, helpers, storageStopped, late>>
toldVars    == <<reported, performed>>
deviceVars  == <<bound, status, barrierVars, lifecycleSlot, ownerVars, toldVars>>
allVars     == <<vars, deviceVars>>

DeviceInit ==
  /\ Empty /\ accepting = FALSE /\ recovery = FALSE
  /\ bound = FALSE /\ status = "Starting"
  /\ phase = "Running" /\ helpersStarted = FALSE /\ stopStarted = FALSE
  /\ lifecycleSlot = NoSlot
  /\ unsettled \in BOOLEAN /\ application \in BOOLEAN
  /\ helpers = TRUE /\ storageStopped = FALSE /\ late = FALSE
  /\ reported = FALSE /\ performed = 0

(* bindOwner(): a refused storage transfer leaves only a restart.          *)
BindOwner(ok) ==
  /\ status = "Starting"
  /\ bound' = ok
  /\ IF ok THEN status' = "Running" /\ accepting' = TRUE /\ UNCHANGED recovery
           ELSE status' = "Failed" /\ accepting' = FALSE /\ recovery' = TRUE
  /\ UNCHANGED <<slotVars, ringVars, uiVars, svcVars, barrierVars, lifecycleSlot,
                 ownerVars, toldVars>>

Started == status # "Starting"
Open    == phase = "Running"                 \* _maintenance.accepting()

-----------------------------------------------------------------------------
(* execute() of a lifecycle request: a restart after a failure is forced;  *)
(* the first request begins the maintenance and pauses every producer.     *)
Forced      == status = "Failed" /\ request[svc.slot].operation = "Restart"

ExecuteLifecycle ==
  /\ svc.phase = "execute" /\ svc.slot = Lifecycle
  /\ IF Forced THEN Completes(Lifecycle, "Ok") /\ UNCHANGED <<phase, status, lifecycleSlot>>
     ELSE IF status # "Running" \/ ~Open
     THEN Completes(Lifecycle, "NotReady") /\ UNCHANGED <<phase, status, lifecycleSlot>>
     ELSE /\ phase' = "Quiescing" /\ status' = "Quiescing" /\ lifecycleSlot' = Lifecycle
          /\ svc' = SvcIdle
  /\ UNCHANGED <<slotVars, ringVars, gateVars, uiVars, sends, noticed, lastTaken, bound,
                 helpersStarted, stopStarted, ownerVars, toldVars>>

(* execute() of a normal request; a send is refused during maintenance.    *)
ExecuteNormal ==
  /\ svc.slot \in Normal /\ ExecuteStep
  /\ request[svc.slot].operation = "Send" /\ ~Open => Completes(svc.slot, "Cancelled")
  /\ UNCHANGED deviceVars

-----------------------------------------------------------------------------
(* pollMaintenance(): one snapshot of the owners, one step of the barrier. *)
RingPending   == readyHead # readyTail               \* fault: forgets kept slots
NormalPending == unsettled \/ \E i \in Normal : state[i] \in Pending

PassedEarly == late /\ phase = "Quiescing"           \* fault: no deadline later
Expired     == late /\ phase # "Failed"

(* Owners in order: normal work, helpers told, all of them quiet, storage  *)
(* told, storage gone.                                                     *)
BeginsHelpers == ~NormalPending /\ ~helpersStarted
Quiet         == ~NormalPending /\ helpersStarted /\ ~application /\ ~helpers
StopsStorage  == Quiet /\ ~stopStarted

PerformsLate == Quiet /\ stopStarted /\ storageStopped      \* fault: after a failure
Performs     == Quiet /\ stopStarted /\ storageStopped /\ phase # "Failed" /\ ~Expired

PollMaintenance ==
  /\ svc = SvcIdle /\ bound /\ phase \in {"Quiescing", "Settling", "Failed"}
  /\ helpersStarted' = (helpersStarted \/ BeginsHelpers)
  /\ stopStarted' = (stopStarted \/ StopsStorage)
  /\ phase' = IF Performs THEN "Performing"
              ELSE IF Expired \/ phase = "Failed" THEN "Failed"
              ELSE IF BeginsHelpers THEN "Settling" ELSE phase
  /\ IF Expired
     THEN /\ status' = "Failed" /\ recovery' = TRUE /\ reported' = TRUE
          /\ lifecycleSlot' = NoSlot
          /\ IF lifecycleSlot = NoSlot THEN UNCHANGED svc
             ELSE Completes(lifecycleSlot, "Failed")
     ELSE /\ UNCHANGED <<status, recovery, reported, lifecycleSlot>>
          /\ IF Performs THEN Goto("perform") ELSE UNCHANGED svc
  /\ UNCHANGED <<slotVars, ringVars, accepting, uiVars, sends, noticed, lastTaken, bound,
                 ownerVars, performed>>

(* runLifecycle(): a record that is unsettled or a flush that fails ends   *)
(* it before the operation.                                                *)
NoRecovery(ok)  == UNCHANGED recovery                                 \* fault
LeavesOpen(ok)  == recovery' = (recovery \/ ~ok)

RunLifecycle ==
  /\ svc.phase = "perform"
  /\ \E ok, begun \in BOOLEAN :
       /\ ok => begun
       /\ performed' = IF begun THEN performed + 1 ELSE performed
       /\ phase' = IF ok THEN "Stopped" ELSE "Failed"
       /\ status' = IF ok THEN "Stopped" ELSE "Failed"
       /\ LeavesOpen(ok)
       /\ Completes(lifecycleSlot, IF ok THEN "Ok" ELSE "Failed")
  /\ lifecycleSlot' = NoSlot
  /\ UNCHANGED <<slotVars, ringVars, accepting, uiVars, sends, noticed, lastTaken, bound,
                 helpersStarted, stopStarted, ownerVars, reported>>

-----------------------------------------------------------------------------
(* The owners.  A settings record is left unsettled by a normal request    *)
(* and settled by a later poll; application work comes and goes until      *)
(* admissions close, then only drains; helpers stop after they were told;  *)
(* storage is gone when told and every ticket was consumed; time passes.   *)
Owners ==
  /\ \/ /\ unsettled' \in {FALSE, \E i \in Normal : state[i] \in Pending} \ {unsettled}
        /\ UNCHANGED <<application, helpers, storageStopped>>
     \/ /\ application' = (~application /\ Open) /\ application' # application
        /\ UNCHANGED <<unsettled, helpers, storageStopped>>
     \/ /\ helpersStarted /\ helpers /\ helpers' = FALSE
        /\ UNCHANGED <<unsettled, application, storageStopped>>
     \/ /\ stopStarted /\ ~storageStopped /\ storageStopped' = TRUE
        /\ UNCHANGED <<unsettled, application, helpers>>
  /\ UNCHANGED <<late, vars, bound, status, barrierVars, lifecycleSlot, toldVars>>

Deadline ==
  /\ ~Open /\ ~late /\ late' = TRUE
  /\ UNCHANGED <<vars, bound, status, barrierVars, lifecycleSlot, unsettled, application,
                 helpers, storageStopped, toldVars>>

-----------------------------------------------------------------------------
DeviceUi   == Ui /\ UNCHANGED deviceVars
DeviceTake == Started /\ TakeBegin /\ UNCHANGED deviceVars
DeviceStep ==
  \/ (TakeStep \/ PublishStep) /\ UNCHANGED deviceVars
  \/ ExecuteLifecycle \/ ExecuteNormal \/ RunLifecycle
DeviceClaim == Started /\ ClaimLifecycle /\ UNCHANGED deviceVars
DeviceNotice(i) == NoticeCancel(i) /\ UNCHANGED deviceVars
DeviceFinish(i) == i \in Normal /\ Finish(i) /\ UNCHANGED deviceVars

DeviceNext ==
  \/ \E ok \in BOOLEAN : BindOwner(ok)
  \/ DeviceUi \/ DeviceTake \/ DeviceStep \/ DeviceClaim
  \/ \E i \in Slots : DeviceNotice(i) \/ DeviceFinish(i)
  \/ PollMaintenance \/ Owners \/ Deadline

DeviceSpec == DeviceInit /\ [][DeviceNext]_allVars

(* The tick polls lifecycle, maintenance and kept slots on every round and *)
(* time passes; nothing obliges an owner to drain.                         *)
DeviceFairSpec ==
  /\ DeviceSpec
  /\ WF_allVars(DeviceStep) /\ WF_allVars(Submitting /\ UNCHANGED deviceVars)
  /\ SF_allVars(DeviceClaim) /\ SF_allVars(PollMaintenance) /\ WF_allVars(Deadline)

-----------------------------------------------------------------------------
(* The destructive operation begins only when nobody else works: no normal *)
(* request is waiting or kept, no send is in the engine, every owner has   *)
(* drained, storage is gone and nothing new can be admitted.               *)
PerformsAlone == svc.phase = "perform" =>
  /\ \A i \in Normal : state[i] \notin Pending
  /\ sends = {} /\ ~unsettled /\ ~application /\ ~helpers /\ storageStopped
  /\ ~accepting /\ ui.phase # "ready"

(* A lifecycle request that was answered with a failure is never carried   *)
(* out afterwards, and none is carried out twice.                          *)
FailureIsFinal == performed <= 1 /\ (reported => performed = 0)

(* A UI that may submit nothing has an answer coming, or has been told     *)
(* that the device stopped, or may still force a restart: admission never  *)
(* closes for good without a way out.                                      *)
AlwaysAWayOut == Started /\ ~accepting =>
  \/ recovery \/ status = "Stopped" \/ state[Lifecycle] \in Pending

(* Every lifecycle request is answered, even if no owner ever drains.      *)
LifecycleAnswered == state[Lifecycle] = "Ready" ~> state[Lifecycle] = "Done"
=============================================================================

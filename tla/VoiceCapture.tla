---------------------------- MODULE VoiceCapture ----------------------------
(***************************************************************************)
(* The audio hardware and the quiet a recording needs: AudioCoordinator.h  *)
(* hands the hardware from the notifications (UI task) to the voice worker *)
(* and back; CaptureQuiet.h and StorageLease.h keep storage transactions   *)
(* and recordings apart, because flash writes starve the microphone's DMA. *)
(* VoiceWorker.cpp uses both: its owner (the service task) prepares, stops *)
(* and reclaims a worker task that claims the hardware, opens the device   *)
(* and closes it again.                                                    *)
(*                                                                         *)
(* Each action is one access to the shared atomics, or the work between    *)
(* two of them.  A compare-and-exchange that fails is repeated by its      *)
(* caller and is no step.  Samples, codecs and memory are left out; a use  *)
(* that fails, is cancelled or has run long enough is a choice.            *)
(***************************************************************************)
EXTENDS Integers

CONSTANTS Storers,      \* the tasks that take the storage lease
          Worker,       \* the storage executor: it waits, the others only try
          NoTask,
          MaxDepth      \* nested leases in one transaction

ASSUME VoiceAssumption == Worker \in Storers /\ NoTask \notin Storers /\ MaxDepth \in Nat \ {0}

VARIABLES
  audio,      \* _state of the coordinator, without its capture flag
  sounding,   \* the notifications' driver is installed
  use,        \* _impl: "none", "call", "record" or "play"
  stop, done, \* _impl->stop (also a finish or a new stop epoch) and done
  pc,         \* where the voice worker is
  device,     \* the voice driver runs, with the microphone in a recording
  quiet,      \* runMemo()'s local: it has requested the quiet
  requested, admitted,   \* CaptureQuiet
  holder, depth,         \* StorageLease: the mutex and _depth
  wants       \* tasks that are asking for the lease

coordinator == <<audio, sounding>>
worker  == <<use, stop, done, pc, device, quiet>>
storage == <<requested, admitted, holder, depth, wants>>
vars    == <<coordinator, worker, storage>>

Init ==
  /\ audio = "Notify" /\ sounding = TRUE
  /\ use = "none" /\ stop = FALSE /\ done = FALSE /\ pc = "off" /\ device = FALSE /\ quiet = FALSE
  /\ requested = FALSE /\ admitted = 0 /\ holder = NoTask /\ depth = 0 /\ wants = {}

-----------------------------------------------------------------------------
(* The UI task: poll().  end() and begin() run between two accesses.       *)
Yield     == audio = "Requested" /\ audio' = "Yielding" /\ UNCHANGED <<sounding, worker, storage>>
Suspend   == audio = "Yielding" /\ sounding /\ sounding' = FALSE /\ UNCHANGED <<audio, worker, storage>>
Offer     == audio = "Yielding" /\ ~sounding /\ audio' = "Available" /\ UNCHANGED <<sounding, worker, storage>>
TakeBack  == audio = "Returning" /\ audio' = "Restoring" /\ UNCHANGED <<sounding, worker, storage>>
Restore   == audio = "Restoring" /\ ~sounding /\ sounding' = TRUE /\ UNCHANGED <<audio, worker, storage>>
Resume    == audio = "Restoring" /\ sounding /\ audio' = "Notify" /\ UNCHANGED <<sounding, worker, storage>>

Notifier == Yield \/ Suspend \/ Offer \/ TakeBack \/ Restore \/ Resume

-----------------------------------------------------------------------------
(* The owner: prepareUse(), which may fail to create the task, stop(), and *)
(* drained(), which releases the hardware when the worker's task is gone.  *)
Prepare(u) ==
  /\ use = "none" /\ audio = "Notify" /\ audio' = "Requested" /\ use' = u
  /\ \/ pc' = "claim" /\ stop' = FALSE /\ done' = FALSE
     \/ pc' = "off" /\ stop' = TRUE /\ done' = TRUE
  /\ UNCHANGED <<sounding, device, quiet, storage>>

Stop == use # "none" /\ stop' = TRUE /\ UNCHANGED <<coordinator, use, done, pc, device, quiet, storage>>

(* release(): refused while the UI is between suspend and publication.     *)
Returned == CASE audio = "Requested" -> "Notify"
              [] audio \in {"Available", "Voice"} -> "Returning"
              [] OTHER -> audio
ReleasesAnyway == TRUE                                               \* fault
Releasable     == audio # "Yielding"

ReclaimsEarly == use # "none" /\ stop                                \* fault
Reclaimable   == use # "none" /\ done /\ pc \in {"off", "parked"}

Drained ==
  /\ Reclaimable /\ Releasable
  /\ audio' = Returned /\ use' = "none" /\ stop' = FALSE /\ done' = FALSE /\ pc' = "off"
  /\ UNCHANGED <<sounding, device, quiet, storage>>

-----------------------------------------------------------------------------
(* The voice worker: run() and runMemo().  It goes to its end from every   *)
(* wait when it is stopped, cancelled or out of time, or when a call       *)
(* fails; a stop that comes after it looked lets it go one step further.   *)
GoesTo(next) == pc' = next /\ UNCHANGED <<coordinator, use, stop, done>>

Claim ==
  /\ pc = "claim" /\ audio = "Available" /\ audio' = "Voice"
  /\ pc' = IF use = "record" THEN "request" ELSE "prepare"
  /\ UNCHANGED <<sounding, use, stop, done, device, quiet, storage>>

Request ==      \* CaptureQuiet::request()
  /\ pc = "request"
  /\ IF requested THEN GoesTo("end") /\ UNCHANGED <<requested, quiet>>
     ELSE GoesTo("wait") /\ requested' = TRUE /\ quiet' = TRUE
  /\ UNCHANGED <<device, admitted, holder, depth, wants>>

ReadyAtOnce == requested                                             \* fault
Ready       == requested /\ admitted = 0
Wait == pc = "wait" /\ Ready /\ GoesTo("prepare") /\ UNCHANGED <<device, quiet, storage>>

Open ==         \* device.prepare()
  /\ pc = "prepare" /\ device' = TRUE /\ GoesTo("run") /\ UNCHANGED <<quiet, storage>>

GiveUp ==
  /\ pc \in {"claim", "request", "wait", "prepare", "run"}
  /\ GoesTo("end") /\ UNCHANGED <<device, quiet, storage>>

Close ==        \* device.end()
  /\ pc = "end" /\ device' = FALSE /\ GoesTo("resume") /\ UNCHANGED <<quiet, storage>>

StaysQuiet == UNCHANGED requested                                    \* fault
Lifts      == requested' = IF quiet THEN FALSE ELSE requested
Lift ==         \* CaptureQuiet::resume(); what was recorded is encoded after it
  /\ pc = "resume" /\ Lifts /\ quiet' = FALSE /\ GoesTo("publish")
  /\ UNCHANGED <<device, admitted, holder, depth, wants>>

Publish ==
  /\ pc = "publish" /\ done' = TRUE /\ pc' = "parking"
  /\ UNCHANGED <<coordinator, use, stop, device, quiet, storage>>

Park == pc = "parking" /\ GoesTo("parked") /\ UNCHANGED <<device, quiet, storage>>

Voice == Claim \/ Request \/ Wait \/ Open \/ GiveUp \/ Close \/ Lift \/ Publish \/ Park

-----------------------------------------------------------------------------
(* tryAcquire() and release().  An outer lease is refused while a quiet is *)
(* requested; the worker asks again, the others do without.                *)
Ask(t) == t # holder /\ t \notin wants /\ wants' = wants \cup {t}
          /\ UNCHANGED <<coordinator, worker, requested, admitted, holder, depth>>

Acquire(t) ==
  /\ t \in wants /\ holder = NoTask /\ ~requested
  /\ holder' = t /\ depth' = 1 /\ admitted' = admitted + 1 /\ wants' = wants \ {t}
  /\ UNCHANGED <<coordinator, worker, requested>>

Defer(t) ==
  /\ t \in wants /\ t # Worker /\ (holder # NoTask \/ requested) /\ wants' = wants \ {t}
  /\ UNCHANGED <<coordinator, worker, requested, admitted, holder, depth>>

Nest(t) ==
  /\ t = holder /\ depth \in 1 .. MaxDepth - 1 /\ depth' = depth + 1
  /\ UNCHANGED <<coordinator, worker, requested, admitted, holder, wants>>

Leave(t) ==
  /\ t = holder /\ depth > 0 /\ depth' = depth - 1
  /\ admitted' = IF depth = 1 THEN admitted - 1 ELSE admitted
  /\ UNCHANGED <<coordinator, worker, requested, holder, wants>>

Give(t) ==
  /\ t = holder /\ depth = 0 /\ holder' = NoTask
  /\ UNCHANGED <<coordinator, worker, requested, admitted, depth, wants>>

Storing(t) == Ask(t) \/ Acquire(t) \/ Defer(t) \/ Nest(t) \/ Leave(t) \/ Give(t)

-----------------------------------------------------------------------------
Next ==
  \/ Notifier \/ Voice \/ Stop \/ Drained
  \/ \E u \in {"call", "record", "play"} : Prepare(u)
  \/ \E t \in Storers : Storing(t)

Spec == Init /\ [][Next]_vars

(* The UI loop, the voice worker (whose waits have an end, unless it is in *)
(* a call), the owner's poll and every transaction go on.  The executor    *)
(* asks on every tick and recordings are further apart than that.          *)
FairSpec ==
  /\ Spec /\ WF_vars(Notifier) /\ WF_vars(Voice /\ (pc # "run" \/ use # "call" \/ stop)) /\ WF_vars(Drained)
  /\ \A t \in Storers : WF_vars(Leave(t) \/ Give(t)) /\ SF_vars(depth = 1 /\ Leave(t))
  /\ SF_vars(Acquire(Worker))

-----------------------------------------------------------------------------
(* The notifications and the voice worker never have their drivers on the  *)
(* same hardware, through early stops, failed tasks and slow hand-overs.   *)
OneAudioOwner == ~(sounding /\ device)

(* No storage transaction runs while a memo is recorded, nested ones and   *)
(* one that was let in just before the request included.                   *)
QuietWhileRecording == device /\ use = "record" => depth = 0

(* A memo that has ended by itself, or anything that was stopped, gives    *)
(* the audio back to the notifications.                                    *)
AudioReturns == use \in {"record", "play"} \/ stop ~> audio = "Notify"

(* The executor gets its lease in the end: a recording's quiet is lifted   *)
(* again, however it ends.                                                 *)
StorageGoesOn == Worker \in wants ~> holder = Worker
=============================================================================

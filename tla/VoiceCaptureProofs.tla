------------------------- MODULE VoiceCaptureProofs -------------------------
(***************************************************************************)
(* The two safety properties of VoiceCapture, for any set of storage tasks *)
(* and any depth of nested leases.  Neither is inductive alone: that the   *)
(* worker owns the hardware has to be followed through the coordinator's   *)
(* phases, and that no lease is held through the quiet's request.          *)
(***************************************************************************)
EXTENDS VoiceCapture, TLAPS

(* Whose the hardware is in each phase, and where the worker can be.       *)
HardwareInv ==
  /\ audio \in {"Notify", "Requested"} => sounding
  /\ audio \in {"Available", "Voice", "Returning"} => ~sounding
  /\ pc \in {"request", "wait", "prepare", "run"} => audio = "Voice"
  /\ device => audio = "Voice" /\ pc \in {"run", "end"}
  /\ use = "none" => pc = "off"

(* The quiet is requested by the worker alone, from before it opens the    *)
(* microphone until after it closed it.                                    *)
QuietInv ==
  /\ requested \in BOOLEAN /\ quiet \in BOOLEAN /\ (requested <=> quiet)
  /\ quiet => pc \in {"wait", "prepare", "run", "end", "resume"}
  /\ device => pc \in {"run", "end"}
  /\ use = "none" => pc = "off"
  /\ use = "record" /\ pc \in {"prepare", "run"} => requested /\ depth = 0
  /\ use = "record" /\ device => requested /\ depth = 0

(* One transaction at a time is admitted, however deeply it nests.         *)
LeaseInv ==
  /\ depth \in Nat /\ admitted \in Nat
  /\ depth > 0 => admitted = 1 /\ holder # NoTask
  /\ depth = 0 => admitted = 0

-----------------------------------------------------------------------------
LEMMA HardwareStep == HardwareInv /\ [Next]_vars => HardwareInv'
<1> SUFFICES ASSUME HardwareInv, [Next]_vars PROVE HardwareInv'
  OBVIOUS
<1> USE DEF HardwareInv, coordinator, worker, storage
<1>1. CASE Notifier
  BY <1>1 DEF Notifier, Yield, Suspend, Offer, TakeBack, Restore, Resume
<1>2. CASE Claim \/ Request \/ Wait \/ Open \/ GiveUp
  BY <1>2 DEF Claim, Request, Wait, Open, GiveUp, GoesTo
<1>3. CASE Close \/ Lift \/ Publish \/ Park
  BY <1>3 DEF Close, Lift, Publish, Park, GoesTo
<1>4. CASE Stop
  BY <1>4 DEF Stop
<1>5. CASE Drained
  BY <1>5 DEF Drained, Reclaimable, Releasable, Returned
<1>6. CASE \E u \in {"call", "record", "play"} : Prepare(u)
  BY <1>6 DEF Prepare
<1>7. CASE \E t \in Storers : Storing(t)
  BY <1>7 DEF Storing, Ask, Acquire, Defer, Nest, Leave, Give
<1>8. CASE UNCHANGED vars
  BY <1>8 DEF vars
<1> QED
  BY <1>1, <1>2, <1>3, <1>4, <1>5, <1>6, <1>7, <1>8 DEF Next, Voice

LEMMA LeaseStep == LeaseInv /\ [Next]_vars => LeaseInv'
<1> SUFFICES ASSUME LeaseInv, [Next]_vars PROVE LeaseInv'
  OBVIOUS
<1> USE DEF LeaseInv
<1>1. CASE \E t \in Storers : Storing(t)
  <2> SUFFICES ASSUME NEW t \in Storers, Storing(t) PROVE LeaseInv'
    BY <1>1
  <2>1. CASE Ask(t) \/ Defer(t)
    BY <2>1 DEF Ask, Defer
  <2>2. CASE Acquire(t)
    BY <2>2, VoiceAssumption DEF Acquire
  <2>3. CASE Nest(t)
    BY <2>3 DEF Nest
  <2>4. CASE Leave(t)
    BY <2>4 DEF Leave
  <2>5. CASE Give(t)
    BY <2>5 DEF Give
  <2> QED
    BY <2>1, <2>2, <2>3, <2>4, <2>5 DEF Storing
<1>2. UNCHANGED <<admitted, holder, depth>> => LeaseInv'
  OBVIOUS
<1>3. CASE Notifier \/ Stop \/ Drained \/ \E u \in {"call", "record", "play"} : Prepare(u)
  BY <1>2, <1>3 DEF Notifier, Yield, Suspend, Offer, TakeBack, Restore, Resume, Stop, Drained, Prepare,
    worker, storage
<1>4. CASE Voice
  BY <1>2, <1>4 DEF Voice, Claim, Request, Wait, Open, GiveUp, Close, Lift, Publish, Park, GoesTo, storage
<1>5. CASE UNCHANGED vars
  BY <1>2, <1>5 DEF vars, storage
<1> QED
  BY <1>1, <1>3, <1>4, <1>5 DEF Next

LEMMA QuietStep == QuietInv /\ LeaseInv /\ [Next]_vars => QuietInv'
<1> SUFFICES ASSUME QuietInv, LeaseInv, [Next]_vars PROVE QuietInv'
  OBVIOUS
<1> USE DEF QuietInv, coordinator, worker, storage
<1>1. CASE Notifier \/ Stop \/ UNCHANGED vars
  BY <1>1 DEF Notifier, Yield, Suspend, Offer, TakeBack, Restore, Resume, Stop, vars
<1>2a. CASE Claim
  BY <1>2a DEF Claim
<1>2b. CASE Request
  <2>1. CASE requested
    BY <1>2b, <2>1 DEF Request, GoesTo
  <2>2. CASE ~requested
    <3>1. pc' = "wait" /\ requested' = TRUE /\ quiet' = TRUE /\ use' = use /\ device' = device /\ pc = "request"
      BY <1>2b, <2>2 DEF Request, GoesTo
    <3> QED
      BY <3>1
  <2> QED
    BY <2>1, <2>2
<1>3. CASE Wait
  <2>1. depth = 0
    BY <1>3 DEF Wait, Ready, LeaseInv
  <2> QED
    BY <1>3, <2>1 DEF Wait, Ready, GoesTo
<1>4. CASE Open \/ GiveUp \/ Close
  BY <1>4 DEF Open, GiveUp, Close, GoesTo
<1>5. CASE Lift
  BY <1>5 DEF Lift, Lifts, GoesTo
<1>6. CASE Publish \/ Park
  BY <1>6 DEF Publish, Park, GoesTo
<1>7. CASE Drained
  BY <1>7 DEF Drained, Reclaimable
<1>8. CASE \E u \in {"call", "record", "play"} : Prepare(u)
  BY <1>8 DEF Prepare
<1>9. CASE \E t \in Storers : Storing(t)
  <2> SUFFICES ASSUME NEW t \in Storers, Storing(t) PROVE QuietInv'
    BY <1>9
  <2>1. CASE Ask(t) \/ Defer(t) \/ Give(t)
    BY <2>1 DEF Ask, Defer, Give
  <2>2. CASE Acquire(t)
    BY <2>2 DEF Acquire
  <2>3. CASE Nest(t)
    <3>1. depth # 0
      BY <2>3 DEF Nest
    <3> QED
      BY <2>3, <3>1 DEF Nest
  <2>4. CASE Leave(t)
    <3>1. depth # 0
      BY <2>4 DEF Leave, LeaseInv
    <3> QED
      BY <2>4, <3>1 DEF Leave
  <2> QED
    BY <2>1, <2>2, <2>3, <2>4 DEF Storing
<1> QED
  BY <1>1, <1>2a, <1>2b, <1>3, <1>4, <1>5, <1>6, <1>7, <1>8, <1>9 DEF Next, Voice

-----------------------------------------------------------------------------
(* The notifications' driver and the voice driver are never installed      *)
(* together (AudioCoordinator.h).                                          *)
THEOREM HardwareExclusive == Spec => []OneAudioOwner
<1>1. Init => HardwareInv
  BY DEF Init, HardwareInv
<1>2. HardwareInv => OneAudioOwner
  BY DEF HardwareInv, OneAudioOwner
<1> QED
  BY <1>1, <1>2, HardwareStep, PTL DEF Spec

(* No storage transaction runs while the microphone records (CaptureQuiet.h). *)
THEOREM RecordingQuiet == Spec => []QuietWhileRecording
<1>1. Init => QuietInv /\ LeaseInv
  <2>1. Init => QuietInv
    BY DEF Init, QuietInv
  <2>2. Init => LeaseInv
    BY DEF Init, LeaseInv
  <2> QED
    BY <2>1, <2>2
<1>2. QuietInv => QuietWhileRecording
  BY DEF QuietInv, QuietWhileRecording
<1> QED
  BY <1>1, <1>2, QuietStep, LeaseStep, PTL DEF Spec
=============================================================================

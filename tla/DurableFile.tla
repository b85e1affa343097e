---------------------------- MODULE DurableFile ----------------------------
(***************************************************************************)
(* What an atomically written file promises its readers: a write takes     *)
(* effect at one instant or not at all, its answer says which, and a crash *)
(* at any moment leaves the content of before or of after.  Removing the   *)
(* file may uncover the content the last write replaced, never an older    *)
(* one and never a half-written one.                                       *)
(***************************************************************************)
CONSTANTS Values, Absent

VARIABLES content,    \* what a reader finds
          previous,   \* what the last effective write replaced
          writing,    \* the value being written, Absent outside a write
          applied,    \* the write in progress has taken effect
          answer      \* of the last write: "pending", "None", "Failed", "lost"

vars == <<content, previous, writing, applied, answer>>

Init ==
  /\ content = Absent /\ previous = Absent
  /\ writing = Absent /\ applied = FALSE /\ answer = "None"

Start(v) ==
  /\ writing = Absent
  /\ writing' = v /\ answer' = "pending"
  /\ UNCHANGED <<content, previous, applied>>

TakeEffect ==
  /\ writing # Absent /\ ~applied
  /\ content' = writing /\ previous' = content /\ applied' = TRUE
  /\ UNCHANGED <<writing, answer>>

Answer ==
  /\ writing # Absent
  /\ answer' = IF applied THEN "None" ELSE "Failed"
  /\ writing' = Absent /\ applied' = FALSE
  /\ UNCHANGED <<content, previous>>

Crash ==
  /\ answer' = IF writing # Absent THEN "lost" ELSE answer
  /\ writing' = Absent /\ applied' = FALSE
  /\ UNCHANGED <<content, previous>>

Remove ==
  /\ writing = Absent
  /\ content' \in {Absent, previous} /\ previous' = Absent
  /\ UNCHANGED <<writing, applied, answer>>

Next == (\E v \in Values : Start(v)) \/ TakeEffect \/ Answer \/ Crash \/ Remove

Spec == Init /\ [][Next]_vars
=============================================================================

----------------------------- MODULE AtomicFile -----------------------------
(***************************************************************************)
(* storage/AtomicStream.h: how one file on flash or card is replaced --    *)
(* written beside it (.tmp), read back, the old one moved aside (.bak),    *)
(* the new one moved in, the old one dropped -- with the boot recovery and *)
(* the reader's fallback of storage/FlashStore.cpp.                        *)
(*                                                                         *)
(* Every filesystem call may fail without effect, power may fail between   *)
(* any two of them, and a write to the temporary may leave anything there  *)
(* whatever it reports.  A rename or a removal is atomic, as LittleFS has  *)
(* it.  The caller holds the storage lease: one write at a time.           *)
(***************************************************************************)
CONSTANTS Values,   \* complete contents
          Absent,   \* no such file
          Torn      \* anything that is not what was to be written

ASSUME AtomicFileAssumption ==
  Absent \notin Values /\ Torn \notin Values /\ Absent # Torn

VARIABLES primary, temporary, backup,   \* the three files
          pc,        \* the next step of atomicStream() or of the recovery
          writing,   \* what the write in progress writes
          answer,    \* of the last write; "lost" when power failed in it
          previous   \* what the last promotion replaced, only to state properties

files == <<primary, temporary, backup>>
vars  == <<primary, temporary, backup, pc, writing, answer, previous>>

Steps == {"idle", "write", "verify", "drop backup", "set aside", "promote",
          "restore", "discard", "clean", "remove temporary", "recover backup"}

Init ==
  /\ primary = Absent /\ temporary = Absent /\ backup = Absent
  /\ pc = "idle" /\ writing = Absent /\ answer = "None" /\ previous = Absent

(* readFileFully(), readString(): the backup when the primary is missing.  *)
Reader == IF primary # Absent THEN primary ELSE backup

-----------------------------------------------------------------------------
(* atomicStream()                                                          *)
Return(e) == pc' = "idle" /\ writing' = Absent /\ answer' = e

Begin(v) ==
  /\ pc = "idle"
  /\ pc' = "write" /\ writing' = v /\ answer' = "pending"
  /\ UNCHANGED <<files, previous>>

(* The temporary cannot be opened; or the bytes go out, well or not.       *)
OpenFails ==
  /\ pc = "write" /\ Return("Failed")
  /\ UNCHANGED <<files, previous>>

WriteTemporary ==
  /\ pc = "write"
  /\ temporary' \in {writing, Torn}
  /\ pc' \in {"verify", "discard"}
  /\ UNCHANGED <<primary, backup, writing, answer, previous>>

(* The readback compares; what is not `writing` never passes.  Then: is    *)
(* there a primary to keep, and an old backup in its way?                  *)
Unread     == TRUE                                   \* fault: no readback
ReadsBack  == temporary = writing

(* Fault: a backup already there is good enough.                           *)
KeepsOldBackup == IF primary = Absent \/ backup # Absent THEN "promote" ELSE "set aside"
FirstMove == IF primary = Absent THEN "promote"
             ELSE IF backup # Absent THEN "drop backup" ELSE "set aside"

Verify ==
  /\ pc = "verify"
  /\ \/ ReadsBack /\ pc' = FirstMove
     \/ pc' = "discard"
  /\ UNCHANGED <<files, writing, answer, previous>>

(* An old backup that cannot be removed ends the write; .tmp is left.      *)
DropBackup ==
  /\ pc = "drop backup"
  /\ \/ backup' = Absent /\ pc' = "set aside" /\ UNCHANGED <<writing, answer>>
     \/ UNCHANGED backup /\ Return("Failed")
  /\ UNCHANGED <<primary, temporary, previous>>

SetAside ==
  /\ pc = "set aside"
  /\ \/ backup' = primary /\ primary' = Absent /\ pc' = "promote"
     \/ UNCHANGED <<primary, backup>> /\ pc' = "discard"
  /\ UNCHANGED <<temporary, writing, answer, previous>>

Promote ==
  /\ pc = "promote"
  /\ \/ /\ primary' = temporary /\ temporary' = Absent /\ previous' = Reader
        /\ pc' = "clean"
     \/ /\ UNCHANGED <<primary, temporary, previous>>
        /\ pc' = IF backup # Absent THEN "restore" ELSE "discard"
  /\ UNCHANGED <<backup, writing, answer>>

Restore ==
  /\ pc = "restore"
  /\ \/ primary' = backup /\ backup' = Absent
     \/ UNCHANGED <<primary, backup>>
  /\ pc' = "discard"
  /\ UNCHANGED <<temporary, writing, answer, previous>>

Discard ==
  /\ pc = "discard" /\ Return("Failed")
  /\ temporary' \in {temporary, Absent}
  /\ UNCHANGED <<primary, backup, previous>>

Clean ==
  /\ pc = "clean" /\ Return("None")
  /\ backup' \in {backup, Absent}
  /\ UNCHANGED <<primary, temporary, previous>>

-----------------------------------------------------------------------------
(* remove() as deleteIdentity() uses it: the named file only.              *)
Remove ==
  /\ pc = "idle" /\ primary # Absent
  /\ primary' = Absent /\ previous' = Absent
  /\ UNCHANGED <<temporary, backup, pc, writing, answer>>

(* Power fails and comes back: recoverAtomicArtifacts() meets the          *)
(* artifacts in directory order.                                           *)
Crash ==
  /\ answer' = IF writing # Absent THEN "lost" ELSE answer
  /\ writing' = Absent
  /\ pc' \in {"remove temporary", "recover backup"}
  /\ UNCHANGED <<files, previous>>

RemoveTemporary ==
  /\ pc = "remove temporary"
  /\ temporary' \in {temporary, Absent}
  /\ pc' \in {"recover backup", "idle"}
  /\ UNCHANGED <<primary, backup, writing, answer, previous>>

BackupWins     == TRUE             \* fault: a backup replaces what is there
Orphaned       == primary = Absent

RecoverBackup ==
  /\ pc = "recover backup"
  /\ \/ Orphaned /\ backup # Absent /\ primary' = backup /\ backup' = Absent
     \/ UNCHANGED <<primary, backup>>
  /\ pc' \in {"remove temporary", "idle"}
  /\ UNCHANGED <<temporary, writing, answer, previous>>

-----------------------------------------------------------------------------
Next ==
  \/ \E v \in Values : Begin(v)
  \/ OpenFails \/ WriteTemporary \/ Verify \/ DropBackup \/ SetAside \/ Promote
  \/ Restore \/ Discard \/ Clean
  \/ Remove \/ Crash \/ RemoveTemporary \/ RecoverBackup

Spec == Init /\ [][Next]_vars

Contents == Values \cup {Absent}

(* Every file holds what a write could have left there: only the temporary *)
(* is ever torn.                                                           *)
TypeOK ==
  /\ primary \in Contents /\ backup \in Contents /\ previous \in Contents
  /\ temporary \in Contents \cup {Torn}
  /\ pc \in Steps /\ writing \in Contents
  /\ answer \in {"pending", "None", "Failed", "lost"}

(* Where the steps stand: what the files hold when each one is reached.    *)
PlaceInv ==
  /\ pc \in {"idle", "remove temporary", "recover backup"} <=> writing = Absent
  /\ pc \in {"drop backup", "set aside", "promote"} => temporary = writing
  /\ pc \in {"drop backup", "set aside", "clean"} => primary # Absent
  /\ pc \in {"promote", "restore"} => primary = Absent
  /\ pc = "set aside" => backup = Absent

(* A backup beside a primary is what the last write replaced.              *)
BackupInv == primary # Absent => backup \in {Absent, previous}

Durable == INSTANCE DurableFile WITH content <- Reader, applied <- pc = "clean"

(* A reader sees each write take effect at one instant or not at all, in   *)
(* agreement with the answer, whatever step fails and whenever power does; *)
(* a removal uncovers the replaced content at most (AtomicStream.h,        *)
(* FlashStore.cpp recovery and reads).                                     *)
ImplementsDurableFile == Durable!Spec
=============================================================================

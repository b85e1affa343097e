---------------------------- MODULE MessageRecord ----------------------------
(***************************************************************************)
(* One outgoing record of storage/MessageTransactions.cpp on its media:    *)
(* the flash and, when used, a card that keeps a copy.  Each has a primary *)
(* and a backup with a revision; two markers on flash tell that the record *)
(* was deleted.  The storage worker does one operation at a time; a call   *)
(* on a medium may fail and power may fail in any of them.                 *)
(*                                                                         *)
(* One write is storage/AtomicStream.h as a whole, with the outcomes that  *)
(* AtomicFile shows step by step.  Audio and prepared envelopes, the read  *)
(* flag and corruption of a complete file are left out.                    *)
(***************************************************************************)
EXTENDS Integers

CONSTANTS Statuses,     \* of reticulum/LXMFStatus.h, those the record's policy allows
          MaxRevision,  \* UINT32_MAX in the code
          Absent        \* no such file

ASSUME MessageRecordAssumption ==
  /\ Statuses \subseteq 0 .. 18
  /\ MaxRevision \in Nat \ {0}
  /\ Absent \notin [revision : Nat, status : 0 .. 18] /\ Absent \notin Nat

VARIABLES file,       \* of each medium: the primary and the backup
          tombstone,  \* the record's .del is on flash
          cutoff,     \* .deleted of the conversation and its backup
          card,       \* in use; pulled out since it was mounted; not in use
          job,        \* the operation at work, where it stands
          kept,       \* the revision each medium confirmed, only to state properties
          erased      \* a deletion was confirmed, likewise

markers == <<tombstone, cutoff, erased>>
vars    == <<file, markers, card, job, kept>>

Media == {"flash", "card"}
Idle  == [op |-> "idle", at |-> "done", new |-> Absent, prefer |-> {}]

(* A cutoff is below the record's number, or the record is under it.       *)
Below == 1
Covers == 2

NoFile == [primary |-> Absent, backup |-> Absent]

-----------------------------------------------------------------------------
(* reticulum/LXMFStatus.h                                                  *)
Queued     == 1
Delivered  == 4
FailedSend == 5
PropQueued == 7
Propagated == 9

Pending(s)   == s \in {1, 2, 7, 8}
Failed(s)    == s \in {FailedSend, 10} \cup (12 .. 18)
Retryable(s) == Failed(s) \/ s \in {6, 11}
Relay(s)     == s \in (7 .. 11) \cup (16 .. 18)

-----------------------------------------------------------------------------
(* deletedThrough(), recordDeletion() and load()                           *)
Revision(c) == IF c = Absent THEN 0 ELSE c.revision

Through(c) == IF c = Absent THEN 0 ELSE c

PrimaryThrough == Through(cutoff.primary) = Covers         \* fault: no backup
DeletedThrough == Covers \in {Through(cutoff.primary), Through(cutoff.backup)}
Deleted == tombstone \/ DeletedThrough

(* A card that was pulled out answers that it has no such file.            *)
Readable(m) == m = "flash" \/ card = "mounted"
Seen(m)     == IF Readable(m) THEN file[m] ELSE NoFile

Copies == <<Seen("flash").primary, Seen("flash").backup,
            Seen("card").primary, Seen("card").backup>>

FlashFirst(c, i, j) == c[j] = Absent \/ (c[i] # Absent /\ i <= j)  \* fault
Beats(c, i, j) ==
  \/ Revision(c[i]) > Revision(c[j])
  \/ (Revision(c[i]) = Revision(c[j]) /\ i <= j)

Loaded ==
  LET c == Copies
  IN  c[CHOOSE i \in 1 .. 4 : \A j \in 1 .. 4 : Beats(c, i, j)]

Shown == IF Deleted THEN Absent ELSE Loaded

PreferBackup ==
  {m \in Media : /\ Seen(m).primary # Absent
                 /\ Revision(Seen(m).backup) > Revision(Seen(m).primary)}

-----------------------------------------------------------------------------
(* atomicStream() on a pair of files: what it leaves when it succeeds, and *)
(* when it fails; a power failure leaves either.                           *)
Replaced(f, c) ==
  {[primary |-> c, backup |-> b] :
     b \in {Absent, IF f.primary = Absent THEN f.backup ELSE f.primary}}

Unreplaced(f) ==
  IF f.primary = Absent
    THEN {f, [primary |-> f.backup, backup |-> Absent]}
    ELSE {f, [primary |-> f.primary, backup |-> Absent],
             [primary |-> Absent, backup |-> f.primary]}

(* commit() first puts a newer backup in the primary's place.              *)
Promoted(f) == [primary |-> f.backup, backup |-> Absent]
Demoted(f)  == [primary |-> Absent, backup |-> f.backup]

Succeeds(m) ==
  IF m \in job.prefer THEN Replaced(Promoted(file[m]), job.new)
  ELSE Replaced(file[m], job.new)

Fails(m) ==
  IF m \in job.prefer
    THEN {file[m], Demoted(file[m])} \cup Unreplaced(Promoted(file[m]))
    ELSE Unreplaced(file[m])

Retained(m) == Readable(m) /\ job.new \in {file[m].primary, file[m].backup}

Keep(m)   == kept' = [kept EXCEPT ![m] = job.new.revision]
Forget(m) == kept' = [kept EXCEPT ![m] = 0]
Goto(a)   == job' = [job EXCEPT !.at = a]
Answer    == job' = Idle

-----------------------------------------------------------------------------
Init ==
  /\ file = [m \in Media |-> NoFile]
  /\ tombstone = FALSE /\ erased = FALSE
  /\ cutoff \in [primary : {Absent, Below}, backup : {Absent}]
  /\ card \in {"mounted", "absent"}
  /\ job = Idle /\ kept = [m \in Media |-> 0]

(* create(), under a number no record had, so that no file is in its way.  *)
Create(s) ==
  /\ job = Idle /\ ~Deleted /\ Pending(s)
  /\ file = [m \in Media |-> NoFile]
  /\ job' = [op |-> "create", at |-> "flash", prefer |-> {},
             new |-> [revision |-> 1, status |-> s]]
  /\ UNCHANGED <<file, markers, card, kept>>

(* update(): which statuses may follow the one on record, and the revision *)
(* that stands for it.                                                     *)
Allowed(from, to) ==
  /\ Relay(from) => to >= 7 \/ to \in {Delivered, FailedSend}
  /\ from = Delivered => to = Delivered
  /\ from = Propagated => to \in {Propagated, Delivered}

RevisionLeft(c)  == c.revision < MaxRevision

Revise(op, c, to) ==
  job' = [op |-> op, at |-> "flash", prefer |-> PreferBackup,
          new |-> [status |-> to,
                   revision |-> IF c.status = to THEN c.revision ELSE c.revision + 1]]

Update ==
  /\ job = Idle
  /\ LET c == Shown
     IN  /\ c # Absent
         /\ \E to \in Statuses :
              /\ Allowed(c.status, to)
              /\ c.status = to \/ RevisionLeft(c)
              /\ Revise("update", c, to)
  /\ UNCHANGED <<file, markers, card, kept>>

RetryStatus(s) == IF Relay(s) THEN PropQueued ELSE Queued

Retry ==
  /\ job = Idle
  /\ LET c == Shown
     IN  /\ c # Absent /\ Retryable(c.status) /\ RetryStatus(c.status) \in Statuses
         /\ RevisionLeft(c) /\ Revise("retry", c, RetryStatus(c.status))
  /\ UNCHANGED <<file, markers, card, kept>>

(* commit(): flash, then the card.  Either is enough, but a retry counts   *)
(* on the flash.                                                           *)
Writes == job.op \in {"create", "update", "retry"}

CommitFlash ==
  /\ Writes /\ job.at = "flash"
  /\ \/ /\ \/ job.op # "create" /\ Retained("flash") /\ UNCHANGED file
           \/ \E f \in Succeeds("flash") : file' = [file EXCEPT !["flash"] = f]
        /\ Keep("flash") /\ Goto("card")
     \/ /\ \E f \in Fails("flash") : file' = [file EXCEPT !["flash"] = f]
        /\ UNCHANGED kept
        /\ IF job.op = "retry" THEN Answer ELSE Goto("card")
  /\ UNCHANGED <<markers, card>>

CommitCard ==
  /\ Writes /\ job.at = "card"
  /\ \/ /\ job.op # "create" /\ Retained("card")
        /\ UNCHANGED file /\ Keep("card")
     \/ /\ Readable("card") /\ Keep("card")
        /\ \E f \in Succeeds("card") : file' = [file EXCEPT !["card"] = f]
     \/ /\ Readable("card") /\ UNCHANGED kept
        /\ \E f \in Fails("card") : file' = [file EXCEPT !["card"] = f]
     \/ ~Readable("card") /\ UNCHANGED <<file, kept>>
  /\ Answer
  /\ UNCHANGED <<markers, card>>

-----------------------------------------------------------------------------
(* DeleteRecord.inc: the tombstone decides, then the copies go.            *)
Confirmed == erased' = TRUE /\ kept' = [m \in Media |-> 0]

EraseRecord ==
  /\ job = Idle /\ Shown # Absent
  /\ job' = [Idle EXCEPT !.op = "erase record", !.at = "marker"]
  /\ UNCHANGED <<file, markers, card, kept>>

WriteTombstone ==
  /\ job.op = "erase record" /\ job.at = "marker"
  /\ \/ tombstone' = TRUE /\ Confirmed /\ Goto("clean flash")
     \/ UNCHANGED <<tombstone, erased, kept>> /\ Answer
  /\ UNCHANGED <<file, cutoff, card>>

(* erase(): the whole conversation; its cutoff covers every number given   *)
(* out, this record's among them.  Its backup is never the higher one, so  *)
(* that the branch which first puts it back is not needed here.            *)
Erase ==
  /\ job = Idle /\ file # [m \in Media |-> NoFile]
  /\ job' = [Idle EXCEPT !.op = "erase", !.at = "marker"]
  /\ UNCHANGED <<file, markers, card, kept>>

WriteCutoff ==
  /\ job.op = "erase" /\ job.at = "marker"
  /\ \/ cutoff' \in Replaced(cutoff, Covers) /\ Confirmed /\ Goto("clean flash")
     \/ cutoff' \in Unreplaced(cutoff) /\ UNCHANGED <<erased, kept>> /\ Answer
  /\ UNCHANGED <<file, tombstone, card>>

(* Every removal may fail on its own; the conversation's also removes the  *)
(* tombstone, with the records.                                            *)
Leftovers(f) == [primary : {f.primary, Absent}, backup : {f.backup, Absent}]

CleanFlash ==
  /\ job.at = "clean flash"
  /\ \E f \in Leftovers(file["flash"]) : file' = [file EXCEPT !["flash"] = f]
  /\ tombstone' \in IF job.op = "erase" THEN {tombstone, FALSE} ELSE {tombstone}
  /\ Goto("clean card")
  /\ UNCHANGED <<cutoff, erased, card, kept>>

CleanCard ==
  /\ job.at = "clean card"
  /\ IF Readable("card")
       THEN \E f \in Leftovers(file["card"]) : file' = [file EXCEPT !["card"] = f]
       ELSE UNCHANGED file
  /\ Answer
  /\ UNCHANGED <<markers, card, kept>>

-----------------------------------------------------------------------------
(* SpaceReclaim.inc: reclaim() picks the record, evictInternal() removes   *)
(* it from flash, after making sure of the card's copy if there is a card. *)
Removable(c) == c.status \in {Delivered, Propagated} \/ Failed(c.status)

Evict ==
  /\ job = Idle /\ file["flash"] # NoFile
  /\ LET c == Shown
     IN  /\ c # Absent /\ Removable(c)
         /\ job' = [op |-> "evict", prefer |-> {}, new |-> c,
                    at |-> IF card = "absent" THEN "backup" ELSE "verify"]
  /\ UNCHANGED <<file, markers, card, kept>>

(* mirrorVerified(); a copy written now is read once more.                 *)
VerifyMirror ==
  /\ job.at = "verify"
  /\ \/ /\ Retained("card")
        /\ UNCHANGED file /\ Keep("card") /\ Goto("backup")
     \/ /\ Readable("card") /\ Keep("card") /\ Goto("backup")
        /\ \E f \in Replaced(file["card"], job.new) : file' = [file EXCEPT !["card"] = f]
     \/ /\ Readable("card") /\ UNCHANGED kept /\ Answer
        /\ \E f \in Unreplaced(file["card"]) \cup Replaced(file["card"], job.new) :
             file' = [file EXCEPT !["card"] = f]
     \/ ~Readable("card") /\ UNCHANGED <<file, kept>> /\ Answer
  /\ UNCHANGED <<markers, card>>

(* The order of the two removals.                                          *)
PrimaryFirst == <<"primary", "backup">>                    \* fault
BackupFirst  == <<"backup", "primary">>

Without(f, name) == [f EXCEPT ![name] = Absent]

RemoveFirst ==
  /\ job.at = "backup" /\ Forget("flash")
  /\ \/ /\ file' = [file EXCEPT !["flash"] = Without(@, BackupFirst[1])]
        /\ Goto("primary")
     \/ file["flash"][BackupFirst[1]] # Absent /\ UNCHANGED file /\ Answer
  /\ UNCHANGED <<markers, card>>

RemoveSecond ==
  /\ job.at = "primary" /\ Answer
  /\ \/ file' = [file EXCEPT !["flash"] = Without(@, BackupFirst[2])]
     \/ file["flash"][BackupFirst[2]] # Absent /\ UNCHANGED file
  /\ UNCHANGED <<markers, card, kept>>

-----------------------------------------------------------------------------
(* Power fails, in a write or between two calls; the card is looked for    *)
(* again at the next boot.                                                 *)
Interrupted(m) ==
  IF ~Readable(m) THEN {file[m]}
  ELSE IF Writes /\ job.at = m THEN Fails(m) \cup Succeeds(m)
  ELSE IF job.at = "verify" /\ m = "card"
    THEN Unreplaced(file[m]) \cup Replaced(file[m], job.new)
  ELSE {file[m]}

Crash ==
  /\ \E f \in Interrupted("flash"), c \in Interrupted("card") :
       file' = [file EXCEPT !["flash"] = f, !["card"] = c]
  /\ tombstone' \in IF job.op = "erase record" /\ job.at = "marker"
                      THEN {tombstone, TRUE} ELSE {tombstone}
  /\ cutoff' \in IF job.op = "erase" /\ job.at = "marker"
                   THEN Unreplaced(cutoff) \cup Replaced(cutoff, Covers) ELSE {cutoff}
  /\ card' \in {"mounted", "absent"}
  /\ Answer
  /\ UNCHANGED <<kept, erased>>

(* The card is pulled at any moment; it is put back, or put to use and out *)
(* of use in the settings, between two operations.                         *)
PullCard ==
  /\ card = "mounted" /\ card' = "gone"
  /\ UNCHANGED <<file, markers, job, kept>>

ChangeCard ==
  /\ job = Idle
  /\ card' \in {"mounted", "absent"} \ {card}
  /\ UNCHANGED <<file, markers, job, kept>>

-----------------------------------------------------------------------------
Next ==
  \/ \E s \in Statuses : Create(s)
  \/ Update \/ Retry \/ CommitFlash \/ CommitCard
  \/ EraseRecord \/ WriteTombstone \/ Erase \/ WriteCutoff \/ CleanFlash \/ CleanCard
  \/ Evict \/ VerifyMirror \/ RemoveFirst \/ RemoveSecond
  \/ Crash \/ PullCard \/ ChangeCard

Spec == Init /\ [][Next]_vars

-----------------------------------------------------------------------------
(* What was deleted is not shown again: not after a crash in a second      *)
(* deletion, not when its cleanup failed, not with an old card put back    *)
(* (DeleteRecord.inc:60, MessageTransactions.cpp:278).                     *)
ErasedStaysErased == erased => Shown = Absent

(* As long as no card comes or goes, a reader never sees an older revision *)
(* than before, nor (unless an update was begun with a card that has left  *)
(* since) a receipt taken back, whatever fails or is cut off               *)
(* (MessageTransactions.cpp:314 and 575, SpaceReclaim.inc:30).             *)
Forward(old, new) ==
  \/ new = old
  \/ /\ new.revision > old.revision
     /\ card # "gone" => Allowed(old.status, new.status)

ReadersGoForward ==
  [][card' = card /\ <<file, markers>>' # <<file, markers>> =>
       LET old == Shown  new == Shown'
       IN  old # Absent /\ new # Absent => Forward(old, new)]_vars

(* A revision a medium confirmed is shown, or a later one, whenever that   *)
(* medium can be read (MessageTransactions.cpp:420).                       *)
ConfirmedKept ==
  LET revision == Revision(Loaded)
  IN  ~Deleted => \A m \in Media : Readable(m) => kept[m] <= revision

(* "An unreadable candidate may have a newer revision.  Do not build a     *)
(* mutation on an older mirror" (MessageTransactions.cpp:298): an update   *)
(* under way replaces nothing newer than what it was built on.             *)
NeverBuiltOnOlder ==
  job.op = "update" /\ job.at = "flash" =>
    \A m \in Media : (m = "card" => card # "absent") =>
      \A c \in {file[m].primary, file[m].backup} :
        Revision(c) < job.new.revision \/ c = job.new
=============================================================================

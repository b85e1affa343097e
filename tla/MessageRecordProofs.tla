------------------------- MODULE MessageRecordProofs -------------------------
(***************************************************************************)
(* The record on its media, proved for every set of statuses and any       *)
(* number of revisions.                                                    *)
(*                                                                         *)
(* A deleted record stays deleted: DeletionInv says where the deletion     *)
(* stands, in the tombstone or in one of the two cutoffs before a          *)
(* conversation's cleanup takes the tombstone away.                        *)
(*                                                                         *)
(* What was confirmed is shown: CopiesInv orders each medium's two copies  *)
(* and bounds what it confirmed by what it shows; WriteInv says that       *)
(* nothing in reach is newer than what is being written.                   *)
(*                                                                         *)
(* What is shown moves forward: ForwardInv adds how the operation at work  *)
(* stands to what is shown, and that two copies of one revision that       *)
(* differ are never what decides.                                          *)
(***************************************************************************)
EXTENDS MessageRecord, TLAPS

Cutoffs == {Absent, Below, Covers}

CutoffInv ==
  /\ cutoff \in [primary : Cutoffs, backup : Cutoffs]
  /\ cutoff.backup = Covers => cutoff.primary \in {Absent, Covers}

JobShape == job = [op |-> job.op, at |-> job.at, new |-> job.new, prefer |-> job.prefer]

JobInv ==
  /\ JobShape
  /\ job.op = "erase" /\ job.at = "clean flash" => DeletedThrough

DeletionInv == CutoffInv /\ JobInv /\ (erased => Deleted)

LEMMA CutoffsDiffer ==
  /\ Absent \in Cutoffs /\ Below \in Cutoffs /\ Covers \in Cutoffs
  /\ Absent # Covers /\ Below # Covers
  /\ \A c \in Cutoffs : Through(c) = Covers <=> c = Covers
  BY MessageRecordAssumption DEF Cutoffs, Through, Below, Covers

(* A successful rewrite of the cutoff covers the record (atomicStream()).  *)
LEMMA ReplacedCovers ==
  ASSUME CutoffInv, cutoff' \in Replaced(cutoff, Covers)
  PROVE  CutoffInv' /\ DeletedThrough'
<1>1. PICK b \in {Absent, IF cutoff.primary = Absent THEN cutoff.backup ELSE cutoff.primary} :
        cutoff' = [primary |-> Covers, backup |-> b]
  BY DEF Replaced
<1> QED
  BY <1>1, CutoffsDiffer DEF DeletedThrough, CutoffInv

(* A failed one, or one cut off, loses no cutoff that covered it.          *)
LEMMA UnreplacedCovers ==
  ASSUME CutoffInv, cutoff' \in Unreplaced(cutoff)
  PROVE  CutoffInv' /\ (DeletedThrough => DeletedThrough')
<1>1. \/ cutoff' = cutoff
      \/ cutoff.primary = Absent /\ cutoff' = [primary |-> cutoff.backup, backup |-> Absent]
      \/ cutoff.primary # Absent /\ cutoff' = [primary |-> cutoff.primary, backup |-> Absent]
      \/ cutoff.primary # Absent /\ cutoff' = [primary |-> Absent, backup |-> cutoff.primary]
  BY DEF Unreplaced
<1> USE CutoffsDiffer DEF CutoffInv, DeletedThrough
<1>2. CASE cutoff' = cutoff
  BY <1>2
<1>3. CASE cutoff.primary = Absent /\ cutoff' = [primary |-> cutoff.backup, backup |-> Absent]
  BY <1>3
<1>4. CASE cutoff.primary # Absent /\ cutoff' = [primary |-> cutoff.primary, backup |-> Absent]
  BY <1>4
<1>5. CASE cutoff.primary # Absent /\ cutoff' = [primary |-> Absent, backup |-> cutoff.primary]
  BY <1>5
<1> QED
  BY <1>1, <1>2, <1>3, <1>4, <1>5

LEMMA GotoMoves ==
  ASSUME JobShape, NEW a, job' = [job EXCEPT !.at = a]
  PROVE  /\ JobShape' /\ job'.at = a /\ job'.op = job.op
         /\ job'.new = job.new /\ job'.prefer = job.prefer
  BY DEF JobShape

LEMMA AnswerRests ==
  ASSUME Answer
  PROVE  JobShape' /\ job'.at = "done"
  BY DEF JobShape, Answer, Idle

(* A step that leaves the markers alone and begins no cleanup.             *)
LEMMA QuietStep ==
  ASSUME DeletionInv, UNCHANGED markers, JobShape', job'.at # "clean flash"
  PROVE  DeletionInv' /\ (Deleted => Deleted')
<1>1. UNCHANGED tombstone /\ UNCHANGED cutoff /\ UNCHANGED erased
  BY DEF markers
<1>2. CutoffInv' = CutoffInv /\ DeletedThrough' = DeletedThrough
  BY <1>1 DEF CutoffInv, DeletedThrough
<1>3. JobInv'
  BY DEF JobInv
<1> QED
  BY <1>1, <1>2, <1>3 DEF DeletionInv, Deleted

-----------------------------------------------------------------------------
LEMMA InitDeletion == Init => DeletionInv
<1> SUFFICES ASSUME Init PROVE DeletionInv
  OBVIOUS
<1>1. CutoffInv
  BY CutoffsDiffer DEF Init, CutoffInv
<1>2. JobInv
  BY DEF Init, JobInv, JobShape, Idle
<1>3. ~erased
  BY DEF Init
<1> QED
  BY <1>1, <1>2, <1>3 DEF DeletionInv

(* The markers only ever gain: every step keeps a deletion that is there.  *)
LEMMA DeletionStep ==
  ASSUME DeletionInv, [Next]_vars
  PROVE  DeletionInv' /\ (Deleted => Deleted')
<1>0. JobShape /\ CutoffInv
  BY DEF DeletionInv, JobInv
<1>1. CASE UNCHANGED vars
  BY <1>1, <1>0
     DEF vars, markers, DeletionInv, JobInv, JobShape, CutoffInv, DeletedThrough, Deleted
<1>3. ASSUME NEW s \in Statuses, Create(s) PROVE DeletionInv' /\ (Deleted => Deleted')
  BY <1>3, QuietStep DEF Create, JobShape
<1>4. CASE Update
  BY <1>4, QuietStep DEF Update, Revise, JobShape
<1>5. CASE Retry
  BY <1>5, QuietStep DEF Retry, Revise, JobShape
<1>6. CASE CommitFlash
  <2>1. UNCHANGED markers /\ (Goto("card") \/ Answer)
    BY <1>6 DEF CommitFlash
  <2>2. JobShape' /\ job'.at # "clean flash"
    BY <1>0, <2>1, GotoMoves, AnswerRests DEF Goto
  <2> QED
    BY <2>1, <2>2, QuietStep
<1>7. CASE CommitCard
  BY <1>7, AnswerRests, QuietStep DEF CommitCard
<1>8. CASE EraseRecord
  BY <1>8, QuietStep DEF EraseRecord, Idle, JobShape
<1>9. CASE WriteTombstone
  <2>1. UNCHANGED cutoff /\ job.op = "erase record"
    BY <1>9 DEF WriteTombstone
  <2>2. CutoffInv' /\ DeletedThrough' = DeletedThrough
    BY <1>0, <2>1 DEF CutoffInv, DeletedThrough
  <2>3. JobInv'
    BY <1>0, <1>9, <2>1, GotoMoves, AnswerRests DEF WriteTombstone, Goto, JobInv
  <2>4. tombstone' = TRUE \/ UNCHANGED <<tombstone, erased>>
    BY <1>9 DEF WriteTombstone
  <2> QED
    BY <2>2, <2>3, <2>4 DEF DeletionInv, Deleted
<1>10. CASE Erase
  BY <1>10, QuietStep DEF Erase, Idle, JobShape
<1>11. CASE WriteCutoff
  <2>1. UNCHANGED tombstone
    BY <1>11 DEF WriteCutoff
  <2>2. CASE cutoff' \in Replaced(cutoff, Covers) /\ Confirmed /\ Goto("clean flash")
    <3>1. CutoffInv' /\ DeletedThrough'
      BY <1>0, <2>2, ReplacedCovers
    <3>2. JobShape'
      BY <1>0, <2>2, GotoMoves DEF Goto
    <3> QED
      BY <3>1, <3>2 DEF DeletionInv, JobInv, Deleted
  <2>3. CASE cutoff' \in Unreplaced(cutoff) /\ UNCHANGED <<erased, kept>> /\ Answer
    <3>1. CutoffInv' /\ (DeletedThrough => DeletedThrough')
      BY <1>0, <2>3, UnreplacedCovers
    <3>2. JobShape' /\ job'.at = "done" /\ UNCHANGED erased
      BY <2>3, AnswerRests
    <3> QED
      BY <2>1, <3>1, <3>2 DEF DeletionInv, JobInv, Deleted
  <2> QED
    BY <1>11, <2>2, <2>3 DEF WriteCutoff
<1>12. CASE CleanFlash
  <2>1. UNCHANGED cutoff /\ UNCHANGED erased /\ job.at = "clean flash" /\ Goto("clean card")
    BY <1>12 DEF CleanFlash
  <2>2. CutoffInv' /\ DeletedThrough' = DeletedThrough
    BY <1>0, <2>1 DEF CutoffInv, DeletedThrough
  <2>3. DeletedThrough \/ tombstone' = tombstone
    BY <1>12, <2>1 DEF CleanFlash, DeletionInv, JobInv
  <2>4. JobInv'
    BY <1>0, <2>1, GotoMoves DEF Goto, JobInv
  <2> QED
    BY <2>1, <2>2, <2>3, <2>4 DEF DeletionInv, Deleted
<1>13. CASE CleanCard
  BY <1>13, AnswerRests, QuietStep DEF CleanCard
<1>14. CASE Evict
  <2>1. /\ UNCHANGED markers
        /\ job' = [op |-> "evict", prefer |-> {}, new |-> Shown,
                   at |-> IF card = "absent" THEN "backup" ELSE "verify"]
    BY <1>14 DEF Evict
  <2> QED
    BY <2>1, QuietStep DEF JobShape
<1>15. CASE VerifyMirror
  <2>1. UNCHANGED markers /\ (Goto("backup") \/ Answer)
    BY <1>15 DEF VerifyMirror
  <2>2. JobShape' /\ job'.at # "clean flash"
    BY <1>0, <2>1, GotoMoves, AnswerRests DEF Goto
  <2> QED
    BY <2>1, <2>2, QuietStep
<1>16. CASE RemoveFirst
  <2>1. UNCHANGED markers /\ (Goto("primary") \/ Answer)
    BY <1>16 DEF RemoveFirst
  <2>2. JobShape' /\ job'.at # "clean flash"
    BY <1>0, <2>1, GotoMoves, AnswerRests DEF Goto
  <2> QED
    BY <2>1, <2>2, QuietStep
<1>17. CASE RemoveSecond
  BY <1>17, AnswerRests, QuietStep DEF RemoveSecond
<1>18. CASE Crash
  <2>1. tombstone' = tombstone \/ tombstone' = TRUE
    BY <1>18 DEF Crash
  <2>2. \/ cutoff' = cutoff
        \/ cutoff' \in Unreplaced(cutoff)
        \/ cutoff' \in Replaced(cutoff, Covers)
    BY <1>18 DEF Crash
  <2>3. CutoffInv' /\ (DeletedThrough => DeletedThrough')
    <3>1. CASE cutoff' = cutoff
      BY <1>0, <3>1 DEF CutoffInv, DeletedThrough
    <3> QED
      BY <1>0, <2>2, <3>1, ReplacedCovers, UnreplacedCovers
  <2>4. JobInv' /\ UNCHANGED erased
    BY <1>18, AnswerRests DEF Crash, JobInv
  <2> QED
    BY <2>1, <2>3, <2>4 DEF DeletionInv, Deleted
<1>19. ASSUME UNCHANGED markers, UNCHANGED job
       PROVE  DeletionInv' /\ (Deleted => Deleted')
  BY <1>0, <1>19 DEF markers, DeletionInv, JobInv, JobShape, CutoffInv, DeletedThrough, Deleted
<1>20. CASE PullCard \/ ChangeCard
  BY <1>19, <1>20 DEF PullCard, ChangeCard
<1> QED
  BY <1>1, <1>3, <1>4, <1>5, <1>6, <1>7, <1>8, <1>9, <1>10, <1>11, <1>12, <1>13,
     <1>14, <1>15, <1>16, <1>17, <1>18, <1>19, <1>20 DEF Next

THEOREM DeletionCorrect == Spec => []DeletionInv
<1>1. DeletionInv /\ [Next]_vars => DeletionInv'
  BY DeletionStep
<1> QED
  BY InitDeletion, <1>1, PTL DEF Spec

(* A record whose deletion was confirmed is never shown again, in whatever *)
(* state its copies, its markers and the card are left                     *)
(* (MessageTransactions.cpp:278, DeleteRecord.inc:60).                     *)
THEOREM ErasedForGood == Spec => []ErasedStaysErased
<1>1. DeletionInv => ErasedStaysErased
  BY DEF DeletionInv, ErasedStaysErased, Shown
<1> QED
  BY DeletionCorrect, <1>1, PTL

(* Once a reader is told that the record is deleted, it stays so, even if  *)
(* power failed before the deletion was confirmed.                         *)
THEOREM DeletedForGood == Spec => [][Deleted => Deleted']_vars
<1>1. DeletionInv /\ [Next]_vars => (Deleted => Deleted')
  BY DeletionStep
<1> QED
  BY DeletionCorrect, <1>1, PTL DEF Spec

-----------------------------------------------------------------------------
(* The copies.                                                             *)
Copy  == [revision : Nat \ {0}, status : 0 .. 18]
Files == [primary : Copy \cup {Absent}, backup : Copy \cup {Absent}]

(* What a medium shows on its own; its backup is never the newer one.      *)
Top(f)     == IF f.primary # Absent THEN f.primary ELSE f.backup
Ordered(f) == f.primary # Absent => Revision(f.backup) <= Revision(f.primary)

CopiesInv ==
  /\ file \in [Media -> Files] /\ kept \in [Media -> Nat]
  /\ \A m \in Media : Ordered(file[m]) /\ kept[m] <= Revision(Top(file[m]))
  /\ job.at \in {"clean flash", "clean card"} => \A m \in Media : kept[m] = 0
  /\ job.at = "primary" => kept["flash"] = 0

(* What is written is at least as new as anything that can be read.        *)
Writing == job.at \in {"flash", "card", "verify"}

WriteInv == Writing =>
  /\ job.new \in Copy /\ job.prefer = {}
  /\ \A m \in Media : Readable(m) => Revision(Top(file[m])) <= Revision(job.new)

(* What a reader is shown when nothing is deleted.                         *)
Newest ==
  LET t == Top(Seen("flash"))
      c == Top(Seen("card"))
  IN  IF Revision(c) > Revision(t) THEN c ELSE t

LEMMA RevisionFacts ==
  ASSUME NEW c \in Copy \cup {Absent}
  PROVE  /\ Revision(c) \in Nat /\ (c = Absent <=> Revision(c) = 0)
         /\ c # Absent => c \in Copy /\ Revision(c) = c.revision
<1>1. CASE c = Absent
  BY <1>1 DEF Revision
<1>2. CASE c # Absent
  BY <1>2 DEF Revision, Copy
<1> QED
  BY <1>1, <1>2

LEMMA NoFileFits == NoFile \in Files /\ Ordered(NoFile) /\ Top(NoFile) = Absent
BY DEF NoFile, Files, Ordered, Top

LEMMA TopTyped ==
  ASSUME NEW f \in Files
  PROVE  /\ Top(f) \in Copy \cup {Absent} /\ f.primary \in Copy \cup {Absent}
         /\ f.backup \in Copy \cup {Absent} /\ f = [primary |-> f.primary, backup |-> f.backup]
BY DEF Files, Top

(* load() picks the best of the four candidates.                           *)
LEMMA LoadedNewest ==
  ASSUME CopiesInv
  PROVE  Loaded = Newest
<1> DEFINE f == Seen("flash")
           g == Seen("card")
           c == Copies
           r == [i \in 1 .. 4 |-> Revision(c[i])]
<1>1. f \in Files /\ g \in Files /\ Ordered(f) /\ Ordered(g)
  BY NoFileFits DEF CopiesInv, Seen, Media
<1>2. c[1] = f.primary /\ c[2] = f.backup /\ c[3] = g.primary /\ c[4] = g.backup
  BY DEF Copies
<1>3. \A i \in 1 .. 4 : c[i] \in Copy \cup {Absent}
  BY <1>1, <1>2, TopTyped
<1>4. \A i \in 1 .. 4 : /\ r[i] = Revision(c[i]) /\ r[i] \in Nat
                        /\ c[i] = Absent <=> r[i] = 0
  BY <1>3, RevisionFacts
<1>5. \A i, j \in 1 .. 4 : Beats(c, i, j) <=> r[i] > r[j] \/ (r[i] = r[j] /\ i <= j)
  BY <1>4 DEF Beats
<1>6. r[1] \in Nat /\ r[2] \in Nat /\ r[3] \in Nat /\ r[4] \in Nat
  BY <1>4
<1>7. /\ c[1] # Absent => r[2] <= r[1]
      /\ c[3] # Absent => r[4] <= r[3]
  BY <1>1, <1>2, <1>4 DEF Ordered
<1> HIDE DEF r, c, f, g
<1>8. \E i \in 1 .. 4 : \A j \in 1 .. 4 : Beats(c, i, j)
  <2> DEFINE Best(i) == \A j \in 1 .. 4 : r[i] > r[j] \/ (r[i] = r[j] /\ i <= j)
  <2>1. Best(1) \/ Best(2) \/ Best(3) \/ Best(4)
    BY <1>6
  <2>2. \E i \in 1 .. 4 : Best(i)
    BY <2>1
  <2> QED
    BY <1>5, <2>2
<1>9. PICK k \in 1 .. 4 : Loaded = c[k] /\ \A j \in 1 .. 4 : Beats(c, k, j)
  <2> DEFINE k == CHOOSE i \in 1 .. 4 : \A j \in 1 .. 4 : Beats(c, i, j)
  <2>1. k \in 1 .. 4 /\ \A j \in 1 .. 4 : Beats(c, k, j)
    BY <1>8
  <2>2. Loaded = c[k]
    BY DEF Loaded, c
  <2> QED
    BY <2>1, <2>2
<1>10. \A j \in 1 .. 4 : r[k] > r[j] \/ (r[k] = r[j] /\ k <= j)
  BY <1>5, <1>9
<1>11. /\ Top(f) = IF c[1] # Absent THEN c[1] ELSE c[2]
       /\ Top(g) = IF c[3] # Absent THEN c[3] ELSE c[4]
  BY <1>2 DEF Top
<1>12. Newest = IF Revision(Top(g)) > Revision(Top(f)) THEN Top(g) ELSE Top(f)
  BY DEF Newest, f, g
<1>13. \A i \in 1 .. 4 : Revision(c[i]) = r[i] /\ (c[i] = Absent <=> r[i] = 0)
  BY <1>4
<1>14. CASE k = 1
  BY <1>6, <1>7, <1>9, <1>10, <1>11, <1>12, <1>13, <1>14
<1>15. CASE k = 2
  BY <1>6, <1>7, <1>9, <1>10, <1>11, <1>12, <1>13, <1>15
<1>16. CASE k = 3
  BY <1>6, <1>7, <1>9, <1>10, <1>11, <1>12, <1>13, <1>16
<1>17. CASE k = 4
  BY <1>6, <1>7, <1>9, <1>10, <1>11, <1>12, <1>13, <1>17
<1> QED
  BY <1>14, <1>15, <1>16, <1>17

LEMMA NewestIs ==
  ASSUME CopiesInv
  PROVE  /\ Newest \in Copy \cup {Absent}
         /\ \A m \in Media : Readable(m) => Revision(Top(file[m])) <= Revision(Newest)
         /\ \/ Newest = Top(file["flash"])
            \/ /\ Readable("card") /\ Newest = Top(file["card"])
               /\ Revision(Top(file["card"])) > Revision(Top(file["flash"]))
<1>1. \A m \in Media : Top(file[m]) \in Copy \cup {Absent} /\ Revision(Top(file[m])) \in Nat
  BY TopTyped, RevisionFacts DEF CopiesInv
<1>2. Top(Seen("flash")) = Top(file["flash"]) /\ Readable("flash")
  BY DEF Seen, Readable
<1>3. Top(Seen("card")) = IF Readable("card") THEN Top(file["card"]) ELSE Absent
  BY NoFileFits DEF Seen
<1>4. Revision(Absent) = 0
  BY DEF Revision
<1> QED
  BY <1>1, <1>2, <1>3, <1>4 DEF Newest, Media

-----------------------------------------------------------------------------
(* What a write leaves on its medium.                                      *)
LEMMA UnreplacedKeeps ==
  ASSUME NEW f \in Files, Ordered(f), NEW g \in Unreplaced(f)
  PROVE  g \in Files /\ Ordered(g) /\ Top(g) = Top(f)
         /\ (g = f \/ g.primary = Absent \/ g.backup = Absent)
<1>1. \/ g = f
      \/ g = [primary |-> Top(f), backup |-> Absent]
      \/ g = [primary |-> Absent, backup |-> Top(f)]
  BY DEF Unreplaced, Top
<1>2. Revision(Absent) = 0
  BY DEF Revision
<1>3. Top(f) \in Copy \cup {Absent} /\ Revision(Top(f)) \in Nat
  BY TopTyped, RevisionFacts
<1> QED
  BY <1>1, <1>2, <1>3 DEF Files, Ordered, Top

LEMMA ReplacedPuts ==
  ASSUME NEW f \in Files, NEW c \in Copy, Revision(Top(f)) <= Revision(c), NEW g \in Replaced(f, c)
  PROVE  /\ g \in Files /\ Ordered(g) /\ Top(g) = c
         /\ g.primary = c /\ g.backup \in {Absent, Top(f)}
<1>1. PICK b \in {Absent, Top(f)} : g = [primary |-> c, backup |-> b]
  BY DEF Replaced, Top
<1>2. c # Absent /\ Revision(c) \in Nat /\ Revision(Absent) = 0
  BY RevisionFacts, MessageRecordAssumption DEF Revision, Copy
<1>3. Top(f) \in Copy \cup {Absent}
  BY TopTyped
<1>4. Revision(b) <= Revision(c)
  BY <1>1, <1>2
<1> QED
  BY <1>1, <1>2, <1>3, <1>4 DEF Files, Ordered, Top

LEMMA LeftoversFit ==
  ASSUME NEW f \in Files, Ordered(f), NEW g \in Leftovers(f)
  PROVE  g \in Files /\ Ordered(g)
<1>1. PICK p \in {f.primary, Absent}, b \in {f.backup, Absent} : g = [primary |-> p, backup |-> b]
  BY DEF Leftovers
<1>2. f.primary \in Copy \cup {Absent} /\ f.backup \in Copy \cup {Absent}
  BY TopTyped
<1>3. Revision(Absent) = 0 /\ Revision(f.primary) \in Nat
  BY <1>2, RevisionFacts DEF Revision
<1> QED
  BY <1>1, <1>2, <1>3 DEF Files, Ordered

(* A write on a readable medium, done, failed or cut off.                  *)
Written(m, g) ==
  /\ Writing /\ m \in Media /\ Readable(m)
  /\ g \in Replaced(file[m], job.new) \cup Unreplaced(file[m])

LEMMA WrittenFits ==
  ASSUME CopiesInv, WriteInv, NEW m, NEW g, Written(m, g)
  PROVE  /\ g \in Files /\ Ordered(g) /\ Top(g) \in {job.new, Top(file[m])}
         /\ Revision(Top(file[m])) <= Revision(Top(g))
         /\ Revision(Top(g)) <= Revision(job.new)
         /\ kept[m] <= Revision(Top(g))
         /\ g \in Replaced(file[m], job.new) => Top(g) = job.new
<1>1. /\ file[m] \in Files /\ Ordered(file[m]) /\ kept[m] \in Nat
      /\ kept[m] <= Revision(Top(file[m]))
  BY DEF CopiesInv, Written
<1>2. job.new \in Copy /\ Revision(Top(file[m])) <= Revision(job.new)
  BY DEF WriteInv, Written
<1>3. Revision(Top(file[m])) \in Nat /\ Revision(job.new) \in Nat
  BY <1>1, <1>2, TopTyped, RevisionFacts
<1>4. CASE g \in Replaced(file[m], job.new)
  <2>1. g \in Files /\ Ordered(g) /\ Top(g) = job.new
    BY <1>1, <1>2, <1>4, ReplacedPuts
  <2> QED
    BY <1>1, <1>2, <1>3, <2>1
<1>5. CASE g \in Unreplaced(file[m]) /\ g \notin Replaced(file[m], job.new)
  <2>1. g \in Files /\ Ordered(g) /\ Top(g) = Top(file[m])
    BY <1>1, <1>5, UnreplacedKeeps
  <2> QED
    BY <1>1, <1>2, <1>3, <1>5, <2>1
<1> QED
  BY <1>4, <1>5 DEF Written

(* commit() is such a write: no backup is newer than its primary.          *)
LEMMA CommitWrites ==
  ASSUME WriteInv, Writing
  PROVE  \A m \in Media : /\ Succeeds(m) = Replaced(file[m], job.new)
                          /\ Fails(m) = Unreplaced(file[m])
BY DEF WriteInv, Succeeds, Fails

LEMMA RetainedIs ==
  ASSUME CopiesInv, WriteInv, Writing, NEW m \in Media, Retained(m)
  PROVE  Revision(Top(file[m])) = Revision(job.new)
<1>1. /\ file[m] \in Files /\ Ordered(file[m]) /\ Readable(m)
      /\ job.new \in {file[m].primary, file[m].backup}
  BY DEF CopiesInv, Retained
<1>2. job.new \in Copy /\ Revision(Top(file[m])) <= Revision(job.new)
  BY <1>1 DEF WriteInv
<1>3. job.new # Absent /\ Revision(job.new) \in Nat
  BY <1>2, RevisionFacts, MessageRecordAssumption DEF Copy
<1>4. Revision(file[m].primary) \in Nat
  BY <1>1, TopTyped, RevisionFacts
<1> QED
  BY <1>1, <1>2, <1>3, <1>4 DEF Ordered, Top

-----------------------------------------------------------------------------
LEMMA CopiesQuiet ==
  ASSUME CopiesInv, UNCHANGED <<file, kept>>,
         job'.at \notin {"clean flash", "clean card", "primary"}
  PROVE  CopiesInv'
BY DEF CopiesInv

LEMMA WriteQuiet == ~Writing' => WriteInv'
BY DEF WriteInv

LEMMA CopiesOne ==
  ASSUME CopiesInv, NEW m \in Media, NEW g \in Files, Ordered(g), file' = [file EXCEPT ![m] = g],
         kept' \in [Media -> Nat], \A n \in Media : n # m => kept'[n] = kept[n],
         kept'[m] <= Revision(Top(g)),
         job'.at \notin {"clean flash", "clean card", "primary"}
  PROVE  CopiesInv'
<1>1. file' \in [Media -> Files] /\ file'[m] = g /\ \A n \in Media : n # m => file'[n] = file[n]
  BY DEF CopiesInv
<1>2. \A n \in Media : Ordered(file'[n]) /\ kept'[n] <= Revision(Top(file'[n]))
  BY <1>1 DEF CopiesInv
<1> QED
  BY <1>1, <1>2 DEF CopiesInv

(* The bound of a write outlives its steps.                                *)
LEMMA WriteOne ==
  ASSUME CopiesInv, WriteInv, NEW m \in Media, NEW g, Written(m, g), file' = [file EXCEPT ![m] = g],
         card' = card, job'.new = job.new, job'.prefer = job.prefer
  PROVE  WriteInv'
<1>1. Revision(Top(g)) <= Revision(job.new)
  BY WrittenFits
<1>2. file'[m] = g /\ \A n \in Media : n # m => file'[n] = file[n]
  BY DEF CopiesInv
<1>3. /\ job.new \in Copy /\ job.prefer = {}
      /\ \A n \in Media : Readable(n) => Revision(Top(file[n])) <= Revision(job.new)
  BY DEF WriteInv, Written
<1>4. \A n \in Media : Readable(n)' => Readable(n)
  BY DEF Readable
<1>5. \A n \in Media : Readable(n)' => Revision(Top(file'[n])) <= Revision(job.new)
  BY <1>1, <1>2, <1>3, <1>4
<1> QED
  BY <1>3, <1>5 DEF WriteInv

LEMMA WriteStays ==
  ASSUME WriteInv, Writing, UNCHANGED file, \A n \in Media : Readable(n)' => Readable(n),
         job'.new = job.new, job'.prefer = job.prefer
  PROVE  WriteInv'
BY DEF WriteInv

(* A write begins with the newest copy or with a later revision of it.     *)
LEMMA WriteBegins ==
  ASSUME CopiesInv, UNCHANGED <<file, card>>, job'.new \in Copy, job'.prefer = {},
         Revision(Newest) <= Revision(job'.new)
  PROVE  WriteInv'
<1>1. \A m \in Media : Readable(m) => Revision(Top(file[m])) <= Revision(Newest)
  BY NewestIs
<1>2. \A m \in Media : Revision(Top(file[m])) \in Nat
  BY TopTyped, RevisionFacts DEF CopiesInv
<1>3. Revision(Newest) \in Nat /\ Revision(job'.new) \in Nat
  BY NewestIs, RevisionFacts
<1>4. \A m \in Media : Readable(m)' = Readable(m)
  BY DEF Readable
<1>5. \A m \in Media : Readable(m)' => Revision(Top(file'[m])) <= Revision(job'.new)
  BY <1>1, <1>2, <1>3, <1>4
<1> QED
  BY <1>5 DEF WriteInv

LEMMA NothingPreferred ==
  ASSUME CopiesInv
  PROVE  PreferBackup = {}
<1>1. \A m \in Media : Seen(m) \in Files /\ Ordered(Seen(m))
  BY NoFileFits DEF CopiesInv, Seen
<1>2. ASSUME NEW m \in Media, Seen(m).primary # Absent
      PROVE  ~(Revision(Seen(m).backup) > Revision(Seen(m).primary))
  BY <1>1, <1>2, TopTyped, RevisionFacts DEF Ordered
<1> QED
  BY <1>2 DEF PreferBackup

(* update() and requestRetry() write the record again, or revised.         *)
LEMMA Revised ==
  ASSUME CopiesInv, Newest \in Copy, NEW op \in {"update", "retry"}, NEW to \in 0 .. 18,
         Revise(op, Newest, to)
  PROVE  /\ JobShape' /\ job'.at = "flash" /\ job'.op = op
         /\ job'.new \in Copy /\ job'.prefer = {}
         /\ job'.new = Newest
            \/ (job'.new.revision > Newest.revision /\ job'.new.status = to)
<1> DEFINE n == [status |-> to,
                 revision |-> IF Newest.status = to THEN Newest.revision ELSE Newest.revision + 1]
<1>1. job' = [op |-> op, at |-> "flash", prefer |-> {}, new |-> n]
  BY NothingPreferred DEF Revise
<1>2. n \in Copy
  BY DEF Copy
<1>3. Newest = [revision |-> Newest.revision, status |-> Newest.status] /\ Newest.revision \in Nat
  BY DEF Copy
<1>4. n = Newest \/ (n.revision > Newest.revision /\ n.status = to)
  BY <1>3
<1> HIDE DEF n
<1> QED
  BY <1>1, <1>2, <1>4 DEF JobShape

LEMMA ShownIs ==
  ASSUME CopiesInv
  PROVE  Shown = IF Deleted THEN Absent ELSE Newest
BY LoadedNewest DEF Shown

(* The four ways an operation on the copies begins.                        *)
LEMMA BeginUpdate ==
  ASSUME CopiesInv, Update
  PROVE  /\ ~Deleted /\ Newest \in Copy /\ UNCHANGED <<file, markers, card, kept>>
         /\ \E to \in 0 .. 18 : Allowed(Newest.status, to) /\ Revise("update", Newest, to)
<1>1. Shown # Absent /\ Shown = Newest /\ ~Deleted
  BY ShownIs DEF Update
<1>2. Newest \in Copy
  BY <1>1, NewestIs
<1> QED
  BY <1>1, <1>2, MessageRecordAssumption DEF Update

LEMMA BeginRetry ==
  ASSUME CopiesInv, Retry
  PROVE  /\ ~Deleted /\ Newest \in Copy /\ UNCHANGED <<file, markers, card, kept>>
         /\ \E to \in 0 .. 18 : Allowed(Newest.status, to) /\ Revise("retry", Newest, to)
<1>1. Shown # Absent /\ Shown = Newest /\ ~Deleted
  BY ShownIs DEF Retry
<1>2. Newest \in Copy
  BY <1>1, NewestIs
<1>3. /\ Retryable(Newest.status) /\ RetryStatus(Newest.status) \in 0 .. 18
      /\ Revise("retry", Newest, RetryStatus(Newest.status))
      /\ UNCHANGED <<file, markers, card, kept>>
  BY <1>1, MessageRecordAssumption DEF Retry
<1>4. Newest.status \in 0 .. 18
  BY <1>2 DEF Copy
<1>5. Allowed(Newest.status, RetryStatus(Newest.status))
  BY <1>3, <1>4 DEF Retryable, Failed, FailedSend, RetryStatus, Relay, PropQueued, Queued, Allowed,
     Delivered, Propagated
<1> QED
  BY <1>1, <1>2, <1>3, <1>5

LEMMA BeginCreate ==
  ASSUME CopiesInv, NEW s \in Statuses, Create(s)
  PROVE  /\ JobShape' /\ job'.at = "flash" /\ job'.prefer = {} /\ job'.new \in Copy
         /\ UNCHANGED <<file, markers, card, kept>>
         /\ Newest = Absent /\ \A m \in Media : file[m] = NoFile
<1>1. /\ job' = [op |-> "create", at |-> "flash", prefer |-> {}, new |-> [revision |-> 1, status |-> s]]
      /\ UNCHANGED <<file, markers, card, kept>> /\ file = [m \in Media |-> NoFile]
  BY DEF Create
<1>2. [revision |-> 1, status |-> s] \in Copy
  BY MessageRecordAssumption DEF Copy
<1>3. Newest = Absent
  BY <1>1, NewestIs, NoFileFits DEF Media
<1> QED
  BY <1>1, <1>2, <1>3 DEF JobShape

LEMMA BeginEvict ==
  ASSUME CopiesInv, Evict
  PROVE  /\ JobShape' /\ job'.prefer = {} /\ job'.new = Newest /\ Newest \in Copy /\ ~Deleted
         /\ job'.at = IF card = "absent" THEN "backup" ELSE "verify"
         /\ UNCHANGED <<file, markers, card, kept>>
<1>1. Shown # Absent /\ Shown = Newest /\ ~Deleted
  BY ShownIs DEF Evict
<1>2. Newest \in Copy
  BY <1>1, NewestIs
<1>3. job' = [op |-> "evict", prefer |-> {}, new |-> Newest,
              at |-> IF card = "absent" THEN "backup" ELSE "verify"]
  BY <1>1 DEF Evict
<1> QED
  BY <1>1, <1>2, <1>3 DEF JobShape, Evict

LEMMA BeginErase ==
  ASSUME EraseRecord \/ Erase
  PROVE  job'.at = "marker" /\ UNCHANGED <<file, markers, card, kept>>
BY DEF EraseRecord, Erase, Idle

(* Each write step either leaves the file or writes it.                    *)
LEMMA FlashOutcomes ==
  ASSUME CopiesInv, WriteInv, JobShape, CommitFlash
  PROVE  /\ job.at = "flash" /\ UNCHANGED <<markers, card>>
         /\ job'.at \in {"card", "done"}
         /\ job'.at = "card" => job'.new = job.new /\ job'.prefer = job.prefer
         /\ \/ /\ UNCHANGED file /\ kept' = [kept EXCEPT !["flash"] = job.new.revision]
               /\ Retained("flash")
            \/ \E g : /\ Written("flash", g) /\ file' = [file EXCEPT !["flash"] = g]
                      /\ \/ UNCHANGED kept
                         \/ /\ kept' = [kept EXCEPT !["flash"] = job.new.revision]
                            /\ g \in Replaced(file["flash"], job.new)
<1>1. job.at = "flash" /\ UNCHANGED <<markers, card>> /\ Writing /\ Readable("flash")
  BY DEF CommitFlash, Writing, Readable
<1>2. Goto("card") \/ Answer
  BY DEF CommitFlash
<1>3. /\ job'.at \in {"card", "done"}
      /\ job'.at = "card" => job'.new = job.new /\ job'.prefer = job.prefer
  BY <1>2, GotoMoves DEF Goto, Answer, Idle
<1>4. "flash" \in Media
  BY DEF Media
<1>5. \/ /\ UNCHANGED file /\ kept' = [kept EXCEPT !["flash"] = job.new.revision]
         /\ Retained("flash")
      \/ \E g \in Replaced(file["flash"], job.new) :
           /\ file' = [file EXCEPT !["flash"] = g]
           /\ kept' = [kept EXCEPT !["flash"] = job.new.revision]
      \/ \E g \in Unreplaced(file["flash"]) :
           file' = [file EXCEPT !["flash"] = g] /\ UNCHANGED kept
  BY <1>1, <1>4, CommitWrites, Zenon DEF CommitFlash, Keep
<1> QED
  BY <1>1, <1>3, <1>4, <1>5, Zenon DEF Written

LEMMA CardOutcomes ==
  ASSUME CopiesInv, WriteInv, CommitCard \/ VerifyMirror
  PROVE  /\ Writing /\ UNCHANGED <<markers, card>>
         /\ \/ /\ UNCHANGED file /\ kept' = [kept EXCEPT !["card"] = job.new.revision]
               /\ Retained("card")
            \/ UNCHANGED <<file, kept>>
            \/ \E g : /\ Written("card", g) /\ file' = [file EXCEPT !["card"] = g]
                      /\ \/ UNCHANGED kept
                         \/ /\ kept' = [kept EXCEPT !["card"] = job.new.revision]
                            /\ g \in Replaced(file["card"], job.new)
<1>1. Writing /\ UNCHANGED <<markers, card>> /\ "card" \in Media
  BY DEF CommitCard, VerifyMirror, Writing, Media
<1>2. CASE CommitCard
  <2>1. \/ /\ UNCHANGED file /\ kept' = [kept EXCEPT !["card"] = job.new.revision]
           /\ Retained("card")
        \/ UNCHANGED <<file, kept>>
        \/ /\ Readable("card") /\ kept' = [kept EXCEPT !["card"] = job.new.revision]
           /\ \E g \in Replaced(file["card"], job.new) : file' = [file EXCEPT !["card"] = g]
        \/ /\ Readable("card") /\ UNCHANGED kept
           /\ \E g \in Unreplaced(file["card"]) : file' = [file EXCEPT !["card"] = g]
    BY <1>1, <1>2, CommitWrites, Zenon DEF CommitCard, Keep
  <2> QED
    BY <1>1, <2>1, Zenon DEF Written
<1>3. CASE VerifyMirror
  <2>1. \/ /\ UNCHANGED file /\ kept' = [kept EXCEPT !["card"] = job.new.revision]
           /\ Retained("card")
        \/ UNCHANGED <<file, kept>>
        \/ /\ Readable("card") /\ kept' = [kept EXCEPT !["card"] = job.new.revision]
           /\ \E g \in Replaced(file["card"], job.new) : file' = [file EXCEPT !["card"] = g]
        \/ /\ Readable("card") /\ UNCHANGED kept
           /\ \E g \in Unreplaced(file["card"]) \cup Replaced(file["card"], job.new) :
                file' = [file EXCEPT !["card"] = g]
    BY <1>1, <1>3, Zenon DEF VerifyMirror, Keep
  <2> QED
    BY <1>1, <2>1, Zenon DEF Written
<1> QED
  BY <1>2, <1>3

LEMMA EitherWay ==
  ASSUME JobShape, NEW a, Goto(a) \/ Answer
  PROVE  /\ JobShape'
         /\ \/ Goto(a) /\ job'.at = a /\ job'.new = job.new /\ job'.prefer = job.prefer
            \/ Answer /\ job'.at = "done"
<1>1. CASE Goto(a)
  BY <1>1, GotoMoves DEF Goto
<1>2. CASE Answer
  BY <1>2, AnswerRests
<1> QED
  BY <1>1, <1>2

LEMMA NatFacts == \A x \in Nat : x <= x /\ 0 <= x
OBVIOUS

LEMMA KeepsWritten ==
  ASSUME CopiesInv, WriteInv, NEW m \in Media, Writing,
         job'.at \notin {"clean flash", "clean card", "primary"},
         \/ /\ UNCHANGED file /\ kept' = [kept EXCEPT ![m] = job.new.revision] /\ Retained(m)
         \/ UNCHANGED <<file, kept>>
         \/ \E g : /\ Written(m, g) /\ file' = [file EXCEPT ![m] = g]
                   /\ \/ UNCHANGED kept
                      \/ /\ kept' = [kept EXCEPT ![m] = job.new.revision]
                         /\ g \in Replaced(file[m], job.new)
  PROVE  CopiesInv'
<1>1. job.new \in Copy
  BY DEF WriteInv
<1>2. job.new.revision = Revision(job.new) /\ Revision(job.new) \in Nat
  BY <1>1, RevisionFacts, MessageRecordAssumption DEF Copy
<1> DEFINE bound == Revision(job.new)
<1>0. bound <= bound
  BY <1>2, NatFacts, Zenon
<1> HIDE DEF bound
<1>3. CASE UNCHANGED file /\ kept' = [kept EXCEPT ![m] = job.new.revision] /\ Retained(m)
  <2>1. Revision(Top(file[m])) = Revision(job.new)
    BY <1>3, RetainedIs
  <2>2. kept'[m] = Revision(job.new) /\ kept' \in [Media -> Nat]
        /\ \A n \in Media : n # m => kept'[n] = kept[n]
    BY <1>2, <1>3 DEF CopiesInv
  <2>3. file[m] \in Files /\ Ordered(file[m]) /\ file' = [file EXCEPT ![m] = file[m]]
    BY <1>3 DEF CopiesInv
  <2>4. kept'[m] <= Revision(Top(file[m]))
    BY <1>0, <2>1, <2>2, Zenon DEF bound
  <2> QED
    BY <2>2, <2>3, <2>4, CopiesOne
<1>4. CASE UNCHANGED <<file, kept>>
  BY <1>4, CopiesQuiet
<1>5. ASSUME NEW g, Written(m, g), file' = [file EXCEPT ![m] = g],
             \/ UNCHANGED kept
             \/ /\ kept' = [kept EXCEPT ![m] = job.new.revision]
                /\ g \in Replaced(file[m], job.new)
      PROVE  CopiesInv'
  <2>1. g \in Files /\ Ordered(g) /\ kept[m] <= Revision(Top(g))
        /\ (g \in Replaced(file[m], job.new) => Top(g) = job.new)
    BY <1>5, WrittenFits
  <2>2. CASE UNCHANGED kept
    <3>1. kept' \in [Media -> Nat] /\ kept'[m] <= Revision(Top(g))
          /\ \A n \in Media : n # m => kept'[n] = kept[n]
      BY <2>1, <2>2 DEF CopiesInv
    <3> QED
      BY <1>5, <2>1, <3>1, CopiesOne
  <2>3. CASE /\ kept' = [kept EXCEPT ![m] = job.new.revision]
             /\ g \in Replaced(file[m], job.new)
    <3>1. kept' \in [Media -> Nat] /\ kept'[m] = Revision(job.new)
          /\ \A n \in Media : n # m => kept'[n] = kept[n]
      BY <1>2, <2>3 DEF CopiesInv
    <3>2. kept'[m] <= Revision(Top(g))
      BY <1>0, <2>1, <2>3, <3>1, Zenon DEF bound
    <3> QED
      BY <1>5, <2>1, <3>1, <3>2, CopiesOne
  <2> QED
    BY <1>5, <2>2, <2>3
<1> QED
  BY <1>3, <1>4, <1>5

-----------------------------------------------------------------------------
(* Power fails: at most the medium that was being written is left changed. *)
LEMMA CrashOutcomes ==
  ASSUME CopiesInv, WriteInv, Crash
  PROVE  /\ UNCHANGED <<kept, erased>> /\ job'.at = "done"
         /\ \/ UNCHANGED file
            \/ \E m \in Media : \E g :
                 /\ Written(m, g) /\ file' = [file EXCEPT ![m] = g]
                 /\ m = "flash" => job.at = "flash"
                 /\ m = "card" => job.at \in {"card", "verify"}
<1>1. UNCHANGED <<kept, erased>> /\ job'.at = "done"
  BY DEF Crash, Answer, Idle
<1>2. PICK f \in Interrupted("flash"), c \in Interrupted("card") :
        file' = [file EXCEPT !["flash"] = f, !["card"] = c]
  BY Zenon DEF Crash
<1>3. file = [m \in Media |-> file[m]] /\ "flash" \in Media /\ "card" \in Media
  BY DEF CopiesInv, Media
<1>4. \A m \in Media : \A g \in Interrupted(m) :
        g = file[m] \/ (Written(m, g) /\ job.at \in {m, "verify"} /\ (m = "flash" => job.at = m))
  <2> SUFFICES ASSUME NEW m \in Media, NEW g \in Interrupted(m), g # file[m]
               PROVE  Written(m, g) /\ job.at \in {m, "verify"} /\ (m = "flash" => job.at = m)
    BY Zenon
  <2>1. Readable(m) /\ ((Writes /\ job.at = m) \/ (job.at = "verify" /\ m = "card"))
    BY Zenon DEF Interrupted
  <2>2. Writing
    BY <2>1 DEF Writing, Media
  <2>3. Succeeds(m) = Replaced(file[m], job.new) /\ Fails(m) = Unreplaced(file[m])
    BY <2>2, CommitWrites
  <2>4. g \in Replaced(file[m], job.new) \cup Unreplaced(file[m])
    BY <2>1, <2>3, Zenon DEF Interrupted
  <2>5. m = "card" => m # "flash"
    OBVIOUS
  <2> QED
    BY <2>1, <2>2, <2>4, <2>5, Zenon DEF Written
<1>5. CASE f = file["flash"] /\ c = file["card"]
  BY <1>1, <1>2, <1>3, <1>5 DEF Media
<1>6. CASE f # file["flash"]
  <2>1. Written("flash", f) /\ job.at = "flash"
    BY <1>2, <1>3, <1>4, <1>6
  <2>2. c = file["card"]
    BY <1>2, <1>3, <1>4, <2>1
  <2>3. file' = [file EXCEPT !["flash"] = f]
    BY <1>2, <1>3, <2>2 DEF Media
  <2> QED
    BY <1>1, <1>3, <2>1, <2>3
<1>7. CASE c # file["card"] /\ f = file["flash"]
  <2>1. Written("card", c) /\ job.at \in {"card", "verify"}
    BY <1>2, <1>3, <1>4, <1>7
  <2>2. file' = [file EXCEPT !["card"] = c]
    BY <1>2, <1>3, <1>7 DEF Media
  <2> QED
    BY <1>1, <1>3, <2>1, <2>2
<1> QED
  BY <1>5, <1>6, <1>7

LEMMA CleanOutcomes ==
  ASSUME CopiesInv, NEW m \in Media, NEW g \in Leftovers(file[m]), UNCHANGED kept,
         file' = [file EXCEPT ![m] = g] \/ UNCHANGED file,
         job.at \in {"clean flash", "clean card"}, job'.at # "primary"
  PROVE  CopiesInv'
<1>1. g \in Files /\ Ordered(g)
  BY LeftoversFit DEF CopiesInv
<1>2. \A n \in Media : file'[n] \in Files /\ Ordered(file'[n])
  BY <1>1 DEF CopiesInv
<1>3. \A n \in Media : kept'[n] = 0 /\ 0 <= Revision(Top(file'[n]))
  <2>1. \A n \in Media : kept'[n] = 0
    BY DEF CopiesInv
  <2>2. \A n \in Media : Revision(Top(file'[n])) \in Nat
    BY <1>2, TopTyped, RevisionFacts
  <2> QED
    BY <2>1, <2>2, NatFacts, Zenon
<1>4. file' \in [Media -> Files] /\ kept' \in [Media -> Nat]
  BY <1>1 DEF CopiesInv
<1> QED
  BY <1>2, <1>3, <1>4 DEF CopiesInv

(* evictInternal() takes the backup first, then the primary.               *)
LEMMA RemoveFirstDoes ==
  ASSUME CopiesInv, JobShape, RemoveFirst
  PROVE  /\ job.at = "backup" /\ UNCHANGED <<markers, card>>
         /\ kept' = [kept EXCEPT !["flash"] = 0]
         /\ \/ UNCHANGED file /\ job'.at = "done"
            \/ /\ job'.at = "primary" /\ job'.new = job.new
               /\ file' = [file EXCEPT !["flash"] =
                             [primary |-> file["flash"].primary, backup |-> Absent]]
<1>1. job.at = "backup" /\ UNCHANGED <<markers, card>> /\ kept' = [kept EXCEPT !["flash"] = 0]
  BY Zenon DEF RemoveFirst, Forget
<1>2. CASE UNCHANGED file /\ Answer
  BY <1>1, <1>2 DEF Answer, Idle
<1>3. CASE file' = [file EXCEPT !["flash"] = Without(@, BackupFirst[1])] /\ Goto("primary")
  <2>1. job'.at = "primary" /\ job'.new = job.new
    BY <1>3, GotoMoves DEF Goto
  <2>2. file["flash"] = [primary |-> file["flash"].primary, backup |-> file["flash"].backup]
    BY TopTyped DEF CopiesInv, Media
  <2>3. Without(file["flash"], BackupFirst[1]) = [primary |-> file["flash"].primary, backup |-> Absent]
    BY <2>2 DEF Without, BackupFirst
  <2>4. file' = [file EXCEPT !["flash"] = Without(file["flash"], BackupFirst[1])]
    BY <1>3, Zenon
  <2> QED
    BY <1>1, <2>1, <2>3, <2>4
<1> QED
  BY <1>2, <1>3, Zenon DEF RemoveFirst

LEMMA RemoveSecondDoes ==
  ASSUME CopiesInv, RemoveSecond
  PROVE  /\ job.at = "primary" /\ job'.at = "done" /\ UNCHANGED <<markers, card, kept>>
         /\ \/ UNCHANGED file
            \/ file' = [file EXCEPT !["flash"] =
                          [primary |-> Absent, backup |-> file["flash"].backup]]
<1>1. job.at = "primary" /\ job'.at = "done" /\ UNCHANGED <<markers, card, kept>>
  BY DEF RemoveSecond, Answer, Idle
<1>2. CASE UNCHANGED file
  BY <1>1, <1>2
<1>3. CASE file' = [file EXCEPT !["flash"] = Without(@, BackupFirst[2])]
  <2>1. file["flash"] = [primary |-> file["flash"].primary, backup |-> file["flash"].backup]
    BY TopTyped DEF CopiesInv, Media
  <2>2. Without(file["flash"], BackupFirst[2]) = [primary |-> Absent, backup |-> file["flash"].backup]
    BY <2>1 DEF Without, BackupFirst
  <2>3. file' = [file EXCEPT !["flash"] = Without(file["flash"], BackupFirst[2])]
    BY <1>3, Zenon
  <2> QED
    BY <1>1, <2>2, <2>3
<1> QED
  BY <1>2, <1>3, Zenon DEF RemoveSecond

LEMMA RemoveKeeps ==
  ASSUME CopiesInv, JobShape, RemoveFirst \/ RemoveSecond
  PROVE  CopiesInv' /\ WriteInv'
<1>1. /\ file["flash"] \in Files /\ Ordered(file["flash"]) /\ "flash" \in Media
      /\ file["flash"].primary \in Copy \cup {Absent} /\ file["flash"].backup \in Copy \cup {Absent}
  BY TopTyped DEF CopiesInv, Media
<1>2. Revision(Absent) = 0 /\ \A x \in Copy \cup {Absent} : Revision(x) \in Nat
  BY RevisionFacts DEF Revision
<1>3. job'.at \in {"primary", "done"} /\ kept'["flash"] = 0 /\ kept' \in [Media -> Nat]
      /\ \A m \in Media : m # "flash" => kept'[m] = kept[m]
  <2>1. CASE RemoveFirst
    <3>1. job'.at \in {"primary", "done"}
      BY <2>1, RemoveFirstDoes
    <3>2. kept' = [kept EXCEPT !["flash"] = 0]
      BY <2>1, RemoveFirstDoes
    <3>3. kept' \in [Media -> Nat] /\ kept'["flash"] = 0
          /\ \A m \in Media : m # "flash" => kept'[m] = kept[m]
      BY <1>1, <3>2 DEF CopiesInv
    <3> QED
      BY <3>1, <3>3
  <2>2. CASE RemoveSecond
    <3>1. job.at = "primary" /\ job'.at = "done" /\ kept' = kept
      BY <2>2, RemoveSecondDoes
    <3> QED
      BY <3>1 DEF CopiesInv
  <2> QED
    BY <2>1, <2>2
<1>4. PICK g \in Files : Ordered(g) /\ file' = [file EXCEPT !["flash"] = g]
  <2>1. CASE UNCHANGED file
    <3>1. file' = [file EXCEPT !["flash"] = file["flash"]]
      BY <2>1 DEF CopiesInv
    <3> QED
      BY <1>1, <3>1
  <2>2. CASE file' = [file EXCEPT !["flash"] =
                        [primary |-> file["flash"].primary, backup |-> Absent]]
    <3> DEFINE g == [primary |-> file["flash"].primary, backup |-> Absent]
    <3>1. g \in Files /\ Ordered(g)
      BY <1>1, <1>2 DEF Files, Ordered
    <3> QED
      BY <2>2, <3>1
  <2>3. CASE file' = [file EXCEPT !["flash"] =
                        [primary |-> Absent, backup |-> file["flash"].backup]]
    <3> DEFINE g == [primary |-> Absent, backup |-> file["flash"].backup]
    <3>1. g \in Files /\ Ordered(g)
      BY <1>1 DEF Files, Ordered
    <3> QED
      BY <2>3, <3>1
  <2> QED
    BY <2>1, <2>2, <2>3, RemoveFirstDoes, RemoveSecondDoes
<1>5. file' \in [Media -> Files] /\ file'["flash"] = g /\ \A m \in Media : m # "flash" => file'[m] = file[m]
  BY <1>4 DEF CopiesInv, Media
<1>6. \A m \in Media : Ordered(file'[m]) /\ kept'[m] <= Revision(Top(file'[m]))
  <2>1. 0 <= Revision(Top(g))
    BY <1>2, TopTyped, NatFacts, Zenon
  <2> QED
    BY <1>3, <1>4, <1>5, <2>1, Zenon DEF CopiesInv
<1>7. CopiesInv'
  BY <1>3, <1>5, <1>6 DEF CopiesInv
<1> QED
  BY <1>3, <1>7 DEF WriteInv, Writing

(* Every step keeps the copies and what is being written in step.          *)
LEMMA CopiesStep ==
  ASSUME CopiesInv, WriteInv, JobShape, Next
  PROVE  CopiesInv' /\ WriteInv'
<1>1. ASSUME NEW s \in Statuses, Create(s) PROVE CopiesInv' /\ WriteInv'
  <2>1. Revision(Newest) <= Revision(job'.new)
    <3>1. Revision(Newest) = 0 /\ Revision(job'.new) \in Nat
      BY <1>1, BeginCreate, RevisionFacts DEF Revision
    <3> QED
      BY <3>1, NatFacts, Zenon
  <2> QED
    BY <1>1, <2>1, BeginCreate, WriteBegins, CopiesQuiet
<1>2. CASE Update \/ Retry
  <2>1. /\ Newest \in Copy /\ UNCHANGED <<file, markers, card, kept>>
        /\ \E op \in {"update", "retry"} : \E to \in 0 .. 18 : Revise(op, Newest, to)
    BY <1>2, BeginUpdate, BeginRetry, Zenon
  <2>2. /\ job'.at = "flash" /\ job'.new \in Copy /\ job'.prefer = {}
        /\ job'.new = Newest \/ job'.new.revision > Newest.revision
    BY <2>1, Revised
  <2>3. Revision(Newest) <= Revision(job'.new)
    <3>1. /\ Revision(Newest) = Newest.revision /\ Revision(job'.new) = job'.new.revision
          /\ Revision(Newest) \in Nat /\ Revision(job'.new) \in Nat
      BY <2>1, <2>2, RevisionFacts, MessageRecordAssumption DEF Copy
    <3> QED
      BY <2>2, <3>1
  <2> QED
    BY <2>1, <2>2, <2>3, WriteBegins, CopiesQuiet
<1>3. CASE CommitFlash
  <2>1. CopiesInv'
    <3>1. Writing /\ "flash" \in Media
      BY <1>3, FlashOutcomes DEF Writing, Media
    <3> QED
      BY <1>3, <3>1, FlashOutcomes, KeepsWritten
  <2>2. WriteInv'
    <3>1. CASE job'.at = "done"
      BY <3>1 DEF WriteInv, Writing
    <3>2. CASE job'.at = "card"
      <4>1. /\ Writing /\ "flash" \in Media /\ card' = card
            /\ job'.new = job.new /\ job'.prefer = job.prefer
        BY <1>3, <3>2, FlashOutcomes DEF Writing, Media
      <4>2. \A n \in Media : Readable(n)' => Readable(n)
        BY <4>1 DEF Readable
      <4>3. UNCHANGED file \/ \E g : Written("flash", g) /\ file' = [file EXCEPT !["flash"] = g]
        BY <1>3, FlashOutcomes, Zenon
      <4> QED
        BY <4>1, <4>2, <4>3, WriteOne, WriteStays
    <3> QED
      BY <1>3, <3>1, <3>2, FlashOutcomes
  <2> QED
    BY <2>1, <2>2
<1>4. CASE CommitCard \/ VerifyMirror
  <2>1. job'.at \in {"done", "backup"}
    <3>1. Goto("backup") \/ Answer
      BY <1>4, Zenon DEF CommitCard, VerifyMirror
    <3> QED
      BY <3>1, EitherWay
  <2>2. CopiesInv'
    <3>1. "card" \in Media
      BY DEF Media
    <3> QED
      BY <1>4, <2>1, <3>1, CardOutcomes, KeepsWritten
  <2> QED
    BY <2>1, <2>2 DEF WriteInv, Writing
<1>5. CASE EraseRecord \/ Erase
  BY <1>5, BeginErase, CopiesQuiet DEF WriteInv, Writing
<1>6. CASE WriteTombstone \/ WriteCutoff
  <2>1. UNCHANGED file /\ job'.at \in {"done", "clean flash"}
    <3>1. UNCHANGED file /\ (Goto("clean flash") \/ Answer)
      BY <1>6, Zenon DEF WriteTombstone, WriteCutoff
    <3> QED
      BY <3>1, EitherWay
  <2>2. CASE UNCHANGED kept /\ job'.at = "done"
    BY <2>1, <2>2, CopiesQuiet DEF WriteInv, Writing
  <2>3. CASE Confirmed /\ job'.at = "clean flash"
    <3>1. kept' = [m \in Media |-> 0]
      BY <2>3 DEF Confirmed
    <3>2. \A m \in Media : kept'[m] = 0 /\ 0 <= Revision(Top(file[m]))
      <4>1. \A m \in Media : Revision(Top(file[m])) \in Nat
        BY TopTyped, RevisionFacts DEF CopiesInv
      <4> QED
        BY <3>1, <4>1, NatFacts, Zenon
    <3>3. kept' \in [Media -> Nat]
      BY <3>1
    <3>4. CopiesInv'
      BY <2>1, <2>3, <3>2, <3>3 DEF CopiesInv
    <3> QED
      BY <2>3, <3>4 DEF WriteInv, Writing
  <2>4. \/ UNCHANGED kept /\ Answer
        \/ Confirmed /\ Goto("clean flash")
    BY <1>6, Zenon DEF WriteTombstone, WriteCutoff
  <2>5. CASE UNCHANGED kept /\ Answer
    BY <2>2, <2>5, AnswerRests
  <2>6. CASE Confirmed /\ Goto("clean flash")
    <3>1. job'.at = "clean flash"
      BY <2>6, GotoMoves DEF Goto
    <3> QED
      BY <2>3, <2>6, <3>1
  <2> QED
    BY <2>4, <2>5, <2>6
<1>7. CASE CleanFlash \/ CleanCard
  <2>1. /\ job.at \in {"clean flash", "clean card"} /\ UNCHANGED kept
        /\ Goto("clean card") \/ Answer
    BY <1>7, Zenon DEF CleanFlash, CleanCard
  <2>2. job'.at \in {"clean card", "done"}
    BY <2>1, EitherWay
  <2>3. "flash" \in Media /\ "card" \in Media
    BY DEF Media
  <2>4. \E m \in Media : \E g \in Leftovers(file[m]) :
          file' = [file EXCEPT ![m] = g] \/ UNCHANGED file
    <3>1. \A m \in Media : file[m] \in Leftovers(file[m])
      <4>1. ASSUME NEW f \in Files PROVE f \in Leftovers(f)
        <5>1. f = [primary |-> f.primary, backup |-> f.backup]
          BY TopTyped
        <5> DEFINE p == f.primary
                   b == f.backup
        <5>2. [primary |-> p, backup |-> b] \in [primary : {p, Absent}, backup : {b, Absent}]
          OBVIOUS
        <5> QED
          BY <5>1, <5>2 DEF Leftovers
      <4> QED
        BY <4>1 DEF CopiesInv
    <3> QED
      BY <1>7, <2>3, <3>1, Zenon DEF CleanFlash, CleanCard
  <2> QED
    BY <2>1, <2>2, <2>4, CleanOutcomes DEF WriteInv, Writing
<1>8. CASE Evict
  <2>1. CASE card = "absent"
    <3>1. job'.at = "backup"
      BY <1>8, <2>1, BeginEvict
    <3> QED
      BY <1>8, <3>1, BeginEvict, CopiesQuiet DEF WriteInv, Writing
  <2>2. CASE card # "absent"
    <3>1. job'.at = "verify"
      BY <1>8, <2>2, BeginEvict
    <3>2. Revision(Newest) <= Revision(job'.new)
      BY <1>8, BeginEvict, RevisionFacts, NatFacts, Zenon
    <3> QED
      BY <1>8, <3>1, <3>2, BeginEvict, WriteBegins, CopiesQuiet
  <2> QED
    BY <2>1, <2>2
<1>9. CASE RemoveFirst \/ RemoveSecond
  BY <1>9, RemoveKeeps
<1>10. CASE Crash
  <2>1. UNCHANGED kept /\ job'.at = "done"
    BY <1>10, CrashOutcomes
  <2>2. CASE UNCHANGED file
    BY <2>1, <2>2, CopiesQuiet DEF WriteInv, Writing
  <2>3. CASE \E m \in Media : \E g : Written(m, g) /\ file' = [file EXCEPT ![m] = g]
    <3>1. PICK m \in Media : \E g : Written(m, g) /\ file' = [file EXCEPT ![m] = g]
      BY <2>3
    <3>2. PICK g : Written(m, g) /\ file' = [file EXCEPT ![m] = g]
      BY <3>1
    <3>3. Writing
      BY <3>2 DEF Written
    <3>4. CopiesInv'
      BY <2>1, <3>2, <3>3, KeepsWritten
    <3> QED
      BY <2>1, <3>4 DEF WriteInv, Writing
  <2> QED
    BY <1>10, <2>2, <2>3, CrashOutcomes
<1>11. CASE PullCard
  <2>1. UNCHANGED <<file, kept, job>> /\ card' = "gone"
    BY <1>11 DEF PullCard
  <2>2. CopiesInv'
    BY <2>1 DEF CopiesInv
  <2>3. \A n \in Media : Readable(n)' => Readable(n)
    BY <2>1 DEF Readable
  <2>4. WriteInv'
    BY <2>1, <2>3 DEF WriteInv, Writing
  <2> QED
    BY <2>2, <2>4
<1>12. CASE ChangeCard
  <2>1. UNCHANGED <<file, kept, job>> /\ job.at = "done"
    BY <1>12 DEF ChangeCard, Idle
  <2> QED
    BY <2>1 DEF CopiesInv, WriteInv, Writing
<1> QED
  BY <1>1, <1>2, <1>3, <1>4, <1>5, <1>6, <1>7, <1>8, <1>9, <1>10, <1>11, <1>12 DEF Next

LEMMA InitCopies == Init => CopiesInv /\ WriteInv
<1> SUFFICES ASSUME Init PROVE CopiesInv /\ WriteInv
  OBVIOUS
<1>1. /\ file = [m \in Media |-> NoFile] /\ kept = [m \in Media |-> 0] /\ job.at = "done"
  BY DEF Init, Idle
<1>2. \A m \in Media : Ordered(file[m]) /\ kept[m] <= Revision(Top(file[m]))
  BY <1>1, NoFileFits DEF Revision
<1> QED
  BY <1>1, <1>2, NoFileFits DEF CopiesInv, WriteInv, Writing

CopiesCorrectInv == DeletionInv /\ CopiesInv /\ WriteInv

LEMMA CopiesInductive ==
  ASSUME CopiesCorrectInv, [Next]_vars
  PROVE  CopiesCorrectInv'
<1>1. DeletionInv'
  BY DeletionStep DEF CopiesCorrectInv
<1>2. CASE Next
  BY <1>1, <1>2, CopiesStep DEF CopiesCorrectInv, DeletionInv, JobInv
<1>3. CASE UNCHANGED vars
  <2>1. UNCHANGED <<file, card, job, kept>>
    BY <1>3 DEF vars
  <2>2. CopiesInv'
    BY <2>1 DEF CopiesInv, CopiesCorrectInv
  <2>3. WriteInv'
    BY <2>1 DEF WriteInv, Writing, Readable, CopiesCorrectInv
  <2> QED
    BY <1>1, <2>2, <2>3 DEF CopiesCorrectInv
<1> QED
  BY <1>2, <1>3

THEOREM CopiesCorrect == Spec => []CopiesCorrectInv
<1>1. Init => CopiesCorrectInv
  BY InitDeletion, InitCopies DEF CopiesCorrectInv
<1>2. CopiesCorrectInv /\ [Next]_vars => CopiesCorrectInv'
  BY CopiesInductive
<1> QED
  BY <1>1, <1>2, PTL DEF Spec

(* Whatever is cut off or fails, what a reader is shown is no older than a *)
(* revision that a medium in reach has confirmed                           *)
(* (MessageTransactions.cpp:420).                                          *)
THEOREM ConfirmedStays == Spec => []ConfirmedKept
<1>1. ASSUME CopiesInv PROVE ConfirmedKept
  <2>1. ASSUME NEW m \in Media, Readable(m) PROVE kept[m] <= Revision(Newest)
    <3>1. kept[m] <= Revision(Top(file[m])) /\ Revision(Top(file[m])) <= Revision(Newest)
      BY <1>1, <2>1, NewestIs DEF CopiesInv
    <3>2. kept[m] \in Nat /\ Revision(Top(file[m])) \in Nat /\ Revision(Newest) \in Nat
      BY <1>1, NewestIs, TopTyped, RevisionFacts DEF CopiesInv
    <3> QED
      BY <3>1, <3>2
  <2> QED
    BY <1>1, <2>1, LoadedNewest DEF ConfirmedKept
<1> QED
  BY CopiesCorrect, <1>1, PTL DEF CopiesCorrectInv
-----------------------------------------------------------------------------
(* What a reader is shown moves forward.  Two copies of one revision that  *)
(* differ would let the order of the copies decide: the flash never holds  *)
(* such a pair, and the card's pair is overruled by the flash.             *)
Twins(f) ==
  /\ f.primary # Absent /\ f.backup # Absent
  /\ f.primary # f.backup /\ Revision(f.primary) = Revision(f.backup)

TwinsInv ==
  /\ ~Twins(file["flash"])
  /\ Twins(file["card"]) =>
       LET t == Top(file["flash"])
           q == file["card"].primary
       IN  /\ t = Absent \/ Revision(t) > Revision(q) \/ t = q
           /\ job.at = "flash" => job.new = q \/ Revision(job.new) > Revision(q)

(* How the operation at work stands to what a reader is shown.             *)
PhaseInv ==
  /\ job.at \in {"flash", "card"} => Newest = Absent \/ Forward(Newest, job.new)
  /\ job.at = "verify" => card # "absent" /\ (card = "mounted" => Newest = job.new)
  /\ job.at \in {"backup", "primary"} /\ card = "mounted" =>
       Top(file["card"]) = job.new /\ Newest = job.new
  /\ job.at = "primary" => file["flash"].backup = Absent

ForwardInv ==
  /\ job.at \in {"clean flash", "clean card"} => Deleted
  /\ ~Deleted => TwinsInv /\ PhaseInv

Moves ==
  card' = card => Newest' = Absent \/ Newest = Absent \/ Forward(Newest, Newest')

NewestIsTop ==
  Newest = IF card = "mounted" /\ Revision(Top(file["card"])) > Revision(Top(file["flash"]))
             THEN Top(file["card"]) ELSE Top(file["flash"])

LEMMA NewestValue == CopiesInv => NewestIsTop
<1> SUFFICES ASSUME CopiesInv PROVE NewestIsTop
  OBVIOUS
<1>1. Top(Seen("flash")) = Top(file["flash"])
  BY DEF Seen, Readable
<1>2. Top(Seen("card")) = IF card = "mounted" THEN Top(file["card"]) ELSE Absent
  BY NoFileFits DEF Seen, Readable
<1>3. Revision(Absent) = 0 /\ Revision(Top(file["flash"])) \in Nat
  BY TopTyped, RevisionFacts DEF CopiesInv, Media, Revision
<1> QED
  BY <1>1, <1>2, <1>3 DEF Newest, NewestIsTop

LEMMA NextNewestValue == CopiesInv' => NewestIsTop'
BY NewestValue, PTL

LEMMA NewestStays ==
  ASSUME UNCHANGED <<file, card>>
  PROVE  Newest' = Newest
BY DEF Newest, Seen, Readable

LEMMA Typed ==
  ASSUME CopiesInv
  PROVE  /\ \A m \in Media : /\ file[m] \in Files /\ Ordered(file[m])
                              /\ Top(file[m]) \in Copy \cup {Absent}
                              /\ Revision(Top(file[m])) \in Nat
         /\ "flash" \in Media /\ "card" \in Media
         /\ Newest \in Copy \cup {Absent} /\ Revision(Newest) \in Nat
<1>1. \A m \in Media : file[m] \in Files /\ Ordered(file[m])
  BY DEF CopiesInv
<1> QED
  BY <1>1, TopTyped, RevisionFacts, NewestIs DEF Media

(* What is written is what is shown, or newer.                             *)
Ahead == Newest = job.new \/ Revision(Newest) < Revision(job.new)

LEMMA AheadIs ==
  ASSUME CopiesInv, WriteInv, PhaseInv, Writing, job.at = "verify" => card = "mounted"
  PROVE  Ahead
<1>1. job.new \in Copy /\ Newest \in Copy \cup {Absent}
  BY Typed DEF WriteInv
<1>2. Revision(job.new) = job.new.revision /\ Revision(job.new) \in Nat /\ Revision(job.new) # 0
  BY <1>1, RevisionFacts, MessageRecordAssumption DEF Copy
<1>3. CASE job.at = "verify"
  BY <1>3 DEF PhaseInv, Ahead
<1>4. CASE Newest = Absent
  BY <1>2, <1>4 DEF Ahead, Revision
<1>5. CASE job.at # "verify" /\ Newest # Absent
  <2>1. Forward(Newest, job.new)
    BY <1>5 DEF PhaseInv, Writing
  <2>2. Revision(Newest) = Newest.revision
    BY <1>1, <1>5, RevisionFacts
  <2> QED
    BY <1>2, <2>1, <2>2 DEF Forward, Ahead
<1> QED
  BY <1>3, <1>4, <1>5

(* A write on the flash.                                                   *)
LEMMA FlashWritten ==
  ASSUME CopiesInv, CopiesInv', WriteInv, Ahead, ~Twins(file["flash"]),
         NEW g, Written("flash", g), file' = [file EXCEPT !["flash"] = g]
  PROVE  /\ ~Twins(file'["flash"]) /\ file'["card"] = file["card"]
         /\ \/ /\ Top(file'["flash"]) = job.new
               /\ card' = card => Newest' = job.new
            \/ /\ Top(file'["flash"]) = Top(file["flash"])
               /\ card' = card => Newest' = Newest
<1> DEFINE t == Top(file["flash"])
           c == Top(file["card"])
           n == job.new
<1>1. file'["flash"] = g /\ file'["card"] = file["card"]
  BY DEF CopiesInv, Media
<1>2. /\ Revision(t) \in Nat /\ Revision(c) \in Nat /\ n \in Copy
      /\ Revision(n) \in Nat /\ n # Absent /\ Revision(t) <= Revision(n)
      /\ card = "mounted" => Revision(c) <= Revision(n)
  <2>1. n \in Copy /\ Revision(t) <= Revision(n) /\ (card = "mounted" => Revision(c) <= Revision(n))
    BY DEF WriteInv, Written, Readable, Media
  <2> QED
    BY <2>1, Typed, RevisionFacts, MessageRecordAssumption DEF Copy
<1>3. Newest = IF card = "mounted" /\ Revision(c) > Revision(t) THEN c ELSE t
  BY NewestValue DEF NewestIsTop
<1>4. Newest' = IF card' = "mounted" /\ Revision(c) > Revision(Top(g)) THEN c ELSE Top(g)
  BY <1>1, NextNewestValue DEF NewestIsTop
<1>5. Revision(t) = Revision(n) => t = n
  BY <1>2, <1>3 DEF Ahead
<1>6. CASE g \in Replaced(file["flash"], job.new)
  <2>1. Top(g) = n /\ g.primary = n /\ g.backup \in {Absent, t}
    BY <1>2, <1>6, Typed, ReplacedPuts
  <2>2. ~Twins(g)
    BY <1>5, <2>1 DEF Twins
  <2>3. card' = card => Newest' = n
    BY <1>2, <1>4, <2>1
  <2> QED
    BY <1>1, <2>1, <2>2, <2>3
<1>7. CASE g \in Unreplaced(file["flash"])
  <2>1. Top(g) = t /\ (g = file["flash"] \/ g.primary = Absent \/ g.backup = Absent)
    BY <1>7, Typed, UnreplacedKeeps
  <2>2. ~Twins(g)
    BY <2>1 DEF Twins
  <2>3. card' = card => Newest' = Newest
    BY <1>3, <1>4, <2>1
  <2> QED
    BY <1>1, <2>1, <2>2, <2>3
<1> QED
  BY <1>6, <1>7 DEF Written

(* A write on the card.  It may leave two copies of one revision there,    *)
(* but only of the one the flash holds.                                    *)
LEMMA CardWritten ==
  ASSUME CopiesInv, CopiesInv', WriteInv, Ahead,
         NEW g, Written("card", g), file' = [file EXCEPT !["card"] = g]
  PROVE  /\ file'["flash"] = file["flash"] /\ file'["card"] = g
         /\ Twins(g) => g = file["card"] \/ Top(file["flash"]) = g.primary
         /\ card' = card => Newest' \in {Newest, job.new}
         /\ g \in Replaced(file["card"], job.new) => Top(g) = job.new
<1> DEFINE t == Top(file["flash"])
           c == Top(file["card"])
           n == job.new
<1>1. file'["card"] = g /\ file'["flash"] = file["flash"] /\ card = "mounted"
  BY DEF CopiesInv, Media, Written, Readable
<1>2. /\ Revision(t) \in Nat /\ Revision(c) \in Nat /\ n \in Copy
      /\ Revision(n) \in Nat /\ n # Absent /\ Revision(t) <= Revision(n)
      /\ Revision(c) <= Revision(n)
  <2>1. n \in Copy /\ Revision(t) <= Revision(n) /\ Revision(c) <= Revision(n)
    BY DEF WriteInv, Written, Readable, Media
  <2> QED
    BY <2>1, Typed, RevisionFacts, MessageRecordAssumption DEF Copy
<1>3. Newest = IF Revision(c) > Revision(t) THEN c ELSE t
  BY <1>1, NewestValue DEF NewestIsTop
<1>4. Newest' = IF card' = "mounted" /\ Revision(Top(g)) > Revision(t) THEN Top(g) ELSE t
  BY <1>1, NextNewestValue DEF NewestIsTop
<1>5. /\ Revision(t) = Revision(n) => t = n /\ Newest = n
      /\ Revision(c) = Revision(n) => c = n \/ t = n
  BY <1>2, <1>3 DEF Ahead
<1>6. CASE g \in Replaced(file["card"], job.new)
  <2>1. Top(g) = n /\ g.primary = n /\ g.backup \in {Absent, c}
    BY <1>2, <1>6, Typed, ReplacedPuts
  <2>2. Twins(g) => t = n
    BY <1>5, <2>1 DEF Twins
  <2>3. card' = card => Newest' = n
    BY <1>1, <1>2, <1>4, <1>5, <2>1
  <2> QED
    BY <1>1, <2>1, <2>2, <2>3
<1>7. CASE g \in Unreplaced(file["card"]) /\ g \notin Replaced(file["card"], job.new)
  <2>1. Top(g) = c /\ (g = file["card"] \/ g.primary = Absent \/ g.backup = Absent)
    BY <1>7, Typed, UnreplacedKeeps
  <2>2. Twins(g) => g = file["card"]
    BY <2>1 DEF Twins
  <2>3. card' = card => Newest' = Newest
    BY <1>1, <1>3, <1>4, <2>1
  <2> QED
    BY <1>1, <1>7, <2>2, <2>3
<1> QED
  BY <1>6, <1>7 DEF Written

LEMMA TwinsQuiet ==
  ASSUME TwinsInv, UNCHANGED file, job'.at # "flash"
  PROVE  TwinsInv'
BY DEF TwinsInv

LEMMA PhaseQuiet ==
  ASSUME job'.at \notin {"flash", "card", "verify", "backup", "primary"}
  PROVE  PhaseInv'
BY DEF PhaseInv

LEMMA MovesQuiet ==
  ASSUME Newest' \in {Newest, Absent}
  PROVE  Moves
BY DEF Moves, Forward

(* An operation that begins leaves what is shown as it is.                 *)
LEMMA ForwardCreate ==
  ASSUME CopiesInv, TwinsInv, NEW s \in Statuses, Create(s)
  PROVE  TwinsInv' /\ PhaseInv' /\ Moves
<1>1. /\ UNCHANGED file /\ UNCHANGED card /\ job'.at = "flash" /\ Newest = Absent
      /\ file["card"] = NoFile /\ file["flash"] = NoFile
  BY BeginCreate DEF Media
<1>2. Newest' = Absent
  BY <1>1, NewestStays
<1>3. ~Twins(NoFile)
  BY DEF Twins, NoFile
<1>4. TwinsInv'
  BY <1>1, <1>3 DEF TwinsInv
<1>5. PhaseInv'
  BY <1>1, <1>2 DEF PhaseInv
<1> QED
  BY <1>1, <1>2, <1>4, <1>5, MovesQuiet

LEMMA ForwardRevise ==
  ASSUME CopiesInv, TwinsInv, Update \/ Retry
  PROVE  TwinsInv' /\ PhaseInv' /\ Moves
<1>1. /\ Newest \in Copy /\ UNCHANGED <<file, markers, card, kept>>
      /\ \E op \in {"update", "retry"} : \E to \in 0 .. 18 :
           Allowed(Newest.status, to) /\ Revise(op, Newest, to)
  BY BeginUpdate, BeginRetry, Zenon
<1>2. PICK op \in {"update", "retry"}, to \in 0 .. 18 :
        Allowed(Newest.status, to) /\ Revise(op, Newest, to)
  BY <1>1
<1> DEFINE n == job'.new
<1>3. /\ job'.at = "flash" /\ n \in Copy
      /\ n = Newest \/ (n.revision > Newest.revision /\ n.status = to)
  BY <1>1, <1>2, Revised
<1>4. Newest' = Newest /\ UNCHANGED file /\ UNCHANGED card
  BY <1>1, NewestStays
<1>5. PhaseInv'
  <2>1. Newest' = Absent \/ Forward(Newest, n)
    BY <1>2, <1>3 DEF Forward
  <2> QED
    BY <1>3, <1>4, <2>1 DEF PhaseInv, Forward
<1>6. TwinsInv'
  <2> DEFINE t == Top(file["flash"])
             c == Top(file["card"])
             q == file["card"].primary
  <2>1. Newest = IF card = "mounted" /\ Revision(c) > Revision(t) THEN c ELSE t
    BY NewestValue DEF NewestIsTop
  <2>2. /\ Revision(t) \in Nat /\ Revision(c) \in Nat /\ Revision(n) \in Nat
        /\ Revision(n) = n.revision /\ Revision(Newest) = Newest.revision /\ Newest # Absent
    BY <1>1, <1>3, Typed, RevisionFacts, MessageRecordAssumption DEF Copy
  <2>3. n = Newest \/ Revision(n) > Revision(Newest)
    BY <1>3, <2>2
  <2>4. Twins(file["card"]) => c = q
    BY DEF Twins, Top
  <2>5. ASSUME Twins(file["card"]) PROVE n = q \/ Revision(n) > Revision(q)
    <3>1. t = Absent \/ Revision(t) > Revision(q) \/ t = q
      BY <2>5 DEF TwinsInv
    <3> QED
      BY <2>1, <2>2, <2>3, <2>4, <2>5, <3>1 DEF Revision
  <2> QED
    BY <1>4, <2>5 DEF TwinsInv
<1> QED
  BY <1>4, <1>5, <1>6, MovesQuiet

LEMMA ForwardEvict ==
  ASSUME CopiesInv, TwinsInv, Evict
  PROVE  TwinsInv' /\ PhaseInv' /\ Moves
<1>1. /\ job'.new = Newest /\ UNCHANGED file /\ UNCHANGED card
      /\ job'.at = IF card = "absent" THEN "backup" ELSE "verify"
  BY BeginEvict
<1>2. Newest' = Newest
  BY <1>1, NewestStays
<1>3. TwinsInv'
  BY <1>1, TwinsQuiet
<1>4. PhaseInv'
  BY <1>1, <1>2 DEF PhaseInv
<1> QED
  BY <1>2, <1>3, <1>4, MovesQuiet

(* commit() on the flash: what is shown is what was, or what is written.   *)
LEMMA ForwardFlash ==
  ASSUME CopiesInv, CopiesInv', WriteInv, JobShape, TwinsInv, PhaseInv, CommitFlash
  PROVE  TwinsInv' /\ PhaseInv' /\ Moves
<1>1. /\ job.at = "flash" /\ card' = card /\ job'.at \in {"card", "done"} /\ Writing
      /\ job'.at = "card" => job'.new = job.new
      /\ UNCHANGED file \/ \E g : Written("flash", g) /\ file' = [file EXCEPT !["flash"] = g]
  BY FlashOutcomes, Zenon DEF Writing
<1>2. Ahead /\ (Newest = Absent \/ Forward(Newest, job.new))
  BY <1>1, AheadIs DEF PhaseInv
<1>3. CASE UNCHANGED file
  <2>1. Newest' = Newest
    BY <1>1, <1>3, NewestStays
  <2>2. TwinsInv'
    BY <1>1, <1>3, TwinsQuiet
  <2>3. PhaseInv'
    BY <1>1, <1>2, <2>1 DEF PhaseInv, Forward
  <2> QED
    BY <2>1, <2>2, <2>3, MovesQuiet
<1>4. ASSUME NEW g, Written("flash", g), file' = [file EXCEPT !["flash"] = g]
      PROVE  TwinsInv' /\ PhaseInv' /\ Moves
  <2>1. /\ ~Twins(file'["flash"]) /\ file'["card"] = file["card"]
        /\ \/ Top(file'["flash"]) = job.new /\ Newest' = job.new
           \/ Top(file'["flash"]) = Top(file["flash"]) /\ Newest' = Newest
    BY <1>1, <1>2, <1>4, FlashWritten DEF TwinsInv
  <2>2. TwinsInv'
    BY <1>1, <2>1 DEF TwinsInv
  <2>3. PhaseInv'
    BY <1>1, <1>2, <2>1 DEF PhaseInv, Forward
  <2>4. Moves
    BY <1>2, <2>1 DEF Moves, Forward
  <2> QED
    BY <2>2, <2>3, <2>4
<1> QED
  BY <1>1, <1>3, <1>4

(* The card is only ever brought up to what is shown.                      *)
LEMMA TwinsCard ==
  ASSUME CopiesInv, CopiesInv', WriteInv, TwinsInv, Ahead, job'.at # "flash",
         NEW g, Written("card", g), file' = [file EXCEPT !["card"] = g]
  PROVE  TwinsInv'
<1>1. /\ file'["flash"] = file["flash"] /\ file'["card"] = g
      /\ Twins(g) => g = file["card"] \/ Top(file["flash"]) = g.primary
  BY CardWritten
<1> QED
  BY <1>1 DEF TwinsInv

LEMMA ForwardCard ==
  ASSUME CopiesInv, CopiesInv', WriteInv, TwinsInv, PhaseInv, CommitCard
  PROVE  TwinsInv' /\ PhaseInv' /\ Moves
<1>1. /\ job.at = "card" /\ job'.at = "done" /\ card' = card /\ Writing
      /\ UNCHANGED file \/ \E g : Written("card", g) /\ file' = [file EXCEPT !["card"] = g]
  <2>1. job.at = "card" /\ job'.at = "done"
    BY DEF CommitCard, Answer, Idle
  <2> QED
    BY <2>1, CardOutcomes, Zenon
<1>2. Ahead /\ (Newest = Absent \/ Forward(Newest, job.new))
  BY <1>1, AheadIs DEF PhaseInv
<1>3. PhaseInv'
  BY <1>1, PhaseQuiet
<1>4. CASE UNCHANGED file
  <2>1. Newest' = Newest
    BY <1>1, <1>4, NewestStays
  <2> QED
    BY <1>1, <1>3, <1>4, <2>1, TwinsQuiet, MovesQuiet
<1>5. ASSUME NEW g, Written("card", g), file' = [file EXCEPT !["card"] = g]
      PROVE  TwinsInv' /\ Moves
  <2>1. Newest' \in {Newest, job.new}
    BY <1>1, <1>2, <1>5, CardWritten
  <2>2. Moves
    BY <1>2, <2>1 DEF Moves, Forward
  <2>3. TwinsInv'
    BY <1>1, <1>2, <1>5, TwinsCard
  <2> QED
    BY <2>2, <2>3
<1> QED
  BY <1>1, <1>3, <1>4, <1>5

(* mirrorVerified() finds the revision that is shown, not its twin.        *)
LEMMA RetainedTop ==
  ASSUME CopiesInv, WriteInv, TwinsInv, Writing, Newest = job.new, Retained("card")
  PROVE  Top(file["card"]) = job.new
<1> DEFINE f == file["card"]
           t == Top(file["flash"])
           n == job.new
<1>1. n \in {f.primary, f.backup} /\ card = "mounted"
  BY DEF Retained, Readable
<1>2. n \in Copy /\ n # Absent
  BY MessageRecordAssumption DEF WriteInv, Copy
<1>3. Revision(Top(f)) = Revision(n) /\ Revision(t) \in Nat /\ Revision(n) \in Nat
  BY <1>2, RetainedIs, Typed, RevisionFacts
<1>4. Newest = IF Revision(Top(f)) > Revision(t) THEN Top(f) ELSE t
  BY <1>1, NewestValue DEF NewestIsTop
<1>5. CASE f.primary = Absent \/ n = f.primary
  BY <1>1, <1>2, <1>5 DEF Top
<1>6. CASE f.primary # Absent /\ n # f.primary
  <2>1. n = f.backup /\ Top(f) = f.primary
    BY <1>1, <1>6 DEF Top
  <2>2. Twins(f)
    BY <1>2, <1>3, <1>6, <2>1 DEF Twins
  <2>3. t = Absent \/ Revision(t) > Revision(f.primary) \/ t = f.primary
    BY <2>2 DEF TwinsInv
  <2>4. t = n
    BY <1>4, <1>6, <2>1
  <2> QED
    BY <1>2, <1>3, <1>6, <2>1, <2>3, <2>4
<1> QED
  BY <1>5, <1>6

LEMMA ForwardVerify ==
  ASSUME CopiesInv, CopiesInv', WriteInv, JobShape, TwinsInv, PhaseInv, VerifyMirror
  PROVE  TwinsInv' /\ PhaseInv' /\ Moves
<1>1. job.at = "verify" /\ card' = card /\ Writing /\ card # "absent"
  BY Zenon DEF VerifyMirror, Writing, PhaseInv
<1>2. \/ /\ Retained("card") /\ UNCHANGED file /\ Goto("backup")
      \/ /\ UNCHANGED file /\ Answer
      \/ /\ Answer
         /\ \E g : Written("card", g) /\ file' = [file EXCEPT !["card"] = g]
      \/ /\ Goto("backup")
         /\ \E g : /\ Written("card", g) /\ file' = [file EXCEPT !["card"] = g]
                   /\ g \in Replaced(file["card"], job.new)
  <2>1. "card" \in Media
    BY DEF Media
  <2> QED
    BY <1>1, <2>1, Zenon DEF VerifyMirror, Written
<1>3. Goto("backup") => job'.at = "backup" /\ job'.new = job.new
  BY GotoMoves DEF Goto
<1>4. Answer => job'.at = "done"
  BY AnswerRests
<1>5. CASE Retained("card") /\ UNCHANGED file /\ Goto("backup")
  <2>1. card = "mounted" /\ Newest = job.new
    BY <1>1, <1>5 DEF Retained, Readable, PhaseInv
  <2>2. Top(file["card"]) = job.new
    BY <1>1, <1>5, <2>1, RetainedTop
  <2>3. Newest' = Newest
    BY <1>1, <1>5, NewestStays
  <2>4. PhaseInv'
    BY <1>3, <1>5, <2>1, <2>2, <2>3 DEF PhaseInv
  <2> QED
    BY <1>3, <1>5, <2>3, <2>4, TwinsQuiet, MovesQuiet
<1>6. CASE UNCHANGED file /\ Answer
  <2>1. Newest' = Newest
    BY <1>1, <1>6, NewestStays
  <2> QED
    BY <1>4, <1>6, <2>1, TwinsQuiet, PhaseQuiet, MovesQuiet
<1>7. ASSUME NEW g, Written("card", g), file' = [file EXCEPT !["card"] = g],
             \/ Answer
             \/ Goto("backup") /\ g \in Replaced(file["card"], job.new)
      PROVE  TwinsInv' /\ PhaseInv' /\ Moves
  <2>1. Newest = job.new /\ Ahead
    BY <1>1, <1>7 DEF Written, Readable, PhaseInv, Ahead
  <2>2. Newest' = job.new /\ (g \in Replaced(file["card"], job.new) => Top(file'["card"]) = job.new)
    BY <1>1, <1>7, <2>1, CardWritten
  <2>3. job'.at \in {"backup", "done"}
    BY <1>3, <1>4, <1>7
  <2>4. TwinsInv'
    BY <1>7, <2>1, <2>3, TwinsCard
  <2>5. PhaseInv'
    BY <1>3, <1>4, <1>7, <2>2 DEF PhaseInv
  <2> QED
    BY <2>1, <2>2, <2>4, <2>5, MovesQuiet
<1> QED
  BY <1>2, <1>5, <1>6, <1>7

(* evictInternal() takes from the flash what the card holds as well.       *)
LEMMA FlashTaken ==
  ASSUME CopiesInv, CopiesInv', TwinsInv, PhaseInv, job'.at # "flash",
         job.at \in {"backup", "primary"}, card' = card,
         NEW g, file' = [file EXCEPT !["flash"] = g],
         Top(g) = Top(file["flash"]) \/ Top(g) = Absent,
         g.primary = Absent \/ g.backup = Absent
  PROVE  /\ TwinsInv' /\ Newest' \in {Newest, Absent}
         /\ card = "mounted" => Newest' = Newest
         /\ file'["card"] = file["card"] /\ file'["flash"] = g
<1> DEFINE t == Top(file["flash"])
           c == Top(file["card"])
<1>1. file'["flash"] = g /\ file'["card"] = file["card"]
  BY DEF CopiesInv, Media
<1>2. TwinsInv'
  BY <1>1 DEF TwinsInv, Twins
<1>3. Newest = IF card = "mounted" /\ Revision(c) > Revision(t) THEN c ELSE t
  BY NewestValue DEF NewestIsTop
<1>4. Newest' = IF card = "mounted" /\ Revision(c) > Revision(Top(g)) THEN c ELSE Top(g)
  BY <1>1, NextNewestValue DEF NewestIsTop
<1>5. c \in Copy \cup {Absent} /\ Revision(c) \in Nat /\ Revision(Absent) = 0
      /\ (c = Absent <=> Revision(c) = 0)
  BY Typed, RevisionFacts DEF Revision
<1>6. card = "mounted" => c = Newest
  BY DEF PhaseInv
<1> QED
  BY <1>1, <1>2, <1>3, <1>4, <1>5, <1>6

LEMMA ForwardRemove ==
  ASSUME CopiesInv, CopiesInv', JobShape, TwinsInv, PhaseInv, RemoveFirst \/ RemoveSecond
  PROVE  TwinsInv' /\ PhaseInv' /\ Moves
<1> DEFINE f == file["flash"]
<1>1. /\ card' = card /\ job.at \in {"backup", "primary"} /\ job'.at # "flash"
      /\ \/ UNCHANGED file /\ job'.at = "done"
         \/ /\ job'.at = "primary" /\ job'.new = job.new
            /\ file' = [file EXCEPT !["flash"] = [primary |-> f.primary, backup |-> Absent]]
         \/ /\ job'.at = "done" /\ f.backup = Absent
            /\ file' = [file EXCEPT !["flash"] = [primary |-> Absent, backup |-> f.backup]]
  <2>1. CASE RemoveFirst
    <3>1. job.at = "backup" /\ card' = card
      BY <2>1, RemoveFirstDoes
    <3>2. CASE UNCHANGED file /\ job'.at = "done"
      BY <3>1, <3>2
    <3>3. CASE /\ job'.at = "primary" /\ job'.new = job.new
               /\ file' = [file EXCEPT !["flash"] = [primary |-> f.primary, backup |-> Absent]]
      BY <3>1, <3>3
    <3> QED
      BY <2>1, <3>2, <3>3, RemoveFirstDoes
  <2>2. CASE RemoveSecond
    <3>1. job.at = "primary" /\ card' = card /\ job'.at = "done"
      BY <2>2, RemoveSecondDoes
    <3>2. f.backup = Absent
      BY <3>1 DEF PhaseInv
    <3>3. CASE UNCHANGED file
      BY <3>1, <3>3
    <3>4. CASE file' = [file EXCEPT !["flash"] = [primary |-> Absent, backup |-> f.backup]]
      BY <3>1, <3>2, <3>4
    <3> QED
      BY <2>2, <3>3, <3>4, RemoveSecondDoes
  <2> QED
    BY <2>1, <2>2
<1>2. CASE UNCHANGED file /\ job'.at = "done"
  <2>1. Newest' = Newest
    BY <1>1, <1>2, NewestStays
  <2> QED
    BY <1>1, <1>2, <2>1, TwinsQuiet, PhaseQuiet, MovesQuiet
<1>3. CASE /\ job'.at = "primary" /\ job'.new = job.new
           /\ file' = [file EXCEPT !["flash"] = [primary |-> f.primary, backup |-> Absent]]
  <2> DEFINE g == [primary |-> f.primary, backup |-> Absent]
  <2>1. g.backup = Absent /\ (Top(g) = Top(f) \/ Top(g) = Absent)
    BY DEF Top
  <2>2. file' = [file EXCEPT !["flash"] = g]
    BY <1>3
  <2> HIDE DEF g
  <2>3. /\ TwinsInv' /\ Newest' \in {Newest, Absent}
        /\ card = "mounted" => Newest' = Newest
        /\ file'["card"] = file["card"] /\ file'["flash"] = g
    BY <1>1, <2>1, <2>2, FlashTaken
  <2>4. PhaseInv'
    BY <1>1, <1>3, <2>1, <2>3 DEF PhaseInv
  <2> QED
    BY <2>3, <2>4, MovesQuiet
<1>4. CASE /\ job'.at = "done" /\ f.backup = Absent
           /\ file' = [file EXCEPT !["flash"] = [primary |-> Absent, backup |-> f.backup]]
  <2> DEFINE g == [primary |-> Absent, backup |-> f.backup]
  <2>1. g.primary = Absent /\ Top(g) = Absent
    BY <1>4 DEF Top
  <2>2. file' = [file EXCEPT !["flash"] = g]
    BY <1>4
  <2> HIDE DEF g
  <2>3. TwinsInv' /\ Newest' \in {Newest, Absent}
    BY <1>1, <2>1, <2>2, FlashTaken
  <2> QED
    BY <1>4, <2>3, PhaseQuiet, MovesQuiet
<1> QED
  BY <1>1, <1>2, <1>3, <1>4

(* Power fails in a write: the old copy is shown, or the new one.          *)
LEMMA ForwardCrash ==
  ASSUME CopiesInv, CopiesInv', WriteInv, TwinsInv, PhaseInv, Crash
  PROVE  TwinsInv' /\ PhaseInv' /\ Moves
<1>1. job'.at = "done"
  BY CrashOutcomes
<1>2. PhaseInv'
  BY <1>1, PhaseQuiet
<1>3. CASE UNCHANGED file
  <2>1. card' = card => Newest' = Newest
    BY <1>3, NewestStays
  <2>2. Moves
    BY <2>1 DEF Moves, Forward
  <2> QED
    BY <1>1, <1>2, <1>3, <2>2, TwinsQuiet
<1>4. ASSUME NEW m \in Media, NEW g, Written(m, g), file' = [file EXCEPT ![m] = g],
             m = "flash" => job.at = "flash", m = "card" => job.at \in {"card", "verify"}
      PROVE  TwinsInv' /\ Moves
  <2>1. Writing /\ (job.at = "verify" => card = "mounted" /\ Newest = job.new)
    BY <1>4 DEF Written, Readable, Media, PhaseInv
  <2>2. Ahead
    BY <2>1, AheadIs
  <2>3. Newest = Absent \/ Forward(Newest, job.new)
    BY <2>1 DEF PhaseInv, Writing, Forward
  <2>4. CASE m = "flash"
    <3>1. /\ ~Twins(file'["flash"]) /\ file'["card"] = file["card"]
          /\ \/ /\ Top(file'["flash"]) = job.new
                /\ card' = card => Newest' = job.new
             \/ /\ Top(file'["flash"]) = Top(file["flash"])
                /\ card' = card => Newest' = Newest
      BY <1>4, <2>2, <2>4, FlashWritten DEF TwinsInv
    <3>2. TwinsInv'
      BY <1>1, <1>4, <2>4, <3>1 DEF TwinsInv
    <3>3. Moves
      BY <2>3, <3>1 DEF Moves, Forward
    <3> QED
      BY <3>2, <3>3
  <2>5. CASE m = "card"
    <3>1. card' = card => Newest' \in {Newest, job.new}
      BY <1>4, <2>2, <2>5, CardWritten
    <3>2. Moves
      BY <2>3, <3>1 DEF Moves, Forward
    <3>3. TwinsInv'
      BY <1>1, <1>4, <2>2, <2>5, TwinsCard
    <3> QED
      BY <3>2, <3>3
  <2> QED
    BY <2>4, <2>5 DEF Media
<1>5. CASE \E m \in Media : \E g :
             /\ Written(m, g) /\ file' = [file EXCEPT ![m] = g]
             /\ m = "flash" => job.at = "flash"
             /\ m = "card" => job.at \in {"card", "verify"}
  BY <1>2, <1>4, <1>5, Zenon
<1> QED
  BY <1>3, <1>5, CrashOutcomes

(* Without the card the flash alone is shown, which no write falls behind. *)
LEMMA ForwardPull ==
  ASSUME CopiesInv, CopiesInv', WriteInv, TwinsInv, PhaseInv, PullCard
  PROVE  TwinsInv' /\ PhaseInv' /\ Moves
<1> DEFINE t == Top(file["flash"])
           c == Top(file["card"])
<1>1. card = "mounted" /\ card' = "gone" /\ UNCHANGED file /\ UNCHANGED job
  BY DEF PullCard
<1>2. TwinsInv'
  BY <1>1 DEF TwinsInv
<1>3. Newest = IF Revision(c) > Revision(t) THEN c ELSE t
  BY <1>1, NewestValue DEF NewestIsTop
<1>4. Newest' = t
  BY <1>1, NextNewestValue DEF NewestIsTop
<1>5. ASSUME job.at \in {"flash", "card"} PROVE t = Absent \/ (Forward(t, job.new))'
  <2>1. /\ t \in Copy \cup {Absent} /\ c \in Copy \cup {Absent} /\ job.new \in Copy
        /\ Revision(c) <= Revision(job.new)
    BY <1>1, <1>5, Typed DEF WriteInv, Writing, Readable, Media
  <2>2. Revision(t) \in Nat /\ Revision(c) \in Nat /\ Revision(job.new) \in Nat
    BY <2>1, RevisionFacts
  <2>3. CASE t = Absent
    BY <2>3
  <2>4. CASE t # Absent /\ Newest = t
    <3>1. Forward(t, job.new)
      BY <1>5, <2>4 DEF PhaseInv
    <3> QED
      BY <1>1, <3>1 DEF Forward
  <2>5. CASE t # Absent /\ Newest # t
    <3>1. Revision(c) > Revision(t)
      BY <1>3, <2>5
    <3>2. Revision(job.new) > Revision(t)
      BY <2>1, <2>2, <3>1
    <3>3. Revision(t) = t.revision /\ Revision(job.new) = job.new.revision
      BY <2>1, <2>5, RevisionFacts, MessageRecordAssumption DEF Copy
    <3> QED
      BY <1>1, <3>2, <3>3 DEF Forward
  <2> QED
    BY <2>3, <2>4, <2>5
<1>6. PhaseInv'
  BY <1>1, <1>4, <1>5 DEF PhaseInv
<1>7. Moves
  BY <1>1 DEF Moves
<1> QED
  BY <1>2, <1>6, <1>7

LEMMA ForwardIdle ==
  ASSUME TwinsInv, UNCHANGED file, Newest' = Newest \/ card' # card,
         job'.at \in {"done", "marker", "clean flash", "clean card"}
  PROVE  TwinsInv' /\ PhaseInv' /\ Moves
<1>1. TwinsInv' /\ PhaseInv'
  BY TwinsQuiet, PhaseQuiet
<1>2. Moves
  BY DEF Moves, Forward
<1> QED
  BY <1>1, <1>2

-----------------------------------------------------------------------------
(* The cleanup begins once the deletion stands.                            *)
Cleaning == job.at \in {"clean flash", "clean card"}

LEMMA CleaningStep ==
  ASSUME DeletionInv, CopiesInv, WriteInv, Cleaning => Deleted, Next
  PROVE  (Cleaning => Deleted)'
<1>0. JobShape /\ CutoffInv /\ (Deleted => Deleted')
  BY DeletionStep DEF DeletionInv, JobInv
<1> SUFFICES ASSUME Cleaning' PROVE Deleted'
  OBVIOUS
<1>1. ASSUME job'.at \notin {"clean flash", "clean card"} PROVE FALSE
  BY <1>1 DEF Cleaning
<1>2. ASSUME NEW s \in Statuses, Create(s) PROVE Deleted'
  BY <1>1, <1>2, BeginCreate
<1>3. CASE Update \/ Retry
  <2>1. job'.at = "flash"
    BY <1>3 DEF Update, Retry, Revise
  <2> QED
    BY <1>1, <2>1
<1>4. CASE CommitFlash
  BY <1>0, <1>1, <1>4, FlashOutcomes
<1>5. CASE CommitCard \/ RemoveSecond \/ Crash
  <2>1. Answer
    BY <1>5 DEF CommitCard, RemoveSecond, Crash
  <2> QED
    BY <1>1, <2>1, AnswerRests
<1>6. CASE EraseRecord \/ Erase
  BY <1>1, <1>6, BeginErase
<1>7. CASE WriteTombstone
  BY <1>1, <1>7, AnswerRests DEF WriteTombstone, Deleted
<1>8. CASE WriteCutoff
  BY <1>0, <1>1, <1>8, AnswerRests, ReplacedCovers DEF WriteCutoff, Deleted
<1>9. CASE CleanFlash \/ CleanCard
  BY <1>0, <1>9 DEF CleanFlash, CleanCard, Cleaning
<1>10. CASE Evict
  BY <1>1, <1>10, BeginEvict
<1>11. CASE VerifyMirror
  <2>1. Goto("backup") \/ Answer
    BY <1>11 DEF VerifyMirror
  <2>2. job'.at \in {"backup", "done"}
    BY <1>0, <2>1, EitherWay
  <2> QED
    BY <1>1, <2>2
<1>12. CASE RemoveFirst
  BY <1>0, <1>1, <1>12, RemoveFirstDoes
<1>13. CASE PullCard \/ ChangeCard
  <2>1. UNCHANGED job
    BY <1>13 DEF PullCard, ChangeCard
  <2> QED
    BY <1>0, <2>1 DEF Cleaning
<1> QED
  BY <1>2, <1>3, <1>4, <1>5, <1>6, <1>7, <1>8, <1>9, <1>10, <1>11, <1>12, <1>13 DEF Next

LEMMA ForwardStep ==
  ASSUME DeletionInv, CopiesInv, WriteInv, ForwardInv, CopiesInv', Next, ~Deleted'
  PROVE  TwinsInv' /\ PhaseInv' /\ Moves
<1>1. JobShape /\ ~Deleted
  BY DeletionStep DEF DeletionInv, JobInv
<1>2. TwinsInv /\ PhaseInv /\ ~Cleaning
  BY <1>1 DEF ForwardInv, Cleaning
<1>3. ASSUME NEW s \in Statuses, Create(s) PROVE TwinsInv' /\ PhaseInv' /\ Moves
  BY <1>2, <1>3, ForwardCreate
<1>4. CASE Update \/ Retry
  BY <1>2, <1>4, ForwardRevise
<1>5. CASE CommitFlash
  BY <1>1, <1>2, <1>5, ForwardFlash
<1>6. CASE CommitCard
  BY <1>2, <1>6, ForwardCard
<1>7. CASE EraseRecord \/ Erase
  <2>1. job'.at = "marker" /\ UNCHANGED <<file, card>>
    BY <1>7, BeginErase
  <2> QED
    BY <1>2, <2>1, NewestStays, ForwardIdle
<1>8. CASE WriteTombstone \/ WriteCutoff
  <2>1. UNCHANGED <<file, card>> /\ (Goto("clean flash") \/ Answer)
    BY <1>8, Zenon DEF WriteTombstone, WriteCutoff
  <2>2. job'.at \in {"clean flash", "done"}
    BY <1>1, <2>1, EitherWay
  <2> QED
    BY <1>2, <2>1, <2>2, NewestStays, ForwardIdle
<1>9. CASE CleanFlash \/ CleanCard
  BY <1>2, <1>9 DEF CleanFlash, CleanCard, Cleaning
<1>10. CASE Evict
  BY <1>2, <1>10, ForwardEvict
<1>11. CASE VerifyMirror
  BY <1>1, <1>2, <1>11, ForwardVerify
<1>12. CASE RemoveFirst \/ RemoveSecond
  BY <1>1, <1>2, <1>12, ForwardRemove
<1>13. CASE Crash
  BY <1>2, <1>13, ForwardCrash
<1>14. CASE PullCard
  BY <1>2, <1>14, ForwardPull
<1>15. CASE ChangeCard
  <2>1. UNCHANGED file /\ job'.at = "done" /\ card' # card
    BY <1>15 DEF ChangeCard, Idle
  <2> QED
    BY <1>2, <2>1, ForwardIdle
<1> QED
  BY <1>3, <1>4, <1>5, <1>6, <1>7, <1>8, <1>9, <1>10, <1>11, <1>12, <1>13, <1>14, <1>15 DEF Next

RecordInv == CopiesCorrectInv /\ ForwardInv

LEMMA RecordStep ==
  ASSUME RecordInv, [Next]_vars
  PROVE  /\ RecordInv'
         /\ ~Deleted' /\ <<file, markers>>' # <<file, markers>> => Moves
<1>1. CopiesCorrectInv /\ CopiesCorrectInv'
  BY CopiesInductive DEF RecordInv
<1>2. CASE Next
  <2>1. (Cleaning => Deleted)'
    BY <1>1, <1>2, CleaningStep DEF CopiesCorrectInv, RecordInv, ForwardInv, Cleaning
  <2>2. ~Deleted' => TwinsInv' /\ PhaseInv' /\ Moves
    BY <1>1, <1>2, ForwardStep DEF CopiesCorrectInv, RecordInv
  <2> QED
    BY <1>1, <2>1, <2>2 DEF RecordInv, ForwardInv, Cleaning
<1>3. CASE UNCHANGED vars
  <2>1. UNCHANGED <<file, card, job, tombstone, cutoff, markers>>
    BY <1>3 DEF vars, markers
  <2>2. Newest' = Newest /\ Deleted' = Deleted
    BY <2>1, NewestStays DEF Deleted, DeletedThrough
  <2>3. TwinsInv' = TwinsInv /\ PhaseInv' = PhaseInv
    BY <2>1, <2>2 DEF TwinsInv, PhaseInv, Forward
  <2>4. ForwardInv'
    BY <2>1, <2>2, <2>3 DEF ForwardInv, RecordInv
  <2> QED
    BY <1>1, <2>1, <2>4 DEF RecordInv
<1> QED
  BY <1>2, <1>3

THEOREM RecordCorrect == Spec => []RecordInv
<1>1. Init => RecordInv
  <2> SUFFICES ASSUME Init PROVE RecordInv
    OBVIOUS
  <2>1. CopiesCorrectInv
    BY InitDeletion, InitCopies DEF CopiesCorrectInv
  <2>2. file["flash"] = NoFile /\ file["card"] = NoFile /\ job.at = "done"
    BY DEF Init, Media, Idle
  <2>3. TwinsInv /\ PhaseInv
    BY <2>2 DEF TwinsInv, PhaseInv, Twins, NoFile
  <2> QED
    BY <2>1, <2>2, <2>3 DEF RecordInv, ForwardInv
<1>2. RecordInv /\ [Next]_vars => RecordInv'
  BY RecordStep
<1> QED
  BY <1>1, <1>2, PTL DEF Spec

(* Whatever fails or is cut off, and whatever the card holds, a reader     *)
(* never goes back to an older revision nor, with the card in place, loses *)
(* a receipt (MessageTransactions.cpp:314 and 575, SpaceReclaim.inc:30).   *)
THEOREM ReadersMoveForward == Spec => ReadersGoForward
<1> DEFINE Read == card' = card /\ <<file, markers>>' # <<file, markers>> =>
                     LET old == Shown  new == Shown'
                     IN  old # Absent /\ new # Absent => Forward(old, new)
<1>1. RecordInv /\ RecordInv' /\ [Next]_vars => Read
  <2> SUFFICES ASSUME RecordInv, RecordInv', [Next]_vars, card' = card,
                      <<file, markers>>' # <<file, markers>>, Shown # Absent, Shown' # Absent
               PROVE  Forward(Shown, Shown')
    BY Zenon
  <2>1. Shown = Newest /\ Shown' = Newest' /\ ~Deleted'
    <3>1. (CopiesInv => Shown = IF Deleted THEN Absent ELSE Newest)'
      BY ShownIs, PTL
    <3> QED
      BY <3>1, ShownIs DEF RecordInv, CopiesCorrectInv
  <2>2. Moves
    BY <2>1, RecordStep
  <2> QED
    BY <2>1, <2>2 DEF Moves
<1> QED
  BY RecordCorrect, <1>1, PTL DEF Spec, ReadersGoForward
=============================================================================

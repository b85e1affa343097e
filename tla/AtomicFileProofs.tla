-------------------------- MODULE AtomicFileProofs --------------------------
(***************************************************************************)
(* For every set of contents: the files of AtomicFile keep their types and *)
(* places at every step of a write, a recovery and a removal, and what a   *)
(* reader finds implements DurableFile.                                    *)
(***************************************************************************)
EXTENDS AtomicFile, TLAPS

FileInv == TypeOK /\ PlaceInv /\ BackupInv

(* The invariant holds before the first write.                             *)
LEMMA FileInit == Init => FileInv
  BY AtomicFileAssumption DEF Init, FileInv, TypeOK, PlaceInv, BackupInv, Contents, Steps

(* Every step of atomicStream(), of the recovery and of remove() keeps it: *)
(* the readback is what lets only a complete temporary be promoted.        *)
LEMMA FileStep == FileInv /\ [Next]_vars => FileInv'
<1> SUFFICES ASSUME FileInv, [Next]_vars PROVE FileInv'
  OBVIOUS
<1> USE AtomicFileAssumption DEF FileInv, TypeOK, PlaceInv, BackupInv, Contents, Steps, files
<1>1. ASSUME NEW v \in Values, Begin(v) PROVE FileInv'
  BY <1>1 DEF Begin
<1>2. CASE OpenFails
  BY <1>2 DEF OpenFails, Return
<1>3. CASE WriteTemporary
  BY <1>3 DEF WriteTemporary
<1>4. CASE Verify
  BY <1>4 DEF Verify, ReadsBack, FirstMove
<1>5. CASE DropBackup
  BY <1>5 DEF DropBackup, Return
<1>6. CASE SetAside
  BY <1>6 DEF SetAside
<1>7. CASE Promote
  BY <1>7 DEF Promote, Reader
<1>8. CASE Restore
  BY <1>8 DEF Restore
<1>9. CASE Discard
  BY <1>9 DEF Discard, Return
<1>10. CASE Clean
  BY <1>10 DEF Clean, Return
<1>11. CASE Remove
  BY <1>11 DEF Remove
<1>12. CASE Crash
  BY <1>12 DEF Crash
<1>13. CASE RemoveTemporary
  BY <1>13 DEF RemoveTemporary
<1>14. CASE RecoverBackup
  BY <1>14 DEF RecoverBackup, Orphaned
<1>15. CASE UNCHANGED vars
  BY <1>15 DEF vars
<1>16. QED
  BY <1>1, <1>2, <1>3, <1>4, <1>5, <1>6, <1>7, <1>8, <1>9, <1>10, <1>11, <1>12, <1>13,
     <1>14, <1>15 DEF Next

(* Only the temporary is ever torn, and every step stands where it may.    *)
THEOREM FilesTyped == Spec => []TypeOK
<1>1. Spec => []FileInv
  BY FileInit, FileStep, PTL DEF Spec
<1>2. FileInv => TypeOK
  BY DEF FileInv
<1>3. QED
  BY <1>1, <1>2, PTL

(* A backup beside a primary is what the last promotion replaced.          *)
THEOREM BackupIsPrevious == Spec => []BackupInv
<1>1. Spec => []FileInv
  BY FileInit, FileStep, PTL DEF Spec
<1>2. FileInv => BackupInv
  BY DEF FileInv
<1>3. QED
  BY <1>1, <1>2, PTL

(* Every step is one of DurableFile's or leaves its variables alone: only  *)
(* Promote changes what a reader finds during a write.                     *)
LEMMA StepRefines == FileInv /\ [Next]_vars => [Durable!Next]_(Durable!vars)
<1> SUFFICES ASSUME FileInv, [Next]_vars PROVE [Durable!Next]_(Durable!vars)
  OBVIOUS
<1> USE AtomicFileAssumption DEF FileInv, TypeOK, PlaceInv, BackupInv, Contents, Steps, files,
        Reader, Durable!vars
<1>1. ASSUME NEW v \in Values, Begin(v) PROVE Durable!Start(v)
  BY <1>1 DEF Begin, Durable!Start
<1>2. CASE OpenFails
  <2>1. Durable!Answer
    BY <1>2 DEF OpenFails, Return, Durable!Answer
  <2>2. QED
    BY <2>1 DEF Durable!Next
<1>3. CASE WriteTemporary
  BY <1>3 DEF WriteTemporary
<1>4. CASE Verify
  BY <1>4 DEF Verify, FirstMove
<1>5. CASE DropBackup
  <2>1. CASE pc' = "set aside"
    BY <1>5, <2>1 DEF DropBackup, Return
  <2>2. CASE pc' # "set aside"
    <3>1. Durable!Answer
      BY <1>5, <2>2 DEF DropBackup, Return, Durable!Answer
    <3>2. QED
      BY <3>1 DEF Durable!Next
  <2>3. QED
    BY <2>1, <2>2
<1>6. CASE SetAside
  BY <1>6 DEF SetAside
<1>7. CASE Promote
  <2>1. CASE pc' = "clean"
    <3>1. Durable!TakeEffect
      BY <1>7, <2>1 DEF Promote, Durable!TakeEffect
    <3>2. QED
      BY <3>1 DEF Durable!Next
  <2>2. CASE pc' # "clean"
    BY <1>7, <2>2 DEF Promote
  <2>3. QED
    BY <2>1, <2>2
<1>8. CASE Restore
  BY <1>8 DEF Restore
<1>9. CASE Discard
  <2>1. Durable!Answer
    BY <1>9 DEF Discard, Return, Durable!Answer
  <2>2. QED
    BY <2>1 DEF Durable!Next
<1>10. CASE Clean
  <2>1. Durable!Answer
    BY <1>10 DEF Clean, Return, Durable!Answer
  <2>2. QED
    BY <2>1 DEF Durable!Next
<1>11. CASE Remove
  <2>1. Durable!Remove
    BY <1>11 DEF Remove, Durable!Remove
  <2>2. QED
    BY <2>1 DEF Durable!Next
<1>12. CASE Crash
  <2>1. Durable!Crash
    BY <1>12 DEF Crash, Durable!Crash
  <2>2. QED
    BY <2>1 DEF Durable!Next
<1>13. CASE RemoveTemporary
  BY <1>13 DEF RemoveTemporary
<1>14. CASE RecoverBackup
  BY <1>14 DEF RecoverBackup, Orphaned
<1>15. CASE UNCHANGED vars
  BY <1>15 DEF vars
<1>16. QED
  BY <1>1, <1>2, <1>3, <1>4, <1>5, <1>6, <1>7, <1>8, <1>9, <1>10, <1>11, <1>12, <1>13,
     <1>14, <1>15 DEF Next, Durable!Next

(* Whatever fails and whenever power does, a write takes effect at one     *)
(* instant or not at all, its answer says which, and a removal uncovers    *)
(* nothing older than what the last write replaced.                        *)
THEOREM FileIsDurable == Spec => ImplementsDurableFile
<1>1. Init => Durable!Init
  BY DEF Init, Durable!Init, Reader
<1>2. Spec => []FileInv
  BY FileInit, FileStep, PTL DEF Spec
<1>3. QED
  BY <1>1, <1>2, StepRefines, PTL DEF Spec, ImplementsDurableFile, Durable!Spec
=============================================================================

----------------------- MODULE IncomingDeliveryProofs -----------------------
(***************************************************************************)
(* The two tables of IncomingDelivery account for each other, for any      *)
(* number of rows and receipts.  A step does one of four things to them:   *)
(* it retires receipts, hides rows, settles one row, or receives a copy;   *)
(* there is a lemma for each.                                              *)
(*                                                                         *)
(* That a proof stands for a kept message joins four parts of the system:  *)
(* the jobs waiting in the store say which rows wait, the fence keeps new  *)
(* rows of a conversation away while its deletion is queued, a row says    *)
(* committed only for a record that is there, and a proof in the air knows *)
(* its receipt by a generation that never comes back.                      *)
(***************************************************************************)
EXTENDS IncomingDelivery, SequenceTheorems, TLAPS

Phases == {"Free", "AwaitStore", "Committed", "Invisible"}
Ops    == {"none", "waiting", "Committed", "Failed"}

Rows     == [gen : Nat, phase : Phases, msg : Messages \cup {0}, op : Ops, key : Nat, held : BOOLEAN,
             proofs : SUBSET Pool]
Receipts == [gen : Nat, state : {"Free", "Reserved", "Eligible", "Queued"},
             owner : [slot : Slots \cup {-1}, gen : Nat], proof : Proofs \cup {0}]

TableType == row \in [Slots -> Rows] /\ receipt \in [Pool -> Receipts]

(* A receipt that is in use belongs to a row in use.                       *)
OwnersLive == \A i \in Pool : receipt[i].state # "Free" => Refers(receipt[i].owner)

TableInv == TableType /\ OwnersLive /\ RowsAccounted

(* The store's jobs, oldest first, and its records.                        *)
Jobs   == [slot : Slots \cup {-1}, op : {"Create", "Erase", "Delete"}, msg : Messages, key : Nat]
Record == [msg : Messages, at : Places]

JobType     == jobs \in Seq(Jobs)
RecordsType == records \in Seq(Record)
StoreType   == JobType /\ RecordsType

-----------------------------------------------------------------------------
(* What becomes of the records: none changes its message, and none that    *)
(* has been on flash goes back to being on the card alone.                 *)
Follows ==
  /\ RecordsType'
  /\ \A k \in DOMAIN records :
       /\ k \in DOMAIN records' /\ records'[k].msg = records[k].msg
       /\ records[k].at # "card" => records'[k].at # "card"

LEMMA SeqOfFunction ==
  ASSUME NEW S, NEW n \in Nat, NEW f \in [1 .. n -> S]
  PROVE  f \in Seq(S) /\ Len(f) = n
<1>1. f \in Seq(S)
  BY SeqDef
<1> QED
  BY <1>1, LenProperties

LEMMA RecordAt ==
  ASSUME RecordsType
  PROVE  /\ Len(records) \in Nat /\ DOMAIN records = 1 .. Len(records)
         /\ \A k \in DOMAIN records : k \in Nat /\ records[k] \in Record
BY LenProperties, ElementOfSeq DEF RecordsType

LEMMA PutStep ==
  ASSUME RecordsType, NEW k \in DOMAIN records, NEW at \in Places, Put(k, at),
         records[k].at # "card" => at # "card"
  PROVE  /\ Follows
         /\ records'[k].at = at /\ \A j \in DOMAIN records \ {k} : records'[j] = records[j]
<1> DEFINE e == [records[k] EXCEPT !.at = at]
<1>1. records' = [records EXCEPT ![k] = e]
  BY DEF Put
<1>2. e \in Record /\ e.msg = records[k].msg /\ e.at = at
  BY RecordAt DEF Record
<1> HIDE DEF e
<1>3. /\ records' \in Seq(Record) /\ Len(records') = Len(records)
      /\ \A j \in 1 .. Len(records) : records'[j] = IF j = k THEN e ELSE records[j]
  BY <1>1, <1>2, RecordAt, ExceptSeq DEF RecordsType
<1>4. DOMAIN records' = DOMAIN records
  BY <1>3, RecordAt, LenProperties
<1> QED
  BY <1>2, <1>3, <1>4, RecordAt DEF Follows, RecordsType

LEMMA AppendStep ==
  ASSUME RecordsType, NEW m \in Messages, NEW at \in Places,
         records' = Append(records, [msg |-> m, at |-> at])
  PROVE  /\ Follows /\ \A j \in DOMAIN records : records'[j] = records[j]
         /\ Len(records) + 1 \in DOMAIN records'
         /\ records'[Len(records) + 1].msg = m /\ records'[Len(records) + 1].at = at
<1> DEFINE e == [msg |-> m, at |-> at]
<1>1. e \in Record /\ e.msg = m /\ e.at = at
  BY DEF Record
<1> HIDE DEF e
<1>2. /\ records' \in Seq(Record) /\ Len(records') = Len(records) + 1
      /\ \A i \in 1 .. Len(records) : records'[i] = records[i]
      /\ records'[Len(records) + 1] = e
  BY <1>1, AppendProperties DEF RecordsType, e
<1>3. DOMAIN records' = 1 .. Len(records) + 1
  BY <1>2, LenProperties
<1> QED
  BY <1>1, <1>2, <1>3, RecordAt DEF Follows, RecordsType

LEMMA CutStep ==
  ASSUME RecordsType, NEW m \in Messages,
         records' = [k \in DOMAIN records |->
           IF records[k].msg \in OfPeer(m) THEN [records[k] EXCEPT !.at = "cut"] ELSE records[k]]
  PROVE  /\ Follows
         /\ \A k \in DOMAIN records : Peer[records[k].msg] # Peer[m] => records'[k] = records[k]
<1>1. \A k \in DOMAIN records :
        /\ records'[k] \in Record /\ records'[k].msg = records[k].msg
        /\ records'[k].at \in {records[k].at, "cut"}
  BY RecordAt DEF Record, Places
<1>2. records' \in [1 .. Len(records) -> Record]
  BY <1>1, RecordAt
<1>3. records' \in Seq(Record) /\ DOMAIN records' = DOMAIN records
  BY <1>2, RecordAt, SeqOfFunction
<1> QED
  BY <1>1, <1>3 DEF Follows, RecordsType, OfPeer

(* That a record stands for a message, after the step.                     *)
StandsNext(k, m) == k \in DOMAIN records' /\ records'[k].msg = m /\ records'[k].at # "cut"

(* Whatever a creation finds, it answers with a record of its message that *)
(* no cutoff covers, and it takes nothing from any other.                  *)
LEMMA CreateStep ==
  ASSUME RecordsType, NEW job, job.msg \in Messages, Repeats(job) \/ Adds(job)
  PROVE  /\ Follows /\ \A k, m : Stands(k, m) => StandsNext(k, m)
         /\ \E k \in Nat : Answers(job, "Committed", k) /\ StandsNext(k, job.msg)
<1>1. CASE Repeats(job)
  <2>1. PICK k \in OnFlash(job.msg) \cup OnCard(job.msg) :
          /\ Answers(job, "Committed", k)
          /\ Put(k, records[k].at) \/ (records[k].at # "erased" /\ Put(k, "flash"))
    BY <1>1 DEF Repeats
  <2>2. k \in DOMAIN records /\ records[k].msg = job.msg /\ records[k].at # "cut"
    BY DEF OnFlash, OnCard, Found
  <2>3. PICK at \in {records[k].at, "flash"} : Put(k, at)
    BY <2>1
  <2>4. at \in Places /\ at # "cut" /\ (records[k].at # "card" => at # "card")
    BY <2>2, RecordAt DEF Places, OnMedium, Record
  <2>5. Follows /\ records'[k].at = at /\ \A j \in DOMAIN records \ {k} : records'[j] = records[j]
    BY <2>2, <2>3, <2>4, PutStep
  <2>6. \A j, m : Stands(j, m) => StandsNext(j, m)
    BY <2>2, <2>4, <2>5 DEF Stands, StandsNext, Follows
  <2>7. StandsNext(k, job.msg) /\ k \in Nat
    BY <2>2, <2>4, <2>5, RecordAt DEF Stands, StandsNext, Follows
  <2> QED
    BY <2>1, <2>5, <2>6, <2>7
<1>2. CASE Adds(job)
  <2>1. PICK at \in {"flash", "card"} : records' = Append(records, [msg |-> job.msg, at |-> at])
    BY <1>2 DEF Adds
  <2>2. at \in Places
    BY DEF Places, OnMedium
  <2>3. /\ Follows /\ \A j \in DOMAIN records : records'[j] = records[j]
        /\ Len(records) + 1 \in DOMAIN records'
        /\ records'[Len(records) + 1].msg = job.msg /\ records'[Len(records) + 1].at = at
    BY <2>1, <2>2, AppendStep
  <2>4. Len(records) + 1 \in Nat /\ Answers(job, "Committed", Len(records) + 1)
    BY <1>2, RecordAt DEF Adds
  <2> QED
    BY <2>3, <2>4 DEF Stands, StandsNext, Follows
<1> QED
  BY <1>1, <1>2

(* A tombstone and the space reclaim take single records and no others.    *)
LEMMA TakeStep ==
  ASSUME RecordsType, NEW k, records[k].at \in OnMedium, NEW at \in {"erased", "evicted", "lost"}, Put(k, at)
  PROVE  Follows /\ \A j, m : Stands(j, m) => StandsNext(j, m)
<1>1. at \in Places /\ at # "cut" /\ at # "card"
  BY DEF Places, OnMedium
<1>2. CASE k \in DOMAIN records
  BY <1>1, <1>2, PutStep DEF Stands, StandsNext, Follows
<1>3. CASE k \notin DOMAIN records
  <2>1. records' = records
    BY <1>3, RecordAt, LenProperties, SeqEqual DEF Put, RecordsType
  <2> QED
    BY <2>1 DEF Follows, RecordsType, Stands, StandsNext
<1> QED
  BY <1>2, <1>3

-----------------------------------------------------------------------------
(* The steps that change the list of jobs.                                 *)
LEMMA JobAppended ==
  ASSUME JobType, NEW j \in Jobs, jobs' = Append(jobs, j)
  PROVE  /\ JobType' /\ Len(jobs) \in Nat
         /\ DOMAIN jobs = 1 .. Len(jobs) /\ DOMAIN jobs' = 1 .. Len(jobs) + 1
         /\ jobs'[Len(jobs) + 1] = j
         /\ \A k \in DOMAIN jobs : jobs'[k] = jobs[k]
  BY DEF JobType

LEMMA JobTaken ==
  ASSUME JobType, jobs # <<>>, jobs' = Tail(jobs)
  PROVE  /\ JobType' /\ 1 \in DOMAIN jobs /\ Head(jobs) = jobs[1] /\ Head(jobs) \in Jobs
         /\ \A k \in DOMAIN jobs' : k + 1 \in DOMAIN jobs /\ k + 1 # 1 /\ jobs'[k] = jobs[k + 1]
         /\ \A k, l \in DOMAIN jobs' : k # l => k + 1 # l + 1
<1>1. jobs \in Seq(Jobs)
  BY DEF JobType
<1>2. jobs' \in Seq(Jobs) /\ Len(jobs') = Len(jobs) - 1 /\ Head(jobs) \in Jobs
      /\ \A k \in 1 .. Len(jobs') : jobs'[k] = jobs[k + 1]
  BY <1>1, HeadTailProperties
<1>3. Head(jobs) = jobs[1] /\ Len(jobs) \in Nat \ {0} /\ DOMAIN jobs = 1 .. Len(jobs) /\ DOMAIN jobs' = 1 .. Len(jobs) - 1
  BY <1>1, <1>2
<1> QED
  BY <1>2, <1>3 DEF JobType

LEMMA WorkFollows ==
  ASSUME StoreType, Work
  PROVE  JobType' /\ Follows
<1> DEFINE job == Head(jobs)
<1>1. JobType' /\ job \in Jobs
  BY JobTaken DEF Work, StoreType
<1>2. job.msg \in Messages
  BY <1>1 DEF Jobs
<1>3. CarriesOut(job) \/ FailsJob(job)
  BY DEF Work
<1> HIDE DEF job
<1>4. CASE Repeats(job) \/ Adds(job)
  BY <1>1, <1>2, <1>4, CreateStep DEF StoreType
<1>5. CASE Erases(job)
  BY <1>1, <1>5, TakeStep DEF Erases, StoreType
<1>6. CASE CutsOff(job)
  BY <1>1, <1>2, <1>6, CutStep DEF CutsOff, StoreType
<1>7. CASE records' = records
  BY <1>1, <1>7 DEF Follows, StoreType, RecordsType
<1> QED
  BY <1>3, <1>4, <1>5, <1>6, <1>7 DEF CarriesOut, FailsJob

LEMMA SameRecords ==
  ASSUME StoreType, records' = records,
         jobs' = jobs \/ jobs' = <<>> \/ \E j \in Jobs : jobs' = Append(jobs, j)
  PROVE  StoreType' /\ Follows
<1>1. JobType'
  <2>1. CASE jobs' = jobs \/ jobs' = <<>>
    BY <2>1, EmptySeq DEF StoreType, JobType
  <2>2. CASE \E j \in Jobs : jobs' = Append(jobs, j)
    BY <2>2, JobAppended DEF StoreType
  <2> QED
    BY <2>1, <2>2
<1> QED
  BY <1>1 DEF StoreType, RecordsType, Follows

(* Jobs and records keep their types, and records follow, in every step.   *)
LEMMA StoreStep == ASSUME StoreType, [IncomingNext]_incoming PROVE StoreType' /\ Follows
<1>1. CASE Work
  BY <1>1, WorkFollows DEF StoreType, Follows
<1>2. CASE \E k \in DOMAIN records : Reclaim(k)
  <2>1. PICK k \in DOMAIN records, at \in {"evicted", "lost"} : records[k].at = "flash" /\ Put(k, at) /\ jobs' = jobs
    BY <1>2 DEF Reclaim
  <2>2. Follows
    BY <2>1, TakeStep DEF StoreType, OnMedium
  <2> QED
    BY <2>1, <2>2 DEF StoreType, JobType, Follows
<1>3. CASE /\ records' = records
           /\ jobs' = jobs \/ jobs' = <<>> \/ \E j \in Jobs : jobs' = Append(jobs, j)
  BY <1>3, SameRecords
<1>4. ASSUME NEW m \in Messages, NEW p \in Proofs, Accept(m, p)
      PROVE  records' = records /\ (jobs' = jobs \/ \E j \in Jobs : jobs' = Append(jobs, j))
  <2>1. PICK s \in RowFor(m) : jobs' = Queued(s, m)
    BY <1>4 DEF Accept
  <2>2. s \in Slots
    BY DEF RowFor, Sharing, FreeRows, First
  <2>3. Job(s, "Create", m, 0) \in Jobs
    BY <2>2 DEF Job, Jobs
  <2> QED
    BY <1>4, <2>1, <2>3 DEF Queued, Accept
<1>5. ASSUME NEW m \in Messages, DropPeer(m)
      PROVE  records' = records /\ \E j \in Jobs : jobs' = Append(jobs, j)
  <2>1. Job(-1, "Delete", m, 0) \in Jobs
    BY DEF Job, Jobs
  <2> QED
    BY <1>5, <2>1 DEF DropPeer
<1>6. ASSUME NEW k \in DOMAIN records, DropRecord(k)
      PROVE  records' = records /\ \E j \in Jobs : jobs' = Append(jobs, j)
  <2>1. Job(-1, "Erase", records[k].msg, k) \in Jobs
    BY RecordAt DEF Job, Jobs, StoreType, Record
  <2> QED
    BY <1>6, <2>1 DEF DropRecord
<1>7. CASE Transport \/ StopAdmissions \/ Restart \/ UNCHANGED incoming
  <2>1. records' = records /\ (jobs' = jobs \/ jobs' = <<>> \/ \E j \in Jobs : jobs' = Append(jobs, j))
    BY <1>4, <1>7 DEF Transport, Poll, Expire, Retire, Drain, Ends, DropLink, StopAdmissions, Restart, incoming
  <2> QED
    BY <1>3, <2>1
<1> QED
  BY <1>1, <1>2, <1>3, <1>5, <1>6, <1>7 DEF IncomingNext

-----------------------------------------------------------------------------
LEMMA ReleaseType == ASSUME NEW r \in Rows PROVE Release(r) \in Rows /\ Release(r).gen = r.gen
  BY DEF Release, FreeRow, Rows, Phases, Ops

LEMMA WithoutType == ASSUME NEW r \in Rows, NEW gone \in SUBSET Pool
  PROVE /\ Without(r, gone) \in Rows /\ Without(r, gone).gen = r.gen
        /\ Without(r, gone).proofs = r.proofs \ gone
        /\ Without(r, gone).phase # "Free" => Without(r, gone).op # "none" \/ Without(r, gone).proofs # {} \/ Without(r, gone).held
        /\ Without(r, gone).proofs # {} /\ r.phase # "Free" => Without(r, gone).phase # "Free"
        /\ Without(r, gone).phase \in {r.phase, "Free"}
<1> DEFINE q == [r EXCEPT !.proofs = @ \ gone]
<1>1. q \in Rows /\ q.gen = r.gen /\ q.phase = r.phase /\ q.proofs = r.proofs \ gone
  BY DEF Rows
<1>2. Without(r, gone) = Release(q)
  BY DEF Without
<1> HIDE DEF q
<1> QED
  BY <1>1, <1>2 DEF Release, FreeRow, Rows, Phases, Ops

(* What a step does to the tables is one of four things.                   *)
LEMMA RetireStep ==
  ASSUME TableInv, NEW gone \in SUBSET Pool, receipt' = Retired(gone), row' = RowsWithout(gone)
  PROVE  TableInv'
<1>1. \A s \in Slots : row[s] \in Rows
  BY DEF TableInv, TableType
<1>2. \A s \in Slots :
        /\ row'[s] \in Rows /\ row'[s].gen = row[s].gen
        /\ row'[s].proofs = row[s].proofs \ gone
        /\ Used(s)' => row'[s].op # "none" \/ row'[s].proofs # {} \/ row'[s].held
        /\ row'[s].proofs # {} => Used(s)'
  <2> SUFFICES ASSUME NEW s \in Slots
      PROVE /\ row'[s] \in Rows /\ row'[s].gen = row[s].gen
            /\ row'[s].proofs = row[s].proofs \ gone
            /\ Used(s)' => row'[s].op # "none" \/ row'[s].proofs # {} \/ row'[s].held
            /\ row'[s].proofs # {} => Used(s)'
    OBVIOUS
  <2>1. row[s].proofs # {} => row[s].phase # "Free"
    BY <1>1 DEF TableInv, RowsAccounted, Used, Rows
  <2>2. CASE row[s].proofs \cap gone = {}
    <3>1. row'[s] = row[s]
      BY <2>2 DEF RowsWithout
    <3> QED
      BY <1>1, <2>1, <2>2, <3>1 DEF TableInv, RowsAccounted, Used, Rows
  <2>3. CASE row[s].proofs \cap gone # {}
    <3>1. row'[s] = Without(row[s], gone)
      BY <2>3 DEF RowsWithout
    <3> QED
      BY <1>1, <2>1, <3>1, WithoutType DEF Used
  <2> QED
    BY <2>2, <2>3
<1>3. \A i \in Pool : /\ i \in gone => receipt'[i].state = "Free"
                      /\ i \notin gone => receipt'[i] = receipt[i]
  BY DEF Retired, FreeReceipt
<1>4. TableType'
  <2>1. row' \in [Slots -> Rows]
    BY <1>2 DEF RowsWithout
  <2>2. receipt' \in [Pool -> Receipts]
    BY DEF Retired, FreeReceipt, TableInv, TableType, Receipts
  <2> QED
    BY <2>1, <2>2 DEF TableType
<1>5. OwnersLive'
  <2> SUFFICES ASSUME NEW i \in Pool, receipt'[i].state # "Free" PROVE Refers(receipt[i].owner)' /\ receipt'[i] = receipt[i]
    BY DEF OwnersLive, Refers
  <2>1. i \notin gone /\ receipt'[i] = receipt[i]
    BY <1>3
  <2>2. Refers(receipt[i].owner)
    BY <2>1 DEF TableInv, OwnersLive
  <2> QED
    BY <1>2, <2>1, <2>2 DEF Refers, TableInv, RowsAccounted, Ref, TableType, Receipts
<1>6. RowsAccounted'
  <2> SUFFICES ASSUME NEW s \in Slots, NEW i \in Pool
      PROVE i \in row'[s].proofs <=> receipt'[i].state # "Free" /\ receipt'[i].owner = Ref(s)' /\ Used(s)'
    BY <1>2 DEF RowsAccounted
  <2>1. i \in row[s].proofs <=> receipt[i].state # "Free" /\ receipt[i].owner = Ref(s) /\ Used(s)
    BY DEF TableInv, RowsAccounted
  <2>2. Ref(s)' = Ref(s)
    BY <1>2 DEF Ref
  <2>3. row'[s].proofs = row[s].proofs \ gone /\ (row'[s].proofs # {} => Used(s)')
    BY <1>2
  <2>4. Used(s)' => Used(s)
    <3>1. row'[s] = row[s] \/ row'[s] = Without(row[s], gone)
      BY DEF RowsWithout
    <3>2. Without(row[s], gone).phase \in {row[s].phase, "Free"}
      BY <1>1, WithoutType
    <3> QED
      BY <3>1, <3>2 DEF Used
  <2>5. CASE i \in gone
    BY <1>3, <2>3, <2>5
  <2>6. CASE i \notin gone
    BY <1>3, <2>1, <2>2, <2>3, <2>4, <2>6
  <2> QED
    BY <2>5, <2>6
<1> QED
  BY <1>4, <1>5, <1>6 DEF TableInv

LEMMA HiddenType == ASSUME NEW r \in Rows
  PROVE LET h == Release([r EXCEPT !.phase = "Invisible", !.held = FALSE, !.proofs = {}]) IN
        /\ h \in Rows /\ h.gen = r.gen /\ h.proofs = {} /\ (h.phase # "Free" => h.op # "none")
        /\ h.phase \in {"Free", "Invisible"}
  BY DEF Release, FreeRow, Rows, Phases, Ops

(* A receipt belongs to one row.                                           *)
LEMMA OneOwner ==
  ASSUME RowsAccounted, NEW s \in Slots, NEW t \in Slots, s # t
  PROVE  row[s].proofs \cap row[t].proofs \cap Pool = {}
<1> SUFFICES ASSUME NEW i \in Pool, i \in row[s].proofs, i \in row[t].proofs PROVE FALSE
  OBVIOUS
<1>1. receipt[i].owner = Ref(s) /\ receipt[i].owner = Ref(t)
  BY DEF RowsAccounted
<1>2. Ref(s).slot = s /\ Ref(t).slot = t
  BY DEF Ref
<1> QED
  BY <1>1, <1>2

LEMMA HideStep ==
  ASSUME TableInv, NEW hit \in SUBSET Slots, NEW gone \in SUBSET Pool,
         \A s \in hit : row[s].proofs \subseteq gone,
         \A s \in Slots \ hit : row[s].proofs \cap gone = {},
         receipt' = Retired(gone), row' = Hidden(hit)
  PROVE  TableInv'
<1>1. \A s \in Slots : row[s] \in Rows
  BY DEF TableInv, TableType
<1>2. \A s \in hit : /\ row'[s] \in Rows /\ row'[s].gen = row[s].gen /\ row'[s].proofs = {}
                     /\ Used(s)' => row'[s].op # "none"
  <2> SUFFICES ASSUME NEW s \in hit
      PROVE /\ row'[s] \in Rows /\ row'[s].gen = row[s].gen /\ row'[s].proofs = {}
            /\ Used(s)' => row'[s].op # "none"
    OBVIOUS
  <2>1. row'[s] = Release([row[s] EXCEPT !.phase = "Invisible", !.held = FALSE, !.proofs = {}])
    BY DEF Hidden
  <2> QED
    BY <1>1, <2>1, HiddenType DEF Used
<1>3. \A s \in Slots \ hit : row'[s] = row[s]
  BY DEF Hidden
<1>4. \A i \in Pool : /\ i \in gone => receipt'[i].state = "Free"
                      /\ i \notin gone => receipt'[i] = receipt[i]
  BY DEF Retired, FreeReceipt
<1>5. TableType'
  <2>1. row' \in [Slots -> Rows]
    BY <1>1, <1>2, <1>3 DEF Hidden
  <2>2. receipt' \in [Pool -> Receipts]
    BY DEF Retired, FreeReceipt, TableInv, TableType, Receipts
  <2> QED
    BY <2>1, <2>2 DEF TableType
<1>6. OwnersLive'
  <2> SUFFICES ASSUME NEW i \in Pool, receipt'[i].state # "Free"
      PROVE Refers(receipt[i].owner)' /\ receipt'[i] = receipt[i]
    BY DEF OwnersLive, Refers
  <2>1. i \notin gone /\ receipt'[i] = receipt[i]
    BY <1>4
  <2>2. Refers(receipt[i].owner)
    BY <2>1 DEF TableInv, OwnersLive
  <2>3. receipt[i].owner = Ref(receipt[i].owner.slot)
    BY <2>2 DEF Refers, Ref, TableInv, TableType, Receipts
  <2>4. i \in row[receipt[i].owner.slot].proofs
    BY <2>1, <2>2, <2>3 DEF TableInv, RowsAccounted, Refers
  <2>5. receipt[i].owner.slot \notin hit
    BY <2>1, <2>4
  <2> QED
    BY <1>3, <2>1, <2>2, <2>5 DEF Refers, Used
<1>7. RowsAccounted'
  <2>1. ASSUME NEW s \in hit, NEW i \in Pool
        PROVE  ~(receipt'[i].state # "Free" /\ receipt'[i].owner = Ref(s)' /\ Used(s)')
    <3>1. Ref(s)' = Ref(s)
      BY <1>2 DEF Ref
    <3>2. i \notin row[s].proofs => receipt[i].state = "Free" \/ receipt[i].owner # Ref(s) \/ ~Used(s)
      BY DEF TableInv, RowsAccounted
    <3>3. receipt[i].state # "Free" /\ receipt[i].owner = Ref(s) => Used(s)
      BY DEF TableInv, OwnersLive, Refers, Ref
    <3> QED
      BY <1>4, <3>1, <3>2, <3>3
  <2>2. ASSUME NEW s \in Slots \ hit, NEW i \in Pool
        PROVE  i \in row'[s].proofs <=> receipt'[i].state # "Free" /\ receipt'[i].owner = Ref(s)' /\ Used(s)'
    <3>1. row'[s] = row[s] /\ Ref(s)' = Ref(s) /\ (Used(s)' <=> Used(s))
      BY <1>3 DEF Ref, Used
    <3>2. i \in row[s].proofs <=> receipt[i].state # "Free" /\ receipt[i].owner = Ref(s) /\ Used(s)
      BY DEF TableInv, RowsAccounted
    <3> QED
      BY <1>4, <3>1, <3>2
  <2>3. \A s \in Slots : Used(s)' => row'[s].op # "none" \/ row'[s].proofs # {} \/ row'[s].held
    BY <1>2, <1>3 DEF TableInv, RowsAccounted, Used
  <2> QED
    BY <1>2, <2>1, <2>2, <2>3 DEF RowsAccounted
<1> QED
  BY <1>5, <1>6, <1>7 DEF TableInv

LEMMA SettleStep ==
  ASSUME TableInv, NEW s \in Slots, NEW q \in Rows, row' = [row EXCEPT ![s] = q],
         q.gen = row[s].gen, q.proofs \subseteq row[s].proofs,
         q.phase # "Free" => q.op # "none" \/ q.proofs # {} \/ q.held,
         q.proofs # {} => q.phase # "Free",
         receipt' \in [Pool -> Receipts],
         \A i \in Pool \ row[s].proofs : receipt'[i] = receipt[i],
         \A i \in row[s].proofs \ q.proofs : receipt'[i].state = "Free",
         \A i \in q.proofs : receipt'[i].state # "Free" /\ receipt'[i].owner = receipt[i].owner
  PROVE  TableInv'
<1>1. row'[s] = q /\ \A t \in Slots \ {s} : row'[t] = row[t]
  BY DEF TableInv, TableType
<1>2. TableType'
  BY DEF TableInv, TableType
<1>3. \A t \in Slots : Ref(t)' = Ref(t)
  BY <1>1 DEF Ref
<1>4. \A i \in Pool : i \in row[s].proofs <=> receipt[i].state # "Free" /\ receipt[i].owner = Ref(s)
  BY DEF TableInv, RowsAccounted, OwnersLive, Refers, Ref
<1>5. \A i \in Pool : i \in row'[s].proofs <=> receipt'[i].state # "Free" /\ receipt'[i].owner = Ref(s)' /\ Used(s)'
  <2> SUFFICES ASSUME NEW i \in Pool
      PROVE i \in q.proofs <=> receipt'[i].state # "Free" /\ receipt'[i].owner = Ref(s) /\ q.phase # "Free"
    BY <1>1, <1>3 DEF Used
  <2>1. CASE i \in q.proofs
    BY <1>4, <2>1
  <2>2. CASE i \in row[s].proofs \ q.proofs
    BY <2>2
  <2>3. CASE i \notin row[s].proofs
    BY <1>4, <2>3
  <2> QED
    BY <2>1, <2>2, <2>3
<1>6. ASSUME NEW t \in Slots \ {s}, NEW i \in Pool
      PROVE  i \in row'[t].proofs <=> receipt'[i].state # "Free" /\ receipt'[i].owner = Ref(t)' /\ Used(t)'
  <2>1. i \in row[t].proofs <=> receipt[i].state # "Free" /\ receipt[i].owner = Ref(t) /\ Used(t)
    BY DEF TableInv, RowsAccounted
  <2>2. Ref(t).slot = t /\ Ref(s).slot = s
    BY DEF Ref
  <2>3. row'[t] = row[t] /\ (Used(t)' <=> Used(t)) /\ Ref(t)' = Ref(t)
    BY <1>1, <1>3 DEF Used
  <2>4. CASE i \in row[s].proofs
    <3>1. receipt[i].owner = Ref(s) /\ (receipt'[i].state = "Free" \/ receipt'[i].owner = Ref(s))
      BY <1>4, <2>4
    <3> QED
      BY <2>1, <2>2, <2>3, <3>1
  <2>5. CASE i \notin row[s].proofs
    BY <2>1, <2>3, <2>5
  <2> QED
    BY <2>4, <2>5
<1>7. RowsAccounted'
  <2>1. \A t \in Slots : Used(t)' => row'[t].op # "none" \/ row'[t].proofs # {} \/ row'[t].held
    BY <1>1 DEF TableInv, RowsAccounted, Used
  <2> QED
    BY <1>5, <1>6, <2>1 DEF RowsAccounted
<1>8. OwnersLive'
  <2> SUFFICES ASSUME NEW i \in Pool, receipt'[i].state # "Free" PROVE Refers(receipt[i].owner)'
    BY DEF OwnersLive, Refers
  <2>1. receipt'[i].owner = receipt[i].owner /\ receipt[i].state # "Free"
    BY <1>4
  <2>2. Refers(receipt[i].owner)
    BY <2>1 DEF TableInv, OwnersLive
  <2>3. CASE receipt[i].owner.slot = s
    <3>1. receipt[i].owner = Ref(s)
      BY <2>2, <2>3 DEF Refers, Ref, TableInv, TableType, Receipts
    <3>2. i \in q.proofs
      BY <1>4, <2>1, <3>1
    <3> QED
      BY <1>1, <2>1, <2>2, <2>3, <3>2 DEF Refers, Used
  <2>4. CASE receipt[i].owner.slot # s
    BY <1>1, <2>1, <2>2, <2>4 DEF Refers, Used
  <2> QED
    BY <2>3, <2>4
<1> QED
  BY <1>2, <1>7, <1>8 DEF TableInv

LEMMA ReceivedType ==
  ASSUME NEW s \in Slots, NEW m \in Messages, NEW added \in SUBSET Pool, row[s] \in Rows,
         ~Used(s) => row[s].proofs = {}
  PROVE  /\ Received(s, m, FALSE, added) \in Rows /\ Received(s, m, FALSE, added).phase # "Free"
         /\ Received(s, m, FALSE, added).proofs = row[s].proofs \cup added
         /\ Used(s) => Received(s, m, FALSE, added).gen = row[s].gen
<1>1. CASE Used(s)
  <2> DEFINE r == row[s]
             q == [r EXCEPT !.held = @ \/ FALSE, !.proofs = @ \cup added]
  <2>1. Received(s, m, FALSE, added) = q
    BY <1>1 DEF Received
  <2>2. r \in Rows /\ r.phase # "Free"
    BY <1>1 DEF Used
  <2> HIDE DEF r
  <2>3. q \in Rows /\ q.phase = r.phase /\ q.gen = r.gen /\ q.proofs = r.proofs \cup added
    <3>1. (r.held \/ FALSE) \in BOOLEAN /\ r.proofs \cup added \in SUBSET Pool
      BY <2>2 DEF Rows
    <3> QED
      BY <2>2, <3>1 DEF Rows
  <2> HIDE DEF q
  <2> QED
    BY <2>1, <2>2, <2>3 DEF r
<1>2. CASE ~Used(s)
  <2> DEFINE q == [gen |-> row[s].gen + 1, phase |-> "AwaitStore", msg |-> m, op |-> "waiting",
                   key |-> 0, held |-> FALSE, proofs |-> added]
  <2>1. Received(s, m, FALSE, added) = q
    BY <1>2 DEF Received
  <2>2. row[s].gen + 1 \in Nat
    BY DEF Rows
  <2>3. q \in Rows
    BY <2>2 DEF Rows, Phases, Ops
  <2>4. q.phase # "Free" /\ q.proofs = added
    OBVIOUS
  <2> HIDE DEF q
  <2> QED
    BY <1>2, <2>1, <2>3, <2>4
<1> QED
  BY <1>1, <1>2

LEMMA AcceptStep ==
  ASSUME TableInv, NEW m \in Messages, NEW p \in Proofs, Accept(m, p)
  PROVE  TableInv'
<1>1. PICK s \in RowFor(m) : \E i \in NewReceipt(s) :
        /\ row' = [row EXCEPT ![s] = Received(s, m, FALSE, {i})]
        /\ receipt' = [receipt EXCEPT ![i] =
             [gen |-> @.gen + 1, state |-> IF row[s].phase = "Committed" THEN "Eligible" ELSE "Reserved",
              owner |-> [slot |-> s, gen |-> row'[s].gen], proof |-> p]]
  BY DEF Accept
<1>2. PICK i \in NewReceipt(s) :
        /\ row' = [row EXCEPT ![s] = Received(s, m, FALSE, {i})]
        /\ receipt' = [receipt EXCEPT ![i] =
             [gen |-> @.gen + 1, state |-> IF row[s].phase = "Committed" THEN "Eligible" ELSE "Reserved",
              owner |-> [slot |-> s, gen |-> row'[s].gen], proof |-> p]]
  BY <1>1
<1>3. s \in Slots /\ i \in Pool /\ receipt[i].state = "Free"
  BY DEF RowFor, Sharing, FreeRows, First, NewReceipt, FreeReceipts
<1> DEFINE q == Received(s, m, FALSE, {i})
<1>4. row[s] \in Rows
  BY <1>3 DEF TableInv, TableType
<1>5. ~Used(s) => row[s].proofs = {} /\ \A j \in Pool : receipt[j].state # "Free" => receipt[j].owner.slot # s
  BY <1>3, <1>4 DEF TableInv, RowsAccounted, OwnersLive, Refers, Rows
<1>6. /\ q \in Rows /\ q.phase # "Free" /\ q.proofs = row[s].proofs \cup {i}
      /\ Used(s) => q.gen = row[s].gen
  <2>1. {i} \in SUBSET Pool /\ (~Used(s) => row[s].proofs = {})
    BY <1>3, <1>5
  <2> QED
    BY <1>3, <1>4, <2>1, ReceivedType, ZenonT(30)
<1>7. row'[s] = q /\ \A t \in Slots \ {s} : row'[t] = row[t]
  BY <1>2, <1>3 DEF TableInv, TableType
<1>8. /\ receipt'[i].state # "Free" /\ receipt'[i].owner = [slot |-> s, gen |-> q.gen]
      /\ receipt'[i] \in Receipts /\ \A j \in Pool \ {i} : receipt'[j] = receipt[j]
  <2>1. receipt[i] \in Receipts /\ DOMAIN receipt = Pool
    BY <1>3 DEF TableInv, TableType
  <2>2. receipt'[i] = [gen |-> receipt[i].gen + 1, state |-> IF row[s].phase = "Committed" THEN "Eligible" ELSE "Reserved",
              owner |-> [slot |-> s, gen |-> q.gen], proof |-> p]
    BY <1>2, <1>3, <1>7, <2>1
  <2> HIDE DEF q
  <2>3. receipt[i].gen + 1 \in Nat
    BY <2>1 DEF Receipts
  <2>4. q.gen \in Nat
    BY <1>6 DEF Rows
  <2> QED
    BY <1>2, <1>3, <2>1, <2>2, <2>3, <2>4 DEF Receipts
<1> HIDE DEF q
<1>9. TableType'
  <2>1. row' \in [Slots -> Rows]
    BY <1>2, <1>6, <1>7 DEF TableInv, TableType, q
  <2>2. receipt' \in [Pool -> Receipts]
    BY <1>2, <1>8 DEF TableInv, TableType
  <2> QED
    BY <2>1, <2>2 DEF TableType
<1>10. \A t \in Slots \ {s} : Ref(t)' = Ref(t) /\ (Used(t)' <=> Used(t))
  BY <1>7 DEF Ref, Used
<1>11. Ref(s)' = [slot |-> s, gen |-> q.gen] /\ Used(s)'
  BY <1>6, <1>7 DEF Ref, Used
<1>12. \A j \in Pool : j \in q.proofs <=> receipt'[j].state # "Free" /\ receipt'[j].owner = Ref(s)'
  <2> SUFFICES ASSUME NEW j \in Pool
      PROVE j \in q.proofs <=> receipt'[j].state # "Free" /\ receipt'[j].owner = [slot |-> s, gen |-> q.gen]
    BY <1>11
  <2>1. CASE j = i
    BY <1>6, <1>8, <2>1
  <2>2. CASE j # i /\ Used(s)
    <3>1. j \in row[s].proofs <=> receipt[j].state # "Free" /\ receipt[j].owner = Ref(s)
      BY <1>3, <2>2 DEF TableInv, RowsAccounted
    <3> QED
      BY <1>6, <1>8, <2>2, <3>1 DEF Ref
  <2>3. CASE j # i /\ ~Used(s)
    BY <1>5, <1>6, <1>8, <2>3
  <2> QED
    BY <2>1, <2>2, <2>3
<1>13. ASSUME NEW t \in Slots \ {s}, NEW j \in Pool
       PROVE  j \in row'[t].proofs <=> receipt'[j].state # "Free" /\ receipt'[j].owner = Ref(t)' /\ Used(t)'
  <2>1. j \in row[t].proofs <=> receipt[j].state # "Free" /\ receipt[j].owner = Ref(t) /\ Used(t)
    BY DEF TableInv, RowsAccounted
  <2>2. CASE j = i
    <3>1. receipt'[j].owner.slot = s /\ Ref(t).slot = t /\ j \notin row[t].proofs
      BY <1>3, <1>8, <2>1, <2>2 DEF Ref
    <3> QED
      BY <1>7, <1>10, <3>1
  <2>3. CASE j # i
    BY <1>7, <1>8, <1>10, <2>1, <2>3
  <2> QED
    BY <2>2, <2>3
<1>14. RowsAccounted'
  <2>1. \A t \in Slots : Used(t)' => row'[t].op # "none" \/ row'[t].proofs # {} \/ row'[t].held
    BY <1>6, <1>7, <1>10 DEF TableInv, RowsAccounted
  <2> QED
    BY <1>7, <1>11, <1>12, <1>13, <2>1 DEF RowsAccounted
<1>15. OwnersLive'
  <2> SUFFICES ASSUME NEW j \in Pool, receipt'[j].state # "Free" PROVE Refers(receipt[j].owner)'
    BY DEF OwnersLive, Refers
  <2>1. CASE j = i
    BY <1>3, <1>6, <1>7, <1>8, <1>11, <2>1 DEF Refers
  <2>2. CASE j # i
    <3>1. receipt'[j] = receipt[j] /\ Refers(receipt[j].owner)
      BY <1>8, <2>2 DEF TableInv, OwnersLive
    <3>2. CASE receipt[j].owner.slot = s
      BY <1>6, <1>7, <1>11, <3>1, <3>2 DEF Refers
    <3>3. CASE receipt[j].owner.slot # s
      BY <1>7, <1>10, <3>1, <3>3 DEF Refers
    <3> QED
      BY <3>2, <3>3
  <2> QED
    BY <2>1, <2>2
<1> QED
  BY <1>9, <1>14, <1>15 DEF TableInv

LEMMA PollStep == ASSUME TableInv, NEW s \in Slots, Poll(s) PROVE TableInv'
<1> DEFINE r == [row[s] EXCEPT !.op = "none"]
<1>1. row[s] \in Rows /\ r \in Rows /\ r.gen = row[s].gen /\ r.proofs = row[s].proofs
  BY DEF TableInv, TableType, Rows, Ops
<1>2. \A i \in row[s].proofs : i \in Pool /\ receipt[i].state # "Free"
  BY <1>1 DEF TableInv, RowsAccounted, Rows
<1>3. CASE Visible(s)
  <2> DEFINE c == [r EXCEPT !.phase = "Committed"]
             q == Release(c)
  <2>1. row' = [row EXCEPT ![s] = q]
    BY <1>3 DEF Poll
  <2>2. c \in Rows /\ c.gen = row[s].gen /\ c.proofs = row[s].proofs /\ c.phase = "Committed"
    BY <1>1 DEF Rows, Phases
  <2>3. receipt' = [i \in Pool |-> IF i \in row[s].proofs THEN [receipt[i] EXCEPT !.state = "Eligible"] ELSE receipt[i]]
    BY <1>3 DEF Poll
  <2> HIDE DEF c, r
  <2>4. /\ q \in Rows /\ q.gen = row[s].gen /\ q.proofs = row[s].proofs
        /\ q.phase # "Free" => q.op # "none" \/ q.proofs # {} \/ q.held
        /\ q.proofs # {} => q.phase # "Free"
    BY <2>2, ReleaseType DEF Release, FreeRow
  <2>5. \A i \in Pool : [receipt[i] EXCEPT !.state = "Eligible"] \in Receipts
    BY DEF TableInv, TableType, Receipts
  <2>6. receipt' \in [Pool -> Receipts]
    BY <2>3, <2>5 DEF TableInv, TableType
  <2>7. \A i \in row[s].proofs : receipt'[i].state # "Free" /\ receipt'[i].owner = receipt[i].owner
    BY <1>2, <2>3 DEF TableInv, TableType, Receipts
  <2>8. \A i \in Pool \ row[s].proofs : receipt'[i] = receipt[i]
    BY <2>3
  <2> HIDE DEF q
  <2> QED
    BY <2>1, <2>4, <2>6, <2>7, <2>8, SettleStep
<1>4. CASE ~Visible(s)
  <2> DEFINE c == [r EXCEPT !.phase = "Invisible"]
             q == Without(c, r.proofs)
  <2>1. row' = [row EXCEPT ![s] = q] /\ receipt' = Retired(r.proofs)
    BY <1>4 DEF Poll
  <2>2. c \in Rows /\ c.gen = row[s].gen /\ c.proofs = row[s].proofs /\ r.proofs \in SUBSET Pool
    BY <1>1 DEF Rows, Phases
  <2>3. r.proofs = row[s].proofs
    BY <1>1
  <2> HIDE DEF c, r
  <2>4. /\ q \in Rows /\ q.gen = row[s].gen /\ q.proofs = {}
        /\ q.phase # "Free" => q.op # "none" \/ q.proofs # {} \/ q.held
    BY <2>2, <2>3, WithoutType
  <2>5. receipt' \in [Pool -> Receipts]
    BY <2>1 DEF TableInv, TableType, Receipts, Retired, FreeReceipt
  <2>6. \A i \in row[s].proofs : receipt'[i].state = "Free"
    BY <1>2, <2>1, <2>3 DEF Retired, FreeReceipt
  <2>7. \A i \in Pool \ row[s].proofs : receipt'[i] = receipt[i]
    BY <2>1, <2>3 DEF Retired
  <2> HIDE DEF q
  <2> QED
    BY <2>1, <2>4, <2>5, <2>6, <2>7, SettleStep
<1> QED
  BY <1>3, <1>4

LEMMA WorkStep == ASSUME TableInv, StoreType, Work PROVE TableInv'
<1>1. receipt' = receipt /\ (row' = row \/ \E s \in Slots, e \in {"Committed", "Failed"}, k \in Nat :
        row' = [row EXCEPT ![s] = [row[s] EXCEPT !.op = e, !.key = k]])
  <2> DEFINE job == Head(jobs)
  <2>1. job.msg \in Messages
    BY JobTaken DEF Work, StoreType, Jobs
  <2> HIDE DEF job
  <2>2. row' = row \/ \E e \in {"Committed", "Failed"}, k \in Nat : Answers(job, e, k)
    <3>1. CASE Repeats(job) \/ Adds(job)
      <4>1. RecordsType
        BY DEF StoreType
      <4>2. \E k \in Nat : Answers(job, "Committed", k)
        BY <2>1, <3>1, <4>1, CreateStep
      <4> QED
        BY <4>2
    <3>2. CASE Erases(job) \/ CutsOff(job)
      BY <3>2 DEF Erases, CutsOff
    <3>3. CASE FailsJob(job)
      BY <3>3 DEF FailsJob
    <3> QED
      BY <3>1, <3>2, <3>3 DEF Work, CarriesOut, job
  <2>3. row' = row \/ \E e \in {"Committed", "Failed"}, k \in Nat :
                        row' = [row EXCEPT ![job.slot] = [@ EXCEPT !.op = e, !.key = k]]
    BY <2>2 DEF Answers
  <2>4. CASE job.slot \notin Slots
    <3>1. row \in [Slots -> Rows] /\ receipt' = receipt
      BY DEF TableInv, TableType, Work
    <3> QED
      BY <2>3, <2>4, <3>1, ZenonT(30)
  <2>5. CASE job.slot \in Slots
    <3>1. receipt' = receipt
      BY DEF Work
    <3> QED
      BY <2>3, <2>5, <3>1, ZenonT(30)
  <2> QED
    BY <2>4, <2>5
<1>2. CASE row' = row
  BY <1>1, <1>2 DEF TableInv, TableType, OwnersLive, RowsAccounted, Refers, Used, Ref
<1>3. CASE row' # row
  <2>1. PICK s \in Slots, e \in {"Committed", "Failed"}, k \in Nat :
          row' = [row EXCEPT ![s] = [row[s] EXCEPT !.op = e, !.key = k]]
    BY <1>1, <1>3
  <2> DEFINE q == [row[s] EXCEPT !.op = e, !.key = k]
  <2>2. row[s] \in Rows
    BY DEF TableInv, TableType
  <2>3. q \in Rows /\ q.gen = row[s].gen /\ q.proofs = row[s].proofs /\ q.op # "none" /\ q.phase = row[s].phase
    BY <2>2 DEF Rows, Ops
  <2>4. (q.proofs # {} => q.phase # "Free") /\ (\A i \in q.proofs : receipt[i].state # "Free")
    BY <2>2, <2>3 DEF TableInv, RowsAccounted, Rows, Used
  <2>5. receipt' \in [Pool -> Receipts] /\ receipt' = receipt
    BY <1>1 DEF TableInv, TableType
  <2> HIDE DEF q
  <2> QED
    BY <2>1, <2>3, <2>4, <2>5, SettleStep DEF q
<1> QED
  BY <1>2, <1>3

LEMMA DrainStep == ASSUME TableInv, NEW i \in Pool, Drain(i) PROVE TableInv'
<1>1. receipt' = [receipt EXCEPT ![i] = [receipt[i] EXCEPT !.state = "Queued"]] /\ row' = row /\ receipt[i].state # "Free"
  BY DEF Drain
<1>2. [receipt[i] EXCEPT !.state = "Queued"] \in Receipts
  BY DEF TableInv, TableType, Receipts
<1>3. receipt' \in [Pool -> Receipts]
  BY <1>1, <1>2 DEF TableInv, TableType
<1>4. \A j \in Pool : receipt'[j].owner = receipt[j].owner /\ (receipt'[j].state = "Free" <=> receipt[j].state = "Free")
  BY <1>1 DEF TableInv, TableType, Receipts
<1> QED
  BY <1>1, <1>3, <1>4 DEF TableInv, TableType, OwnersLive, RowsAccounted, Refers, Used, Ref

LEMMA DropPeerStep == ASSUME TableInv, NEW m \in Messages, DropPeer(m) PROVE TableInv'
<1> DEFINE hit  == {s \in Slots : Used(s) /\ row[s].msg \in OfPeer(m)}
           gone == UNION {row[s].proofs : s \in hit}
<1>1. row' = Hidden(hit) /\ receipt' = Retired(gone)
  BY DEF DropPeer, DropProofs
<1>2. \A s \in Slots : row[s].proofs \in SUBSET Pool
  BY DEF TableInv, TableType, Rows
<1>3. hit \in SUBSET Slots /\ gone \in SUBSET Pool /\ \A s \in hit : row[s].proofs \subseteq gone
  BY <1>2
<1>4. \A s \in Slots \ hit : row[s].proofs \cap gone = {}
  <2> SUFFICES ASSUME NEW s \in Slots \ hit, NEW i \in row[s].proofs, i \in gone PROVE FALSE
    OBVIOUS
  <2>1. PICK t \in hit : i \in row[t].proofs
    OBVIOUS
  <2>2. s # t /\ t \in Slots /\ i \in Pool
    BY <1>2
  <2> QED
    BY <2>1, <2>2, OneOwner DEF TableInv
<1> HIDE DEF hit, gone
<1> QED
  BY <1>1, <1>3, <1>4, HideStep

LEMMA StopStep == ASSUME TableInv, StopAdmissions PROVE TableInv'
<1> DEFINE hit == {s \in Slots : Used(s)}
<1>1. row' = Hidden(hit) /\ receipt' = Retired(Pool) /\ hit \in SUBSET Slots /\ Pool \in SUBSET Pool
  BY DEF StopAdmissions
<1>2. \A s \in Slots : row[s].proofs \in SUBSET Pool
  BY DEF TableInv, TableType, Rows
<1>3. \A s \in Slots \ hit : row[s].proofs \cap Pool = {}
  BY <1>2 DEF TableInv, RowsAccounted
<1>4. \A s \in hit : row[s].proofs \subseteq Pool
  BY <1>2
<1> HIDE DEF hit
<1> QED
  BY <1>1, <1>3, <1>4, HideStep

LEMMA TableStep == StoreType /\ TableInv /\ [IncomingNext]_incoming => TableInv'
<1> SUFFICES ASSUME StoreType, TableInv, [IncomingNext]_incoming PROVE TableInv'
  OBVIOUS
<1>1. CASE \E m \in Messages, p \in Proofs : Accept(m, p)
  BY <1>1, AcceptStep
<1>2. CASE \E s \in Slots : Poll(s)
  BY <1>2, PollStep
<1>3. CASE \E i \in Pool : Expire(i)
  <2>1. PICK i \in Pool : receipt' = Retired({i}) /\ row' = RowsWithout({i})
    BY <1>3 DEF Expire, Retire
  <2>2. {i} \in SUBSET Pool
    OBVIOUS
  <2> QED
    BY <2>1, <2>2, RetireStep
<1>4. CASE \E i \in Pool : Drain(i)
  BY <1>4, DrainStep
<1>5. CASE \E r \in air : Ends(r)
  <2>1. PICK r \in air : Ends(r)
    BY <1>5
  <2> DEFINE gone == IF Known(r) THEN {r.slot} ELSE {}
  <2>2. receipt' = Retired(gone) /\ row' = RowsWithout(gone)
    BY <2>1 DEF Ends
  <2>3. Retired(gone) = Retired(gone \cap Pool) /\ RowsWithout(gone) = RowsWithout(gone \cap Pool)
    <3>1. \A s \in Slots : row[s].proofs \in SUBSET Pool
      BY DEF TableInv, TableType, Rows
    <3>2. \A s \in Slots : row[s].proofs \cap gone = row[s].proofs \cap (gone \cap Pool)
                          /\ row[s].proofs \ gone = row[s].proofs \ (gone \cap Pool)
      BY <3>1
    <3> HIDE DEF gone
    <3> QED
      BY <3>2 DEF Retired, RowsWithout, Without
  <2>4. gone \cap Pool \in SUBSET Pool
    OBVIOUS
  <2> HIDE DEF gone
  <2> QED
    BY <2>2, <2>3, <2>4, RetireStep
<1>6. CASE \E p \in Proofs : DropLink(p)
  <2>1. PICK p \in Proofs : DropLink(p)
    BY <1>6
  <2> DEFINE gone == {i \in Pool : receipt[i].state # "Free" /\ receipt[i].proof = p}
  <2>2. receipt' = Retired(gone) /\ row' = RowsWithout(gone) /\ gone \in SUBSET Pool
    BY <2>1 DEF DropLink
  <2> HIDE DEF gone
  <2> QED
    BY <2>2, RetireStep
<1>7. CASE Work
  BY <1>7, WorkStep
<1>8. CASE StopAdmissions
  BY <1>8, StopStep
<1>9. CASE Restart
  <2>1. row' = [s \in Slots |-> FreeRow(0)] /\ receipt' = [i \in Pool |-> FreeReceipt(0)]
    BY <1>9 DEF Restart
  <2>2. \A s \in Slots : row'[s] \in Rows /\ row'[s].phase = "Free" /\ row'[s].proofs = {}
    BY <2>1 DEF FreeRow, Rows, Phases, Ops
  <2>3. \A i \in Pool : receipt'[i] \in Receipts /\ receipt'[i].state = "Free"
    BY <2>1 DEF FreeReceipt, Receipts
  <2> QED
    BY <2>1, <2>2, <2>3 DEF TableInv, TableType, OwnersLive, RowsAccounted, Used
<1>10. CASE \E m \in Messages : DropPeer(m)
  BY <1>10, DropPeerStep
<1>11. CASE UNCHANGED incoming \/ \E k \in DOMAIN records : DropRecord(k) \/ Reclaim(k)
  <2>1. row' = row /\ receipt' = receipt
    BY <1>11 DEF incoming, delivery, DropRecord, Reclaim
  <2> QED
    BY <2>1 DEF TableInv, TableType, OwnersLive, RowsAccounted, Refers, Used, Ref
<1> QED
  BY <1>1, <1>2, <1>3, <1>4, <1>5, <1>6, <1>7, <1>8, <1>9, <1>10, <1>11 DEF IncomingNext, Transport

LEMMA TableInit == Init => TableInv
<1> SUFFICES ASSUME Init PROVE TableInv
  OBVIOUS
<1>1. \A s \in Slots : row[s] \in Rows /\ row[s].phase = "Free" /\ row[s].proofs = {}
  BY DEF Init, FreeRow, Rows, Phases, Ops
<1>2. \A i \in Pool : receipt[i] \in Receipts /\ receipt[i].state = "Free"
  BY DEF Init, FreeReceipt, Receipts
<1>3. row = [s \in Slots |-> FreeRow(0)] /\ receipt = [i \in Pool |-> FreeReceipt(0)]
  BY DEF Init
<1> QED
  BY <1>1, <1>2, <1>3 DEF TableInv, TableType, OwnersLive, RowsAccounted, Used

(* Rows and receipts account for each other and no row is used without a   *)
(* reason (RustIncomingDelivery.cpp), for any number of either.            *)
THEOREM RowsAccountedFor == IncomingSpec => []RowsAccounted
<1>1. StoreType /\ TableInv => RowsAccounted
  BY DEF TableInv
<1>2. Init => StoreType /\ TableInv
  BY TableInit, EmptySeq DEF Init, StoreType, JobType, RecordsType
<1>3. (StoreType /\ TableInv) /\ [IncomingNext]_incoming => (StoreType /\ TableInv)'
  BY StoreStep, TableStep
<1> QED
  BY <1>1, <1>2, <1>3, PTL DEF IncomingSpec

-----------------------------------------------------------------------------
Creates(k) == k \in DOMAIN jobs /\ jobs[k].op = "Create"
Removes(k) == k \in DOMAIN jobs /\ jobs[k].op = "Delete"

(* A record is created for a row that waits for it, by one job.            *)
CreatesMatch ==
  /\ \A k \in DOMAIN jobs : Creates(k) =>
       /\ jobs[k].slot \in Slots /\ Used(jobs[k].slot)
       /\ row[jobs[k].slot].op = "waiting" /\ row[jobs[k].slot].msg = jobs[k].msg
  /\ \A k, l \in DOMAIN jobs : Creates(k) /\ Creates(l) /\ k # l => jobs[k].slot # jobs[l].slot

(* A deletion is alone in the store, fenced, and no row of its             *)
(* conversation is visible until it has been carried out.                  *)
FenceHolds ==
  /\ \A k \in DOMAIN jobs : Removes(k) => Peer[jobs[k].msg] \in fenced
  /\ \A k, l \in DOMAIN jobs : Removes(k) /\ Removes(l) => k = l
  /\ \A s \in Slots : Used(s) => row[s].msg \in Messages
  /\ \A s \in Slots : Used(s) /\ Peer[row[s].msg] \in fenced => row[s].phase = "Invisible"

(* A row says committed for a record of its message that is not cut off.   *)
Kept(r) == Stands(r.key, r.msg)

CommittedKept ==
  \A s \in Slots : /\ row[s].phase = "Committed" => Kept(row[s]) /\ row[s].op = "none"
                   /\ row[s].op = "Committed" /\ row[s].phase # "Invisible" => Kept(row[s])
                   /\ ~Used(s) => row[s].op = "none"

(* A proof in the air that is still known is of the message it was made    *)
(* for: neither its receipt nor the row has been used again.               *)
AirMatches ==
  \A r \in air : /\ r.slot \in Pool /\ r.gen \in Nat /\ r.gen <= receipt[r.slot].gen
                 /\ Known(r) => r.msg = row[receipt[r.slot].owner.slot].msg

StoreInv == StoreType /\ CreatesMatch /\ FenceHolds /\ CommittedKept

-----------------------------------------------------------------------------
(* What becomes of a row r when no message is received into it.            *)
Lessens(r, q) ==
  /\ q.phase # "Free" => r.phase # "Free" /\ q.msg = r.msg /\ q.key = r.key
  /\ r.phase # "Free" /\ r.op = "waiting" => q.phase # "Free" /\ q.op = "waiting"
  /\ q.op \in {r.op, "none"}
  /\ q.phase = "Free" => q.op = "none"
  /\ \/ q.phase \in {r.phase, "Free", "Invisible"}
     \/ q.phase = "Committed" /\ q.op = "none" /\ r.op = "Committed" /\ r.phase # "Invisible"
  /\ r.phase = "Invisible" => q.phase \in {"Free", "Invisible"}

Idle(r) == r.phase = "Free" => r.op = "none"

LEMMA SameLessens == ASSUME NEW r \in Rows, Idle(r) PROVE Lessens(r, r)
  BY DEF Rows, Phases, Ops, Lessens, Idle

LEMMA WithoutLessens == ASSUME NEW r \in Rows, Idle(r), NEW gone PROVE Lessens(r, Without(r, gone))
<1> DEFINE q == [r EXCEPT !.proofs = @ \ gone]
<1>1. q.phase = r.phase /\ q.op = r.op /\ q.msg = r.msg /\ q.key = r.key /\ q.gen = r.gen
  BY DEF Rows
<1>2. Without(r, gone) = Release(q)
  BY DEF Without
<1> HIDE DEF q
<1>3. Release(q) = q \/ (q.op = "none" /\ Release(q) = FreeRow(q.gen))
  BY DEF Release
<1> QED
  BY <1>1, <1>2, <1>3 DEF Lessens, FreeRow, Idle, Rows, Phases, Ops

LEMMA HiddenLessens ==
  ASSUME NEW r \in Rows, r.phase # "Free"
  PROVE  Lessens(r, Release([r EXCEPT !.phase = "Invisible", !.held = FALSE, !.proofs = {}]))
<1> DEFINE q == [r EXCEPT !.phase = "Invisible", !.held = FALSE, !.proofs = {}]
<1>1. q.phase = "Invisible" /\ q.op = r.op /\ q.msg = r.msg /\ q.key = r.key
  BY DEF Rows
<1> HIDE DEF q
<1>2. Release(q) = q \/ (q.op = "none" /\ Release(q) = FreeRow(q.gen))
  BY DEF Release
<1>3. Lessens(r, Release(q))
  BY <1>1, <1>2 DEF Lessens, FreeRow, Rows, Phases, Ops
<1> QED
  BY <1>3 DEF q

(* No record is cut off.                                                   *)
NoneCut == \A k, m : Stands(k, m) => StandsNext(k, m)

(* Such a step keeps what is said of the jobs and of the records.          *)
LEMMA FrameStep ==
  ASSUME StoreInv, \A s \in Slots : Lessens(row[s], row'[s]),
         jobs' = jobs, fenced' = fenced, StoreType', NoneCut
  PROVE  StoreInv'
<1>1. CreatesMatch'
  BY DEF StoreInv, CreatesMatch, Creates, Lessens, Used
<1>2. FenceHolds'
  BY DEF StoreInv, FenceHolds, Removes, Lessens, Used
<1>3. CommittedKept'
  <2> SUFFICES ASSUME NEW s \in Slots
      PROVE  /\ row'[s].phase = "Committed" => StandsNext(row'[s].key, row'[s].msg) /\ row'[s].op = "none"
             /\ row'[s].op = "Committed" /\ row'[s].phase # "Invisible" => StandsNext(row'[s].key, row'[s].msg)
             /\ row'[s].phase = "Free" => row'[s].op = "none"
    BY DEF CommittedKept, Used, Kept, Stands, StandsNext
  <2>1. Lessens(row[s], row'[s])
    OBVIOUS
  <2>2. /\ row[s].phase = "Committed" => Kept(row[s]) /\ row[s].op = "none"
        /\ row[s].op = "Committed" /\ row[s].phase # "Invisible" => Kept(row[s])
    BY DEF StoreInv, CommittedKept
  <2>3. Kept(row[s]) /\ row'[s].phase # "Free" => StandsNext(row'[s].key, row'[s].msg)
    BY <2>1 DEF Kept, Lessens, NoneCut
  <2> QED
    BY <2>1, <2>2, <2>3 DEF Lessens
<1> QED
  BY <1>1, <1>2, <1>3 DEF StoreInv

LEMMA RowsIdle == ASSUME TableInv, StoreInv PROVE \A s \in Slots : row[s] \in Rows /\ Idle(row[s])
  BY DEF TableInv, TableType, StoreInv, CommittedKept, Idle, Used

LEMMA RetireLessens ==
  ASSUME TableInv, StoreInv, NEW gone, row' = RowsWithout(gone)
  PROVE  \A s \in Slots : Lessens(row[s], row'[s])
<1> SUFFICES ASSUME NEW s \in Slots PROVE Lessens(row[s], row'[s])
  OBVIOUS
<1>1. row'[s] = row[s] \/ row'[s] = Without(row[s], gone)
  BY DEF RowsWithout
<1> QED
  BY <1>1, RowsIdle, SameLessens, WithoutLessens

LEMMA HideLessens ==
  ASSUME TableInv, StoreInv, NEW hit, \A s \in hit : s \in Slots /\ Used(s), row' = Hidden(hit)
  PROVE  \A s \in Slots : Lessens(row[s], row'[s])
<1> SUFFICES ASSUME NEW s \in Slots PROVE Lessens(row[s], row'[s])
  OBVIOUS
<1>1. CASE s \in hit
  <2>1. row'[s] = Release([row[s] EXCEPT !.phase = "Invisible", !.held = FALSE, !.proofs = {}])
    BY <1>1 DEF Hidden
  <2>2. row[s] \in Rows /\ row[s].phase # "Free"
    BY <1>1, RowsIdle DEF Used
  <2> QED
    BY <2>1, <2>2, HiddenLessens
<1>2. CASE s \notin hit
  <2>1. row'[s] = row[s]
    BY <1>2 DEF Hidden
  <2> QED
    BY <2>1, RowsIdle, SameLessens
<1> QED
  BY <1>1, <1>2

LEMMA PollLessens ==
  ASSUME TableInv, StoreInv, NEW t \in Slots, Poll(t)
  PROVE  \A s \in Slots : Lessens(row[s], row'[s])
<1> SUFFICES ASSUME NEW s \in Slots PROVE Lessens(row[s], row'[s])
  OBVIOUS
<1> DEFINE r == [row[t] EXCEPT !.op = "none"]
<1>1. row[t] \in Rows /\ row[t].phase # "Free" /\ row[t].op \in {"Committed", "Failed"}
  BY RowsIdle DEF Poll, Idle
<1>2. r \in Rows /\ r.phase = row[t].phase /\ r.op = "none" /\ r.msg = row[t].msg /\ r.key = row[t].key
  BY <1>1 DEF Rows, Ops
<1>3. CASE s # t
  <2>1. row'[s] = row[s]
    BY <1>3 DEF Poll, TableInv, TableType
  <2> QED
    BY <2>1, RowsIdle, SameLessens
<1>4. CASE s = t /\ Visible(t)
  <2> DEFINE c == [r EXCEPT !.phase = "Committed"]
  <2>1. row'[s] = Release(c)
    BY <1>4 DEF Poll, TableInv, TableType
  <2> HIDE DEF r
  <2>2. c.phase = "Committed" /\ c.op = "none" /\ c.msg = row[t].msg /\ c.key = row[t].key
    BY <1>2 DEF Rows
  <2> HIDE DEF c
  <2>3. Release(c) = c \/ Release(c) = FreeRow(c.gen)
    BY DEF Release
  <2> QED
    BY <1>1, <1>4, <2>1, <2>2, <2>3 DEF Lessens, FreeRow, Visible
<1>5. CASE s = t /\ ~Visible(t)
  <2> DEFINE d == [r EXCEPT !.phase = "Invisible"]
             c == [d EXCEPT !.proofs = @ \ r.proofs]
  <2>1. row'[s] = Without(d, r.proofs)
    BY <1>5 DEF Poll, TableInv, TableType
  <2>2. Without(d, r.proofs) = Release(c)
    BY DEF Without
  <2> HIDE DEF r
  <2>3. c.phase = "Invisible" /\ c.op = "none" /\ c.msg = row[t].msg /\ c.key = row[t].key
    BY <1>2 DEF Rows
  <2> HIDE DEF c
  <2>4. Release(c) = c \/ Release(c) = FreeRow(c.gen)
    BY DEF Release
  <2> QED
    BY <1>1, <1>5, <2>1, <2>2, <2>3, <2>4 DEF Lessens, FreeRow
<1> QED
  BY <1>3, <1>4, <1>5

LEMMA PolledStep ==
  ASSUME TableInv, StoreInv,
         \/ \E s \in Slots : Poll(s)
         \/ \E i \in Pool : Expire(i) \/ Drain(i)
         \/ \E r \in air : Ends(r)
         \/ \E p \in Proofs : DropLink(p)
         \/ StopAdmissions
  PROVE  StoreInv' /\ \A s \in Slots : Lessens(row[s], row'[s])
<1>1. jobs' = jobs /\ fenced' = fenced /\ records' = records
  BY DEF Poll, Expire, Retire, Drain, Ends, DropLink, StopAdmissions
<1>s. StoreType' /\ NoneCut
  BY <1>1 DEF StoreInv, StoreType, JobType, RecordsType, NoneCut, Stands, StandsNext
<1>2. \A s \in Slots : Lessens(row[s], row'[s])
  <2>1. CASE \E s \in Slots : Poll(s)
    BY <2>1, PollLessens
  <2>2. CASE \E i \in Pool : Drain(i)
    BY <2>2, RowsIdle, SameLessens DEF Drain
  <2>3. CASE StopAdmissions
    <3> DEFINE hit == {s \in Slots : Used(s)}
    <3>1. row' = Hidden(hit) /\ \A s \in hit : s \in Slots /\ Used(s)
      BY <2>3 DEF StopAdmissions
    <3> HIDE DEF hit
    <3> QED
      BY <3>1, HideLessens
  <2>4. CASE \/ \E i \in Pool : Expire(i)
             \/ \E r \in air : Ends(r)
             \/ \E p \in Proofs : DropLink(p)
    <3>1. \E gone \in {{i} : i \in Pool} \cup {IF Known(r) THEN {r.slot} ELSE {} : r \in air}
                      \cup {{i \in Pool : receipt[i].state # "Free" /\ receipt[i].proof = p} : p \in Proofs} :
            row' = RowsWithout(gone)
      BY <2>4 DEF Expire, Retire, Ends, DropLink
    <3> QED
      BY <3>1, RetireLessens
  <2> QED
    BY <2>1, <2>2, <2>3, <2>4
<1> QED
  BY <1>1, <1>s, <1>2, FrameStep

-----------------------------------------------------------------------------
LEMMA DroppedStep ==
  ASSUME TableInv, StoreInv, NEW m \in Messages, DropPeer(m)
  PROVE  StoreInv' /\ \A s \in Slots : Lessens(row[s], row'[s])
<1> DEFINE hit == {s \in Slots : Used(s) /\ row[s].msg \in OfPeer(m)}
           j   == Job(-1, "Delete", m, 0)
<1>1. row' = Hidden(hit) /\ (\A s \in hit : s \in Slots /\ Used(s)) /\ jobs' = Append(jobs, j)
      /\ (\A k \in DOMAIN jobs : jobs[k].op = "Create") /\ fenced' = {Peer[m]} /\ records' = records
  BY DEF DropPeer, Deleting
<1>2. j \in Jobs /\ j.op = "Delete" /\ j.msg = m
  BY DEF Job, Jobs
<1>3. \A s \in Slots : s \in hit <=> Used(s) /\ Peer[row[s].msg] = Peer[m]
  BY DEF OfPeer, StoreInv, FenceHolds
<1>4. \A s \in hit : row'[s].phase \in {"Free", "Invisible"}
  BY <1>1, RowsIdle, HiddenType DEF Hidden
<1> HIDE DEF hit, j
<1>5. \A s \in Slots : Lessens(row[s], row'[s])
  BY <1>1, HideLessens
<1>6. /\ JobType' /\ Len(jobs) \in Nat
      /\ DOMAIN jobs = 1 .. Len(jobs) /\ DOMAIN jobs' = 1 .. Len(jobs) + 1
      /\ jobs'[Len(jobs) + 1] = j /\ \A k \in DOMAIN jobs : jobs'[k] = jobs[k]
  BY <1>1, <1>2, JobAppended DEF StoreInv, StoreType
<1>7. \A k \in DOMAIN jobs' : Creates(k)' => k \in DOMAIN jobs /\ Creates(k) /\ jobs'[k] = jobs[k]
  BY <1>2, <1>6 DEF Creates
<1>8. \A k \in DOMAIN jobs' : Removes(k)' => k = Len(jobs) + 1
  BY <1>1, <1>2, <1>6 DEF Removes, StoreInv, FenceHolds
<1>9. CreatesMatch'
  BY <1>5, <1>7 DEF StoreInv, CreatesMatch, Lessens, Used
<1>10. FenceHolds'
  <2>1. \A s \in Slots : Used(s)' => Used(s) /\ row'[s].msg = row[s].msg
    BY <1>5 DEF Lessens, Used
  <2>2. \A s \in Slots : Used(s)' /\ Peer[row'[s].msg] \in fenced' => row'[s].phase = "Invisible"
    BY <1>1, <1>3, <1>4, <2>1 DEF Used
  <2>3. \A k \in DOMAIN jobs' : Removes(k)' => Peer[jobs'[k].msg] \in fenced'
    BY <1>1, <1>2, <1>6, <1>8
  <2>4. \A s \in Slots : Used(s)' => row'[s].msg \in Messages
    BY <2>1 DEF StoreInv, FenceHolds
  <2> QED
    BY <1>8, <2>2, <2>3, <2>4 DEF FenceHolds
<1>11. CommittedKept' /\ RecordsType'
  BY <1>1, <1>5 DEF StoreInv, StoreType, RecordsType, CommittedKept, Kept, Stands, StandsNext, Lessens, Used
<1> QED
  BY <1>5, <1>6, <1>9, <1>10, <1>11 DEF StoreInv, StoreType

(* The deletion of a record touches neither rows nor conversations.        *)
LEMMA DroppedRecord ==
  ASSUME TableInv, StoreInv, NEW n \in DOMAIN records, DropRecord(n)
  PROVE  StoreInv' /\ row' = row
<1> DEFINE j == Job(-1, "Erase", records[n].msg, n)
<1>1. row' = row /\ jobs' = Append(jobs, j) /\ fenced' = fenced /\ records' = records
  BY DEF DropRecord, delivery
<1>2. j \in Jobs /\ j.op = "Erase"
  BY RecordAt DEF Job, Jobs, StoreInv, StoreType, Record
<1> HIDE DEF j
<1>3. /\ JobType' /\ Len(jobs) \in Nat
      /\ DOMAIN jobs = 1 .. Len(jobs) /\ DOMAIN jobs' = 1 .. Len(jobs) + 1
      /\ jobs'[Len(jobs) + 1] = j /\ \A k \in DOMAIN jobs : jobs'[k] = jobs[k]
  BY <1>1, <1>2, JobAppended DEF StoreInv, StoreType
<1>4. \A k \in DOMAIN jobs' : Creates(k)' \/ Removes(k)' => k \in DOMAIN jobs /\ jobs'[k] = jobs[k]
  BY <1>2, <1>3 DEF Creates, Removes
<1>5. CreatesMatch'
  BY <1>1, <1>4 DEF StoreInv, CreatesMatch, Creates, Used
<1>6. FenceHolds'
  BY <1>1, <1>4 DEF StoreInv, FenceHolds, Removes, Used
<1>7. CommittedKept' /\ RecordsType'
  BY <1>1 DEF StoreInv, StoreType, RecordsType, CommittedKept, Kept, Stands, StandsNext, Used
<1> QED
  BY <1>1, <1>3, <1>5, <1>6, <1>7 DEF StoreInv, StoreType

(* The worker answers a creation to the row that waits for it.             *)
LEMMA AnsweredStep ==
  ASSUME TableInv, StoreInv, Work, Head(jobs).op = "Create"
  PROVE  StoreInv' /\ \A s \in Slots : row'[s].phase = row[s].phase /\ row'[s].msg = row[s].msg
<1> DEFINE job == jobs[1]
           s0  == job.slot
<1>1. /\ JobType' /\ 1 \in DOMAIN jobs /\ Head(jobs) = job /\ job \in Jobs
      /\ \A k \in DOMAIN jobs' : k + 1 \in DOMAIN jobs /\ k + 1 # 1 /\ jobs'[k] = jobs[k + 1]
      /\ \A k, l \in DOMAIN jobs' : k # l => k + 1 # l + 1
  BY JobTaken DEF Work, StoreInv, StoreType
<1> HIDE DEF job
<1>2. \A k \in DOMAIN jobs' : /\ Creates(k)' <=> Creates(k + 1)
                              /\ Removes(k)' <=> Removes(k + 1)
  BY <1>1 DEF Creates, Removes
<1>3. job.op = "Create" /\ job.msg \in Messages
  BY <1>1 DEF Jobs
<1>4. Creates(1) /\ s0 \in Slots /\ Used(s0) /\ row[s0].op = "waiting" /\ row[s0].msg = job.msg
  BY <1>1, <1>3 DEF Creates, StoreInv, CreatesMatch, job
<1>5. PICK e \in {"Committed", "Failed"}, n \in Nat :
        /\ row' = [row EXCEPT ![s0] = [@ EXCEPT !.op = e, !.key = n]] /\ fenced' = fenced
        /\ e = "Committed" => StandsNext(n, job.msg)
        /\ RecordsType' /\ NoneCut
  <2>1. CASE Repeats(job) \/ Adds(job)
    <3>1. /\ Follows /\ NoneCut
          /\ \E k \in Nat : Answers(job, "Committed", k) /\ StandsNext(k, job.msg)
      BY <1>3, <2>1, CreateStep DEF StoreInv, StoreType, NoneCut
    <3>2. fenced' = fenced
      BY <1>1, <1>3, <2>1 DEF Work, CarriesOut, FailsJob
    <3> QED
      BY <1>3, <3>1, <3>2 DEF Answers, Follows
  <2>2. CASE FailsJob(job)
    BY <1>3, <2>2 DEF FailsJob, Answers, StoreInv, StoreType, RecordsType, NoneCut, Stands, StandsNext
  <2> QED
    BY <1>1, <1>3, <2>1, <2>2 DEF Work, CarriesOut
<1>6. row[s0] \in Rows /\ DOMAIN row = Slots
  BY <1>4, RowsIdle DEF TableInv, TableType
<1>7. /\ row'[s0].op = e /\ row'[s0].key = n /\ row'[s0].phase = row[s0].phase /\ row'[s0].msg = row[s0].msg
      /\ \A s \in Slots \ {s0} : row'[s] = row[s]
  BY <1>4, <1>5, <1>6 DEF Rows
<1> HIDE DEF s0
<1>8. \A s \in Slots : row'[s].phase = row[s].phase /\ row'[s].msg = row[s].msg
  BY <1>7
<1>9. \A k \in DOMAIN jobs' : Creates(k)' => jobs'[k].slot \in Slots \ {s0}
  BY <1>1, <1>2, <1>4 DEF StoreInv, CreatesMatch, job, s0
<1>10. CreatesMatch'
  <2>1. \A k \in DOMAIN jobs' : Creates(k)' =>
          /\ jobs'[k].slot \in Slots /\ Used(jobs[k].slot)'
          /\ row'[jobs'[k].slot].op = "waiting" /\ row'[jobs'[k].slot].msg = jobs'[k].msg
    BY <1>1, <1>2, <1>7, <1>9 DEF StoreInv, CreatesMatch, Used
  <2>2. \A k, l \in DOMAIN jobs' : Creates(k)' /\ Creates(l)' /\ k # l => jobs'[k].slot # jobs'[l].slot
    BY <1>1, <1>2 DEF StoreInv, CreatesMatch
  <2> QED
    BY <2>1, <2>2 DEF CreatesMatch
<1>11. FenceHolds'
  <2>1. \A k \in DOMAIN jobs' : Removes(k)' => Peer[jobs'[k].msg] \in fenced'
    BY <1>1, <1>2, <1>5 DEF StoreInv, FenceHolds
  <2>2. \A k, l \in DOMAIN jobs' : Removes(k)' /\ Removes(l)' => k = l
    BY <1>1, <1>2 DEF StoreInv, FenceHolds
  <2> QED
    BY <1>5, <1>8, <2>1, <2>2 DEF StoreInv, FenceHolds, Used
<1>12. CommittedKept'
  <2>1. ASSUME NEW s \in Slots, s # s0
        PROVE  /\ row'[s].phase = "Committed" => StandsNext(row'[s].key, row'[s].msg) /\ row'[s].op = "none"
               /\ row'[s].op = "Committed" /\ row'[s].phase # "Invisible" => StandsNext(row'[s].key, row'[s].msg)
               /\ row'[s].phase = "Free" => row'[s].op = "none"
    <3>1. row'[s] = row[s]
      BY <1>7, <2>1
    <3>2. Stands(row[s].key, row[s].msg) => StandsNext(row'[s].key, row'[s].msg)
      BY <1>5, <3>1 DEF NoneCut
    <3> QED
      BY <3>1, <3>2 DEF StoreInv, CommittedKept, Kept, Used
  <2>2. row[s0].phase # "Committed" /\ row[s0].phase # "Free"
    BY <1>4 DEF StoreInv, CommittedKept, Used
  <2>3. row'[s0].op = "Committed" => StandsNext(row'[s0].key, row'[s0].msg)
    BY <1>4, <1>5, <1>7
  <2> QED
    BY <1>7, <2>1, <2>2, <2>3 DEF CommittedKept, Kept, Used, Stands, StandsNext
<1> QED
  BY <1>1, <1>5, <1>8, <1>10, <1>11, <1>12 DEF StoreInv, StoreType

(* It carries out a deletion, which no row notices: those of the           *)
(* conversation are invisible by now.                                      *)
LEMMA DeletedStep ==
  ASSUME TableInv, StoreInv, Work, Head(jobs).op # "Create"
  PROVE  StoreInv' /\ row' = row
<1> DEFINE job == jobs[1]
<1>1. /\ JobType' /\ 1 \in DOMAIN jobs /\ Head(jobs) = job /\ job \in Jobs
      /\ \A k \in DOMAIN jobs' : k + 1 \in DOMAIN jobs /\ k + 1 # 1 /\ jobs'[k] = jobs[k + 1]
      /\ \A k, l \in DOMAIN jobs' : k # l => k + 1 # l + 1
  BY JobTaken DEF Work, StoreInv, StoreType
<1> HIDE DEF job
<1>2. \A k \in DOMAIN jobs' : /\ Creates(k)' <=> Creates(k + 1)
                              /\ Removes(k)' <=> Removes(k + 1)
  BY <1>1 DEF Creates, Removes
<1>3. job.op # "Create" /\ job.msg \in Messages
  BY <1>1 DEF Jobs
<1>4. row' = row
  BY <1>1, <1>3 DEF Work, CarriesOut, FailsJob, Answers, Erases, CutsOff
<1>5. CreatesMatch'
  BY <1>1, <1>2, <1>4 DEF StoreInv, CreatesMatch, Used
<1>6. CASE job.op = "Delete"
  <2>1. Removes(1) /\ Peer[job.msg] \in fenced
    BY <1>1, <1>6 DEF Removes, StoreInv, FenceHolds, job
  <2>2. fenced' = fenced \ {Peer[job.msg]}
    BY <1>1, <1>6 DEF Work, CarriesOut, FailsJob
  <2>3. /\ RecordsType'
        /\ \A k, m : Stands(k, m) /\ Peer[m] # Peer[job.msg] => StandsNext(k, m)
    <3>1. CASE CutsOff(job)
      <4>1. RecordsType
        BY DEF StoreInv, StoreType
      <4>2. Follows /\ \A k \in DOMAIN records : Peer[records[k].msg] # Peer[job.msg] => records'[k] = records[k]
        BY <1>3, <3>1, <4>1, CutStep DEF CutsOff
      <4> QED
        BY <4>2 DEF Stands, StandsNext, Follows
    <3>2. CASE FailsJob(job)
      BY <3>2 DEF FailsJob, StoreInv, StoreType, RecordsType, Stands, StandsNext
    <3> QED
      BY <1>1, <1>6, <3>1, <3>2 DEF Work, CarriesOut
  <2>4. \A k \in DOMAIN jobs' : ~Removes(k)'
    BY <1>1, <1>2, <2>1 DEF StoreInv, FenceHolds
  <2>5. FenceHolds'
    BY <1>4, <2>2, <2>4 DEF StoreInv, FenceHolds, Used
  <2>6. CommittedKept'
    <3>1. \A s \in Slots : Used(s) /\ row[s].phase # "Invisible" => Peer[row[s].msg] # Peer[job.msg]
      BY <2>1 DEF StoreInv, FenceHolds
    <3>2. \A s \in Slots :
            /\ row[s].phase = "Committed" => StandsNext(row'[s].key, row'[s].msg) /\ row[s].op = "none"
            /\ row[s].op = "Committed" /\ row[s].phase # "Invisible" => StandsNext(row'[s].key, row'[s].msg)
            /\ row[s].phase = "Free" => row[s].op = "none"
      BY <1>4, <2>3, <3>1 DEF StoreInv, CommittedKept, Used, Kept
    <3> QED
      BY <1>4, <3>2 DEF CommittedKept, Used, Kept, Stands, StandsNext
  <2> QED
    BY <1>1, <1>4, <1>5, <2>3, <2>5, <2>6 DEF StoreInv, StoreType
<1>7. CASE job.op = "Erase"
  <2>1. fenced' = fenced /\ RecordsType' /\ NoneCut
    <3>1. CASE Erases(job)
      <4>1. Follows /\ NoneCut
        BY <3>1, TakeStep DEF Erases, StoreInv, StoreType, NoneCut
      <4> QED
        BY <1>1, <1>7, <4>1 DEF Work, CarriesOut, FailsJob, Follows
    <3>2. CASE FailsJob(job)
      BY <1>7, <3>2 DEF FailsJob, StoreInv, StoreType, RecordsType, NoneCut, Stands, StandsNext
    <3> QED
      BY <1>1, <1>7, <3>1, <3>2 DEF Work, CarriesOut
  <2>2. FenceHolds'
    BY <1>1, <1>2, <1>4, <2>1 DEF StoreInv, FenceHolds, Used
  <2>3. CommittedKept'
    BY <1>4, <2>1 DEF StoreInv, CommittedKept, Kept, NoneCut, Used, Stands, StandsNext
  <2> QED
    BY <1>1, <1>4, <1>5, <2>1, <2>2, <2>3 DEF StoreInv, StoreType
<1> QED
  BY <1>1, <1>3, <1>4, <1>6, <1>7 DEF Jobs

LEMMA WorkedStep ==
  ASSUME TableInv, StoreInv, Work
  PROVE  StoreInv' /\ \A s \in Slots : row'[s].phase = row[s].phase /\ row'[s].msg = row[s].msg
BY AnsweredStep, DeletedStep

(* A message that is received: into its row, or into a free row with a job *)
(* that no other row has.                                                  *)
LEMMA AcceptedStep ==
  ASSUME TableInv, StoreInv, NEW m \in Messages, NEW p \in Proofs, Accept(m, p)
  PROVE  StoreInv' /\ \A s \in Slots : Used(s) => row'[s].msg = row[s].msg
<1>1. PICK s0 \in RowFor(m) :
        /\ Used(s0) \/ Admits(m)
        /\ \E i \in NewReceipt(s0) : row' = [row EXCEPT ![s0] = Received(s0, m, FALSE, {i})]
        /\ jobs' = Queued(s0, m)
  BY DEF Accept
<1>2. PICK i \in Pool : row' = [row EXCEPT ![s0] = Received(s0, m, FALSE, {i})]
  BY <1>1 DEF NewReceipt, First, FreeReceipts
<1>3. s0 \in Slots /\ fenced' = fenced /\ records' = records
  BY DEF RowFor, Sharing, FreeRows, First, Accept
<1>r. RecordsType' /\ NoneCut
  BY <1>3 DEF StoreInv, StoreType, RecordsType, NoneCut, Stands, StandsNext
<1>4. row[s0] \in Rows /\ row'[s0] = Received(s0, m, FALSE, {i}) /\ \A s \in Slots \ {s0} : row'[s] = row[s]
  BY <1>2, <1>3, RowsIdle DEF TableInv, TableType
<1>5. CASE Used(s0)
  <2> DEFINE r == row[s0]
             q == [r EXCEPT !.held = @ \/ FALSE, !.proofs = @ \cup {i}]
  <2>1. row'[s0] = q
    BY <1>4, <1>5 DEF Received
  <2>2. r \in Rows
    BY <1>4
  <2> HIDE DEF r
  <2>3. q.phase = r.phase /\ q.op = r.op /\ q.msg = r.msg /\ q.key = r.key
    BY <2>2 DEF Rows
  <2> HIDE DEF q
  <2>4. Lessens(r, q)
    BY <1>5, <2>2, <2>3 DEF Lessens, Rows, Phases, Ops, r, Used
  <2>5. \A s \in Slots \ {s0} : Lessens(row[s], row'[s])
    BY <1>4, RowsIdle, SameLessens
  <2>6. \A s \in Slots : Lessens(row[s], row'[s])
    BY <2>1, <2>4, <2>5 DEF r
  <2>7. jobs' = jobs
    BY <1>1, <1>5 DEF Queued
  <2>8. StoreInv'
    BY <1>3, <1>r, <2>6, <2>7, FrameStep DEF StoreInv, StoreType, JobType
  <2>9. row'[s0].msg = row[s0].msg
    BY <2>1, <2>3 DEF r
  <2> QED
    BY <1>4, <2>8, <2>9
<1>6. CASE ~Used(s0)
  <2> DEFINE j == Job(s0, "Create", m, 0)
  <2>1. /\ row'[s0].phase = "AwaitStore" /\ row'[s0].op = "waiting" /\ row'[s0].msg = m
        /\ Peer[m] \notin fenced /\ jobs' = Append(jobs, j)
    BY <1>1, <1>4, <1>6 DEF Received, Queued, Admits
  <2>2. j \in Jobs /\ j.op = "Create" /\ j.msg = m /\ j.slot = s0
    BY <1>3 DEF Job, Jobs
  <2> HIDE DEF j
  <2>3. /\ JobType' /\ Len(jobs) \in Nat
        /\ DOMAIN jobs = 1 .. Len(jobs) /\ DOMAIN jobs' = 1 .. Len(jobs) + 1
        /\ jobs'[Len(jobs) + 1] = j /\ \A k \in DOMAIN jobs : jobs'[k] = jobs[k]
    BY <2>1, <2>2, JobAppended DEF StoreInv, StoreType
  <2>4. \A k \in DOMAIN jobs' : k = Len(jobs) + 1 \/ k \in DOMAIN jobs
    BY <2>3
  <2>5. \A k \in DOMAIN jobs : /\ jobs'[k] = jobs[k]
                               /\ Creates(k) => jobs[k].slot \in Slots \ {s0}
    BY <1>6, <2>3 DEF StoreInv, CreatesMatch
  <2>6. CreatesMatch'
    <3>1. ASSUME NEW k \in DOMAIN jobs', Creates(k)'
          PROVE  /\ jobs'[k].slot \in Slots /\ row'[jobs'[k].slot].phase # "Free"
                 /\ row'[jobs'[k].slot].op = "waiting" /\ row'[jobs'[k].slot].msg = jobs'[k].msg
      <4>1. CASE k = Len(jobs) + 1
        BY <1>3, <2>1, <2>2, <2>3, <4>1
      <4>2. CASE k \in DOMAIN jobs
        BY <1>4, <2>5, <3>1, <4>2 DEF Creates, StoreInv, CreatesMatch, Used
      <4> QED
        BY <2>4, <4>1, <4>2
    <3>2. \A k, l \in DOMAIN jobs' : Creates(k)' /\ Creates(l)' /\ k # l => jobs'[k].slot # jobs'[l].slot
      BY <2>2, <2>3, <2>4, <2>5 DEF Creates, StoreInv, CreatesMatch
    <3> QED
      BY <3>1, <3>2 DEF CreatesMatch, Used
  <2>7. FenceHolds'
    <3>1. \A k \in DOMAIN jobs' : Removes(k)' => k \in DOMAIN jobs /\ Removes(k) /\ jobs'[k] = jobs[k]
      BY <2>2, <2>3, <2>4 DEF Removes
    <3>2. \A s \in Slots : Used(s)' => row'[s].msg \in Messages
      BY <1>4, <2>1 DEF StoreInv, FenceHolds, Used
    <3>3. \A s \in Slots : Used(s)' /\ Peer[row'[s].msg] \in fenced' => row'[s].phase = "Invisible"
      BY <1>3, <1>4, <2>1 DEF StoreInv, FenceHolds, Used
    <3> QED
      BY <1>3, <3>1, <3>2, <3>3 DEF StoreInv, FenceHolds
  <2>8. CommittedKept'
    BY <1>3, <1>4, <2>1 DEF StoreInv, CommittedKept, Kept, Stands, StandsNext, Used
  <2> QED
    BY <1>4, <1>6, <1>r, <2>3, <2>6, <2>7, <2>8 DEF StoreInv, StoreType
<1> QED
  BY <1>5, <1>6

-----------------------------------------------------------------------------
(* No receipt goes back to an earlier use, and within a use it keeps its   *)
(* row; so what the interfaces hold still says what it was made for.       *)
Carries == \A i \in Pool :
  /\ receipt[i].gen <= receipt'[i].gen
  /\ receipt'[i].state # "Free" /\ receipt'[i].gen = receipt[i].gen =>
       receipt[i].state # "Free" /\ receipt'[i].owner = receipt[i].owner

LEMMA AirStep ==
  ASSUME TableInv, TableInv', AirMatches, Carries,
         \A s \in Slots : Used(s) /\ row'[s].phase # "Free" => row'[s].msg = row[s].msg,
         NEW i \in Pool, air' \subseteq air \cup {InAir(i)}
  PROVE  AirMatches'
<1> SUFFICES ASSUME NEW r \in air'
    PROVE  /\ r.slot \in Pool /\ r.gen \in Nat /\ r.gen <= receipt'[r.slot].gen
           /\ receipt'[r.slot].state # "Free" /\ receipt'[r.slot].gen = r.gen =>
                r.msg = row'[receipt'[r.slot].owner.slot].msg
  BY DEF AirMatches, Known
<1>1. \A k \in Pool : receipt[k].gen \in Nat /\ receipt'[k].gen \in Nat
  BY DEF TableInv, TableType, Receipts
<1>2. /\ r.slot \in Pool /\ r.gen \in Nat /\ r.gen <= receipt[r.slot].gen
      /\ receipt[r.slot].state # "Free" /\ receipt[r.slot].gen = r.gen =>
           r.msg = row[receipt[r.slot].owner.slot].msg
  <2>1. CASE r \in air
    BY <2>1 DEF AirMatches, Known
  <2>2. CASE r = InAir(i)
    BY <1>1, <2>2 DEF InAir
  <2> QED
    BY <2>1, <2>2
<1>3. r.gen <= receipt'[r.slot].gen
  BY <1>1, <1>2 DEF Carries
<1>4. ASSUME receipt'[r.slot].state # "Free", receipt'[r.slot].gen = r.gen
      PROVE  r.msg = row'[receipt'[r.slot].owner.slot].msg
  <2>1. receipt'[r.slot].gen = receipt[r.slot].gen
    BY <1>1, <1>2, <1>4 DEF Carries
  <2>2. receipt[r.slot].state # "Free" /\ receipt'[r.slot].owner = receipt[r.slot].owner
    BY <1>2, <1>4, <2>1 DEF Carries
  <2> DEFINE o == receipt[r.slot].owner.slot
  <2>3. r.msg = row[o].msg
    BY <1>2, <1>4, <2>1, <2>2
  <2>4. o \in Slots /\ Used(o)
    BY <1>2, <2>2 DEF TableInv, OwnersLive, Refers
  <2>5. row'[o].phase # "Free"
    BY <1>2, <1>4, <2>2 DEF TableInv, OwnersLive, Refers, Used
  <2> QED
    BY <2>2, <2>3, <2>4, <2>5
<1> QED
  BY <1>2, <1>3, <1>4

LEMMA RetiredCarries == ASSUME TableInv, NEW gone, receipt' = Retired(gone) PROVE Carries
  BY DEF Carries, Retired, FreeReceipt, TableInv, TableType, Receipts

LEMMA StepCarries ==
  ASSUME TableInv, IncomingNext, ~Restart
  PROVE  Carries
<1>1. CASE \E m \in Messages, p \in Proofs : Accept(m, p)
  <2>1. PICK m \in Messages, p \in Proofs : Accept(m, p)
    BY <1>1
  <2>2. PICK s \in RowFor(m) : \E i \in NewReceipt(s) :
          receipt' = [receipt EXCEPT ![i] =
            [gen |-> @.gen + 1, state |-> IF row[s].phase = "Committed" THEN "Eligible" ELSE "Reserved",
             owner |-> [slot |-> s, gen |-> row'[s].gen], proof |-> p]]
    BY <2>1 DEF Accept
  <2>3. PICK i \in NewReceipt(s) :
          receipt' = [receipt EXCEPT ![i] =
            [gen |-> @.gen + 1, state |-> IF row[s].phase = "Committed" THEN "Eligible" ELSE "Reserved",
             owner |-> [slot |-> s, gen |-> row'[s].gen], proof |-> p]]
    BY <2>2
  <2>4. i \in Pool
    BY DEF NewReceipt, First, FreeReceipts
  <2>5. receipt'[i].gen = receipt[i].gen + 1 /\ \A k \in Pool \ {i} : receipt'[k] = receipt[k]
    BY <2>3, <2>4 DEF TableInv, TableType
  <2>6. \A k \in Pool : receipt[k].gen \in Nat
    BY DEF TableInv, TableType, Receipts
  <2> QED
    BY <2>4, <2>5, <2>6 DEF Carries
<1>2. CASE \E s \in Slots : Poll(s)
  <2>1. PICK s \in Slots : Poll(s)
    BY <1>2
  <2>2. CASE \E gone : receipt' = Retired(gone)
    BY <2>2, RetiredCarries
  <2>3. CASE \E S : receipt' = [k \in Pool |-> IF k \in S THEN [receipt[k] EXCEPT !.state = "Eligible"] ELSE receipt[k]]
                    /\ \A k \in Pool : k \in S => receipt[k].state # "Free"
    BY <2>3 DEF Carries, TableInv, TableType, Receipts
  <2>4. \A k \in Pool : k \in row[s].proofs => receipt[k].state # "Free"
    BY DEF TableInv, RowsAccounted
  <2>5. [row[s] EXCEPT !.op = "none"].proofs = row[s].proofs
    BY DEF TableInv, TableType, Rows
  <2> QED
    BY <2>1, <2>2, <2>3, <2>4, <2>5 DEF Poll
<1>3. CASE \E i \in Pool : Drain(i)
  BY <1>3 DEF Drain, Carries, TableInv, TableType, Receipts
<1>4. CASE \/ \E i \in Pool : Expire(i)
           \/ \E r \in air : Ends(r)
           \/ \E p \in Proofs : DropLink(p)
           \/ \E m \in Messages : DropPeer(m)
           \/ StopAdmissions
  <2>1. \E gone : receipt' = Retired(gone)
    BY <1>4 DEF Expire, Retire, Ends, DropLink, DropPeer, DropProofs, StopAdmissions
  <2> QED
    BY <2>1, RetiredCarries
<1>5. CASE Work \/ \E k \in DOMAIN records : DropRecord(k) \/ Reclaim(k)
  <2>1. receipt' = receipt
    BY <1>5 DEF Work, DropRecord, Reclaim, delivery
  <2> QED
    BY <2>1 DEF Carries, TableInv, TableType, Receipts
<1> QED
  BY <1>1, <1>2, <1>3, <1>4, <1>5 DEF IncomingNext, Transport

-----------------------------------------------------------------------------
KeptInv == TableInv /\ StoreInv /\ AirMatches

LEMMA KeptStep == KeptInv /\ [IncomingNext]_incoming => KeptInv'
<1> SUFFICES ASSUME KeptInv, [IncomingNext]_incoming PROVE KeptInv'
  OBVIOUS
<1>1. TableInv /\ TableInv' /\ StoreInv /\ AirMatches
  BY TableStep DEF KeptInv, StoreInv
<1>2. CASE Restart
  <2>1. /\ row' = [s \in Slots |-> FreeRow(0)] /\ jobs' = <<>> /\ fenced' = {} /\ air' = {}
    BY <1>2 DEF Restart
  <2>2. \A s \in Slots : row'[s].phase = "Free" /\ row'[s].op = "none"
    BY <2>1 DEF FreeRow
  <2>3. StoreType' /\ DOMAIN jobs' = {}
    BY <1>1, <2>1, StoreStep DEF StoreInv
  <2>4. CreatesMatch' /\ FenceHolds' /\ CommittedKept'
    BY <2>2, <2>3 DEF CreatesMatch, FenceHolds, CommittedKept, Used
  <2> QED
    BY <1>1, <2>1, <2>3, <2>4 DEF KeptInv, StoreInv, AirMatches
<1>3. CASE UNCHANGED incoming
  <2>1. /\ row' = row /\ receipt' = receipt /\ air' = air /\ jobs' = jobs /\ fenced' = fenced
        /\ records' = records
    BY <1>3 DEF incoming, delivery
  <2> QED
    BY <1>1, <2>1 DEF KeptInv, StoreInv, StoreType, JobType, RecordsType, CreatesMatch, FenceHolds,
                      CommittedKept, AirMatches, Creates, Removes, Kept, Stands, Known, Used
<1>4. CASE IncomingNext /\ ~Restart
  <2>1. StoreInv' /\ \A s \in Slots : Used(s) /\ row'[s].phase # "Free" => row'[s].msg = row[s].msg
    <3>1. CASE \E m \in Messages, p \in Proofs : Accept(m, p)
      BY <1>1, <3>1, AcceptedStep
    <3>2. CASE Work
      BY <1>1, <3>2, WorkedStep
    <3>3. CASE \E m \in Messages : DropPeer(m)
      BY <1>1, <3>3, DroppedStep DEF Lessens
    <3>4. CASE \/ \E s \in Slots : Poll(s)
               \/ \E i \in Pool : Expire(i) \/ Drain(i)
               \/ \E r \in air : Ends(r)
               \/ \E p \in Proofs : DropLink(p)
               \/ StopAdmissions
      BY <1>1, <3>4, PolledStep DEF Lessens
    <3>5. CASE \E k \in DOMAIN records : DropRecord(k)
      BY <1>1, <3>5, DroppedRecord
    <3>6. CASE \E k \in DOMAIN records : Reclaim(k)
      <4>1. PICK k \in DOMAIN records, at \in {"evicted", "lost"} : records[k].at = "flash" /\ Put(k, at)
        BY <3>6 DEF Reclaim
      <4>2. row' = row /\ jobs' = jobs /\ fenced' = fenced /\ StoreType'
        BY <1>1, <1>4, <3>6, StoreStep DEF Reclaim, delivery, StoreInv
      <4>3. NoneCut
        BY <1>1, <4>1, TakeStep DEF StoreInv, StoreType, OnMedium, NoneCut
      <4> QED
        BY <1>1, <4>2, <4>3, RowsIdle, SameLessens, FrameStep
    <3> QED
      BY <1>4, <3>1, <3>2, <3>3, <3>4, <3>5, <3>6 DEF IncomingNext, Transport
  <2>2. CASE \E i \in Pool : Drain(i)
    <3>1. PICK i \in Pool : air' = air \cup {InAir(i)}
      BY <2>2 DEF Drain
    <3> QED
      BY <1>1, <1>4, <2>1, <3>1, AirStep, StepCarries DEF KeptInv
  <2>3. CASE air' \subseteq air
    <3>1. CASE Pool = {}
      BY <1>1, <2>1, <2>3, <3>1 DEF AirMatches, KeptInv
    <3>2. CASE Pool # {}
      <4>1. PICK i \in Pool : air' \subseteq air \cup {InAir(i)}
        BY <2>3, <3>2
      <4> QED
        BY <1>1, <1>4, <2>1, <4>1, AirStep, StepCarries DEF KeptInv
    <3> QED
      BY <3>1, <3>2
  <2> QED
    BY <1>4, <2>2, <2>3 DEF IncomingNext, Transport, Accept, Poll, Expire, Retire, Ends, DropLink, DropPeer,
                            StopAdmissions, Work, DropRecord, Reclaim, delivery
<1> QED
  BY <1>2, <1>3, <1>4

(* A proof that may still be transmitted stands for a record of its        *)
(* message that was committed after the last deletion of the conversation  *)
(* (RustIncomingDelivery.cpp): for any number of messages, records, rows,  *)
(* receipts and links, whatever fails, is evicted or restarts.             *)
THEOREM ProofsKept == IncomingSpec => []ProofMeansStored
<1>1. Init => KeptInv
  <2> SUFFICES ASSUME Init PROVE KeptInv
    OBVIOUS
  <2>1. /\ row = [s \in Slots |-> FreeRow(0)] /\ jobs = <<>> /\ fenced = {} /\ air = {}
    BY DEF Init
  <2>2. \A s \in Slots : row[s].phase = "Free" /\ row[s].op = "none"
    BY <2>1 DEF FreeRow
  <2>3. StoreType /\ DOMAIN jobs = {}
    BY <2>1, EmptySeq DEF Init, StoreType, JobType, RecordsType
  <2>4. CreatesMatch /\ FenceHolds /\ CommittedKept
    BY <2>2, <2>3 DEF CreatesMatch, FenceHolds, CommittedKept, Used
  <2> QED
    BY <2>1, <2>3, <2>4, TableInit DEF KeptInv, StoreInv, AirMatches
<1>2. KeptInv => ProofMeansStored
  <2> DEFINE o(r) == receipt[r.slot].owner.slot
  <2> SUFFICES ASSUME KeptInv, NEW r \in air, ReceiptLive(r) PROVE Stands(row[o(r)].key, r.msg)
    BY DEF ProofMeansStored
  <2>1. Known(r) /\ o(r) \in Slots /\ row[o(r)].phase = "Committed"
    BY DEF ReceiptLive, Refers
  <2>2. r.msg = row[o(r)].msg
    BY <2>1 DEF KeptInv, AirMatches
  <2> QED
    BY <2>1, <2>2 DEF KeptInv, StoreInv, CommittedKept, Kept
<1> QED
  BY <1>1, <1>2, KeptStep, PTL DEF IncomingSpec
=============================================================================

----------------------- MODULE PropagationInboxProofs -----------------------
(***************************************************************************)
(* Theorems about PropagationInbox, for any number of rows, receipts,      *)
(* messages and nodes and any bounds of a cycle.                           *)
(*                                                                         *)
(* A purge is permitted only by a result of the store: the result names an *)
(* operation of the stage the cycle is in, that operation put the record   *)
(* on flash, and no step of the store takes a record back to where it was  *)
(* before that.                                                            *)
(*                                                                         *)
(* The table of rows stays consistent under the inbox's own steps, so that *)
(* no row but the one the inbox holds can be marked as held, and every end *)
(* of a cycle lets go of exactly that row.                                 *)
(***************************************************************************)
EXTENDS PropagationInbox, IncomingDeliveryProofs

(* An operation or a result of the store belongs to the stage of the       *)
(* cycle, or to a cycle that only waits for it.                            *)
InboxStages ==
  /\ storage # "none" => stage \in {"Load", "Write", "Clear", "Drain"}
  /\ storage \in {"Load", "Write", "Clear"} => stage \in {storage, "Drain"}

(* What permits a purge, at each place the permission is kept.             *)
SafeToPurge ==
  /\ stage \in {"Purge", "PurgeWait"} => Permits(journal.key, journal.msg)
  /\ storage = "Committed" /\ stage = "Load" => Permits(file.key, file.msg)
  /\ storage = "Committed" /\ stage = "Write" => Permits(journal.key, journal.msg)
  /\ \A q \in asked : Permits(q.key, q.msg)

RelayType == relay \in [Nodes -> SUBSET Messages]

PurgeInv == StoreType /\ InboxStages /\ SafeToPurge /\ RelayType /\ PurgedAreKept

(* The store's own jobs and the reclaim, as the inbox lets them pass.      *)
Around == Transport \/ Work \/ \E k \in DOMAIN records : DropRecord(k) \/ Reclaim(k)

LEMMA AroundStep ==
  ASSUME Around \/ StopAdmissions \/ Restart \/ (\E m \in Messages : DropPeer(m)) \/ UNCHANGED incoming
  PROVE  [IncomingNext]_incoming
BY DEF Around, IncomingNext

(* The purge operations put a record on flash and touch no other.          *)
LEMMA SecuredStep ==
  ASSUME StoreType, NEW e, Secured(e)
  PROVE  Follows /\ e.key \in DOMAIN records' /\ records'[e.key].msg = e.msg /\ records'[e.key].at = "flash"
<1>1. e.key \in DOMAIN records /\ records[e.key].msg = e.msg /\ Put(e.key, "flash")
  BY DEF Secured, Readable
<1>2. "flash" \in Places /\ RecordsType
  BY DEF Places, OnMedium, StoreType
<1> QED
  BY <1>1, <1>2, PutStep DEF Follows

LEMMA InboxStore ==
  ASSUME StoreType, RelayType, node \in Nodes, [Next]_vars
  PROVE  StoreType' /\ Follows
<1>1. CASE Around \/ Stop \/ Reboot \/ (\E m \in Messages : Delete(m)) \/ UNCHANGED incoming
  BY <1>1, AroundStep, StoreStep DEF Stop, Reboot, Delete
<1>2. CASE StoreWorks
  <2>1. jobs' = jobs /\ (records' = records \/ \E e : Secured(e))
    BY <1>2 DEF StoreWorks, LoadPurge, WritePurge, ClearPurge
  <2>2. Follows
    BY <2>1, SecuredStep, SameRecords
  <2> QED
    BY <2>1, <2>2 DEF StoreType, JobType, Follows
<1>3. CASE OnFetched
  <2>1. records' = records /\ (jobs' = jobs \/ (journal.msg \in relay[node] /\ \E s \in RowFor(journal.msg) : AcceptHeld(s)))
    BY <1>3 DEF OnFetched
  <2>2. ASSUME NEW s \in RowFor(journal.msg), AcceptHeld(s), journal.msg \in relay[node]
        PROVE  jobs' = jobs \/ \E j \in Jobs : jobs' = Append(jobs, j)
    <3>1. s \in Slots /\ journal.msg \in Messages
      BY <2>2 DEF RowFor, Sharing, FreeRows, First, RelayType
    <3>2. Job(s, "Create", journal.msg, 0) \in Jobs
      BY <3>1 DEF Job, Jobs
    <3> QED
      BY <2>2, <3>2 DEF AcceptHeld, Queued
  <2> QED
    BY <2>1, <2>2, SameRecords
<1>4. CASE Begin \/ Request \/ SettleStorage \/ CommitCheck \/ Ask \/ OnList \/ OnPurged \/ Abandon
           \/ TimeOver \/ \E q \in asked : NodePurges(q)
  <2>1. records' = records /\ jobs' = jobs
    BY <1>4 DEF Begin, Request, SettleStorage, CommitCheck, Ask, OnList, OnPurged, Abandon, TimeOver,
                NodePurges, Elsewhere, incoming
  <2> QED
    BY <2>1, SameRecords
<1> QED
  BY <1>1, <1>2, <1>3, <1>4 DEF Next, Inbox, Around, vars

(* What permits a purge goes on doing so.                                  *)
PermitsNext(k, m) == k \in DOMAIN records' /\ records'[k].msg = m /\ records'[k].at # "card"

LEMMA PermitStays ==
  ASSUME PurgeInv, node \in Nodes, [Next]_vars
  PROVE  \A k, m : Permits(k, m) => PermitsNext(k, m)
BY InboxStore DEF PurgeInv, Permits, PermitsNext, Follows

LEMMA StagesStep == InboxStages /\ [Next]_vars => InboxStages'
<1> SUFFICES ASSUME InboxStages, [Next]_vars PROVE InboxStages'
  OBVIOUS
<1> USE DEF InboxStages
<1>1. CASE Begin \/ Request \/ CommitCheck \/ OnList \/ Ask
  BY <1>1 DEF Begin, Request, CommitCheck, Ask, OnList, Enter, Finish, Finished, InTime, Busy
<1>2. CASE SettleStorage
  BY <1>2 DEF SettleStorage
<1>3. CASE OnFetched \/ OnPurged \/ Abandon
  BY <1>3 DEF OnFetched, AcceptHeld, Skip, NextItem, Finish, OnPurged, Discard, Abandon, Finished, Busy
<1>4. CASE StoreWorks
  BY <1>4 DEF StoreWorks, LoadPurge, WritePurge, ClearPurge
<1>5. CASE TimeOver \/ Reboot
  BY <1>5 DEF TimeOver, Reboot
<1>6. CASE Stop \/ \E m \in Messages : Delete(m)
  BY <1>6 DEF Stop, Delete, Finished, Affected
<1>7. CASE UNCHANGED <<stage, storage>>
  BY <1>7
<1>8. CASE (\E q \in asked : NodePurges(q)) \/ (Around /\ UNCHANGED <<cycle, remote>>)
  BY <1>7, <1>8 DEF NodePurges, cycle
<1> QED
  BY <1>1, <1>2, <1>3, <1>4, <1>5, <1>6, <1>7, <1>8 DEF Next, Inbox, Around, vars, cycle

(* Each place a permission comes from: a load or a write of the store that *)
(* found or put the message on flash, and the settlement of its result.    *)
SafeToPurgeNext ==
  /\ stage' \in {"Purge", "PurgeWait"} => PermitsNext(journal'.key, journal'.msg)
  /\ storage' = "Committed" /\ stage' = "Load" => PermitsNext(file'.key, file'.msg)
  /\ storage' = "Committed" /\ stage' = "Write" => PermitsNext(journal'.key, journal'.msg)
  /\ \A q \in asked' : PermitsNext(q.key, q.msg)

LEMMA PermitStep == PurgeInv /\ node \in Nodes /\ [Next]_vars => SafeToPurge'
<1> SUFFICES ASSUME PurgeInv, node \in Nodes, [Next]_vars PROVE SafeToPurgeNext
  BY DEF SafeToPurge, SafeToPurgeNext, Permits, PermitsNext
<1>s. \A k, m : Permits(k, m) => PermitsNext(k, m)
  BY PermitStays
<1> USE DEF PurgeInv, InboxStages, SafeToPurge, SafeToPurgeNext
<1>1. CASE UNCHANGED <<stage, journal, storage, file, asked>>
  BY <1>1, <1>s
<1>2. CASE Begin \/ Request \/ CommitCheck \/ OnList
  BY <1>2, <1>s DEF Begin, Request, CommitCheck, OnList, Enter, Finish, Finished, InTime, Busy,
     Elsewhere, remote, item
<1>3. CASE Ask
  BY <1>3, <1>s DEF Ask, Enter, InTime, Elsewhere, Entry
<1>4. CASE OnFetched \/ OnPurged \/ Abandon
  BY <1>4, <1>s DEF OnFetched, AcceptHeld, Skip, NextItem, Finish, OnPurged, Discard, Abandon,
     Finished, Busy, Elsewhere, remote
<1>5. CASE SettleStorage
  <2>1. storage' = "none" /\ asked' = asked /\ file' = file
    BY <1>5 DEF SettleStorage, Elsewhere
  <2>2. ASSUME stage' \in {"Purge", "PurgeWait"} PROVE PermitsNext(journal'.key, journal'.msg)
    <3>1. CASE stage = "Load" /\ SettleLoad
      BY <1>5, <1>s, <2>1, <2>2, <3>1 DEF SettleStorage, SettleLoad, NextItem, Finish, Finished, Loaded
    <3>2. CASE stage = "Write" /\ SettleWrite
      BY <1>5, <1>s, <2>1, <2>2, <3>2 DEF SettleStorage, SettleWrite, Finish, Finished
    <3>3. CASE stage \in {"Clear", "Drain"}
      BY <1>5, <2>2, <3>3 DEF SettleStorage, SettleClear, SettleDrain, NextItem, Finish, Finished
    <3> QED
      BY <1>5, <3>1, <3>2, <3>3 DEF SettleStorage
  <2> QED
    BY <1>s, <2>1, <2>2
<1>6. CASE StoreWorks
  <2>1. UNCHANGED <<stage, journal, asked>>
    BY <1>6 DEF StoreWorks, item
  <2>2. \A e : Secured(e) => PermitsNext(e.key, e.msg)
    BY SecuredStep DEF PermitsNext
  <2>3. ASSUME storage' = "Committed", stage = "Load" PROVE PermitsNext(file'.key, file'.msg)
    BY <1>6, <2>2, <2>3 DEF StoreWorks, LoadPurge, WritePurge, ClearPurge
  <2>4. ASSUME storage' = "Committed", stage = "Write" PROVE PermitsNext(journal'.key, journal'.msg)
    BY <1>6, <2>1, <2>2, <2>4 DEF StoreWorks, LoadPurge, WritePurge, ClearPurge, Entry
  <2> QED
    BY <1>s, <2>1, <2>3, <2>4
<1>7. CASE TimeOver \/ Reboot
  BY <1>7, <1>s DEF TimeOver, Reboot, Finished, item, remote
<1>8. CASE Stop \/ \E m \in Messages : Delete(m)
  BY <1>8, <1>s DEF Stop, Delete, Finished, Affected, remote
<1>9. CASE \E q \in asked : NodePurges(q)
  BY <1>9, <1>s DEF NodePurges, cycle, item
<1>10. CASE Around /\ UNCHANGED <<cycle, remote>>
  BY <1>1, <1>10 DEF cycle, item, remote
<1> QED
  BY <1>1, <1>2, <1>3, <1>4, <1>5, <1>6, <1>7, <1>8, <1>9, <1>10 DEF Next, Inbox, Around, vars, cycle, item, remote

(* A node deletes only what it was asked to.                               *)
LEMMA RelayStep == PurgeInv /\ node \in Nodes /\ [Next]_vars => RelayType' /\ PurgedAreKept'
<1> SUFFICES ASSUME PurgeInv, node \in Nodes, [Next]_vars PROVE RelayType' /\ PurgedAreKept'
  OBVIOUS
<1>s. \A k, m : Permits(k, m) => PermitsNext(k, m)
  BY PermitStays
<1>a. asked \subseteq asked'
  BY DEF Next, Inbox, vars, cycle, item, remote, Begin, Request, SettleStorage, CommitCheck, Ask, OnList,
     OnFetched, OnPurged, Abandon, Elsewhere, StoreWorks, TimeOver, Stop, Delete, Reboot, NodePurges
<1>b. ASSUME \A n \in Nodes : \A m \in Relays[n] \ relay'[n] :
               \E q \in asked : q.node = n /\ q.msg = m /\ Permits(q.key, m)
      PROVE  PurgedAreKept'
  BY <1>a, <1>b, <1>s DEF PurgedAreKept, Permits, PermitsNext
<1>1. CASE \E q \in asked : NodePurges(q)
  <2>1. PICK q \in asked : q.msg \in relay[q.node] /\ relay' = [relay EXCEPT ![q.node] = @ \ {q.msg}]
    BY <1>1 DEF NodePurges
  <2>2. Permits(q.key, q.msg)
    BY DEF PurgeInv, SafeToPurge
  <2>3. RelayType' /\ \A n \in Nodes : relay'[n] = IF n = q.node THEN relay[n] \ {q.msg} ELSE relay[n]
    BY <2>1 DEF PurgeInv, RelayType
  <2>4. \A n \in Nodes : \A m \in Relays[n] \ relay'[n] :
          \E p \in asked : p.node = n /\ p.msg = m /\ Permits(p.key, m)
    <3> SUFFICES ASSUME NEW n \in Nodes, NEW m \in Relays[n] \ relay'[n]
        PROVE \E p \in asked : p.node = n /\ p.msg = m /\ Permits(p.key, m)
      OBVIOUS
    <3>1. CASE m \in relay[n]
      BY <2>2, <2>3, <3>1
    <3>2. CASE m \notin relay[n]
      BY <3>2 DEF PurgeInv, PurgedAreKept
    <3> QED
      BY <3>1, <3>2
  <2> QED
    BY <1>b, <2>3, <2>4
<1>2. CASE UNCHANGED relay
  BY <1>2, <1>b DEF PurgeInv, RelayType, PurgedAreKept
<1>3. ~(\E q \in asked : NodePurges(q)) => UNCHANGED relay
  BY DEF Next, Inbox, vars, cycle, item, remote, Begin, Request, SettleStorage, CommitCheck, Ask, OnList,
     OnFetched, OnPurged, Abandon, Elsewhere, StoreWorks, TimeOver, Stop, Delete, Reboot
<1> QED
  BY <1>1, <1>2, <1>3

LEMMA PurgeInit == InboxInit => PurgeInv
<1> SUFFICES ASSUME InboxInit PROVE PurgeInv
  OBVIOUS
<1>1. RelayType /\ PurgedAreKept
  BY InboxAssumption DEF InboxInit, RelayType, Nodes, PurgedAreKept
<1>2. InboxStages /\ SafeToPurge
  BY DEF InboxInit, InboxStages, SafeToPurge
<1>3. StoreType
  BY EmptySeq DEF InboxInit, Init, StoreType, JobType, RecordsType
<1> QED
  BY <1>1, <1>2, <1>3 DEF PurgeInv

LEMMA PurgeStep == PurgeInv /\ node \in Nodes /\ [Next]_vars => PurgeInv'
BY InboxStore, StagesStep, PermitStep, RelayStep DEF PurgeInv

LEMMA NodeStep == node \in Nodes /\ [Next]_vars => node' \in Nodes
BY DEF Next, Inbox, vars, cycle, Begin, Request, SettleStorage, CommitCheck, Ask, OnList, OnFetched,
   OnPurged, Abandon, StoreWorks, TimeOver, Stop, Delete, Reboot, First, NodePurges

(* A node deletes a message only on the permission of a record of it that  *)
(* had reached flash (RustPropagationInbox.cpp, MessageTransactions.cpp):  *)
(* whatever is lost, restarted, deleted or evicted before or after.        *)
THEOREM PurgesOnlyKept == Spec => []PurgedAreKept
<1>1. PurgeInv /\ node \in Nodes => PurgedAreKept
  BY DEF PurgeInv
<1>2. InboxInit => PurgeInv /\ node \in Nodes
  BY PurgeInit DEF InboxInit, First
<1>3. (PurgeInv /\ node \in Nodes) /\ [Next]_vars => (PurgeInv /\ node \in Nodes)'
  BY PurgeStep, NodeStep
<1> QED
  BY <1>1, <1>2, <1>3, PTL DEF Spec

-----------------------------------------------------------------------------
(* The row the inbox holds.                                                *)
HeldOnce ==
  \A s \in Slots : row[s].held =>
    /\ Used(s) /\ hold = Ref(s) /\ stage \in {"Commit", "Write"}
    /\ row[s].msg = journal.msg /\ journal.msg \in Messages

NoneHeld == \A s \in Slots : ~row[s].held

HoldInv == PurgeInv /\ node \in Nodes /\ TableInv /\ HeldOnce

(* The inbox lets go of the row it holds.                                  *)
LEMMA LetGoStep ==
  ASSUME TableInv, HeldOnce, row' = LetGo(hold), receipt' = receipt
  PROVE  TableInv' /\ NoneHeld'
<1>t. row \in [Slots -> Rows] /\ receipt \in [Pool -> Receipts]
  BY DEF TableInv, TableType
<1>1. CASE hold = NoRow \/ ~Refers(hold)
  <2>1. row' = row
    BY <1>1 DEF LetGo
  <2>2. TableInv'
    BY <2>1 DEF TableInv, TableType, OwnersLive, RowsAccounted, Refers, Used, Ref
  <2>3. ASSUME NEW s \in Slots, row[s].held PROVE FALSE
    <3>1. hold = Ref(s) /\ Used(s)
      BY <2>3 DEF HeldOnce
    <3>2. Ref(s).slot = s /\ Ref(s).gen = row[s].gen /\ NoRow.slot = -1
      BY DEF Ref, NoRow
    <3>3. s # -1
      BY IncomingAssumption DEF Slots
    <3> QED
      BY <1>1, <3>1, <3>2, <3>3 DEF Refers
  <2> QED
    BY <2>1, <2>2, <2>3 DEF NoneHeld
<1>2. CASE ~(hold = NoRow \/ ~Refers(hold))
  <2>1. PICK s \in Slots : s = hold.slot /\ Used(s)
    BY <1>2 DEF Refers
  <2> DEFINE c == [row[s] EXCEPT !.held = FALSE]
             q == Release(c)
  <2>2. row' = [row EXCEPT ![s] = q]
    BY <1>2, <2>1 DEF LetGo
  <2>3. row[s] \in Rows
    BY <1>t
  <2>4. c \in Rows /\ c.gen = row[s].gen /\ c.proofs = row[s].proofs /\ c.phase = row[s].phase /\ ~c.held
    BY <2>3 DEF Rows
  <2> HIDE DEF c
  <2>5. /\ q \in Rows /\ q.gen = row[s].gen /\ q.proofs = row[s].proofs /\ ~q.held
        /\ q.phase # "Free" => q.op # "none" \/ q.proofs # {} \/ q.held
        /\ q.proofs # {} => q.phase # "Free"
    <3>1. q = c \/ (q = FreeRow(c.gen) /\ c.proofs = {})
      BY DEF Release
    <3>2. q = c => c.op # "none" \/ c.proofs # {} \/ c.phase = "Free"
      BY <2>4 DEF Release, FreeRow, Rows
    <3>3. q \in Rows /\ q.gen = c.gen
      BY <2>4, ReleaseType
    <3> HIDE DEF q
    <3> QED
      BY <2>1, <2>4, <3>1, <3>2, <3>3 DEF FreeRow, Used
  <2> HIDE DEF q
  <2>6. \A i \in q.proofs : i \in Pool /\ receipt[i].state # "Free"
    BY <2>3, <2>5 DEF Rows, TableInv, RowsAccounted
  <2>7. receipt' \in [Pool -> Receipts] /\ receipt' = receipt
    BY <1>t
  <2>8. TableInv'
    <3>1. \A i \in Pool \ row[s].proofs : receipt'[i] = receipt[i]
      BY <2>7
    <3>2. \A i \in row[s].proofs \ q.proofs : receipt'[i].state = "Free"
      BY <2>5
    <3>3. \A i \in q.proofs : receipt'[i].state # "Free" /\ receipt'[i].owner = receipt[i].owner
      BY <2>6, <2>7
    <3>4. q.proofs \subseteq row[s].proofs
      BY <2>5
    <3> QED
      BY <2>1, <2>2, <2>5, <2>7, <3>1, <3>2, <3>3, <3>4, SettleStep
  <2>9. ASSUME NEW t \in Slots, row'[t].held PROVE FALSE
    <3>1. t # s /\ row'[t] = row[t]
      BY <1>t, <2>2, <2>5, <2>9
    <3>2. hold = Ref(t)
      BY <2>9, <3>1 DEF HeldOnce
    <3> QED
      BY <2>1, <3>1, <3>2 DEF Ref
  <2> QED
    BY <2>8, <2>9 DEF NoneHeld
<1> QED
  BY <1>1, <1>2

(* A fetched message is received into a row that the inbox then holds.     *)
LEMMA AcceptHeldStep ==
  ASSUME TableInv, HeldOnce, stage = "FetchWait", receipt' = receipt,
         NEW s \in RowFor(journal.msg), AcceptHeld(s), journal.msg \in Messages
  PROVE  TableInv' /\ HeldOnce'
<1>t. row \in [Slots -> Rows] /\ receipt \in [Pool -> Receipts]
  BY DEF TableInv, TableType
<1>s. s \in Slots
  BY DEF RowFor, Sharing, FreeRows, First
<1>n. NoneHeld
  BY DEF HeldOnce, NoneHeld
<1> DEFINE q == Received(s, journal.msg, TRUE, {})
<1>r. row[s] \in Rows /\ row' = [row EXCEPT ![s] = q]
  BY <1>t, <1>s DEF AcceptHeld
<1>1. CASE Used(s)
  <2> DEFINE r == row[s]
  <2>1. q = [r EXCEPT !.held = @ \/ TRUE, !.proofs = @ \cup {}] /\ r.msg = journal.msg
    <3>1. s \in Sharing(journal.msg)
      BY <1>1 DEF RowFor, FreeRows, First
    <3> QED
      BY <1>1, <3>1 DEF Received, Sharing
  <2>2. r \in Rows
    BY <1>r
  <2> HIDE DEF r, q
  <2>3. /\ q \in Rows /\ q.gen = r.gen /\ q.proofs = r.proofs /\ q.held /\ q.phase = r.phase
        /\ q.msg = r.msg
    <3>1. (r.held \/ TRUE) = TRUE /\ r.proofs \cup {} = r.proofs
      OBVIOUS
    <3> QED
      BY <2>1, <2>2, <3>1 DEF Rows
  <2>4. q.phase # "Free" /\ q.msg = journal.msg /\ q.gen = row[s].gen /\ q.proofs = row[s].proofs
    BY <1>1, <2>1, <2>3 DEF r, Used
  <2>5. \A i \in q.proofs : i \in Pool /\ receipt[i].state # "Free"
    BY <1>s, <2>2, <2>3 DEF Rows, TableInv, RowsAccounted, r
  <2>6. receipt' \in [Pool -> Receipts] /\ receipt' = receipt
    BY <1>t
  <2>7. TableInv'
    <3>1. \A i \in Pool \ row[s].proofs : receipt'[i] = receipt[i]
      BY <2>6
    <3>2. \A i \in row[s].proofs \ q.proofs : receipt'[i].state = "Free"
      BY <2>4
    <3>3. \A i \in q.proofs : receipt'[i].state # "Free" /\ receipt'[i].owner = receipt[i].owner
      BY <2>5, <2>6
    <3>4. q.proofs \subseteq row[s].proofs /\ (q.phase # "Free" => q.op # "none" \/ q.proofs # {} \/ q.held)
      BY <2>3, <2>4
    <3> QED
      BY <1>s, <1>r, <2>3, <2>4, <2>6, <3>1, <3>2, <3>3, <3>4, SettleStep
  <2>8. row'[s] = q /\ \A t \in Slots \ {s} : ~row'[t].held
    BY <1>t, <1>s, <1>r, <1>n DEF NoneHeld
  <2>9. hold' = Ref(s)' /\ stage' = "Commit" /\ journal'.msg = journal.msg
    BY DEF AcceptHeld, Ref
  <2> QED
    BY <2>4, <2>7, <2>8, <2>9 DEF HeldOnce, Used
<1>2. CASE ~Used(s)
  <2> DEFINE w == [gen |-> row[s].gen + 1, phase |-> "AwaitStore", msg |-> journal.msg,
                   op |-> "waiting", key |-> 0, held |-> TRUE, proofs |-> {}]
  <2>1. q = w
    BY <1>2 DEF Received
  <2> HIDE DEF q
  <2>2. q \in Rows /\ q.phase = "AwaitStore" /\ q.msg = journal.msg /\ q.proofs = {} /\ q.held
    <3>1. row[s].gen + 1 \in Nat
      BY <1>r DEF Rows
    <3>2. w \in Rows
      BY <3>1 DEF Rows, Phases, Ops
    <3>3. w.phase = "AwaitStore" /\ w.msg = journal.msg /\ w.proofs = {} /\ w.held
      OBVIOUS
    <3> HIDE DEF w
    <3> QED
      BY <2>1, <3>2, <3>3
  <2>3. row'[s] = q /\ \A t \in Slots \ {s} : row'[t] = row[t]
    BY <1>t, <1>s, <1>r
  <2>4. \A i \in Pool : receipt[i].state # "Free" => receipt[i].owner.slot # s
    BY <1>2 DEF TableInv, OwnersLive, Refers
  <2>5. TableType'
    BY <1>t, <1>s, <1>r, <2>2 DEF TableType
  <2>6. OwnersLive'
    <3> SUFFICES ASSUME NEW i \in Pool, receipt[i].state # "Free" PROVE Refers(receipt[i].owner)'
      BY DEF OwnersLive
    <3>1. Refers(receipt[i].owner) /\ receipt[i].owner.slot # s
      BY <2>4 DEF TableInv, OwnersLive
    <3> QED
      BY <2>3, <3>1 DEF Refers, Used
  <2>7. RowsAccounted'
    <3>1. \A t \in Slots : Used(t)' => row'[t].op # "none" \/ row'[t].proofs # {} \/ row'[t].held
      BY <2>2, <2>3 DEF TableInv, RowsAccounted, Used
    <3>2. ASSUME NEW i \in Pool
          PROVE  i \in row'[s].proofs <=> receipt'[i].state # "Free" /\ receipt'[i].owner = Ref(s)' /\ Used(s)'
      <4>1. Ref(s)'.slot = s
        BY DEF Ref
      <4> QED
        BY <2>2, <2>3, <2>4, <4>1
    <3>3. ASSUME NEW t \in Slots \ {s}, NEW i \in Pool
          PROVE  i \in row'[t].proofs <=> receipt'[i].state # "Free" /\ receipt'[i].owner = Ref(t)' /\ Used(t)'
      BY <2>3 DEF TableInv, RowsAccounted, Ref, Used
    <3> QED
      BY <3>1, <3>2, <3>3 DEF RowsAccounted
  <2>8. \A t \in Slots \ {s} : ~row'[t].held
    BY <2>3, <1>n DEF NoneHeld
  <2>9. hold' = Ref(s)' /\ stage' = "Commit" /\ journal'.msg = journal.msg
    BY DEF AcceptHeld, Ref
  <2> QED
    BY <2>2, <2>3, <2>5, <2>6, <2>7, <2>8, <2>9 DEF HeldOnce, Used, TableInv
<1> QED
  BY <1>1, <1>2

(* The steps of IncomingDelivery hold no row, and keep the one that is.    *)
KeepsHeld(r, q) == q.held =>
  /\ r.held /\ q.gen = r.gen /\ q.msg = r.msg
  /\ r.phase # "Free" => q.phase # "Free"

LEMMA ReleaseKeeps ==
  ASSUME NEW r \in Rows, NEW q \in Rows, KeepsHeld(r, q)
  PROVE  KeepsHeld(r, Release(q))
BY DEF KeepsHeld, Release, FreeRow

LEMMA SameKeeps == ASSUME NEW r PROVE KeepsHeld(r, r)
BY DEF KeepsHeld

LEMMA WithoutKeeps ==
  ASSUME NEW r \in Rows, NEW gone
  PROVE  KeepsHeld(r, Without(r, gone))
<1> DEFINE q == [r EXCEPT !.proofs = @ \ gone]
<1>1. q \in Rows /\ q.gen = r.gen /\ q.msg = r.msg /\ q.phase = r.phase /\ q.held = r.held
  BY DEF Rows
<1>2. Without(r, gone) = Release(q)
  BY DEF Without
<1> HIDE DEF q
<1> QED
  BY <1>1, <1>2, ReleaseKeeps DEF KeepsHeld

LEMMA TransportKeeps ==
  ASSUME TableInv, StoreType, Around
  PROVE  \A s \in Slots : KeepsHeld(row[s], row'[s])
<1>t. row \in [Slots -> Rows]
  BY DEF TableInv, TableType
<1> SUFFICES ASSUME NEW s \in Slots PROVE KeepsHeld(row[s], row'[s])
  OBVIOUS
<1>s. row[s] \in Rows
  BY <1>t
<1>1. CASE row' = row
  BY <1>1, SameKeeps
<1>2. CASE \E gone : row' = RowsWithout(gone)
  BY <1>2, <1>s, SameKeeps, WithoutKeeps DEF RowsWithout
<1>3. CASE Work
  <2>1. \A job, e, k : Answers(job, e, k) =>
          row'[s] = row[s] \/ row'[s] = [row[s] EXCEPT !.op = e, !.key = k]
    BY <1>t DEF Answers
  <2>2. row' = row \/ \E job, e, k : Answers(job, e, k)
    BY <1>3 DEF Work, CarriesOut, Repeats, Adds, Erases, CutsOff, FailsJob
  <2>3. ASSUME NEW e, NEW k, row'[s] = [row[s] EXCEPT !.op = e, !.key = k]
        PROVE  KeepsHeld(row[s], row'[s])
    BY <1>s, <2>3 DEF KeepsHeld, Rows
  <2>4. CASE row' = row
    BY <2>4, SameKeeps
  <2>5. CASE \E job, e, k : Answers(job, e, k)
    <3>1. PICK job, e, k : Answers(job, e, k)
      BY <2>5
    <3> QED
      BY <2>1, <2>3, <3>1, SameKeeps
  <2> QED
    BY <2>2, <2>4, <2>5
<1>4. CASE \E s1 \in Slots : Poll(s1)
  <2>1. PICK s1 \in Slots : Poll(s1)
    BY <1>4
  <2>2. CASE s1 # s
    <3>1. row'[s] = row[s]
      BY <1>t, <2>1, <2>2 DEF Poll
    <3> QED
      BY <3>1, SameKeeps
  <2>3. CASE s1 = s
    <3> DEFINE c == [[row[s] EXCEPT !.op = "none"] EXCEPT !.phase = "Committed"]
               h == [[row[s] EXCEPT !.op = "none"] EXCEPT !.phase = "Invisible"]
    <3>1. \/ row'[s] = Release(c)
          \/ \E gone : row'[s] = Without(h, gone)
      BY <1>t, <2>1, <2>3 DEF Poll
    <3>2. /\ c \in Rows /\ c.gen = row[s].gen /\ c.msg = row[s].msg /\ c.held = row[s].held
          /\ c.phase = "Committed"
      BY <1>s DEF Rows, Phases, Ops
    <3>3. /\ h \in Rows /\ h.gen = row[s].gen /\ h.msg = row[s].msg /\ h.held = row[s].held
          /\ h.phase = "Invisible"
      BY <1>s DEF Rows, Phases, Ops
    <3> HIDE DEF c, h
    <3>4. KeepsHeld(row[s], Release(c))
      BY <1>s, <3>2, ReleaseKeeps DEF KeepsHeld
    <3>5. ASSUME NEW gone PROVE KeepsHeld(row[s], Without(h, gone))
      <4>1. KeepsHeld(h, Without(h, gone))
        BY <3>3, WithoutKeeps
      <4> QED
        BY <3>3, <4>1 DEF KeepsHeld
    <3> QED
      BY <3>1, <3>4, <3>5
  <2> QED
    BY <2>2, <2>3
<1>5. CASE \E m \in Messages, p \in Proofs : Accept(m, p)
  <2>1. PICK m \in Messages, p \in Proofs : Accept(m, p)
    BY <1>5
  <2>2. PICK s1 \in RowFor(m) :
          \E i \in NewReceipt(s1) : row' = [row EXCEPT ![s1] = Received(s1, m, FALSE, {i})]
    BY <2>1 DEF Accept
  <2>3. PICK i : row' = [row EXCEPT ![s1] = Received(s1, m, FALSE, {i})]
    BY <2>2
  <2>4. CASE s1 # s
    <3>1. row'[s] = row[s]
      BY <1>t, <2>3, <2>4
    <3> QED
      BY <3>1, SameKeeps
  <2>5. CASE s1 = s
    <3>1. row'[s] = Received(s, m, FALSE, {i})
      BY <1>t, <2>3, <2>5
    <3>2. CASE Used(s)
      <4> DEFINE q == [row[s] EXCEPT !.held = @ \/ FALSE, !.proofs = @ \cup {i}]
      <4>1. row'[s] = q
        BY <3>1, <3>2 DEF Received
      <4>2. q.gen = row[s].gen /\ q.msg = row[s].msg /\ q.phase = row[s].phase /\ (q.held => row[s].held)
        BY <1>s DEF Rows
      <4> HIDE DEF q
      <4> QED
        BY <4>1, <4>2 DEF KeepsHeld
    <3>3. CASE ~Used(s)
      BY <3>1, <3>3 DEF Received, KeepsHeld
    <3> QED
      BY <3>2, <3>3
  <2> QED
    BY <2>4, <2>5
<1>6. CASE \E i \in Pool : Expire(i) \/ Drain(i)
  BY <1>1, <1>2, <1>6 DEF Expire, Retire, Drain
<1>7. CASE \E r \in air : Ends(r)
  BY <1>2, <1>7 DEF Ends
<1>8. CASE \E p \in Proofs : DropLink(p)
  BY <1>2, <1>8 DEF DropLink
<1>9. CASE \E k \in DOMAIN records : DropRecord(k) \/ Reclaim(k)
  BY <1>1, <1>9 DEF DropRecord, Reclaim, delivery
<1> QED
  BY <1>3, <1>4, <1>5, <1>6, <1>7, <1>8, <1>9 DEF Transport, Around

(* Rows that are hidden are not held.                                      *)
LEMMA HiddenNotHeld ==
  ASSUME TableInv, NEW hit, row' = Hidden(hit)
  PROVE  \A s \in Slots : IF s \in hit THEN ~row'[s].held ELSE row'[s] = row[s]
<1> SUFFICES ASSUME NEW s \in Slots, s \in hit PROVE ~row'[s].held
  BY DEF Hidden
<1> DEFINE q == [row[s] EXCEPT !.phase = "Invisible", !.held = FALSE, !.proofs = {}]
<1>1. row'[s] = Release(q)
  BY DEF Hidden
<1>2. row[s] \in Rows
  BY DEF TableInv, TableType
<1>3. q.held = FALSE
  BY <1>2 DEF Rows
<1> HIDE DEF q
<1> QED
  BY <1>1, <1>3 DEF Release, FreeRow

(* What a step of the inbox or of the system around it is to the held row. *)
HoldSteps ==
  \/ Around /\ UNCHANGED cycle
  \/ \E m \in Messages : Delete(m)
  \/ StopAdmissions \/ Restart
  \/ row' = LetGo(hold) /\ receipt' = receipt
  \/ /\ stage = "FetchWait" /\ receipt' = receipt
     /\ journal.msg \in relay[node] /\ \E s \in RowFor(journal.msg) : AcceptHeld(s)
  \/ /\ UNCHANGED <<row, receipt>>
     /\ \/ stage \notin {"Commit", "Write"}
        \/ hold' = hold /\ journal'.msg = journal.msg /\ stage' \in {stage, "Write"}

LEMMA EveryHoldStep == ASSUME [Next]_vars PROVE HoldSteps
<1> USE DEF HoldSteps
<1>1. CASE UNCHANGED vars
  BY <1>1 DEF vars, cycle, incoming, delivery, item
<1>2. CASE Begin \/ Request \/ Ask \/ OnList
  BY <1>2 DEF Begin, Request, Ask, OnList, Elsewhere, incoming, delivery, item, Enter,
     Finish, Finished
<1>0. CASE CommitCheck
  <2>1. [journal EXCEPT !.key = row[hold.slot].key].msg = journal.msg
    OBVIOUS
  <2> QED
    BY <1>0, <2>1 DEF CommitCheck, Elsewhere, Finish
<1>3. CASE SettleStorage
  BY <1>3 DEF SettleStorage, SettleLoad, SettleWrite, SettleClear, SettleDrain, NextItem, Finish, Elsewhere
<1>4. CASE OnFetched
  BY <1>4 DEF OnFetched, Skip, NextItem, Finish, Elsewhere
<1>5. CASE OnPurged \/ Abandon
  BY <1>5 DEF OnPurged, Discard, Abandon, Elsewhere
<1>6. CASE StoreWorks \/ TimeOver
  BY <1>6 DEF StoreWorks, TimeOver, delivery, incoming, item
<1>7. CASE Stop \/ Reboot \/ \E m \in Messages : Delete(m)
  BY <1>7 DEF Stop, Reboot
<1>8. CASE \E q \in asked : NodePurges(q)
  BY <1>8 DEF NodePurges, incoming, delivery, cycle, item
<1>9. CASE Around /\ UNCHANGED <<cycle, remote>>
  BY <1>9
<1> QED
  BY <1>0, <1>1, <1>2, <1>3, <1>4, <1>5, <1>6, <1>7, <1>8, <1>9 DEF Next, Inbox, Around

LEMMA HoldStep == HoldInv /\ [Next]_vars => TableInv' /\ HeldOnce'
<1> SUFFICES ASSUME HoldInv, [Next]_vars PROVE TableInv' /\ HeldOnce'
  OBVIOUS
<1> USE DEF HoldInv
<1>n. NoneHeld' => HeldOnce'
  BY DEF NoneHeld, HeldOnce
<1>1. CASE Around /\ UNCHANGED cycle
  <2>1. TableInv'
    BY <1>1, AroundStep, TableStep DEF PurgeInv
  <2>2. \A s \in Slots : KeepsHeld(row[s], row'[s])
    BY <1>1, TransportKeeps DEF PurgeInv
  <2>3. HeldOnce'
    BY <1>1, <2>2 DEF KeepsHeld, HeldOnce, Used, Ref, cycle, item
  <2> QED
    BY <2>1, <2>3
<1>2. CASE \E m \in Messages : Delete(m)
  <2>1. PICK m \in Messages : Delete(m)
    BY <1>2
  <2>2. TableInv'
    BY <2>1, AroundStep, TableStep DEF PurgeInv, Delete
  <2> DEFINE hit == {s \in Slots : Used(s) /\ row[s].msg \in OfPeer(m)}
  <2>3. row' = Hidden(hit)
    BY <2>1 DEF Delete, DropPeer
  <2>4. \A s \in Slots : IF s \in hit THEN ~row'[s].held ELSE row'[s] = row[s]
    BY <2>3, HiddenNotHeld
  <2>5. CASE Affected(m)
    <3>1. \A s \in Slots : row[s].held => s \in hit
      BY <2>5 DEF Affected, HeldOnce, OfPeer
    <3> QED
      BY <1>n, <2>2, <2>4, <3>1 DEF NoneHeld
  <2>6. CASE ~Affected(m)
    <3>1. UNCHANGED <<stage, hold, journal>>
      BY <2>1, <2>6 DEF Delete
    <3>2. HeldOnce'
      BY <2>4, <3>1 DEF HeldOnce, Used, Ref
    <3> QED
      BY <2>2, <3>2
  <2> QED
    BY <2>5, <2>6
<1>3. CASE StopAdmissions
  <2>1. TableInv'
    BY <1>3, AroundStep, TableStep DEF PurgeInv
  <2> DEFINE hit == {s \in Slots : Used(s)}
  <2>2. row' = Hidden(hit)
    BY <1>3 DEF StopAdmissions
  <2>3. \A s \in Slots : IF s \in hit THEN ~row'[s].held ELSE row'[s] = row[s]
    BY <2>2, HiddenNotHeld
  <2>4. \A s \in Slots : row[s].held => s \in hit
    BY DEF HeldOnce
  <2> QED
    BY <1>n, <2>1, <2>3, <2>4 DEF NoneHeld
<1>4. CASE Restart
  <2>1. TableInv'
    BY <1>4, AroundStep, TableStep DEF PurgeInv
  <2> QED
    BY <1>n, <1>4, <2>1 DEF Restart, FreeRow, NoneHeld
<1>5. CASE row' = LetGo(hold) /\ receipt' = receipt
  BY <1>n, <1>5, LetGoStep
<1>6. CASE /\ stage = "FetchWait" /\ receipt' = receipt
           /\ journal.msg \in relay[node] /\ \E s \in RowFor(journal.msg) : AcceptHeld(s)
  <2>1. journal.msg \in Messages
    BY <1>6 DEF PurgeInv, RelayType
  <2> QED
    BY <1>6, <2>1, AcceptHeldStep
<1>7. CASE /\ UNCHANGED <<row, receipt>>
           /\ \/ stage \notin {"Commit", "Write"}
              \/ hold' = hold /\ journal'.msg = journal.msg /\ stage' \in {stage, "Write"}
  <2>1. TableInv'
    BY <1>7 DEF TableInv, TableType, OwnersLive, RowsAccounted, Refers, Used, Ref
  <2>2. HeldOnce'
    BY <1>7 DEF HeldOnce, Used, Ref
  <2> QED
    BY <2>1, <2>2
<1> QED
  BY <1>1, <1>2, <1>3, <1>4, <1>5, <1>6, <1>7, EveryHoldStep DEF HoldSteps

LEMMA HoldCorrect == Spec => []HoldInv
<1>1. InboxInit => HoldInv
  <2> SUFFICES ASSUME InboxInit PROVE HoldInv
    OBVIOUS
  <2>1. TableInv
    BY TableInit DEF InboxInit
  <2>2. HeldOnce
    BY DEF InboxInit, Init, FreeRow, HeldOnce
  <2>3. node \in Nodes
    BY DEF InboxInit, First
  <2> QED
    BY <2>1, <2>2, <2>3, PurgeInit DEF HoldInv
<1>2. HoldInv /\ [Next]_vars => HoldInv'
  BY PurgeStep, HoldStep, NodeStep DEF HoldInv
<1> QED
  BY <1>1, <1>2, PTL DEF Spec

(* A row is held by the inbox only while the inbox remembers it, whichever *)
(* way a cycle ends.                                                       *)
THEOREM HeldIsOurs == Spec => []HeldRowIsOurs
<1>1. HoldInv => HeldRowIsOurs
  BY DEF HoldInv, HeldOnce, HeldRowIsOurs
<1> QED
  BY <1>1, HoldCorrect, PTL
=============================================================================

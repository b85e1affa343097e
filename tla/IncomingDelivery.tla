-------------------------- MODULE IncomingDelivery --------------------------
(***************************************************************************)
(* protocol/RustIncomingDelivery.cpp: received messages between their      *)
(* arrival and the proof that tells the sender they are kept.  A message   *)
(* gets a row and a job for the store; every copy that asks for a proof    *)
(* gets a receipt of that row, which becomes eligible when the record is   *)
(* committed.  Deletion of the conversation, the end of a link and the     *)
(* stop take proofs back, wherever they are queued.                        *)
(*                                                                         *)
(* The store is followed record by record: a message that comes again      *)
(* finds its record, the user may delete a single record or the whole      *)
(* conversation, and the space reclaim may take any record off flash.      *)
(*                                                                         *)
(* The device task is one actor, the storage worker the other; a restart   *)
(* may come between any two steps.  Time is a choice.  Reactions, control  *)
(* packets and the reservations of arriving resources are left out.        *)
(***************************************************************************)
EXTENDS Integers, FiniteSets, Sequences

CONSTANTS RowCount, ReceiptCount, ReceiptsPerRow,
          Messages,            \* message ids, numbers
          Peer,                \* whose each message is
          Proofs,              \* the distinct proofs a copy may ask for, by link
          MaxGeneration,       \* stands for UINT32_MAX
          MaxRecords           \* stands for the last record counter

ASSUME IncomingAssumption ==
  RowCount \in Nat \ {0} /\ ReceiptCount \in Nat /\ ReceiptsPerRow \in Nat
  /\ Messages \subseteq Nat \ {0} /\ DOMAIN Peer = Messages /\ MaxGeneration \in Nat
  /\ MaxRecords \in Nat

Slots == 0 .. RowCount - 1
Pool  == 0 .. ReceiptCount - 1
First(S) == {x \in S : \A y \in S : x <= y}

VARIABLES
  row,        \* _rows
  receipt,    \* _receipts
  accepting,
  live,       \* the links that are still up
  air,        \* proofs the interfaces hold: [slot, gen, msg]
  jobs,       \* the store's jobs, in order
  fenced,     \* conversations whose deletion is queued
  records     \* by counter: whose message a record is, and what became of it

delivery == <<row, receipt, accepting, live, air>>
incoming == <<delivery, jobs, fenced, records>>

(* On flash; on the card alone, where it was created; taken off flash by   *)
(* the space reclaim, to the card or for good; deleted by its tombstone;   *)
(* at or below the cutoff of its deleted conversation.                     *)
OnMedium == {"flash", "card", "evicted"}
Places   == OnMedium \cup {"lost", "erased", "cut"}

FreeRow(gen) == [gen |-> gen, phase |-> "Free", msg |-> 0, op |-> "none", key |-> 0, held |-> FALSE, proofs |-> {}]
FreeReceipt(gen) == [gen |-> gen, state |-> "Free", owner |-> [slot |-> -1, gen |-> 0], proof |-> 0]

Init ==      \* begin()
  /\ row = [s \in Slots |-> FreeRow(0)] /\ receipt = [i \in Pool |-> FreeReceipt(0)]
  /\ accepting = TRUE /\ live = Proofs /\ air = {} /\ jobs = <<>> /\ fenced = {}
  /\ records = <<>>

Ref(s)      == [slot |-> s, gen |-> row[s].gen]
Used(s)     == row[s].phase # "Free"
Refers(ref) == ref.slot \in Slots /\ Used(ref.slot) /\ row[ref.slot].gen = ref.gen

(* releaseRow() and retireReceipt(): a row goes with its last reason.      *)
Release(r)   == IF r.op = "none" /\ r.proofs = {} /\ ~r.held THEN FreeRow(r.gen) ELSE r
Without(r, gone) == Release([r EXCEPT !.proofs = @ \ gone])
Retired(gone)    == [i \in Pool |-> IF i \in gone THEN FreeReceipt(receipt[i].gen) ELSE receipt[i]]
RowsWithout(gone) == [s \in Slots |-> IF row[s].proofs \cap gone = {} THEN row[s] ELSE Without(row[s], gone)]

(* receiptLive(): may this proof still be transmitted?  (It may also have  *)
(* grown too old.)                                                         *)
Known(r) == receipt[r.slot].state # "Free" /\ receipt[r.slot].gen = r.gen
ReceiptLive(r) ==
  LET x == receipt[r.slot] IN
  /\ accepting /\ Known(r) /\ x.state \in {"Eligible", "Queued"} /\ x.proof \in live
  /\ Refers(x.owner) /\ row[x.owner.slot].phase = "Committed"

-----------------------------------------------------------------------------
(* accept(): a message has arrived and may have a row already.             *)
Sharing(m)  == {s \in Slots : row[s].phase \notin {"Free", "Invisible"} /\ row[s].msg = m}
FreeRows    == {s \in Slots : ~Used(s) /\ row[s].gen < MaxGeneration}
RowFor(m)   == IF Sharing(m) # {} THEN Sharing(m) ELSE First(FreeRows)
Admits(m)   == Peer[m] \notin fenced                       \* the store's deletion fence

(* A new row with its job, or the existing row, each with what is added.   *)
Received(s, m, held, added) ==
  IF Used(s) THEN [row[s] EXCEPT !.held = @ \/ held, !.proofs = @ \cup added]
  ELSE [gen |-> row[s].gen + 1, phase |-> "AwaitStore", msg |-> m, op |-> "waiting", key |-> 0,
        held |-> held, proofs |-> added]
Job(s, op, m, k) == [slot |-> s, op |-> op, msg |-> m, key |-> k]
Queued(s, m)     == IF Used(s) THEN jobs ELSE Append(jobs, Job(s, "Create", m, 0))

Coalesced(s, p) == {i \in row[s].proofs : receipt[i].proof = p}
FreeReceipts    == {i \in Pool : receipt[i].state = "Free" /\ receipt[i].gen < MaxGeneration}
NewReceipt(s)   == IF Cardinality(row[s].proofs) >= ReceiptsPerRow THEN {} ELSE First(FreeReceipts)

(* A copy that can get no row or receipt, or whose message the store does  *)
(* not admit, is dropped; its sender repeats it.                           *)
Accept(m, p) ==
  /\ accepting /\ p \in live
  /\ \E s \in RowFor(m) :
       /\ Used(s) \/ Admits(m)
       /\ Coalesced(s, p) = {}
       /\ \E i \in NewReceipt(s) :
            /\ row' = [row EXCEPT ![s] = Received(s, m, FALSE, {i})]
            /\ receipt' = [receipt EXCEPT ![i] =
                 [gen |-> @.gen + 1, state |-> IF row[s].phase = "Committed" THEN "Eligible" ELSE "Reserved",
                  owner |-> [slot |-> s, gen |-> row'[s].gen], proof |-> p]]
       /\ jobs' = Queued(s, m)
  /\ UNCHANGED <<accepting, live, air, fenced, records>>

-----------------------------------------------------------------------------
(* The storage worker carries out the oldest job.  Any job may fail, one   *)
(* that was cancelled too, or it had begun and is carried out all the      *)
(* same.  A record is kept when either medium took it: the card may be out *)
(* or full at any time.                                                    *)
OfPeer(m)   == {n \in Messages : Peer[n] = Peer[m]}
Found(m)    == {k \in DOMAIN records : records[k].msg = m}
OnFlash(m)  == {k \in Found(m) : records[k].at \in {"flash", "erased"}}
OnCard(m)   == {k \in Found(m) : records[k].at \in {"card", "evicted"}}
Put(k, at)  == records' = [records EXCEPT ![k].at = at]
Answers(job, result, k) ==
  row' = IF job.op # "Create" THEN row ELSE [row EXCEPT ![job.slot] = [@ EXCEPT !.op = result, !.key = k]]

(* create(): the record of this very message, deleted or not, is met on    *)
(* flash first and then on the card, if that is in.  One that was deleted  *)
(* is answered as committed and stays deleted; another is written again.   *)
Repeats(job) ==
  \E k \in IF OnFlash(job.msg) # {} THEN OnFlash(job.msg) ELSE OnCard(job.msg) :
    /\ Answers(job, "Committed", k)
    /\ Put(k, records[k].at) \/ (records[k].at # "erased" /\ Put(k, "flash"))

Adds(job) ==
  /\ OnFlash(job.msg) = {} /\ Len(records) < MaxRecords
  /\ \E at \in {"flash", "card"} : records' = Append(records, [msg |-> job.msg, at |-> at])
  /\ Answers(job, "Committed", Len(records) + 1)

(* A tombstone for a record that can be read; a cutoff for a conversation. *)
Erases(job) ==
  /\ records[job.key].at \in OnMedium /\ Put(job.key, "erased")
  /\ UNCHANGED row

CutsOff(job) ==
  /\ records' = [k \in DOMAIN records |->
       IF records[k].msg \in OfPeer(job.msg) THEN [records[k] EXCEPT !.at = "cut"] ELSE records[k]]
  /\ UNCHANGED row

CarriesOut(job) ==
  \/ job.op = "Create" /\ (Repeats(job) \/ Adds(job)) /\ UNCHANGED fenced
  \/ job.op = "Erase"  /\ Erases(job) /\ UNCHANGED fenced
  \/ job.op = "Delete" /\ CutsOff(job) /\ fenced' = fenced \ {Peer[job.msg]}

FailsJob(job) ==
  /\ Answers(job, "Failed", 0) /\ UNCHANGED records
  /\ fenced' = IF job.op = "Delete" THEN fenced \ {Peer[job.msg]} ELSE fenced

Work ==
  /\ jobs # <<>> /\ jobs' = Tail(jobs)
  /\ (CarriesOut(Head(jobs)) \/ FailsJob(Head(jobs)))
  /\ UNCHANGED <<receipt, accepting, live, air>>

(* reclaim(): short of space, the store takes records off flash, one whose *)
(* proof or purge is under way too.  With the card in use its copy is      *)
(* verified first; without, the card may still have one or not.            *)
Reclaim(k) ==
  /\ records[k].at = "flash" /\ \E at \in {"evicted", "lost"} : Put(k, at)
  /\ UNCHANGED <<delivery, jobs, fenced>>

-----------------------------------------------------------------------------
(* poll(): a committed record makes its proofs eligible; otherwise, or     *)
(* when the row was made invisible meanwhile, they are dropped.            *)
Visible(s) == row[s].op = "Committed" /\ accepting /\ row[s].phase # "Invisible"

Poll(s) ==
  LET r == [row[s] EXCEPT !.op = "none"] IN
  /\ row[s].op \in {"Committed", "Failed"}
  /\ IF Visible(s)
     THEN /\ row' = [row EXCEPT ![s] = Release([r EXCEPT !.phase = "Committed"])]
          /\ receipt' = [i \in Pool |-> IF i \in r.proofs THEN [receipt[i] EXCEPT !.state = "Eligible"]
                                        ELSE receipt[i]]
     ELSE /\ row' = [row EXCEPT ![s] = Without([r EXCEPT !.phase = "Invisible"], r.proofs)]
          /\ receipt' = Retired(r.proofs)
  /\ UNCHANGED <<accepting, live, air, jobs, fenced, records>>

Retire(i) ==
  /\ receipt' = Retired({i}) /\ row' = RowsWithout({i})
  /\ UNCHANGED <<accepting, live, air, jobs, fenced, records>>

(* Too old or its link gone; or offered to its interface, which queues it, *)
(* sends it at once, refuses it, or is full and is asked again later.      *)
Expire(i) == receipt[i].state # "Free" /\ Retire(i)

InAir(i) == [slot |-> i, gen |-> receipt[i].gen, msg |-> row[receipt[i].owner.slot].msg]
Drain(i) ==
  /\ receipt[i].state = "Eligible" /\ ReceiptLive(InAir(i))
  /\ receipt' = [receipt EXCEPT ![i] = [@ EXCEPT !.state = "Queued"]] /\ air' = air \cup {InAir(i)}
  /\ UNCHANGED <<row, accepting, live, jobs, fenced, records>>

(* receiptHook(): started or dropped, the interface lets go of the proof.  *)
Ends(r) ==
  /\ r \in air /\ air' = air \ {r}
  /\ LET gone == IF Known(r) THEN {r.slot} ELSE {} IN
     receipt' = Retired(gone) /\ row' = RowsWithout(gone)
  /\ UNCHANGED <<accepting, live, jobs, fenced, records>>

-----------------------------------------------------------------------------
(* dropPeer() at the start of a deletion, dropLink() and stopAdmissions(). *)
KeepsProofs(hit) == UNCHANGED receipt                                   \* fault
DropProofs(hit)  == receipt' = Retired(UNION {row[s].proofs : s \in hit})
StaysVisible(hit) == [s \in Slots |-> IF s \in hit                       \* fault
  THEN Release([row[s] EXCEPT !.held = FALSE, !.proofs = {}]) ELSE row[s]]
Hidden(hit) == [s \in Slots |-> IF s \in hit
  THEN Release([row[s] EXCEPT !.phase = "Invisible", !.held = FALSE, !.proofs = {}]) ELSE row[s]]

(* One deletion at a time, of a conversation or a record (_deleting).      *)
Deleting == \E i \in DOMAIN jobs : jobs[i].op # "Create"

DropPeer(m) ==
  LET hit == {s \in Slots : Used(s) /\ row[s].msg \in OfPeer(m)} IN
  /\ accepting /\ ~Deleting /\ fenced' = {Peer[m]}
  /\ row' = Hidden(hit) /\ DropProofs(hit)
  /\ jobs' = Append(jobs, Job(-1, "Delete", m, 0))
  /\ UNCHANGED <<accepting, live, air, records>>

(* beginRecordDelete() leaves received messages and their proofs alone.    *)
DropRecord(k) ==
  /\ accepting /\ ~Deleting /\ records[k].at \in OnMedium
  /\ jobs' = Append(jobs, Job(-1, "Erase", records[k].msg, k))
  /\ UNCHANGED <<delivery, fenced, records>>

DropLink(p) ==
  LET gone == {i \in Pool : receipt[i].state # "Free" /\ receipt[i].proof = p} IN
  /\ p \in live /\ live' = live \ {p}
  /\ receipt' = Retired(gone) /\ row' = RowsWithout(gone)
  /\ UNCHANGED <<accepting, air, jobs, fenced, records>>

StopAdmissions ==
  /\ accepting /\ accepting' = FALSE
  /\ row' = Hidden({s \in Slots : Used(s)}) /\ receipt' = Retired(Pool)
  /\ UNCHANGED <<live, air, jobs, fenced, records>>

(* A restart keeps the media only.                                         *)
Restart ==
  /\ row' = [s \in Slots |-> FreeRow(0)] /\ receipt' = [i \in Pool |-> FreeReceipt(0)]
  /\ accepting' = TRUE /\ live' = Proofs /\ air' = {} /\ jobs' = <<>> /\ fenced' = {}
  /\ UNCHANGED records

Transport ==
  \/ \E m \in Messages, p \in Proofs : Accept(m, p)
  \/ \E s \in Slots : Poll(s)
  \/ \E i \in Pool : Expire(i) \/ Drain(i)
  \/ \E r \in air : Ends(r)
  \/ \E p \in Proofs : DropLink(p)

IncomingNext ==
  \/ Transport \/ Work \/ StopAdmissions \/ Restart
  \/ \E m \in Messages : DropPeer(m)
  \/ \E k \in DOMAIN records : DropRecord(k) \/ Reclaim(k)

IncomingSpec ==
  Init /\ [][IncomingNext]_incoming

-----------------------------------------------------------------------------
(* A proof that may still be transmitted stands for a record of that very  *)
(* message whose commit no deletion of the conversation has overtaken: no  *)
(* copy that was coalesced, delayed or queued before one is proved on the  *)
(* strength of an earlier commit.  The record is still there, or its own   *)
(* deletion or the space reclaim took it.                                  *)
Stands(k, m) == k \in DOMAIN records /\ records[k].msg = m /\ records[k].at # "cut"
ProofMeansStored ==
  \A r \in air : ReceiptLive(r) => Stands(row[receipt[r.slot].owner.slot].key, r.msg)

(* Rows and receipts account for each other, and a row that is in use has  *)
(* a reason for it: none is lost to a path that forgot to release it.      *)
RowsAccounted ==
  /\ \A s \in Slots : Used(s) => row[s].op # "none" \/ row[s].proofs # {} \/ row[s].held
  /\ \A i \in Pool, s \in Slots :
       i \in row[s].proofs <=> receipt[i].state # "Free" /\ receipt[i].owner = Ref(s) /\ Used(s)
=============================================================================

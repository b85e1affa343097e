-------------------------- MODULE OutgoingDelivery --------------------------
(***************************************************************************)
(* protocol/RustLxmfEngine.cpp: the rows in which outgoing messages wait   *)
(* to be saved, sent and proved.  A row creates or recovers its record,    *)
(* reads the body into the one shared workspace, offers a packet to the    *)
(* interfaces and waits for the receipts they return, for a proof or for a *)
(* time-out; what it learns goes back to the record.  The user may cancel, *)
(* delete and retry, and the engine may be stopped, at any moment.         *)
(*                                                                         *)
(* The engine is one task.  Settling a batch of results and offering one   *)
(* packet are several steps here (`pass`, `offering`): the storage worker  *)
(* runs between the former, receipts and proofs arrive inside the latter.  *)
(* Time is a choice: whatever may have run out may have done so.  Relays,  *)
(* recipient stamps, damaged records and whole-conversation deletion are   *)
(* left out.                                                               *)
(***************************************************************************)
EXTENDS Integers, FiniteSets, Sequences

CONSTANTS RowCount, Interfaces, ProofAttempts,
          Ages,               \* generations the rows may have at a new begin()
          MaxGeneration,      \* stands for UINT32_MAX, the last one a row gets
          MaxRecords,         \* bound on the counters given out
          Restored,           \* the records the last boot may have left
          Deletes, Retries    \* whether the user deletes or retries messages

ASSUME OutgoingAssumption ==
  RowCount \in Nat \ {0} /\ Interfaces \subseteq Nat /\ Interfaces # {}
  /\ ProofAttempts \in Nat \ {0} /\ MaxGeneration \in Nat /\ MaxRecords \in Nat
  /\ Ages \subseteq [0 .. RowCount - 1 -> Nat]
  /\ Restored \subseteq Seq({"QUEUED", "SENT", "DELIVERED", "FAILED", "UNCONFIRMED", "erased"})

Slots    == 0 .. RowCount - 1
NoSlot   == -1
Resource == ProofAttempts                  \* the variant of a resource packet
Statuses == {"QUEUED", "SENT", "DELIVERED", "FAILED", "UNCONFIRMED"}

VARIABLES
  row,        \* the descriptor of each slot
  body,       \* whose message the workspace holds: [slot, gen]
  accepting, recovering, recoverAgain, cursor,
  deleting,   \* the counter being deleted, 0 for none
  offering,   \* the packet being offered: [slot, left, now, accepted]
  pass,       \* slots whose results this loop() still has to settle
  queue,      \* the store's jobs, in order
  record,     \* status of each record given out, or "erased"
  deleted,    \* outcome of the deletion: "none", "waiting", "Committed", "Failed"
  stored,     \* a retry has been committed, its owner not told yet
  air         \* receipts the interfaces hold: [slot, gen, variant, iface]

engine == <<accepting, recovering, recoverAgain, cursor, deleting, pass>>
store  == <<queue, record, deleted, stored>>
vars   == <<row, body, offering, engine, store, air>>

Descriptor(gen, phase, flags) ==
  [gen |-> gen, phase |-> phase, flags |-> flags, counter |-> 0, desired |-> "QUEUED",
   durable |-> "QUEUED", err |-> FALSE, op |-> "none", result |-> "none",
   target |-> "QUEUED", at |-> 0, proofs |-> 0, mask |-> {}, queued |-> 0,
   flown |-> {}, window |-> "none"]

NoBody      == [slot |-> NoSlot, gen |-> 0]
NotOffering == [slot |-> NoSlot, left |-> {}, now |-> NoSlot, accepted |-> FALSE]

Init ==
  /\ \E age \in Ages : row = [s \in Slots |-> Descriptor(age[s], "Free", {})]
  /\ body = NoBody
  /\ accepting = TRUE /\ recovering = TRUE /\ recoverAgain = FALSE /\ cursor = 0  \* begin()
  /\ deleting = 0 /\ offering = NotOffering /\ pass = {} /\ air = {}
  /\ queue = <<>> /\ deleted = "none" /\ stored = FALSE
  /\ record \in Restored

Live(s)   == row[s].phase # "Free"
Ticket(s) == [slot |-> s, gen |-> row[s].gen]
Least(S)  == CHOOSE x \in S : \A y \in S : x <= y
Idle      == pass = {} /\ offering = NotOffering    \* between two calls into the engine

(* A row whose ticket no longer matches is not touched by releaseBody().   *)
KeepsWorkspace(s) == IF Live(s) /\ row[s].op = "Read" THEN body ELSE NoBody  \* fault
Released(s) == IF body = Ticket(s) THEN NoBody ELSE body
Freed(s)    == Descriptor(row[s].gen, "Free", {})

(* allocate(): the first free row, else one only waiting for a late proof. *)
FreeRows == {s \in Slots : row[s].phase = "Free" /\ row[s].gen < MaxGeneration}
Evictable(s) ==
  LET r == row[s] IN
  /\ r.phase = "Grace" /\ r.gen < MaxGeneration /\ "Acknowledged" \in r.flags
  /\ r.op = "none" /\ r.queued = 0 /\ r.desired = r.durable
Allocatable == IF FreeRows # {} THEN {Least(FreeRows)} ELSE {s \in Slots : Evictable(s)}

IgnoresReceipts(r) == r.op = "none"                              \* fault
Retirable(r)       == r.op = "none" /\ r.queued = 0              \* retire()

Waiting(r, op)  == [r EXCEPT !.op = op, !.result = "waiting"]
Job(s, op, arg) == [slot |-> s, op |-> op, arg |-> arg, cancelled |-> FALSE]

(* setStatus(): a proof is final, and so is deletion.                      *)
Overwrites(r, status) == [r EXCEPT !.desired = status]           \* fault
SetStatus(r, status) ==
  IF "Deleted" \in r.flags \/ r.desired \in {"DELIVERED", status} THEN r
  ELSE IF status = "DELIVERED"
       THEN [r EXCEPT !.desired = status, !.mask = {}, !.phase = "Settled"]
       ELSE [r EXCEPT !.desired = status]

-----------------------------------------------------------------------------
(* The sender and the service: submit, cancel, acknowledge, delete, retry. *)

(* A refusal of the store would only use up a generation.                  *)
Submit ==
  /\ Idle /\ accepting /\ ~recovering /\ Len(record) < MaxRecords
  /\ \E s \in Allocatable :
       /\ row' = [row EXCEPT ![s] = Waiting(Descriptor(@.gen + 1, "Saving", {}), "Create")]
       /\ queue' = Append(queue, Job(s, "Create", 0))
  /\ UNCHANGED <<body, offering, engine, record, deleted, stored, air>>

(* cancel(): nothing more is sent.  A job other than a status update is    *)
(* withdrawn if the worker has not begun it.                               *)
Cancelled(r) ==
  [r EXCEPT !.flags = @ \cup {"Suppressed"}, !.mask = {},
            !.phase = IF r.op # "none" /\ @ \in {"Saving", "Query"} THEN @ ELSE "Settled"]
Withdrawn(S) == [i \in DOMAIN queue |->
  IF queue[i].slot \in S /\ queue[i].op # "Update" THEN [queue[i] EXCEPT !.cancelled = TRUE]
  ELSE queue[i]]
Dispossessed(S) == IF body.slot \in S THEN NoBody ELSE body

Cancel(s) ==
  /\ Idle /\ Live(s) /\ "Acknowledged" \notin row[s].flags /\ "Suppressed" \notin row[s].flags
  /\ row' = [row EXCEPT ![s] = Cancelled(@)]
  /\ queue' = Withdrawn({s}) /\ body' = Released(s)
  /\ UNCHANGED <<offering, engine, record, deleted, stored, air>>

(* poll() and acknowledge(): the sender learns what became of the save.    *)
Acknowledge(s) ==
  /\ Idle /\ Live(s) /\ row[s].op # "Create" /\ "Acknowledged" \notin row[s].flags
  /\ row' = [row EXCEPT ![s].flags = @ \cup {"Acknowledged"}]
  /\ UNCHANGED <<body, offering, engine, store, air>>

(* beginRecordDelete() and the store's job.  A recovery query that may     *)
(* have seen the record is dropped and discovery starts over.              *)
Holders(c)     == {s \in Slots : Live(s) /\ row[s].counter = c}
Queries        == {s \in Slots : Live(s) /\ row[s].op = "Pending"}
KeepsSending(c) == row                                            \* fault
Condemned(c)    == [s \in Slots |->
  IF s \in Queries THEN Cancelled(row[s])
  ELSE IF s \in Holders(c)
       THEN Cancelled([row[s] EXCEPT !.flags = @ \cup {"DeletePending"}]) ELSE row[s]]

BeginDelete(c) ==
  LET hit == Queries \cup Holders(c) IN
  /\ Deletes /\ Idle /\ accepting /\ deleting = 0 /\ record[c] # "erased"
  /\ deleting' = c /\ deleted' = "waiting"
  /\ row' = Condemned(c) /\ body' = Dispossessed(hit)
  /\ queue' = Append(Withdrawn(hit), Job(NoSlot, "Delete", c))
  /\ IF Queries # {} THEN cursor' = 0 /\ recoverAgain' = TRUE ELSE UNCHANGED <<cursor, recoverAgain>>
  /\ UNCHANGED <<offering, accepting, recovering, pass, record, stored, air>>

(* storedMessage(): look for pending records again.                        *)
Rediscover ==
  IF ~accepting THEN UNCHANGED <<recovering, recoverAgain, cursor>>
  ELSE IF recovering THEN recoverAgain' = TRUE /\ UNCHANGED <<recovering, cursor>>
       ELSE recovering' = TRUE /\ cursor' = 0 /\ UNCHANGED recoverAgain

Acquitted(r, gone) ==
  IF "DeletePending" \notin r.flags THEN r
  ELSE IF gone
       THEN [r EXCEPT !.flags = (@ \ {"DeletePending"}) \cup {"Deleted"}, !.err = FALSE]
       ELSE [r EXCEPT !.flags = @ \ {"DeletePending"}, !.desired = r.durable, !.proofs = 0]

FinishDelete ==
  /\ Idle /\ deleted \in {"Committed", "Failed"}
  /\ row' = [s \in Slots |-> Acquitted(row[s], deleted = "Committed")]
  /\ deleting' = 0 /\ deleted' = "none" /\ Rediscover
  /\ UNCHANGED <<body, offering, accepting, pass, queue, record, stored, air>>

(* requestRetry(): only when no row is still busy with the message.        *)
Retryable(r) ==
  /\ r.desired \in {"FAILED", "UNCONFIRMED"} /\ r.desired = r.durable /\ Retirable(r)
  /\ "Acknowledged" \in r.flags /\ r.phase \in {"Settled", "Grace"}

Retry(c) ==
  /\ Retries /\ Idle /\ accepting /\ deleting # c /\ ~stored
  /\ \A s \in Holders(c) : Retryable(row[s])
  /\ record[c] \in {"FAILED", "UNCONFIRMED"}
  /\ ~\E i \in DOMAIN queue : queue[i].op = "Retry"
  /\ queue' = Append(queue, Job(NoSlot, "Retry", c))
  /\ row' = [s \in Slots |-> IF s \in Holders(c) THEN Freed(s) ELSE row[s]]
  /\ UNCHANGED <<body, offering, engine, record, deleted, stored, air>>

StoredMessage ==
  /\ Idle /\ stored /\ stored' = FALSE /\ Rediscover
  /\ UNCHANGED <<row, body, offering, accepting, deleting, pass, queue, record, deleted,
                 air>>

(* stopAdmissions(): an attempt that was sent is to be resumed by the next *)
(* boot.                                                                   *)
Interrupted(r) == Cancelled(IF r.desired = "SENT" THEN SetStatus(r, "QUEUED") ELSE r)

Stop ==
  /\ Idle /\ accepting
  /\ accepting' = FALSE /\ recovering' = FALSE
  /\ row' = [s \in Slots |-> IF Live(s) THEN Interrupted(row[s]) ELSE row[s]]
  /\ queue' = Withdrawn(Slots) /\ body' = NoBody
  /\ UNCHANGED <<offering, recoverAgain, cursor, deleting, pass, record, deleted, stored, air>>

-----------------------------------------------------------------------------
(* The storage worker carries out the oldest job.  One withdrawn when it   *)
(* had already begun is carried out all the same.                          *)
Answered(s, result, at) == [row EXCEPT ![s].result = result, ![s].at = at]

(* Delivery is never taken back.                                           *)
Updated(old, new) == IF old = "DELIVERED" THEN old ELSE new

Carries(job) ==
  LET s == job.slot
      c == IF s \in Slots THEN row[s].counter ELSE job.arg
      later == {d \in DOMAIN record : d > job.arg /\ record[d] = "QUEUED"} IN
  \/ /\ job.op = "Create" /\ Len(record) < MaxRecords
     /\ record' = Append(record, "QUEUED")
     /\ row' = Answered(s, "Committed", Len(record) + 1) /\ UNCHANGED <<deleted, stored>>
  \/ /\ job.op = "Update" /\ record[c] # "erased" /\ Updated(record[c], row[s].target) = row[s].target
     /\ record' = [record EXCEPT ![c] = row[s].target]
     /\ row' = Answered(s, "Committed", c) /\ UNCHANGED <<deleted, stored>>
  \/ /\ job.op = "Read" /\ record[c] # "erased"
     /\ row' = Answered(s, "Committed", c) /\ UNCHANGED <<record, deleted, stored>>
  \/ /\ job.op = "Pending"
     /\ row' = Answered(s, "Committed", IF later = {} THEN 0 ELSE Least(later))
     /\ UNCHANGED <<record, deleted, stored>>
  \/ /\ job.op = "Delete" /\ deleted' = "Committed"
     /\ record' = [record EXCEPT ![c] = "erased"] /\ UNCHANGED <<row, stored>>
  \/ /\ job.op = "Retry" /\ record[c] \in {"FAILED", "UNCONFIRMED"} /\ stored' = TRUE
     /\ record' = [record EXCEPT ![c] = "QUEUED"] /\ UNCHANGED <<row, deleted>>

Fails(job) ==
  /\ row' = IF job.slot \in Slots
            THEN Answered(job.slot, IF job.cancelled THEN "Cancelled" ELSE "Failed", 0) ELSE row
  /\ deleted' = IF job.op = "Delete" THEN "Failed" ELSE deleted
  /\ UNCHANGED <<record, stored>>

Work ==
  /\ queue # <<>> /\ queue' = Tail(queue)
  /\ Carries(Head(queue)) \/ Fails(Head(queue))
  /\ UNCHANGED <<body, offering, engine, air>>

-----------------------------------------------------------------------------
(* loop(): the results that are in are settled in the order of the slots.  *)
Answers == {s \in Slots : row[s].op # "none" /\ row[s].result # "waiting"}

Poll ==
  /\ Idle /\ Answers # {} /\ pass' = Answers
  /\ UNCHANGED <<row, body, offering, accepting, recovering, recoverAgain, cursor, deleting,
                 store, air>>

(* settleStorage(), one case per operation.                                *)
Settles(s, op) == pass # {} /\ s = Least(pass) /\ row[s].op = op /\ pass' = pass \ {s}
Done(r)        == [r EXCEPT !.op = "none", !.result = "none", !.at = 0, !.target = "QUEUED"]

SettleCreate(s) ==
  LET r  == Done(row[s])
      at == row[s].at IN
  /\ Settles(s, "Create")
  /\ row' = [row EXCEPT ![s] = [r EXCEPT
       !.counter = at, !.err = (at = 0),
       !.flags = IF "Suppressed" \in @ THEN @ \cup {"InitialSuppressed"} ELSE @,
       !.phase = IF at # 0 /\ "Suppressed" \notin r.flags THEN "Ready" ELSE "Settled"]]
  /\ UNCHANGED <<body, offering, accepting, recovering, recoverAgain, cursor, deleting,
                 store, air>>

SettleUpdate(s) ==
  LET r  == Done(row[s])
      ok == row[s].at # 0 IN
  /\ Settles(s, "Update")
  /\ row' = [row EXCEPT ![s] =
       [r EXCEPT !.durable = IF ok THEN row[s].target ELSE @, !.err = ~ok]]
  /\ UNCHANGED <<body, offering, accepting, recovering, recoverAgain, cursor, deleting,
                 store, air>>

(* A recovered record gets the row of the query, unless it has one.        *)
Duplicate(s, c) == \E t \in Slots \ {s} : Live(t) /\ row[t].counter = c

SettlePending(s) ==
  LET r       == Done(row[s])
      at      == row[s].at
      dropped == ~recovering \/ "Suppressed" \in r.flags
      failed  == row[s].result # "Committed"
      bound   == at # 0 /\ ~Duplicate(s, at) IN
  /\ Settles(s, "Pending")
  /\ \/ /\ dropped /\ row' = [row EXCEPT ![s] = [r EXCEPT !.phase = "Settled"]]
        /\ UNCHANGED <<recovering, recoverAgain, cursor>>
     \/ /\ ~dropped /\ failed /\ row' = [row EXCEPT ![s] = [r EXCEPT !.err = TRUE]]
        /\ UNCHANGED <<recovering, recoverAgain, cursor>>
     \/ /\ ~dropped /\ ~failed /\ at = 0 /\ recoverAgain
        /\ row' = [row EXCEPT ![s] = r]
        /\ recoverAgain' = FALSE /\ cursor' = 0 /\ UNCHANGED recovering
     \/ /\ ~dropped /\ ~failed /\ at = 0 /\ ~recoverAgain
        /\ row' = [row EXCEPT ![s] = [r EXCEPT !.phase = "Settled"]]
        /\ recovering' = FALSE /\ UNCHANGED <<recoverAgain, cursor>>
     \/ /\ ~dropped /\ ~failed /\ at # 0 /\ cursor' = at
        /\ row' = [row EXCEPT ![s] =
             IF bound THEN [r EXCEPT !.phase = "Ready", !.counter = at, !.err = FALSE]
             ELSE [r EXCEPT !.phase = "Settled"]]
        /\ UNCHANGED <<recovering, recoverAgain>>
  /\ UNCHANGED <<body, offering, accepting, deleting, store, air>>

SettleRead(s) ==
  LET r    == Done(row[s])
      over == "Suppressed" \in r.flags \/ r.desired = "DELIVERED"
      ok   == row[s].at # 0 IN
  /\ Settles(s, "Read")
  /\ row' = [row EXCEPT ![s] =
       IF over THEN [r EXCEPT !.phase = "Settled"]
       ELSE [r EXCEPT !.err = ~ok, !.phase = IF ok THEN "Reading" ELSE "Ready"]]
  /\ body' = IF over \/ ~ok THEN Released(s) ELSE body
  /\ UNCHANGED <<offering, accepting, recovering, recoverAgain, cursor, deleting, store, air>>

Settle == \E s \in pass : SettleCreate(s) \/ SettleUpdate(s) \/ SettlePending(s) \/ SettleRead(s)

(* Afterwards: one row looks for pending records while there may be some.  *)
StartQuery ==
  /\ Idle /\ recovering /\ accepting /\ \A s \in Slots : row[s].phase # "Query"
  /\ \E s \in Allocatable :
       row' = [row EXCEPT ![s] = Descriptor(@.gen + 1, "Query", {"Acknowledged"})]
  /\ UNCHANGED <<body, offering, engine, store, air>>

-----------------------------------------------------------------------------
(* advance(): retire the row, or let its waits run out, then take the next *)
(* step of its delivery.                                                   *)
Retire(s) ==
  LET r == row[s] IN
  /\ Idle /\ r.phase = "Settled" /\ "Acknowledged" \in r.flags /\ Retirable(r)
  /\ "DeletePending" \notin r.flags
  /\ r.desired = r.durable \/ "Deleted" \in r.flags \/ r.counter = 0
  /\ row' = [row EXCEPT ![s] = Freed(s)] /\ body' = Released(s)
  /\ UNCHANGED <<offering, engine, store, air>>

Unconfirmed(r) == SetStatus([r EXCEPT !.phase = "Grace", !.window = "open"], "UNCONFIRMED")
TimedOut(r) ==
  IF r.proofs >= ProofAttempts THEN Unconfirmed(r)
  ELSE SetStatus([r EXCEPT !.phase = "Ready"], "QUEUED")

(* What the waits make of the row, when it is looked at now.               *)
Aged(r) ==
  CASE r.phase = "AwaitProof"                     -> {r, TimedOut(r)}
    [] r.phase = "Grace" /\ r.window = "over"     -> {[r EXCEPT !.phase = "Settled"]}
    [] OTHER                                      -> {r}

Owes(r) == /\ r.counter # 0 /\ r.desired # r.durable
           /\ {"Deleted", "DeletePending"} \cap r.flags = {}

ReportStatus(s) ==
  /\ Idle /\ Live(s) /\ row[s].op = "none"
  /\ \E r \in Aged(row[s]) :
       /\ Owes(r)
       /\ row' = [row EXCEPT ![s] = [Waiting(r, "Update") EXCEPT !.target = r.desired]]
  /\ queue' = Append(queue, Job(s, "Update", 0))
  /\ UNCHANGED <<body, offering, engine, record, deleted, stored, air>>

(* A status that is owed but not admitted, or not yet due again, does not  *)
(* hold up the rest.                                                       *)
LookForPending(s) ==
  /\ Idle /\ row[s].phase = "Query" /\ row[s].op = "none" /\ "Suppressed" \notin row[s].flags
  /\ deleting = 0
  /\ row' = [row EXCEPT ![s] = Waiting(@, "Pending")]
  /\ queue' = Append(queue, Job(s, "Pending", cursor))
  /\ UNCHANGED <<body, offering, engine, record, deleted, stored, air>>

WaitRunsOut(s) ==
  /\ Idle /\ Live(s) /\ row[s].op = "none"
  /\ \E r \in Aged(row[s]) : r # row[s] /\ row' = [row EXCEPT ![s] = r]
  /\ UNCHANGED <<body, offering, engine, store, air>>

ReadBody(s) ==
  /\ Idle /\ accepting /\ row[s].op = "none" /\ "Suppressed" \notin row[s].flags /\ body = NoBody
  /\ \E r \in Aged(row[s]) :
       r.phase = "Ready" /\ row' = [row EXCEPT ![s] = Waiting([r EXCEPT !.phase = "Reading"], "Read")]
  /\ body' = Ticket(s) /\ queue' = Append(queue, Job(s, "Read", 0))
  /\ UNCHANGED <<offering, engine, record, deleted, stored, air>>

(* attempt(): no route, key, link or transmitter yet; none to be had; a    *)
(* packet; or a resource over the link.                                    *)
Attempting(s) ==
  /\ Idle /\ accepting /\ row[s].phase = "Reading" /\ row[s].op = "none"
  /\ "Suppressed" \notin row[s].flags /\ body = Ticket(s)

GivesUp(r) == IF r.proofs > 0 THEN Unconfirmed(r)               \* finishRouteFailure()
              ELSE SetStatus([r EXCEPT !.phase = "Settled"], "FAILED")

AttemptEnds(s) ==
  /\ Attempting(s) /\ body' = Released(s)
  /\ row' \in {[row EXCEPT ![s].phase = "Ready"], [row EXCEPT ![s] = GivesUp(@)],
               [row EXCEPT ![s] = SetStatus([@ EXCEPT !.phase = "Settled"], "FAILED")]}
              \cup (IF \E t \in Slots : row[t].phase = "Resource" THEN {}
                    ELSE {[row EXCEPT ![s].phase = "Resource"]})
  /\ UNCHANGED <<offering, engine, store, air>>

(* preparePacket() and offerPrepared(): the attempt counts as made before  *)
(* the first interface is asked.                                           *)
Prepared(r) == [r EXCEPT !.mask = @ \cup {r.proofs}, !.proofs = @ + 1, !.phase = "AwaitProof"]

PreparePacket(s) ==
  /\ Attempting(s) /\ row[s].proofs < ProofAttempts
  /\ row' = [row EXCEPT ![s] = Prepared(@)]
  /\ \E targets \in SUBSET Interfaces \ {{}} :
       offering' = [slot |-> s, left |-> targets, now |-> NoSlot, accepted |-> FALSE]
  /\ UNCHANGED <<body, engine, store, air>>

Offering == offering.slot
Attempt  == row[Offering].proofs - 1
Receipt(s, variant, i) == [slot |-> s, gen |-> row[s].gen, variant |-> variant, iface |-> i]
Offered  == Receipt(Offering, Attempt, offering.now)

Moot     == \/ body # Ticket(Offering) \/ row[Offering].desired = "DELIVERED"
            \/ "Suppressed" \in row[Offering].flags

OfferNext ==
  LET i == Least(offering.left) IN
  /\ Offering # NoSlot /\ offering.now = NoSlot /\ offering.left # {} /\ ~Moot
  /\ offering' = [offering EXCEPT !.left = @ \ {i}, !.now = i]
  /\ row' = [row EXCEPT ![Offering].queued = @ + 1]
  /\ air' = air \cup {Receipt(Offering, Attempt, i)}
  /\ UNCHANGED <<body, engine, store>>

(* offerReceipt() returns: the interface is full and never took the packet *)
(* over, or it holds the receipt, or it has given it back meanwhile.       *)
OfferReturns ==
  LET blocked == offering.now \in Interfaces /\ Offered \in air
      r == row[Offering] IN
  /\ Offering # NoSlot /\ offering.now # NoSlot
  /\ \/ /\ blocked /\ air' = air \ {Offered}
        /\ row' = [row EXCEPT ![Offering].queued = @ - 1]
        /\ offering' = [offering EXCEPT !.now = NoSlot]
     \/ /\ UNCHANGED <<row, air>>
        /\ offering' = [offering EXCEPT !.now = NoSlot,
             !.accepted = @ \/ Offered \in air \/ Attempt \in r.flown]
  /\ UNCHANGED <<body, engine, store>>

(* The packet no longer matters, or every interface has been asked: if     *)
(* none took it the attempt was not made.                                  *)
RolledBack(r) == [r EXCEPT !.proofs = @ - 1, !.mask = @ \ {r.proofs - 1}, !.phase = "Ready"]

OfferEnds ==
  /\ Offering # NoSlot /\ offering.now = NoSlot /\ (Moot \/ offering.left = {})
  /\ offering' = NotOffering
  /\ body' = IF Moot THEN body ELSE Released(Offering)
  /\ row' = IF Moot \/ offering.accepted THEN row ELSE [row EXCEPT ![Offering] = RolledBack(@)]
  /\ UNCHANGED <<engine, store, air>>

-----------------------------------------------------------------------------
(* What the interfaces bring back, also while a packet is being offered.   *)
Reachable == pass = {}

(* receiptHook(Validate): may this packet still be transmitted?            *)
Receivable(r) == Live(r.slot) /\ row[r.slot].gen = r.gen
LeaseLive(r) ==
  /\ accepting /\ Receivable(r) /\ {"Suppressed", "Deleted"} \cap row[r.slot].flags = {}
  /\ row[r.slot].desired # "DELIVERED" /\ r.variant \in row[r.slot].mask

Uncounted(r, d) == d                                                     \* fault
Returned(r, d)  == [d EXCEPT !.queued = IF @ > 0 THEN @ - 1 ELSE @]

Transmitted(r, d) == SetStatus([Returned(r, d) EXCEPT !.flown = @ \cup {r.variant}], "SENT")

Transmit(r) ==
  /\ Reachable /\ r \in air /\ LeaseLive(r)
  /\ air' = air \ {r}
  /\ row' = [row EXCEPT ![r.slot] = Transmitted(r, @)]
  /\ UNCHANGED <<body, offering, engine, store>>

(* Too old, no longer valid, refused, or the interface went away.          *)
Drop(r) ==
  /\ Reachable /\ r \in air /\ air' = air \ {r}
  /\ row' = IF Receivable(r) THEN [row EXCEPT ![r.slot] = Returned(r, @)] ELSE row
  /\ UNCHANGED <<body, offering, engine, store>>

(* onProofFrame(): the recipient's proof of any attempt, until the grace   *)
(* period is over.                                                         *)
Proof(s) ==
  /\ Reachable /\ Live(s) /\ {"Deleted", "DeletePending"} \cap row[s].flags = {}
  /\ row[s].desired # "DELIVERED" /\ row[s].window # "over"
  /\ \E a \in row[s].flown : a < row[s].proofs
  /\ row' = [row EXCEPT ![s] = SetStatus(@, "DELIVERED")] /\ body' = Released(s)
  /\ UNCHANGED <<offering, engine, store, air>>

GraceEnds(s) ==
  /\ Reachable /\ row[s].window = "open" /\ row' = [row EXCEPT ![s].window = "over"]
  /\ UNCHANGED <<body, offering, engine, store, air>>

(* offerResource(), one packet of a resource at a time, and the outcome.   *)
ResourceOffered(r) == [r EXCEPT !.mask = @ \cup {Resource}, !.queued = @ + 1]
Concluded(r, outcome) ==
  SetStatus([r EXCEPT !.mask = @ \ {Resource}, !.phase = "Settled"], outcome)

OfferResource(s) ==
  LET r == Receipt(s, Resource, Least(Interfaces)) IN
  /\ Idle /\ accepting /\ row[s].phase = "Resource" /\ "Suppressed" \notin row[s].flags
  /\ r \notin air /\ air' = air \cup {r}
  /\ row' = [row EXCEPT ![s] = ResourceOffered(@)]
  /\ UNCHANGED <<body, offering, engine, store>>

ResourceOutcome(s) ==
  /\ Idle /\ row[s].phase = "Resource"
  /\ \E outcome \in {"DELIVERED", "FAILED"} :
       row' = [row EXCEPT ![s] = Concluded(@, outcome)]
  /\ UNCHANGED <<body, offering, engine, store, air>>

-----------------------------------------------------------------------------
User       == \/ Submit \/ Stop
              \/ \E s \in Slots : Cancel(s)
              \/ \E c \in DOMAIN record : BeginDelete(c) \/ Retry(c)
Told       == FinishDelete \/ StoredMessage \/ \E s \in Slots : Acknowledge(s)
Loop       == Poll \/ Settle \/ StartQuery
Offer      == OfferNext \/ OfferReturns \/ OfferEnds
Reports(s) == Retire(s) \/ ReportStatus(s) \/ WaitRunsOut(s)
Sends(s)   == LookForPending(s) \/ ReadBody(s) \/ AttemptEnds(s) \/ PreparePacket(s)
Receipts   == \E r \in air : Transmit(r) \/ Drop(r)
Air        == Receipts \/ \E s \in Slots : Proof(s) \/ GraceEnds(s) \/ OfferResource(s) \/ ResourceOutcome(s)

Next == User \/ Told \/ Loop \/ Offer \/ Work \/ Air \/ \E s \in Slots : Reports(s) \/ Sends(s)

Spec == Init /\ [][Next]_vars

(* The loop and the storage worker run on, every row gets its turn, the    *)
(* service collects what is answered, and an interface gives every receipt *)
(* back.  Nothing is assumed of the user, the network or the storage.      *)
FairSpec ==
  /\ Spec
  /\ WF_vars(Work) /\ WF_vars(Poll) /\ WF_vars(Settle) /\ WF_vars(Offer)
  /\ WF_vars(FinishDelete) /\ WF_vars(Receipts)
  /\ \A s \in Slots : WF_vars(Acknowledge(s)) /\ WF_vars(Retire(s)) /\ WF_vars(ReportStatus(s))

-----------------------------------------------------------------------------
(* Every receipt an interface holds belongs to a row that is still there,  *)
(* of the same generation, and the row counts exactly those: no row is     *)
(* used again under a packet in the air and none waits for a receipt that  *)
(* will not come.                                                          *)
ReceiptsAccounted ==
  /\ \A r \in air : Receivable(r)
  /\ \A s \in Slots : Live(s) => row[s].queued = Cardinality({r \in air : r.slot = s})

(* The one workspace is held by a live row that reads its record or offers *)
(* its packet and that will let it go: no path leaves it occupied, after   *)
(* which nothing would ever be sent again.                                 *)
WorkspaceReturned ==
  body # NoBody =>
    LET r == row[body.slot] IN
    /\ r.gen = body.gen /\ r.phase # "Free"
    /\ \/ r.op = "Read"
       \/ r.phase = "Reading" /\ r.op # "Pending" /\ r.proofs < ProofAttempts
       \/ Offering = body.slot

(* A packet whose record is erased, or is about to be and the deletion has *)
(* not failed, is no longer transmitted, wherever it is queued.            *)
DeletedNotSent ==
  \A r \in air :
    LET c == row[r.slot].counter IN
    LeaseLive(r) => record[c] # "erased" /\ ~(deleting = c /\ deleted = "waiting")

(* A proof, once accepted, stays with its row until the record says        *)
(* delivered or is gone, whatever cancellation, time-out, late receipt or  *)
(* stop comes in between.  Only a deletion that fails starts over.         *)
ProofReachesRecord ==
  [][\A s \in Slots :
       Live(s) /\ row[s].desired = "DELIVERED" =>
         \/ row'[s].gen = row[s].gen /\ row'[s].desired = "DELIVERED"
         \/ record[row[s].counter] \in {"DELIVERED", "erased"}
         \/ deleting = row[s].counter]_vars

(* After a stop the engine drains, or reports a status it cannot save.     *)
Drained    == deleting = 0 /\ body = NoBody /\ \A s \in Slots : ~Live(s)
DrainError == \E s \in Slots : /\ Live(s) /\ row[s].err /\ row[s].desired # row[s].durable
                               /\ "Deleted" \notin row[s].flags
StopDrains == ~accepting ~> Drained \/ DrainError
=============================================================================

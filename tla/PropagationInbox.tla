-------------------------- MODULE PropagationInbox --------------------------
(***************************************************************************)
(* protocol/RustPropagationInbox.cpp on top of IncomingDelivery: fetching  *)
(* messages a relay node keeps for this device, one at a time, and asking  *)
(* the node to delete each when it is safe.  The message goes through a    *)
(* row that is held until its commit is known; then a journal on flash     *)
(* records the permission to purge, the purge is asked for, and the        *)
(* journal is cleared when the node has confirmed.                         *)
(*                                                                         *)
(* Requests and answers are lost at will; a purge that was sent may still  *)
(* reach the node after its cycle was given up, also after a restart.  A   *)
(* poll that does several things does them in several steps here.          *)
(*                                                                         *)
(* A permission does not pin its record: the space reclaim may take it off *)
(* flash before or after the node has purged its copy.                     *)
(***************************************************************************)
EXTENDS IncomingDelivery

CONSTANTS Relays,            \* what each node keeps for us, at first
          MaxReceived, MaxAttempts

ASSUME InboxAssumption ==
  Relays \in [DOMAIN Relays -> SUBSET Messages] /\ MaxReceived \in Nat /\ MaxAttempts \in Nat

Nodes == DOMAIN Relays
NoJournal == [msg |-> 0, key |-> 0, node |-> 0]

VARIABLES
  stage,      \* _stage
  node,       \* _node
  journal,    \* _journal, and whether its peer is known: [msg, key, node, peer]
  hold,       \* _incoming, the held row, with slot -1 for none
  storage,    \* _storage: "none", the operation that is under way, or its result
  after,      \* _afterClear
  index, attempts, received,
  late,       \* the cycle's time is over
  file,       \* the journal on flash: the message, its record's counter and the node
  relay,      \* what each node still keeps
  asked       \* every purge that was ever sent, as the journal that permitted it

item   == <<journal, hold, after, index, attempts, received>>
cycle  == <<stage, node, storage, item, late>>
remote == <<file, relay, asked>>
vars   == <<incoming, cycle, remote>>

Nothing == [msg |-> 0, key |-> 0, node |-> 0, peer |-> FALSE]
NoRow   == [slot |-> -1, gen |-> 0]

InboxInit ==      \* begin()
  /\ Init /\ stage = "Idle" /\ node \in First(Nodes) /\ journal = Nothing /\ hold = NoRow
  /\ storage = "none" /\ after = "Idle" /\ index = 0 /\ attempts = 0 /\ received = 0 /\ late = FALSE
  /\ file = NoJournal /\ relay = Relays /\ asked = {}

Busy == stage \notin {"Idle", "Drain"}

-----------------------------------------------------------------------------
(* releaseHeld(), and finish(): the row is let go, and an operation of the *)
(* store that is still under way is waited for.                            *)
LeavesHeld(ref) == row                                             \* fault
LetGo(ref) ==
  IF ref = NoRow \/ ~Refers(ref) THEN row
  ELSE [row EXCEPT ![ref.slot] = Release([@ EXCEPT !.held = FALSE])]

Finished(busy) ==
  /\ stage' = (IF busy THEN "Drain" ELSE "Idle") /\ journal' = (IF busy THEN journal ELSE Nothing)
  /\ hold' = NoRow /\ after' = "Idle" /\ attempts' = 0 /\ received' = 0 /\ late' = FALSE

Finish == Finished(FALSE) /\ row' = LetGo(hold)

(* nextItem() after a attempts and r messages; skip().                     *)
NextItem(a, r) ==
  IF r >= MaxReceived \/ a >= MaxAttempts THEN Finish
  ELSE /\ stage' = "List" /\ journal' = Nothing /\ attempts' = a /\ received' = r
       /\ UNCHANGED <<row, hold, after, late>>

Skip == index' = index + 1 /\ NextItem(attempts, received)

Enter(next) == stage' = next /\ UNCHANGED <<row, journal, hold, after, attempts, received, late>>
Discard(why) ==
  stage' = "Clear" /\ after' = why /\ UNCHANGED <<row, journal, hold, attempts, received, late>>

(* What no step of the inbox changes itself.                               *)
Elsewhere == UNCHANGED <<receipt, accepting, live, air, jobs, fenced, records, file, relay>>

-----------------------------------------------------------------------------
(* poll(): a cycle begins with the node that is selected now; the store is *)
(* asked for what the stage needs.                                         *)
Begin ==
  /\ accepting /\ stage = "Idle" /\ ~Deleting
  /\ \E n \in Nodes : node' = n /\ index' = (IF n = node THEN index ELSE 0)
  /\ stage' = "Load"
  /\ Elsewhere /\ UNCHANGED <<row, journal, hold, storage, after, attempts, received, late, asked>>

InTime == accepting /\ Busy /\ storage = "none" /\ ~late

Request ==
  /\ InTime /\ stage \in {"Load", "Write", "Clear"} /\ storage' = stage
  /\ UNCHANGED <<incoming, stage, node, item, late, remote>>

(* The store loads, writes or clears the journal.  A journal is published  *)
(* or replayed only with its record on flash, copied there from the card   *)
(* if need be and if it is in; one that exists is never replaced by        *)
(* another.  A journal is stale when its record was deleted or is of       *)
(* another message; when it is on no medium that can be read, the load     *)
(* fails and leaves the journal.                                           *)
Readable(e) == e.key \in DOMAIN records /\ records[e.key].at \in OnMedium /\ records[e.key].msg = e.msg
OnAny(e)    == Readable(e) /\ UNCHANGED records                                     \* fault
Secured(e)  == Readable(e) /\ Put(e.key, "flash")
Outdated(e) == records[e.key].at \in {"erased", "cut"} \/ records[e.key].msg # e.msg
Entry       == [msg |-> journal.msg, key |-> journal.key, node |-> journal.node]

LoadPurge ==
  /\ UNCHANGED file
  /\ \/ file = NoJournal /\ storage' = "Empty" /\ UNCHANGED records
     \/ file # NoJournal /\ Secured(file) /\ storage' \in {"Committed", "Failed"}
     \/ file # NoJournal /\ Outdated(file) /\ storage' = "Stale" /\ UNCHANGED records

WritePurge ==
  /\ file \in {NoJournal, Entry} /\ Secured(Entry)
  /\ \/ file' = Entry /\ storage' = "Committed"
     \/ UNCHANGED file /\ storage' = "Failed"

ClearPurge ==
  file \in {NoJournal, Entry} /\ file' = NoJournal /\ storage' = "Committed" /\ UNCHANGED records

(* An operation that was cancelled in the queue fails; one that had begun  *)
(* is carried out.                                                         *)
StoreWorks ==
  /\ \/ storage = "Load" /\ LoadPurge
     \/ storage = "Write" /\ WritePurge
     \/ storage = "Clear" /\ ClearPurge
     \/ storage \in {"Load", "Write", "Clear"} /\ storage' = "Failed" /\ UNCHANGED <<records, file>>
  /\ UNCHANGED <<delivery, jobs, fenced, stage, node, item, late, relay, asked>>

(* settleStorage() *)
Loaded == [msg |-> file.msg, key |-> file.key, node |-> file.node, peer |-> TRUE]

SettleLoad ==
  \/ storage = "Empty" /\ NextItem(attempts, received)
  \/ storage = "Committed" /\ file.node = node /\ journal' = Loaded /\ stage' = "Purge"
     /\ UNCHANGED <<row, hold, after, attempts, received, late>>
  \/ ((storage = "Committed" /\ file.node # node) \/ storage = "Stale")
     /\ journal' = Loaded /\ stage' = "Clear" /\ after' = (IF storage = "Stale" THEN "StorageError" ELSE "Idle")
     /\ UNCHANGED <<row, hold, attempts, received, late>>
  \/ storage = "Failed" /\ Finish

SettleWrite ==
  \/ storage = "Committed" /\ row' = LetGo(hold) /\ hold' = NoRow /\ stage' = "Purge"
     /\ UNCHANGED <<journal, after, attempts, received, late>>
  \/ storage = "Failed" /\ Finish

SettleClear ==
  IF storage = "Failed" \/ after = "StorageError" THEN Finish
  ELSE NextItem(attempts, IF after = "Complete" THEN received + 1 ELSE received)

StaysDrained == Finished(TRUE) /\ row' = LetGo(hold)                   \* fault
SettleDrain  == Finish

SettleStorage ==
  /\ storage \in {"Empty", "Committed", "Stale", "Failed"} /\ storage' = "none"
  /\ \/ stage = "Load" /\ SettleLoad
     \/ stage = "Write" /\ SettleWrite
     \/ stage = "Clear" /\ SettleClear
     \/ stage = "Drain" /\ SettleDrain
  /\ Elsewhere /\ UNCHANGED <<node, index, asked>>

-----------------------------------------------------------------------------
(* The held row's commit: the journal is made for the record that the      *)
(* commit named, and is to be written.                                     *)
CommitCheck ==
  /\ InTime /\ stage = "Commit"
  /\ LET known == Refers(hold) /\ row[hold.slot].held
         pending == row[hold.slot].op # "none" \/ row[hold.slot].phase = "AwaitStore" IN
     \/ /\ known /\ ~pending /\ row[hold.slot].phase = "Committed" /\ stage' = "Write"
        /\ journal' = [journal EXCEPT !.key = row[hold.slot].key]
        /\ UNCHANGED <<row, hold, after, attempts, received, late>>
     \/ ~(known /\ (pending \/ row[hold.slot].phase = "Committed")) /\ Finish
  /\ Elsewhere /\ UNCHANGED <<node, storage, index, asked>>

(* A request goes to the node.                                             *)
Ask ==
  /\ InTime
  /\ \/ stage = "List" /\ Enter("ListWait") /\ UNCHANGED asked
     \/ stage = "Fetch" /\ Enter("FetchWait") /\ UNCHANGED asked
     \/ stage = "Purge" /\ Enter("PurgeWait") /\ asked' = asked \cup (IF journal.msg \in relay[node] THEN {Entry} ELSE {})
  /\ Elsewhere /\ UNCHANGED <<node, storage, index>>

(* onLinkResponse(): the node's list, the message, or the end of a purge.  *)
Listed(m) == m \in relay[node] /\ Cardinality({x \in relay[node] : x < m}) = index

OnList ==
  /\ stage = "ListWait"
  /\ IF index >= Cardinality(relay[node]) THEN index' = 0 /\ Finish
     ELSE /\ \E m \in relay[node] : Listed(m) /\ journal' = [msg |-> m, key |-> 0, node |-> node, peer |-> FALSE]
          /\ attempts' = attempts + 1 /\ stage' = "Fetch"
          /\ UNCHANGED <<row, hold, after, received, late, index>>
  /\ Elsewhere /\ UNCHANGED <<node, storage, asked>>

(* The message as accept() takes it with a held row.                       *)
AcceptHeld(s) ==
  /\ Used(s) \/ Admits(journal.msg)
  /\ row' = [row EXCEPT ![s] = Received(s, journal.msg, TRUE, {})] /\ jobs' = Queued(s, journal.msg)
  /\ hold' = [slot |-> s, gen |-> row'[s].gen] /\ journal' = [journal EXCEPT !.peer = TRUE]
  /\ stage' = "Commit" /\ UNCHANGED <<after, index, attempts, received, late>>

(* No room, an unknown sender or a busy store: asked for again, or passed  *)
(* over, as is a message that is invalid or that the node no longer has.   *)
OnFetched ==
  /\ stage = "FetchWait" /\ accepting
  /\ \/ journal.msg \in relay[node] /\ \E s \in RowFor(journal.msg) : AcceptHeld(s)
     \/ /\ attempts < MaxAttempts /\ stage' = "Fetch" /\ attempts' = attempts + 1
        /\ UNCHANGED <<row, jobs, journal, hold, after, index, received, late>>
     \/ Skip /\ UNCHANGED jobs
  /\ UNCHANGED <<receipt, accepting, live, air, fenced, records, node, storage, remote>>

OnPurged ==
  /\ stage = "PurgeWait" /\ journal.msg \notin relay[node]
  /\ Discard("Complete") /\ Elsewhere /\ UNCHANGED <<node, storage, index, asked>>

(* The node carries out a purge, whenever it reaches it.                   *)
NodePurges(q) ==
  /\ q \in asked /\ q.msg \in relay[q.node] /\ relay' = [relay EXCEPT ![q.node] = @ \ {q.msg}]
  /\ UNCHANGED <<incoming, cycle, file, asked>>

(* Every other end of a cycle: the relay or the setting changed, the link  *)
(* failed or timed out, an answer was no answer, or the time is over.      *)
Abandon ==
  /\ Busy /\ Finished(storage # "none") /\ row' = LetGo(hold)
  /\ Elsewhere /\ UNCHANGED <<node, storage, index, asked>>

TimeOver ==
  /\ Busy /\ ~late /\ late' = TRUE /\ UNCHANGED <<incoming, stage, node, storage, item, remote>>

-----------------------------------------------------------------------------
(* dropPeer() and stop() finish the cycle before the rows are dropped.     *)
Affected(m) == stage # "Idle" /\ journal.peer /\ Peer[journal.msg] = Peer[m]
Delete(m) ==
  /\ DropPeer(m) /\ UNCHANGED <<node, storage, index, remote>>
  /\ IF Affected(m) THEN Finished(storage # "none")
     ELSE UNCHANGED <<stage, journal, hold, after, attempts, received, late>>

Stop ==
  /\ StopAdmissions /\ Finished(storage # "none") /\ UNCHANGED <<node, storage, index, remote>>

Reboot ==
  /\ Restart /\ Finished(FALSE) /\ node' \in First(Nodes) /\ storage' = "none" /\ index' = 0
  /\ UNCHANGED remote

Inbox == Begin \/ Request \/ SettleStorage \/ CommitCheck \/ Ask \/ OnList \/ OnFetched \/ OnPurged \/ Abandon

Next ==
  \/ Inbox \/ StoreWorks \/ TimeOver \/ Stop \/ Reboot
  \/ \E q \in asked : NodePurges(q)
  \/ \E m \in Messages : Delete(m)
  \/ \E k \in DOMAIN records : (DropRecord(k) \/ Reclaim(k)) /\ UNCHANGED <<cycle, remote>>
  \/ (Transport \/ Work) /\ UNCHANGED <<cycle, remote>>

Spec     == InboxInit /\ [][Next]_vars

(* The worker answers, the device task settles, and it ends a cycle whose  *)
(* time is over: never two of these at once.  The clock goes on.           *)
MustGoOn == StoreWorks \/ SettleStorage \/ (late /\ storage = "none" /\ Abandon)
FairSpec == Spec /\ WF_vars(MustGoOn) /\ WF_vars(TimeOver)

-----------------------------------------------------------------------------
(* A node deletes a message only on the permission of a record of it that  *)
(* had reached flash: the record is still there, or its user deleted it,   *)
(* or the device's own space reclaim took it.  No crash, lost answer, card *)
(* taken out or journal of another cycle between fetch and purge lets a    *)
(* message go that was never kept, or kept on the card alone.              *)
Permits(k, m) == k \in DOMAIN records /\ records[k].msg = m /\ records[k].at # "card"
PurgedAreKept ==
  \A n \in Nodes : \A m \in Relays[n] \ relay[n] :
    \E q \in asked : q.node = n /\ q.msg = m /\ Permits(q.key, m)

(* A row is held by the inbox if and only if the inbox remembers it: none  *)
(* of the ways a cycle ends leaves a row behind that no one will release.  *)
HeldRowIsOurs ==
  \A s \in Slots : row[s].held => hold = Ref(s) /\ stage \in {"Commit", "Write"}

(* Every cycle ends, whatever the node, the link and the store do, and the *)
(* inbox can begin another.                                                *)
CycleEnds == stage # "Idle" ~> stage = "Idle"
=============================================================================

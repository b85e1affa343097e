# Ratspeak handheld: models, checks and proofs

This directory models the concurrent and crash-sensitive core of the handheld
firmware in TLA+, checks it with TLC on small instances and proves what matters
most with TLAPS. Every definition is translated from the source; `PROJECT.json`
names the lines each one stands for. The code is under `src/src/core` unless a
path says otherwise.

## 1. The system

The firmware runs two long-lived tasks and short-lived helpers on one chip:

    UI task  <- ServiceMailbox ->  service task  <- WriteQueue ->  storage worker
    (ServiceClient, windows)       (DeviceService, protocol         (MessageTransactions,
                                    engines, MessageStore)           FlashStore, SDStore)
                                        |
                                    radio, TCP, Wi-Fi, voice worker

No lock is shared between the UI and the service: they meet in a mailbox of
atomic slots. The service owns the message store; the store hands every file
operation to the worker through a queue of fixed slots. Files are replaced
atomically on internal flash and, if a card is present, mirrored to it. The
protocol engines (LXMF delivery, links, resources, rooms, voice) are polled by
the service task and call a Rust library through a C interface.

| Component | State it keeps | Operations | Interacts with | What is hard | What makes it correct |
|---|---|---|---|---|---|
| WriteQueue | slot states, tickets, index queue, outstanding count, stop flags | begin, submit, cancel, nextReady, releaseResult, requestStop, finishStop, adoptOwner; the worker's receive, claim, publish | owner task, worker task | publication races, cancel against claim, stop with a full queue | answers in ticket order, none lost or doubled, a stop drains |
| MessageStore | settled ticket, deletion fence, one ticket per background job | submit, poll, peek/release, begin, stop, adopt | WriteQueue, protocol engines | answers settle while the worker completes others; jobs and clients share slots | each answer settled once, in order, before anyone sees it; the fence covers a deletion exactly |
| atomicStream, FlashStore | a path, its `.tmp`, its `.bak` | write, read with fallback, remove, recovery at boot | MessageTransactions, settings, identities | any call may fail, power may fail at any step | a reader sees the old or the new content, and the answer says which |
| MessageTransactions | records on two media in two copies with a revision; deletion cutoff and tombstones; a reserved counter | create, update, mark read, erase, erase one, reclaim, retain audio | storage worker, both media | one medium fails or disappears; crash between steps | what was confirmed stays; what was deleted stays deleted; numbers are not reused |
| ServiceMailbox | slots, ring, admission gates, payload blocks | submit, cancelSend, nextResult, release; take, complete, claim, allowRecovery | UI task, service task | every atomic access is a step of its own | order of requests, cancellation promises, blocks accounted for |
| DeviceService, MaintenanceBarrier | lifecycle slot, barrier phase and latches, status | bindOwner, execute, pollMaintenance, runLifecycle | mailbox, every owner that must drain | owners that never drain, a deadline racing a late success | runs alone, at most once, never after a failure was shown; always a way out |
| SettingsTransaction, UserConfig, IdentityManager | effective settings, a pending mark, two records | apply, settle, recover | FlashStore, SDStore | crash between two records | both or neither |
| RustLxmfEngine | rows with phase, status, receipts, one body buffer | submit, cancel, advance, proof, receipt, storage settlement | store, pump, links, relay | late receipts and proofs, reused rows, cancellation everywhere | a final status is final and durable; no row is stuck |
| RustIncomingDelivery, RustPropagationInbox | held frames, a purge journal | admit, store, acknowledge; list, fetch, store, purge | store, links, pump | acknowledge only what is durable, repeat after a crash | nothing is acknowledged or purged before it is stored |
| Links, resources, rooms | bounded tables with deadlines | open, request, transfer, close | pump, Rust library | timeouts against late answers | tables drain, one owner per entry |
| Transports | client sets, transmit leases and queues | attach, retire, offer, receipt | pump | an old client still running when a new one starts | one terminal event for each lease |
| AudioCoordinator, voice | one atomic word; worker phases | request, claim, release, poll | UI, audio worker | hand-over races | one owner of the audio hardware |
| Factory reset | a scope record | prepare, wipe, complete, resume | FlashStore, SDStore | power failure at any step | the scope outlives what it describes |

Presentation (`src/src/ui`, `core/ui`), board drivers, diagnostics, the launcher
and vendored code have no protocol of their own and are not modelled. The full
list, with a status and a reason for each part, is `components` in `PROJECT.json`;
`hazards` lists what is hard to test, at its line, with the property that covers
it or the reason why none does.

## 2. Modules

| Module | Models | State and actions against the code |
|---|---|---|
| `OrderedTickets` | what the write queue promises | tickets 1, 2, 3 ...; each is pending, cancelling, answered, released; answers come in order |
| `WriteQueue` | `storage/WriteQueue`, budgets of `StorageContract.h` | one variable per field of the class; `submit` is two steps (publish, send the index), `nextReady` reads one slot per step, the worker receives, claims and publishes |
| `MessageStore` | `MessageStore.h`, `MessageStore.cpp`, `MessageStoreTransactions.cpp` | extends `WriteQueue`; `poll` is the position inside `poll()`, which settles and then serves each job |
| `DurableFile` | what a replaceable file promises | the content on disk, the content before it, the answers a write may give |
| `AtomicFile` | `AtomicStream.h`, reader, removal and recovery of `FlashStore.cpp` | the three names of one path; one action per filesystem call, each of which may fail; `Crash` at every step |
| `ServiceMailbox` | `ServiceMailbox.h`, with the parts of the pump, the service and the client that drive it | `ui` and `svc` are the positions of the two tasks; one action per atomic access another task can observe |
| `DeviceService` | `DeviceService.cpp`, `MaintenanceBarrier.h`, `MaintenanceOperation.cpp` | extends `ServiceMailbox`; owners are flags that fall in their own time or never |
| `MessageRecord` | one outgoing record of `MessageTransactions.cpp`, `DeleteRecord.inc`, `SpaceReclaim.inc` on flash and card | `file` are the primary and the backup on each medium, `tombstone` and `cutoff` the deletion markers on flash; `job` is the operation the storage worker is in and its position; one action per write (`atomicStream` with the outcomes `AtomicFile` shows step by step) or removal |
| `OutgoingDelivery` | the rows of `RustLxmfEngine.cpp`, `TxLease.h`, the deferred jobs of `MessageStore` behind them | `row` are the descriptors with their flags, `body` the one workspace, `pass` the results a `loop()` still has to settle, `offering` the packet between two interfaces; the storage worker runs between the former, receipts and proofs arrive inside the latter |
| `CancelledSend` | what `DeviceService` tells the sender of a cancelled message | extends `OutgoingDelivery` with the sends whose sender gave up (`pending.cancelled`) and the records reported as saved with their sending cancelled; a deletion that marks a row says nothing to its sender and is not counted |
| `IncomingDelivery` | `RustIncomingDelivery.cpp` | `row` and `receipt` are the two bounded tables; `Accept`, `Poll`, `Ends`, `Expire`, `DropPeer`, `DropLink`, `StopAdmissions` are its calls, `Work` the storage worker, `Restart` a power failure at any step. `records` says of each record whose message it is and what became of it: on flash, on the card alone, evicted by the space reclaim (to the card, or lost), erased by its tombstone, cut off with its conversation. `DropRecord` is the deletion of a single record, `Reclaim` the eviction |
| `PropagationInbox` | `RustPropagationInbox.cpp`, `MessageTransactions::purgeJournal` | extends `IncomingDelivery`: the row of a fetched message is held there until its commit is known; `stage`, `journal`, `hold`, `storage` are the fields of the class, `file` the journal on flash, which names a message, its record and a node, `relay` and `asked` the node and the permissions on their way to it. A journal is written or replayed only with its record readable and copied to flash (`Secured`); it does not pin the record, which `Reclaim` may take at any time |
| `VoiceCapture` | `AudioCoordinator.h`, `CaptureQuiet.h`, `StorageLease.h`, the life of the task in `VoiceWorker.cpp` | one action per access to a shared atomic, or the work between two of them |
| `MessageStoreProofs`, `AtomicFileProofs`, `MessageRecordProofs`, `ServiceProofs`, `OutgoingDeliveryProofs`, `IncomingDeliveryProofs`, `PropagationInboxProofs`, `VoiceCaptureProofs` | theorems | each about the module it is named after, `MessageStoreProofs` also about `WriteQueue`, `ServiceProofs` about `ServiceMailbox` and `DeviceService`; the proofs of a module that extends another one use that one's; see section 4 |
| `MC*` | TLC instances | request sets; the numbers are in the `.cfg` files |

`MessageStore` composes with `WriteQueue` by conjunction: a step of the store is
a step of the queue and a step of the store's own fields. `DeviceService` does
the same with `ServiceMailbox`, `PropagationInbox` with `IncomingDelivery`. In each module a definition whose comment says
*fault* is not used by the specification: it is a plausible mistake in the code,
which the property it is paired with (`mutants` in `PROJECT.json`) detects.

What is abstracted: payload bytes (a request has a size class or a number of
blocks), message contents (a value), time (a deadline may pass at any moment
once its clock runs), what a normal command does (it finishes when it finishes).
The owner of the write queue, the UI and the file's callers may issue any legal
call in any order; nothing else about them is assumed. The delivery modules see the
store as a list of jobs that are executed in order and answered once (what
`write_queue` and `message_store` show of it) and the interfaces as tasks that
accept or refuse a packet, transmit it or not, and return one receipt for each they
accepted (what `TxLease.h` asks of them).

## 3. Runs

| Run | Bounds | Shows |
|---|---|---|
| `write_queue` | 1 normal slot and the 2 reserved ones, 3 tickets, two tasks, one request of each slot class | admission, cancellation, scans, stop, restart and hand-over in every interleaving with the worker; refinement of `OrderedTickets` |
| `message_store` | the same slots, 3 tickets, two conversations, both jobs, failing and committing executions | settlement order, the fence, the jobs |
| `atomic_file` | 3 contents | a write, its failures, crashes at every step, recovery and removal; refinement of `DurableFile` |
| `service_mailbox` | 2 normal slots, 2 blocks, 3 requests | order, cancellation, blocks, lifecycle |
| `device_service` | 1 normal slot, 1 block, 3 requests | the barrier, its deadline, forced restarts |
| `message_record` | 3 revisions, the statuses queued, delivered, failed, propagated; card in place, pulled, or not in use | failing writes and removals on either medium, crashes in each, deletion of the record and of its conversation, eviction: what was deleted stays deleted, what a medium confirmed is kept, readers go forward |
| `older_mirror` | the same | a violation: see section 5 |
| `outgoing_delivery` | 2 rows, 1 interface, 1 record to create, one possibly left by the last boot, rows at the end of their generations | sends, receipts, proofs, time-outs, cancellation, deletion, retry, recovery and stop in any order: receipts match rows, the workspace comes back, what is deleted is not sent, a proof reaches its record, a stop drains |
| `cancelled_send` | 1 row, 2 records | a violation: see section 5 |
| `incoming_delivery` | 1 row, 2 receipts, 2 messages of two senders, 2 links, 2 records, generations up to 2 | a proof leaves only on the commit of a record of its message that no deletion of the conversation has overtaken; rows and receipts account for each other |
| `propagation_inbox` | 1 row, 2 messages of one sender on one relay node, a second node without any, 1 record, generations up to 2, 2 attempts, 2 messages a cycle | a relay purges only on the permission of a record of that message which had reached this device's flash; the held row is never leaked; cycles end |
| `voice_capture` | the storage executor and the service task, leases nested twice | one owner of the audio hardware, no storage transaction in a recording, the hardware comes back, the executor gets its lease |

Why the bounds are enough. Three tickets are the least with an executing, a
waiting and a sent slot together, the case every ordering property is about, and
they reuse a slot. The queue is full with three slots and a sentinel, and a
sentinel without its own place is detected. Two normal slots of the mailbox let
the ring wrap and two requests overtake; the third request is the lifecycle one.
In `device_service` one normal request, a first lifecycle request and the second
that forces a restart are all there. Three contents distinguish the present, the
previous and anything older. In `message_record` three revisions let the two media
fall two apart and a backup lie behind its primary on both; the four statuses
cover a final receipt, a relay's receipt, a failure that may be retried and a
pending send; `MaxRevision` stands for `UINT32_MAX`, where `update` refuses. Any
number of operations, deletions and crashes follow each other.

In `outgoing_delivery` two rows are what recovery, which walks the rows by a cursor, and
the shared workspace need to get into each other's way. `Worn` starts them near their
last generation, so that a row is reused and is also retired for good. One interface is
enough because the receipts of two are told apart only when they are counted; instances
with two interfaces, without deletions or retries, were checked while the module was
written, and the interface called inside `Offer` may answer before it returns. In
`incoming_delivery` two messages compete for one row and two copies for its receipts,
which is where rows are coalesced, refused and reused. Two records (`MaxRecords`, the
last record counter) are one for each message, or a second one for a message whose first
was evicted, cut off or left on a card that is out. In `propagation_inbox` the two
messages share a sender, so that a deletion meets the one that is under way and the one
that is not. Two generations let the row be used for one and then for the other within a
boot. A single record is obtained by one message and refused to the other, so each
answer of the store occurs, and it may be evicted, erased or cut off with its purge on
the way; that the message which comes again obtains a second record is a case of
`incoming_delivery`, and instances of the inbox with two records were checked for the
two invariants while the module was written, which the theorems state for any number.
Copies of the same messages over links need no proofs there, which `incoming_delivery`
covers. In `voice_capture` one task that waits and one that only tries are all the kinds
of storage task there are.

`MaxGeneration` stands for `UINT32_MAX`, `MaxSequence` and `MaxId` stand for the end of the
counters, where the code refuses as the models do, so the boundary itself is
checked as well. `MaxRecords`, `MaxReceived`, `MaxAttempts` and `MaxDepth` bound the
state space; the second and third are bounds of the code with smaller values.

Fairness. `write_queue`: the worker task is scheduled and its executor returns
(`WF` on the worker), a `submit` that was entered returns. `message_store`: the
service task polls on each tick and finishes the call. `service_mailbox`: `take`
runs on every tick, kept slots are asked for their answer on every tick, and
what a command waits for ends; because other parts of the tick come in between,
these are strong fairness. The UI is never obliged to do anything: an answer may
stay uncollected for ever. `device_service`: the tick runs, time passes; no
owner is obliged to drain, which is what the deadline is for.

`message_record` has safety properties only and assumes no fairness. It does
assume that a card which was pulled is put back between two operations, not within
the milliseconds of one, and that a rename on the card is atomic as on flash.

`outgoing_delivery`: the storage worker works, `loop()` is called on each tick and
goes through its parts, the owner acknowledges what it is told, interfaces return
their receipts. Nobody is obliged to prove a message, to cancel or to stop.
`incoming_delivery` has safety properties only. `propagation_inbox`: the worker
answers, the device task settles the answer and gives up a cycle whose time is over;
the clock goes on. The relay and the link are obliged to nothing. `voice_capture`:
the UI loop and the owner's poll are called, the voice worker goes on (its waits
have time limits; a call lasts until it is stopped), a transaction ends (strong
fairness on the outermost release, since it may nest again and again before), and
the executor, which tries on every tick while recordings are further apart than
ticks, is scheduled in one of the gaps (strong fairness on its acquisition).

A stuck state is an error in the runs of the queue, the store, the files, the
mailbox, the service, the records, the incoming messages and the audio. With bounded
counters these still move at the bound, because polls, scans, crashes, restarts and
clock steps stay possible. In `outgoing_delivery` and `cancelled_send`
(`CHECK_DEADLOCK FALSE`) the system really may stop: an engine that was stopped has
nothing left to do when its rows are drained or their generations used up.

## 4. Theorems

TLAPS proves, for every number of slots, blocks, rows, receipts and tickets, every set
of requests, messages, file contents and statuses, and any bound on the counters:

* `MessageStoreProofs`, the queue: `TypeCorrect`, `OrderCorrect`, `CompletesInOrder`,
  `StopLeavesNothing`. That answers come in ticket order is not inductive: a
  completion preserves it only because the worker took the oldest index. The
  invariant `OrderInvariant` says where an unfinished slot is: in the index queue
  (oldest first, sentinel last), with the worker (older than all of them) or being
  sent (younger), and that a stopped worker has left none of these. Each action
  keeps each conjunct; the two properties follow.
  `RefinesOrderedTickets`: the queue implements `OrderedTickets`. The mapping reads a
  ticket's status off the slot that holds its number; that no number is in two slots
  (in `OrderInvariant`) makes the slot it chooses the only one (`ReadOff`), so a step
  that changes one occupied slot changes one ticket (`OneSlotMoves`). A `submit`
  that sends its index finds room in the index queue, since the slots in it are distinct
  (`RoomForIndex`, by the pigeonhole principle), so no admission is taken back.
* `MessageStoreProofs`, the store: `NoTicketSkipped`, `ReleasedAfterSettled`,
  `DeletionStaysFenced`.
  To settle in ticket order, `poll()` relies on a scan that runs while the worker
  completes other slots. `PollInOrder` says that the scan goes on from the last settled
  ticket, `FoundOldest` that what it has found so far is the oldest it has passed: the
  worker changes the state of a slot but neither empties nor fills one, and the ticket
  after the last settled one is in a slot whenever it was issued. The fence needs
  `OneDeletion`: all deletions share the reserved slot, so a later one is admitted only
  when the earlier one's slot is free.
* `AtomicFileProofs`: `FilesTyped`, `BackupIsPrevious`, `FileIsDurable`. The
  inductive invariant is `TypeOK` with `PlaceInv` (which names exist, and with what,
  at each position of a write) and `BackupInv` (beside a primary, the backup is what
  the last promotion replaced). From it every step of the file is shown to be a step
  or a stutter of `DurableFile`.
* `VoiceCaptureProofs`: `HardwareExclusive`, `RecordingQuiet`, for any set of storage
  tasks and any nesting. `HardwareInv` says in which phases of the coordinator each
  side may have its driver installed and that the worker is past its claim only in
  `Voice`; `QuietInv` that the quiet is the worker's from before the microphone opens
  until after it closed, and that no lease is held past `wait`; `LeaseInv` that the
  admitted transactions are none or the one with the mutex, however deeply it nests.
* `OutgoingDeliveryProofs`: `ReceiptsStayAccounted`, `WorkspaceStaysReturned`,
  `DeletedStaysUnsent`, `ProofsReachRecords`, for any rows, interfaces, attempts, records
  and generations. The invariant `IInv` has a part for each thing two tasks share. `Sound`
  says of a row alone which phases, jobs, statuses and marks go together; `Linked` that a
  row which may still send has a record that is neither erased nor being erased, and that
  what it takes for saved is saved. `JobsInv` ties each job in the store's queue to the row
  that waits for it and lets no deletion stand behind a reader of its record that may
  still send: that reader's answer would otherwise arrive after the record is gone.
  `OfferInv` holds what is known between two interfaces: the row on offer waits for
  nothing, and the receipts of this attempt are those of the interfaces asked, so the
  attempt can be taken back only when none accepted it. `AirInv` is exact: a row counts
  precisely the packets in the air that name it, hence a row that is used again has none.
  Each action moves rows on in one of few ways (`Follows`), replaces rows nothing refers
  to (`Replaced`), or answers one row (`WorkDone`); `NextStep` puts the cases together and
  shows `ProofKept` of every step beside the invariant.
* `IncomingDeliveryProofs`: `RowsAccountedFor`, `ProofsKept`, for
  any messages, senders, rows, receipts, links and generations. `TableInv` adds to the
  matching of rows and receipts that a receipt in use belongs to a row in use; what a
  step does to the two tables is one of four things, with a lemma each. `ProofsKept` says
  what a proof does stand for: a record of that very message was committed for the
  row, and no deletion of its conversation has been carried out since. It does not say
  that the record can still be read: the commit may have met the tombstone of a message
  that came before (`create` answers it as committed, and it stays deleted), and the
  deletion of a single record and the space reclaim take records without asking for
  their proofs. Each queued creation has a row of its own that waits for it
  (`CreatesMatch`); a queued deletion of a conversation is alone, fenced, and its
  conversation has no visible row (`FenceHolds`), so when it is carried out it cuts off
  no record that a visible row vouches for (`CommittedKept`); every other operation of
  the store leaves the records that are not cut off so (`Follows`, `StandsNext`); and a
  proof an interface still holds either names a generation that is over or is of the
  row it was made for (`AirMatches`).
* `PropagationInboxProofs`: `PurgesOnlyKept`, `HeldIsOurs`. A purge is asked for only on a
  result of the store. `PurgeInv` follows that result: it names an operation of the
  stage the cycle is in, and the operation found the journal's record readable and of the
  journal's message and put it on flash. From there a record goes only by its own
  deletion, that of its conversation, or the space reclaim, and its number is not used
  again. So `PurgesOnlyKept` is about the permission: no node purges a message on the strength of
  a record that was only on the card, was of another message, or was not committed. `HeldOnce` says
  that only the row the cycle refers to is held, at which stages, and for the message in
  its journal; it needs the consistency of the tables, so `TableInv` is proved under the
  inbox's steps as well.
* `ServiceProofs`, the mailbox: `BlocksAreAccounted`, `LifecycleIsLast`,
  `CancelIsHonoured`, `TakesInOrder`. `ServiceInv` says what the service task may rely
  on at each of its positions, `AdmissionInv` what a lifecycle request did to the gates.
  `RingInv` reads the ring by request numbers: they grow from head to tail, the slot
  being taken is older than all of them and the one about to be pushed is younger, so
  the slots in the ring are distinct and (pigeonhole) a push always finds room.
  `WaitingInv` places every other waiting slot in the hands of one of the two tasks;
  hence a ring that was seen empty twice means that no normal request is left, which is
  `LifecycleLast`. `CancelInv` follows an acknowledged cancellation through the states
  of its slot until the answer says so.
* `ServiceProofs`, the device service: `OperationAlone`, `FailedForGood`, `WayOutRemains`.
  `DeviceService` takes the mailbox's steps and some of its own; the mailbox invariant
  is proved for the union of both (`Hands`, `Gates` are what the additional steps may
  do), once. On top of it `BarrierInv` relates the barrier's phase to the status, the latches and
  the position of the task, `OwnerInv` says that the request whose operation is under way
  keeps its slot until it is answered, and `OnceInv` that the operation ran at most once
  and only on the way to a failure or a stop.
* `MessageRecordProofs`: `ErasedForGood`, `DeletedForGood`. A confirmed deletion is
  never shown again, and one that a reader has seen is never undone. The invariant
  `DeletionInv` says where a deletion stands: in the tombstone or in one of the two
  cutoffs; in the conversation's cleanup, which removes tombstones, in a cutoff; and
  a cutoff's backup never covers the record when a lower primary is beside it. The
  last part is what makes a failed rewrite of the cutoff harmless, and it shows that
  the branch of `erase` which first restores a higher backup
  (`MessageTransactions.cpp:641`) is not reached from files this code wrote.
  `ConfirmedStays`: `CopiesInv` keeps each medium's backup no newer than its primary and
  what it confirmed no newer than what it shows; `WriteInv` says that nothing in reach is
  newer than what is being written, so that a write cannot hide a newer copy. They also
  show that `commit` never meets a backup it has to promote (`NothingPreferred`).
  `ReadersMoveForward`: revision numbers alone do not decide what is shown, since two
  copies of one revision may differ (see `older_mirror` in section 5). `TwinsInv` says
  where: never on the flash, and on the card only a pair that the flash's copy
  overrules; `PhaseInv` how the operation at work stands to what is shown. Together they
  give that a write is of what is shown or of a later revision, and that eviction takes
  from the flash only what the card shows as well.

Assumptions: `WriteQueueAssumption` (slots, sizes and operations as in
`StorageContract.h`; an executor reports Failed or Committed), `MessageStoreAssumption`
(the requests of jobs are those with a job's operation), `MailboxAssumption` (there is a
slot, a request needs at most four blocks), `AtomicFileAssumption`,
`MessageRecordAssumption` (the marks for an absent and a torn file are not contents),
`VoiceAssumption` (the executor is one of the storage tasks), `IncomingAssumption` (there
is a row, messages are numbers and each has a sender), `InboxAssumption` (a node keeps
known messages), `OutgoingAssumption` (there are a row, an interface and an attempt; what
a boot finds are records with one of the modelled statuses, or erased ones). TLC evaluates all of them on the runs of their modules.

Only model-checked: the liveness properties (TLAPS does not reason about fairness and
ENABLED here). Every safety invariant and every action property of the passing runs is
stated by a theorem. The two findings of section 5 that runs show are violations and have
no theorem.

## 5. Findings about the code worth knowing

* A backup left behind by a failed clean-up (`AtomicStream.h:116`) or by a crash is
  harmless for readers, but a later `FlashStore::remove` of the primary
  (`FlashStore.cpp:280`) uncovers it and the next boot promotes it. The abstract file
  therefore lets a removal fall back to the previous content, once; `BackupInv` shows it
  can be nothing older.
* `older_mirror`. `load()` says: "An unreadable candidate may have a newer revision. Do
  not build a mutation on an older mirror merely because memory/I/O failed."
  (`MessageTransactions.cpp:298`). It tells an unreadable file from a missing one with
  `exists()`, which fails with every other call on a card that was pulled out while
  mounted. If the newer revision is only on that card (its flash write had failed), an
  update proceeds from the older flash copy and takes the same revision number; with
  the card back, the flash copy wins the tie, and a receipt the card had confirmed is
  gone. `ConfirmedKept` therefore speaks of revision numbers, and `ReadersGoForward`
  of the times between which no card came or went.
* `cancelled_send`. `OutgoingContract.h:27` says that a committed result may mean
  "cancellation suppressed network TX", and the service shows such a result as
  "Message saved; sending cancelled" (`DeviceService.cpp:400`) when the sender cancelled.
  The engine's `cancel()` (`RustLxmfEngine.cpp:280`) marks the row in memory only; the record keeps its
  pending status. The next recovery pass, which every boot and every finished deletion
  starts, binds the record to a new row and sends it. A row that a deletion marked is
  another matter: its sender is told only that the message is saved, and sending goes on
  when the deletion fails, as the code means it to.
* A proof that was accepted is kept through everything except a deletion that fails:
  `finishDelete` starts the row over from the record, which has not heard of the proof,
  and the message is sent again. `ProofReachesRecord` excludes that case.
* The purge journal names a record that nothing pins. While the record cannot be read
  (it is on a card that is out, or the space reclaim took it for good), every load of
  the journal fails and every cycle ends with a storage error: nothing is lost by it,
  but nothing else is fetched, in the second case until the conversation is deleted.
* A message the user deleted singly while a relay still keeps it is fetched again in
  every cycle: `create` answers its tombstone as committed, the journal for it is
  refused as stale, and the cycle ends with a storage error and `_index` where it was,
  so the messages behind it wait until the relay drops it or its conversation is deleted.
* The space reclaim may take a received message whose proof has just been sent or whose
  copy a relay is about to purge; without a card in use it is then gone. That is what
  "without a card history rolls off" (`SpaceReclaim.inc:3`) says, and no property here
  denies it.
* A call uses the microphone without `CaptureQuiet`; only memo recordings are kept
  apart from storage transactions, and `QuietWhileRecording` speaks of those.
* Without a card in use, eviction removes the flash copy alone. A card put to use
  later may still hold an older revision, which then is the record again.
* `MessageStore::requestTrim` has no caller, so `trim` is not modelled; it removes the
  primary before the backup, the opposite order of `evictInternal`.
* No statement changes the mailbox generation at run time, so the stale branches of
  `ServiceMailbox.h` cannot be reached; they are left out of the model.

## 6. Not modelled

Parts of modelled components, in the order in which they are worth adding:

1. `MessageTransactions`: the read flag and `markRead`, the audio blob and the prepared
   envelope beside a record, an abstract record that the two media implement, and the
   reserved block of message numbers (`reserveCounter`), whose theorem would be that no
   number is used twice. The ceiling is in NVS, apart from the files, and a boot starts
   from it after reading every record name, so a crash only skips numbers.
2. `RustLxmfEngine`: links and resources for messages that do not fit a packet, sends
   through a relay, memo and room sends. The relay's status is a status like others
   to `MessageRecord`; the transport of large messages is behind the C interface.
3. `RustIncomingDelivery`: reactions and control messages (which have no record of
   their own), reservations for arriving resources.
4. `RustVoiceEngine`: call signalling. Its sessions are those of `protocol/src/voice.rs`,
   a binding to `lxst-embedded`, which holds the call's state machine and which the
   repository has only within a prebuilt library.

Whole components, with their reason in `PROJECT.json`: settings and identities and the
factory reset are sequential code over atomic files, of which `AtomicFile` models one;
links, resources and rooms, the interface pump and the Rust binding (`protocol/src`) rest
on `rns-lite-core` and its codecs, which are here only as a prebuilt library, and are the
delivery models' environment; announces, network
coordination, history windows and the TCP client set are polled by one task over an SDK
and share nothing; the interfaces, drivers, boards, the launcher and the fonts are
presentation and register access.

Proofs to add: an abstract delivery service that the rows of `OutgoingDelivery`
implement, as `DurableFile` is for one file; and, with a model of `reserveCounter`, that
no message number is used twice. The liveness properties stay with TLC.

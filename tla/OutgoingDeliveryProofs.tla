------------------------ MODULE OutgoingDeliveryProofs ------------------------
(***************************************************************************)
(* Theorems about OutgoingDelivery, for any number of rows, interfaces,    *)
(* attempts, records and generations.                                      *)
(*                                                                         *)
(* The inductive invariant IInv has a part for each thing two tasks share: *)
(*   - each row by itself is where its phase, its job, its status and its  *)
(*     marks say (Sound);                                                  *)
(*   - a row that may send has a record that is neither erased nor being   *)
(*     erased, and what a row takes for saved is saved (Linked);           *)
(*   - each job in the store's queue is what its row waits for, and a      *)
(*     deletion waits behind no reader of its record that may still send   *)
(*     (JobsInv), since the answer of such a reader would find it erased;  *)
(*   - the one workspace belongs to the row that reads or offers (BodyInv);*)
(*   - a packet on offer is of a live row that waits for nothing, in an    *)
(*     attempt whose receipts are those of the interfaces asked (OfferInv);*)
(*   - a row counts exactly its packets in the air (AirInv).               *)
(* A row moves on by few kinds of step (Follows); each action is one of    *)
(* them on one row or on all, with what it does to the store and the air.  *)
(***************************************************************************)
EXTENDS OutgoingDelivery, FiniteSetTheorems, SequenceTheorems, WellFoundedInduction, TLAPS

Phases  == {"Free", "Saving", "Query", "Ready", "Reading", "AwaitProof", "Grace",
            "Resource", "Settled"}
Flags   == {"Acknowledged", "Suppressed", "InitialSuppressed", "DeletePending", "Deleted"}
Ops     == {"none", "Create", "Update", "Read", "Pending"}
Results == {"none", "waiting", "Committed", "Failed", "Cancelled"}
Windows == {"none", "open", "over"}
Variants == 0 .. ProofAttempts

Rows == [gen : Nat, phase : Phases, flags : SUBSET Flags, counter : Nat,
         desired : Statuses, durable : Statuses, err : BOOLEAN, op : Ops, result : Results,
         target : Statuses, at : Nat, proofs : Variants, mask : SUBSET Variants,
         queued : Nat, flown : SUBSET Variants, window : Windows]

Fresh  == {"Saving", "Query"}
Active == {"Ready", "Reading", "AwaitProof", "Grace", "Resource"}

(* A row by itself: where it may be for what it has done.                  *)
PhaseSound(r) ==
  /\ r.phase = "Free" => /\ r.op = "none" /\ r.window = "none" /\ r.mask = {} /\ r.queued = 0
                         /\ r.counter = 0 /\ r.desired = "QUEUED" /\ r.durable = "QUEUED"
                         /\ {"DeletePending", "Deleted"} \cap r.flags = {}
  /\ r.phase \in Fresh =>
       /\ r.mask = {} /\ r.flown = {} /\ r.counter = 0
       /\ r.proofs = 0 /\ r.desired = "QUEUED" /\ r.durable = "QUEUED"
       /\ r.op \in {"none", "Create", "Pending"}
  /\ r.phase \in {"Ready", "Reading"} => r.proofs < ProofAttempts
  /\ r.phase \in Active => r.counter # 0 /\ "Suppressed" \notin r.flags

(* What a row waits for fits its phase and its record.                     *)
OpSound(r) ==
  /\ r.op = "Create" => r.phase = "Saving"
  /\ r.op = "Pending" => r.phase = "Query"
  /\ r.op \in {"Read", "Update"} => r.counter # 0
  /\ r.op = "Read" => r.proofs < ProofAttempts
  /\ r.op = "none" => r.result = "none"
  /\ r.result # "Committed" => r.at = 0

(* What a row's status, marks and receipts say of it.                      *)
MarkSound(r) ==
  /\ r.desired = "DELIVERED" => r.phase = "Settled" /\ r.counter # 0
  /\ r.durable = "DELIVERED" => r.counter # 0
  /\ "Suppressed" \in r.flags => r.mask = {}
  /\ r.mask # {} \/ r.flown # {} => r.counter # 0
  /\ "DeletePending" \in r.flags =>
       r.phase = "Settled" /\ "Suppressed" \in r.flags /\ r.counter # 0
  /\ "Deleted" \in r.flags => r.phase = "Settled" /\ "Suppressed" \in r.flags /\ r.counter # 0

Sound(r) == r \in Rows /\ PhaseSound(r) /\ OpSound(r) /\ MarkSound(r)

(* A row that may still send something.                                    *)
Sending(r) ==
  \/ r.mask # {} \/ r.phase = "Resource" \/ (r.phase = "Reading" /\ r.op # "Read")
  \/ r.op = "Read" /\ r.result = "Committed" /\ "Suppressed" \notin r.flags

(* A step that leaves alone what the store and the interfaces know of the  *)
(* row.                                                                    *)
SameJob(r, n) ==
  /\ n.gen = r.gen /\ n.counter = r.counter /\ n.durable = r.durable
  /\ n.op = r.op /\ n.result = r.result /\ n.at = r.at /\ n.target = r.target

Follows(r, n) ==
  /\ Sound(n) /\ SameJob(r, n)
  /\ n.phase = "Free" <=> r.phase = "Free"
  /\ "Suppressed" \in r.flags => "Suppressed" \in n.flags
  /\ Sending(n) => Sending(r)
  /\ "DeletePending" \in n.flags => "DeletePending" \in r.flags
  /\ "Deleted" \in n.flags => "Deleted" \in r.flags
  /\ r.desired = "DELIVERED" => n.desired = "DELIVERED"

(* What it counts is as before, or nothing is counted on any more.         *)
Counts(r, n) == n.queued = r.queued /\ (n.proofs >= r.proofs \/ "Suppressed" \in n.flags)

(* The fields of a row and their ranges.                                   *)
LEMMA RowTyped ==
  ASSUME NEW r \in Rows
  PROVE  /\ r.gen \in Nat /\ r.phase \in Phases /\ r.flags \in SUBSET Flags /\ r.counter \in Nat
         /\ r.desired \in Statuses /\ r.durable \in Statuses /\ r.op \in Ops
         /\ r.result \in Results /\ r.target \in Statuses /\ r.at \in Nat
         /\ r.proofs \in Variants /\ r.mask \in SUBSET Variants /\ r.queued \in Nat
         /\ r.flown \in SUBSET Variants /\ r.window \in Windows
BY DEF Rows

LEMMA AttemptsNat == ProofAttempts \in Nat /\ ProofAttempts # 0
BY OutgoingAssumption

(* A fresh descriptor is sound and may not send.                           *)
LEMMA DescriptorIs ==
  ASSUME NEW g \in Nat, NEW p \in Phases \ Active, NEW f \in SUBSET {"Acknowledged"}
  PROVE  /\ Sound(Descriptor(g, p, f)) /\ ~Sending(Descriptor(g, p, f))
         /\ Descriptor(g, p, f).gen = g /\ Descriptor(g, p, f).phase = p
         /\ Descriptor(g, p, f).op = "none" /\ Descriptor(g, p, f).counter = 0
         /\ Descriptor(g, p, f).queued = 0 /\ Descriptor(g, p, f).at = 0
         /\ Descriptor(g, p, f).durable = "QUEUED" /\ Descriptor(g, p, f).flags = f
         /\ Descriptor(g, p, f).desired = "QUEUED"
<1> DEFINE d == Descriptor(g, p, f)
<1>1. /\ d.gen = g /\ d.phase = p /\ d.flags = f /\ d.counter = 0 /\ d.desired = "QUEUED"
      /\ d.durable = "QUEUED" /\ d.err = FALSE /\ d.op = "none" /\ d.result = "none"
      /\ d.target = "QUEUED" /\ d.at = 0 /\ d.proofs = 0 /\ d.mask = {} /\ d.queued = 0
      /\ d.flown = {} /\ d.window = "none"
  BY DEF Descriptor
<1>2. d \in Rows
  <2>1. 0 \in Variants /\ f \in SUBSET Flags /\ p \in Phases
    BY AttemptsNat DEF Variants, Flags
  <2> QED
    BY <2>1 DEF Rows, Descriptor, Ops, Results, Windows, Statuses
<1> HIDE DEF d
<1>3. Sound(d)
  BY <1>1, <1>2, AttemptsNat DEF Sound, PhaseSound, OpSound, MarkSound, Active, Fresh
<1>4. ~Sending(d)
  BY <1>1 DEF Sending, Active
<1> QED
  BY <1>1, <1>3, <1>4 DEF d

(* cancel()                                                                *)
LEMMA CancelledIs ==
  ASSUME NEW r, Sound(r), r.phase # "Free"
  PROVE  /\ Follows(r, Cancelled(r)) /\ Counts(r, Cancelled(r))
         /\ ~Sending(Cancelled(r)) /\ "Suppressed" \in Cancelled(r).flags
         /\ Cancelled(r).proofs = r.proofs /\ Cancelled(r).desired = r.desired
<1> DEFINE n == Cancelled(r)
           q == IF r.op # "none" /\ r.phase \in Fresh THEN r.phase ELSE "Settled"
<1>1. r \in Rows
  BY DEF Sound
<1>2. n = [r EXCEPT !.flags = r.flags \cup {"Suppressed"}, !.mask = {}, !.phase = q]
  BY DEF Cancelled, Fresh
<1>3. /\ n.gen = r.gen /\ n.phase = q /\ n.flags = r.flags \cup {"Suppressed"} /\ n.counter = r.counter
      /\ n.desired = r.desired /\ n.durable = r.durable /\ n.op = r.op /\ n.result = r.result
      /\ n.target = r.target /\ n.at = r.at /\ n.proofs = r.proofs /\ n.mask = {}
      /\ n.queued = r.queued /\ n.flown = r.flown /\ n.window = r.window
  BY <1>1, <1>2 DEF Rows
<1>4. n \in Rows
  <2>1. q \in Phases /\ r.flags \cup {"Suppressed"} \in SUBSET Flags /\ {} \in SUBSET Variants
    BY <1>1, RowTyped DEF Phases, Flags, Fresh
  <2> HIDE DEF q
  <2> QED
    BY <1>1, <1>2, <2>1 DEF Rows
<1> HIDE DEF n
<1>5. Sound(n)
  BY <1>1, <1>3, <1>4, RowTyped DEF Sound, PhaseSound, OpSound, MarkSound, Active, Fresh
<1>6. ~Sending(n)
  BY <1>3 DEF Sending, Fresh
<1>7. n.proofs >= r.proofs
  BY <1>1, <1>3, RowTyped, AttemptsNat DEF Variants
<1> QED
  BY <1>3, <1>5, <1>6, <1>7 DEF Follows, SameJob, Counts, Fresh, n
(* The row with a new status, in a new phase or with its grace window in a *)
(* new state keeps its job and its counts.                                 *)
Alike(r, n) ==
  /\ n \in Rows /\ SameJob(r, n) /\ n.flags = r.flags /\ n.proofs = r.proofs
  /\ n.queued = r.queued /\ n.flown = r.flown

StatusSet(r, st, n) ==
  /\ Alike(r, n) /\ n.window = r.window /\ n.mask \in {r.mask, {}} /\ n.desired \in {r.desired, st}
  /\ st # "DELIVERED" => n.phase = r.phase /\ n.mask = r.mask
  /\ st = "DELIVERED" => n.phase \in {r.phase, "Settled"}
  /\ r.desired = "DELIVERED" \/ "Deleted" \in r.flags => n = r

PhaseSet(r, p, n)  == Alike(r, n) /\ n.phase = p /\ n.window = r.window /\ n.mask = r.mask /\ n.desired = r.desired
WindowSet(r, w, n) == Alike(r, n) /\ n.phase = r.phase /\ n.window = w /\ n.mask = r.mask /\ n.desired = r.desired

(* What setStatus() changes in a row, and what it never does.              *)
LEMMA SetStatusIs ==
  ASSUME NEW r \in Rows, NEW st \in Statuses
  PROVE  StatusSet(r, st, SetStatus(r, st))
<1> DEFINE n == SetStatus(r, st)
<1>1. CASE "Deleted" \in r.flags \/ r.desired \in {"DELIVERED", st}
  <2>1. n = r
    BY <1>1 DEF SetStatus
  <2> HIDE DEF n
  <2> QED
    BY <1>1, <2>1 DEF StatusSet, Alike, SameJob, n
<1>2. CASE ~("Deleted" \in r.flags \/ r.desired \in {"DELIVERED", st}) /\ st # "DELIVERED"
  <2>1. n = [r EXCEPT !.desired = st]
    BY <1>2 DEF SetStatus
  <2> QED
    BY <1>2, <2>1 DEF Rows, SameJob, StatusSet, Alike
<1>3. CASE ~("Deleted" \in r.flags \/ r.desired \in {"DELIVERED", st}) /\ st = "DELIVERED"
  <2>1. n = [r EXCEPT !.desired = st, !.mask = {}, !.phase = "Settled"]
    BY <1>3 DEF SetStatus
  <2>2. "Settled" \in Phases /\ {} \in SUBSET Variants
    BY DEF Phases
  <2> QED
    BY <1>3, <2>1, <2>2 DEF Rows, SameJob, StatusSet, Alike
<1> QED
  BY <1>1, <1>2, <1>3

LEMMA PhasesAre == /\ "Free" \in Phases /\ "Saving" \in Phases /\ "Query" \in Phases
                   /\ "Ready" \in Phases /\ "Reading" \in Phases /\ "AwaitProof" \in Phases
                   /\ "Grace" \in Phases /\ "Resource" \in Phases /\ "Settled" \in Phases
                   /\ "none" \in Windows /\ "open" \in Windows /\ "over" \in Windows
BY DEF Phases, Windows

LEMMA StatusesAre == /\ "QUEUED" \in Statuses /\ "SENT" \in Statuses /\ "DELIVERED" \in Statuses
                     /\ "FAILED" \in Statuses /\ "UNCONFIRMED" \in Statuses
BY DEF Statuses

(* A row with another phase is otherwise the same.                         *)
LEMMA Rephased ==
  ASSUME NEW r \in Rows, NEW p \in Phases
  PROVE  PhaseSet(r, p, [r EXCEPT !.phase = p])
BY DEF Rows, SameJob, PhaseSet, Alike

LEMMA Windowed ==
  ASSUME NEW r \in Rows, NEW w \in Windows
  PROVE  WindowSet(r, w, [r EXCEPT !.window = w])
BY DEF Rows, SameJob, WindowSet, Alike

(* A row on its way that keeps its job and its marks and takes one of the  *)
(* phases an attempt may lead to.                                          *)
LEMMA MovesOn ==
  ASSUME NEW r, Sound(r), NEW n, n \in Rows, SameJob(r, n), n.flags = r.flags,
         r.phase \in Active, r.op # "Create", r.op # "Pending",
         n.phase \in Active \cup {"Settled"},
         n.phase \in {"Ready", "Reading"} \/ n.op = "Read" => n.proofs < ProofAttempts,
         n.desired = "DELIVERED" => n.phase = "Settled",
         Sending(n) => Sending(r)
  PROVE  Follows(r, n)
<1>1. r \in Rows /\ r.counter # 0 /\ "Suppressed" \notin r.flags /\ r.desired # "DELIVERED"
      /\ n.counter # 0 /\ r.phase # "Free" /\ n.phase # "Free"
  BY DEF Sound, PhaseSound, MarkSound, SameJob, Active
<1>2. PhaseSound(n)
  BY <1>1 DEF PhaseSound, SameJob, Active, Fresh
<1>3. OpSound(n)
  BY <1>1 DEF Sound, OpSound, SameJob, Active
<1>4. MarkSound(n)
  BY <1>1 DEF Sound, MarkSound, SameJob, Active
<1> QED
  BY <1>1, <1>2, <1>3, <1>4 DEF Sound, Follows, Active

(* A row on its way waits neither for its creation nor for a search, and   *)
(* is not yet proved.                                                      *)
LEMMA NoJobYet ==
  ASSUME NEW r, Sound(r), r.phase \in Active
  PROVE  r.op # "Create" /\ r.op # "Pending" /\ r.desired # "DELIVERED" /\ r.phase # "Free"
BY DEF Sound, OpSound, MarkSound, Active

LEMMA ProofsNat == ASSUME NEW r, Sound(r)
  PROVE  /\ r \in Rows /\ r.proofs \in Nat /\ r.proofs \in Variants /\ ProofAttempts \in Nat
         /\ r.mask \in SUBSET Variants /\ r.flown \in SUBSET Variants /\ r.queued \in Nat
BY RowTyped, AttemptsNat DEF Sound, Variants

(* An unchanged row follows itself, and followers compose.                 *)
LEMMA SameFollows ==
  ASSUME NEW r, Sound(r)
  PROVE  Follows(r, r) /\ Counts(r, r)
BY ProofsNat DEF Follows, SameJob, Counts

LEMMA FollowsTwice ==
  ASSUME NEW r, NEW m, NEW n, Follows(r, m), Follows(m, n)
  PROVE  Follows(r, n)
BY DEF Follows, SameJob

(* A status other than delivered is set in place.                          *)
LEMMA OtherStatus ==
  ASSUME NEW r, Sound(r), NEW st \in Statuses, st # "DELIVERED", r.phase \notin Fresh \cup {"Free"},
         NEW n, n = SetStatus(r, st)
  PROVE  /\ Follows(r, n) /\ Counts(r, n) /\ StatusSet(r, st, n)
<1>1. r \in Rows /\ r.proofs \in Nat
  BY ProofsNat
<1>2. StatusSet(r, st, n)
  BY <1>1, SetStatusIs
<1>3. Sound(n)
  <2>1. PhaseSound(n)
    BY <1>2 DEF Sound, PhaseSound, SameJob, StatusSet, Alike
  <2>2. OpSound(n)
    BY <1>2 DEF Sound, OpSound, SameJob, StatusSet, Alike
  <2>3. MarkSound(n)
    BY <1>2 DEF Sound, MarkSound, SameJob, StatusSet, Alike
  <2> QED
    BY <1>2, <2>1, <2>2, <2>3 DEF Sound, StatusSet, Alike
<1>4. Sending(n) => Sending(r)
  BY <1>2 DEF Sending, SameJob, StatusSet, Alike
<1> QED
  BY <1>1, <1>2, <1>3, <1>4 DEF Follows, Counts, StatusSet, Alike

(* A proof settles a row that has a record.                                *)
LEMMA DeliveredStatus ==
  ASSUME NEW r, Sound(r), r.counter # 0, NEW n, n = SetStatus(r, "DELIVERED")
  PROVE  /\ Follows(r, n) /\ Counts(r, n) /\ StatusSet(r, "DELIVERED", n)
         /\ n = r \/ n.desired = "DELIVERED"
<1>1. r \in Rows /\ r.proofs \in Nat /\ r.phase \notin Fresh \cup {"Free"}
      /\ r.op # "Create" /\ r.op # "Pending"
  BY ProofsNat DEF Sound, PhaseSound, OpSound, Fresh
<1>2. StatusSet(r, "DELIVERED", n)
  BY <1>1, SetStatusIs, StatusesAre
<1>3. CASE "Deleted" \in r.flags \/ r.desired = "DELIVERED"
  BY <1>1, <1>2, <1>3, SameFollows DEF SetStatus
<1>4. CASE ~("Deleted" \in r.flags \/ r.desired = "DELIVERED")
  <2>1. n = [r EXCEPT !.desired = "DELIVERED", !.mask = {}, !.phase = "Settled"]
    BY <1>4 DEF SetStatus
  <2>2. n.desired = "DELIVERED" /\ n.mask = {} /\ n.phase = "Settled"
    BY <1>1, <2>1 DEF Rows
  <2>4. PhaseSound(n)
    BY <2>2 DEF PhaseSound, Fresh, Active
  <2>5. OpSound(n)
    BY <1>1, <1>2, <2>2 DEF Sound, OpSound, SameJob, StatusSet, Alike
  <2>6. MarkSound(n)
    BY <1>2, <2>2 DEF Sound, MarkSound, SameJob, StatusSet, Alike
  <2>7. Sending(n) => Sending(r)
    BY <1>2, <2>2 DEF Sending, SameJob, StatusSet, Alike
  <2> QED
    BY <1>1, <1>2, <2>2, <2>4, <2>5, <2>6, <2>7 DEF Follows, Counts, Fresh, Sound, StatusSet, Alike
<1> QED
  BY <1>3, <1>4

(* the waits of advance()                                                  *)
LEMMA UnconfirmedIs ==
  ASSUME NEW r, Sound(r), r.phase \in Active, r.op # "Read", NEW n, n = Unconfirmed(r)
  PROVE  /\ Follows(r, n) /\ Counts(r, n) /\ Alike(r, n) /\ n.phase = "Grace" /\ n.mask = r.mask
<1> DEFINE x == [r EXCEPT !.phase = "Grace"]
           y == [r EXCEPT !.phase = "Grace", !.window = "open"]
<1>1. r \in Rows /\ r.proofs \in Nat
  BY ProofsNat
<1>2. y = [x EXCEPT !.window = "open"] /\ n = SetStatus(y, "UNCONFIRMED") /\ x = [r EXCEPT !.phase = "Grace"]
  BY DEF Unconfirmed
<1> HIDE DEF x, y
<1>3. PhaseSet(r, "Grace", x)
  BY <1>1, <1>2, PhasesAre, Rephased
<1>4. WindowSet(x, "open", y)
  <2>1. x \in Rows
    BY <1>3 DEF PhaseSet, Alike
  <2> QED
    BY <1>2, <2>1, PhasesAre, Windowed
<1>5. StatusSet(y, "UNCONFIRMED", n)
  <2>1. y \in Rows
    BY <1>4 DEF WindowSet, Alike
  <2> QED
    BY <1>2, <2>1, SetStatusIs, StatusesAre
<1>6. Alike(r, n) /\ n.phase = "Grace" /\ n.mask = r.mask /\ n.desired \in {r.desired, "UNCONFIRMED"}
  BY <1>3, <1>4, <1>5 DEF SameJob, Alike, PhaseSet, WindowSet, StatusSet
<1>7. Sending(n) => Sending(r)
  BY <1>6 DEF Sending, SameJob, Alike
<1>8. Follows(r, n)
  BY <1>6, <1>7, NoJobYet, MovesOn DEF Active, SameJob, Alike
<1> QED
  BY <1>1, <1>6, <1>8 DEF Counts, Alike

(* The row moves to another phase and learns a status other than delivered. *)
LEMMA PhaseAndStatus ==
  ASSUME NEW r, Sound(r), r.phase \in Active, r.op # "Read",
         NEW p, p \in {"Ready", "Settled"}, p = "Ready" => r.proofs < ProofAttempts,
         NEW st \in Statuses, st # "DELIVERED",
         NEW n, n = SetStatus([r EXCEPT !.phase = p], st) \/ n = [r EXCEPT !.phase = p]
  PROVE  /\ Follows(r, n) /\ Counts(r, n) /\ Alike(r, n) /\ n.phase = p /\ n.mask = r.mask
<1> DEFINE x == [r EXCEPT !.phase = p]
<1>1. r \in Rows /\ r.proofs \in Nat
  BY ProofsNat
<1>2. PhaseSet(r, p, x)
  BY <1>1, PhasesAre, Rephased
<1> HIDE DEF x
<1>3. PhaseSet(x, p, n) \/ StatusSet(x, st, n)
  <2>1. x \in Rows
    BY <1>2 DEF PhaseSet, Alike
  <2>2. CASE n = x
    BY <1>2, <2>1, <2>2 DEF PhaseSet, Alike, SameJob
  <2>3. CASE n = SetStatus(x, st)
    BY <2>1, <2>3, SetStatusIs
  <2> QED
    BY <2>2, <2>3 DEF x
<1>4. Alike(r, n) /\ n.phase = p /\ n.mask = r.mask /\ n.desired \in {r.desired, st}
  BY <1>2, <1>3 DEF SameJob, Alike, PhaseSet, StatusSet
<1>5. Sending(n) => Sending(r)
  BY <1>4 DEF Sending, SameJob, Alike
<1>6. Follows(r, n)
  BY <1>4, <1>5, NoJobYet, MovesOn DEF Active, SameJob, Alike
<1> QED
  BY <1>1, <1>4, <1>6 DEF Counts, Alike

(* What the time limits of advance() do to a row that waits for nothing.   *)
LEMMA AgedIs ==
  ASSUME NEW r, Sound(r), NEW n \in Aged(r), r.op = "none"
  PROVE  /\ Follows(r, n) /\ Counts(r, n) /\ Alike(r, n) /\ n.mask = r.mask
         /\ r.phase \in {"Reading", "Resource", "Ready"} => n = r
         /\ n.phase \in {"Ready", "Reading"} => r.phase \in {"Ready", "AwaitProof", "Reading"}
         /\ n.phase = "Ready" => r.phase # "Reading"
         /\ n.phase = "Settled" \/ n.phase \in Active \/ n = r
<1>1. r \in Rows
  BY DEF Sound
<1>2. CASE n = r
  BY <1>1, <1>2, SameFollows DEF Aged, Alike, SameJob
<1>3. CASE r.phase = "Grace" /\ r.window = "over" /\ n = [r EXCEPT !.phase = "Settled"]
  BY <1>3, PhaseAndStatus, StatusesAre DEF Active
<1>4. CASE r.phase = "AwaitProof" /\ n = TimedOut(r)
  <2>1. CASE r.proofs >= ProofAttempts
    <3>1. n = Unconfirmed(r)
      BY <1>4, <2>1 DEF TimedOut
    <3> QED
      BY <1>4, <3>1, UnconfirmedIs DEF Active
  <2>2. CASE ~(r.proofs >= ProofAttempts)
    <3>1. n = SetStatus([r EXCEPT !.phase = "Ready"], "QUEUED")
      BY <1>4, <2>2 DEF TimedOut
    <3>2. r.proofs < ProofAttempts
      BY <2>2, ProofsNat
    <3> QED
      BY <1>4, <3>1, <3>2, PhaseAndStatus, StatusesAre DEF Active
  <2> QED
    BY <2>1, <2>2
<1> QED
  BY <1>2, <1>3, <1>4 DEF Aged

(* stopAdmissions(): Interrupted                                           *)
LEMMA InterruptedIs ==
  ASSUME NEW r, Sound(r), r.phase # "Free", NEW n, n = Interrupted(r)
  PROVE  /\ Follows(r, n) /\ Counts(r, n) /\ ~Sending(n) /\ "Suppressed" \in n.flags
<1>1. CASE r.desired = "SENT"
  <2> DEFINE x == SetStatus(r, "QUEUED")
  <2>1. r.phase \notin Fresh \cup {"Free"}
    BY <1>1 DEF Sound, PhaseSound
  <2>2. Follows(r, x) /\ Counts(r, x)
    BY <2>1, OtherStatus, StatusesAre
  <2>3. n = Cancelled(x)
    BY <1>1 DEF Interrupted
  <2> HIDE DEF x
  <2>4. Sound(x) /\ x.phase # "Free"
    BY <2>1, <2>2 DEF Follows
  <2>5. Follows(x, n) /\ Counts(x, n) /\ ~Sending(n) /\ "Suppressed" \in n.flags
    BY <2>3, <2>4, CancelledIs
  <2>6. Follows(r, n)
    BY <2>2, <2>5, FollowsTwice
  <2> QED
    BY <2>2, <2>5, <2>6 DEF Counts
<1>2. CASE r.desired # "SENT"
  <2>1. n = Cancelled(r)
    BY <1>2 DEF Interrupted
  <2> QED
    BY <2>1, CancelledIs
<1> QED
  BY <1>1, <1>2

(* attempt()                                                               *)
LEMMA GivesUpIs ==
  ASSUME NEW r, Sound(r), r.phase \in Active, r.op = "none", NEW n, n = GivesUp(r)
  PROVE  /\ Follows(r, n) /\ Counts(r, n)
<1>1. n = Unconfirmed(r) \/ n = SetStatus([r EXCEPT !.phase = "Settled"], "FAILED")
  BY DEF GivesUp
<1>2. CASE n = Unconfirmed(r)
  BY <1>2, UnconfirmedIs
<1>3. CASE n = SetStatus([r EXCEPT !.phase = "Settled"], "FAILED")
  BY <1>3, PhaseAndStatus, StatusesAre
<1> QED
  BY <1>1, <1>2, <1>3

(* An attempt that finds no route makes the row ready again; one that      *)
(* hands it to a link makes it a resource.                                 *)
LEMMA ReadyAgain ==
  ASSUME NEW r, Sound(r), r.phase = "Reading", r.op = "none", NEW n, n = [r EXCEPT !.phase = "Ready"]
  PROVE  /\ Follows(r, n) /\ Counts(r, n)
<1>1. r.proofs < ProofAttempts
  BY DEF Sound, PhaseSound
<1> QED
  BY <1>1, PhaseAndStatus, StatusesAre DEF Active

LEMMA AsResource ==
  ASSUME NEW r, Sound(r), r.phase = "Reading", r.op = "none", NEW n, n = [r EXCEPT !.phase = "Resource"]
  PROVE  /\ Follows(r, n) /\ Counts(r, n)
<1>1. r \in Rows /\ r.proofs \in Nat
  BY ProofsNat
<1>2. PhaseSet(r, "Resource", n)
  BY <1>1, PhasesAre, Rephased
<1>3. Sending(r)
  BY DEF Sending
<1>4. Follows(r, n)
  BY <1>2, <1>3, NoJobYet, MovesOn DEF Active, SameJob, Alike, PhaseSet
<1> QED
  BY <1>1, <1>2, <1>4 DEF Counts, PhaseSet, Alike

(* preparePacket()                                                         *)
LEMMA PreparedIs ==
  ASSUME NEW r, Sound(r), r.phase = "Reading", r.op = "none", r.proofs < ProofAttempts
  PROVE  /\ Follows(r, Prepared(r)) /\ Counts(r, Prepared(r))
         /\ Prepared(r).phase = "AwaitProof" /\ Prepared(r).proofs = r.proofs + 1
         /\ Prepared(r).flags = r.flags
<1> DEFINE n == Prepared(r)
<1>1. r \in Rows /\ r.proofs \in Nat /\ ProofAttempts \in Nat
  BY ProofsNat
<1>2. r.proofs + 1 \in Variants /\ r.mask \cup {r.proofs} \in SUBSET Variants
  <2>1. r.proofs \in 0 .. ProofAttempts /\ r.proofs + 1 \in 0 .. ProofAttempts
    BY <1>1
  <2>2. r.mask \in SUBSET Variants
    BY ProofsNat
  <2> QED
    BY <2>1, <2>2 DEF Variants
<1>3. n \in Rows /\ SameJob(r, n) /\ n.flags = r.flags /\ n.phase = "AwaitProof"
      /\ n.proofs = r.proofs + 1 /\ n.queued = r.queued /\ n.desired = r.desired
  <2> DEFINE m == r.mask \cup {r.proofs}
             p == r.proofs + 1
  <2>1. n = [r EXCEPT !.mask = m, !.proofs = p, !.phase = "AwaitProof"]
    BY DEF Prepared
  <2>2. m \in SUBSET Variants /\ p \in Variants
    BY <1>2
  <2> HIDE DEF n, m, p
  <2>3. n \in Rows /\ SameJob(r, n) /\ n.flags = r.flags /\ n.phase = "AwaitProof"
        /\ n.proofs = p /\ n.queued = r.queued /\ n.desired = r.desired
    BY <1>1, <2>1, <2>2, PhasesAre DEF Rows, SameJob
  <2> QED
    BY <2>3 DEF p
<1> HIDE DEF n
<1>4. Sending(r)
  BY DEF Sending
<1>5. Follows(r, n)
  BY <1>3, <1>4, NoJobYet, MovesOn DEF Active, SameJob
<1>6. n.proofs >= r.proofs
  BY <1>1, <1>3
<1> QED
  BY <1>3, <1>5, <1>6 DEF Counts, n

(* A receipt more or less.                                                 *)
LEMMA QueuedIs ==
  ASSUME NEW r, Sound(r), r.phase # "Free", NEW q \in Nat, NEW n, n = [r EXCEPT !.queued = q]
  PROVE  /\ Follows(r, n) /\ n.queued = q /\ n.proofs = r.proofs /\ n.flags = r.flags
         /\ n.phase = r.phase /\ n.desired = r.desired /\ n.mask = r.mask /\ n.flown = r.flown
         /\ n.window = r.window
<1>1. r \in Rows
  BY DEF Sound
<1>2. /\ n \in Rows /\ SameJob(r, n) /\ n.queued = q /\ n.proofs = r.proofs /\ n.flags = r.flags
      /\ n.phase = r.phase /\ n.desired = r.desired /\ n.mask = r.mask /\ n.flown = r.flown
      /\ n.window = r.window
  BY <1>1 DEF Rows, SameJob
<1>3. PhaseSound(n)
  BY <1>2 DEF Sound, PhaseSound, SameJob
<1>4. OpSound(n)
  BY <1>2 DEF Sound, OpSound, SameJob
<1>5. MarkSound(n)
  BY <1>2 DEF Sound, MarkSound, SameJob
<1>6. Sending(n) => Sending(r)
  BY <1>2 DEF Sending, SameJob
<1> QED
  BY <1>2, <1>3, <1>4, <1>5, <1>6 DEF Sound, Follows

(* A receipt that comes back is counted off, and nothing else changes.     *)
LEMMA ReturnedIs ==
  ASSUME NEW r, Sound(r), r.phase # "Free", NEW a, NEW n, n = Returned(a, r)
  PROVE  /\ Follows(r, n) /\ n.queued = (IF r.queued > 0 THEN r.queued - 1 ELSE r.queued)
         /\ n.proofs = r.proofs /\ n.flags = r.flags
         /\ n.phase = r.phase /\ n.desired = r.desired /\ n.mask = r.mask /\ n.flown = r.flown
<1> DEFINE q == IF r.queued > 0 THEN r.queued - 1 ELSE r.queued
<1>1. q \in Nat
  <2>1. r.queued \in Nat
    BY ProofsNat
  <2> QED
    BY <2>1
<1>2. n = [r EXCEPT !.queued = q]
  BY DEF Returned
<1> HIDE DEF q
<1>3. /\ Follows(r, n) /\ n.queued = q /\ n.proofs = r.proofs /\ n.flags = r.flags
      /\ n.phase = r.phase /\ n.desired = r.desired /\ n.mask = r.mask /\ n.flown = r.flown
  BY <1>1, <1>2, QueuedIs
<1> QED
  BY <1>3 DEF q

(* offerPrepared(): nobody took the packet.                                *)
LEMMA RolledBackIs ==
  ASSUME NEW r, Sound(r), r.phase = "AwaitProof", r.op = "none", r.proofs # 0, NEW n, n = RolledBack(r)
  PROVE  /\ Follows(r, n) /\ n.queued = r.queued /\ n.proofs = r.proofs - 1 /\ n.flags = r.flags
         /\ n.phase = "Ready"
<1>1. r \in Rows /\ r.proofs \in Nat /\ ProofAttempts \in Nat /\ r.proofs \in Variants
      /\ r.mask \in SUBSET Variants
  BY ProofsNat
<1> DEFINE p == r.proofs - 1
           m == r.mask \ {r.proofs - 1}
<1>2. p \in Variants /\ p < ProofAttempts /\ m \in SUBSET Variants
  <2>1. p \in 0 .. ProofAttempts /\ p < ProofAttempts
    BY <1>1 DEF Variants
  <2> QED
    BY <1>1, <2>1 DEF Variants
<1>3. n = [r EXCEPT !.proofs = p, !.mask = m, !.phase = "Ready"] /\ m \subseteq r.mask
  BY DEF RolledBack
<1> HIDE DEF p, m
<1>4. /\ n \in Rows /\ SameJob(r, n) /\ n.flags = r.flags /\ n.phase = "Ready" /\ n.mask = m
      /\ n.proofs = p /\ n.queued = r.queued /\ n.desired = r.desired
  BY <1>1, <1>2, <1>3, PhasesAre, ZenonT(30) DEF Rows, SameJob
<1>5. Sending(n) => Sending(r)
  BY <1>3, <1>4 DEF Sending, SameJob
<1>6. Follows(r, n)
  BY <1>2, <1>4, <1>5, NoJobYet, MovesOn DEF Active, SameJob
<1> QED
  BY <1>4, <1>6 DEF p

(* receiptHook(): the packet was transmitted.                              *)
LEMMA TransmittedIs ==
  ASSUME NEW r, Sound(r), r.phase # "Free", r.mask # {}, r.desired # "DELIVERED",
         NEW a, a.variant \in Variants, NEW n, n = Transmitted(a, r)
  PROVE  /\ Follows(r, n) /\ n.queued = (IF r.queued > 0 THEN r.queued - 1 ELSE r.queued)
         /\ n.proofs = r.proofs /\ n.flags = r.flags /\ n.phase = r.phase
<1> DEFINE x == Returned(a, r)
           f == x.flown \cup {a.variant}
           y == [x EXCEPT !.flown = f]
<1>1. /\ Follows(r, x) /\ x.queued = (IF r.queued > 0 THEN r.queued - 1 ELSE r.queued)
      /\ x.proofs = r.proofs /\ x.flags = r.flags
      /\ x.phase = r.phase /\ x.desired = r.desired /\ x.mask = r.mask /\ x.flown = r.flown
  BY ReturnedIs
<1>2. n = SetStatus(y, "SENT")
  BY DEF Transmitted
<1>3. y = [x EXCEPT !.flown = f]
  OBVIOUS
<1>4. x \in Rows /\ f \in SUBSET Variants
  <2>1. x \in Rows /\ x.flown \in SUBSET Variants
    BY <1>1, ProofsNat DEF Follows
  <2> QED
    BY <2>1
<1> HIDE DEF x, y, f
<1>5. /\ y \in Rows /\ SameJob(x, y) /\ y.flags = x.flags /\ y.phase = x.phase /\ y.mask = x.mask
      /\ y.proofs = x.proofs /\ y.queued = x.queued /\ y.desired = x.desired /\ y.window = x.window
  BY <1>3, <1>4 DEF Rows, SameJob
<1>6. x.counter # 0 /\ x.phase # "Free" /\ x.phase \notin Fresh
  <2>1. Sound(r) /\ r.counter # 0 /\ r.phase \notin Fresh
    BY DEF Sound, PhaseSound, MarkSound
  <2> QED
    BY <1>1, <2>1 DEF Follows, SameJob
<1>7. Sound(y)
  <2>1. Sound(x)
    BY <1>1 DEF Follows
  <2>2. PhaseSound(y)
    BY <1>5, <1>6, <2>1 DEF Sound, PhaseSound, SameJob
  <2>3. OpSound(y)
    BY <1>5, <2>1 DEF Sound, OpSound, SameJob
  <2>4. MarkSound(y)
    BY <1>5, <1>6, <2>1 DEF Sound, MarkSound, SameJob
  <2> QED
    BY <1>5, <2>2, <2>3, <2>4 DEF Sound
<1>8. Follows(x, y)
  <2>1. Sending(y) => Sending(x)
    BY <1>5 DEF Sending, SameJob
  <2> QED
    BY <1>5, <1>7, <2>1 DEF Follows
<1>9. Follows(y, n) /\ StatusSet(y, "SENT", n)
  <2>1. y.phase \notin Fresh \cup {"Free"}
    BY <1>5, <1>6
  <2> QED
    BY <1>2, <1>7, <2>1, OtherStatus, StatusesAre
<1>10. Follows(r, n)
  BY <1>1, <1>8, <1>9, FollowsTwice
<1> QED
  BY <1>1, <1>5, <1>9, <1>10 DEF StatusSet, Alike

(* the end of the grace window                                             *)
LEMMA WindowIs ==
  ASSUME NEW r, Sound(r), r.phase # "Free", NEW w \in Windows, NEW n, n = [r EXCEPT !.window = w]
  PROVE  /\ Follows(r, n) /\ Counts(r, n) /\ WindowSet(r, w, n)
<1>1. WindowSet(r, w, n) /\ r.proofs \in Nat
  BY ProofsNat, Windowed
<1>2. Sound(n)
  <2>2. PhaseSound(n)
    BY <1>1 DEF Sound, PhaseSound, SameJob, WindowSet, Alike
  <2>3. OpSound(n)
    BY <1>1 DEF Sound, OpSound, SameJob, WindowSet, Alike
  <2>4. MarkSound(n)
    BY <1>1 DEF Sound, MarkSound, SameJob, WindowSet, Alike
  <2> QED
    BY <1>1, <2>2, <2>3, <2>4 DEF Sound, WindowSet, Alike
<1>3. Sending(n) => Sending(r)
  BY <1>1 DEF Sending, SameJob, WindowSet, Alike
<1> QED
  BY <1>1, <1>2, <1>3 DEF Follows, Counts, WindowSet, Alike

(* acknowledge()                                                           *)
LEMMA AcknowledgedIs ==
  ASSUME NEW r, Sound(r), r.phase # "Free", NEW n, n = [r EXCEPT !.flags = @ \cup {"Acknowledged"}]
  PROVE  /\ Follows(r, n) /\ Counts(r, n) /\ n.phase = r.phase
<1> DEFINE f == r.flags \cup {"Acknowledged"}
<1>1. r \in Rows /\ r.proofs \in Nat
  BY ProofsNat
<1>2. f \in SUBSET Flags
  BY <1>1, RowTyped DEF Flags
<1>3. n = [r EXCEPT !.flags = f]
  OBVIOUS
<1>4. \A x \in Flags \ {"Acknowledged"} : x \in f <=> x \in r.flags
  OBVIOUS
<1> HIDE DEF f
<1>5. /\ n \in Rows /\ SameJob(r, n) /\ n.flags = f /\ n.phase = r.phase /\ n.mask = r.mask
      /\ n.proofs = r.proofs /\ n.queued = r.queued /\ n.desired = r.desired /\ n.window = r.window
      /\ n.flown = r.flown
  BY <1>1, <1>2, <1>3 DEF Rows, SameJob
<1>6. /\ "Suppressed" \in n.flags <=> "Suppressed" \in r.flags
      /\ "Deleted" \in n.flags <=> "Deleted" \in r.flags
      /\ "DeletePending" \in n.flags <=> "DeletePending" \in r.flags
  BY <1>4, <1>5 DEF Flags
<1>7. Sound(n)
  <2>2. PhaseSound(n)
    BY <1>5, <1>6 DEF Sound, PhaseSound, SameJob
  <2>3. OpSound(n)
    BY <1>5 DEF Sound, OpSound, SameJob
  <2>4. MarkSound(n)
    BY <1>5, <1>6 DEF Sound, MarkSound, SameJob
  <2> QED
    BY <1>5, <2>2, <2>3, <2>4 DEF Sound
<1>8. Sending(n) => Sending(r)
  BY <1>5, <1>6 DEF Sending, SameJob
<1> QED
  BY <1>1, <1>5, <1>6, <1>7, <1>8 DEF Follows, Counts

(* offerResource() and its outcome                                         *)
LEMMA ResourceOfferedIs ==
  ASSUME NEW r, Sound(r), r.phase = "Resource",
         NEW n, n = ResourceOffered(r)
  PROVE  /\ Follows(r, n) /\ n.queued = r.queued + 1 /\ n.proofs = r.proofs /\ n.flags = r.flags
<1> DEFINE m == r.mask \cup {Resource}
           q == r.queued + 1
<1>1. /\ r \in Rows /\ r.proofs \in Nat /\ ProofAttempts \in Nat /\ r.queued \in Nat
      /\ r.mask \in SUBSET Variants
  BY ProofsNat
<1>2. m \in SUBSET Variants /\ q \in Nat
  BY <1>1 DEF Variants, Resource
<1>3. n = [r EXCEPT !.mask = m, !.queued = q]
  BY DEF ResourceOffered
<1> HIDE DEF m, q
<1>4. /\ n \in Rows /\ SameJob(r, n) /\ n.flags = r.flags /\ n.phase = r.phase /\ n.mask = m
      /\ n.proofs = r.proofs /\ n.queued = q /\ n.desired = r.desired
  BY <1>1, <1>2, <1>3 DEF Rows, SameJob
<1>5. Sending(r)
  BY DEF Sending
<1>6. n.op = "Read" => n.proofs < ProofAttempts
  BY <1>4 DEF Sound, OpSound, SameJob
<1>7. Follows(r, n)
  BY <1>4, <1>5, <1>6, NoJobYet, MovesOn DEF Active, SameJob
<1> QED
  BY <1>4, <1>7 DEF q

(* The end of a resource settles its row.                                  *)
LEMMA ResourceOutcomeIs ==
  ASSUME NEW r, Sound(r), r.phase = "Resource", NEW st \in {"DELIVERED", "FAILED"},
         NEW n, n = Concluded(r, st)
  PROVE  /\ Follows(r, n) /\ Counts(r, n)
<1> DEFINE m == r.mask \ {Resource}
           x == [r EXCEPT !.mask = m, !.phase = "Settled"]
<1>1. r \in Rows /\ r.proofs \in Nat /\ r.mask \in SUBSET Variants
  BY ProofsNat
<1>2. m \in SUBSET Variants /\ m \subseteq r.mask
  BY <1>1
<1>3. n = SetStatus(x, st)
  BY DEF Concluded
<1>4. x = [r EXCEPT !.mask = m, !.phase = "Settled"]
  OBVIOUS
<1> HIDE DEF m, x
<1>5. /\ x \in Rows /\ SameJob(r, x) /\ x.flags = r.flags /\ x.phase = "Settled" /\ x.mask = m
      /\ x.proofs = r.proofs /\ x.queued = r.queued /\ x.desired = r.desired
  BY <1>1, <1>2, <1>4, PhasesAre DEF Rows, SameJob
<1>7. Follows(r, x) /\ Counts(r, x)
  <2>1. Sending(r)
    BY DEF Sending
  <2>2. x.op = "Read" => x.proofs < ProofAttempts
    BY <1>5 DEF Sound, OpSound, SameJob
  <2>3. Follows(r, x)
    BY <1>5, <2>1, <2>2, NoJobYet, MovesOn DEF Active, SameJob
  <2> QED
    BY <1>1, <1>5, <2>3 DEF Counts
<1>8. Sound(x) /\ x.counter # 0
  BY <1>7 DEF Follows, SameJob, Sound, PhaseSound, Active
<1>9. Follows(x, n) /\ Counts(x, n)
  <2>1. CASE st = "DELIVERED"
    BY <1>3, <1>8, <2>1, DeliveredStatus
  <2>2. CASE st = "FAILED"
    <3>1. x.phase \notin Fresh \cup {"Free"}
      BY <1>5 DEF Fresh
    <3> QED
      BY <1>3, <1>8, <2>2, <3>1, OtherStatus, StatusesAre
  <2> QED
    BY <2>1, <2>2
<1>10. Follows(r, n)
  BY <1>7, <1>9, FollowsTwice
<1>11. Counts(r, n)
  <2>1. n.proofs \in Nat /\ x.proofs \in Nat
    BY <1>8, <1>9, ProofsNat DEF Follows
  <2>2. n.queued = r.queued
    BY <1>7, <1>9 DEF Counts
  <2>3. n.proofs >= r.proofs \/ "Suppressed" \in n.flags
    BY <1>1, <1>5, <1>9, <2>1 DEF Counts
  <2> QED
    BY <2>2, <2>3 DEF Counts
<1> QED
  BY <1>10, <1>11

-----------------------------------------------------------------------------
(* The inductive invariant.                                                *)
SoundRows == row \in [Slots -> Rows] /\ \A s \in Slots : Sound(row[s])

Sendable(c) == record[c] # "erased" /\ ~(deleting = c /\ deleted = "waiting")
Saved(c)    == record[c] \in {"DELIVERED", "erased"}

(* A row and its record: who may still send has a record that is neither   *)
(* erased nor being erased, and what a row takes for saved is saved.       *)
Linked(r) ==
  /\ r.counter # 0 => r.counter \in DOMAIN record
  /\ r.at # 0 => r.at \in DOMAIN record
  /\ Sending(r) => Sendable(r.counter)
  /\ r.durable = "DELIVERED" => Saved(r.counter)
  /\ r.op = "Update" /\ r.at # 0 /\ r.target = "DELIVERED" => Saved(r.counter)
  /\ "DeletePending" \in r.flags => deleting = r.counter
  /\ "Deleted" \in r.flags => Saved(r.counter)

RowsLinked == \A s \in Slots : Linked(row[s])

StoreInv ==
  /\ record \in Seq(Statuses \cup {"erased"}) /\ cursor \in Nat
  /\ deleted \in {"none", "waiting", "Committed", "Failed"}
  /\ deleting = 0 <=> deleted = "none"
  /\ deleting # 0 => deleting \in DOMAIN record
  /\ deleted = "Committed" => record[deleting] = "erased"

RowJobs == {"Create", "Update", "Read", "Pending"}
Jobs    == [slot : Slots \cup {NoSlot}, op : RowJobs \cup {"Delete", "Retry"}, arg : Nat,
            cancelled : BOOLEAN]

(* A job of a row is what the row waits for; the deletion waits behind no  *)
(* reader of its record that may still send.                               *)
Awaited(j) ==
  /\ j.op \in RowJobs => j.slot \in Slots /\ row[j.slot].op = j.op /\ row[j.slot].result = "waiting"
  /\ j.op \in {"Delete", "Retry"} => j.slot = NoSlot /\ j.arg \in DOMAIN record
  /\ j.op = "Delete" => deleting = j.arg /\ deleted = "waiting"
Apart(j, k)  == j.slot = NoSlot \/ j.slot # k.slot
Behind(j, k) == j.op = "Read" /\ k.op = "Delete" /\ row[j.slot].counter = k.arg
                  => "Suppressed" \in row[j.slot].flags

JobsInv ==
  /\ queue \in Seq(Jobs)
  /\ \A i \in DOMAIN queue : Awaited(queue[i])
  /\ \A i, j \in DOMAIN queue : i # j => Apart(queue[i], queue[j])
  /\ \A i, j \in DOMAIN queue : i < j => Behind(queue[i], queue[j])
  /\ \A i, j \in DOMAIN queue : queue[i].op = "Delete" /\ queue[j].op = "Delete" => i = j
  /\ deleted = "waiting" => \E i \in DOMAIN queue : queue[i].op = "Delete"

PassInv == pass \subseteq Answers

HasBody(s) == row[s].op = "Read" \/ row[s].phase = "Reading" \/ Offering = s
BodyInv == body # NoBody => /\ body.slot \in Slots /\ body = Ticket(body.slot)
                            /\ Live(body.slot) /\ HasBody(body.slot)

(* While a packet is offered its row waits for nothing else, and the       *)
(* receipts of this attempt are those of the interfaces asked so far.      *)
OfferRow(s) ==
  /\ s \in Slots /\ pass = {} /\ row[s].op = "none" /\ row[s].proofs # 0
  /\ "Suppressed" \notin row[s].flags /\ Live(s)
  /\ row[s].phase = "AwaitProof" \/ row[s].desired = "DELIVERED"
  /\ row[s].desired = "DELIVERED" => body # Ticket(s)
OfferShape == offering = [slot |-> offering.slot, left |-> offering.left, now |-> offering.now,
                          accepted |-> offering.accepted]
OfferInv ==
  /\ Offering = NoSlot => offering = NotOffering
  /\ Offering # NoSlot =>
       /\ OfferShape /\ OfferRow(Offering)
       /\ offering.left \subseteq Interfaces /\ offering.now \in Interfaces \cup {NoSlot}
       /\ offering.now \notin offering.left
       /\ \A a \in air : a.slot = Offering /\ a.variant = Attempt =>
            a.iface = offering.now \/ (offering.accepted /\ a.iface \notin offering.left)

Receiptlike(a) ==
  /\ a = [slot |-> a.slot, gen |-> a.gen, variant |-> a.variant, iface |-> a.iface]
  /\ a.slot \in Slots /\ a.variant \in Variants /\ a.iface \in Interfaces
Made(a) == a.variant = Resource \/ a.variant < row[a.slot].proofs
             \/ "Suppressed" \in row[a.slot].flags
Held(s) == {a \in air : a.slot = s}
AirInv ==
  /\ IsFiniteSet(air)
  /\ \A a \in air : Receiptlike(a) /\ Made(a) /\ Receivable(a)
  /\ \A s \in Slots : row[s].queued = Cardinality(Held(s))

TablesInv == SoundRows /\ RowsLinked /\ StoreInv /\ JobsInv /\ PassInv
IInv      == TablesInv /\ BodyInv /\ OfferInv /\ AirInv

ProofStays(s) ==
  Live(s) /\ row[s].desired = "DELIVERED" =>
    \/ row'[s].gen = row[s].gen /\ row'[s].desired = "DELIVERED"
    \/ Saved(row[s].counter)
    \/ deleting = row[s].counter
ProofKept == \A s \in Slots : ProofStays(s)

-----------------------------------------------------------------------------
(* Steps that only move rows on.                                           *)
RowsFollow == row' \in [Slots -> Rows] /\ \A s \in Slots : Follows(row[s], row'[s])

(* One row moves on, the others stay.                                      *)
LEMMA OneFollows ==
  ASSUME SoundRows, NEW s \in Slots, NEW n, Follows(row[s], n), row' = [row EXCEPT ![s] = n]
  PROVE  RowsFollow /\ row'[s] = n /\ \A t \in Slots : t # s => row'[t] = row[t]
<1>1. n \in Rows
  BY DEF Follows, Sound
<1>2. row'[s] = n /\ row' \in [Slots -> Rows] /\ \A t \in Slots : t # s => row'[t] = row[t]
  BY <1>1 DEF SoundRows
<1>3. \A t \in Slots : Follows(row[t], row[t])
  BY SameFollows DEF SoundRows
<1> QED
  BY <1>2, <1>3 DEF RowsFollow

LEMMA SameRows == ASSUME SoundRows, row' = row PROVE RowsFollow
BY SameFollows DEF RowsFollow, SoundRows

(* The jobs are the same, some withdrawn perhaps.                          *)
SameQueue ==
  /\ queue' \in Seq(Jobs) /\ DOMAIN queue' = DOMAIN queue
  /\ \A i \in DOMAIN queue : /\ queue'[i].slot = queue[i].slot /\ queue'[i].op = queue[i].op
                             /\ queue'[i].arg = queue[i].arg

(* Withdrawing the jobs of some rows keeps every job in its place.         *)
LEMMA WithdrawnIs ==
  ASSUME JobsInv, NEW S, NEW W, W = Withdrawn(S)
  PROVE  /\ W \in Seq(Jobs) /\ DOMAIN W = DOMAIN queue
         /\ \A i \in DOMAIN queue : /\ W[i].slot = queue[i].slot /\ W[i].op = queue[i].op
                                    /\ W[i].arg = queue[i].arg
<1>1. queue \in Seq(Jobs)
  BY DEF JobsInv
<1>2. \A i \in DOMAIN queue : queue[i] \in Jobs
  BY <1>1
<1>3. \A j \in Jobs : /\ [j EXCEPT !.cancelled = TRUE] \in Jobs
                      /\ [j EXCEPT !.cancelled = TRUE].slot = j.slot
                      /\ [j EXCEPT !.cancelled = TRUE].op = j.op
                      /\ [j EXCEPT !.cancelled = TRUE].arg = j.arg
  BY DEF Jobs
<1>4. DOMAIN W = DOMAIN queue
  BY DEF Withdrawn
<1>5. \A i \in DOMAIN queue : W[i] = queue[i] \/ W[i] = [queue[i] EXCEPT !.cancelled = TRUE]
  BY DEF Withdrawn
<1>6. \A i \in DOMAIN queue : W[i] \in Jobs /\ W[i].slot = queue[i].slot
                               /\ W[i].op = queue[i].op /\ W[i].arg = queue[i].arg
  BY <1>2, <1>3, <1>5
<1>7. W \in Seq(Jobs)
  <2>1. Len(queue) \in Nat /\ DOMAIN queue = 1 .. Len(queue)
    BY <1>1
  <2>2. W \in [1 .. Len(queue) -> Jobs]
    BY <1>6, <2>1 DEF Withdrawn
  <2> QED
    BY <2>1, <2>2
<1> QED
  BY <1>4, <1>6, <1>7

LEMMA WithdrawnSame == ASSUME JobsInv, NEW S, queue' = Withdrawn(S) PROVE SameQueue
BY WithdrawnIs DEF SameQueue

LEMMA SameJobs == ASSUME JobsInv, queue' = queue PROVE SameQueue
BY DEF JobsInv, SameQueue

(* When rows only move on and the store stands still, rows, records and    *)
(* jobs stay consistent and no accepted proof is lost.                     *)
LEMMA RowsQuiet ==
  ASSUME TablesInv, RowsFollow, SameQueue, pass' = pass \/ pass' \subseteq Answers',
         UNCHANGED <<record, deleted, deleting>>, cursor' \in Nat
  PROVE  TablesInv' /\ ProofKept
<1>1. \A s \in Slots : Follows(row[s], row'[s]) /\ SameJob(row[s], row'[s])
  BY DEF RowsFollow, Follows
<1>2. SoundRows'
  BY DEF RowsFollow, Follows, SoundRows
<1>3. RowsLinked'
  <2> SUFFICES ASSUME NEW s \in Slots PROVE Linked(row[s])'
    BY DEF RowsLinked
  <2>1. Linked(row[s])
    BY DEF TablesInv, RowsLinked
  <2>2. \A c : (Sendable(c)' <=> Sendable(c)) /\ (Saved(c)' <=> Saved(c))
    BY DEF Sendable, Saved
  <2>3. Follows(row[s], row'[s]) /\ SameJob(row[s], row'[s])
    BY <1>1
  <2>4. Sending(row'[s]) => Sending(row[s])
    BY <2>3 DEF Follows
  <2> QED
    BY <2>1, <2>2, <2>3, <2>4 DEF Linked, Follows, SameJob
<1>4. StoreInv'
  BY DEF TablesInv, StoreInv
<1>5. JobsInv'
  <2>1. \A s \in Slots : /\ row'[s].op = row[s].op /\ row'[s].result = row[s].result
                         /\ row'[s].counter = row[s].counter
                         /\ "Suppressed" \in row[s].flags => "Suppressed" \in row'[s].flags
    BY <1>1 DEF Follows, SameJob
  <2>2. \A i \in DOMAIN queue : /\ queue'[i].slot = queue[i].slot /\ queue'[i].op = queue[i].op
                                /\ queue'[i].arg = queue[i].arg
    BY DEF SameQueue
  <2>3. DOMAIN queue' = DOMAIN queue /\ queue' \in Seq(Jobs)
    BY DEF SameQueue
  <2>4. JobsInv
    BY DEF TablesInv
  <2>5. \A i \in DOMAIN queue : Awaited(queue[i])'
    BY <2>1, <2>2, <2>4 DEF JobsInv, Awaited
  <2>6. \A i, j \in DOMAIN queue : i # j => Apart(queue[i], queue[j])'
    BY <2>2, <2>4 DEF JobsInv, Apart
  <2>7. \A i, j \in DOMAIN queue : i < j => Behind(queue[i], queue[j])'
    <3> SUFFICES ASSUME NEW i \in DOMAIN queue, NEW j \in DOMAIN queue, i < j
        PROVE Behind(queue[i], queue[j])'
      OBVIOUS
    <3>1. Behind(queue[i], queue[j]) /\ Awaited(queue[i])
      BY <2>4 DEF JobsInv
    <3> QED
      BY <2>1, <2>2, <3>1 DEF Behind, Awaited, RowJobs
  <2>8. \A i, j \in DOMAIN queue : queue'[i].op = "Delete" /\ queue'[j].op = "Delete" => i = j
    BY <2>2, <2>4 DEF JobsInv
  <2>9. deleted' = "waiting" => \E i \in DOMAIN queue : queue'[i].op = "Delete"
    BY <2>2, <2>4 DEF JobsInv
  <2> QED
    BY <2>3, <2>5, <2>6, <2>7, <2>8, <2>9 DEF JobsInv
<1>6. PassInv'
  BY <1>1 DEF TablesInv, PassInv, Answers, SameJob
<1>7. ProofKept
  BY <1>1 DEF ProofKept, ProofStays, Follows, SameJob
<1> QED
  BY <1>2, <1>3, <1>4, <1>5, <1>6, <1>7 DEF TablesInv

CountsKept == \A s \in Slots :
  /\ row'[s].gen = row[s].gen /\ (row[s].phase # "Free" => row'[s].phase # "Free")
  /\ Counts(row[s], row'[s])
  /\ "Suppressed" \in row[s].flags => "Suppressed" \in row'[s].flags

(* A packet in the air stays one of an attempt its row has counted.        *)
LEMMA MadeStill ==
  ASSUME SoundRows, SoundRows', NEW a, Receiptlike(a), Made(a),
         row'[a.slot].proofs >= row[a.slot].proofs \/ "Suppressed" \in row'[a.slot].flags,
         "Suppressed" \in row[a.slot].flags => "Suppressed" \in row'[a.slot].flags
  PROVE  Made(a)'
<1>1. a.variant \in Nat /\ row[a.slot].proofs \in Nat /\ row'[a.slot].proofs \in Nat
  BY ProofsNat DEF SoundRows, Receiptlike, Variants
<1>2. CASE a.variant < row[a.slot].proofs /\ row'[a.slot].proofs >= row[a.slot].proofs
  BY <1>1, <1>2 DEF Made
<1> QED
  BY <1>2 DEF Made

(* Nothing is offered and nothing comes back: the counts stay right.       *)
LEMMA AirQuiet ==
  ASSUME SoundRows, SoundRows', AirInv, CountsKept, air' = air
  PROVE  AirInv'
<1>1. \A s \in Slots : Held(s)' = Held(s)
  BY DEF Held
<1>2. \A s \in Slots : row'[s].queued = row[s].queued
  BY DEF CountsKept, Counts
<1>3. ASSUME NEW a \in air PROVE Receiptlike(a) /\ Made(a)' /\ Receivable(a)'
  <2>1. Receiptlike(a) /\ Made(a) /\ Receivable(a) /\ a.slot \in Slots
    BY DEF AirInv, Receiptlike
  <2>2. Receivable(a)'
    BY <2>1 DEF Receivable, Live, CountsKept
  <2>3. Made(a)'
    BY <2>1, MadeStill DEF CountsKept, Counts
  <2> QED
    BY <2>1, <2>2, <2>3
<1>4. \A a : Receiptlike(a)' <=> Receiptlike(a)
  BY DEF Receiptlike
<1> QED
  BY <1>1, <1>2, <1>3, <1>4 DEF AirInv

LEMMA IdleOffer == ASSUME Idle, offering' = offering PROVE OfferInv' /\ Offering = NoSlot
BY DEF Idle, OfferInv, Offering, NotOffering

(* The workspace stays with a row that still reads or sends from it, or is *)
(* given back.                                                             *)
LEMMA BodyQuiet ==
  ASSUME BodyInv, RowsFollow,
         body' = NoBody \/ (body' = body /\ (body # NoBody => HasBody(body.slot)'))
  PROVE  BodyInv'
<1>1. CASE body' = NoBody
  BY <1>1 DEF BodyInv
<1>2. CASE body' = body /\ body # NoBody /\ HasBody(body.slot)'
  <2>1. body.slot \in Slots /\ body = Ticket(body.slot) /\ Live(body.slot)
    BY <1>2 DEF BodyInv
  <2>2. Follows(row[body.slot], row'[body.slot])
    BY <2>1 DEF RowsFollow
  <2>3. Ticket(body.slot)' = Ticket(body.slot) /\ Live(body.slot)'
    BY <1>2, <2>1, <2>2 DEF Ticket, Live, Follows, SameJob
  <2> QED
    BY <1>2, <2>1, <2>3 DEF BodyInv
<1> QED
  BY <1>1, <1>2

(* A call between two offers that only moves rows on keeps the invariant.  *)
LEMMA QuietStep ==
  ASSUME IInv, Idle, RowsFollow, CountsKept, SameQueue, cursor' \in Nat,
         UNCHANGED <<offering, pass, record, deleted, deleting, air>>,
         body' = NoBody \/ (body' = body /\ (body # NoBody => HasBody(body.slot)'))
  PROVE  IInv' /\ ProofKept
<1>1. TablesInv' /\ ProofKept
  BY RowsQuiet DEF IInv
<1>2. BodyInv'
  BY BodyQuiet DEF IInv
<1>3. OfferInv'
  BY IdleOffer
<1>4. AirInv'
  BY <1>1, AirQuiet DEF IInv, TablesInv
<1> QED
  BY <1>1, <1>2, <1>3, <1>4 DEF IInv

(* What the receipts in the air need of a row that moves on.               *)
LEMMA FollowCounts ==
  ASSUME NEW r, NEW n, Follows(r, n), Counts(r, n)
  PROVE  /\ n.gen = r.gen /\ (r.phase # "Free" => n.phase # "Free") /\ Counts(r, n)
         /\ "Suppressed" \in r.flags => "Suppressed" \in n.flags
BY DEF Follows, SameJob

(* One row moves on between two calls.                                     *)
LEMMA OneQuiet ==
  ASSUME IInv, Idle, NEW s \in Slots, NEW n, Follows(row[s], n), Counts(row[s], n),
         row' = [row EXCEPT ![s] = n], SameQueue, cursor' \in Nat,
         body' = Released(s) \/ (body' = body /\ (n.phase = row[s].phase \/ row[s].phase # "Reading")),
         UNCHANGED <<offering, pass, record, deleted, deleting, air>>
  PROVE  IInv' /\ ProofKept
<1>1. SoundRows
  BY DEF IInv, TablesInv
<1>2. RowsFollow /\ row'[s] = n /\ \A t \in Slots : t # s => row'[t] = row[t]
  BY <1>1, OneFollows
<1>3. CountsKept
  <2> SUFFICES ASSUME NEW t \in Slots
      PROVE /\ row'[t].gen = row[t].gen /\ (row[t].phase # "Free" => row'[t].phase # "Free")
            /\ Counts(row[t], row'[t])
            /\ "Suppressed" \in row[t].flags => "Suppressed" \in row'[t].flags
    BY DEF CountsKept
  <2>1. Follows(row[t], row'[t]) /\ Counts(row[t], row'[t])
    <3>1. CASE t = s
      BY <1>2, <3>1
    <3>2. CASE t # s
      BY <1>1, <1>2, <3>2, SameFollows DEF SoundRows
    <3> QED
      BY <3>1, <3>2
  <2> QED
    BY <2>1, FollowCounts
<1>4. body' = NoBody \/ (body' = body /\ (body # NoBody => HasBody(body.slot)'))
  <2> SUFFICES ASSUME body' # NoBody, body # NoBody PROVE body' = body /\ HasBody(body.slot)'
    BY DEF Released
  <2>1. body' = body
    BY DEF Released
  <2>2. body.slot \in Slots /\ body = Ticket(body.slot) /\ HasBody(body.slot)
    BY DEF IInv, BodyInv
  <2>3. Offering' = NoSlot /\ Offering = NoSlot /\ body.slot # NoSlot
    BY <2>2, IdleOffer DEF Offering, Slots, NoSlot
  <2>4. row[body.slot].op = "Read" \/ row[body.slot].phase = "Reading"
    BY <2>2, <2>3 DEF HasBody
  <2>5. CASE body.slot # s
    BY <1>2, <2>1, <2>2, <2>4, <2>5 DEF HasBody
  <2>6. CASE body.slot = s
    <3>1. body' # Released(s)
      BY <2>2, <2>6 DEF Released
    <3>2. n.op = row[s].op
      BY DEF Follows, SameJob
    <3> QED
      BY <1>2, <2>1, <2>4, <2>6, <3>1, <3>2 DEF HasBody
  <2> QED
    BY <2>1, <2>5, <2>6
<1> QED
  BY <1>2, <1>3, <1>4, QuietStep

(* The parts of the invariant and the soundness of each row, for citing.   *)
LEMMA RowsAre == ASSUME IInv
  PROVE  /\ SoundRows /\ JobsInv /\ cursor \in Nat /\ AirInv /\ BodyInv /\ OfferInv /\ StoreInv /\ RowsLinked
         /\ \A s \in Slots : Sound(row[s]) /\ row[s] \in Rows /\ Linked(row[s])
BY DEF IInv, TablesInv, StoreInv, SoundRows, Sound, RowsLinked

(* The calls of the owner and the outcomes of links, one by one.           *)
LEMMA CancelStep == ASSUME IInv, NEW s \in Slots, Cancel(s) PROVE IInv' /\ ProofKept
<1>1. Idle /\ Live(s) /\ row' = [row EXCEPT ![s] = Cancelled(row[s])] /\ queue' = Withdrawn({s})
      /\ body' = Released(s) /\ cursor' = cursor
      /\ UNCHANGED <<offering, pass, record, deleted, deleting, air>>
  BY DEF Cancel, engine
<1>2. Sound(row[s]) /\ row[s].phase # "Free" /\ cursor' \in Nat
  BY <1>1, RowsAre DEF Live
<1>3. Follows(row[s], Cancelled(row[s])) /\ Counts(row[s], Cancelled(row[s]))
  BY <1>2, CancelledIs
<1>4. SameQueue
  BY <1>1, RowsAre, WithdrawnSame
<1> QED
  BY <1>1, <1>2, <1>3, <1>4, OneQuiet

LEMMA AcknowledgeStep == ASSUME IInv, NEW s \in Slots, Acknowledge(s) PROVE IInv' /\ ProofKept
<1> DEFINE n == [row[s] EXCEPT !.flags = @ \cup {"Acknowledged"}]
<1>1. Idle /\ Live(s) /\ queue' = queue /\ body' = body /\ cursor' = cursor
      /\ UNCHANGED <<offering, pass, record, deleted, deleting, air>>
  BY DEF Acknowledge, engine, store
<1>2. Sound(row[s]) /\ row[s].phase # "Free" /\ cursor' \in Nat /\ row \in [Slots -> Rows]
  BY <1>1, RowsAre DEF Live, SoundRows
<1>3. row' = [row EXCEPT ![s] = n]
  BY DEF Acknowledge
<1>4. Follows(row[s], n) /\ Counts(row[s], n) /\ n.phase = row[s].phase
  BY <1>2, AcknowledgedIs
<1>5. SameQueue
  BY <1>1, RowsAre, SameJobs
<1> QED
  BY <1>1, <1>2, <1>3, <1>4, <1>5, OneQuiet

LEMMA WaitRunsOutStep == ASSUME IInv, NEW s \in Slots, WaitRunsOut(s) PROVE IInv' /\ ProofKept
<1>1. PICK n \in Aged(row[s]) : row' = [row EXCEPT ![s] = n]
  BY DEF WaitRunsOut
<1>2. Idle /\ Live(s) /\ row[s].op = "none" /\ queue' = queue /\ body' = body /\ cursor' = cursor
      /\ UNCHANGED <<offering, pass, record, deleted, deleting, air>>
  BY DEF WaitRunsOut, engine, store
<1>3. Sound(row[s]) /\ cursor' \in Nat
  BY <1>2, RowsAre
<1>4. Follows(row[s], n) /\ Counts(row[s], n) /\ (row[s].phase = "Reading" => n = row[s])
  BY <1>2, <1>3, AgedIs
<1>5. SameQueue
  BY <1>2, RowsAre, SameJobs
<1> QED
  BY <1>1, <1>2, <1>3, <1>4, <1>5, OneQuiet

LEMMA AttemptEndsStep == ASSUME IInv, NEW s \in Slots, AttemptEnds(s) PROVE IInv' /\ ProofKept
<1>1. Idle /\ row[s].phase = "Reading" /\ row[s].op = "none"
      /\ queue' = queue /\ body' = Released(s) /\ cursor' = cursor
      /\ UNCHANGED <<offering, pass, record, deleted, deleting, air>>
  BY DEF AttemptEnds, Attempting, engine, store
<1>2. Sound(row[s]) /\ cursor' \in Nat
  BY <1>1, RowsAre
<1>3. SameQueue
  BY <1>1, RowsAre, SameJobs
<1>4. \E n : row' = [row EXCEPT ![s] = n] /\ Follows(row[s], n) /\ Counts(row[s], n)
  <2>1. CASE row' = [row EXCEPT ![s].phase = "Ready"]
    <3> DEFINE n == [row[s] EXCEPT !.phase = "Ready"]
    <3>1. row' = [row EXCEPT ![s] = n]
      BY <2>1
    <3>2. Follows(row[s], n) /\ Counts(row[s], n)
      BY <1>1, <1>2, ReadyAgain
    <3> QED
      BY <3>1, <3>2
  <2>2. CASE row' = [row EXCEPT ![s] = GivesUp(@)]
    <3>1. Follows(row[s], GivesUp(row[s])) /\ Counts(row[s], GivesUp(row[s]))
      BY <1>1, <1>2, GivesUpIs DEF Active
    <3> QED
      BY <2>2, <3>1
  <2>3. CASE row' = [row EXCEPT ![s] = SetStatus([@ EXCEPT !.phase = "Settled"], "FAILED")]
    <3> DEFINE n == SetStatus([row[s] EXCEPT !.phase = "Settled"], "FAILED")
    <3>1. Follows(row[s], n) /\ Counts(row[s], n)
      BY <1>1, <1>2, PhaseAndStatus, StatusesAre DEF Active
    <3> QED
      BY <2>3, <3>1
  <2>4. CASE row' = [row EXCEPT ![s].phase = "Resource"]
    <3> DEFINE n == [row[s] EXCEPT !.phase = "Resource"]
    <3>1. row' = [row EXCEPT ![s] = n]
      BY <2>4
    <3>2. Follows(row[s], n) /\ Counts(row[s], n)
      BY <1>1, <1>2, AsResource
    <3> QED
      BY <3>1, <3>2
  <2> QED
    BY <2>1, <2>2, <2>3, <2>4 DEF AttemptEnds
<1> QED
  BY <1>1, <1>2, <1>3, <1>4, OneQuiet

LEMMA ResourceOutcomeStep == ASSUME IInv, NEW s \in Slots, ResourceOutcome(s) PROVE IInv' /\ ProofKept
<1>1. PICK st \in {"DELIVERED", "FAILED"} :
        row' = [row EXCEPT ![s] = Concluded(row[s], st)]
  BY DEF ResourceOutcome
<1> DEFINE n == Concluded(row[s], st)
<1>2. Idle /\ row[s].phase = "Resource" /\ queue' = queue /\ body' = body /\ cursor' = cursor
      /\ UNCHANGED <<offering, pass, record, deleted, deleting, air>>
  BY DEF ResourceOutcome, engine, store
<1>3. Sound(row[s]) /\ cursor' \in Nat
  BY <1>2, RowsAre
<1>4. Follows(row[s], n) /\ Counts(row[s], n)
  BY <1>2, <1>3, ResourceOutcomeIs
<1>5. SameQueue
  BY <1>2, RowsAre, SameJobs
<1>6. row' = [row EXCEPT ![s] = n]
  BY <1>1
<1> HIDE DEF n
<1> QED
  BY <1>2, <1>3, <1>4, <1>5, <1>6, OneQuiet

LEMMA StopStep == ASSUME IInv, Stop PROVE IInv' /\ ProofKept
<1>1. Idle /\ queue' = Withdrawn(Slots) /\ body' = NoBody /\ cursor' = cursor
      /\ row' = [s \in Slots |-> IF Live(s) THEN Interrupted(row[s]) ELSE row[s]]
      /\ UNCHANGED <<offering, pass, record, deleted, deleting, air>>
  BY DEF Stop
<1>2. cursor' \in Nat /\ SameQueue
  BY <1>1, RowsAre, WithdrawnSame
<1>3. \A s \in Slots : Follows(row[s], row'[s]) /\ Counts(row[s], row'[s])
  <2> SUFFICES ASSUME NEW s \in Slots PROVE Follows(row[s], row'[s]) /\ Counts(row[s], row'[s])
    OBVIOUS
  <2>1. Sound(row[s])
    BY RowsAre
  <2>2. CASE Live(s)
    BY <1>1, <2>1, <2>2, InterruptedIs DEF Live
  <2>3. CASE ~Live(s)
    BY <1>1, <2>1, <2>3, SameFollows
  <2> QED
    BY <2>2, <2>3
<1>4. RowsFollow
  <2>1. \A s \in Slots : row'[s] \in Rows
    BY <1>3 DEF Follows, Sound
  <2> QED
    BY <1>1, <1>3, <2>1 DEF RowsFollow
<1>5. CountsKept
  BY <1>3, FollowCounts DEF CountsKept
<1> QED
  BY <1>1, <1>2, <1>4, <1>5, QuietStep

LEMMA SameCounts == ASSUME SoundRows, row' = row PROVE CountsKept /\ RowsFollow
<1>1. \A s \in Slots : Follows(row[s], row[s]) /\ Counts(row[s], row[s])
  BY SameFollows DEF SoundRows
<1> QED
  BY <1>1, SameRows DEF CountsKept

LEMMA StoredMessageStep == ASSUME IInv, StoredMessage PROVE IInv' /\ ProofKept
<1>1. Idle /\ queue' = queue /\ body' = body /\ row' = row /\ cursor' \in {cursor, 0}
      /\ UNCHANGED <<offering, pass, record, deleted, deleting, air>>
  BY DEF StoredMessage, Rediscover
<1>2. cursor' \in Nat /\ SameQueue /\ SoundRows
  BY <1>1, RowsAre, SameJobs
<1>3. CountsKept /\ RowsFollow
  BY <1>1, <1>2, SameCounts
<1>4. body # NoBody => HasBody(body.slot)'
  BY <1>1 DEF IInv, BodyInv, HasBody, Offering
<1> QED
  BY <1>1, <1>2, <1>3, <1>4, QuietStep

-----------------------------------------------------------------------------
(* Receipts come and go.                                                   *)
LEMMA HeldFinite == ASSUME AirInv, NEW s \in Slots PROVE IsFiniteSet(Held(s)) /\ Held(s) \subseteq air
<1>1. Held(s) \subseteq air
  BY DEF Held
<1> QED
  BY <1>1, FS_Subset DEF AirInv

(* A packet in the air is counted by its row, so a row without a count has *)
(* none.                                                                   *)
LEMMA HeldCounted ==
  ASSUME SoundRows, AirInv, NEW a \in air
  PROVE  a.slot \in Slots /\ row[a.slot].queued \in Nat /\ row[a.slot].queued > 0
<1>1. a.slot \in Slots
  BY DEF AirInv, Receiptlike
<1>2. a \in Held(a.slot) /\ IsFiniteSet(Held(a.slot))
  BY <1>1, HeldFinite DEF Held
<1>3. Cardinality(Held(a.slot)) # 0
  BY <1>2, FS_EmptySet
<1>4. row[a.slot].queued \in Nat
  BY <1>1, ProofsNat DEF SoundRows
<1>5. row[a.slot].queued # 0
  BY <1>1, <1>3 DEF AirInv
<1> QED
  BY <1>1, <1>4, <1>5

LEMMA NoneHeld ==
  ASSUME SoundRows, AirInv, NEW s \in Slots, row[s].queued = 0
  PROVE  \A a \in air : a.slot # s
BY HeldCounted

(* Rows keep their generation, and what they have sent.                    *)
SentStill == \A s \in Slots :
  /\ row'[s].gen = row[s].gen /\ (row[s].phase # "Free" => row'[s].phase # "Free")
  /\ row'[s].proofs >= row[s].proofs \/ "Suppressed" \in row'[s].flags
  /\ "Suppressed" \in row[s].flags => "Suppressed" \in row'[s].flags

(* A receipt comes back: one packet and one count less.                    *)
LEMMA AirLess ==
  ASSUME SoundRows, SoundRows', AirInv, SentStill, NEW a \in air, air' = air \ {a},
         \A s \in Slots : row'[s].queued = IF s = a.slot THEN row[s].queued - 1 ELSE row[s].queued
  PROVE  AirInv'
<1>1. IsFiniteSet(air')
  BY FS_Subset DEF AirInv
<1>2. ASSUME NEW b \in air' PROVE Receiptlike(b)' /\ Made(b)' /\ Receivable(b)'
  <2>1. Receiptlike(b) /\ Made(b) /\ Receivable(b) /\ b.slot \in Slots
    BY DEF AirInv, Receiptlike
  <2>2. Receivable(b)'
    BY <2>1 DEF Receivable, Live, SentStill
  <2>3. Made(b)'
    BY <2>1, MadeStill DEF SentStill
  <2> QED
    BY <2>1, <2>2, <2>3 DEF Receiptlike
<1>3. ASSUME NEW s \in Slots PROVE row'[s].queued = Cardinality(Held(s)')
  <2>1. row[s].queued = Cardinality(Held(s)) /\ IsFiniteSet(Held(s))
    BY HeldFinite DEF AirInv
  <2>2. CASE s = a.slot
    <3>1. Held(s)' = Held(s) \ {a} /\ a \in Held(s)
      BY <2>2 DEF Held
    <3>2. Cardinality(Held(s) \ {a}) = Cardinality(Held(s)) - 1
      BY <2>1, <3>1, FS_RemoveElement
    <3> QED
      BY <2>1, <2>2, <3>1, <3>2
  <2>3. CASE s # a.slot
    <3>1. Held(s)' = Held(s)
      BY <2>3 DEF Held
    <3> QED
      BY <2>1, <2>3, <3>1
  <2> QED
    BY <2>2, <2>3
<1> QED
  BY <1>1, <1>2, <1>3 DEF AirInv

(* A packet is accepted: one more of each.                                 *)
LEMMA AirMore ==
  ASSUME SoundRows, SoundRows', AirInv, SentStill, NEW a, a \notin air, air' = air \cup {a},
         Receiptlike(a), Made(a)', Receivable(a)',
         \A s \in Slots : row'[s].queued = IF s = a.slot THEN row[s].queued + 1 ELSE row[s].queued
  PROVE  AirInv'
<1>1. IsFiniteSet(air')
  BY FS_AddElement DEF AirInv
<1>2. ASSUME NEW b \in air' PROVE Receiptlike(b)' /\ Made(b)' /\ Receivable(b)'
  <2>1. CASE b = a
    BY <2>1 DEF Receiptlike
  <2>2. CASE b \in air
    <3>1. Receiptlike(b) /\ Made(b) /\ Receivable(b) /\ b.slot \in Slots
      BY <2>2 DEF AirInv, Receiptlike
    <3>2. Receivable(b)'
      BY <3>1 DEF Receivable, Live, SentStill
    <3>3. Made(b)'
      BY <3>1, MadeStill DEF SentStill
    <3> QED
      BY <3>1, <3>2, <3>3 DEF Receiptlike
  <2> QED
    BY <2>1, <2>2
<1>3. ASSUME NEW s \in Slots PROVE row'[s].queued = Cardinality(Held(s)')
  <2>1. row[s].queued = Cardinality(Held(s)) /\ IsFiniteSet(Held(s))
    BY HeldFinite DEF AirInv
  <2>2. CASE s = a.slot
    <3>1. Held(s)' = Held(s) \cup {a} /\ a \notin Held(s)
      BY <2>2 DEF Held
    <3>2. Cardinality(Held(s) \cup {a}) = Cardinality(Held(s)) + 1
      BY <2>1, <3>1, FS_AddElement
    <3> QED
      BY <2>1, <2>2, <3>1, <3>2
  <2>3. CASE s # a.slot
    <3>1. Held(s)' = Held(s)
      BY <2>3 DEF Held
    <3> QED
      BY <2>1, <2>3, <3>1
  <2> QED
    BY <2>2, <2>3
<1> QED
  BY <1>1, <1>2, <1>3 DEF AirInv

(* One row changes and keeps its generation and its attempts.              *)
LEMMA SentStillOne ==
  ASSUME SoundRows, NEW s \in Slots, NEW n, Follows(row[s], n),
         n.proofs >= row[s].proofs \/ "Suppressed" \in n.flags,
         row'[s] = n, \A t \in Slots : t # s => row'[t] = row[t]
  PROVE  SentStill
<1> SUFFICES ASSUME NEW t \in Slots
    PROVE /\ row'[t].gen = row[t].gen /\ (row[t].phase # "Free" => row'[t].phase # "Free")
          /\ row'[t].proofs >= row[t].proofs \/ "Suppressed" \in row'[t].flags
          /\ "Suppressed" \in row[t].flags => "Suppressed" \in row'[t].flags
  BY DEF SentStill
<1>1. CASE t = s
  BY <1>1 DEF Follows, SameJob
<1>2. CASE t # s
  <2>1. row[t].proofs \in Nat
    BY ProofsNat DEF SoundRows
  <2> QED
    BY <1>2, <2>1
<1> QED
  BY <1>1, <1>2

(* One row moves on, whatever else the engine is doing: it stays where it  *)
(* is, or a proof settles it and the workspace is given back.              *)
LEMMA OneReached ==
  ASSUME IInv, NEW s \in Slots, NEW n, Follows(row[s], n), n.proofs = row[s].proofs, n.flags = row[s].flags,
         row' = [row EXCEPT ![s] = n], air' \subseteq air, cursor' \in Nat,
         UNCHANGED <<offering, pass, queue, record, deleted, deleting>>,
         \/ /\ n.phase = row[s].phase /\ body' = body
            /\ n.desired = "DELIVERED" => row[s].desired = "DELIVERED"
         \/ body' = Released(s) /\ (n = row[s] \/ n.desired = "DELIVERED")
  PROVE  TablesInv' /\ ProofKept /\ BodyInv' /\ OfferInv' /\ SentStill
         /\ row'[s] = n /\ \A t \in Slots : t # s => row'[t] = row[t]
<1>1. SoundRows /\ JobsInv /\ BodyInv /\ OfferInv
  BY RowsAre
<1>2. RowsFollow /\ row'[s] = n /\ \A t \in Slots : t # s => row'[t] = row[t]
  BY <1>1, OneFollows
<1>3. TablesInv' /\ ProofKept
  BY <1>1, <1>2, SameJobs, RowsQuiet DEF IInv
<1>4. SentStill
  <2>1. n.proofs >= row[s].proofs
    BY <1>1, ProofsNat DEF SoundRows
  <2> QED
    BY <1>1, <1>2, <2>1, SentStillOne
<1>5. BodyInv'
  <2> SUFFICES ASSUME body' # NoBody, body # NoBody PROVE body' = body /\ HasBody(body.slot)'
    BY <1>1, <1>2, BodyQuiet DEF Released
  <2>1. body' = body
    BY DEF Released
  <2>2. body.slot \in Slots /\ body = Ticket(body.slot) /\ HasBody(body.slot)
    BY <1>1 DEF BodyInv
  <2>3. CASE body.slot # s
    BY <1>2, <2>1, <2>2, <2>3 DEF HasBody, Offering
  <2>4. CASE body.slot = s
    <3>1. body' # Released(s)
      BY <2>2, <2>4 DEF Released
    <3>2. n.op = row[s].op
      BY DEF Follows, SameJob
    <3> QED
      BY <1>2, <2>1, <2>2, <2>4, <3>1, <3>2 DEF HasBody, Offering
  <2> QED
    BY <2>1, <2>3, <2>4
<1>6. OfferInv'
  <2> SUFFICES ASSUME Offering # NoSlot
      PROVE  OfferRow(Offering)' /\ row'[Offering].proofs = row[Offering].proofs
    BY <1>1 DEF OfferInv, OfferShape, Offering, Attempt
  <2>1. OfferRow(Offering)
    BY <1>1 DEF OfferInv
  <2>2. Offering' = Offering
    BY DEF Offering
  <2>3. CASE Offering # s
    <3>1. row'[Offering] = row[Offering] /\ Offering \in Slots
      BY <1>2, <2>1, <2>3 DEF OfferRow
    <3>2. Ticket(Offering)' = Ticket(Offering)
      BY <2>2, <3>1 DEF Ticket
    <3>3. body' # body => body' = NoBody
      BY DEF Released
    <3>4. Ticket(Offering) # NoBody
      BY <3>1 DEF Ticket, NoBody, Slots, NoSlot
    <3> QED
      BY <2>1, <2>2, <3>1, <3>2, <3>3, <3>4 DEF OfferRow, Live
  <2>4. CASE Offering = s
    <3>1. Ticket(s)' = Ticket(s)
      BY <1>2 DEF Ticket, Follows, SameJob
    <3>2. NoBody # Ticket(s)
      BY DEF Ticket, NoBody, Slots, NoSlot
    <3>3. n.op = row[s].op /\ (n.phase = "Free" <=> row[s].phase = "Free")
      BY DEF Follows, SameJob
    <3>4. row'[s] = n
      BY <1>2
    <3>5. CASE n.phase = row[s].phase /\ body' = body
               /\ (n.desired = "DELIVERED" => row[s].desired = "DELIVERED")
      <4>1. row[s].desired = "DELIVERED" => n.desired = "DELIVERED"
        BY DEF Follows
      <4> QED
        BY <2>1, <2>2, <2>4, <3>1, <3>3, <3>4, <3>5, <4>1 DEF OfferRow, Live
    <3>6. CASE body' = Released(s) /\ (n = row[s] \/ n.desired = "DELIVERED")
      <4>1. body' # Ticket(s)
        BY <3>2, <3>6 DEF Released
      <4> QED
        BY <2>1, <2>2, <2>4, <3>1, <3>3, <3>4, <3>6, <4>1 DEF OfferRow, Live
    <3> QED
      BY <3>5, <3>6
  <2> QED
    BY <2>3, <2>4
<1> QED
  BY <1>2, <1>3, <1>4, <1>5, <1>6

(* One row moves on with the same counts.                                  *)
LEMMA OneCounts ==
  ASSUME SoundRows, NEW s \in Slots, NEW n, Follows(row[s], n), Counts(row[s], n),
         row'[s] = n, \A t \in Slots : t # s => row'[t] = row[t]
  PROVE  CountsKept
<1> SUFFICES ASSUME NEW t \in Slots
    PROVE /\ row'[t].gen = row[t].gen /\ (row[t].phase # "Free" => row'[t].phase # "Free")
          /\ Counts(row[t], row'[t])
          /\ "Suppressed" \in row[t].flags => "Suppressed" \in row'[t].flags
  BY DEF CountsKept
<1>1. Follows(row[t], row'[t]) /\ Counts(row[t], row'[t])
  <2>1. CASE t = s
    BY <2>1
  <2>2. CASE t # s
    BY <2>2, SameFollows DEF SoundRows
  <2> QED
    BY <2>1, <2>2
<1> QED
  BY <1>1, FollowCounts

(* Where loop() begins a pass, ends a grace period or takes a proof, and   *)
(* where an interface gives a packet back.                                 *)
LEMMA PollStep == ASSUME IInv, Poll PROVE IInv' /\ ProofKept
<1>1. /\ Idle /\ pass' = Answers /\ row' = row /\ body' = body /\ queue' = queue /\ cursor' = cursor
      /\ UNCHANGED <<offering, record, deleted, deleting, air>>
  BY DEF Poll, store
<1>2. SoundRows /\ SameQueue /\ cursor' \in Nat /\ BodyInv /\ AirInv
  BY <1>1, RowsAre, SameJobs
<1>3. RowsFollow /\ CountsKept
  BY <1>1, <1>2, SameCounts
<1>4. Answers' = Answers
  BY <1>1 DEF Answers
<1>5. TablesInv' /\ ProofKept
  BY <1>1, <1>2, <1>3, <1>4, RowsQuiet DEF IInv
<1>6. BodyInv'
  BY <1>1, <1>2 DEF BodyInv, Ticket, Live, HasBody, Offering
<1>7. OfferInv'
  BY <1>1, IdleOffer
<1>8. AirInv'
  BY <1>1, <1>2, <1>3, <1>5, AirQuiet DEF TablesInv
<1> QED
  BY <1>5, <1>6, <1>7, <1>8 DEF IInv

LEMMA GraceEndsStep == ASSUME IInv, NEW s \in Slots, GraceEnds(s) PROVE IInv' /\ ProofKept
<1> DEFINE n == [row[s] EXCEPT !.window = "over"]
<1>1. /\ body' = body /\ queue' = queue /\ cursor' = cursor /\ row[s].window = "open"
      /\ UNCHANGED <<offering, pass, queue, record, deleted, deleting, air>>
  BY DEF GraceEnds, engine, store
<1>2. SoundRows /\ Sound(row[s]) /\ cursor' \in Nat /\ row \in [Slots -> Rows] /\ AirInv
  BY <1>1, RowsAre DEF SoundRows
<1>3. row' = [row EXCEPT ![s] = n]
  BY DEF GraceEnds
<1>4. row[s].phase # "Free"
  BY <1>1, <1>2 DEF Sound, PhaseSound
<1>5. Follows(row[s], n) /\ Counts(row[s], n) /\ WindowSet(row[s], "over", n)
  BY <1>2, <1>4, PhasesAre, WindowIs
<1> HIDE DEF n
<1>6. n.phase = row[s].phase /\ n.desired = row[s].desired /\ n.proofs = row[s].proofs /\ n.flags = row[s].flags
  BY <1>5 DEF WindowSet, Alike
<1>7. /\ TablesInv' /\ ProofKept /\ BodyInv' /\ OfferInv'
      /\ row'[s] = n /\ \A t \in Slots : t # s => row'[t] = row[t]
  BY <1>1, <1>2, <1>3, <1>5, <1>6, OneReached
<1>8. CountsKept
  BY <1>2, <1>5, <1>7, OneCounts
<1>9. AirInv'
  BY <1>1, <1>2, <1>7, <1>8, AirQuiet DEF TablesInv
<1> QED
  BY <1>7, <1>9 DEF IInv

LEMMA ProofStep == ASSUME IInv, NEW s \in Slots, Proof(s) PROVE IInv' /\ ProofKept
<1> DEFINE n == SetStatus(row[s], "DELIVERED")
<1>1. /\ body' = Released(s) /\ cursor' = cursor /\ row[s].flown # {}
      /\ UNCHANGED <<offering, pass, queue, record, deleted, deleting, air>>
  BY DEF Proof, engine, store
<1>2. SoundRows /\ Sound(row[s]) /\ cursor' \in Nat /\ row \in [Slots -> Rows] /\ AirInv
  BY <1>1, RowsAre DEF SoundRows
<1>3. row' = [row EXCEPT ![s] = n]
  BY DEF Proof
<1>4. row[s].counter # 0
  BY <1>1, <1>2 DEF Sound, MarkSound
<1>5. Follows(row[s], n) /\ Counts(row[s], n) /\ StatusSet(row[s], "DELIVERED", n)
      /\ (n = row[s] \/ n.desired = "DELIVERED")
  BY <1>2, <1>4, DeliveredStatus
<1> HIDE DEF n
<1>6. n.proofs = row[s].proofs /\ n.flags = row[s].flags
  BY <1>5 DEF StatusSet, Alike
<1>7. /\ TablesInv' /\ ProofKept /\ BodyInv' /\ OfferInv'
      /\ row'[s] = n /\ \A t \in Slots : t # s => row'[t] = row[t]
  BY <1>1, <1>2, <1>3, <1>5, <1>6, OneReached
<1>8. CountsKept
  BY <1>2, <1>5, <1>7, OneCounts
<1>9. AirInv'
  BY <1>1, <1>2, <1>7, <1>8, AirQuiet DEF TablesInv
<1> QED
  BY <1>7, <1>9 DEF IInv

LEMMA DropStep == ASSUME IInv, NEW a \in air, Drop(a) PROVE IInv' /\ ProofKept
<1> DEFINE s == a.slot
           n == Returned(a, row[s])
<1>1. /\ body' = body /\ cursor' = cursor /\ air' = air \ {a}
      /\ UNCHANGED <<offering, pass, queue, record, deleted, deleting>>
  BY DEF Drop, engine, store
<1>2. SoundRows /\ AirInv /\ cursor' \in Nat /\ s \in Slots /\ Receivable(a)
  BY <1>1, RowsAre DEF AirInv, Receiptlike
<1>3. Sound(row[s]) /\ row[s].phase # "Free" /\ row[s].queued \in Nat /\ row[s].queued > 0
  BY <1>2, HeldCounted DEF SoundRows, Receivable, Live
<1>4. row' = [row EXCEPT ![s] = n]
  BY <1>2 DEF Drop
<1>5. /\ Follows(row[s], n) /\ n.queued = row[s].queued - 1
      /\ n.proofs = row[s].proofs /\ n.flags = row[s].flags
      /\ n.phase = row[s].phase /\ n.desired = row[s].desired
  BY <1>3, ReturnedIs
<1> HIDE DEF n, s
<1>6. /\ TablesInv' /\ ProofKept /\ BodyInv' /\ OfferInv' /\ SentStill
      /\ row'[s] = n /\ \A t \in Slots : t # s => row'[t] = row[t]
  BY <1>1, <1>2, <1>4, <1>5, OneReached
<1>7. \A t \in Slots : row'[t].queued = IF t = a.slot THEN row[t].queued - 1 ELSE row[t].queued
  BY <1>5, <1>6 DEF s
<1>8. AirInv'
  BY <1>1, <1>2, <1>6, <1>7, AirLess DEF TablesInv
<1> QED
  BY <1>6, <1>8 DEF IInv

LEMMA TransmitStep == ASSUME IInv, NEW a \in air, Transmit(a) PROVE IInv' /\ ProofKept
<1> DEFINE s == a.slot
           n == Transmitted(a, row[s])
<1>1. /\ body' = body /\ cursor' = cursor /\ air' = air \ {a} /\ LeaseLive(a)
      /\ UNCHANGED <<offering, pass, queue, record, deleted, deleting>>
  BY DEF Transmit, engine, store
<1>2. SoundRows /\ AirInv /\ cursor' \in Nat /\ s \in Slots /\ a.variant \in Variants
  BY <1>1, RowsAre DEF AirInv, Receiptlike
<1>3. Sound(row[s]) /\ row[s].phase # "Free" /\ row[s].queued \in Nat /\ row[s].queued > 0
      /\ row[s].desired # "DELIVERED" /\ row[s].mask # {}
  BY <1>1, <1>2, HeldCounted DEF SoundRows, Receivable, Live, LeaseLive
<1>4. row' = [row EXCEPT ![s] = n]
  BY DEF Transmit
<1>5. /\ Follows(row[s], n) /\ n.queued = row[s].queued - 1
      /\ n.proofs = row[s].proofs /\ n.flags = row[s].flags /\ n.phase = row[s].phase
  BY <1>2, <1>3, TransmittedIs
<1>6. n.desired # "DELIVERED"
  <2> DEFINE y == [Returned(a, row[s]) EXCEPT !.flown = @ \cup {a.variant}]
  <2>1. y \in Rows /\ y.desired = row[s].desired
    <3> DEFINE x == Returned(a, row[s])
    <3>1. Follows(row[s], x) /\ x.desired = row[s].desired
      BY <1>3, ReturnedIs
    <3>2. x \in Rows /\ x.flown \in SUBSET Variants
      BY <3>1, ProofsNat DEF Follows
    <3> HIDE DEF x
    <3>3. x.flown \cup {a.variant} \in SUBSET Variants
      BY <1>2, <3>2
    <3>4. [x EXCEPT !.flown = x.flown \cup {a.variant}] \in Rows
          /\ [x EXCEPT !.flown = x.flown \cup {a.variant}].desired = x.desired
      BY <3>2, <3>3 DEF Rows
    <3> QED
      BY <3>1, <3>4 DEF x
  <2>2. n = SetStatus(y, "SENT")
    BY DEF Transmitted
  <2> HIDE DEF y
  <2>3. StatusSet(y, "SENT", n)
    BY <2>1, <2>2, SetStatusIs, StatusesAre
  <2> QED
    BY <1>3, <2>1, <2>3 DEF StatusSet
<1> HIDE DEF n, s
<1>7. /\ TablesInv' /\ ProofKept /\ BodyInv' /\ OfferInv' /\ SentStill
      /\ row'[s] = n /\ \A t \in Slots : t # s => row'[t] = row[t]
  BY <1>1, <1>2, <1>4, <1>5, <1>6, OneReached
<1>8. \A t \in Slots : row'[t].queued = IF t = a.slot THEN row[t].queued - 1 ELSE row[t].queued
  BY <1>5, <1>7 DEF s
<1>9. AirInv'
  BY <1>1, <1>2, <1>7, <1>8, AirLess DEF TablesInv
<1> QED
  BY <1>7, <1>9 DEF IInv

-----------------------------------------------------------------------------
(* A packet is offered.                                                    *)
LEMMA LeastIs ==
  ASSUME NEW T, T \subseteq Nat, T # {}
  PROVE  Least(T) \in T /\ \A y \in T : Least(T) <= y
<1> DEFINE Less == OpToRel(<, Nat)
<1>1. IsWellFoundedOn(Less, Nat)
  BY NatLessThanWellFounded
<1>2. \A x, y \in Nat : y < x => <<y, x>> \in Less
  BY DEF OpToRel
<1> HIDE DEF Less
<1>3. PICK x \in T : \A y \in T : ~(<<y, x>> \in Less)
  BY <1>1, WFMin, Zenon
<1>4. ASSUME NEW y \in T PROVE x <= y
  <2>1. ~(y < x) /\ x \in Nat /\ y \in Nat
    BY <1>2, <1>3, Zenon
  <2> QED
    BY <2>1
<1> QED
  BY <1>4, Zenon DEF Least

(* The offer of a packet to one interface after the other.                 *)
LEMMA PreparePacketStep == ASSUME IInv, NEW s \in Slots, PreparePacket(s) PROVE IInv' /\ ProofKept
<1> DEFINE n == Prepared(row[s])
<1>1. /\ Idle /\ row[s].phase = "Reading" /\ row[s].op = "none" /\ "Suppressed" \notin row[s].flags
      /\ body = Ticket(s) /\ row[s].proofs < ProofAttempts /\ body' = body /\ cursor' = cursor
      /\ UNCHANGED <<pass, queue, record, deleted, deleting, air>>
  BY DEF PreparePacket, Attempting, engine, store
<1>2. PICK targets \in SUBSET Interfaces \ {{}} :
        offering' = [slot |-> s, left |-> targets, now |-> NoSlot, accepted |-> FALSE]
  BY DEF PreparePacket
<1>3. SoundRows /\ AirInv /\ cursor' \in Nat /\ Sound(row[s]) /\ SameQueue
  BY <1>1, RowsAre, SameJobs
<1>4. row' = [row EXCEPT ![s] = n]
  BY DEF PreparePacket
<1>5. /\ Follows(row[s], n) /\ Counts(row[s], n)
      /\ n.phase = "AwaitProof" /\ n.proofs = row[s].proofs + 1 /\ n.flags = row[s].flags
  BY <1>1, <1>3, PreparedIs
<1> HIDE DEF n
<1>6. RowsFollow /\ row'[s] = n /\ \A t \in Slots : t # s => row'[t] = row[t]
  BY <1>3, <1>4, <1>5, OneFollows
<1>7. TablesInv' /\ ProofKept
  BY <1>1, <1>3, <1>6, RowsQuiet DEF IInv
<1>8. n.op = "none" /\ n.gen = row[s].gen /\ n.desired # "DELIVERED" /\ row[s].proofs \in Nat
  <2>1. Sound(n)
    BY <1>5 DEF Follows
  <2> QED
    BY <1>1, <1>3, <1>5, <2>1, NoJobYet, ProofsNat DEF Follows, SameJob, Active
<1>9. Offering' = s /\ s # NoSlot
  BY <1>2 DEF Offering, Slots, NoSlot
<1>10. BodyInv'
  <2>1. Ticket(s)' = Ticket(s) /\ body.slot = s
    BY <1>1, <1>6, <1>8 DEF Ticket
  <2> QED
    BY <1>1, <1>5, <1>6, <1>9, <2>1 DEF BodyInv, HasBody, Live
<1>11. OfferInv'
  <2>1. OfferRow(s)'
    <3>1. pass' = {}
      BY <1>1 DEF Idle
    <3>2. n.proofs # 0
      BY <1>5, <1>8
    <3> QED
      BY <1>1, <1>5, <1>6, <1>8, <3>1, <3>2 DEF OfferRow, Live
  <2>2. ASSUME NEW a \in air, a.slot = s, a.variant = row'[s].proofs - 1 PROVE FALSE
    <3>1. a.variant = row[s].proofs
      BY <1>5, <1>6, <1>8, <2>2
    <3>2. Made(a)
      BY <1>3 DEF AirInv
    <3>3. a.variant # Resource
      BY <1>1, <1>8, <3>1, AttemptsNat DEF Resource
    <3>4. ~(a.variant < row[s].proofs)
      BY <1>8, <3>1
    <3> QED
      BY <1>1, <2>2, <3>2, <3>3, <3>4 DEF Made
  <2>3. /\ offering'.left \subseteq Interfaces /\ offering'.now \in Interfaces \cup {NoSlot}
        /\ offering'.now \notin offering'.left
    <3>1. NoSlot \notin Interfaces
      BY OutgoingAssumption DEF NoSlot
    <3> QED
      BY <1>2, <3>1
  <2> QED
    BY <1>1, <1>2, <1>9, <2>1, <2>2, <2>3 DEF OfferInv, OfferShape, Attempt
<1>12. AirInv'
  <2>1. CountsKept
    BY <1>3, <1>5, <1>6, OneCounts
  <2> QED
    BY <1>1, <1>3, <1>7, <2>1, AirQuiet DEF TablesInv
<1> QED
  BY <1>7, <1>10, <1>11, <1>12 DEF IInv

(* What a step that changes only how many receipts its row counts leaves.  *)
LEMMA OfferKept ==
  ASSUME IInv, Offering # NoSlot, NEW s, s = Offering, NEW n, Follows(row[s], n), n.phase = row[s].phase,
         n.proofs = row[s].proofs, n.flags = row[s].flags, n.desired = row[s].desired,
         row' = [row EXCEPT ![s] = n], Offering' = s, cursor' = cursor,
         UNCHANGED <<body, pass, queue, record, deleted, deleting>>
  PROVE  TablesInv' /\ ProofKept /\ BodyInv' /\ OfferRow(s)' /\ SentStill /\ Attempt' = Attempt
<1>1. SoundRows /\ cursor' \in Nat /\ SameQueue /\ OfferRow(s) /\ s \in Slots /\ Sound(row[s]) /\ BodyInv
  BY RowsAre, SameJobs DEF OfferInv, OfferRow
<1>2. RowsFollow /\ row'[s] = n /\ \A t \in Slots : t # s => row'[t] = row[t]
  BY <1>1, OneFollows
<1>3. TablesInv' /\ ProofKept
  BY <1>1, <1>2, RowsQuiet DEF IInv
<1>4. n.gen = row[s].gen /\ n.op = row[s].op
  BY DEF Follows, SameJob
<1>5. BodyInv'
  <2>1. body # NoBody => HasBody(body.slot)'
    BY <1>1, <1>2, <1>4 DEF BodyInv, HasBody
  <2> QED
    BY <1>1, <1>2, <2>1, BodyQuiet
<1>6. OfferRow(s)'
  <2>1. Ticket(s)' = Ticket(s)
    BY <1>2, <1>4 DEF Ticket
  <2> QED
    BY <1>1, <1>2, <1>4, <2>1 DEF OfferRow, Live
<1>7. SentStill
  <2>1. n.proofs >= row[s].proofs
    BY <1>1, ProofsNat
  <2> QED
    BY <1>1, <1>2, <2>1, SentStillOne
<1>8. Attempt' = Attempt
  BY <1>2 DEF Attempt
<1> QED
  BY <1>2, <1>3, <1>5, <1>6, <1>7, <1>8

LEMMA OfferNextStep == ASSUME IInv, OfferNext PROVE IInv' /\ ProofKept
<1>a. PICK s : s = Offering
  OBVIOUS
<1>b. PICK v : v = Attempt
  OBVIOUS
<1>c. PICK i : i = Least(offering.left)
  OBVIOUS
<1>d. PICK n : n = [row[s] EXCEPT !.queued = @ + 1]
  OBVIOUS
<1>e. PICK a : a = Receipt(s, v, i)
  OBVIOUS
<1>1. /\ s # NoSlot /\ offering.now = NoSlot /\ offering.left # {}
      /\ offering' = [offering EXCEPT !.left = @ \ {i}, !.now = i]
      /\ air' = air \cup {a} /\ cursor' = cursor
      /\ UNCHANGED <<body, pass, queue, record, deleted, deleting>>
  BY <1>a, <1>b, <1>c, <1>e DEF OfferNext, engine, store
<1>2. /\ SoundRows /\ AirInv /\ OfferInv /\ OfferRow(s) /\ s \in Slots /\ Sound(row[s])
      /\ row[s].phase # "Free" /\ OfferShape
  BY <1>1, <1>a, RowsAre DEF OfferInv, OfferRow, Live
<1>3. row' = [row EXCEPT ![s] = n]
  BY <1>a, <1>d DEF OfferNext
<1>4. i \in offering.left /\ i \in Interfaces /\ i # NoSlot /\ NoSlot \notin Interfaces
      /\ offering.left \subseteq Interfaces
  <2>1. offering.left \subseteq Nat /\ offering.left \subseteq Interfaces
    BY <1>1, <1>2, <1>a, OutgoingAssumption DEF OfferInv
  <2>2. i \in offering.left
    BY <1>1, <1>c, <2>1, LeastIs
  <2> QED
    BY <2>1, <2>2, OutgoingAssumption DEF NoSlot
<1>5. row[s].queued \in Nat /\ row[s].queued + 1 \in Nat /\ row[s].proofs \in Nat
      /\ row[s].proofs \in Variants
  BY <1>2, ProofsNat
<1>6. /\ Follows(row[s], n) /\ n.queued = row[s].queued + 1 /\ n.proofs = row[s].proofs
      /\ n.flags = row[s].flags /\ n.phase = row[s].phase /\ n.desired = row[s].desired
  <2> DEFINE q == row[s].queued + 1
  <2>1. n = [row[s] EXCEPT !.queued = q] /\ q \in Nat
    BY <1>5, <1>d
  <2> HIDE DEF q
  <2>2. /\ Follows(row[s], n) /\ n.queued = q /\ n.proofs = row[s].proofs
        /\ n.flags = row[s].flags /\ n.phase = row[s].phase /\ n.desired = row[s].desired
    BY <1>2, <2>1, QueuedIs
  <2> QED
    BY <2>2 DEF q
<1>7. offering'.slot = s /\ offering'.left = offering.left \ {i} /\ offering'.now = i
      /\ offering'.accepted = offering.accepted /\ OfferShape'
  <2>1. offering' = [slot |-> offering.slot, left |-> offering.left \ {i}, now |-> i,
                     accepted |-> offering.accepted]
    BY <1>1, <1>2 DEF OfferShape
  <2> QED
    BY <1>a, <2>1 DEF Offering, OfferShape
<1>8. a = [slot |-> s, gen |-> row[s].gen, variant |-> v, iface |-> i] /\ v = row[s].proofs - 1
  BY <1>a, <1>b, <1>e DEF Receipt, Attempt
<1>9. v \in Variants /\ v < row[s].proofs
  <2>1. row[s].proofs # 0
    BY <1>2 DEF OfferRow
  <2>2. row[s].proofs \in 0 .. ProofAttempts /\ ProofAttempts \in Nat
    BY <1>5, AttemptsNat DEF Variants
  <2>3. v \in 0 .. ProofAttempts /\ v < row[s].proofs
    BY <1>8, <2>1, <2>2
  <2> QED
    BY <2>3 DEF Variants
<1>10. Offering' = s
  BY <1>7 DEF Offering
<1>11. /\ TablesInv' /\ ProofKept /\ BodyInv' /\ OfferRow(s)' /\ SentStill /\ Attempt' = Attempt
       /\ row'[s] = n /\ \A t \in Slots : t # s => row'[t] = row[t]
  <2>1. Offering # NoSlot
    BY <1>1, <1>a
  <2>2. UNCHANGED <<body, pass, queue, record, deleted, deleting>> /\ cursor' = cursor
    BY <1>1
  <2>3. /\ Follows(row[s], n) /\ n.phase = row[s].phase
        /\ n.proofs = row[s].proofs /\ n.flags = row[s].flags /\ n.desired = row[s].desired
    BY <1>6
  <2>4. s = Offering /\ Offering' = s /\ row' = [row EXCEPT ![s] = n]
    BY <1>a, <1>3, <1>10
  <2>5. TablesInv' /\ ProofKept /\ BodyInv' /\ OfferRow(s)' /\ SentStill /\ Attempt' = Attempt
    BY <2>1, <2>2, <2>3, <2>4, OfferKept, Zenon
  <2>6. row'[s] = n /\ \A t \in Slots : t # s => row'[t] = row[t]
    BY <1>2, <1>3, <2>3, OneFollows
  <2> QED
    BY <2>5, <2>6
<1>12. \A b \in air : b.slot = s /\ b.variant = v => offering.accepted /\ b.iface \notin offering.left
  <2>1. \A b \in air : b.iface # NoSlot
    BY <1>2, <1>4 DEF AirInv, Receiptlike
  <2> QED
    BY <1>1, <1>2, <1>a, <1>b, <2>1 DEF OfferInv
<1>13. a \notin air /\ a.slot = s /\ a.variant = v /\ a.iface = i
  BY <1>4, <1>8, <1>12
<1>14. OfferInv'
  <2>1. \A b \in air' : b.slot = s /\ b.variant = v =>
          b.iface = i \/ (offering.accepted /\ b.iface \notin offering.left \ {i})
    BY <1>1, <1>12, <1>13
  <2>2. offering'.left \subseteq Interfaces /\ offering'.now \notin offering'.left
    BY <1>4, <1>7
  <2> QED
    BY <1>1, <1>4, <1>7, <1>10, <1>11, <1>b, <2>1, <2>2 DEF OfferInv
<1>15. AirInv'
  <2>1. Receiptlike(a)
    BY <1>2, <1>4, <1>8, <1>9, <1>13 DEF Receiptlike
  <2>2. Made(a)'
    BY <1>6, <1>9, <1>11, <1>13 DEF Made
  <2>3. Receivable(a)'
    <3>1. n.gen = row[s].gen /\ a.gen = row[s].gen
      BY <1>6, <1>8 DEF Follows, SameJob
    <3> QED
      BY <1>2, <1>6, <1>11, <1>13, <3>1 DEF Receivable, Live
  <2>4. \A t \in Slots : row'[t].queued = IF t = a.slot THEN row[t].queued + 1 ELSE row[t].queued
    BY <1>6, <1>11, <1>13
  <2> QED
    BY <1>1, <1>2, <1>11, <1>13, <2>1, <2>2, <2>3, <2>4, AirMore DEF TablesInv
<1> QED
  BY <1>11, <1>14, <1>15 DEF IInv

(* offering as OfferNext and OfferReturns leave it, and what it knows.     *)
LEMMA TheReceipt ==
  ASSUME AirInv, NEW s, NEW v, NEW i, NEW b \in air, b.slot = s, b.variant = v, b.iface = i
  PROVE  b = Receipt(s, v, i)
<1>1. Receiptlike(b) /\ Receivable(b)
  BY DEF AirInv
<1> QED
  BY <1>1 DEF Receiptlike, Receivable, Receipt

LEMMA OfferReturnsStep == ASSUME IInv, OfferReturns PROVE IInv' /\ ProofKept
<1>a. PICK s : s = Offering
  OBVIOUS
<1>b. PICK v : v = Attempt
  OBVIOUS
<1>c. PICK i : i = offering.now
  OBVIOUS
<1>e. PICK a : a = Receipt(s, v, i)
  OBVIOUS
<1>1. /\ s # NoSlot /\ i # NoSlot /\ cursor' = cursor
      /\ UNCHANGED <<body, pass, queue, record, deleted, deleting>>
  BY <1>a, <1>c DEF OfferReturns, engine, store
<1>2. /\ SoundRows /\ AirInv /\ OfferInv /\ OfferRow(s) /\ s \in Slots /\ Sound(row[s])
      /\ row[s].phase # "Free" /\ OfferShape
  BY <1>1, <1>a, RowsAre DEF OfferInv, OfferRow, Live
<1>3. /\ offering.left \subseteq Interfaces /\ i \notin offering.left /\ NoSlot \notin offering.left
      /\ \A b \in air : b.slot = s /\ b.variant = v =>
           b.iface = i \/ (offering.accepted /\ b.iface \notin offering.left)
  <2>1. NoSlot \notin Interfaces
    BY OutgoingAssumption DEF NoSlot
  <2> QED
    BY <1>1, <1>2, <1>a, <1>b, <1>c, <2>1 DEF OfferInv
<1>4. Offered = a
  BY <1>a, <1>b, <1>c, <1>e DEF Offered
<1>5. \A b \in air : b.slot = s /\ b.variant = v /\ b.iface = i => b = a
  BY <1>2, <1>e, TheReceipt
<1>6. CASE /\ a \in air /\ air' = air \ {a}
           /\ row' = [row EXCEPT ![s].queued = @ - 1]
           /\ offering' = [offering EXCEPT !.now = NoSlot]
  <2>1. a.slot = s
    BY <1>e DEF Receipt
  <2>2. row[s].queued \in Nat /\ row[s].queued > 0
    BY <1>2, <1>6, <2>1, HeldCounted
  <2>3. PICK q : q = row[s].queued - 1
    OBVIOUS
  <2>4. PICK n : n = [row[s] EXCEPT !.queued = q]
    OBVIOUS
  <2>5. q \in Nat
    BY <2>2, <2>3
  <2>6. /\ Follows(row[s], n) /\ n.queued = q /\ n.proofs = row[s].proofs
        /\ n.flags = row[s].flags /\ n.phase = row[s].phase /\ n.desired = row[s].desired
    BY <1>2, <2>4, <2>5, QueuedIs
  <2>7. row' = [row EXCEPT ![s] = n]
    BY <1>6, <2>3, <2>4
  <2>8. offering' = [slot |-> offering.slot, left |-> offering.left, now |-> NoSlot,
                     accepted |-> offering.accepted]
    BY <1>2, <1>6 DEF OfferShape
  <2>9. OfferShape' /\ Offering' = s /\ offering'.left = offering.left
        /\ offering'.now = NoSlot /\ offering'.accepted = offering.accepted
    BY <1>a, <2>8 DEF OfferShape, Offering
  <2>10. TablesInv' /\ ProofKept /\ BodyInv' /\ OfferRow(s)' /\ SentStill /\ Attempt' = Attempt
    <3>1. Offering # NoSlot /\ s = Offering /\ Offering' = s
      BY <1>1, <1>a, <2>9
    <3>2. UNCHANGED <<body, pass, queue, record, deleted, deleting>> /\ cursor' = cursor
      BY <1>1
    <3> QED
      BY <2>6, <2>7, <3>1, <3>2, OfferKept, Zenon
  <2>11. row'[s] = n /\ \A t \in Slots : t # s => row'[t] = row[t]
    BY <1>2, <2>6, <2>7, OneFollows
  <2>12. OfferInv'
    <3>1. \A b \in air' : b.slot = s /\ b.variant = v => offering.accepted /\ b.iface \notin offering.left
      BY <1>3, <1>5, <1>6
    <3> QED
      BY <1>1, <1>3, <1>b, <2>9, <2>10, <3>1 DEF OfferInv
  <2>13. AirInv'
    <3>1. \A t \in Slots : row'[t].queued = IF t = a.slot THEN row[t].queued - 1 ELSE row[t].queued
      BY <2>1, <2>3, <2>6, <2>11
    <3> QED
      BY <1>2, <1>6, <2>10, <3>1, AirLess DEF TablesInv
  <2> QED
    BY <2>10, <2>12, <2>13 DEF IInv
<1>7. CASE /\ UNCHANGED <<row, air>>
           /\ offering' = [offering EXCEPT !.now = NoSlot,
                !.accepted = @ \/ a \in air \/ v \in row[s].flown]
  <2>1. PICK yes : yes = (offering.accepted \/ a \in air \/ v \in row[s].flown)
    OBVIOUS
  <2>2. offering' = [slot |-> offering.slot, left |-> offering.left, now |-> NoSlot, accepted |-> yes]
    BY <1>2, <1>7, <2>1 DEF OfferShape
  <2>3. OfferShape' /\ Offering' = s /\ offering'.left = offering.left
        /\ offering'.now = NoSlot /\ offering'.accepted = yes
    BY <1>a, <2>2 DEF OfferShape, Offering
  <2>4. TablesInv' /\ ProofKept /\ BodyInv' /\ OfferRow(s)' /\ SentStill /\ Attempt' = Attempt
    <3>1. Offering # NoSlot /\ s = Offering /\ Offering' = s
      BY <1>1, <1>a, <2>3
    <3>2. UNCHANGED <<body, pass, queue, record, deleted, deleting>> /\ cursor' = cursor
      BY <1>1
    <3>3. PICK n : n = row[s]
      OBVIOUS
    <3>4. row' = [row EXCEPT ![s] = n]
      BY <1>2, <1>7, <3>3 DEF SoundRows
    <3>5. Follows(row[s], n)
      BY <1>2, <3>3, SameFollows
    <3>6. n.proofs = row[s].proofs /\ n.flags = row[s].flags /\ n.phase = row[s].phase
          /\ n.desired = row[s].desired
      BY <3>3
    <3> QED
      BY <3>1, <3>2, <3>4, <3>5, <3>6, OfferKept, Zenon
  <2>5. OfferInv'
    <3>1. \A b \in air' : b.slot = s /\ b.variant = v => yes /\ b.iface \notin offering.left
      <4> SUFFICES ASSUME NEW b \in air, b.slot = s, b.variant = v PROVE yes /\ b.iface \notin offering.left
        BY <1>7
      <4>1. CASE b.iface = i
        <5>1. b = a
          BY <1>5, <4>1
        <5> QED
          BY <1>3, <2>1, <4>1, <5>1
      <4>2. CASE b.iface # i
        BY <1>3, <2>1, <4>2
      <4> QED
        BY <4>1, <4>2
    <3> QED
      BY <1>1, <1>3, <1>b, <2>3, <2>4, <3>1 DEF OfferInv
  <2>6. AirInv'
    <3>1. CountsKept
      BY <1>2, <1>7, SameCounts
    <3> QED
      BY <1>2, <1>7, <2>4, <3>1, AirQuiet DEF TablesInv
  <2> QED
    BY <2>4, <2>5, <2>6 DEF IInv
<1> QED
  BY <1>4, <1>6, <1>7, <1>a, <1>b, <1>c DEF OfferReturns

(* The same packets and counts, and each packet is still of an attempt.    *)
LEMMA AirSame ==
  ASSUME AirInv, air' = air, \A b \in air : Made(b)',
         \A s \in Slots : /\ row'[s].gen = row[s].gen /\ (row[s].phase # "Free" => row'[s].phase # "Free")
                          /\ row'[s].queued = row[s].queued
  PROVE  AirInv'
<1>1. \A s \in Slots : Held(s)' = Held(s)
  BY DEF Held
<1>2. ASSUME NEW b \in air PROVE Receiptlike(b)' /\ Receivable(b)'
  <2>1. Receiptlike(b) /\ Receivable(b) /\ b.slot \in Slots
    BY DEF AirInv, Receiptlike
  <2> QED
    BY <2>1 DEF Receivable, Live, Receiptlike
<1> QED
  BY <1>1, <1>2 DEF AirInv

LEMMA OfferEndsStep == ASSUME IInv, OfferEnds PROVE IInv' /\ ProofKept
<1>a. PICK s : s = Offering
  OBVIOUS
<1>1. /\ s # NoSlot /\ offering.now = NoSlot /\ offering' = NotOffering /\ cursor' = cursor
      /\ body' = (IF Moot THEN body ELSE Released(s))
      /\ row' = (IF Moot \/ offering.accepted THEN row ELSE [row EXCEPT ![s] = RolledBack(@)])
      /\ UNCHANGED <<pass, queue, record, deleted, deleting, air>>
  BY <1>a DEF OfferEnds, engine, store
<1>2. /\ SoundRows /\ AirInv /\ OfferInv /\ OfferRow(s) /\ s \in Slots /\ Sound(row[s])
      /\ row[s].phase # "Free" /\ SameQueue /\ cursor' \in Nat /\ BodyInv
  BY <1>1, <1>a, RowsAre, SameJobs DEF OfferInv, OfferRow, Live
<1>3. Moot => body # Ticket(s)
  BY <1>2, <1>a DEF Moot, OfferRow
<1>4. ~Moot => body = Ticket(s) /\ row[s].phase = "AwaitProof"
  BY <1>2, <1>a DEF Moot, OfferRow
<1>5. OfferInv' /\ Offering' = NoSlot
  BY <1>1 DEF OfferInv, Offering, NotOffering
<1>6. CASE row' = row
  <2>1. RowsFollow /\ CountsKept
    BY <1>2, <1>6, SameCounts
  <2>2. TablesInv' /\ ProofKept
    BY <1>1, <1>2, <2>1, RowsQuiet DEF IInv
  <2>3. AirInv'
    BY <1>1, <1>2, <2>1, <2>2, AirQuiet DEF TablesInv
  <2>4. BodyInv'
    <3>1. CASE ~Moot
      <4>1. body' = NoBody
        BY <1>1, <1>4, <3>1 DEF Released
      <4> QED
        BY <4>1 DEF BodyInv
    <3>2. CASE Moot /\ body # NoBody
      <4>1. body.slot \in Slots /\ body = Ticket(body.slot) /\ HasBody(body.slot) /\ body.slot # s
        BY <1>2, <1>3, <3>2 DEF BodyInv
      <4>2. HasBody(body.slot)'
        BY <1>1, <1>6, <1>a, <3>2, <4>1 DEF HasBody
      <4> QED
        BY <1>1, <1>2, <2>1, <3>2, <4>2, BodyQuiet
    <3>3. CASE Moot /\ body = NoBody
      BY <1>1, <3>3 DEF BodyInv
    <3> QED
      BY <3>1, <3>2, <3>3
  <2> QED
    BY <1>5, <2>2, <2>3, <2>4 DEF IInv
<1>7. CASE row' # row
  <2>1. ~Moot /\ ~offering.accepted
    BY <1>1, <1>7
  <2>2. PICK n : n = RolledBack(row[s])
    OBVIOUS
  <2>3. row' = [row EXCEPT ![s] = n]
    BY <1>1, <2>1, <2>2
  <2>4. /\ Follows(row[s], n) /\ n.queued = row[s].queued /\ n.proofs = row[s].proofs - 1
        /\ n.flags = row[s].flags
    BY <1>2, <1>4, <2>1, <2>2, RolledBackIs DEF OfferRow
  <2>5. RowsFollow /\ row'[s] = n /\ \A t \in Slots : t # s => row'[t] = row[t]
    BY <1>2, <2>3, <2>4, OneFollows
  <2>6. TablesInv' /\ ProofKept
    BY <1>1, <1>2, <2>5, RowsQuiet DEF IInv
  <2>7. BodyInv'
    <3>1. body' = NoBody
      BY <1>1, <1>4, <2>1 DEF Released
    <3> QED
      BY <3>1 DEF BodyInv
  <2>8. ASSUME NEW b \in air PROVE Made(b)'
    <3>1. Made(b) /\ b.slot \in Slots /\ b.variant \in Nat /\ b.iface \in Interfaces
      BY <1>2 DEF AirInv, Receiptlike, Variants
    <3>2. CASE b.slot # s
      BY <2>5, <3>1, <3>2 DEF Made
    <3>3. CASE b.slot = s /\ b.variant = Resource
      BY <3>3 DEF Made
    <3>4. CASE b.slot = s /\ b.variant # Resource
      <4>1. b.variant < row[s].proofs
        BY <1>2, <3>1, <3>4 DEF Made, OfferRow
      <4>2. b.variant # row[s].proofs - 1
        <5>1. b.iface # NoSlot
          BY <3>1, OutgoingAssumption DEF NoSlot
        <5> QED
          BY <1>1, <1>2, <1>a, <2>1, <3>4, <5>1 DEF OfferInv, Attempt
      <4>3. row[s].proofs \in Nat
        BY <1>2, ProofsNat
      <4>4. b.variant < n.proofs
        BY <2>4, <3>1, <4>1, <4>2, <4>3
      <4> QED
        BY <2>5, <3>4, <4>4 DEF Made
    <3> QED
      BY <3>2, <3>3, <3>4
  <2>9. AirInv'
    <3>1. \A t \in Slots : /\ row'[t].gen = row[t].gen /\ (row[t].phase # "Free" => row'[t].phase # "Free")
                           /\ row'[t].queued = row[t].queued
      BY <2>4, <2>5 DEF Follows, SameJob
    <3> QED
      BY <1>1, <1>2, <2>8, <3>1, AirSame
  <2> QED
    BY <1>5, <2>6, <2>7, <2>9 DEF IInv
<1> QED
  BY <1>6, <1>7

LEMMA OfferResourceStep == ASSUME IInv, NEW s \in Slots, OfferResource(s) PROVE IInv' /\ ProofKept
<1>a. PICK a : a = Receipt(s, Resource, Least(Interfaces))
  OBVIOUS
<1>b. PICK n : n = ResourceOffered(row[s])
  OBVIOUS
<1>1. /\ Idle /\ row[s].phase = "Resource" /\ a \notin air /\ air' = air \cup {a} /\ cursor' = cursor
      /\ row' = [row EXCEPT ![s] = n]
      /\ UNCHANGED <<body, offering, pass, queue, record, deleted, deleting>>
  BY <1>a, <1>b DEF OfferResource, engine, store
<1>2. SoundRows /\ AirInv /\ Sound(row[s]) /\ SameQueue /\ cursor' \in Nat /\ BodyInv
  BY <1>1, RowsAre, SameJobs
<1>3. /\ Follows(row[s], n) /\ n.queued = row[s].queued + 1 /\ n.proofs = row[s].proofs
      /\ n.flags = row[s].flags
  BY <1>1, <1>2, <1>b, ResourceOfferedIs
<1>4. RowsFollow /\ row'[s] = n /\ \A t \in Slots : t # s => row'[t] = row[t]
  BY <1>1, <1>2, <1>3, OneFollows
<1>5. TablesInv' /\ ProofKept
  BY <1>1, <1>2, <1>4, RowsQuiet DEF IInv
<1>6. OfferInv' /\ Offering = NoSlot /\ Offering' = NoSlot
  BY <1>1, IdleOffer DEF Offering
<1>7. BodyInv'
  <2>1. body # NoBody => HasBody(body.slot)'
    <3> SUFFICES ASSUME body # NoBody PROVE HasBody(body.slot)'
      OBVIOUS
    <3>1. body.slot \in Slots /\ HasBody(body.slot) /\ body.slot # NoSlot
      BY <1>2 DEF BodyInv, Slots, NoSlot
    <3>2. n.op = row[s].op
      BY <1>3 DEF Follows, SameJob
    <3> QED
      BY <1>1, <1>4, <1>6, <3>1, <3>2 DEF HasBody
  <2> QED
    BY <1>1, <1>2, <1>4, <2>1, BodyQuiet
<1>8. AirInv'
  <2>1. a = [slot |-> s, gen |-> row[s].gen, variant |-> Resource, iface |-> Least(Interfaces)]
    BY <1>a DEF Receipt
  <2>2. Receiptlike(a) /\ a.slot = s /\ a.gen = row[s].gen /\ a.variant = Resource
    <3>1. Least(Interfaces) \in Interfaces
      BY OutgoingAssumption, LeastIs
    <3>2. Resource \in Variants
      BY AttemptsNat DEF Resource, Variants
    <3> QED
      BY <2>1, <3>1, <3>2 DEF Receiptlike
  <2>3. Made(a)'
    BY <2>2 DEF Made
  <2>4. Receivable(a)'
    BY <1>1, <1>3, <1>4, <2>2 DEF Receivable, Live, Follows, SameJob
  <2>5. \A t \in Slots : row'[t].queued = IF t = a.slot THEN row[t].queued + 1 ELSE row[t].queued
    BY <1>3, <1>4, <2>2
  <2>6. SentStill
    <3>1. n.proofs >= row[s].proofs
      BY <1>2, <1>3, ProofsNat
    <3> QED
      BY <1>2, <1>3, <1>4, <3>1, SentStillOne
  <2> QED
    BY <1>1, <1>2, <1>5, <2>2, <2>3, <2>4, <2>5, <2>6, AirMore DEF TablesInv
<1> QED
  BY <1>5, <1>6, <1>7, <1>8 DEF IInv

-----------------------------------------------------------------------------
(* Steps that give a row a job, take its result or use it again.           *)
InQueue(q) == \E i \in DOMAIN queue : q = queue[i]

(* The parts of JobsInv, for citing.                                       *)
LEMMA JobsAre == ASSUME JobsInv
  PROVE  /\ queue \in Seq(Jobs) /\ Len(queue) \in Nat /\ DOMAIN queue = 1 .. Len(queue)
         /\ \A i \in DOMAIN queue : queue[i] \in Jobs /\ InQueue(queue[i]) /\ Awaited(queue[i])
BY DEF JobsInv, InQueue

(* The rows change under the jobs that wait.                               *)
LEMMA JobsSame ==
  ASSUME JobsInv, queue' = queue, deleted' = deleted,
         \A q : InQueue(q) => Awaited(q)',
         \A p, q : InQueue(p) /\ InQueue(q) /\ Behind(p, q) => Behind(p, q)'
  PROVE  JobsInv'
<1>1. \A i \in DOMAIN queue : InQueue(queue[i]) /\ Awaited(queue[i])'
  BY DEF InQueue
<1>2. \A i, j \in DOMAIN queue : i < j => Behind(queue[i], queue[j])'
  BY <1>1 DEF JobsInv
<1>3. \A i, j \in DOMAIN queue : i # j => Apart(queue[i], queue[j])'
  BY DEF JobsInv, Apart
<1> QED
  BY <1>1, <1>2, <1>3 DEF JobsInv

(* And one more is put behind them.                                        *)
LEMMA JobsMore ==
  ASSUME JobsInv, NEW new \in Jobs, queue' = Append(queue, new),
         \A q : InQueue(q) => Awaited(q)' /\ Apart(q, new) /\ Apart(new, q) /\ Behind(q, new)',
         \A p, q : InQueue(p) /\ InQueue(q) /\ Behind(p, q) => Behind(p, q)',
         Awaited(new)', deleted' = "waiting" => deleted = "waiting" \/ new.op = "Delete",
         new.op = "Delete" => deleted # "waiting"
  PROVE  JobsInv'
<1> DEFINE k == Len(queue) + 1
<1>1. /\ queue \in Seq(Jobs) /\ Len(queue) \in Nat /\ DOMAIN queue = 1 .. Len(queue)
      /\ \A i \in DOMAIN queue : queue[i] \in Jobs /\ InQueue(queue[i]) /\ Awaited(queue[i])
  BY JobsAre
<1>2. /\ queue' \in Seq(Jobs) /\ DOMAIN queue' = DOMAIN queue \cup {k} /\ queue'[k] = new
      /\ \A i \in DOMAIN queue : queue'[i] = queue[i] /\ i < k /\ i # k
  BY <1>1
<1> HIDE DEF k
<1>3. \A i \in DOMAIN queue : InQueue(queue[i])
  BY DEF InQueue
<1>4. \A i \in DOMAIN queue' : Awaited(queue[i])'
  <2> SUFFICES ASSUME NEW i \in DOMAIN queue' PROVE Awaited(queue[i])'
    OBVIOUS
  <2>1. CASE i \in DOMAIN queue
    BY <1>2, <1>3, <2>1 DEF Awaited
  <2>2. CASE i = k
    BY <1>2, <2>2 DEF Awaited
  <2> QED
    BY <1>2, <2>1, <2>2
<1>5. \A i, j \in DOMAIN queue' : i # j => Apart(queue[i], queue[j])'
  <2> SUFFICES ASSUME NEW i \in DOMAIN queue', NEW j \in DOMAIN queue', i # j
      PROVE Apart(queue'[i], queue'[j])
    BY DEF Apart
  <2>1. CASE i \in DOMAIN queue /\ j \in DOMAIN queue
    BY <1>2, <2>1 DEF JobsInv
  <2>2. CASE i \in DOMAIN queue /\ j = k
    BY <1>2, <1>3, <2>2
  <2>3. CASE i = k /\ j \in DOMAIN queue
    BY <1>2, <1>3, <2>3
  <2> QED
    BY <1>2, <2>1, <2>2, <2>3
<1>6. \A i, j \in DOMAIN queue' : i < j => Behind(queue[i], queue[j])'
  <2> SUFFICES ASSUME NEW i \in DOMAIN queue', NEW j \in DOMAIN queue', i < j
      PROVE Behind(queue[i], queue[j])'
    OBVIOUS
  <2>0. i \in DOMAIN queue
    BY <1>1, <1>2 DEF k
  <2>1. CASE j \in DOMAIN queue
    <3>1. Behind(queue[i], queue[j])
      BY <2>0, <2>1 DEF JobsInv
    <3> QED
      BY <1>2, <1>3, <2>0, <2>1, <3>1 DEF Behind
  <2>2. CASE j = k
    BY <1>2, <1>3, <2>0, <2>2 DEF Behind
  <2> QED
    BY <1>2, <2>1, <2>2
<1>7. \A i, j \in DOMAIN queue' : queue'[i].op = "Delete" /\ queue'[j].op = "Delete" => i = j
  <2> SUFFICES ASSUME NEW i \in DOMAIN queue', NEW j \in DOMAIN queue',
                      queue'[i].op = "Delete", queue'[j].op = "Delete"
      PROVE i = j
    OBVIOUS
  <2>1. CASE i \in DOMAIN queue /\ j \in DOMAIN queue
    BY <1>2, <2>1 DEF JobsInv
  <2>2. CASE i \in DOMAIN queue /\ j = k
    BY <1>1, <1>2, <2>2 DEF Awaited
  <2>3. CASE i = k /\ j \in DOMAIN queue
    BY <1>1, <1>2, <2>3 DEF Awaited
  <2> QED
    BY <1>2, <2>1, <2>2, <2>3
<1>8. deleted' = "waiting" => \E i \in DOMAIN queue' : queue'[i].op = "Delete"
  BY <1>2 DEF JobsInv
<1> QED
  BY <1>2, <1>4, <1>5, <1>6, <1>7, <1>8 DEF JobsInv

(* No job waits for a row that waits for none.                             *)
LEMMA NoJobFor ==
  ASSUME SoundRows, JobsInv, NEW s \in Slots, row[s].op = "none" \/ row[s].result # "waiting"
  PROVE  \A q : InQueue(q) => q \in Jobs /\ Awaited(q) /\ q.slot # s
<1> SUFFICES ASSUME NEW i \in DOMAIN queue
    PROVE queue[i] \in Jobs /\ Awaited(queue[i]) /\ queue[i].slot # s
  BY DEF InQueue
<1>1. queue[i] \in Jobs /\ Awaited(queue[i])
  BY JobsAre
<1>2. row[s].op = "none" => row[s].result = "none"
  BY DEF SoundRows, Sound, OpSound
<1>3. CASE queue[i].op \in RowJobs
  BY <1>1, <1>2, <1>3 DEF Awaited
<1>4. CASE queue[i].op \notin RowJobs
  BY <1>1, <1>4 DEF Awaited, Jobs, NoSlot, Slots
<1> QED
  BY <1>1, <1>3, <1>4

(* Jobs of other rows are not affected.                                    *)
LEMMA OthersWait ==
  ASSUME NEW H, \A t \in Slots : t \notin H => row'[t] = row[t],
         UNCHANGED <<record, deleted, deleting>>, NEW q, Awaited(q), q.slot \notin H
  PROVE  Awaited(q)' /\ \A p : Behind(q, p) => Behind(q, p)'
<1>1. Awaited(q)'
  BY DEF Awaited
<1>2. ASSUME NEW p, Behind(q, p) PROVE Behind(q, p)'
  <2>1. CASE q.op = "Read"
    <3>1. row'[q.slot] = row[q.slot]
      BY <2>1 DEF Awaited, RowJobs
    <3> QED
      BY <1>2, <3>1 DEF Behind
  <2>2. CASE q.op # "Read"
    BY <2>2 DEF Behind
  <2> QED
    BY <2>1, <2>2
<1> QED
  BY <1>1, <1>2

(* One row takes a new state, with at most a job of its own to wait for.   *)
LEMMA OneRowTables ==
  ASSUME TablesInv, NEW s \in Slots, row[s].op = "none" \/ row[s].result # "waiting",
         NEW n, Sound(n), Linked(n), row' = [row EXCEPT ![s] = n],
         n.gen = row[s].gen /\ (row[s].desired = "DELIVERED" => n.desired = "DELIVERED"),
         UNCHANGED <<record, deleted, deleting>>, cursor' \in Nat,
         pass' \subseteq pass \ {s},
         \/ queue' = queue
         \/ \E new \in Jobs :
              /\ queue' = Append(queue, new) /\ new.slot = s /\ new.op \in RowJobs
              /\ n.op = new.op /\ n.result = "waiting"
  PROVE  TablesInv' /\ ProofKept /\ row'[s] = n /\ \A t \in Slots : t # s => row'[t] = row[t]
<1>1. n \in Rows
  BY DEF Sound
<1>2. row' \in [Slots -> Rows] /\ row'[s] = n /\ \A t \in Slots : t # s => row'[t] = row[t]
  BY <1>1 DEF TablesInv, SoundRows
<1>3. SoundRows'
  BY <1>2 DEF TablesInv, SoundRows
<1>4. RowsLinked'
  <2>1. \A c : (Sendable(c)' <=> Sendable(c)) /\ (Saved(c)' <=> Saved(c))
    BY DEF Sendable, Saved
  <2> SUFFICES ASSUME NEW t \in Slots PROVE Linked(row[t])'
    BY DEF RowsLinked
  <2>2. Linked(row'[t])
    BY <1>2 DEF TablesInv, RowsLinked
  <2> QED
    BY <2>1, <2>2 DEF Linked
<1>5. StoreInv'
  BY DEF TablesInv, StoreInv
<1>6. JobsInv'
  <2>1. \A q : InQueue(q) => q \in Jobs /\ Awaited(q) /\ q.slot # s
    BY NoJobFor DEF TablesInv
  <2>2. \A q : InQueue(q) => Awaited(q)' /\ \A p : Behind(q, p) => Behind(q, p)'
    <3> SUFFICES ASSUME NEW q, InQueue(q) PROVE Awaited(q)' /\ \A p : Behind(q, p) => Behind(q, p)'
      OBVIOUS
    <3>1. Awaited(q) /\ q.slot \notin {s}
      BY <2>1
    <3>2. \A t \in Slots : t \notin {s} => row'[t] = row[t]
      BY <1>2
    <3> QED
      BY <3>1, <3>2, OthersWait, Zenon
  <2>3. CASE queue' = queue
    BY <2>2, <2>3, JobsSame DEF TablesInv
  <2>4. ASSUME NEW new \in Jobs, queue' = Append(queue, new), new.slot = s, new.op \in RowJobs,
               n.op = new.op, n.result = "waiting"
        PROVE JobsInv'
    <3>1. Awaited(new)' /\ new.op # "Delete"
      BY <1>2, <2>4 DEF Awaited, RowJobs
    <3>2. \A q : InQueue(q) => Awaited(q)' /\ Apart(q, new) /\ Apart(new, q) /\ Behind(q, new)'
      BY <2>1, <2>2, <2>4, <3>1 DEF Apart, Behind
    <3> QED
      BY <2>2, <2>4, <3>1, <3>2, JobsMore DEF TablesInv
  <2> QED
    BY <2>3, <2>4
<1>7. PassInv'
  BY <1>2 DEF TablesInv, PassInv, Answers
<1>8. ProofKept
  BY <1>2 DEF ProofKept, ProofStays
<1> QED
  BY <1>2, <1>3, <1>4, <1>5, <1>6, <1>7, <1>8 DEF TablesInv

Settled(r, d) ==
  /\ d \in Rows /\ d.gen = r.gen /\ d.phase = r.phase /\ d.flags = r.flags /\ d.counter = r.counter
  /\ d.desired = r.desired /\ d.durable = r.durable /\ d.proofs = r.proofs /\ d.mask = r.mask
  /\ d.queued = r.queued /\ d.flown = r.flown /\ d.window = r.window
  /\ d.op = "none" /\ d.result = "none" /\ d.at = 0

(* A row whose result was taken waits for nothing.                         *)
LEMMA DoneIs == ASSUME NEW r \in Rows PROVE Settled(r, Done(r))
<1>1. "none" \in Ops /\ "none" \in Results /\ 0 \in Nat /\ "QUEUED" \in Statuses
  BY DEF Ops, Results, Statuses
<1> QED
  BY <1>1 DEF Settled, Done, Rows

(* No packet is on offer while results are being settled.                  *)
LEMMA BusyOffer ==
  ASSUME OfferInv, pass # {}, offering' = offering
  PROVE  OfferInv' /\ Offering = NoSlot /\ Offering' = NoSlot
BY DEF OfferInv, OfferRow, Offering

(* A row of the same message, in the same generation.                      *)
LEMMA OneKept ==
  ASSUME SoundRows, NEW s \in Slots, NEW n, n.gen = row[s].gen, n.phase # "Free", n.queued = row[s].queued,
         n.proofs = row[s].proofs, "Suppressed" \in row[s].flags => "Suppressed" \in n.flags,
         row'[s] = n, \A t \in Slots : t # s => row'[t] = row[t]
  PROVE  CountsKept
<1> SUFFICES ASSUME NEW t \in Slots
    PROVE /\ row'[t].gen = row[t].gen /\ (row[t].phase # "Free" => row'[t].phase # "Free")
          /\ Counts(row[t], row'[t])
          /\ "Suppressed" \in row[t].flags => "Suppressed" \in row'[t].flags
  BY DEF CountsKept
<1>1. row[t].proofs \in Nat
  BY ProofsNat DEF SoundRows
<1> QED
  BY <1>1 DEF Counts

(* settleStorage(), whichever the operation.                               *)
LEMMA SettleOne ==
  ASSUME IInv, NEW s \in Slots, s \in pass, NEW n, Sound(n), Linked(n), row' = [row EXCEPT ![s] = n],
         n.gen = row[s].gen, n.desired = row[s].desired, n.phase # "Free", n.queued = row[s].queued,
         n.proofs = row[s].proofs, "Suppressed" \in row[s].flags => "Suppressed" \in n.flags,
         UNCHANGED <<offering, queue, record, deleted, deleting, air>>, cursor' \in Nat, pass' = pass \ {s},
         \/ body' = body /\ n.phase = row[s].phase /\ row[s].op # "Read"
         \/ body' = body /\ row[s].op \notin {"none", "Update", "Read"}
         \/ row[s].op = "Read" /\ body' = Released(s)
         \/ row[s].op = "Read" /\ body' = body /\ n.phase = "Reading"
  PROVE  IInv' /\ ProofKept
<1>1. SoundRows /\ AirInv /\ BodyInv /\ OfferInv /\ Sound(row[s])
  BY RowsAre
<1>2. row[s].result # "waiting" /\ row[s].op # "none"
  BY DEF IInv, TablesInv, PassInv, Answers
<1>3. TablesInv' /\ ProofKept /\ row'[s] = n /\ \A t \in Slots : t # s => row'[t] = row[t]
  BY <1>2, OneRowTables DEF IInv
<1>4. OfferInv' /\ Offering = NoSlot /\ Offering' = NoSlot
  BY <1>1, BusyOffer
<1>5. AirInv'
  <2>1. CountsKept
    BY <1>1, <1>3, OneKept
  <2> QED
    BY <1>1, <1>3, <2>1, AirQuiet DEF TablesInv
<1>6. BodyInv'
  <2> SUFFICES ASSUME body' # NoBody PROVE BodyInv'
    BY DEF BodyInv
  <2>1. body' = body /\ body # NoBody
    BY DEF Released
  <2>2. body.slot \in Slots /\ body = Ticket(body.slot) /\ HasBody(body.slot) /\ Live(body.slot)
        /\ body.slot # NoSlot
    BY <1>1, <2>1 DEF BodyInv, Slots, NoSlot
  <2>3. row[body.slot].op = "Read" \/ row[body.slot].phase = "Reading"
    BY <1>4, <2>2 DEF HasBody
  <2>4. CASE body.slot # s
    BY <1>3, <2>1, <2>2, <2>3, <2>4 DEF BodyInv, Ticket, Live, HasBody
  <2>5. CASE body.slot = s
    <3>1. body' # Released(s)
      BY <2>1, <2>2, <2>5 DEF Released
    <3>2. row[s].op \notin {"none", "Update", "Read"} => row[s].phase # "Reading"
      BY <1>1, <1>2, RowTyped DEF Sound, OpSound, Ops
    <3>3. n.phase = "Reading"
      BY <2>3, <2>5, <3>1, <3>2
    <3> QED
      BY <1>3, <2>1, <2>2, <2>5, <3>3 DEF BodyInv, Ticket, Live, HasBody
  <2> QED
    BY <2>4, <2>5
<1> QED
  BY <1>3, <1>4, <1>5, <1>6 DEF IInv

(* The row whose result is settled next is one of the rows.                *)
LEMMA PassIs == ASSUME IInv, pass # {}
  PROVE Least(pass) \in Slots /\ Least(pass) \in pass
<1>1. pass \subseteq Slots /\ pass \subseteq Nat
  BY OutgoingAssumption DEF IInv, TablesInv, PassInv, Answers, Slots
<1> QED
  BY <1>1, LeastIs

LEMMA SettleCreateStep == ASSUME IInv, NEW s, SettleCreate(s) PROVE IInv' /\ ProofKept
<1>a. PICK r : r = Done(row[s])
  OBVIOUS
<1>b. PICK f : f = (IF "Suppressed" \in r.flags THEN r.flags \cup {"InitialSuppressed"} ELSE r.flags)
  OBVIOUS
<1>c. PICK p : p = (IF row[s].at # 0 /\ "Suppressed" \notin r.flags THEN "Ready" ELSE "Settled")
  OBVIOUS
<1>d. PICK e \in BOOLEAN : e = (row[s].at = 0)
  OBVIOUS
<1>e. PICK n : n = [r EXCEPT !.counter = row[s].at, !.err = e, !.flags = f, !.phase = p]
  OBVIOUS
<1>1. /\ pass # {} /\ s = Least(pass) /\ row[s].op = "Create" /\ pass' = pass \ {s}
      /\ UNCHANGED <<body, offering, queue, record, deleted, deleting, air>> /\ cursor' = cursor
  BY DEF SettleCreate, Settles, store
<1>2. row' = [row EXCEPT ![s] = n]
  BY <1>a, <1>b, <1>c, <1>d, <1>e DEF SettleCreate
<1>3. s \in Slots /\ s \in pass /\ Sound(row[s]) /\ row[s] \in Rows /\ Linked(row[s]) /\ cursor' \in Nat
  BY <1>1, PassIs, RowsAre
<1>4. Settled(row[s], r)
  BY <1>3, <1>a, DoneIs
<1>5. row[s].phase = "Saving" /\ "Deleted" \notin row[s].flags /\ "DeletePending" \notin row[s].flags
      /\ row[s].mask = {} /\ row[s].flown = {} /\ row[s].proofs = 0 /\ row[s].desired = "QUEUED"
      /\ row[s].durable = "QUEUED"
  BY <1>1, <1>3 DEF Sound, PhaseSound, OpSound, MarkSound, Fresh
<1>6. /\ n \in Rows /\ n.gen = r.gen /\ n.phase = p /\ n.flags = f /\ n.counter = row[s].at
      /\ n.desired = r.desired /\ n.durable = r.durable /\ n.op = r.op /\ n.result = r.result
      /\ n.at = r.at /\ n.proofs = r.proofs /\ n.mask = r.mask /\ n.queued = r.queued
      /\ n.flown = r.flown /\ n.window = r.window
  <2>1. f \in SUBSET Flags /\ p \in Phases /\ row[s].at \in Nat /\ r \in Rows
    BY <1>3, <1>4, <1>b, <1>c, RowTyped DEF Settled, Flags, Phases
  <2> QED
    BY <1>e, <2>1 DEF Rows
<1>7. /\ "Suppressed" \in f <=> "Suppressed" \in row[s].flags
      /\ "Deleted" \notin f /\ "DeletePending" \notin f
  BY <1>4, <1>5, <1>b DEF Settled
<1>8. p = "Settled" \/ (p = "Ready" /\ row[s].at # 0 /\ "Suppressed" \notin row[s].flags)
  BY <1>4, <1>c DEF Settled
<1>9. Sound(n)
  BY <1>4, <1>5, <1>6, <1>7, <1>8, AttemptsNat DEF Sound, PhaseSound, OpSound, MarkSound, Settled, Fresh, Active
<1>10. Linked(n)
  <2>1. ~Sending(n)
    BY <1>4, <1>5, <1>6, <1>8 DEF Sending, Settled
  <2> QED
    BY <1>3, <1>4, <1>5, <1>6, <1>7, <2>1 DEF Linked, Settled
<1>11. n.gen = row[s].gen /\ n.desired = row[s].desired /\ n.phase # "Free" /\ n.queued = row[s].queued
       /\ n.proofs = row[s].proofs /\ ("Suppressed" \in row[s].flags => "Suppressed" \in n.flags)
  BY <1>4, <1>6, <1>7, <1>8 DEF Settled
<1> QED
  BY <1>1, <1>2, <1>3, <1>9, <1>10, <1>11, SettleOne

LEMMA SettleUpdateStep == ASSUME IInv, NEW s, SettleUpdate(s) PROVE IInv' /\ ProofKept
<1>a. PICK r : r = Done(row[s])
  OBVIOUS
<1>b. PICK d : d = (IF row[s].at # 0 THEN row[s].target ELSE row[s].durable)
  OBVIOUS
<1>d. PICK e \in BOOLEAN : e = ~(row[s].at # 0)
  OBVIOUS
<1>e. PICK n : n = [r EXCEPT !.durable = d, !.err = e]
  OBVIOUS
<1>1. /\ pass # {} /\ s = Least(pass) /\ row[s].op = "Update" /\ pass' = pass \ {s}
      /\ UNCHANGED <<body, offering, queue, record, deleted, deleting, air>> /\ cursor' = cursor
  BY DEF SettleUpdate, Settles, store
<1>3. s \in Slots /\ s \in pass /\ Sound(row[s]) /\ row[s] \in Rows /\ Linked(row[s]) /\ cursor' \in Nat
  BY <1>1, PassIs, RowsAre
<1>4. Settled(row[s], r)
  BY <1>3, <1>a, DoneIs
<1>2. row' = [row EXCEPT ![s] = n]
  BY <1>4, <1>a, <1>b, <1>d, <1>e DEF SettleUpdate, Settled
<1>5. row[s].counter # 0 /\ row[s].phase \notin Fresh /\ row[s].phase # "Free"
  BY <1>1, <1>3 DEF Sound, PhaseSound, OpSound, Fresh
<1>6. /\ n \in Rows /\ n.gen = r.gen /\ n.phase = r.phase /\ n.flags = r.flags /\ n.counter = r.counter
      /\ n.desired = r.desired /\ n.durable = d /\ n.op = r.op /\ n.result = r.result
      /\ n.at = r.at /\ n.proofs = r.proofs /\ n.mask = r.mask /\ n.queued = r.queued
      /\ n.flown = r.flown /\ n.window = r.window
  <2>1. d \in Statuses /\ r \in Rows
    BY <1>3, <1>4, <1>b, RowTyped DEF Settled
  <2> QED
    BY <1>e, <2>1 DEF Rows
<1>9. Sound(n)
  <2>1. PhaseSound(n)
    BY <1>3, <1>4, <1>5, <1>6 DEF Sound, PhaseSound, Settled
  <2>2. OpSound(n)
    BY <1>4, <1>6 DEF OpSound, Settled
  <2>3. MarkSound(n)
    BY <1>3, <1>4, <1>5, <1>6 DEF Sound, MarkSound, Settled
  <2> QED
    BY <1>6, <2>1, <2>2, <2>3 DEF Sound
<1>10. Linked(n)
  <2>1. Sending(n) => Sending(row[s])
    BY <1>1, <1>4, <1>6 DEF Sending, Settled
  <2>2. d = "DELIVERED" => Saved(row[s].counter)
    BY <1>1, <1>3, <1>b DEF Linked
  <2> QED
    BY <1>3, <1>4, <1>6, <2>1, <2>2 DEF Linked, Settled
<1>11. n.gen = row[s].gen /\ n.desired = row[s].desired /\ n.phase # "Free" /\ n.queued = row[s].queued
       /\ n.proofs = row[s].proofs /\ ("Suppressed" \in row[s].flags => "Suppressed" \in n.flags)
       /\ n.phase = row[s].phase
  BY <1>4, <1>5, <1>6 DEF Settled
<1> QED
  BY <1>1, <1>2, <1>3, <1>9, <1>10, <1>11, SettleOne


LEMMA SettlePendingStep == ASSUME IInv, NEW s, SettlePending(s) PROVE IInv' /\ ProofKept
<1>a. PICK r : r = Done(row[s])
  OBVIOUS
<1>1. /\ pass # {} /\ s = Least(pass) /\ row[s].op = "Pending" /\ pass' = pass \ {s}
      /\ UNCHANGED <<body, offering, queue, record, deleted, deleting, air>>
      /\ cursor' \in {cursor, 0, row[s].at}
  BY DEF SettlePending, Settles, store
<1>2. s \in Slots /\ s \in pass /\ Sound(row[s]) /\ row[s] \in Rows /\ Linked(row[s]) /\ cursor \in Nat
  BY <1>1, PassIs, RowsAre
<1>3. row[s].at \in Nat /\ cursor' \in Nat
  BY <1>1, <1>2, RowTyped
<1>4. Settled(row[s], r)
  BY <1>2, <1>a, DoneIs
<1>5. row[s].phase = "Query" /\ "Deleted" \notin row[s].flags /\ "DeletePending" \notin row[s].flags
      /\ row[s].mask = {} /\ row[s].flown = {} /\ row[s].proofs = 0 /\ row[s].desired = "QUEUED"
      /\ row[s].durable = "QUEUED" /\ row[s].counter = 0
  BY <1>1, <1>2 DEF Sound, PhaseSound, OpSound, MarkSound, Fresh
<1>6. PICK n : /\ row' = [row EXCEPT ![s] = n]
               /\ \/ n = [r EXCEPT !.phase = "Settled"]
                  \/ n = [r EXCEPT !.err = TRUE]
                  \/ n = r
                  \/ /\ n = [r EXCEPT !.phase = "Ready", !.counter = row[s].at, !.err = FALSE]
                     /\ row[s].at # 0 /\ "Suppressed" \notin r.flags
  BY <1>a DEF SettlePending
<1>7. /\ n \in Rows /\ n.gen = r.gen /\ n.flags = r.flags /\ n.desired = r.desired
      /\ n.durable = r.durable /\ n.op = r.op /\ n.result = r.result /\ n.at = r.at
      /\ n.proofs = r.proofs /\ n.mask = r.mask /\ n.queued = r.queued
      /\ n.flown = r.flown /\ n.window = r.window
      /\ \/ n.phase \in {"Query", "Settled"} /\ n.counter = 0
         \/ n.phase = "Ready" /\ n.counter = row[s].at /\ n.counter # 0 /\ "Suppressed" \notin n.flags
  <2>1. r \in Rows /\ r.phase = "Query" /\ r.counter = 0
    BY <1>4, <1>5 DEF Settled
  <2>2. CASE n = [r EXCEPT !.phase = "Settled"]
    BY <2>1, <2>2, PhasesAre DEF Rows
  <2>3. CASE n = [r EXCEPT !.err = TRUE]
    BY <2>1, <2>3 DEF Rows
  <2>4. CASE n = [r EXCEPT !.phase = "Ready", !.counter = row[s].at, !.err = FALSE]
    <3>1. row[s].at # 0 /\ "Suppressed" \notin r.flags
      BY <1>6, <2>1, <2>4, PhasesAre DEF Rows
    <3> QED
      BY <1>3, <2>1, <2>4, <3>1, PhasesAre DEF Rows
  <2> QED
    BY <1>6, <2>1, <2>2, <2>3, <2>4
<1>8. Sound(n)
  BY <1>4, <1>5, <1>7, AttemptsNat DEF Sound, PhaseSound, OpSound, MarkSound, Settled, Fresh, Active
<1>9. Linked(n)
  <2>1. ~Sending(n)
    BY <1>4, <1>5, <1>7 DEF Sending, Settled
  <2> QED
    BY <1>2, <1>4, <1>5, <1>7, <2>1 DEF Linked, Settled
<1>10. n.gen = row[s].gen /\ n.desired = row[s].desired /\ n.phase # "Free" /\ n.queued = row[s].queued
       /\ n.proofs = row[s].proofs /\ ("Suppressed" \in row[s].flags => "Suppressed" \in n.flags)
  BY <1>4, <1>7 DEF Settled
<1>11. body' = body /\ row[s].op \notin {"none", "Update", "Read"}
  BY <1>1
<1> QED
  BY <1>1, <1>2, <1>3, <1>6, <1>8, <1>9, <1>10, <1>11, SettleOne

LEMMA SettleReadStep == ASSUME IInv, NEW s, SettleRead(s) PROVE IInv' /\ ProofKept
<1>a. PICK r : r = Done(row[s])
  OBVIOUS
<1>b. PICK over \in BOOLEAN : over <=> ("Suppressed" \in r.flags \/ r.desired = "DELIVERED")
  OBVIOUS
<1>1. /\ pass # {} /\ s = Least(pass) /\ row[s].op = "Read" /\ pass' = pass \ {s}
      /\ UNCHANGED <<offering, queue, record, deleted, deleting, air>> /\ cursor' = cursor
  BY DEF SettleRead, Settles, store
<1>2. s \in Slots /\ s \in pass /\ Sound(row[s]) /\ row[s] \in Rows /\ Linked(row[s]) /\ cursor' \in Nat
  BY <1>1, PassIs, RowsAre
<1>3. Settled(row[s], r)
  BY <1>2, <1>a, DoneIs
<1>4. row[s].counter # 0 /\ row[s].phase \notin Fresh /\ row[s].phase # "Free" /\ row[s].proofs < ProofAttempts
  BY <1>1, <1>2 DEF Sound, PhaseSound, OpSound, Fresh
<1>5. PICK p \in Phases, e \in BOOLEAN :
        /\ row' = [row EXCEPT ![s] = [r EXCEPT !.err = e, !.phase = p]]
        /\ \/ over /\ p = "Settled" /\ body' = Released(s)
           \/ ~over /\ row[s].at = 0 /\ p = "Ready" /\ body' = Released(s)
           \/ ~over /\ row[s].at # 0 /\ p = "Reading" /\ body' = body
  <2>1. CASE over
    <3>1. row' = [row EXCEPT ![s] = [r EXCEPT !.phase = "Settled"]] /\ body' = Released(s)
      BY <1>a, <1>b, <2>1 DEF SettleRead
    <3>2. [r EXCEPT !.phase = "Settled"] = [r EXCEPT !.err = r.err, !.phase = "Settled"] /\ r.err \in BOOLEAN
      BY <1>3 DEF Settled, Rows
    <3> QED
      BY <2>1, <3>1, <3>2, PhasesAre
  <2>2. CASE ~over /\ row[s].at = 0
    <3>1. row' = [row EXCEPT ![s] = [r EXCEPT !.err = TRUE, !.phase = "Ready"]] /\ body' = Released(s)
      BY <1>a, <1>b, <2>2 DEF SettleRead
    <3> QED
      BY <2>2, <3>1, PhasesAre
  <2>3. CASE ~over /\ row[s].at # 0
    <3>1. row' = [row EXCEPT ![s] = [r EXCEPT !.err = FALSE, !.phase = "Reading"]] /\ body' = body
      BY <1>a, <1>b, <2>3 DEF SettleRead
    <3> QED
      BY <2>3, <3>1, PhasesAre
  <2> QED
    BY <2>1, <2>2, <2>3
<1>c. PICK n : n = [r EXCEPT !.err = e, !.phase = p]
  OBVIOUS
<1>6. /\ n \in Rows /\ n.gen = r.gen /\ n.phase = p /\ n.flags = r.flags /\ n.counter = r.counter
      /\ n.desired = r.desired /\ n.durable = r.durable /\ n.op = r.op /\ n.result = r.result
      /\ n.at = r.at /\ n.proofs = r.proofs /\ n.mask = r.mask /\ n.queued = r.queued
      /\ n.flown = r.flown /\ n.window = r.window
  <2>1. r \in Rows /\ p \in Phases
    BY <1>3, <1>5, PhasesAre DEF Settled
  <2> QED
    BY <1>c, <2>1 DEF Rows
<1>7. p = "Settled" \/ (p \in {"Ready", "Reading"} /\ "Suppressed" \notin row[s].flags /\ row[s].desired # "DELIVERED")
  BY <1>3, <1>5, <1>b DEF Settled
<1>8. Sound(n)
  <2>1. PhaseSound(n)
    BY <1>3, <1>4, <1>6, <1>7 DEF PhaseSound, Settled, Fresh, Active
  <2>2. OpSound(n)
    BY <1>3, <1>6 DEF OpSound, Settled
  <2>3. MarkSound(n)
    BY <1>2, <1>3, <1>4, <1>6, <1>7 DEF Sound, MarkSound, Settled
  <2> QED
    BY <1>6, <2>1, <2>2, <2>3 DEF Sound
<1>9. Linked(n)
  <2>1. p = "Reading" => row[s].result = "Committed" /\ "Suppressed" \notin row[s].flags
    BY <1>2, <1>5, <1>7 DEF Sound, OpSound
  <2>2. Sending(n) => Sending(row[s])
    BY <1>1, <1>3, <1>6, <1>7, <2>1 DEF Sending, Settled
  <2> QED
    BY <1>2, <1>3, <1>6, <2>2 DEF Linked, Settled
<1>10. n.gen = row[s].gen /\ n.desired = row[s].desired /\ n.phase # "Free" /\ n.queued = row[s].queued
       /\ n.proofs = row[s].proofs /\ ("Suppressed" \in row[s].flags => "Suppressed" \in n.flags)
  BY <1>3, <1>6, <1>7 DEF Settled
<1>11. row' = [row EXCEPT ![s] = n] /\ (body' = Released(s) \/ (body' = body /\ n.phase = "Reading"))
  BY <1>5, <1>6, <1>c
<1> QED
  BY <1>1, <1>2, <1>8, <1>9, <1>10, <1>11, SettleOne

(* Every result a pass can settle.                                         *)
LEMMA SettleStep == ASSUME IInv, Settle PROVE IInv' /\ ProofKept
BY SettleCreateStep, SettleUpdateStep, SettlePendingStep, SettleReadStep DEF Settle

(* A row that waits for nothing is given a job.                            *)
LEMMA JobGiven ==
  ASSUME IInv, Idle, NEW s \in Slots, row[s].op = "none", NEW n, Sound(n), Linked(n),
         row' = [row EXCEPT ![s] = n], n.gen = row[s].gen, n.phase # "Free",
         n.queued = row[s].queued, n.proofs = row[s].proofs,
         "Suppressed" \in row[s].flags => "Suppressed" \in n.flags,
         row[s].desired = "DELIVERED" => n.desired = "DELIVERED",
         n.op \in RowJobs, n.result = "waiting", NEW arg \in Nat, queue' = Append(queue, Job(s, n.op, arg)),
         UNCHANGED <<offering, pass, cursor, record, deleted, deleting, air>>,
         \/ body' = body /\ (n.phase = row[s].phase \/ row[s].phase # "Reading")
         \/ body' = Ticket(s) /\ n.op = "Read"
  PROVE  IInv' /\ ProofKept
<1>1. SoundRows /\ AirInv /\ BodyInv /\ OfferInv /\ Sound(row[s]) /\ cursor' \in Nat
  BY RowsAre
<1>2. TablesInv' /\ ProofKept /\ row'[s] = n /\ \A t \in Slots : t # s => row'[t] = row[t]
  <2>1. /\ Job(s, n.op, arg) \in Jobs /\ Job(s, n.op, arg).slot = s
        /\ Job(s, n.op, arg).op = n.op
    BY DEF Jobs, Job
  <2>2. pass' \subseteq pass \ {s}
    BY DEF Idle
  <2> QED
    BY <1>1, <2>1, <2>2, OneRowTables DEF IInv
<1>3. OfferInv' /\ Offering = NoSlot
  BY IdleOffer
<1>4. AirInv'
  <2>1. CountsKept
    BY <1>1, <1>2, OneKept
  <2> QED
    BY <1>1, <1>2, <2>1, AirQuiet DEF TablesInv
<1>5. BodyInv'
  <2>1. CASE body' = Ticket(s) /\ n.op = "Read"
    BY <1>2, <2>1 DEF BodyInv, Ticket, Live, HasBody
  <2>2. ASSUME body' = body, body # NoBody, n.phase = row[s].phase \/ row[s].phase # "Reading" PROVE BodyInv'
    <3>1. body.slot \in Slots /\ body = Ticket(body.slot) /\ HasBody(body.slot) /\ Live(body.slot)
          /\ body.slot # NoSlot
      BY <1>1, <2>2 DEF BodyInv, Slots, NoSlot
    <3>2. row[body.slot].op = "Read" \/ row[body.slot].phase = "Reading"
      BY <1>3, <3>1 DEF HasBody
    <3>3. CASE body.slot # s
      BY <1>2, <2>2, <3>1, <3>2, <3>3 DEF BodyInv, Ticket, Live, HasBody
    <3>4. CASE body.slot = s
      BY <1>2, <2>2, <3>1, <3>2, <3>4 DEF BodyInv, Ticket, Live, HasBody
    <3> QED
      BY <3>3, <3>4
  <2>3. CASE body' = body /\ body = NoBody
    BY <2>3 DEF BodyInv
  <2> QED
    BY <2>1, <2>2, <2>3
<1> QED
  BY <1>2, <1>3, <1>4, <1>5 DEF IInv

(* What a row keeps when it begins to wait for a job.                      *)
Begun(r, op, target, n) ==
  /\ n \in Rows /\ n.gen = r.gen /\ n.phase = r.phase /\ n.flags = r.flags /\ n.counter = r.counter
  /\ n.desired = r.desired /\ n.durable = r.durable /\ n.op = op /\ n.result = "waiting"
  /\ n.target = target /\ n.at = r.at /\ n.proofs = r.proofs /\ n.mask = r.mask
  /\ n.queued = r.queued /\ n.flown = r.flown /\ n.window = r.window

(* A row that begins to wait changes in that only.                         *)
LEMMA WaitingIs ==
  ASSUME NEW r \in Rows, NEW op \in Ops, NEW target \in Statuses
  PROVE  /\ Begun(r, op, r.target, Waiting(r, op))
         /\ Begun(r, op, target, [Waiting(r, op) EXCEPT !.target = target])
<1>1. "waiting" \in Results
  BY DEF Results
<1>2. [Waiting(r, op) EXCEPT !.target = target] = [r EXCEPT !.op = op, !.result = "waiting", !.target = target]
  BY DEF Waiting, Rows
<1> QED
  BY <1>1, <1>2 DEF Waiting, Rows, Begun

(* The jobs advance() starts.                                              *)
LEMMA ReportStatusStep == ASSUME IInv, NEW s \in Slots, ReportStatus(s) PROVE IInv' /\ ProofKept
<1>1. /\ Idle /\ row[s].op = "none" /\ queue' = Append(queue, Job(s, "Update", 0))
      /\ UNCHANGED <<body, offering, pass, cursor, record, deleted, deleting, air>>
  BY DEF ReportStatus, engine
<1>2. PICK x \in Aged(row[s]) :
        /\ Owes(x) /\ row' = [row EXCEPT ![s] = [Waiting(x, "Update") EXCEPT !.target = x.desired]]
  BY DEF ReportStatus
<1>3. Sound(row[s]) /\ Linked(row[s])
  BY RowsAre
<1>4. Follows(row[s], x) /\ Counts(row[s], x) /\ Alike(row[s], x) /\ (row[s].phase = "Reading" => x = row[s])
  BY <1>1, <1>3, AgedIs
<1>5. x \in Rows /\ Sound(x) /\ x.op = "none" /\ x.at = 0 /\ x.counter # 0 /\ x.phase \notin Fresh /\ x.phase # "Free"
      /\ x.desired \in Statuses
  <2>1. x \in Rows /\ Sound(x) /\ x.op = "none" /\ x.counter # 0
    BY <1>1, <1>2, <1>4 DEF Follows, SameJob, Sound, Owes
  <2> QED
    BY <2>1, RowTyped DEF Sound, PhaseSound, OpSound
<1>c. PICK n : n = [Waiting(x, "Update") EXCEPT !.target = x.desired]
  OBVIOUS
<1>6. Begun(x, "Update", x.desired, n)
  BY <1>5, <1>c, WaitingIs DEF Ops
<1>7. Sound(n)
  <2>1. PhaseSound(n)
    BY <1>5, <1>6 DEF Sound, PhaseSound, Begun
  <2>2. OpSound(n)
    BY <1>5, <1>6 DEF OpSound, Begun
  <2>3. MarkSound(n)
    BY <1>5, <1>6 DEF Sound, MarkSound, Begun
  <2> QED
    BY <1>6, <2>1, <2>2, <2>3 DEF Sound, Begun
<1>8. Linked(n)
  <2>1. Sending(n) => Sending(row[s])
    <3>1. Sending(n) => Sending(x)
      BY <1>5, <1>6 DEF Sending, Begun
    <3> QED
      BY <1>4, <3>1 DEF Follows
  <2> QED
    BY <1>3, <1>4, <1>5, <1>6, <2>1 DEF Linked, Begun, Follows, SameJob
<1>9. /\ n.gen = row[s].gen /\ n.phase # "Free" /\ n.queued = row[s].queued /\ n.proofs = row[s].proofs
      /\ ("Suppressed" \in row[s].flags => "Suppressed" \in n.flags)
      /\ (row[s].desired = "DELIVERED" => n.desired = "DELIVERED")
      /\ n.op = "Update" /\ n.result = "waiting" /\ (n.phase = row[s].phase \/ row[s].phase # "Reading")
  BY <1>4, <1>5, <1>6 DEF Begun, Follows, SameJob, Alike
<1>10. row' = [row EXCEPT ![s] = n] /\ n.op \in RowJobs /\ queue' = Append(queue, Job(s, n.op, 0)) /\ 0 \in Nat
  BY <1>1, <1>2, <1>9, <1>c DEF RowJobs
<1> QED
  BY <1>1, <1>7, <1>8, <1>9, <1>10, JobGiven

LEMMA LookForPendingStep == ASSUME IInv, NEW s \in Slots, LookForPending(s) PROVE IInv' /\ ProofKept
<1>1. /\ Idle /\ row[s].op = "none" /\ row[s].phase = "Query" /\ queue' = Append(queue, Job(s, "Pending", cursor))
      /\ UNCHANGED <<body, offering, pass, cursor, record, deleted, deleting, air>>
      /\ row' = [row EXCEPT ![s] = Waiting(row[s], "Pending")]
  BY DEF LookForPending, engine
<1>2. Sound(row[s]) /\ row[s] \in Rows /\ Linked(row[s]) /\ cursor \in Nat
  BY RowsAre
<1>c. PICK n : n = Waiting(row[s], "Pending")
  OBVIOUS
<1>3. Begun(row[s], "Pending", row[s].target, n)
  BY <1>2, <1>c, WaitingIs, StatusesAre DEF Ops
<1>4. row[s].at = 0 /\ row[s].mask = {}
  BY <1>1, <1>2 DEF Sound, OpSound, PhaseSound, Fresh
<1>5. Sound(n)
  BY <1>1, <1>2, <1>3, <1>4 DEF Sound, PhaseSound, OpSound, MarkSound, Begun, Fresh, Active
<1>6. Linked(n)
  BY <1>1, <1>2, <1>3, <1>4 DEF Linked, Sending, Begun
<1>7. /\ n.gen = row[s].gen /\ n.phase # "Free" /\ n.queued = row[s].queued /\ n.proofs = row[s].proofs
      /\ ("Suppressed" \in row[s].flags => "Suppressed" \in n.flags)
      /\ (row[s].desired = "DELIVERED" => n.desired = "DELIVERED")
      /\ n.op = "Pending" /\ n.result = "waiting" /\ n.phase = row[s].phase
  BY <1>1, <1>3 DEF Begun
<1>8. row' = [row EXCEPT ![s] = n] /\ n.op \in RowJobs /\ queue' = Append(queue, Job(s, n.op, cursor))
  BY <1>1, <1>7, <1>c DEF RowJobs
<1> QED
  BY <1>1, <1>2, <1>5, <1>6, <1>7, <1>8, JobGiven

LEMMA ReadBodyStep == ASSUME IInv, NEW s \in Slots, ReadBody(s) PROVE IInv' /\ ProofKept
<1>1. /\ Idle /\ row[s].op = "none" /\ queue' = Append(queue, Job(s, "Read", 0)) /\ body' = Ticket(s)
      /\ UNCHANGED <<offering, pass, cursor, record, deleted, deleting, air>>
  BY DEF ReadBody, engine
<1>2. PICK x \in Aged(row[s]) :
        x.phase = "Ready" /\ row' = [row EXCEPT ![s] = Waiting([x EXCEPT !.phase = "Reading"], "Read")]
  BY DEF ReadBody
<1>3. Sound(row[s]) /\ Linked(row[s])
  BY RowsAre
<1>4. Follows(row[s], x) /\ Counts(row[s], x) /\ Alike(row[s], x)
  BY <1>1, <1>3, AgedIs
<1>5. x \in Rows /\ Sound(x) /\ x.op = "none" /\ x.at = 0 /\ x.counter # 0 /\ x.proofs < ProofAttempts
      /\ x.desired # "DELIVERED" /\ "Suppressed" \notin x.flags
  <2>1. x \in Rows /\ Sound(x) /\ x.op = "none"
    BY <1>1, <1>4 DEF Follows, SameJob, Sound
  <2> QED
    BY <1>2, <2>1 DEF Sound, PhaseSound, OpSound, MarkSound, Active
<1>b. PICK y : y = [x EXCEPT !.phase = "Reading"]
  OBVIOUS
<1>c. PICK n : n = Waiting(y, "Read")
  OBVIOUS
<1>6. PhaseSet(x, "Reading", y)
  BY <1>5, <1>b, Rephased, PhasesAre
<1>7. Begun(y, "Read", y.target, n)
  BY <1>6, <1>c, WaitingIs, StatusesAre DEF Ops, PhaseSet, Alike
<1>8. /\ n \in Rows /\ n.gen = x.gen /\ n.phase = "Reading" /\ n.flags = x.flags /\ n.counter = x.counter
      /\ n.desired = x.desired /\ n.durable = x.durable /\ n.op = "Read" /\ n.result = "waiting"
      /\ n.at = 0 /\ n.proofs = x.proofs /\ n.mask = x.mask
      /\ n.queued = x.queued /\ n.flown = x.flown /\ n.window = x.window
  BY <1>5, <1>6, <1>7 DEF Begun, PhaseSet, Alike, SameJob
<1>9. Sound(n)
  <2>1. PhaseSound(n)
    BY <1>5, <1>8 DEF PhaseSound, Fresh, Active
  <2>2. OpSound(n)
    BY <1>5, <1>8 DEF OpSound
  <2>3. MarkSound(n)
    BY <1>2, <1>5, <1>8 DEF Sound, MarkSound
  <2> QED
    BY <1>8, <2>1, <2>2, <2>3 DEF Sound
<1>10. Linked(n)
  <2>1. Sending(n) => Sending(row[s])
    <3>1. Sending(n) => Sending(x)
      BY <1>8 DEF Sending
    <3> QED
      BY <1>4, <3>1 DEF Follows
  <2> QED
    BY <1>3, <1>4, <1>5, <1>8, <2>1 DEF Linked, Follows, SameJob
<1>11. /\ n.gen = row[s].gen /\ n.phase # "Free" /\ n.queued = row[s].queued /\ n.proofs = row[s].proofs
       /\ ("Suppressed" \in row[s].flags => "Suppressed" \in n.flags)
       /\ (row[s].desired = "DELIVERED" => n.desired = "DELIVERED")
  BY <1>4, <1>8 DEF Follows, SameJob, Alike
<1>12. row' = [row EXCEPT ![s] = n] /\ n.op \in RowJobs /\ queue' = Append(queue, Job(s, n.op, 0)) /\ 0 \in Nat
  BY <1>1, <1>2, <1>8, <1>b, <1>c DEF RowJobs
<1> QED
  BY <1>1, <1>8, <1>9, <1>10, <1>11, <1>12, JobGiven

(* Rows are used again: none of them waits for a job or a receipt, holds   *)
(* the workspace or still owes a proof to its record.                      *)
Blank(n) ==
  /\ Sound(n) /\ ~Sending(n) /\ n.counter = 0 /\ n.at = 0 /\ n.queued = 0 /\ n.durable = "QUEUED"
  /\ n.op \in {"none", "Create"} /\ {"DeletePending", "Deleted"} \cap n.flags = {}

Replaceable(s) ==
  /\ row[s].op = "none" /\ row[s].queued = 0 /\ row[s].phase # "Reading"
  /\ row[s].desired = "DELIVERED" => Saved(row[s].counter)

(* Rows that may be replaced give way to blank ones: no receipt, job,      *)
(* workspace or unsaved proof refers to them.                              *)
LEMMA Replaced ==
  ASSUME IInv, Idle, NEW H, H \subseteq Slots, \A s \in H : Replaceable(s) /\ Blank(row'[s]),
         row' \in [Slots -> Rows], \A t \in Slots : t \notin H => row'[t] = row[t],
         body' = body \/ body' = NoBody,
         UNCHANGED <<offering, pass, cursor, record, deleted, deleting, air>>
  PROVE  /\ SoundRows' /\ RowsLinked' /\ StoreInv' /\ PassInv' /\ BodyInv' /\ OfferInv' /\ AirInv' /\ ProofKept
         /\ \A q : InQueue(q) => /\ q \in Jobs /\ Awaited(q) /\ Awaited(q)' /\ q.slot \notin H
                                 /\ \A p : Behind(q, p) => Behind(q, p)'
<1>1. SoundRows /\ AirInv /\ BodyInv /\ OfferInv /\ StoreInv /\ JobsInv /\ RowsLinked
  BY RowsAre
<1>2. SoundRows'
  BY <1>1 DEF SoundRows, Blank
<1>3. RowsLinked'
  <2>1. \A c : (Sendable(c)' <=> Sendable(c)) /\ (Saved(c)' <=> Saved(c))
    BY DEF Sendable, Saved
  <2> SUFFICES ASSUME NEW t \in Slots PROVE Linked(row[t])'
    BY DEF RowsLinked
  <2>2. CASE t \notin H
    <3>1. Linked(row[t]) /\ row'[t] = row[t]
      BY <1>1, <2>2 DEF RowsLinked
    <3> QED
      BY <2>1, <3>1 DEF Linked
  <2>3. CASE t \in H
    <3>1. Blank(row'[t])
      BY <2>3
    <3>2. ~Sending(row'[t]) /\ ~("DeletePending" \in row'[t].flags) /\ ~("Deleted" \in row'[t].flags)
          /\ row'[t].counter = 0 /\ row'[t].at = 0 /\ row'[t].durable # "DELIVERED"
      BY <3>1 DEF Blank
    <3> QED
      BY <3>2 DEF Linked
  <2> QED
    BY <2>2, <2>3
<1>4. StoreInv'
  BY <1>1 DEF StoreInv
<1>5. PassInv'
  BY DEF Idle, PassInv
<1>6. OfferInv' /\ Offering = NoSlot
  BY IdleOffer
<1>7. BodyInv'
  <2> SUFFICES ASSUME body' = body, body # NoBody PROVE BodyInv'
    BY DEF BodyInv
  <2>1. body.slot \in Slots /\ body = Ticket(body.slot) /\ HasBody(body.slot) /\ Live(body.slot)
        /\ body.slot # NoSlot
    BY <1>1 DEF BodyInv, Slots, NoSlot
  <2>2. body.slot \notin H
    BY <1>6, <2>1 DEF HasBody, Replaceable
  <2> QED
    BY <1>6, <2>1, <2>2 DEF BodyInv, Ticket, Live, HasBody
<1>8. AirInv'
  <2>1. ASSUME NEW a \in air PROVE Receiptlike(a)' /\ Made(a)' /\ Receivable(a)'
    <3>1. Receiptlike(a) /\ Made(a) /\ Receivable(a) /\ a.slot \in Slots
      BY <1>1 DEF AirInv, Receiptlike
    <3>2. a.slot \notin H
      BY <1>1, NoneHeld DEF Replaceable
    <3> QED
      BY <3>1, <3>2 DEF Receiptlike, Made, Receivable, Live
  <2>2. ASSUME NEW s \in Slots PROVE row'[s].queued = Cardinality(Held(s)')
    <3>1. row[s].queued = Cardinality(Held(s)) /\ Held(s)' = Held(s)
      BY <1>1 DEF AirInv, Held
    <3>2. row'[s].queued = row[s].queued
      BY DEF Replaceable, Blank
    <3> QED
      BY <3>1, <3>2
  <2> QED
    BY <1>1, <2>1, <2>2 DEF AirInv
<1>9. ProofKept
  <2> SUFFICES ASSUME NEW s \in Slots PROVE ProofStays(s)
    BY DEF ProofKept
  <2>1. CASE s \in H
    BY <2>1 DEF ProofStays, Replaceable
  <2>2. CASE s \notin H
    BY <2>2 DEF ProofStays
  <2> QED
    BY <2>1, <2>2
<1>10. ASSUME NEW q, InQueue(q)
       PROVE  /\ q \in Jobs /\ Awaited(q) /\ Awaited(q)' /\ q.slot \notin H
              /\ \A p : Behind(q, p) => Behind(q, p)'
  <2>1. q \in Jobs /\ Awaited(q)
    BY <1>1, <1>10, JobsAre DEF InQueue
  <2>2. q.slot \notin H
    <3> SUFFICES ASSUME NEW s \in H PROVE q.slot # s
      OBVIOUS
    <3>1. s \in Slots /\ row[s].op = "none"
      BY DEF Replaceable
    <3> QED
      BY <1>1, <1>10, <3>1, NoJobFor
  <2>3. \A t : t \in Slots /\ t \notin H => row'[t] = row[t]
    OBVIOUS
  <2>4. Awaited(q)' /\ \A p : Behind(q, p) => Behind(q, p)'
    BY <2>1, <2>2, <2>3, OthersWait, Zenon
  <2> QED
    BY <2>1, <2>2, <2>4
<1> QED
  BY <1>2, <1>3, <1>4, <1>5, <1>6, <1>7, <1>8, <1>9, <1>10

(* A row that allocate() may choose may be replaced.                       *)
LEMMA Fits ==
  ASSUME IInv, NEW s, s \in Allocatable
  PROVE  s \in Slots /\ Replaceable(s) /\ row[s].gen \in Nat
<1>1. \A t \in Slots : Sound(row[t]) /\ row[t] \in Rows
  BY RowsAre
<1>2. CASE FreeRows # {}
  <2>1. FreeRows \subseteq Slots /\ Slots \subseteq Nat
    BY OutgoingAssumption DEF FreeRows, Slots
  <2>2. s \in FreeRows
    <3>1. FreeRows \subseteq Nat
      BY <2>1
    <3> QED
      BY <1>2, <3>1, LeastIs DEF Allocatable
  <2>3. s \in Slots /\ row[s].phase = "Free"
    BY <2>2 DEF FreeRows
  <2> QED
    BY <1>1, <2>3, RowTyped DEF Sound, PhaseSound, Replaceable
<1>3. CASE FreeRows = {}
  <2>1. s \in Slots /\ row[s].phase = "Grace" /\ row[s].op = "none" /\ row[s].queued = 0
    BY <1>3 DEF Allocatable, Evictable
  <2>2. row[s].desired # "DELIVERED"
    BY <1>1, <2>1 DEF Sound, MarkSound
  <2> QED
    BY <1>1, <2>1, <2>2, RowTyped DEF Replaceable
<1> QED
  BY <1>2, <1>3

(* A fresh descriptor is blank, waiting for its creation or for nothing.   *)
LEMMA DescriptorBlank ==
  ASSUME NEW g \in Nat, NEW p \in Phases \ Active, NEW f \in SUBSET {"Acknowledged"}
  PROVE  Blank(Descriptor(g, p, f))
BY DescriptorIs DEF Blank

LEMMA CreateBlank ==
  ASSUME NEW g \in Nat, NEW n, n = Waiting(Descriptor(g, "Saving", {}), "Create")
  PROVE  Blank(n) /\ n.op = "Create" /\ n.result = "waiting"
<1>c. PICK d : d = Descriptor(g, "Saving", {})
  OBVIOUS
<1>1. Blank(d) /\ d.op = "none" /\ d.phase = "Saving"
  BY <1>c, DescriptorIs, DescriptorBlank DEF Phases, Active
<1>2. d \in Rows
  BY <1>1 DEF Blank, Sound
<1>3. Begun(d, "Create", d.target, n)
  BY <1>2, <1>c, WaitingIs, StatusesAre DEF Ops
<1>4. Sound(n)
  BY <1>1, <1>3 DEF Blank, Sound, PhaseSound, OpSound, MarkSound, Begun, Fresh, Active
<1>5. ~Sending(n)
  BY <1>1, <1>3 DEF Blank, Sending, Begun
<1> QED
  BY <1>1, <1>3, <1>4, <1>5 DEF Blank, Begun

(* One row is replaced.                                                    *)
LEMMA OneReplaced ==
  ASSUME SoundRows, NEW s \in Slots, NEW n, Blank(n), row' = [row EXCEPT ![s] = n]
  PROVE  row' \in [Slots -> Rows] /\ row'[s] = n /\ \A t \in Slots : t \notin {s} => row'[t] = row[t]
BY DEF SoundRows, Blank, Sound

(* The calls that take or free a row, one by one.                          *)
LEMMA StartQueryStep == ASSUME IInv, StartQuery PROVE IInv' /\ ProofKept
<1>1. PICK s \in Allocatable :
        row' = [row EXCEPT ![s] = Descriptor(row[s].gen + 1, "Query", {"Acknowledged"})]
  BY DEF StartQuery
<1>2. /\ Idle /\ body' = body /\ queue' = queue
      /\ UNCHANGED <<offering, pass, cursor, record, deleted, deleting, air>>
  BY DEF StartQuery, engine, store
<1>3. s \in Slots /\ Replaceable(s) /\ row[s].gen + 1 \in Nat /\ SoundRows /\ JobsInv
  BY Fits, RowsAre
<1>c. PICK n : n = Descriptor(row[s].gen + 1, "Query", {"Acknowledged"})
  OBVIOUS
<1>4. Blank(n)
  BY <1>3, <1>c, DescriptorBlank DEF Phases, Active
<1>5. row' = [row EXCEPT ![s] = n]
  BY <1>1, <1>c
<1>6. row' \in [Slots -> Rows] /\ row'[s] = n /\ \A t \in Slots : t \notin {s} => row'[t] = row[t]
  BY <1>3, <1>4, <1>5, OneReplaced
<1>7. \A x \in {s} : Replaceable(x) /\ Blank(row'[x])
  BY <1>3, <1>4, <1>6
<1>8. /\ SoundRows' /\ RowsLinked' /\ StoreInv' /\ PassInv' /\ BodyInv' /\ OfferInv' /\ AirInv' /\ ProofKept
      /\ \A q : InQueue(q) => Awaited(q)' /\ \A p : Behind(q, p) => Behind(q, p)'
  <2>1. {s} \subseteq Slots
    BY <1>3
  <2> QED
    BY <1>2, <1>6, <1>7, <2>1, Replaced
<1>9. JobsInv'
  BY <1>2, <1>3, <1>8, JobsSame
<1> QED
  BY <1>8, <1>9 DEF IInv, TablesInv

LEMMA SubmitStep == ASSUME IInv, Submit PROVE IInv' /\ ProofKept
<1>1. PICK s \in Allocatable :
        /\ row' = [row EXCEPT ![s] = Waiting(Descriptor(row[s].gen + 1, "Saving", {}), "Create")]
        /\ queue' = Append(queue, Job(s, "Create", 0))
  BY DEF Submit
<1>2. /\ Idle /\ body' = body
      /\ UNCHANGED <<offering, pass, cursor, record, deleted, deleting, air>>
  BY DEF Submit, engine
<1>3. s \in Slots /\ Replaceable(s) /\ row[s].gen + 1 \in Nat /\ SoundRows /\ JobsInv
  BY Fits, RowsAre
<1>c. PICK n : n = Waiting(Descriptor(row[s].gen + 1, "Saving", {}), "Create")
  OBVIOUS
<1>d. PICK new : new = Job(s, "Create", 0)
  OBVIOUS
<1>4. Blank(n) /\ n.op = "Create" /\ n.result = "waiting"
  BY <1>3, <1>c, CreateBlank
<1>5. row' = [row EXCEPT ![s] = n]
  BY <1>1, <1>c
<1>6. row' \in [Slots -> Rows] /\ row'[s] = n /\ \A t \in Slots : t \notin {s} => row'[t] = row[t]
  BY <1>3, <1>4, <1>5, OneReplaced
<1>7. \A x \in {s} : Replaceable(x) /\ Blank(row'[x])
  BY <1>3, <1>4, <1>6
<1>8. /\ SoundRows' /\ RowsLinked' /\ StoreInv' /\ PassInv' /\ BodyInv' /\ OfferInv' /\ AirInv' /\ ProofKept
      /\ \A q : InQueue(q) => q.slot # s /\ Awaited(q)' /\ \A p : Behind(q, p) => Behind(q, p)'
  <2>1. {s} \subseteq Slots
    BY <1>3
  <2> QED
    BY <1>2, <1>6, <1>7, <2>1, Replaced
<1>9. JobsInv'
  <2>1. /\ new \in Jobs /\ new.slot = s /\ new.op = "Create" /\ queue' = Append(queue, new)
    BY <1>1, <1>3, <1>d DEF Jobs, Job, RowJobs
  <2>2. Awaited(new)' /\ new.op # "Delete"
    BY <1>3, <1>4, <1>6, <2>1 DEF Awaited
  <2>3. \A q : InQueue(q) => Awaited(q)' /\ Apart(q, new) /\ Apart(new, q) /\ Behind(q, new)'
    BY <1>8, <2>1 DEF Apart, Behind
  <2> QED
    BY <1>2, <1>3, <1>8, <2>1, <2>2, <2>3, JobsMore
<1> QED
  BY <1>8, <1>9 DEF IInv, TablesInv

LEMMA RetireStep == ASSUME IInv, NEW s \in Slots, Retire(s) PROVE IInv' /\ ProofKept
<1>1. /\ Idle /\ row[s].phase = "Settled" /\ row[s].op = "none" /\ row[s].queued = 0
      /\ row[s].desired = row[s].durable \/ "Deleted" \in row[s].flags \/ row[s].counter = 0
      /\ row' = [row EXCEPT ![s] = Freed(s)] /\ body' = Released(s) /\ queue' = queue
      /\ UNCHANGED <<offering, pass, cursor, record, deleted, deleting, air>>
  BY DEF Retire, Retirable, engine, store
<1>2. Sound(row[s]) /\ row[s] \in Rows /\ Linked(row[s]) /\ SoundRows /\ JobsInv
  BY RowsAre
<1>3. Replaceable(s) /\ row[s].gen \in Nat
  BY <1>1, <1>2, RowTyped DEF Replaceable, Linked, Sound, MarkSound
<1>c. PICK n : n = Descriptor(row[s].gen, "Free", {})
  OBVIOUS
<1>4. Blank(n)
  BY <1>3, <1>c, DescriptorBlank DEF Phases, Active
<1>5. row' = [row EXCEPT ![s] = n]
  BY <1>1, <1>c DEF Freed
<1>6. row' \in [Slots -> Rows] /\ row'[s] = n /\ \A t \in Slots : t \notin {s} => row'[t] = row[t]
  BY <1>2, <1>4, <1>5, OneReplaced
<1>7. \A x \in {s} : Replaceable(x) /\ Blank(row'[x])
  BY <1>3, <1>4, <1>6
<1>8. /\ SoundRows' /\ RowsLinked' /\ StoreInv' /\ PassInv' /\ BodyInv' /\ OfferInv' /\ AirInv' /\ ProofKept
      /\ \A q : InQueue(q) => Awaited(q)' /\ \A p : Behind(q, p) => Behind(q, p)'
  <2>1. {s} \subseteq Slots /\ (body' = body \/ body' = NoBody)
    BY <1>1 DEF Released
  <2> QED
    BY <1>1, <1>6, <1>7, <2>1, Replaced
<1>9. JobsInv'
  BY <1>1, <1>2, <1>8, JobsSame
<1> QED
  BY <1>8, <1>9 DEF IInv, TablesInv

(* A retry, and the begin and end of a deletion.                           *)
LEMMA RetryStep == ASSUME IInv, NEW c \in DOMAIN record, Retry(c) PROVE IInv' /\ ProofKept
<1>1. /\ Idle /\ \A s \in Holders(c) : Retryable(row[s])
      /\ row' = [s \in Slots |-> IF s \in Holders(c) THEN Freed(s) ELSE row[s]]
      /\ queue' = Append(queue, Job(NoSlot, "Retry", c)) /\ body' = body
      /\ UNCHANGED <<offering, pass, cursor, record, deleted, deleting, air>>
  BY DEF Retry, engine
<1>2. SoundRows /\ JobsInv /\ StoreInv /\ \A s \in Slots : Sound(row[s]) /\ row[s] \in Rows
  BY RowsAre
<1>d. PICK new : new = Job(NoSlot, "Retry", c)
  OBVIOUS
<1>3. ASSUME NEW s \in Holders(c) PROVE Replaceable(s) /\ Blank(row'[s])
  <2>1. s \in Slots /\ Retryable(row[s]) /\ row[s].gen \in Nat
    BY <1>1, <1>2, RowTyped DEF Holders
  <2>2. Replaceable(s)
    BY <2>1 DEF Retryable, Retirable, Replaceable
  <2>3. row'[s] = Descriptor(row[s].gen, "Free", {})
    BY <1>1, <2>1 DEF Freed
  <2>4. Blank(Descriptor(row[s].gen, "Free", {}))
    BY <2>1, DescriptorBlank DEF Phases, Active
  <2> QED
    BY <2>2, <2>3, <2>4
<1>4. /\ Holders(c) \subseteq Slots
      /\ \A t \in Slots : t \notin Holders(c) => row'[t] = row[t]
  BY <1>1 DEF Holders
<1>5. row' \in [Slots -> Rows]
  <2>1. \A t \in Slots : row'[t] \in Rows
    BY <1>2, <1>3, <1>4 DEF Blank, Sound
  <2> QED
    BY <1>1, <2>1
<1>6. /\ SoundRows' /\ RowsLinked' /\ StoreInv' /\ PassInv' /\ BodyInv' /\ OfferInv' /\ AirInv' /\ ProofKept
      /\ \A q : InQueue(q) => q \in Jobs /\ Awaited(q) /\ Awaited(q)' /\ \A p : Behind(q, p) => Behind(q, p)'
  BY <1>1, <1>3, <1>4, <1>5, Replaced
<1>7. JobsInv'
  <2>1. /\ new \in Jobs /\ new.slot = NoSlot /\ new.op = "Retry" /\ new.arg = c /\ queue' = Append(queue, new)
    <3>1. c \in Nat
      BY <1>2 DEF StoreInv
    <3> QED
      BY <1>1, <1>d, <3>1 DEF Jobs, Job, RowJobs
  <2>2. Awaited(new)' /\ new.op # "Delete"
    BY <1>1, <2>1 DEF Awaited, RowJobs
  <2>3. \A q : InQueue(q) => Awaited(q)' /\ Apart(q, new) /\ Apart(new, q) /\ Behind(q, new)'
    <3> SUFFICES ASSUME NEW q, InQueue(q) PROVE Awaited(q)' /\ Apart(q, new) /\ Apart(new, q) /\ Behind(q, new)'
      OBVIOUS
    <3>1. Awaited(q)'
      BY <1>6
    <3>2. Apart(q, new) /\ Apart(new, q)
      BY <2>1 DEF Apart
    <3> QED
      BY <2>1, <3>1, <3>2 DEF Behind
  <2> QED
    BY <1>1, <1>2, <1>6, <2>1, <2>2, <2>3, JobsMore
<1> QED
  BY <1>6, <1>7 DEF IInv, TablesInv

-----------------------------------------------------------------------------
(* Rows are marked: they keep their jobs and what they count.              *)
LEMMA RowsMarked ==
  ASSUME IInv, Idle, SoundRows', \A s \in Slots : SameJob(row[s], row'[s]), CountsKept,
         body' = NoBody \/ (body' = body /\ (body # NoBody => HasBody(body.slot)')),
         UNCHANGED <<offering, pass, air>>
  PROVE  PassInv' /\ BodyInv' /\ OfferInv' /\ AirInv'
<1>1. SoundRows /\ AirInv /\ BodyInv
  BY RowsAre
<1>2. PassInv'
  BY DEF Idle, PassInv
<1>3. OfferInv'
  BY IdleOffer
<1>4. AirInv'
  BY <1>1, AirQuiet
<1>5. BodyInv'
  <2> SUFFICES ASSUME body' = body, body # NoBody, HasBody(body.slot)' PROVE BodyInv'
    BY DEF BodyInv
  <2>1. body.slot \in Slots /\ body = Ticket(body.slot) /\ Live(body.slot)
    BY <1>1 DEF BodyInv
  <2> QED
    BY <2>1 DEF BodyInv, Ticket, Live, CountsKept
<1> QED
  BY <1>2, <1>3, <1>4, <1>5

(* beginRecordDelete()                                                     *)
LEMMA CondemnedIs ==
  ASSUME NEW r, Sound(r), r.counter # 0, r.phase # "Free",
         NEW n, n = Cancelled([r EXCEPT !.flags = @ \cup {"DeletePending"}])
  PROVE  /\ Sound(n) /\ SameJob(r, n) /\ Counts(r, n) /\ ~Sending(n) /\ n.phase = "Settled"
         /\ n.flags = r.flags \cup {"DeletePending", "Suppressed"} /\ n.desired = r.desired
<1>1. r \in Rows /\ r.flags \in SUBSET Flags /\ r.phase \notin Fresh
  BY RowTyped DEF Sound, PhaseSound
<1>a. PICK f : f = r.flags \cup {"DeletePending", "Suppressed"}
  OBVIOUS
<1>2. n = [r EXCEPT !.flags = f, !.mask = {}, !.phase = "Settled"]
  <2>1. [r EXCEPT !.flags = @ \cup {"DeletePending"}].op = r.op
        /\ [r EXCEPT !.flags = @ \cup {"DeletePending"}].phase = r.phase
        /\ [r EXCEPT !.flags = @ \cup {"DeletePending"}].flags = r.flags \cup {"DeletePending"}
    BY <1>1 DEF Rows
  <2>2. n = [[r EXCEPT !.flags = @ \cup {"DeletePending"}] EXCEPT !.flags = f, !.mask = {}, !.phase = "Settled"]
    <3>1. (r.flags \cup {"DeletePending"}) \cup {"Suppressed"} = f
      BY <1>a
    <3> QED
      BY <1>1, <2>1, <3>1 DEF Cancelled, Fresh
  <2> QED
    BY <1>1, <2>2 DEF Rows
<1>3. /\ n \in Rows /\ n.gen = r.gen /\ n.phase = "Settled" /\ n.flags = f /\ n.counter = r.counter
      /\ n.desired = r.desired /\ n.durable = r.durable /\ n.op = r.op /\ n.result = r.result
      /\ n.target = r.target /\ n.at = r.at /\ n.proofs = r.proofs /\ n.mask = {}
      /\ n.queued = r.queued /\ n.flown = r.flown /\ n.window = r.window
  <2>1. f \in SUBSET Flags /\ {} \in SUBSET Variants
    BY <1>1, <1>a DEF Flags
  <2> QED
    BY <1>1, <1>2, <2>1, PhasesAre DEF Rows
<1>4. "Suppressed" \in f /\ "DeletePending" \in f
  BY <1>a
<1>5. r.op # "Create" /\ r.op # "Pending"
  BY <1>1 DEF Sound, OpSound, Fresh
<1>6. Sound(n)
  <2>1. PhaseSound(n)
    BY <1>3 DEF PhaseSound, Fresh, Active
  <2>2. OpSound(n)
    BY <1>3, <1>5 DEF Sound, OpSound
  <2>3. MarkSound(n)
    BY <1>3, <1>4 DEF Sound, MarkSound
  <2> QED
    BY <1>3, <2>1, <2>2, <2>3 DEF Sound
<1>7. ~Sending(n)
  BY <1>3, <1>4 DEF Sending
<1> QED
  BY <1>3, <1>4, <1>6, <1>7, <1>a DEF SameJob, Counts

LEMMA BeginDeleteStep == ASSUME IInv, NEW c \in DOMAIN record, BeginDelete(c) PROVE IInv' /\ ProofKept
<1>a. PICK hit : hit = Queries \cup Holders(c)
  OBVIOUS
<1>b. PICK new : new = Job(NoSlot, "Delete", c)
  OBVIOUS
<1>c. PICK W : W = Withdrawn(hit)
  OBVIOUS
<1>1. /\ Idle /\ deleting = 0 /\ record[c] # "erased" /\ deleting' = c /\ deleted' = "waiting"
      /\ row' = Condemned(c) /\ body' = Dispossessed(hit) /\ queue' = Append(W, new)
      /\ UNCHANGED <<offering, pass, record, air>> /\ cursor' \in {cursor, 0}
  BY <1>a, <1>b, <1>c DEF BeginDelete
<1>2. /\ SoundRows /\ JobsInv /\ StoreInv /\ BodyInv /\ cursor' \in Nat /\ deleted = "none"
      /\ \A s \in Slots : Sound(row[s]) /\ row[s] \in Rows /\ Linked(row[s])
  BY <1>1, RowsAre DEF StoreInv
<1>3. c \in Nat /\ c # 0
  BY <1>2 DEF StoreInv
<1>4. \A s \in Slots : "DeletePending" \notin row[s].flags
  BY <1>1, <1>2 DEF Linked, Sound, MarkSound
<1>5. ASSUME NEW s \in Slots
      PROVE  /\ Sound(row'[s]) /\ SameJob(row[s], row'[s]) /\ Counts(row[s], row'[s])
             /\ row[s].phase # "Free" <=> row'[s].phase # "Free"
             /\ row'[s].desired = row[s].desired
             /\ "Suppressed" \in row[s].flags => "Suppressed" \in row'[s].flags
             /\ s \notin hit => row'[s] = row[s]
             /\ s \in hit => "Suppressed" \in row'[s].flags /\ ~Sending(row'[s])
             /\ "DeletePending" \in row'[s].flags => row[s].counter = c
             /\ "Deleted" \in row'[s].flags => "Deleted" \in row[s].flags
  <2>1. CASE s \in Queries
    <3>1. row'[s] = Cancelled(row[s]) /\ row[s].phase # "Free"
      BY <1>1, <2>1 DEF Condemned, Queries, Live
    <3>2. /\ Follows(row[s], row'[s]) /\ Counts(row[s], row'[s]) /\ ~Sending(row'[s])
          /\ "Suppressed" \in row'[s].flags /\ row'[s].desired = row[s].desired
      BY <1>2, <3>1, CancelledIs
    <3> QED
      BY <1>4, <1>a, <2>1, <3>1, <3>2 DEF Follows
  <2>2. CASE s \notin Queries /\ s \in Holders(c)
    <3>1. row'[s] = Cancelled([row[s] EXCEPT !.flags = @ \cup {"DeletePending"}])
          /\ row[s].phase # "Free" /\ row[s].counter = c
      BY <1>1, <2>2 DEF Condemned, Holders, Live
    <3>2. /\ Sound(row'[s]) /\ SameJob(row[s], row'[s]) /\ Counts(row[s], row'[s]) /\ ~Sending(row'[s])
          /\ row'[s].phase = "Settled" /\ row'[s].desired = row[s].desired
          /\ row'[s].flags = row[s].flags \cup {"DeletePending", "Suppressed"}
      BY <1>2, <1>3, <3>1, CondemnedIs
    <3>3. "Suppressed" \in row'[s].flags /\ ("Deleted" \in row'[s].flags => "Deleted" \in row[s].flags)
      BY <3>2
    <3> QED
      BY <1>a, <2>2, <3>1, <3>2, <3>3
  <2>3. CASE s \notin hit
    <3>1. row'[s] = row[s]
      BY <1>1, <1>a, <2>3 DEF Condemned
    <3>2. Sound(row[s]) /\ Follows(row[s], row[s]) /\ Counts(row[s], row[s])
      BY <1>2, SameFollows
    <3> QED
      BY <1>4, <2>3, <3>1, <3>2 DEF Follows
  <2> QED
    BY <1>a, <2>1, <2>2, <2>3
<1>6. SoundRows'
  <2>1. row' \in [Slots -> Rows]
    BY <1>1, <1>5 DEF Condemned, Sound
  <2> QED
    BY <1>5, <2>1 DEF SoundRows
<1>7. CountsKept
  BY <1>5 DEF CountsKept, SameJob
<1>8. body' = NoBody \/ (body' = body /\ (body # NoBody => HasBody(body.slot)'))
  <2> SUFFICES ASSUME body' # NoBody, body # NoBody PROVE body' = body /\ HasBody(body.slot)'
    BY <1>1 DEF Dispossessed
  <2>1. body' = body /\ body.slot \notin hit /\ body.slot \in Slots /\ HasBody(body.slot)
    BY <1>1, <1>2 DEF Dispossessed, BodyInv
  <2> QED
    BY <1>1, <1>5, <2>1 DEF HasBody, Offering
<1>9. PassInv' /\ BodyInv' /\ OfferInv' /\ AirInv'
  <2>1. \A s \in Slots : SameJob(row[s], row'[s])
    BY <1>5
  <2> QED
    BY <1>1, <1>6, <1>7, <1>8, <2>1, RowsMarked
<1>10. StoreInv'
  BY <1>1, <1>2, <1>3 DEF StoreInv
<1>11. RowsLinked'
  <2> SUFFICES ASSUME NEW s \in Slots PROVE Linked(row[s])'
    BY DEF RowsLinked
  <2>1. /\ Linked(row[s]) /\ SameJob(row[s], row'[s])
        /\ "DeletePending" \in row'[s].flags => row[s].counter = c
        /\ "Deleted" \in row'[s].flags => "Deleted" \in row[s].flags
    BY <1>2, <1>5
  <2>2. \A d : Saved(d)' <=> Saved(d)
    BY <1>1 DEF Saved
  <2>3. Sending(row'[s]) => Sendable(row[s].counter)'
    <3> SUFFICES ASSUME Sending(row'[s]) PROVE Sendable(row[s].counter)'
      OBVIOUS
    <3>1. s \notin hit /\ row'[s] = row[s] /\ Sending(row[s])
      BY <1>5
    <3>2. Live(s)
      BY <1>2, <3>1 DEF Live, Sound, PhaseSound, Sending
    <3>3. row[s].counter # c
      BY <1>a, <3>1, <3>2 DEF Holders
    <3> QED
      BY <1>1, <2>1, <3>1, <3>3 DEF Linked, Sendable
  <2> QED
    BY <1>1, <2>1, <2>2, <2>3 DEF Linked, SameJob
<1>12. JobsInv'
  <2> DEFINE k == Len(queue) + 1
  <2>1. /\ W \in Seq(Jobs) /\ DOMAIN W = DOMAIN queue
        /\ \A i \in DOMAIN queue : W[i].slot = queue[i].slot /\ W[i].op = queue[i].op /\ W[i].arg = queue[i].arg
    BY <1>2, <1>c, WithdrawnIs
  <2>2. /\ queue \in Seq(Jobs) /\ Len(queue) \in Nat /\ DOMAIN queue = 1 .. Len(queue)
        /\ \A i \in DOMAIN queue : queue[i] \in Jobs /\ Awaited(queue[i])
    BY <1>2, JobsAre
  <2>3. new \in Jobs /\ new.slot = NoSlot /\ new.op = "Delete" /\ new.arg = c
    BY <1>3, <1>b DEF Jobs, Job
  <2>4. /\ queue' \in Seq(Jobs) /\ DOMAIN queue' = DOMAIN queue \cup {k} /\ queue'[k] = new
        /\ \A i \in DOMAIN queue : /\ i < k /\ i # k
                                   /\ queue'[i].slot = queue[i].slot /\ queue'[i].op = queue[i].op
                                   /\ queue'[i].arg = queue[i].arg
    <3>1. Len(W) = Len(queue)
      BY <2>1, <2>2
    <3> QED
      BY <1>1, <2>1, <2>2, <2>3, <3>1
  <2>5. \A i \in DOMAIN queue : queue[i].op # "Delete"
    BY <1>2, <2>2 DEF Awaited
  <2> HIDE DEF k
  <2>6. \A i \in DOMAIN queue' : Awaited(queue[i])'
    <3> SUFFICES ASSUME NEW i \in DOMAIN queue' PROVE Awaited(queue[i])'
      OBVIOUS
    <3>1. CASE i \in DOMAIN queue
      <4>1. Awaited(queue[i]) /\ queue[i].op # "Delete"
        BY <2>2, <2>5, <3>1
      <4>2. \A s \in Slots : row'[s].op = row[s].op /\ row'[s].result = row[s].result
        BY <1>5 DEF SameJob
      <4>3. queue'[i].slot = queue[i].slot /\ queue'[i].op = queue[i].op /\ queue'[i].arg = queue[i].arg
        BY <2>4, <3>1
      <4> QED
        BY <1>1, <4>1, <4>2, <4>3 DEF Awaited
    <3>2. CASE i = k
      BY <1>1, <2>3, <2>4, <3>2 DEF Awaited, RowJobs
    <3> QED
      BY <2>4, <3>1, <3>2
  <2>7. \A i, j \in DOMAIN queue' : i # j => Apart(queue[i], queue[j])'
    <3> SUFFICES ASSUME NEW i \in DOMAIN queue', NEW j \in DOMAIN queue', i # j PROVE Apart(queue'[i], queue'[j])
      BY DEF Apart
    <3>1. CASE i \in DOMAIN queue /\ j \in DOMAIN queue
      <4>1. Apart(queue[i], queue[j])
        BY <1>2, <3>1 DEF JobsInv
      <4> QED
        BY <2>4, <3>1, <4>1 DEF Apart
    <3>2. CASE i = k \/ j = k
      BY <2>3, <2>4, <3>2 DEF Apart
    <3> QED
      BY <2>4, <3>1, <3>2
  <2>8. \A i, j \in DOMAIN queue' : i < j => Behind(queue[i], queue[j])'
    <3> SUFFICES ASSUME NEW i \in DOMAIN queue', NEW j \in DOMAIN queue', i < j,
                        queue'[i].op = "Read", queue'[j].op = "Delete", row'[queue'[i].slot].counter = queue'[j].arg
        PROVE "Suppressed" \in row'[queue'[i].slot].flags
      BY DEF Behind
    <3>1. j = k /\ i \in DOMAIN queue
      BY <2>3, <2>4, <2>5
    <3>2. queue[i].op = "Read" /\ queue'[i].slot = queue[i].slot /\ queue'[j].arg = c
      BY <2>3, <2>4, <3>1
    <3> DEFINE s == queue[i].slot
    <3>3. s \in Slots /\ row[s].op = "Read"
      BY <2>2, <3>1, <3>2 DEF Awaited, RowJobs
    <3>4. row'[s].counter = row[s].counter
      BY <1>5, <3>3 DEF SameJob
    <3>5. s \in Holders(c)
      BY <1>2, <3>2, <3>3, <3>4 DEF Holders, Live, Sound, PhaseSound
    <3> QED
      BY <1>5, <1>a, <3>2, <3>3, <3>5
  <2>9. \A i, j \in DOMAIN queue' : queue'[i].op = "Delete" /\ queue'[j].op = "Delete" => i = j
    BY <2>4, <2>5
  <2>10. \E i \in DOMAIN queue' : queue'[i].op = "Delete"
    BY <2>3, <2>4
  <2> QED
    BY <2>4, <2>6, <2>7, <2>8, <2>9, <2>10 DEF JobsInv
<1>13. ProofKept
  BY <1>5 DEF ProofKept, ProofStays, SameJob
<1> QED
  BY <1>6, <1>9, <1>10, <1>11, <1>12, <1>13 DEF IInv, TablesInv

(* finishRecordDelete()                                                    *)
LEMMA AcquittedIs ==
  ASSUME NEW r, Sound(r), NEW gone \in BOOLEAN, NEW n, n = Acquitted(r, gone)
  PROVE  /\ Sound(n) /\ SameJob(r, n) /\ Counts(r, n) /\ n.phase = r.phase
         /\ Sending(n) => n = r /\ Sending(r)
         /\ "Suppressed" \in r.flags <=> "Suppressed" \in n.flags
         /\ "DeletePending" \notin n.flags
         /\ "Deleted" \in n.flags => "Deleted" \in r.flags \/ (gone /\ "DeletePending" \in r.flags)
         /\ n.desired = r.desired \/ "DeletePending" \in r.flags
<1>1. r \in Rows /\ r.flags \in SUBSET Flags
  BY RowTyped DEF Sound
<1>2. CASE "DeletePending" \notin r.flags
  <2>1. n = r
    BY <1>2 DEF Acquitted
  <2> QED
    BY <1>1, <1>2, <2>1, SameFollows DEF Follows
<1>3. CASE "DeletePending" \in r.flags
  <2>a. PICK f : f = IF gone THEN (r.flags \ {"DeletePending"}) \cup {"Deleted"} ELSE r.flags \ {"DeletePending"}
    OBVIOUS
  <2>1. r.phase = "Settled" /\ r.mask = {} /\ "Suppressed" \in r.flags /\ r.counter # 0
    BY <1>3 DEF Sound, MarkSound
  <2>2. /\ f \in SUBSET Flags /\ "Suppressed" \in f /\ "DeletePending" \notin f
        /\ "Deleted" \in f => gone \/ "Deleted" \in r.flags
    BY <1>1, <2>1, <2>a DEF Flags
  <2>3. PICK d \in {r.desired, r.durable}, p \in {r.proofs, 0}, e \in BOOLEAN :
          n = [r EXCEPT !.flags = f, !.desired = d, !.proofs = p, !.err = e]
    <3>1. CASE gone
      <4>1. n = [r EXCEPT !.flags = f, !.err = FALSE]
        BY <1>3, <2>a, <3>1 DEF Acquitted
      <4>2. [r EXCEPT !.flags = f, !.err = FALSE]
              = [r EXCEPT !.flags = f, !.desired = r.desired, !.proofs = r.proofs, !.err = FALSE]
        BY <1>1 DEF Rows
      <4> QED
        BY <4>1, <4>2
    <3>2. CASE ~gone
      <4>1. n = [r EXCEPT !.flags = f, !.desired = r.durable, !.proofs = 0]
        BY <1>3, <2>a, <3>2 DEF Acquitted
      <4>2. [r EXCEPT !.flags = f, !.desired = r.durable, !.proofs = 0]
              = [r EXCEPT !.flags = f, !.desired = r.durable, !.proofs = 0, !.err = r.err] /\ r.err \in BOOLEAN
        BY <1>1 DEF Rows
      <4> QED
        BY <4>1, <4>2
    <3> QED
      BY <3>1, <3>2
  <2>4. /\ n \in Rows /\ n.gen = r.gen /\ n.phase = "Settled" /\ n.flags = f /\ n.counter = r.counter
        /\ n.desired = d /\ n.durable = r.durable /\ n.op = r.op /\ n.result = r.result
        /\ n.target = r.target /\ n.at = r.at /\ n.proofs = p /\ n.mask = {}
        /\ n.queued = r.queued /\ n.flown = r.flown /\ n.window = r.window
    <3>1. d \in Statuses /\ p \in Variants
      BY <1>1, RowTyped, AttemptsNat DEF Variants
    <3> QED
      BY <1>1, <2>1, <2>2, <2>3, <3>1, ZenonT(30) DEF Rows
  <2>5. Sound(n)
    <3>1. PhaseSound(n)
      BY <2>4 DEF PhaseSound, Fresh, Active
    <3>2. p < ProofAttempts \/ r.op # "Read"
      BY <2>3, AttemptsNat DEF Sound, OpSound
    <3>3. OpSound(n)
      BY <2>1, <2>4, <3>2 DEF Sound, OpSound
    <3>4. MarkSound(n)
      BY <2>1, <2>2, <2>4 DEF MarkSound
    <3> QED
      BY <2>4, <3>1, <3>3, <3>4 DEF Sound
  <2>6. ~Sending(n)
    BY <2>2, <2>4 DEF Sending
  <2> QED
    BY <1>3, <2>1, <2>2, <2>4, <2>5, <2>6 DEF SameJob, Counts
<1> QED
  BY <1>2, <1>3

LEMMA FinishDeleteStep == ASSUME IInv, FinishDelete PROVE IInv' /\ ProofKept
<1>a. PICK gone \in BOOLEAN : gone = (deleted = "Committed")
  OBVIOUS
<1>1. /\ Idle /\ deleted \in {"Committed", "Failed"} /\ deleting' = 0 /\ deleted' = "none"
      /\ row' = [s \in Slots |-> Acquitted(row[s], gone)] /\ body' = body /\ queue' = queue
      /\ UNCHANGED <<offering, pass, record, air>> /\ cursor' \in {cursor, 0}
  BY <1>a DEF FinishDelete, Rediscover
<1>2. /\ SoundRows /\ JobsInv /\ StoreInv /\ BodyInv /\ cursor' \in Nat
      /\ \A s \in Slots : Sound(row[s]) /\ row[s] \in Rows /\ Linked(row[s])
  BY <1>1, RowsAre
<1>3. gone => record[deleting] = "erased"
  BY <1>2, <1>a DEF StoreInv
<1>4. ASSUME NEW s \in Slots
      PROVE  /\ Sound(row'[s]) /\ SameJob(row[s], row'[s]) /\ Counts(row[s], row'[s])
             /\ row'[s].phase = row[s].phase
             /\ Sending(row'[s]) => Sending(row[s])
             /\ "Suppressed" \in row[s].flags => "Suppressed" \in row'[s].flags
             /\ "DeletePending" \notin row'[s].flags
             /\ "Deleted" \in row'[s].flags =>
                  "Deleted" \in row[s].flags \/ (gone /\ "DeletePending" \in row[s].flags)
             /\ row'[s].desired = row[s].desired \/ "DeletePending" \in row[s].flags
  <2>1. Sound(row[s]) /\ row'[s] = Acquitted(row[s], gone)
    BY <1>1, <1>2
  <2> QED
    BY <2>1, AcquittedIs
<1>5. SoundRows'
  <2>1. row' \in [Slots -> Rows]
    BY <1>1, <1>4 DEF Sound
  <2> QED
    BY <1>4, <2>1 DEF SoundRows
<1>6. CountsKept
  BY <1>4 DEF CountsKept, SameJob
<1>7. body # NoBody => HasBody(body.slot)'
  <2> SUFFICES ASSUME body # NoBody PROVE HasBody(body.slot)'
    OBVIOUS
  <2>1. body.slot \in Slots /\ HasBody(body.slot)
    BY <1>2 DEF BodyInv
  <2> QED
    BY <1>1, <1>4, <2>1 DEF HasBody, Offering, SameJob
<1>8. PassInv' /\ BodyInv' /\ OfferInv' /\ AirInv'
  <2>1. \A s \in Slots : SameJob(row[s], row'[s])
    BY <1>4
  <2> QED
    BY <1>1, <1>5, <1>6, <1>7, <2>1, RowsMarked
<1>9. StoreInv'
  BY <1>1, <1>2 DEF StoreInv
<1>10. RowsLinked'
  <2> SUFFICES ASSUME NEW s \in Slots PROVE Linked(row[s])'
    BY DEF RowsLinked
  <2>1. /\ Linked(row[s]) /\ SameJob(row[s], row'[s])
        /\ Sending(row'[s]) => Sending(row[s])
        /\ "DeletePending" \notin row'[s].flags
        /\ "Deleted" \in row'[s].flags =>
             "Deleted" \in row[s].flags \/ (gone /\ "DeletePending" \in row[s].flags)
    BY <1>2, <1>4
  <2>2. \A d : (Saved(d)' <=> Saved(d)) /\ (Sendable(d) => Sendable(d)')
    BY <1>1 DEF Saved, Sendable
  <2>3. "Deleted" \in row'[s].flags => Saved(row[s].counter)
    <3>1. gone /\ "DeletePending" \in row[s].flags => record[row[s].counter] = "erased"
      BY <1>3, <2>1 DEF Linked
    <3> QED
      BY <2>1, <3>1 DEF Linked, Saved
  <2> QED
    BY <1>1, <2>1, <2>2, <2>3 DEF Linked, SameJob
<1>11. JobsInv'
  <2>1. ASSUME NEW q, InQueue(q) PROVE Awaited(q)' /\ q.op # "Delete"
    <3>1. Awaited(q) /\ q \in Jobs
      BY <1>2, <2>1, JobsAre DEF InQueue
    <3>2. q.op # "Delete"
      BY <1>1, <3>1 DEF Awaited
    <3>3. \A s \in Slots : row'[s].op = row[s].op /\ row'[s].result = row[s].result
      BY <1>4 DEF SameJob
    <3> QED
      BY <1>1, <3>1, <3>2, <3>3 DEF Awaited
  <2>2. \A i \in DOMAIN queue : Awaited(queue[i])' /\ queue[i].op # "Delete"
    <3> SUFFICES ASSUME NEW i \in DOMAIN queue PROVE Awaited(queue[i])' /\ queue[i].op # "Delete"
      OBVIOUS
    <3>1. PICK q : q = queue[i]
      OBVIOUS
    <3>2. Awaited(q)' /\ q.op # "Delete"
      BY <2>1, <3>1 DEF InQueue
    <3> QED
      BY <1>1, <3>1, <3>2 DEF Awaited
  <2>3. \A i, j \in DOMAIN queue : Behind(queue[i], queue[j])'
    BY <1>1, <2>2 DEF Behind
  <2>4. \A i, j \in DOMAIN queue : i # j => Apart(queue[i], queue[j])'
    BY <1>1, <1>2 DEF JobsInv, Apart
  <2> QED
    BY <1>1, <1>2, <2>2, <2>3, <2>4 DEF JobsInv
<1>12. ProofKept
  <2> SUFFICES ASSUME NEW s \in Slots PROVE ProofStays(s)
    BY DEF ProofKept
  <2>1. "DeletePending" \in row[s].flags => deleting = row[s].counter
    BY <1>2 DEF Linked
  <2> QED
    BY <1>4, <2>1 DEF ProofStays, SameJob
<1> QED
  BY <1>5, <1>8, <1>9, <1>10, <1>11, <1>12 DEF IInv, TablesInv

-----------------------------------------------------------------------------
(* The storage worker takes a job.                                         *)
AnswerTo(r, res, at, n) ==
  /\ n \in Rows /\ n.gen = r.gen /\ n.phase = r.phase /\ n.flags = r.flags /\ n.counter = r.counter
  /\ n.desired = r.desired /\ n.durable = r.durable /\ n.op = r.op /\ n.result = res
  /\ n.target = r.target /\ n.at = at /\ n.proofs = r.proofs /\ n.mask = r.mask
  /\ n.queued = r.queued /\ n.flown = r.flown /\ n.window = r.window

Answering(r, res, at) ==
  /\ r.op # "none" /\ r.result = "waiting" /\ res \in {"Committed", "Failed", "Cancelled"} /\ at \in Nat
  /\ res # "Committed" => at = 0

(* A row keeps its soundness with the answer it is given.                  *)
LEMMA AnsweredIs ==
  ASSUME NEW r, Sound(r), NEW res, NEW at, Answering(r, res, at), NEW n, n = [r EXCEPT !.result = res, !.at = at]
  PROVE  Sound(n) /\ AnswerTo(r, res, at, n)
<1>1. r \in Rows /\ res \in Results /\ at \in Nat
  BY DEF Sound, Answering, Results
<1>2. AnswerTo(r, res, at, n)
  BY <1>1 DEF Rows, AnswerTo
<1>3. PhaseSound(n)
  BY <1>2 DEF Sound, PhaseSound, AnswerTo
<1>4. OpSound(n)
  BY <1>2 DEF Sound, OpSound, AnswerTo, Answering
<1>5. MarkSound(n)
  BY <1>2 DEF Sound, MarkSound, AnswerTo
<1> QED
  BY <1>2, <1>3, <1>4, <1>5 DEF Sound, AnswerTo

Replied(r, n) == \E res, at : Answering(r, res, at) /\ AnswerTo(r, res, at, n)

(* Only the row of the job is answered.                                    *)
LEMMA RowAnswered ==
  ASSUME SoundRows, NEW s \in Slots, NEW res, NEW at, Answering(row[s], res, at), row' = Answered(s, res, at)
  PROVE  /\ SoundRows' /\ AnswerTo(row[s], res, at, row'[s])
         /\ \A t \in Slots : t # s => row'[t] = row[t]
<1>a. PICK n : n = [row[s] EXCEPT !.result = res, !.at = at]
  OBVIOUS
<1>1. Sound(row[s]) /\ row \in [Slots -> Rows]
  BY DEF SoundRows
<1>2. Sound(n) /\ AnswerTo(row[s], res, at, n) /\ n \in Rows
  BY <1>1, <1>a, AnsweredIs DEF Sound
<1>3. row' = [row EXCEPT ![s] = n]
  BY <1>1, <1>a DEF Answered
<1>4. row' \in [Slots -> Rows] /\ row'[s] = n /\ \A t \in Slots : t # s => row'[t] = row[t]
  BY <1>1, <1>2, <1>3
<1>5. \A t \in Slots : Sound(row'[t])
  BY <1>2, <1>4 DEF SoundRows
<1> QED
  BY <1>2, <1>4, <1>5 DEF SoundRows

(* What stays with the rows whatever the job is.                           *)
WorkRows(job) ==
  /\ queue # <<>> /\ job = queue[1] /\ queue' = Tail(queue) /\ SoundRows'
  /\ \A t \in Slots : t # job.slot => row'[t] = row[t]
  /\ \A t \in Slots : t = job.slot => Replied(row[t], row'[t])
  /\ UNCHANGED <<body, offering, pass, air, deleting, cursor>>

(* The first job is the one its row waits for.                             *)
LEMMA HeadIs ==
  ASSUME IInv, NEW job, queue # <<>>, job = queue[1]
  PROVE  /\ job \in Jobs /\ Awaited(job) /\ 1 \in DOMAIN queue
         /\ job.slot \in Slots <=> job.op \in RowJobs
         /\ job.slot \in Slots => row[job.slot].op = job.op /\ row[job.slot].result = "waiting"
         /\ job.slot \in Slots => job.slot \notin pass /\ job.slot # Offering
<1>1. JobsInv /\ OfferInv /\ PassInv
  BY DEF IInv, TablesInv
<1>2. 1 \in DOMAIN queue /\ job \in Jobs /\ Awaited(job)
  <2>1. queue \in Seq(Jobs) /\ Len(queue) \in Nat /\ DOMAIN queue = 1 .. Len(queue)
    BY <1>1, JobsAre
  <2>2. Len(queue) # 0
    BY <2>1
  <2> QED
    BY <1>1, <2>1, <2>2, JobsAre
<1>3. job.slot \in Slots <=> job.op \in RowJobs
  BY <1>2 DEF Jobs, Awaited, NoSlot, Slots
<1>4. job.slot \in Slots => row[job.slot].op = job.op /\ row[job.slot].result = "waiting"
  BY <1>2, <1>3 DEF Awaited
<1>5. job.slot \in Slots => job.slot \notin pass
  BY <1>1, <1>4 DEF PassInv, Answers
<1>6. job.slot \in Slots => job.slot # Offering
  <2> SUFFICES ASSUME job.slot \in Slots, job.slot = Offering PROVE FALSE
    OBVIOUS
  <2>1. Offering # NoSlot
    BY DEF Slots, NoSlot
  <2>2. row[Offering].op = "none"
    BY <1>1, <2>1 DEF OfferInv, OfferRow
  <2> QED
    BY <1>3, <1>4, <2>2 DEF RowJobs
<1> QED
  BY <1>2, <1>3, <1>4, <1>5, <1>6

(* The worker touches neither workspace, offers nor packets.               *)
LEMMA WorkKeeps ==
  ASSUME IInv, NEW job, WorkRows(job)
  PROVE  PassInv' /\ BodyInv' /\ OfferInv' /\ AirInv' /\ ProofKept
<1>1. SoundRows /\ AirInv /\ BodyInv /\ OfferInv /\ PassInv /\ SoundRows'
  BY RowsAre DEF IInv, TablesInv, WorkRows
<1>2. \A t \in Slots : row'[t] = row[t] \/ (t = job.slot /\ Replied(row[t], row'[t]))
  BY DEF WorkRows
<1>3. ASSUME NEW t \in Slots
      PROVE  /\ row'[t].gen = row[t].gen /\ row'[t].phase = row[t].phase /\ row'[t].flags = row[t].flags
             /\ row'[t].desired = row[t].desired /\ row'[t].op = row[t].op /\ row'[t].proofs = row[t].proofs
             /\ row'[t].queued = row[t].queued
  BY <1>2 DEF Replied, AnswerTo
<1>4. queue # <<>> /\ job = queue[1] /\ UNCHANGED <<body, offering, pass, air>>
  BY DEF WorkRows
<1>5. PassInv'
  <2>1. \A t \in pass : t \in Slots /\ t # job.slot
    BY <1>1, <1>4, HeadIs DEF PassInv, Answers
  <2>2. \A t \in pass : row'[t] = row[t]
    BY <1>2, <2>1
  <2> QED
    BY <1>1, <1>4, <2>2 DEF PassInv, Answers
<1>6. BodyInv'
  BY <1>1, <1>3, <1>4 DEF BodyInv, Ticket, Live, HasBody, Offering
<1>7. OfferInv'
  <2>1. Offering' = Offering /\ (OfferShape' <=> OfferShape)
    BY <1>4 DEF Offering, OfferShape
  <2>2. CASE Offering = NoSlot
    BY <1>1, <1>4, <2>1, <2>2 DEF OfferInv
  <2>3. CASE Offering # NoSlot
    <3>1. OfferRow(Offering) /\ Offering \in Slots
      BY <1>1, <2>3 DEF OfferInv, OfferRow
    <3>2. row'[Offering] = row[Offering]
      BY <1>2, <1>4, <3>1, HeadIs
    <3>3. OfferRow(Offering)'
      BY <1>4, <2>1, <3>1, <3>2 DEF OfferRow, Live, Ticket
    <3>4. Attempt' = Attempt
      BY <2>1, <3>2 DEF Attempt
    <3> QED
      BY <1>1, <1>4, <2>1, <2>3, <3>3, <3>4 DEF OfferInv
  <2> QED
    BY <2>2, <2>3
<1>8. AirInv'
  <2>1. CountsKept
    <3>1. \A t \in Slots : row[t].proofs \in Nat
      BY <1>1, ProofsNat DEF SoundRows
    <3> QED
      BY <1>3, <3>1 DEF CountsKept, Counts
  <2> QED
    BY <1>1, <1>4, <2>1, AirQuiet
<1>9. ProofKept
  BY <1>3 DEF ProofKept, ProofStays
<1> QED
  BY <1>5, <1>6, <1>7, <1>8, <1>9

(* The other jobs wait as before.                                          *)
LEMMA WorkJobs ==
  ASSUME IInv, NEW job, WorkRows(job), DOMAIN record \subseteq DOMAIN record',
         job.op # "Delete" => deleted' = deleted,
         job.op = "Delete" => deleted' # "waiting"
  PROVE  JobsInv'
<1>1. SoundRows /\ JobsInv
  BY RowsAre
<1>2. queue # <<>> /\ job = queue[1] /\ queue' = Tail(queue) /\ deleting' = deleting
  BY DEF WorkRows
<1>3. job \in Jobs /\ 1 \in DOMAIN queue
  BY <1>2, HeadIs
<1>4. /\ queue \in Seq(Jobs) /\ Len(queue) \in Nat /\ DOMAIN queue = 1 .. Len(queue)
      /\ \A i \in DOMAIN queue : queue[i] \in Jobs /\ Awaited(queue[i])
  BY <1>1, JobsAre
<1>5. /\ queue' \in Seq(Jobs) /\ \A i \in DOMAIN queue' : i \in Nat /\ i + 1 \in DOMAIN queue /\ i + 1 # 1 /\ 1 < i + 1
      /\ \A i \in DOMAIN queue' : queue'[i] = queue[i + 1]
      /\ \A i \in DOMAIN queue : i # 1 => i - 1 \in DOMAIN queue' /\ queue'[i - 1] = queue[i]
  BY <1>2, <1>4
<1>6. \A t \in Slots : /\ row'[t].flags = row[t].flags /\ row'[t].counter = row[t].counter
  BY DEF WorkRows, Replied, AnswerTo
<1>7. ASSUME NEW i \in DOMAIN queue' PROVE Awaited(queue[i])'
  <2>1. /\ Awaited(queue[i + 1]) /\ Apart(queue[1], queue[i + 1]) /\ queue'[i] = queue[i + 1]
        /\ queue[i + 1].op = "Delete" => job.op # "Delete"
    BY <1>1, <1>2, <1>3, <1>4, <1>5 DEF JobsInv
  <2>2. queue[i + 1].op \in RowJobs => queue[i + 1].slot \in Slots /\ row'[queue[i + 1].slot] = row[queue[i + 1].slot]
    BY <1>2, <2>1 DEF WorkRows, Awaited, Apart, Slots, NoSlot
  <2> QED
    BY <1>2, <2>1, <2>2 DEF Awaited
<1>8. \A i, j \in DOMAIN queue' : i # j => Apart(queue[i], queue[j])'
  <2> SUFFICES ASSUME NEW i \in DOMAIN queue', NEW j \in DOMAIN queue', i # j PROVE Apart(queue'[i], queue'[j])
    BY DEF Apart
  <2>1. i + 1 \in DOMAIN queue /\ j + 1 \in DOMAIN queue /\ i + 1 # j + 1
    BY <1>5
  <2>2. Apart(queue[i + 1], queue[j + 1])
    BY <1>1, <2>1 DEF JobsInv
  <2> QED
    BY <1>5, <2>2
<1>9. \A i, j \in DOMAIN queue' : i < j => Behind(queue[i], queue[j])'
  <2> SUFFICES ASSUME NEW i \in DOMAIN queue', NEW j \in DOMAIN queue', i < j PROVE Behind(queue[i], queue[j])'
    OBVIOUS
  <2>1. i + 1 \in DOMAIN queue /\ j + 1 \in DOMAIN queue /\ i + 1 < j + 1
    BY <1>5
  <2>2. Behind(queue[i + 1], queue[j + 1]) /\ Awaited(queue[i + 1])
    BY <1>1, <1>4, <2>1 DEF JobsInv
  <2>3. queue'[i] = queue[i + 1] /\ queue'[j] = queue[j + 1]
    BY <1>5
  <2> QED
    BY <1>6, <2>2, <2>3 DEF Behind, Awaited, RowJobs
<1>10. \A i, j \in DOMAIN queue' : queue'[i].op = "Delete" /\ queue'[j].op = "Delete" => i = j
  <2> SUFFICES ASSUME NEW i \in DOMAIN queue', NEW j \in DOMAIN queue',
                      queue'[i].op = "Delete", queue'[j].op = "Delete"
      PROVE i = j
    OBVIOUS
  <2>1. i + 1 \in DOMAIN queue /\ j + 1 \in DOMAIN queue /\ queue[i + 1].op = "Delete" /\ queue[j + 1].op = "Delete"
    BY <1>5
  <2>2. i + 1 = j + 1
    BY <1>1, <2>1 DEF JobsInv
  <2> QED
    BY <1>5, <2>2
<1>11. deleted' = "waiting" => \E i \in DOMAIN queue' : queue'[i].op = "Delete"
  <2> SUFFICES ASSUME deleted' = "waiting" PROVE \E i \in DOMAIN queue' : queue'[i].op = "Delete"
    OBVIOUS
  <2>1. job.op # "Delete" /\ deleted = "waiting"
    OBVIOUS
  <2>2. PICK i \in DOMAIN queue : queue[i].op = "Delete"
    BY <1>1, <2>1 DEF JobsInv
  <2>3. i # 1
    BY <1>2, <2>1, <2>2
  <2> QED
    BY <1>5, <2>2, <2>3
<1> QED
  BY <1>5, <1>7, <1>8, <1>9, <1>10, <1>11 DEF JobsInv

(* The store never forgets a record nor that it was proved or erased.      *)
StoreGrows ==
  /\ DOMAIN record \subseteq DOMAIN record' /\ deleting' = deleting
  /\ \A d \in DOMAIN record : Saved(d) => Saved(d)'

StillSendable == \A t \in Slots : \A c \in DOMAIN record :
  Sending(row[t]) /\ row[t].counter = c => Sendable(c)'

AnswerLinked(t, c) ==
  /\ row'[t].at # 0 => row'[t].at \in DOMAIN record'
  /\ row[t].op = "Update" /\ row'[t].at # 0 /\ row[t].target = "DELIVERED" => Saved(c)'
  /\ row[t].op = "Read" /\ row'[t].result = "Committed" /\ "Suppressed" \notin row[t].flags => Sendable(c)'
AnswersLinked(job) == \A t \in Slots : \A c :
  t = job.slot /\ row[t].counter = c => AnswerLinked(t, c)

(* A row that may send has a record.                                       *)
LEMMA SendingHas == ASSUME NEW r, Sound(r), Sending(r) PROVE r.counter # 0
BY DEF Sound, Sending, PhaseSound, OpSound, MarkSound, Active

(* A row and its record still agree when what the store did leaves senders *)
(* theirs.                                                                 *)
LEMMA WorkLinks ==
  ASSUME IInv, NEW job, WorkRows(job), StoreGrows, StillSendable, AnswersLinked(job)
  PROVE  RowsLinked'
<1> SUFFICES ASSUME NEW t \in Slots PROVE Linked(row[t])'
  BY DEF RowsLinked
<1>a. PICK c : c = row[t].counter
  OBVIOUS
<1>1. Sound(row[t]) /\ Linked(row[t])
  BY RowsAre
<1>2. row'[t] = row[t] \/ (Replied(row[t], row'[t]) /\ AnswerLinked(t, c))
  BY <1>a DEF WorkRows, AnswersLinked
<1>3. /\ row'[t].phase = row[t].phase /\ row'[t].flags = row[t].flags /\ row'[t].counter = c
      /\ row'[t].durable = row[t].durable /\ row'[t].op = row[t].op /\ row'[t].target = row[t].target
      /\ row'[t].mask = row[t].mask
  BY <1>2, <1>a DEF Replied, AnswerTo
<1>4. c # 0 => c \in DOMAIN record /\ c \in DOMAIN record'
  BY <1>1, <1>a DEF Linked, StoreGrows
<1>5. c # 0 /\ Saved(c) => Saved(c)'
  BY <1>4 DEF StoreGrows
<1>6. row'[t].at # 0 => row'[t].at \in DOMAIN record'
  BY <1>1, <1>2 DEF Linked, AnswerLinked, StoreGrows
<1>7. Sending(row'[t]) => Sendable(c)'
  <2> SUFFICES ASSUME Sending(row'[t]) PROVE Sendable(c)'
    OBVIOUS
  <2>1. CASE Sending(row[t])
    <3>1. c \in DOMAIN record
      BY <1>1, <1>4, <1>a, <2>1, SendingHas
    <3> QED
      BY <1>a, <2>1, <3>1 DEF StillSendable
  <2>2. CASE ~Sending(row[t])
    <3>1. AnswerLinked(t, c)
      BY <1>2, <2>2
    <3>2. row[t].op = "Read" /\ row'[t].result = "Committed" /\ "Suppressed" \notin row[t].flags
      BY <1>3, <2>2 DEF Sending
    <3> QED
      BY <3>1, <3>2 DEF AnswerLinked
  <2> QED
    BY <2>1, <2>2
<1>8. row[t].durable = "DELIVERED" => Saved(c)'
  BY <1>1, <1>5, <1>a DEF Linked, Sound, MarkSound
<1>9. row[t].op = "Update" /\ row'[t].at # 0 /\ row[t].target = "DELIVERED" => Saved(c)'
  <2>1. row[t].op = "Update" => c # 0
    BY <1>1, <1>a DEF Sound, OpSound
  <2> QED
    BY <1>1, <1>2, <1>5, <1>a, <2>1 DEF Linked, AnswerLinked
<1>10. "DeletePending" \in row[t].flags => deleting' = c
  BY <1>1, <1>a DEF Linked, StoreGrows
<1>11. "Deleted" \in row[t].flags => Saved(c)'
  BY <1>1, <1>5, <1>a DEF Linked, Sound, MarkSound
<1> QED
  BY <1>3, <1>4, <1>6, <1>7, <1>8, <1>9, <1>10, <1>11 DEF Linked, Saved, Sendable

(* A job carried out keeps the invariant if the store did what its answer  *)
(* says.                                                                   *)
LEMMA WorkDone ==
  ASSUME IInv, NEW job, WorkRows(job), StoreGrows, StillSendable,
         AnswersLinked(job), StoreInv',
         job.op # "Delete" => deleted' = deleted,
         job.op = "Delete" => deleted' # "waiting"
  PROVE  IInv' /\ ProofKept
<1>1. PassInv' /\ BodyInv' /\ OfferInv' /\ AirInv' /\ ProofKept
  BY WorkKeeps
<1>2. JobsInv'
  BY WorkJobs DEF StoreGrows
<1>3. RowsLinked' /\ SoundRows'
  BY WorkLinks DEF WorkRows
<1> QED
  BY <1>1, <1>2, <1>3 DEF IInv, TablesInv

(* A step of the worker takes the first job, which succeeds or fails.      *)
LEMMA WorkIs ==
  ASSUME IInv, Work
  PROVE  \E job : /\ queue # <<>> /\ job = queue[1] /\ queue' = Tail(queue) /\ (Carries(job) \/ Fails(job))
                  /\ UNCHANGED <<body, offering, pass, air, deleting, cursor>>
BY DEF Work, engine

(* The rows after a job of a row, and after one of none.                   *)
LEMMA AnswerRows ==
  ASSUME IInv, NEW job, queue # <<>>, job = queue[1], queue' = Tail(queue), job.slot \in Slots,
         UNCHANGED <<body, offering, pass, air, deleting, cursor>>,
         NEW res \in {"Committed", "Failed", "Cancelled"}, NEW at \in Nat, res # "Committed" => at = 0,
         row' = Answered(job.slot, res, at)
  PROVE  WorkRows(job) /\ row'[job.slot].result = res /\ row'[job.slot].at = at
<1>1. SoundRows
  BY RowsAre
<1>2. row[job.slot].op = job.op /\ row[job.slot].result = "waiting" /\ job.op \in RowJobs
  BY HeadIs
<1>3. Answering(row[job.slot], res, at)
  BY <1>2 DEF Answering, RowJobs
<1>4. /\ SoundRows' /\ AnswerTo(row[job.slot], res, at, row'[job.slot])
      /\ \A t \in Slots : t # job.slot => row'[t] = row[t]
  BY <1>1, <1>3, RowAnswered
<1>5. Replied(row[job.slot], row'[job.slot])
  BY <1>3, <1>4 DEF Replied
<1> QED
  BY <1>4, <1>5 DEF WorkRows, AnswerTo

LEMMA SameRowsWork ==
  ASSUME IInv, NEW job, queue # <<>>, job = queue[1], queue' = Tail(queue), job.slot \notin Slots,
         UNCHANGED <<row, body, offering, pass, air, deleting, cursor>>
  PROVE  WorkRows(job)
BY RowsAre DEF WorkRows, SoundRows

(* It is enough that no record in use is lost to its senders.              *)
LEMMA SendableRows ==
  ASSUME \A c \in DOMAIN record : Sendable(c) => Sendable(c)', RowsLinked
  PROVE  StillSendable
<1> SUFFICES ASSUME NEW t \in Slots, NEW c \in DOMAIN record, Sending(row[t]), row[t].counter = c
    PROVE Sendable(c)'
  BY DEF StillSendable
<1>1. Sendable(c)
  BY DEF RowsLinked, Linked
<1> QED
  BY <1>1

(* The outcomes of a job, one by one.                                      *)
LEMMA WorkFails ==
  ASSUME IInv, NEW job, queue # <<>>, job = queue[1], queue' = Tail(queue), Fails(job),
         UNCHANGED <<body, offering, pass, air, deleting, cursor>>
  PROVE  IInv' /\ ProofKept
<1>1. /\ Awaited(job) /\ StoreInv
      /\ job.slot \in Slots <=> job.op \in RowJobs
  BY HeadIs, RowsAre
<1>2. record' = record /\ deleted' = (IF job.op = "Delete" THEN "Failed" ELSE deleted)
  BY DEF Fails
<1>3. WorkRows(job) /\ \A t \in Slots : t = job.slot => row'[t].at = 0 /\ row'[t].result # "Committed"
  <2>1. CASE job.slot \in Slots
    <3>1. PICK res \in {"Failed", "Cancelled"} : row' = Answered(job.slot, res, 0)
      BY <2>1 DEF Fails
    <3>2. 0 \in Nat /\ res \in {"Committed", "Failed", "Cancelled"} /\ res # "Committed"
      BY <3>1
    <3> QED
      BY <2>1, <3>1, <3>2, AnswerRows
  <2>2. CASE job.slot \notin Slots
    <3>1. row' = row
      BY <2>2 DEF Fails
    <3> QED
      BY <2>2, <3>1, SameRowsWork
  <2> QED
    BY <2>1, <2>2
<1>4. \A c : (Saved(c)' <=> Saved(c)) /\ (Sendable(c) => Sendable(c)')
  BY <1>2 DEF Saved, Sendable
<1>5. StoreGrows /\ StillSendable
  BY <1>2, <1>4, SendableRows, RowsAre DEF StoreGrows
<1>6. AnswersLinked(job)
  BY <1>3 DEF AnswersLinked, AnswerLinked
<1>7. job.op = "Delete" => deleted = "waiting"
  BY <1>1 DEF Awaited
<1>8. StoreInv'
  BY <1>1, <1>2, <1>7 DEF StoreInv
<1> QED
  BY <1>2, <1>3, <1>5, <1>6, <1>8, WorkDone

LEMMA WorkCreate ==
  ASSUME IInv, NEW job, queue # <<>>, job = queue[1], queue' = Tail(queue), job.op = "Create",
         UNCHANGED <<body, offering, pass, air, deleting, cursor, deleted>>,
         record' = Append(record, "QUEUED"), row' = Answered(job.slot, "Committed", Len(record) + 1)
  PROVE  IInv' /\ ProofKept
<1>1. /\ StoreInv /\ job.slot \in Slots /\ row[job.slot].op = "Create"
      /\ record \in Seq(Statuses \cup {"erased"})
  BY HeadIs, RowsAre DEF RowJobs, StoreInv
<1>2. /\ record' \in Seq(Statuses \cup {"erased"}) /\ DOMAIN record \subseteq DOMAIN record'
      /\ Len(record) + 1 \in DOMAIN record' /\ Len(record) + 1 \in Nat
      /\ \A d \in DOMAIN record : record'[d] = record[d]
  BY <1>1, StatusesAre
<1>3. WorkRows(job) /\ row'[job.slot].at = Len(record) + 1
  BY <1>1, <1>2, AnswerRows
<1>4. \A c \in DOMAIN record : (Saved(c) => Saved(c)') /\ (Sendable(c) => Sendable(c)')
  BY <1>2 DEF Saved, Sendable
<1>5. StoreGrows /\ StillSendable
  BY <1>2, <1>4, SendableRows, RowsAre DEF StoreGrows
<1>6. AnswersLinked(job)
  BY <1>1, <1>2, <1>3 DEF AnswersLinked, AnswerLinked
<1>7. StoreInv'
  BY <1>1, <1>2 DEF StoreInv
<1> QED
  BY <1>3, <1>5, <1>6, <1>7, WorkDone

LEMMA WorkUpdate ==
  ASSUME IInv, NEW job, queue # <<>>, job = queue[1], queue' = Tail(queue), job.op = "Update",
         UNCHANGED <<body, offering, pass, air, deleting, cursor, deleted>>,
         NEW c, c = row[job.slot].counter, record[c] # "erased",
         Updated(record[c], row[job.slot].target) = row[job.slot].target,
         record' = [record EXCEPT ![c] = row[job.slot].target], row' = Answered(job.slot, "Committed", c)
  PROVE  IInv' /\ ProofKept
<1>a. PICK st : st = row[job.slot].target
  OBVIOUS
<1>1. /\ StoreInv /\ job.slot \in Slots /\ row[job.slot].op = "Update"
      /\ record \in Seq(Statuses \cup {"erased"})
  BY HeadIs, RowsAre DEF RowJobs, StoreInv
<1>2. Sound(row[job.slot]) /\ Linked(row[job.slot]) /\ row[job.slot] \in Rows
  BY <1>1, RowsAre
<1>3. c \in DOMAIN record /\ c \in Nat /\ st \in Statuses
  BY <1>1, <1>2, <1>a, RowTyped DEF Sound, OpSound, Linked
<1>4. /\ record' \in Seq(Statuses \cup {"erased"}) /\ DOMAIN record' = DOMAIN record
      /\ record'[c] = st /\ \A d \in DOMAIN record : d # c => record'[d] = record[d]
  BY <1>1, <1>3, <1>a
<1>5. st # "erased" /\ (record[c] = "DELIVERED" => st = "DELIVERED")
  BY <1>3, <1>a DEF Statuses, Updated
<1>6. WorkRows(job) /\ row'[job.slot].at = c
  BY <1>1, <1>3, AnswerRows
<1>7. \A d \in DOMAIN record : (Saved(d) => Saved(d)') /\ (Sendable(d) => Sendable(d)')
  BY <1>4, <1>5 DEF Saved, Sendable
<1>8. StoreGrows /\ StillSendable
  BY <1>4, <1>7, SendableRows, RowsAre DEF StoreGrows
<1>9. AnswersLinked(job)
  <2>1. st = "DELIVERED" => Saved(c)'
    BY <1>4 DEF Saved
  <2> QED
    BY <1>1, <1>3, <1>4, <1>6, <1>a, <2>1 DEF AnswersLinked, AnswerLinked
<1>10. StoreInv'
  BY <1>1, <1>3, <1>4 DEF StoreInv
<1> QED
  BY <1>6, <1>8, <1>9, <1>10, WorkDone

LEMMA WorkRead ==
  ASSUME IInv, NEW job, queue # <<>>, job = queue[1], queue' = Tail(queue), job.op = "Read",
         UNCHANGED <<body, offering, pass, air, deleting, cursor, deleted, record>>,
         NEW c, c = row[job.slot].counter, record[c] # "erased", row' = Answered(job.slot, "Committed", c)
  PROVE  IInv' /\ ProofKept
<1>1. /\ StoreInv /\ JobsInv /\ job.slot \in Slots /\ row[job.slot].op = "Read" /\ 1 \in DOMAIN queue
  BY HeadIs, RowsAre DEF RowJobs
<1>2. Sound(row[job.slot]) /\ Linked(row[job.slot]) /\ row[job.slot] \in Rows
  BY <1>1, RowsAre
<1>3. c \in DOMAIN record /\ c \in Nat
  BY <1>1, <1>2, RowTyped DEF Sound, OpSound, Linked
<1>4. WorkRows(job) /\ row'[job.slot].at = c
  BY <1>1, <1>3, AnswerRows
<1>5. \A d : (Saved(d)' <=> Saved(d)) /\ (Sendable(d)' <=> Sendable(d))
  BY DEF Saved, Sendable
<1>6. StoreGrows /\ StillSendable
  BY <1>5, SendableRows, RowsAre DEF StoreGrows
<1>7. "Suppressed" \notin row[job.slot].flags => Sendable(c)
  <2> SUFFICES ASSUME deleting = c, deleted = "waiting" PROVE "Suppressed" \in row[job.slot].flags
    BY DEF Sendable
  <2>1. PICK i \in DOMAIN queue : queue[i].op = "Delete"
    BY <1>1 DEF JobsInv
  <2>2. /\ Awaited(queue[i]) /\ i \in Nat /\ i >= 1
    BY <1>1, JobsAre
  <2>3. i # 1
    BY <2>1
  <2>4. Behind(queue[1], queue[i])
    <3>1. 1 < i
      BY <2>2, <2>3
    <3> QED
      BY <1>1, <3>1 DEF JobsInv
  <2> QED
    BY <2>1, <2>2, <2>4 DEF Behind, Awaited
<1>8. AnswersLinked(job)
  <2>1. "Suppressed" \notin row[job.slot].flags => Sendable(c)'
    BY <1>5, <1>7
  <2> QED
    BY <1>1, <1>3, <1>4, <2>1 DEF AnswersLinked, AnswerLinked
<1>9. StoreInv'
  BY <1>1 DEF StoreInv
<1> QED
  BY <1>4, <1>6, <1>8, <1>9, WorkDone

LEMMA WorkPending ==
  ASSUME IInv, NEW job, queue # <<>>, job = queue[1], queue' = Tail(queue), job.op = "Pending",
         UNCHANGED <<body, offering, pass, air, deleting, cursor, deleted, record>>,
         NEW at, at = 0 \/ at \in DOMAIN record, row' = Answered(job.slot, "Committed", at)
  PROVE  IInv' /\ ProofKept
<1>1. /\ StoreInv /\ job.slot \in Slots /\ row[job.slot].op = "Pending" /\ record \in Seq(Statuses \cup {"erased"})
  BY HeadIs, RowsAre DEF RowJobs, StoreInv
<1>2. at \in Nat
  BY <1>1
<1>3. WorkRows(job) /\ row'[job.slot].at = at
  BY <1>1, <1>2, AnswerRows
<1>4. \A d : (Saved(d)' <=> Saved(d)) /\ (Sendable(d)' <=> Sendable(d))
  BY DEF Saved, Sendable
<1>5. StoreGrows /\ StillSendable
  BY <1>4, SendableRows, RowsAre DEF StoreGrows
<1>6. AnswersLinked(job)
  BY <1>1, <1>3 DEF AnswersLinked, AnswerLinked
<1>7. StoreInv'
  BY <1>1 DEF StoreInv
<1> QED
  BY <1>3, <1>5, <1>6, <1>7, WorkDone

LEMMA WorkDelete ==
  ASSUME IInv, NEW job, queue # <<>>, job = queue[1], queue' = Tail(queue), job.op = "Delete",
         UNCHANGED <<row, body, offering, pass, air, deleting, cursor>>, deleted' = "Committed",
         record' = [record EXCEPT ![job.arg] = "erased"]
  PROVE  IInv' /\ ProofKept
<1>1. /\ StoreInv /\ job.slot \notin Slots /\ Awaited(job)
      /\ record \in Seq(Statuses \cup {"erased"})
  BY HeadIs, RowsAre DEF RowJobs, StoreInv
<1>2. deleting = job.arg /\ deleted = "waiting" /\ job.arg \in DOMAIN record
  BY <1>1 DEF Awaited
<1>3. /\ record' \in Seq(Statuses \cup {"erased"}) /\ DOMAIN record' = DOMAIN record
      /\ record'[job.arg] = "erased" /\ \A d \in DOMAIN record : d # job.arg => record'[d] = record[d]
  BY <1>1, <1>2
<1>4. WorkRows(job)
  BY <1>1, SameRowsWork
<1>5. \A d \in DOMAIN record : (Saved(d) => Saved(d)') /\ (Sendable(d) => Sendable(d)')
  BY <1>2, <1>3 DEF Saved, Sendable
<1>6. StoreGrows /\ StillSendable
  BY <1>3, <1>5, SendableRows, RowsAre DEF StoreGrows
<1>7. StoreInv'
  BY <1>1, <1>2, <1>3 DEF StoreInv
<1>8. AnswersLinked(job)
  BY <1>1 DEF AnswersLinked
<1> QED
  BY <1>4, <1>6, <1>7, <1>8, WorkDone

LEMMA WorkRetry ==
  ASSUME IInv, NEW job, queue # <<>>, job = queue[1], queue' = Tail(queue), job.op = "Retry",
         UNCHANGED <<row, body, offering, pass, air, deleting, cursor, deleted>>,
         record[job.arg] \in {"FAILED", "UNCONFIRMED"}, record' = [record EXCEPT ![job.arg] = "QUEUED"]
  PROVE  IInv' /\ ProofKept
<1>1. /\ StoreInv /\ job.slot \notin Slots /\ Awaited(job)
      /\ record \in Seq(Statuses \cup {"erased"})
  BY HeadIs, RowsAre DEF RowJobs, StoreInv
<1>2. job.arg \in DOMAIN record
  BY <1>1 DEF Awaited
<1>3. /\ record' \in Seq(Statuses \cup {"erased"}) /\ DOMAIN record' = DOMAIN record
      /\ record'[job.arg] = "QUEUED" /\ \A d \in DOMAIN record : d # job.arg => record'[d] = record[d]
  BY <1>1, <1>2, StatusesAre
<1>4. WorkRows(job)
  BY <1>1, SameRowsWork
<1>5. \A d \in DOMAIN record : (Saved(d) => Saved(d)') /\ (Sendable(d) => Sendable(d)')
  BY <1>2, <1>3 DEF Saved, Sendable
<1>6. StoreGrows /\ StillSendable
  BY <1>3, <1>5, SendableRows, RowsAre DEF StoreGrows
<1>7. StoreInv'
  <2>1. deleted = "Committed" => deleting # job.arg
    BY <1>1 DEF StoreInv
  <2> QED
    BY <1>1, <1>2, <1>3, <2>1 DEF StoreInv
<1>8. AnswersLinked(job)
  BY <1>1 DEF AnswersLinked
<1> QED
  BY <1>4, <1>6, <1>7, <1>8, WorkDone

LEMMA WorkStep == ASSUME IInv, Work PROVE IInv' /\ ProofKept
<1>1. PICK job : /\ queue # <<>> /\ job = queue[1] /\ queue' = Tail(queue) /\ (Carries(job) \/ Fails(job))
                 /\ UNCHANGED <<body, offering, pass, air, deleting, cursor>>
  BY WorkIs
<1>2. CASE Fails(job)
  BY <1>1, <1>2, WorkFails
<1>3. CASE Carries(job)
  <2>a. PICK c : c = IF job.slot \in Slots THEN row[job.slot].counter ELSE job.arg
    OBVIOUS
  <2>1. job.slot \in Slots <=> job.op \in RowJobs
    BY <1>1, HeadIs
  <2>2. CASE job.op = "Create"
    <3>1. record' = Append(record, "QUEUED") /\ row' = Answered(job.slot, "Committed", Len(record) + 1)
          /\ deleted' = deleted
      BY <1>3, <2>2 DEF Carries
    <3> QED
      BY <1>1, <2>2, <3>1, WorkCreate
  <2>3. CASE job.op = "Update"
    <3>1. /\ c = row[job.slot].counter /\ record[c] # "erased" /\ deleted' = deleted
          /\ Updated(record[c], row[job.slot].target) = row[job.slot].target
          /\ record' = [record EXCEPT ![c] = row[job.slot].target] /\ row' = Answered(job.slot, "Committed", c)
      BY <1>3, <2>a, <2>1, <2>3 DEF Carries, RowJobs
    <3> QED
      BY <1>1, <2>3, <3>1, WorkUpdate
  <2>4. CASE job.op = "Read"
    <3>1. /\ c = row[job.slot].counter /\ record[c] # "erased" /\ UNCHANGED <<record, deleted>>
          /\ row' = Answered(job.slot, "Committed", c)
      BY <1>3, <2>a, <2>1, <2>4 DEF Carries, RowJobs
    <3> QED
      BY <1>1, <2>4, <3>1, WorkRead
  <2>5. CASE job.op = "Pending"
    <3>a. PICK later : later = {d \in DOMAIN record : d > job.arg /\ record[d] = "QUEUED"}
      OBVIOUS
    <3>1. UNCHANGED <<record, deleted>> /\ row' = Answered(job.slot, "Committed", IF later = {} THEN 0 ELSE Least(later))
      BY <1>3, <2>5, <3>a DEF Carries
    <3>2. later \subseteq DOMAIN record /\ later \subseteq Nat
      BY <3>a, RowsAre DEF StoreInv
    <3>3. later # {} => Least(later) \in later
      BY <3>2, LeastIs
    <3>4. PICK at : at = IF later = {} THEN 0 ELSE Least(later)
      OBVIOUS
    <3>5. at = 0 \/ at \in DOMAIN record
      BY <3>2, <3>3, <3>4
    <3>6. row' = Answered(job.slot, "Committed", at)
      BY <3>1, <3>4
    <3> QED
      BY <1>1, <2>5, <3>1, <3>5, <3>6, WorkPending
  <2>6. CASE job.op = "Delete"
    <3>1. deleted' = "Committed" /\ row' = row /\ record' = [record EXCEPT ![job.arg] = "erased"]
      BY <1>3, <2>1, <2>6 DEF Carries, RowJobs
    <3> QED
      BY <1>1, <2>6, <3>1, WorkDelete
  <2>7. CASE job.op = "Retry"
    <3>1. UNCHANGED <<row, deleted>> /\ record' = [record EXCEPT ![job.arg] = "QUEUED"]
          /\ record[job.arg] \in {"FAILED", "UNCONFIRMED"}
      BY <1>3, <2>1, <2>7 DEF Carries, RowJobs
    <3> QED
      BY <1>1, <2>7, <3>1, WorkRetry
  <2> QED
    BY <1>3, <2>2, <2>3, <2>4, <2>5, <2>6, <2>7 DEF Carries
<1> QED
  BY <1>1, <1>2, <1>3

-----------------------------------------------------------------------------
(* Every reachable state and every step.                                   *)
LEMMA InitInv == ASSUME Init PROVE IInv
<1>1. PICK age \in Ages : row = [s \in Slots |-> Descriptor(age[s], "Free", {})]
  BY DEF Init
<1>2. /\ body = NoBody /\ cursor = 0 /\ deleting = 0 /\ offering = NotOffering /\ pass = {} /\ air = {}
      /\ queue = <<>> /\ deleted = "none" /\ record \in Restored
  BY DEF Init
<1>3. ASSUME NEW s \in Slots PROVE Blank(row[s]) /\ row[s].op = "none"
  <2>1. age[s] \in Nat
    BY OutgoingAssumption DEF Slots
  <2>2. row[s] = Descriptor(age[s], "Free", {})
    BY <1>1
  <2>3. "Free" \in Phases \ Active /\ {} \in SUBSET {"Acknowledged"}
    BY DEF Phases, Active
  <2> QED
    BY <2>1, <2>2, <2>3, DescriptorIs, DescriptorBlank
<1>4. SoundRows
  <2>1. row \in [Slots -> Rows]
    BY <1>1, <1>3 DEF Blank, Sound
  <2> QED
    BY <1>3, <2>1 DEF SoundRows, Blank
<1>5. RowsLinked
  <2> SUFFICES ASSUME NEW s \in Slots PROVE Linked(row[s])
    BY DEF RowsLinked
  <2>1. Blank(row[s])
    BY <1>3
  <2> QED
    BY <2>1 DEF Blank, Linked
<1>6. StoreInv
  <2>1. record \in Seq(Statuses \cup {"erased"})
    BY <1>2, OutgoingAssumption DEF Statuses
  <2> QED
    BY <1>2, <2>1 DEF StoreInv
<1>7. JobsInv
  BY <1>2 DEF JobsInv
<1>8. PassInv
  BY <1>2 DEF PassInv
<1>9. BodyInv
  BY <1>2 DEF BodyInv
<1>10. OfferInv
  BY <1>2 DEF OfferInv, Offering, NotOffering
<1>11. AirInv
  <2>1. \A s \in Slots : Held(s) = {} /\ row[s].queued = 0
    BY <1>2, <1>3 DEF Held, Blank
  <2> QED
    BY <1>2, <2>1, FS_EmptySet DEF AirInv
<1> QED
  BY <1>4, <1>5, <1>6, <1>7, <1>8, <1>9, <1>10, <1>11 DEF IInv, TablesInv

(* Every action together.                                                  *)
LEMMA Stutter == ASSUME IInv, UNCHANGED vars PROVE IInv' /\ ProofKept
<1>1. UNCHANGED <<row, body, offering, cursor, deleting, pass, queue, record, deleted, air>>
  BY DEF vars, engine, store
<1>2. TablesInv' /\ ProofKept
  <2>1. SoundRows /\ SameQueue /\ cursor' \in Nat
    BY <1>1, RowsAre, SameJobs
  <2>2. RowsFollow
    BY <1>1, <2>1, SameRows
  <2> QED
    BY <1>1, <2>1, <2>2, RowsQuiet DEF IInv
<1>3. BodyInv'
  BY <1>1 DEF IInv, BodyInv, Ticket, Live, HasBody, Offering
<1>4. OfferInv'
  <2>1. OfferRow(Offering)' <=> OfferRow(Offering)
    BY <1>1 DEF OfferRow, Live, Ticket, Offering
  <2> QED
    BY <1>1, <2>1 DEF IInv, OfferInv, OfferShape, Offering, Attempt
<1>5. AirInv'
  <2>1. SoundRows /\ SoundRows' /\ AirInv /\ CountsKept
    BY <1>1, <1>2, RowsAre, SameCounts DEF TablesInv
  <2> QED
    BY <1>1, <2>1, AirQuiet
<1> QED
  BY <1>2, <1>3, <1>4, <1>5 DEF IInv

LEMMA NextStep == ASSUME IInv, [Next]_vars PROVE IInv' /\ ProofKept
<1>1. CASE User
  <2>1. CASE Submit \/ Stop
    BY <2>1, SubmitStep, StopStep
  <2>2. ASSUME NEW s \in Slots, Cancel(s) PROVE IInv' /\ ProofKept
    BY <2>2, CancelStep
  <2>3. ASSUME NEW c \in DOMAIN record, BeginDelete(c) \/ Retry(c) PROVE IInv' /\ ProofKept
    BY <2>3, BeginDeleteStep, RetryStep
  <2> QED
    BY <1>1, <2>1, <2>2, <2>3 DEF User
<1>2. CASE Told
  <2>1. CASE FinishDelete \/ StoredMessage
    BY <2>1, FinishDeleteStep, StoredMessageStep
  <2>2. ASSUME NEW s \in Slots, Acknowledge(s) PROVE IInv' /\ ProofKept
    BY <2>2, AcknowledgeStep
  <2> QED
    BY <1>2, <2>1, <2>2 DEF Told
<1>3. CASE Loop
  BY <1>3, PollStep, SettleStep, StartQueryStep DEF Loop
<1>4. CASE Offer
  BY <1>4, OfferNextStep, OfferReturnsStep, OfferEndsStep DEF Offer
<1>5. CASE Work
  BY <1>5, WorkStep
<1>6. CASE Air
  <2>1. ASSUME NEW a \in air, Transmit(a) \/ Drop(a) PROVE IInv' /\ ProofKept
    BY <2>1, TransmitStep, DropStep
  <2>2. ASSUME NEW s \in Slots, Proof(s) \/ GraceEnds(s) \/ OfferResource(s) \/ ResourceOutcome(s)
        PROVE IInv' /\ ProofKept
    BY <2>2, ProofStep, GraceEndsStep, OfferResourceStep, ResourceOutcomeStep
  <2> QED
    BY <1>6, <2>1, <2>2 DEF Air, Receipts
<1>7. ASSUME NEW s \in Slots, Reports(s) \/ Sends(s) PROVE IInv' /\ ProofKept
  <2>1. CASE Reports(s)
    BY <2>1, RetireStep, ReportStatusStep, WaitRunsOutStep DEF Reports
  <2>2. CASE Sends(s)
    BY <2>2, LookForPendingStep, ReadBodyStep, AttemptEndsStep, PreparePacketStep DEF Sends
  <2> QED
    BY <1>7, <2>1, <2>2
<1>8. CASE UNCHANGED vars
  BY <1>8, Stutter
<1> QED
  BY <1>1, <1>2, <1>3, <1>4, <1>5, <1>6, <1>7, <1>8 DEF Next

(* The inductive invariant holds in every reachable state.                 *)
THEOREM OutgoingInvariant == Spec => []IInv
<1>1. Init => IInv
  BY InitInv
<1>2. IInv /\ [Next]_vars => IInv'
  BY NextStep
<1> QED
  BY <1>1, <1>2, PTL DEF Spec

(* Receipts in the air and the rows' counts of them agree, whatever comes  *)
(* between an offer and its return: no row is used again under a packet.   *)
THEOREM ReceiptsStayAccounted == Spec => []ReceiptsAccounted
<1>1. IInv => ReceiptsAccounted
  <2> SUFFICES ASSUME IInv PROVE ReceiptsAccounted
    OBVIOUS
  <2>1. AirInv
    BY DEF IInv
  <2>2. \A s \in Slots : Held(s) = {r \in air : r.slot = s}
    BY DEF Held
  <2> QED
    BY <2>1, <2>2 DEF AirInv, ReceiptsAccounted
<1> QED
  BY <1>1, OutgoingInvariant, PTL

(* The one workspace always belongs to a row that will let it go.          *)
THEOREM WorkspaceStaysReturned == Spec => []WorkspaceReturned
<1>1. IInv => WorkspaceReturned
  <2> SUFFICES ASSUME IInv, body # NoBody PROVE WorkspaceReturned
    BY DEF WorkspaceReturned
  <2>1. body.slot \in Slots /\ body = Ticket(body.slot) /\ Live(body.slot) /\ HasBody(body.slot)
    BY DEF IInv, BodyInv
  <2>2. Sound(row[body.slot]) /\ body.gen = row[body.slot].gen
    BY <2>1, RowsAre DEF Ticket
  <2>3. row[body.slot].phase = "Reading" =>
          row[body.slot].op # "Pending" /\ row[body.slot].proofs < ProofAttempts
    BY <2>2 DEF Sound, PhaseSound, OpSound
  <2> QED
    BY <2>1, <2>2, <2>3 DEF WorkspaceReturned, HasBody, Live
<1> QED
  BY <1>1, OutgoingInvariant, PTL

(* Nothing is transmitted of a message whose deletion has been begun and   *)
(* has not failed.                                                         *)
THEOREM DeletedStaysUnsent == Spec => []DeletedNotSent
<1>1. IInv => DeletedNotSent
  <2> SUFFICES ASSUME IInv, NEW r \in air, LeaseLive(r) PROVE Sendable(row[r.slot].counter)
    BY DEF DeletedNotSent, Sendable
  <2>1. r.slot \in Slots
    BY DEF IInv, AirInv, Receiptlike
  <2>2. Sending(row[r.slot])
    BY DEF LeaseLive, Sending
  <2> QED
    BY <2>1, <2>2, RowsAre DEF Linked
<1> QED
  BY <1>1, OutgoingInvariant, PTL

(* A proof accepted by a row is never forgotten before the record says so. *)
THEOREM ProofsReachRecords == Spec => ProofReachesRecord
<1>1. IInv /\ [Next]_vars =>
        [\A s \in Slots :
           Live(s) /\ row[s].desired = "DELIVERED" =>
             \/ row'[s].gen = row[s].gen /\ row'[s].desired = "DELIVERED"
             \/ record[row[s].counter] \in {"DELIVERED", "erased"}
             \/ deleting = row[s].counter]_vars
  <2>1. IInv /\ [Next]_vars => ProofKept
    BY NextStep
  <2> QED
    BY <2>1 DEF ProofKept, ProofStays, Saved
<1> QED
  BY <1>1, OutgoingInvariant, PTL DEF Spec, ProofReachesRecord
=============================================================================

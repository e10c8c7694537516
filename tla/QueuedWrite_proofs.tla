------------------------- MODULE QueuedWrite_proofs -------------------------
(* What the text service takes for shown is shown, whatever it waits for    *)
(* has somebody left to end it, and the engine is told of an applied undo   *)
(* only what the host did: for any set of documents and texts, any host and *)
(* every bound.                                                             *)
EXTENDS QueuedWrite, WriteJournal_proofs, SequenceTheorems, TLAPS

-----------------------------------------------------------------------------
(* The journal as the service sees it.                                      *)

JournalGood(jj) == JournalOK(jj) /\ JournalInv(jj)

(* k is jj with part of its queue gone and nothing else planned.            *)
Shortens(jj, k) ==
  /\ JournalGood(k) /\ k.nextId = jj.nextId
  /\ \A n \in 1..Len(k.ops) : \E m \in 1..Len(jj.ops) : k.ops[n] = jj.ops[m]

LEMMA SettledShortens ==
  ASSUME NEW jj, NEW k, Settled(k), k.nextId = jj.nextId
  PROVE  Shortens(jj, k) /\ k.ops = << >> /\ Queued(k) = {}
<1>1. JournalInv(k) /\ JournalOK(k) /\ k.ops = << >>
  BY SettledInv DEF Settled
<1> QED
  BY <1>1 DEF Shortens, JournalGood, Queued

LEMMA SameShortens ==
  ASSUME NEW jj, JournalGood(jj)
  PROVE  Shortens(jj, jj)
BY DEF Shortens

(* Shortening a queue loses ids and gains none.                             *)
LEMMA ShortensQueued ==
  ASSUME NEW jj, NEW k, JournalGood(jj), Shortens(jj, k)
  PROVE  Queued(k) \subseteq Queued(jj)
<1>1. DOMAIN k.ops = 1..Len(k.ops) /\ DOMAIN jj.ops = 1..Len(jj.ops)
  BY QueueTypes DEF Shortens, JournalGood
<1> QED
  BY <1>1 DEF Shortens, Queued

LEMMA FailHeadKeeps ==
  ASSUME NEW jj, JournalGood(jj), jj.ops # << >>,
         NEW outcome \in Outcomes, NEW changed \in BOOLEAN
  PROVE  LET k == FailHead(jj, outcome, changed, {})
         IN  /\ Settled(k) /\ k.nextId = jj.nextId
             /\ k.cvis = jj.cvis /\ k.active = jj.active
<1>1. {} \in SUBSET Visible
  OBVIOUS
<1>2. Cancelled(jj, FailHead(jj, outcome, changed, {}))
  BY <1>1, FailHeadFields DEF JournalGood
<1>3. FailHead(jj, outcome, changed, {}).cvis = jj.cvis
  BY DEF FailHead, JournalGood, JournalOK, Journals
<1> QED
  BY <1>2, <1>3 DEF Cancelled

(* Cancelling everything takes the tail back to the committed projection.   *)
LEMMA CancelAllKeeps ==
  ASSUME NEW jj, JournalOK(jj)
  PROVE  LET k == CancelAll(jj)
         IN  /\ Settled(k) /\ k.nextId = jj.nextId
             /\ k.cvis = jj.cvis /\ k.active = jj.active
             /\ k.context = jj.context /\ k.gen = jj.gen
<1>1. Cancelled(jj, CancelAll(jj))
  BY CancelAllFields
<1>2. CancelAll(jj).cvis = jj.cvis
  BY DEF CancelAll, FailHead, JournalOK, Journals
<1> QED
  BY <1>1, <1>2 DEF Cancelled, EpochNow

(* What a rejected or cancelled ticket takes down is the whole queue, or it *)
(* is not of the head and takes nothing.                                    *)
LEMMA TicketKeeps ==
  ASSUME NEW jj, JournalGood(jj), NEW t, NEW changed \in BOOLEAN
  PROVE  /\ LET k == CancelTicket(jj, t)
            IN  k = jj \/ (Settled(k) /\ k.nextId = jj.nextId
                           /\ k.cvis = jj.cvis /\ k.active = jj.active)
         /\ LET k == Reject(jj, t, changed, {})
            IN  k = jj \/ (Settled(k) /\ k.nextId = jj.nextId
                           /\ k.cvis = jj.cvis /\ k.active = jj.active)
<1>1. "Rejected" \in Outcomes /\ "Cancelled" \in Outcomes /\ FALSE \in BOOLEAN
  BY DEF Outcomes
<1> QED
  BY <1>1, FailHeadKeeps DEF CancelTicket, Reject, IsHead

LEMMA LifeCycleKeeps ==
  ASSUME NEW jj, JournalOK(jj)
  PROVE  /\ Activate(jj).active = TRUE /\ Activate(jj).cvis = Empty
         /\ FocusChanged(jj).active = jj.active /\ FocusChanged(jj).cvis = jj.cvis
         /\ CompositionTerminated(jj).active = jj.active
         /\ AbandonProjection(jj).active = jj.active
<1> DEFINE c == CancelAll(jj)
           d == [jj EXCEPT !.focus = @ + 1, !.ui = {}]
           e == [jj EXCEPT !.crev = @ + 1, !.trev = jj.crev + 1,
                           !.cvis = Empty, !.tvis = Empty, !.ui = {}]
<1>1. c \in Journals /\ c.active = jj.active
  BY CancelAllKeeps DEF Settled, JournalOK
<1>2. JournalOK(d) /\ d.cvis = jj.cvis /\ d.active = jj.active
  BY Counters, ResetValues DEF JournalOK, Journals
<1>3. JournalOK(e) /\ e.active = jj.active
  BY Counters, ResetValues, JournalAssumption DEF JournalOK, Journals, JournalAssumption
<1> HIDE DEF c, d, e
<1>4. FocusChanged(jj) = CancelAll(d) /\ CompositionTerminated(jj) = CancelAll(e)
  BY DEF FocusChanged, CompositionTerminated, d, e
<1>5. /\ Activate(jj) = [c EXCEPT
           !.active = TRUE, !.activation = @ + 1, !.focus = @ + 1,
           !.context = NoContext, !.crev = 0, !.trev = 0,
           !.cvis = Empty, !.tvis = Empty, !.ui = {}]
      /\ AbandonProjection(jj) = [c EXCEPT !.crev = @ + 1, !.trev = c.crev + 1,
                !.cvis = Empty, !.tvis = Empty, !.ui = {}]
  BY DEF Activate, AbandonProjection, c
<1> QED
  BY <1>1, <1>2, <1>3, <1>4, <1>5, CancelAllKeeps DEF Journals

(* Another document than the one observed before cancels everything; the    *)
(* first one of an activation leaves what is shown.                         *)
LEMMA ObserveKeeps ==
  ASSUME NEW jj, JournalGood(jj), NEW c \in Contexts
  PROVE  LET k == ObserveContext(jj, c)
         IN  /\ Shortens(jj, k) /\ k.active = jj.active
             /\ jj.context \in {c, NoContext} => k.cvis = jj.cvis /\ k.ops = jj.ops
<1> DEFINE k == ObserveContext(jj, c)
<1>1. JournalGood(k)
  BY ObserveContextSucceeds DEF JournalGood, Succeeds
<1>2. CASE jj.context = c
  <2>1. ObserveContext(jj, c) = jj
    BY <1>2, JournalAssumption DEF ObserveContext, JournalAssumption
  <2> QED
    BY <1>2, <2>1, SameShortens
<1>3. CASE jj.context # c /\ jj.context = NoContext
  <2>1. k = [jj EXCEPT !.gen = @ + 1, !.context = c]
    BY <1>3 DEF ObserveContext
  <2>2. k.ops = jj.ops /\ k.nextId = jj.nextId /\ k.active = jj.active /\ k.cvis = jj.cvis
    BY <2>1 DEF JournalGood, JournalOK, Journals
  <2> QED
    BY <1>1, <2>2 DEF Shortens
<1>4. CASE jj.context # c /\ jj.context # NoContext
  <2> DEFINE d == CancelAll(jj)
  <2>1. Settled(d) /\ d.nextId = jj.nextId /\ d.active = jj.active
    BY CancelAllKeeps DEF JournalGood
  <2>2. k = [d EXCEPT
            !.gen = @ + 1, !.context = c, !.crev = 0, !.trev = 0,
            !.cvis = Empty, !.tvis = Empty, !.ui = {}]
    BY <1>4 DEF ObserveContext
  <2>3. k.ops = << >> /\ k.nextId = jj.nextId /\ k.active = jj.active
    BY <2>1, <2>2 DEF Settled, JournalOK, Journals
  <2>4. Shortens(jj, k)
    BY <1>1, <2>3 DEF Shortens
  <2> QED
    BY <1>4, <2>3, <2>4
<1> QED
  BY <1>2, <1>3, <1>4

LEMMA ClearLeaseKeeps ==
  ASSUME NEW jj, JournalGood(jj)
  PROVE  LET k == ClearLease(jj)
         IN  /\ JournalGood(k) /\ k.nextId = jj.nextId /\ k.ops = jj.ops
             /\ k.cvis = jj.cvis /\ k.active = jj.active
<1>1. JournalGood(ClearLease(jj))
  BY ClearLeaseSucceeds DEF JournalGood, Succeeds
<1> QED
  BY <1>1 DEF ClearLease, JournalGood, JournalOK, Journals

(* What is reserved is queued last, with the next id.                       *)
LEMMA ReserveKeeps ==
  ASSUME NEW jj, JournalGood(jj), NEW c \in Contexts, CanReserve(jj, c)
  PROVE  LET k == Reserve(jj)
         IN  /\ JournalGood(k) /\ k.nextId = jj.nextId + 1
             /\ k.cvis = jj.cvis /\ k.tvis = jj.tvis /\ k.active = jj.active
             /\ Len(k.ops) = Len(jj.ops) + 1
             /\ \A n \in 1..Len(jj.ops) :
                  k.ops[n] = jj.ops[n] /\ k.ops[n].phase # "Reserved"
             /\ k.ops[Len(k.ops)].id = jj.nextId
             /\ k.ops[Len(k.ops)].phase = "Reserved"
             /\ CanCancelReservation(k, jj.nextId)
             /\ CanAttach(k, jj.nextId, jj.tvis)
<1> DEFINE op == [id |-> jj.nextId, epoch |-> EpochNow(jj),
                  phase |-> "Reserved", base |-> jj.trev,
                  result |-> jj.trev, writes |-> FALSE,
                  before |-> jj.tvis, after |-> jj.tvis]
           k == Reserve(jj)
<1>1. JournalGood(k)
  BY ReserveSucceeds DEF JournalGood, Succeeds
<1>2. /\ k.nextId = jj.nextId + 1 /\ k.ops = Append(jj.ops, op)
      /\ k.cvis = jj.cvis /\ k.tvis = jj.tvis /\ k.active = jj.active
      /\ EpochNow(k) = EpochNow(jj)
  BY DEF Reserve, JournalGood, JournalOK, Journals, EpochNow
<1>3. op.id = jj.nextId /\ op.phase = "Reserved" /\ op.epoch = EpochNow(jj)
  OBVIOUS
<1>4. jj.ops \in Seq(Operations) /\ Len(jj.ops) \in Nat
  BY QueueTypes DEF JournalGood
<1> HIDE DEF op, k
<1>5. /\ Len(k.ops) = Len(jj.ops) + 1 /\ k.ops[Len(jj.ops) + 1] = op
      /\ \A n \in 1..Len(jj.ops) : k.ops[n] = jj.ops[n]
  BY <1>2, <1>4
<1>6. \A n \in 1..Len(jj.ops) : jj.ops[n].phase # "Reserved"
  BY DEF CanReserve, HasReservation
<1>7. CanCancelReservation(k, jj.nextId) /\ CanAttach(k, jj.nextId, jj.tvis)
  BY <1>2, <1>3, <1>4, <1>5 DEF CanCancelReservation, CanAttach
<1> QED
  BY <1>1, <1>2, <1>3, <1>4, <1>5, <1>6, <1>7 DEF k

(* Giving the reservation back leaves the queue as it was before.           *)
LEMMA CancelReservationKeeps ==
  ASSUME NEW jj, JournalGood(jj), NEW id \in Nat, CanCancelReservation(jj, id)
  PROVE  LET k == CancelReservation(jj, id)
         IN  Shortens(jj, k) /\ k.cvis = jj.cvis /\ k.active = jj.active
<1> DEFINE n == Len(jj.ops)
           ops == [i \in 1..n - 1 |-> jj.ops[i]]
           k == CancelReservation(jj, id)
<1>1. JournalGood(k)
  BY CancelReservationSucceeds DEF JournalGood, Succeeds
<1>2. n \in Nat
  BY QueueTypes DEF JournalGood
<1>3. /\ n \in 1..n
      /\ \A i \in 1..n :
           jj.ops[i].id = id /\ jj.ops[i].phase = "Reserved" <=> i = n
  BY <1>2 DEF CanCancelReservation, JournalGood, JournalInv, ReservedLast, IdsIncrease
<1>4. n = CHOOSE i \in 1..Len(jj.ops) :
              jj.ops[i].id = id /\ jj.ops[i].phase = "Reserved"
  BY <1>3
<1>5. ops = [i \in 1..Len(jj.ops) - 1 |->
               IF i < n THEN jj.ops[i] ELSE jj.ops[i + 1]]
  BY <1>2, <1>3
<1>6. k = [jj EXCEPT !.ops = ops,
             !.terminals = RecordTerminals(@, <<Outcome(jj.ops[n], "Cancelled")>>)]
  <2> HIDE DEF n
  <2> QED
    BY <1>4, <1>5 DEF CancelReservation
<1> HIDE DEF n, ops, k
<1>7. k.ops = ops /\ k.cvis = jj.cvis /\ k.active = jj.active /\ k.nextId = jj.nextId
  BY <1>6 DEF JournalGood, JournalOK, Journals
<1>8. Len(k.ops) \in Nat /\ DOMAIN k.ops = 1..Len(k.ops)
  BY <1>1, QueueTypes DEF JournalGood
<1>9. \A i \in 1..Len(k.ops) : i \in 1..n - 1 /\ k.ops[i] = jj.ops[i]
  BY <1>7, <1>8 DEF ops
<1> QED
  BY <1>1, <1>2, <1>7, <1>9 DEF Shortens, n, k

(* An accepted answer turns the reservation into the plan it names.         *)
LEMMA AttachKeeps ==
  ASSUME NEW jj, JournalGood(jj), NEW c \in Contexts, CanReserve(jj, c),
         NEW writes \in BOOLEAN, NEW after \in Visible
  PROVE  LET k == Attach(Reserve(jj), jj.nextId, writes, jj.tvis, after)
         IN  /\ JournalGood(k) /\ k.nextId = jj.nextId + 1
             /\ k.cvis = jj.cvis /\ k.active = jj.active
             /\ Len(k.ops) = Len(jj.ops) + 1
             /\ \A n \in 1..Len(jj.ops) : k.ops[n] = jj.ops[n]
             /\ LET op == k.ops[Len(k.ops)]
                IN  /\ op.id = jj.nextId /\ op.phase = "Ready"
                    /\ op.writes = writes /\ op.before = jj.tvis /\ op.after = after
<1> DEFINE r == Reserve(jj)
           id == jj.nextId
           before == jj.tvis
           n == Len(r.ops)
           result == IF writes THEN r.trev + 1 ELSE r.trev
           op == [r.ops[n] EXCEPT !.phase = "Ready", !.base = r.trev,
                                  !.result = result, !.writes = writes,
                                  !.before = before, !.after = after]
           ops == [r.ops EXCEPT ![n] = op]
           k == Attach(r, id, writes, before, after)
<1>1. /\ JournalGood(r) /\ r.nextId = jj.nextId + 1
      /\ r.cvis = jj.cvis /\ r.active = jj.active
      /\ Len(r.ops) = Len(jj.ops) + 1
      /\ \A i \in 1..Len(jj.ops) : r.ops[i] = jj.ops[i]
      /\ r.ops[n].id = id /\ CanAttach(r, id, before)
  BY ReserveKeeps
<1>2. id \in Nat /\ before \in Visible /\ Len(jj.ops) \in Nat
  BY QueueTypes DEF JournalGood, JournalOK, Journals
<1> HIDE DEF r, id, before
<1>3. JournalGood(k)
  BY <1>1, <1>2, AttachSucceeds DEF JournalGood, Succeeds
<1>4. r.ops \in Seq(Operations) /\ n \in Nat /\ n \in 1..n /\ r.ops[n] \in Operations
  BY <1>1, <1>2, QueueTypes DEF JournalGood
<1>5. \A i \in 1..n : r.ops[i].id = id => i = n
  <2>1. JournalOK(r) /\ \A i, m \in 1..n : i < m => r.ops[i].id < r.ops[m].id
    BY <1>1 DEF JournalGood, JournalInv, IdsIncrease
  <2>2. \A i \in 1..n : r.ops[i].id \in Nat
    BY <2>1, QueueTypes
  <2> HIDE DEF n
  <2> QED
    BY <1>1, <1>4, <2>1, <2>2
<1>6. k = [r EXCEPT !.ops = ops, !.trev = result, !.tvis = after]
  <2>1. n = CHOOSE i \in 1..Len(r.ops) : r.ops[i].id = id
    BY <1>1, <1>4, <1>5
  <2> HIDE DEF n
  <2> QED
    BY <2>1 DEF Attach
<1>7. /\ op.id = id /\ op.phase = "Ready" /\ op.writes = writes
      /\ op.before = before /\ op.after = after
  BY <1>1, <1>4 DEF Operations
<1> HIDE DEF op, n, result
<1>8. Len(ops) = n /\ ops[n] = op /\ \A i \in 1..n : i # n => ops[i] = r.ops[i]
  BY <1>4 DEF n
<1> HIDE DEF ops, k
<1>9. k.ops = ops /\ k.nextId = r.nextId /\ k.cvis = r.cvis /\ k.active = r.active
  BY <1>1, <1>6 DEF JournalGood, JournalOK, Journals
<1>10. \A i \in 1..Len(jj.ops) : k.ops[i] = jj.ops[i]
  BY <1>1, <1>2, <1>4, <1>8, <1>9 DEF n
<1>11. Len(k.ops) = Len(jj.ops) + 1 /\ k.ops[Len(k.ops)] = op
  BY <1>1, <1>8, <1>9 DEF n
<1> QED
  BY <1>1, <1>3, <1>7, <1>9, <1>10, <1>11 DEF k, r, id, before

(* Applying the head commits its projection and leaves the rest.            *)
LEMMA ApplyHeadKeeps ==
  ASSUME NEW jj, JournalGood(jj), jj.ops # << >>
  PROVE  LET k == ApplyHead(jj)
         IN  /\ Shortens(jj, k) /\ k.active = jj.active
             /\ k.cvis = jj.ops[1].after /\ k.ops = Tail(jj.ops)
             /\ Queued(jj) \subseteq Queued(k) \union {jj.ops[1].id}
             /\ k.ops # << >> => Last(k.ops) = Last(jj.ops)
             /\ k.ops = << >> => Last(jj.ops) = jj.ops[1]
<1> DEFINE k == ApplyHead(jj)
           n == Len(jj.ops)
<1>1. JournalGood(k)
  BY ApplyHeadSucceeds DEF JournalGood, Succeeds
<1>2. jj.ops \in Seq(Operations) /\ n \in Nat /\ n > 0 /\ Head(jj.ops) = jj.ops[1]
  BY QueueTypes DEF JournalGood
<1>3. /\ k.nextId = jj.nextId /\ k.active = jj.active
      /\ k.cvis = Head(jj.ops).after /\ k.ops = Tail(jj.ops)
  BY DEF ApplyHead, JournalGood, JournalOK, Journals
<1>4. /\ Len(k.ops) = n - 1 /\ DOMAIN k.ops = 1..n - 1 /\ DOMAIN jj.ops = 1..n
      /\ \A i \in 1..n - 1 : k.ops[i] = jj.ops[i + 1] /\ i + 1 \in 1..n
  BY <1>2, <1>3
<1> HIDE DEF k, n
<1>5. Shortens(jj, k)
  BY <1>1, <1>3, <1>4 DEF Shortens, n
<1>6. Queued(jj) \subseteq Queued(k) \union {jj.ops[1].id}
  <2> SUFFICES ASSUME NEW i \in 1..n, i # 1
               PROVE  jj.ops[i].id \in Queued(k)
    BY <1>4 DEF Queued
  <2>1. i - 1 \in 1..n - 1 /\ k.ops[i - 1] = jj.ops[i]
    BY <1>2, <1>4
  <2> QED
    BY <1>4, <2>1 DEF Queued
<1>7. k.ops # << >> => Last(k.ops) = Last(jj.ops)
  BY <1>2, <1>3, <1>4 DEF Last, n
<1>8. k.ops = << >> => Last(jj.ops) = jj.ops[1]
  BY <1>2, <1>4 DEF Last, n
<1> QED
  BY <1>2, <1>3, <1>5, <1>6, <1>7, <1>8 DEF k

(* The request only marks the head.                                         *)
LEMMA BeginHeadKeeps ==
  ASSUME NEW jj, JournalGood(jj), CanBegin(jj)
  PROVE  LET k == BeginHead(jj)
         IN  /\ JournalGood(k) /\ k.nextId = jj.nextId
             /\ k.cvis = jj.cvis /\ k.active = jj.active
             /\ Len(k.ops) = Len(jj.ops) /\ Len(jj.ops) >= 1
             /\ \A n \in 1..Len(jj.ops) :
                  /\ k.ops[n].id = jj.ops[n].id /\ k.ops[n].writes = jj.ops[n].writes
                  /\ k.ops[n].before = jj.ops[n].before
                  /\ k.ops[n].after = jj.ops[n].after
                  /\ jj.ops[n].phase # "Reserved" => k.ops[n].phase # "Reserved"
                  /\ k.ops[n].phase # "Reserved" => jj.ops[n].phase # "Reserved"
             /\ jj.ops[1].phase = "Ready" /\ Head(jj.ops) = jj.ops[1]
             /\ HeadTicket(jj) \in Tickets /\ HeadTicket(jj).id = jj.ops[1].id
<1> DEFINE k == BeginHead(jj)
           n == Len(jj.ops)
           op == [jj.ops[1] EXCEPT !.phase = "Requested"]
           ops == [jj.ops EXCEPT ![1] = op]
<1>1. JournalGood(k) /\ HeadTicket(jj) \in Tickets /\ k.nextId = jj.nextId
  BY BeginHeadSucceeds DEF JournalGood, Succeeds
<1>2. /\ jj.ops \in Seq(Operations) /\ n \in Nat /\ n >= 1 /\ Head(jj.ops) = jj.ops[1]
      /\ jj.ops[1] \in Operations /\ jj.ops[1].phase = "Ready"
  BY QueueTypes DEF JournalGood, CanBegin
<1>3. k.ops = ops /\ k.cvis = jj.cvis /\ k.active = jj.active
  BY DEF BeginHead, JournalGood, JournalOK, Journals
<1>4. /\ op.id = jj.ops[1].id /\ op.writes = jj.ops[1].writes
      /\ op.before = jj.ops[1].before /\ op.after = jj.ops[1].after
      /\ op.phase = "Requested"
  BY <1>2 DEF Operations
<1> HIDE DEF op
<1>5. Len(ops) = n /\ ops[1] = op /\ \A i \in 1..n : i # 1 => ops[i] = jj.ops[i]
  BY <1>2
<1>6. HeadTicket(jj).id = jj.ops[1].id
  BY <1>2 DEF HeadTicket
<1> HIDE DEF ops, k
<1>7. \A i \in 1..n :
        /\ k.ops[i].id = jj.ops[i].id /\ k.ops[i].writes = jj.ops[i].writes
        /\ k.ops[i].before = jj.ops[i].before
        /\ k.ops[i].after = jj.ops[i].after
        /\ jj.ops[i].phase # "Reserved" => k.ops[i].phase # "Reserved"
        /\ k.ops[i].phase # "Reserved" => jj.ops[i].phase # "Reserved"
  BY <1>2, <1>3, <1>4, <1>5
<1> QED
  BY <1>1, <1>2, <1>3, <1>5, <1>6, <1>7 DEF k

-----------------------------------------------------------------------------
(* What a settlement does to the service, the journal apart.                *)

(* r waits for nothing that s did not wait for, and tells the engine of no  *)
(* applied undo.                                                            *)
Settles(s, r) ==
  /\ r \in Services
  /\ r.pay = s.pay /\ r.nextFlight = s.nextFlight
  /\ r.token \in {0, s.token} /\ r.undo \in {0, s.undo}
  /\ \A i \in Ids : r.told[i] = "Applied" => s.told[i] = "Applied"
  /\ \/ r.phase = "Idle"
     \/ r.phase = s.phase /\ ("focus" \in s.work => "focus" \in r.work)

(* The composition is as it was, or its flight is over and what it shows is *)
(* not taken for known.                                                     *)
Keeps(s, r) ==
  \/ /\ r.flight = s.flight /\ r.known = s.known
     /\ r.text = s.text /\ r.ctx = s.ctx
  \/ /\ r.flight = 0
     /\ r.text = Empty \/ (~r.known /\ r.text = s.text /\ r.ctx = s.ctx)

LEMMA SettlesTwice ==
  ASSUME NEW s, NEW t, NEW r, Settles(s, t), Settles(t, r)
  PROVE  Settles(s, r)
BY DEF Settles

LEMMA KeepsTwice ==
  ASSUME NEW s, NEW t, NEW r, Keeps(s, t), Keeps(t, r)
  PROVE  Keeps(s, r)
BY DEF Keeps

LEMMA SettlesNothing ==
  ASSUME NEW s \in Services
  PROVE  Settles(s, s) /\ Keeps(s, s)
BY DEF Settles, Keeps, Services

(* A journal is replaced by another.                                        *)
LEMMA WithJournal ==
  ASSUME NEW s \in Services, NEW k \in Journals
  PROVE  LET r == [s EXCEPT !.j = k]
         IN  /\ Settles(s, r) /\ Keeps(s, r) /\ r.j = k
             /\ r.token = s.token /\ r.undo = s.undo /\ r.phase = s.phase
             /\ r.flight = s.flight /\ r.known = s.known /\ r.reconcile = s.reconcile
             /\ r.text = s.text /\ r.ctx = s.ctx /\ r.work = s.work
             /\ r.nextToken = s.nextToken
BY DEF Settles, Keeps, Services

LEMMA InvalidateFlightSettles ==
  ASSUME NEW s \in Services
  PROVE  LET r == InvalidateFlight(s)
         IN  /\ Settles(s, r) /\ r.j = s.j /\ r.flight = 0
             /\ r.known = s.known /\ r.text = s.text /\ r.ctx = s.ctx
             /\ r.token = s.token /\ r.undo = s.undo /\ r.phase = s.phase
             /\ r.work = s.work /\ r.reconcile = s.reconcile
BY DEF Settles, Services, InvalidateFlight

LEMMA InvalidateAsUnknownSettles ==
  ASSUME NEW s \in Services
  PROVE  LET r == InvalidateAsUnknown(s)
         IN  /\ Settles(s, r) /\ Keeps(s, r) /\ r.j = s.j /\ r.flight = 0
             /\ r.text = s.text
             /\ r.token = s.token /\ r.undo = s.undo /\ r.phase = s.phase
<1> DEFINE t == InvalidateFlight(s)
<1>1. t \in Services /\ t.known = s.known /\ t.flight = 0
      /\ t.pay = s.pay /\ t.nextFlight = s.nextFlight /\ t.told = s.told
      /\ t.j = s.j /\ t.text = s.text /\ t.ctx = s.ctx
      /\ t.token = s.token /\ t.undo = s.undo /\ t.phase = s.phase /\ t.work = s.work
  BY DEF InvalidateFlight, Services
<1>2. InvalidateAsUnknown(s) = [t EXCEPT !.known = t.known /\ s.flight = 0]
  BY DEF InvalidateAsUnknown
<1> DEFINE b == t.known /\ s.flight = 0
<1>3. b \in BOOLEAN /\ (s.flight # 0 => b = FALSE) /\ (s.flight = 0 => b = s.known)
  BY <1>1 DEF Services
<1> HIDE DEF t
<1>4. InvalidateAsUnknown(s) = [t EXCEPT !.known = b]
  BY <1>2
<1> HIDE DEF b
<1>5. /\ [t EXCEPT !.known = b] \in Services /\ [t EXCEPT !.known = b].known = b
      /\ \A r : r = [t EXCEPT !.known = b] =>
           /\ r.pay = t.pay /\ r.nextFlight = t.nextFlight /\ r.told = t.told
           /\ r.j = t.j /\ r.text = t.text /\ r.ctx = t.ctx /\ r.flight = t.flight
           /\ r.token = t.token /\ r.undo = t.undo /\ r.phase = t.phase
           /\ r.work = t.work
  BY <1>1, <1>3 DEF Services
<1> QED
  BY <1>1, <1>3, <1>4, <1>5 DEF Settles, Keeps

LEMMA FinishFocusSettles ==
  ASSUME NEW s \in Services
  PROVE  LET r == FinishFocus(s)
         IN  /\ Settles(s, r) /\ Keeps(s, r) /\ r.j = s.j /\ r.phase = "Idle"
             /\ r.flight = s.flight /\ r.known = s.known
             /\ r.text = s.text /\ r.ctx = s.ctx
             /\ r.token = s.token /\ r.undo = s.undo /\ r.told = s.told
BY DEF Settles, Keeps, Services, FinishFocus, FocusPhases

LEMMA ForgetSettles ==
  ASSUME NEW s \in Services
  PROVE  LET r == Forget(s)
         IN  /\ Settles(s, r) /\ r.j = s.j /\ r.phase = "Idle"
             /\ r.flight = 0 /\ r.text = Empty
             /\ r.token = s.token /\ r.undo = s.undo
             /\ \A any : Keeps(any, r)
<1> DEFINE t == InvalidateFlight(s)
           u == [t EXCEPT !.text = Empty, !.ctx = NoContext, !.known = TRUE]
<1>1. t \in Services /\ Settles(s, t) /\ t.j = s.j /\ t.flight = 0
      /\ t.token = s.token /\ t.undo = s.undo
  BY InvalidateFlightSettles DEF Settles
<1> HIDE DEF t
<1>2. Settles(t, u) /\ u.j = t.j /\ u.flight = 0 /\ u.text = Empty
      /\ u.token = t.token /\ u.undo = t.undo
  BY <1>1, JournalAssumption DEF Settles, Services, JournalAssumption
<1>3. Forget(s) = FinishFocus(u)
  BY DEF Forget, t
<1> HIDE DEF u
<1>4. /\ Settles(u, Forget(s)) /\ Forget(s).j = u.j /\ Forget(s).phase = "Idle"
      /\ Forget(s).flight = u.flight /\ Forget(s).text = u.text
      /\ Forget(s).token = u.token /\ Forget(s).undo = u.undo
  BY <1>2, <1>3, FinishFocusSettles DEF Settles
<1>5. Settles(s, Forget(s))
  BY <1>1, <1>2, <1>4, SettlesTwice
<1> QED
  BY <1>1, <1>2, <1>4, <1>5 DEF Keeps

LEMMA FailWriteSettles ==
  ASSUME NEW s \in Services, NEW flight \in Nat, NEW c \in Contexts
  PROVE  LET r == FailWrite(s, flight, c)
         IN  /\ Settles(s, r) /\ Keeps(s, r) /\ r.j = s.j
             /\ flight # 0 => r.flight # flight
             /\ r.token = s.token /\ r.undo = s.undo /\ r.phase = s.phase
BY JournalAssumption DEF Settles, Keeps, Services, FailWrite, JournalAssumption

LEMMA DisconnectSettles ==
  ASSUME NEW s \in Services
  PROVE  LET r == Disconnect(s)
         IN  /\ Settles(s, r) /\ Keeps(s, r) /\ r.j = s.j /\ r.undo = 0
             /\ r.flight = s.flight /\ r.known = s.known
             /\ r.text = s.text /\ r.ctx = s.ctx /\ r.reconcile = s.reconcile
             /\ r.token = s.token /\ r.phase = s.phase /\ r.work = s.work
             /\ r.nextToken = s.nextToken
<1> DEFINE told == IF s.undo = 0 THEN s.told ELSE [s.told EXCEPT ![s.undo] = "Lost"]
<1>1. told \in [Ids -> UndoTold] /\ \A i \in Ids : told[i] = "Applied" => s.told[i] = "Applied"
  BY DEF Services, UndoTold
<1>2. Disconnect(s) = [s EXCEPT !.reading = Empty, !.undo = 0, !.told = told]
  BY DEF Disconnect
<1> HIDE DEF told
<1> DEFINE r == [s EXCEPT !.reading = Empty, !.undo = 0, !.told = told]
<1>3. r \in Services
  BY <1>1, JournalAssumption DEF Services, JournalAssumption
<1>4. /\ r.pay = s.pay /\ r.nextFlight = s.nextFlight /\ r.told = told /\ r.j = s.j
      /\ r.flight = s.flight /\ r.known = s.known /\ r.nextToken = s.nextToken
      /\ r.text = s.text /\ r.ctx = s.ctx /\ r.reconcile = s.reconcile
      /\ r.token = s.token /\ r.phase = s.phase /\ r.work = s.work /\ r.undo = 0
  BY DEF Services
<1> HIDE DEF r
<1>5. Settles(s, r) /\ Keeps(s, r)
  BY <1>1, <1>3, <1>4 DEF Settles, Keeps
<1> QED
  BY <1>2, <1>4, <1>5 DEF r

LEMMA SettleUndoSettles ==
  ASSUME NEW s \in Services, NEW outcome \in {"Rejected", "Unknown"}, NEW answered
  PROVE  LET r == SettleUndo(s, outcome, answered)
         IN  /\ Settles(s, r) /\ Keeps(s, r) /\ r.j = s.j /\ r.undo = 0
             /\ r.flight = s.flight /\ r.known = s.known
             /\ r.text = s.text /\ r.ctx = s.ctx /\ r.reconcile = s.reconcile
             /\ r.token = s.token /\ r.phase = s.phase /\ r.work = s.work
<1>1. CASE s.undo # 0 /\ answered
  <2> DEFINE told == [s.told EXCEPT ![s.undo] = outcome]
  <2>1. told \in [Ids -> UndoTold] /\ \A i \in Ids : told[i] = "Applied" => s.told[i] = "Applied"
    BY <1>1 DEF Services, UndoTold
  <2>2. SettleUndo(s, outcome, answered)
          = [s EXCEPT !.told = told, !.undo = 0, !.reading = Empty]
    BY <1>1 DEF SettleUndo, Services
  <2> HIDE DEF told
  <2> DEFINE r == [s EXCEPT !.told = told, !.undo = 0, !.reading = Empty]
  <2>3. r \in Services
    BY <2>1, JournalAssumption DEF Services, JournalAssumption
  <2>4. /\ r.pay = s.pay /\ r.nextFlight = s.nextFlight /\ r.told = told /\ r.j = s.j
        /\ r.flight = s.flight /\ r.known = s.known
        /\ r.text = s.text /\ r.ctx = s.ctx /\ r.reconcile = s.reconcile
        /\ r.token = s.token /\ r.phase = s.phase /\ r.work = s.work /\ r.undo = 0
    BY DEF Services
  <2> HIDE DEF r
  <2>5. Settles(s, r) /\ Keeps(s, r)
    BY <2>1, <2>3, <2>4 DEF Settles, Keeps
  <2> QED
    BY <2>2, <2>4, <2>5 DEF r
<1>2. CASE ~(s.undo # 0 /\ answered)
  BY <1>2, DisconnectSettles DEF SettleUndo
<1> QED
  BY <1>1, <1>2

(* A recovery is over when one of what completed was its finalizer.         *)
LEMMA FinishRecoverySettles ==
  ASSUME NEW s \in Services, NEW ids
  PROVE  LET r == FinishRecovery(s, ids)
         IN  /\ Settles(s, r) /\ Keeps(s, r) /\ r.j = s.j
             /\ r.flight = s.flight /\ r.known = s.known
             /\ r.text = s.text /\ r.ctx = s.ctx /\ r.reconcile = s.reconcile
             /\ r.undo = s.undo /\ r.phase = s.phase /\ r.work = s.work
             /\ r.token # 0 => \A i \in ids : s.pay[i].token # r.token
<1>1. CASE \E i \in ids : s.pay[i].token # 0 /\ s.pay[i].token = s.token
  <2>1. FinishRecovery(s, ids) = [s EXCEPT !.token = 0]
    BY <1>1 DEF FinishRecovery
  <2> QED
    BY <2>1 DEF Settles, Keeps, Services
<1>2. CASE ~\E i \in ids : s.pay[i].token # 0 /\ s.pay[i].token = s.token
  <2>1. FinishRecovery(s, ids) = s
    BY <1>2 DEF FinishRecovery
  <2> QED
    BY <1>2, <2>1, SettlesNothing
<1> QED
  BY <1>1, <1>2

(* The queue and the committed projection are the same.                     *)
SameQueue(jj, k) ==
  /\ JournalGood(k) /\ k.nextId = jj.nextId /\ k.ops = jj.ops
  /\ k.cvis = jj.cvis /\ k.active = jj.active

LEMMA TerminalizeSettles ==
  ASSUME NEW s \in Services, JournalGood(s.j), NEW reset \in BOOLEAN
  PROVE  LET r == Terminalize(s, reset)
         IN  /\ Settles(s, r) /\ Keeps(s, r) /\ SameQueue(s.j, r.j)
             /\ r.token = s.token /\ r.phase = s.phase /\ r.reconcile = s.reconcile
             /\ r.known = s.known /\ reset => r.undo = 0
<1> DEFINE k == ClearLease(s.j)
           t == [s EXCEPT !.j = k]
<1>1. SameQueue(s.j, k) /\ k \in Journals
  BY ClearLeaseKeeps DEF SameQueue, JournalGood, JournalOK
<1>2. Terminalize(s, reset) = IF reset THEN Disconnect(t) ELSE t
  BY DEF Terminalize
<1> HIDE DEF k
<1>3. /\ Settles(s, t) /\ Keeps(s, t) /\ t.j = k /\ t \in Services
      /\ t.token = s.token /\ t.phase = s.phase /\ t.reconcile = s.reconcile
      /\ t.known = s.known
  BY <1>1, WithJournal DEF Settles
<1> HIDE DEF t
<1>4. CASE reset
  <2>1. /\ Settles(t, Disconnect(t)) /\ Keeps(t, Disconnect(t)) /\ Disconnect(t).j = t.j
        /\ Disconnect(t).token = t.token /\ Disconnect(t).phase = t.phase
        /\ Disconnect(t).undo = 0 /\ Disconnect(t).reconcile = t.reconcile
        /\ Disconnect(t).known = t.known
    BY <1>3, DisconnectSettles
  <2>2. Settles(s, Disconnect(t)) /\ Keeps(s, Disconnect(t))
    BY <1>3, <2>1, SettlesTwice, KeepsTwice
  <2> QED
    BY <1>1, <1>2, <1>3, <1>4, <2>1, <2>2
<1>5. CASE ~reset
  BY <1>1, <1>2, <1>3, <1>5
<1> QED
  BY <1>4, <1>5

(* However it goes, an engine commit whose finalizer may be lost is over    *)
(* and no recovery waits for what completed.                                *)
LEMMA SettleAfterUndoSettles ==
  ASSUME NEW s \in Services, JournalGood(s.j), NEW ids, NEW reset \in BOOLEAN
  PROVE  LET r == SettleAfterUndo(s, ids, reset)
         IN  /\ Settles(s, r) /\ Keeps(s, r) /\ SameQueue(s.j, r.j)
             /\ r.phase # "EngineCommitStarted"
             /\ r.token # 0 => \A i \in ids : s.pay[i].token # r.token
<1> DEFINE t == FinishRecovery(s, ids)
<1>1. /\ Settles(s, t) /\ Keeps(s, t) /\ t.j = s.j /\ t \in Services /\ t.pay = s.pay
      /\ t.token # 0 => \A i \in ids : s.pay[i].token # t.token
  BY FinishRecoverySettles DEF Settles
<1>2. SettleAfterUndo(s, ids, reset) =
        IF t.phase = "EngineCommitStarted" THEN Terminalize(Forget(t), TRUE)
        ELSE IF ids # {} THEN Terminalize(t, reset)
        ELSE IF reset THEN Disconnect(t) ELSE t
  BY DEF SettleAfterUndo
<1> HIDE DEF t
<1> DEFINE Good(r) == /\ Settles(t, r) /\ Keeps(t, r) /\ SameQueue(t.j, r.j)
                      /\ r.phase # "EngineCommitStarted"
<1>3. ASSUME NEW r, Good(r)
      PROVE  /\ Settles(s, r) /\ Keeps(s, r) /\ SameQueue(s.j, r.j)
             /\ r.phase # "EngineCommitStarted"
             /\ r.token # 0 => \A i \in ids : s.pay[i].token # r.token
  BY <1>1, <1>3, SettlesTwice, KeepsTwice DEF Settles
<1>4. CASE t.phase = "EngineCommitStarted"
  <2> DEFINE u == Forget(t)
  <2>1. Settles(t, u) /\ u.j = t.j /\ u.phase = "Idle" /\ Keeps(t, u) /\ u \in Services
    BY <1>1, ForgetSettles DEF Settles
  <2> HIDE DEF u
  <2>2. TRUE \in BOOLEAN
    OBVIOUS
  <2>3. /\ Settles(u, Terminalize(u, TRUE)) /\ Keeps(u, Terminalize(u, TRUE))
        /\ SameQueue(u.j, Terminalize(u, TRUE).j) /\ Terminalize(u, TRUE).phase = "Idle"
    BY <1>1, <2>1, <2>2, TerminalizeSettles
  <2>4. Good(Terminalize(u, TRUE))
    BY <2>1, <2>3, SettlesTwice, KeepsTwice
  <2> HIDE DEF Good
  <2> QED
    BY <1>2, <1>3, <1>4, <2>4 DEF u
<1>5. CASE t.phase # "EngineCommitStarted" /\ ids # {}
  <2>1. Good(Terminalize(t, reset))
    BY <1>1, <1>5, TerminalizeSettles
  <2> HIDE DEF Good
  <2> QED
    BY <1>2, <1>3, <1>5, <2>1
<1>6. CASE t.phase # "EngineCommitStarted" /\ ids = {}
  <2>1. SameQueue(t.j, t.j)
    BY <1>1 DEF SameQueue
  <2>2. Good(t)
    BY <1>1, <1>6, <2>1, SettlesNothing
  <2>3. Good(Disconnect(t))
    BY <1>1, <1>6, <2>1, DisconnectSettles
  <2> HIDE DEF Good
  <2> QED
    BY <1>2, <1>3, <1>6, <2>2, <2>3
<1> QED
  BY <1>4, <1>5, <1>6

LEMMA SettleSettles ==
  ASSUME NEW s \in Services, JournalGood(s.j), NEW ids, NEW reset \in BOOLEAN,
         NEW outcome \in {"Rejected", "Unknown"}, NEW answered
  PROVE  LET r == Settle(s, ids, reset, outcome, answered)
         IN  /\ Settles(s, r) /\ Keeps(s, r) /\ SameQueue(s.j, r.j)
             /\ r.phase # "EngineCommitStarted"
             /\ r.token # 0 => \A i \in ids : s.pay[i].token # r.token
             /\ r.undo # 0 => ~HasUndo(s, ids)
<1> DEFINE u == IF HasUndo(s, ids) THEN SettleUndo(s, outcome, answered) ELSE s
<1>1. /\ Settles(s, u) /\ Keeps(s, u) /\ u.j = s.j /\ u \in Services /\ u.pay = s.pay
      /\ HasUndo(s, ids) => u.undo = 0
  BY SettleUndoSettles, SettlesNothing DEF Settles
<1>2. Settle(s, ids, reset, outcome, answered) = SettleAfterUndo(u, ids, reset)
  BY DEF Settle
<1> HIDE DEF u
<1> DEFINE r == SettleAfterUndo(u, ids, reset)
<1>3. /\ Settles(u, r) /\ Keeps(u, r) /\ SameQueue(u.j, r.j)
      /\ r.phase # "EngineCommitStarted"
      /\ r.token # 0 => \A i \in ids : u.pay[i].token # r.token
  BY <1>1, SettleAfterUndoSettles
<1> HIDE DEF r
<1>4. Settles(s, r) /\ Keeps(s, r)
  BY <1>1, <1>3, SettlesTwice, KeepsTwice
<1>5. r.undo # 0 => ~HasUndo(s, ids)
  BY <1>1, <1>3 DEF Settles
<1> QED
  BY <1>1, <1>2, <1>3, <1>4, <1>5 DEF r

-----------------------------------------------------------------------------
(* What settling keeps of the books.                                        *)

Books(s) == s \in Services /\ JournalGood(s.j) /\ PlansOK(s) /\ Owed(s, {})

LEMMA PlansShorten ==
  ASSUME NEW s \in Services, PlansOK(s), JournalGood(s.j),
         NEW r \in Services, r.pay = s.pay, Shortens(s.j, r.j)
  PROVE  PlansOK(r)
<1>1. DOMAIN r.j.ops = 1..Len(r.j.ops) /\ DOMAIN s.j.ops = 1..Len(s.j.ops)
  BY QueueTypes DEF Shortens, JournalGood
<1>2. \A k \in DOMAIN r.j.ops : \E m \in DOMAIN s.j.ops : r.j.ops[k] = s.j.ops[m]
  BY <1>1 DEF Shortens
<1>3. r.j.nextId = s.j.nextId
  BY DEF Shortens
<1> QED
  BY <1>2, <1>3 DEF PlansOK

(* Once what left the queue is settled, whatever is still waited for is of  *)
(* an operation still queued.                                               *)
LEMMA OwedSettled ==
  ASSUME NEW s \in Services, NEW r, NEW ids, Owed(s, ids), Settles(s, r),
         Queued(s.j) \subseteq Queued(r.j) \union ids,
         Queued(r.j) \subseteq Queued(s.j) \union ids,
         r.token # 0 => \A i \in ids : s.pay[i].token # r.token,
         r.undo # 0 => ~HasUndo(s, ids)
  PROVE  Owed(r, {})
<1>1. Queued(r.j) \union {} = Queued(r.j)
  OBVIOUS
<1>2. r.pay = s.pay /\ r.token \in {0, s.token} /\ r.undo \in {0, s.undo}
  BY DEF Settles
<1>3. r.token # 0 => \E i \in Queued(r.j) : r.pay[i].token = r.token
  BY <1>2 DEF Owed
<1>4. r.undo # 0 => r.undo \in Queued(r.j) /\ r.pay[r.undo].undo
  BY <1>2 DEF Owed, HasUndo
<1>5. \A i, k \in Queued(r.j) : r.pay[i].undo /\ r.pay[k].undo => i = k
  BY <1>2 DEF Owed
<1>6. r.phase = "DeferredQueued" => "focus" \in r.work
  BY DEF Owed, Settles
<1> QED
  BY <1>1, <1>3, <1>4, <1>5, <1>6 DEF Owed

(* A journal call followed by its settlement.                               *)
Planned(s) == s \in Services /\ JournalGood(s.j) /\ PlansOK(s)

LEMMA CancelSettles ==
  ASSUME NEW s, Planned(s), NEW k, Shortens(s.j, k), NEW reset \in BOOLEAN,
         NEW outcome \in {"Rejected", "Unknown"}, NEW answered
  PROVE  LET r == Cancel(s, k, reset, outcome, answered)
         IN  /\ Settles(s, r) /\ Keeps(s, r) /\ SameQueue(k, r.j)
             /\ Planned(r) /\ (Owed(s, {}) => Owed(r, {}))
             /\ r.phase # "EngineCommitStarted"
<1> DEFINE t == [s EXCEPT !.j = k]
           ids == Completed(s.j, k)
           r == Settle(t, ids, reset, outcome, answered)
<1>1. /\ s \in Services /\ JournalGood(s.j) /\ JournalGood(k) /\ k \in Journals
      /\ PlansOK(s)
  BY DEF Planned, Shortens, JournalGood, JournalOK
<1>2. Cancel(s, k, reset, outcome, answered) = r
  BY DEF Cancel
<1>3. /\ Settles(s, t) /\ Keeps(s, t) /\ t.j = k /\ t \in Services /\ t.pay = s.pay
      /\ t.token = s.token /\ t.undo = s.undo /\ t.phase = s.phase /\ t.work = s.work
  BY <1>1, WithJournal DEF Settles
<1>4. Queued(k) \subseteq Queued(s.j) /\ ids = Queued(s.j) \ Queued(k)
  BY <1>1, ShortensQueued DEF Completed
<1> HIDE DEF t, ids
<1>5. /\ Settles(t, r) /\ Keeps(t, r) /\ SameQueue(t.j, r.j)
      /\ r.phase # "EngineCommitStarted"
      /\ r.token # 0 => \A i \in ids : t.pay[i].token # r.token
      /\ r.undo # 0 => ~HasUndo(t, ids)
  BY <1>1, <1>3, SettleSettles
<1> HIDE DEF r
<1>6. Settles(s, r) /\ Keeps(s, r)
  BY <1>3, <1>5, SettlesTwice, KeepsTwice
<1>7. Owed(s, {}) => Owed(t, ids)
  BY <1>1, <1>3, <1>4 DEF Owed
<1>8. Queued(r.j) = Queued(k)
  BY <1>3, <1>5 DEF SameQueue, Queued
<1>9. Owed(s, {}) => Owed(r, {})
  <2>1. Queued(t.j) \subseteq Queued(r.j) \union ids
    BY <1>3, <1>8
  <2>2. Queued(r.j) \subseteq Queued(t.j) \union ids
    BY <1>3, <1>8
  <2> QED
    BY <1>3, <1>5, <1>7, <2>1, <2>2, OwedSettled
<1>10. PlansOK(r)
  <2>1. Shortens(s.j, r.j)
    BY <1>3, <1>5 DEF Shortens, SameQueue
  <2> QED
    BY <1>1, <1>6, <2>1, PlansShorten DEF Settles
<1> QED
  BY <1>2, <1>3, <1>5, <1>6, <1>9, <1>10 DEF Planned, SameQueue, Settles

LEMMA BooksPlanned ==
  ASSUME NEW s
  PROVE  Books(s) <=> Planned(s) /\ Owed(s, {})
BY DEF Books, Planned

LEMMA CancelBooks ==
  ASSUME NEW s, Books(s), NEW k, Shortens(s.j, k), NEW reset \in BOOLEAN,
         NEW outcome \in {"Rejected", "Unknown"}, NEW answered
  PROVE  LET r == Cancel(s, k, reset, outcome, answered)
         IN  /\ Settles(s, r) /\ Keeps(s, r) /\ SameQueue(k, r.j)
             /\ Books(r) /\ r.phase # "EngineCommitStarted"
BY CancelSettles, BooksPlanned

LEMMA SameQueueSame ==
  ASSUME NEW jj, JournalGood(jj)
  PROVE  SameQueue(jj, jj)
BY DEF SameQueue

LEMMA SameQueueTwice ==
  ASSUME NEW jj, NEW k, NEW l, SameQueue(jj, k), SameQueue(k, l)
  PROVE  SameQueue(jj, l)
BY DEF SameQueue

LEMMA SameQueueShortens ==
  ASSUME NEW jj, NEW k, SameQueue(jj, k)
  PROVE  Shortens(jj, k) /\ Queued(k) = Queued(jj)
BY DEF SameQueue, Shortens, Queued

LEMMA PlannedSettle ==
  ASSUME NEW s, Planned(s), NEW r, Settles(s, r), SameQueue(s.j, r.j)
  PROVE  Planned(r) /\ (Owed(s, {}) => Owed(r, {}))
<1>1. r \in Services /\ r.pay = s.pay /\ JournalGood(r.j) /\ s \in Services
  BY DEF Settles, SameQueue, Planned
<1>2. PlansOK(r)
  BY <1>1, PlansShorten, SameQueueShortens DEF Planned
<1>3. Owed(s, {}) => Owed(r, {})
  <2>1. Queued(s.j) \subseteq Queued(r.j) \union {} /\ Queued(r.j) \subseteq Queued(s.j) \union {}
    BY SameQueueShortens
  <2>2. r.undo # 0 => ~HasUndo(s, {})
    BY DEF HasUndo
  <2> QED
    BY <1>1, <2>1, <2>2, OwedSettled
<1> QED
  BY <1>1, <1>2, <1>3 DEF Planned

LEMMA BooksSettle ==
  ASSUME NEW s, Books(s), NEW r, Settles(s, r), SameQueue(s.j, r.j)
  PROVE  Books(r)
BY PlannedSettle, BooksPlanned

LEMMA ShownKept ==
  ASSUME NEW s, Shown(s), NEW r, Keeps(s, r),
         r.j.cvis = s.j.cvis, r.j.active = s.j.active
  PROVE  Shown(r)
BY DEF Shown, Keeps

(* What the sessions in progress rely on.                                   *)
Quiets(s, r) ==
  /\ s.j.nextId <= r.j.nextId
  /\ \A i \in Ids : i < s.j.nextId => r.pay[i] = s.pay[i]
  /\ r.nextFlight = s.nextFlight
  /\ \A i \in Ids : r.told[i] = "Applied" => s.told[i] = "Applied"
  /\ Keeps(s, r)

LEMMA SettlesQuiets ==
  ASSUME NEW s \in Services, NEW r, Settles(s, r), Keeps(s, r), r.j.nextId = s.j.nextId
  PROVE  Quiets(s, r)
<1>1. s.j.nextId \in Nat
  BY DEF Services, Journals
<1> QED
  BY <1>1 DEF Settles, Quiets

LEMMA QuietsTwice ==
  ASSUME NEW s \in Services, NEW t \in Services, NEW r \in Services,
         Quiets(s, t), Quiets(t, r)
  PROVE  Quiets(s, r)
<1>1. Keeps(s, r)
  BY KeepsTwice DEF Quiets
<1>2. s.j.nextId \in Nat /\ t.j.nextId \in Nat /\ r.j.nextId \in Nat
  BY DEF Services, Journals
<1>3. \A i \in Ids : i \in Int
  BY BoundAssumption DEF Ids, BoundAssumption
<1> QED
  BY <1>1, <1>2, <1>3 DEF Quiets

(* A service settled so is as good as before.                               *)
Better(s, r) == ServiceOK(r) /\ Settles(s, r) /\ Quiets(s, r)

LEMMA ServiceBooks ==
  ASSUME NEW s
  PROVE  ServiceOK(s) <=> Books(s) /\ FinalizerLast(s) /\ Shown(s)
BY DEF ServiceOK, Books, JournalGood

LEMMA CancelBetters ==
  ASSUME NEW s, ServiceOK(s), NEW k, Shortens(s.j, k),
         k.cvis = s.j.cvis, k.active = s.j.active, NEW reset \in BOOLEAN,
         NEW outcome \in {"Rejected", "Unknown"}, NEW answered
  PROVE  LET r == Cancel(s, k, reset, outcome, answered)
         IN  Better(s, r) /\ SameQueue(k, r.j) /\ r.phase # "EngineCommitStarted"
<1> DEFINE r == Cancel(s, k, reset, outcome, answered)
<1>1. Books(s) /\ Shown(s) /\ s \in Services
  BY ServiceBooks DEF ServiceOK
<1>2. /\ Settles(s, r) /\ Keeps(s, r) /\ SameQueue(k, r.j)
      /\ Books(r) /\ r.phase # "EngineCommitStarted"
  BY <1>1, CancelBooks
<1> HIDE DEF r
<1>3. FinalizerLast(r)
  BY <1>2 DEF FinalizerLast
<1>4. Shown(r)
  BY <1>1, <1>2, ShownKept DEF SameQueue
<1>5. Quiets(s, r)
  BY <1>1, <1>2, SettlesQuiets DEF SameQueue, Shortens
<1> QED
  BY <1>2, <1>3, <1>4, <1>5, ServiceBooks DEF Better, r

(* A stale or refused ticket, and everything that is queued.                *)
LEMMA TicketBetters ==
  ASSUME NEW s, ServiceOK(s), NEW t, NEW answered
  PROVE  /\ Better(s, CancelStale(s, t, answered))
         /\ Better(s, RejectRequested(s, t, answered))
         /\ Better(s, Cancel(s, CancelTicket(s.j, t), TRUE, "Unknown", answered))
<1>1. JournalGood(s.j) /\ TRUE \in BOOLEAN /\ FALSE \in BOOLEAN
  BY DEF ServiceOK, JournalGood
<1> DEFINE Fit(k) == Shortens(s.j, k) /\ k.cvis = s.j.cvis /\ k.active = s.j.active
<1>2. \A k : Settled(k) /\ k.nextId = s.j.nextId => Shortens(s.j, k)
  BY SettledShortens
<1>3. Fit(CancelTicket(s.j, t)) /\ Fit(Reject(s.j, t, FALSE, {}))
  BY <1>1, <1>2, TicketKeeps, SameShortens
<1> QED
  BY <1>1, <1>3, CancelBetters DEF CancelStale, RejectRequested

LEMMA CancelAllBetters ==
  ASSUME NEW s, ServiceOK(s), NEW reset \in BOOLEAN, NEW answered
  PROVE  LET r == CancelAllWrites(s, reset, answered)
         IN  /\ Better(s, r) /\ r.phase # "EngineCommitStarted"
             /\ Queued(r.j) = {} /\ r.j.ops = << >> /\ JournalGood(r.j)
             /\ r.j.cvis = s.j.cvis /\ r.j.active = s.j.active
             /\ r.token = 0 /\ r.undo = 0 /\ r.j.nextId = s.j.nextId
<1> DEFINE k == CancelAll(s.j)
           r == CancelAllWrites(s, reset, answered)
<1>1. JournalOK(s.j)
  BY DEF ServiceOK
<1>2. /\ Shortens(s.j, k) /\ k.cvis = s.j.cvis /\ k.active = s.j.active
      /\ k.ops = << >>
  BY <1>1, CancelAllKeeps, SettledShortens
<1>3. r = Cancel(s, k, reset, "Rejected", answered)
  BY DEF CancelAllWrites
<1> HIDE DEF k, r
<1>4. Better(s, r) /\ SameQueue(k, r.j) /\ r.phase # "EngineCommitStarted"
  BY <1>2, <1>3, CancelBetters
<1>5. r.j.ops = << >> /\ Queued(r.j) = {}
  BY <1>2, <1>4 DEF SameQueue, Queued
<1>6. Owed(r, {}) /\ Queued(r.j) \union {} = {}
  BY <1>4, <1>5 DEF Better, ServiceOK
<1>7. r.token = 0 /\ r.undo = 0
  BY <1>6 DEF Owed
<1> QED
  BY <1>2, <1>4, <1>5, <1>7 DEF SameQueue, Shortens, r

(* Giving up the projection takes down whatever is queued.                  *)
LEMMA AbandonSettles ==
  ASSUME NEW s \in Services, JournalGood(s.j), NEW answered
  PROVE  LET r == Abandon(s, answered)
         IN  /\ Settles(s, r) /\ JournalGood(r.j) /\ r.j.nextId = s.j.nextId
             /\ r.j.ops = << >> /\ r.flight = 0 /\ r.text = Empty /\ r.phase = "Idle"
             /\ r.token # 0 => \A i \in Queued(s.j) : s.pay[i].token # r.token
             /\ r.undo # 0 => ~HasUndo(s, Queued(s.j))
             /\ \A any : Keeps(any, r)
<1> DEFINE k == AbandonProjection(s.j)
           a == [s EXCEPT !.j = k]
           t == Forget(a)
           ids == Completed(s.j, k)
           r == Abandon(s, answered)
<1>1. Settled(k) /\ k.nextId = s.j.nextId /\ JournalGood(k) /\ k.ops = << >> /\ k \in Journals
  <2>1. Settled(k) /\ k.nextId = s.j.nextId
    BY LifeCycleSettles DEF JournalGood
  <2> QED
    BY <2>1, SettledShortens DEF Shortens, JournalGood, JournalOK
<1>2. ids = Queued(s.j)
  BY <1>1, SettledShortens DEF Completed
<1>3. Settles(s, a) /\ a.j = k /\ a \in Services
  BY <1>1, WithJournal DEF Settles
<1>4. r = IF ids = {} THEN Terminalize(t, TRUE)
          ELSE Settle(t, ids, TRUE, "Unknown", answered)
  BY DEF Abandon
<1> HIDE DEF a, k, ids
<1>5. Settles(a, t) /\ t.j = k /\ t.phase = "Idle" /\ t.flight = 0 /\ t.text = Empty
  BY <1>3, ForgetSettles
<1> HIDE DEF t
<1>6. Settles(s, t) /\ t \in Services /\ t.pay = s.pay
  BY <1>3, <1>5, SettlesTwice DEF Settles
<1>7. TRUE \in BOOLEAN
  OBVIOUS
<1>8. /\ Settles(t, r) /\ Keeps(t, r) /\ SameQueue(k, r.j)
      /\ r.token # 0 => \A i \in ids : s.pay[i].token # r.token
      /\ r.undo # 0 => ~HasUndo(s, ids)
  <2>1. CASE ids = {}
    BY <1>1, <1>4, <1>5, <1>6, <1>7, <2>1, TerminalizeSettles DEF HasUndo
  <2>2. CASE ids # {}
    <3> DEFINE x == Settle(t, ids, TRUE, "Unknown", answered)
    <3>1. "Unknown" \in {"Rejected", "Unknown"} /\ JournalGood(t.j)
      BY <1>1, <1>5
    <3>2. /\ Settles(t, x) /\ Keeps(t, x) /\ SameQueue(t.j, x.j)
          /\ x.token # 0 => \A i \in ids : t.pay[i].token # x.token
          /\ x.undo # 0 => ~HasUndo(t, ids)
      BY <1>6, <1>7, <3>1, SettleSettles
    <3> HIDE DEF x
    <3>3. r = x
      BY <1>4, <2>2 DEF x
    <3> QED
      BY <1>5, <1>6, <3>2, <3>3 DEF HasUndo
  <2> QED
    BY <2>1, <2>2
<1> HIDE DEF r
<1>9. Settles(s, r)
  BY <1>6, <1>8, SettlesTwice
<1>10. r.flight = 0 /\ r.text = Empty /\ r.phase = "Idle"
  BY <1>5, <1>8 DEF Keeps, Settles
<1> QED
  BY <1>1, <1>2, <1>8, <1>9, <1>10 DEF SameQueue, Keeps, r

(* With nothing queued, nothing that is not waited for can be missing.      *)
LEMMA EmptyPlans ==
  ASSUME NEW s, PlansOK(s), NEW r, r.pay = s.pay, r.j.nextId = s.j.nextId, r.j.ops = << >>
  PROVE  PlansOK(r)
BY DEF PlansOK

LEMMA AbandonBetters ==
  ASSUME NEW s, Books(s), NEW answered
  PROVE  LET r == Abandon(s, answered)
         IN  Better(s, r) /\ r.phase = "Idle" /\ r.text = Empty /\ r.flight = 0
<1> DEFINE r == Abandon(s, answered)
<1>1. s \in Services /\ JournalGood(s.j) /\ PlansOK(s) /\ Owed(s, {})
  BY DEF Books
<1>2. /\ Settles(s, r) /\ JournalGood(r.j) /\ r.j.nextId = s.j.nextId
      /\ r.j.ops = << >> /\ r.flight = 0 /\ r.text = Empty /\ r.phase = "Idle"
      /\ r.token # 0 => \A i \in Queued(s.j) : s.pay[i].token # r.token
      /\ r.undo # 0 => ~HasUndo(s, Queued(s.j))
      /\ Keeps(s, r)
  BY <1>1, AbandonSettles
<1> HIDE DEF r
<1>3. Queued(r.j) = {} /\ Queued(s.j) \union {} = Queued(s.j)
  BY <1>2 DEF Queued
<1>4. r.token = 0 /\ r.undo = 0
  BY <1>1, <1>2, <1>3 DEF Owed, Settles, HasUndo
<1>5. Owed(r, {})
  BY <1>2, <1>3, <1>4 DEF Owed
<1>6. PlansOK(r)
  BY <1>1, <1>2, EmptyPlans DEF Settles
<1>7. FinalizerLast(r) /\ Shown(r) /\ r \in Services
  BY <1>2 DEF FinalizerLast, Shown, Settles
<1>8. Quiets(s, r)
  BY <1>1, <1>2, SettlesQuiets
<1> QED
  BY <1>2, <1>5, <1>6, <1>7, <1>8 DEF Better, ServiceOK, JournalGood, r

(* A failed host call takes the whole queue down and drops the engine.      *)
LEMMA FailAfterAccessBetters ==
  ASSUME NEW s, ServiceOK(s), NEW t, NEW flight \in Nat, NEW c \in Contexts, NEW answered
  PROVE  LET r == FailAfterAccess(s, t, flight, c, answered)
         IN  Better(s, r) /\ (flight # 0 => r.flight # flight)
<1> DEFINE f == FailWrite(s, flight, c)
           k == CancelAll(Reject(f.j, t, TRUE, {}))
           ids == Completed(f.j, k)
           u == IF HasUndo(f, ids) THEN SettleUndo(f, "Unknown", answered) ELSE f
           v == [u EXCEPT !.j = k]
           w == SettleAfterUndo(v, ids, TRUE)
           r == Disconnect(w)
<1>1. s \in Services /\ JournalGood(s.j) /\ Books(s) /\ Shown(s) /\ PlansOK(s)
  BY ServiceBooks DEF Books
<1>2. /\ Settles(s, f) /\ Keeps(s, f) /\ f.j = s.j /\ f \in Services
      /\ flight # 0 => f.flight # flight
  BY <1>1, FailWriteSettles DEF Settles
<1>3. FailAfterAccess(s, t, flight, c, answered) = r
  BY DEF FailAfterAccess
<1>4. /\ Settled(k) /\ k.nextId = s.j.nextId /\ JournalGood(k) /\ k \in Journals
      /\ k.cvis = s.j.cvis /\ k.active = s.j.active /\ k.ops = << >>
  <2> DEFINE e == Reject(f.j, t, TRUE, {})
  <2>1. /\ JournalOK(e) /\ e.nextId = s.j.nextId
        /\ e.cvis = s.j.cvis /\ e.active = s.j.active
    <3>1. e = Reject(s.j, t, TRUE, {}) /\ TRUE \in BOOLEAN /\ JournalOK(s.j)
      BY <1>1, <1>2 DEF JournalGood
    <3> HIDE DEF e
    <3>2. e = s.j \/ (Settled(e) /\ e.nextId = s.j.nextId
                     /\ e.cvis = s.j.cvis /\ e.active = s.j.active)
      BY <1>1, <3>1, TicketKeeps
    <3> QED
      BY <3>1, <3>2 DEF Settled
  <2> HIDE DEF e
  <2>2. Settled(CancelAll(e)) /\ CancelAll(e).nextId = e.nextId
        /\ CancelAll(e).cvis = e.cvis /\ CancelAll(e).active = e.active
    BY <2>1, CancelAllKeeps
  <2>3. Settled(k) /\ k.nextId = s.j.nextId /\ k.cvis = s.j.cvis /\ k.active = s.j.active
    BY <2>1, <2>2 DEF e
  <2> HIDE DEF k
  <2> QED
    BY <2>3, SettledShortens DEF Shortens, JournalGood, JournalOK
<1> HIDE DEF f
<1>5. ids = Queued(s.j)
  BY <1>2, <1>4, SettledShortens DEF Completed
<1> HIDE DEF k, ids
<1>6. /\ Settles(f, u) /\ Keeps(f, u) /\ u \in Services
      /\ u.flight = f.flight
  BY <1>2, SettleUndoSettles, SettlesNothing DEF Settles
<1> HIDE DEF u
<1>7. Settles(u, v) /\ Keeps(u, v) /\ v.j = k /\ v \in Services /\ v.flight = u.flight
  BY <1>4, <1>6, WithJournal DEF Settles
<1> HIDE DEF v
<1>8. Settles(s, v) /\ Keeps(s, v) /\ v.pay = s.pay
  BY <1>2, <1>6, <1>7, SettlesTwice, KeepsTwice DEF Settles
<1>9. /\ Settles(v, w) /\ Keeps(v, w) /\ SameQueue(k, w.j)
      /\ w.phase # "EngineCommitStarted" /\ w \in Services
      /\ w.token # 0 => \A i \in ids : s.pay[i].token # w.token
  <2>1. TRUE \in BOOLEAN /\ JournalGood(v.j) /\ v \in Services
    BY <1>4, <1>7
  <2>2. /\ Settles(v, w) /\ Keeps(v, w) /\ SameQueue(v.j, w.j)
        /\ w.phase # "EngineCommitStarted"
        /\ w.token # 0 => \A i \in ids : v.pay[i].token # w.token
    BY <2>1, SettleAfterUndoSettles
  <2> HIDE DEF w
  <2> QED
    BY <1>7, <1>8, <2>2 DEF Settles
<1> HIDE DEF w
<1>10. /\ Settles(w, r) /\ Keeps(w, r) /\ r.j = w.j /\ r.undo = 0 /\ r.token = w.token
       /\ r.phase = w.phase /\ r.flight = w.flight /\ r \in Services
  BY <1>9, DisconnectSettles DEF Settles
<1> HIDE DEF r
<1>11. Settles(s, r) /\ Keeps(s, r)
  BY <1>8, <1>9, <1>10, SettlesTwice, KeepsTwice
<1>12. flight # 0 => r.flight # flight
  BY <1>2, <1>6, <1>7, <1>9, <1>10 DEF Keeps
<1>13. /\ JournalGood(r.j) /\ r.j.ops = << >> /\ r.j.nextId = s.j.nextId
       /\ r.j.cvis = s.j.cvis /\ r.j.active = s.j.active
  BY <1>4, <1>9, <1>10 DEF SameQueue
<1>14. Queued(r.j) = {}
  BY <1>13 DEF Queued
<1>15. Owed(r, {})
  <2>1. Queued(s.j) \union {} = Queued(s.j) /\ Owed(s, {})
    BY <1>1 DEF Books
  <2>2. r.token = 0
    BY <1>5, <1>9, <1>10, <1>11, <2>1 DEF Owed, Settles
  <2>3. r.phase = "DeferredQueued" => "focus" \in r.work
    BY <1>11, <2>1 DEF Owed, Settles
  <2> QED
    BY <1>10, <1>14, <2>2, <2>3 DEF Owed
<1>16. PlansOK(r)
  BY <1>1, <1>11, <1>13, EmptyPlans DEF Settles
<1>17. FinalizerLast(r) /\ Shown(r)
  BY <1>1, <1>9, <1>10, <1>11, <1>13, ShownKept DEF FinalizerLast
<1>18. Quiets(s, r)
  BY <1>1, <1>11, <1>13, SettlesQuiets
<1> QED
  BY <1>3, <1>10, <1>11, <1>12, <1>13, <1>15, <1>16, <1>17, <1>18
     DEF Better, ServiceOK, JournalGood

-----------------------------------------------------------------------------
(* Life-cycle callbacks.                                                    *)

LEMMA BetterTwice ==
  ASSUME NEW s, NEW t, NEW r, ServiceOK(s), Better(s, t), Better(t, r)
  PROVE  Better(s, r)
<1>1. s \in Services /\ t \in Services /\ r \in Services
  BY DEF Better, ServiceOK
<1> QED
  BY <1>1, SettlesTwice, QuietsTwice DEF Better

LEMMA FocusChangeBetters ==
  ASSUME NEW s, Books(s), Shown(s), NEW answered
  PROVE  LET r == FocusChange(s, answered)
         IN  Better(s, r) /\ r.phase # "EngineCommitStarted" /\ r.flight = 0
<1> DEFINE t == InvalidateAsUnknown(s)
           b == t.reconcile \/ Attached(s.j) # {}
           u == [t EXCEPT !.reconcile = b]
           k == FocusChanged(s.j)
           r == FocusChange(s, answered)
<1>1. s \in Services /\ JournalGood(s.j) /\ Books(s) /\ Shown(s)
  BY DEF Books
<1>2. /\ Settles(s, t) /\ Keeps(s, t) /\ t.j = s.j /\ t.phase = s.phase
      /\ t \in Services /\ t.flight = 0
  BY <1>1, InvalidateAsUnknownSettles DEF Settles
<1>3. r = Cancel([t EXCEPT !.reconcile = @ \/ Attached(s.j) # {}], k, FALSE, "Rejected", answered)
  BY DEF FocusChange
<1> HIDE DEF t, r
<1>4. r = Cancel(u, k, FALSE, "Rejected", answered)
  BY <1>3
<1>5. b \in BOOLEAN
  BY <1>2 DEF Services
<1> HIDE DEF b
<1>6. Settles(t, u) /\ Keeps(t, u) /\ u.j = t.j /\ u \in Services /\ u.flight = 0
  BY <1>2, <1>5 DEF Settles, Keeps, Services
<1> HIDE DEF u
<1>7. Settles(s, u) /\ Keeps(s, u) /\ u.j = s.j
  BY <1>2, <1>6, SettlesTwice, KeepsTwice
<1>8. Books(u)
  BY <1>1, <1>7, SameQueueSame, BooksSettle
<1>9. /\ Shortens(u.j, k) /\ k.cvis = s.j.cvis /\ k.active = s.j.active
      /\ k.nextId = s.j.nextId
  BY <1>1, <1>7, LifeCycleSettles, LifeCycleKeeps, SettledShortens DEF JournalGood
<1> HIDE DEF k
<1>10. /\ Settles(u, r) /\ Keeps(u, r) /\ SameQueue(k, r.j)
       /\ Books(r) /\ r.phase # "EngineCommitStarted"
  <2>1. FALSE \in BOOLEAN
    OBVIOUS
  <2> QED
    BY <1>4, <1>8, <1>9, <2>1, CancelBooks
<1>11. Settles(s, r) /\ Keeps(s, r)
  BY <1>7, <1>10, SettlesTwice, KeepsTwice
<1>12. r.j.cvis = s.j.cvis /\ r.j.active = s.j.active /\ r.j.nextId = s.j.nextId
  BY <1>9, <1>10 DEF SameQueue
<1>13. FinalizerLast(r) /\ Shown(r) /\ Quiets(s, r)
  BY <1>1, <1>10, <1>11, <1>12, ShownKept, SettlesQuiets DEF FinalizerLast
<1>14. r.flight = 0
  BY <1>6, <1>10 DEF Keeps
<1> QED
  BY <1>10, <1>11, <1>13, <1>14, ServiceBooks DEF Better, r

(* A service as good as before, that may wait for more.                     *)
Follows(s, r) == ServiceOK(r) /\ Quiets(s, r)

LEMMA FollowsTwice ==
  ASSUME NEW s, NEW t, NEW r, ServiceOK(s), Follows(s, t), Follows(t, r)
  PROVE  Follows(s, r)
<1>1. s \in Services /\ t \in Services /\ r \in Services
  BY DEF Follows, ServiceOK
<1> QED
  BY <1>1, QuietsTwice DEF Follows

(* Only the phase of the focus finalization and the work that is posted.    *)
WithPhase(s, phase, work) == [s EXCEPT !.phase = phase, !.work = work]

LEMMA PhaseFollows ==
  ASSUME NEW s, ServiceOK(s), NEW phase \in {"Idle", "DeferredQueued"},
         NEW work \in SUBSET {"write", "focus"},
         phase = "DeferredQueued" => "focus" \in work,
         NEW r, r = WithPhase(s, phase, work)
  PROVE  /\ Follows(s, r) /\ r.flight = s.flight /\ r.token = s.token
         /\ r.undo = s.undo /\ r.j = s.j /\ r.reconcile = s.reconcile
         /\ r.phase = phase
<1>1. s \in Services
  BY DEF ServiceOK
<1>2. r \in Services /\ r.phase = phase /\ r.work = work
  BY <1>1 DEF Services, FocusPhases, WithPhase
<1>3. /\ r.j = s.j /\ r.pay = s.pay /\ r.token = s.token /\ r.undo = s.undo
      /\ r.text = s.text /\ r.known = s.known /\ r.ctx = s.ctx /\ r.flight = s.flight
      /\ r.nextFlight = s.nextFlight /\ r.told = s.told /\ r.reconcile = s.reconcile
  BY <1>1 DEF Services, WithPhase
<1>4. PlansOK(r) /\ Shown(r)
  BY <1>3 DEF ServiceOK, PlansOK, Shown
<1>5. Owed(r, {})
  BY <1>2, <1>3 DEF ServiceOK, Owed
<1>6. FinalizerLast(r)
  BY <1>2 DEF FinalizerLast
<1>7. Quiets(s, r)
  <2>1. s.j.nextId \in Nat
    BY <1>1 DEF Services, Journals
  <2> QED
    BY <1>3, <2>1 DEF Quiets, Keeps
<1> QED
  BY <1>2, <1>3, <1>4, <1>5, <1>6, <1>7 DEF Follows, ServiceOK

LEMMA LoseFocusFollows ==
  ASSUME NEW s, ServiceOK(s), NEW answered, NEW posted \in BOOLEAN
  PROVE  LET r == LoseFocus(s, answered, posted)
         IN  Follows(s, r) /\ r.flight = 0
<1> DEFINE t == FocusChange(s, answered)
           p == [t EXCEPT !.phase = "DeferredQueued", !.work = @ \union {"focus"}]
           u == [t EXCEPT !.phase = "Idle", !.work = @ \ {"focus"}]
<1>1. Better(s, t) /\ t.phase # "EngineCommitStarted" /\ t.flight = 0
  BY FocusChangeBetters, ServiceBooks
<1>2. ServiceOK(t) /\ Follows(s, t) /\ t.work \in SUBSET {"write", "focus"}
  BY <1>1 DEF Better, Follows, ServiceOK, Services
<1>3. LoseFocus(s, answered, posted) =
        IF posted THEN p ELSE IF u.reconcile THEN Abandon(u, answered) ELSE u
  BY <1>1 DEF LoseFocus
<1> HIDE DEF t
<1>4. Follows(t, p) /\ p.flight = 0
  <2> DEFINE work == t.work \union {"focus"}
             phase == "DeferredQueued"
  <2>1. /\ work \in SUBSET {"write", "focus"} /\ phase \in {"Idle", "DeferredQueued"}
        /\ phase = "DeferredQueued" => "focus" \in work
    BY <1>2
  <2>2. p = WithPhase(t, phase, work)
    BY DEF WithPhase
  <2> HIDE DEF work, phase, p, u
  <2>3. ServiceOK(t)
    BY <1>2
  <2>4. Follows(t, p) /\ p.flight = t.flight
    BY <2>1, <2>2, <2>3, PhaseFollows
  <2> QED
    BY <1>1, <2>4
<1>5. Follows(t, u) /\ u.flight = 0
  <2> DEFINE work == t.work \ {"focus"}
             phase == "Idle"
  <2>1. /\ work \in SUBSET {"write", "focus"} /\ phase \in {"Idle", "DeferredQueued"}
        /\ phase = "DeferredQueued" => "focus" \in work
    BY <1>2
  <2>2. u = WithPhase(t, phase, work)
    BY DEF WithPhase
  <2> HIDE DEF work, phase, p, u
  <2>3. ServiceOK(t)
    BY <1>2
  <2>4. Follows(t, u) /\ u.flight = t.flight
    BY <2>1, <2>2, <2>3, PhaseFollows
  <2> QED
    BY <1>1, <2>4
<1> HIDE DEF p, u
<1>6. Follows(u, Abandon(u, answered)) /\ Abandon(u, answered).flight = 0
  BY <1>5, ServiceBooks, AbandonBetters DEF Follows, Better
<1>7. Follows(s, p) /\ Follows(s, u)
  BY <1>2, <1>4, <1>5, FollowsTwice
<1>8. Follows(s, Abandon(u, answered))
  BY <1>6, <1>7, FollowsTwice
<1> QED
  BY <1>3, <1>4, <1>5, <1>6, <1>7, <1>8

LEMMA FinishFocusBetters ==
  ASSUME NEW s, Books(s), Shown(s)
  PROVE  LET r == FinishFocus(s)
         IN  Better(s, r) /\ r.flight = s.flight /\ r.token = s.token
             /\ r.undo = s.undo /\ r.phase = "Idle"
<1> DEFINE r == FinishFocus(s)
<1>1. s \in Services /\ Books(s) /\ Shown(s) /\ JournalGood(s.j)
  BY DEF Books
<1>2. /\ Settles(s, r) /\ Keeps(s, r) /\ r.j = s.j /\ r.phase = "Idle"
      /\ r.flight = s.flight /\ r.token = s.token /\ r.undo = s.undo
  BY <1>1, FinishFocusSettles
<1> HIDE DEF r
<1>3. Books(r) /\ Shown(r) /\ FinalizerLast(r) /\ Quiets(s, r)
  BY <1>1, <1>2, BooksSettle, SameQueueSame, ShownKept, SettlesQuiets DEF FinalizerLast
<1> QED
  BY <1>2, <1>3, ServiceBooks DEF Better, r

LEMMA GainFocusFollows ==
  ASSUME NEW s, ServiceOK(s), NEW answered
  PROVE  LET r == GainFocus(s, answered)
         IN  Follows(s, r) /\ r.flight = 0
<1> DEFINE t == FocusChange(s, answered)
<1>1. Better(s, t) /\ t.flight = 0
  BY FocusChangeBetters, ServiceBooks
<1>2. GainFocus(s, answered) \in {Abandon(t, answered), FinishFocus(t)}
  BY DEF GainFocus
<1> HIDE DEF t
<1>3. Better(t, Abandon(t, answered)) /\ Abandon(t, answered).flight = 0
  BY <1>1, ServiceBooks, AbandonBetters DEF Better
<1>4. Better(t, FinishFocus(t)) /\ FinishFocus(t).flight = 0
  BY <1>1, FinishFocusBetters, ServiceBooks DEF Better
<1> QED
  BY <1>1, <1>2, <1>3, <1>4, BetterTwice DEF Better, Follows

LEMMA TerminatedBetters ==
  ASSUME NEW s, ServiceOK(s), NEW answered, NEW heard
  PROVE  LET r == Terminated(s, answered, heard)
         IN  Better(s, r) /\ r.flight = 0 /\ r.text = Empty
<1> DEFINE i == InvalidateFlight(s)
           k == CompositionTerminated(s.j)
           t == Cancel(i, k, FALSE, "Rejected", answered)
           u == IF heard /\ t.undo = 0 THEN [t EXCEPT !.reading = Empty] ELSE t
           r == Forget(u)
<1>1. s \in Services /\ JournalGood(s.j) /\ Books(s)
  BY ServiceBooks DEF Books
<1>2. Terminated(s, answered, heard) = r
  BY DEF Terminated
<1>3. Settles(s, i) /\ i.j = s.j
  BY <1>1, InvalidateFlightSettles
<1> HIDE DEF i
<1>4. Books(i)
  BY <1>1, <1>3, BooksSettle, SameQueueSame
<1>5. Shortens(i.j, k) /\ k.nextId = s.j.nextId
  BY <1>1, <1>3, LifeCycleSettles, SettledShortens DEF JournalGood
<1> HIDE DEF k
<1>6. Settles(i, t) /\ Books(t) /\ t.j.nextId = s.j.nextId /\ t \in Services
  <2>1. FALSE \in BOOLEAN
    OBVIOUS
  <2>2. Settles(i, t) /\ SameQueue(k, t.j) /\ Books(t)
    BY <1>4, <1>5, <2>1, CancelBooks
  <2> HIDE DEF t
  <2> QED
    BY <1>5, <2>2 DEF SameQueue, Settles
<1> HIDE DEF t
<1>7. Settles(t, u) /\ u.j = t.j /\ u \in Services
  <2>1. Settles(t, t)
    BY <1>6, SettlesNothing
  <2>2. LET v == [t EXCEPT !.reading = Empty] IN Settles(t, v) /\ v.j = t.j
    BY <1>6, JournalAssumption DEF Settles, Services, JournalAssumption
  <2> QED
    BY <2>1, <2>2 DEF Settles
<1> HIDE DEF u
<1>8. /\ Settles(u, r) /\ r.j = t.j /\ r.flight = 0 /\ r.text = Empty /\ r.phase = "Idle"
      /\ Keeps(s, r)
  BY <1>7, ForgetSettles
<1> HIDE DEF r
<1>9. Settles(t, r) /\ Settles(s, r)
  BY <1>3, <1>6, <1>7, <1>8, SettlesTwice
<1>10. Books(r)
  BY <1>6, <1>8, <1>9, BooksSettle, SameQueueSame DEF Books
<1>11. FinalizerLast(r) /\ Shown(r) /\ Quiets(s, r)
  BY <1>1, <1>6, <1>8, <1>9, SettlesQuiets DEF FinalizerLast, Shown
<1> QED
  BY <1>2, <1>8, <1>9, <1>10, <1>11, ServiceBooks DEF Better

LEMMA ReattachBetters ==
  ASSUME NEW s, ServiceOK(s), ~s.j.active, NEW answered
  PROVE  Better(s, Reattach(s, answered))
<1> DEFINE k == Activate(s.j)
           r == Reattach(s, answered)
<1>1. s \in Services /\ JournalGood(s.j) /\ Books(s) /\ s.text = Empty
  BY ServiceBooks DEF Books, Shown
<1>2. Shortens(s.j, k) /\ k.nextId = s.j.nextId
  BY <1>1, LifeCycleSettles, SettledShortens DEF JournalGood
<1>3. /\ Settles(s, r) /\ Keeps(s, r) /\ SameQueue(k, r.j)
      /\ Books(r) /\ r.phase # "EngineCommitStarted"
  <2>1. FALSE \in BOOLEAN
    OBVIOUS
  <2> HIDE DEF k
  <2> QED
    BY <1>1, <1>2, <2>1, CancelBooks DEF Reattach, k
<1> HIDE DEF r, k
<1>4. r.text = Empty
  BY <1>1, <1>3 DEF Keeps
<1>5. Quiets(s, r)
  BY <1>1, <1>2, <1>3, SettlesQuiets DEF SameQueue
<1> QED
  BY <1>3, <1>4, <1>5, ServiceBooks DEF Better, FinalizerLast, Shown, r

LEMMA DetachFollows ==
  ASSUME NEW s, ServiceOK(s), NEW answered
  PROVE  LET r == Detach(s, answered)
         IN  Follows(s, r) /\ r.flight = 0
<1> DEFINE i == InvalidateFlight(s)
           k == Deactivate(s.j)
           t == Cancel(i, k, FALSE, "Rejected", answered)
           u == [t EXCEPT !.token = 0, !.work = {}]
           f == Forget(u)
           r == Disconnect(f)
<1>1. s \in Services /\ JournalGood(s.j) /\ Books(s) /\ PlansOK(s)
  BY ServiceBooks DEF Books
<1>2. Detach(s, answered) = r
  BY DEF Detach
<1>3. Settles(s, i) /\ i.j = s.j
  BY <1>1, InvalidateFlightSettles
<1> HIDE DEF i
<1>4. Books(i)
  BY <1>1, <1>3, BooksSettle, SameQueueSame
<1>5. Shortens(i.j, k) /\ k.nextId = s.j.nextId /\ k.ops = << >>
  BY <1>1, <1>3, LifeCycleSettles, SettledShortens DEF JournalGood
<1> HIDE DEF k
<1>6. /\ Settles(i, t) /\ Books(t) /\ t.j.nextId = s.j.nextId /\ t \in Services
      /\ t.j.ops = << >>
  <2>1. FALSE \in BOOLEAN
    OBVIOUS
  <2>2. Settles(i, t) /\ SameQueue(k, t.j) /\ Books(t)
    BY <1>4, <1>5, <2>1, CancelBooks
  <2> HIDE DEF t
  <2> QED
    BY <1>5, <2>2 DEF SameQueue, Settles
<1> HIDE DEF t
<1>7. /\ u \in Services /\ u.j = t.j /\ u.pay = t.pay /\ u.nextFlight = t.nextFlight
      /\ u.told = t.told /\ u.token = 0
  BY <1>6 DEF Services
<1> HIDE DEF u
<1>8. /\ Settles(u, f) /\ f.j = t.j /\ f.token = 0 /\ f.phase = "Idle"
      /\ f.flight = 0 /\ f.text = Empty /\ f \in Services
  BY <1>7, ForgetSettles DEF Settles
<1> HIDE DEF f
<1>9. /\ Settles(f, r) /\ r.j = t.j /\ r.undo = 0 /\ r.token = 0 /\ r.phase = "Idle"
      /\ r.flight = 0 /\ r.text = Empty /\ r \in Services
  BY <1>8, DisconnectSettles DEF Settles
<1> HIDE DEF r
<1>10. Settles(s, t) /\ Settles(u, r)
  BY <1>3, <1>6, <1>8, <1>9, SettlesTwice
<1>11. r.pay = s.pay /\ r.nextFlight = s.nextFlight
       /\ \A n \in Ids : r.told[n] = "Applied" => s.told[n] = "Applied"
  BY <1>7, <1>10 DEF Settles
<1>12. PlansOK(r) /\ JournalGood(r.j)
  BY <1>1, <1>6, <1>9, <1>11, EmptyPlans DEF Books
<1>13. Owed(r, {})
  BY <1>6, <1>9 DEF Owed, Queued
<1>14. Quiets(s, r)
  <2>1. s.j.nextId \in Nat
    BY <1>1 DEF Services, Journals
  <2> QED
    BY <1>6, <1>9, <1>11, <2>1 DEF Quiets, Keeps
<1> QED
  BY <1>2, <1>9, <1>12, <1>13, <1>14
     DEF Follows, ServiceOK, JournalGood, FinalizerLast, Shown

-----------------------------------------------------------------------------
(* Another document.                                                        *)

LEMMA ObserveSettles ==
  ASSUME NEW s, Planned(s), NEW c \in Contexts, NEW answered
  PROVE  LET r == Observe(s, c, answered)
         IN  /\ Settles(s, r) /\ Keeps(s, r)
             /\ Planned(r) /\ (Owed(s, {}) => Owed(r, {}))
             /\ r.j.nextId = s.j.nextId /\ (Shown(s) => Shown(r))
             /\ Queued(r.j) \subseteq Queued(s.j)
<1> DEFINE k == ObserveContext(s.j, c)
           ids == Completed(s.j, k)
           replaced == \/ s.ctx # NoContext /\ s.ctx # c
                       \/ s.j.context # NoContext /\ s.j.context # c
           x == [s EXCEPT !.j = k]
           i == InvalidateFlight(s)
           z == Cancel(i, k, TRUE, "Rejected", answered)
           t == Forget(z)
           r == Observe(s, c, answered)
<1>1. s \in Services /\ JournalGood(s.j)
  BY DEF Planned
<1>2. /\ Shortens(s.j, k) /\ k.active = s.j.active /\ k \in Journals
      /\ s.j.context \in {c, NoContext} => k.cvis = s.j.cvis /\ k.ops = s.j.ops
  BY <1>1, ObserveKeeps DEF Shortens, JournalGood, JournalOK
<1>3. Queued(k) \subseteq Queued(s.j)
  BY <1>1, <1>2, ShortensQueued
<1>4. InvalidateFlight(x) = [i EXCEPT !.j = k] /\ i.j = s.j
  BY <1>1 DEF InvalidateFlight, Services
<1>5. r = IF ids = {} /\ ~replaced THEN x
          ELSE IF replaced /\ ids = {} THEN Disconnect(t) ELSE t
  <2>1. z = Settle(InvalidateFlight(x), ids, TRUE, "Rejected", answered)
    BY <1>4 DEF Cancel
  <2> HIDE DEF z
  <2> QED
    BY <2>1 DEF Observe
<1>6. Settles(s, i) /\ Planned(i) /\ (Owed(s, {}) => Owed(i, {}))
  BY <1>1, <1>4, InvalidateFlightSettles, PlannedSettle, SameQueueSame
<1>7. /\ Settles(i, z) /\ Planned(z) /\ (Owed(s, {}) => Owed(z, {}))
      /\ z.j.nextId = s.j.nextId /\ z \in Services
      /\ Queued(z.j) = Queued(k)
  <2>1. TRUE \in BOOLEAN /\ Shortens(i.j, k) /\ "Rejected" \in {"Rejected", "Unknown"}
    BY <1>2, <1>4
  <2>2. /\ Settles(i, z) /\ SameQueue(k, z.j)
        /\ Planned(z) /\ (Owed(i, {}) => Owed(z, {}))
    BY <1>6, <2>1, CancelSettles
  <2> HIDE DEF z
  <2> QED
    BY <1>2, <1>6, <2>2, SameQueueShortens DEF SameQueue, Settles, Shortens
<1> HIDE DEF r, z, i
<1>8. /\ Settles(z, t) /\ t.j = z.j /\ t.text = Empty /\ t \in Services
      /\ t.flight = 0
  BY <1>7, ForgetSettles DEF Settles
<1> HIDE DEF t
<1>9. ASSUME NEW v, v \in {t, Disconnect(t)}
      PROVE  /\ Settles(s, v) /\ Keeps(s, v) /\ Shown(v)
             /\ Planned(v) /\ (Owed(s, {}) => Owed(v, {}))
             /\ v.j.nextId = s.j.nextId /\ Queued(v.j) \subseteq Queued(s.j)
  <2>1. Settles(t, v) /\ Keeps(t, v) /\ v.j = z.j
    BY <1>8, <1>9, DisconnectSettles, SettlesNothing
  <2>2. Settles(s, v) /\ Settles(z, v)
    BY <1>6, <1>7, <1>8, <2>1, SettlesTwice
  <2>3. v.text = Empty /\ v.flight = 0
    BY <1>8, <2>1 DEF Keeps
  <2>4. Planned(v) /\ (Owed(s, {}) => Owed(v, {}))
    BY <1>7, <2>1, <2>2, PlannedSettle, SameQueueSame DEF Planned
  <2> QED
    BY <1>3, <1>7, <2>1, <2>2, <2>3, <2>4 DEF Keeps, Shown
<1>10. ASSUME ids = {}, ~replaced
       PROVE  /\ Settles(s, x) /\ Keeps(s, x) /\ (Shown(s) => Shown(x))
              /\ Planned(x) /\ (Owed(s, {}) => Owed(x, {}))
              /\ x.j.nextId = s.j.nextId /\ Queued(x.j) \subseteq Queued(s.j)
  <2>1. Settles(s, x) /\ Keeps(s, x) /\ x.j = k /\ x \in Services
    BY <1>1, <1>2, WithJournal DEF Settles
  <2> HIDE DEF x
  <2>2. s.j.context \in {c, NoContext}
    BY <1>10
  <2>3. SameQueue(s.j, x.j)
    BY <1>2, <2>1, <2>2 DEF SameQueue, Shortens
  <2>4. Planned(x) /\ (Owed(s, {}) => Owed(x, {}))
    BY <2>1, <2>3, PlannedSettle
  <2>5. Shown(s) => Shown(x)
    BY <2>1, <2>3, ShownKept DEF SameQueue
  <2> QED
    BY <1>3, <2>1, <2>3, <2>4, <2>5 DEF SameQueue
<1> HIDE DEF x, ids, replaced
<1> QED
  BY <1>5, <1>9, <1>10 DEF r

-----------------------------------------------------------------------------
(* Applied writes.                                                          *)

(* Whatever only settles leaves a service as good as it was.                *)
LEMMA SettlesBetters ==
  ASSUME NEW s, ServiceOK(s), NEW r, Settles(s, r), Keeps(s, r), r.j = s.j
  PROVE  Better(s, r)
<1>1. s \in Services /\ JournalGood(s.j) /\ Books(s) /\ Shown(s) /\ FinalizerLast(s)
  BY ServiceBooks DEF Books
<1>2. Books(r)
  BY <1>1, BooksSettle, SameQueueSame
<1>3. Shown(r) /\ Quiets(s, r)
  BY <1>1, ShownKept, SettlesQuiets
<1>4. FinalizerLast(r)
  BY <1>1 DEF FinalizerLast, Settles
<1> QED
  BY <1>2, <1>3, <1>4, ServiceBooks DEF Better

LEMMA DisconnectBetters ==
  ASSUME NEW s, ServiceOK(s)
  PROVE  LET r == Disconnect(s)
         IN  /\ Better(s, r) /\ r.undo = 0 /\ r.token = s.token /\ r.j = s.j
             /\ r.known = s.known /\ r.text = s.text /\ r.flight = s.flight
             /\ r.phase = s.phase /\ r.ctx = s.ctx
<1>1. s \in Services
  BY DEF ServiceOK
<1> DEFINE r == Disconnect(s)
<1>2. /\ Settles(s, r) /\ Keeps(s, r) /\ r.j = s.j /\ r.undo = 0 /\ r.token = s.token
      /\ r.known = s.known /\ r.text = s.text /\ r.flight = s.flight
      /\ r.phase = s.phase /\ r.ctx = s.ctx
  BY <1>1, DisconnectSettles
<1> HIDE DEF r
<1>3. Better(s, r)
  BY <1>2, SettlesBetters
<1> QED
  BY <1>2, <1>3 DEF r

(* The engine may have been told that the undo of `id' was applied.         *)
Applies(s, r, id) ==
  /\ s.j.nextId <= r.j.nextId
  /\ \A i \in Ids : i < s.j.nextId => r.pay[i] = s.pay[i]
  /\ r.nextFlight = s.nextFlight
  /\ \A i \in Ids : r.told[i] = "Applied" =>
       s.told[i] = "Applied" \/ (i = id /\ s.pay[id].undo)
  /\ Keeps(s, r)

LEMMA AppliesThenQuiets ==
  ASSUME NEW s \in Services, NEW t \in Services, NEW r \in Services, NEW id,
         Applies(s, t, id), Quiets(t, r)
  PROVE  Applies(s, r, id)
<1>1. Keeps(s, r)
  BY KeepsTwice DEF Quiets, Applies
<1>2. s.j.nextId \in Nat /\ t.j.nextId \in Nat /\ r.j.nextId \in Nat
  BY DEF Services, Journals
<1>3. \A i \in Ids : i \in Int
  BY BoundAssumption DEF Ids, BoundAssumption
<1> QED
  BY <1>1, <1>2, <1>3 DEF Quiets, Applies

LEMMA WorkBetters ==
  ASSUME NEW s, ServiceOK(s), NEW r, r = [s EXCEPT !.work = @ \union {"write"}]
  PROVE  Better(s, r) /\ r.flight = s.flight
<1>1. s \in Services
  BY DEF ServiceOK
<1> DEFINE work == s.work \union {"write"}
<1>2. work \in SUBSET {"write", "focus"} /\ ("focus" \in s.work => "focus" \in work)
  BY <1>1 DEF Services
<1>3. r = [s EXCEPT !.work = work]
  OBVIOUS
<1> HIDE DEF work
<1>4. Settles(s, r) /\ Keeps(s, r) /\ r.j = s.j /\ r.flight = s.flight
  BY <1>1, <1>2, <1>3 DEF Settles, Keeps, Services
<1> QED
  BY <1>4, SettlesBetters

(* settle_applied_write, when the operation has left the journal: its undo, *)
(* if it had one, is the one the engine keeps pending, or none is.          *)
LEMMA SettleAppliedFollows ==
  ASSUME NEW s, Planned(s), NEW id \in Ids, Owed(s, {id}),
         FinalizerLast(s), Shown(s), NEW answered, NEW posted \in BOOLEAN
  PROVE  LET r == SettleApplied(s, id, answered, posted)
         IN  ServiceOK(r) /\ Applies(s, r, id)
<1> DEFINE f == FinishRecovery(s, {id})
           u == IF s.pay[id].undo /\ f.undo # 0 /\ answered
                THEN SettleUndo(f, "Applied", TRUE) ELSE f
           a == Abandon(f, answered)
           w == [u EXCEPT !.work = @ \union {"write"}]
           lost == s.pay[id].undo /\ ~(f.undo # 0 /\ answered)
           r == SettleApplied(s, id, answered, posted)
<1>1. s \in Services /\ JournalGood(s.j) /\ PlansOK(s)
  BY DEF Planned
<1>2. /\ Settles(s, f) /\ Keeps(s, f) /\ f.j = s.j /\ f.undo = s.undo /\ f.phase = s.phase
      /\ f.work = s.work /\ f \in Services /\ f.pay = s.pay
      /\ f.token # 0 => s.pay[id].token # f.token
  <2>1. id \in {id}
    OBVIOUS
  <2> QED
    BY <1>1, <2>1, FinishRecoverySettles DEF Settles
<1>3. /\ lost => r = Disconnect(a)
      /\ ~lost => r \in {w, CancelAllWrites(u, TRUE, answered)}
  <2>1. r = IF lost THEN Disconnect(a)
            ELSE IF posted THEN w ELSE CancelAllWrites(u, TRUE, answered)
    BY DEF SettleApplied
  <2> HIDE DEF f, u, a, w, r
  <2> QED
    BY <2>1
<1> HIDE DEF f, r
<1>4. /\ f.token # 0 => \E i \in Queued(s.j) : s.pay[i].token = f.token
      /\ s.undo # 0 => s.undo \in Queued(s.j) \union {id} /\ s.pay[s.undo].undo
      /\ \A i, k \in Queued(s.j) \union {id} : s.pay[i].undo /\ s.pay[k].undo => i = k
      /\ s.phase = "DeferredQueued" => "focus" \in s.work
  BY <1>2 DEF Owed, Settles
<1>5. Planned(f)
  BY <1>1, <1>2, PlannedSettle, SameQueueSame DEF Planned
<1>6. \A x \in Services : Quiets(x, x)
  <2>1. \A x \in Services : x.j.nextId \in Nat
    BY DEF Services, Journals
  <2> QED
    BY <2>1 DEF Quiets, Keeps
<1>7. Quiets(s, f)
  BY <1>1, <1>2, SettlesQuiets
<1>8. CASE lost
  <2>1. /\ Settles(f, a) /\ JournalGood(a.j) /\ a.j.nextId = s.j.nextId
        /\ a.j.ops = << >> /\ a.text = Empty /\ a.phase = "Idle"
        /\ a.token # 0 => \A i \in Queued(s.j) : s.pay[i].token # a.token
        /\ \A any : Keeps(any, a)
    BY <1>1, <1>2, AbandonSettles
  <2> HIDE DEF a, lost
  <2>2. a.token = 0
    BY <1>4, <2>1 DEF Settles
  <2> DEFINE d == Disconnect(a)
  <2>3. /\ Settles(a, d) /\ Keeps(a, d) /\ d.j = a.j /\ d.undo = 0 /\ d.token = 0
        /\ d.phase = "Idle" /\ d.text = Empty /\ d \in Services
    BY <2>1, <2>2, DisconnectSettles DEF Settles
  <2> HIDE DEF d
  <2>4. Settles(s, d) /\ Keeps(s, d) /\ d.pay = s.pay
    BY <1>2, <2>1, <2>3, SettlesTwice, KeepsTwice DEF Settles
  <2>5. PlansOK(d)
    BY <1>1, <2>1, <2>3, <2>4, EmptyPlans
  <2>6. Owed(d, {}) /\ FinalizerLast(d) /\ Shown(d)
    BY <2>1, <2>3 DEF Owed, Queued, FinalizerLast, Shown
  <2>7. Quiets(s, d)
    BY <1>1, <2>1, <2>3, <2>4, SettlesQuiets
  <2> QED
    BY <1>3, <1>8, <2>1, <2>3, <2>5, <2>6, <2>7
       DEF ServiceOK, JournalGood, Applies, Quiets, r, d
<1>9. CASE ~lost
  <2>1. ServiceOK(u) /\ Applies(s, u, id)
    <3>1. CASE s.pay[id].undo
      <4> DEFINE told == [f.told EXCEPT ![f.undo] = "Applied"]
      <4>1. f.undo # 0 /\ answered /\ f.undo = id
        BY <1>2, <1>4, <1>9, <3>1
      <4>2. u = [f EXCEPT !.told = told, !.undo = 0, !.reading = f.reading]
        BY <3>1, <4>1, <1>2 DEF SettleUndo
      <4>3. told \in [Ids -> UndoTold] /\ \A i \in Ids : told[i] = "Applied" =>
                                            f.told[i] = "Applied" \/ i = id
        BY <1>2, <4>1 DEF Services, UndoTold
      <4> HIDE DEF told
      <4> DEFINE v == [f EXCEPT !.told = told, !.undo = 0, !.reading = f.reading]
      <4>4. v \in Services
        BY <1>2, <4>3 DEF Services
      <4>5. /\ v.pay = f.pay /\ v.nextFlight = f.nextFlight /\ v.told = told /\ v.j = f.j
            /\ v.flight = f.flight /\ v.known = f.known /\ v.text = f.text /\ v.ctx = f.ctx
            /\ v.token = f.token /\ v.phase = f.phase /\ v.work = f.work /\ v.undo = 0
        BY <1>2 DEF Services
      <4> HIDE DEF v, u
      <4>6. Keeps(f, v)
        BY <4>5 DEF Keeps
      <4>7. Keeps(s, v)
        BY <1>2, <4>6, KeepsTwice
      <4>8. PlansOK(v) /\ JournalGood(v.j)
        BY <1>1, <1>2, <4>5 DEF PlansOK
      <4>9. Owed(v, {})
        BY <1>2, <1>4, <4>5 DEF Owed
      <4>10. FinalizerLast(v) /\ Shown(v)
        <5>1. v.j = s.j /\ v.phase = s.phase
          BY <1>2, <4>5
        <5> QED
          BY <4>7, <5>1, ShownKept DEF FinalizerLast
      <4>11. Applies(s, v, id)
        <5>1. s.j.nextId \in Nat
          BY <1>1 DEF Services, Journals
        <5> QED
          BY <1>2, <3>1, <4>3, <4>5, <4>7, <5>1 DEF Applies, Settles
      <4> QED
        BY <4>2, <4>4, <4>8, <4>9, <4>10, <4>11 DEF ServiceOK, JournalGood, v
    <3>2. CASE ~s.pay[id].undo
      <4>1. u = f
        BY <3>2
      <4> HIDE DEF u
      <4>2. Owed(f, {})
        BY <1>2, <1>4, <3>2 DEF Owed
      <4>3. FinalizerLast(f) /\ Shown(f)
        BY <1>2, ShownKept DEF FinalizerLast
      <4> QED
        BY <1>5, <1>7, <4>1, <4>2, <4>3 DEF ServiceOK, Planned, JournalGood, Applies, Quiets
    <3> QED
      BY <3>1, <3>2
  <2> HIDE DEF u
  <2>2. ServiceOK(w) /\ Quiets(u, w)
    BY <2>1, WorkBetters DEF Better
  <2>3. ServiceOK(CancelAllWrites(u, TRUE, answered))
        /\ Quiets(u, CancelAllWrites(u, TRUE, answered))
    <3>1. TRUE \in BOOLEAN
      OBVIOUS
    <3> QED
      BY <2>1, <3>1, CancelAllBetters DEF Better
  <2> HIDE DEF w, lost
  <2>4. r \in {w, CancelAllWrites(u, TRUE, answered)}
    BY <1>3, <1>9
  <2>5. ServiceOK(r) /\ Quiets(u, r)
    BY <2>2, <2>3, <2>4
  <2>6. r \in Services /\ u \in Services
    BY <2>1, <2>5 DEF ServiceOK
  <2>7. Applies(s, r, id)
    BY <1>1, <2>1, <2>5, <2>6, AppliesThenQuiets
  <2> QED
    BY <2>5, <2>7 DEF r
<1> QED
  BY <1>8, <1>9

-----------------------------------------------------------------------------
(* Accepting a write.                                                       *)

LEMMA NatFields ==
  ASSUME NEW s \in Services
  PROVE  /\ s.j \in Journals /\ s.j.nextId \in Nat /\ s.nextToken \in Nat
         /\ s.token \in Nat /\ s.flight \in Nat /\ s.nextFlight \in Nat
         /\ s.j.tvis \in Visible /\ s.j.cvis \in Visible
         /\ s.text \in Visible /\ s.reading \in Visible
BY DEF Services, Journals

LEMMA QueuedIds ==
  ASSUME NEW s, Planned(s)
  PROVE  \A i \in Queued(s.j) : i \in Ids /\ i < s.j.nextId
<1> SUFFICES ASSUME NEW n \in DOMAIN s.j.ops
             PROVE  s.j.ops[n].id \in Ids /\ s.j.ops[n].id < s.j.nextId
  BY DEF Queued
<1>1. n \in 1..Len(s.j.ops)
  BY DEF Planned, JournalGood, JournalOK, Journals
<1> QED
  BY <1>1 DEF Planned, PlansOK, JournalGood, JournalInv, IdsIncrease

(* An open reservation plans nothing, and its id is nobody's undo.          *)
LEMMA ReserveFollows ==
  ASSUME NEW s, ServiceOK(s), s.phase # "EngineCommitStarted",
         NEW c \in Contexts, CanReserve(s.j, c), s.j.nextId \in Ids
  PROVE  LET r == [s EXCEPT !.j = Reserve(@)]
             id == s.j.nextId
         IN  /\ Follows(s, r) /\ r.j = Reserve(s.j) /\ r.pay = s.pay
             /\ r.undo = s.undo /\ r.token = s.token /\ r.phase = s.phase
             /\ r.text = s.text /\ r.known = s.known /\ r.ctx = s.ctx
             /\ r.flight = s.flight /\ r.nextFlight = s.nextFlight
             /\ r.work = s.work /\ r.told = s.told /\ r.reading = s.reading
             /\ r.j.nextId = id + 1 /\ CanCancelReservation(r.j, id)
             /\ Queued(r.j) = Queued(s.j) \union {id}
<1> DEFINE k == Reserve(s.j)
           id == s.j.nextId
           r == [s EXCEPT !.j = k]
<1>1. Planned(s) /\ JournalGood(s.j) /\ s \in Services
  BY DEF ServiceOK, Planned, JournalGood
<1>2. /\ JournalGood(k) /\ k.nextId = id + 1
      /\ k.cvis = s.j.cvis /\ k.active = s.j.active
      /\ Len(k.ops) = Len(s.j.ops) + 1
      /\ \A n \in 1..Len(s.j.ops) : k.ops[n] = s.j.ops[n]
      /\ k.ops[Len(k.ops)].id = id /\ k.ops[Len(k.ops)].phase = "Reserved"
      /\ CanCancelReservation(k, id)
  BY <1>1, ReserveKeeps
<1>3. k \in Journals
  BY <1>2 DEF JournalGood, JournalOK
<1> HIDE DEF k
<1>4. /\ DOMAIN k.ops = 1..Len(k.ops) /\ DOMAIN s.j.ops = 1..Len(s.j.ops)
      /\ Len(s.j.ops) \in Nat /\ id \in Nat
  <2>1. s.j \in Journals /\ id \in Nat
    BY <1>1, NatFields
  <2>2. k.ops \in Seq(Operations)
    BY <1>3 DEF Journals
  <2>3. s.j.ops \in Seq(Operations)
    BY <2>1 DEF Journals
  <2> QED
    BY <2>1, <2>2, <2>3
<1>5. /\ r \in Services /\ r.j = k /\ r.pay = s.pay
      /\ r.undo = s.undo /\ r.token = s.token /\ r.phase = s.phase
      /\ r.text = s.text /\ r.known = s.known /\ r.ctx = s.ctx
      /\ r.flight = s.flight /\ r.nextFlight = s.nextFlight
      /\ r.work = s.work /\ r.told = s.told /\ r.reading = s.reading
  <2>1. r \in Services
    BY <1>1, <1>3 DEF Services
  <2>2. /\ r.j = k /\ r.pay = s.pay
        /\ r.undo = s.undo /\ r.token = s.token /\ r.phase = s.phase
        /\ r.text = s.text /\ r.known = s.known /\ r.ctx = s.ctx
        /\ r.flight = s.flight /\ r.nextFlight = s.nextFlight
        /\ r.work = s.work /\ r.told = s.told /\ r.reading = s.reading
    BY <1>1 DEF Services
  <2> QED
    BY <2>1, <2>2
<1> HIDE DEF r
<1>6. Queued(k) = Queued(s.j) \union {id}
  <2>1. \A n \in 1..Len(k.ops) : n \in 1..Len(s.j.ops) \/ n = Len(k.ops)
    BY <1>2, <1>4
  <2>2. \A n \in 1..Len(s.j.ops) : n \in 1..Len(k.ops)
    BY <1>2, <1>4
  <2>3. Len(k.ops) \in 1..Len(k.ops)
    BY <1>2, <1>4
  <2>4. \A n \in 1..Len(s.j.ops) : k.ops[n].id = s.j.ops[n].id
    BY <1>2
  <2>5. k.ops[Len(k.ops)].id = id
    BY <1>2
  <2> HIDE DEF id
  <2>6. Queued(k) \subseteq Queued(s.j) \union {id}
    BY <1>4, <2>1, <2>4, <2>5 DEF Queued
  <2>7. Queued(s.j) \union {id} \subseteq Queued(k)
    BY <1>4, <2>2, <2>3, <2>4, <2>5 DEF Queued
  <2> QED
    BY <2>6, <2>7
<1>7. PlansOK(r)
  <2>1. ASSUME NEW n \in DOMAIN k.ops
        PROVE  /\ k.ops[n].id \in Ids
               /\ k.ops[n].phase # "Reserved" =>
                    /\ k.ops[n].writes <=> s.pay[k.ops[n].id].updates # << >>
                    /\ k.ops[n].before = s.pay[k.ops[n].id].before
                    /\ k.ops[n].after = s.pay[k.ops[n].id].after
    <3>1. n \in 1..Len(s.j.ops) \/ n = Len(k.ops)
      BY <1>2, <1>4
    <3> QED
      BY <1>1, <1>2, <1>4, <3>1 DEF Planned, PlansOK
  <2>2. \A i \in Ids : i \in Int
    BY BoundAssumption DEF Ids, BoundAssumption
  <2>3. \A i \in Ids : PlanOK(s.pay[i]) /\ (id <= i => ~s.pay[i].undo)
    BY <1>1 DEF Planned, PlansOK
  <2>4. \A i \in Ids : k.nextId <= i => id <= i
    BY <1>2, <1>4, <2>2
  <2> QED
    BY <1>5, <2>1, <2>3, <2>4 DEF PlansOK
<1>8. ~s.pay[id].undo
  BY <1>1, <1>4 DEF Planned, PlansOK
<1>9. Owed(r, {})
  BY <1>5, <1>6, <1>8 DEF ServiceOK, Owed
<1>10. FinalizerLast(r) /\ Shown(r) /\ Keeps(s, r)
  BY <1>2, <1>5 DEF ServiceOK, FinalizerLast, Shown, Keeps
<1>11. Quiets(s, r)
  BY <1>2, <1>4, <1>5, <1>10 DEF Quiets
<1> QED
  BY <1>2, <1>5, <1>6, <1>7, <1>9, <1>10, <1>11
     DEF ServiceOK, JournalGood, Follows, r, k
(* One operation more is queued, planned as its payload says.               *)
Fits(o, r, w, updates, after, undo, token) ==
  /\ Planned(w) /\ w.j.nextId = o.j.nextId + 1
  /\ w.j.cvis = o.j.cvis /\ w.j.active = o.j.active
  /\ Queued(w.j) = Queued(o.j) \union {o.j.nextId} /\ o.j.nextId \notin Queued(o.j)
  /\ w.j.ops # << >>
  /\ Last(w.j.ops).phase = "Ready" /\ Last(w.j.ops).after = after
  /\ Last(w.j.ops).writes <=> updates # << >>
  /\ w.pay[o.j.nextId].token = token /\ w.pay[o.j.nextId].undo = undo
  /\ \A i \in Ids : i # o.j.nextId => w.pay[i] = o.pay[i]
  /\ w.text = r.text /\ w.known = r.known /\ w.ctx = r.ctx
  /\ w.flight = r.flight /\ w.nextFlight = r.nextFlight
  /\ w.phase = r.phase /\ w.reconcile = r.reconcile /\ w.work = r.work
  /\ w.token = r.token /\ w.undo = r.undo /\ w.told = r.told

(* What submit_pending_write accepts: one more operation, planned as its    *)
(* payload says, in a service that shows what it showed.                    *)
LEMMA AttachFits ==
  ASSUME NEW o, Planned(o), NEW c \in Contexts, CanReserve(o.j, c),
         o.j.nextId \in Ids, NEW r \in Services, r.j = Reserve(o.j), r.pay = o.pay,
         NEW updates \in Seq(Updates), NEW after \in Visible, NEW undo \in BOOLEAN,
         NEW token \in Nat, NEW sync \in BOOLEAN, NEW from \in Visible,
         PlanOK([updates |-> updates, before |-> o.j.tvis, after |-> after,
                 undo |-> undo, token |-> token, sync |-> sync, from |-> from])
  PROVE  LET id == o.j.nextId
             w == Attach_(r, id, updates, after, undo, token, sync, from)
         IN  Fits(o, r, w, updates, after, undo, token)
<1> DEFINE id == o.j.nextId
           writes == updates # << >>
           k == Attach(Reserve(o.j), id, writes, o.j.tvis, after)
           p == [updates |-> updates, before |-> o.j.tvis, after |-> after,
                 undo |-> undo, token |-> token, sync |-> sync, from |-> from]
           pay == [o.pay EXCEPT ![id] = p]
           n == Len(o.j.ops)
           w == Attach_(r, id, updates, after, undo, token, sync, from)
           v == [r EXCEPT !.j = k, !.pay = pay]
<1>1. JournalGood(o.j) /\ o \in Services /\ PlansOK(o) /\ writes \in BOOLEAN
  BY DEF Planned
<1> HIDE DEF writes
<1>2. /\ JournalGood(k) /\ k.nextId = id + 1
      /\ k.cvis = o.j.cvis /\ k.active = o.j.active
      /\ Len(k.ops) = n + 1
      /\ \A m \in 1..n : k.ops[m] = o.j.ops[m]
      /\ k.ops[Len(k.ops)].id = id /\ k.ops[Len(k.ops)].phase = "Ready"
      /\ k.ops[Len(k.ops)].writes = writes /\ k.ops[Len(k.ops)].before = o.j.tvis
      /\ k.ops[Len(k.ops)].after = after
  <2> DEFINE jj == o.j
  <2>1. JournalGood(jj) /\ CanReserve(jj, c)
    BY <1>1
  <2> HIDE DEF jj, id, n
  <2>2. LET x == Attach(Reserve(jj), jj.nextId, writes, jj.tvis, after)
        IN  /\ JournalGood(x) /\ x.nextId = jj.nextId + 1
            /\ x.cvis = jj.cvis /\ x.active = jj.active
            /\ Len(x.ops) = Len(jj.ops) + 1
            /\ \A m \in 1..Len(jj.ops) : x.ops[m] = jj.ops[m]
            /\ LET op == x.ops[Len(x.ops)]
               IN  /\ op.id = jj.nextId /\ op.phase = "Ready"
                   /\ op.writes = writes /\ op.before = jj.tvis /\ op.after = after
    BY <1>1, <2>1, AttachKeeps
  <2> QED
    BY <2>2 DEF jj, id, n
<1>3. Reserve(o.j).tvis = o.j.tvis
  BY <1>1, ReserveKeeps
<1>4. w = v
  BY <1>3 DEF Attach_, writes
<1>5. p \in Payloads /\ PlanOK(p)
  BY <1>1, NatFields DEF Payloads
<1> HIDE DEF p
<1>6. pay \in [Ids -> Payloads] /\ pay[id] = p /\ \A i \in Ids : i # id => pay[i] = o.pay[i]
  BY <1>1, <1>5 DEF Services
<1> HIDE DEF k, pay, w
<1>7. /\ DOMAIN k.ops = 1..Len(k.ops) /\ DOMAIN o.j.ops = 1..n /\ k \in Journals
      /\ n \in Nat /\ id \in Nat /\ k.ops \in Seq(Operations)
  <2>1. k \in Journals /\ o.j \in Journals /\ id \in Nat
    BY <1>1, <1>2, NatFields DEF JournalGood, JournalOK
  <2>2. k.ops \in Seq(Operations) /\ o.j.ops \in Seq(Operations)
    BY <2>1 DEF Journals
  <2> QED
    BY <2>1, <2>2
<1>8. /\ w \in Services /\ w.j = k /\ w.pay = pay
      /\ w.text = r.text /\ w.known = r.known /\ w.ctx = r.ctx
      /\ w.flight = r.flight /\ w.nextFlight = r.nextFlight
      /\ w.phase = r.phase /\ w.reconcile = r.reconcile /\ w.work = r.work
      /\ w.token = r.token /\ w.undo = r.undo /\ w.told = r.told
  BY <1>4, <1>6, <1>7 DEF Services
<1>9. Queued(k) = Queued(o.j) \union {id}
  <2>1. \A m \in 1..Len(k.ops) : m \in 1..n \/ m = Len(k.ops)
    BY <1>2, <1>7
  <2>2. \A m \in 1..n : m \in 1..Len(k.ops)
    BY <1>2, <1>7
  <2>3. Len(k.ops) \in 1..Len(k.ops) /\ k.ops[Len(k.ops)].id = id
    BY <1>2, <1>7
  <2>4. \A m \in 1..n : k.ops[m] = o.j.ops[m]
    BY <1>2
  <2>5. DOMAIN k.ops = 1..Len(k.ops) /\ DOMAIN o.j.ops = 1..n
    BY <1>7
  <2> HIDE DEF id, n
  <2> QED
    BY <2>1, <2>2, <2>3, <2>4, <2>5 DEF Queued
<1>10. id \notin Queued(o.j)
  <2>1. \A i \in Queued(o.j) : i < id
    BY QueuedIds
  <2> QED
    BY <1>7, <2>1
<1>11. k.ops # << >> /\ Last(k.ops) = k.ops[Len(k.ops)]
  BY <1>2, <1>7 DEF Last
<1>12. p.token = token /\ p.undo = undo /\ p.updates = updates /\ p.before = o.j.tvis
       /\ p.after = after
  BY DEF p
<1>13. PlansOK(w)
  <2>1. \A i \in Ids : PlanOK(o.pay[i]) /\ (o.j.nextId <= i => ~o.pay[i].undo)
    BY <1>1 DEF PlansOK
  <2>2. \A m \in DOMAIN o.j.ops :
          /\ o.j.ops[m].id \in Ids
          /\ o.j.ops[m].phase # "Reserved" =>
               /\ o.j.ops[m].writes <=> o.pay[o.j.ops[m].id].updates # << >>
               /\ o.j.ops[m].before = o.pay[o.j.ops[m].id].before
               /\ o.j.ops[m].after = o.pay[o.j.ops[m].id].after
    BY <1>1 DEF PlansOK
  <2>3. ASSUME NEW m \in DOMAIN k.ops
        PROVE  /\ k.ops[m].id \in Ids
               /\ k.ops[m].phase # "Reserved" =>
                    /\ k.ops[m].writes <=> pay[k.ops[m].id].updates # << >>
                    /\ k.ops[m].before = pay[k.ops[m].id].before
                    /\ k.ops[m].after = pay[k.ops[m].id].after
    <3>1. CASE m \in 1..n
      <4>1. m \in DOMAIN o.j.ops /\ k.ops[m] = o.j.ops[m] /\ o.j.ops[m].id # id
        BY <1>2, <1>7, <1>10, <3>1 DEF Queued
      <4>2. o.j.ops[m].id \in Ids
        BY <2>2, <4>1
      <4>3. pay[o.j.ops[m].id] = o.pay[o.j.ops[m].id]
        BY <1>6, <4>1, <4>2
      <4> DEFINE op == o.j.ops[m]
                 plan == o.pay[op.id]
      <4>4. k.ops[m] = op /\ pay[op.id] = plan
        BY <4>1, <4>3
      <4>5. /\ op.id \in Ids
            /\ op.phase # "Reserved" =>
                 /\ op.writes <=> plan.updates # << >>
                 /\ op.before = plan.before /\ op.after = plan.after
        BY <2>2, <4>1
      <4> HIDE DEF op, plan
      <4> QED
        BY <4>4, <4>5
    <3>2. CASE m = Len(k.ops)
      BY <1>2, <1>6, <1>12, <3>2 DEF writes
    <3> QED
      BY <1>2, <1>7, <3>1, <3>2
  <2>4. \A i \in Ids : i \in Int
    BY BoundAssumption DEF Ids, BoundAssumption
  <2>5. ASSUME NEW i \in Ids
        PROVE  PlanOK(pay[i]) /\ (k.nextId <= i => ~pay[i].undo)
    <3>1. CASE i = id
      BY <1>2, <1>5, <1>6, <1>7, <3>1
    <3>2. CASE i # id
      <4>1. pay[i] = o.pay[i] /\ PlanOK(o.pay[i])
        BY <1>6, <2>1, <3>2
      <4>2. k.nextId <= i => o.j.nextId <= i
        BY <1>2, <1>7, <2>4
      <4> QED
        BY <2>1, <4>1, <4>2
    <3> QED
      BY <3>1, <3>2
  <2> QED
    BY <1>8, <2>3, <2>5 DEF PlansOK
<1> QED
  BY <1>2, <1>6, <1>8, <1>9, <1>10, <1>11, <1>12, <1>13 DEF Planned, Fits, writes, w

(* It is owed for like what was queued before; a finalizer of the engine's  *)
(* commit has to write, and what is shown stays.                            *)
LEMMA AttachFollows ==
  ASSUME NEW o, Planned(o), Shown(o), NEW c \in Contexts, CanReserve(o.j, c),
         o.j.nextId \in Ids, NEW r \in Services, r.j = Reserve(o.j), r.pay = o.pay,
         NEW updates \in Seq(Updates), NEW after \in Visible, NEW undo \in BOOLEAN,
         NEW token \in Nat, NEW sync \in BOOLEAN, NEW from \in Visible,
         PlanOK([updates |-> updates, before |-> o.j.tvis, after |-> after,
                 undo |-> undo, token |-> token, sync |-> sync, from |-> from]),
         r.text = o.text, r.known = o.known, r.ctx = o.ctx, r.flight = o.flight,
         r.nextFlight = o.nextFlight, r.told = o.told,
         r.token # 0 => r.token = token \/ \E i \in Queued(o.j) : o.pay[i].token = r.token,
         r.undo # 0 => \/ r.undo = o.j.nextId /\ undo
                       \/ r.undo \in Queued(o.j) /\ o.pay[r.undo].undo,
         \A i, k \in Queued(o.j) : o.pay[i].undo /\ o.pay[k].undo => i = k,
         undo => ~HasUndo(o, Queued(o.j)),
         r.phase = "DeferredQueued" => "focus" \in r.work,
         r.phase = "EngineCommitStarted" => updates # << >> /\ after = Empty
  PROVE  Follows(o, Attach_(r, o.j.nextId, updates, after, undo, token, sync, from))
<1> DEFINE id == o.j.nextId
           w == Attach_(r, id, updates, after, undo, token, sync, from)
<1>f. Fits(o, r, w, updates, after, undo, token)
  BY AttachFits
<1> HIDE DEF w
<1>1. /\ Planned(w) /\ w.j.nextId = id + 1
      /\ w.j.cvis = o.j.cvis /\ w.j.active = o.j.active
      /\ Queued(w.j) = Queued(o.j) \union {id} /\ id \notin Queued(o.j)
      /\ w.j.ops # << >>
      /\ Last(w.j.ops).phase = "Ready" /\ Last(w.j.ops).after = after
      /\ Last(w.j.ops).writes <=> updates # << >>
      /\ w.pay[id].token = token /\ w.pay[id].undo = undo
      /\ \A i \in Ids : i # id => w.pay[i] = o.pay[i]
      /\ w.text = r.text /\ w.known = r.known /\ w.ctx = r.ctx
      /\ w.flight = r.flight /\ w.nextFlight = r.nextFlight
      /\ w.phase = r.phase /\ w.reconcile = r.reconcile /\ w.work = r.work
      /\ w.token = r.token /\ w.undo = r.undo /\ w.told = r.told
  BY <1>f DEF Fits
<1>2. \A i \in Queued(o.j) : i \in Ids /\ i # id /\ w.pay[i] = o.pay[i]
  BY <1>1, QueuedIds
<1>3. Owed(w, {})
  <2>1. r.token # 0 => \E i \in Queued(w.j) : w.pay[i].token = r.token
    BY <1>1, <1>2
  <2>2. r.undo # 0 => r.undo \in Queued(w.j) /\ w.pay[r.undo].undo
    BY <1>1, <1>2
  <2>3. \A i, k \in Queued(w.j) : w.pay[i].undo /\ w.pay[k].undo => i = k
    BY <1>1, <1>2 DEF HasUndo
  <2> QED
    BY <1>1, <2>1, <2>2, <2>3 DEF Owed
<1>4. FinalizerLast(w)
  BY <1>1 DEF FinalizerLast
<1>5. Shown(w)
  BY <1>1 DEF Shown
<1>6. Keeps(o, w)
  BY <1>1 DEF Keeps
<1>7. id \in Nat
  BY NatFields DEF Planned
<1>8. Quiets(o, w)
  BY <1>1, <1>6, <1>7 DEF Quiets
<1> QED
  BY <1>1, <1>3, <1>4, <1>5, <1>8 DEF Follows, ServiceOK, Planned, JournalGood, w

LEMMA Pair ==
  ASSUME NEW a, NEW b
  PROVE  <<a>> \o <<b>> = <<a, b>>
<1> DEFINE S == {a, b}
           s == <<a>> \o <<b>>
           t == <<a, b>>
<1>1. <<a>> \in Seq(S) /\ <<b>> \in Seq(S) /\ Len(<<a>>) = 1 /\ Len(<<b>>) = 1
  OBVIOUS
<1>2. t \in Seq(S) /\ Len(t) = 2 /\ t[1] = a /\ t[2] = b
  OBVIOUS
<1>3. s \in Seq(S) /\ Len(s) = 2 /\ s[1] = a /\ s[2] = b
  BY <1>1, ConcatProperties
<1> HIDE DEF s, t
<1>4. \A i \in 1..Len(s) : s[i] = t[i]
  BY <1>2, <1>3
<1>5. s = t
  BY <1>2, <1>3, <1>4, SeqEqual
<1> QED
  BY <1>5 DEF s, t

(* A plan ends at what it plans to show, and deletes only in front of a     *)
(* preedit that is new.                                                     *)
LEMMA PlanFits ==
  ASSUME NEW before \in Visible, NEW reading \in Visible, NEW out \in Answers(reading),
         ~PlanFails(before, out), NEW token, NEW sync, NEW from
  PROVE  /\ Plan(before, out) \in Seq(Updates) /\ After(before, out) \in Visible
         /\ PlanOK([updates |-> Plan(before, out), before |-> before,
                    after |-> After(before, out), undo |-> out.del,
                    token |-> token, sync |-> sync, from |-> from])
<1> DEFINE plan == Plan(before, out)
           after == After(before, out)
           delete == [kind |-> "Delete", v |-> Empty]
           commit == [kind |-> "Commit", v |-> Empty]
           show == [kind |-> "Show", v |-> out.preedit]
           discard == [kind |-> "Discard", v |-> Empty]
<1>1. /\ out.del \in BOOLEAN /\ out.preedit \in Visible
      /\ out.del => out.commit = "none" /\ out.preedit # Empty /\ before = Empty
  <2>1. \/ \E v \in Visible : out = [del |-> FALSE, commit |-> "none", preedit |-> v]
        \/ \E v \in Visible : out = [del |-> FALSE, commit |-> "text", preedit |-> v]
        \/ \E v \in Visible \ {Empty} :
             out = [del |-> TRUE, commit |-> "none", preedit |-> v]
        \/ out = [del |-> FALSE, commit |-> "space", preedit |-> Empty]
    BY DEF Answers
  <2>2. out.del \in BOOLEAN /\ out.preedit \in Visible
    <3>1. Empty \in Visible
      BY JournalAssumption DEF JournalAssumption
    <3>2. \A v \in Visible, b \in BOOLEAN, k \in {"none", "text", "space"} :
            LET o == [del |-> b, commit |-> k, preedit |-> v]
            IN  o.del \in BOOLEAN /\ o.preedit \in Visible
      OBVIOUS
    <3> QED
      BY <2>1, <3>1, <3>2
  <2>3. out.del => out.commit = "none" /\ out.preedit # Empty
    BY <2>1
  <2> QED
    BY <2>2, <2>3 DEF PlanFails
<1>2. {delete, commit, show, discard} \subseteq Updates
  BY <1>1, JournalAssumption DEF Updates, UpdateKinds, JournalAssumption
<1>3. after \in Visible
  BY <1>1 DEF After
<1>4. \/ plan = << >> /\ after = before /\ ~out.del
      \/ plan = <<delete, show>> /\ after = out.preedit /\ before = Empty
      \/ plan = <<commit, show>> /\ after = out.preedit /\ ~out.del
      \/ plan = <<commit>> /\ after = Empty /\ ~out.del
      \/ plan = <<show>> /\ after = out.preedit /\ ~out.del
      \/ plan = <<discard>> /\ after = Empty /\ ~out.del
  <2>1. CASE KeepsReading(before, out)
    BY <1>1, <2>1 DEF KeepsReading, Plan, After
  <2>2. CASE ~KeepsReading(before, out)
    <3> DEFINE d == One(out.del, "Delete", Empty)
               c == One(out.commit # "none", "Commit", Empty)
               h == One(out.preedit # Empty, "Show", out.preedit)
               e == One(out.preedit = Empty /\ out.commit = "none" /\ before # Empty,
                        "Discard", Empty)
    <3>1. plan = d \o c \o h \o e /\ after = out.preedit
      BY <2>2 DEF Plan, After
    <3>2. /\ d = IF out.del THEN <<delete>> ELSE << >>
          /\ c = IF out.commit # "none" THEN <<commit>> ELSE << >>
          /\ h = IF out.preedit # Empty THEN <<show>> ELSE << >>
          /\ e = IF out.preedit = Empty /\ out.commit = "none" /\ before # Empty
                 THEN <<discard>> ELSE << >>
      BY DEF One
    <3> HIDE DEF d, c, h, e, plan, after, delete, commit, show, discard
    <3>3. CASE out.del
      <4>1. d = <<delete>> /\ c = << >> /\ h = <<show>> /\ e = << >>
        BY <1>1, <3>2, <3>3
      <4>2. d \o c = <<delete>>
        BY <4>1
      <4>3. d \o c \o h = <<delete, show>>
        BY <4>1, <4>2, Pair
      <4>4. d \o c \o h \o e = <<delete, show>>
        BY <4>1, <4>3
      <4> QED
        BY <1>1, <3>1, <3>3, <4>4
    <3>4. CASE ~out.del /\ out.commit # "none" /\ out.preedit # Empty
      <4>1. d = << >> /\ c = <<commit>> /\ h = <<show>> /\ e = << >>
        BY <3>2, <3>4
      <4>2. d \o c = <<commit>>
        BY <4>1
      <4>3. d \o c \o h = <<commit, show>>
        BY <4>1, <4>2, Pair
      <4>4. d \o c \o h \o e = <<commit, show>>
        BY <4>1, <4>3
      <4> QED
        BY <3>1, <3>4, <4>4
    <3>5. CASE ~out.del /\ out.commit # "none" /\ out.preedit = Empty
      <4>1. d = << >> /\ c = <<commit>> /\ h = << >> /\ e = << >>
        BY <3>2, <3>5
      <4> QED
        BY <3>1, <3>5, <4>1
    <3>6. CASE ~out.del /\ out.commit = "none" /\ out.preedit # Empty
      <4>1. d = << >> /\ c = << >> /\ h = <<show>> /\ e = << >>
        BY <3>2, <3>6
      <4> QED
        BY <3>1, <3>6, <4>1
    <3>7. CASE ~out.del /\ out.commit = "none" /\ out.preedit = Empty /\ before # Empty
      <4>1. d = << >> /\ c = << >> /\ h = << >> /\ e = <<discard>>
        BY <3>2, <3>7
      <4> QED
        BY <3>1, <3>7, <4>1
    <3>8. CASE ~out.del /\ out.commit = "none" /\ out.preedit = Empty /\ before = Empty
      <4>1. d = << >> /\ c = << >> /\ h = << >> /\ e = << >>
        BY <3>2, <3>8
      <4> QED
        BY <3>1, <3>8, <4>1
    <3> QED
      BY <3>3, <3>4, <3>5, <3>6, <3>7, <3>8
  <2> QED
    BY <2>1, <2>2
<1>5. /\ delete.kind = "Delete" /\ commit.kind # "Delete" /\ show.kind # "Delete"
      /\ discard.kind # "Delete" /\ commit.v = Empty /\ discard.v = Empty
      /\ show.v = out.preedit
  OBVIOUS
<1> HIDE DEF plan, after, delete, commit, show, discard
<1>6. plan \in Seq(Updates)
  <2>1. /\ delete \in Updates /\ commit \in Updates /\ show \in Updates
        /\ discard \in Updates
    BY <1>2
  <2>2. \A a, b \in Updates : <<a, b>> \in Seq(Updates) /\ <<a>> \in Seq(Updates)
    OBVIOUS
  <2>3. << >> \in Seq(Updates)
    OBVIOUS
  <2> QED
    BY <1>4, <2>1, <2>2, <2>3
<1> DEFINE p == [updates |-> plan, before |-> before, after |-> after, undo |-> out.del,
                 token |-> token, sync |-> sync, from |-> from]
<1>7. p.updates = plan /\ p.before = before /\ p.after = after /\ p.undo = out.del
  OBVIOUS
<1> HIDE DEF p
<1>8. PlanOK(p)
  <2>1. CASE plan = << >> /\ after = before /\ ~out.del
    BY <1>7, <2>1 DEF PlanOK
  <2>2. CASE plan = <<delete, show>> /\ after = out.preedit /\ before = Empty
    <3>1. /\ plan # << >> /\ Last(plan) = show /\ Head(plan) = delete
          /\ DOMAIN plan = 1..2 /\ plan[1] = delete /\ plan[2] = show
      BY <2>2 DEF Last
    <3> QED
      BY <1>5, <1>7, <2>2, <3>1 DEF PlanOK
  <2>3. CASE plan = <<commit, show>> /\ after = out.preedit /\ ~out.del
    <3>1. /\ plan # << >> /\ Last(plan) = show
          /\ \A n \in DOMAIN plan : plan[n] \in {commit, show}
      BY <2>3 DEF Last
    <3> QED
      BY <1>5, <1>7, <2>3, <3>1 DEF PlanOK
  <2>4. ASSUME NEW u \in {commit, show, discard}, plan = <<u>>, after = u.v, ~out.del
        PROVE  PlanOK(p)
    <3>1. plan # << >> /\ Last(plan) = u /\ \A n \in DOMAIN plan : plan[n] = u
      BY <2>4 DEF Last
    <3>2. u.kind # "Delete"
      BY <1>5
    <3> QED
      BY <1>7, <2>4, <3>1, <3>2 DEF PlanOK
  <2> QED
    BY <1>4, <1>5, <2>1, <2>2, <2>3, <2>4
<1> QED
  BY <1>3, <1>6, <1>8 DEF plan, after, p

(* What a finalizer plans: to commit what the document shows.               *)
LEMMA CommitFits ==
  ASSUME NEW before, NEW token, NEW sync, NEW from
  PROVE  LET updates == One(TRUE, "Commit", Empty)
         IN  /\ updates \in Seq(Updates) /\ updates # << >>
             /\ PlanOK([updates |-> updates, before |-> before, after |-> Empty,
                        undo |-> FALSE, token |-> token, sync |-> sync, from |-> from])
<1> DEFINE u == [kind |-> "Commit", v |-> Empty]
           updates == <<u>>
           p == [updates |-> updates, before |-> before, after |-> Empty,
                 undo |-> FALSE, token |-> token, sync |-> sync, from |-> from]
<1>1. One(TRUE, "Commit", Empty) = updates
  BY DEF One
<1>2. u \in Updates /\ u.kind # "Delete" /\ u.v = Empty
  BY JournalAssumption DEF JournalAssumption, Updates, UpdateKinds
<1> HIDE DEF u
<1>3. /\ updates \in Seq(Updates) /\ updates # << >> /\ Last(updates) = u
      /\ \A n \in DOMAIN updates : updates[n] = u
  BY <1>2 DEF Last
<1> HIDE DEF updates
<1>4. p.updates = updates /\ p.after = Empty /\ ~p.undo
  OBVIOUS
<1> HIDE DEF p
<1>5. PlanOK(p)
  BY <1>2, <1>3, <1>4 DEF PlanOK
<1> QED
  BY <1>1, <1>3, <1>5 DEF p

(* The session has answered: what it reads now, and the undo it began.      *)
Answered(s, id, out) ==
  [s EXCEPT !.reading = out.preedit, !.undo = IF out.del THEN id ELSE 0]

LEMMA SubmitFollows ==
  ASSUME NEW o, ServiceOK(o), o.phase # "EngineCommitStarted", o.undo = 0,
         NEW c \in Contexts, CanReserve(o.j, c), o.j.nextId \in Ids,
         ~HasUndo(o, Queued(o.j)), NEW out \in Answers(o.reading), NEW answered
  PROVE  LET id == o.j.nextId
             r == Answered([o EXCEPT !.j = Reserve(@)], id, out)
         IN  Follows(o, Submit(r, id, out, o.reading, answered))
<1> DEFINE id == o.j.nextId
           r == [o EXCEPT !.j = Reserve(@)]
           q == Answered(r, id, out)
           s == Submit(q, id, out, o.reading, answered)
<1>1. Planned(o) /\ Shown(o) /\ Owed(o, {}) /\ o \in Services
  BY DEF ServiceOK, Planned, JournalGood
<1>2. /\ Follows(o, r) /\ r.j = Reserve(o.j) /\ r.pay = o.pay
      /\ r.undo = o.undo /\ r.token = o.token /\ r.phase = o.phase
      /\ r.text = o.text /\ r.known = o.known /\ r.ctx = o.ctx
      /\ r.flight = o.flight /\ r.nextFlight = o.nextFlight
      /\ r.work = o.work /\ r.told = o.told
      /\ CanCancelReservation(r.j, id) /\ r.j.tvis = o.j.tvis
  BY <1>1, ReserveFollows, ReserveKeeps DEF Planned
<1>3. r \in Services /\ ServiceOK(r)
  BY <1>2 DEF Follows, ServiceOK
<1> HIDE DEF r
<1>4. out.preedit \in Visible /\ out.del \in BOOLEAN
  <2>1. \/ \E v \in Visible : out = [del |-> FALSE, commit |-> "none", preedit |-> v]
        \/ \E v \in Visible : out = [del |-> FALSE, commit |-> "text", preedit |-> v]
        \/ \E v \in Visible \ {Empty} :
             out = [del |-> TRUE, commit |-> "none", preedit |-> v]
        \/ out = [del |-> FALSE, commit |-> "space", preedit |-> Empty]
    BY DEF Answers
  <2>2. Empty \in Visible
    BY JournalAssumption DEF JournalAssumption
  <2>3. \A v \in Visible, b \in BOOLEAN, k \in {"none", "text", "space"} :
          LET x == [del |-> b, commit |-> k, preedit |-> v]
          IN  x.del \in BOOLEAN /\ x.preedit \in Visible
    OBVIOUS
  <2> QED
    BY <2>1, <2>2, <2>3
<1>5. /\ q \in Services /\ q.j = r.j /\ q.pay = r.pay
      /\ q.undo = (IF out.del THEN id ELSE 0) /\ q.token = r.token /\ q.phase = r.phase
      /\ q.text = r.text /\ q.known = r.known /\ q.ctx = r.ctx
      /\ q.flight = r.flight /\ q.nextFlight = r.nextFlight
      /\ q.work = r.work /\ q.told = r.told
  <2> DEFINE undo == IF out.del THEN id ELSE 0
             reading == out.preedit
  <2>1. undo \in {0} \union Ids /\ reading \in Visible
    BY <1>4
  <2>2. q = [r EXCEPT !.reading = reading, !.undo = undo]
    BY DEF Answered
  <2> HIDE DEF undo, reading, q
  <2>3. /\ q \in Services /\ q.j = r.j /\ q.pay = r.pay
        /\ q.undo = undo /\ q.token = r.token /\ q.phase = r.phase
        /\ q.text = r.text /\ q.known = r.known /\ q.ctx = r.ctx
        /\ q.flight = r.flight /\ q.nextFlight = r.nextFlight
        /\ q.work = r.work /\ q.told = r.told
    BY <1>3, <2>1, <2>2 DEF Services
  <2> QED
    BY <2>3 DEF undo
<1> HIDE DEF q
<1>6. CASE PlanFails(o.j.tvis, out)
  <2> DEFINE u == IF out.del THEN SettleUndo(q, "Rejected", answered) ELSE q
             k == CancelReservation(u.j, id)
             x == Cancel(u, k, FALSE, "Rejected", answered)
  <2>1. s = Disconnect(x)
    BY <1>2, <1>5, <1>6 DEF Submit
  <2>2. Planned(q)
    BY <1>3, <1>5, SameShortens, PlansShorten DEF ServiceOK, Planned, JournalGood
  <2>3. Settles(q, u) /\ Keeps(q, u) /\ u.j = q.j /\ u.undo = 0 /\ u.token = q.token
        /\ u.phase = q.phase /\ u.work = q.work
    <3>1. "Rejected" \in {"Rejected", "Unknown"}
      OBVIOUS
    <3>2. CASE out.del
      BY <1>5, <3>1, <3>2, SettleUndoSettles
    <3>3. CASE ~out.del
      BY <1>5, <3>3, SettlesNothing
    <3> QED
      BY <3>2, <3>3
  <2> HIDE DEF u
  <2>4. ServiceOK(u)
    <3>1. Planned(u)
      BY <2>2, <2>3, PlannedSettle, SameQueueSame DEF Planned
    <3>2. u.pay = r.pay /\ u.j = r.j
      BY <1>5, <2>3 DEF Settles
    <3>3. Owed(u, {})
      BY <1>3, <1>5, <2>3, <3>2 DEF ServiceOK, Owed
    <3>4. FinalizerLast(u)
      BY <1>2, <1>5, <2>3 DEF FinalizerLast
    <3>5. Shown(q)
      BY <1>3, <1>5 DEF ServiceOK, Shown
    <3>6. Shown(u)
      BY <2>3, <3>5, ShownKept
    <3> QED
      BY <3>1, <3>3, <3>4, <3>6 DEF ServiceOK, Planned, JournalGood
  <2>5. Quiets(r, u)
    <3>1. Keeps(r, u)
      BY <1>5, <2>3 DEF Keeps
    <3>2. r.j.nextId \in Nat
      BY <1>3, NatFields
    <3> QED
      BY <1>5, <2>3, <3>1, <3>2 DEF Quiets, Settles
  <2>6. Better(u, x)
    <3>1. u.j = r.j /\ JournalGood(u.j) /\ id \in Nat
      BY <1>1, <1>5, <2>3, <2>4, NatFields DEF ServiceOK, JournalGood
    <3>2. Shortens(u.j, k) /\ k.cvis = u.j.cvis /\ k.active = u.j.active
      BY <1>2, <3>1, CancelReservationKeeps
    <3>3. FALSE \in BOOLEAN /\ "Rejected" \in {"Rejected", "Unknown"}
      OBVIOUS
    <3> HIDE DEF k, id
    <3> QED
      BY <2>4, <3>2, <3>3, CancelBetters
  <2> HIDE DEF x
  <2>7. Better(x, s)
    BY <2>1, <2>6, DisconnectBetters DEF Better
  <2> HIDE DEF s
  <2>8. Follows(r, u) /\ Follows(u, x) /\ Follows(x, s)
    BY <2>4, <2>5, <2>6, <2>7 DEF Follows, Better
  <2>9. Follows(r, s)
    BY <1>3, <2>8, FollowsTwice DEF Follows
  <2> QED
    BY <1>2, <2>9, FollowsTwice DEF s, q, r
<1>7. CASE ~PlanFails(o.j.tvis, out)
  <2> DEFINE updates == Plan(o.j.tvis, out)
             after == After(o.j.tvis, out)
             undo == out.del
             reading == o.reading
             w == Attach_(q, id, updates, after, undo, 0, TRUE, reading)
  <2>1. s = w
    BY <1>2, <1>5, <1>7 DEF Submit
  <2>2. o.j.tvis \in Visible /\ reading \in Visible
    BY <1>1, NatFields
  <2>3. /\ updates \in Seq(Updates) /\ after \in Visible
        /\ PlanOK([updates |-> updates, before |-> o.j.tvis, after |-> after,
                   undo |-> undo, token |-> 0, sync |-> TRUE, from |-> reading])
    BY <1>7, <2>2, PlanFits
  <2>4. undo \in BOOLEAN /\ 0 \in Nat /\ TRUE \in BOOLEAN
    BY <1>4
  <2>5. q.undo # 0 => q.undo = o.j.nextId /\ undo
    BY <1>5
  <2> HIDE DEF updates, after, undo, reading
  <2>6. Follows(o, w)
    <3>1. /\ q.j = Reserve(o.j) /\ q.pay = o.pay
          /\ q.text = o.text /\ q.known = o.known /\ q.ctx = o.ctx /\ q.flight = o.flight
          /\ q.nextFlight = o.nextFlight /\ q.told = o.told
          /\ q.token = o.token /\ q.phase = o.phase /\ q.work = o.work
      BY <1>2, <1>5
    <3>2. /\ q.token # 0 => \E i \in Queued(o.j) : o.pay[i].token = q.token
          /\ \A i, k \in Queued(o.j) : o.pay[i].undo /\ o.pay[k].undo => i = k
          /\ q.phase = "DeferredQueued" => "focus" \in q.work
          /\ q.phase # "EngineCommitStarted"
      BY <1>1, <3>1 DEF Owed
    <3> QED
      BY <1>1, <1>5, <2>2, <2>3, <2>4, <2>5, <3>1, <3>2, AttachFollows
  <2> QED
    BY <2>1, <2>6 DEF q, r
<1> QED
  BY <1>6, <1>7

(* A new fence is up; the finalizer that will take it down is not queued.   *)
WithFence(t) == [t EXCEPT !.token = t.nextToken, !.nextToken = @ + 1]

LEMMA FenceFields ==
  ASSUME NEW t \in Services
  PROVE  LET x == WithFence(t)
         IN  /\ x \in Services /\ x.j = t.j /\ x.pay = t.pay
             /\ x.token = t.nextToken /\ x.undo = t.undo /\ x.phase = t.phase
             /\ x.text = t.text /\ x.known = t.known /\ x.ctx = t.ctx
             /\ x.flight = t.flight /\ x.nextFlight = t.nextFlight
             /\ x.work = t.work /\ x.told = t.told
<1> DEFINE token == t.nextToken
           next == t.nextToken + 1
<1>1. token \in Nat /\ next \in Nat
  BY NatFields
<1>2. WithFence(t) = [t EXCEPT !.token = token, !.nextToken = next]
  BY DEF WithFence
<1> HIDE DEF token, next
<1>3. LET x == [t EXCEPT !.token = token, !.nextToken = next]
      IN  /\ x \in Services /\ x.j = t.j /\ x.pay = t.pay
          /\ x.token = token /\ x.undo = t.undo /\ x.phase = t.phase
          /\ x.text = t.text /\ x.known = t.known /\ x.ctx = t.ctx
          /\ x.flight = t.flight /\ x.nextFlight = t.nextFlight
          /\ x.work = t.work /\ x.told = t.told
  BY <1>1 DEF Services
<1> QED
  BY <1>2, <1>3 DEF token

(* Taking it down again.                                                    *)
LEMMA Unfence ==
  ASSUME NEW o \in Services
  PROVE  LET y == [o EXCEPT !.token = 0]
         IN  /\ Settles(o, y) /\ Keeps(o, y) /\ y.j = o.j /\ y.token = 0
             /\ y.undo = o.undo /\ y.phase = o.phase /\ y.work = o.work
BY DEF Services, Settles, Keeps

LEMMA RecoverFollows ==
  ASSUME NEW s, ServiceOK(s), NEW c \in Contexts, s.j.nextId \in Ids, NEW answered
  PROVE  Follows(s, Recover(s, c, answered))
<1> DEFINE i == InvalidateAsUnknown(s)
           a == CancelAllWrites(i, TRUE, answered)
           t == Disconnect(a)
           x == WithFence(t)
           o == Observe(x, c, answered)
           id == o.j.nextId
           r == [o EXCEPT !.j = Reserve(@)]
           w == Attach_(r, id, One(TRUE, "Commit", Empty), Empty, FALSE,
                        t.nextToken, TRUE, t.text)
           y == [o EXCEPT !.token = 0]
           z == Recover(s, c, answered)
<1>1. z = IF ~t.known THEN Abandon(t, answered)
          ELSE IF t.text = Empty THEN FinishFocus(t)
          ELSE IF ~CanReserve(o.j, c) \/ o.j.tvis # t.text THEN Abandon(y, answered)
          ELSE w
  BY DEF Recover, WithFence
<1>2. s \in Services /\ TRUE \in BOOLEAN
  BY DEF ServiceOK
<1>3. Better(s, i) /\ i.j = s.j
  BY <1>2, InvalidateAsUnknownSettles, SettlesBetters
<1> HIDE DEF i
<1>4. /\ Better(i, a) /\ a.phase # "EngineCommitStarted"
      /\ Queued(a.j) = {} /\ a.token = 0 /\ a.undo = 0 /\ a.j.nextId = i.j.nextId
  BY <1>2, <1>3, CancelAllBetters DEF Better
<1> HIDE DEF a
<1>5. Better(a, t) /\ t.undo = 0 /\ t.token = 0 /\ t.j = a.j /\ t.phase = a.phase
  BY <1>4, DisconnectBetters DEF Better
<1> HIDE DEF t
<1>6. Better(s, t) /\ ServiceOK(t) /\ t \in Services
  BY <1>3, <1>4, <1>5, BetterTwice DEF Better, ServiceOK
<1>7. t.j.nextId = s.j.nextId
  BY <1>3, <1>4, <1>5
<1>8. CASE ~t.known
  <2>1. z = Abandon(t, answered)
    BY <1>1, <1>8
  <2>2. Better(t, z)
    BY <1>6, <2>1, AbandonBetters, ServiceBooks
  <2> HIDE DEF z
  <2>3. Better(s, z)
    BY <1>6, <2>2, BetterTwice
  <2> QED
    BY <2>3 DEF Better, Follows, z
<1>9. CASE t.known /\ t.text = Empty
  <2>1. z = FinishFocus(t)
    BY <1>1, <1>9
  <2>2. Better(t, z)
    BY <1>6, <2>1, FinishFocusBetters, ServiceBooks
  <2> HIDE DEF z
  <2>3. Better(s, z)
    BY <1>6, <2>2, BetterTwice
  <2> QED
    BY <2>3 DEF Better, Follows, z
<1>10. CASE t.known /\ t.text # Empty
  <2>1. /\ x \in Services /\ x.j = t.j /\ x.pay = t.pay
        /\ x.token = t.nextToken /\ x.undo = t.undo /\ x.phase = t.phase
        /\ x.text = t.text /\ x.known = t.known /\ x.ctx = t.ctx
        /\ x.flight = t.flight /\ x.nextFlight = t.nextFlight
        /\ x.work = t.work /\ x.told = t.told
    BY <1>6, FenceFields
  <2> HIDE DEF x
  <2>2. Planned(x) /\ Shown(x)
    BY <1>6, <2>1 DEF ServiceOK, Planned, JournalGood, PlansOK, Shown
  <2>3. /\ Settles(x, o) /\ Keeps(x, o) /\ Planned(o) /\ Shown(o)
        /\ o.j.nextId = x.j.nextId /\ Queued(o.j) \subseteq Queued(x.j)
    BY <2>2, ObserveSettles
  <2> HIDE DEF o
  <2>4. /\ Queued(o.j) = {} /\ o.undo = 0 /\ o.token \in {0, t.nextToken}
        /\ o.phase # "EngineCommitStarted" /\ o \in Services /\ o.pay = t.pay
        /\ o.phase = "DeferredQueued" => "focus" \in o.work
    BY <1>4, <1>5, <1>6, <2>1, <2>3 DEF Settles, ServiceOK, Owed
  <2>5. Quiets(t, o)
    <3>1. Keeps(t, o)
      BY <2>1, <2>3 DEF Keeps
    <3>2. t.j.nextId \in Nat
      BY <1>6, NatFields
    <3> QED
      BY <2>1, <2>3, <2>4, <3>1, <3>2 DEF Quiets, Settles
  <2>6. CASE ~CanReserve(o.j, c) \/ o.j.tvis # t.text
    <3>1. z = Abandon(y, answered)
      BY <1>1, <1>10, <2>6
    <3>2. /\ Settles(o, y) /\ Keeps(o, y) /\ y.j = o.j /\ y.token = 0
          /\ y.undo = o.undo /\ y.phase = o.phase /\ y.work = o.work
      BY <2>4, Unfence
    <3> HIDE DEF y
    <3>3. Books(y)
      <4>1. Planned(y)
        BY <2>3, <3>2, PlannedSettle, SameQueueSame DEF Planned
      <4>2. Owed(y, {})
        BY <2>4, <3>2 DEF Owed
      <4> QED
        BY <4>1, <4>2, BooksPlanned
    <3>4. Better(y, z)
      BY <3>1, <3>3, AbandonBetters
    <3>5. Quiets(o, y)
      BY <2>4, <3>2, SettlesQuiets
    <3> HIDE DEF z
    <3>6. y \in Services /\ z \in Services
      BY <3>2, <3>4 DEF Settles, Better
    <3>7. Quiets(o, z)
      BY <2>4, <3>4, <3>5, <3>6, QuietsTwice DEF Better
    <3>8. Quiets(t, z)
      BY <1>6, <2>4, <2>5, <3>6, <3>7, QuietsTwice
    <3>9. Follows(s, t) /\ Follows(t, z)
      BY <1>6, <3>4, <3>8 DEF Follows, Better
    <3>10. Follows(s, z)
      BY <3>9, FollowsTwice
    <3> QED
      BY <3>10 DEF z
  <2>7. CASE ~(~CanReserve(o.j, c) \/ o.j.tvis # t.text)
    <3>1. z = w
      BY <1>1, <1>10, <2>7
    <3> DEFINE updates == One(TRUE, "Commit", Empty)
               before == o.j.tvis
               from == t.text
               token == t.nextToken
               k == Reserve(o.j)
    <3>2. from \in Visible /\ token \in Nat /\ before \in Visible
      BY <1>6, <2>4, NatFields
    <3>3. /\ updates \in Seq(Updates) /\ updates # << >>
          /\ PlanOK([updates |-> updates, before |-> before, after |-> Empty,
                     undo |-> FALSE, token |-> token, sync |-> TRUE, from |-> from])
      BY CommitFits
    <3>4. Empty \in Visible /\ FALSE \in BOOLEAN /\ TRUE \in BOOLEAN
      BY JournalAssumption DEF JournalAssumption
    <3>5. CanReserve(o.j, c) /\ k \in Journals
      BY <2>3, <2>7, ReserveKeeps DEF Planned, JournalGood, JournalOK
    <3> HIDE DEF k
    <3>6. /\ r \in Services /\ r.j = k /\ r.pay = o.pay
          /\ r.text = o.text /\ r.known = o.known /\ r.ctx = o.ctx /\ r.flight = o.flight
          /\ r.nextFlight = o.nextFlight /\ r.told = o.told /\ r.token = o.token
          /\ r.undo = o.undo /\ r.phase = o.phase /\ r.work = o.work
      <4>1. r = [o EXCEPT !.j = k]
        BY DEF k
      <4> HIDE DEF r
      <4> QED
        BY <2>4, <3>5, <4>1 DEF Services
    <3> HIDE DEF r
    <3>7. o.j.nextId \in Ids
      BY <1>7, <2>1, <2>3
    <3>8. Follows(o, w)
      <4>1. r.j = Reserve(o.j)
        BY <3>6 DEF k
      <4>2. w = Attach_(r, o.j.nextId, updates, Empty, FALSE, token, TRUE, from)
        OBVIOUS
      <4> HIDE DEF updates, from, token, w
      <4>3. Follows(o, Attach_(r, o.j.nextId, updates, Empty, FALSE, token, TRUE, from))
        BY <2>3, <2>4, <3>2, <3>3, <3>4, <3>5, <3>6, <3>7, <4>1, AttachFollows
           DEF token, before
      <4> QED
        BY <4>2, <4>3
    <3> HIDE DEF w
    <3>9. Quiets(t, w)
      BY <1>6, <2>4, <2>5, <3>8, QuietsTwice DEF Follows, ServiceOK
    <3>10. Follows(s, t) /\ Follows(t, w)
      BY <1>6, <3>8, <3>9 DEF Follows, Better
    <3>11. Follows(s, w)
      BY <3>10, FollowsTwice
    <3> QED
      BY <3>1, <3>11
  <2> QED
    BY <2>6, <2>7
<1> QED
  BY <1>8, <1>9, <1>10

(* The engine has committed; what the document shows is not queued yet.     *)
Committing(t) == [t EXCEPT !.phase = "EngineCommitStarted", !.reading = Empty]

(* Everything posted is being done.                                         *)
Taken(s) == [s EXCEPT !.work = {}]

LEMMA TakenFields ==
  ASSUME NEW s \in Services
  PROVE  LET t == Taken(s)
         IN  /\ t \in Services /\ t.j = s.j /\ t.pay = s.pay
             /\ t.token = s.token /\ t.undo = s.undo /\ t.phase = s.phase
             /\ t.text = s.text /\ t.known = s.known /\ t.ctx = s.ctx
             /\ t.flight = s.flight /\ t.nextFlight = s.nextFlight /\ t.told = s.told
<1> DEFINE none == {}
<1>1. none \in SUBSET {"write", "focus"} /\ Taken(s) = [s EXCEPT !.work = none]
  BY DEF Taken
<1> HIDE DEF none
<1> QED
  BY <1>1 DEF Services

LEMMA CommittingFields ==
  ASSUME NEW t \in Services
  PROVE  LET e == Committing(t)
         IN  /\ e \in Services /\ e.j = t.j /\ e.pay = t.pay
             /\ e.token = t.token /\ e.undo = t.undo /\ e.phase = "EngineCommitStarted"
             /\ e.text = t.text /\ e.known = t.known /\ e.ctx = t.ctx
             /\ e.flight = t.flight /\ e.nextFlight = t.nextFlight
             /\ e.work = t.work /\ e.told = t.told
<1> DEFINE phase == "EngineCommitStarted"
           reading == Empty
           v == [t EXCEPT !.phase = phase, !.reading = reading]
<1>1. phase \in FocusPhases /\ reading \in Visible
  BY JournalAssumption DEF JournalAssumption, FocusPhases
<1>2. Committing(t) = v
  BY DEF Committing
<1> HIDE DEF phase, reading
<1>3. /\ v \in Services /\ v.j = t.j /\ v.pay = t.pay
      /\ v.token = t.token /\ v.undo = t.undo /\ v.phase = phase
      /\ v.text = t.text /\ v.known = t.known /\ v.ctx = t.ctx
      /\ v.flight = t.flight /\ v.nextFlight = t.nextFlight
      /\ v.work = t.work /\ v.told = t.told
  BY <1>1 DEF Services
<1> QED
  BY <1>2, <1>3 DEF phase

LEMMA FinalizeFocusFollows ==
  ASSUME NEW s, ServiceOK(s), s.j.nextId \in Ids, NEW answered, NEW posted \in BOOLEAN
  PROVE  Follows(s, FinalizeFocus(Taken(s), answered, posted))
<1> DEFINE t == Taken(s)
           e == Committing(t)
           o == Observe(e, e.ctx, answered)
           id == o.j.nextId
           r == [o EXCEPT !.j = Reserve(@)]
           w == Attach_(r, id, One(TRUE, "Commit", Empty), Empty, FALSE, 0, FALSE, e.text)
           z == FinalizeFocus(t, answered, posted)
           p == [w EXCEPT !.work = @ \union {"write"}]
           q == CancelAllWrites(w, TRUE, answered)
           fe == FocusChange(e, answered)
           fo == FocusChange(o, answered)
<1>1. s \in Services /\ Planned(s) /\ Shown(s) /\ Owed(s, {})
  BY DEF ServiceOK, Planned, JournalGood
<1>2. z = IF t.phase # "DeferredQueued" THEN t
          ELSE IF e.ctx = NoContext THEN Abandon(fe, answered)
          ELSE IF ~e.known THEN Abandon(e, answered)
          ELSE IF e.text = Empty THEN FinishFocus(e)
          ELSE IF ~CanReserve(o.j, e.ctx) THEN Abandon(fo, answered)
          ELSE IF o.j.tvis # e.text THEN Abandon(o, answered)
          ELSE IF posted THEN p ELSE q
  BY DEF FinalizeFocus, Committing
<1>3. /\ t \in Services /\ t.j = s.j /\ t.pay = s.pay
      /\ t.token = s.token /\ t.undo = s.undo /\ t.phase = s.phase
      /\ t.text = s.text /\ t.known = s.known /\ t.ctx = s.ctx
      /\ t.flight = s.flight /\ t.nextFlight = s.nextFlight /\ t.told = s.told
  BY <1>1, TakenFields
<1> HIDE DEF t
<1>4. s.j.nextId \in Nat
  BY <1>1, NatFields
<1>5. CASE t.phase # "DeferredQueued"
  <2>1. z = t
    BY <1>2, <1>5
  <2>2. ServiceOK(t)
    BY <1>3, <1>5 DEF ServiceOK, PlansOK, Owed, FinalizerLast, Shown
  <2>3. Quiets(s, t)
    BY <1>3, <1>4 DEF Quiets, Keeps
  <2> QED
    BY <2>1, <2>2, <2>3 DEF Follows, t
<1>6. CASE t.phase = "DeferredQueued"
  <2>1. /\ e \in Services /\ e.j = t.j /\ e.pay = t.pay
        /\ e.token = t.token /\ e.undo = t.undo /\ e.phase = "EngineCommitStarted"
        /\ e.text = t.text /\ e.known = t.known /\ e.ctx = t.ctx
        /\ e.flight = t.flight /\ e.nextFlight = t.nextFlight
        /\ e.work = t.work /\ e.told = t.told
    BY <1>3, CommittingFields
  <2> HIDE DEF e
  <2>2. Planned(e) /\ Shown(e) /\ Owed(e, {})
    BY <1>1, <1>3, <2>1 DEF Planned, PlansOK, Owed, Shown
  <2>3. Books(e)
    BY <2>2, BooksPlanned
  <2>4. Quiets(s, e)
    BY <1>3, <1>4, <2>1 DEF Quiets, Keeps
  <2>5. ASSUME NEW v, Follows(e, v)
        PROVE  Follows(s, v)
    BY <1>1, <2>1, <2>4, <2>5, QuietsTwice DEF Follows, ServiceOK
  <2>6. ASSUME NEW v, Books(v), Shown(v)
        PROVE  LET f == FocusChange(v, answered)
               IN  Follows(v, Abandon(f, answered))
    <3> DEFINE f == FocusChange(v, answered)
               a == Abandon(f, answered)
    <3>1. Better(v, f)
      BY <2>6, FocusChangeBetters
    <3> HIDE DEF f
    <3>2. Better(f, a)
      BY <3>1, AbandonBetters, ServiceBooks DEF Better
    <3> HIDE DEF a
    <3>3. v \in Services /\ f \in Services /\ a \in Services
      BY <2>6, <3>1, <3>2 DEF Books, Better, ServiceOK
    <3>4. Quiets(v, a)
      BY <3>1, <3>2, <3>3, QuietsTwice DEF Better
    <3> QED
      BY <3>2, <3>4 DEF Better, Follows, a, f
  <2>7. CASE e.ctx = NoContext
    <3>1. z = Abandon(fe, answered)
      BY <1>2, <1>6, <2>7
    <3>2. Follows(e, z)
      BY <2>2, <2>3, <2>6, <3>1
    <3> HIDE DEF z
    <3>3. Follows(s, z)
      BY <2>5, <3>2
    <3> QED
      BY <3>3 DEF z, t
  <2>8. CASE e.ctx # NoContext /\ ~e.known
    <3>1. z = Abandon(e, answered)
      BY <1>2, <1>6, <2>8
    <3>2. Follows(e, z)
      BY <2>3, <3>1, AbandonBetters DEF Better, Follows
    <3> HIDE DEF z
    <3>3. Follows(s, z)
      BY <2>5, <3>2
    <3> QED
      BY <3>3 DEF z, t
  <2>9. CASE e.ctx # NoContext /\ e.known /\ e.text = Empty
    <3>1. z = FinishFocus(e)
      BY <1>2, <1>6, <2>9
    <3>2. Follows(e, z)
      BY <2>2, <2>3, <3>1, FinishFocusBetters DEF Better, Follows
    <3> HIDE DEF z
    <3>3. Follows(s, z)
      BY <2>5, <3>2
    <3> QED
      BY <3>3 DEF z, t
  <2>10. CASE e.ctx # NoContext /\ e.known /\ e.text # Empty
    <3>1. e.ctx \in Contexts
      BY <2>1, <2>10 DEF Services
    <3>2. /\ Settles(e, o) /\ Keeps(e, o) /\ Planned(o) /\ Owed(o, {}) /\ Shown(o)
          /\ o.j.nextId = e.j.nextId /\ Queued(o.j) \subseteq Queued(e.j)
      BY <2>2, <3>1, ObserveSettles
    <3> HIDE DEF o
    <3>3. Books(o) /\ o \in Services
      BY <3>2, BooksPlanned DEF Planned
    <3>4. Quiets(e, o)
      BY <2>1, <3>2, SettlesQuiets
    <3>5. ASSUME NEW v, Follows(o, v)
          PROVE  Follows(s, v)
      <4>1. Quiets(e, v)
        BY <2>1, <3>3, <3>4, <3>5, QuietsTwice DEF Follows, ServiceOK
      <4> QED
        BY <2>5, <3>5, <4>1 DEF Follows
    <3>6. CASE ~CanReserve(o.j, e.ctx)
      <4>1. z = Abandon(fo, answered)
        BY <1>2, <1>6, <2>10, <3>6
      <4>2. Follows(o, z)
        BY <2>6, <3>2, <3>3, <4>1
      <4> HIDE DEF z
      <4>3. Follows(s, z)
        BY <3>5, <4>2
      <4> QED
        BY <4>3 DEF z, t
    <3>7. CASE CanReserve(o.j, e.ctx) /\ o.j.tvis # e.text
      <4>1. z = Abandon(o, answered)
        BY <1>2, <1>6, <2>10, <3>7
      <4>2. Follows(o, z)
        BY <3>3, <4>1, AbandonBetters DEF Better, Follows
      <4> HIDE DEF z
      <4>3. Follows(s, z)
        BY <3>5, <4>2
      <4> QED
        BY <4>3 DEF z, t
    <3>8. CASE CanReserve(o.j, e.ctx) /\ o.j.tvis = e.text
      <4>1. z = IF posted THEN p ELSE q
        BY <1>2, <1>6, <2>10, <3>8
      <4> DEFINE updates == One(TRUE, "Commit", Empty)
                 before == o.j.tvis
                 from == e.text
                 k == Reserve(o.j)
      <4>2. from \in Visible /\ before \in Visible
        BY <2>1, <3>3, NatFields
      <4>3. /\ updates \in Seq(Updates) /\ updates # << >>
            /\ PlanOK([updates |-> updates, before |-> before, after |-> Empty,
                       undo |-> FALSE, token |-> 0, sync |-> FALSE, from |-> from])
        BY CommitFits
      <4>4. Empty \in Visible /\ FALSE \in BOOLEAN /\ 0 \in Nat
        BY JournalAssumption DEF JournalAssumption
      <4>5. k \in Journals
        BY <3>1, <3>2, <3>8, ReserveKeeps DEF Planned, JournalGood, JournalOK
      <4> HIDE DEF k
      <4>6. /\ r \in Services /\ r.j = k /\ r.pay = o.pay
            /\ r.text = o.text /\ r.known = o.known /\ r.ctx = o.ctx /\ r.flight = o.flight
            /\ r.nextFlight = o.nextFlight /\ r.told = o.told /\ r.token = o.token
            /\ r.undo = o.undo /\ r.phase = o.phase /\ r.work = o.work
        <5>1. r = [o EXCEPT !.j = k]
          BY DEF k
        <5> HIDE DEF r
        <5> QED
          BY <3>3, <4>5, <5>1 DEF Services
      <4> HIDE DEF r
      <4>7. o.j.nextId \in Ids /\ o.phase \in {"Idle", "EngineCommitStarted"}
        BY <1>3, <2>1, <3>2 DEF Settles
      <4>8. Follows(o, w)
        <5>1. r.j = Reserve(o.j)
          BY <4>6 DEF k
        <5>2. w = Attach_(r, o.j.nextId, updates, Empty, FALSE, 0, FALSE, from)
          OBVIOUS
        <5>3. /\ r.token # 0 => \E i \in Queued(o.j) : o.pay[i].token = r.token
              /\ r.undo # 0 => r.undo \in Queued(o.j) /\ o.pay[r.undo].undo
              /\ \A i, m \in Queued(o.j) : o.pay[i].undo /\ o.pay[m].undo => i = m
              /\ r.phase # "DeferredQueued"
          BY <3>2, <4>6, <4>7 DEF Owed
        <5> HIDE DEF updates, from, w
        <5>4. Follows(o, Attach_(r, o.j.nextId, updates, Empty, FALSE, 0, FALSE, from))
          BY <3>1, <3>2, <3>8, <4>2, <4>3, <4>4, <4>6, <4>7, <5>1, <5>3, AttachFollows
             DEF before
        <5> QED
          BY <5>2, <5>4
      <4> HIDE DEF w
      <4>9. TRUE \in BOOLEAN
        OBVIOUS
      <4>10. Follows(w, p)
        BY <4>8, WorkBetters DEF Follows, Better
      <4>11. Follows(w, q)
        BY <4>8, <4>9, CancelAllBetters DEF Follows, Better
      <4> HIDE DEF p, q, z
      <4>12. Follows(w, z)
        BY <4>1, <4>10, <4>11
      <4>13. Follows(o, z)
        <5>1. Quiets(o, z)
          BY <3>3, <4>8, <4>12, QuietsTwice DEF Follows, ServiceOK
        <5> QED
          BY <4>12, <5>1 DEF Follows
      <4>14. Follows(s, z)
        BY <3>5, <4>13
      <4> QED
        BY <4>14 DEF z, t
    <3> QED
      BY <3>6, <3>7, <3>8
  <2> QED
    BY <2>7, <2>8, <2>9, <2>10
<1> QED
  BY <1>5, <1>6

(* The head has been applied: it is still to be settled, what it planned is *)
(* committed, and what is queued behind it stays.                           *)
HeadApplied(s, x, t) ==
  LET op == s.j.ops[1]
  IN  /\ Planned(x) /\ Owed(x, {t.id}) /\ t.id \in Ids /\ t.id < s.j.nextId
      /\ x.j.nextId = s.j.nextId
      /\ s.j.active /\ x.j.active = s.j.active /\ x.j.cvis = s.pay[t.id].after
      /\ s.j.ops # << >> /\ op = Head(s.j.ops) /\ op.id = t.id
      /\ op.writes <=> s.pay[t.id].updates # << >>
      /\ op.before = s.j.cvis /\ op.before = s.pay[t.id].before
      /\ op.after = s.pay[t.id].after
      /\ x.j.ops # << >> => Last(x.j.ops) = Last(s.j.ops)
      /\ x.j.ops = << >> => Last(s.j.ops) = op

LEMMA AppliedHead ==
  ASSUME NEW s, Planned(s), Owed(s, {}), NEW t, Validates(s.j, t),
         NEW x \in Services, x.pay = s.pay, x.j = CompleteApplied(s.j, t),
         x.token = s.token, x.undo = s.undo,
         x.phase = "DeferredQueued" => s.phase = "DeferredQueued" /\ x.work = s.work
  PROVE  HeadApplied(s, x, t)
<1> DEFINE k == ApplyHead(s.j)
           op == s.j.ops[1]
<1>1. s \in Services /\ JournalGood(s.j) /\ PlansOK(s)
  BY DEF Planned
<1>2. /\ s.j.active /\ s.j.ops # << >> /\ Head(s.j.ops).id = t.id
      /\ Head(s.j.ops).phase = "Requested" /\ x.j = k
  BY DEF Validates, IsHead, CompleteApplied
<1>3. /\ s.j.ops \in Seq(Operations) /\ DOMAIN s.j.ops = 1..Len(s.j.ops)
      /\ 1 \in 1..Len(s.j.ops) /\ op = Head(s.j.ops)
  <2>1. s.j.ops \in Seq(Operations)
    BY <1>1, QueueTypes DEF JournalGood
  <2> QED
    BY <1>2, <2>1
<1>4. /\ Shortens(s.j, k) /\ k.active = s.j.active
      /\ k.cvis = op.after /\ k.ops = Tail(s.j.ops)
      /\ Queued(s.j) \subseteq Queued(k) \union {op.id}
      /\ k.ops # << >> => Last(k.ops) = Last(s.j.ops)
      /\ k.ops = << >> => Last(s.j.ops) = op
  BY <1>1, <1>2, ApplyHeadKeeps
<1> HIDE DEF k
<1>5. /\ op.id \in Ids /\ op.phase # "Reserved"
      /\ op.writes <=> s.pay[op.id].updates # << >>
      /\ op.before = s.pay[op.id].before /\ op.after = s.pay[op.id].after
  BY <1>1, <1>2, <1>3 DEF PlansOK
<1>6. op.before = s.j.cvis /\ op.id < s.j.nextId
  BY <1>1, <1>3 DEF JournalGood, JournalInv, Chained, IdsIncrease
<1>7. op.id \in Queued(s.j)
  BY <1>3 DEF Queued
<1>8. Planned(x)
  <2>1. PlansOK(x)
    BY <1>1, <1>2, <1>4, PlansShorten
  <2> QED
    BY <1>2, <1>4, <2>1 DEF Planned, Shortens
<1>9. Queued(k) \union {op.id} = Queued(s.j)
  BY <1>1, <1>4, <1>7, ShortensQueued
<1>10. Owed(x, {op.id})
  <2>1. Queued(s.j) \union {} = Queued(s.j)
    OBVIOUS
  <2> QED
    BY <1>2, <1>9, <2>1 DEF Owed
<1>11. k.nextId = s.j.nextId
  BY <1>4 DEF Shortens
<1> QED
  BY <1>2, <1>3, <1>4, <1>5, <1>6, <1>8, <1>10, <1>11 DEF HeadApplied

(* complete_no_document_write leaves what is shown as it is.                *)
LEMMA CompleteFollows ==
  ASSUME NEW s, ServiceOK(s), s.j.ops # << >> => ~Head(s.j.ops).writes,
         NEW t, NEW answered, NEW posted \in BOOLEAN
  PROVE  Follows(s, CompleteNoDocument(s, t, answered, posted))
<1> DEFINE x == [s EXCEPT !.j = CompleteApplied(@, t)]
           z == CompleteNoDocument(s, t, answered, posted)
<1>1. s \in Services /\ Planned(s) /\ Owed(s, {})
  BY DEF ServiceOK, Planned, JournalGood
<1>2. CASE ~Validates(s.j, t)
  <2>1. z = CancelStale(s, t, answered)
    BY <1>2 DEF CompleteNoDocument
  <2> QED
    BY <2>1, TicketBetters DEF Better, Follows
<1>3. CASE Validates(s.j, t)
  <2> DEFINE k == CompleteApplied(s.j, t)
  <2>1. z = SettleApplied(x, t.id, answered, posted)
    BY <1>3 DEF CompleteNoDocument
  <2>2. k \in Journals
    BY <1>1, CompleteAppliedSucceeds DEF Planned, JournalGood, JournalOK, Succeeds
  <2> HIDE DEF k
  <2>3. /\ x \in Services /\ x.j = k /\ x.pay = s.pay
        /\ x.token = s.token /\ x.undo = s.undo /\ x.phase = s.phase /\ x.work = s.work
        /\ x.text = s.text /\ x.known = s.known /\ x.ctx = s.ctx
        /\ x.flight = s.flight /\ x.nextFlight = s.nextFlight /\ x.told = s.told
    <3>1. x = [s EXCEPT !.j = k]
      BY DEF k
    <3> HIDE DEF x
    <3> QED
      BY <1>1, <2>2, <3>1 DEF Services
  <2> HIDE DEF x
  <2>4. /\ Planned(x) /\ Owed(x, {t.id}) /\ t.id \in Ids /\ t.id < s.j.nextId
        /\ x.j.nextId = s.j.nextId
        /\ s.j.active /\ x.j.active = s.j.active /\ x.j.cvis = s.pay[t.id].after
        /\ s.j.ops # << >> /\ s.j.ops[1] = Head(s.j.ops)
        /\ s.j.ops[1].writes <=> s.pay[t.id].updates # << >>
        /\ s.j.ops[1].before = s.j.cvis /\ s.j.ops[1].before = s.pay[t.id].before
        /\ x.j.ops # << >> => Last(x.j.ops) = Last(s.j.ops)
        /\ x.j.ops = << >> => Last(s.j.ops) = s.j.ops[1]
    <3>1. x.j = CompleteApplied(s.j, t)
      BY <2>3 DEF k
    <3>2. HeadApplied(s, x, t)
      BY <1>1, <1>3, <2>3, <3>1, AppliedHead
    <3> QED
      BY <3>2 DEF HeadApplied
  <2>5. s.pay[t.id].updates = << >> /\ PlanOK(s.pay[t.id])
    BY <1>1, <2>4 DEF Planned, PlansOK
  <2>6. ~s.pay[t.id].undo /\ s.pay[t.id].after = s.pay[t.id].before
    BY <2>5 DEF PlanOK
  <2>7. FinalizerLast(x)
    BY <2>3, <2>4 DEF ServiceOK, FinalizerLast
  <2>8. Shown(x)
    BY <2>3, <2>4, <2>6 DEF ServiceOK, Shown
  <2>9. ServiceOK(z) /\ Applies(x, z, t.id)
    BY <2>1, <2>4, <2>7, <2>8, SettleAppliedFollows
  <2> HIDE DEF z
  <2>10. Keeps(s, z)
    BY <2>3, <2>9 DEF Applies, Keeps
  <2>11. Quiets(s, z)
    BY <2>3, <2>4, <2>6, <2>9, <2>10 DEF Applies, Quiets
  <2> QED
    BY <2>9, <2>11 DEF Follows, z
<1> QED
  BY <1>2, <1>3

LEMMA BeginFollows ==
  ASSUME NEW s, ServiceOK(s), CanBegin(s.j)
  PROVE  LET b == [s EXCEPT !.j = BeginHead(@)]
             t == HeadTicket(s.j)
         IN  /\ Follows(s, b) /\ b.pay = s.pay /\ b.j.nextId = s.j.nextId
             /\ b.j.ops # << >> /\ Head(b.j.ops).writes = Head(s.j.ops).writes
             /\ t \in Tickets /\ t.id \in Ids /\ t.id < s.j.nextId
             /\ Head(s.j.ops).writes <=> s.pay[t.id].updates # << >>
<1> DEFINE k == BeginHead(s.j)
           t == HeadTicket(s.j)
           b == [s EXCEPT !.j = k]
<1>1. s \in Services /\ JournalGood(s.j) /\ PlansOK(s)
  BY DEF ServiceOK, JournalGood
<1>2. /\ JournalGood(k) /\ k.nextId = s.j.nextId
      /\ k.cvis = s.j.cvis /\ k.active = s.j.active
      /\ Len(k.ops) = Len(s.j.ops) /\ Len(s.j.ops) >= 1
      /\ \A n \in 1..Len(s.j.ops) :
           /\ k.ops[n].id = s.j.ops[n].id /\ k.ops[n].writes = s.j.ops[n].writes
           /\ k.ops[n].before = s.j.ops[n].before
           /\ k.ops[n].after = s.j.ops[n].after
           /\ s.j.ops[n].phase # "Reserved" => k.ops[n].phase # "Reserved"
           /\ k.ops[n].phase # "Reserved" => s.j.ops[n].phase # "Reserved"
      /\ s.j.ops[1].phase = "Ready" /\ Head(s.j.ops) = s.j.ops[1]
      /\ t \in Tickets /\ t.id = s.j.ops[1].id
  BY <1>1, BeginHeadKeeps
<1> HIDE DEF k
<1>3. k.ops \in Seq(Operations) /\ s.j.ops \in Seq(Operations) /\ k \in Journals
  BY <1>1, <1>2, QueueTypes DEF JournalGood, JournalOK
<1>4. /\ DOMAIN k.ops = 1..Len(k.ops) /\ DOMAIN s.j.ops = 1..Len(s.j.ops)
      /\ Len(s.j.ops) \in Nat /\ 1 \in 1..Len(s.j.ops) /\ Len(s.j.ops) \in 1..Len(s.j.ops)
      /\ k.ops # << >> /\ s.j.ops # << >> /\ Head(k.ops) = k.ops[1]
      /\ Last(k.ops) = k.ops[Len(k.ops)] /\ Last(s.j.ops) = s.j.ops[Len(s.j.ops)]
  BY <1>2, <1>3 DEF Last
<1>5. /\ b \in Services /\ b.j = k /\ b.pay = s.pay
      /\ b.undo = s.undo /\ b.token = s.token /\ b.phase = s.phase
      /\ b.text = s.text /\ b.known = s.known /\ b.ctx = s.ctx
      /\ b.flight = s.flight /\ b.nextFlight = s.nextFlight
      /\ b.work = s.work /\ b.told = s.told
  BY <1>1, <1>3 DEF Services
<1> HIDE DEF b, t
<1>6. PlansOK(b)
  <2>1. ASSUME NEW n \in DOMAIN k.ops
        PROVE  /\ k.ops[n].id \in Ids
               /\ k.ops[n].phase # "Reserved" =>
                    /\ k.ops[n].writes <=> s.pay[k.ops[n].id].updates # << >>
                    /\ k.ops[n].before = s.pay[k.ops[n].id].before
                    /\ k.ops[n].after = s.pay[k.ops[n].id].after
    <3>1. n \in DOMAIN s.j.ops /\ n \in 1..Len(s.j.ops)
      BY <1>2, <1>4
    <3> QED
      BY <1>1, <1>2, <3>1 DEF PlansOK
  <2> QED
    BY <1>1, <1>2, <1>5, <2>1 DEF PlansOK
<1>7. Queued(k) = Queued(s.j)
  BY <1>2, <1>4 DEF Queued
<1>8. Owed(b, {})
  BY <1>5, <1>7 DEF ServiceOK, Owed
<1>9. FinalizerLast(b)
  <2>1. FinalizerLast(s)
    BY DEF ServiceOK
  <2> QED
    BY <1>2, <1>4, <1>5, <2>1 DEF FinalizerLast
<1>10. Shown(b) /\ Keeps(s, b)
  BY <1>2, <1>5 DEF ServiceOK, Shown, Keeps
<1>11. s.j.nextId \in Nat
  BY <1>1, NatFields
<1>12. Quiets(s, b)
  BY <1>2, <1>5, <1>10, <1>11 DEF Quiets
<1>13. Follows(s, b)
  BY <1>2, <1>5, <1>6, <1>8, <1>9, <1>10, <1>12 DEF ServiceOK, Follows, JournalGood
<1>14. t.id \in Ids /\ (s.j.ops[1].writes <=> s.pay[t.id].updates # << >>)
  BY <1>1, <1>2, <1>4 DEF PlansOK
<1>15. t.id < s.j.nextId
  BY <1>1, <1>2, <1>4 DEF JournalGood, JournalInv, IdsIncrease
<1> QED
  BY <1>2, <1>4, <1>5, <1>13, <1>14, <1>15 DEF b, t, k

(* Whatever is requested next: either nothing more happens, or a host call  *)
(* for an operation that writes is in progress.                             *)
Asks(key) ==
  \/ stack' = stack
  \/ \E t \in Tickets :
       /\ t.id \in Ids /\ t.id < svc'.j.nextId /\ svc'.pay[t.id].updates # << >>
       /\ stack' = Append(stack, Frame(t, "asked", key))

LEMMA RequestFollows ==
  ASSUME NEW s, ServiceOK(s), NEW key, NEW answered, NEW posted \in BOOLEAN,
         Request(s, key, answered, posted)
  PROVE  Follows(s, svc') /\ Asks(key)
<1> DEFINE t == HeadTicket(s.j)
           b == [s EXCEPT !.j = BeginHead(@)]
<1>1. CASE ~CanBegin(s.j)
  <2>1. svc' = s /\ stack' = stack
    BY <1>1 DEF Request
  <2>2. s.j.nextId \in Nat
    BY NatFields DEF ServiceOK
  <2> QED
    BY <2>1, <2>2 DEF Follows, Quiets, Keeps, Asks
<1>2. CASE CanBegin(s.j)
  <2>1. /\ Follows(s, b) /\ b.pay = s.pay /\ b.j.nextId = s.j.nextId
        /\ b.j.ops # << >> /\ Head(b.j.ops).writes = Head(s.j.ops).writes
        /\ t \in Tickets /\ t.id \in Ids /\ t.id < s.j.nextId
        /\ Head(s.j.ops).writes <=> s.pay[t.id].updates # << >>
    BY <1>2, BeginFollows
  <2>2. IF Head(s.j.ops).writes
        THEN svc' = b /\ stack' = Append(stack, Frame(t, "asked", key))
        ELSE svc' = CompleteNoDocument(b, t, answered, posted) /\ UNCHANGED stack
    BY <1>2 DEF Request
  <2> HIDE DEF b, t
  <2>3. CASE Head(s.j.ops).writes
    BY <2>1, <2>2, <2>3 DEF Asks
  <2>4. CASE ~Head(s.j.ops).writes
    <3>1. Follows(b, svc')
      BY <2>1, <2>2, <2>4, CompleteFollows DEF Follows
    <3> QED
      BY <2>1, <2>2, <2>4, <3>1, FollowsTwice DEF Asks
  <2> QED
    BY <2>3, <2>4
<1> QED
  BY <1>1, <1>2

-----------------------------------------------------------------------------
(* The calls in progress.                                                   *)

(* A frame, and its ticket, survive what a quiet method does to the service *)
(* and whatever happens to other documents.                                 *)
LEMMA FrameKept ==
  ASSUME NEW s \in Services, NEW r \in Services, Quiets(s, r),
         NEW docs, NEW shown, NEW gone, NEW more, gone \subseteq more,
         NEW f \in Frames, TicketOK(s, f.t), FrameOK(s, docs, gone, f),
         shown[f.t.epoch.context] = docs[f.t.epoch.context]
  PROVE  FrameOK(r, shown, more, f)
<1> DEFINE p == s.pay[f.t.id]
<1>1. r.pay[f.t.id] = p /\ r.nextFlight = s.nextFlight /\ Keeps(s, r)
  BY DEF Quiets, TicketOK
<1>2. CASE ~Writing(f)
  BY <1>2 DEF FrameOK
<1>3. CASE Writing(f)
  <2>1. f.flight # 0 /\ f.flight < s.nextFlight /\ RestOK(f, p, gone) /\ FlightOK(s, docs, f, p)
    BY <1>3 DEF FrameOK
  <2>2. RestOK(f, p, more)
    BY <2>1 DEF RestOK
  <2>3. FlightOK(r, shown, f, p)
    BY <1>1, <2>1 DEF Keeps, FlightOK, Lost
  <2> QED
    BY <1>1, <1>3, <2>1, <2>2, <2>3 DEF FrameOK
<1> QED
  BY <1>2, <1>3

LEMMA TicketKept ==
  ASSUME NEW s \in Services, NEW r \in Services, Quiets(s, r),
         NEW t, TicketOK(s, t)
  PROVE  TicketOK(r, t)
<1>1. s.j.nextId \in Nat /\ r.j.nextId \in Nat
  BY NatFields
<1>2. \A i \in Ids : i \in Int
  BY BoundAssumption DEF Ids, BoundAssumption
<1> QED
  BY <1>1, <1>2 DEF TicketOK, Quiets

(* A quiet method leaves what is shown on the screen, and tells nothing.    *)
LEMMA ScreenKept ==
  ASSUME TextIsOnScreen, AppliedWasDeleted, Follows(svc, svc'),
         doc' = doc, deleted \subseteq deleted'
  PROVE  TextIsOnScreen' /\ AppliedWasDeleted'
<1>1. Shown(svc') /\ Keeps(svc, svc')
  BY DEF Follows, ServiceOK, Quiets
<1>2. TextIsOnScreen'
  BY <1>1 DEF TextIsOnScreen, Shown, Keeps
<1>3. AppliedWasDeleted'
  BY DEF AppliedWasDeleted, Follows, Quiets
<1> QED
  BY <1>2, <1>3

(* The type of everything but the service and the stack.                    *)
HostTypes ==
  /\ queued \subseteq Tickets
  /\ doc \in [Contexts -> Visible \union {Unknown}]
  /\ deleted \subseteq Ids /\ events \in 0..MaxEvents

LEMMA Typed ==
  ASSUME NEW s, ServiceOK(s)
  PROVE  s \in Services /\ Len(s.j.ops) <= Capacity /\ Len(s.j.terminals) <= Capacity
BY DEF ServiceOK, JournalOK

(* The calls in progress, as one step leaves them: each is still right, and *)
(* no two hold the same.                                                    *)
LEMMA AllKept ==
  ASSUME IInv, Follows(svc, svc'), doc' = doc, deleted' = deleted, HostTypes',
         stack' \in Seq(Frames),
         \A t \in queued' : TicketOK(svc', t),
         \A i \in DOMAIN stack' :
           \/ i \in DOMAIN stack /\ stack'[i] = stack[i]
           \/ /\ TicketOK(svc', stack'[i].t)
              /\ ~Writing(stack'[i]) /\ stack'[i].flight = 0,
         LocksOK', FlightOwned'
  PROVE  IInv'
<1>1. svc \in Services /\ svc' \in Services /\ ServiceOK(svc') /\ Quiets(svc, svc')
  BY DEF IInv, ServiceOK, Follows
<1>2. TypeOK'
  BY <1>1, Typed DEF TypeOK, HostTypes
<1>3. \A i \in DOMAIN stack : stack[i] \in Frames
  BY DEF IInv, TypeOK
<1>4. ASSUME NEW i \in DOMAIN stack'
      PROVE  TicketOK(svc', stack'[i].t) /\ FrameOK(svc', doc', deleted', stack'[i])
  <2>1. CASE i \in DOMAIN stack /\ stack'[i] = stack[i]
    <3>1. /\ stack[i] \in Frames /\ TicketOK(svc, stack[i].t)
          /\ FrameOK(svc, doc, deleted, stack[i])
      BY <1>3, <2>1 DEF IInv, TicketsOK, FramesOK
    <3>2. TicketOK(svc', stack[i].t)
      BY <1>1, <3>1, TicketKept
    <3>3. FrameOK(svc', doc, deleted, stack[i])
      BY <1>1, <3>1, FrameKept
    <3> QED
      BY <2>1, <3>2, <3>3
  <2>2. CASE /\ TicketOK(svc', stack'[i].t)
             /\ ~Writing(stack'[i]) /\ stack'[i].flight = 0
    BY <2>2 DEF FrameOK
  <2> QED
    BY <1>4, <2>1, <2>2
<1>5. TicketsOK' /\ FramesOK'
  BY <1>4 DEF TicketsOK, FramesOK
<1>6. TextIsOnScreen' /\ AppliedWasDeleted'
  BY ScreenKept DEF IInv
<1>7. svc'.j.nextId > 0 /\ svc'.nextFlight > 0
  <2>1. /\ svc.j.nextId \in Nat /\ svc'.j.nextId \in Nat /\ svc.j.nextId > 0
        /\ svc.nextFlight > 0
    BY <1>1, NatFields DEF IInv
  <2> QED
    BY <1>1, <2>1 DEF Quiets
<1> QED
  BY <1>1, <1>2, <1>5, <1>6, <1>7 DEF IInv

LEMMA StackShape ==
  ASSUME IInv
  PROVE  /\ stack \in Seq(Frames) /\ Len(stack) \in Nat
         /\ DOMAIN stack = 1..Len(stack)
         /\ \A i \in 1..Len(stack) :
              stack[i] \in Frames /\ stack[i].t \in Tickets
              /\ stack[i].t.epoch.context \in Contexts
              /\ TicketOK(svc, stack[i].t) /\ FrameOK(svc, doc, deleted, stack[i])
<1>1. stack \in Seq(Frames)
  BY DEF IInv, TypeOK
<1>2. \A f \in Frames : f.t \in Tickets /\ f.t.epoch.context \in Contexts
  BY DEF Frames, Tickets, Epochs
<1>3. /\ Len(stack) \in Nat /\ DOMAIN stack = 1..Len(stack)
      /\ \A i \in 1..Len(stack) : stack[i] \in Frames
  BY <1>1
<1> QED
  BY <1>1, <1>2, <1>3 DEF IInv, TicketsOK, FramesOK

LEMMA TopShape ==
  ASSUME IInv, stack # << >>
  PROVE  /\ Len(stack) \in 1..Len(stack) /\ Top = stack[Len(stack)]
         /\ Below \in Seq(Frames) /\ Len(Below) = Len(stack) - 1
         /\ \A i \in 1..Len(stack) - 1 : Below[i] = stack[i]
<1>1. stack \in Seq(Frames) /\ Len(stack) \in Nat
  BY StackShape
<1>2. Len(stack) # 0
  BY <1>1
<1>3. Below = SubSeq(stack, 1, Len(stack) - 1) /\ Top = stack[Len(stack)]
  BY DEF Below, Front, Top, Last
<1> DEFINE n == Len(stack) - 1
<1>4. 1 \in Int /\ n \in Nat /\ \A i \in 1..n : stack[i] \in Frames
  BY <1>1, <1>2, StackShape
<1>5. /\ SubSeq(stack, 1, n) \in Seq(Frames)
      /\ Len(SubSeq(stack, 1, n)) = IF 1 <= n THEN n - 1 + 1 ELSE 0
      /\ \A i \in 1..n - 1 + 1 : SubSeq(stack, 1, n)[i] = stack[1 + i - 1]
  <2> HIDE DEF n
  <2> QED
    BY <1>4, SubSeqProperties
<1> DEFINE b == SubSeq(stack, 1, n)
<1>6. n - 1 + 1 = n /\ (1 <= n => n - 1 + 1 = n) /\ (~(1 <= n) => n = 0)
  <2>1. n \in Nat
    BY <1>4
  <2> HIDE DEF n
  <2> QED
    BY <2>1
<1>7. b \in Seq(Frames) /\ Len(b) = n
  BY <1>5, <1>6
<1>8. \A i \in 1..n : b[i] = stack[i]
  <2>1. \A i \in 1..n : b[i] = stack[1 + i - 1] /\ 1 + i - 1 = i
    <3> HIDE DEF b
    <3> QED
      BY <1>5, <1>6 DEF b
  <2> HIDE DEF b, n
  <2> QED
    BY <2>1
<1>9. Len(stack) \in 1..Len(stack)
  BY <1>1, <1>2
<1>10. Below = b /\ Top = stack[Len(stack)]
  BY <1>3
<1> HIDE DEF b
<1> QED
  BY <1>7, <1>8, <1>9, <1>10

LEMMA PushShape ==
  ASSUME IInv, NEW f \in Frames, stack' = Append(stack, f)
  PROVE  /\ stack' \in Seq(Frames) /\ DOMAIN stack' = 1..Len(stack) + 1
         /\ \A i \in 1..Len(stack) : stack'[i] = stack[i]
         /\ stack'[Len(stack) + 1] = f
<1>1. stack \in Seq(Frames) /\ Len(stack) \in Nat
  BY StackShape
<1> QED
  BY <1>1, AppendProperties

LEMMA StepShape ==
  ASSUME IInv, stack # << >>, NEW f \in Frames, Step(f)
  PROVE  /\ stack' \in Seq(Frames) /\ DOMAIN stack' = 1..Len(stack)
         /\ \A i \in 1..Len(stack) : i # Len(stack) => stack'[i] = stack[i]
         /\ stack'[Len(stack)] = f
<1> DEFINE rest == Below
           n == Len(stack)
<1>1. /\ n \in Nat /\ n \in 1..n /\ rest \in Seq(Frames) /\ Len(rest) = n - 1
      /\ \A i \in 1..n - 1 : rest[i] = stack[i]
  BY StackShape, TopShape
<1>2. stack' = Append(rest, f)
  BY DEF Step
<1> HIDE DEF rest, n
<1>3. /\ stack' \in Seq(Frames) /\ Len(stack') = n
      /\ \A i \in 1..n - 1 : stack'[i] = rest[i]
      /\ stack'[n] = f
  BY <1>1, <1>2, AppendProperties
<1>4. \A i \in 1..n : i # n => i \in 1..n - 1
  BY <1>1
<1> QED
  BY <1>1, <1>3, <1>4 DEF n

LEMMA SameKeeps ==
  ASSUME IInv, Follows(svc, svc'), events' \in 0..MaxEvents,
         UNCHANGED <<stack, queued, doc, deleted>>
  PROVE  IInv'
<1>1. HostTypes'
  BY DEF IInv, TypeOK, HostTypes
<1>2. svc \in Services /\ svc' \in Services /\ Quiets(svc, svc')
  BY DEF IInv, ServiceOK, Follows
<1>3. stack' \in Seq(Frames) /\ \A i \in DOMAIN stack' : i \in DOMAIN stack /\ stack'[i] = stack[i]
  BY DEF IInv, TypeOK
<1>4. \A t \in queued' : TicketOK(svc', t)
  BY <1>2, TicketKept DEF IInv, TicketsOK
<1>5. LocksOK' /\ FlightOwned'
  BY <1>2 DEF IInv, LocksOK, FlightOwned, Quiets, Keeps
<1> QED
  BY <1>1, <1>3, <1>4, <1>5, AllKept

LEMMA PushKeeps ==
  ASSUME IInv, Follows(svc, svc'), UNCHANGED <<doc, deleted, events>>,
         NEW f \in Frames, stack' = Append(stack, f),
         ~Writing(f), f.flight = 0, TicketOK(svc', f.t),
         f.stage # "asked" => Unlocked(f.t.epoch.context), queued' \subseteq queued
  PROVE  IInv'
<1> DEFINE n == Len(stack)
<1>1. HostTypes'
  BY DEF IInv, TypeOK, HostTypes
<1>2. svc \in Services /\ svc' \in Services /\ Quiets(svc, svc')
  BY DEF IInv, ServiceOK, Follows
<1>3. /\ stack' \in Seq(Frames) /\ DOMAIN stack' = 1..n + 1
      /\ \A i \in 1..n : stack'[i] = stack[i]
      /\ stack'[n + 1] = f
  BY PushShape
<1>4. n \in Nat /\ DOMAIN stack = 1..n
  BY StackShape
<1>5. \A i \in DOMAIN stack' : i \in DOMAIN stack \/ i = n + 1
  BY <1>3, <1>4
<1>6. \A i \in DOMAIN stack : i \in DOMAIN stack' /\ stack'[i] = stack[i]
  BY <1>3, <1>4
<1>7. \A t \in queued' : TicketOK(svc', t)
  BY <1>2, TicketKept DEF IInv, TicketsOK
<1>8. \A i \in DOMAIN stack : Apart(stack[i], f) /\ Apart(f, stack[i])
  BY DEF IInv, FramesOK, FrameOK, Apart, Unlocked
<1>9. LocksOK'
  BY <1>3, <1>5, <1>6, <1>8 DEF IInv, LocksOK
<1>10. FlightOwned'
  BY <1>2, <1>6 DEF IInv, FlightOwned, Quiets, Keeps
<1> QED
  BY <1>1, <1>3, <1>5, <1>6, <1>7, <1>9, <1>10, AllKept

LEMMA PopKeeps ==
  ASSUME IInv, Follows(svc, svc'), UNCHANGED <<doc, deleted, events>>,
         stack # << >>, Pop, queued' \subseteq queued \union {Top.t},
         svc'.flight # 0 => svc'.flight # Top.flight
  PROVE  IInv'
<1> DEFINE n == Len(stack)
<1>1. svc \in Services /\ svc' \in Services /\ Quiets(svc, svc')
  BY DEF IInv, ServiceOK, Follows
<1>2. n \in Nat /\ n \in 1..n /\ DOMAIN stack = 1..n /\ Top = stack[n]
  BY StackShape, TopShape
<1>3. /\ stack' \in Seq(Frames) /\ Len(stack') = n - 1
      /\ \A i \in 1..n - 1 : stack'[i] = stack[i]
  BY TopShape DEF Pop
<1>4. DOMAIN stack' = 1..n - 1
  BY <1>3
<1>5. \A i \in DOMAIN stack' : i \in DOMAIN stack /\ stack'[i] = stack[i]
  BY <1>2, <1>3, <1>4
<1>6. \A i \in DOMAIN stack : i \in DOMAIN stack' \/ i = n
  BY <1>2, <1>4
<1>7. HostTypes'
  BY <1>2, StackShape DEF IInv, TypeOK, HostTypes
<1>8. \A t \in queued' : TicketOK(svc', t)
  BY <1>1, <1>2, StackShape, TicketKept DEF IInv, TicketsOK
<1>9. LocksOK'
  BY <1>5 DEF IInv, LocksOK
<1>10. FlightOwned'
  BY <1>1, <1>2, <1>5, <1>6 DEF IInv, FlightOwned, Quiets, Keeps
<1> QED
  BY <1>3, <1>5, <1>7, <1>8, <1>9, <1>10, AllKept

LEMMA StepKeeps ==
  ASSUME IInv, UNCHANGED <<svc, queued, doc, deleted, events>>,
         stack # << >>, NEW f \in Frames, Step(f), f.t = Top.t,
         ~Writing(f), f.flight = 0, ~Writing(Top),
         Top.stage # "asked" \/ Unlocked(Top.t.epoch.context)
  PROVE  IInv'
<1> DEFINE n == Len(stack)
<1>1. Follows(svc, svc')
  <2>1. svc \in Services
    BY DEF IInv, ServiceOK
  <2>2. svc.j.nextId \in Nat
    BY <2>1, NatFields
  <2> QED
    BY <2>2 DEF IInv, Follows, Quiets, Keeps
<1>2. n \in Nat /\ n \in 1..n /\ DOMAIN stack = 1..n /\ Top = stack[n]
  BY StackShape, TopShape
<1>3. /\ stack' \in Seq(Frames) /\ DOMAIN stack' = 1..n
      /\ \A i \in 1..n : i # n => stack'[i] = stack[i]
      /\ stack'[n] = f
  BY StepShape
<1>4. HostTypes'
  BY DEF IInv, TypeOK, HostTypes
<1>5. \A t \in queued' : TicketOK(svc', t)
  BY DEF IInv, TicketsOK
<1>6. TicketOK(svc', f.t)
  BY <1>2 DEF IInv, TicketsOK
<1>7. \A i \in 1..n : i # n => Apart(stack[i], f) /\ Apart(f, stack[i])
  BY <1>2 DEF IInv, LocksOK, FramesOK, FrameOK, Apart, Unlocked
<1>8. LocksOK'
  BY <1>2, <1>3, <1>7 DEF IInv, LocksOK
<1>9. FlightOwned'
  <2>1. Top.flight = 0
    BY <1>2 DEF IInv, FramesOK, FrameOK
  <2> QED
    BY <1>2, <1>3, <2>1 DEF IInv, FlightOwned
<1> QED
  BY <1>1, <1>2, <1>3, <1>4, <1>5, <1>6, <1>8, <1>9, AllKept

(* What ends in request_next_write leaves a service in order, and at most   *)
(* one more request to the host.                                            *)
LEMMA AskKeeps ==
  ASSUME IInv, Follows(svc, svc'), NEW key \in BOOLEAN, Asks(key),
         UNCHANGED <<queued, doc, deleted, events>>
  PROVE  IInv'
<1>1. CASE stack' = stack
  BY <1>1, SameKeeps DEF IInv, TypeOK
<1>2. CASE stack' # stack
  <2>1. PICK t \in Tickets :
          /\ t.id \in Ids /\ t.id < svc'.j.nextId /\ svc'.pay[t.id].updates # << >>
          /\ stack' = Append(stack, Frame(t, "asked", key))
    BY <1>2 DEF Asks
  <2> DEFINE f == Frame(t, "asked", key)
  <2>2. /\ f \in Frames /\ f.t = t /\ f.stage = "asked" /\ f.flight = 0
    BY DEF Frame, Frames, Stages
  <2>3. TicketOK(svc', f.t) /\ ~Writing(f)
    BY <2>1, <2>2 DEF TicketOK, Writing
  <2>4. stack' = Append(stack, f)
    BY <2>1
  <2> HIDE DEF f
  <2> QED
    BY <2>2, <2>3, <2>4, PushKeeps
<1> QED
  BY <1>1, <1>2

LEMMA KeyKeeps ==
  ASSUME IInv, NEW c \in Contexts, NEW answered, NEW posted \in BOOLEAN,
         Key(c, answered, posted)
  PROVE  IInv'
<1> DEFINE o == Observe(svc, c, answered)
           id == o.j.nextId
           r == [o EXCEPT !.j = Reserve(@)]
<1>1. ServiceOK(svc) /\ Planned(svc) /\ Owed(svc, {}) /\ Shown(svc) /\ svc \in Services
  BY DEF IInv, ServiceOK, Planned, JournalGood
<1>2. /\ svc.phase = "Idle" /\ svc.j.nextId <= MaxKeys /\ CanReserve(o.j, c)
      /\ ~HasUndo(svc, Queued(svc.j))
      /\ UNCHANGED <<queued, doc, deleted, events>>
  BY DEF Key, Fenced, Blocked
<1>3. \/ \E out \in Answers(o.reading) :
           /\ o.undo = 0
           /\ Request(Submit(Answered(r, id, out), id, out, o.reading, answered),
                      TRUE, answered, posted)
      \/ /\ svc' = Cancel(r, CancelReservation(r.j, id), FALSE, "Rejected", answered)
         /\ UNCHANGED stack
      \/ /\ o.j.nextId < MaxId
         /\ Request(Recover(r, c, answered), TRUE, answered, posted)
  BY DEF Key, Answered
<1>4. /\ Settles(svc, o) /\ Keeps(svc, o) /\ Planned(o) /\ Owed(o, {})
      /\ o.j.nextId = svc.j.nextId /\ Shown(o) /\ Queued(o.j) \subseteq Queued(svc.j)
  BY <1>1, ObserveSettles
<1> HIDE DEF o
<1>5. o \in Services /\ o.phase = "Idle" /\ o.pay = svc.pay
  BY <1>2, <1>4 DEF Settles
<1>6. ServiceOK(o)
  BY <1>4, <1>5, ServiceBooks, BooksPlanned DEF FinalizerLast
<1>7. Follows(svc, o)
  BY <1>1, <1>4, <1>6, SettlesQuiets DEF Follows
<1>8. id \in Ids
  BY <1>1, <1>2, <1>4, NatFields, BoundAssumption DEF IInv, Ids
<1>9. ~HasUndo(o, Queued(o.j))
  BY <1>2, <1>4, <1>5 DEF HasUndo
<1>10. /\ Follows(o, r) /\ r.j.nextId = id + 1 /\ CanCancelReservation(r.j, id)
  BY <1>2, <1>5, <1>6, <1>8, ReserveFollows
<1>11. CASE \E out \in Answers(o.reading) :
           /\ o.undo = 0
           /\ Request(Submit(Answered(r, id, out), id, out, o.reading, answered),
                      TRUE, answered, posted)
  <2>1. PICK out \in Answers(o.reading) :
           /\ o.undo = 0
           /\ Request(Submit(Answered(r, id, out), id, out, o.reading, answered),
                      TRUE, answered, posted)
    BY <1>11
  <2> DEFINE w == Submit(Answered(r, id, out), id, out, o.reading, answered)
  <2>2. Follows(o, w)
    BY <2>1, <1>2, <1>5, <1>6, <1>8, <1>9, SubmitFollows
  <2>3. Request(w, TRUE, answered, posted)
    BY <2>1
  <2> HIDE DEF w
  <2>4. Follows(w, svc') /\ Asks(TRUE)
    BY <2>2, <2>3, RequestFollows DEF Follows
  <2>5. Follows(svc, svc')
    BY <1>1, <1>6, <1>7, <2>2, <2>4, FollowsTwice
  <2>6. TRUE \in BOOLEAN
    OBVIOUS
  <2> QED
    BY <1>2, <2>4, <2>5, <2>6, AskKeeps
<1>12. CASE /\ svc' = Cancel(r, CancelReservation(r.j, id), FALSE, "Rejected", answered)
            /\ UNCHANGED stack
  <2> DEFINE k == CancelReservation(r.j, id)
  <2>1. ServiceOK(r) /\ JournalGood(r.j) /\ id \in Nat
    BY <1>8, <1>10 DEF Follows, ServiceOK, JournalGood, Ids
  <2> HIDE DEF r
  <2>2. Shortens(r.j, k) /\ k.cvis = r.j.cvis /\ k.active = r.j.active
    BY <1>10, <2>1, CancelReservationKeeps
  <2>3. svc' = Cancel(r, k, FALSE, "Rejected", answered)
    BY <1>12
  <2>4. FALSE \in BOOLEAN /\ "Rejected" \in {"Rejected", "Unknown"}
    OBVIOUS
  <2> HIDE DEF k
  <2>5. Better(r, svc')
    BY <2>1, <2>2, <2>3, <2>4, CancelBetters
  <2>6. Follows(r, svc')
    BY <2>5 DEF Better, Follows
  <2>7. Follows(svc, svc')
    BY <1>1, <1>6, <1>7, <1>10, <2>6, FollowsTwice
  <2> QED
    BY <1>2, <1>12, <2>7, SameKeeps DEF IInv, TypeOK
<1>13. CASE /\ o.j.nextId < MaxId
            /\ Request(Recover(r, c, answered), TRUE, answered, posted)
  <2> DEFINE w == Recover(r, c, answered)
  <2>1. ServiceOK(r) /\ r.j.nextId \in Ids
    BY <1>8, <1>10, <1>13, BoundAssumption DEF Follows, Ids
  <2> HIDE DEF r
  <2>2. Follows(r, w)
    BY <2>1, RecoverFollows
  <2>3. Request(w, TRUE, answered, posted)
    BY <1>13
  <2> HIDE DEF w
  <2>4. Follows(w, svc') /\ Asks(TRUE)
    BY <2>2, <2>3, RequestFollows DEF Follows
  <2>5. Follows(svc, svc')
    BY <1>1, <1>6, <1>7, <1>10, <2>1, <2>2, <2>4, FollowsTwice
  <2>6. TRUE \in BOOLEAN
    OBVIOUS
  <2> QED
    BY <1>2, <2>4, <2>5, <2>6, AskKeeps
<1> QED
  BY <1>3, <1>11, <1>12, <1>13

LEMMA DispatchKeeps ==
  ASSUME IInv, NEW answered, NEW posted \in BOOLEAN, Dispatch(answered, posted)
  PROVE  IInv'
<1> DEFINE t == Taken(svc)
           f == IF "focus" \in svc.work THEN FinalizeFocus(t, answered, posted) ELSE t
<1>1. ServiceOK(svc) /\ svc \in Services
  BY DEF IInv, ServiceOK
<1>2. /\ "focus" \in svc.work => svc.j.nextId <= MaxId
      /\ UNCHANGED <<queued, doc, deleted, events>>
      /\ \/ Request(f, InKey, answered, posted)
         \/ svc' = f /\ UNCHANGED stack
  BY DEF Dispatch, Taken
<1>3. Follows(svc, f)
  <2>1. CASE "focus" \in svc.work
    <3>1. svc.j.nextId \in Ids
      BY <1>1, <1>2, <2>1, NatFields, BoundAssumption DEF IInv, Ids
    <3> QED
      BY <1>1, <2>1, <3>1, FinalizeFocusFollows
  <2>2. CASE "focus" \notin svc.work
    <3>1. svc.phase # "DeferredQueued"
      BY <1>1, <2>2 DEF ServiceOK, Owed
    <3>2. /\ t \in Services /\ t.j = svc.j /\ t.pay = svc.pay
          /\ t.token = svc.token /\ t.undo = svc.undo /\ t.phase = svc.phase
          /\ t.text = svc.text /\ t.known = svc.known /\ t.ctx = svc.ctx
          /\ t.flight = svc.flight /\ t.nextFlight = svc.nextFlight /\ t.told = svc.told
      BY <1>1, TakenFields
    <3>3. f = t
      BY <2>2
    <3> HIDE DEF t, f
    <3>4. ServiceOK(t)
      BY <1>1, <3>1, <3>2 DEF ServiceOK, PlansOK, Owed, FinalizerLast, Shown
    <3>5. Quiets(svc, t)
      BY <1>1, <3>2, NatFields DEF Quiets, Keeps
    <3> QED
      BY <3>3, <3>4, <3>5 DEF Follows
  <2> QED
    BY <2>1, <2>2
<1> HIDE DEF f
<1>4. CASE Request(f, InKey, answered, posted)
  <2>1. Follows(f, svc') /\ Asks(InKey)
    BY <1>3, <1>4, RequestFollows DEF Follows
  <2>2. Follows(svc, svc')
    BY <1>1, <1>3, <2>1, FollowsTwice
  <2>3. InKey \in BOOLEAN
    BY DEF InKey
  <2> QED
    BY <1>2, <2>1, <2>2, <2>3, AskKeeps
<1>5. CASE svc' = f /\ UNCHANGED stack
  BY <1>2, <1>3, <1>5, SameKeeps DEF IInv, TypeOK
<1> QED
  BY <1>2, <1>4, <1>5

LEMMA EventKeeps ==
  ASSUME IInv, NEW s, Follows(svc, s), Event(s)
  PROVE  IInv'
<1>1. events' \in 0..MaxEvents
  BY BoundAssumption DEF IInv, TypeOK, Event
<1> QED
  BY <1>1, SameKeeps DEF Event

LEMMA FocusKeeps ==
  ASSUME IInv, NEW answered, NEW posted \in BOOLEAN,
         \/ FocusLost(answered, posted) \/ FocusGained(answered)
         \/ Deactivated(answered) \/ Activated(answered)
  PROVE  IInv'
<1>1. ServiceOK(svc)
  BY DEF IInv
<1>2. CASE FocusLost(answered, posted)
  BY <1>1, <1>2, LoseFocusFollows, EventKeeps DEF FocusLost
<1>3. CASE FocusGained(answered)
  BY <1>1, <1>3, GainFocusFollows, EventKeeps DEF FocusGained
<1>4. CASE Deactivated(answered)
  BY <1>1, <1>4, DetachFollows, EventKeeps DEF Deactivated
<1>5. CASE Activated(answered)
  BY <1>1, <1>5, ReattachBetters, EventKeeps DEF Activated, Better, Follows
<1> QED
  BY <1>2, <1>3, <1>4, <1>5

(* A service that shows nothing and has no flight asks nothing of what the  *)
(* hosts show.                                                              *)
LEMMA FrameLost ==
  ASSUME NEW s \in Services, NEW r \in Services, Quiets(s, r),
         r.flight = 0, r.text = Empty,
         NEW docs, NEW shown, NEW gone, NEW more, gone \subseteq more,
         NEW f \in Frames, TicketOK(s, f.t), FrameOK(s, docs, gone, f)
  PROVE  FrameOK(r, shown, more, f)
<1>1. r.pay[f.t.id] = s.pay[f.t.id] /\ r.nextFlight = s.nextFlight
  BY DEF TicketOK, Quiets
<1>2. CASE Writing(f)
  <2>1. /\ f.flight # 0 /\ f.flight < s.nextFlight /\ RestOK(f, s.pay[f.t.id], gone)
    BY <1>2 DEF FrameOK
  <2>2. RestOK(f, s.pay[f.t.id], more)
    BY <2>1 DEF RestOK
  <2>3. FlightOK(r, shown, f, r.pay[f.t.id])
    BY <2>1 DEF FlightOK, Lost
  <2> QED
    BY <1>1, <1>2, <2>1, <2>2, <2>3 DEF FrameOK
<1>3. CASE ~Writing(f)
  BY <1>3 DEF FrameOK
<1> QED
  BY <1>2, <1>3

LEMMA HostTerminatesKeeps ==
  ASSUME IInv, NEW c \in Contexts, NEW answered, NEW heard \in BOOLEAN,
         HostTerminates(c, answered, heard)
  PROVE  IInv'
<1>1. ServiceOK(svc) /\ svc \in Services /\ svc.j.nextId > 0 /\ svc.nextFlight > 0
  BY DEF IInv, ServiceOK
<1>2. /\ svc' = Terminated(svc, answered, heard)
      /\ doc' = [doc EXCEPT ![c] = Empty] /\ events < MaxEvents /\ events' = events + 1
      /\ UNCHANGED <<stack, queued, deleted>>
  BY DEF HostTerminates
<1>3. Better(svc, svc') /\ svc'.flight = 0 /\ svc'.text = Empty
  BY <1>1, <1>2, TerminatedBetters
<1>4. ServiceOK(svc') /\ svc' \in Services /\ Quiets(svc, svc')
  BY <1>3 DEF Better, ServiceOK
<1>5. TypeOK'
  <2>1. /\ svc' \in Services /\ Len(svc'.j.ops) <= Capacity
        /\ Len(svc'.j.terminals) <= Capacity
    BY <1>4, Typed
  <2>2. events' \in 0..MaxEvents
    BY <1>2, BoundAssumption DEF IInv, TypeOK
  <2>3. doc' \in [Contexts -> Visible \union {Unknown}]
    BY <1>2, JournalAssumption DEF IInv, TypeOK
  <2> QED
    BY <1>2, <2>1, <2>2, <2>3 DEF IInv, TypeOK
<1>6. TicketsOK'
  BY <1>1, <1>2, <1>4, TicketKept DEF IInv, TicketsOK
<1>7. FramesOK'
  <2>1. SUFFICES ASSUME NEW i \in DOMAIN stack
                 PROVE  FrameOK(svc', doc', deleted', stack[i])
    BY <1>2 DEF FramesOK
  <2>2. /\ stack[i] \in Frames /\ TicketOK(svc, stack[i].t)
        /\ FrameOK(svc, doc, deleted, stack[i])
    BY StackShape
  <2> QED
    BY <1>1, <1>2, <1>3, <1>4, <2>2, FrameLost
<1>8. LocksOK'
  BY <1>2 DEF IInv, LocksOK
<1>9. FlightOwned' /\ TextIsOnScreen'
  BY <1>3 DEF FlightOwned, TextIsOnScreen
<1>10. AppliedWasDeleted'
  BY <1>2, <1>4 DEF IInv, AppliedWasDeleted, Quiets
<1>11. svc'.j.nextId > 0 /\ svc'.nextFlight > 0
  BY <1>1, <1>4, NatFields DEF Quiets
<1> QED
  BY <1>4, <1>5, <1>6, <1>7, <1>8, <1>9, <1>10, <1>11 DEF IInv

(* What is known of the innermost frame.                                    *)
LEMMA TopKnown ==
  ASSUME IInv, stack # << >>
  PROVE  /\ Top \in Frames /\ Top.t \in Tickets /\ Top.t.epoch.context \in Contexts
         /\ Top.flight \in Nat /\ Top.todo \in Seq(Updates) /\ Top.ok \in BOOLEAN
         /\ TicketOK(svc, Top.t) /\ FrameOK(svc, doc, deleted, Top)
         /\ ServiceOK(svc) /\ svc \in Services
<1>1. /\ Top \in Frames /\ Top.t \in Tickets /\ Top.t.epoch.context \in Contexts
      /\ TicketOK(svc, Top.t) /\ FrameOK(svc, doc, deleted, Top)
  BY StackShape, TopShape
<1>2. Top.flight \in Nat /\ Top.todo \in Seq(Updates) /\ Top.ok \in BOOLEAN
  BY <1>1 DEF Frames
<1> QED
  BY <1>1, <1>2 DEF IInv, ServiceOK

LEMMA StaysFollows ==
  ASSUME IInv, UNCHANGED svc
  PROVE  Follows(svc, svc')
<1>1. svc \in Services /\ ServiceOK(svc)
  BY DEF IInv, ServiceOK
<1> QED
  BY <1>1, NatFields DEF Follows, Quiets, Keeps

LEMMA HostRunsKeeps ==
  ASSUME IInv, HostRuns
  PROVE  IInv'
<1> DEFINE f == [Top EXCEPT !.stage = "gate"]
<1>1. /\ stack # << >> /\ Top.stage = "asked" /\ Unlocked(Top.t.epoch.context)
      /\ Step(f) /\ UNCHANGED <<svc, queued, doc, deleted, events>>
  BY DEF HostRuns
<1>2. Top \in Frames /\ FrameOK(svc, doc, deleted, Top)
  BY <1>1, TopKnown
<1>3. ~Writing(Top) /\ Top.flight = 0
  BY <1>1, <1>2 DEF Writing, FrameOK
<1>4. /\ f \in Frames /\ f.t = Top.t /\ f.flight = 0 /\ f.stage = "gate"
  BY <1>2, <1>3 DEF Frames, Stages
<1> HIDE DEF f
<1>5. ~Writing(f)
  BY <1>4 DEF Writing
<1> QED
  BY <1>1, <1>3, <1>4, <1>5, StepKeeps

LEMMA HostAnswersKeep ==
  ASSUME IInv, NEW answered, HostQueues \/ HostRefuses(answered)
  PROVE  IInv'
<1>1. /\ stack # << >> /\ Top.stage = "asked" /\ Pop
      /\ queued' \subseteq queued \union {Top.t} /\ UNCHANGED <<doc, deleted, events>>
  BY DEF HostQueues, HostRefuses
<1>2. FrameOK(svc, doc, deleted, Top) /\ ServiceOK(svc)
  BY <1>1, TopKnown
<1>3. Top.flight = 0
  BY <1>1, <1>2 DEF Writing, FrameOK
<1>4. Follows(svc, svc')
  <2>1. CASE HostQueues
    BY <2>1, StaysFollows DEF HostQueues
  <2>2. CASE HostRefuses(answered)
    BY <1>2, <2>2, TicketBetters DEF HostRefuses, Better, Follows
  <2> QED
    BY <2>1, <2>2
<1> QED
  BY <1>1, <1>3, <1>4, PopKeeps

LEMMA RunsQueuedKeeps ==
  ASSUME IInv, NEW t \in queued, RunsQueued(t)
  PROVE  IInv'
<1> DEFINE f == Frame(t, "gate", InKey)
<1>1. /\ Unlocked(t.epoch.context) /\ queued' \subseteq queued
      /\ stack' = Append(stack, f) /\ UNCHANGED <<svc, doc, deleted, events>>
  BY DEF RunsQueued
<1>2. t \in Tickets /\ TicketOK(svc', t)
  BY <1>1 DEF IInv, TypeOK, TicketsOK
<1>3. InKey \in BOOLEAN
  BY DEF InKey
<1>4. /\ f \in Frames /\ f.t = t /\ f.stage = "gate" /\ f.flight = 0
  BY <1>2, <1>3 DEF Frame, Frames, Stages
<1> HIDE DEF f
<1>5. ~Writing(f)
  BY <1>4 DEF Writing
<1> QED
  BY <1>1, <1>2, <1>4, <1>5, StaysFollows, PushKeeps

(* A session that ends before it was given a flight.                        *)
LEMMA EndsEarly ==
  ASSUME IInv, stack # << >>, ~Writing(Top), Follows(svc, svc'),
         Pop, UNCHANGED <<queued, doc, deleted, events>>
  PROVE  IInv'
<1>1. Top.flight = 0
  BY TopKnown DEF FrameOK
<1> QED
  BY <1>1, PopKeeps

LEMMA GateKeeps ==
  ASSUME IInv, NEW answered, Gate(answered)
  PROVE  IInv'
<1> DEFINE f == [Top EXCEPT !.stage = "open"]
<1>1. stack # << >> /\ Top.stage = "gate"
  BY DEF Gate, At
<1>2. Top \in Frames /\ FrameOK(svc, doc, deleted, Top) /\ ServiceOK(svc)
  BY <1>1, TopKnown
<1>3. ~Writing(Top) /\ Top.flight = 0
  BY <1>1, <1>2 DEF Writing, FrameOK
<1>4. CASE Validates(svc.j, Top.t)
  <2>1. Step(f) /\ UNCHANGED <<svc, queued, doc, deleted, events>>
    BY <1>4 DEF Gate
  <2>2. /\ f \in Frames /\ f.t = Top.t /\ f.flight = 0 /\ f.stage = "open"
    BY <1>2, <1>3 DEF Frames, Stages
  <2> HIDE DEF f
  <2>3. ~Writing(f)
    BY <2>2 DEF Writing
  <2> QED
    BY <1>1, <1>3, <2>1, <2>2, <2>3, StepKeeps
<1>5. CASE ~Validates(svc.j, Top.t)
  <2>1. /\ svc' = CancelStale(svc, Top.t, answered)
        /\ Pop /\ UNCHANGED <<queued, doc, deleted, events>>
    BY <1>5 DEF Gate, Ended
  <2>2. Follows(svc, svc')
    BY <1>2, <2>1, TicketBetters DEF Better, Follows
  <2> QED
    BY <1>1, <1>3, <2>1, <2>2, EndsEarly
<1> QED
  BY <1>4, <1>5

(* What the lock of the innermost session says of every other.              *)
LEMMA OthersApart ==
  ASSUME IInv, stack # << >>, Top.stage # "asked", NEW i \in 1..Len(stack), i # Len(stack)
  PROVE  /\ stack[i] \in Frames /\ TicketOK(svc, stack[i].t)
         /\ FrameOK(svc, doc, deleted, stack[i])
         /\ stack[i].stage # "asked" => stack[i].t.epoch.context # Top.t.epoch.context
         /\ Writing(stack[i]) => stack[i].flight # Top.flight
         /\ Writing(Top) => stack[i].flight # Top.flight
<1>1. /\ Len(stack) \in DOMAIN stack /\ i \in DOMAIN stack /\ Top = stack[Len(stack)]
  BY StackShape, TopShape
<1>2. Apart(stack[i], Top) /\ Apart(Top, stack[i])
  BY <1>1 DEF IInv, LocksOK
<1> QED
  BY <1>2, StackShape DEF Apart

(* A step of the innermost session while it writes, or begins to.           *)
LEMMA WritesKeep ==
  ASSUME IInv, stack # << >>, NEW f \in Frames, Step(f), f.t = Top.t,
         f.stage # "asked", Top.stage # "asked", f.flight # 0,
         \A i \in 1..Len(stack) : i # Len(stack) => stack[i].flight # f.flight,
         UNCHANGED <<queued, events>>, HostTypes',
         ServiceOK(svc'), svc'.j.nextId > 0, svc'.nextFlight > 0,
         \A t : TicketOK(svc, t) => TicketOK(svc', t),
         \A i \in 1..Len(stack) : i # Len(stack) => FrameOK(svc', doc', deleted', stack[i]),
         FrameOK(svc', doc', deleted', f),
         svc'.flight # 0 =>
           svc'.flight = f.flight \/ (svc'.flight = svc.flight /\ Top.flight \in {0, f.flight}),
         TextIsOnScreen', AppliedWasDeleted'
  PROVE  IInv'
<1> DEFINE n == Len(stack)
<1>1. /\ n \in Nat /\ n \in 1..n /\ DOMAIN stack = 1..n /\ Top = stack[n]
  BY StackShape, TopShape
<1>2. /\ stack' \in Seq(Frames) /\ DOMAIN stack' = 1..n
      /\ \A i \in 1..n : i # n => stack'[i] = stack[i]
      /\ stack'[n] = f
  BY StepShape
<1>3. TypeOK'
  BY <1>2, Typed DEF TypeOK, HostTypes
<1>4. TicketsOK'
  BY <1>1, <1>2 DEF IInv, TicketsOK
<1>5. FramesOK'
  BY <1>2 DEF FramesOK
<1>6. LocksOK'
  <2>1. \A i \in 1..n : i # n => Apart(stack[i], f) /\ Apart(f, stack[i])
    BY OthersApart DEF Apart
  <2> QED
    BY <1>1, <1>2, <2>1 DEF IInv, LocksOK
<1>7. FlightOwned'
  <2>1. SUFFICES ASSUME svc'.flight # 0, svc'.flight # f.flight
                 PROVE  \E i \in 1..n : stack'[i].flight = svc'.flight
    BY <1>1, <1>2 DEF FlightOwned
  <2>2. svc'.flight = svc.flight /\ Top.flight \in {0, f.flight}
    BY <2>1
  <2>3. PICK i \in 1..n : stack[i].flight = svc.flight
    BY <1>1, <2>1, <2>2 DEF IInv, FlightOwned
  <2>4. i # n
    BY <1>1, <2>1, <2>2, <2>3
  <2> QED
    BY <1>2, <2>2, <2>3, <2>4
<1> QED
  BY <1>3, <1>4, <1>5, <1>6, <1>7 DEF IInv

LEMMA OpenKeeps ==
  ASSUME IInv, NEW answered, Open(answered)
  PROVE  IInv'
<1>1. stack # << >> /\ Top.stage = "open"
  BY DEF Open, At
<1>2. /\ Top \in Frames /\ FrameOK(svc, doc, deleted, Top) /\ TicketOK(svc, Top.t)
      /\ ServiceOK(svc) /\ svc \in Services
  BY <1>1, TopKnown
<1>3. ~Writing(Top) /\ Top.flight = 0
  BY <1>1, <1>2 DEF Writing, FrameOK
<1>4. CASE ~Validates(svc.j, Top.t)
  <2>1. /\ svc' = CancelStale(svc, Top.t, answered)
        /\ Pop /\ UNCHANGED <<queued, doc, deleted, events>>
    BY <1>4 DEF Open, Ended
  <2>2. Follows(svc, svc')
    BY <1>2, <2>1, TicketBetters DEF Better, Follows
  <2> QED
    BY <1>1, <1>3, <2>1, <2>2, EndsEarly
<1>5. CASE /\ Validates(svc.j, Top.t)
           /\ ~svc.known \/ svc.text # svc.pay[Top.t.id].before \/ svc.flight # 0
  <2>1. /\ svc' = Abandon(svc, answered)
        /\ Pop /\ UNCHANGED <<queued, doc, deleted, events>>
    BY <1>5 DEF Open, Ended
  <2>2. Books(svc)
    BY <1>2, ServiceBooks
  <2>3. Follows(svc, svc')
    BY <2>1, <2>2, AbandonBetters DEF Better, Follows
  <2> QED
    BY <1>1, <1>3, <2>1, <2>3, EndsEarly
<1>6. CASE /\ Validates(svc.j, Top.t)
           /\ svc.known /\ svc.text = svc.pay[Top.t.id].before /\ svc.flight = 0
  <2> DEFINE x == svc.nextFlight
             p == svc.pay[Top.t.id]
             f == [Top EXCEPT !.stage = "calling", !.flight = x, !.todo = p.updates]
  <2>1. /\ svc' = [svc EXCEPT !.flight = x, !.nextFlight = x + 1]
        /\ Step(f) /\ UNCHANGED <<queued, doc, deleted, events>>
    BY <1>6 DEF Open
  <2>2. x \in Nat /\ x # 0
    BY <1>2, NatFields DEF IInv
  <2>3. p \in Payloads /\ p.updates \in Seq(Updates) /\ PlanOK(p) /\ p.updates # << >>
    BY <1>2 DEF TicketOK, ServiceOK, PlansOK, Services, Payloads
  <2>4. /\ f \in Frames /\ f.t = Top.t /\ f.stage = "calling" /\ f.flight = x
        /\ f.todo = p.updates
    BY <1>2, <2>2, <2>3 DEF Frames, Stages
  <2>5. /\ svc' \in Services /\ svc'.j = svc.j /\ svc'.pay = svc.pay
        /\ svc'.text = svc.text /\ svc'.known = svc.known /\ svc'.ctx = svc.ctx
        /\ svc'.flight = x /\ svc'.nextFlight = x + 1 /\ svc'.told = svc.told
        /\ svc'.phase = svc.phase /\ svc'.work = svc.work
        /\ svc'.token = svc.token /\ svc'.undo = svc.undo
    <3> HIDE DEF f, x, p
    <3>1. x + 1 \in Nat
      BY <2>2
    <3> QED
      BY <1>2, <2>1, <2>2, <3>1 DEF Services
  <2> HIDE DEF f, x
  <2>6. ServiceOK(svc')
    BY <1>2, <2>5 DEF ServiceOK, PlansOK, Owed, FinalizerLast, Shown
  <2>7. HostTypes'
    BY <2>1 DEF IInv, TypeOK, HostTypes
  <2>8. \A i \in 1..Len(stack) : i # Len(stack) =>
          /\ stack[i].flight # f.flight
          /\ FrameOK(svc', doc', deleted', stack[i])
    <3>1. SUFFICES ASSUME NEW i \in 1..Len(stack), i # Len(stack)
                   PROVE  /\ stack[i].flight # f.flight
                          /\ FrameOK(svc', doc', deleted', stack[i])
      OBVIOUS
    <3>2. /\ stack[i] \in Frames /\ FrameOK(svc, doc, deleted, stack[i])
          /\ stack[i].flight \in Nat
      BY <1>1, <3>1, OthersApart DEF Frames
    <3>3. CASE Writing(stack[i])
      <4>1. /\ stack[i].flight # 0 /\ stack[i].flight < x
            /\ RestOK(stack[i], svc.pay[stack[i].t.id], deleted)
            /\ FlightOK(svc, doc, stack[i], svc.pay[stack[i].t.id])
        BY <3>2, <3>3 DEF FrameOK, x
      <4>2. stack[i].flight # x /\ stack[i].flight < x + 1
        BY <2>2, <3>2, <4>1
      <4>3. FlightOK(svc', doc', stack[i], svc.pay[stack[i].t.id])
        BY <1>6, <2>5, <4>1, <4>2 DEF FlightOK, Lost
      <4> QED
        BY <2>1, <2>4, <2>5, <3>3, <4>1, <4>2, <4>3 DEF FrameOK
    <3>4. CASE ~Writing(stack[i])
      BY <2>2, <2>4, <3>2, <3>4 DEF FrameOK
    <3> QED
      BY <3>3, <3>4
  <2>9. FrameOK(svc', doc', deleted', f)
    <3>1. RestOK(f, p, deleted)
      BY <2>3, <2>4 DEF RestOK, PlanOK
    <3>2. FlightOK(svc', doc, f, p)
      BY <1>6, <2>3, <2>4, <2>5 DEF FlightOK, Made
    <3>3. f.flight # 0 /\ f.flight < svc'.nextFlight /\ Writing(f)
      BY <2>2, <2>4, <2>5 DEF Writing
    <3>4. svc'.pay[f.t.id] = p
      BY <2>4, <2>5
    <3> HIDE DEF p
    <3> QED
      BY <2>1, <3>1, <3>2, <3>3, <3>4 DEF FrameOK
  <2>10. TextIsOnScreen' /\ AppliedWasDeleted'
    BY <2>1, <2>2, <2>5 DEF IInv, TextIsOnScreen, AppliedWasDeleted
  <2>11. \A t : TicketOK(svc, t) => TicketOK(svc', t)
    BY <2>5 DEF TicketOK
  <2>12. svc'.j.nextId > 0 /\ svc'.nextFlight > 0
    BY <2>2, <2>5 DEF IInv
  <2> QED
    BY <1>1, <2>1, <2>2, <2>4, <2>5, <2>6, <2>7, <2>8, <2>9, <2>10, <2>11, <2>12, WritesKeep
<1> QED
  BY <1>4, <1>5, <1>6

(* The same while the service follows and no document changes.              *)
LEMMA GoesOn ==
  ASSUME IInv, stack # << >>, NEW f \in Frames, Step(f), f.t = Top.t,
         Writing(f), Writing(Top), f.flight = Top.flight,
         UNCHANGED <<queued, doc, events>>, deleted \subseteq deleted', deleted' \subseteq Ids,
         Follows(svc, svc'), FrameOK(svc', doc', deleted', f)
  PROVE  IInv'
<1>1. svc \in Services /\ svc' \in Services /\ Quiets(svc, svc') /\ ServiceOK(svc')
  BY DEF IInv, ServiceOK, Follows
<1>2. Top.stage # "asked" /\ f.stage # "asked" /\ f.flight # 0
  BY TopKnown DEF Writing, FrameOK
<1>3. HostTypes'
  BY DEF IInv, TypeOK, HostTypes
<1>4. svc'.j.nextId > 0 /\ svc'.nextFlight > 0
  BY <1>1, NatFields DEF IInv, Quiets
<1>5. \A t : TicketOK(svc, t) => TicketOK(svc', t)
  BY <1>1, TicketKept
<1>6. \A i \in 1..Len(stack) : i # Len(stack) =>
        stack[i].flight # f.flight /\ FrameOK(svc', doc', deleted', stack[i])
  BY <1>1, <1>2, OthersApart, FrameKept
<1>7. svc'.flight # 0 => svc'.flight = svc.flight /\ Top.flight \in {0, f.flight}
  BY <1>1 DEF Quiets, Keeps
<1>8. TextIsOnScreen' /\ AppliedWasDeleted'
  BY ScreenKept DEF IInv
<1> QED
  BY <1>1, <1>2, <1>3, <1>4, <1>5, <1>6, <1>7, <1>8, WritesKeep

LEMMA EndingFollows ==
  ASSUME NEW s, ServiceOK(s), NEW e \in Nat, NEW r, r = [s EXCEPT !.ending = e]
  PROVE  /\ Follows(s, r) /\ r.pay = s.pay /\ r.flight = s.flight
         /\ r.text = s.text /\ r.known = s.known /\ r.ctx = s.ctx
         /\ r.nextFlight = s.nextFlight /\ r.j = s.j /\ r.told = s.told
<1>1. s \in Services /\ s.j.nextId \in Nat
  BY NatFields DEF ServiceOK
<1>2. /\ r \in Services /\ r.pay = s.pay /\ r.flight = s.flight
      /\ r.text = s.text /\ r.known = s.known /\ r.ctx = s.ctx
      /\ r.nextFlight = s.nextFlight /\ r.j = s.j /\ r.told = s.told
      /\ r.token = s.token /\ r.undo = s.undo /\ r.phase = s.phase /\ r.work = s.work
  BY <1>1 DEF Services
<1>3. ServiceOK(r)
  BY <1>2 DEF ServiceOK, PlansOK, Owed, FinalizerLast, Shown
<1> QED
  BY <1>1, <1>2, <1>3 DEF Follows, Quiets, Keeps

(* What is known of the innermost frame while its session writes.           *)
LEMMA TopWrites ==
  ASSUME IInv, stack # << >>, Writing(Top)
  PROVE  LET p == svc.pay[Top.t.id]
         IN  /\ Top.flight \in Nat /\ Top.flight # 0 /\ Top.flight < svc.nextFlight
             /\ RestOK(Top, p, deleted) /\ FlightOK(svc, doc, Top, p)
<1> QED
  BY TopKnown DEF FrameOK

LEMMA FailsKeeps ==
  ASSUME IInv, stack # << >>, Writing(Top), NEW answered, Fails(answered)
  PROVE  IInv'
<1>1. /\ svc' = FailAfterAccess(svc, Top.t, Top.flight, Top.t.epoch.context, answered)
      /\ Pop /\ UNCHANGED <<queued, doc, deleted, events>>
  BY DEF Fails, Ended
<1>2. Top.flight \in Nat /\ Top.flight # 0
  BY TopWrites
<1>3. Better(svc, svc') /\ svc'.flight # Top.flight
  BY <1>1, <1>2, TopKnown, FailAfterAccessBetters
<1>4. Follows(svc, svc')
  BY <1>3 DEF Better, Follows
<1>5. queued' \subseteq queued \union {Top.t}
  BY <1>1
<1> QED
  BY <1>1, <1>3, <1>4, <1>5, PopKeeps

LEMMA BeginCallKeeps ==
  ASSUME IInv, NEW answered, BeginCall(answered)
  PROVE  IInv'
<1>1. /\ stack # << >> /\ Top.stage = "calling" /\ Top.todo # << >>
      /\ Head(Top.todo).kind # "Delete"
  BY DEF BeginCall, At
<1>2. Writing(Top)
  BY <1>1 DEF Writing
<1>3. CASE ~Validates(svc.j, Top.t)
  BY <1>1, <1>2, <1>3, FailsKeeps DEF BeginCall
<1>4. CASE Validates(svc.j, Top.t)
  <2> DEFINE f == [Top EXCEPT !.stage = "inside"]
             e == IF Head(Top.todo).kind \in {"Commit", "Discard"} /\ svc.text # Empty
                  THEN Top.flight ELSE svc.ending
             p == svc.pay[Top.t.id]
  <2>1. /\ svc' = [svc EXCEPT !.ending = e]
        /\ Step(f) /\ UNCHANGED <<queued, doc, deleted, events>>
    BY <1>4 DEF BeginCall
  <2>2. Top \in Frames /\ svc \in Services /\ ServiceOK(svc) /\ Top.flight \in Nat
    BY <1>1, TopKnown
  <2>3. e \in Nat
    BY <2>2 DEF Services
  <2>4. /\ f \in Frames /\ f.t = Top.t /\ f.stage = "inside" /\ f.flight = Top.flight
        /\ f.todo = Top.todo
    BY <2>2 DEF Frames, Stages
  <2> HIDE DEF e, f
  <2>5. /\ Follows(svc, svc') /\ svc'.pay = svc.pay /\ svc'.flight = svc.flight
        /\ svc'.text = svc.text /\ svc'.known = svc.known /\ svc'.ctx = svc.ctx
        /\ svc'.nextFlight = svc.nextFlight
    BY <2>1, <2>2, <2>3, EndingFollows
  <2>6. /\ Top.flight # 0 /\ Top.flight < svc.nextFlight
        /\ RestOK(Top, p, deleted) /\ FlightOK(svc, doc, Top, p)
    BY <1>1, <1>2, TopWrites
  <2> HIDE DEF p
  <2>7. RestOK(f, p, deleted)
    BY <1>1, <2>4, <2>6 DEF RestOK
  <2>8. FlightOK(svc', doc, f, p)
    BY <1>1, <2>4, <2>5, <2>6 DEF FlightOK, Made, Lost
  <2>9. Writing(f) /\ svc'.pay[f.t.id] = p
    BY <2>4, <2>5 DEF Writing, p
  <2>10. FrameOK(svc', doc', deleted', f)
    BY <2>1, <2>4, <2>5, <2>6, <2>7, <2>8, <2>9 DEF FrameOK
  <2>11. deleted \subseteq deleted' /\ deleted' \subseteq Ids
    BY <2>1 DEF IInv, TypeOK
  <2> QED
    BY <1>1, <1>2, <2>1, <2>4, <2>5, <2>9, <2>10, <2>11, GoesOn
<1> QED
  BY <1>3, <1>4

(* Until SetText nothing has changed: a rejected undo leaves the empty      *)
(* composition it found.                                                    *)
LEMMA BeginDeleteKeeps ==
  ASSUME IInv, NEW fits \in BOOLEAN, NEW answered, BeginDelete(fits, answered)
  PROVE  IInv'
<1> DEFINE p == svc.pay[Top.t.id]
<1>1. /\ stack # << >> /\ Top.stage = "calling" /\ Top.todo # << >>
      /\ Head(Top.todo).kind = "Delete"
  BY DEF BeginDelete, At
<1>2. Writing(Top)
  BY <1>1 DEF Writing
<1>3. Top \in Frames /\ svc \in Services /\ ServiceOK(svc) /\ Top.todo \in Seq(Updates)
  BY <1>1, TopKnown
<1>4. /\ Top.flight \in Nat /\ Top.flight # 0 /\ Top.flight < svc.nextFlight
      /\ RestOK(Top, p, deleted) /\ FlightOK(svc, doc, Top, p)
  BY <1>1, <1>2, TopWrites
<1>5. CASE fits /\ Validates(svc.j, Top.t)
  <2> DEFINE f == [Top EXCEPT !.stage = "inside"]
  <2>1. Step(f) /\ UNCHANGED <<svc, queued, doc, deleted, events>>
    BY <1>5 DEF BeginDelete
  <2>2. /\ f \in Frames /\ f.t = Top.t /\ f.stage = "inside" /\ f.flight = Top.flight
        /\ f.todo = Top.todo
    BY <1>3 DEF Frames, Stages
  <2>3. Follows(svc, svc')
    BY <2>1, StaysFollows
  <2> HIDE DEF f, p
  <2>4. RestOK(f, p, deleted)
    BY <1>1, <1>4, <2>2 DEF RestOK
  <2>5. FlightOK(svc', doc, f, p)
    BY <1>1, <1>4, <2>1, <2>2 DEF FlightOK, Made, Lost
  <2>6. Writing(f) /\ svc'.pay[f.t.id] = p
    BY <2>1, <2>2 DEF Writing, p
  <2>7. FrameOK(svc', doc', deleted', f)
    BY <1>4, <2>1, <2>2, <2>4, <2>5, <2>6 DEF FrameOK
  <2>8. deleted \subseteq deleted' /\ deleted' \subseteq Ids
    BY <2>1 DEF IInv, TypeOK
  <2> QED
    BY <1>1, <1>2, <2>1, <2>2, <2>3, <2>6, <2>7, <2>8, GoesOn
<1>6. CASE ~(fits /\ Validates(svc.j, Top.t))
  <2> DEFINE x == IF svc.flight = Top.flight THEN InvalidateFlight(svc) ELSE svc
  <2>1. /\ svc' = RejectRequested(x, Top.t, answered)
        /\ Pop /\ UNCHANGED <<queued, doc, deleted, events>>
    BY <1>6 DEF BeginDelete, Ended
  <2>2. Follows(svc, x) /\ (x.flight # 0 => x.flight # Top.flight)
    <3>1. CASE svc.flight = Top.flight
      <4>1. svc.text = p.before
        BY <1>4, <3>1 DEF FlightOK
      <4>2. p.before = Empty
        <5> HIDE DEF p
        <5>1. 1 \in DOMAIN Top.todo /\ Top.todo[1].kind = "Delete"
          BY <1>1, <1>3
        <5> QED
          BY <1>4, <5>1 DEF RestOK
      <4>3. x = InvalidateFlight(svc)
        BY <3>1
      <4> HIDE DEF x
      <4>4. /\ Settles(svc, x) /\ x.j = svc.j /\ x.flight = 0 /\ x.text = svc.text
        BY <1>3, <4>3, InvalidateFlightSettles
      <4>5. Keeps(svc, x)
        BY <4>1, <4>2, <4>4 DEF Keeps
      <4> QED
        BY <1>3, <4>4, <4>5, SettlesBetters DEF Better, Follows
    <3>2. CASE svc.flight # Top.flight
      <4>1. Quiets(svc, svc)
        BY <1>3, NatFields DEF Quiets, Keeps
      <4> QED
        BY <1>3, <3>2, <4>1 DEF Follows
    <3> QED
      BY <3>1, <3>2
  <2> HIDE DEF x
  <2>3. Follows(x, svc')
    BY <2>1, <2>2, TicketBetters DEF Better, Follows
  <2>4. Follows(svc, svc')
    BY <1>3, <2>2, <2>3, FollowsTwice
  <2>5. svc'.flight # 0 => svc'.flight # Top.flight
    BY <2>2, <2>3 DEF Follows, Quiets, Keeps
  <2>6. queued' \subseteq queued \union {Top.t}
    BY <2>1
  <2> QED
    BY <1>1, <2>1, <2>4, <2>5, <2>6, PopKeeps
<1> QED
  BY <1>5, <1>6

(* What is left of a plan after its first update.                           *)
LEMMA TailRest ==
  ASSUME NEW S, NEW q \in Seq(S), q # << >>
  PROVE  /\ Tail(q) \in Seq(S)
         /\ Tail(q) # << >> => Last(Tail(q)) = Last(q)
         /\ Tail(q) = << >> => Len(q) = 1
         /\ \A n \in DOMAIN Tail(q) : n + 1 \in DOMAIN q /\ Tail(q)[n] = q[n + 1]
<1> DEFINE r == Tail(q)
<1>1. Len(q) \in Nat /\ Len(q) # 0
  OBVIOUS
<1>2. /\ r \in Seq(S) /\ Len(r) = Len(q) - 1
      /\ \A n \in 1..Len(r) : r[n] = q[n + 1]
  BY <1>1
<1> HIDE DEF r
<1>3. r # << >> => r[Len(r)] = q[Len(q)]
  BY <1>1, <1>2
<1>4. r = << >> => Len(q) = 1
  BY <1>1, <1>2
<1>5. \A n \in DOMAIN r : n + 1 \in DOMAIN q /\ r[n] = q[n + 1]
  BY <1>1, <1>2
<1> QED
  BY <1>2, <1>3, <1>4, <1>5 DEF r, Last

LEMMA ReturnKeeps ==
  ASSUME IInv, NEW answered, Return(answered)
  PROVE  IInv'
<1> DEFINE p == svc.pay[Top.t.id]
<1>1. stack # << >> /\ Top.stage = "returned"
  BY DEF Return, At
<1>2. Writing(Top)
  BY <1>1 DEF Writing
<1>3. CASE ~Top.ok \/ ~Validates(svc.j, Top.t)
  BY <1>1, <1>2, <1>3, FailsKeeps DEF Return
<1>4. CASE Top.ok /\ Validates(svc.j, Top.t)
  <2> DEFINE f == [Top EXCEPT !.stage = "calling", !.todo = Tail(@)]
             rest == Tail(Top.todo)
             e == IF svc.ending = Top.flight THEN 0 ELSE svc.ending
  <2>1. /\ svc' = IF svc.ending = Top.flight THEN [svc EXCEPT !.ending = 0] ELSE svc
        /\ Step(f) /\ UNCHANGED <<queued, doc, deleted, events>>
    BY <1>4 DEF Return
  <2>2. /\ Top \in Frames /\ svc \in Services /\ ServiceOK(svc) /\ Top.todo \in Seq(Updates)
    BY <1>1, TopKnown
  <2>3. /\ Top.flight \in Nat /\ Top.flight # 0 /\ Top.flight < svc.nextFlight
        /\ RestOK(Top, p, deleted) /\ FlightOK(svc, doc, Top, p)
    BY <1>1, <1>2, TopWrites
  <2>4. Top.todo # << >>
    BY <1>1, <2>3 DEF RestOK
  <2>5. /\ rest \in Seq(Updates)
        /\ rest # << >> => Last(rest) = Last(Top.todo)
        /\ rest = << >> => Len(Top.todo) = 1
        /\ \A n \in DOMAIN rest : n + 1 \in DOMAIN Top.todo /\ rest[n] = Top.todo[n + 1]
    BY <2>2, <2>4, TailRest
  <2>6. /\ f \in Frames /\ f.t = Top.t /\ f.stage = "calling" /\ f.flight = Top.flight
        /\ f.todo = rest
    <3> HIDE DEF rest
    <3>1. f = [Top EXCEPT !.stage = "calling", !.todo = rest]
      BY DEF rest
    <3> QED
      BY <2>2, <2>5, <3>1 DEF Frames, Stages
  <2>7. e \in Nat /\ svc' = [svc EXCEPT !.ending = e]
    BY <2>1, <2>2 DEF Services
  <2> HIDE DEF e, f, rest
  <2>8. /\ Follows(svc, svc') /\ svc'.pay = svc.pay /\ svc'.flight = svc.flight
        /\ svc'.text = svc.text /\ svc'.known = svc.known /\ svc'.ctx = svc.ctx
        /\ svc'.nextFlight = svc.nextFlight
    BY <2>2, <2>7, EndingFollows
  <2> HIDE DEF p
  <2>9. RestOK(f, p, deleted)
    BY <1>1, <1>4, <2>3, <2>4, <2>5, <2>6 DEF RestOK
  <2>10. FlightOK(svc', doc, f, p)
    <3>1. Made(f) => Made(Top)
      BY <1>1, <1>4, <2>5, <2>6 DEF Made
    <3> QED
      BY <2>3, <2>6, <2>8, <3>1 DEF FlightOK, Lost
  <2>11. Writing(f) /\ svc'.pay[f.t.id] = p
    BY <2>6, <2>8 DEF Writing, p
  <2>12. FrameOK(svc', doc', deleted', f)
    BY <2>1, <2>3, <2>6, <2>8, <2>9, <2>10, <2>11 DEF FrameOK
  <2>13. deleted \subseteq deleted' /\ deleted' \subseteq Ids
    BY <2>1 DEF IInv, TypeOK
  <2> QED
    BY <1>1, <1>2, <2>1, <2>6, <2>8, <2>11, <2>12, <2>13, GoesOn
<1> QED
  BY <1>3, <1>4

(* The host returns from an edit: the frame f that has made it.             *)
LEMMA EditedRest ==
  ASSUME NEW q, q.stage = "inside",
         NEW f, f.t = q.t, f.stage = "returned", f.todo = q.todo,
         NEW p, NEW gone, NEW more, RestOK(q, p, gone), gone \subseteq more,
         Head(q.todo).kind = "Delete" => q.t.id \in more \/ ~f.ok
  PROVE  q.todo # << >> /\ RestOK(f, p, more)
<1> QED
  BY DEF RestOK

(* Only the last update of a plan completes it, and it is no deletion.      *)
LEMMA MadeLast ==
  ASSUME NEW f \in Frames, f.stage = "returned", f.todo # << >>, Made(f)
  PROVE  f.ok /\ Head(f.todo) = Last(f.todo)
<1>1. f.ok /\ Len(f.todo) = 1
  BY DEF Made
<1> QED
  BY <1>1 DEF Last

LEMMA DeletesKeep ==
  ASSUME IInv, NEW ok \in BOOLEAN, NEW v, NEW answered, HostEdits(ok, v, answered),
         Head(Top.todo).kind = "Delete"
  PROVE  IInv'
<1> DEFINE p == svc.pay[Top.t.id]
           f == [Top EXCEPT !.stage = "returned", !.ok = ok]
<1>1. /\ stack # << >> /\ Top.stage = "inside"
      /\ deleted' \in {deleted \union {Top.t.id}} \union (IF ok THEN {} ELSE {deleted})
      /\ Step(f) /\ UNCHANGED <<svc, doc, queued, events>>
  BY DEF HostEdits, At
<1>2. Writing(Top) /\ Top \in Frames /\ TicketOK(svc, Top.t)
  BY <1>1, TopKnown DEF Writing
<1>3. /\ Top.flight # 0 /\ Top.flight < svc.nextFlight
      /\ RestOK(Top, p, deleted) /\ FlightOK(svc, doc, Top, p)
  BY <1>1, <1>2, TopWrites
<1>4. deleted \subseteq deleted' /\ deleted' \subseteq Ids /\ (ok => Top.t.id \in deleted')
  BY <1>1, <1>2 DEF IInv, TypeOK, TicketOK
<1>5. f = [Top EXCEPT !.stage = "returned", !.ok = ok]
  OBVIOUS
<1> HIDE DEF p, f
<1>6. /\ f \in Frames /\ f.t = Top.t /\ f.stage = "returned" /\ f.flight = Top.flight
       /\ f.todo = Top.todo /\ f.ok = ok
  BY <1>2, <1>5 DEF Frames, Stages
<1>7. Top.todo # << >> /\ RestOK(f, p, deleted')
  BY <1>1, <1>3, <1>4, <1>6, EditedRest
<1>8. ~Made(f)
  BY <1>3, <1>6, <1>7, MadeLast DEF RestOK
<1>9. FlightOK(svc', doc', f, p)
  BY <1>1, <1>3, <1>6, <1>7, <1>8 DEF FlightOK, Lost
<1>10. Writing(f) /\ svc'.pay[f.t.id] = p
  BY <1>1, <1>6, <1>7 DEF Writing, p
<1>11. FrameOK(svc', doc', deleted', f)
  BY <1>1, <1>3, <1>6, <1>7, <1>9, <1>10 DEF FrameOK
<1>12. Follows(svc, svc')
  BY <1>1, StaysFollows
<1> QED
  BY <1>1, <1>2, <1>4, <1>6, <1>7, <1>10, <1>11, <1>12, GoesOn

LEMMA ShowsKeep ==
  ASSUME IInv, NEW ok \in BOOLEAN, NEW v \in Visible \union {Unknown}, NEW answered,
         HostEdits(ok, v, answered), Head(Top.todo).kind # "Delete"
  PROVE  IInv'
<1> DEFINE p == svc.pay[Top.t.id]
           f == [Top EXCEPT !.stage = "returned", !.ok = ok]
           c == Top.t.epoch.context
<1>1. /\ stack # << >> /\ Top.stage = "inside"
      /\ ok => v = Head(Top.todo).v
      /\ doc' = [doc EXCEPT ![c] = v]
      /\ \/ svc' = [svc EXCEPT !.ending = 0]
         \/ svc' = Terminated(svc, answered, TRUE)
         \/ svc' = svc
      /\ Step(f) /\ UNCHANGED <<deleted, queued, events>>
  BY DEF HostEdits, At
<1>2. /\ Writing(Top) /\ Top \in Frames /\ TicketOK(svc, Top.t) /\ c \in Contexts
      /\ svc \in Services /\ ServiceOK(svc) /\ Top.stage # "asked"
  BY <1>1, TopKnown DEF Writing
<1>3. /\ Top.flight # 0 /\ Top.flight < svc.nextFlight
      /\ RestOK(Top, p, deleted) /\ FlightOK(svc, doc, Top, p)
  BY <1>1, <1>2, TopWrites
<1>4. f = [Top EXCEPT !.stage = "returned", !.ok = ok]
  OBVIOUS
<1> HIDE DEF p, c, f
<1>5. /\ f \in Frames /\ f.t = Top.t /\ f.stage = "returned" /\ f.flight = Top.flight
       /\ f.todo = Top.todo /\ f.ok = ok
  BY <1>2, <1>4 DEF Frames, Stages
<1>6. Head(Top.todo).kind # "Delete"
  OBVIOUS
<1>7. Top.todo # << >> /\ RestOK(f, p, deleted)
  BY <1>1, <1>3, <1>5, <1>6, EditedRest
<1>8. Writing(f) /\ f.stage # "asked" /\ f.flight # 0
  BY <1>3, <1>5, <1>7 DEF Writing
<1>9. Made(f) => v = p.after
  BY <1>1, <1>3, <1>5, <1>7, MadeLast DEF RestOK
<1>10. HostTypes'
  BY <1>1 DEF IInv, TypeOK, HostTypes
<1>11. doc'[c] = v /\ \A d \in Contexts : d # c => doc'[d] = doc[d]
  BY <1>1, <1>2 DEF IInv, TypeOK
<1>12. \A i \in 1..Len(stack) : i # Len(stack) =>
        /\ stack[i] \in Frames /\ TicketOK(svc, stack[i].t)
        /\ FrameOK(svc, doc, deleted, stack[i])
        /\ stack[i].stage # "asked" => stack[i].t.epoch.context # c
        /\ stack[i].t.epoch.context \in Contexts
        /\ stack[i].flight # f.flight
  BY <1>1, <1>2, <1>5, <1>7, OthersApart, StackShape DEF c
<1>13. CASE svc' = Terminated(svc, answered, TRUE)
  <2>1. Better(svc, svc') /\ svc'.flight = 0 /\ svc'.text = Empty
    BY <1>2, <1>13, TerminatedBetters
  <2>2. ServiceOK(svc') /\ svc' \in Services /\ Quiets(svc, svc')
    BY <2>1 DEF Better, ServiceOK
  <2>3. svc'.j.nextId > 0 /\ svc'.nextFlight > 0
    BY <1>2, <2>2, NatFields DEF IInv, Quiets
  <2>4. \A t : TicketOK(svc, t) => TicketOK(svc', t)
    BY <1>2, <2>2, TicketKept
  <2>5. \A i \in 1..Len(stack) : i # Len(stack) => FrameOK(svc', doc', deleted', stack[i])
    BY <1>1, <1>2, <1>12, <2>1, <2>2, FrameLost
  <2>6. FrameOK(svc', doc', deleted', f)
    <3>1. FlightOK(svc', doc', f, p)
      BY <1>8, <2>1 DEF FlightOK, Lost
    <3>2. svc'.pay[f.t.id] = p /\ svc'.nextFlight = svc.nextFlight
      BY <1>2, <1>5, <1>7, <2>2 DEF p, Quiets, TicketOK
    <3> QED
      BY <1>1, <1>3, <1>5, <1>7, <1>8, <3>1, <3>2 DEF FrameOK
  <2>7. TextIsOnScreen' /\ AppliedWasDeleted'
    BY <1>1, <2>1, <2>2 DEF IInv, TextIsOnScreen, AppliedWasDeleted, Quiets
  <2> QED
    BY <1>1, <1>2, <1>5, <1>7, <1>8, <1>10, <1>12, <2>1, <2>2, <2>3, <2>4, <2>5, <2>6, <2>7, WritesKeep
<1>14. CASE svc' = [svc EXCEPT !.ending = 0] \/ svc' = svc
  <2>1. /\ Follows(svc, svc') /\ svc'.pay = svc.pay /\ svc'.flight = svc.flight
        /\ svc'.text = svc.text /\ svc'.known = svc.known /\ svc'.ctx = svc.ctx
        /\ svc'.nextFlight = svc.nextFlight /\ svc'.j = svc.j /\ svc'.told = svc.told
    <3>1. CASE svc' = svc
      BY <3>1, StaysFollows
    <3>2. CASE svc' = [svc EXCEPT !.ending = 0]
      BY <1>2, <3>2, EndingFollows
    <3> QED
      BY <1>14, <3>1, <3>2
  <2>2. ServiceOK(svc') /\ svc' \in Services /\ Quiets(svc, svc')
    BY <2>1 DEF Follows, ServiceOK
  <2>3. svc'.j.nextId > 0 /\ svc'.nextFlight > 0
    BY <2>1 DEF IInv
  <2>4. \A t : TicketOK(svc, t) => TicketOK(svc', t)
    BY <2>1 DEF TicketOK
  <2>5. ASSUME NEW i \in 1..Len(stack), i # Len(stack)
        PROVE  FrameOK(svc', doc', deleted', stack[i])
    <3>1. CASE stack[i].stage = "asked"
      BY <1>12, <2>5, <3>1 DEF FrameOK, Writing
    <3>2. CASE stack[i].stage # "asked"
      <4>1. doc'[stack[i].t.epoch.context] = doc[stack[i].t.epoch.context]
        BY <1>11, <1>12, <2>5, <3>2
      <4> QED
        BY <1>1, <1>2, <1>12, <2>2, <2>5, <4>1, FrameKept
    <3> QED
      BY <3>1, <3>2
  <2>6. FrameOK(svc', doc', deleted', f)
    <3>1. FlightOK(svc', doc', f, p)
      BY <1>3, <1>5, <1>7, <1>9, <1>11, <2>1 DEF FlightOK, Lost, c
    <3>2. svc'.pay[f.t.id] = p
      BY <1>5, <1>7, <2>1 DEF p
    <3> QED
      BY <1>1, <1>3, <1>5, <1>7, <1>8, <2>1, <3>1, <3>2 DEF FrameOK
  <2>7. TextIsOnScreen'
    <3>1. SUFFICES ASSUME svc.known, svc.text # Empty, svc.flight = 0
                   PROVE  doc'[svc.ctx] = svc.text
      BY <2>1 DEF IInv, TextIsOnScreen
    <3>2. svc.ctx # c
      BY <1>3, <3>1 DEF FlightOK, Lost, c
    <3>3. svc.ctx \in Contexts
      BY <1>2, <3>1 DEF ServiceOK, Shown
    <3> QED
      BY <1>11, <3>1, <3>2, <3>3 DEF IInv, TextIsOnScreen
  <2>8. AppliedWasDeleted'
    BY <1>1, <2>1 DEF IInv, AppliedWasDeleted
  <2>9. svc'.flight # 0 => svc'.flight = svc.flight /\ Top.flight \in {0, f.flight}
    BY <1>5, <1>7, <2>1
  <2> QED
    BY <1>1, <1>2, <1>5, <1>7, <1>8, <1>10, <1>12, <2>2, <2>3, <2>4, <2>5, <2>6, <2>7, <2>8, <2>9, WritesKeep
<1> QED
  BY <1>1, <1>13, <1>14

Published(s, after, c, t) ==
  [Publish(s, after, c) EXCEPT !.j = CompleteApplied(s.j, t)]

(* x is s after its flight has published, with the operation applied.       *)
IsPublished(s, x, after, c, t) ==
  /\ x \in Services /\ x.j = CompleteApplied(s.j, t) /\ x.pay = s.pay
  /\ x.token = s.token /\ x.undo = s.undo /\ x.told = s.told
  /\ x.nextFlight = s.nextFlight
  /\ x.flight = 0 /\ x.text = after /\ x.known = TRUE
  /\ x.ctx = (IF after = Empty THEN NoContext ELSE c)
  /\ x.phase = (IF after = Empty THEN "Idle" ELSE s.phase)
  /\ after # Empty => x.work = s.work

LEMMA PublishedFields ==
  ASSUME NEW s \in Services, NEW after \in Visible, NEW c \in Contexts, NEW t,
         CompleteApplied(s.j, t) \in Journals
  PROVE  IsPublished(s, Published(s, after, c, t), after, c, t)
<1> DEFINE k == CompleteApplied(s.j, t)
           d == [s EXCEPT !.flight = 0, !.ending = 0, !.text = after, !.known = TRUE,
                          !.ctx = IF after = Empty THEN NoContext ELSE c]
           x == Published(s, after, c, t)
<1>1. /\ d \in Services /\ d.pay = s.pay /\ d.j = s.j
      /\ d.token = s.token /\ d.undo = s.undo /\ d.told = s.told
      /\ d.nextFlight = s.nextFlight
      /\ d.flight = 0 /\ d.text = after /\ d.known = TRUE
      /\ d.ctx = (IF after = Empty THEN NoContext ELSE c)
      /\ d.phase = s.phase /\ d.work = s.work
  BY DEF Services
<1>2. x = [(IF after = Empty THEN FinishFocus(d) ELSE d) EXCEPT !.j = k]
  BY DEF Published, Publish
<1>3. CASE after = Empty
  <2>1. x = [FinishFocus(d) EXCEPT !.j = k]
    BY <1>2, <1>3
  <2> HIDE DEF d, k
  <2>2. x = [d EXCEPT !.phase = "Idle", !.reconcile = FALSE, !.work = @ \ {"focus"}, !.j = k]
    BY <2>1 DEF FinishFocus
  <2> HIDE DEF x
  <2>3. k \in Journals
    BY DEF k
  <2>4. /\ x \in Services /\ x.pay = d.pay /\ x.j = k
        /\ x.token = d.token /\ x.undo = d.undo /\ x.told = d.told
        /\ x.nextFlight = d.nextFlight
        /\ x.flight = d.flight /\ x.text = d.text /\ x.known = d.known
        /\ x.ctx = d.ctx /\ x.phase = "Idle"
    BY <1>1, <2>2, <2>3 DEF Services, FocusPhases
  <2> QED
    BY <1>1, <1>3, <2>4 DEF k, x, IsPublished
<1>4. CASE after # Empty
  <2>1. x = [d EXCEPT !.j = k]
    BY <1>2, <1>4
  <2> HIDE DEF d, k, x
  <2>2. k \in Journals
    BY DEF k
  <2>3. /\ x \in Services /\ x.pay = d.pay /\ x.j = k
        /\ x.token = d.token /\ x.undo = d.undo /\ x.told = d.told
        /\ x.nextFlight = d.nextFlight
        /\ x.flight = d.flight /\ x.text = d.text /\ x.known = d.known
        /\ x.ctx = d.ctx /\ x.phase = d.phase /\ x.work = d.work
    BY <1>1, <2>1, <2>2 DEF Services
  <2> QED
    BY <1>1, <1>4, <2>3 DEF k, x, IsPublished
<1> QED
  BY <1>3, <1>4

LEMMA CompletedType ==
  ASSUME NEW s, ServiceOK(s), NEW t, Validates(s.j, t)
  PROVE  CompleteApplied(s.j, t) \in Journals
<1>1. JournalGood(s.j) /\ s.j.ops # << >>
  BY DEF ServiceOK, JournalGood, Validates, IsHead
<1>2. CompleteApplied(s.j, t) = ApplyHead(s.j)
  BY DEF CompleteApplied
<1>3. JournalGood(ApplyHead(s.j))
  BY <1>1, ApplyHeadKeeps DEF Shortens
<1> QED
  BY <1>2, <1>3 DEF JournalGood, JournalOK

(* Publishing: the composition the session wrote becomes what the service   *)
(* takes for shown, and the operation leaves the queue.                     *)
LEMMA PublishKeeps ==
  ASSUME IInv, stack # << >>, Top.stage = "calling", Top.todo = << >>,
         Validates(svc.j, Top.t), svc.flight = Top.flight,
         NEW answered, NEW posted \in BOOLEAN,
         svc' = SettleApplied(
                  Published(svc, svc.pay[Top.t.id].after, Top.t.epoch.context, Top.t),
                  Top.t.id, answered, posted),
         Pop, UNCHANGED <<queued, doc, deleted, events>>
  PROVE  IInv'
<1> DEFINE n == Len(stack)
           id == Top.t.id
           c == Top.t.epoch.context
           p == svc.pay[id]
           after == p.after
           x == Published(svc, after, c, Top.t)
<1>1. /\ Top \in Frames /\ TicketOK(svc, Top.t) /\ c \in Contexts
      /\ svc \in Services /\ ServiceOK(svc) /\ Writing(Top) /\ Top.stage # "asked"
  BY TopKnown DEF Writing
<1>2. /\ Top.flight # 0 /\ Top.flight < svc.nextFlight
      /\ RestOK(Top, p, deleted) /\ FlightOK(svc, doc, Top, p)
  BY <1>1, TopWrites
<1>3. doc[c] = after
  BY <1>2 DEF FlightOK, Made
<1>4. p.undo => id \in deleted
  BY <1>2 DEF RestOK
<1>5. p \in Payloads /\ after \in Visible /\ id \in Ids /\ id < svc.j.nextId
  BY <1>1 DEF Services, Payloads, TicketOK
<1> HIDE DEF p, c, id
<1>6. CompleteApplied(svc.j, Top.t) \in Journals
  BY <1>1, CompletedType
<1>7. /\ x \in Services /\ x.j = CompleteApplied(svc.j, Top.t) /\ x.pay = svc.pay
      /\ x.token = svc.token /\ x.undo = svc.undo /\ x.told = svc.told
      /\ x.nextFlight = svc.nextFlight
      /\ x.flight = 0 /\ x.text = after /\ x.known = TRUE
      /\ x.ctx = (IF after = Empty THEN NoContext ELSE c)
      /\ x.phase = (IF after = Empty THEN "Idle" ELSE svc.phase)
      /\ after # Empty => x.work = svc.work
  <2>1. IsPublished(svc, x, after, c, Top.t)
    <3> HIDE DEF after
    <3> QED
      BY <1>1, <1>5, <1>6, PublishedFields
  <2> HIDE DEF after, x
  <2> QED
    BY <2>1 DEF IsPublished
<1>8. svc' = SettleApplied(x, id, answered, posted)
  BY DEF p, c, id
<1> HIDE DEF x
<1>9. /\ Planned(svc) /\ Owed(svc, {}) /\ Shown(svc) /\ FinalizerLast(svc)
  BY <1>1 DEF ServiceOK, Planned, JournalGood
<1>10. HeadApplied(svc, x, Top.t)
  BY <1>7, <1>9, AppliedHead
<1>11. /\ Planned(x) /\ Owed(x, {id}) /\ x.j.nextId = svc.j.nextId
       /\ svc.j.active /\ x.j.active /\ x.j.cvis = after
       /\ svc.j.ops # << >> /\ svc.j.ops[1].after = after
       /\ x.j.ops # << >> => Last(x.j.ops) = Last(svc.j.ops)
       /\ x.j.ops = << >> => Last(svc.j.ops) = svc.j.ops[1]
  BY <1>10 DEF HeadApplied, p, id
<1>12. Shown(x)
  BY <1>1, <1>7, <1>11 DEF Shown
<1>13. FinalizerLast(x)
  <2>1. SUFFICES ASSUME x.phase = "EngineCommitStarted"
                 PROVE  /\ x.j.ops # << >>
                        /\ LET op == Last(x.j.ops)
                           IN  op.phase # "Reserved" /\ op.writes /\ op.after = Empty
    BY DEF FinalizerLast
  <2>2. after # Empty /\ svc.phase = "EngineCommitStarted"
    BY <1>7, <2>1
  <2>3. LET op == Last(svc.j.ops)
        IN  op.phase # "Reserved" /\ op.writes /\ op.after = Empty
    BY <1>9, <2>2 DEF FinalizerLast
  <2> QED
    BY <1>11, <2>2, <2>3
<1>14. ServiceOK(svc') /\ Applies(x, svc', id)
  BY <1>5, <1>8, <1>11, <1>12, <1>13, SettleAppliedFollows
<1>15. /\ svc' \in Services /\ svc'.j.nextId \in Nat /\ svc.j.nextId \in Nat
       /\ svc.j.nextId <= svc'.j.nextId /\ svc'.nextFlight = svc.nextFlight
       /\ \A i \in Ids : i < svc.j.nextId => svc'.pay[i] = svc.pay[i]
       /\ svc'.flight = 0
       /\ \/ svc'.text = Empty \/ ~svc'.known
          \/ svc'.text = after /\ svc'.ctx = x.ctx
       /\ \A i \in Ids : svc'.told[i] = "Applied" =>
            svc.told[i] = "Applied" \/ (i = id /\ p.undo)
  <2>1. svc' \in Services
    BY <1>14 DEF ServiceOK
  <2>2. svc'.j.nextId \in Nat /\ svc.j.nextId \in Nat
    BY <1>1, <2>1, NatFields
  <2>3. /\ svc.j.nextId <= svc'.j.nextId /\ svc'.nextFlight = svc.nextFlight
        /\ \A i \in Ids : i < svc.j.nextId => svc'.pay[i] = svc.pay[i]
    BY <1>7, <1>11, <1>14 DEF Applies
  <2>4. /\ svc'.flight = 0
        /\ \/ svc'.text = Empty \/ ~svc'.known
           \/ svc'.text = after /\ svc'.ctx = x.ctx
    <3> HIDE DEF after
    <3> QED
      BY <1>7, <1>14 DEF Applies, Keeps
  <2>5. \A i \in Ids : svc'.told[i] = "Applied" =>
          svc.told[i] = "Applied" \/ (i = id /\ p.undo)
    BY <1>7, <1>14 DEF Applies, p
  <2> QED
    BY <2>1, <2>2, <2>3, <2>4, <2>5
<1>16. \A t : TicketOK(svc, t) => TicketOK(svc', t)
  <2>1. SUFFICES ASSUME NEW t, TicketOK(svc, t)
                 PROVE  TicketOK(svc', t)
    OBVIOUS
  <2>2. t.id \in Ids /\ t.id \in Nat /\ t.id < svc.j.nextId /\ svc.pay[t.id].updates # << >>
    BY <2>1 DEF TicketOK, Ids
  <2>3. t.id < svc'.j.nextId
    <3>1. /\ svc'.j.nextId \in Nat /\ svc.j.nextId \in Nat
          /\ svc.j.nextId <= svc'.j.nextId
      BY <1>15
    <3> QED
      BY <2>2, <3>1
  <2> QED
    BY <1>15, <2>2, <2>3 DEF TicketOK
<1>17. /\ n \in Nat /\ n \in 1..n /\ DOMAIN stack = 1..n /\ Top = stack[n]
  BY StackShape, TopShape
<1>18. /\ stack' \in Seq(Frames) /\ Len(stack') = n - 1
       /\ \A i \in 1..n - 1 : stack'[i] = stack[i]
  BY TopShape DEF Pop
<1> HIDE DEF n
<1>19. DOMAIN stack' = 1..n - 1
  BY <1>17, <1>18
<1>20. \A i \in DOMAIN stack' : i \in 1..n /\ i # n /\ stack'[i] = stack[i]
  BY <1>17, <1>18, <1>19
<1>21. TypeOK'
  BY <1>14, <1>18, Typed DEF IInv, TypeOK
<1>22. TicketsOK'
  BY <1>16, <1>17, <1>20 DEF IInv, TicketsOK
<1>23. FramesOK'
  <2>1. SUFFICES ASSUME NEW i \in 1..n, i # n
                 PROVE  FrameOK(svc', doc, deleted, stack[i])
    BY <1>20 DEF FramesOK
  <2>2. /\ stack[i] \in Frames /\ TicketOK(svc, stack[i].t)
        /\ FrameOK(svc, doc, deleted, stack[i])
        /\ stack[i].stage # "asked" => stack[i].t.epoch.context # c
    BY <1>1, <2>1, OthersApart DEF n, c
  <2>3. CASE ~Writing(stack[i])
    BY <2>2, <2>3 DEF FrameOK
  <2>4. CASE Writing(stack[i])
    <3>1. svc'.pay[stack[i].t.id] = svc.pay[stack[i].t.id] /\ stack[i].stage # "asked"
      BY <1>15, <2>2, <2>4 DEF TicketOK, Writing
    <3>2. /\ stack[i].flight # 0 /\ stack[i].flight < svc.nextFlight
          /\ RestOK(stack[i], svc.pay[stack[i].t.id], deleted)
      BY <2>2, <2>4 DEF FrameOK
    <3>3. FlightOK(svc', doc, stack[i], svc.pay[stack[i].t.id])
      BY <1>7, <1>15, <2>2, <3>1, <3>2 DEF FlightOK, Lost
    <3> QED
      BY <1>15, <2>4, <3>1, <3>2, <3>3 DEF FrameOK
  <2> QED
    BY <2>3, <2>4
<1>24. LocksOK'
  BY <1>17, <1>20 DEF IInv, LocksOK
<1>25. FlightOwned'
  BY <1>15 DEF FlightOwned
<1>26. TextIsOnScreen'
  <2>1. SUFFICES ASSUME svc'.known, svc'.text # Empty
                 PROVE  doc[svc'.ctx] = svc'.text /\ (svc'.j.active => svc'.j.cvis = svc'.text)
    BY DEF TextIsOnScreen
  <2>2. svc'.text = after /\ svc'.ctx = c
    BY <1>7, <1>15, <2>1
  <2> QED
    BY <1>3, <1>14, <2>1, <2>2 DEF ServiceOK, Shown
<1>27. AppliedWasDeleted'
  BY <1>4, <1>15 DEF IInv, AppliedWasDeleted
<1>28. svc'.j.nextId > 0 /\ svc'.nextFlight > 0
  <2>1. svc.j.nextId > 0 /\ svc.nextFlight > 0
    BY DEF IInv
  <2>2. /\ svc'.j.nextId \in Nat /\ svc.j.nextId \in Nat
        /\ svc.j.nextId <= svc'.j.nextId /\ svc'.nextFlight = svc.nextFlight
    BY <1>15
  <2> QED
    BY <2>1, <2>2
<1> QED
  BY <1>14, <1>21, <1>22, <1>23, <1>24, <1>25, <1>26, <1>27, <1>28 DEF IInv

LEMMA FinishKeeps ==
  ASSUME IInv, NEW answered, NEW posted \in BOOLEAN, Finish(answered, posted)
  PROVE  IInv'
<1>1. stack # << >> /\ Top.stage = "calling" /\ Top.todo = << >>
  BY DEF Finish, At
<1>2. Writing(Top)
  BY <1>1 DEF Writing
<1>3. ServiceOK(svc)
  BY <1>1, TopKnown
<1>4. CASE ~Validates(svc.j, Top.t)
  BY <1>1, <1>2, <1>4, FailsKeeps DEF Finish
<1>5. CASE Validates(svc.j, Top.t) /\ svc.flight # Top.flight
  <2> DEFINE u == Cancel(svc, CancelTicket(svc.j, Top.t), TRUE, "Unknown", answered)
  <2>1. /\ svc' = Disconnect(u)
        /\ Pop /\ UNCHANGED <<queued, doc, deleted, events>>
    BY <1>5 DEF Finish, Ended
  <2>2. Better(svc, u)
    BY <1>3, TicketBetters
  <2> HIDE DEF u
  <2>3. Better(u, svc')
    BY <2>1, <2>2, DisconnectBetters DEF Better
  <2>4. Follows(svc, svc')
    BY <1>3, <2>2, <2>3, BetterTwice DEF Better, Follows
  <2>5. svc'.flight # 0 => svc'.flight # Top.flight
    BY <1>5, <2>4 DEF Follows, Quiets, Keeps
  <2>6. queued' \subseteq queued \union {Top.t}
    BY <2>1
  <2> QED
    BY <1>1, <2>1, <2>4, <2>5, <2>6, PopKeeps
<1>6. CASE Validates(svc.j, Top.t) /\ svc.flight = Top.flight
  <2> DEFINE after == svc.pay[Top.t.id].after
             c == Top.t.epoch.context
  <2>1. Publish(svc, after, c).j = svc.j
    BY <1>3 DEF Publish, FinishFocus, ServiceOK, Services
  <2>2. /\ svc' = SettleApplied([Publish(svc, after, c) EXCEPT !.j = CompleteApplied(@, Top.t)],
                               Top.t.id, answered, posted)
        /\ Pop /\ UNCHANGED <<queued, doc, deleted, events>>
    BY <1>6 DEF Finish, Ended
  <2>3. [Publish(svc, after, c) EXCEPT !.j = CompleteApplied(@, Top.t)]
          = Published(svc, after, c, Top.t)
    BY <2>1 DEF Published
  <2> QED
    BY <1>1, <1>6, <2>2, <2>3, PublishKeeps
<1> QED
  BY <1>4, <1>5, <1>6

-----------------------------------------------------------------------------
(* A service that has been created, activated or not, is in order.          *)
LEMMA NewServices ==
  ASSUME NEW s, s \in {NewService, [NewService EXCEPT !.j = New]}
  PROVE  /\ ServiceOK(s) /\ s.j.nextId = 1 /\ s.nextFlight = 1
         /\ s.flight = 0 /\ s.text = Empty
         /\ \A i \in Ids : s.told[i] = "none"
<1> DEFINE k == s.j
<1>1. Settled(New) /\ New.nextId = 1
  BY ResetValues, JournalAssumption DEF New, Settled, JournalOK, Journals
<1>2. JournalOK(New)
  BY <1>1 DEF Settled
<1>3. Settled(k) /\ k.nextId = 1
  <2>1. k = New \/ k = Activate(New)
    <3> HIDE DEF New
    <3> QED
      BY DEF NewService
  <2> HIDE DEF k
  <2> QED
    BY <1>1, <1>2, <2>1, LifeCycleSettles
<1>4. JournalGood(k) /\ k \in Journals /\ k.ops = << >>
  BY <1>3, SettledInv DEF JournalGood, Settled, JournalOK
<1>5. NoPayload \in Payloads
  BY JournalAssumption DEF NoPayload, Payloads
<1> DEFINE paid == [i \in Ids |-> NoPayload]
           none == [i \in Ids |-> "none"]
<1>6. paid \in [Ids -> Payloads] /\ none \in [Ids -> UndoTold]
  BY <1>5 DEF UndoTold
<1>7. /\ s \in Services /\ s.j = k /\ s.pay = paid /\ s.told = none
      /\ s.text = Empty /\ s.flight = 0 /\ s.nextFlight = 1 /\ s.phase = "Idle"
      /\ s.token = 0 /\ s.undo = 0
  <2> DEFINE a == Activate(New)
             b == [j |-> a, pay |-> paid, text |-> Empty, known |-> TRUE, ctx |-> NoContext,
                   flight |-> 0, nextFlight |-> 1, ending |-> 0,
                   phase |-> "Idle", reconcile |-> FALSE, work |-> {},
                   token |-> 0, nextToken |-> 1, reading |-> Empty, undo |-> 0, told |-> none]
  <2>1. s = b \/ s = [b EXCEPT !.j = New]
    BY DEF NewService
  <2>2. k = s.j
    OBVIOUS
  <2> HIDE DEF a, paid, none, k
  <2>3. CASE s = b
    BY <1>4, <1>6, <2>2, <2>3, JournalAssumption DEF Services, FocusPhases
  <2>4. CASE s = [b EXCEPT !.j = New]
    BY <1>4, <1>6, <2>2, <2>4, JournalAssumption DEF Services, FocusPhases
  <2> QED
    BY <2>1, <2>3, <2>4
<1> HIDE DEF k
<1>8. PlanOK(NoPayload) /\ ~NoPayload.undo
  BY DEF PlanOK, NoPayload
<1>9. PlansOK(s)
  <2>1. \A i \in Ids : s.pay[i] = NoPayload
    BY <1>7
  <2> QED
    BY <1>4, <1>7, <1>8, <2>1 DEF PlansOK
<1>10. Queued(k) = {}
  BY <1>4 DEF Queued
<1>11. Owed(s, {})
  BY <1>7, <1>10 DEF Owed
<1>12. FinalizerLast(s) /\ Shown(s)
  BY <1>7 DEF FinalizerLast, Shown
<1>13. ServiceOK(s)
  BY <1>4, <1>7, <1>9, <1>11, <1>12 DEF ServiceOK, JournalGood
<1> QED
  BY <1>3, <1>7, <1>13

LEMMA InitIInv ==
  ASSUME Init
  PROVE  IInv
<1>2. /\ ServiceOK(svc) /\ svc.j.nextId = 1 /\ svc.nextFlight = 1
      /\ svc.flight = 0 /\ svc.text = Empty /\ \A i \in Ids : svc.told[i] = "none"
  BY NewServices DEF Init
<1>3. /\ stack = << >> /\ queued = {} /\ doc = [c \in Contexts |-> Empty]
      /\ deleted = {} /\ events = 0
  BY DEF Init
<1>4. TypeOK
  BY <1>2, <1>3, Typed, JournalAssumption, BoundAssumption DEF TypeOK
<1>5. TicketsOK /\ FramesOK /\ LocksOK
  BY <1>3 DEF TicketsOK, FramesOK, LocksOK
<1>6. FlightOwned /\ TextIsOnScreen
  BY <1>2 DEF FlightOwned, TextIsOnScreen
<1>7. AppliedWasDeleted
  BY <1>2 DEF AppliedWasDeleted
<1>8. svc.j.nextId > 0 /\ svc.nextFlight > 0
  BY <1>2
<1> QED
  BY <1>2, <1>4, <1>5, <1>6, <1>7, <1>8 DEF IInv

LEMMA StutterIInv ==
  ASSUME IInv, UNCHANGED vars
  PROVE  IInv'
<1>1. Follows(svc, svc')
  BY StaysFollows DEF vars
<1> QED
  BY <1>1, SameKeeps DEF vars, IInv, TypeOK

LEMMA SessionKeeps ==
  ASSUME IInv, NEW answered, NEW posted \in BOOLEAN, Session(answered, posted)
  PROVE  IInv'
<1>1. CASE HostRuns
  BY <1>1, HostRunsKeeps
<1>2. CASE HostQueues \/ HostRefuses(answered)
  BY <1>2, HostAnswersKeep
<1>3. CASE \E t \in queued : RunsQueued(t)
  BY <1>3, RunsQueuedKeeps
<1>4. CASE Gate(answered)
  BY <1>4, GateKeeps
<1>5. CASE Open(answered)
  BY <1>5, OpenKeeps
<1>6. CASE BeginCall(answered)
  BY <1>6, BeginCallKeeps
<1>7. CASE \E fits \in BOOLEAN : BeginDelete(fits, answered)
  BY <1>7, BeginDeleteKeeps
<1>8. CASE \E ok \in BOOLEAN, v \in Visible \union {Unknown} : HostEdits(ok, v, answered)
  BY <1>8, DeletesKeep, ShowsKeep
<1>9. CASE Return(answered)
  BY <1>9, ReturnKeeps
<1>10. CASE Finish(answered, posted)
  BY <1>10, FinishKeeps
<1> QED
  BY <1>1, <1>2, <1>3, <1>4, <1>5, <1>6, <1>7, <1>8, <1>9, <1>10 DEF Session

LEMMA NextIInv ==
  ASSUME IInv, [Next]_vars
  PROVE  IInv'
<1>1. CASE Next
  <2>1. PICK answered \in Answering, posted \in Posting :
          \/ \E c \in Contexts : Key(c, answered, posted)
          \/ Dispatch(answered, posted)
          \/ Callback(answered, posted)
          \/ Session(answered, posted)
    BY <1>1 DEF Next
  <2>2. posted \in BOOLEAN
    BY SwitchAssumption DEF Posting
  <2>3. CASE \E c \in Contexts : Key(c, answered, posted)
    BY <2>2, <2>3, KeyKeeps
  <2>4. CASE Dispatch(answered, posted)
    BY <2>2, <2>4, DispatchKeeps
  <2>5. CASE Callback(answered, posted)
    BY <2>2, <2>5, FocusKeeps, HostTerminatesKeeps DEF Callback
  <2>6. CASE Session(answered, posted)
    BY <2>2, <2>6, SessionKeeps
  <2> QED
    BY <2>1, <2>3, <2>4, <2>5, <2>6
<1>2. CASE UNCHANGED vars
  BY <1>2, StutterIInv
<1> QED
  BY <1>1, <1>2

(* Whatever the hosts do in between, and however callbacks nest, the        *)
(* service, its open edit sessions and the documents stay in step.          *)
THEOREM QueueInvariance == Spec => []IInv
<1> QED
  BY InitIInv, NextIInv, PTL DEF Spec

(* The text the service takes for shown is the text the host shows, and the *)
(* one the journal plans from, whenever no session is writing               *)
(* (commit_composition_projection, fail_composition_write and the           *)
(* invalidations of every callback).                                        *)
THEOREM ScreenCorrect == Spec => []TextIsOnScreen
<1>1. IInv => TextIsOnScreen
  BY DEF IInv
<1> QED
  BY <1>1, QueueInvariance, PTL

(* A flight, a recovery fence, a focus finalization and a pending undo each *)
(* have somebody left who ends them.                                        *)
THEOREM OwnerCorrect == Spec => []EveryWaitHasOwner
<1>1. ASSUME IInv PROVE EveryWaitHasOwner
  <2>1. /\ FlightOwned /\ Owed(svc, {}) /\ FinalizerLast(svc) /\ JournalOK(svc.j)
    BY <1>1 DEF IInv, ServiceOK
  <2>2. svc.phase = "EngineCommitStarted" => Queued(svc.j) # {}
    <3>1. ASSUME svc.phase = "EngineCommitStarted" PROVE Queued(svc.j) # {}
      <4>1. svc.j.ops # << >>
        BY <2>1, <3>1 DEF FinalizerLast
      <4>2. svc.j.ops \in Seq(Operations)
        BY <2>1 DEF JournalOK, Journals
      <4>3. 1 \in DOMAIN svc.j.ops
        BY <4>1, <4>2
      <4> QED
        BY <4>3 DEF Queued
    <3> QED
      BY <3>1
  <2> QED
    BY <2>1, <2>2 DEF EveryWaitHasOwner, FlightOwned, Owed
<1> QED
  BY <1>1, QueueInvariance, PTL

(* The engine is told Applied only of a deletion the host performed.        *)
THEOREM UndoCorrect == Spec => []AppliedWasDeleted
<1>1. IInv => AppliedWasDeleted
  BY DEF IInv
<1> QED
  BY <1>1, QueueInvariance, PTL
=============================================================================

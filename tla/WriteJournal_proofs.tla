------------------------ MODULE WriteJournal_proofs ------------------------
(***************************************************************************)
(* Lemmas about the operators of WriteJournal: what each one returns, and  *)
(* that each one takes a journal that satisfies the invariant to another.  *)
(***************************************************************************)
EXTENDS WriteJournal, SequenceTheorems, TLAPS

LEMMA SeqOfFunction ==
  ASSUME NEW S, NEW n \in Nat, NEW f \in [1..n -> S]
  PROVE  f \in Seq(S) /\ Len(f) = n
OBVIOUS

(* The ring of terminal outcomes stays typed and bounded.                  *)
LEMMA RecordTerminalsBound ==
  ASSUME NEW ts \in Seq(TerminalRecords), NEW records \in Seq(TerminalRecords)
  PROVE  /\ RecordTerminals(ts, records) \in Seq(TerminalRecords)
         /\ Len(RecordTerminals(ts, records)) <= Capacity
<1> DEFINE all == ts \o records
           from == Len(all) - Capacity + 1
<1>1. all \in Seq(TerminalRecords) /\ Len(all) \in Nat
  OBVIOUS
<1>2. Capacity \in Nat /\ Capacity > 0
  BY JournalAssumption
<1>3. CASE Len(all) <= Capacity
  BY <1>1, <1>3 DEF RecordTerminals
<1>4. CASE ~(Len(all) <= Capacity)
  <2> HIDE DEF all
  <2>1. from \in Int /\ Len(all) \in Int /\ from >= 1 /\ from <= Len(all)
    BY <1>1, <1>2, <1>4
  <2>2. \A i \in from..Len(all) : all[i] \in TerminalRecords
    BY <1>1, <2>1, ElementOfSeq
  <2>3. /\ SubSeq(all, from, Len(all)) \in Seq(TerminalRecords)
        /\ Len(SubSeq(all, from, Len(all))) = Len(all) - from + 1
    BY <2>1, <2>2, SubSeqProperties
  <2> QED
    BY <1>1, <1>2, <1>4, <2>3 DEF RecordTerminals, all
<1> QED
  BY <1>3, <1>4

-----------------------------------------------------------------------------
(* The shape a life-cycle event leaves: nothing queued, tail at committed. *)
Settled(jj) ==
  JournalOK(jj) /\ jj.ops = << >> /\ jj.cvis = jj.tvis /\ jj.crev = jj.trev

(* r is jj with everything queued terminated, in the same epoch.           *)
Cancelled(jj, r) ==
  /\ Settled(r)
  /\ r.active = jj.active /\ r.nextId = jj.nextId /\ EpochNow(r) = EpochNow(jj)

(* No ticket gains authority from jj to r, unless it names the head that   *)
(* begin_head is about to request.                                         *)
KeepsAuthority(jj, r) ==
  \A t : Validates(r, t) =>
    \/ Validates(jj, t)
    \/ IsHead(jj, t.id) /\ Head(jj.ops).phase # "Requested"

(* r is a successor of jj that gives no requested operation back its       *)
(* earlier phase: what a ticket names is requested, or gone.               *)
Succeeds(jj, r) ==
  /\ JournalOK(r) /\ JournalInv(r) /\ KeepsAuthority(jj, r)
  /\ jj.nextId <= r.nextId
  /\ \A k \in 1..Len(r.ops) :
       \/ jj.nextId <= r.ops[k].id
       \/ r.ops[k].phase = "Requested"
       \/ \E i \in 1..Len(jj.ops) :
            jj.ops[i].id = r.ops[k].id /\ jj.ops[i].phase # "Requested"

(* The values the life-cycle events reset a field to are of its type.      *)
LEMMA ResetValues ==
  /\ << >> \in Seq(Operations) /\ {} \in SUBSET Leases
  /\ NoContext \in Contexts \union {NoContext} /\ Empty \in Visible
  /\ 0 \in Nat /\ TRUE \in BOOLEAN /\ FALSE \in BOOLEAN
  /\ "Cancelled" \in Outcomes /\ {} \in SUBSET Visible
BY JournalAssumption DEF JournalAssumption, Outcomes

LEMMA Counters ==
  ASSUME NEW jj, JournalOK(jj)
  PROVE  /\ jj.focus + 1 \in Nat /\ jj.activation + 1 \in Nat
         /\ jj.gen + 1 \in Nat /\ jj.crev + 1 \in Nat
         /\ jj.trev + 1 \in Nat /\ jj.nextId + 1 \in Nat
         /\ jj.nextId \in Nat /\ jj.trev \in Nat /\ jj.crev \in Nat
BY DEF JournalOK, Journals

LEMMA QueueTypes ==
  ASSUME NEW jj, JournalOK(jj)
  PROVE  /\ jj.ops \in Seq(Operations) /\ Len(jj.ops) \in Nat
         /\ \A i \in 1..Len(jj.ops) :
              /\ jj.ops[i] \in Operations
              /\ jj.ops[i].id \in Nat /\ jj.ops[i].phase \in Phases
              /\ jj.ops[i].base \in Nat /\ jj.ops[i].result \in Nat
<1>1. jj.ops \in Seq(Operations) /\ Len(jj.ops) \in Nat
  BY DEF JournalOK, Journals
<1> SUFFICES ASSUME NEW i \in 1..Len(jj.ops)
             PROVE  /\ jj.ops[i] \in Operations
                    /\ jj.ops[i].id \in Nat /\ jj.ops[i].phase \in Phases
                    /\ jj.ops[i].base \in Nat /\ jj.ops[i].result \in Nat
  BY <1>1
<1>2. jj.ops[i] \in Operations
  BY <1>1
<1> QED
  BY <1>2 DEF Operations

LEMMA SettledInv ==
  ASSUME NEW jj, Settled(jj)
  PROVE  JournalInv(jj)
BY DEF Settled, JournalInv, Chained, ReservedLast, RequestedFirst, IdsIncrease,
       QueuedNow

LEMMA SettledSucceeds ==
  ASSUME NEW jj, JournalOK(jj), NEW r, Settled(r), r.nextId = jj.nextId
  PROVE  Succeeds(jj, r)
BY SettledInv, Counters DEF Settled, Succeeds, KeepsAuthority, Validates, IsHead

LEMMA CancelledSucceeds ==
  ASSUME NEW jj, JournalOK(jj), NEW r, Cancelled(jj, r)
  PROVE  Succeeds(jj, r)
BY SettledSucceeds DEF Cancelled

(* Failing the head empties the queue and drops the tail to the committed  *)
(* state, whatever was planned behind it.                                  *)
LEMMA FailHeadFields ==
  ASSUME NEW jj, JournalOK(jj), jj.ops # << >>,
         NEW outcome \in Outcomes, NEW changed \in BOOLEAN,
         NEW prefix \in SUBSET Visible
  PROVE  Cancelled(jj, FailHead(jj, outcome, changed, prefix))
<1> DEFINE r == FailHead(jj, outcome, changed, prefix)
           crev == IF changed THEN Head(jj.ops).result ELSE jj.crev
           cvis == IF prefix = {} THEN jj.cvis ELSE CHOOSE v \in prefix : TRUE
           records ==
             [i \in DOMAIN jj.ops |->
                Outcome(jj.ops[i], IF i = 1 THEN outcome ELSE "PredecessorFailed")]
<1>1. jj \in Journals /\ jj.ops \in Seq(Operations) /\ jj.terminals \in Seq(TerminalRecords)
  BY DEF JournalOK, Journals
<1>2. Head(jj.ops) \in Operations
  BY <1>1
<1>3. crev \in Nat /\ cvis \in Visible
  BY <1>1, <1>2 DEF Journals, Operations
<1>4. records \in Seq(TerminalRecords)
  <2>1. DOMAIN jj.ops = 1..Len(jj.ops) /\ Len(jj.ops) \in Nat
    BY <1>1
  <2>2. ASSUME NEW i \in 1..Len(jj.ops)
        PROVE  records[i] \in TerminalRecords
    <3>1. jj.ops[i] \in Operations
      BY <1>1
    <3> QED
      BY <2>1, <3>1 DEF Outcome, Outcomes, Operations, TerminalRecords
  <2>3. records \in [1..Len(jj.ops) -> TerminalRecords]
    BY <2>1, <2>2
  <2> QED
    BY <2>1, <2>3, SeqOfFunction
<1>5. /\ RecordTerminals(jj.terminals, records) \in Seq(TerminalRecords)
      /\ Len(RecordTerminals(jj.terminals, records)) <= Capacity
  BY <1>1, <1>4, RecordTerminalsBound
<1>6. r = [jj EXCEPT !.ops = << >>, !.crev = crev, !.trev = crev,
                     !.cvis = cvis, !.tvis = cvis, !.ui = {}, !.issued = {},
                     !.terminals = RecordTerminals(jj.terminals, records)]
  BY DEF FailHead
<1> HIDE DEF r, crev, cvis, records
<1>7. r \in Journals
  BY <1>1, <1>3, <1>5, <1>6, ResetValues DEF Journals
<1>8. Len(r.ops) <= Capacity /\ Len(r.terminals) <= Capacity
  BY <1>1, <1>5, <1>6, JournalAssumption DEF Journals
<1>9. EpochNow(r) = EpochNow(jj)
  BY <1>1, <1>6 DEF EpochNow, Journals
<1> QED
  BY <1>1, <1>6, <1>7, <1>8, <1>9 DEF JournalOK, Journals, Settled, Cancelled, r

LEMMA CancelAllFields ==
  ASSUME NEW jj, JournalOK(jj)
  PROVE  Cancelled(jj, CancelAll(jj))
<1>1. CASE jj.ops # << >>
  <2>1. CancelAll(jj) = FailHead(jj, "Cancelled", FALSE, {})
    BY <1>1 DEF CancelAll
  <2>2. Cancelled(jj, FailHead(jj, "Cancelled", FALSE, {}))
    BY <1>1, ResetValues, FailHeadFields, Zenon
  <2> QED
    BY <2>1, <2>2
<1>2. CASE jj.ops = << >>
  BY <1>2 DEF CancelAll, JournalOK, Journals, Settled, EpochNow, Cancelled
<1> QED
  BY <1>1, <1>2

(* Every life-cycle event settles the journal.                             *)
LEMMA LifeCycleSettles ==
  ASSUME NEW jj, JournalOK(jj)
  PROVE  /\ Settled(Activate(jj)) /\ Activate(jj).nextId = jj.nextId
         /\ Settled(Deactivate(jj)) /\ Deactivate(jj).nextId = jj.nextId
         /\ Settled(FocusChanged(jj)) /\ FocusChanged(jj).nextId = jj.nextId
         /\ Settled(CompositionTerminated(jj))
         /\ CompositionTerminated(jj).nextId = jj.nextId
         /\ Settled(AbandonProjection(jj))
         /\ AbandonProjection(jj).nextId = jj.nextId
<1> DEFINE c == CancelAll(jj)
<1>1. Settled(c) /\ c.nextId = jj.nextId
  BY CancelAllFields DEF Cancelled
<1>c. /\ c.focus + 1 \in Nat /\ c.activation + 1 \in Nat /\ c.crev + 1 \in Nat
  BY <1>1, Counters DEF Settled
<1> HIDE DEF c
<1>2. Settled(Activate(jj)) /\ Activate(jj).nextId = jj.nextId
  BY <1>1, <1>c, ResetValues DEF Activate, Settled, JournalOK, Journals, c
<1>3. Settled(Deactivate(jj)) /\ Deactivate(jj).nextId = jj.nextId
  <2> DEFINE d == [jj EXCEPT
                     !.active = FALSE, !.activation = @ + 1, !.focus = @ + 1,
                     !.context = NoContext, !.ui = {}]
  <2>1. JournalOK(d) /\ d.nextId = jj.nextId
    BY Counters, ResetValues DEF JournalOK, Journals
  <2> HIDE DEF d
  <2> QED
    BY <2>1, CancelAllFields DEF Deactivate, Cancelled, d
<1>4. Settled(FocusChanged(jj)) /\ FocusChanged(jj).nextId = jj.nextId
  <2> DEFINE d == [jj EXCEPT !.focus = @ + 1, !.ui = {}]
  <2>1. JournalOK(d) /\ d.nextId = jj.nextId
    BY Counters, ResetValues DEF JournalOK, Journals
  <2> HIDE DEF d
  <2> QED
    BY <2>1, CancelAllFields DEF FocusChanged, Cancelled, d
<1>5. /\ Settled(CompositionTerminated(jj))
      /\ CompositionTerminated(jj).nextId = jj.nextId
  <2> DEFINE d == [jj EXCEPT
                     !.crev = @ + 1, !.trev = jj.crev + 1,
                     !.cvis = Empty, !.tvis = Empty, !.ui = {}]
  <2>1. JournalOK(d) /\ d.nextId = jj.nextId
    BY Counters, ResetValues DEF JournalOK, Journals
  <2> HIDE DEF d
  <2> QED
    BY <2>1, CancelAllFields DEF CompositionTerminated, Cancelled, d
<1>6. /\ Settled(AbandonProjection(jj))
      /\ AbandonProjection(jj).nextId = jj.nextId
  BY <1>1, <1>c, ResetValues DEF AbandonProjection, Settled, JournalOK, Journals, c
<1> QED
  BY <1>2, <1>3, <1>4, <1>5, <1>6

-----------------------------------------------------------------------------
(* Each operation takes the journal to a successor.                        *)

(* A queue that did not change, in the same epoch, is still well formed.   *)
LEMMA SameQueueSucceeds ==
  ASSUME NEW jj, JournalOK(jj), JournalInv(jj), NEW r, JournalOK(r),
         r.ops = jj.ops, r.nextId = jj.nextId, r.crev = jj.crev,
         r.trev = jj.trev, r.cvis = jj.cvis, r.tvis = jj.tvis,
         EpochNow(r) = EpochNow(jj), r.active = jj.active
  PROVE  Succeeds(jj, r)
BY DEF Succeeds, KeepsAuthority, Validates, IsHead, JournalOK, Journals, JournalInv, Chained, ReservedLast,
       RequestedFirst, IdsIncrease, QueuedNow

LEMMA ObserveContextSucceeds ==
  ASSUME NEW jj, JournalOK(jj), JournalInv(jj), NEW c \in Contexts
  PROVE  Succeeds(jj, ObserveContext(jj, c))
<1>1. CASE jj.context = c
  <2>1. ObserveContext(jj, c) = jj
    BY <1>1, JournalAssumption DEF ObserveContext, JournalAssumption
  <2> QED
    BY <2>1, SameQueueSucceeds
<1>2. CASE jj.context # c /\ jj.context = NoContext
  <2> DEFINE r == [jj EXCEPT !.gen = @ + 1, !.context = c]
  <2>1. ObserveContext(jj, c) = r
    BY <1>2 DEF ObserveContext
  <2>2. jj.ops = << >>
    <3> SUFFICES ASSUME jj.ops # << >>
                 PROVE  FALSE
      OBVIOUS
    <3>1. 1 \in 1..Len(jj.ops) /\ jj.ops[1] \in Operations
      BY DEF JournalOK, Journals
    <3>2. jj.ops[1].epoch \in Epochs /\ jj.ops[1].epoch = EpochNow(jj)
      BY <3>1 DEF Operations, JournalInv, QueuedNow
    <3> QED
      BY <1>2, <3>2, JournalAssumption DEF Epochs, EpochNow, JournalAssumption
  <2>3. Settled(r) /\ r.nextId = jj.nextId
    BY <2>2, Counters DEF Settled, JournalOK, Journals, JournalInv, Chained
  <2> QED
    BY <2>1, <2>3, SettledSucceeds
<1>3. CASE jj.context # c /\ jj.context # NoContext
  <2> DEFINE d == CancelAll(jj)
             r == [d EXCEPT
                     !.gen = @ + 1, !.context = c, !.crev = 0, !.trev = 0,
                     !.cvis = Empty, !.tvis = Empty, !.ui = {}]
  <2>1. ObserveContext(jj, c) = r
    BY <1>3 DEF ObserveContext
  <2>2. Settled(d) /\ d.nextId = jj.nextId /\ d.gen + 1 \in Nat
    BY CancelAllFields, Counters DEF Cancelled, Settled
  <2> HIDE DEF d
  <2>3. Settled(r) /\ r.nextId = jj.nextId
    BY <2>2, ResetValues DEF Settled, JournalOK, Journals
  <2> QED
    BY <2>1, <2>3, SettledSucceeds
<1> QED
  BY <1>1, <1>2, <1>3

(* Reserving appends an operation that plans nothing.                      *)
LEMMA ReserveSucceeds ==
  ASSUME NEW jj, JournalOK(jj), JournalInv(jj),
         NEW c \in Contexts, CanReserve(jj, c)
  PROVE  Succeeds(jj, Reserve(jj))
<1> DEFINE op == [id |-> jj.nextId, epoch |-> EpochNow(jj),
                  phase |-> "Reserved", base |-> jj.trev,
                  result |-> jj.trev, writes |-> FALSE,
                  before |-> jj.tvis, after |-> jj.tvis]
           r == Reserve(jj)
<1>1. op \in Operations
  BY DEF CanReserve, JournalOK, Journals, Operations, Phases, Epochs, EpochNow
<1>2. /\ r.nextId = jj.nextId + 1 /\ r.ops = Append(jj.ops, op)
      /\ r.crev = jj.crev /\ r.trev = jj.trev
      /\ r.cvis = jj.cvis /\ r.tvis = jj.tvis
      /\ r.terminals = jj.terminals /\ EpochNow(r) = EpochNow(jj)
      /\ r.active = jj.active
  BY DEF JournalOK, Journals, Reserve, EpochNow
<1>o. /\ op.id = jj.nextId /\ op.epoch = EpochNow(jj) /\ op.phase = "Reserved"
      /\ op.base = jj.trev /\ op.result = jj.trev /\ op.writes = FALSE
      /\ op.before = jj.tvis /\ op.after = jj.tvis
  OBVIOUS
<1>3. jj.ops \in Seq(Operations) /\ Len(jj.ops) < Capacity
  BY DEF CanReserve, JournalOK, Journals
<1>4. r \in Journals
  <2>1. Append(jj.ops, op) \in Seq(Operations)
    BY <1>1, <1>3
  <2>2. Reserve(jj) = [jj EXCEPT !.nextId = jj.nextId + 1,
                                 !.ops = Append(jj.ops, op)]
    BY DEF Reserve
  <2>3. jj \in Journals /\ jj.nextId + 1 \in Nat
    BY Counters DEF JournalOK
  <2> HIDE DEF op
  <2> QED
    BY <2>1, <2>2, <2>3 DEF Journals
<1> HIDE DEF op, r
<1>5. JournalOK(r)
  BY <1>1, <1>2, <1>3, <1>4, JournalAssumption DEF JournalOK, Journals
<1>6. /\ Len(r.ops) = Len(jj.ops) + 1 /\ Len(jj.ops) \in Nat
      /\ \A i \in 1..Len(jj.ops) : r.ops[i] = jj.ops[i]
      /\ r.ops[Len(jj.ops) + 1] = op
  BY <1>1, <1>2, <1>3
<1>7. Chained(r)
  <2> DEFINE n == Len(jj.ops)
             ops == r.ops
             fits(i) ==
               /\ i = 1 => ops[i].before = jj.cvis /\ ops[i].base = jj.crev
               /\ i > 1 => /\ ops[i].before = ops[i - 1].after
                          /\ ops[i].base = ops[i - 1].result
               /\ i = n + 1 => jj.tvis = ops[i].after /\ jj.trev = ops[i].result
               /\ ~ops[i].writes => ops[i].result = ops[i].base
  <2>1. fits(n + 1)
    <3>1. n > 0 => jj.ops[n] = ops[n] /\ n \in 1..n
      BY <1>6
    <3>2. n = 0 => jj.ops = << >>
      BY <1>3
    <3> QED
      BY <1>6, <1>o, <3>1, <3>2 DEF JournalInv, Chained
  <2>2. ASSUME NEW i \in 1..n
        PROVE  fits(i)
    <3>1. ops[i] = jj.ops[i] /\ (i > 1 => ops[i - 1] = jj.ops[i - 1]) /\ i # n + 1
      BY <1>6
    <3> QED
      BY <3>1 DEF JournalInv, Chained
  <2>3. \A i \in 1..n + 1 : fits(i)
    BY <1>6, <2>1, <2>2
  <2>4. ops # << >>
    BY <1>6
  <2> QED
    BY <1>2, <1>6, <2>3, <2>4 DEF Chained
<1>8. ReservedLast(r) /\ RequestedFirst(r)
  BY <1>o, <1>6
     DEF JournalInv, ReservedLast, RequestedFirst, CanReserve, HasReservation
<1>9. IdsIncrease(r)
  <2>1. jj.nextId \in Nat /\ \A i \in 1..Len(jj.ops) : jj.ops[i].id \in Nat
    BY Counters, QueueTypes
  <2> QED
    BY <1>2, <1>o, <1>6, <2>1 DEF JournalInv, IdsIncrease
<1>10. QueuedNow(r)
  BY <1>2, <1>o, <1>6 DEF JournalInv, QueuedNow
<1>11. \A k \in 1..Len(r.ops) :
         \/ jj.nextId <= r.ops[k].id
         \/ r.ops[k].phase = "Requested"
         \/ \E i \in 1..Len(jj.ops) :
              jj.ops[i].id = r.ops[k].id /\ jj.ops[i].phase # "Requested"
  BY <1>o, <1>6 DEF JournalOK, Journals
<1>12. jj.nextId <= r.nextId
  BY <1>2, Counters
<1>13. KeepsAuthority(jj, r)
  <2>1. r.ops # << >> /\ Head(r.ops) = r.ops[1]
    BY <1>5, <1>6, QueueTypes
  <2>2. jj.ops # << >> => Head(r.ops) = Head(jj.ops)
    BY <1>3, <1>6, <2>1
  <2>3. jj.ops = << >> => Head(r.ops).phase = "Reserved"
    BY <1>3, <1>6, <1>o, <2>1
  <2> QED
    BY <1>2, <2>1, <2>2, <2>3 DEF KeepsAuthority, Validates, IsHead
<1> QED
  BY <1>5, <1>7, <1>8, <1>9, <1>10, <1>11, <1>12, <1>13
     DEF Succeeds, JournalInv, r

(* Attaching a plan extends the chain by exactly the reserved operation:   *)
(* its id is unique, and it is the last.                                   *)
LEMMA AttachSucceeds ==
  ASSUME NEW jj, JournalOK(jj), JournalInv(jj),
         NEW id \in Nat, NEW writes \in BOOLEAN,
         NEW before \in Visible, NEW after \in Visible,
         CanAttach(jj, id, before)
  PROVE  Succeeds(jj, Attach(jj, id, writes, before, after))
<1> DEFINE n == Len(jj.ops)
           result == IF writes THEN jj.trev + 1 ELSE jj.trev
           op == [jj.ops[n] EXCEPT !.phase = "Ready", !.base = jj.trev,
                                   !.result = result, !.writes = writes,
                                   !.before = before, !.after = after]
           ops == [jj.ops EXCEPT ![n] = op]
           r == Attach(jj, id, writes, before, after)
<1>1. /\ jj.ops \in Seq(Operations) /\ n \in Nat
      /\ \A i \in 1..n : jj.ops[i] \in Operations /\ jj.ops[i].id \in Nat
  BY QueueTypes
<1>2. /\ n \in 1..n /\ jj.ops[n].id = id /\ jj.ops[n].phase = "Reserved"
      /\ before = jj.tvis
      /\ \A i \in 1..n : jj.ops[i].id = id => i = n
  BY <1>1 DEF CanAttach, JournalInv, ReservedLast, IdsIncrease
<1>3. result \in Nat /\ op \in Operations
  <2>1. result \in Nat
    BY Counters
  <2>2. jj.ops[n] \in Operations /\ "Ready" \in Phases /\ jj.trev \in Nat
    BY <1>1, <1>2, Counters DEF Phases
  <2> HIDE DEF result, n
  <2> QED
    BY <2>1, <2>2 DEF Operations
<1>o. /\ op.id = id /\ op.epoch = jj.ops[n].epoch /\ op.phase = "Ready"
      /\ op.base = jj.trev /\ op.result = result /\ op.writes = writes
      /\ op.before = before /\ op.after = after
  BY <1>1, <1>2 DEF Operations
<1> HIDE DEF op, result
<1>4. ops \in Seq(Operations) /\ Len(ops) = n
  BY <1>1, <1>2, <1>3
<1>5. r = [jj EXCEPT !.ops = ops, !.trev = result, !.tvis = after]
  <2>1. n = CHOOSE i \in 1..Len(jj.ops) : jj.ops[i].id = id
    BY <1>2
  <2> QED
    BY <2>1 DEF Attach, result, op
<1>6. /\ \A i \in 1..n : i # n => ops[i] = jj.ops[i]
      /\ ops[n] = op
  BY <1>1, <1>2
<1> HIDE DEF ops, n, r
<1>7. /\ r.ops = ops /\ r.trev = result /\ r.tvis = after
      /\ r.crev = jj.crev /\ r.cvis = jj.cvis /\ r.nextId = jj.nextId
      /\ r.terminals = jj.terminals /\ EpochNow(r) = EpochNow(jj)
      /\ r.active = jj.active
  BY <1>5 DEF JournalOK, Journals, EpochNow
<1>8. JournalOK(r)
  <2>1. jj \in Journals /\ n <= Capacity /\ Len(jj.terminals) <= Capacity
    BY DEF JournalOK, n
  <2>2. r \in Journals
    BY <1>3, <1>4, <1>5, <2>1 DEF Journals
  <2> QED
    BY <1>4, <1>7, <2>1, <2>2 DEF JournalOK
<1>9. Chained(r)
  <2>1. ~writes => result = jj.trev
    BY DEF result
  <2>2. jj.ops[n].before = before /\ jj.ops[n].base = jj.trev
    BY <1>1, <1>2 DEF JournalInv, Chained, ReservedLast, n
  <2>3. /\ n = 1 => before = jj.cvis /\ jj.trev = jj.crev
        /\ n > 1 => before = jj.ops[n - 1].after /\ jj.trev = jj.ops[n - 1].result
    BY <1>1, <1>2, <2>2 DEF JournalInv, Chained, n
  <2> DEFINE fits(i) ==
               /\ i = 1 => ops[i].before = jj.cvis /\ ops[i].base = jj.crev
               /\ i > 1 => /\ ops[i].before = ops[i - 1].after
                          /\ ops[i].base = ops[i - 1].result
               /\ i = n => after = ops[i].after /\ result = ops[i].result
               /\ ~ops[i].writes => ops[i].result = ops[i].base
  <2>4. fits(n)
    BY <1>1, <1>2, <1>6, <1>o, <2>1, <2>3
  <2>5. ASSUME NEW i \in 1..n, i # n
        PROVE  fits(i)
    BY <1>1, <1>2, <1>6, <2>5 DEF JournalInv, Chained, n
  <2>6. \A i \in 1..n : fits(i)
    BY <2>4, <2>5
  <2> QED
    BY <1>2, <1>4, <1>7, <2>6 DEF Chained
<1>10. ReservedLast(r) /\ RequestedFirst(r)
  BY <1>1, <1>2, <1>4, <1>6, <1>7, <1>o
     DEF JournalInv, ReservedLast, RequestedFirst, n
<1>11. IdsIncrease(r) /\ QueuedNow(r)
  BY <1>1, <1>2, <1>4, <1>6, <1>7, <1>o DEF JournalInv, IdsIncrease, QueuedNow, n
<1>12. \A k \in 1..Len(r.ops) :
         \E i \in 1..Len(jj.ops) :
           /\ jj.ops[i].id = r.ops[k].id
           /\ jj.ops[i].phase = r.ops[k].phase \/ jj.ops[i].phase # "Requested"
  BY <1>1, <1>2, <1>4, <1>6, <1>7, <1>o DEF n
<1>13. KeepsAuthority(jj, r)
  <2>1. /\ jj.ops # << >> /\ Head(jj.ops) = jj.ops[1]
        /\ r.ops # << >> /\ Head(r.ops) = ops[1]
    BY <1>1, <1>2, <1>4, <1>7 DEF n
  <2>2. n # 1 => Head(r.ops) = Head(jj.ops)
    BY <1>1, <1>2, <1>6, <2>1
  <2>3. n = 1 => Head(r.ops).phase = "Ready"
    BY <1>6, <1>o, <2>1
  <2> QED
    BY <1>7, <2>1, <2>2, <2>3 DEF KeepsAuthority, Validates, IsHead
<1>14. jj.nextId <= r.nextId
  BY <1>7, Counters
<1> QED
  BY <1>8, <1>9, <1>10, <1>11, <1>12, <1>13, <1>14 DEF Succeeds, JournalInv, r

(* The reservation is the last operation, and leaves the tail as it was.   *)
LEMMA CancelReservationSucceeds ==
  ASSUME NEW jj, JournalOK(jj), JournalInv(jj),
         NEW id \in Nat, CanCancelReservation(jj, id)
  PROVE  Succeeds(jj, CancelReservation(jj, id))
<1> DEFINE n == Len(jj.ops)
           ops == [i \in 1..n - 1 |-> jj.ops[i]]
           record == Outcome(jj.ops[n], "Cancelled")
           terminals == RecordTerminals(jj.terminals, <<record>>)
           r == CancelReservation(jj, id)
<1>1. /\ jj.ops \in Seq(Operations) /\ n \in Nat
      /\ \A i \in 1..n : jj.ops[i] \in Operations /\ jj.ops[i].id \in Nat
  BY QueueTypes
<1>2. /\ n \in 1..n /\ jj.ops[n].id = id /\ jj.ops[n].phase = "Reserved"
      /\ \A i \in 1..n :
           jj.ops[i].id = id /\ jj.ops[i].phase = "Reserved" => i = n
  BY <1>1 DEF CanCancelReservation, JournalInv, ReservedLast
<1>3. n - 1 \in Nat
  BY <1>1, <1>2
<1>4. ops \in Seq(Operations) /\ Len(ops) = n - 1
  <2>1. ops \in [1..n - 1 -> Operations]
    BY <1>1, <1>3
  <2> QED
    BY <1>3, <2>1, SeqOfFunction
<1>5. terminals \in Seq(TerminalRecords) /\ Len(terminals) <= Capacity
  <2>1. record \in TerminalRecords
    BY <1>1, <1>2 DEF Outcome, TerminalRecords, Outcomes
  <2>2. <<record>> \in Seq(TerminalRecords)
    BY <2>1
  <2>3. jj.terminals \in Seq(TerminalRecords)
    BY DEF JournalOK, Journals
  <2> QED
    BY <2>2, <2>3, RecordTerminalsBound
<1>6. r = [jj EXCEPT !.ops = ops, !.terminals = terminals]
  <2>1. n = CHOOSE i \in 1..Len(jj.ops) :
              jj.ops[i].id = id /\ jj.ops[i].phase = "Reserved"
    BY <1>2
  <2>2. ops = [i \in 1..Len(jj.ops) - 1 |->
                 IF i < n THEN jj.ops[i] ELSE jj.ops[i + 1]]
    BY <1>1, <1>2
  <2> HIDE DEF n
  <2> QED
    BY <2>1, <2>2 DEF CancelReservation
<1>7. \A i \in 1..n - 1 : ops[i] = jj.ops[i] /\ i \in 1..n
  BY <1>1
<1> HIDE DEF n, ops, record, terminals, r
<1>8. /\ r.ops = ops /\ r.trev = jj.trev /\ r.tvis = jj.tvis
      /\ r.crev = jj.crev /\ r.cvis = jj.cvis /\ r.nextId = jj.nextId
      /\ r.terminals = terminals /\ EpochNow(r) = EpochNow(jj)
      /\ r.active = jj.active
  BY <1>6 DEF JournalOK, Journals, EpochNow
<1>9. JournalOK(r)
  <2>1. jj \in Journals /\ n <= Capacity
    BY DEF JournalOK, n
  <2>2. r \in Journals
    BY <1>4, <1>5, <1>6, <2>1 DEF Journals
  <2>3. Capacity \in Nat
    BY JournalAssumption DEF JournalAssumption
  <2> QED
    BY <1>1, <1>4, <1>5, <1>8, <2>1, <2>2, <2>3 DEF JournalOK
<1>10. Chained(r)
  <2>1. jj.ops[n].before = jj.tvis /\ jj.ops[n].base = jj.trev
    BY <1>1, <1>2 DEF JournalInv, Chained, ReservedLast, n
  <2>2. n = 1 => jj.cvis = jj.tvis /\ jj.crev = jj.trev
    BY <1>2, <2>1 DEF JournalInv, Chained, n
  <2>3. n > 1 => /\ jj.tvis = jj.ops[n - 1].after
                 /\ jj.trev = jj.ops[n - 1].result
    BY <1>1, <1>2, <2>1 DEF JournalInv, Chained, n
  <2>4. ops = << >> => n = 1
    BY <1>1, <1>2, <1>4
  <2>5. ASSUME NEW i \in 1..n - 1
        PROVE  /\ i = 1 => ops[i].before = jj.cvis /\ ops[i].base = jj.crev
               /\ i > 1 => /\ ops[i].before = ops[i - 1].after
                          /\ ops[i].base = ops[i - 1].result
               /\ i = n - 1 => /\ jj.tvis = ops[i].after
                               /\ jj.trev = ops[i].result
               /\ ~ops[i].writes => ops[i].result = ops[i].base
    <3>1. i \in 1..n /\ ops[i] = jj.ops[i] /\ (i > 1 => ops[i - 1] = jj.ops[i - 1])
      BY <1>1, <1>7
    <3> QED
      BY <1>1, <2>3, <3>1 DEF JournalInv, Chained, n
  <2> QED
    BY <1>4, <1>8, <2>2, <2>4, <2>5 DEF Chained
<1>11. ReservedLast(r) /\ RequestedFirst(r)
  <2>1. ASSUME NEW i \in 1..n - 1
        PROVE  /\ ops[i].phase # "Reserved"
               /\ ops[i].phase = "Requested" => i = 1
    <3>1. i \in 1..n /\ i # n /\ ops[i] = jj.ops[i]
      BY <1>1, <1>7
    <3> QED
      BY <3>1 DEF JournalInv, ReservedLast, RequestedFirst, n
  <2> QED
    BY <1>4, <1>8, <2>1 DEF ReservedLast, RequestedFirst
<1>12. IdsIncrease(r) /\ QueuedNow(r)
  BY <1>1, <1>4, <1>7, <1>8 DEF JournalInv, IdsIncrease, QueuedNow, n
<1>13. \A k \in 1..Len(r.ops) : k \in 1..Len(jj.ops) /\ jj.ops[k] = r.ops[k]
  BY <1>4, <1>7, <1>8 DEF n
<1>14. jj.nextId <= r.nextId
  BY <1>8, Counters
<1>15. KeepsAuthority(jj, r)
  <2>1. jj.ops # << >> /\ Head(jj.ops) = jj.ops[1]
    BY <1>1, <1>2 DEF n
  <2>2. r.ops # << >> => Head(r.ops) = jj.ops[1]
    BY <1>3, <1>4, <1>7, <1>8
  <2> QED
    BY <1>8, <2>1, <2>2 DEF KeepsAuthority, Validates, IsHead
<1> QED
  BY <1>9, <1>10, <1>11, <1>12, <1>13, <1>14, <1>15 DEF Succeeds, JournalInv, r

LEMMA BeginHeadSucceeds ==
  ASSUME NEW jj, JournalOK(jj), JournalInv(jj), CanBegin(jj)
  PROVE  /\ Succeeds(jj, BeginHead(jj))
         /\ HeadTicket(jj) \in Tickets
         /\ HeadTicket(jj).id < jj.nextId
         /\ BeginHead(jj).nextId = jj.nextId
         /\ \A i \in 1..Len(BeginHead(jj).ops) :
              BeginHead(jj).ops[i].id = HeadTicket(jj).id =>
                BeginHead(jj).ops[i].phase = "Requested"
<1> DEFINE n == Len(jj.ops)
           op == [jj.ops[1] EXCEPT !.phase = "Requested"]
           ops == [jj.ops EXCEPT ![1] = op]
           r == BeginHead(jj)
<1>1. /\ jj.ops \in Seq(Operations) /\ n \in Nat
      /\ \A i \in 1..n : jj.ops[i] \in Operations /\ jj.ops[i].id \in Nat
  BY QueueTypes
<1>2. 1 \in 1..n /\ Head(jj.ops) = jj.ops[1] /\ jj.ops[1].phase = "Ready"
  BY <1>1 DEF CanBegin
<1>3. op \in Operations
  BY <1>1, <1>2 DEF Operations, Phases
<1>o. /\ op.id = jj.ops[1].id /\ op.epoch = jj.ops[1].epoch
      /\ op.phase = "Requested" /\ op.base = jj.ops[1].base
      /\ op.result = jj.ops[1].result /\ op.writes = jj.ops[1].writes
      /\ op.before = jj.ops[1].before /\ op.after = jj.ops[1].after
  BY <1>1, <1>2 DEF Operations
<1>4. r = [jj EXCEPT !.ops = ops]
  BY DEF BeginHead
<1> HIDE DEF op
<1>5. /\ ops \in Seq(Operations) /\ Len(ops) = n
      /\ ops[1] = op /\ \A i \in 1..n : i # 1 => ops[i] = jj.ops[i]
  BY <1>1, <1>2, <1>3
<1> HIDE DEF n, ops, r
<1>6. /\ r.ops = ops /\ r.trev = jj.trev /\ r.tvis = jj.tvis
      /\ r.crev = jj.crev /\ r.cvis = jj.cvis /\ r.nextId = jj.nextId
      /\ r.terminals = jj.terminals /\ EpochNow(r) = EpochNow(jj)
      /\ r.active = jj.active
  BY <1>4 DEF JournalOK, Journals, EpochNow
<1>7. JournalOK(r)
  <2>1. jj \in Journals /\ n <= Capacity /\ Len(jj.terminals) <= Capacity
    BY DEF JournalOK, n
  <2>2. r \in Journals
    BY <1>4, <1>5, <2>1 DEF Journals
  <2> QED
    BY <1>5, <1>6, <2>1, <2>2 DEF JournalOK
<1>8. \A i \in 1..n :
        /\ ops[i].id = jj.ops[i].id /\ ops[i].epoch = jj.ops[i].epoch
        /\ ops[i].base = jj.ops[i].base /\ ops[i].result = jj.ops[i].result
        /\ ops[i].writes = jj.ops[i].writes
        /\ ops[i].before = jj.ops[i].before /\ ops[i].after = jj.ops[i].after
        /\ i = 1 => ops[i].phase = "Requested"
        /\ i # 1 => ops[i].phase = jj.ops[i].phase
  BY <1>5, <1>o
<1>9. ops # << >> /\ jj.ops # << >>
  BY <1>1, <1>2, <1>5 DEF n
<1>10. Chained(r)
  <2>1. ASSUME NEW i \in 1..n, i > 1
        PROVE  i - 1 \in 1..n
    BY <1>1, <2>1
  <2> QED
    BY <1>1, <1>5, <1>6, <1>8, <1>9, <2>1 DEF JournalInv, Chained, n
<1>11. ReservedLast(r) /\ RequestedFirst(r)
  BY <1>1, <1>5, <1>6, <1>8 DEF JournalInv, ReservedLast, RequestedFirst, n
<1>12. IdsIncrease(r) /\ QueuedNow(r)
  BY <1>1, <1>5, <1>6, <1>8 DEF JournalInv, IdsIncrease, QueuedNow, n
<1>13. \A k \in 1..Len(r.ops) :
         \/ r.ops[k].phase = "Requested"
         \/ \E i \in 1..Len(jj.ops) :
              jj.ops[i].id = r.ops[k].id /\ jj.ops[i].phase # "Requested"
  BY <1>5, <1>6, <1>8 DEF n
<1>18. KeepsAuthority(jj, r)
  <2>1. Head(r.ops) = ops[1] /\ r.ops # << >>
    BY <1>5, <1>6, <1>9
  <2> QED
    BY <1>2, <1>8, <1>9, <2>1 DEF KeepsAuthority, Validates, IsHead, n
<1>14. Succeeds(jj, r)
  BY <1>6, <1>7, <1>10, <1>11, <1>12, <1>13, <1>18, Counters
     DEF Succeeds, JournalInv
<1>15. HeadTicket(jj) \in Tickets /\ HeadTicket(jj).id = jj.ops[1].id
  BY <1>1, <1>2 DEF HeadTicket, Tickets, Operations
<1>16. jj.ops[1].id < jj.nextId
  BY <1>2 DEF JournalInv, IdsIncrease, n
<1>17. \A i \in 1..n : ops[i].id = jj.ops[1].id => i = 1
  BY <1>1, <1>2, <1>8 DEF JournalInv, IdsIncrease, n
<1> QED
  BY <1>5, <1>6, <1>8, <1>14, <1>15, <1>16, <1>17 DEF r

(* Applying the head leaves the rest chained to the new committed state.   *)
LEMMA ApplyHeadSucceeds ==
  ASSUME NEW jj, JournalOK(jj), JournalInv(jj), jj.ops # << >>
  PROVE  Succeeds(jj, ApplyHead(jj))
<1> DEFINE n == Len(jj.ops)
           op == Head(jj.ops)
           rest == Tail(jj.ops)
           crev == IF op.writes THEN op.result ELSE jj.crev
           trev == IF rest = << >> THEN crev ELSE jj.trev
           tvis == IF rest = << >> THEN op.after ELSE jj.tvis
           ui == IF op.writes THEN {} ELSE jj.ui
           issued == {LeaseOf(op)}
           record == Outcome(op, "Applied")
           terminals == RecordTerminals(jj.terminals, <<record>>)
           r == ApplyHead(jj)
<1>1. /\ jj.ops \in Seq(Operations) /\ n \in Nat
      /\ \A i \in 1..n : jj.ops[i] \in Operations /\ jj.ops[i].id \in Nat
  BY QueueTypes
<1>2. /\ 1 \in 1..n /\ op = jj.ops[1] /\ op \in Operations
      /\ rest \in Seq(Operations) /\ Len(rest) = n - 1
      /\ \A i \in 1..n - 1 : rest[i] = jj.ops[i + 1]
  BY <1>1
<1> HIDE DEF op, rest
<1>3. /\ op.result \in Nat /\ op.after \in Visible /\ op.writes \in BOOLEAN
      /\ op.id \in Nat /\ op.epoch \in Epochs
  BY <1>2 DEF Operations
<1>4. jj \in Journals
  BY DEF JournalOK
<1>5. /\ crev \in Nat /\ trev \in Nat /\ tvis \in Visible
      /\ ui \in SUBSET Leases
  BY <1>3, <1>4, ResetValues, Counters DEF Journals
<1>6. issued \in SUBSET Leases
  BY <1>3 DEF LeaseOf, Leases
<1>7. terminals \in Seq(TerminalRecords) /\ Len(terminals) <= Capacity
  <2>1. record \in TerminalRecords
    BY <1>3 DEF Outcome, TerminalRecords, Outcomes
  <2>2. <<record>> \in Seq(TerminalRecords)
    BY <2>1
  <2>3. jj.terminals \in Seq(TerminalRecords)
    BY <1>4 DEF Journals
  <2> QED
    BY <2>2, <2>3, RecordTerminalsBound
<1>8. r = [jj EXCEPT !.ops = rest, !.crev = crev, !.cvis = op.after,
                     !.trev = trev, !.tvis = tvis, !.ui = ui,
                     !.issued = issued, !.terminals = terminals]
  BY DEF ApplyHead, op, rest
<1> HIDE DEF n, trev, tvis, ui, issued, record, terminals, r
<1>9. /\ r.ops = rest /\ r.trev = trev /\ r.tvis = tvis
      /\ r.crev = crev /\ r.cvis = op.after /\ r.nextId = jj.nextId
      /\ r.terminals = terminals /\ EpochNow(r) = EpochNow(jj)
      /\ r.active = jj.active
  BY <1>4, <1>8 DEF Journals, EpochNow
<1>10. JournalOK(r)
  <2>1. n <= Capacity /\ Capacity \in Nat
    BY JournalAssumption DEF JournalOK, n
  <2>2. r \in Journals
    BY <1>2, <1>3, <1>4, <1>5, <1>6, <1>7, <1>8 DEF Journals
  <2> QED
    BY <1>1, <1>2, <1>7, <1>9, <2>1, <2>2 DEF JournalOK
<1>11. Chained(r)
  <2>1. crev = op.result
    BY <1>2, <1>3 DEF JournalInv, Chained, n
  <2>2. ASSUME NEW i \in 1..n - 1
        PROVE  /\ i = 1 => rest[i].before = op.after /\ rest[i].base = crev
               /\ i > 1 => /\ rest[i].before = rest[i - 1].after
                          /\ rest[i].base = rest[i - 1].result
               /\ i = n - 1 => tvis = rest[i].after /\ trev = rest[i].result
               /\ ~rest[i].writes => rest[i].result = rest[i].base
    <3>1. /\ i + 1 \in 1..n /\ i + 1 > 1 /\ (i + 1) - 1 = i
          /\ i = n - 1 => i + 1 = n
      BY <1>1
    <3>2. rest[i] = jj.ops[i + 1] /\ rest # << >>
      BY <1>1, <1>2
    <3>3. /\ i = 1 => jj.ops[i] = op
          /\ i > 1 => rest[i - 1] = jj.ops[i]
      BY <1>1, <1>2
    <3>4. /\ rest[i].before = jj.ops[i].after /\ rest[i].base = jj.ops[i].result
          /\ i = n - 1 => jj.tvis = rest[i].after /\ jj.trev = rest[i].result
          /\ ~rest[i].writes => rest[i].result = rest[i].base
      BY <3>1, <3>2 DEF JournalInv, Chained, n
    <3> QED
      BY <2>1, <3>2, <3>3, <3>4 DEF trev, tvis
  <2>3. rest = << >> => op.after = tvis /\ crev = trev
    BY DEF trev, tvis
  <2> QED
    BY <1>2, <1>9, <2>2, <2>3 DEF Chained
<1>12. ASSUME NEW i \in 1..n - 1
       PROVE  /\ i + 1 \in 1..n /\ rest[i] = jj.ops[i + 1]
              /\ rest[i].phase = "Reserved" => i = n - 1 /\ ~rest[i].writes
                                               /\ rest[i].before = rest[i].after
              /\ rest[i].phase # "Requested"
  <2>1. i + 1 \in 1..n /\ i + 1 # 1 /\ (i + 1 = n => i = n - 1)
    BY <1>1
  <2> QED
    BY <1>2, <2>1 DEF JournalInv, ReservedLast, RequestedFirst, n
<1>13. ReservedLast(r) /\ RequestedFirst(r)
  BY <1>2, <1>9, <1>12 DEF ReservedLast, RequestedFirst
<1>14. IdsIncrease(r) /\ QueuedNow(r)
  <2>1. ASSUME NEW i \in 1..n - 1, NEW k \in 1..n - 1, i < k
        PROVE  rest[i].id < rest[k].id
    <3>1. i + 1 < k + 1
      BY <1>1, <2>1
    <3> QED
      BY <1>12, <3>1 DEF JournalInv, IdsIncrease, n
  <2>2. ASSUME NEW i \in 1..n - 1
        PROVE  rest[i].id < jj.nextId /\ rest[i].epoch = EpochNow(jj)
    BY <1>12 DEF JournalInv, IdsIncrease, QueuedNow, n
  <2> QED
    BY <1>2, <1>9, <2>1, <2>2 DEF IdsIncrease, QueuedNow
<1>15. \A k \in 1..Len(r.ops) :
         \E i \in 1..Len(jj.ops) :
           jj.ops[i].id = r.ops[k].id /\ jj.ops[i].phase # "Requested"
  BY <1>2, <1>9, <1>12 DEF n
<1>16. jj.nextId <= r.nextId
  BY <1>9, Counters
<1>17. KeepsAuthority(jj, r)
  <2>1. rest # << >> => Head(rest) = rest[1] /\ 1 \in 1..n - 1
    BY <1>1, <1>2
  <2>2. rest # << >> => Head(rest).phase # "Requested"
    BY <1>12, <2>1
  <2> QED
    BY <1>9, <2>2 DEF KeepsAuthority, Validates, IsHead
<1> QED
  BY <1>10, <1>11, <1>13, <1>14, <1>15, <1>16, <1>17
     DEF Succeeds, JournalInv, r

LEMMA CompleteAppliedSucceeds ==
  ASSUME NEW jj, JournalOK(jj), JournalInv(jj), NEW t
  PROVE  Succeeds(jj, CompleteApplied(jj, t))
<1>1. CASE Validates(jj, t)
  BY <1>1, ApplyHeadSucceeds DEF CompleteApplied, Validates, IsHead
<1>2. CASE ~Validates(jj, t)
  BY <1>2, SameQueueSucceeds DEF CompleteApplied
<1> QED
  BY <1>1, <1>2

LEMMA RejectSucceeds ==
  ASSUME NEW jj, JournalOK(jj), JournalInv(jj), NEW t,
         NEW changed \in BOOLEAN, NEW prefix \in SUBSET Visible
  PROVE  /\ Succeeds(jj, Reject(jj, t, changed, prefix))
         /\ Succeeds(jj, CancelTicket(jj, t))
<1>1. "Rejected" \in Outcomes /\ "Cancelled" \in Outcomes
  BY DEF Outcomes
<1>2. ASSUME jj.ops # << >>, NEW o \in Outcomes, NEW b \in BOOLEAN,
             NEW p \in SUBSET Visible
      PROVE  Succeeds(jj, FailHead(jj, o, b, p))
  BY <1>2, FailHeadFields, CancelledSucceeds, Zenon
<1>3. Succeeds(jj, jj)
  BY SameQueueSucceeds
<1>4. CASE jj.ops = << >>
  BY <1>3, <1>4 DEF Reject, CancelTicket, IsHead
<1>5. CASE jj.ops # << >>
  <2>1. Succeeds(jj, FailHead(jj, "Rejected", changed, prefix))
    BY <1>1, <1>2, <1>5, Zenon
  <2>2. Succeeds(jj, FailHead(jj, "Cancelled", FALSE, {}))
    BY <1>2, <1>5, ResetValues, Zenon
  <2> QED
    BY <1>3, <2>1, <2>2 DEF Reject, CancelTicket
<1> QED
  BY <1>4, <1>5

LEMMA ClearLeaseSucceeds ==
  ASSUME NEW jj, JournalOK(jj), JournalInv(jj)
  PROVE  Succeeds(jj, ClearLease(jj))
<1> DEFINE r == ClearLease(jj)
<1>1. JournalOK(r)
  BY ResetValues DEF JournalOK, Journals, ClearLease
<1>2. /\ r.ops = jj.ops /\ r.nextId = jj.nextId /\ r.crev = jj.crev
      /\ r.trev = jj.trev /\ r.cvis = jj.cvis /\ r.tvis = jj.tvis
      /\ EpochNow(r) = EpochNow(jj) /\ r.active = jj.active
  BY DEF JournalOK, Journals, ClearLease, EpochNow
<1> QED
  BY <1>1, <1>2, SameQueueSucceeds

LEMMA LeaseSucceeds ==
  ASSUME NEW jj, JournalOK(jj), JournalInv(jj), NEW l \in Leases
  PROVE  /\ Succeeds(jj, AdoptLease(jj, l))
         /\ Succeeds(jj, ClearLease(jj))
         /\ Succeeds(jj, ClearLeaseIfCurrent(jj, l))
<1>1. Succeeds(jj, jj)
  BY SameQueueSucceeds
<1>2. Succeeds(jj, ClearLease(jj))
  BY ClearLeaseSucceeds
<1>3. Succeeds(jj, [jj EXCEPT !.ui = {l}])
  <2> DEFINE r == [jj EXCEPT !.ui = {l}]
  <2>1. JournalOK(r)
    <3>1. {l} \in SUBSET Leases
      OBVIOUS
    <3> QED
      BY <3>1 DEF JournalOK, Journals
  <2>2. /\ r.ops = jj.ops /\ r.nextId = jj.nextId /\ r.crev = jj.crev
        /\ r.trev = jj.trev /\ r.cvis = jj.cvis /\ r.tvis = jj.tvis
        /\ EpochNow(r) = EpochNow(jj) /\ r.active = jj.active
    BY DEF JournalOK, Journals, EpochNow
  <2> QED
    BY <2>1, <2>2, SameQueueSucceeds
<1> QED
  BY <1>1, <1>2, <1>3 DEF AdoptLease, ClearLeaseIfCurrent
=============================================================================

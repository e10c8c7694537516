---------------------------- MODULE WriteJournal ----------------------------
(***************************************************************************)
(* The data half of crates/sakura-tsf/src/write_coordinator.rs: the        *)
(* bounded journal of document writes the text service has accepted from   *)
(* the engine.  Every method of WriteCoordinator is a pure operator from   *)
(* journal to journal, so that the coordinator's own state machine         *)
(* (WriteCoordinator) and the text service that drives it (QueuedWrite)    *)
(* share one definition of each.                                           *)
(*                                                                         *)
(* Abstractions: a VisibleState (text + has_composition) is a member of    *)
(* Visible; the cancel reason is one outcome value; the u64 counters are   *)
(* naturals (their wrap needs 2^64 events).                                *)
(***************************************************************************)
EXTENDS Naturals, Sequences

CONSTANTS
  Capacity,   \* DEFAULT_WRITE_CAPACITY: how many live operations fit
  Contexts,   \* identities of TSF document contexts (ContextId)
  NoContext,  \* the None of `context: Option<ContextId>`
  Visible,    \* the distinguishable composition projections
  Empty       \* VisibleState::empty()

ASSUME JournalAssumption ==
  /\ Capacity \in Nat \ {0}
  /\ NoContext \notin Contexts
  /\ Empty \in Visible

Phases   == {"Reserved", "Ready", "Requested"}
Outcomes == {"Applied", "Rejected", "Cancelled", "PredecessorFailed"}

(* The life-cycle coordinates every operation, ticket and lease carries.   *)
Epochs == [activation : Nat, focus : Nat, context : Contexts, gen : Nat]

Operations ==
  [id : Nat, epoch : Epochs, phase : Phases, base : Nat, result : Nat,
   writes : BOOLEAN, before : Visible, after : Visible]

(* What begin_head hands to an edit session, and what an applied operation *)
(* hands to the candidate UI.                                              *)
Tickets == [id : Nat, epoch : Epochs, rev : Nat, result : Nat]
Leases  == [id : Nat, epoch : Epochs, rev : Nat]

TerminalRecords == [id : Nat, outcome : Outcomes]

Journals ==
  [active : BOOLEAN, activation : Nat, focus : Nat, gen : Nat,
   context : Contexts \union {NoContext}, nextId : Nat,
   crev : Nat, trev : Nat, cvis : Visible, tvis : Visible,
   ops : Seq(Operations), terminals : Seq(TerminalRecords),
   ui : SUBSET Leases, issued : SUBSET Leases]

(* Both rings are bounded by the capacity.                                 *)
JournalOK(j) ==
  j \in Journals /\ Len(j.ops) <= Capacity /\ Len(j.terminals) <= Capacity

New ==
  [active |-> FALSE, activation |-> 0, focus |-> 0, gen |-> 0,
   context |-> NoContext, nextId |-> 1,
   crev |-> 0, trev |-> 0, cvis |-> Empty, tvis |-> Empty,
   ops |-> << >>, terminals |-> << >>, ui |-> {}, issued |-> {}]

-----------------------------------------------------------------------------
(* Terminal outcomes.                                                      *)

(* Mutant: the ring of outcomes keeps the oldest instead of the newest.     *)
RecordTerminalsMut(ts, records) ==
  LET all == ts \o records
  IN  SubSeq(all, 1, IF Len(all) <= Capacity THEN Len(all) ELSE Capacity)

(* Mutant: the ring of outcomes has no bound.                              *)
RecordTerminalsAllMut(ts, records) == ts \o records

(* record_terminal, once for each of the operations given: the journal     *)
(* remembers the newest Capacity outcomes.                                 *)
RecordTerminals(ts, records) ==
  LET all == ts \o records
  IN  IF Len(all) <= Capacity THEN all
      ELSE SubSeq(all, Len(all) - Capacity + 1, Len(all))

Outcome(op, outcome) == [id |-> op.id, outcome |-> outcome]

(* Mutant: a context is recognised by its identity alone.                  *)
EpochNowMut(j) ==
  [activation |-> j.activation, focus |-> j.focus,
   context |-> j.context, gen |-> 1]

EpochNow(j) ==
  [activation |-> j.activation, focus |-> j.focus,
   context |-> j.context, gen |-> j.gen]

LeaseOf(op) == [id |-> op.id, epoch |-> op.epoch, rev |-> op.result]

(* Mutant: whichever operation is at the head answers for the ticket.      *)
IsHeadMut(j, id) == j.ops # << >>

IsHead(j, id) == j.ops # << >> /\ Head(j.ops).id = id

(* Mutant: leases of earlier operations stay issued.                       *)
ApplyHeadMut(j) ==
  LET op   == Head(j.ops)
      rest == Tail(j.ops)
      crev == IF op.writes THEN op.result ELSE j.crev
  IN  [j EXCEPT
         !.ops = rest, !.crev = crev, !.cvis = op.after,
         !.trev = IF rest = << >> THEN crev ELSE @,
         !.tvis = IF rest = << >> THEN op.after ELSE @,
         !.ui = IF op.writes THEN {} ELSE @,
         !.issued = @ \union {LeaseOf(op)},
         !.terminals = RecordTerminals(@, <<Outcome(op, "Applied")>>)]

(* The Applied half of cancel_from: the head's plan becomes the committed  *)
(* projection and its lease the only adoptable one.                        *)
ApplyHead(j) ==
  LET op   == Head(j.ops)
      rest == Tail(j.ops)
      crev == IF op.writes THEN op.result ELSE j.crev
  IN  [j EXCEPT
         !.ops = rest, !.crev = crev, !.cvis = op.after,
         !.trev = IF rest = << >> THEN crev ELSE @,
         !.tvis = IF rest = << >> THEN op.after ELSE @,
         !.ui = IF op.writes THEN {} ELSE @,
         !.issued = {LeaseOf(op)},
         !.terminals = RecordTerminals(@, <<Outcome(op, "Applied")>>)]

(* The failing half of cancel_from: the head takes `outcome`, everything   *)
(* behind it is cancelled and the tail falls back to the committed state.  *)
(* `prefix` is the Option<VisibleState> as a set of at most one element.   *)
FailHead(j, outcome, mayHaveChanged, prefix) ==
  LET crev == IF mayHaveChanged THEN Head(j.ops).result ELSE j.crev
      cvis == IF prefix = {} THEN j.cvis ELSE CHOOSE v \in prefix : TRUE
  IN  [j EXCEPT
         !.ops = << >>, !.crev = crev, !.trev = crev,
         !.cvis = cvis, !.tvis = cvis, !.ui = {}, !.issued = {},
         !.terminals = RecordTerminals(@,
           [i \in DOMAIN j.ops |->
              Outcome(j.ops[i], IF i = 1 THEN outcome ELSE "PredecessorFailed")])]

CancelAll(j) ==
  IF j.ops = << >> THEN [j EXCEPT !.trev = j.crev, !.tvis = j.cvis]
                   ELSE FailHead(j, "Cancelled", FALSE, {})

-----------------------------------------------------------------------------
(* Life-cycle events.                                                      *)

Activate(j) ==
  [CancelAll(j) EXCEPT
     !.active = TRUE, !.activation = @ + 1, !.focus = @ + 1,
     !.context = NoContext, !.crev = 0, !.trev = 0,
     !.cvis = Empty, !.tvis = Empty, !.ui = {}]

Deactivate(j) ==
  CancelAll([j EXCEPT
     !.active = FALSE, !.activation = @ + 1, !.focus = @ + 1,
     !.context = NoContext, !.ui = {}])

FocusChanged(j) == CancelAll([j EXCEPT !.focus = @ + 1, !.ui = {}])

CompositionTerminated(j) ==
  CancelAll([j EXCEPT
     !.crev = @ + 1, !.trev = j.crev + 1,
     !.cvis = Empty, !.tvis = Empty, !.ui = {}])

AbandonProjection(j) ==
  LET c == CancelAll(j)
  IN  [c EXCEPT !.crev = @ + 1, !.trev = c.crev + 1,
                !.cvis = Empty, !.tvis = Empty, !.ui = {}]

(* The first context of an activation only starts a generation; another    *)
(* context replaces it and cancels everything planned for the old one.     *)
ObserveContext(j, c) ==
  CASE j.context = c         -> j
    [] j.context = NoContext -> [j EXCEPT !.gen = @ + 1, !.context = c]
    [] OTHER ->
         [CancelAll(j) EXCEPT
            !.gen = @ + 1, !.context = c, !.crev = 0, !.trev = 0,
            !.cvis = Empty, !.tvis = Empty, !.ui = {}]

-----------------------------------------------------------------------------
(* Admission.                                                              *)

(* Mutant: an open reservation does not close admission.                   *)
HasReservationMut(j) == FALSE

HasReservation(j) ==
  \E i \in 1..Len(j.ops) : j.ops[i].phase = "Reserved"

(* Mutant: the queue has no bound.                                         *)
CanReserveMut(j, c) == j.active /\ j.context = c /\ ~HasReservation(j)

CanReserve(j, c) ==
  /\ j.active /\ j.context = c
  /\ Len(j.ops) < Capacity /\ ~HasReservation(j)

Reserve(j) ==
  [j EXCEPT
     !.nextId = @ + 1,
     !.ops = Append(@, [id |-> j.nextId, epoch |-> EpochNow(j),
                        phase |-> "Reserved", base |-> j.trev,
                        result |-> j.trev, writes |-> FALSE,
                        before |-> j.tvis, after |-> j.tvis])]

(* Mutant: the plan may start from any projection.                         *)
CanAttachMut(j, id, before) ==
  \E i \in 1..Len(j.ops) : j.ops[i].id = id /\ j.ops[i].phase = "Reserved"

CanAttach(j, id, before) ==
  \E i \in 1..Len(j.ops) :
    /\ j.ops[i].id = id
    /\ j.ops[i].phase = "Reserved"
    /\ j.ops[i].epoch = EpochNow(j)
    /\ before = j.tvis

Attach(j, id, writes, before, after) ==
  LET at     == CHOOSE i \in 1..Len(j.ops) : j.ops[i].id = id
      result == IF writes THEN j.trev + 1 ELSE j.trev
      plan   == [j.ops[at] EXCEPT
                   !.phase = "Ready", !.base = j.trev, !.result = result,
                   !.writes = writes, !.before = before, !.after = after]
  IN  [j EXCEPT !.ops[at] = plan, !.trev = result, !.tvis = after]

CanCancelReservation(j, id) ==
  \E i \in 1..Len(j.ops) : j.ops[i].id = id /\ j.ops[i].phase = "Reserved"

CancelReservation(j, id) ==
  LET at == CHOOSE i \in 1..Len(j.ops) :
              j.ops[i].id = id /\ j.ops[i].phase = "Reserved"
  IN  [j EXCEPT
         !.ops = [i \in 1..Len(@) - 1 |-> IF i < at THEN @[i] ELSE @[i + 1]],
         !.terminals = RecordTerminals(@, <<Outcome(j.ops[at], "Cancelled")>>)]

-----------------------------------------------------------------------------
(* Edit sessions.                                                          *)

HeadTicket(j) ==
  LET op == Head(j.ops)
  IN  [id |-> op.id, epoch |-> op.epoch, rev |-> op.base, result |-> op.result]

CanBegin(j) == j.ops # << >> /\ Head(j.ops).phase = "Ready"

BeginHead(j) == [j EXCEPT !.ops[1].phase = "Requested"]

(* validate_callback: the gate an edit session passes before any access to *)
(* the document or the UI.                                                 *)
Validates(j, t) ==
  /\ j.active
  /\ t.epoch = EpochNow(j)
  /\ t.rev = j.crev
  /\ IsHead(j, t.id)
  /\ Head(j.ops).phase = "Requested"
  /\ Head(j.ops).result = t.result

CompleteApplied(j, t) == IF Validates(j, t) THEN ApplyHead(j) ELSE j

Reject(j, t, mayHaveChanged, prefix) ==
  IF IsHead(j, t.id) /\ Head(j.ops).phase # "Reserved"
  THEN FailHead(j, "Rejected", mayHaveChanged, prefix) ELSE j

CancelTicket(j, t) ==
  IF IsHead(j, t.id) THEN FailHead(j, "Cancelled", FALSE, {}) ELSE j

-----------------------------------------------------------------------------
(* Candidate/layout leases.                                                *)

(* Mutant: any lease of this epoch and revision, not the one issued last.  *)
AdoptableMut(j, l) == j.active /\ l.epoch = EpochNow(j) /\ l.rev = j.crev

Adoptable(j, l) ==
  /\ j.active /\ l \in j.issued
  /\ l.epoch = EpochNow(j) /\ l.rev = j.crev

AdoptLease(j, l) == IF Adoptable(j, l) THEN [j EXCEPT !.ui = {l}] ELSE j

LeaseValid(j, l) == l \in j.ui /\ Adoptable(j, l)

ClearLease(j) == [j EXCEPT !.ui = {}, !.issued = {}]

ClearLeaseIfCurrent(j, l) == IF LeaseValid(j, l) THEN ClearLease(j) ELSE j

-----------------------------------------------------------------------------
(* What holds of the journal between any two calls.                        *)

(* Each operation was planned against the projection and revision the one  *)
(* before it leaves, the first against the committed ones.                 *)
Chained(j) ==
  /\ j.ops = << >> => j.cvis = j.tvis /\ j.crev = j.trev
  /\ \A i \in 1..Len(j.ops) :
       /\ i = 1 => j.ops[i].before = j.cvis /\ j.ops[i].base = j.crev
       /\ i > 1 => /\ j.ops[i].before = j.ops[i - 1].after
                  /\ j.ops[i].base = j.ops[i - 1].result
       /\ i = Len(j.ops) => j.tvis = j.ops[i].after /\ j.trev = j.ops[i].result
       /\ ~j.ops[i].writes => j.ops[i].result = j.ops[i].base

(* A reservation is the youngest operation, and plans nothing yet.         *)
ReservedLast(j) ==
  \A i \in 1..Len(j.ops) :
    j.ops[i].phase = "Reserved" =>
      /\ i = Len(j.ops)
      /\ ~j.ops[i].writes /\ j.ops[i].before = j.ops[i].after

RequestedFirst(j) ==
  \A i \in 1..Len(j.ops) : j.ops[i].phase = "Requested" => i = 1

IdsIncrease(j) ==
  /\ \A i \in 1..Len(j.ops) : j.ops[i].id < j.nextId
  /\ \A i, k \in 1..Len(j.ops) : i < k => j.ops[i].id < j.ops[k].id

QueuedNow(j) == \A i \in 1..Len(j.ops) : j.ops[i].epoch = EpochNow(j)

JournalInv(j) ==
  /\ Chained(j) /\ ReservedLast(j) /\ RequestedFirst(j)
  /\ IdsIncrease(j) /\ QueuedNow(j)
=============================================================================

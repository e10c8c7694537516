-------------------------- MODULE WriteCoordinator --------------------------
(***************************************************************************)
(* The state machine of WriteCoordinator: its methods called in any order  *)
(* a TSF host can cause.  Tickets and leases are values the caller keeps;  *)
(* a host may run an edit session late, twice or never, so every ticket    *)
(* and lease ever handed out stays deliverable.                            *)
(***************************************************************************)
EXTENDS WriteJournal

CONSTANTS
  MaxId,      \* bound: operations ever reserved
  MaxActivation, MaxFocus, MaxGen,  \* bounds: life-cycle generations
  MaxRev      \* bound: document revision

ASSUME BoundAssumption == MaxId \in Nat

VARIABLES
  j,        \* the journal
  tickets,  \* every ticket a begin_head has handed to an edit session
  leases    \* every lease an applied operation has handed to the UI

vars == <<j, tickets, leases>>

TypeOK ==
  /\ JournalOK(j)
  /\ tickets \subseteq Tickets
  /\ leases \subseteq Leases

Init == j = New /\ tickets = {} /\ leases = {}

Keep == UNCHANGED <<tickets, leases>>

-----------------------------------------------------------------------------
DoActivate ==
  /\ j.activation < MaxActivation /\ j.focus < MaxFocus
  /\ j' = Activate(j) /\ Keep

DoDeactivate ==
  /\ j.activation < MaxActivation /\ j.focus < MaxFocus
  /\ j' = Deactivate(j) /\ Keep

DoFocusChanged == j.focus < MaxFocus /\ j' = FocusChanged(j) /\ Keep

DoCompositionTerminated ==
  j.crev < MaxRev /\ j' = CompositionTerminated(j) /\ Keep

DoAbandonProjection == j.crev < MaxRev /\ j' = AbandonProjection(j) /\ Keep

DoCancelAll == j' = CancelAll(j) /\ Keep

DoObserveContext(c) == j.gen < MaxGen /\ j' = ObserveContext(j, c) /\ Keep

DoReserve(c) ==
  /\ j.nextId <= MaxId
  /\ CanReserve(j, c)
  /\ j' = Reserve(j) /\ Keep

DoAttach(id, writes, before, after) ==
  /\ j.trev < MaxRev
  /\ CanAttach(j, id, before)
  /\ j' = Attach(j, id, writes, before, after) /\ Keep

DoCancelReservation(id) ==
  /\ CanCancelReservation(j, id)
  /\ j' = CancelReservation(j, id) /\ Keep

DoBeginHead ==
  /\ CanBegin(j)
  /\ j' = BeginHead(j)
  /\ tickets' = tickets \union {HeadTicket(j)}
  /\ UNCHANGED leases

DoCompleteApplied(t) ==
  /\ Validates(j, t)
  /\ j' = CompleteApplied(j, t)
  /\ leases' = leases \union j'.issued
  /\ UNCHANGED tickets

DoReject(t, mayHaveChanged, prefix) ==
  j' = Reject(j, t, mayHaveChanged, prefix) /\ Keep

(* head_ticket, then reject: the recovery owner of an unknown document.    *)
DoRejectHead ==
  /\ j.ops # << >>
  /\ j' = Reject(j, HeadTicket(j), TRUE, {}) /\ Keep

DoCancelTicket(t) == j' = CancelTicket(j, t) /\ Keep

DoAdoptLease(l) == j' = AdoptLease(j, l) /\ Keep

DoClearLease == j' = ClearLease(j) /\ Keep

DoClearLeaseIfCurrent(l) == j' = ClearLeaseIfCurrent(j, l) /\ Keep

Next ==
  \/ DoActivate \/ DoDeactivate \/ DoFocusChanged
  \/ DoCompositionTerminated \/ DoAbandonProjection \/ DoCancelAll
  \/ DoBeginHead \/ DoRejectHead \/ DoClearLease
  \/ \E c \in Contexts : DoObserveContext(c) \/ DoReserve(c)
  \/ \E id \in 1..MaxId :
       \/ DoCancelReservation(id)
       \/ \E writes \in BOOLEAN, before, after \in Visible :
            DoAttach(id, writes, before, after)
  \/ \E t \in tickets :
       \/ DoCompleteApplied(t) \/ DoCancelTicket(t)
       \/ \E changed \in BOOLEAN, prefix \in {{}} \union {{v} : v \in Visible} :
            DoReject(t, changed, prefix)
  \/ \E l \in leases : DoAdoptLease(l) \/ DoClearLeaseIfCurrent(l)

Spec == Init /\ [][Next]_vars

-----------------------------------------------------------------------------
(* The queue is a chain of plans: each operation was planned against the   *)
(* projection and revision the one before it leaves, the first against the *)
(* committed ones, and the tail is what the last leaves.  A later key is   *)
(* planned before the document has changed, so nothing else makes its plan *)
(* fit when its turn comes.                                                *)
PlansChain == Chained(j)

(* A ticket that passes validate_callback belongs to the operation whose   *)
(* plan starts from what the document shows now: a callback that is        *)
(* granted access never applies a plan made for another projection.        *)
GrantFitsDocument ==
  \A t \in tickets :
    Validates(j, t) =>
      /\ Head(j.ops).before = j.cvis
      /\ Head(j.ops).base = j.crev
      /\ \A u \in tickets : Validates(j, u) => u = t

(* At most one reservation is open, and it is the youngest operation: a    *)
(* re-entrant key cannot be admitted behind an engine call still running.  *)
OneReservation ==
  \A i \in 1..Len(j.ops) :
    j.ops[i].phase = "Reserved" => i = Len(j.ops)

(* A candidate window keeps its lease only while the operation that        *)
(* published it is the last one applied: no later output has reached the   *)
(* document since.                                                         *)
LeaseIsNewest ==
  \A l \in leases :
    LeaseValid(j, l) => \A i \in 1..Len(j.terminals) :
      j.terminals[i].outcome = "Applied" => j.terminals[i].id <= l.id

(* One writer at a time, at three places: the callback that is granted      *)
(* access, the key that holds a reservation, the window that holds a lease. *)
OneAuthority == GrantFitsDocument /\ OneReservation /\ LeaseIsNewest

(* An operation that leaves the queue gets one terminal outcome, and an    *)
(* outcome once recorded is final: nothing is terminalised twice.          *)
EachTerminatedOnce ==
  [][/\ \A i \in 1..Len(j.ops) :
          \/ \E k \in 1..Len(j'.ops) : j'.ops[k].id = j.ops[i].id
          \/ \E k \in 1..Len(j'.terminals) :
               /\ j'.terminals[k].id = j.ops[i].id
               /\ \A m \in 1..Len(j'.terminals) :
                    j'.terminals[m].id = j.ops[i].id => m = k
     /\ \A k \in 1..Len(j'.ops), m \in 1..Len(j'.terminals) :
          j'.ops[k].id # j'.terminals[m].id]_vars

(* The inductive invariant of the proofs: the journal's own, and a ticket  *)
(* exists only for operations already requested.                           *)
IInv ==
  /\ TypeOK
  /\ JournalInv(j)
  /\ \A t \in tickets :
       /\ t.id < j.nextId
       /\ \A i \in 1..Len(j.ops) :
            j.ops[i].id = t.id => j.ops[i].phase = "Requested"

(* What the journal remembers: an outcome belongs to no queued operation,  *)
(* is recorded once, and operations are applied in the order of their ids. *)
Live(jj) == {jj.ops[i].id : i \in 1..Len(jj.ops)}

Recorded(jj) ==
  \A m \in 1..Len(jj.terminals) :
    /\ jj.terminals[m].id < jj.nextId /\ jj.terminals[m].id \notin Live(jj)
    /\ \A n \in 1..Len(jj.terminals) :
         jj.terminals[n].id = jj.terminals[m].id => n = m
    /\ jj.terminals[m].outcome = "Applied" =>
         /\ \A id \in Live(jj) : jj.terminals[m].id < id
         /\ \A l \in jj.issued : jj.terminals[m].id <= l.id

(* An issued lease is of this epoch or an earlier one, and of no revision  *)
(* yet to come.                                                            *)
IssuedPast(jj) ==
  \A l \in jj.issued :
    /\ l.epoch.activation <= jj.activation /\ l.epoch.focus <= jj.focus
    /\ l.epoch.gen <= jj.gen
    /\ l.epoch = EpochNow(jj) => l.rev <= jj.crev

(* The inductive invariant behind outcomes and leases: besides IInv, a     *)
(* lease exists only of an operation that has left the queue.              *)
HInv ==
  /\ IInv /\ Recorded(j) /\ IssuedPast(j)
  /\ \A l \in leases \union j.issued : l.id < j.nextId /\ l.id \notin Live(j)

(* Authority is never regained: a ticket that stopped validating (focus,   *)
(* context or revision moved on, or it was answered) is refused for ever,  *)
(* also when the host returns to the same context.                         *)
RevokedTicketStaysRevoked ==
  [][\A t \in tickets : Validates(j, t)' => Validates(j, t)]_vars

(* The same for candidate leases: a lease the UI can no longer adopt is    *)
(* never adoptable again.                                                  *)
RevokedLeaseStaysRevoked ==
  [][\A l \in leases : Adoptable(j, l)' => Adoptable(j, l)]_vars

(* Authority that was revoked is never regained: a late callback and a      *)
(* window from before a focus change stay without it for good.              *)
RevokedStaysRevoked == RevokedTicketStaysRevoked /\ RevokedLeaseStaysRevoked
=============================================================================

------------------------ MODULE TextService_proofs --------------------------
(* The journal of writes and the conversation with the engine, in every     *)
(* behaviour and for every value of the constants: operations end once and in *)
(* order, and what the user has seen stays, once.                           *)
EXTENDS TextService, WriteJournal_proofs

LEMMA InitInv == Init => IInv
<1> SUFFICES ASSUME Init
             PROVE  IInv
  OBVIOUS
<1>1. j = New /\ tickets = {} /\ leases = {}
  BY DEF Init
<1>2. Settled(New)
  BY JournalAssumption, ResetValues DEF New, Settled, JournalOK, Journals, JournalAssumption
<1> QED
  BY <1>1, <1>2, SettledInv DEF IInv, TypeOK, Settled

TicketStep == \A t \in tickets : Validates(j, t)' => Validates(j, t)

(* A ticket in hand names a requested operation, so a successor of the     *)
(* journal cannot make it valid.                                           *)
LEMMA SuccessorTicketStep ==
  ASSUME IInv, Succeeds(j, j')
  PROVE  TicketStep
<1> SUFFICES ASSUME NEW t \in tickets, Validates(j', t)
             PROVE  Validates(j, t)
  BY DEF TicketStep
<1>1. IsHead(j, t.id) => Head(j.ops).phase = "Requested"
  <2> SUFFICES ASSUME IsHead(j, t.id)
               PROVE  Head(j.ops).phase = "Requested"
    OBVIOUS
  <2>1. 1 \in 1..Len(j.ops) /\ Head(j.ops) = j.ops[1]
    BY QueueTypes DEF IInv, TypeOK, IsHead
  <2> QED
    BY <2>1 DEF IInv, IsHead
<1> QED
  BY <1>1 DEF Succeeds, KeepsAuthority

(* A step to a successor of the journal that hands out no ticket.          *)
LEMMA SuccessorInv ==
  ASSUME IInv, Succeeds(j, j'), tickets' = tickets, leases' \subseteq Leases
  PROVE  IInv' /\ TicketStep
<1>1. JournalOK(j)' /\ JournalInv(j)'
  BY DEF Succeeds
<1>2. TypeOK'
  BY <1>1 DEF IInv, TypeOK
<1>3. ASSUME NEW t \in tickets'
      PROVE  /\ t.id < j'.nextId
             /\ \A i \in 1..Len(j'.ops) :
                  j'.ops[i].id = t.id => j'.ops[i].phase = "Requested"
  <2>1. t \in tickets /\ t.id \in Nat /\ t.id < j.nextId
    BY <1>3 DEF IInv, TypeOK, Tickets
  <2>2. j.nextId \in Nat /\ j'.nextId \in Nat /\ j.nextId <= j'.nextId
    BY <1>1, Counters DEF IInv, TypeOK, Succeeds
  <2>3. ASSUME NEW i \in 1..Len(j'.ops), j'.ops[i].id = t.id
        PROVE  j'.ops[i].phase = "Requested"
    <3>1. ~(j.nextId <= j'.ops[i].id)
      BY <2>1, <2>2, <2>3
    <3> QED
      BY <2>1, <2>3, <3>1 DEF IInv, Succeeds
  <2> QED
    BY <2>1, <2>2, <2>3
<1> QED
  BY <1>1, <1>2, <1>3, SuccessorTicketStep DEF IInv

LEMMA NextInv == IInv /\ [Next]_vars => IInv' /\ TicketStep
<1> SUFFICES ASSUME IInv, [Next]_vars
             PROVE  IInv' /\ TicketStep
  OBVIOUS
<1>1. JournalOK(j) /\ JournalInv(j) /\ tickets \subseteq Tickets /\ leases \subseteq Leases
  BY DEF IInv, TypeOK
<1>2. CASE DoActivate \/ DoDeactivate \/ DoFocusChanged
           \/ DoCompositionTerminated \/ DoAbandonProjection
  <2>1. Settled(j') /\ j'.nextId = j.nextId /\ UNCHANGED <<tickets, leases>>
    BY <1>1, <1>2, LifeCycleSettles
       DEF DoActivate, DoDeactivate, DoFocusChanged, DoCompositionTerminated,
           DoAbandonProjection, Keep
  <2> QED
    BY <1>1, <2>1, SettledSucceeds, SuccessorInv
<1>3. CASE DoCancelAll
  BY <1>1, <1>3, CancelAllFields, CancelledSucceeds, SuccessorInv DEF DoCancelAll, Keep
<1>4. CASE DoBeginHead
  <2>1. /\ CanBegin(j) /\ j' = BeginHead(j) /\ leases' = leases
        /\ tickets' = tickets \union {HeadTicket(j)}
    BY <1>4 DEF DoBeginHead
  <2>2. /\ Succeeds(j, j') /\ HeadTicket(j) \in Tickets
        /\ HeadTicket(j).id < j.nextId /\ j'.nextId = j.nextId
        /\ \A i \in 1..Len(j'.ops) :
             j'.ops[i].id = HeadTicket(j).id => j'.ops[i].phase = "Requested"
    BY <1>1, <2>1, BeginHeadSucceeds
  <2>3. ASSUME NEW t \in tickets
        PROVE  \A i \in 1..Len(j'.ops) :
                 j'.ops[i].id = t.id => j'.ops[i].phase = "Requested"
    <3>1. t.id \in Nat /\ t.id < j.nextId /\ j.nextId \in Nat
      BY <1>1, Counters DEF IInv, Tickets
    <3> QED
      BY <2>2, <3>1 DEF IInv, Succeeds
  <2> QED
    BY <1>1, <2>1, <2>2, <2>3, SuccessorTicketStep DEF IInv, TypeOK, Succeeds
<1>5. CASE DoRejectHead
  <2>1. TRUE \in BOOLEAN /\ {} \in SUBSET Visible
    OBVIOUS
  <2>2. Succeeds(j, Reject(j, HeadTicket(j), TRUE, {}))
    BY <1>1, <2>1, RejectSucceeds, Zenon
  <2> QED
    BY <1>1, <1>5, <2>2, SuccessorInv DEF DoRejectHead, Keep
<1>6. ASSUME NEW c \in Contexts, DoObserveContext(c) \/ DoReserve(c)
      PROVE  IInv' /\ TicketStep
  BY <1>1, <1>6, ObserveContextSucceeds, ReserveSucceeds, SuccessorInv
     DEF DoObserveContext, DoReserve, Keep
<1>7. ASSUME NEW id \in 1..MaxId, DoCancelReservation(id)
      PROVE  IInv' /\ TicketStep
  <2>1. id \in Nat
    BY BoundAssumption
  <2> QED
    BY <1>1, <1>7, <2>1, CancelReservationSucceeds, SuccessorInv
       DEF DoCancelReservation, Keep
<1>8. ASSUME NEW id \in 1..MaxId, NEW writes \in BOOLEAN, NEW before \in Visible,
             NEW after \in Visible, DoAttach(id, writes, before, after)
      PROVE  IInv' /\ TicketStep
  <2>1. id \in Nat
    BY BoundAssumption
  <2>2. CanAttach(j, id, before) /\ j' = Attach(j, id, writes, before, after)
        /\ UNCHANGED <<tickets, leases>>
    BY <1>8 DEF DoAttach, Keep
  <2>3. Succeeds(j, Attach(j, id, writes, before, after))
    BY <1>1, <2>1, <2>2, AttachSucceeds, Zenon
  <2> QED
    BY <1>1, <2>2, <2>3, SuccessorInv
<1>9. ASSUME NEW t \in tickets, DoCompleteApplied(t)
      PROVE  IInv' /\ TicketStep
  <2>1. /\ Succeeds(j, j') /\ tickets' = tickets
        /\ leases' = leases \union j'.issued
    BY <1>1, <1>9, CompleteAppliedSucceeds DEF DoCompleteApplied
  <2>2. j'.issued \subseteq Leases
    BY <2>1 DEF Succeeds, JournalOK, Journals
  <2> QED
    BY <1>1, <2>1, <2>2, SuccessorInv
<1>10. ASSUME NEW t \in tickets, NEW changed \in BOOLEAN,
              NEW prefix \in SUBSET Visible, DoReject(t, changed, prefix)
       PROVE  IInv' /\ TicketStep
  <2>1. j' = Reject(j, t, changed, prefix) /\ UNCHANGED <<tickets, leases>>
    BY <1>10 DEF DoReject, Keep
  <2>2. Succeeds(j, Reject(j, t, changed, prefix))
    BY <1>1, RejectSucceeds, Zenon
  <2> QED
    BY <1>1, <2>1, <2>2, SuccessorInv
<1>11. ASSUME NEW t \in tickets, DoCancelTicket(t)
       PROVE  IInv' /\ TicketStep
  <2>1. FALSE \in BOOLEAN /\ {} \in SUBSET Visible
    OBVIOUS
  <2>2. Succeeds(j, CancelTicket(j, t))
    BY <1>1, <2>1, RejectSucceeds, Zenon
  <2> QED
    BY <1>1, <1>11, <2>2, SuccessorInv DEF DoCancelTicket, Keep
<1>12. ASSUME NEW l \in leases, DoAdoptLease(l) \/ DoClearLeaseIfCurrent(l)
       PROVE  IInv' /\ TicketStep
  BY <1>1, <1>12, LeaseSucceeds, SuccessorInv
     DEF DoAdoptLease, DoClearLeaseIfCurrent, Keep
<1>13. CASE DoClearLease
  <2>1. j' = ClearLease(j) /\ UNCHANGED <<tickets, leases>>
    BY <1>13 DEF DoClearLease, Keep
  <2> QED
    BY <1>1, <2>1, ClearLeaseSucceeds, SuccessorInv
<1>14. CASE UNCHANGED vars
  BY <1>1, <1>14, SameQueueSucceeds, SuccessorInv DEF vars
<1>15. ASSUME NEW prefix \in {{}} \union {{v} : v \in Visible}
       PROVE  prefix \in SUBSET Visible
  OBVIOUS
<1> QED
  BY <1>2, <1>3, <1>4, <1>5, <1>6, <1>7, <1>8, <1>9, <1>10, <1>11, <1>12,
     <1>13, <1>14, <1>15 DEF Next

(* Every reachable state satisfies the inductive invariant.                *)
THEOREM Invariance == Spec => []IInv
<1>1. Init => IInv
  BY InitInv
<1>2. IInv /\ [Next]_vars => IInv'
  BY NextInv
<1> QED
  BY <1>1, <1>2, PTL DEF Spec

(* The journal, the tickets and the leases are typed, and both of the      *)
(* journal's rings keep to the capacity.                                   *)
THEOREM TypeCorrect == Spec => []TypeOK
<1>1. IInv => TypeOK
  BY DEF IInv
<1> QED
  BY <1>1, Invariance, PTL

(* Queued plans are chained from the committed projection to the tail.     *)
THEOREM ChainCorrect == Spec => []PlansChain
<1>1. IInv => PlansChain
  BY DEF IInv, JournalInv, PlansChain
<1> QED
  BY <1>1, Invariance, PTL

(* Only the youngest operation can be an open reservation.                 *)
THEOREM ReservationCorrect == Spec => []OneReservation
<1>1. IInv => OneReservation
  BY DEF IInv, JournalInv, ReservedLast, OneReservation
<1> QED
  BY <1>1, Invariance, PTL

(* A callback that passes validation holds the only valid ticket, and its  *)
(* plan starts from what the document shows.                               *)
THEOREM GrantCorrect == Spec => []GrantFitsDocument
<1>1. IInv => GrantFitsDocument
  <2> SUFFICES ASSUME IInv, NEW t \in tickets, Validates(j, t)
               PROVE  /\ Head(j.ops).before = j.cvis
                      /\ Head(j.ops).base = j.crev
                      /\ \A u \in tickets : Validates(j, u) => u = t
    BY DEF GrantFitsDocument
  <2>1. j.ops # << >> /\ j.ops \in Seq(Operations)
    BY QueueTypes DEF IInv, TypeOK, Validates, IsHead
  <2>2. 1 \in 1..Len(j.ops) /\ Head(j.ops) = j.ops[1]
    BY <2>1
  <2>3. Head(j.ops).before = j.cvis /\ Head(j.ops).base = j.crev
    BY <2>2 DEF IInv, JournalInv, Chained
  <2>4. ASSUME NEW u \in tickets, Validates(j, u)
        PROVE  u = t
    <3>1. u \in Tickets /\ t \in Tickets
      BY DEF IInv, TypeOK
    <3>2. u.id = t.id /\ u.epoch = t.epoch /\ u.rev = t.rev /\ u.result = t.result
      BY <2>4 DEF Validates, IsHead
    <3> QED
      BY <3>1, <3>2 DEF Tickets
  <2> QED
    BY <2>3, <2>4
<1> QED
  BY <1>1, Invariance, PTL

(* A ticket that stopped validating never validates again.                 *)
THEOREM AuthorityCorrect == Spec => RevokedTicketStaysRevoked
<1>1. IInv /\ [Next]_vars => [TicketStep]_vars
  BY NextInv
<1> QED
  BY <1>1, Invariance, PTL DEF Spec, RevokedTicketStaysRevoked, TicketStep

-----------------------------------------------------------------------------
(* What the coordinator remembers and what it lets others keep: terminal    *)
(* outcomes and candidate leases.  Every operation `keeps the books': what  *)
(* leaves the queue is recorded, once, and what it issues names nothing     *)
(* still queued.                                                            *)

(* The ring of outcomes is a suffix of what was ever recorded.             *)
Suffix(ts, records, r, s) ==
  /\ Len(r) = Len(ts) + Len(records) - s
  /\ \A m \in 1..Len(r) :
       \/ m + s \in 1..Len(ts) /\ r[m] = ts[m + s]
       \/ m + s - Len(ts) \in 1..Len(records) /\ r[m] = records[m + s - Len(ts)]

LEMMA RecordTerminalsSuffix ==
  ASSUME NEW ts \in Seq(TerminalRecords), NEW records \in Seq(TerminalRecords),
         Len(ts) <= Capacity, Len(records) <= Capacity
  PROVE  \E s \in 0..Len(ts) : Suffix(ts, records, RecordTerminals(ts, records), s)
<1> DEFINE all == ts \o records
           k == Len(ts)
           n == Len(all)
           r == RecordTerminals(ts, records)
           split(i) == \/ i \in 1..k /\ all[i] = ts[i]
                       \/ i - k \in 1..Len(records) /\ all[i] = records[i - k]
<1>1. all \in Seq(TerminalRecords) /\ k \in Nat /\ Len(records) \in Nat /\ n = k + Len(records)
  OBVIOUS
<1>2. ASSUME NEW i \in 1..n
      PROVE  split(i)
  OBVIOUS
<1>3. Capacity \in Nat /\ Capacity > 0
  BY JournalAssumption
<1> HIDE DEF all, split
<1>4. ASSUME NEW s \in 0..k, Len(r) = n - s, \A m \in 1..Len(r) : r[m] = all[m + s]
      PROVE  Suffix(ts, records, r, s)
  <2>1. ASSUME NEW m \in 1..Len(r)
        PROVE  \/ m + s \in 1..k /\ r[m] = ts[m + s]
               \/ m + s - k \in 1..Len(records) /\ r[m] = records[m + s - k]
    <3>1. m + s \in 1..n
      BY <1>1, <1>4
    <3>2. split(m + s)
      BY <1>2, <3>1
    <3> QED
      BY <1>4, <3>2 DEF split
  <2> QED
    BY <1>1, <1>4, <2>1 DEF Suffix
<1>5. CASE n <= Capacity
  <2>1. r = all
    BY <1>1, <1>5 DEF RecordTerminals, all
  <2>2. 0 \in 0..k /\ Len(r) = n - 0 /\ \A m \in 1..Len(r) : m + 0 = m
    BY <1>1, <2>1
  <2>3. Suffix(ts, records, r, 0)
    BY <1>1, <1>4, <2>1, <2>2
  <2> QED
    BY <2>2, <2>3
<1>6. CASE ~(n <= Capacity)
  <2>1. /\ n - Capacity \in 0..k /\ n \in Int /\ n - Capacity + 1 \in 1..n
        /\ \A i \in n - Capacity + 1..n : all[i] \in TerminalRecords
    BY <1>1, <1>3, <1>6
  <2>2. r = SubSeq(all, n - Capacity + 1, n)
    BY <1>1, <1>6 DEF RecordTerminals, all
  <2>3. /\ Len(r) = n - (n - Capacity + 1) + 1
        /\ \A m \in 1..n - (n - Capacity + 1) + 1 :
             r[m] = all[m + (n - Capacity + 1) - 1]
    BY <2>1, <2>2, SubSeqProperties
  <2>4. n - (n - Capacity + 1) + 1 = n - (n - Capacity)
    BY <1>1, <1>3
  <2>5. \A m \in 1..Len(r) : m + (n - Capacity + 1) - 1 = m + (n - Capacity)
    BY <1>1, <1>3, <2>3
  <2>6. Len(r) = n - (n - Capacity) /\ \A m \in 1..Len(r) : r[m] = all[m + (n - Capacity)]
    BY <2>3, <2>4, <2>5
  <2> QED
    BY <1>4, <2>1, <2>6
<1> QED
  BY <1>5, <1>6
-----------------------------------------------------------------------------
(* r records, by `records', exactly the operations that left the queue of  *)
(* jj; operations that joined it have new ids.                             *)
Accounts(jj, r, records) ==
  /\ records \in Seq(TerminalRecords) /\ Len(records) <= Capacity
  /\ r.terminals = RecordTerminals(jj.terminals, records)
  /\ \A id \in Live(r) : id \in Live(jj) \/ jj.nextId <= id
  /\ \A m, n \in 1..Len(records) : records[m].id = records[n].id => m = n
  /\ \A m \in 1..Len(records) :
       /\ records[m].id \in Live(jj) \ Live(r)
       /\ records[m].outcome = "Applied" =>
            /\ \A id \in Live(r) : records[m].id < id
            /\ \A l \in r.issued : records[m].id <= l.id
  /\ \A id \in Live(jj) \ Live(r) : \E m \in 1..Len(records) : records[m].id = id

(* A lease r issues was already good for jj if it is good for r, or is of  *)
(* an operation that just left the queue.                                  *)
KeepsLeases(jj, r) ==
  \A l \in r.issued :
    \/ l \in jj.issued /\ (Adoptable(r, l) => Adoptable(jj, l))
    \/ l.id \in Live(jj) \ Live(r)

KeepsBooks(jj, r) ==
  /\ \E records : Accounts(jj, r, records)
  /\ KeepsLeases(jj, r) /\ IssuedPast(r) /\ jj.nextId <= r.nextId

(* The facts about ids the arithmetic of the later steps uses.             *)
LEMMA IdTypes ==
  ASSUME NEW jj, JournalOK(jj)
  PROVE  /\ Live(jj) \subseteq Nat /\ jj.nextId \in Nat
         /\ jj.terminals \in Seq(TerminalRecords) /\ Len(jj.terminals) \in Nat
         /\ Len(jj.terminals) <= Capacity
         /\ \A m \in 1..Len(jj.terminals) : jj.terminals[m].id \in Nat
         /\ \A l \in jj.issued : l \in Leases /\ l.id \in Nat
<1>1. jj.terminals \in Seq(TerminalRecords) /\ jj.issued \subseteq Leases /\ jj.nextId \in Nat
  BY DEF JournalOK, Journals
<1>2. \A m \in 1..Len(jj.terminals) : jj.terminals[m] \in TerminalRecords
  BY <1>1
<1>3. Live(jj) \subseteq Nat
  BY QueueTypes DEF Live
<1> QED
  BY <1>1, <1>2, <1>3 DEF TerminalRecords, Leases, JournalOK

LEMMA LiveIds ==
  ASSUME NEW jj, JournalOK(jj), JournalInv(jj)
  PROVE  \A id \in Live(jj) : id < jj.nextId
BY DEF Live, JournalInv, IdsIncrease

(* Keeping the books keeps what is remembered in order.                    *)
LEMMA BooksRecorded ==
  ASSUME NEW jj, JournalOK(jj), JournalInv(jj), Recorded(jj),
         NEW r, JournalOK(r), KeepsBooks(jj, r)
  PROVE  /\ Recorded(r)
         /\ \A id \in Live(jj) \ Live(r) :
              \E m \in 1..Len(r.terminals) : r.terminals[m].id = id
<1>1. PICK records : Accounts(jj, r, records)
  BY DEF KeepsBooks
<1> DEFINE ts == jj.terminals
           old(i) == i \in 1..Len(ts)
           new(i) == i \in 1..Len(records)
<1>2. /\ ts \in Seq(TerminalRecords) /\ Len(ts) \in Nat /\ Len(ts) <= Capacity
      /\ records \in Seq(TerminalRecords) /\ Len(records) \in Nat
      /\ Len(records) <= Capacity /\ r.terminals = RecordTerminals(ts, records)
  BY <1>1, IdTypes DEF Accounts
<1>3. PICK s \in 0..Len(ts) : Suffix(ts, records, r.terminals, s)
  BY <1>2, RecordTerminalsSuffix
<1>4. /\ jj.nextId \in Nat /\ r.nextId \in Nat /\ jj.nextId <= r.nextId
      /\ Live(jj) \subseteq Nat /\ Live(r) \subseteq Nat
      /\ \A l \in r.issued : l.id \in Nat
      /\ \A l \in jj.issued : l.id \in Nat
  BY IdTypes DEF KeepsBooks
<1>5. Len(r.terminals) = Len(ts) + Len(records) - s
  BY <1>3 DEF Suffix
(* An outcome remembered before.                                           *)
<1>6. ASSUME NEW i \in 1..Len(ts)
      PROVE  /\ ts[i].id < r.nextId /\ ts[i].id \notin Live(r)
             /\ ts[i].id \notin Live(jj) /\ ts[i].id \in Nat
             /\ ts[i].outcome = "Applied" =>
                  /\ \A id \in Live(r) : ts[i].id < id
                  /\ \A l \in r.issued : ts[i].id <= l.id
  <2>1. /\ ts[i].id \in Nat /\ ts[i].id < jj.nextId /\ ts[i].id \notin Live(jj)
        /\ ts[i].outcome = "Applied" =>
             /\ \A id \in Live(jj) : ts[i].id < id
             /\ \A l \in jj.issued : ts[i].id <= l.id
    BY <1>6, IdTypes DEF Recorded
  <2>2. \A id \in Live(r) : id \in Live(jj) \/ jj.nextId <= id
    BY <1>1 DEF Accounts
  <2>3. \A l \in r.issued : l \in jj.issued \/ l.id \in Live(jj)
    BY DEF KeepsBooks, KeepsLeases
  <2> QED
    BY <1>4, <2>1, <2>2, <2>3
(* An outcome recorded by this operation.                                  *)
<1>7. ASSUME NEW i \in 1..Len(records)
      PROVE  /\ records[i].id < r.nextId /\ records[i].id \notin Live(r)
             /\ records[i].id \in Live(jj)
             /\ records[i].outcome = "Applied" =>
                  /\ \A id \in Live(r) : records[i].id < id
                  /\ \A l \in r.issued : records[i].id <= l.id
  <2>1. /\ records[i].id \in Live(jj) \ Live(r)
        /\ records[i].outcome = "Applied" =>
             /\ \A id \in Live(r) : records[i].id < id
             /\ \A l \in r.issued : records[i].id <= l.id
    BY <1>1, <1>7 DEF Accounts
  <2>2. records[i].id < jj.nextId /\ records[i].id \in Nat
    BY <1>4, <2>1, LiveIds
  <2> QED
    BY <1>4, <2>1, <2>2
<1>8. ASSUME NEW m \in 1..Len(r.terminals)
      PROVE  \/ m + s \in 1..Len(ts) /\ r.terminals[m] = ts[m + s]
             \/ /\ m + s - Len(ts) \in 1..Len(records)
                /\ r.terminals[m] = records[m + s - Len(ts)]
  BY <1>3, <1>8 DEF Suffix
<1>9. ASSUME NEW m \in 1..Len(r.terminals)
      PROVE  /\ r.terminals[m].id < r.nextId /\ r.terminals[m].id \notin Live(r)
             /\ r.terminals[m].outcome = "Applied" =>
                  /\ \A id \in Live(r) : r.terminals[m].id < id
                  /\ \A l \in r.issued : r.terminals[m].id <= l.id
  BY <1>6, <1>7, <1>8
<1>10. ASSUME NEW m \in 1..Len(r.terminals), NEW n \in 1..Len(r.terminals),
              r.terminals[n].id = r.terminals[m].id
       PROVE  n = m
  <2>1. \A i, k \in 1..Len(ts) : ts[i].id = ts[k].id => i = k
    BY DEF Recorded
  <2>2. \A i, k \in 1..Len(records) : records[i].id = records[k].id => i = k
    BY <1>1 DEF Accounts
  <2>3. \A i \in 1..Len(ts), k \in 1..Len(records) : ts[i].id # records[k].id
    BY <1>6, <1>7
  <2>4. CASE m + s \in 1..Len(ts) /\ r.terminals[m] = ts[m + s]
    <3>1. n + s \in 1..Len(ts) /\ r.terminals[n] = ts[n + s]
      BY <1>8, <1>10, <2>3, <2>4
    <3>2. m + s = n + s
      BY <1>10, <2>1, <2>4, <3>1
    <3> QED
      BY <1>2, <1>5, <3>2
  <2>5. CASE /\ m + s - Len(ts) \in 1..Len(records)
             /\ r.terminals[m] = records[m + s - Len(ts)]
    <3>1. /\ n + s - Len(ts) \in 1..Len(records)
          /\ r.terminals[n] = records[n + s - Len(ts)]
      BY <1>8, <1>10, <2>3, <2>5
    <3>2. m + s - Len(ts) = n + s - Len(ts)
      BY <1>10, <2>2, <2>5, <3>1
    <3> QED
      BY <1>2, <1>5, <3>2
  <2> QED
    BY <1>8, <2>4, <2>5
<1>11. Recorded(r)
  BY <1>9, <1>10 DEF Recorded
<1>12. ASSUME NEW id \in Live(jj) \ Live(r)
       PROVE  \E m \in 1..Len(r.terminals) : r.terminals[m].id = id
  <2>1. PICK i \in 1..Len(records) : records[i].id = id
    BY <1>1 DEF Accounts
  <2> DEFINE m == i + Len(ts) - s
  <2>2. /\ m \in 1..Len(r.terminals) /\ m + s - Len(ts) = i
        /\ m + s \notin 1..Len(ts)
    BY <1>2, <1>5
  <2> HIDE DEF m
  <2>3. r.terminals[m] = records[i]
    BY <1>8, <2>2
  <2> QED
    BY <2>1, <2>2, <2>3
<1> QED
  BY <1>11, <1>12
-----------------------------------------------------------------------------
(* r is in the epoch and revision of jj or in a later one.                 *)
Later(jj, r) ==
  /\ jj.activation <= r.activation /\ jj.focus <= r.focus /\ jj.gen <= r.gen
  /\ \/ jj.activation < r.activation \/ jj.focus < r.focus \/ jj.gen < r.gen
     \/ EpochNow(r) = EpochNow(jj) /\ jj.crev <= r.crev /\ (r.active => jj.active)

(* Time takes authority from a lease and gives none.                       *)
LEMMA LeasesAge ==
  ASSUME NEW jj, JournalOK(jj), IssuedPast(jj), NEW r, JournalOK(r), Later(jj, r),
         r.issued \subseteq jj.issued
  PROVE  KeepsLeases(jj, r) /\ IssuedPast(r)
<1>1. /\ jj.activation \in Nat /\ jj.focus \in Nat /\ jj.gen \in Nat /\ jj.crev \in Nat
      /\ r.activation \in Nat /\ r.focus \in Nat /\ r.gen \in Nat /\ r.crev \in Nat
  BY DEF JournalOK, Journals
<1> SUFFICES ASSUME NEW l \in r.issued
             PROVE  /\ l.epoch.activation <= r.activation
                    /\ l.epoch.focus <= r.focus /\ l.epoch.gen <= r.gen
                    /\ l.epoch = EpochNow(r) => l.rev <= r.crev
                    /\ Adoptable(r, l) => Adoptable(jj, l)
  BY DEF KeepsLeases, IssuedPast
<1>2. /\ l \in jj.issued /\ l.epoch.activation \in Nat /\ l.epoch.focus \in Nat
      /\ l.epoch.gen \in Nat /\ l.rev \in Nat
  BY IdTypes DEF Leases, Epochs
<1>3. /\ l.epoch.activation <= jj.activation /\ l.epoch.focus <= jj.focus
      /\ l.epoch.gen <= jj.gen /\ (l.epoch = EpochNow(jj) => l.rev <= jj.crev)
  BY <1>2 DEF IssuedPast
<1>4. /\ l.epoch.activation <= r.activation /\ l.epoch.focus <= r.focus
      /\ l.epoch.gen <= r.gen
  BY <1>1, <1>2, <1>3 DEF Later
<1>5. CASE jj.activation < r.activation \/ jj.focus < r.focus \/ jj.gen < r.gen
  <2>1. l.epoch # EpochNow(r)
    BY <1>1, <1>2, <1>3, <1>5 DEF EpochNow
  <2> QED
    BY <1>4, <2>1 DEF Adoptable
<1>6. CASE EpochNow(r) = EpochNow(jj) /\ jj.crev <= r.crev /\ (r.active => jj.active)
  BY <1>1, <1>2, <1>3, <1>4, <1>6 DEF Adoptable
<1> QED
  BY <1>5, <1>6 DEF Later

(* Nothing leaves the queue, nothing is recorded or issued.                *)
LEMMA NothingLeaves ==
  ASSUME NEW jj, JournalOK(jj), IssuedPast(jj), NEW r, JournalOK(r), Later(jj, r),
         r.terminals = jj.terminals, r.issued \subseteq jj.issued,
         Live(jj) \subseteq Live(r), jj.nextId <= r.nextId,
         \A id \in Live(r) : id \in Live(jj) \/ jj.nextId <= id
  PROVE  KeepsBooks(jj, r)
<1> DEFINE records == << >>
<1>1. records \in Seq(TerminalRecords) /\ Len(records) = 0
  OBVIOUS
<1>2. 0 <= Capacity
  BY JournalAssumption
<1>3. jj.terminals \o records = jj.terminals /\ Len(jj.terminals) <= Capacity
  BY IdTypes
<1>4. RecordTerminals(jj.terminals, records) = jj.terminals
  BY <1>3 DEF RecordTerminals
<1> HIDE DEF records
<1>5. \A m \in 1..Len(records) : FALSE
  BY <1>1
<1>6. Accounts(jj, r, records)
  BY <1>1, <1>2, <1>4, <1>5 DEF Accounts
<1> QED
  BY <1>6, LeasesAge DEF KeepsBooks

(* Everything leaves the queue: each operation is recorded as cancelled,   *)
(* rejected or failed with its predecessor, and no lease is left issued.   *)
LEMMA EverythingLeaves ==
  ASSUME NEW jj, JournalOK(jj), JournalInv(jj),
         NEW outcome \in Outcomes \ {"Applied"}, NEW changed, NEW prefix,
         NEW r, JournalOK(r), r.ops = << >>, r.issued = {}, r.nextId = jj.nextId,
         r.terminals = FailHead(jj, outcome, changed, prefix).terminals
  PROVE  KeepsBooks(jj, r)
<1> DEFINE n == Len(jj.ops)
           records ==
             [i \in DOMAIN jj.ops |->
                Outcome(jj.ops[i], IF i = 1 THEN outcome ELSE "PredecessorFailed")]
<1>1. /\ jj.ops \in Seq(Operations) /\ n \in Nat /\ DOMAIN jj.ops = 1..n
      /\ n <= Capacity /\ \A i \in 1..n : jj.ops[i].id \in Nat
  BY QueueTypes DEF JournalOK
<1>2. ASSUME NEW i \in 1..n
      PROVE  /\ records[i] \in TerminalRecords /\ records[i].outcome # "Applied"
             /\ records[i].id = jj.ops[i].id
  BY <1>1 DEF Outcome, Outcomes, TerminalRecords
<1>3. records \in [1..n -> TerminalRecords]
  <2>1. records = [i \in 1..n |-> records[i]]
    BY <1>1
  <2> HIDE DEF records
  <2> QED
    BY <1>2, <2>1
<1>4. records \in Seq(TerminalRecords) /\ Len(records) = n
  BY <1>1, <1>3, SeqOfFunction
<1>5. r.terminals = RecordTerminals(jj.terminals, records)
  <2>1. jj \in Journals
    BY DEF JournalOK
  <2> QED
    BY <2>1 DEF FailHead, Journals
<1> HIDE DEF records
<1>6. Live(r) = {} /\ Live(jj) = {jj.ops[i].id : i \in 1..n}
  BY DEF Live
<1>7. ASSUME NEW m \in 1..n, NEW k \in 1..n, jj.ops[m].id = jj.ops[k].id
      PROVE  m = k
  BY <1>1, <1>7 DEF JournalInv, IdsIncrease
<1>8. Accounts(jj, r, records)
  BY <1>1, <1>2, <1>4, <1>5, <1>6, <1>7 DEF Accounts
<1>9. KeepsLeases(jj, r) /\ IssuedPast(r) /\ jj.nextId <= r.nextId
  BY Counters DEF KeepsLeases, IssuedPast
<1> QED
  BY <1>8, <1>9 DEF KeepsBooks
-----------------------------------------------------------------------------
(* The life-cycle events: all of them cancel what is queued.               *)
LEMMA CancelAllKeeps ==
  ASSUME NEW jj, JournalOK(jj), NEW d, JournalOK(d), d.ops = jj.ops,
         d.terminals = jj.terminals, d.issued = jj.issued
  PROVE  /\ CancelAll(d).terminals = CancelAll(jj).terminals
         /\ CancelAll(d).issued = CancelAll(jj).issued
         /\ CancelAll(d).activation = d.activation /\ CancelAll(d).focus = d.focus
         /\ CancelAll(d).gen = d.gen /\ CancelAll(d).context = d.context
         /\ CancelAll(d).crev = d.crev /\ CancelAll(d).active = d.active
BY DEF CancelAll, FailHead, JournalOK, Journals

LEMMA AllCancelled ==
  ASSUME NEW jj, JournalOK(jj), JournalInv(jj), IssuedPast(jj),
         NEW r, JournalOK(r), r.ops = << >>, r.nextId = jj.nextId, Later(jj, r),
         r.terminals = CancelAll(jj).terminals, r.issued = CancelAll(jj).issued
  PROVE  KeepsBooks(jj, r)
<1>1. jj \in Journals
  BY DEF JournalOK
<1>2. CASE jj.ops = << >>
  <2>1. r.terminals = jj.terminals /\ r.issued = jj.issued
    BY <1>1, <1>2 DEF CancelAll, Journals
  <2>2. Live(jj) = {} /\ Live(r) = {}
    BY <1>2 DEF Live
  <2>3. jj.nextId <= r.nextId
    BY Counters
  <2> QED
    BY <2>1, <2>2, <2>3, NothingLeaves
<1>3. CASE jj.ops # << >>
  <2>1. CancelAll(jj) = FailHead(jj, "Cancelled", FALSE, {})
    BY <1>3 DEF CancelAll
  <2>2. FailHead(jj, "Cancelled", FALSE, {}).issued = {}
    BY <1>1 DEF FailHead, Journals
  <2>3. "Cancelled" \in Outcomes \ {"Applied"}
    BY DEF Outcomes
  <2> QED
    BY <2>1, <2>2, <2>3, EverythingLeaves, Zenon
<1> QED
  BY <1>2, <1>3

LEMMA LifeCycleBooks ==
  ASSUME NEW jj, JournalOK(jj), JournalInv(jj), IssuedPast(jj)
  PROVE  /\ KeepsBooks(jj, Activate(jj)) /\ KeepsBooks(jj, Deactivate(jj))
         /\ KeepsBooks(jj, FocusChanged(jj)) /\ KeepsBooks(jj, CancelAll(jj))
         /\ KeepsBooks(jj, CompositionTerminated(jj))
         /\ KeepsBooks(jj, AbandonProjection(jj))
<1> DEFINE c == CancelAll(jj)
<1>1. /\ jj \in Journals /\ jj.activation \in Nat /\ jj.focus \in Nat
      /\ jj.gen \in Nat /\ jj.crev \in Nat
  BY DEF JournalOK, Journals
<1>2. /\ Settled(c) /\ JournalOK(c) /\ c \in Journals /\ c.nextId = jj.nextId
      /\ c.activation = jj.activation /\ c.focus = jj.focus /\ c.gen = jj.gen
      /\ c.context = jj.context /\ c.crev = jj.crev /\ c.active = jj.active
  BY CancelAllFields, CancelAllKeeps DEF Cancelled, Settled, JournalOK
<1> HIDE DEF c
<1>3. KeepsBooks(jj, c)
  <2>1. Later(jj, c)
    BY <1>1, <1>2 DEF Later, EpochNow
  <2> QED
    BY <1>2, <2>1, AllCancelled DEF Settled, c
<1>4. KeepsBooks(jj, Activate(jj))
  <2> DEFINE r == Activate(jj)
  <2>1. Settled(r) /\ r.nextId = jj.nextId
    BY LifeCycleSettles
  <2>2. /\ r.activation = jj.activation + 1 /\ r.focus = jj.focus + 1
        /\ r.gen = jj.gen /\ r.terminals = c.terminals /\ r.issued = c.issued
    BY <1>2 DEF Activate, Journals, c
  <2> HIDE DEF r
  <2>3. Later(jj, r)
    BY <1>1, <2>2 DEF Later
  <2> QED
    BY <2>1, <2>2, <2>3, AllCancelled DEF Settled, c, r
<1>5. KeepsBooks(jj, Deactivate(jj))
  <2> DEFINE d == [jj EXCEPT
                     !.active = FALSE, !.activation = @ + 1, !.focus = @ + 1,
                     !.context = NoContext, !.ui = {}]
             r == CancelAll(d)
  <2>1. JournalOK(d) /\ d.ops = jj.ops /\ d.terminals = jj.terminals
        /\ d.issued = jj.issued /\ d.activation = jj.activation + 1
        /\ d.focus = jj.focus + 1 /\ d.gen = jj.gen
    BY Counters, ResetValues DEF JournalOK, Journals
  <2>2. r = Deactivate(jj)
    BY DEF Deactivate
  <2>3. Settled(r) /\ r.nextId = jj.nextId
    BY <2>2, LifeCycleSettles
  <2> HIDE DEF d
  <2>4. /\ r.terminals = c.terminals /\ r.issued = c.issued
        /\ r.activation = d.activation /\ r.focus = d.focus /\ r.gen = d.gen
    BY <2>1, CancelAllKeeps DEF c
  <2> HIDE DEF r
  <2>5. Later(jj, r)
    BY <1>1, <2>1, <2>4 DEF Later
  <2> QED
    BY <2>2, <2>3, <2>4, <2>5, AllCancelled DEF Settled, c
<1>6. KeepsBooks(jj, FocusChanged(jj))
  <2> DEFINE d == [jj EXCEPT !.focus = @ + 1, !.ui = {}]
             r == CancelAll(d)
  <2>1. JournalOK(d) /\ d.ops = jj.ops /\ d.terminals = jj.terminals
        /\ d.issued = jj.issued /\ d.activation = jj.activation
        /\ d.focus = jj.focus + 1 /\ d.gen = jj.gen
    BY Counters, ResetValues DEF JournalOK, Journals
  <2>2. r = FocusChanged(jj)
    BY DEF FocusChanged
  <2>3. Settled(r) /\ r.nextId = jj.nextId
    BY <2>2, LifeCycleSettles
  <2> HIDE DEF d
  <2>4. /\ r.terminals = c.terminals /\ r.issued = c.issued
        /\ r.activation = d.activation /\ r.focus = d.focus /\ r.gen = d.gen
    BY <2>1, CancelAllKeeps DEF c
  <2> HIDE DEF r
  <2>5. Later(jj, r)
    BY <1>1, <2>1, <2>4 DEF Later
  <2> QED
    BY <2>2, <2>3, <2>4, <2>5, AllCancelled DEF Settled, c
<1>7. KeepsBooks(jj, CompositionTerminated(jj))
  <2> DEFINE d == [jj EXCEPT
                     !.crev = @ + 1, !.trev = jj.crev + 1,
                     !.cvis = Empty, !.tvis = Empty, !.ui = {}]
             r == CancelAll(d)
  <2>1. JournalOK(d) /\ d.ops = jj.ops /\ d.terminals = jj.terminals
        /\ d.issued = jj.issued /\ d.activation = jj.activation
        /\ d.focus = jj.focus /\ d.gen = jj.gen /\ d.context = jj.context
        /\ d.crev = jj.crev + 1 /\ d.active = jj.active
    BY Counters, ResetValues DEF JournalOK, Journals
  <2>2. r = CompositionTerminated(jj)
    BY DEF CompositionTerminated
  <2>3. Settled(r) /\ r.nextId = jj.nextId
    BY <2>2, LifeCycleSettles
  <2> HIDE DEF d
  <2>4. /\ r.terminals = c.terminals /\ r.issued = c.issued
        /\ r.activation = d.activation /\ r.focus = d.focus /\ r.gen = d.gen
        /\ r.context = d.context /\ r.crev = d.crev /\ r.active = d.active
    BY <2>1, CancelAllKeeps DEF c
  <2> HIDE DEF r
  <2>5. Later(jj, r)
    BY <1>1, <2>1, <2>4 DEF Later, EpochNow
  <2> QED
    BY <2>2, <2>3, <2>4, <2>5, AllCancelled DEF Settled, c
<1>8. KeepsBooks(jj, AbandonProjection(jj))
  <2> DEFINE r == AbandonProjection(jj)
  <2>1. Settled(r) /\ r.nextId = jj.nextId
    BY LifeCycleSettles
  <2>2. /\ r.activation = jj.activation /\ r.focus = jj.focus /\ r.gen = jj.gen
        /\ r.context = jj.context /\ r.active = jj.active /\ r.crev = jj.crev + 1
        /\ r.terminals = c.terminals /\ r.issued = c.issued
    BY <1>2 DEF AbandonProjection, Journals, c
  <2> HIDE DEF r
  <2>3. Later(jj, r)
    BY <1>1, <2>2 DEF Later, EpochNow
  <2> QED
    BY <2>1, <2>2, <2>3, AllCancelled DEF Settled, c, r
<1> QED
  BY <1>3, <1>4, <1>5, <1>6, <1>7, <1>8 DEF c
LEMMA ObserveContextBooks ==
  ASSUME NEW jj, JournalOK(jj), JournalInv(jj), IssuedPast(jj), NEW c \in Contexts
  PROVE  KeepsBooks(jj, ObserveContext(jj, c))
<1> DEFINE r == ObserveContext(jj, c)
           all == CancelAll(jj)
<1>1. /\ jj \in Journals /\ jj.activation \in Nat /\ jj.focus \in Nat
      /\ jj.gen \in Nat /\ jj.crev \in Nat /\ jj.nextId \in Nat
  BY DEF JournalOK, Journals
<1>2. JournalOK(r) /\ jj.nextId <= r.nextId
  BY ObserveContextSucceeds DEF Succeeds
<1>3. CASE jj.context = c
  <2>1. r = jj
    BY <1>3, JournalAssumption DEF ObserveContext, JournalAssumption
  <2> QED
    BY <1>1, <2>1, NothingLeaves DEF Later
<1>4. CASE jj.context # c /\ jj.context = NoContext
  <2>1. r = [jj EXCEPT !.gen = @ + 1, !.context = c]
    BY <1>4 DEF ObserveContext
  <2>2. /\ r.terminals = jj.terminals /\ r.issued = jj.issued /\ r.ops = jj.ops
        /\ r.activation = jj.activation /\ r.focus = jj.focus /\ r.gen = jj.gen + 1
    BY <1>1, <2>1 DEF Journals
  <2>3. Later(jj, r) /\ Live(r) = Live(jj)
    BY <1>1, <2>2 DEF Later, Live
  <2> QED
    BY <1>2, <2>2, <2>3, NothingLeaves
<1>5. CASE jj.context # c /\ jj.context # NoContext
  <2>1. r = [all EXCEPT
               !.gen = @ + 1, !.context = c, !.crev = 0, !.trev = 0,
               !.cvis = Empty, !.tvis = Empty, !.ui = {}]
    BY <1>5 DEF ObserveContext
  <2>2. /\ all \in Journals /\ all.ops = << >> /\ all.nextId = jj.nextId
        /\ all.activation = jj.activation /\ all.focus = jj.focus /\ all.gen = jj.gen
    BY CancelAllFields, CancelAllKeeps DEF Cancelled, Settled, JournalOK
  <2> HIDE DEF all
  <2>3. /\ r.terminals = all.terminals /\ r.issued = all.issued /\ r.ops = << >>
        /\ r.nextId = jj.nextId /\ r.activation = jj.activation
        /\ r.focus = jj.focus /\ r.gen = jj.gen + 1
    BY <2>1, <2>2 DEF Journals
  <2>4. Later(jj, r)
    BY <1>1, <2>3 DEF Later
  <2> HIDE DEF r
  <2>5. KeepsBooks(jj, r)
    BY <1>2, <2>3, <2>4, AllCancelled DEF all
  <2> QED
    BY <2>5 DEF r
<1> QED
  BY <1>3, <1>4, <1>5

-----------------------------------------------------------------------------
(* The operations of a running service.                                    *)
LEMMA ReserveBooks ==
  ASSUME NEW jj, JournalOK(jj), JournalInv(jj), IssuedPast(jj),
         NEW c \in Contexts, CanReserve(jj, c)
  PROVE  KeepsBooks(jj, Reserve(jj))
<1> DEFINE n == Len(jj.ops)
           op == [id |-> jj.nextId, epoch |-> EpochNow(jj),
                  phase |-> "Reserved", base |-> jj.trev,
                  result |-> jj.trev, writes |-> FALSE,
                  before |-> jj.tvis, after |-> jj.tvis]
           r == Reserve(jj)
<1>1. /\ jj \in Journals /\ jj.ops \in Seq(Operations) /\ n \in Nat
      /\ jj.activation \in Nat /\ jj.focus \in Nat /\ jj.gen \in Nat
      /\ jj.crev \in Nat /\ jj.nextId \in Nat
  BY DEF JournalOK, Journals
<1>2. JournalOK(r) /\ jj.nextId <= r.nextId
  BY ReserveSucceeds DEF Succeeds
<1>3. /\ r.ops = Append(jj.ops, op) /\ r.terminals = jj.terminals
      /\ r.issued = jj.issued /\ r.activation = jj.activation
      /\ r.focus = jj.focus /\ r.gen = jj.gen /\ r.context = jj.context
      /\ r.crev = jj.crev /\ r.active = jj.active
  BY <1>1 DEF Reserve, Journals
<1>4. op.id = jj.nextId
  OBVIOUS
<1> HIDE DEF op
<1>5. /\ Len(r.ops) = n + 1 /\ r.ops[n + 1] = op
      /\ \A i \in 1..n : r.ops[i] = jj.ops[i] /\ i \in 1..n + 1
      /\ \A i \in 1..n + 1 : i \in 1..n \/ i = n + 1
  BY <1>1, <1>3
<1> HIDE DEF r
<1>6. Live(jj) \subseteq Live(r)
  BY <1>5 DEF Live
<1>7. \A id \in Live(r) : id \in Live(jj) \/ id = jj.nextId
  BY <1>4, <1>5 DEF Live
<1>8. Later(jj, r) /\ jj.nextId <= jj.nextId
  BY <1>1, <1>3 DEF Later, EpochNow
<1> QED
  BY <1>2, <1>3, <1>6, <1>7, <1>8, NothingLeaves DEF r

(* An operation that gets a plan, or is handed to the host, keeps its id.  *)
LEMMA SameIdBooks ==
  ASSUME NEW jj, JournalOK(jj), IssuedPast(jj), NEW r, JournalOK(r),
         NEW at \in 1..Len(jj.ops), NEW op, op.id = jj.ops[at].id,
         r.ops = [jj.ops EXCEPT ![at] = op],
         r.terminals = jj.terminals, r.issued \subseteq jj.issued,
         r.nextId = jj.nextId, r.activation = jj.activation,
         r.focus = jj.focus, r.gen = jj.gen, r.context = jj.context,
         r.crev = jj.crev, r.active = jj.active
  PROVE  KeepsBooks(jj, r)
<1>1. /\ jj.ops \in Seq(Operations) /\ jj.activation \in Nat /\ jj.focus \in Nat
      /\ jj.gen \in Nat /\ jj.crev \in Nat /\ jj.nextId \in Nat
  BY DEF JournalOK, Journals
<1>2. /\ Len(r.ops) = Len(jj.ops)
      /\ \A i \in 1..Len(jj.ops) : r.ops[i].id = jj.ops[i].id
  BY <1>1
<1>3. Live(r) = Live(jj)
  BY <1>2 DEF Live
<1>4. Later(jj, r) /\ jj.nextId <= r.nextId
  BY <1>1 DEF Later, EpochNow
<1> QED
  BY <1>3, <1>4, NothingLeaves

LEMMA AttachBooks ==
  ASSUME NEW jj, JournalOK(jj), JournalInv(jj), IssuedPast(jj), NEW id \in Nat,
         NEW writes \in BOOLEAN, NEW before \in Visible, NEW after \in Visible,
         CanAttach(jj, id, before)
  PROVE  KeepsBooks(jj, Attach(jj, id, writes, before, after))
<1> DEFINE at == CHOOSE i \in 1..Len(jj.ops) : jj.ops[i].id = id
           result == IF writes THEN jj.trev + 1 ELSE jj.trev
           op == [jj.ops[at] EXCEPT
                    !.phase = "Ready", !.base = jj.trev, !.result = result,
                    !.writes = writes, !.before = before, !.after = after]
           r == Attach(jj, id, writes, before, after)
<1>1. JournalOK(r)
  BY AttachSucceeds, Zenon DEF Succeeds
<1>2. at \in 1..Len(jj.ops)
  BY DEF CanAttach
<1> HIDE DEF at, result
<1>3. op.id = jj.ops[at].id
  BY <1>2, QueueTypes DEF Operations
<1>4. r = [jj EXCEPT !.ops = [jj.ops EXCEPT ![at] = op], !.trev = result, !.tvis = after]
  BY DEF Attach, at, result
<1> HIDE DEF op, r
<1>5. /\ r.ops = [jj.ops EXCEPT ![at] = op] /\ r.terminals = jj.terminals
      /\ r.issued = jj.issued /\ r.nextId = jj.nextId /\ r.activation = jj.activation
      /\ r.focus = jj.focus /\ r.gen = jj.gen /\ r.context = jj.context
      /\ r.crev = jj.crev /\ r.active = jj.active
  BY <1>4 DEF JournalOK, Journals
<1>6. KeepsBooks(jj, r)
  BY <1>1, <1>2, <1>3, <1>5, SameIdBooks
<1> QED
  BY <1>6 DEF r

LEMMA BeginHeadBooks ==
  ASSUME NEW jj, JournalOK(jj), JournalInv(jj), IssuedPast(jj), CanBegin(jj)
  PROVE  KeepsBooks(jj, BeginHead(jj))
<1> DEFINE op == [jj.ops[1] EXCEPT !.phase = "Requested"]
           r == BeginHead(jj)
<1>1. JournalOK(r)
  BY BeginHeadSucceeds DEF Succeeds
<1>2. 1 \in 1..Len(jj.ops)
  BY QueueTypes DEF CanBegin
<1>3. op.id = jj.ops[1].id
  BY <1>2, QueueTypes DEF Operations
<1>4. r = [jj EXCEPT !.ops = [jj.ops EXCEPT ![1] = op]]
  BY DEF BeginHead
<1> HIDE DEF op, r
<1>5. /\ r.ops = [jj.ops EXCEPT ![1] = op] /\ r.terminals = jj.terminals
      /\ r.issued = jj.issued /\ r.nextId = jj.nextId /\ r.activation = jj.activation
      /\ r.focus = jj.focus /\ r.gen = jj.gen /\ r.context = jj.context
      /\ r.crev = jj.crev /\ r.active = jj.active
  BY <1>4 DEF JournalOK, Journals
<1>6. KeepsBooks(jj, r)
  BY <1>1, <1>2, <1>3, <1>5, SameIdBooks
<1> QED
  BY <1>6 DEF r
(* One operation leaves the queue, at one of its ends, and is recorded.    *)
LEMMA OneLeaves ==
  ASSUME NEW jj, JournalOK(jj), NEW r, JournalOK(r),
         NEW op \in Operations, NEW outcome \in Outcomes,
         op.id \in Live(jj), Live(r) = Live(jj) \ {op.id}, r.nextId = jj.nextId,
         r.terminals = RecordTerminals(jj.terminals, <<Outcome(op, outcome)>>),
         outcome = "Applied" =>
           /\ \A id \in Live(r) : op.id < id
           /\ \A l \in r.issued : op.id <= l.id,
         KeepsLeases(jj, r), IssuedPast(r)
  PROVE  KeepsBooks(jj, r)
<1> DEFINE record == Outcome(op, outcome)
           records == <<record>>
<1>1. record \in TerminalRecords /\ record.id = op.id /\ record.outcome = outcome
  BY DEF Outcome, TerminalRecords, Operations
<1> HIDE DEF record
<1>2. /\ records \in Seq(TerminalRecords) /\ Len(records) = 1 /\ records[1] = record
      /\ \A m \in 1..Len(records) : m = 1
  BY <1>1
<1>3. 1 <= Capacity /\ jj.nextId <= r.nextId
  BY JournalAssumption, Counters
<1> HIDE DEF records
<1>4. \A m \in 1..Len(records) : records[m] = record
  BY <1>2
<1>5. r.terminals = RecordTerminals(jj.terminals, records)
  BY DEF records, record
<1>6. 1 \in 1..Len(records)
  BY <1>2
<1>7. Accounts(jj, r, records)
  BY <1>1, <1>2, <1>3, <1>4, <1>5, <1>6 DEF Accounts
<1> QED
  BY <1>3, <1>7 DEF KeepsBooks

LEMMA CancelReservationBooks ==
  ASSUME NEW jj, JournalOK(jj), JournalInv(jj), IssuedPast(jj), NEW id \in Nat,
         CanCancelReservation(jj, id)
  PROVE  KeepsBooks(jj, CancelReservation(jj, id))
<1> DEFINE n == Len(jj.ops)
           op == jj.ops[n]
           r == CancelReservation(jj, id)
<1>1. /\ jj.ops \in Seq(Operations) /\ n \in Nat
      /\ \A i \in 1..n : jj.ops[i] \in Operations /\ jj.ops[i].id \in Nat
  BY QueueTypes
<1>2. /\ n \in 1..n /\ op.phase = "Reserved" /\ op.id = id
      /\ \A i \in 1..n : jj.ops[i].id = id /\ jj.ops[i].phase = "Reserved" => i = n
  BY <1>1 DEF CanCancelReservation, JournalInv, ReservedLast
<1>3. n = CHOOSE i \in 1..Len(jj.ops) : jj.ops[i].id = id /\ jj.ops[i].phase = "Reserved"
  BY <1>2
<1>4. JournalOK(r)
  BY CancelReservationSucceeds DEF Succeeds
<1>5. r = [jj EXCEPT
             !.ops = [i \in 1..n - 1 |-> IF i < n THEN jj.ops[i] ELSE jj.ops[i + 1]],
             !.terminals = RecordTerminals(jj.terminals, <<Outcome(op, "Cancelled")>>)]
  BY <1>3 DEF CancelReservation
<1> HIDE DEF r
<1>6. /\ r.ops = [i \in 1..n - 1 |-> IF i < n THEN jj.ops[i] ELSE jj.ops[i + 1]]
      /\ r.terminals = RecordTerminals(jj.terminals, <<Outcome(op, "Cancelled")>>)
      /\ r.issued = jj.issued /\ r.nextId = jj.nextId
      /\ r.activation = jj.activation /\ r.focus = jj.focus /\ r.gen = jj.gen
      /\ r.context = jj.context /\ r.crev = jj.crev /\ r.active = jj.active
  BY <1>5 DEF JournalOK, Journals
<1>7. /\ Len(r.ops) = n - 1
      /\ \A i \in 1..n - 1 : r.ops[i] = jj.ops[i] /\ i \in 1..n /\ i < n
      /\ \A i \in 1..n : i # n => i \in 1..n - 1
  BY <1>1, <1>2, <1>6
<1>8. \A i \in 1..n : i < n => jj.ops[i].id < op.id
  BY <1>1, <1>2 DEF JournalInv, IdsIncrease
<1>9. Live(r) = Live(jj) \ {op.id}
  <2>1. ASSUME NEW x \in Live(r)
        PROVE  x \in Live(jj) /\ x # op.id
    <3>1. PICK i \in 1..n - 1 : x = r.ops[i].id
      BY <1>7 DEF Live
    <3>2. x = jj.ops[i].id /\ i \in 1..n /\ i < n /\ x \in Nat
      BY <1>1, <1>7, <3>1
    <3> QED
      BY <1>1, <1>2, <1>8, <3>2 DEF Live
  <2>2. ASSUME NEW x \in Live(jj), x # op.id
        PROVE  x \in Live(r)
    <3>1. PICK i \in 1..n : x = jj.ops[i].id
      BY DEF Live
    <3>2. i \in 1..n - 1 /\ x = r.ops[i].id
      BY <1>7, <2>2, <3>1
    <3> QED
      BY <1>7, <3>2 DEF Live
  <2> QED
    BY <2>1, <2>2
<1>10. op \in Operations /\ op.id \in Live(jj) /\ "Cancelled" \in Outcomes
  BY <1>1, <1>2 DEF Live, Outcomes
<1>11. Later(jj, r)
  <2>1. /\ jj.activation \in Nat /\ jj.focus \in Nat /\ jj.gen \in Nat /\ jj.crev \in Nat
    BY DEF JournalOK, Journals
  <2> QED
    BY <1>6, <2>1 DEF Later, EpochNow
<1>12. KeepsLeases(jj, r) /\ IssuedPast(r)
  BY <1>4, <1>6, <1>11, LeasesAge
<1> HIDE DEF op
<1>13. KeepsBooks(jj, r)
  BY <1>4, <1>6, <1>9, <1>10, <1>12, OneLeaves
<1> QED
  BY <1>13 DEF r

LEMMA ApplyHeadBooks ==
  ASSUME NEW jj, JournalOK(jj), JournalInv(jj), jj.ops # << >>
  PROVE  KeepsBooks(jj, ApplyHead(jj))
<1> DEFINE n == Len(jj.ops)
           op == Head(jj.ops)
           r == ApplyHead(jj)
<1>1. /\ jj.ops \in Seq(Operations) /\ n \in Nat
      /\ \A i \in 1..n : jj.ops[i] \in Operations /\ jj.ops[i].id \in Nat
  BY QueueTypes
<1>2. /\ 1 \in 1..n /\ op = jj.ops[1] /\ op \in Operations
      /\ Len(Tail(jj.ops)) = n - 1
      /\ \A i \in 1..n - 1 : Tail(jj.ops)[i] = jj.ops[i + 1]
  BY <1>1
<1>3. JournalOK(r)
  BY ApplyHeadSucceeds DEF Succeeds
<1>4. /\ r.ops = Tail(jj.ops) /\ r.nextId = jj.nextId /\ r.issued = {LeaseOf(op)}
      /\ r.terminals = RecordTerminals(jj.terminals, <<Outcome(op, "Applied")>>)
      /\ r.crev = IF op.writes THEN op.result ELSE jj.crev
      /\ EpochNow(r) = EpochNow(jj)
  BY DEF ApplyHead, JournalOK, Journals, EpochNow
<1> HIDE DEF op, r
<1>5. \A i \in 1..n : i # 1 => op.id < jj.ops[i].id /\ i - 1 \in 1..n - 1
  BY <1>1, <1>2 DEF JournalInv, IdsIncrease
<1>6. \A i \in 1..n - 1 : r.ops[i] = jj.ops[i + 1] /\ i + 1 \in 1..n /\ i + 1 # 1
  BY <1>1, <1>2, <1>4
<1>7. op.id \in Nat /\ op.id \in Live(jj) /\ "Applied" \in Outcomes
  BY <1>1, <1>2 DEF Live, Outcomes
<1>8. ASSUME NEW x \in Live(r)
      PROVE  x \in Live(jj) /\ op.id < x /\ x \in Nat
  <2>1. PICK i \in 1..n - 1 : x = r.ops[i].id
    BY <1>2, <1>4 DEF Live
  <2>2. x = jj.ops[i + 1].id /\ i + 1 \in 1..n /\ i + 1 # 1
    BY <1>6, <2>1
  <2> QED
    BY <1>1, <1>5, <2>2 DEF Live
<1>9. ASSUME NEW x \in Live(jj), x # op.id
      PROVE  x \in Live(r)
  <2>1. PICK i \in 1..n : x = jj.ops[i].id
    BY DEF Live
  <2>2. i - 1 \in 1..n - 1 /\ (i - 1) + 1 = i
    BY <1>2, <1>5, <1>9, <2>1
  <2>3. x = r.ops[i - 1].id
    BY <1>6, <2>1, <2>2
  <2> QED
    BY <1>2, <1>4, <2>2, <2>3 DEF Live
<1>10. Live(r) = Live(jj) \ {op.id}
  BY <1>7, <1>8, <1>9
(* The lease is of the present epoch, and of the revision just reached.    *)
<1>11. ASSUME NEW l \in r.issued
       PROVE  /\ l.id = op.id /\ l.epoch.activation <= r.activation
              /\ l.epoch.focus <= r.focus /\ l.epoch.gen <= r.gen /\ l.rev <= r.crev
  <2>1. l.id = op.id /\ l.epoch = op.epoch /\ l.rev = op.result
    BY <1>4 DEF LeaseOf
  <2>2. op.epoch = EpochNow(r)
    BY <1>2, <1>4 DEF JournalInv, QueuedNow
  <2>3. op.result = r.crev
    BY <1>2, <1>4 DEF JournalInv, Chained
  <2>4. /\ l.epoch.activation = r.activation /\ l.epoch.focus = r.focus
        /\ l.epoch.gen = r.gen
    BY <2>1, <2>2 DEF EpochNow
  <2>5. r.activation \in Nat /\ r.focus \in Nat /\ r.gen \in Nat /\ r.crev \in Nat
    BY <1>3 DEF JournalOK, Journals
  <2> QED
    BY <2>1, <2>3, <2>4, <2>5
<1>12. KeepsLeases(jj, r) /\ IssuedPast(r)
  BY <1>7, <1>10, <1>11 DEF KeepsLeases, IssuedPast
<1>13. /\ \A id \in Live(r) : op.id < id
       /\ \A l \in r.issued : op.id <= l.id
  BY <1>7, <1>8, <1>11
<1>14. KeepsBooks(jj, r)
  BY <1>2, <1>3, <1>4, <1>7, <1>10, <1>12, <1>13, OneLeaves
<1> QED
  BY <1>14 DEF r
LEMMA StutterBooks ==
  ASSUME NEW jj, JournalOK(jj), IssuedPast(jj)
  PROVE  KeepsBooks(jj, jj)
<1>1. /\ jj.activation \in Nat /\ jj.focus \in Nat /\ jj.gen \in Nat
      /\ jj.crev \in Nat /\ jj.nextId \in Nat
  BY DEF JournalOK, Journals
<1>2. Later(jj, jj) /\ jj.nextId <= jj.nextId
  BY <1>1 DEF Later
<1> QED
  BY <1>2, NothingLeaves

LEMMA TicketBooks ==
  ASSUME NEW jj, JournalOK(jj), JournalInv(jj), IssuedPast(jj), NEW t,
         NEW changed \in BOOLEAN, NEW prefix \in SUBSET Visible
  PROVE  /\ KeepsBooks(jj, CompleteApplied(jj, t))
         /\ KeepsBooks(jj, Reject(jj, t, changed, prefix))
         /\ KeepsBooks(jj, CancelTicket(jj, t))
<1>1. KeepsBooks(jj, jj)
  BY StutterBooks
<1>2. ASSUME jj.ops # << >>, NEW o \in Outcomes \ {"Applied"}, NEW b \in BOOLEAN,
             NEW p \in SUBSET Visible
      PROVE  KeepsBooks(jj, FailHead(jj, o, b, p))
  <2> DEFINE r == FailHead(jj, o, b, p)
  <2>1. Cancelled(jj, r)
    BY <1>2, FailHeadFields, Zenon
  <2>2. r.issued = {}
    BY DEF FailHead, JournalOK, Journals
  <2> HIDE DEF r
  <2>3. JournalOK(r) /\ r.ops = << >> /\ r.nextId = jj.nextId
    BY <2>1 DEF Cancelled, Settled
  <2>4. r.terminals = FailHead(jj, o, b, p).terminals
    BY DEF r
  <2>5. KeepsBooks(jj, r)
    BY <2>2, <2>3, <2>4, EverythingLeaves, Zenon
  <2> QED
    BY <2>5 DEF r
<1>3. CASE jj.ops = << >>
  BY <1>1, <1>3 DEF CompleteApplied, Validates, Reject, CancelTicket, IsHead
<1>4. CASE jj.ops # << >>
  <2>1. {"Rejected", "Cancelled"} \subseteq Outcomes \ {"Applied"}
    BY DEF Outcomes
  <2>2. KeepsBooks(jj, FailHead(jj, "Rejected", changed, prefix))
    BY <1>2, <1>4, <2>1
  <2>3. KeepsBooks(jj, FailHead(jj, "Cancelled", FALSE, {}))
    BY <1>2, <1>4, <2>1, ResetValues
  <2>4. KeepsBooks(jj, ApplyHead(jj))
    BY <1>4, ApplyHeadBooks
  <2> QED
    BY <1>1, <2>2, <2>3, <2>4 DEF CompleteApplied, Reject, CancelTicket
<1> QED
  BY <1>3, <1>4

LEMMA LeaseBooks ==
  ASSUME NEW jj, JournalOK(jj), JournalInv(jj), IssuedPast(jj)
  PROVE  /\ KeepsBooks(jj, ClearLease(jj))
         /\ \A l \in Leases : /\ KeepsBooks(jj, AdoptLease(jj, l))
                             /\ KeepsBooks(jj, ClearLeaseIfCurrent(jj, l))
<1>1. KeepsBooks(jj, jj)
  BY StutterBooks
<1>2. jj \in Journals
  BY DEF JournalOK
<1>3. /\ jj.activation \in Nat /\ jj.focus \in Nat /\ jj.gen \in Nat
      /\ jj.crev \in Nat /\ jj.nextId \in Nat
  BY <1>2 DEF Journals
<1>4. ASSUME NEW r, JournalOK(r), r.ops = jj.ops, r.terminals = jj.terminals,
             r.issued \subseteq jj.issued, r.nextId = jj.nextId,
             r.activation = jj.activation, r.focus = jj.focus, r.gen = jj.gen,
             r.context = jj.context, r.crev = jj.crev, r.active = jj.active
      PROVE  KeepsBooks(jj, r)
  <2>1. Later(jj, r) /\ Live(r) = Live(jj) /\ jj.nextId <= r.nextId
    BY <1>3, <1>4 DEF Later, EpochNow, Live
  <2> QED
    BY <1>4, <2>1, NothingLeaves
<1>5. KeepsBooks(jj, ClearLease(jj))
  <2> DEFINE r == ClearLease(jj)
  <2>1. JournalOK(r)
    BY ClearLeaseSucceeds DEF Succeeds
  <2>2. /\ r.ops = jj.ops /\ r.terminals = jj.terminals
        /\ r.issued \subseteq jj.issued /\ r.nextId = jj.nextId
        /\ r.activation = jj.activation /\ r.focus = jj.focus /\ r.gen = jj.gen
        /\ r.context = jj.context /\ r.crev = jj.crev /\ r.active = jj.active
    BY <1>2 DEF ClearLease, Journals
  <2> HIDE DEF r
  <2>3. KeepsBooks(jj, r)
    BY <1>4, <2>1, <2>2
  <2> QED
    BY <2>3 DEF r
<1>6. ASSUME NEW l \in Leases
      PROVE  KeepsBooks(jj, AdoptLease(jj, l))
  <2> DEFINE r == AdoptLease(jj, l)
  <2>1. JournalOK(r)
    BY LeaseSucceeds DEF Succeeds
  <2>2. /\ r.ops = jj.ops /\ r.terminals = jj.terminals
        /\ r.issued \subseteq jj.issued /\ r.nextId = jj.nextId
        /\ r.activation = jj.activation /\ r.focus = jj.focus /\ r.gen = jj.gen
        /\ r.context = jj.context /\ r.crev = jj.crev /\ r.active = jj.active
    BY <1>2 DEF AdoptLease, Journals
  <2> HIDE DEF r
  <2>3. KeepsBooks(jj, r)
    BY <1>4, <2>1, <2>2
  <2> QED
    BY <2>3 DEF r
<1> QED
  BY <1>1, <1>5, <1>6 DEF ClearLeaseIfCurrent
-----------------------------------------------------------------------------
(* The state machine.                                                      *)
LEMMA NextBooks ==
  ASSUME IInv, IssuedPast(j), [Next]_vars
  PROVE  KeepsBooks(j, j') /\ leases' \subseteq leases \union j'.issued
<1> DEFINE Goal == KeepsBooks(j, j') /\ leases' \subseteq leases \union j'.issued
<1>1. JournalOK(j) /\ JournalInv(j) /\ leases \subseteq Leases
  BY DEF IInv, TypeOK
<1>2. CASE \/ DoActivate \/ DoDeactivate \/ DoFocusChanged
           \/ DoCompositionTerminated \/ DoAbandonProjection \/ DoCancelAll
  BY <1>1, <1>2, LifeCycleBooks
     DEF DoActivate, DoDeactivate, DoFocusChanged, DoCompositionTerminated,
         DoAbandonProjection, DoCancelAll, Keep
<1>3. CASE DoBeginHead
  BY <1>1, <1>3, BeginHeadBooks DEF DoBeginHead
<1>4. CASE DoRejectHead
  <2>1. TRUE \in BOOLEAN /\ {} \in SUBSET Visible
    OBVIOUS
  <2>2. KeepsBooks(j, Reject(j, HeadTicket(j), TRUE, {}))
    BY <1>1, <2>1, TicketBooks, Zenon
  <2> QED
    BY <1>4, <2>2 DEF DoRejectHead, Keep
<1>5. ASSUME NEW c \in Contexts, DoObserveContext(c) \/ DoReserve(c)
      PROVE  Goal
  BY <1>1, <1>5, ObserveContextBooks, ReserveBooks DEF DoObserveContext, DoReserve, Keep
<1>6. ASSUME NEW id \in 1..MaxId, DoCancelReservation(id)
      PROVE  Goal
  <2>1. id \in Nat
    BY BoundAssumption
  <2> QED
    BY <1>1, <1>6, <2>1, CancelReservationBooks DEF DoCancelReservation, Keep
<1>7. ASSUME NEW id \in 1..MaxId, NEW writes \in BOOLEAN, NEW before \in Visible,
             NEW after \in Visible, DoAttach(id, writes, before, after)
      PROVE  Goal
  <2>1. id \in Nat
    BY BoundAssumption
  <2>2. CanAttach(j, id, before) /\ j' = Attach(j, id, writes, before, after)
        /\ leases' = leases
    BY <1>7 DEF DoAttach, Keep
  <2>3. KeepsBooks(j, Attach(j, id, writes, before, after))
    BY <1>1, <2>1, <2>2, AttachBooks, Zenon
  <2> QED
    BY <2>2, <2>3
<1>8. ASSUME NEW t \in tickets, DoCompleteApplied(t) \/ DoCancelTicket(t)
      PROVE  Goal
  <2>1. TRUE \in BOOLEAN /\ {} \in SUBSET Visible
    OBVIOUS
  <2>2. KeepsBooks(j, CompleteApplied(j, t)) /\ KeepsBooks(j, CancelTicket(j, t))
    BY <1>1, <2>1, TicketBooks, Zenon
  <2> QED
    BY <1>8, <2>2 DEF DoCompleteApplied, DoCancelTicket, Keep
<1>9. ASSUME NEW t \in tickets, NEW changed \in BOOLEAN,
             NEW prefix \in SUBSET Visible, DoReject(t, changed, prefix)
      PROVE  Goal
  <2>1. KeepsBooks(j, Reject(j, t, changed, prefix))
    BY <1>1, TicketBooks, Zenon
  <2> QED
    BY <1>9, <2>1 DEF DoReject, Keep
<1>10. ASSUME NEW l \in leases, DoAdoptLease(l) \/ DoClearLeaseIfCurrent(l)
       PROVE  Goal
  BY <1>1, <1>10, LeaseBooks DEF DoAdoptLease, DoClearLeaseIfCurrent, Keep
<1>11. CASE DoClearLease \/ UNCHANGED vars
  <2>1. CASE DoClearLease
    BY <1>1, <2>1, LeaseBooks DEF DoClearLease, Keep
  <2>2. CASE UNCHANGED vars
    BY <1>1, <2>2, StutterBooks DEF vars
  <2> QED
    BY <1>11, <2>1, <2>2
<1>12. ASSUME NEW prefix \in {{}} \union {{v} : v \in Visible}
       PROVE  prefix \in SUBSET Visible
  OBVIOUS
<1> QED
  BY <1>2, <1>3, <1>4, <1>5, <1>6, <1>7, <1>8, <1>9, <1>10, <1>11, <1>12 DEF Next

EndStep ==
  /\ \A i \in 1..Len(j.ops) :
       \/ \E k \in 1..Len(j'.ops) : j'.ops[k].id = j.ops[i].id
       \/ \E k \in 1..Len(j'.terminals) :
            /\ j'.terminals[k].id = j.ops[i].id
            /\ \A m \in 1..Len(j'.terminals) :
                 j'.terminals[m].id = j.ops[i].id => m = k
  /\ \A k \in 1..Len(j'.ops), m \in 1..Len(j'.terminals) :
       j'.ops[k].id # j'.terminals[m].id

LeaseStep == \A l \in leases : Adoptable(j, l)' => Adoptable(j, l)

LEMMA HistoryStep == HInv /\ [Next]_vars => HInv' /\ EndStep /\ LeaseStep
<1> SUFFICES ASSUME HInv, [Next]_vars
             PROVE  HInv' /\ EndStep /\ LeaseStep
  OBVIOUS
<1>1. IInv /\ IInv'
  BY NextInv DEF HInv
<1>2. JournalOK(j) /\ JournalInv(j) /\ JournalOK(j') /\ Recorded(j)
  BY <1>1 DEF IInv, TypeOK, HInv
<1>3. KeepsBooks(j, j') /\ leases' \subseteq leases \union j'.issued
  BY <1>1, NextBooks DEF HInv
<1>4. /\ Recorded(j') /\ IssuedPast(j')
      /\ \A id \in Live(j) \ Live(j') :
           \E m \in 1..Len(j'.terminals) : j'.terminals[m].id = id
  BY <1>2, <1>3, BooksRecorded DEF KeepsBooks
<1>5. \A l \in j'.issued : l \in j.issued \/ l.id \in Live(j) \ Live(j')
  BY <1>3 DEF KeepsBooks, KeepsLeases
<1>6. \A l \in leases \union j.issued : l.id < j.nextId /\ l.id \notin Live(j) /\ l.id \in Nat
  BY <1>1, IdTypes DEF HInv, IInv, TypeOK, Leases
<1>7. ASSUME NEW l \in leases' \union j'.issued
      PROVE  l.id < j'.nextId /\ l.id \notin Live(j')
  <2>1. j.nextId \in Nat /\ j'.nextId \in Nat /\ j.nextId <= j'.nextId
    BY <1>2, <1>3, IdTypes DEF KeepsBooks
  <2>2. \A id \in Live(j') : id \in Live(j) \/ j.nextId <= id
    BY <1>3 DEF KeepsBooks, Accounts
  <2>3. CASE l \in leases \union j.issued
    BY <1>6, <2>1, <2>2, <2>3
  <2>4. CASE l.id \in Live(j) \ Live(j')
    <3>1. l.id < j.nextId /\ l.id \in Nat
      BY <1>2, <2>4, LiveIds, IdTypes
    <3> QED
      BY <2>1, <2>4, <3>1
  <2> QED
    BY <1>3, <1>5, <2>3, <2>4
<1>8. HInv'
  BY <1>1, <1>4, <1>7 DEF HInv
<1>9. EndStep
  <2>1. ASSUME NEW i \in 1..Len(j.ops)
        PROVE  \/ \E k \in 1..Len(j'.ops) : j'.ops[k].id = j.ops[i].id
               \/ \E k \in 1..Len(j'.terminals) :
                    /\ j'.terminals[k].id = j.ops[i].id
                    /\ \A m \in 1..Len(j'.terminals) :
                         j'.terminals[m].id = j.ops[i].id => m = k
    <3>1. j.ops[i].id \in Live(j)
      BY DEF Live
    <3>2. CASE j.ops[i].id \in Live(j')
      BY <3>2 DEF Live
    <3>3. CASE j.ops[i].id \notin Live(j')
      <4>1. PICK k \in 1..Len(j'.terminals) : j'.terminals[k].id = j.ops[i].id
        BY <1>4, <3>1, <3>3
      <4>2. \A m \in 1..Len(j'.terminals) :
              j'.terminals[m].id = j.ops[i].id => m = k
        BY <1>4, <4>1 DEF Recorded
      <4> QED
        BY <4>1, <4>2
    <3> QED
      BY <3>2, <3>3
  <2>2. ASSUME NEW k \in 1..Len(j'.ops), NEW m \in 1..Len(j'.terminals)
        PROVE  j'.ops[k].id # j'.terminals[m].id
    BY <1>4 DEF Recorded, Live
  <2> QED
    BY <2>1, <2>2 DEF EndStep
<1>10. LeaseStep
  <2> SUFFICES ASSUME NEW l \in leases, Adoptable(j', l)
               PROVE  Adoptable(j, l)
    BY DEF LeaseStep
  <2>1. l \in j'.issued /\ l.id \notin Live(j)
    BY <1>6 DEF Adoptable
  <2> QED
    BY <1>3, <2>1 DEF KeepsBooks, KeepsLeases
<1> QED
  BY <1>8, <1>9, <1>10

(* Outcomes and leases are consistent with the queue in every reachable    *)
(* state: the inductive invariant behind the three theorems that follow.   *)
THEOREM HistoryInvariance == Spec => []HInv
<1>1. Init => HInv
  <2> SUFFICES ASSUME Init
               PROVE  HInv
    OBVIOUS
  <2>1. j = New /\ leases = {}
    BY DEF Init
  <2>2. j.terminals = << >> /\ j.issued = {}
    BY <2>1 DEF New
  <2> QED
    BY <2>1, <2>2, InitInv DEF HInv, Recorded, IssuedPast
<1>2. HInv /\ [Next]_vars => HInv'
  BY HistoryStep
<1> QED
  BY <1>1, <1>2, PTL DEF Spec

(* An operation leaves the queue with one outcome, which stays its only    *)
(* one for as long as it is remembered; nothing queued has an outcome.     *)
THEOREM TerminationCorrect == Spec => EachTerminatedOnce
<1>1. HInv /\ [Next]_vars => [EndStep]_vars
  BY HistoryStep
<1> QED
  BY <1>1, HistoryInvariance, PTL DEF Spec, EachTerminatedOnce, EndStep

(* A candidate lease that cannot be adopted never can be again.            *)
THEOREM LeaseAuthorityCorrect == Spec => RevokedLeaseStaysRevoked
<1>1. HInv /\ [Next]_vars => [LeaseStep]_vars
  BY HistoryStep
<1> QED
  BY <1>1, HistoryInvariance, PTL DEF Spec, RevokedLeaseStaysRevoked, LeaseStep

(* A candidate window holds a valid lease only while the operation that    *)
(* published it is the last one applied.                                   *)
THEOREM LeaseNewestCorrect == Spec => []LeaseIsNewest
<1>1. HInv => LeaseIsNewest
  BY DEF HInv, LeaseIsNewest, LeaseValid, Adoptable, Recorded
<1> QED
  BY <1>1, HistoryInvariance, PTL

(* At most one callback is granted access, one key holds a reservation and *)
(* one window a lease, and each fits what the document shows.              *)
THEOREM OneAuthorityCorrect == Spec => []OneAuthority
<1> QED
  BY GrantCorrect, ReservationCorrect, LeaseNewestCorrect, PTL DEF OneAuthority

(* Neither a ticket nor a lease that was revoked is ever valid again.      *)
THEOREM RevocationCorrect == Spec => RevokedStaysRevoked
<1> QED
  BY AuthorityCorrect, LeaseAuthorityCorrect, PTL DEF RevokedStaysRevoked

-----------------------------------------------------------------------------
(* The link to the engine.  The client waits for an answer as long as its   *)
(* patience says and may give the link up at any point.                     *)

LEMMA AppendLast ==
  ASSUME NEW s \in Seq(Nat), NEW t \in Seq(Nat), NEW n \in Nat
  PROVE  s \o Append(t, n) = Append(s \o t, n)
OBVIOUS

(* What the steps are read from.                                            *)
LinkKeyType == [ends : BOOLEAN, n : Nat]
Asked == [id : Nat, ask : L!Goals \cup {"revert"}, key : LinkKeyType]
Told  == [id : Nat, from : Seq(Nat), now : Seq(Nat)]

LEMMA LinkFields ==
  ASSUME L!Sane
  PROVE  /\ link.on \in BOOLEAN /\ link.desync \in BOOLEAN /\ link.scoped \in BOOLEAN /\ link.next \in Nat
         /\ pipe.alive \in BOOLEAN /\ pipe.in \in Seq(Asked) /\ pipe.out \in Seq(Told)
         /\ call.at \in {"rest", "link", "send", "wait"} /\ call.goal \in L!Goals /\ call.key \in LinkKeyType
         /\ call.resync \in BOOLEAN /\ call.id \in Nat
         /\ misses \in {0, 1, 2} /\ left \in Nat /\ silences \in Nat /\ typed \in Nat
         /\ reading \in Seq(Nat) /\ doc \in Seq(Nat) /\ shown \in Seq(Nat) /\ L!Seen \in Seq(Nat)
BY DEF L!Sane, Asked, Told, LinkKeyType, L!MissesBeforeFallback, L!Seen

LEMMA PipeIds ==
  ASSUME L!Sane
  PROVE  /\ \A i \in 1..Len(pipe.in) : pipe.in[i].id \in Nat
         /\ \A i \in 1..Len(pipe.out) : pipe.out[i].id \in Nat
<1>1. \A i \in 1..Len(pipe.in) : pipe.in[i] \in Asked
  BY LinkFields, ElementOfSeq
<1>2. \A i \in 1..Len(pipe.out) : pipe.out[i] \in Told
  BY LinkFields, ElementOfSeq
<1> QED
  BY <1>1, <1>2 DEF Asked, Told

LEMMA LinkConstants ==
  /\ L!Design = 1 /\ L!MissesBeforeFallback = 2
  /\ L!Rest.at = "rest" /\ L!Rest.goal = "place" /\ L!Rest.resync = FALSE /\ L!Rest.id = 0
  /\ L!Rest.key = L!NoKey /\ L!NoKey \in LinkKeyType
  /\ L!NoLink.on = FALSE /\ L!NoLink.desync = FALSE /\ L!NoLink.scoped = FALSE /\ L!NoLink.next = 1
  /\ L!NoPipe.alive = FALSE /\ L!NoPipe.in = <<>> /\ L!NoPipe.out = <<>>
  /\ L!NoLink \in [on : BOOLEAN, desync : BOOLEAN, scoped : BOOLEAN, next : Nat]
  /\ L!NoPipe \in [alive : BOOLEAN, in : Seq(Asked), out : Seq(Told)]
  /\ L!Rest \in [at : {"rest", "link", "send", "wait"}, goal : L!Goals,
                 key : LinkKeyType, resync : BOOLEAN, id : Nat]
BY DEF L!Design, L!MissesBeforeFallback, L!Rest, L!NoKey, L!NoLink, L!NoPipe, LinkKeyType, L!Goals

LEMMA LinkInit == L!Init => L!IInv
<1> SUFFICES ASSUME L!Init PROVE L!IInv
  OBVIOUS
<1>1. L!Sane
  <2>1. /\ link = L!NoLink /\ blocked = FALSE /\ misses = 0 /\ left = 0 /\ call = L!Rest
        /\ pipe = L!NoPipe /\ reading = <<>> /\ doc = <<>> /\ shown = <<>> /\ typed = 0 /\ silences = 0
    BY DEF L!Init
  <2>2. /\ <<>> \in Seq(Nat)
        /\ 0 \in 0..2
    OBVIOUS
  <2>3. call \in [at : {"rest", "link", "send", "wait"}, goal : L!Goals, key : LinkKeyType,
                 resync : BOOLEAN, id : Nat]
    BY <2>1, LinkConstants
  <2>4. pipe \in [alive : BOOLEAN, in : Seq(Asked), out : Seq(Told)]
    BY <2>1, LinkConstants
  <2>5. link \in [on : BOOLEAN, desync : BOOLEAN, scoped : BOOLEAN, next : Nat]
    BY <2>1, LinkConstants
  <2> QED
    BY <2>1, <2>2, <2>3, <2>4, <2>5, LinkConstants DEF L!Sane, Asked, Told, LinkKeyType
<1>2. L!LinkOK /\ L!CallOK /\ L!SilencesOK
  BY LinkConstants DEF L!Init, L!LinkOK, L!CallOK, L!SilencesOK, L!At
<1>3. L!IdsOK /\ L!SessionOK
  BY LinkConstants DEF L!Init, L!IdsOK, L!SessionOK, L!At, L!Standing
<1>4. L!Seen = <<>>
  BY ConcatEmptySeq, EmptySeq DEF L!Init, L!Seen
<1>5. L!KeysOK
  BY <1>4, LinkConstants DEF L!Init, L!KeysOK, L!EachKeyOnce, L!At
<1> QED
  BY <1>1, <1>2, <1>3, <1>5 DEF L!IInv

(* A call that ends without an answer: its link is dropped and what was on  *)
(* screen becomes text, or nothing has changed but the call.                *)
Gone ==
  /\ link' = L!NoLink /\ pipe' = L!NoPipe /\ reading' = <<>> /\ call' = L!Rest
  /\ shown' = <<>> /\ doc' = L!Seen /\ typed' = typed
Kept ==
  /\ ~L!At("wait") /\ call' = L!Rest
  /\ UNCHANGED <<link, pipe, reading, doc, shown, typed>>
LinkCounters ==
  /\ misses' \in {0, 1, 2} /\ left' \in Nat /\ silences' \in Nat /\ blocked' \in BOOLEAN
  /\ silences' <= misses'

LEMMA Dropped ==
  ASSUME L!Sane, L!Drop,
         L!Finalize \/ (L!Untouched /\ shown = <<>>)
  PROVE  link' = L!NoLink /\ pipe' = L!NoPipe /\ reading' = <<>> /\ shown' = <<>> /\ doc' = L!Seen
BY LinkFields, ConcatEmptySeq DEF L!Drop, L!Finalize, L!Untouched, L!Seen

LEMMA Unavailables ==
  ASSUME L!IInv, L!Unavailable(call.goal), call' = L!Rest, typed' = typed,
         call.goal \notin {"key", "commit"} => shown = <<>>
  PROVE  Gone /\ blocked' \in BOOLEAN
<1>1. L!Drop /\ (L!Finalize \/ (L!Untouched /\ shown = <<>>)) /\ blocked' \in BOOLEAN
  BY DEF L!Unavailable, L!Recover
<1> QED
  BY <1>1, Dropped DEF Gone, L!IInv

LEMMA Nones ==
  ASSUME L!IInv, L!NoneFor(call.goal), call' = L!Rest, typed' = typed, ~L!At("wait"),
         call.goal = "commit" => shown = <<>>
  PROVE  (Gone \/ Kept) /\ blocked' \in BOOLEAN
<1>0. L!Sane /\ blocked \in BOOLEAN /\ shown \in Seq(Nat) /\ doc \in Seq(Nat)
  BY LinkFields DEF L!IInv, L!Sane
<1>1. CASE L!Recover
  BY <1>0, <1>1, Dropped DEF Gone, L!Recover
<1>2. CASE L!Keep /\ UNCHANGED blocked /\ L!Finalize /\ shown = <<>>
  BY <1>0, <1>2, ConcatEmptySeq DEF Kept, L!Keep, L!Finalize
<1>3. CASE L!Keep /\ UNCHANGED blocked /\ L!Untouched
  BY <1>0, <1>3 DEF Kept, L!Keep, L!Untouched
<1>4. \/ L!Recover
      \/ L!Keep /\ UNCHANGED blocked /\ L!Finalize /\ shown = <<>>
      \/ L!Keep /\ UNCHANGED blocked /\ L!Untouched
  BY DEF L!NoneFor
<1> QED
  BY <1>1, <1>2, <1>3, <1>4

LEMMA GivesUp ==
  ASSUME L!IInv, Orphans = FALSE,
         \/ L!LinkExpired \/ L!LinkBlocked \/ L!NotSent \/ L!Breaks
         \/ \E spent \in 0..L!Design : L!ConnectFails(spent)
         \/ L!TimedOut /\ (call.resync \/ call.goal = "key")
  PROVE  (Gone \/ Kept) /\ LinkCounters
<1>0. /\ L!Sane /\ L!LinkOK /\ L!CallOK /\ L!SilencesOK /\ blocked \in BOOLEAN
      /\ misses \in {0, 1, 2} /\ left \in Nat /\ silences \in Nat
      /\ call.at \in {"rest", "link", "send", "wait"} /\ call.goal \in L!Goals /\ call.resync \in BOOLEAN
      /\ silences <= misses
  BY LinkFields DEF L!IInv, L!Sane, L!SilencesOK
<1>1. CASE L!LinkExpired
  <2>1. call.goal = "commit" => shown = <<>>
    BY <1>0, <1>1 DEF L!LinkExpired, L!CallOK, L!At
  <2> QED
    BY <1>0, <1>1, <2>1, Nones DEF L!LinkExpired, LinkCounters, L!At
<1>2. CASE L!LinkBlocked
  <2>1. shown = <<>>
    BY <1>0, <1>2 DEF L!LinkBlocked, L!LinkOK
  <2> QED
    BY <1>0, <1>2, <2>1, Nones DEF L!LinkBlocked, LinkCounters, L!At
<1>3. CASE L!NotSent
  <2>1. CASE call.resync
    <3>1. shown = <<>> /\ L!Unavailable(call.goal)
      BY <1>0, <1>3, <2>1 DEF L!NotSent, L!ToSend, L!LinkOK, L!CallOK, L!At
    <3> QED
      BY <1>0, <1>3, <3>1, Unavailables DEF L!NotSent, LinkCounters
  <2>2. CASE ~call.resync
    <3>1. (call.goal = "commit" => shown = <<>>) /\ L!NoneFor(call.goal) /\ ~L!At("wait")
      BY <1>0, <1>3, <2>2 DEF L!NotSent, L!ToSend, L!CallOK, L!At
    <3> QED
      BY <1>0, <1>3, <3>1, Nones DEF L!NotSent, LinkCounters
  <2> QED
    BY <2>1, <2>2
<1>4. CASE L!Breaks
  <2>1. call.goal \notin {"key", "commit"} => shown = <<>>
    BY <1>0, <1>4 DEF L!Breaks, L!CallOK, L!At, L!Forgiven, L!Goals
  <2> QED
    BY <1>0, <1>4, <2>1, Unavailables DEF L!Breaks, LinkCounters
<1>5. ASSUME NEW spent \in 0..L!Design, L!ConnectFails(spent)
      PROVE  (Gone \/ Kept) /\ LinkCounters
  <2>1. shown = <<>>
    BY <1>0, <1>5 DEF L!ConnectFails, L!LinkOK
  <2>2. left - spent \in Nat
    BY <1>0, <1>5 DEF L!ConnectFails, L!Design
  <2> QED
    BY <1>0, <1>5, <2>1, <2>2, Unavailables DEF L!ConnectFails, LinkCounters
<1>6. CASE L!TimedOut /\ (call.resync \/ call.goal = "key")
  <2>1. misses' \in {0, 1, 2} /\ left' \in Nat /\ silences' \in Nat /\ silences' <= misses'
    BY <1>0, <1>6, LinkConstants DEF L!TimedOut, L!Missed, L!SilencesOK, L!At
  <2>2. CASE call.resync
    <3>1. shown = <<>> /\ L!Unavailable(call.goal)
      BY <1>0, <1>6, <2>2 DEF L!TimedOut, L!LinkOK, L!CallOK, L!At
    <3> QED
      BY <1>6, <2>1, <3>1, Unavailables DEF L!TimedOut, LinkCounters
  <2>3. CASE ~call.resync /\ call.goal = "key"
    <3>1. L!Recover /\ call' = L!Rest /\ typed' = typed
      BY <1>6, <2>3 DEF L!TimedOut
    <3> QED
      BY <1>0, <2>1, <3>1, Dropped DEF Gone, L!Recover, LinkCounters
  <2> QED
    BY <1>6, <2>2, <2>3
<1> QED
  BY <1>1, <1>2, <1>3, <1>4, <1>5, <1>6

LEMMA SilencesRest ==
  LinkCounters /\ call' = L!Rest => L!SilencesOK'
BY LinkConstants DEF LinkCounters, L!SilencesOK, L!At

(* The keys that were seen stay as they are.                                *)
LEMMA KeysStay ==
  ASSUME L!Sane, L!KeysOK, L!Seen' = L!Seen, typed' = typed,
         \/ call'.at = "rest" \/ call'.goal \notin {"scope", "key"}
         \/ call.at # "rest" /\ call.goal \in {"scope", "key"} /\ call'.key = call.key
  PROVE  L!KeysOK'
BY DEF L!KeysOK, L!EachKeyOnce, L!At

LEMMA GoneKeeps ==
  ASSUME L!IInv, Gone, LinkCounters
  PROVE  L!IInv' /\ L!Seen' = L!Seen
<1>0. L!Sane /\ L!KeysOK
  BY DEF L!IInv
<1>1. L!Seen' = L!Seen
  <2>1. L!Seen \in Seq(Nat) /\ L!Seen' = L!Seen \o <<>>
    BY <1>0, LinkFields DEF Gone, L!Seen
  <2> QED
    BY <2>1, ConcatEmptySeq
<1>2. L!Sane'
  <2>1. L!Seen \in Seq(Nat) /\ <<>> \in Seq(Nat) /\ typed \in Nat
    BY <1>0, LinkFields
  <2>2. misses' \in 0..2
    BY DEF LinkCounters
  <2> QED
    BY <2>1, <2>2, LinkConstants DEF L!Sane, Gone, LinkCounters, Asked, Told, LinkKeyType
<1>3. L!LinkOK' /\ L!CallOK'
  BY LinkConstants DEF Gone, L!LinkOK, L!CallOK, L!At
<1>4. L!IdsOK' /\ L!SessionOK'
  BY LinkConstants DEF Gone, L!IdsOK, L!SessionOK, L!At, L!Standing
<1>5. L!KeysOK'
  BY <1>0, <1>1, KeysStay, LinkConstants DEF Gone
<1> QED
  BY <1>1, <1>2, <1>3, <1>4, <1>5, SilencesRest DEF L!IInv, Gone

LEMMA KeptKeeps ==
  ASSUME L!IInv, Kept, LinkCounters
  PROVE  L!IInv' /\ L!Seen' = L!Seen
<1>0. L!Sane /\ L!KeysOK /\ L!LinkOK /\ L!CallOK /\ L!IdsOK /\ L!SessionOK
  BY DEF L!IInv
<1>1. L!Seen' = L!Seen
  BY DEF Kept, L!Seen
<1>2. L!Sane'
  <2>2. misses' \in 0..2
    BY DEF LinkCounters
  <2> QED
    BY <1>0, <2>2, LinkConstants DEF L!Sane, Kept, LinkCounters, LinkKeyType
<1>3. L!LinkOK' /\ L!CallOK'
  BY <1>0, LinkConstants DEF Kept, L!LinkOK, L!CallOK, L!At
<1>4. L!IdsOK'
  BY <1>0, LinkConstants DEF Kept, L!IdsOK, L!At
<1>5. L!SessionOK'
  BY <1>0, LinkConstants DEF Kept, L!SessionOK, L!At, L!Standing, L!Harmless
<1>6. L!KeysOK'
  BY <1>0, <1>1, KeysStay, LinkConstants DEF Kept
<1> QED
  BY <1>1, <1>2, <1>3, <1>4, <1>5, <1>6, SilencesRest DEF L!IInv, Kept

(* A call begins.                                                           *)
LEMMA Entered ==
  ASSUME L!IInv, Orphans = FALSE, NEW goal \in L!Goals \ {"key"}, NEW key \in LinkKeyType, NEW budget \in {L!Design, L!Budget},
         L!Enter(goal, key, budget), L!Unmoved, typed' \in Nat, typed <= typed',
         Patient \in Nat,
         goal = "place" => link.on,
         goal = "scope" => key.n = typed' /\ typed' = typed + 1,
         goal = "commit" => budget = L!Design
  PROVE  L!IInv' /\ L!Seen' = L!Seen
<1>0. L!Sane /\ L!KeysOK /\ L!LinkOK /\ L!CallOK /\ L!IdsOK /\ L!SessionOK /\ L!SilencesOK
  BY DEF L!IInv
<1>1. /\ call = L!Rest /\ left' = budget
      /\ call' = [L!Rest EXCEPT !.at = IF goal = "place" THEN "send" ELSE "link", !.goal = goal, !.key = key]
      /\ UNCHANGED <<link, blocked, misses, pipe, reading, up, doc, shown, silences>>
      /\ goal = "start" => shown = <<>>
  BY DEF L!Enter, L!Unmoved, L!Forgiven
<1>2. /\ call'.at = (IF goal = "place" THEN "send" ELSE "link") /\ call'.goal = goal /\ call'.key = key
      /\ call'.resync = FALSE /\ call'.id = 0
      /\ call' \in [at : {"rest", "link", "send", "wait"}, goal : L!Goals, key : LinkKeyType,
                    resync : BOOLEAN, id : Nat]
  BY <1>1, LinkConstants
<1>3. budget \in Nat /\ L!Design = 1 /\ (budget > L!Design => misses < 2)
  BY <1>0, LinkConstants DEF L!Budget, L!Sane
<1>4. L!Seen' = L!Seen /\ L!Seen \in Seq(Nat) /\ typed \in Nat
  BY <1>0, <1>1, LinkFields DEF L!Seen
<1>5. L!Sane'
  BY <1>0, <1>1, <1>2, <1>3 DEF L!Sane, LinkKeyType
<1>6. L!LinkOK' /\ L!CallOK'
  BY <1>0, <1>1, <1>2, <1>3, LinkConstants DEF L!LinkOK, L!CallOK, L!At
<1>7. L!IdsOK' /\ L!SessionOK'
  BY <1>0, <1>1, <1>2, LinkConstants DEF L!IdsOK, L!SessionOK, L!At, L!Standing, L!Harmless
<1>8. L!KeysOK'
  <2>1. \A i \in 1..Len(L!Seen) : L!Seen[i] \in Nat /\ L!Seen[i] <= typed
    BY <1>0, <1>4 DEF L!KeysOK
  <2>2. \A i \in 1..Len(L!Seen) : L!Seen[i] <= typed' /\ (typed' = typed + 1 => L!Seen[i] < typed')
    BY <1>4, <2>1
  <2>3. L!EachKeyOnce'
    BY <1>0, <1>4 DEF L!KeysOK, L!EachKeyOnce
  <2> QED
    BY <1>2, <1>4, <2>2, <2>3 DEF L!KeysOK, L!At
<1>9. L!SilencesOK'
  BY <1>0, <1>1, <1>2, <1>3, LinkConstants DEF L!SilencesOK
<1> QED
  BY <1>4, <1>5, <1>6, <1>7, <1>8, <1>9 DEF L!IInv

Enters == (\E ends \in BOOLEAN : L!KeyDown(ends)) \/ L!TestKeyDown \/ L!StartAiText \/ L!FocusLoss \/ L!Place

LEMMA EnterSteps ==
  ASSUME L!IInv, Orphans = FALSE, Patient \in Nat, Enters
  PROVE  L!IInv' /\ L!Seen' = L!Seen
<1>0. /\ typed \in Nat /\ L!NoKey \in LinkKeyType
      /\ {"scope", "probe", "start", "commit", "place"} \subseteq L!Goals \ {"key"}
  BY LinkFields, LinkConstants DEF L!IInv, L!Goals
<1>1. ASSUME NEW ends \in BOOLEAN, L!KeyDown(ends) PROVE L!IInv' /\ L!Seen' = L!Seen
  <2> DEFINE key == [ends |-> ends, n |-> typed + 1]
  <2>1. key \in LinkKeyType /\ key.n = typed + 1
    BY <1>0 DEF LinkKeyType
  <2>2. L!Enter("scope", key, L!Budget) /\ L!Unmoved /\ typed' = typed + 1
    BY <1>1 DEF L!KeyDown
  <2> HIDE DEF key
  <2>3. typed' \in Nat /\ typed <= typed'
    BY <1>0, <2>2
  <2> QED
    BY <1>0, <2>1, <2>2, <2>3, Entered
<1>2. CASE L!TestKeyDown
  <2>1. L!Enter("probe", L!NoKey, L!Budget) /\ L!Unmoved /\ typed' = typed
    BY <1>2 DEF L!TestKeyDown
  <2>2. typed' \in Nat /\ typed <= typed'
    BY <1>0, <2>1
  <2> QED
    BY <1>0, <2>1, <2>2, Entered
<1>3. CASE L!StartAiText
  <2>1. L!Enter("start", L!NoKey, L!Budget) /\ L!Unmoved /\ typed' = typed
    BY <1>3 DEF L!StartAiText
  <2>2. typed' \in Nat /\ typed <= typed'
    BY <1>0, <2>1
  <2> QED
    BY <1>0, <2>1, <2>2, Entered
<1>4. CASE L!FocusLoss
  <2>1. L!Enter("commit", L!NoKey, L!Design) /\ L!Unmoved /\ typed' = typed
    BY <1>4 DEF L!FocusLoss
  <2>2. typed' \in Nat /\ typed <= typed'
    BY <1>0, <2>1
  <2> QED
    BY <1>0, <2>1, <2>2, Entered
<1>5. CASE L!Place
  <2>1. L!Enter("place", L!NoKey, L!Design) /\ L!Unmoved /\ typed' = typed /\ link.on
    BY <1>5 DEF L!Place
  <2>2. typed' \in Nat /\ typed <= typed'
    BY <1>0, <2>1
  <2> QED
    BY <1>0, <2>1, <2>2, Entered
<1> QED
  BY <1>1, <1>2, <1>3, <1>4, <1>5 DEF Enters

(* The call moves on, and nothing else.                                     *)
LEMMA CallMoves ==
  ASSUME L!IInv, L!LinkUsable \/ L!ScopeKnown
  PROVE  L!IInv' /\ L!Seen' = L!Seen
<1>0. L!Sane /\ L!KeysOK /\ L!LinkOK /\ L!CallOK /\ L!IdsOK /\ L!SessionOK /\ L!SilencesOK
  BY DEF L!IInv
<1>1. /\ UNCHANGED <<link, blocked, misses, pipe, reading, up, doc, shown, silences, left, typed>>
      /\ call'.at \in {"send", "link"} /\ call'.goal \in L!Goals /\ call'.key = call.key /\ call'.id = call.id
      /\ call'.resync \in BOOLEAN /\ call.at \in {"send", "link"}
      /\ call' \in [at : {"rest", "link", "send", "wait"}, goal : L!Goals, key : [ends : BOOLEAN, n : Nat],
                    resync : BOOLEAN, id : Nat]
      /\ call'.goal = call.goal \/ (call'.goal = "key" /\ call.goal = "scope")
  BY <1>0 DEF L!LinkUsable, L!ScopeKnown, L!Unmoved, L!Send, L!Sane, L!At, L!Goals
<1>2. L!CallOK'
  <2>1. CASE L!LinkUsable
    <3>1. call'.at = "send" /\ call'.resync = link.desync /\ call'.goal = call.goal /\ link.on /\ call.at = "link"
      BY <1>0, <2>1 DEF L!LinkUsable, L!Send, L!Sane, L!At
    <3> QED
      BY <1>0, <1>1, <3>1 DEF L!CallOK, L!At
  <2>2. CASE L!ScopeKnown
    <3>1. call'.at = "link" /\ call'.resync = FALSE /\ call'.goal = "key" /\ link.scoped /\ call.at = "send"
      BY <1>0, <2>2 DEF L!ScopeKnown, L!Sane, L!At
    <3> QED
      BY <1>0, <1>1, <3>1 DEF L!CallOK, L!At
  <2> QED
    BY <2>1, <2>2
<1>3. L!Sane' /\ L!LinkOK' /\ L!SilencesOK'
  BY <1>0, <1>1 DEF L!Sane, L!LinkOK, L!SilencesOK, L!At
<1>4. L!IdsOK' /\ L!SessionOK'
  BY <1>0, <1>1 DEF L!IdsOK, L!SessionOK, L!At, L!Standing, L!Harmless
<1>5. L!Seen' = L!Seen
  BY <1>1 DEF L!Seen
<1>6. L!KeysOK'
  BY <1>0, <1>1, <1>5, KeysStay
<1> QED
  BY <1>2, <1>3, <1>4, <1>5, <1>6 DEF L!IInv

LEMMA ConnectsStep ==
  ASSUME L!IInv, NEW spent \in 0..L!Design, L!Connects(spent)
  PROVE  L!IInv' /\ L!Seen' = L!Seen
<1>0. /\ L!Sane /\ L!KeysOK /\ L!LinkOK /\ L!CallOK /\ L!IdsOK /\ L!SessionOK /\ L!SilencesOK
      /\ call.resync \in BOOLEAN /\ call.goal \in L!Goals /\ left \in Nat
  BY LinkFields DEF L!IInv
<1>1. /\ UNCHANGED <<blocked, misses, up, doc, shown, silences, typed>> /\ reading' = <<>>
      /\ link'.on = TRUE /\ link'.desync = FALSE /\ link'.scoped = FALSE /\ link'.next = 1
      /\ link' \in [on : BOOLEAN, desync : BOOLEAN, scoped : BOOLEAN, next : Nat]
      /\ pipe'.alive = TRUE /\ pipe'.in = <<>> /\ pipe'.out = <<>>
      /\ pipe' \in [alive : BOOLEAN, in : Seq(Asked), out : Seq(Told)]
  BY LinkConstants DEF L!Connects
<1>2. /\ call'.at = "send" /\ call'.goal = call.goal /\ call'.key = call.key /\ call'.id = call.id
      /\ call'.resync = call.resync /\ call.at = "link"
      /\ call' \in [at : {"rest", "link", "send", "wait"}, goal : L!Goals, key : [ends : BOOLEAN, n : Nat],
                    resync : BOOLEAN, id : Nat]
  BY <1>0 DEF L!Connects, L!Send, L!Sane, L!At
<1>3. left' \in Nat /\ left' <= left
  BY <1>0, LinkConstants DEF L!Connects
<1>4. shown = <<>> /\ ~call.resync /\ call.goal \notin {"place", "key"}
  BY <1>0 DEF L!Connects, L!LinkOK, L!CallOK, L!At
<1>5. L!Sane'
  BY <1>0, <1>1, <1>2, <1>3, EmptySeq DEF L!Sane, Asked, Told, LinkKeyType
<1>6. L!LinkOK' /\ L!CallOK' /\ L!SilencesOK'
  BY <1>0, <1>1, <1>2, <1>3, <1>4, LinkConstants DEF L!LinkOK, L!CallOK, L!SilencesOK, L!At
<1>7. L!IdsOK' /\ L!SessionOK'
  BY <1>0, <1>1, <1>2, <1>4 DEF L!IdsOK, L!SessionOK, L!At, L!Standing
<1>8. L!Seen' = L!Seen
  BY <1>1 DEF L!Seen
<1>9. L!KeysOK'
  BY <1>0, <1>1, <1>2, <1>8, KeysStay
<1> QED
  BY <1>5, <1>6, <1>7, <1>8, <1>9 DEF L!IInv

(* The engine, the clock and another input field, while nobody is served.   *)
LEMMA OutsideSteps ==
  ASSUME L!IInv, L!Crash \/ L!Restart \/ L!RetryIntervalPasses \/ L!FieldChanged \/ UNCHANGED L!vars
  PROVE  L!IInv' /\ L!Seen' = L!Seen
<1>0. L!Sane /\ L!KeysOK /\ L!LinkOK /\ L!CallOK /\ L!IdsOK /\ L!SessionOK /\ L!SilencesOK
  BY DEF L!IInv
<1>1. CASE L!Crash
  <2>1. /\ UNCHANGED <<link, blocked, misses, left, call, doc, shown, typed, silences>>
        /\ reading' = <<>> /\ pipe'.alive = FALSE /\ pipe'.in = <<>> /\ pipe'.out = <<>>
        /\ pipe' \in [alive : BOOLEAN, in : Seq(Asked), out : Seq(Told)]
    BY <1>1, LinkConstants DEF L!Crash
  <2>2. L!Sane'
    BY <1>0, <2>1, EmptySeq DEF L!Sane, Asked, Told, LinkKeyType
  <2>3. L!LinkOK' /\ L!CallOK' /\ L!SilencesOK' /\ L!IdsOK' /\ L!SessionOK'
    <3>1. L!LinkOK' /\ L!CallOK' /\ L!SilencesOK'
      BY <1>0, <2>1 DEF L!LinkOK, L!CallOK, L!SilencesOK, L!At
    <3>2. L!IdsOK' /\ L!SessionOK'
      BY <1>0, <2>1 DEF L!IdsOK, L!SessionOK, L!At, L!Standing
    <3> QED
      BY <3>1, <3>2
  <2>4. L!Seen' = L!Seen /\ L!KeysOK'
    BY <1>0, <2>1 DEF L!Seen, L!KeysOK, L!EachKeyOnce, L!At
  <2> QED
    BY <2>2, <2>3, <2>4 DEF L!IInv
<1>2. CASE L!Restart \/ L!RetryIntervalPasses \/ L!FieldChanged \/ UNCHANGED L!vars
  <2>1. /\ UNCHANGED <<misses, left, call, pipe, reading, doc, shown, typed, silences>>
        /\ blocked' \in BOOLEAN
        /\ link' = link \/ (link' = [link EXCEPT !.scoped = FALSE] /\ shown = <<>> /\ call = L!Rest)
    BY <1>0, <1>2 DEF L!Restart, L!RetryIntervalPasses, L!FieldChanged, L!vars, L!Sane
  <2>2. /\ link'.on = link.on /\ link'.desync = link.desync /\ link'.next = link.next
        /\ link' \in [on : BOOLEAN, desync : BOOLEAN, scoped : BOOLEAN, next : Nat]
        /\ link'.scoped = link.scoped \/ shown = <<>>
    BY <1>0, <2>1 DEF L!Sane
  <2>3. L!Sane'
    BY <1>0, <2>1, <2>2 DEF L!Sane
  <2>4. L!LinkOK' /\ L!CallOK' /\ L!SilencesOK'
    BY <1>0, <2>1, <2>2, LinkConstants DEF L!LinkOK, L!CallOK, L!SilencesOK, L!At
  <2>5. L!IdsOK' /\ L!SessionOK'
    <3>1. L!IdsOK'
      BY <1>0, <2>1, <2>2 DEF L!IdsOK, L!At, L!LastIn, L!LastOut
    <3>2. L!SessionOK'
      BY <1>0, <2>1, <2>2 DEF L!SessionOK, L!At, L!Standing, L!Harmless, L!LastIn, L!LastOut
    <3> QED
      BY <3>1, <3>2
  <2>6. L!Seen' = L!Seen /\ L!KeysOK'
    BY <1>0, <2>1 DEF L!Seen, L!KeysOK, L!EachKeyOnce, L!At
  <2> QED
    BY <2>3, <2>4, <2>5, <2>6 DEF L!IInv
<1> QED
  BY <1>1, <1>2

LEMMA SentStep ==
  ASSUME L!IInv, L!Sent
  PROVE  L!IInv' /\ L!Seen' = L!Seen
<1>0. /\ L!Sane /\ L!KeysOK /\ L!LinkOK /\ L!CallOK /\ L!IdsOK /\ L!SessionOK /\ L!SilencesOK
      /\ pipe.in \in Seq(Asked) /\ pipe.out \in Seq(Told) /\ Len(pipe.in) \in Nat /\ link.next \in Nat
      /\ call.key \in LinkKeyType /\ call.goal \in L!Goals /\ pipe.alive \in BOOLEAN
      /\ link.desync \in BOOLEAN /\ call.resync \in BOOLEAN
  BY LinkFields DEF L!IInv
<1> DEFINE r == [id |-> link.next, key |-> call.key,
                 ask |-> IF call.resync THEN "revert" ELSE call.goal]
<1>1. /\ r \in Asked /\ r.id = link.next /\ r.key = call.key
      /\ r.ask = IF call.resync THEN "revert" ELSE call.goal
  BY <1>0 DEF Asked
<1>2. /\ UNCHANGED <<blocked, misses, left, reading, doc, shown, typed, silences>>
      /\ call.at = "send" /\ call'.at = "wait" /\ call'.id = link.next /\ call'.goal = call.goal
      /\ call'.key = call.key /\ call'.resync = call.resync
      /\ call' \in [at : {"rest", "link", "send", "wait"}, goal : L!Goals, key : [ends : BOOLEAN, n : Nat],
                    resync : BOOLEAN, id : Nat]
      /\ link'.on = link.on /\ link'.desync = link.desync /\ link'.scoped = link.scoped
      /\ link'.next = link.next + 1
      /\ link' \in [on : BOOLEAN, desync : BOOLEAN, scoped : BOOLEAN, next : Nat]
      /\ call.resync \/ call.goal # "scope" \/ ~link.scoped
  <2>1. /\ UNCHANGED <<blocked, misses, left, reading, doc, shown, typed, silences>>
        /\ call.at = "send" /\ call' = [call EXCEPT !.at = "wait", !.id = link.next]
        /\ link' = [link EXCEPT !.next = link.next + 1]
        /\ ~(~call.resync /\ call.goal = "scope" /\ link.scoped)
    BY <1>0 DEF L!Sent, L!ToSend, L!At, L!Sane
  <2>2. /\ call'.at = "wait" /\ call'.id = link.next /\ call'.goal = call.goal
        /\ call'.key = call.key /\ call'.resync = call.resync
        /\ call' \in [at : {"rest", "link", "send", "wait"}, goal : L!Goals, key : [ends : BOOLEAN, n : Nat],
                      resync : BOOLEAN, id : Nat]
    BY <1>0, <2>1 DEF L!Sane
  <2>3. /\ link'.on = link.on /\ link'.desync = link.desync /\ link'.scoped = link.scoped
        /\ link'.next = link.next + 1
        /\ link' \in [on : BOOLEAN, desync : BOOLEAN, scoped : BOOLEAN, next : Nat]
    <3>1. link \in [on : BOOLEAN, desync : BOOLEAN, scoped : BOOLEAN, next : Nat]
      BY <1>0 DEF L!Sane
    <3>2. PICK n \in Nat : n = link.next + 1
      BY <1>0
    <3>3. link' = [link EXCEPT !.next = n]
      BY <2>1, <3>2
    <3>4. /\ link'.on = link.on /\ link'.desync = link.desync /\ link'.scoped = link.scoped /\ link'.next = n
          /\ link' \in [on : BOOLEAN, desync : BOOLEAN, scoped : BOOLEAN, next : Nat]
      BY <3>1, <3>3, n \in Nat
    <3> QED
      BY <3>2, <3>4
  <2> QED
    BY <2>1, <2>2, <2>3
<1>3. /\ pipe'.alive = pipe.alive /\ pipe'.out = pipe.out
      /\ pipe' \in [alive : BOOLEAN, in : Seq(Asked), out : Seq(Told)]
      /\ pipe.alive => pipe'.in = Append(pipe.in, r)
      /\ ~pipe.alive => pipe'.in = pipe.in
  <2>1. pipe' = IF pipe.alive THEN [pipe EXCEPT !.in = Append(pipe.in, r)] ELSE pipe
    BY <1>0 DEF L!Sent, L!Sane
  <2>2. Append(pipe.in, r) \in Seq(Asked)
    BY <1>0, <1>1
  <2>3. pipe \in [alive : BOOLEAN, in : Seq(Asked), out : Seq(Told)]
    BY <1>0 DEF L!Sane, Asked, Told, LinkKeyType
  <2> HIDE DEF r
  <2> QED
    BY <2>1, <2>2, <2>3
<1> HIDE DEF r
<1>4. pipe.alive => /\ Len(pipe'.in) = Len(pipe.in) + 1 /\ pipe'.in # <<>>
                    /\ pipe'.in[Len(pipe.in) + 1] = r
                    /\ \A i \in 1..Len(pipe.in) : pipe'.in[i] = pipe.in[i]
                    /\ \A i \in 1..Len(pipe'.in) : i < Len(pipe'.in) => i \in 1..Len(pipe.in)
  BY <1>0, <1>1, <1>3
<1>5. L!Sane'
  BY <1>0, <1>2, <1>3 DEF L!Sane, Asked, Told, LinkKeyType
<1>6. L!LinkOK' /\ L!SilencesOK'
  BY <1>0, <1>2, <1>3 DEF L!LinkOK, L!SilencesOK, L!At
<1>7. L!CallOK'
  BY <1>0, <1>2 DEF L!CallOK, L!LinkOK, L!At
<1>8. L!IdsOK'
  <2>1. CASE pipe.alive
    <3>1. \A i \in 1..Len(pipe.in) : pipe.in[i].id < link.next
      BY <1>0, <1>2 DEF L!IdsOK, L!At
    <3>2. \A i \in 1..Len(pipe'.out) : pipe'.out[i].id < link.next
      BY <1>0, <1>2, <1>3 DEF L!IdsOK, L!At
    <3>3. \A i \in 1..Len(pipe'.in) : i < Len(pipe'.in) => pipe'.in[i].id < link.next
      BY <1>4, <2>1, <3>1
    <3>4. L!LastIn'.id = link.next
      BY <1>1, <1>4, <2>1 DEF L!LastIn
    <3> QED
      BY <1>2, <1>4, <2>1, <3>2, <3>3, <3>4 DEF L!IdsOK, L!At
  <2>2. CASE ~pipe.alive
    BY <1>0, <1>2, <1>3, <2>2 DEF L!IdsOK, L!LinkOK, L!At
  <2> QED
    BY <2>1, <2>2
<1>9. L!SessionOK'
  <2>1. CASE pipe.alive
    <3>1. L!Standing' => L!Standing /\ call.resync = FALSE
      BY <1>0, <1>2, <1>3 DEF L!Standing, L!CallOK, L!At
    <3>2. L!Standing' => /\ reading = shown
                         /\ \A i \in 1..Len(pipe.in) : L!Harmless(pipe.in[i])
      BY <1>0, <1>2, <3>1 DEF L!SessionOK, L!At
    <3>3. L!Standing' => \A i \in 1..Len(pipe'.in) : i < Len(pipe'.in) => L!Harmless(pipe'.in[i])
      BY <1>4, <2>1, <3>2
    <3>4. L!LastIn' = r
      BY <1>3, <1>4, <2>1 DEF L!LastIn
    <3> QED
      BY <1>1, <1>2, <1>4, <2>1, <3>1, <3>2, <3>3, <3>4 DEF L!SessionOK, L!At, L!Harmless
  <2>2. CASE ~pipe.alive
    BY <1>3, <2>2 DEF L!SessionOK, L!Standing
  <2> QED
    BY <2>1, <2>2
<1>10. L!Seen' = L!Seen
  BY <1>2 DEF L!Seen
<1>11. L!KeysOK'
  BY <1>0, <1>2, <1>10, KeysStay
<1> QED
  BY <1>5, <1>6, <1>7, <1>8, <1>9, <1>10, <1>11 DEF L!IInv

(* While a call waits, everything before its own request is older.          *)
LEMMA ServeStep ==
  ASSUME L!IInv, L!Serve
  PROVE  L!IInv' /\ L!Seen' = L!Seen
<1> DEFINE r == Head(pipe.in)
           after == L!After(r)
           reply == [id |-> r.id, from |-> reading, now |-> after]
<1>0. /\ L!Sane /\ L!KeysOK /\ L!LinkOK /\ L!CallOK /\ L!IdsOK /\ L!SessionOK /\ L!SilencesOK
      /\ pipe.in \in Seq(Asked) /\ pipe.out \in Seq(Told) /\ Len(pipe.in) \in Nat /\ Len(pipe.out) \in Nat
      /\ link.next \in Nat /\ reading \in Seq(Nat) /\ pipe.alive /\ pipe.in # <<>>
      /\ call.id \in Nat
  BY LinkFields DEF L!IInv, L!Serve
<1>1. /\ r \in Asked /\ r = pipe.in[1] /\ Tail(pipe.in) \in Seq(Asked) /\ Len(Tail(pipe.in)) = Len(pipe.in) - 1
      /\ \A i \in 1..Len(Tail(pipe.in)) : Tail(pipe.in)[i] = pipe.in[i + 1]
      /\ 1 \in 1..Len(pipe.in)
      /\ Tail(pipe.in) = <<>> <=> Len(pipe.in) = 1
  <2>1. Len(pipe.in) # 0 /\ Len(pipe.in) \in Nat
    BY <1>0, EmptySeq
  <2>2. /\ r \in Asked /\ r = pipe.in[1] /\ Tail(pipe.in) \in Seq(Asked) /\ Len(Tail(pipe.in)) = Len(pipe.in) - 1
        /\ \A i \in 1..Len(Tail(pipe.in)) : Tail(pipe.in)[i] = pipe.in[i + 1]
    BY <1>0, <2>1
  <2>3. Tail(pipe.in) = <<>> <=> Len(Tail(pipe.in)) = 0
    BY <2>2, EmptySeq
  <2> QED
    BY <2>1, <2>2, <2>3
<1>2. /\ UNCHANGED <<link, blocked, misses, left, call, up, doc, shown, typed, silences>>
      /\ reading' = after
      /\ pipe' = [pipe EXCEPT !.in = Tail(pipe.in), !.out = Append(pipe.out, reply)]
  BY <1>0 DEF L!Serve, L!Sane
<1>3. r.id \in Nat /\ r.key.n \in Nat /\ r.ask \in L!Goals \cup {"revert"}
  BY <1>1 DEF Asked, LinkKeyType
<1>4. after \in Seq(Nat) /\ reply \in Told
  <2>1. <<>> \in Seq(Nat) /\ Append(reading, r.key.n) \in Seq(Nat)
    BY <1>0, <1>3
  <2>2. after \in Seq(Nat)
    BY <1>0, <2>1 DEF L!After
  <2> HIDE DEF after
  <2> QED
    BY <1>0, <1>3, <2>2 DEF Told
<1>5. /\ L!Harmless(r) => after = reading
      /\ r.ask \in {"revert", "commit"} => after = <<>>
      /\ r.ask = "key" => after = IF r.key.ends THEN <<>> ELSE Append(reading, r.key.n)
  BY <1>3 DEF L!After, L!Harmless
<1>6. reply.id = r.id /\ reply.from = reading /\ reply.now = after
  OBVIOUS
<1> HIDE DEF after, reply, r
<1>7. /\ pipe'.alive = TRUE /\ pipe'.in = Tail(pipe.in) /\ pipe'.out = Append(pipe.out, reply)
      /\ pipe' \in [alive : BOOLEAN, in : Seq(Asked), out : Seq(Told)]
  <2>1. pipe \in [alive : BOOLEAN, in : Seq(Asked), out : Seq(Told)]
    BY <1>0 DEF L!Sane, Asked, Told, LinkKeyType
  <2>2. Append(pipe.out, reply) \in Seq(Told)
    BY <1>0, <1>4
  <2> QED
    BY <1>0, <1>1, <1>2, <2>1, <2>2
<1>8. /\ Len(pipe'.out) = Len(pipe.out) + 1 /\ pipe'.out[Len(pipe.out) + 1] = reply /\ pipe'.out # <<>>
      /\ \A i \in 1..Len(pipe.out) : pipe'.out[i] = pipe.out[i]
      /\ \A i \in 1..Len(pipe'.out) : i \in 1..Len(pipe.out) \/ i = Len(pipe.out) + 1
  BY <1>0, <1>4, <1>7
<1>9. /\ Len(pipe'.in) = Len(pipe.in) - 1
      /\ \A i \in 1..Len(pipe'.in) : pipe'.in[i] = pipe.in[i + 1] /\ i + 1 \in 1..Len(pipe.in)
      /\ pipe'.in = <<>> <=> Len(pipe.in) = 1
      /\ pipe'.in # <<>> => L!LastIn' = L!LastIn /\ Len(pipe.in) > 1
      /\ pipe'.in = <<>> => L!LastIn = r
      /\ L!LastOut' = reply
  <2>1. /\ Len(pipe'.in) = Len(pipe.in) - 1
        /\ \A i \in 1..Len(pipe'.in) : pipe'.in[i] = pipe.in[i + 1] /\ i + 1 \in 1..Len(pipe.in)
        /\ pipe'.in = <<>> <=> Len(pipe.in) = 1
    BY <1>0, <1>1, <1>7
  <2>2. pipe'.in # <<>> => L!LastIn' = L!LastIn /\ Len(pipe.in) > 1
    <3>1. pipe'.in # <<>> => Len(pipe.in) > 1 /\ Len(pipe'.in) \in 1..Len(pipe'.in) /\ Len(pipe'.in) + 1 = Len(pipe.in)
      BY <1>0, <1>1, <2>1
    <3> QED
      BY <2>1, <3>1 DEF L!LastIn
  <2>3. pipe'.in = <<>> => L!LastIn = r
    BY <1>1, <2>1 DEF L!LastIn
  <2>4. L!LastOut' = reply
    BY <1>8 DEF L!LastOut
  <2> QED
    BY <2>1, <2>2, <2>3, <2>4
<1>10. L!Sane'
  BY <1>0, <1>2, <1>4, <1>7 DEF L!Sane, Asked, Told, LinkKeyType
<1>11. L!LinkOK' /\ L!CallOK' /\ L!SilencesOK'
  BY <1>0, <1>2, <1>7 DEF L!LinkOK, L!CallOK, L!SilencesOK, L!At
<1>12. L!IdsOK'
  <2>1. CASE call.at = "wait"
    <3>1. link'.next = call'.id + 1 /\ call'.at = "wait" /\ call'.id = call.id
      BY <1>0, <1>2, <2>1 DEF L!IdsOK, L!At
    <3>2. \A i \in 1..Len(pipe'.in) : i < Len(pipe'.in) => pipe'.in[i].id < call.id
      <4> SUFFICES ASSUME NEW i \in 1..Len(pipe'.in), i < Len(pipe'.in) PROVE pipe'.in[i].id < call.id
        OBVIOUS
      <4>1. i + 1 \in 1..Len(pipe.in) /\ i + 1 < Len(pipe.in) /\ pipe'.in[i] = pipe.in[i + 1]
        BY <1>0, <1>9
      <4> QED
        BY <1>0, <2>1, <4>1 DEF L!IdsOK, L!At
    <3>3. pipe'.in # <<>> => L!LastIn'.id = call.id
      BY <1>0, <1>9, <2>1 DEF L!IdsOK, L!At
    <3>4. pipe'.in = <<>> => L!LastOut'.id = call.id
      BY <1>0, <1>6, <1>9, <2>1 DEF L!IdsOK, L!At
    <3>5. pipe'.in # <<>> => r.id < call.id
      BY <1>0, <1>1, <1>9, <2>1 DEF L!IdsOK, L!At
    <3>6. \A i \in 1..Len(pipe'.out) : i < Len(pipe'.out) \/ pipe'.in # <<>> => pipe'.out[i].id < call.id
      <4> SUFFICES ASSUME NEW i \in 1..Len(pipe'.out), i < Len(pipe'.out) \/ pipe'.in # <<>>
                   PROVE  pipe'.out[i].id < call.id
        OBVIOUS
      <4>1. CASE i \in 1..Len(pipe.out)
        BY <1>0, <1>8, <2>1, <4>1 DEF L!IdsOK, L!At
      <4>2. CASE i = Len(pipe.out) + 1
        BY <1>6, <1>8, <3>5, <4>2
      <4> QED
        BY <1>8, <4>1, <4>2
    <3> QED
      BY <1>8, <3>1, <3>2, <3>3, <3>4, <3>6 DEF L!IdsOK, L!At
  <2>2. CASE call.at # "wait"
    <3>1. \A i \in 1..Len(pipe'.in) : pipe'.in[i].id < link.next
      BY <1>0, <1>9, <2>2 DEF L!IdsOK, L!At
    <3>2. r.id < link.next
      BY <1>0, <1>1, <2>2 DEF L!IdsOK, L!At
    <3>3. \A i \in 1..Len(pipe'.out) : pipe'.out[i].id < link.next
      BY <1>0, <1>6, <1>8, <2>2, <3>2 DEF L!IdsOK, L!At
    <3> QED
      BY <1>2, <2>2, <3>1, <3>3 DEF L!IdsOK, L!At
  <2> QED
    BY <2>1, <2>2
<1>13. L!SessionOK'
  <2>0. L!Standing' <=> L!Standing
    BY <1>0, <1>2, <1>7 DEF L!Standing
  <2>1. CASE call.at # "wait"
    <3>1. L!Standing => reading' = shown /\ \A i \in 1..Len(pipe'.in) : L!Harmless(pipe'.in[i])
      BY <1>0, <1>1, <1>2, <1>5, <1>9, <2>1 DEF L!SessionOK, L!At
    <3> QED
      BY <1>2, <2>0, <2>1, <3>1 DEF L!SessionOK, L!At, L!Harmless
  <2>2. CASE call.at = "wait" /\ pipe'.in # <<>>
    <3>1. L!Standing => L!Harmless(r) /\ reading = shown /\ L!LastIn.ask = call.goal /\ L!LastIn.key = call.key
      BY <1>0, <1>1, <1>9, <2>2 DEF L!SessionOK, L!At
    <3>2. L!Standing => \A i \in 1..Len(pipe'.in) : i < Len(pipe'.in) => L!Harmless(pipe'.in[i])
      BY <1>0, <1>9, <2>2 DEF L!SessionOK, L!At
    <3>3. call.resync => L!LastIn.ask = "revert"
      BY <1>0, <2>2 DEF L!SessionOK, L!At
    <3> QED
      BY <1>2, <1>5, <1>9, <2>0, <2>2, <3>1, <3>2, <3>3 DEF L!SessionOK, L!At, L!Harmless
  <2>3. CASE call.at = "wait" /\ pipe'.in = <<>>
    <3>1. L!Standing => reading = shown /\ r.ask = call.goal /\ r.key = call.key
      BY <1>0, <1>9, <2>3 DEF L!SessionOK, L!At
    <3>2. call.resync => r.ask = "revert"
      BY <1>0, <1>9, <2>3 DEF L!SessionOK, L!At
    <3>3. /\ L!Standing /\ call.goal \notin {"key", "commit"} => after = shown
          /\ L!Standing /\ call.goal = "commit" => after = <<>>
          /\ L!Standing /\ call.goal = "key" =>
               /\ reply.from = shown /\ reply.now = after
               /\ after = IF call.key.ends THEN <<>> ELSE Append(shown, call.key.n)
          /\ call.resync => after = <<>>
      <4>1. call.goal # "revert"
        BY <1>0, LinkFields DEF L!Goals
      <4> QED
        BY <1>5, <1>6, <3>1, <3>2, <4>1 DEF L!Harmless
    <3> QED
      BY <1>2, <1>9, <2>0, <2>3, <3>3 DEF L!SessionOK, L!At
  <2> QED
    BY <2>1, <2>2, <2>3
<1>14. L!Seen' = L!Seen
  BY <1>2 DEF L!Seen
<1>15. L!KeysOK'
  BY <1>0, <1>2, <1>14, KeysStay
<1> QED
  BY <1>10, <1>11, <1>12, <1>13, <1>14, <1>15 DEF L!IInv

(* A request other than a key is given up: the link keeps its pipe.         *)
LEMMA GivenUpStep ==
  ASSUME L!IInv, L!TimedOut, ~call.resync, call.goal # "key"
  PROVE  L!IInv' /\ L!Seen' = L!Seen
<1>0. /\ L!Sane /\ L!KeysOK /\ L!LinkOK /\ L!CallOK /\ L!IdsOK /\ L!SessionOK /\ L!SilencesOK
      /\ link.next \in Nat /\ call.id \in Nat /\ link.desync \in BOOLEAN /\ call.at = "wait"
      /\ shown \in Seq(Nat) /\ doc \in Seq(Nat) /\ L!Seen \in Seq(Nat) /\ call.goal \in L!Goals
      /\ misses \in {0, 1, 2} /\ left \in Nat /\ silences \in Nat
      /\ Len(pipe.in) \in Nat /\ Len(pipe.out) \in Nat
  BY LinkFields DEF L!IInv, L!TimedOut, L!At
<1> DEFINE desync == link.desync \/ L!Uncertain(call.goal)
<1>1. /\ link' = [link EXCEPT !.desync = desync]
      /\ UNCHANGED <<blocked, pipe, reading, up, typed>> /\ call' = L!Rest /\ left' = 0
      /\ IF call.goal = "commit" THEN L!Finalize ELSE L!Untouched
  BY <1>0 DEF L!TimedOut, L!Sane
<1>2. desync \in BOOLEAN /\ (desync = FALSE => link.desync = FALSE /\ call.goal \in {"probe", "place"})
      /\ (link.desync => desync)
  BY <1>0 DEF L!Uncertain, L!Goals
<1> HIDE DEF desync
<1>3. /\ link'.on = link.on /\ link'.desync = desync /\ link'.scoped = link.scoped /\ link'.next = link.next
      /\ link' \in [on : BOOLEAN, desync : BOOLEAN, scoped : BOOLEAN, next : Nat]
  BY <1>0, <1>1, <1>2 DEF L!Sane
<1>4. LinkCounters
  BY <1>0, <1>1, LinkConstants DEF L!TimedOut, L!Missed, L!SilencesOK, L!At, LinkCounters, L!Sane
<1>5. /\ L!Seen' = L!Seen /\ shown' \in Seq(Nat) /\ doc' \in Seq(Nat)
      /\ shown' = shown \/ shown' = <<>>
      /\ desync = FALSE => shown' = shown
      /\ desync = TRUE => shown' = <<>>
  <2>1. CASE call.goal = "commit"
    <3>1. desync = TRUE
      BY <1>2, <2>1
    <3>2. shown' = <<>> /\ doc' = L!Seen
      BY <1>1, <2>1 DEF L!Finalize, L!Seen
    <3>3. L!Seen' = L!Seen \o <<>>
      BY <3>2 DEF L!Seen
    <3> QED
      BY <1>0, <3>1, <3>2, <3>3, ConcatEmptySeq, EmptySeq
  <2>2. CASE call.goal # "commit"
    <3>1. shown' = shown /\ doc' = doc
      BY <1>1, <2>2 DEF L!Untouched
    <3>2. desync = TRUE => shown = <<>>
      BY <1>0, <2>2 DEF desync, L!Uncertain, L!LinkOK, L!CallOK, L!At
    <3> QED
      BY <1>0, <3>1, <3>2 DEF L!Seen
  <2> QED
    BY <2>1, <2>2
<1>6. L!Sane'
  <2>1. misses' \in 0..2
    BY <1>4 DEF LinkCounters
  <2> QED
    BY <1>0, <1>1, <1>3, <1>4, <1>5, <2>1, LinkConstants DEF L!Sane, LinkCounters, LinkKeyType
<1>7. L!LinkOK' /\ L!CallOK'
  BY <1>0, <1>1, <1>2, <1>3, <1>5, LinkConstants DEF L!LinkOK, L!CallOK, L!At
<1>8. L!IdsOK'
  <2>1. link.next = call.id + 1
    BY <1>0 DEF L!IdsOK, L!At
  <2>2. \A i \in 1..Len(pipe.in) : pipe.in[i].id < link.next
    <3>1. \A i \in 1..Len(pipe.in) : i < Len(pipe.in) \/ (i = Len(pipe.in) /\ pipe.in # <<>>)
      BY <1>0, LinkFields, EmptySeq
    <3>2. \A i \in 1..Len(pipe.in) : pipe.in[i].id \in Nat
      BY <1>0, PipeIds
    <3> QED
      BY <1>0, <2>1, <3>1, <3>2 DEF L!IdsOK, L!At, L!LastIn
  <2>3. \A i \in 1..Len(pipe.out) : pipe.out[i].id < link.next
    <3>1. \A i \in 1..Len(pipe.out) : i < Len(pipe.out) \/ i = Len(pipe.out)
      BY <1>0
    <3>2. \A i \in 1..Len(pipe.out) : pipe.out[i].id \in Nat
      BY <1>0, PipeIds
    <3>3. Len(pipe.out) > 0 => pipe.alive
      BY <1>0, LinkFields, EmptySeq DEF L!LinkOK
    <3> QED
      BY <1>0, <2>1, <3>1, <3>2, <3>3 DEF L!IdsOK, L!At, L!LastOut
  <2> QED
    BY <1>1, <1>3, <2>2, <2>3, LinkConstants DEF L!IdsOK, L!At
<1>9. L!SessionOK'
  <2>1. call'.at = "rest" /\ (L!Standing' <=> pipe.alive /\ desync = FALSE)
    BY <1>1, <1>2, <1>3, LinkConstants DEF L!Standing
  <2>2. ASSUME pipe.alive, desync = FALSE
        PROVE  reading' = shown' /\ \A i \in 1..Len(pipe.in) : L!Harmless(pipe.in[i])
    <3>1. L!Standing /\ call.goal \in {"probe", "place"} /\ shown' = shown
      BY <1>2, <1>5, <2>2 DEF L!Standing
    <3>2. reading = shown
      BY <1>0, <3>1 DEF L!SessionOK, L!At
    <3>3. ASSUME NEW i \in 1..Len(pipe.in) PROVE L!Harmless(pipe.in[i])
      <4>1. pipe.in # <<>>
        BY <1>0, LinkFields, EmptySeq
      <4>2. i < Len(pipe.in) \/ i = Len(pipe.in)
        BY <1>0
      <4> QED
        BY <1>0, <3>1, <4>1, <4>2 DEF L!SessionOK, L!At, L!Harmless, L!LastIn
    <3> QED
      BY <1>1, <3>1, <3>2, <3>3
  <2> QED
    BY <1>1, <2>1, <2>2 DEF L!SessionOK, L!At, L!Harmless
<1>10. L!KeysOK'
  BY <1>0, <1>1, <1>5, KeysStay, LinkConstants
<1> QED
  BY <1>1, <1>4, <1>5, <1>6, <1>7, <1>8, <1>9, <1>10, SilencesRest DEF L!IInv

LEMMA DiscardStep ==
  ASSUME L!IInv, L!Discard
  PROVE  L!IInv' /\ L!Seen' = L!Seen
<1> DEFINE out == Tail(pipe.out)
<1>0. /\ L!Sane /\ L!KeysOK /\ L!LinkOK /\ L!CallOK /\ L!IdsOK /\ L!SessionOK /\ L!SilencesOK
      /\ pipe.in \in Seq(Asked) /\ pipe.out \in Seq(Told) /\ Len(pipe.in) \in Nat /\ Len(pipe.out) \in Nat
      /\ call.at = "wait" /\ pipe.out # <<>> /\ Head(pipe.out).id # call.id
  BY LinkFields DEF L!IInv, L!Discard, L!At, L!AnswersCall
<1>1. /\ out \in Seq(Told) /\ Len(out) = Len(pipe.out) - 1 /\ Len(out) \in Nat /\ Head(pipe.out) = pipe.out[1]
      /\ \A i \in 1..Len(out) : out[i] = pipe.out[i + 1] /\ i + 1 \in 1..Len(pipe.out)
      /\ out = <<>> <=> Len(pipe.out) = 1
  <2>1. Len(pipe.out) # 0
    BY <1>0, EmptySeq
  <2>2. /\ out \in Seq(Told) /\ Len(out) = Len(pipe.out) - 1 /\ Head(pipe.out) = pipe.out[1]
        /\ \A i \in 1..Len(out) : out[i] = pipe.out[i + 1]
    BY <1>0, <2>1
  <2>3. out = <<>> <=> Len(out) = 0
    BY <2>2, EmptySeq
  <2> QED
    BY <1>0, <2>1, <2>2, <2>3
<1>2. /\ UNCHANGED <<link, blocked, misses, left, call, reading, up, doc, shown, typed, silences>>
      /\ pipe' = [pipe EXCEPT !.out = out]
  BY <1>0 DEF L!Discard, L!Sane
<1> HIDE DEF out
<1>3. /\ pipe'.alive = pipe.alive /\ pipe'.in = pipe.in /\ pipe'.out = out
      /\ pipe' \in [alive : BOOLEAN, in : Seq(Asked), out : Seq(Told)]
  <2>1. pipe \in [alive : BOOLEAN, in : Seq(Asked), out : Seq(Told)]
    BY <1>0 DEF L!Sane, Asked, Told, LinkKeyType
  <2> QED
    BY <1>1, <1>2, <2>1
<1>4. pipe.alive /\ pipe.in = <<>> => Len(pipe.out) > 1 /\ L!LastOut' = L!LastOut /\ out # <<>>
  <2>1. pipe.alive /\ pipe.in = <<>> => L!LastOut.id = call.id
    BY <1>0 DEF L!IdsOK, L!At
  <2>2. pipe.alive /\ pipe.in = <<>> => Len(pipe.out) # 1
    BY <1>0, <1>1, <2>1 DEF L!LastOut
  <2>3. Len(pipe.out) > 1 => Len(out) \in 1..Len(out) /\ Len(out) + 1 = Len(pipe.out)
    BY <1>0, <1>1
  <2>4. Len(pipe.out) > 1 => L!LastOut' = L!LastOut
    BY <1>1, <1>3, <2>3 DEF L!LastOut
  <2>5. Len(pipe.out) > 0
    BY <1>0, EmptySeq
  <2> QED
    BY <1>0, <1>1, <2>2, <2>4, <2>5
<1>5. L!Sane' /\ L!LinkOK' /\ L!CallOK' /\ L!SilencesOK'
  <2>1. L!Sane'
    BY <1>0, <1>2, <1>3 DEF L!Sane, Asked, Told, LinkKeyType
  <2>2. L!LinkOK'
    <3>1. pipe.alive
      BY <1>0, EmptySeq DEF L!LinkOK
    <3> QED
      BY <1>0, <1>2, <1>3, <3>1 DEF L!LinkOK
  <2>3. L!CallOK' /\ L!SilencesOK'
    BY <1>0, <1>2 DEF L!CallOK, L!SilencesOK, L!At
  <2> QED
    BY <2>1, <2>2, <2>3
<1>6. L!IdsOK'
  <2>1. \A i \in 1..Len(out) : i < Len(out) \/ pipe.in # <<>> => out[i].id < call.id
    <3> SUFFICES ASSUME NEW i \in 1..Len(out), i < Len(out) \/ pipe.in # <<>> PROVE out[i].id < call.id
      OBVIOUS
    <3>1. i + 1 \in 1..Len(pipe.out) /\ out[i] = pipe.out[i + 1] /\ (i + 1 < Len(pipe.out) \/ pipe.in # <<>>)
      BY <1>0, <1>1
    <3> QED
      BY <1>0, <3>1 DEF L!IdsOK, L!At
  <2> QED
    BY <1>0, <1>2, <1>3, <1>4, <2>1 DEF L!IdsOK, L!At, L!LastIn
<1>7. L!SessionOK'
  <2>1. (L!Standing' <=> L!Standing) /\ L!LastIn' = L!LastIn
    BY <1>2, <1>3 DEF L!Standing, L!LastIn
  <2>2. L!Standing => pipe.alive
    BY DEF L!Standing
  <2> QED
    BY <1>0, <1>2, <1>3, <1>4, <2>1, <2>2 DEF L!SessionOK, L!At, L!Harmless
<1>8. L!Seen' = L!Seen
  BY <1>2 DEF L!Seen
<1>9. L!KeysOK'
  BY <1>0, <1>2, <1>8, KeysStay
<1> QED
  BY <1>5, <1>6, <1>7, <1>8, <1>9 DEF L!IInv

(* An answer is the last thing in the pipe, and tells what is shown.        *)
LEMMA TheAnswer ==
  ASSUME L!IInv, NEW spent \in 0..left, L!Answered(spent)
  PROVE  /\ pipe.alive /\ pipe.in = <<>> /\ Len(pipe.out) = 1 /\ Head(pipe.out) = L!LastOut
         /\ pipe'.alive = TRUE /\ pipe'.in = <<>> /\ pipe'.out = <<>>
         /\ pipe' \in [alive : BOOLEAN, in : Seq(Asked), out : Seq(Told)]
         /\ call.at = "wait" /\ reading' = reading /\ typed' = typed /\ Head(pipe.out) \in Told
         /\ misses' \in {0, 1, 2} /\ left' \in Nat /\ silences' \in Nat /\ blocked' \in BOOLEAN
         /\ silences' <= misses' /\ left' <= left
         /\ ((misses' = 0 /\ silences' = 0) \/ (misses' = misses /\ silences' = silences))
<1>00. L!Sane /\ L!LinkOK /\ L!IdsOK /\ L!SilencesOK
  BY DEF L!IInv
<1>01. /\ pipe.in \in Seq(Asked) /\ pipe.out \in Seq(Told) /\ Len(pipe.in) \in Nat /\ Len(pipe.out) \in Nat
       /\ call.id \in Nat /\ misses \in {0, 1, 2} /\ left \in Nat /\ silences \in Nat
  BY <1>00, LinkFields
<1>02. silences <= misses /\ blocked \in BOOLEAN
  BY <1>00 DEF L!SilencesOK, L!Sane
<1>03. call.at = "wait" /\ pipe.out # <<>> /\ Head(pipe.out).id = call.id
  BY DEF L!Answered, L!At, L!AnswersCall
<1>0. /\ L!Sane /\ L!LinkOK /\ L!IdsOK /\ L!SilencesOK
      /\ pipe.in \in Seq(Asked) /\ pipe.out \in Seq(Told) /\ Len(pipe.in) \in Nat /\ Len(pipe.out) \in Nat
      /\ call.at = "wait" /\ pipe.out # <<>> /\ Head(pipe.out).id = call.id /\ call.id \in Nat
      /\ misses \in {0, 1, 2} /\ left \in Nat /\ silences \in Nat /\ silences <= misses /\ blocked \in BOOLEAN
  BY <1>00, <1>01, <1>02, <1>03
<1>1. /\ Len(pipe.out) > 0 /\ Head(pipe.out) = pipe.out[1] /\ Tail(pipe.out) \in Seq(Told)
      /\ Len(Tail(pipe.out)) = Len(pipe.out) - 1 /\ Head(pipe.out) \in Told
  <2>1. Len(pipe.out) # 0
    BY <1>0, EmptySeq
  <2> QED
    BY <1>0, <2>1
<1>2. pipe.alive
  BY <1>0 DEF L!LinkOK
<1>3. pipe.in = <<>> /\ Len(pipe.out) = 1
  <2>1. ~(call.id < call.id)
    BY <1>0
  <2>2. 1 \in 1..Len(pipe.out)
    BY <1>0, <1>1
  <2>3. ~(1 < Len(pipe.out)) /\ pipe.in = <<>>
    BY <1>0, <1>1, <2>1, <2>2 DEF L!IdsOK, L!At
  <2>4. ASSUME NEW n \in Nat, n > 0, ~(1 < n) PROVE n = 1
    BY <2>4
  <2> QED
    BY <1>01, <1>1, <2>3, <2>4
<1>4. Tail(pipe.out) = <<>>
  <2>1. Len(Tail(pipe.out)) = 0
    BY <1>1, <1>3
  <2> QED
    BY <1>1, <2>1, EmptySeq
<1>5. pipe' = [pipe EXCEPT !.out = Tail(pipe.out)]
  BY <1>0 DEF L!Answered, L!Sane
<1>6. /\ pipe'.alive = TRUE /\ pipe'.in = <<>> /\ pipe'.out = <<>>
      /\ pipe' \in [alive : BOOLEAN, in : Seq(Asked), out : Seq(Told)]
  <2>1. pipe \in [alive : BOOLEAN, in : Seq(Asked), out : Seq(Told)]
    BY <1>0 DEF L!Sane, Asked, Told, LinkKeyType
  <2>2. Tail(pipe.out) \in Seq(Told)
    BY <1>1
  <2> QED
    BY <1>2, <1>3, <1>4, <1>5, <2>1, <2>2
<1>7. /\ left' \in Nat /\ left' <= left
      /\ misses' \in {0, 1, 2} /\ silences' \in Nat /\ silences' <= misses'
      /\ ((misses' = 0 /\ silences' = 0) \/ (misses' = misses /\ silences' = silences))
  BY <1>0 DEF L!Answered
<1>8. blocked' = blocked /\ reading' = reading /\ typed' = typed
  BY DEF L!Answered
<1>9. Head(pipe.out) = L!LastOut
  BY <1>1, <1>3 DEF L!LastOut
<1> QED
  BY <1>0, <1>1, <1>2, <1>3, <1>6, <1>7, <1>8, <1>9

(* What an answer leaves: a call that is over or moves on, and a session    *)
(* that composes what is shown, if the link is in good standing.            *)
Fits(at, goal) ==
  /\ link' \in [on : BOOLEAN, desync : BOOLEAN, scoped : BOOLEAN, next : Nat] /\ link'.on = TRUE
  /\ call' \in [at : {"rest", "link", "send", "wait"}, goal : L!Goals, key : LinkKeyType,
                resync : BOOLEAN, id : Nat]
  /\ shown' \in Seq(Nat) /\ doc' \in Seq(Nat)
  /\ link'.desync = FALSE => reading = shown'
  /\ shown' # <<>> => link'.scoped /\ link'.desync = FALSE
  /\ call'.at = at /\ call'.goal = goal /\ call'.resync = FALSE

LEMMA AnswerLeaves ==
  ASSUME L!IInv, NEW spent \in 0..left, L!Answered(spent),
         NEW at \in {"rest", "link", "send"}, NEW goal, Fits(at, goal), L!CallOK'
  PROVE  L!Sane' /\ L!LinkOK' /\ L!IdsOK' /\ L!SessionOK' /\ L!SilencesOK'
<1>1. /\ pipe'.alive = TRUE /\ pipe'.in = <<>> /\ pipe'.out = <<>>
      /\ pipe' \in [alive : BOOLEAN, in : Seq(Asked), out : Seq(Told)]
      /\ call.at = "wait" /\ reading' = reading /\ typed' = typed
      /\ misses' \in {0, 1, 2} /\ left' \in Nat /\ silences' \in Nat /\ blocked' \in BOOLEAN
      /\ silences' <= misses' /\ left' <= left
      /\ ((misses' = 0 /\ silences' = 0) \/ (misses' = misses /\ silences' = silences))
  BY TheAnswer
<1>2. /\ L!SilencesOK /\ reading \in Seq(Nat) /\ typed \in Nat /\ misses \in {0, 1, 2} /\ left \in Nat
  BY LinkFields DEF L!IInv
<1>3. L!Sane'
  <2>1. misses' \in 0..2
    BY <1>1
  <2> QED
    BY <1>1, <1>2, <2>1, LinkConstants DEF L!Sane, Fits, Asked, Told, LinkKeyType
<1>4. L!LinkOK'
  BY <1>1 DEF L!LinkOK, Fits
<1>5. Len(pipe'.in) = 0 /\ Len(pipe'.out) = 0
  BY <1>1
<1>6. L!IdsOK' /\ L!SessionOK'
  BY <1>1, <1>5 DEF L!IdsOK, L!SessionOK, Fits, L!At, L!Standing
<1>7. L!SilencesOK'
  BY <1>1, <1>2, LinkConstants DEF L!SilencesOK, Fits, L!At
<1> QED
  BY <1>3, <1>4, <1>6, <1>7

LEMMA AnsweredStep ==
  ASSUME L!IInv, NEW spent \in 0..left, L!Answered(spent)
  PROVE  L!IInv' /\ (L!Seen' = L!Seen \/ L!Seen' = Append(L!Seen, call.key.n))
<1> DEFINE r == Head(pipe.out)
<1>0. /\ L!Sane /\ L!KeysOK /\ L!LinkOK /\ L!CallOK /\ L!IdsOK /\ L!SessionOK /\ L!SilencesOK
      /\ call.goal \in L!Goals /\ call.key \in LinkKeyType /\ call.resync \in BOOLEAN /\ call.id \in Nat
      /\ link.on \in BOOLEAN /\ link.desync \in BOOLEAN /\ link.scoped \in BOOLEAN /\ link.next \in Nat
      /\ shown \in Seq(Nat) /\ doc \in Seq(Nat) /\ L!Seen \in Seq(Nat) /\ reading \in Seq(Nat)
      /\ typed \in Nat
  BY LinkFields DEF L!IInv
<1>1. /\ pipe.alive /\ pipe.in = <<>> /\ r = L!LastOut /\ call.at = "wait" /\ reading' = reading
      /\ typed' = typed /\ r \in Told
  BY TheAnswer
<1>2. L!Takes(r)
  BY DEF L!Answered
<1>3. /\ link.on /\ (call.resync <=> link.desync /\ call.goal # "place")
      /\ call.goal = "key" => link.scoped
      /\ call.goal = "scope" => shown = <<>>
      /\ call.goal = "start" => shown = <<>>
      /\ link.desync => shown = <<>>
      /\ shown # <<>> => link.scoped
  BY <1>0, <1>1 DEF L!CallOK, L!LinkOK, L!At
<1>4. /\ ~link.desync /\ call.goal \notin {"key", "commit"} => reading = shown
      /\ ~link.desync /\ call.goal = "commit" => reading = <<>>
      /\ ~link.desync /\ call.goal = "key" =>
           /\ r.from = shown /\ r.now = reading
           /\ reading = IF call.key.ends THEN <<>> ELSE Append(shown, call.key.n)
      /\ call.resync => reading = <<>>
  BY <1>0, <1>1 DEF L!SessionOK, L!At, L!Standing
<1> HIDE DEF r
<1>5. CASE call.resync
  <2>1. /\ link' = [link EXCEPT !.desync = FALSE] /\ call' = [call EXCEPT !.at = "send", !.resync = FALSE]
        /\ shown' = shown /\ doc' = doc
    BY <1>0, <1>2, <1>5 DEF L!Takes, L!Send, L!Untouched, L!Sane
  <2>2. /\ Fits("send", call.goal) /\ call'.key = call.key
    BY <1>0, <1>3, <1>4, <1>5, <2>1 DEF Fits, L!Sane, LinkKeyType
  <2>3. L!CallOK'
    <3>1. link'.desync = FALSE /\ link'.scoped = link.scoped
      BY <1>0, <2>1 DEF L!Sane
    <3>2. shown = <<>>
      BY <1>3, <1>5
    <3> QED
      BY <1>3, <2>1, <2>2, <3>1, <3>2 DEF L!CallOK, L!At, Fits
  <2>4. L!Seen' = L!Seen
    BY <2>1 DEF L!Seen
  <2>5. L!KeysOK'
    BY <1>0, <1>1, <2>2, <2>4, KeysStay DEF Fits
  <2> QED
    BY <2>2, <2>3, <2>4, <2>5, AnswerLeaves DEF L!IInv
<1>6. CASE ~call.resync /\ call.goal = "scope"
  <2>1. /\ link' = [link EXCEPT !.scoped = TRUE] /\ call' = [call EXCEPT !.at = "link", !.goal = "key"]
        /\ shown' = shown /\ doc' = doc
    BY <1>0, <1>2, <1>6 DEF L!Takes, L!Untouched, L!Sane
  <2>2. link'.desync = FALSE /\ link'.scoped = TRUE /\ link'.on = TRUE
    BY <1>0, <1>3, <1>6, <2>1 DEF L!Sane
  <2>3. Fits("link", "key") /\ call'.key = call.key
    BY <1>0, <1>3, <1>4, <1>6, <2>1, <2>2 DEF Fits, L!Sane, LinkKeyType, L!Goals
  <2>4. L!CallOK'
    BY <2>1, <2>2, <2>3 DEF L!CallOK, L!At, Fits
  <2>5. L!Seen' = L!Seen
    BY <2>1 DEF L!Seen
  <2>6. L!KeysOK'
    BY <1>0, <1>1, <1>6, <2>3, <2>5, KeysStay
  <2> QED
    BY <2>3, <2>4, <2>5, <2>6, AnswerLeaves DEF L!IInv
<1>7. CASE ~call.resync /\ call.goal # "scope"
  <2>1. link' = link /\ call' = L!Rest
    BY <1>0, <1>2, <1>7 DEF L!Takes
  <2>2. L!CallOK'
    BY <2>1, LinkConstants DEF L!CallOK, L!At
  <2>3. link \in [on : BOOLEAN, desync : BOOLEAN, scoped : BOOLEAN, next : Nat]
    BY <1>0 DEF L!Sane
  <2>4. CASE call.goal = "key"
    <3>1. reading = r.now /\ r.from = shown /\ link.desync = FALSE
      BY <1>0, <1>3, <1>4, <1>7, <2>4
    <3>2. shown' = reading /\ doc' = (IF call.key.ends THEN L!Seen ELSE doc)
      BY <1>2, <1>7, <2>4, <3>1 DEF L!Takes, L!Seen
    <3>3. Fits("rest", "place")
      BY <1>0, <1>3, <2>1, <2>3, <2>4, <3>1, <3>2, LinkConstants DEF Fits
    <3>4. L!Seen' = IF call.key.ends THEN L!Seen ELSE Append(L!Seen, call.key.n)
      <4>1. CASE call.key.ends
        <5>1. L!Seen' = L!Seen \o <<>>
          BY <1>4, <2>4, <3>1, <3>2, <4>1 DEF L!Seen
        <5> QED
          BY <1>0, <4>1, <5>1, ConcatEmptySeq
      <4>2. CASE ~call.key.ends
        <5>1. L!Seen' = doc \o Append(shown, call.key.n)
          BY <1>4, <2>4, <3>1, <3>2, <4>2 DEF L!Seen
        <5>2. call.key.n \in Nat
          BY <1>0 DEF LinkKeyType
        <5>3. doc \o Append(shown, call.key.n) = Append(doc \o shown, call.key.n)
          BY <1>0, <5>2, AppendLast
        <5> QED
          BY <4>2, <5>1, <5>3 DEF L!Seen
      <4> QED
        BY <4>1, <4>2
    <3>5. L!KeysOK'
      <4>1. CASE L!Seen' = L!Seen
        BY <1>0, <1>1, <2>1, <4>1, KeysStay, LinkConstants
      <4>2. CASE L!Seen' = Append(L!Seen, call.key.n)
        <5>1. call.key.n = typed /\ \A i \in 1..Len(L!Seen) : L!Seen[i] < typed
          BY <1>0, <1>1, <2>4 DEF L!KeysOK, L!At
        <5>2. /\ Len(L!Seen') = Len(L!Seen) + 1 /\ L!Seen'[Len(L!Seen) + 1] = typed
              /\ \A i \in 1..Len(L!Seen) : L!Seen'[i] = L!Seen[i]
              /\ DOMAIN L!Seen = 1..Len(L!Seen)
              /\ DOMAIN (L!Seen') = 1..(Len(L!Seen) + 1)
              /\ Len(L!Seen) \in Nat
          BY <1>0, <4>2, <5>1
        <5>3. \A i, k \in 1..Len(L!Seen) : i < k => L!Seen[i] < L!Seen[k]
          BY <1>0, <5>2 DEF L!KeysOK, L!EachKeyOnce
        <5>4. ASSUME NEW i \in 1..(Len(L!Seen) + 1), NEW k \in 1..(Len(L!Seen) + 1), i < k
              PROVE  L!Seen'[i] < L!Seen'[k]
          <6>1. i \in 1..Len(L!Seen) /\ (k \in 1..Len(L!Seen) \/ k = Len(L!Seen) + 1)
            BY <5>2, <5>4
          <6> QED
            BY <5>1, <5>2, <5>3, <5>4, <6>1
        <5>5. L!EachKeyOnce'
          BY <5>2, <5>4 DEF L!EachKeyOnce
        <5>6. \A i \in 1..Len(L!Seen') : L!Seen'[i] <= typed'
          <6>1. \A i \in 1..Len(L!Seen') : i \in 1..Len(L!Seen) \/ i = Len(L!Seen) + 1
            BY <5>2
          <6>2. \A i \in 1..Len(L!Seen) : L!Seen[i] <= typed
            BY <1>0 DEF L!KeysOK
          <6> QED
            <7> SUFFICES ASSUME NEW i \in 1..Len(L!Seen') PROVE L!Seen'[i] <= typed'
              OBVIOUS
            <7>1. CASE i \in 1..Len(L!Seen)
              BY <1>1, <5>2, <6>2, <7>1
            <7>2. CASE i = Len(L!Seen) + 1
              <8>1. L!Seen'[i] = typed /\ typed' = typed
                BY <1>1, <5>2, <7>2
              <8> QED
                BY <1>0, <8>1
            <7> QED
              BY <6>1, <7>1, <7>2
        <5> QED
          BY <2>1, <5>5, <5>6, LinkConstants DEF L!KeysOK, L!At
      <4> QED
        BY <3>4, <4>1, <4>2
    <3> QED
      BY <2>2, <3>3, <3>4, <3>5, AnswerLeaves DEF L!IInv
  <2>5. CASE call.goal # "key"
    <3>1. IF call.goal = "commit" THEN L!Finalize ELSE L!Untouched
      BY <1>2, <1>7, <2>5 DEF L!Takes
    <3>2. /\ L!Seen' = L!Seen /\ shown' \in Seq(Nat) /\ doc' \in Seq(Nat)
          /\ call.goal = "commit" => shown' = <<>>
          /\ call.goal # "commit" => shown' = shown
      <4>1. CASE call.goal = "commit"
        <5>1. L!Seen' = L!Seen \o <<>> /\ shown' = <<>> /\ doc' = L!Seen
          BY <3>1, <4>1 DEF L!Finalize, L!Seen
        <5> QED
          BY <1>0, <4>1, <5>1, ConcatEmptySeq, EmptySeq
      <4>2. CASE call.goal # "commit"
        BY <1>0, <3>1, <4>2 DEF L!Untouched, L!Seen
      <4> QED
        BY <4>1, <4>2
    <3>3. Fits("rest", "place")
      BY <1>0, <1>3, <1>4, <1>7, <2>1, <2>3, <2>5, <3>2, LinkConstants DEF Fits
    <3>4. L!KeysOK'
      BY <1>0, <1>1, <2>1, <3>2, KeysStay, LinkConstants
    <3> QED
      BY <2>2, <3>2, <3>3, <3>4, AnswerLeaves DEF L!IInv
  <2> QED
    BY <2>4, <2>5
<1> QED
  BY <1>5, <1>6, <1>7

LEMMA LinkNext ==
  ASSUME L!IInv, Orphans = FALSE, Patient \in Nat, [L!Next]_L!vars
  PROVE  /\ L!IInv'
         /\ L!Seen' = L!Seen \/ \E n \in Nat : L!Seen' = Append(L!Seen, n)
<1>0. call.key.n \in Nat /\ left \in Nat
  BY LinkFields DEF L!IInv, LinkKeyType
<1>1. CASE Enters
  BY <1>1, EnterSteps
<1>2. CASE L!LinkUsable \/ L!ScopeKnown
  BY <1>2, CallMoves
<1>3. CASE \E spent \in 0..L!Design : L!Connects(spent)
  BY <1>3, ConnectsStep
<1>4. CASE L!Crash \/ L!Restart \/ L!RetryIntervalPasses \/ L!FieldChanged \/ UNCHANGED L!vars
  BY <1>4, OutsideSteps
<1>5. CASE \/ L!LinkExpired \/ L!LinkBlocked \/ L!NotSent \/ L!Breaks
           \/ \E spent \in 0..L!Design : L!ConnectFails(spent)
           \/ L!TimedOut /\ (call.resync \/ call.goal = "key")
  BY <1>5, GivesUp, GoneKeeps, KeptKeeps
<1>6. CASE L!TimedOut /\ ~(call.resync \/ call.goal = "key")
  BY <1>6, GivenUpStep
<1>7. CASE L!Sent
  BY <1>7, SentStep
<1>8. CASE L!Serve
  BY <1>8, ServeStep
<1>9. CASE L!Discard
  BY <1>9, DiscardStep
<1>10. CASE \E spent \in 0..left : L!Answered(spent)
  BY <1>0, <1>10, AnsweredStep
<1> QED
  BY <1>1, <1>2, <1>3, <1>4, <1>5, <1>6, <1>7, <1>8, <1>9, <1>10 DEF L!Next, Enters

LEMMA LinkShown ==
  L!IInv => L!EachKeyOnce /\ L!ComposesWhatIsShown /\ L!AtMostTwoLongSilences
<1> SUFFICES ASSUME L!IInv PROVE L!EachKeyOnce /\ L!ComposesWhatIsShown /\ L!AtMostTwoLongSilences
  OBVIOUS
<1>1. L!EachKeyOnce
  BY DEF L!IInv, L!KeysOK
<1>2. L!ComposesWhatIsShown
  BY LinkConstants DEF L!IInv, L!SessionOK, L!ComposesWhatIsShown, L!At, L!Standing
<1>3. silences <= misses /\ misses \in {0, 1, 2} /\ silences \in Nat
  BY LinkFields DEF L!IInv, L!SilencesOK
<1> QED
  BY <1>1, <1>2, <1>3 DEF L!AtMostTwoLongSilences

LEMMA Grows ==
  ASSUME NEW s \in Seq(Nat), NEW t, t = s \/ \E n \in Nat : t = Append(s, n)
  PROVE  L!IsPrefix(s, t)
<1>1. CASE t = s
  BY <1>1 DEF L!IsPrefix
<1>2. ASSUME NEW n \in Nat, t = Append(s, n) PROVE L!IsPrefix(s, t)
  <2>1. /\ t \in Seq(Nat) /\ Len(t) = Len(s) + 1 /\ Len(s) \in Nat
        /\ \A i \in 1..Len(s) : t[i] = s[i]
    BY <1>2
  <2>2. SubSeq(t, 1, Len(s)) = SubSeq(s, 1, Len(s))
    BY <2>1
  <2> QED
    BY <2>1, <2>2 DEF L!IsPrefix
<1> QED
  BY <1>1, <1>2

(* The theorems on the link assume that no call from which nobody recovers  *)
(* loses a session whose reading is on screen.                              *)

(* What every step of the link keeps: a call in any stage, the pipe with its *)
(* late answers and the engine's session belong together.                   *)
THEOREM LinkInvariant == ~Orphans => (L!Spec => []L!IInv)
<1> SUFFICES ASSUME ~Orphans PROVE L!Spec => []L!IInv
  OBVIOUS
<1>1. L!IInv /\ [L!Next]_L!vars => L!IInv'
  BY LinkNext, LinkAssumption
<1> QED
  BY <1>1, LinkInit, PTL DEF L!Spec

(* No key is in the document twice: what Engine::send and recover do after  *)
(* a timeout or a broken pipe never has a key answered again.               *)
THEOREM EveryKeyOnce == ~Orphans => (L!Spec => []EachKeyOnce)
<1> SUFFICES ASSUME ~Orphans PROVE L!Spec => []EachKeyOnce
  OBVIOUS
<1> QED
  BY LinkInvariant, LinkShown, PTL DEF EachKeyOnce

(* A link in good standing has a session that composes what is shown        *)
(* (Engine::link, its resynchronizing revert).                               *)
THEOREM SessionIsOnScreen == ~Orphans => (L!Spec => []ComposesWhatIsShown)
<1> SUFFICES ASSUME ~Orphans PROVE L!Spec => []ComposesWhatIsShown
  OBVIOUS
<1> QED
  BY LinkInvariant, LinkShown, PTL DEF ComposesWhatIsShown

(* The host waits long at most twice for an engine that does not answer     *)
(* (CONSECUTIVE_MISSES of key_wait.rs).                                     *)
THEOREM LongSilences == ~Orphans => (L!Spec => []L!AtMostTwoLongSilences)
<1> SUFFICES ASSUME ~Orphans PROVE L!Spec => []L!AtMostTwoLongSilences
  OBVIOUS
<1> QED
  BY LinkInvariant, LinkShown, PTL

(* What was seen stays: an answer the client takes only ever extends what   *)
(* is shown.                                                                *)
THEOREM SeenRemains == ~Orphans => (L!Spec => SeenStays)
<1> SUFFICES ASSUME ~Orphans PROVE L!Spec => SeenStays
  OBVIOUS
<1>1. ASSUME L!IInv, [L!Next]_L!vars PROVE [L!IsPrefix(L!Seen, L!Seen')]_L!vars
  <2>1. L!Seen \in Seq(Nat)
    BY <1>1, LinkFields DEF L!IInv
  <2> QED
    BY <1>1, <2>1, LinkNext, LinkAssumption, Grows
<1> QED
  BY <1>1, LinkInvariant, PTL DEF L!Spec, L!SeenStays, SeenStays
=============================================================================

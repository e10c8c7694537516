----------------------------- MODULE QueuedWrite -----------------------------
(* The text service as TSF drives it (crates/sakura-tsf/src/text_service.rs *)
(* and edit_session.rs): keys, focus and composition callbacks, deferred    *)
(* work of the hidden window, and the edit sessions in which accepted       *)
(* writes reach a document.                                                 *)
(*                                                                          *)
(* One thread runs everything, but every call into the host may call back.  *)
(* `stack' holds the calls in progress, innermost last: between any two     *)
(* steps of the innermost, any callback may run.  Calls to the engine block *)
(* without pumping messages, so they are part of the step that makes them.  *)
EXTENDS WriteSettlement

CONSTANTS
  MaxKeys,     \* bound: keys that reserve a write
  MaxEvents,   \* bound: focus, composition and activation callbacks
  MaxDepth,    \* bound: nested edit sessions
  Reenters,    \* whether the host may call back while it is being called
  Refuses,     \* whether the host may refuse an edit session
  Late,        \* whether the host may run a queued session after a callback
               \* revoked its ticket
  Expires,     \* whether a key callback may use up its engine allowance
  Silent,      \* whether the engine may fail to acknowledge an undo
  Drops,       \* whether the hidden window's queue may refuse a message
  Unknown      \* what a document shows after a failed host call

ASSUME SwitchAssumption ==
  /\ {Reenters, Refuses, Late, Expires, Silent, Drops} \subseteq BOOLEAN
  /\ Unknown \notin Visible

ASSUME BoundAssumption ==
  /\ MaxId \in Nat /\ MaxEvents \in Nat
  /\ MaxKeys \in Nat /\ MaxKeys <= MaxId

VARIABLES
  svc,       \* the service
  stack,     \* host calls in progress, innermost last
  queued,    \* tickets of edit sessions the host has yet to run
  doc,       \* [Contexts -> text of the composition the host shows]
  deleted,   \* ghost: undo operations whose deletion the host performed
  events     \* callbacks so far, for the bound

vars == <<svc, stack, queued, doc, deleted, events>>

Stages == {"asked", "gate", "open", "calling", "inside", "returned"}

(* A frame: the ticket of the edit session, how far it is, the updates      *)
(* still to make, whether the last host call succeeded, the flight it was   *)
(* given, and whether a key callback encloses it.                           *)
Frames ==
  [t : Tickets, stage : Stages, todo : Seq(Updates), ok : BOOLEAN,
   flight : Nat, key : BOOLEAN]

TypeOK ==
  /\ svc \in Services
  /\ Len(svc.j.ops) <= Capacity /\ Len(svc.j.terminals) <= Capacity
  /\ stack \in Seq(Frames)
  /\ queued \subseteq Tickets
  /\ doc \in [Contexts -> Visible \union {Unknown}]
  /\ deleted \subseteq Ids
  /\ events \in 0..MaxEvents

(* A service that has been created and not yet, or already, activated.      *)
Init ==
  /\ svc \in {NewService, [NewService EXCEPT !.j = New]} /\ stack = << >> /\ queued = {}
  /\ doc = [c \in Contexts |-> Empty] /\ deleted = {} /\ events = 0

Top == Last(stack)
Below == Front(stack)
Step(f) == stack' = Append(Below, f)
Pop == stack' = Below

(* Between two host calls nothing else runs: callbacks enter while a call   *)
(* is in progress, or when no call is.                                      *)
Waiting ==
  stack # << >> =>
    Reenters /\ Top.stage \in {"asked", "gate", "open", "calling", "inside"}

(* Whether the hosts edit session for document c may start: its lock is     *)
(* free.                                                                    *)
Unlocked(c) ==
  \A i \in DOMAIN stack :
    stack[i].stage = "asked" \/ stack[i].t.epoch.context # c

InKey == \E i \in DOMAIN stack : stack[i].key

-----------------------------------------------------------------------------
(* Plans.                                                                   *)

(* What the engine answers from a reading: an undo of the last commit, a    *)
(* commit with or without a rest, a new preedit, nothing, or the Space that *)
(* an idle session commits.                                                 *)
Answers(reading) ==
  {[del |-> FALSE, commit |-> "none", preedit |-> v] : v \in Visible} \union
  IF reading # Empty
  THEN {[del |-> FALSE, commit |-> "text", preedit |-> v] : v \in Visible}
  ELSE {[del |-> TRUE, commit |-> "none", preedit |-> v] : v \in Visible \ {Empty}}
       \union {[del |-> FALSE, commit |-> "space", preedit |-> Empty]}

PlanFails(before, out) == out.del /\ (out.commit # "none" \/ before # Empty)

(* An idle engine's Space never replaces a reading that is still shown.     *)
KeepsReading(before, out) ==
  out.commit = "space" /\ out.preedit = Empty /\ before # Empty

One(yes, kind, v) == IF yes THEN <<[kind |-> kind, v |-> v]>> ELSE << >>

(* plan_from_visible                                                        *)
Plan(before, out) ==
  IF KeepsReading(before, out) THEN << >>
  ELSE One(out.del, "Delete", Empty)
       \o One(out.commit # "none", "Commit", Empty)
       \o One(out.preedit # Empty, "Show", out.preedit)
       \o One(out.preedit = Empty /\ out.commit = "none" /\ before # Empty,
              "Discard", Empty)

After(before, out) == IF KeepsReading(before, out) THEN before ELSE out.preedit

-----------------------------------------------------------------------------
(* Requesting an edit session.                                              *)

Frame(t, stage, key) ==
  [t |-> t, stage |-> stage, todo |-> << >>, ok |-> TRUE, flight |-> 0, key |-> key]

(* complete_no_document_write                                               *)
CompleteNoDocument(s, t, answered, posted) ==
  IF Validates(s.j, t)
  THEN SettleApplied([s EXCEPT !.j = CompleteApplied(@, t)], t.id, answered, posted)
  ELSE CancelStale(s, t, answered)

(* request_next_write: an operation that writes nothing ends here; any      *)
(* other asks the host for an edit session.                                 *)
Request(s, key, answered, posted) ==
  IF ~CanBegin(s.j) THEN svc' = s /\ UNCHANGED stack
  ELSE LET t == HeadTicket(s.j)
           b == [s EXCEPT !.j = BeginHead(@)]
       IN  IF Head(s.j.ops).writes
           THEN svc' = b /\ stack' = Append(stack, Frame(t, "asked", key))
           ELSE svc' = CompleteNoDocument(b, t, answered, posted) /\ UNCHANGED stack

(* submit_pending_write up to the request; `id' is the open reservation.    *)
Attach_(s, id, updates, after, undo, token, sync, from) ==
  [s EXCEPT
     !.j = Attach(@, id, updates # << >>, s.j.tvis, after),
     !.pay[id] = [updates |-> updates, before |-> s.j.tvis, after |-> after,
                  undo |-> undo, token |-> token, sync |-> sync, from |-> from]]

-----------------------------------------------------------------------------
(* Keys.                                                                    *)

(* decide_real_fence: keys are consumed while an undo or a recovery         *)
(* finalizer is queued, and declined while the composition is not ours to   *)
(* write.  Neither changes anything.                                        *)
Fenced(s) == HasUndo(s, Queued(s.j)) \/ s.token # 0
Blocked(s) == "focus" \in s.work \/ s.phase # "Idle" \/ ~s.known

(* Mutant: an engine that stops answering only costs the link.              *)
RecoverMut(s, c, answered) ==
  Disconnect(CancelAllWrites(InvalidateAsUnknown(s), TRUE, answered))

(* recover_from_engine_unavailable: give up every queued answer and commit  *)
(* what the document shows, fencing keys until that is done.                *)
Recover(s, c, answered) ==
  LET t == Disconnect(CancelAllWrites(InvalidateAsUnknown(s), TRUE, answered))
      o == Observe([t EXCEPT !.token = t.nextToken, !.nextToken = @ + 1], c, answered)
      id == o.j.nextId
  IN  IF ~t.known THEN Abandon(t, answered)
      ELSE IF t.text = Empty THEN FinishFocus(t)
      ELSE IF ~CanReserve(o.j, c) \/ o.j.tvis # t.text
      THEN Abandon([o EXCEPT !.token = 0], answered)
      ELSE Attach_([o EXCEPT !.j = Reserve(@)],
                     id, One(TRUE, "Commit", Empty), Empty, FALSE, t.nextToken, TRUE, t.text)

(* submit_output: an answer that cannot be planned is rejected, and so is   *)
(* the undo the engine had begun for it.                                    *)
Submit(s, id, out, from, answered) ==
  IF PlanFails(s.j.tvis, out)
  THEN LET u == IF out.del THEN SettleUndo(s, "Rejected", answered) ELSE s
       IN  Disconnect(Cancel(u, CancelReservation(u.j, id), FALSE, "Rejected", answered))
  ELSE Attach_(s, id, Plan(s.j.tvis, out), After(s.j.tvis, out), out.del, 0, TRUE, from)

(* handle_key for a key that passes the fences: the slot is reserved before *)
(* the engine is asked.                                                     *)
Key(c, answered, posted) ==
  LET o == Observe(svc, c, answered)
      id == o.j.nextId
      r == [o EXCEPT !.j = Reserve(@)]
  IN  /\ Waiting /\ svc.j.active /\ svc.j.nextId <= MaxKeys
      /\ ~Fenced(svc) /\ ~Blocked(svc)
      /\ CanReserve(o.j, c)
      /\ \/ \E out \in Answers(o.reading) :
              /\ o.undo = 0
              /\ Request(Submit([r EXCEPT !.reading = out.preedit,
                                          !.undo = IF out.del THEN id ELSE 0],
                                id, out, o.reading, answered),
                         TRUE, answered, posted)
         \/ \* Busy, or refused before it was sent
            /\ o.undo # 0 \/ Expires
            /\ svc' = Cancel(r, CancelReservation(r.j, id), FALSE, "Rejected", answered)
            /\ UNCHANGED stack
         \/ \* Unavailable
            /\ o.j.nextId < MaxId
            /\ Request(Recover(r, c, answered), TRUE, answered, posted)
      /\ UNCHANGED <<queued, doc, deleted, events>>

-----------------------------------------------------------------------------
(* The hidden window.                                                       *)

(* dispatch_focus_loss_finalization: the engine commits first, then what    *)
(* the document shows is queued as a finalizer.                             *)
FinalizeFocus(s, answered, posted) ==
  LET e == [s EXCEPT !.phase = "EngineCommitStarted", !.reading = Empty]
      o == Observe(e, e.ctx, answered)
      id == o.j.nextId
      w == Attach_([o EXCEPT !.j = Reserve(@)],
                     id, One(TRUE, "Commit", Empty), Empty, FALSE, 0, FALSE, e.text)
      Abort(t) == Abandon(FocusChange(t, answered), answered)
  IN  IF s.phase # "DeferredQueued" THEN s
      ELSE IF e.ctx = NoContext THEN Abort(e)
      ELSE IF ~e.known THEN Abandon(e, answered)
      ELSE IF e.text = Empty THEN FinishFocus(e)
      ELSE IF ~CanReserve(o.j, e.ctx) THEN Abort(o)
      ELSE IF o.j.tvis # e.text THEN Abandon(o, answered)
      ELSE IF posted THEN [w EXCEPT !.work = @ \union {"write"}]
      ELSE CancelAllWrites(w, TRUE, answered)

(* dispatch_deferred: everything posted so far, focus before writes.        *)
Dispatch(answered, posted) ==
  LET t == [svc EXCEPT !.work = {}]
      f == IF "focus" \in svc.work THEN FinalizeFocus(t, answered, posted) ELSE t
  IN  /\ Waiting /\ svc.work # {} /\ ("focus" \in svc.work => svc.j.nextId <= MaxId)
      /\ IF "write" \in svc.work THEN Request(f, InKey, answered, posted)
         ELSE svc' = f /\ UNCHANGED stack
      /\ UNCHANGED <<queued, doc, deleted, events>>

-----------------------------------------------------------------------------
(* Callbacks from the host.                                                 *)

Event(s) ==
  /\ Waiting /\ events < MaxEvents
  /\ svc' = s /\ events' = events + 1
  /\ UNCHANGED <<stack, queued, doc, deleted>>

FocusLost(answered, posted) == svc.j.active /\ Event(LoseFocus(svc, answered, posted))
FocusGained(answered) == svc.j.active /\ Event(GainFocus(svc, answered))

(* The host ends a composition, of this service or one it retired earlier.  *)
HostTerminates(c, answered, heard) ==
  /\ Waiting /\ events < MaxEvents /\ svc.j.active /\ doc[c] # Empty
  /\ heard \/ (Expires /\ InKey)
  /\ svc' = Terminated(svc, answered, heard)
  /\ doc' = [doc EXCEPT ![c] = Empty]
  /\ events' = events + 1
  /\ UNCHANGED <<stack, queued, deleted>>

Deactivated(answered) == svc.j.active /\ Event(Detach(svc, answered))
Activated(answered) == ~svc.j.active /\ stack = << >> /\ Event(Reattach(svc, answered))

-----------------------------------------------------------------------------
(* Edit sessions.                                                           *)

(* RequestEditSession: the host runs the session at once, keeps it, or      *)
(* refuses it.  A synchronous request is retried asynchronously.            *)
HostRuns ==
  /\ stack # << >> /\ Top.stage = "asked"
  /\ Unlocked(Top.t.epoch.context) /\ Len(stack) <= MaxDepth
  /\ Step([Top EXCEPT !.stage = "gate"])
  /\ UNCHANGED <<svc, queued, doc, deleted, events>>

HostQueues ==
  /\ stack # << >> /\ Top.stage = "asked"
  /\ queued' = queued \union {Top.t}
  /\ Pop /\ UNCHANGED <<svc, doc, deleted, events>>

HostRefuses(answered) ==
  /\ Refuses
  /\ stack # << >> /\ Top.stage = "asked"
  /\ svc' = RejectRequested(svc, Top.t, answered)
  /\ Pop /\ UNCHANGED <<queued, doc, deleted, events>>

RunsQueued(t) ==
  /\ Waiting /\ Len(stack) < MaxDepth /\ Unlocked(t.epoch.context)
  /\ t \in queued /\ (Late \/ Validates(svc.j, t))
  /\ queued' = queued \ {t}
  /\ stack' = Append(stack, Frame(t, "gate", InKey))
  /\ UNCHANGED <<svc, doc, deleted, events>>

At(stage) == stack # << >> /\ Top.stage = stage

Ended(s) == svc' = s /\ Pop /\ UNCHANGED <<queued, doc, deleted, events>>

(* apply_queued_write: the journal gate, before anything of the host's.     *)
Gate(answered) ==
  /\ At("gate")
  /\ IF Validates(svc.j, Top.t)
     THEN /\ Step([Top EXCEPT !.stage = "open"])
          /\ UNCHANGED <<svc, queued, doc, deleted, events>>
     ELSE Ended(CancelStale(svc, Top.t, answered))

(* The gate again, after the host calls that prepare the edit, and          *)
(* begin_composition_write: the plan must start from what is shown, and no  *)
(* other session may be writing.                                            *)
Open(answered) ==
  /\ At("open")
  /\ IF ~Validates(svc.j, Top.t) THEN Ended(CancelStale(svc, Top.t, answered))
     ELSE IF ~svc.known \/ svc.text # svc.pay[Top.t.id].before \/ svc.flight # 0
     THEN Ended(Abandon(svc, answered))
     ELSE /\ svc' = [svc EXCEPT !.flight = svc.nextFlight, !.nextFlight = @ + 1]
          /\ Step([Top EXCEPT !.stage = "calling", !.flight = svc.nextFlight,
                              !.todo = svc.pay[Top.t.id].updates])
          /\ UNCHANGED <<queued, doc, deleted, events>>

Fails(answered) ==
  Ended(FailAfterAccess(svc, Top.t, Top.flight, Top.t.epoch.context, answered))

(* The last authority check before a host call that changes the document;   *)
(* the one that ends our composition arms the marker by which its own       *)
(* termination is recognised.                                               *)
BeginCall(answered) ==
  /\ At("calling") /\ Top.todo # << >> /\ Head(Top.todo).kind # "Delete"
  /\ IF ~Validates(svc.j, Top.t) THEN Fails(answered)
     ELSE /\ svc' = [svc EXCEPT !.ending =
                       IF Head(Top.todo).kind \in {"Commit", "Discard"} /\ svc.text # Empty
                       THEN Top.flight ELSE @]
          /\ Step([Top EXCEPT !.stage = "inside"])
          /\ UNCHANGED <<queued, doc, deleted, events>>

(* Mutant: a text that no longer fits is skipped and the rest is applied.   *)
BeginDeleteMut(fits, answered) ==
  /\ At("calling") /\ Top.todo # << >> /\ Head(Top.todo).kind = "Delete"
  /\ Step(IF fits THEN [Top EXCEPT !.stage = "inside"] ELSE [Top EXCEPT !.todo = Tail(@)])
  /\ UNCHANGED <<svc, queued, doc, deleted, events>>

(* delete_before_caret: until SetText nothing has changed, so a lost ticket *)
(* and a document that no longer ends in the committed text both reject.    *)
BeginDelete(fits, answered) ==
  /\ At("calling") /\ Top.todo # << >> /\ Head(Top.todo).kind = "Delete"
  /\ IF fits /\ Validates(svc.j, Top.t)
     THEN /\ Step([Top EXCEPT !.stage = "inside"])
          /\ UNCHANGED <<svc, queued, doc, deleted, events>>
     ELSE Ended(RejectRequested(
                  IF svc.flight = Top.flight THEN InvalidateFlight(svc) ELSE svc,
                  Top.t, answered))

(* The host changes the document.  A failing call may have changed any part *)
(* of it.  Ending a composition reports its termination to the service,     *)
(* which takes it for its own only while the marker is armed.               *)
HostEdits(ok, v, answered) ==
  LET c == Top.t.epoch.context
      u == Head(Top.todo)
      ends == u.kind \in {"Commit", "Discard"} /\ doc[c] # Empty
  IN  /\ At("inside")
      /\ IF u.kind = "Delete"
         THEN /\ v = Empty
              /\ deleted' \in {deleted \union {Top.t.id}} \union
                              (IF ok THEN {} ELSE {deleted})
              /\ UNCHANGED <<svc, doc>>
         ELSE /\ v = u.v \/ (~ok /\ v \in {doc[c], Unknown})
              /\ doc' = [doc EXCEPT ![c] = v]
              /\ svc' = IF ends /\ v = Empty
                        THEN IF svc.ending # 0 /\ svc.ending = svc.flight
                             THEN [svc EXCEPT !.ending = 0]
                             ELSE Terminated(svc, answered, TRUE)
                        ELSE svc
              /\ UNCHANGED deleted
      /\ Step([Top EXCEPT !.stage = "returned", !.ok = ok])
      /\ UNCHANGED <<queued, events>>

(* The ticket is looked at again when the host returns.                     *)
Return(answered) ==
  /\ At("returned")
  /\ IF ~Top.ok \/ ~Validates(svc.j, Top.t) THEN Fails(answered)
     ELSE /\ Step([Top EXCEPT !.stage = "calling", !.todo = Tail(@)])
          /\ svc' = IF svc.ending = Top.flight THEN [svc EXCEPT !.ending = 0] ELSE svc
          /\ UNCHANGED <<queued, doc, deleted, events>>

(* After the adjacency proof, the last host call: publish the projection    *)
(* and complete the operation, or fail closed.                              *)
Finish(answered, posted) ==
  /\ At("calling") /\ Top.todo = << >>
  /\ IF ~Validates(svc.j, Top.t) THEN Fails(answered)
     ELSE IF svc.flight # Top.flight
     THEN Ended(Disconnect(Cancel(svc, CancelTicket(svc.j, Top.t), TRUE, "Unknown", answered)))
     ELSE LET p == Publish(svc, svc.pay[Top.t.id].after, Top.t.epoch.context)
          IN  Ended(SettleApplied([p EXCEPT !.j = CompleteApplied(@, Top.t)],
                                  Top.t.id, answered, posted))

-----------------------------------------------------------------------------
Session(answered, posted) ==
  \/ HostRuns \/ HostQueues \/ HostRefuses(answered)
  \/ \E t \in queued : RunsQueued(t)
  \/ Gate(answered) \/ Open(answered) \/ BeginCall(answered)
  \/ \E fits \in BOOLEAN : BeginDelete(fits, answered)
  \/ \E ok \in BOOLEAN, v \in Visible \union {Unknown} : HostEdits(ok, v, answered)
  \/ Return(answered) \/ Finish(answered, posted)

Callback(answered, posted) ==
  \/ FocusLost(answered, posted) \/ FocusGained(answered)
  \/ \E c \in Contexts, heard \in BOOLEAN : HostTerminates(c, answered, heard)
  \/ Deactivated(answered) \/ Activated(answered)

Answering == {TRUE, ~Silent}
Posting == {TRUE, ~Drops}

Next ==
  \E answered \in Answering, posted \in Posting :
    \/ \E c \in Contexts : Key(c, answered, posted)
    \/ Dispatch(answered, posted)
    \/ Callback(answered, posted)
    \/ Session(answered, posted)

Spec == Init /\ [][Next]_vars

(* The thread keeps running: as long as a host call is in progress, a       *)
(* session is queued or a message is posted, one of them goes on.  Nobody   *)
(* is bound to type, to move the focus or to end a composition.             *)
Goes ==
  \E answered \in Answering, posted \in Posting :
    Dispatch(answered, posted) \/ Session(answered, posted)

FairSpec == Spec /\ WF_vars(Goes)

-----------------------------------------------------------------------------
(* What the service takes for shown is shown: outside a running write, the  *)
(* composition text it plans the next update from is the text the host      *)
(* shows.  commit_composition_projection, fail_composition_write and the    *)
(* invalidations have to agree on this through every re-entrant callback.   *)
(* And it is what the journal plans from: begin_composition_write would     *)
(* otherwise give up a composition that is there.                           *)
TextIsOnScreen ==
  svc.known /\ svc.text # Empty =>
    /\ svc.flight = 0 => doc[svc.ctx] = svc.text
    /\ svc.j.active => svc.j.cvis = svc.text

(* Whatever is waited for has somebody left who ends it.                    *)
(* - A write in flight belongs to a callback still on the stack: nothing    *)
(*   else ends the flight, and no later write could begin.                  *)
(* - Keys are consumed for a recovery only while its finalizer is queued    *)
(*   (engine_recovery.rs): a fence whose finalizer ended would eat every    *)
(*   key.                                                                   *)
(* - A focus finalization declines input until the posted message, or the   *)
(*   queued finalizer, ends it.                                             *)
(* - The engine answers Busy as long as it keeps an undo pending, which it  *)
(*   does only while the write that will settle it is queued.               *)
EveryWaitHasOwner ==
  /\ svc.flight # 0 => \E i \in DOMAIN stack : stack[i].flight = svc.flight
  /\ svc.token # 0 => \E i \in Queued(svc.j) : svc.pay[i].token = svc.token
  /\ svc.phase = "DeferredQueued" => "focus" \in svc.work
  /\ svc.phase = "EngineCommitStarted" => Queued(svc.j) # {}
  /\ svc.undo # 0 => svc.undo \in Queued(svc.j)

(* The engine is told Applied only of a deletion the host performed.        *)
AppliedWasDeleted == \A i \in Ids : svc.told[i] = "Applied" => i \in deleted

(* The writes the host is carrying out.                                     *)
Carried == {svc.pay[stack[i].t.id] : i \in {k \in DOMAIN stack : stack[k].stage = "inside"}}

(* An answer is only ever written over the text it was computed from.       *)
(* Beside its reading, the document would hold the reading twice; over      *)
(* another text, that would be lost unread.                                 *)
ReplacesWhatWasRead == \A p \in Carried : p.before = p.from

(* Once the user rests, so does the service: every accepted write ends, and *)
(* a focus finalization or a recovery gives the keys back.  No refused      *)
(* request, lost message or revoked callback leaves either without somebody *)
(* to finish it.                                                            *)
ComesToRest == []<>(svc.j.ops = << >> /\ svc.phase = "Idle" /\ svc.token = 0)

-----------------------------------------------------------------------------
(* What makes the properties inductive.                                     *)

(* What is known of the service between two methods, by its own record.  A  *)
(* plan that writes ends at `after' and, if it deletes, begins with that.   *)
PlanOK(p) ==
  /\ p.updates = << >> => p.after = p.before
  /\ p.updates # << >> =>
       Last(p.updates).kind # "Delete" /\ Last(p.updates).v = p.after
  /\ p.undo => p.updates # << >> /\ Head(p.updates).kind = "Delete"
  /\ \A n \in DOMAIN p.updates : p.updates[n].kind = "Delete" => p.before = Empty

(* The journal plans what the payload says, and nobody takes back an undo   *)
(* that has not been accepted.                                              *)
PlansOK(s) ==
  /\ \A i \in Ids : PlanOK(s.pay[i]) /\ (s.j.nextId <= i => ~s.pay[i].undo)
  /\ \A k \in DOMAIN s.j.ops :
       LET op == s.j.ops[k]
           p == s.pay[op.id]
       IN  /\ op.id \in Ids
           /\ op.phase # "Reserved" =>
                /\ op.writes <=> p.updates # << >>
                /\ op.before = p.before /\ op.after = p.after

(* Who ends what is waited for, while `ids' have left the queue and are not *)
(* settled yet.  The engine keeps at most the one undo that is queued.      *)
Owed(s, ids) ==
  LET all == Queued(s.j) \union ids
  IN  /\ s.token # 0 => \E i \in all : s.pay[i].token = s.token
      /\ s.undo # 0 => s.undo \in all /\ s.pay[s.undo].undo
      /\ \A i, k \in all : s.pay[i].undo /\ s.pay[k].undo => i = k
      /\ s.phase = "DeferredQueued" => "focus" \in s.work

(* After the engine's commit the finalizer is queued last.                  *)
FinalizerLast(s) ==
  s.phase = "EngineCommitStarted" =>
    /\ s.j.ops # << >>
    /\ LET op == Last(s.j.ops)
       IN  op.phase # "Reserved" /\ op.writes /\ op.after = Empty

(* Journal and projection agree, and what is shown is shown somewhere.      *)
Shown(s) ==
  s.text # Empty =>
    s.j.active /\ s.ctx \in Contexts /\ (s.known => s.j.cvis = s.text)

ServiceOK(s) ==
  /\ s \in Services /\ JournalOK(s.j) /\ JournalInv(s.j)
  /\ PlansOK(s) /\ Owed(s, {}) /\ FinalizerLast(s) /\ Shown(s)

(* A ticket is of an operation that was issued to write something.          *)
TicketOK(s, t) ==
  t.id \in Ids /\ t.id < s.j.nextId /\ s.pay[t.id].updates # << >>

TicketsOK ==
  /\ \A t \in queued : TicketOK(svc, t)
  /\ \A i \in DOMAIN stack : TicketOK(svc, stack[i].t)

Writing(f) == f.stage \in {"calling", "inside", "returned"}
Lost(s) == s.text = Empty \/ ~s.known

(* All updates of a frame are made.                                         *)
Made(f) == f.todo = << >> \/ (f.stage = "returned" /\ f.ok /\ Len(f.todo) = 1)

(* The rest of a frame's plan: it ends where the plan ends, and an undo     *)
(* whose deletion is not among those made (`gone') has it still to make.    *)
RestOK(f, p, gone) ==
  /\ f.stage # "calling" => f.todo # << >>
  /\ f.todo # << >> => Last(f.todo).kind # "Delete" /\ Last(f.todo).v = p.after
  /\ \A n \in DOMAIN f.todo : f.todo[n].kind = "Delete" => p.before = Empty
  /\ p.undo /\ f.t.id \notin gone =>
       /\ f.todo # << >> /\ Head(f.todo).kind = "Delete"
       /\ f.stage = "returned" => ~f.ok

(* The frame with the flight writes over what the service takes for shown;  *)
(* once it is revoked, its document is not one the service knows.           *)
FlightOK(s, docs, f, p) ==
  IF f.flight = s.flight
  THEN s.text = p.before /\ (Made(f) => docs[f.t.epoch.context] = p.after)
  ELSE Lost(s) \/ s.ctx # f.t.epoch.context

FrameOK(s, docs, gone, f) ==
  LET p == s.pay[f.t.id]
  IN  IF Writing(f)
      THEN f.flight # 0 /\ f.flight < s.nextFlight /\ RestOK(f, p, gone) /\ FlightOK(s, docs, f, p)
      ELSE f.flight = 0

FramesOK == \A i \in DOMAIN stack : FrameOK(svc, doc, deleted, stack[i])

(* No two sessions hold one document, or one flight.                        *)
Apart(f, g) ==
  /\ f.stage # "asked" /\ g.stage # "asked" => f.t.epoch.context # g.t.epoch.context
  /\ Writing(f) => f.flight # g.flight

LocksOK == \A i, k \in DOMAIN stack : i # k => Apart(stack[i], stack[k])

FlightOwned == svc.flight # 0 => \E i \in DOMAIN stack : stack[i].flight = svc.flight

IInv ==
  /\ TypeOK /\ ServiceOK(svc) /\ svc.j.nextId > 0 /\ svc.nextFlight > 0
  /\ TicketsOK /\ FramesOK /\ LocksOK /\ FlightOwned
  /\ TextIsOnScreen /\ AppliedWasDeleted
=============================================================================

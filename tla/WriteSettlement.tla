-------------------------- MODULE WriteSettlement --------------------------
(* The document-free half of crates/sakura-tsf/src/text_service.rs: what    *)
(* the text service does with its own composition record, the write journal *)
(* and the engine link when accepted writes are applied, rejected or        *)
(* cancelled.  A service is one record; every method that settles is an     *)
(* operator from service to service, shared by all the callbacks that end   *)
(* in it.                                                                   *)
(*                                                                          *)
(* Left out: candidate windows, diagnostics, AI records.  A RefCell borrow  *)
(* is never refused: none is held across a host call                        *)
(* (text_service.rs:24), so the branches of a refused borrow are not here.  *)
EXTENDS WriteJournal, SequencesExt

CONSTANTS
  MaxId      \* bound: operations ever reserved

Ids == 1..MaxId

(* WritePlan and PendingWrite, by operation id.  `from' is a ghost: the     *)
(* reading of the engine session that computed the answer.                  *)
UpdateKinds == {"Delete", "Commit", "Show", "Discard"}
Updates  == [kind : UpdateKinds, v : Visible]
Payloads == [updates : Seq(Updates), before : Visible, after : Visible,
             undo : BOOLEAN, token : Nat, sync : BOOLEAN, from : Visible]
NoPayload == [updates |-> << >>, before |-> Empty, after |-> Empty,
              undo |-> FALSE, token |-> 0, sync |-> FALSE, from |-> Empty]

(* FocusFinalizationPhase without its two Reconciliation phases, which only *)
(* a refused borrow enters.                                                 *)
FocusPhases == {"Idle", "DeferredQueued", "EngineCommitStarted"}
UndoTold == {"none", "Applied", "Rejected", "Unknown", "Lost"}

(* The service: its journal and payloads; CompositionState (text, known,    *)
(* ctx, flight, nextFlight, ending); DeferredState (phase, reconcile,       *)
(* work); the recovery fence (token, nextToken); and the session behind its *)
(* engine link (reading, and the operation whose undo it keeps pending, or  *)
(* 0), with what the engine was told of each undo.                          *)
Services ==
  [j : Journals, pay : [Ids -> Payloads],
   text : Visible, known : BOOLEAN, ctx : Contexts \union {NoContext},
   flight : Nat, nextFlight : Nat, ending : Nat,
   phase : FocusPhases, reconcile : BOOLEAN, work : SUBSET {"write", "focus"},
   token : Nat, nextToken : Nat,
   reading : Visible, undo : {0} \union Ids, told : [Ids -> UndoTold]]

NewService ==
  [j |-> Activate(New), pay |-> [i \in Ids |-> NoPayload],
   text |-> Empty, known |-> TRUE, ctx |-> NoContext,
   flight |-> 0, nextFlight |-> 1, ending |-> 0,
   phase |-> "Idle", reconcile |-> FALSE, work |-> {},
   token |-> 0, nextToken |-> 1,
   reading |-> Empty, undo |-> 0, told |-> [i \in Ids |-> "none"]]

(* The completions a journal call returns: what it took off the queue.      *)
Queued(j) == {j.ops[i].id : i \in DOMAIN j.ops}
Attached(j) == {j.ops[i].id : i \in {k \in DOMAIN j.ops : j.ops[k].phase # "Reserved"}}
Completed(j, k) == Queued(j) \ Queued(k)

-----------------------------------------------------------------------------
(* CompositionState.                                                        *)

(* invalidate_inflight_composition_write: a running callback loses its      *)
(* right to publish; the composition itself is kept.                        *)
InvalidateFlight(s) == [s EXCEPT !.flight = 0, !.ending = 0]

(* Mutant: the projection of a revoked callback is still believed.          *)
InvalidateAsUnknownMut(s) == InvalidateFlight(s)

InvalidateAsUnknown(s) ==
  [InvalidateFlight(s) EXCEPT !.known = @ /\ s.flight = 0]

FinishFocus(s) ==
  [s EXCEPT !.phase = "Idle", !.reconcile = FALSE, !.work = @ \ {"focus"}]

(* forget_composition: drop the handle; the host owns what is on screen.    *)
Forget(s) ==
  FinishFocus([InvalidateFlight(s) EXCEPT
                 !.text = Empty, !.ctx = NoContext, !.known = TRUE])

(* commit_composition_projection by the flight that owns the write.         *)
Publish(s, after, c) ==
  LET done == [s EXCEPT !.flight = 0, !.ending = 0, !.text = after, !.known = TRUE,
                        !.ctx = IF after = Empty THEN NoContext ELSE c]
  IN  IF after = Empty THEN FinishFocus(done) ELSE done

(* Mutant: the flight that failed stays the owner of the composition.       *)
FailWriteMut(s, flight, c) ==
  IF s.flight = flight THEN [s EXCEPT !.text = Empty, !.ctx = c, !.known = FALSE] ELSE s

(* fail_composition_write: nothing is known of the text any more; a revoked *)
(* flight changes nothing.                                                  *)
FailWrite(s, flight, c) ==
  IF s.flight = flight
  THEN [s EXCEPT !.flight = 0, !.ending = 0, !.text = Empty, !.ctx = c, !.known = FALSE]
  ELSE s

-----------------------------------------------------------------------------
(* The engine link.                                                         *)

(* drop_engine_link: the next key connects to a fresh session.              *)
Disconnect(s) ==
  [s EXCEPT !.reading = Empty, !.undo = 0,
            !.told = IF s.undo = 0 THEN @ ELSE [@ EXCEPT ![s.undo] = "Lost"]]

(* Mutant: a refused or unanswered settlement leaves the link in use.       *)
SettleUndoMut(s, outcome, answered) ==
  IF s.undo # 0 /\ answered
  THEN [s EXCEPT !.told[s.undo] = outcome, !.undo = 0,
                 !.reading = IF outcome = "Applied" THEN @ ELSE Empty]
  ELSE s

(* settle_undo_commit_or_disconnect: only an applied undo keeps the reading *)
(* it restored.  A session without a pending undo answers Busy, which is    *)
(* not an acknowledgement either.                                           *)
SettleUndo(s, outcome, answered) ==
  IF s.undo # 0 /\ answered
  THEN [s EXCEPT !.told[s.undo] = outcome, !.undo = 0,
                 !.reading = IF outcome = "Applied" THEN @ ELSE Empty]
  ELSE Disconnect(s)

(* settle_engine_recovery_completion for all completed operations.          *)
FinishRecovery(s, ids) ==
  IF \E i \in ids : s.pay[i].token # 0 /\ s.pay[i].token = s.token
  THEN [s EXCEPT !.token = 0] ELSE s

HasUndo(s, ids) == \E i \in ids : s.pay[i].undo

-----------------------------------------------------------------------------
(* Settling completions.                                                    *)

(* terminalize_cancelled_state                                              *)
Terminalize(s, reset) ==
  LET t == [s EXCEPT !.j = ClearLease(@)] IN IF reset THEN Disconnect(t) ELSE t

(* Mutant: a finalizer that ends after the engine's commit is settled like  *)
(* any other write.                                                         *)
SettleAfterUndoMut(s, ids, reset) ==
  LET t == FinishRecovery(s, ids)
  IN  IF ids # {} THEN Terminalize(t, reset)
      ELSE IF reset THEN Disconnect(t) ELSE t

(* settle_cancelled_writes_inner once the engine knows of the undo: a       *)
(* focus finalizer that was lost takes the composition with it.             *)
SettleAfterUndo(s, ids, reset) ==
  LET t == FinishRecovery(s, ids)
  IN  IF t.phase = "EngineCommitStarted" THEN Terminalize(Forget(t), TRUE)
      ELSE IF ids # {} THEN Terminalize(t, reset)
      ELSE IF reset THEN Disconnect(t) ELSE t

(* settle_cancelled_writes: a missing outcome means "Rejected".             *)
Settle(s, ids, reset, outcome, answered) ==
  SettleAfterUndo(
    IF HasUndo(s, ids) THEN SettleUndo(s, outcome, answered) ELSE s, ids, reset)

(* A journal call followed by the settlement of what it completed.          *)
Cancel(s, k, reset, outcome, answered) ==
  Settle([s EXCEPT !.j = k], Completed(s.j, k), reset, outcome, answered)

CancelAllWrites(s, reset, answered) ==
  Cancel(s, CancelAll(s.j), reset, "Rejected", answered)

CancelStale(s, t, answered) ==
  Cancel(s, CancelTicket(s.j, t), TRUE, "Rejected", answered)

RejectRequested(s, t, answered) ==
  Cancel(s, Reject(s.j, t, FALSE, {}), TRUE, "Rejected", answered)

(* abandon_composition_projection                                           *)
Abandon(s, answered) ==
  LET k   == AbandonProjection(s.j)
      ids == Completed(s.j, k)
      t   == Forget([s EXCEPT !.j = k])
  IN  IF ids = {} THEN Terminalize(t, TRUE)
      ELSE Settle(t, ids, TRUE, "Unknown", answered)

(* Mutant: the recovery fence is only finished for the rejected ticket.     *)
FailAfterAccessMut(s, t, flight, c, answered) ==
  LET f == FailWrite(s, flight, c)
      k == CancelAll(Reject(f.j, t, TRUE, {}))
      ids == Completed(f.j, k)
      u == IF HasUndo(f, ids) THEN SettleUndo(f, "Unknown", answered) ELSE f
  IN  Disconnect(SettleAfterUndo([u EXCEPT !.j = k], ids \ Ids, TRUE))

(* fail_after_document_access, reconcile_document_access_failure and        *)
(* terminalize_unknown_undo_after_document_access: whatever is queued is    *)
(* taken down with the failed ticket.                                       *)
FailAfterAccess(s, t, flight, c, answered) ==
  LET f == FailWrite(s, flight, c)
      k == CancelAll(Reject(f.j, t, TRUE, {}))
      ids == Completed(f.j, k)
      u == IF HasUndo(f, ids) THEN SettleUndo(f, "Unknown", answered) ELSE f
  IN  Disconnect(SettleAfterUndo([u EXCEPT !.j = k], ids, TRUE))

(* Mutant: the next write is left to a message that was never posted.       *)
SettleAppliedMut(s, id, answered, posted) ==
  IF posted THEN [FinishRecovery(s, {id}) EXCEPT !.work = @ \union {"write"}]
  ELSE FinishRecovery(s, {id})

(* settle_applied_write: `posted' is whether the hidden window took the     *)
(* request for the next write.                                              *)
SettleApplied(s, id, answered, posted) ==
  LET f == FinishRecovery(s, {id})
      u == IF s.pay[id].undo /\ f.undo # 0 /\ answered
           THEN SettleUndo(f, "Applied", TRUE) ELSE f
  IN  IF s.pay[id].undo /\ ~(f.undo # 0 /\ answered)
      THEN Disconnect(Abandon(f, answered))
      ELSE IF posted THEN [u EXCEPT !.work = @ \union {"write"}]
      ELSE CancelAllWrites(u, TRUE, answered)

-----------------------------------------------------------------------------
(* Life-cycle callbacks.                                                    *)

(* invalidate_for_focus_change                                              *)
FocusChange(s, answered) ==
  LET k  == FocusChanged(s.j)
      t  == [InvalidateAsUnknown(s) EXCEPT !.reconcile = @ \/ Attached(s.j) # {}]
  IN  Cancel(t, k, FALSE, "Rejected", answered)

(* OnSetFocus(FALSE): invalidate, then queue_focus_loss.  Without a posted  *)
(* message the request is withdrawn; cancelled answers still force the      *)
(* projection to be given up.                                               *)
LoseFocus(s, answered, posted) ==
  LET t == FocusChange(s, answered)
  IN  IF t.phase = "EngineCommitStarted" THEN t
      ELSE IF posted
      THEN [t EXCEPT !.phase = "DeferredQueued", !.work = @ \union {"focus"}]
      ELSE LET u == [t EXCEPT !.phase = "Idle", !.work = @ \ {"focus"}]
           IN  IF u.reconcile THEN Abandon(u, answered) ELSE u

(* Mutant: regained focus always takes the composition up again.            *)
GainFocusMut(s, answered) == FinishFocus(FocusChange(s, answered))

(* OnSetFocus(TRUE): resume_after_focus_gain                                *)
GainFocus(s, answered) ==
  LET t == FocusChange(s, answered)
  IN  IF t.phase = "EngineCommitStarted" \/ t.reconcile \/ ~t.known
      THEN Abandon(t, answered) ELSE FinishFocus(t)

(* Mutant: only the journal hears that the composition is over.             *)
TerminatedMut(s, answered, heard) ==
  Cancel(InvalidateFlight(s), CompositionTerminated(s.j), FALSE, "Rejected", answered)

(* OnCompositionTerminated that is not the callback's own EndComposition.   *)
(* ask_to_finalize is not heard when the key callback around it has no      *)
(* allowance left: Engine::commit then sends nothing and its answer is      *)
(* discarded.                                                               *)
Terminated(s, answered, heard) ==
  LET t == Cancel(InvalidateFlight(s), CompositionTerminated(s.j), FALSE, "Rejected", answered)
      u == IF heard /\ t.undo = 0 THEN [t EXCEPT !.reading = Empty] ELSE t
  IN  Forget(u)

(* observe_write_context: another document is a boundary for everything     *)
(* planned, shown and composed for the old one.                             *)
Observe(s, c, answered) ==
  LET k        == ObserveContext(s.j, c)
      ids      == Completed(s.j, k)
      replaced == (s.ctx # NoContext /\ s.ctx # c)
                  \/ (s.j.context # NoContext /\ s.j.context # c)
      t        == Forget(Settle(InvalidateFlight([s EXCEPT !.j = k]),
                                ids, TRUE, "Rejected", answered))
  IN  IF ids = {} /\ ~replaced THEN [s EXCEPT !.j = k]
      ELSE IF replaced /\ ids = {} THEN Disconnect(t) ELSE t

(* detach *)
Detach(s, answered) ==
  LET t == Cancel(InvalidateFlight(s), Deactivate(s.j), FALSE, "Rejected", answered)
  IN  Disconnect(Forget([t EXCEPT !.token = 0, !.work = {}]))

(* attach: activate_write_journal on a service that was detached.           *)
Reattach(s, answered) == Cancel(s, Activate(s.j), FALSE, "Rejected", answered)
=============================================================================

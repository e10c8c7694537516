--------------------------- MODULE CandidateClick ---------------------------
(* From a candidate list to a click on one of its rows: the shared board    *)
(* (crates/sakura-engine/src/ui.rs), the pipe workers that show lists and   *)
(* commit clicks (server.rs, dispatch.rs) and the renderer, which only ever *)
(* names a revision.                                                        *)
(*                                                                          *)
(* A worker serves one session.  A list is what it is computed from: the    *)
(* reading, the learned history and the user dictionary, each as the number *)
(* of its generation.  The row is not kept: one list is one row.  Geometry, *)
(* mode and preferences only move the revision (Refresh).                   *)
EXTENDS Naturals

CONSTANTS
  Workers,    \* pipe workers, each with its session
  MaxReading, \* bound: prediction_generation of a session
  MaxRev,     \* bound: revisions of the board
  MaxLearn,   \* bound: generations of the learned history
  MaxDict     \* bound: changes of the user dictionary

VARIABLE ui

NoList == [kind |-> "none"]
ListOf(kind, w, n, learn, dict) ==
  [kind |-> kind, who |-> w, of |-> n, learn |-> learn, dict |-> dict]

NoOne     == "nobody"
NoRequest == [rev |-> 0, owner |-> NoOne, clicked |-> NoList]
NoCommit  == [clicked |-> NoList, committed |-> NoList]
NewSession == [state |-> "idle", reading |-> 0, observed |-> 0, cache |-> NoList]

Init == ui =
  [rev   |-> 1, list |-> NoList, owner |-> NoOne, learned |-> 0,
   visible |-> FALSE, pending |-> NoRequest,
   sess  |-> [w \in Workers |-> NewSession],
   at    |-> [w \in Workers |-> "rest"],     \* rest, output, clear, click
   out   |-> [w \in Workers |-> NoList],
   seen  |-> [rev |-> 1, list |-> NoList],   \* what the renderer draws
   polled |-> [w \in Workers |-> NoRequest],
   click |-> [w \in Workers |-> NoRequest],  \* taken and not yet dispatched
   erase |-> "none",         \* how far a deletion of a history row has got
   learn |-> 0, dict |-> 0,
   last  |-> NoCommit]                       \* ghost: the last click committed

Bumps(u) == [u EXCEPT !.rev = @ + 1]

Hidden(u) == [u EXCEPT !.list = NoList, !.owner = NoOne, !.learned = 0, !.visible = FALSE]

Same(p, q) == p.rev = q.rev /\ p.owner = q.owner

MayBump == ui.rev < MaxRev

-----------------------------------------------------------------------------
(* Keys.                                                                    *)

(* Asked now; a conversion uses what was learned too (the readings that     *)
(* repair a mistyped one).                                                  *)
Suggestion(w, n) == ListOf("suggest", w, n, ui.learn, ui.dict)
Conversion(w, n) == ListOf("convert", w, n, ui.learn, ui.dict)

(* invalidate_stale_prediction_cache, at the head of every dispatch.        *)
Fresh(s) == IF s.observed = ui.learn THEN s
            ELSE [s EXCEPT !.cache = NoList, !.observed = ui.learn]

Answers(w, s, list) ==
  ui' = [ui EXCEPT !.sess[w] = s, !.at[w] = "output", !.out[w] = list]

(* A key of the reading: a new reading asks for suggestions; a key that     *)
(* leaves it shows the list in the cache again, or asks anew without one.   *)
TypeKey(w) == \E n \in {ui.sess[w].reading, ui.sess[w].reading + 1} \ {0} :
  /\ ui.at[w] = "rest" /\ n <= MaxReading
  /\ LET s    == Fresh(ui.sess[w])
         same == n = s.reading /\ s.cache # NoList /\ s.state = "suggest"
         list == IF same THEN s.cache ELSE Suggestion(w, n)
     IN Answers(w, [s EXCEPT !.state = "suggest", !.reading = n, !.cache = list], list)

ConvertKey(w) ==
  /\ ui.at[w] = "rest" /\ ui.sess[w].state # "idle"
  /\ LET s == Fresh(ui.sess[w]) IN
     Answers(w, [s EXCEPT !.state = "convert"], Conversion(w, s.reading))

(* A commit or a cancel; a commit may be learned.  An idle key is the same. *)
EndKey(w) == \E learns \in BOOLEAN :
  /\ ui.at[w] = "rest" /\ (learns => ui.learn < MaxLearn /\ ui.sess[w].state # "idle")
  /\ ui' = [ui EXCEPT !.sess[w] = [Fresh(@) EXCEPT !.state = "idle", !.cache = NoList],
                      !.at[w] = "output", !.out[w] = NoList,
                      !.learn = IF learns THEN @ + 1 ELSE @]

(* publish_output_from, once the reply has been written.  Nothing to show   *)
(* is nobody's business but the owner's.                                    *)
PublishOutput(w) ==
  /\ ui.at[w] = "output"
  /\ LET list  == ui.out[w]
         owner == IF list = NoList THEN NoOne ELSE w
         learned == IF list = NoList THEN 0 ELSE ui.learn
         done  == [ui EXCEPT !.at[w] = "rest", !.out[w] = NoList]
         shown == [Bumps(done) EXCEPT !.list = list, !.owner = owner, !.learned = learned,
                     !.visible = @ /\ ui.owner = owner /\ list # NoList]
     IN IF (list = NoList /\ ui.owner # w) \/ <<ui.list, ui.owner, ui.learned>> = <<list, owner, learned>>
        THEN ui' = done
        ELSE MayBump /\ ui' = shown

(* clear_session_from and clear_connection.                                 *)
ClearOwned(u, w) == IF ui.owner = w THEN [Bumps(Hidden(u)) EXCEPT !.pending = NoRequest] ELSE u

(* The reply cannot be written, or the client is gone: the connection ends, *)
(* its list goes, and the next client starts with nothing.                  *)
Lose(w) ==
  /\ ui.at[w] \in {"rest", "output", "click"} /\ MayBump
  /\ ui' = [ClearOwned(ui, w) EXCEPT !.at[w] = "rest", !.out[w] = NoList, !.click[w] = NoRequest,
              !.polled[w] = NoRequest, !.sess[w] = [NewSession EXCEPT !.reading = ui.sess[w].reading,
                                                                      !.observed = ui.sess[w].observed]]

(* Revert: the session first, the board when the answer is known.           *)
Revert(w) ==
  /\ ui.at[w] = "rest" /\ ui.sess[w].state # "idle"
  /\ ui' = [ui EXCEPT !.sess[w] = [Fresh(@) EXCEPT !.state = "idle"], !.at[w] = "clear"]
ClearSession(w) ==
  /\ ui.at[w] = "clear" /\ MayBump
  /\ ui' = [ClearOwned(ui, w) EXCEPT !.at[w] = "rest"]

(* publish_placement_from, by the list's owner.                             *)
Place(w) == ui.owner = w /\ MayBump /\ ui.at[w] = "rest" /\ ui' = [Bumps(ui) EXCEPT !.visible = ~@]

(* A mode or a preference is published.                                     *)
Refresh == MayBump /\ ui.owner # NoOne /\ ui' = Bumps(ui)

-----------------------------------------------------------------------------
(* The renderer.                                                            *)

(* WatchUi delivers the board as it is.                                     *)
Watch == ui' = [ui EXCEPT !.seen = [rev |-> ui.rev, list |-> ui.list]]

(* queue_candidate_commit, for the list that is drawn.                      *)
QueueClick ==
  /\ ui.seen.rev = ui.rev /\ ui.visible /\ ui.owner # NoOne
  /\ LET wish == [rev |-> ui.rev, owner |-> ui.owner, clicked |-> ui.seen.list]
     IN ~Same(ui.pending, wish) /\ ui' = [ui EXCEPT !.pending = wish]

(* PollCandidateCommit: a stale click is thrown away, whoever asks.         *)
Current(p) == p # NoRequest /\ p.rev = ui.rev /\ p.owner = ui.owner
Poll(w) ==
  /\ ui.at[w] = "rest" /\ ui.pending # NoRequest
  /\ ui' = [ui EXCEPT !.pending = IF Current(@) THEN @ ELSE NoRequest,
              !.polled[w] = IF Current(ui.pending) /\ ui.owner = w THEN ui.pending ELSE @]

(* Mutant: the click need not belong to the revision that is shown. *)
TakeClickMut(w) ==
  /\ ui.at[w] = "rest" /\ ui.polled[w] # NoRequest
  /\ LET ok == Same(ui.pending, ui.polled[w]) /\ ui.owner = w
     IN ui' = [ui EXCEPT !.polled[w] = NoRequest,
                 !.pending = IF ok THEN NoRequest ELSE @,
                 !.click[w] = IF ok THEN ui.pending ELSE @,
                 !.at[w] = IF ok THEN "click" ELSE @]

(* take_candidate_commit, for the request the text service has polled.      *)
TakeClick(w) ==
  /\ ui.at[w] = "rest" /\ ui.polled[w] # NoRequest
  /\ LET ok == Same(ui.pending, ui.polled[w]) /\ ui.pending.rev = ui.rev /\ ui.owner = w
     IN ui' = [ui EXCEPT !.polled[w] = NoRequest,
                 !.pending = IF ok THEN NoRequest ELSE @,
                 !.click[w] = IF ok THEN ui.pending ELSE @,
                 !.at[w] = IF ok THEN "click" ELSE @]

(* What the row is now: the cached suggestion, or the conversion computed   *)
(* anew.                                                                    *)
RowNow(s, w) ==
  CASE s.state = "suggest" -> s.cache
    [] s.state = "convert" -> Conversion(w, s.reading)
    [] OTHER               -> NoList

(* commit_candidate and what server.rs does with its reply: an output, or a *)
(* refusal that publishes the list again under a new revision.              *)
CommitClick(w) ==
  /\ ui.at[w] = "click"
  /\ LET s   == Fresh(ui.sess[w])
         row == RowNow(s, w)
         done == [ui EXCEPT !.sess[w] = [s EXCEPT !.state = "idle", !.cache = NoList],
                    !.at[w] = "output", !.out[w] = NoList, !.click[w] = NoRequest,
                    !.last = [clicked |-> ui.click[w].clicked, committed |-> row]]
         refused == [ui EXCEPT !.sess[w] = s, !.at[w] = "rest", !.click[w] = NoRequest]
     IN IF row # NoList THEN ui' = done
        ELSE IF ui.rev = ui.click[w].rev /\ ui.owner = w
             THEN MayBump /\ ui' = [Bumps(refused) EXCEPT !.pending = NoRequest]
             ELSE ui' = refused

-----------------------------------------------------------------------------
(* What changes the lists.                                                  *)

Learn == ui.learn < MaxLearn /\ ui' = [ui EXCEPT !.learn = @ + 1]

(* The user dictionary is reloaded, whatever the sessions are doing.        *)
ReloadDictionary == ui.dict < MaxDict /\ ui' = [ui EXCEPT !.dict = @ + 1]

(* delete_history_candidate: the row is found on the board, forgotten, and  *)
(* lists of an older history are hidden; three locks, one after the other.  *)
FindRow ==
  /\ ui.erase = "none" /\ ui.seen.rev = ui.rev /\ ui.list.kind = "suggest"
  /\ ui' = [ui EXCEPT !.erase = "found"]
ForgetRow ==
  /\ ui.erase = "found" /\ ui.learn < MaxLearn
  /\ ui' = [ui EXCEPT !.erase = "forgotten", !.learn = @ + 1]
HideStale ==
  /\ ui.erase = "forgotten"
  /\ LET done == [ui EXCEPT !.erase = "done"]
     IN IF ui.list.kind = "suggest" /\ ui.learned # ui.learn
        THEN MayBump /\ ui' = Bumps(Hidden(done))
        ELSE ui' = done

WorkerStep(w) ==
  \/ TypeKey(w) \/ ConvertKey(w) \/ EndKey(w) \/ PublishOutput(w) \/ Lose(w)
  \/ Revert(w) \/ ClearSession(w) \/ Place(w) \/ Poll(w) \/ TakeClick(w) \/ CommitClick(w)

Next ==
  \/ \E w \in Workers : WorkerStep(w)
  \/ Refresh \/ Watch \/ QueueClick \/ Learn \/ ReloadDictionary
  \/ FindRow \/ ForgetRow \/ HideStale

Spec == Init /\ [][Next]_ui

-----------------------------------------------------------------------------
(* `row' is a row of `list': of that very list or, in a conversion, which   *)
(* commit_candidate computes anew, of what has taken its place: a           *)
(* conversion of the same reading in the same session, by a history and a   *)
(* dictionary that are no older.                                            *)
Renews(list, row) ==
  /\ list.kind = "convert" /\ row.kind = "convert"
  /\ row.who = list.who /\ row.of = list.of
  /\ row.learn >= list.learn /\ row.dict >= list.dict
RowOf(list, row) == row = list \/ Renews(list, row)

(* A click commits a row of the list the user clicked on: of a suggestion   *)
(* list the row that was shown, of a conversion the row that has its number *)
(* now; though the list may be replaced, hidden, given a new revision or    *)
(* emptied, its session reverted or gone, between the click and the commit. *)
ClickStaysWithItsList == RowOf(ui.last.clicked, ui.last.committed)

(* What the protocol says of a click (request.rs): it "commits the exact    *)
(* revision-stamped row previously queued by the renderer".                 *)
ClickCommitsShownRow == ui.last.committed = ui.last.clicked
-----------------------------------------------------------------------------
(* The inductive invariant behind it (EngineData_proofs).                   *)

Lists == {NoList} \cup [kind : {"suggest", "convert"}, who : Workers, of : Nat, learn : Nat, dict : Nat]

SessionStates == [state : {"idle", "suggest", "convert"}, reading : Nat, observed : Nat, cache : Lists]
ClickRequests == [rev : Nat, owner : Workers \cup {NoOne}, clicked : Lists]

States ==
  [rev : Nat \ {0}, list : Lists, owner : Workers \cup {NoOne}, learned : Nat,
   visible : BOOLEAN, pending : ClickRequests, sess : [Workers -> SessionStates],
   at : [Workers -> {"rest", "output", "clear", "click"}], out : [Workers -> Lists],
   seen : [rev : Nat, list : Lists], polled : [Workers -> ClickRequests],
   click : [Workers -> ClickRequests],
   erase : {"none", "found", "forgotten", "done"}, learn : Nat, dict : Nat,
   last : [clicked : Lists, committed : Lists]]

TypeOK == ui \in States /\ \A w \in Workers : ui.sess[w].observed <= ui.learn

(* A revision names one list: what the renderer draws and what was clicked  *)
(* under the present revision is the present list, of the present owner.    *)
RevisionNamesList ==
  /\ ui.seen.rev <= ui.rev /\ (ui.seen.rev = ui.rev => ui.seen.list = ui.list)
  /\ ui.pending.rev <= ui.rev
  /\ ui.pending.rev = ui.rev => ui.pending.clicked = ui.list /\ ui.pending.owner = ui.owner

(* What a session would commit is a row of what it shows, is about to show, *)
(* or was clicked; or it has nothing to commit any more.                    *)
Row(w) == RowNow(Fresh(ui.sess[w]), w)
FromList(list, row) == row = NoList \/ RowOf(list, row)
Follows(w) ==
  /\ ui.at[w] = "rest" /\ ui.owner = w => FromList(ui.list, Row(w))
  /\ ui.at[w] = "output" => FromList(ui.out[w], Row(w))
  /\ ui.at[w] = "click"  => FromList(ui.click[w].clicked, Row(w))
RowsFollow == \A w \in Workers : Follows(w)

IInv == TypeOK /\ RevisionNamesList /\ RowsFollow /\ ClickStaysWithItsList
=============================================================================

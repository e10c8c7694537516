------------------------------ MODULE Reranker ------------------------------
(* The optional reranking of conversions by a neural helper process         *)
(* (crates/sakura-engine/src/long_conversion.rs, with the two places of     *)
(* dispatch.rs that use it): a one-slot request, one worker thread with its *)
(* helper, a one-slot result, and the drop that ends the worker.            *)
(*                                                                          *)
(* What the model abstracts: a reading and the dictionary's version stand   *)
(* for the candidates they give, so two sets of candidates are equal exactly*)
(* when their fingerprints are.  Scores are the set they were computed for. *)
EXTENDS Naturals, TLC

CONSTANTS
  Sessions,    \* sessions of all owners, an owner being one dispatcher
  Readings,    \* readings that may be typed
  MaxVersion,  \* bound: user dictionary changes
  MaxGen       \* bound: prediction_generation of a session

VARIABLE rr

NoWork   == [session |-> "none"]
NoResult == [state |-> "none"]

(* The candidates of a reading under the present dictionary.                *)
Candidates(reading) == <<reading, rr.dict>>

Key(s) == [session |-> s, gen |-> rr.typed[s].gen, reading |-> rr.typed[s].reading]

Init == rr =
  [dict    |-> 0,
   typed   |-> [s \in Sessions |-> [gen |-> 0, reading |-> "none"]],
   pending |-> NoWork, result |-> NoResult,
   at      |-> "test",       \* worker_loop: test, empty, asleep, work, gone
   work    |-> NoWork,
   cooling |-> FALSE,        \* retry_after lies ahead
   helper  |-> FALSE,        \* a helper process runs
   ids     |-> 0,            \* next_request
   asked   |-> NoResult,     \* what the helper was asked and not yet answered
   shutdown |-> FALSE,
   drop    |-> "live",       \* drop: live, stored, joining, done
   applied |-> NoResult]     \* ghost: the last choice taken from a result

(* The worker tests and goes to sleep under the lock of `pending'.          *)
PendingIsLocked == rr.at = "empty"

-----------------------------------------------------------------------------
(* Keys.                                                                    *)

(* A key changes the reading and with it the prediction generation; once    *)
(* applied, the reading is queued if it is eligible.                        *)
TypeKey(s) == \E reading \in Readings : \E eligible \in BOOLEAN :
  /\ rr.drop = "live" /\ ~PendingIsLocked /\ rr.typed[s].gen < MaxGen
  /\ LET typed == [gen |-> rr.typed[s].gen + 1, reading |-> reading]
     IN rr' = [rr EXCEPT !.typed[s] = typed,
          !.pending = IF eligible
                      THEN [session |-> s, gen |-> typed.gen, reading |-> reading] ELSE @,
          !.at = IF eligible /\ @ = "asleep" THEN "test" ELSE @]

DictionaryChanges ==
  /\ rr.dict < MaxVersion /\ rr.drop = "live"
  /\ rr' = [rr EXCEPT !.dict = @ + 1]

(* Mutant: a result for the reading will do, whatever its candidates are. *)
MatchesMut(s) == rr.result.state = "Ready" /\ rr.result.key = Key(s)

(* selection(): the exact snapshot, scored in full.                         *)
Matches(s) ==
  /\ rr.result.state = "Ready" /\ rr.result.key = Key(s)
  /\ rr.result.set = Candidates(rr.typed[s].reading)

(* A conversion begins: the scores may replace the local choice, once.      *)
Convert(s) ==
  /\ rr.drop = "live" /\ rr.typed[s].reading # "none" /\ Matches(s)
  /\ \E outcome \in {"Applied", "Kept", "LocalFallback"} :
       rr' = [rr EXCEPT !.result.state = outcome,
                !.applied = IF outcome = "Applied"
                            THEN [state |-> "now", scores |-> rr.result.scores,
                                  shown |-> Candidates(rr.typed[s].reading)]
                            ELSE @]

-----------------------------------------------------------------------------
(* worker_loop.                                                             *)

Publish(state) == [state |-> state, key |-> rr.work, set |-> "none", scores |-> "none"]

(* Under the lock: sleep on, leave, or take the request.                    *)
Test ==
  /\ rr.at = "test"
  /\ rr' = [rr EXCEPT
       !.at      = IF rr.shutdown THEN "gone" ELSE IF rr.pending = NoWork THEN "empty" ELSE "work",
       !.work    = IF rr.shutdown THEN @ ELSE rr.pending,
       !.pending = IF rr.shutdown THEN @ ELSE NoWork,
       !.helper  = @ /\ ~rr.shutdown]

(* Condvar::wait releases the lock and sleeps in one step.                  *)
Sleep == rr.at = "empty" /\ rr' = [rr EXCEPT !.at = "asleep"]

Done(state) == [rr EXCEPT !.result = Publish(state), !.at = "test", !.work = NoWork]

(* Too few candidates; or a helper failed a moment ago.                     *)
Decline ==
  /\ rr.at = "work"
  /\ rr' \in {Done("LocalFallback")} \union (IF rr.cooling THEN {Done("Failed")} ELSE {})

StartHelper ==
  /\ rr.at = "work" /\ ~rr.cooling /\ ~rr.helper
  /\ rr' \in {[rr EXCEPT !.helper = TRUE, !.at = "send"],
              [Done("Failed") EXCEPT !.cooling = TRUE]}

UseHelper == rr.at = "work" /\ ~rr.cooling /\ rr.helper /\ rr' = [rr EXCEPT !.at = "send"]

(* The request is written; the candidates are those of this moment.  Or the *)
(* pipe is broken.                                                          *)
Send ==
  /\ rr.at = "send"
  /\ LET set == Candidates(rr.work.reading) IN
     rr' \in {[rr EXCEPT !.at = "wait", !.ids = @ + 1,
                 !.asked = [state |-> "asked", id |-> rr.ids + 1, set |-> set]],
              [Done("Failed") EXCEPT !.cooling = TRUE, !.helper = FALSE, !.ids = @ + 1]}

(* The answer to the request, in time; its scores are of what was asked.    *)
Answered ==
  /\ rr.at = "wait" /\ rr.asked.id = rr.ids
  /\ rr' = [rr EXCEPT !.at = "test", !.work = NoWork, !.cooling = FALSE, !.asked = NoResult,
              !.result = [state |-> "Ready", key |-> rr.work,
                          set |-> rr.asked.set, scores |-> rr.asked.set]]

(* No answer within 500 ms, one that fails, or a helper that ends: the      *)
(* helper is terminated with whatever it still had to say.                  *)
Unanswered == \E state \in {"TimedOut", "Failed"} :
  /\ rr.at = "wait"
  /\ rr' = [Done(state) EXCEPT !.cooling = TRUE, !.helper = FALSE, !.asked = NoResult]

CooledDown == rr.cooling /\ rr' = [rr EXCEPT !.cooling = FALSE]

Worker == Test \/ Sleep \/ Decline \/ StartHelper \/ UseHelper \/ Send \/ Answered \/ Unanswered

-----------------------------------------------------------------------------
(* drop(LongConversionRuntime): no step takes the lock of `pending'.        *)

DropStores  == rr.drop = "live" /\ rr' = [rr EXCEPT !.drop = "stored", !.shutdown = TRUE]
DropNotifies ==
  /\ rr.drop = "stored"
  /\ rr' = [rr EXCEPT !.drop = "joining", !.at = IF @ = "asleep" THEN "test" ELSE @]
DropJoins   == rr.drop = "joining" /\ rr.at = "gone" /\ rr' = [rr EXCEPT !.drop = "done"]
Dropping    == DropStores \/ DropNotifies \/ DropJoins

Next ==
  \/ \E s \in Sessions : TypeKey(s) \/ Convert(s)
  \/ DictionaryChanges \/ Worker \/ CooledDown \/ Dropping

Spec == Init /\ [][Next]_rr

(* The worker is a thread; a drop that began goes on.                       *)
Fairness == WF_rr(Worker) /\ WF_rr(DropNotifies) /\ WF_rr(DropJoins)
FairSpec == Spec /\ Fairness

-----------------------------------------------------------------------------
(* A choice replaced by the model was scored among exactly the candidates   *)
(* on the list it is taken for, though the reading, the dictionary and the  *)
(* helper may have changed since the request.                               *)
NoStaleChoice == rr.applied.state = "now" => rr.applied.scores = rr.applied.shown

(* Why: what is ready carries scores of the very set it is compared by.     *)
Works   == [session : Sessions, gen : Nat, reading : Readings] \union {NoWork}
Sets    == ((Readings \union {"none"}) \X Nat) \union {"none"}
Results == [state : {"Ready", "Applied", "Kept", "LocalFallback", "Failed", "TimedOut"},
            key : Works, set : Sets, scores : Sets] \union {NoResult}

Questions == [state : {"asked"}, id : Nat, set : Sets] \union {NoResult}

States ==
  [dict : Nat, typed : [Sessions -> [gen : Nat, reading : Readings \union {"none"}]],
   pending : Works, result : Results,
   at : {"test", "empty", "asleep", "work", "send", "wait", "gone"}, work : Works,
   cooling : BOOLEAN, helper : BOOLEAN, ids : Nat,
   asked : Questions,
   shutdown : BOOLEAN, drop : {"live", "stored", "joining", "done"},
   applied : [state : {"now"}, scores : Sets, shown : Sets] \union {NoResult}]

TypeOK == rr \in States

WorkerOK ==
  /\ rr.at \in {"work", "send", "wait"} => rr.work # NoWork
  /\ rr.at = "wait" => rr.asked # NoResult
ReadyIsScored == rr.result.state = "Ready" => rr.result.scores = rr.result.set

IInv == TypeOK /\ WorkerOK /\ ReadyIsScored /\ NoStaleChoice

(* long_conversion.rs:223 "Owns the bounded worker thread and its exact     *)
(* child-process cleanup": dropping the runtime ends.                       *)
DropEnds == rr.drop = "stored" ~> rr.drop = "done"
=============================================================================

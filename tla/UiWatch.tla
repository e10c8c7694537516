------------------------------ MODULE UiWatch ------------------------------
(* Waiting for the board, saying farewell and bringing the engine back:     *)
(* UiBoard::wait_past, stop and settle (crates/sakura-engine/src/ui.rs), the*)
(* WatchUi branch and the end of Server::run (server.rs), and the watchdog  *)
(* of the renderer (crates/sakura-renderer/src/watch.rs).                   *)
(*                                                                          *)
(* A watcher asks, is counted, waits for a revision it does not have, and is*)
(* counted out when its answer has been written.  A watcher that loses its  *)
(* engine without a farewell connects again or starts the engine.           *)
EXTENDS Naturals, FiniteSets

CONSTANTS
  Watchers,  \* renderers
  MaxRev,    \* bound: revisions of one engine's board
  MaxStarts, \* bound: engines started
  MaxFaults  \* bound: pipes that break under an answer

VARIABLE uw

Start == [at |-> "lost", since |-> 0, farewell |-> FALSE, launched |-> FALSE]

Init == uw =
  [rev |-> 1, stopping |-> FALSE, delivering |-> 0,
   watcher  |-> [w \in Watchers |-> Start],
   engine   |-> "serving",  \* serving, settle, settling, over, late, crashed
   installed |-> TRUE,      \* the engine's file is there
   starts   |-> 1, faults |-> 0,
   waiting  |-> {}]         \* ghost: watchers that waited when the stop was announced,
                            \* with a pipe that works

At(w)   == uw.watcher[w].at
Running == uw.engine \in {"serving", "settle", "settling"}

Connected == {"away", "look", "asleep", "write", "counted"}

-----------------------------------------------------------------------------
(* The engine's side of a call.                                             *)

(* Mutant: a watcher is counted only when it is woken. *)
AskMut(w) ==
  /\ Running /\ At(w) = "away"
  /\ uw' = [uw EXCEPT !.watcher[w].at = "look"]

(* wait_past: counted before it waits.                                      *)
Ask(w) ==
  /\ Running /\ At(w) = "away"
  /\ uw' = [uw EXCEPT !.watcher[w].at = "look", !.delivering = @ + 1]

Answer(w, at) == [uw.watcher[w] EXCEPT !.at = at, !.since = uw.rev, !.farewell = uw.stopping]

(* Under the lock of the state: an answer, or asleep.                       *)
Look(w) ==
  /\ Running /\ At(w) = "look"
  /\ uw' = [uw EXCEPT !.watcher[w] =
              IF uw.rev = uw.watcher[w].since THEN [@ EXCEPT !.at = "asleep"] ELSE Answer(w, "write")]

(* The heartbeat answers with what there is.                                *)
Heartbeat(w) ==
  /\ Running /\ At(w) = "asleep" /\ uw' = [uw EXCEPT !.watcher[w] = Answer(w, "write")]

(* The answer is on the wire, or the pipe has failed.                       *)
Write(w) == \E at \in {"counted", "failed"} :
  /\ Running /\ At(w) = "write" /\ (at = "failed" => uw.faults < MaxFaults)
  /\ uw' = [uw EXCEPT !.watcher[w].at = at, !.faults = IF at = "failed" THEN @ + 1 ELSE @,
              !.waiting = IF at = "failed" THEN @ \ {w} ELSE @]

(* What the watcher makes of it: a farewell ends it, an answer is followed  *)
(* by the next call, a broken pipe by a new connection.                     *)
AfterCall(w) ==
  IF At(w) = "failed" THEN [uw.watcher[w] EXCEPT !.at = "lost", !.since = 0, !.farewell = FALSE]
  ELSE [uw.watcher[w] EXCEPT !.at = IF uw.watcher[w].farewell THEN "ended" ELSE "away"]

Dropped(w, last) == [uw EXCEPT !.delivering = @ - 1, !.watcher[w] = AfterCall(w),
              !.engine = IF @ = "settling" /\ last THEN "settle" ELSE @]

(* drop(Delivery): counted out under the lock, the last one tells settle.   *)
Drop(w) == Running /\ At(w) \in {"counted", "failed"} /\ uw' = Dropped(w, uw.delivering = 1)

Wake == [w \in Watchers |-> IF At(w) = "asleep" THEN [uw.watcher[w] EXCEPT !.at = "look"]
                            ELSE uw.watcher[w]]

(* Every publication of the board moves the revision.                       *)
Publish ==
  /\ uw.rev < MaxRev /\ uw.engine = "serving"
  /\ uw' = [uw EXCEPT !.rev = @ + 1, !.watcher = Wake]

-----------------------------------------------------------------------------
(* The engine's end.                                                        *)

(* A requested stop.  It moves the revision, so that a watcher which has    *)
(* the newest is answered too.                                              *)
Stop ==
  /\ uw.engine = "serving"
  /\ uw' = [uw EXCEPT !.engine = "settle", !.stopping = TRUE, !.rev = @ + 1, !.watcher = Wake,
              !.waiting = {w \in Watchers : At(w) \in {"look", "asleep"}}]

(* settle tests the count and goes to sleep under its lock.                 *)
Settle ==
  /\ uw.engine = "settle"
  /\ uw' = [uw EXCEPT !.engine = IF uw.delivering = 0 THEN "over" ELSE "settling"]

(* SHUTDOWN_GRACE has passed.                                               *)
GraceEnds == uw.engine = "settling" /\ uw' = [uw EXCEPT !.engine = "late"]

(* The engine dies, or has no pipe instance left.                           *)
Crash == uw.engine = "serving" /\ uw' = [uw EXCEPT !.engine = "crashed"]

Uninstall == uw.installed /\ uw.stopping /\ uw' = [uw EXCEPT !.installed = FALSE]

-----------------------------------------------------------------------------
(* The watchdog: run() and follow().                                        *)

(* The pipe breaks under a call, or before the next one; an answer that was *)
(* written before is still read.                                            *)
Unplugged(w) ==
  IF At(w) = "counted" /\ uw.watcher[w].farewell THEN AfterCall(w)
  ELSE [uw.watcher[w] EXCEPT !.at = "lost", !.since = 0, !.farewell = FALSE]
Severed(w) == At(w) \in Connected \union {"failed"}

Lose(w) == ~Running /\ Severed(w) /\ uw' = [uw EXCEPT !.watcher[w] = Unplugged(w)]

Connect(w) ==
  /\ Running /\ At(w) = "lost"
  /\ uw' = [uw EXCEPT !.watcher[w] = [@ EXCEPT !.at = "away", !.launched = FALSE]]

(* The engine cannot be reached: there is none to start, one was started a  *)
(* moment ago, or it is started.                                            *)
GiveUp(w) == ~Running /\ At(w) = "lost" /\ ~uw.installed /\ uw' = [uw EXCEPT !.watcher[w].at = "ended"]

Relaunch(w) ==
  /\ ~Running /\ At(w) = "lost" /\ uw.installed /\ ~uw.watcher[w].launched
  /\ uw.starts < MaxStarts
  /\ uw' = [uw EXCEPT !.engine = "serving", !.rev = 1, !.stopping = FALSE, !.delivering = 0,
              !.starts = @ + 1,
              !.watcher = [v \in Watchers |-> IF v = w THEN [@[v] EXCEPT !.launched = TRUE]
                                              ELSE IF Severed(v) THEN Unplugged(v) ELSE @[v]],
              !.waiting = {}]

(* RELAUNCH_GAP has passed.                                                 *)
GapEnds(w) == uw.watcher[w].launched /\ uw' = [uw EXCEPT !.watcher[w].launched = FALSE]

CallStep(w)  == Look(w) \/ Write(w) \/ Drop(w)
WatchStep(w) == Lose(w) \/ Connect(w) \/ GiveUp(w) \/ Relaunch(w) \/ GapEnds(w)

Next ==
  \/ \E w \in Watchers : Ask(w) \/ CallStep(w) \/ Heartbeat(w) \/ WatchStep(w)
  \/ Publish \/ Stop \/ Settle \/ GraceEnds \/ Crash \/ Uninstall

Spec == Init /\ [][Next]_uw

(* Threads run and renderers read; neither the grace nor the heartbeat has  *)
(* to help.                                                                 *)
Fairness ==
  /\ WF_uw(Settle)
  /\ \A w \in Watchers : WF_uw(CallStep(w)) /\ WF_uw(WatchStep(w))
FairSpec == Spec /\ Fairness

-----------------------------------------------------------------------------
(* An engine that ends without having run out of grace has answered every   *)
(* watcher that was waiting when it was stopped and whose pipe did not      *)
(* break: it has been told of the stop.                                     *)
FarewellReachesWatchers ==
  uw.engine = "over" => \A w \in uw.waiting : At(w) = "ended"

(* With renderers that read their pipe a stop ends without the grace: the   *)
(* wake-up of the last delivery is not missed, and a watcher that comes     *)
(* after the stop is answered at once.  An engine that dies is started      *)
(* again while a watcher is there to do it.                                 *)
StopsAndStarts ==
  /\ uw.engine = "settle" ~> uw.engine # "settle" /\ uw.engine # "settling"
  /\ (uw.engine = "crashed" /\ uw.starts < MaxStarts) ~> (uw.engine # "crashed" \/ \A w \in Watchers : At(w) = "ended")

-----------------------------------------------------------------------------
(* Why.  A running engine counts the watchers that wait for an answer or    *)
(* are given one.                                                           *)
Served == {w \in Watchers : At(w) \in {"look", "asleep", "write", "counted", "failed"}}

TypeOK ==
  uw \in [rev : Nat, stopping : BOOLEAN, delivering : Nat,
         watcher : [Watchers -> [at : Connected \cup {"failed", "lost", "ended"}, since : Nat,
                                 farewell : BOOLEAN, launched : BOOLEAN]],
         engine : {"serving", "settle", "settling", "over", "late", "crashed"},
         installed : BOOLEAN, starts : Nat, faults : Nat, waiting : SUBSET Watchers]

(* What a watcher has seen is not newer than the board.                     *)
SeenIsPast ==
  \A w \in Watchers :
    /\ At(w) = "lost" => uw.watcher[w].since = 0
    /\ Running /\ At(w) \in Connected => uw.watcher[w].since <= uw.rev

(* Whoever waited when the stop was announced is on the way to its farewell.*)
Farewell(w) ==
  \/ At(w) = "ended"
  \/ At(w) = "look" /\ uw.watcher[w].since < uw.rev
  \/ At(w) \in {"write", "counted"} /\ uw.watcher[w].farewell

Counted   == Running => uw.delivering = Cardinality(Served)
Announced == uw.stopping <=> uw.engine \in {"settle", "settling", "over", "late"}
FarewellIsDue == uw.engine \in {"settle", "settling"} => \A w \in uw.waiting : Farewell(w)

IInv ==
  TypeOK /\ SeenIsPast /\ Counted /\ Announced /\ FarewellIsDue /\ FarewellReachesWatchers
=============================================================================

------------------------- MODULE PredictionMailbox -------------------------
(* The prediction worker and its callers                                    *)
(* (crates/sakura-engine/src/prediction.rs, refresh_prediction of           *)
(* dispatch.rs): pipe workers publish queries into one slot and wait for    *)
(* their own result; the worker ranks the newest; learning may change       *)
(* meanwhile; a stop ends everybody.                                        *)
(*                                                                          *)
(* `lock' is the holder of MailboxState's mutex between two steps of one    *)
(* critical section; sections that are one step need none.  A query is its  *)
(* sequence number; ranking reads the history of one moment.                *)
EXTENDS Naturals

CONSTANTS
  Callers,   \* pipe workers
  MaxSeq,    \* bound: queries
  MaxEpoch   \* bound: changes of the learned history

VARIABLE pm

Resting == [at |-> "rest", seq |-> 0, epoch |-> 0, got |-> FALSE, list |-> 0]

Init == pm =
  [caller   |-> [c \in Callers |-> Resting],
   seq      |-> 0,           \* next_sequence
   pending  |-> 0,           \* MailboxState::pending, 0 for none
   result   |-> 0,           \* sequence of the result, 0 for none
   ranked   |-> 0,           \* the history the result was ranked with
   epoch    |-> 0,           \* LearningService::generation
   worker   |-> "test",      \* test, empty, asleep, rank, publish, gone
   query    |-> 0, history |-> 0,
   stopping |-> FALSE,
   stop     |-> "live",      \* live, flagged, joining, done
   lock     |-> "free",
   shown    |-> [c \in Callers |-> [epoch |-> 0, is |-> 0]]]
                             \* ghost: the history a caller's list stands for

Free == pm.lock = "free"

-----------------------------------------------------------------------------
(* A caller: refresh_prediction around Mailbox::publish and wait_into.      *)

(* The history is noted, the sequence taken, before the mailbox is locked.  *)
Number(c) ==
  /\ pm.caller[c].at = "rest" /\ ~pm.stopping /\ pm.seq < MaxSeq
  /\ pm' = [pm EXCEPT !.seq = @ + 1,
       !.caller[c] = [Resting EXCEPT !.at = "publish", !.seq = pm.seq + 1, !.epoch = pm.epoch]]

(* A query that waits there is displaced; the worker is notified.           *)
PublishQuery(c) ==
  /\ pm.caller[c].at = "publish" /\ Free
  /\ pm' = [pm EXCEPT !.pending = pm.caller[c].seq, !.caller[c].at = "look",
                      !.worker = IF @ = "asleep" THEN "test" ELSE @]

Copied(me) == [me EXCEPT !.at = "check", !.got = TRUE, !.list = pm.ranked]

(* Under the lock: the result is mine, or overtook me, or a stop, or sleep. *)
Look(c) ==
  /\ pm.caller[c].at = "look" /\ Free
  /\ LET me == pm.caller[c] IN
     pm' = [pm EXCEPT !.caller[c] =
              IF pm.result = me.seq     THEN Copied(me)
              ELSE IF pm.result > me.seq \/ pm.stopping THEN [me EXCEPT !.at = "check"]
              ELSE [me EXCEPT !.at = "sleep"],
            !.lock = IF pm.result >= me.seq \/ pm.stopping THEN @ ELSE c]

(* Condvar::wait_timeout gives the lock back as it goes to sleep.           *)
FallAsleep(c) ==
  /\ pm.caller[c].at = "sleep" /\ pm.lock = c
  /\ pm' = [pm EXCEPT !.caller[c].at = "asleep", !.lock = "free"]

(* The time is up; a result that came with the last tick still counts.      *)
TimeOut(c) ==
  /\ pm.caller[c].at = "asleep" /\ Free
  /\ LET me == pm.caller[c] IN
     pm' = [pm EXCEPT !.caller[c] = IF pm.result = me.seq THEN Copied(me)
                                    ELSE [me EXCEPT !.at = "check"]]

(* Mutant: a result is shown whatever was learned meanwhile. *)
CheckMut(c) ==
  /\ pm.caller[c].at = "check"
  /\ pm' = [pm EXCEPT !.caller[c] = Resting,
       !.shown[c] = IF pm.caller[c].got THEN [epoch |-> pm.epoch, is |-> pm.caller[c].list] ELSE @]

(* A result ranked while the history changed is not shown.                  *)
Check(c) ==
  /\ pm.caller[c].at = "check"
  /\ pm' = [pm EXCEPT !.caller[c] = Resting,
       !.shown[c] = IF pm.caller[c].got /\ pm.epoch = pm.caller[c].epoch
                    THEN [epoch |-> pm.epoch, is |-> pm.caller[c].list] ELSE @]

(* A commit or a clear of another connection.                               *)
Learn == pm.epoch < MaxEpoch /\ pm' = [pm EXCEPT !.epoch = @ + 1]

-----------------------------------------------------------------------------
(* worker().                                                                *)

WakeCallers(c) == IF c.at = "asleep" THEN [c EXCEPT !.at = "look"] ELSE c
AllAwake == [c \in Callers |-> WakeCallers(pm.caller[c])]

Test ==
  /\ pm.worker = "test" /\ Free
  /\ pm' = [pm EXCEPT
       !.worker  = IF pm.stopping THEN "gone" ELSE IF pm.pending = 0 THEN "empty" ELSE "rank",
       !.query   = IF pm.stopping THEN @ ELSE pm.pending,
       !.pending = IF pm.stopping THEN @ ELSE 0,
       !.caller  = IF pm.stopping THEN AllAwake ELSE @,
       !.lock    = IF ~pm.stopping /\ pm.pending = 0 THEN "worker" ELSE @]

Sleep == pm.worker = "empty" /\ pm' = [pm EXCEPT !.worker = "asleep", !.lock = "free"]

(* predict_into, outside the lock, visits the history of one moment.        *)
Rank == pm.worker = "rank" /\ pm' = [pm EXCEPT !.worker = "publish", !.history = pm.epoch]

Deliver ==
  /\ pm.worker = "publish" /\ Free
  /\ pm' = [pm EXCEPT !.result = pm.query, !.ranked = pm.history,
                      !.worker = "test", !.caller = AllAwake]

Worker == Test \/ Sleep \/ Rank \/ Deliver

-----------------------------------------------------------------------------
(* Mailbox::stop and the join that follows.                                 *)

(* Mutant: the flag is set without the lock. *)
FlagMut == pm.stop = "live" /\ pm' = [pm EXCEPT !.stop = "flagged", !.stopping = TRUE]

Flag == pm.stop = "live" /\ Free /\ pm' = [pm EXCEPT !.stop = "flagged", !.stopping = TRUE]

Notify ==
  /\ pm.stop = "flagged"
  /\ pm' = [pm EXCEPT !.stop = "joining", !.caller = AllAwake,
                      !.worker = IF @ = "asleep" THEN "test" ELSE @]

Join == pm.stop = "joining" /\ pm.worker = "gone" /\ pm' = [pm EXCEPT !.stop = "done"]

CallerStep(c) == PublishQuery(c) \/ Look(c) \/ FallAsleep(c) \/ Check(c)

Next ==
  \/ \E c \in Callers : Number(c) \/ CallerStep(c) \/ TimeOut(c)
  \/ Learn \/ Worker \/ Flag \/ Notify \/ Join

Spec == Init /\ [][Next]_pm

(* Threads that can go on do, and a lock is not held for ever; time limits  *)
(* are not needed for a stop to end.                                        *)
Fairness ==
  /\ SF_pm(Worker) /\ WF_pm(Notify) /\ WF_pm(Join)
  /\ \A c \in Callers : SF_pm(CallerStep(c))
FairSpec == Spec /\ Fairness

-----------------------------------------------------------------------------
(* A list that is shown was ranked with the history of the moment it is     *)
(* shown: what was forgotten or learned while it was computed never appears.*)
ShownIsCurrent == [][\A c \in Callers :
    pm'.shown[c] # pm.shown[c] => pm'.shown[c].is = pm.epoch]_pm

(* A stop ends: the worker is joined and no caller is left waiting, even if *)
(* nobody's time ran out.                                                   *)
StopEnds == pm.stopping ~> (pm.stop = "done" /\ \A c \in Callers : pm.caller[c].at = "rest")

-----------------------------------------------------------------------------
(* Why.  The result, and the ranking under way, of a caller's query are of  *)
(* a history no older than the one the caller noted when it asked.          *)
Asking == [at : {"rest", "publish", "look", "sleep", "asleep", "check"}, seq : Nat, epoch : Nat,
           got : BOOLEAN, list : Nat]

TypeOK ==
  pm \in [caller : [Callers -> Asking], seq : Nat, pending : Nat, result : Nat, ranked : Nat,
         epoch : Nat, worker : {"test", "empty", "asleep", "rank", "publish", "gone"},
         query : Nat, history : Nat, stopping : BOOLEAN,
         stop : {"live", "flagged", "joining", "done"}, lock : Callers \cup {"free", "worker"},
         shown : [Callers -> [epoch : Nat, is : Nat]]]

Numbered ==
  /\ pm.pending <= pm.seq /\ pm.query <= pm.seq /\ pm.result <= pm.seq
  /\ \A c \in Callers : pm.caller[c].seq <= pm.seq

Fresh(me) ==
  /\ me.epoch <= pm.epoch
  /\ me.got => me.epoch <= me.list /\ me.list <= pm.epoch
  /\ pm.worker = "publish" /\ pm.query = me.seq => me.epoch <= pm.history
  /\ pm.result = me.seq => me.epoch <= pm.ranked

IInv ==
  /\ TypeOK /\ Numbered /\ pm.history <= pm.epoch /\ pm.ranked <= pm.epoch
  /\ \A c \in Callers : pm.caller[c].at # "rest" => Fresh(pm.caller[c])
=============================================================================

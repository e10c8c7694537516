--------------------------- MODULE HistoryRuntime ---------------------------
(* The life cycle of the optional developer history                         *)
(* (crates/sakura-engine/src/history_runtime.rs; hold_history_lifecycle and *)
(* runtime_services of server.rs, clear_input_history of dispatch.rs): the  *)
(* configuration says whether there is to be one, one worker opens and      *)
(* stops the services, requests that clear the store hold the worker still. *)
(*                                                                          *)
(* A service is named by the generation that opened it.  It owns the lock   *)
(* of the store from its opening until its writer has been joined.  All of  *)
(* the state is behind one mutex; a step is one critical section.           *)
EXTENDS Naturals, FiniteSets

CONSTANTS
  Holders,   \* requests that clear the history
  MaxGen     \* bound: changes of mind of the configuration

ASSUME RuntimeAssumption == MaxGen \in Nat \ {0} /\ Holders \cap (0..MaxGen) = {}

VARIABLE hr

None == 0

Request == [at |-> "rest", service |-> None]

Init == \E enabled \in BOOLEAN : hr =
  [wish |-> enabled, gen |-> IF enabled THEN 1 ELSE 0,
   phase    |-> IF enabled THEN "Starting" ELSE "Disabled",
   service  |-> None,        \* what requests see
   retiring |-> {}, stopping |-> {}, opening |-> FALSE,
   exited   |-> FALSE, shutdown |-> FALSE,
   holds    |-> 0,
   request  |-> [h \in Holders |-> Request],
   worker   |-> "test",      \* test, asleep, stop, open, publish, gone
   taken    |-> None,        \* the generation the worker opens
   quit     |-> FALSE,       \* shutdown, as the worker read it
   opened   |-> FALSE,
   owner    |-> None,        \* of the store lock
   trace    |-> FALSE]       \* debug_trace::set_enabled

IsIdle ==
  \/ hr.exited
  \/ ~hr.opening /\ hr.stopping = {} /\ hr.retiring = {} /\ hr.phase # "Starting"

Woken == IF hr.worker = "asleep" THEN "test" ELSE hr.worker

Retired == IF hr.service = None THEN hr.retiring ELSE hr.retiring \union {hr.service}

-----------------------------------------------------------------------------
(* configure(): a newly published configuration.                            *)
Configure ==
  /\ ~hr.shutdown /\ hr.gen < MaxGen
  /\ hr' = [hr EXCEPT !.wish = ~@, !.gen = @ + 1, !.worker = Woken,
       !.phase    = IF hr.wish THEN "Disabled" ELSE "Starting",
       !.retiring = IF hr.wish THEN Retired ELSE @,
       !.service  = IF hr.wish THEN None ELSE @,
       !.trace    = IF hr.wish THEN FALSE ELSE @]

(* stop(), up to the join of the worker.                                    *)
Stop ==
  /\ ~hr.shutdown
  /\ hr' = [hr EXCEPT !.shutdown = TRUE, !.wish = FALSE, !.gen = @ + 1, !.worker = Woken,
       !.trace = @ /\ ~hr.wish,
       !.retiring = Retired, !.service = None, !.phase = "Shutdown"]

-----------------------------------------------------------------------------
(* hold_idle() and the request under it.                                    *)

Held(h) == [hr EXCEPT !.holds = @ + 1, !.request[h] = [at |-> "held", service |-> hr.service]]

Ask(h) ==
  /\ hr.request[h].at \in {"rest", "look"}
  /\ hr' = IF IsIdle THEN Held(h) ELSE [hr EXCEPT !.request[h].at = "asleep"]

(* The last look when the time is up; then the request is refused, busy.    *)
TimeOut(h) ==
  /\ hr.request[h].at = "asleep"
  /\ hr' = IF IsIdle THEN Held(h) ELSE [hr EXCEPT !.request[h].at = "busy"]

(* clear_path takes the lock of the store: an owner makes it fail.  With a  *)
(* service the clear is the service's own.                                  *)
ClearPath(h) ==
  /\ hr.request[h] = [at |-> "held", service |-> None]
  /\ hr' = [hr EXCEPT !.request[h].at = IF hr.owner = None THEN "clearing" ELSE "refused",
                      !.owner = IF @ = None THEN h ELSE @]

(* drop(LifecycleHold): the last one wakes the worker.                      *)
Release(h) ==
  /\ hr.request[h].at \in {"held", "clearing", "refused"}
  /\ hr.request[h].at = "held" => hr.request[h].service # None
  /\ hr' = [hr EXCEPT !.holds = @ - 1, !.request[h].at = "done",
                      !.owner = IF @ = h THEN None ELSE @,
                      !.worker = IF hr.holds = 1 THEN Woken ELSE @]

-----------------------------------------------------------------------------
(* worker_loop().                                                           *)

Settled(r) == IF r.at = "asleep" THEN [r EXCEPT !.at = "look"] ELSE r
AllSettled == [h \in Holders |-> Settled(hr.request[h])]

HasWork == hr.retiring # {} \/ hr.shutdown \/ hr.phase = "Starting"

Sleep ==
  /\ hr.worker = "test" /\ (hr.holds > 0 \/ ~HasWork)
  /\ hr' = [hr EXCEPT !.worker = "asleep", !.request = AllSettled]

(* Mutant: a hold keeps nothing back. *)
TakeMut ==
  /\ hr.worker = "test" /\ HasWork
  /\ hr' = [hr EXCEPT !.worker = "stop", !.quit = hr.shutdown,
       !.taken = IF hr.phase = "Starting" THEN hr.gen ELSE None,
       !.stopping = @ \union hr.retiring, !.retiring = {},
       !.opening = hr.phase = "Starting"]

Take ==
  /\ hr.worker = "test" /\ hr.holds = 0 /\ HasWork
  /\ hr' = [hr EXCEPT !.worker = "stop", !.quit = hr.shutdown,
       !.taken = IF hr.phase = "Starting" THEN hr.gen ELSE None,
       !.stopping = @ \union hr.retiring, !.retiring = {},
       !.opening = hr.phase = "Starting"]

(* stop_service: the writer is joined and gives the lock up, then it is     *)
(* counted out; two steps, the second under the mutex.                      *)
JoinWriter ==
  /\ hr.worker = "stop" /\ hr.owner \in hr.stopping
  /\ hr' = [hr EXCEPT !.owner = None]

CountOut == \E g \in hr.stopping :
  /\ hr.worker = "stop" /\ hr.owner # g
  /\ hr' = [hr EXCEPT !.stopping = @ \ {g}]

AllStopped ==
  /\ hr.worker = "stop" /\ hr.stopping = {}
  /\ hr' = [hr EXCEPT
       !.worker  = IF hr.taken # None THEN "open" ELSE IF hr.quit THEN "gone" ELSE "test",
       !.exited  = hr.taken = None /\ hr.quit,
       !.request = IF hr.taken = None /\ hr.quit THEN AllSettled ELSE @]

(* The opener takes the lock of the store; it fails if somebody has it, or  *)
(* for reasons of its own.                                                  *)
Open ==
  /\ hr.worker = "open"
  /\ hr' \in {[hr EXCEPT !.worker = "publish", !.opened = FALSE]} \union
       (IF hr.owner = None
        THEN {[hr EXCEPT !.worker = "publish", !.opened = TRUE, !.owner = hr.taken]} ELSE {})

Wanted == ~hr.shutdown /\ hr.wish /\ hr.gen = hr.taken /\ hr.phase = "Starting"

(* One critical section: published, failed, or opened too late and stopped. *)
Publish ==
  /\ hr.worker = "publish"
  /\ LET current == hr.opened /\ Wanted
         late    == hr.opened /\ ~Wanted
     IN hr' = [hr EXCEPT !.opening = FALSE, !.taken = None, !.quit = FALSE,
          !.worker   = IF late THEN "stop" ELSE "test",
          !.stopping = IF late THEN @ \union {hr.taken} ELSE @,
          !.service  = IF current THEN hr.taken ELSE @,
          !.trace    = @ \/ current,
          !.phase    = IF ~Wanted THEN @ ELSE IF hr.opened THEN "Active" ELSE "Failed"]

Worker == Sleep \/ Take \/ JoinWriter \/ CountOut \/ AllStopped \/ Open \/ Publish

RequestStep(h) == Ask(h) \/ ClearPath(h) \/ Release(h)

Next ==
  \/ Configure \/ Stop \/ Worker
  \/ \E h \in Holders : RequestStep(h) \/ TimeOut(h)

Spec == Init /\ [][Next]_hr

(* The worker runs; a request that began is answered.  No fairness for time *)
(* limits: a wake-up that is missed only ends by one.                       *)
Fairness ==
  /\ WF_hr(Worker)
  /\ \A h \in Holders : WF_hr(hr.request[h].at # "rest" /\ RequestStep(h))
FairSpec == Spec /\ Fairness

-----------------------------------------------------------------------------
(* The store changes hands in order, however often the configuration has    *)
(* changed its mind: nothing is opened over a living owner; while a request *)
(* holds the life cycle the store keeps the owner it then had, so the clear *)
(* finds the service it was given alive, or no owner at all; what requests  *)
(* see is the service of the newest wish, alive, and the trace runs only    *)
(* beside it.                                                               *)
StoreChangesHandsInOrder ==
  /\ hr.worker = "open" => hr.owner = None
  /\ \A h \in Holders :
       LET r == hr.request[h] IN
       r.at \in {"held", "clearing", "refused"} =>
         IF r.service = None THEN hr.owner \in Holders \union {None} ELSE hr.owner = r.service
  /\ hr.service # None => hr.wish /\ hr.service = hr.gen /\ hr.owner = hr.service
  /\ hr.trace => hr.service # None

(* A wish is settled, a request that waits for that is told, and a stop     *)
(* ends with nothing running.                                               *)
LifeCycleSettles ==
  /\ hr.phase = "Starting" ~> hr.phase # "Starting"
  /\ \A h \in Holders : hr.request[h].at = "asleep" ~> hr.request[h].at # "asleep"
  /\ hr.shutdown ~> (hr.worker = "gone" /\ hr.owner = None)
-----------------------------------------------------------------------------
(* The inductive invariant behind it (EngineServices_proofs).               *)

Gens   == 1..MaxGen
Holding(h) == hr.request[h].at \in {"held", "clearing", "refused"}

Requests ==
  [Holders -> [at : {"rest", "look", "asleep", "busy", "held", "clearing", "refused", "done"},
               service : {None} \union Gens]]

States ==
  [wish : BOOLEAN, gen : Nat,
   phase : {"Starting", "Disabled", "Active", "Failed", "Shutdown"},
   service : {None} \union Gens, retiring : SUBSET Gens, stopping : SUBSET Gens,
   opening : BOOLEAN, exited : BOOLEAN, shutdown : BOOLEAN, holds : Nat,
   request : Requests,
   worker : {"test", "asleep", "stop", "open", "publish", "gone"},
   taken : {None} \union Gens, quit : BOOLEAN, opened : BOOLEAN,
   owner : {None} \union Gens \union Holders, trace : BOOLEAN]

TypeOK == hr \in States

(* What the wish allows: a service and a phase that wait for nobody else.   *)
WishOK ==
  /\ hr.service # None => hr.wish /\ hr.service = hr.gen
  /\ hr.phase = "Starting" => hr.wish /\ hr.service = None /\ hr.gen > 0
  /\ hr.wish \/ ~hr.shutdown => hr.gen <= MaxGen
  /\ hr.shutdown => ~hr.wish
  /\ hr.trace => hr.service # None
  /\ \A g \in hr.retiring : g < hr.gen

(* Where the worker is: what it has taken, and what must not change then.   *)
WorkerOK ==
  /\ hr.opening <=> hr.taken # None
  /\ hr.opening => hr.service = None /\ hr.retiring = {} /\ hr.worker \in {"stop", "open", "publish"}
  /\ hr.worker \in {"open", "publish"} => hr.opening
  /\ hr.worker # "stop" => hr.stopping = {}
  /\ hr.service \notin hr.stopping
  /\ hr.quit => hr.shutdown /\ hr.retiring = {}
  /\ hr.exited => hr.worker = "gone" /\ hr.shutdown /\ hr.retiring = {}

(* Holds are counted, and keep the worker from stopping and opening.        *)
HoldsOK ==
  LET holding == {h \in Holders : Holding(h)}
  IN  /\ IsFiniteSet(holding) /\ hr.holds = Cardinality(holding)
      /\ holding # {} => ~hr.opening /\ hr.stopping = {}

(* Every owner of the store is somebody who will give it up.                *)
OwnerOK ==
  /\ hr.service # None => hr.owner = hr.service
  /\ hr.worker = "publish" /\ hr.opened => hr.owner = hr.taken
  /\ hr.owner \in Gens =>
       hr.owner \in {hr.service} \union hr.retiring \union hr.stopping \union
         (IF hr.worker = "publish" /\ hr.opened THEN {hr.taken} ELSE {})
  /\ hr.owner \in Holders => hr.request[hr.owner].at = "clearing"

(* A request under a hold was given the service that owns the store.        *)
RequestsOK == \A h \in Holders : Holding(h) =>
  IF hr.request[h].service = None THEN hr.owner \in Holders \union {None}
                                  ELSE hr.owner = hr.request[h].service

IInv == TypeOK /\ WishOK /\ WorkerOK /\ HoldsOK /\ OwnerOK /\ RequestsOK
=============================================================================

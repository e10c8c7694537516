----------------------------- MODULE EnginePool -----------------------------
(* The engine's pipe instances (crates/sakura-engine/src/server.rs): each   *)
(* endpoint has a pool of workers, one per instance; a worker that took the *)
(* last free instance adds another; the last one to end ends the engine.    *)
(* The pipe itself is Windows' (crates/sakura-ipc/src/transport.rs).        *)
EXTENDS Integers, FiniteSets

CONSTANTS
  Endpoints, Data,     \* Data, Renderer, Control
  DataRoom, OtherRoom, \* MAX_INSTANCES; RENDERER_, CONTROL_MAX_INSTANCES
  Workers,    \* names for workers: at least as many as there is room for
  Clients,    \* processes that connect
  Quota,      \* MAX_CONNECTIONS_PER_PID
  MaxEmpty,   \* MAX_CONSECUTIVE_EMPTY_ACCEPTS
  MaxFaults   \* bound: faults of the system

VARIABLE pool

Room(e) == IF e = Data THEN DataRoom ELSE OtherRoom

Nobody == "nobody"
Unborn == [at |-> "none", of |-> "none", pipe |-> "none", peer |-> Nobody, adds |-> Nobody, empty |-> 0]

(* A worker's instance is "open" to connect from its creation to its first  *)
(* client, "taken" while it has one, "left" when that is gone, and "shut"   *)
(* from the disconnect to the next accept.                                  *)
Init == pool =
  [w       |-> [w \in Workers |-> Unborn],
   idle    |-> [e \in Endpoints |-> 0],
   created |-> [e \in Endpoints |-> 0],
   total   |-> 0,
   permits |-> [k \in Endpoints \X Clients |-> 0],  \* Admission::counts
   gate    |-> "instances",  \* then StartupGate; "failed", "exited"
   reason  |-> "none",       \* the first StopReason in the channel
   faults  |-> 0,
   hurt    |-> {}]           \* ghost: endpoints that lost a worker

Of(e)    == {w \in Workers : pool.w[w].of = e}
Piped(e) == {w \in Of(e) : pool.w[w].pipe # "none"}
Spare    == CHOOSE w \in Workers : pool.w[w] = Unborn

MayFail == pool.faults < MaxFaults
Hurts(p, e) == [p EXCEPT !.hurt = @ \cup {e}]
Fault(p, e) == [Hurts(p, e) EXCEPT !.faults = @ + 1]

-----------------------------------------------------------------------------
(* Starting: the first instance of every endpoint, then a worker for each,  *)
(* all or none.                                                             *)

Created(e) == [pool EXCEPT !.w[Spare] = [Unborn EXCEPT !.at = "instance", !.of = e, !.pipe = "open"]]

(* InstanceSlot::claim_for, before the thread exists.                       *)
Claimed(p, w) == [p EXCEPT !.created[p.w[w].of] = @ + 1, !.total = @ + 1, !.w[w].at = "gate"]

(* Instances nobody serves are closed.                                      *)
Dropped(p) == [p EXCEPT !.w = [w \in Workers |-> IF @[w].at = "instance" THEN Unborn ELSE @[w]]]

CreateInstances ==
  /\ pool.gate = "instances"
  /\ \/ \E e \in Endpoints : Of(e) = {} /\ pool' = Created(e)
     \/ MayFail /\ pool' = [Dropped(pool) EXCEPT !.gate = "failed", !.faults = @ + 1]
     \/ (\A e \in Endpoints : Of(e) # {}) /\ pool' = [pool EXCEPT !.gate = "pending"]

SpawnInitial ==
  /\ pool.gate = "pending"
  /\ LET left == {w \in Workers : pool.w[w].at = "instance"} IN
     \/ \E w \in left : pool' = Claimed(pool, w)
     \/ left # {} /\ MayFail /\ pool' = [Dropped(pool) EXCEPT !.gate = "aborted", !.faults = @ + 1]
     \/ left = {} /\ pool' = [pool EXCEPT !.gate = "open"]

(* The failed start joins its workers.                                      *)
JoinAborted ==
  /\ pool.gate = "aborted" /\ \A w \in Workers : pool.w[w] = Unborn
  /\ pool' = [pool EXCEPT !.gate = "failed"]

(* StartupGate::wait, and the dispatcher, which needs the engine's data.    *)
Enter(w) ==
  /\ pool.w[w].at = "gate"
  /\ \/ pool.gate = "open" /\ pool' = [pool EXCEPT !.w[w].at = "loop"]
     \/ pool.gate = "aborted" /\ pool' = [pool EXCEPT !.w[w].at = "ends"]
     \/ pool.gate = "open" /\ MayFail /\ pool' = Fault([pool EXCEPT !.w[w].at = "ends"], pool.w[w].of)

-----------------------------------------------------------------------------
(* One instance's life (worker_with_gate).                                  *)

(* It counts as idle until the accept has returned.                         *)
Offer(w) ==
  /\ pool.w[w].at = "loop"
  /\ pool' = [pool EXCEPT !.w[w].at = "waits", !.idle[pool.w[w].of] = @ + 1,
                          !.w[w].pipe = IF @ = "shut" THEN "open" ELSE @]

(* DisconnectNamedPipe.                                                     *)
Shut(p, w) == [p EXCEPT !.w[w].pipe = "shut", !.w[w].peer = Nobody]

Busy(w, place) == [pool EXCEPT !.idle[pool.w[w].of] = @ - 1, !.w[w].at = place]

(* Mutant: the worker counts as idle while it serves. *)
AcceptMut(w) ==
  /\ pool.w[w].at = "waits" /\ pool.w[w].pipe \in {"taken", "left"}
  /\ pool' = [pool EXCEPT !.w[w].at = "admits", !.w[w].empty = 0]

(* wait_for_client finds a client, or that it has gone again; too many of   *)
(* those in a row end the worker.                                           *)
Accept(w) ==
  /\ pool.w[w].at = "waits" /\ pool.w[w].pipe \in {"taken", "left"}
  /\ \/ pool' = [Busy(w, "admits") EXCEPT !.w[w].empty = 0]
     \/ /\ pool.w[w].pipe = "left"
        /\ LET n == pool.w[w].empty + 1
           IN pool' = IF n >= MaxEmpty THEN Hurts(Busy(w, "ends"), pool.w[w].of)
                      ELSE [Shut(Busy(w, "loop"), w) EXCEPT !.w[w].empty = n]

AcceptFails(w) ==
  /\ pool.w[w].at = "waits" /\ MayFail
  /\ pool' = Fault(Busy(w, "ends"), pool.w[w].of)

(* The client has a process and a place in its quota, or is turned away.    *)
Admit(w) ==
  /\ pool.w[w].at = "admits"
  /\ LET k == <<pool.w[w].of, pool.w[w].peer>>
     IN \/ /\ pool.permits[k] < Quota
           /\ pool' = [pool EXCEPT !.permits[k] = @ + 1, !.w[w].at = "looks"]
        \/ /\ pool.permits[k] >= Quota \/ pool.w[w].pipe = "left"
           /\ pool' = [Shut(pool, w) EXCEPT !.w[w].at = "loop"]

(* ensure_spare_instance_for: two counters are read, one after the other,   *)
(* then an instance is made, claimed and given a thread.                    *)
ReadIdle(w) ==
  /\ pool.w[w].at = "looks"
  /\ pool' = [pool EXCEPT !.w[w].at = IF pool.idle[pool.w[w].of] > 0 THEN "serves" ELSE "counts"]

ReadCreated(w) ==
  /\ pool.w[w].at = "counts"
  /\ LET e == pool.w[w].of
     IN pool' = [pool EXCEPT !.w[w].at = IF pool.created[e] >= Room(e) THEN "serves" ELSE "creates"]

(* Windows makes no more instances than the capacity.                       *)
CreateSpare(w) ==
  /\ pool.w[w].at = "creates"
  /\ LET e == pool.w[w].of
     IN \/ /\ Cardinality(Piped(e)) < Room(e)
           /\ pool' = [Created(e) EXCEPT !.w[w].at = "spawns", !.w[w].adds = Spare]
        \/ /\ Cardinality(Piped(e)) >= Room(e)
           /\ pool' = [pool EXCEPT !.w[w].at = "serves"]
        \/ MayFail /\ pool' = Fault([pool EXCEPT !.w[w].at = "serves"], e)

SpawnSpare(w) ==
  /\ pool.w[w].at = "spawns"
  /\ LET v == pool.w[w].adds
         p == [pool EXCEPT !.w[w].at = "serves", !.w[w].adds = Nobody]
     IN \/ pool' = Claimed(p, v)
        \/ MayFail /\ pool' = Fault([p EXCEPT !.w[v] = Unborn], pool.w[w].of)

(* serve() ends: the client is gone, was too slow to say hello, or spoke    *)
(* nonsense.  Its permit goes last.                                         *)
Serve(w) ==
  /\ pool.w[w].at = "serves"
  /\ pool' = [pool EXCEPT !.w[w].at = "resets", !.w[w].pipe = "shut"]

Permitless(p, w) == [p EXCEPT !.permits[<<p.w[w].of, p.w[w].peer>>] = @ - 1, !.w[w].peer = Nobody]

Reset(w) ==
  /\ pool.w[w].at = "resets"
  /\ pool' = [Permitless(pool, w) EXCEPT !.w[w].at = "loop"]

Reasoned(p, why) == IF p.reason = "none" THEN [p EXCEPT !.reason = why] ELSE p

(* A client asks the engine to stop.                                        *)
Shutdown(w) ==
  /\ pool.w[w].at = "serves"
  /\ pool' = Reasoned([Permitless(pool, w) EXCEPT !.w[w].at = "ends", !.w[w].pipe = "shut"], "Requested")

(* The worker returns: its slot goes, then its instance.                    *)
DropSlot(w) ==
  /\ pool.w[w].at = "ends"
  /\ LET p == [pool EXCEPT !.created[pool.w[w].of] = @ - 1, !.total = @ - 1, !.w[w].at = "closes"]
     IN pool' = IF p.total = 0 THEN Reasoned(p, "LastInstanceGone") ELSE p

Close(w) == pool.w[w].at = "closes" /\ pool' = [pool EXCEPT !.w[w] = Unborn]

(* run() returns with the first reason, and the process ends.               *)
Exit ==
  /\ pool.gate = "open" /\ pool.reason # "none"
  /\ pool' = [pool EXCEPT !.gate = "exited", !.w = [w \in Workers |-> Unborn]]

-----------------------------------------------------------------------------
(* The clients.                                                             *)

Connect(c) == \E w \in Workers :
  /\ pool.w[w].pipe = "open"
  /\ pool' = [pool EXCEPT !.w[w].pipe = "taken", !.w[w].peer = c]

Leave == \E w \in Workers :
  /\ pool.w[w].pipe = "taken"
  /\ pool' = [pool EXCEPT !.w[w].pipe = "left"]

WorkerStep(w) ==
  \/ Enter(w) \/ Offer(w) \/ Accept(w) \/ AcceptFails(w) \/ Admit(w) \/ ReadIdle(w) \/ ReadCreated(w)
  \/ CreateSpare(w) \/ SpawnSpare(w) \/ Serve(w) \/ Reset(w) \/ Shutdown(w) \/ DropSlot(w) \/ Close(w)

Next ==
  \/ CreateInstances \/ SpawnInitial \/ JoinAborted \/ Exit \/ Leave
  \/ \E w \in Workers : WorkerStep(w)
  \/ \E c \in Clients : Connect(c)

Spec == Init /\ [][Next]_pool

-----------------------------------------------------------------------------
Runs == pool.gate = "open" /\ pool.reason = "none"

(* However the accepts of several workers interleave with the reading of    *)
(* the two counters: an endpoint that has lost no worker never has all of   *)
(* them serving while there is room for one more to accept.                 *)
SpareOffered == \A e \in Endpoints :
  Runs /\ e \notin pool.hurt /\ (\A w \in Of(e) : pool.w[w].at = "serves") =>
    Cardinality(Piped(e)) = Room(e)
-----------------------------------------------------------------------------
(* Why it holds.  It is enough to follow an engine that runs or is about to *)
(* (`Live'), and in it the endpoints that have lost no worker.              *)

Places == {"none", "instance", "gate", "loop", "waits", "admits", "looks", "counts",
           "creates", "spawns", "serves", "resets", "ends", "closes"}

Slot == [at : Places, of : Endpoints \cup {"none"},
         pipe : {"none", "open", "taken", "left", "shut"}, peer : Clients \cup {Nobody},
         adds : Workers \cup {Nobody}, empty : Nat]

TypeOK == pool \in
  [w       : [Workers -> Slot],
   idle    : [Endpoints -> Int],
   created : [Endpoints -> Int],
   total   : Int,
   permits : [Endpoints \X Clients -> Int],
   gate    : {"instances", "pending", "open", "aborted", "failed", "exited"},
   reason  : {"none", "Requested", "LastInstanceGone"},
   faults  : Nat,
   hurt    : SUBSET Endpoints]

Live == pool.gate \in {"instances", "pending", "open"} /\ pool.reason = "none"

(* Every worker that has a name has an instance of its endpoint.            *)
SlotOK(w) ==
  IF pool.w[w].at = "none" THEN pool.w[w] = Unborn
  ELSE pool.w[w].of \in Endpoints /\ pool.w[w].pipe # "none"

(* Before the gate opens nobody is past it, and then nobody is missing.     *)
StartOK ==
  /\ pool.gate = "instances" => \A w \in Workers : pool.w[w].at \in {"none", "instance"}
  /\ pool.gate = "pending" =>
       /\ \A w \in Workers : pool.w[w].at \in {"none", "instance", "gate"}
       /\ \A e \in Endpoints : Of(e) # {}

(* The instance a worker is about to start is its own, and nobody else's.   *)
AddsOK(w) ==
  pool.w[w].at = "spawns" =>
    LET v == pool.w[w].adds
    IN /\ v \in Workers /\ pool.w[v].at = "instance" /\ pool.w[v].of = pool.w[w].of
       /\ \A x \in Workers : pool.w[x].at = "spawns" /\ pool.w[x].adds = v => x = w

RoomOK(e) == Cardinality(Of(e)) <= Room(e)

WaitingOf(e) == {w \in Of(e) : pool.w[w].at = "waits"}
SlotsOf(e)   == {w \in Of(e) : pool.w[w].at # "instance"}

(* The two counters say what they are read for, and not all are serving.    *)
CountsOK(e) ==
  /\ \A w \in Of(e) : pool.w[w].at \notin {"ends", "closes"}
  /\ pool.idle[e] = Cardinality(WaitingOf(e))
  /\ pool.created[e] = Cardinality(SlotsOf(e))
  /\ pool.gate = "open" =>
       (\E w \in Of(e) : pool.w[w].at # "serves") \/ Cardinality(Of(e)) = Room(e)

Ready ==
  /\ Live /\ TypeOK /\ StartOK
  /\ \A w \in Workers : SlotOK(w) /\ AddsOK(w)
  /\ \A e \in Endpoints : RoomOK(e) /\ (e \notin pool.hurt => CountsOK(e))

Fields == {"w", "idle", "created", "total", "permits", "gate", "reason", "faults", "hurt"}

IInv == DOMAIN pool = Fields /\ (Live => Ready)
=============================================================================

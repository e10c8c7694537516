----------------------- MODULE EngineServices_proofs ------------------------
(* The services of the engine: the life of the developer history, the       *)
(* prediction worker, and the watchers of the board.                        *)
EXTENDS EngineServices, FiniteSetTheorems, TLAPS

-----------------------------------------------------------------------------
(* The store of the developer history changes hands in order, for any set of *)
(* requests and however often the configuration changes its mind.  No       *)
(* fairness is needed; that wishes are settled is left to TLC.              *)

HoldingSet == {h \in Holders : Holding(h)}

(* What stays true of the holds while nobody begins or ends one.            *)
LEMMA SameHolders ==
  ASSUME HoldsOK, \A h \in Holders : Holding(h)' <=> Holding(h), hr'.holds = hr.holds,
         HoldingSet # {} => ~hr'.opening /\ hr'.stopping = {}
  PROVE  HoldsOK'
<1>1. HoldingSet' = HoldingSet
  BY DEF HoldingSet
<1> QED
  BY <1>1 DEF HoldsOK, HoldingSet

(* With nobody holding, the count is zero, and only then.                   *)
LEMMA HoldsCount ==
  ASSUME HoldsOK
  PROVE  hr.holds = 0 <=> \A h \in Holders : ~Holding(h)
<1>1. IsFiniteSet(HoldingSet) /\ hr.holds = Cardinality(HoldingSet)
  BY DEF HoldsOK, HoldingSet
<1>2. hr.holds = 0 <=> HoldingSet = {}
  BY <1>1, FS_EmptySet
<1> QED
  BY <1>2 DEF HoldingSet

LEMMA InitInv == Init => IInv
<1> SUFFICES ASSUME Init PROVE IInv
  OBVIOUS
<1>1. PICK enabled \in BOOLEAN : hr =
        [wish |-> enabled, gen |-> IF enabled THEN 1 ELSE 0,
         phase |-> IF enabled THEN "Starting" ELSE "Disabled",
         service |-> None, retiring |-> {}, stopping |-> {}, opening |-> FALSE,
         exited |-> FALSE, shutdown |-> FALSE, holds |-> 0,
         request |-> [h \in Holders |-> Request], worker |-> "test", taken |-> None,
         quit |-> FALSE, opened |-> FALSE, owner |-> None, trace |-> FALSE]
  BY DEF Init
<1>2. TypeOK
  BY <1>1 DEF TypeOK, States, Requests, None, Request
<1>3. HoldsOK
  <2>1. {h \in Holders : Holding(h)} = {}
    BY <1>1 DEF Holding, Request
  <2> QED
    BY <1>1, <2>1, FS_EmptySet DEF HoldsOK
<1>4. WishOK /\ WorkerOK
  BY <1>1, RuntimeAssumption DEF WishOK, WorkerOK, None
<1>5. OwnerOK /\ RequestsOK
  BY <1>1, RuntimeAssumption DEF OwnerOK, RequestsOK, Holding, Request, None, Gens
<1> QED
  BY <1>2, <1>3, <1>4, <1>5 DEF IInv

(* The sets and the worker's next place that several steps use.             *)
LEMMA HelperTypes ==
  ASSUME TypeOK
  PROVE  /\ Retired \in SUBSET Gens
         /\ Woken \in {"test", "asleep", "stop", "open", "publish", "gone"}
         /\ Woken # hr.worker => hr.worker = "asleep" /\ Woken = "test"
         /\ hr.gen + 1 \in Nat
<1>1. /\ hr.service \in {None} \union Gens /\ hr.retiring \in SUBSET Gens /\ hr.gen \in Nat
      /\ hr.worker \in {"test", "asleep", "stop", "open", "publish", "gone"}
  BY DEF TypeOK, States, Requests
<1>2. Retired \in SUBSET Gens
  BY <1>1 DEF Retired
<1>3. Woken \in {"test", "asleep", "stop", "open", "publish", "gone"}
  BY <1>1 DEF Woken
<1>4. Woken # hr.worker => hr.worker = "asleep" /\ Woken = "test"
  BY DEF Woken
<1> QED
  BY <1>1, <1>2, <1>3, <1>4

LEMMA ConfigureOffInv == ASSUME IInv, Configure, hr.wish PROVE IInv'
<1> USE RuntimeAssumption DEF IInv, None
<1>1. hr' = [hr EXCEPT !.wish = FALSE, !.gen = hr.gen + 1, !.worker = Woken,
               !.phase = "Disabled", !.retiring = Retired, !.service = None, !.trace = FALSE]
  BY DEF Configure
<1>2. ~hr.shutdown /\ hr.gen < MaxGen
  BY DEF Configure
<1>3. TypeOK'
  BY <1>1, HelperTypes DEF TypeOK, States
<1>4. WishOK'
  BY <1>1, <1>2 DEF TypeOK, States, Requests, WishOK, Retired, Gens
<1>5. WorkerOK'
  BY <1>1, <1>2, HelperTypes DEF TypeOK, States, Requests, WishOK, WorkerOK, Retired, Gens
<1>6. HoldsOK'
  BY <1>1, SameHolders DEF TypeOK, States, Requests, Holding, HoldsOK, HoldingSet
<1>7. OwnerOK'
  BY <1>1, HelperTypes DEF TypeOK, States, Requests, WishOK, WorkerOK, OwnerOK, Retired, Gens
<1>8. RequestsOK'
  BY <1>1 DEF TypeOK, States, RequestsOK, Holding
<1> QED
  BY <1>3, <1>4, <1>5, <1>6, <1>7, <1>8

LEMMA ConfigureOnInv == ASSUME IInv, Configure, ~hr.wish PROVE IInv'
<1> USE RuntimeAssumption DEF IInv, None
<1>1. hr' = [hr EXCEPT !.wish = TRUE, !.gen = hr.gen + 1, !.worker = Woken, !.phase = "Starting"]
  <2>1. hr' = [hr EXCEPT !.wish = TRUE, !.gen = hr.gen + 1, !.worker = Woken, !.phase = "Starting",
                 !.retiring = hr.retiring, !.service = hr.service, !.trace = hr.trace]
    BY DEF Configure
  <2> QED
    BY <2>1 DEF TypeOK, States
<1>2. ~hr.shutdown /\ hr.gen < MaxGen
  BY DEF Configure
<1>3. TypeOK'
  BY <1>1, HelperTypes DEF TypeOK, States
<1>4. WishOK'
  BY <1>1, <1>2 DEF TypeOK, States, Requests, WishOK, Gens
<1>5. WorkerOK'
  BY <1>1, <1>2, HelperTypes DEF TypeOK, States, Requests, WishOK, WorkerOK, Gens
<1>6. HoldsOK'
  BY <1>1, SameHolders DEF TypeOK, States, Requests, Holding, HoldsOK, HoldingSet
<1>7. OwnerOK'
  BY <1>1, HelperTypes DEF TypeOK, States, Requests, WishOK, WorkerOK, OwnerOK, Gens
<1>8. RequestsOK'
  BY <1>1 DEF TypeOK, States, RequestsOK, Holding
<1> QED
  BY <1>3, <1>4, <1>5, <1>6, <1>7, <1>8

LEMMA StopInv == ASSUME IInv, Stop PROVE IInv'
<1> USE RuntimeAssumption DEF IInv, None
<1>1. hr.trace => hr.wish
  BY DEF WishOK
<1>2. hr' = [hr EXCEPT !.shutdown = TRUE, !.wish = FALSE, !.gen = hr.gen + 1, !.worker = Woken,
               !.trace = FALSE, !.retiring = Retired, !.service = None, !.phase = "Shutdown"]
  BY <1>1 DEF Stop, TypeOK, States, Requests
<1>3. ~hr.shutdown
  BY DEF Stop
<1>4. TypeOK'
  BY <1>2, HelperTypes DEF TypeOK, States
<1>5. WishOK'
  BY <1>2, <1>3 DEF TypeOK, States, Requests, WishOK, Retired, Gens
<1>6. WorkerOK'
  BY <1>2, <1>3, HelperTypes DEF TypeOK, States, Requests, WishOK, WorkerOK, Retired, Gens
<1>7. HoldsOK'
  BY <1>2, SameHolders DEF TypeOK, States, Requests, Holding, HoldsOK, HoldingSet
<1>8. OwnerOK'
  BY <1>2, HelperTypes DEF TypeOK, States, Requests, WishOK, WorkerOK, OwnerOK, Retired, Gens
<1>9. RequestsOK'
  BY <1>2 DEF TypeOK, States, RequestsOK, Holding
<1> QED
  BY <1>4, <1>5, <1>6, <1>7, <1>8, <1>9

-----------------------------------------------------------------------------
(* Requests.  A hold begins only when nothing is being opened or stopped,   *)
(* and nothing waits to be: whoever owns the store then is the service the  *)
(* request is given, or another request.                                    *)
LEMMA IdleOwner ==
  ASSUME IInv, IsIdle
  PROVE  /\ ~hr.opening /\ hr.stopping = {}
         /\ IF hr.service = None THEN hr.owner \in Holders \union {None} ELSE hr.owner = hr.service
<1> USE RuntimeAssumption DEF IInv, None
<1>1. ~hr.opening /\ hr.stopping = {} /\ hr.retiring = {}
  BY DEF IsIdle, WorkerOK
<1>2. hr.worker # "publish"
  BY <1>1 DEF WorkerOK
<1> QED
  BY <1>1, <1>2 DEF OwnerOK, TypeOK, States, Requests

LEMMA HeldInv ==
  ASSUME IInv, NEW h \in Holders, ~Holding(h), IsIdle, hr' = Held(h)
  PROVE  IInv'
<1> USE RuntimeAssumption DEF IInv, None
<1>1. hr' = [hr EXCEPT !.holds = hr.holds + 1,
               !.request = [hr.request EXCEPT ![h] = [at |-> "held", service |-> hr.service]]]
  BY DEF Held, TypeOK, States, Requests
<1>2. TypeOK'
  <2>1. hr.holds + 1 \in Nat /\ [hr.request EXCEPT ![h] = [at |-> "held", service |-> hr.service]] \in Requests
    BY DEF TypeOK, States, Requests
  <2> QED
    BY <1>1, <2>1 DEF TypeOK, States
<1>3. WishOK' /\ WorkerOK'
  BY <1>1 DEF TypeOK, States, Requests, WishOK, WorkerOK
<1>4. HoldsOK'
  <2>1. HoldingSet' = HoldingSet \union {h} /\ h \notin HoldingSet
    BY <1>1 DEF TypeOK, States, Requests, HoldingSet, Holding
  <2>2. IsFiniteSet(HoldingSet) /\ hr.holds = Cardinality(HoldingSet)
    BY DEF HoldsOK, HoldingSet
  <2>3. IsFiniteSet(HoldingSet') /\ hr'.holds = Cardinality(HoldingSet')
    BY <1>1, <2>1, <2>2, FS_AddElement DEF TypeOK, States, Requests
  <2>4. ~hr'.opening /\ hr'.stopping = {}
    BY <1>1, IdleOwner DEF TypeOK, States, Requests
  <2> QED
    BY <2>3, <2>4 DEF HoldsOK, HoldingSet
<1>5. OwnerOK'
  BY <1>1 DEF TypeOK, States, Requests, OwnerOK, Holding
<1>6. RequestsOK'
  BY <1>1, IdleOwner DEF TypeOK, States, RequestsOK, Holding
<1> QED
  BY <1>2, <1>3, <1>4, <1>5, <1>6

LEMMA WaitInv ==
  ASSUME IInv, NEW h \in Holders, ~Holding(h), NEW to \in {"asleep", "busy"},
         hr' = [hr EXCEPT !.request[h].at = to]
  PROVE  IInv'
<1> USE RuntimeAssumption DEF IInv, None
<1>1. hr' = [hr EXCEPT !.request = [hr.request EXCEPT ![h] = [hr.request[h] EXCEPT !.at = to]]]
  BY DEF TypeOK, States, Requests
<1>2. TypeOK'
  <2>1. [hr.request EXCEPT ![h] = [hr.request[h] EXCEPT !.at = to]] \in Requests
    BY DEF TypeOK, States, Requests
  <2> QED
    BY <1>1, <2>1 DEF TypeOK, States
<1>3. WishOK' /\ WorkerOK'
  BY <1>1 DEF TypeOK, States, Requests, WishOK, WorkerOK
<1>4. HoldsOK'
  BY <1>1, SameHolders DEF TypeOK, States, Requests, Holding, HoldsOK, HoldingSet
<1>5. OwnerOK'
  BY <1>1 DEF TypeOK, States, Requests, OwnerOK, Holding
<1>6. RequestsOK'
  BY <1>1 DEF TypeOK, States, RequestsOK, Holding
<1> QED
  BY <1>2, <1>3, <1>4, <1>5, <1>6

LEMMA AskInv == ASSUME IInv, NEW h \in Holders, Ask(h) \/ TimeOut(h) PROVE IInv'
<1>1. ~Holding(h)
  BY DEF Ask, TimeOut, Holding
<1>2. \/ IsIdle /\ hr' = Held(h)
      \/ \E to \in {"asleep", "busy"} : hr' = [hr EXCEPT !.request[h].at = to]
  BY DEF Ask, TimeOut
<1> QED
  BY <1>1, <1>2, HeldInv, WaitInv

LEMMA ClearPathInv == ASSUME IInv, NEW h \in Holders, ClearPath(h) PROVE IInv'
<1> USE RuntimeAssumption DEF IInv, None
<1> DEFINE to == IF hr.owner = None THEN "clearing" ELSE "refused"
           owner == IF hr.owner = None THEN h ELSE hr.owner
<1>1. hr' = [hr EXCEPT !.request = [hr.request EXCEPT ![h] = [hr.request[h] EXCEPT !.at = to]],
                       !.owner = owner]
  BY DEF TypeOK, States, Requests, ClearPath
<1>2. hr.request[h].at = "held" /\ hr.request[h].service = None
  BY DEF ClearPath
<1>3. TypeOK'
  <2>1. owner \in {None} \union Gens \union Holders
    BY DEF TypeOK, States, Requests
  <2>2. [hr.request EXCEPT ![h] = [hr.request[h] EXCEPT !.at = to]] \in Requests
    BY DEF TypeOK, States, Requests
  <2> QED
    BY <1>1, <2>1, <2>2 DEF TypeOK, States
<1>4. WishOK' /\ WorkerOK'
  BY <1>1 DEF TypeOK, States, Requests, WishOK, WorkerOK
<1>5. HoldsOK'
  BY <1>1, <1>2, SameHolders DEF TypeOK, States, Requests, Holding, HoldsOK, HoldingSet
<1>6. hr.worker # "publish" /\ h \notin Gens
  BY <1>2 DEF HoldsOK, Holding, WorkerOK, Gens
<1>7. OwnerOK'
  BY <1>1, <1>2, <1>6 DEF TypeOK, States, Requests, OwnerOK, Holding
<1>8. RequestsOK'
  BY <1>1, <1>2, <1>6 DEF TypeOK, States, RequestsOK, Holding, Gens
<1> QED
  BY <1>3, <1>4, <1>5, <1>7, <1>8

LEMMA ReleaseInv == ASSUME IInv, NEW h \in Holders, Release(h) PROVE IInv'
<1> USE RuntimeAssumption DEF IInv, None
<1> DEFINE worker == IF hr.holds = 1 THEN Woken ELSE hr.worker
           owner  == IF hr.owner = h THEN None ELSE hr.owner
<1>1. hr' = [hr EXCEPT !.holds = hr.holds - 1, !.owner = owner, !.worker = worker,
               !.request = [hr.request EXCEPT ![h] = [hr.request[h] EXCEPT !.at = "done"]]]
  BY DEF TypeOK, States, Requests, Release
<1>2. Holding(h) /\ hr.holds \in Nat /\ worker \in {"test", "asleep", "stop", "open", "publish", "gone"}
  BY HelperTypes DEF Release, Holding, TypeOK, States, Requests
<1>3. worker # hr.worker => hr.worker = "asleep" /\ worker = "test"
  BY HelperTypes
<1>4. /\ IsFiniteSet(HoldingSet') /\ hr.holds - 1 = Cardinality(HoldingSet') /\ hr.holds - 1 \in Nat
      /\ ~hr.opening /\ hr.stopping = {}
  <2>1. HoldingSet' = HoldingSet \ {h} /\ h \in HoldingSet
    BY <1>1, <1>2 DEF TypeOK, States, Requests, HoldingSet, Holding
  <2>2. IsFiniteSet(HoldingSet) /\ hr.holds = Cardinality(HoldingSet)
    BY DEF HoldsOK, HoldingSet
  <2>3. IsFiniteSet(HoldingSet') /\ hr.holds - 1 = Cardinality(HoldingSet')
    BY <2>1, <2>2, FS_RemoveElement
  <2>4. hr.holds - 1 \in Nat
    BY <2>3, FS_CardinalityType
  <2> QED
    BY <2>1, <2>3, <2>4 DEF HoldsOK, HoldingSet
<1> HIDE DEF worker
<1>5. TypeOK'
  <2>1. owner \in {None} \union Gens \union Holders
    BY DEF TypeOK, States, Requests
  <2>2. [hr.request EXCEPT ![h] = [hr.request[h] EXCEPT !.at = "done"]] \in Requests
    BY DEF TypeOK, States, Requests
  <2> HIDE DEF owner
  <2> QED
    BY <1>1, <1>2, <1>4, <2>1, <2>2 DEF TypeOK, States
<1>6. WishOK' /\ WorkerOK'
  BY <1>1, <1>3, <1>4 DEF TypeOK, States, Requests, WishOK, WorkerOK
<1>7. HoldsOK'
  BY <1>1, <1>4 DEF TypeOK, States, Requests, HoldsOK, HoldingSet
<1>8. OwnerOK'
  BY <1>1, <1>3, <1>4 DEF TypeOK, States, Requests, OwnerOK, WorkerOK, Gens
<1>9. RequestsOK'
  <2>1. /\ hr'.owner = owner
        /\ \A k \in Holders : Holding(k)' => Holding(k) /\ hr'.request[k].service = hr.request[k].service
    BY <1>1 DEF TypeOK, States, Requests, Holding
  <2>2. \A k \in Holders : hr.request[k].service \in {None} \union Gens
    BY DEF TypeOK, States, Requests
  <2> QED
    BY <2>1, <2>2 DEF RequestsOK, Gens
<1> QED
  BY <1>5, <1>6, <1>7, <1>8, <1>9

-----------------------------------------------------------------------------
(* The worker.  While it opens nobody holds and nothing has to be stopped,  *)
(* so the store has no owner.                                               *)
LEMMA SettledTypes ==
  ASSUME TypeOK
  PROVE  /\ AllSettled \in Requests
         /\ \A h \in Holders :
              /\ AllSettled[h].service = hr.request[h].service
              /\ AllSettled[h].at # hr.request[h].at =>
                   hr.request[h].at = "asleep" /\ AllSettled[h].at = "look"
BY DEF TypeOK, States, Requests, AllSettled, Settled

LEMMA SettleInv ==
  ASSUME IInv, NEW w \in {"asleep", "gone"}, NEW exited \in BOOLEAN,
         hr.worker \in {"test", "stop"}, hr.stopping = {}, ~hr.opening,
         exited => w = "gone" /\ hr.shutdown /\ hr.retiring = {},
         hr.exited => exited,
         hr' = [hr EXCEPT !.worker = w, !.exited = exited, !.request = AllSettled]
  PROVE  IInv'
<1> USE RuntimeAssumption DEF IInv, None
<1>1. TypeOK'
  BY SettledTypes DEF TypeOK, States
<1>2. WishOK' /\ WorkerOK'
  BY DEF TypeOK, States, WishOK, WorkerOK
<1>3. hr'.request = AllSettled /\ hr'.owner = hr.owner /\ hr'.service = hr.service
  BY DEF TypeOK, States
<1>4. \A h \in Holders : Holding(h)' <=> Holding(h)
  BY <1>3, SettledTypes DEF Holding
<1>5. HoldsOK'
  BY <1>4, SameHolders DEF TypeOK, States, HoldsOK, HoldingSet
<1>6. OwnerOK'
  BY <1>3, SettledTypes DEF TypeOK, States, OwnerOK
<1>7. RequestsOK'
  BY <1>3, <1>4, SettledTypes DEF RequestsOK
<1> QED
  BY <1>1, <1>2, <1>5, <1>6, <1>7

LEMMA SleepInv == ASSUME IInv, Sleep PROVE IInv'
<1>1. hr.worker = "test" /\ hr.stopping = {} /\ ~hr.opening /\ ~hr.exited
  BY DEF Sleep, IInv, WorkerOK
<1>2. hr' = [hr EXCEPT !.worker = "asleep", !.exited = FALSE, !.request = AllSettled]
  BY <1>1 DEF Sleep, IInv, TypeOK, States
<1> QED
  BY <1>1, <1>2, SettleInv

LEMMA TakeInv == ASSUME IInv, Take PROVE IInv'
<1> USE RuntimeAssumption DEF IInv, None
<1> DEFINE taken == IF hr.phase = "Starting" THEN hr.gen ELSE None
           opening == hr.phase = "Starting"
<1>1. hr' = [hr EXCEPT !.worker = "stop", !.quit = hr.shutdown, !.taken = taken,
               !.stopping = hr.stopping \union hr.retiring, !.retiring = {}, !.opening = opening]
  BY DEF Take, TypeOK, States
<1>2. hr.worker = "test" /\ hr.stopping = {} /\ hr.holds = 0
  BY DEF Take, WorkerOK
<1>3. taken \in {None} \union Gens /\ opening \in BOOLEAN /\ (opening <=> taken # None)
  BY DEF TypeOK, States, WishOK, Gens
<1>4. opening => hr.service = None
  BY DEF WishOK
<1> HIDE DEF taken, opening
<1>5. TypeOK'
  <2>1. hr.stopping \union hr.retiring \in SUBSET Gens /\ hr.shutdown \in BOOLEAN
    BY DEF TypeOK, States
  <2> QED
    BY <1>1, <1>3, <2>1 DEF TypeOK, States
<1>6. WishOK'
  BY <1>1 DEF TypeOK, States, WishOK
<1>7. WorkerOK'
  BY <1>1, <1>2, <1>3, <1>4 DEF TypeOK, States, WishOK, WorkerOK, Gens
<1>8. HoldsOK'
  BY <1>1, <1>2, HoldsCount, SameHolders DEF TypeOK, States, Holding, HoldsOK, HoldingSet
<1>9. OwnerOK'
  BY <1>1, <1>2 DEF TypeOK, States, OwnerOK
<1>10. RequestsOK'
  BY <1>1 DEF TypeOK, States, RequestsOK, Holding
<1> QED
  BY <1>5, <1>6, <1>7, <1>8, <1>9, <1>10

LEMMA JoinWriterInv == ASSUME IInv, JoinWriter PROVE IInv'
<1> USE RuntimeAssumption DEF IInv, None
<1>1. hr.worker = "stop" /\ hr.owner \in hr.stopping /\ hr.owner \in Gens
  BY DEF JoinWriter, TypeOK, States
<1>2. hr' = [hr EXCEPT !.owner = None]
  BY DEF JoinWriter
<1>3. TypeOK'
  BY <1>2 DEF TypeOK, States
<1>4. WishOK' /\ WorkerOK'
  BY <1>2 DEF TypeOK, States, WishOK, WorkerOK
<1>5. HoldsOK'
  BY <1>2, SameHolders DEF TypeOK, States, Holding, HoldsOK, HoldingSet
<1>6. OwnerOK'
  BY <1>1, <1>2 DEF TypeOK, States, OwnerOK, WorkerOK, Gens
<1>7. RequestsOK'
  BY <1>1, <1>2 DEF TypeOK, States, RequestsOK, HoldsOK, Holding
<1> QED
  BY <1>3, <1>4, <1>5, <1>6, <1>7

LEMMA CountOutInv == ASSUME IInv, CountOut PROVE IInv'
<1> USE RuntimeAssumption DEF IInv, None
<1>1. PICK g \in hr.stopping : hr.worker = "stop" /\ hr.owner # g
                               /\ hr' = [hr EXCEPT !.stopping = hr.stopping \ {g}]
  BY DEF CountOut
<1>2. TypeOK'
  <2>1. hr.stopping \ {g} \in SUBSET Gens
    BY DEF TypeOK, States
  <2> QED
    BY <1>1, <2>1 DEF TypeOK, States
<1>3. WishOK' /\ WorkerOK'
  BY <1>1 DEF TypeOK, States, WishOK, WorkerOK
<1>4. HoldsOK'
  BY <1>1, SameHolders DEF TypeOK, States, Holding, HoldsOK, HoldingSet
<1>5. OwnerOK'
  BY <1>1 DEF TypeOK, States, OwnerOK
<1>6. RequestsOK'
  BY <1>1 DEF TypeOK, States, RequestsOK, Holding
<1> QED
  BY <1>2, <1>3, <1>4, <1>5, <1>6

LEMMA AllStoppedInv == ASSUME IInv, AllStopped PROVE IInv'
<1> USE RuntimeAssumption DEF IInv, None
<1>1. hr.worker = "stop" /\ hr.stopping = {} /\ ~hr.exited
  BY DEF AllStopped, WorkerOK
<1>2. CASE hr.taken = None /\ hr.quit
  <2>1. hr' = [hr EXCEPT !.worker = "gone", !.exited = TRUE, !.request = AllSettled]
    BY <1>2 DEF AllStopped, TypeOK, States
  <2>2. hr.shutdown /\ hr.retiring = {} /\ ~hr.opening
    BY <1>2 DEF WorkerOK
  <2> QED
    BY <1>1, <2>1, <2>2, SettleInv
<1>3. CASE ~(hr.taken = None /\ hr.quit)
  <2> DEFINE worker == IF hr.taken # None THEN "open" ELSE "test"
  <2>1. hr' = [hr EXCEPT !.worker = worker]
    <3>1. hr' = [hr EXCEPT !.worker = worker, !.exited = FALSE, !.request = hr.request]
      BY <1>3 DEF AllStopped
    <3> QED
      BY <1>1, <3>1 DEF TypeOK, States
  <2>2. TypeOK'
    BY <2>1 DEF TypeOK, States
  <2>3. WishOK' /\ WorkerOK'
    BY <1>1, <2>1 DEF TypeOK, States, WishOK, WorkerOK
  <2>4. HoldsOK'
    BY <2>1, SameHolders DEF TypeOK, States, Holding, HoldsOK, HoldingSet
  <2>5. OwnerOK'
    BY <1>1, <2>1 DEF TypeOK, States, OwnerOK
  <2>6. RequestsOK'
    BY <2>1 DEF TypeOK, States, RequestsOK, Holding
  <2> QED
    BY <2>2, <2>3, <2>4, <2>5, <2>6
<1> QED
  BY <1>2, <1>3

(* At an opening the store has no owner.                                    *)
LEMMA OpensUnowned == ASSUME IInv, hr.worker = "open" PROVE hr.owner = None
<1>1. hr.opening /\ hr.service = None /\ hr.retiring = {} /\ hr.stopping = {}
  BY DEF IInv, WorkerOK
<1>2. hr.owner \notin Gens
  BY <1>1, RuntimeAssumption DEF IInv, OwnerOK, Gens, None
<1>3. hr.owner \notin Holders
  BY <1>1 DEF IInv, OwnerOK, HoldsOK, Holding
<1> QED
  BY <1>2, <1>3 DEF IInv, TypeOK, States

LEMMA OpenInv == ASSUME IInv, Open PROVE IInv'
<1> USE RuntimeAssumption DEF IInv, None
<1>1. hr.worker = "open" /\ hr.owner = None /\ hr.opening /\ hr.taken \in Gens
  BY OpensUnowned DEF Open, WorkerOK, TypeOK, States
<1>2. PICK opened \in BOOLEAN :
        hr' = [hr EXCEPT !.worker = "publish", !.opened = opened,
                         !.owner = IF opened THEN hr.taken ELSE None]
  <2>1. CASE hr' = [hr EXCEPT !.worker = "publish", !.opened = FALSE]
    <3>1. hr' = [hr EXCEPT !.worker = "publish", !.opened = FALSE, !.owner = None]
      BY <1>1, <2>1 DEF TypeOK, States
    <3> QED
      BY <3>1
  <2>2. CASE hr' = [hr EXCEPT !.worker = "publish", !.opened = TRUE, !.owner = hr.taken]
    BY <2>2
  <2> QED
    BY <2>1, <2>2 DEF Open
<1>3. TypeOK'
  BY <1>1, <1>2 DEF TypeOK, States
<1>4. WishOK' /\ WorkerOK'
  BY <1>1, <1>2 DEF TypeOK, States, WishOK, WorkerOK
<1>5. HoldsOK'
  BY <1>2, SameHolders DEF TypeOK, States, Holding, HoldsOK, HoldingSet
<1>6. OwnerOK'
  BY <1>1, <1>2 DEF TypeOK, States, OwnerOK, WorkerOK, Gens
<1>7. RequestsOK'
  BY <1>1, <1>2 DEF TypeOK, States, RequestsOK, HoldsOK, Holding
<1> QED
  BY <1>3, <1>4, <1>5, <1>6, <1>7

LEMMA PublishInv == ASSUME IInv, Publish PROVE IInv'
<1> USE RuntimeAssumption DEF IInv, None
<1> DEFINE current == hr.opened /\ Wanted
           late == hr.opened /\ ~Wanted
           worker == IF late THEN "stop" ELSE "test"
           stopping == IF late THEN {hr.taken} ELSE {}
           service == IF current THEN hr.taken ELSE None
           phase == IF ~Wanted THEN hr.phase ELSE IF hr.opened THEN "Active" ELSE "Failed"
           trace == hr.trace \/ current
<1>1. /\ hr.worker = "publish" /\ hr.opening /\ hr.stopping = {} /\ hr.service = None
      /\ hr.retiring = {} /\ hr.taken \in Gens /\ ~hr.exited /\ ~hr.trace
      /\ \A h \in Holders : ~Holding(h)
  BY DEF Publish, WorkerOK, TypeOK, States, WishOK, HoldsOK
<1>2. hr' = [hr EXCEPT !.opening = FALSE, !.taken = None, !.quit = FALSE, !.worker = worker,
               !.stopping = stopping, !.service = service, !.trace = trace, !.phase = phase]
  BY <1>1 DEF Publish
<1>3. /\ stopping \in SUBSET Gens /\ service \in {None} \union Gens /\ trace \in BOOLEAN
      /\ worker \in {"stop", "test"}
      /\ phase \in {"Starting", "Disabled", "Active", "Failed", "Shutdown"}
  BY <1>1 DEF TypeOK, States
<1>4. TypeOK'
  <2> DEFINE half == [hr EXCEPT !.opening = FALSE, !.taken = None, !.quit = FALSE, !.worker = worker]
  <2> HIDE DEF stopping, service, worker, phase, trace
  <2>1. half \in States
    BY <1>3 DEF TypeOK, States
  <2> DEFINE most == [half EXCEPT !.stopping = stopping, !.service = service]
  <2>2. hr' = [most EXCEPT !.trace = trace, !.phase = phase]
    BY <1>2
  <2> HIDE DEF half
  <2>3. most \in States
    BY <1>3, <2>1 DEF States
  <2> HIDE DEF most
  <2>4. CASE trace
    <3>1. hr' = [most EXCEPT !.trace = TRUE, !.phase = phase]
      BY <2>2, <2>4
    <3> QED
      BY <1>3, <2>3, <3>1 DEF TypeOK, States
  <2>5. CASE ~trace
    <3>1. hr' = [most EXCEPT !.trace = FALSE, !.phase = phase]
      BY <1>3, <2>2, <2>5
    <3> QED
      BY <1>3, <2>3, <3>1 DEF TypeOK, States
  <2> QED
    BY <2>4, <2>5
<1>5. /\ hr'.opening = FALSE /\ hr'.taken = None /\ hr'.quit = FALSE /\ hr'.worker = worker
      /\ hr'.stopping = stopping /\ hr'.service = service /\ hr'.trace = trace /\ hr'.phase = phase
      /\ hr'.wish = hr.wish /\ hr'.gen = hr.gen /\ hr'.retiring = {} /\ hr'.shutdown = hr.shutdown
      /\ hr'.exited = FALSE /\ hr'.holds = hr.holds /\ hr'.request = hr.request
      /\ hr'.owner = hr.owner
  <2> HIDE DEF stopping, service, worker, phase, trace
  <2> QED
    BY <1>1, <1>2 DEF TypeOK, States
<1>6. WishOK'
  <2>1. service # None => current /\ service = hr.taken
    OBVIOUS
  <2>2. current => hr.wish /\ hr.gen = hr.taken /\ phase = "Active"
    BY DEF Wanted
  <2>3. phase = "Starting" => hr.phase = "Starting" /\ ~Wanted
    OBVIOUS
  <2>4. trace => service # None
    BY <1>1 DEF Gens
  <2>5. phase = "Starting" => service = None
    BY <2>1, <2>2
  <2> HIDE DEF current, service, phase, trace
  <2> QED
    BY <1>1, <1>5, <2>1, <2>2, <2>3, <2>4, <2>5 DEF WishOK
<1>7. WorkerOK'
  <2>1. worker # "stop" => stopping = {}
    OBVIOUS
  <2>2. service \notin stopping
    BY <1>1 DEF Gens
  <2> HIDE DEF stopping, service
  <2> QED
    BY <1>1, <1>3, <1>5, <2>1, <2>2 DEF WorkerOK
<1>8. HoldsOK'
  BY <1>1, <1>5, SameHolders DEF Holding, HoldsOK, HoldingSet
<1>9. OwnerOK'
  <2>1. service # None => hr.owner = service
    BY <1>1 DEF OwnerOK
  <2>2. hr.owner \in Gens => hr.opened /\ hr.owner = hr.taken
    BY <1>1 DEF OwnerOK, Gens
  <2>3. hr.opened => hr.taken \in {service} \union stopping
    OBVIOUS
  <2> HIDE DEF stopping, service
  <2> QED
    BY <1>1, <1>5, <2>1, <2>2, <2>3 DEF OwnerOK
<1>10. RequestsOK'
  BY <1>1, <1>5 DEF RequestsOK, Holding
<1> QED
  BY <1>4, <1>6, <1>7, <1>8, <1>9, <1>10
-----------------------------------------------------------------------------
LEMMA NextInv == ASSUME IInv, [Next]_hr PROVE IInv'
<1>1. CASE Configure
  BY <1>1, ConfigureOffInv, ConfigureOnInv
<1>2. CASE Stop
  BY <1>2, StopInv
<1>3. CASE Worker
  BY <1>3, SleepInv, TakeInv, JoinWriterInv, CountOutInv, AllStoppedInv, OpenInv, PublishInv
  DEF Worker
<1>4. ASSUME NEW h \in Holders, RequestStep(h) \/ TimeOut(h)
      PROVE  IInv'
  BY <1>4, AskInv, ClearPathInv, ReleaseInv DEF RequestStep
<1>5. CASE UNCHANGED hr
  BY <1>5 DEF IInv, TypeOK, States, WishOK, WorkerOK, HoldsOK, OwnerOK, RequestsOK, Holding
<1> QED
  BY <1>1, <1>2, <1>3, <1>4, <1>5 DEF Next

(* The inductive invariant: the store's owner is always somebody who will   *)
(* give it up, holds are counted, and they keep the worker from stopping a  *)
(* service or opening one (history_runtime.rs).                             *)
THEOREM LifeCycleInvariance == Spec => []IInv
<1> QED
  BY InitInv, NextInv, PTL DEF Spec

(* The store changes hands in order, for every set of requests and every    *)
(* number of changes of the configuration.                                  *)
THEOREM StoreOrderCorrect == Spec => []StoreChangesHandsInOrder
<1>1. IInv => StoreChangesHandsInOrder
  BY OpensUnowned
  DEF IInv, WishOK, OwnerOK, RequestsOK, StoreChangesHandsInOrder, Holding
<1> QED
  BY <1>1, LifeCycleInvariance, PTL

-----------------------------------------------------------------------------
(* A list that is shown was ranked with the history of that moment.         *)

LEMMA PredictionInit == P!Init => P!IInv
BY DEF P!Init, P!IInv, P!TypeOK, P!Asking, P!Resting, P!Numbered

(* Callers that are only woken are as before.                               *)
LEMMA PredictionAwake ==
  ASSUME P!TypeOK
  PROVE  /\ P!AllAwake \in [Callers -> P!Asking]
         /\ \A c \in Callers : LET me == P!AllAwake[c] IN
              /\ me.seq = pm.caller[c].seq /\ me.epoch = pm.caller[c].epoch
              /\ me.got = pm.caller[c].got /\ me.list = pm.caller[c].list
              /\ me.at = "rest" <=> pm.caller[c].at = "rest"
BY DEF P!TypeOK, P!AllAwake, P!WakeCallers, P!Asking

(* A step of one caller, when what it holds then is still fresh.            *)
LEMMA PredictionCaller ==
  ASSUME P!IInv, NEW c \in Callers, NEW me \in P!Asking, NEW seq \in {pm.seq, pm.seq + 1},
         NEW pending \in {pm.pending, pm.caller[c].seq}, NEW lock \in Callers \cup {"free", "worker"},
         NEW worker \in {pm.worker, "test"}, NEW shown \in [Callers -> [epoch : Nat, is : Nat]],
         pending <= seq, me.seq <= seq, me.at # "rest" => P!Fresh(me),
         pm' = [pm EXCEPT !.seq = seq, !.caller = [pm.caller EXCEPT ![c] = me], !.pending = pending,
                          !.lock = lock, !.worker = worker, !.shown = shown]
  PROVE  P!IInv'
<1> USE DEF P!IInv
<1>1. [pm.caller EXCEPT ![c] = me] \in [Callers -> P!Asking] /\ pm.caller[c].seq \in Nat
  BY DEF P!TypeOK, P!Asking
<1>2. P!TypeOK'
  <2>1. /\ seq \in Nat /\ pending \in Nat
        /\ worker \in {"test", "empty", "asleep", "rank", "publish", "gone"}
    BY <1>1 DEF P!TypeOK
  <2> QED
    BY <1>1, <2>1 DEF P!TypeOK
<1>3. P!Numbered'
  <2>1. pm'.seq = seq /\ pm'.query = pm.query /\ pm'.result = pm.result /\ pm'.pending = pending
        /\ pm'.caller = [pm.caller EXCEPT ![c] = me] /\ pm.seq <= seq
    BY DEF P!TypeOK
  <2>2. pm.query \in Nat /\ pm.result \in Nat /\ pm.seq \in Nat /\ pm.caller \in [Callers -> P!Asking]
    BY DEF P!TypeOK
  <2>3. \A d \in Callers : pm.caller[d].seq \in Nat
    BY <2>2 DEF P!Asking
  <2> QED
    BY <2>1, <2>2, <2>3 DEF P!Numbered
<1>4. pm'.history <= pm'.epoch /\ pm'.ranked <= pm'.epoch
  BY DEF P!TypeOK
<1>5. ASSUME NEW d \in Callers, pm'.caller[d].at # "rest" PROVE P!Fresh(pm.caller[d])'
  <2>1. /\ pm'.epoch = pm.epoch /\ pm'.query = pm.query /\ pm'.history = pm.history
        /\ pm'.result = pm.result /\ pm'.ranked = pm.ranked
        /\ pm'.worker = "publish" => pm.worker = "publish"
    BY DEF P!TypeOK
  <2>2. CASE d = c
    <3>1. pm'.caller[d] = me
      BY <2>2 DEF P!TypeOK
    <3> QED
      BY <1>5, <2>1, <3>1 DEF P!Fresh
  <2>3. CASE d # c
    <3>1. pm'.caller[d] = pm.caller[d]
      BY <2>3 DEF P!TypeOK
    <3> QED
      BY <1>5, <2>1, <3>1 DEF P!Fresh
  <2> QED
    BY <2>2, <2>3
<1> QED
  BY <1>2, <1>3, <1>4, <1>5

LEMMA PredictionCallers ==
  ASSUME P!IInv, NEW c \in Callers, P!Number(c) \/ P!CallerStep(c) \/ P!TimeOut(c)
  PROVE  P!IInv'
<1>0. P!TypeOK /\ P!Numbered /\ pm.caller[c] \in P!Asking
  BY DEF P!IInv, P!TypeOK
<1>1. /\ pm.ranked \in Nat /\ pm.seq \in Nat /\ pm.epoch \in Nat /\ pm.ranked <= pm.epoch
      /\ pm.lock \in Callers \cup {"free", "worker"} /\ pm.shown \in [Callers -> [epoch : Nat, is : Nat]]
      /\ pm.pending \in Nat /\ pm.pending <= pm.seq
  BY <1>0 DEF P!IInv, P!TypeOK, P!Numbered
<1>2. pm.caller[c].at # "rest" => P!Fresh(pm.caller[c])
  BY DEF P!IInv
<1>3. CASE P!Number(c)
  <2> DEFINE me == [P!Resting EXCEPT !.at = "publish", !.seq = pm.seq + 1, !.epoch = pm.epoch]
  <2>1. me \in P!Asking /\ me.seq = pm.seq + 1 /\ me.epoch = pm.epoch /\ ~me.got
    <3>1. P!Resting \in P!Asking /\ ~P!Resting.got
      BY DEF P!Resting, P!Asking
    <3>2. pm.seq + 1 \in Nat
      BY <1>1
    <3>3. me \in P!Asking
      BY <1>1, <3>1, <3>2 DEF P!Asking
    <3>4. me.seq = pm.seq + 1 /\ me.epoch = pm.epoch /\ me.got = P!Resting.got
      BY <1>1, <3>1, <3>2 DEF P!Asking
    <3> QED
      BY <3>1, <3>3, <3>4
  <2>2. P!Fresh(me)
    <3>1. pm.query \in Nat /\ pm.result \in Nat /\ pm.seq + 1 # pm.query /\ pm.seq + 1 # pm.result
      BY <1>0, <1>1 DEF P!Numbered, P!TypeOK
    <3> QED
      BY <1>1, <2>1, <3>1 DEF P!Fresh
  <2>3. pm' = [pm EXCEPT !.seq = pm.seq + 1, !.caller = [pm.caller EXCEPT ![c] = me], !.pending = pm.pending,
                          !.lock = pm.lock, !.worker = pm.worker, !.shown = pm.shown]
    BY <1>0, <1>3 DEF P!Number, P!TypeOK
  <2> HIDE DEF me
  <2>4. pm.pending <= pm.seq + 1 /\ me.seq <= pm.seq + 1
    BY <1>1, <2>1
  <2> QED
    BY <1>1, <2>1, <2>2, <2>3, <2>4, PredictionCaller
<1>4. CASE P!PublishQuery(c)
  <2> DEFINE me == [pm.caller[c] EXCEPT !.at = "look"]
             worker == IF pm.worker = "asleep" THEN "test" ELSE pm.worker
  <2>1. me \in P!Asking /\ P!Fresh(me) /\ me.at # "rest" /\ me.seq <= pm.seq
    BY <1>0, <1>2, <1>4 DEF P!Numbered, P!PublishQuery, P!Asking, P!Fresh
  <2>2. pm' = [pm EXCEPT !.seq = pm.seq, !.caller = [pm.caller EXCEPT ![c] = me], !.pending = pm.caller[c].seq,
                          !.lock = pm.lock, !.worker = worker, !.shown = pm.shown]
    BY <1>0, <1>4 DEF P!PublishQuery, P!TypeOK
  <2>3. worker \in {pm.worker, "test"} /\ pm.caller[c].seq <= pm.seq
    BY <1>0 DEF P!Numbered
  <2> HIDE DEF me, worker
  <2> QED
    BY <1>1, <2>1, <2>2, <2>3, PredictionCaller
<1>5. CASE P!Look(c)
  <2> DEFINE you == pm.caller[c]
             me == IF pm.result = you.seq THEN P!Copied(you)
                   ELSE IF pm.result > you.seq \/ pm.stopping THEN [you EXCEPT !.at = "check"]
                   ELSE [you EXCEPT !.at = "sleep"]
             lock == IF pm.result >= you.seq \/ pm.stopping THEN pm.lock ELSE c
  <2>1. P!Fresh(you) /\ you.seq <= pm.seq
    BY <1>0, <1>2, <1>5 DEF P!Look, P!Numbered
  <2>2. me \in P!Asking /\ P!Fresh(me) /\ me.at # "rest" /\ me.seq <= pm.seq
    <3>1. CASE pm.result = you.seq
      <4>1. me = [you EXCEPT !.at = "check", !.got = TRUE, !.list = pm.ranked]
        BY <3>1 DEF P!Copied
      <4> HIDE DEF me
      <4> QED
        BY <1>0, <1>1, <2>1, <3>1, <4>1 DEF P!Asking, P!Fresh
    <3>2. CASE pm.result # you.seq
      <4>1. PICK at \in {"check", "sleep"} : me = [you EXCEPT !.at = at]
        BY <3>2
      <4> HIDE DEF me
      <4> QED
        BY <1>0, <1>1, <2>1, <4>1 DEF P!Asking, P!Fresh
    <3> QED
      BY <3>1, <3>2
  <2>3. pm' = [pm EXCEPT !.seq = pm.seq, !.caller = [pm.caller EXCEPT ![c] = me], !.pending = pm.pending,
                          !.lock = lock, !.worker = pm.worker, !.shown = pm.shown]
    BY <1>0, <1>5 DEF P!Look, P!TypeOK
  <2>4. lock \in Callers \cup {"free", "worker"}
    BY <1>1
  <2> HIDE DEF me, lock
  <2> QED
    BY <1>1, <2>2, <2>3, <2>4, PredictionCaller
<1>6. CASE P!FallAsleep(c)
  <2> DEFINE me == [pm.caller[c] EXCEPT !.at = "asleep"]
  <2>1. me \in P!Asking /\ P!Fresh(me) /\ me.at # "rest" /\ me.seq <= pm.seq
    BY <1>0, <1>2, <1>6 DEF P!Numbered, P!FallAsleep, P!Asking, P!Fresh
  <2>2. pm' = [pm EXCEPT !.seq = pm.seq, !.caller = [pm.caller EXCEPT ![c] = me], !.pending = pm.pending,
                          !.lock = "free", !.worker = pm.worker, !.shown = pm.shown]
    BY <1>0, <1>6 DEF P!FallAsleep, P!TypeOK
  <2> HIDE DEF me
  <2> QED
    BY <1>1, <2>1, <2>2, PredictionCaller
<1>7. CASE P!TimeOut(c)
  <2> DEFINE you == pm.caller[c]
             me == IF pm.result = you.seq THEN P!Copied(you) ELSE [you EXCEPT !.at = "check"]
  <2>1. P!Fresh(you) /\ you.seq <= pm.seq
    BY <1>0, <1>2, <1>7 DEF P!TimeOut, P!Numbered
  <2>2. me \in P!Asking /\ P!Fresh(me) /\ me.at # "rest" /\ me.seq <= pm.seq
    <3>1. CASE pm.result = you.seq
      <4>1. me = [you EXCEPT !.at = "check", !.got = TRUE, !.list = pm.ranked]
        BY <3>1 DEF P!Copied
      <4> HIDE DEF me
      <4> QED
        BY <1>0, <1>1, <2>1, <3>1, <4>1 DEF P!Asking, P!Fresh
    <3>2. CASE pm.result # you.seq
      <4>1. me = [you EXCEPT !.at = "check"]
        BY <3>2
      <4> HIDE DEF me
      <4> QED
        BY <1>0, <1>1, <2>1, <4>1 DEF P!Asking, P!Fresh
    <3> QED
      BY <3>1, <3>2
  <2>3. pm' = [pm EXCEPT !.seq = pm.seq, !.caller = [pm.caller EXCEPT ![c] = me], !.pending = pm.pending,
                          !.lock = pm.lock, !.worker = pm.worker, !.shown = pm.shown]
    BY <1>0, <1>7 DEF P!TimeOut, P!TypeOK
  <2> HIDE DEF me
  <2> QED
    BY <1>1, <2>2, <2>3, PredictionCaller
<1>8. CASE P!Check(c)
  <2> DEFINE you == pm.caller[c]
             shown == [pm.shown EXCEPT ![c] = IF you.got /\ pm.epoch = you.epoch
                                             THEN [epoch |-> pm.epoch, is |-> you.list] ELSE pm.shown[c]]
  <2>1. shown \in [Callers -> [epoch : Nat, is : Nat]]
    BY <1>0, <1>1 DEF P!Asking
  <2>2. P!Resting \in P!Asking /\ P!Resting.at = "rest" /\ P!Resting.seq <= pm.seq
    BY <1>1 DEF P!Asking, P!Resting
  <2>3. pm' = [pm EXCEPT !.seq = pm.seq, !.caller = [pm.caller EXCEPT ![c] = P!Resting], !.pending = pm.pending,
                          !.lock = pm.lock, !.worker = pm.worker, !.shown = shown]
    BY <1>0, <1>8 DEF P!Check, P!TypeOK
  <2> HIDE DEF shown
  <2> QED
    BY <1>1, <2>1, <2>2, <2>3, PredictionCaller
<1> QED
  BY <1>3, <1>4, <1>5, <1>6, <1>7, <1>8 DEF P!CallerStep

LEMMA PredictionNext == P!IInv /\ [P!Next]_pm => P!IInv'
<1> SUFFICES ASSUME P!IInv, [P!Next]_pm PROVE P!IInv'
  OBVIOUS
<1>1. CASE \E c \in Callers : P!Number(c) \/ P!CallerStep(c) \/ P!TimeOut(c)
  BY <1>1, PredictionCallers
<1> USE DEF P!IInv
<1>2. CASE P!Learn
  <2>1. P!TypeOK'
    BY <1>2 DEF P!Learn, P!TypeOK
  <2> QED
    BY <1>2, <2>1 DEF P!Learn, P!TypeOK, P!Asking, P!Numbered, P!Fresh
<1>3. CASE P!Test
  <2>1. P!TypeOK'
    BY <1>3, PredictionAwake DEF P!Test, P!TypeOK
  <2>2. CASE pm.stopping
    <3>1. /\ pm'.caller = P!AllAwake
          /\ pm' = [pm EXCEPT !.worker = "gone", !.caller = P!AllAwake]
      BY <1>3, <2>2 DEF P!Test, P!TypeOK
    <3> QED
      BY <2>1, <3>1, PredictionAwake DEF P!TypeOK, P!Asking, P!Numbered, P!Fresh
  <2>3. CASE ~pm.stopping
    <3>1. PICK worker \in {"empty", "rank"}, lock \in {pm.lock, "worker"} :
            pm' = [pm EXCEPT !.worker = worker, !.query = pm.pending, !.pending = 0, !.lock = lock]
      BY <1>3, <2>3 DEF P!Test, P!TypeOK
    <3> QED
      BY <2>1, <3>1 DEF P!TypeOK, P!Asking, P!Numbered, P!Fresh
  <2> QED
    BY <2>2, <2>3 DEF P!TypeOK
<1>4. CASE P!Sleep
  <2>1. P!TypeOK'
    BY <1>4 DEF P!Sleep, P!TypeOK
  <2> QED
    BY <1>4, <2>1 DEF P!Sleep, P!TypeOK, P!Asking, P!Numbered, P!Fresh
<1>5. CASE P!Rank
  <2>1. P!TypeOK'
    BY <1>5 DEF P!Rank, P!TypeOK
  <2> QED
    BY <1>5, <2>1 DEF P!Rank, P!TypeOK, P!Asking, P!Numbered, P!Fresh
<1>6. CASE P!Deliver
  <2>1. P!TypeOK'
    BY <1>6, PredictionAwake DEF P!Deliver, P!TypeOK
  <2> QED
    BY <1>6, <2>1, PredictionAwake DEF P!Deliver, P!TypeOK, P!Asking, P!Numbered, P!Fresh
<1>7. CASE P!Flag
  <2>1. P!TypeOK'
    BY <1>7 DEF P!Flag, P!TypeOK
  <2> QED
    BY <1>7, <2>1 DEF P!Flag, P!TypeOK, P!Asking, P!Numbered, P!Fresh
<1>8. CASE P!Notify
  <2>1. P!TypeOK'
    BY <1>8, PredictionAwake DEF P!Notify, P!TypeOK
  <2> QED
    BY <1>8, <2>1, PredictionAwake DEF P!Notify, P!TypeOK, P!Asking, P!Numbered, P!Fresh
<1>9. CASE P!Join
  <2>1. P!TypeOK'
    BY <1>9 DEF P!Join, P!TypeOK
  <2> QED
    BY <1>9, <2>1 DEF P!Join, P!TypeOK, P!Asking, P!Numbered, P!Fresh
<1>10. CASE UNCHANGED pm
  BY <1>10 DEF P!TypeOK, P!Numbered, P!Fresh
<1> QED
  BY <1>1, <1>2, <1>3, <1>4, <1>5, <1>6, <1>7, <1>8, <1>9, <1>10 DEF P!Next, P!Worker

(* A list that is shown was ranked with the history of the moment it is     *)
(* shown.                                                                   *)
THEOREM PredictionShowsCurrent == P!Spec => ShownIsCurrent
<1>1. P!IInv /\ [P!Next]_pm => [\A c \in Callers :
          pm'.shown[c] # pm.shown[c] => pm'.shown[c].is = pm.epoch]_pm
  <2> SUFFICES ASSUME P!IInv, P!Next, NEW d \in Callers, pm'.shown[d] # pm.shown[d]
               PROVE  pm'.shown[d].is = pm.epoch
    OBVIOUS
  <2>1. CASE \E c \in Callers : P!Check(c)
    BY <2>1 DEF P!IInv, P!TypeOK, P!Asking, P!Check, P!Fresh
  <2>2. CASE ~\E c \in Callers : P!Check(c)
    <3>1. pm'.shown = pm.shown
      BY <2>2 DEF P!IInv, P!TypeOK, P!Next, P!CallerStep, P!Worker, P!Number, P!PublishQuery, P!Look,
            P!FallAsleep, P!TimeOut, P!Learn, P!Test, P!Sleep, P!Rank, P!Deliver, P!Flag, P!Notify, P!Join
    <3> QED
      BY <3>1
  <2> QED
    BY <2>1, <2>2
<1> QED
  BY <1>1, PredictionInit, PredictionNext, PTL DEF P!Spec, P!ShownIsCurrent, ShownIsCurrent

-----------------------------------------------------------------------------
(* Whoever watched the board when the engine was stopped has its farewell.  *)

Finite == IsFiniteSet(Watchers)

LEMMA SameCardinality == \A S : W!Cardinality(S) = Cardinality(S)
BY DEF W!Cardinality, Cardinality

Watching == [at : W!Connected \cup {"failed", "lost", "ended"}, since : Nat, farewell : BOOLEAN,
             launched : BOOLEAN]

LEMMA WatchInit == W!Init => W!IInv
<1> SUFFICES ASSUME W!Init PROVE W!IInv
  OBVIOUS
<1>1. W!Served = {}
  BY DEF W!Init, W!Served, W!At, W!Start
<1>2. W!TypeOK
  BY DEF W!Init, W!TypeOK, W!Start
<1>3. W!SeenIsPast
  BY DEF W!Init, W!SeenIsPast, W!At, W!Start, W!Connected
<1>4. uw.engine = "serving" /\ uw.stopping = FALSE /\ uw.delivering = 0
  BY DEF W!Init
<1>5. Cardinality(W!Served) = 0
  BY <1>1, FS_EmptySet
<1>6. W!Counted
  BY <1>4, <1>5, SameCardinality DEF W!Counted
<1>7. W!Announced
  BY <1>4 DEF W!Announced
<1> QED
  BY <1>2, <1>3, <1>4, <1>6, <1>7 DEF W!IInv, W!FarewellReachesWatchers, W!FarewellIsDue

(* Who is served changes by one watcher at most.                            *)
LEMMA ServedCounts ==
  ASSUME Finite, W!TypeOK
  PROVE  /\ IsFiniteSet(W!Served) /\ Cardinality(W!Served) \in Nat
         /\ \A w \in Watchers \ W!Served : Cardinality(W!Served \cup {w}) = Cardinality(W!Served) + 1
         /\ \A w \in W!Served : /\ Cardinality(W!Served \ {w}) = Cardinality(W!Served) - 1
                                /\ Cardinality(W!Served) > 0
         /\ Cardinality(W!Served) = 0 => W!Served = {}
<1>1. IsFiniteSet(W!Served)
  BY FS_Subset DEF Finite, W!Served
<1>2. Cardinality(W!Served) \in Nat
  BY <1>1, FS_CardinalityType
<1>3. \A w \in Watchers \ W!Served : Cardinality(W!Served \cup {w}) = Cardinality(W!Served) + 1
  BY <1>1, FS_AddElement
<1>4. \A w \in W!Served : Cardinality(W!Served \ {w}) = Cardinality(W!Served) - 1
  BY <1>1, FS_RemoveElement
<1>5. Cardinality(W!Served) = 0 <=> W!Served = {}
  BY <1>1, FS_EmptySet
<1> QED
  BY <1>1, <1>2, <1>3, <1>4, <1>5

(* A step of one watcher: it ends up as `me'.                               *)
IsServed(me) == me.at \in {"look", "asleep", "write", "counted", "failed"}
Farewell(me) ==
  \/ me.at = "ended"
  \/ me.at = "look" /\ me.since < uw.rev
  \/ me.at \in {"write", "counted"} /\ me.farewell

WatcherMoves(w, me, delivering, faults, waiting, engine) ==
  /\ uw' = [uw EXCEPT !.watcher = [uw.watcher EXCEPT ![w] = me], !.delivering = delivering,
                      !.faults = faults, !.waiting = waiting, !.engine = engine]
  /\ me \in Watching /\ delivering \in Nat /\ faults \in Nat
  /\ engine = uw.engine \/ (uw.engine = "settling" /\ engine = "settle")
  /\ waiting \in {uw.waiting, uw.waiting \ {w}}
  /\ W!Running => delivering = (IF w \in W!Served THEN uw.delivering - 1 ELSE uw.delivering)
                                 + (IF IsServed(me) THEN 1 ELSE 0)
  /\ me.at = "lost" => me.since = 0
  /\ W!Running /\ me.at \in W!Connected => me.since <= uw.rev
  /\ uw.engine \in {"settle", "settling"} /\ w \in waiting => Farewell(me)
  /\ uw.engine = "over" /\ w \in waiting => me.at = "ended"

LEMMA WatchMoves ==
  ASSUME Finite, W!IInv, NEW w \in Watchers, NEW me, NEW delivering, NEW faults, NEW waiting, NEW engine,
         WatcherMoves(w, me, delivering, faults, waiting, engine)
  PROVE  W!IInv'
<1> USE DEF WatcherMoves
<1>0. W!TypeOK
  BY DEF W!IInv
<1>1. /\ uw'.watcher = [uw.watcher EXCEPT ![w] = me] /\ uw'.watcher \in [Watchers -> Watching]
      /\ uw'.watcher[w] = me /\ \A v \in Watchers \ {w} : uw'.watcher[v] = uw.watcher[v]
      /\ uw'.engine = engine /\ uw'.rev = uw.rev /\ uw'.stopping = uw.stopping
      /\ uw'.delivering = delivering /\ uw'.waiting = waiting
  BY <1>0 DEF W!TypeOK, Watching
<1>2. W!TypeOK'
  <2>1. engine \in {"serving", "settle", "settling", "over", "late", "crashed"}
    BY <1>0 DEF W!TypeOK
  <2>2. waiting \in SUBSET Watchers
    BY <1>0 DEF W!TypeOK
  <2> QED
    BY <1>0, <1>1, <2>1, <2>2 DEF W!TypeOK, Watching
<1>3. W!Running' <=> W!Running
  BY <1>1 DEF W!Running
<1>4. W!SeenIsPast'
  <2>1. W!SeenIsPast
    BY DEF W!IInv
  <2> QED
    BY <1>1, <1>3, <2>1 DEF W!SeenIsPast, W!At
<1>5. W!Announced'
  BY <1>1 DEF W!IInv, W!Announced
<1>6. W!Counted'
  <2> SUFFICES ASSUME W!Running' PROVE uw'.delivering = Cardinality(W!Served')
    BY SameCardinality DEF W!Counted
  <2>1. uw.delivering = Cardinality(W!Served)
    BY <1>3, SameCardinality DEF W!IInv, W!Counted
  <2>2. W!Served' = IF IsServed(me) THEN W!Served \cup {w} ELSE W!Served \ {w}
    BY <1>1 DEF W!Served, W!At, IsServed
  <2>3. w \in W!Served => W!Served \cup {w} = W!Served
    OBVIOUS
  <2>4. w \notin W!Served => W!Served \ {w} = W!Served
    OBVIOUS
  <2>5. w \in W!Served => Cardinality(W!Served \ {w}) = Cardinality(W!Served) - 1
    BY <1>0, ServedCounts
  <2>6. w \notin W!Served => Cardinality(W!Served \cup {w}) = Cardinality(W!Served) + 1
    BY <1>0, ServedCounts
  <2>7. Cardinality(W!Served) \in Nat
    BY <1>0, ServedCounts
  <2>8. CASE w \in W!Served /\ IsServed(me)
    <3>1. W!Served' = W!Served
      BY <2>2, <2>3, <2>8
    <3>2. uw'.delivering = uw.delivering - 1 + 1
      BY <1>1, <1>3, <2>8
    <3> QED
      BY <2>1, <2>7, <3>1, <3>2
  <2>9. CASE w \in W!Served /\ ~IsServed(me)
    BY <1>1, <1>3, <2>1, <2>2, <2>5, <2>7, <2>9
  <2>10. CASE w \notin W!Served /\ IsServed(me)
    BY <1>1, <1>3, <2>1, <2>2, <2>6, <2>7, <2>10
  <2>11. CASE w \notin W!Served /\ ~IsServed(me)
    BY <1>1, <1>3, <2>1, <2>2, <2>4, <2>7, <2>11
  <2> QED
    BY <2>8, <2>9, <2>10, <2>11
<1>7. ASSUME uw'.engine \in {"settle", "settling"}, NEW v \in uw'.waiting PROVE W!Farewell(v)'
  <2>1. v \in Watchers /\ v \in waiting /\ v \in uw.waiting /\ uw.engine \in {"settle", "settling"}
    BY <1>0, <1>1, <1>7 DEF W!TypeOK
  <2>2. W!Farewell(v)
    BY <2>1 DEF W!IInv, W!FarewellIsDue
  <2>3. CASE v = w
    BY <1>1, <2>1, <2>3 DEF W!Farewell, W!At, Farewell
  <2>4. CASE v # w
    BY <1>1, <2>1, <2>2, <2>4 DEF W!Farewell, W!At
  <2> QED
    BY <2>3, <2>4
<1>8. W!FarewellReachesWatchers'
  <2> SUFFICES ASSUME uw'.engine = "over", NEW v \in uw'.waiting PROVE uw'.watcher[v].at = "ended"
    BY DEF W!FarewellReachesWatchers, W!At
  <2>1. v \in Watchers /\ v \in waiting /\ v \in uw.waiting /\ uw.engine = "over"
    BY <1>0, <1>1 DEF W!TypeOK
  <2>2. uw.watcher[v].at = "ended"
    BY <2>1 DEF W!IInv, W!FarewellReachesWatchers, W!At
  <2> QED
    BY <1>1, <2>1, <2>2
<1> QED
  BY <1>2, <1>4, <1>5, <1>6, <1>7, <1>8 DEF W!IInv, W!FarewellIsDue

LEMMA WatchersWoken ==
  ASSUME W!TypeOK
  PROVE  /\ W!Wake \in [Watchers -> Watching]
         /\ \A w \in Watchers :
              /\ W!Wake[w].at = (IF W!At(w) = "asleep" THEN "look" ELSE W!At(w))
              /\ W!Wake[w].since = uw.watcher[w].since /\ W!Wake[w].farewell = uw.watcher[w].farewell
BY DEF W!TypeOK, W!Wake, W!At, Watching, W!Connected

(* Where a watcher is decides whether it is served.                         *)
LEMMA ServedAt ==
  ASSUME Finite, W!IInv, NEW w \in Watchers
  PROVE  /\ uw.watcher[w] \in Watching /\ (w \in W!Served <=> IsServed(uw.watcher[w]))
         /\ W!TypeOK /\ uw.delivering \in Nat /\ uw.faults \in Nat /\ uw.rev \in Nat
         /\ W!Running /\ w \in W!Served => uw.delivering > 0
         /\ uw.engine \in {"settle", "settling"} /\ w \in uw.waiting => Farewell(uw.watcher[w])
         /\ uw.engine = "over" /\ w \in uw.waiting => uw.watcher[w].at = "ended"
         /\ uw.watcher[w].at = "lost" => uw.watcher[w].since = 0
         /\ W!Running /\ uw.watcher[w].at \in W!Connected => uw.watcher[w].since <= uw.rev
         /\ uw.stopping <=> uw.engine \in {"settle", "settling", "over", "late"}
<1>1. W!TypeOK /\ uw.watcher[w] \in Watching /\ uw.delivering \in Nat /\ uw.faults \in Nat /\ uw.rev \in Nat
  BY DEF W!IInv, W!TypeOK, Watching
<1>2. w \in W!Served <=> IsServed(uw.watcher[w])
  BY DEF W!Served, W!At, IsServed
<1>3. W!Running /\ w \in W!Served => uw.delivering > 0
  BY <1>1, ServedCounts, SameCardinality DEF W!IInv, W!Counted
<1>4. /\ uw.engine \in {"settle", "settling"} /\ w \in uw.waiting => Farewell(uw.watcher[w])
      /\ uw.engine = "over" /\ w \in uw.waiting => uw.watcher[w].at = "ended"
  BY DEF W!IInv, W!FarewellIsDue, W!FarewellReachesWatchers, W!Farewell, Farewell, W!At
<1>5. /\ uw.watcher[w].at = "lost" => uw.watcher[w].since = 0
      /\ W!Running /\ uw.watcher[w].at \in W!Connected => uw.watcher[w].since <= uw.rev
  BY DEF W!IInv, W!SeenIsPast, W!At
<1> QED
  BY <1>1, <1>2, <1>3, <1>4, <1>5 DEF W!IInv, W!Announced

LEMMA WatchSteps ==
  ASSUME Finite, W!IInv, NEW w \in Watchers,
         W!Ask(w) \/ W!CallStep(w) \/ W!Heartbeat(w) \/ W!Lose(w) \/ W!Connect(w) \/ W!GiveUp(w)
           \/ W!GapEnds(w)
  PROVE  W!IInv'
<1> DEFINE you == uw.watcher[w]
<1>0. /\ you \in Watching /\ (w \in W!Served <=> IsServed(you))
      /\ W!TypeOK /\ uw.delivering \in Nat /\ uw.faults \in Nat /\ uw.rev \in Nat
      /\ W!Running /\ w \in W!Served => uw.delivering > 0
      /\ uw.engine \in {"settle", "settling"} /\ w \in uw.waiting => Farewell(you)
      /\ uw.engine = "over" /\ w \in uw.waiting => you.at = "ended"
      /\ you.at = "lost" => you.since = 0
      /\ W!Running /\ you.at \in W!Connected => you.since <= uw.rev
      /\ uw.stopping <=> uw.engine \in {"settle", "settling", "over", "late"}
      /\ W!At(w) = you.at
  BY ServedAt DEF W!At
<1>1. CASE W!Ask(w)
  <2> DEFINE me == [you EXCEPT !.at = "look"]
  <2>1. you.at = "away" /\ W!Running /\ uw.engine # "over"
    BY <1>0, <1>1 DEF W!Ask, W!Running
  <2>2. uw' = [uw EXCEPT !.watcher = [uw.watcher EXCEPT ![w] = me], !.delivering = uw.delivering + 1,
                        !.faults = uw.faults, !.waiting = uw.waiting, !.engine = uw.engine]
    BY <1>0, <1>1 DEF W!Ask, W!TypeOK
  <2>3. me \in Watching /\ me.at = "look" /\ me.since = you.since /\ me.farewell = you.farewell
    BY <1>0 DEF Watching, W!Connected
  <2> HIDE DEF me, you
  <2>4. ~IsServed(you) /\ IsServed(me) /\ you.at \in W!Connected
    BY <2>1, <2>3 DEF IsServed, W!Connected
  <2>5. ~(uw.engine \in {"settle", "settling"} /\ w \in uw.waiting)
    BY <1>0, <2>1 DEF Farewell
  <2>6. uw.delivering + 1 \in Nat
    BY <1>0
  <2>7. WatcherMoves(w, me, uw.delivering + 1, uw.faults, uw.waiting, uw.engine)
    BY <1>0, <2>1, <2>2, <2>3, <2>4, <2>5, <2>6 DEF WatcherMoves
  <2> QED
    BY <2>7, WatchMoves
<1>2. CASE W!Look(w)
  <2> DEFINE me == IF uw.rev = you.since THEN [you EXCEPT !.at = "asleep"]
                   ELSE [you EXCEPT !.at = "write", !.since = uw.rev, !.farewell = uw.stopping]
  <2>1. you.at = "look" /\ W!Running /\ uw.engine # "over"
    BY <1>0, <1>2 DEF W!Look, W!Running
  <2>2. uw' = [uw EXCEPT !.watcher = [uw.watcher EXCEPT ![w] = me], !.delivering = uw.delivering,
                        !.faults = uw.faults, !.waiting = uw.waiting, !.engine = uw.engine]
    BY <1>0, <1>2 DEF W!Look, W!Answer, W!TypeOK
  <2>3. uw.stopping \in BOOLEAN
    BY <1>0 DEF W!TypeOK
  <2>4. /\ me \in Watching /\ me.at \in {"asleep", "write"}
        /\ me.at = "asleep" => uw.rev = you.since /\ me.since = you.since
        /\ me.at = "write" => me.since = uw.rev /\ me.farewell = uw.stopping
    BY <1>0, <2>3 DEF Watching, W!Connected
  <2> HIDE DEF me, you
  <2>5. IsServed(you) /\ IsServed(me) /\ you.at \in W!Connected
    BY <2>1, <2>4 DEF IsServed, W!Connected
  <2>6. uw.engine \in {"settle", "settling"} /\ w \in uw.waiting => Farewell(me)
    BY <1>0, <2>1, <2>4 DEF Farewell
  <2>7. me.since <= uw.rev
    BY <1>0, <2>4
  <2>8. WatcherMoves(w, me, uw.delivering, uw.faults, uw.waiting, uw.engine)
    BY <1>0, <2>1, <2>2, <2>4, <2>5, <2>6, <2>7 DEF WatcherMoves
  <2> QED
    BY <2>8, WatchMoves
<1>3. CASE W!Write(w)
  <2>1. PICK at \in {"counted", "failed"} :
          /\ W!Running /\ W!At(w) = "write" /\ (at = "failed" => uw.faults < MaxFaults)
          /\ uw' = [uw EXCEPT !.watcher[w].at = at, !.faults = IF at = "failed" THEN @ + 1 ELSE @,
                              !.waiting = IF at = "failed" THEN @ \ {w} ELSE @]
    BY <1>3 DEF W!Write
  <2> DEFINE me == [you EXCEPT !.at = at]
             faults == IF at = "failed" THEN uw.faults + 1 ELSE uw.faults
             waiting == IF at = "failed" THEN uw.waiting \ {w} ELSE uw.waiting
  <2>2. you.at = "write" /\ W!Running /\ uw.engine # "over"
    BY <1>0, <2>1 DEF W!Running
  <2>3. uw' = [uw EXCEPT !.watcher = [uw.watcher EXCEPT ![w] = me], !.delivering = uw.delivering,
                        !.faults = faults, !.waiting = waiting, !.engine = uw.engine]
    BY <1>0, <2>1 DEF W!TypeOK
  <2>4. me \in Watching /\ me.at = at /\ me.since = you.since /\ me.farewell = you.farewell
    BY <1>0 DEF Watching, W!Connected
  <2>5. faults \in Nat /\ waiting \in {uw.waiting, uw.waiting \ {w}}
    BY <1>0
  <2>6. w \in waiting => at = "counted" /\ w \in uw.waiting
    OBVIOUS
  <2> HIDE DEF me, you, faults, waiting
  <2>7. IsServed(you) /\ IsServed(me) /\ you.at \in W!Connected /\ me.at # "lost"
    BY <2>2, <2>4 DEF IsServed, W!Connected
  <2>8. uw.engine \in {"settle", "settling"} /\ w \in waiting => Farewell(me)
    BY <1>0, <2>2, <2>4, <2>6 DEF Farewell
  <2>9. WatcherMoves(w, me, uw.delivering, faults, waiting, uw.engine)
    BY <1>0, <2>2, <2>3, <2>4, <2>5, <2>7, <2>8 DEF WatcherMoves
  <2> QED
    BY <2>9, WatchMoves
<1>4. CASE W!Drop(w)
  <2> DEFINE me == W!AfterCall(w)
             engine == IF uw.engine = "settling" /\ uw.delivering = 1 THEN "settle" ELSE uw.engine
  <2>1. you.at \in {"counted", "failed"} /\ W!Running /\ uw.engine # "over"
    BY <1>0, <1>4 DEF W!Drop, W!Running
  <2>2. uw' = [uw EXCEPT !.watcher = [uw.watcher EXCEPT ![w] = me], !.delivering = uw.delivering - 1,
                        !.faults = uw.faults, !.waiting = uw.waiting, !.engine = engine]
    BY <1>0, <1>4 DEF W!Drop, W!Dropped, W!TypeOK
  <2>3. /\ me \in Watching
        /\ you.at = "failed" => me.at = "lost" /\ me.since = 0
        /\ you.at = "counted" => /\ me.since = you.since
                                /\ me.at = (IF you.farewell THEN "ended" ELSE "away")
    BY <1>0, <2>1 DEF Watching, W!Connected, W!AfterCall
  <2>4. engine = uw.engine \/ (uw.engine = "settling" /\ engine = "settle")
    OBVIOUS
  <2> HIDE DEF me, you, engine
  <2>5. /\ IsServed(you) /\ ~IsServed(me)
        /\ me.at = "lost" => me.since = 0
        /\ me.at \in W!Connected => you.at \in W!Connected /\ me.since = you.since
    BY <2>1, <2>3 DEF IsServed, W!Connected
  <2>6. uw.engine \in {"settle", "settling"} /\ w \in uw.waiting => Farewell(me)
    BY <1>0, <2>1, <2>3 DEF Farewell
  <2>7. w \in W!Served /\ uw.delivering > 0 /\ uw.delivering \in Nat
    BY <1>0, <2>1, <2>5
  <2>8. uw.delivering - 1 \in Nat /\ uw.delivering - 1 = uw.delivering - 1 + 0
    BY <2>7
  <2>9. WatcherMoves(w, me, uw.delivering - 1, uw.faults, uw.waiting, engine)
    BY <1>0, <2>1, <2>2, <2>3, <2>4, <2>5, <2>6, <2>7, <2>8 DEF WatcherMoves
  <2> QED
    BY <2>9, WatchMoves
<1>5. CASE W!Heartbeat(w)
  <2> DEFINE me == [you EXCEPT !.at = "write", !.since = uw.rev, !.farewell = uw.stopping]
  <2>1. you.at = "asleep" /\ W!Running /\ uw.engine # "over"
    BY <1>0, <1>5 DEF W!Heartbeat, W!Running
  <2>2. uw' = [uw EXCEPT !.watcher = [uw.watcher EXCEPT ![w] = me], !.delivering = uw.delivering,
                        !.faults = uw.faults, !.waiting = uw.waiting, !.engine = uw.engine]
    BY <1>0, <1>5 DEF W!Heartbeat, W!Answer, W!TypeOK
  <2>3. uw.stopping \in BOOLEAN
    BY <1>0 DEF W!TypeOK
  <2>4. me \in Watching /\ me.at = "write" /\ me.since = uw.rev /\ me.farewell = uw.stopping
    BY <1>0, <2>3 DEF Watching, W!Connected
  <2> HIDE DEF me, you
  <2>5. IsServed(you) /\ IsServed(me) /\ you.at \in W!Connected
    BY <2>1, <2>4 DEF IsServed, W!Connected
  <2>6. uw.engine \in {"settle", "settling"} /\ w \in uw.waiting => Farewell(me)
    BY <1>0, <2>1, <2>4 DEF Farewell
  <2>7. me.since <= uw.rev
    BY <1>0, <2>4
  <2>8. WatcherMoves(w, me, uw.delivering, uw.faults, uw.waiting, uw.engine)
    BY <1>0, <2>1, <2>2, <2>4, <2>5, <2>6, <2>7 DEF WatcherMoves
  <2> QED
    BY <2>8, WatchMoves
<1>6. CASE W!Lose(w)
  <2> DEFINE me == W!Unplugged(w)
  <2>1. you.at \in W!Connected \cup {"failed"} /\ ~W!Running
    BY <1>0, <1>6 DEF W!Lose, W!Severed
  <2>2. uw' = [uw EXCEPT !.watcher = [uw.watcher EXCEPT ![w] = me], !.delivering = uw.delivering,
                        !.faults = uw.faults, !.waiting = uw.waiting, !.engine = uw.engine]
    BY <1>0, <1>6 DEF W!Lose, W!TypeOK
  <2>3. me \in Watching /\ me.at \in {"lost", "ended"} /\ (me.at = "lost" => me.since = 0)
    BY <1>0 DEF Watching, W!Unplugged, W!AfterCall, W!Connected
  <2> HIDE DEF me, you
  <2>4. ~(uw.engine \in {"settle", "settling"}) /\ ~(uw.engine = "over" /\ w \in uw.waiting)
    BY <1>0, <2>1 DEF W!Running, W!Connected
  <2>5. WatcherMoves(w, me, uw.delivering, uw.faults, uw.waiting, uw.engine)
    BY <1>0, <2>1, <2>2, <2>3, <2>4 DEF WatcherMoves
  <2> QED
    BY <2>5, WatchMoves
<1>7. CASE W!Connect(w)
  <2> DEFINE me == [you EXCEPT !.at = "away", !.launched = FALSE]
  <2>1. you.at = "lost" /\ W!Running /\ uw.engine # "over"
    BY <1>0, <1>7 DEF W!Connect, W!Running
  <2>2. uw' = [uw EXCEPT !.watcher = [uw.watcher EXCEPT ![w] = me], !.delivering = uw.delivering,
                        !.faults = uw.faults, !.waiting = uw.waiting, !.engine = uw.engine]
    BY <1>0, <1>7 DEF W!Connect, W!TypeOK
  <2>3. me \in Watching /\ me.at = "away" /\ me.since = you.since
    BY <1>0 DEF Watching, W!Connected
  <2> HIDE DEF me, you
  <2>4. ~IsServed(you) /\ ~IsServed(me) /\ me.since = 0
    BY <1>0, <2>1, <2>3 DEF IsServed
  <2>5. ~(uw.engine \in {"settle", "settling"} /\ w \in uw.waiting)
    BY <1>0, <2>1 DEF Farewell
  <2>6. me.since <= uw.rev
    BY <1>0, <2>4
  <2>7. WatcherMoves(w, me, uw.delivering, uw.faults, uw.waiting, uw.engine)
    BY <1>0, <2>1, <2>2, <2>3, <2>4, <2>5, <2>6 DEF WatcherMoves
  <2> QED
    BY <2>7, WatchMoves
<1>8. CASE W!GiveUp(w)
  <2> DEFINE me == [you EXCEPT !.at = "ended"]
  <2>1. you.at = "lost" /\ ~W!Running
    BY <1>0, <1>8 DEF W!GiveUp
  <2>2. uw' = [uw EXCEPT !.watcher = [uw.watcher EXCEPT ![w] = me], !.delivering = uw.delivering,
                        !.faults = uw.faults, !.waiting = uw.waiting, !.engine = uw.engine]
    BY <1>0, <1>8 DEF W!GiveUp, W!TypeOK
  <2>3. me \in Watching /\ me.at = "ended"
    BY <1>0 DEF Watching, W!Connected
  <2> HIDE DEF me, you
  <2>4. WatcherMoves(w, me, uw.delivering, uw.faults, uw.waiting, uw.engine)
    BY <1>0, <2>1, <2>2, <2>3 DEF WatcherMoves, Farewell
  <2> QED
    BY <2>4, WatchMoves
<1>9. CASE W!GapEnds(w)
  <2> DEFINE me == [you EXCEPT !.launched = FALSE]
  <2>1. uw' = [uw EXCEPT !.watcher = [uw.watcher EXCEPT ![w] = me], !.delivering = uw.delivering,
                        !.faults = uw.faults, !.waiting = uw.waiting, !.engine = uw.engine]
    BY <1>0, <1>9 DEF W!GapEnds, W!TypeOK
  <2>2. me \in Watching /\ me.at = you.at /\ me.since = you.since /\ me.farewell = you.farewell
    BY <1>0 DEF Watching, W!Connected
  <2> HIDE DEF me, you
  <2>3. IsServed(me) <=> w \in W!Served
    BY <1>0, <2>2 DEF IsServed
  <2>4. Farewell(me) <=> Farewell(you)
    BY <2>2 DEF Farewell
  <2>5. WatcherMoves(w, me, uw.delivering, uw.faults, uw.waiting, uw.engine)
    BY <1>0, <2>1, <2>2, <2>3, <2>4 DEF WatcherMoves
  <2> QED
    BY <2>5, WatchMoves
<1> QED
  BY <1>1, <1>2, <1>3, <1>4, <1>5, <1>6, <1>7, <1>8, <1>9 DEF W!CallStep

(* A step of the whole engine: the watchers may be woken.                   *)
LEMMA WakeSteps ==
  ASSUME Finite, W!IInv, W!Publish \/ W!Stop
  PROVE  W!IInv'
<1> DEFINE waiting == IF W!Stop THEN {v \in Watchers : W!At(v) \in {"look", "asleep"}} ELSE uw.waiting
           stopping == IF W!Stop THEN TRUE ELSE uw.stopping
           engine == IF W!Stop THEN "settle" ELSE uw.engine
<1>0. W!TypeOK /\ uw.engine = "serving" /\ uw.rev \in Nat /\ uw.delivering \in Nat
  BY DEF W!IInv, W!TypeOK, W!Publish, W!Stop
<1>1. W!Wake \in [Watchers -> Watching]
  BY <1>0, WatchersWoken
<1>2. uw' = [uw EXCEPT !.rev = uw.rev + 1, !.watcher = W!Wake, !.engine = engine, !.stopping = stopping,
                      !.waiting = waiting]
  <2>1. CASE W!Stop
    BY <1>0, <2>1 DEF W!TypeOK, W!Stop
  <2>2. CASE ~W!Stop
    BY <1>0, <2>2 DEF W!TypeOK, W!Publish
  <2> QED
    BY <2>1, <2>2
<1>3. /\ waiting \in SUBSET Watchers /\ stopping \in BOOLEAN /\ engine \in {"serving", "settle"}
      /\ engine = "settle" => \A v \in waiting : W!At(v) \in {"look", "asleep"}
      /\ stopping <=> engine = "settle"
  BY <1>0 DEF W!IInv, W!Announced, W!TypeOK
<1> HIDE DEF waiting, stopping, engine
<1>4. /\ uw'.rev = uw.rev + 1 /\ uw'.watcher = W!Wake /\ uw'.engine = engine /\ uw'.stopping = stopping
      /\ uw'.waiting = waiting /\ uw'.delivering = uw.delivering
  BY <1>0, <1>2 DEF W!TypeOK
<1>5. W!TypeOK'
  <2>1. /\ waiting \in SUBSET Watchers /\ stopping \in BOOLEAN /\ uw.rev + 1 \in Nat
        /\ engine \in {"serving", "settle", "settling", "over", "late", "crashed"}
    BY <1>0, <1>3
  <2> QED
    BY <1>0, <1>1, <1>2, <2>1 DEF W!TypeOK, Watching
<1>6. /\ W!Running /\ W!Running' /\ uw'.engine # "over"
      /\ \A w \in Watchers : uw'.watcher[w] = W!Wake[w] /\ uw.watcher[w].since \in Nat
  BY <1>0, <1>3, <1>4 DEF W!Running, W!TypeOK
<1>7. \A w \in Watchers : /\ W!Wake[w].at = (IF W!At(w) = "asleep" THEN "look" ELSE W!At(w))
                           /\ W!Wake[w].since = uw.watcher[w].since
                           /\ W!Wake[w].farewell = uw.watcher[w].farewell
  BY <1>0, WatchersWoken
<1>8. ASSUME NEW w \in Watchers
      PROVE  /\ W!At(w) = "lost" => uw.watcher[w].since = 0
             /\ W!At(w) \in W!Connected => uw.watcher[w].since <= uw.rev
  BY <1>6 DEF W!IInv, W!SeenIsPast
<1>9. W!SeenIsPast'
  <2> SUFFICES ASSUME NEW w \in Watchers
               PROVE  /\ uw'.watcher[w].at = "lost" => uw'.watcher[w].since = 0
                      /\ uw'.watcher[w].at \in W!Connected => uw'.watcher[w].since <= uw'.rev
    BY DEF W!SeenIsPast, W!At
  <2>1. /\ uw'.watcher[w].at = (IF W!At(w) = "asleep" THEN "look" ELSE W!At(w))
        /\ uw'.watcher[w].since = uw.watcher[w].since /\ uw.watcher[w].since \in Nat
    BY <1>6, <1>7
  <2>2. /\ W!At(w) = "lost" => uw.watcher[w].since = 0
        /\ W!At(w) \in W!Connected => uw.watcher[w].since <= uw.rev
    BY <1>8
  <2>3. uw.watcher[w].since <= uw.rev => uw.watcher[w].since <= uw'.rev
    BY <1>0, <1>4, <2>1
  <2> QED
    BY <2>1, <2>2, <2>3 DEF W!Connected
<1>10. W!Served' = W!Served
  BY <1>4, <1>6, <1>7 DEF W!Served, W!At
<1>11. W!Counted'
  BY <1>4, <1>6, <1>10, SameCardinality DEF W!IInv, W!Counted
<1>12. W!Announced'
  BY <1>3, <1>4 DEF W!Announced
<1>13. W!FarewellIsDue'
  <2> SUFFICES ASSUME uw'.engine \in {"settle", "settling"}, NEW w \in uw'.waiting PROVE W!Farewell(w)'
    BY DEF W!FarewellIsDue
  <2>1. w \in Watchers /\ W!At(w) \in {"look", "asleep"}
    BY <1>3, <1>4
  <2>2. uw.watcher[w].since <= uw.rev /\ uw.watcher[w].since \in Nat
    BY <1>6, <1>8, <2>1 DEF W!Connected
  <2>3. uw.watcher[w].since < uw.rev + 1
    BY <1>0, <2>2
  <2> QED
    BY <1>4, <1>6, <1>7, <2>1, <2>3 DEF W!Farewell, W!At
<1> QED
  BY <1>5, <1>6, <1>9, <1>11, <1>12, <1>13 DEF W!IInv, W!FarewellReachesWatchers

(* A step that leaves the watchers alone.                                   *)
LEMMA EngineSteps ==
  ASSUME Finite, W!IInv, W!Settle \/ W!GraceEnds \/ W!Crash \/ W!Uninstall \/ UNCHANGED uw
  PROVE  W!IInv'
<1>0. W!TypeOK
  BY DEF W!IInv
<1>1. /\ uw' = [uw EXCEPT !.engine = uw'.engine, !.installed = uw'.installed]
      /\ uw'.engine \in {"serving", "settle", "settling", "over", "late", "crashed"}
      /\ uw'.installed \in BOOLEAN
  <2>1. CASE W!Settle
    BY <1>0, <2>1 DEF W!Settle, W!TypeOK
  <2>2. CASE W!GraceEnds
    BY <1>0, <2>2 DEF W!GraceEnds, W!TypeOK
  <2>3. CASE W!Crash
    BY <1>0, <2>3 DEF W!Crash, W!TypeOK
  <2>4. CASE W!Uninstall
    BY <1>0, <2>4 DEF W!Uninstall, W!TypeOK
  <2>5. CASE UNCHANGED uw
    BY <1>0, <2>5 DEF W!TypeOK
  <2> QED
    BY <2>1, <2>2, <2>3, <2>4, <2>5
<1>2. W!TypeOK'
  BY <1>0, <1>1 DEF W!TypeOK
<1>3. /\ uw'.rev = uw.rev /\ uw'.watcher = uw.watcher /\ uw'.stopping = uw.stopping
      /\ uw'.waiting = uw.waiting /\ uw'.delivering = uw.delivering
  BY <1>0, <1>1 DEF W!TypeOK
<1>4. \/ uw'.engine = uw.engine
      \/ uw.engine = "settle" /\ uw'.engine = (IF uw.delivering = 0 THEN "over" ELSE "settling")
      \/ uw.engine = "settling" /\ uw'.engine = "late"
      \/ uw.engine = "serving" /\ uw'.engine = "crashed"
  BY <1>0 DEF W!Settle, W!GraceEnds, W!Crash, W!Uninstall, W!TypeOK
<1>5. W!Served' = W!Served /\ (W!Running' => W!Running)
  BY <1>3, <1>4 DEF W!Served, W!At, W!Running
<1>6. W!SeenIsPast'
  BY <1>3, <1>5 DEF W!IInv, W!SeenIsPast, W!At
<1>7. W!Counted'
  BY <1>3, <1>5, SameCardinality DEF W!IInv, W!Counted
<1>8. W!Announced'
  BY <1>3, <1>4 DEF W!IInv, W!Announced
<1>9. W!FarewellIsDue'
  <2>1. uw'.engine \in {"settle", "settling"} => uw.engine \in {"settle", "settling"}
    BY <1>4
  <2> QED
    BY <1>3, <2>1 DEF W!IInv, W!FarewellIsDue, W!Farewell, W!At
<1>10. W!FarewellReachesWatchers'
  <2> SUFFICES ASSUME uw'.engine = "over", NEW w \in uw'.waiting PROVE uw'.watcher[w].at = "ended"
    BY DEF W!FarewellReachesWatchers, W!At
  <2>1. w \in uw.waiting /\ w \in Watchers
    BY <1>0, <1>3 DEF W!TypeOK
  <2>2. CASE uw.engine = "over"
    BY <1>3, <2>1, <2>2 DEF W!IInv, W!FarewellReachesWatchers, W!At
  <2>3. CASE uw.engine = "settle" /\ uw.delivering = 0
    <3>1. W!Served = {}
      BY <1>0, <2>3, ServedCounts, SameCardinality DEF W!IInv, W!Counted, W!Running
    <3>2. W!Farewell(w)
      BY <2>1, <2>3 DEF W!IInv, W!FarewellIsDue
    <3> QED
      BY <1>3, <2>1, <3>1, <3>2 DEF W!Served, W!Farewell, W!At
  <2> QED
    BY <1>4, <2>2, <2>3
<1> QED
  BY <1>2, <1>6, <1>7, <1>8, <1>9, <1>10 DEF W!IInv

(* A new engine knows no watcher.                                           *)
LEMMA RelaunchStep ==
  ASSUME Finite, W!IInv, NEW w \in Watchers, W!Relaunch(w)
  PROVE  W!IInv'
<1> DEFINE them == [v \in Watchers |-> IF v = w THEN [uw.watcher[v] EXCEPT !.launched = TRUE]
                                       ELSE IF W!Severed(v) THEN W!Unplugged(v) ELSE uw.watcher[v]]
<1>0. W!TypeOK
  BY DEF W!IInv
<1>1. uw' = [uw EXCEPT !.engine = "serving", !.rev = 1, !.stopping = FALSE, !.delivering = 0,
                      !.starts = uw.starts + 1, !.watcher = them, !.waiting = {}]
  BY <1>0 DEF W!Relaunch, W!TypeOK
<1>2. ASSUME NEW v \in Watchers
      PROVE  them[v] \in Watching /\ them[v].at \in {"lost", "ended"} /\ (them[v].at = "lost" => them[v].since = 0)
  <2>1. uw.watcher[v] \in Watching /\ (uw.watcher[v].at = "lost" => uw.watcher[v].since = 0)
    BY <1>0 DEF W!IInv, W!SeenIsPast, W!At, W!TypeOK, Watching
  <2>2. CASE v = w
    BY <2>1, <2>2 DEF W!Relaunch, W!At, Watching
  <2>3. CASE v # w /\ W!Severed(v)
    BY <2>1, <2>3 DEF W!Unplugged, W!AfterCall, W!Severed, W!At, Watching, W!Connected
  <2>4. CASE v # w /\ ~W!Severed(v)
    BY <2>1, <2>4 DEF W!Severed, W!At, Watching
  <2> QED
    BY <2>2, <2>3, <2>4
<1>3. them \in [Watchers -> Watching]
  BY <1>2
<1>4. \A v \in Watchers : them[v].at \in {"lost", "ended"} /\ (them[v].at = "lost" => them[v].since = 0)
  BY <1>2
<1> HIDE DEF them
<1>5. /\ uw'.engine = "serving" /\ uw'.delivering = 0 /\ uw'.stopping = FALSE /\ uw'.watcher = them
      /\ uw'.waiting = {}
  BY <1>0, <1>1 DEF W!TypeOK
<1>6. W!TypeOK'
  <2>1. uw.starts + 1 \in Nat /\ {} \in SUBSET Watchers
    BY <1>0 DEF W!TypeOK
  <2> QED
    BY <1>0, <1>1, <1>3, <2>1 DEF W!TypeOK, Watching
<1>7. W!Served' = {}
  BY <1>4, <1>5 DEF W!Served, W!At
<1>8. Cardinality(W!Served') = 0
  BY <1>7, FS_EmptySet
<1>9. W!Counted'
  BY <1>5, <1>8, SameCardinality DEF W!Counted
<1>10. W!SeenIsPast'
  BY <1>4, <1>5 DEF W!SeenIsPast, W!At, W!Connected
<1>11. W!Announced'
  BY <1>5 DEF W!Announced
<1> QED
  BY <1>5, <1>6, <1>9, <1>10, <1>11 DEF W!IInv, W!FarewellReachesWatchers, W!FarewellIsDue

LEMMA WatchNext == Finite /\ W!IInv /\ [W!Next]_uw => W!IInv'
<1> SUFFICES ASSUME Finite, W!IInv, [W!Next]_uw PROVE W!IInv'
  OBVIOUS
<1>1. CASE UNCHANGED uw \/ W!Settle \/ W!GraceEnds \/ W!Crash \/ W!Uninstall
  BY <1>1, EngineSteps
<1>2. CASE W!Publish \/ W!Stop
  BY <1>2, WakeSteps
<1>3. ASSUME NEW w \in Watchers, W!Relaunch(w) PROVE W!IInv'
  BY <1>3, RelaunchStep
<1>4. ASSUME NEW w \in Watchers,
             W!Ask(w) \/ W!CallStep(w) \/ W!Heartbeat(w) \/ W!Lose(w) \/ W!Connect(w) \/ W!GiveUp(w)
               \/ W!GapEnds(w)
      PROVE  W!IInv'
  BY <1>4, WatchSteps
<1> QED
  BY <1>1, <1>2, <1>3, <1>4 DEF W!Next, W!WatchStep

(* An engine that ends in good order has told every watcher that was        *)
(* waiting when the stop was announced and whose pipe did not break, for    *)
(* every finite set of renderers: UiBoard::wait_past, stop and settle.      *)
THEOREM WatchersAreTold == W!Spec => []FarewellReachesWatchers
<1> Finite
  BY WatchersAssumption DEF Finite
<1>1. W!Init => W!IInv
  BY WatchInit
<1>2. W!IInv /\ [W!Next]_uw => W!IInv'
  BY WatchNext
<1>3. W!IInv => FarewellReachesWatchers
  BY DEF W!IInv, FarewellReachesWatchers
<1> QED
  BY <1>1, <1>2, <1>3, PTL DEF W!Spec
=============================================================================

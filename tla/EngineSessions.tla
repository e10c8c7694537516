--------------------------- MODULE EngineSessions ---------------------------
(* What the engine's pipe workers share (crates/sakura-engine): the fence   *)
(* around the keys they apply, and the pool of their pipe instances.        *)
EXTENDS SpaceFence

CONSTANTS
  Endpoints, Data, DataRoom, OtherRoom,
  Workers, Clients, Quota, MaxEmpty, MaxFaults  \* see EnginePool

VARIABLE pool

Pool == INSTANCE EnginePool

ASSUME RoomAssumption == DataRoom \in Nat \ {0} /\ OtherRoom \in Nat \ {0}

ASSUME EndpointAssumption == "none" \notin Endpoints /\ IsFiniteSet(Workers)

ASSUME FaultAssumption == MaxEmpty \in Nat /\ MaxFaults \in Nat

(* There is a name left as long as an endpoint has room.                    *)
ASSUME NameAssumption ==
  \A of \in [Workers -> Endpoints \cup {"none"}] :
    /\ \A e \in Endpoints : Cardinality({w \in Workers : of[w] = e}) <= Pool!Room(e)
    /\ \E e \in Endpoints : Cardinality({w \in Workers : of[w] = e}) < Pool!Room(e)
    => \E w \in Workers : of[w] = "none"

(* An endpoint with room for one more to accept has somebody to accept it   *)
(* (SpareOffered of EnginePool).                                            *)
SpareOffered == Pool!SpareOffered
=============================================================================

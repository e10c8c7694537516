-------------------------- MODULE MCEngineServices --------------------------
(* A small instance of the engine's services and of a composition fence     *)
(* with one host.  A behaviour runs one of them: `scenario' says which, the *)
(* others rest in their initial state.                                      *)
EXTENDS EngineServices

CONSTANTS c1, c2, NoHost

VARIABLES scenario,
          fence, conn, host, nextConn, gone, late, nextId, live, sess, claimed,
          busy, inserted, owed

claims == <<fence, conn, host, nextConn, gone, late, nextId, live, sess, claimed,
            busy, inserted, owed>>
services == <<scenario, pm, hr, uw, claims>>

F == INSTANCE SpaceFence WITH
       Hosts <- {c1}, Owners <- {c2}, Capacity <- 1,
       MaxConn <- 2, MaxSession <- 2, MaxLive <- 2

ServicesInit ==
  /\ scenario \in {"predict", "history", "watch", "claims"}
  /\ P!Init /\ Init /\ W!Init /\ F!Init
  /\ scenario # "history" => ~hr.wish

ServicesNext ==
  \/ scenario = "predict" /\ P!Next /\ UNCHANGED <<scenario, hr, uw, claims>>
  \/ scenario = "history" /\ Next   /\ UNCHANGED <<scenario, pm, uw, claims>>
  \/ scenario = "watch"   /\ W!Next /\ UNCHANGED <<scenario, pm, hr, claims>>
  \/ scenario = "claims"  /\ F!Next /\ UNCHANGED <<scenario, pm, hr, uw>>

(* Each component under its own Fairness; written out with the scenario, so *)
(* that a component at rest asks for nothing.                               *)
ServicesSpec ==
  /\ ServicesInit /\ [][ServicesNext]_services
  /\ SF_pm(scenario = "predict" /\ P!Worker)
  /\ WF_pm(scenario = "predict" /\ P!Notify) /\ WF_pm(scenario = "predict" /\ P!Join)
  /\ \A c \in Callers : SF_pm(scenario = "predict" /\ P!CallerStep(c))
  /\ WF_hr(scenario = "history" /\ Worker)
  /\ \A h \in Holders : WF_hr(scenario = "history" /\ hr.request[h].at # "rest" /\ RequestStep(h))
  /\ WF_uw(scenario = "watch" /\ W!Settle)
  /\ \A c \in Watchers : WF_uw(scenario = "watch" /\ W!CallStep(c)) /\ WF_uw(scenario = "watch" /\ W!WatchStep(c))
  /\ WF_claims(scenario = "claims" /\ F!Works(c2))

DeadClaimsEnd  == F!DeadClaimsEnd

(* Whatever is stopped ends, and what should run again is started again.    *)
StopsEnd ==
  /\ P!StopEnds
  /\ scenario = "history" => LifeCycleSettles
  /\ W!StopsAndStarts
=============================================================================

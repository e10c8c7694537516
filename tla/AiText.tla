------------------------------- MODULE AiText -------------------------------
(* The one optional AI job of the engine                                    *)
(* (crates/sakura-engine/src/ai_text.rs with start_ai_text, poll_ai_text,   *)
(* cancel_ai_text, delete_session and reset of dispatch.rs): a job has an   *)
(* owner, which is one connection, and a session of it; a thread runs it    *)
(* with a helper process.                                                   *)
EXTENDS Naturals, Sequences, FiniteSets, SequencesExt

CONSTANTS
  Clients,   \* pipe workers, each with the sessions of its client
  Texts,     \* what is asked: operation, hash and length of the text
  MaxCooldowns, \* MAX_COOLDOWNS
  MaxId      \* bound: jobs, owners and sessions

VARIABLE ai

MaxJobs == 1

Init == ai =
  [jobs    |-> {},       \* State::jobs
   cooling |-> <<>>,     \* State::cooldowns, oldest first
   ids     |-> 0, owners |-> Cardinality(Clients),
   owner   |-> CHOOSE f \in [Clients -> 1..Cardinality(Clients)] :
                 \A c, d \in Clients : f[c] = f[d] => c = d,
   session |-> [c \in Clients |-> 1],
   asked   |-> [c \in Clients |-> 0],  \* the job the client believes it has
   thread  |-> <<>>,     \* per job: "start", "helper", "ends", "over"
   told    |-> [c \in Clients |-> 0]]  \* ghost: the job whose result was given last

JobOf(c, id) == {j \in ai.jobs : j.id = id /\ j.owner = ai.owner[c] /\ j.session = ai.session[c]}

-----------------------------------------------------------------------------
(* start(): not while the same request cools down, not twice in a session,  *)
(* not beside another job, one that was cancelled included.                 *)
StartJob(c) == \E text \in Texts :
  /\ ai.asked[c] = 0 /\ ai.ids < MaxId
  /\ ~Contains(ai.cooling, text)
  /\ ~\E j \in ai.jobs : j.owner = ai.owner[c] /\ j.session = ai.session[c]
  /\ Cardinality(ai.jobs) < MaxJobs
  /\ ai' = [ai EXCEPT !.ids = @ + 1, !.asked[c] = ai.ids + 1,
       !.jobs = @ \union {[id |-> ai.ids + 1, owner |-> ai.owner[c], session |-> ai.session[c],
                           text |-> text, cancel |-> FALSE, detached |-> FALSE, complete |-> FALSE]},
       !.thread = Append(@, "start")]

(* The thread cannot be created.                                            *)
SpawnFails(c) ==
  /\ ai.asked[c] = ai.ids /\ ai.ids > 0 /\ ai.thread[ai.ids] = "start"
  /\ JobOf(c, ai.ids) # {}
  /\ ai' = [ai EXCEPT !.jobs = @ \ JobOf(c, ai.ids), !.asked[c] = 0, !.thread[ai.ids] = "over"]

(* poll(): a result is given once, and then the slot is free.               *)
PollJob(c) ==
  /\ ai.asked[c] # 0
  /\ LET mine == {j \in JobOf(c, ai.asked[c]) : ~j.detached} IN
     /\ \A j \in mine : j.complete
     /\ ai' = [ai EXCEPT !.jobs = @ \ mine, !.asked[c] = 0,
                         !.told[c] = IF mine = {} THEN @ ELSE ai.asked[c]]

Detach(j) == [j EXCEPT !.cancel = TRUE, !.detached = TRUE]

(* Mutant: a cancelled job gives its slot up at once. *)
DetachAllMut(jobs) == ai.jobs \ jobs

(* The jobs are told to stop; a complete one leaves, a running one keeps    *)
(* its slot until its thread is done.                                       *)
DetachAll(jobs) == (ai.jobs \ jobs) \union {Detach(j) : j \in {k \in jobs : ~k.complete}}

Cancel(c) ==
  /\ ai.asked[c] # 0
  /\ ai' = [ai EXCEPT !.jobs = DetachAll({j \in JobOf(c, ai.asked[c]) : ~j.detached}),
                      !.asked[c] = 0]

(* delete_session, and the next session of the client.                      *)
DeleteSession(c) ==
  /\ ai.session[c] < MaxId
  /\ ai' = [ai EXCEPT !.session[c] = @ + 1, !.asked[c] = 0,
       !.jobs = DetachAll({j \in ai.jobs : j.owner = ai.owner[c] /\ j.session = ai.session[c]})]

(* reset(): the connection has ended, the next one is a new owner.          *)
Reset(c) ==
  /\ ai.owners < Cardinality(Clients) + MaxId
  /\ ai' = [ai EXCEPT !.owners = @ + 1, !.owner[c] = ai.owners + 1, !.asked[c] = 0,
                      !.jobs = DetachAll({j \in ai.jobs : j.owner = ai.owner[c]})]

CoolsDown == ai.cooling # <<>> /\ ai' = [ai EXCEPT !.cooling = Tail(@)]

-----------------------------------------------------------------------------
(* The thread of a job.                                                     *)

(* The helper starts, or there will be none; the credential may be missing. *)
StartHelper(id) ==
  /\ ai.thread[id] = "start"
  /\ \E at \in {"helper", "ends"} : ai' = [ai EXCEPT !.thread[id] = at]

(* It answers, fails, runs out of time, or sees the cancellation; in each   *)
(* case it has ended and its output is drained.                             *)
HelperEnds(id) == ai.thread[id] = "helper" /\ ai' = [ai EXCEPT !.thread[id] = "ends"]

Cooled(text) ==
  Append(IF Len(ai.cooling) >= MaxCooldowns THEN Tail(ai.cooling) ELSE ai.cooling, text)

(* Mutant: a detached job is completed like any other. *)
FinishMut(id) ==
  /\ ai.thread[id] = "ends"
  /\ LET own == {j \in ai.jobs : j.id = id} IN
     ai' = [ai EXCEPT !.thread[id] = "over",
       !.cooling = IF own = {} THEN @ ELSE Cooled((CHOOSE j \in own : TRUE).text),
       !.jobs = (@ \ own) \union {[j EXCEPT !.complete = TRUE] : j \in own}]

(* Under the lock: the request cools down; nobody's result is thrown away.  *)
Finish(id) ==
  /\ ai.thread[id] = "ends"
  /\ LET own == {j \in ai.jobs : j.id = id} IN
     ai' = [ai EXCEPT !.thread[id] = "over",
       !.cooling = IF own = {} THEN @ ELSE Cooled((CHOOSE j \in own : TRUE).text),
       !.jobs = (@ \ own) \union {[j EXCEPT !.complete = TRUE] : j \in {k \in own : ~k.detached}}]

ThreadStep(id) == StartHelper(id) \/ HelperEnds(id) \/ Finish(id)

Next ==
  \/ \E c \in Clients : StartJob(c) \/ SpawnFails(c) \/ PollJob(c) \/ Cancel(c)
                        \/ DeleteSession(c) \/ Reset(c)
  \/ \E id \in 1..Len(ai.thread) : ThreadStep(id)
  \/ CoolsDown

Spec == Init /\ [][Next]_ai

-----------------------------------------------------------------------------
(* However jobs are cancelled, sessions deleted and connections replaced,   *)
(* there is never a second helper process: a cancelled job keeps its slot   *)
(* while its helper may still run.  And the slot comes back: a job nobody   *)
(* will collect is only kept while its thread has yet to end it, and a      *)
(* result only while its owner can still ask for it.                        *)
SlotFollowsHelper ==
  /\ Cardinality({id \in 1..Len(ai.thread) : ai.thread[id] \in {"start", "helper"}}) <= MaxJobs
  /\ \A j \in ai.jobs :
       IF j.detached THEN ai.thread[j.id] # "over"
       ELSE \E c \in Clients : ai.asked[c] = j.id /\ j \in JobOf(c, j.id)

-----------------------------------------------------------------------------
(* Why.  A thread that is not over is of the one job that has the slot.     *)
Jobs == [id : Nat \ {0}, owner : Nat, session : Nat, text : Texts,
         cancel : BOOLEAN, detached : BOOLEAN, complete : BOOLEAN]

TypeOK ==
  ai \in [jobs : SUBSET Jobs, cooling : Seq(Texts), ids : Nat, owners : Nat,
         owner : [Clients -> Nat], session : [Clients -> Nat], asked : [Clients -> Nat],
         thread : Seq({"start", "helper", "ends", "over"}), told : [Clients -> Nat]]

OneJob == \A j, k \in ai.jobs : j = k

ThreadsOwned ==
  /\ Len(ai.thread) = ai.ids
  /\ \A id \in 1..ai.ids : ai.thread[id] # "over" => \E j \in ai.jobs : j.id = id

JobsOwned ==
  \A j \in ai.jobs :
    /\ j.id <= ai.ids /\ (j.complete <=> ai.thread[j.id] = "over") /\ ~(j.complete /\ j.detached)
    /\ ~j.detached => \E c \in Clients : ai.asked[c] = j.id /\ j \in JobOf(c, j.id)

IInv == TypeOK /\ OneJob /\ ThreadsOwned /\ JobsOwned
=============================================================================

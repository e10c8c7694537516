------------------------------ MODULE EngineLink ------------------------------
(* The text service's end of its conversation with the engine               *)
(* (crates/sakura-tsf/src/engine.rs, key_wait.rs and callback_deadline.rs,  *)
(* over the client of crates/sakura-ipc/src/client.rs), and as much of the  *)
(* engine as decides what it answers: one session per connection, with a    *)
(* reading that letters extend.                                             *)
(*                                                                          *)
(* The client is one thread that blocks while it waits; only the engine and *)
(* the clock move meanwhile.  Time is counted in units of the design budget *)
(* of 50 ms.  What the document shows follows an answer at once: the write  *)
(* queue between the two is QueuedWrite.  Not here: the mode menu, AI       *)
(* results, the pending undo (Busy), and requests that cannot be encoded.   *)
EXTENDS Naturals, SequencesExt

CONSTANTS
  Patient,   \* PATIENT_BUDGET, in units of DESIGN_BUDGET
  MaxKeys,   \* bound: real keys typed
  MaxId,     \* bound: requests on one connection
  Orphans    \* whether a call from which nobody recovers may lose a session
             \* whose reading is on screen

Design == 1                 \* DESIGN_BUDGET, RECONNECT_BUDGET
MissesBeforeFallback == 2

VARIABLES
  link,      \* Engine::link, or NoLink
  blocked,   \* blocked_until lies ahead
  misses,    \* CONSECUTIVE_MISSES
  left,      \* what is left of the callback's allowance
  call,      \* what the client is doing
  pipe,      \* the connection: what each end has yet to read
  reading,   \* the engine's reading in the session of that connection
  up,        \* whether an engine accepts connections
  doc,       \* keys whose text the document has committed
  shown,     \* keys whose text it shows as composition
  typed,     \* real keys typed so far
  silences   \* ghost: long waits without a reply since the last reply

vars == <<link, blocked, misses, left, call, pipe, reading, up, doc, shown, typed, silences>>

Readings == SeqOf(1..MaxKeys, MaxKeys)
Goals    == {"scope", "key", "probe", "commit", "start", "place"}
Keys     == [ends : BOOLEAN, n : 0..MaxKeys]
NoKey    == [ends |-> FALSE, n |-> 0]
Links    == [on : BOOLEAN, desync : BOOLEAN, scoped : BOOLEAN, next : 1..(MaxId + 1)]
NoLink   == [on |-> FALSE, desync |-> FALSE, scoped |-> FALSE, next |-> 1]

(* A call: the request wanted (`goal'), whether the one in progress is the  *)
(* resync before it, and the id waited for.                                 *)
Calls == [at : {"rest", "link", "send", "wait"}, goal : Goals, key : Keys,
          resync : BOOLEAN, id : 0..MaxId]
Rest  == [at |-> "rest", goal |-> "place", key |-> NoKey, resync |-> FALSE, id |-> 0]

Requests == [id : 1..MaxId, ask : Goals \union {"revert"}, key : Keys]
Replies  == [id : 1..MaxId, from : Readings, now : Readings]
NoPipe   == [alive |-> FALSE, in |-> << >>, out |-> << >>]

TypeOK ==
  /\ link \in Links /\ blocked \in BOOLEAN /\ up \in BOOLEAN
  /\ misses \in 0..MissesBeforeFallback /\ left \in 0..Patient
  /\ call \in Calls
  /\ pipe.alive \in BOOLEAN
  /\ pipe.in \in Seq(Requests) /\ pipe.out \in Seq(Replies)
  /\ {reading, doc, shown} \subseteq Readings
  /\ typed \in 0..MaxKeys /\ silences \in Nat

Init ==
  /\ link = NoLink /\ blocked = FALSE /\ misses = 0 /\ left = 0
  /\ call = Rest /\ pipe = NoPipe /\ reading = << >> /\ up \in BOOLEAN
  /\ doc = << >> /\ shown = << >> /\ typed = 0 /\ silences = 0

-----------------------------------------------------------------------------
(* Entering.  A key callback owns one allowance for all its requests.       *)

(* Mutant: every callback waits long. *)
BudgetMut == Patient

Budget == IF misses >= MissesBeforeFallback THEN Design ELSE Patient

(* Calls whose failure the text service does not answer by recovery.        *)
Forgiven(goal) == goal \in {"probe", "start", "place"}

Enter(goal, key, budget) ==
  /\ call = Rest
  /\ link.next + 2 <= MaxId
  /\ Forgiven(goal) => (Orphans \/ shown = << >> \/ (link.on /\ pipe.alive /\ goal # "start"))
  /\ left' = budget
  /\ call' = [Rest EXCEPT !.at = IF goal = "place" THEN "send" ELSE "link",
                          !.goal = goal, !.key = key]

Unmoved == UNCHANGED <<link, blocked, misses, pipe, reading, up, doc, shown, silences>>

(* OnKeyDown: publish the scope, then ask.                                  *)
KeyDown(ends) ==
  /\ typed < MaxKeys /\ typed' = typed + 1
  /\ Enter("scope", [ends |-> ends, n |-> typed + 1], Budget) /\ Unmoved

(* OnTestKeyDown, and an AI request by its trigger key.                     *)
TestKeyDown == Enter("probe", NoKey, Budget) /\ Unmoved /\ UNCHANGED typed
StartAiText == Enter("start", NoKey, Budget) /\ Unmoved /\ UNCHANGED typed

(* A focus loss finalizes outside any key callback.                         *)
FocusLoss == Enter("commit", NoKey, Design) /\ Unmoved /\ UNCHANGED typed

(* Placement and candidate polls use the link there is, and never make one. *)
Place == link.on /\ Enter("place", NoKey, Design) /\ Unmoved /\ UNCHANGED typed

(* Another input field, once nothing is composed.                           *)
FieldChanged ==
  /\ call = Rest /\ shown = << >> /\ link' = [link EXCEPT !.scoped = FALSE]
  /\ UNCHANGED <<blocked, misses, left, call, pipe, reading, up, doc, shown, typed, silences>>

-----------------------------------------------------------------------------
(* Endings.                                                                 *)

Drop == link' = NoLink /\ pipe' = NoPipe /\ reading' = << >>
Keep == UNCHANGED <<link, pipe, reading>>

(* What the document shows becomes ordinary text.                           *)
Finalize == doc' = doc \o shown /\ shown' = << >>
Untouched == UNCHANGED <<doc, shown>>

(* recover_from_engine_unavailable: the text on screen is committed, and    *)
(* Engine::new takes the retry clock with the link.                         *)
Recover == Drop /\ blocked' = FALSE /\ Finalize

(* drop_link, and what the caller makes of it.                              *)
Unavailable(goal) ==
  CASE goal = "key"    -> Recover
    [] goal = "commit" -> Drop /\ blocked' = TRUE /\ Finalize
    [] OTHER           -> Drop /\ blocked' = TRUE /\ Untouched

(* No usable link: link() returned None.  A key that ran out of allowance   *)
(* on a healthy link is only refused (unissued_answer).                     *)
NoneFor(goal) ==
  CASE goal = "key" /\ ~(link.on /\ ~link.desync) -> Recover
    [] goal = "commit" -> Keep /\ UNCHANGED blocked /\ Finalize
    [] OTHER           -> Keep /\ UNCHANGED blocked /\ Untouched

-----------------------------------------------------------------------------
(* Engine::link                                                             *)

At(where) == call.at = where
Send == [call EXCEPT !.at = "send"]

LinkExpired ==
  /\ At("link") /\ left = 0
  /\ NoneFor(call.goal) /\ call' = Rest
  /\ UNCHANGED <<misses, left, up, typed, silences>>

LinkUsable ==
  /\ At("link") /\ left > 0 /\ link.on
  /\ call' = [Send EXCEPT !.resync = link.desync]
  /\ Unmoved /\ UNCHANGED <<left, typed>>

LinkBlocked ==
  /\ At("link") /\ left > 0 /\ ~link.on /\ blocked
  /\ NoneFor(call.goal) /\ call' = Rest
  /\ UNCHANGED <<misses, left, up, typed, silences>>

(* connect: pipe, Hello and CreateSession under one reconnect budget.       *)
Connects(spent) ==
  /\ At("link") /\ left > 0 /\ ~link.on /\ ~blocked /\ up
  /\ link' = [NoLink EXCEPT !.on = TRUE]
  /\ pipe' = [NoPipe EXCEPT !.alive = TRUE] /\ reading' = << >>
  /\ call' = Send /\ left' = left - spent
  /\ UNCHANGED <<blocked, misses, up, doc, shown, typed, silences>>

ConnectFails(spent) ==
  /\ At("link") /\ left > 0 /\ ~link.on /\ ~blocked
  /\ Unavailable(call.goal) /\ left' = left - spent /\ call' = Rest
  /\ UNCHANGED <<misses, up, typed, silences>>

-----------------------------------------------------------------------------
(* Client::call_until                                                       *)

(* A scope already published is not sent again.                             *)
ScopeKnown ==
  /\ At("send") /\ ~call.resync /\ call.goal = "scope" /\ link.scoped
  /\ call' = [call EXCEPT !.at = "link", !.goal = "key"]
  /\ Unmoved /\ UNCHANGED <<left, typed>>

ToSend == At("send") /\ ~(~call.resync /\ call.goal = "scope" /\ link.scoped)

(* DeadlineExpired: nothing was sent.                                       *)
NotSent ==
  /\ ToSend /\ left = 0 /\ call' = Rest
  /\ IF call.resync THEN Unavailable(call.goal) ELSE NoneFor(call.goal)
  /\ UNCHANGED <<misses, left, up, typed, silences>>

Sent ==
  /\ ToSend /\ left > 0
  /\ call' = [call EXCEPT !.at = "wait", !.id = link.next]
  /\ link' = [link EXCEPT !.next = @ + 1]
  /\ pipe' = IF pipe.alive
             THEN [pipe EXCEPT !.in = Append(@,
                    [id |-> link.next, key |-> call.key,
                     ask |-> IF call.resync THEN "revert" ELSE call.goal])]
             ELSE pipe
  /\ UNCHANGED <<blocked, misses, left, reading, up, doc, shown, typed, silences>>

(* Mutant: any frame is taken for the answer.                               *)
AnswersCallMut(id) == TRUE

(* Every reply carries the id of its request; ids only grow.                *)
AnswersCall(id) == id = call.id

(* A late reply to a request that was given up is read and dropped.         *)
Discard ==
  /\ At("wait") /\ pipe.out # << >> /\ ~AnswersCall(Head(pipe.out).id)
  /\ pipe' = [pipe EXCEPT !.out = Tail(@)]
  /\ UNCHANGED <<link, blocked, misses, left, call, reading, up, doc, shown, typed, silences>>

(* What an answer changes on the client's side.                             *)
Takes(r) ==
  CASE call.resync ->
         /\ link' = [link EXCEPT !.desync = FALSE]
         /\ call' = [Send EXCEPT !.resync = FALSE] /\ Untouched
    [] ~call.resync /\ call.goal = "scope" ->
         /\ link' = [link EXCEPT !.scoped = TRUE]
         /\ call' = [call EXCEPT !.at = "link", !.goal = "key"] /\ Untouched
    [] ~call.resync /\ call.goal = "key" ->
         /\ IF call.key.ends THEN doc' = doc \o r.from /\ shown' = r.now
                             ELSE doc' = doc /\ shown' = r.now
         /\ call' = Rest /\ UNCHANGED link
    [] ~call.resync /\ call.goal = "commit" -> Finalize /\ call' = Rest /\ UNCHANGED link
    [] OTHER -> call' = Rest /\ UNCHANGED link /\ Untouched

(* Placement has its own small cap and does not count for the key wait.     *)
Counts == call.resync \/ call.goal # "place"

Answered(spent) ==
  /\ At("wait") /\ pipe.out # << >> /\ AnswersCall(Head(pipe.out).id)
  /\ Takes(Head(pipe.out))
  /\ pipe' = [pipe EXCEPT !.out = Tail(@)]
  /\ left' = left - spent
  /\ misses' = IF Counts THEN 0 ELSE misses
  /\ silences' = IF Counts THEN 0 ELSE silences
  /\ UNCHANGED <<blocked, reading, up, typed>>

(* Mutant: an uncertain request leaves the link as it was.                  *)
UncertainMut(goal) == FALSE

(* Mutant: the count is not capped. *)
MissedMut == misses + 1

(* record_miss *)
Missed == IF misses < MissesBeforeFallback THEN misses + 1 ELSE misses

(* A timed-out request that may have moved the session.                     *)
Uncertain(goal) == goal \in {"scope", "commit", "start"}

(* Fault::Timeout: no byte of the reply came before the deadline.  A key is *)
(* recovered from; other requests mark the link or leave it alone; a resync *)
(* that is not answered ends the link.                                      *)
TimedOut ==
  /\ At("wait")
  /\ CASE call.resync -> Unavailable(call.goal)
       [] ~call.resync /\ call.goal = "key" -> Recover
       [] OTHER ->
            /\ link' = [link EXCEPT !.desync = @ \/ Uncertain(call.goal)]
            /\ IF call.goal = "commit" THEN Finalize ELSE Untouched
            /\ UNCHANGED <<blocked, pipe, reading>>
  /\ call' = Rest /\ left' = 0
  /\ misses' = IF Counts THEN Missed ELSE misses
  /\ silences' = IF Counts /\ left > Design THEN silences + 1 ELSE silences
  /\ UNCHANGED <<up, typed>>

(* The pipe broke, or the deadline fell inside a frame.                     *)
Breaks ==
  /\ At("wait") /\ (~pipe.alive \/ pipe.out # << >>)
  /\ Forgiven(call.goal) => (Orphans \/ shown = << >>)
  /\ Unavailable(call.goal) /\ call' = Rest
  /\ UNCHANGED <<misses, left, up, typed, silences>>

-----------------------------------------------------------------------------
(* The engine and the clock.                                                *)

After(r) ==
  CASE r.ask \in {"revert", "commit"} -> << >>
    [] r.ask = "key" -> IF r.key.ends THEN << >> ELSE Append(reading, r.key.n)
    [] OTHER -> reading

(* The worker of the connection applies the next request and answers it.    *)
Serve ==
  /\ pipe.alive /\ pipe.in # << >>
  /\ LET r == Head(pipe.in)
     IN  /\ reading' = After(r)
         /\ pipe' = [pipe EXCEPT !.in = Tail(@),
                      !.out = Append(@, [id |-> r.id, from |-> reading, now |-> After(r)])]
  /\ UNCHANGED <<link, blocked, misses, left, call, up, doc, shown, typed, silences>>

(* The engine ends, with every session; another one may be started.         *)
Crash ==
  /\ up /\ up' = FALSE
  /\ pipe' = NoPipe /\ reading' = << >>
  /\ UNCHANGED <<link, blocked, misses, left, call, doc, shown, typed, silences>>

Restart ==
  /\ ~up /\ up' = TRUE
  /\ UNCHANGED <<link, blocked, misses, left, call, pipe, reading, doc, shown, typed, silences>>

RetryIntervalPasses ==
  /\ call = Rest /\ blocked /\ blocked' = FALSE
  /\ UNCHANGED <<link, misses, left, call, pipe, reading, up, doc, shown, typed, silences>>

Next ==
  \/ \E ends \in BOOLEAN : KeyDown(ends)
  \/ TestKeyDown \/ StartAiText \/ FocusLoss \/ Place \/ FieldChanged
  \/ LinkExpired \/ LinkUsable \/ LinkBlocked
  \/ \E spent \in 0..Design : Connects(spent) \/ ConnectFails(spent)
  \/ ScopeKnown \/ NotSent \/ Sent \/ Discard \/ TimedOut \/ Breaks
  \/ \E spent \in 0..left : Answered(spent)
  \/ Serve \/ Crash \/ Restart \/ RetryIntervalPasses

Spec == Init /\ [][Next]_vars

-----------------------------------------------------------------------------
(* What the user has seen: text that was committed, then text on screen.    *)
Seen == doc \o shown

(* Text that was on screen stays in the document or on screen: an answer    *)
(* only ever extends what is shown.  It would not if a late reply were      *)
(* taken for the answer of a newer request, or a key were answered from a   *)
(* session that composed something else.                                    *)
SeenStays == [][IsPrefix(Seen, Seen')]_vars

(* No key is in the document twice, whatever was timed out, resynchronized  *)
(* or finalized: keys are numbered as they are typed.                       *)
EachKeyOnce == \A i, k \in DOMAIN Seen : i < k => Seen[i] < Seen[k]

(* A link in good standing has a session that composes what is shown.  A    *)
(* request that was sent and not answered has spoilt the link or cannot     *)
(* have touched the reading.                                                *)
ComposesWhatIsShown ==
  call = Rest /\ link.on /\ ~link.desync /\ pipe.alive => reading = shown

(* An engine that stopped answering holds the host's thread for the long    *)
(* allowance at most twice before it answers anything again.                *)
AtMostTwoLongSilences == silences <= 2

-----------------------------------------------------------------------------
(* Why.  Text is on screen only under a link in good standing; ids grow     *)
(* along the pipe; what is left of abandoned requests does not touch the    *)
(* reading, or the link is spoilt and the next call clears the session.     *)
Harmless(r) == r.ask \notin {"key", "commit", "revert"}
Standing    == pipe.alive /\ ~link.desync
LastIn      == pipe.in[Len(pipe.in)]
LastOut     == pipe.out[Len(pipe.out)]

Sane ==
  /\ link \in [on : BOOLEAN, desync : BOOLEAN, scoped : BOOLEAN, next : Nat] /\ blocked \in BOOLEAN
  /\ misses \in 0..MissesBeforeFallback /\ left \in Nat /\ silences \in Nat /\ typed \in Nat
  /\ call \in [at : {"rest", "link", "send", "wait"}, goal : Goals,
               key : [ends : BOOLEAN, n : Nat], resync : BOOLEAN, id : Nat]
  /\ pipe \in [alive : BOOLEAN,
               in : Seq([id : Nat, ask : Goals \union {"revert"}, key : [ends : BOOLEAN, n : Nat]]),
               out : Seq([id : Nat, from : Seq(Nat), now : Seq(Nat)])]
  /\ reading \in Seq(Nat) /\ doc \in Seq(Nat) /\ shown \in Seq(Nat)

LinkOK ==
  /\ pipe.alive => link.on
  /\ ~pipe.alive => pipe.in = << >> /\ pipe.out = << >>
  /\ shown # << >> => link.on /\ link.scoped /\ ~link.desync

CallOK ==
  /\ At("rest") => call = Rest
  /\ At("link") => ~call.resync /\ call.goal # "place"
  /\ At("send") \/ At("wait") => link.on /\ (call.resync <=> link.desync /\ call.goal # "place")
  /\ call.goal = "start" \/ (At("wait") /\ call.goal = "scope") => shown = << >>
  /\ call.goal = "key" => link.on /\ link.scoped
  /\ (At("link") \/ At("send")) /\ call.goal = "commit" /\ left = 0 => shown = << >>

IdsOK ==
  IF At("wait")
  THEN /\ link.next = call.id + 1
       /\ \A i \in 1..Len(pipe.in)  : i < Len(pipe.in) => pipe.in[i].id < call.id
       /\ \A i \in 1..Len(pipe.out) : i < Len(pipe.out) \/ pipe.in # << >> => pipe.out[i].id < call.id
       /\ pipe.in # << >> => LastIn.id = call.id
       /\ pipe.alive /\ pipe.in = << >> => pipe.out # << >> /\ LastOut.id = call.id
  ELSE /\ \A i \in 1..Len(pipe.in)  : pipe.in[i].id < link.next
       /\ \A i \in 1..Len(pipe.out) : pipe.out[i].id < link.next

SessionOK ==
  /\ Standing /\ ~At("wait") => reading = shown /\ \A i \in 1..Len(pipe.in) : Harmless(pipe.in[i])
  /\ Standing /\ At("wait") /\ pipe.in # << >> =>
       /\ reading = shown /\ LastIn.ask = call.goal /\ LastIn.key = call.key
       /\ \A i \in 1..Len(pipe.in) : i < Len(pipe.in) => Harmless(pipe.in[i])
  /\ Standing /\ At("wait") /\ pipe.in = << >> =>
       /\ call.goal \notin {"key", "commit"} => reading = shown
       /\ call.goal = "commit" => reading = << >>
       /\ call.goal = "key" =>
            /\ LastOut.from = shown /\ LastOut.now = reading
            /\ reading = IF call.key.ends THEN << >> ELSE Append(shown, call.key.n)
  /\ pipe.alive /\ At("wait") /\ call.resync =>
       IF pipe.in # << >> THEN LastIn.ask = "revert" ELSE reading = << >>

KeysOK ==
  /\ EachKeyOnce /\ \A i \in 1..Len(Seen) : Seen[i] <= typed
  /\ ~At("rest") /\ call.goal \in {"scope", "key"} =>
       call.key.n = typed /\ \A i \in 1..Len(Seen) : Seen[i] < typed

(* Of the long waits: each is counted as a miss, which an answer clears.    *)
SilencesOK == silences <= misses /\ (~At("rest") /\ left > Design => misses < MissesBeforeFallback)

IInv == Sane /\ LinkOK /\ CallOK /\ IdsOK /\ SessionOK /\ KeysOK /\ SilencesOK
=============================================================================

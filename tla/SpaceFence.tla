------------------------------ MODULE SpaceFence ------------------------------
(* What becomes of the keys an engine's pipe workers apply, as far as the   *)
(* composition fence decides it: the dispatchers of one process             *)
(* (crates/sakura-engine/src/dispatch.rs and the worker loop of server.rs)  *)
(* around one shared CompositionFence.                                      *)
(*                                                                          *)
(* Workers share nothing but the fence, and each method of it takes the     *)
(* lock for itself: a step is one method, with what its worker does on its  *)
(* own before the next.  A key asks up to three times, a reset once for     *)
(* each claim; in between, any other worker may run.                        *)
(*                                                                          *)
(* Of a session only what the fence and the idle Space can tell apart is    *)
(* kept: whether it has a reading, whether an undo of its last commit waits *)
(* for the host, and whether its keys pass through (Direct mode, a          *)
(* sensitive field).                                                        *)
EXTENDS CompositionFence, TLC

CONSTANTS
  NoHost,       \* a worker that serves nobody has no fence host
  MaxConn,      \* bound: connections accepted in a run
  MaxLive,      \* MAX_SESSIONS: sessions alive at a worker at once
  MaxSession    \* bound: sessions one worker ever creates

ASSUME BoundAssumption == MaxConn \in Nat /\ MaxSession \in Nat

NoConn == 0
Conns  == 1..MaxConn
Sessions == 1..MaxSession

VARIABLES
  fence,     \* the shared CompositionFence
  conn,      \* [Owners -> connection served, or NoConn]
  host,      \* [Owners -> fence host of that connection]
  nextConn, gone, late,   \* accepted so far; clients gone; one request still queued
  nextId,    \* [Owners -> next session id], never reset
  live,      \* [Owners -> SUBSET Sessions]: the sessions of its table
  sess,      \* [Owners -> [Sessions -> what such a session is at]]
  claimed,   \* [Owners -> SUBSET Sessions]: `fence_claims' that are claimed
  busy,      \* [Owners -> the key it is applying, and what the key asks next]
  inserted,  \* ghost: the worker whose last step made a Space text, if any
  owed       \* ghost: claims whose lost reading has not been accounted for

vars == <<fence, conn, host, nextConn, gone, late, nextId, live, sess, claimed,
          busy, inserted, owed>>

NewSession == [reading |-> FALSE, undo |-> FALSE, direct |-> FALSE, sensitive |-> FALSE]
SessionStates == [reading : BOOLEAN, undo : BOOLEAN, direct : BOOLEAN, sensitive : BOOLEAN]

Readings == [host : Hosts, owner : Owners, session : Sessions]

(* A key between two questions: an idle Space that no live claim suppressed *)
(* asks for the absorption ("absorb"), an applied key whose reading and     *)
(* claim differ tells the fence ("sync").  `since' is a ghost: what was     *)
(* owed on the host when the key came.                                      *)
Rest == [at |-> "rest", session |-> 0, since |-> {}]
Applying == [at : {"rest", "absorb", "sync"}, session : Sessions \cup {0},
             since : SUBSET Readings]

Keys == {"letter", "space", "end", "undo"}

TypeOK ==
  /\ fence \in Fences
  /\ conn \in [Owners -> Conns \cup {NoConn}]
  /\ host \in [Owners -> Hosts \cup {NoHost}]
  /\ nextConn \in 1..(MaxConn + 1)
  /\ gone \subseteq Conns /\ late \subseteq gone
  /\ nextId \in [Owners -> 1..(MaxSession + 1)]
  /\ live \in [Owners -> SUBSET Sessions]
  /\ sess \in [Owners -> [Sessions -> SessionStates]]
  /\ claimed \in [Owners -> SUBSET Sessions]
  /\ busy \in [Owners -> Applying]
  /\ inserted \in SUBSET Owners
  /\ owed \in SUBSET Readings

Init ==
  /\ fence = NewFence
  /\ conn = [w \in Owners |-> NoConn]
  /\ host = [w \in Owners |-> NoHost]
  /\ nextConn = 1 /\ gone = {} /\ late = {}
  /\ nextId = [w \in Owners |-> 1]
  /\ live = [w \in Owners |-> {}]
  /\ sess = [w \in Owners |-> [s \in Sessions |-> NewSession]]
  /\ claimed = [w \in Owners |-> {}]
  /\ busy = [w \in Owners |-> Rest]
  /\ inserted = {} /\ owed = {}

----------------------------------------------------------------------------
(* A worker reads its next request once it has answered the last.           *)
Served(w)   == /\ busy[w].at = "rest" /\ conn[w] # NoConn
               /\ conn[w] \notin gone \/ conn[w] \in late
Passes(x)   == x.sensitive \/ (x.direct /\ ~x.reading)
Idle(x)     == ~x.reading
(* What the probes a step of worker `w' may ask can prove: those of the     *)
(* claims on its host, and its own.  Each may stay inconclusive.            *)
Probed(w)   == gone \cap ({c.conn : c \in fence.owned} \cup {conn[w]})
Probes(w)   == SUBSET Probed(w)
(* `peer_is_composing': another session of the same dispatcher. *)
PeerComposes(w, s) == \E t \in live[w] \ {s} : sess[w][t].reading

(* Serving a request of a client that has left uses up its queued request. *)
Answer(w) == late' = late \ {conn[w]}

Claim(w, s) == [host |-> host[w], owner |-> w, session |-> s]

(* Live claims that count, without their connection. *)
Counting(f) == {[host |-> c.host, owner |-> c.owner, session |-> c.session] :
                  c \in {d \in f.owned : d.active}}

(* Hosts whose latch this step gave up at the bound: a method drops that of *)
(* its own host for a reason, any other only to make room.                  *)
GivenUp(w) == {h \in ToSet(fence.torn) : h # host[w] /\ h \notin ToSet(fence'.torn)}

(* The ghost: losses `c' stay owed, except those given up with a latch.     *)
StillOwed(w, cs) == owed' = {c \in cs : c.host \in GivenUp(w) => c \in Counting(fence')}

----------------------------------------------------------------------------
(* The worker accepts the next client and binds its probe. *)
Connect(w, h) ==
  /\ conn[w] = NoConn /\ nextConn <= MaxConn
  /\ conn' = [conn EXCEPT ![w] = nextConn]
  /\ host' = [host EXCEPT ![w] = h]
  /\ nextConn' = nextConn + 1
  /\ UNCHANGED <<fence, gone, late, nextId, live, sess, claimed, busy, owed>>

CreateSession(w) ==
  /\ Served(w) /\ nextId[w] <= MaxSession /\ Cardinality(live[w]) < MaxLive
  /\ live' = [live EXCEPT ![w] = @ \cup {nextId[w]}]
  /\ sess' = [sess EXCEPT ![w][nextId[w]] = NewSession]
  /\ nextId' = [nextId EXCEPT ![w] = @ + 1]
  /\ Answer(w)
  /\ UNCHANGED <<fence, conn, host, nextConn, gone, claimed, busy, owed>>

(* `delete_session', refused while an undo is with the host. *)
DeleteSession(w, s) ==
  LET lost == s \in claimed[w] /\ conn[w] \notin gone /\ sess[w][s].reading
  IN  /\ Served(w) /\ ~sess[w][s].undo
      /\ fence' = IF s \in claimed[w] THEN Release(fence, host[w], w, s, TRUE) ELSE fence
      /\ live' = [live EXCEPT ![w] = @ \ {s}]
      /\ sess' = [sess EXCEPT ![w][s] = NewSession]
      /\ claimed' = [claimed EXCEPT ![w] = @ \ {s}]
      /\ StillOwed(w, owed \cup IF lost THEN {Claim(w, s)} ELSE {})
      /\ Answer(w)
      /\ UNCHANGED <<conn, host, nextConn, gone, nextId, busy>>

----------------------------------------------------------------------------
(* Keys.                                                                    *)

(* A key no fence holds back, applied to a session that does not pass it.   *)
Applied(x, k) ==
  CASE k = "letter"          -> [x EXCEPT !.reading = TRUE]
    [] k = "end"             -> [x EXCEPT !.reading = FALSE]
    [] k = "undo" /\ Idle(x) -> [x EXCEPT !.reading = TRUE, !.undo = TRUE]
    [] OTHER                 -> x

(* Mutant: the Space asks for absorption although a live claim suppresses   *)
(* it.                                                                      *)
AsksMut(x, k, suppress) == k = "space" /\ Idle(x)

(* `teardown_absorbs_idle_space' asks the fence for an unbound idle Space   *)
(* only, and only when no live claim suppresses the key already.            *)
Asks(x, k, suppress) == ~suppress /\ k = "space" /\ Idle(x)

(* A live claim never holds back a key with Ctrl or Alt; of those, only the *)
(* undo chord begins a reading.                                             *)
Suppressible(k) == k # "undo"

(* `apply_key' for any other key: it is passed on, suppressed, or edits.    *)
Edited(x, k, suppress) ==
  IF Passes(x) \/ (suppress /\ Suppressible(k) /\ Idle(x)) THEN x ELSE Applied(x, k)

(* `send_key' up to `any_active' and, unless an idle Space has more to ask, *)
(* through the key itself.                                                  *)
SendKey(w, s, k, seen) ==
  LET x        == sess[w][s]
      asked    == Retire(fence, host[w], seen)
      suppress == Fenced(asked, host[w]) \/ PeerComposes(w, s)
      y        == Edited(x, k, suppress)
      next(at) == [at |-> at, session |-> s, since |-> {}]
  IN  /\ Served(w) /\ ~x.undo
      /\ fence' = asked
      /\ IF Asks(x, k, suppress)
         THEN /\ busy' = [busy EXCEPT ![w] =
                            [next("absorb") EXCEPT !.since = {c \in owed : c.host = host[w]}]]
              /\ UNCHANGED sess
         ELSE /\ sess' = [sess EXCEPT ![w][s] = y]
              /\ busy' = [busy EXCEPT ![w] =
                            IF y.reading = (s \in claimed[w]) THEN Rest ELSE next("sync")]
      /\ StillOwed(w, owed)
      /\ Answer(w)
      /\ UNCHANGED <<conn, host, nextConn, gone, nextId, live, claimed>>

(* `consume_teardown', then the idle Space itself: absorbed, passed through *)
(* or made text.                                                            *)
Absorb(w, seen) ==
  LET s      == busy[w].session
      again  == Retire(fence, host[w], seen)
      absorb == Owes(again, host[w])
  IN  /\ busy[w].at = "absorb"
      /\ fence' = Spend(again, host[w])
      /\ inserted' = IF absorb \/ Passes(sess[w][s]) THEN {} ELSE {w}
      /\ busy' = [busy EXCEPT ![w] =
                    IF s \in claimed[w] THEN [at |-> "sync", session |-> s, since |-> {}] ELSE Rest]
      /\ StillOwed(w, IF absorb THEN {c \in owed : c.host # host[w]} ELSE owed)
      /\ UNCHANGED <<conn, host, nextConn, gone, late, nextId, live, sess, claimed>>

(* `sync_composition_fence' after a key: the claim follows the reading.  A  *)
(* reading that begins on a connection still there answers for what was     *)
(* lost before it on the host; one that ends by its own key is not lost.    *)
Sync(w, seen) ==
  LET s == busy[w].session
      h == host[w]
  IN  /\ busy[w].at = "sync"
      /\ IF sess[w][s].reading
         THEN /\ fence' = Acquire(fence, h, w, s, conn[w], seen)
              /\ claimed' = [claimed EXCEPT ![w] = @ \cup {s}]
              /\ StillOwed(w, IF conn[w] \in seen THEN owed ELSE {c \in owed : c.host # h})
         ELSE /\ seen = {}
              /\ fence' = Release(fence, h, w, s, FALSE)
              /\ claimed' = [claimed EXCEPT ![w] = @ \ {s}]
              /\ owed' = owed \ {Claim(w, s)}
      /\ busy' = [busy EXCEPT ![w] = Rest]
      /\ UNCHANGED <<conn, host, nextConn, gone, late, nextId, live, sess>>

(* `probe_session': a test key asks `any_active' and changes nothing else.  *)
ProbeKey(w, s, seen) ==
  /\ Served(w) /\ ~sess[w][s].undo
  /\ fence' = Retire(fence, host[w], seen)
  /\ StillOwed(w, owed)
  /\ Answer(w)
  /\ UNCHANGED <<conn, host, nextConn, gone, nextId, live, sess, claimed, busy>>

----------------------------------------------------------------------------
(* Other requests.                                                          *)

(* `commit', `commit_candidate' and `revert' end the reading and sync. *)
EndReading(w, s) ==
  /\ Served(w) /\ ~sess[w][s].undo
  /\ sess' = [sess EXCEPT ![w][s].reading = FALSE]
  /\ fence' = IF s \in claimed[w] THEN Release(fence, host[w], w, s, FALSE) ELSE fence
  /\ claimed' = [claimed EXCEPT ![w] = @ \ {s}]
  /\ owed' = owed \ {Claim(w, s)}
  /\ Answer(w)
  /\ UNCHANGED <<conn, host, nextConn, gone, nextId, live, busy>>

(* A request that changes a session and leaves its claim to the next key.   *)
Changes(w, s, x) ==
  /\ Served(w)
  /\ sess' = [sess EXCEPT ![w][s] = x]
  /\ Answer(w)
  /\ UNCHANGED <<fence, conn, host, nextConn, gone, nextId, live, claimed, busy, owed>>

(* `reconvert' replaces the reading by the selection, or resets it. *)
Reconvert(w, s, found) ==
  /\ ~sess[w][s].undo
  /\ Changes(w, s, [sess[w][s] EXCEPT !.reading = found /\ ~sess[w][s].sensitive])

(* `set_input_scope': entering or leaving a sensitive field drops the       *)
(* reading.                                                                 *)
SetInputScope(w, s, sensitive) ==
  /\ ~sess[w][s].undo
  /\ Changes(w, s, [sess[w][s] EXCEPT !.sensitive = sensitive,
                       !.reading = @ /\ ~sess[w][s].sensitive /\ ~sensitive])

(* `set_mode' is for an idle session in an ordinary field. *)
SetMode(w, s) ==
  /\ ~sess[w][s].undo /\ ~sess[w][s].reading /\ ~sess[w][s].sensitive
  /\ Changes(w, s, [sess[w][s] EXCEPT !.direct = ~@])

(* `undo_commit_outcome': applied keeps the restored reading, rejected and  *)
(* unknown reset it.                                                        *)
UndoCommitOutcome(w, s, wasApplied) ==
  /\ sess[w][s].undo
  /\ Changes(w, s, [sess[w][s] EXCEPT !.undo = FALSE, !.reading = wasApplied])

(* Any request that names a session the dispatcher does not have. *)
UnknownSession(w) ==
  /\ Served(w) /\ conn[w] \in late
  /\ Answer(w)
  /\ UNCHANGED <<fence, conn, host, nextConn, gone, nextId, live, sess, claimed, busy, owed>>

----------------------------------------------------------------------------
(* Teardown.                                                                *)

(* The client leaves, its last request answered, being answered, or still   *)
(* in the pipe.                                                             *)
Drop(w, pending) ==
  /\ conn[w] # NoConn /\ conn[w] \notin gone
  /\ pending => busy[w].at = "rest"
  /\ gone' = gone \cup {conn[w]}
  /\ late' = IF pending THEN late \cup {conn[w]} ELSE late
  /\ owed' = owed \cup {Claim(w, s) : s \in {t \in claimed[w] : sess[w][t].reading}}
  /\ UNCHANGED <<fence, conn, host, nextConn, nextId, live, sess, claimed, busy>>

(* The worker finds the connection closed, its requests answered. *)
Closed(w) == busy[w].at = "rest" /\ conn[w] \in gone /\ conn[w] \notin late

(* Mutant: a reset forgets its claims without releasing them. *)
ReleaseClaimMut(w, s) ==
  /\ Closed(w)
  /\ claimed' = [claimed EXCEPT ![w] = @ \ {s}]
  /\ UNCHANGED <<fence, conn, host, nextConn, gone, late, nextId, live, sess, busy, owed>>

(* `release_all_composition_fence_claims', one claim after another.         *)
ReleaseClaim(w, s) ==
  /\ Closed(w)
  /\ fence' = Release(fence, host[w], w, s, TRUE)
  /\ claimed' = [claimed EXCEPT ![w] = @ \ {s}]
  /\ StillOwed(w, owed)
  /\ UNCHANGED <<conn, host, nextConn, gone, late, nextId, live, sess, busy>>

(* `reset' once the claims are released; the session ids go on from where   *)
(* they were.                                                               *)
Reset(w) ==
  /\ Closed(w) /\ claimed[w] = {}
  /\ live' = [live EXCEPT ![w] = {}]
  /\ sess' = [sess EXCEPT ![w] = [s \in Sessions |-> NewSession]]
  /\ conn' = [conn EXCEPT ![w] = NoConn]
  /\ host' = [host EXCEPT ![w] = NoHost]
  /\ UNCHANGED <<fence, nextConn, gone, late, nextId, claimed, busy, owed>>

----------------------------------------------------------------------------
Quiet == inserted' = {}

Request(w) ==
  \/ CreateSession(w) \/ UnknownSession(w)
  \/ \E s \in live[w] :
       \/ DeleteSession(w, s) \/ EndReading(w, s) \/ SetMode(w, s)
       \/ \E b \in BOOLEAN : Reconvert(w, s, b) \/ SetInputScope(w, s, b)
                               \/ UndoCommitOutcome(w, s, b)
       \/ \E seen \in Probes(w) : ProbeKey(w, s, seen) \/ \E k \in Keys : SendKey(w, s, k, seen)

Teardown(w) == (\E s \in claimed[w] : ReleaseClaim(w, s)) \/ Reset(w)

Silently(w) ==
  \/ \E h \in Hosts : Connect(w, h)
  \/ Request(w)
  \/ \E seen \in Probes(w) : Sync(w, seen)
  \/ \E pending \in BOOLEAN : Drop(w, pending)
  \/ Teardown(w)

Next ==
  \E w \in Owners :
    \/ Quiet /\ Silently(w)
    \/ \E seen \in Probes(w) : Absorb(w, seen)

(* A worker goes on with its key, serves what is queued and notices a       *)
(* closed pipe.                                                             *)
Works(w) ==
  \/ Quiet /\ ((conn[w] \in late /\ Request(w)) \/ Teardown(w))
  \/ \E seen \in Probes(w) : Absorb(w, seen) \/ (Quiet /\ Sync(w, seen))

Spec == Init /\ [][Next]_vars
FairSpec == Spec /\ \A w \in Owners : WF_vars(Works(w))

----------------------------------------------------------------------------
(* What `any_active' reads is exactly the live claims, no session has two,  *)
(* and the latches stay distinct and bounded: the three tables behind the   *)
(* mutex never drift apart, whatever order probes, keys and teardowns come. *)
FenceConsistent == Counted(fence) /\ OneClaimEach(fence) /\ LatchesBounded(fence)

(* The fence records the claims the dispatchers believe they hold, on the   *)
(* connection they serve: none outlives its session, so no host is          *)
(* suppressed for good.                                                     *)
ClaimsMatchSessions ==
  /\ \A c \in fence.owned :
       /\ c.host = host[c.owner] /\ c.conn = conn[c.owner]
       /\ c.session \in claimed[c.owner]
  /\ \A w \in Owners : \A s \in claimed[w] :
       s \in live[w] /\ \E c \in fence.owned : c.owner = w /\ c.session = s

ClaimsStayTrue == FenceConsistent /\ ClaimsMatchSessions

(* A live reading on the host keeps every idle Space out of the document:   *)
(* the Space of a key that came while there was one never gets as far as    *)
(* asking whether it is to be absorbed.  The reading counts from when the   *)
(* key that began it has claimed it, on a connection that is still there.   *)
ReadingGuardsSpace ==
  [][\A v \in Owners :
       busy[v].at # "absorb" /\ busy'[v].at = "absorb" =>
         ~\E w \in Owners : /\ host[w] = host[v] /\ conn[w] # NoConn /\ conn[w] \notin gone
                            /\ \E s \in claimed[w] : sess[w][s].reading]_vars

(* The Space after a lost reading never becomes a document space while the  *)
(* loss is unaccounted for (issue #102): what was owed on the host when its *)
(* key came has been paid for by another Space, answered for by a new       *)
(* reading, or given up at the bound on latches.                            *)
LostReadingGuarded ==
  [][\A w \in inserted' : busy[w].since \cap owed = {}]_vars

(* A claim does not outlast its client for long: the worker's own reset     *)
(* ends it even if no other connection ever probes it.                      *)
DeadClaimsEnd ==
  \A n \in Conns : n \in gone ~> ~\E c \in fence.owned : c.conn = n /\ c.active

----------------------------------------------------------------------------
(* What makes the properties inductive.                                     *)

(* The record behind the mutex between two methods. *)
FenceOK(f) ==
  /\ f \in Fences /\ IsFiniteSet(f.owned)
  /\ Counted(f) /\ OneClaimEach(f) /\ LatchesBounded(f)

(* A worker without a connection has nothing left of the last one; only the *)
(* claim of a client that is gone has stopped counting.                     *)
ConnectionsOK ==
  /\ \A w \in Owners :
       /\ conn[w] < nextConn
       /\ conn[w] # NoConn => host[w] \in Hosts
       /\ conn[w] = NoConn => live[w] = {} /\ busy[w].at = "rest"
       /\ \A s \in live[w] : s < nextId[w]
  /\ \A n \in gone : n < nextConn
  /\ \A c \in fence.owned : ~c.active => c.conn \in gone

(* What a key still has to ask is about a session that is there. *)
KeysOK ==
  \A w \in Owners :
    /\ busy[w].at # "rest" => busy[w].session \in live[w]
    /\ busy[w].at = "absorb" => Idle(sess[w][busy[w].session])
    /\ busy[w].at = "sync" =>
         (sess[w][busy[w].session].reading <=> busy[w].session \notin claimed[w])
    /\ busy[w].at # "absorb" => busy[w].since = {}

(* A loss that is owed either still counts or has armed the latch.          *)
OwedCovered == \A c \in owed : c.host \in ToSet(fence.torn) \/ c \in Counting(fence)

(* One that was owed when a Space came no longer counts, and nothing else   *)
(* on its host does.                                                        *)
SpaceUnfenced ==
  \A w \in Owners : \A c \in busy[w].since \cap owed :
    c.host = host[w] /\ c.host \in ToSet(fence.torn) /\ ~Fenced(fence, c.host)

(* A loss is of a session that is over, or of a client that is gone: no     *)
(* reading is lost twice.                                                   *)
LostOnce ==
  \A c \in owed \cup UNION {busy[w].since : w \in Owners} :
    c.session < nextId[c.owner] /\ (c.session \in live[c.owner] => conn[c.owner] \in gone)

IInv ==
  /\ TypeOK /\ FenceOK(fence) /\ ClaimsMatchSessions
  /\ ConnectionsOK /\ KeysOK /\ OwedCovered /\ SpaceUnfenced /\ LostOnce

=============================================================================

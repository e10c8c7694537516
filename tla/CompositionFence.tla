--------------------------- MODULE CompositionFence ---------------------------
(* The state an engine process shares between its pipe workers so that an   *)
(* idle Space of one connection is judged against the readings of all of    *)
(* them: crates/sakura-engine/src/composition_fence.rs.  One value `f' of   *)
(* Fences is the record behind the mutex; each operator is one method, run  *)
(* under the lock, as a function of the record before it.                   *)
(*                                                                          *)
(* A connection probe may answer "gone" or be inconclusive (its lock is     *)
(* busy, an overlapped write is pending).  Every operator that probes takes *)
(* `seen', the connections its probes prove gone: some subset of those that *)
(* are.                                                                     *)
EXTENDS Naturals, FiniteSets, Sequences, SequencesExt

CONSTANTS
  Hosts,        \* image file names of client processes, case folded
  Owners,       \* dispatchers: one per pipe worker, `ui_connection'
  Capacity      \* MAX_PENDING_TEARDOWNS

ASSUME CapacityAssumption == Capacity \in Nat \ {0}

(* `OwnedClaim', with the key it is stored under. *)
Claims == [host : Hosts, owner : Owners, session : Nat, conn : Nat, active : BOOLEAN]

Fences == [counts : [Hosts -> Nat], torn : Seq(Hosts), owned : SUBSET Claims]

NewFence == [counts |-> [h \in Hosts |-> 0], torn |-> <<>>, owned |-> {}]

----------------------------------------------------------------------------
(* `disarm_teardown' drops the host's first latch, if it has one. *)
Disarm(f, h) == [f EXCEPT !.torn = RemoveFirst(@, h)]

(* `arm_teardown': one latch per host, newest last, the oldest given up. *)
Arm(f, h) ==
  [f EXCEPT !.torn = LET rest == RemoveFirst(@, h)
                     IN  Append(IF Len(rest) = Capacity THEN Tail(rest) ELSE rest, h)]

(* `release_count': one claim fewer, never below zero. *)
Uncount(f, h, n) == [f EXCEPT !.counts[h] = IF @ >= n THEN @ - n ELSE 0]

(* Claims of the host that are live and that the probes prove gone. *)
Dead(f, h, seen) == {c \in f.owned : c.host = h /\ c.active /\ c.conn \in seen}

(* Mutant: a retired claim stays active, so its owner releases it again. *)
RetireMut(f, h, seen) ==
  LET dead == Dead(f, h, seen)
  IN  IF dead = {} THEN f ELSE Arm(Uncount(f, h, Cardinality(dead)), h)

(* Mutant: a retired claim arms nothing, its owner would have. *)
RetireQuietMut(f, h, seen) ==
  LET dead == Dead(f, h, seen)
  IN  Uncount([f EXCEPT !.owned = (@ \ dead) \cup {[c EXCEPT !.active = FALSE] : c \in dead}],
              h, Cardinality(dead))

(* `retire_disconnected': dead claims stop counting at once, stay recorded  *)
(* as inactive until their owner finalises them, and arm the host's latch.  *)
Retire(f, h, seen) ==
  LET dead == Dead(f, h, seen)
      kept == [f EXCEPT !.owned = (@ \ dead) \cup {[c EXCEPT !.active = FALSE] : c \in dead}]
  IN  IF dead = {} THEN f ELSE Arm(Uncount(kept, h, Cardinality(dead)), h)

(* Mutant: a host's only reading does not fence it. *)
FencedMut(f, h) == f.counts[h] > 1

(* What `any_active' answers once it has retired: a live claim exists. *)
Fenced(f, h) == f.counts[h] > 0

ClaimsOf(f, h, o, s) == {c \in f.owned : c.host = h /\ c.owner = o /\ c.session = s}

(* `acquire_owned': a second claim of the session only rebinds the probe;   *)
(* a claim on a dead connection is recorded but never counts.               *)
Acquire(f, h, o, s, conn, seen) ==
  LET g    == Retire(f, h, seen)
      held == ClaimsOf(g, h, o, s)
      claim == [host |-> h, owner |-> o, session |-> s, conn |-> conn,
                active |-> conn \notin seen]
  IN  IF held # {}
      THEN [g EXCEPT !.owned = (@ \ held) \cup {[c EXCEPT !.conn = conn] : c \in held}]
      ELSE IF ~claim.active THEN [g EXCEPT !.owned = @ \cup {claim}]
      ELSE [Disarm(g, h) EXCEPT !.owned = @ \cup {claim}, !.counts[h] = @ + 1]

(* `release_owned': only a claim that still counted can arm the latch. *)
Release(f, h, o, s, teardown) ==
  LET held == ClaimsOf(f, h, o, s)
      g    == [f EXCEPT !.owned = @ \ held]
  IN  IF \E c \in held : c.active
      THEN IF teardown /\ Fenced(f, h) THEN Arm(Uncount(g, h, 1), h)
           ELSE Uncount(g, h, 1)
      ELSE g

(* `consume_teardown', after it has retired: an armed latch is spent unless *)
(* a live claim already fences the host.                                    *)
Owes(f, h)  == ~Fenced(f, h) /\ h \in ToSet(f.torn)
Spend(f, h) == IF Owes(f, h) THEN Disarm(f, h) ELSE f

----------------------------------------------------------------------------
(* The hash map of counts is exactly what the claims say. *)
Counted(f) ==
  \A h \in Hosts : f.counts[h] = Cardinality({c \in f.owned : c.host = h /\ c.active})

(* A session of a worker holds one claim at most. *)
OneClaimEach(f) ==
  \A c, d \in f.owned : c.host = d.host /\ c.owner = d.owner /\ c.session = d.session => c = d

(* One latch per host, no more of them than the bound. *)
LatchesBounded(f) == IsInjective(f.torn) /\ Len(f.torn) <= Capacity
=============================================================================

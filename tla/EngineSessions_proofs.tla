------------------------ MODULE EngineSessions_proofs ------------------------
(* The composition fence keeps its tables consistent and an idle Space out  *)
(* of the document, for any set of hosts and workers and every bound; and   *)
(* the pool of pipe instances always has room on offer, for any sets of     *)
(* endpoints, workers and clients.                                          *)
EXTENDS EngineSessions, FiniteSetTheorems, SequenceTheorems, TLAPS

----------------------------------------------------------------------------
(* Latches.                                                                 *)

Latches(t) == t \in Seq(Hosts) /\ IsInjective(t) /\ Len(t) <= Capacity

(* Dropping a host's latch leaves those of the others, in order.            *)
LEMMA RemoveFirstLatch ==
  ASSUME NEW t, Latches(t), NEW h \in Hosts
  PROVE  /\ Latches(RemoveFirst(t, h))
         /\ ToSet(RemoveFirst(t, h)) = ToSet(t) \ {h}
<1> USE DEF Latches
<1>1. CASE ~\E i \in 1..Len(t) : t[i] = h
  <2>1. RemoveFirst(t, h) = t
    BY <1>1 DEF RemoveFirst
  <2>2. h \notin ToSet(t)
    BY <1>1 DEF ToSet
  <2> QED
    BY <2>1, <2>2
<1>2. CASE \E i \in 1..Len(t) : t[i] = h
  <2> DEFINE I == {i \in 1..Len(t) : t[i] = h}
             n == Len(t)
  <2>1. PICK k \in 1..n : t[k] = h
    BY <1>2
  <2>2. I = {k}
    BY <2>1 DEF IsInjective
  <2>3. Min({k}) = k
    BY <2>1 DEF Min
  <2>4. SelectInSeq(t, LAMBDA v : v = h) = k
    BY <2>2, <2>3 DEF SelectInSeq
  <2> DEFINE u == SubSeq(t, 1, k - 1)
             v == SubSeq(t, k + 1, n)
             r == u \o v
  <2>5. RemoveFirst(t, h) = r
    BY <1>2, <2>4 DEF RemoveFirst, RemoveAt
  <2>6. /\ n \in Nat /\ k \in Nat /\ k >= 1 /\ k <= n
        /\ u \in Seq(Hosts) /\ Len(u) = k - 1
        /\ v \in Seq(Hosts) /\ Len(v) = n - k
        /\ \A i \in 1..(k - 1) : u[i] = t[i]
        /\ \A i \in 1..(n - k) : v[i] = t[i + k]
    BY <2>1
  <2> HIDE DEF u, v
  <2>7. /\ r \in Seq(Hosts) /\ Len(r) = n - 1 /\ DOMAIN r = 1..(n - 1)
        /\ \A i \in 1..(n - 1) : r[i] = IF i < k THEN t[i] ELSE t[i + 1]
    <3>1. r \in Seq(Hosts) /\ Len(r) = n - 1 /\ DOMAIN r = 1..(n - 1)
      BY <2>6
    <3>2. ASSUME NEW i \in 1..(n - 1)
          PROVE  r[i] = IF i < k THEN t[i] ELSE t[i + 1]
      <4>1. CASE i < k
        BY <4>1, <2>6
      <4>2. CASE ~(i < k)
        <5>1. r[i] = v[i - (k - 1)] /\ i - (k - 1) \in 1..(n - k)
          BY <4>2, <2>6
        <5>2. v[i - (k - 1)] = t[i - (k - 1) + k] /\ i - (k - 1) + k = i + 1
          BY <5>1, <2>6
        <5> QED
          BY <5>1, <5>2, <4>2
      <4> QED
        BY <4>1, <4>2
    <3> QED
      BY <3>1, <3>2
  <2> HIDE DEF r
  <2>8. IsInjective(r)
    <3> SUFFICES ASSUME NEW i \in 1..(n - 1), NEW j \in 1..(n - 1), r[i] = r[j]
                 PROVE  i = j
      BY <2>7 DEF IsInjective
    <3>1. DOMAIN t = 1..n
      BY <2>6
    <3> DEFINE at(m) == IF m < k THEN m ELSE m + 1
    <3>2. r[i] = t[at(i)] /\ r[j] = t[at(j)] /\ at(i) \in 1..n /\ at(j) \in 1..n
      BY <2>6, <2>7
    <3>3. at(i) = at(j)
      BY <3>1, <3>2 DEF IsInjective
    <3> QED
      BY <3>3, <2>6
  <2>9. ToSet(r) = ToSet(t) \ {h}
    <3>0. DOMAIN t = 1..n /\ DOMAIN r = 1..(n - 1)
      BY <2>6, <2>7
    <3>1. ASSUME NEW i \in 1..(n - 1) PROVE r[i] \in ToSet(t) \ {h}
      <4> DEFINE m == IF i < k THEN i ELSE i + 1
      <4>1. m \in 1..n /\ m # k /\ r[i] = t[m]
        BY <2>6, <2>7
      <4> HIDE DEF m
      <4>2. t[m] # h
        BY <4>1, <2>1, <3>0 DEF IsInjective
      <4> QED
        BY <4>1, <4>2, <3>0 DEF ToSet
    <3>2. ASSUME NEW i \in 1..n, t[i] # h PROVE t[i] \in ToSet(r)
      <4>1. CASE i < k
        <5>1. i \in 1..(n - 1) /\ r[i] = t[i]
          BY <4>1, <2>6, <2>7
        <5> QED
          BY <5>1, <2>7 DEF ToSet
      <4>2. CASE i > k
        <5>1. i - 1 \in 1..(n - 1) /\ r[i - 1] = t[i]
          BY <4>2, <2>6, <2>7
        <5> QED
          BY <5>1, <2>7 DEF ToSet
      <4> QED
        BY <4>1, <4>2, <3>2, <2>1, <2>6
    <3> QED
      BY <3>0, <3>1, <3>2 DEF ToSet
  <2> QED
    BY <2>5, <2>6, <2>7, <2>8, <2>9, CapacityAssumption
<1> QED
  BY <1>1, <1>2

(* Giving up the oldest latch.                                              *)
LEMMA TailLatch ==
  ASSUME NEW t, Latches(t), t # <<>>
  PROVE  /\ Latches(Tail(t)) /\ Len(Tail(t)) = Len(t) - 1
         /\ ToSet(Tail(t)) \subseteq ToSet(t)
<1>1. /\ t \in Seq(Hosts) /\ Len(t) \in Nat /\ Len(t) > 0
      /\ Tail(t) \in Seq(Hosts) /\ Len(Tail(t)) = Len(t) - 1
      /\ \A i \in 1..(Len(t) - 1) : Tail(t)[i] = t[i + 1]
  BY DEF Latches
<1>2. IsInjective(Tail(t))
  BY <1>1 DEF Latches, IsInjective
<1>3. ToSet(Tail(t)) \subseteq ToSet(t)
  BY <1>1 DEF ToSet
<1> QED
  BY <1>1, <1>2, <1>3, CapacityAssumption DEF Latches

LEMMA AppendLatch ==
  ASSUME NEW t, Latches(t), Len(t) < Capacity, NEW h \in Hosts, h \notin ToSet(t)
  PROVE  Latches(Append(t, h)) /\ ToSet(Append(t, h)) = ToSet(t) \cup {h}
<1> DEFINE r == Append(t, h)
<1>1. /\ t \in Seq(Hosts) /\ Len(t) \in Nat
      /\ r \in Seq(Hosts) /\ Len(r) = Len(t) + 1 /\ r[Len(t) + 1] = h
      /\ \A i \in 1..Len(t) : r[i] = t[i]
  BY DEF Latches
<1> HIDE DEF r
<1>2. \A i \in 1..Len(t) : t[i] # h
  BY <1>1 DEF ToSet
<1>3. IsInjective(r)
  BY <1>1, <1>2 DEF Latches, IsInjective
<1>4. ToSet(r) = ToSet(t) \cup {h}
  <2>1. ASSUME NEW i \in 1..Len(r) PROVE r[i] \in ToSet(t) \cup {h}
    BY <1>1 DEF ToSet
  <2>2. ASSUME NEW i \in 1..Len(t) PROVE t[i] \in ToSet(r)
    BY <1>1 DEF ToSet
  <2>3. h \in ToSet(r)
    <3>1. Len(t) + 1 \in DOMAIN r
      BY <1>1
    <3> QED
      BY <3>1, <1>1 DEF ToSet
  <2> QED
    BY <2>1, <2>2, <2>3, <1>1 DEF ToSet
<1> QED
  BY <1>1, <1>3, <1>4, CapacityAssumption DEF r, Latches

----------------------------------------------------------------------------
(* The methods of the fence.                                                *)

(* Arming refreshes the host's latch; what it costs is another's, and only  *)
(* at the bound.                                                            *)
LEMMA ArmLatch ==
  ASSUME NEW f \in Fences, LatchesBounded(f), NEW h \in Hosts
  PROVE  /\ Arm(f, h) \in Fences /\ LatchesBounded(Arm(f, h))
         /\ Arm(f, h).counts = f.counts /\ Arm(f, h).owned = f.owned
         /\ h \in ToSet(Arm(f, h).torn)
         /\ ToSet(Arm(f, h).torn) \subseteq ToSet(f.torn) \cup {h}
<1> DEFINE rest == RemoveFirst(f.torn, h)
           room == IF Len(rest) = Capacity THEN Tail(rest) ELSE rest
           torn == Append(room, h)
<1>1. Latches(f.torn)
  BY DEF Fences, LatchesBounded, Latches
<1>2. Latches(rest) /\ ToSet(rest) = ToSet(f.torn) \ {h}
  BY <1>1, RemoveFirstLatch
<1> HIDE DEF rest
<1>3. Latches(room) /\ Len(room) < Capacity /\ ToSet(room) \subseteq ToSet(rest)
  <2>1. Len(rest) \in Nat /\ Len(rest) <= Capacity /\ Capacity \in Nat /\ Capacity > 0
    BY <1>2, CapacityAssumption DEF Latches
  <2>2. CASE Len(rest) = Capacity
    <3>1. rest # <<>>
      BY <2>1, <2>2
    <3> QED
      BY <3>1, <2>1, <2>2, <1>2, TailLatch
  <2>3. CASE Len(rest) # Capacity
    BY <2>1, <2>3, <1>2
  <2> QED
    BY <2>2, <2>3
<1> HIDE DEF room
<1>4. Latches(torn) /\ ToSet(torn) = ToSet(room) \cup {h}
  BY <1>2, <1>3, AppendLatch
<1>5. Arm(f, h) = [f EXCEPT !.torn = torn]
  BY DEF Arm, rest, room
<1> HIDE DEF torn
<1>6. Arm(f, h) = [counts |-> f.counts, torn |-> torn, owned |-> f.owned]
  BY <1>5 DEF Fences
<1> QED
  BY <1>2, <1>3, <1>4, <1>6 DEF Latches, LatchesBounded, Fences

LEMMA DisarmLatch ==
  ASSUME NEW f \in Fences, LatchesBounded(f), NEW h \in Hosts
  PROVE  /\ Disarm(f, h) \in Fences /\ LatchesBounded(Disarm(f, h))
         /\ Disarm(f, h).counts = f.counts /\ Disarm(f, h).owned = f.owned
         /\ ToSet(Disarm(f, h).torn) = ToSet(f.torn) \ {h}
<1> DEFINE rest == RemoveFirst(f.torn, h)
<1>1. Latches(f.torn)
  BY DEF Fences, LatchesBounded, Latches
<1>2. Latches(rest) /\ ToSet(rest) = ToSet(f.torn) \ {h}
  BY <1>1, RemoveFirstLatch
<1>3. Disarm(f, h) = [f EXCEPT !.torn = rest]
  BY DEF Disarm
<1> HIDE DEF rest
<1>4. Disarm(f, h) = [counts |-> f.counts, torn |-> rest, owned |-> f.owned]
  BY <1>3 DEF Fences
<1> QED
  BY <1>2, <1>4 DEF Latches, LatchesBounded, Fences

Alive(f, h) == {c \in f.owned : c.host = h /\ c.active}
Quieted(cs) == {[c EXCEPT !.active = FALSE] : c \in cs}
SameClaim(c, d) ==
  c.host = d.host /\ c.owner = d.owner /\ c.session = d.session /\ c.conn = d.conn

LEMMA QuietedFinite ==
  ASSUME NEW cs, IsFiniteSet(cs)
  PROVE  IsFiniteSet(Quieted(cs))
<1> DEFINE q == [c \in cs |-> [c EXCEPT !.active = FALSE]]
<1>1. q \in Surjection(cs, Quieted(cs))
  BY DEF Surjection, Quieted
<1> QED
  BY <1>1, FS_Surjection

LEMMA QuietedClaims ==
  ASSUME NEW cs \in SUBSET Claims
  PROVE  /\ Quieted(cs) \in SUBSET Claims
         /\ \A c \in cs : \E q \in Quieted(cs) : SameClaim(c, q) /\ ~q.active
         /\ \A q \in Quieted(cs) : ~q.active /\ \E c \in cs : SameClaim(c, q)
<1>1. ASSUME NEW c \in cs
      PROVE  /\ [c EXCEPT !.active = FALSE] \in Claims
             /\ SameClaim(c, [c EXCEPT !.active = FALSE])
             /\ ~[c EXCEPT !.active = FALSE].active
  BY DEF Claims, SameClaim
<1> QED
  BY <1>1, Zenon DEF Quieted

(* Counting the claims of one host fewer. *)
LEMMA UncountFence ==
  ASSUME NEW f \in Fences, NEW h \in Hosts, NEW n \in Nat
  PROVE  /\ Uncount(f, h, n) \in Fences
         /\ Uncount(f, h, n).owned = f.owned /\ Uncount(f, h, n).torn = f.torn
         /\ \A x \in Hosts \ {h} : Uncount(f, h, n).counts[x] = f.counts[x]
         /\ f.counts[h] >= n => Uncount(f, h, n).counts[h] = f.counts[h] - n
<1> DEFINE m == IF f.counts[h] >= n THEN f.counts[h] - n ELSE 0
           counts == [f.counts EXCEPT ![h] = m]
<1>1. f.counts \in [Hosts -> Nat] /\ m \in Nat
  BY DEF Fences
<1>2. Uncount(f, h, n) = [f EXCEPT !.counts = counts]
  BY DEF Uncount, Fences
<1> HIDE DEF m
<1>3. counts \in [Hosts -> Nat] /\ counts[h] = m /\ \A x \in Hosts \ {h} : counts[x] = f.counts[x]
  BY <1>1
<1> HIDE DEF counts
<1>4. Uncount(f, h, n) = [counts |-> counts, torn |-> f.torn, owned |-> f.owned]
  BY <1>2 DEF Fences
<1> QED
  BY <1>3, <1>4 DEF Fences, m

(* `retire_disconnected': the dead claims stop counting, and the host is    *)
(* owed a Space for them.                                                   *)
LEMMA RetireFence ==
  ASSUME NEW f, FenceOK(f), NEW h \in Hosts, NEW seen
  PROVE  LET r == Retire(f, h, seen)
             dead == Dead(f, h, seen)
         IN  /\ FenceOK(r)
             /\ r.owned = (f.owned \ dead) \cup Quieted(dead)
             /\ dead = {} => r = f
             /\ dead # {} => h \in ToSet(r.torn)
             /\ ToSet(r.torn) \subseteq ToSet(f.torn) \cup {h}
             /\ \A x \in Hosts : r.counts[x] <= f.counts[x]
<1> DEFINE dead == Dead(f, h, seen)
           owned == (f.owned \ dead) \cup Quieted(dead)
           kept == [f EXCEPT !.owned = owned]
           n == Cardinality(dead)
           less == Uncount(kept, h, n)
           r == Arm(less, h)
<1>0. /\ f \in Fences /\ IsFiniteSet(f.owned) /\ f.owned \in SUBSET Claims
      /\ f.counts \in [Hosts -> Nat] /\ f.torn \in Seq(Hosts)
  BY DEF FenceOK, Fences
<1>1. CASE dead = {}
  <2>1. Retire(f, h, seen) = f
    BY <1>1 DEF Retire
  <2>2. (f.owned \ dead) \cup Quieted(dead) = f.owned
    BY <1>1 DEF Quieted
  <2> QED
    BY <1>0, <1>1, <2>1, <2>2
<1>2. CASE dead # {}
  <2>1. dead \subseteq f.owned /\ dead \subseteq Alive(f, h) /\ IsFiniteSet(dead)
        /\ n \in Nat
    BY <1>0, FS_Subset, FS_CardinalityType DEF Dead, Alive
  <2>2. IsFiniteSet(owned) /\ owned \in SUBSET Claims
    BY <1>0, <2>1, QuietedFinite, QuietedClaims, FS_Union, FS_Subset
  <2>3. Alive(kept, h) = Alive(f, h) \ dead
    BY <1>0, <2>1, QuietedClaims DEF Alive
  <2>4. \A x \in Hosts \ {h} : Alive(kept, x) = Alive(f, x)
    BY <1>0, <2>1, QuietedClaims DEF Alive, SameClaim
  <2>5. Cardinality(Alive(f, h)) = f.counts[h] /\ IsFiniteSet(Alive(f, h))
    BY <1>0, FS_Subset DEF FenceOK, Counted, Alive
  <2>6. Alive(f, h) \cap dead = dead
    BY <2>1
  <2>7. Cardinality(Alive(kept, h)) = f.counts[h] - n /\ n <= f.counts[h]
    <3>1. Cardinality(Alive(f, h) \ dead) = Cardinality(Alive(f, h)) - Cardinality(dead)
      <4> DEFINE A == Alive(f, h)
      <4> HIDE DEF dead, A
      <4>1. Cardinality(A \ dead) = Cardinality(A) - Cardinality(A \cap dead)
        BY <2>1, <2>5, FS_Difference DEF A
      <4> QED
        BY <2>6, <4>1 DEF A
    <3>2. Cardinality(dead) <= Cardinality(Alive(f, h))
      BY <2>1, <2>5, FS_Subset
    <3> QED
      BY <2>3, <2>5, <3>1, <3>2
  <2>8. /\ kept \in Fences /\ kept.counts = f.counts /\ kept.torn = f.torn
        /\ kept.owned = owned
    BY <1>0, <2>2 DEF Fences
  <2>9. OneClaimEach(kept)
    <3> DEFINE Same(c, d) == c.host = d.host /\ c.owner = d.owner /\ c.session = d.session
    <3>1. OneClaimEach(f) /\ dead \in SUBSET Claims
      BY <1>0, <2>1 DEF FenceOK
    <3>2. ASSUME NEW c \in f.owned \ dead, NEW d \in f.owned \ dead, Same(c, d) PROVE c = d
      BY <3>1, <3>2 DEF OneClaimEach
    <3>3. ASSUME NEW c \in f.owned \ dead, NEW d \in Quieted(dead) PROVE ~Same(c, d)
      <4>1. PICK e \in dead : SameClaim(e, d)
        BY <3>1, QuietedClaims
      <4>2. Same(c, d) => Same(c, e)
        BY <4>1 DEF SameClaim
      <4>3. Same(c, e) => c = e
        BY <2>1, <3>1 DEF OneClaimEach
      <4> QED
        BY <4>2, <4>3
    <3>4. ASSUME NEW c \in Quieted(dead), NEW d \in Quieted(dead), Same(c, d) PROVE c = d
      <4>1. PICK a \in dead : c = [a EXCEPT !.active = FALSE]
        BY DEF Quieted
      <4>2. PICK b \in dead : d = [b EXCEPT !.active = FALSE]
        BY DEF Quieted
      <4>3. Same(a, b)
        BY <3>1, <3>4, <4>1, <4>2 DEF Claims
      <4>4. a = b
        BY <2>1, <3>1, <4>3 DEF OneClaimEach
      <4> QED
        BY <4>1, <4>2, <4>4
    <3> HIDE DEF dead
    <3>5. ASSUME NEW c \in owned, NEW d \in owned, Same(c, d) PROVE c = d
      <4> HIDE DEF Same
      <4>1. Same(d, c)
        BY <3>5 DEF Same
      <4> QED
        BY <3>2, <3>3, <3>4, <3>5, <4>1
    <3> QED
      BY <2>8, <3>5 DEF OneClaimEach
  <2>10. Retire(f, h, seen) = r
    BY <1>2 DEF Retire, Quieted
  <2> HIDE DEF owned, kept, n, dead
  <2>11. /\ less \in Fences /\ less.owned = owned /\ less.torn = f.torn
         /\ \A x \in Hosts \ {h} : less.counts[x] = f.counts[x]
         /\ less.counts[h] = f.counts[h] - n
    BY <2>1, <2>7, <2>8, UncountFence
  <2> HIDE DEF less
  <2>12. LatchesBounded(less)
    BY <2>11 DEF FenceOK, LatchesBounded
  <2>13. /\ r \in Fences /\ LatchesBounded(r) /\ r.counts = less.counts /\ r.owned = owned
         /\ h \in ToSet(r.torn) /\ ToSet(r.torn) \subseteq ToSet(f.torn) \cup {h}
    BY <2>11, <2>12, ArmLatch
  <2> HIDE DEF r
  <2>14. \A x \in Hosts : Alive(r, x) = Alive(kept, x)
    BY <2>13, <2>8 DEF Alive
  <2>15. Counted(r)
    <3>1. ASSUME NEW x \in Hosts PROVE r.counts[x] = Cardinality(Alive(r, x))
      <4>1. CASE x = h
        BY <4>1, <2>7, <2>11, <2>13, <2>14
      <4>2. CASE x # h
        <5>1. Cardinality(Alive(f, x)) = f.counts[x]
          BY DEF FenceOK, Counted, Alive
        <5> QED
          BY <4>2, <5>1, <2>4, <2>11, <2>13, <2>14
      <4> QED
        BY <4>1, <4>2
    <3> QED
      BY <3>1 DEF Counted, Alive
  <2>16. \A x \in Hosts : r.counts[x] <= f.counts[x]
    BY <1>0, <2>1, <2>7, <2>11, <2>13
  <2>17. OneClaimEach(r)
    BY <2>8, <2>9, <2>13 DEF OneClaimEach
  <2>18. FenceOK(r)
    BY <2>2, <2>13, <2>15, <2>17 DEF FenceOK
  <2> QED
    BY <1>2, <2>10, <2>13, <2>16, <2>18 DEF owned, dead
<1> QED
  BY <1>1, <1>2

(* Claims on other hosts are left alone. *)
Elsewhere(f, r, h) == \A c \in Claims : c.host # h => (c \in r.owned <=> c \in f.owned)

LEMMA CountsElsewhere ==
  ASSUME NEW f, NEW r, NEW h, FenceOK(f), FenceOK(r), Elsewhere(f, r, h)
  PROVE  \A x \in Hosts \ {h} : Fenced(r, x) <=> Fenced(f, x)
<1> TAKE x \in Hosts \ {h}
<1>1. f.owned \in SUBSET Claims /\ r.owned \in SUBSET Claims
  BY DEF FenceOK, Fences
<1>2. Alive(f, x) = Alive(r, x)
  BY <1>1 DEF Alive, Elsewhere
<1>3. f.counts[x] = Cardinality(Alive(f, x)) /\ r.counts[x] = Cardinality(Alive(r, x))
  BY DEF FenceOK, Counted, Alive
<1> QED
  BY <1>2, <1>3 DEF Fenced

(* A live claim fences its host, and nothing else does. *)
LEMMA AliveFences ==
  ASSUME NEW f, FenceOK(f), NEW h \in Hosts
  PROVE  Fenced(f, h) <=> Alive(f, h) # {}
<1>1. f.counts[h] = Cardinality(Alive(f, h)) /\ IsFiniteSet(Alive(f, h))
  BY FS_Subset DEF FenceOK, Counted, Alive
<1>2. Cardinality(Alive(f, h)) \in Nat /\ (Cardinality(Alive(f, h)) = 0 <=> Alive(f, h) = {})
  BY <1>1, FS_CardinalityType, FS_EmptySet
<1> QED
  BY <1>1, <1>2 DEF Fenced

LEMMA CountingFences ==
  ASSUME NEW f, FenceOK(f), NEW k \in Counting(f)
  PROVE  k.host \in Hosts /\ Fenced(f, k.host)
<1>1. PICK c \in f.owned : c.active /\ k = [host |-> c.host, owner |-> c.owner, session |-> c.session]
  BY DEF Counting
<1>2. c \in Claims /\ k.host = c.host
  BY <1>1 DEF FenceOK, Fences
<1>3. c.host \in Hosts /\ c \in Alive(f, c.host)
  BY <1>1, <1>2 DEF Claims, Alive
<1> QED
  BY <1>2, <1>3, AliveFences

(* What counts elsewhere goes on counting. *)
LEMMA CountingElsewhere ==
  ASSUME NEW f, NEW r, NEW h, FenceOK(f), FenceOK(r), Elsewhere(f, r, h),
         NEW k \in Counting(f), k.host # h
  PROVE  k \in Counting(r)
<1>1. PICK c \in f.owned : c.active /\ k = [host |-> c.host, owner |-> c.owner, session |-> c.session]
  BY DEF Counting
<1>2. c \in Claims /\ k.host = c.host
  BY <1>1 DEF FenceOK, Fences
<1>3. c \in r.owned
  BY <1>2 DEF Elsewhere
<1> QED
  BY <1>1, <1>3 DEF Counting

LEMMA RetireClaims ==
  ASSUME NEW f, FenceOK(f), NEW h \in Hosts, NEW seen
  PROVE  LET r == Retire(f, h, seen)
         IN  /\ Elsewhere(f, r, h)
             /\ Fenced(r, h) => Fenced(f, h)
             /\ ~Fenced(f, h) => r = f
             /\ \A c \in r.owned :
                  c \in f.owned \/ (~c.active /\ c.conn \in seen /\ \E d \in f.owned : SameClaim(c, d))
             /\ \A d \in f.owned :
                  d \in r.owned \/ (d.conn \in seen /\ \E c \in r.owned : SameClaim(c, d))
<1> DEFINE dead == Dead(f, h, seen)
           r == Retire(f, h, seen)
<1>1. /\ r.owned = (f.owned \ dead) \cup Quieted(dead) /\ FenceOK(r)
      /\ dead = {} => r = f
  BY RetireFence
<1>2. /\ f.owned \in SUBSET Claims /\ dead \in SUBSET Claims
      /\ \A c \in dead : c.host = h /\ c.conn \in seen /\ c \in Alive(f, h)
  BY DEF FenceOK, Fences, Dead, Alive
<1>3. /\ \A c \in dead : \E q \in Quieted(dead) : SameClaim(c, q) /\ ~q.active
      /\ \A q \in Quieted(dead) : ~q.active /\ \E c \in dead : SameClaim(c, q)
  BY <1>2, QuietedClaims
<1> HIDE DEF r, dead
<1>4. Elsewhere(f, r, h)
  BY <1>1, <1>2, <1>3 DEF Elsewhere, SameClaim
<1>5. ~Fenced(f, h) => r = f
  BY <1>1, <1>2, AliveFences
<1>6. Fenced(r, h) => Fenced(f, h)
  BY <1>5
<1>7. \A c \in r.owned :
        c \in f.owned \/ (~c.active /\ c.conn \in seen /\ \E d \in f.owned : SameClaim(c, d))
  <2>1. \A c \in dead : c \in f.owned
    BY DEF dead, Dead
  <2> QED
    BY <1>1, <1>2, <1>3, <2>1 DEF SameClaim
<1>8. \A d \in f.owned :
        d \in r.owned \/ (d.conn \in seen /\ \E c \in r.owned : SameClaim(c, d))
  BY <1>1, <1>2, <1>3 DEF SameClaim
<1> QED
  BY <1>4, <1>5, <1>6, <1>7, <1>8 DEF r

(* `release_owned': the claim is gone, and the host is owed a Space for it  *)
(* when it still counted and was torn down.                                 *)
LEMMA ReleaseFence ==
  ASSUME NEW f, FenceOK(f), NEW h \in Hosts, NEW o, NEW s, NEW teardown \in BOOLEAN
  PROVE  LET r == Release(f, h, o, s, teardown)
             held == ClaimsOf(f, h, o, s)
         IN  /\ FenceOK(r) /\ Elsewhere(f, r, h)
             /\ r.owned = f.owned \ held
             /\ h \in ToSet(f.torn) => h \in ToSet(r.torn)
             /\ teardown /\ (\E c \in held : c.active) => h \in ToSet(r.torn)
             /\ ~teardown => r.torn = f.torn
             /\ Fenced(r, h) => Fenced(f, h)
<1> DEFINE held == ClaimsOf(f, h, o, s)
           owned == f.owned \ held
           g == [f EXCEPT !.owned = owned]
           r == Release(f, h, o, s, teardown)
           less == Uncount(g, h, 1)
<1>0. /\ f \in Fences /\ IsFiniteSet(f.owned) /\ f.owned \in SUBSET Claims
      /\ f.counts \in [Hosts -> Nat] /\ f.torn \in Seq(Hosts)
      /\ OneClaimEach(f) /\ LatchesBounded(f)
      /\ \A x \in Hosts : f.counts[x] = Cardinality(Alive(f, x))
  BY DEF FenceOK, Fences, Counted, Alive
<1>1. IsFiniteSet(owned) /\ owned \in SUBSET Claims /\ held \subseteq f.owned
  BY <1>0, FS_Subset DEF ClaimsOf
<1>2. /\ g \in Fences /\ g.counts = f.counts /\ g.torn = f.torn /\ g.owned = owned
  BY <1>0, <1>1 DEF Fences
<1>3. /\ \A x \in Hosts : x # h => Alive(g, x) = Alive(f, x)
      /\ Alive(g, h) = Alive(f, h) \ held
  BY <1>0, <1>2 DEF Alive, ClaimsOf
<1>4. \A c, d \in held : c = d
  BY <1>0 DEF ClaimsOf, OneClaimEach
<1>5. OneClaimEach(g)
  BY <1>0, <1>2 DEF OneClaimEach
<1>6. CASE \E c \in held : c.active
  <2>1. PICK c \in held : c.active
    BY <1>6
  <2>2. held = {c} /\ c \in Alive(f, h)
    BY <1>4, <2>1 DEF ClaimsOf, Alive
  <2>3. IsFiniteSet(Alive(f, h))
    BY <1>0, FS_Subset DEF Alive
  <2>4. Cardinality(Alive(f, h) \ {c}) = Cardinality(Alive(f, h)) - 1
    BY <2>2, <2>3, FS_RemoveElement
  <2>5. Cardinality(Alive(f, h)) \in Nat /\ Cardinality(Alive(f, h) \ {c}) \in Nat
    BY <2>3, FS_CardinalityType, FS_Subset
  <2>6. f.counts[h] >= 1 /\ Cardinality(Alive(g, h)) = f.counts[h] - 1
    <3> DEFINE n == Cardinality(Alive(f, h))
    <3> HIDE DEF g, held, n
    <3>1. Cardinality(Alive(g, h)) = n - 1 /\ n \in Nat /\ n - 1 \in Nat
      BY <1>3, <2>2, <2>4, <2>5 DEF n
    <3>2. f.counts[h] = n
      BY <1>0 DEF n
    <3> QED
      BY <3>1, <3>2
  <2>7. Fenced(f, h)
    BY <1>0, <2>6 DEF Fenced
  <2>8. r = IF teardown THEN Arm(less, h) ELSE less
    BY <1>6, <2>7 DEF Release
  <2> HIDE DEF g, held, owned, r
  <2>9. /\ less \in Fences /\ less.owned = owned /\ less.torn = f.torn
        /\ \A x \in Hosts \ {h} : less.counts[x] = f.counts[x]
        /\ less.counts[h] = f.counts[h] - 1
    BY <1>2, <2>6, UncountFence
  <2> HIDE DEF less
  <2>10. LatchesBounded(less)
    BY <1>0, <2>9 DEF LatchesBounded
  <2>11. /\ Arm(less, h) \in Fences /\ LatchesBounded(Arm(less, h))
         /\ Arm(less, h).counts = less.counts /\ Arm(less, h).owned = owned
         /\ h \in ToSet(Arm(less, h).torn)
    BY <2>9, <2>10, ArmLatch
  <2>12. /\ r \in Fences /\ LatchesBounded(r) /\ r.counts = less.counts /\ r.owned = owned
         /\ teardown => h \in ToSet(r.torn)
         /\ ~teardown => r.torn = f.torn
    BY <2>8, <2>9, <2>10, <2>11
  <2>13. \A x \in Hosts : Alive(r, x) = Alive(g, x)
    BY <1>2, <2>12 DEF Alive
  <2>14. \A x \in Hosts : r.counts[x] = Cardinality(Alive(r, x))
    <3> TAKE x \in Hosts
    <3>1. CASE x = h
      BY <3>1, <2>6, <2>9, <2>12, <2>13
    <3>2. CASE x # h
      BY <3>2, <1>0, <1>3, <2>9, <2>12, <2>13
    <3> QED
      BY <3>1, <3>2
  <2>15. FenceOK(r)
    <3>1. Counted(r)
      BY <2>14 DEF Counted, Alive
    <3>2. OneClaimEach(r)
      BY <1>2, <1>5, <2>12 DEF OneClaimEach
    <3> QED
      BY <1>1, <2>12, <3>1, <3>2 DEF FenceOK
  <2>16. Elsewhere(f, r, h)
    BY <2>12 DEF Elsewhere, owned, held, ClaimsOf
  <2>17. h \in ToSet(f.torn) => h \in ToSet(r.torn)
    BY <2>12
  <2> QED
    BY <2>7, <2>12, <2>15, <2>16, <2>17 DEF r, owned, held
<1>7. CASE ~\E c \in held : c.active
  <2>1. r = g
    BY <1>7 DEF Release
  <2>2. Alive(g, h) = Alive(f, h)
    BY <1>3, <1>7 DEF Alive
  <2>3. \A x \in Hosts : g.counts[x] = Cardinality(Alive(g, x))
    BY <1>0, <1>2, <1>3, <2>2
  <2>4. FenceOK(g)
    <3>1. Counted(g)
      BY <2>3 DEF Counted, Alive
    <3>2. LatchesBounded(g)
      BY <1>0, <1>2 DEF LatchesBounded
    <3> QED
      BY <1>1, <1>2, <1>5, <3>1, <3>2 DEF FenceOK
  <2>5. Elsewhere(f, g, h)
    BY <1>2 DEF Elsewhere, ClaimsOf
  <2>6. Fenced(g, h) => Fenced(f, h)
    BY <1>2 DEF Fenced
  <2> QED
    BY <1>2, <1>7, <2>1, <2>4, <2>5, <2>6
<1> QED
  BY <1>6, <1>7

(* `acquire_owned' for a session that holds no claim: the claim is added,   *)
(* and counts, and answers for the latch, unless its connection is gone.    *)
LEMMA AcquireFence ==
  ASSUME NEW f, FenceOK(f), NEW h \in Hosts, NEW o \in Owners, NEW s \in Nat, NEW n \in Nat,
         NEW seen, ClaimsOf(f, h, o, s) = {}
  PROVE  LET r == Acquire(f, h, o, s, n, seen)
             g == Retire(f, h, seen)
             claim == [host |-> h, owner |-> o, session |-> s, conn |-> n, active |-> n \notin seen]
         IN  /\ FenceOK(r) /\ Elsewhere(f, r, h)
             /\ r.owned = g.owned \cup {claim}
             /\ n \in seen => r.torn = g.torn /\ (Fenced(r, h) => Fenced(f, h))
<1> DEFINE g == Retire(f, h, seen)
           claim == [host |-> h, owner |-> o, session |-> s, conn |-> n, active |-> n \notin seen]
           owned == g.owned \cup {claim}
           r == Acquire(f, h, o, s, n, seen)
           d == Disarm(g, h)
<1>1. /\ FenceOK(g) /\ Elsewhere(f, g, h) /\ (Fenced(g, h) => Fenced(f, h))
      /\ \A c \in g.owned : \E e \in f.owned : SameClaim(c, e)
  <2>1. FenceOK(g)
    BY RetireFence
  <2>2. /\ Elsewhere(f, g, h) /\ (Fenced(g, h) => Fenced(f, h))
        /\ \A c \in g.owned :
             c \in f.owned \/ (~c.active /\ c.conn \in seen /\ \E e \in f.owned : SameClaim(c, e))
    BY RetireClaims
  <2> HIDE DEF g
  <2>3. \A c \in g.owned : \E e \in f.owned : SameClaim(c, e)
    BY <2>2 DEF SameClaim
  <2> QED
    BY <2>1, <2>2, <2>3
<1>2. ClaimsOf(g, h, o, s) = {}
  <2> HIDE DEF g
  <2> QED
    BY <1>1 DEF ClaimsOf, SameClaim
<1>3. r = IF n \in seen THEN [g EXCEPT !.owned = @ \cup {claim}]
          ELSE [d EXCEPT !.owned = @ \cup {claim}, !.counts[h] = @ + 1]
  <2>1. claim.active = (n \notin seen)
    OBVIOUS
  <2>2. r = IF ~claim.active THEN [g EXCEPT !.owned = @ \cup {claim}]
            ELSE [d EXCEPT !.owned = @ \cup {claim}, !.counts[h] = @ + 1]
    BY <1>2, Zenon DEF Acquire
  <2> QED
    BY <2>1, <2>2
<1>4. /\ claim \in Claims /\ claim.host = h /\ claim.owner = o /\ claim.session = s
      /\ claim.active = (n \notin seen)
  BY DEF Claims
<1> HIDE DEF g, claim, owned
<1>5. /\ g \in Fences /\ IsFiniteSet(g.owned) /\ g.owned \in SUBSET Claims
      /\ g.counts \in [Hosts -> Nat] /\ g.torn \in Seq(Hosts)
      /\ OneClaimEach(g) /\ LatchesBounded(g)
      /\ \A x \in Hosts : g.counts[x] = Cardinality(Alive(g, x)) /\ IsFiniteSet(Alive(g, x))
  BY <1>1, FS_Subset DEF FenceOK, Fences, Counted, Alive
<1>6. /\ owned = g.owned \cup {claim} /\ IsFiniteSet(owned) /\ owned \in SUBSET Claims
  BY <1>4, <1>5, FS_AddElement DEF owned
<1>7. \A c, e \in owned : c.host = e.host /\ c.owner = e.owner /\ c.session = e.session => c = e
  BY <1>2, <1>4, <1>5, <1>6 DEF OneClaimEach, ClaimsOf
<1>8. \A c \in Claims : c.host # h => (c \in owned <=> c \in f.owned)
  BY <1>1, <1>4, <1>6 DEF Elsewhere
<1>9. CASE n \in seen
  <2>1. r = [counts |-> g.counts, torn |-> g.torn, owned |-> owned]
    <3>1. r = [g EXCEPT !.owned = @ \cup {claim}]
      BY <1>3, <1>9
    <3>2. r = [g EXCEPT !.owned = owned]
      BY <1>6, <3>1
    <3> QED
      BY <1>5, <3>2 DEF Fences
  <2> HIDE DEF r
  <2>2. \A x \in Hosts : Alive(r, x) = Alive(g, x)
    BY <1>4, <1>6, <1>9, <2>1 DEF Alive
  <2>3. FenceOK(r)
    <3>1. Counted(r)
      <4>1. \A x \in Hosts : r.counts[x] = Cardinality(Alive(r, x))
        BY <1>5, <2>1, <2>2
      <4> QED
        BY <4>1 DEF Counted, Alive
    <3>2. r \in Fences /\ LatchesBounded(r) /\ OneClaimEach(r)
      BY <1>5, <1>6, <1>7, <2>1 DEF Fences, LatchesBounded, OneClaimEach
    <3> QED
      BY <1>6, <2>1, <3>1, <3>2 DEF FenceOK
  <2>4. Elsewhere(f, r, h)
    BY <1>8, <2>1 DEF Elsewhere
  <2>5. Fenced(r, h) => Fenced(f, h)
    BY <1>1, <2>1 DEF Fenced
  <2> QED
    BY <1>6, <2>1, <2>3, <2>4, <2>5 DEF r, g, claim
<1>10. CASE n \notin seen
  <2>1. /\ d \in Fences /\ LatchesBounded(d) /\ d.counts = g.counts /\ d.owned = g.owned
    BY <1>5, DisarmLatch
  <2> HIDE DEF d
  <2> DEFINE counts == [g.counts EXCEPT ![h] = @ + 1]
  <2>2. r = [counts |-> counts, torn |-> d.torn, owned |-> owned]
    <3>1. r = [d EXCEPT !.owned = @ \cup {claim}, !.counts[h] = @ + 1]
      BY <1>3, <1>10
    <3>2. [d EXCEPT !.owned = @ \cup {claim}, !.counts[h] = @ + 1] =
            [d EXCEPT !.owned = owned, !.counts = counts]
      BY <1>5, <1>6, <2>1 DEF Fences
    <3> QED
      BY <2>1, <3>1, <3>2 DEF Fences
  <2>3. /\ counts \in [Hosts -> Nat] /\ counts[h] = g.counts[h] + 1
        /\ \A x \in Hosts : x # h => counts[x] = g.counts[x]
    BY <1>5
  <2> HIDE DEF r, counts
  <2>4. \A x \in Hosts : r.counts[x] = Cardinality(Alive(r, x))
    <3> TAKE x \in Hosts
    <3>1. CASE x = h
      <4>1. Alive(r, h) = Alive(g, h) \cup {claim} /\ claim \notin Alive(g, h)
        BY <1>2, <1>4, <1>6, <1>10, <2>2 DEF Alive, ClaimsOf
      <4>2. Cardinality(Alive(g, h) \cup {claim}) = Cardinality(Alive(g, h)) + 1
        BY <1>5, <4>1, FS_AddElement
      <4> QED
        BY <1>5, <2>2, <2>3, <3>1, <4>1, <4>2
    <3>2. CASE x # h
      <4>1. Alive(r, x) = Alive(g, x)
        BY <1>4, <1>6, <2>2, <3>2 DEF Alive
      <4> QED
        BY <1>5, <2>2, <2>3, <3>2, <4>1
    <3> QED
      BY <3>1, <3>2
  <2>5. FenceOK(r)
    <3>1. Counted(r)
      BY <2>4 DEF Counted, Alive
    <3>2. r \in Fences /\ LatchesBounded(r) /\ OneClaimEach(r)
      BY <1>6, <1>7, <2>1, <2>2, <2>3 DEF Fences, LatchesBounded, OneClaimEach
    <3> QED
      BY <1>6, <2>2, <3>1, <3>2 DEF FenceOK
  <2>6. Elsewhere(f, r, h)
    BY <1>8, <2>2 DEF Elsewhere
  <2> QED
    BY <1>6, <1>10, <2>2, <2>5, <2>6 DEF r, g, claim
<1> QED
  BY <1>9, <1>10

(* `consume_teardown' after it has retired. *)
LEMMA SpendFence ==
  ASSUME NEW f, FenceOK(f), NEW h \in Hosts
  PROVE  LET r == Spend(f, h)
         IN  /\ FenceOK(r) /\ Elsewhere(f, r, h) /\ r.owned = f.owned
             /\ Fenced(r, h) => Fenced(f, h)
             /\ ~Owes(f, h) => r = f
<1> DEFINE r == Disarm(f, h)
<1>1. CASE Owes(f, h)
  <2>1. /\ r \in Fences /\ LatchesBounded(r) /\ r.counts = f.counts /\ r.owned = f.owned
    BY DisarmLatch DEF FenceOK
  <2>2. Spend(f, h) = r
    BY <1>1 DEF Spend
  <2> HIDE DEF r
  <2>3. FenceOK(r)
    BY <2>1 DEF FenceOK, Counted, OneClaimEach
  <2>4. Elsewhere(f, r, h) /\ (Fenced(r, h) => Fenced(f, h))
    BY <2>1 DEF Elsewhere, Fenced
  <2> QED
    BY <1>1, <2>1, <2>2, <2>3, <2>4
<1>2. CASE ~Owes(f, h)
  BY <1>2 DEF Spend, Elsewhere
<1> QED
  BY <1>1, <1>2

----------------------------------------------------------------------------
(* The inductive invariant.                                                 *)

LEMMA InitIInv == Init => IInv
<1> SUFFICES ASSUME Init PROVE IInv
  OBVIOUS
<1> USE DEF Init
<1>1. /\ NewFence \in Fences /\ NewFence.owned = {} /\ NewFence.torn = <<>>
      /\ NewFence.counts = [h \in Hosts |-> 0]
  BY DEF NewFence, Fences
<1>2. FenceOK(NewFence)
  <2>1. \A h \in Hosts : {c \in NewFence.owned : c.host = h /\ c.active} = {}
    BY <1>1
  <2>2. Cardinality({}) = 0 /\ IsFiniteSet({})
    BY FS_EmptySet
  <2>3. Counted(NewFence)
    BY <1>1, <2>1, <2>2 DEF Counted
  <2>4. LatchesBounded(NewFence)
    BY <1>1, CapacityAssumption DEF LatchesBounded, IsInjective
  <2> QED
    BY <1>1, <2>2, <2>3, <2>4 DEF FenceOK, OneClaimEach
<1>3. Rest \in Applying /\ Rest.at = "rest" /\ Rest.since = {} /\ NewSession \in SessionStates
  BY DEF Rest, Applying, NewSession, SessionStates
<1>4. TypeOK
  BY <1>1, <1>3, BoundAssumption DEF TypeOK, Conns, NoConn
<1>5. ClaimsMatchSessions /\ ConnectionsOK
  BY <1>1, <1>3 DEF ClaimsMatchSessions, ConnectionsOK, NoConn
<1>6. KeysOK
  BY <1>3 DEF KeysOK
<1>7. OwedCovered /\ SpaceUnfenced /\ LostOnce
  BY <1>3 DEF OwedCovered, SpaceUnfenced, LostOnce
<1> QED
  BY <1>2, <1>4, <1>5, <1>6, <1>7 DEF IInv

(* A worker that serves a request, or has a key in hand, serves a           *)
(* connection of a host.                                                    *)
LEMMA ServesHost ==
  ASSUME IInv, NEW w \in Owners, conn[w] # NoConn \/ busy[w].at # "rest"
  PROVE  /\ host[w] \in Hosts /\ conn[w] \in Conns
         /\ \A c \in fence.owned : c.owner = w => c.conn = conn[w] /\ c.host = host[w]
BY DEF IInv, TypeOK, ConnectionsOK, ClaimsMatchSessions

(* Losses stay covered when a method touches the worker's own host only and *)
(* covers those left there.                                                 *)
LEMMA OwedStep ==
  ASSUME IInv, NEW w \in Owners, NEW cs \in SUBSET Readings, StillOwed(w, cs),
         FenceOK(fence'), Elsewhere(fence, fence', host[w]),
         \A c \in cs : c.host = host[w] =>
                         c.host \in ToSet(fence'.torn) \/ c \in Counting(fence'),
         \A c \in cs : c.host # host[w] => c \in owed
  PROVE  OwedCovered'
<1>1. SUFFICES ASSUME NEW c \in owed' PROVE c.host \in ToSet(fence'.torn) \/ c \in Counting(fence')
  BY DEF OwedCovered
<1>2. c \in cs /\ (c.host \in GivenUp(w) => c \in Counting(fence'))
  BY DEF StillOwed
<1>3. CASE c.host = host[w]
  BY <1>2, <1>3
<1>4. CASE c.host # host[w]
  <2>1. c.host \in ToSet(fence.torn) \/ c \in Counting(fence)
    BY <1>2, <1>4 DEF IInv, OwedCovered
  <2>2. CASE c \in Counting(fence)
    BY <1>4, <2>2, CountingElsewhere DEF IInv
  <2>3. CASE c.host \in ToSet(fence.torn)
    BY <1>2, <1>4, <2>3 DEF GivenUp
  <2> QED
    BY <2>1, <2>2, <2>3
<1> QED
  BY <1>3, <1>4

(* What was owed when a Space came stays uncounted when no method fences a  *)
(* host that is still owed.                                                 *)
LEMMA UnfencedStep ==
  ASSUME IInv, TypeOK', FenceOK(fence'), OwedCovered', host' = host,
         \A v \in Owners : \A c \in busy'[v].since \cap owed' :
           \/ c \in busy[v].since /\ c \in owed
           \/ c.host = host[v] /\ ~Fenced(fence', c.host),
         \A c \in owed \cap owed' : Fenced(fence', c.host) => Fenced(fence, c.host)
  PROVE  SpaceUnfenced'
<1>1. SUFFICES ASSUME NEW v \in Owners, NEW c \in busy'[v].since, c \in owed'
               PROVE  c.host = host'[v] /\ c.host \in ToSet(fence'.torn) /\ ~Fenced(fence', c.host)
  BY DEF SpaceUnfenced
<1>2. c.host = host[v] /\ ~Fenced(fence', c.host)
  BY <1>1 DEF IInv, SpaceUnfenced
<1>3. c.host \in ToSet(fence'.torn) \/ c \in Counting(fence')
  BY <1>1 DEF OwedCovered
<1> QED
  BY <1>1, <1>2, <1>3, CountingFences

(* The claims after a method that has only retired.                         *)
LEMMA ClaimsStep ==
  ASSUME IInv, NEW w \in Owners, NEW seen \in SUBSET gone, host[w] \in Hosts,
         fence'.owned = Retire(fence, host[w], seen).owned,
         UNCHANGED <<conn, host, gone, live, claimed>>
  PROVE  ClaimsMatchSessions' /\ (\A c \in fence'.owned : ~c.active => c.conn \in gone')
<1> DEFINE r == Retire(fence, host[w], seen)
<1>1. /\ \A c \in r.owned :
           c \in fence.owned \/ (c.conn \in seen /\ \E d \in fence.owned : SameClaim(c, d))
      /\ \A d \in fence.owned : d \in r.owned \/ \E c \in r.owned : SameClaim(c, d)
  BY RetireClaims DEF IInv
<1> HIDE DEF r
<1>2. \A c \in r.owned : ~c.active => c.conn \in gone
  BY <1>1 DEF IInv, ConnectionsOK
<1>3. \A c \in r.owned :
        c.host = host[c.owner] /\ c.conn = conn[c.owner] /\ c.session \in claimed[c.owner]
  BY <1>1 DEF IInv, ClaimsMatchSessions, SameClaim
<1>4. \A v \in Owners : \A s \in claimed[v] :
        s \in live[v] /\ \E c \in r.owned : c.owner = v /\ c.session = s
  BY <1>1 DEF IInv, ClaimsMatchSessions, SameClaim
<1> QED
  BY <1>2, <1>3, <1>4 DEF ClaimsMatchSessions, r

----------------------------------------------------------------------------
(* One lemma for each step.                                                 *)

LEMMA ConnectStep ==
  ASSUME IInv, NEW w \in Owners, NEW h \in Hosts, Connect(w, h), Quiet
  PROVE  IInv'
<1> USE DEF Connect, Quiet
<1>1. /\ TypeOK /\ ClaimsMatchSessions /\ ConnectionsOK /\ KeysOK
  BY DEF IInv
<1>2. TypeOK'
  BY <1>1, BoundAssumption DEF TypeOK, Conns
<1>3. /\ nextConn \in Nat /\ nextConn > 0 /\ conn'[w] = nextConn /\ host'[w] = h
      /\ live[w] = {} /\ claimed[w] = {} /\ busy[w].at = "rest" /\ busy[w].since = {}
      /\ \A v \in Owners : v # w => conn'[v] = conn[v] /\ host'[v] = host[v]
  BY <1>1, BoundAssumption DEF TypeOK, ConnectionsOK, ClaimsMatchSessions, KeysOK
<1>4. \A c \in fence.owned : c.owner # w /\ c.owner \in Owners
  BY <1>1, <1>3 DEF ClaimsMatchSessions, TypeOK, Fences, Claims
<1>5. ClaimsMatchSessions'
  BY <1>1, <1>3, <1>4 DEF ClaimsMatchSessions
<1>6. ConnectionsOK'
  BY <1>1, <1>3, BoundAssumption DEF ConnectionsOK, TypeOK, NoConn, Conns
<1>7. KeysOK'
  BY <1>1 DEF KeysOK
<1>8. OwedCovered' /\ SpaceUnfenced'
  <2>1. OwedCovered'
    BY DEF IInv, OwedCovered
  <2>2. \A v \in Owners : busy[v].since # {} => host'[v] = host[v]
    BY <1>3
  <2> QED
    BY <2>1, <2>2 DEF IInv, SpaceUnfenced
<1>9. LostOnce'
  <2>1. \A v \in Owners : live[v] # {} => conn'[v] = conn[v]
    BY <1>3
  <2>2. \A c \in owed \cup UNION {busy[v].since : v \in Owners} : c.owner \in Owners
    BY <1>1 DEF TypeOK, Readings, Applying
  <2> QED
    BY <2>1, <2>2 DEF IInv, LostOnce
<1>10. FenceOK(fence')
  BY DEF IInv
<1> QED
  BY <1>2, <1>5, <1>6, <1>7, <1>8, <1>9, <1>10 DEF IInv

LEMMA CreateSessionStep ==
  ASSUME IInv, NEW w \in Owners, CreateSession(w), Quiet
  PROVE  IInv'
<1> USE DEF CreateSession, Quiet, Answer, Served
<1> DEFINE n == nextId[w]
<1>1. /\ TypeOK /\ ClaimsMatchSessions /\ ConnectionsOK /\ KeysOK
  BY DEF IInv
<1>2. /\ n \in Sessions /\ n \notin live[w] /\ n \notin claimed[w] /\ NewSession \in SessionStates
  BY <1>1, BoundAssumption
     DEF TypeOK, Sessions, ConnectionsOK, ClaimsMatchSessions, NewSession, SessionStates
<1>3. /\ live'[w] = live[w] \cup {n} /\ nextId'[w] = n + 1
      /\ \A v \in Owners : v # w => live'[v] = live[v] /\ nextId'[v] = nextId[v] /\ sess'[v] = sess[v]
      /\ \A s \in Sessions : s # n => sess'[w][s] = sess[w][s]
  BY <1>1 DEF TypeOK
<1>4. TypeOK'
  <2>1. sess' \in [Owners -> [Sessions -> SessionStates]]
    BY <1>1, <1>2 DEF TypeOK
  <2>2. nextId' \in [Owners -> 1..(MaxSession + 1)] /\ live' \in [Owners -> SUBSET Sessions]
    BY <1>1, <1>2, BoundAssumption DEF TypeOK, Sessions
  <2> QED
    BY <1>1, <2>1, <2>2 DEF TypeOK
<1>5. ClaimsMatchSessions'
  BY <1>1, <1>3 DEF ClaimsMatchSessions
<1>6. ConnectionsOK'
  <2>1. \A v \in Owners : \A s \in live'[v] : s < nextId'[v]
    BY <1>1, <1>2, <1>3, BoundAssumption DEF ConnectionsOK, TypeOK, Sessions
  <2> QED
    BY <1>1, <1>3, <2>1 DEF ConnectionsOK
<1>7. KeysOK'
  <2>1. \A v \in Owners : busy[v].at # "rest" =>
           /\ busy[v].session \in live'[v]
           /\ sess'[v][busy[v].session] = sess[v][busy[v].session]
    BY <1>1, <1>3 DEF KeysOK
  <2> QED
    BY <1>1, <2>1 DEF KeysOK
<1>8. OwedCovered' /\ SpaceUnfenced'
  BY DEF IInv, OwedCovered, SpaceUnfenced
<1>9. LostOnce'
  <2>1. \A c \in owed \cup UNION {busy[v].since : v \in Owners} :
           c.owner \in Owners /\ c.session \in Nat /\ nextId[c.owner] \in Nat /\ n \in Nat
    BY <1>1, BoundAssumption DEF TypeOK, Readings, Applying, Sessions
  <2> QED
    BY <1>3, <2>1 DEF IInv, LostOnce
<1>10. FenceOK(fence')
  BY DEF IInv
<1> QED
  BY <1>4, <1>5, <1>6, <1>7, <1>8, <1>9, <1>10 DEF IInv

LEMMA ChangesStep ==
  ASSUME IInv, NEW w \in Owners, NEW s \in live[w], NEW x \in SessionStates, Changes(w, s, x), Quiet
  PROVE  IInv'
<1> USE DEF Changes, Quiet, Answer, Served
<1>1. /\ TypeOK /\ ClaimsMatchSessions /\ ConnectionsOK /\ KeysOK
  BY DEF IInv
<1>2. TypeOK'
  BY <1>1 DEF TypeOK
<1>3. ClaimsMatchSessions' /\ ConnectionsOK'
  BY <1>1 DEF ClaimsMatchSessions, ConnectionsOK
<1>4. KeysOK'
  <2>1. \A v \in Owners : busy[v].at # "rest" => sess'[v] = sess[v]
    BY <1>1 DEF TypeOK
  <2> QED
    BY <1>1, <2>1 DEF KeysOK
<1>5. OwedCovered' /\ SpaceUnfenced' /\ LostOnce'
  BY DEF IInv, OwedCovered, SpaceUnfenced, LostOnce
<1>6. FenceOK(fence')
  BY DEF IInv
<1> QED
  BY <1>2, <1>3, <1>4, <1>5, <1>6 DEF IInv

LEMMA UnknownSessionStep ==
  ASSUME IInv, NEW w \in Owners, UnknownSession(w), Quiet
  PROVE  IInv'
<1> USE DEF UnknownSession, Quiet, Answer
<1>1. TypeOK'
  BY DEF IInv, TypeOK
<1>2. ClaimsMatchSessions' /\ ConnectionsOK' /\ KeysOK'
  BY DEF IInv, ClaimsMatchSessions, ConnectionsOK, KeysOK
<1>3. OwedCovered' /\ SpaceUnfenced' /\ LostOnce'
  BY DEF IInv, OwedCovered, SpaceUnfenced, LostOnce
<1>4. FenceOK(fence')
  BY DEF IInv
<1> QED
  BY <1>1, <1>2, <1>3, <1>4 DEF IInv

LEMMA DropStep ==
  ASSUME IInv, NEW w \in Owners, NEW pending \in BOOLEAN, Drop(w, pending), Quiet
  PROVE  IInv'
<1> DEFINE lost == {Claim(w, s) : s \in {t \in claimed[w] : sess[w][t].reading}}
<1>1. /\ TypeOK /\ ClaimsMatchSessions /\ ConnectionsOK /\ KeysOK
  BY DEF IInv
<1>2. /\ conn[w] # NoConn /\ conn[w] \notin gone /\ gone' = gone \cup {conn[w]}
      /\ late' \subseteq late \cup {conn[w]} /\ owed' = owed \cup lost
      /\ inserted' = {}
      /\ UNCHANGED <<fence, conn, host, nextConn, nextId, live, sess, claimed, busy>>
  BY DEF Drop, Quiet
<1>3. host[w] \in Hosts /\ conn[w] \in Conns
  BY <1>2, ServesHost
<1>4. \A c \in lost : /\ c \in Readings /\ c.host = host[w] /\ c.owner = w
                       /\ c.session \in claimed[w] /\ c \in Counting(fence)
  <2>1. SUFFICES ASSUME NEW s \in claimed[w]
                 PROVE  Claim(w, s) \in Readings /\ Claim(w, s) \in Counting(fence)
    BY DEF Claim
  <2>2. PICK c \in fence.owned : c.owner = w /\ c.session = s
    BY <1>1 DEF ClaimsMatchSessions
  <2>3. c.host = host[w] /\ c.conn = conn[w]
    BY <1>1, <2>2 DEF ClaimsMatchSessions
  <2>4. c.active
    BY <1>1, <1>2, <2>3 DEF ConnectionsOK, TypeOK, Fences, Claims
  <2>5. Claim(w, s) = [host |-> c.host, owner |-> c.owner, session |-> c.session]
    BY <2>2, <2>3 DEF Claim
  <2> QED
    BY <1>1, <1>3, <2>4, <2>5 DEF Counting, Claim, Readings, TypeOK
<1> HIDE DEF lost
<1>5. TypeOK'
  <2>1. gone' \subseteq Conns /\ late' \subseteq gone' /\ owed' \subseteq Readings
    BY <1>1, <1>2, <1>3, <1>4 DEF TypeOK
  <2> QED
    BY <1>1, <1>2, <2>1 DEF TypeOK
<1>6. ClaimsMatchSessions'
  BY <1>1, <1>2 DEF ClaimsMatchSessions
<1>7. ConnectionsOK'
  BY <1>1, <1>2 DEF ConnectionsOK
<1>8. KeysOK'
  BY <1>1, <1>2 DEF KeysOK
<1>9. OwedCovered'
  BY <1>2, <1>4 DEF IInv, OwedCovered
<1>10. SpaceUnfenced'
  <2>1. \A v \in Owners : \A c \in busy[v].since : c \notin lost
    <3> SUFFICES ASSUME NEW v \in Owners, NEW c \in busy[v].since, c \in lost PROVE FALSE
      OBVIOUS
    <3>1. c.session \in live[c.owner] /\ c.owner = w
      BY <1>1, <1>4 DEF ClaimsMatchSessions
    <3>2. conn[c.owner] \in gone
      BY <3>1 DEF IInv, LostOnce
    <3> QED
      BY <1>2, <3>1, <3>2
  <2> QED
    BY <1>2, <2>1 DEF IInv, SpaceUnfenced
<1>11. LostOnce'
  <2>1. \A c \in lost : c.session < nextId[c.owner] /\ conn[c.owner] \in gone'
    BY <1>1, <1>2, <1>4 DEF ClaimsMatchSessions, ConnectionsOK
  <2> QED
    BY <1>2, <2>1 DEF IInv, LostOnce
<1>12. FenceOK(fence')
  BY <1>2 DEF IInv
<1> QED
  BY <1>5, <1>6, <1>7, <1>8, <1>9, <1>10, <1>11, <1>12 DEF IInv

LEMMA ResetStep ==
  ASSUME IInv, NEW w \in Owners, Reset(w), Quiet
  PROVE  IInv'
<1> USE DEF Reset, Quiet, Closed
<1>1. /\ TypeOK /\ ClaimsMatchSessions /\ ConnectionsOK /\ KeysOK
  BY DEF IInv
<1>2. /\ claimed[w] = {} /\ live'[w] = {} /\ busy[w].at = "rest" /\ busy[w].since = {}
      /\ conn'[w] = NoConn
      /\ \A v \in Owners : v # w => /\ live'[v] = live[v] /\ sess'[v] = sess[v]
                                    /\ conn'[v] = conn[v] /\ host'[v] = host[v]
  BY <1>1 DEF TypeOK, KeysOK
<1>3. \A c \in fence.owned : c.owner # w /\ c.owner \in Owners
  BY <1>1, <1>2 DEF ClaimsMatchSessions, TypeOK, Fences, Claims
<1>4. TypeOK'
  <2>1. NewSession \in SessionStates
    BY DEF NewSession, SessionStates
  <2> QED
    BY <1>1, <2>1 DEF TypeOK
<1>5. ClaimsMatchSessions'
  BY <1>1, <1>2, <1>3 DEF ClaimsMatchSessions
<1>6. ConnectionsOK'
  <2>1. NoConn < nextConn
    BY <1>1, BoundAssumption DEF TypeOK, NoConn
  <2> QED
    BY <1>1, <1>2, <1>3, <2>1 DEF ConnectionsOK
<1>7. KeysOK'
  BY <1>1, <1>2 DEF KeysOK
<1>8. OwedCovered' /\ SpaceUnfenced'
  BY <1>2 DEF IInv, OwedCovered, SpaceUnfenced
<1>9. LostOnce'
  <2>1. \A c \in owed \cup UNION {busy[v].since : v \in Owners} : c.owner \in Owners
    BY <1>1 DEF TypeOK, Readings, Applying
  <2> QED
    BY <1>2, <2>1 DEF IInv, LostOnce
<1>10. FenceOK(fence')
  BY DEF IInv
<1> QED
  BY <1>4, <1>5, <1>6, <1>7, <1>8, <1>9, <1>10 DEF IInv

(* What every end of a claim has in common, whether it is torn down or not. *)
LEMMA ClaimEnds ==
  ASSUME IInv, NEW w \in Owners, conn[w] # NoConn, NEW s, NEW teardown \in BOOLEAN,
         fence' = (IF s \in claimed[w] THEN Release(fence, host[w], w, s, teardown) ELSE fence),
         claimed' = [claimed EXCEPT ![w] = @ \ {s}], UNCHANGED <<conn, host, gone>>,
         \A v \in Owners : \A t \in claimed'[v] : t \in live'[v]
  PROVE  /\ FenceOK(fence') /\ ClaimsMatchSessions'
         /\ \A c \in fence'.owned : ~c.active => c.conn \in gone'
         /\ Elsewhere(fence, fence', host[w])
         /\ \A x \in Hosts : Fenced(fence', x) => Fenced(fence, x)
<1>1. host[w] \in Hosts
  BY ServesHost
<1>2. FenceOK(fence) /\ TypeOK /\ ClaimsMatchSessions /\ ConnectionsOK
  BY DEF IInv
<1>3. /\ \A v \in Owners : v # w => claimed'[v] = claimed[v]
      /\ claimed'[w] = claimed[w] \ {s}
      /\ \A c \in fence.owned : c.owner \in Owners
  BY <1>2 DEF TypeOK, Fences, Claims
<1>4. CASE s \in claimed[w]
  <2> DEFINE held == ClaimsOf(fence, host[w], w, s)
  <2>1. /\ FenceOK(fence') /\ Elsewhere(fence, fence', host[w])
        /\ fence'.owned = fence.owned \ held
        /\ Fenced(fence', host[w]) => Fenced(fence, host[w])
    BY <1>1, <1>2, <1>4, ReleaseFence
  <2>2. \A x \in Hosts : Fenced(fence', x) => Fenced(fence, x)
    BY <1>2, <2>1, CountsElsewhere
  <2>3. \A c \in fence.owned : c \in held <=> c.owner = w /\ c.session = s
    BY <1>2 DEF ClaimsOf, ClaimsMatchSessions
  <2> HIDE DEF held
  <2>4. ClaimsMatchSessions'
    <3>1. \A c \in fence'.owned : c.session \in claimed'[c.owner]
      BY <1>2, <1>3, <2>1, <2>3 DEF ClaimsMatchSessions
    <3>2. ASSUME NEW v \in Owners, NEW t \in claimed'[v]
          PROVE  \E c \in fence'.owned : c.owner = v /\ c.session = t
      BY <1>2, <1>3, <2>1, <2>3, <3>2 DEF ClaimsMatchSessions
    <3> QED
      BY <1>2, <2>1, <3>1, <3>2 DEF ClaimsMatchSessions
  <2>5. \A c \in fence'.owned : ~c.active => c.conn \in gone'
    BY <1>2, <2>1 DEF ConnectionsOK
  <2> QED
    BY <2>1, <2>2, <2>4, <2>5
<1>5. CASE s \notin claimed[w]
  <2>1. fence' = fence /\ \A v \in Owners : claimed'[v] = claimed[v]
    BY <1>3, <1>5
  <2> QED
    BY <1>2, <2>1 DEF ClaimsMatchSessions, ConnectionsOK, Elsewhere
<1> QED
  BY <1>4, <1>5

(* A claim that is torn down goes from counting to a latch; one whose       *)
(* reading ended by a key takes no other with it.                           *)
LEMMA ReleaseCounting ==
  ASSUME NEW f, FenceOK(f), NEW h \in Hosts, NEW o, NEW s, NEW teardown \in BOOLEAN,
         NEW k \in Counting(f)
  PROVE  LET r == Release(f, h, o, s, teardown)
             ends == k = [host |-> h, owner |-> o, session |-> s]
         IN  /\ ends \/ k \in Counting(r)
             /\ ends /\ teardown => h \in ToSet(r.torn)
<1> DEFINE r == Release(f, h, o, s, teardown)
<1>1. PICK c \in f.owned : c.active /\ k = [host |-> c.host, owner |-> c.owner, session |-> c.session]
  BY DEF Counting
<1>2. /\ r.owned = f.owned \ ClaimsOf(f, h, o, s)
      /\ teardown /\ (\E d \in ClaimsOf(f, h, o, s) : d.active) => h \in ToSet(r.torn)
  BY ReleaseFence
<1> HIDE DEF r
<1>3. CASE c \in ClaimsOf(f, h, o, s)
  BY <1>1, <1>2, <1>3 DEF ClaimsOf, r
<1>4. CASE c \notin ClaimsOf(f, h, o, s)
  <2>1. k # [host |-> h, owner |-> o, session |-> s]
    BY <1>1, <1>4 DEF ClaimsOf
  <2>2. k \in Counting(r)
    BY <1>1, <1>2, <1>4 DEF Counting
  <2> QED
    BY <2>1, <2>2 DEF r
<1> QED
  BY <1>3, <1>4

LEMMA DeleteSessionStep ==
  ASSUME IInv, NEW w \in Owners, NEW s \in live[w], DeleteSession(w, s), Quiet
  PROVE  IInv'
<1> DEFINE lost == s \in claimed[w] /\ conn[w] \notin gone /\ sess[w][s].reading
           cs == owed \cup IF lost THEN {Claim(w, s)} ELSE {}
<1>1. /\ TypeOK /\ ClaimsMatchSessions /\ ConnectionsOK /\ KeysOK /\ FenceOK(fence)
  BY DEF IInv
<1>2. /\ conn[w] # NoConn /\ busy[w].at = "rest"
      /\ fence' = IF s \in claimed[w] THEN Release(fence, host[w], w, s, TRUE) ELSE fence
      /\ live' = [live EXCEPT ![w] = @ \ {s}]
      /\ sess' = [sess EXCEPT ![w][s] = NewSession]
      /\ claimed' = [claimed EXCEPT ![w] = @ \ {s}]
      /\ StillOwed(w, cs) /\ late' \subseteq late /\ inserted' = {}
      /\ UNCHANGED <<conn, host, nextConn, gone, nextId, busy>>
  BY DEF DeleteSession, Served, Answer, Quiet
<1>3. /\ host[w] \in Hosts /\ s \in Sessions /\ NewSession \in SessionStates
      /\ Claim(w, s) \in Readings /\ Claim(w, s).host = host[w]
      /\ Claim(w, s).owner = w /\ Claim(w, s).session = s
  BY <1>1, <1>2, ServesHost DEF TypeOK, NewSession, SessionStates, Claim, Readings
<1>4. lost => Claim(w, s) \in Counting(fence)
  <2> SUFFICES ASSUME lost PROVE Claim(w, s) \in Counting(fence)
    OBVIOUS
  <2>1. PICK c \in fence.owned : c.owner = w /\ c.session = s
    BY <1>1 DEF ClaimsMatchSessions
  <2>2. c.host = host[w] /\ c.conn = conn[w]
    BY <1>1, <2>1 DEF ClaimsMatchSessions
  <2>3. c.active
    BY <1>1, <2>2 DEF ConnectionsOK, TypeOK, Fences, Claims
  <2> QED
    BY <2>1, <2>2, <2>3 DEF Claim, Counting
<1> HIDE DEF lost
<1>5. cs \in SUBSET Readings /\ \A c \in cs : c \in owed \/ (lost /\ c = Claim(w, s))
  BY <1>1, <1>3 DEF TypeOK
<1> HIDE DEF cs
<1>6. owed' \subseteq cs
  BY <1>2 DEF StillOwed
<1>7. /\ \A v \in Owners : v # w => /\ live'[v] = live[v] /\ claimed'[v] = claimed[v]
                                  /\ sess'[v] = sess[v]
      /\ live'[w] = live[w] \ {s} /\ claimed'[w] = claimed[w] \ {s}
  BY <1>1, <1>2 DEF TypeOK
<1>8. /\ FenceOK(fence') /\ ClaimsMatchSessions'
      /\ \A c \in fence'.owned : ~c.active => c.conn \in gone'
      /\ Elsewhere(fence, fence', host[w])
      /\ \A x \in Hosts : Fenced(fence', x) => Fenced(fence, x)
  <2>1. \A v \in Owners : \A t \in claimed'[v] : t \in live'[v]
    BY <1>1, <1>7 DEF ClaimsMatchSessions
  <2>2. TRUE \in BOOLEAN
    OBVIOUS
  <2> QED
    BY <1>2, <2>1, <2>2, ClaimEnds
<1>9. TypeOK'
  <2>1. fence' \in Fences /\ owed' \subseteq Readings
    BY <1>5, <1>6, <1>8 DEF FenceOK
  <2> QED
    BY <1>1, <1>2, <1>3, <2>1 DEF TypeOK
<1>10. ConnectionsOK'
  BY <1>1, <1>2, <1>7, <1>8 DEF ConnectionsOK
<1>11. KeysOK'
  BY <1>1, <1>2, <1>7 DEF KeysOK
<1>12. OwedCovered'
  <2>1. \A c \in cs : c.host = host[w] =>
                      c.host \in ToSet(fence'.torn) \/ c \in Counting(fence')
    <3> SUFFICES ASSUME NEW c \in cs, c.host = host[w]
                 PROVE  c.host \in ToSet(fence'.torn) \/ c \in Counting(fence')
      OBVIOUS
    <3>1. c.host \in ToSet(fence.torn) \/ c \in Counting(fence)
      BY <1>4, <1>5 DEF IInv, OwedCovered
    <3>2. CASE s \in claimed[w]
      <4>1. c.host \in ToSet(fence.torn) => c.host \in ToSet(fence'.torn)
        BY <1>1, <1>2, <1>3, <3>2, ReleaseFence
      <4>2. c \in Counting(fence) => c.host \in ToSet(fence'.torn) \/ c \in Counting(fence')
        <5>1. TRUE \in BOOLEAN
          OBVIOUS
        <5> QED
          BY <1>1, <1>2, <1>3, <3>2, <5>1, ReleaseCounting
      <4> QED
        BY <3>1, <4>1, <4>2
    <3>3. CASE s \notin claimed[w]
      BY <1>2, <3>1, <3>3
    <3> QED
      BY <3>2, <3>3
  <2>2. \A c \in cs : c.host # host[w] => c \in owed
    BY <1>3, <1>5
  <2> QED
    BY <1>2, <1>5, <1>8, <2>1, <2>2, OwedStep
<1>13. SpaceUnfenced'
  <2>1. \A v \in Owners : \A c \in busy'[v].since \cap owed' : c \in busy[v].since /\ c \in owed
    <3> SUFFICES ASSUME NEW v \in Owners, NEW c \in busy[v].since, c \in owed', c \notin owed
                 PROVE  FALSE
      BY <1>2
    <3>1. lost /\ c = Claim(w, s)
      BY <1>5, <1>6
    <3>2. conn[w] \in gone
      BY <1>3, <3>1 DEF IInv, LostOnce
    <3> QED
      BY <3>1, <3>2 DEF lost
  <2>2. \A c \in owed \cap owed' : Fenced(fence', c.host) => Fenced(fence, c.host)
    BY <1>1, <1>8 DEF TypeOK, Readings
  <2> QED
    BY <1>2, <1>8, <1>9, <1>12, <2>1, <2>2, UnfencedStep
<1>14. LostOnce'
  <2>1. \A c \in owed \cup UNION {busy[v].since : v \in Owners} : c.owner \in Owners
    BY <1>1 DEF TypeOK, Readings, Applying
  <2>2. \A v \in Owners : live'[v] \subseteq live[v]
    BY <1>7
  <2>3. s \notin live'[w] /\ s < nextId[w]
    BY <1>1, <1>7 DEF ConnectionsOK
  <2> QED
    BY <1>2, <1>3, <1>5, <1>6, <2>1, <2>2, <2>3 DEF IInv, LostOnce
<1> QED
  BY <1>8, <1>9, <1>10, <1>11, <1>12, <1>13, <1>14 DEF IInv

LEMMA SessionEdits ==
  ASSUME NEW x \in SessionStates, NEW b \in BOOLEAN
  PROVE  /\ [x EXCEPT !.reading = b] \in SessionStates
         /\ [x EXCEPT !.undo = b] \in SessionStates
         /\ [x EXCEPT !.direct = b] \in SessionStates
         /\ [x EXCEPT !.sensitive = b] \in SessionStates
BY DEF SessionStates

LEMMA EndReadingStep ==
  ASSUME IInv, NEW w \in Owners, NEW s \in live[w], EndReading(w, s), Quiet
  PROVE  IInv'
<1> DEFINE cs == owed \ {Claim(w, s)}
<1>1. /\ TypeOK /\ ClaimsMatchSessions /\ ConnectionsOK /\ KeysOK /\ FenceOK(fence)
  BY DEF IInv
<1>2. /\ conn[w] # NoConn /\ busy[w].at = "rest"
      /\ fence' = IF s \in claimed[w] THEN Release(fence, host[w], w, s, FALSE) ELSE fence
      /\ sess' = [sess EXCEPT ![w][s].reading = FALSE]
      /\ claimed' = [claimed EXCEPT ![w] = @ \ {s}]
      /\ owed' = cs /\ late' \subseteq late /\ inserted' = {}
      /\ UNCHANGED <<conn, host, nextConn, gone, nextId, live, busy>>
  BY DEF EndReading, Served, Answer, Quiet
<1>3. host[w] \in Hosts /\ s \in Sessions
  BY <1>1, <1>2, ServesHost DEF TypeOK
<1>4. cs \in SUBSET Readings /\ cs \subseteq owed
  BY <1>1 DEF TypeOK
<1>5. /\ \A v \in Owners : v # w => claimed'[v] = claimed[v] /\ sess'[v] = sess[v]
      /\ claimed'[w] = claimed[w] \ {s}
  BY <1>1, <1>2 DEF TypeOK
<1>6. /\ FenceOK(fence') /\ ClaimsMatchSessions'
      /\ \A c \in fence'.owned : ~c.active => c.conn \in gone'
      /\ Elsewhere(fence, fence', host[w])
      /\ \A x \in Hosts : Fenced(fence', x) => Fenced(fence, x)
  <2>1. \A v \in Owners : \A t \in claimed'[v] : t \in live'[v]
    BY <1>1, <1>2, <1>5 DEF ClaimsMatchSessions
  <2>2. FALSE \in BOOLEAN
    OBVIOUS
  <2> QED
    BY <1>2, <2>1, <2>2, ClaimEnds
<1>7. TypeOK'
  <2>1. fence' \in Fences
    BY <1>6 DEF FenceOK
  <2>2. sess' \in [Owners -> [Sessions -> SessionStates]]
    <3> DEFINE x == [sess[w][s] EXCEPT !.reading = FALSE]
               y == [sess[w] EXCEPT ![s] = x]
    <3>1. sess \in [Owners -> [Sessions -> SessionStates]]
      BY <1>1 DEF TypeOK
    <3>2. x \in SessionStates
      <4>1. sess[w][s] \in SessionStates /\ FALSE \in BOOLEAN
        BY <1>3, <3>1
      <4> QED
        BY <4>1, SessionEdits
    <3>3. sess' = [sess EXCEPT ![w] = y]
      BY <1>2
    <3> HIDE DEF x
    <3>4. y \in [Sessions -> SessionStates]
      BY <1>3, <3>1, <3>2
    <3> HIDE DEF y
    <3> QED
      BY <3>1, <3>3, <3>4
  <2> QED
    BY <1>1, <1>2, <1>4, <2>1, <2>2 DEF TypeOK
<1>8. ConnectionsOK'
  BY <1>1, <1>2, <1>6 DEF ConnectionsOK
<1>9. KeysOK'
  BY <1>1, <1>2, <1>5 DEF KeysOK
<1>10. fence'.torn = fence.torn /\ \A c \in cs : c \in Counting(fence) => c \in Counting(fence')
  <2>1. CASE s \in claimed[w]
    <3>1. FALSE \in BOOLEAN
      OBVIOUS
    <3>2. fence'.torn = fence.torn
      <4>1. \A b \in BOOLEAN : ~b => Release(fence, host[w], w, s, b).torn = fence.torn
        BY <1>1, <1>3, ReleaseFence
      <4> QED
        BY <1>2, <2>1, <4>1
    <3>3. \A c \in cs : c \in Counting(fence) => c \in Counting(fence')
      BY <1>1, <1>2, <1>3, <2>1, <3>1, ReleaseCounting DEF Claim
    <3> QED
      BY <3>2, <3>3
  <2>2. CASE s \notin claimed[w]
    BY <1>2, <2>2
  <2> QED
    BY <2>1, <2>2
<1> HIDE DEF cs
<1>11. OwedCovered'
  BY <1>2, <1>4, <1>10 DEF IInv, OwedCovered
<1>12. SpaceUnfenced'
  <2>1. \A c \in owed \cap owed' : Fenced(fence', c.host) => Fenced(fence, c.host)
    BY <1>1, <1>6 DEF TypeOK, Readings
  <2>2. \A v \in Owners : \A c \in busy'[v].since \cap owed' : c \in busy[v].since /\ c \in owed
    BY <1>2, <1>4
  <2> QED
    BY <1>2, <1>6, <1>7, <1>11, <2>1, <2>2, UnfencedStep
<1>13. LostOnce'
  BY <1>2, <1>4 DEF IInv, LostOnce
<1> QED
  BY <1>6, <1>7, <1>8, <1>9, <1>11, <1>12, <1>13 DEF IInv

LEMMA ReleaseClaimStep ==
  ASSUME IInv, NEW w \in Owners, NEW s \in claimed[w], ReleaseClaim(w, s), Quiet
  PROVE  IInv'
<1>1. /\ TypeOK /\ ClaimsMatchSessions /\ ConnectionsOK /\ KeysOK /\ FenceOK(fence)
  BY DEF IInv
<1>2. /\ conn[w] # NoConn /\ busy[w].at = "rest"
      /\ fence' = Release(fence, host[w], w, s, TRUE)
      /\ claimed' = [claimed EXCEPT ![w] = @ \ {s}]
      /\ StillOwed(w, owed) /\ inserted' = {}
      /\ UNCHANGED <<conn, host, nextConn, gone, late, nextId, live, sess, busy>>
  <2>1. live[w] # {}
    BY <1>1 DEF ClaimsMatchSessions
  <2> QED
    BY <1>1, <2>1 DEF ReleaseClaim, Closed, Quiet, ConnectionsOK
<1>3. host[w] \in Hosts
  BY <1>2, ServesHost
<1>4. owed \in SUBSET Readings /\ owed' \subseteq owed
  BY <1>1, <1>2 DEF TypeOK, StillOwed
<1>5. /\ \A v \in Owners : v # w => claimed'[v] = claimed[v]
      /\ claimed'[w] = claimed[w] \ {s}
  BY <1>1, <1>2 DEF TypeOK
<1>6. /\ FenceOK(fence') /\ ClaimsMatchSessions'
      /\ \A c \in fence'.owned : ~c.active => c.conn \in gone'
      /\ Elsewhere(fence, fence', host[w])
      /\ \A x \in Hosts : Fenced(fence', x) => Fenced(fence, x)
  <2>1. \A v \in Owners : \A t \in claimed'[v] : t \in live'[v]
    BY <1>1, <1>2, <1>5 DEF ClaimsMatchSessions
  <2>2. TRUE \in BOOLEAN
    OBVIOUS
  <2> QED
    BY <1>2, <2>1, <2>2, ClaimEnds
<1>7. TypeOK'
  <2>1. fence' \in Fences
    BY <1>6 DEF FenceOK
  <2> QED
    BY <1>1, <1>2, <1>4, <2>1 DEF TypeOK
<1>8. ConnectionsOK'
  BY <1>1, <1>2, <1>6 DEF ConnectionsOK
<1>9. KeysOK'
  BY <1>1, <1>2, <1>5 DEF KeysOK
<1>10. OwedCovered'
  <2>1. \A c \in owed : c.host = host[w] =>
                        c.host \in ToSet(fence'.torn) \/ c \in Counting(fence')
    <3>1. TRUE \in BOOLEAN
      OBVIOUS
    <3>2. host[w] \in ToSet(fence.torn) => host[w] \in ToSet(fence'.torn)
      BY <1>1, <1>2, <1>3, <3>1, ReleaseFence
    <3>3. \A c \in Counting(fence) : host[w] \in ToSet(fence'.torn) \/ c \in Counting(fence')
      BY <1>1, <1>2, <1>3, <3>1, ReleaseCounting
    <3> QED
      BY <3>2, <3>3 DEF IInv, OwedCovered
  <2>2. \A c \in owed : c.host # host[w] => c \in owed
    OBVIOUS
  <2> QED
    BY <1>2, <1>4, <1>6, <2>1, <2>2, OwedStep
<1>11. SpaceUnfenced'
  <2>1. \A c \in owed \cap owed' : Fenced(fence', c.host) => Fenced(fence, c.host)
    BY <1>1, <1>6 DEF TypeOK, Readings
  <2>2. \A v \in Owners : \A c \in busy'[v].since \cap owed' : c \in busy[v].since /\ c \in owed
    BY <1>2, <1>4
  <2> QED
    BY <1>2, <1>6, <1>7, <1>10, <2>1, <2>2, UnfencedStep
<1>12. LostOnce'
  BY <1>2, <1>4 DEF IInv, LostOnce
<1> QED
  BY <1>6, <1>7, <1>8, <1>9, <1>10, <1>11, <1>12 DEF IInv

(* What every question to the fence has in common: it has retired first.    *)
LEMMA RetireStep ==
  ASSUME IInv, NEW w \in Owners, host[w] \in Hosts, NEW seen \in Probes(w)
  PROVE  LET r == Retire(fence, host[w], seen)
         IN  /\ seen \subseteq gone /\ FenceOK(r) /\ Elsewhere(fence, r, host[w])
             /\ \A x \in Hosts : Fenced(r, x) => Fenced(fence, x)
             /\ \A c \in owed : c.host = host[w] => c.host \in ToSet(r.torn) \/ c \in Counting(r)
             /\ ~Fenced(fence, host[w]) => r = fence
<1> DEFINE r == Retire(fence, host[w], seen)
           dead == Dead(fence, host[w], seen)
<1>1. FenceOK(fence) /\ OwedCovered
  BY DEF IInv
<1>2. FenceOK(r) /\ (dead = {} => r = fence) /\ (dead # {} => host[w] \in ToSet(r.torn))
  BY <1>1, RetireFence
<1>3. /\ Elsewhere(fence, r, host[w]) /\ (Fenced(r, host[w]) => Fenced(fence, host[w]))
      /\ ~Fenced(fence, host[w]) => r = fence
  BY <1>1, RetireClaims
<1> HIDE DEF r, dead
<1>4. \A x \in Hosts : Fenced(r, x) => Fenced(fence, x)
  BY <1>1, <1>2, <1>3, CountsElsewhere
<1>5. \A c \in owed : c.host = host[w] => c.host \in ToSet(r.torn) \/ c \in Counting(r)
  BY <1>1, <1>2 DEF OwedCovered
<1>6. seen \subseteq gone
  BY DEF Probes, Probed
<1> QED
  BY <1>2, <1>3, <1>4, <1>5, <1>6 DEF r

LEMMA ProbeKeyStep ==
  ASSUME IInv, NEW w \in Owners, NEW s \in live[w], NEW seen \in Probes(w),
         ProbeKey(w, s, seen), Quiet
  PROVE  IInv'
<1>1. /\ TypeOK /\ ClaimsMatchSessions /\ ConnectionsOK /\ KeysOK /\ FenceOK(fence)
  BY DEF IInv
<1>2. /\ conn[w] # NoConn /\ fence' = Retire(fence, host[w], seen)
      /\ StillOwed(w, owed) /\ late' \subseteq late /\ inserted' = {}
      /\ UNCHANGED <<conn, host, nextConn, gone, nextId, live, sess, claimed, busy>>
  BY DEF ProbeKey, Served, Answer, Quiet
<1>3. host[w] \in Hosts
  BY <1>2, ServesHost
<1>4. /\ seen \in SUBSET gone /\ FenceOK(fence') /\ Elsewhere(fence, fence', host[w])
      /\ \A x \in Hosts : Fenced(fence', x) => Fenced(fence, x)
      /\ \A c \in owed : c.host = host[w] => c.host \in ToSet(fence'.torn) \/ c \in Counting(fence')
  BY <1>2, <1>3, RetireStep
<1>5. owed \in SUBSET Readings /\ owed' \subseteq owed
  BY <1>1, <1>2 DEF TypeOK, StillOwed
<1>6. TypeOK'
  <2>1. fence' \in Fences
    BY <1>4 DEF FenceOK
  <2> QED
    BY <1>1, <1>2, <1>5, <2>1 DEF TypeOK
<1>7. ClaimsMatchSessions' /\ (\A c \in fence'.owned : ~c.active => c.conn \in gone')
  BY <1>2, <1>3, <1>4, ClaimsStep
<1>8. ConnectionsOK'
  BY <1>1, <1>2, <1>7 DEF ConnectionsOK
<1>9. KeysOK'
  BY <1>1, <1>2 DEF KeysOK
<1>10. OwedCovered'
  BY <1>2, <1>4, <1>5, OwedStep
<1>11. SpaceUnfenced'
  <2>1. \A c \in owed \cap owed' : Fenced(fence', c.host) => Fenced(fence, c.host)
    BY <1>1, <1>4 DEF TypeOK, Readings
  <2> QED
    BY <1>2, <1>4, <1>5, <1>6, <1>10, <2>1, UnfencedStep
<1>12. LostOnce'
  BY <1>2, <1>5 DEF IInv, LostOnce
<1> QED
  BY <1>4, <1>6, <1>7, <1>8, <1>9, <1>10, <1>11, <1>12 DEF IInv

(* What the key does to its session stays a session. *)
LEMMA EditedType ==
  ASSUME NEW x \in SessionStates, NEW k \in Keys, NEW suppress \in BOOLEAN
  PROVE  Edited(x, k, suppress) \in SessionStates
<1>1. Applied(x, k) \in SessionStates
  <2> DEFINE y == [x EXCEPT !.reading = TRUE]
  <2>1. TRUE \in BOOLEAN /\ FALSE \in BOOLEAN
    OBVIOUS
  <2>2. y \in SessionStates /\ [x EXCEPT !.reading = FALSE] \in SessionStates
    BY <2>1, SessionEdits
  <2>3. [x EXCEPT !.reading = TRUE, !.undo = TRUE] = [y EXCEPT !.undo = TRUE]
    BY DEF SessionStates
  <2> HIDE DEF y
  <2>4. [y EXCEPT !.undo = TRUE] \in SessionStates
    BY <2>1, <2>2, SessionEdits
  <2> QED
    BY <2>2, <2>3, <2>4 DEF Applied, y
<1> QED
  BY <1>1 DEF Edited

LEMMA SendKeyStep ==
  ASSUME IInv, NEW w \in Owners, NEW s \in live[w], NEW k \in Keys, NEW seen \in Probes(w),
         SendKey(w, s, k, seen), Quiet
  PROVE  IInv'
<1> DEFINE x == sess[w][s]
           suppress == Fenced(fence', host[w]) \/ PeerComposes(w, s)
           y == Edited(x, k, suppress)
           asks == Asks(x, k, suppress)
           lost == {c \in owed : c.host = host[w]}
           absorbs == [at |-> "absorb", session |-> s, since |-> lost]
           syncs == [at |-> "sync", session |-> s, since |-> {}]
           b == IF asks THEN absorbs ELSE IF y.reading = (s \in claimed[w]) THEN Rest ELSE syncs
<1>1. /\ TypeOK /\ ClaimsMatchSessions /\ ConnectionsOK /\ KeysOK /\ FenceOK(fence)
  BY DEF IInv
<1>2. /\ conn[w] # NoConn /\ busy[w].at = "rest" /\ fence' = Retire(fence, host[w], seen)
      /\ sess' = IF asks THEN sess ELSE [sess EXCEPT ![w][s] = y]
      /\ busy' = [busy EXCEPT ![w] = b]
      /\ StillOwed(w, owed) /\ late' \subseteq late /\ inserted' = {}
      /\ UNCHANGED <<conn, host, nextConn, gone, nextId, live, claimed>>
  BY DEF SendKey, Served, Answer, Quiet
<1>3. host[w] \in Hosts /\ s \in Sessions /\ x \in SessionStates
  BY <1>1, <1>2, ServesHost DEF TypeOK
<1>4. /\ seen \in SUBSET gone /\ FenceOK(fence') /\ Elsewhere(fence, fence', host[w])
      /\ \A h \in Hosts : Fenced(fence', h) => Fenced(fence, h)
      /\ \A c \in owed : c.host = host[w] => c.host \in ToSet(fence'.torn) \/ c \in Counting(fence')
  BY <1>2, <1>3, RetireStep
<1>5. owed \in SUBSET Readings /\ owed' \subseteq owed
  BY <1>1, <1>2 DEF TypeOK, StillOwed
<1>6. y \in SessionStates
  <2>1. suppress \in BOOLEAN
    BY DEF Fenced, PeerComposes
  <2> QED
    BY <1>3, <2>1, EditedType
<1>7. asks => ~Fenced(fence', host[w]) /\ Idle(sess[w][s])
  BY DEF Asks
<1>8. /\ b \in Applying /\ b.since \subseteq lost
      /\ b.at = "absorb" => asks
      /\ b.at # "absorb" => b.since = {}
      /\ b.at # "rest" => b.session = s
      /\ b.at = "sync" => ~asks /\ y.reading # (s \in claimed[w])
  BY <1>3, <1>5 DEF Applying, Rest
<1> HIDE DEF x, suppress, y, asks, b
<1>9. /\ busy'[w] = b /\ \A v \in Owners : v # w => busy'[v] = busy[v] /\ sess'[v] = sess[v]
      /\ ~asks => sess'[w][s] = y
  BY <1>1, <1>2, <1>3 DEF TypeOK
<1>10. TypeOK'
  <2>1. fence' \in Fences
    BY <1>4 DEF FenceOK
  <2>2. sess' \in [Owners -> [Sessions -> SessionStates]]
    BY <1>1, <1>2, <1>3, <1>6 DEF TypeOK
  <2>3. busy' \in [Owners -> Applying]
    BY <1>1, <1>2, <1>8 DEF TypeOK
  <2> QED
    BY <1>1, <1>2, <1>5, <2>1, <2>2, <2>3 DEF TypeOK
<1>11. ClaimsMatchSessions' /\ (\A c \in fence'.owned : ~c.active => c.conn \in gone')
  BY <1>2, <1>3, <1>4, ClaimsStep
<1>12. ConnectionsOK'
  BY <1>1, <1>2, <1>9, <1>11 DEF ConnectionsOK
<1>13. KeysOK'
  <2>1. y.reading \in BOOLEAN
    BY <1>6 DEF SessionStates
  <2>2. b.at = "sync" => (sess'[w][s].reading <=> s \notin claimed'[w])
    BY <1>2, <1>8, <1>9, <2>1
  <2>3. b.at = "absorb" => Idle(sess'[w][s])
    BY <1>2, <1>7, <1>8
  <2> QED
    BY <1>1, <1>2, <1>8, <1>9, <2>2, <2>3 DEF KeysOK
<1>14. OwedCovered'
  BY <1>2, <1>4, <1>5, OwedStep
<1>15. SpaceUnfenced'
  <2>1. \A c \in owed \cap owed' : Fenced(fence', c.host) => Fenced(fence, c.host)
    BY <1>1, <1>4 DEF TypeOK, Readings
  <2>2. ASSUME NEW v \in Owners, NEW c \in busy'[v].since \cap owed'
        PROVE  \/ c \in busy[v].since /\ c \in owed
               \/ c.host = host[v] /\ ~Fenced(fence', c.host)
    <3>1. CASE v = w
      BY <1>7, <1>8, <1>9, <2>2, <3>1
    <3>2. CASE v # w
      BY <1>5, <1>9, <2>2, <3>2
    <3> QED
      BY <3>1, <3>2
  <2> QED
    BY <1>2, <1>4, <1>10, <1>14, <2>1, <2>2, UnfencedStep
<1>16. LostOnce'
  <2>1. \A c \in owed' \cup UNION {busy'[v].since : v \in Owners} :
          c \in owed \cup UNION {busy[v].since : v \in Owners}
    BY <1>5, <1>8, <1>9
  <2> QED
    BY <1>2, <2>1 DEF IInv, LostOnce
<1> QED
  BY <1>4, <1>10, <1>11, <1>12, <1>13, <1>14, <1>15, <1>16 DEF IInv

LEMMA AbsorbStep ==
  ASSUME IInv, NEW w \in Owners, NEW seen \in Probes(w), Absorb(w, seen)
  PROVE  IInv'
<1> DEFINE s == busy[w].session
           again == Retire(fence, host[w], seen)
           absorb == Owes(again, host[w])
           cs == IF absorb THEN {c \in owed : c.host # host[w]} ELSE owed
           syncs == [at |-> "sync", session |-> s, since |-> {}]
           b == IF s \in claimed[w] THEN syncs ELSE Rest
           text == IF absorb \/ Passes(sess[w][s]) THEN {} ELSE {w}
<1>1. /\ TypeOK /\ ClaimsMatchSessions /\ ConnectionsOK /\ KeysOK /\ FenceOK(fence)
  BY DEF IInv
<1>2. /\ busy[w].at = "absorb" /\ fence' = Spend(again, host[w])
      /\ inserted' = text /\ busy' = [busy EXCEPT ![w] = b] /\ StillOwed(w, cs)
      /\ UNCHANGED <<conn, host, nextConn, gone, late, nextId, live, sess, claimed>>
  BY DEF Absorb
<1>3. host[w] \in Hosts /\ s \in Sessions /\ s \in live[w]
  BY <1>1, <1>2, ServesHost DEF TypeOK, KeysOK
<1>4. /\ seen \in SUBSET gone /\ FenceOK(again) /\ Elsewhere(fence, again, host[w])
      /\ \A x \in Hosts : Fenced(again, x) => Fenced(fence, x)
      /\ \A c \in owed : c.host = host[w] => c.host \in ToSet(again.torn) \/ c \in Counting(again)
  BY <1>3, RetireStep
<1>5. /\ text \in SUBSET Owners /\ b \in Applying /\ b.since = {} /\ b.at # "absorb"
      /\ b.at # "rest" => b.at = "sync" /\ b.session = s /\ s \in claimed[w]
  BY <1>3 DEF Applying, Rest
<1>6. cs \in SUBSET Readings /\ cs \subseteq owed /\ (absorb => \A c \in cs : c.host # host[w])
  BY <1>1 DEF TypeOK
<1> HIDE DEF text, b
<1>7. /\ FenceOK(fence') /\ Elsewhere(again, fence', host[w])
      /\ fence'.owned = again.owned /\ (Fenced(fence', host[w]) => Fenced(again, host[w]))
      /\ ~absorb => fence' = again
  <2> HIDE DEF again
  <2> QED
    BY <1>2, <1>3, <1>4, SpendFence
<1> HIDE DEF absorb, cs
<1>8. owed' \subseteq cs
  BY <1>2 DEF StillOwed
<1>9. ClaimsMatchSessions' /\ (\A c \in fence'.owned : ~c.active => c.conn \in gone')
  BY <1>2, <1>3, <1>4, <1>7, ClaimsStep
<1> HIDE DEF again
<1>10. Elsewhere(fence, fence', host[w])
  BY <1>4, <1>7 DEF Elsewhere
<1>11. \A x \in Hosts : Fenced(fence', x) => Fenced(fence, x)
  BY <1>1, <1>3, <1>4, <1>7, <1>10, CountsElsewhere
<1>12. busy'[w] = b /\ \A v \in Owners : v # w => busy'[v] = busy[v]
  BY <1>1, <1>2 DEF TypeOK
<1>13. TypeOK'
  <2>1. fence' \in Fences /\ owed' \subseteq Readings
    BY <1>6, <1>7, <1>8 DEF FenceOK
  <2>2. busy' \in [Owners -> Applying]
    BY <1>1, <1>2, <1>5 DEF TypeOK
  <2> QED
    BY <1>1, <1>2, <1>5, <2>1, <2>2 DEF TypeOK
<1>14. ConnectionsOK'
  BY <1>1, <1>2, <1>9, <1>12 DEF ConnectionsOK
<1>15. KeysOK'
  <2>1. Idle(sess[w][s])
    BY <1>1, <1>2 DEF KeysOK
  <2>2. b.at # "rest" => (sess[w][s].reading <=> s \notin claimed[w])
    BY <1>5, <2>1 DEF Idle
  <2> QED
    BY <1>1, <1>2, <1>3, <1>5, <1>12, <2>2 DEF KeysOK
<1>16. OwedCovered'
  <2>1. \A c \in cs : c.host = host[w] => c.host \in ToSet(fence'.torn) \/ c \in Counting(fence')
    BY <1>4, <1>6, <1>7
  <2> QED
    BY <1>2, <1>6, <1>7, <1>10, <2>1, OwedStep
<1>17. SpaceUnfenced'
  <2>1. \A c \in owed \cap owed' : Fenced(fence', c.host) => Fenced(fence, c.host)
    BY <1>1, <1>11 DEF TypeOK, Readings
  <2>2. \A v \in Owners : \A c \in busy'[v].since \cap owed' : c \in busy[v].since /\ c \in owed
    BY <1>5, <1>6, <1>8, <1>12
  <2> QED
    BY <1>2, <1>7, <1>13, <1>16, <2>1, <2>2, UnfencedStep
<1>18. LostOnce'
  <2>1. \A c \in owed' \cup UNION {busy'[v].since : v \in Owners} :
          c \in owed \cup UNION {busy[v].since : v \in Owners}
    BY <1>5, <1>6, <1>8, <1>12
  <2> QED
    BY <1>2, <2>1 DEF IInv, LostOnce
<1> QED
  BY <1>7, <1>9, <1>13, <1>14, <1>15, <1>16, <1>17, <1>18 DEF IInv

LEMMA SyncStep ==
  ASSUME IInv, NEW w \in Owners, NEW seen \in Probes(w), Sync(w, seen), Quiet
  PROVE  IInv'
<1> DEFINE s == busy[w].session
           h == host[w]
<1>1. /\ TypeOK /\ ClaimsMatchSessions /\ ConnectionsOK /\ KeysOK /\ FenceOK(fence)
  BY DEF IInv
<1>2. /\ busy[w].at = "sync" /\ busy' = [busy EXCEPT ![w] = Rest] /\ inserted' = {}
      /\ UNCHANGED <<conn, host, nextConn, gone, late, nextId, live, sess>>
  BY DEF Sync, Quiet
<1>3. /\ h \in Hosts /\ conn[w] \in Conns /\ conn[w] # NoConn
      /\ s \in Sessions /\ s \in live[w] /\ s \in Nat /\ conn[w] \in Nat
  <2>1. h \in Hosts /\ conn[w] \in Conns
    BY <1>2, ServesHost
  <2>2. conn[w] # NoConn /\ conn[w] \in Nat
    BY <2>1, BoundAssumption DEF Conns, NoConn
  <2> QED
    BY <1>1, <1>2, <2>1, <2>2, BoundAssumption DEF TypeOK, KeysOK, Sessions
<1>4. /\ Rest \in Applying /\ Rest.at = "rest" /\ Rest.since = {}
      /\ busy'[w] = Rest /\ \A v \in Owners : v # w => busy'[v] = busy[v]
  BY <1>1, <1>2 DEF TypeOK, Rest, Applying
<1>5. /\ FenceOK(fence') /\ ClaimsMatchSessions'
      /\ \A c \in fence'.owned : ~c.active => c.conn \in gone'
      /\ OwedCovered' /\ owed' \subseteq owed
      /\ \A c \in owed' : Fenced(fence', c.host) => Fenced(fence, c.host)
      /\ claimed' \in [Owners -> SUBSET Sessions]
      /\ \A v \in Owners : v # w => claimed'[v] = claimed[v]
  <2>1. CASE sess[w][s].reading
    <3> DEFINE g == Retire(fence, h, seen)
               n == conn[w]
               claim == [host |-> h, owner |-> w, session |-> s, conn |-> n, active |-> n \notin seen]
               cs == IF n \in seen THEN owed ELSE {c \in owed : c.host # h}
    <3>1. /\ fence' = Acquire(fence, h, w, s, n, seen)
          /\ claimed' = [claimed EXCEPT ![w] = @ \cup {s}]
          /\ StillOwed(w, cs) /\ s \notin claimed[w]
      BY <1>1, <1>2, <2>1 DEF Sync, KeysOK
    <3>2. /\ seen \subseteq gone /\ FenceOK(g) /\ Elsewhere(fence, g, h)
          /\ \A c \in owed : c.host = h => c.host \in ToSet(g.torn) \/ c \in Counting(g)
      BY <1>3, RetireStep
    <3>3. ClaimsOf(fence, h, w, s) = {}
      BY <1>1, <3>1 DEF ClaimsOf, ClaimsMatchSessions
    <3>4. /\ FenceOK(fence') /\ Elsewhere(fence, fence', h)
          /\ fence'.owned = g.owned \cup {claim}
          /\ n \in seen => fence'.torn = g.torn /\ (Fenced(fence', h) => Fenced(fence, h))
      <4>1. FenceOK(fence) /\ h \in Hosts /\ w \in Owners /\ s \in Nat /\ n \in Nat
        BY <1>1, <1>3
      <4> QED
        BY <3>1, <3>3, <4>1, AcquireFence
    <3>5. /\ \A c \in g.owned :
                c \in fence.owned \/ (c.conn \in seen /\ \E d \in fence.owned : SameClaim(c, d))
          /\ \A d \in fence.owned : d \in g.owned \/ \E c \in g.owned : SameClaim(c, d)
      BY <1>1, <1>3, RetireClaims
    <3>6. /\ cs \subseteq owed /\ cs \in SUBSET Readings /\ (n \in seen \/ \A c \in cs : c.host # h)
      BY <1>1 DEF TypeOK
    <3>7. /\ claim.host = h /\ claim.owner = w /\ claim.session = s /\ claim.conn = n
          /\ ~claim.active => n \in seen
      OBVIOUS
    <3> HIDE DEF g, claim, cs
    <3>8. /\ claimed'[w] = claimed[w] \cup {s} /\ \A v \in Owners : v # w => claimed'[v] = claimed[v]
          /\ claimed' \in [Owners -> SUBSET Sessions]
          /\ \A c \in fence.owned : c.owner \in Owners
      BY <1>1, <1>3, <3>1 DEF TypeOK, Fences, Claims
    <3>9. \A c \in fence'.owned : ~c.active => c.conn \in gone'
      BY <1>1, <1>2, <3>2, <3>4, <3>5, <3>7 DEF ConnectionsOK
    <3>10. ClaimsMatchSessions'
      <4>1. \A c \in g.owned : c.host = host[c.owner] /\ c.conn = conn[c.owner]
                               /\ c.session \in claimed[c.owner] /\ c.owner \in Owners
        BY <1>1, <3>5, <3>8 DEF ClaimsMatchSessions, SameClaim
      <4>2. \A c \in fence'.owned : c.host = host[c.owner] /\ c.conn = conn[c.owner]
                                   /\ c.session \in claimed'[c.owner]
        BY <3>4, <3>7, <3>8, <4>1
      <4>3. \A v \in Owners : \A t \in claimed'[v] : t \in live[v]
        BY <1>1, <1>3, <3>8 DEF ClaimsMatchSessions
      <4>4. \A v \in Owners : \A t \in claimed[v] : \E c \in g.owned : c.owner = v /\ c.session = t
        BY <1>1, <3>5 DEF ClaimsMatchSessions, SameClaim
      <4>5. \A v \in Owners : \A t \in claimed'[v] : \E c \in fence'.owned : c.owner = v /\ c.session = t
        BY <3>4, <3>7, <3>8, <4>4
      <4> QED
        BY <1>2, <4>2, <4>3, <4>5 DEF ClaimsMatchSessions
    <3>11. OwedCovered'
      <4>1. \A c \in cs : c.host = h => c.host \in ToSet(fence'.torn) \/ c \in Counting(fence')
        <5>1. Counting(g) \subseteq Counting(fence')
          BY <3>4 DEF Counting
        <5> QED
          BY <3>2, <3>4, <3>6, <5>1
      <4> QED
        BY <3>1, <3>4, <3>6, <4>1, OwedStep
    <3>12. owed' \subseteq cs
      BY <3>1 DEF StillOwed
    <3>13. \A c \in owed' : Fenced(fence', c.host) => Fenced(fence, c.host)
      <4>1. \A x \in Hosts \ {h} : Fenced(fence', x) <=> Fenced(fence, x)
        BY <1>1, <3>4, CountsElsewhere
      <4>2. \A c \in owed' : c.host \in Hosts
        BY <3>6, <3>12 DEF Readings
      <4> QED
        BY <3>4, <3>6, <3>12, <4>1, <4>2
    <3> QED
      BY <3>4, <3>6, <3>8, <3>9, <3>10, <3>11, <3>12, <3>13
  <2>2. CASE ~sess[w][s].reading
    <3>1. /\ fence' = Release(fence, h, w, s, FALSE)
          /\ claimed' = [claimed EXCEPT ![w] = @ \ {s}]
          /\ owed' = owed \ {Claim(w, s)} /\ s \in claimed[w]
      BY <1>1, <1>2, <2>2 DEF Sync, KeysOK
    <3>2. FALSE \in BOOLEAN
      OBVIOUS
    <3>3. /\ claimed'[w] = claimed[w] \ {s} /\ \A v \in Owners : v # w => claimed'[v] = claimed[v]
          /\ claimed' \in [Owners -> SUBSET Sessions]
      BY <1>1, <3>1 DEF TypeOK
    <3>4. /\ FenceOK(fence') /\ ClaimsMatchSessions'
          /\ \A c \in fence'.owned : ~c.active => c.conn \in gone'
          /\ \A x \in Hosts : Fenced(fence', x) => Fenced(fence, x)
      <4>1. \A v \in Owners : \A t \in claimed'[v] : t \in live'[v]
        BY <1>1, <1>2, <3>3 DEF ClaimsMatchSessions
      <4> QED
        BY <1>2, <1>3, <3>1, <3>2, <4>1, ClaimEnds
    <3>5. fence'.torn = fence.torn
      <4>1. \A b \in BOOLEAN : ~b => Release(fence, h, w, s, b).torn = fence.torn
        BY <1>1, <1>3, ReleaseFence
      <4> QED
        BY <3>1, <4>1
    <3>6. \A c \in owed' : c \in Counting(fence) => c \in Counting(fence')
      BY <1>1, <1>3, <3>1, <3>2, ReleaseCounting DEF Claim
    <3>7. OwedCovered'
      BY <3>1, <3>5, <3>6 DEF IInv, OwedCovered
    <3>8. \A c \in owed' : Fenced(fence', c.host) => Fenced(fence, c.host)
      BY <1>1, <3>1, <3>4 DEF TypeOK, Readings
    <3> QED
      BY <3>1, <3>3, <3>4, <3>7, <3>8
  <2> QED
    BY <2>1, <2>2
<1> HIDE DEF s, h
<1>6. TypeOK'
  <2>1. fence' \in Fences
    BY <1>5 DEF FenceOK
  <2> QED
    BY <1>1, <1>2, <1>4, <1>5, <2>1 DEF TypeOK
<1>7. ConnectionsOK'
  BY <1>1, <1>2, <1>4, <1>5 DEF ConnectionsOK
<1>8. KeysOK'
  BY <1>1, <1>2, <1>4, <1>5 DEF KeysOK
<1>9. SpaceUnfenced'
  <2>1. \A v \in Owners : \A c \in busy'[v].since \cap owed' : c \in busy[v].since /\ c \in owed
    BY <1>4, <1>5
  <2>2. \A c \in owed \cap owed' : Fenced(fence', c.host) => Fenced(fence, c.host)
    BY <1>5
  <2> QED
    BY <1>2, <1>5, <1>6, <2>1, <2>2, UnfencedStep
<1>10. LostOnce'
  <2>1. \A c \in owed' \cup UNION {busy'[v].since : v \in Owners} :
          c \in owed \cup UNION {busy[v].since : v \in Owners}
    BY <1>4, <1>5
  <2> QED
    BY <1>2, <2>1 DEF IInv, LostOnce
<1> QED
  BY <1>5, <1>6, <1>7, <1>8, <1>9, <1>10 DEF IInv

(* The requests that change a session and leave its claim alone. *)
LEMMA EditRequestStep ==
  ASSUME IInv, NEW w \in Owners, NEW s \in live[w], NEW b \in BOOLEAN, Quiet,
         \/ SetMode(w, s) \/ Reconvert(w, s, b) \/ SetInputScope(w, s, b)
         \/ UndoCommitOutcome(w, s, b)
  PROVE  IInv'
<1> DEFINE x == sess[w][s]
<1>1. x \in SessionStates
  BY DEF IInv, TypeOK
<1>2. /\ x.direct \in BOOLEAN /\ x.reading \in BOOLEAN /\ x.sensitive \in BOOLEAN
      /\ (~x.direct) \in BOOLEAN /\ FALSE \in BOOLEAN
  BY <1>1 DEF SessionStates
<1>3. \A y \in SessionStates : Changes(w, s, y) => IInv'
  BY ChangesStep
<1>4. CASE SetMode(w, s)
  <2> DEFINE y == [x EXCEPT !.direct = ~x.direct]
  <2>1. y \in SessionStates
    BY <1>1, <1>2, SessionEdits
  <2>2. Changes(w, s, y)
    BY <1>4 DEF SetMode
  <2> QED
    BY <1>3, <2>1, <2>2
<1>5. CASE Reconvert(w, s, b)
  <2> DEFINE y == [x EXCEPT !.reading = b /\ ~x.sensitive]
  <2>1. (b /\ ~x.sensitive) \in BOOLEAN
    OBVIOUS
  <2>2. y \in SessionStates
    BY <1>1, <2>1, SessionEdits
  <2>3. Changes(w, s, y)
    BY <1>5 DEF Reconvert
  <2> QED
    BY <1>3, <2>2, <2>3
<1>6. CASE SetInputScope(w, s, b)
  <2> DEFINE m == [x EXCEPT !.sensitive = b]
             r == x.reading /\ ~x.sensitive /\ ~b
             y == [m EXCEPT !.reading = r]
  <2>1. m \in SessionStates
    BY <1>1, SessionEdits
  <2>2. r \in BOOLEAN
    OBVIOUS
  <2>3. m.reading = x.reading
    BY <1>1 DEF SessionStates
  <2>4. Changes(w, s, y)
    <3>1. [x EXCEPT !.sensitive = b, !.reading = @ /\ ~x.sensitive /\ ~b] = y
      BY <2>3
    <3> QED
      BY <1>6, <3>1 DEF SetInputScope
  <2> HIDE DEF m, r
  <2>5. y \in SessionStates
    BY <2>1, <2>2, SessionEdits
  <2> QED
    BY <1>3, <2>4, <2>5
<1>7. CASE UndoCommitOutcome(w, s, b)
  <2> DEFINE m == [x EXCEPT !.undo = FALSE]
             y == [m EXCEPT !.reading = b]
  <2>1. m \in SessionStates
    BY <1>1, <1>2, SessionEdits
  <2>2. Changes(w, s, y)
    BY <1>7 DEF UndoCommitOutcome
  <2> HIDE DEF m
  <2>3. y \in SessionStates
    BY <2>1, SessionEdits
  <2> QED
    BY <1>3, <2>2, <2>3
<1> QED
  BY <1>4, <1>5, <1>6, <1>7

LEMMA NextIInv == IInv /\ [Next]_vars => IInv'
<1> SUFFICES ASSUME IInv, [Next]_vars PROVE IInv'
  OBVIOUS
<1>1. CASE UNCHANGED vars
  <2> USE <1>1 DEF vars
  <2>1. TypeOK' /\ FenceOK(fence')
    BY DEF IInv, TypeOK
  <2>2. ClaimsMatchSessions' /\ ConnectionsOK' /\ KeysOK'
    BY DEF IInv, ClaimsMatchSessions, ConnectionsOK, KeysOK
  <2>3. OwedCovered' /\ SpaceUnfenced' /\ LostOnce'
    BY DEF IInv, OwedCovered, SpaceUnfenced, LostOnce
  <2> QED
    BY <2>1, <2>2, <2>3 DEF IInv
<1>2. ASSUME NEW w \in Owners, Quiet, Request(w) PROVE IInv'
  <2>1. ASSUME NEW s \in live[w],
               \/ DeleteSession(w, s) \/ EndReading(w, s) \/ SetMode(w, s)
               \/ \E b \in BOOLEAN : Reconvert(w, s, b) \/ SetInputScope(w, s, b)
                                      \/ UndoCommitOutcome(w, s, b)
               \/ \E seen \in Probes(w) :
                    ProbeKey(w, s, seen) \/ \E k \in Keys : SendKey(w, s, k, seen)
        PROVE  IInv'
    <3>1. TRUE \in BOOLEAN
      OBVIOUS
    <3> QED
      BY <1>2, <2>1, <3>1, DeleteSessionStep, EndReadingStep, EditRequestStep, ProbeKeyStep,
         SendKeyStep
  <2> QED
    BY <1>2, <2>1, CreateSessionStep, UnknownSessionStep DEF Request
<1>3. ASSUME NEW w \in Owners, Quiet, Teardown(w) PROVE IInv'
  BY <1>3, ReleaseClaimStep, ResetStep DEF Teardown
<1>4. ASSUME NEW w \in Owners, Quiet, Silently(w) PROVE IInv'
  BY <1>2, <1>3, <1>4, ConnectStep, SyncStep, DropStep DEF Silently
<1> QED
  BY <1>1, <1>4, AbsorbStep DEF Next

----------------------------------------------------------------------------
(* In every reachable state the invariant holds: workers, hosts and bounds  *)
(* are any.                                                                 *)
THEOREM FenceInvariance == Spec => []IInv
BY InitIInv, NextIInv, PTL DEF Spec

(* The tables behind the mutex agree with one another and with what the     *)
(* dispatchers believe (composition_fence.rs: `state'; dispatch.rs:         *)
(* `fence_claims').                                                         *)
THEOREM ClaimsCorrect == Spec => []ClaimsStayTrue
<1>1. IInv => ClaimsStayTrue
  BY DEF IInv, FenceOK, ClaimsStayTrue, FenceConsistent
<1> QED
  BY <1>1, FenceInvariance, PTL

(* A key gets as far as asking for the absorption only when nothing counts  *)
(* on its host; a claimed reading of a client that is there would.          *)
LEMMA AskingStep ==
  ASSUME IInv, Next, NEW v \in Owners, busy[v].at # "absorb", busy'[v].at = "absorb",
         NEW w \in Owners, host[w] = host[v], conn[w] # NoConn, conn[w] \notin gone,
         NEW s \in claimed[w]
  PROVE  FALSE
<1>1. TypeOK /\ ClaimsMatchSessions /\ ConnectionsOK /\ FenceOK(fence)
  BY DEF IInv
<1>2. PICK o \in Owners : (Quiet /\ Silently(o)) \/ \E seen \in Probes(o) : Absorb(o, seen)
  BY DEF Next
<1>3. \E u \in live[o] : \E seen \in Probes(o) : \E k \in Keys : SendKey(o, u, k, seen)
  <2>1. Rest.at = "rest"
    BY DEF Rest
  <2>2. busy' # busy
    OBVIOUS
  <2>3. ~\E seen \in Probes(o) : Absorb(o, seen) \/ Sync(o, seen)
    <3> SUFFICES ASSUME NEW seen \in Probes(o), Absorb(o, seen) \/ Sync(o, seen) PROVE FALSE
      OBVIOUS
    <3>1. PICK b : busy' = [busy EXCEPT ![o] = b] /\ b.at # "absorb"
      BY <2>1 DEF Absorb, Sync
    <3> QED
      BY <1>1, <3>1 DEF TypeOK
  <2> QED
    BY <1>2, <2>2, <2>3
       DEF Silently, Request, Teardown, Connect, CreateSession, UnknownSession, DeleteSession,
           EndReading, SetMode, Reconvert, SetInputScope, UndoCommitOutcome, Changes, ProbeKey,
           Drop, ReleaseClaim, Reset
<1>4. PICK u \in live[o], seen \in Probes(o), k \in Keys : SendKey(o, u, k, seen)
  BY <1>3
<1> DEFINE r == Retire(fence, host[o], seen)
           x == sess[o][u]
           suppress == Fenced(r, host[o]) \/ PeerComposes(o, u)
<1>5. o = v /\ ~Fenced(r, host[v])
  <2>1. CASE Asks(x, k, suppress)
    <3>1. busy' = [busy EXCEPT ![o] = busy'[o]]
      BY <1>1, <1>4, <2>1 DEF SendKey, TypeOK
    <3>2. o = v
      BY <1>1, <3>1 DEF TypeOK
    <3> QED
      BY <2>1, <3>2 DEF Asks
  <2>2. CASE ~Asks(x, k, suppress)
    <3>1. PICK b : busy' = [busy EXCEPT ![o] = b] /\ b.at # "absorb"
      BY <1>4, <2>2 DEF SendKey, Rest
    <3> QED
      BY <1>1, <3>1 DEF TypeOK
  <2> QED
    BY <2>1, <2>2
<1>6. PICK c \in fence.owned : c.owner = w /\ c.session = s
  BY <1>1 DEF ClaimsMatchSessions
<1>7. c.host = host[v] /\ c.conn = conn[w] /\ c.conn \notin gone
  BY <1>1, <1>6 DEF ClaimsMatchSessions
<1>8. c.active /\ c.host \in Hosts
  BY <1>1, <1>7 DEF ConnectionsOK, TypeOK, Fences, Claims
<1>9. seen \subseteq gone /\ FenceOK(r)
  BY <1>5, <1>7, <1>8, RetireStep
<1>10. c \in r.owned
  BY <1>1, <1>5, <1>7, <1>8, <1>9, RetireClaims
<1>11. c \in Alive(r, host[v])
  BY <1>7, <1>8, <1>10 DEF Alive
<1> QED
  BY <1>5, <1>7, <1>8, <1>9, <1>11, AliveFences

(* An idle Space is kept out of the document by every live reading of its   *)
(* host, whichever worker has it (dispatch.rs: `send_key',                  *)
(* `composition_fence_suppresses').                                         *)
THEOREM ReadingGuardCorrect == Spec => ReadingGuardsSpace
<1> DEFINE Guarded == \A v \in Owners :
             busy[v].at # "absorb" /\ busy'[v].at = "absorb" =>
               ~\E w \in Owners : /\ host[w] = host[v] /\ conn[w] # NoConn /\ conn[w] \notin gone
                                  /\ \E s \in claimed[w] : sess[w][s].reading
<1>1. IInv /\ [Next]_vars => [Guarded]_vars
  BY AskingStep
<1>2. Spec => [][Guarded]_vars
  BY <1>1, FenceInvariance, PTL DEF Spec
<1> QED
  BY <1>2 DEF ReadingGuardsSpace

(* The Space whose key came after a loss is absorbed as long as the loss is *)
(* owed: by then nothing counts on the host and its latch is armed.         *)
LEMMA TextStep ==
  ASSUME IInv, Next, NEW w \in inserted'
  PROVE  busy[w].since \cap owed = {}
<1>1. PICK o \in Owners : \E seen \in Probes(o) : Absorb(o, seen)
  BY DEF Next, Quiet
<1>2. PICK seen \in Probes(o) : Absorb(o, seen)
  BY <1>1
<1> DEFINE again == Retire(fence, host[o], seen)
<1>3. w = o /\ busy[o].at = "absorb" /\ ~Owes(again, host[o])
  BY <1>2 DEF Absorb
<1>4. host[o] \in Hosts
  BY <1>3, ServesHost
<1>5. ~Fenced(fence, host[o]) => again = fence
  BY <1>4, RetireStep
<1> HIDE DEF again
<1>6. SUFFICES ASSUME NEW c \in busy[o].since \cap owed PROVE FALSE
  BY <1>3
<1>7. host[o] \in ToSet(fence.torn) /\ ~Fenced(fence, host[o])
  BY DEF IInv, SpaceUnfenced
<1> QED
  BY <1>3, <1>5, <1>7 DEF Owes

(* No Space becomes text over a reading that was lost and not accounted for *)
(* (issue #102; composition_fence.rs: `consume_teardown').                  *)
THEOREM LostReadingCorrect == Spec => LostReadingGuarded
<1> DEFINE Paid == \A w \in inserted' : busy[w].since \cap owed = {}
<1>1. IInv /\ [Next]_vars => [Paid]_vars
  BY TextStep
<1>2. Spec => [][Paid]_vars
  BY <1>1, FenceInvariance, PTL DEF Spec
<1> QED
  BY <1>2 DEF LostReadingGuarded

----------------------------------------------------------------------------
(* The pool of pipe instances.                                              *)

(* The pool counts with a Cardinality of its own name.                      *)
LEMMA SameCount == \A S : Pool!Cardinality(S) = Cardinality(S)
BY DEF Pool!Cardinality, Cardinality

(* One more and one less.                                                   *)
LEMMA CountOne ==
  ASSUME NEW S, IsFiniteSet(S), NEW x
  PROVE  /\ Cardinality(S) \in Nat
         /\ x \in S => Cardinality(S \cup {x}) = Cardinality(S)
         /\ x \notin S => Cardinality(S \ {x}) = Cardinality(S)
         /\ x \notin S => Cardinality(S \cup {x}) = Cardinality(S) + 1
         /\ x \in S => Cardinality(S \ {x}) = Cardinality(S) - 1 /\ Cardinality(S) > 0
<1>1. Cardinality(S) \in Nat
  BY FS_CardinalityType
<1>2. /\ x \in S => Cardinality(S \cup {x}) = Cardinality(S)
      /\ x \notin S => Cardinality(S \cup {x}) = Cardinality(S) + 1
  BY FS_AddElement
<1>3. /\ x \in S => Cardinality(S \ {x}) = Cardinality(S) - 1
      /\ x \notin S => Cardinality(S \ {x}) = Cardinality(S)
  BY FS_RemoveElement
<1>4. x \in S => Cardinality(S) > 0
  BY <1>1, FS_EmptySet
<1> QED
  BY <1>1, <1>2, <1>3, <1>4

(* The workers of an endpoint are finitely many.                            *)
LEMMA PoolFinite ==
  ASSUME NEW e
  PROVE  IsFiniteSet(Pool!Of(e)) /\ IsFiniteSet(Pool!WaitingOf(e)) /\ IsFiniteSet(Pool!SlotsOf(e))
<1>1. IsFiniteSet(Workers)
  BY EndpointAssumption
<1>2. Pool!Of(e) \subseteq Workers /\ Pool!WaitingOf(e) \subseteq Workers /\ Pool!SlotsOf(e) \subseteq Workers
  BY DEF Pool!Of, Pool!WaitingOf, Pool!SlotsOf
<1> QED
  BY <1>1, <1>2, FS_Subset

(* Every endpoint has room for a worker.                                    *)
LEMMA RoomPositive == \A e : Pool!Room(e) \in Nat /\ Pool!Room(e) > 0
BY RoomAssumption DEF Pool!Room

(* Worker w moves within its loop: its own slot changes, its endpoint and   *)
(* instance stay, and the counters of its endpoint follow.                  *)
Moves(w) ==
  LET e == pool.w[w].of
      now == pool'.w[w]
  IN /\ \A x \in Workers \ {w} : pool'.w[x] = pool.w[x]
     /\ now.of = e /\ now.pipe # "none" /\ now.at # "none" /\ pool.w[w].at # "none"
     /\ now.at = "instance" <=> pool.w[w].at = "instance"
     /\ now.at = "spawns" => pool.w[w].at = "spawns" /\ now.adds = pool.w[w].adds
     /\ pool'.gate = pool.gate /\ (pool.gate = "open" \/ now.at = pool.w[w].at)
     /\ pool.hurt \subseteq pool'.hurt
     /\ \A f \in Endpoints \ {e} : pool'.idle[f] = pool.idle[f] /\ pool'.created[f] = pool.created[f]
     /\ e \notin pool'.hurt =>
          /\ now.at # "ends" /\ now.at # "closes"
          /\ pool'.created[e] = pool.created[e]
          /\ pool'.idle[e] = pool.idle[e] + (IF now.at = "waits" THEN 1 ELSE 0)
                                          - (IF pool.w[w].at = "waits" THEN 1 ELSE 0)
          /\ now.at = "serves" /\ pool.w[w].at # "serves" =>
               \/ \E x \in Pool!Of(e) \ {w} : pool.w[x].at # "serves"
               \/ Cardinality(Pool!Of(e)) = Pool!Room(e)

(* Such a move keeps the invariant: the counts follow because only the      *)
(* place of w among the workers of its endpoint changes.                    *)
LEMMA MoveKeeps ==
  ASSUME Pool!Ready, Pool!TypeOK', Pool!Live', NEW w \in Workers, Moves(w)
  PROVE  Pool!Ready'
<1>0. PICK d : d = pool.w[w].of
  OBVIOUS
<1> DEFINE now == pool'.w[w]
<1>2. /\ Pool!TypeOK /\ Pool!StartOK
      /\ \A x \in Workers : Pool!SlotOK(x) /\ Pool!AddsOK(x)
      /\ \A e \in Endpoints : Pool!RoomOK(e) /\ (e \notin pool.hurt => Pool!CountsOK(e))
  BY DEF Pool!Ready
<1>3. d \in Endpoints
  BY <1>0, <1>2 DEF Pool!SlotOK, Moves
<1>4. /\ \A x \in Workers \ {w} : pool'.w[x] = pool.w[x]
      /\ now.of = d /\ pool.w[w].of = d /\ now.pipe # "none" /\ now.at # "none" /\ pool.w[w].at # "none"
      /\ now.at = "instance" <=> pool.w[w].at = "instance"
      /\ pool'.gate = pool.gate /\ (pool.gate = "open" \/ now.at = pool.w[w].at)
      /\ pool.hurt \subseteq pool'.hurt
  BY <1>0 DEF Moves
<1>5. \A e : Pool!Of(e)' = Pool!Of(e)
  BY <1>4 DEF Pool!Of
<1>6. Pool!StartOK'
  BY <1>2, <1>4, <1>5 DEF Pool!StartOK
<1>7. ASSUME NEW x \in Workers PROVE Pool!SlotOK(x)'
  <2>1. CASE x = w
    BY <1>3, <1>4, <2>1 DEF Pool!SlotOK
  <2>2. CASE x # w
    BY <1>2, <1>4, <2>2 DEF Pool!SlotOK, Pool!Unborn, Pool!Nobody
  <2> QED
    BY <2>1, <2>2
<1>8. ASSUME NEW x \in Workers PROVE Pool!AddsOK(x)'
  <2>1. now.at = "spawns" => pool.w[w].at = "spawns" /\ now.adds = pool.w[w].adds
    BY DEF Moves
  <2>2. \A y \in Workers : pool'.w[y].at = "spawns" =>
          pool.w[y].at = "spawns" /\ pool'.w[y].adds = pool.w[y].adds
    BY <1>4, <2>1
  <2>3. \A y \in Workers : /\ pool'.w[y].of = pool.w[y].of
                           /\ pool'.w[y].at = "instance" <=> pool.w[y].at = "instance"
    BY <1>4
  <2>4. Pool!AddsOK(x)
    BY <1>2
  <2> QED
    BY <2>2, <2>3, <2>4 DEF Pool!AddsOK
<1>9. ASSUME NEW e \in Endpoints PROVE Pool!RoomOK(e)'
  BY <1>2, <1>5 DEF Pool!RoomOK, Pool!Room
<1>10. ASSUME NEW e \in Endpoints, e \notin pool'.hurt PROVE Pool!CountsOK(e)'
  <2>1. Pool!CountsOK(e)
    BY <1>2, <1>4, <1>10
  <2>2. CASE e # d
    <3>1. \A x \in Pool!Of(e) : x # w /\ pool'.w[x] = pool.w[x]
      BY <1>4, <2>2 DEF Pool!Of
    <3>2. Pool!WaitingOf(e)' = Pool!WaitingOf(e) /\ Pool!SlotsOf(e)' = Pool!SlotsOf(e)
      BY <1>5, <3>1 DEF Pool!WaitingOf, Pool!SlotsOf
    <3>3. pool'.idle[e] = pool.idle[e] /\ pool'.created[e] = pool.created[e]
      BY <1>0, <2>2 DEF Moves
    <3> QED
      BY <1>4, <1>5, <2>1, <3>1, <3>2, <3>3 DEF Pool!CountsOK, Pool!Room
  <2>3. CASE e = d
    <3>1. /\ now.at # "ends" /\ now.at # "closes" /\ pool'.created[d] = pool.created[d]
          /\ pool'.idle[d] = pool.idle[d] + (IF now.at = "waits" THEN 1 ELSE 0)
                                          - (IF pool.w[w].at = "waits" THEN 1 ELSE 0)
          /\ now.at = "serves" /\ pool.w[w].at # "serves" =>
               \/ \E x \in Pool!Of(d) \ {w} : pool.w[x].at # "serves"
               \/ Cardinality(Pool!Of(d)) = Pool!Room(d)
      BY <1>0, <1>10, <2>3 DEF Moves
    <3>2. w \in Pool!Of(d)
      BY <1>0 DEF Pool!Of
    <3>0. \A x \in Pool!Of(d) \ {w} : pool'.w[x] = pool.w[x]
      BY <1>4 DEF Pool!Of
    <3>3. Pool!SlotsOf(d)' = Pool!SlotsOf(d)
      BY <1>4, <1>5, <3>0 DEF Pool!SlotsOf
    <3>4. Pool!WaitingOf(d)' = IF now.at = "waits" THEN Pool!WaitingOf(d) \cup {w}
                               ELSE Pool!WaitingOf(d) \ {w}
      BY <1>5, <3>0, <3>2 DEF Pool!WaitingOf
    <3>5. w \in Pool!WaitingOf(d) <=> pool.w[w].at = "waits"
      BY <3>2 DEF Pool!WaitingOf
    <3>6. pool'.idle[d] = Cardinality(Pool!WaitingOf(d)')
      <4> DEFINE W == Pool!WaitingOf(d)
      <4>1. pool.idle[d] = Cardinality(W)
        BY <2>1, <2>3, SameCount DEF Pool!CountsOK
      <4>2. IsFiniteSet(W)
        BY PoolFinite
      <4> HIDE DEF W
      <4>5. /\ Cardinality(W) \in Nat
            /\ w \in W => Cardinality(W \cup {w}) = Cardinality(W)
            /\ w \notin W => Cardinality(W \ {w}) = Cardinality(W)
            /\ w \notin W => Cardinality(W \cup {w}) = Cardinality(W) + 1
            /\ w \in W => Cardinality(W \ {w}) = Cardinality(W) - 1
        BY <4>2, CountOne
      <4>6. /\ pool.idle[d] = Cardinality(W)
            /\ w \in W <=> pool.w[w].at = "waits"
            /\ Pool!WaitingOf(d)' = IF now.at = "waits" THEN W \cup {w} ELSE W \ {w}
        BY <3>4, <3>5, <4>1 DEF W
      <4>7. pool'.idle[d] = Cardinality(W) + (IF now.at = "waits" THEN 1 ELSE 0) - (IF w \in W THEN 1 ELSE 0)
        BY <3>1, <4>6
      <4>8. CASE now.at = "waits" /\ w \in W
        BY <4>5, <4>6, <4>7, <4>8
      <4>9. CASE now.at = "waits" /\ w \notin W
        BY <4>5, <4>6, <4>7, <4>9
      <4>10. CASE now.at # "waits" /\ w \in W
        BY <4>5, <4>6, <4>7, <4>10
      <4>11. CASE now.at # "waits" /\ w \notin W
        BY <4>5, <4>6, <4>7, <4>11
      <4> QED
        BY <4>8, <4>9, <4>10, <4>11
    <3>7. \A x \in Pool!Of(d)' : pool'.w[x].at \notin {"ends", "closes"}
      BY <1>4, <1>5, <2>1, <2>3, <3>1 DEF Pool!CountsOK, Pool!Of
    <3>8. pool'.gate = "open" =>
            \/ \E x \in Pool!Of(d)' : pool'.w[x].at # "serves"
            \/ Cardinality(Pool!Of(d)') = Pool!Room(d)
      <4> SUFFICES ASSUME pool'.gate = "open", \A x \in Pool!Of(d) : pool'.w[x].at = "serves"
                   PROVE  Cardinality(Pool!Of(d)) = Pool!Room(d)
        BY <1>5
      <4>1. now.at = "serves" /\ \A x \in Pool!Of(d) \ {w} : pool.w[x].at = "serves"
        BY <1>4, <3>2 DEF Pool!Of
      <4>2. CASE pool.w[w].at # "serves"
        BY <3>1, <4>1, <4>2
      <4>3. CASE pool.w[w].at = "serves"
        BY <1>4, <2>1, <2>3, <4>1, <4>3, SameCount DEF Pool!CountsOK
      <4> QED
        BY <4>2, <4>3
    <3> QED
      BY <2>1, <2>3, <3>1, <3>3, <3>6, <3>7, <3>8, SameCount DEF Pool!CountsOK, Pool!Room
  <2> QED
    BY <2>2, <2>3
<1> QED
  BY <1>6, <1>7, <1>8, <1>9, <1>10 DEF Pool!Ready

(* What a step of worker w does beside the counters: its slot becomes r,    *)
(* `i' are the idle counts afterwards and `h' the endpoints that are hurt.  *)
Turns(w, r, i, h) ==
  /\ pool' = [w |-> pool'.w, idle |-> pool'.idle, created |-> pool'.created,
              total |-> pool'.total, permits |-> pool'.permits, gate |-> pool'.gate,
              reason |-> pool'.reason, faults |-> pool'.faults, hurt |-> pool'.hurt]
  /\ pool'.w = [pool.w EXCEPT ![w] = r]
  /\ pool'.idle = i /\ pool'.hurt = h
  /\ pool'.created = pool.created /\ pool'.gate = pool.gate /\ pool'.reason = pool.reason
  /\ pool'.permits \in [Endpoints \X Clients -> Int] /\ pool'.total \in Int /\ pool'.faults \in Nat

(* A slot of a worker that is past the gate, or passes it, and stays there. *)
Onward(w, r) ==
  /\ r \in Pool!Slot /\ r.of = pool.w[w].of
  /\ r.pipe = pool.w[w].pipe \/ r.pipe # "none"
  /\ r.at \notin {"none", "instance", "spawns"} /\ pool.w[w].at \notin {"none", "instance"}
  /\ pool.gate = "open" \/ pool.w[w].at # "gate"

(* The idle count of its endpoint says whether it waits.                    *)
IdleFollows(w, r, i) ==
  /\ i \in [Endpoints -> Int]
  /\ \A f \in Endpoints :
       i[f] = pool.idle[f] + (IF f = r.of /\ r.at = "waits" THEN 1 ELSE 0)
                           - (IF f = r.of /\ pool.w[w].at = "waits" THEN 1 ELSE 0)

(* It serves only if somebody else does not, or nobody can be added.        *)
MayServe(w) ==
  LET e == pool.w[w].of
  IN  \/ e \in pool'.hurt
      \/ \E x \in Pool!Of(e) \ {w} : pool.w[x].at # "serves"
      \/ Cardinality(Pool!Of(e)) = Pool!Room(e)

(* Counting up or down keeps a table of counts one.                         *)
LEMMA UpdateType ==
  ASSUME NEW D, NEW f \in [D -> Int], NEW k
  PROVE  [f EXCEPT ![k] = @ + 1] \in [D -> Int] /\ [f EXCEPT ![k] = @ - 1] \in [D -> Int]
<1>1. CASE k \in D
  BY <1>1
<1>2. CASE k \notin D
  <2>1. [f EXCEPT ![k] = @ + 1] = f /\ [f EXCEPT ![k] = @ - 1] = f
    BY <1>2
  <2> QED
    BY <2>1
<1> QED
  BY <1>1, <1>2

(* The tables that a step does not name.                                    *)
LEMMA PoolCounters ==
  ASSUME Pool!TypeOK
  PROVE  /\ pool.permits \in [Endpoints \X Clients -> Int]
         /\ pool.total \in Int /\ pool.faults \in Nat
BY DEF Pool!TypeOK

(* A worker that is somewhere has an instance, and is past the gate only    *)
(* once that is open.                                                       *)
LEMMA Placed ==
  ASSUME Pool!Ready, NEW w \in Workers, pool.w[w].at # "none"
  PROVE  /\ pool.w[w].of \in Endpoints /\ pool.w[w].pipe # "none"
         /\ pool.w[w].at \notin {"instance", "gate"} => pool.gate = "open"
<1>1. Pool!StartOK /\ Pool!SlotOK(w)
  BY DEF Pool!Ready
<1> QED
  BY <1>1 DEF Pool!Ready, Pool!SlotOK, Pool!StartOK, Pool!Live

(* A step of that kind is a move, so the invariant stays.                   *)
LEMMA TurnKeeps ==
  ASSUME Pool!Ready, NEW w \in Workers, NEW r, NEW i, NEW h,
         Turns(w, r, i, h), Onward(w, r), IdleFollows(w, r, i),
         pool.hurt \subseteq h, h \subseteq pool.hurt \cup {r.of},
         r.at \in {"ends", "closes"} => r.of \in h,
         r.at = "serves" => MayServe(w)
  PROVE  Pool!Ready'
<1>1. Pool!TypeOK /\ pool.w \in [Workers -> Pool!Slot] /\ pool.w[w] \in Pool!Slot
  BY DEF Pool!Ready, Pool!TypeOK
<1>2. /\ pool'.w[w] = r /\ \A x \in Workers \ {w} : pool'.w[x] = pool.w[x]
      /\ pool'.w \in [Workers -> Pool!Slot]
  BY <1>1 DEF Turns, Onward
<1> DEFINE e == pool.w[w].of
<1>3. e \in Endpoints /\ pool.w[w].pipe # "none" /\ pool.gate = "open" /\ r.of = e
  BY Placed DEF Onward
<1>4. Pool!TypeOK'
  <2>1. h \subseteq Endpoints
    BY <1>1, <1>3 DEF Pool!TypeOK
  <2> QED
    BY <1>1, <1>2, <2>1 DEF Pool!TypeOK, Turns, IdleFollows
<1>5. Pool!Live'
  BY DEF Pool!Ready, Pool!Live, Turns
<1>6. Moves(w)
  <2>1. /\ r.at \notin {"none", "instance", "spawns"} /\ pool.w[w].at \notin {"none", "instance"}
        /\ r.pipe # "none"
    BY <1>3 DEF Onward
  <2>2. /\ pool'.idle = i /\ pool'.hurt = h
        /\ pool'.created = pool.created /\ pool'.gate = pool.gate
    BY DEF Turns
  <2>3. \A f \in Endpoints \ {e} : i[f] = pool.idle[f]
    BY <1>1, <1>3 DEF IdleFollows, Pool!TypeOK
  <2>4. i[e] = pool.idle[e] + (IF r.at = "waits" THEN 1 ELSE 0)
                            - (IF pool.w[w].at = "waits" THEN 1 ELSE 0)
    BY <1>3 DEF IdleFollows
  <2>5. e \notin h => r.at # "ends" /\ r.at # "closes"
    BY <1>3
  <2>6. r.at = "serves" /\ e \notin h =>
          \/ \E x \in Pool!Of(e) \ {w} : pool.w[x].at # "serves"
          \/ Cardinality(Pool!Of(e)) = Pool!Room(e)
    BY <2>2 DEF MayServe
  <2> QED
    BY <1>2, <1>3, <2>1, <2>2, <2>3, <2>4, <2>5, <2>6 DEF Moves
<1> QED
  BY <1>4, <1>5, <1>6, MoveKeeps

(* The slot of a worker whose client has gone again.                        *)
LEMMA EmptySlot ==
  ASSUME NEW s \in Pool!Slot
  PROVE  [s EXCEPT !.at = "loop", !.empty = s.empty + 1, !.pipe = "shut", !.peer = Pool!Nobody] \in Pool!Slot
<1>1. PICK n : n = s.empty + 1
  OBVIOUS
<1>2. n \in Nat
  BY <1>1 DEF Pool!Slot
<1>3. [s EXCEPT !.at = "loop", !.empty = n, !.pipe = "shut", !.peer = Pool!Nobody] \in Pool!Slot
  BY <1>2 DEF Pool!Slot, Pool!Places
<1> QED
  BY <1>1, <1>3

(* The gate opens and the worker goes on.                                   *)
LEMMA EnterLoop ==
  ASSUME Pool!Ready, NEW w \in Workers, pool.w[w].at = "gate",
         pool.gate = "open",
         pool' = [pool EXCEPT !.w[w].at = "loop"]
  PROVE  Pool!Ready'
<1> DEFINE e == pool.w[w].of
           r == [pool.w[w] EXCEPT !.at = "loop"]
           i == pool.idle
           h == pool.hurt
<1>1. Pool!TypeOK /\ pool.w[w] \in Pool!Slot
  BY DEF Pool!Ready, Pool!TypeOK
<1>2. r \in Pool!Slot /\ r.at = "loop" /\ r.of = e /\ r.pipe = pool.w[w].pipe
  BY <1>1 DEF Pool!Slot, Pool!Places, Pool!Nobody
<1>3. pool'.w[w] = r /\ pool'.w = [pool.w EXCEPT ![w] = pool'.w[w]]
  BY <1>1 DEF Pool!TypeOK
<1>4. Turns(w, pool'.w[w], i, h)
  BY <1>1, <1>3, UpdateType DEF Pool!TypeOK, Turns
<1>5. Onward(w, r)
  BY <1>2 DEF Onward
<1>6. IdleFollows(w, r, i)
  BY <1>1, <1>2, UpdateType DEF Pool!TypeOK, IdleFollows
<1> HIDE DEF r, i
<1> QED
  BY <1>2, <1>3, <1>4, <1>5, <1>6, TurnKeeps

(* The engine's data cannot be had.                                         *)
LEMMA EnterFails ==
  ASSUME Pool!Ready, NEW w \in Workers, pool.w[w].at = "gate",
         pool.gate = "open",
         pool' = Pool!Fault([pool EXCEPT !.w[w].at = "ends"], pool.w[w].of)
  PROVE  Pool!Ready'
<1> DEFINE e == pool.w[w].of
           r == [pool.w[w] EXCEPT !.at = "ends"]
           i == pool.idle
           h == pool.hurt \cup {e}
<1>1. Pool!TypeOK /\ pool.w[w] \in Pool!Slot
  BY DEF Pool!Ready, Pool!TypeOK
<1>2. r \in Pool!Slot /\ r.at = "ends" /\ r.of = e /\ r.pipe = pool.w[w].pipe
  BY <1>1 DEF Pool!Slot, Pool!Places, Pool!Nobody
<1>3. pool'.w[w] = r /\ pool'.w = [pool.w EXCEPT ![w] = pool'.w[w]]
  BY <1>1 DEF Pool!TypeOK, Pool!Fault, Pool!Hurts
<1>4. Turns(w, pool'.w[w], i, h)
  <2>1. pool' = [w |-> pool'.w, idle |-> pool'.idle, created |-> pool'.created,
                 total |-> pool'.total, permits |-> pool'.permits, gate |-> pool'.gate,
                 reason |-> pool'.reason, faults |-> pool'.faults, hurt |-> pool'.hurt]
    BY <1>1 DEF Pool!TypeOK, Pool!Fault, Pool!Hurts
  <2>2. pool'.permits = pool.permits /\ pool'.total = pool.total /\ pool'.faults = pool.faults + 1
    BY <1>1 DEF Pool!TypeOK, Pool!Fault, Pool!Hurts
  <2>3. /\ pool'.idle = i /\ pool'.hurt = h
        /\ pool'.created = pool.created /\ pool'.gate = pool.gate /\ pool'.reason = pool.reason
    BY <1>1 DEF Pool!TypeOK, Pool!Fault, Pool!Hurts
  <2>4. pool'.permits \in [Endpoints \X Clients -> Int] /\ pool'.total \in Int /\ pool'.faults \in Nat
    BY <1>1, <2>2, PoolCounters
  <2> QED
    BY <1>3, <2>1, <2>3, <2>4 DEF Turns
<1>5. Onward(w, r)
  BY <1>2 DEF Onward
<1>6. IdleFollows(w, r, i)
  BY <1>1, <1>2, UpdateType DEF Pool!TypeOK, IdleFollows
<1> HIDE DEF r, i
<1> QED
  BY <1>2, <1>3, <1>4, <1>5, <1>6, TurnKeeps

(* The worker offers its instance.                                          *)
LEMMA OfferKeeps ==
  ASSUME Pool!Ready, NEW w \in Workers, pool.w[w].at = "loop",
         pool' = [pool EXCEPT !.w[w].at = "waits", !.idle[pool.w[w].of] = @ + 1,
                            !.w[w].pipe = IF @ = "shut" THEN "open" ELSE @]
  PROVE  Pool!Ready'
<1> DEFINE e == pool.w[w].of
           r == [pool.w[w] EXCEPT !.at = "waits", !.pipe = IF @ = "shut" THEN "open" ELSE @]
           i == [pool.idle EXCEPT ![e] = @ + 1]
           h == pool.hurt
<1>1. Pool!TypeOK /\ pool.w[w] \in Pool!Slot
  BY DEF Pool!Ready, Pool!TypeOK
<1>2. r \in Pool!Slot /\ r.at = "waits" /\ r.of = e /\ r.pipe = (IF pool.w[w].pipe = "shut" THEN "open" ELSE pool.w[w].pipe)
  BY <1>1 DEF Pool!Slot, Pool!Places, Pool!Nobody
<1>3. pool'.w[w] = r /\ pool'.w = [pool.w EXCEPT ![w] = pool'.w[w]]
  BY <1>1 DEF Pool!TypeOK
<1>4. Turns(w, pool'.w[w], i, h)
  BY <1>1, <1>3, UpdateType DEF Pool!TypeOK, Turns
<1>5. Onward(w, r)
  BY <1>2 DEF Onward
<1>6. IdleFollows(w, r, i)
  BY <1>1, <1>2, UpdateType DEF Pool!TypeOK, IdleFollows
<1> HIDE DEF r, i
<1> QED
  BY <1>2, <1>3, <1>4, <1>5, <1>6, TurnKeeps

(* A client is there.                                                       *)
LEMMA AcceptClient ==
  ASSUME Pool!Ready, NEW w \in Workers, pool.w[w].at = "waits",
         pool' = [Pool!Busy(w, "admits") EXCEPT !.w[w].empty = 0]
  PROVE  Pool!Ready'
<1> DEFINE e == pool.w[w].of
           r == [pool.w[w] EXCEPT !.at = "admits", !.empty = 0]
           i == [pool.idle EXCEPT ![e] = @ - 1]
           h == pool.hurt
<1>1. Pool!TypeOK /\ pool.w[w] \in Pool!Slot
  BY DEF Pool!Ready, Pool!TypeOK
<1>2. r \in Pool!Slot /\ r.at = "admits" /\ r.of = e /\ r.pipe = pool.w[w].pipe
  BY <1>1 DEF Pool!Slot, Pool!Places, Pool!Nobody
<1>3. pool'.w[w] = r /\ pool'.w = [pool.w EXCEPT ![w] = pool'.w[w]]
  BY <1>1 DEF Pool!TypeOK, Pool!Busy
<1>4. Turns(w, pool'.w[w], i, h)
  BY <1>1, <1>3, UpdateType DEF Pool!TypeOK, Pool!Busy, Turns
<1>5. Onward(w, r)
  BY <1>2 DEF Onward
<1>6. IdleFollows(w, r, i)
  BY <1>1, <1>2, UpdateType DEF Pool!TypeOK, IdleFollows
<1> HIDE DEF r, i
<1> QED
  BY <1>2, <1>3, <1>4, <1>5, <1>6, TurnKeeps

(* Too many clients in a row have gone again.                               *)
LEMMA AcceptTooMany ==
  ASSUME Pool!Ready, NEW w \in Workers, pool.w[w].at = "waits",
         pool' = Pool!Hurts(Pool!Busy(w, "ends"), pool.w[w].of)
  PROVE  Pool!Ready'
<1> DEFINE e == pool.w[w].of
           r == [pool.w[w] EXCEPT !.at = "ends"]
           i == [pool.idle EXCEPT ![e] = @ - 1]
           h == pool.hurt \cup {e}
<1>1. Pool!TypeOK /\ pool.w[w] \in Pool!Slot
  BY DEF Pool!Ready, Pool!TypeOK
<1>2. r \in Pool!Slot /\ r.at = "ends" /\ r.of = e /\ r.pipe = pool.w[w].pipe
  BY <1>1 DEF Pool!Slot, Pool!Places, Pool!Nobody
<1>3. pool'.w[w] = r /\ pool'.w = [pool.w EXCEPT ![w] = pool'.w[w]]
  BY <1>1 DEF Pool!TypeOK, Pool!Busy, Pool!Hurts
<1>4. Turns(w, pool'.w[w], i, h)
  BY <1>1, <1>3, UpdateType DEF Pool!TypeOK, Pool!Busy, Pool!Hurts, Turns
<1>5. Onward(w, r)
  BY <1>2 DEF Onward
<1>6. IdleFollows(w, r, i)
  BY <1>1, <1>2, UpdateType DEF Pool!TypeOK, IdleFollows
<1> HIDE DEF r, i
<1> QED
  BY <1>2, <1>3, <1>4, <1>5, <1>6, TurnKeeps

(* The client has gone again.                                               *)
LEMMA AcceptGone ==
  ASSUME Pool!Ready, NEW w \in Workers, pool.w[w].at = "waits",
         pool' = [Pool!Shut(Pool!Busy(w, "loop"), w) EXCEPT !.w[w].empty = pool.w[w].empty + 1]
  PROVE  Pool!Ready'
<1> DEFINE e == pool.w[w].of
           r == [pool.w[w] EXCEPT !.at = "loop", !.empty = pool.w[w].empty + 1, !.pipe = "shut", !.peer = Pool!Nobody]
           i == [pool.idle EXCEPT ![e] = @ - 1]
           h == pool.hurt
<1>1. Pool!TypeOK /\ pool.w[w] \in Pool!Slot
  BY DEF Pool!Ready, Pool!TypeOK
<1>2. r \in Pool!Slot /\ r.at = "loop" /\ r.of = e /\ r.pipe = "shut"
  BY <1>1, EmptySlot DEF Pool!Slot, Pool!Places, Pool!Nobody
<1>3. pool'.w[w] = r /\ pool'.w = [pool.w EXCEPT ![w] = pool'.w[w]]
  BY <1>1 DEF Pool!TypeOK, Pool!Busy, Pool!Shut
<1>4. Turns(w, pool'.w[w], i, h)
  BY <1>1, <1>3, UpdateType DEF Pool!TypeOK, Pool!Busy, Pool!Shut, Turns
<1>5. Onward(w, r)
  BY <1>2 DEF Onward
<1>6. IdleFollows(w, r, i)
  BY <1>1, <1>2, UpdateType DEF Pool!TypeOK, IdleFollows
<1> HIDE DEF r, i
<1> QED
  BY <1>2, <1>3, <1>4, <1>5, <1>6, TurnKeeps

(* The accept fails.                                                        *)
LEMMA AcceptBreaks ==
  ASSUME Pool!Ready, NEW w \in Workers, pool.w[w].at = "waits",
         pool' = Pool!Fault(Pool!Busy(w, "ends"), pool.w[w].of)
  PROVE  Pool!Ready'
<1> DEFINE e == pool.w[w].of
           r == [pool.w[w] EXCEPT !.at = "ends"]
           i == [pool.idle EXCEPT ![e] = @ - 1]
           h == pool.hurt \cup {e}
<1>1. Pool!TypeOK /\ pool.w[w] \in Pool!Slot
  BY DEF Pool!Ready, Pool!TypeOK
<1>2. r \in Pool!Slot /\ r.at = "ends" /\ r.of = e /\ r.pipe = pool.w[w].pipe
  BY <1>1 DEF Pool!Slot, Pool!Places, Pool!Nobody
<1>3. pool'.w[w] = r /\ pool'.w = [pool.w EXCEPT ![w] = pool'.w[w]]
  BY <1>1 DEF Pool!TypeOK, Pool!Busy, Pool!Fault, Pool!Hurts
<1>4. Turns(w, pool'.w[w], i, h)
  <2>1. pool' = [w |-> pool'.w, idle |-> pool'.idle, created |-> pool'.created,
                 total |-> pool'.total, permits |-> pool'.permits, gate |-> pool'.gate,
                 reason |-> pool'.reason, faults |-> pool'.faults, hurt |-> pool'.hurt]
    BY <1>1 DEF Pool!TypeOK, Pool!Busy, Pool!Fault, Pool!Hurts
  <2>2. pool'.permits = pool.permits /\ pool'.total = pool.total /\ pool'.faults = pool.faults + 1
    BY <1>1 DEF Pool!TypeOK, Pool!Busy, Pool!Fault, Pool!Hurts
  <2>3. /\ pool'.idle = i /\ pool'.hurt = h
        /\ pool'.created = pool.created /\ pool'.gate = pool.gate /\ pool'.reason = pool.reason
    BY <1>1 DEF Pool!TypeOK, Pool!Busy, Pool!Fault, Pool!Hurts
  <2>4. pool'.permits \in [Endpoints \X Clients -> Int] /\ pool'.total \in Int /\ pool'.faults \in Nat
    BY <1>1, <2>2, PoolCounters
  <2> QED
    BY <1>3, <2>1, <2>3, <2>4 DEF Turns
<1>5. Onward(w, r)
  BY <1>2 DEF Onward
<1>6. IdleFollows(w, r, i)
  BY <1>1, <1>2, UpdateType DEF Pool!TypeOK, IdleFollows
<1> HIDE DEF r, i
<1> QED
  BY <1>2, <1>3, <1>4, <1>5, <1>6, TurnKeeps

(* The client is admitted.                                                  *)
LEMMA AdmitClient ==
  ASSUME Pool!Ready, NEW w \in Workers, pool.w[w].at = "admits",
         pool' = [pool EXCEPT !.permits[<<pool.w[w].of, pool.w[w].peer>>] = @ + 1,
                            !.w[w].at = "looks"]
  PROVE  Pool!Ready'
<1> DEFINE e == pool.w[w].of
           r == [pool.w[w] EXCEPT !.at = "looks"]
           i == pool.idle
           h == pool.hurt
<1>1. Pool!TypeOK /\ pool.w[w] \in Pool!Slot
  BY DEF Pool!Ready, Pool!TypeOK
<1>2. r \in Pool!Slot /\ r.at = "looks" /\ r.of = e /\ r.pipe = pool.w[w].pipe
  BY <1>1 DEF Pool!Slot, Pool!Places, Pool!Nobody
<1>3. pool'.w[w] = r /\ pool'.w = [pool.w EXCEPT ![w] = pool'.w[w]]
  BY <1>1 DEF Pool!TypeOK
<1>4. Turns(w, pool'.w[w], i, h)
  BY <1>1, <1>3, UpdateType DEF Pool!TypeOK, Turns
<1>5. Onward(w, r)
  BY <1>2 DEF Onward
<1>6. IdleFollows(w, r, i)
  BY <1>1, <1>2, UpdateType DEF Pool!TypeOK, IdleFollows
<1> HIDE DEF r, i
<1> QED
  BY <1>2, <1>3, <1>4, <1>5, <1>6, TurnKeeps

(* The client is turned away.                                               *)
LEMMA TurnAway ==
  ASSUME Pool!Ready, NEW w \in Workers, pool.w[w].at = "admits",
         pool' = [Pool!Shut(pool, w) EXCEPT !.w[w].at = "loop"]
  PROVE  Pool!Ready'
<1> DEFINE e == pool.w[w].of
           r == [pool.w[w] EXCEPT !.at = "loop", !.pipe = "shut", !.peer = Pool!Nobody]
           i == pool.idle
           h == pool.hurt
<1>1. Pool!TypeOK /\ pool.w[w] \in Pool!Slot
  BY DEF Pool!Ready, Pool!TypeOK
<1>2. r \in Pool!Slot /\ r.at = "loop" /\ r.of = e /\ r.pipe = "shut"
  BY <1>1 DEF Pool!Slot, Pool!Places, Pool!Nobody
<1>3. pool'.w[w] = r /\ pool'.w = [pool.w EXCEPT ![w] = pool'.w[w]]
  BY <1>1 DEF Pool!TypeOK, Pool!Shut
<1>4. Turns(w, pool'.w[w], i, h)
  BY <1>1, <1>3, UpdateType DEF Pool!TypeOK, Pool!Shut, Turns
<1>5. Onward(w, r)
  BY <1>2 DEF Onward
<1>6. IdleFollows(w, r, i)
  BY <1>1, <1>2, UpdateType DEF Pool!TypeOK, IdleFollows
<1> HIDE DEF r, i
<1> QED
  BY <1>2, <1>3, <1>4, <1>5, <1>6, TurnKeeps

(* serve() ends.                                                            *)
LEMMA ServeEnds ==
  ASSUME Pool!Ready, NEW w \in Workers, pool.w[w].at = "serves",
         pool' = [pool EXCEPT !.w[w].at = "resets", !.w[w].pipe = "shut"]
  PROVE  Pool!Ready'
<1> DEFINE e == pool.w[w].of
           r == [pool.w[w] EXCEPT !.at = "resets", !.pipe = "shut"]
           i == pool.idle
           h == pool.hurt
<1>1. Pool!TypeOK /\ pool.w[w] \in Pool!Slot
  BY DEF Pool!Ready, Pool!TypeOK
<1>2. r \in Pool!Slot /\ r.at = "resets" /\ r.of = e /\ r.pipe = "shut"
  BY <1>1 DEF Pool!Slot, Pool!Places, Pool!Nobody
<1>3. pool'.w[w] = r /\ pool'.w = [pool.w EXCEPT ![w] = pool'.w[w]]
  BY <1>1 DEF Pool!TypeOK
<1>4. Turns(w, pool'.w[w], i, h)
  BY <1>1, <1>3, UpdateType DEF Pool!TypeOK, Turns
<1>5. Onward(w, r)
  BY <1>2 DEF Onward
<1>6. IdleFollows(w, r, i)
  BY <1>1, <1>2, UpdateType DEF Pool!TypeOK, IdleFollows
<1> HIDE DEF r, i
<1> QED
  BY <1>2, <1>3, <1>4, <1>5, <1>6, TurnKeeps

(* The permit goes last.                                                    *)
LEMMA ResetKeeps ==
  ASSUME Pool!Ready, NEW w \in Workers, pool.w[w].at = "resets",
         pool' = [Pool!Permitless(pool, w) EXCEPT !.w[w].at = "loop"]
  PROVE  Pool!Ready'
<1> DEFINE e == pool.w[w].of
           r == [pool.w[w] EXCEPT !.at = "loop", !.peer = Pool!Nobody]
           i == pool.idle
           h == pool.hurt
<1>1. Pool!TypeOK /\ pool.w[w] \in Pool!Slot
  BY DEF Pool!Ready, Pool!TypeOK
<1>2. r \in Pool!Slot /\ r.at = "loop" /\ r.of = e /\ r.pipe = pool.w[w].pipe
  BY <1>1 DEF Pool!Slot, Pool!Places, Pool!Nobody
<1>3. pool'.w[w] = r /\ pool'.w = [pool.w EXCEPT ![w] = pool'.w[w]]
  BY <1>1 DEF Pool!TypeOK, Pool!Permitless
<1>4. Turns(w, pool'.w[w], i, h)
  BY <1>1, <1>3, UpdateType DEF Pool!TypeOK, Pool!Permitless, Turns
<1>5. Onward(w, r)
  BY <1>2 DEF Onward
<1>6. IdleFollows(w, r, i)
  BY <1>1, <1>2, UpdateType DEF Pool!TypeOK, IdleFollows
<1> HIDE DEF r, i
<1> QED
  BY <1>2, <1>3, <1>4, <1>5, <1>6, TurnKeeps

(* Another worker waits, so this one serves.                                *)
LEMMA ReadIdleServes ==
  ASSUME Pool!Ready, NEW w \in Workers, pool.w[w].at = "looks",
         pool.idle[pool.w[w].of] > 0,
         pool' = [pool EXCEPT !.w[w].at = "serves"]
  PROVE  Pool!Ready'
<1> DEFINE e == pool.w[w].of
           r == [pool.w[w] EXCEPT !.at = "serves"]
           i == pool.idle
           h == pool.hurt
<1>1. Pool!TypeOK /\ pool.w[w] \in Pool!Slot
  BY DEF Pool!Ready, Pool!TypeOK
<1>2. r \in Pool!Slot /\ r.at = "serves" /\ r.of = e /\ r.pipe = pool.w[w].pipe
  BY <1>1 DEF Pool!Slot, Pool!Places, Pool!Nobody
<1>3. pool'.w[w] = r /\ pool'.w = [pool.w EXCEPT ![w] = pool'.w[w]]
  BY <1>1 DEF Pool!TypeOK
<1>4. Turns(w, pool'.w[w], i, h)
  BY <1>1, <1>3, UpdateType DEF Pool!TypeOK, Turns
<1>5. Onward(w, r)
  BY <1>2 DEF Onward
<1>6. IdleFollows(w, r, i)
  BY <1>1, <1>2, UpdateType DEF Pool!TypeOK, IdleFollows
<1>7. MayServe(w)
  <2>1. e \in Endpoints
    BY Placed
  <2> SUFFICES ASSUME e \notin pool.hurt PROVE \E x \in Pool!Of(e) \ {w} : pool.w[x].at # "serves"
    BY <1>4 DEF MayServe, Turns
  <2>2. pool.idle[e] = Cardinality(Pool!WaitingOf(e))
    BY <2>1, SameCount DEF Pool!Ready, Pool!CountsOK
  <2>3. Pool!WaitingOf(e) # {}
    BY <2>2, FS_EmptySet
  <2> QED
    BY <2>3 DEF Pool!WaitingOf
<1> HIDE DEF r, i
<1> QED
  BY <1>2, <1>3, <1>4, <1>5, <1>6, <1>7, TurnKeeps

(* Nobody waits.                                                            *)
LEMMA ReadIdleCounts ==
  ASSUME Pool!Ready, NEW w \in Workers, pool.w[w].at = "looks",
         pool' = [pool EXCEPT !.w[w].at = "counts"]
  PROVE  Pool!Ready'
<1> DEFINE e == pool.w[w].of
           r == [pool.w[w] EXCEPT !.at = "counts"]
           i == pool.idle
           h == pool.hurt
<1>1. Pool!TypeOK /\ pool.w[w] \in Pool!Slot
  BY DEF Pool!Ready, Pool!TypeOK
<1>2. r \in Pool!Slot /\ r.at = "counts" /\ r.of = e /\ r.pipe = pool.w[w].pipe
  BY <1>1 DEF Pool!Slot, Pool!Places, Pool!Nobody
<1>3. pool'.w[w] = r /\ pool'.w = [pool.w EXCEPT ![w] = pool'.w[w]]
  BY <1>1 DEF Pool!TypeOK
<1>4. Turns(w, pool'.w[w], i, h)
  BY <1>1, <1>3, UpdateType DEF Pool!TypeOK, Turns
<1>5. Onward(w, r)
  BY <1>2 DEF Onward
<1>6. IdleFollows(w, r, i)
  BY <1>1, <1>2, UpdateType DEF Pool!TypeOK, IdleFollows
<1> HIDE DEF r, i
<1> QED
  BY <1>2, <1>3, <1>4, <1>5, <1>6, TurnKeeps

(* The endpoint is full, so the worker serves.                              *)
LEMMA ReadCreatedServes ==
  ASSUME Pool!Ready, NEW w \in Workers, pool.w[w].at = "counts",
         pool.created[pool.w[w].of] >= Pool!Room(pool.w[w].of),
         pool' = [pool EXCEPT !.w[w].at = "serves"]
  PROVE  Pool!Ready'
<1> DEFINE e == pool.w[w].of
           r == [pool.w[w] EXCEPT !.at = "serves"]
           i == pool.idle
           h == pool.hurt
<1>1. Pool!TypeOK /\ pool.w[w] \in Pool!Slot
  BY DEF Pool!Ready, Pool!TypeOK
<1>2. r \in Pool!Slot /\ r.at = "serves" /\ r.of = e /\ r.pipe = pool.w[w].pipe
  BY <1>1 DEF Pool!Slot, Pool!Places, Pool!Nobody
<1>3. pool'.w[w] = r /\ pool'.w = [pool.w EXCEPT ![w] = pool'.w[w]]
  BY <1>1 DEF Pool!TypeOK
<1>4. Turns(w, pool'.w[w], i, h)
  BY <1>1, <1>3, UpdateType DEF Pool!TypeOK, Turns
<1>5. Onward(w, r)
  BY <1>2 DEF Onward
<1>6. IdleFollows(w, r, i)
  BY <1>1, <1>2, UpdateType DEF Pool!TypeOK, IdleFollows
<1>7. MayServe(w)
  <2>1. e \in Endpoints
    BY Placed
  <2> SUFFICES ASSUME e \notin pool.hurt PROVE Cardinality(Pool!Of(e)) = Pool!Room(e)
    BY <1>4 DEF MayServe, Turns
  <2>2. pool.created[e] = Cardinality(Pool!SlotsOf(e)) /\ Cardinality(Pool!Of(e)) <= Pool!Room(e)
    BY <2>1, SameCount DEF Pool!Ready, Pool!CountsOK, Pool!RoomOK
  <2>3. Pool!SlotsOf(e) \subseteq Pool!Of(e)
    BY DEF Pool!SlotsOf
  <2>4. Cardinality(Pool!SlotsOf(e)) <= Cardinality(Pool!Of(e)) /\ Cardinality(Pool!Of(e)) \in Nat
    BY <2>3, PoolFinite, FS_Subset, FS_CardinalityType
  <2> QED
    BY <2>2, <2>4, FS_CardinalityType, PoolFinite, RoomPositive
<1> HIDE DEF r, i
<1> QED
  BY <1>2, <1>3, <1>4, <1>5, <1>6, <1>7, TurnKeeps

(* There is room for one more.                                              *)
LEMMA ReadCreatedCreates ==
  ASSUME Pool!Ready, NEW w \in Workers, pool.w[w].at = "counts",
         pool' = [pool EXCEPT !.w[w].at = "creates"]
  PROVE  Pool!Ready'
<1> DEFINE e == pool.w[w].of
           r == [pool.w[w] EXCEPT !.at = "creates"]
           i == pool.idle
           h == pool.hurt
<1>1. Pool!TypeOK /\ pool.w[w] \in Pool!Slot
  BY DEF Pool!Ready, Pool!TypeOK
<1>2. r \in Pool!Slot /\ r.at = "creates" /\ r.of = e /\ r.pipe = pool.w[w].pipe
  BY <1>1 DEF Pool!Slot, Pool!Places, Pool!Nobody
<1>3. pool'.w[w] = r /\ pool'.w = [pool.w EXCEPT ![w] = pool'.w[w]]
  BY <1>1 DEF Pool!TypeOK
<1>4. Turns(w, pool'.w[w], i, h)
  BY <1>1, <1>3, UpdateType DEF Pool!TypeOK, Turns
<1>5. Onward(w, r)
  BY <1>2 DEF Onward
<1>6. IdleFollows(w, r, i)
  BY <1>1, <1>2, UpdateType DEF Pool!TypeOK, IdleFollows
<1> HIDE DEF r, i
<1> QED
  BY <1>2, <1>3, <1>4, <1>5, <1>6, TurnKeeps

(* Windows makes no more instances.                                         *)
LEMMA CreateFull ==
  ASSUME Pool!Ready, NEW w \in Workers, pool.w[w].at = "creates",
         Pool!Cardinality(Pool!Piped(pool.w[w].of)) >= Pool!Room(pool.w[w].of),
         pool' = [pool EXCEPT !.w[w].at = "serves"]
  PROVE  Pool!Ready'
<1> DEFINE e == pool.w[w].of
           r == [pool.w[w] EXCEPT !.at = "serves"]
           i == pool.idle
           h == pool.hurt
<1>1. Pool!TypeOK /\ pool.w[w] \in Pool!Slot
  BY DEF Pool!Ready, Pool!TypeOK
<1>2. r \in Pool!Slot /\ r.at = "serves" /\ r.of = e /\ r.pipe = pool.w[w].pipe
  BY <1>1 DEF Pool!Slot, Pool!Places, Pool!Nobody
<1>3. pool'.w[w] = r /\ pool'.w = [pool.w EXCEPT ![w] = pool'.w[w]]
  BY <1>1 DEF Pool!TypeOK
<1>4. Turns(w, pool'.w[w], i, h)
  BY <1>1, <1>3, UpdateType DEF Pool!TypeOK, Turns
<1>5. Onward(w, r)
  BY <1>2 DEF Onward
<1>6. IdleFollows(w, r, i)
  BY <1>1, <1>2, UpdateType DEF Pool!TypeOK, IdleFollows
<1>7. MayServe(w)
  <2>1. e \in Endpoints
    BY Placed
  <2>2. Cardinality(Pool!Of(e)) <= Pool!Room(e) /\ Cardinality(Pool!Piped(e)) >= Pool!Room(e)
    BY <2>1, SameCount DEF Pool!Ready, Pool!RoomOK
  <2>3. Cardinality(Pool!Piped(e)) <= Cardinality(Pool!Of(e))
    BY PoolFinite, FS_Subset DEF Pool!Piped
  <2>4. Cardinality(Pool!Piped(e)) \in Nat /\ Cardinality(Pool!Of(e)) \in Nat
    BY PoolFinite, FS_Subset, FS_CardinalityType DEF Pool!Piped
  <2> QED
    BY <2>2, <2>3, <2>4, RoomPositive DEF MayServe
<1> HIDE DEF r, i
<1> QED
  BY <1>2, <1>3, <1>4, <1>5, <1>6, <1>7, TurnKeeps

(* The instance cannot be made.                                             *)
LEMMA CreateFails ==
  ASSUME Pool!Ready, NEW w \in Workers, pool.w[w].at = "creates",
         pool' = Pool!Fault([pool EXCEPT !.w[w].at = "serves"], pool.w[w].of)
  PROVE  Pool!Ready'
<1> DEFINE e == pool.w[w].of
           r == [pool.w[w] EXCEPT !.at = "serves"]
           i == pool.idle
           h == pool.hurt \cup {e}
<1>1. Pool!TypeOK /\ pool.w[w] \in Pool!Slot
  BY DEF Pool!Ready, Pool!TypeOK
<1>2. r \in Pool!Slot /\ r.at = "serves" /\ r.of = e /\ r.pipe = pool.w[w].pipe
  BY <1>1 DEF Pool!Slot, Pool!Places, Pool!Nobody
<1>3. pool'.w[w] = r /\ pool'.w = [pool.w EXCEPT ![w] = pool'.w[w]]
  BY <1>1 DEF Pool!TypeOK, Pool!Fault, Pool!Hurts
<1>4. Turns(w, pool'.w[w], i, h)
  <2>1. pool' = [w |-> pool'.w, idle |-> pool'.idle, created |-> pool'.created,
                 total |-> pool'.total, permits |-> pool'.permits, gate |-> pool'.gate,
                 reason |-> pool'.reason, faults |-> pool'.faults, hurt |-> pool'.hurt]
    BY <1>1 DEF Pool!TypeOK, Pool!Fault, Pool!Hurts
  <2>2. pool'.permits = pool.permits /\ pool'.total = pool.total /\ pool'.faults = pool.faults + 1
    BY <1>1 DEF Pool!TypeOK, Pool!Fault, Pool!Hurts
  <2>3. /\ pool'.idle = i /\ pool'.hurt = h
        /\ pool'.created = pool.created /\ pool'.gate = pool.gate /\ pool'.reason = pool.reason
    BY <1>1 DEF Pool!TypeOK, Pool!Fault, Pool!Hurts
  <2>4. pool'.permits \in [Endpoints \X Clients -> Int] /\ pool'.total \in Int /\ pool'.faults \in Nat
    BY <1>1, <2>2, PoolCounters
  <2> QED
    BY <1>3, <2>1, <2>3, <2>4 DEF Turns
<1>5. Onward(w, r)
  BY <1>2 DEF Onward
<1>6. IdleFollows(w, r, i)
  BY <1>1, <1>2, UpdateType DEF Pool!TypeOK, IdleFollows
<1>7. MayServe(w)
  BY <1>4 DEF MayServe, Turns
<1> HIDE DEF r, i
<1> QED
  BY <1>2, <1>3, <1>4, <1>5, <1>6, <1>7, TurnKeeps

(* A client changes nothing but the pipe.                                   *)
LEMMA ClientKeeps ==
  ASSUME Pool!Ready, NEW w \in Workers, NEW pipe \in {"taken", "left"}, NEW peer \in Clients \cup {Pool!Nobody},
         pool.w[w].pipe # "none",
         pool' = [pool EXCEPT !.w[w].pipe = pipe, !.w[w].peer = peer]
  PROVE  Pool!Ready'
<1> DEFINE r == [pool.w[w] EXCEPT !.pipe = pipe, !.peer = peer]
<1>1. Pool!TypeOK /\ pool.w \in [Workers -> Pool!Slot] /\ pool.w[w] \in Pool!Slot
  BY DEF Pool!Ready, Pool!TypeOK
<1>2. /\ r \in Pool!Slot /\ r.pipe = pipe /\ r.at = pool.w[w].at /\ r.of = pool.w[w].of
      /\ r.adds = pool.w[w].adds
  BY <1>1 DEF Pool!Slot
<1>3. pool'.w[w] = r /\ pool'.w = [pool.w EXCEPT ![w] = pool'.w[w]]
  BY <1>1 DEF Pool!TypeOK
<1>4. pool.w[w].at # "none" /\ pool.w[w].of \in Endpoints
  BY DEF Pool!Ready, Pool!SlotOK, Pool!Unborn
<1> HIDE DEF r
<1>5. Pool!TypeOK'
  <2>1. pool' = [pool EXCEPT !.w = pool'.w]
    BY <1>1 DEF Pool!TypeOK
  <2>2. pool'.w \in [Workers -> Pool!Slot]
    BY <1>1, <1>2, <1>3
  <2> QED
    BY <1>1, <2>1, <2>2 DEF Pool!TypeOK
<1>6. /\ pool'.gate = pool.gate /\ pool'.hurt = pool.hurt
      /\ pool'.idle = pool.idle /\ pool'.created = pool.created /\ pool'.reason = pool.reason
  BY <1>1 DEF Pool!TypeOK
<1>7. pool'.w[w] = r /\ \A x \in Workers \ {w} : pool'.w[x] = pool.w[x]
  BY <1>1, <1>3
<1>8. Pool!Live'
  BY <1>6 DEF Pool!Ready, Pool!Live
<1>9. pool.idle[pool.w[w].of] \in Int
  BY <1>1, <1>4 DEF Pool!TypeOK
<1>10. pool.w[w].of \notin pool.hurt => pool.w[w].at # "ends" /\ pool.w[w].at # "closes"
  BY <1>4 DEF Pool!Ready, Pool!CountsOK, Pool!Of
<1>11. pool.idle[pool.w[w].of] = pool.idle[pool.w[w].of] + (IF r.at = "waits" THEN 1 ELSE 0)
                                                         - (IF pool.w[w].at = "waits" THEN 1 ELSE 0)
  BY <1>2, <1>9
<1>12. Moves(w)
  BY <1>11, <1>2, <1>4, <1>6, <1>7, <1>9, <1>10 DEF Moves
<1> QED
  BY <1>5, <1>8, <1>12, MoveKeeps

(* Who ends has cost its endpoint a worker.                                 *)
LEMMA EndingHurts ==
  ASSUME Pool!Ready, NEW w \in Workers, pool.w[w].at \in {"ends", "closes"}
  PROVE  pool.w[w].of \in Endpoints /\ pool.w[w].of \in pool.hurt
<1>1. pool.w[w].of \in Endpoints
  BY Placed
<1> QED
  BY <1>1 DEF Pool!Ready, Pool!CountsOK, Pool!Of

(* The worker's slot goes.                                                  *)
LEMMA DropKeeps ==
  ASSUME Pool!Ready, NEW w \in Workers, Pool!DropSlot(w), Pool!Live'
  PROVE  Pool!Ready'
<1> DEFINE e == pool.w[w].of
           p == [pool EXCEPT !.created[pool.w[w].of] = @ - 1, !.total = @ - 1, !.w[w].at = "closes"]
<1>1. Pool!TypeOK /\ pool.w \in [Workers -> Pool!Slot] /\ pool.w[w] \in Pool!Slot /\ pool.w[w].at = "ends"
  BY DEF Pool!Ready, Pool!TypeOK, Pool!DropSlot
<1>2. pool' = p \/ (pool' = [p EXCEPT !.reason = "LastInstanceGone"])
  BY DEF Pool!DropSlot, Pool!Reasoned
<1>3. [p EXCEPT !.reason = "LastInstanceGone"].reason = "LastInstanceGone"
  BY <1>1 DEF Pool!TypeOK
<1>4. pool' = p
  BY <1>2, <1>3 DEF Pool!Live
<1> DEFINE r == [pool.w[w] EXCEPT !.at = "closes"]
<1>5. r \in Pool!Slot /\ r.at = "closes" /\ r.of = e /\ r.pipe = pool.w[w].pipe
  BY <1>1 DEF Pool!Slot, Pool!Places
<1>6. pool'.w[w] = r /\ pool'.w = [pool.w EXCEPT ![w] = pool'.w[w]]
  BY <1>1, <1>4 DEF Pool!TypeOK
<1>7. /\ pool'.idle = pool.idle /\ pool'.hurt = pool.hurt /\ pool'.gate = pool.gate
      /\ pool'.reason = pool.reason /\ pool'.permits = pool.permits /\ pool'.faults = pool.faults
      /\ pool'.created = [pool.created EXCEPT ![e] = @ - 1] /\ pool'.total = pool.total - 1
  BY <1>1, <1>4 DEF Pool!TypeOK
<1>8. pool' = [w |-> pool'.w, idle |-> pool'.idle, created |-> pool'.created,
               total |-> pool'.total, permits |-> pool'.permits, gate |-> pool'.gate,
               reason |-> pool'.reason, faults |-> pool'.faults, hurt |-> pool'.hurt]
  BY <1>1, <1>4 DEF Pool!TypeOK
<1> HIDE DEF r, p
<1>9. pool'.w \in [Workers -> Pool!Slot] /\ \A x \in Workers \ {w} : pool'.w[x] = pool.w[x]
  BY <1>1, <1>5, <1>6
<1>10. pool'.created \in [Endpoints -> Int]
  BY <1>1, <1>7, UpdateType DEF Pool!TypeOK
<1>11. Pool!TypeOK'
  BY <1>1, <1>7, <1>8, <1>9, <1>10 DEF Pool!TypeOK
<1>12. e \in Endpoints /\ e \in pool.hurt /\ pool.w[w].pipe # "none" /\ pool.gate = "open"
  BY <1>1, EndingHurts, Placed
<1>13. \A f \in Endpoints \ {e} : pool'.created[f] = pool.created[f]
  BY <1>1, <1>7 DEF Pool!TypeOK
<1>14. Moves(w)
  BY <1>1, <1>5, <1>6, <1>7, <1>9, <1>12, <1>13 DEF Moves
<1> QED
  BY <1>11, <1>14, MoveKeeps

(* A worker v of endpoint e gets a name: e has room, and whoever adds it    *)
(* remembers it.                                                            *)
Born(v, e) ==
  /\ pool.w[v] = Pool!Unborn
  /\ pool'.w[v].at = "instance" /\ pool'.w[v].of = e /\ pool'.w[v].pipe = "open"
  /\ \A x \in Workers \ {v} :
       \/ pool'.w[x] = pool.w[x]
       \/ /\ pool.w[x].at = "creates" /\ pool'.w[x].at = "spawns" /\ pool'.w[x].adds = v
          /\ pool.w[x].of = e /\ pool'.w[x].of = e /\ pool'.w[x].pipe # "none"
          /\ \A y \in Workers \ {v, x} : pool'.w[y] = pool.w[y]
  /\ pool'.gate = pool.gate
  /\ pool'.idle = pool.idle /\ pool'.created = pool.created /\ pool'.hurt = pool.hurt
  /\ Cardinality(Pool!Of(e)) < Pool!Room(e) /\ pool.gate \in {"instances", "open"}

(* A worker with a new name leaves the invariant as it is: it waits to be   *)
(* started, so neither counter knows it.                                    *)
LEMMA BornKeeps ==
  ASSUME Pool!Ready, Pool!TypeOK', Pool!Live', NEW v \in Workers, NEW e \in Endpoints, Born(v, e)
  PROVE  Pool!Ready'
<1>1. /\ Pool!TypeOK /\ Pool!StartOK
      /\ \A x \in Workers : Pool!SlotOK(x) /\ Pool!AddsOK(x)
      /\ \A f \in Endpoints : Pool!RoomOK(f) /\ (f \notin pool.hurt => Pool!CountsOK(f))
  BY DEF Pool!Ready
<1>2. pool.w[v].at = "none" /\ pool.w[v].of = "none"
  BY DEF Born, Pool!Unborn
<1>3. /\ pool'.w[v].at = "instance" /\ pool'.w[v].of = e /\ pool'.w[v].pipe = "open"
      /\ pool'.gate = pool.gate /\ pool.gate \in {"instances", "open"}
      /\ pool'.idle = pool.idle /\ pool'.created = pool.created /\ pool'.hurt = pool.hurt
      /\ Cardinality(Pool!Of(e)) < Pool!Room(e)
  BY DEF Born
<1>4. \A x \in Workers \ {v} :
        \/ pool'.w[x] = pool.w[x]
        \/ /\ pool.w[x].at = "creates" /\ pool'.w[x].at = "spawns" /\ pool'.w[x].adds = v
           /\ pool.w[x].of = e /\ pool'.w[x].of = e /\ pool'.w[x].pipe # "none"
           /\ \A y \in Workers \ {v, x} : pool'.w[y] = pool.w[y]
  BY DEF Born
<1>5. e # "none"
  BY EndpointAssumption
<1>6. \A x \in Workers \ {v} : /\ pool'.w[x].of = pool.w[x].of
                               /\ pool'.w[x].at = "waits" <=> pool.w[x].at = "waits"
                               /\ pool'.w[x].at = "instance" <=> pool.w[x].at = "instance"
                               /\ pool'.w[x].at = "serves" <=> pool.w[x].at = "serves"
                               /\ pool'.w[x].at \in {"ends", "closes"} => pool.w[x].at \in {"ends", "closes"}
  BY <1>4
<1>7. /\ v \notin Pool!Of(e) /\ Pool!Of(e)' = Pool!Of(e) \cup {v}
      /\ \A f \in Endpoints \ {e} : Pool!Of(f)' = Pool!Of(f)
  BY <1>2, <1>3, <1>5, <1>6, EndpointAssumption DEF Pool!Of
<1>8. \A f \in Endpoints : Pool!WaitingOf(f)' = Pool!WaitingOf(f) /\ Pool!SlotsOf(f)' = Pool!SlotsOf(f)
  BY <1>2, <1>3, <1>6, EndpointAssumption DEF Pool!WaitingOf, Pool!SlotsOf, Pool!Of
<1>9. Pool!StartOK'
  <2>1. CASE pool.gate = "instances"
    <3>1. \A x \in Workers : pool.w[x].at \in {"none", "instance"}
      BY <1>1, <2>1 DEF Pool!StartOK
    <3> QED
      BY <1>3, <1>4, <2>1, <3>1 DEF Pool!StartOK
  <2>2. CASE pool.gate = "open"
    BY <1>3, <2>2 DEF Pool!StartOK
  <2> QED
    BY <1>3, <2>1, <2>2
<1>10. ASSUME NEW x \in Workers PROVE Pool!SlotOK(x)'
  BY <1>1, <1>3, <1>4 DEF Pool!SlotOK, Pool!Unborn, Pool!Nobody
<1>11. ASSUME NEW x \in Workers PROVE Pool!AddsOK(x)'
  <2>1. \A y \in Workers : pool.w[y].at = "spawns" => pool.w[y].adds # v
    BY <1>1, <1>2 DEF Pool!AddsOK
  <2>2. Pool!AddsOK(x)
    BY <1>1
  <2>3. CASE x # v /\ pool'.w[x] # pool.w[x]
    <3>1. /\ pool'.w[x].at = "spawns" /\ pool'.w[x].adds = v /\ pool'.w[x].of = e
          /\ \A y \in Workers \ {v, x} : pool'.w[y] = pool.w[y]
      BY <1>4, <2>3
    <3> QED
      BY <1>3, <2>1, <3>1 DEF Pool!AddsOK
  <2>4. CASE x = v
    BY <1>3, <2>4 DEF Pool!AddsOK
  <2>5. CASE x # v /\ pool'.w[x] = pool.w[x]
    <3> SUFFICES ASSUME pool.w[x].at = "spawns" PROVE Pool!AddsOK(x)'
      BY <2>5 DEF Pool!AddsOK
    <3> DEFINE u == pool.w[x].adds
    <3>1. /\ u \in Workers /\ u # v /\ pool.w[u].at = "instance" /\ pool.w[u].of = pool.w[x].of
          /\ \A y \in Workers : pool.w[y].at = "spawns" /\ pool.w[y].adds = u => y = x
      BY <2>1, <2>2 DEF Pool!AddsOK
    <3>2. pool'.w[u].at = "instance" /\ pool'.w[u].of = pool.w[x].of
      BY <1>6, <3>1
    <3>3. \A y \in Workers : pool'.w[y].at = "spawns" /\ pool'.w[y].adds = u => y = x
      BY <1>3, <1>4, <3>1
    <3> QED
      BY <2>5, <3>1, <3>2, <3>3 DEF Pool!AddsOK
  <2> QED
    BY <2>3, <2>4, <2>5
<1>12. ASSUME NEW f \in Endpoints PROVE Pool!RoomOK(f)'
  <2>1. CASE f = e
    <3>1. Cardinality(Pool!Of(e) \cup {v}) = Cardinality(Pool!Of(e)) + 1 /\ Cardinality(Pool!Of(e)) \in Nat
      BY <1>7, PoolFinite, CountOne
    <3> QED
      BY <1>3, <1>7, <2>1, <3>1, SameCount, RoomPositive DEF Pool!RoomOK, Pool!Room
  <2>2. CASE f # e
    BY <1>1, <1>7, <2>2 DEF Pool!RoomOK, Pool!Room
  <2> QED
    BY <2>1, <2>2
<1>13. ASSUME NEW f \in Endpoints, f \notin pool'.hurt PROVE Pool!CountsOK(f)'
  <2>1. Pool!CountsOK(f)
    BY <1>1, <1>3, <1>13
  <2>2. \A x \in Pool!Of(f)' : pool'.w[x].at \notin {"ends", "closes"}
    BY <1>3, <1>6, <1>7, <2>1 DEF Pool!CountsOK, Pool!Of
  <2>3. pool'.idle[f] = Pool!Cardinality(Pool!WaitingOf(f)') /\ pool'.created[f] = Pool!Cardinality(Pool!SlotsOf(f)')
    BY <1>3, <1>8, <2>1 DEF Pool!CountsOK
  <2>4. pool'.gate = "open" =>
          (\E x \in Pool!Of(f)' : pool'.w[x].at # "serves") \/ Pool!Cardinality(Pool!Of(f)') = Pool!Room(f)
    <3>1. CASE f = e
      BY <1>3, <1>7, <3>1
    <3>2. CASE f # e
      <4>1. Pool!Of(f)' = Pool!Of(f) /\ \A x \in Pool!Of(f) : x \in Workers \ {v}
        BY <1>2, <1>7, <3>2, EndpointAssumption DEF Pool!Of
      <4> QED
        BY <1>3, <1>6, <2>1, <4>1 DEF Pool!CountsOK
    <3> QED
      BY <3>1, <3>2
  <2> QED
    BY <2>2, <2>3, <2>4 DEF Pool!CountsOK, Pool!Room
<1> QED
  BY <1>9, <1>10, <1>11, <1>12, <1>13 DEF Pool!Ready

(* Whoever added worker v has done so, and serves.                          *)
Added(v) ==
  \A x \in Workers \ {v} :
    \/ pool'.w[x] = pool.w[x] /\ ~(pool.w[x].at = "spawns" /\ pool.w[x].adds = v)
    \/ /\ pool.w[x].at = "spawns" /\ pool.w[x].adds = v /\ pool'.w[x].at = "serves"
       /\ pool'.w[x].of = pool.w[x].of /\ pool'.w[x].pipe = pool.w[x].pipe

(* Whoever has done so stays where it counts the same.                      *)
LEMMA AddedFacts ==
  ASSUME Pool!Ready, NEW v \in Workers, Added(v)
  PROVE  /\ \A x \in Workers \ {v} :
              /\ pool'.w[x].of = pool.w[x].of /\ pool'.w[x].pipe = pool.w[x].pipe
              /\ pool'.w[x].at = "none" <=> pool.w[x].at = "none"
              /\ pool'.w[x].at = "instance" <=> pool.w[x].at = "instance"
              /\ pool'.w[x].at = "waits" <=> pool.w[x].at = "waits"
              /\ pool'.w[x].at \in {"ends", "closes"} => pool.w[x].at \in {"ends", "closes"}
              /\ pool'.w[x].at = "spawns" =>
                   pool.w[x].at = "spawns" /\ pool.w[x].adds # v /\ pool'.w[x] = pool.w[x]
              /\ pool.w[x].of # pool.w[v].of => pool'.w[x] = pool.w[x]
         /\ pool.gate = "pending" => \A x \in Workers \ {v} : pool'.w[x] = pool.w[x]
<1>1. \A x \in Workers : pool.w[x].at = "spawns" /\ pool.w[x].adds = v => pool.w[x].of = pool.w[v].of
  BY DEF Pool!Ready, Pool!AddsOK
<1>2. pool.gate = "pending" => \A x \in Workers : pool.w[x].at # "spawns"
  BY DEF Pool!Ready, Pool!StartOK
<1> QED
  BY <1>1, <1>2 DEF Added

(* What worker v adds to is left to those that spawn somebody else.         *)
LEMMA OthersAdd ==
  ASSUME Pool!Ready, NEW v \in Workers, Added(v), pool'.w[v].at # "spawns", NEW x \in Workers
  PROVE  Pool!AddsOK(x)'
<1>1. /\ \A y \in Workers \ {v} :
           /\ pool'.w[y].of = pool.w[y].of
           /\ pool'.w[y].at = "instance" <=> pool.w[y].at = "instance"
           /\ pool'.w[y].at = "spawns" =>
                pool.w[y].at = "spawns" /\ pool.w[y].adds # v /\ pool'.w[y] = pool.w[y]
  BY AddedFacts
<1>2. Pool!AddsOK(x)
  BY DEF Pool!Ready
<1> SUFFICES ASSUME pool'.w[x].at = "spawns" PROVE Pool!AddsOK(x)'
  BY DEF Pool!AddsOK
<1>3. x # v /\ pool.w[x].at = "spawns" /\ pool.w[x].adds # v /\ pool'.w[x] = pool.w[x]
  BY <1>1
<1> DEFINE u == pool.w[x].adds
<1>4. /\ u \in Workers /\ u # v /\ pool.w[u].at = "instance" /\ pool.w[u].of = pool.w[x].of
      /\ \A y \in Workers : pool.w[y].at = "spawns" /\ pool.w[y].adds = u => y = x
  BY <1>2, <1>3 DEF Pool!AddsOK
<1>5. pool'.w[u].at = "instance" /\ pool'.w[u].of = pool.w[x].of
  BY <1>1, <1>4
<1>6. \A y \in Workers : pool'.w[y].at = "spawns" /\ pool'.w[y].adds = u => y = x
  BY <1>1, <1>4
<1> QED
  BY <1>3, <1>4, <1>5, <1>6 DEF Pool!AddsOK

(* Worker v gets its thread and its place in the count.                     *)
Claiming(v) ==
  /\ pool.w[v].at = "instance" /\ pool'.w[v].at = "gate"
  /\ pool'.w[v].of = pool.w[v].of /\ pool'.w[v].pipe = pool.w[v].pipe
  /\ Added(v)
  /\ pool'.gate = pool.gate /\ pool.gate \in {"pending", "open"}
  /\ pool'.idle = pool.idle /\ pool'.hurt = pool.hurt
  /\ pool'.created = [pool.created EXCEPT ![pool.w[v].of] = @ + 1]

(* With its thread it is counted.                                           *)
LEMMA ClaimKeeps ==
  ASSUME Pool!Ready, Pool!TypeOK', Pool!Live', NEW v \in Workers, Claiming(v)
  PROVE  Pool!Ready'
<1>1. /\ Pool!TypeOK /\ Pool!StartOK
      /\ \A x \in Workers : Pool!SlotOK(x) /\ Pool!AddsOK(x)
      /\ \A f \in Endpoints : Pool!RoomOK(f) /\ (f \notin pool.hurt => Pool!CountsOK(f))
  BY DEF Pool!Ready
<1>2. PICK d : d = pool.w[v].of
  OBVIOUS
<1>3. /\ pool.w[v].at = "instance" /\ pool'.w[v].at = "gate" /\ pool.w[v].of = d /\ pool'.w[v].of = d
      /\ pool'.w[v].pipe = pool.w[v].pipe
      /\ pool'.gate = pool.gate /\ pool.gate \in {"pending", "open"}
      /\ pool'.idle = pool.idle /\ pool'.hurt = pool.hurt
      /\ pool'.created = [pool.created EXCEPT ![d] = @ + 1] /\ Added(v)
  BY <1>2 DEF Claiming
<1>4. /\ \A x \in Workers \ {v} :
           /\ pool'.w[x].of = pool.w[x].of /\ pool'.w[x].pipe = pool.w[x].pipe
           /\ pool'.w[x].at = "none" <=> pool.w[x].at = "none"
           /\ pool'.w[x].at = "instance" <=> pool.w[x].at = "instance"
           /\ pool'.w[x].at = "waits" <=> pool.w[x].at = "waits"
           /\ pool'.w[x].at \in {"ends", "closes"} => pool.w[x].at \in {"ends", "closes"}
           /\ pool.w[x].of # d => pool'.w[x] = pool.w[x]
      /\ pool.gate = "pending" => \A x \in Workers \ {v} : pool'.w[x] = pool.w[x]
  BY <1>2, <1>3, AddedFacts
<1>5. d \in Endpoints /\ pool.w[v].pipe # "none"
  BY <1>2, <1>3, Placed
<1>6. v \in Pool!Of(d) /\ \A f : Pool!Of(f)' = Pool!Of(f)
  BY <1>3, <1>4 DEF Pool!Of
<1>7. Pool!StartOK'
  <2>1. \A f \in Endpoints : Pool!Of(f) # {} => Pool!Of(f)' # {}
    BY <1>6
  <2> QED
    BY <1>1, <1>3, <1>4, <2>1 DEF Pool!StartOK
<1>8. ASSUME NEW x \in Workers PROVE Pool!SlotOK(x)'
  <2>1. CASE x = v
    BY <1>3, <1>5, <2>1 DEF Pool!SlotOK
  <2>2. CASE x # v
    <3>1. Pool!SlotOK(x)
      BY <1>1
    <3>2. CASE pool'.w[x] = pool.w[x]
      BY <3>1, <3>2 DEF Pool!SlotOK, Pool!Unborn, Pool!Nobody
    <3>3. CASE pool'.w[x] # pool.w[x]
      <4>1. pool.w[x].at # "none"
        BY <1>3, <2>2, <3>3 DEF Added
      <4> QED
        BY <1>4, <2>2, <3>1, <4>1 DEF Pool!SlotOK
    <3> QED
      BY <3>2, <3>3
  <2> QED
    BY <2>1, <2>2
<1>9. ASSUME NEW x \in Workers PROVE Pool!AddsOK(x)'
  BY <1>3, OthersAdd
<1>10. ASSUME NEW f \in Endpoints PROVE Pool!RoomOK(f)'
  BY <1>1, <1>6 DEF Pool!RoomOK, Pool!Room
<1>11. ASSUME NEW f \in Endpoints, f \notin pool'.hurt PROVE Pool!CountsOK(f)'
  <2>1. Pool!CountsOK(f)
    BY <1>1, <1>3, <1>11
  <2>2. \A x \in Pool!Of(f)' : pool'.w[x].at \notin {"ends", "closes"}
    BY <1>3, <1>4, <1>6, <2>1 DEF Pool!CountsOK, Pool!Of
  <2>3. Pool!WaitingOf(f)' = Pool!WaitingOf(f)
    BY <1>3, <1>4 DEF Pool!WaitingOf, Pool!Of
  <2>4. pool'.created[f] = Pool!Cardinality(Pool!SlotsOf(f)')
    <3>1. CASE f = d
      <4>1. v \notin Pool!SlotsOf(d) /\ Pool!SlotsOf(d)' = Pool!SlotsOf(d) \cup {v}
        BY <1>3, <1>4 DEF Pool!SlotsOf, Pool!Of
      <4>2. Cardinality(Pool!SlotsOf(d) \cup {v}) = Cardinality(Pool!SlotsOf(d)) + 1
        BY <4>1, PoolFinite, CountOne
      <4>3. pool'.created[d] = pool.created[d] + 1
        BY <1>1, <1>3, <1>5 DEF Pool!TypeOK
      <4> QED
        BY <2>1, <3>1, <4>1, <4>2, <4>3, SameCount DEF Pool!CountsOK
    <3>2. CASE f # d
      <4>1. Pool!SlotsOf(f)' = Pool!SlotsOf(f)
        BY <1>3, <1>4, <3>2 DEF Pool!SlotsOf, Pool!Of
      <4>2. pool'.created[f] = pool.created[f]
        BY <1>1, <1>3, <3>2 DEF Pool!TypeOK
      <4> QED
        BY <2>1, <4>1, <4>2 DEF Pool!CountsOK
    <3> QED
      BY <3>1, <3>2
  <2>5. pool'.gate = "open" =>
          (\E x \in Pool!Of(f)' : pool'.w[x].at # "serves") \/ Pool!Cardinality(Pool!Of(f)') = Pool!Room(f)
    <3>1. CASE f = d
      BY <1>3, <1>6, <3>1
    <3>2. CASE f # d
      <4>1. \A x \in Pool!Of(f) : pool'.w[x] = pool.w[x]
        BY <1>3, <1>4, <3>2 DEF Pool!Of
      <4> QED
        BY <1>3, <1>6, <2>1, <4>1 DEF Pool!CountsOK
    <3> QED
      BY <3>1, <3>2
  <2> QED
    BY <1>3, <2>1, <2>2, <2>3, <2>4, <2>5 DEF Pool!CountsOK, Pool!Room
<1> QED
  BY <1>7, <1>8, <1>9, <1>10, <1>11 DEF Pool!Ready

(* Worker v is gone, and that hurts its endpoint.                           *)
Frees(v) ==
  /\ pool.w[v].at \in {"instance", "closes"} /\ pool'.w[v] = Pool!Unborn
  /\ Added(v)
  /\ pool'.gate = pool.gate /\ pool.gate = "open"
  /\ pool'.idle = pool.idle /\ pool'.created = pool.created
  /\ pool'.hurt = pool.hurt \cup {pool.w[v].of}

(* Losing a worker concerns no endpoint but its own, which is hurt now.     *)
LEMMA FreeKeeps ==
  ASSUME Pool!Ready, Pool!TypeOK', Pool!Live', NEW v \in Workers, Frees(v)
  PROVE  Pool!Ready'
<1>1. /\ Pool!TypeOK /\ Pool!StartOK
      /\ \A x \in Workers : Pool!SlotOK(x) /\ Pool!AddsOK(x)
      /\ \A f \in Endpoints : Pool!RoomOK(f) /\ (f \notin pool.hurt => Pool!CountsOK(f))
  BY DEF Pool!Ready
<1>2. PICK d : d = pool.w[v].of
  OBVIOUS
<1>3. /\ pool'.w[v] = Pool!Unborn /\ pool.w[v].of = d /\ Added(v)
      /\ pool'.gate = "open" /\ pool.gate = "open"
      /\ pool'.idle = pool.idle /\ pool'.created = pool.created /\ pool'.hurt = pool.hurt \cup {d}
  BY <1>2 DEF Frees
<1>4. \A x \in Workers \ {v} :
        /\ pool'.w[x].of = pool.w[x].of /\ pool'.w[x].pipe = pool.w[x].pipe
        /\ pool'.w[x].at = "none" <=> pool.w[x].at = "none"
        /\ pool.w[x].of # d => pool'.w[x] = pool.w[x]
  BY <1>2, <1>3, AddedFacts
<1>5. pool'.w[v].at = "none" /\ pool'.w[v].of = "none"
  BY <1>3 DEF Pool!Unborn
<1>6. \A f \in Endpoints : Pool!Of(f)' = Pool!Of(f) \ {v}
  BY <1>4, <1>5, EndpointAssumption DEF Pool!Of
<1>7. Pool!StartOK'
  BY <1>3 DEF Pool!StartOK
<1>8. ASSUME NEW x \in Workers PROVE Pool!SlotOK(x)'
  <2>1. CASE x = v
    BY <1>3, <2>1 DEF Pool!SlotOK, Pool!Unborn, Pool!Nobody
  <2>2. CASE x # v
    <3>1. Pool!SlotOK(x)
      BY <1>1
    <3>2. CASE pool'.w[x] = pool.w[x]
      BY <3>1, <3>2 DEF Pool!SlotOK, Pool!Unborn, Pool!Nobody
    <3>3. CASE pool'.w[x] # pool.w[x]
      <4>1. pool.w[x].at # "none"
        BY <1>3, <2>2, <3>3 DEF Added
      <4> QED
        BY <1>4, <2>2, <3>1, <4>1 DEF Pool!SlotOK
    <3> QED
      BY <3>2, <3>3
  <2> QED
    BY <2>1, <2>2
<1>9. ASSUME NEW x \in Workers PROVE Pool!AddsOK(x)'
  BY <1>3, <1>5, OthersAdd
<1>10. ASSUME NEW f \in Endpoints PROVE Pool!RoomOK(f)'
  <2>1. /\ Cardinality(Pool!Of(f) \ {v}) <= Cardinality(Pool!Of(f))
        /\ Cardinality(Pool!Of(f) \ {v}) \in Nat /\ Cardinality(Pool!Of(f)) \in Nat
    BY PoolFinite, FS_Subset, FS_CardinalityType
  <2> QED
    BY <1>1, <1>6, <2>1, SameCount, RoomPositive DEF Pool!RoomOK, Pool!Room
<1>11. ASSUME NEW f \in Endpoints, f \notin pool'.hurt PROVE Pool!CountsOK(f)'
  <2>1. f # d /\ Pool!CountsOK(f)
    BY <1>1, <1>3, <1>11
  <2>2. \A x \in Pool!Of(f) : x # v /\ pool'.w[x] = pool.w[x]
    BY <1>3, <1>4, <2>1 DEF Pool!Of
  <2>3. Pool!Of(f)' = Pool!Of(f)
    BY <1>6, <2>2
  <2>4. Pool!WaitingOf(f)' = Pool!WaitingOf(f) /\ Pool!SlotsOf(f)' = Pool!SlotsOf(f)
    BY <2>2, <2>3 DEF Pool!WaitingOf, Pool!SlotsOf
  <2> QED
    BY <1>3, <2>1, <2>2, <2>3, <2>4 DEF Pool!CountsOK, Pool!Room
<1> QED
  BY <1>7, <1>8, <1>9, <1>10, <1>11 DEF Pool!Ready

(* Two slots at most change, and the counters.                              *)
Two(v, w) ==
  /\ pool' = [w |-> pool'.w, idle |-> pool'.idle, created |-> pool'.created,
              total |-> pool'.total, permits |-> pool'.permits, gate |-> pool'.gate,
              reason |-> pool'.reason, faults |-> pool'.faults, hurt |-> pool'.hurt]
  /\ pool'.w = [pool.w EXCEPT ![v] = pool'.w[v], ![w] = pool'.w[w]]
  /\ pool'.w[v] \in Pool!Slot /\ pool'.w[w] \in Pool!Slot
  /\ pool'.idle = pool.idle /\ pool'.created \in [Endpoints -> Int]
  /\ pool'.hurt \subseteq Endpoints
  /\ pool'.gate = pool.gate /\ pool'.reason = pool.reason /\ pool'.permits = pool.permits
  /\ pool'.total \in Int /\ pool'.faults \in Nat

(* What such a step leaves alone.                                           *)
LEMMA TwoType ==
  ASSUME Pool!Ready, NEW v \in Workers, NEW w \in Workers, Two(v, w)
  PROVE  /\ Pool!TypeOK' /\ Pool!Live'
         /\ \A x \in Workers \ {v, w} : pool'.w[x] = pool.w[x]
<1>1. Pool!TypeOK /\ pool.w \in [Workers -> Pool!Slot]
  BY DEF Pool!Ready, Pool!TypeOK
<1>2. pool'.w \in [Workers -> Pool!Slot] /\ \A x \in Workers \ {v, w} : pool'.w[x] = pool.w[x]
  BY <1>1 DEF Two
<1>3. Pool!TypeOK'
  BY <1>1, <1>2 DEF Pool!TypeOK, Two
<1>4. Pool!Live'
  BY DEF Pool!Ready, Pool!Live, Two
<1> QED
  BY <1>2, <1>3, <1>4

(* There is a name for one more.                                            *)
LEMMA SpareExists ==
  ASSUME Pool!Ready, NEW e \in Endpoints, Cardinality(Pool!Of(e)) < Pool!Room(e)
  PROVE  Pool!Spare \in Workers /\ pool.w[Pool!Spare] = Pool!Unborn
<1> DEFINE of == [w \in Workers |-> pool.w[w].of]
<1>1. of \in [Workers -> Endpoints \cup {"none"}]
  BY DEF Pool!Ready, Pool!TypeOK, Pool!Slot
<1>2. \A f \in Endpoints : {w \in Workers : of[w] = f} = Pool!Of(f)
  BY DEF Pool!Of
<1>3. \A f \in Endpoints : Cardinality(Pool!Of(f)) <= Pool!Room(f)
  BY SameCount DEF Pool!Ready, Pool!RoomOK
<1> HIDE DEF of
<1>4. PICK w \in Workers : of[w] = "none"
  BY <1>1, <1>2, <1>3, NameAssumption
<1>5. pool.w[w].of = "none"
  BY <1>4 DEF of
<1>6. pool.w[w] = Pool!Unborn
  BY <1>5, EndpointAssumption DEF Pool!Ready, Pool!SlotOK
<1> QED
  BY <1>6 DEF Pool!Spare

(* The slot of a worker that waits to be started.                           *)
LEMMA SpareSlot ==
  ASSUME NEW e \in Endpoints
  PROVE  LET s == [Pool!Unborn EXCEPT !.at = "instance", !.of = e, !.pipe = "open"]
         IN  s \in Pool!Slot /\ s.at = "instance" /\ s.of = e /\ s.pipe = "open"
BY DEF Pool!Slot, Pool!Places, Pool!Unborn, Pool!Nobody

(* Start-up makes one instance of an endpoint after the other.              *)
LEMMA CreateInstancesKeeps ==
  ASSUME Pool!Ready, Pool!CreateInstances, Pool!Live'
  PROVE  Pool!Ready'
<1>1. Pool!TypeOK /\ pool.gate = "instances" /\ pool.w \in [Workers -> Pool!Slot]
  BY DEF Pool!Ready, Pool!TypeOK, Pool!CreateInstances
<1>2. CASE \E e \in Endpoints : Pool!Of(e) = {} /\ pool' = Pool!Created(e)
  <2>1. PICK e \in Endpoints : Pool!Of(e) = {} /\ pool' = Pool!Created(e)
    BY <1>2
  <2>2. PICK v : v = Pool!Spare
    OBVIOUS
  <2>3. PICK s : s = [Pool!Unborn EXCEPT !.at = "instance", !.of = e, !.pipe = "open"]
    OBVIOUS
  <2>4. s \in Pool!Slot /\ s.at = "instance" /\ s.of = e /\ s.pipe = "open"
    BY <2>3, SpareSlot
  <2>5. Cardinality(Pool!Of(e)) < Pool!Room(e)
    BY <2>1, FS_EmptySet, RoomPositive
  <2>6. v \in Workers /\ pool.w[v] = Pool!Unborn
    BY <2>2, <2>5, SpareExists
  <2>7. pool' = [pool EXCEPT !.w[v] = s]
    BY <2>1, <2>2, <2>3 DEF Pool!Created
  <2>8. /\ pool'.w[v] = s /\ pool'.w = [pool.w EXCEPT ![v] = s]
        /\ pool' = [pool EXCEPT !.w = pool'.w]
        /\ pool'.gate = pool.gate /\ pool'.idle = pool.idle /\ pool'.created = pool.created
        /\ pool'.hurt = pool.hurt
    BY <1>1, <2>6, <2>7 DEF Pool!TypeOK
  <2>9. pool'.w \in [Workers -> Pool!Slot] /\ \A x \in Workers \ {v} : pool'.w[x] = pool.w[x]
    BY <1>1, <2>4, <2>8
  <2>10. Pool!TypeOK'
    BY <1>1, <2>8, <2>9 DEF Pool!TypeOK
  <2>11. Born(v, e)
    BY <1>1, <2>4, <2>5, <2>6, <2>8, <2>9 DEF Born
  <2> QED
    BY <2>6, <2>10, <2>11, BornKeeps
<1>3. CASE pool' = [Pool!Dropped(pool) EXCEPT !.gate = "failed", !.faults = @ + 1]
  <2>1. pool'.gate = "failed"
    BY <1>1, <1>3 DEF Pool!TypeOK, Pool!Dropped
  <2> QED
    BY <2>1 DEF Pool!Live
<1>4. CASE (\A e \in Endpoints : Pool!Of(e) # {}) /\ pool' = [pool EXCEPT !.gate = "pending"]
  <2>1. /\ pool'.w = pool.w /\ pool'.idle = pool.idle /\ pool'.created = pool.created
        /\ pool'.hurt = pool.hurt /\ pool'.gate = "pending"
    BY <1>1, <1>4 DEF Pool!TypeOK
  <2>2. Pool!TypeOK'
    BY <1>1, <1>4 DEF Pool!TypeOK
  <2>3. \A f : Pool!Of(f)' = Pool!Of(f) /\ Pool!WaitingOf(f)' = Pool!WaitingOf(f) /\ Pool!SlotsOf(f)' = Pool!SlotsOf(f)
    BY <2>1 DEF Pool!Of, Pool!WaitingOf, Pool!SlotsOf
  <2>4. Pool!StartOK'
    BY <1>1, <1>4, <2>1, <2>3 DEF Pool!Ready, Pool!StartOK
  <2>5. \A x \in Workers : Pool!SlotOK(x)' /\ Pool!AddsOK(x)'
    BY <2>1 DEF Pool!Ready, Pool!SlotOK, Pool!AddsOK, Pool!Unborn, Pool!Nobody
  <2>6. \A f \in Endpoints : Pool!RoomOK(f)' /\ (f \notin pool'.hurt => Pool!CountsOK(f)')
    BY <2>1, <2>3 DEF Pool!Ready, Pool!RoomOK, Pool!CountsOK, Pool!Room
  <2> QED
    BY <2>2, <2>4, <2>5, <2>6 DEF Pool!Ready
<1> QED
  BY <1>2, <1>3, <1>4 DEF Pool!CreateInstances

(* Then it starts their threads, and opens the gate.                        *)
LEMMA SpawnInitialKeeps ==
  ASSUME Pool!Ready, Pool!SpawnInitial, Pool!Live'
  PROVE  Pool!Ready'
<1>1. Pool!TypeOK /\ pool.gate = "pending" /\ pool.w \in [Workers -> Pool!Slot]
  BY DEF Pool!Ready, Pool!TypeOK, Pool!SpawnInitial
<1> DEFINE left == {w \in Workers : pool.w[w].at = "instance"}
<1>2. CASE \E w \in left : pool' = Pool!Claimed(pool, w)
  <2>1. PICK v \in Workers : pool.w[v].at = "instance" /\ pool' = Pool!Claimed(pool, v)
    BY <1>2
  <2> DEFINE s == [pool.w[v] EXCEPT !.at = "gate"]
  <2>2. s \in Pool!Slot /\ s.at = "gate" /\ s.of = pool.w[v].of /\ s.pipe = pool.w[v].pipe
    BY <1>1 DEF Pool!Slot, Pool!Places
  <2>3. pool'.w[v] = s /\ pool'.w = [pool.w EXCEPT ![v] = s]
    BY <1>1, <2>1 DEF Pool!TypeOK, Pool!Claimed
  <2>4. /\ pool'.gate = pool.gate /\ pool'.idle = pool.idle /\ pool'.hurt = pool.hurt
        /\ pool'.reason = pool.reason /\ pool'.permits = pool.permits /\ pool'.faults = pool.faults
        /\ pool'.total = pool.total + 1
        /\ pool'.created = [pool.created EXCEPT ![pool.w[v].of] = @ + 1]
    BY <1>1, <2>1 DEF Pool!TypeOK, Pool!Claimed
  <2>5. pool' = [w |-> pool'.w, idle |-> pool'.idle, created |-> pool'.created,
                 total |-> pool'.total, permits |-> pool'.permits, gate |-> pool'.gate,
                 reason |-> pool'.reason, faults |-> pool'.faults, hurt |-> pool'.hurt]
    BY <1>1, <2>1 DEF Pool!TypeOK, Pool!Claimed
  <2> HIDE DEF s
  <2>6. pool'.w \in [Workers -> Pool!Slot] /\ \A x \in Workers \ {v} : pool'.w[x] = pool.w[x]
    BY <1>1, <2>2, <2>3
  <2>7. pool'.created \in [Endpoints -> Int]
    BY <1>1, <2>4, UpdateType DEF Pool!TypeOK
  <2>8. Pool!TypeOK'
    BY <1>1, <2>4, <2>5, <2>6, <2>7 DEF Pool!TypeOK
  <2>9. \A x \in Workers : pool.w[x].at # "spawns"
    BY <1>1 DEF Pool!Ready, Pool!StartOK
  <2>10. Claiming(v)
    BY <1>1, <2>1, <2>2, <2>3, <2>4, <2>6, <2>9 DEF Claiming, Added
  <2> QED
    BY <2>8, <2>10, ClaimKeeps
<1>3. CASE pool' = [Pool!Dropped(pool) EXCEPT !.gate = "aborted", !.faults = @ + 1]
  <2>1. pool'.gate = "aborted"
    BY <1>1, <1>3 DEF Pool!TypeOK, Pool!Dropped
  <2> QED
    BY <2>1 DEF Pool!Live
<1>4. CASE left = {} /\ pool' = [pool EXCEPT !.gate = "open"]
  <2>1. /\ pool'.w = pool.w /\ pool'.idle = pool.idle /\ pool'.created = pool.created
        /\ pool'.hurt = pool.hurt /\ pool'.gate = "open"
    BY <1>1, <1>4 DEF Pool!TypeOK
  <2>2. Pool!TypeOK'
    BY <1>1, <1>4 DEF Pool!TypeOK
  <2>3. \A f : Pool!Of(f)' = Pool!Of(f) /\ Pool!WaitingOf(f)' = Pool!WaitingOf(f) /\ Pool!SlotsOf(f)' = Pool!SlotsOf(f)
    BY <2>1 DEF Pool!Of, Pool!WaitingOf, Pool!SlotsOf
  <2>4. Pool!StartOK'
    BY <2>1 DEF Pool!StartOK
  <2>5. \A x \in Workers : Pool!SlotOK(x)' /\ Pool!AddsOK(x)'
    BY <2>1 DEF Pool!Ready, Pool!SlotOK, Pool!AddsOK, Pool!Unborn, Pool!Nobody
  <2>6. \A f \in Endpoints : \E x \in Pool!Of(f) : pool.w[x].at # "serves"
    BY <1>1 DEF Pool!Ready, Pool!StartOK, Pool!Of
  <2>7. \A f \in Endpoints : Pool!RoomOK(f)' /\ (f \notin pool'.hurt => Pool!CountsOK(f)')
    BY <2>1, <2>3, <2>6 DEF Pool!Ready, Pool!RoomOK, Pool!CountsOK, Pool!Room
  <2> QED
    BY <2>2, <2>4, <2>5, <2>7 DEF Pool!Ready
<1> QED
  BY <1>2, <1>3, <1>4 DEF Pool!SpawnInitial

(* A worker that found room makes one more instance, or serves.             *)
LEMMA CreateSpareKeeps ==
  ASSUME Pool!Ready, NEW w \in Workers, Pool!CreateSpare(w)
  PROVE  Pool!Ready'
<1>1. Pool!TypeOK /\ pool.w \in [Workers -> Pool!Slot] /\ pool.w[w].at = "creates"
  BY DEF Pool!Ready, Pool!TypeOK, Pool!CreateSpare
<1>2. PICK e : e = pool.w[w].of
  OBVIOUS
<1>3. e \in Endpoints /\ pool.gate = "open" /\ pool.w[w].pipe # "none"
  BY <1>1, <1>2, Placed
<1>4. CASE /\ Pool!Cardinality(Pool!Piped(e)) < Pool!Room(e)
           /\ pool' = [Pool!Created(e) EXCEPT !.w[w].at = "spawns", !.w[w].adds = Pool!Spare]
  <2>1. Pool!Piped(e) = Pool!Of(e)
    BY <1>3, EndpointAssumption DEF Pool!Ready, Pool!SlotOK, Pool!Piped, Pool!Of, Pool!Unborn
  <2>2. Cardinality(Pool!Of(e)) < Pool!Room(e)
    BY <1>4, <2>1, SameCount
  <2>3. PICK v : v = Pool!Spare
    OBVIOUS
  <2>4. v \in Workers /\ pool.w[v] = Pool!Unborn /\ v # w
    BY <1>1, <1>3, <2>2, <2>3, SpareExists DEF Pool!Unborn
  <2>5. PICK s : s = [Pool!Unborn EXCEPT !.at = "instance", !.of = e, !.pipe = "open"]
    OBVIOUS
  <2>6. s \in Pool!Slot /\ s.at = "instance" /\ s.of = e /\ s.pipe = "open"
    BY <1>3, <2>5, SpareSlot
  <2> DEFINE r == [pool.w[w] EXCEPT !.at = "spawns", !.adds = v]
  <2>7. r \in Pool!Slot /\ r.at = "spawns" /\ r.adds = v /\ r.of = e /\ r.pipe = pool.w[w].pipe
    BY <1>1, <1>2, <2>4 DEF Pool!Slot, Pool!Places
  <2>8. pool' = [[pool EXCEPT !.w[v] = s] EXCEPT !.w[w].at = "spawns", !.w[w].adds = v]
    BY <1>4, <2>3, <2>5 DEF Pool!Created
  <2>9. /\ pool'.w[v] = s /\ pool'.w[w] = r
        /\ pool'.w = [pool.w EXCEPT ![v] = pool'.w[v], ![w] = pool'.w[w]]
    BY <1>1, <2>4, <2>8 DEF Pool!TypeOK
  <2>10. /\ pool'.idle = pool.idle /\ pool'.created = pool.created /\ pool'.hurt = pool.hurt
         /\ pool'.gate = pool.gate /\ pool'.reason = pool.reason /\ pool'.permits = pool.permits
         /\ pool'.total = pool.total /\ pool'.faults = pool.faults
         /\ pool' = [w |-> pool'.w, idle |-> pool'.idle, created |-> pool'.created,
                     total |-> pool'.total, permits |-> pool'.permits, gate |-> pool'.gate,
                     reason |-> pool'.reason, faults |-> pool'.faults, hurt |-> pool'.hurt]
    BY <1>1, <2>8 DEF Pool!TypeOK
  <2> HIDE DEF r
  <2>11. Two(v, w)
    BY <1>1, <2>6, <2>7, <2>9, <2>10 DEF Pool!TypeOK, Two
  <2>12. /\ Pool!TypeOK' /\ Pool!Live'
         /\ \A x \in Workers \ {v, w} : pool'.w[x] = pool.w[x]
    BY <2>4, <2>11, TwoType
  <2>13. Born(v, e)
    BY <1>1, <1>2, <1>3, <2>2, <2>4, <2>6, <2>7, <2>9, <2>10, <2>12 DEF Born
  <2> QED
    BY <1>3, <2>4, <2>12, <2>13, BornKeeps
<1>5. CASE Pool!Cardinality(Pool!Piped(e)) >= Pool!Room(e) /\ pool' = [pool EXCEPT !.w[w].at = "serves"]
  BY <1>1, <1>2, <1>5, CreateFull
<1>6. CASE pool' = Pool!Fault([pool EXCEPT !.w[w].at = "serves"], e)
  BY <1>1, <1>2, <1>6, CreateFails
<1> QED
  BY <1>2, <1>4, <1>5, <1>6 DEF Pool!CreateSpare

(* It starts the thread of that instance, or loses it.                      *)
LEMMA SpawnSpareKeeps ==
  ASSUME Pool!Ready, NEW w \in Workers, Pool!SpawnSpare(w)
  PROVE  Pool!Ready'
<1>1. Pool!TypeOK /\ pool.w \in [Workers -> Pool!Slot] /\ pool.w[w].at = "spawns"
  BY DEF Pool!Ready, Pool!TypeOK, Pool!SpawnSpare
<1>2. PICK v : v = pool.w[w].adds
  OBVIOUS
<1>3. PICK e : e = pool.w[w].of
  OBVIOUS
<1>4. /\ v \in Workers /\ v # w /\ pool.w[v].at = "instance" /\ pool.w[v].of = e
      /\ \A x \in Workers : pool.w[x].at = "spawns" /\ pool.w[x].adds = v => x = w
  BY <1>1, <1>2, <1>3 DEF Pool!Ready, Pool!AddsOK
<1>5. e \in Endpoints /\ pool.gate = "open" /\ pool.w[w].pipe # "none"
  BY <1>1, <1>3, Placed
<1> DEFINE p == [pool EXCEPT !.w[w].at = "serves", !.w[w].adds = Pool!Nobody]
           r == [pool.w[w] EXCEPT !.at = "serves", !.adds = Pool!Nobody]
           s == [pool.w[v] EXCEPT !.at = "gate"]
<1>6. r \in Pool!Slot /\ r.at = "serves" /\ r.of = e /\ r.pipe = pool.w[w].pipe
  BY <1>1, <1>3 DEF Pool!Slot, Pool!Places
<1>7. CASE pool' = Pool!Claimed(p, v)
  <2>1. s \in Pool!Slot /\ s.at = "gate" /\ s.of = e /\ s.pipe = pool.w[v].pipe
    BY <1>1, <1>4 DEF Pool!Slot, Pool!Places
  <2>2. p.w[v].of = e
    BY <1>1, <1>4 DEF Pool!TypeOK
  <2>3. pool' = [p EXCEPT !.created[e] = @ + 1, !.total = @ + 1, !.w[v].at = "gate"]
    BY <1>7, <2>2 DEF Pool!Claimed
  <2>4. /\ pool'.w[v] = s /\ pool'.w[w] = r
        /\ pool'.w = [pool.w EXCEPT ![v] = pool'.w[v], ![w] = pool'.w[w]]
    <3>1. p.w[w] = r /\ p.w[v] = pool.w[v] /\ p.w = [pool.w EXCEPT ![w] = r]
      BY <1>1, <1>4 DEF Pool!TypeOK
    <3>2. pool'.w = [p.w EXCEPT ![v].at = "gate"]
      BY <1>1, <2>3 DEF Pool!TypeOK
    <3> HIDE DEF p, r
    <3>3. pool'.w[v] = s /\ pool'.w[w] = r
      BY <1>1, <1>4, <3>1, <3>2
    <3> QED
      BY <1>1, <1>4, <3>1, <3>2, <3>3
  <2>5. /\ pool'.idle = pool.idle /\ pool'.created = [pool.created EXCEPT ![e] = @ + 1]
        /\ pool'.hurt = pool.hurt
        /\ pool'.gate = pool.gate /\ pool'.reason = pool.reason /\ pool'.permits = pool.permits
        /\ pool'.total = pool.total + 1 /\ pool'.faults = pool.faults
    BY <1>1, <2>3 DEF Pool!TypeOK
  <2>6. pool' = [w |-> pool'.w, idle |-> pool'.idle, created |-> pool'.created,
                 total |-> pool'.total, permits |-> pool'.permits, gate |-> pool'.gate,
                 reason |-> pool'.reason, faults |-> pool'.faults, hurt |-> pool'.hurt]
    BY <1>1, <2>3 DEF Pool!TypeOK
  <2> HIDE DEF r, s
  <2>7. Two(v, w)
    BY <1>1, <1>6, <2>1, <2>4, <2>5, <2>6, UpdateType DEF Pool!TypeOK, Two
  <2>8. /\ Pool!TypeOK' /\ Pool!Live'
        /\ \A x \in Workers \ {v, w} : pool'.w[x] = pool.w[x]
    BY <1>4, <2>7, TwoType
  <2>9. Added(v)
    BY <1>1, <1>2, <1>3, <1>4, <1>6, <2>4, <2>8 DEF Added
  <2>10. Claiming(v)
    BY <1>4, <1>5, <2>1, <2>4, <2>5, <2>9 DEF Claiming
  <2> QED
    BY <1>4, <2>8, <2>10, ClaimKeeps
<1>8. CASE pool' = Pool!Fault([p EXCEPT !.w[v] = Pool!Unborn], e)
  <2>1. Pool!Unborn \in Pool!Slot
    BY DEF Pool!Unborn, Pool!Slot, Pool!Places, Pool!Nobody
  <2>2. /\ pool'.w[v] = Pool!Unborn /\ pool'.w[w] = r
        /\ pool'.w = [pool.w EXCEPT ![v] = pool'.w[v], ![w] = pool'.w[w]]
    BY <1>1, <1>4, <1>8 DEF Pool!TypeOK, Pool!Fault, Pool!Hurts
  <2>3. /\ pool'.idle = pool.idle /\ pool'.created = pool.created
        /\ pool'.hurt = pool.hurt \cup {e}
        /\ pool'.gate = pool.gate /\ pool'.reason = pool.reason /\ pool'.permits = pool.permits
        /\ pool'.total = pool.total /\ pool'.faults = pool.faults + 1
    BY <1>1, <1>8 DEF Pool!TypeOK, Pool!Fault, Pool!Hurts
  <2>4. pool' = [w |-> pool'.w, idle |-> pool'.idle, created |-> pool'.created,
                 total |-> pool'.total, permits |-> pool'.permits, gate |-> pool'.gate,
                 reason |-> pool'.reason, faults |-> pool'.faults, hurt |-> pool'.hurt]
    BY <1>1, <1>8 DEF Pool!TypeOK, Pool!Fault, Pool!Hurts
  <2> HIDE DEF r
  <2>5. Two(v, w)
    BY <1>1, <1>5, <1>6, <2>1, <2>2, <2>3, <2>4 DEF Pool!TypeOK, Two
  <2>6. /\ Pool!TypeOK' /\ Pool!Live'
        /\ \A x \in Workers \ {v, w} : pool'.w[x] = pool.w[x]
    BY <1>4, <2>5, TwoType
  <2>7. Added(v)
    BY <1>1, <1>2, <1>3, <1>4, <1>6, <2>2, <2>6 DEF Added
  <2>8. Frees(v)
    BY <1>4, <1>5, <2>2, <2>3, <2>7 DEF Frees
  <2> QED
    BY <1>4, <2>6, <2>8, FreeKeeps
<1> QED
  BY <1>2, <1>3, <1>7, <1>8 DEF Pool!SpawnSpare

(* The instance of a worker that has ended is closed.                       *)
LEMMA CloseKeeps ==
  ASSUME Pool!Ready, NEW w \in Workers, Pool!Close(w)
  PROVE  Pool!Ready'
<1>1. Pool!TypeOK /\ pool.w \in [Workers -> Pool!Slot] /\ pool.w[w].at = "closes"
  BY DEF Pool!Ready, Pool!TypeOK, Pool!Close
<1>2. pool.w[w].of \in pool.hurt /\ pool.gate = "open"
  BY <1>1, EndingHurts, Placed
<1>3. Pool!Unborn \in Pool!Slot
  BY DEF Pool!Unborn, Pool!Slot, Pool!Places, Pool!Nobody
<1>4. pool' = [pool EXCEPT !.w[w] = Pool!Unborn]
  BY DEF Pool!Close
<1>5. /\ pool'.w[w] = Pool!Unborn /\ pool'.w = [pool.w EXCEPT ![w] = Pool!Unborn]
      /\ pool' = [pool EXCEPT !.w = pool'.w]
      /\ pool'.gate = pool.gate /\ pool'.reason = pool.reason
      /\ pool'.idle = pool.idle /\ pool'.created = pool.created /\ pool'.hurt = pool.hurt
  BY <1>1, <1>4 DEF Pool!TypeOK
<1>6. pool'.w \in [Workers -> Pool!Slot] /\ \A x \in Workers \ {w} : pool'.w[x] = pool.w[x]
  BY <1>1, <1>3, <1>5
<1>7. Pool!TypeOK'
  BY <1>1, <1>5, <1>6 DEF Pool!TypeOK
<1>8. Pool!Live'
  BY <1>5 DEF Pool!Ready, Pool!Live
<1>9. \A x \in Workers : ~(pool.w[x].at = "spawns" /\ pool.w[x].adds = w)
  BY <1>1 DEF Pool!Ready, Pool!AddsOK
<1>10. Frees(w)
  BY <1>1, <1>2, <1>5, <1>6, <1>9 DEF Frees, Added
<1> QED
  BY <1>7, <1>8, <1>10, FreeKeeps

(* An engine that runs after a step has run, or was starting, before it.    *)
LEMMA WorkerLive ==
  ASSUME DOMAIN pool = Pool!Fields, NEW w \in Workers, Pool!WorkerStep(w)
  PROVE  /\ DOMAIN pool' = Pool!Fields
         /\ pool'.gate = pool.gate /\ (pool'.reason = "none" => pool.reason = "none")
<1> USE DEF Pool!Fields
<1>1. CASE Pool!Enter(w)
  BY <1>1 DEF Pool!Enter, Pool!Fault, Pool!Hurts
<1>2. CASE Pool!Offer(w)
  BY <1>2 DEF Pool!Offer
<1>3. CASE Pool!Accept(w)
  BY <1>3 DEF Pool!Accept, Pool!Busy, Pool!Hurts, Pool!Shut
<1>4. CASE Pool!AcceptFails(w)
  BY <1>4 DEF Pool!AcceptFails, Pool!Fault, Pool!Hurts, Pool!Busy
<1>5. CASE Pool!Admit(w)
  BY <1>5 DEF Pool!Admit, Pool!Shut
<1>6. CASE Pool!ReadIdle(w) \/ Pool!ReadCreated(w) \/ Pool!Serve(w) \/ Pool!Close(w)
  BY <1>6 DEF Pool!ReadIdle, Pool!ReadCreated, Pool!Serve, Pool!Close
<1>7. CASE Pool!CreateSpare(w)
  BY <1>7 DEF Pool!CreateSpare, Pool!Created, Pool!Fault, Pool!Hurts
<1>8. CASE Pool!SpawnSpare(w)
  BY <1>8 DEF Pool!SpawnSpare, Pool!Claimed, Pool!Fault, Pool!Hurts
<1>9. CASE Pool!Reset(w)
  BY <1>9 DEF Pool!Reset, Pool!Permitless
<1>10. CASE Pool!Shutdown(w)
  <2> DEFINE p == [Pool!Permitless(pool, w) EXCEPT !.w[w].at = "ends", !.w[w].pipe = "shut"]
  <2>1. DOMAIN p = DOMAIN pool /\ p.gate = pool.gate /\ p.reason = pool.reason
    BY DEF Pool!Permitless
  <2>2. pool' = Pool!Reasoned(p, "Requested")
    BY <1>10 DEF Pool!Shutdown
  <2> HIDE DEF p
  <2> QED
    BY <2>1, <2>2 DEF Pool!Reasoned
<1>11. CASE Pool!DropSlot(w)
  <2> DEFINE p == [pool EXCEPT !.created[pool.w[w].of] = @ - 1, !.total = @ - 1, !.w[w].at = "closes"]
  <2>1. DOMAIN p = DOMAIN pool /\ p.gate = pool.gate /\ p.reason = pool.reason
    OBVIOUS
  <2>2. pool' = p \/ pool' = Pool!Reasoned(p, "LastInstanceGone")
    BY <1>11 DEF Pool!DropSlot
  <2> HIDE DEF p
  <2> QED
    BY <2>1, <2>2 DEF Pool!Reasoned
<1> QED
  BY <1>1, <1>2, <1>3, <1>4, <1>5, <1>6, <1>7, <1>8, <1>9, <1>10, <1>11 DEF Pool!WorkerStep

(* An engine that ends does not come back.                                  *)
LEMMA LiveBefore ==
  ASSUME DOMAIN pool = Pool!Fields, Pool!Next
  PROVE  DOMAIN pool' = Pool!Fields /\ (Pool!Live' => Pool!Live)
<1>1. CASE Pool!CreateInstances
  <2>1. DOMAIN pool' = Pool!Fields /\ pool'.reason = pool.reason
    BY <1>1 DEF Pool!CreateInstances, Pool!Created, Pool!Dropped, Pool!Fields
  <2> QED
    BY <1>1, <2>1 DEF Pool!CreateInstances, Pool!Live
<1>2. CASE Pool!SpawnInitial
  <2>1. DOMAIN pool' = Pool!Fields /\ pool'.reason = pool.reason
    BY <1>2 DEF Pool!SpawnInitial, Pool!Claimed, Pool!Dropped, Pool!Fields
  <2> QED
    BY <1>2, <2>1 DEF Pool!SpawnInitial, Pool!Live
<1>3. CASE Pool!JoinAborted \/ Pool!Exit
  BY <1>3 DEF Pool!JoinAborted, Pool!Exit, Pool!Live, Pool!Fields
<1>4. CASE Pool!Leave \/ \E c \in Clients : Pool!Connect(c)
  BY <1>4 DEF Pool!Leave, Pool!Connect, Pool!Live, Pool!Fields
<1>5. CASE \E w \in Workers : Pool!WorkerStep(w)
  BY <1>5, WorkerLive DEF Pool!Live
<1> QED
  BY <1>1, <1>2, <1>3, <1>4, <1>5 DEF Pool!Next

(* No step of a worker breaks the invariant.                                *)
LEMMA WorkerKeeps ==
  ASSUME Pool!Ready, NEW w \in Workers, Pool!WorkerStep(w), Pool!Live'
  PROVE  Pool!Ready'
<1>1. CASE Pool!Enter(w)
  <2>1. pool.gate # "aborted"
    BY DEF Pool!Ready, Pool!Live
  <2> QED
    BY <1>1, <2>1, EnterLoop, EnterFails DEF Pool!Enter
<1>2. CASE Pool!Offer(w)
  BY <1>2, OfferKeeps DEF Pool!Offer
<1>3. CASE Pool!Accept(w)
  <2>1. pool.w[w].at = "waits"
    BY <1>3 DEF Pool!Accept
  <2> DEFINE n == pool.w[w].empty + 1
  <2>2. \/ pool' = [Pool!Busy(w, "admits") EXCEPT !.w[w].empty = 0]
        \/ pool' = Pool!Hurts(Pool!Busy(w, "ends"), pool.w[w].of)
        \/ pool' = [Pool!Shut(Pool!Busy(w, "loop"), w) EXCEPT !.w[w].empty = n]
    BY <1>3 DEF Pool!Accept
  <2> QED
    BY <2>1, <2>2, AcceptClient, AcceptTooMany, AcceptGone
<1>4. CASE Pool!AcceptFails(w)
  BY <1>4, AcceptBreaks DEF Pool!AcceptFails
<1>5. CASE Pool!Admit(w)
  BY <1>5, AdmitClient, TurnAway DEF Pool!Admit
<1>6. CASE Pool!ReadIdle(w)
  BY <1>6, ReadIdleServes, ReadIdleCounts DEF Pool!ReadIdle
<1>7. CASE Pool!ReadCreated(w)
  BY <1>7, ReadCreatedServes, ReadCreatedCreates DEF Pool!ReadCreated
<1>8. CASE Pool!CreateSpare(w)
  BY <1>8, CreateSpareKeeps
<1>9. CASE Pool!SpawnSpare(w)
  BY <1>9, SpawnSpareKeeps
<1>10. CASE Pool!Serve(w)
  BY <1>10, ServeEnds DEF Pool!Serve
<1>11. CASE Pool!Reset(w)
  BY <1>11, ResetKeeps DEF Pool!Reset
<1>12. CASE Pool!Shutdown(w)
  <2> DEFINE p == [Pool!Permitless(pool, w) EXCEPT !.w[w].at = "ends", !.w[w].pipe = "shut"]
  <2>1. DOMAIN p = DOMAIN pool /\ p.reason = "none" /\ "reason" \in DOMAIN pool
    BY DEF Pool!Permitless, Pool!Ready, Pool!Live, Pool!TypeOK
  <2>2. pool' = Pool!Reasoned(p, "Requested")
    BY <1>12 DEF Pool!Shutdown
  <2> HIDE DEF p
  <2>3. pool'.reason = "Requested"
    BY <2>1, <2>2 DEF Pool!Reasoned
  <2> QED
    BY <2>3 DEF Pool!Live
<1>13. CASE Pool!DropSlot(w)
  BY <1>13, DropKeeps
<1>14. CASE Pool!Close(w)
  BY <1>14, CloseKeeps
<1> QED
  BY <1>1, <1>2, <1>3, <1>4, <1>5, <1>6, <1>7, <1>8, <1>9, <1>10, <1>11, <1>12, <1>13, <1>14
     DEF Pool!WorkerStep

(* No step does.                                                            *)
LEMMA PoolStep == Pool!IInv /\ [Pool!Next]_pool => Pool!IInv'
<1> SUFFICES ASSUME Pool!IInv, [Pool!Next]_pool PROVE Pool!IInv'
  OBVIOUS
<1>1. CASE UNCHANGED pool
  <2>1. Pool!Live' = Pool!Live /\ Pool!TypeOK' = Pool!TypeOK
    BY <1>1 DEF Pool!Live, Pool!TypeOK
  <2>2. \A e : Pool!Of(e)' = Pool!Of(e) /\ Pool!WaitingOf(e)' = Pool!WaitingOf(e) /\ Pool!SlotsOf(e)' = Pool!SlotsOf(e)
    BY <1>1 DEF Pool!Of, Pool!WaitingOf, Pool!SlotsOf
  <2> SUFFICES ASSUME Pool!Ready PROVE Pool!Ready'
    BY <1>1, <2>1 DEF Pool!IInv
  <2>3. Pool!StartOK'
    BY <1>1, <2>2 DEF Pool!Ready, Pool!StartOK
  <2>4. \A w \in Workers : Pool!SlotOK(w)' /\ Pool!AddsOK(w)'
    BY <1>1 DEF Pool!Ready, Pool!SlotOK, Pool!AddsOK, Pool!Unborn, Pool!Nobody
  <2>5. \A e \in Endpoints : Pool!RoomOK(e)' /\ (e \notin pool'.hurt => Pool!CountsOK(e)')
    BY <1>1, <2>2 DEF Pool!Ready, Pool!RoomOK, Pool!CountsOK, Pool!Room
  <2> QED
    BY <2>1, <2>3, <2>4, <2>5 DEF Pool!Ready
<1>2. CASE Pool!Next
  <2>1. DOMAIN pool' = Pool!Fields /\ (Pool!Live' => Pool!Live)
    BY <1>2, LiveBefore DEF Pool!IInv
  <2> SUFFICES ASSUME Pool!Live' PROVE Pool!Ready'
    BY <2>1 DEF Pool!IInv
  <2>2. Pool!Ready
    BY <2>1 DEF Pool!IInv
  <2>3. CASE Pool!CreateInstances
    BY <2>2, <2>3, CreateInstancesKeeps
  <2>4. CASE Pool!SpawnInitial
    BY <2>2, <2>4, SpawnInitialKeeps
  <2>5. CASE Pool!JoinAborted
    BY <2>2, <2>5 DEF Pool!JoinAborted, Pool!Ready, Pool!Live
  <2>6. CASE Pool!Exit
    BY <2>2, <2>6 DEF Pool!Exit, Pool!Ready, Pool!Live
  <2>7. CASE Pool!Leave
    <3>1. PICK w \in Workers : pool.w[w].pipe = "taken" /\ pool' = [pool EXCEPT !.w[w].pipe = "left"]
      BY <2>7 DEF Pool!Leave
    <3>2. PICK peer : peer = pool.w[w].peer
      OBVIOUS
    <3>3. pool.w \in [Workers -> Pool!Slot] /\ Pool!TypeOK
      BY <2>2 DEF Pool!Ready, Pool!TypeOK
    <3>4. peer \in Clients \cup {Pool!Nobody}
      BY <3>2, <3>3 DEF Pool!Slot
    <3>5. pool' = [pool EXCEPT !.w[w].pipe = "left", !.w[w].peer = peer]
      <4> DEFINE q == [pool EXCEPT !.w[w].pipe = "left", !.w[w].peer = peer]
      <4>1. pool'.w[w] = q.w[w]
        BY <3>1, <3>2, <3>3 DEF Pool!TypeOK, Pool!Slot
      <4>2. pool' = [pool EXCEPT !.w = pool'.w] /\ q = [pool EXCEPT !.w = q.w]
        BY <3>1, <3>3 DEF Pool!TypeOK
      <4>3. pool'.w = [pool.w EXCEPT ![w] = pool'.w[w]] /\ q.w = [pool.w EXCEPT ![w] = q.w[w]]
        BY <3>1, <3>3 DEF Pool!TypeOK
      <4> HIDE DEF q
      <4>4. pool' = q
        BY <4>1, <4>2, <4>3
      <4> QED
        BY <4>4 DEF q
    <3> QED
      BY <2>2, <3>1, <3>4, <3>5, ClientKeeps
  <2>8. CASE \E c \in Clients : Pool!Connect(c)
    BY <2>2, <2>8, ClientKeeps DEF Pool!Connect
  <2>9. CASE \E w \in Workers : Pool!WorkerStep(w)
    BY <2>2, <2>9, WorkerKeeps
  <2> QED
    BY <1>2, <2>3, <2>4, <2>5, <2>6, <2>7, <2>8, <2>9 DEF Pool!Next
<1> QED
  BY <1>1, <1>2

(* It holds before anything is made.                                        *)
LEMMA PoolStarts == Pool!Init => Pool!IInv
<1> SUFFICES ASSUME Pool!Init PROVE Pool!IInv
  OBVIOUS
<1>1. pool = [w       |-> [w \in Workers |-> Pool!Unborn],
              idle    |-> [e \in Endpoints |-> 0],
              created |-> [e \in Endpoints |-> 0],
              total   |-> 0,
              permits |-> [k \in Endpoints \X Clients |-> 0],
              gate    |-> "instances",
              reason  |-> "none",
              faults  |-> 0,
              hurt    |-> {}]
  BY DEF Pool!Init
<1>2. Pool!Unborn \in Pool!Slot /\ Pool!Unborn.at = "none" /\ Pool!Unborn.of = "none"
  BY DEF Pool!Unborn, Pool!Slot, Pool!Places, Pool!Nobody
<1>3. \A w \in Workers : pool.w[w] = Pool!Unborn
  BY <1>1
<1>4. \A e \in Endpoints : Pool!Of(e) = {}
  BY <1>2, <1>3, EndpointAssumption DEF Pool!Of
<1>5. \A e \in Endpoints : Pool!WaitingOf(e) = {} /\ Pool!SlotsOf(e) = {}
  BY <1>4 DEF Pool!WaitingOf, Pool!SlotsOf
<1>6. Pool!Cardinality({}) = 0
  BY SameCount, FS_EmptySet
<1>7. Pool!TypeOK /\ DOMAIN pool = Pool!Fields
  BY <1>1, <1>2 DEF Pool!TypeOK, Pool!Fields
<1>8. Pool!Live /\ pool.gate = "instances" /\ \A e \in Endpoints : pool.idle[e] = 0 /\ pool.created[e] = 0
  BY <1>1 DEF Pool!Live
<1>9. Pool!StartOK
  BY <1>2, <1>3, <1>8 DEF Pool!StartOK
<1>10. \A w \in Workers : Pool!SlotOK(w) /\ Pool!AddsOK(w)
  BY <1>2, <1>3 DEF Pool!SlotOK, Pool!AddsOK
<1>11. ASSUME NEW e \in Endpoints PROVE Pool!RoomOK(e) /\ Pool!CountsOK(e)
  <2>1. Pool!Of(e) = {} /\ Pool!WaitingOf(e) = {} /\ Pool!SlotsOf(e) = {}
    BY <1>4, <1>5
  <2>2. Pool!RoomOK(e)
    BY <1>6, <2>1, RoomPositive DEF Pool!RoomOK
  <2>3. Pool!CountsOK(e)
    BY <1>6, <1>8, <2>1 DEF Pool!CountsOK
  <2> QED
    BY <2>2, <2>3
<1> QED
  BY <1>7, <1>8, <1>9, <1>10, <1>11 DEF Pool!IInv, Pool!Ready

(* The inductive invariant of the pool.                                     *)
THEOREM PoolInvariant == Pool!Spec => []Pool!IInv
BY PoolStarts, PoolStep, PTL DEF Pool!Spec

(* An endpoint of a running engine that has lost no worker never has all of *)
(* its workers serving while there is room for one more.                    *)
THEOREM RoomIsOffered == Pool!Spec => []SpareOffered
<1>1. Pool!IInv => SpareOffered
  <2> SUFFICES ASSUME Pool!IInv, NEW e \in Endpoints, Pool!Runs, e \notin pool.hurt,
                      \A w \in Pool!Of(e) : pool.w[w].at = "serves"
               PROVE  Pool!Cardinality(Pool!Piped(e)) = Pool!Room(e)
    BY DEF SpareOffered, Pool!SpareOffered
  <2>1. Pool!Live /\ pool.gate = "open"
    BY DEF Pool!Runs, Pool!Live
  <2>2. Pool!Ready
    BY <2>1 DEF Pool!IInv
  <2>3. Pool!Piped(e) = Pool!Of(e)
    BY <2>2, EndpointAssumption DEF Pool!Ready, Pool!SlotOK, Pool!Piped, Pool!Of, Pool!Unborn
  <2>4. Pool!CountsOK(e)
    BY <2>2 DEF Pool!Ready
  <2> QED
    BY <2>1, <2>3, <2>4 DEF Pool!CountsOK
<1> QED
  BY <1>1, PoolInvariant, PTL
=============================================================================

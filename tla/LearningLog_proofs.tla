------------------------- MODULE LearningLog_proofs -------------------------
(***************************************************************************)
(* What the user had forgotten or cleared does not come back, and what was *)
(* reported durable stays, in every behaviour of the learning log and for  *)
(* every value of the constants.                                           *)
(***************************************************************************)
EXTENDS LearningLog, FiniteSetTheorems, SequenceTheorems, WellFoundedInduction, TLAPS

-----------------------------------------------------------------------------
(* Induction, in the form of the least number of a set.                    *)

LEMMA Least ==
  ASSUME NEW T, T \subseteq Nat, T # {}
  PROVE  \E x \in T : \A y \in T : x <= y
<1> DEFINE R == OpToRel(<, Nat)
<1>1. IsWellFoundedOn(R, Nat)
  BY NatLessThanWellFounded
<1>2. \A x, y \in Nat : y < x => <<y, x>> \in R
  BY DEF OpToRel
<1> HIDE DEF R
<1>3. PICK x \in T : \A y \in T : ~ (<<y, x>> \in R)
  BY <1>1, WFMin
<1>4. \A y \in T : y \in Nat /\ x \in Nat /\ ~(y < x)
  BY <1>2, <1>3
<1> QED
  BY <1>4

LEMMA Induction ==
  ASSUME NEW n \in Nat, NEW S, 0 \in S, \A k \in 0..n : k \in S /\ k < n => k + 1 \in S
  PROVE  0..n \subseteq S
<1> DEFINE T == (0..n) \ S
<1>1. SUFFICES ASSUME T # {}
               PROVE  FALSE
  OBVIOUS
<1>2. T \subseteq Nat
  OBVIOUS
<1>3. PICK x \in T : \A y \in T : x <= y
  BY <1>1, <1>2, Least
<1>4. x \in 0..n /\ x \notin S /\ x # 0
  BY <1>3
<1>5. x - 1 \in 0..n /\ x - 1 < n /\ x - 1 < x
  BY <1>4
<1>6. x - 1 \in S
  BY <1>3, <1>5
<1> QED
  BY <1>4, <1>5, <1>6

(* What Readable reads: the frames before the first that is no record.     *)
LEMMA ReadableShape ==
  ASSUME NEW frames \in Frames
  PROVE  \E m \in 0..Len(frames) :
           /\ Readable(frames) = SubSeq(frames, 1, m)
           /\ \A i \in 1..m : frames[i] \in Records
           /\ m < Len(frames) => frames[m + 1] \notin Records
<1> DEFINE n == Len(frames)
           S == {k \in 0..n : \A i \in 1..k : frames[i] \in Records}
           T == {n - k : k \in S}
           m == Max(S)
<1>1. n \in Nat
  BY DEF Frames
<1>2. 0 \in S
  BY <1>1
<1>3. T \subseteq Nat /\ T # {}
  BY <1>1, <1>2
<1>4. PICK x \in T : \A y \in T : x <= y
  BY <1>3, Least
<1>5. PICK k \in S : x = n - k
  BY <1>4
<1>6. \A j \in S : n - j \in T /\ j \in 0..n
  OBVIOUS
<1>7. \A j \in S : k >= j
  <2>1. TAKE j \in S
  <2>2. x <= n - j /\ x = n - k /\ j \in 0..n /\ k \in 0..n
    BY <1>4, <1>5, <1>6
  <2> QED
    BY <1>1, <2>2
<1>8. m \in S /\ \A j \in S : m >= j
  BY <1>5, <1>7 DEF Max
<1> HIDE DEF m
<1>9. m < n => frames[m + 1] \notin Records
  <2>1. SUFFICES ASSUME m < n, frames[m + 1] \in Records
                 PROVE  m + 1 \in S
    BY <1>1, <1>8
  <2>2. \A i \in 1..m + 1 : i \in 1..m \/ i = m + 1
    BY <1>1, <1>8
  <2> QED
    BY <1>1, <1>8, <2>1, <2>2
<1>10. Readable(frames) = SubSeq(frames, 1, m)
  BY DEF Readable, m
<1> QED
  BY <1>8, <1>9, <1>10

-----------------------------------------------------------------------------
(* Frames and the records in them.                                         *)

LEMMA InFrames ==
  ASSUME NEW frames \in Frames, NEW r
  PROVE  r \in RecordsIn(frames) <=>
           r \in Records /\ \E i \in 1..Len(frames) : frames[i] = r
BY DEF RecordsIn, ToSet, Frames

LEMMA NoFrames == << >> \in Frames /\ RecordsIn(<< >>) = {} /\ Readable(<< >>) = << >>
<1>1. << >> \in Frames /\ Len(<< >>) = 0
  BY DEF Frames
<1>2. RecordsIn(<< >>) = {}
  BY <1>1, InFrames
<1>3. PICK m \in 0..0 : Readable(<< >>) = SubSeq(<< >>, 1, m)
  BY <1>1, ReadableShape
<1> QED
  BY <1>1, <1>2, <1>3

LEMMA PartOfFrames ==
  ASSUME NEW frames \in Frames, NEW m \in 1..Len(frames) + 1, NEW n \in 0..Len(frames)
  PROVE  /\ SubSeq(frames, m, n) \in Frames
         /\ RecordsIn(SubSeq(frames, m, n)) \subseteq RecordsIn(frames)
         /\ Len(SubSeq(frames, m, n)) = IF m <= n THEN n - m + 1 ELSE 0
         /\ \A i \in 1..n - m + 1 : SubSeq(frames, m, n)[i] = frames[m + i - 1]
<1> DEFINE s == SubSeq(frames, m, n)
<1>1. Len(frames) \in Nat /\ frames \in Seq(Records \union {Torn, Bad})
  BY DEF Frames
<1>2. /\ s \in Frames /\ Len(s) = (IF m <= n THEN n - m + 1 ELSE 0)
      /\ \A i \in 1..n - m + 1 : s[i] = frames[m + i - 1]
  BY <1>1, SubSeqProperties DEF Frames
<1> HIDE DEF s
<1>3. ASSUME NEW r \in RecordsIn(s)
      PROVE  r \in RecordsIn(frames)
  <2>1. PICK i \in 1..Len(s) : s[i] = r /\ r \in Records
    BY <1>2, InFrames
  <2>2. m + i - 1 \in 1..Len(frames) /\ frames[m + i - 1] = r
    BY <1>1, <1>2, <2>1
  <2> QED
    BY <2>1, <2>2, InFrames
<1> QED
  BY <1>2, <1>3 DEF s

LEMMA OneFrameMore ==
  ASSUME NEW frames \in Frames, NEW r \in Records \union {Torn, Bad}
  PROVE  /\ Append(frames, r) \in Frames /\ Len(Append(frames, r)) = Len(frames) + 1
         /\ \A q : q \in RecordsIn(Append(frames, r)) <=>
                     q \in RecordsIn(frames) \/ (q \in Records /\ q = r)
<1> DEFINE s == Append(frames, r)
<1>1. /\ s \in Frames /\ Len(s) = Len(frames) + 1 /\ Len(frames) \in Nat
      /\ s[Len(s)] = r /\ \A i \in 1..Len(frames) : s[i] = frames[i]
  BY AppendProperties DEF Frames
<1> HIDE DEF s
<1>2. \A i : i \in 1..Len(s) <=> i \in 1..Len(frames) \/ i = Len(s)
  BY <1>1
<1>3. \A q : q \in RecordsIn(s) <=> q \in RecordsIn(frames) \/ (q \in Records /\ q = r)
  BY <1>1, <1>2, InFrames
<1> QED
  BY <1>1, <1>3 DEF s

LEMMA ReadableKeeps ==
  ASSUME NEW frames \in Frames
  PROVE  /\ Readable(frames) \in Frames /\ RecordsIn(Readable(frames)) \subseteq RecordsIn(frames)
         /\ Len(Readable(frames)) <= Len(frames)
<1>1. PICK m \in 0..Len(frames) : Readable(frames) = SubSeq(frames, 1, m)
  BY ReadableShape
<1>2. Len(frames) \in Nat
  BY DEF Frames
<1>3. 1 \in 1..Len(frames) + 1
  BY <1>2
<1> QED
  BY <1>1, <1>2, <1>3, PartOfFrames

LEMMA CompactedKeeps ==
  ASSUME NEW frames \in Frames
  PROVE  Compacted(frames) \in Frames /\ RecordsIn(Compacted(frames)) \subseteq RecordsIn(frames)
<1> DEFINE good == Readable(frames)
<1>1. good \in Frames /\ RecordsIn(good) \subseteq RecordsIn(frames) /\ Len(good) \in Nat
  BY ReadableKeeps DEF Frames
<1> HIDE DEF good
<1>2. CASE Len(good) > Target
  <2>1. Len(good) - Target + 1 \in 1..Len(good) + 1 /\ Len(good) \in 0..Len(good)
    BY <1>1, <1>2, LogAssumption DEF LogAssumption
  <2>2. Compacted(frames) = SubSeq(good, Len(good) - Target + 1, Len(good))
    BY <1>2 DEF Compacted, good
  <2> QED
    BY <1>1, <2>1, <2>2, PartOfFrames
<1>3. CASE ~(Len(good) > Target)
  BY <1>1, <1>3 DEF Compacted, good
<1> QED
  BY <1>2, <1>3

(* What is left without the frames about an item: the others.              *)
LEMMA WithoutKeeps ==
  ASSUME NEW frames \in Frames, NEW item
  PROVE  /\ Without(frames, item) \in Frames
         /\ \A r : r \in RecordsIn(Without(frames, item)) <=>
                     r \in RecordsIn(frames) /\ ItemOf[r] # item
         /\ Sound(frames) => Sound(Without(frames, item))
<1> DEFINE n == Len(frames)
           About(i) == frames[i] \in Records /\ ItemOf[frames[i]] = item
           Next_(g, i) == IF i = 0 THEN << >>
                          ELSE IF About(i) THEN g[i - 1] ELSE Append(g[i - 1], frames[i])
           Good(g, k) == g = [i \in 0..k |-> Next_(g, i)]
           S == {k \in 0..n : \E g : Good(g, k)}
           left == CHOOSE g : Good(g, n)
<1>1. n \in Nat /\ \A i \in 1..n : frames[i] \in Records \union {Torn, Bad}
  BY DEF Frames
<1>2. 0 \in S
  <2>1. Good([i \in 0..0 |-> << >>], 0)
    BY <1>1
  <2> HIDE DEF Good
  <2>2. \E g : Good(g, 0)
    BY <2>1
  <2> QED
    BY <1>1, <2>2
<1>3. ASSUME NEW k \in 0..n, k \in S, k < n
      PROVE  k + 1 \in S
  <2>1. PICK held : Good(held, k)
    BY <1>3
  <2> DEFINE h == [i \in 0..k + 1 |-> IF i = k + 1 THEN Next_(held, i) ELSE held[i]]
  <2>2. ASSUME NEW i \in 0..k + 1
        PROVE  h[i] = Next_(h, i)
    <3>1. CASE i = 0
      BY <1>1, <2>1, <3>1
    <3>2. CASE i # 0
      <4>1. i - 1 \in 0..k /\ i - 1 \in 0..k + 1 /\ i - 1 # k + 1
        BY <1>1, <3>2
      <4>2. h[i - 1] = held[i - 1]
        BY <4>1
      <4>3. CASE i = k + 1
        BY <3>2, <4>2, <4>3
      <4>4. CASE i # k + 1
        <5>1. i \in 0..k
          BY <1>1, <4>4
        <5>2. h[i] = held[i] /\ held[i] = Next_(held, i)
          BY <2>1, <4>4, <5>1
        <5> QED
          BY <4>2, <5>2
      <4> QED
        BY <4>3, <4>4
    <3> QED
      BY <3>1, <3>2
  <2>3. Good(h, k + 1)
    BY <2>2
  <2> HIDE DEF Good, h
  <2>4. \E g : Good(g, k + 1)
    BY <2>3
  <2> QED
    BY <1>1, <1>3, <2>4
<1>4. n \in S
  <2> HIDE DEF S, n
  <2>1. 0..n \subseteq S
    BY <1>1, <1>2, <1>3, Induction
  <2> QED
    BY <1>1, <2>1
<1>5. Good(left, n)
  BY <1>4
<1>6. Without(frames, item) = left[n]
  BY DEF Without
<1> HIDE DEF left
<1>7. left[0] = << >> /\ \A i \in 1..n : left[i] = Next_(left, i)
  <2>1. \A i \in 0..n : left[i] = Next_(left, i)
    BY <1>5
  <2>2. 0 \in 0..n /\ \A i \in 1..n : i \in 0..n
    BY <1>1
  <2> QED
    BY <2>1, <2>2
<1> DEFINE Right(k) == /\ left[k] \in Frames
                       /\ \A r : r \in RecordsIn(left[k]) <=>
                            r \in Records /\ ItemOf[r] # item /\ \E i \in 1..k : frames[i] = r
                       /\ Sound(frames) => Sound(left[k])
           U == {k \in 0..n : Right(k)}
<1>8. 0 \in U
  BY <1>1, <1>7, NoFrames DEF Sound
<1>9. ASSUME NEW k \in 0..n, k \in U, k < n
      PROVE  k + 1 \in U
  <2>1. k + 1 \in 1..n /\ k + 1 \in 0..n /\ (k + 1) - 1 = k /\ k + 1 # 0
    BY <1>1, <1>9
  <2>2. left[k + 1] = IF About(k + 1) THEN left[k] ELSE Append(left[k], frames[k + 1])
    BY <1>7, <2>1
  <2>3. \A i : i \in 1..k + 1 <=> i \in 1..k \/ i = k + 1
    BY <1>1
  <2>4. CASE About(k + 1)
    <3>1. left[k + 1] = left[k] /\ Right(k)
      BY <1>9, <2>2, <2>4
    <3> QED
      BY <2>1, <2>3, <2>4, <3>1
  <2>5. CASE ~About(k + 1)
    <3>1. left[k + 1] = Append(left[k], frames[k + 1]) /\ Right(k)
      BY <1>9, <2>2, <2>5
    <3>2. \A r : r \in RecordsIn(left[k + 1]) <=>
                   r \in RecordsIn(left[k]) \/ (r \in Records /\ r = frames[k + 1])
      BY <1>1, <2>1, <3>1, OneFrameMore
    <3>3. left[k + 1] \in Frames
      BY <1>1, <2>1, <3>1, OneFrameMore
    <3>4. \A r : r = frames[k + 1] => (r \in Records => ItemOf[r] # item)
      BY <2>5
    <3>5. \A r : r \in RecordsIn(left[k + 1]) <=>
                   r \in Records /\ ItemOf[r] # item /\ \E i \in 1..k + 1 : frames[i] = r
      BY <2>3, <3>1, <3>2, <3>4
    <3>6. Sound(frames) => Sound(left[k + 1])
      <4>1. SUFFICES ASSUME Sound(frames)
                     PROVE  Sound(left[k + 1])
        OBVIOUS
      <4>2. Sound(left[k]) /\ left[k] \in Seq(Records \union {Torn, Bad})
        BY <3>1, <4>1 DEF Frames
      <4>3. frames[k + 1] \in Records
        BY <2>1, <4>1 DEF Sound
      <4> HIDE DEF Right
      <4>4. Sound(Append(left[k], frames[k + 1]))
        BY <4>2, <4>3, AppendProperties DEF Sound
      <4> QED
        BY <3>1, <4>4
    <3> QED
      BY <2>1, <3>3, <3>5, <3>6
  <2> QED
    BY <2>4, <2>5
<1>10. n \in U
  <2> HIDE DEF U, n
  <2>1. 0..n \subseteq U
    BY <1>1, <1>8, <1>9, Induction
  <2> QED
    BY <1>1, <2>1
<1>11. Right(n)
  BY <1>10
<1> QED
  BY <1>6, <1>11, InFrames

(* What the recovery takes to be readable, and what it may leave behind.    *)
LEMMA ReadableSound ==
  ASSUME NEW frames \in Frames
  PROVE  /\ Sound(Readable(frames)) /\ Sound(Compacted(frames))
         /\ IsWhole(frames) => Sound(frames)
<1>1. Len(frames) \in Nat /\ frames \in Seq(Records \union {Torn, Bad})
  BY DEF Frames
<1>2. PICK m \in 0..Len(frames) :
        Readable(frames) = SubSeq(frames, 1, m) /\ \A i \in 1..m : frames[i] \in Records
  BY ReadableShape
<1> DEFINE good == Readable(frames)
<1>3. 1 \in 1..Len(frames) + 1
  BY <1>1
<1>4. /\ good \in Frames /\ Len(good) = (IF 1 <= m THEN m - 1 + 1 ELSE 0)
      /\ \A i \in 1..m - 1 + 1 : good[i] = frames[1 + i - 1]
  BY <1>1, <1>2, <1>3, PartOfFrames
<1> HIDE DEF good
<1>5. Sound(good)
  BY <1>1, <1>2, <1>4 DEF Sound
<1>6. Sound(Compacted(frames))
  <2>1. CASE Len(good) > Target
    <3> DEFINE k == Len(good) - Target + 1
    <3>1. k \in 1..Len(good) + 1 /\ Len(good) \in 0..Len(good) /\ Len(good) \in Nat
      BY <1>1, <1>4, <2>1, LogAssumption DEF LogAssumption
    <3>2. Compacted(frames) = SubSeq(good, k, Len(good))
      BY <2>1 DEF Compacted, good
    <3> HIDE DEF k
    <3>3. /\ Len(SubSeq(good, k, Len(good))) = (IF k <= Len(good) THEN Len(good) - k + 1 ELSE 0)
          /\ \A i \in 1..Len(good) - k + 1 : SubSeq(good, k, Len(good))[i] = good[k + i - 1]
      BY <1>4, <3>1, PartOfFrames
    <3>4. ASSUME NEW i \in 1..Len(SubSeq(good, k, Len(good)))
          PROVE  SubSeq(good, k, Len(good))[i] \in Records
      <4>1. i \in 1..Len(good) - k + 1 /\ k + i - 1 \in 1..Len(good)
        BY <3>1, <3>3
      <4> QED
        BY <1>5, <3>3, <4>1 DEF Sound
    <3> QED
      BY <3>2, <3>4 DEF Sound
  <2>2. CASE ~(Len(good) > Target)
    BY <1>5, <2>2 DEF Compacted, good
  <2> QED
    BY <2>1, <2>2
<1>7. IsWhole(frames) => Sound(frames)
  BY <1>5 DEF IsWhole, good
<1> QED
  BY <1>5, <1>6, <1>7 DEF good

LEMMA ReadsAll ==
  ASSUME NEW frames \in Frames, TornLast(frames),
         Unspoiled(frames) \/ TRUE \in TornVerdicts(Rest(frames))
  PROVE  RecordsIn(Readable(frames)) = RecordsIn(frames)
<1>1. Len(frames) \in Nat /\ frames \in Seq(Records \union {Torn, Bad})
  BY DEF Frames
<1>2. PICK m \in 0..Len(frames) :
        /\ Readable(frames) = SubSeq(frames, 1, m)
        /\ m < Len(frames) => frames[m + 1] \notin Records
  BY ReadableShape
<1> DEFINE good == Readable(frames)
<1>3. 1 \in 1..Len(frames) + 1
  BY <1>1
<1>4. /\ good \in Frames /\ Len(good) = m /\ RecordsIn(good) \subseteq RecordsIn(frames)
      /\ \A i \in 1..m : good[i] = frames[i]
  BY <1>1, <1>2, <1>3, PartOfFrames
<1> HIDE DEF good
<1>5. m >= Len(frames) - 1
  <2>1. SUFFICES ASSUME m < Len(frames) - 1
                 PROVE  FALSE
    BY <1>1
  <2>2. m + 1 \in 1..Len(frames) /\ m + 1 # Len(frames) /\ m < Len(frames)
    BY <1>1, <2>1
  <2>3. frames[m + 1] = Bad
    BY <1>1, <1>2, <2>2 DEF TornLast
  <2>4. ~Unspoiled(frames)
    BY <2>2, <2>3 DEF Unspoiled
  <2>5. Rest(frames) = SubSeq(frames, m + 1, Len(frames))
    BY <1>4 DEF Rest, good
  <2>6. /\ Len(Rest(frames)) = Len(frames) - m /\ Rest(frames)[1] = frames[m + 1]
        /\ Rest(frames) \in Frames
    <3>1. /\ m + 1 \in 1..Len(frames) + 1 /\ Len(frames) \in 0..Len(frames)
          /\ 1 \in 1..Len(frames) - (m + 1) + 1 /\ m + 1 <= Len(frames)
      BY <1>1, <2>1
    <3>2. /\ SubSeq(frames, m + 1, Len(frames)) \in Frames
          /\ Len(SubSeq(frames, m + 1, Len(frames))) = Len(frames) - (m + 1) + 1
          /\ SubSeq(frames, m + 1, Len(frames))[1] = frames[(m + 1) + 1 - 1]
      BY <3>1, PartOfFrames
    <3>3. (m + 1) + 1 - 1 = m + 1 /\ Len(frames) - (m + 1) + 1 = Len(frames) - m
      BY <1>1
    <3> QED
      BY <2>5, <3>2, <3>3
  <2>7. ~(Len(Rest(frames)) < 2) /\ Head(Rest(frames)) = Bad
    BY <1>1, <2>1, <2>3, <2>6 DEF Frames
  <2>8. TornVerdicts(Rest(frames)) = {FALSE}
    BY <2>7 DEF TornVerdicts
  <2> QED
    BY <2>4, <2>8
<1>6. ASSUME NEW r \in RecordsIn(frames)
      PROVE  r \in RecordsIn(good)
  <2>1. PICK i \in 1..Len(frames) : frames[i] = r /\ r \in Records
    BY InFrames
  <2>2. i \in 1..m
    BY <1>1, <1>2, <1>5, <2>1
  <2> QED
    BY <1>4, <2>1, <2>2, InFrames
<1> QED
  BY <1>4, <1>6 DEF good

LEMMA SoundFacts ==
  ASSUME NEW frames \in Frames, Sound(frames)
  PROVE  TornLast(frames) /\ Unspoiled(frames)
BY LogAssumption DEF Sound, TornLast, Unspoiled, Torn, Bad, Records, LogAssumption

-----------------------------------------------------------------------------
(* Files.                                                                  *)

LEMMA FileFacts ==
  /\ Absent \in Files /\ Absent.frames = << >> /\ Absent.kind = "none" /\ Absent.safe = 0
  /\ Blank \in Files /\ There(Blank) /\ Blank.frames = << >> /\ Blank.safe = 0
  /\ \A frames \in Frames :
       /\ Canonical(frames) \in Files /\ There(Canonical(frames))
       /\ Canonical(frames).frames = frames /\ Canonical(frames).safe = Len(frames)
  /\ \A f \in Files : /\ f.frames \in Frames /\ f.safe \in 0..Len(f.frames)
                      /\ f.kind \in {"none", "blank", "old", "now"}
                      /\ f.kind # "none" => There(f)
  /\ RecordsIn(<< >>) = {} /\ << >> \in Frames
<1>1. << >> \in Frames /\ RecordsIn(<< >>) = {}
  BY NoFrames
<1>2. \A frames \in Frames : Len(frames) \in Nat
  BY DEF Frames
<1>3. /\ Absent \in Files /\ Absent.frames = << >> /\ Absent.kind = "none" /\ Absent.safe = 0
      /\ Blank \in Files /\ There(Blank) /\ Blank.frames = << >> /\ Blank.safe = 0
  BY <1>1 DEF Absent, Blank, File, Files, There
<1>4. ASSUME NEW frames \in Frames
      PROVE  /\ Canonical(frames) \in Files /\ There(Canonical(frames))
             /\ Canonical(frames).frames = frames /\ Canonical(frames).safe = Len(frames)
  BY <1>2 DEF Absent, Canonical, File, Files, There
<1>5. ASSUME NEW f \in Files
      PROVE  /\ f.frames \in Frames /\ f.safe \in 0..Len(f.frames)
             /\ f.kind \in {"none", "blank", "old", "now"}
             /\ f.kind # "none" => There(f)
  BY <1>2, <1>3 DEF Files, There
<1> QED
  BY <1>1, <1>3, <1>4, <1>5

LEMMA IdleFacts ==
  /\ Idle \in Operations /\ Idle.do = "rest" /\ Idle.at = "rest" /\ Idle.out = << >>
  /\ Closed \in Memory /\ ~Closed.file /\ ~Closed.restore /\ ~Closed.backups /\ ~Closed.temps
<1>1. Items # {}
  BY LogAssumption DEF LogAssumption
<1>2. (CHOOSE i \in Items : TRUE) \in Items
  BY <1>1
<1> QED
  BY <1>2, NoFrames DEF Idle, Closed, Operations, Memory, Steps

-----------------------------------------------------------------------------
(* What stays in order: the parts of the invariant.                        *)

LEMMA Typed ==
  ASSUME LogInv
  PROVE  /\ disk \in Directories /\ mem \in Memory /\ op \in Operations /\ up \in BOOLEAN
         /\ {disk.log, disk.parked, disk.forgetBak, disk.compactBak} \subseteq Files
         /\ disk.versions \subseteq Files /\ disk.copies \in Seq(Frames)
         /\ learned \in Nat /\ erased \subseteq 1..learned /\ cleared \subseteq 1..learned
         /\ op.out \in Frames
BY DEF LogInv, LogTypeOK, Directories, Operations

LEMMA OpenKeeps ==
  ASSUME LogInv, Open
  PROVE  LogInv'
<1>1. /\ op = Idle /\ ~up
      /\ mem' = [Closed EXCEPT !.temps = disk.forgetTmp,
                               !.backups = There(disk.log) /\ Parked(disk) # {}]
      /\ op' = [Idle EXCEPT !.do = "open",
                     !.at = IF There(disk.log) \/ Parked(disk) = {} THEN "leftovers" ELSE "restore"]
      /\ There(disk.log) \/ ~(There(disk.parked) /\ There(disk.forgetBak))
      /\ UNCHANGED <<disk, up, view, learned, damage, flushed, erased, cleared>>
  BY DEF Open, Quietly
<1>2. Parked(disk) # {} <=> There(disk.parked) \/ There(disk.forgetBak)
  BY DEF Parked, There
<1>3. /\ op'.do = "open" /\ op'.out = << >> /\ op' \in Operations
      /\ op'.at = IF There(disk.log) \/ ~(There(disk.parked) \/ There(disk.forgetBak)) THEN "leftovers" ELSE "restore"
  BY <1>1, <1>2, IdleFacts DEF Operations, Steps
<1>4. /\ mem' \in Memory /\ ~mem'.restore
      /\ mem'.backups <=> There(disk.log) /\ (There(disk.parked) \/ There(disk.forgetBak))
  BY <1>1, <1>2, IdleFacts, Typed DEF Memory, Directories
<1>5. LogTypeOK'
  BY <1>1, <1>3, <1>4 DEF LogInv, LogTypeOK
<1>6. StepsOK'
  <2>1. op'.do = "open" /\ op'.at \in {"leftovers", "restore"} /\ ~up'
    BY <1>1, <1>3
  <2> QED
    BY <2>1, IdleFacts DEF StepsOK, Does
<1>7. OneLog'
  BY <1>1, <1>3, <1>4, IdleFacts DEF LogInv, OneLog, Does, Served, Begun, HasLog, Cleaned
<1>8. ErasedIsGone'
  BY <1>1, <1>3, FileFacts DEF LogInv, ErasedIsGone
<1>9. ClearedIsGone'
  BY <1>1, <1>3, FileFacts DEF LogInv, ClearedIsGone, Within, Does
<1> QED
  BY <1>5, <1>6, <1>7, <1>8, <1>9 DEF LogInv

(* An operation that ends in an error leaves the directory in order, and    *)
(* the memory if the engine goes on.                                        *)
LEMMA FailKeeps ==
  ASSUME LogInv, op.do # "rest", NEW m \in Memory, FailWith(m),
         disk' \in Directories, Len(disk'.copies) <= RetainedCopies,
         UNCHANGED <<up, view, learned, damage, erased, cleared>>, flushed' \subseteq 1..learned,
         Within(disk', << >>, (1..learned) \ cleared),
         RecordsIn(disk'.log.frames) \intersect erased = {},
         ~There(disk'.log) => RecordsIn(disk'.parked.frames) \intersect erased = {},
         erased # {} => There(disk'.log) \/ (There(disk'.parked) /\ ~There(disk'.forgetBak)),
         up => /\ ~There(disk'.compactBak)
               /\ m.restore => /\ ~m.backups /\ ~There(disk'.log)
                               /\ There(disk'.parked) /\ ~There(disk'.forgetBak)
               /\ ~m.restore => /\ There(disk'.log)
                                /\ m.backups \/ (~There(disk'.parked) /\ ~There(disk'.forgetBak))
               /\ m.backups => There(disk'.log)
  PROVE  LogInv'
<1>1. op' = Idle /\ mem' = (IF op.do = "open" THEN Closed ELSE m) /\ mem' \in Memory
  BY IdleFacts DEF FailWith
<1>2. up \/ op.do = "open"
  BY Typed DEF LogInv, StepsOK, Does, Operations
<1>3. op.do = "open" => ~up
  BY DEF LogInv, StepsOK, Does
<1>4. LogTypeOK'
  BY <1>1, IdleFacts DEF LogInv, LogTypeOK
<1>5. StepsOK'
  BY <1>1, <1>2, <1>3, IdleFacts DEF StepsOK, Does
<1>6. OneLog'
  BY <1>1, <1>2, <1>3, IdleFacts DEF OneLog, Does, Served, Begun, HasLog, Cleaned
<1>7. ErasedIsGone'
  BY <1>1, IdleFacts, FileFacts DEF LogInv, ErasedIsGone
<1>8. ClearedIsGone'
  BY <1>1, IdleFacts, FileFacts DEF LogInv, ClearedIsGone, Does
<1> QED
  BY <1>4, <1>5, <1>6, <1>7, <1>8 DEF LogInv

(* In particular when it leaves the directory as it was.                    *)
LEMMA FailStays ==
  ASSUME LogInv, op.do # "rest", op.at # "swap",
         NEW m \in Memory, m.restore = mem.restore, m.backups = mem.backups, FailWith(m),
         UNCHANGED <<disk, up, view, learned, damage, erased, cleared>>, flushed' \subseteq 1..learned
  PROVE  LogInv'
<1>1. Within(disk, << >>, (1..learned) \ cleared)
  BY FileFacts DEF LogInv, ClearedIsGone, Within
<1>2. disk \in Directories /\ Len(disk.copies) <= RetainedCopies
  BY DEF LogInv, LogTypeOK
<1>3. /\ RecordsIn(disk.log.frames) \intersect erased = {}
      /\ ~There(disk.log) => RecordsIn(disk.parked.frames) \intersect erased = {}
  BY DEF LogInv, ErasedIsGone
<1>4. /\ erased # {} => There(disk.log) \/ (There(disk.parked) /\ ~There(disk.forgetBak))
      /\ up => /\ ~There(disk.compactBak)
               /\ m.restore => /\ ~m.backups /\ ~There(disk.log)
                               /\ There(disk.parked) /\ ~There(disk.forgetBak)
               /\ ~m.restore => /\ There(disk.log)
                                /\ m.backups \/ (~There(disk.parked) /\ ~There(disk.forgetBak))
               /\ m.backups => There(disk.log)
  BY Typed DEF LogInv, OneLog, StepsOK, Begun, HasLog, Served, Does, Operations
<1>5. /\ disk' \in Directories /\ Len(disk'.copies) <= RetainedCopies
      /\ Within(disk', << >>, (1..learned) \ cleared)
  BY <1>1, <1>2
<1> QED
  BY <1>3, <1>4, <1>5, FailKeeps

(* A step of an operation that changes neither the directory nor what the   *)
(* service knows of it.                                                     *)
LEMMA StepKeeps ==
  ASSUME LogInv, op' \in Operations, op'.do = op.do, op.do # "rest", op.at # "swap",
         UNCHANGED <<disk, mem, up, view, learned, damage, erased, cleared>>,
         flushed' \subseteq 1..learned,
         RecordsIn(op'.out) \subseteq RecordsIn(disk.log.frames) \union RecordsIn(op.out),
         op.do = "forget" => op'.item = op.item /\ \A r \in RecordsIn(op'.out) : ItemOf[r] # op.item,
         op.do = "clear" => op'.out = << >>,
         op'.at \in {"read", "upgrade", "keep old", "replace old", "quarantine", "truncate",
                     "settle", "sync", "write", "publish", "filter", "own", "park", "copies"},
         op.at \notin {"restore", "leftovers", "create"},
         StepsOK', Cleaned' => ~mem.restore /\ ~mem.backups,
         op.do = "clear" /\ op'.at \in {"sync", "write", "publish"} =>
           disk.copies = << >> /\ disk.versions = {}
  PROVE  LogInv'
<1>1. LogTypeOK'
  BY DEF LogInv, LogTypeOK
<1>2. OneLog'
  <2>1. up \/ op.do = "open"
    BY Typed DEF LogInv, StepsOK, Does, Operations
  <2>2. Served /\ Begun /\ HasLog
    BY <2>1 DEF Served, Begun, HasLog
  <2>3. mem.restore => up /\ ~mem.backups /\ op'.at \in {"rest", "settle", "abort"}
    <3>1. SUFFICES ASSUME mem.restore
                   PROVE  up /\ ~mem.backups /\ op'.at \in {"rest", "settle", "abort"}
      OBVIOUS
    <3>2. up /\ ~mem.backups
      BY <3>1 DEF LogInv, OneLog
    <3>3. op'.do \in {"maintain", "forget", "clear"}
      BY <3>2, Typed DEF LogInv, StepsOK, Does, Operations
    <3>4. op'.at \notin {"sync", "write", "publish", "filter", "own", "park", "copies",
                       "versions", "reopen"}
      BY <3>1 DEF Cleaned
    <3> QED
      BY <3>2, <3>3, <3>4 DEF StepsOK, Does
  <2>4. op'.at \notin {"swap", "restore"} /\ op.at # "restore"
    OBVIOUS
  <2> QED
    BY <2>2, <2>3, <2>4 DEF LogInv, OneLog, Does
<1>3. ErasedIsGone'
  BY DEF LogInv, ErasedIsGone
<1>4. ClearedIsGone'
  BY DEF LogInv, ClearedIsGone, Within, Does
<1> QED
  BY <1>1, <1>2, <1>3, <1>4 DEF LogInv

-----------------------------------------------------------------------------
(* Opening.                                                                *)

LEMMA KeptFacts ==
  ASSUME NEW f \in Files, NEW kept,
         kept = (IF IsWhole(f.frames) THEN f ELSE Canonical(Readable(f.frames)))
  PROVE  /\ kept \in Files /\ RecordsIn(kept.frames) \subseteq RecordsIn(f.frames)
         /\ There(f) => There(kept)
<1>1. f.frames \in Frames
  BY FileFacts
<1>2. Readable(f.frames) \in Frames /\ RecordsIn(Readable(f.frames)) \subseteq RecordsIn(f.frames)
  BY <1>1, ReadableKeeps
<1> QED
  BY <1>2, FileFacts

LEMMA OpenRestoresKeeps ==
  ASSUME LogInv, OpenRestores
  PROVE  LogInv'
<1> DEFINE f == IF There(disk.parked) THEN disk.parked ELSE disk.forgetBak
           kept == IF IsWhole(f.frames) THEN f ELSE Canonical(Readable(f.frames))
<1>1. /\ op.do = "open" /\ op.at = "restore" /\ ~up
      /\ UNCHANGED <<up, view, learned, damage, flushed, erased, cleared>>
  BY DEF OpenRestores, Does, Quietly, LogInv, StepsOK
<1>2. /\ There(disk.parked) <=> ~There(disk.forgetBak)
      /\ ~There(disk.log) /\ ~mem.backups /\ ~mem.restore
      /\ erased # {} => There(disk.parked)
  BY <1>1 DEF LogInv, OneLog, Does
<1>3. /\ kept \in Files /\ There(kept) /\ RecordsIn(kept.frames) \subseteq RecordsIn(f.frames)
  <2>1. f \in Files /\ There(f)
    BY <1>2, Typed
  <2> HIDE DEF f
  <2> QED
    BY <2>1, KeptFacts
<1>4. \/ UNCHANGED disk /\ Fail
      \/ /\ disk' = (IF There(disk.parked) THEN [disk EXCEPT !.parked = kept]
                     ELSE [disk EXCEPT !.forgetBak = kept])
         /\ Fail
      \/ /\ disk' = (IF There(disk.parked) THEN [disk EXCEPT !.parked = Absent, !.log = kept]
                     ELSE [disk EXCEPT !.forgetBak = Absent, !.log = kept])
         /\ op' = [op EXCEPT !.at = "leftovers"] /\ UNCHANGED mem
  BY DEF OpenRestores, RestoreFrom, Goto
<1>5. /\ RecordsIn(f.frames) \subseteq (1..learned) \ cleared
      /\ RecordsIn(f.frames) \intersect erased = {}
  BY <1>2 DEF LogInv, ClearedIsGone, Within, ErasedIsGone
<1> HIDE DEF kept, f
<1>6. mem \in Memory /\ flushed \subseteq 1..learned
  BY DEF LogInv, LogTypeOK
<1>7. CASE UNCHANGED disk /\ Fail
  BY <1>1, <1>6, <1>7, FailStays DEF Fail, FailWith
<1>8. CASE /\ disk' = (IF There(disk.parked) THEN [disk EXCEPT !.parked = kept]
                       ELSE [disk EXCEPT !.forgetBak = kept])
           /\ Fail
  <2>1. /\ disk' \in Directories /\ disk'.log = disk.log /\ disk'.copies = disk.copies
        /\ disk'.compactBak = disk.compactBak /\ disk'.versions = disk.versions
        /\ disk'.parked = (IF There(disk.parked) THEN kept ELSE disk.parked)
        /\ disk'.forgetBak = (IF There(disk.parked) THEN disk.forgetBak ELSE kept)
    BY <1>3, <1>8, Typed DEF Directories
  <2>2. Within(disk', << >>, (1..learned) \ cleared)
    BY <1>3, <1>5, <2>1, FileFacts DEF LogInv, ClearedIsGone, Within
  <2>3. /\ RecordsIn(disk'.log.frames) \intersect erased = {}
        /\ RecordsIn(disk'.parked.frames) \intersect erased = {}
        /\ erased # {} => There(disk'.parked) /\ ~There(disk'.forgetBak)
    BY <1>2, <1>3, <1>5, <2>1 DEF LogInv, ErasedIsGone
  <2>4. Len(disk'.copies) <= RetainedCopies
    BY <2>1 DEF LogInv, LogTypeOK
  <2> QED
    BY <1>1, <1>6, <1>8, <2>1, <2>2, <2>3, <2>4, FailKeeps DEF Fail, FailWith
<1>9. CASE /\ disk' = (IF There(disk.parked) THEN [disk EXCEPT !.parked = Absent, !.log = kept]
                       ELSE [disk EXCEPT !.forgetBak = Absent, !.log = kept])
           /\ op' = [op EXCEPT !.at = "leftovers"] /\ UNCHANGED mem
  <2>1. /\ disk' \in Directories /\ disk'.log = kept /\ disk'.copies = disk.copies
        /\ disk'.compactBak = disk.compactBak /\ disk'.versions = disk.versions
        /\ disk'.parked = Absent /\ disk'.forgetBak = Absent
    BY <1>2, <1>3, <1>9, Typed, FileFacts DEF Directories, There
  <2>2. /\ op' \in Operations /\ op'.do = "open" /\ op'.at = "leftovers" /\ op'.out = op.out
        /\ op'.item = op.item
    BY <1>1, <1>9, Typed DEF Operations, Steps
  <2>3. LogTypeOK'
    BY <1>1, <1>9, <2>1, <2>2 DEF LogInv, LogTypeOK
  <2>4. StepsOK'
    BY <1>1, <2>2, IdleFacts DEF LogInv, StepsOK, Does
  <2>5. OneLog'
    BY <1>1, <1>2, <1>3, <1>9, <2>1, <2>2 DEF LogInv, OneLog, Does, Served, Begun, HasLog, Cleaned, There
  <2>6. ErasedIsGone'
    BY <1>1, <1>3, <1>5, <2>1, <2>2 DEF LogInv, ErasedIsGone
  <2>7. ClearedIsGone'
    BY <1>1, <1>3, <1>5, <2>1, <2>2, FileFacts DEF LogInv, ClearedIsGone, Within, Does
  <2> QED
    BY <2>3, <2>4, <2>5, <2>6, <2>7 DEF LogInv
<1> QED
  BY <1>4, <1>7, <1>8, <1>9

(* A step of the opening on the log itself.                                 *)
LEMMA OpenStepKeeps ==
  ASSUME LogInv, op.do = "open", op.at # "restore", op' \in Operations, op'.do = "open",
         op'.at \in {"create", "header", "read", "upgrade", "keep old", "replace old",
                     "quarantine", "truncate"},
         UNCHANGED <<mem, up, view, learned, damage, erased, cleared>>,
         flushed' \subseteq 1..learned,
         disk' \in Directories, Len(disk'.copies) <= RetainedCopies,
         disk'.parked = disk.parked, disk'.forgetBak = disk.forgetBak, disk'.compactBak = Absent,
         op'.at # "create" => There(disk'.log), There(disk.log) => There(disk'.log),
         Within(disk', op'.out, (1..learned) \ cleared),
         RecordsIn(disk'.log.frames) \intersect erased = {},
         RecordsIn(op'.out) \intersect erased = {}
  PROVE  LogInv'
<1>1. ~up /\ ~mem.restore /\ op.at # "swap" /\ Served
  BY DEF LogInv, StepsOK, Does, OneLog, Served
<1>2. LogTypeOK'
  BY DEF LogInv, LogTypeOK
<1>3. StepsOK'
  BY <1>1, IdleFacts DEF StepsOK, Does
<1>4. OneLog'
  BY <1>1 DEF LogInv, OneLog, Does, Served, Begun, HasLog, Cleaned, There
<1>5. ErasedIsGone'
  BY DEF LogInv, ErasedIsGone
<1>6. ClearedIsGone'
  BY DEF ClearedIsGone, Does
<1> QED
  BY <1>2, <1>3, <1>4, <1>5, <1>6 DEF LogInv

LEMMA ClearLeftoversKeeps ==
  ASSUME LogInv, ClearLeftovers
  PROVE  LogInv'
<1>1. /\ op.do = "open" /\ op.at = "leftovers" /\ ~up /\ There(disk.log)
      /\ UNCHANGED <<up, view, learned, damage, flushed, erased, cleared>>
  BY DEF ClearLeftovers, Does, Quietly, LogInv, StepsOK
<1>2. PICK removed \in 0..2 :
        /\ disk' = [disk EXCEPT !.compactBak = IF removed > 0 THEN Absent ELSE @,
                                !.clearBak = @ /\ removed < 2]
        /\ \/ Fail
           \/ removed = 2 /\ op' = [op EXCEPT !.at = "read"] /\ UNCHANGED mem
  BY DEF ClearLeftovers, Goto
<1>3. /\ disk' \in Directories /\ disk'.log = disk.log /\ disk'.copies = disk.copies
      /\ disk'.compactBak \in {disk.compactBak, Absent} /\ disk'.versions = disk.versions
      /\ disk'.parked = disk.parked /\ disk'.forgetBak = disk.forgetBak
      /\ removed = 2 => disk'.compactBak = Absent
  <2> DEFINE c == IF removed > 0 THEN Absent ELSE disk.compactBak
             b == disk.clearBak /\ removed < 2
  <2>1. disk' = [disk EXCEPT !.compactBak = c, !.clearBak = b]
    BY <1>2
  <2>2. c \in {disk.compactBak, Absent} /\ (removed = 2 => c = Absent) /\ b \in BOOLEAN
    BY Typed DEF Directories
  <2> HIDE DEF c, b
  <2> QED
    BY <2>1, <2>2, Typed, FileFacts DEF Directories
<1>4. /\ Within(disk', << >>, (1..learned) \ cleared)
      /\ Within(disk', op.out, (1..learned) \ cleared)
  BY <1>3, FileFacts DEF LogInv, ClearedIsGone, Within
<1>5. /\ Len(disk'.copies) <= RetainedCopies /\ mem \in Memory /\ flushed \subseteq 1..learned
      /\ RecordsIn(disk.log.frames) \intersect erased = {}
      /\ RecordsIn(op.out) \intersect erased = {}
  BY <1>3 DEF LogInv, LogTypeOK, ErasedIsGone
<1>6. CASE Fail
  BY <1>1, <1>3, <1>4, <1>5, <1>6, FailKeeps DEF Fail, FailWith
<1>7. CASE removed = 2 /\ op' = [op EXCEPT !.at = "read"] /\ UNCHANGED mem
  <2>1. /\ op' \in Operations /\ op'.do = "open" /\ op'.at = "read" /\ op'.out = op.out
    BY <1>1, <1>7, Typed DEF Operations, Steps
  <2> QED
    BY <1>1, <1>3, <1>4, <1>5, <1>7, <2>1, OpenStepKeeps
<1> QED
  BY <1>2, <1>6, <1>7

(* What the next open starts from is one of the files there are.            *)
LEMMA SourceFacts ==
  ASSUME NEW d \in Directories
  PROVE  /\ Source(d) \in Files
         /\ There(d.log) => Source(d) = d.log
         /\ ~There(d.log) /\ There(d.parked) =>
              Source(d) = (IF There(d.forgetBak) THEN Absent ELSE d.parked)
         /\ ~There(d.log) /\ ~There(d.parked) /\ There(d.forgetBak) => Source(d) = d.forgetBak
         /\ ~There(d.log) /\ ~There(d.parked) /\ ~There(d.forgetBak) /\ There(d.compactBak) =>
              Source(d) = d.compactBak
         /\ ~There(d.log) /\ ~There(d.parked) /\ ~There(d.forgetBak) /\ ~There(d.compactBak) =>
              /\ Source(d) \in d.versions \union {Absent}
              /\ Cardinality(d.versions) = 1 => Source(d) \in d.versions
<1>1. /\ {d.log, d.parked, d.forgetBak, d.compactBak} \subseteq Files /\ d.versions \subseteq Files
      /\ Absent \in Files
  BY FileFacts DEF Directories
<1>2. Parked(d) = {} <=> ~There(d.parked) /\ ~There(d.forgetBak)
  BY DEF Parked, There
<1>3. CASE There(d.log)
  <2>1. Source(d) = d.log
    BY <1>3 DEF Source
  <2> QED
    BY <1>1, <1>3, <2>1
<1>4. CASE ~There(d.log) /\ There(d.parked) /\ There(d.forgetBak)
  <2>1. Source(d) = Absent
    BY <1>2, <1>4 DEF Source
  <2> QED
    BY <1>1, <1>4, <2>1
<1>5. CASE ~There(d.log) /\ There(d.parked) /\ ~There(d.forgetBak)
  <2>1. Parked(d) = {d.parked}
    BY <1>5 DEF Parked, There
  <2>2. Source(d) = (CHOOSE f \in {d.parked} : TRUE)
    BY <1>5, <2>1 DEF Source
  <2>3. (CHOOSE f \in {d.parked} : TRUE) = d.parked
    OBVIOUS
  <2> QED
    BY <1>1, <1>5, <2>2, <2>3
<1>6. CASE ~There(d.log) /\ ~There(d.parked) /\ There(d.forgetBak)
  <2>1. Parked(d) = {d.forgetBak}
    BY <1>6 DEF Parked, There
  <2>2. Source(d) = (CHOOSE f \in {d.forgetBak} : TRUE)
    BY <1>6, <2>1 DEF Source
  <2>3. (CHOOSE f \in {d.forgetBak} : TRUE) = d.forgetBak
    OBVIOUS
  <2> QED
    BY <1>1, <1>6, <2>2, <2>3
<1>7. CASE ~There(d.log) /\ ~There(d.parked) /\ ~There(d.forgetBak) /\ There(d.compactBak)
  <2>1. Source(d) = d.compactBak
    BY <1>2, <1>7 DEF Source
  <2> QED
    BY <1>1, <1>7, <2>1
<1>8. CASE ~There(d.log) /\ ~There(d.parked) /\ ~There(d.forgetBak) /\ ~There(d.compactBak)
  <2>1. Source(d) = IF Cardinality(d.versions) = 1 THEN CHOOSE f \in d.versions : TRUE ELSE Absent
    BY <1>2, <1>8 DEF Source
  <2>2. Cardinality(d.versions) = 1 => (CHOOSE f \in d.versions : TRUE) \in d.versions
    BY FS_EmptySet
  <2> QED
    BY <1>1, <1>8, <2>1, <2>2
<1> QED
  BY <1>3, <1>4, <1>5, <1>6, <1>7, <1>8

LEMMA RestoreLeftoverKeeps ==
  ASSUME LogInv, RestoreLeftover
  PROVE  LogInv'
<1> DEFINE f == Source(disk)
           versions == IF There(disk.compactBak) THEN disk.versions ELSE {}
           at == IF There(f) THEN "read" ELSE "create"
<1>1. /\ op.do = "open" /\ op.at = "leftovers" /\ ~up /\ ~There(disk.log)
      /\ UNCHANGED <<up, view, learned, damage, flushed, erased, cleared>>
  BY DEF RestoreLeftover, Does, Quietly, LogInv, StepsOK
<1>2. /\ ~There(disk.parked) /\ ~There(disk.forgetBak) /\ erased = {}
  BY <1>1 DEF LogInv, OneLog, StepsOK, Does, Served
<1>3. \/ UNCHANGED disk /\ Fail
      \/ disk' = [disk EXCEPT !.clearBak = FALSE] /\ Fail
      \/ /\ disk' = [disk EXCEPT !.clearBak = FALSE, !.log = f, !.compactBak = Absent,
                                 !.versions = versions]
         /\ op' = [op EXCEPT !.at = at] /\ UNCHANGED mem
  BY DEF RestoreLeftover, Goto
<1>4. /\ Len(disk.copies) <= RetainedCopies /\ mem \in Memory /\ flushed \subseteq 1..learned
      /\ RecordsIn(disk.log.frames) \intersect erased = {}
      /\ RecordsIn(op.out) \intersect erased = {}
      /\ Within(disk, op.out, (1..learned) \ cleared)
  BY DEF LogInv, LogTypeOK, ErasedIsGone, ClearedIsGone
<1>5. CASE UNCHANGED disk /\ Fail
  BY <1>1, <1>4, <1>5, FailStays DEF Fail, FailWith
<1>6. CASE disk' = [disk EXCEPT !.clearBak = FALSE] /\ Fail
  <2>1. /\ disk' \in Directories /\ disk'.log = disk.log /\ disk'.copies = disk.copies
        /\ disk'.compactBak = disk.compactBak /\ disk'.versions = disk.versions
        /\ disk'.parked = disk.parked /\ disk'.forgetBak = disk.forgetBak
    BY <1>6, Typed DEF Directories
  <2>2. Within(disk', << >>, (1..learned) \ cleared)
    BY <1>4, <2>1, FileFacts DEF Within
  <2> QED
    BY <1>1, <1>2, <1>4, <1>6, <2>1, <2>2, FailKeeps DEF Fail, FailWith
<1>7. CASE /\ disk' = [disk EXCEPT !.clearBak = FALSE, !.log = f, !.compactBak = Absent,
                                   !.versions = versions]
           /\ op' = [op EXCEPT !.at = at] /\ UNCHANGED mem
  <2>1. f \in Files /\ (f = disk.compactBak \/ f \in disk.versions \/ f = Absent)
    BY <1>1, <1>2, Typed, SourceFacts
  <2>2. RecordsIn(f.frames) \subseteq (1..learned) \ cleared
    BY <1>4, <2>1, FileFacts DEF Within
  <2>3. at \in {"read", "create"} /\ (at # "create" => There(f)) /\ versions \subseteq disk.versions
    OBVIOUS
  <2> HIDE DEF f, versions, at
  <2>4. /\ disk' \in Directories /\ disk'.log = f /\ disk'.copies = disk.copies
        /\ disk'.compactBak = Absent /\ disk'.versions = versions
        /\ disk'.parked = disk.parked /\ disk'.forgetBak = disk.forgetBak
    BY <1>7, <2>1, <2>3, Typed, FileFacts DEF Directories
  <2>5. op' \in Operations /\ op'.do = "open" /\ op'.at = at /\ op'.out = op.out
    BY <1>1, <1>7, <2>3, Typed DEF Operations, Steps
  <2>6. Within(disk', op'.out, (1..learned) \ cleared)
    BY <1>4, <2>2, <2>3, <2>4, <2>5, FileFacts DEF Within
  <2> QED
    BY <1>1, <1>2, <1>4, <1>7, <2>3, <2>4, <2>5, <2>6, OpenStepKeeps
<1> QED
  BY <1>3, <1>5, <1>6, <1>7

LEMMA CreateKeeps ==
  ASSUME LogInv, Create \/ WriteHeader
  PROVE  LogInv'
<1>1. /\ op.do = "open" /\ op.at \in {"create", "header"} /\ ~up
      /\ UNCHANGED <<up, view, learned, damage, flushed, erased, cleared>>
  BY DEF Create, WriteHeader, Does, Quietly, LogInv, StepsOK
<1>2. PICK f \in {Blank, Canonical(<< >>)}, at \in {"header", "read"} :
        \/ UNCHANGED disk /\ Fail
        \/ disk' = [disk EXCEPT !.log = f] /\ op' = [op EXCEPT !.at = at] /\ UNCHANGED mem
  BY DEF Create, WriteHeader, Goto
<1>3. /\ Len(disk.copies) <= RetainedCopies /\ mem \in Memory /\ flushed \subseteq 1..learned
      /\ RecordsIn(op.out) \intersect erased = {}
      /\ Within(disk, op.out, (1..learned) \ cleared) /\ ~There(disk.compactBak)
  BY <1>1 DEF LogInv, LogTypeOK, ErasedIsGone, ClearedIsGone, OneLog, Begun
<1>4. CASE UNCHANGED disk /\ Fail
  BY <1>1, <1>3, <1>4, FailStays DEF Fail, FailWith
<1>5. CASE disk' = [disk EXCEPT !.log = f] /\ op' = [op EXCEPT !.at = at] /\ UNCHANGED mem
  <2>1. f \in Files /\ There(f) /\ f.frames = << >>
    BY FileFacts
  <2>2. /\ disk' \in Directories /\ disk'.log = f /\ disk'.copies = disk.copies
        /\ disk'.compactBak = disk.compactBak /\ disk'.versions = disk.versions
        /\ disk'.parked = disk.parked /\ disk'.forgetBak = disk.forgetBak
    BY <1>5, <2>1, Typed DEF Directories
  <2>3. op' \in Operations /\ op'.do = "open" /\ op'.at = at /\ op'.out = op.out
    BY <1>1, <1>5, Typed DEF Operations, Steps
  <2>4. Within(disk', op'.out, (1..learned) \ cleared)
    BY <1>3, <2>1, <2>2, <2>3, FileFacts DEF Within
  <2>5. disk'.compactBak = Absent
    BY <1>3, <2>2 DEF There
  <2> QED
    BY <1>1, <1>3, <1>5, <2>1, <2>2, <2>3, <2>4, <2>5, FileFacts, OpenStepKeeps
<1> QED
  BY <1>2, <1>4, <1>5

LEMMA ReadKeeps ==
  ASSUME LogInv, Read
  PROVE  LogInv'
<1>1. /\ op.do = "open" /\ op.at = "read" /\ ~up
      /\ UNCHANGED <<disk, up, view, learned, damage, flushed, erased, cleared>>
  BY DEF Read, Does, Quietly, LogInv, StepsOK
<1>2. \/ Fail
      \/ UNCHANGED mem /\ op' = [op EXCEPT !.at = "upgrade", !.out = Readable(disk.log.frames)]
      \/ UNCHANGED mem /\ \E at \in {"truncate", "quarantine"} : op' = [op EXCEPT !.at = at]
  BY DEF Read, Goto
<1>3. /\ Len(disk.copies) <= RetainedCopies /\ mem \in Memory /\ flushed \subseteq 1..learned
      /\ RecordsIn(disk.log.frames) \intersect erased = {}
      /\ RecordsIn(op.out) \intersect erased = {}
      /\ Within(disk, op.out, (1..learned) \ cleared)
      /\ ~There(disk.compactBak) /\ There(disk.log)
  BY <1>1 DEF LogInv, LogTypeOK, ErasedIsGone, ClearedIsGone, OneLog, Begun, HasLog
<1>4. CASE Fail
  BY <1>1, <1>3, <1>4, FailStays DEF Fail, FailWith
<1>5. ASSUME UNCHANGED mem, NEW out \in Frames, NEW at \in {"upgrade", "truncate", "quarantine"},
             op' = [op EXCEPT !.at = at, !.out = out],
             RecordsIn(out) \subseteq RecordsIn(disk.log.frames) \union RecordsIn(op.out)
      PROVE  LogInv'
  <2>1. op' \in Operations /\ op'.do = "open" /\ op'.at = at /\ op'.out = out
    BY <1>1, <1>5, Typed DEF Operations, Steps
  <2>2. Within(disk', op'.out, (1..learned) \ cleared)
    BY <1>1, <1>3, <1>5, <2>1 DEF Within
  <2>3. RecordsIn(op'.out) \intersect erased = {}
    BY <1>3, <1>5, <2>1
  <2>4. disk' \in Directories /\ disk'.compactBak = Absent
    BY <1>1, <1>3, Typed DEF There
  <2> QED
    BY <1>1, <1>3, <1>5, <2>1, <2>2, <2>3, <2>4, OpenStepKeeps
<1>6. CASE UNCHANGED mem /\ op' = [op EXCEPT !.at = "upgrade", !.out = Readable(disk.log.frames)]
  <2>1. disk.log.frames \in Frames
    BY Typed, FileFacts
  <2> QED
    BY <1>5, <1>6, <2>1, ReadableKeeps
<1>7. CASE UNCHANGED mem /\ \E at \in {"truncate", "quarantine"} : op' = [op EXCEPT !.at = at]
  <2>1. PICK at \in {"truncate", "quarantine"} : op' = [op EXCEPT !.at = at]
    BY <1>7
  <2>2. op' = [op EXCEPT !.at = at, !.out = op.out] /\ op.out \in Frames
    BY <2>1, Typed DEF Operations
  <2> QED
    BY <1>5, <1>7, <2>2
<1> QED
  BY <1>2, <1>4, <1>6, <1>7

LEMMA UpgradeKeeps ==
  ASSUME LogInv, Upgrade
  PROVE  LogInv'
<1>1. /\ op.do = "open" /\ op.at \in {"upgrade", "keep old", "replace old"} /\ ~up
      /\ UNCHANGED <<up, view, learned, damage, flushed, erased, cleared>>
  BY DEF Upgrade, Quietly, LogInv, StepsOK, Does
<1>2. \/ UNCHANGED disk /\ Fail
      \/ /\ UNCHANGED <<disk, mem>> /\ op' = [op EXCEPT !.at = "keep old"]
      \/ /\ disk' = [disk EXCEPT !.versions = @ \union {disk.log}]
         /\ op' = [op EXCEPT !.at = "replace old"] /\ UNCHANGED mem
      \/ /\ disk' = [disk EXCEPT !.log = Canonical(op.out)]
         /\ op' = [op EXCEPT !.at = "truncate"] /\ UNCHANGED mem
  BY DEF Upgrade, Goto
<1>3. /\ Len(disk.copies) <= RetainedCopies /\ mem \in Memory /\ flushed \subseteq 1..learned
      /\ RecordsIn(disk.log.frames) \intersect erased = {}
      /\ RecordsIn(op.out) \intersect erased = {}
      /\ Within(disk, op.out, (1..learned) \ cleared)
      /\ ~There(disk.compactBak) /\ There(disk.log)
  BY <1>1 DEF LogInv, LogTypeOK, ErasedIsGone, ClearedIsGone, OneLog, Begun, HasLog
<1>4. CASE UNCHANGED disk /\ Fail
  BY <1>1, <1>3, <1>4, FailStays DEF Fail, FailWith
<1>5. ASSUME UNCHANGED mem, NEW at \in {"keep old", "replace old", "truncate"},
             op' = [op EXCEPT !.at = at], NEW log \in {disk.log, Canonical(op.out)},
             NEW versions \in SUBSET (disk.versions \union {disk.log}),
             disk' = [disk EXCEPT !.log = log, !.versions = versions]
      PROVE  LogInv'
  <2>1. op' \in Operations /\ op'.do = "open" /\ op'.at = at /\ op'.out = op.out
    BY <1>1, <1>5, Typed DEF Operations, Steps
  <2>2. /\ log \in Files /\ There(log)
        /\ RecordsIn(log.frames) \subseteq RecordsIn(disk.log.frames) \union RecordsIn(op.out)
    BY <1>3, Typed, FileFacts
  <2>3. /\ disk' \in Directories /\ disk'.log = log /\ disk'.copies = disk.copies
        /\ disk'.compactBak = Absent /\ disk'.versions = versions
        /\ disk'.parked = disk.parked /\ disk'.forgetBak = disk.forgetBak
    BY <1>3, <1>5, <2>2, Typed DEF Directories, There
  <2>4. Within(disk', op'.out, (1..learned) \ cleared)
    BY <1>3, <2>1, <2>2, <2>3, FileFacts DEF Within
  <2>5. RecordsIn(disk'.log.frames) \intersect erased = {}
    BY <1>3, <2>2, <2>3
  <2> QED
    BY <1>1, <1>3, <1>5, <2>1, <2>2, <2>3, <2>4, <2>5, OpenStepKeeps
<1>6. disk = [disk EXCEPT !.log = disk.log, !.versions = disk.versions]
  BY Typed DEF Directories
<1>7. CASE UNCHANGED <<disk, mem>> /\ op' = [op EXCEPT !.at = "keep old"]
  BY <1>5, <1>6, <1>7
<1>8. CASE /\ disk' = [disk EXCEPT !.versions = @ \union {disk.log}]
           /\ op' = [op EXCEPT !.at = "replace old"] /\ UNCHANGED mem
  <2>1. disk' = [disk EXCEPT !.log = disk.log, !.versions = disk.versions \union {disk.log}]
    BY <1>8, Typed DEF Directories
  <2> QED
    BY <1>5, <1>8, <2>1
<1>9. CASE /\ disk' = [disk EXCEPT !.log = Canonical(op.out)]
           /\ op' = [op EXCEPT !.at = "truncate"] /\ UNCHANGED mem
  <2>1. disk' = [disk EXCEPT !.log = Canonical(op.out), !.versions = disk.versions]
    BY <1>9, Typed DEF Directories
  <2> QED
    BY <1>5, <1>9, <2>1
<1> QED
  BY <1>2, <1>4, <1>7, <1>8, <1>9

(* Copies are dropped from the oldest on.                                   *)
LEMMA NewestFacts ==
  ASSUME NEW copies \in Seq(Frames), Len(copies) <= RetainedCopies, NEW frames \in Frames,
         NEW S, RecordsIn(frames) \subseteq S,
         \A i \in DOMAIN copies : RecordsIn(copies[i]) \subseteq S
  PROVE  LET kept == Newest(Append(copies, frames))
         IN  /\ kept \in Seq(Frames) /\ Len(kept) <= RetainedCopies
             /\ \A i \in DOMAIN kept : RecordsIn(kept[i]) \subseteq S
<1> DEFINE all == Append(copies, frames)
           kept == Newest(all)
<1>1. /\ all \in Seq(Frames) /\ Len(all) = Len(copies) + 1 /\ Len(copies) \in Nat
      /\ \A i \in 1..Len(copies) : all[i] = copies[i]
      /\ all[Len(all)] = frames /\ all # << >>
  BY AppendProperties
<1> HIDE DEF all
<1>2. \A i \in 1..Len(all) : RecordsIn(all[i]) \subseteq S
  <2>1. TAKE i \in 1..Len(all)
  <2>2. i \in 1..Len(copies) \/ i = Len(all)
    BY <1>1
  <2>3. DOMAIN copies = 1..Len(copies)
    OBVIOUS
  <2> QED
    BY <1>1, <2>2, <2>3
<1>3. CASE Len(all) > RetainedCopies
  <2>1. kept = Tail(all)
    BY <1>3 DEF Newest
  <2>2. /\ kept \in Seq(Frames) /\ Len(kept) = Len(all) - 1
        /\ \A i \in 1..Len(kept) : kept[i] = all[i + 1]
    BY <1>1, <2>1, HeadTailProperties
  <2> HIDE DEF kept
  <2>3. \A i \in 1..Len(kept) : RecordsIn(kept[i]) \subseteq S
    BY <1>1, <1>2, <2>2
  <2>4. DOMAIN kept = 1..Len(kept)
    BY <2>2
  <2>5. Len(kept) <= RetainedCopies
    BY <1>1, <2>2
  <2> QED
    BY <2>2, <2>3, <2>4, <2>5 DEF kept, all
<1>4. CASE ~(Len(all) > RetainedCopies)
  <2>1. kept = all
    BY <1>4 DEF Newest
  <2>2. DOMAIN all = 1..Len(all) /\ Len(all) <= RetainedCopies
    BY <1>1, <1>4, LogAssumption DEF LogAssumption
  <2> HIDE DEF kept
  <2> QED
    BY <1>1, <1>2, <2>1, <2>2 DEF kept, all
<1> QED
  BY <1>3, <1>4

LEMMA QuarantineKeeps ==
  ASSUME LogInv, Quarantine
  PROVE  LogInv'
<1> DEFINE copies == Newest(Append(disk.copies, disk.log.frames))
<1>1. /\ op.do = "open" /\ op.at = "quarantine" /\ ~up
      /\ UNCHANGED <<up, view, learned, damage, erased, cleared>>
  BY DEF Quarantine, Does, LogInv, StepsOK
<1>2. \/ UNCHANGED <<disk, flushed>> /\ Fail
      \/ /\ disk' = [disk EXCEPT !.copies = copies] /\ flushed' \subseteq flushed
         /\ op' = [op EXCEPT !.at = "truncate"] /\ UNCHANGED mem
  BY DEF Quarantine, Goto
<1>3. /\ Len(disk.copies) <= RetainedCopies /\ mem \in Memory /\ flushed \subseteq 1..learned
      /\ RecordsIn(disk.log.frames) \intersect erased = {}
      /\ RecordsIn(op.out) \intersect erased = {}
      /\ Within(disk, op.out, (1..learned) \ cleared)
      /\ ~There(disk.compactBak) /\ There(disk.log)
  BY <1>1 DEF LogInv, LogTypeOK, ErasedIsGone, ClearedIsGone, OneLog, Begun, HasLog
<1>4. CASE UNCHANGED <<disk, flushed>> /\ Fail
  BY <1>1, <1>3, <1>4, FailStays DEF Fail, FailWith
<1>5. CASE /\ disk' = [disk EXCEPT !.copies = copies] /\ flushed' \subseteq flushed
           /\ op' = [op EXCEPT !.at = "truncate"] /\ UNCHANGED mem
  <2>1. op' \in Operations /\ op'.do = "open" /\ op'.at = "truncate" /\ op'.out = op.out
    BY <1>1, <1>5, Typed DEF Operations, Steps
  <2>2. /\ copies \in Seq(Frames) /\ Len(copies) <= RetainedCopies
        /\ \A i \in DOMAIN copies : RecordsIn(copies[i]) \subseteq (1..learned) \ cleared
    <3>1. disk.copies \in Seq(Frames) /\ disk.log.frames \in Frames
      BY Typed, FileFacts
    <3> QED
      BY <1>3, <3>1, NewestFacts DEF Within
  <2> HIDE DEF copies
  <2>3. /\ disk' \in Directories /\ disk'.log = disk.log /\ disk'.copies = copies
        /\ disk'.compactBak = Absent /\ disk'.versions = disk.versions
        /\ disk'.parked = disk.parked /\ disk'.forgetBak = disk.forgetBak
    BY <1>3, <1>5, <2>2, Typed DEF Directories, There
  <2>4. Within(disk', op'.out, (1..learned) \ cleared)
    BY <1>3, <2>1, <2>2, <2>3, FileFacts DEF Within
  <2>5. flushed' \subseteq 1..learned
    BY <1>3, <1>5
  <2> QED
    BY <1>1, <1>3, <1>5, <2>1, <2>2, <2>3, <2>4, <2>5, OpenStepKeeps
<1> QED
  BY <1>2, <1>4, <1>5

LEMMA TruncateKeeps ==
  ASSUME LogInv, Truncate
  PROVE  LogInv'
<1> DEFINE good == Readable(disk.log.frames)
           m == [Opened(good) EXCEPT !.temps = mem.temps, !.backups = mem.backups]
<1>1. /\ op.do = "open" /\ op.at = "truncate" /\ ~up
      /\ UNCHANGED <<learned, damage, flushed, erased, cleared>>
  BY DEF Truncate, Does, LogInv, StepsOK
<1>2. \/ UNCHANGED <<disk, up, view>> /\ Fail
      \/ /\ disk' = [disk EXCEPT !.log = Canonical(good)]
         /\ \/ UNCHANGED <<up, view>> /\ Fail
            \/ /\ mem' = m /\ op' = [op EXCEPT !.at = "settle"] /\ UNCHANGED <<up, view>>
               /\ Len(good) > Limit
            \/ /\ mem' = m /\ op' = Idle /\ up' = TRUE /\ view' = RecordsIn(good)
  BY DEF Truncate, Goto
<1>3. /\ Len(disk.copies) <= RetainedCopies /\ mem \in Memory /\ flushed \subseteq 1..learned
      /\ RecordsIn(disk.log.frames) \intersect erased = {} /\ cleared \subseteq erased
      /\ RecordsIn(op.out) \intersect erased = {}
      /\ Within(disk, op.out, (1..learned) \ cleared)
      /\ ~There(disk.compactBak) /\ There(disk.log)
      /\ mem.backups \/ (~There(disk.parked) /\ ~There(disk.forgetBak))
      /\ ~mem.restore
  BY <1>1 DEF LogInv, LogTypeOK, StepsOK, Does, ErasedIsGone, ClearedIsGone, OneLog, Begun, HasLog, Served
<1>4. good \in Frames /\ RecordsIn(good) \subseteq RecordsIn(disk.log.frames) /\ Len(good) \in Nat
  <2>1. disk.log.frames \in Frames
    BY Typed, FileFacts
  <2> QED
    BY <2>1, ReadableKeeps DEF Frames
<1>5. /\ m \in Memory /\ m.restore = FALSE /\ m.backups = mem.backups /\ m.records = Len(good)
  BY <1>3, <1>4, IdleFacts DEF Opened, Memory
<1> HIDE DEF m, good
<1>6. CASE UNCHANGED <<disk, up, view>> /\ Fail
  BY <1>1, <1>3, <1>6, FailStays DEF Fail, FailWith
<1>7. CASE disk' = [disk EXCEPT !.log = Canonical(good)]
  <2>1. /\ disk' \in Directories /\ disk'.log = Canonical(good) /\ disk'.copies = disk.copies
        /\ disk'.compactBak = disk.compactBak /\ disk'.versions = disk.versions
        /\ disk'.parked = disk.parked /\ disk'.forgetBak = disk.forgetBak
    BY <1>4, <1>7, Typed, FileFacts DEF Directories
  <2>2. /\ There(disk'.log) /\ RecordsIn(disk'.log.frames) \subseteq RecordsIn(disk.log.frames)
    BY <1>4, <2>1, FileFacts
  <2>3. Within(disk', op.out, (1..learned) \ cleared) /\ Within(disk', << >>, (1..learned) \ cleared)
    BY <1>3, <2>1, <2>2, FileFacts DEF Within
  <2>4. RecordsIn(disk'.log.frames) \intersect erased = {}
    BY <1>3, <2>2
  <2>5. CASE UNCHANGED <<up, view>> /\ Fail
    BY <1>1, <1>3, <2>1, <2>2, <2>3, <2>4, <2>5, FailKeeps DEF Fail, FailWith
  <2>6. CASE /\ mem' = m /\ op' = [op EXCEPT !.at = "settle"] /\ UNCHANGED <<up, view>>
             /\ Len(good) > Limit
    <3>1. op' \in Operations /\ op'.do = "open" /\ op'.at = "settle" /\ op'.out = op.out
      BY <1>1, <2>6, Typed DEF Operations, Steps
    <3>2. LogTypeOK' /\ StepsOK'
      BY <1>1, <1>3, <1>5, <2>1, <2>6, <3>1, IdleFacts DEF LogInv, LogTypeOK, StepsOK, Does
    <3>3. OneLog'
      BY <1>1, <1>3, <1>5, <2>1, <2>2, <2>6, <3>1
         DEF OneLog, Does, Served, Begun, HasLog, Cleaned
    <3>4. ErasedIsGone' /\ ClearedIsGone'
      BY <1>1, <2>2, <2>3, <2>4, <2>6, <3>1 DEF LogInv, ErasedIsGone, ClearedIsGone, Does
    <3> QED
      BY <3>2, <3>3, <3>4 DEF LogInv
  <2>7. CASE mem' = m /\ op' = Idle /\ up' = TRUE /\ view' = RecordsIn(good)
    <3>1. RecordsIn(good) \subseteq 1..learned /\ RecordsIn(good) \intersect erased = {}
      BY <1>3, <1>4 DEF Within
    <3>2. LogTypeOK' /\ StepsOK'
      BY <1>1, <1>3, <1>5, <2>1, <2>7, <3>1, IdleFacts DEF LogInv, LogTypeOK, StepsOK, Does
    <3>3. OneLog'
      BY <1>1, <1>3, <1>5, <2>1, <2>2, <2>7, IdleFacts
         DEF OneLog, Does, Served, Begun, HasLog, Cleaned
    <3>4. ErasedIsGone' /\ ClearedIsGone'
      BY <1>1, <1>3, <2>2, <2>3, <2>4, <2>7, <3>1, IdleFacts, FileFacts
         DEF ErasedIsGone, ClearedIsGone, Does
    <3> QED
      BY <3>2, <3>3, <3>4 DEF LogInv
  <2> QED
    BY <1>2, <1>6, <1>7, <2>5, <2>6, <2>7
<1> QED
  BY <1>2, <1>6, <1>7

-----------------------------------------------------------------------------
(* Settling.                                                               *)

LEMMA Settles ==
  ASSUME LogInv, Settling
  PROVE  /\ op.do # "rest" /\ op.at # "rest" /\ op.at # "swap" /\ op.at # "restore" /\ Served
         /\ op.do = "open" => ~up
         /\ ~(op.do = "open") => up
         /\ Begun /\ HasLog /\ ~Cleaned
<1>1. op.do # "rest"
  BY IdleFacts DEF LogInv, StepsOK, Does, Settling
<1>2. up \/ op.do = "open"
  BY <1>1, Typed DEF LogInv, StepsOK, Does, Operations
<1> QED
  BY <1>1, <1>2 DEF LogInv, StepsOK, Does, Settling, Served, Begun, HasLog, Cleaned

LEMMA SettleRestoreKeeps ==
  ASSUME LogInv, SettleRestore
  PROVE  LogInv'
<1> DEFINE f == disk.parked
           kept == IF IsWhole(f.frames) THEN f ELSE Canonical(Readable(f.frames))
<1>1. /\ Settling /\ mem.restore
      /\ UNCHANGED <<up, view, learned, damage, flushed, erased, cleared>>
  BY DEF SettleRestore, Quietly
<1>2. /\ up /\ ~mem.backups /\ ~There(disk.log) /\ There(disk.parked) /\ ~There(disk.forgetBak)
      /\ ~There(disk.compactBak) /\ op.do # "rest" /\ op.at \in {"settle", "abort"}
      /\ ~Cleaned /\ op.do # "open"
  BY <1>1, Settles DEF LogInv, OneLog, Settling
<1>3. /\ kept \in Files /\ There(kept) /\ RecordsIn(kept.frames) \subseteq RecordsIn(f.frames)
  <2>1. f \in Files /\ There(f)
    BY <1>2, Typed
  <2> HIDE DEF f
  <2> QED
    BY <2>1, KeptFacts
<1>4. \/ UNCHANGED disk /\ Fail
      \/ disk' = [disk EXCEPT !.parked = kept] /\ Fail
      \/ /\ disk' = [disk EXCEPT !.parked = Absent, !.log = kept]
         /\ mem' = [mem EXCEPT !.restore = FALSE] /\ UNCHANGED op
  BY DEF SettleRestore, RestoreFrom
<1>5. /\ RecordsIn(f.frames) \subseteq (1..learned) \ cleared
      /\ RecordsIn(f.frames) \intersect erased = {}
  BY <1>2 DEF LogInv, ClearedIsGone, Within, ErasedIsGone
<1> HIDE DEF kept, f
<1>6. mem \in Memory /\ flushed \subseteq 1..learned /\ op.at # "swap"
  BY <1>2 DEF LogInv, LogTypeOK
<1>7. CASE UNCHANGED disk /\ Fail
  BY <1>1, <1>2, <1>6, <1>7, FailStays DEF Fail, FailWith
<1>8. CASE disk' = [disk EXCEPT !.parked = kept] /\ Fail
  <2>1. /\ disk' \in Directories /\ disk'.log = disk.log /\ disk'.copies = disk.copies
        /\ disk'.compactBak = disk.compactBak /\ disk'.versions = disk.versions
        /\ disk'.parked = kept /\ disk'.forgetBak = disk.forgetBak
    BY <1>3, <1>8, Typed DEF Directories
  <2>2. Within(disk', << >>, (1..learned) \ cleared)
    BY <1>3, <1>5, <2>1, FileFacts DEF LogInv, ClearedIsGone, Within
  <2>3. /\ RecordsIn(disk'.log.frames) \intersect erased = {}
        /\ RecordsIn(disk'.parked.frames) \intersect erased = {}
    BY <1>3, <1>5, <2>1 DEF LogInv, ErasedIsGone
  <2>4. Len(disk'.copies) <= RetainedCopies
    BY <2>1 DEF LogInv, LogTypeOK
  <2>5. FailWith(mem)
    BY <1>8 DEF Fail, FailWith
  <2> QED
    BY <1>1, <1>2, <1>3, <1>6, <2>1, <2>2, <2>3, <2>4, <2>5, FailKeeps
<1>9. CASE /\ disk' = [disk EXCEPT !.parked = Absent, !.log = kept]
           /\ mem' = [mem EXCEPT !.restore = FALSE] /\ UNCHANGED op
  <2>1. /\ disk' \in Directories /\ disk'.log = kept /\ disk'.copies = disk.copies
        /\ disk'.compactBak = disk.compactBak /\ disk'.versions = disk.versions
        /\ disk'.parked = Absent /\ disk'.forgetBak = disk.forgetBak
    BY <1>3, <1>9, Typed, FileFacts DEF Directories
  <2>2. mem' \in Memory /\ ~mem'.restore /\ ~mem'.backups
    BY <1>2, <1>9, Typed DEF Memory
  <2>3. LogTypeOK'
    BY <1>1, <1>9, <2>1, <2>2 DEF LogInv, LogTypeOK
  <2>4. StepsOK'
    BY <1>1, <1>2, <1>9 DEF LogInv, StepsOK, Does
  <2>5. OneLog'
    BY <1>1, <1>2, <1>3, <1>9, <2>1, <2>2
       DEF OneLog, Does, Served, Begun, HasLog, Cleaned, There
  <2>6. ErasedIsGone'
    BY <1>1, <1>3, <1>5, <1>9, <2>1 DEF LogInv, ErasedIsGone
  <2>7. Within(disk', op.out, (1..learned) \ cleared)
    BY <1>3, <1>5, <2>1, FileFacts DEF LogInv, ClearedIsGone, Within
  <2>8. ClearedIsGone'
    BY <1>1, <1>2, <1>9, <2>1, <2>7 DEF LogInv, ClearedIsGone, Does
  <2> QED
    BY <2>3, <2>4, <2>5, <2>6, <2>8 DEF LogInv
<1> QED
  BY <1>4, <1>7, <1>8, <1>9

LEMMA SettleBackupsKeeps ==
  ASSUME LogInv, SettleBackups
  PROVE  LogInv'
<1>1. /\ Settling /\ ~mem.restore /\ mem.backups
      /\ UNCHANGED <<up, view, learned, damage, flushed, erased, cleared>>
  BY DEF SettleBackups, Quietly
<1>2. /\ There(disk.log) /\ ~There(disk.compactBak) /\ op.do # "rest"
      /\ op.at \in {"settle", "abort"} /\ ~Cleaned
      /\ RecordsIn(disk.log.frames) \intersect erased = {}
      /\ Within(disk, op.out, (1..learned) \ cleared)
      /\ Len(disk.copies) <= RetainedCopies /\ mem \in Memory /\ flushed \subseteq 1..learned
      /\ op.do = "open" => ~up
  BY <1>1, Settles DEF LogInv, LogTypeOK, OneLog, Settling, ErasedIsGone, ClearedIsGone
<1>3. \/ UNCHANGED disk /\ Fail
      \/ disk' = [disk EXCEPT !.parked = Absent] /\ Fail
      \/ /\ disk' = [disk EXCEPT !.parked = Absent, !.forgetBak = Absent]
         /\ mem' = [mem EXCEPT !.backups = FALSE] /\ UNCHANGED op
  BY DEF SettleBackups
<1>4. CASE UNCHANGED disk /\ Fail
  BY <1>1, <1>2, <1>4, FailStays DEF Fail, FailWith
<1>5. CASE disk' = [disk EXCEPT !.parked = Absent] /\ Fail
  <2>1. /\ disk' \in Directories /\ disk'.log = disk.log /\ disk'.copies = disk.copies
        /\ disk'.compactBak = disk.compactBak /\ disk'.versions = disk.versions
        /\ disk'.parked = Absent /\ disk'.forgetBak = disk.forgetBak
    BY <1>5, Typed, FileFacts DEF Directories
  <2>2. Within(disk', << >>, (1..learned) \ cleared)
    BY <1>2, <2>1, FileFacts DEF Within
  <2>3. FailWith(mem)
    BY <1>5 DEF Fail, FailWith
  <2> QED
    BY <1>1, <1>2, <2>1, <2>2, <2>3, FailKeeps
<1>6. CASE /\ disk' = [disk EXCEPT !.parked = Absent, !.forgetBak = Absent]
           /\ mem' = [mem EXCEPT !.backups = FALSE] /\ UNCHANGED op
  <2>1. /\ disk' \in Directories /\ disk'.log = disk.log /\ disk'.copies = disk.copies
        /\ disk'.compactBak = disk.compactBak /\ disk'.versions = disk.versions
        /\ disk'.parked = Absent /\ disk'.forgetBak = Absent
    BY <1>6, Typed, FileFacts DEF Directories
  <2>2. mem' \in Memory /\ ~mem'.restore /\ ~mem'.backups /\ mem'.records = mem.records
    BY <1>1, <1>6, Typed DEF Memory
  <2>3. LogTypeOK'
    BY <1>1, <1>6, <2>1, <2>2 DEF LogInv, LogTypeOK
  <2>4. StepsOK'
    BY <1>1, <1>2, <1>6, <2>2, IdleFacts DEF LogInv, StepsOK, Does
  <2>5. OneLog'
    BY <1>1, <1>2, <1>6, <2>1, <2>2
       DEF OneLog, Does, Served, Begun, HasLog, Cleaned, There
  <2>6. ErasedIsGone'
    BY <1>1, <1>2, <1>6, <2>1 DEF LogInv, ErasedIsGone
  <2>7. Within(disk', op.out, (1..learned) \ cleared)
    BY <1>2, <2>1, FileFacts DEF Within
  <2>8. ClearedIsGone'
    BY <1>1, <1>2, <1>6, <2>1, <2>7 DEF LogInv, ClearedIsGone, Does
  <2> QED
    BY <2>3, <2>4, <2>5, <2>6, <2>8 DEF LogInv
<1> QED
  BY <1>3, <1>4, <1>5, <1>6

LEMMA SettleTempsKeeps ==
  ASSUME LogInv, SettleTemps
  PROVE  LogInv'
<1>1. /\ Settling /\ ~mem.restore /\ ~mem.backups
      /\ UNCHANGED <<up, view, learned, damage, flushed, erased, cleared>>
  BY DEF SettleTemps, Quietly
<1>2. /\ op.do # "rest" /\ op.at # "swap" /\ mem \in Memory /\ flushed \subseteq 1..learned
      /\ op.at \in {"settle", "abort"}
  BY <1>1, Settles DEF LogInv, LogTypeOK, Settling
<1>3. \/ UNCHANGED disk /\ Fail
      \/ /\ disk' = [disk EXCEPT !.forgetTmp = FALSE]
         /\ mem' = [mem EXCEPT !.temps = FALSE] /\ UNCHANGED op
  BY DEF SettleTemps
<1>4. CASE UNCHANGED disk /\ Fail
  BY <1>1, <1>2, <1>4, FailStays DEF Fail, FailWith
<1>5. CASE /\ disk' = [disk EXCEPT !.forgetTmp = FALSE]
           /\ mem' = [mem EXCEPT !.temps = FALSE] /\ UNCHANGED op
  <2>1. /\ disk' \in Directories /\ disk'.log = disk.log /\ disk'.copies = disk.copies
        /\ disk'.compactBak = disk.compactBak /\ disk'.versions = disk.versions
        /\ disk'.parked = disk.parked /\ disk'.forgetBak = disk.forgetBak
    BY <1>5, Typed DEF Directories
  <2>2. /\ mem' \in Memory /\ mem'.restore = mem.restore /\ mem'.backups = mem.backups
        /\ mem'.records = mem.records
    BY <1>1, <1>5, Typed DEF Memory
  <2>3. LogTypeOK' /\ StepsOK'
    BY <1>1, <1>2, <1>5, <2>1, <2>2, IdleFacts DEF LogInv, LogTypeOK, StepsOK, Does
  <2>4. OneLog'
    BY <1>1, <1>5, <2>1, <2>2 DEF LogInv, OneLog, Does, Served, Begun, HasLog, Cleaned
  <2>5. ErasedIsGone' /\ ClearedIsGone'
    BY <1>1, <1>5, <2>1 DEF LogInv, ErasedIsGone, ClearedIsGone, Within, Does
  <2> QED
    BY <2>3, <2>4, <2>5 DEF LogInv
<1> QED
  BY <1>3, <1>4, <1>5

LEMMA SettledKeeps ==
  ASSUME LogInv, Settled
  PROVE  LogInv'
<1>1. /\ Settling /\ ~mem.restore /\ ~mem.backups
      /\ UNCHANGED <<disk, mem, up, view, learned, damage, flushed, erased, cleared>>
  BY DEF Settled, Quietly
<1>2. /\ op.do # "rest" /\ op.at \in {"settle", "abort"} /\ flushed \subseteq 1..learned
      /\ mem \in Memory /\ (op.do = "open" => ~up) /\ (op.do # "open" => up)
      /\ op.do = "open" => op.at = "settle" /\ mem.records > Limit
      /\ op.do = "clear" => op.out = << >>
      /\ op.do = "forget" => \A r \in RecordsIn(op.out) : ItemOf[r] # op.item
  BY <1>1, Settles
     DEF LogInv, LogTypeOK, StepsOK, ErasedIsGone, ClearedIsGone, Settling, Does
<1>3. op.do \in {"open", "maintain", "forget", "clear"}
  BY <1>2, Typed DEF Operations
<1>4. \/ op.do # "open" /\ op' = Idle
      \/ \E at \in {"filter", "copies", "sync"} :
           /\ op' = [op EXCEPT !.at = at]
           /\ at = "filter" <=> op.do = "forget"
           /\ at = "copies" <=> op.do = "clear"
  <2>1. CASE op.at = "abort"
    <3>1. op' = Idle
      BY <2>1 DEF Settled, Does
    <3> QED
      BY <1>2, <2>1, <3>1
  <2>2. CASE op.at # "abort" /\ op.do = "forget"
    <3>1. IF mem.file THEN Goto("filter") ELSE op' = Idle
      BY <1>2, <2>2 DEF Settled, Does
    <3> QED
      BY <2>2, <3>1 DEF Goto
  <2>3. CASE op.at # "abort" /\ op.do = "clear"
    <3>1. Goto("copies")
      BY <1>2, <2>3 DEF Settled, Does
    <3> QED
      BY <2>3, <3>1 DEF Goto
  <2>4. CASE op.at # "abort" /\ op.do \notin {"forget", "clear"}
    <3>1. IF ~mem.file \/ mem.records > Limit \/ mem.dirty > 0 THEN Goto("sync") ELSE op' = Idle
      BY <1>2, <2>4 DEF Settled, Does
    <3> QED
      BY <1>2, <2>4, <3>1 DEF Goto
  <2> QED
    BY <2>1, <2>2, <2>3, <2>4
<1>5. CASE op.do # "open" /\ op' = Idle
  <2>1. FailWith(mem)
    BY <1>1, <1>5 DEF FailWith
  <2> QED
    BY <1>1, <1>2, <2>1, FailStays
<1>6. ASSUME NEW at \in {"filter", "copies", "sync"}, op' = [op EXCEPT !.at = at],
             at = "filter" <=> op.do = "forget", at = "copies" <=> op.do = "clear"
      PROVE  LogInv'
  <2>1. /\ op' \in Operations /\ op'.do = op.do /\ op'.at = at /\ op'.out = op.out
        /\ op'.item = op.item
    BY <1>6, Typed DEF Operations, Steps
  <2>2. StepsOK'
    BY <1>1, <1>2, <1>3, <1>6, <2>1, IdleFacts DEF StepsOK, Does
  <2> QED
    BY <1>1, <1>2, <1>3, <1>6, <2>1, <2>2, StepKeeps
<1> QED
  BY <1>4, <1>5, <1>6

LEMMA BeginKeeps ==
  ASSUME LogInv, Maintain \/ Clear \/ \E item \in Items : Forget(item)
  PROVE  LogInv'
<1>1. /\ up /\ op = Idle
      /\ UNCHANGED <<disk, mem, up, view, learned, damage, flushed, erased, cleared>>
  BY DEF Maintain, Clear, Forget, Quietly
<1>2. /\ op' \in Operations /\ op'.do \in {"maintain", "clear", "forget"} /\ op'.at = "settle"
      /\ op'.out = << >>
  <2>1. CASE Maintain \/ Clear
    <3>1. PICK do \in {"maintain", "clear"} : op' = [Idle EXCEPT !.do = do, !.at = "settle"]
      BY <2>1 DEF Maintain, Clear
    <3> QED
      BY <3>1, IdleFacts DEF Operations, Steps
  <2>2. ASSUME NEW item \in Items, Forget(item)
        PROVE  /\ op' \in Operations /\ op'.do = "forget" /\ op'.at = "settle"
               /\ op'.out = << >>
    BY <2>2, NoFrames DEF Forget, Operations, Steps
  <2> QED
    BY <2>1, <2>2
<1>3. LogTypeOK'
  BY <1>1, <1>2 DEF LogInv, LogTypeOK
<1>4. StepsOK'
  BY <1>1, <1>2, IdleFacts DEF StepsOK, Does
<1>5. OneLog'
  BY <1>1, <1>2, IdleFacts DEF LogInv, OneLog, Does, Served, Begun, HasLog, Cleaned
<1>6. ErasedIsGone'
  BY <1>1, <1>2, FileFacts DEF LogInv, ErasedIsGone
<1>7. ClearedIsGone'
  BY <1>1, <1>2, FileFacts DEF LogInv, ClearedIsGone, Within, Does
<1> QED
  BY <1>3, <1>4, <1>5, <1>6, <1>7 DEF LogInv

-----------------------------------------------------------------------------
(* Flushing and rewriting.                                                 *)

LEMMA CleanedFacts ==
  ASSUME LogInv, op.at \in {"filter", "own", "park", "copies", "versions", "sync", "write",
                            "publish", "reopen"}
  PROVE  /\ Cleaned /\ Served /\ Begun /\ HasLog /\ op.do # "rest" /\ op.at # "swap"
         /\ ~mem.restore /\ ~mem.backups /\ There(disk.log) /\ ~There(disk.parked)
         /\ ~There(disk.forgetBak) /\ ~There(disk.compactBak)
         /\ (op.do = "open" => ~up) /\ (op.do # "open" => up)
         /\ RecordsIn(disk.log.frames) \intersect erased = {} /\ cleared \subseteq erased
         /\ RecordsIn(op.out) \intersect erased = {} /\ view \intersect erased = {}
         /\ Within(disk, op.out, (1..learned) \ cleared)
         /\ Len(disk.copies) <= RetainedCopies /\ mem \in Memory /\ flushed \subseteq 1..learned
         /\ op.do = "clear" => op.out = << >>
         /\ op.do = "clear" /\ op.at \in {"versions", "sync", "write", "publish", "reopen"} =>
              disk.copies = << >>
         /\ op.do = "clear" /\ op.at \in {"sync", "write", "publish", "reopen"} =>
              disk.versions = {}
<1>1. op.do # "rest"
  BY IdleFacts DEF LogInv, StepsOK
<1>2. up \/ op.do = "open"
  BY <1>1, Typed DEF LogInv, StepsOK, Operations
<1>3. Cleaned /\ Served /\ Begun /\ HasLog /\ op.at # "swap" /\ op.at # "restore"
  BY <1>2 DEF Cleaned, Served, Begun, HasLog
<1>4. (op.do = "open" => ~up) /\ (op.do # "open" => up)
  BY <1>2 DEF LogInv, StepsOK
<1>5. /\ ~mem.restore /\ ~mem.backups /\ There(disk.log) /\ ~There(disk.parked)
      /\ ~There(disk.forgetBak) /\ ~There(disk.compactBak)
  BY <1>3 DEF LogInv, OneLog
<1> QED
  BY <1>1, <1>3, <1>4, <1>5 DEF LogInv, LogTypeOK, ErasedIsGone, ClearedIsGone

(* The log alone is changed, to no more than it held.                       *)
LEMMA LogOnly ==
  ASSUME LogInv, op.at \in {"filter", "own", "park", "copies", "versions", "sync", "write",
                            "publish", "reopen"},
         NEW log \in Files, There(log), NEW tmp \in BOOLEAN,
         RecordsIn(log.frames) \subseteq RecordsIn(disk.log.frames) \union RecordsIn(op.out),
         disk' = [disk EXCEPT !.log = log, !.forgetTmp = tmp],
         UNCHANGED <<learned, erased, cleared>>
  PROVE  /\ disk' \in Directories /\ disk'.log = log /\ disk'.copies = disk.copies
         /\ disk'.compactBak = disk.compactBak /\ disk'.versions = disk.versions
         /\ disk'.parked = disk.parked /\ disk'.forgetBak = disk.forgetBak
         /\ Within(disk', << >>, (1..learned) \ cleared)
         /\ Within(disk', op.out, (1..learned) \ cleared)
         /\ RecordsIn(disk'.log.frames) \intersect erased = {}
<1>1. /\ disk' \in Directories /\ disk'.log = log /\ disk'.copies = disk.copies
      /\ disk'.compactBak = disk.compactBak /\ disk'.versions = disk.versions
      /\ disk'.parked = disk.parked /\ disk'.forgetBak = disk.forgetBak
  BY Typed DEF Directories
<1>2. /\ RecordsIn(disk'.log.frames) \intersect erased = {}
      /\ RecordsIn(disk'.log.frames) \subseteq (1..learned) \ cleared
  BY <1>1, CleanedFacts DEF Within
<1>3. Within(disk', op.out, (1..learned) \ cleared)
  BY <1>1, <1>2, CleanedFacts DEF Within
<1>4. Within(disk', << >>, (1..learned) \ cleared)
  BY <1>3, FileFacts DEF Within
<1> QED
  BY <1>1, <1>2, <1>3, <1>4

LEMMA SyncedFacts ==
  ASSUME LogInv, There(disk.log)
  PROVE  \E log \in Files :
           /\ Synced = [disk EXCEPT !.log = log, !.forgetTmp = disk.forgetTmp]
           /\ There(log) /\ log.frames = disk.log.frames /\ log.safe = Len(log.frames)
           /\ log.kind = disk.log.kind
<1> DEFINE log == [disk.log EXCEPT !.safe = Len(disk.log.frames)]
<1>1. disk.log \in Files /\ disk.log.frames \in Frames /\ disk \in Directories
  BY Typed, FileFacts
<1>2. Len(disk.log.frames) \in Nat
  BY <1>1 DEF Frames
<1>3. disk.log.kind # "none"
  BY <1>1 DEF Files, There
<1>4. /\ log \in Files /\ log.frames = disk.log.frames /\ log.safe = Len(log.frames)
      /\ log.kind = disk.log.kind
  BY <1>1, <1>2, <1>3 DEF Files
<1>5. There(log)
  BY <1>3, <1>4, FileFacts
<1>6. Synced = [disk EXCEPT !.log = log, !.forgetTmp = disk.forgetTmp]
  BY <1>1 DEF Synced, Directories
<1> QED
  BY <1>4, <1>5, <1>6

LEMMA FailLogKeeps ==
  ASSUME LogInv, op.at \in {"filter", "sync", "write", "publish", "reopen"},
         NEW log \in Files, There(log), NEW tmp \in BOOLEAN,
         RecordsIn(log.frames) \subseteq RecordsIn(disk.log.frames) \union RecordsIn(op.out),
         disk' = [disk EXCEPT !.log = log, !.forgetTmp = tmp],
         NEW m \in Memory, ~m.restore, ~m.backups, FailWith(m),
         UNCHANGED <<up, view, learned, damage, erased, cleared>>, flushed' \subseteq 1..learned
  PROVE  LogInv'
<1>1. /\ disk' \in Directories /\ disk'.log = log /\ disk'.copies = disk.copies
      /\ disk'.compactBak = disk.compactBak /\ disk'.versions = disk.versions
      /\ disk'.parked = disk.parked /\ disk'.forgetBak = disk.forgetBak
      /\ Within(disk', << >>, (1..learned) \ cleared)
      /\ RecordsIn(disk'.log.frames) \intersect erased = {}
  BY LogOnly
<1>2. /\ op.do # "rest" /\ Len(disk'.copies) <= RetainedCopies /\ ~There(disk'.parked)
      /\ ~There(disk'.forgetBak) /\ ~There(disk'.compactBak)
  BY <1>1, CleanedFacts
<1> QED
  BY <1>1, <1>2, FailKeeps

LEMMA GoLogKeeps ==
  ASSUME LogInv, op.at \in {"filter", "own", "park", "sync", "write", "publish"},
         NEW log \in Files, There(log), NEW tmp \in BOOLEAN,
         RecordsIn(log.frames) \subseteq RecordsIn(disk.log.frames) \union RecordsIn(op.out),
         disk' = [disk EXCEPT !.log = log, !.forgetTmp = tmp],
         mem' \in Memory, ~mem'.restore, ~mem'.backups,
         NEW at \in {"own", "park", "abort", "write", "publish", "reopen"}, NEW out \in Frames,
         op' = [op EXCEPT !.at = at, !.out = out],
         RecordsIn(out) \subseteq RecordsIn(disk.log.frames) \union RecordsIn(op.out),
         op.do = "forget" => /\ at \in {"own", "park", "abort"}
                             /\ \A r \in RecordsIn(out) : ItemOf[r] # op.item,
         op.do # "forget" => at \in {"write", "publish", "reopen"},
         op.do = "clear" => out = << >> /\ (at = "reopen" => log.frames = << >>),
         UNCHANGED <<up, view, learned, damage, erased, cleared>>, flushed' \subseteq 1..learned
  PROVE  LogInv'
<1>1. /\ disk' \in Directories /\ disk'.log = log /\ disk'.copies = disk.copies
      /\ disk'.compactBak = disk.compactBak /\ disk'.versions = disk.versions
      /\ disk'.parked = disk.parked /\ disk'.forgetBak = disk.forgetBak
      /\ Within(disk', op.out, (1..learned) \ cleared)
      /\ RecordsIn(disk'.log.frames) \intersect erased = {}
  BY LogOnly
<1>2. /\ op.do # "rest" /\ Len(disk'.copies) <= RetainedCopies /\ ~There(disk'.parked)
      /\ ~There(disk'.forgetBak) /\ ~There(disk'.compactBak)
      /\ (op.do = "open" => ~up) /\ (op.do # "open" => up)
      /\ RecordsIn(out) \subseteq (1..learned) \ cleared
      /\ RecordsIn(out) \intersect erased = {} /\ view \intersect erased = {}
      /\ cleared \subseteq erased
  BY <1>1, CleanedFacts DEF Within
<1>3. op.do = "clear" => disk'.copies = << >> /\ disk'.versions = {}
  <2>1. op.do = "clear" => op.at \in {"sync", "write", "publish"}
    BY DEF LogInv, StepsOK
  <2> QED
    BY <1>1, <2>1, CleanedFacts
<1>4. /\ op' \in Operations /\ op'.do = op.do /\ op'.at = at /\ op'.out = out
      /\ op'.item = op.item
  BY Typed DEF Operations, Steps
<1>5. op.do \in {"open", "maintain", "forget", "clear"}
  BY <1>2, Typed DEF Operations
<1>6. LogTypeOK'
  BY <1>1, <1>2, <1>4 DEF LogInv, LogTypeOK
<1>7. StepsOK'
  BY <1>2, <1>4, <1>5, IdleFacts DEF StepsOK, Does
<1>8. OneLog'
  BY <1>1, <1>2, <1>4 DEF OneLog, Does, Served, Begun, HasLog, Cleaned
<1>9. ErasedIsGone'
  BY <1>1, <1>2, <1>4 DEF ErasedIsGone
<1>10. Within(disk', out, (1..learned) \ cleared)
  BY <1>1, <1>2 DEF Within
<1>11. ClearedIsGone'
  BY <1>1, <1>3, <1>4, <1>10 DEF ClearedIsGone, Does
<1> QED
  BY <1>6, <1>7, <1>8, <1>9, <1>11 DEF LogInv

LEMMA FlushKeeps ==
  ASSUME LogInv, Flush
  PROVE  LogInv'
<1>1. /\ op.do = "maintain" /\ op.at = "sync"
      /\ UNCHANGED <<up, view, learned, damage, erased, cleared>>
  BY DEF Flush, Does
<1>2. /\ There(disk.log) /\ RecordsIn(disk.log.frames) \subseteq 1..learned
      /\ ~mem.restore /\ ~mem.backups /\ mem \in Memory /\ flushed \subseteq 1..learned
  BY <1>1, CleanedFacts DEF Within
<1>3. CASE UNCHANGED <<disk, flushed>> /\ FailWith(WriterLost)
  <2>1. /\ WriterLost \in Memory /\ WriterLost.restore = mem.restore
        /\ WriterLost.backups = mem.backups
    BY <1>2 DEF WriterLost, Memory
  <2> QED
    BY <1>1, <1>2, <1>3, <2>1, FailStays
<1>4. CASE /\ disk' = Synced /\ mem' = [mem EXCEPT !.dirty = 0] /\ op' = Idle
           /\ flushed' = flushed \union RecordsIn(disk.log.frames)
  <2>1. PICK log \in Files :
          /\ Synced = [disk EXCEPT !.log = log, !.forgetTmp = disk.forgetTmp]
          /\ There(log) /\ log.frames = disk.log.frames
    BY <1>2, SyncedFacts
  <2>2. disk.forgetTmp \in BOOLEAN
    BY Typed DEF Directories
  <2>3. mem' \in Memory /\ ~mem'.restore /\ ~mem'.backups /\ FailWith(mem')
    BY <1>1, <1>2, <1>4 DEF FailWith, Memory
  <2>4. flushed' \subseteq 1..learned
    BY <1>2, <1>4
  <2> QED
    BY <1>1, <1>4, <2>1, <2>2, <2>3, <2>4, FailLogKeeps
<1> QED
  BY <1>3, <1>4 DEF Flush

LEMMA SyncForRewriteKeeps ==
  ASSUME LogInv, SyncForRewrite
  PROVE  LogInv'
<1> DEFINE out == IF op.do = "clear" THEN << >> ELSE Compacted(disk.log.frames)
<1>1. /\ op.at = "sync" /\ UNCHANGED <<up, view, learned, damage, flushed, erased, cleared>>
  BY DEF SyncForRewrite, Quietly
<1>2. /\ There(disk.log) /\ op.do # "rest" /\ op.do # "forget"
      /\ ~mem.restore /\ ~mem.backups /\ mem \in Memory /\ flushed \subseteq 1..learned
  BY <1>1, CleanedFacts DEF LogInv, StepsOK
<1>3. /\ disk.forgetTmp \in BOOLEAN /\ disk.log \in Files /\ disk.log.frames \in Frames
      /\ disk = [disk EXCEPT !.log = disk.log, !.forgetTmp = disk.forgetTmp]
  BY Typed, FileFacts DEF Directories
<1>4. out \in Frames /\ RecordsIn(out) \subseteq RecordsIn(disk.log.frames)
  BY <1>3, CompactedKeeps, FileFacts
<1>5. op.do = "clear" => out = << >>
  OBVIOUS
<1>6. \/ UNCHANGED disk /\ Fail
      \/ /\ disk' = IF mem.file THEN Synced ELSE disk
         /\ Fail \/ (op' = [op EXCEPT !.at = "write", !.out = out] /\ UNCHANGED mem)
  BY DEF SyncForRewrite
<1> HIDE DEF out
<1>7. CASE UNCHANGED disk /\ Fail
  BY <1>1, <1>2, <1>7, FailStays DEF Fail, FailWith
<1>8. CASE disk' = IF mem.file THEN Synced ELSE disk
  <2>1. PICK log \in Files :
          /\ disk' = [disk EXCEPT !.log = log, !.forgetTmp = disk.forgetTmp]
          /\ There(log) /\ log.frames = disk.log.frames
    BY <1>2, <1>3, <1>8, SyncedFacts
  <2>2. CASE Fail
    <3>1. FailWith(mem)
      BY <2>2 DEF Fail, FailWith
    <3> QED
      BY <1>1, <1>2, <1>3, <2>1, <3>1, FailLogKeeps
  <2>3. CASE op' = [op EXCEPT !.at = "write", !.out = out] /\ UNCHANGED mem
    BY <1>1, <1>2, <1>3, <1>4, <1>5, <2>1, <2>3, GoLogKeeps
  <2> QED
    BY <1>6, <1>7, <2>2, <2>3
<1> QED
  BY <1>6, <1>7, <1>8

LEMMA WriteReplacementKeeps ==
  ASSUME LogInv, WriteReplacement
  PROVE  LogInv'
<1>1. /\ op.at = "write" /\ UNCHANGED <<disk, up, view, learned, damage, flushed, erased, cleared>>
  BY DEF WriteReplacement, Quietly
<1>2. /\ There(disk.log) /\ op.do # "rest" /\ op.do # "forget"
      /\ ~mem.restore /\ ~mem.backups /\ mem \in Memory /\ flushed \subseteq 1..learned
      /\ op.do = "clear" => op.out = << >>
  BY <1>1, CleanedFacts DEF LogInv, StepsOK
<1>3. CASE Fail
  BY <1>1, <1>2, <1>3, FailStays DEF Fail, FailWith
<1>4. CASE op' = [op EXCEPT !.at = "publish"] /\ UNCHANGED mem
  <2>1. /\ disk.forgetTmp \in BOOLEAN /\ disk.log \in Files /\ op.out \in Frames
        /\ disk' = [disk EXCEPT !.log = disk.log, !.forgetTmp = disk.forgetTmp]
        /\ op' = [op EXCEPT !.at = "publish", !.out = op.out]
    BY <1>1, <1>4, Typed DEF Directories, Operations
  <2> QED
    BY <1>1, <1>2, <1>4, <2>1, GoLogKeeps
<1> QED
  BY <1>3, <1>4 DEF WriteReplacement, Goto

LEMMA PublishKeeps ==
  ASSUME LogInv, Publish
  PROVE  LogInv'
<1>1. /\ op.at = "publish" /\ UNCHANGED <<up, view, learned, damage, erased, cleared>>
  BY DEF Publish
<1>2. /\ There(disk.log) /\ op.do # "rest" /\ op.do # "forget"
      /\ ~mem.restore /\ ~mem.backups /\ mem \in Memory /\ flushed \subseteq 1..learned
      /\ op.do = "clear" => op.out = << >>
  BY <1>1, CleanedFacts DEF LogInv, StepsOK
<1>3. \/ /\ \E reopened \in BOOLEAN : FailWith([mem EXCEPT !.file = reopened])
         /\ UNCHANGED <<disk, flushed>>
      \/ /\ disk' = [disk EXCEPT !.log = Canonical(op.out)] /\ flushed' \subseteq flushed
         /\ mem' = WriterLost /\ op' = [op EXCEPT !.at = "reopen"]
  BY DEF Publish, Goto
<1>4. ASSUME NEW reopened \in BOOLEAN, FailWith([mem EXCEPT !.file = reopened]),
             UNCHANGED <<disk, flushed>>
      PROVE  LogInv'
  <2> DEFINE m == [mem EXCEPT !.file = reopened]
  <2>1. m \in Memory /\ m.restore = mem.restore /\ m.backups = mem.backups
    BY <1>2 DEF Memory
  <2> HIDE DEF m
  <2>2. FailWith(m)
    BY <1>4 DEF m
  <2> QED
    BY <1>1, <1>2, <1>4, <2>1, <2>2, FailStays
<1>5. CASE /\ disk' = [disk EXCEPT !.log = Canonical(op.out)] /\ flushed' \subseteq flushed
           /\ mem' = WriterLost /\ op' = [op EXCEPT !.at = "reopen"]
  <2>1. /\ disk.forgetTmp \in BOOLEAN /\ op.out \in Frames
        /\ disk' = [disk EXCEPT !.log = Canonical(op.out), !.forgetTmp = disk.forgetTmp]
        /\ op' = [op EXCEPT !.at = "reopen", !.out = op.out]
    BY <1>5, Typed DEF Directories, Operations
  <2>2. /\ Canonical(op.out) \in Files /\ There(Canonical(op.out))
        /\ Canonical(op.out).frames = op.out
    BY <2>1, FileFacts
  <2>3. mem' \in Memory /\ ~mem'.restore /\ ~mem'.backups /\ flushed' \subseteq 1..learned
    BY <1>2, <1>5 DEF WriterLost, Memory
  <2> QED
    BY <1>1, <1>2, <2>1, <2>2, <2>3, GoLogKeeps
<1> QED
  BY <1>3, <1>4, <1>5

LEMMA ReopenKeeps ==
  ASSUME LogInv, Reopen
  PROVE  LogInv'
<1>1. op.at = "reopen" /\ UNCHANGED <<disk, learned, damage>>
  BY DEF Reopen
<1>2. /\ There(disk.log) /\ op.do # "rest" /\ op.do # "forget"
      /\ ~mem.restore /\ ~mem.backups /\ mem \in Memory /\ flushed \subseteq 1..learned
      /\ ~There(disk.parked) /\ ~There(disk.forgetBak) /\ ~There(disk.compactBak)
      /\ (op.do = "open" => ~up) /\ (op.do # "open" => up)
      /\ Within(disk, op.out, (1..learned) \ cleared)
      /\ RecordsIn(disk.log.frames) \intersect erased = {}
      /\ RecordsIn(op.out) \intersect erased = {} /\ RecordsIn(op.out) \subseteq 1..learned
  BY <1>1, CleanedFacts DEF LogInv, StepsOK, Within
<1>3. ASSUME NEW frames \in Frames, NEW file \in BOOLEAN
      PROVE  /\ [Opened(frames) EXCEPT !.file = file] \in Memory
             /\ ~[Opened(frames) EXCEPT !.file = file].restore
             /\ ~[Opened(frames) EXCEPT !.file = file].backups
             /\ Opened(frames) \in Memory /\ ~Opened(frames).restore /\ ~Opened(frames).backups
  <2>1. Len(frames) \in Nat
    BY DEF Frames
  <2> QED
    BY <2>1 DEF Opened, Closed, Memory
<1>4. CASE op.do = "clear"
  <2>1. /\ \E reopened \in BOOLEAN : mem' = [Opened(<< >>) EXCEPT !.file = reopened]
        /\ op' = Idle /\ view' = {} /\ erased' = 1..learned /\ cleared' = 1..learned
        /\ UNCHANGED <<up, flushed>>
    BY <1>4 DEF Reopen
  <2>2. mem' \in Memory /\ ~mem'.restore /\ ~mem'.backups
    BY <1>3, <2>1, NoFrames
  <2>3. disk.copies = << >> /\ disk.versions = {} /\ disk.log.frames = << >>
    BY <1>1, <1>4, CleanedFacts DEF LogInv, ClearedIsGone, Does
  <2>4. LogTypeOK'
    BY <1>1, <2>1, <2>2, IdleFacts DEF LogInv, LogTypeOK
  <2>5. StepsOK'
    BY <1>2, <1>4, <2>1, IdleFacts DEF StepsOK, Does
  <2>6. OneLog'
    BY <1>1, <1>2, <1>4, <2>1, <2>2, IdleFacts DEF OneLog, Does, Served, Begun, HasLog, Cleaned
  <2>7. ErasedIsGone'
    BY <1>1, <1>2, <2>1, <2>3, IdleFacts, FileFacts DEF ErasedIsGone
  <2>8. Within(disk, << >>, {})
    BY <1>2, <2>3, FileFacts DEF Within, There
  <2>9. (1..learned) \ (1..learned) = {}
    OBVIOUS
  <2>10. ClearedIsGone'
    BY <1>1, <2>1, <2>8, <2>9, IdleFacts DEF ClearedIsGone, Does
  <2> QED
    BY <2>4, <2>5, <2>6, <2>7, <2>10 DEF LogInv
<1>5. CASE op.do # "clear"
  <2>1. /\ UNCHANGED <<erased, cleared>>
        /\ \/ /\ mem' = Opened(op.out) /\ op' = Idle /\ up' = TRUE
              /\ view' = RecordsIn(op.out) /\ flushed' = flushed \union RecordsIn(op.out)
           \/ /\ FailWith([Opened(op.out) EXCEPT !.file = FALSE])
              /\ UNCHANGED <<up, view, flushed>>
    BY <1>5 DEF Reopen
  <2>2. op.out \in Frames
    BY Typed
  <2>3. CASE /\ mem' = Opened(op.out) /\ op' = Idle /\ up' = TRUE
             /\ view' = RecordsIn(op.out) /\ flushed' = flushed \union RecordsIn(op.out)
    <3>1. mem' \in Memory /\ ~mem'.restore /\ ~mem'.backups
      BY <1>3, <2>2, <2>3
    <3>2. LogTypeOK'
      BY <1>1, <1>2, <2>1, <2>3, <3>1, IdleFacts DEF LogInv, LogTypeOK
    <3>3. StepsOK'
      BY <2>3, IdleFacts DEF StepsOK, Does
    <3>4. OneLog'
      BY <1>1, <1>2, <2>1, <2>3, <3>1, IdleFacts DEF OneLog, Does, Served, Begun, HasLog, Cleaned
    <3>5. ErasedIsGone'
      BY <1>1, <1>2, <2>1, <2>3, IdleFacts, FileFacts DEF LogInv, ErasedIsGone
    <3>6. Within(disk, << >>, (1..learned) \ cleared)
      BY <1>2, FileFacts DEF Within
    <3>7. ClearedIsGone'
      BY <1>1, <2>1, <2>3, <3>6, IdleFacts DEF ClearedIsGone, Does
    <3> QED
      BY <3>2, <3>3, <3>4, <3>5, <3>7 DEF LogInv
  <2>4. CASE /\ FailWith([Opened(op.out) EXCEPT !.file = FALSE])
             /\ UNCHANGED <<up, view, flushed>>
    <3> DEFINE m == [Opened(op.out) EXCEPT !.file = FALSE]
    <3>1. m \in Memory /\ ~m.restore /\ ~m.backups /\ m.restore = mem.restore
          /\ m.backups = mem.backups
      BY <1>2, <1>3, <2>2 DEF Memory
    <3> HIDE DEF m
    <3>2. FailWith(m)
      BY <2>4 DEF m
    <3> QED
      BY <1>1, <1>2, <2>1, <2>4, <3>1, <3>2, FailStays
  <2> QED
    BY <2>1, <2>3, <2>4
<1> QED
  BY <1>4, <1>5

LEMMA RemoveCopiesKeeps ==
  ASSUME LogInv, RemoveCopies
  PROVE  LogInv'
<1>1. /\ op.do = "clear" /\ op.at = "copies"
      /\ UNCHANGED <<up, view, learned, damage, erased, cleared>> /\ flushed' \subseteq flushed
  BY DEF RemoveCopies, Does
<1>2. PICK n \in 0..Len(disk.copies) :
        /\ disk' = [disk EXCEPT !.copies = SubSeq(@, n + 1, Len(@))]
        /\ \/ Fail
           \/ n = Len(disk.copies) /\ op' = [op EXCEPT !.at = "versions"] /\ UNCHANGED mem
  BY DEF RemoveCopies, Goto
<1> DEFINE copies == SubSeq(disk.copies, n + 1, Len(disk.copies))
<1>3. /\ op.do # "rest" /\ ~mem.restore /\ ~mem.backups /\ There(disk.log) /\ ~There(disk.parked)
      /\ ~There(disk.forgetBak) /\ ~There(disk.compactBak) /\ up
      /\ RecordsIn(disk.log.frames) \intersect erased = {} /\ cleared \subseteq erased
      /\ view \intersect erased = {} /\ op.out = << >>
      /\ Within(disk, << >>, (1..learned) \ cleared)
      /\ Len(disk.copies) <= RetainedCopies /\ mem \in Memory /\ flushed \subseteq 1..learned
  BY <1>1, CleanedFacts
<1>4. /\ copies \in Seq(Frames) /\ Len(copies) <= RetainedCopies
      /\ \A i \in DOMAIN copies : RecordsIn(copies[i]) \subseteq (1..learned) \ cleared
      /\ n = Len(disk.copies) => copies = << >>
  <2>1. disk.copies \in Seq(Frames) /\ Len(disk.copies) \in Nat
    BY Typed
  <2>2. /\ copies \in Seq(Frames)
        /\ Len(copies) = (IF n + 1 <= Len(disk.copies) THEN Len(disk.copies) - (n + 1) + 1 ELSE 0)
        /\ \A i \in 1..Len(disk.copies) - (n + 1) + 1 : copies[i] = disk.copies[n + 1 + i - 1]
    BY <2>1, SubSeqProperties
  <2> HIDE DEF copies
  <2>3. Len(copies) = Len(disk.copies) - n /\ Len(copies) <= Len(disk.copies)
    BY <2>1, <2>2
  <2>4. \A i \in DOMAIN copies : n + 1 + i - 1 \in DOMAIN disk.copies
                                 /\ copies[i] = disk.copies[n + 1 + i - 1]
    <3>1. DOMAIN copies = 1..Len(copies) /\ DOMAIN disk.copies = 1..Len(disk.copies)
      BY <2>1, <2>2
    <3>2. ASSUME NEW i \in 1..Len(copies)
          PROVE  /\ n + 1 + i - 1 \in 1..Len(disk.copies)
                 /\ copies[i] = disk.copies[n + 1 + i - 1]
      <4>1. n \in Nat /\ i \in 1..Len(disk.copies) - n /\ i \in 1..Len(disk.copies) - (n + 1) + 1
        BY <2>1, <2>3
      <4> QED
        BY <2>1, <2>2, <4>1
    <3> QED
      BY <3>1, <3>2
  <2>5. Len(copies) <= RetainedCopies
    BY <1>3, <2>1, <2>3, LogAssumption DEF LogAssumption
  <2>6. n = Len(disk.copies) => copies = << >>
    BY <2>1, <2>2, <2>3, EmptySeq
  <2> QED
    BY <1>3, <2>2, <2>4, <2>5, <2>6 DEF Within
<1>5. disk' = [disk EXCEPT !.copies = copies]
  BY <1>2
<1> HIDE DEF copies
<1>6. /\ disk' \in Directories /\ disk'.log = disk.log /\ disk'.copies = copies
      /\ disk'.compactBak = disk.compactBak /\ disk'.versions = disk.versions
      /\ disk'.parked = disk.parked /\ disk'.forgetBak = disk.forgetBak
  BY <1>4, <1>5, Typed DEF Directories
<1>7. Within(disk', << >>, (1..learned) \ cleared) /\ flushed' \subseteq 1..learned
  BY <1>1, <1>3, <1>4, <1>6 DEF Within
<1>8. CASE Fail
  <2>1. FailWith(mem)
    BY <1>8 DEF Fail, FailWith
  <2> QED
    BY <1>1, <1>3, <1>4, <1>6, <1>7, <2>1, FailKeeps
<1>9. CASE n = Len(disk.copies) /\ op' = [op EXCEPT !.at = "versions"] /\ UNCHANGED mem
  <2>1. op' \in Operations /\ op'.do = "clear" /\ op'.at = "versions" /\ op'.out = << >>
    BY <1>1, <1>3, <1>9, Typed DEF Operations, Steps
  <2>2. LogTypeOK' /\ StepsOK'
    BY <1>1, <1>3, <1>4, <1>6, <1>7, <1>9, <2>1, IdleFacts
       DEF LogInv, LogTypeOK, StepsOK, Does
  <2>3. OneLog'
    BY <1>1, <1>3, <1>6, <1>9, <2>1 DEF OneLog, Does, Served, Begun, HasLog, Cleaned
  <2>4. ErasedIsGone' /\ ClearedIsGone'
    BY <1>1, <1>3, <1>4, <1>6, <1>7, <1>9, <2>1, FileFacts
       DEF ErasedIsGone, ClearedIsGone, Does
  <2> QED
    BY <2>2, <2>3, <2>4 DEF LogInv
<1> QED
  BY <1>2, <1>8, <1>9

LEMMA RemoveVersionsKeeps ==
  ASSUME LogInv, RemoveVersions
  PROVE  LogInv'
<1>1. /\ op.do = "clear" /\ op.at = "versions"
      /\ UNCHANGED <<up, view, learned, damage, flushed, erased, cleared>>
  BY DEF RemoveVersions, Does, Quietly
<1>2. PICK left \in SUBSET disk.versions :
        /\ disk' = [disk EXCEPT !.versions = left]
        /\ \/ Fail
           \/ left = {} /\ op' = [op EXCEPT !.at = "sync"] /\ UNCHANGED mem
  BY DEF RemoveVersions, Goto
<1>3. /\ op.do # "rest" /\ ~mem.restore /\ ~mem.backups /\ There(disk.log) /\ ~There(disk.parked)
      /\ ~There(disk.forgetBak) /\ ~There(disk.compactBak) /\ up /\ disk.copies = << >>
      /\ RecordsIn(disk.log.frames) \intersect erased = {} /\ cleared \subseteq erased
      /\ view \intersect erased = {} /\ op.out = << >>
      /\ Within(disk, << >>, (1..learned) \ cleared)
      /\ Len(disk.copies) <= RetainedCopies /\ mem \in Memory /\ flushed \subseteq 1..learned
  BY <1>1, CleanedFacts
<1>4. /\ disk' \in Directories /\ disk'.log = disk.log /\ disk'.copies = disk.copies
      /\ disk'.compactBak = disk.compactBak /\ disk'.versions = left
      /\ disk'.parked = disk.parked /\ disk'.forgetBak = disk.forgetBak
  BY <1>2, Typed DEF Directories
<1>5. Within(disk', << >>, (1..learned) \ cleared)
  BY <1>3, <1>4 DEF Within
<1>6. CASE Fail
  <2>1. FailWith(mem)
    BY <1>6 DEF Fail, FailWith
  <2> QED
    BY <1>1, <1>3, <1>4, <1>5, <2>1, FailKeeps
<1>7. CASE left = {} /\ op' = [op EXCEPT !.at = "sync"] /\ UNCHANGED mem
  <2>1. op' \in Operations /\ op'.do = "clear" /\ op'.at = "sync" /\ op'.out = << >>
    BY <1>1, <1>3, <1>7, Typed DEF Operations, Steps
  <2>2. LogTypeOK' /\ StepsOK'
    BY <1>1, <1>3, <1>4, <1>7, <2>1, IdleFacts DEF LogInv, LogTypeOK, StepsOK, Does
  <2>3. OneLog'
    BY <1>1, <1>3, <1>4, <1>7, <2>1 DEF OneLog, Does, Served, Begun, HasLog, Cleaned
  <2>4. ErasedIsGone' /\ ClearedIsGone'
    BY <1>1, <1>3, <1>4, <1>5, <1>7, <2>1, FileFacts DEF ErasedIsGone, ClearedIsGone, Does
  <2> QED
    BY <2>2, <2>3, <2>4 DEF LogInv
<1> QED
  BY <1>2, <1>6, <1>7

-----------------------------------------------------------------------------
(* Forgetting.                                                             *)

LEMMA FilterKeeps ==
  ASSUME LogInv, Filter
  PROVE  LogInv'
<1> DEFINE kept == Without(disk.log.frames, op.item)
<1>1. /\ op.do = "forget" /\ op.at = "filter"
      /\ UNCHANGED <<up, view, learned, damage, flushed, erased, cleared>>
  BY DEF Filter, Does, Quietly
<1>2. /\ op.do # "rest" /\ ~mem.restore /\ ~mem.backups /\ There(disk.log)
      /\ mem \in Memory /\ flushed \subseteq 1..learned
      /\ \A r \in RecordsIn(op.out) : ItemOf[r] # op.item
  BY <1>1, CleanedFacts DEF LogInv, ErasedIsGone
<1>3. PICK log \in Files :
        /\ Synced = [disk EXCEPT !.log = log, !.forgetTmp = disk.forgetTmp]
        /\ There(log) /\ log.frames = disk.log.frames
  BY <1>2, SyncedFacts
<1>4. /\ disk.forgetTmp \in BOOLEAN /\ disk.log.frames \in Frames
      /\ \A tmp \in BOOLEAN : [Synced EXCEPT !.forgetTmp = tmp]
                                = [disk EXCEPT !.log = log, !.forgetTmp = tmp]
  BY <1>3, Typed, FileFacts DEF Directories
<1>5. /\ kept \in Frames /\ RecordsIn(kept) \subseteq RecordsIn(disk.log.frames)
      /\ \A r \in RecordsIn(kept) : ItemOf[r] # op.item
  BY <1>4, WithoutKeeps
<1>6. \/ UNCHANGED disk /\ Fail
      \/ disk' = Synced /\ Fail
      \/ /\ \E made \in BOOLEAN : disk' = [Synced EXCEPT !.forgetTmp = made]
         /\ \/ op' = [op EXCEPT !.at = "abort"] /\ mem' = [mem EXCEPT !.temps = TRUE]
            \/ op' = [op EXCEPT !.at = "own", !.out = kept] /\ UNCHANGED mem
  BY DEF Filter, Goto
<1> HIDE DEF kept
<1>7. CASE UNCHANGED disk /\ Fail
  BY <1>1, <1>2, <1>7, FailStays DEF Fail, FailWith
<1>8. CASE disk' = Synced /\ Fail
  <2>1. FailWith(mem)
    BY <1>8 DEF Fail, FailWith
  <2> QED
    BY <1>1, <1>2, <1>3, <1>4, <1>8, <2>1, FailLogKeeps
<1>9. ASSUME NEW made \in BOOLEAN, disk' = [Synced EXCEPT !.forgetTmp = made],
             \/ op' = [op EXCEPT !.at = "abort"] /\ mem' = [mem EXCEPT !.temps = TRUE]
             \/ op' = [op EXCEPT !.at = "own", !.out = kept] /\ UNCHANGED mem
      PROVE  LogInv'
  <2>1. disk' = [disk EXCEPT !.log = log, !.forgetTmp = made]
    BY <1>4, <1>9
  <2>2. CASE op' = [op EXCEPT !.at = "abort"] /\ mem' = [mem EXCEPT !.temps = TRUE]
    <3>1. op' = [op EXCEPT !.at = "abort", !.out = op.out] /\ op.out \in Frames
      BY <2>2, Typed DEF Operations
    <3>2. mem' \in Memory /\ ~mem'.restore /\ ~mem'.backups
      BY <1>2, <2>2 DEF Memory
    <3> QED
      BY <1>1, <1>2, <1>3, <2>1, <3>1, <3>2, GoLogKeeps
  <2>3. CASE op' = [op EXCEPT !.at = "own", !.out = kept] /\ UNCHANGED mem
    BY <1>1, <1>2, <1>3, <1>5, <2>1, <2>3, GoLogKeeps
  <2> QED
    BY <1>9, <2>2, <2>3
<1> QED
  BY <1>6, <1>7, <1>8, <1>9

LEMMA ParkKeeps ==
  ASSUME LogInv, Park
  PROVE  LogInv'
<1>1. /\ op.do = "forget" /\ op.at \in {"own", "park"}
      /\ UNCHANGED <<up, view, learned, damage, flushed, erased, cleared>>
  BY DEF Park, Quietly
<1>2. /\ op.do # "rest" /\ ~mem.restore /\ ~mem.backups /\ There(disk.log)
      /\ ~There(disk.forgetBak) /\ ~There(disk.compactBak) /\ up
      /\ RecordsIn(disk.log.frames) \intersect erased = {} /\ cleared \subseteq erased
      /\ RecordsIn(op.out) \intersect erased = {} /\ view \intersect erased = {}
      /\ Within(disk, op.out, (1..learned) \ cleared)
      /\ mem \in Memory /\ flushed \subseteq 1..learned
      /\ \A r \in RecordsIn(op.out) : ItemOf[r] # op.item
  BY <1>1, CleanedFacts DEF LogInv, ErasedIsGone
<1>3. /\ disk.forgetTmp \in BOOLEAN /\ disk.log \in Files /\ op.out \in Frames
      /\ disk = [disk EXCEPT !.log = disk.log, !.forgetTmp = disk.forgetTmp]
      /\ \A at : [op EXCEPT !.at = at] = [op EXCEPT !.at = at, !.out = op.out]
  BY Typed DEF Directories, Operations
<1>4. \/ op' = [op EXCEPT !.at = "abort"] /\ mem' = [mem EXCEPT !.temps = TRUE] /\ UNCHANGED disk
      \/ op' = [op EXCEPT !.at = "park"] /\ UNCHANGED <<disk, mem>>
      \/ /\ op' = [op EXCEPT !.at = "swap"] /\ UNCHANGED mem
         /\ disk' = [disk EXCEPT !.parked = disk.log, !.log = Absent]
  BY DEF Park, Goto
<1>5. CASE op' = [op EXCEPT !.at = "abort"] /\ mem' = [mem EXCEPT !.temps = TRUE] /\ UNCHANGED disk
  <2>1. mem' \in Memory /\ ~mem'.restore /\ ~mem'.backups
    BY <1>2, <1>5 DEF Memory
  <2>2. /\ op' = [op EXCEPT !.at = "abort", !.out = op.out]
        /\ disk' = [disk EXCEPT !.log = disk.log, !.forgetTmp = disk.forgetTmp]
    BY <1>3, <1>5
  <2> QED
    BY <1>1, <1>2, <1>3, <2>1, <2>2, GoLogKeeps
<1>6. CASE op' = [op EXCEPT !.at = "park"] /\ UNCHANGED <<disk, mem>>
  <2>1. /\ op' = [op EXCEPT !.at = "park", !.out = op.out]
        /\ disk' = [disk EXCEPT !.log = disk.log, !.forgetTmp = disk.forgetTmp]
    BY <1>3, <1>6
  <2> QED
    BY <1>1, <1>2, <1>3, <1>6, <2>1, GoLogKeeps
<1>7. CASE /\ op' = [op EXCEPT !.at = "swap"] /\ UNCHANGED mem
           /\ disk' = [disk EXCEPT !.parked = disk.log, !.log = Absent]
  <2>1. /\ op' \in Operations /\ op'.do = "forget" /\ op'.at = "swap" /\ op'.out = op.out
        /\ op'.item = op.item
    BY <1>1, <1>7, Typed DEF Operations, Steps
  <2>2. /\ disk' \in Directories /\ disk'.log = Absent /\ disk'.copies = disk.copies
        /\ disk'.compactBak = disk.compactBak /\ disk'.versions = disk.versions
        /\ disk'.parked = disk.log /\ disk'.forgetBak = disk.forgetBak
    BY <1>7, Typed, FileFacts DEF Directories
  <2>3. ~There(disk'.log) /\ There(disk'.parked)
    BY <1>2, <2>2 DEF There
  <2>4. LogTypeOK' /\ StepsOK'
    BY <1>1, <1>2, <1>7, <2>1, <2>2, IdleFacts DEF LogInv, LogTypeOK, StepsOK, Does
  <2>5. OneLog'
    BY <1>1, <1>2, <1>7, <2>1, <2>2, <2>3 DEF OneLog, Does, Served, Begun, HasLog, Cleaned
  <2>6. ErasedIsGone'
    BY <1>1, <1>2, <2>1, <2>2, FileFacts DEF ErasedIsGone
  <2>7. Within(disk', op.out, (1..learned) \ cleared)
    BY <1>2, <2>2, FileFacts DEF Within
  <2>8. ClearedIsGone'
    BY <1>1, <2>1, <2>7 DEF ClearedIsGone, Does
  <2> QED
    BY <2>4, <2>5, <2>6, <2>8 DEF LogInv
<1> QED
  BY <1>4, <1>5, <1>6, <1>7

LEMMA SwapKeeps ==
  ASSUME LogInv, Swap
  PROVE  LogInv'
<1>1. /\ op.do = "forget" /\ op.at = "swap" /\ op' = [op EXCEPT !.at = "abort"]
      /\ UNCHANGED <<up, learned, damage, cleared>>
  BY DEF Swap, Does, Goto
<1>2. /\ up /\ op.do # "rest" /\ ~mem.restore /\ ~mem.backups /\ ~There(disk.log)
      /\ There(disk.parked) /\ ~There(disk.forgetBak) /\ ~There(disk.compactBak)
      /\ mem \in Memory /\ flushed \subseteq 1..learned /\ erased \subseteq 1..learned
      /\ Within(disk, op.out, (1..learned) \ cleared) /\ cleared \subseteq erased
      /\ view \intersect erased = {} /\ RecordsIn(op.out) \intersect erased = {}
      /\ \A r \in RecordsIn(op.out) : ItemOf[r] # op.item
  BY <1>1 DEF LogInv, LogTypeOK, StepsOK, OneLog, Begun, ErasedIsGone, ClearedIsGone
<1>3. /\ op' \in Operations /\ op'.do = "forget" /\ op'.at = "abort" /\ op'.out = op.out
      /\ op'.item = op.item
  BY <1>1, Typed DEF Operations, Steps
<1>4. CASE /\ mem' = [mem EXCEPT !.temps = TRUE, !.restore = TRUE]
           /\ UNCHANGED <<disk, view, erased, flushed>>
  <2>1. mem' \in Memory /\ mem'.restore /\ ~mem'.backups
    BY <1>2, <1>4 DEF Memory
  <2>2. LogTypeOK' /\ StepsOK'
    BY <1>1, <1>2, <1>3, <1>4, <2>1, IdleFacts DEF LogInv, LogTypeOK, StepsOK, Does
  <2>3. OneLog'
    BY <1>1, <1>2, <1>3, <1>4, <2>1 DEF OneLog, Does, Served, Begun, HasLog, Cleaned
  <2>4. ErasedIsGone' /\ ClearedIsGone'
    BY <1>1, <1>3, <1>4 DEF LogInv, ErasedIsGone, ClearedIsGone, Within, Does
  <2> QED
    BY <2>2, <2>3, <2>4 DEF LogInv
<1>5. CASE /\ disk' = [disk EXCEPT !.log = Canonical(op.out), !.forgetTmp = FALSE]
           /\ mem' = [Opened(op.out) EXCEPT !.backups = TRUE]
           /\ view' = RecordsIn(op.out)
           /\ erased' = erased \union AboutItem /\ flushed' = flushed \ AboutItem
  <2>1. op.out \in Frames /\ Len(op.out) \in Nat
    BY Typed DEF Frames
  <2>2. /\ Canonical(op.out) \in Files /\ There(Canonical(op.out))
        /\ Canonical(op.out).frames = op.out
    BY <2>1, FileFacts
  <2>3. /\ disk' \in Directories /\ disk'.log = Canonical(op.out) /\ disk'.copies = disk.copies
        /\ disk'.compactBak = disk.compactBak /\ disk'.versions = disk.versions
        /\ disk'.parked = disk.parked /\ disk'.forgetBak = disk.forgetBak
    BY <1>5, <2>2, Typed DEF Directories
  <2>4. mem' \in Memory /\ ~mem'.restore /\ mem'.backups
    BY <1>5, <2>1 DEF Opened, Closed, Memory
  <2>5. AboutItem \subseteq 1..learned /\ RecordsIn(op.out) \intersect AboutItem = {}
    BY <1>2 DEF AboutItem
  <2>6. /\ erased' \subseteq 1..learned /\ flushed' \subseteq 1..learned
        /\ RecordsIn(op.out) \subseteq 1..learned /\ RecordsIn(op.out) \intersect erased' = {}
        /\ cleared \subseteq erased'
    BY <1>2, <1>5, <2>5 DEF Within
  <2>7. LogTypeOK'
    BY <1>1, <1>3, <1>5, <2>3, <2>4, <2>6 DEF LogInv, LogTypeOK
  <2>8. StepsOK'
    BY <1>1, <1>2, <1>3, IdleFacts DEF StepsOK, Does
  <2>9. OneLog'
    BY <1>1, <1>2, <1>3, <2>2, <2>3, <2>4 DEF OneLog, Does, Served, Begun, HasLog, Cleaned
  <2>10. ErasedIsGone'
    BY <1>1, <1>2, <1>3, <1>5, <2>2, <2>3, <2>6 DEF ErasedIsGone
  <2>11. Within(disk', op.out, (1..learned) \ cleared)
    BY <1>2, <2>2, <2>3 DEF Within
  <2>12. ClearedIsGone'
    BY <1>1, <1>3, <2>11 DEF ClearedIsGone, Does
  <2> QED
    BY <2>7, <2>8, <2>9, <2>10, <2>12 DEF LogInv
<1> QED
  BY <1>4, <1>5 DEF Swap

-----------------------------------------------------------------------------
(* Learning, crashes and damage.                                           *)

LEMMA LearnRecordKeeps ==
  ASSUME LogInv, LearnRecord
  PROVE  LogInv'
<1> DEFINE new == learned + 1
<1>1. /\ up /\ op = Idle /\ learned < MaxRecords /\ learned' = new
      /\ view' = view \union {new} /\ UNCHANGED <<op, up, damage, flushed, erased, cleared>>
  BY DEF LearnRecord
<1>2. /\ learned \in Nat /\ MaxRecords \in Nat /\ mem \in Memory
      /\ {view, flushed, erased, cleared} \subseteq SUBSET (1..learned)
      /\ new \in 0..MaxRecords /\ new \in Records
      /\ Len(disk.copies) <= RetainedCopies
  BY <1>1, LogAssumption DEF LogInv, LogTypeOK, LogAssumption, Records
<1>3. new \notin erased /\ new \notin cleared /\ 1..learned \subseteq 1..new /\ new \in 1..new
  BY <1>2
<1>4. {view', flushed, erased, cleared} \subseteq SUBSET (1..new)
  BY <1>1, <1>2, <1>3
<1>5. /\ view \intersect erased = {} /\ cleared \subseteq erased /\ op.out = << >>
      /\ RecordsIn(disk.log.frames) \intersect erased = {}
      /\ ~There(disk.log) => RecordsIn(disk.parked.frames) \intersect erased = {}
      /\ Within(disk, << >>, (1..learned) \ cleared)
  BY <1>1, IdleFacts DEF LogInv, ErasedIsGone, ClearedIsGone
<1>6. /\ mem.restore => There(disk.parked) /\ ~There(disk.log)
      /\ ~mem.restore => There(disk.log)
  BY <1>1, IdleFacts DEF LogInv, OneLog, HasLog
<1>7. ASSUME NEW name \in {"log", "parked"}, NEW f \in Files, There(f) <=> There(disk[name]),
             \A r \in RecordsIn(f.frames) : r \in RecordsIn(disk[name].frames) \/ r = new,
             disk' = IF name = "log" THEN [disk EXCEPT !.log = f] ELSE [disk EXCEPT !.parked = f],
             mem' \in Memory, mem'.restore = mem.restore, mem'.backups = mem.backups
      PROVE  LogInv'
  <2>1. /\ disk' \in Directories /\ disk'.copies = disk.copies
        /\ disk'.log = (IF name = "log" THEN f ELSE disk.log)
        /\ disk'.parked = (IF name = "log" THEN disk.parked ELSE f)
        /\ disk'.compactBak = disk.compactBak /\ disk'.versions = disk.versions
        /\ disk'.forgetBak = disk.forgetBak
    BY <1>7, Typed DEF Directories
  <2>2. /\ There(disk'.log) <=> There(disk.log)
        /\ There(disk'.parked) <=> There(disk.parked)
    BY <1>7, <2>1
  <2>3. /\ \A r \in RecordsIn(disk'.log.frames) : r \in RecordsIn(disk.log.frames) \/ r = new
        /\ \A r \in RecordsIn(disk'.parked.frames) : r \in RecordsIn(disk.parked.frames) \/ r = new
    BY <1>7, <2>1
  <2>4. Within(disk', << >>, (1..new) \ cleared)
    <3>1. (1..learned) \ cleared \subseteq (1..new) \ cleared /\ new \in (1..new) \ cleared
      BY <1>3
    <3>2. /\ RecordsIn(disk'.log.frames) \subseteq (1..new) \ cleared
          /\ RecordsIn(disk'.parked.frames) \subseteq (1..new) \ cleared
      BY <1>5, <2>3, <3>1 DEF Within
    <3> QED
      BY <1>5, <2>1, <3>1, <3>2 DEF Within
  <2>5. LogTypeOK'
    BY <1>1, <1>2, <1>4, <1>7, <2>1 DEF LogInv, LogTypeOK
  <2>6. StepsOK'
    BY <1>1, IdleFacts DEF StepsOK, Does
  <2>7. OneLog'
    BY <1>1, <1>7, <2>1, <2>2, IdleFacts
       DEF LogInv, OneLog, Does, Served, Begun, HasLog, Cleaned
  <2>8. ErasedIsGone'
    BY <1>1, <1>3, <1>5, <2>2, <2>3, IdleFacts, FileFacts DEF ErasedIsGone
  <2>9. ClearedIsGone'
    BY <1>1, <2>4, IdleFacts DEF ClearedIsGone, Does
  <2> QED
    BY <2>5, <2>6, <2>7, <2>8, <2>9 DEF LogInv
<1>8. /\ WriterLost \in Memory /\ WriterLost.restore = mem.restore
      /\ WriterLost.backups = mem.backups
  BY <1>2 DEF WriterLost, Memory
<1>9. ASSUME UNCHANGED disk, mem' \in {mem, WriterLost}
      PROVE  LogInv'
  <2>1. /\ disk.log \in Files /\ disk["log"] = disk.log
        /\ disk' = [disk EXCEPT !.log = disk.log]
        /\ mem' \in Memory /\ mem'.restore = mem.restore /\ mem'.backups = mem.backups
    BY <1>2, <1>8, <1>9, Typed DEF Directories
  <2> QED
    BY <1>7, <2>1
<1>10. ASSUME NEW frame \in {new, Torn}, disk' = [disk EXCEPT ![Handle].frames = Append(@, frame)],
              mem' \in Memory, mem'.restore = mem.restore, mem'.backups = mem.backups
       PROVE  LogInv'
  <2> DEFINE name == Handle
             f == [disk[name] EXCEPT !.frames = Append(disk[name].frames, frame)]
  <2>1. /\ name \in {"log", "parked"} /\ There(disk[name]) /\ disk[name] \in Files
    BY <1>6, Typed DEF Handle
  <2> HIDE DEF name
  <2>2. /\ disk[name].frames \in Frames /\ disk[name].kind # "none"
        /\ disk[name].safe <= Len(disk[name].frames) /\ Len(disk[name].frames) \in Nat
    BY <2>1, FileFacts DEF Files, There, Frames
  <2>3. /\ Append(disk[name].frames, frame) \in Frames
        /\ Len(Append(disk[name].frames, frame)) = Len(disk[name].frames) + 1
        /\ \A q \in RecordsIn(Append(disk[name].frames, frame)) :
             q \in RecordsIn(disk[name].frames) \/ q = new
    <3>1. frame \in Records \union {Torn, Bad} /\ (frame \in Records => frame = new)
      BY <1>2 DEF Torn, Records
    <3> QED
      BY <2>2, <3>1, OneFrameMore
  <2>4. /\ f \in Files /\ f.frames = Append(disk[name].frames, frame) /\ f.kind = disk[name].kind
    <3> DEFINE old == disk[name]
               new_ == Append(old.frames, frame)
    <3>1. /\ old = [kind |-> old.kind, frames |-> old.frames, safe |-> old.safe]
          /\ old.kind \in {"blank", "old", "now"} /\ old.safe \in Nat
          /\ new_ \in Frames /\ old.safe <= Len(new_)
      BY <2>1, <2>2, <2>3 DEF Files
    <3> HIDE DEF old, new_
    <3>2. [old EXCEPT !.frames = new_] = [kind |-> old.kind, frames |-> new_, safe |-> old.safe]
      BY <3>1
    <3>3. f = [kind |-> old.kind, frames |-> new_, safe |-> old.safe]
      BY <3>2 DEF old, new_
    <3>4. f \in Files /\ f.frames = new_ /\ f.kind = old.kind
      BY <3>1, <3>3 DEF Files
    <3> QED
      BY <3>4 DEF old, new_
  <2>5. There(f)
    BY <2>2, <2>4, FileFacts
  <2>6. disk' = [disk EXCEPT ![name] = f]
    BY <1>10 DEF name
  <2> HIDE DEF f
  <2>7. disk' = IF name = "log" THEN [disk EXCEPT !.log = f] ELSE [disk EXCEPT !.parked = f]
    BY <2>1, <2>6
  <2>8. \A r \in RecordsIn(f.frames) : r \in RecordsIn(disk[name].frames) \/ r = new
    BY <2>3, <2>4
  <2> QED
    BY <1>7, <1>10, <2>1, <2>4, <2>5, <2>7, <2>8
<1>11. \/ UNCHANGED <<disk, mem>>
       \/ /\ disk' = [disk EXCEPT ![Handle].frames = Append(@, new)]
          /\ mem' = [mem EXCEPT !.records = @ + 1, !.dirty = @ + 1]
       \/ /\ UNCHANGED disk \/ disk' = [disk EXCEPT ![Handle].frames = Append(@, Torn)]
          /\ mem' = WriterLost
  BY DEF LearnRecord
<1>12. CASE UNCHANGED <<disk, mem>>
  BY <1>9, <1>12
<1>13. CASE /\ disk' = [disk EXCEPT ![Handle].frames = Append(@, new)]
            /\ mem' = [mem EXCEPT !.records = @ + 1, !.dirty = @ + 1]
  <2> DEFINE records == mem.records + 1
             dirty == mem.dirty + 1
  <2>1. records \in Nat /\ dirty \in Nat /\ mem' = [mem EXCEPT !.records = records, !.dirty = dirty]
    BY <1>2, <1>13 DEF Memory
  <2> HIDE DEF records, dirty
  <2>2. mem' \in Memory /\ mem'.restore = mem.restore /\ mem'.backups = mem.backups
    BY <1>2, <2>1 DEF Memory
  <2> QED
    BY <1>10, <1>13, <2>2
<1>14. CASE /\ UNCHANGED disk \/ disk' = [disk EXCEPT ![Handle].frames = Append(@, Torn)]
            /\ mem' = WriterLost
  <2>1. mem' \in Memory /\ mem'.restore = mem.restore /\ mem'.backups = mem.backups
    BY <1>8, <1>14
  <2> QED
    BY <1>9, <1>10, <1>14, <2>1
<1> QED
  BY <1>11, <1>12, <1>13, <1>14

(* A crash leaves the files there, with no more in them.                    *)
LEMMA AfterCrashFacts ==
  ASSUME NEW f \in Files, NEW g \in AfterCrash(f)
  PROVE  LET left == [g EXCEPT !.safe = Len(g.frames)]
         IN  /\ left \in Files /\ (There(left) <=> There(f))
             /\ RecordsIn(left.frames) \subseteq RecordsIn(f.frames)
<1> DEFINE left == [g EXCEPT !.safe = Len(g.frames)]
<1>1. /\ f.frames \in Frames /\ Len(f.frames) \in Nat /\ f.safe \in 0..Len(f.frames)
      /\ f.kind \in {"none", "blank", "old", "now"} /\ (f.kind = "none" <=> f = Absent)
      /\ f = [kind |-> f.kind, frames |-> f.frames, safe |-> f.safe]
  BY FileFacts DEF Files, Frames
<1>2. ASSUME NEW frames \in Frames, NEW safe \in Nat,
             g = [kind |-> f.kind, frames |-> frames, safe |-> safe],
             RecordsIn(frames) \subseteq RecordsIn(f.frames), f.kind # "none"
      PROVE  /\ left \in Files /\ (There(left) <=> There(f))
             /\ RecordsIn(left.frames) \subseteq RecordsIn(f.frames)
  <2>1. Len(frames) \in Nat
    BY DEF Frames
  <2>2. left = [kind |-> f.kind, frames |-> frames, safe |-> Len(frames)]
    BY <1>1, <1>2
  <2> HIDE DEF left
  <2>3. left \in Files /\ left.frames = frames /\ left.kind = f.kind
    BY <1>1, <1>2, <2>1, <2>2 DEF Files
  <2> QED
    BY <1>1, <1>2, <2>3, FileFacts
<1>3. CASE g = f
  <2>1. left = [kind |-> f.kind, frames |-> f.frames, safe |-> Len(f.frames)]
    BY <1>1, <1>3
  <2>2. CASE f = Absent
    <3>1. left = Absent
      BY <2>1, <2>2 DEF Absent, File
    <3> QED
      BY <2>2, <3>1, FileFacts
  <2>3. CASE f # Absent
    <3>1. /\ g = [kind |-> f.kind, frames |-> f.frames, safe |-> f.safe] /\ f.kind # "none"
          /\ f.safe \in Nat
      BY <1>1, <1>3, <2>3
    <3> QED
      BY <1>1, <1>2, <3>1
  <2> QED
    BY <2>2, <2>3
<1>4. CASE g # f
  <2>1. PICK k \in f.safe..(Len(f.frames) - 1) :
          \/ g = [f EXCEPT !.frames = SubSeq(f.frames, 1, k), !.safe = k]
          \/ g = [f EXCEPT !.frames = Append(SubSeq(f.frames, 1, k), Torn), !.safe = k + 1]
    BY <1>4 DEF AfterCrash
  <2>2. k \in 0..Len(f.frames) /\ Len(f.frames) # 0 /\ 1 \in 1..Len(f.frames) + 1
    BY <1>1
  <2>3. f.kind # "none"
    BY <1>1, <2>2, FileFacts
  <2>4. /\ SubSeq(f.frames, 1, k) \in Frames
        /\ RecordsIn(SubSeq(f.frames, 1, k)) \subseteq RecordsIn(f.frames)
    BY <1>1, <2>2, PartOfFrames
  <2>5. Torn \in Records \union {Torn, Bad} /\ Torn \notin Records
    BY DEF Torn, Records
  <2>6. /\ Append(SubSeq(f.frames, 1, k), Torn) \in Frames
        /\ RecordsIn(Append(SubSeq(f.frames, 1, k), Torn)) \subseteq RecordsIn(f.frames)
    BY <2>4, <2>5, OneFrameMore
  <2>7. CASE g = [f EXCEPT !.frames = SubSeq(f.frames, 1, k), !.safe = k]
    <3>1. g = [kind |-> f.kind, frames |-> SubSeq(f.frames, 1, k), safe |-> k] /\ k \in Nat
      <4> DEFINE s == SubSeq(f.frames, 1, k)
      <4>1. g = [f EXCEPT !.frames = s, !.safe = k] /\ k \in Nat
        BY <1>1, <2>2, <2>7
      <4> HIDE DEF s
      <4>2. g = [kind |-> f.kind, frames |-> s, safe |-> k]
        BY <1>1, <4>1
      <4> QED
        BY <4>1, <4>2 DEF s
    <3> QED
      BY <1>2, <2>3, <2>4, <3>1
  <2>8. CASE g = [f EXCEPT !.frames = Append(SubSeq(f.frames, 1, k), Torn), !.safe = k + 1]
    <3>1. /\ g = [kind |-> f.kind, frames |-> Append(SubSeq(f.frames, 1, k), Torn), safe |-> k + 1]
          /\ k + 1 \in Nat
      <4> DEFINE s == Append(SubSeq(f.frames, 1, k), Torn)
                 n == k + 1
      <4>1. g = [f EXCEPT !.frames = s, !.safe = n] /\ n \in Nat
        BY <1>1, <2>2, <2>8
      <4> HIDE DEF s, n
      <4>2. g = [kind |-> f.kind, frames |-> s, safe |-> n]
        BY <1>1, <4>1
      <4> QED
        BY <4>1, <4>2 DEF s, n
    <3> QED
      BY <1>2, <2>3, <2>6, <3>1
  <2> QED
    BY <2>1, <2>7, <2>8
<1> QED
  BY <1>3, <1>4

LEMMA CrashKeeps ==
  ASSUME LogInv, Crash
  PROVE  LogInv'
<1>1. /\ up' = FALSE /\ op' = Idle /\ mem' = Closed /\ view' = {}
      /\ UNCHANGED <<learned, damage, flushed, erased, cleared>>
  BY DEF Crash
<1>2. PICK g \in AfterCrash(disk.log), h \in AfterCrash(disk.parked) :
        disk' = [disk EXCEPT !.log = [g EXCEPT !.safe = Len(g.frames)],
                             !.parked = [h EXCEPT !.safe = Len(h.frames)]]
  BY DEF Crash
<1> DEFINE log == [g EXCEPT !.safe = Len(g.frames)]
           parked == [h EXCEPT !.safe = Len(h.frames)]
<1>3. /\ log \in Files /\ (There(log) <=> There(disk.log))
      /\ RecordsIn(log.frames) \subseteq RecordsIn(disk.log.frames)
      /\ parked \in Files /\ (There(parked) <=> There(disk.parked))
      /\ RecordsIn(parked.frames) \subseteq RecordsIn(disk.parked.frames)
  <2>1. disk.log \in Files /\ disk.parked \in Files
    BY Typed
  <2> QED
    BY <2>1, AfterCrashFacts
<1>4. disk' = [disk EXCEPT !.log = log, !.parked = parked]
  BY <1>2
<1> HIDE DEF log, parked
<1>5. /\ disk' \in Directories /\ disk'.log = log /\ disk'.copies = disk.copies
      /\ disk'.compactBak = disk.compactBak /\ disk'.versions = disk.versions
      /\ disk'.parked = parked /\ disk'.forgetBak = disk.forgetBak
  BY <1>3, <1>4, Typed DEF Directories
<1>6. /\ Len(disk.copies) <= RetainedCopies /\ cleared \subseteq erased
      /\ RecordsIn(disk.log.frames) \intersect erased = {}
      /\ ~There(disk.log) => RecordsIn(disk.parked.frames) \intersect erased = {}
      /\ Within(disk, op.out, (1..learned) \ cleared)
      /\ erased # {} => There(disk.log) \/ (There(disk.parked) /\ ~There(disk.forgetBak))
  BY DEF LogInv, LogTypeOK, OneLog, ErasedIsGone, ClearedIsGone
<1>7. LogTypeOK'
  BY <1>1, <1>5, <1>6, IdleFacts DEF LogInv, LogTypeOK
<1>8. StepsOK'
  BY <1>1, IdleFacts DEF StepsOK, Does
<1>9. OneLog'
  BY <1>1, <1>3, <1>5, <1>6, IdleFacts DEF OneLog, Does, Served, Begun, HasLog, Cleaned
<1>10. ErasedIsGone'
  BY <1>1, <1>3, <1>5, <1>6, IdleFacts, FileFacts DEF ErasedIsGone
<1>11. Within(disk', << >>, (1..learned) \ cleared)
  BY <1>3, <1>5, <1>6, FileFacts DEF Within
<1>12. ClearedIsGone'
  BY <1>1, <1>11, IdleFacts DEF ClearedIsGone, Does
<1> QED
  BY <1>7, <1>8, <1>9, <1>10, <1>12 DEF LogInv

LEMMA DamageKeeps ==
  ASSUME LogInv, Damage
  PROVE  LogInv'
<1>1. /\ ~up /\ op = Idle /\ damage < MaxDamage /\ damage' = damage + 1
      /\ UNCHANGED <<mem, op, up, view, learned, erased, cleared>>
  BY DEF Damage
<1>2. PICK i \in DOMAIN disk.log.frames :
        /\ disk' = [disk EXCEPT !.log.frames[i] = Bad]
        /\ flushed' = flushed \ {disk.log.frames[i]}
  BY DEF Damage
<1> DEFINE frames == [disk.log.frames EXCEPT ![i] = Bad]
           log == [disk.log EXCEPT !.frames = frames]
<1>3. /\ disk.log \in Files /\ disk.log.frames \in Frames /\ Len(disk.log.frames) \in Nat
      /\ DOMAIN disk.log.frames = 1..Len(disk.log.frames)
  BY Typed, FileFacts DEF Frames
<1>4. /\ frames \in Frames /\ Len(frames) = Len(disk.log.frames)
      /\ RecordsIn(frames) \subseteq RecordsIn(disk.log.frames)
  <2>1. /\ frames \in Frames /\ Len(frames) = Len(disk.log.frames) /\ frames[i] = Bad
        /\ \A j \in 1..Len(frames) : j # i => frames[j] = disk.log.frames[j]
    BY <1>3, ExceptSeq DEF Frames
  <2> HIDE DEF frames
  <2>2. Bad \notin Records
    BY LogAssumption DEF Bad, Records, LogAssumption
  <2>3. ASSUME NEW r \in RecordsIn(frames)
        PROVE  r \in RecordsIn(disk.log.frames)
    <3>1. PICK j \in 1..Len(frames) : frames[j] = r /\ r \in Records
      BY <2>1, InFrames
    <3> QED
      BY <1>3, <2>1, <2>2, <3>1, InFrames
  <2> QED
    BY <2>1, <2>3
<1>5. disk.log.kind # "none"
  BY <1>3, FileFacts DEF Files
<1>6. /\ log \in Files /\ log.frames = frames /\ log.kind = disk.log.kind
  BY <1>3, <1>4, <1>5 DEF Files
<1>7. There(log)
  BY <1>5, <1>6, FileFacts
<1>8. disk' = [disk EXCEPT !.log = log]
  BY <1>2
<1> HIDE DEF log, frames
<1>9. /\ disk' \in Directories /\ disk'.log = log /\ disk'.copies = disk.copies
      /\ disk'.compactBak = disk.compactBak /\ disk'.versions = disk.versions
      /\ disk'.parked = disk.parked /\ disk'.forgetBak = disk.forgetBak
  BY <1>6, <1>8, Typed DEF Directories
<1>10. There(disk.log)
  BY <1>3, <1>5, FileFacts DEF There
<1>11. damage' \in 0..MaxDamage /\ flushed' \subseteq 1..learned
  BY <1>1, <1>2, LogAssumption DEF LogInv, LogTypeOK, LogAssumption
<1>12. LogTypeOK'
  BY <1>1, <1>9, <1>11 DEF LogInv, LogTypeOK
<1>13. StepsOK'
  BY <1>1 DEF LogInv, StepsOK, Does
<1>14. OneLog'
  BY <1>1, <1>7, <1>9, <1>10 DEF LogInv, OneLog, Does, Served, Begun, HasLog, Cleaned
<1>15. ErasedIsGone'
  BY <1>1, <1>4, <1>6, <1>7, <1>9 DEF LogInv, ErasedIsGone
<1>16. Within(disk', op.out, (1..learned) \ cleared)
  BY <1>4, <1>6, <1>9 DEF LogInv, ClearedIsGone, Within
<1>17. op.do = "rest"
  BY <1>1, IdleFacts
<1>18. ClearedIsGone'
  BY <1>1, <1>16, <1>17 DEF ClearedIsGone, Does
<1> QED
  BY <1>12, <1>13, <1>14, <1>15, <1>18 DEF LogInv

-----------------------------------------------------------------------------
(* The inductive invariant, and what it shows.                             *)

LEMMA StartFacts ==
  LogInit =>
    /\ disk \in Directories /\ disk.copies = << >> /\ disk.parked = Absent
    /\ Within(disk, << >>, 1..2)
<1> DEFINE Start(f) == f \in Files /\ RecordsIn(f.frames) \subseteq 1..2
<1>1. ASSUME NEW frames \in Frames, RecordsIn(frames) \subseteq 1..2,
             NEW kind \in {"old", "now"}
      PROVE  Start(File(kind, frames))
  <2>1. Len(frames) \in Nat
    BY DEF Frames
  <2>2. /\ File(kind, frames) \in Files /\ File(kind, frames).frames = frames
    BY <2>1 DEF File, Files
  <2> QED
    BY <1>1, <2>2
<1>2. 1 \in Records /\ 2 \in Records
  BY LogAssumption DEF LogAssumption, Records
<1>3. << 1 >> \in Frames /\ RecordsIn(<< 1 >>) \subseteq 1..2
  <2>1. << 1 >> = Append(<< >>, 1)
    OBVIOUS
  <2>2. /\ Append(<< >>, 1) \in Frames
        /\ \A q : q \in RecordsIn(Append(<< >>, 1)) => q \in RecordsIn(<< >>) \/ q = 1
    BY <1>2, NoFrames, OneFrameMore
  <2>3. \A q : q \in RecordsIn(Append(<< >>, 1)) => q \in 1..2
    BY <2>2, NoFrames
  <2> QED
    BY <2>1, <2>2, <2>3
<1>4. << 1, 2 >> \in Frames /\ RecordsIn(<< 1, 2 >>) \subseteq 1..2
  <2>1. << 1, 2 >> = Append(<< 1 >>, 2)
    OBVIOUS
  <2> DEFINE one == << 1 >>
  <2>2. one \in Frames /\ RecordsIn(one) \subseteq 1..2
    BY <1>3
  <2> HIDE DEF one
  <2>3. /\ Append(one, 2) \in Frames
        /\ \A q : q \in RecordsIn(Append(one, 2)) => q \in RecordsIn(one) \/ q = 2
    BY <1>2, <2>2, OneFrameMore
  <2>4. \A q : q \in RecordsIn(Append(one, 2)) => q \in 1..2
    BY <2>2, <2>3
  <2> QED
    BY <2>1, <2>3, <2>4 DEF one
<1>5. /\ Start(Absent) /\ Start(Canonical(<<1, 2>>)) /\ Start(File("old", <<1, 2>>))
      /\ Start(Canonical(<<1>>)) /\ Start(File("old", <<1>>))
  BY <1>1, <1>3, <1>4, FileFacts DEF Canonical
<1> HIDE DEF Start
<1>6. SUFFICES ASSUME LogInit
               PROVE  /\ disk \in Directories /\ disk.copies = << >> /\ disk.parked = Absent
                      /\ Within(disk, << >>, 1..2)
  OBVIOUS
<1>7. PICK log \in {Absent, Canonical(<<1, 2>>), File("old", <<1, 2>>)},
           forgetBak \in {Absent, Canonical(<<1>>)}, compactBak \in {Absent, Canonical(<<1>>)},
           clearBak \in BOOLEAN, versions \in {{}, {File("old", <<1>>)}} :
        disk = [log |-> log, parked |-> Absent, forgetTmp |-> FALSE, forgetBak |-> forgetBak,
                compactBak |-> compactBak, clearBak |-> clearBak, versions |-> versions,
                copies |-> << >>]
  BY <1>6 DEF LogInit
<1>8. /\ Start(log) /\ Start(forgetBak) /\ Start(compactBak) /\ Start(Absent)
      /\ \A f \in versions : Start(f)
  BY <1>5
<1>9. << >> \in Seq(Frames)
  OBVIOUS
<1>10. disk \in Directories
  BY <1>7, <1>8, <1>9 DEF Start, Directories
<1>11. Within(disk, << >>, 1..2)
  BY <1>7, <1>8, NoFrames DEF Start, Within
<1> QED
  BY <1>7, <1>10, <1>11

(* The log that the next open starts from is one of the files.              *)
LEMMA SourceWithin ==
  ASSUME NEW d \in Directories, NEW S, Within(d, << >>, S)
  PROVE  RecordsIn(Source(d).frames) \subseteq S
<1>1. \/ Source(d) \in {d.log, d.parked, d.forgetBak, d.compactBak, Absent}
      \/ Source(d) \in d.versions
  BY SourceFacts
<1> QED
  BY <1>1, FileFacts DEF Within

LEMMA InitInv == LogInit => LogInv
<1>1. SUFFICES ASSUME LogInit
               PROVE  LogInv
  OBVIOUS
<1>2. /\ mem = Closed /\ op = Idle /\ up = FALSE /\ view = {} /\ learned = 2 /\ damage = 0
      /\ flushed = RecordsIn(Source(disk).frames) /\ erased = {} /\ cleared = {}
  BY <1>1 DEF LogInit
<1>3. /\ disk \in Directories /\ disk.copies = << >> /\ disk.parked = Absent
      /\ Within(disk, << >>, 1..2)
  BY <1>1, StartFacts
<1>4. flushed \subseteq 1..learned
  BY <1>2, <1>3, SourceWithin
<1>5. 2 \in 0..MaxRecords /\ 0 \in 0..MaxDamage /\ Len(disk.copies) <= RetainedCopies
  BY <1>3, LogAssumption DEF LogAssumption
<1>6. LogTypeOK
  BY <1>2, <1>3, <1>4, <1>5, IdleFacts DEF LogTypeOK
<1>7. StepsOK
  BY <1>2, IdleFacts DEF StepsOK, Does
<1>8. OneLog
  BY <1>2, IdleFacts DEF OneLog, Does, Served, Begun, HasLog, Cleaned
<1>9. ErasedIsGone
  BY <1>2, IdleFacts DEF ErasedIsGone
<1>10. (1..learned) \ cleared = 1..2
  BY <1>2
<1>11. ClearedIsGone
  BY <1>2, <1>3, <1>10, IdleFacts DEF ClearedIsGone, Does
<1> QED
  BY <1>6, <1>7, <1>8, <1>9, <1>11 DEF LogInv

LEMMA NextInv == LogInv /\ [LogNext]_vars => LogInv'
<1>1. SUFFICES ASSUME LogInv, [LogNext]_vars
               PROVE  LogInv'
  OBVIOUS
<1>2. CASE UNCHANGED vars
  <2>1. /\ disk' = disk /\ mem' = mem /\ op' = op /\ up' = up /\ view' = view
        /\ learned' = learned /\ damage' = damage /\ flushed' = flushed
        /\ erased' = erased /\ cleared' = cleared
    BY <1>2 DEF vars
  <2>2. LogTypeOK'
    BY <1>1, <2>1 DEF LogInv, LogTypeOK
  <2>3. StepsOK'
    BY <1>1, <2>1 DEF LogInv, StepsOK, Does
  <2>4. OneLog'
    BY <1>1, <2>1 DEF LogInv, OneLog, Does, Served, Begun, HasLog, Cleaned
  <2>5. ErasedIsGone'
    BY <1>1, <2>1 DEF LogInv, ErasedIsGone
  <2>6. ClearedIsGone'
    BY <1>1, <2>1 DEF LogInv, ClearedIsGone, Within, Does
  <2> QED
    BY <2>2, <2>3, <2>4, <2>5, <2>6 DEF LogInv
<1>3. CASE Open \/ OpenRestores \/ ClearLeftovers \/ RestoreLeftover \/ Create \/ WriteHeader
  BY <1>1, <1>3, OpenKeeps, OpenRestoresKeeps, ClearLeftoversKeeps, RestoreLeftoverKeeps,
     CreateKeeps
<1>4. CASE Read \/ Upgrade \/ Quarantine \/ Truncate
  BY <1>1, <1>4, ReadKeeps, UpgradeKeeps, QuarantineKeeps, TruncateKeeps
<1>5. CASE SettleRestore \/ SettleBackups \/ SettleTemps \/ Settled
  BY <1>1, <1>5, SettleRestoreKeeps, SettleBackupsKeeps, SettleTempsKeeps, SettledKeeps
<1>6. CASE Maintain \/ Clear \/ \E item \in Items : Forget(item)
  BY <1>1, <1>6, BeginKeeps
<1>7. CASE Flush \/ SyncForRewrite \/ WriteReplacement \/ Publish \/ Reopen
  BY <1>1, <1>7, FlushKeeps, SyncForRewriteKeeps, WriteReplacementKeeps, PublishKeeps, ReopenKeeps
<1>8. CASE RemoveCopies \/ RemoveVersions \/ Filter \/ Park \/ Swap
  BY <1>1, <1>8, RemoveCopiesKeeps, RemoveVersionsKeeps, FilterKeeps, ParkKeeps, SwapKeeps
<1>9. CASE LearnRecord \/ Crash \/ Damage
  BY <1>1, <1>9, LearnRecordKeeps, CrashKeeps, DamageKeeps
<1> QED
  BY <1>1, <1>2, <1>3, <1>4, <1>5, <1>6, <1>7, <1>8, <1>9 DEF LogNext

(* The types, the step of every operation, where the log is at each of      *)
(* them, and that nothing erased is in any file the log could be made of.   *)
THEOREM LogInvariance == LogSpec => []LogInv
<1> QED
  BY InitInv, NextInv, PTL DEF LogSpec

(* What the user had forgotten or cleared is never ranked by again, and     *)
(* the next open never starts from a log that holds it, whichever step of a *)
(* rewrite failed or was the last one before a crash.                       *)
THEOREM ErasedCorrect == LogSpec => []ErasedStaysErased
<1>1. ASSUME LogInv
      PROVE  ErasedStaysErased
  <2>1. view \intersect erased = {}
    BY <1>1 DEF LogInv, ErasedIsGone
  <2>2. RecordsIn(Source(disk).frames) \intersect erased = {}
    <3>1. CASE erased = {}
      BY <3>1
    <3>2. CASE erased # {}
      <4>1. There(disk.log) \/ (There(disk.parked) /\ ~There(disk.forgetBak))
        BY <1>1, <3>2 DEF LogInv, OneLog
      <4>2. Source(disk) = IF There(disk.log) THEN disk.log ELSE disk.parked
        BY <1>1, <4>1, Typed, SourceFacts
      <4> QED
        BY <1>1, <4>2 DEF LogInv, ErasedIsGone
    <3> QED
      BY <3>1, <3>2
  <2> QED
    BY <2>1, <2>2 DEF ErasedStaysErased
<1> QED
  BY <1>1, LogInvariance, PTL

(* When a clear is reported done, no file of the directory that is not      *)
(* removed of itself holds a record from before it, and none ever does      *)
(* again.                                                                   *)
THEOREM ClearCorrect == LogSpec => []ClearReachesEveryFile
<1>1. ASSUME LogInv
      PROVE  ClearReachesEveryFile
  <2> DEFINE S == (1..learned) \ cleared
  <2>1. disk \in Directories /\ Within(disk, << >>, S) /\ disk.copies \in Seq(Frames)
    BY <1>1, Typed, FileFacts DEF LogInv, ClearedIsGone, Within
  <2> HIDE DEF S
  <2>2. RecordsIn(Source(disk).frames) \subseteq S
    BY <2>1, SourceWithin
  <2>3. \A c \in Range(disk.copies) : RecordsIn(c) \subseteq S
    BY <2>1 DEF Within, Range
  <2>4. Held(disk) \subseteq S
    <3>1. SUFFICES ASSUME NEW r \in Held(disk)
                   PROVE  r \in S
      OBVIOUS
    <3>2. \/ r \in RecordsIn(Source(disk).frames)
          \/ \E c \in Range(disk.copies) : r \in RecordsIn(c)
          \/ \E f \in disk.versions : r \in RecordsIn(f.frames)
      BY <3>1 DEF Held
    <3> QED
      BY <2>1, <2>2, <2>3, <3>2 DEF Within
  <2>5. \A f \in {disk.log, disk.parked, disk.forgetBak, disk.compactBak} \union disk.versions :
          RecordsIn(f.frames) \subseteq S
    BY <2>1 DEF Within
  <2>6. S \intersect cleared = {}
    BY DEF S
  <2>7. ASSUME NEW r \in cleared,
               \/ r \in Held(disk)
               \/ \E f \in {disk.log, disk.parked, disk.forgetBak, disk.compactBak}
                             \union disk.versions : r \in RecordsIn(f.frames)
        PROVE  FALSE
    BY <2>4, <2>5, <2>6, <2>7
  <2> QED
    BY <2>7 DEF ClearReachesEveryFile
<1> QED
  BY <1>1, LogInvariance, PTL

-----------------------------------------------------------------------------
(* What was reported durable.                                              *)

LEMMA AsideIs ==
  ASSUME NEW d \in Directories, NEW r
  PROVE  /\ r \in Aside(d) <=> \/ \E i \in DOMAIN d.copies : r \in RecordsIn(d.copies[i])
                               \/ \E f \in d.versions : r \in RecordsIn(f.frames)
         /\ r \in Held(d) <=> r \in RecordsIn(Source(d).frames) \/ r \in Aside(d)
<1>1. r \in Aside(d) <=> \/ \E c \in Range(d.copies) : r \in RecordsIn(c)
                         \/ \E f \in d.versions : r \in RecordsIn(f.frames)
  BY DEF Aside
<1>2. r \in Held(d) <=> \/ r \in RecordsIn(Source(d).frames)
                        \/ \E c \in Range(d.copies) : r \in RecordsIn(c)
                        \/ \E f \in d.versions : r \in RecordsIn(f.frames)
  BY DEF Held
<1>3. (\E c \in Range(d.copies) : r \in RecordsIn(c))
        <=> \E i \in DOMAIN d.copies : r \in RecordsIn(d.copies[i])
  BY DEF Range
<1> QED
  BY <1>1, <1>2, <1>3

(* A directory still holds what it held if the log still does.              *)
LEMMA HeldKeeps ==
  ASSUME NEW d \in Directories, NEW e \in Directories, NEW S,
         e.copies = d.copies, d.versions \subseteq e.versions,
         \A r \in S : r \in RecordsIn(Source(d).frames) =>
                        r \in RecordsIn(Source(e).frames) \/ r \in Aside(e)
  PROVE  S \subseteq Held(d) => S \subseteq Held(e)
<1>1. \A r : r \in Aside(d) => r \in Aside(e)
  BY AsideIs
<1> QED
  BY <1>1, AsideIs

LEMMA StillHeld ==
  ASSUME LogInv, LogInv', FlushedIsKept, flushed' \subseteq flushed,
         disk'.copies = disk.copies, disk.versions \subseteq disk'.versions,
         \A r \in flushed' : r \in RecordsIn(Source(disk).frames) =>
                               r \in RecordsIn(Source(disk').frames) \/ r \in Aside(disk')
  PROVE  FlushedIsKept'
<1>1. disk \in Directories /\ disk' \in Directories
  BY DEF LogInv, LogTypeOK
<1>2. flushed' \subseteq Held(disk)
  BY DEF FlushedIsKept
<1>3. flushed' \subseteq Held(disk) => flushed' \subseteq Held(disk')
  BY <1>1, HeldKeeps
<1> QED
  BY <1>2, <1>3 DEF FlushedIsKept

LEMMA SafeFacts ==
  /\ \A f : AllSafe(f) => OnMedium(f)
  /\ AllSafe(Absent) /\ TornLast(Absent.frames) /\ Unspoiled(Absent.frames) /\ Sound(Absent.frames)
  /\ AllSafe(Blank) /\ TornLast(Blank.frames) /\ Sound(<< >>)
  /\ \A frames \in Frames : AllSafe(Canonical(frames))
<1>1. \A f : AllSafe(f) => OnMedium(f)
  BY DEF AllSafe, OnMedium
<1>2. TornLast(<< >>) /\ Unspoiled(<< >>) /\ Sound(<< >>)
  BY DEF TornLast, Unspoiled, Sound
<1>3. AllSafe(Absent) /\ AllSafe(Blank)
  BY FileFacts DEF AllSafe
<1>4. \A frames \in Frames : AllSafe(Canonical(frames))
  BY FileFacts DEF AllSafe
<1> QED
  BY <1>1, <1>2, <1>3, <1>4, FileFacts

LEMMA FilesFacts ==
  ASSUME FilesOK, LogInv
  PROVE  /\ TornLast(disk.log.frames) /\ TornLast(disk.parked.frames)
         /\ TornLast(disk.forgetBak.frames) /\ TornLast(disk.compactBak.frames)
         /\ \A f \in disk.versions : TornLast(f.frames) /\ AllSafe(f)
         /\ Unspoiled(disk.parked.frames) /\ Unspoiled(disk.forgetBak.frames)
         /\ OnMedium(disk.log) /\ OnMedium(disk.parked)
         /\ ~up => AllSafe(disk.log) /\ AllSafe(disk.parked)
         /\ AllSafe(disk.forgetBak) /\ AllSafe(disk.compactBak)
         /\ IsFiniteSet(disk.versions)
BY DEF FilesOK

(* The directory is as it was.                                              *)
LEMMA StayFlushed ==
  ASSUME LogInv, FlushedInv, UNCHANGED disk, flushed' \subseteq flushed, up => up',
         WriterOK', ReplacedIsKept'
  PROVE  FlushedInv'
<1>1. FlushedIsKept'
  BY DEF FlushedInv, FlushedIsKept
<1>2. OnMedium(disk.log)' /\ OnMedium(disk.parked)'
  BY DEF FlushedInv, FilesOK, OnMedium
<1>3. FilesOK'
  BY <1>2 DEF FlushedInv, FilesOK, AllSafe
<1> QED
  BY <1>1, <1>3 DEF FlushedInv

(* No operation is in progress.                                             *)
LEMMA RestFlushed ==
  ASSUME op' = Idle, up' => Unspoiled(disk'.log.frames),
         mem'.file => /\ up'
                      /\ Sound(IF mem'.restore THEN disk'.parked.frames ELSE disk'.log.frames)
  PROVE  WriterOK' /\ ReplacedIsKept'
<1>1. WriterOK'
  BY IdleFacts, SafeFacts DEF WriterOK
<1>2. ReplacedIsKept'
  BY IdleFacts DEF ReplacedIsKept, Does
<1> QED
  BY <1>1, <1>2

LEMMA FailFlushed ==
  ASSUME LogInv, FlushedInv, UNCHANGED <<disk, up>>, flushed' \subseteq flushed,
         op.do # "rest", NEW m, m.restore = mem.restore, FailWith(m),
         m.file => mem.file \/ (~mem.restore /\ Sound(disk.log.frames))
  PROVE  FlushedInv'
<1>1. op' = Idle /\ mem' = IF op.do = "open" THEN Closed ELSE m
  BY DEF FailWith
<1>2. up' => Unspoiled(disk'.log.frames)
  BY DEF FlushedInv, WriterOK
<1>3. mem'.file => Sound(IF mem'.restore THEN disk'.parked.frames ELSE disk'.log.frames)
  BY <1>1, IdleFacts DEF FlushedInv, WriterOK
<1>4. mem'.file => up'
  BY <1>1, IdleFacts, Typed DEF LogInv, StepsOK, Operations
<1> QED
  BY <1>1, <1>2, <1>3, <1>4, RestFlushed, StayFlushed

LEMMA OpenFlushed ==
  ASSUME LogInv, FlushedInv, Open
  PROVE  FlushedInv'
<1>1. /\ op = Idle /\ ~up
      /\ mem' = [Closed EXCEPT !.temps = disk.forgetTmp,
                               !.backups = There(disk.log) /\ Parked(disk) # {}]
      /\ op' = [Idle EXCEPT !.do = "open",
                     !.at = IF There(disk.log) \/ Parked(disk) = {} THEN "leftovers" ELSE "restore"]
      /\ UNCHANGED <<disk, up, flushed>>
  BY DEF Open, Quietly
<1>2. op'.do = "open" /\ op'.out = << >> /\ op'.at \in {"leftovers", "restore"}
  BY <1>1, IdleFacts DEF Operations
<1>3. ~mem'.file
  BY <1>1 DEF Closed
<1>4. WriterOK'
  BY <1>1, <1>2, <1>3, SafeFacts DEF WriterOK
<1>5. ReplacedIsKept'
  BY <1>2 DEF ReplacedIsKept, Does
<1> QED
  BY <1>1, <1>4, <1>5, StayFlushed

LEMMA KeptFlushed ==
  ASSUME NEW f \in Files, NEW kept,
         kept = (IF IsWhole(f.frames) THEN f ELSE Canonical(Readable(f.frames))),
         TRUE \in TornVerdicts(Rest(f.frames)), TornLast(f.frames), Unspoiled(f.frames)
  PROVE  /\ RecordsIn(kept.frames) = RecordsIn(f.frames) /\ TornLast(kept.frames)
         /\ Unspoiled(kept.frames) /\ (AllSafe(f) => AllSafe(kept)) /\ (OnMedium(f) => OnMedium(kept))
         /\ Sound(f.frames) => Sound(kept.frames)
<1> DEFINE good == Readable(f.frames)
<1>1. f.frames \in Frames
  BY FileFacts
<1>2. /\ good \in Frames /\ Sound(good) /\ RecordsIn(good) = RecordsIn(f.frames)
      /\ TornLast(good) /\ Unspoiled(good)
  BY <1>1, ReadableKeeps, ReadableSound, ReadsAll, SoundFacts
<1> HIDE DEF good
<1>3. /\ Canonical(good).frames = good /\ AllSafe(Canonical(good)) /\ OnMedium(Canonical(good))
  BY <1>2, FileFacts, SafeFacts
<1>4. kept = f \/ kept = Canonical(good)
  BY DEF good
<1> QED
  BY <1>2, <1>3, <1>4

LEMMA OpenRestoresFlushed ==
  ASSUME LogInv, LogInv', FlushedInv, OpenRestores
  PROVE  FlushedInv'
<1> DEFINE f == IF There(disk.parked) THEN disk.parked ELSE disk.forgetBak
           kept == IF IsWhole(f.frames) THEN f ELSE Canonical(Readable(f.frames))
<1>1. /\ op.do = "open" /\ op.at = "restore" /\ ~up /\ UNCHANGED <<up, flushed>>
  BY DEF OpenRestores, Does, Quietly, LogInv, StepsOK
<1>2. /\ There(disk.parked) <=> ~There(disk.forgetBak)
      /\ ~There(disk.log)
  BY <1>1 DEF LogInv, OneLog, Does
<1>3. \/ UNCHANGED disk /\ Fail
      \/ /\ disk' = (IF There(disk.parked) THEN [disk EXCEPT !.parked = kept]
                     ELSE [disk EXCEPT !.forgetBak = kept])
         /\ TRUE \in TornVerdicts(Rest(f.frames)) /\ Fail
      \/ /\ disk' = (IF There(disk.parked) THEN [disk EXCEPT !.parked = Absent, !.log = kept]
                     ELSE [disk EXCEPT !.forgetBak = Absent, !.log = kept])
         /\ TRUE \in TornVerdicts(Rest(f.frames))
         /\ op' = [op EXCEPT !.at = "leftovers"] /\ UNCHANGED mem
  BY DEF OpenRestores, RestoreFrom, Goto
<1>4. CASE UNCHANGED disk /\ Fail
  BY <1>1, <1>4, FailFlushed DEF Fail, FailWith
<1>5. /\ f \in Files /\ There(f) /\ f \in {disk.parked, disk.forgetBak} /\ AllSafe(f)
      /\ TornLast(f.frames) /\ Unspoiled(f.frames) /\ Source(disk) = f
  BY <1>1, <1>2, Typed, SourceFacts, FilesFacts DEF FlushedInv
<1>6. ASSUME TRUE \in TornVerdicts(Rest(f.frames))
      PROVE  /\ RecordsIn(kept.frames) = RecordsIn(f.frames) /\ TornLast(kept.frames)
             /\ Unspoiled(kept.frames) /\ AllSafe(kept) /\ There(kept)
             /\ kept \in Files
  <2> HIDE DEF f
  <2> QED
    BY <1>5, <1>6, KeptFlushed, KeptFacts
<1> HIDE DEF kept, f
<1>7. disk \in Directories /\ disk' \in Directories
  BY Typed DEF LogInv, LogTypeOK
<1>8. CASE /\ disk' = (IF There(disk.parked) THEN [disk EXCEPT !.parked = kept]
                       ELSE [disk EXCEPT !.forgetBak = kept])
           /\ TRUE \in TornVerdicts(Rest(f.frames)) /\ Fail
  <2>1. /\ disk'.log = disk.log /\ disk'.copies = disk.copies
        /\ disk'.compactBak = disk.compactBak /\ disk'.versions = disk.versions
        /\ disk'.parked = (IF There(disk.parked) THEN kept ELSE disk.parked)
        /\ disk'.forgetBak = (IF There(disk.parked) THEN disk.forgetBak ELSE kept)
    BY <1>7, <1>8 DEF Directories
  <2>2. Source(disk') = kept
    BY <1>2, <1>6, <1>7, <1>8, <2>1, SourceFacts
  <2>3. FlushedIsKept'
    BY <1>1, <1>5, <1>6, <1>8, <2>1, <2>2, StillHeld DEF FlushedInv
  <2>4. OnMedium(disk.log)' /\ OnMedium(disk.parked)'
    BY <1>1, <1>6, <1>8, <2>1, SafeFacts DEF FlushedInv, FilesOK, OnMedium, AllSafe
  <2>5. FilesOK'
    BY <1>1, <1>6, <1>8, <2>1, <2>4 DEF FlushedInv, FilesOK, AllSafe
  <2>6. op' = Idle /\ ~mem'.file /\ ~up'
    BY <1>1, <1>8, IdleFacts DEF Fail
  <2> QED
    BY <2>3, <2>5, <2>6, RestFlushed DEF FlushedInv
<1>9. CASE /\ disk' = (IF There(disk.parked) THEN [disk EXCEPT !.parked = Absent, !.log = kept]
                       ELSE [disk EXCEPT !.forgetBak = Absent, !.log = kept])
           /\ TRUE \in TornVerdicts(Rest(f.frames))
           /\ op' = [op EXCEPT !.at = "leftovers"] /\ UNCHANGED mem
  <2>1. /\ disk'.log = kept /\ disk'.copies = disk.copies
        /\ disk'.compactBak = disk.compactBak /\ disk'.versions = disk.versions
        /\ disk'.parked = Absent /\ disk'.forgetBak = Absent
    BY <1>2, <1>7, <1>9 DEF Directories, There
  <2>2. Source(disk') = kept
    BY <1>6, <1>7, <1>9, <2>1, SourceFacts
  <2>3. FlushedIsKept'
    BY <1>1, <1>5, <1>6, <1>9, <2>1, <2>2, StillHeld DEF FlushedInv
  <2>4. OnMedium(disk.log)' /\ OnMedium(disk.parked)'
    BY <1>1, <1>6, <1>9, <2>1, SafeFacts DEF OnMedium, AllSafe
  <2>5. FilesOK'
    BY <1>1, <1>6, <1>9, <2>1, <2>4, SafeFacts DEF FlushedInv, FilesOK, AllSafe
  <2>6. op'.do = "open" /\ op'.at = "leftovers" /\ op'.out = op.out
    BY <1>1, <1>9, Typed DEF Operations
  <2>7. WriterOK'
    BY <1>1, <1>6, <1>9, <2>1, <2>6, SafeFacts DEF FlushedInv, WriterOK, LogInv, OneLog
  <2>8. ReplacedIsKept'
    BY <2>6 DEF ReplacedIsKept, Does
  <2> QED
    BY <2>3, <2>5, <2>7, <2>8 DEF FlushedInv
<1> QED
  BY <1>3, <1>4, <1>8, <1>9

LEMMA FilesKeep ==
  ASSUME LogInv, FilesOK, flushed' \subseteq flushed, up => up',
         disk'.log = disk.log \/ (AllSafe(disk'.log) /\ TornLast(disk'.log.frames)),
         disk'.parked \in {disk.parked, Absent}, disk'.forgetBak \in {disk.forgetBak, Absent},
         disk'.compactBak \in {disk.compactBak, Absent}, IsFiniteSet(disk'.versions),
         \A f \in disk'.versions : f \in disk.versions \/ (AllSafe(f) /\ TornLast(f.frames))
  PROVE  FilesOK'
<1>1. /\ TornLast(disk'.log.frames) /\ TornLast(disk'.parked.frames)
      /\ TornLast(disk'.forgetBak.frames) /\ TornLast(disk'.compactBak.frames)
      /\ \A f \in disk'.versions : TornLast(f.frames) /\ AllSafe(f)
      /\ Unspoiled(disk'.parked.frames) /\ Unspoiled(disk'.forgetBak.frames)
      /\ ~up' => AllSafe(disk'.log) /\ AllSafe(disk'.parked)
      /\ AllSafe(disk'.forgetBak) /\ AllSafe(disk'.compactBak)
  BY FilesFacts, SafeFacts
<1>2. OnMedium(disk.log)' /\ OnMedium(disk.parked)'
  <2>1. \A f : OnMedium(f) \/ AllSafe(f) => \A i \in 1..Len(f.frames) : f.frames[i] \in flushed' => i <= f.safe
    BY DEF OnMedium, AllSafe
  <2>2. /\ OnMedium(disk'.log) \/ AllSafe(disk'.log)
        /\ OnMedium(disk'.parked) \/ AllSafe(disk'.parked)
    BY FilesFacts, SafeFacts
  <2> QED
    BY <2>1, <2>2 DEF OnMedium
<1>3. /\ AllSafe(disk.forgetBak)' /\ AllSafe(disk.compactBak)'
      /\ \A f \in disk'.versions : AllSafe(f)'
      /\ ~up' => AllSafe(disk.log)' /\ AllSafe(disk.parked)'
  BY <1>1 DEF AllSafe
<1> QED
  BY <1>1, <1>2, <1>3 DEF FilesOK, AllSafe

LEMMA OpeningFlushed ==
  ASSUME LogInv, FlushedInv, op.do = "open", UNCHANGED up, FilesOK', FlushedIsKept',
         op.at \in {"leftovers", "create", "header", "read", "upgrade", "keep old",
                    "replace old", "quarantine", "truncate"},
         \/ Fail
         \/ /\ UNCHANGED mem /\ op'.do = "open" /\ Sound(op'.out)
            /\ op'.at \in {"leftovers", "create", "header", "read", "upgrade", "keep old",
                           "replace old", "quarantine", "truncate"}
            /\ op'.at \in {"create", "header"} => disk'.log.frames = << >>
            /\ op'.at = "replace old" => disk'.log \in disk'.versions
            /\ op'.at = "truncate" =>
                 RecordsIn(disk'.log.frames)
                   \subseteq RecordsIn(Readable(disk'.log.frames)) \union Aside(disk')
  PROVE  FlushedInv'
<1>1. ~up /\ ~mem.file
  BY DEF LogInv, StepsOK, FlushedInv, WriterOK
<1>2. CASE Fail
  <2>1. op' = Idle /\ ~mem'.file /\ ~up'
    BY <1>1, <1>2, IdleFacts DEF Fail
  <2> QED
    BY <2>1, RestFlushed DEF FlushedInv
<1>3. CASE ~Fail
  <2>1. WriterOK'
    BY <1>1, <1>3 DEF WriterOK
  <2>2. ReplacedIsKept'
    BY <1>3 DEF ReplacedIsKept, Does
  <2> QED
    BY <2>1, <2>2 DEF FlushedInv
<1> QED
  BY <1>2, <1>3

LEMMA ClearLeftoversFlushed ==
  ASSUME LogInv, LogInv', FlushedInv, ClearLeftovers
  PROVE  FlushedInv'
<1>1. /\ op.do = "open" /\ op.at = "leftovers" /\ There(disk.log) /\ UNCHANGED <<up, flushed>>
  BY DEF ClearLeftovers, Does, Quietly
<1>2. PICK removed \in 0..2 :
        /\ disk' = [disk EXCEPT !.compactBak = IF removed > 0 THEN Absent ELSE @,
                                !.clearBak = @ /\ removed < 2]
        /\ \/ Fail
           \/ removed = 2 /\ op' = [op EXCEPT !.at = "read"] /\ UNCHANGED mem
  BY DEF ClearLeftovers, Goto
<1>3. /\ disk'.log = disk.log /\ disk'.copies = disk.copies
      /\ disk'.compactBak \in {disk.compactBak, Absent} /\ disk'.versions = disk.versions
      /\ disk'.parked = disk.parked /\ disk'.forgetBak = disk.forgetBak
  <2> DEFINE c == IF removed > 0 THEN Absent ELSE disk.compactBak
             b == disk.clearBak /\ removed < 2
  <2>1. disk' = [disk EXCEPT !.compactBak = c, !.clearBak = b] /\ c \in {disk.compactBak, Absent}
    BY <1>2
  <2> HIDE DEF c, b
  <2> QED
    BY <2>1, Typed DEF Directories
<1>4. FilesOK'
  BY <1>1, <1>3, FilesFacts, FilesKeep DEF FlushedInv
<1>5. Source(disk) = disk.log /\ Source(disk') = disk'.log
  BY <1>1, <1>3, SourceFacts DEF LogInv, LogTypeOK
<1>6. FlushedIsKept'
  BY <1>1, <1>3, <1>5, StillHeld DEF FlushedInv
<1>7. removed = 2 /\ op' = [op EXCEPT !.at = "read"] /\ UNCHANGED mem =>
        op'.do = "open" /\ op'.at = "read" /\ Sound(op'.out)
  BY <1>1, Typed DEF Operations, FlushedInv, WriterOK
<1> QED
  BY <1>1, <1>2, <1>4, <1>6, <1>7, OpeningFlushed

LEMMA RestoreLeftoverFlushed ==
  ASSUME LogInv, LogInv', FlushedInv, RestoreLeftover
  PROVE  FlushedInv'
<1> DEFINE f == Source(disk)
           versions == IF There(disk.compactBak) THEN disk.versions ELSE {}
           at == IF There(f) THEN "read" ELSE "create"
<1>1. /\ op.do = "open" /\ op.at = "leftovers" /\ ~There(disk.log) /\ ~up /\ UNCHANGED <<up, flushed>>
  BY DEF RestoreLeftover, Does, Quietly, LogInv, StepsOK
<1>2. ~There(disk.parked) /\ ~There(disk.forgetBak)
  BY <1>1 DEF LogInv, OneLog, Served
<1>3. \/ UNCHANGED disk /\ Fail
      \/ disk' = [disk EXCEPT !.clearBak = FALSE] /\ Fail
      \/ /\ There(disk.compactBak) \/ Cardinality(disk.versions) <= 1
         /\ disk' = [disk EXCEPT !.clearBak = FALSE, !.log = f, !.compactBak = Absent,
                                 !.versions = versions]
         /\ op' = [op EXCEPT !.at = at] /\ UNCHANGED mem
  BY DEF RestoreLeftover, Goto
<1>4. CASE UNCHANGED disk /\ Fail
  BY <1>1, <1>4, FailFlushed DEF Fail, FailWith
<1>5. CASE disk' = [disk EXCEPT !.clearBak = FALSE] /\ Fail
  <2>1. /\ disk'.log = disk.log /\ disk'.copies = disk.copies
        /\ disk'.compactBak = disk.compactBak /\ disk'.versions = disk.versions
        /\ disk'.parked = disk.parked /\ disk'.forgetBak = disk.forgetBak
    BY <1>5, Typed DEF Directories
  <2>2. FilesOK'
    BY <1>1, <2>1, FilesFacts, FilesKeep DEF FlushedInv
  <2>3. Source(disk') = Source(disk)
    BY <2>1 DEF Source, Parked
  <2>4. FlushedIsKept'
    BY <1>1, <2>1, <2>3, StillHeld DEF FlushedInv
  <2> QED
    BY <1>1, <1>5, <2>2, <2>4, OpeningFlushed
<1>6. CASE /\ There(disk.compactBak) \/ Cardinality(disk.versions) <= 1
           /\ disk' = [disk EXCEPT !.clearBak = FALSE, !.log = f, !.compactBak = Absent,
                                   !.versions = versions]
           /\ op' = [op EXCEPT !.at = at] /\ UNCHANGED mem
  <2>1. /\ f \in {disk.compactBak, Absent} \union disk.versions
        /\ There(disk.compactBak) => f = disk.compactBak
        /\ AllSafe(f) /\ TornLast(f.frames) /\ disk \in Directories
    BY <1>1, <1>2, Typed, SourceFacts, FilesFacts, SafeFacts DEF FlushedInv
  <2>2. ~There(disk.compactBak) => \A g \in disk.versions : g = f
    <3>1. SUFFICES ASSUME ~There(disk.compactBak), NEW g \in disk.versions
                   PROVE  g = f
      OBVIOUS
    <3>2. Cardinality(disk.versions) = 1
      <4>1. IsFiniteSet(disk.versions) /\ disk.versions # {}
        BY <3>1, FilesFacts DEF FlushedInv
      <4>2. Cardinality(disk.versions) \in Nat /\ Cardinality(disk.versions) # 0
        BY <4>1, FS_CardinalityType, FS_EmptySet
      <4> QED
        BY <1>6, <3>1, <4>2
    <3>3. PICK x : disk.versions = {x}
      BY <3>2, FilesFacts, FS_Singleton DEF FlushedInv
    <3>4. f \in disk.versions
      BY <1>1, <1>2, <2>1, <3>1, <3>2, SourceFacts
    <3> QED
      BY <3>1, <3>3, <3>4
  <2>3. /\ at \in {"read", "create"} /\ versions \subseteq disk.versions /\ IsFiniteSet(versions)
        /\ at = "create" => f.frames = << >>
    BY FilesFacts, FS_EmptySet, FileFacts DEF FlushedInv, There
  <2>4. \A g \in disk.versions : g \in versions \/ g = f
    BY <2>2
  <2> HIDE DEF f, versions, at
  <2>5. /\ disk'.log = f /\ disk'.copies = disk.copies /\ disk'.compactBak = Absent
        /\ disk'.versions = versions /\ disk'.parked = disk.parked
        /\ disk'.forgetBak = disk.forgetBak
    BY <1>6, <2>1 DEF Directories
  <2>6. FilesOK'
    BY <1>1, <2>1, <2>3, <2>5, FilesFacts, FilesKeep DEF FlushedInv
  <2>7. FlushedIsKept'
    <3>1. SUFFICES ASSUME NEW r \in flushed
                   PROVE  r \in Held(disk')
      BY <1>1 DEF FlushedIsKept
    <3>2. disk' \in Directories
      BY DEF LogInv, LogTypeOK
    <3>3. r \in RecordsIn(f.frames) => r \in RecordsIn(Source(disk').frames)
      <4>1. There(f) => Source(disk') = f
        BY <2>5, <3>2, SourceFacts
      <4>2. ~There(f) => RecordsIn(f.frames) = {}
        BY FileFacts DEF There
      <4> QED
        BY <4>1, <4>2
    <3>4. \/ r \in RecordsIn(f.frames)
          \/ \E i \in DOMAIN disk.copies : r \in RecordsIn(disk.copies[i])
          \/ \E g \in disk.versions : r \in RecordsIn(g.frames)
      BY <2>1, AsideIs DEF FlushedInv, FlushedIsKept, f
    <3> QED
      BY <2>4, <2>5, <3>2, <3>3, <3>4, AsideIs
  <2>8. op'.do = "open" /\ op'.at = at /\ Sound(op'.out)
    BY <1>1, <1>6, <2>3, Typed DEF Operations, FlushedInv, WriterOK
  <2> QED
    BY <1>1, <1>6, <2>3, <2>5, <2>6, <2>7, <2>8, OpeningFlushed
<1> QED
  BY <1>3, <1>4, <1>5, <1>6

LEMMA CreateFlushed ==
  ASSUME LogInv, LogInv', FlushedInv, Create \/ WriteHeader
  PROVE  FlushedInv'
<1>1. /\ op.do = "open" /\ op.at \in {"create", "header"} /\ ~up /\ UNCHANGED <<up, flushed>>
  BY DEF Create, WriteHeader, Does, Quietly, LogInv, StepsOK
<1>2. PICK f \in {Blank, Canonical(<< >>)}, at \in {"header", "read"} :
        /\ at = "header" => f = Blank
        /\ \/ UNCHANGED disk /\ Fail
           \/ disk' = [disk EXCEPT !.log = f] /\ op' = [op EXCEPT !.at = at] /\ UNCHANGED mem
  BY DEF Create, WriteHeader, Goto
<1>3. CASE UNCHANGED disk /\ Fail
  BY <1>1, <1>3, FailFlushed DEF Fail, FailWith
<1>4. CASE disk' = [disk EXCEPT !.log = f] /\ op' = [op EXCEPT !.at = at] /\ UNCHANGED mem
  <2>1. f.frames = << >> /\ AllSafe(f) /\ TornLast(f.frames)
    BY FileFacts, SafeFacts
  <2>2. /\ disk'.log = f /\ disk'.copies = disk.copies
        /\ disk'.compactBak = disk.compactBak /\ disk'.versions = disk.versions
        /\ disk'.parked = disk.parked /\ disk'.forgetBak = disk.forgetBak
        /\ disk \in Directories /\ disk' \in Directories
    BY <1>4, Typed DEF Directories, LogInv, LogTypeOK
  <2>3. FilesOK'
    BY <1>1, <2>1, <2>2, FilesFacts, FilesKeep DEF FlushedInv
  <2>4. \A r \in RecordsIn(Source(disk).frames) : r \in Aside(disk')
    <3>1. CASE There(disk.log)
      <4>1. disk.log.frames = << >>
        BY <1>1 DEF FlushedInv, ReplacedIsKept
      <4> QED
        BY <2>2, <3>1, <4>1, SourceFacts, FileFacts
    <3>2. CASE ~There(disk.log)
      <4>1. ~There(disk.parked) /\ ~There(disk.forgetBak) /\ ~There(disk.compactBak)
        BY <1>1, <3>2 DEF LogInv, OneLog, Served, Begun
      <4>2. Source(disk) \in disk.versions \union {Absent}
        BY <2>2, <3>2, <4>1, SourceFacts
      <4> QED
        BY <2>2, <4>2, FileFacts, AsideIs
    <3> QED
      BY <3>1, <3>2
  <2>5. FlushedIsKept'
    BY <1>1, <2>2, <2>4, StillHeld DEF FlushedInv
  <2>6. op'.do = "open" /\ op'.at = at /\ Sound(op'.out)
    BY <1>1, <1>4, Typed DEF Operations, FlushedInv, WriterOK
  <2> QED
    BY <1>1, <1>2, <1>4, <2>1, <2>2, <2>3, <2>5, <2>6, OpeningFlushed
<1> QED
  BY <1>2, <1>3, <1>4

(* The log is there and stays, or what it loses is kept aside.              *)
LEMMA LogHeld ==
  ASSUME LogInv, LogInv', FlushedIsKept,
         flushed' \subseteq flushed \union RecordsIn(disk.log.frames),
         There(disk.log), There(disk'.log),
         disk'.copies = disk.copies, disk.versions \subseteq disk'.versions,
         \A r \in flushed' : r \in RecordsIn(disk.log.frames) =>
                               r \in RecordsIn(disk'.log.frames) \/ r \in Aside(disk')
  PROVE  FlushedIsKept'
<1>1. disk \in Directories /\ disk' \in Directories
  BY DEF LogInv, LogTypeOK
<1>2. Source(disk) = disk.log /\ Source(disk') = disk'.log
  BY <1>1, SourceFacts
<1>3. flushed' \subseteq Held(disk)
  BY <1>1, <1>2, AsideIs DEF FlushedIsKept
<1>4. flushed' \subseteq Held(disk) => flushed' \subseteq Held(disk')
  BY <1>1, <1>2, HeldKeeps
<1> QED
  BY <1>3, <1>4 DEF FlushedIsKept

LEMMA ReadFlushed ==
  ASSUME LogInv, LogInv', FlushedInv, Read
  PROVE  FlushedInv'
<1>1. op.do = "open" /\ op.at = "read" /\ ~up /\ UNCHANGED <<disk, up, flushed>>
  BY DEF Read, Does, Quietly, LogInv, StepsOK
<1>2. \/ Fail
      \/ UNCHANGED mem /\ op' = [op EXCEPT !.at = "upgrade", !.out = Readable(disk.log.frames)]
      \/ /\ UNCHANGED mem
         /\ \E at \in {"truncate", "quarantine"} :
              /\ op' = [op EXCEPT !.at = at]
              /\ at = "truncate" => TRUE \in TornVerdicts(Rest(disk.log.frames))
  <2>1. SUFFICES ASSUME NEW torn \in TornVerdicts(Rest(disk.log.frames)), UNCHANGED mem,
                        op' = [op EXCEPT !.at = IF torn THEN "truncate" ELSE "quarantine"]
                 PROVE  \E at \in {"truncate", "quarantine"} :
                          /\ op' = [op EXCEPT !.at = at]
                          /\ at = "truncate" => TRUE \in TornVerdicts(Rest(disk.log.frames))
    BY DEF Read, Goto
  <2>2. torn \in BOOLEAN
    BY DEF TornVerdicts
  <2> QED
    BY <2>1, <2>2
<1>3. disk.log.frames \in Frames /\ TornLast(disk.log.frames)
  BY Typed, FileFacts, FilesFacts DEF FlushedInv
<1>4. FilesOK'
  BY <1>1, FilesFacts, FilesKeep DEF FlushedInv
<1>5. FlushedIsKept'
  BY <1>1 DEF FlushedInv, FlushedIsKept
<1>6. CASE Fail
  BY <1>1, <1>4, <1>5, <1>6, OpeningFlushed
<1>7. CASE UNCHANGED mem /\ op' = [op EXCEPT !.at = "upgrade", !.out = Readable(disk.log.frames)]
  <2>1. op'.do = "open" /\ op'.at = "upgrade" /\ Sound(op'.out)
    BY <1>1, <1>3, <1>7, Typed, ReadableSound DEF Operations
  <2> QED
    BY <1>1, <1>4, <1>5, <1>7, <2>1, OpeningFlushed
<1>8. ASSUME UNCHANGED mem, NEW at \in {"truncate", "quarantine"},
             op' = [op EXCEPT !.at = at],
             at = "truncate" => TRUE \in TornVerdicts(Rest(disk.log.frames))
      PROVE  FlushedInv'
  <2>1. op'.do = "open" /\ op'.at = at /\ Sound(op'.out)
    BY <1>1, <1>8, Typed DEF Operations, FlushedInv, WriterOK
  <2>2. at = "truncate" => RecordsIn(Readable(disk.log.frames)) = RecordsIn(disk.log.frames)
    BY <1>3, <1>8, ReadsAll
  <2> QED
    BY <1>1, <1>4, <1>5, <1>8, <2>1, <2>2, OpeningFlushed
<1> QED
  BY <1>2, <1>6, <1>7, <1>8

LEMMA UpgradeFlushed ==
  ASSUME LogInv, LogInv', FlushedInv, Upgrade
  PROVE  FlushedInv'
<1>1. /\ op.do = "open" /\ op.at \in {"upgrade", "keep old", "replace old"} /\ ~up
      /\ UNCHANGED <<up, flushed>> /\ There(disk.log)
  BY DEF Upgrade, Quietly, LogInv, StepsOK, OneLog, HasLog
<1>2. \/ UNCHANGED disk /\ Fail
      \/ UNCHANGED <<disk, mem>> /\ op' = [op EXCEPT !.at = "keep old"]
      \/ /\ op' = [op EXCEPT !.at = "replace old"] /\ UNCHANGED mem
         /\ disk' = [disk EXCEPT !.versions = @ \union {disk.log}]
      \/ /\ op.at = "replace old" /\ op' = [op EXCEPT !.at = "truncate"] /\ UNCHANGED mem
         /\ disk' = [disk EXCEPT !.log = Canonical(op.out)]
  BY DEF Upgrade, Goto
<1>3. disk.log.frames \in Frames /\ TornLast(disk.log.frames) /\ AllSafe(disk.log)
  BY <1>1, Typed, FileFacts, FilesFacts DEF FlushedInv
<1>4. op.out \in Frames /\ Sound(op.out)
  BY Typed DEF FlushedInv, WriterOK
<1>5. CASE UNCHANGED disk /\ (Fail \/ (UNCHANGED mem /\ op' = [op EXCEPT !.at = "keep old"]))
  <2>1. FilesOK' /\ FlushedIsKept'
    BY <1>1, <1>5, FilesFacts, FilesKeep DEF FlushedInv, FlushedIsKept
  <2>2. op' = [op EXCEPT !.at = "keep old"] =>
          op'.do = "open" /\ op'.at = "keep old" /\ Sound(op'.out)
    BY <1>1, <1>4, Typed DEF Operations
  <2> QED
    BY <1>1, <1>5, <2>1, <2>2, OpeningFlushed
<1>6. CASE /\ op' = [op EXCEPT !.at = "replace old"] /\ UNCHANGED mem
           /\ disk' = [disk EXCEPT !.versions = @ \union {disk.log}]
  <2>1. /\ disk'.log = disk.log /\ disk'.copies = disk.copies
        /\ disk'.compactBak = disk.compactBak /\ disk'.versions = disk.versions \union {disk.log}
        /\ disk'.parked = disk.parked /\ disk'.forgetBak = disk.forgetBak
    BY <1>6, Typed DEF Directories
  <2>2. IsFiniteSet(disk'.versions)
    BY <2>1, FilesFacts, FS_AddElement DEF FlushedInv
  <2>3. FilesOK'
    BY <1>1, <1>3, <2>1, <2>2, FilesFacts, FilesKeep DEF FlushedInv
  <2>4. FlushedIsKept'
    BY <1>1, <2>1, LogHeld DEF FlushedInv
  <2>5. op'.do = "open" /\ op'.at = "replace old" /\ Sound(op'.out)
    BY <1>1, <1>4, <1>6, Typed DEF Operations
  <2> QED
    BY <1>1, <1>6, <2>1, <2>3, <2>4, <2>5, OpeningFlushed
<1>7. CASE /\ op.at = "replace old" /\ op' = [op EXCEPT !.at = "truncate"] /\ UNCHANGED mem
           /\ disk' = [disk EXCEPT !.log = Canonical(op.out)]
  <2>1. /\ disk'.log = Canonical(op.out) /\ disk'.copies = disk.copies
        /\ disk'.compactBak = disk.compactBak /\ disk'.versions = disk.versions
        /\ disk'.parked = disk.parked /\ disk'.forgetBak = disk.forgetBak
        /\ disk' \in Directories
    BY <1>7, Typed DEF Directories, LogInv, LogTypeOK
  <2>2. /\ There(disk'.log) /\ disk'.log.frames = op.out /\ AllSafe(disk'.log)
        /\ TornLast(op.out) /\ Unspoiled(op.out)
    BY <1>4, <2>1, FileFacts, SafeFacts, SoundFacts
  <2>3. FilesOK'
    BY <1>1, <2>1, <2>2, FilesFacts, FilesKeep DEF FlushedInv
  <2>4. disk.log \in disk'.versions
    BY <1>1, <1>7, <2>1 DEF FlushedInv, ReplacedIsKept, Does
  <2>5. \A r \in RecordsIn(disk.log.frames) : r \in Aside(disk')
    BY <2>1, <2>4, AsideIs
  <2>6. FlushedIsKept'
    BY <1>1, <2>1, <2>2, <2>5, LogHeld DEF FlushedInv
  <2>7. op'.do = "open" /\ op'.at = "truncate" /\ Sound(op'.out)
    BY <1>1, <1>4, <1>7, Typed DEF Operations
  <2>8. RecordsIn(Readable(op.out)) = RecordsIn(op.out)
    BY <1>4, <2>2, ReadsAll
  <2> QED
    BY <1>1, <1>7, <2>2, <2>3, <2>6, <2>7, <2>8, OpeningFlushed
<1> QED
  BY <1>1, <1>2, <1>5, <1>6, <1>7

(* The copy written stays; of those before only the oldest may go.          *)
LEMMA NewestKept ==
  ASSUME NEW copies \in Seq(Frames), NEW frames \in Frames
  PROVE  /\ frames \in Range(Newest(Append(copies, frames)))
         /\ \A j \in DOMAIN copies :
              \/ copies[j] = Head(Append(copies, frames))
              \/ copies[j] \in Range(Newest(Append(copies, frames)))
<1> DEFINE n == Len(copies)
           all == Append(copies, frames)
           kept == Newest(all)
<1>1. /\ all \in Seq(Frames) /\ Len(all) = n + 1 /\ n \in Nat
      /\ \A i \in 1..n : all[i] = copies[i]
      /\ all[n + 1] = frames /\ all # << >> /\ Head(all) = all[1]
      /\ DOMAIN copies = 1..n
  BY AppendProperties
<1> HIDE DEF all
<1>2. CASE Len(all) > RetainedCopies
  <2>1. kept = Tail(all) /\ n \in Nat \ {0}
    BY <1>1, <1>2, LogAssumption DEF Newest, LogAssumption
  <2>2. /\ DOMAIN kept = 1..n /\ \A i \in 1..n : kept[i] = all[i + 1]
    BY <1>1, <2>1, HeadTailProperties
  <2>3. n \in DOMAIN kept /\ kept[n] = frames
    BY <1>1, <2>1, <2>2
  <2>4. ASSUME NEW j \in 1..n
        PROVE  copies[j] = Head(all) \/ \E i \in DOMAIN kept : kept[i] = copies[j]
    <3>1. CASE j = 1
      BY <1>1, <3>1, <2>4
    <3>2. CASE j # 1
      <4>1. j - 1 \in 1..n /\ (j - 1) + 1 = j
        BY <1>1, <2>4, <3>2
      <4>2. kept[j - 1] = copies[j]
        BY <1>1, <2>2, <2>4, <4>1
      <4> QED
        BY <2>2, <4>1, <4>2
    <3> QED
      BY <3>1, <3>2
  <2> QED
    BY <1>1, <2>3, <2>4 DEF Range, all
<1>3. CASE ~(Len(all) > RetainedCopies)
  <2>1. kept = all /\ DOMAIN all = 1..(n + 1)
    BY <1>1, <1>3 DEF Newest
  <2>2. n + 1 \in 1..(n + 1) /\ \A j \in 1..n : j \in 1..(n + 1)
    BY <1>1
  <2> QED
    BY <1>1, <2>1, <2>2 DEF Range, all
<1> QED
  BY <1>2, <1>3

LEMMA QuarantineFlushed ==
  ASSUME LogInv, LogInv', FlushedInv, Quarantine
  PROVE  FlushedInv'
<1> DEFINE all == Append(disk.copies, disk.log.frames)
           copies == Newest(all)
<1>1. /\ op.do = "open" /\ op.at = "quarantine" /\ ~up /\ UNCHANGED up /\ There(disk.log)
  BY DEF Quarantine, Does, LogInv, StepsOK, OneLog, HasLog
<1>2. \/ UNCHANGED <<disk, flushed>> /\ Fail
      \/ /\ disk' = [disk EXCEPT !.copies = copies]
         /\ flushed' = flushed \ (RecordsIn(Head(all)) \ Held(disk'))
         /\ op' = [op EXCEPT !.at = "truncate"] /\ UNCHANGED mem
  BY DEF Quarantine, Goto
<1>3. CASE UNCHANGED <<disk, flushed>> /\ Fail
  BY <1>1, <1>3, FailFlushed DEF Fail, FailWith
<1>4. CASE /\ disk' = [disk EXCEPT !.copies = copies]
           /\ flushed' = flushed \ (RecordsIn(Head(all)) \ Held(disk'))
           /\ op' = [op EXCEPT !.at = "truncate"] /\ UNCHANGED mem
  <2>1. disk \in Directories /\ disk' \in Directories /\ disk.copies \in Seq(Frames)
    BY Typed DEF LogInv, LogTypeOK
  <2>2. /\ \E i \in DOMAIN copies : copies[i] = disk.log.frames
        /\ \A j \in DOMAIN disk.copies :
             disk.copies[j] = Head(all) \/ \E i \in DOMAIN copies : copies[i] = disk.copies[j]
    <3>1. disk.log.frames \in Frames
      BY Typed, FileFacts
    <3>2. /\ disk.log.frames \in Range(copies)
          /\ \A j \in DOMAIN disk.copies :
               disk.copies[j] = Head(all) \/ disk.copies[j] \in Range(copies)
      BY <2>1, <3>1, NewestKept
    <3> QED
      BY <3>2 DEF Range
  <2> HIDE DEF all, copies
  <2>3. /\ disk'.log = disk.log /\ disk'.copies = copies
        /\ disk'.compactBak = disk.compactBak /\ disk'.versions = disk.versions
        /\ disk'.parked = disk.parked /\ disk'.forgetBak = disk.forgetBak
    BY <1>4, <2>1 DEF Directories
  <2>4. FilesOK'
    BY <1>1, <1>4, <2>3, FilesFacts, FilesKeep DEF FlushedInv
  <2>5. Source(disk) = disk.log /\ Source(disk') = disk.log
    BY <1>1, <2>1, <2>3, SourceFacts
  <2>6. ASSUME NEW r \in flushed'
        PROVE  r \in Held(disk')
    <3>1. r \in RecordsIn(Head(all)) => r \in Held(disk')
      BY <1>4, <2>6
    <3>2. \/ r \in RecordsIn(disk.log.frames)
          \/ \E i \in DOMAIN disk.copies : r \in RecordsIn(disk.copies[i])
          \/ \E g \in disk.versions : r \in RecordsIn(g.frames)
      BY <1>4, <2>1, <2>5, <2>6, AsideIs DEF FlushedInv, FlushedIsKept
    <3> QED
      BY <2>1, <2>2, <2>3, <2>5, <3>1, <3>2, AsideIs
  <2>7. FlushedIsKept'
    BY <2>6 DEF FlushedIsKept
  <2>8. RecordsIn(disk.log.frames) \subseteq Aside(disk')
    BY <2>1, <2>2, <2>3, AsideIs
  <2>9. op'.do = "open" /\ op'.at = "truncate" /\ Sound(op'.out)
    BY <1>1, <1>4, Typed DEF Operations, FlushedInv, WriterOK
  <2> QED
    BY <1>1, <1>4, <2>3, <2>4, <2>7, <2>8, <2>9, OpeningFlushed
<1> QED
  BY <1>2, <1>3, <1>4

LEMMA TruncateFlushed ==
  ASSUME LogInv, LogInv', FlushedInv, Truncate
  PROVE  FlushedInv'
<1> DEFINE good == Readable(disk.log.frames)
           m == [Opened(good) EXCEPT !.temps = mem.temps, !.backups = mem.backups]
<1>1. /\ op.do = "open" /\ op.at = "truncate" /\ ~up /\ UNCHANGED flushed /\ There(disk.log)
      /\ ~mem.file
  BY DEF Truncate, Does, LogInv, StepsOK, OneLog, HasLog, FlushedInv, WriterOK
<1>2. \/ UNCHANGED <<disk, up>> /\ Fail
      \/ /\ disk' = [disk EXCEPT !.log = Canonical(good)]
         /\ \/ UNCHANGED up /\ Fail
            \/ /\ mem' = m
               /\ \/ op' = [op EXCEPT !.at = "settle"] /\ UNCHANGED up
                  \/ op' = Idle /\ up' = TRUE
  BY DEF Truncate, Goto
<1>3. disk.log.frames \in Frames
  BY Typed, FileFacts
<1>4. good \in Frames /\ Sound(good) /\ TornLast(good) /\ Unspoiled(good)
  BY <1>3, ReadableKeeps, ReadableSound, SoundFacts
<1>5. ~m.restore
  BY Typed, IdleFacts DEF Opened, Memory
<1>6. RecordsIn(disk.log.frames) \subseteq RecordsIn(good) \union Aside(disk)
  BY <1>1 DEF FlushedInv, ReplacedIsKept, Does
<1> HIDE DEF good, m
<1>7. CASE UNCHANGED <<disk, up>> /\ Fail
  BY <1>1, <1>7, FailFlushed DEF Fail, FailWith
<1>8. CASE /\ disk' = [disk EXCEPT !.log = Canonical(good)]
           /\ \/ UNCHANGED up /\ Fail
              \/ /\ mem' = m
                 /\ \/ op' = [op EXCEPT !.at = "settle"] /\ UNCHANGED up
                    \/ op' = Idle /\ up' = TRUE
  <2>1. /\ disk'.log = Canonical(good) /\ disk'.copies = disk.copies
        /\ disk'.compactBak = disk.compactBak /\ disk'.versions = disk.versions
        /\ disk'.parked = disk.parked /\ disk'.forgetBak = disk.forgetBak
        /\ disk' \in Directories /\ disk \in Directories
    BY <1>8, Typed DEF Directories, LogInv, LogTypeOK
  <2>2. There(disk'.log) /\ disk'.log.frames = good /\ AllSafe(disk'.log)
    BY <1>4, <2>1, FileFacts, SafeFacts
  <2>3. up => up'
    BY <1>1
  <2>4. FilesOK'
    BY <1>1, <1>4, <2>1, <2>2, <2>3, FilesFacts, FilesKeep DEF FlushedInv
  <2>5. \A r : r \in Aside(disk) => r \in Aside(disk')
    BY <2>1, AsideIs
  <2>6. FlushedIsKept'
    BY <1>1, <1>6, <2>1, <2>2, <2>5, LogHeld DEF FlushedInv
  <2>7. CASE UNCHANGED up /\ Fail
    <3>1. op' = Idle /\ ~mem'.file /\ ~up'
      BY <1>1, <2>7, IdleFacts DEF Fail
    <3> QED
      BY <2>4, <2>6, <3>1, RestFlushed DEF FlushedInv
  <2>8. CASE mem' = m /\ op' = Idle /\ up' = TRUE
    BY <1>4, <1>5, <2>2, <2>4, <2>6, <2>8, RestFlushed DEF FlushedInv
  <2>9. CASE mem' = m /\ op' = [op EXCEPT !.at = "settle"] /\ UNCHANGED up
    <3>1. op'.do = "open" /\ op'.at = "settle" /\ Sound(op'.out)
      BY <1>1, <2>9, Typed DEF Operations, FlushedInv, WriterOK
    <3>2. WriterOK'
      BY <1>4, <1>5, <2>2, <2>9, <3>1 DEF WriterOK
    <3>3. ReplacedIsKept'
      BY <3>1 DEF ReplacedIsKept, Does
    <3> QED
      BY <2>4, <2>6, <3>2, <3>3 DEF FlushedInv
  <2> QED
    BY <1>8, <2>7, <2>8, <2>9
<1> QED
  BY <1>2, <1>7, <1>8

LEMMA FailedFlushed ==
  ASSUME LogInv, UNCHANGED up, op.do # "rest", NEW m, FailWith(m),
         up => Unspoiled(disk'.log.frames),
         op.do # "open" /\ m.file =>
           Sound(IF m.restore THEN disk'.parked.frames ELSE disk'.log.frames)
  PROVE  WriterOK' /\ ReplacedIsKept'
<1>1. op' = Idle /\ mem' = IF op.do = "open" THEN Closed ELSE m
  BY DEF FailWith
<1>2. op.do = "open" => ~mem'.file
  BY <1>1, IdleFacts
<1>3. op.do # "open" => up'
  BY Typed DEF LogInv, StepsOK, Operations
<1> QED
  BY <1>1, <1>2, <1>3, RestFlushed

LEMMA SameFiles ==
  ASSUME LogInv, LogInv', FlushedIsKept, FilesOK, flushed' \subseteq flushed, up => up',
         disk'.log = disk.log, disk'.parked = disk.parked, disk'.forgetBak = disk.forgetBak,
         disk'.compactBak = disk.compactBak, disk'.versions = disk.versions,
         disk'.copies = disk.copies
  PROVE  FilesOK' /\ FlushedIsKept'
<1>1. FilesOK'
  BY FilesFacts, FilesKeep
<1>2. Source(disk') = Source(disk)
  BY DEF Source, Parked
<1> QED
  BY <1>1, <1>2, StillHeld

LEMMA SettleRestoreFlushed ==
  ASSUME LogInv, LogInv', FlushedInv, SettleRestore
  PROVE  FlushedInv'
<1> DEFINE f == disk.parked
           kept == IF IsWhole(f.frames) THEN f ELSE Canonical(Readable(f.frames))
<1>1. Settling /\ mem.restore /\ UNCHANGED <<up, flushed>>
  BY DEF SettleRestore, Quietly
<1>2. /\ up /\ ~There(disk.log) /\ There(disk.parked) /\ ~There(disk.forgetBak)
      /\ op.do # "rest" /\ op.at \in {"settle", "abort"} /\ op.do # "open"
  BY <1>1, Settles DEF LogInv, OneLog, Settling
<1>3. \/ UNCHANGED disk /\ Fail
      \/ /\ TRUE \in TornVerdicts(Rest(f.frames))
         /\ \/ disk' = [disk EXCEPT !.parked = kept] /\ Fail
            \/ /\ disk' = [disk EXCEPT !.parked = Absent, !.log = kept]
               /\ mem' = [mem EXCEPT !.restore = FALSE] /\ UNCHANGED op
  BY DEF SettleRestore, RestoreFrom
<1>4. /\ f \in Files /\ TornLast(f.frames) /\ Unspoiled(f.frames) /\ OnMedium(f)
      /\ mem.file => Sound(f.frames)
  BY <1>1, Typed, FilesFacts DEF FlushedInv, WriterOK
<1>5. ASSUME TRUE \in TornVerdicts(Rest(f.frames))
      PROVE  /\ RecordsIn(kept.frames) = RecordsIn(f.frames) /\ TornLast(kept.frames)
             /\ Unspoiled(kept.frames) /\ OnMedium(kept) /\ There(kept)
             /\ mem.file => Sound(kept.frames)
  <2>1. There(f)
    BY <1>2
  <2> HIDE DEF f
  <2> QED
    BY <1>4, <1>5, <2>1, KeptFlushed, KeptFacts
<1>6. disk \in Directories /\ disk' \in Directories /\ Source(disk) = f
  BY <1>2, Typed, SourceFacts DEF LogInv, LogTypeOK
<1> HIDE DEF kept, f
<1>7. CASE UNCHANGED disk /\ Fail
  BY <1>1, <1>2, <1>7, FailFlushed DEF Fail, FailWith
<1>8. CASE /\ TRUE \in TornVerdicts(Rest(f.frames))
           /\ disk' = [disk EXCEPT !.parked = kept] /\ Fail
  <2>1. /\ disk'.log = disk.log /\ disk'.copies = disk.copies
        /\ disk'.compactBak = disk.compactBak /\ disk'.versions = disk.versions
        /\ disk'.parked = kept /\ disk'.forgetBak = disk.forgetBak
    BY <1>6, <1>8 DEF Directories
  <2>2. Source(disk') = kept
    BY <1>2, <1>5, <1>6, <1>8, <2>1, SourceFacts
  <2>3. FlushedIsKept'
    BY <1>1, <1>5, <1>6, <1>8, <2>1, <2>2, StillHeld DEF FlushedInv
  <2>4. OnMedium(disk.log)' /\ OnMedium(disk.parked)'
    BY <1>1, <1>5, <1>8, <2>1 DEF FlushedInv, FilesOK, OnMedium
  <2>5. FilesOK'
    BY <1>1, <1>2, <1>5, <1>8, <2>1, <2>4 DEF FlushedInv, FilesOK, AllSafe
  <2>6. Unspoiled(disk'.log.frames)
    BY <1>2, <2>1 DEF FlushedInv, WriterOK
  <2>7. FailWith(mem)
    BY <1>8 DEF Fail, FailWith
  <2>8. WriterOK' /\ ReplacedIsKept'
    BY <1>1, <1>2, <1>5, <1>8, <2>1, <2>6, <2>7, FailedFlushed
  <2> QED
    BY <2>3, <2>5, <2>8 DEF FlushedInv
<1>9. CASE /\ TRUE \in TornVerdicts(Rest(f.frames))
           /\ disk' = [disk EXCEPT !.parked = Absent, !.log = kept]
           /\ mem' = [mem EXCEPT !.restore = FALSE] /\ UNCHANGED op
  <2>1. /\ disk'.log = kept /\ disk'.copies = disk.copies
        /\ disk'.compactBak = disk.compactBak /\ disk'.versions = disk.versions
        /\ disk'.parked = Absent /\ disk'.forgetBak = disk.forgetBak
    BY <1>6, <1>9 DEF Directories
  <2>2. Source(disk') = kept
    BY <1>5, <1>6, <1>9, <2>1, SourceFacts
  <2>3. FlushedIsKept'
    BY <1>1, <1>5, <1>6, <1>9, <2>1, <2>2, StillHeld DEF FlushedInv
  <2>4. OnMedium(disk.log)' /\ OnMedium(disk.parked)'
    BY <1>1, <1>5, <1>9, <2>1, SafeFacts DEF OnMedium, AllSafe
  <2>5. FilesOK'
    BY <1>1, <1>2, <1>5, <1>9, <2>1, <2>4, SafeFacts DEF FlushedInv, FilesOK, AllSafe
  <2>6. ~mem'.restore /\ mem'.file = mem.file
    BY <1>9, Typed DEF Memory
  <2>7. WriterOK'
    BY <1>1, <1>2, <1>5, <1>9, <2>1, <2>6 DEF FlushedInv, WriterOK
  <2>8. ReplacedIsKept'
    BY <1>2, <1>9 DEF ReplacedIsKept, Does
  <2> QED
    BY <2>3, <2>5, <2>7, <2>8 DEF FlushedInv
<1> QED
  BY <1>3, <1>7, <1>8, <1>9

LEMMA SettleBackupsFlushed ==
  ASSUME LogInv, LogInv', FlushedInv, SettleBackups
  PROVE  FlushedInv'
<1>1. Settling /\ ~mem.restore /\ mem.backups /\ UNCHANGED <<up, flushed>>
  BY DEF SettleBackups, Quietly
<1>2. There(disk.log) /\ op.do # "rest" /\ op.at \in {"settle", "abort"}
  BY <1>1, Settles DEF LogInv, OneLog, Settling
<1>3. /\ up \/ op.at = "settle" => Unspoiled(disk.log.frames)
      /\ mem.file => Sound(disk.log.frames)
  BY <1>1 DEF FlushedInv, WriterOK
<1>4. \/ UNCHANGED disk /\ Fail
      \/ disk' = [disk EXCEPT !.parked = Absent] /\ Fail
      \/ /\ disk' = [disk EXCEPT !.parked = Absent, !.forgetBak = Absent]
         /\ mem' = [mem EXCEPT !.backups = FALSE] /\ UNCHANGED op
  BY DEF SettleBackups
<1>5. CASE UNCHANGED disk /\ Fail
  BY <1>1, <1>2, <1>5, FailFlushed DEF Fail, FailWith
<1>6. ASSUME disk' = [disk EXCEPT !.parked = Absent]
             \/ disk' = [disk EXCEPT !.parked = Absent, !.forgetBak = Absent]
      PROVE  FilesOK' /\ FlushedIsKept' /\ disk'.log = disk.log
  <2>1. /\ disk'.log = disk.log /\ disk'.copies = disk.copies
        /\ disk'.compactBak = disk.compactBak /\ disk'.versions = disk.versions
        /\ disk'.parked = Absent /\ disk'.forgetBak \in {disk.forgetBak, Absent}
    BY <1>6, Typed DEF Directories
  <2>2. FilesOK'
    BY <1>1, <2>1, FilesFacts, FilesKeep DEF FlushedInv
  <2> QED
    BY <1>1, <1>2, <2>1, <2>2, LogHeld DEF FlushedInv
<1>7. CASE disk' = [disk EXCEPT !.parked = Absent] /\ Fail
  <2>1. FailWith(mem)
    BY <1>7 DEF Fail, FailWith
  <2>2. WriterOK' /\ ReplacedIsKept'
    BY <1>1, <1>2, <1>3, <1>6, <1>7, <2>1, FailedFlushed
  <2> QED
    BY <1>6, <1>7, <2>2 DEF FlushedInv
<1>8. CASE /\ disk' = [disk EXCEPT !.parked = Absent, !.forgetBak = Absent]
           /\ mem' = [mem EXCEPT !.backups = FALSE] /\ UNCHANGED op
  <2>1. mem'.restore = mem.restore /\ mem'.file = mem.file
    BY <1>8, Typed DEF Memory
  <2>2. WriterOK'
    BY <1>1, <1>2, <1>3, <1>6, <1>8, <2>1 DEF FlushedInv, WriterOK
  <2>3. ReplacedIsKept'
    BY <1>2, <1>8 DEF ReplacedIsKept, Does
  <2> QED
    BY <1>6, <1>8, <2>2, <2>3 DEF FlushedInv
<1> QED
  BY <1>4, <1>5, <1>7, <1>8

LEMMA SettleTempsFlushed ==
  ASSUME LogInv, LogInv', FlushedInv, SettleTemps
  PROVE  FlushedInv'
<1>1. Settling /\ UNCHANGED <<up, flushed>> /\ op.do # "rest" /\ op.at \in {"settle", "abort"}
  BY Settles DEF SettleTemps, Quietly, Settling
<1>2. CASE UNCHANGED disk /\ Fail
  BY <1>1, <1>2, FailFlushed DEF Fail, FailWith
<1>3. CASE /\ disk' = [disk EXCEPT !.forgetTmp = FALSE]
           /\ mem' = [mem EXCEPT !.temps = FALSE] /\ UNCHANGED op
  <2>1. /\ disk'.log = disk.log /\ disk'.copies = disk.copies
        /\ disk'.compactBak = disk.compactBak /\ disk'.versions = disk.versions
        /\ disk'.parked = disk.parked /\ disk'.forgetBak = disk.forgetBak
        /\ mem'.restore = mem.restore /\ mem'.file = mem.file
    BY <1>3, Typed DEF Directories, Memory
  <2>2. FilesOK' /\ FlushedIsKept'
    BY <1>1, <2>1, SameFiles DEF FlushedInv
  <2>3. WriterOK'
    BY <1>1, <1>3, <2>1 DEF FlushedInv, WriterOK
  <2>4. ReplacedIsKept'
    BY <1>1, <1>3 DEF ReplacedIsKept, Does
  <2> QED
    BY <2>2, <2>3, <2>4 DEF FlushedInv
<1> QED
  BY <1>2, <1>3 DEF SettleTemps

LEMMA SettledFlushed ==
  ASSUME LogInv, LogInv', FlushedInv, Settled
  PROVE  FlushedInv'
<1>1. Settling /\ UNCHANGED <<disk, mem, up, flushed>>
  BY DEF Settled, Quietly
<1>2. /\ op.do # "rest" /\ (op.do = "open" => op.at = "settle" /\ mem.records > Limit)
      /\ (op.do # "open" => up) /\ op.at \in {"settle", "abort"}
  BY <1>1, Settles DEF LogInv, StepsOK, Does, Settling
<1>3. \/ up /\ op' = Idle
      \/ \E at \in {"filter", "copies", "sync"} :
           /\ op' = [op EXCEPT !.at = at]
           /\ at = "sync" => op.at = "settle" /\ op.do \notin {"forget", "clear"}
           /\ at # "sync" => up
  <2>1. CASE op.at = "abort"
    BY <1>2, <2>1 DEF Settled, Does
  <2>2. CASE op.at # "abort" /\ op.do = "forget"
    <3>1. IF mem.file THEN Goto("filter") ELSE op' = Idle
      BY <1>2, <2>2 DEF Settled, Does
    <3> QED
      BY <1>2, <2>2, <3>1 DEF Goto
  <2>3. CASE op.at # "abort" /\ op.do = "clear"
    <3>1. Goto("copies")
      BY <1>2, <2>3 DEF Settled, Does
    <3> QED
      BY <1>2, <2>3, <3>1 DEF Goto
  <2>4. CASE op.at # "abort" /\ op.do \notin {"forget", "clear"}
    <3>1. IF ~mem.file \/ mem.records > Limit \/ mem.dirty > 0 THEN Goto("sync") ELSE op' = Idle
      BY <1>2, <2>4 DEF Settled, Does
    <3> QED
      BY <1>2, <2>4, <3>1 DEF Goto
  <2> QED
    BY <2>1, <2>2, <2>3, <2>4
<1>4. CASE up /\ op' = Idle
  <2>1. /\ Unspoiled(disk.log.frames)
        /\ mem.file => Sound(IF mem.restore THEN disk.parked.frames ELSE disk.log.frames)
    BY <1>4 DEF FlushedInv, WriterOK
  <2> QED
    BY <1>1, <1>4, <2>1, RestFlushed, StayFlushed
<1>5. ASSUME NEW at \in {"filter", "copies", "sync"}, op' = [op EXCEPT !.at = at],
             at = "sync" => op.at = "settle" /\ op.do \notin {"forget", "clear"},
             at # "sync" => up
      PROVE  FlushedInv'
  <2>1. op'.do = op.do /\ op'.at = at /\ op'.out = op.out
    BY <1>5, Typed DEF Operations
  <2>2. WriterOK'
    BY <1>1, <1>2, <1>5, <2>1 DEF FlushedInv, WriterOK
  <2>3. ReplacedIsKept'
    BY <1>2, <1>5, <2>1 DEF ReplacedIsKept, Does
  <2> QED
    BY <1>1, <2>2, <2>3, StayFlushed
<1> QED
  BY <1>3, <1>4, <1>5

LEMMA BeginFlushed ==
  ASSUME LogInv, LogInv', FlushedInv, Maintain \/ Clear \/ \E item \in Items : Forget(item)
  PROVE  FlushedInv'
<1>1. up /\ op = Idle /\ UNCHANGED <<disk, mem, up, flushed>>
  BY DEF Maintain, Clear, Forget, Quietly
<1>2. op'.at = "settle" /\ op'.out = << >>
  <2>1. CASE Maintain \/ Clear
    <3>1. PICK do \in {"maintain", "clear"} : op' = [Idle EXCEPT !.do = do, !.at = "settle"]
      BY <2>1 DEF Maintain, Clear
    <3> QED
      BY <3>1, IdleFacts DEF Operations, Steps
  <2>2. CASE \E item \in Items : Forget(item)
    BY <2>2 DEF Forget
  <2> QED
    BY <2>1, <2>2
<1>3. WriterOK'
  BY <1>1, <1>2, SafeFacts DEF FlushedInv, WriterOK
<1>4. ReplacedIsKept'
  BY <1>2 DEF ReplacedIsKept, Does
<1> QED
  BY <1>1, <1>3, <1>4, StayFlushed

(* At a rewrite there is the log, and what is kept on purpose.              *)
LEMMA LogFiles ==
  ASSUME LogInv, FilesOK,
         op.at \in {"filter", "own", "park", "copies", "versions", "sync", "write",
                    "publish", "reopen"},
         disk'.parked = disk.parked, disk'.forgetBak = disk.forgetBak,
         disk'.compactBak = disk.compactBak, disk'.versions \subseteq disk.versions,
         AllSafe(disk'.log), TornLast(disk'.log.frames)
  PROVE  FilesOK'
<1>1. /\ disk'.parked = Absent /\ disk'.forgetBak = Absent /\ disk'.compactBak = Absent
  BY CleanedFacts DEF There
<1>2. \A f \in disk'.versions : TornLast(f.frames) /\ AllSafe(f)
  BY FilesFacts
<1>3. OnMedium(disk.log)' /\ OnMedium(disk.parked)'
  BY <1>1, SafeFacts DEF OnMedium, AllSafe
<1>4. IsFiniteSet(disk'.versions)
  BY FilesFacts, FS_Subset
<1> QED
  BY <1>1, <1>2, <1>3, <1>4, SafeFacts DEF FilesOK, AllSafe

LEMMA FlushFlushed ==
  ASSUME LogInv, LogInv', FlushedInv, Flush
  PROVE  FlushedInv'
<1>1. op.do = "maintain" /\ op.at = "sync" /\ UNCHANGED up /\ mem.file
  BY DEF Flush, Does
<1>2. /\ There(disk.log) /\ ~mem.restore /\ mem \in Memory /\ op.do # "rest" /\ up
      /\ ~There(disk.parked)
  BY <1>1, CleanedFacts
<1>3. CASE UNCHANGED <<disk, flushed>> /\ FailWith(WriterLost)
  <2>1. WriterLost.restore = mem.restore /\ ~WriterLost.file
    BY <1>2 DEF WriterLost, Memory
  <2> QED
    BY <1>1, <1>2, <1>3, <2>1, FailFlushed
<1>4. CASE /\ disk' = Synced /\ mem' = [mem EXCEPT !.dirty = 0] /\ op' = Idle
           /\ flushed' = flushed \union RecordsIn(disk.log.frames)
  <2>1. PICK log \in Files :
          /\ Synced = [disk EXCEPT !.log = log, !.forgetTmp = disk.forgetTmp]
          /\ There(log) /\ log.frames = disk.log.frames /\ log.safe = Len(log.frames)
    BY <1>2, SyncedFacts
  <2>2. /\ disk'.log = log /\ disk'.copies = disk.copies
        /\ disk'.compactBak = disk.compactBak /\ disk'.versions = disk.versions
        /\ disk'.parked = disk.parked /\ disk'.forgetBak = disk.forgetBak
    BY <1>4, <2>1, Typed DEF Directories
  <2>3. FilesOK'
    BY <1>1, <2>1, <2>2, LogFiles, FilesFacts DEF FlushedInv, AllSafe
  <2>4. FlushedIsKept'
    BY <1>2, <1>4, <2>1, <2>2, LogHeld DEF FlushedInv
  <2>5. mem'.restore = mem.restore /\ Sound(log.frames) /\ Unspoiled(log.frames)
    BY <1>1, <1>2, <1>4, <2>1 DEF Memory, FlushedInv, WriterOK
  <2> QED
    BY <1>1, <1>2, <1>4, <2>2, <2>3, <2>4, <2>5, RestFlushed DEF FlushedInv
<1> QED
  BY <1>3, <1>4 DEF Flush

LEMMA SyncForRewriteFlushed ==
  ASSUME LogInv, LogInv', FlushedInv, SyncForRewrite
  PROVE  FlushedInv'
<1> DEFINE out == IF op.do = "clear" THEN << >> ELSE Compacted(disk.log.frames)
<1>1. op.at = "sync" /\ UNCHANGED <<up, flushed>>
  BY DEF SyncForRewrite, Quietly
<1>2. /\ There(disk.log) /\ ~mem.restore /\ mem \in Memory /\ op.do # "rest"
      /\ Unspoiled(disk.log.frames) /\ disk.log.frames \in Frames
      /\ mem.file => Sound(disk.log.frames)
  BY <1>1, CleanedFacts, Typed, FileFacts DEF FlushedInv, WriterOK
<1>3. Sound(out)
  BY <1>2, ReadableSound, SafeFacts
<1>4. \/ UNCHANGED disk /\ Fail
      \/ /\ disk' = (IF mem.file THEN Synced ELSE disk)
         /\ Fail \/ (op' = [op EXCEPT !.at = "write", !.out = out] /\ UNCHANGED mem)
  BY DEF SyncForRewrite
<1> HIDE DEF out
<1>5. CASE UNCHANGED disk /\ Fail
  BY <1>1, <1>2, <1>5, FailFlushed DEF Fail, FailWith
<1>6. CASE /\ disk' = (IF mem.file THEN Synced ELSE disk)
           /\ Fail \/ (op' = [op EXCEPT !.at = "write", !.out = out] /\ UNCHANGED mem)
  <2>1. PICK log \in Files :
          /\ Synced = [disk EXCEPT !.log = log, !.forgetTmp = disk.forgetTmp]
          /\ There(log) /\ log.frames = disk.log.frames /\ log.safe = Len(log.frames)
    BY <1>2, SyncedFacts
  <2>2. /\ disk'.log = (IF mem.file THEN log ELSE disk.log) /\ disk'.copies = disk.copies
        /\ disk'.compactBak = disk.compactBak /\ disk'.versions = disk.versions
        /\ disk'.parked = disk.parked /\ disk'.forgetBak = disk.forgetBak
    BY <1>6, <2>1, Typed DEF Directories
  <2>3. disk'.log.frames = disk.log.frames /\ There(disk'.log)
    BY <1>2, <2>1, <2>2
  <2>4. disk'.log = disk.log \/ AllSafe(disk'.log)
    BY <2>1, <2>2 DEF AllSafe
  <2>5. FilesOK'
    BY <1>1, <2>2, <2>3, <2>4, FilesFacts, FilesKeep DEF FlushedInv
  <2>6. FlushedIsKept'
    BY <1>1, <1>2, <2>2, <2>3, LogHeld DEF FlushedInv
  <2>7. CASE Fail
    <3>1. FailWith(mem)
      BY <2>7 DEF Fail, FailWith
    <3>2. WriterOK' /\ ReplacedIsKept'
      BY <1>1, <1>2, <2>3, <3>1, FailedFlushed
    <3> QED
      BY <2>5, <2>6, <3>2 DEF FlushedInv
  <2>8. CASE op' = [op EXCEPT !.at = "write", !.out = out] /\ UNCHANGED mem
    <3>1. op'.do = op.do /\ op'.at = "write" /\ op'.out = out
      BY <2>8, Typed DEF Operations
    <3>2. WriterOK'
      BY <1>1, <1>2, <1>3, <2>3, <2>8, <3>1 DEF WriterOK
    <3>3. ReplacedIsKept'
      BY <1>1, <2>3, <3>1 DEF FlushedInv, ReplacedIsKept, Does
    <3> QED
      BY <2>5, <2>6, <3>2, <3>3 DEF FlushedInv
  <2> QED
    BY <1>6, <2>7, <2>8
<1> QED
  BY <1>4, <1>5, <1>6

LEMMA WriteReplacementFlushed ==
  ASSUME LogInv, LogInv', FlushedInv, WriteReplacement
  PROVE  FlushedInv'
<1>1. op.at = "write" /\ UNCHANGED <<disk, up, flushed>>
  BY DEF WriteReplacement, Quietly
<1>2. op.do # "rest"
  BY <1>1, CleanedFacts
<1>3. CASE Fail
  BY <1>1, <1>2, <1>3, FailFlushed DEF Fail, FailWith
<1>4. CASE op' = [op EXCEPT !.at = "publish"] /\ UNCHANGED mem
  <2>1. op'.do = op.do /\ op'.at = "publish" /\ op'.out = op.out
    BY <1>4, Typed DEF Operations
  <2>2. WriterOK'
    BY <1>1, <1>4, <2>1 DEF FlushedInv, WriterOK
  <2>3. ReplacedIsKept'
    BY <1>1, <2>1 DEF FlushedInv, ReplacedIsKept, Does
  <2> QED
    BY <1>1, <2>2, <2>3, StayFlushed
<1> QED
  BY <1>3, <1>4 DEF WriteReplacement, Goto

(* The replacement has all that is not given up: the log it is made from    *)
(* ends, at worst, in what is left of a failed append.                      *)
LEMMA PublishFlushed ==
  ASSUME LogInv, LogInv', FlushedInv, Publish, ~TornReopen
  PROVE  FlushedInv'
<1>1. op.at = "publish" /\ UNCHANGED up
  BY DEF Publish
<1>2. /\ There(disk.log) /\ ~mem.restore /\ mem \in Memory /\ op.do # "rest"
      /\ disk.log.frames \in Frames /\ op.out \in Frames
      /\ TornLast(disk.log.frames) /\ Unspoiled(disk.log.frames) /\ Sound(op.out)
  BY <1>1, CleanedFacts, Typed, FileFacts, FilesFacts DEF FlushedInv, WriterOK
<1>3. CASE /\ IsWhole(disk.log.frames) /\ UNCHANGED <<disk, flushed>>
           /\ \E reopened \in BOOLEAN : FailWith([mem EXCEPT !.file = reopened])
  <2>1. PICK reopened \in BOOLEAN : FailWith([mem EXCEPT !.file = reopened])
    BY <1>3
  <2> DEFINE m == [mem EXCEPT !.file = reopened]
  <2>2. m.restore = mem.restore /\ Sound(disk.log.frames)
    BY <1>2, <1>3, ReadableSound DEF Memory
  <2> HIDE DEF m
  <2>3. FailWith(m)
    BY <2>1 DEF m
  <2> QED
    BY <1>1, <1>2, <1>3, <2>2, <2>3, FailFlushed
<1>4. CASE /\ disk' = [disk EXCEPT !.log = Canonical(op.out)]
           /\ flushed' = flushed \ GivenUp
           /\ mem' = WriterLost /\ op' = [op EXCEPT !.at = "reopen"]
  <2>1. /\ disk'.log = Canonical(op.out) /\ disk'.copies = disk.copies
        /\ disk'.compactBak = disk.compactBak /\ disk'.versions = disk.versions
        /\ disk'.parked = disk.parked /\ disk'.forgetBak = disk.forgetBak
    BY <1>4, Typed DEF Directories
  <2>2. /\ There(disk'.log) /\ disk'.log.frames = op.out /\ AllSafe(disk'.log)
        /\ TornLast(op.out) /\ Unspoiled(op.out)
    BY <1>2, <2>1, FileFacts, SafeFacts, SoundFacts
  <2>3. FilesOK'
    BY <1>1, <2>1, <2>2, LogFiles DEF FlushedInv
  <2>4. RecordsIn(Readable(disk.log.frames)) = RecordsIn(disk.log.frames)
    BY <1>2, ReadsAll
  <2>5. GivenUp = RecordsIn(disk.log.frames) \ RecordsIn(op.out)
    BY <2>4 DEF GivenUp
  <2>6. FlushedIsKept'
    BY <1>2, <1>4, <2>1, <2>2, <2>5, LogHeld DEF FlushedInv
  <2>7. op'.do = op.do /\ op'.at = "reopen" /\ op'.out = op.out /\ ~mem'.file
    BY <1>2, <1>4, Typed DEF Operations, Memory, WriterLost
  <2>8. WriterOK'
    BY <1>2, <2>2, <2>7 DEF WriterOK
  <2>9. ReplacedIsKept'
    BY <2>1, <2>7 DEF ReplacedIsKept, Does
  <2> QED
    BY <2>3, <2>6, <2>8, <2>9 DEF FlushedInv
<1> QED
  BY <1>3, <1>4 DEF Publish, Goto

LEMMA ReopenFlushed ==
  ASSUME LogInv, LogInv', FlushedInv, Reopen
  PROVE  FlushedInv'
<1>1. op.at = "reopen" /\ UNCHANGED disk /\ disk.log = Canonical(op.out) /\ op.out \in Frames
  BY Typed DEF Reopen, FlushedInv, ReplacedIsKept
<1>2. /\ disk.log.frames = op.out /\ AllSafe(disk.log) /\ Sound(op.out)
      /\ TornLast(op.out) /\ Unspoiled(op.out)
  BY <1>1, FileFacts, SafeFacts, SoundFacts DEF FlushedInv, WriterOK
<1>3. /\ There(disk.log) /\ ~mem.restore /\ op.do # "rest" /\ (op.do # "open" => up)
      /\ op.do = "clear" => op.out = << >>
  BY <1>1, CleanedFacts
<1>4. \A frames : ~Opened(frames).restore
  BY IdleFacts DEF Opened, Memory
<1>5. PICK reopened \in BOOLEAN :
        \/ /\ op.do = "clear" /\ mem' = [Opened(<< >>) EXCEPT !.file = reopened]
           /\ op' = Idle /\ UNCHANGED <<up, flushed>>
        \/ /\ mem' = Opened(op.out) /\ op' = Idle /\ up' = TRUE
           /\ flushed' = flushed \union RecordsIn(op.out)
        \/ /\ FailWith([Opened(op.out) EXCEPT !.file = FALSE]) /\ UNCHANGED <<up, flushed>>
  BY DEF Reopen
<1>6. CASE /\ op.do = "clear" /\ mem' = [Opened(<< >>) EXCEPT !.file = reopened]
           /\ op' = Idle /\ UNCHANGED <<up, flushed>>
  <2>1. ~mem'.restore
    BY <1>4, <1>6 DEF Opened, Closed
  <2> QED
    BY <1>1, <1>2, <1>3, <1>6, <2>1, RestFlushed, StayFlushed
<1>7. CASE /\ mem' = Opened(op.out) /\ op' = Idle /\ up' = TRUE
           /\ flushed' = flushed \union RecordsIn(op.out)
  <2>1. FilesOK'
    BY <1>1, <1>2, LogFiles DEF FlushedInv
  <2>2. FlushedIsKept'
    BY <1>1, <1>2, <1>3, <1>7, LogHeld DEF FlushedInv
  <2> QED
    BY <1>1, <1>2, <1>4, <1>7, <2>1, <2>2, RestFlushed DEF FlushedInv
<1>8. CASE /\ FailWith([Opened(op.out) EXCEPT !.file = FALSE]) /\ UNCHANGED <<up, flushed>>
  <2> DEFINE m == [Opened(op.out) EXCEPT !.file = FALSE]
  <2>1. m.restore = mem.restore /\ ~m.file
    BY <1>3, Typed DEF Opened, Closed, Memory
  <2> HIDE DEF m
  <2>2. FailWith(m)
    BY <1>8 DEF m
  <2> QED
    BY <1>1, <1>3, <1>8, <2>1, <2>2, FailFlushed
<1> QED
  BY <1>5, <1>6, <1>7, <1>8

LEMMA RemoveCopiesFlushed ==
  ASSUME LogInv, LogInv', FlushedInv, RemoveCopies
  PROVE  FlushedInv'
<1>1. /\ op.do = "clear" /\ op.at = "copies" /\ UNCHANGED up
      /\ flushed' = flushed \intersect RecordsIn(disk.log.frames)
  BY DEF RemoveCopies, Does
<1>2. PICK n \in 0..Len(disk.copies) :
        /\ disk' = [disk EXCEPT !.copies = SubSeq(@, n + 1, Len(@))]
        /\ Fail \/ (op' = [op EXCEPT !.at = "versions"] /\ UNCHANGED mem)
  BY DEF RemoveCopies, Goto
<1>3. /\ op.do # "rest" /\ ~mem.restore /\ There(disk.log) /\ up /\ Unspoiled(disk.log.frames)
      /\ mem.file => Sound(disk.log.frames)
  BY <1>1, CleanedFacts DEF FlushedInv, WriterOK
<1> DEFINE copies == SubSeq(disk.copies, n + 1, Len(disk.copies))
<1>4. disk' = [disk EXCEPT !.copies = copies]
  BY <1>2
<1> HIDE DEF copies
<1>5. /\ disk'.log = disk.log /\ disk'.compactBak = disk.compactBak
      /\ disk'.versions = disk.versions /\ disk'.parked = disk.parked
      /\ disk'.forgetBak = disk.forgetBak /\ disk' \in Directories
  BY <1>4, Typed DEF Directories, LogInv, LogTypeOK
<1>6. FilesOK'
  BY <1>1, <1>5, FilesFacts, FilesKeep DEF FlushedInv
<1>7. FlushedIsKept'
  <2>1. Source(disk') = disk.log
    BY <1>3, <1>5, SourceFacts
  <2> QED
    BY <1>1, <1>5, <2>1, AsideIs DEF FlushedIsKept
<1>8. CASE Fail
  <2>1. FailWith(mem)
    BY <1>8 DEF Fail, FailWith
  <2>2. WriterOK' /\ ReplacedIsKept'
    BY <1>1, <1>3, <1>5, <2>1, FailedFlushed
  <2> QED
    BY <1>6, <1>7, <2>2 DEF FlushedInv
<1>9. CASE op' = [op EXCEPT !.at = "versions"] /\ UNCHANGED mem
  <2>1. op'.do = "clear" /\ op'.at = "versions" /\ op'.out = op.out
    BY <1>1, <1>9, Typed DEF Operations
  <2>2. WriterOK'
    BY <1>1, <1>3, <1>5, <1>9, <2>1 DEF FlushedInv, WriterOK
  <2>3. ReplacedIsKept'
    BY <1>1, <1>5, <2>1 DEF ReplacedIsKept, Does
  <2> QED
    BY <1>6, <1>7, <2>2, <2>3 DEF FlushedInv
<1> QED
  BY <1>2, <1>8, <1>9

LEMMA RemoveVersionsFlushed ==
  ASSUME LogInv, LogInv', FlushedInv, RemoveVersions
  PROVE  FlushedInv'
<1>1. op.do = "clear" /\ op.at = "versions" /\ UNCHANGED <<up, flushed>>
  BY DEF RemoveVersions, Does, Quietly
<1>2. PICK left \in SUBSET disk.versions :
        /\ disk' = [disk EXCEPT !.versions = left]
        /\ Fail \/ (op' = [op EXCEPT !.at = "sync"] /\ UNCHANGED mem)
  BY DEF RemoveVersions, Goto
<1>3. /\ op.do # "rest" /\ ~mem.restore /\ There(disk.log) /\ up /\ Unspoiled(disk.log.frames)
      /\ mem.file => Sound(disk.log.frames)
      /\ flushed \subseteq RecordsIn(disk.log.frames)
  BY <1>1, CleanedFacts DEF FlushedInv, WriterOK, ReplacedIsKept
<1>4. /\ disk'.log = disk.log /\ disk'.compactBak = disk.compactBak
      /\ disk'.versions = left /\ disk'.parked = disk.parked
      /\ disk'.forgetBak = disk.forgetBak /\ disk' \in Directories
  BY <1>2, Typed DEF Directories, LogInv, LogTypeOK
<1>5. IsFiniteSet(left) /\ \A f \in left : f \in disk.versions
  BY FilesFacts, FS_Subset DEF FlushedInv
<1>6. FilesOK'
  BY <1>1, <1>4, <1>5, FilesFacts, FilesKeep DEF FlushedInv
<1>7. FlushedIsKept'
  <2>1. Source(disk') = disk.log
    BY <1>3, <1>4, SourceFacts
  <2> QED
    BY <1>1, <1>3, <1>4, <2>1, AsideIs DEF FlushedIsKept
<1>8. CASE Fail
  <2>1. FailWith(mem)
    BY <1>8 DEF Fail, FailWith
  <2>2. WriterOK' /\ ReplacedIsKept'
    BY <1>1, <1>3, <1>4, <2>1, FailedFlushed
  <2> QED
    BY <1>6, <1>7, <2>2 DEF FlushedInv
<1>9. CASE op' = [op EXCEPT !.at = "sync"] /\ UNCHANGED mem
  <2>1. op'.do = "clear" /\ op'.at = "sync" /\ op'.out = op.out
    BY <1>1, <1>9, Typed DEF Operations
  <2>2. WriterOK'
    BY <1>1, <1>3, <1>4, <1>9, <2>1 DEF FlushedInv, WriterOK
  <2>3. ReplacedIsKept'
    BY <1>1, <1>3, <1>4, <2>1 DEF ReplacedIsKept, Does
  <2> QED
    BY <1>6, <1>7, <2>2, <2>3 DEF FlushedInv
<1> QED
  BY <1>2, <1>8, <1>9

LEMMA FilterFlushed ==
  ASSUME LogInv, LogInv', FlushedInv, Filter
  PROVE  FlushedInv'
<1> DEFINE kept == Without(disk.log.frames, op.item)
<1>1. op.do = "forget" /\ op.at = "filter" /\ UNCHANGED <<up, flushed>>
  BY DEF Filter, Does, Quietly
<1>2. /\ op.do # "rest" /\ ~mem.restore /\ There(disk.log) /\ up /\ mem \in Memory
      /\ disk.log.frames \in Frames /\ Unspoiled(disk.log.frames)
      /\ mem.file => Sound(disk.log.frames)
  BY <1>1, CleanedFacts, Typed, FileFacts DEF FlushedInv, WriterOK
<1>3. PICK log \in Files :
        /\ Synced = [disk EXCEPT !.log = log, !.forgetTmp = disk.forgetTmp]
        /\ There(log) /\ log.frames = disk.log.frames /\ log.safe = Len(log.frames)
  BY <1>2, SyncedFacts
<1>4. \A tmp \in BOOLEAN : [Synced EXCEPT !.forgetTmp = tmp]
                             = [disk EXCEPT !.log = log, !.forgetTmp = tmp]
  BY <1>3, Typed DEF Directories
<1>5. /\ \A r \in RecordsIn(disk.log.frames) : ItemOf[r] # op.item => r \in RecordsIn(kept)
      /\ Sound(disk.log.frames) => Sound(kept)
  BY <1>2, WithoutKeeps
<1>6. \/ UNCHANGED disk /\ Fail
      \/ disk' = Synced /\ Fail
      \/ /\ \E made \in BOOLEAN : disk' = [Synced EXCEPT !.forgetTmp = made]
         /\ IsWhole(disk.log.frames)
         /\ \/ op' = [op EXCEPT !.at = "abort"] /\ mem' = [mem EXCEPT !.temps = TRUE]
            \/ op' = [op EXCEPT !.at = "own", !.out = kept] /\ UNCHANGED mem
  BY DEF Filter, Goto
<1> HIDE DEF kept
<1>7. CASE UNCHANGED disk /\ Fail
  BY <1>1, <1>2, <1>7, FailFlushed DEF Fail, FailWith
<1>8. ASSUME NEW tmp, disk' = [disk EXCEPT !.log = log, !.forgetTmp = tmp]
      PROVE  FilesOK' /\ FlushedIsKept' /\ disk'.log.frames = disk.log.frames
  <2>1. /\ disk'.log = log /\ disk'.copies = disk.copies
        /\ disk'.compactBak = disk.compactBak /\ disk'.versions = disk.versions
        /\ disk'.parked = disk.parked /\ disk'.forgetBak = disk.forgetBak
    BY <1>8, Typed DEF Directories
  <2>2. FilesOK'
    BY <1>1, <1>3, <2>1, LogFiles, FilesFacts DEF FlushedInv, AllSafe
  <2> QED
    BY <1>1, <1>2, <1>3, <2>1, <2>2, LogHeld DEF FlushedInv
<1>9. CASE disk' = Synced /\ Fail
  <2>1. FailWith(mem)
    BY <1>9 DEF Fail, FailWith
  <2>2. WriterOK' /\ ReplacedIsKept'
    BY <1>1, <1>2, <1>3, <1>8, <1>9, <2>1, FailedFlushed
  <2> QED
    BY <1>3, <1>8, <1>9, <2>2 DEF FlushedInv
<1>10. CASE /\ \E made \in BOOLEAN : disk' = [Synced EXCEPT !.forgetTmp = made]
            /\ IsWhole(disk.log.frames)
            /\ \/ op' = [op EXCEPT !.at = "abort"] /\ mem' = [mem EXCEPT !.temps = TRUE]
               \/ op' = [op EXCEPT !.at = "own", !.out = kept] /\ UNCHANGED mem
  <2>1. FilesOK' /\ FlushedIsKept' /\ disk'.log.frames = disk.log.frames
    BY <1>4, <1>8, <1>10
  <2>2. Sound(disk.log.frames)
    BY <1>2, <1>10, ReadableSound
  <2>3. CASE op' = [op EXCEPT !.at = "abort"] /\ mem' = [mem EXCEPT !.temps = TRUE]
    <3>1. op'.do = "forget" /\ op'.at = "abort" /\ op'.out = op.out
      BY <1>1, <2>3, Typed DEF Operations
    <3>2. mem'.restore = mem.restore
      BY <1>2, <2>3 DEF Memory
    <3>3. WriterOK'
      BY <1>1, <1>2, <2>1, <2>2, <3>1, <3>2 DEF FlushedInv, WriterOK
    <3>4. ReplacedIsKept'
      BY <3>1 DEF ReplacedIsKept, Does
    <3> QED
      BY <2>1, <3>3, <3>4 DEF FlushedInv
  <2>4. CASE op' = [op EXCEPT !.at = "own", !.out = kept] /\ UNCHANGED mem
    <3>1. op'.do = "forget" /\ op'.at = "own" /\ op'.out = kept /\ op'.item = op.item
      BY <1>1, <2>4, Typed DEF Operations
    <3>2. WriterOK'
      BY <1>1, <1>2, <1>5, <2>1, <2>2, <2>4, <3>1 DEF WriterOK
    <3>3. ReplacedIsKept'
      BY <1>5, <2>1, <3>1 DEF ReplacedIsKept, Does
    <3> QED
      BY <2>1, <3>2, <3>3 DEF FlushedInv
  <2> QED
    BY <1>10, <2>3, <2>4
<1> QED
  BY <1>6, <1>7, <1>9, <1>10

LEMMA ParkFlushed ==
  ASSUME LogInv, LogInv', FlushedInv, Park
  PROVE  FlushedInv'
<1>1. op.do = "forget" /\ op.at \in {"own", "park"} /\ UNCHANGED <<up, flushed>>
  BY DEF Park, Quietly
<1>2. /\ ~mem.restore /\ There(disk.log) /\ ~There(disk.forgetBak) /\ up /\ mem \in Memory
      /\ Sound(disk.log.frames) /\ Unspoiled(disk.log.frames)
      /\ \A r \in RecordsIn(disk.log.frames) : ItemOf[r] # op.item => r \in RecordsIn(op.out)
  BY <1>1, CleanedFacts DEF FlushedInv, WriterOK, ReplacedIsKept
<1>3. \/ op' = [op EXCEPT !.at = "abort"] /\ mem' = [mem EXCEPT !.temps = TRUE] /\ UNCHANGED disk
      \/ op' = [op EXCEPT !.at = "park"] /\ UNCHANGED <<disk, mem>>
      \/ /\ op' = [op EXCEPT !.at = "swap"] /\ UNCHANGED mem
         /\ disk' = [disk EXCEPT !.parked = disk.log, !.log = Absent]
  BY DEF Park, Goto
<1>4. CASE op' = [op EXCEPT !.at = "abort"] /\ mem' = [mem EXCEPT !.temps = TRUE] /\ UNCHANGED disk
  <2>1. op'.do = "forget" /\ op'.at = "abort" /\ op'.out = op.out /\ mem'.restore = mem.restore
    BY <1>1, <1>2, <1>4, Typed DEF Operations, Memory
  <2>2. WriterOK'
    BY <1>1, <1>2, <1>4, <2>1 DEF FlushedInv, WriterOK
  <2>3. ReplacedIsKept'
    BY <2>1 DEF ReplacedIsKept, Does
  <2> QED
    BY <1>1, <1>4, <2>2, <2>3, StayFlushed
<1>5. CASE op' = [op EXCEPT !.at = "park"] /\ UNCHANGED <<disk, mem>>
  <2>1. op'.do = "forget" /\ op'.at = "park" /\ op'.out = op.out /\ op'.item = op.item
    BY <1>1, <1>5, Typed DEF Operations
  <2>2. WriterOK'
    BY <1>1, <1>2, <1>5, <2>1 DEF FlushedInv, WriterOK
  <2>3. ReplacedIsKept'
    BY <1>2, <1>5, <2>1 DEF ReplacedIsKept, Does
  <2> QED
    BY <1>1, <1>5, <2>2, <2>3, StayFlushed
<1>6. CASE /\ op' = [op EXCEPT !.at = "swap"] /\ UNCHANGED mem
           /\ disk' = [disk EXCEPT !.parked = disk.log, !.log = Absent]
  <2>1. op'.do = "forget" /\ op'.at = "swap" /\ op'.out = op.out /\ op'.item = op.item
    BY <1>1, <1>6, Typed DEF Operations
  <2>2. /\ disk'.log = Absent /\ disk'.copies = disk.copies
        /\ disk'.compactBak = disk.compactBak /\ disk'.versions = disk.versions
        /\ disk'.parked = disk.log /\ disk'.forgetBak = disk.forgetBak
        /\ disk \in Directories /\ disk' \in Directories
    BY <1>6, Typed DEF Directories, LogInv, LogTypeOK
  <2>3. Source(disk) = disk.log /\ Source(disk') = disk.log
    BY <1>2, <2>2, SourceFacts DEF There
  <2>4. FlushedIsKept'
    BY <1>1, <2>2, <2>3, StillHeld DEF FlushedInv
  <2>5. OnMedium(disk.log)' /\ OnMedium(disk.parked)'
    BY <1>1, <2>2, SafeFacts DEF FlushedInv, FilesOK, OnMedium, AllSafe
  <2>6. FilesOK'
    BY <1>1, <1>2, <2>2, <2>5, SafeFacts DEF FlushedInv, FilesOK, AllSafe
  <2>7. WriterOK'
    BY <1>1, <1>2, <1>6, <2>1, <2>2, SafeFacts DEF FlushedInv, WriterOK
  <2>8. ReplacedIsKept'
    BY <1>2, <2>1, <2>2 DEF ReplacedIsKept, Does
  <2> QED
    BY <2>4, <2>6, <2>7, <2>8 DEF FlushedInv
<1> QED
  BY <1>3, <1>4, <1>5, <1>6

LEMMA SwapFlushed ==
  ASSUME LogInv, LogInv', FlushedInv, Swap
  PROVE  FlushedInv'
<1>1. op.do = "forget" /\ op.at = "swap" /\ op' = [op EXCEPT !.at = "abort"] /\ UNCHANGED up
  BY DEF Swap, Does, Goto
<1>2. /\ up /\ ~There(disk.log) /\ There(disk.parked) /\ ~There(disk.forgetBak) /\ mem \in Memory
      /\ flushed \subseteq 1..learned /\ Sound(disk.parked.frames) /\ Sound(op.out)
      /\ Unspoiled(disk.log.frames)
      /\ \A r \in RecordsIn(disk.parked.frames) : ItemOf[r] # op.item => r \in RecordsIn(op.out)
  BY <1>1 DEF LogInv, LogTypeOK, StepsOK, OneLog, FlushedInv, WriterOK, ReplacedIsKept
<1>3. op'.do = "forget" /\ op'.at = "abort" /\ op'.out = op.out
  BY <1>1, Typed DEF Operations
<1>4. ReplacedIsKept'
  BY <1>3 DEF ReplacedIsKept, Does
<1>5. CASE mem' = [mem EXCEPT !.temps = TRUE, !.restore = TRUE] /\ UNCHANGED <<disk, flushed>>
  <2>1. mem'.restore
    BY <1>2, <1>5 DEF Memory
  <2>2. WriterOK'
    BY <1>1, <1>2, <1>3, <1>5, <2>1 DEF WriterOK
  <2> QED
    BY <1>1, <1>4, <1>5, <2>2, StayFlushed
<1>6. CASE /\ disk' = [disk EXCEPT !.log = Canonical(op.out), !.forgetTmp = FALSE]
           /\ mem' = [Opened(op.out) EXCEPT !.backups = TRUE]
           /\ flushed' = flushed \ AboutItem
  <2>1. /\ disk'.log = Canonical(op.out) /\ disk'.copies = disk.copies
        /\ disk'.compactBak = disk.compactBak /\ disk'.versions = disk.versions
        /\ disk'.parked = disk.parked /\ disk'.forgetBak = disk.forgetBak
        /\ disk \in Directories /\ disk' \in Directories
    BY <1>6, Typed DEF Directories, LogInv, LogTypeOK
  <2>2. /\ There(disk'.log) /\ disk'.log.frames = op.out /\ AllSafe(disk'.log)
        /\ TornLast(op.out) /\ Unspoiled(op.out)
    <3>1. op.out \in Frames
      BY Typed
    <3> QED
      BY <1>2, <2>1, <3>1, FileFacts, SafeFacts, SoundFacts
  <2>3. Source(disk) = disk.parked /\ Source(disk') = disk'.log
    BY <1>2, <2>1, <2>2, SourceFacts
  <2>4. FilesOK'
    BY <1>1, <1>6, <2>1, <2>2, FilesFacts, FilesKeep DEF FlushedInv
  <2>5. \A r \in flushed' : r \in RecordsIn(disk.parked.frames) => r \in RecordsIn(op.out)
    BY <1>2, <1>6 DEF AboutItem
  <2>6. FlushedIsKept'
    BY <1>6, <2>1, <2>2, <2>3, <2>5, StillHeld DEF FlushedInv
  <2>7. ~mem'.restore
    BY <1>6 DEF Opened, Closed
  <2>8. WriterOK'
    BY <1>1, <1>2, <1>3, <2>2, <2>7 DEF WriterOK
  <2> QED
    BY <1>4, <2>4, <2>6, <2>8 DEF FlushedInv
<1> QED
  BY <1>5, <1>6 DEF Swap

-----------------------------------------------------------------------------
(* Learning, crashes and damage.                                           *)

LEMMA AppendSound ==
  ASSUME NEW frames \in Frames, Sound(frames), NEW frame \in Records \union {Torn}
  PROVE  /\ TornLast(Append(frames, frame)) /\ Unspoiled(Append(frames, frame))
         /\ frame \in Records => Sound(Append(frames, frame))
         /\ \A i \in 1..Len(Append(frames, frame)) :
              \/ i \in 1..Len(frames) /\ Append(frames, frame)[i] = frames[i]
              \/ Append(frames, frame)[i] = frame
<1> DEFINE s == Append(frames, frame)
<1>1. /\ Len(s) = Len(frames) + 1 /\ Len(frames) \in Nat
      /\ s[Len(s)] = frame /\ \A i \in 1..Len(frames) : s[i] = frames[i]
  BY AppendProperties DEF Frames
<1> HIDE DEF s
<1>2. \A i \in 1..Len(s) : \/ i \in 1..Len(frames) /\ s[i] = frames[i]
                           \/ i = Len(s) /\ s[i] = frame
  BY <1>1
<1>3. Torn # Bad /\ Torn \notin Records /\ Bad \notin Records
  BY LogAssumption DEF LogAssumption, Torn, Bad, Records
<1>4. TornLast(s) /\ Unspoiled(s) /\ (frame \in Records => Sound(s))
  BY <1>2, <1>3 DEF Sound, TornLast, Unspoiled
<1> QED
  BY <1>2, <1>4 DEF s

LEMMA LearnRecordFlushed ==
  ASSUME LogInv, LogInv', FlushedInv, LearnRecord
  PROVE  FlushedInv'
<1> DEFINE new == learned + 1
<1>1. up /\ op = Idle /\ UNCHANGED <<op, up, flushed>> /\ learned < MaxRecords
  BY DEF LearnRecord
<1>2. /\ mem \in Memory /\ flushed \subseteq 1..learned /\ learned \in Nat
      /\ new \in Records /\ new \notin flushed /\ Unspoiled(disk.log.frames)
      /\ mem.restore => There(disk.parked) /\ ~There(disk.log) /\ ~There(disk.forgetBak)
      /\ ~mem.restore => There(disk.log)
  BY <1>1, LogAssumption, IdleFacts
     DEF LogInv, LogTypeOK, OneLog, HasLog, FlushedInv, WriterOK, LogAssumption, Records
<1>3. /\ WriterLost.restore = mem.restore /\ ~WriterLost.file
  BY <1>2 DEF WriterLost, Memory
<1>4. CASE UNCHANGED disk /\ mem' \in {mem, WriterLost}
  <2>1. mem'.file => Sound(IF mem'.restore THEN disk'.parked.frames ELSE disk'.log.frames)
    BY <1>3, <1>4 DEF FlushedInv, WriterOK
  <2> QED
    BY <1>1, <1>2, <1>4, <2>1, RestFlushed, StayFlushed
<1>5. ASSUME NEW frame \in {new, Torn}, disk' = [disk EXCEPT ![Handle].frames = Append(@, frame)],
             mem.file, mem'.restore = mem.restore, mem'.file => frame = new
      PROVE  FlushedInv'
  <2> DEFINE name == Handle
             old == disk[name]
             frames == Append(old.frames, frame)
             f == [old EXCEPT !.frames = frames]
  <2>1. /\ name = (IF mem.restore THEN "parked" ELSE "log")
        /\ disk' = [disk EXCEPT ![name] = f]
    BY <1>5 DEF Handle
  <2>2. old = (IF mem.restore THEN disk.parked ELSE disk.log)
    BY <2>1
  <2> HIDE DEF name
  <2>3. /\ old \in Files /\ There(old) /\ old.frames \in Frames /\ Len(old.frames) \in Nat
        /\ old.safe \in Nat
        /\ Sound(old.frames) /\ OnMedium(old)
    <3>1. old \in Files /\ There(old)
      BY <1>2, <2>2, Typed
    <3>2. Sound(old.frames) /\ OnMedium(old)
      BY <1>5, <2>2, FilesFacts DEF FlushedInv, WriterOK
    <3> HIDE DEF old
    <3> QED
      BY <3>1, <3>2, FileFacts DEF Files, Frames
  <2> HIDE DEF old
  <2>4. frame \in Records \union {Torn} /\ frame \notin flushed
    BY <1>2 DEF Torn
  <2>5. /\ TornLast(frames) /\ Unspoiled(frames) /\ (frame \in Records => Sound(frames))
        /\ \A i \in 1..Len(frames) : \/ i \in 1..Len(old.frames) /\ frames[i] = old.frames[i]
                                     \/ frames[i] = frame
        /\ \A q : q \in RecordsIn(old.frames) => q \in RecordsIn(frames)
        /\ frames \in Frames
    BY <2>3, <2>4, AppendSound, OneFrameMore
  <2> HIDE DEF frames
  <2>6. f = [kind |-> old.kind, frames |-> frames, safe |-> old.safe]
    BY <2>3 DEF Files
  <2> HIDE DEF f
  <2>7. f.frames = frames /\ f.safe = old.safe /\ f.kind = old.kind
    BY <2>6
  <2>8. OnMedium(f)
    BY <2>3, <2>4, <2>5, <2>7 DEF OnMedium
  <2>9. /\ disk'.log = (IF mem.restore THEN disk.log ELSE f)
        /\ disk'.parked = (IF mem.restore THEN f ELSE disk.parked)
        /\ disk'.compactBak = disk.compactBak /\ disk'.versions = disk.versions
        /\ disk'.forgetBak = disk.forgetBak /\ disk'.copies = disk.copies
        /\ disk \in Directories /\ disk' \in Directories
    BY <2>1, Typed DEF Directories, LogInv, LogTypeOK
  <2>10. There(f)
    <3>1. f = Absent => f.kind = "none"
      BY FileFacts
    <3>2. old.kind # "none"
      BY <2>3 DEF Files, There
    <3> QED
      BY <2>7, <3>1, <3>2 DEF There
  <2>11. Source(disk) = old /\ Source(disk') = f
    BY <1>2, <2>2, <2>9, <2>10, SourceFacts
  <2>12. FlushedIsKept'
    BY <1>1, <2>5, <2>7, <2>9, <2>11, StillHeld DEF FlushedInv
  <2>13. OnMedium(disk.log)' /\ OnMedium(disk.parked)'
    BY <1>1, <2>8, <2>9 DEF FlushedInv, FilesOK, OnMedium
  <2>14. FilesOK'
    BY <1>1, <2>5, <2>7, <2>9, <2>13 DEF FlushedInv, FilesOK, AllSafe
  <2>15. Unspoiled(disk'.log.frames)
    BY <1>2, <2>5, <2>7, <2>9
  <2>16. mem'.file => Sound(IF mem'.restore THEN disk'.parked.frames ELSE disk'.log.frames)
    BY <1>2, <1>5, <2>5, <2>7, <2>9
  <2> QED
    BY <1>1, <2>12, <2>14, <2>15, <2>16, RestFlushed DEF FlushedInv
<1>6. \/ UNCHANGED <<disk, mem>>
      \/ /\ disk' = [disk EXCEPT ![Handle].frames = Append(@, new)]
         /\ mem.file /\ mem' = [mem EXCEPT !.records = @ + 1, !.dirty = @ + 1]
      \/ UNCHANGED disk /\ mem' = WriterLost
      \/ /\ disk' = [disk EXCEPT ![Handle].frames = Append(@, Torn)]
         /\ mem.file /\ mem' = WriterLost
  BY DEF LearnRecord
<1>7. CASE UNCHANGED <<disk, mem>> \/ (UNCHANGED disk /\ mem' = WriterLost)
  BY <1>4, <1>7
<1>8. CASE /\ disk' = [disk EXCEPT ![Handle].frames = Append(@, new)]
           /\ mem.file /\ mem' = [mem EXCEPT !.records = @ + 1, !.dirty = @ + 1]
  <2>1. mem'.restore = mem.restore
    BY <1>2, <1>8 DEF Memory
  <2> QED
    BY <1>5, <1>8, <2>1
<1>9. CASE /\ disk' = [disk EXCEPT ![Handle].frames = Append(@, Torn)]
           /\ mem.file /\ mem' = WriterLost
  BY <1>3, <1>5, <1>9
<1> QED
  BY <1>6, <1>7, <1>8, <1>9

(* What was on the medium is still there.                                   *)
LEMMA AfterCrashFlushed ==
  ASSUME NEW f \in Files, NEW g \in AfterCrash(f), TornLast(f.frames), OnMedium(f)
  PROVE  LET left == [g EXCEPT !.safe = Len(g.frames)]
         IN  /\ AllSafe(left) /\ TornLast(left.frames)
             /\ Unspoiled(f.frames) => Unspoiled(left.frames)
             /\ \A r \in flushed : r \in RecordsIn(f.frames) => r \in RecordsIn(left.frames)
<1> DEFINE left == [g EXCEPT !.safe = Len(g.frames)]
<1>1. /\ f.frames \in Frames /\ f.frames \in Seq(Records \union {Torn, Bad})
      /\ Len(f.frames) \in Nat /\ f.safe \in Nat
      /\ f = [kind |-> f.kind, frames |-> f.frames, safe |-> f.safe]
  BY FileFacts DEF Files, Frames
<1>2. ASSUME NEW frames, NEW kind, NEW safe, g = [kind |-> kind, frames |-> frames, safe |-> safe]
      PROVE  left.frames = frames /\ AllSafe(left)
  BY <1>2 DEF AllSafe
<1> SUFFICES /\ AllSafe(left) /\ TornLast(left.frames)
             /\ Unspoiled(f.frames) => Unspoiled(left.frames)
             /\ \A r \in flushed : r \in RecordsIn(f.frames) => r \in RecordsIn(left.frames)
  OBVIOUS
<1> HIDE DEF left
<1>3. CASE g = f
  <2>1. left.frames = f.frames /\ AllSafe(left)
    BY <1>1, <1>2, <1>3
  <2> QED
    BY <2>1
<1>4. CASE g # f
  <2>1. PICK k \in f.safe..(Len(f.frames) - 1) :
          \/ g = [f EXCEPT !.frames = SubSeq(f.frames, 1, k), !.safe = k]
          \/ g = [f EXCEPT !.frames = Append(SubSeq(f.frames, 1, k), Torn), !.safe = k + 1]
    BY <1>4 DEF AfterCrash
  <2> DEFINE s == SubSeq(f.frames, 1, k)
             n == k + 1
  <2>2. /\ k \in Nat /\ f.safe <= k /\ k < Len(f.frames) /\ k \in 0..Len(f.frames)
        /\ 1 \in 1..Len(f.frames) + 1
    BY <1>1
  <2>3. s \in Frames /\ Len(s) = k /\ \A i \in 1..k : s[i] = f.frames[i]
    <3>1. /\ s \in Frames /\ Len(s) = (IF 1 <= k THEN k - 1 + 1 ELSE 0)
          /\ \A i \in 1..k - 1 + 1 : s[i] = f.frames[1 + i - 1]
      BY <1>1, <2>2, PartOfFrames
    <3> HIDE DEF s
    <3> QED
      BY <2>2, <3>1
  <2> HIDE DEF s, n
  <2>4. \A i \in 1..k : s[i] # Torn
    BY <2>2, <2>3 DEF TornLast
  <2>5. /\ TornLast(s) /\ (Unspoiled(f.frames) => Unspoiled(s))
        /\ \A r \in flushed : r \in RecordsIn(f.frames) => r \in RecordsIn(s)
    <3>1. ASSUME NEW r \in flushed, r \in RecordsIn(f.frames)
          PROVE  r \in RecordsIn(s)
      <4>1. PICK i \in 1..Len(f.frames) : f.frames[i] = r /\ r \in Records
        BY <1>1, <3>1, InFrames
      <4>2. i <= f.safe
        BY <3>1, <4>1 DEF OnMedium
      <4>3. i \in 1..k /\ s[i] = r
        BY <1>1, <2>2, <2>3, <4>1, <4>2
      <4> QED
        BY <2>3, <4>1, <4>3, InFrames
    <3> QED
      BY <2>2, <2>3, <2>4, <3>1 DEF TornLast, Unspoiled
  <2>6. CASE g = [f EXCEPT !.frames = s, !.safe = k]
    <3>1. g = [kind |-> f.kind, frames |-> s, safe |-> k]
      BY <1>1, <2>6
    <3>2. left.frames = s /\ AllSafe(left)
      BY <1>2, <3>1
    <3> QED
      BY <2>5, <3>2
  <2>7. CASE g = [f EXCEPT !.frames = Append(s, Torn), !.safe = n]
    <3> DEFINE t == Append(s, Torn)
    <3>1. /\ Len(t) = k + 1 /\ t[k + 1] = Torn /\ (\A i \in 1..k : t[i] = s[i])
          /\ \A q : q \in RecordsIn(s) => q \in RecordsIn(t)
      <4>1. \A q : q \in RecordsIn(s) => q \in RecordsIn(t)
        BY <2>3, OneFrameMore
      <4>2. s \in Seq(Records \union {Torn, Bad}) /\ Torn \in Records \union {Torn, Bad}
        BY <2>3 DEF Frames
      <4>3. Len(t) = Len(s) + 1 /\ t[Len(s) + 1] = Torn /\ \A i \in 1..Len(s) : t[i] = s[i]
        BY <4>2, AppendProperties
      <4> QED
        BY <2>3, <4>1, <4>3
    <3> HIDE DEF t
    <3>2. \A i \in 1..Len(t) : (i \in 1..k /\ t[i] = s[i]) \/ (i = Len(t) /\ t[i] = Torn)
      BY <2>2, <3>1
    <3>3. Torn # Bad
      BY LogAssumption DEF LogAssumption, Torn, Bad
    <3>4. /\ TornLast(t) /\ (Unspoiled(f.frames) => Unspoiled(t))
          /\ \A r \in flushed : r \in RecordsIn(f.frames) => r \in RecordsIn(t)
      BY <2>3, <2>4, <2>5, <3>1, <3>2, <3>3 DEF TornLast, Unspoiled
    <3>5. g = [kind |-> f.kind, frames |-> t, safe |-> n]
      BY <1>1, <2>7 DEF t
    <3>6. left.frames = t /\ AllSafe(left)
      BY <1>2, <3>5
    <3> QED
      BY <3>4, <3>6
  <2> QED
    BY <2>1, <2>6, <2>7 DEF s, n
<1> QED
  BY <1>3, <1>4

LEMMA CrashFlushed ==
  ASSUME LogInv, LogInv', FlushedInv, Crash
  PROVE  FlushedInv'
<1>1. ~up' /\ op' = Idle /\ mem' = Closed /\ UNCHANGED flushed
  BY DEF Crash
<1>2. PICK g \in AfterCrash(disk.log), h \in AfterCrash(disk.parked) :
        disk' = [disk EXCEPT !.log = [g EXCEPT !.safe = Len(g.frames)],
                             !.parked = [h EXCEPT !.safe = Len(h.frames)]]
  BY DEF Crash
<1> DEFINE log == [g EXCEPT !.safe = Len(g.frames)]
           parked == [h EXCEPT !.safe = Len(h.frames)]
<1>3. /\ disk.log \in Files /\ disk.parked \in Files
      /\ TornLast(disk.log.frames) /\ TornLast(disk.parked.frames)
      /\ OnMedium(disk.log) /\ OnMedium(disk.parked) /\ Unspoiled(disk.parked.frames)
  BY Typed, FilesFacts DEF FlushedInv
<1>4. /\ There(log) <=> There(disk.log)
      /\ There(parked) <=> There(disk.parked)
  BY <1>3, AfterCrashFacts
<1>5. /\ AllSafe(log) /\ TornLast(log.frames)
      /\ \A r \in flushed : r \in RecordsIn(disk.log.frames) => r \in RecordsIn(log.frames)
  BY <1>3, AfterCrashFlushed
<1>6. /\ AllSafe(parked) /\ TornLast(parked.frames) /\ Unspoiled(parked.frames)
      /\ \A r \in flushed : r \in RecordsIn(disk.parked.frames) => r \in RecordsIn(parked.frames)
  BY <1>3, AfterCrashFlushed
<1>7. disk' = [disk EXCEPT !.log = log, !.parked = parked]
  BY <1>2
<1> HIDE DEF log, parked
<1>8. /\ disk'.log = log /\ disk'.copies = disk.copies
      /\ disk'.compactBak = disk.compactBak /\ disk'.versions = disk.versions
      /\ disk'.parked = parked /\ disk'.forgetBak = disk.forgetBak
      /\ disk \in Directories /\ disk' \in Directories
  BY <1>7, Typed DEF Directories, LogInv, LogTypeOK
<1>9. \A r \in flushed : r \in RecordsIn(Source(disk).frames) => r \in RecordsIn(Source(disk').frames)
  <2>1. CASE There(disk.log)
    BY <1>4, <1>5, <1>8, <2>1, SourceFacts
  <2>2. CASE ~There(disk.log) /\ There(disk.parked)
    BY <1>4, <1>6, <1>8, <2>2, SourceFacts
  <2>3. CASE ~There(disk.log) /\ ~There(disk.parked)
    <3>1. disk'.log = disk.log /\ disk'.parked = disk.parked
      BY <1>4, <1>8, <2>3 DEF There
    <3>2. Source(disk') = Source(disk)
      BY <1>8, <3>1 DEF Source, Parked
    <3> QED
      BY <3>2
  <2> QED
    BY <2>1, <2>2, <2>3
<1>10. FlushedIsKept'
  BY <1>1, <1>8, <1>9, StillHeld DEF FlushedInv
<1>11. OnMedium(disk.log)' /\ OnMedium(disk.parked)'
  BY <1>5, <1>6, <1>8 DEF OnMedium, AllSafe
<1>12. FilesOK'
  BY <1>5, <1>6, <1>8, <1>11 DEF FlushedInv, FilesOK, AllSafe
<1> QED
  BY <1>1, <1>10, <1>12, RestFlushed, IdleFacts DEF FlushedInv

(* A spoiled frame takes its own record only.                               *)
LEMMA DamageFlushed ==
  ASSUME LogInv, LogInv', FlushedInv, Damage
  PROVE  FlushedInv'
<1>1. ~up /\ op = Idle /\ mem = Closed /\ UNCHANGED <<mem, op, up>>
  BY DEF Damage, LogInv, StepsOK
<1>2. PICK i \in DOMAIN disk.log.frames :
        /\ disk' = [disk EXCEPT !.log.frames[i] = Bad]
        /\ flushed' = flushed \ {disk.log.frames[i]}
  BY DEF Damage
<1> DEFINE frames == [disk.log.frames EXCEPT ![i] = Bad]
           log == [disk.log EXCEPT !.frames = frames]
<1>3. /\ disk.log \in Files /\ disk.log.frames \in Frames /\ Len(disk.log.frames) \in Nat
      /\ DOMAIN disk.log.frames = 1..Len(disk.log.frames)
      /\ TornLast(disk.log.frames) /\ disk.log.safe = Len(disk.log.frames)
  BY <1>1, Typed, FileFacts, FilesFacts DEF Frames, FlushedInv, AllSafe
<1>4. /\ frames \in Frames /\ Len(frames) = Len(disk.log.frames) /\ frames[i] = Bad
      /\ \A j \in 1..Len(frames) : j # i => frames[j] = disk.log.frames[j]
  BY <1>3, ExceptSeq DEF Frames
<1> HIDE DEF frames
<1>5. TornLast(frames)
  <2>1. Torn # Bad
    BY LogAssumption DEF LogAssumption, Torn, Bad
  <2> QED
    BY <1>3, <1>4, <2>1 DEF TornLast
<1>6. \A r \in flushed' : r \in RecordsIn(disk.log.frames) => r \in RecordsIn(frames)
  <2>1. SUFFICES ASSUME NEW r \in flushed', r \in RecordsIn(disk.log.frames)
                 PROVE  r \in RecordsIn(frames)
    OBVIOUS
  <2>2. PICK j \in 1..Len(disk.log.frames) : disk.log.frames[j] = r /\ r \in Records
    BY <1>3, <2>1, InFrames
  <2>3. j # i
    BY <1>2, <2>1, <2>2
  <2> QED
    BY <1>4, <2>2, <2>3, InFrames
<1>7. log = [kind |-> disk.log.kind, frames |-> frames, safe |-> disk.log.safe]
  BY <1>3 DEF Files
<1>8. log.frames = frames /\ AllSafe(log)
  BY <1>3, <1>4, <1>7 DEF AllSafe
<1>9. disk' = [disk EXCEPT !.log = log]
  BY <1>2 DEF frames
<1> HIDE DEF log
<1>10. /\ disk'.log = log /\ disk'.copies = disk.copies
       /\ disk'.compactBak = disk.compactBak /\ disk'.versions = disk.versions
       /\ disk'.parked = disk.parked /\ disk'.forgetBak = disk.forgetBak
  BY <1>9, Typed DEF Directories
<1>11. There(disk.log) /\ There(disk'.log)
  <2>1. disk.log.frames # << >> /\ frames # << >>
    BY <1>3, <1>4
  <2> QED
    BY <1>8, <1>10, <2>1, FileFacts DEF There
<1>12. FilesOK'
  BY <1>1, <1>2, <1>5, <1>8, <1>10, FilesFacts, FilesKeep DEF FlushedInv
<1>13. FlushedIsKept'
  BY <1>2, <1>6, <1>8, <1>10, <1>11, LogHeld DEF FlushedInv
<1> QED
  BY <1>1, <1>12, <1>13, RestFlushed, IdleFacts DEF FlushedInv

-----------------------------------------------------------------------------
(* The second inductive invariant, and what it shows.                      *)

LEMMA StartFlushed ==
  LogInit =>
    /\ \A f \in {disk.log, disk.forgetBak, disk.compactBak} \union disk.versions :
         Sound(f.frames) /\ f.frames \in Frames /\ AllSafe(f)
    /\ disk.parked = Absent /\ IsFiniteSet(disk.versions)
<1> DEFINE Good(f) == Sound(f.frames) /\ f.frames \in Frames /\ AllSafe(f)
<1>1. ASSUME NEW frames \in Frames, Sound(frames), NEW kind
      PROVE  Good(File(kind, frames))
  BY <1>1 DEF File, AllSafe
<1>2. 1 \in Records /\ 2 \in Records
  BY LogAssumption DEF LogAssumption, Records
<1>3. << 1 >> \in Frames /\ Sound(<< 1 >>)
  BY <1>2 DEF Frames, Sound
<1>4. << 1, 2 >> \in Frames /\ Sound(<< 1, 2 >>)
  <2>1. << 1, 2 >> \in Seq(Records \union {Torn, Bad})
    BY <1>2
  <2>2. \A i \in 1..2 : << 1, 2 >>[i] \in Records
    BY <1>2
  <2> QED
    BY <2>1, <2>2 DEF Frames, Sound
<1>5. /\ Good(Absent) /\ Good(Canonical(<<1, 2>>)) /\ Good(File("old", <<1, 2>>))
      /\ Good(Canonical(<<1>>)) /\ Good(File("old", <<1>>))
  BY <1>1, <1>3, <1>4, FileFacts, SafeFacts DEF Canonical
<1> HIDE DEF Good
<1>6. SUFFICES ASSUME LogInit
               PROVE  /\ \A f \in {disk.log, disk.forgetBak, disk.compactBak}
                                    \union disk.versions : Good(f)
                      /\ disk.parked = Absent /\ IsFiniteSet(disk.versions)
  BY DEF Good
<1>7. PICK log \in {Absent, Canonical(<<1, 2>>), File("old", <<1, 2>>)},
           forgetBak \in {Absent, Canonical(<<1>>)}, compactBak \in {Absent, Canonical(<<1>>)},
           clearBak \in BOOLEAN, versions \in {{}, {File("old", <<1>>)}} :
        disk = [log |-> log, parked |-> Absent, forgetTmp |-> FALSE, forgetBak |-> forgetBak,
                compactBak |-> compactBak, clearBak |-> clearBak, versions |-> versions,
                copies |-> << >>]
  BY <1>6 DEF LogInit
<1>8. /\ Good(log) /\ Good(forgetBak) /\ Good(compactBak)
      /\ \A f \in versions : Good(f)
  BY <1>5
<1>9. IsFiniteSet(versions)
  <2>1. IsFiniteSet({}) /\ IsFiniteSet({File("old", <<1>>)})
    BY FS_EmptySet, FS_Singleton
  <2> QED
    BY <2>1
<1> QED
  BY <1>7, <1>8, <1>9

LEMMA InitFlushed == LogInit => FlushedInv
<1>1. SUFFICES ASSUME LogInit
               PROVE  FlushedInv
  OBVIOUS
<1>2. /\ mem = Closed /\ op = Idle /\ up = FALSE
      /\ flushed = RecordsIn(Source(disk).frames)
  BY <1>1 DEF LogInit
<1>3. /\ \A f \in {disk.log, disk.forgetBak, disk.compactBak} \union disk.versions :
           TornLast(f.frames) /\ Unspoiled(f.frames) /\ AllSafe(f)
      /\ disk.parked = Absent /\ IsFiniteSet(disk.versions)
  BY <1>1, StartFlushed, SoundFacts
<1>4. FlushedIsKept
  BY <1>2 DEF FlushedIsKept, Held
<1>5. FilesOK
  BY <1>3, SafeFacts DEF FilesOK
<1>6. WriterOK /\ ReplacedIsKept
  BY <1>2, IdleFacts, SafeFacts DEF WriterOK, ReplacedIsKept, Does
<1> QED
  BY <1>4, <1>5, <1>6 DEF FlushedInv

LEMMA NextFlushed ==
  ASSUME ~TornReopen
  PROVE  LogInv /\ LogInv' /\ FlushedInv /\ [LogNext]_vars => FlushedInv'
<1>1. SUFFICES ASSUME LogInv, LogInv', FlushedInv, [LogNext]_vars
               PROVE  FlushedInv'
  OBVIOUS
<1>2. CASE UNCHANGED vars
  <2>1. UNCHANGED <<disk, mem, op, up, flushed>>
    BY <1>2 DEF vars
  <2>2. WriterOK'
    BY <1>1, <2>1 DEF FlushedInv, WriterOK
  <2>3. ReplacedIsKept'
    BY <1>1, <2>1 DEF FlushedInv, ReplacedIsKept, Does
  <2> QED
    BY <1>1, <2>1, <2>2, <2>3, StayFlushed
<1>3. CASE Open \/ OpenRestores \/ ClearLeftovers \/ RestoreLeftover \/ Create \/ WriteHeader
  BY <1>1, <1>3, OpenFlushed, OpenRestoresFlushed, ClearLeftoversFlushed,
     RestoreLeftoverFlushed, CreateFlushed
<1>4. CASE Read \/ Upgrade \/ Quarantine \/ Truncate
  BY <1>1, <1>4, ReadFlushed, UpgradeFlushed, QuarantineFlushed, TruncateFlushed
<1>5. CASE SettleRestore \/ SettleBackups \/ SettleTemps \/ Settled
  BY <1>1, <1>5, SettleRestoreFlushed, SettleBackupsFlushed, SettleTempsFlushed, SettledFlushed
<1>6. CASE Maintain \/ Clear \/ \E item \in Items : Forget(item)
  BY <1>1, <1>6, BeginFlushed
<1>7. CASE Flush \/ SyncForRewrite \/ WriteReplacement \/ Publish \/ Reopen
  BY <1>1, <1>7, FlushFlushed, SyncForRewriteFlushed, WriteReplacementFlushed, PublishFlushed,
     ReopenFlushed
<1>8. CASE RemoveCopies \/ RemoveVersions \/ Filter \/ Park \/ Swap
  BY <1>1, <1>8, RemoveCopiesFlushed, RemoveVersionsFlushed, FilterFlushed, ParkFlushed, SwapFlushed
<1>9. CASE LearnRecord \/ Crash \/ Damage
  BY <1>1, <1>9, LearnRecordFlushed, CrashFlushed, DamageFlushed
<1> QED
  BY <1>1, <1>2, <1>3, <1>4, <1>5, <1>6, <1>7, <1>8, <1>9 DEF LogNext

(* What was reported durable is in the log that the next open starts from,  *)
(* or in a copy or backup made on purpose, at every step of every rewrite   *)
(* and whatever fails, as long as no failed replacement reopens a writer    *)
(* behind the remains of a failed append: after that the code loses         *)
(* records, as the counterexample of the model without this condition shows.*)
THEOREM FlushedCorrect ==
  ASSUME ~TornReopen
  PROVE  LogSpec => []FlushedIsKept
<1>1. LogInit => FlushedInv
  BY InitFlushed
<1>2. LogInv /\ LogInv' /\ FlushedInv /\ [LogNext]_vars => FlushedInv'
  BY NextFlushed
<1>3. FlushedInv => FlushedIsKept
  BY DEF FlushedInv
<1> QED
  BY <1>1, <1>2, <1>3, LogInvariance, PTL DEF LogSpec
=============================================================================

-------------------------- MODULE MemoPad_proofs ----------------------------
EXTENDS MemoPad, Integers, TLAPS

-----------------------------------------------------------------------------
(* The one-time codes: none is accepted twice, and a gate that is on stays on *)
(* until a code has switched it off.                                        *)

(* What the numbers of the verifier have to be for the rest to follow: a    *)
(* step takes time, and failures are counted at all.                        *)
Units == StepUnits \in Nat \ {0} /\ MaxFailures \in Nat \ {0} /\ MaxBackoff \in Nat

LEMMA StepIsNat == ASSUME Units, NEW t \in Nat PROVE C!StepAt(t) \in Nat
BY DEF Units, C!StepAt

LEMMA DelayIsNat == ASSUME Units, NEW n \in Nat PROVE C!Delay(n) \in Nat
<1> DEFINE k == C!Least(C!Most(n - 1, 0), 6)
<1>1. k \in {0, 1, 2, 3, 4, 5, 6}
  BY DEF C!Least, C!Most
<1>2. {2 ^ 0, 2 ^ 1, 2 ^ 2, 2 ^ 3, 2 ^ 4, 2 ^ 5, 2 ^ 6} \subseteq Nat
  OBVIOUS
<1> HIDE DEF k
<1>3. 2 ^ k \in {2 ^ 0, 2 ^ 1, 2 ^ 2, 2 ^ 3, 2 ^ 4, 2 ^ 5, 2 ^ 6}
  BY <1>1, Zenon
<1>4. 2 ^ k \in Nat
  BY <1>2, <1>3, Zenon
<1> DEFINE power == 2 ^ k
<1> HIDE DEF power
<1>5. power \in Nat
  BY <1>4 DEF power
<1>6. C!Delay(n) = C!Least(power, MaxBackoff)
  BY Zenon DEF C!Delay, power, k
<1> QED
  BY <1>5, <1>6 DEF Units, C!Least

(* The fields of a record.                                                  *)
LEMMA RecordFields ==
  /\ \A status, secret, state :
       LET f == C!Record(status, secret, state)
       IN  f.status = status /\ f.secret = secret /\ f.state = state
  /\ C!Absent.status = "absent" /\ C!Absent.secret = 0 /\ C!Absent.state = C!Fresh
  /\ C!Torn.status = "torn" /\ C!Torn.secret = 0 /\ C!Torn.state = C!Fresh
  /\ C!IsRecord(C!Absent) = FALSE /\ C!IsRecord(C!Torn) = FALSE
BY DEF C!Record, C!Absent, C!Torn, C!IsRecord

LEMMA FreshSound == ASSUME Units PROVE C!Fresh \in C!States /\ C!Sound(C!Fresh)
BY DEF Units, C!States, C!Sound, C!Fresh, C!Never

(* Files that hold nothing are well filed.                                  *)
LEMMA EmptyFiled ==
  ASSUME Units, secrets \in Nat
  PROVE  C!Filed(C!Absent) /\ C!Filed(C!Torn)
<1>1. 0 \in 0..secrets
  OBVIOUS
<1>2. C!Absent \in C!Files(secrets) /\ C!Torn \in C!Files(secrets)
  BY <1>1, FreshSound DEF C!Files, C!Absent, C!Torn, C!Record
<1> QED
  BY <1>2, FreshSound, RecordFields DEF C!Filed

LEMMA FailedSound ==
  ASSUME Units, now \in Nat, NEW s \in C!States, C!Sound(s)
  PROVE  /\ C!Failed(s) \in C!States /\ C!Sound(C!Failed(s))
         /\ C!Failed(s).last = s.last /\ C!Failed(s).failures >= s.failures
<1> DEFINE n == C!Least(s.failures + 1, MaxFailures)
           blocked == C!Most(s.blocked, now + C!Delay(n))
<1>1. n \in Nat /\ n >= s.failures /\ n <= MaxFailures /\ n # 0
  BY DEF Units, C!Least, C!States, C!Sound
<1>9. blocked \in Nat
  BY <1>1, DelayIsNat DEF C!Most, C!States
<1>8. C!Failed(s) = [s EXCEPT !.failures = n, !.blocked = blocked]
  BY DEF C!Failed
<1> HIDE DEF n, blocked
<1> DEFINE t == C!Failed(s)
<1>2. /\ t \in C!States /\ t.last = s.last /\ t.greatest = s.greatest
      /\ t.failures = n /\ t.blocked = blocked
  BY <1>1, <1>8, <1>9 DEF C!States
<1> QED
  BY <1>1, <1>2, <1>9 DEF C!States, C!Sound

(* The floor moves with the clock; what was accepted stays accepted unless  *)
(* the clock has been corrected to before it.                               *)
LEMMA ObservedSound ==
  ASSUME Units, now \in Nat, NEW s \in C!States, C!Sound(s),
         C!StepAt(now) >= s.greatest \/ C!Corrected(s)
  PROVE  /\ C!Observed(s) \in C!States /\ C!Sound(C!Observed(s))
         /\ C!Observed(s).greatest = C!StepAt(now) /\ C!Observed(s).failures = s.failures
         /\ C!Observed(s).last = (IF C!Forgotten(s) THEN C!Never ELSE s.last)
<1> DEFINE last == IF C!Forgotten(s) THEN C!Never ELSE s.last
           blocked == IF C!Corrected(s) /\ s.failures > 0
                      THEN C!Least(s.blocked, now + C!Delay(s.failures)) ELSE s.blocked
           step == C!StepAt(now)
<1>2. step \in Nat
  BY StepIsNat
<1>3. last \in Int /\ (last # C!Never => last <= step + 1)
  BY <1>2 DEF C!States, C!Sound, C!Forgotten, C!Never
<1>4. s.failures = 0 => blocked = 0
  BY DEF C!Sound
<1>5. step # C!Never
  BY <1>2 DEF C!Never
<1>7. blocked \in Nat
  BY DelayIsNat DEF C!Least, C!States
<1>8. C!Observed(s) = [s EXCEPT !.greatest = step, !.last = last, !.blocked = blocked]
  BY DEF C!Observed
<1> HIDE DEF last, blocked, step
<1> DEFINE t == C!Observed(s)
<1>1. /\ t \in C!States /\ t.last = last /\ t.greatest = step
      /\ t.failures = s.failures /\ t.blocked = blocked
  <2>1. last \in Int /\ blocked \in Nat /\ step \in Int
    BY <1>2, <1>3, <1>7
  <2>2. t \in C!States
    BY <2>1, <1>8 DEF C!States
  <2>3. t.last = last /\ t.greatest = step
    BY <2>1, <1>8 DEF C!States
  <2>4. t.failures = s.failures /\ t.blocked = blocked
    BY <2>1, <1>8 DEF C!States
  <2> QED
    BY <2>2, <2>3, <2>4
<1>6. C!Observed(s) \in C!States /\ C!Sound(C!Observed(s))
  BY <1>1, <1>2, <1>3, <1>4, <1>5, <1>7 DEF C!States, C!Sound
<1> QED
  BY <1>1, <1>6 DEF last, step

(* A verification ends in a sound state.  A code that is accepted is of a   *)
(* step after the last one; anything else leaves that step, unless it is    *)
(* forgotten, and does not lower the failures.                              *)
LEMMA VerifiedSound ==
  ASSUME Units, now \in Nat, NEW s \in C!States, C!Sound(s), NEW code \in C!Codes
  PROVE  LET v == C!Verified(s, code)
         IN  /\ v.is \in {"ok", "limited", "failed"} /\ v.state \in C!States /\ C!Sound(v.state)
             /\ v.is # "ok" => v.state.failures >= s.failures
             /\ v.is = "ok" => /\ code # C!Wrong /\ code \in Int /\ v.state.last = code
                               /\ ~C!Forgotten(s) => code > s.last
             /\ ~C!Forgotten(s) => v.state.last >= s.last
<1> DEFINE seen == C!Observed(s)
           step == C!StepAt(now)
           v == C!Verified(s, code)
<1>1. step \in Nat
  BY StepIsNat
<1>2. code \in Int /\ (code # C!Wrong => code <= step + 1 /\ code >= 0)
  BY <1>1 DEF C!Codes, C!Wrong, C!Most
<1>3. s.greatest \in Int /\ s.last \in Int /\ s.failures \in Nat /\ (C!Corrected(s) \in BOOLEAN)
  BY DEF C!States, C!Corrected
<1>4. CASE step < s.greatest /\ ~C!Corrected(s)
  <2>1. ~C!Forgotten(s)
    BY <1>4 DEF C!Forgotten
  <2>2. v = [state |-> C!Failed(s), is |-> "failed"]
    BY <1>1, <1>3, <1>4 DEF C!Verified
  <2> QED
    BY <1>3, <2>1, <2>2, FailedSound
<1>5. CASE step >= s.greatest \/ C!Corrected(s)
  <2>1. /\ seen \in C!States /\ C!Sound(seen) /\ seen.failures = s.failures
        /\ seen.greatest = step /\ seen.last = (IF C!Forgotten(s) THEN C!Never ELSE s.last)
    BY <1>5, ObservedSound
  <2>2. ~C!Forgotten(s) => seen.last = s.last
    BY <2>1
  <2> HIDE DEF seen
  <2>3. CASE now < seen.blocked
    <3>1. v = [state |-> seen, is |-> "limited"]
      BY <1>1, <1>3, <1>5, <2>3 DEF C!Verified, seen
    <3> QED
      BY <1>3, <2>1, <2>2, <3>1
  <2>4. CASE ~(now < seen.blocked)
    <3>0. C!Verified(s, code) = IF code # C!Wrong /\ code > seen.last
             THEN [state |-> [seen EXCEPT !.last = code, !.failures = 0, !.blocked = 0], is |-> "ok"]
             ELSE [state |-> C!Failed(seen), is |-> "failed"]
      BY <1>1, <1>3, <1>5, <2>4 DEF C!Verified, seen
    <3>1. CASE code # C!Wrong /\ code > seen.last
      <4>1. v = [state |-> [seen EXCEPT !.last = code, !.failures = 0, !.blocked = 0], is |-> "ok"]
        BY <3>0, <3>1
      <4>2. /\ v.state \in C!States /\ v.state.last = code /\ v.state.greatest = step
              /\ v.state.failures = 0 /\ v.state.blocked = 0 /\ v.is = "ok"
        <5> DEFINE t == [seen EXCEPT !.last = code, !.failures = 0, !.blocked = 0]
        <5>1. /\ t \in C!States /\ t.last = code /\ t.greatest = seen.greatest
              /\ t.failures = 0 /\ t.blocked = 0
          BY <1>2, <2>1 DEF C!States
        <5>2. v.state = t /\ v.is = "ok"
          BY <4>1
        <5> HIDE DEF t, v
        <5> QED
          BY <2>1, <5>1, <5>2
      <4>3. v.state \in C!States
        BY <1>1, <1>2, <4>2 DEF C!States
      <4>4. C!Sound(v.state)
        BY <1>1, <1>2, <3>1, <4>2 DEF C!Sound, C!Never, C!Wrong, Units
      <4> QED
        BY <1>2, <1>3, <2>2, <3>1, <4>2, <4>3, <4>4
    <3>2. CASE ~(code # C!Wrong /\ code > seen.last)
      <4>1. v = [state |-> C!Failed(seen), is |-> "failed"]
        BY <3>0, <3>2
      <4> QED
        BY <1>3, <2>1, <2>2, <4>1, FailedSound
    <3> QED
      BY <3>1, <3>2
  <2> QED
    BY <2>3, <2>4
<1> QED
  BY <1>1, <1>3, <1>4, <1>5

-----------------------------------------------------------------------------
LEMMA CodeInit == Units /\ C!Init => C!IInv
<1> SUFFICES ASSUME Units, C!Init PROVE C!IInv
  OBVIOUS
<1>1. /\ now = 0 /\ canon = C!Absent /\ temp = C!Absent /\ codeOp = C!Rest /\ secrets = 0
      /\ codeTold = [gate |-> "off", failures |-> 0, granted |-> {}]
      /\ codeOp.new = C!Absent /\ codeOp.uses = C!NoCode /\ codeOp.at = "rest"
  BY DEF C!Init, C!Rest
<1>2. C!FilesOK
  BY <1>1, EmptyFiled DEF C!FilesOK
<1>3. C!BooksKept
  BY <1>1 DEF C!BooksKept, Units
<1>4. C!OperationOK
  <2>1. C!Absent \in C!Files(secrets) /\ C!Wrong \in Int
    BY <1>1, EmptyFiled DEF C!Filed, C!Wrong
  <2> QED
    BY <1>1, <2>1 DEF C!OperationOK, C!Rest
<1>5. C!GateOK
  BY <1>1 DEF C!GateOK, C!Publishing
<1> QED
  BY <1>2, <1>3, <1>4, <1>5 DEF C!IInv

(* An operation ends, or none is under way, and the files hold what some    *)
(* file held before: all that matters is what is read next.                 *)
LEMMA CodeRests ==
  ASSUME Units, C!IInv, now' \in Nat, codeOp' = C!Rest, UNCHANGED <<codeTold, secrets>>,
         {canon', temp'} \subseteq {canon, temp, codeOp.new, C!Absent, C!Torn},
         codeTold.gate = "on" => C!Guards(C!Readable)'
  PROVE  C!IInv'
<1> USE DEF C!IInv
<1>1. /\ codeOp'.new = C!Absent /\ codeOp'.uses = C!NoCode /\ codeOp'.at = "rest"
  BY DEF C!Rest
<1>2. \A f : C!Filed(f)' <=> C!Filed(f)
  BY DEF C!Filed, C!Files
<1>3. C!Filed(C!Absent) /\ C!Filed(C!Torn)
  BY EmptyFiled DEF C!FilesOK
<1>4. C!FilesOK'
  BY <1>1, <1>2, <1>3 DEF C!FilesOK
<1>5. C!BooksKept'
  <2>1. \A g \in codeTold.granted : g[1] # 0
    BY DEF C!BooksKept, C!Uses, C!FilesOK
  <2>2. \A f \in {canon, temp, codeOp.new, C!Absent, C!Torn}, g \in codeTold.granted :
          g[1] = f.secret => g[2] <= f.state.last
    BY <2>1, RecordFields DEF C!BooksKept
  <2> QED
    BY <1>1, <2>2 DEF C!BooksKept, C!Uses
<1>6. C!OperationOK'
  <2>1. C!Absent \in C!Files(secrets') /\ C!Wrong \in Int
    BY <1>2, <1>3 DEF C!Filed, C!Wrong
  <2> QED
    BY <1>1, <2>1 DEF C!OperationOK, C!Rest
<1>7. C!GateOK'
  BY <1>1 DEF C!GateOK, C!Publishing
<1> QED
  BY <1>4, <1>5, <1>6, <1>7

(* An operation has decided on the record that replaces the one it read.    *)
Decided(new, is, uses, gate, failures, granted) ==
  /\ codeOp.at = "read" /\ temp = C!Absent /\ UNCHANGED <<now, canon, temp>>
  /\ codeOp' = [codeOp EXCEPT !.at = "create", !.code = C!Wrong, !.new = new, !.is = is, !.uses = uses]
  /\ codeTold' = [codeTold EXCEPT !.gate = gate, !.failures = failures, !.granted = granted]
  /\ secrets' \in {secrets, secrets + 1}
  /\ new \in C!Files(secrets') /\ C!Sound(new.state) /\ (new.status = "disabled" \/ new.secret # 0)
  /\ new.status \in {"disabled", "pending", "enabled"}
  /\ is \in {"begun", "ok", "off", "limited", "failed"} /\ uses \in C!Uses(secrets') \cup {C!NoCode}
  /\ gate \in {codeTold.gate, "unsure"} /\ failures \in {codeTold.failures, 0}
  /\ granted \in {codeTold.granted, {}}
  /\ uses # C!NoCode => /\ uses \notin granted
                        /\ uses[1] = new.secret => uses[2] <= new.state.last
  /\ \A g \in granted : g[1] = new.secret => g[2] <= new.state.last
  /\ gate = "on" \/ (codeOp.do = "confirm" /\ is = "ok")
       => new.status = "enabled" /\ new.state.failures >= failures

LEMMA CodeDecided ==
  ASSUME Units, C!IInv, NEW new, NEW is, NEW uses, NEW gate, NEW failures, NEW granted,
         Decided(new, is, uses, gate, failures, granted)
  PROVE  C!IInv'
<1> USE DEF Decided
<1> USE DEF C!IInv
<1>1. /\ codeOp'.at = "create" /\ codeOp'.new = new /\ codeOp'.is = is /\ codeOp'.uses = uses
      /\ codeOp'.do = codeOp.do
      /\ codeTold'.gate = gate /\ codeTold'.failures = failures /\ codeTold'.granted = granted
  BY DEF C!OperationOK, C!BooksKept
<1>2. secrets \in Nat /\ secrets' \in Nat /\ secrets <= secrets'
  BY DEF C!FilesOK
<1>3. \A f : C!Filed(f) => C!Filed(f)'
  BY <1>2 DEF C!Filed, C!Files
<1>4. C!FilesOK'
  <2>1. C!Filed(new)'
    BY DEF C!Filed
  <2> QED
    BY <1>1, <1>2, <1>3, <2>1 DEF C!FilesOK
<1>5. C!BooksKept'
  <2>1. granted \subseteq C!Uses(secrets') /\ failures \in 0..MaxFailures
    BY <1>2 DEF C!BooksKept, C!Uses, Units
  <2>2. codeTold' \in [gate : {"off", "on", "unsure"}, failures : 0..MaxFailures, granted : SUBSET C!Uses(secrets')]
    BY <2>1 DEF C!BooksKept
  <2>3. \A f \in {canon, temp, new}, g \in granted : g[1] = f.secret => g[2] <= f.state.last
    BY DEF C!BooksKept
  <2> QED
    BY <1>1, <2>2, <2>3 DEF C!BooksKept
<1>6. C!OperationOK'
  <2>1. new \in C!Files(secrets') /\ C!Wrong \in Int
    BY DEF C!Filed, C!Wrong
  <2>2. codeOp.do \in {"none", "status", "begin", "cancel", "confirm", "verify", "disable"}
    BY DEF C!OperationOK
  <2>3. codeOp' \in [at : {"rest", "read", "create", "write", "replace"},
             do : {"none", "status", "begin", "cancel", "confirm", "verify", "disable"},
             code : Int, new : C!Files(secrets'), is : {"none", "begun", "ok", "off", "limited", "failed"},
             uses : C!Uses(secrets') \cup {C!NoCode}]
    BY <2>1, <2>2 DEF C!OperationOK
  <2> QED
    BY <1>1, <2>3 DEF C!OperationOK, C!Publishing
<1>7. C!GateOK'
  <2>1. codeTold.gate = "on" => C!Guards(canon)
    BY RecordFields DEF C!GateOK, C!Readable
  <2>2. failures <= codeTold.failures
    BY DEF C!BooksKept
  <2>3. \A f \in {canon} : C!Filed(f)
    BY DEF C!FilesOK
  <2>4. gate = "on" => C!Guards(canon)'
    BY <1>1, <2>1, <2>2, <2>3 DEF C!Guards, C!Filed, C!Files, C!States, C!BooksKept
  <2>5. gate = "on" \/ (codeOp.do = "confirm" /\ is = "ok") => C!Guards(new)'
    BY <1>1 DEF C!Guards
  <2>6. C!Readable' = canon'
    BY RecordFields DEF C!Readable
  <2> QED
    BY <1>1, <2>4, <2>5, <2>6 DEF C!GateOK, C!Guards
<1> QED
  BY <1>4, <1>5, <1>6, <1>7

LEMMA CodeDecide == ASSUME Units, C!IInv, C!Decide PROVE C!IInv'
<1>0. C!FilesOK /\ C!BooksKept /\ C!OperationOK /\ C!GateOK
  BY DEF C!IInv
<1> DEFINE r == canon
           res == C!Result(r)
           consumes == res.is = "ok" \/ (res.is = "off" /\ codeOp.do = "disable")
           uses == IF consumes THEN <<r.secret, codeOp.code>> ELSE C!NoCode
           gate == IF codeOp.do = "disable" /\ consumes THEN "unsure" ELSE codeTold.gate
           failures == IF consumes THEN 0 ELSE codeTold.failures
           granted == IF codeOp.do \in {"confirm", "verify", "disable"} /\ C!Forgotten(r.state)
                      THEN {} ELSE codeTold.granted
           off == C!Record("disabled", 0, C!Fresh)
<1>1. /\ codeOp.at = "read" /\ temp = C!Absent /\ UNCHANGED <<now, canon, temp, codeFaults>>
      /\ now \in Nat /\ secrets \in Nat /\ C!Filed(r) /\ r.state \in C!States /\ C!Sound(r.state)
      /\ r.secret \in 0..secrets /\ (r.status \in {"pending", "enabled"} => r.secret # 0)
  BY <1>0 DEF C!Decide, C!FilesOK, C!Filed, C!Files
<1>2. C!Readable = r
  BY <1>1, RecordFields DEF C!Readable
<1>3. codeTold.gate = "on" => r.status = "enabled" /\ r.state.failures >= codeTold.failures
  BY <1>0, <1>2 DEF C!GateOK, C!Guards
<1>4. codeTold.failures \in Nat /\ \A g \in codeTold.granted : g \in C!Uses(secrets)
  BY <1>0 DEF C!BooksKept, Units
<1>5. CASE ~C!Allowed(r)
  <2>1. codeOp' = C!Rest /\ UNCHANGED <<codeTold, secrets>>
    BY <1>5 DEF C!Decide
  <2>2. C!Readable' = r
    BY <1>1, RecordFields DEF C!Readable
  <2>3. codeTold.gate = "on" => C!Guards(C!Readable)'
    BY <1>3, <2>1, <2>2 DEF C!Guards
  <2> QED
    BY <1>1, <2>1, <2>3, CodeRests
<1>6. CASE C!Allowed(r)
  <2>1. /\ codeOp' = [codeOp EXCEPT !.at = "create", !.code = C!Wrong, !.new = res.new, !.is = res.is, !.uses = uses]
        /\ secrets' = IF codeOp.do = "begin" THEN secrets + 1 ELSE secrets
        /\ codeTold' = [codeTold EXCEPT !.gate = gate, !.failures = failures, !.granted = granted]
    BY <1>6 DEF C!Decide
  <2>2. codeOp.do \in {"begin", "cancel", "confirm", "verify", "disable"}
    <3>1. codeOp.do # "none"
      BY <1>0, <1>1 DEF C!OperationOK, C!Rest, C!Publishing
    <3>2. codeOp.do # "status"
      BY <1>6 DEF C!Allowed
    <3> QED
      BY <1>0, <3>1, <3>2 DEF C!OperationOK
  <2>3. codeOp.code \in C!Codes
    BY <1>0, <1>1 DEF C!OperationOK, C!Rest, C!Publishing
  <2>4. /\ gate \in {codeTold.gate, "unsure"} /\ failures \in {codeTold.failures, 0}
        /\ granted \in {codeTold.granted, {}} /\ secrets' \in {secrets, secrets + 1} /\ secrets' \in Nat
    BY <1>1, <2>1
  <2>5. /\ off.status = "disabled" /\ off.secret = 0 /\ off.state = C!Fresh
        /\ off \in C!Files(secrets') /\ C!Sound(C!Fresh)
    <3>1. off \in C!Files(secrets')
      BY <2>4, FreshSound DEF C!Files, C!Record
    <3> QED
      BY <3>1, FreshSound, RecordFields
  <2>6. CASE codeOp.do = "begin"
    <3> DEFINE new == C!Record("pending", secrets + 1, C!Fresh)
    <3>1. res.new = new /\ res.is = "begun" /\ ~consumes /\ secrets' = secrets + 1
      BY <2>1, <2>6 DEF C!Result
    <3>2. new.status = "pending" /\ new.secret = secrets + 1 /\ new.state = C!Fresh
      BY RecordFields
    <3>3. new \in C!Files(secrets') /\ secrets + 1 # 0
      BY <1>1, <3>1, FreshSound DEF C!Files, C!Record
    <3>4. C!Sound(new.state)
      BY <3>2, FreshSound
    <3>5. \A g \in granted : g[1] # new.secret
      BY <1>1, <1>4, <2>4, <3>2 DEF C!Uses
    <3>6. gate # "on"
      BY <1>3, <1>6, <2>6 DEF C!Allowed
    <3>7. uses = C!NoCode
      BY <3>1
    <3>8. codeOp' = [codeOp EXCEPT !.at = "create", !.code = C!Wrong, !.new = new, !.is = "begun", !.uses = C!NoCode]
      BY <2>1, <3>1, <3>7
    <3> HIDE DEF new, res, uses, gate, failures, granted, consumes
    <3>9. Decided(new, "begun", C!NoCode, gate, failures, granted)
      BY <1>1, <2>1, <2>4, <2>6, <3>1, <3>2, <3>3, <3>4, <3>5, <3>6, <3>8 DEF Decided
    <3> QED
      BY <3>9, CodeDecided
  <2>7. CASE codeOp.do = "cancel"
    <3>1. res.new = off /\ res.is = "off" /\ ~consumes
      BY <2>7 DEF C!Result
    <3>2. \A g \in granted : g[1] # off.secret
      BY <1>1, <1>4, <2>4, <2>5 DEF C!Uses
    <3>3. gate # "on"
      BY <1>3, <1>6, <2>7 DEF C!Allowed
    <3>4. uses = C!NoCode
      BY <3>1
    <3>8. codeOp' = [codeOp EXCEPT !.at = "create", !.code = C!Wrong, !.new = off, !.is = "off", !.uses = C!NoCode]
      BY <2>1, <3>1, <3>4
    <3> HIDE DEF off, res, uses, gate, failures, granted, consumes
    <3>9. Decided(off, "off", C!NoCode, gate, failures, granted)
      BY <1>1, <2>1, <2>4, <2>5, <2>7, <3>2, <3>3, <3>8 DEF Decided
    <3> QED
      BY <3>9, CodeDecided
  <2>8. CASE codeOp.do \in {"confirm", "verify", "disable"}
    <3> DEFINE v == C!Verified(r.state, codeOp.code)
               checked == [r EXCEPT !.state = v.state]
               on == [checked EXCEPT !.status = "enabled"]
    <3>1. /\ v.is \in {"ok", "limited", "failed"} /\ v.state \in C!States /\ C!Sound(v.state)
          /\ v.is # "ok" => v.state.failures >= r.state.failures
          /\ v.is = "ok" => /\ codeOp.code # C!Wrong /\ codeOp.code \in Int /\ v.state.last = codeOp.code
                            /\ ~C!Forgotten(r.state) => codeOp.code > r.state.last
          /\ ~C!Forgotten(r.state) => v.state.last >= r.state.last
      BY <1>1, <2>3, VerifiedSound
    <3>2. /\ r.status \in {"pending", "enabled"} /\ r.secret \in 1..secrets /\ secrets' = secrets
          /\ codeOp.do # "confirm" => r.status = "enabled"
          /\ codeOp.do = "confirm" => r.status = "pending"
      <4>1. codeOp.do \in {"cancel", "confirm"} => r.status = "pending"
        BY <1>6 DEF C!Allowed
      <4>2. codeOp.do \in {"verify", "disable"} => r.status = "enabled"
        BY <1>6 DEF C!Allowed
      <4> QED
        BY <1>1, <2>1, <2>8, <4>1, <4>2
    <3>3. /\ res.is = (IF v.is = "ok" THEN IF codeOp.do = "disable" THEN "off" ELSE "ok" ELSE v.is)
          /\ res.new = (IF v.is = "ok" THEN IF codeOp.do = "disable" THEN off
                        ELSE IF codeOp.do = "confirm" THEN on ELSE checked ELSE checked)
      BY <2>8 DEF C!Result
    <3>4. consumes <=> v.is = "ok"
      BY <2>8, <3>1, <3>3
    <3> HIDE DEF v, res, consumes
    <3>5. /\ checked \in C!Files(secrets) /\ checked.state = v.state /\ checked.status = r.status
          /\ checked.secret = r.secret
      BY <1>1, <3>1, <3>2 DEF C!Filed, C!Files
    <3>6. /\ on \in C!Files(secrets) /\ on.state = v.state /\ on.status = "enabled" /\ on.secret = r.secret
      BY <3>5 DEF C!Files
    <3> HIDE DEF checked, on
    <3>7. C!Files(secrets') = C!Files(secrets) /\ C!Uses(secrets') = C!Uses(secrets)
      BY <3>2 DEF C!Files, C!Uses
    <3>8. C!Sound(checked.state) /\ C!Sound(on.state) /\ r.secret # 0
      BY <3>1, <3>2, <3>5, <3>6
    <3>9. \A g \in granted : g[1] = r.secret => g[2] <= v.state.last
      <4>1. CASE C!Forgotten(r.state)
        BY <2>8, <4>1
      <4>2. CASE ~C!Forgotten(r.state)
        <5>1. granted = codeTold.granted
          BY <4>2
        <5>2. \A g \in codeTold.granted : g[1] = r.secret => g[2] <= r.state.last
          BY <1>0 DEF C!BooksKept
        <5> QED
          BY <1>1, <1>4, <3>1, <4>2, <5>1, <5>2 DEF C!States, C!Uses
      <4> QED
        BY <4>1, <4>2
    <3>10. v.is = "ok" => \A g \in granted : g[1] = r.secret => g[2] < codeOp.code
      <4>1. CASE C!Forgotten(r.state)
        BY <2>8, <4>1
      <4>2. CASE ~C!Forgotten(r.state)
        <5>1. granted = codeTold.granted
          BY <4>2
        <5>2. \A g \in codeTold.granted : g[1] = r.secret => g[2] <= r.state.last
          BY <1>0 DEF C!BooksKept
        <5> QED
          BY <1>1, <1>4, <3>1, <4>2, <5>1, <5>2 DEF C!States, C!Uses
      <4> QED
        BY <4>1, <4>2
    <3>11. v.is = "ok" => /\ uses = <<r.secret, codeOp.code>> /\ uses \in C!Uses(secrets) /\ uses \notin granted
                          /\ uses[1] = r.secret /\ uses[2] = v.state.last
      BY <3>1, <3>2, <3>4, <3>10 DEF C!Uses
    <3>12. v.is # "ok" => uses = C!NoCode
      BY <3>4
    <3>13. v.is # "ok" => failures = codeTold.failures
      BY <3>4
    <3>14. v.is = "ok" => failures = 0 /\ (codeOp.do = "disable" => gate = "unsure")
      BY <3>4
    <3>15. gate = "on" => codeTold.gate = "on"
      OBVIOUS
    <3> HIDE DEF off, uses, gate, failures, granted
    <3>16. \A g \in granted : g[1] # 0
      BY <1>4, <2>4, <1>1 DEF C!Uses
    <3>17. CASE v.is # "ok"
      <4>1. res.new = checked /\ res.is \in {"limited", "failed"}
        BY <3>1, <3>3, <3>17
      <4>2. gate = "on" => checked.status = "enabled" /\ checked.state.failures >= failures
        BY <1>1, <1>3, <1>4, <3>1, <3>5, <3>13, <3>15, <3>17 DEF C!States
      <4>3. codeOp' = [codeOp EXCEPT !.at = "create", !.code = C!Wrong, !.new = checked, !.is = res.is, !.uses = C!NoCode]
        BY <2>1, <3>12, <3>17, <4>1
      <4>4. res.is # "ok"
        BY <4>1
      <4>5. Decided(checked, res.is, C!NoCode, gate, failures, granted)
        BY <4>3, <4>4, <1>1, <2>1, <2>4, <3>2, <3>5, <3>7, <3>8, <3>9, <4>1, <4>2 DEF Decided
      <4> QED
        BY <4>5, CodeDecided
    <3>18. CASE v.is = "ok" /\ codeOp.do = "disable"
      <4>1. res.new = off /\ res.is = "off" /\ r.secret # 0
        BY <3>2, <3>3, <3>18
      <4>2. codeOp' = [codeOp EXCEPT !.at = "create", !.code = C!Wrong, !.new = off, !.is = "off", !.uses = uses]
        BY <2>1, <4>1
      <4>3. Decided(off, "off", uses, gate, failures, granted)
        BY <4>2, <1>1, <2>1, <2>4, <2>5, <3>7, <3>11, <3>14, <3>16, <3>18, <4>1 DEF Decided
      <4> QED
        BY <4>3, CodeDecided
    <3>19. CASE v.is = "ok" /\ codeOp.do # "disable"
      <4> DEFINE new == IF codeOp.do = "confirm" THEN on ELSE checked
      <4>1. res.new = new /\ res.is = "ok"
        BY <3>3, <3>19
      <4>2. new.status = "enabled" /\ new.state = v.state /\ new.secret = r.secret
            /\ C!Sound(new.state) /\ new \in C!Files(secrets')
        BY <2>8, <3>2, <3>5, <3>6, <3>7, <3>8, <3>19
      <4>3. new.state.failures >= failures
        BY <3>1, <3>14, <3>19, <4>2 DEF C!States
      <4>4. uses[2] <= new.state.last
        BY <3>1, <3>11, <3>19, <4>2
      <4>5. codeOp' = [codeOp EXCEPT !.at = "create", !.code = C!Wrong, !.new = new, !.is = "ok", !.uses = uses]
        BY <2>1, <4>1
      <4> HIDE DEF new
      <4>6. Decided(new, "ok", uses, gate, failures, granted)
        BY <1>1, <2>1, <2>4, <3>2, <3>7, <3>8, <3>9, <3>11, <3>19, <4>2, <4>3, <4>4, <4>5 DEF Decided
      <4> QED
        BY <4>6, CodeDecided
    <3> QED
      BY <3>17, <3>18, <3>19
  <2> QED
    BY <2>2, <2>6, <2>7, <2>8
<1> QED
  BY <1>5, <1>6

(* The replacement takes its place, and the caller is told.                 *)
LEMMA CodePublished == ASSUME Units, C!IInv, codeOp.at = "replace", C!Published PROVE C!IInv'
<1>0. C!FilesOK /\ C!BooksKept /\ C!OperationOK /\ C!GateOK
  BY DEF C!IInv
<1> DEFINE new == codeOp.new
           gate == CASE codeOp.do = "confirm" /\ codeOp.is = "ok" -> "on"
                     [] codeOp.is = "off" -> "off"
                     [] OTHER -> codeTold.gate
           failures == IF codeOp.is = "failed" /\ codeOp.do = "verify" THEN new.state.failures
                       ELSE codeTold.failures
           granted == IF codeOp.uses = C!NoCode THEN codeTold.granted
                      ELSE codeTold.granted \cup {codeOp.uses}
<1>1. /\ codeOp' = C!Rest /\ canon' = new /\ temp' = C!Absent /\ UNCHANGED <<now, secrets>>
      /\ codeTold' = [gate |-> gate, failures |-> failures, granted |-> granted]
      /\ codeOp'.new = C!Absent /\ codeOp'.uses = C!NoCode /\ codeOp'.at = "rest"
  BY DEF C!Published, C!Rest
<1>2. /\ codeTold'.gate = gate /\ codeTold'.failures = failures /\ codeTold'.granted = granted
  BY <1>1
<1>3. \A f : C!Filed(f)' <=> C!Filed(f)
  BY <1>1 DEF C!Filed, C!Files
<1>4. C!Filed(new) /\ new.state \in C!States /\ C!Sound(new.state) /\ C!Filed(C!Absent)
  BY <1>0, EmptyFiled DEF C!FilesOK, C!Filed, C!Files
<1>5. C!FilesOK'
  BY <1>0, <1>1, <1>3, <1>4 DEF C!FilesOK
<1>6. C!BooksKept'
  <2>1. gate \in {"off", "on", "unsure"} /\ failures \in 0..MaxFailures /\ granted \subseteq C!Uses(secrets)
    BY <1>0, <1>4 DEF C!BooksKept, C!OperationOK, C!Sound, C!States, Units
  <2> HIDE DEF gate, failures
  <2>2. codeTold' \in [gate : {"off", "on", "unsure"}, failures : 0..MaxFailures,
                       granted : SUBSET C!Uses(secrets')]
    BY <1>1, <2>1
  <2>3. \A g \in granted : g[1] = new.secret => g[2] <= new.state.last
    BY <1>0 DEF C!BooksKept, C!OperationOK
  <2>4. \A g \in granted : g[1] # 0
    BY <1>0, <2>1 DEF C!Uses, C!FilesOK
  <2> HIDE DEF granted
  <2>5. \A f \in {new, C!Absent}, g \in granted : g[1] = f.secret => g[2] <= f.state.last
    BY <2>3, <2>4, RecordFields
  <2> QED
    BY <1>1, <1>2, <2>2, <2>5 DEF C!BooksKept
<1>7. C!OperationOK'
  <2>1. C!Absent \in C!Files(secrets') /\ C!Wrong \in Int
    BY <1>1, <1>4 DEF C!Filed, C!Wrong
  <2> QED
    BY <1>1, <2>1 DEF C!OperationOK, C!Rest
<1>8. C!GateOK'
  <2>1. C!Readable' = new /\ ~C!Publishing'
    BY <1>1, RecordFields DEF C!Readable, C!Publishing
  <2>2. ASSUME gate = "on" PROVE new.status = "enabled" /\ new.state.failures >= failures
    <3>1. C!Guards(new)
      BY <1>0, <2>2 DEF C!GateOK, C!Publishing
    <3> QED
      BY <1>4, <3>1 DEF C!Guards, C!States
  <2> HIDE DEF new, gate, failures
  <2> QED
    BY <1>2, <2>1, <2>2 DEF C!GateOK, C!Guards
<1> QED
  BY <1>5, <1>6, <1>7, <1>8 DEF C!IInv

(* A step of an operation that leaves what the user was told, and the       *)
(* record, alone.                                                           *)
LEMMA CodeWrites == ASSUME Units, C!IInv, C!Create \/ C!Flush PROVE C!IInv'
<1>0. C!FilesOK /\ C!BooksKept /\ C!OperationOK /\ C!GateOK
  BY DEF C!IInv
<1>1. PICK at \in {"write", "replace"} :
        /\ codeOp' = [codeOp EXCEPT !.at = at] /\ UNCHANGED <<now, canon, codeTold, secrets>>
        /\ temp' = (IF at = "write" THEN C!Torn ELSE codeOp.new)
  BY DEF C!Create, C!Flush
<1>2. /\ C!Publishing /\ codeOp # C!Rest /\ codeOp.at # "read"
      /\ codeOp.new.status \in {"disabled", "pending", "enabled"}
      /\ ~C!IsRecord(temp)
  <2>1. codeOp.at \in {"create", "write"}
    BY DEF C!Create, C!Flush
  <2>2. codeOp # C!Rest /\ C!Publishing
    BY <2>1 DEF C!Rest, C!Publishing
  <2>3. temp \in {C!Absent, C!Torn} /\ codeOp.new.status \in {"disabled", "pending", "enabled"}
    BY <1>0, <2>1, <2>2 DEF C!OperationOK
  <2> QED
    BY <2>1, <2>2, <2>3 DEF C!IsRecord
<1>3. /\ codeOp'.at = at /\ codeOp'.new = codeOp.new /\ codeOp'.uses = codeOp.uses
      /\ codeOp'.do = codeOp.do /\ codeOp'.is = codeOp.is
  BY <1>0, <1>1 DEF C!OperationOK
<1>4. \A f : C!Filed(f)' <=> C!Filed(f)
  BY <1>1 DEF C!Filed, C!Files
<1>5. C!Filed(C!Torn) /\ \A g \in codeTold.granted : g[1] # 0
  BY <1>0, EmptyFiled DEF C!FilesOK, C!BooksKept, C!Uses
<1>6. C!FilesOK'
  BY <1>0, <1>1, <1>3, <1>4, <1>5 DEF C!FilesOK
<1>7. C!BooksKept'
  <2>1. \A f \in {canon, C!Torn, codeOp.new}, g \in codeTold.granted :
          g[1] = f.secret => g[2] <= f.state.last
    BY <1>0, <1>5, RecordFields DEF C!BooksKept
  <2> QED
    BY <1>0, <1>1, <1>3, <2>1 DEF C!BooksKept, C!Uses
<1>8. C!OperationOK'
  <2>1. codeOp' \in [at : {"rest", "read", "create", "write", "replace"},
             do : {"none", "status", "begin", "cancel", "confirm", "verify", "disable"},
             code : Int, new : C!Files(secrets), is : {"none", "begun", "ok", "off", "limited", "failed"},
             uses : C!Uses(secrets) \cup {C!NoCode}]
    BY <1>0, <1>1 DEF C!OperationOK
  <2>2. C!Publishing'
    BY <1>3 DEF C!Publishing
  <2>3. codeOp.uses # C!NoCode =>
          /\ codeOp.uses \notin codeTold.granted
          /\ codeOp.uses[1] = codeOp.new.secret => codeOp.uses[2] <= codeOp.new.state.last
    BY <1>0 DEF C!OperationOK
  <2>4. temp' = CASE at = "create" -> C!Absent [] at = "write" -> C!Torn [] at = "replace" -> codeOp.new
    BY <1>1
  <2> QED
    BY <1>1, <1>2, <1>3, <2>1, <2>2, <2>3, <2>4 DEF C!OperationOK
<1>9. C!GateOK'
  <2>1. C!Readable' \in {canon, codeOp.new}
    BY <1>1, RecordFields DEF C!Readable
  <2>2. \A f : C!Guards(f)' <=> C!Guards(f)
    BY <1>1 DEF C!Guards
  <2> QED
    BY <1>0, <1>1, <1>2, <1>3, <2>1, <2>2 DEF C!GateOK
<1> QED
  BY <1>6, <1>7, <1>8, <1>9 DEF C!IInv

LEMMA CodeStart ==
  ASSUME Units, C!IInv, NEW do \in {"status", "begin", "cancel", "confirm", "verify", "disable"},
         NEW code \in C!Codes, C!Start(do, code)
  PROVE  C!IInv'
<1>0. C!FilesOK /\ C!BooksKept /\ C!OperationOK /\ C!GateOK
  BY DEF C!IInv
<1>1. /\ codeOp' = [C!Rest EXCEPT !.at = "read", !.do = do, !.code = code]
      /\ UNCHANGED <<now, canon, temp, codeTold, secrets>> /\ codeOp = C!Rest
  BY DEF C!Start
<1>2. /\ codeOp'.at = "read" /\ codeOp'.do = do /\ codeOp'.code = code
      /\ codeOp'.new = codeOp.new /\ codeOp'.uses = C!NoCode
  BY <1>1 DEF C!Rest
<1>3. \A f : C!Filed(f)' <=> C!Filed(f)
  BY <1>1 DEF C!Filed, C!Files
<1>4. C!FilesOK'
  BY <1>0, <1>1, <1>2, <1>3 DEF C!FilesOK
<1>5. C!BooksKept'
  BY <1>0, <1>1, <1>2 DEF C!BooksKept, C!Uses
<1>6. C!OperationOK'
  <2>1. code \in Int
    <3>1. C!StepAt(now) \in Nat
      BY <1>0, StepIsNat DEF C!FilesOK
    <3> QED
      BY <3>1 DEF C!Codes, C!Wrong, C!Most
  <2>2. C!Codes' = C!Codes
    BY <1>1 DEF C!Codes, C!StepAt
  <2>3. codeOp' \in [at : {"rest", "read", "create", "write", "replace"},
             do : {"none", "status", "begin", "cancel", "confirm", "verify", "disable"},
             code : Int, new : C!Files(secrets), is : {"none", "begun", "ok", "off", "limited", "failed"},
             uses : C!Uses(secrets) \cup {C!NoCode}]
    BY <1>0, <1>1, <2>1 DEF C!OperationOK
  <2> QED
    BY <1>1, <1>2, <2>2, <2>3 DEF C!OperationOK
<1>7. C!GateOK'
  <2>1. ~C!Publishing'
    BY <1>2 DEF C!Publishing
  <2>2. C!Guards(C!Readable)' <=> C!Guards(C!Readable)
    BY <1>1 DEF C!Guards, C!Readable
  <2> QED
    BY <1>0, <1>1, <2>1, <2>2 DEF C!GateOK
<1> QED
  BY <1>4, <1>5, <1>6, <1>7 DEF C!IInv

LEMMA CodeRecover == ASSUME Units, C!IInv, C!Recover PROVE C!IInv'
<1>0. C!FilesOK /\ C!BooksKept /\ C!OperationOK /\ C!GateOK
  BY DEF C!IInv
<1>1. /\ codeOp.at = "read" /\ canon' = C!Readable /\ temp' = C!Absent
      /\ UNCHANGED <<now, codeOp, codeTold, secrets>>
  BY DEF C!Recover, C!Readable
<1>2. C!Readable \in {canon, temp} /\ C!Readable' = C!Readable
  BY <1>1, RecordFields DEF C!Readable
<1>3. \A f : C!Filed(f)' <=> C!Filed(f)
  BY <1>1 DEF C!Filed, C!Files
<1>4. C!Filed(C!Absent) /\ \A g \in codeTold.granted : g[1] # 0
  BY <1>0, EmptyFiled DEF C!FilesOK, C!BooksKept, C!Uses
<1>5. C!FilesOK'
  BY <1>0, <1>1, <1>2, <1>3, <1>4 DEF C!FilesOK
<1>6. C!BooksKept'
  <2>1. \A f \in {canon, temp, C!Absent, codeOp.new}, g \in codeTold.granted :
          g[1] = f.secret => g[2] <= f.state.last
    BY <1>0, <1>4, RecordFields DEF C!BooksKept
  <2> QED
    BY <1>0, <1>1, <1>2, <2>1 DEF C!BooksKept, C!Uses
<1>7. C!OperationOK'
  <2>1. codeOp.do # "none" /\ codeOp.uses = C!NoCode /\ codeOp.code \in C!Codes
    BY <1>0, <1>1 DEF C!OperationOK, C!Rest, C!Publishing
  <2>2. C!Codes' = C!Codes
    BY <1>1 DEF C!Codes, C!StepAt
  <2> QED
    BY <1>0, <1>1, <2>1, <2>2 DEF C!OperationOK
<1>8. C!GateOK'
  <2>1. ~C!Publishing'
    BY <1>1 DEF C!Publishing
  <2> QED
    BY <1>0, <1>1, <1>2, <2>1 DEF C!GateOK, C!Guards
<1> QED
  BY <1>5, <1>6, <1>7, <1>8 DEF C!IInv

(* A fault leaves a record to read that is the one before, or the           *)
(* replacement.                                                             *)
LEMMA CodeFails ==
  ASSUME Units, C!IInv, C!RecoverFails \/ C!WriteFails \/ C!ReplaceFails \/ C!Crash
  PROVE  C!IInv'
<1>0. C!FilesOK /\ C!BooksKept /\ C!OperationOK /\ C!GateOK
  BY DEF C!IInv
<1>1. CASE C!ReplaceFails /\ C!Published
  BY <1>1, CodePublished DEF C!ReplaceFails
<1>2. ASSUME NEW canonical, NEW temporary, C!Ends(canonical, temporary),
             {canonical, temporary} \subseteq {canon, temp, codeOp.new, C!Absent, C!Torn},
             codeTold.gate = "on" => C!Guards(IF C!IsRecord(temporary) THEN temporary ELSE canonical)
      PROVE  C!IInv'
  <2>1. /\ codeOp' = C!Rest /\ canon' = canonical /\ temp' = temporary
        /\ UNCHANGED <<now, codeTold, secrets>> /\ now' \in Nat
    BY <1>0, <1>2 DEF C!Ends, C!FilesOK
  <2>2. codeTold.gate = "on" => C!Guards(C!Readable)'
    BY <1>2, <2>1 DEF C!Readable, C!Guards, C!IsRecord
  <2> QED
    BY <1>2, <2>1, <2>2, CodeRests
<1>3. codeTold.gate = "on" => C!Guards(IF C!IsRecord(temp) THEN temp ELSE canon)
  BY <1>0 DEF C!GateOK, C!Readable
<1>4. CASE C!RecoverFails
  <2>1. PICK canonical \in {canon} \cup (IF C!IsRecord(temp) THEN {C!Absent} ELSE {}) : C!Ends(canonical, temp)
    BY <1>4 DEF C!RecoverFails
  <2>2. codeTold.gate = "on" => C!Guards(IF C!IsRecord(temp) THEN temp ELSE canonical)
    BY <1>3
  <2> QED
    BY <1>2, <2>1, <2>2
<1>5. CASE C!WriteFails
  <2>1. PICK temporary \in {C!Absent} \cup (IF codeOp.at = "write" THEN {C!Torn} ELSE {}) : C!Ends(canon, temporary)
    BY <1>5 DEF C!WriteFails
  <2>2. codeTold.gate = "on" => C!Guards(canon)
    BY <1>0, <1>5 DEF C!WriteFails, C!GateOK, C!Publishing
  <2>3. ~C!IsRecord(temporary)
    BY <2>1, RecordFields
  <2> QED
    BY <1>2, <2>1, <2>2, <2>3
<1>6. CASE C!Crash
  <2>1. C!Ends(canon, temp)
    BY <1>6 DEF C!Crash
  <2> QED
    BY <1>2, <1>3, <2>1
<1>7. CASE C!ReplaceFails /\ ~C!Published
  <2>1. codeTold.gate = "on" => C!Guards(canon) /\ C!Guards(codeOp.new)
    BY <1>0, <1>7 DEF C!ReplaceFails, C!GateOK, C!Publishing
  <2>2. temp = codeOp.new /\ C!IsRecord(temp)
    <3>1. codeOp # C!Rest /\ codeOp.at # "read"
      BY <1>7 DEF C!ReplaceFails, C!Rest
    <3>2. temp = codeOp.new /\ codeOp.new.status \in {"disabled", "pending", "enabled"}
      BY <1>0, <1>7, <3>1 DEF C!ReplaceFails, C!OperationOK
    <3> QED
      BY <3>2, RecordFields DEF C!IsRecord
  <2>3. CASE \E temporary \in {C!Absent, temp} : C!Ends(canon, temporary)
    <3>1. PICK temporary \in {C!Absent, temp} : C!Ends(canon, temporary)
      BY <2>3
    <3>2. codeTold.gate = "on" => C!Guards(IF C!IsRecord(temporary) THEN temporary ELSE canon)
      <4>1. CASE temporary = C!Absent
        BY <2>1, <4>1, RecordFields
      <4>2. CASE temporary = temp
        BY <2>1, <2>2, <4>2
      <4> QED
        BY <3>1, <4>1, <4>2
    <3> QED
      BY <1>2, <3>1, <3>2
  <2>4. CASE C!Ends(C!Absent, temp)
    <3>1. codeTold.gate = "on" => C!Guards(IF C!IsRecord(temp) THEN temp ELSE C!Absent)
      BY <2>1, <2>2
    <3> QED
      BY <1>2, <2>4, <3>1
  <2> QED
    BY <1>7, <2>3, <2>4 DEF C!ReplaceFails, C!AfterFailedReplace
<1> QED
  BY <1>1, <1>4, <1>5, <1>6, <1>7

LEMMA CodeClock == ASSUME Units, C!IInv, C!Tick \/ C!PutBack PROVE C!IInv'
<1>1. /\ codeOp' = C!Rest /\ UNCHANGED <<canon, temp, codeTold, secrets>> /\ now' \in Nat
  BY DEF C!Tick, C!PutBack, C!IInv, C!FilesOK
<1>2. codeTold.gate = "on" => C!Guards(C!Readable)'
  BY <1>1 DEF C!IInv, C!GateOK, C!Guards, C!Readable
<1> QED
  BY <1>1, <1>2, CodeRests

LEMMA CodeNext == Units /\ C!IInv /\ [C!Next]_C!vars => C!IInv'
<1> SUFFICES ASSUME Units, C!IInv, [C!Next]_C!vars PROVE C!IInv'
  OBVIOUS
<1>1. CASE \E do \in {"status", "begin", "cancel"} : C!Start(do, C!Wrong)
  <2>1. C!Wrong \in C!Codes
    BY DEF C!Codes
  <2> QED
    BY <1>1, <2>1, CodeStart
<1>2. CASE \E do \in {"confirm", "verify", "disable"}, code \in C!Codes : C!Start(do, code)
  BY <1>2, CodeStart
<1>3. CASE C!Replace
  BY <1>3, CodePublished DEF C!Replace
<1>4. CASE UNCHANGED C!vars
  BY <1>4 DEF C!vars, C!IInv, C!FilesOK, C!BooksKept, C!OperationOK, C!GateOK, C!Guards, C!Readable,
              C!Filed, C!Files, C!Uses, C!Codes, C!StepAt, C!Publishing
<1> QED
  BY <1>1, <1>2, <1>3, <1>4, CodeRecover, CodeDecide, CodeWrites, CodeFails, CodeClock DEF C!Next

(* Replay protection: an operation is never about to tell its caller that a *)
(* code was accepted which an earlier caller was told was accepted.         *)
THEOREM CodeAcceptedOnce == C!Spec => []AcceptedOnce
<1> Units
  BY CodeAssumption DEF Units
<1>1. C!IInv => AcceptedOnce
  BY DEF C!IInv, C!OperationOK, C!AcceptedOnce, AcceptedOnce
<1>2. C!Init => C!IInv
  BY CodeInit
<1>3. C!IInv /\ [C!Next]_C!vars => C!IInv'
  BY CodeNext
<1> QED
  BY <1>1, <1>2, <1>3, PTL DEF C!Spec

(* A gate stays on, with a sound record and the failures told to the user,  *)
(* until a code has been accepted for switching it off.                     *)
THEOREM GateHolds == C!Spec => []GateStaysOn
<1> Units
  BY CodeAssumption DEF Units
<1>1. C!IInv => GateStaysOn
  <2> SUFFICES ASSUME C!IInv, codeTold.gate = "on" PROVE C!GateStaysOn
    BY DEF C!GateStaysOn, GateStaysOn
  <2>1. C!Guards(C!Readable) /\ C!Readable \in {canon, temp}
    BY DEF C!IInv, C!GateOK, C!Readable
  <2>2. C!Sound(C!Readable.state) /\ \A g \in codeTold.granted :
          g[1] = C!Readable.secret => g[2] <= C!Readable.state.last
    BY <2>1 DEF C!IInv, C!FilesOK, C!Filed, C!BooksKept
  <2> QED
    BY <2>1, <2>2 DEF C!Guards, C!GateStaysOn
<1>2. C!Init => C!IInv
  BY CodeInit
<1>3. C!IInv /\ [C!Next]_C!vars => C!IInv'
  BY CodeNext
<1> QED
  BY <1>1, <1>2, <1>3, PTL DEF C!Spec

-----------------------------------------------------------------------------
(* Saving and locking a vault.                                              *)

(* An optional value is nothing or one thing.                               *)
LEMMA OptionFacts ==
  ASSUME NEW S, NEW m \in W!Maybe(S), NEW x \in m
  PROVE  x \in S /\ m = {x}
BY DEF W!Maybe

LEMMA OptionMade ==
  ASSUME NEW S, NEW x \in S
  PROVE  {x} \in W!Maybe(S) /\ {} \in W!Maybe(S)
BY DEF W!Maybe

(* What a document and a mailbox are made of.                               *)
LEMMA DocumentFacts ==
  /\ \A d \in W!Documents : d.gen \in Nat /\ d.text \in Nat
  /\ W!Empty \in W!Documents /\ W!Empty.gen = 0 /\ W!Empty.text = 0
  /\ \A g \in Nat, t \in Nat : W!Doc(g, t) \in W!Documents /\ W!Doc(g, t).gen = g /\ W!Doc(g, t).text = t
  /\ \A d, e \in W!Documents : d.gen = e.gen /\ d.text = e.text => d = e
BY DEF W!Documents, W!Empty, W!Doc

LEMMA MailboxFacts ==
  ASSUME NEW m \in W!Mailbox
  PROVE  /\ m.at \in {"wait", "seal", "write", "gone"} /\ m.next \in W!Documents
         /\ m.pending \in W!Maybe(W!Documents) /\ m.latest \in W!Maybe(W!Documents)
         /\ m.last \in Nat /\ m.confirmed \in W!Documents
         /\ m.completion \in W!Maybe([gen : Nat, ok : BOOLEAN]) /\ m.failed \in BOOLEAN
         /\ m.closing \in BOOLEAN /\ m.cancelled \in BOOLEAN
         /\ \A x \in W!Work(m) : x \in W!Documents
         /\ \A c \in m.completion : c.gen \in Nat /\ c.ok \in BOOLEAN
         /\ \A x \in m.latest : x \in W!Documents
<1>1. /\ m.at \in {"wait", "seal", "write", "gone"} /\ m.next \in W!Documents
      /\ m.pending \in W!Maybe(W!Documents) /\ m.latest \in W!Maybe(W!Documents)
      /\ m.last \in Nat /\ m.confirmed \in W!Documents
      /\ m.completion \in W!Maybe([gen : Nat, ok : BOOLEAN]) /\ m.failed \in BOOLEAN
      /\ m.closing \in BOOLEAN /\ m.cancelled \in BOOLEAN
  BY DEF W!Mailbox
<1>2. \A x \in m.pending : x \in W!Documents
  BY <1>1, OptionFacts
<1>3. \A x \in m.latest : x \in W!Documents
  BY <1>1, OptionFacts
<1>4. \A c \in m.completion : c \in [gen : Nat, ok : BOOLEAN]
  BY <1>1 DEF W!Maybe
<1>5. \A x \in W!Work(m) : x \in W!Documents
  BY <1>1, <1>2 DEF W!Work
<1> QED
  BY <1>1, <1>3, <1>4, <1>5

LEMMA GoneFacts ==
  /\ W!Gone \in W!Mailbox /\ W!Gone.at = "gone" /\ W!Gone.confirmed = W!Empty /\ W!Gone.last = 0
  /\ W!Gone.completion = {} /\ W!Gone.latest = {} /\ W!Work(W!Gone) = {} /\ W!Gone.pending = {}
<1>1. /\ W!Gone.at = "gone" /\ W!Gone.confirmed = W!Empty /\ W!Gone.last = 0
      /\ W!Gone.completion = {} /\ W!Gone.latest = {} /\ W!Gone.pending = {}
  BY DEF W!Gone
<1>2. W!Work(W!Gone) = {}
  BY <1>1 DEF W!Work
<1>3. W!Gone \in W!Mailbox
  BY DocumentFacts DEF W!Gone, W!Mailbox, W!Maybe
<1> QED
  BY <1>1, <1>2, <1>3

LEMMA StartedFacts ==
  ASSUME NEW d \in W!Documents
  PROVE  /\ W!Started(d) \in W!Mailbox /\ W!Started(d).at = "wait" /\ W!Started(d).confirmed = d
         /\ W!Started(d).last = d.gen /\ W!Started(d).completion = {} /\ W!Started(d).latest = {}
         /\ W!Started(d).pending = {} /\ W!Work(W!Started(d)) = {} /\ ~W!Started(d).failed
         /\ ~W!Started(d).closing /\ ~W!Started(d).cancelled
<1>1. /\ W!Started(d).at = "wait" /\ W!Started(d).confirmed = d
      /\ W!Started(d).last = d.gen /\ W!Started(d).completion = {} /\ W!Started(d).latest = {}
      /\ W!Started(d).pending = {} /\ ~W!Started(d).failed
      /\ ~W!Started(d).closing /\ ~W!Started(d).cancelled
  BY DEF W!Started, W!Gone
<1>2. W!Work(W!Started(d)) = {}
  BY <1>1 DEF W!Work
<1>3. W!Started(d) \in W!Mailbox
  BY DocumentFacts DEF W!Started, W!Gone, W!Mailbox, W!Maybe
<1> QED
  BY <1>1, <1>2, <1>3

LEMMA PadFacts ==
  ASSUME W!Sane
  PROVE  /\ \A a \in Actors : actor[a] \in W!Mailbox
         /\ ui.at \in {"open", "locking", "locked"} /\ ui.typed \in Nat /\ ui.doc \in W!Documents
         /\ ui.latest \in Nat /\ ui.timer \in BOOLEAN /\ ui.blocked \in BOOLEAN
         /\ ui.frozen \in BOOLEAN /\ ui.conflict \in BOOLEAN /\ ui.saved \in BOOLEAN
         /\ ui.mask \in BOOLEAN /\ ui.recovery \in W!Maybe(W!Documents) /\ ui.base \in W!Maybe(W!Documents)
         /\ ui.actor \in Actors \cup {NoActor}
         /\ \A d \in ui.recovery : d \in W!Documents /\ ui.recovery = {d}
         /\ \A b \in ui.base : b \in W!Documents /\ ui.base = {b}
         /\ unlock.at \in {"none", "loaded", "read"} /\ unlock.doc \in W!Documents
         /\ unlock.probe \in {"none", "some", "unavailable"} /\ unlock.draft \in W!Maybe(W!Documents)
         /\ \A d \in unlock.draft : d \in W!Documents /\ unlock.draft = {d}
         /\ store.doc \in W!Documents /\ store.draft \in W!Maybe([base : W!Documents, next : W!Documents])
         /\ \A d \in store.draft : /\ d.base \in W!Documents /\ d.next \in W!Documents
                                    /\ store.draft = {d}
         /\ typed \in Nat /\ newest \in Nat
<1>1. /\ \A a \in Actors : actor[a] \in W!Mailbox
      /\ ui.at \in {"open", "locking", "locked"} /\ ui.typed \in Nat /\ ui.doc \in W!Documents
      /\ ui.latest \in Nat /\ ui.timer \in BOOLEAN /\ ui.blocked \in BOOLEAN
      /\ ui.frozen \in BOOLEAN /\ ui.conflict \in BOOLEAN /\ ui.saved \in BOOLEAN
      /\ ui.mask \in BOOLEAN /\ ui.recovery \in W!Maybe(W!Documents) /\ ui.base \in W!Maybe(W!Documents)
      /\ ui.actor \in Actors \cup {NoActor}
      /\ unlock.at \in {"none", "loaded", "read"} /\ unlock.doc \in W!Documents
      /\ unlock.probe \in {"none", "some", "unavailable"} /\ unlock.draft \in W!Maybe(W!Documents)
      /\ store.doc \in W!Documents /\ store.draft \in W!Maybe([base : W!Documents, next : W!Documents])
      /\ typed \in Nat /\ newest \in Nat
  BY DEF W!Sane
<1>2. \A d \in ui.recovery : d \in W!Documents /\ ui.recovery = {d}
  BY <1>1, OptionFacts
<1>3. \A b \in ui.base : b \in W!Documents /\ ui.base = {b}
  BY <1>1, OptionFacts
<1>4. \A d \in unlock.draft : d \in W!Documents /\ unlock.draft = {d}
  BY <1>1, OptionFacts
<1>5. \A d \in store.draft : d \in [base : W!Documents, next : W!Documents] /\ store.draft = {d}
  BY <1>1 DEF W!Maybe
<1> QED
  BY <1>1, <1>2, <1>3, <1>4, <1>5

(* A save thread's step that leaves the file alone.                         *)
Calmer(a, m) ==
  /\ actor[a].at # "gone" /\ m \in W!Mailbox /\ W!MailboxOK(m) /\ W!Work(m) \subseteq W!Work(actor[a])
  /\ m.at = "write" => m.next = actor[a].next /\ m.confirmed = actor[a].confirmed
                       /\ (actor[a].at = "write" \/ (actor[a].at = "seal" /\ ~actor[a].cancelled))
  /\ a # ui.actor => m.at = "gone" \/ m.cancelled = actor[a].cancelled
  /\ a = ui.actor =>
       /\ m.last = actor[a].last /\ m.closing = actor[a].closing /\ m.confirmed = actor[a].confirmed
       /\ m.latest = actor[a].latest /\ (actor[a].failed => m.failed)
       /\ m.completion = actor[a].completion \/ W!Work(actor[a]) # {}

LEMMA QuietStep ==
  ASSUME W!IInv, NEW a \in Actors, NEW m, Calmer(a, m),
         actor' = [actor EXCEPT ![a] = m],
         UNCHANGED <<ui, unlock, store, typed, newest, ends>>
  PROVE  W!IInv'
<1> USE DEF W!IInv
<1>1. actor \in [Actors -> W!Mailbox]
  BY DEF W!Sane
<1>2. actor'[a] = m /\ \A b \in Actors : b # a => actor'[b] = actor[b]
  BY <1>1
<1>3. actor' \in [Actors -> W!Mailbox]
  BY <1>1 DEF Calmer
<1>4. a # ui.actor => (W!Able(a)' => W!Able(a))
  BY <1>2 DEF W!LeftBehind, W!Able, Calmer
<1>5. \A b \in Actors : W!Work(actor'[b]) \subseteq W!Work(actor[b])
  BY <1>2 DEF Calmer
<1>6. W!Sane'
  BY <1>3 DEF W!Sane
<1>7. W!StoreOK'
  BY DEF W!StoreOK
<1>8. \A b \in Actors : W!MailboxOK(actor[b])'
  BY <1>2 DEF W!MailboxOK, Calmer
<1>9. W!LeftBehind'
  <2> SUFFICES ASSUME NEW b \in Actors \ {ui.actor}
      PROVE  /\ actor'[b].at = "gone" \/ actor'[b].cancelled
             /\ W!Able(b)' => IF ui.at = "locked" THEN \E d \in ui.recovery : actor'[b].next.gen <= d.gen
                                                  ELSE actor'[b].next.gen <= ui.doc.gen
    BY DEF W!LeftBehind
  <2>1. CASE b = a
    BY <2>1, <1>2, <1>4 DEF W!LeftBehind, Calmer, W!Able
  <2>2. CASE b # a
    BY <2>2, <1>2 DEF W!LeftBehind, W!Able
  <2> QED
    BY <2>1, <2>2
<1>10. W!WindowOK'
  BY DEF W!WindowOK
<1>11. (ui.at # "locked" /\ ui.actor # NoActor => W!ServedBy(actor[ui.actor]))'
  <2>1. CASE ui.actor = a
    BY <2>1, <1>2 DEF W!ServedBy, Calmer
  <2>2. CASE ui.actor # a
    BY <2>2, <1>2, PadFacts DEF W!ServedBy
  <2> QED
    BY <2>1, <2>2
<1>12. ui.at = "locked" => (W!NoneAble => W!NoneAble')
  BY <1>2, <1>4, SaverAssumption DEF W!NoneAble, W!LockedOK, W!Able
<1>13. W!SavedOK'
  <2>1. CASE ui.at = "locked"
    BY <2>1, <1>12 DEF W!SavedOK
  <2>2. CASE ui.at # "locked"
    BY <2>2, <1>2, PadFacts DEF W!SavedOK, Calmer
  <2> QED
    BY <2>1, <2>2
<1>14. W!UnlockOK'
  BY DEF W!UnlockOK
<1>15. W!LockedOK'
  BY DEF W!LockedOK
<1>16. W!Drafted => W!Drafted'
  BY <1>5 DEF W!Drafted, W!Rests
<1>17. W!Found'
  <2>1. CASE ui.at = "locked"
    BY <2>1, <1>12, <1>16 DEF W!Found, W!Stored, W!Rests
  <2>2. CASE ui.at # "locked" /\ ui.doc.text = newest
    BY <2>2 DEF W!Found
  <2>3. CASE ui.at # "locked" /\ ui.doc.text # newest
    <3>1. /\ ui.frozen /\ (W!Stored \/ W!Drafted)
          /\ ui.actor # NoActor => W!Work(actor[ui.actor]) = {} /\ actor[ui.actor].completion = {}
      BY <2>3 DEF W!Found
    <3>2. a = ui.actor => ~W!Able(a)'
      BY <3>1, <1>2, <1>5, SaverAssumption DEF W!Work, W!Able
    <3>3. W!NoneAble => W!NoneAble'
      BY <3>2, <1>2, <1>4 DEF W!NoneAble, W!Able
    <3>4. W!Stored' \/ W!Drafted'
      BY <3>1, <3>3, <1>16 DEF W!Stored, W!Rests
    <3>5. ui.actor # NoActor => W!Work(actor'[ui.actor]) = {} /\ actor'[ui.actor].completion = {}
      BY <3>1, <1>2, <1>5, PadFacts DEF Calmer
    <3> QED
      BY <3>1, <3>4, <3>5 DEF W!Found
  <2> QED
    BY <2>1, <2>2, <2>3
<1> QED
  BY <1>6, <1>7, <1>8, <1>9, <1>10, <1>11, <1>13, <1>14, <1>15, <1>17

LEMMA ThreadTakes ==
  ASSUME W!IInv, NEW a \in Actors, W!Take(a), UNCHANGED <<ui, unlock, typed, newest, ends>>
  PROVE  W!IInv'
<1> DEFINE m == actor[a]
<1>0. m \in W!Mailbox /\ W!MailboxOK(m) /\ actor \in [Actors -> W!Mailbox]
  BY DEF W!IInv, W!Sane
<1>1. PICK x \in m.pending :
        actor' = [actor EXCEPT ![a].at = "seal", ![a].next = x, ![a].pending = {}]
  BY DEF W!Take
<1> DEFINE n == [m EXCEPT !.at = "seal", !.next = x, !.pending = {}]
<1>2. actor' = [actor EXCEPT ![a] = n]
  BY <1>0, <1>1
<1>3. m.at = "wait" /\ ~m.failed /\ m.pending = {x} /\ x \in W!Documents
  BY <1>0, MailboxFacts, OptionFacts DEF W!Take
<1>4. n \in W!Mailbox /\ n.at = "seal" /\ n.next = x /\ n.pending = {} /\ n.last = m.last
      /\ n.confirmed = m.confirmed /\ n.latest = m.latest /\ n.completion = m.completion
      /\ n.failed = m.failed /\ n.closing = m.closing /\ n.cancelled = m.cancelled
  BY <1>0, <1>3, OptionMade DEF W!Mailbox
<1> HIDE DEF n
<1>5. W!Work(n) = {x} /\ W!Work(m) = {x}
  BY <1>3, <1>4 DEF W!Work
<1>6. W!MailboxOK(n)
  BY <1>0, <1>3, <1>4, <1>5, MailboxFacts DEF W!MailboxOK
<1>7. Calmer(a, n)
  BY <1>3, <1>4, <1>5, <1>6 DEF Calmer
<1> QED
  BY <1>2, <1>7, QuietStep DEF W!Take

LEMMA ThreadLeaves ==
  ASSUME W!IInv, NEW a \in Actors, W!Leave(a), UNCHANGED <<ui, unlock, typed, newest, ends>>
  PROVE  W!IInv'
<1> DEFINE m == actor[a]
           n == IF ui.actor = a THEN [m EXCEPT !.at = "gone"] ELSE W!Gone
<1>0. m \in W!Mailbox /\ W!MailboxOK(m) /\ actor \in [Actors -> W!Mailbox]
  BY DEF W!IInv, W!Sane
<1>1. actor' = [actor EXCEPT ![a] = n]
  BY <1>0 DEF W!Leave
<1>2. n \in W!Mailbox /\ n.at = "gone" /\ W!Work(n) \subseteq W!Work(m) /\ W!MailboxOK(n)
  <2>1. CASE ui.actor = a
    <3>1. /\ n \in W!Mailbox /\ n.at = "gone" /\ n.pending = m.pending /\ n.last = m.last
          /\ n.confirmed = m.confirmed /\ n.latest = m.latest /\ n.completion = m.completion
          /\ n.failed = m.failed
      BY <2>1, <1>0 DEF W!Mailbox
    <3> HIDE DEF n
    <3>2. W!Work(n) \subseteq W!Work(m)
      BY <3>1 DEF W!Work
    <3> QED
      BY <3>1, <3>2, <1>0 DEF W!MailboxOK
  <2>2. CASE ui.actor # a
    <3>1. n = W!Gone
      BY <2>2
    <3> HIDE DEF n
    <3>2. W!MailboxOK(W!Gone)
      BY GoneFacts, DocumentFacts, PadFacts DEF W!MailboxOK, W!IInv
    <3> QED
      BY <3>1, <3>2, GoneFacts
  <2> QED
    BY <2>1, <2>2
<1>3. a = ui.actor =>
       /\ n.last = m.last /\ n.closing = m.closing /\ n.confirmed = m.confirmed
       /\ n.latest = m.latest /\ n.failed = m.failed /\ n.completion = m.completion
  BY <1>0 DEF W!Mailbox
<1> HIDE DEF n
<1>4. Calmer(a, n)
  BY <1>2, <1>3 DEF Calmer, W!Leave
<1> QED
  BY <1>1, <1>4, QuietStep DEF W!Leave

(* The mailbox after a write that failed, or was not begun.                 *)
LEMMA FailedStep ==
  ASSUME W!IInv, NEW a \in Actors, actor[a].at \in {"seal", "write"}, W!Completed(a, FALSE),
         UNCHANGED <<ui, unlock, store, typed, newest, ends>>
  PROVE  W!IInv'
<1> DEFINE m == actor[a]
           Report == {[gen |-> m.next.gen, ok |-> FALSE]}
           n == [m EXCEPT !.at = "wait", !.failed = TRUE, !.next = W!Empty, !.completion = Report]
<1>0. m \in W!Mailbox /\ W!MailboxOK(m) /\ actor \in [Actors -> W!Mailbox]
  BY DEF W!IInv, W!Sane
<1>1. actor' = [actor EXCEPT ![a] = n]
  BY <1>0 DEF W!Completed, W!Mailbox
<1>6. Report \in W!Maybe([gen : Nat, ok : BOOLEAN])
  BY <1>0, MailboxFacts, DocumentFacts DEF W!Maybe
<1> HIDE DEF Report
<1>2. n \in W!Mailbox /\ n.at = "wait" /\ n.pending = m.pending /\ n.last = m.last
      /\ n.confirmed = m.confirmed /\ n.latest = m.latest /\ n.failed
      /\ n.completion = Report /\ n.closing = m.closing /\ n.cancelled = m.cancelled
  BY <1>0, <1>6, DocumentFacts DEF W!Mailbox
<1> HIDE DEF n
<1>3. W!Work(n) \subseteq W!Work(m) /\ W!Work(m) # {}
  BY <1>2 DEF W!Work
<1>4. W!MailboxOK(n)
  BY <1>0, <1>2, <1>3, MailboxFacts DEF W!MailboxOK, Report
<1>5. Calmer(a, n)
  BY <1>2, <1>3, <1>4 DEF Calmer
<1> QED
  BY <1>1, <1>5, QuietStep DEF Report

LEMMA ThreadSeals ==
  ASSUME W!IInv, NEW a \in Actors, W!Seal(a), UNCHANGED <<ui, unlock, typed, newest, ends>>
  PROVE  W!IInv'
<1> DEFINE m == actor[a]
           n == [m EXCEPT !.at = "write"]
<1>0. m \in W!Mailbox /\ W!MailboxOK(m) /\ actor \in [Actors -> W!Mailbox]
  BY DEF W!IInv, W!Sane
<1>1. CASE ~m.cancelled /\ actor' = [actor EXCEPT ![a].at = "write"]
  <2>1. actor' = [actor EXCEPT ![a] = n]
    BY <1>0, <1>1
  <2>2. n \in W!Mailbox /\ n.at = "write" /\ n.next = m.next /\ n.pending = m.pending
        /\ n.last = m.last /\ n.confirmed = m.confirmed /\ n.latest = m.latest
        /\ n.completion = m.completion
        /\ n.failed = m.failed /\ n.closing = m.closing /\ n.cancelled = m.cancelled
    BY <1>0 DEF W!Mailbox
  <2> HIDE DEF n
  <2>3. W!Work(n) = W!Work(m)
    BY <2>2 DEF W!Work, W!Seal
  <2>4. W!MailboxOK(n)
    BY <1>0, <2>2, <2>3 DEF W!MailboxOK, W!Seal
  <2>5. Calmer(a, n)
    BY <1>1, <2>2, <2>3, <2>4 DEF Calmer, W!Seal
  <2> QED
    BY <2>1, <2>5, QuietStep DEF W!Seal
<1>2. CASE W!Completed(a, FALSE)
  BY <1>2, FailedStep DEF W!Seal
<1> QED
  BY <1>1, <1>2 DEF W!Seal

(* The file is replaced, or a draft is left, by the one thread that can.    *)
Wrote(a, n, ok) ==
  LET m == actor[a]
  IN  /\ m.at = "write" /\ m.confirmed = store.doc /\ m.confirmed.gen < m.next.gen
      /\ n \in W!Mailbox /\ n.at = "wait" /\ n.pending = m.pending /\ n.last = m.last
      /\ n.latest = m.latest /\ n.closing = m.closing /\ n.cancelled = m.cancelled
      /\ n.failed = ~ok /\ n.completion = {[gen |-> m.next.gen, ok |-> ok]}
      /\ n.confirmed = IF ok THEN m.next ELSE m.confirmed
      /\ ok \in BOOLEAN /\ store'.doc \in {store.doc, m.next} /\ (ok => store'.doc = m.next)
      /\ store' \in [doc : W!Documents, draft : W!Maybe([base : W!Documents, next : W!Documents])]
      /\ W!StoreOK'

LEMMA WriteStep ==
  ASSUME W!IInv, NEW a \in Actors, NEW n, NEW ok, Wrote(a, n, ok),
         actor' = [actor EXCEPT ![a] = n], UNCHANGED <<ui, unlock, typed, newest, ends>>
  PROVE  W!IInv'
<1> DEFINE m == actor[a]
<1> USE DEF Wrote
<1>0. /\ actor \in [Actors -> W!Mailbox] /\ \A b \in Actors : W!MailboxOK(actor[b])
      /\ W!StoreOK /\ W!LeftBehind /\ W!WindowOK /\ W!SavedOK /\ W!UnlockOK /\ W!LockedOK /\ W!Found
      /\ (ui.at # "locked" /\ ui.actor # NoActor => W!ServedBy(actor[ui.actor]))
  BY DEF W!IInv, W!Sane
<1>1. actor'[a] = n /\ \A b \in Actors : b # a => actor'[b] = actor[b]
  BY <1>0
<1>2. /\ m.next \in W!Work(m) /\ W!Able(a) /\ m.next.gen <= m.last /\ m.next.text <= newest
      /\ m.next \in W!Documents /\ m.confirmed \in W!Documents /\ m.last \in Nat /\ ~m.failed
  BY <1>0, MailboxFacts DEF W!Work, W!Able, W!MailboxOK
<1>3. /\ store.doc.gen \in Nat /\ m.next.gen \in Nat /\ store.doc.gen < m.next.gen
      /\ store'.doc.gen \in Nat /\ store.doc.gen <= store'.doc.gen /\ store'.doc.gen <= m.next.gen
  BY <1>2, DocumentFacts
<1>4. ~W!NoneAble /\ ~W!Drafted /\ ~W!Stored
  BY <1>2 DEF W!NoneAble, W!Drafted, W!Stored
<1>5. IF ui.at = "locked" THEN \E d \in ui.recovery : m.next.gen <= d.gen /\ d.gen \in Nat /\ ui.recovery = {d}
                          ELSE m.next.gen <= ui.doc.gen /\ ui.doc.gen \in Nat
  <2>1. CASE a = ui.actor
    <3>1. ui.at # "locked" /\ ui.actor # NoActor
      BY <2>1, <1>0, SaverAssumption DEF W!LockedOK
    <3> QED
      BY <2>1, <3>1, <1>0, <1>2, <1>3, PadFacts, DocumentFacts DEF W!ServedBy, W!IInv
  <2>2. CASE a # ui.actor
    <3>1. IF ui.at = "locked" THEN \E d \in ui.recovery : m.next.gen <= d.gen
                              ELSE m.next.gen <= ui.doc.gen
      BY <2>2, <1>0, <1>2 DEF W!LeftBehind
    <3> QED
      BY <3>1, PadFacts, DocumentFacts DEF W!IInv
  <2> QED
    BY <2>1, <2>2
<1>6. IF ui.at = "locked" THEN \E d \in ui.recovery : d.text = newest ELSE ui.doc.text = newest
  BY <1>0, <1>4 DEF W!Found
<1>7. \A b \in Actors : b # a /\ W!Able(b)' => W!Able(b)
  <2> SUFFICES ASSUME NEW b \in Actors, b # a, W!Able(b)' PROVE W!Able(b)
    OBVIOUS
  <2>1. actor[b].at = "write" /\ actor[b].confirmed = store'.doc /\ actor[b].confirmed.gen <= store.doc.gen
    BY <1>0, <1>1 DEF W!Able, W!MailboxOK
  <2> QED
    BY <2>1, <1>3 DEF W!Able
<1>8. ~W!Able(a)'
  BY <1>1 DEF W!Able
<1>11. W!Sane'
  <2>1. actor' \in [Actors -> W!Mailbox]
    BY <1>0
  <2> QED
    BY <2>1 DEF W!Sane, W!IInv
<1>12. W!StoreOK'
  OBVIOUS
<1>13. \A b \in Actors : W!MailboxOK(actor[b])'
  <2>1. W!Work(n) = m.pending
    BY DEF W!Work
  <2>2. W!MailboxOK(m) /\ m \in W!Mailbox
    BY <1>0
  <2>3. W!MailboxOK(n)'
    BY <2>1, <2>2, <1>2, <1>3, MailboxFacts, DocumentFacts DEF W!MailboxOK, W!Work
  <2>4. ASSUME NEW b \in Actors, b # a PROVE W!MailboxOK(actor[b])'
    <3>1. actor[b].confirmed.gen <= store'.doc.gen
      <4>1. actor[b].confirmed.gen \in Nat /\ actor[b].confirmed.gen <= store.doc.gen
        BY <1>0, MailboxFacts, DocumentFacts DEF W!MailboxOK
      <4> QED
        BY <4>1, <1>3
    <3> QED
      BY <2>4, <3>1, <1>0, <1>1 DEF W!MailboxOK
  <2> QED
    BY <2>3, <2>4, <1>1 DEF W!MailboxOK
<1>14. W!LeftBehind'
  BY <1>0, <1>1, <1>7, <1>8 DEF W!LeftBehind
<1>15. W!WindowOK'
  BY <1>0, <1>3, <1>5 DEF W!WindowOK
<1>16. ASSUME ui.at # "locked", ui.actor # NoActor PROVE W!ServedBy(actor[ui.actor])'
  <2>0. W!ServedBy(actor[ui.actor]) /\ ui.actor \in Actors
    BY <1>0, <1>16, PadFacts DEF W!IInv
  <2>1. CASE ui.actor = a
    <3>1. ~ui.conflict /\ (ui.blocked => ui.frozen)
      BY <2>0, <2>1, <1>2 DEF W!ServedBy
    <3>2. W!Work(n) \subseteq W!Work(m)
      BY DEF W!Work
    <3>3. ui.doc.gen <= n.confirmed.gen => store'.doc = n.confirmed
      BY <1>2, <1>3, <1>5, <1>16
    <3>4. n.confirmed.text <= ui.doc.text
      BY <2>0, <2>1, <3>1, <1>2, <1>6, <1>16 DEF W!ServedBy
    <3>5. \A x \in W!Work(n) \cup {n.confirmed} : x.gen = ui.doc.gen => x = ui.doc
      BY <2>0, <2>1, <3>1, <3>2, <1>2 DEF W!ServedBy
    <3> QED
      BY <2>0, <2>1, <3>1, <3>3, <3>4, <3>5, <1>1 DEF W!ServedBy
  <2>2. CASE ui.actor # a
    <3>1. actor[ui.actor].confirmed.gen \in Nat /\ actor[ui.actor].confirmed.gen <= store.doc.gen
      BY <2>0, <1>0, MailboxFacts, DocumentFacts DEF W!MailboxOK
    <3>2. ~(ui.doc.gen <= actor[ui.actor].confirmed.gen)
      BY <3>1, <1>3, <1>5, <1>16
    <3> QED
      BY <2>0, <2>2, <3>2, <1>1 DEF W!ServedBy
  <2> QED
    BY <2>1, <2>2
<1>17. ~ui.saved
  <2>1. CASE ui.at = "locked"
    BY <2>1, <1>0, <1>4 DEF W!SavedOK
  <2>2. CASE ui.at # "locked"
    <3> SUFFICES ASSUME ui.saved PROVE FALSE
      OBVIOUS
    <3>1. ui.actor \in Actors /\ ui.doc = actor[ui.actor].confirmed
      BY <2>2, <1>0, PadFacts DEF W!SavedOK, W!IInv
    <3>2. ui.doc.gen <= store.doc.gen
      BY <3>1, <1>0 DEF W!MailboxOK
    <3> QED
      BY <3>2, <2>2, <1>3, <1>5
  <2> QED
    BY <2>1, <2>2
<1>18. W!SavedOK'
  BY <1>17 DEF W!SavedOK
<1>19. W!UnlockOK'
  <2> SUFFICES ASSUME unlock.at # "none" PROVE W!UnlockOK'
    BY DEF W!UnlockOK
  <2>1. ui.at = "locked" /\ unlock.doc.gen <= store.doc.gen /\ unlock.doc.gen \in Nat
    BY <1>0, PadFacts, DocumentFacts DEF W!UnlockOK, W!IInv
  <2>2. \E d \in ui.recovery : ~(d.gen <= unlock.doc.gen)
    BY <2>1, <1>3, <1>5
  <2>3. unlock.doc.gen <= store'.doc.gen
    BY <2>1, <1>3
  <2> QED
    BY <2>1, <2>2, <2>3, <1>0 DEF W!UnlockOK
<1>20. W!LockedOK'
  <2> SUFFICES ASSUME ui.at = "locked" PROVE W!LockedOK'
    BY DEF W!LockedOK
  <2>1. \A d \in ui.recovery : store'.doc.gen <= d.gen
    BY <1>3, <1>5
  <2> QED
    BY <2>1, <1>0 DEF W!LockedOK
<1>21. W!Found'
  BY <1>6 DEF W!Found
<1> QED
  BY <1>11, <1>12, <1>13, <1>14, <1>15, <1>16, <1>18, <1>19, <1>20, <1>21 DEF W!IInv

LEMMA ThreadWrites ==
  ASSUME W!IInv, NEW a \in Actors, W!Write(a), UNCHANGED <<ui, unlock, typed, newest, ends>>
  PROVE  W!IInv'
<1> DEFINE m == actor[a]
           draft == {[base |-> store.doc, next |-> m.next]}
<1>0. /\ m \in W!Mailbox /\ W!MailboxOK(m) /\ actor \in [Actors -> W!Mailbox] /\ W!StoreOK
      /\ store \in [doc : W!Documents, draft : W!Maybe([base : W!Documents, next : W!Documents])]
  BY DEF W!IInv, W!Sane
<1>1. m.at = "write" /\ m.next \in W!Work(m) /\ m.next \in W!Documents /\ store.doc \in W!Documents
  BY <1>0, MailboxFacts DEF W!Write, W!Work
<1>2. draft \in W!Maybe([base : W!Documents, next : W!Documents])
  BY <1>1 DEF W!Maybe
<1>3. CASE UNCHANGED store /\ W!Completed(a, FALSE)
  BY <1>1, <1>3, FailedStep
<1>4. ASSUME NEW ok \in BOOLEAN, W!Replaces(m.confirmed, m.next), W!Completed(a, ok), NEW s,
             store' = s, s.doc \in {store.doc, m.next}, ok => s = [doc |-> m.next, draft |-> {}],
             ~ok => s = [doc |-> s.doc, draft |-> draft]
      PROVE  W!IInv'
  <2> DEFINE D == {[gen |-> m.next.gen, ok |-> ok]}
             n == [m EXCEPT !.at = "wait", !.failed = ~ok, !.next = W!Empty, !.completion = D,
                            !.confirmed = IF ok THEN m.next ELSE @]
  <2>1. D \in W!Maybe([gen : Nat, ok : BOOLEAN])
    BY <1>1, <1>4, DocumentFacts DEF W!Maybe
  <2>2. actor' = [actor EXCEPT ![a] = n]
    BY <1>0, <1>4 DEF W!Completed, W!Mailbox
  <2> HIDE DEF D
  <2>3. /\ n \in W!Mailbox /\ n.at = "wait" /\ n.pending = m.pending /\ n.last = m.last
        /\ n.latest = m.latest /\ n.closing = m.closing /\ n.cancelled = m.cancelled
        /\ n.failed = ~ok /\ n.completion = D
        /\ n.confirmed = IF ok THEN m.next ELSE m.confirmed
    BY <1>0, <1>1, <1>4, <2>1, DocumentFacts DEF W!Mailbox
  <2> HIDE DEF n
  <2>4. /\ m.confirmed = store.doc /\ store.doc.gen < m.next.gen
        /\ store.doc.text <= m.next.text /\ m.next.text <= newest
    BY <1>0, <1>1, <1>4, DocumentFacts DEF W!Replaces, W!MailboxOK
  <2>5. s \in [doc : W!Documents, draft : W!Maybe([base : W!Documents, next : W!Documents])]
    BY <1>0, <1>1, <1>2, <1>4 DEF W!Maybe
  <2>6. W!StoreOK'
    BY <1>0, <1>1, <1>4, <2>4 DEF W!StoreOK, W!Write
  <2>7. Wrote(a, n, ok)
    BY <1>1, <1>4, <2>3, <2>4, <2>5, <2>6 DEF Wrote, D
  <2> QED
    BY <2>2, <2>7, WriteStep
<1>5. CASE /\ W!Replaces(m.confirmed, m.next) /\ W!Completed(a, TRUE)
           /\ store' = [doc |-> m.next, draft |-> {}]
  BY <1>5, <1>4
<1>6. CASE /\ W!Replaces(m.confirmed, m.next) /\ W!Completed(a, FALSE)
           /\ store' \in {[store EXCEPT !.draft = draft], [doc |-> m.next, draft |-> draft]}
  <2>1. store' = [doc |-> store'.doc, draft |-> draft] /\ store'.doc \in {store.doc, m.next}
    BY <1>0, <1>6
  <2> QED
    BY <2>1, <1>6, <1>4
<1> QED
  BY <1>3, <1>5, <1>6 DEF W!Write

LEMMA ThreadSteps ==
  ASSUME W!IInv, NEW a \in Actors, W!Thread(a)
  PROVE  W!IInv'
BY ThreadTakes, ThreadLeaves, ThreadSeals, ThreadWrites DEF W!Thread

(* A step of the open window: the other parts only see that the newest edit *)
(* and the document on the screen get newer.                                *)
Onward ==
  /\ ui.at # "locked" /\ ui'.at # "locked" /\ ui'.actor = ui.actor
  /\ ui'.doc \in W!Documents /\ ui.doc.gen <= ui'.doc.gen
  /\ newest' \in Nat /\ newest <= newest' /\ UNCHANGED <<unlock, store>>
  /\ \A b \in Actors : b # ui.actor => actor'[b] = actor[b]
  /\ ui.actor \in Actors =>
       LET m == actor[ui.actor] n == actor'[ui.actor]
       IN  W!MailboxOK(actor[ui.actor])' /\ n.at = m.at /\ n.next = m.next /\ n.confirmed = m.confirmed

LEMMA OnwardStep ==
  ASSUME W!IInv, Onward
  PROVE  W!StoreOK' /\ (\A b \in Actors : W!MailboxOK(actor[b])') /\ W!LeftBehind' /\ W!UnlockOK' /\ W!LockedOK'
<1> USE DEF Onward
<1>0. /\ \A b \in Actors : W!MailboxOK(actor[b]) /\ actor[b] \in W!Mailbox
      /\ W!StoreOK /\ W!LeftBehind /\ W!UnlockOK /\ newest \in Nat /\ newest' \in Nat /\ newest <= newest'
      /\ ui.doc.gen \in Nat /\ ui'.doc.gen \in Nat
  BY PadFacts, DocumentFacts DEF W!IInv
<1>1. W!StoreOK'
  <2>1. store.doc.text <= newest'
    BY <1>0, PadFacts, DocumentFacts DEF W!StoreOK, W!IInv
  <2>2. ASSUME NEW d \in store.draft PROVE d.next.text <= newest'
    BY <1>0, PadFacts, DocumentFacts DEF W!StoreOK, W!IInv
  <2> QED
    BY <2>1, <2>2, <1>0 DEF W!StoreOK
<1>2. ASSUME NEW b \in Actors PROVE W!MailboxOK(actor[b])'
  <2>1. CASE b = ui.actor
    BY <2>1 DEF W!MailboxOK
  <2>2. CASE b # ui.actor
    <3>1. W!MailboxOK(actor[b]) /\ actor[b] \in W!Mailbox /\ actor'[b] = actor[b]
      BY <1>0, <2>2
    <3>2. actor[b].confirmed.text <= newest'
      BY <3>1, <1>0, MailboxFacts, DocumentFacts DEF W!MailboxOK
    <3>3. \A x \in W!Work(actor[b]) : x.text <= newest'
      <4> SUFFICES ASSUME NEW x \in W!Work(actor[b]) PROVE x.text <= newest'
        OBVIOUS
      <4>1. x.text \in Nat /\ x.text <= newest
        BY <3>1, MailboxFacts, DocumentFacts DEF W!MailboxOK
      <4> QED
        BY <4>1, <1>0
    <3> QED
      BY <3>1, <3>2, <3>3 DEF W!MailboxOK
  <2> QED
    BY <2>1, <2>2
<1>3. W!LeftBehind'
  <2> SUFFICES ASSUME NEW b \in Actors \ {ui.actor}
      PROVE  /\ actor[b].at = "gone" \/ actor[b].cancelled
             /\ W!Able(b) => actor[b].next.gen <= ui'.doc.gen
    BY DEF W!LeftBehind, W!Able
  <2>1. /\ actor[b].at = "gone" \/ actor[b].cancelled
        /\ W!Able(b) => actor[b].next.gen <= ui.doc.gen
    BY <1>0 DEF W!LeftBehind
  <2> QED
    BY <2>1, <1>0, MailboxFacts, DocumentFacts
<1>4. W!UnlockOK'
  BY <1>0 DEF W!UnlockOK
<1>5. W!LockedOK'
  BY DEF W!LockedOK
<1> QED
  BY <1>1, <1>2, <1>3, <1>4, <1>5

LEMMA WindowTypes ==
  ASSUME W!IInv, W!Type
  PROVE  W!IInv'
<1>0. /\ \A b \in Actors : W!MailboxOK(actor[b]) /\ actor[b] \in W!Mailbox
      /\ W!Sane /\ W!WindowOK /\ W!Found /\ W!SavedOK
      /\ (ui.at # "locked" /\ ui.actor # NoActor => W!ServedBy(actor[ui.actor]))
  BY DEF W!IInv, W!Sane
<1>1. /\ ui'.at = "open" /\ ui'.doc = ui.doc /\ ui'.typed = typed + 1 /\ ui'.latest = ui.latest
      /\ ui'.blocked = ui.blocked /\ ui'.frozen = ui.frozen /\ ui'.base = ui.base
      /\ ui'.conflict = ui.conflict /\ ui'.actor = ui.actor /\ ui'.saved = FALSE
      /\ ui.at = "open" /\ ~ui.frozen /\ typed' = typed + 1
      /\ UNCHANGED <<unlock, actor, store, newest, ends>>
  BY <1>0 DEF W!Type, W!Sane
<1>2. W!Sane'
  <2>1. PICK t \in BOOLEAN : ui' = [ui EXCEPT !.typed = typed + 1, !.timer = t, !.saved = FALSE]
    <3>1. ui' = [ui EXCEPT !.typed = typed + 1, !.timer = ui'.timer, !.saved = FALSE]
      BY <1>0 DEF W!Type, W!Sane
    <3>2. ui'.timer \in BOOLEAN
      BY <1>0 DEF W!Type, W!Sane
    <3> QED
      BY <3>1, <3>2
  <2>2. typed + 1 \in Nat /\ newest <= typed + 1
    BY <1>0 DEF W!Sane
  <2> QED
    BY <2>1, <2>2, <1>0, <1>1 DEF W!Sane
<1>3. Onward
  <2>1. ui.actor \in Actors => W!MailboxOK(actor[ui.actor])'
    BY <1>0, <1>1 DEF W!MailboxOK
  <2>2. ui.doc \in W!Documents /\ ui.doc.gen \in Nat /\ newest \in Nat
    BY <1>0, PadFacts, DocumentFacts
  <2> QED
    BY <2>1, <2>2, <1>1 DEF Onward
<1>4. W!WindowOK'
  BY <1>0, <1>1, PadFacts, DocumentFacts DEF W!WindowOK
<1>5. (ui.at # "locked" /\ ui.actor # NoActor => W!ServedBy(actor[ui.actor]))'
  BY <1>0, <1>1 DEF W!ServedBy
<1>6. W!SavedOK' /\ W!Found'
  BY <1>0, <1>1 DEF W!SavedOK, W!Found
<1> QED
  BY <1>2, <1>3, <1>4, <1>5, <1>6, OnwardStep DEF W!IInv

LEMMA WindowPolls ==
  ASSUME W!IInv, W!Poll
  PROVE  W!IInv'
<1> DEFINE m == actor[ui.actor]
<1>n. PICK n : n = [m EXCEPT !.completion = {}]
  OBVIOUS
<1>0. /\ \A b \in Actors : W!MailboxOK(actor[b]) /\ actor[b] \in W!Mailbox
      /\ actor \in [Actors -> W!Mailbox]
      /\ W!Sane /\ W!WindowOK /\ W!Found /\ W!SavedOK /\ ui.actor \in Actors /\ W!ServedBy(m)
  BY PadFacts DEF W!IInv, W!Sane, W!Poll
<1>1. PICK c \in m.completion :
        ui' = [ui EXCEPT !.saved = IF c.ok THEN @ \/ c.gen = ui.latest ELSE FALSE,
                         !.blocked = @ \/ ~c.ok]
  BY DEF W!Poll
<1>2. /\ ui'.at = "open" /\ ui'.doc = ui.doc /\ ui'.typed = ui.typed /\ ui'.latest = ui.latest
      /\ ui'.blocked = (ui.blocked \/ ~c.ok) /\ ui'.frozen = ui.frozen /\ ui'.base = ui.base
      /\ ui'.conflict = ui.conflict /\ ui'.actor = ui.actor
      /\ ui'.saved = (IF c.ok THEN ui.saved \/ c.gen = ui.latest ELSE FALSE)
      /\ ui.at = "open"
      /\ UNCHANGED <<unlock, store, typed, newest, ends>>
  BY <1>0, <1>1 DEF W!Poll, W!Sane
<1>3. actor' = [actor EXCEPT ![ui.actor] = n]
  BY <1>0, <1>n DEF W!Poll
<1>4. /\ n \in W!Mailbox /\ n.at = m.at /\ n.next = m.next /\ n.pending = m.pending
      /\ n.last = m.last /\ n.confirmed = m.confirmed /\ n.latest = m.latest
      /\ n.completion = {} /\ n.failed = m.failed /\ n.closing = m.closing
  BY <1>0, <1>n DEF W!Mailbox, W!Maybe
<1>5. actor'[ui.actor] = n /\ \A b \in Actors : b # ui.actor => actor'[b] = actor[b]
  BY <1>0, <1>3
<1>6. W!Work(n) = W!Work(m)
  BY <1>4 DEF W!Work
<1>7. c.ok \in BOOLEAN /\ c.gen \in Nat /\ c.ok = ~m.failed /\ (c.ok => c.gen = m.confirmed.gen)
  BY <1>0, MailboxFacts DEF W!MailboxOK
<1>8. W!Sane'
  <2>1. ui'.saved \in BOOLEAN /\ ui'.blocked \in BOOLEAN
    BY <1>0, <1>2, PadFacts
  <2>2. actor' \in [Actors -> W!Mailbox]
    BY <1>0, <1>3, <1>4
  <2>3. ui' = [ui EXCEPT !.saved = ui'.saved, !.blocked = ui'.blocked]
    BY <1>0, <1>1 DEF W!Sane
  <2>4. ui' \in [at : {"open", "locking", "locked"}, typed : Nat, timer : BOOLEAN, doc : W!Documents,
             latest : Nat, blocked : BOOLEAN, frozen : BOOLEAN, recovery : W!Maybe(W!Documents),
             base : W!Maybe(W!Documents), conflict : BOOLEAN, actor : Actors \cup {NoActor},
             mask : BOOLEAN, saved : BOOLEAN]
    BY <2>1, <2>3, <1>0 DEF W!Sane
  <2> QED
    BY <2>2, <2>4, <1>0, <1>2 DEF W!Sane
<1>9. Onward
  <2>1. W!MailboxOK(actor[ui.actor])'
    BY <1>0, <1>2, <1>4, <1>5, <1>6 DEF W!MailboxOK
  <2>2. ui.doc \in W!Documents /\ ui.doc.gen \in Nat /\ newest \in Nat
    BY <1>0, PadFacts, DocumentFacts
  <2> QED
    BY <2>1, <2>2, <1>0, <1>2, <1>4, <1>5 DEF Onward
<1>10. W!WindowOK'
  BY <1>0, <1>2, PadFacts DEF W!WindowOK, W!Poll
<1>11. (ui.at # "locked" /\ ui.actor # NoActor => W!ServedBy(actor[ui.actor]))'
  BY <1>0, <1>2, <1>4, <1>5, <1>6, <1>7, PadFacts DEF W!ServedBy
<1>12. W!Found'
  BY <1>0, <1>2, <1>3, <1>4, <1>5, <1>6 DEF W!Found, W!Stored, W!Drafted, W!NoneAble, W!Able, W!Rests
<1>13. W!SavedOK'
  <2> SUFFICES ASSUME ui'.saved PROVE W!SavedOK'
    BY DEF W!SavedOK
  <2>1. c.ok /\ ~m.failed /\ ui'.blocked = ui.blocked /\ ui.actor # NoActor
    BY <1>0, <1>2, <1>7, SaverAssumption, PadFacts
  <2>2. CASE ui.saved
    BY <2>1, <2>2, <1>0, <1>2, <1>4, <1>5 DEF W!SavedOK
  <2>3. CASE c.gen = ui.latest
    <3>1. ~ui.conflict /\ (ui.blocked => ui.frozen)
      BY <2>1, <1>0 DEF W!ServedBy
    <3>2. m.confirmed = ui.doc
      BY <2>1, <2>3, <3>1, <1>0, <1>2, <1>7 DEF W!ServedBy, W!WindowOK
    <3>3. ui.doc.text = newest
      BY <2>1, <1>0, <1>2 DEF W!Found
    <3> QED
      BY <2>1, <3>1, <3>2, <3>3, <1>2, <1>4, <1>5 DEF W!SavedOK
  <2> QED
    BY <2>1, <2>2, <2>3, <1>2
<1> QED
  BY <1>8, <1>9, <1>10, <1>11, <1>12, <1>13, OnwardStep DEF W!IInv

(* What the window shows is taken over, and handed to the save actor.       *)
Captures(at, mask, cl) ==
  /\ ui.at = "open" /\ newest' = IF W!Changed THEN ui.typed ELSE newest
  /\ at \in {"open", "locking"} /\ mask \in BOOLEAN /\ cl \in BOOLEAN
  /\ (at = "open" => ~cl) /\ (ui.actor = NoActor => at = "open")
  /\ ui' = [W!Captured EXCEPT !.timer = FALSE, !.at = at, !.mask = mask]
  /\ actor' = IF ui.actor = NoActor THEN actor
               ELSE [actor EXCEPT ![ui.actor] = [W!Published(@) EXCEPT !.closing = cl]]
  /\ UNCHANGED <<unlock, store, typed, ends>>

Windows ==
  [at : {"open", "locking", "locked"}, typed : Nat, timer : BOOLEAN, doc : W!Documents,
   latest : Nat, blocked : BOOLEAN, frozen : BOOLEAN, recovery : W!Maybe(W!Documents),
   base : W!Maybe(W!Documents), conflict : BOOLEAN, actor : Actors \cup {NoActor},
   mask : BOOLEAN, saved : BOOLEAN]

LEMMA WindowFacts == W!Sane => ui \in Windows
BY DEF W!Sane, Windows

(* Nothing is handed over: nothing has changed, or saving is blocked.       *)
LEMMA CaptureKept ==
  ASSUME W!IInv, NEW at, NEW mask, NEW cl, Captures(at, mask, cl), ~W!Changed \/ ui.blocked
  PROVE  W!IInv'
<1> DEFINE m == actor[ui.actor]
           d == W!Doc(ui.doc.gen, ui.typed)
<1>0. /\ \A b \in Actors : W!MailboxOK(actor[b]) /\ actor[b] \in W!Mailbox
      /\ actor \in [Actors -> W!Mailbox] /\ ui \in Windows
      /\ W!Sane /\ W!WindowOK /\ W!Found /\ W!SavedOK
      /\ (ui.actor # NoActor => ui.actor \in Actors /\ W!ServedBy(m))
  BY PadFacts, WindowFacts DEF W!IInv, W!Sane, Captures
<1>1. ui.typed \in Nat /\ ui.doc \in W!Documents /\ ui.doc.gen \in Nat /\ ui.doc.text \in Nat
      /\ newest \in Nat /\ typed \in Nat /\ d \in W!Documents /\ d.gen = ui.doc.gen /\ d.text = ui.typed
  BY <1>0, PadFacts, DocumentFacts
<1>2. /\ ui.doc.text <= ui.typed /\ ui.typed <= typed /\ ui.latest = ui.doc.gen
      /\ ui.doc.text <= newest /\ (~ui.frozen => ui.doc.text = newest)
      /\ (ui.frozen => ui.blocked /\ ui.typed = ui.doc.text)
      /\ ui.at = "open"
  BY <1>0 DEF W!WindowOK, Captures
<1>3. W!Captured = [ui EXCEPT !.doc = d]
  <2>1. CASE ~W!Changed
    <3>1. d = ui.doc
      BY <2>1, <1>1, DocumentFacts DEF W!Changed
    <3>2. W!Captured = ui /\ ui = [ui EXCEPT !.doc = ui.doc]
      BY <2>1, <1>0 DEF W!Captured, Windows
    <3> QED
      BY <3>1, <3>2
  <2>2. CASE W!Changed
    <3>1. ui.blocked
      BY <2>2
    <3> QED
      BY <2>2, <3>1 DEF W!Captured
  <2> QED
    BY <2>1, <2>2
<1>4. W!Published(m) = m
  BY DEF W!Published
<1> HIDE DEF d
<1>f. /\ at \in {"open", "locking"} /\ at # "locked" /\ ui.at # "locked" /\ cl \in BOOLEAN
      /\ (at = "open" => ~cl) /\ (ui.actor = NoActor => at = "open")
      /\ UNCHANGED <<unlock, store, typed, ends>>
  BY DEF Captures
<1>n. PICK n : n = [m EXCEPT !.closing = cl]
  OBVIOUS
<1>5. ui' = [ui EXCEPT !.doc = d, !.timer = FALSE, !.at = at, !.mask = mask]
  BY <1>0, <1>3 DEF Captures, Windows
<1>6. /\ ui' \in Windows /\ ui'.at = at /\ ui'.doc = d /\ ui'.typed = ui.typed /\ ui'.latest = ui.latest
      /\ ui'.blocked = ui.blocked /\ ui'.frozen = ui.frozen /\ ui'.base = ui.base
      /\ ui'.conflict = ui.conflict /\ ui'.actor = ui.actor /\ ui'.saved = ui.saved
  BY <1>0, <1>1, <1>5 DEF Windows, Captures
<1>7. newest' \in Nat /\ newest <= newest' /\ newest' <= typed /\ ui.typed <= newest'
      /\ (ui.doc.text = newest => newest' = ui.typed)
      /\ (ui.frozen => newest' = newest /\ d = ui.doc)
  <2>1. newest <= typed
    BY <1>0 DEF W!Sane
  <2>2. CASE ui.frozen
    <3>1. ~W!Changed /\ d = ui.doc
      BY <2>2, <1>1, <1>2, DocumentFacts DEF W!Changed
    <3> QED
      BY <2>1, <2>2, <3>1, <1>1, <1>2 DEF Captures, W!Changed
  <2>3. CASE ~ui.frozen
    BY <2>1, <2>3, <1>1, <1>2 DEF Captures, W!Changed
  <2> QED
    BY <2>2, <2>3
<1>8. ui.actor # NoActor =>
      /\ n \in W!Mailbox /\ n.at = m.at /\ n.next = m.next /\ n.pending = m.pending
      /\ n.last = m.last /\ n.confirmed = m.confirmed /\ n.latest = m.latest
      /\ n.completion = m.completion /\ n.failed = m.failed /\ n.closing = cl
      /\ actor' = [actor EXCEPT ![ui.actor] = n] /\ W!Work(n) = W!Work(m)
  <2> SUFFICES ASSUME ui.actor # NoActor
      PROVE /\ n \in W!Mailbox /\ n.at = m.at /\ n.next = m.next /\ n.pending = m.pending
            /\ n.last = m.last /\ n.confirmed = m.confirmed /\ n.latest = m.latest
            /\ n.completion = m.completion /\ n.failed = m.failed /\ n.closing = cl
            /\ actor' = [actor EXCEPT ![ui.actor] = n] /\ W!Work(n) = W!Work(m)
    OBVIOUS
  <2>1. /\ n \in W!Mailbox /\ n.at = m.at /\ n.next = m.next /\ n.pending = m.pending
        /\ n.last = m.last /\ n.confirmed = m.confirmed /\ n.latest = m.latest
        /\ n.completion = m.completion /\ n.failed = m.failed /\ n.closing = cl
    BY <1>0, <1>n DEF W!Mailbox, Captures
  <2>2. W!Work(n) = W!Work(m)
    BY <2>1 DEF W!Work
  <2>3. actor' = [actor EXCEPT ![ui.actor] = n]
    BY <1>0, <1>4, <1>n DEF Captures
  <2> QED
    BY <2>1, <2>2, <2>3
<1>9. /\ ui.actor = NoActor => actor' = actor
      /\ \A b \in Actors : b # ui.actor => actor'[b] = actor[b]
      /\ ui.actor # NoActor => actor'[ui.actor] = n
      /\ actor' \in [Actors -> W!Mailbox]
  BY <1>0, <1>8, SaverAssumption DEF Captures
<1>10. W!Sane'
  BY <1>0, <1>6, <1>7, <1>9 DEF W!Sane, Captures, Windows
<1>11. Onward
  <2>1. ui.actor \in Actors => W!MailboxOK(actor[ui.actor])'
    <3> SUFFICES ASSUME ui.actor \in Actors PROVE W!MailboxOK(actor[ui.actor])'
      OBVIOUS
    <3>1. ui.actor # NoActor /\ W!MailboxOK(m) /\ m \in W!Mailbox
      BY <1>0, SaverAssumption
    <3>2. m.confirmed.text <= newest'
      BY <3>1, <1>1, <1>7, MailboxFacts, DocumentFacts DEF W!MailboxOK
    <3>3. \A x \in W!Work(m) : x.text <= newest'
      <4> SUFFICES ASSUME NEW x \in W!Work(m) PROVE x.text <= newest'
        OBVIOUS
      <4>1. x.text \in Nat /\ x.text <= newest
        BY <3>1, MailboxFacts, DocumentFacts DEF W!MailboxOK
      <4> QED
        BY <4>1, <1>1, <1>7
    <3> QED
      BY <3>1, <3>2, <3>3, <1>f, <1>6, <1>8, <1>9 DEF W!MailboxOK
  <2>2. ui.actor \in Actors => ui.actor # NoActor
    BY SaverAssumption
  <2> QED
    BY <2>1, <2>2, <1>1, <1>f, <1>6, <1>7, <1>8, <1>9 DEF Onward
<1>12. W!WindowOK'
  <2>1. \A b \in ui.base : b.text <= ui.typed
    BY <1>0, <1>1, <1>2, PadFacts, DocumentFacts DEF W!WindowOK
  <2> QED
    BY <2>1, <1>0, <1>1, <1>2, <1>f, <1>6, <1>7 DEF W!WindowOK
<1>13. (ui.at # "locked" /\ ui.actor # NoActor => W!ServedBy(actor[ui.actor]))'
  <2> SUFFICES ASSUME ui.actor # NoActor PROVE W!ServedBy(actor[ui.actor])'
    BY <1>6
  <2>1. W!ServedBy(m) /\ (~ui.blocked \/ ui.frozen => d = ui.doc)
    BY <1>0, <1>1, <1>7, DocumentFacts DEF W!Changed
  <2>2. m.confirmed.text <= ui.doc.text => m.confirmed.text <= d.text
    BY <1>0, <1>1, <1>2, MailboxFacts, DocumentFacts
  <2> QED
    BY <2>1, <2>2, <1>1, <1>f, <1>6, <1>8, <1>9 DEF W!ServedBy
<1>14. W!SavedOK'
  <2> SUFFICES ASSUME ui.saved PROVE W!SavedOK'
    BY <1>6 DEF W!SavedOK
  <2>1. /\ ui.actor # NoActor /\ ~ui.conflict /\ ui.doc = m.confirmed /\ ui.doc.text = newest
        /\ (ui.blocked => ui.frozen)
    BY <1>0, <1>2 DEF W!SavedOK
  <2>2. d = ui.doc
    BY <2>1, <1>1, <1>7, DocumentFacts DEF W!Changed
  <2> QED
    BY <2>1, <2>2, <1>1, <1>f, <1>6, <1>7, <1>8, <1>9 DEF W!SavedOK
<1>15. W!Found'
  <2>1. CASE ui.doc.text = newest
    BY <2>1, <1>1, <1>f, <1>6, <1>7 DEF W!Found
  <2>2. CASE ui.doc.text # newest
    <3>1. /\ ui.frozen /\ (W!Stored \/ W!Drafted)
          /\ ui.actor # NoActor => W!Work(m) = {} /\ m.completion = {}
      BY <2>2, <1>0, <1>2 DEF W!Found
    <3>2. \A b \in Actors : W!Work(actor'[b]) = W!Work(actor[b]) /\ W!Able(b)' = W!Able(b)
      BY <1>f, <1>8, <1>9 DEF W!Able
    <3>3. (W!Stored => W!Stored') /\ (W!Drafted => W!Drafted')
      BY <3>1, <3>2, <1>f, <1>7 DEF W!Stored, W!Drafted, W!Rests, W!NoneAble
    <3> QED
      BY <3>1, <3>3, <1>f, <1>6, <1>8, <1>9 DEF W!Found
  <2> QED
    BY <2>1, <2>2
<1> QED
  BY <1>10, <1>11, <1>12, <1>13, <1>14, <1>15, OnwardStep DEF W!IInv

(* The edit is handed over; the actor takes it, or has failed.              *)
LEMMA CaptureHanded ==
  ASSUME W!IInv, NEW at, NEW mask, NEW cl, Captures(at, mask, cl), W!Changed, ~ui.blocked
  PROVE  W!IInv'
<1> DEFINE m == actor[ui.actor]
           d == W!Doc(ui.doc.gen + 1, ui.typed)
           taken == W!Accepts(m, d)
<1>0. /\ \A b \in Actors : W!MailboxOK(actor[b]) /\ actor[b] \in W!Mailbox
      /\ actor \in [Actors -> W!Mailbox] /\ ui \in Windows
      /\ W!Sane /\ W!WindowOK /\ W!Found /\ W!SavedOK
      /\ ui.actor # NoActor /\ ui.actor \in Actors /\ W!ServedBy(m) /\ m \in W!Mailbox /\ W!MailboxOK(m)
  BY PadFacts, WindowFacts DEF W!IInv, W!Sane, Captures, W!WindowOK
<1>1. ui.typed \in Nat /\ ui.doc \in W!Documents /\ ui.doc.gen \in Nat /\ ui.doc.text \in Nat
      /\ newest \in Nat /\ typed \in Nat /\ d \in W!Documents /\ d.gen = ui.doc.gen + 1 /\ d.text = ui.typed
  BY <1>0, PadFacts, DocumentFacts
<1>2. /\ ui.doc.text <= ui.typed /\ ui.typed <= typed /\ ui.latest = ui.doc.gen
      /\ ~ui.frozen /\ ui.doc.text = newest /\ ~ui.conflict
      /\ ui.at = "open" /\ ~m.closing /\ m.last <= ui.doc.gen
      /\ m.confirmed.gen <= m.last /\ m.confirmed.text <= ui.doc.text
      /\ m.last \in Nat /\ m.confirmed.gen \in Nat /\ m.confirmed.text \in Nat
  BY <1>0, MailboxFacts, DocumentFacts DEF W!WindowOK, Captures, W!ServedBy, W!MailboxOK
<1>3. taken <=> ~m.failed
  BY <1>1, <1>2 DEF W!Accepts
<1> DEFINE R == IF taken THEN ui.recovery ELSE {d}
<1>4. W!Captured = [ui EXCEPT !.doc = d, !.latest = d.gen, !.saved = FALSE, !.blocked = ~taken,
                            !.recovery = R]
  BY <1>0 DEF W!Captured
<1>5. W!Published(m) = IF taken THEN [m EXCEPT !.pending = {d}, !.latest = {d}, !.last = d.gen] ELSE m
  <2>1. W!Captured.doc = d
    BY <1>0, <1>4 DEF Windows
  <2> QED
    BY <2>1 DEF W!Published, W!Submitted
<1>6. R \in W!Maybe(W!Documents)
  BY <1>0, <1>1, PadFacts, OptionMade
<1>7. taken \in BOOLEAN
  BY DEF W!Accepts
<1>g. /\ at \in {"open", "locking", "locked"} /\ mask \in BOOLEAN /\ d.gen \in Nat
  BY <1>1 DEF Captures
<1> HIDE DEF d, taken, R
<1>n. PICK n : n = [W!Published(m) EXCEPT !.closing = cl]
  OBVIOUS
<1>8. ui' = [ui EXCEPT !.doc = d, !.latest = d.gen, !.saved = FALSE, !.blocked = ~taken,
                       !.recovery = R, !.timer = FALSE, !.at = at, !.mask = mask]
  BY <1>0, <1>4 DEF Captures, Windows
<1>9. /\ ui' \in Windows /\ ui'.at = at /\ ui'.doc = d /\ ui'.typed = ui.typed /\ ui'.latest = d.gen
      /\ ui'.blocked = ~taken /\ ui'.frozen = ui.frozen /\ ui'.base = ui.base
      /\ ui'.conflict = ui.conflict /\ ui'.actor = ui.actor /\ ui'.saved = FALSE
  BY <1>0, <1>1, <1>6, <1>7, <1>8, <1>g DEF Windows
<1>f. /\ at \in {"open", "locking"} /\ at # "locked" /\ ui.at # "locked" /\ cl \in BOOLEAN
      /\ (at = "open" => ~cl) /\ newest' = ui.typed
      /\ UNCHANGED <<unlock, store, typed, ends>>
      /\ actor' = [actor EXCEPT ![ui.actor] = n]
  BY <1>0, <1>n DEF Captures
<1>10. /\ n \in W!Mailbox /\ n.at = m.at /\ n.next = m.next
       /\ n.confirmed = m.confirmed /\ n.completion = m.completion /\ n.failed = m.failed
       /\ n.closing = cl
       /\ n.pending = (IF taken THEN {d} ELSE m.pending)
       /\ n.latest = (IF taken THEN {d} ELSE m.latest)
       /\ n.last = (IF taken THEN d.gen ELSE m.last)
  <2>1. CASE taken
    <3>1. n = [m EXCEPT !.pending = {d}, !.latest = {d}, !.last = d.gen, !.closing = cl]
      BY <2>1, <1>0, <1>5, <1>n DEF W!Mailbox
    <3>2. {d} \in W!Maybe(W!Documents) /\ d.gen \in Nat
      BY <1>1, OptionMade, DocumentFacts
    <3> QED
      BY <2>1, <3>1, <3>2, <1>0, <1>f DEF W!Mailbox
  <2>2. CASE ~taken
    <3>1. n = [m EXCEPT !.closing = cl]
      BY <2>2, <1>5, <1>n
    <3> QED
      BY <2>2, <3>1, <1>0, <1>f DEF W!Mailbox
  <2> QED
    BY <2>1, <2>2
<1>11. /\ \A b \in Actors : b # ui.actor => actor'[b] = actor[b]
       /\ actor'[ui.actor] = n /\ actor' \in [Actors -> W!Mailbox]
  BY <1>0, <1>10, <1>f
<1>12. newest' \in Nat /\ newest <= newest' /\ newest' <= typed /\ d.gen \in Nat /\ ui.doc.gen < d.gen
  BY <1>1, <1>2, <1>f
<1>13. W!Sane'
  BY <1>0, <1>9, <1>11, <1>12, <1>f DEF W!Sane, Windows
<1>14. \A x \in W!Work(n) : (x = d /\ taken) \/ (x \in W!Work(m) /\ x \in W!Documents)
  BY <1>0, <1>10, MailboxFacts DEF W!Work
<1>15. \A x \in W!Work(m) :
         /\ x.gen \in Nat /\ x.gen <= m.last /\ m.confirmed.gen < x.gen /\ m.confirmed.text <= x.text
         /\ x.text <= newest /\ x.text \in Nat
  BY <1>0, MailboxFacts, DocumentFacts DEF W!MailboxOK
<1>16. W!MailboxOK(actor[ui.actor])'
  <2>1. m.confirmed.text <= newest'
    BY <1>1, <1>2, <1>12
  <2>2. \A x \in W!Work(n) : /\ m.confirmed.gen < x.gen /\ x.gen <= n.last
                           /\ m.confirmed.text <= x.text /\ x.text <= newest'
    <3> SUFFICES ASSUME NEW x \in W!Work(n)
        PROVE /\ m.confirmed.gen < x.gen /\ x.gen <= n.last
              /\ m.confirmed.text <= x.text /\ x.text <= newest'
      OBVIOUS
    <3>1. CASE x = d /\ taken
      BY <3>1, <1>1, <1>2, <1>10, <1>12, <1>f
    <3>2. CASE x \in W!Work(m)
      BY <3>2, <1>1, <1>2, <1>10, <1>12, <1>15
    <3> QED
      BY <3>1, <3>2, <1>14
  <2>3. n.at \in {"seal", "write"} =>
          ~n.failed /\ \A x \in n.pending : n.next.gen < x.gen /\ n.next.text <= x.text
    <3> SUFFICES ASSUME n.at \in {"seal", "write"}
        PROVE ~n.failed /\ \A x \in n.pending : n.next.gen < x.gen /\ n.next.text <= x.text
      OBVIOUS
    <3>1. m.next \in W!Work(m)
      BY <1>10 DEF W!Work
    <3>2. ~n.failed /\ \A x \in m.pending : m.next.gen < x.gen /\ m.next.text <= x.text
      BY <1>0, <1>10 DEF W!MailboxOK
    <3>3. m.next.gen < d.gen /\ m.next.text <= d.text
      BY <3>1, <1>1, <1>2, <1>12, <1>15
    <3> QED
      BY <3>2, <3>3, <1>10
  <2>4. m.confirmed.gen <= n.last
    BY <1>1, <1>2, <1>10
  <2>5. \A x \in n.latest : x.gen <= n.last
    BY <1>0, <1>10, <1>12 DEF W!MailboxOK
  <2>6. /\ m.confirmed.gen <= store'.doc.gen
        /\ \A c \in n.completion : c.ok = ~n.failed /\ (c.ok => c.gen = n.confirmed.gen)
    BY <1>0, <1>10, <1>f DEF W!MailboxOK
  <2> QED
    BY <2>1, <2>2, <2>3, <2>4, <2>5, <2>6, <1>9, <1>10, <1>11 DEF W!MailboxOK
<1>17. Onward
  BY <1>1, <1>9, <1>10, <1>11, <1>12, <1>16, <1>f DEF Onward
<1>18. W!WindowOK'
  <2>1. \A b \in ui.base : b.text <= ui.typed
    BY <1>0, <1>1, <1>2, PadFacts, DocumentFacts DEF W!WindowOK
  <2>2. store.doc.gen <= d.gen
    BY <1>0, <1>1, <1>2, <1>12, PadFacts, DocumentFacts DEF W!WindowOK
  <2> QED
    BY <2>1, <2>2, <1>0, <1>1, <1>2, <1>9, <1>f DEF W!WindowOK
<1>19. W!ServedBy(actor[ui.actor])'
  <2>1. n.last <= d.gen
    BY <1>1, <1>2, <1>10
  <2>2. ~(d.gen <= m.confirmed.gen)
    BY <1>1, <1>2
  <2>3. m.confirmed.text <= d.text
    BY <1>1, <1>2
  <2>4. \A x \in W!Work(n) \cup {m.confirmed} : x.gen = d.gen => x = d
    <3>1. ASSUME NEW x \in W!Work(n), x.gen = d.gen PROVE x = d
      BY <3>1, <1>1, <1>2, <1>14, <1>15
    <3>2. m.confirmed.gen # d.gen
      BY <1>1, <1>2
    <3> QED
      BY <3>1, <3>2
  <2>5. ui'.blocked => n.failed
    BY <1>3, <1>7, <1>9, <1>10
  <2>6. ~ui'.conflict /\ ~ui'.frozen /\ (ui'.at = "open" => ~n.closing)
    BY <1>2, <1>9, <1>10, <1>f
  <2>7. actor'[ui'.actor] = n /\ ui'.doc = d /\ n.confirmed = m.confirmed
    BY <1>9, <1>10, <1>11
  <2> QED
    BY <2>1, <2>2, <2>3, <2>4, <2>5, <2>6, <2>7 DEF W!ServedBy
<1>20. W!SavedOK' /\ W!Found'
  BY <1>1, <1>9, <1>f DEF W!SavedOK, W!Found
<1> QED
  BY <1>13, <1>17, <1>18, <1>19, <1>20, OnwardStep DEF W!IInv

LEMMA CaptureSteps ==
  ASSUME W!IInv, NEW at, NEW mask, NEW cl, Captures(at, mask, cl)
  PROVE  W!IInv'
BY CaptureKept, CaptureHanded

LEMMA WindowSaves ==
  ASSUME W!IInv, W!EditTimer
  PROVE  W!IInv'
<1> DEFINE m == actor[ui.actor]
<1>1. ui \in Windows /\ W!Captured \in [DOMAIN ui -> {W!Captured[f] : f \in DOMAIN ui}]
      /\ W!Captured.at = "open" /\ W!Captured.mask = ui.mask
  BY WindowFacts DEF W!Captured, Windows, W!EditTimer, W!IInv
<1>2. ui' = [W!Captured EXCEPT !.timer = FALSE, !.at = "open", !.mask = ui.mask]
  BY <1>1 DEF W!EditTimer
<1>3. ui.actor # NoActor => [W!Published(m) EXCEPT !.closing = FALSE] = W!Published(m)
  <2> SUFFICES ASSUME ui.actor # NoActor PROVE [W!Published(m) EXCEPT !.closing = FALSE] = W!Published(m)
    OBVIOUS
  <2>1. m \in W!Mailbox /\ ~m.closing
    BY PadFacts DEF W!IInv, W!ServedBy, W!EditTimer
  <2> QED
    BY <2>1 DEF W!Published, W!Submitted, W!Mailbox
<1>4. Captures("open", ui.mask, FALSE)
  BY <1>2, <1>3, PadFacts DEF Captures, W!EditTimer, W!CanPublish, W!IInv
<1> QED
  BY <1>4, CaptureSteps

LEMMA WindowBeginsLock ==
  ASSUME W!IInv, NEW mask \in BOOLEAN, W!BeginLock(mask)
  PROVE  W!IInv'
<1>1. Captures("locking", mask, TRUE)
  BY DEF Captures, W!BeginLock, W!CanPublish
<1> QED
  BY <1>1, CaptureSteps

(* The window lets go of its save actor: what is on the screen is held in   *)
(* memory, or stays on the screen with saving blocked.                      *)
LetsGo ==
  /\ ui.at # "locked" /\ ui' \in Windows /\ ui'.recovery = {ui.doc} /\ ui'.actor = NoActor /\ ~ui'.saved
  /\ \A b \in ui'.base : b.text <= ui.doc.text
  /\ \/ ui'.at = "locked"
     \/ /\ ui'.at = "open" /\ ui'.doc = ui.doc /\ ui'.typed = ui.typed /\ ui'.latest = ui.latest
        /\ ui'.frozen = ui.frozen /\ ui'.blocked
  /\ \A b \in Actors : b # ui.actor => actor'[b] = actor[b]
  /\ ui.actor \in Actors =>
       LET m == actor[ui.actor] n == actor'[ui.actor]
       IN  /\ W!Work(n) \subseteq W!Work(m) /\ (n.at = "gone" \/ n.cancelled)
           /\ (n.at = "write" => m.at = "write" /\ n.next = m.next /\ n.confirmed = m.confirmed)
  /\ actor' \in [Actors -> W!Mailbox] /\ \A b \in Actors : b = ui.actor => W!MailboxOK(actor[b])'
  /\ UNCHANGED <<unlock, store, typed, newest, ends>>

LEMMA HoldStep ==
  ASSUME W!IInv, LetsGo
  PROVE  W!IInv'
<1> USE DEF LetsGo
<1>0. /\ \A b \in Actors : W!MailboxOK(actor[b]) /\ actor[b] \in W!Mailbox
      /\ ui \in Windows /\ W!Sane /\ W!StoreOK /\ W!LeftBehind /\ W!WindowOK /\ W!Found /\ W!UnlockOK
      /\ (ui.actor # NoActor => ui.actor \in Actors /\ W!ServedBy(actor[ui.actor]))
      /\ ui.doc \in W!Documents /\ ui.doc.gen \in Nat
  BY PadFacts, WindowFacts, DocumentFacts DEF W!IInv, W!Sane
<1>1. unlock.at = "none" /\ ui'.at \in {"open", "locked"}
  BY <1>0 DEF W!UnlockOK
<1>2. \A b \in Actors : /\ W!Able(b)' => W!Able(b) /\ actor'[b].next = actor[b].next
                        /\ W!Work(actor'[b]) \subseteq W!Work(actor[b])
  BY DEF W!Able
<1>3. \A b \in Actors : W!Able(b) => actor[b].next.gen <= ui.doc.gen
  <2> SUFFICES ASSUME NEW b \in Actors, W!Able(b) PROVE actor[b].next.gen <= ui.doc.gen
    OBVIOUS
  <2>1. CASE b = ui.actor
    <3>1. actor[b].next \in W!Work(actor[b]) /\ ui.actor # NoActor
      BY <2>1, SaverAssumption DEF W!Work, W!Able
    <3>2. actor[b].next.gen \in Nat /\ actor[b].next.gen <= actor[b].last /\ actor[b].last \in Nat
      BY <3>1, <1>0, MailboxFacts, DocumentFacts DEF W!MailboxOK
    <3> QED
      BY <2>1, <3>1, <3>2, <1>0 DEF W!ServedBy
  <2>2. CASE b # ui.actor
    BY <2>2, <1>0 DEF W!LeftBehind
  <2> QED
    BY <2>1, <2>2
<1>4. W!Sane'
  BY <1>0 DEF W!Sane, Windows
<1>5. W!StoreOK'
  BY <1>0 DEF W!StoreOK
<1>6. \A b \in Actors : W!MailboxOK(actor[b])'
  <2> SUFFICES ASSUME NEW b \in Actors PROVE W!MailboxOK(actor[b])'
    OBVIOUS
  <2>1. CASE b = ui.actor
    BY <2>1 DEF W!MailboxOK
  <2>2. CASE b # ui.actor
    BY <2>2, <1>0 DEF W!MailboxOK
  <2> QED
    BY <2>1, <2>2
<1>7. W!LeftBehind'
  <2> SUFFICES ASSUME NEW b \in Actors
      PROVE  /\ actor'[b].at = "gone" \/ actor'[b].cancelled
             /\ W!Able(b)' => IF ui'.at = "locked" THEN \E d \in ui'.recovery : actor'[b].next.gen <= d.gen
                                                   ELSE actor'[b].next.gen <= ui'.doc.gen
    BY DEF W!LeftBehind
  <2>1. actor'[b].at = "gone" \/ actor'[b].cancelled
    BY <1>0 DEF W!LeftBehind
  <2>2. W!Able(b)' => actor'[b].next.gen <= ui.doc.gen
    BY <1>2, <1>3
  <2> QED
    BY <2>1, <2>2, <1>1
<1>8. W!WindowOK'
  BY <1>0, <1>1 DEF W!WindowOK
<1>9. W!SavedOK' /\ W!UnlockOK'
  BY <1>1 DEF W!SavedOK, W!UnlockOK
<1>10. W!LockedOK'
  BY <1>0 DEF W!LockedOK, W!WindowOK
<1>11. W!Found'
  <2>1. CASE ui.doc.text = newest
    BY <2>1, <1>1 DEF W!Found
  <2>2. CASE ui.doc.text # newest
    <3>1. ui.frozen /\ (W!Stored \/ W!Drafted)
      BY <2>2, <1>0 DEF W!Found
    <3>2. (W!Stored => W!Stored') /\ (W!Drafted => W!Drafted')
      BY <1>1, <1>2 DEF W!Stored, W!Drafted, W!Rests, W!NoneAble
    <3> QED
      BY <3>1, <3>2, <1>1 DEF W!Found
  <2> QED
    BY <2>1, <2>2
<1> QED
  BY <1>4, <1>5, <1>6, <1>7, <1>8, <1>9, <1>10, <1>11 DEF W!IInv

LEMMA WindowMasks ==
  ASSUME W!IInv, W!MaskWithoutActor
  PROVE  W!IInv'
<1>0. /\ ui \in Windows /\ W!Sane /\ W!WindowOK /\ W!LockedOK
      /\ ui.doc \in W!Documents /\ ui.at = "open" /\ ui.actor = NoActor
  BY PadFacts, WindowFacts DEF W!IInv, W!MaskWithoutActor
<1>1. /\ ui' \in Windows /\ ui'.recovery = {ui.doc} /\ ui'.actor = NoActor /\ ~ui'.saved
      /\ ui'.at = "locked" /\ ui'.base = ui.base
  BY <1>0, OptionMade, DocumentFacts DEF W!MaskWithoutActor, W!Masked, Windows
<1>2. UNCHANGED <<unlock, actor, store, typed, newest, ends>> /\ ui.actor \notin Actors
  BY <1>0, SaverAssumption DEF W!MaskWithoutActor
<1>3. (\A b \in ui.base : b.text <= ui.doc.text) /\ actor' \in [Actors -> W!Mailbox] /\ ui.at # "locked"
  BY <1>0, <1>2 DEF W!WindowOK, W!Sane
<1>4. LetsGo
  BY <1>1, <1>2, <1>3 DEF LetsGo
<1> QED
  BY <1>4, HoldStep

LEMMA WindowFinishesLock ==
  ASSUME W!IInv, W!FinishLock
  PROVE  W!IInv'
<1> DEFINE m == actor[ui.actor]
<1>0. /\ \A b \in Actors : W!MailboxOK(actor[b]) /\ actor[b] \in W!Mailbox
      /\ ui \in Windows /\ W!Sane /\ W!StoreOK /\ W!LeftBehind /\ W!WindowOK /\ W!Found /\ W!UnlockOK
      /\ ui.at = "locking" /\ ui.actor # NoActor /\ ui.actor \in Actors
      /\ actor \in [Actors -> W!Mailbox]
  BY PadFacts, WindowFacts DEF W!IInv, W!Sane, W!WindowOK, W!FinishLock
<1>1. /\ W!ServedBy(m) /\ W!MailboxOK(m) /\ m \in W!Mailbox /\ ui.doc \in W!Documents /\ ui.doc.gen \in Nat
      /\ ui.doc.text \in Nat /\ m.last \in Nat /\ m.confirmed \in W!Documents /\ m.confirmed.gen \in Nat
      /\ m.confirmed.gen <= m.last /\ m.last <= ui.doc.gen
      /\ \A x \in m.latest : x.gen \in Nat /\ x.gen <= m.last
  BY <1>0, PadFacts, DocumentFacts, MailboxFacts DEF W!IInv, W!ServedBy, W!MailboxOK
<1>n. PICK n : n = IF m.at = "gone" THEN W!Gone ELSE [m EXCEPT !.cancelled = TRUE, !.completion = {}]
  OBVIOUS
<1>2. /\ n \in W!Mailbox /\ (n.at = "gone" \/ n.cancelled) /\ W!Work(n) \subseteq W!Work(m) /\ W!MailboxOK(n)
      /\ (n.at = "write" => m.at = "write" /\ n.next = m.next /\ n.confirmed = m.confirmed)
      /\ (m.at = "gone" => n = W!Gone)
  <2>1. CASE m.at = "gone"
    <3>1. n = W!Gone
      BY <2>1, <1>n
    <3>2. W!MailboxOK(W!Gone)
      BY GoneFacts, DocumentFacts, PadFacts DEF W!MailboxOK, W!IInv
    <3> QED
      BY <3>1, <3>2, GoneFacts
  <2>2. CASE m.at # "gone"
    <3>1. /\ n \in W!Mailbox /\ n.at = m.at /\ n.next = m.next /\ n.pending = m.pending
          /\ n.last = m.last /\ n.confirmed = m.confirmed /\ n.latest = m.latest
          /\ n.completion = {} /\ n.failed = m.failed /\ n.cancelled
      BY <2>2, <1>1, <1>n DEF W!Mailbox, W!Maybe
    <3>2. W!Work(n) = W!Work(m)
      BY <3>1 DEF W!Work
    <3> QED
      BY <2>2, <3>1, <3>2, <1>1 DEF W!MailboxOK
  <2> QED
    BY <2>1, <2>2
<1>3. /\ actor' = [actor EXCEPT ![ui.actor] = n]
      /\ UNCHANGED <<unlock, store, typed, newest, ends>>
  BY <1>n, <1>0 DEF W!FinishLock
<1>4. /\ \A b \in Actors : b # ui.actor => actor'[b] = actor[b]
      /\ actor'[ui.actor] = n /\ actor' \in [Actors -> W!Mailbox]
  BY <1>0, <1>2, <1>3
<1> DEFINE B == IF ui.conflict THEN ui.base ELSE {m.confirmed}
<1>5. {x \in m.latest : x.gen > m.confirmed.gen /\ x.gen > ui.doc.gen} = {}
  <2>1. \A x \in m.latest : ~(x.gen > ui.doc.gen)
    BY <1>1
  <2> QED
    BY <2>1
<1>6. CASE ~W!Unsaved(m)
  <2>1. /\ m.at = "gone" /\ ~ui.blocked /\ ~(ui.doc.gen > m.confirmed.gen)
    BY <1>6 DEF W!Unsaved
  <2>2. ~ui.frozen /\ ~ui.conflict /\ m.confirmed.gen = ui.doc.gen /\ m.confirmed = ui.doc
        /\ store.doc = ui.doc /\ ui.doc.text = newest
    BY <2>1, <1>0, <1>1 DEF W!WindowOK, W!ServedBy
  <2>3. ui' = W!Masked([ui EXCEPT !.recovery = {}, !.base = {}, !.conflict = FALSE], TRUE)
    BY <1>6 DEF W!FinishLock
  <2>4. ui' \in Windows /\ ui'.recovery = {} /\ ui'.actor = NoActor /\ ui'.at = "locked"
    BY <2>3, <1>0, OptionMade, DocumentFacts DEF W!Masked, Windows
  <2>5. unlock.at = "none"
    BY <1>0 DEF W!UnlockOK
  <2>6. ASSUME NEW b \in Actors PROVE ~W!Able(b)'
    <3>1. CASE b = ui.actor
      BY <3>1, <2>1, <1>2, <1>4, GoneFacts DEF W!Able
    <3>2. CASE b # ui.actor
      <4> SUFFICES ASSUME W!Able(b) PROVE FALSE
        BY <3>2, <1>3, <1>4 DEF W!Able
      <4>1. actor[b].next \in W!Work(actor[b]) /\ actor[b].confirmed = store.doc /\ actor[b].next.gen <= ui.doc.gen
        BY <3>2, <1>0 DEF W!Able, W!LeftBehind, W!Work
      <4>2. store.doc.gen < actor[b].next.gen /\ actor[b].next.gen \in Nat
        BY <4>1, <1>0, MailboxFacts, DocumentFacts DEF W!MailboxOK
      <4> QED
        BY <4>1, <4>2, <2>2, <1>1
    <3> QED
      BY <3>1, <3>2
  <2>7. W!Sane'
    BY <2>4, <1>0, <1>3, <1>4 DEF W!Sane, Windows
  <2>8. W!StoreOK' /\ W!WindowOK' /\ W!UnlockOK' /\ W!LockedOK'
    BY <2>4, <2>5, <1>0, <1>3 DEF W!StoreOK, W!WindowOK, W!UnlockOK, W!LockedOK
  <2>9. \A b \in Actors : W!MailboxOK(actor[b])'
    BY <1>0, <1>2, <1>3, <1>4 DEF W!MailboxOK
  <2>10. W!LeftBehind'
    BY <2>4, <2>6, <1>0, <1>2, <1>4 DEF W!LeftBehind
  <2>11. W!Stored'
    BY <2>2, <2>5, <2>6, <1>3 DEF W!Stored, W!NoneAble, W!Rests
  <2>12. W!SavedOK' /\ W!Found'
    BY <2>4, <2>11 DEF W!SavedOK, W!Found, W!Stored
  <2> QED
    BY <2>4, <2>7, <2>8, <2>9, <2>10, <2>12 DEF W!IInv
<1>7. CASE W!Unsaved(m)
  <2>1. B \in W!Maybe(W!Documents) /\ \A b \in B : b.text <= ui.doc.text
    BY <1>0, <1>1, PadFacts, OptionMade DEF W!WindowOK, W!ServedBy
  <2>2. ui' = IF ui.mask THEN W!Masked([ui EXCEPT !.recovery = {ui.doc}, !.base = B], FALSE)
              ELSE [[ui EXCEPT !.recovery = {ui.doc}, !.base = B]
                      EXCEPT !.at = "open", !.blocked = TRUE, !.actor = NoActor, !.saved = FALSE]
    BY <1>5, <1>7, PadFacts DEF W!FinishLock, W!IInv
  <2> HIDE DEF B
  <2>3. {ui.doc} \in W!Maybe(W!Documents)
    BY <1>1, OptionMade
  <2>4. /\ ui' \in Windows /\ ui'.recovery = {ui.doc} /\ ui'.actor = NoActor /\ ~ui'.saved /\ ui'.base = B
        /\ \/ ui'.at = "locked"
           \/ /\ ui'.at = "open" /\ ui'.doc = ui.doc /\ ui'.typed = ui.typed /\ ui'.latest = ui.latest
              /\ ui'.frozen = ui.frozen /\ ui'.blocked
    <3>1. CASE ui.mask
      BY <3>1, <2>1, <2>2, <2>3, <1>0, DocumentFacts DEF W!Masked, Windows
    <3>2. CASE ~ui.mask
      BY <3>2, <2>1, <2>2, <2>3, <1>0 DEF Windows
    <3> QED
      BY <3>1, <3>2
  <2>5. ui.at # "locked"
    BY <1>0
  <2>6. \A b \in Actors : b = ui.actor => W!MailboxOK(actor[b])'
    BY <1>2, <1>3, <1>4 DEF W!MailboxOK
  <2> QED
    BY <2>1, <2>4, <2>5, <2>6, <1>2, <1>3, <1>4, HoldStep DEF LetsGo
<1> QED
  BY <1>6, <1>7

LEMMA UnlockLoads ==
  ASSUME W!IInv, W!Load
  PROVE  W!IInv'
<1>0. /\ unlock' = [W!NotUnlocking EXCEPT !.at = "loaded", !.doc = store.doc]
      /\ ui.at = "locked" /\ UNCHANGED <<ui, actor, store, typed, newest, ends>>
      /\ store.doc \in W!Documents /\ store.doc.gen \in Nat /\ W!StoreOK
  BY PadFacts, DocumentFacts DEF W!Load, W!IInv
<1>1. /\ unlock'.at = "loaded" /\ unlock'.doc = store.doc /\ unlock'.probe = "none"
      /\ unlock' \in [at : {"none", "loaded", "read"}, doc : W!Documents,
                     probe : {"none", "some", "unavailable"}, draft : W!Maybe(W!Documents)]
  BY <1>0 DEF W!NotUnlocking, W!Maybe
<1>2. W!Sane'
  BY <1>0, <1>1 DEF W!Sane, W!IInv
<1>3. W!StoreOK' /\ (\A b \in Actors : W!MailboxOK(actor[b])') /\ W!LeftBehind'
  BY <1>0 DEF W!IInv, W!StoreOK, W!MailboxOK, W!LeftBehind, W!Able
<1>4. W!WindowOK' /\ (ui.at # "locked" /\ ui.actor # NoActor => W!ServedBy(actor[ui.actor]))' /\ W!LockedOK'
  BY <1>0 DEF W!IInv, W!WindowOK, W!ServedBy, W!LockedOK
<1>5. W!SavedOK'
  BY <1>0 DEF W!IInv, W!SavedOK, W!NoneAble, W!Able
<1>6. W!UnlockOK'
  BY <1>0, <1>1 DEF W!UnlockOK, W!StoreOK
<1>7. W!Found'
  <2>1. (W!Stored => W!Stored') /\ (W!Drafted => W!Drafted')
    BY <1>0, <1>1 DEF W!Stored, W!Drafted, W!Rests, W!NoneAble, W!Able
  <2> QED
    BY <2>1, <1>0 DEF W!Found, W!IInv
<1> QED
  BY <1>2, <1>3, <1>4, <1>5, <1>6, <1>7 DEF W!IInv

LEMMA UnlockProbes ==
  ASSUME W!IInv, W!Probe
  PROVE  W!IInv'
<1>0. /\ ui.at = "locked" /\ UNCHANGED <<ui, actor, store, typed, newest, ends>>
      /\ unlock.at = "loaded" /\ W!StoreOK /\ W!UnlockOK /\ W!Found /\ W!Sane
      /\ unlock \in [at : {"none", "loaded", "read"}, doc : W!Documents,
                     probe : {"none", "some", "unavailable"}, draft : W!Maybe(W!Documents)]
  BY DEF W!Probe, W!IInv, W!UnlockOK, W!Sane
<1> DEFINE none == store.draft = {} /\ unlock' = [unlock EXCEPT !.at = "read"]
           some(d) == /\ ~W!Writing /\ store.doc = unlock.doc /\ d.base = store.doc
                      /\ unlock' = [unlock EXCEPT !.at = "read", !.probe = "some", !.draft = {d.next}]
           other == /\ W!Writing \/ store.doc # unlock.doc \/ \E d \in store.draft : d.base # store.doc
                    /\ unlock' = [unlock EXCEPT !.at = "read", !.probe = "unavailable"]
<1>1. none \/ other \/ \E d \in store.draft : some(d)
  BY DEF W!Probe
<1>2. unlock'.at = "read" /\ unlock'.doc = unlock.doc
      /\ unlock' \in [at : {"none", "loaded", "read"}, doc : W!Documents,
                     probe : {"none", "some", "unavailable"}, draft : W!Maybe(W!Documents)]
  <2>1. CASE none
    BY <2>1, <1>0
  <2>2. CASE other
    BY <2>2, <1>0
  <2>3. ASSUME NEW d \in store.draft, some(d)
        PROVE unlock'.at = "read" /\ unlock'.doc = unlock.doc
              /\ unlock' \in [at : {"none", "loaded", "read"}, doc : W!Documents,
                             probe : {"none", "some", "unavailable"}, draft : W!Maybe(W!Documents)]
    <3>1. {d.next} \in W!Maybe(W!Documents)
      BY <1>0, PadFacts, OptionMade
    <3> QED
      BY <2>3, <3>1, <1>0
  <2> QED
    BY <1>1, <2>1, <2>2, <2>3
<1>3. W!Sane'
  BY <1>0, <1>2 DEF W!Sane
<1>4. W!StoreOK' /\ (\A b \in Actors : W!MailboxOK(actor[b])') /\ W!LeftBehind'
  BY <1>0 DEF W!IInv, W!StoreOK, W!MailboxOK, W!LeftBehind, W!Able
<1>5. W!WindowOK' /\ (ui.at # "locked" /\ ui.actor # NoActor => W!ServedBy(actor[ui.actor]))' /\ W!LockedOK'
  BY <1>0 DEF W!IInv, W!WindowOK, W!ServedBy, W!LockedOK
<1>6. W!SavedOK'
  BY <1>0 DEF W!IInv, W!SavedOK, W!NoneAble, W!Able
<1>8. W!UnlockOK'
  <2>1. ASSUME NEW d \in store.draft, some(d)
        PROVE  /\ unlock'.draft = {d.next} /\ unlock.doc.gen < d.next.gen
               /\ unlock.doc.text <= d.next.text /\ d.next.text <= newest
    BY <2>1, <1>0 DEF W!StoreOK
  <2>2. CASE \E d \in store.draft : some(d)
    BY <2>1, <2>2, <1>0, <1>2 DEF W!UnlockOK
  <2>3. CASE none
    <3>1. unlock'.probe = unlock.probe /\ unlock'.draft = unlock.draft
      BY <2>3, <1>0
    <3> QED
      BY <3>1, <1>0, <1>2 DEF W!UnlockOK
  <2>4. CASE other
    <3>1. unlock'.probe = "unavailable"
      BY <2>4, <1>0
    <3> QED
      BY <3>1, <1>0, <1>2 DEF W!UnlockOK
  <2> QED
    BY <1>1, <2>2, <2>3, <2>4
<1>9. W!Drafted => W!Drafted'
  <2> SUFFICES ASSUME NEW d \in store.draft, d.next.text = newest, d.base = store.doc, W!Rests,
                      \A a \in Actors : W!Work(actor[a]) = {}
      PROVE  W!Drafted'
    BY DEF W!Drafted
  <2>1. store.draft = {d} /\ store.doc = unlock.doc
    BY <1>0, PadFacts DEF W!Rests
  <2>2. ~W!Writing
    BY DEF W!Writing, W!Work
  <2>3. some(d)
    BY <2>1, <2>2, <1>1
  <2>4. unlock'.probe = "some" /\ unlock'.draft = {d.next}
    BY <2>3, <1>0
  <2> QED
    BY <2>1, <2>4, <1>0, <1>2 DEF W!Drafted, W!Rests
<1>10. W!Found'
  <2>1. W!Stored => W!Stored'
    BY <1>0, <1>2 DEF W!Stored, W!Rests, W!NoneAble, W!Able
  <2> QED
    BY <2>1, <1>0, <1>9 DEF W!Found
<1> QED
  BY <1>3, <1>4, <1>5, <1>6, <1>8, <1>10 DEF W!IInv

LEMMA UnlockCancels ==
  ASSUME W!IInv, W!CancelUnlock
  PROVE  W!IInv'
<1>0. unlock' = W!NotUnlocking /\ UNCHANGED <<ui, actor, store, typed, newest, ends>>
  BY DEF W!CancelUnlock
<1>1. /\ unlock'.at = "none"
      /\ unlock' \in [at : {"none", "loaded", "read"}, doc : W!Documents,
                     probe : {"none", "some", "unavailable"}, draft : W!Maybe(W!Documents)]
  BY <1>0, DocumentFacts DEF W!NotUnlocking, W!Maybe
<1>2. W!Sane'
  BY <1>0, <1>1 DEF W!Sane, W!IInv
<1>3. W!StoreOK' /\ (\A b \in Actors : W!MailboxOK(actor[b])') /\ W!LeftBehind'
  BY <1>0 DEF W!IInv, W!StoreOK, W!MailboxOK, W!LeftBehind, W!Able
<1>4. W!WindowOK' /\ (ui.at # "locked" /\ ui.actor # NoActor => W!ServedBy(actor[ui.actor]))' /\ W!LockedOK'
  BY <1>0 DEF W!IInv, W!WindowOK, W!ServedBy, W!LockedOK
<1>5. W!SavedOK'
  BY <1>0 DEF W!IInv, W!SavedOK, W!NoneAble, W!Able
<1>6. W!UnlockOK'
  BY <1>1 DEF W!UnlockOK
<1>7. W!Found'
  <2>1. (W!Stored => W!Stored') /\ (W!Drafted => W!Drafted')
    BY <1>0, <1>1 DEF W!Stored, W!Drafted, W!Rests, W!NoneAble, W!Able
  <2> QED
    BY <2>1, <1>0 DEF W!Found, W!IInv
<1> QED
  BY <1>2, <1>3, <1>4, <1>5, <1>6, <1>7 DEF W!IInv

(* A window that opens: the document s is shown, the actor a starts with    *)
(* the mailbox n; c, b and v are its conflict, its being blocked (and       *)
(* frozen) and its "saved".                                                 *)
Shows(a, s, n, c, b, v) ==
  /\ a \in Actors /\ actor[a].at = "gone" /\ ui' \in Windows
  /\ ui'.at = "open" /\ ui'.typed = s.text /\ ui'.doc = s /\ ui'.latest = s.gen /\ ui'.blocked = b
  /\ ui'.frozen = b /\ ui'.conflict = c /\ ui'.actor = a /\ ui'.saved = v
  /\ actor' = [actor EXCEPT ![a] = n] /\ unlock' = W!NotUnlocking
  /\ UNCHANGED <<typed, newest, ends>>
  /\ store'.doc = store.doc /\ store' \in [doc : W!Documents, draft : W!Maybe([base : W!Documents, next : W!Documents])]
  /\ store'.draft \in {{}, store.draft}
  /\ s \in W!Documents /\ n \in W!Mailbox /\ b \in BOOLEAN /\ c \in BOOLEAN /\ v \in BOOLEAN

ShowsWell(s, n, c, b, v) ==
  /\ store.doc.gen <= s.gen /\ s.text <= newest /\ n.at = "wait"
  /\ \A d \in ui'.base : d.text <= s.text
  /\ \A x \in Actors : W!Able(x) => actor[x].next.gen <= s.gen
  /\ (~b => s.text = newest)
  /\ W!MailboxOK(n) /\ n.last <= s.gen /\ ~n.closing /\ (s.gen <= n.confirmed.gen => store.doc = n.confirmed)
  /\ (c => b /\ W!Work(n) = {} /\ n.completion = {} /\ n.latest = {})
  /\ (~c => /\ n.confirmed.text <= s.text
            /\ \A x \in W!Work(n) \cup {n.confirmed} : x.gen = s.gen => x = s)
  /\ (v => ~b /\ s = n.confirmed)
  /\ \/ s.text = newest
     \/ b /\ W!Work(n) = {} /\ n.completion = {} /\ (W!Stored \/ (W!Drafted /\ store' = store))

LEMMA ShowStep ==
  ASSUME W!IInv, ui.at = "locked", NEW a, NEW s, NEW n, NEW c, NEW b, NEW v,
         Shows(a, s, n, c, b, v), ShowsWell(s, n, c, b, v)
  PROVE  W!IInv'
<1>0. /\ \A x \in Actors : W!MailboxOK(actor[x]) /\ actor[x] \in W!Mailbox
      /\ actor \in [Actors -> W!Mailbox] /\ W!Sane /\ W!StoreOK /\ W!LeftBehind /\ W!LockedOK /\ ui.actor = NoActor
      /\ store.doc.gen \in Nat /\ s.gen \in Nat /\ s.text \in Nat /\ newest \in Nat /\ typed \in Nat
      /\ newest <= typed
  BY PadFacts, DocumentFacts DEF W!IInv, W!Sane, W!LockedOK, Shows
<1>1. /\ a \in Actors /\ actor[a].at = "gone" /\ ui' \in Windows
      /\ ui'.at = "open" /\ ui'.typed = s.text /\ ui'.doc = s /\ ui'.latest = s.gen /\ ui'.blocked = b
      /\ ui'.frozen = b /\ ui'.conflict = c /\ ui'.actor = a /\ ui'.saved = v
      /\ UNCHANGED <<typed, newest, ends>> /\ store'.doc = store.doc /\ a # NoActor
      /\ b \in BOOLEAN /\ c \in BOOLEAN /\ v \in BOOLEAN
  BY SaverAssumption DEF Shows
<1>2. /\ unlock'.at = "none"
      /\ unlock' \in [at : {"none", "loaded", "read"}, doc : W!Documents,
                     probe : {"none", "some", "unavailable"}, draft : W!Maybe(W!Documents)]
  BY DocumentFacts DEF W!NotUnlocking, W!Maybe, Shows
<1>3. /\ actor'[a] = n /\ actor' \in [Actors -> W!Mailbox]
      /\ \A x \in Actors : x # a => actor'[x] = actor[x]
  BY <1>0, <1>1 DEF Shows
<1>4. \A x \in Actors : (W!Able(x)' => W!Able(x)) /\ actor'[a].at = "wait"
  BY <1>1, <1>3 DEF W!Able, ShowsWell
<1>5. W!Sane'
  BY <1>0, <1>1, <1>2, <1>3 DEF W!Sane, Windows, Shows
<1>6. W!StoreOK'
  BY <1>0, <1>1 DEF W!StoreOK, Shows
<1>7. \A x \in Actors : W!MailboxOK(actor[x])'
  BY <1>0, <1>1, <1>3 DEF W!MailboxOK, ShowsWell
<1>8. W!LeftBehind'
  <2> SUFFICES ASSUME NEW x \in Actors, x # a
      PROVE  /\ actor[x].at = "gone" \/ actor[x].cancelled
             /\ W!Able(x)' => actor[x].next.gen <= s.gen
    BY <1>1, <1>3 DEF W!LeftBehind
  <2> QED
    BY <1>0, <1>4, SaverAssumption DEF W!LeftBehind, ShowsWell
<1>9. W!WindowOK'
  <2>1. s.text <= typed /\ s.text <= newest /\ (~b => s.text = newest) /\ store.doc.gen <= s.gen
        /\ \A d \in ui'.base : d.text <= s.text
    BY <1>0 DEF ShowsWell
  <2> QED
    BY <2>1, <1>0, <1>1 DEF W!WindowOK
<1>10. W!ServedBy(actor[ui.actor])'
  <2>1. actor'[ui'.actor] = n
    BY <1>1, <1>3
  <2>2. n.last <= s.gen /\ ~n.closing /\ (s.gen <= n.confirmed.gen => store'.doc = n.confirmed)
    BY <1>1 DEF ShowsWell
  <2>3. IF c THEN b /\ W!Work(n) = {} /\ n.completion = {} /\ n.latest = {}
        ELSE /\ n.confirmed.text <= s.text
             /\ \A x \in W!Work(n) \cup {n.confirmed} : x.gen = s.gen => x = s
    BY <1>1 DEF ShowsWell
  <2> QED
    BY <2>1, <2>2, <2>3, <1>1 DEF W!ServedBy
<1>11. W!SavedOK'
  BY <1>1, <1>3 DEF W!SavedOK, ShowsWell
<1>12. W!UnlockOK' /\ W!LockedOK'
  BY <1>1, <1>2 DEF W!UnlockOK, W!LockedOK
<1>13. W!Found'
  <2>1. CASE s.text = newest
    BY <2>1, <1>1 DEF W!Found
  <2>2. CASE b /\ W!Work(n) = {} /\ n.completion = {} /\ W!Stored
    <3>1. W!Stored'
      BY <2>2, <1>1, <1>2, <1>4 DEF W!Stored, W!NoneAble, W!Rests
    <3> QED
      BY <2>2, <3>1, <1>1, <1>3 DEF W!Found
  <2>3. CASE b /\ W!Work(n) = {} /\ n.completion = {} /\ W!Drafted /\ store' = store
    <3>1. \A x \in Actors : W!Work(actor[x]) = {} => W!Work(actor'[x]) = {}
      BY <2>3, <1>3
    <3>2. W!Drafted'
      BY <2>3, <3>1, <1>1, <1>2 DEF W!Drafted, W!Rests
    <3> QED
      BY <2>3, <3>2, <1>1, <1>3 DEF W!Found
  <2> QED
    BY <2>1, <2>2, <2>3 DEF ShowsWell
<1> QED
  BY <1>5, <1>6, <1>7, <1>8, <1>9, <1>10, <1>11, <1>12, <1>13 DEF W!IInv

(* The newer of two generations.                                            *)
TopGen(S) == CHOOSE g \in {x.gen : x \in S} : \A x \in S : x.gen <= g

LEMMA NewestGen ==
  ASSUME NEW d, NEW e, d.gen \in Nat, e.gen \in Nat
  PROVE  TopGen({d, e}) \in Nat /\ d.gen <= TopGen({d, e}) /\ e.gen <= TopGen({d, e})
<1> DEFINE S == {d, e}
           P(g) == \A x \in S : x.gen <= g
           T == {x.gen : x \in S}
<1>1. \E g \in T : P(g)
  <2>1. CASE d.gen <= e.gen
    <3>1. e.gen \in T /\ P(e.gen)
      BY <2>1
    <3> QED
      BY <3>1
  <2>2. CASE e.gen <= d.gen
    <3>1. d.gen \in T /\ P(d.gen)
      BY <2>2
    <3> QED
      BY <3>1
  <2> QED
    BY <2>1, <2>2
<1>2. (CHOOSE g \in T : P(g)) \in T /\ P(CHOOSE g \in T : P(g))
  BY <1>1
<1> QED
  BY <1>2 DEF TopGen

(* What is known of the document kept in memory when the window opens: w is *)
(* the window as the answer to a draft leaves it.                           *)
Remembers(w, held) ==
  /\ w.recovery \in W!Maybe(W!Documents) /\ w.base \in W!Maybe(W!Documents) /\ w.conflict \in BOOLEAN
  /\ held \in BOOLEAN
  /\ \A d \in w.recovery :
       /\ store.doc.gen <= d.gen /\ d.text <= newest /\ (\A b \in w.base : b.text <= d.text)
       /\ \A x \in Actors : W!Able(x) => actor[x].next.gen <= d.gen
  /\ (\A d \in w.recovery : d.gen <= unlock.doc.gen) => store.doc = unlock.doc
  /\ w.recovery = {} => W!NoneAble
  /\ \/ \E d \in w.recovery : d.text = newest
     \/ W!Stored
     \/ W!Drafted /\ held /\ store' = store /\ (w.conflict \/ w.recovery = {})
  /\ store'.doc = store.doc /\ store' \in [doc : W!Documents, draft : W!Maybe([base : W!Documents, next : W!Documents])]
  /\ store'.draft \in {{}, store.draft} /\ UNCHANGED <<typed, newest, ends>>

LEMMA OpenStep ==
  ASSUME W!IInv, ui.at = "locked", unlock.at = "read", NEW w, NEW held, W!Opened(w, held), Remembers(w, held)
  PROVE  W!IInv'
<1> DEFINE u == unlock.doc
           other == {d \in w.recovery : d # u}
           agrees == ~w.conflict /\ w.base = {u}
           newGen == 1 + (CHOOSE g \in {x.gen : x \in other \cup {u}} : \A x \in other \cup {u} : x.gen <= g)
           shown == CASE other = {} -> u
                      [] other # {} /\ agrees -> W!Doc(newGen, (CHOOSE d \in other : TRUE).text)
                      [] OTHER -> CHOOSE d \in other : TRUE
           c == other # {} /\ ~agrees
           b == c \/ held
           v == other = {} /\ ~held
           R == IF c THEN other ELSE {}
           B == IF c THEN w.base ELSE {}
           N == IF other # {} /\ agrees THEN W!Submitted(W!Started(u), shown) ELSE W!Started(u)
<1>1. PICK a \in Actors :
        /\ actor[a].at = "gone"
        /\ ui' = [at |-> "open", typed |-> shown.text, timer |-> FALSE, doc |-> shown,
                  latest |-> shown.gen, blocked |-> b, frozen |-> b, recovery |-> R,
                  base |-> B, conflict |-> c, actor |-> a, mask |-> FALSE, saved |-> v]
        /\ actor' = [actor EXCEPT ![a] = N] /\ unlock' = W!NotUnlocking
  BY DEF W!Opened
<1> HIDE DEF N
<1>n. PICK n : n = N
  OBVIOUS
<1> USE DEF N
<1>s. PICK s : s = shown
  OBVIOUS
<1>2. /\ u \in W!Documents /\ u.gen \in Nat /\ u.text \in Nat /\ newest \in Nat /\ u.text <= newest
      /\ u.gen <= store.doc.gen /\ store.doc.gen \in Nat /\ actor \in [Actors -> W!Mailbox]
      /\ store.doc.text <= newest
  BY PadFacts, DocumentFacts DEF W!IInv, W!UnlockOK, W!Sane, W!StoreOK
<1>3. \A d \in w.recovery : /\ d \in W!Documents /\ d.gen \in Nat /\ d.text \in Nat /\ w.recovery = {d}
  BY OptionFacts, DocumentFacts DEF Remembers
<1>4. W!MailboxOK(W!Started(u)) /\ W!Started(u) \in W!Mailbox
  BY <1>2, StartedFacts DEF W!MailboxOK
<1>5. ASSUME NEW d \in w.recovery, other # {} PROVE other = {d} /\ d # u /\ (CHOOSE e \in other : TRUE) = d
  BY <1>3, <1>5
<1>6. other = {} \/ \E d \in w.recovery : other = {d}
  BY <1>3
<1> HIDE DEF other
<1>7. c \in BOOLEAN /\ b \in BOOLEAN /\ v \in BOOLEAN /\ agrees \in BOOLEAN /\ (other = {} => ~c)
  BY DEF Remembers
<1>8. R \in W!Maybe(W!Documents) /\ B \in W!Maybe(W!Documents)
  <2>1. other \in W!Maybe(W!Documents) /\ {} \in W!Maybe(W!Documents)
    BY <1>3, <1>6 DEF W!Maybe
  <2> QED
    BY <2>1 DEF Remembers
<1> HIDE DEF R, B
<1>9. other = {} => s = u
  BY <1>s
<1>10. ASSUME other # {}, agrees
       PROVE  \E d \in w.recovery :
                /\ other = {d} /\ s \in W!Documents /\ s.text = d.text /\ s.gen \in Nat
                /\ d.gen < s.gen /\ u.gen < s.gen
  <2>1. PICK d \in w.recovery : other = {d}
    BY <1>6, <1>10
  <2>2. (CHOOSE e \in other : TRUE) = d
    BY <2>1
  <2> DEFINE G == TopGen({d, u})
  <2>3. G \in Nat /\ d.gen <= G /\ u.gen <= G
    BY <1>2, <1>3, NewestGen
  <2>4. s = W!Doc(1 + G, d.text)
    <3>1. other \cup {u} = {d, u}
      BY <2>1
    <3>2. newGen = 1 + TopGen(other \cup {u})
      BY DEF TopGen
    <3>3. newGen = 1 + G
      BY <3>1, <3>2
    <3> HIDE DEF newGen, G
    <3> QED
      BY <2>2, <3>3, <1>10, <1>s
  <2> HIDE DEF G
  <2>5. 1 + G \in Nat /\ d.gen < 1 + G /\ u.gen < 1 + G /\ d.text \in Nat
    BY <2>3, <1>2, <1>3
  <2> QED
    BY <2>1, <2>4, <2>5, DocumentFacts
<1>11. ASSUME other # {}, ~agrees PROVE s \in w.recovery /\ s # u
  <2>1. PICK d \in w.recovery : other = {d}
    BY <1>6, <1>11
  <2>2. (CHOOSE e \in other : TRUE) = d
    BY <2>1
  <2>3. s = d
    BY <2>2, <1>11, <1>s
  <2> QED
    BY <2>1, <2>3 DEF other
<1>12. s \in W!Documents /\ s.gen \in Nat /\ s.text \in Nat
  BY <1>2, <1>3, <1>9, <1>10, <1>11, <1>7, DocumentFacts
<1>13. n = IF other # {} /\ agrees THEN W!Submitted(W!Started(u), s) ELSE W!Started(u)
  BY <1>n, <1>s
<1>14. /\ ui' = [at |-> "open", typed |-> s.text, timer |-> FALSE, doc |-> s,
                  latest |-> s.gen, blocked |-> b, frozen |-> b, recovery |-> R,
                  base |-> B, conflict |-> c, actor |-> a, mask |-> FALSE, saved |-> v]
       /\ actor' = [actor EXCEPT ![a] = n]
  BY <1>1, <1>n, <1>s
<1> HIDE DEF shown, N, newGen, b, c, v, agrees
<1>15. ASSUME other # {}, agrees
       PROVE  /\ n \in W!Mailbox /\ n.at = "wait" /\ n.confirmed = u /\ n.last = s.gen /\ ~n.closing
              /\ n.pending = {s} /\ n.latest = {s} /\ n.completion = {} /\ W!Work(n) = {s}
  <2> DEFINE t == W!Started(u)
  <2>1. t \in W!Mailbox /\ ~t.closing /\ ~t.failed /\ t.last = u.gen /\ u.gen < s.gen
        /\ t.at = "wait" /\ t.confirmed = u /\ t.completion = {}
    BY <1>2, <1>10, <1>15, StartedFacts
  <2> HIDE DEF t
  <2>2. W!Accepts(t, s)
    BY <2>1, <1>2, <1>12 DEF W!Accepts
  <2>3. n = [t EXCEPT !.pending = {s}, !.latest = {s}, !.last = s.gen]
    BY <2>2, <1>13, <1>15 DEF W!Submitted, t
  <2>4. {s} \in W!Maybe(W!Documents)
    BY <1>12, OptionMade
  <2>5. /\ n \in W!Mailbox /\ n.at = "wait" /\ n.confirmed = u /\ n.last = s.gen /\ ~n.closing
        /\ n.pending = {s} /\ n.latest = {s} /\ n.completion = {}
    BY <2>1, <2>3, <2>4, <1>12 DEF W!Mailbox
  <2> QED
    BY <2>5 DEF W!Work
<1>16. ~(other # {} /\ agrees) => n = W!Started(u)
  BY <1>13
<1>17. n \in W!Mailbox
  BY <1>4, <1>15, <1>16
<1>18. Shows(a, s, n, c, b, v)
  <2>1. ui' \in Windows
    BY <1>7, <1>8, <1>12, <1>14 DEF Windows
  <2>2. /\ ui'.at = "open" /\ ui'.typed = s.text /\ ui'.doc = s /\ ui'.latest = s.gen /\ ui'.blocked = b
        /\ ui'.frozen = b /\ ui'.conflict = c /\ ui'.actor = a /\ ui'.saved = v
    BY <1>14
  <2>3. actor' = [actor EXCEPT ![a] = n] /\ unlock' = W!NotUnlocking /\ actor[a].at = "gone"
    BY <1>1, <1>14
  <2> QED
    BY <2>1, <2>2, <2>3, <1>7, <1>12, <1>17 DEF Shows, Remembers
<1>19. ui'.base = (IF c THEN w.base ELSE {})
  BY <1>14 DEF B
<1>20. CASE other = {}
  <2>1. \A d \in w.recovery : d = u
    BY <1>20 DEF other
  <2>2. store.doc = u
    BY <2>1, <1>2 DEF Remembers
  <2>3. s = u /\ n = W!Started(u) /\ ~c /\ b = held /\ v = ~held
    <3>1. held \in BOOLEAN
      BY DEF Remembers
    <3> QED
      BY <3>1, <1>9, <1>16, <1>20, <1>7 DEF b, v
  <2>4. \A x \in Actors : W!Able(x) => actor[x].next.gen <= u.gen
    BY <2>1 DEF Remembers, W!NoneAble
  <2>5. u.text = newest \/ (held /\ (W!Stored \/ (W!Drafted /\ store' = store)))
    BY <2>1, <2>2 DEF Remembers, W!Stored
  <2>6. ShowsWell(s, n, c, b, v)
    <3>1. ui'.base = {} /\ held \in BOOLEAN
      BY <2>3, <1>19 DEF Remembers
    <3>2. /\ n.at = "wait" /\ n.last = u.gen /\ ~n.closing /\ n.confirmed = u /\ W!Work(n) = {}
          /\ n.completion = {} /\ W!MailboxOK(n)
      BY <2>3, <1>2, <1>4, StartedFacts
    <3>3. /\ store.doc.gen <= s.gen /\ s.text <= newest /\ n.last <= s.gen
          /\ n.confirmed.text <= s.text /\ store.doc = n.confirmed /\ s = n.confirmed
          /\ \A x \in Actors : W!Able(x) => actor[x].next.gen <= s.gen
      BY <3>2, <2>2, <2>3, <2>4, <1>2
    <3>4. /\ (~b => s.text = newest) /\ ~c /\ (v => ~b)
          /\ s.text = newest \/ (b /\ (W!Stored \/ (W!Drafted /\ store' = store)))
      BY <3>1, <2>3, <2>5
    <3> QED
      BY <3>1, <3>2, <3>3, <3>4 DEF ShowsWell
  <2> QED
    BY <2>6, <1>18, ShowStep
<1>21. CASE other # {} /\ agrees
  <2>1. PICK d \in w.recovery :
          /\ other = {d} /\ s \in W!Documents /\ s.text = d.text /\ s.gen \in Nat
          /\ d.gen < s.gen /\ u.gen < s.gen
    BY <1>10, <1>21
  <2>2. ~c /\ b = held /\ v = FALSE /\ ~w.conflict /\ w.base = {u} /\ w.recovery # {}
    <3>1. held \in BOOLEAN
      BY DEF Remembers
    <3> QED
      BY <3>1, <2>1, <1>21, <1>7 DEF c, b, v, agrees
  <2>3. /\ n \in W!Mailbox /\ n.at = "wait" /\ n.confirmed = u /\ n.last = s.gen /\ ~n.closing
        /\ n.pending = {s} /\ n.latest = {s} /\ n.completion = {} /\ W!Work(n) = {s}
    BY <1>15, <1>21
  <2>4. u.text <= d.text /\ d.text <= newest /\ store.doc.gen <= d.gen /\ w.recovery = {d}
        /\ d.gen \in Nat /\ d.text \in Nat
    BY <2>2, <1>3 DEF Remembers
  <2>5. s.text = newest
    <3>1. CASE W!Stored
      <4>1. u.text = newest
        BY <3>1 DEF W!Stored, W!Rests
      <4> QED
        BY <4>1, <2>1, <2>4, <1>2
    <3>2. CASE \E e \in w.recovery : e.text = newest
      BY <3>2, <2>1, <2>4
    <3> QED
      BY <3>1, <3>2, <2>2 DEF Remembers
  <2>6. \A x \in Actors : W!Able(x) => actor[x].next.gen <= s.gen
    <3> SUFFICES ASSUME NEW x \in Actors, W!Able(x) PROVE actor[x].next.gen <= s.gen
      OBVIOUS
    <3>1. actor[x].next.gen <= d.gen
      BY DEF Remembers
    <3>2. actor[x].next.gen \in Nat
      BY <1>2, MailboxFacts, DocumentFacts
    <3> QED
      BY <3>1, <3>2, <2>1, <2>4
  <2>7. W!MailboxOK(n)
    BY <2>1, <2>3, <2>4, <1>2 DEF W!MailboxOK
  <2>8. store.doc.gen <= s.gen /\ ~(s.gen <= u.gen)
    BY <2>1, <2>4, <1>2
  <2>9. \A x \in W!Work(n) \cup {n.confirmed} : x.gen = s.gen => x = s
    BY <2>1, <2>3, <1>2
  <2>10. s.text <= newest /\ n.confirmed.text <= s.text /\ n.last <= s.gen
    BY <2>1, <2>3, <2>4, <1>2
  <2>11. ShowsWell(s, n, c, b, v)
    BY <2>2, <2>3, <2>5, <2>6, <2>7, <2>8, <2>9, <2>10, <1>19 DEF ShowsWell
  <2> QED
    BY <2>11, <1>18, ShowStep
<1>22. CASE other # {} /\ ~agrees
  <2>1. s \in w.recovery /\ w.recovery = {s}
    BY <1>3, <1>11, <1>22
  <2>2. c /\ b /\ ~v /\ n = W!Started(u)
    BY <1>13, <1>22, <1>7 DEF c, b, v
  <2>3. store.doc.gen <= s.gen /\ s.text <= newest /\ (\A e \in w.base : e.text <= s.text)
        /\ \A x \in Actors : W!Able(x) => actor[x].next.gen <= s.gen
    BY <2>1 DEF Remembers
  <2>4. u.gen <= s.gen /\ (s.gen <= u.gen => store.doc = u)
    BY <2>1, <2>3, <1>2, <1>12 DEF Remembers
  <2>5. s.text = newest \/ W!Stored \/ (W!Drafted /\ store' = store)
    BY <2>1 DEF Remembers
  <2>6. ShowsWell(s, n, c, b, v)
    BY <2>2, <2>3, <2>4, <2>5, <1>2, <1>4, <1>19, StartedFacts DEF ShowsWell
  <2> QED
    BY <2>6, <1>18, ShowStep
<1> QED
  BY <1>20, <1>21, <1>22

(* What is held in memory while the window is locked.                       *)
LEMMA HeldFacts ==
  ASSUME W!IInv, unlock.at = "read"
  PROVE  /\ ui.at = "locked" /\ ui \in Windows
         /\ ui.recovery \in W!Maybe(W!Documents) /\ ui.base \in W!Maybe(W!Documents) /\ ui.conflict \in BOOLEAN
         /\ \A d \in ui.recovery :
              /\ store.doc.gen <= d.gen /\ d.text <= newest /\ (\A b \in ui.base : b.text <= d.text)
              /\ \A x \in Actors : W!Able(x) => actor[x].next.gen <= d.gen
         /\ (\A d \in ui.recovery : d.gen <= unlock.doc.gen) => store.doc = unlock.doc
         /\ ui.recovery = {} => W!NoneAble
         /\ (\E d \in ui.recovery : d.text = newest) \/ W!Stored \/ W!Drafted
         /\ store \in [doc : W!Documents, draft : W!Maybe([base : W!Documents, next : W!Documents])]
<1>0. ui.at = "locked" /\ ui.actor = NoActor
  BY DEF W!IInv, W!UnlockOK, W!LockedOK
<1>1. \A x \in Actors : W!Able(x) => \E d \in ui.recovery : actor[x].next.gen <= d.gen
  BY <1>0, SaverAssumption DEF W!IInv, W!LeftBehind
<1>2. \A d \in ui.recovery : \A x \in Actors : W!Able(x) => actor[x].next.gen <= d.gen
  <2>1. \A d, e \in ui.recovery : d = e
    BY PadFacts DEF W!IInv
  <2> QED
    BY <2>1, <1>1
<1>3. ui.recovery = {} => W!NoneAble
  BY <1>1 DEF W!NoneAble
<1> QED
  BY <1>0, <1>2, <1>3, PadFacts, WindowFacts DEF W!IInv, W!LockedOK, W!UnlockOK, W!Found, W!Sane

LEMMA OpensWithoutDraft ==
  ASSUME W!IInv, W!OpenWithoutDraft
  PROVE  W!IInv'
<1>0. unlock.at = "read" /\ unlock.probe = "none" /\ W!Opened(ui, FALSE)
      /\ UNCHANGED <<store, typed, newest, ends>>
  BY DEF W!OpenWithoutDraft
<1>1. ~W!Drafted
  BY <1>0 DEF W!Drafted
<1>2. Remembers(ui, FALSE)
  BY <1>0, <1>1, HeldFacts DEF Remembers
<1> QED
  BY <1>0, <1>2, HeldFacts, OpenStep

LEMMA OpensWithDraft ==
  ASSUME W!IInv, W!OpenWithDraft
  PROVE  W!IInv'
<1> DEFINE clash == \E d \in ui.recovery : d \notin unlock.draft
           w1 == [ui EXCEPT !.conflict = TRUE]
           w2 == [ui EXCEPT !.recovery = unlock.draft, !.base = {unlock.doc}, !.conflict = FALSE]
<1>0. unlock.at = "read" /\ unlock.probe = "some" /\ UNCHANGED <<store, typed, newest, ends>>
  BY DEF W!OpenWithDraft
<1>1. PICK n \in unlock.draft :
        /\ unlock.draft = {n} /\ unlock.doc.gen < n.gen /\ unlock.doc.text <= n.text /\ n.text <= newest
        /\ n.gen \in Nat /\ n.text \in Nat /\ n \in W!Documents
  <2>1. PICK n \in unlock.draft :
          unlock.draft = {n} /\ unlock.doc.gen < n.gen /\ unlock.doc.text <= n.text /\ n.text <= newest
    BY <1>0 DEF W!IInv, W!UnlockOK
  <2> QED
    BY <2>1, PadFacts, DocumentFacts DEF W!IInv
<1>2. W!Drafted => n.text = newest
  BY <1>0, <1>1 DEF W!Drafted
<1>3. CASE clash /\ W!Opened(w1, TRUE)
  <2>1. w1.recovery = ui.recovery /\ w1.base = ui.base /\ w1.conflict = TRUE
    BY <1>0, HeldFacts DEF Windows
  <2> HIDE DEF w1
  <2>2. Remembers(w1, TRUE)
    BY <2>1, <1>0, HeldFacts DEF Remembers
  <2> QED
    BY <2>2, <1>0, <1>3, HeldFacts, OpenStep
<1>4. CASE ~clash /\ W!Opened(w2, FALSE)
  <2>1. w2.recovery = {n} /\ w2.base = {unlock.doc} /\ w2.conflict = FALSE
    BY <1>0, <1>1, HeldFacts DEF Windows
  <2> HIDE DEF w2
  <2>2. \A d \in ui.recovery : d = n
    BY <1>1, <1>4
  <2>3. store.doc.gen <= n.gen /\ \A x \in Actors : W!Able(x) => actor[x].next.gen <= n.gen
    <3>1. CASE ui.recovery = {}
      <4>1. W!NoneAble /\ store.doc = unlock.doc
        BY <3>1, <1>0, HeldFacts
      <4> QED
        BY <4>1, <1>1, PadFacts, DocumentFacts DEF W!NoneAble, W!IInv
    <3>2. CASE n \in ui.recovery
      BY <3>2, <1>0, HeldFacts
    <3> QED
      BY <3>1, <3>2, <2>2
  <2>4. n.text = newest \/ W!Stored
    BY <2>2, <1>0, <1>2, HeldFacts
  <2>5. unlock.doc \in W!Documents /\ ~(n.gen <= unlock.doc.gen)
    BY <1>1, PadFacts, DocumentFacts DEF W!IInv
  <2>6. {n} \in W!Maybe(W!Documents) /\ {unlock.doc} \in W!Maybe(W!Documents)
    BY <1>1, <2>5, OptionMade
  <2>7. Remembers(w2, FALSE)
    BY <2>1, <2>3, <2>4, <2>5, <2>6, <1>0, <1>1, HeldFacts DEF Remembers
  <2> QED
    BY <2>7, <1>0, <1>4, HeldFacts, OpenStep
<1>5. CASE ~clash /\ W!Opened(ui, TRUE)
  <2>1. (\E d \in ui.recovery : d.text = newest) \/ W!Stored \/ (W!Drafted /\ ui.recovery = {})
    BY <1>0, <1>1, <1>2, <1>5, HeldFacts
  <2>2. Remembers(ui, TRUE)
    BY <2>1, <1>0, HeldFacts DEF Remembers
  <2> QED
    BY <2>2, <1>0, <1>5, HeldFacts, OpenStep
<1> QED
  BY <1>3, <1>4, <1>5 DEF W!OpenWithDraft

LEMMA OpensWithUnreadableDraft ==
  ASSUME W!IInv, W!OpenWithUnreadableDraft
  PROVE  W!IInv'
<1> DEFINE w == [ui EXCEPT !.conflict = @ \/ ui.recovery # {}]
<1>0. unlock.at = "read" /\ unlock.probe = "unavailable" /\ UNCHANGED <<typed, newest, ends>>
  BY DEF W!OpenWithUnreadableDraft
<1>1. ~W!Drafted
  BY <1>0 DEF W!Drafted
<1>2. CASE store' = [store EXCEPT !.draft = {}] /\ W!Opened(ui, FALSE)
  <2>1. /\ store'.doc = store.doc /\ store'.draft = {}
        /\ store' \in [doc : W!Documents, draft : W!Maybe([base : W!Documents, next : W!Documents])]
    BY <1>0, <1>2, HeldFacts DEF W!Maybe
  <2>2. Remembers(ui, FALSE)
    BY <2>1, <1>0, <1>1, HeldFacts DEF Remembers
  <2> QED
    BY <2>2, <1>0, <1>2, HeldFacts, OpenStep
<1>3. CASE UNCHANGED store /\ W!Opened(w, TRUE)
  <2>1. w.recovery = ui.recovery /\ w.base = ui.base /\ w.conflict \in BOOLEAN
    BY <1>0, HeldFacts DEF Windows
  <2> HIDE DEF w
  <2>2. Remembers(w, TRUE)
    BY <2>1, <1>0, <1>1, <1>3, HeldFacts DEF Remembers
  <2> QED
    BY <2>2, <1>0, <1>3, HeldFacts, OpenStep
<1> QED
  BY <1>2, <1>3 DEF W!OpenWithUnreadableDraft

(* The process has just started: everything is in the vault or its draft.   *)
Restarted ==
  /\ ui = W!Locked /\ unlock = W!NotUnlocking /\ actor = [a \in Actors |-> W!Gone] /\ W!StoreOK
  /\ typed \in Nat /\ newest \in Nat /\ newest <= typed /\ ends \in Nat
  /\ store \in [doc : W!Documents, draft : W!Maybe([base : W!Documents, next : W!Documents])]
  /\ store.doc.text = newest \/ \E d \in store.draft : d.next.text = newest /\ d.base = store.doc

LEMMA RestartedOK == Restarted => W!IInv
<1> SUFFICES ASSUME Restarted PROVE W!IInv
  OBVIOUS
<1> USE DEF Restarted
<1>1. /\ ui \in Windows /\ ui.at = "locked" /\ ui.recovery = {} /\ ui.actor = NoActor /\ ~ui.saved
  BY DocumentFacts DEF W!Locked, Windows, W!Maybe
<1>2. /\ unlock.at = "none"
      /\ unlock \in [at : {"none", "loaded", "read"}, doc : W!Documents,
                     probe : {"none", "some", "unavailable"}, draft : W!Maybe(W!Documents)]
  BY DocumentFacts DEF W!NotUnlocking, W!Maybe
<1>3. actor \in [Actors -> W!Mailbox] /\ \A a \in Actors : actor[a] = W!Gone
  BY GoneFacts
<1>4. W!Sane
  BY <1>1, <1>2, <1>3 DEF W!Sane, Windows
<1>5. W!MailboxOK(W!Gone)
  BY <1>4, GoneFacts, DocumentFacts, PadFacts DEF W!MailboxOK
<1>6. W!LeftBehind /\ W!NoneAble /\ \A a \in Actors : W!Work(actor[a]) = {}
  BY <1>3, GoneFacts DEF W!LeftBehind, W!NoneAble, W!Able
<1>7. W!WindowOK /\ W!SavedOK /\ W!UnlockOK /\ W!LockedOK
  BY <1>1, <1>2 DEF W!WindowOK, W!SavedOK, W!UnlockOK, W!LockedOK
<1>8. W!Found
  BY <1>1, <1>2, <1>6 DEF W!Found, W!Stored, W!Drafted, W!Rests
<1> QED
  BY <1>1, <1>3, <1>4, <1>5, <1>6, <1>7, <1>8 DEF W!IInv

LEMMA ProcessEnds ==
  ASSUME W!IInv, W!End
  PROVE  W!IInv'
<1> DEFINE T == {store.doc.text} \cup {d.next.text : d \in store.draft}
           P(t) == \A u \in T : u <= t
<1>0. /\ W!StoreOK /\ W!Sane /\ store.doc \in W!Documents /\ store.doc.text \in Nat /\ store.doc.text <= newest
      /\ newest \in Nat /\ typed \in Nat /\ newest <= typed
      /\ \A d \in store.draft : /\ store.draft = {d} /\ d.next.text \in Nat /\ d.next.text <= newest
                                 /\ store.doc \in {d.base, d.next}
  BY PadFacts, DocumentFacts DEF W!IInv, W!StoreOK, W!Sane
<1>1. \E t \in T : P(t)
  <2>1. CASE store.draft = {}
    <3>1. store.doc.text \in T /\ P(store.doc.text)
      BY <2>1, <1>0
    <3> QED
      BY <3>1
  <2>2. ASSUME NEW d \in store.draft PROVE \E t \in T : P(t)
    <3>0. T = {store.doc.text, d.next.text} /\ d.next.text \in Nat
      BY <1>0
    <3>1. CASE store.doc.text <= d.next.text
      <4>1. d.next.text \in T /\ P(d.next.text)
        BY <3>0, <3>1
      <4> QED
        BY <4>1
    <3>2. CASE d.next.text <= store.doc.text
      <4>1. store.doc.text \in T /\ P(store.doc.text)
        BY <3>0, <3>2, <1>0
      <4> QED
        BY <4>1
    <3> QED
      BY <3>0, <3>1, <3>2, <1>0
  <2> QED
    BY <2>1, <2>2
<1>2. newest' = CHOOSE t \in T : P(t)
  BY DEF W!End
<1>3. newest' \in T /\ P(newest')
  BY <1>1, <1>2
<1>4. /\ ui' = W!Locked /\ unlock' = W!NotUnlocking /\ actor' = [a \in Actors |-> W!Gone]
      /\ store' = store /\ typed' = typed /\ ends' \in Nat
  BY <1>0 DEF W!End, W!Sane
<1>5. newest' \in Nat /\ newest' <= newest /\ newest' <= typed
  BY <1>0, <1>3
<1>6. W!StoreOK'
  BY <1>0, <1>3, <1>4 DEF W!StoreOK
<1>7. store.doc.text = newest' \/ \E d \in store.draft : d.next.text = newest' /\ d.base = store.doc
  BY <1>0, <1>3
<1>8. Restarted'
  BY <1>0, <1>4, <1>5, <1>6, <1>7 DEF Restarted, W!Sane
<1> QED
  BY <1>8, RestartedOK, PTL

LEMMA PadInit == W!Init => W!IInv
<1> SUFFICES ASSUME W!Init PROVE W!IInv
  OBVIOUS
<1>1. W!FirstDoc \in W!Documents /\ W!FirstDoc.text = 0
  BY DocumentFacts DEF W!FirstDoc
<1>2. /\ store.doc = W!FirstDoc /\ store.draft = {}
      /\ store \in [doc : W!Documents, draft : W!Maybe([base : W!Documents, next : W!Documents])]
  BY <1>1 DEF W!Init, W!Maybe
<1>3. W!StoreOK
  BY <1>1, <1>2 DEF W!StoreOK, W!Init
<1> QED
  BY <1>1, <1>2, <1>3, RestartedOK DEF W!Init, Restarted

LEMMA PadNext == W!IInv /\ [W!Next]_W!vars => W!IInv'
<1> SUFFICES ASSUME W!IInv, [W!Next]_W!vars PROVE W!IInv'
  OBVIOUS
<1>1. CASE W!Next
  BY <1>1, ThreadSteps, WindowTypes, WindowSaves, WindowPolls, WindowMasks, WindowBeginsLock,
     WindowFinishesLock, UnlockLoads, UnlockProbes, UnlockCancels, OpensWithoutDraft,
     OpensWithDraft, OpensWithUnreadableDraft, ProcessEnds DEF W!Next
<1>2. CASE UNCHANGED W!vars
  BY <1>2 DEF W!vars, W!IInv, W!Sane, W!StoreOK, W!MailboxOK, W!LeftBehind, W!Able, W!WindowOK, W!ServedBy, W!SavedOK,
     W!NoneAble, W!UnlockOK, W!LockedOK, W!Found, W!Stored, W!Drafted, W!Rests
<1> QED
  BY <1>1, <1>2

(* Why nothing is lost when a lock leaves a save thread behind: what such a *)
(* thread can still write is no newer than what memory holds, memory lets   *)
(* go of a document only once the vault has it, and the newest edit is in   *)
(* the draft alone only while nobody writes.                                *)
THEOREM PadInvariant == W!Spec => []W!IInv
<1> QED
  BY PadInit, PadNext, PTL DEF W!Spec

(* Nothing the editor has handed over is lost while the process lives: it   *)
(* is on the screen, in memory, in the vault or in its draft.               *)
THEOREM EditsAreKept == W!Spec => []EditsSurvive
<1>1. W!IInv => EditsSurvive
  <2> SUFFICES ASSUME W!IInv PROVE newest \in W!Kept
    BY DEF W!EditsSurvive, EditsSurvive
  <2>1. CASE ui.at = "locked"
    BY <2>1 DEF W!IInv, W!Found, W!Stored, W!Drafted, W!Kept
  <2>2. CASE ui.at # "locked"
    BY <2>2 DEF W!IInv, W!Found, W!Stored, W!Drafted, W!Kept
  <2> QED
    BY <2>1, <2>2
<1> QED
  BY <1>1, PadInit, PadNext, PTL DEF W!Spec

(* "Saved and locked" is shown only while the vault's file has the newest   *)
(* edit, and no thread left behind can take it away again.                  *)
THEOREM SavedIsTrue == W!Spec => []SavedIsStored
<1>1. W!IInv => SavedIsStored
  <2> SUFFICES ASSUME W!IInv, ui.saved PROVE store.doc.text = newest
    BY DEF W!SavedIsStored, SavedIsStored
  <2>1. CASE ui.at = "locked"
    BY <2>1 DEF W!IInv, W!SavedOK
  <2>2. CASE ui.at # "locked"
    <3> DEFINE m == actor[ui.actor]
    <3>1. ui.actor # NoActor /\ ui.doc = m.confirmed /\ ui.doc.text = newest /\ W!ServedBy(m)
      BY <2>2 DEF W!IInv, W!SavedOK
    <3>2. ui.doc.gen \in Nat
      BY PadFacts, DocumentFacts DEF W!IInv
    <3>3. store.doc = m.confirmed
      BY <3>1, <3>2 DEF W!ServedBy
    <3> QED
      BY <3>1, <3>3
  <2> QED
    BY <2>1, <2>2
<1> QED
  BY <1>1, PadInit, PadNext, PTL DEF W!Spec
=============================================================================

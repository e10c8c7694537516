------------------------------ MODULE PadTotp ------------------------------
(* The record behind the memo pad's one-time codes: the verifier            *)
(* (crates/sakura-renderer/src/pad_totp.rs) and the store that publishes    *)
(* its state after every attempt (pad_totp_store.rs), for one document and  *)
(* scope.  Each operation holds the lock file from its first read to its    *)
(* end; it may fail or be cut off at any of its changes to the two files.   *)
(* A code is the step it is computed for, of one secret; secrets are        *)
(* numbered, and codes of two steps or secrets never collide.               *)
EXTENDS Integers

CONSTANTS
  StepUnits,    \* STEP_SECONDS, in units of time
  MaxFailures,  \* MAX_FAILURES
  MaxBackoff,   \* MAX_BACKOFF_MS, in units of time
  RollbackResetSteps,
  MaxTime,      \* bound: the clock
  MaxSecrets,   \* bound: enrollments
  MaxFaults     \* bound: failures, crashes, corrections of the clock

VARIABLES
  now,      \* the wall clock
  canon,    \* the published record
  temp,     \* its replacement
  op,       \* the operation that holds the lock
  told,     \* ghost: what callers have been told
  secrets, faults

vars == <<now, canon, temp, op, told, secrets, faults>>

-----------------------------------------------------------------------------
(* The verifier.                                                            *)

Never == -1
Wrong == -1                                 \* no code of the current secret
Least(a, b) == IF a <= b THEN a ELSE b
Most(a, b)  == IF a >= b THEN a ELSE b
StepAt(t) == t \div StepUnits

(* backoff_delay_ms.                                                        *)
Delay(failures) == Least(2 ^ Least(Most(failures - 1, 0), 6), MaxBackoff)

Fresh == [last |-> Never, greatest |-> Never, failures |-> 0, blocked |-> 0]

(* from_state.                                                              *)
Sound(s) ==
  /\ s.failures <= MaxFailures
  /\ s.last # Never => s.greatest # Never /\ s.last <= s.greatest + 1
  /\ s.failures = 0 => s.blocked = 0

Failed(s) ==
  LET n == Least(s.failures + 1, MaxFailures)
  IN  [s EXCEPT !.failures = n, !.blocked = Most(s.blocked, now + Delay(n))]

(* The clock was wrong, and has been put right; what was accepted under it  *)
(* is of a time yet to come.                                                *)
Corrected(s) == s.greatest - StepAt(now) > RollbackResetSteps
Forgotten(s) == Corrected(s) /\ s.last > StepAt(now) + 1

(* Mutant: the accepted step is always forgotten with the floor.            *)
ObservedMut(s) ==
  [s EXCEPT !.greatest = StepAt(now),
            !.last = IF Corrected(s) THEN Never ELSE @,
            !.blocked = IF Corrected(s) /\ s.failures > 0 THEN Least(@, now + Delay(s.failures)) ELSE @]

Observed(s) ==
  [s EXCEPT !.greatest = StepAt(now),
            !.last = IF Forgotten(s) THEN Never ELSE @,
            !.blocked = IF Corrected(s) /\ s.failures > 0 THEN Least(@, now + Delay(s.failures)) ELSE @]

(* verify: the state afterwards, and whether the code is accepted.          *)
Verified(s, code) ==
  LET seen == Observed(s)
  IN  CASE StepAt(now) < s.greatest /\ ~Corrected(s) -> [state |-> Failed(s), is |-> "failed"]
        [] (StepAt(now) >= s.greatest \/ Corrected(s)) /\ now < seen.blocked ->
             [state |-> seen, is |-> "limited"]
        [] OTHER ->
             IF code # Wrong /\ code > seen.last
             THEN [state |-> [seen EXCEPT !.last = code, !.failures = 0, !.blocked = 0], is |-> "ok"]
             ELSE [state |-> Failed(seen), is |-> "failed"]

-----------------------------------------------------------------------------
(* The files.                                                               *)

Record(status, secret, state) ==
  [is |-> "record", status |-> status, secret |-> secret, state |-> state]
Absent == Record("absent", 0, Fresh)
Torn   == Record("torn", 0, Fresh)
IsRecord(f) == f \notin {Absent, Torn}

(* What the next read finds (recover_temp).                                 *)
Readable == IF IsRecord(temp) THEN temp ELSE canon

NoCode == <<0, Never>>
Rest == [at |-> "rest", do |-> "none", code |-> Wrong, new |-> Absent, is |-> "none", uses |-> NoCode]

Records == [is : {"record"}, status : {"absent", "torn", "disabled", "pending", "enabled"},
            secret : 0..MaxSecrets,
            state : [last : Never..StepAt(MaxTime) + 1, greatest : Never..StepAt(MaxTime),
                     failures : 0..MaxFailures, blocked : 0..MaxTime + MaxBackoff]]

TypeOK ==
  /\ now \in 0..MaxTime /\ {canon, temp, op.new} \subseteq Records /\ canon # Torn
  /\ op.at \in {"rest", "read", "create", "write", "replace"}
  /\ told.gate \in {"off", "on", "unsure"} /\ told.failures \in 0..MaxFailures

Init ==
  /\ now = 0 /\ canon = Absent /\ temp = Absent /\ op = Rest
  /\ told = [gate |-> "off", failures |-> 0, granted |-> {}]
  /\ secrets = 0 /\ faults = 0

(* A code of a step further away is a wrong one.                            *)
Codes == {Wrong} \cup Most(StepAt(now) - 1, 0)..(StepAt(now) + 1)

Start(do, code) ==
  /\ op = Rest
  /\ do = "begin" => secrets < MaxSecrets
  /\ op' = [Rest EXCEPT !.at = "read", !.do = do, !.code = code]
  /\ UNCHANGED <<now, canon, temp, told, secrets, faults>>

(* recover_temp.                                                            *)
Recover ==
  /\ op.at = "read" /\ temp # Absent
  /\ canon' = IF IsRecord(temp) THEN temp ELSE canon
  /\ temp' = Absent
  /\ UNCHANGED <<now, op, told, secrets, faults>>

(* What the operation makes of the record, or that it may not.              *)
Allowed(r) ==
  CASE op.do = "begin" -> r.status # "enabled"
    [] op.do = "status" -> FALSE
    [] op.do \in {"cancel", "confirm"} -> r.status = "pending"
    [] op.do \in {"verify", "disable"} -> r.status = "enabled"

Result(r) ==
  LET v == Verified(r.state, op.code)
      checked == [r EXCEPT !.state = v.state]
      off == Record("disabled", 0, Fresh)
  IN  CASE op.do = "begin" -> [new |-> Record("pending", secrets + 1, Fresh), is |-> "begun"]
        [] op.do = "cancel" -> [new |-> off, is |-> "off"]
        [] op.do = "confirm" ->
             [new |-> IF v.is = "ok" THEN [checked EXCEPT !.status = "enabled"] ELSE checked, is |-> v.is]
        [] op.do = "verify" -> [new |-> checked, is |-> v.is]
        [] op.do = "disable" -> IF v.is = "ok" THEN [new |-> off, is |-> "off"]
                                ELSE [new |-> checked, is |-> v.is]

(* From the ghosts' side: what was accepted is forgotten with the step that *)
(* was accepted last; once a disable is accepted the gate may go off even   *)
(* if its caller gets an error.                                             *)
Decide ==
  LET r == canon
      consumes == Result(r).is = "ok" \/ (Result(r).is = "off" /\ op.do = "disable")
  IN  /\ op.at = "read" /\ temp = Absent
      /\ IF ~Allowed(r) THEN op' = Rest /\ UNCHANGED <<told, secrets>>
         ELSE /\ op' = [op EXCEPT !.at = "create", !.code = Wrong, !.new = Result(r).new, !.is = Result(r).is,
                                  !.uses = IF consumes THEN <<r.secret, op.code>> ELSE NoCode]
              /\ secrets' = IF op.do = "begin" THEN secrets + 1 ELSE secrets
              /\ told' = [told EXCEPT
                   !.gate = IF op.do = "disable" /\ consumes THEN "unsure" ELSE @,
                   !.failures = IF consumes THEN 0 ELSE @,
                   !.granted = IF op.do \in {"confirm", "verify", "disable"} /\ Forgotten(r.state)
                               THEN {} ELSE @]
      /\ UNCHANGED <<now, canon, temp, faults>>

-----------------------------------------------------------------------------
(* publish: a temporary file is created, written and flushed, and replaces  *)
(* the record.                                                              *)

Create ==
  /\ op.at = "create" /\ op' = [op EXCEPT !.at = "write"] /\ temp' = Torn
  /\ UNCHANGED <<now, canon, told, secrets, faults>>

Flush ==
  /\ op.at = "write" /\ op' = [op EXCEPT !.at = "replace"] /\ temp' = op.new
  /\ UNCHANGED <<now, canon, told, secrets, faults>>

Published ==
  /\ op' = Rest /\ canon' = op.new /\ temp' = Absent
  /\ told' = [gate |-> CASE op.do = "confirm" /\ op.is = "ok" -> "on"
                         [] op.is = "off" -> "off"
                         [] OTHER -> told.gate,
              failures |-> IF op.is = "failed" /\ op.do = "verify" THEN op.new.state.failures
                           ELSE told.failures,
              granted |-> IF op.uses = NoCode THEN told.granted ELSE told.granted \cup {op.uses}]
  /\ UNCHANGED <<now, secrets>>

Replace == op.at = "replace" /\ Published /\ UNCHANGED faults

-----------------------------------------------------------------------------
(* Faults.                                                                  *)

Fault == faults < MaxFaults /\ faults' = faults + 1
Ends(canonical, temporary) ==
  /\ op' = Rest /\ canon' = canonical /\ temp' = temporary /\ UNCHANGED <<now, told, secrets>>

(* The recovery cannot remove or replace; a failed ReplaceFileW may have    *)
(* taken the record away already.                                           *)
RecoverFails ==
  /\ op.at = "read" /\ temp # Absent /\ Fault
  /\ \E canonical \in {canon} \cup (IF IsRecord(temp) THEN {Absent} ELSE {}) : Ends(canonical, temp)

WriteFails ==
  /\ op.at \in {"create", "write"} /\ Fault
  /\ \E temporary \in {Absent} \cup (IF op.at = "write" THEN {Torn} ELSE {}) : Ends(canon, temporary)

(* Mutant: the temporary file is removed though it is the only record left. *)
AfterFailedReplaceMut == \E canonical \in {canon, Absent} : Ends(canonical, Absent)

(* resolve_replace_failure: the record is still there and the temporary     *)
(* file goes, if it can be removed; or the record is gone, and the file     *)
(* takes its place or stays for the next read.                              *)
AfterFailedReplace ==
  \/ \E temporary \in {Absent, temp} : canon # Absent /\ Ends(canon, temporary)
  \/ Published
  \/ Ends(Absent, temp)

ReplaceFails == op.at = "replace" /\ Fault /\ AfterFailedReplace

Crash == op # Rest /\ Fault /\ Ends(canon, temp)

(* Time passes; the clock is put back.                                      *)
Tick ==
  /\ op = Rest /\ now' \in now..MaxTime
  /\ UNCHANGED <<canon, temp, op, told, secrets, faults>>
PutBack ==
  /\ op = Rest /\ now' \in 0..now /\ Fault
  /\ UNCHANGED <<canon, temp, op, told, secrets>>

Next ==
  \/ \E do \in {"status", "begin", "cancel"} : Start(do, Wrong)
  \/ \E do \in {"confirm", "verify", "disable"}, code \in Codes : Start(do, code)
  \/ Recover \/ Decide \/ Create \/ Flush \/ Replace
  \/ RecoverFails \/ WriteFails \/ ReplaceFails \/ Crash \/ Tick \/ PutBack

Spec == Init /\ [][Next]_vars

-----------------------------------------------------------------------------
(* Properties.                                                              *)

(* No code is accepted twice ("replay protection"), wherever an attempt was *)
(* cut off and however the clock moved, unless it has been corrected by     *)
(* more than ROLLBACK_RESET_STEPS to a time before the last one accepted.   *)
AcceptedOnce == op.uses # NoCode => op.uses \notin told.granted

(* A gate the user was told is on stays on until a code has been accepted   *)
(* for switching it off, its record stays one the verifier takes, and the   *)
(* failures told to the user still count ("accepted steps, failure counts,  *)
(* and back-off are never rolled back").                                    *)
GateStaysOn ==
  told.gate = "on" =>
    /\ Readable.status = "enabled" /\ Sound(Readable.state)
    /\ Readable.state.failures >= told.failures
    /\ \A g \in told.granted : g[1] = Readable.secret => g[2] <= Readable.state.last

-----------------------------------------------------------------------------
(* Why.  A record, in whichever file, is of a secret that was given out and *)
(* in a state the verifier takes.                                           *)
States == [last : Int, greatest : Int, failures : Nat, blocked : Nat]
Files(n) == [is : {"record"}, status : {"absent", "torn", "disabled", "pending", "enabled"},
             secret : 0..n, state : States]
Uses(n)  == (1..n) \X Int                   \* codes of the first n secrets

Filed(f) ==
  /\ f \in Files(secrets) /\ Sound(f.state)
  /\ f.status \in {"pending", "enabled"} => f.secret # 0

FilesOK == now \in Nat /\ secrets \in Nat /\ \A f \in {canon, temp, op.new} : Filed(f)

(* What was accepted is not after the last step of the record, unless it is *)
(* of another secret.                                                       *)
BooksKept ==
  /\ told \in [gate : {"off", "on", "unsure"}, failures : 0..MaxFailures, granted : SUBSET Uses(secrets)]
  /\ \A f \in {canon, temp, op.new}, g \in told.granted :
       g[1] = f.secret => g[2] <= f.state.last

(* An operation has decided and is replacing the record.                    *)
Publishing == op.at \in {"create", "write", "replace"}

OperationOK ==
  /\ op \in [at : {"rest", "read", "create", "write", "replace"},
             do : {"none", "status", "begin", "cancel", "confirm", "verify", "disable"},
             code : Int, new : Files(secrets), is : {"none", "begun", "ok", "off", "limited", "failed"},
             uses : Uses(secrets) \cup {NoCode}]
  /\ \/ op = Rest
     \/ op.at = "read" /\ op.do # "none" /\ op.uses = NoCode /\ op.code \in Codes
     \/ /\ Publishing /\ op.new.status \in {"disabled", "pending", "enabled"}
        /\ temp = CASE op.at = "create" -> Absent [] op.at = "write" -> Torn
                    [] op.at = "replace" -> op.new
  /\ op.uses # NoCode =>
       /\ op.uses \notin told.granted
       /\ op.uses[1] = op.new.secret => op.uses[2] <= op.new.state.last

(* With the gate on, every record that may be read next is of an enabled    *)
(* gate and counts the failures the user was told.                          *)
Guards(f) == f.status = "enabled" /\ f.state.failures >= told.failures

GateOK ==
  /\ told.gate = "on" => Guards(Readable) /\ (Publishing => Guards(canon) /\ Guards(op.new))
  /\ Publishing /\ op.do = "confirm" /\ op.is = "ok" => Guards(op.new)

IInv == FilesOK /\ BooksKept /\ OperationOK /\ GateOK
=============================================================================

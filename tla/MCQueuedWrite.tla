---------------------------- MODULE MCQueuedWrite ----------------------------
(* Small instances of QueuedWrite.  `setting' says which host a behaviour   *)
(* has: one that does everything a host may do ("faults"); one that never   *)
(* calls back from inside a call and keeps what it accepted ("calm"), which *)
(* is given more keys; or one that runs what it accepted, on a thread that  *)
(* keeps running ("live").                                                  *)
EXTENDS QueuedWrite, TLC

VARIABLE setting

Calm == INSTANCE QueuedWrite WITH
          MaxId <- 6, MaxKeys <- 3, MaxEvents <- 1,
          Refuses <- FALSE, Late <- FALSE, Expires <- FALSE, Drops <- FALSE, Reenters <- FALSE

Live == INSTANCE QueuedWrite WITH
          MaxId <- 4, MaxEvents <- 1, Late <- FALSE, Expires <- FALSE, Silent <- FALSE

SettingInit == setting \in {"faults", "calm", "live"} /\ Init

SettingNext ==
  /\ UNCHANGED setting
  /\ \/ setting = "faults" /\ Next
     \/ setting = "calm" /\ Calm!Next
     \/ setting = "live" /\ Live!Next

SettingSpec ==
  /\ SettingInit /\ [][SettingNext]_<<setting, vars>>
  /\ WF_vars(setting = "live" /\ Live!Goes)

(* With the calm host the engine and the document never part.               *)
CalmReplacesWhatWasRead == setting = "calm" => ReplacesWhatWasRead

(* With a thread that keeps running, what is under way ends.                *)
LiveComesToRest == setting = "live" => ComesToRest
=============================================================================

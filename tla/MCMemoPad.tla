----------------------------- MODULE MCMemoPad -----------------------------
(* A small instance of the memo pad: its files through every save,          *)
(* migration and password change ("files"), the window ("window") and the   *)
(* codes ("codes").                                                         *)
EXTENDS MemoPad

VARIABLE scenario

PadInit == scenario \in {"files", "window", "codes"} /\ Init /\ W!Init /\ C!Init

PadNext ==
  /\ UNCHANGED scenario
  /\ \/ scenario = "files"  /\ Next   /\ UNCHANGED <<windowVars, codeVars>>
     \/ scenario = "window" /\ W!Next /\ UNCHANGED <<vars, codeVars>>
     \/ scenario = "codes"  /\ C!Next /\ UNCHANGED <<vars, windowVars>>

PadSpec == PadInit /\ [][PadNext]_<<scenario, vars, windowVars, codeVars>>

ActorSymmetry == Permutations(Actors)
=============================================================================

------------------------------ MODULE MemoPad ------------------------------
(* The memo pad of the renderer (crates/sakura-renderer) in three parts     *)
(* that share no state: its files, the window of a vault with its save      *)
(* actors, and the record of its one-time codes.                            *)
EXTENDS PadStore

CONSTANTS
  Actors, NoActor,              \* save actors that may exist at once
  MaxTyped, MaxGen, MaxEnds,    \* bounds: edits, generations, ends of the process
  StepUnits, MaxFailures, MaxBackoff, RollbackResetSteps,  \* the verifier's numbers
  MaxTime, MaxSecrets           \* bounds: the clock, enrollments

ASSUME CodeAssumption ==
  StepUnits \in Nat \ {0} /\ MaxFailures \in Nat \ {0} /\ MaxBackoff \in Nat
ASSUME SaverAssumption == NoActor \notin Actors

VARIABLES
  ui, unlock, actor, store, typed, newest, ends,
  now, canon, temp, codeOp, codeTold, secrets, codeFaults

windowVars == <<ui, unlock, actor, store, typed, newest, ends>>
codeVars   == <<now, canon, temp, codeOp, codeTold, secrets, codeFaults>>

W == INSTANCE PadSave WITH edits <- typed, MaxEdits <- MaxTyped
C == INSTANCE PadTotp WITH op <- codeOp, told <- codeTold, faults <- codeFaults

(* The newest edit handed over is on screen, in memory, in the vault or in  *)
(* its draft.                                                               *)
EditsSurvive == W!EditsSurvive

(* "Saved and locked" is shown only of the newest edit.                     *)
SavedIsStored == W!SavedIsStored

(* No code is accepted twice.                                               *)
AcceptedOnce == C!AcceptedOnce

(* A gate that is on stays on until a code has been accepted for switching  *)
(* it off.                                                                  *)
GateStaysOn == C!GateStaysOn
=============================================================================

----------------------------- MODULE EngineData -----------------------------
(* What the engine (crates/sakura-engine) keeps or shows of the user's data *)
(* and shares no state: clicks on candidate lists, the developer history,   *)
(* the reranker's choices, the AI job.                                      *)
EXTENDS CandidateClick, FiniteSets

CONSTANTS
  Writers, Clearers,                \* connections that record and that clear
  QueueLimit,                       \* capacity of the history's channel
  MaxInputs, MaxClear, MaxCompact, MaxCrash,  \* bounds: its records and events
  Sessions, Readings,               \* of the reranker
  MaxVersion, MaxGen,               \* bounds: its dictionaries and requests
  Clients, Texts,                   \* of the AI job
  MaxCooldowns, MaxJobIds           \* bounds: its cooldowns and numbers

ASSUME ClientsAssumption == IsFiniteSet(Clients)

VARIABLES ih, rr, ai

H == INSTANCE InputHistory WITH Capacity <- QueueLimit, MaxId <- MaxInputs
R == INSTANCE Reranker
A == INSTANCE AiText WITH MaxId <- MaxJobIds

(* What was typed before an acknowledged clear is in no file.               *)
ClearedStaysCleared == H!ClearedStaysCleared

(* What a flush said is on disk stays there, or is under the name from      *)
(* which a recovery takes it.                                               *)
FlushedSurvives == H!FlushedSurvives

(* A choice replaced by the model was scored among exactly the candidates   *)
(* on the list it is taken for.                                             *)
NoStaleChoice == R!NoStaleChoice

(* There is never a second helper process, and the slot comes back.         *)
SlotFollowsHelper == A!SlotFollowsHelper
=============================================================================

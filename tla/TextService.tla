----------------------------- MODULE TextService -----------------------------
(* Two parts of the text service (crates/sakura-tsf) that share no state:   *)
(* the journal of the writes it makes to documents, with its coordinator,   *)
(* and its conversation with the engine.                                    *)
EXTENDS WriteCoordinator

CONSTANTS
  Patient,      \* PATIENT_BUDGET, in units of DESIGN_BUDGET
  MaxKeys,      \* bound: real keys typed
  MaxRequests,  \* bound: requests on one connection
  Orphans       \* whether a call from which nobody recovers may lose a
                \* session whose reading is on screen

ASSUME LinkAssumption == Patient \in Nat /\ Orphans \in BOOLEAN

VARIABLES link, blocked, misses, left, call, pipe, reading, up, doc, shown, typed, silences

linkVars == <<link, blocked, misses, left, call, pipe, reading, up, doc, shown, typed, silences>>

L == INSTANCE EngineLink WITH MaxId <- MaxRequests

(* No key is in the document twice (EachKeyOnce of EngineLink).             *)
EachKeyOnce == L!EachKeyOnce

(* A link in good standing has a session that composes what is shown.       *)
ComposesWhatIsShown == L!ComposesWhatIsShown

(* Text that was on screen stays in the document or on screen.              *)
SeenStays == L!SeenStays
=============================================================================

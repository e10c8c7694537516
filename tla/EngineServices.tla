--------------------------- MODULE EngineServices ---------------------------
(* Services of the engine (crates/sakura-engine) that share no state: the   *)
(* life cycle of the developer history, the prediction worker behind its    *)
(* mailbox, and those who watch the board.                                  *)
EXTENDS HistoryRuntime

CONSTANTS
  Callers,   \* pipe workers that ask for predictions
  MaxSeq,    \* bound: queries
  MaxEpoch,  \* bound: changes of the learned history
  Watchers,  \* renderers
  MaxRev,    \* bound: revisions of one engine's board
  MaxStarts, \* bound: engines started
  MaxFaults  \* bound: pipes that break under an answer

ASSUME WatchersAssumption == IsFiniteSet(Watchers)

VARIABLES pm, uw

P == INSTANCE PredictionMailbox
W == INSTANCE UiWatch

(* A list that is shown was ranked with the history of the moment it is     *)
(* shown.                                                                   *)
ShownIsCurrent == P!ShownIsCurrent

(* An engine that ends without having run out of grace has answered every   *)
(* watcher that was waiting when it was stopped.                            *)
FarewellReachesWatchers == W!FarewellReachesWatchers
=============================================================================

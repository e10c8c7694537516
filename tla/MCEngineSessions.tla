-------------------------- MODULE MCEngineSessions --------------------------
(* Small instances of what the engine's pipe workers and their sessions     *)
(* share.  `setting' says which a behaviour has: the composition fence with *)
(* one latch for two hosts ("fence"), the pipe instances of one endpoint    *)
(* ("pool"), or what becomes of commits: one reading retyped twice          *)
(* ("retype"), two readings ("readings"), two sessions ("sessions"), a lost *)
(* connection or a clear of the learning ("ends").                          *)
EXTENDS EngineSessions

CONSTANTS a, b

VARIABLES
  setting,
  commits, ses, staged, known, proof, deletion, doc, lost, excused, rejected, ended

commitVars == <<commits, ses, staged, known, proof, deletion, doc, lost, excused, rejected, ended>>

(* A commit that chose no candidate leaves no left context; a key that      *)
(* opens the next composition confirms a chosen one.                        *)
Way(kind, context, more) == [kind |-> kind, context |-> context, more |-> more]
Chosen  == {Way("learn", TRUE, FALSE)}
Typing  == Chosen \cup {Way("learn", TRUE, TRUE)}
AllWays == Typing \cup {Way("correct", FALSE, FALSE), Way("private", TRUE, FALSE)}

K1 == INSTANCE CommitLearning WITH
       Sessions <- {a}, Readings <- {1}, Surfaces <- {1, 2}, Ways <- Chosen, MaxCommits <- 3,
       MaxStaged <- 1, MaxTrail <- 2, MaxEnds <- 0, Clicks <- FALSE, Ai <- FALSE, Menu <- FALSE
K2 == INSTANCE CommitLearning WITH
       Sessions <- {a}, Readings <- {1, 2}, Surfaces <- {1, 2}, Ways <- AllWays, MaxCommits <- 2,
       MaxStaged <- 1, MaxTrail <- 2, MaxEnds <- 0, Clicks <- FALSE, Ai <- FALSE, Menu <- FALSE
K3 == INSTANCE CommitLearning WITH
       Sessions <- {a, b}, Readings <- {1}, Surfaces <- {1}, Ways <- Typing, MaxCommits <- 2,
       MaxStaged <- 1, MaxTrail <- 2, MaxEnds <- 0, Clicks <- FALSE, Ai <- FALSE, Menu <- FALSE
K4 == INSTANCE CommitLearning WITH
       Sessions <- {a}, Readings <- {1}, Surfaces <- {1, 2}, Ways <- Chosen, MaxCommits <- 2,
       MaxStaged <- 1, MaxTrail <- 2, MaxEnds <- 1, Clicks <- FALSE, Ai <- FALSE, Menu <- FALSE

SettingInit ==
  /\ setting \in {"fence", "pool", "retype", "readings", "sessions", "ends"}
  /\ Init /\ Pool!Init
  /\ CASE setting = "retype" -> K1!Init [] setting = "sessions" -> K3!Init [] OTHER -> K2!Init

SettingNext ==
  /\ UNCHANGED setting
  /\ \/ setting = "fence"    /\ Next      /\ UNCHANGED <<pool, commitVars>>
     \/ setting = "pool"     /\ Pool!Next /\ UNCHANGED <<vars, commitVars>>
     \/ setting = "retype"   /\ K1!Next   /\ UNCHANGED <<vars, pool>>
     \/ setting = "readings" /\ K2!Next   /\ UNCHANGED <<vars, pool>>
     \/ setting = "sessions" /\ K3!Next   /\ UNCHANGED <<vars, pool>>
     \/ setting = "ends"     /\ K4!Next   /\ UNCHANGED <<vars, pool>>

SettingSpec == SettingInit /\ [][SettingNext]_<<setting, pool, vars, commitVars>>

NothingErasedIsLearnt == K1!NothingErasedIsLearnt
StandingIsLearntOnce  == K1!StandingIsLearntOnce
RejectedWasErased     == K1!RejectedWasErased
CarryFollowsCaret     == K1!CarryFollowsCaret

FenceSymmetry == Permutations(Hosts) \cup Permutations(Owners)
=============================================================================

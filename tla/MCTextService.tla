--------------------------- MODULE MCTextService ---------------------------
(* A small instance of TextService: the journal ("journal") for a host with *)
(* two contexts, a queue of two, and projections "nothing" and "something"; *)
(* and the conversation with the engine ("link").                           *)
EXTENDS TextService, TLC

VARIABLE part

PartInit == part \in {"journal", "link"} /\ Init /\ L!Init

PartNext ==
  \/ part = "journal" /\ Next   /\ UNCHANGED <<part, linkVars>>
  \/ part = "link"    /\ L!Next /\ UNCHANGED <<part, vars>>

PartSpec == PartInit /\ [][PartNext]_<<part, vars, linkVars>>

ContextSymmetry == Permutations(Contexts)
=============================================================================

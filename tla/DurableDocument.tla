-------------------------- MODULE DurableDocument --------------------------
(* What a store of one document promises, whatever files it keeps it in:    *)
(* the stored document is replaced as a whole and by a newer one only, and  *)
(* the user is told of a document only while it is the stored one.          *)
CONSTANTS
  Empty,           \* the document of a store never written
  IsNewer(_, _)    \* whether the first may replace the second

VARIABLES
  stored,   \* the document that would be found now
  told      \* the document last reported saved or shown

Init == stored = Empty /\ told = Empty

Store == stored' # stored /\ IsNewer(stored', stored) /\ UNCHANGED told

Tell == told' = stored /\ UNCHANGED stored

Next == Store \/ Tell

Spec == Init /\ [][Next]_<<stored, told>>
=============================================================================

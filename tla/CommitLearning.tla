--------------------------- MODULE CommitLearning ---------------------------
(* What the engine makes of a commit afterwards: it is staged, not learnt,  *)
(* until the session's next action shows that it stands (learning.rs), it   *)
(* can be undone while it is the last one (session.rs), and what the user   *)
(* erases and types again with another surface is rejected (correction.rs). *)
(* The engine sees none of the document: the text service proves once that  *)
(* the caret still follows the commit, before the first key after it.       *)
(*                                                                          *)
(* `doc' and `lost' are the truth the engine guesses at: the commits        *)
(* directly left of the caret, and how many characters each commit lost.    *)
EXTENDS Integers, Sequences, SequencesExt, FiniteSets

CONSTANTS
  Sessions,       \* sessions, one on each connection
  Readings,       \* readings typed
  Surfaces,       \* lengths of the surfaces committed; equal length, equal text
  Ways,           \* ways to commit: what the commit teaches, whether it
                  \* leaves a left context and opens the next composition
  MaxCommits,     \* commits in a behaviour
  MaxStaged,      \* MAX_STAGED_COMMITS
  MaxTrail,       \* MAX_TRAIL_ENTRIES
  MaxEnds,        \* connections lost and clears of the learning
  Clicks,         \* the caret may also move where no proof is left to fail
  Ai,             \* AI text may be applied
  Menu            \* the mode menu may be used after the caret has moved

VARIABLES
  commits,        \* every commit: its reading and surface
  ses,            \* engine: the sessions
  staged,         \* engine: LearningService's staged records, oldest first
  known,          \* engine: the commits learnt
  proof,          \* text service: what it holds of the last commit's place
  deletion,       \* text service: how the deletion it asked for stands
  doc,            \* the commits directly left of each caret
  lost,           \* characters each commit lost
  excused,        \* commits whose fate is unknown, or that may not be learnt
  rejected,       \* commits whose surface was rejected
  ended

vars == <<commits, ses, staged, known, proof, deletion, doc, lost, excused, rejected, ended>>

Ids == 1..MaxCommits

NoAsk == [at |-> "rest", id |-> 0]

NoUndo == [state |-> "none", id |-> 0, before |-> 0, after |-> 0]

EmptyTrail == [standing |-> << >>, pending |-> << >>, over |-> 0]

(* A session: what it composes, the commit its left context comes from (0   *)
(* none), its undo record and its trail.                                    *)
Fresh == [comp |-> "idle", carry |-> 0, undo |-> NoUndo, trail |-> EmptyTrail]

Init ==
  /\ commits = << >> /\ ses = [s \in Sessions |-> Fresh]
  /\ staged = << >> /\ known = {}
  /\ proof = [s \in Sessions |-> "none"] /\ deletion = [s \in Sessions |-> NoAsk]
  /\ doc = [s \in Sessions |-> << >>] /\ lost = [i \in Ids |-> 0]
  /\ excused = {} /\ rejected = {} /\ ended = 0

-----------------------------------------------------------------------------
(* LearningService.  A record is the owner's commit, whether it teaches its *)
(* surface or only rejects, what it rejects, and whether it awaits an undo. *)

Of(s) == SelectSeq(staged, LAMBDA r : r.owner = s)
Others(s) == SelectSeq(staged, LAMBDA r : r.owner # s)

Learnt(records)   == {r.id : r \in {x \in ToSet(records) : x.teaches}}
Corrected(records) == UNION {r.rejects : r \in ToSet(records)}

(* learn_staged of the taken records; the rest stays.                       *)
Settle(taken, rest) ==
  /\ staged' = rest
  /\ known' = known \cup Learnt(taken)
  /\ rejected' = rejected \cup Corrected(taken)

ConfirmStaged(s) == Settle(Of(s), Others(s))

DiscardStaged(s) == Settle(<< >>, Others(s))

(* Mutant: a record that awaits an undo is confirmed with the others.       *)
HeldMut(r) == FALSE

Held(r) == r.held

(* Mutant: what is learnt stays staged.                                     *)
ConfirmAllStagedMut == Settle(SelectSeq(staged, LAMBDA r : ~Held(r)), staged)

ConfirmAllStaged ==
  Settle(SelectSeq(staged, LAMBDA r : ~Held(r)), SelectSeq(staged, LAMBDA r : Held(r)))

Hold(s, held) ==
  /\ staged' = [k \in DOMAIN staged |->
                  IF staged[k].owner = s THEN [staged[k] EXCEPT !.held = held] ELSE staged[k]]
  /\ UNCHANGED <<known, rejected>>

(* stage_record: the owner's previous record is learnt; a full table makes  *)
(* room with the oldest record that awaits no undo, learnt, or else with    *)
(* the oldest of all, dropped.                                              *)
Oldest(records) ==
  LET free == {k \in DOMAIN records : ~Held(records[k])}
  IN IF free = {} THEN 1 ELSE CHOOSE k \in free : \A j \in free : k <= j

Evicted(s) ==
  LET rest == Others(s) IN IF Len(rest) < MaxStaged THEN << >> ELSE <<rest[Oldest(rest)]>>

Stage(s, record) ==
  LET out  == Evicted(s)
      kept == SelectSeq(Others(s), LAMBDA r : r \notin ToSet(out))
  IN /\ Settle(Of(s) \o SelectSeq(out, LAMBDA r : ~Held(r)), Append(kept, record))
     /\ excused' = excused \cup {r.id : r \in {x \in ToSet(out) : Held(x)}}

-----------------------------------------------------------------------------
(* CorrectionTrail.  An entry is a commit and the commits it was typed to   *)
(* replace.                                                                 *)

Pushed(t, entry) ==
  LET full == Len(t.standing) + Len(t.pending) = MaxTrail
      standing == IF full /\ t.standing # << >> THEN Tail(t.standing) ELSE t.standing
      pending  == IF full /\ t.standing = << >> THEN Tail(t.pending) ELSE t.pending
  IN [t EXCEPT !.standing = Append(standing, entry), !.pending = pending]

(* Erased commits whose surface differs from the chosen one: the first and  *)
(* the latest (RejectedList::merged).                                       *)
Merged(olds, latest, surface) ==
  LET others == {i \in olds \cup {latest} : commits[i].surface # surface}
      found  == {i \in others : \A j \in others : commits[j].surface = commits[i].surface => i <= j}
  IN {i \in found : (\A j \in found : i <= j) \/ (\A j \in found : j <= i)}

(* CorrectionTrail::commit: the trail, and what the commit corrects.        *)
(* Mutant: a half erased commit left of the caret does not end the trail.   *)
StartOfMut(t) == t

StartOf(t) == IF t.over > 0 THEN EmptyTrail ELSE t

Tracked(trail, id, reading, surface) ==
  LET t   == StartOf(trail)
      hit == t.pending # << >> /\ commits[Last(t.pending).id].reading = reading
      top == Last(t.pending)
      rejects == IF hit THEN Merged(top.rejects, top.id, surface) ELSE {}
  IN [trail |-> Pushed([t EXCEPT !.pending = IF hit THEN Front(@) ELSE << >>],
                       [id |-> id, chars |-> surface, rejects |-> rejects]),
      rejects |-> rejects]

TopToPending(t) ==
  [t EXCEPT !.standing = Front(@), !.pending = Append(@, Last(t.standing))]

(* CorrectionTrail::erase: one character; a commit erased whole is pending, *)
(* and beyond the last one it is all the same how far.                      *)
Erased(t) ==
  IF t.standing = << >> THEN [t EXCEPT !.over = 1]
  ELSE IF t.over + 1 >= Last(t.standing).chars THEN TopToPending([t EXCEPT !.over = 0])
  ELSE [t EXCEPT !.over = @ + 1]

(* CorrectionTrail::undo_applied.                                           *)
UndoneIn(t, id) ==
  IF t.over = 0 /\ t.standing # << >>
     /\ commits[Last(t.standing).id].surface = commits[id].surface
  THEN TopToPending(t) ELSE EmptyTrail

-----------------------------------------------------------------------------
(* Keys.  A real key first consumes the proof of the last commit's place; a *)
(* proof that fails, or was withdrawn, resets the document context instead. *)

Pending(s) == ses[s].undo.state = "pending"
Becomes(s, session) == ses' = [ses EXCEPT ![s] = session]
Proves(s, p) == proof' = [proof EXCEPT ![s] = p]
Leaves(s)    == doc' = [doc EXCEPT ![s] = << >>]

Text == <<doc, lost>>
Learning == <<staged, known, rejected>>
Steady == UNCHANGED <<commits, deletion, excused, ended>>

(* Request::SendKey, refused while an undo is pending.                      *)
Key(s, session) ==
  /\ ~Pending(s) /\ proof[s] \in {"none", "fresh"}
  /\ Becomes(s, session) /\ Proves(s, "none")

Disarmed(session) == [session EXCEPT !.undo = NoUndo]

(* Mutant: the left context outlives the place it describes (#273).         *)
UnplacedMut(session) == [session EXCEPT !.trail = EmptyTrail]

Unplaced(session) == [session EXCEPT !.carry = 0, !.trail = EmptyTrail]

(* A character opens a composition, which decides nothing about the commit. *)
Type(s) ==
  /\ ses[s].comp = "idle" /\ Key(s, [Disarmed(ses[s]) EXCEPT !.comp = "composing"])
  /\ Steady /\ UNCHANGED <<Learning, Text>>

(* An idle key that the host gets may move the caret or insert text.        *)
PassedKey(s) ==
  /\ ses[s].comp = "idle"
  /\ Key(s, Unplaced(Disarmed(ses[s])))
  /\ ConfirmStaged(s) /\ Leaves(s)
  /\ Steady /\ UNCHANGED lost

(* An idle key that is eaten without effect.                                *)
EatenKey(s) ==
  /\ ses[s].comp = "idle" /\ Key(s, [Disarmed(ses[s]) EXCEPT !.trail = EmptyTrail])
  /\ ConfirmStaged(s)
  /\ Steady /\ UNCHANGED Text

(* The host deletes n characters of the last commit left of the caret.      *)
Loses(s, n) ==
  IF doc[s] = << >> THEN UNCHANGED Text
  ELSE LET i == Last(doc[s])
           gone == lost[i] + n >= commits[i].surface
       IN /\ lost' = [lost EXCEPT ![i] = IF gone THEN commits[i].surface ELSE @ + n]
          /\ doc' = [doc EXCEPT ![s] = IF gone THEN Front(@) ELSE @]

Backspace(s) ==
  /\ ses[s].comp = "idle"
  /\ Key(s, [Disarmed(ses[s]) EXCEPT !.carry = 0, !.trail = Erased(@)])
  /\ DiscardStaged(s) /\ Loses(s, 1)
  /\ Steady

Armed(s) == ses[s].undo.state = "armed"

(* Ctrl+Backspace with nothing to undo goes to the host: it erases a word. *)
EraseWord(s) ==
  /\ ses[s].comp = "idle" /\ ~Armed(s)
  /\ Key(s, Unplaced(Disarmed(ses[s])))
  /\ DiscardStaged(s) /\ Loses(s, MaxCommits + Cardinality(Surfaces) + 1)
  /\ Steady

(* Session::undo_commit: the reading is composed again while the host is    *)
(* asked to delete the commit.                                              *)
Undo(s) ==
  /\ ses[s].comp = "idle" /\ Armed(s)
  /\ Key(s, [ses[s] EXCEPT !.comp = "composing", !.carry = ses[s].undo.before,
                           !.undo.state = "pending"])
  /\ Hold(s, TRUE)
  /\ deletion' = [deletion EXCEPT ![s] = [at |-> "asked", id |-> ses[s].undo.id]]
  /\ UNCHANGED <<commits, excused, ended, Text>>

Cancel(s) ==
  /\ ses[s].comp # "idle"
  /\ Key(s, [Disarmed(ses[s]) EXCEPT
               !.comp = IF @ = "converting" THEN "composing" ELSE "idle"])
  /\ Steady /\ UNCHANGED <<Learning, Text>>

(* Ranking reads the learning: what survived until now counts.              *)
Convert(s) ==
  /\ ses[s].comp = "composing" /\ Key(s, [Disarmed(ses[s]) EXCEPT !.comp = "converting"])
  /\ ConfirmAllStaged
  /\ Steady /\ UNCHANGED Text

(* record_learning.  A commit in a field of unknown kind teaches nothing    *)
(* ("private"); one that chose no candidate only corrects.                  *)
Recorded(s, id, kind, rejects) ==
  LET record == [owner |-> s, id |-> id, teaches |-> kind = "learn",
                 rejects |-> rejects, held |-> FALSE]
  IN IF kind = "learn" \/ (kind = "correct" /\ rejects # {})
     THEN Stage(s, record) ELSE ConfirmStaged(s) /\ UNCHANGED excused

(* commit_pending, by a key, a click or the loss of focus.                  *)
Commit(s, reading, surface, way) ==
  LET kind == way.kind
      id == Len(commits) + 1
      old == ses[s]
      new == IF way.context THEN id ELSE 0
      tracked == IF kind = "private" THEN [trail |-> EmptyTrail, rejects |-> {}]
                 ELSE Tracked(old.trail, id, reading, surface)
  IN /\ old.comp # "idle" /\ ~Pending(s) /\ id <= MaxCommits
     /\ Becomes(s, [comp |-> IF way.more THEN "composing" ELSE "idle", carry |-> new,
                    undo |-> IF way.more THEN NoUndo
                             ELSE [state |-> "armed", id |-> id, before |-> old.carry, after |-> new],
                    trail |-> tracked.trail])
     /\ Recorded(s, id, kind, tracked.rejects)
     /\ commits' = Append(commits, [reading |-> reading, surface |-> surface, learns |-> kind = "learn"])
     /\ doc' = [doc EXCEPT ![s] = Append(@, id)]
     /\ Proves(s, IF way.more THEN "none" ELSE "fresh")
     /\ UNCHANGED <<deletion, lost, ended>>

-----------------------------------------------------------------------------
(* What becomes of an undo.  The host deletes exactly the committed text or *)
(* nothing; the text service reports it, or reports that it cannot know.    *)

HostDeletes(s) ==
  /\ deletion[s].at = "asked" /\ doc[s] # << >> /\ Last(doc[s]) = deletion[s].id
  /\ lost[deletion[s].id] = 0
  /\ Loses(s, commits[deletion[s].id].surface)
  /\ deletion' = [deletion EXCEPT ![s].at = "deleted"]
  /\ UNCHANGED <<commits, ses, Learning, proof, excused, ended>>

HostRefuses(s) ==
  /\ deletion[s].at = "asked" /\ deletion' = [deletion EXCEPT ![s].at = "refused"]
  /\ UNCHANGED <<commits, ses, Learning, proof, excused, ended, Text>>

Reported(s, at) ==
  /\ Pending(s) /\ deletion[s].at \in at /\ deletion' = [deletion EXCEPT ![s] = NoAsk]
  /\ UNCHANGED <<commits, proof, ended, Text>>

UndoApplied(s) ==
  /\ Reported(s, {"deleted"})
  /\ Becomes(s, [ses[s] EXCEPT !.undo = NoUndo, !.trail = UndoneIn(@, ses[s].undo.id)])
  /\ DiscardStaged(s) /\ UNCHANGED excused

UndoRejected(s) ==
  /\ Reported(s, {"refused"})
  /\ Becomes(s, [ses[s] EXCEPT !.comp = "idle", !.carry = ses[s].undo.after,
                               !.undo.state = "armed", !.trail = EmptyTrail])
  /\ Hold(s, FALSE) /\ UNCHANGED excused

UndoUnknown(s) ==
  /\ Reported(s, {"deleted", "refused"})
  /\ Becomes(s, Fresh)
  /\ DiscardStaged(s) /\ excused' = excused \cup {ses[s].undo.id}

-----------------------------------------------------------------------------
(* Other requests, all refused while an undo is pending.                    *)

(* apply_ai_composition: the composition ends as the text of the answer.    *)
ApplyAi(s) ==
  /\ Ai /\ ses[s].comp # "idle" /\ ~Pending(s)
  /\ Becomes(s, [Disarmed(ses[s]) EXCEPT !.comp = "idle", !.trail = EmptyTrail])
  /\ ConfirmStaged(s) /\ Leaves(s) /\ Proves(s, "fresh")
  /\ Steady /\ UNCHANGED lost

Reconvert(s) ==
  /\ ses[s].comp = "idle" /\ ~Pending(s)
  /\ Becomes(s, [Unplaced(ses[s]) EXCEPT !.comp = "converting"])
  /\ ConfirmAllStaged /\ Leaves(s) /\ Proves(s, "none")
  /\ Steady /\ UNCHANGED lost

Revert(s) ==
  /\ ses[s].comp # "idle" /\ ~Pending(s)
  /\ Becomes(s, [Disarmed(ses[s]) EXCEPT !.comp = "idle", !.trail = EmptyTrail])
  /\ Steady /\ UNCHANGED <<Learning, proof, Text>>

(* The text service's answer to a proof that failed or was withdrawn.       *)
ResetDocumentContext(s) ==
  /\ proof[s] \in {"stale", "forced"} /\ ses[s].comp = "idle" /\ ~Pending(s)
  /\ Becomes(s, Fresh) /\ ConfirmStaged(s) /\ Proves(s, "none")
  /\ Steady /\ UNCHANGED Text

(* The mode menu.  The text service drops its proof with it.               *)
SetMode(s) ==
  /\ ses[s].comp = "idle" /\ ~Pending(s)
  /\ Menu \/ proof[s] \in {"none", "fresh"}
  /\ Becomes(s, [ses[s] EXCEPT !.carry = 0]) /\ ConfirmStaged(s) /\ Proves(s, "none")
  /\ Steady /\ UNCHANGED Text

(* Into or out of a password field.                                         *)
SetInputScope(s) ==
  /\ ~Pending(s)
  /\ Becomes(s, Fresh) /\ ConfirmStaged(s) /\ Leaves(s)
  /\ Steady /\ UNCHANGED <<proof, lost>>

ClearLearning ==
  /\ ended < MaxEnds /\ ended' = ended + 1
  /\ staged' = << >> /\ known' = {} /\ excused' = 1..Len(commits)
  /\ UNCHANGED <<commits, ses, proof, deletion, rejected, Text>>

(* The pipe is lost: the engine resets the connection's sessions, the text  *)
(* service makes another.                                                   *)
Disconnect(s) ==
  /\ ended < MaxEnds /\ ended' = ended + 1
  /\ Becomes(s, Fresh) /\ Proves(s, "none")
  /\ IF Pending(s) THEN DiscardStaged(s) ELSE ConfirmStaged(s)
  /\ excused' = IF Pending(s) THEN excused \cup {ses[s].undo.id} ELSE excused
  /\ UNCHANGED <<commits, deletion, Text>>

(* The user points elsewhere in the document; another document has focus.   *)
MoveCaret(s) ==
  /\ ses[s].comp = "idle" /\ (Clicks \/ proof[s] = "fresh")
  /\ Leaves(s) /\ Proves(s, IF proof[s] = "fresh" THEN "stale" ELSE proof[s])
  /\ Steady /\ UNCHANGED <<ses, Learning, lost>>

MoveFocus(s) ==
  /\ ses[s].comp = "idle" /\ Leaves(s) /\ Proves(s, "forced")
  /\ Steady /\ UNCHANGED <<ses, Learning, lost>>

-----------------------------------------------------------------------------
Next ==
  \/ \E s \in Sessions :
       \/ Type(s) \/ PassedKey(s) \/ EatenKey(s) \/ Backspace(s) \/ EraseWord(s)
       \/ Undo(s) \/ Cancel(s) \/ Convert(s)
       \/ \E r \in Readings, w \in Surfaces, way \in Ways : Commit(s, r, w, way)
       \/ HostDeletes(s) \/ HostRefuses(s)
       \/ UndoApplied(s) \/ UndoRejected(s) \/ UndoUnknown(s)
       \/ ApplyAi(s) \/ Reconvert(s) \/ Revert(s) \/ ResetDocumentContext(s)
       \/ SetMode(s) \/ SetInputScope(s) \/ Disconnect(s) \/ MoveCaret(s) \/ MoveFocus(s)
  \/ ClearLearning

Spec == Init /\ [][Next]_vars

-----------------------------------------------------------------------------
TypeOK ==
  /\ Len(commits) <= MaxCommits
  /\ \A s \in Sessions : /\ ses[s].comp \in {"idle", "composing", "converting"}
                         /\ ses[s].carry \in 0..MaxCommits
                         /\ proof[s] \in {"none", "fresh", "stale", "forced"}
                         /\ Len(Of(s)) <= 1
  /\ Len(staged) <= MaxStaged
  /\ lost \in [Ids -> Nat] /\ known \subseteq Ids

(* A commit that lost a character, or was undone, is not learnt afterwards  *)
(* - in particular not by another session's conversion while the host is    *)
(* deleting it - and no cleared commit comes back.                          *)
NothingErasedIsLearnt ==
  [][\A i \in known' \ known : i <= Len(commits) => lost[i] = 0 /\ i \notin excused]_vars

(* Nothing that stands is forgotten: a commit that teaches and stands whole *)
(* is learnt or still staged, and never both, so it is learnt once.         *)
StandingIsLearntOnce ==
  LET inTable == {r.id : r \in {x \in ToSet(staged) : x.teaches}}
  IN /\ inTable \cap known = {}
     /\ \A i \in 1..Len(commits) :
          commits[i].learns /\ lost[i] = 0 /\ i \notin excused => i \in known \cup inTable

(* Only a commit that was erased whole is rejected.                         *)
RejectedWasErased == \A i \in rejected : lost[i] = commits[i].surface

(* The left context a composition is converted with is the commit directly  *)
(* left of the caret, whole.                                                *)
CarryFollowsCaret ==
  \A s \in DOMAIN ses :
    LET c == ses[s].carry
    IN ses[s].comp # "idle" /\ ~Pending(s) /\ c # 0
         => doc[s] # << >> /\ Last(doc[s]) = c /\ lost[c] = 0
=============================================================================

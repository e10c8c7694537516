------------------------------ MODULE PadSave ------------------------------
(* Saving and locking the memo pad while it is a vault: the window (pad.rs: *)
(* publish, poll_storage, lock_protected, start_unlock, finish_unlock), the *)
(* save actor with its one-slot mailbox and its thread (pad_protection.rs), *)
(* and the vault's file with its draft, which one locked write replaces as  *)
(* a whole (PadStore).                                                      *)
(*                                                                          *)
(* A lock that runs out of time leaves its thread behind: the window may be *)
(* unlocked again, and edited, while that thread is still writing.  A       *)
(* document is its generation and the number of the edit it shows.          *)
EXTENDS Naturals, FiniteSets

CONSTANTS
  Actors,      \* save actors that may exist at once
  NoActor,
  MaxEdits,    \* bound: edits typed
  MaxGen,      \* bound: generations
  MaxEnds      \* bound: ends of the process

VARIABLES
  ui,       \* the window
  unlock,   \* the unlock thread: what it has read
  actor,    \* [Actors -> mailbox and thread]
  store,    \* the vault's document and its draft
  edits,    \* edits typed so far
  newest,   \* ghost: the newest edit handed over by the editor
  ends

vars == <<ui, unlock, actor, store, edits, newest, ends>>

Doc(gen, text) == [gen |-> gen, text |-> text]
FirstDoc == Doc(1, 0)
Empty == Doc(0, 0)                          \* PadDocument::default
Docs  == [gen : 0..MaxGen, text : 0..MaxEdits]

(* At most one document: an Option.                                         *)
Maybe(S) == {{}} \cup {{x} : x \in S}

-----------------------------------------------------------------------------
Locked == [at |-> "locked", typed |-> 0, timer |-> FALSE, doc |-> Empty, latest |-> 0,
           blocked |-> TRUE, frozen |-> FALSE, recovery |-> {}, base |-> {}, conflict |-> FALSE,
           actor |-> NoActor, mask |-> FALSE, saved |-> FALSE]

NotUnlocking == [at |-> "none", doc |-> Empty, probe |-> "none", draft |-> {}]

Gone == [at |-> "gone", next |-> Empty, pending |-> {}, latest |-> {}, last |-> 0,
         confirmed |-> Empty, completion |-> {}, failed |-> FALSE, closing |-> FALSE,
         cancelled |-> FALSE]

(* new_mailbox.                                                             *)
Started(doc) == [Gone EXCEPT !.at = "wait", !.last = doc.gen, !.confirmed = doc]

TypeOK ==
  /\ ui.at \in {"open", "locking", "locked"} /\ ui.doc \in Docs /\ ui.actor \in Actors \cup {NoActor}
  /\ {ui.recovery, ui.base, unlock.draft} \subseteq Maybe(Docs)
  /\ unlock.at \in {"none", "loaded", "read"} /\ unlock.probe \in {"none", "some", "unavailable"}
  /\ \A a \in Actors : /\ actor[a].at \in {"wait", "seal", "write", "gone"}
                       /\ {actor[a].pending, actor[a].latest} \subseteq Maybe(Docs)
  /\ store.doc \in Docs /\ store.draft \in Maybe([base : Docs, next : Docs])
  /\ newest \in 0..edits /\ edits \in 0..MaxEdits

Init ==
  /\ ui = Locked /\ unlock = NotUnlocking
  /\ actor = [a \in Actors |-> Gone]
  /\ store = [doc |-> FirstDoc, draft |-> {}]
  /\ edits = 0 /\ newest = 0 /\ ends = 0

-----------------------------------------------------------------------------
(* The actor's mailbox and thread.                                          *)

Accepts(m, doc) == ~m.closing /\ ~m.failed /\ doc.gen > m.last
Submitted(m, doc) ==
  IF Accepts(m, doc) THEN [m EXCEPT !.pending = {doc}, !.latest = {doc}, !.last = doc.gen] ELSE m

(* run_save_loop: the debounce only delays.                                 *)
Take(a) ==
  /\ actor[a].at = "wait" /\ ~actor[a].failed
  /\ \E doc \in actor[a].pending :
       actor' = [actor EXCEPT ![a].at = "seal", ![a].next = doc, ![a].pending = {}]
  /\ UNCHANGED store

Leave(a) ==
  /\ actor[a].at = "wait"
  /\ actor[a].failed \/ (actor[a].closing /\ actor[a].pending = {})
  /\ actor' = [actor EXCEPT ![a] = IF ui.actor = a THEN [@ EXCEPT !.at = "gone"] ELSE Gone]
  /\ UNCHANGED store

Completed(a, ok) ==
  actor' = [actor EXCEPT ![a].at = "wait", ![a].failed = ~ok, ![a].next = Empty,
                         ![a].completion = {[gen |-> actor[a].next.gen, ok |-> ok]},
                         ![a].confirmed = IF ok THEN actor[a].next ELSE @]

(* PadProtectionEngine::save: the helper seals the document, unless it was  *)
(* cancelled or fails by itself.                                            *)
Seal(a) ==
  /\ actor[a].at = "seal"
  /\ \/ ~actor[a].cancelled /\ actor' = [actor EXCEPT ![a].at = "write"]
     \/ Completed(a, FALSE)
  /\ UNCHANGED store

(* Mutant: whatever document is stored is replaced.                         *)
ReplacesMut(confirmed, next) == next.gen > confirmed.gen

(* write_protected: only the document this actor last confirmed.            *)
Replaces(confirmed, next) == next.gen > confirmed.gen /\ store.doc = confirmed

(* A write fails before its draft, after it, or with the new document       *)
(* published and the draft left behind.                                     *)
Write(a) ==
  LET next == actor[a].next
      draft == {[base |-> store.doc, next |-> next]}
  IN  /\ actor[a].at = "write"
      /\ \/ /\ Replaces(actor[a].confirmed, next)
            /\ store' = [doc |-> next, draft |-> {}]
            /\ Completed(a, TRUE)
         \/ /\ Replaces(actor[a].confirmed, next)
            /\ store' \in {[store EXCEPT !.draft = draft], [doc |-> next, draft |-> draft]}
            /\ Completed(a, FALSE)
         \/ UNCHANGED store /\ Completed(a, FALSE)

Thread(a) ==
  /\ Take(a) \/ Leave(a) \/ Seal(a) \/ Write(a)
  /\ UNCHANGED <<ui, unlock, edits, newest, ends>>

-----------------------------------------------------------------------------
(* Editing.  Saving that is blocked leaves the editor open unless it was    *)
(* frozen to review a draft.                                                *)

(* mark_dirty.                                                              *)
Type ==
  /\ ui.at = "open" /\ ~ui.frozen /\ edits < MaxEdits
  /\ edits' = edits + 1
  /\ ui' = [ui EXCEPT !.typed = edits + 1, !.timer = @ \/ ~ui.blocked, !.saved = FALSE]
  /\ UNCHANGED <<unlock, actor, store, newest, ends>>

(* capture_controls and publish.                                            *)
Changed == ui.typed # ui.doc.text
Captured ==
  LET doc == Doc(IF ui.blocked THEN ui.doc.gen ELSE ui.doc.gen + 1, ui.typed)
      taken == ui.actor # NoActor /\ Accepts(actor[ui.actor], doc)
  IN  CASE ~Changed -> ui
        [] Changed /\ ui.blocked -> [ui EXCEPT !.doc = doc]
        [] Changed /\ ~ui.blocked ->
             [ui EXCEPT !.doc = doc, !.latest = doc.gen, !.saved = FALSE, !.blocked = ~taken,
                        !.recovery = IF taken THEN @ ELSE {doc}]
Published(m) == IF Changed /\ ~ui.blocked THEN Submitted(m, Captured.doc) ELSE m
CanPublish == ui.doc.gen < MaxGen /\ newest' = IF Changed THEN ui.typed ELSE newest

EditTimer ==
  /\ ui.at = "open" /\ ui.timer /\ CanPublish
  /\ ui' = [Captured EXCEPT !.timer = FALSE]
  /\ actor' = IF ui.actor = NoActor THEN actor ELSE [actor EXCEPT ![ui.actor] = Published(@)]
  /\ UNCHANGED <<unlock, store, edits, ends>>

(* poll_storage.                                                            *)
Poll ==
  /\ ui.at = "open" /\ ui.actor # NoActor
  /\ \E done \in actor[ui.actor].completion :
       ui' = [ui EXCEPT !.saved = IF done.ok THEN @ \/ done.gen = ui.latest ELSE FALSE,
                        !.blocked = @ \/ ~done.ok]
  /\ actor' = [actor EXCEPT ![ui.actor].completion = {}]
  /\ UNCHANGED <<unlock, store, edits, newest, ends>>

-----------------------------------------------------------------------------
(* Locking: on request, when the window must stay if something is unsaved,  *)
(* or because the session is locked (`mask').                               *)

(* mask_protected_contents.                                                 *)
Masked(w, saved) == [w EXCEPT !.at = "locked", !.typed = 0, !.timer = FALSE, !.doc = Empty,
                              !.blocked = TRUE, !.frozen = FALSE, !.actor = NoActor,
                              !.saved = saved]

(* Saving has failed before: there is no actor any more.                    *)
MaskWithoutActor ==
  /\ ui.at = "open" /\ ui.actor = NoActor /\ ui.blocked
  /\ ui' = Masked([ui EXCEPT !.recovery = {ui.doc}], FALSE)
  /\ UNCHANGED <<unlock, actor, store, edits, newest, ends>>

BeginLock(mask) ==
  /\ ui.at = "open" /\ ui.actor # NoActor /\ CanPublish
  /\ ui' = [Captured EXCEPT !.timer = FALSE, !.at = "locking", !.mask = mask]
  /\ actor' = [actor EXCEPT ![ui.actor] = [Published(@) EXCEPT !.closing = TRUE]]
  /\ UNCHANGED <<unlock, store, edits, ends>>

(* Mutant: what the window itself holds back is not looked at.              *)
UnsavedMut(m) == m.at # "gone" \/ m.failed \/ \E doc \in m.latest : doc.gen > m.confirmed.gen

(* Not ProtectedLockStatus::Saved, or the window holds something back.      *)
Unsaved(m) ==
  \/ m.at # "gone" \/ m.failed \/ \E doc \in m.latest : doc.gen > m.confirmed.gen
  \/ ui.blocked \/ ui.doc.gen > m.confirmed.gen

(* finish_lock: the thread has left, or the budget is over and the helper   *)
(* is cancelled.                                                            *)
FinishLock ==
  LET m == actor[ui.actor]
      newer == {doc \in m.latest : doc.gen > m.confirmed.gen /\ doc.gen > ui.doc.gen}
      kept == IF newer # {} THEN newer ELSE {ui.doc}
      held == [ui EXCEPT !.recovery = kept, !.base = IF ui.conflict THEN @ ELSE {m.confirmed}]
  IN  /\ ui.at = "locking"
      /\ ui' = CASE ~Unsaved(m) -> Masked([ui EXCEPT !.recovery = {}, !.base = {}, !.conflict = FALSE], TRUE)
                 [] Unsaved(m) /\ ui.mask -> Masked(held, FALSE)
                 [] Unsaved(m) /\ ~ui.mask ->
                      [held EXCEPT !.at = "open", !.blocked = TRUE, !.actor = NoActor, !.saved = FALSE]
      /\ actor' = [actor EXCEPT ![ui.actor] = IF m.at = "gone" THEN Gone
                                                ELSE [m EXCEPT !.cancelled = TRUE, !.completion = {}]]
      /\ UNCHANGED <<unlock, store, edits, newest, ends>>

-----------------------------------------------------------------------------
(* Unlocking: a thread reads the document, then looks for a draft; the      *)
(* window takes both over later.                                            *)

Writing == \E a \in Actors : actor[a].at = "write"

Load ==
  /\ ui.at = "locked" /\ unlock.at = "none"
  /\ unlock' = [NotUnlocking EXCEPT !.at = "loaded", !.doc = store.doc]
  /\ UNCHANGED <<ui, actor, store, edits, newest, ends>>

(* recoverable_draft; a write under way holds the lock file.                *)
Probe ==
  /\ unlock.at = "loaded"
  /\ \/ /\ store.draft = {}
        /\ unlock' = [unlock EXCEPT !.at = "read"]
     \/ /\ Writing \/ (store.draft # {} /\ (store.doc # unlock.doc \/ \E d \in store.draft : d.base # store.doc))
        /\ unlock' = [unlock EXCEPT !.at = "read", !.probe = "unavailable"]
     \/ /\ ~Writing /\ store.doc = unlock.doc
        /\ \E d \in store.draft :
             /\ d.base = store.doc
             /\ unlock' = [unlock EXCEPT !.at = "read", !.probe = "some", !.draft = {d.next}]
  /\ UNCHANGED <<ui, actor, store, edits, newest, ends>>

CancelUnlock ==
  /\ unlock.at # "none" /\ unlock' = NotUnlocking
  /\ UNCHANGED <<ui, actor, store, edits, newest, ends>>

(* finish_unlock, once the fate of a draft is decided: what is kept in      *)
(* memory is submitted, unless the document has changed since.              *)
Opened(w, held) ==
  \E a \in {b \in Actors : actor[b].at = "gone"} :
    LET other == {doc \in w.recovery : doc # unlock.doc}
        agrees == ~w.conflict /\ w.base = {unlock.doc}
        newGen == 1 + (CHOOSE g \in {d.gen : d \in other \cup {unlock.doc}} :
                         \A d \in other \cup {unlock.doc} : d.gen <= g)
        shown == CASE other = {} -> unlock.doc
                   [] other # {} /\ agrees -> Doc(newGen, (CHOOSE d \in other : TRUE).text)
                   [] OTHER -> CHOOSE d \in other : TRUE
        conflict == other # {} /\ ~agrees
        blocked == conflict \/ held
    IN  /\ shown.gen <= MaxGen
        /\ ui' = [at |-> "open", typed |-> shown.text, timer |-> FALSE, doc |-> shown,
                  latest |-> shown.gen, blocked |-> blocked, frozen |-> blocked,
                  recovery |-> IF conflict THEN other ELSE {},
                  base |-> IF conflict THEN w.base ELSE {}, conflict |-> conflict,
                  actor |-> a, mask |-> FALSE, saved |-> other = {} /\ ~held]
        /\ actor' = [actor EXCEPT ![a] = IF other # {} /\ agrees THEN Submitted(Started(unlock.doc), shown)
                                         ELSE Started(unlock.doc)]
        /\ unlock' = NotUnlocking

OpenWithoutDraft ==
  /\ unlock.at = "read" /\ unlock.probe = "none"
  /\ Opened(ui, FALSE)
  /\ UNCHANGED <<store, edits, newest, ends>>

(* The draft differs from what is kept in memory; or the user restores it   *)
(* or puts the decision off.                                                *)
OpenWithDraft ==
  LET clash == \E doc \in ui.recovery : doc \notin unlock.draft
  IN  /\ unlock.at = "read" /\ unlock.probe = "some"
      /\ \/ clash /\ Opened([ui EXCEPT !.conflict = TRUE], TRUE)
         \/ ~clash /\ Opened([ui EXCEPT !.recovery = unlock.draft, !.base = {unlock.doc},
                                        !.conflict = FALSE], FALSE)
         \/ ~clash /\ Opened(ui, TRUE)
      /\ UNCHANGED <<store, edits, newest, ends>>

(* The draft cannot be verified: it is thrown away, if the user agrees and  *)
(* the document is still the one that was read, or saving is stopped.       *)
OpenWithUnreadableDraft ==
  /\ unlock.at = "read" /\ unlock.probe = "unavailable"
  /\ \/ /\ ~Writing /\ store.doc = unlock.doc
        /\ store' = [store EXCEPT !.draft = {}]
        /\ Opened(ui, FALSE)
     \/ UNCHANGED store /\ Opened([ui EXCEPT !.conflict = @ \/ ui.recovery # {}], TRUE)
  /\ UNCHANGED <<edits, newest, ends>>

-----------------------------------------------------------------------------
(* The process ends, and with it all that only memory held.                 *)
End ==
  /\ ends < MaxEnds /\ ends' = ends + 1
  /\ ui' = Locked /\ unlock' = NotUnlocking
  /\ actor' = [a \in Actors |-> Gone]
  /\ newest' = LET texts == {store.doc.text} \cup {d.next.text : d \in store.draft}
               IN  CHOOSE t \in texts : \A u \in texts : u <= t
  /\ UNCHANGED <<store, edits>>

Next ==
  \/ \E a \in Actors : Thread(a)
  \/ Type \/ EditTimer \/ Poll
  \/ MaskWithoutActor \/ (\E mask \in BOOLEAN : BeginLock(mask)) \/ FinishLock
  \/ Load \/ Probe \/ CancelUnlock
  \/ OpenWithoutDraft \/ OpenWithDraft \/ OpenWithUnreadableDraft
  \/ End

Spec == Init /\ [][Next]_vars

-----------------------------------------------------------------------------
(* Properties.                                                              *)

Kept ==
  {store.doc.text} \cup {d.next.text : d \in store.draft} \cup {d.text : d \in ui.recovery}
    \cup (IF ui.at = "locked" THEN {} ELSE {ui.doc.text})

(* Nothing the editor has handed over is lost while the process lives: the  *)
(* newest edit is on the screen, in memory for the next unlock, in the      *)
(* vault or in its draft, whatever was cancelled, failed, came late, was    *)
(* put off or was thrown away ("an accepted snapshot is held until          *)
(* confirmed or returned as unsaved").                                      *)
EditsSurvive == newest \in Kept

(* "Saved and locked", and the resting state of the status line, are shown  *)
(* only while the vault's file has the newest edit; a write left behind by  *)
(* an earlier lock cannot take it away again ("never claim a successful     *)
(* save from this state").                                                  *)
SavedIsStored == ui.saved => store.doc.text = newest

(* What has been typed is kept too when the session locks: "the draft stays *)
(* in this Pad process for reauthentication".                               *)
TypingSurvivesMask ==
  [][ui.at # "locked" /\ ui'.at = "locked" /\ ends' = ends => ui.typed \in Kept']_vars

-----------------------------------------------------------------------------
(* Why.  What a save thread can still write is no newer than what memory    *)
(* holds, and memory lets go of a document only when the vault has it; the  *)
(* newest edit is in the draft alone only where nobody writes.              *)
Work(m)  == m.pending \cup (IF m.at \in {"seal", "write"} THEN {m.next} ELSE {})
Able(a)  == actor[a].at = "write" /\ actor[a].confirmed = store.doc
NoneAble == \A a \in Actors : ~Able(a)

Documents == [gen : Nat, text : Nat]
Mailbox ==
  [at : {"wait", "seal", "write", "gone"}, next : Documents, pending : Maybe(Documents),
   latest : Maybe(Documents), last : Nat, confirmed : Documents,
   completion : Maybe([gen : Nat, ok : BOOLEAN]), failed : BOOLEAN, closing : BOOLEAN,
   cancelled : BOOLEAN]

Sane ==
  /\ ui \in [at : {"open", "locking", "locked"}, typed : Nat, timer : BOOLEAN, doc : Documents,
             latest : Nat, blocked : BOOLEAN, frozen : BOOLEAN, recovery : Maybe(Documents),
             base : Maybe(Documents), conflict : BOOLEAN, actor : Actors \cup {NoActor},
             mask : BOOLEAN, saved : BOOLEAN]
  /\ unlock \in [at : {"none", "loaded", "read"}, doc : Documents,
                 probe : {"none", "some", "unavailable"}, draft : Maybe(Documents)]
  /\ actor \in [Actors -> Mailbox]
  /\ store \in [doc : Documents, draft : Maybe([base : Documents, next : Documents])]
  /\ edits \in Nat /\ newest \in Nat /\ newest <= edits /\ ends \in Nat

StoreOK ==
  /\ store.doc.text <= newest
  /\ \A d \in store.draft :
       /\ store.doc \in {d.base, d.next} /\ d.base.gen < d.next.gen
       /\ d.base.text <= d.next.text /\ d.next.text <= newest

MailboxOK(m) ==
  /\ m.confirmed.gen <= store.doc.gen /\ m.confirmed.gen <= m.last /\ m.confirmed.text <= newest
  /\ \A x \in Work(m) : /\ m.confirmed.gen < x.gen /\ x.gen <= m.last
                        /\ m.confirmed.text <= x.text /\ x.text <= newest
  /\ m.at \in {"seal", "write"} =>
       ~m.failed /\ \A x \in m.pending : m.next.gen < x.gen /\ m.next.text <= x.text
  /\ \A x \in m.latest : x.gen <= m.last
  /\ \A c \in m.completion : c.ok = ~m.failed /\ (c.ok => c.gen = m.confirmed.gen)

(* A thread that was left behind has been told to stop, and writes at most  *)
(* what it was writing then.                                                *)
LeftBehind ==
  \A a \in Actors \ {ui.actor} :
    /\ actor[a].at = "gone" \/ actor[a].cancelled
    /\ Able(a) => IF ui.at = "locked" THEN \E d \in ui.recovery : actor[a].next.gen <= d.gen
                                      ELSE actor[a].next.gen <= ui.doc.gen

WindowOK ==
  ui.at # "locked" =>
    /\ ui.doc.text <= ui.typed /\ ui.typed <= edits /\ ui.latest = ui.doc.gen
    /\ ui.doc.text <= newest /\ (~ui.frozen => ui.doc.text = newest)
    /\ ui.frozen => ui.blocked /\ ui.typed = ui.doc.text
    /\ ui.actor = NoActor => ui.blocked /\ ui.at = "open"
    /\ store.doc.gen <= ui.doc.gen
    /\ \A b \in ui.base : b.text <= ui.doc.text

(* Of the window and its own save actor.                                    *)
ServedBy(m) ==
  /\ m.last <= ui.doc.gen /\ (ui.at = "open" => ~m.closing)
  /\ ui.doc.gen <= m.confirmed.gen => store.doc = m.confirmed
  /\ ui.blocked /\ ~ui.frozen => m.failed
  /\ IF ui.conflict
     THEN ui.frozen /\ Work(m) = {} /\ m.completion = {} /\ m.latest = {}
     ELSE /\ m.confirmed.text <= ui.doc.text
          /\ ~ui.blocked \/ ui.frozen =>
               \A x \in Work(m) \cup {m.confirmed} : x.gen = ui.doc.gen => x = ui.doc

SavedOK ==
  ui.saved =>
    IF ui.at = "locked" THEN store.doc.text = newest /\ NoneAble
    ELSE /\ ui.actor # NoActor /\ ~ui.conflict /\ ui.doc = actor[ui.actor].confirmed
         /\ ui.doc.text = newest /\ (ui.blocked => ui.frozen)

UnlockOK ==
  unlock.at # "none" =>
    /\ ui.at = "locked" /\ unlock.doc.gen <= store.doc.gen /\ unlock.doc.text <= newest
    /\ (\A d \in ui.recovery : d.gen <= unlock.doc.gen) => store.doc = unlock.doc
    /\ unlock.probe = "some" =>
         \E d \in unlock.draft : /\ unlock.draft = {d} /\ unlock.doc.gen < d.gen
                                 /\ unlock.doc.text <= d.text /\ d.text <= newest

LockedOK ==
  ui.at = "locked" =>
    /\ ui.actor = NoActor
    /\ \A d \in ui.recovery : /\ store.doc.gen <= d.gen /\ d.text <= newest
                               /\ \A b \in ui.base : b.text <= d.text

(* Where the newest edit is: in memory; in the vault, which nobody replaces;*)
(* or in a draft that the next unlock offers.                               *)
Rests   == unlock.at # "none" => unlock.doc = store.doc
Stored  == store.doc.text = newest /\ NoneAble /\ Rests
Drafted ==
  \E d \in store.draft :
    /\ d.next.text = newest /\ d.base = store.doc /\ Rests
    /\ \A a \in Actors : Work(actor[a]) = {}
    /\ unlock.at = "read" => unlock.probe = "some" /\ unlock.draft = {d.next}
Found ==
  IF ui.at = "locked" THEN (\E d \in ui.recovery : d.text = newest) \/ Stored \/ Drafted
  ELSE \/ ui.doc.text = newest
       \/ /\ ui.frozen /\ (Stored \/ Drafted)
          /\ ui.actor # NoActor => Work(actor[ui.actor]) = {} /\ actor[ui.actor].completion = {}

IInv ==
  /\ Sane /\ StoreOK /\ (\A a \in Actors : MailboxOK(actor[a])) /\ LeftBehind
  /\ WindowOK /\ (ui.at # "locked" /\ ui.actor # NoActor => ServedBy(actor[ui.actor]))
  /\ SavedOK /\ UnlockOK /\ LockedOK /\ Found
=============================================================================

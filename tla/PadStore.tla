------------------------------ MODULE PadStore ------------------------------
(* The files of the memo pad (crates/sakura-renderer/src/pad_storage.rs):   *)
(* the legacy document, the v4 document with protected memos, the whole-pad *)
(* vault; saving in each, moving from one to the next, changing the         *)
(* password, recovering when the pad is opened (PadWindow::new in pad.rs,   *)
(* pad_protection.rs).                                                      *)
(*                                                                          *)
(* An operation holds the lock file from its first read to its end, so it   *)
(* is decided on the directory it finds and is then a list of changes to    *)
(* files; each of them may fail or be the last one before a crash.  What is *)
(* written and flushed is durable; a rename or a replacement is atomic.     *)
(* Memo contents are the number of the edit; `sealed' counts the memos with *)
(* a password of their own.  Two envelopes are the same bytes when they     *)
(* hold the same document under the same password change.                   *)
EXTENDS Naturals, Sequences, FiniteSets, TLC

CONSTANTS
  MaxEdits,    \* bound: documents written
  MaxSealed,   \* bound: memos given a password of their own
  MaxKeys,     \* bound: whole-pad passwords prepared
  MaxFaults    \* bound: failed changes and crashes

VARIABLES
  disk,    \* the directory: file name -> content
  op,      \* the operation in progress: what it has still to change
  pad,     \* the pad window: what it is open on
  known,   \* ghost: the newest document, and password, reported to the user
  edits, keys, faults

vars == <<disk, op, pad, known, edits, keys, faults>>

-----------------------------------------------------------------------------
(* Documents and files.                                                     *)

Doc(gen, edit, sealed) == [gen |-> gen, edit |-> edit, sealed |-> sealed]
EmptyDoc == Doc(0, 0, 0)

Legacy  == {"memo", "memo.bak", "memo.tmp"}
V4      == {"v4.bak", "v4.tmp", "v4.intent", "v4.marker", "v4.floor"}
Vault   == {"v3", "v3.bak", "v3.tmp", "intent", "marker", "floor", "rewrap"}
Names   == Legacy \cup V4 \cup Vault \cup {"draft"}

None   == [kind |-> "none"]
Torn   == [kind |-> "torn"]
Signal == [kind |-> "signal"]
Tomb   == [kind |-> "tombstone"]               \* a v3 header without a document
Plain(doc)       == [kind |-> "plain", doc |-> doc]       \* v2, current user
Mixed(doc)       == [kind |-> "v4", doc |-> doc]          \* v4, current user
Sealed(doc, key) == [kind |-> "sealed", doc |-> doc, key |-> key]
FloorAt(gen)     == [kind |-> "floor", gen |-> gen]
IntentFrom(mode, gen) == [kind |-> "intent", from |-> mode, gen |-> gen]
Pending(old, new) == [kind |-> "pending", old |-> old, new |-> new]
Committed(new)    == [kind |-> "committed", new |-> new]
Draft(base, payload) == [kind |-> "draft", base |-> base, payload |-> payload]

There(f) == disk[f] # None
Holds(f, kind) == disk[f].kind = kind
HeldGen(f) == IF There(f) THEN disk[f].gen ELSE 0      \* of a floor

(* A list of changes.  `half' is what a failed ReplaceFileW may leave:      *)
(* nothing in the place of the file to be replaced, which is under the      *)
(* backup's name if there is a backup; the replacement keeps its name.      *)
(* Where there is nothing to be replaced the move leaves nothing half done. *)
Change(files, half) == <<[files |-> files, half |-> half]>>
Remove(f) == Change(f :> None, << >>)
Put(f, content) == Change(f :> content, f :> None)     \* through a temporary sibling
Stage(f, content) == Change(f :> Torn, << >>) \o Change(f :> content, << >>)
Move(from, to, content) == Change((from :> None) @@ (to :> content), to :> None)

(* Mutant: the file that is replaced is not kept.                           *)
ReplaceKeepingMut(from, to, content, backup) == Move(from, to, content)

ReplaceKeeping(from, to, content, backup) ==
  Change((from :> None) @@ (to :> content) @@ (backup :> disk[to]),
         (to :> None) @@ (backup :> disk[to]))

-----------------------------------------------------------------------------
(* Reading.  An opening is a way the pad can come up: the mode it is in,    *)
(* the document it shows, the password of its session, and the repairs made *)
(* before it shows anything.                                                *)

Opening(mode, doc, key, todo) == [mode |-> mode, doc |-> doc, key |-> key, todo |-> todo]

(* has_v4_cutover.                                                          *)
HasV4 == ~There("intent") /\ ~There("marker")
           /\ \E f \in {"v4.intent", "v4.marker", "v4.floor"} : There(f)

(* require_legacy_mode.                                                     *)
LegacyMode ==
  /\ \A f \in {"intent", "marker", "floor", "v4.intent", "v4.marker", "v4.floor"} : ~There(f)
  /\ \A f \in Legacy : disk[f].kind \notin {"v4", "tombstone"}

(* load: the first copy that can be read; never saved is an empty pad.      *)
LegacyOpenings ==
  LET readable == SelectSeq(<<"memo", "memo.bak", "memo.tmp">>, LAMBDA f : Holds(f, "plain"))
  IN  IF ~LegacyMode \/ (readable = << >> /\ \E f \in Legacy : There(f)) THEN {}
      ELSE {Opening("legacy", IF readable = << >> THEN EmptyDoc ELSE disk[Head(readable)].doc,
                    0, << >>)}

(* require_v4_intent.                                                       *)
V4Claimed == There("v4.intent") /\ ~There("intent") /\ ~There("marker")
V4Readable(f) == Holds(f, "v4") /\ disk[f].doc.gen >= HeldGen("v4.floor")

(* load_v4, or else recover_v4_cutover and load_v4.                         *)
V4Openings ==
  LET backup == disk["v4.bak"]
      restore == Remove("memo.bak") \o Remove("memo.tmp")
                   \o (IF disk["memo"] = backup THEN << >>
                       ELSE Remove("v4.tmp") \o Stage("v4.tmp", backup)
                              \o Move("v4.tmp", "memo", backup))
                   \o (IF There("v4.marker") THEN << >> ELSE Put("v4.marker", Signal))
  IN  CASE ~V4Claimed -> {}
        [] V4Claimed /\ There("v4.marker") /\ V4Readable("memo") ->
             {Opening("v4", disk["memo"].doc, 0, << >>)}
        [] OTHER ->
             IF V4Readable("v4.bak")
                /\ (There("v4.marker") \/ ~Holds("memo", "v4") \/ disk["memo"] = backup)
             THEN {Opening("v4", backup.doc, 0, restore)} ELSE {}

(* A credential is a password, or the recovery key, which opens any         *)
(* envelope; a wrong password ends the attempt (auth_rejected).             *)
Recovery == 0
Credentials == Recovery..MaxKeys
Opens(f, credential) ==
  Holds(f, "sealed") /\ (credential = Recovery \/ disk[f].key = credential)
Rejected(credential) == Holds("v3", "sealed") /\ ~Opens("v3", credential)

(* active_protected_intent, accepts.  A document has an identity of its own *)
(* from its first protected memo on.                                        *)
Active == There("intent") /\ There("marker")
Accepts(doc) ==
  LET from == disk["intent"] IN
  /\ doc.gen >= HeldGen("floor")
  /\ IF from.from = "v4" THEN doc.sealed > 0 /\ doc.gen >= from.gen
     ELSE HeldGen("floor") = 0 \/ doc.sealed > 0
Accepted(f, credential) == Opens(f, credential) /\ Accepts(disk[f].doc)

(* A committed password change authorizes one envelope only.                *)
Authorized(f) == Holds("rewrap", "committed") => disk[f] = disk["rewrap"].new

(* load_protected_unlocked: the copy it returns.                            *)
Loaded(credential) ==
  CASE Holds("rewrap", "pending") ->
         {f \in {"v3"} : disk[f] = disk["rewrap"].old /\ Accepted(f, credential)}
    [] ~Authorized("v3") -> {f \in {"v3.bak"} : Authorized(f) /\ Accepted(f, credential)}
    [] Authorized("v3") /\ Accepted("v3", credential) -> {"v3"}
    [] OTHER -> {f \in {"v3.bak"} :
                   ~Rejected(credential) /\ Authorized(f) /\ Accepted(f, credential)}

(* Mutant: the copy of the v4 document is left behind.                      *)
RetireV4Mut == Remove("v4.marker") \o Remove("v4.tmp")

(* retire_v4_source, retire_plain_siblings.                                 *)
RetireV4 == Remove("v4.marker") \o Remove("v4.bak") \o Remove("v4.tmp")
RetireLegacy == Remove("memo.bak") \o Remove("memo.tmp")
Tombstone == IF disk["memo"] = Tomb THEN << >> ELSE Put("memo", Tomb)

(* Mutant: the copy of the new envelope is put over the old primary.        *)
RestoreOldCopyMut == Put("v3", disk["v3.bak"]) \o Remove("rewrap") \o Remove("v3.tmp")

(* restore_old_rewrap_copy.                                                 *)
RestoreOldCopy == Put("v3.bak", disk["v3"]) \o Remove("rewrap") \o Remove("v3.tmp")

(* recover_protected_cutover, recover_v4_to_protected_cutover: both copies  *)
(* have to open and agree.                                                  *)
CutoverOpenings(credential) ==
  LET copy == disk["v3"]
      from == disk["intent"]
      bound == from.from = "v4" => /\ There("v4.intent") /\ from.gen >= HeldGen("v4.floor")
                                   /\ copy.doc.gen = from.gen
      retire == (IF from.from = "v4" THEN RetireV4 ELSE << >>) \o RetireLegacy
  IN  IF ~There("rewrap") /\ ~There("floor") /\ Opens("v3", credential) /\ disk["v3.bak"] = copy /\ bound
      THEN {Opening("vault", copy.doc, copy.key, retire \o Tombstone \o Put("marker", Signal))}
      ELSE {}

(* recover_protected_memo_cutover: the primary is tried before the marker   *)
(* of a password change is compared with it.                                *)
MemoCutoverOpenings(credential) ==
  LET Usable(f) == Accepted(f, credential) /\ Authorized(f)
      backup == disk["v3.bak"]
  IN  IF Usable("v3") THEN {Opening("vault", disk["v3"].doc, disk["v3"].key, << >>)}
      ELSE IF ~Rejected(credential) /\ Usable("v3.bak")
      THEN {Opening("vault", backup.doc, backup.key,
              Remove("v3.tmp") \o Stage("v3.tmp", backup) \o Move("v3.tmp", "v3", backup))}
      ELSE {}

(* unlock_with_credential; recover_protected_rewrap when a committed        *)
(* password change was loaded from the backup.                              *)
VaultOpenings(credential) ==
  LET repair == CASE Holds("rewrap", "pending") -> RestoreOldCopy
                  [] Authorized("v3") -> << >>
                  [] OTHER -> Put("v3", disk["v3.bak"]) \o Remove("v3.tmp")
  IN  CASE ~There("intent") -> {}
        [] There("intent") /\ ~There("marker") -> CutoverOpenings(credential)
        [] Active /\ There("floor") /\ ~Holds("rewrap", "pending") -> MemoCutoverOpenings(credential)
        [] OTHER -> {Opening("vault", disk[f].doc, disk[f].key, repair) : f \in Loaded(credential)}

(* PadWindow::new and the lock screen.                                      *)
Openings(credential) ==
  IF HasV4 THEN V4Openings ELSE IF LegacyMode THEN LegacyOpenings ELSE VaultOpenings(credential)

-----------------------------------------------------------------------------
(* State.                                                                   *)

Closed == [mode |-> "closed", doc |-> EmptyDoc, gen |-> 0, key |-> 0, review |-> FALSE]
Idle   == [do |-> "none", todo |-> << >>, then |-> Closed, told |-> [doc |-> EmptyDoc, key |-> 0],
           ok |-> TRUE]

Docs == [gen : 0..MaxEdits + 2 * MaxFaults, edit : 0..MaxEdits, sealed : 0..MaxSealed]

TypeOK ==
  /\ DOMAIN disk = Names
  /\ pad.mode \in {"closed", "legacy", "v4", "vault"} /\ {pad.doc, known.doc} \subseteq Docs
  /\ {pad.key, known.key, keys} \subseteq 0..MaxKeys /\ pad.review \in BOOLEAN
  /\ op.do \in {"none", "open", "save", "seal", "enroll", "rewrap", "abort", "discard"}
  /\ edits \in 0..MaxEdits /\ faults \in 0..MaxFaults

Init ==
  /\ disk = [f \in Names |-> None]
  /\ op = Idle /\ pad = Closed /\ known = Idle.told
  /\ edits = 0 /\ keys = 0 /\ faults = 0

Ready(mode) == op = Idle /\ pad.mode = mode /\ ~pad.review

(* `then' is the pad and `told' what the user has been told when the last   *)
(* change is made; not `ok' ends in an error instead.                       *)
Begin(do, todo, then, told, ok) ==
  op' = [do |-> do, todo |-> todo, then |-> then, told |-> told, ok |-> ok]
Told(doc, key) == [doc |-> doc, key |-> key]

-----------------------------------------------------------------------------
(* Opening the pad.  A legacy document found in the temporary file alone    *)
(* was never reported saved; the next save begins by deleting that file.    *)

Published(o) == o.mode = "legacy" => Holds("memo", "plain") \/ Holds("memo.bak", "plain")

Open(credential) ==
  /\ op = Idle /\ pad.mode = "closed"
  /\ \E o \in Openings(credential) :
       Begin("open", o.todo,
             [mode |-> o.mode, doc |-> o.doc, gen |-> o.doc.gen, key |-> o.key,
              review |-> o.mode # "legacy" /\ There("draft")],
             IF Published(o) THEN Told(o.doc, o.key) ELSE known, TRUE)
  /\ UNCHANGED <<disk, pad, known, edits, keys, faults>>

(* The pad is locked or its process ends between two operations.            *)
Close ==
  /\ op = Idle /\ pad.mode # "closed"
  /\ pad' = Closed
  /\ UNCHANGED <<disk, op, known, edits, keys, faults>>

-----------------------------------------------------------------------------
(* Saving.  The next document is one edit, or one memo more with a password *)
(* of its own.                                                              *)

Saved(next) == [pad EXCEPT !.doc = next, !.gen = next.gen, !.review = FALSE]
NextDocs == {Doc(pad.gen + 1, edits + 1, n) :
               n \in IF pad.mode = "legacy" THEN {0}
                     ELSE {pad.doc.sealed, pad.doc.sealed + 1} \cap (0..MaxSealed)}

(* write, prepare_temp.                                                     *)
SaveLegacy ==
  /\ Ready("legacy") /\ edits < MaxEdits
  /\ \E next \in NextDocs :
       LET temp == disk["memo.tmp"]
           free == temp = None \/ (temp.kind = "plain" /\ temp.doc.gen < next.gen)
           publish == IF There("memo") THEN ReplaceKeeping("memo.tmp", "memo", Plain(next), "memo.bak")
                      ELSE Move("memo.tmp", "memo", Plain(next))
       IN  Begin("save", IF free THEN Remove("memo.tmp") \o Stage("memo.tmp", Plain(next)) \o publish
                         ELSE << >>, Saved(next), Told(next, 0), free)
  /\ edits' = edits + 1
  /\ UNCHANGED <<disk, pad, known, keys, faults>>

(* matching_draft: made from the primary there is now, and not newer than   *)
(* what is saved.                                                           *)
DraftOf(primary, kind) ==
  Holds("draft", "draft") /\ disk["draft"].base = disk[primary] /\ disk["draft"].payload.kind = kind
DraftFits(primary, kind, next) == DraftOf(primary, kind) /\ disk["draft"].payload.doc.gen <= next.gen

(* write_v4: what is left of an earlier attempt goes only when it cannot be *)
(* read; then prepare_temp, whose reader takes a v4 document for one of a   *)
(* newer program.                                                           *)
V4TempFree(next) ==
  ~There("v4.tmp") \/ (~Holds("v4.tmp", "v4") /\ DraftFits("memo", "v4", next))

WriteV4(next) ==
  LET new == Mixed(next)
      free == V4TempFree(next)
      publish == IF next.sealed > pad.doc.sealed
                 THEN Remove("v4.bak") \o Put("v4.bak", new) \o Put("v4.floor", FloorAt(next.gen))
                        \o Move("v4.tmp", "memo", new)
                 ELSE ReplaceKeeping("v4.tmp", "memo", new, "v4.bak")
  IN  Begin("save", (IF free THEN Remove("v4.tmp") ELSE << >>)
                      \o Put("draft", Draft(disk["memo"], new))
                      \o (IF free THEN Stage("v4.tmp", new) \o publish \o Remove("draft") ELSE << >>),
            Saved(next), Told(next, 0), free)

(* write_protected: what is left goes when this session opens it and it is  *)
(* not newer, or when it does not open and the draft is this attempt's.     *)
VaultTempFree(next) ==
  \/ ~There("v3.tmp")
  \/ Opens("v3.tmp", pad.key) /\ disk["v3.tmp"].doc.gen <= next.gen
  \/ ~Opens("v3.tmp", pad.key) /\ DraftFits("v3", "sealed", next)

(* After a password change the backup and the marker go before the primary. *)
RewrapFirst(new) == Put("v3.bak", new) \o Put("rewrap", Committed(new))

WriteVault(next) ==
  LET new == Sealed(next, pad.key)
      free == VaultTempFree(next) /\ Loaded(pad.key) = {"v3"}
      protects == next.sealed > pad.doc.sealed
      floor == IF protects THEN Put("floor", FloorAt(next.gen)) ELSE << >>
      publish == CASE There("rewrap") -> RewrapFirst(new) \o floor \o Move("v3.tmp", "v3", new)
                   [] ~There("rewrap") /\ protects ->
                        Remove("v3.bak") \o Put("v3.bak", new) \o floor \o Move("v3.tmp", "v3", new)
                   [] OTHER -> ReplaceKeeping("v3.tmp", "v3", new, "v3.bak")
  IN  Begin("save", IF free THEN Remove("v3.tmp") \o Stage("v3.tmp", new)
                                  \o Put("draft", Draft(disk["v3"], new)) \o publish \o Remove("draft")
                    ELSE << >>,
            Saved(next), Told(next, pad.key), free)

Write(next) == IF pad.mode = "v4" THEN WriteV4(next) ELSE WriteVault(next)

SaveProtected ==
  /\ Ready("v4") \/ Ready("vault")
  /\ edits < MaxEdits /\ edits' = edits + 1
  /\ \E next \in NextDocs : Write(next)
  /\ UNCHANGED <<disk, pad, known, keys, faults>>

(* A draft was found: it is saved, in a vault as one edit more, or thrown   *)
(* away.                                                                    *)
DraftOffered == IF pad.mode = "v4" THEN DraftOf("memo", "v4")
                ELSE DraftOf("v3", "sealed") /\ disk["draft"].payload.key = pad.key

RestoreDraft ==
  /\ op = Idle /\ pad.review /\ DraftOffered
  /\ LET draft == disk["draft"].payload.doc
     IN  Write(IF pad.mode = "vault" THEN [draft EXCEPT !.gen = @ + 1] ELSE draft)
  /\ UNCHANGED <<disk, pad, known, edits, keys, faults>>

DiscardDraft ==
  /\ op = Idle /\ pad.review
  /\ pad.mode = "vault" => Loaded(pad.key) = {"v3"}
  /\ Begin("discard", Remove("draft"), [pad EXCEPT !.review = FALSE], known, TRUE)
  /\ UNCHANGED <<disk, pad, known, edits, keys, faults>>

-----------------------------------------------------------------------------
(* Moving to another format.                                                *)

(* migrate_to_v4.                                                           *)
SealFirstMemo ==
  /\ Ready("legacy") /\ MaxSealed > 0
  /\ pad.doc # EmptyDoc /\ pad.gen = pad.doc.gen /\ disk["memo"] = Plain(pad.doc)
  /\ LET next == [pad.doc EXCEPT !.sealed = 1]
         new == Mixed(next)
     IN  Begin("seal", Remove("v4.bak") \o Remove("v4.tmp") \o Stage("v4.bak", new) \o Stage("v4.tmp", new)
                         \o Put("v4.intent", Signal) \o RetireLegacy \o Move("v4.tmp", "memo", new)
                         \o Put("v4.marker", Signal),
               [Saved(next) EXCEPT !.mode = "v4"], Told(next, 0), TRUE)
  /\ UNCHANGED <<disk, pad, known, edits, keys, faults>>

(* migrate_to_protected, migrate_v4_to_protected.  Copies of an earlier     *)
(* attempt stand in the way of the first and are removed by the second.     *)
EnrollVault ==
  /\ Ready("legacy") \/ Ready("v4")
  /\ keys < MaxKeys /\ keys' = keys + 1
  /\ pad.gen = pad.doc.gen
  /\ LET new == Sealed(pad.doc, keys + 1)
         v4 == pad.mode = "v4"
         left == {f \in {"v3", "v3.bak", "v3.tmp"} : There(f)}
         exact == IF v4 THEN ~There("floor") /\ disk["memo"] = Mixed(pad.doc)
                  ELSE LegacyOpenings = {Opening("legacy", pad.doc, 0, << >>)}
                       /\ (disk["memo"] = Plain(pad.doc) \/ pad.doc = EmptyDoc)
         free == exact /\ (v4 \/ left = {})
         todo == (IF left = {} THEN << >> ELSE Remove("v3.tmp") \o Remove("v3") \o Remove("v3.bak"))
                   \o Stage("v3.tmp", new) \o Move("v3.tmp", "v3", new)
                   \o Stage("v3.tmp", new) \o Move("v3.tmp", "v3.bak", new)
                   \o Put("intent", IntentFrom(pad.mode, pad.doc.gen))
                   \o (IF v4 THEN RetireV4 ELSE << >>) \o RetireLegacy \o Put("memo", Tomb)
                   \o Put("marker", Signal)
     IN  Begin("enroll", IF free THEN todo ELSE << >>,
               [pad EXCEPT !.mode = "vault", !.key = keys + 1], Told(pad.doc, keys + 1), free)
  /\ UNCHANGED <<disk, pad, known, edits, faults>>

(* change_password_v2, rewrap_protected.  The pad is locked afterwards.     *)
ChangePassword ==
  /\ Ready("vault")
  /\ keys < MaxKeys /\ keys' = keys + 1
  /\ LET old == disk["v3"]
         new == Sealed(pad.doc, keys + 1)
         free == /\ old = Sealed(pad.doc, pad.key) /\ Accepts(pad.doc) /\ Authorized("v3")
                 /\ ~There("draft") /\ ~Holds("rewrap", "pending") /\ ~There("v3.tmp")
     IN  Begin("rewrap", IF free THEN Put("rewrap", Pending(old, new)) \o Stage("v3.tmp", new)
                                       \o Put("v3.bak", new) \o Put("rewrap", Committed(new))
                                       \o Move("v3.tmp", "v3", new)
                         ELSE << >>,
               Closed, Told(pad.doc, keys + 1), free)
  /\ UNCHANGED <<disk, pad, known, edits, faults>>

-----------------------------------------------------------------------------
(* Going on, and faults.                                                    *)

Step ==
  /\ op.todo # << >>
  /\ disk' = Head(op.todo).files @@ disk
  /\ op' = [op EXCEPT !.todo = Tail(op.todo)]
  /\ UNCHANGED <<pad, known, edits, keys, faults>>

(* After an error the legacy pad goes on with its newer document; a         *)
(* protected one saves nothing more until it is opened again.               *)
AfterError == IF pad.mode = "legacy" /\ op.do = "save" THEN [pad EXCEPT !.gen = op.then.gen] ELSE Closed

Finish ==
  /\ op # Idle /\ op.todo = << >>
  /\ pad' = IF op.ok THEN op.then ELSE AfterError
  /\ known' = IF op.ok THEN op.told ELSE known
  /\ op' = Idle
  /\ UNCHANGED <<disk, edits, keys, faults>>

(* abort_pending_protected_rewrap after a password change that failed.      *)
Fail ==
  /\ op.todo # << >> /\ faults < MaxFaults /\ faults' = faults + 1
  /\ disk' \in {disk, Head(op.todo).half @@ disk}
  /\ op' = [op EXCEPT !.do = IF op.do = "rewrap" THEN "abort" ELSE op.do,
                     !.todo = IF op.do = "rewrap" /\ disk'["rewrap"].kind = "pending"
                              THEN RestoreOldCopy ELSE << >>,
                     !.ok = FALSE]
  /\ UNCHANGED <<pad, known, edits, keys>>

Crash ==
  /\ op # Idle /\ faults < MaxFaults /\ faults' = faults + 1
  /\ op' = Idle /\ pad' = Closed
  /\ UNCHANGED <<disk, known, edits, keys>>

Next ==
  \/ \E credential \in Credentials : Open(credential)
  \/ Close \/ SaveLegacy \/ SaveProtected \/ RestoreDraft \/ DiscardDraft
  \/ SealFirstMemo \/ EnrollVault \/ ChangePassword
  \/ Step \/ Finish \/ Fail \/ Crash

Spec == Init /\ [][Next]_vars

-----------------------------------------------------------------------------
(* Properties.                                                              *)

NotOlder(doc, than) == doc.edit >= than.edit /\ doc.sealed >= than.sealed

(* The document the next opening shows, the recovery key at hand.           *)
StoredDoc ==
  LET openings == Openings(Recovery)
  IN  IF openings = {} \/ \E o \in openings : ~Published(o) THEN EmptyDoc
      ELSE (CHOOSE o \in openings : TRUE).doc

(* Wherever an operation is cut off, what the next opening shows is the     *)
(* document of before or a newer one, never an older one, never one that    *)
(* takes back the protection of a memo, and never nothing; and what the     *)
(* user is told is saved is what it shows (the migrations with their        *)
(* recovery, the floors, the drafts, both backups).                         *)
Store == INSTANCE DurableDocument WITH
           Empty <- EmptyDoc, IsNewer <- NotOlder, stored <- StoredDoc, told <- known.doc
KeepsDocument == Store!Spec

(* No copy a reader for the current user's account would take has a memo    *)
(* without the password the user was told it has, and there is none at all  *)
(* once the pad is in a vault ("never let ReplaceFileW preserve the         *)
(* plaintext generation", retire_v4_source, the tombstone).  Copies staged  *)
(* for a v4 pad that never began have no reader.                            *)
PlainCopiesRetired ==
  LET Exposed(f) == Holds(f, "plain") \/ (Holds(f, "v4") /\ There("v4.intent"))
  IN  /\ \A f \in Legacy \cup V4 :
           Exposed(f) => known.key = 0 /\ disk[f].doc.sealed >= known.doc.sealed
      /\ Holds("draft", "draft") /\ disk["draft"].payload.kind = "v4" =>
           known.key = 0 /\ disk["draft"].payload.doc.sealed >= known.doc.sealed

(* "An interrupted rewrap has one explicit authoritative generation": there *)
(* is never a moment when two passwords open the vault, a password that has *)
(* been replaced never opens it again, whatever copy is put back, the       *)
(* password shows the same document as the recovery key, and until a change *)
(* of it is committed the password the user knows opens the vault.          *)
OnePasswordOpens ==
  LET opening == {k \in 1..MaxKeys : Openings(k) # {}}
  IN  known.key > 0 =>
        /\ Cardinality(opening) <= 1
        /\ \A k \in opening : k >= known.key /\ \A o \in Openings(k) : o.doc = StoredDoc
        /\ Holds("rewrap", "committed") \/ known.key \in opening

(* Once the marker of a password change is committed "the caller must       *)
(* unlock with the new password and let the store repair".                  *)
NewPasswordOpens ==
  Holds("rewrap", "committed") => Openings(disk["rewrap"].new.key) # {}
=============================================================================

----------------------------- MODULE LearningLog -----------------------------
(* The durable learning log (crates/sakura-store/src/learning/log.rs with   *)
(* codec.rs and quarantine.rs) and the service that owns it                 *)
(* (crates/sakura-engine/src/learning.rs): opening with recovery, appending,*)
(* flushing and compaction, forgetting one item, clearing.                  *)
(*                                                                          *)
(* An operation runs under the service's mutex; every change it makes to    *)
(* the directory is a step that may fail or be the last one before a crash. *)
(* A crash may take what was appended since the last sync, or leave part of *)
(* it; a rename is durable when it returns and does what it reports.  A     *)
(* record is its number in the order of learning; sizes are counted in      *)
(* records.  Temporary siblings are never read back: of those one bit is    *)
(* kept, whether there are any.                                             *)
EXTENDS Naturals, FiniteSets, FiniteSetsExt, SequencesExt

CONSTANTS
  MaxRecords,     \* bound: records learned
  Items,          \* (reading, surface) pairs
  ItemOf,         \* the pair each record is about
  Limit,          \* MAX_LOG_RECORDS
  Target,         \* TARGET_LOG_RECORDS
  Capacity,       \* MAX_LEARNING_LOG_BYTES
  RetainedCopies, \* RETAINED_COPIES
  MaxDamage,      \* bound: frames damaged while no engine runs
  TornReopen      \* whether a replacement may fail while the file ends in
                  \* the remains of a failed append

ASSUME LogAssumption ==
  /\ MaxRecords \in Nat /\ MaxRecords >= 2 /\ ItemOf \in [1..MaxRecords -> Items]
  /\ {Limit, Target, Capacity} \subseteq Nat \ {0} /\ Target <= Limit /\ Limit < Capacity
  /\ RetainedCopies \in Nat \ {0} /\ MaxDamage \in Nat /\ TornReopen \in BOOLEAN

VARIABLES
  disk,     \* the directory of log.bin
  mem,      \* LearningLog
  op,       \* the operation in progress and its next step
  up,       \* whether an engine has the log open
  view,     \* records the service ranks by
  learned,  \* records learned so far
  damage,   \* frames damaged so far
  flushed,  \* ghost: records reported durable and not given up since
  erased,   \* ghost: records reported forgotten or cleared
  cleared   \* ghost: records reported cleared

vars == <<disk, mem, op, up, view, learned, damage, flushed, erased, cleared>>
ghosts == <<flushed, erased, cleared>>

-----------------------------------------------------------------------------
(* Files.                                                                   *)

Records == 1..MaxRecords
Torn == 0                   \* the beginning of a frame
Bad  == MaxRecords + 1      \* a whole frame that fails its checksum
Frames == Seq(Records \union {Torn, Bad})

(* `safe' frames are on the medium, the others in the system's cache.       *)
File(kind, frames) == [kind |-> kind, frames |-> frames, safe |-> Len(frames)]
Absent == File("none", << >>)
Blank  == File("blank", << >>)     \* created, its header not yet written
Canonical(frames) == File("now", frames)
Files == {f \in [kind : {"none", "blank", "old", "now"}, frames : Frames, safe : Nat] :
            f.safe <= Len(f.frames) /\ (f.kind = "none" => f = Absent)}

There(f) == f # Absent
RecordsIn(frames) == ToSet(frames) \intersect Records

(* scan_records: the frames before the first one that cannot be read.       *)
Readable(frames) ==
  SubSeq(frames, 1, Max({k \in 0..Len(frames) : \A i \in 1..k : frames[i] \in Records}))
IsWhole(frames) == Readable(frames) = frames
Rest(frames) == SubSeq(frames, Len(Readable(frames)) + 1, Len(frames))

(* Mutant: whatever cannot be read is a torn append.                        *)
TornVerdictsMut(rest) == {TRUE}

(* unreadable_tail_is_torn: the beginning of a frame with others behind it  *)
(* declares a length that may or may not run past the end.                  *)
TornVerdicts(rest) ==
  IF Len(rest) < 2 THEN {rest # <<Bad>>} ELSE IF Head(rest) = Bad THEN {FALSE} ELSE BOOLEAN

(* The oldest records go.                                                   *)
Compacted(frames) ==
  LET good == Readable(frames)
  IN  IF Len(good) > Target THEN SubSeq(good, Len(good) - Target + 1, Len(good)) ELSE good

(* What is left of the first n frames without those about one item.         *)
Without(frames, item) ==
  LET left[n \in 0..Len(frames)] ==
        IF n = 0 THEN << >>
        ELSE IF frames[n] \in Records /\ ItemOf[frames[n]] = item THEN left[n - 1]
        ELSE Append(left[n - 1], frames[n])
  IN  left[Len(frames)]

(* The log that the next open starts from.                                  *)
Parked(d) == {d.parked, d.forgetBak} \ {Absent}
Source(d) ==
  CASE There(d.log) -> d.log
    [] ~There(d.log) /\ Parked(d) # {} ->
         IF There(d.parked) /\ There(d.forgetBak) THEN Absent ELSE CHOOSE f \in Parked(d) : TRUE
    [] ~There(d.log) /\ Parked(d) = {} /\ There(d.compactBak) -> d.compactBak
    [] OTHER -> IF Cardinality(d.versions) = 1 THEN CHOOSE f \in d.versions : TRUE ELSE Absent

(* Everything kept on purpose: that log, quarantine copies and the backups  *)
(* of upgrades.                                                             *)
Held(d) == RecordsIn(Source(d).frames) \union (UNION {RecordsIn(c) : c \in Range(d.copies)})
             \union (UNION {RecordsIn(f.frames) : f \in d.versions})

-----------------------------------------------------------------------------
(* State.                                                                   *)

Closed == [file |-> FALSE, records |-> 0, dirty |-> 0,
           restore |-> FALSE, backups |-> FALSE, temps |-> FALSE]
Idle   == [do |-> "rest", at |-> "rest", item |-> CHOOSE i \in Items : TRUE, out |-> << >>]

Steps == {"rest", "restore", "leftovers", "create", "header", "read", "upgrade", "keep old",
          "replace old", "quarantine", "truncate", "settle", "sync", "write", "publish",
          "reopen", "filter", "own", "park", "swap", "abort", "copies", "versions"}

Directories ==
  [log : Files, parked : Files, forgetTmp : BOOLEAN, forgetBak : Files, compactBak : Files,
   clearBak : BOOLEAN, versions : SUBSET Files, copies : Seq(Frames)]
Memory == [file : BOOLEAN, records : Nat, dirty : Nat,
           restore : BOOLEAN, backups : BOOLEAN, temps : BOOLEAN]
Operations == [do : {"rest", "open", "maintain", "forget", "clear"}, at : Steps,
               item : Items, out : Frames]

LogTypeOK ==
  /\ disk \in Directories /\ mem \in Memory /\ op \in Operations /\ up \in BOOLEAN
  /\ Len(disk.copies) <= RetainedCopies
  /\ learned \in 0..MaxRecords /\ damage \in 0..MaxDamage
  /\ {view, flushed, erased, cleared} \subseteq SUBSET (1..learned)

(* What this or an older build, stopped anywhere, can have left behind: a   *)
(* log of any format, or none and a backup of an interrupted replacement.   *)
LogInit ==
  /\ \E log \in {Absent, Canonical(<<1, 2>>), File("old", <<1, 2>>)},
        forgetBak, compactBak \in {Absent, Canonical(<<1>>)}, clearBak \in BOOLEAN,
        versions \in {{}, {File("old", <<1>>)}} :
       disk = [log |-> log, parked |-> Absent, forgetTmp |-> FALSE, forgetBak |-> forgetBak,
               compactBak |-> compactBak, clearBak |-> clearBak, versions |-> versions,
               copies |-> << >>]
  /\ mem = Closed /\ op = Idle /\ up = FALSE /\ view = {}
  /\ learned = 2 /\ damage = 0
  /\ flushed = RecordsIn(Source(disk).frames) /\ erased = {} /\ cleared = {}

-----------------------------------------------------------------------------
(* Steps.                                                                   *)

Does(do, at) == op.do = do /\ op.at = at
Goto(at) == op' = [op EXCEPT !.at = at]

(* An error ends the operation; an open that fails leaves the service with  *)
(* learning that is not stored until the engine is started again.           *)
Fail == op' = Idle /\ mem' = IF op.do = "open" THEN Closed ELSE mem
FailWith(m) == op' = Idle /\ mem' = IF op.do = "open" THEN Closed ELSE m
Quietly == UNCHANGED <<up, view, learned, damage, flushed, erased, cleared>>

(* restore_forget_backup: repair the backup, then rename it.                *)
RestoreFrom(name, done) ==
  LET f    == disk[name]
      good == Readable(f.frames)
      kept == IF IsWhole(f.frames) THEN f ELSE Canonical(good)
  IN  \/ UNCHANGED disk /\ Fail
      \/ /\ TRUE \in TornVerdicts(Rest(f.frames))
         /\ \/ disk' = [disk EXCEPT ![name] = kept] /\ Fail
            \/ disk' = [disk EXCEPT ![name] = Absent, !.log = kept] /\ done

(* Mutant: a parked log is restored over the one that replaced it.          *)
OpenMut ==
  /\ op = Idle /\ ~up /\ mem' = [Closed EXCEPT !.temps = disk.forgetTmp]
  /\ op' = [Idle EXCEPT !.do = "open", !.at = IF Parked(disk) = {} THEN "leftovers" ELSE "restore"]
  /\ UNCHANGED disk /\ Quietly

(* recover_forget_artifacts_at_startup                                      *)
Open ==
  /\ op = Idle /\ ~up
  /\ There(disk.log) \/ ~(There(disk.parked) /\ There(disk.forgetBak))
  /\ mem' = [Closed EXCEPT !.temps = disk.forgetTmp,
                           !.backups = There(disk.log) /\ Parked(disk) # {}]
  /\ op' = [Idle EXCEPT !.do = "open",
                        !.at = IF There(disk.log) \/ Parked(disk) = {} THEN "leftovers" ELSE "restore"]
  /\ UNCHANGED disk /\ Quietly

OpenRestores ==
  /\ Does("open", "restore")
  /\ RestoreFrom(IF There(disk.parked) THEN "parked" ELSE "forgetBak",
                 Goto("leftovers") /\ UNCHANGED mem)
  /\ Quietly

(* recover_publish_artifacts_at_startup                                     *)
ClearLeftovers ==
  /\ Does("open", "leftovers") /\ There(disk.log)
  /\ \E removed \in 0..2 :
       /\ disk' = [disk EXCEPT !.compactBak = IF removed > 0 THEN Absent ELSE @,
                               !.clearBak = @ /\ removed < 2]
       /\ \/ Fail
          \/ removed = 2 /\ Goto("read") /\ UNCHANGED mem
  /\ Quietly

RestoreLeftover ==
  /\ Does("open", "leftovers") /\ ~There(disk.log)
  /\ \/ UNCHANGED disk /\ Fail
     \/ /\ There(disk.compactBak) \/ Cardinality(disk.versions) <= 1
        /\ \/ disk' = [disk EXCEPT !.clearBak = FALSE] /\ Fail
           \/ /\ disk' = [disk EXCEPT !.clearBak = FALSE, !.log = Source(disk), !.compactBak = Absent,
                                       !.versions = IF There(disk.compactBak) THEN @ ELSE {}]
              /\ Goto(IF There(Source(disk)) THEN "read" ELSE "create") /\ UNCHANGED mem
  /\ Quietly

(* create_if_missing                                                        *)
Create ==
  /\ Does("open", "create")
  /\ \/ UNCHANGED disk /\ Fail
     \/ disk' = [disk EXCEPT !.log = Blank] /\ Goto("header") /\ UNCHANGED mem
  /\ Quietly

WriteHeader ==
  /\ Does("open", "header")
  /\ \/ UNCHANGED disk /\ Fail
     \/ disk' = [disk EXCEPT !.log = Canonical(<< >>)] /\ Goto("read") /\ UNCHANGED mem
  /\ Quietly

Read ==
  /\ Does("open", "read")
  /\ LET f == disk.log
     IN  \/ Fail
         \/ /\ f.kind = "old" /\ UNCHANGED mem
            /\ op' = [op EXCEPT !.at = "upgrade", !.out = Readable(f.frames)]
         \/ /\ f.kind = "now" /\ UNCHANGED mem
            /\ \E torn \in TornVerdicts(Rest(f.frames)) :
                 Goto(IF torn THEN "truncate" ELSE "quarantine")
  /\ UNCHANGED disk /\ Quietly

(* publish_upgrade: the temporary, a copy of the original, the rename.      *)
Upgrade ==
  /\ op.do = "open"
  /\ \/ op.at \in {"upgrade", "keep old", "replace old"} /\ UNCHANGED disk /\ Fail
     \/ op.at = "upgrade" /\ UNCHANGED <<disk, mem>> /\ Goto("keep old")
     \/ /\ op.at = "keep old" /\ Goto("replace old") /\ UNCHANGED mem
        /\ disk' = [disk EXCEPT !.versions = @ \union {disk.log}]
     \/ /\ op.at = "replace old" /\ Goto("truncate") /\ UNCHANGED mem
        /\ disk' = [disk EXCEPT !.log = Canonical(op.out)]
  /\ Quietly

(* Mutant: copies are never dropped. *)
NewestMut(copies) == copies

(* The copy just written stays, with the newest of the others.              *)
Newest(copies) == IF Len(copies) > RetainedCopies THEN Tail(copies) ELSE copies

Quarantine ==
  /\ Does("open", "quarantine")
  /\ \/ UNCHANGED <<disk, flushed>> /\ Fail
     \/ LET all == Append(disk.copies, disk.log.frames)
        IN  /\ disk' = [disk EXCEPT !.copies = Newest(all)]
            /\ flushed' = flushed \ (RecordsIn(Head(all)) \ Held(disk'))
            /\ Goto("truncate") /\ UNCHANGED mem
  /\ UNCHANGED <<up, view, learned, damage, erased, cleared>>

Opened(frames) == [Closed EXCEPT !.file = TRUE, !.records = Len(frames)]

Truncate ==
  /\ Does("open", "truncate")
  /\ LET good == Readable(disk.log.frames)
     IN  \/ UNCHANGED <<disk, up, view>> /\ Fail
        \/ /\ disk' = [disk EXCEPT !.log = Canonical(good)]
           /\ \/ UNCHANGED <<up, view>> /\ Fail
              \/ /\ mem' = [Opened(good) EXCEPT !.temps = mem.temps, !.backups = mem.backups]
                 /\ IF Len(good) > Limit
                    THEN Goto("settle") /\ UNCHANGED <<up, view>>
                    ELSE op' = Idle /\ up' = TRUE /\ view' = RecordsIn(good)
  /\ UNCHANGED <<learned, damage, flushed, erased, cleared>>

-----------------------------------------------------------------------------
(* ForgetArtifacts::settle, before every rewrite and after a forget.        *)

Settling == op.at \in {"settle", "abort"}

SettleRestore ==
  /\ Settling /\ mem.restore
  /\ RestoreFrom("parked", mem' = [mem EXCEPT !.restore = FALSE] /\ UNCHANGED op)
  /\ Quietly

SettleBackups ==
  /\ Settling /\ ~mem.restore /\ mem.backups
  /\ \/ UNCHANGED disk /\ Fail
     \/ disk' = [disk EXCEPT !.parked = Absent] /\ Fail
     \/ /\ disk' = [disk EXCEPT !.parked = Absent, !.forgetBak = Absent]
        /\ mem' = [mem EXCEPT !.backups = FALSE] /\ UNCHANGED op
  /\ Quietly

SettleTemps ==
  /\ Settling /\ ~mem.restore /\ ~mem.backups /\ mem.temps
  /\ \/ UNCHANGED disk /\ Fail
     \/ /\ disk' = [disk EXCEPT !.forgetTmp = FALSE]
        /\ mem' = [mem EXCEPT !.temps = FALSE] /\ UNCHANGED op
  /\ Quietly

Settled ==
  /\ Settling /\ ~mem.restore /\ ~mem.backups /\ ~mem.temps
  /\ CASE op.at = "abort"       -> op' = Idle
       [] Does("forget", "settle") -> IF mem.file THEN Goto("filter") ELSE op' = Idle
       [] Does("clear", "settle")  -> Goto("copies")
       [] OTHER -> IF ~mem.file \/ mem.records > Limit \/ mem.dirty > 0
                   THEN Goto("sync") ELSE op' = Idle
  /\ UNCHANGED <<disk, mem>> /\ Quietly

Maintain ==
  /\ up /\ op = Idle /\ op' = [Idle EXCEPT !.do = "maintain", !.at = "settle"]
  /\ UNCHANGED <<disk, mem>> /\ Quietly

Forget(item) ==
  /\ up /\ op = Idle
  /\ op' = [do |-> "forget", at |-> "settle", item |-> item, out |-> << >>]
  /\ UNCHANGED <<disk, mem>> /\ Quietly

Clear ==
  /\ up /\ op = Idle /\ op' = [Idle EXCEPT !.do = "clear", !.at = "settle"]
  /\ UNCHANGED <<disk, mem>> /\ Quietly

-----------------------------------------------------------------------------
(* Flushing and rewriting.                                                  *)

WriterLost == [mem EXCEPT !.file = FALSE]

Synced == [disk EXCEPT !.log.safe = Len(disk.log.frames)]
TooLong == Len(disk.log.frames) > Capacity

(* The file the append handle writes to: it follows the log when a forget   *)
(* moves it aside.                                                          *)
Handle == IF mem.restore THEN "parked" ELSE "log"

(* sync_data and nothing more, when neither the writer is lost nor the log  *)
(* too long.                                                                *)
Flush ==
  /\ Does("maintain", "sync") /\ mem.file /\ mem.records <= Limit
  /\ \/ UNCHANGED <<disk, flushed>> /\ FailWith(WriterLost)
     \/ /\ disk' = Synced /\ mem' = [mem EXCEPT !.dirty = 0] /\ op' = Idle
        /\ flushed' = flushed \union RecordsIn(disk.log.frames)
  /\ UNCHANGED <<up, view, learned, damage, erased, cleared>>

(* compact_for_open, and clear, whose replacement is empty.                 *)
SyncForRewrite ==
  /\ op.at = "sync" /\ (op.do = "maintain" => ~mem.file \/ mem.records > Limit)
  /\ \/ UNCHANGED disk /\ Fail
     \/ /\ disk' = IF mem.file THEN Synced ELSE disk
        /\ \/ Fail
           \/ /\ op.do = "clear" \/ ~TooLong
              /\ op' = [op EXCEPT !.at = "write",
                          !.out = IF op.do = "clear" THEN << >> ELSE Compacted(disk.log.frames)]
              /\ UNCHANGED mem
  /\ Quietly

WriteReplacement ==
  /\ op.at = "write" /\ UNCHANGED disk
  /\ \/ Fail
     \/ Goto("publish") /\ UNCHANGED mem
  /\ Quietly

(* What a replacement leaves out on purpose.                                *)
GivenUp == RecordsIn(IF op.do = "clear" THEN disk.log.frames ELSE Readable(disk.log.frames))
             \ RecordsIn(op.out)

(* The handle is closed for the rename and reopened if that fails.          *)
Publish ==
  /\ op.at = "publish"
  /\ \/ /\ TornReopen \/ IsWhole(disk.log.frames)
        /\ \E reopened \in BOOLEAN : FailWith([mem EXCEPT !.file = reopened])
        /\ UNCHANGED <<disk, flushed>>
     \/ /\ disk' = [disk EXCEPT !.log = Canonical(op.out)]
        /\ flushed' = flushed \ GivenUp
        /\ mem' = WriterLost /\ Goto("reopen")
  /\ UNCHANGED <<up, view, learned, damage, erased, cleared>>

(* Published: a writer that cannot be opened is left to the next maintain.  *)
Reopen ==
  /\ op.at = "reopen"
  /\ \E reopened \in BOOLEAN :
       IF op.do = "clear"
       THEN /\ mem' = [Opened(<< >>) EXCEPT !.file = reopened] /\ op' = Idle
            /\ view' = {} /\ erased' = 1..learned /\ cleared' = 1..learned
            /\ UNCHANGED <<up, flushed>>
       ELSE /\ UNCHANGED <<erased, cleared>>
            /\ IF reopened
               THEN /\ mem' = Opened(op.out) /\ op' = Idle /\ up' = TRUE
                    /\ view' = RecordsIn(op.out) /\ flushed' = flushed \union RecordsIn(op.out)
               ELSE /\ FailWith([Opened(op.out) EXCEPT !.file = FALSE])
                    /\ UNCHANGED <<up, view, flushed>>
  /\ UNCHANGED <<disk, learned, damage>>

(* remove_copies, then remove_version_backups.                              *)
RemoveCopies ==
  /\ Does("clear", "copies")
  /\ \E n \in 0..Len(disk.copies) :
       /\ disk' = [disk EXCEPT !.copies = SubSeq(@, n + 1, Len(@))]
       /\ \/ Fail
          \/ n = Len(disk.copies) /\ Goto("versions") /\ UNCHANGED mem
  /\ flushed' = flushed \intersect RecordsIn(disk.log.frames)
  /\ UNCHANGED <<up, view, learned, damage, erased, cleared>>

(* Mutant: the backups of upgrades stay. *)
RemoveVersionsMut == Does("clear", "versions") /\ Goto("sync") /\ UNCHANGED <<disk, mem>> /\ Quietly

RemoveVersions ==
  /\ Does("clear", "versions")
  /\ \E left \in SUBSET disk.versions :
       /\ disk' = [disk EXCEPT !.versions = left]
       /\ \/ Fail
          \/ left = {} /\ Goto("sync") /\ UNCHANGED mem
  /\ Quietly

-----------------------------------------------------------------------------
(* forget_exact: two renames, so that the old log is never overwritten.     *)

(* Sync, read back, filter, write the temporary.                            *)
Filter ==
  /\ Does("forget", "filter")
  /\ LET frames == disk.log.frames
         kept   == Without(frames, op.item)
     IN  \/ UNCHANGED disk /\ Fail
        \/ /\ TooLong \/ ~IsWhole(frames) \/ kept = frames \/ disk.forgetTmp \/ There(disk.parked)
           /\ disk' = Synced /\ Fail
        \/ /\ ~TooLong /\ IsWhole(frames) /\ kept # frames
           /\ ~disk.forgetTmp /\ ~There(disk.parked)
           /\ \E made \in BOOLEAN : disk' = [Synced EXCEPT !.forgetTmp = made]
           /\ \/ Goto("abort") /\ mem' = [mem EXCEPT !.temps = TRUE]
              \/ /\ disk'.forgetTmp /\ UNCHANGED mem
                 /\ op' = [op EXCEPT !.at = "own", !.out = kept]
  /\ Quietly

(* The replacement's own append handle, and the first rename.               *)
Park ==
  /\ op.do = "forget" /\ op.at \in {"own", "park"}
  /\ \/ Goto("abort") /\ mem' = [mem EXCEPT !.temps = TRUE] /\ UNCHANGED disk
     \/ op.at = "own" /\ Goto("park") /\ UNCHANGED <<disk, mem>>
     \/ /\ op.at = "park" /\ Goto("swap") /\ UNCHANGED mem
        /\ disk' = [disk EXCEPT !.parked = disk.log, !.log = Absent]
  /\ Quietly

AboutItem == {r \in 1..learned : ItemOf[r] = op.item}

Swap ==
  /\ Does("forget", "swap") /\ Goto("abort")
  /\ \/ /\ mem' = [mem EXCEPT !.temps = TRUE, !.restore = TRUE]
        /\ UNCHANGED <<disk, view, erased, flushed>>
     \/ /\ disk' = [disk EXCEPT !.log = Canonical(op.out), !.forgetTmp = FALSE]
        /\ mem' = [Opened(op.out) EXCEPT !.backups = TRUE]
        /\ view' = RecordsIn(op.out)
        /\ erased' = erased \union AboutItem /\ flushed' = flushed \ AboutItem
  /\ UNCHANGED <<up, learned, damage, cleared>>

-----------------------------------------------------------------------------
(* Learning, and what happens to the engine and the medium.                 *)

(* A commit is ranked at once, whether or not it can be stored.             *)
LearnRecord ==
  /\ up /\ op = Idle /\ learned < MaxRecords
  /\ learned' = learned + 1 /\ view' = view \union {learned + 1}
  /\ \/ /\ ~mem.file \/ mem.records + 1 > Capacity
        /\ UNCHANGED <<disk, mem>>
     \/ /\ mem.file /\ mem.records + 1 <= Capacity
        /\ \/ /\ disk' = [disk EXCEPT ![Handle].frames = Append(@, learned + 1)]
              /\ mem' = [mem EXCEPT !.records = @ + 1, !.dirty = @ + 1]
           \/ /\ \/ UNCHANGED disk
                 \/ disk' = [disk EXCEPT ![Handle].frames = Append(@, Torn)]
              /\ mem' = WriterLost
  /\ UNCHANGED <<op, up, damage, flushed, erased, cleared>>

(* What may be left of a file: all of it, or its synced frames, some more   *)
(* and perhaps the beginning of another.                                    *)
AfterCrash(f) ==
  {f} \union
  UNION {{[f EXCEPT !.frames = SubSeq(f.frames, 1, k), !.safe = k],
          [f EXCEPT !.frames = Append(SubSeq(f.frames, 1, k), Torn), !.safe = k + 1]} :
            k \in f.safe..(Len(f.frames) - 1)}

Crash ==
  /\ up \/ op # Idle
  /\ \E log \in AfterCrash(disk.log), parked \in AfterCrash(disk.parked) :
       disk' = [disk EXCEPT !.log = [log EXCEPT !.safe = Len(log.frames)],
                           !.parked = [parked EXCEPT !.safe = Len(parked.frames)]]
  /\ up' = FALSE /\ op' = Idle /\ mem' = Closed /\ view' = {}
  /\ UNCHANGED <<learned, damage, flushed, erased, cleared>>

(* The medium spoils a frame while nobody has the log open.                 *)
Damage ==
  /\ ~up /\ op = Idle /\ damage < MaxDamage /\ damage' = damage + 1
  /\ \E i \in DOMAIN disk.log.frames :
       /\ disk.log.frames[i] \in Records
       /\ disk' = [disk EXCEPT !.log.frames[i] = Bad]
       /\ flushed' = flushed \ {disk.log.frames[i]}
  /\ UNCHANGED <<mem, op, up, view, learned, erased, cleared>>

LogNext ==
  \/ Open \/ OpenRestores \/ ClearLeftovers \/ RestoreLeftover \/ Create \/ WriteHeader
  \/ Read \/ Upgrade \/ Quarantine \/ Truncate
  \/ SettleRestore \/ SettleBackups \/ SettleTemps \/ Settled
  \/ Maintain \/ Clear \/ \E item \in Items : Forget(item)
  \/ Flush \/ SyncForRewrite \/ WriteReplacement \/ Publish \/ Reopen
  \/ RemoveCopies \/ RemoveVersions \/ Filter \/ Park \/ Swap
  \/ LearnRecord \/ Crash \/ Damage

LogSpec == LogInit /\ [][LogNext]_vars

-----------------------------------------------------------------------------
(* What was reported durable stays in the log that the next open starts     *)
(* from, or in a copy or backup made on purpose, at every step of every     *)
(* rewrite and whatever fails: only the limit of the log, the retention of  *)
(* copies, damage and the user take a record away.                          *)
FlushedIsKept == flushed \subseteq Held(disk)

(* What the user had forgotten or cleared is never ranked by again, nor     *)
(* brought back by a recovery from any leftover of an interrupted rewrite.  *)
ErasedStaysErased ==
  /\ view \intersect erased = {}
  /\ RecordsIn(Source(disk).frames) \intersect erased = {}

(* A clear that was reported done has reached every file that is not        *)
(* removed of itself: log, parked logs, copies, backups of any build.       *)
ClearReachesEveryFile ==
  LET files == {disk.log, disk.parked, disk.forgetBak, disk.compactBak} \union disk.versions
  IN  cleared \intersect
        ((UNION {RecordsIn(f.frames) : f \in files}) \union Held(disk)) = {}

-----------------------------------------------------------------------------
(* Why.  An operation is at a step of its own.                              *)
StepsOK ==
  /\ op.do = "rest" => op = Idle
  /\ op.do = "open" =>
       /\ ~up
       /\ op.at \in {"restore", "leftovers", "create", "header", "read", "upgrade", "keep old",
                     "replace old", "quarantine", "truncate", "settle", "sync", "write",
                     "publish", "reopen"}
  /\ op.do = "maintain" => up /\ op.at \in {"settle", "sync", "write", "publish", "reopen"}
  /\ op.do = "forget" => up /\ op.at \in {"settle", "filter", "own", "park", "swap", "abort"}
  /\ op.do = "clear" => up /\ op.at \in {"settle", "copies", "versions", "sync", "write",
                                         "publish", "reopen"}
  /\ ~up /\ op = Idle => mem = Closed
  /\ Does("open", "settle") => mem.records > Limit

Served  == up \/ op.do = "open"
Begun   == up \/ (op.do = "open" /\ op.at \notin {"restore", "leftovers"})
HasLog  == up \/ (op.do = "open" /\ op.at \notin {"restore", "leftovers", "create"})
Cleaned == op.at \in {"filter", "own", "park", "copies", "versions", "sync", "write",
                     "publish", "reopen"}

(* Where the log is: under its own name, or parked by a forget that has not *)
(* put the new one there; what else recovery could take it from is gone     *)
(* before anything is forgotten.                                            *)
OneLog ==
  /\ mem.restore => up /\ ~mem.backups /\ op.at \in {"rest", "settle", "abort"}
  /\ op.at = "swap" => ~mem.restore /\ ~mem.backups
  /\ mem.restore \/ op.at = "swap" =>
       ~There(disk.log) /\ There(disk.parked) /\ ~There(disk.forgetBak)
  /\ HasLog /\ ~mem.restore /\ op.at # "swap" => There(disk.log)
  /\ mem.backups => There(disk.log)
  /\ Begun => ~There(disk.compactBak)
  /\ Does("open", "restore") =>
       /\ ~There(disk.log) /\ ~mem.backups
       /\ There(disk.parked) <=> ~There(disk.forgetBak)
  /\ Served /\ op.at # "restore" /\ ~mem.restore /\ op.at # "swap" =>
       mem.backups \/ (~There(disk.parked) /\ ~There(disk.forgetBak))
  /\ Cleaned => ~mem.restore /\ ~mem.backups
  /\ erased # {} => There(disk.log) \/ (There(disk.parked) /\ ~There(disk.forgetBak))

(* What was erased is in nothing that the log can be made of.               *)
ErasedIsGone ==
  /\ view \intersect erased = {} /\ cleared \subseteq erased
  /\ RecordsIn(disk.log.frames) \intersect erased = {}
  /\ ~There(disk.log) => RecordsIn(disk.parked.frames) \intersect erased = {}
  /\ RecordsIn(op.out) \intersect erased = {}
  /\ op.do = "forget" => \A r \in RecordsIn(op.out) : ItemOf[r] # op.item

(* Nothing holds a record before it is learned, nor one that was cleared.   *)
Within(d, out, S) ==
  /\ RecordsIn(d.log.frames) \subseteq S /\ RecordsIn(d.parked.frames) \subseteq S
  /\ RecordsIn(d.forgetBak.frames) \subseteq S /\ RecordsIn(d.compactBak.frames) \subseteq S
  /\ \A f \in d.versions : RecordsIn(f.frames) \subseteq S
  /\ \A i \in DOMAIN d.copies : RecordsIn(d.copies[i]) \subseteq S
  /\ RecordsIn(out) \subseteq S

ClearedIsGone ==
  /\ Within(disk, op.out, (1..learned) \ cleared)
  /\ op.do = "clear" /\ op.at \in {"versions", "sync", "write", "publish", "reopen"} =>
       disk.copies = << >>
  /\ op.do = "clear" /\ op.at \in {"sync", "write", "publish", "reopen"} => disk.versions = {}
  /\ op.do = "clear" => op.out = << >>
  /\ Does("clear", "reopen") => disk.log.frames = << >>

LogInv == LogTypeOK /\ StepsOK /\ OneLog /\ ErasedIsGone /\ ClearedIsGone

-----------------------------------------------------------------------------
(* Why what was reported durable is kept, if no writer is reopened behind   *)
(* the remains of a failed append.                                          *)

Sound(frames)     == \A i \in 1..Len(frames) : frames[i] \in Records
Unspoiled(frames) == \A i \in 1..Len(frames) : frames[i] # Bad
TornLast(frames)  == \A i \in 1..Len(frames) : frames[i] = Torn => i = Len(frames)

(* Nothing reported durable is only in the system's cache.                  *)
OnMedium(f) == \A i \in 1..Len(f.frames) : f.frames[i] \in flushed => i <= f.safe
AllSafe(f)  == f.safe = Len(f.frames)

(* A failed append is the last there is in any file; only the log is ever   *)
(* written to or damaged.                                                   *)
FilesOK ==
  /\ \A f \in {disk.log, disk.parked, disk.forgetBak, disk.compactBak} \union disk.versions :
       TornLast(f.frames)
  /\ Unspoiled(disk.parked.frames) /\ Unspoiled(disk.forgetBak.frames)
  /\ OnMedium(disk.log) /\ OnMedium(disk.parked)
  /\ ~up => AllSafe(disk.log) /\ AllSafe(disk.parked)
  /\ \A f \in {disk.forgetBak, disk.compactBak} \union disk.versions : AllSafe(f)
  /\ IsFiniteSet(disk.versions)

(* A damaged log is cut before it is served; a writer is behind whole       *)
(* frames only.                                                             *)
WriterOK ==
  /\ up \/ op.at \in {"settle", "sync", "write", "publish", "reopen"} => Unspoiled(disk.log.frames)
  /\ mem.file => /\ up \/ op.at \in {"settle", "sync", "write", "publish"}
                 /\ Sound(IF mem.restore THEN disk.parked.frames ELSE disk.log.frames)
  /\ op.at \in {"own", "park"} => Sound(disk.log.frames)
  /\ op.at = "swap" => Sound(disk.parked.frames)
  /\ Sound(op.out)

(* What every step may rely on when it replaces or removes a file.          *)
Aside(d) == (UNION {RecordsIn(c) : c \in Range(d.copies)})
              \union (UNION {RecordsIn(f.frames) : f \in d.versions})

ReplacedIsKept ==
  /\ op.at \in {"create", "header"} => disk.log.frames = << >>
  /\ Does("open", "replace old") => disk.log \in disk.versions
  /\ Does("open", "truncate") =>
       RecordsIn(disk.log.frames) \subseteq RecordsIn(Readable(disk.log.frames)) \union Aside(disk)
  /\ op.at = "reopen" => disk.log = Canonical(op.out)
  /\ op.do = "clear" /\ op.at \in {"versions", "sync", "write", "publish"} =>
       flushed \subseteq RecordsIn(disk.log.frames)
  /\ op.do = "forget" /\ op.at \in {"own", "park", "swap"} =>
       \A r \in RecordsIn(IF op.at = "swap" THEN disk.parked.frames ELSE disk.log.frames) :
         ItemOf[r] # op.item => r \in RecordsIn(op.out)

FlushedInv == FlushedIsKept /\ FilesOK /\ WriterOK /\ ReplacedIsKept
=============================================================================

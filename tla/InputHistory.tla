---------------------------- MODULE InputHistory ----------------------------
(* The developer history of one engine                                      *)
(* (crates/sakura-engine/src/input_history.rs): records of all connections  *)
(* go through a bounded queue to one writer, which appends them to a file,  *)
(* clears it, and compacts it through a transaction directory that the next *)
(* open recovers; with failing writes, and crashes that lose what was not   *)
(* synced.                                                                  *)
(*                                                                          *)
(* A record is its sequence number.  Directory operations take effect in    *)
(* order, the header of a file is written whole or not at all, a power      *)
(* failure cuts only the file under its own name, and the content of an     *)
(* image stands for its digest.                                             *)
EXTENDS Naturals, Sequences, SequencesExt, FiniteSets

CONSTANTS
  Writers,      \* connections that record
  Clearers,     \* connections that clear
  Capacity,     \* QUEUE_CAPACITY
  MaxId,        \* bound: records
  MaxClear,     \* bound: clears in one life of the service
  MaxCompact,   \* bound: compactions
  MaxCrash      \* bound: crashes

VARIABLE ih

Absent    == [is |-> "absent"]
Image(s)  == [is |-> "image", records |-> s]
Torn      == [is |-> "torn"]
NoPlan    == [is |-> "absent"]
Plan(old, new) == [is |-> "plan", old |-> old, new |-> new]

NoTransaction == [open |-> FALSE, plan |-> NoPlan, temp |-> Absent, backup |-> Absent]

(* What lives as long as the service: memory, not disk.                     *)
Started ==
  [epoch |-> 0, cleared |-> 0, queue |-> <<>>, failed |-> FALSE, blocked |-> FALSE,
   handle |-> TRUE, at |-> "idle", done |-> {},
   taking |-> [w \in Writers |-> [id |-> 0, epoch |-> 0]],
   clearing |-> [c \in Clearers |-> [at |-> "rest", epoch |-> 0, before |-> {}]]]

Init == ih =
  [up        |-> "up",         \* up, down, recover, cleanup, repair
   file      |-> Image(<<>>),  \* the canonical file
   synced    |-> 0,            \* records of it that a crash cannot lose
   tail      |-> FALSE,        \* half a frame at its end
   dir       |-> NoTransaction,
   mem       |-> Started,
   next      |-> 1, compactions |-> 0, crashes |-> 0,
   gone      |-> {},           \* ghost: taken before a clear that was acknowledged
   owed      |-> {}]           \* ghost: a flush said that they are on disk

Up       == ih.up = "up"
Records  == IF ih.file.is = "image" THEN ih.file.records ELSE <<>>
Taken    == 1..(ih.next - 1)

-----------------------------------------------------------------------------
(* The callers.                                                             *)

(* record_key and its like: the epoch is read first.                        *)
Take(w) ==
  /\ Up /\ ih.mem.taking[w].id = 0 /\ ih.next <= MaxId
  /\ ih' = [ih EXCEPT !.next = @ + 1, !.mem.taking[w] = [id |-> ih.next, epoch |-> ih.mem.epoch]]

(* enqueue never waits: a full queue drops the record.                      *)
Enqueue(w) ==
  /\ Up /\ ih.mem.taking[w].id # 0
  /\ ih' = [ih EXCEPT !.mem.taking[w] = [id |-> 0, epoch |-> 0],
       !.mem.queue = IF Len(@) < Capacity
                     THEN Append(@, [do |-> "append", id |-> ih.mem.taking[w].id,
                                     epoch |-> ih.mem.taking[w].epoch])
                     ELSE @]

(* clear() takes its epoch, then waits for room in the queue, then for the  *)
(* writer.                                                                  *)
BeginClear(c) ==
  /\ Up /\ ih.mem.clearing[c].at = "rest" /\ ih.mem.epoch < MaxClear
  /\ ih' = [ih EXCEPT !.mem.epoch = @ + 1,
       !.mem.clearing[c] = [at |-> "send", epoch |-> ih.mem.epoch + 1, before |-> Taken]]

SendClear(c) ==
  /\ Up /\ ih.mem.clearing[c].at = "send" /\ Len(ih.mem.queue) < Capacity
  /\ ih' = [ih EXCEPT !.mem.clearing[c].at = "wait",
       !.mem.queue = Append(@, [do |-> "clear", by |-> c, epoch |-> ih.mem.clearing[c].epoch])]

SendFlush ==
  /\ Up /\ Len(ih.mem.queue) < Capacity
  /\ ih.mem.queue # <<>> => Last(ih.mem.queue).do # "flush"
  /\ ih' = [ih EXCEPT !.mem.queue = Append(@, [do |-> "flush"])]

-----------------------------------------------------------------------------
(* writer_loop: one command at a time.                                      *)

Commanded(what) == Up /\ ih.mem.at = "idle" /\ ih.mem.queue # <<>> /\ Head(ih.mem.queue).do = what
Popped == [ih EXCEPT !.mem.queue = Tail(@)]

(* Mutant: a record is judged by the order of the queue alone. *)
SupersededMut == FALSE

(* Taken before a clear that has been carried out.                          *)
Superseded == Head(ih.mem.queue).epoch < ih.mem.cleared

SkipAppend == Commanded("append") /\ Superseded /\ ih' = Popped

(* Mutant: a failed append is only counted. *)
AppendFailedMut(tail) == [Popped EXCEPT
  !.mem.done = @ \union {Head(ih.mem.queue).id}, !.tail = tail, !.mem.blocked = @ \/ tail]

(* The frame is rolled back, or could not be: then the writer is blocked.   *)
AppendFailed(tail) == [Popped EXCEPT
  !.mem.done = @ \union {Head(ih.mem.queue).id},
  !.tail = tail, !.mem.failed = TRUE, !.mem.blocked = @ \/ tail]

DoAppend ==
  /\ Commanded("append") /\ ~Superseded
  /\ IF ih.mem.blocked \/ ~ih.mem.handle
     THEN ih' = AppendFailed(ih.tail)
     ELSE \/ ih' = [Popped EXCEPT !.mem.done = @ \union {Head(ih.mem.queue).id},
                                  !.file.records = Append(@, Head(ih.mem.queue).id)]
          \/ \E tail \in BOOLEAN : ih' = AppendFailed(tail)

DoFlush ==
  /\ Commanded("flush")
  /\ LET fails == [Popped EXCEPT !.mem.queue = Tail(ih.mem.queue)]
         holds == [Popped EXCEPT !.synced = Len(Records),
                     !.owed = IF ih.mem.failed THEN @ ELSE @ \union ih.mem.done]
     IN ih' \in {fails} \union (IF ih.mem.handle THEN {holds} ELSE {})

(* clear_writer_file: refused, carried out, or failed after the file was    *)
(* truncated; the epoch counts at once.                                     *)
DoClear ==
  /\ Commanded("clear")
  /\ LET c       == Head(ih.mem.queue).by
         popped  == [Popped EXCEPT !.mem.clearing[c].at = "rest",
                       !.mem.cleared = IF @ < Head(ih.mem.queue).epoch
                                       THEN Head(ih.mem.queue).epoch ELSE @]
         refused == [popped EXCEPT !.mem.failed = @ \/ ~ih.mem.handle,
                                   !.mem.blocked = @ \/ ~ih.mem.handle]
         cleared == [popped EXCEPT !.file = Image(<<>>), !.synced = 0, !.tail = FALSE,
                       !.mem.handle = TRUE, !.mem.failed = FALSE, !.mem.blocked = FALSE,
                       !.mem.done = {}, !.owed = {},
                       !.gone = @ \union ih.mem.clearing[c].before]
         broken  == [cleared EXCEPT !.mem.handle = FALSE, !.mem.failed = TRUE,
                       !.mem.blocked = TRUE, !.gone = ih.gone]
     IN ih' \in {refused} \union (IF ih.dir.open THEN {} ELSE {cleared, broken})

-----------------------------------------------------------------------------
(* compact_file: the newest records, in the order of their sequence, go     *)
(* through the transaction directory.                                       *)

Kept(n) == LET all  == ToSet(Records)
               kept == {r \in all : Cardinality({q \in all : q > r}) < n}
           IN [i \in 1..Cardinality(kept) |->
                 CHOOSE r \in kept : Cardinality({q \in kept : q < r}) = i - 1]

BeginCompaction ==
  /\ Up /\ ih.mem.at = "idle" /\ ih.mem.handle /\ ~ih.mem.blocked /\ ih.compactions < MaxCompact
  /\ ih' \in {[ih EXCEPT !.mem.at = "plan", !.mem.handle = FALSE, !.compactions = @ + 1,
                          !.dir = [NoTransaction EXCEPT !.open = TRUE, !.plan = plan]] :
               plan \in {NoPlan, Torn}}

WritePlan == \E n \in 0..Len(Records) :
  /\ Up /\ ih.mem.at = "plan"
  /\ ih' = [ih EXCEPT !.mem.at = "temp", !.dir.plan = Plan(Image(Records), Image(Kept(n))),
                      !.dir.temp = Torn]

WriteTemp ==
  /\ Up /\ ih.mem.at = "temp"
  /\ ih' = [ih EXCEPT !.mem.at = "replace", !.dir.temp = ih.dir.plan.new]

(* The old file becomes the backup and the replacement the file; halfway    *)
(* there is no file at all.                                                 *)
Replace ==
  /\ Up /\ ih.mem.at = "replace"
  /\ LET moved == [ih EXCEPT !.file = Absent, !.dir.backup = ih.file, !.synced = 0,
                              !.mem.at = "stuck"]
         new   == ih.dir.temp
         retired == ToSet(Records) \ ToSet(new.records)
     IN ih' \in {moved, [moved EXCEPT !.file = new, !.dir.temp = Absent, !.mem.at = "sync",
                            !.synced = Len(new.records),
                            !.owed = @ \ retired, !.mem.done = @ \ retired]}

SyncCanonical ==
  /\ Up /\ ih.mem.at = "sync"
  /\ ih' = [ih EXCEPT !.mem.at = "cleanup", !.synced = Len(Records)]

(* The transaction is cleared away one file after the other, by the writer  *)
(* or by the recovery: backup, replacement, plan, directory.                *)
Swept(dir) ==
  IF dir.backup # Absent    THEN [dir EXCEPT !.backup = Absent]
  ELSE IF dir.temp # Absent THEN [dir EXCEPT !.temp = Absent]
  ELSE IF dir.plan # NoPlan THEN [dir EXCEPT !.plan = NoPlan]
  ELSE NoTransaction

Sweep ==
  /\ Up /\ ih.mem.at = "cleanup" /\ ih.dir.open
  /\ ih' = [ih EXCEPT !.dir = Swept(@)]

Reopen ==
  /\ Up /\ ih.mem.at = "cleanup" /\ ~ih.dir.open
  /\ ih' = [ih EXCEPT !.mem.at = "idle", !.mem.handle = TRUE]

(* Any of these fails: the transaction stays, and with it no handle.        *)
CompactionFails ==
  /\ Up /\ ih.mem.at \in {"plan", "temp", "replace", "stuck", "sync", "cleanup"} /\ ih.dir.open
  /\ ih' = [ih EXCEPT !.mem.at = "idle"]

Compaction == BeginCompaction \/ WritePlan \/ WriteTemp \/ Replace \/ SyncCanonical
              \/ Sweep \/ Reopen \/ CompactionFails

-----------------------------------------------------------------------------
(* A crash, or a stop, and the next open.                                   *)

Crash == \E n \in ih.synced..Len(Records), tail \in BOOLEAN :
  /\ ih.up # "down" /\ ih.crashes < MaxCrash
  /\ ih' = [ih EXCEPT !.up = "down", !.crashes = @ + 1, !.mem = Started,
       !.file = IF @.is = "image" THEN Image(SubSeq(@.records, 1, n)) ELSE @,
       !.tail = (@ \/ tail) /\ ~ih.dir.open /\ ih.file.is = "image"]

Open ==
  /\ ih.up = "down"
  /\ ih' = [ih EXCEPT !.up = IF ih.dir.open THEN "recover" ELSE "repair"]

(* Mutant: a plan without its old file takes the replacement. *)
ChosenMut == IF ih.file.is = "absent" /\ ih.dir.temp.is = "image" THEN ih.dir.temp ELSE ih.file

(* recover_compaction: the file is the old image or the new one; if the     *)
(* replacement was stopped halfway, the backup becomes the file again.      *)
Chosen == IF ih.file.is = "absent" THEN ih.dir.backup ELSE ih.file

Recoverable ==
  IF ih.dir.plan.is = "plan"
  THEN /\ ih.dir.temp = Torn => ih.file = ih.dir.plan.old /\ ih.dir.backup = Absent
       /\ ih.dir.backup \in {Absent, ih.dir.plan.old}
       /\ ih.dir.temp \in {Absent, Torn, ih.dir.plan.new}
       /\ ih.file \in {ih.dir.plan.old, ih.dir.plan.new}
            \/ (ih.file = Absent /\ ih.dir.backup # Absent)
  ELSE ih.dir.plan = NoPlan /\ ih.file # Absent

Recover ==
  /\ ih.up = "recover"
  /\ ih' = IF Recoverable
           THEN [ih EXCEPT !.up = "cleanup", !.file = Chosen,
                   !.dir.backup = IF ih.file = Absent THEN Absent ELSE @,
                   !.synced = Len(Chosen.records)]
           ELSE [ih EXCEPT !.up = "refused"]

SweepAtOpen ==
  /\ ih.up = "cleanup"
  /\ ih' = [ih EXCEPT !.dir = Swept(@), !.up = IF Swept(ih.dir).open THEN @ ELSE "repair"]

(* repair_file: what follows the last whole frame is cut off.               *)
Repair ==
  /\ ih.up = "repair"
  /\ ih' = [ih EXCEPT !.up = "up", !.tail = FALSE, !.mem = Started]

Next ==
  \/ \E w \in Writers : Take(w) \/ Enqueue(w)
  \/ \E c \in Clearers : BeginClear(c) \/ SendClear(c)
  \/ SendFlush \/ SkipAppend \/ DoAppend \/ DoFlush \/ DoClear
  \/ Compaction \/ Crash \/ Open \/ Recover \/ SweepAtOpen \/ Repair

Spec == Init /\ [][Next]_ih

-----------------------------------------------------------------------------
(* What was typed before a clear that was acknowledged is in no file, then  *)
(* or after any crash, though its record was still on its way.              *)
ClearedStaysCleared ==
  \A image \in {ih.file, ih.dir.temp, ih.dir.backup} :
    image.is = "image" => ToSet(image.records) \cap ih.gone = {}

(* What a flush said is on disk stays there, except for what a compaction   *)
(* retires, through crashes, half-done compactions and their recovery: it   *)
(* is in the file whenever the history is open, and a recovery that refuses *)
(* has left it under one of the two names.                                  *)
Held(image) == IF image.is = "image" THEN ToSet(image.records) ELSE {}

FlushedSurvives ==
  /\ ih.owed \subseteq Held(ih.file) \union Held(ih.dir.backup)
  /\ Up /\ ih.mem.handle => ih.owed \subseteq Held(ih.file)

-----------------------------------------------------------------------------
(* Why.  Of the disk: what a transaction leaves behind is known.            *)
Images   == [is : {"image"}, records : Seq(Nat)]
Commands == [do : {"append"}, id : Nat, epoch : Nat] \union [do : {"flush"}]
            \union [do : {"clear"}, by : Clearers, epoch : Nat]
Dirs ==
  [open : BOOLEAN, plan : {NoPlan, Torn} \union [is : {"plan"}, old : Images, new : Images],
   temp : {Absent, Torn} \union Images, backup : {Absent} \union Images]
Memories ==
  [epoch : Nat, cleared : Nat, queue : Seq(Commands), failed : BOOLEAN, blocked : BOOLEAN,
   handle : BOOLEAN, at : {"idle", "plan", "temp", "replace", "stuck", "sync", "cleanup"},
   done : SUBSET Nat, taking : [Writers -> [id : Nat, epoch : Nat]],
   clearing : [Clearers -> [at : {"rest", "send", "wait"}, epoch : Nat, before : SUBSET Nat]]]

TypeOK ==
  ih \in [up : {"up", "down", "recover", "cleanup", "repair", "refused"},
         file : {Absent} \union Images, synced : Nat, tail : BOOLEAN, dir : Dirs, mem : Memories,
         next : Nat, compactions : Nat, crashes : Nat, gone : SUBSET Nat, owed : SUBSET Nat]

DirOK ==
  /\ ~ih.dir.open => ih.dir = NoTransaction
  /\ Up /\ ih.mem.handle => ~ih.dir.open /\ ih.mem.at = "idle"
  /\ ih.up = "repair" => ~ih.dir.open
  /\ Up /\ ih.mem.at \notin {"idle", "cleanup"} => ih.dir.open
  /\ Up /\ ih.mem.at = "temp" => ih.dir.plan.is = "plan"
  /\ Up /\ ih.mem.at = "replace" => ih.dir.temp.is = "image"

(* The file is only away halfway through a replacement.                     *)
AwayOK ==
  ih.file = Absent =>
    /\ ih.dir.backup.is = "image" /\ ih.owed \subseteq Held(ih.dir.backup)
    /\ ih.up \notin {"cleanup", "repair"} /\ (Up => ih.mem.at \in {"idle", "stuck"})

OwedOK ==
  ih.file # Absent =>
    /\ ih.synced <= Len(ih.file.records)
    /\ \A id \in ih.owed : \E i \in 1..ih.synced : ih.file.records[i] = id

DoneOK ==
  Up /\ ~ih.mem.failed /\ (ih.mem.handle \/ ih.mem.at \notin {"idle", "stuck"}) =>
    ih.mem.done \subseteq Held(ih.file)

GoneOK ==
  /\ \A image \in {ih.file, ih.dir.temp, ih.dir.backup} : Held(image) \cap ih.gone = {}
  /\ ih.dir.plan.is = "plan" => Held(ih.dir.plan.new) \cap ih.gone = {}

(* Of the clears: a record on its way to the writer is older than every     *)
(* clear that began after it was taken.                                     *)
Judged(r) ==
  /\ r.id < ih.next /\ r.epoch <= ih.mem.epoch
  /\ r.id \in ih.gone => r.epoch < ih.mem.cleared
  /\ \A c \in Clearers : ih.mem.clearing[c].at # "rest" /\ r.id \in ih.mem.clearing[c].before =>
       r.epoch < ih.mem.clearing[c].epoch

RecordsJudged ==
  /\ \A w \in Writers : ih.mem.taking[w].id # 0 => Judged(ih.mem.taking[w])
  /\ \A i \in 1..Len(ih.mem.queue) : ih.mem.queue[i].do = "append" => Judged(ih.mem.queue[i])

ClearsOK ==
  /\ ih.next > 0 /\ \A id \in ih.gone : id < ih.next
  /\ \A c \in Clearers : ih.mem.clearing[c].at # "rest" => \A id \in ih.mem.clearing[c].before : id < ih.next
  /\ \A i \in 1..Len(ih.mem.queue) : ih.mem.queue[i].do = "clear" =>
       /\ ih.mem.clearing[ih.mem.queue[i].by].at = "wait"
       /\ ih.mem.queue[i].epoch = ih.mem.clearing[ih.mem.queue[i].by].epoch
       /\ \A k \in 1..Len(ih.mem.queue) :
            ih.mem.queue[k].do = "clear" /\ ih.mem.queue[k].by = ih.mem.queue[i].by => k = i

IInv ==
  TypeOK /\ DirOK /\ AwayOK /\ OwedOK /\ DoneOK /\ GoneOK /\ RecordsJudged /\ ClearsOK
=============================================================================

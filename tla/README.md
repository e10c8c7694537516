# Sakura Input in TLA+

Sakura Input is a Japanese input method for Windows written in Rust. This directory models the
parts of it whose correctness depends on the order in which things happen, checks the models
with TLC on small instances, and proves theorems about the most delicate of them with TLAPS. Every
definition is translated from the source; `PROJECT.json` maps each to its lines under `src/`.

Contents: [the system](#the-system) ·
[modules and code](#modules-and-code) · [runs](#runs) · [bounds](#bounds) ·
[fairness](#fairness) · [proofs](#proofs) · [disagreements](#disagreements-with-the-code) ·
[left out](#what-is-left-out) · [running](#running)

## The system

```
 host application                      engine process                  helper processes
┌──────────────────────┐  named pipe ┌──────────────────────────┐     ┌─────────────────┐
│ text service (DLL)   │◄───────────►│ pipe workers/dispatchers │◄───►│ AI, neural      │
│  WriteCoordinator    │             │ sessions, composition    │     └─────────────────┘
│  Engine link         │             │  fence, learning, history│     ┌─────────────────┐
└──────────────────────┘             │  UI board                │◄───►│ renderer        │
     one per thread, many            └──────────────────────────┘     │ (memo pad)      │
     hosts per engine                     learning log, settings      └─────────────────┘
```

A text service is a COM object inside every application that accepts text. It may only touch a
document inside an edit session, which the host grants now, later or never, and nearly every call
into the host may call back before it returns. It asks the one engine of the logged-on user what a
key means, over a named pipe, while the application's own thread waits. The engine serves each
connection on a worker, keeps one session per text service, learns, and publishes what the renderer
should draw. Crashes of the engine, of the host and of helpers are normal events by design.

### Components

For each component: what it keeps, what it does, with whom, what is hard about it, and what makes
it correct. The status of all 44 is in `PROJECT.json`; the ones named here carry the logic.

**Write journal** (`sakura-tsf/src/write_coordinator.rs`) — a bounded queue of planned document
writes, the outcomes of finished ones, committed and speculative projections of the composition,
revisions and life-cycle epochs, a candidate lease. Operations: activate, observe a context,
reserve, attach a plan, begin the head, validate a callback, complete, reject, cancel, adopt or
clear a lease. *Hard:* a key is planned before the writes ahead of it have happened; a callback may
run at any later time. *Correct when:* plans chain; a callback with authority finds the document
it was planned for; authority is never regained; each operation ends exactly once.

**Queued document writes** (`text_service.rs`, `edit_session.rs`, `composition.rs`,
`engine_recovery.rs`) — the service's own composition record, the work posted to a hidden window,
the recovery fence, focus finalization, the engine's pending undo. Operations: keys that reach
the engine, edit sessions with their host calls, focus and activation changes, a composition ended
by the host, deferred dispatch, recovery. *Hard:* re-entrancy at every host call; host calls
that fail half-way; sessions refused or run late; posted messages refused; one owner at a time for
a finalizer. *Correct when:* what is believed on screen is on screen; nothing is left without
somebody who ends it; text is never doubled or replaced unread.

**Engine link** (`engine.rs`, `key_wait.rs`, `callback_deadline.rs`, `sakura-ipc/src/client.rs`) —
the connection, whether it must be resynchronized, the retry interval, the process-wide
miss count, the allowance of the running callback. Operations: connect, tell the input scope,
resynchronize, ask, give up. *Hard:* late replies, replies lost with the connection, an engine that
restarts with no memory of the text on screen. *Correct when:* seen text is never taken back or
doubled, and a silent engine holds an application at most twice for the long wait.

**Composition fence** (`composition_fence.rs`, `dispatch.rs`, `server.rs`) — counts of live claims
per host process, the claims, and latches for readings that were lost. Operations: acquire,
release, retire claims proved dead, ask whether a key is suppressed or a Space absorbed; from
sessions, keys, resets, input scopes and undo outcomes. *Hard:* two text services of one host receive
the same key; a client may leave with a key still queued; probes may be inconclusive; latches are
bounded. *Correct when:* counts are the live claims, a lost reading pays for one Space, an
idle Space never becomes text while the host has a reading.

**Session and key dispatch** (`dispatch.rs`, `session.rs`, `correction.rs`) — reading, segments,
candidates, mode, the undo record, the left context, the trail of erased characters. *Hard:* the
engine sees none of the document: what became of a commit has to be guessed from later keys, while
other sessions learn. *Correct when:* a commit is learnt once and only if it stands; only what was
erased is rejected; revert and undo restore what was there.

**Server, transport, security** (`sakura-engine/src/server.rs`, `sakura-ipc`) — pipe instances, the
per-process quota, the handshake budget, overlapped I/O with cancellation. *Hard:* a spare instance
must always be listening; a cancelled read may already have completed.

**Learning** (`sakura-store/src/learning`, `sakura-engine/src/learning.rs`) — an append-only log
with compaction, upgrade, quarantine, forgetting and clearing; above it the service's staged
commits, its in-memory indexes and a maintenance thread that must not block a key. *Hard:* a crash
or an error at every file operation; leftovers of earlier builds; damage. *Correct when:* what was
reported durable stays, what was erased never returns, damage costs only what it hit.

**Developer input history** (`history_runtime.rs`, `input_history.rs`) — a lifecycle worker that
opens and closes generations of a writer thread; holds; epochs that order records against clears; a
queue that blocks appends when full. *Hard:* switching off while a generation is opening; a record
overtaking a clear. *Correct when:* the newest wish is the one in effect, and nothing taken before
a clear is written after it.

**Long conversion, prediction, AI text** (`long_conversion.rs`, `prediction.rs`, `ai_text.rs`) —
mailboxes between key handling and slow workers, with helper processes behind two of them. *Hard:*
a caller that times out races the result; results for a composition that moved on; shutdown while
a worker goes to sleep; one slot for detached jobs. *Correct when:* no result is applied to another
state than it was computed from, and shutdown ends.

**UI board** (`ui.rs`) — the one published view, its revision, clicks bound to it, parked
watchers, the farewell. *Hard:* a click on a list that has been replaced; shutdown while
watchers are being told. *Correct when:* a click acts only on the list it was made on; every watcher
that still reads hears the farewell.

**Renderer and memo pad** (`watch.rs`, `pad*.rs`) — reconnection and relaunch; the pad's storage
formats with their migrations, its save mailbox and lock deadline, one-time codes. *Hard:* a crash
between two renames; a deadline during a write; clock rollback. *Correct when:* a document
acknowledged as saved is on disk and opens; a code is never accepted twice; no readable copy survives
a protection.

**Settings, updater, installation** (`sakura-settings`, `sakura-install-maintenance`, `sakura-reg`) —
one save over four stores; a sequence floor for update metadata; payload generations that hosts still
map. *Hard:* partial failure, two processes at once. *Correct when:* a floor is never lowered, and a
payload in use is never removed.

**Algorithms** (`sakura-core`, `dictc-core`) — the romaji machine, the conversion lattice, the succinct
trie, numerals, calendar and width. Sequential and deterministic; *correct when* they agree with a
reference definition.

Pure encodings, window drawing, one-shot registration, model inference, offline tools and research
code are listed in `PROJECT.json` with the reason they are not modelled.

## Modules and code

| module | models | role |
|---|---|---|
| `WriteJournal` | `write_coordinator.rs`: the record and its methods | operators, used by the next three |
| `WriteCoordinator` | the same methods called in any order a host can cause | state machine, proved about |
| `WriteJournal_proofs` | — | lemmas about the operators of the journal |
| `WriteSettlement` | the half of `text_service.rs` that settles writes without touching a document | operators over a service record, which holds a `WriteJournal` |
| `QueuedWrite` | keys, callbacks, edit sessions and host calls of `text_service.rs`/`edit_session.rs` | composes journal, service, host document and engine session |
| `QueuedWrite_proofs` | — | theorems on what is shown, what is waited for and what the engine is told |
| `TextService` | — | `WriteCoordinator` and `EngineLink` side by side |
| `EngineLink` | `engine.rs`, `key_wait.rs`, `callback_deadline.rs`, `client.rs` | composes client, pipe, engine |
| `TextService_proofs` | — | theorems on the queue and tickets, on outcomes and leases, on the link |
| `CompositionFence` | `composition_fence.rs`: the tables behind its mutex | operators, used by the next |
| `SpaceFence` | `dispatch.rs`, the worker loop of `server.rs` | workers around one fence |
| `CommitLearning` | `dispatch.rs`, `session.rs`, `correction.rs`, `learning.rs`: what becomes of a commit | sessions, text services, host documents, one learning service |
| `LearningLog` | `sakura-store/src/learning`: `log.rs`, `codec.rs`, `quarantine.rs`; its owner in `sakura-engine` | directory, writer, service |
| `LearningLog_proofs` | — | theorems on what is forgotten, cleared and kept |
| `InputHistory` | `input_history.rs` | connections, bounded queue, writer, files |
| `HistoryRuntime` | `history_runtime.rs`, the requests of `server.rs`/`dispatch.rs` that hold it | life cycle worker and requests |
| `PredictionMailbox` | `prediction.rs`, `refresh_prediction` | callers, one slot, worker |
| `Reranker` | `long_conversion.rs` and its two uses in `dispatch.rs` | sessions, one slot, worker with helper process |
| `AiText` | `ai_text.rs` and the requests that reach it | clients, one job, its thread and helper |
| `CandidateClick` | `ui.rs`, clicks and deletions in `server.rs`/`dispatch.rs`, `watch.rs` | workers, board, renderer |
| `EngineData` | — | `CandidateClick`, `InputHistory`, `Reranker` and `AiText` side by side |
| `EngineData_proofs` | — | theorems on clicks, the developer history, reranking and the AI job |
| `EnginePool` | `server.rs`: instances, start-up, admission, spare worker, stop reasons; `transport.rs` | workers, clients, Windows' pipe |
| `EngineSessions` | — | `SpaceFence` and `EnginePool` side by side |
| `EngineSessions_proofs` | — | theorems on latches, claims and the Space, and on the pool |
| `UiWatch` | `wait_past`, `stop`, `settle` of `ui.rs`, the end of `Server::run`, `watch.rs` | engines, renderers |
| `EngineServices` | — | `HistoryRuntime`, `PredictionMailbox` and `UiWatch` side by side |
| `EngineServices_proofs` | — | theorems on the life cycle of the developer history, predictions and watchers |
| `PadStore` | `pad_storage.rs`, the opening in `pad.rs`, `pad_protection.rs` | files of the memo pad |
| `DurableDocument` | what a store of one document promises | abstract specification, implemented by `PadStore` |
| `PadSave` | the window, save mailbox and actor of the pad's vault (`pad.rs`, `pad_protection.rs`) | window, unlock thread, actors, vault |
| `PadTotp` | `pad_totp.rs`, `pad_totp_store.rs` | the record behind one-time codes |
| `MemoPad` | — | `PadStore`, `PadSave` and `PadTotp` side by side |
| `MemoPad_proofs` | — | theorems on one-time codes and on saving and locking the pad |
| `MC…` | — | small instances for TLC |

**One run, many scenarios.** Components that share no state are checked in one run: a module such as `EngineData`
extends one of them and instantiates the others, with constants of their own; its `MC` module has a variable
`scenario` (`part`, `setting`) that says which one moves; the rest keep their initial state. A property of a component at rest is true of its
initial state, so a violation always comes from the scenario that moves. `setting` does the same
for one component under two assumptions about its environment.

### WriteJournal and WriteCoordinator

The Rust struct is one record `j`. `ops` and `terminals` are its two rings; `cvis`, `crev` are the
committed projection and revision, `tvis`, `trev` the speculative tail; `activation`, `focus`, `gen`
and the context are the epoch. A visible text is a member of `Visible`, since the journal compares
texts and does nothing else with them. Each `&mut self` method is one operator from journal to
journal, with an enabling predicate where the method returns `None` or an error
(`CanReserve`, `CanAttach`, `CanBegin`, `Validates`, `Adoptable`); the private helpers the methods share
(`cancel_from`, `cancel_all`, `record_terminal`) are shared operators too. `WriteCoordinator` adds what
the callers hold: every ticket and every lease ever issued, both deliverable for ever.

### WriteSettlement and QueuedWrite

`svc` gathers what the object's cells hold: the journal with its payloads, `CompositionState` (`text`,
`known`, `ctx`, `flight`, `ending`), `DeferredState` (`phase`, `reconcile`, `work`), the recovery fence
(`token`), and the engine session behind the link (`reading`, the operation whose `undo` it keeps, and
what it was `told`). Every method that ends a write is an operator of `WriteSettlement`.

One thread runs everything, so a state of `QueuedWrite` is a stack of calls in progress. A frame is
an edit session: `asked` (the request is with the host), `gate` (the session has started and has not
yet validated), `open` (its plan is being carried out), `calling` and `inside` (before and after the
host decided what one call does), `returned`. While the innermost frame waits in the host, any
callback may enter: a key, a focus change, deactivation and activation, a composition ended by the
host, a dispatch of the hidden window. `doc` is what the host really shows; a failed call leaves any of
before, after and `Unknown`. Engine calls block the thread without pumping messages, so they are part
of the step that makes them.

### EngineLink

`link`, `blocked`, `misses`, `left` and `call` are the client's state; `pipe.in` and `pipe.out` what each
end has yet to read; `reading` the engine's session. A call goes `link` → `send` → `wait`, with the
resynchronizing revert and the input scope before the request that wanted them. Time is counted
in units of the design budget (50 ms); `Patient` is the long wait in that unit. Keys are numbers, so
"twice" and "lost" can be read off the document. One representative stands for each class of
request: a key, a test key, a commit on focus loss, a placement (fire and forget), an AI request.

### CompositionFence and SpaceFence

`fence` holds the tables: counts, claims with their connection, latches. `SpaceFence` has workers
that accept connections of hosts, sessions with a reading, an undo that waits, and the two modes in
which keys pass through, and one action per request kind. A step is one method of the fence, under its lock, with
what its worker does on its own before the next: `busy` is the key a worker is applying and what it still asks
(`SendKey`, then `Absorb` for an idle Space, then `Sync` when reading and claim differ), and a reset
gives up one claim per step (`ReleaseClaim`). Between two of them any other worker may run, and the client may leave. A live claim
holds back the keys of idle sessions on its host, but none with Ctrl or Alt: the undo chord begins a reading nonetheless.
Two ghosts: `owed`, the readings that were lost and have not been paid for by a Space, answered for by a new
reading, or given up at the bound on latches; `inserted`, the worker whose last step made a Space text.

### CommitLearning

`ses` is what an engine session remembers of its last commit (the undo record, `carry`, the trail of
erased characters), `staged` and `known` the learning service's pending and learnt commits, `proof` the
text service's evidence that the caret still follows the commit, `deletion` an undo the host has been
asked to carry out. `doc` and `lost` are the truth nobody in the program sees: which commits stand
directly left of the caret, and how many characters each has lost. The actions are the requests a
session answers and the keys that are passed through to the document. A surface is a number that stands for
its text and its length.

### LearningLog

`disk` is the directory: `log.bin`, the log parked by a rewrite, the backups of compaction and forget,
the copies quarantine keeps, the logs of older versions, and one bit for temporaries. A file has frames
and a number of them that are on the medium. An operation (`op`) is a sequence of steps, one per change to
the directory; each may fail, and after each the machine may crash, which keeps any prefix of the unsynced
frames and perhaps part of the next. `mem` is the `LearningLog` struct, `view` what the service ranks by.

### The engine's workers

Each of these machines has one variable, a record, since each is one mutex with what it protects and the
threads around it; a step is one critical section or one call outside of it.

* `InputHistory` (`ih`): each connection between reading the epoch and sending its record; the bounded queue;
  the writer with its file handle; the file, the unsynced tail, and the transaction directory of a
  compaction with its publication record; a crash at any step and the recovery of the next open.
* `HistoryRuntime` (`hr`): the wish of the configuration, the worker (closing, opening, joining), what is
  published to requests, and requests that hold the life cycle while they clear the store.
* `PredictionMailbox` (`pm`): callers from taking a sequence number to giving up; the slot; the worker asleep or
  ranking; the epoch of the learned history. `lock` is who holds the mutex between two steps of one section.
* `Reranker` (`rr`): the request and the result slot with their keys, the worker with its helper and back-off,
  what was used for which list, and the drop in its three steps (flag, notification, join).
* `AiText` (`ai`): the job table with its one slot, cooldowns, and for each job its thread.
* `CandidateClick` (`ui`): what each session shows, the published list with its owner and revision, the revision the
  renderer has seen, the queued click, the deletion of a row in its three separately locked parts. A list is named by what
  it was computed from: the reading and the generations of history and dictionary, each of which may move at any time.
* `EnginePool` (`pool`): for each worker where it is in its loop, its pipe instance and the client on it; the unlocked counters
  of idle and created instances, the quota's table, the start-up gate and the first reason to stop. Reading each counter,
  making the pipe and starting the thread are separate steps. `hurt` is a ghost: endpoints that have lost a worker.
* `UiWatch` (`uw`): the board's revision, the count of deliveries, the phases of the engine's end, and for each
  renderer the place in its watch loop.

### PadStore, DurableDocument, PadSave, PadTotp

`PadStore`: `disk` maps file names to contents; an operation is decided on the directory it finds, under the lock file,
and is then a list of changes to files, each of which may fail or be the last. A replacement without a backup may fail
with its target gone (`half`), as Windows documents of `ReplaceFileW`. `known` is what the user
has been told: the document, the password, whether memos are protected. Opening is not a change: `Openings(credential)`
is the set of results the opening code may give on a directory. `KeepsDocument` instantiates `DurableDocument` with
`stored <- StoredDoc`, the document the next opening would show, and `told <- known.doc`: every step of every
save, migration, recovery or crash is a `Store` of a newer document, a `Tell`, or a stutter.

`PadSave` takes the vault as one file with a draft that a write replaces as a whole, which is what `PadStore` shows of it,
and models what `PadStore` does not: the window, the mailbox of one document, the actor that a lock may
leave behind while it still writes, and what of its answers the window believes.

`PadTotp`: `canon` and `temp` are the published record and its replacement; `op` the operation that holds the
lock file; `now` the wall clock, which may be put back. A code is the time step it belongs to.

## Runs

Twelve runs. Every property of a passing run has a mutant: a plausible bug in one mapped definition, under which
TLC finds that property violated on the same instance, so none of them holds by emptiness.

| run | asks |
|---|---|
| `text_service` | the journal under every order of calls, with all tickets and leases deliverable late; text across late and cut replies, engine crashes and restarts |
| `queued_write` | the service under refusals, late sessions, lost messages, a silent engine and callbacks entering at any host call; with a calm host, whether engine and document can part; on a thread that keeps running, whether everything under way ends |
| `engine_sessions` | counts, claims and idle Spaces under probes that may stay inconclusive, and the Space after a lost reading; pipe instances; commits that are undone, erased or retyped |
| `engine_data` | log, history, reranking, clicks and AI job: what keeps or shows the user's data |
| `engine_services` | the engine's threads that wait for each other |
| `memo_pad` | files, window and codes of the memo pad |
| `engine_link_orphan`, `learning_log_torn`, `reranker_drop`, `pad_new_password`, `pad_mask`, `candidate_reload` | violated, see [disagreements](#disagreements-with-the-code) |

What they show:

* **text_service.** `PlansChain`: each queued plan starts where the previous ends. `OneAuthority`: a callback that
  validates holds the only valid ticket and its plan starts from what the document shows; only the youngest
  operation is an open reservation; a lease is valid only for the last applied operation. `RevokedStaysRevoked`:
  neither tickets nor leases come back, also when focus returns to the same context. `EachTerminatedOnce`: every
  operation that leaves the queue gets exactly one outcome. `SeenStays`: text shown is only ever extended.
  `EachKeyOnce`, `ComposesWhatIsShown`: no key twice, and what the engine composes is what is on screen.
  `Orphans = FALSE` restricts the environment: a session that is lost with text on screen is first noticed by a call whose
  failure the text service answers with recovery; `engine_link_orphan` lifts the restriction.
* **queued_write.** `TextIsOnScreen` relates the three places that hold the composition's text.
  `EveryWaitHasOwner`: a flight, a recovery fence, a focus finalization and a pending undo always have somebody who will
  end them. `AppliedWasDeleted`: the engine hears "applied" only of deletions that happened.
  `CalmReplacesWhatWasRead`: for a calm host every answer written was computed from the
  text it replaces. With some of `Refuses`, `Late`, `Expires`, `Drops`, `Reenters` on, it fails, see below; the
  run states under which assumptions the design holds, not that it always does. `LiveComesToRest` (liveness): again and
  again the queue is empty, no focus finalization and no recovery pending; asked of a third, smaller instance, in which the
  host may refuse sessions, lose messages and enter with callbacks, but runs no session late and the engine answers.
* **engine_sessions.** `ClaimsStayTrue`: the shared counts are those of the live claims, and every claim is one of a live session
  and connection. `ReadingGuardsSpace`: an idle Space whose key came while the host had a claimed
  reading never becomes text. `LostReadingGuarded`: no Space becomes text over a loss that was owed when its key came and
  still is, in whatever order probes, a queued key, the reset's releases and the reconnection come. `SpareOffered`: an endpoint that has lost no worker never has all
  of its workers serving while there is room for another, in whatever order they read the two unlocked counters.
  *Commits:* `StandingIsLearntOnce`
  (a commit that teaches and stands whole is learnt or still staged, never both), `NothingErasedIsLearnt`,
  `RejectedWasErased`, `CarryFollowsCaret` (the left context used for a composition is the commit directly left of the
  caret, whole).
* **engine_data.** *Log:* `FlushedIsKept`, `ErasedStaysErased`, `ClearReachesEveryFile`. *Developer history:* `ClearedStaysCleared`, `FlushedSurvives`. *Reranker:* `NoStaleChoice`. *Clicks:*
  `ClickStaysWithItsList`: a click on a suggestion commits the very row that was shown; one on a conversion, whose rows the code
  computes anew, the row that has its number now in the same reading of the same session. *AI:* `SlotFollowsHelper` (never a second helper, and the slot comes back).
* **engine_services.** `StoreChangesHandsInOrder`: however often the configuration changes its mind, nothing is opened over a
  living owner, and a clear finds the service it was given alive or no owner. `ShownIsCurrent`: no suggestion list
  computed before a deletion is shown after it. `FarewellReachesWatchers`. `StopsEnd` (liveness): stops of the prediction worker, the
  history's life cycle and the board end without any time limit having to run out, wishes are settled, an engine that
  died is started again while a watcher is there. `DeadClaimsEnd` (liveness): claims of clients that left go away.
* **memo_pad.** `KeepsDocument` (refinement of `DurableDocument`): wherever an operation is cut off, the next opening shows the
  document of before or a newer one, and what was reported saved is what it shows. `PlainCopiesRetired`: no readable
  copy of a protected memo is left. `OnePasswordOpens`: never two passwords, never one that was replaced, never none before a
  change is committed. `EditsSurvive`: the newest edit handed over is on screen, in memory, in the vault or in its draft.
  `SavedIsStored`: "Saved and locked" is shown only of the newest edit. `AcceptedOnce`: no code twice, wherever an
  attempt was cut off and however the clock moved within the documented limit. `GateStaysOn`: failures and the gate itself are
  never rolled back.

### Bounds

| constant | value | why it is enough |
|---|---|---|
| `Capacity` (journal) | 2 | both rings overflow; a head with one dependant is where chaining, cascaded cancellation and lost outcomes show. The theorems hold for every capacity |
| `Contexts` | 2, symmetric (journal); 1 (service) | leaving a context and coming back. In `QueuedWrite` the document's lock is per context; nested sessions contend on one |
| `Visible` | 2 | texts are compared, never inspected: one that is empty and one that is not |
| `MaxId` (journal, service) | 3; 4–6 | operations: an old ticket, a current head and a later reservation at once |
| `MaxActivation`, `MaxFocus`, `MaxGen`, `MaxRev` | 1, 2, 3, 1 | each counter moves at least once while an older value is still held by a ticket |
| `MaxKeys`, `MaxEvents`, `MaxDepth` (service) | 2–3, 1–3, 1 | two keys make a dependency; three callbacks let one undo what another began; `MaxDepth` is the number of edit sessions nested in another |
| `Patient` | 2 (4 in the code) | longer than the design budget, so that the two waits differ |
| `MaxKeys`, `MaxId` (link) | 4, 7 | a late reply, its resynchronization, a crash and the next key; requests per connection |
| `Hosts`, `Owners` | 2, 2 | a peer on the same host and a stranger on another |
| `Capacity` (fence) | 1 | one less than the hosts, so a latch is evicted. The theorems hold for every capacity |
| `MaxConn`, `MaxSession`, `MaxLive` | 3, 1, 1; 2, 2, 2 | a worker serves a second client after the first; (`engine_sessions`, `engine_services`) several sessions of one pipe; ids are never reused |
| `MaxRecords`, `Limit`, `Target`, log `Capacity` | 4, 2, 1, 3 | the log passes its limit and is compacted to its target; two items alternate |
| `RetainedCopies`, `MaxDamage` | 1, 2 | a second quarantine pushes out the first copy |
| `MaxCommits`, `MaxStaged`, `MaxTrail` | 2–3, 1, 2 | a commit, its retyping and the retyping of that; the staging table is full with one session's commit when another commits; the trail overflows |
| `Readings`, `Surfaces`, `Sessions` (commits) | 1–2 each, in four settings | a rejection needs one reading with two surfaces; a context two readings; learning while another session waits for its host two sessions |
| `Capacity`, `MaxId`, `MaxClear`, `MaxCompact`, `MaxCrash` (history) | 2, 3, 1, 1, 1 | a record waits outside a full queue while a clear passes; a crash at every step of the one compaction, recovered, with records after it |
| `MaxSeq`, `Callers`, `MaxEpoch` | 2, 2, 1 | a second query replaces the first while its caller waits; the history changes during a ranking |
| `Holders`, `MaxGen` (runtime) | 2, 4 | two clears at once; off, on, off while a generation is opening |
| `DataRoom`, `Workers`, `Clients`, `Quota`, `MaxEmpty`, `MaxFaults` (pool) | 3, 3, 1, 2, 2, 1 | two workers accept at once with room for one more; a connection beyond the quota; two clients in a row that left. The pools of two endpoints share only the quota's table and the stop reasons |
| `Watchers`, `MaxRev`, `MaxStarts`, `MaxFaults` | 2, 2, 2, 1 | one watcher is told while another arrives; one relaunch |
| `MaxVersion`, `MaxGen` (reranker) | 1, 2 | list or dictionary changes once while a request is out |
| `MaxReading`, `MaxRev`, `MaxLearn`, `MaxDict` (clicks) | 1, 4, 1, 1 | show, hide, show again and click with the revision of the first; history or dictionary changes once |
| `Clients`, `Texts`, `MaxCooldowns`, `MaxId` (AI) | 2, 2, 1, 2 | the other client asks while a cancelled job still runs; a cooldown is pushed out |
| `MaxEdits`, `MaxSealed`, `MaxKeys`, `MaxFaults` (files) | 3, 2, 3, 2 | a document in the primary, one in the backup and one on its way; two password changes, the second over the remains of the first; a failure and then a crash |
| `Actors`, `MaxEdits`, `MaxGen`, `MaxEnds` (window) | 2, 2, 5, 1 | an actor left behind and its successor; a third never starts while both run |
| `MaxTime`, `MaxFailures`, `MaxBackoff`, `MaxFaults` (codes) | 3, 2, 2, 2 | failures reach their limit; a crash and a corrected clock in one behaviour |

Symmetry sets are used only where every property is an invariant or a property of single steps. `CHECK_DEADLOCK FALSE`
says that the system may rest: the user stops typing, or the bounds are used up. The journal's and
the log's operations are always possible, but they are checked beside components that rest.

### Fairness

Threads of the program and of the host that can go on do; nobody who decides something (the user, the host
application, the network, the clock) is bound to anything, and no time limit has to run out.

* `QueuedWrite!FairSpec`: weak fairness of one action (`Goes`), the disjunction of a dispatch of the hidden
  window and a step of an edit session; `MCQueuedWrite` asks it of its third instance. The host's thread keeps running: while a call is in progress, a
  session is queued or a message is posted, one of them goes on. Nobody is bound to type, to move
  the focus or to end a composition, and no particular one of the pending things is promised.
* `SpaceFence!Works`: weak fairness of each worker finishing the key it applies, serving a queued request of a client
  that left, or noticing the closed pipe and resetting. A worker is a thread in a read loop (`server.rs`); the read of a
  closed pipe returns. Clients are not bound to anything, and probes need never be conclusive.
* `PredictionMailbox!Fairness`: the worker and each caller, strongly, because they compete for one mutex and
  a thread that is runnable again and again gets it in the end; the two steps of a stop, weakly. `TimeOut` has no
  fairness, so `StopEnds` means that the notification arrives.
* `HistoryRuntime!Fairness`, `UiWatch!Fairness`: weak fairness of the worker, of requests that have begun, of the engine's
  settling, of each watcher's loop and of the call in progress. `GraceEnds`, `Heartbeat`, `Crash` and `Uninstall` have none.
* `Reranker!FairSpec`: the worker and the drop's steps; under it the run finds the lost wake-up.

`ServicesSpec` repeats these with the scenario as a conjunct, so that a component at rest asks for nothing.
All other properties are safety properties and are checked without fairness.

## Proofs

Eight modules hold theorems. They quantify over everything the configurations fix: any set of contexts, hosts, workers, requests,
clients, writers, watchers and texts, every capacity, bound and limit, every choice of what the host, the engine, the file
system and the clock may do wrong. A module about one component extends it; components that are instantiated side by side
(`TextService`, `EngineSessions`, `EngineData`, `EngineServices`, `MemoPad`) are proved about as the instances they are there, `L!`, `H!`, `R!`,
`A!`, `P!`, `W!`, `C!` and `Pool!` below, each under its own `Spec`.

| theorem | states |
|---|---|
| `TypeCorrect` | `Spec => []TypeOK`: among others, both rings stay within the capacity |
| `Invariance` | `Spec => []IInv`, the inductive invariant of queue and tickets |
| `ChainCorrect` | `Spec => []PlansChain` |
| `HistoryInvariance` | `Spec => []HInv`, the inductive invariant of outcomes and leases |
| `OneAuthorityCorrect` | `Spec => []OneAuthority` |
| `TerminationCorrect` | `Spec => EachTerminatedOnce`, an action property |
| `RevocationCorrect` | `Spec => RevokedStaysRevoked`, an action property |
| `FenceInvariance` | `Spec => []IInv` of `SpaceFence`: latches, claims, sessions and keys together |
| `ClaimsCorrect`, `ReadingGuardCorrect`, `LostReadingCorrect` | `Spec => []ClaimsStayTrue`, `Spec => ReadingGuardsSpace` and `Spec => LostReadingGuarded`, the last two action properties |
| `PoolInvariant`, `RoomIsOffered` | `Pool!Spec => []Pool!IInv` and `Pool!Spec => []SpareOffered` of `EnginePool` |
| `QueueInvariance` | `Spec => []IInv` of `QueuedWrite`: the service, its open edit sessions and the documents together |
| `ScreenCorrect`, `OwnerCorrect`, `UndoCorrect` | `Spec => []TextIsOnScreen`, `Spec => []EveryWaitHasOwner` and `Spec => []AppliedWasDeleted` |
| `LifeCycleInvariance`, `StoreOrderCorrect` | `Spec => []IInv` and `Spec => []StoreChangesHandsInOrder` of `HistoryRuntime` |
| `ClickInvariance`, `ClickCorrect` | `Spec => []IInv` and `Spec => []ClickStaysWithItsList` of `CandidateClick` |
| `LogInvariance` | `LogSpec => []LogInv` of `LearningLog`: directory, writer and the operation in progress together |
| `ErasedCorrect`, `ClearCorrect` | `LogSpec => []ErasedStaysErased` and `LogSpec => []ClearReachesEveryFile` |
| `FlushedCorrect` | `LogSpec => []FlushedIsKept`, assuming `~TornReopen` |
| `LinkInvariant` | `L!Spec => []L!IInv` of `EngineLink`, assuming `~Orphans` |
| `EveryKeyOnce`, `SessionIsOnScreen`, `SeenRemains` | the same for `[]EachKeyOnce`, `[]ComposesWhatIsShown` and the action property `SeenStays` |
| `LongSilences` | the same for `[]L!AtMostTwoLongSilences`, which no run checks |
| `HistoryInvariant`, `ClearIsFinal`, `FlushIsKept` | `H!Spec => []H!IInv`, `H!Spec => []ClearedStaysCleared` and `H!Spec => []FlushedSurvives` of `InputHistory` |
| `RerankCorrect` | `R!Spec => []NoStaleChoice` of `Reranker` |
| `OneJobAtATime` | `A!Spec => []SlotFollowsHelper` of `AiText` |
| `PredictionShowsCurrent` | `P!Spec => ShownIsCurrent` of `PredictionMailbox`, an action property |
| `WatchersAreTold` | `W!Spec => []FarewellReachesWatchers` of `UiWatch` |
| `PadInvariant`, `EditsAreKept`, `SavedIsTrue` | `W!Spec => []W!IInv`, `W!Spec => []EditsSurvive` and `W!Spec => []SavedIsStored` of `PadSave` |
| `CodeAcceptedOnce`, `GateHolds` | `C!Spec => []AcceptedOnce` and `C!Spec => []GateStaysOn` of `PadTotp` |

Every property the run `text_service` checks is thereby a theorem. Those of the journal rest on `JournalAssumption` (a positive
capacity, an empty text among the visible ones, a value that is no context) and `BoundAssumption` (`MaxId` is a
number), which TLC evaluates in the run. The journal was chosen because everything the text service writes depends on it and because
its rings, epochs and ids are exactly what small bounds say least about.

**The first invariant.** `PlansChain` alone is not inductive. That completing the head keeps the chain needs the
head to start at the committed projection; that `attach` keeps it needs the open reservation to be last,
with nothing planned behind it; that cancelling a reservation keeps it needs ids to be unique.
`JournalInv` collects these: plans chained, ids increasing and below `nextId`, a reservation only in last
place, only the head requested, every operation of the current epoch. The authority of a callback and its loss
need one fact more, about tickets: one exists only for an operation that has been
requested. Without it a ticket for an operation still `Ready` could become valid later.

**Its proof.** `WriteJournal_proofs` defines when one journal *succeeds* another (`Succeeds`): it has the right type,
satisfies `JournalInv`, issues no smaller id, has no operation back in an earlier phase once it was requested,
and makes no ticket valid that was not, except one that names the head about to be requested. There is one lemma
per method, saying that its result succeeds its argument; methods that empty the queue share the notion of
a *settled* journal. `SuccessorInv` lifts this once to the state machine with its tickets and leases, and
`NextInv` has a step per action, most of which cite one lemma.

**The second invariant.** Outcomes and leases refer to operations that are no longer queued, so `IInv` says nothing
of them. `HInv` adds: an outcome is of no queued operation, and no two are of the same; what was applied has a
smaller id than whatever is queued, and none larger than an issued lease; a lease is of an epoch
not later than the present one, and within it of no later revision; and no lease is of an operation still queued.
The last makes the half of `RevocationCorrect` about leases go through: an operation that publishes anew publishes a
lease nobody can hold.

**Its proof.** The second part of `TextService_proofs` defines when an operation *keeps the books* (`KeepsBooks`): there is a sequence of
outcomes, of exactly the operations that leave, which the ring takes up; and a lease good afterwards was good
before, or is of an operation that just left. Three shapes cover all methods: nothing leaves, one leaves, everything
leaves. `RecordTerminalsSuffix` says that the ring is a suffix of all that was recorded, which is
why nothing recorded by one operation is pushed out by that same operation.

**Queued writes.** `TextIsOnScreen` relates what the service believes to what a document shows. It breaks
several steps later than the mistake that breaks it: an edit session that should have lost its right to publish publishes, or one that
changed a document half is forgotten. `IInv` of `QueuedWrite` has three parts. *The service alone* (`ServiceOK`): every
plan ends where its payload says and deletes only where no reading is shown (`PlansOK`); a recovery token and the engine's
pending undo are those of a queued operation, at most one undo is queued, and a posted focus finalization has its message
(`Owed`); after the engine's commit the finalizer is last in the queue (`FinalizerLast`), because only then does completing
anything else leave it queued; journal and projection agree on the text (`Shown`). *Each open session* (`FrameOK`): the updates it still
has to make end at the text its payload promises, a deletion not yet made is the next one, and either it holds the flight
and started from what the service takes for shown, or it does not and the service knows nothing of its document (`FlightOK`). *Sessions
among each other* (`LocksOK`): no two hold one document or one flight.

**Its proof.** The operators of `WriteSettlement` call each other several deep and each ends in many callbacks, so
the lemmas are about one relation between a service and what a method makes of it: `Quiets` says that issued payloads
stay, no further undo is told applied, and the composition either is as it was or has lost its flight and is no longer
taken for known (`Keeps`). It is transitive, so there is one lemma per method and a caller composes those of
what it calls; that the invariants of the service hold again is the other half (`Follows`). `WriteJournal_proofs` supplies that every
call leaves a good journal. `AllKept` lifts this once to the open sessions: whatever `Follows` keeps them all. What
is left are the steps of the innermost session, which are proved one by one; the heart is `PublishKeeps`, where
the session gives up its flight and the document it wrote becomes what the service believes. `EveryWaitHasOwner` needs
no more than the parts `Owed`, `FinalizerLast` and `FlightOwned` of the invariant. The
proof uses `JournalAssumption`, `SwitchAssumption` (every switch is a Boolean; what is unknown is no text) and
`BoundAssumption` (as many ids as keys), which TLC evaluates in `queued_write`.

**The composition fence.** `ReadingGuardsSpace` asks at which point a Space leaves a worker with nothing shown, while another
session of the same host shows a reading; `LostReadingGuarded` asks the same of a reading that was lost. Neither is about one state only: the
invariant has to say what the fence knows of every connection at every stage of a key. It has five
parts. *The fence agrees with itself* (`FenceOK`): the counts are those of the claims that count, no session has two claims, the
latches are distinct and within their bound. *It agrees with the workers* (`ClaimsMatchSessions`, `ConnectionsOK`): every claim is
one a worker believes it holds, for the host and connection it serves; only a claim of a client that is gone has stopped
counting; and a worker without a connection has nothing left of the last one. *What a key still has to ask is still to be asked* (`KeysOK`): it is about
a session that is there, an idle one where the Space asks to be absorbed, one whose reading and claim differ where they are to be synced. *A loss
that is still owed counts or has armed the latch* (`OwedCovered`), so retiring what has gone cannot forget it. *A Space under way
may be text only if nothing is owed* (`SpaceUnfenced`, `LostOnce`): a loss that was owed when its key came has, as long as it is owed, armed
the latch of its host with no claim counting there, so it is absorbed; and no reading is lost twice. Between the key and the answer other
sessions may well begin readings; their claims answer for the loss, which is then no longer owed. There is one lemma per
method of the fence, each saying what it leaves of the hosts it does not touch (`Elsewhere`), and one per step of a worker. It
rests on `CapacityAssumption` and `BoundAssumption`, which TLC evaluates in `engine_sessions`.

**The pool of pipe instances.** Before a worker serves it makes sure that another one waits, by two unlocked counters it
reads one after the other, a pipe it may fail to make and a thread that may fail to start; several workers do so at once. `IInv`
of `EnginePool` is about an engine that runs or is about to (`Live`), since one that ends offers nothing. *The counters say what they are read
for* (`CountsOK`): the idle count is the number of waiting workers, the created count that of workers that
have their thread, so it may be behind the pipes that exist, never ahead of them. *There is never more than room* (`RoomOK`) *and an instance in the making is somebody's* (`AddsOK`):
two workers that both find room make one pipe each, and Windows refuses the one too many. *Not all serve* (`CountsOK`, last part): the
step into serving is safe because the worker that is waiting, or in the making, or the full pool is there in the same state in which
the worker decides, though what it read may be stale. An endpoint that has lost a worker (`hurt`) has no such promise in the code, and
has none here. One lemma per step of the loop, all through one about a worker that moves within it
(`MoveKeeps`); three more shapes for a worker that is born, gets its thread, or is gone. `NameAssumption` says that the set of workers, which
stands for the threads a system can make, is never exhausted while an endpoint has room; TLC evaluates it, `RoomAssumption`
and `EndpointAssumption` in `engine_sessions`.

**The life cycle.** `StoreChangesHandsInOrder` speaks of the owner of the store, but nothing in the code writes an owner: it is
given up by a join and taken by an open. `IInv` of `HistoryRuntime` says who may own it: the published service, one being retired or
stopped, the one just opened, or a clear under a hold. From that and from the worker opening only after it has stopped
everything follows that an open finds no owner. That a hold is respected needs the count of holds to be the number of
requests that hold (`HoldsOK`), which is where finite cardinalities come in. One lemma per critical section. It
rests on `RuntimeAssumption` (a positive bound; a request is no generation's number), which TLC evaluates in `engine_services`.

**Clicks.** The property compares two ghosts at the moment of a commit, so the invariant has to carry the comparison back to the
click. It has two parts. *A revision names one list*: whatever the renderer has seen, or a queued click names, under the
present revision is the present list of the present owner. *What a session would commit by a row* (`Row`: its list after it
has discarded a stale one, as the commit does) *is a row of what the board shows for it, of what it is about to show, of what was clicked,
or nothing*. `RowKept` is the heart: learning, a reload of the dictionary, or another session leaves a suggestion the same or
turns it into nothing, and renews a conversion; `FromListTrans` says that a row renewed twice is still a row of the first
list. That a conversion's row is the one that was shown is not promised: `candidate_reload` is the counterexample. The assumption that nobody is not a worker (`NoOne \notin Workers`) is a hypothesis of both theorems.

**The learning log.** A record that is lost or comes back is noticed long after the step that was wrong: at the next open,
perhaps after a crash. `LogInv` therefore says of every step of every operation what the directory looks like. *Where the
log is* (`OneLog`): under its own name, or parked by a forget that has not yet put the new one there; and whatever else a recovery would
take it from is gone before anything is forgotten. *What was erased is in nothing the log can be made of* (`ErasedIsGone`), the
replacement being written included. *Nothing that was cleared is anywhere* (`ClearedIsGone`), and a clear has emptied copies and
backups by the time it publishes. `ErasedStaysErased` and `ClearReachesEveryFile` follow from these.

`FlushedIsKept` needs a second invariant, `FlushedInv`, proved on top of the first. *The remains of a failed append are the last frame
of any file* (`FilesOK`), and no record reported durable is only in the system's cache. *A writer is behind whole frames only* (`WriterOK`).
*Before a file is replaced or removed, its records are in the replacement or set aside* (`ReplacedIsKept`). The second
part is where the code fails: an error path of the compaction reopens a writer behind a torn frame, so the theorem has the hypothesis
`~TornReopen`, which excludes just that (a replacement failing while the file ends in a torn frame), and `learning_log_torn` is the
counterexample without it. All other failures and crashes are in. `LogInv` and its two theorems hold with `TornReopen` as well.

**Its proof.** One lemma per action and invariant; whatever fails goes through `FailKeeps` and `FailFlushed`. `Filter` writes what
`Without` leaves, a recursive function of the number of frames; that it keeps every other item's records (`WithoutKeeps`) is
an induction. The library's induction theorems take an operator, so the module derives what it needs from `WFMin`: a
set of numbers that is not empty has a least element (`Least`), and a set that holds 0 and each successor up to `n` holds all
up to `n` (`Induction`). It rests on `LogAssumption` (limits are positive, the target is within the limit, the
limit below the capacity, each record is about an item), which TLC evaluates in `engine_data`.

**The link.** `SeenStays` would break if a late answer were taken for a newer one, or a key were answered from a session that
composes something else; both are prepared many steps earlier, by a timeout, a broken pipe or a resynchronization that
did not arrive. `IInv` of `EngineLink` says four things. *Text is on screen only under a link in good standing* (`LinkOK`). *What a
call in each stage is about to do* (`CallOK`). *Ids grow along the pipe* (`IdsOK`): everything in it is older than the request waited
for, except the last. *What is left of abandoned requests cannot touch the reading, or the link is spoilt and the next
call clears the session* (`SessionOK`); while a key is being waited for, the last request in the pipe is that key and the session
still composes what is shown, or the last answer leads from what is shown to what it now composes. The steps are sorted by what becomes of
the pipe (kept, gone, one more request, one served, one answer read), with one lemma each. All five theorems assume `~Orphans`:
without it `ComposesWhatIsShown` and `SeenStays` do not hold, as `engine_link_orphan` shows.

**The developer history.** `IInv` of `InputHistory` has a half about the disk and a half about the calls. *The disk*: at each stage of a compaction the
live file, its replacement and the backup are related so that whichever of them a recovery publishes holds all that is
owed and nothing that is gone; a file that is missing has its backup. *The calls*: each queued record carries the epoch its writer
read, and a record from before a clear that has been answered is behind that clear in the queue or will be skipped; a flush
is owed only what has been written before it. Neither half is touched by most steps, so each step is given by the values it leaves in
the record's fields (`Becomes`) and each half has a frame lemma (`DiskFrame`, `CallsFrame`). That a clear leaves nothing needs the set of
records in the file, not their number, so no induction is needed here.

**Reranking, the AI job, predictions, watchers.** Each is a small machine around one mutex. `NoStaleChoice`: a result that is ready
carries the scores of the very candidates it will be compared by. `SlotFollowsHelper`: a thread that is not over is of the one job
that has the slot, and every owner number belongs to one client. `ShownIsCurrent`: the result, and the ranking under way, of a caller's
query are of a history no older than the one the caller noted when it asked. `FarewellReachesWatchers`: the count of deliveries
is the number of watchers being served (a cardinality, hence the finite set), so an engine that sees it at zero has nobody left to tell.

**One-time codes.** What matters is what a restart finds, so `IInv` of `PadTotp` speaks of both files at every stage of an operation: a record, in
whichever file, is of a secret that was given out and in a state the verifier takes (`Filed`); the one that a restart
would read, or the one about to replace it, counts every failure the user was told of and every step that was accepted.

**Saving and locking the pad.** `EditsSurvive` is hard because a lock that runs out of time leaves a thread behind that may still replace the vault
while the window has been unlocked and edited again. `IInv` of `PadSave` says: *what such a thread can still write is no newer than
what memory holds* (`LeftBehind`, an upper bound by generation), *so memory may let go of a document only once nobody can write any more*;
*the window's own actor has nothing newer than the window* (`ServedBy`); and *where the newest edit is* (`Found`): on the screen or in memory; in
the vault, which then no thread is able to replace (`Stored`); or in a draft alone, while no thread has anything to write and the unlock under way has
read that very draft (`Drafted`). The steps are sorted by what they do to the thread (`QuietStep`, `WriteStep`) and to the window (`OnwardStep`: it goes on;
`HoldStep`: it lets go of its actor; `OpenStep`: it shows what `Remembers` says is known). It needs that nobody is not an actor (`SaverAssumption`).

`CodeAssumption` says that a time step and the limit on failures are positive; TLC evaluates it and `SaverAssumption` in `memo_pad`, as it does
`LinkAssumption` in `text_service`, `ClientsAssumption` in `engine_data` and `WatchersAssumption` in `engine_services` (finite sets).

TLC checked every `IInv`, `HInv`, `LogInv` and `FlushedInv` as an invariant before it was proved (`LogInv` with `TornReopen` and without).

What TLAPS cannot do here is liveness and ENABLED (`LiveComesToRest`, `StopsEnd`, `DeadClaimsEnd` stay with TLC), and in general what
a recursive definition computes for every input; no module uses a RECURSIVE operator. The following has no proof yet and
is model-checked only: `CalmReplacesWhatWasRead`, which holds of calm hosts only; commits (`StandingIsLearntOnce`,
`RejectedWasErased`, `CarryFollowsCaret`, `NothingErasedIsLearnt`), whose lists are edited by `SelectSeq`, a recursive
definition the provers know nothing of; and the memo pad's files (`PadStore`), the refinement of `DurableDocument` included.
## Disagreements with the code

Six runs end in a counterexample to what a document or comment of the repository says.

1. `engine_link_orphan` — PLAN.md:129 promises "live preedit finalized as-is (nothing dropped)". A placement,
   candidate poll, test key or AI request that finds the pipe broken drops the link; nobody finalizes
   the composition, and the next key, answered by an empty session, replaces it.
2. `learning_log_torn` — DESIGN.md:719 bounds the loss to "the entries since the last flush". When the
   compaction that repairs a half-written append cannot rename its replacement, the error path reopens the
   writer behind the torn frame, and flushed records are cut off with it at the next open.
3. `reranker_drop` — `long_conversion.rs:284` sets the shutdown flag and notifies without the lock of `pending`.
   Between the worker's test of the flag and its wait the notification is lost, and `join` waits for ever.
   The stop in `prediction.rs:454` takes the lock and says why.
4. `pad_new_password` — `pad_protection.rs:880` says that after a committed password change "the caller must unlock with the
   new password". In a vault with a protected memo the old primary refuses the new password before the
   marker is read, the backup it authorizes is never tried, and only the recovery key opens the vault.
5. `pad_mask` — `pad.rs:2113` says that a session lock keeps the draft in the process. Where an earlier lock could not
   save, the window is open without an actor, and masking it does not read the editor.
6. `candidate_reload` — `request.rs:168` says that a click commits "the exact revision-stamped row previously queued by the
   renderer". A reload of the user dictionary changes no revision, and the row of a conversion is computed anew at the
   commit: the number clicked on may be another row by then. A suggestion is committed from the session's cache and is
   not affected (`ClickStaysWithItsList`).

The following were seen while reading or modelling and have no run of their own. Those marked (TLC) were confirmed with
a switch of the model that the passing runs keep off.

*Text service.*

* `text_service.rs:7013` against `:6990` (TLC, `Reenters` and `Expires`): `OnCompositionTerminated` discards the answer of its own
  `ask_to_finalize`; inside a key callback that has used its allowance the commit is never sent, the engine
  keeps the reading that the host has just committed, and the next key writes it again.
* `ReplacesWhatWasRead` also fails (TLC) for a refused session (`:1913` against `:2238`), a session that runs late
  (`:2276`), a focus finalizer lost between its two halves (`:2252`, `:2255`), and an answer computed over
  a text that the document no longer shows (`:6385` against DESIGN.md:168 and 537).
* `engine.rs:31` says that a timeout does not drop the connection; the recovery that follows replaces the whole
  `Engine` (`text_service.rs:5661`), link and retry interval included.
* `resync()` treats an `InputMode` reply as a failure, where `revert()` accepts it. A lost reply to a change of mode or
  input scope leaves the cached mode stale (`engine.rs:421`).

*Engine sessions.*

* `composition_fence.rs:66` calls the counts "live composing/converting claims". A reading reset by an undo that was rejected,
  by a change of input scope, or by a reconversion that failed keeps its claim until the next key of that session,
  which the claim then eats. `dispatch.rs:459` and `449`: a Space spends its host's latch even where it turns out to pass
  through.
* `set_mode` (`dispatch.rs:997`) forgets the left context but not the trail of erased characters, while the text service drops its
  proof for the "matching engine-side carry/context reset" (`text_service.rs:2643`). Commit, move the caret, choose a mode from
  the menu, erase elsewhere, retype: the standing commit is rejected (TLC, `Menu`), against `correction.rs:15`, "Any
  uncertainty about what the host deleted ends in 'no match'".
* `apply_ai_composition` keeps the left context of the commit before it (TLC, `Ai`), against `dispatch.rs:2924`.
* The text service proves once that the caret follows the commit, so after a click it cannot see (TLC, `Clicks`) the next idle
  Backspace discards a standing commit; the repository documents the assumption (`dispatch.rs:2738`).
* Undoing a commit recorded without the recency cache pops the newest entry of the cache (`session.rs:1411`); a rejected undo
  does not restore the bridge to the composition after it; a change of scope during a reconversion remembers the mode that
  the reconversion imposed (`session.rs:702`).
* A list computed before a row was deleted is published with the generation read after it (`server.rs:1822`) and not
  hidden, against `ui.rs:459`.
* Raw keystrokes (`dispatch.rs:3306`, "the raw keystrokes behind the currently visible preedit"): a flush between two keys
  makes the count of keys behind a kana differ: `n`, Space, Esc, `a`, Backspace, F10 gives "na". Delete-forward of っ in った
  removes both `t`.
* F9 and F10 where there are no raw keystrokes (kana input, reconverted text, an undone suggestion) show an empty text, and
  Enter then commits nothing, against DESIGN.md:41, "Never lose user text".
* In a composition opened with Shift and a letter the caret counts raw keystrokes: after undo, after a cancelled F6–F10 and
  when Space flushes pending romaji left of the end it is set or moved in kana (`session.rs:1374`, `:759`, `dispatch.rs:5109`).
* Accepting a suggestion while romaji is pending drops the pending letters.

*Server.*

* `server.rs:751` reasons that "nothing can bring an instance back once the count reaches zero" and ends the process for it, but
  tests the count over all endpoints. The last worker of the data endpoint may go while those of the renderer and of control
  remain: nothing brings it back, and the watchdog sees a live engine.

*Learning and history.*

* A crash between creating `log.bin` and writing its header leaves a file that every later open
  rejects. A damaged length near the end of the log is classified as a torn append and cut without a copy
  (`codec.rs:254`; `quarantine.rs:6` says nothing is discarded unseen). Temporaries of forget and
  clear whose removal failed stay until the next open. `learning.rs:903` says the generation moves with a compaction; it does not.
* `prediction.rs:4` says that a newer pending query replaces an older one; the number is taken before the lock, so the
  older may come second and replace the newer.
* A kill between creating and writing the publication record of a history compaction makes every later open refuse. An AI request
  is written to its helper without a deadline.

*Renderer and pad.*

* `watch.rs:21` promises that a stopped engine is not started again. The engine waits for answers being delivered
  (`server.rs:652`); a watcher that is between two questions finds a broken pipe and no farewell.
* A v4 write that crashes with its temporary complete blocks every later save (`pad_storage.rs:2296`: `TempConflict`); so do
  a vault save killed before its temporary matches the draft, a password recovery cut off between its marker and its
  temporary, and a password change whose marker is lost in a failed replacement (`abort_pending_protected_rewrap` finds none and
  leaves the temporary where it is). A first save torn in its temporary leaves the pad refusing to open.
* After "not now" for a draft, a lock and an unlock, the draft is not offered again in that process and the window cannot be closed.
  An unlock that races a write left behind offers to discard its draft as unreadable.
* A clock corrected by more than `ROLLBACK_RESET_STEPS` forgets the accepted steps before the correction, as documented; an older
  code is then accepted once more.

## What is left out

Of the modelled components:

* *QueuedWrite.* The candidate window and layout, AI text records, adjacency proofs (they are in `CommitLearning`), the Dual-TSF
  seat with its conversion-key claims, refusals of `publish_input_scope`, test keys (no state changes). A
  `RefCell` borrow is never refused: `text_service.rs:24` rules that none is held across a host call, hence the
  `Reconciliation…` phases and the markers only they set are absent. The branch of `complete_applied` that
  finds no head cannot be reached after validation.
* *EngineLink.* The handshake is one step. A commit happens outside key callbacks only, and a field changes only
  with nothing shown. Busy and undo, the mode menu cache, AI results, reconversion and the deduplication
  of placements are left out, as is the verification of the server.
* *SpaceFence.* The text of a session (it is there or not), overlapped reads, the quota of connections.
* *EnginePool.* What a connection asks (it is in the other modules), the handshake budget (one more way a connection
  ends), a panicking worker, which drops its slot like one that returns.
* *CommitLearning.* The recency cache, the bridge between two commits, forgetting a pair, the left contexts of rejections, scopes other than
  a whole reset, typing without conversion. Moving the focus while an undo is pending is `QueuedWrite`'s matter. A commit
  dropped because the staging table is full of held ones is excused from `StandingIsLearntOnce`.
* *LearningLog.* What records say; tails beyond the byte cap; retention that fails; snapshots the settings program reads;
  renames that are not durable or lie. Several temporaries are one bit, except the one of forget. The
  service's mutex admits one operation at a time. `TornReopen = FALSE` leaves out the combination of item 2 above.
* *InputHistory.* The formats of records, the retention clock (a compaction keeps any number of the newest), the exported TSV,
  headers half written.
* *CandidateClick, UiWatch.* Geometry beyond its revision, preferences, the detail panel, back-off delays.
* *PadStore.* Limits of size, files that are not regular, memos beyond their number and how many are protected. A directory whose only
  document is an unpublished temporary is excluded (`Published`).
* *PadSave.* The v4 and legacy windows (the v4 mode runs the same actor), switching between memos, the protection of single memos;
  an actor's thread that cannot be started and controls that cannot be made after a draft was chosen, which leave
  the pad locked with its recovery copy kept.
* *PadTotp.* Temporaries of other programs, other documents and scopes.

Not modelled, with the hazard that stays uncovered where there is one: the Dual-TSF seat of a service that went away; overlapped I/O cancelled after completion; a settings save that fails after
its first store (each later store then reports its own failure); a half-failed replacement of the updater's trust state without a backup;
payload removal while a host maps the file; the pending line of the IPC diagnostics.

Not modelled for a reason that will not change: cryptography and model inference (out of the
tools' reach), Win32 drawing and registration (pure I/O), wire encodings (covered by golden and fuzz tests,
and the models carry decoded messages), the dictionary compiler and evaluation tools (offline, one pass), romaji, lattice and trie
(sequential algorithms over data).

## Running

```
tlc -workers 2 -config MCMemoPad.cfg MCMemoPad
tlapm TextService_proofs.tla
```

`PROJECT.json` lists each run with its module, configuration and expected result.

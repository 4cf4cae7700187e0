# Formal models of the Anki / MCATspeedrun core

This directory holds TLA+ models of the parts of this repository whose
correctness depends on the order of events: the undo queues of a collection, its
cached study queues, the scheduling state of cards, the deck tree, the sync of
collections and of media between devices and a server, the locks and flags of
the backend calls, and the MCAT study layer. The Rust core in `rslib/src` is the
reference; where an order of calls is decided by a front end, its code in `qt/`,
`pylib/` or `ts/` is. `PROJECT.json` lists, for every definition that stands for
code, the lines it translates; for every property of a passing run, a change of
the code that breaks it; and the hazards, each at its line.

    tlc -workers 2 -config UndoQueue.cfg MCUndoManager     # any run listed below
    tlapm UndoManagerProofs.tla                            # any module *Proofs

## Inventory

### Components

| Component | State | Operations | How it interacts |
|---|---|---|---|
| Collection and transactions (`rslib/src/collection`) | SQLite rows, `col.mod`, `col.scm`, `col.ls`, `col.usn` | `transact`, `transact_no_undo`, open, close | every write of the core runs in a transaction; the backend mutex admits one call at a time |
| Undo manager (`undo`, `*/undo.rs`) | undo queue, redo queue, mode, step being recorded, counter | begin/end step, save, undo, redo, merge, custom step | filled by `transact`, cleared by sync, errors and closing |
| Study queues (`scheduler/queue`, `scheduler/answering`) | cached queues, counts, learning cutoff, `lastUnburied` | build, get next, answer, undo, redo, day rollover | edited by answers and their undo, cleared by any other operation |
| Card scheduling (`scheduler/states`, `filtered`, `bury_and_suspend.rs`, `new.rs`, `reviews.rs`) | type, queue, due date, remembered due date and home deck of each card | answer, bury, suspend, forget, set due date, reposition, build/empty filtered decks, move, remove decks | one transaction each |
| Decks (`decks`, `scheduler/filtered`, `dbcheck`) | names, ids, kinds; the deck of each card | add, rename, reparent, remove, filtered decks, database check | names written by a sync without a look at the tree |
| Normal sync, client (`sync/collection/normal.rs` and its phases) | `ClientSyncState`, a database transaction held through the sync | meta, start, graves, changes, chunks, sanity check, finish, abort | HTTP calls to the server, any of which may fail or lose its answer |
| Sync server (`sync/http_server`) | one collection per user, at most one `ServerSyncState` | the handlers of the same calls | several devices of one user; each handler runs under the user's mutex |
| Full sync (`sync/collection/upload.rs`, `download.rs`) | a whole collection file | upload, download | required when schema times differ; a failed sanity check forces it |
| Media sync (`sync/media`, `media`, `sync/http_server/media_manager`) | folder, media database with checksums, media USN, on both sides | begin, changes, download, upload, sanity | after a collection sync, in a thread of its own |
| Backend calls (`backend/sync.rs`, `backend/collection.rs`, `progress.rs`) | the collection's mutex, abort handles, shared progress and cancel flag, noted sync status | open, close, sync, full sync, media sync, status check, abort | threads of the desktop; one call at a time needs the collection |
| MCAT layer (`mcat`, `storage/mcat`) | `mcat_leaf_state` rows beside cards and review log | session, exam, answer, recompute, reset | writes outside undo; a hook scores every answer |
| FSRS (`scheduler/fsrs`) | none of its own | memory state, parameter search | arithmetic over card rows |
| Search, card generation, templates, import/export, statistics, i18n | none of their own | queries and transformations | run inside one transaction |
| Python, Qt, TypeScript, tools, build | user interface and packaging | | call the backend |

### What is hard, and what makes each component correct

- **Undo.** Reverting a step writes old rows into whatever the database holds
  now. Correct means: undo and redo walk the states the user went through; a
  revert never meets a missing object; the step a caller may merge into is
  unique; and the stamp undo restores does not hide unsynced rows.
- **Study queues.** Built once, then edited by hand by every answer, undo and
  redo, against rows that burying, other windows and the day rollover change.
  Correct means: entries match their cards, counts match the entries, no card
  waits twice or is lost, and undo gives back the queues there were.
- **Card scheduling.** One column holds positions, days and time stamps; lent
  cards remember another. Correct means: a lent card can go home, queue, type
  and due agree, and only answers and explicit commands change a schedule.
- **Decks.** The tree is only in the names. Correct means: names stay a tree,
  a move takes exactly the decks below, cards go only with their home deck, and
  the database check repairs what a sync broke.
- **Normal sync.** Several devices, unreliable calls, no two-phase commit: the
  server commits first and the client when it has heard so. Correct means: what
  a client lacks has a USN it has not seen, what it no longer holds as pending is
  on the server, deletions win, the newest version survives, and calls of
  different devices never mix in one server transaction.
- **Media sync.** Files change on disk while the sync runs, and answers get
  lost. Correct means: no change on the server is skipped, pending marks are
  dropped only when the server has the file, and devices converge.
- **Backend calls.** Threads that wait for each other while holding locks, and
  one cancel flag for all of them. Correct means: calls return, cancellations do
  not hit later work, a status answer overtaken by a sync is not kept.
- **MCAT layer.** A gate derived from the review log decides which problems are
  served. Correct means: rows agree with the log, a problem that was seen is not
  served again, and no problem starves behind a gate.

## Modules

| Module | Models |
|---|---|
| `UndoManager`, `UndoHistory`, `MCUndoManager`, `UndoManagerProofs` | undo queues, transactions, change records; the abstract history of databases |
| `StudyQueues`, `MCStudyQueues`, `StudyQueuesProofs` | cached study queues, answering, sibling burying, their undo |
| `CardScheduling`, `CardSchedule`, `MCCardScheduling`, `CardSchedulingProofs` | scheduling state of cards; the abstract schedule that filtered decks and burying must leave alone |
| `DeckTree`, `MCDeckTree`, `DeckTreeProofs` | deck names, moves, removal, filtered decks, repair |
| `CollectionSync`, `MCCollectionSync`, `CollectionSyncProofs` | normal and full sync of several devices with one server |
| `MediaSync`, `MCMediaSync`, `MediaSyncProofs` | media sync of several devices with one server |
| `BackendCalls`, `BackendCallsProofs` | backend calls, locks, abort handles, progress |
| `McatStudy`, `MCMcatStudy`, `McatStudyProofs` | MCAT sessions, exams, scoring, reset |

An operator marked "Seeded fault" is a faulty form of the one after it; the
specification does not use it.

### UndoManager

The variables are the fields of `UndoManager` (`undo_steps`, `redo_steps`,
`mode`, `current_step`, `counter`), the database as the connection sees it, and
the open transaction with the database it would roll back to. The backend mutex
lets one call run at a time, so a transaction is a sequence of steps that
nothing else interleaves: `Begin`, then writes (`AddItem`, `UpdateItem`,
`RemoveItem`), then `Commit` or `RollBack`. They are separate steps because the
closure may fail, or the process die, after any of them. `Undo` and `Redo` pop a
step and open a transaction of the same kind; `RevertNext` applies one change of
it. A row is a value and a mark "not synced"; cards and notes have the same
change records. `Commit(recent)`: whether the previous note update is less than
60 seconds old is chosen freely. A new id is one no row had before, except that a
package gives a deleted row back the id it had (`Packaged`: the ids in packages);
such an import is an undoable step like others and leaves the grave of the row.

`UndoHistory` is the abstract specification: `Present`, `Past` and `Future` are
computed in `UndoManager` by reverting the queued steps one after the other, and
`ImplementsHistory` states that they move as `UndoHistory` says. It is about rows,
`col.mod` and the graves of ids that no package contains (`Returnable`): when an
imported row is deleted again and that is undone, the code removes the grave there
was before the import as well (`INSERT OR IGNORE`, then a delete), so the earlier
database does not come back. `UndoReimport.cfg` has this case: the same statement
about whole databases, `ImplementsWholeHistory`, is violated there.

### StudyQueues

A backend call is one action, as the collection's mutex makes it. `GetNext` is
`get_queued_cards(1)`: it rolls the day over, builds the queues when there are
none, moves the learning cutoff and fetches the top card. `Answer` pops the
entry, updates the card, buries siblings, puts the card back and records the
queue change for undo; `AnswerRefused` is its error branch, which drops queues
and undo steps. `AnswerOutsideQueue` is an answer that does not come from the
queue: `grade_now`, which clears the queues, and `mcat_answer_card`, which runs
as `Op::AnswerCard` and so keeps them as they are. `Undo` and `Redo` edit the
queues if they are those of the same build. `DeckList` unburies outside any
transaction. The reviewer (`qt/aqt/reviewer.py`) drops its card when an operation
of another window touched the queues, but is not told of an MCAT answer.

A time counts seconds from `Epoch`, so that days and time stamps are told apart by
size as in the code. Intervals, ease and memory states are left out; limits, sort
orders and mixes are a free choice of order; custom scheduling states are not
modelled. Of an answer these parts are left out: the suspension of a leech
(`answering/mod.rs:194`), answers in a filtered deck that reschedules
(`answering/mod.rs:166`), and the fuzz that may carry a learning delay past the end
of the day (`answering/learning.rs:78`). A recorded step holds the rows of the cards
its operation wrote (`Written`: the card answered and the siblings it buries), and
`before`, a history field, the queues the answer found. `behind` is a history
variable: the cards an answer outside the queues has changed while the queues were
kept. No day number reaches the first time stamp (`TimeAssumption`), and a card that
waits outside the learning queue is not due at a time stamp (`StartsAssumption`):
the code tells days and time stamps apart by size (`restore_queue_from_type`).

### CardScheduling

A card has `ctype`, `queue`, `due`, `odue`, deck, home deck and the position it
had as a new card. An answer leads to any state that the card's type allows,
with any delay or interval of the instance. A filtered deck takes any set of
cards in any order (a search is not modelled). `CardSchedule` is the abstract
specification: the type and due date of a card as it would be at home, changed
only by answers, forgetting, due dates and positions set by hand, and removal;
`ImplementsSchedule` states that everything else leaves it alone, with two
exceptions that `CardSchedule` spells out. The original due doubles as the mark
that there is one, so a card lent with a due of 0 (a new card at position 0, or a
review due on the day the collection was created) may come home with the due it
had in the filtered deck (`LosesZeroDue`, in `ComeHome` and `Remove`); and a new
card whose position is below 0 counts as studied at position 0 (`StudiedAt`).
Days, positions and the due dates of imported reviews may be 0, and dues below 0.
For the same reason `LentCardsHaveAHome` speaks of the home deck of a lent card,
not of its due; that a card at home has no original due left is part of it.
`DuesComeHome` says that no new or review card comes home with a time stamp for a
due: `CardPreview.cfg` shows it violated for a review that is due on day 0,
previewed with Again and then with Good. `CardsAssumption` says that a filtered
deck holds fewer cards than the 100000 its positions start below 0, and
`StartsAssumption` that review cards are at first due on days, not at time stamps.

### DeckTree

A name is a sequence of components, each a text, the number of `+` appended to
it and whether it has a capital; texts are numbers, none a prefix of another, so
that comparing names as the code does is comparing sequences (`DeckDrop.cfg`
shows the one place where that matters). Ids are never reused. Every operation
is one transaction, and one that fails leaves everything as it was (`failed`
says why). `merge_deck` and `apply_grave` are what a sync does; the properties of
the tree hold until one did (`merged`), and `CheckRepairs` always. The check of
the database fails, and repairs nothing, if the nearest existing parent of a deck
is a filtered deck; a home deck (`odid`) that is missing is not looked for:
both as in the code. An empty search is left out. A drag or a removal is of one
deck, or of two in the order of the list, which is what it takes for a deck to be
moved or removed together with one above it. The loops over decks are recursive
functions, and what one pass of them does is an operator of its own
(`reparent_one`, `remove_with_children`, `add_missing_name`).

### CollectionSync

`col[c]` is the collection a device sees, `sess[c]` its `ClientSyncState` with
the collection its transaction started from; `disk` is the server's committed
collection, `server_col` what the server's open connection sees, and
`sync_state` is `User::sync_state`. The client holds its collection for the
whole sync, so it is not edited meanwhile; the server handles one call at a
time. One call is therefore one step: the handler runs, and the client goes on
with the answer or, if the answer is lost, rolls back. Between two calls of one
device the others edit, sync and abort.

| Action | Code |
|---|---|
| `AddItem`, `UpdateItem`, `RemoveItem`, `ReviewCard`, `ImportItem`, `SetConfig`, `SetSchemaModified`, `ResetProgress` | transactions between syncs |
| `Meta` | `server_meta`, `compared_to_remote` |
| `Start`, `SendGraves` | `start_and_process_deletions`, `server_start`, `server_apply_graves` |
| `ApplyChanges` | `process_unchunked_changes`, `server_apply_changes` |
| `ReceiveChunk`, `SendChunk` | `process_chunks_from_server`, `send_chunks_to_server` and their handlers |
| `SanityCheck`, `Finish`, `FinishCrash` | `sanity_check`, `finalize`, `server_finish` |
| `Fail`, `Abort` | the error branch of `sync()`, `server.abort()` |
| `Upload`, `Download` | `full_upload`, `full_download` and their handlers |
| `ClientCrash`, `ServerRestart` | the end of a process: SQLite rolls back |

Objects follow one of two merge rules: that of cards and notes (sent in chunks;
a pending local row is replaced by a newer one only) and that of decks, presets
and notetypes (sent whole; the later mtime wins and a tie goes to the row
received). Review log entries are only added. A version is named by the moment
it was made; `MsPerSec` moments share one mtime. `NothingLost` is the
conjunction of `UsnOrder`, `NothingMissed` and `SyncedIsDurable`.

Left out: tags (a union of names), unique deck names, unburying at the start of
a sync, clock differences (one clock for all), version checks and redirects,
size limits, the size and emptiness checks of files in full syncs and backups.
`EditKinds` and `Faults` say which edits and faults a run has; `Overlap` says
whether anything may change on the server between a client's `meta` and `start`.

### MediaSync

A device has a folder and a media database; the server a folder and a database of
entries with USNs. A file is its content, and a checksum names the content.
`RegisterChanges`, adding and removing files, and each call of the sync are actions;
the user goes on between them. A change of mtime is a change of content. Names are
valid and files neither empty nor too large, so nothing is renamed or refused.
`Races` says what may overlap with a device's sync. The passing run has none of
`UserDuringDownload`, `UserDuringUpload`, `UnregisteredSent` (a file waiting to be
sent changes behind the back of the database) and `Overlap` (another device uploads
while one sends, or after the server's media USN was read and before the media sync
begins: the USN comes from the `meta` call of the collection sync,
`backend/sync.rs:389` and `453`, so it may be old long before it is used). `unlike`
is a history variable: files of which a device last sent something else than it had
registered. That takes `UnregisteredSent`, or a download given up after it has
written over a file that waits to be sent; until the device fetches the file again
its record is not the server's version, and `SeenIsKept` and `PendingUntilStored`
except such files (`MediaRestore.cfg` shows what becomes of them). With any of the
other three, or with a server that dies twice, TLC finds changes lost, which are
listed as hazards at their lines. A zip holds any number of files up to the limit,
since the server may stop at a size.

### BackendCalls

Three threads: the caller of the one call at a time that needs the collection
(`qt/aqt/taskman.py` queues them), the check of the sync status, and the media
sync, which is spawned late: it takes the handle, then the collection, then
runs. Mutexes that are never held over a wait make one step of what happens
under them. The steps follow the waits: for the collection, for a request, for
the media thread to end (`Wait`, `WakeUp`, the 100 ms loop). A Rust panic under
the collection's mutex poisons it. `asked` is a history variable: the work that
ran when a cancellation was asked for. Left out: `sync_login`, which shares the
abort handle and is modal, and backups.

### McatStudy

The log is kept as what `score_leaf` reads of it. Whether FSRS finds a leaf fluent
is open wherever the log allows it. `OpenStudy` and `OpenExam` choose the cards as
`build_queue` and `select_diagnostic` do, in any order they allow; `AnswerItem` is
an answer on the page, `AnswerInReviewer` one in the ordinary reviewer, both scored
by the hook in `answer_card_inner`; `AnswerUnscored` is the same with a hook that
fails. Undo, redo and a synced review change the log and not the rows. A synced
review is the latest of its leaf or, by its time stamp, lies among older ones, whose
evidence it changes (`RecordOlder`: what was spaced, quick or solved, and a first
miss that becomes a lapse). Cards and their tags are fixed: nothing is retagged,
moved to another leaf or deleted. `Reset` and `ResetFails` are the three steps of
`mcat_reset_progress` and its failures in between. `stale` is a history variable:
leaves whose log changed with no score after it. Days are whole, and spacing is
counted in days. A leaf has at least one flashcard, or is of CARS, and fewer than
`PER_LEAF_MAX` flashcards: without them `EveryProblemIsMet` fails, as the hazards
say.

## Runs

| Run | Config | Shows |
|---|---|---|
| `undo_queue` | `UndoQueue.cfg` | two objects: counters, reverts, stamps, and that `UndoManager` implements `UndoHistory` |
| `study_queues` | `StudyQueues.cfg` | two siblings and another card: queues, counts and rows stay in step through answers, undos, redos, other windows and the end of the day |
| `card_scheduling` | `CardScheduling.cfg` | two cards, two decks and a filtered one: lent cards have a home, queue and due agree, and the schedule is that of `CardSchedule` |
| `deck_tree` | `DeckTree.cfg` | three operations, one of them of a sync, on a deck, one below it and two cards |
| `sync_merge` | `SyncMerge.cfg` | two devices, a card, a deck, reviews, config, additions; any sync given up at any call |
| `sync_faults` | `SyncFaults.cfg` | lost answers, crashes, restarts and full syncs |
| `sync_loss` | `SyncLoss.cfg` | what still holds where changes do get lost |
| `sync_live` | `SyncLive.cfg` | one device, two cards, a deck: what is pending is sent once failures stop |
| `sync_stale_usn` | `SyncStale.cfg` | violation: with a stale USN a sync finishes, its sanity check passed, and device and server hold different versions of a card |
| `media_sync` | `MediaSync.cfg` | two devices, two files, three changes and one fault: no change is skipped or forgotten, and the devices converge |
| `backend_calls` | `BackendCalls.cfg` | three threads, cancellations at any time, a media folder or a collection that fails to open |
| `mcat_study` | `McatStudy.cfg` | a leaf with a flashcard and two problems, a CARS leaf, and one event that disturbs the rows |

### Further configurations

These are kept to reproduce what was found while modelling; TLC reports a
violation for each.

| Config, module, property | Shows | What the repository says |
|---|---|---|
| `UndoLastStep.cfg`, `MCUndoManager`, `LastStepIsTarget` | after a coalesced note update `last_step` names no queued step | `pylib/anki/collection.py:1053`: "you can use col.undo_status().last_step to retrieve the target to merge into" |
| `UndoReimport.cfg`, `MCUndoManager`, `ImplementsWholeHistory` | a deleted row is imported again, deleted again and that is undone: the grave of the first deletion is gone too | `docs-site/manual/browsing.mdx:196`: "Revert the most recently performed operation." |
| `UndoSkip.cfg`, `MCUndoManager`, `PendingImpliesChanged` | undo across a `SkipUndo` change restores a stamp that hides that change from the offline status check | `sync/collection/status.rs:14`: "If local collection is clean but changes are pending on AnkiWeb, NoChanges will be returned." |
| `SyncAbort.cfg`, `MCCollectionSync`, `AbortIgnoresOthers` | a late abort ends the sync of another device | `sync/collection/tests.rs:203`: "an abort request with the wrong key is ignored" |
| `SyncReimport.cfg`, `MCCollectionSync`, `SyncConverges` | the second deletion of an imported card is not sent | `sync/collection/tests.rs:733`: "deletions should sync too" |
| `SyncReset.cfg`, `MCCollectionSync`, `SyncConverges` | reviews deleted by `mcat_reset_progress` cannot be merged; the sanity check forces a one-way sync | `docs-site/manual/syncing.mdx:87`: "When you perform an operation that can’t be merged, Anki will warn you" |
| `StudyStale.cfg`, `MCStudyQueues`, `EntriesAreFresh` | with reviews buried and new cards not, the second answer to a card buries a review the queues still hold | `scheduler/queue/mod.rs:115`: "bug: card modified without updating queue" |
| `StudyRollover.cfg`, `MCStudyQueues`, `NeverPanics` | undoing an answer on the next day discards the step being recorded and panics after the commit | `undo/mod.rs:274`: "Must only be called in a transaction, when an operation was passed to transact()" |
| `CardPreview.cfg`, `MCCardScheduling`, `DuesComeHome` | a review due on the day the collection was created comes home from a preview with a time stamp for a due | `scheduler/answering/preview.rs:120`: "it should return to its old state once good or easy selected" |
| `MediaTrash.cfg`, `MCMediaSync`, `RemovedFilesAreGone` | one missing file keeps the rest of the list from being removed | `media/files.rs`: "if the file doesn't exist, nothing to do" |
| `MediaRestore.cfg`, `MCMediaSync`, `ChangesAreMarked` | an interrupted download writes over a file that waits to be sent; the next sync sends what it finds, but keeps the checksum it had registered, and when the user writes the old content back that is taken for no change | `sync/media/database/client/mod.rs:42`: "True if changed since last sync" |
| `McatDemotion.cfg`, `MCMcatStudy`, `MissReopensRote` | a wrong answer to a fresh problem leaves the leaf unlocked | `planning/PRD.md:62`: "One wrong answer is enough to (re)open rote work for that subtopic." |
| `BackendHang.cfg`, `BackendCalls`, `CallsReturn` | a media sync that cannot open its folder leaves its handle behind; closing the collection waits for ever | `backend/sync.rs`: "Won't return until aborted" |
| `DeckRename.cfg`, `MCDeckTree`, `RenameAddsOnlyParents` | renaming `foo` to `foo::bar::baz` also leaves `foo::bar::baz::bar` | `decks/addupdate.rs`: "May add parents, or rename children as required." |
| `DeckDrop.cfg`, `MCDeckTree`, `DropsLandOnTheTarget` | dropping `a::b` on `a::b+` does nothing | `decks/name.rs`: "names that are prefixes of the target are handled correctly" |

### Bounds, and why they are enough

- **Undo.** `UNDO_LIMIT = 2` (30 in the code) with three counted operations
  overfills the queue and leaves steps on both queues; the limit takes no part in
  any other decision. `MaxClock = 3` allows operation, sync and operation. One of
  the two ids is in a package. The run has note updates, which may be folded into
  the one before or stay a step like any other, operations without undo, custom
  steps and merges. `UndoReimport.cfg` takes four operations.
- **Study queues.** Two siblings and one card of another note are what burying
  takes; two builds let queues be rebuilt between an answer and its undo; the four
  times are two within a day and its learn-ahead window, one near its end and one on
  the next day. Two answers and one operation of another window give answers undone
  in both orders around it. `UndoLimit = 2` fills the queue.
- **Cards.** Four operations lend a card, answer it, change it and send it home.
  `Positions` has 0 and 1, and the run begins on day 0, so that dues of 0 are lent
  and lost.
- **Decks.** Names over two texts, one of them also in a capital, up to three
  components; one change by a sync, merges counted within the three operations.
- **Collection sync.** Two devices are what a conflict takes. One card and one deck
  exercise both merge rules. `CHUNK_SIZE = 1` makes every stream end on an empty
  chunk. Three edits let each device change an object and one answer the other's
  change; `MaxNow` beyond that leaves room for syncs, each of which takes one stamp.
  `MsPerSec = 1` gives every edit an mtime of its own; with 2, two edits of one card
  within a second leave both sides apart for good, which is a listed hazard.
  `Overlap = FALSE` where `NothingLost` and `SyncConverges` are checked: they fail
  otherwise (`sync_stale_usn` shows it for `UpToDate`); `sync_loss` has it and
  checks what holds even so. `FinishCrash` (the server dies between its commit and
  setting the modification time) is in `sync_loss` only, as `UpToDate` does not
  survive it.
- **Media sync.** `CHANGES_LIMIT = 2` and one file per zip make changes and uploads
  take several requests; `MaxFaults = 1` puts one failure anywhere.
- **Backend.** A clock of four values around a cache of one second; one change on
  the server.
- **MCAT.** Two problems behind one gate, one disturbance (`MaxTrouble = 1`) at any
  moment, and spacing scaled from three days to one.

Deadlock checking is on for undo, sync, media and MCAT runs. It is off where a
run really ends: at its last operation or time stamp (`study_queues`,
`card_scheduling`, `deck_tree`), after a panic (`study_queues`), and where the
collection's mutex is poisoned or the clock is at its bound (`backend_calls`).

### Fairness

- `sync_live`: weak fairness of each call of the device: the client's loop makes
  the next call when it has an answer, and the user or the timer syncs again
  after a failure. Edits and faults have none; the premise `FaultsEnd` is that
  faults stop. It is checked for one device. For two it does not hold and the
  code does not promise it: `meta` and `start` of one device abort the sync of
  the other, and two devices that retry in step can do so for ever.
- `media_sync`: weak fairness of a device's next step in a sync, which also
  starts a new one. The bounds on edits and faults make them stop.
- `backend_calls`: threads run; requests end, by an answer or the timeout of the
  HTTP client; the status check gets the collection's lock when it is free again
  and again (strong fairness of `ReadMeta`). A media sync need not end by itself,
  only once its handle is aborted or its flag is up.
- `mcat_study`: a learner who goes on: days pass, sessions are opened, every
  problem shown again and again is answered, rightly or wrongly, and every
  flashcard is recalled now and then on a later day.

## Proofs

TLAPS checks the following for every value of the constants.

- `UndoManagerProofs`: `CounterInvariant`, then `UndoLimit` (the queue never
  exceeds `UNDO_LIMIT`) and `CountersOrdered` (counters strictly decrease along
  the queue, so the target of a merge is unique). Neither property is inductive:
  between `begin_step` and `end_step` the manager's counter is already ahead, and
  `merge_undoable_ops` sets it back, so `CounterInv` relates counter, step being
  recorded and queue in each phase. It assumes `UndoLimitAssumption` and
  `BoundsAssumption`. The run checks `CounterInv`, which implies both.

  In its second part, the refinement `QueuesImplementHistory` (every step of
  `UndoManager` is one of `UndoHistory` on `Present`, `Past` and `Future`, or a
  stutter), and `RevertingSucceeds` and `PendingIsAnnounced`, all from `HistoryInv`.
  Databases are compared up to the graves of ids that packages contain, and
  `PendingIsAnnounced` leaves open the case that nothing but such graves is unsent
  (`OnlyImportedGraves`); the run checks `PendingImpliesChanged` without it. A
  change record *fits* a database if reverting it there restores what the write
  replaced (`RevertFits`: and the inverse record takes that back); `Reverts` says
  that the changes of a step, last one first, fit one after the other, and `Leads`
  that a queue of steps leads through the remembered databases, each of them
  *sound*: deleted rows are gone, and what is unsent goes with a stamp later than
  the last sync. `HistoryInv` states that both queues lead from the present; that in
  a transaction the recorded changes revert to the database it started from
  (`Recording`), or, while a step is undone or redone, that those recorded so far do
  and those left lead on to the step's end (`Replaying`); and that undo steps end,
  and redo steps start, with the time stamp, which is why a step being undone is
  never taken for a note update and folded. Each action has a lemma that it keeps
  `HistoryInv` and which action of `UndoHistory` it is. These theorems assume that
  no operation is left out of the queue (`"SkipUndo" \notin OpKinds`): with one,
  `PendingImpliesChanged` is false, as `UndoSkip.cfg` shows. `TypeCorrect` holds for
  every set of kinds. `NoItemAssumption` and `NoStepAssumption` say that `None` is
  no row and no step. What `Reverting`, `Rewinding` and `Joined` compute is proved
  by induction, in the form `SetInduction`: a set of numbers with 0 and the
  successor of each of its members holds all of them, from the well-foundedness of
  the order.
- `StudyQueuesProofs`: `TypeCorrect`, `QueuesStayInStep` (`QueuesAgree`) and
  `UndoGivesBack` (`UndoRestoresQueues`), for any cards, notes, delays, clock and
  number of operations, and with no hypothesis, from `QueuesInv`. That the counts
  are those of the entries is not inductive: an undo counts back an entry and takes
  over a count and a cutoff saved earlier, which is right only for the queues its
  answer left. So `QueuesInv` says of the recorded steps that belong to the queues
  that are there (`LiveIn`) that they form a `Chain`: undone one after the other
  they lead from these queues back to those the first answer found, and the undone
  ones, redone, lead forth again. Queues are compared by their `View`, which leaves
  out counts and cutoff, that an undo restores, and the order of the learning cards,
  as an undo puts a card back at the front. `UpdateOK` says that a recorded step
  leads from the queues it found to those it left; an answer records such a step
  (`QueueUpdates`), and `UndoneIs` and `RedoneIs` say that the edits of the code go
  back and forth along it. Counts are cardinalities of sets of entries: the lemmas
  on popping, inserting and removing say what each edit does to the set.

  `EntriesStayFresh` (`EntriesAreFresh`) adds `FreshInv`: entries, and the rows that
  go with the entries a recorded step puts back, describe their cards, and no card of
  a kind that is buried waits in the queues beside a sibling (`NoBuriedSiblings`), so
  that an answer writes no other card of them. Its hypothesis `HierarchicalStarts` is
  that the deck options bury reviews only if they bury new cards, and cards learning
  over days only if they bury reviews. The options allow otherwise, and then the code
  fails: `StudyStale.cfg` is a run of it. `LearningStaysInQueues` (`LearningNotLost`)
  adds `CalmInv`: the other rows a recorded step writes back do not wait in the
  learning queue of that day. Besides `HierarchicalStarts` it assumes
  `NoLearningPreviews`: no card that is learning is previewed in a filtered deck. When
  its preview ends such a card goes home, to a deck that may not be studied, and the
  model has no decks. The starts of the run satisfy both hypotheses.
- `CollectionSyncProofs`: `SessionInvariant`, then `SessionsAreExclusive`
  (uncommitted rows on the server always belong to the active session, which
  stamps with the USN of the committed collection). `SessionInv` adds that every
  collection keeps a USN field through each merge operator and that a client
  whose sync is under way has saved the collection it started from. `TypeInvariant`
  says which fields the collections and the session have in each phase of a call,
  and that what is left to be sent or received is there; `CollectionTypes` (`TypeOK`)
  follows. Each merge operator has a lemma that it keeps collections of their type.
  `GuardsHold` (`SanityGuards`): from the sanity check to `finish` nothing touches
  either collection, or the session is gone. All of it for every set of edits and
  faults; it assumes `NoClientAssumption`, `SizesAssumption` and what the module
  says of objects and times.

  In its second part, what a sync leaves behind, for any number of devices, objects,
  edits and failures, any chunk size. `DeletionsLast` (`NoResurrection`) rests on
  `GraveState`: time stamps are handed out in order and a schema time once only
  (`ClockInv`), and a device that has the server's schema has no object that the
  server deleted before the USN the device has seen (`GravesKnown`), so that the
  deletions exchanged in `start` are all there are (`GravesExchanged`); on either
  side no object is both there and deleted. `ChangesLast` (`NothingLost`),
  `SyncsMeet` (`SyncConverges`), `LatestKept` (`NewestKept`) and `CurrentMeansEqual`
  (`UpToDate`) rest on `MergeState`, which adds `MergeInv`. Of a device at rest it
  says that what the server stamped below the device's USN is there (`Seen`) and
  that what the device does not mark as pending is on the server (`Stored`), in that
  version or a newer one; of a sync, what holds after each call: first as before the
  sync (`Seen`), then the decks are equal (`DecksMerge`) and the cards and reviews
  too, but for those still to be received (`ChunksMerge`) and to be sent
  (`PendingSent`); and that nothing the client had when it started has gone except
  by a deletion (`NoneLost`). Its hypotheses are what the code needs: without each
  of them TLC finds the properties violated. `~Overlap`: no other sync ends between
  a client's `meta` and `start` (`sync_stale_usn`). No `Import`: no deleted object
  is imported under its old id (`SyncReimport.cfg`). No `Reset`:
  `mcat_reset_progress` deletes reviews without telling other devices
  (`SyncReset.cfg`). `MsPerSec = 1`: no two changes of an object carry the same
  mtime, as the code tells them apart by seconds only. For `UpToDate` also no
  `FinishCrash`. `NotGatheredAssumption` says that the mark for "no chunk asked for
  yet" is no set of rows.
- `BackendCallsProofs`: `TypeInvariant`; `NoStrayInterrupts` from the invariant
  `FlagIsMeant` (while the flag is up, all that is running was running when it was
  raised), which holds because a new handler lowers the flag; and `StatusCurrent`
  from `AnswerIsDated`: what a check has read is out of date only if a sync has been
  noted since the check began, which is what the comparison of times in
  `sync_status_inner` tests, or is about to be. They assume `CacheAssumption` and
  `BoundsAssumption`.
- `McatStudyProofs`: `TypeInvariant`; `RowsFollow`, action by action over the
  operations that write rows; and `SeenNotServed`, for which a leaf with a seen
  problem and a row that is not stale must be assessed, whatever sessions, failures
  and resets came before. They assume `CardsAssumption` and `LimitsAssumption`.
- `MediaSyncProofs`: `TypeCorrect` (`TypeOK`) for all races and faults, from
  `TypeInv`, which gives the session its fields in each phase; and `NothingSkipped`
  (`SeenIsKept`) and `NoneForgotten` (`PendingUntilStored`) from `SyncInv`
  (`SyncKept`), for any devices, files, limits, edits and failures. Of every entry
  whose USN a device has noted it has the server's version or a change of its own
  (`Knows`); while a batch is downloaded, with rows and USN not yet written, it is
  known of each file how recording the batch will make that so (`Fetched`). A device
  that sends knows all entries (`KnowsAll`), which is why its own upload may move
  its USN when the server's is where it would be had nobody else written; what it
  sends is what its rows say, or is noted in `unlike` (`Sending`). For the other
  devices an upload only adds entries with USNs they have not noted (`Later`). The
  changes of an upload are counted through by induction (`SetInduction`), which
  gives the server after each of them. The hypothesis `Undisturbed` allows
  `UnregisteredSent` and lost answers, and syncs given up anywhere. It excludes the
  other races, of which `Overlap` is the server's media USN being out of date when
  it is used, and the death of the server between its folder and its database, with
  which TLC finds both properties violated. The module's four assumptions are used.
- `CardSchedulingProofs`: `CardTypes`, `LentCardsReturn`, `QueuesMatchDueDates`, and
  `SchedulingImplementsSchedule`, the refinement: every step of `CardScheduling` is
  one of `CardSchedule` on `Schedule`, or a stutter. All rest on `CardInv`: every
  card is `Lawful`, which joins the two properties of the runs (neither is inductive
  alone: a lent card comes home to a queue chosen from its original due) and adds
  what makes an original due of 0 harmless but for the due: a lent card that may
  come home without its due, or is new, has in the filtered deck a position not
  above 0 or the time stamp of a preview, so that what it comes home with is never a
  position or a day that someone could take for its own. `SameOrLost` compares the
  schedules before and after a card comes home. Each operator on a card has a lemma
  that it keeps cards lawful and what it does to their schedule; each action has one
  that applies it to the table. There is no hypothesis beyond the assumptions of the
  module on decks, times, day numbers, starts and the size of filtered decks;
  `DayAssumption` says that no day number reaches the first time stamp, which the
  code relies on to tell the two apart.

- `DeckTreeProofs`: `TypeCorrect` (`TypeOK`), `NamesAlwaysHold` (`NamesHold`),
  `MovesTakeDecksBelow` (`MovesTakeTheSubtree`), `CardsFollowTheirDeck`
  (`CardsGoWithTheirDeck`) and `ChecksRepairTheTree` (`CheckRepairs`), for any
  names of any depth, any cards and any bounds, from `Inv`: the decks are a `Table`,
  with names no two of which `Fold` to one and ids all below `nextId`; and until a
  sync has changed decks, the tree is `Whole`, every card has a deck (`CardsAtHome`:
  a lent one a filtered deck it is in and a normal one it will return to) and no
  rename has clashed. The properties on steps need the last two: a move takes
  exactly the decks below only because the parents of all decks exist, and a card
  goes with its home only if that is there.

  `Before` is shown to be a strict total order on names regardless of case, so that
  `sorted` lists every deck once (`SortedLists`). What
  `ensure_deck_name_unique` finds is free (`UniqueIs`): of all the suffixes tried,
  one more than there are decks, one is not taken. `MatchedTable` and
  `create_missing_parents` add parents and nothing else (`Grown`). The renames of
  `rename_child_decks`, one by one and each one checked against the unique index,
  come to `Moved`: they pass because in a whole tree nothing is below a free name
  but decks that move (`ChildRenamesPass`, `RenamesPass`). A deck renamed to a place
  below itself takes parents along that were created for it; those are added again
  afterwards (`MovedGrownIsWhole`). A drag adds no parents, and its target stays
  where it is (`TargetStays`). Two decks are dragged one after the other: the second
  takes along just what was below it at first (`OthersAreLeft`, `FollowersFollow`),
  even when the first has taken it along. A removal leaves the table without a deck
  and those below it, and the cards that have none of them as home (`Removal`). The
  loops over decks and selections are recursive functions; their equations and what
  they compute are proved by induction (`TheyRecur`, `SetInduction`). They assume
  `DeckTreeAssumption`, and `InitNamesAssumption`: the decks there are at first have
  different names and their parents, as the collections the program creates have.

Every safety and action property of the runs is stated by a theorem, and both
refinements are; `PendingImpliesChanged` only up to imported graves, as said above.
Liveness under fairness (`PendingIsSent`, `Converges`, `OnlyTheDeadBlock`,
`EveryProblemIsMet`) is out of the prover's reach and is only model-checked. Some
theorems have hypotheses on the constants, named above; they are those without which
TLC finds the property violated, or, for `NoLearningPreviews`, without which the
model cannot tell.

## Not modelled

FSRS (numerical optimisation in an external crate), search, templates, rendering,
statistics, i18n and the protobuf dispatch have no state of their own that
outlives a call: unit tests reach them better than a model checker. Import and
export are bulk transfers within one transaction. The storage layer is taken as
SQLite with transactions that roll back. The database check is modelled for decks
only. User interfaces are modelled where they decide the order of calls (the
reviewer, the MCAT pages, the task manager). The map covers a small share of the
repository's lines for that reason: most of them are of these kinds.
`PROJECT.json` gives the reason for each component.

## Plan

Done: undo, collection sync, study queues, card scheduling, decks, media sync,
backend calls, the MCAT layer; theorems about all of them.

1. An abstract specification of a sync as one merge step of two collections,
   with `CollectionSync` shown to implement it.
2. Changes of a note type: schema marks, card generation and removal of the cards
   of a template, with the one-way sync they force.
3. Imports of packages: the mapping of ids and the choice between the imported
   and the existing note.

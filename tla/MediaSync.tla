------------------------------- MODULE MediaSync -------------------------------
(***************************************************************************)
(* Media sync: devices that keep a folder of media files the same as the   *)
(* server's (rslib/src/sync/media, rslib/src/media and                     *)
(* rslib/src/sync/http_server/media_manager).                              *)
(*                                                                         *)
(* A device has the folder, which its user and other programs change, and  *)
(* a media database with what was last known of every file.  The sync runs *)
(* in the background, one HTTP call after the other, without a lock on     *)
(* either: between two calls the user goes on.  A file is its content; a   *)
(* checksum names the content.                                             *)
(***************************************************************************)
EXTENDS Integers, FiniteSets, SequencesExt

CONSTANTS
  Clients,        \* devices
  Files,          \* names, as numbers: the media table is ordered by name
  Contents,       \* what a file may hold
  Gone,           \* no file: the null checksum
  CHANGES_LIMIT,  \* rows in an answer to media_changes (1000 in changes.sql)
  MAX_MEDIA_FILES_IN_ZIP,
  Races,          \* what may overlap with a device's sync
  Faults,         \* what may go wrong
  MaxEdits,       \* bound: changes users make
  MaxFaults       \* bound: faults

ASSUME FilesAssumption == Files \subseteq Int /\ Gone \notin Contents
ASSUME LimitsAssumption == {CHANGES_LIMIT, MAX_MEDIA_FILES_IN_ZIP} \subseteq Nat \ {0}
ASSUME BoundsAssumption == {MaxEdits, MaxFaults} \subseteq Nat
ASSUME KindsAssumption ==
  /\ Races \subseteq {"UserDuringDownload", "UserDuringUpload", "UnregisteredSent", "Overlap"}
  /\ Faults \subseteq {"GiveUp", "AnswerLost", "ServerCrash"}

VARIABLES
  folder,    \* the media folder of each device
  db,        \* its media table: rows with the checksum and the dirty flag
  last_usn,  \* meta.lastUsn
  checked,   \* is meta.dirMod the folder's modification time?
  sess,      \* how far the device's sync has come
  server,    \* the server's media table, meta row and folder
  unlike,    \* files of which a device last sent something else than it had
             \* registered (history)
  edits,     \* changes made by users so far
  faults     \* faults so far

vars == <<folder, db, last_usn, checked, sess, server, unlike, edits, faults>>

Shas == Contents \cup {Gone}
Row == [sha: Shas, dirty: BOOLEAN]
Entry == [sha: Shas, usn: 1..server.last_usn]

Deleted == [sha |-> Gone, dirty |-> TRUE]
Clean(sha) == [sha |-> sha, dirty |-> FALSE]
Dirty(sha) == [sha |-> sha, dirty |-> TRUE]

NoSync == [pc |-> "idle"]

Known(c) == {f \in DOMAIN db[c] : db[c][f].sha # Gone}
PendingFiles(c) == {f \in DOMAIN db[c] : db[c][f].dirty}
ServerFiles == {f \in DOMAIN server.entries : server.entries[f].sha # Gone}
OnDisk(c) == {f \in Files : folder[c][f] # Gone}

NoRows == <<>>
Without(g, S) == Restrict(g, DOMAIN g \ S)
Over(g, h) == [f \in DOMAIN g \cup DOMAIN h |-> IF f \in DOMAIN h THEN h[f] ELSE g[f]]

\* Lists of at most n members of a set, in the order of a key: all of it, or the
\* first n ("order by key limit n").
Ascending(S, key, n) ==
  {seq \in UNION {[1..k -> S] : k \in 0..n} :
     \A i, j \in DOMAIN seq : i < j => key[seq[i]] < key[seq[j]]}
AllBy(S, key, n) == {seq \in Ascending(S, key, n) : ToSet(seq) = S}
FirstBy(S, key, n) ==
  {seq \in Ascending(S, key, n) :
     \A f \in S \ ToSet(seq) : Len(seq) = n /\ \A i \in DOMAIN seq : key[seq[i]] < key[f]}

TypeOK ==
  /\ folder \in [Clients -> [Files -> Shas]]
  /\ \A c \in Clients : DOMAIN db[c] \subseteq Files /\ db[c] \in [DOMAIN db[c] -> Row]
  /\ last_usn \in [Clients -> 0..server.last_usn]
  /\ checked \in [Clients -> BOOLEAN]
  /\ \A c \in Clients : sess[c].pc \in {"idle", "changes", "download", "send", "upload", "sanity"}
  /\ DOMAIN server.entries \subseteq Files /\ server.entries \in [DOMAIN server.entries -> Entry]
  /\ server.folder \in [Files -> Shas] /\ server.last_usn \in Nat /\ server.count \in Nat
  /\ unlike \subseteq Clients \X Files
  /\ edits \in 0..MaxEdits /\ faults \in 0..MaxFaults

Init ==
  /\ folder = [c \in Clients |-> [f \in Files |-> Gone]]
  /\ db = [c \in Clients |-> NoRows]
  /\ last_usn = [c \in Clients |-> 0]
  /\ checked = [c \in Clients |-> FALSE]
  /\ sess = [c \in Clients |-> NoSync]
  /\ server = [entries |-> NoRows, last_usn |-> 0, count |-> 0, folder |-> [f \in Files |-> Gone]]
  /\ unlike = {} /\ edits = 0 /\ faults = 0

-----------------------------------------------------------------------------
(* The user, other programs, and commands that use the media manager.       *)

\* Which moments of a sync does a user's change fall into?
UserMay(c) ==
  /\ edits < MaxEdits
  /\ sess[c].pc \in {"changes", "download"} => "UserDuringDownload" \in Races
  /\ sess[c].pc = "upload" => "UserDuringUpload" \in Races

Edited == edits' = edits + 1 /\ UNCHANGED <<last_usn, sess, server, unlike, faults>>

\* A file that waits to be sent is changed behind the back of the media database,
\* so that the sync sends something else than was registered.
MayChange(c, f) == f \in PendingFiles(c) => "UnregisteredSent" \in Races

\* A program puts a file into the folder, takes one out, or writes over one.
\* The folder's modification time tells of the first two.
CopyIn(c) ==
  /\ UserMay(c) /\ Edited /\ UNCHANGED db
  /\ \E f \in Files \ OnDisk(c), content \in Contents :
       /\ sess[c] = NoSync \/ MayChange(c, f)
       /\ folder' = [folder EXCEPT ![c][f] = content]
  /\ checked' = [checked EXCEPT ![c] = FALSE]

TakeOut(c) ==
  /\ UserMay(c) /\ Edited /\ UNCHANGED db
  /\ \E f \in OnDisk(c) :
       /\ sess[c] = NoSync \/ MayChange(c, f)
       /\ folder' = [folder EXCEPT ![c][f] = Gone]
  /\ checked' = [checked EXCEPT ![c] = FALSE]

WriteOver(c) ==
  /\ UserMay(c) /\ Edited /\ UNCHANGED <<db, checked>>
  /\ \E f \in OnDisk(c), content \in Contents :
       /\ MayChange(c, f) /\ folder[c][f] # content
       /\ folder' = [folder EXCEPT ![c][f] = content]

\* add_file(), under a name that is free; transact() keeps a folder that was
\* checked so.
AddFile(c) ==
  /\ UserMay(c) /\ Edited /\ UNCHANGED checked
  /\ \E f \in Files \ OnDisk(c), content \in Contents :
       /\ folder' = [folder EXCEPT ![c][f] = content]
       /\ db' = IF f \in Known(c) /\ db[c][f].sha = content THEN db
                ELSE [db EXCEPT ![c] = Over(@, [g \in {f} |-> Dirty(content)])]

\* The function remove_files(), of a list: it ends at the first missing file.
Trashed(dir, list) ==
  {list[i] : i \in {j \in DOMAIN list : \A k \in 1..j : dir[list[k]] # Gone}}
FolderWithout(dir, list) == [f \in Files |-> IF f \in Trashed(dir, list) THEN Gone ELSE dir[f]]
\* MediaManager::remove_files(): their rows become deletions to be sent.
RowsWithout(rows, list) ==
  [f \in DOMAIN rows |-> IF f \in ToSet(list) THEN Deleted ELSE rows[f]]

TrashFiles(c) ==
  /\ UserMay(c) /\ Edited /\ UNCHANGED checked
  /\ \E f \in OnDisk(c) :
       /\ folder' = [folder EXCEPT ![c] = FolderWithout(@, <<f>>)]
       /\ db' = [db EXCEPT ![c] = RowsWithout(@, <<f>>)]

\* ChangeTracker::register_changes(): a row for each file that is new or differs,
\* and a deletion for each one missing.  Files that are empty, too large or not
\* normalized are no files here.
\* Seeded fault: a file that is missing is forgotten instead of noted as deleted.
RegisteredForgets(c) ==
  IF checked[c] THEN db[c]
  ELSE LET differs == {f \in OnDisk(c) : ~(f \in Known(c) /\ db[c][f].sha = folder[c][f])}
       IN Over(Without(db[c], Known(c) \ OnDisk(c)), [f \in differs |-> Dirty(folder[c][f])])
Registered(c) ==
  IF checked[c] THEN db[c]
  ELSE LET differs == {f \in OnDisk(c) : ~(f \in Known(c) /\ db[c][f].sha = folder[c][f])}
       IN Over(db[c], [f \in differs \cup (Known(c) \ OnDisk(c)) |->
                         IF f \in differs THEN Dirty(folder[c][f]) ELSE Deleted])

\* Importing or checking media registers changes, whatever the sync does.
RegisterChanges(c) ==
  /\ ~checked[c]
  /\ sess[c].pc = "upload" => "UserDuringUpload" \in Races
  /\ sess[c].pc \in {"changes", "download"} => "UserDuringDownload" \in Races
  /\ db' = [db EXCEPT ![c] = Registered(c)]
  /\ checked' = [checked EXCEPT ![c] = TRUE]
  /\ UNCHANGED <<folder, last_usn, sess, server, unlike, edits, faults>>

-----------------------------------------------------------------------------
(* One device's sync: MediaSyncer::sync_inner().                            *)

Goes(c, s) == sess' = [sess EXCEPT ![c] = s]

\* The server's USN is read by begin now, or was by the meta call of a collection
\* sync before: with Overlap other devices may have uploaded since.
ServerUsn(c) ==
  IF "Overlap" \in Races THEN last_usn[c]..server.last_usn ELSE {server.last_usn}

\* Devices send changes one after the other, unless Overlap lets them meet.
MaySend(c) ==
  "Overlap" \in Races \/ \A d \in Clients \ {c} : sess[d].pc \notin {"send", "upload"}

StartSync(c) ==
  /\ sess[c] = NoSync
  /\ db' = [db EXCEPT ![c] = Registered(c)]
  /\ checked' = [checked EXCEPT ![c] = TRUE]
  /\ \E server_usn \in ServerUsn(c) :
       \/ last_usn[c] # server_usn /\ Goes(c, [pc |-> "changes", usn |-> last_usn[c]])
       \/ /\ last_usn[c] = server_usn
          /\ IF \E f \in DOMAIN Registered(c) : Registered(c)[f].dirty
             THEN MaySend(c) /\ Goes(c, [pc |-> "send", acted |-> FALSE])
             ELSE Goes(c, NoSync)
  /\ UNCHANGED <<folder, last_usn, server, unlike, edits, faults>>

\* Seeded fault: what is pending here counts as the same as the server's.
RequiredChangeSame(c, f) ==
  LET remote == server.entries[f].sha  local == IF f \in DOMAIN db[c] THEN db[c][f].sha ELSE Gone
      pending == f \in PendingFiles(c)
  IN CASE remote # Gone /\ local # Gone /\ pending -> "RemovePending"
       [] remote # Gone /\ local # remote -> "Download"
       [] remote = Gone /\ f \in DOMAIN db[c] /\ (local = Gone \/ ~pending) -> "Delete"
       [] OTHER -> "None"
\* determine_required_change()
RequiredChange(c, f) ==
  LET remote == server.entries[f].sha  local == IF f \in DOMAIN db[c] THEN db[c][f].sha ELSE Gone
      pending == f \in PendingFiles(c)
  IN CASE remote # Gone /\ local # remote -> "Download"
       [] remote = Gone /\ f \in DOMAIN db[c] /\ (local = Gone \/ ~pending) -> "Delete"
       [] remote # Gone /\ local = remote /\ pending -> "RemovePending"
       [] OTHER -> "None"

\* media_changes_chunk(): in the order of the index on usn.
Usns == [f \in DOMAIN server.entries |-> server.entries[f].usn]
ChangesChunk(after_usn) ==
  FirstBy({f \in DOMAIN server.entries : Usns[f] > after_usn}, Usns, CHANGES_LIMIT)

RecordClean(rows, fnames) ==
  [f \in DOMAIN rows |-> IF f \in fnames THEN [rows[f] EXCEPT !.dirty = FALSE] ELSE rows[f]]

\* The transaction at the end of a batch: record_clean(), record_removals() and
\* record_additions().
RecordChanges(rows, s, got) ==
  Over(Without(RecordClean(rows, s.same), s.remove), [f \in DOMAIN got |-> Clean(got[f])])

\* The end of a batch: the next one is asked for.
Recorded(c, rows, s, got) ==
  /\ db' = [db EXCEPT ![c] = RecordChanges(rows, s, got)]
  /\ last_usn' = [last_usn EXCEPT ![c] = s.usn]
  /\ checked' = [checked EXCEPT ![c] = TRUE]
  /\ unlike' = unlike \ ({c} \X DOMAIN got)
  /\ Goes(c, [pc |-> "changes", usn |-> s.usn])

\* A batch of changes: files are removed at once, then the others are asked for.
FetchChanges(c) ==
  /\ sess[c].pc = "changes"
  /\ \E batch \in ChangesChunk(sess[c].usn) :
       LET Of(kind) == {f \in ToSet(batch) : RequiredChange(c, f) = kind}
       IN /\ batch # <<>>
          /\ \E removals \in AllBy(Of("Delete"), Usns, CHANGES_LIMIT),
                todo \in AllBy(Of("Download"), Usns, CHANGES_LIMIT) :
               LET removed == RowsWithout(db[c], removals)
                   s == [pc |-> "download", usn |-> Usns[Last(batch)], todo |-> todo,
                         remove |-> Of("Delete"), same |-> Of("RemovePending"), got |-> NoRows]
               IN /\ folder' = [folder EXCEPT ![c] = FolderWithout(@, removals)]
                  /\ \/ /\ todo # <<>>
                        /\ db' = [db EXCEPT ![c] = removed]
                        /\ Goes(c, s)
                        /\ UNCHANGED <<last_usn, checked, unlike>>
                     \/ todo = <<>> /\ Recorded(c, removed, s, NoRows)
  /\ UNCHANGED <<server, edits, faults>>

\* An empty batch: the device has them all.
NoMoreChanges(c) ==
  /\ sess[c].pc = "changes" /\ <<>> \in ChangesChunk(sess[c].usn)
  /\ IF PendingFiles(c) # {} THEN MaySend(c) /\ Goes(c, [pc |-> "send", acted |-> TRUE])
     ELSE Goes(c, [pc |-> "sanity"])
  /\ UNCHANGED <<folder, db, last_usn, checked, server, unlike, edits, faults>>

\* zip_files_for_download(): a conflict ends the sync when an entry has gone; an
\* entry whose file is missing is forgotten as well.
Missing(asked) == {f \in ToSet(asked) : f \in ServerFiles /\ server.folder[f] = Gone}
Forgotten(f) == [server EXCEPT !.entries = Without(@, {f}), !.count = Max({0, @ - 1})]

DownloadConflict(c) ==
  /\ sess[c].pc = "download"
  /\ LET asked == SubSeq(sess[c].todo, 1, Min({MAX_MEDIA_FILES_IN_ZIP, Len(sess[c].todo)}))
     IN \/ ~(ToSet(asked) \subseteq ServerFiles) /\ UNCHANGED server
        \/ /\ ToSet(asked) \subseteq ServerFiles
           /\ \E i \in DOMAIN asked :
                /\ asked[i] \in Missing(asked) /\ \A j \in 1..(i - 1) : asked[j] \notin Missing(asked)
                /\ server' = Forgotten(asked[i])
  /\ Goes(c, NoSync)
  /\ UNCHANGED <<folder, db, last_usn, checked, unlike, edits, faults>>

\* A zip with the first files asked for, as many as its size limit allows, is
\* extracted; after the last one the batch is recorded, with the folder's
\* modification time at that moment.
DownloadFiles(c) ==
  /\ sess[c].pc = "download"
  /\ \E n \in 1..Min({MAX_MEDIA_FILES_IN_ZIP, Len(sess[c].todo)}) :
       LET s == sess[c]
           zip == SubSeq(s.todo, 1, n)
           data == [f \in ToSet(zip) |-> server.folder[f]]
           got == Over(s.got, data)
           rest == SubSeq(s.todo, n + 1, Len(s.todo))
       IN /\ ToSet(zip) \subseteq ServerFiles /\ Missing(zip) = {}
          /\ folder' = [folder EXCEPT ![c] = Over(@, data)]
          /\ \/ /\ rest # <<>>
                /\ checked' = [checked EXCEPT ![c] = @ /\ ToSet(zip) \subseteq OnDisk(c)]
                /\ Goes(c, [s EXCEPT !.todo = rest, !.got = got])
                /\ UNCHANGED <<db, last_usn, unlike>>
             \/ rest = <<>> /\ Recorded(c, db[c], s, got)
  /\ UNCHANGED <<server, edits, faults>>

\* gather_zip_data_for_upload(): the content is read now; of a file that is not
\* there any more, as of one deleted before, the deletion is sent.  The zip may be
\* full before MAX_MEDIA_FILES_IN_ZIP files are in it.
Content(c, f) == IF db[c][f].sha = Gone THEN Gone ELSE folder[c][f]
SendChanges(c) ==
  /\ sess[c].pc = "send"
  /\ IF PendingFiles(c) # {}
     THEN \E n \in 1..MAX_MEDIA_FILES_IN_ZIP :
            \E names \in FirstBy(PendingFiles(c), [f \in Files |-> f], n) :
              Goes(c, [pc |-> "upload", names |-> names,
                       data |-> [f \in ToSet(names) |-> Content(c, f)],
                       unlike |-> {f \in ToSet(names) : Content(c, f) # db[c][f].sha}])
     ELSE Goes(c, IF sess[c].acted THEN [pc |-> "sanity"] ELSE NoSync)
  /\ UNCHANGED <<folder, db, last_usn, checked, server, unlike, edits, faults>>

\* register_uploaded_change(): what changes nothing takes no USN.
RegisterUpload(sv, f, content) ==
  LET held == IF f \in DOMAIN sv.entries THEN sv.entries[f].sha ELSE Gone
      usn == sv.last_usn + 1
  IN IF held = content THEN sv
     ELSE [entries |-> Over(sv.entries, [g \in {f} |-> [sha |-> content, usn |-> usn]]),
           last_usn |-> usn,
           count |-> IF content = Gone THEN Max({0, sv.count - 1})
                     ELSE IF held = Gone THEN sv.count + 1 ELSE sv.count,
           folder |-> [sv.folder EXCEPT ![f] = content]]
\* The server after each of the uploaded changes.
Uploading(names, data) ==
  LET after[n \in 0..Len(names)] ==
        IF n = 0 THEN server ELSE RegisterUpload(after[n - 1], names[n], data[names[n]])
  IN after
\* process_uploaded_changes(), one transaction.
Processed(s) == Uploading(s.names, s.data)[Len(s.names)]

\* Seeded fault: what was sent is counted, whatever the server says.
NextUsnCounted(c, cnt, current_usn) == last_usn[c] + cnt
\* The USN moves on when it seems that nobody else has changed anything.
NextUsn(c, cnt, current_usn) ==
  IF last_usn[c] + cnt = current_usn THEN current_usn ELSE last_usn[c]

UploadChanges(c) ==
  /\ sess[c].pc = "upload"
  /\ server' = Processed(sess[c])
  /\ db' = [db EXCEPT ![c] = RecordClean(@, ToSet(sess[c].names))]
  /\ last_usn' = [last_usn EXCEPT ![c] = NextUsn(c, Len(sess[c].names), server'.last_usn)]
  /\ unlike' = (unlike \ ({c} \X ToSet(sess[c].names))) \cup ({c} \X sess[c].unlike)
  /\ Goes(c, [pc |-> "send", acted |-> TRUE])
  /\ UNCHANGED <<folder, checked, edits, faults>>

\* finalize_sync(): when the counts differ, the media database is emptied.
SanityCheck(c) ==
  /\ sess[c].pc = "sanity"
  /\ Goes(c, NoSync)
  /\ IF Cardinality(Known(c)) = server.count THEN UNCHANGED <<db, last_usn, checked>>
     ELSE /\ db' = [db EXCEPT ![c] = NoRows]
          /\ last_usn' = [last_usn EXCEPT ![c] = 0]
          /\ checked' = [checked EXCEPT ![c] = FALSE]
  /\ UNCHANGED <<folder, server, unlike, edits, faults>>

-----------------------------------------------------------------------------
(* What may go wrong.                                                       *)

MayFail(kind) == kind \in Faults /\ faults < MaxFaults /\ faults' = faults + 1

\* The program ends, the user aborts, or a request fails on its way.
GiveUp(c) ==
  /\ MayFail("GiveUp") /\ sess[c] # NoSync
  /\ Goes(c, NoSync)
  /\ UNCHANGED <<folder, db, last_usn, checked, server, unlike, edits>>

\* An upload is processed, and its answer is lost.
AnswerLost(c) ==
  /\ MayFail("AnswerLost") /\ sess[c].pc = "upload"
  /\ server' = Processed(sess[c])
  /\ Goes(c, NoSync)
  /\ UNCHANGED <<folder, db, last_usn, checked, unlike, edits>>

\* The server writes and removes files, and dies before it commits.
ServerCrash(c) ==
  /\ MayFail("ServerCrash") /\ sess[c].pc = "upload"
  /\ \E n \in 1..Len(sess[c].names) :
       server' = [server EXCEPT !.folder = Uploading(sess[c].names, sess[c].data)[n].folder]
  /\ Goes(c, NoSync)
  /\ UNCHANGED <<folder, db, last_usn, checked, unlike, edits>>

SyncStep(c) ==
  \/ StartSync(c) \/ FetchChanges(c) \/ NoMoreChanges(c) \/ DownloadConflict(c) \/ DownloadFiles(c)
  \/ SendChanges(c) \/ UploadChanges(c) \/ SanityCheck(c)
UserStep(c) ==
  CopyIn(c) \/ TakeOut(c) \/ WriteOver(c) \/ AddFile(c) \/ TrashFiles(c) \/ RegisterChanges(c)
FaultStep(c) == GiveUp(c) \/ AnswerLost(c) \/ ServerCrash(c)

Next == \E c \in Clients : SyncStep(c) \/ UserStep(c) \/ FaultStep(c)

Spec == Init /\ [][Next]_vars

\* A sync that has begun goes on, and the program keeps starting new ones.
FairSpec == Spec /\ \A c \in Clients : WF_vars(SyncStep(c))

-----------------------------------------------------------------------------
(* Correctness.                                                             *)

\* A device's record of a file is what the server has.  A server that died may
\* hold a file newer than its entry.
RecordedSha(c, f) == IF f \in DOMAIN db[c] THEN db[c][f].sha ELSE Gone
Agrees(c, f) == RecordedSha(c, f) \in {server.entries[f].sha, server.folder[f]}

\* The USN a device notes skips no change (last_sync_usn in fetch_changes() and
\* send_changes()): of every file whose last change on the server it stands for,
\* the device records the server's version, or has a change of its own to send.
\* Excepted are files of which it sent something else than it had registered.
SeenIsKept ==
  \A c \in Clients : \A f \in DOMAIN server.entries :
    server.entries[f].usn <= last_usn[c] /\ <<c, f>> \notin unlike
      => f \in PendingFiles(c) \/ Agrees(c, f)

\* What the server has of a file.
StoredSha(f) == IF f \in DOMAIN server.entries THEN server.entries[f].sha ELSE Gone

\* "True if changed since last sync" (sync_required): a change registered on a
\* device stays marked until the server holds it (or what was found in its stead
\* when it was sent), or the server has a version the device had not seen, which it
\* has taken instead or has still to fetch, or the media database is emptied.
PendingUntilStored ==
  [][\A c \in Clients : \A f \in DOMAIN db[c] :
       (db[c][f].dirty /\ ~SanityCheck(c) /\ ~(f \in DOMAIN db'[c] /\ db'[c][f].dirty))
         => \/ db[c][f].sha = StoredSha(f)'
            \/ <<c, f>> \in unlike'
            \/ /\ f \in DOMAIN server'.entries /\ server'.entries[f].usn > last_usn[c]
               /\ Agrees(c, f)' \/ server'.entries[f].usn > last_usn'[c]]_vars

\* Once users stop changing files, repeated syncs bring every device's records
\* into agreement with the server's, with nothing left to send; the sanity
\* check does not make them start over for ever.  Only what the server forgot,
\* because its file was missing, may stay on a device (forget_missing_file()).
Converged ==
  \A c \in Clients :
    /\ PendingFiles(c) = {} /\ ServerFiles \subseteq Known(c)
    /\ \A f \in DOMAIN server.entries : Agrees(c, f)
Converges == <>[]Converged

\* "if the file doesn't exist, nothing to do" (media/files.rs): for that file.
\* The others on the list still go: a device that has recorded the deletion of a
\* file, and has not seen its folder change since, does not have the file.
RemovedFilesAreGone ==
  \A c \in Clients : \A f \in DOMAIN server.entries :
    (/\ sess[c] = NoSync /\ checked[c] /\ f \notin DOMAIN db[c]
     /\ server.entries[f].sha = Gone /\ server.entries[f].usn <= last_usn[c])
      => folder[c][f] = Gone

\* "True if changed since last sync" (sync_required), and of the files that are not
\* marked: the folder tells when one differs from the server's.
ChangesAreMarked ==
  \A c \in Clients : \A f \in DOMAIN server.entries :
    server.entries[f].usn <= last_usn[c]
      => f \in PendingFiles(c) \/ Agrees(c, f) \/ folder[c][f] # RecordedSha(c, f)
=============================================================================

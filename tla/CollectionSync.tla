---------------------------- MODULE CollectionSync ----------------------------
(***************************************************************************)
(* The normal collection sync of several devices with one server           *)
(* (rslib/src/sync/collection, rslib/src/sync/http_server).                *)
(*                                                                         *)
(* A client holds its collection's lock and a database transaction for the *)
(* whole sync and makes one HTTP call after the other; the server handles  *)
(* one call at a time.  A call is one step, in which the server's handler  *)
(* runs and the client goes on with the answer, or, when the answer is     *)
(* lost, rolls back.  Between calls anything may happen elsewhere.         *)
(*                                                                         *)
(* A version of an object is named by the moment it was made, its mtime is *)
(* that moment in seconds.  Cards stand for cards and notes (sent in       *)
(* chunks), decks for decks, presets and notetypes (sent whole).           *)
(***************************************************************************)
EXTENDS Integers, FiniteSets, Functions

CONSTANTS
  Clients,       \* devices
  Cards, Decks,  \* object ids
  NoClient,      \* no device
  NotGathered,   \* server_chunk_ids before the first call of chunk()
  CHUNK_SIZE,    \* objects sent in one request
  EditKinds,     \* what is done to a collection between syncs
  Faults,        \* what may go wrong, beyond a client giving up
  Overlap,       \* may another sync end between a client's meta and start?
  MsPerSec,      \* time stamps in one second
  MaxEdits,      \* bound: edits are made before this moment
  MaxNow         \* bound: time stamps handed out

Items == Cards \cup Decks

ASSUME NoClientAssumption == NoClient \notin Clients
ASSUME DisjointAssumption == Cards \cap Decks = {}
ASSUME NotGatheredAssumption ==
  \A ids \in SUBSET (({"revlog"} \X (1..MaxNow)) \cup ({"cards"} \X Cards)) : ids # NotGathered
ASSUME SizesAssumption == CHUNK_SIZE \in Nat \ {0} /\ MsPerSec \in Nat \ {0}
ASSUME BoundsAssumption == MaxNow \in Nat /\ MaxEdits \in 0..MaxNow
ASSUME KindsAssumption ==
  /\ EditKinds \subseteq {"Add", "Update", "Remove", "Review", "Config", "Schema", "Import", "Reset"}
  /\ Faults \subseteq {"LostAnswer", "ClientCrash", "ServerRestart", "FinishCrash"}
  /\ Overlap \in BOOLEAN

VARIABLES
  now,         \* the last time stamp handed out, in milliseconds
  col,         \* the collection of each client, as its connection sees it
  sess,        \* how far each client's sync has come
  disk,        \* the server's collection, as committed
  server_col,  \* the same, as the server's open connection sees it
  sync_state   \* User::sync_state, or NoSync

vars == <<now, col, sess, disk, server_col, sync_state>>

\* A collection: versions and USNs of objects, USNs of deletions and of review
\* log entries (named by their time), the config, the USN and the time stamps.
PENDING == -1
Row == [rev: 0..MaxNow, usn: Int]
PartialFunction(f, S, T) == DOMAIN f \subseteq S /\ f \in [DOMAIN f -> T]
IsCollection(d) ==
  /\ d \in [items : {d.items}, graves : {d.graves}, revlog : {d.revlog}, conf : 0..MaxNow,
            usn : Nat, mod : 0..MaxNow, ls : 0..MaxNow, scm : 0..MaxNow]
  /\ PartialFunction(d.items, Items, Row) /\ PartialFunction(d.graves, Items, Int)
  /\ PartialFunction(d.revlog, 1..MaxNow, Int)

Sec(t) == t \div MsPerSec

\* Entries of g are added to f, whether f has them or not; or only if it has not.
Replaced(f, g) == [i \in DOMAIN f \cup DOMAIN g |-> IF i \in DOMAIN g THEN g[i] ELSE f[i]]
Inserted(f, g) == Replaced(g, f)
Without(f, S) == Restrict(f, DOMAIN f \ S)

-----------------------------------------------------------------------------
(* Gathering what the other side has not seen.                              *)

\* Seeded fault: the boundary of "what has the client not seen" is off by one.
IsPendingStrict(usn, pending_usn) ==
  IF pending_usn = PENDING THEN usn = PENDING ELSE usn > pending_usn

\* Usn::is_pending_sync() and pending_object_clause(): -1 in the client's case.
IsPending(usn, pending_usn) ==
  IF pending_usn = PENDING THEN usn = PENDING ELSE usn >= pending_usn

PendingIn(f, pending_usn) == {i \in DOMAIN f : IsPending(f[i], pending_usn)}
PendingItems(c, ids, pending_usn) ==
  {i \in DOMAIN c.items \cap ids : IsPending(c.items[i].usn, pending_usn)}

\* get_chunkable_ids(): names of the rows to send, with their table.
ChunkableIds(c, pending_usn) ==
  ({"revlog"} \X PendingIn(c.revlog, pending_usn))
    \cup ({"cards"} \X PendingItems(c, Cards, pending_usn))
Ids(chunk, table) == {i[2] : i \in {x \in chunk : x[1] = table}}

\* take_chunk() and get_chunk(): everything left, if that is less than a chunk.
Chunks(ids) ==
  IF Cardinality(ids) < CHUNK_SIZE THEN {ids}
  ELSE {chunk \in SUBSET ids : Cardinality(chunk) = CHUNK_SIZE}
\* Seeded fault: a full chunk is taken for the last one.
DoneEarly(chunk) == Cardinality(chunk) <= CHUNK_SIZE
Done(chunk) == Cardinality(chunk) < CHUNK_SIZE

\* The client gives what it sends the USN the server had when it was asked.
Stamp(f, S, usn) == [i \in DOMAIN f |-> IF i \in S THEN usn ELSE f[i]]
\* Seeded fault: the USN of the client's own last sync is used.
StampItemsOld(c, S, usn) ==
  [c EXCEPT !.items = [i \in DOMAIN @ |-> IF i \in S THEN [@[i] EXCEPT !.usn = c.usn] ELSE @[i]]]
StampItems(c, S, usn) ==
  [c EXCEPT !.items = [i \in DOMAIN @ |-> IF i \in S THEN [@[i] EXCEPT !.usn = usn] ELSE @[i]]]
StampChunk(c, chunk, usn) ==
  [StampItems(c, Ids(chunk, "cards"), usn) EXCEPT !.revlog = Stamp(@, Ids(chunk, "revlog"), usn)]

-----------------------------------------------------------------------------
(* Merging what the other side has sent.                                    *)

\* apply_graves(): the deletion wins; an existing grave keeps its USN.
ApplyGraves(c, ids, usn) ==
  [c EXCEPT !.items = Without(@, ids), !.graves = Inserted(@, [i \in ids |-> usn])]

\* Seeded fault: a row is replaced without a look at its mtime.
MergeCardsAlways(c, rows, pending_usn) == [c EXCEPT !.items = Replaced(@, rows)]
\* add_or_update_card_if_newer(): a row changed on both sides keeps its newer
\* version; one that is not pending here takes the one received.
MergeCards(c, rows, pending_usn) ==
  LET proceed == {i \in DOMAIN rows :
                    i \in DOMAIN c.items =>
                      \/ ~IsPending(c.items[i].usn, pending_usn)
                      \/ Sec(c.items[i].rev) < Sec(rows[i].rev)}
  IN  [c EXCEPT !.items = Replaced(@, Restrict(rows, proceed))]

\* merge_decks(): whichever was changed last, the one received if in doubt.
MergeDecks(c, rows) ==
  LET proceed == {i \in DOMAIN rows :
                    i \in DOMAIN c.items => Sec(c.items[i].rev) <= Sec(rows[i].rev)}
  IN  [c EXCEPT !.items = Replaced(@, Restrict(rows, proceed))]

\* apply_chunk(): review log entries are only ever added.
MergeChunk(c, from, chunk, pending_usn) ==
  LET merged == MergeCards(c, Restrict(from.items, Ids(chunk, "cards")), pending_usn)
  IN  [merged EXCEPT !.revlog = Inserted(@, Restrict(from.revlog, Ids(chunk, "revlog")))]

-----------------------------------------------------------------------------
\* User::sync_state is None.
NoSync == [client |-> NoClient]

Idle == [pc |-> "idle"]
\* After an error the client still has to send abort, and then to force a full
\* sync if the sanity check is what failed.
Failed(sanity) == [pc |-> "failed", sanity |-> sanity]

Syncing(c) == sess[c].pc \notin {"idle", "failed"}
OwnSession(c) == sync_state.client = c

Init ==
  /\ now = 0
  /\ \E S \in SUBSET Items :
       disk = [items |-> [i \in S |-> [rev |-> 0, usn |-> 0]], graves |-> <<>>, revlog |-> <<>>,
               conf |-> 0, usn |-> 1, mod |-> 0, ls |-> 0, scm |-> 0]
  /\ server_col = disk /\ sync_state = NoSync
  /\ col = [c \in Clients |-> disk] /\ sess = [c \in Clients |-> Idle]

-----------------------------------------------------------------------------
(* What is done to a collection while it is not syncing: a transaction, which *)
(* marks what it changes as pending and stamps col.mod.                      *)

\* Seeded fault: an edit leaves col.mod as it is.
EditUnstamped(c, changed) ==
  /\ sess[c] = Idle /\ now < MaxEdits
  /\ now' = now + 1
  /\ col' = [col EXCEPT ![c] = changed]
  /\ UNCHANGED <<sess, disk, server_col, sync_state>>

Edit(c, changed) ==
  /\ sess[c] = Idle /\ now < MaxEdits
  /\ now' = now + 1
  /\ col' = [col EXCEPT ![c] = [changed EXCEPT !.mod = now + 1]]
  /\ UNCHANGED <<sess, disk, server_col, sync_state>>

\* Seeded fault: the mtime is in the wrong unit.
NewRowInMillis(i) == [j \in {i} |-> [rev |-> 1000 * (now + 1), usn |-> PENDING]]
NewRow(i) == [j \in {i} |-> [rev |-> now + 1, usn |-> PENDING]]
Known(c, i) == i \in DOMAIN c.items \/ i \in DOMAIN c.graves

\* The id of a new object is the time, and in use nowhere else.
AddItem(c, i) ==
  /\ "Add" \in EditKinds
  /\ ~Known(disk, i) /\ ~Known(server_col, i) /\ \A d \in Clients : ~Known(col[d], i)
  /\ Edit(c, [col[c] EXCEPT !.items = Replaced(@, NewRow(i))])

UpdateItem(c, i) ==
  /\ "Update" \in EditKinds /\ i \in DOMAIN col[c].items
  /\ Edit(c, [col[c] EXCEPT !.items = Replaced(@, NewRow(i))])

RemoveItem(c, i) ==
  /\ "Remove" \in EditKinds /\ i \in DOMAIN col[c].items
  /\ Edit(c, ApplyGraves(col[c], {i}, PENDING))

ReviewCard(c, i) ==
  /\ "Review" \in EditKinds /\ i \in DOMAIN col[c].items
  /\ Edit(c, [col[c] EXCEPT !.items = Replaced(@, NewRow(i)),
                            !.revlog = Inserted(@, [t \in {now + 1} |-> PENDING])])

\* Importing a package that was exported earlier brings a deleted card or note
\* back under its old id.  Decks get a new id.
ImportItem(c, i) ==
  /\ "Import" \in EditKinds /\ i \in DOMAIN col[c].graves \ DOMAIN col[c].items
  /\ Edit(c, [col[c] EXCEPT !.items = Replaced(@, [j \in {i} |-> [rev |-> 0, usn |-> PENDING]])])

\* mcat_reset_progress(): every card is new again and its reviews are forgotten,
\* for which there are no graves.
ResetProgress(c) ==
  /\ "Reset" \in EditKinds
  /\ LET reset == [i \in DOMAIN col[c].items \cap Cards |-> [rev |-> now + 1, usn |-> PENDING]]
     IN  Edit(c, [col[c] EXCEPT !.items = Replaced(@, reset), !.revlog = <<>>])

SetConfig(c) ==
  /\ "Config" \in EditKinds
  /\ Edit(c, [col[c] EXCEPT !.conf = now + 1])

SetSchemaModified(c) ==
  /\ "Schema" \in EditKinds
  /\ Edit(c, [col[c] EXCEPT !.scm = now + 1])

-----------------------------------------------------------------------------
(* The calls of a sync.                                                     *)

\* Seeded fault: the connection with its open transaction is kept.
AbortActiveKeepsCol == sync_state' = NoSync /\ UNCHANGED server_col
\* The server drops its connection, and with it the open transaction.
AbortActive == sync_state' = NoSync /\ server_col' = disk

\* The client has failed: it rolls its transaction back.
GiveUp(c, sanity) ==
  /\ col' = [col EXCEPT ![c] = sess[c].saved]
  /\ sess' = [sess EXCEPT ![c] = Failed(sanity)]

\* The client goes on with an answer, or the answer is lost.
Continue(c, lost, changed, next) ==
  IF lost THEN "LostAnswer" \in Faults /\ GiveUp(c, FALSE)
  ELSE /\ col' = [col EXCEPT ![c] = changed]
       /\ sess' = [sess EXCEPT ![c] = next]

\* sync_meta() on both sides and compared_to_remote().  When nothing or a full
\* sync is required, or the answer is lost, the client is done.
Meta(c) ==
  /\ sess[c] = Idle
  /\ AbortActive
  /\ \/ /\ disk.mod # col[c].mod /\ disk.scm = col[c].scm
        /\ sess' = [sess EXCEPT ![c] =
             [pc |-> "start", saved |-> col[c], newer |-> col[c].mod > disk.mod,
              server_usn |-> disk.usn, server_mod |-> disk.mod, todo |-> {}, remote |-> {}]]
     \/ /\ disk.mod = col[c].mod \/ disk.scm # col[c].scm \/ "LostAnswer" \in Faults
        /\ UNCHANGED sess
  /\ UNCHANGED <<now, col, disk>>

\* Seeded fault: the deletions of the server are dropped.
AfterGravesForgotten(c, changed, todo, remote) == changed
\* The client applies the server's deletions once all of its own are sent.
AfterGraves(c, changed, todo, remote) ==
  IF todo = {} THEN ApplyGraves(changed, remote, sess[c].server_usn) ELSE changed
GravesSession(c, todo, remote) ==
  [sess[c] EXCEPT !.pc = IF todo = {} THEN "changes" ELSE "graves",
                  !.todo = todo, !.remote = remote]

Start(c, lost) ==
  /\ sess[c].pc = "start"
  /\ Overlap \/ (sess[c].server_usn = disk.usn /\ sess[c].server_mod = disk.mod)
  /\ server_col' = disk
  /\ sync_state' = [client |-> c, server_usn |-> disk.usn, client_usn |-> col[c].usn,
                    client_is_newer |-> sess[c].newer, chunk_ids |-> NotGathered]
  /\ LET remote == PendingIn(disk.graves, col[c].usn)
         local == PendingIn(col[c].graves, PENDING)
         stamped == [col[c] EXCEPT !.graves = Stamp(@, local, sess[c].server_usn)]
     IN  Continue(c, lost, AfterGraves(c, stamped, local, remote), GravesSession(c, local, remote))
  /\ UNCHANGED <<now, disk>>

SendGraves(c, lost) ==
  /\ sess[c].pc = "graves" /\ OwnSession(c)
  /\ \E chunk \in Chunks(sess[c].todo) :
       /\ server_col' = ApplyGraves(server_col, chunk, sync_state.server_usn)
       /\ LET todo == sess[c].todo \ chunk
          IN  Continue(c, lost, AfterGraves(c, col[c], todo, sess[c].remote),
                       GravesSession(c, todo, sess[c].remote))
  /\ UNCHANGED <<now, disk, sync_state>>

\* Decks both ways, and the config from the side that changed last.  The server
\* gathers its changes before it applies the client's.
ApplyChanges(c, lost) ==
  /\ sess[c].pc = "changes" /\ OwnSession(c)
  /\ LET local == PendingItems(col[c], Decks, PENDING)
         sent == StampItems(col[c], local, sess[c].server_usn)
         remote == PendingItems(server_col, Decks, sync_state.client_usn)
         merged == MergeDecks(server_col, Restrict(sent.items, local))
         received == MergeDecks(sent, Restrict(server_col.items, remote))
     IN  /\ server_col' = IF sync_state.client_is_newer THEN [merged EXCEPT !.conf = col[c].conf]
                          ELSE merged
         /\ Continue(c, lost,
              IF sync_state.client_is_newer THEN received
              ELSE [received EXCEPT !.conf = server_col.conf],
              [sess[c] EXCEPT !.pc = "receive", !.remote = {}])
  /\ UNCHANGED <<now, disk, sync_state>>

ReceiveChunk(c, lost) ==
  /\ sess[c].pc = "receive" /\ OwnSession(c)
  /\ LET ids == IF sync_state.chunk_ids = NotGathered
                THEN ChunkableIds(server_col, sync_state.client_usn)
                ELSE sync_state.chunk_ids
     IN  \E chunk \in Chunks(ids) :
           LET merged == MergeChunk(col[c], server_col, chunk, PENDING)
           IN  /\ sync_state' = [sync_state EXCEPT !.chunk_ids = ids \ chunk]
               /\ Continue(c, lost, merged,
                    IF Done(chunk)
                    THEN [sess[c] EXCEPT !.pc = "send", !.todo = ChunkableIds(merged, PENDING)]
                    ELSE sess[c])
  /\ UNCHANGED <<now, disk, server_col>>

SendChunk(c, lost) ==
  /\ sess[c].pc = "send" /\ OwnSession(c)
  /\ \E chunk \in Chunks(sess[c].todo) :
       LET sent == StampChunk(col[c], chunk, sess[c].server_usn)
       IN  /\ server_col' = MergeChunk(server_col, sent, chunk, sync_state.client_usn)
           /\ Continue(c, lost, sent,
                [sess[c] EXCEPT !.pc = IF Done(chunk) THEN "sanity" ELSE "send",
                                !.todo = @ \ chunk])
  /\ UNCHANGED <<now, disk, sync_state>>

\* sanity_check_info(): an error if a row is still pending, else the row counts.
HasPending(c) ==
  PendingItems(c, Items, PENDING) # {} \/ PendingIn(c.graves, PENDING) # {}
    \/ PendingIn(c.revlog, PENDING) # {}
Counts(c) ==
  [cards |-> Cardinality(DOMAIN c.items \cap Cards),
   decks |-> Cardinality(DOMAIN c.items \cap Decks), revlog |-> Cardinality(DOMAIN c.revlog)]
\* Seeded fault: the counts are not compared.
SaneUncounted(c) == ~HasPending(server_col)
Sane(c) ==
  /\ ~HasPending(server_col) /\ Counts(col[c]) = Counts(server_col)

\* When the check fails the server drops its connection but not sync_state.
SanityCheck(c, lost) ==
  /\ sess[c].pc = "sanity" /\ OwnSession(c) /\ ~HasPending(col[c])
  /\ server_col' = IF Sane(c) THEN server_col ELSE disk
  /\ IF Sane(c) \/ lost THEN Continue(c, lost, col[c], [sess[c] EXCEPT !.pc = "finish"])
     ELSE GiveUp(c, TRUE)
  /\ UNCHANGED <<now, disk, sync_state>>

\* server_finish() up to its commit; the modification time is set after that.
ServerFinish(t) == [server_col EXCEPT !.ls = t, !.usn = @ + 1]

\* The client commits when it has the answer.
Finish(c, lost) ==
  /\ sess[c].pc = "finish" /\ OwnSession(c) /\ now < MaxNow
  /\ now' = now + 1
  /\ disk' = [ServerFinish(now + 1) EXCEPT !.mod = now + 1]
  /\ server_col' = disk' /\ sync_state' = NoSync
  /\ Continue(c, lost,
       [col[c] EXCEPT !.ls = now + 1, !.usn = sess[c].server_usn + 1, !.mod = now + 1], Idle)

-----------------------------------------------------------------------------
(* What can go wrong.                                                       *)

\* A request is lost or refused (another sync has started), a row is still
\* pending before the sanity check, or the user cancels.
Fail(c) ==
  /\ Syncing(c)
  /\ GiveUp(c, FALSE)
  /\ UNCHANGED <<now, disk, server_col, sync_state>>

\* The client sends abort, which may not arrive.  The server aborts whatever
\* sync is active.
Abort(c, arrives) ==
  /\ sess[c].pc = "failed"
  /\ IF arrives THEN AbortActive ELSE UNCHANGED <<server_col, sync_state>>
  /\ IF sess[c].sanity
     THEN /\ now < MaxNow /\ now' = now + 1
          /\ col' = [col EXCEPT ![c].scm = now + 1]
     ELSE UNCHANGED <<now, col>>
  /\ sess' = [sess EXCEPT ![c] = Idle]
  /\ UNCHANGED disk

ClientCrash(c) ==
  /\ "ClientCrash" \in Faults /\ Syncing(c)
  /\ col' = [col EXCEPT ![c] = sess[c].saved] /\ sess' = [sess EXCEPT ![c] = Idle]
  /\ UNCHANGED <<now, disk, server_col, sync_state>>

ServerRestart ==
  /\ "ServerRestart" \in Faults /\ sync_state # NoSync
  /\ AbortActive
  /\ UNCHANGED <<now, col, sess, disk>>

\* The server dies in server_finish(), between the commit and set_modified_time().
FinishCrash(c) ==
  /\ "FinishCrash" \in Faults /\ now < MaxNow
  /\ sess[c].pc = "finish" /\ OwnSession(c)
  /\ now' = now + 1
  /\ disk' = ServerFinish(now + 1)
  /\ server_col' = disk' /\ sync_state' = NoSync
  /\ GiveUp(c, FALSE)

-----------------------------------------------------------------------------
(* One-way sync, when the schemas differ.                                   *)

FullSyncRequired(c) == sess[c] = Idle /\ col[c].mod # disk.mod /\ col[c].scm # disk.scm

\* before_upload(): nothing is pending any more.
BeforeUpload(d, t) ==
  LET cleared == StampItems(d, Decks \cup PendingItems(d, Cards, PENDING), 0)
  IN  [cleared EXCEPT !.graves = <<>>, !.revlog = Stamp(@, PendingIn(@, PENDING), 0),
                      !.usn = @ + 1, !.scm = t, !.ls = t, !.mod = t]

\* The new schema time makes every other device download what is sent.  If the
\* request does not arrive, the client has only changed its own.
Upload(c, arrives) ==
  /\ FullSyncRequired(c) /\ now < MaxNow
  /\ now' = now + 1
  /\ LET file == BeforeUpload(col[c], now + 1)
     IN  /\ col' = [col EXCEPT ![c] = file]
         /\ IF arrives THEN disk' = file /\ server_col' = file /\ sync_state' = NoSync
            ELSE UNCHANGED <<disk, server_col, sync_state>>
  /\ UNCHANGED sess

\* server_download() is a transaction that increments the server's USN.
Download(c, lost) ==
  /\ FullSyncRequired(c) /\ now < MaxNow
  /\ now' = now + 1
  /\ disk' = [disk EXCEPT !.usn = @ + 1, !.mod = now + 1]
  /\ server_col' = disk' /\ sync_state' = NoSync
  /\ IF lost THEN "LostAnswer" \in Faults /\ UNCHANGED col
     ELSE col' = [col EXCEPT ![c] = [disk' EXCEPT !.ls = now + 1]]
  /\ UNCHANGED sess

-----------------------------------------------------------------------------
Edits(c) ==
  \/ \E i \in Items : AddItem(c, i) \/ UpdateItem(c, i) \/ RemoveItem(c, i)
  \/ \E i \in Cards : ReviewCard(c, i) \/ ImportItem(c, i)
  \/ ResetProgress(c) \/ SetConfig(c) \/ SetSchemaModified(c)

Calls(c, lost) ==
  \/ Start(c, lost) \/ SendGraves(c, lost) \/ ApplyChanges(c, lost) \/ ReceiveChunk(c, lost)
  \/ SendChunk(c, lost) \/ SanityCheck(c, lost) \/ Finish(c, lost)

Next ==
  \/ \E c \in Clients : Edits(c) \/ Meta(c) \/ Fail(c) \/ ClientCrash(c) \/ FinishCrash(c)
  \/ \E c \in Clients, lost \in BOOLEAN : Calls(c, lost) \/ Download(c, lost)
  \/ \E c \in Clients, arrives \in BOOLEAN : Abort(c, arrives) \/ Upload(c, arrives)
  \/ ServerRestart

Spec == Init /\ [][Next]_vars

\* The server refuses a call of a client whose sync is no longer the active one.
Refused(c) == sess[c].pc # "start" /\ ~OwnSession(c) /\ Fail(c)

\* A device makes its next call, and the user syncs again after a failure.
Fairness ==
  \A c \in Clients :
    /\ WF_vars(Meta(c)) /\ WF_vars(Abort(c, TRUE)) /\ WF_vars(Refused(c))
    /\ WF_vars(Start(c, FALSE)) /\ WF_vars(SendGraves(c, FALSE)) /\ WF_vars(ApplyChanges(c, FALSE))
    /\ WF_vars(ReceiveChunk(c, FALSE)) /\ WF_vars(SendChunk(c, FALSE))
    /\ WF_vars(SanityCheck(c, FALSE)) /\ WF_vars(Finish(c, FALSE))

FairSpec == Spec /\ Fairness

-----------------------------------------------------------------------------
(* Properties.                                                              *)

SessionState ==
  [client : Clients, server_usn : Nat, client_usn : Nat, client_is_newer : BOOLEAN,
   chunk_ids : {NotGathered} \cup SUBSET (({"revlog"} \X (1..MaxNow)) \cup ({"cards"} \X Cards))]

\* The types of the variables.
TypeOK ==
  /\ now \in 0..MaxNow
  /\ DOMAIN col = Clients /\ \A c \in Clients : IsCollection(col[c])
  /\ IsCollection(disk) /\ IsCollection(server_col)
  /\ sync_state \in SessionState \cup {NoSync}
  /\ \A c \in Clients :
       \/ sess[c] \in {Idle, Failed(TRUE), Failed(FALSE)}
       \/ IsCollection(sess[c].saved) /\ sess[c].remote \subseteq Items

\* What a client would be left with if it stopped now.
Durable(c) == IF Syncing(c) THEN sess[c].saved ELSE col[c]
SameSchema(c) == Durable(c).scm = disk.scm
Content(d) ==
  [items |-> [i \in DOMAIN d.items |-> d.items[i].rev], revlog |-> DOMAIN d.revlog, conf |-> d.conf]

\* Uncommitted changes on the server always belong to the active sync, which
\* stamps them with the USN of the committed collection: User::sync_state and
\* the transaction of User::col never drift apart (user.rs:39-65).
SessionExclusive ==
  /\ sync_state = NoSync => server_col = disk
  /\ sync_state # NoSync => sync_state.server_usn = disk.usn /\ server_col.usn = disk.usn

\* Every row the server has committed carries a USN below the one it gives out
\* next, and no client that may sync normally has seen a later one: rows a
\* client has not seen can be found by "usn >= client_usn", also after full
\* syncs have set the server's USN back (storage/sync.rs, upload.rs).
UsnOrder ==
  /\ \A i \in DOMAIN disk.items : disk.items[i].usn < disk.usn
  /\ \A i \in DOMAIN disk.graves : disk.graves[i] < disk.usn
  /\ \A t \in DOMAIN disk.revlog : disk.revlog[t] < disk.usn
  /\ \A c \in Clients : SameSchema(c) => Durable(c).usn <= disk.usn

\* Whatever the server has and a client lacks, the next sync will send: it has a
\* USN the client has not seen, or the client has a pending change of its own.
NothingMissed ==
  \A c \in Clients :
    LET d == Durable(c)
        changed == PendingItems(d, Items, PENDING) \cup PendingIn(d.graves, PENDING)
    IN  SameSchema(c) =>
          /\ \A i \in DOMAIN disk.items \ changed :
               \/ disk.items[i].usn >= d.usn
               \/ i \in DOMAIN d.items /\ d.items[i].rev = disk.items[i].rev
          /\ \A i \in DOMAIN disk.graves \ changed :
               i \in DOMAIN d.items => disk.graves[i] >= d.usn
          /\ \A t \in DOMAIN disk.revlog \ DOMAIN d.revlog : disk.revlog[t] >= d.usn

\* What a client no longer holds as pending the server has: that version of the
\* object or a later one, its deletion, the review.  A client that gives up or
\* dies at any call must not have dropped its pending marks (normal.rs:94-103).
SyncedIsDurable ==
  \A c \in Clients :
    LET d == Durable(c)
    IN  SameSchema(c) =>
          /\ \A i \in DOMAIN d.items :
               \/ d.items[i].usn = PENDING \/ i \in DOMAIN disk.graves
               \/ i \in DOMAIN disk.items /\ disk.items[i].rev >= d.items[i].rev
          /\ \A i \in DOMAIN d.graves : d.graves[i] # PENDING => i \notin DOMAIN disk.items
          /\ \A t \in DOMAIN d.revlog : d.revlog[t] # PENDING => t \in DOMAIN disk.revlog

\* No change of either side is lost, through failures, full syncs and restarts:
\* what one has and the other lacks is still due to be sent (normal.rs, user.rs).
NothingLost == UsnOrder /\ NothingMissed /\ SyncedIsDurable

\* An object that is deleted on one side is not brought back by an edit of it on
\* the other: deletions are exchanged before anything else (start.rs:55-69).
NoResurrection ==
  /\ DOMAIN disk.items \cap DOMAIN disk.graves = {}
  /\ \A c \in Clients : DOMAIN Durable(c).items \cap DOMAIN Durable(c).graves = {}

\* When the sanity check is reached, both sides hold the same objects in the same
\* versions, the same reviews and config, and nothing is pending: much more than
\* the counts the check compares (sanity.rs:84-117), and it never fails.
SyncConverges ==
  \A c \in Clients :
    sess[c].pc \in {"sanity", "finish"} /\ OwnSession(c) =>
      Content(col[c]) = Content(server_col) /\ ~HasPending(col[c]) /\ ~HasPending(server_col)

\* Even where changes do get lost (a deletion after an import, stale USNs), no
\* sync is committed that leaves the two sides with different numbers of objects
\* or with something pending: the server's answer to the sanity check still
\* holds when finish arrives (sanity.rs:85-117).
SanityGuards ==
  \A c \in Clients :
    sess[c].pc = "finish" /\ OwnSession(c) =>
      Counts(col[c]) = Counts(server_col) /\ ~HasPending(col[c]) /\ ~HasPending(server_col)

\* Two collections with the same modification time are equal, which is all that
\* compared_to_remote() looks at to skip the sync (meta.rs:60-90).
UpToDate ==
  \A c \in Clients :
    sess[c] = Idle /\ col[c].scm = disk.scm /\ col[c].mod = disk.mod =>
      Content(col[c]) = Content(disk) /\ ~HasPending(col[c])

\* A sync never leaves an older version of an object behind than there was, on
\* the server or on the client, whatever order devices edit and sync in:
\* "the state it was when it was most recently answered" (chunks.rs:162-217).
NoneOlder(d, e) ==
  d.scm = e.scm =>
    \A i \in DOMAIN d.items \cap DOMAIN e.items : Sec(d.items[i].rev) <= Sec(e.items[i].rev)
NewestKept ==
  [][NoneOlder(disk, disk') /\ \A c \in Clients : NoneOlder(Durable(c), Durable(c)')]_vars

\* A client whose syncs fail, which crashes or finds the server restarted, still
\* gets its changes to the server once that has stopped happening.
FaultsEnd == <>[][~(ServerRestart \/ \E c \in Clients : Fail(c) \/ ClientCrash(c))]_vars
PendingIsSent ==
  FaultsEnd => \A c \in Clients : HasPending(Durable(c)) ~> ~HasPending(Durable(c))

\* "an abort request with the wrong key is ignored": a client that gives up ends
\* no sync but its own.
AbortIgnoresOthers ==
  [][\A c \in Clients :
       sess[c].pc = "failed" /\ sess'[c] = Idle => OwnSession(c) \/ UNCHANGED sync_state]_vars

=============================================================================

------------------------- MODULE CollectionSyncProofs -------------------------
(***************************************************************************)
(* What the normal sync of CollectionSync keeps and what it leaves behind, *)
(* for every value of its constants.                                       *)
(*                                                                         *)
(* The first part: SessionExclusive, TypeOK and SanityGuards.  The second: *)
(* no deletion is undone, no change is lost, and both sides end up equal.  *)
(***************************************************************************)
EXTENDS CollectionSync, TLAPS

HasUsn(d) == "usn" \in DOMAIN d

\* A session under way has saved the collection it started from.
GoodSession(s) ==
  s.pc \notin {"idle", "failed"} =>
    "pc" \in DOMAIN s /\ "saved" \in DOMAIN s /\ HasUsn(s.saved)

\* The clients' part of the invariant, and the server's.
ClientsOk ==
  /\ DOMAIN col = Clients /\ DOMAIN sess = Clients
  /\ \A c \in Clients : HasUsn(col[c]) /\ GoodSession(sess[c])
ServerOk ==
  /\ HasUsn(disk) /\ HasUsn(server_col)
  /\ sync_state # NoSync =>
       DOMAIN sync_state = {"client", "server_usn", "client_usn", "client_is_newer", "chunk_ids"}
  /\ SessionExclusive
SessionInv == ClientsOk /\ ServerOk

LEMMA GravesKeepUsn ==
  ASSUME NEW d, NEW ids, NEW usn, HasUsn(d)
  PROVE  HasUsn(ApplyGraves(d, ids, usn)) /\ ApplyGraves(d, ids, usn).usn = d.usn
BY DEF HasUsn, ApplyGraves

LEMMA StampItemsKeepsUsn ==
  ASSUME NEW d, NEW S, NEW usn, HasUsn(d)
  PROVE  HasUsn(StampItems(d, S, usn)) /\ StampItems(d, S, usn).usn = d.usn
BY DEF HasUsn, StampItems

LEMMA StampChunkKeepsUsn ==
  ASSUME NEW d, NEW chunk, NEW usn, HasUsn(d)
  PROVE  HasUsn(StampChunk(d, chunk, usn)) /\ StampChunk(d, chunk, usn).usn = d.usn
BY StampItemsKeepsUsn DEF HasUsn, StampChunk

LEMMA MergeCardsKeepsUsn ==
  ASSUME NEW d, NEW rows, NEW usn, HasUsn(d)
  PROVE  HasUsn(MergeCards(d, rows, usn)) /\ MergeCards(d, rows, usn).usn = d.usn
BY DEF HasUsn, MergeCards

LEMMA MergeDecksKeepsUsn ==
  ASSUME NEW d, NEW rows, HasUsn(d)
  PROVE  HasUsn(MergeDecks(d, rows)) /\ MergeDecks(d, rows).usn = d.usn
BY DEF HasUsn, MergeDecks

LEMMA MergeChunkKeepsUsn ==
  ASSUME NEW d, NEW from, NEW chunk, NEW usn, HasUsn(d)
  PROVE  HasUsn(MergeChunk(d, from, chunk, usn)) /\ MergeChunk(d, from, chunk, usn).usn = d.usn
BY MergeCardsKeepsUsn DEF HasUsn, MergeChunk

LEMMA BeforeUploadHasUsn ==
  ASSUME NEW d, NEW t, HasUsn(d)
  PROVE  HasUsn(BeforeUpload(d, t))
BY StampItemsKeepsUsn DEF HasUsn, BeforeUpload

-----------------------------------------------------------------------------
(* The clients' part.                                                        *)

LEMMA GiveUpOk ==
  ASSUME ClientsOk, NEW c \in Clients, Syncing(c), NEW sanity, GiveUp(c, sanity)
  PROVE  ClientsOk'
BY DEF ClientsOk, Syncing, GiveUp, GoodSession, Failed

LEMMA ContinueOk ==
  ASSUME ClientsOk, NEW c \in Clients, Syncing(c), NEW lost, NEW changed, NEW next,
         HasUsn(changed), GoodSession(next), Continue(c, lost, changed, next)
  PROVE  ClientsOk'
<1>1. CASE lost
  BY <1>1, GiveUpOk DEF Continue
<1>2. CASE ~lost
  BY <1>2 DEF Continue, ClientsOk
<1>3. QED
  BY <1>1, <1>2

LEMMA EditOk ==
  ASSUME ClientsOk, NEW c \in Clients, NEW changed, HasUsn(changed), Edit(c, changed)
  PROVE  ClientsOk'
BY DEF ClientsOk, Edit, HasUsn

LEMMA EditsOk ==
  ASSUME ClientsOk, NEW c \in Clients, Edits(c)
  PROVE  ClientsOk' /\ UNCHANGED <<disk, server_col, sync_state>>
<1>0. HasUsn(col[c])
  BY DEF ClientsOk
<1>1. ASSUME NEW i, AddItem(c, i) PROVE ClientsOk' /\ UNCHANGED <<disk, server_col, sync_state>>
  <2>1. HasUsn([col[c] EXCEPT !.items = Replaced(@, NewRow(i))])
    BY <1>0 DEF HasUsn
  <2>2. QED
    BY <1>1, <2>1, EditOk DEF AddItem, Edit
<1>2. ASSUME NEW i, UpdateItem(c, i) PROVE ClientsOk' /\ UNCHANGED <<disk, server_col, sync_state>>
  <2>1. HasUsn([col[c] EXCEPT !.items = Replaced(@, NewRow(i))])
    BY <1>0 DEF HasUsn
  <2>2. QED
    BY <1>2, <2>1, EditOk DEF UpdateItem, Edit
<1>3. ASSUME NEW i, RemoveItem(c, i) PROVE ClientsOk' /\ UNCHANGED <<disk, server_col, sync_state>>
  BY <1>0, <1>3, EditOk, GravesKeepUsn DEF RemoveItem, Edit
<1>4. ASSUME NEW i, ReviewCard(c, i) PROVE ClientsOk' /\ UNCHANGED <<disk, server_col, sync_state>>
  <2>1. HasUsn([col[c] EXCEPT !.items = Replaced(@, NewRow(i)),
                              !.revlog = Inserted(@, [t \in {now + 1} |-> PENDING])])
    BY <1>0 DEF HasUsn
  <2>2. QED
    BY <1>4, <2>1, EditOk DEF ReviewCard, Edit
<1>5. ASSUME NEW i, ImportItem(c, i) PROVE ClientsOk' /\ UNCHANGED <<disk, server_col, sync_state>>
  <2>1. HasUsn([col[c] EXCEPT !.items = Replaced(@, [j \in {i} |-> [rev |-> 0, usn |-> PENDING]])])
    BY <1>0 DEF HasUsn
  <2>2. QED
    BY <1>5, <2>1, EditOk DEF ImportItem, Edit
<1>6. ASSUME ResetProgress(c) PROVE ClientsOk' /\ UNCHANGED <<disk, server_col, sync_state>>
  <2> DEFINE reset == [i \in DOMAIN col[c].items \cap Cards |-> [rev |-> now + 1, usn |-> PENDING]]
  <2>1. HasUsn([col[c] EXCEPT !.items = Replaced(@, reset), !.revlog = <<>>])
    BY <1>0 DEF HasUsn
  <2>2. QED
    BY <1>6, <2>1, EditOk DEF ResetProgress, Edit
<1>7. ASSUME SetConfig(c) PROVE ClientsOk' /\ UNCHANGED <<disk, server_col, sync_state>>
  <2>1. HasUsn([col[c] EXCEPT !.conf = now + 1])
    BY <1>0 DEF HasUsn
  <2>2. QED
    BY <1>7, <2>1, EditOk DEF SetConfig, Edit
<1>8. ASSUME SetSchemaModified(c) PROVE ClientsOk' /\ UNCHANGED <<disk, server_col, sync_state>>
  <2>1. HasUsn([col[c] EXCEPT !.scm = now + 1])
    BY <1>0 DEF HasUsn
  <2>2. QED
    BY <1>8, <2>1, EditOk DEF SetSchemaModified, Edit
<1>9. QED
  BY <1>1, <1>2, <1>3, <1>4, <1>5, <1>6, <1>7, <1>8 DEF Edits

\* A session that goes on is still one that has saved its collection.
LEMMA SessionGoesOn ==
  ASSUME ClientsOk, NEW c \in Clients, Syncing(c)
  PROVE  /\ HasUsn(col[c]) /\ GoodSession(sess[c])
         /\ \A pc, remote : GoodSession([sess[c] EXCEPT !.pc = pc, !.remote = remote])
         /\ \A pc, todo : GoodSession([sess[c] EXCEPT !.pc = pc, !.todo = todo])
         /\ \A todo, remote : GoodSession(GravesSession(c, todo, remote))
BY DEF ClientsOk, Syncing, GoodSession, HasUsn, GravesSession

LEMMA AfterGravesHasUsn ==
  ASSUME NEW c, NEW d, NEW todo, NEW remote, HasUsn(d)
  PROVE  HasUsn(AfterGraves(c, d, todo, remote))
BY GravesKeepUsn DEF AfterGraves

LEMMA CallsClientsOk ==
  ASSUME ClientsOk, NEW c \in Clients, NEW lost, Calls(c, lost)
  PROVE  ClientsOk'
<1>1. CASE Start(c, lost)
  <2> DEFINE remote == PendingIn(disk.graves, col[c].usn)
             local == PendingIn(col[c].graves, PENDING)
             stamped == [col[c] EXCEPT !.graves = Stamp(@, local, sess[c].server_usn)]
  <2>1. Syncing(c)
    BY <1>1 DEF Start, Syncing
  <2>2. HasUsn(stamped)
    BY DEF ClientsOk, HasUsn
  <2>3. Continue(c, lost, AfterGraves(c, stamped, local, remote), GravesSession(c, local, remote))
    BY <1>1 DEF Start
  <2> HIDE DEF remote, local, stamped
  <2>4. HasUsn(AfterGraves(c, stamped, local, remote)) /\ GoodSession(GravesSession(c, local, remote))
    BY <2>1, <2>2, SessionGoesOn, AfterGravesHasUsn
  <2>5. QED
    BY <2>1, <2>3, <2>4, ContinueOk
<1>2. CASE SendGraves(c, lost)
  <2>1. Syncing(c)
    BY <1>2 DEF SendGraves, Syncing
  <2>2. PICK todo :
          Continue(c, lost, AfterGraves(c, col[c], todo, sess[c].remote),
                   GravesSession(c, todo, sess[c].remote))
    BY <1>2 DEF SendGraves
  <2>3. /\ HasUsn(AfterGraves(c, col[c], todo, sess[c].remote))
        /\ GoodSession(GravesSession(c, todo, sess[c].remote))
    BY <2>1, SessionGoesOn, AfterGravesHasUsn
  <2>4. QED
    BY <2>1, <2>2, <2>3, ContinueOk
<1>3. CASE ApplyChanges(c, lost)
  <2> DEFINE local == PendingItems(col[c], Decks, PENDING)
             sent == StampItems(col[c], local, sess[c].server_usn)
             remote == PendingItems(server_col, Decks, sync_state.client_usn)
             received == MergeDecks(sent, Restrict(server_col.items, remote))
             changed == IF sync_state.client_is_newer THEN received
                        ELSE [received EXCEPT !.conf = server_col.conf]
             next == [sess[c] EXCEPT !.pc = "receive", !.remote = {}]
  <2>1. Syncing(c)
    BY <1>3 DEF ApplyChanges, Syncing
  <2>2. Continue(c, lost, changed, next)
    BY <1>3 DEF ApplyChanges
  <2>3. HasUsn(received)
    BY <2>1, SessionGoesOn, StampItemsKeepsUsn, MergeDecksKeepsUsn
  <2>4. GoodSession(next)
    BY <2>1, SessionGoesOn
  <2> HIDE DEF local, sent, remote, received, next
  <2>5. HasUsn(changed)
    BY <2>3 DEF HasUsn
  <2> HIDE DEF changed
  <2>6. QED
    BY <2>1, <2>2, <2>4, <2>5, ContinueOk
<1>4. CASE ReceiveChunk(c, lost)
  <2>1. Syncing(c)
    BY <1>4 DEF ReceiveChunk, Syncing
  <2>2. PICK chunk :
          LET merged == MergeChunk(col[c], server_col, chunk, PENDING)
          IN  Continue(c, lost, merged,
                IF Done(chunk)
                THEN [sess[c] EXCEPT !.pc = "send", !.todo = ChunkableIds(merged, PENDING)]
                ELSE sess[c])
    BY <1>4 DEF ReceiveChunk
  <2>3. HasUsn(MergeChunk(col[c], server_col, chunk, PENDING))
    BY <2>1, SessionGoesOn, MergeChunkKeepsUsn
  <2>4. GoodSession(IF Done(chunk)
                    THEN [sess[c] EXCEPT !.pc = "send",
                            !.todo = ChunkableIds(MergeChunk(col[c], server_col, chunk, PENDING), PENDING)]
                    ELSE sess[c])
    BY <2>1, SessionGoesOn
  <2>5. QED
    BY <2>1, <2>2, <2>3, <2>4, ContinueOk
<1>5. CASE SendChunk(c, lost)
  <2>1. Syncing(c)
    BY <1>5 DEF SendChunk, Syncing
  <2>2. PICK chunk :
          Continue(c, lost, StampChunk(col[c], chunk, sess[c].server_usn),
            [sess[c] EXCEPT !.pc = IF Done(chunk) THEN "sanity" ELSE "send", !.todo = @ \ chunk])
    BY <1>5 DEF SendChunk
  <2>3. HasUsn(StampChunk(col[c], chunk, sess[c].server_usn))
    BY <2>1, SessionGoesOn, StampChunkKeepsUsn
  <2>4. GoodSession([sess[c] EXCEPT !.pc = IF Done(chunk) THEN "sanity" ELSE "send",
                                    !.todo = @ \ chunk])
    BY <2>1, SessionGoesOn
  <2>5. QED
    BY <2>1, <2>2, <2>3, <2>4, ContinueOk
<1>6. CASE SanityCheck(c, lost)
  <2>1. Syncing(c)
    BY <1>6 DEF SanityCheck, Syncing
  <2>2. \/ GiveUp(c, TRUE)
        \/ Continue(c, lost, col[c], [sess[c] EXCEPT !.pc = "finish"])
    BY <1>6 DEF SanityCheck
  <2>3. GoodSession([sess[c] EXCEPT !.pc = "finish"]) /\ HasUsn(col[c])
    BY <2>1 DEF ClientsOk, GoodSession, Syncing
  <2>4. QED
    BY <2>1, <2>2, <2>3, ContinueOk, GiveUpOk
<1>7. CASE Finish(c, lost)
  <2> DEFINE changed == [col[c] EXCEPT !.ls = now + 1, !.usn = sess[c].server_usn + 1, !.mod = now + 1]
  <2>1. Syncing(c) /\ Continue(c, lost, changed, Idle)
    BY <1>7 DEF Finish, Syncing
  <2>2. HasUsn(changed)
    BY DEF ClientsOk, HasUsn
  <2> HIDE DEF changed
  <2>3. GoodSession(Idle)
    BY DEF GoodSession, Idle
  <2>4. QED
    BY <2>1, <2>2, <2>3, ContinueOk
<1>8. QED
  BY <1>1, <1>2, <1>3, <1>4, <1>5, <1>6, <1>7 DEF Calls

-----------------------------------------------------------------------------
(* The server's part.                                                        *)

\* Changing the server's connection within a client's own session.
LEMMA ChangeOk ==
  ASSUME ServerOk, NEW c \in Clients, OwnSession(c), HasUsn(server_col'),
         server_col'.usn = server_col.usn, UNCHANGED <<disk, sync_state>>
  PROVE  ServerOk'
BY NoClientAssumption DEF ServerOk, OwnSession, NoSync, SessionExclusive, HasUsn

\* Dropping the connection, with or without the session.
LEMMA DropOk ==
  ASSUME ServerOk, UNCHANGED disk, server_col' = disk, sync_state' \in {sync_state, NoSync}
  PROVE  ServerOk'
BY DEF ServerOk, SessionExclusive, HasUsn

\* Committing a new collection and ending the session.
LEMMA CommitOk ==
  ASSUME HasUsn(disk'), server_col' = disk', sync_state' = NoSync
  PROVE  ServerOk'
BY DEF ServerOk, SessionExclusive, HasUsn

LEMMA FinishedHasUsn ==
  ASSUME NEW t, HasUsn(server_col)
  PROVE  HasUsn(ServerFinish(t)) /\ HasUsn([ServerFinish(t) EXCEPT !.mod = t])
BY DEF HasUsn, ServerFinish

LEMMA CallsServerOk ==
  ASSUME SessionInv, NEW c \in Clients, NEW lost, Calls(c, lost)
  PROVE  ServerOk'
<1>0. ServerOk /\ HasUsn(server_col) /\ HasUsn(col[c])
  BY DEF SessionInv, ServerOk, ClientsOk
<1>1. CASE Start(c, lost)
  BY <1>0, <1>1 DEF Start, ServerOk, SessionExclusive, HasUsn
<1>2. CASE SendGraves(c, lost)
  <2>1. PICK chunk : server_col' = ApplyGraves(server_col, chunk, sync_state.server_usn)
    BY <1>2 DEF SendGraves
  <2>2. QED
    BY <1>0, <1>2, <2>1, GravesKeepUsn, ChangeOk DEF SendGraves
<1>3. CASE ApplyChanges(c, lost)
  <2>1. PICK rows : server_col' \in {MergeDecks(server_col, rows),
                                    [MergeDecks(server_col, rows) EXCEPT !.conf = col[c].conf]}
    BY <1>3 DEF ApplyChanges
  <2>2. HasUsn(server_col') /\ server_col'.usn = server_col.usn
    BY <1>0, <2>1, MergeDecksKeepsUsn DEF HasUsn
  <2>3. QED
    BY <1>0, <1>3, <2>2, ChangeOk DEF ApplyChanges
<1>4. CASE ReceiveChunk(c, lost)
  <2>1. PICK ids : sync_state' = [sync_state EXCEPT !.chunk_ids = ids]
    BY <1>4 DEF ReceiveChunk
  <2>2. UNCHANGED <<disk, server_col>> /\ sync_state.client = c
    BY <1>4 DEF ReceiveChunk, OwnSession
  <2>3. sync_state # NoSync
    BY <2>2, NoClientAssumption DEF NoSync
  <2>4. DOMAIN sync_state' = DOMAIN sync_state /\ sync_state'.client = c
        /\ sync_state'.server_usn = sync_state.server_usn
    BY <1>0, <2>1, <2>2, <2>3 DEF ServerOk
  <2>5. sync_state' # NoSync
    BY <2>4, NoClientAssumption DEF NoSync
  <2>6. QED
    BY <1>0, <2>2, <2>3, <2>4, <2>5 DEF ServerOk, SessionExclusive, HasUsn
<1>5. CASE SendChunk(c, lost)
  <2>1. PICK sent, chunk : server_col' = MergeChunk(server_col, sent, chunk, sync_state.client_usn)
    BY <1>5 DEF SendChunk
  <2>2. QED
    BY <1>0, <1>5, <2>1, MergeChunkKeepsUsn, ChangeOk DEF SendChunk
<1>6. CASE SanityCheck(c, lost)
  <2>1. UNCHANGED <<disk, sync_state>> /\ OwnSession(c) /\ server_col' \in {server_col, disk}
    BY <1>6 DEF SanityCheck
  <2>2. CASE server_col' = server_col
    BY <1>0, <2>1, <2>2 DEF ServerOk, SessionExclusive, HasUsn
  <2>3. CASE server_col' = disk
    BY <1>0, <2>1, <2>3, DropOk
  <2>4. QED
    BY <2>1, <2>2, <2>3
<1>7. CASE Finish(c, lost)
  BY <1>0, <1>7, FinishedHasUsn, CommitOk DEF Finish
<1>8. QED
  BY <1>1, <1>2, <1>3, <1>4, <1>5, <1>6, <1>7 DEF Calls

-----------------------------------------------------------------------------

LEMMA SessionInvInit == Init => SessionInv
BY DEF Init, SessionInv, ClientsOk, ServerOk, SessionExclusive, HasUsn, GoodSession, Idle

LEMMA SessionInvStep ==
  ASSUME SessionInv, [Next]_vars
  PROVE  SessionInv'
<1>0. ClientsOk /\ ServerOk
  BY DEF SessionInv
<1>1. ASSUME NEW c \in Clients, Edits(c) PROVE SessionInv'
  BY <1>0, <1>1, EditsOk DEF SessionInv, ServerOk, SessionExclusive, HasUsn
<1>2. ASSUME NEW c \in Clients, NEW lost, Calls(c, lost) PROVE SessionInv'
  BY <1>0, <1>2, CallsClientsOk, CallsServerOk DEF SessionInv
<1>3. ASSUME NEW c \in Clients, Meta(c) PROVE SessionInv'
  <2>1. ServerOk'
    BY <1>0, <1>3, DropOk DEF Meta, AbortActive
  <2>2. ClientsOk'
    BY <1>0, <1>3 DEF Meta, ClientsOk, GoodSession, HasUsn
  <2>3. QED
    BY <2>1, <2>2 DEF SessionInv
<1>4. ASSUME NEW c \in Clients, Fail(c) PROVE SessionInv'
  <2>1. ServerOk'
    BY <1>0, <1>4 DEF Fail, ServerOk, SessionExclusive, HasUsn
  <2>2. QED
    BY <1>0, <1>4, <2>1, GiveUpOk DEF Fail, SessionInv
<1>5. ASSUME NEW c \in Clients, NEW arrives, Abort(c, arrives) PROVE SessionInv'
  <2>1. ServerOk'
    <3>1. CASE arrives
      BY <1>0, <1>5, <3>1, DropOk DEF Abort, AbortActive
    <3>2. CASE ~arrives
      BY <1>0, <1>5, <3>2 DEF Abort, ServerOk, SessionExclusive, HasUsn
    <3>3. QED
      BY <3>1, <3>2
  <2>2. ClientsOk'
    BY <1>0, <1>5 DEF Abort, ClientsOk, GoodSession, HasUsn, Idle
  <2>3. QED
    BY <2>1, <2>2 DEF SessionInv
<1>6. ASSUME NEW c \in Clients, ClientCrash(c) PROVE SessionInv'
  <2>1. ServerOk'
    BY <1>0, <1>6 DEF ClientCrash, ServerOk, SessionExclusive, HasUsn
  <2>2. ClientsOk'
    BY <1>0, <1>6 DEF ClientCrash, ClientsOk, GoodSession, Syncing, HasUsn, Idle
  <2>3. QED
    BY <2>1, <2>2 DEF SessionInv
<1>7. ASSUME ServerRestart PROVE SessionInv'
  <2>1. ClientsOk'
    BY <1>0, <1>7 DEF ServerRestart, ClientsOk, GoodSession, HasUsn
  <2>2. QED
    BY <1>0, <1>7, <2>1, DropOk DEF ServerRestart, AbortActive, SessionInv
<1>8. ASSUME NEW c \in Clients, FinishCrash(c) PROVE SessionInv'
  <2>1. HasUsn(server_col) /\ Syncing(c)
    BY <1>0, <1>8 DEF ServerOk, FinishCrash, Syncing
  <2>2. ServerOk'
    BY <1>8, <2>1, FinishedHasUsn, CommitOk DEF FinishCrash
  <2>3. ClientsOk'
    BY <1>0, <1>8, <2>1, GiveUpOk DEF FinishCrash
  <2>4. QED
    BY <2>2, <2>3 DEF SessionInv
<1>9. ASSUME NEW c \in Clients, NEW arrives, Upload(c, arrives) PROVE SessionInv'
  <2> DEFINE file == BeforeUpload(col[c], now + 1)
  <2>1. HasUsn(file)
    BY <1>0, BeforeUploadHasUsn DEF ClientsOk
  <2>2. /\ col' = [col EXCEPT ![c] = file] /\ UNCHANGED sess
        /\ \/ disk' = file /\ server_col' = file /\ sync_state' = NoSync
           \/ UNCHANGED <<disk, server_col, sync_state>>
    BY <1>9 DEF Upload
  <2> HIDE DEF file
  <2>3. ClientsOk'
    BY <1>0, <2>1, <2>2 DEF ClientsOk
  <2>4. ServerOk'
    <3>1. CASE disk' = file /\ server_col' = file /\ sync_state' = NoSync
      BY <2>1, <3>1, CommitOk DEF HasUsn
    <3>2. CASE UNCHANGED <<disk, server_col, sync_state>>
      BY <1>0, <3>2 DEF ServerOk, SessionExclusive, HasUsn
    <3>3. QED
      BY <2>2, <3>1, <3>2
  <2>5. QED
    BY <2>3, <2>4 DEF SessionInv
<1>10. ASSUME NEW c \in Clients, NEW lost, Download(c, lost) PROVE SessionInv'
  <2>1. HasUsn(disk')
    BY <1>0, <1>10 DEF Download, ServerOk, HasUsn
  <2>2. ServerOk'
    BY <1>10, <2>1, CommitOk DEF Download
  <2>3. HasUsn([disk' EXCEPT !.ls = now + 1])
    BY <2>1 DEF HasUsn
  <2>4. /\ UNCHANGED sess
        /\ UNCHANGED col \/ col' = [col EXCEPT ![c] = [disk' EXCEPT !.ls = now + 1]]
    BY <1>10 DEF Download
  <2>5. ClientsOk'
    BY <1>0, <2>3, <2>4 DEF ClientsOk
  <2>6. QED
    BY <2>2, <2>5 DEF SessionInv
<1>11. CASE UNCHANGED vars
  BY <1>0, <1>11 DEF vars, SessionInv, ClientsOk, ServerOk, SessionExclusive, GoodSession, HasUsn
<1>12. QED
  BY <1>1, <1>2, <1>3, <1>4, <1>5, <1>6, <1>7, <1>8, <1>9, <1>10, <1>11 DEF Next

\* SessionInv, which adds to SessionExclusive only that the records keep their
\* fields, is an inductive invariant of the protocol.
THEOREM SessionInvariant == Spec => []SessionInv
BY SessionInvInit, SessionInvStep, PTL DEF Spec

\* For any number of devices, objects and edits, any chunk size and all faults:
\* what the server has not committed belongs to its one active sync, which counts
\* from the USN of the committed collection, whichever calls of whichever clients
\* abort it, fail in it or come late.
THEOREM SessionsAreExclusive == Spec => []SessionExclusive
<1>1. SessionInv => SessionExclusive
  BY DEF SessionInv, ServerOk
<1>2. QED
  BY <1>1, SessionInvariant, PTL

-----------------------------------------------------------------------------
(* What the messages do to collections, field by field.                      *)

Fields == {"items", "graves", "revlog", "conf", "usn", "mod", "ls", "scm"}

LEMMA CollectionFields ==
  ASSUME NEW d, IsCollection(d)
  PROVE  /\ d = [items |-> d.items, graves |-> d.graves, revlog |-> d.revlog, conf |-> d.conf,
                 usn |-> d.usn, mod |-> d.mod, ls |-> d.ls, scm |-> d.scm]
         /\ DOMAIN d = Fields
         /\ PartialFunction(d.items, Items, Row) /\ PartialFunction(d.graves, Items, Int)
         /\ PartialFunction(d.revlog, 1..MaxNow, Int)
         /\ d.conf \in 0..MaxNow /\ d.usn \in Nat /\ d.mod \in 0..MaxNow /\ d.ls \in 0..MaxNow
         /\ d.scm \in 0..MaxNow
BY DEF IsCollection, Fields

-----------------------------------------------------------------------------
(* Partial functions.                                                        *)

LEMMA ReplacedPartial ==
  ASSUME NEW S, NEW T, NEW f, NEW g, PartialFunction(f, S, T), PartialFunction(g, S, T)
  PROVE  PartialFunction(Replaced(f, g), S, T) /\ PartialFunction(Inserted(f, g), S, T)
BY DEF PartialFunction, Replaced, Inserted

LEMMA EmptyPartial ==
  ASSUME NEW S, NEW T
  PROVE  PartialFunction(<<>>, S, T) /\ DOMAIN <<>> = {}
BY DEF PartialFunction

LEMMA ConstantPartial ==
  ASSUME NEW S, NEW T, NEW R \in SUBSET S, NEW v \in T
  PROVE  PartialFunction([j \in R |-> v], S, T)
BY DEF PartialFunction

LEMMA RestrictPartial ==
  ASSUME NEW S, NEW T, NEW f, NEW R, PartialFunction(f, S, T), R \subseteq DOMAIN f
  PROVE  PartialFunction(Restrict(f, R), S, T) /\ DOMAIN Restrict(f, R) = R
BY DEF PartialFunction, Restrict

LEMMA WithoutPartial ==
  ASSUME NEW S, NEW T, NEW f, NEW R, PartialFunction(f, S, T)
  PROVE  PartialFunction(Without(f, R), S, T) /\ DOMAIN Without(f, R) = DOMAIN f \ R
BY DEF PartialFunction, Restrict, Without

LEMMA StampPartial ==
  ASSUME NEW S, NEW f, NEW R, NEW usn \in Int, PartialFunction(f, S, Int)
  PROVE  PartialFunction(Stamp(f, R, usn), S, Int) /\ DOMAIN Stamp(f, R, usn) = DOMAIN f
BY DEF PartialFunction, Stamp

-----------------------------------------------------------------------------
(* The operators keep collections collections.                               *)

LEMMA ApplyGravesType ==
  ASSUME NEW d, IsCollection(d), NEW ids \in SUBSET Items, NEW usn \in Int
  PROVE  /\ IsCollection(ApplyGraves(d, ids, usn))
         /\ ApplyGraves(d, ids, usn).items = Without(d.items, ids)
         /\ ApplyGraves(d, ids, usn).graves = Inserted(d.graves, [i \in ids |-> usn])
         /\ ApplyGraves(d, ids, usn)
              = [items |-> Without(d.items, ids), graves |-> Inserted(d.graves, [i \in ids |-> usn]),
                 revlog |-> d.revlog, conf |-> d.conf, usn |-> d.usn, mod |-> d.mod,
                 ls |-> d.ls, scm |-> d.scm]
<1> DEFINE items == Without(d.items, ids)
           graves == Inserted(d.graves, [i \in ids |-> usn])
<1> DEFINE added == [i \in ids |-> usn]
<1>1. PartialFunction(items, Items, Row) /\ PartialFunction(graves, Items, Int)
  <2>1. PartialFunction(added, Items, Int)
    BY DEF PartialFunction
  <2> HIDE DEF added
  <2>2. QED
    BY <2>1, CollectionFields, WithoutPartial, ReplacedPartial DEF added
<1>2. ApplyGraves(d, ids, usn)
        = [items |-> items, graves |-> graves, revlog |-> d.revlog, conf |-> d.conf,
           usn |-> d.usn, mod |-> d.mod, ls |-> d.ls, scm |-> d.scm]
  <2> HIDE DEF items, graves
  <2>1. ApplyGraves(d, ids, usn) = [d EXCEPT !.items = items, !.graves = graves]
    BY DEF ApplyGraves, items, graves
  <2>2. QED
    BY ZenonT(60), <2>1, CollectionFields
<1> HIDE DEF items, graves
<1>3. IsCollection(ApplyGraves(d, ids, usn))
  BY <1>1, <1>2, CollectionFields DEF IsCollection
<1>4. QED
  BY <1>2, <1>3 DEF items, graves

LEMMA WithItems ==
  ASSUME NEW d, IsCollection(d), NEW items, PartialFunction(items, Items, Row)
  PROVE  /\ IsCollection([d EXCEPT !.items = items])
         /\ [d EXCEPT !.items = items]
              = [items |-> items, graves |-> d.graves, revlog |-> d.revlog, conf |-> d.conf,
                 usn |-> d.usn, mod |-> d.mod, ls |-> d.ls, scm |-> d.scm]
<1>1. [d EXCEPT !.items = items]
        = [items |-> items, graves |-> d.graves, revlog |-> d.revlog, conf |-> d.conf,
                 usn |-> d.usn, mod |-> d.mod, ls |-> d.ls, scm |-> d.scm]
  BY CollectionFields
<1>2. QED
  BY <1>1, CollectionFields DEF IsCollection

LEMMA WithRevlog ==
  ASSUME NEW d, IsCollection(d), NEW revlog, PartialFunction(revlog, 1..MaxNow, Int)
  PROVE  /\ IsCollection([d EXCEPT !.revlog = revlog])
         /\ [d EXCEPT !.revlog = revlog]
              = [items |-> d.items, graves |-> d.graves, revlog |-> revlog, conf |-> d.conf,
                 usn |-> d.usn, mod |-> d.mod, ls |-> d.ls, scm |-> d.scm]
<1>1. [d EXCEPT !.revlog = revlog]
        = [items |-> d.items, graves |-> d.graves, revlog |-> revlog, conf |-> d.conf,
                 usn |-> d.usn, mod |-> d.mod, ls |-> d.ls, scm |-> d.scm]
  BY CollectionFields
<1>2. QED
  BY <1>1, CollectionFields DEF IsCollection

LEMMA WithGraves ==
  ASSUME NEW d, IsCollection(d), NEW graves, PartialFunction(graves, Items, Int)
  PROVE  /\ IsCollection([d EXCEPT !.graves = graves])
         /\ [d EXCEPT !.graves = graves]
              = [items |-> d.items, graves |-> graves, revlog |-> d.revlog, conf |-> d.conf,
                 usn |-> d.usn, mod |-> d.mod, ls |-> d.ls, scm |-> d.scm]
<1>1. [d EXCEPT !.graves = graves]
        = [items |-> d.items, graves |-> graves, revlog |-> d.revlog, conf |-> d.conf,
                 usn |-> d.usn, mod |-> d.mod, ls |-> d.ls, scm |-> d.scm]
  BY CollectionFields
<1>2. QED
  BY <1>1, CollectionFields DEF IsCollection

LEMMA WithConf ==
  ASSUME NEW d, IsCollection(d), NEW conf \in 0..MaxNow
  PROVE  /\ IsCollection([d EXCEPT !.conf = conf])
         /\ [d EXCEPT !.conf = conf]
              = [items |-> d.items, graves |-> d.graves, revlog |-> d.revlog, conf |-> conf,
                 usn |-> d.usn, mod |-> d.mod, ls |-> d.ls, scm |-> d.scm]
<1>1. [d EXCEPT !.conf = conf]
        = [items |-> d.items, graves |-> d.graves, revlog |-> d.revlog, conf |-> conf,
                 usn |-> d.usn, mod |-> d.mod, ls |-> d.ls, scm |-> d.scm]
  BY CollectionFields
<1>2. QED
  BY <1>1, CollectionFields DEF IsCollection

LEMMA WithUsn ==
  ASSUME NEW d, IsCollection(d), NEW usn \in Nat
  PROVE  /\ IsCollection([d EXCEPT !.usn = usn])
         /\ [d EXCEPT !.usn = usn]
              = [items |-> d.items, graves |-> d.graves, revlog |-> d.revlog, conf |-> d.conf,
                 usn |-> usn, mod |-> d.mod, ls |-> d.ls, scm |-> d.scm]
<1>1. [d EXCEPT !.usn = usn]
        = [items |-> d.items, graves |-> d.graves, revlog |-> d.revlog, conf |-> d.conf,
                 usn |-> usn, mod |-> d.mod, ls |-> d.ls, scm |-> d.scm]
  BY CollectionFields
<1>2. QED
  BY <1>1, CollectionFields DEF IsCollection

LEMMA WithMod ==
  ASSUME NEW d, IsCollection(d), NEW mod \in 0..MaxNow
  PROVE  /\ IsCollection([d EXCEPT !.mod = mod])
         /\ [d EXCEPT !.mod = mod]
              = [items |-> d.items, graves |-> d.graves, revlog |-> d.revlog, conf |-> d.conf,
                 usn |-> d.usn, mod |-> mod, ls |-> d.ls, scm |-> d.scm]
<1>1. [d EXCEPT !.mod = mod]
        = [items |-> d.items, graves |-> d.graves, revlog |-> d.revlog, conf |-> d.conf,
                 usn |-> d.usn, mod |-> mod, ls |-> d.ls, scm |-> d.scm]
  BY CollectionFields
<1>2. QED
  BY <1>1, CollectionFields DEF IsCollection

LEMMA WithLs ==
  ASSUME NEW d, IsCollection(d), NEW ls \in 0..MaxNow
  PROVE  /\ IsCollection([d EXCEPT !.ls = ls])
         /\ [d EXCEPT !.ls = ls]
              = [items |-> d.items, graves |-> d.graves, revlog |-> d.revlog, conf |-> d.conf,
                 usn |-> d.usn, mod |-> d.mod, ls |-> ls, scm |-> d.scm]
<1>1. [d EXCEPT !.ls = ls]
        = [items |-> d.items, graves |-> d.graves, revlog |-> d.revlog, conf |-> d.conf,
                 usn |-> d.usn, mod |-> d.mod, ls |-> ls, scm |-> d.scm]
  BY CollectionFields
<1>2. QED
  BY <1>1, CollectionFields DEF IsCollection

LEMMA WithScm ==
  ASSUME NEW d, IsCollection(d), NEW scm \in 0..MaxNow
  PROVE  /\ IsCollection([d EXCEPT !.scm = scm])
         /\ [d EXCEPT !.scm = scm]
              = [items |-> d.items, graves |-> d.graves, revlog |-> d.revlog, conf |-> d.conf,
                 usn |-> d.usn, mod |-> d.mod, ls |-> d.ls, scm |-> scm]
<1>1. [d EXCEPT !.scm = scm]
        = [items |-> d.items, graves |-> d.graves, revlog |-> d.revlog, conf |-> d.conf,
                 usn |-> d.usn, mod |-> d.mod, ls |-> d.ls, scm |-> scm]
  BY CollectionFields
<1>2. QED
  BY <1>1, CollectionFields DEF IsCollection

\* Versions after a stamp.
Stamped(items, S, usn) ==
  [i \in DOMAIN items |-> IF i \in S THEN [items[i] EXCEPT !.usn = usn] ELSE items[i]]

LEMMA StampedPartial ==
  ASSUME NEW items, PartialFunction(items, Items, Row), NEW S, NEW usn \in Int
  PROVE  /\ PartialFunction(Stamped(items, S, usn), Items, Row)
         /\ DOMAIN Stamped(items, S, usn) = DOMAIN items
         /\ \A i \in DOMAIN items : Stamped(items, S, usn)[i].rev = items[i].rev
         /\ \A i \in DOMAIN items : i \in S => Stamped(items, S, usn)[i].usn = usn
         /\ \A i \in DOMAIN items : i \notin S => Stamped(items, S, usn)[i] = items[i]
BY DEF PartialFunction, Stamped, Row

LEMMA StampItemsType ==
  ASSUME NEW d, IsCollection(d), NEW S, NEW usn \in Int
  PROVE  /\ IsCollection(StampItems(d, S, usn))
         /\ StampItems(d, S, usn)
              = [items |-> Stamped(d.items, S, usn), graves |-> d.graves, revlog |-> d.revlog,
                 conf |-> d.conf, usn |-> d.usn, mod |-> d.mod, ls |-> d.ls, scm |-> d.scm]
<1> DEFINE items == Stamped(d.items, S, usn)
<1>1. StampItems(d, S, usn) = [d EXCEPT !.items = items]
  BY CollectionFields DEF StampItems, Stamped, Fields
<1>2. PartialFunction(items, Items, Row)
  BY CollectionFields, StampedPartial
<1> HIDE DEF items
<1>3. QED
  BY <1>1, <1>2, WithItems DEF items

LEMMA StampChunkType ==
  ASSUME NEW d, IsCollection(d), NEW chunk, NEW usn \in Int
  PROVE  /\ IsCollection(StampChunk(d, chunk, usn))
         /\ StampChunk(d, chunk, usn)
              = [items |-> Stamped(d.items, Ids(chunk, "cards"), usn), graves |-> d.graves,
                 revlog |-> Stamp(d.revlog, Ids(chunk, "revlog"), usn),
                 conf |-> d.conf, usn |-> d.usn, mod |-> d.mod, ls |-> d.ls, scm |-> d.scm]
<1> DEFINE e == StampItems(d, Ids(chunk, "cards"), usn)
           revlog == Stamp(e.revlog, Ids(chunk, "revlog"), usn)
<1>1. StampChunk(d, chunk, usn) = [e EXCEPT !.revlog = revlog]
  BY StampItemsType, CollectionFields DEF StampChunk, Fields
<1>2. /\ IsCollection(e) /\ e.revlog = d.revlog /\ e.items = Stamped(d.items, Ids(chunk, "cards"), usn)
      /\ e.graves = d.graves /\ e.conf = d.conf /\ e.usn = d.usn /\ e.mod = d.mod /\ e.ls = d.ls
      /\ e.scm = d.scm
  BY StampItemsType
<1> HIDE DEF e
<1>3. PartialFunction(revlog, 1..MaxNow, Int)
  BY <1>2, CollectionFields, StampPartial
<1>4. revlog = Stamp(d.revlog, Ids(chunk, "revlog"), usn)
  BY <1>2
<1> HIDE DEF revlog
<1>5. /\ IsCollection([e EXCEPT !.revlog = revlog])
      /\ [e EXCEPT !.revlog = revlog]
            = [items |-> e.items, graves |-> e.graves, revlog |-> revlog, conf |-> e.conf,
               usn |-> e.usn, mod |-> e.mod, ls |-> e.ls, scm |-> e.scm]
  BY <1>2, <1>3, WithRevlog
<1>6. QED
  BY <1>1, <1>2, <1>4, <1>5

\* Which of the rows received are taken, of cards and of decks.
TakenCards(items, rows, pending_usn) ==
  {i \in DOMAIN rows : i \in DOMAIN items =>
     ~IsPending(items[i].usn, pending_usn) \/ Sec(items[i].rev) < Sec(rows[i].rev)}
TakenDecks(items, rows) ==
  {i \in DOMAIN rows : i \in DOMAIN items => Sec(items[i].rev) <= Sec(rows[i].rev)}

LEMMA MergeCardsType ==
  ASSUME NEW d, IsCollection(d), NEW rows, PartialFunction(rows, Items, Row), NEW pending_usn
  PROVE  /\ IsCollection(MergeCards(d, rows, pending_usn))
         /\ MergeCards(d, rows, pending_usn)
              = [items |-> Replaced(d.items, Restrict(rows, TakenCards(d.items, rows, pending_usn))),
                 graves |-> d.graves, revlog |-> d.revlog,
                 conf |-> d.conf, usn |-> d.usn, mod |-> d.mod, ls |-> d.ls, scm |-> d.scm]
<1> DEFINE taken == TakenCards(d.items, rows, pending_usn)
           items == Replaced(d.items, Restrict(rows, taken))
<1>1. MergeCards(d, rows, pending_usn) = [d EXCEPT !.items = items]
  BY CollectionFields DEF MergeCards, TakenCards, Fields
<1>2. PartialFunction(items, Items, Row)
  <2>1. taken \subseteq DOMAIN rows
    BY DEF TakenCards
  <2> HIDE DEF taken
  <2>2. QED
    BY <2>1, CollectionFields, RestrictPartial, ReplacedPartial
<1> HIDE DEF items
<1>3. QED
  BY <1>1, <1>2, WithItems DEF items

LEMMA MergeDecksType ==
  ASSUME NEW d, IsCollection(d), NEW rows, PartialFunction(rows, Items, Row)
  PROVE  /\ IsCollection(MergeDecks(d, rows))
         /\ MergeDecks(d, rows)
              = [items |-> Replaced(d.items, Restrict(rows, TakenDecks(d.items, rows))),
                 graves |-> d.graves, revlog |-> d.revlog,
                 conf |-> d.conf, usn |-> d.usn, mod |-> d.mod, ls |-> d.ls, scm |-> d.scm]
<1> DEFINE taken == TakenDecks(d.items, rows)
           items == Replaced(d.items, Restrict(rows, taken))
<1>1. MergeDecks(d, rows) = [d EXCEPT !.items = items]
  BY CollectionFields DEF MergeDecks, TakenDecks, Fields
<1>2. PartialFunction(items, Items, Row)
  <2>1. taken \subseteq DOMAIN rows
    BY DEF TakenDecks
  <2> HIDE DEF taken
  <2>2. QED
    BY <2>1, CollectionFields, RestrictPartial, ReplacedPartial
<1> HIDE DEF items
<1>3. QED
  BY <1>1, <1>2, WithItems DEF items

\* The names in a chunk are those of rows of the collection it was gathered from.
Holds(d, ids) == ids \subseteq ({"revlog"} \X DOMAIN d.revlog) \cup ({"cards"} \X (DOMAIN d.items \cap Cards))

LEMMA HoldsIds ==
  ASSUME NEW d, NEW ids, Holds(d, ids)
  PROVE  /\ Ids(ids, "cards") \subseteq DOMAIN d.items \cap Cards
         /\ Ids(ids, "revlog") \subseteq DOMAIN d.revlog
<1>1. ASSUME NEW x \in ids, x[1] = "cards" PROVE x[2] \in DOMAIN d.items \cap Cards
  BY <1>1 DEF Holds
<1>2. ASSUME NEW x \in ids, x[1] = "revlog" PROVE x[2] \in DOMAIN d.revlog
  BY <1>2 DEF Holds
<1>3. QED
  BY <1>1, <1>2 DEF Ids

\* What a chunk brings.
CardRows(from, chunk) == Restrict(from.items, Ids(chunk, "cards"))
RevlogRows(from, chunk) == Restrict(from.revlog, Ids(chunk, "revlog"))

LEMMA MergeChunkType ==
  ASSUME NEW d, IsCollection(d), NEW from, IsCollection(from), NEW chunk, Holds(from, chunk),
         NEW pending_usn
  PROVE  /\ IsCollection(MergeChunk(d, from, chunk, pending_usn))
         /\ MergeChunk(d, from, chunk, pending_usn)
              = [items |-> Replaced(d.items, Restrict(CardRows(from, chunk),
                             TakenCards(d.items, CardRows(from, chunk), pending_usn))),
                 graves |-> d.graves, revlog |-> Inserted(d.revlog, RevlogRows(from, chunk)),
                 conf |-> d.conf, usn |-> d.usn, mod |-> d.mod, ls |-> d.ls, scm |-> d.scm]
<1> DEFINE rows == CardRows(from, chunk)
           items == Replaced(d.items, Restrict(rows, TakenCards(d.items, rows, pending_usn)))
           e == MergeCards(d, rows, pending_usn)
           revlog == Inserted(e.revlog, RevlogRows(from, chunk))
<1>0. PartialFunction(rows, Items, Row)
  BY HoldsIds, CollectionFields, RestrictPartial DEF CardRows
<1>00. PartialFunction(RevlogRows(from, chunk), 1..MaxNow, Int)
  BY HoldsIds, CollectionFields, RestrictPartial DEF RevlogRows
<1> HIDE DEF rows
<1>1. /\ IsCollection(e) /\ e.revlog = d.revlog /\ e.items = items
      /\ e.graves = d.graves /\ e.conf = d.conf /\ e.usn = d.usn /\ e.mod = d.mod /\ e.ls = d.ls
      /\ e.scm = d.scm
  BY <1>0, MergeCardsType
<1>2. MergeChunk(d, from, chunk, pending_usn) = [e EXCEPT !.revlog = revlog]
  BY <1>1, CollectionFields DEF MergeChunk, Fields, rows, CardRows, RevlogRows
<1> HIDE DEF e, items
<1>3. PartialFunction(revlog, 1..MaxNow, Int)
  BY <1>00, <1>1, CollectionFields, ReplacedPartial
<1>4. revlog = Inserted(d.revlog, RevlogRows(from, chunk))
  BY <1>1
<1> HIDE DEF revlog
<1>5. /\ IsCollection([e EXCEPT !.revlog = revlog])
      /\ [e EXCEPT !.revlog = revlog]
            = [items |-> e.items, graves |-> e.graves, revlog |-> revlog, conf |-> e.conf,
               usn |-> e.usn, mod |-> e.mod, ls |-> e.ls, scm |-> e.scm]
  BY <1>1, <1>3, WithRevlog
<1>6. QED
  BY <1>1, <1>2, <1>4, <1>5 DEF items, rows

BeforeUploadItems(d) == Stamped(d.items, Decks \cup PendingItems(d, Cards, PENDING), 0)

LEMMA BeforeUploadType ==
  ASSUME NEW d, IsCollection(d), NEW t \in 0..MaxNow
  PROVE  /\ IsCollection(BeforeUpload(d, t))
         /\ BeforeUpload(d, t)
              = [items |-> BeforeUploadItems(d), graves |-> <<>>,
                 revlog |-> Stamp(d.revlog, PendingIn(d.revlog, PENDING), 0),
                 conf |-> d.conf, usn |-> d.usn + 1, mod |-> t, ls |-> t, scm |-> t]
<1> DEFINE items == BeforeUploadItems(d)
           revlog == Stamp(d.revlog, PendingIn(d.revlog, PENDING), 0)
           e == StampItems(d, Decks \cup PendingItems(d, Cards, PENDING), 0)
<1>1. /\ IsCollection(e) /\ e.revlog = d.revlog /\ e.items = items
      /\ e.graves = d.graves /\ e.conf = d.conf /\ e.usn = d.usn /\ e.mod = d.mod /\ e.ls = d.ls
      /\ e.scm = d.scm
  BY StampItemsType DEF BeforeUploadItems
<1>2. BeforeUpload(d, t) = [e EXCEPT !.graves = <<>>, !.revlog = Stamp(e.revlog, PendingIn(e.revlog, PENDING), 0),
                      !.usn = e.usn + 1, !.scm = t, !.ls = t, !.mod = t]
  BY <1>1, CollectionFields DEF BeforeUpload, Fields
<1> HIDE DEF e, items
<1>3. revlog = Stamp(e.revlog, PendingIn(e.revlog, PENDING), 0)
  BY <1>1
<1>4. PartialFunction(revlog, 1..MaxNow, Int) /\ PartialFunction(items, Items, Row)
  BY <1>1, CollectionFields, StampPartial
<1>5. PartialFunction(<<>>, Items, Int)
  BY EmptyPartial
<1> HIDE DEF revlog
<1> DEFINE e1 == [e EXCEPT !.graves = <<>>]
           e2 == [e1 EXCEPT !.revlog = revlog]
           e3 == [e2 EXCEPT !.usn = e.usn + 1]
           e4 == [e3 EXCEPT !.scm = t]
           e5 == [e4 EXCEPT !.ls = t]
           e6 == [e5 EXCEPT !.mod = t]
<1>6. [e EXCEPT !.graves = <<>>, !.revlog = revlog, !.usn = e.usn + 1, !.scm = t, !.ls = t, !.mod = t] = e6
  OBVIOUS
<1>7. e.usn + 1 = d.usn + 1 /\ e.usn + 1 \in Nat
  BY <1>1, CollectionFields
<1>8. IsCollection(e1) /\ e1 = [items |-> items, graves |-> <<>>, revlog |-> e.revlog, conf |-> d.conf,
                                usn |-> e.usn, mod |-> e.mod, ls |-> e.ls, scm |-> e.scm]
  BY <1>1, <1>5, WithGraves
<1> HIDE DEF e1
<1>9. IsCollection(e2) /\ e2 = [items |-> items, graves |-> <<>>, revlog |-> revlog, conf |-> d.conf,
                                usn |-> e.usn, mod |-> e.mod, ls |-> e.ls, scm |-> e.scm]
  BY <1>4, <1>8, WithRevlog
<1> HIDE DEF e2
<1>10. IsCollection(e3) /\ e3 = [items |-> items, graves |-> <<>>, revlog |-> revlog, conf |-> d.conf,
                                 usn |-> d.usn + 1, mod |-> e.mod, ls |-> e.ls, scm |-> e.scm]
  BY <1>7, <1>9, WithUsn
<1> HIDE DEF e3
<1>11. IsCollection(e4) /\ e4 = [items |-> items, graves |-> <<>>, revlog |-> revlog, conf |-> d.conf,
                                 usn |-> d.usn + 1, mod |-> e.mod, ls |-> e.ls, scm |-> t]
  BY <1>10, WithScm
<1> HIDE DEF e4
<1>12. IsCollection(e5) /\ e5 = [items |-> items, graves |-> <<>>, revlog |-> revlog, conf |-> d.conf,
                                 usn |-> d.usn + 1, mod |-> e.mod, ls |-> t, scm |-> t]
  BY <1>11, WithLs
<1> HIDE DEF e5
<1>13. IsCollection(e6) /\ e6 = [items |-> items, graves |-> <<>>, revlog |-> revlog, conf |-> d.conf,
                                 usn |-> d.usn + 1, mod |-> t, ls |-> t, scm |-> t]
  BY ZenonT(60), <1>12, WithMod
<1> HIDE DEF e6
<1>14. BeforeUpload(d, t) = e6
  BY <1>2, <1>3, <1>6
<1>15. QED
  BY <1>13, <1>14 DEF items, revlog

-----------------------------------------------------------------------------
(* TypeOK and what it needs: the ids a device still has to send, or the server *)
(* has gathered, name rows that are there.                                    *)

Phases == {"start", "graves", "changes", "receive", "send", "sanity", "finish"}
ChunkIds == ({"revlog"} \X (1..MaxNow)) \cup ({"cards"} \X Cards)

IsSession(s) ==
  /\ DOMAIN s = {"pc", "saved", "newer", "server_usn", "server_mod", "todo", "remote"}
  /\ s.pc \in Phases /\ IsCollection(s.saved)
  /\ s.newer \in BOOLEAN /\ s.server_usn \in Nat /\ s.server_mod \in 0..MaxNow
  /\ s.remote \subseteq Items
  /\ s.pc = "graves" => s.todo \subseteq Items
SessionOk(s) == s \in {Idle, Failed(TRUE), Failed(FALSE)} \/ IsSession(s)

ClientTypes ==
  /\ DOMAIN col = Clients /\ DOMAIN sess = Clients
  /\ \A c \in Clients :
       /\ IsCollection(col[c]) /\ SessionOk(sess[c])
       /\ sess[c].pc = "send" => Holds(col[c], sess[c].todo)
ServerTypes ==
  /\ IsCollection(disk) /\ IsCollection(server_col)
  /\ sync_state \in SessionState \cup {NoSync}
GatheredOk ==
  \A c \in Clients : OwnSession(c) =>
    /\ sess[c].pc \in {"graves", "changes"} => sync_state.chunk_ids = NotGathered
    /\ sess[c].pc = "receive" /\ sync_state.chunk_ids # NotGathered
         => Holds(server_col, sync_state.chunk_ids)
TypeInv == now \in 0..MaxNow /\ ClientTypes /\ ServerTypes /\ GatheredOk

LEMMA HoldsType ==
  ASSUME NEW d, IsCollection(d), NEW ids, Holds(d, ids)
  PROVE  ids \subseteq ChunkIds
<1>1. DOMAIN d.revlog \subseteq 1..MaxNow
  BY CollectionFields DEF PartialFunction
<1>2. QED
  BY <1>1 DEF Holds, ChunkIds

LEMMA ChunkableIdsHeld ==
  ASSUME NEW d, NEW pending_usn
  PROVE  Holds(d, ChunkableIds(d, pending_usn))
BY DEF Holds, ChunkableIds, PendingIn, PendingItems

LEMMA ChunksSubset ==
  ASSUME NEW ids, NEW chunk \in Chunks(ids)
  PROVE  chunk \subseteq ids
BY DEF Chunks

LEMMA SubsetHeld ==
  ASSUME NEW d, NEW ids, Holds(d, ids), NEW chunk, chunk \subseteq ids
  PROVE  Holds(d, chunk)
BY DEF Holds

LEMMA SyncingIsSession ==
  ASSUME ClientTypes, NEW c \in Clients, Syncing(c)
  PROVE  IsSession(sess[c]) /\ IsCollection(col[c])
BY DEF ClientTypes, SessionOk, Syncing, Idle, Failed

LEMMA GiveUpTypes ==
  ASSUME ClientTypes, NEW c \in Clients, Syncing(c), NEW sanity \in BOOLEAN, GiveUp(c, sanity)
  PROVE  ClientTypes'
<1>1. IsCollection(sess[c].saved)
  BY SyncingIsSession DEF IsSession
<1>2. SessionOk(Failed(sanity)) /\ Failed(sanity).pc # "send"
  BY DEF SessionOk, Failed
<1>3. QED
  BY <1>1, <1>2 DEF ClientTypes, GiveUp

LEMMA ContinueTypes ==
  ASSUME ClientTypes, NEW c \in Clients, Syncing(c), NEW lost, NEW changed, NEW next,
         IsCollection(changed), SessionOk(next), next.pc = "send" => Holds(changed, next.todo),
         Continue(c, lost, changed, next)
  PROVE  ClientTypes'
<1>1. CASE lost
  BY <1>1, GiveUpTypes DEF Continue
<1>2. CASE ~lost
  <2>1. col' = [col EXCEPT ![c] = changed] /\ sess' = [sess EXCEPT ![c] = next]
    BY <1>2 DEF Continue
  <2>2. QED
    BY <2>1 DEF ClientTypes
<1>3. QED
  BY <1>1, <1>2

LEMMA EditTypes ==
  ASSUME ClientTypes, now \in 0..MaxNow, NEW c \in Clients, NEW changed, IsCollection(changed),
         Edit(c, changed)
  PROVE  ClientTypes' /\ now' \in 0..MaxNow
<1>1. now + 1 \in 0..MaxNow
  BY BoundsAssumption DEF Edit
<1>2. IsCollection([changed EXCEPT !.mod = now + 1])
  <2> DEFINE mod == now + 1
  <2> HIDE DEF mod
  <2>1. mod \in 0..MaxNow
    BY <1>1 DEF mod
  <2>2. IsCollection([changed EXCEPT !.mod = mod])
    BY <2>1, WithMod
  <2>3. QED
    BY <2>2 DEF mod
<1> DEFINE stamped == [changed EXCEPT !.mod = now + 1]
<1>3. col' = [col EXCEPT ![c] = stamped] /\ UNCHANGED sess /\ now' = now + 1 /\ sess[c].pc # "send"
  BY DEF Edit, Idle
<1> HIDE DEF stamped
<1>4. QED
  BY <1>1, <1>2, <1>3 DEF ClientTypes, stamped

LEMMA NewRowsPartial ==
  ASSUME now \in 0..MaxNow, now < MaxEdits, NEW S \in SUBSET Items
  PROVE  /\ PartialFunction([i \in S |-> [rev |-> now + 1, usn |-> PENDING]], Items, Row)
         /\ PartialFunction([t \in {now + 1} |-> PENDING], 1..MaxNow, Int)
<1>1. now + 1 \in 1..MaxNow
  BY BoundsAssumption
<1>2. PENDING \in Int
  BY DEF PENDING
<1>3. [rev |-> now + 1, usn |-> PENDING] \in Row
  BY <1>1, <1>2 DEF Row
<1>4. QED
  BY <1>1, <1>2, <1>3 DEF PartialFunction

LEMMA NewRowPartial ==
  ASSUME now \in 0..MaxNow, now < MaxEdits, NEW i \in Items
  PROVE  PartialFunction(NewRow(i), Items, Row) /\ DOMAIN NewRow(i) = {i}
BY NewRowsPartial DEF NewRow

LEMMA EditsTypes ==
  ASSUME ClientTypes, now \in 0..MaxNow, NEW c \in Clients, Edits(c)
  PROVE  ClientTypes' /\ now' \in 0..MaxNow /\ UNCHANGED <<disk, server_col, sync_state>>
<1>0. IsCollection(col[c]) /\ PENDING \in Int
  BY DEF ClientTypes, PENDING
<1>1. ASSUME NEW changed, IsCollection(changed), Edit(c, changed)
      PROVE  ClientTypes' /\ now' \in 0..MaxNow /\ UNCHANGED <<disk, server_col, sync_state>>
  BY <1>1, EditTypes DEF Edit
<1>2. ASSUME NEW i \in Items, AddItem(c, i) \/ UpdateItem(c, i)
      PROVE  ClientTypes' /\ now' \in 0..MaxNow /\ UNCHANGED <<disk, server_col, sync_state>>
  <2> DEFINE items == Replaced(col[c].items, NewRow(i))
             changed == [col[c] EXCEPT !.items = items]
  <2>1. Edit(c, changed) /\ now < MaxEdits
    BY <1>2 DEF AddItem, UpdateItem, Edit
  <2>2. PartialFunction(items, Items, Row)
    BY <1>0, <2>1, NewRowPartial, CollectionFields, ReplacedPartial
  <2> HIDE DEF items
  <2>3. IsCollection(changed)
    BY <1>0, <2>2, WithItems
  <2> HIDE DEF changed
  <2>4. QED
    BY <1>1, <2>1, <2>3
<1>3. ASSUME NEW i \in Items, RemoveItem(c, i)
      PROVE  ClientTypes' /\ now' \in 0..MaxNow /\ UNCHANGED <<disk, server_col, sync_state>>
  <2>1. IsCollection(ApplyGraves(col[c], {i}, PENDING))
    BY <1>0, ApplyGravesType
  <2>2. QED
    BY <1>1, <1>3, <2>1 DEF RemoveItem
<1>4. ASSUME NEW i \in Cards, ReviewCard(c, i)
      PROVE  ClientTypes' /\ now' \in 0..MaxNow /\ UNCHANGED <<disk, server_col, sync_state>>
  <2> DEFINE items == Replaced(col[c].items, NewRow(i))
             revlog == Inserted(col[c].revlog, [t \in {now + 1} |-> PENDING])
             changed == [[col[c] EXCEPT !.items = items] EXCEPT !.revlog = revlog]
  <2>1. Edit(c, [col[c] EXCEPT !.items = items, !.revlog = revlog]) /\ now < MaxEdits
    BY <1>4, <1>0, CollectionFields DEF ReviewCard, Edit, Fields
  <2>2. [col[c] EXCEPT !.items = items, !.revlog = revlog] = changed
    OBVIOUS
  <2>3. PartialFunction(items, Items, Row)
    BY <1>0, <2>1, NewRowPartial, CollectionFields, ReplacedPartial DEF Items
  <2>4. PartialFunction(revlog, 1..MaxNow, Int)
    <3> DEFINE added == [t \in {now + 1} |-> PENDING]
    <3>1. PartialFunction(added, 1..MaxNow, Int)
      BY <2>1, NewRowsPartial
    <3> HIDE DEF added
    <3>2. QED
      BY <1>0, <3>1, CollectionFields, ReplacedPartial DEF added
  <2> HIDE DEF items, revlog
  <2>5. IsCollection([col[c] EXCEPT !.items = items])
    BY <1>0, <2>3, WithItems
  <2>6. IsCollection(changed)
    BY <2>4, <2>5, WithRevlog
  <2> HIDE DEF changed
  <2>7. QED
    BY <1>1, <2>1, <2>2, <2>6
<1>5. ASSUME NEW i \in Cards, ImportItem(c, i)
      PROVE  ClientTypes' /\ now' \in 0..MaxNow /\ UNCHANGED <<disk, server_col, sync_state>>
  <2> DEFINE added == [j \in {i} |-> [rev |-> 0, usn |-> PENDING]]
             items == Replaced(col[c].items, added)
             changed == [col[c] EXCEPT !.items = items]
  <2>1. Edit(c, changed)
    BY <1>5 DEF ImportItem
  <2>2. PartialFunction(added, Items, Row)
    BY <1>0, BoundsAssumption DEF PartialFunction, Row, Items
  <2> HIDE DEF added
  <2>3. PartialFunction(items, Items, Row)
    BY <1>0, <2>2, CollectionFields, ReplacedPartial
  <2> HIDE DEF items
  <2>4. IsCollection(changed)
    BY <1>0, <2>3, WithItems
  <2> HIDE DEF changed
  <2>5. QED
    BY <1>1, <2>1, <2>4
<1>6. ASSUME ResetProgress(c)
      PROVE  ClientTypes' /\ now' \in 0..MaxNow /\ UNCHANGED <<disk, server_col, sync_state>>
  <2> DEFINE reset == [i \in DOMAIN col[c].items \cap Cards |-> [rev |-> now + 1, usn |-> PENDING]]
             items == Replaced(col[c].items, reset)
             none == <<>>
             changed == [[col[c] EXCEPT !.items = items] EXCEPT !.revlog = none]
  <2>1. Edit(c, [col[c] EXCEPT !.items = items, !.revlog = none]) /\ now < MaxEdits
    BY <1>6, <1>0, CollectionFields DEF ResetProgress, Edit, Fields
  <2>2. [col[c] EXCEPT !.items = items, !.revlog = none] = changed
    OBVIOUS
  <2>3. PartialFunction(reset, Items, Row)
    BY <2>1, NewRowsPartial DEF Items
  <2>4. PartialFunction(none, 1..MaxNow, Int)
    BY EmptyPartial
  <2> HIDE DEF reset, none
  <2>5. PartialFunction(items, Items, Row)
    BY <1>0, <2>3, CollectionFields, ReplacedPartial
  <2> HIDE DEF items
  <2>6. IsCollection([col[c] EXCEPT !.items = items])
    BY <1>0, <2>5, WithItems
  <2>7. IsCollection(changed)
    BY <2>4, <2>6, WithRevlog
  <2> HIDE DEF changed
  <2>8. QED
    BY <1>1, <2>1, <2>2, <2>7
<1>7. ASSUME SetConfig(c)
      PROVE  ClientTypes' /\ now' \in 0..MaxNow /\ UNCHANGED <<disk, server_col, sync_state>>
  <2> DEFINE conf == now + 1
             changed == [col[c] EXCEPT !.conf = conf]
  <2>1. Edit(c, changed)
    BY <1>7 DEF SetConfig
  <2>2. conf \in 0..MaxNow
    BY <2>1, BoundsAssumption DEF Edit
  <2> HIDE DEF conf
  <2>3. IsCollection(changed)
    BY <1>0, <2>2, WithConf
  <2> HIDE DEF changed
  <2>4. QED
    BY <1>1, <2>1, <2>3
<1>8. ASSUME SetSchemaModified(c)
      PROVE  ClientTypes' /\ now' \in 0..MaxNow /\ UNCHANGED <<disk, server_col, sync_state>>
  <2> DEFINE scm == now + 1
             changed == [col[c] EXCEPT !.scm = scm]
  <2>1. Edit(c, changed)
    BY <1>8 DEF SetSchemaModified
  <2>2. scm \in 0..MaxNow
    BY <2>1, BoundsAssumption DEF Edit
  <2> HIDE DEF scm
  <2>3. IsCollection(changed)
    BY <1>0, <2>2, WithScm
  <2> HIDE DEF changed
  <2>4. QED
    BY <1>1, <2>1, <2>3
<1>9. QED
  BY <1>2, <1>3, <1>4, <1>5, <1>6, <1>7, <1>8 DEF Edits

-----------------------------------------------------------------------------
(* The calls of a sync.                                                      *)

LEMMA PendingInDomain ==
  ASSUME NEW d, IsCollection(d), NEW pending_usn
  PROVE  /\ PendingIn(d.graves, pending_usn) \in SUBSET Items
         /\ PendingIn(d.graves, pending_usn) \subseteq DOMAIN d.graves
         /\ PendingIn(d.revlog, pending_usn) \subseteq DOMAIN d.revlog
         /\ \A ids : PendingItems(d, ids, pending_usn) \subseteq DOMAIN d.items \cap ids
BY CollectionFields DEF PendingIn, PendingItems, PartialFunction

StampedGraves(d, usn) == [d EXCEPT !.graves = Stamp(@, PendingIn(d.graves, PENDING), usn)]

LEMMA StampedGravesType ==
  ASSUME NEW d, IsCollection(d), NEW usn \in Int
  PROVE  /\ IsCollection(StampedGraves(d, usn))
         /\ StampedGraves(d, usn)
              = [items |-> d.items, graves |-> Stamp(d.graves, PendingIn(d.graves, PENDING), usn),
                 revlog |-> d.revlog, conf |-> d.conf, usn |-> d.usn, mod |-> d.mod,
                 ls |-> d.ls, scm |-> d.scm]
<1> DEFINE graves == Stamp(d.graves, PendingIn(d.graves, PENDING), usn)
<1>1. StampedGraves(d, usn) = [d EXCEPT !.graves = graves]
  BY CollectionFields DEF StampedGraves, Fields
<1>2. PartialFunction(graves, Items, Int)
  BY CollectionFields, StampPartial
<1> HIDE DEF graves
<1>3. QED
  BY <1>1, <1>2, WithGraves DEF graves

LEMMA AfterGravesType ==
  ASSUME NEW c \in Clients, IsSession(sess[c]), NEW d, IsCollection(d), NEW todo,
         NEW remote, remote \subseteq Items
  PROVE  IsCollection(AfterGraves(c, d, todo, remote))
<1>1. sess[c].server_usn \in Int /\ remote \in SUBSET Items
  BY DEF IsSession
<1>2. IsCollection(ApplyGraves(d, remote, sess[c].server_usn))
  BY <1>1, ApplyGravesType
<1>3. QED
  BY <1>2 DEF AfterGraves

LEMMA GravesSessionType ==
  ASSUME NEW c \in Clients, IsSession(sess[c]), NEW todo, todo \subseteq Items, NEW remote,
         remote \subseteq Items
  PROVE  /\ SessionOk(GravesSession(c, todo, remote)) /\ IsSession(GravesSession(c, todo, remote))
         /\ GravesSession(c, todo, remote).pc = IF todo = {} THEN "changes" ELSE "graves"
         /\ GravesSession(c, todo, remote).todo = todo
         /\ GravesSession(c, todo, remote).remote = remote
         /\ GravesSession(c, todo, remote).saved = sess[c].saved
         /\ GravesSession(c, todo, remote).server_usn = sess[c].server_usn
<1> DEFINE pc == IF todo = {} THEN "changes" ELSE "graves"
<1>1. pc \in Phases
  BY DEF Phases
<1>2. GravesSession(c, todo, remote) = [sess[c] EXCEPT !.pc = pc, !.todo = todo, !.remote = remote]
  BY DEF GravesSession
<1> HIDE DEF pc
<1>3. /\ IsSession([sess[c] EXCEPT !.pc = pc, !.todo = todo, !.remote = remote])
      /\ [sess[c] EXCEPT !.pc = pc, !.todo = todo, !.remote = remote].pc = pc
      /\ [sess[c] EXCEPT !.pc = pc, !.todo = todo, !.remote = remote].todo = todo
      /\ [sess[c] EXCEPT !.pc = pc, !.todo = todo, !.remote = remote].remote = remote
      /\ [sess[c] EXCEPT !.pc = pc, !.todo = todo, !.remote = remote].saved = sess[c].saved
      /\ [sess[c] EXCEPT !.pc = pc, !.todo = todo, !.remote = remote].server_usn = sess[c].server_usn
  BY <1>1 DEF IsSession
<1>4. QED
  BY <1>2, <1>3 DEF pc, SessionOk

\* What the client holds after ApplyChanges, and the server.
SentDecks(c) == PendingItems(col[c], Decks, PENDING)
AfterSending(c) == StampItems(col[c], SentDecks(c), sess[c].server_usn)
DeckRows(c) == Restrict(AfterSending(c).items, SentDecks(c))
RemoteRows == Restrict(server_col.items, PendingItems(server_col, Decks, sync_state.client_usn))
Received(c) == MergeDecks(AfterSending(c), RemoteRows)
DecksMerged(c) == MergeDecks(server_col, DeckRows(c))

LEMMA DeckRowsPartial ==
  ASSUME NEW c \in Clients, IsSession(sess[c]), IsCollection(col[c]), IsCollection(server_col)
  PROVE  /\ IsCollection(AfterSending(c))
         /\ AfterSending(c)
              = [items |-> Stamped(col[c].items, SentDecks(c), sess[c].server_usn),
                 graves |-> col[c].graves, revlog |-> col[c].revlog, conf |-> col[c].conf,
                 usn |-> col[c].usn, mod |-> col[c].mod, ls |-> col[c].ls, scm |-> col[c].scm]
         /\ PartialFunction(DeckRows(c), Items, Row) /\ DOMAIN DeckRows(c) = SentDecks(c)
         /\ SentDecks(c) \subseteq DOMAIN col[c].items
         /\ PartialFunction(RemoteRows, Items, Row)
<1>1. sess[c].server_usn \in Int
  BY DEF IsSession
<1>2. SentDecks(c) \subseteq DOMAIN col[c].items
  BY PendingInDomain DEF SentDecks
<1>3. /\ IsCollection(AfterSending(c))
      /\ AfterSending(c)
              = [items |-> Stamped(col[c].items, SentDecks(c), sess[c].server_usn),
                 graves |-> col[c].graves, revlog |-> col[c].revlog, conf |-> col[c].conf,
                 usn |-> col[c].usn, mod |-> col[c].mod, ls |-> col[c].ls, scm |-> col[c].scm]
  BY <1>1, StampItemsType DEF AfterSending
<1>4. DOMAIN AfterSending(c).items = DOMAIN col[c].items
  BY <1>3 DEF Stamped
<1>5. PartialFunction(DeckRows(c), Items, Row) /\ DOMAIN DeckRows(c) = SentDecks(c)
  BY SMTT(30), <1>2, <1>3, <1>4, CollectionFields, RestrictPartial DEF DeckRows
<1>6. PendingItems(server_col, Decks, sync_state.client_usn) \subseteq DOMAIN server_col.items
  BY PendingInDomain
<1>7. PartialFunction(RemoteRows, Items, Row)
  BY <1>6, CollectionFields, RestrictPartial DEF RemoteRows
<1>8. QED
  BY <1>2, <1>3, <1>5, <1>7

LEMMA ReceivedType ==
  ASSUME NEW c \in Clients, IsSession(sess[c]), IsCollection(col[c]), IsCollection(server_col)
  PROVE  IsCollection(Received(c)) /\ IsCollection(DecksMerged(c))
BY DeckRowsPartial, MergeDecksType DEF Received, DecksMerged

\* ApplyChanges in these words.
LEMMA ApplyChangesSays ==
  ASSUME NEW c \in Clients, NEW lost, ApplyChanges(c, lost)
  PROVE  /\ server_col' = IF sync_state.client_is_newer
                          THEN [DecksMerged(c) EXCEPT !.conf = col[c].conf] ELSE DecksMerged(c)
         /\ Continue(c, lost,
              IF sync_state.client_is_newer THEN Received(c)
              ELSE [Received(c) EXCEPT !.conf = server_col.conf],
              [sess[c] EXCEPT !.pc = "receive", !.remote = {}])
BY DEF ApplyChanges, DecksMerged, Received, DeckRows, RemoteRows, AfterSending, SentDecks

\* The ids a call of chunk() chooses from.
GatheredIds ==
  IF sync_state.chunk_ids = NotGathered THEN ChunkableIds(server_col, sync_state.client_usn)
  ELSE sync_state.chunk_ids

LEMMA GatheredHeld ==
  ASSUME GatheredOk, NEW c \in Clients, OwnSession(c), sess[c].pc = "receive"
  PROVE  Holds(server_col, GatheredIds)
BY ChunkableIdsHeld DEF GatheredOk, GatheredIds

LEMMA StampChunkHolds ==
  ASSUME NEW d, IsCollection(d), NEW chunk, NEW usn \in Int, NEW ids, Holds(d, ids)
  PROVE  Holds(StampChunk(d, chunk, usn), ids)
<1>1. /\ DOMAIN StampChunk(d, chunk, usn).items = DOMAIN d.items
      /\ DOMAIN StampChunk(d, chunk, usn).revlog = DOMAIN d.revlog
  BY StampChunkType DEF Stamped, Stamp
<1>2. QED
  BY <1>1 DEF Holds

\* Only the client of the active session has to agree with what is gathered.
LEMMA GatheredByOwner ==
  ASSUME NEW c \in Clients, sync_state'.client = c,
         sess'[c].pc \in {"graves", "changes"} => sync_state'.chunk_ids = NotGathered,
         sess'[c].pc = "receive" /\ sync_state'.chunk_ids # NotGathered
           => Holds(server_col', sync_state'.chunk_ids)
  PROVE  GatheredOk'
BY DEF GatheredOk, OwnSession

LEMMA NoneGathered ==
  ASSUME sync_state' = NoSync
  PROVE  GatheredOk'
BY NoClientAssumption DEF GatheredOk, OwnSession, NoSync

\* After Continue the session is the next one or has failed.
LEMMA ContinuedSession ==
  ASSUME ClientTypes, NEW c \in Clients, NEW lost, NEW changed, NEW next,
         Continue(c, lost, changed, next)
  PROVE  sess'[c] = next \/ sess'[c].pc = "failed"
BY DEF ClientTypes, Continue, GiveUp, Failed

LEMMA StartTypes ==
  ASSUME TypeInv, NEW c \in Clients, NEW lost, Start(c, lost)
  PROVE  TypeInv'
<1> DEFINE remote == PendingIn(disk.graves, col[c].usn)
           local == PendingIn(col[c].graves, PENDING)
           stamped == StampedGraves(col[c], sess[c].server_usn)
           changed == AfterGraves(c, stamped, local, remote)
           next == GravesSession(c, local, remote)
<1>1. Syncing(c) /\ ClientTypes /\ ServerTypes
  BY DEF Start, Syncing, TypeInv
<1>2. IsSession(sess[c]) /\ IsCollection(col[c]) /\ IsCollection(disk) /\ sess[c].server_usn \in Int
  BY <1>1, SyncingIsSession DEF IsSession, ServerTypes
<1>3. Continue(c, lost, changed, next)
  BY DEF Start, StampedGraves
<1>4. remote \subseteq Items /\ local \subseteq Items /\ IsCollection(stamped)
  BY <1>2, PendingInDomain, StampedGravesType
<1> HIDE DEF remote, local, stamped
<1>5. /\ IsCollection(changed)
      /\ SessionOk(next) /\ next.pc # "send" /\ next.pc # "receive"
  BY <1>2, <1>4, AfterGravesType, GravesSessionType
<1>6. sess'[c] = next \/ sess'[c].pc = "failed"
  BY <1>1, <1>3, ContinuedSession
<1> HIDE DEF changed, next
<1>7. ClientTypes'
  BY <1>1, <1>3, <1>5, ContinueTypes
<1>8. /\ sync_state' = [client |-> c, server_usn |-> disk.usn, client_usn |-> col[c].usn,
                        client_is_newer |-> sess[c].newer, chunk_ids |-> NotGathered]
      /\ server_col' = disk /\ UNCHANGED <<now, disk>>
  BY DEF Start
<1>9. ServerTypes'
  BY <1>1, <1>2, <1>8, CollectionFields DEF ServerTypes, SessionState, IsSession
<1>10. GatheredOk'
  BY <1>5, <1>6, <1>8, GatheredByOwner
<1>11. QED
  BY <1>7, <1>8, <1>9, <1>10 DEF TypeInv

LEMMA SendGravesTypes ==
  ASSUME TypeInv, NEW c \in Clients, NEW lost, SendGraves(c, lost)
  PROVE  TypeInv'
<1>1. /\ Syncing(c) /\ ClientTypes /\ ServerTypes /\ OwnSession(c) /\ sess[c].pc = "graves"
      /\ sync_state.chunk_ids = NotGathered
  BY DEF SendGraves, Syncing, TypeInv, GatheredOk
<1>2. /\ IsSession(sess[c]) /\ IsCollection(col[c]) /\ IsCollection(server_col)
      /\ sess[c].todo \subseteq Items /\ sess[c].remote \subseteq Items
  BY <1>1, SyncingIsSession DEF IsSession, ServerTypes
<1>3. PICK chunk \in Chunks(sess[c].todo) :
        /\ server_col' = ApplyGraves(server_col, chunk, sync_state.server_usn)
        /\ Continue(c, lost, AfterGraves(c, col[c], sess[c].todo \ chunk, sess[c].remote),
                    GravesSession(c, sess[c].todo \ chunk, sess[c].remote))
  BY DEF SendGraves
<1> DEFINE todo == sess[c].todo \ chunk
           changed == AfterGraves(c, col[c], todo, sess[c].remote)
           next == GravesSession(c, todo, sess[c].remote)
<1>4. todo \subseteq Items /\ chunk \in SUBSET Items
  BY <1>2, ChunksSubset
<1>5. Continue(c, lost, changed, next)
  BY <1>3
<1> HIDE DEF todo
<1>6. /\ IsCollection(changed)
      /\ SessionOk(next) /\ next.pc # "send" /\ next.pc # "receive"
  BY <1>2, <1>4, AfterGravesType, GravesSessionType
<1>7. sess'[c] = next \/ sess'[c].pc = "failed"
  BY <1>1, <1>5, ContinuedSession
<1> HIDE DEF changed, next
<1>8. ClientTypes'
  BY <1>1, <1>5, <1>6, ContinueTypes
<1>9. UNCHANGED <<now, disk, sync_state>> /\ sync_state.client = c
  BY <1>1 DEF SendGraves, OwnSession
<1>10. sync_state.server_usn \in Int
  BY <1>1, <1>9, NoClientAssumption DEF ServerTypes, SessionState, NoSync
<1>11. ServerTypes'
  BY <1>1, <1>2, <1>3, <1>4, <1>9, <1>10, ApplyGravesType DEF ServerTypes
<1>12. GatheredOk'
  BY <1>1, <1>6, <1>7, <1>9, GatheredByOwner
<1>13. QED
  BY <1>8, <1>9, <1>11, <1>12 DEF TypeInv

LEMMA ApplyChangesTypes ==
  ASSUME TypeInv, NEW c \in Clients, NEW lost, ApplyChanges(c, lost)
  PROVE  TypeInv'
<1> DEFINE changed == IF sync_state.client_is_newer THEN Received(c)
                      ELSE [Received(c) EXCEPT !.conf = server_col.conf]
           next == [sess[c] EXCEPT !.pc = "receive", !.remote = {}]
<1>1. /\ Syncing(c) /\ ClientTypes /\ ServerTypes /\ sess[c].pc = "changes"
      /\ sync_state.chunk_ids = NotGathered
  BY DEF ApplyChanges, Syncing, TypeInv, GatheredOk
<1>2. IsSession(sess[c]) /\ IsCollection(col[c]) /\ IsCollection(server_col)
  BY <1>1, SyncingIsSession DEF ServerTypes
<1>3. IsCollection(Received(c)) /\ IsCollection(DecksMerged(c))
  BY <1>2, ReceivedType
<1>4. Continue(c, lost, changed, next)
  BY ApplyChangesSays
<1>5. IsCollection(changed)
  <2>1. server_col.conf \in 0..MaxNow
    BY <1>2, CollectionFields
  <2>2. QED
    BY <1>3, <2>1, WithConf
<1>6. SessionOk(next) /\ next.pc = "receive"
  BY <1>2 DEF SessionOk, IsSession, Phases
<1>7. sess'[c] = next \/ sess'[c].pc = "failed"
  BY <1>1, <1>4, ContinuedSession
<1> HIDE DEF changed, next
<1>8. ClientTypes'
  BY <1>1, <1>4, <1>5, <1>6, ContinueTypes
<1>9. UNCHANGED <<now, disk, sync_state>> /\ sync_state.client = c
  BY DEF ApplyChanges, OwnSession
<1>10. IsCollection(server_col')
  <2>1. col[c].conf \in 0..MaxNow
    BY <1>2, CollectionFields
  <2>2. IsCollection([DecksMerged(c) EXCEPT !.conf = col[c].conf])
    BY <1>3, <2>1, WithConf
  <2>3. QED
    BY <1>3, <2>2, ApplyChangesSays
<1>11. ServerTypes'
  BY <1>1, <1>9, <1>10 DEF ServerTypes
<1>12. GatheredOk'
  BY <1>1, <1>6, <1>7, <1>9, GatheredByOwner
<1>13. QED
  BY <1>8, <1>9, <1>11, <1>12 DEF TypeInv

LEMMA ReceiveChunkTypes ==
  ASSUME TypeInv, NEW c \in Clients, NEW lost, ReceiveChunk(c, lost)
  PROVE  TypeInv'
<1>1. /\ Syncing(c) /\ ClientTypes /\ ServerTypes /\ GatheredOk /\ sess[c].pc = "receive"
      /\ OwnSession(c)
  BY DEF ReceiveChunk, Syncing, TypeInv
<1>2. IsSession(sess[c]) /\ IsCollection(col[c]) /\ IsCollection(server_col)
  BY <1>1, SyncingIsSession DEF ServerTypes
<1>3. PICK chunk \in Chunks(GatheredIds) :
        /\ sync_state' = [sync_state EXCEPT !.chunk_ids = GatheredIds \ chunk]
        /\ Continue(c, lost, MergeChunk(col[c], server_col, chunk, PENDING),
             IF Done(chunk)
             THEN [sess[c] EXCEPT !.pc = "send",
                     !.todo = ChunkableIds(MergeChunk(col[c], server_col, chunk, PENDING), PENDING)]
             ELSE sess[c])
  BY DEF ReceiveChunk, GatheredIds
<1> DEFINE merged == MergeChunk(col[c], server_col, chunk, PENDING)
           todo == ChunkableIds(merged, PENDING)
           next == IF Done(chunk) THEN [sess[c] EXCEPT !.pc = "send", !.todo = todo] ELSE sess[c]
<1>4. Holds(server_col, GatheredIds) /\ chunk \subseteq GatheredIds
  BY <1>1, GatheredHeld, ChunksSubset
<1>5. Holds(server_col, chunk) /\ Holds(server_col, GatheredIds \ chunk)
  BY <1>4 DEF Holds
<1>6. IsCollection(merged)
  BY <1>2, <1>5, MergeChunkType
<1>7. Holds(merged, todo)
  BY ChunkableIdsHeld
<1>8. Continue(c, lost, merged, next)
  BY <1>3
<1> HIDE DEF merged, todo
<1>9. SessionOk(next) /\ next.pc \in {"receive", "send"} /\ (next.pc = "send" => next.todo = todo)
  BY <1>1, <1>2 DEF SessionOk, IsSession, Phases
<1>10. sess'[c] = next \/ sess'[c].pc = "failed"
  BY <1>1, <1>8, ContinuedSession
<1> HIDE DEF next
<1>11. ClientTypes'
  BY <1>1, <1>6, <1>7, <1>8, <1>9, ContinueTypes
<1>12. UNCHANGED <<now, disk, server_col>> /\ sync_state.client = c
  BY DEF ReceiveChunk, OwnSession
<1>13. sync_state \in SessionState
  BY <1>1, <1>12, NoClientAssumption DEF ServerTypes, NoSync
<1>14. (GatheredIds \ chunk) \subseteq ChunkIds
  BY <1>2, <1>5, HoldsType
<1>15. sync_state' \in SessionState /\ sync_state'.client = c
       /\ sync_state'.chunk_ids = GatheredIds \ chunk
  BY <1>3, <1>12, <1>13, <1>14 DEF SessionState, ChunkIds
<1>16. ServerTypes'
  BY <1>1, <1>12, <1>15 DEF ServerTypes
<1>17. GatheredOk'
  BY <1>5, <1>9, <1>10, <1>12, <1>15, GatheredByOwner
<1>18. QED
  BY <1>11, <1>12, <1>16, <1>17 DEF TypeInv

LEMMA SendChunkTypes ==
  ASSUME TypeInv, NEW c \in Clients, NEW lost, SendChunk(c, lost)
  PROVE  TypeInv'
<1>1. /\ Syncing(c) /\ ClientTypes /\ ServerTypes /\ sess[c].pc = "send" /\ OwnSession(c)
      /\ Holds(col[c], sess[c].todo)
  BY DEF SendChunk, Syncing, TypeInv, ClientTypes
<1>2. /\ IsSession(sess[c]) /\ IsCollection(col[c]) /\ IsCollection(server_col)
      /\ sess[c].server_usn \in Int
  BY <1>1, SyncingIsSession DEF ServerTypes, IsSession
<1>3. PICK chunk \in Chunks(sess[c].todo) :
        /\ server_col' = MergeChunk(server_col, StampChunk(col[c], chunk, sess[c].server_usn),
                                    chunk, sync_state.client_usn)
        /\ Continue(c, lost, StampChunk(col[c], chunk, sess[c].server_usn),
             [sess[c] EXCEPT !.pc = IF Done(chunk) THEN "sanity" ELSE "send",
                             !.todo = sess[c].todo \ chunk])
  BY <1>2 DEF SendChunk, IsSession
<1> DEFINE sent == StampChunk(col[c], chunk, sess[c].server_usn)
           todo == sess[c].todo \ chunk
           pc == IF Done(chunk) THEN "sanity" ELSE "send"
           next == [sess[c] EXCEPT !.pc = pc, !.todo = todo]
<1>4. chunk \subseteq sess[c].todo
  BY ChunksSubset
<1>5. Holds(col[c], chunk) /\ Holds(col[c], todo)
  BY <1>1, <1>4 DEF Holds
<1>6. IsCollection(sent) /\ Holds(sent, chunk) /\ Holds(sent, todo)
  BY <1>2, <1>5, StampChunkType, StampChunkHolds
<1>7. Continue(c, lost, sent, next)
  BY <1>3
<1>8. server_col' = MergeChunk(server_col, sent, chunk, sync_state.client_usn)
  BY <1>3
<1>9. pc \in {"send", "sanity"}
  OBVIOUS
<1> HIDE DEF sent, todo, pc
<1>10. SessionOk(next) /\ next.pc \in {"send", "sanity"} /\ next.todo = todo
  BY <1>2, <1>9 DEF SessionOk, IsSession, Phases
<1>11. sess'[c] = next \/ sess'[c].pc = "failed"
  BY <1>1, <1>7, ContinuedSession
<1> HIDE DEF next
<1>12. ClientTypes'
  BY <1>1, <1>6, <1>7, <1>10, ContinueTypes
<1>13. UNCHANGED <<now, disk, sync_state>> /\ sync_state.client = c
  BY DEF SendChunk, OwnSession
<1>14. IsCollection(server_col')
  BY <1>2, <1>6, <1>8, MergeChunkType
<1>15. ServerTypes'
  BY <1>1, <1>13, <1>14 DEF ServerTypes
<1>16. GatheredOk'
  BY <1>10, <1>11, <1>13, GatheredByOwner
<1>17. QED
  BY <1>12, <1>13, <1>15, <1>16 DEF TypeInv

LEMMA SanityCheckTypes ==
  ASSUME TypeInv, NEW c \in Clients, NEW lost \in BOOLEAN, SanityCheck(c, lost)
  PROVE  TypeInv'
<1> DEFINE next == [sess[c] EXCEPT !.pc = "finish"]
<1>1. /\ Syncing(c) /\ ClientTypes /\ ServerTypes /\ sess[c].pc = "sanity"
  BY DEF SanityCheck, Syncing, TypeInv
<1>2. IsSession(sess[c]) /\ IsCollection(col[c])
  BY <1>1, SyncingIsSession
<1>3. GiveUp(c, TRUE) \/ Continue(c, lost, col[c], next)
  BY DEF SanityCheck
<1>4. SessionOk(next) /\ next.pc = "finish"
  BY <1>2 DEF SessionOk, IsSession, Phases
<1> HIDE DEF next
<1>5. ClientTypes'
  BY <1>1, <1>2, <1>3, <1>4, ContinueTypes, GiveUpTypes
<1>6. sess'[c].pc \in {"failed", "finish"}
  <2>1. CASE GiveUp(c, TRUE)
    BY <1>1, <2>1 DEF GiveUp, Failed, ClientTypes
  <2>2. CASE Continue(c, lost, col[c], next)
    BY <1>1, <1>4, <2>2, ContinuedSession
  <2>3. QED
    BY <1>3, <2>1, <2>2
<1>7. UNCHANGED <<now, disk, sync_state>> /\ sync_state.client = c /\ server_col' \in {server_col, disk}
  BY DEF SanityCheck, OwnSession
<1>8. ServerTypes'
  BY <1>1, <1>7 DEF ServerTypes
<1>9. GatheredOk'
  BY <1>6, <1>7, GatheredByOwner
<1>10. QED
  BY <1>5, <1>7, <1>8, <1>9 DEF TypeInv

-----------------------------------------------------------------------------
(* The end of a sync, failures and full syncs.                               *)

Finished(t) == [ServerFinish(t) EXCEPT !.mod = t]

LEMMA ServerFinishType ==
  ASSUME IsCollection(server_col), NEW t \in 0..MaxNow
  PROVE  /\ IsCollection(ServerFinish(t))
         /\ ServerFinish(t)
              = [items |-> server_col.items, graves |-> server_col.graves,
                 revlog |-> server_col.revlog, conf |-> server_col.conf,
                 usn |-> server_col.usn + 1, mod |-> server_col.mod, ls |-> t, scm |-> server_col.scm]
<1> DEFINE usn == server_col.usn + 1
           e1 == [server_col EXCEPT !.ls = t]
           e2 == [e1 EXCEPT !.usn = usn]
<1>1. ServerFinish(t) = e2
  BY CollectionFields DEF ServerFinish, Fields
<1>2. usn \in Nat
  BY CollectionFields
<1> HIDE DEF usn
<1>3. /\ IsCollection(e1)
      /\ e1 = [items |-> server_col.items, graves |-> server_col.graves,
               revlog |-> server_col.revlog, conf |-> server_col.conf,
               usn |-> server_col.usn, mod |-> server_col.mod, ls |-> t, scm |-> server_col.scm]
  BY WithLs
<1> HIDE DEF e1
<1>4. /\ IsCollection(e2)
      /\ e2 = [items |-> server_col.items, graves |-> server_col.graves,
               revlog |-> server_col.revlog, conf |-> server_col.conf,
               usn |-> usn, mod |-> server_col.mod, ls |-> t, scm |-> server_col.scm]
  BY <1>2, <1>3, WithUsn
<1> HIDE DEF e2
<1>5. QED
  BY <1>1, <1>4 DEF usn

LEMMA FinishedType ==
  ASSUME IsCollection(server_col), NEW t \in 0..MaxNow
  PROVE  /\ IsCollection(Finished(t))
         /\ Finished(t)
              = [items |-> server_col.items, graves |-> server_col.graves,
                 revlog |-> server_col.revlog, conf |-> server_col.conf,
                 usn |-> server_col.usn + 1, mod |-> t, ls |-> t, scm |-> server_col.scm]
<1> DEFINE e == ServerFinish(t)
<1>1. /\ IsCollection(e)
      /\ e = [items |-> server_col.items, graves |-> server_col.graves,
                 revlog |-> server_col.revlog, conf |-> server_col.conf,
                 usn |-> server_col.usn + 1, mod |-> server_col.mod, ls |-> t, scm |-> server_col.scm]
  BY ServerFinishType
<1> HIDE DEF e
<1>2. /\ IsCollection([e EXCEPT !.mod = t])
      /\ [e EXCEPT !.mod = t]
            = [items |-> server_col.items, graves |-> server_col.graves,
               revlog |-> server_col.revlog, conf |-> server_col.conf,
               usn |-> server_col.usn + 1, mod |-> t, ls |-> t, scm |-> server_col.scm]
  BY ZenonT(60), <1>1, WithMod
<1>3. QED
  BY <1>2 DEF Finished, e

\* What the client commits.
ClientFinished(c, t) == [col[c] EXCEPT !.ls = t, !.usn = sess[c].server_usn + 1, !.mod = t]

LEMMA ClientFinishedType ==
  ASSUME NEW c \in Clients, IsCollection(col[c]), IsSession(sess[c]), NEW t \in 0..MaxNow
  PROVE  /\ IsCollection(ClientFinished(c, t))
         /\ ClientFinished(c, t)
              = [items |-> col[c].items, graves |-> col[c].graves,
                 revlog |-> col[c].revlog, conf |-> col[c].conf,
                 usn |-> sess[c].server_usn + 1, mod |-> t, ls |-> t, scm |-> col[c].scm]
<1> DEFINE usn == sess[c].server_usn + 1
           d == col[c]
           e1 == [d EXCEPT !.ls = t]
           e2 == [e1 EXCEPT !.usn = usn]
           e3 == [e2 EXCEPT !.mod = t]
<1>1. ClientFinished(c, t) = e3
  BY DEF ClientFinished
<1>2. usn \in Nat
  BY DEF IsSession
<1> HIDE DEF usn
<1>3. IsCollection(d)
  OBVIOUS
<1> HIDE DEF d
<1>4. /\ IsCollection(e1)
      /\ e1 = [items |-> d.items, graves |-> d.graves, revlog |-> d.revlog, conf |-> d.conf,
               usn |-> d.usn, mod |-> d.mod, ls |-> t, scm |-> d.scm]
  BY <1>3, WithLs
<1> HIDE DEF e1
<1>5. /\ IsCollection(e2)
      /\ e2 = [items |-> d.items, graves |-> d.graves, revlog |-> d.revlog, conf |-> d.conf,
               usn |-> usn, mod |-> d.mod, ls |-> t, scm |-> d.scm]
  BY <1>2, <1>4, WithUsn
<1> HIDE DEF e2
<1>6. /\ IsCollection(e3)
      /\ e3 = [items |-> d.items, graves |-> d.graves, revlog |-> d.revlog, conf |-> d.conf,
               usn |-> usn, mod |-> t, ls |-> t, scm |-> d.scm]
  BY <1>5, WithMod
<1> HIDE DEF e3
<1>7. QED
  BY <1>1, <1>6 DEF usn, d

LEMMA FinishTypes ==
  ASSUME TypeInv, NEW c \in Clients, NEW lost, Finish(c, lost)
  PROVE  TypeInv'
<1> DEFINE t == now + 1
<1>1. /\ Syncing(c) /\ ClientTypes /\ ServerTypes /\ t \in 0..MaxNow /\ now' = t
  BY BoundsAssumption DEF Finish, Syncing, TypeInv
<1>2. IsSession(sess[c]) /\ IsCollection(col[c]) /\ IsCollection(server_col)
  BY <1>1, SyncingIsSession DEF ServerTypes
<1>3. /\ disk' = Finished(t) /\ server_col' = disk' /\ sync_state' = NoSync
      /\ Continue(c, lost, ClientFinished(c, t), Idle)
  BY DEF Finish, Finished, ClientFinished
<1>4. SessionOk(Idle) /\ Idle.pc # "send"
  BY DEF SessionOk, Idle
<1> HIDE DEF t
<1>5. IsCollection(ClientFinished(c, t)) /\ IsCollection(Finished(t))
  BY <1>1, <1>2, ClientFinishedType, FinishedType
<1>6. ClientTypes'
  BY <1>1, <1>3, <1>4, <1>5, ContinueTypes
<1>7. ServerTypes'
  BY <1>3, <1>5 DEF ServerTypes
<1>8. QED
  BY <1>1, <1>3, <1>6, <1>7, NoneGathered DEF TypeInv

LEMMA FinishCrashTypes ==
  ASSUME TypeInv, NEW c \in Clients, FinishCrash(c)
  PROVE  TypeInv'
<1> DEFINE t == now + 1
<1>1. /\ Syncing(c) /\ ClientTypes /\ ServerTypes /\ t \in 0..MaxNow /\ now' = t
  BY BoundsAssumption DEF FinishCrash, Syncing, TypeInv
<1>2. IsCollection(server_col)
  BY <1>1 DEF ServerTypes
<1>3. /\ disk' = ServerFinish(t) /\ server_col' = disk' /\ sync_state' = NoSync
      /\ GiveUp(c, FALSE)
  BY DEF FinishCrash
<1> HIDE DEF t
<1>4. IsCollection(ServerFinish(t))
  BY <1>1, <1>2, ServerFinishType
<1>5. ClientTypes'
  BY <1>1, <1>3, GiveUpTypes
<1>6. ServerTypes'
  BY <1>3, <1>4 DEF ServerTypes
<1>7. QED
  BY <1>1, <1>3, <1>5, <1>6, NoneGathered DEF TypeInv

LEMMA MetaTypes ==
  ASSUME TypeInv, NEW c \in Clients, Meta(c)
  PROVE  TypeInv'
<1>1. /\ ClientTypes /\ ServerTypes /\ IsCollection(col[c]) /\ IsCollection(disk)
      /\ sync_state' = NoSync /\ server_col' = disk /\ UNCHANGED <<now, col, disk>>
  BY DEF Meta, AbortActive, TypeInv, ClientTypes, ServerTypes
<1> DEFINE next == [pc |-> "start", saved |-> col[c], newer |-> col[c].mod > disk.mod,
                    server_usn |-> disk.usn, server_mod |-> disk.mod, todo |-> {}, remote |-> {}]
<1>2. sess' = [sess EXCEPT ![c] = next] \/ UNCHANGED sess
  BY DEF Meta
<1>3. IsSession(next) /\ next.pc = "start"
  BY <1>1, CollectionFields DEF IsSession, Phases
<1> HIDE DEF next
<1>4. ClientTypes'
  BY <1>1, <1>2, <1>3 DEF ClientTypes, SessionOk
<1>5. ServerTypes'
  BY <1>1 DEF ServerTypes
<1>6. QED
  BY <1>1, <1>4, <1>5, NoneGathered DEF TypeInv

\* A step that changes neither the server nor the session of an active client.
LEMMA GatheredUntouched ==
  ASSUME GatheredOk, NEW c \in Clients, UNCHANGED <<server_col, sync_state>>,
         \A d \in Clients \ {c} : sess'[d] = sess[d], sess'[c].pc \in {"idle", "failed"}
  PROVE  GatheredOk'
BY DEF GatheredOk, OwnSession

LEMMA FailTypes ==
  ASSUME TypeInv, NEW c \in Clients, Fail(c)
  PROVE  TypeInv'
<1>1. ClientTypes'
  BY GiveUpTypes DEF Fail, TypeInv
<1>2. ServerTypes'
  BY DEF Fail, TypeInv, ServerTypes
<1>3. GatheredOk'
  BY GatheredUntouched DEF Fail, GiveUp, TypeInv, ClientTypes, Failed
<1>4. QED
  BY <1>1, <1>2, <1>3 DEF Fail, TypeInv

LEMMA ClientCrashTypes ==
  ASSUME TypeInv, NEW c \in Clients, ClientCrash(c)
  PROVE  TypeInv'
<1>0. IsCollection(sess[c].saved) /\ ClientTypes
  BY SyncingIsSession DEF IsSession, ClientCrash, TypeInv
<1>1. ClientTypes'
  BY <1>0 DEF ClientCrash, ClientTypes, SessionOk, Idle
<1>2. ServerTypes'
  BY DEF ClientCrash, TypeInv, ServerTypes
<1>3. GatheredOk'
  BY GatheredUntouched DEF ClientCrash, TypeInv, ClientTypes, Idle
<1>4. QED
  BY <1>1, <1>2, <1>3 DEF ClientCrash, TypeInv

LEMMA AbortTypes ==
  ASSUME TypeInv, NEW c \in Clients, NEW arrives \in BOOLEAN, Abort(c, arrives)
  PROVE  TypeInv'
<1>0. ClientTypes /\ ServerTypes /\ GatheredOk /\ IsCollection(col[c]) /\ now \in 0..MaxNow
  BY DEF TypeInv, ClientTypes
<1>1. ClientTypes' /\ now' \in 0..MaxNow
  <2> DEFINE t == now + 1
  <2>1. \/ t \in 0..MaxNow /\ now' = t /\ col' = [col EXCEPT ![c] = [col[c] EXCEPT !.scm = t]]
        \/ UNCHANGED <<now, col>>
    BY <1>0, BoundsAssumption DEF Abort, ClientTypes
  <2>2. sess' = [sess EXCEPT ![c] = Idle] /\ SessionOk(Idle) /\ Idle.pc # "send"
    BY DEF Abort, SessionOk, Idle
  <2> HIDE DEF t
  <2>3. CASE t \in 0..MaxNow /\ now' = t /\ col' = [col EXCEPT ![c] = [col[c] EXCEPT !.scm = t]]
    <3> DEFINE changed == [col[c] EXCEPT !.scm = t]
    <3>1. IsCollection(changed)
      BY <1>0, <2>3, WithScm
    <3>2. col' = [col EXCEPT ![c] = changed]
      BY <2>3
    <3> HIDE DEF changed
    <3>3. QED
      BY <1>0, <2>2, <2>3, <3>1, <3>2 DEF ClientTypes
  <2>4. CASE UNCHANGED <<now, col>>
    BY <1>0, <2>2, <2>4 DEF ClientTypes
  <2>5. QED
    BY <2>1, <2>3, <2>4
<1>2. ServerTypes'
  BY <1>0 DEF Abort, AbortActive, ServerTypes
<1>3. GatheredOk'
  <2>1. CASE arrives
    BY <2>1, NoneGathered DEF Abort, AbortActive
  <2>2. CASE ~arrives
    BY <1>0, <2>2, GatheredUntouched DEF Abort, ClientTypes, Idle
  <2>3. QED
    BY <2>1, <2>2
<1>4. QED
  BY <1>1, <1>2, <1>3 DEF TypeInv

LEMMA ServerRestartTypes ==
  ASSUME TypeInv, ServerRestart
  PROVE  TypeInv'
BY NoneGathered DEF ServerRestart, AbortActive, TypeInv, ClientTypes, ServerTypes

\* A client that is not syncing takes another collection.
LEMMA IdleTypes ==
  ASSUME ClientTypes, NEW c \in Clients, sess[c] = Idle, NEW d, IsCollection(d),
         UNCHANGED sess, col' = [col EXCEPT ![c] = d]
  PROVE  ClientTypes'
BY DEF ClientTypes, Idle

LEMMA UploadTypes ==
  ASSUME TypeInv, NEW c \in Clients, NEW arrives \in BOOLEAN, Upload(c, arrives)
  PROVE  TypeInv'
<1> DEFINE t == now + 1
           file == BeforeUpload(col[c], t)
<1>0. /\ ClientTypes /\ ServerTypes /\ GatheredOk /\ IsCollection(col[c]) /\ sess[c] = Idle
      /\ t \in 0..MaxNow /\ now' = t
  BY BoundsAssumption DEF TypeInv, ClientTypes, Upload, FullSyncRequired
<1>1. IsCollection(file)
  <2> HIDE DEF t
  <2>1. QED
    BY <1>0, BeforeUploadType
<1>2. /\ col' = [col EXCEPT ![c] = file] /\ UNCHANGED sess
      /\ \/ disk' = file /\ server_col' = file /\ sync_state' = NoSync
         \/ UNCHANGED <<disk, server_col, sync_state>>
  BY DEF Upload
<1> HIDE DEF t, file
<1>3. ClientTypes'
  BY <1>0, <1>1, <1>2, IdleTypes
<1>4. ServerTypes'
  BY <1>0, <1>1, <1>2 DEF ServerTypes
<1>5. GatheredOk'
  <2>1. CASE sync_state' = NoSync
    BY <2>1, NoneGathered
  <2>2. CASE UNCHANGED <<disk, server_col, sync_state>>
    BY <1>0, <1>2, <2>2 DEF GatheredOk, OwnSession
  <2>3. QED
    BY <1>2, <2>1, <2>2
<1>6. QED
  BY <1>0, <1>3, <1>4, <1>5 DEF TypeInv

\* The server's collection after a full download, and the client's.
Downloaded(t) == [disk EXCEPT !.usn = @ + 1, !.mod = t]
Fetched(t) == [Downloaded(t) EXCEPT !.ls = t]

LEMMA DownloadedType ==
  ASSUME IsCollection(disk), NEW t \in 0..MaxNow
  PROVE  /\ IsCollection(Downloaded(t))
         /\ Downloaded(t)
              = [items |-> disk.items, graves |-> disk.graves, revlog |-> disk.revlog,
                 conf |-> disk.conf, usn |-> disk.usn + 1, mod |-> t, ls |-> disk.ls,
                 scm |-> disk.scm]
         /\ IsCollection(Fetched(t))
         /\ Fetched(t)
              = [items |-> disk.items, graves |-> disk.graves, revlog |-> disk.revlog,
                 conf |-> disk.conf, usn |-> disk.usn + 1, mod |-> t, ls |-> t,
                 scm |-> disk.scm]
<1> DEFINE usn == disk.usn + 1
           e1 == [disk EXCEPT !.usn = usn]
           e2 == [e1 EXCEPT !.mod = t]
<1>1. Downloaded(t) = e2
  BY CollectionFields DEF Downloaded, Fields
<1>2. usn \in Nat
  BY CollectionFields
<1> HIDE DEF usn
<1>3. /\ IsCollection(e1)
      /\ e1 = [items |-> disk.items, graves |-> disk.graves, revlog |-> disk.revlog,
               conf |-> disk.conf, usn |-> usn, mod |-> disk.mod, ls |-> disk.ls, scm |-> disk.scm]
  BY <1>2, WithUsn
<1> HIDE DEF e1
<1>4. /\ IsCollection(e2)
      /\ e2 = [items |-> disk.items, graves |-> disk.graves, revlog |-> disk.revlog,
               conf |-> disk.conf, usn |-> usn, mod |-> t, ls |-> disk.ls, scm |-> disk.scm]
  BY <1>3, WithMod
<1> HIDE DEF e2
<1>5. /\ IsCollection([e2 EXCEPT !.ls = t])
      /\ [e2 EXCEPT !.ls = t]
           = [items |-> disk.items, graves |-> disk.graves, revlog |-> disk.revlog,
              conf |-> disk.conf, usn |-> usn, mod |-> t, ls |-> t, scm |-> disk.scm]
  BY <1>4, WithLs
<1>6. Fetched(t) = [e2 EXCEPT !.ls = t]
  BY <1>1 DEF Fetched
<1>7. QED
  BY <1>1, <1>4, <1>5, <1>6 DEF usn

LEMMA DownloadTypes ==
  ASSUME TypeInv, NEW c \in Clients, NEW lost, Download(c, lost)
  PROVE  TypeInv'
<1> DEFINE t == now + 1
<1>0. /\ ClientTypes /\ ServerTypes /\ IsCollection(disk) /\ sess[c] = Idle
      /\ t \in 0..MaxNow /\ now' = t
  BY BoundsAssumption DEF TypeInv, ServerTypes, Download, FullSyncRequired
<1>1. /\ disk' = Downloaded(t) /\ server_col' = disk' /\ sync_state' = NoSync /\ UNCHANGED sess
      /\ UNCHANGED col \/ col' = [col EXCEPT ![c] = [disk' EXCEPT !.ls = t]]
  BY DEF Download, Downloaded
<1> HIDE DEF t
<1>2. UNCHANGED col \/ col' = [col EXCEPT ![c] = Fetched(t)]
  BY <1>1 DEF Fetched
<1>3. IsCollection(Downloaded(t)) /\ IsCollection(Fetched(t))
  BY <1>0, DownloadedType
<1>4. ClientTypes'
  <2>1. CASE UNCHANGED col
    BY <1>0, <1>1, <2>1 DEF ClientTypes
  <2>2. CASE col' = [col EXCEPT ![c] = Fetched(t)]
    BY <1>0, <1>1, <1>3, <2>2, IdleTypes
  <2>3. QED
    BY <1>2, <2>1, <2>2
<1>5. ServerTypes'
  BY <1>1, <1>3 DEF ServerTypes
<1>6. QED
  BY <1>0, <1>1, <1>4, <1>5, NoneGathered DEF TypeInv

LEMMA EditStepTypes ==
  ASSUME TypeInv, NEW c \in Clients, Edits(c)
  PROVE  TypeInv'
<1>1. /\ ClientTypes' /\ now' \in 0..MaxNow
      /\ UNCHANGED <<disk, server_col, sync_state>>
  BY EditsTypes DEF TypeInv
<1>2. UNCHANGED sess
  BY DEF Edits, AddItem, UpdateItem, RemoveItem, ReviewCard, ImportItem, ResetProgress, SetConfig,
         SetSchemaModified, Edit
<1>3. QED
  BY <1>1, <1>2 DEF TypeInv, ServerTypes, GatheredOk, OwnSession

LEMMA TypeInvInit == Init => TypeInv
<1> SUFFICES ASSUME Init PROVE TypeInv
  OBVIOUS
<1>1. PICK S \in SUBSET Items :
        disk = [items |-> [i \in S |-> [rev |-> 0, usn |-> 0]], graves |-> <<>>, revlog |-> <<>>,
                conf |-> 0, usn |-> 1, mod |-> 0, ls |-> 0, scm |-> 0]
  BY DEF Init
<1> DEFINE items == [i \in S |-> [rev |-> 0, usn |-> 0]]
           none == <<>>
<1>2. PartialFunction(items, Items, Row)
  BY BoundsAssumption DEF PartialFunction, Row
<1>3. PartialFunction(none, Items, Int) /\ PartialFunction(none, 1..MaxNow, Int)
  BY EmptyPartial
<1>4. disk = [items |-> items, graves |-> none, revlog |-> none,
              conf |-> 0, usn |-> 1, mod |-> 0, ls |-> 0, scm |-> 0]
  BY <1>1
<1> HIDE DEF items, none
<1>5. IsCollection(disk)
  BY <1>2, <1>3, <1>4, BoundsAssumption DEF IsCollection
<1>6. ClientTypes
  BY <1>5 DEF Init, ClientTypes, SessionOk, Idle
<1>7. ServerTypes
  BY <1>5 DEF Init, ServerTypes
<1>8. GatheredOk
  BY NoClientAssumption DEF Init, GatheredOk, OwnSession, NoSync
<1>9. QED
  BY <1>6, <1>7, <1>8, BoundsAssumption DEF Init, TypeInv

LEMMA TypeInvStep ==
  ASSUME TypeInv, [Next]_vars
  PROVE  TypeInv'
<1>1. ASSUME NEW c \in Clients, NEW lost \in BOOLEAN, Calls(c, lost) PROVE TypeInv'
  BY <1>1, StartTypes, SendGravesTypes, ApplyChangesTypes, ReceiveChunkTypes, SendChunkTypes,
     SanityCheckTypes, FinishTypes DEF Calls
<1>2. CASE UNCHANGED vars
  BY <1>2 DEF vars, TypeInv, ClientTypes, ServerTypes, GatheredOk, OwnSession
<1>3. QED
  BY <1>1, <1>2, EditStepTypes, MetaTypes, FailTypes, ClientCrashTypes, FinishCrashTypes,
     DownloadTypes, AbortTypes, UploadTypes, ServerRestartTypes DEF Next

\* TypeInv is inductive: besides the types, a device's list of rows to send names
\* rows it has, and so does the server's list within the session it belongs to.
THEOREM TypeInvariant == Spec => []TypeInv
BY TypeInvInit, TypeInvStep, PTL DEF Spec

\* The collections of any number of devices and of the server, what is saved to
\* roll back to, and the server's session keep their types for all edits, chunk
\* sizes and faults.
THEOREM CollectionTypes == Spec => []TypeOK
<1>1. TypeInv => TypeOK
  BY DEF TypeInv, ClientTypes, ServerTypes, TypeOK, SessionOk, IsSession
<1>2. QED
  BY <1>1, TypeInvariant, PTL

-----------------------------------------------------------------------------
(* The sanity check still holds when finish arrives.                         *)

\* What a call leaves of the session and of who is syncing.
LEMMA CallSession ==
  ASSUME TypeInv, NEW c \in Clients, NEW lost \in BOOLEAN, Calls(c, lost)
  PROVE  /\ Syncing(c) /\ (sess[c].pc = "start" \/ OwnSession(c))
         /\ sync_state'.client \in {c, NoClient}
         /\ sess'[c].pc = "finish" => SanityCheck(c, lost)
<1>0. ClientTypes
  BY DEF TypeInv
<1>1. CASE Start(c, lost)
  <2>1. Syncing(c) /\ sync_state'.client = c
    BY <1>1 DEF Start, Syncing
  <2>2. PICK changed, todo, remote : Continue(c, lost, changed, GravesSession(c, todo, remote))
    BY <1>1 DEF Start
  <2>3. GravesSession(c, todo, remote).pc \in {"graves", "changes"}
    BY <1>0, <2>1, SyncingIsSession DEF GravesSession, IsSession
  <2>4. QED
    BY <1>0, <1>1, <2>1, <2>2, <2>3, ContinuedSession DEF Start
<1>2. CASE SendGraves(c, lost)
  <2>1. Syncing(c) /\ OwnSession(c) /\ sync_state'.client = c
    BY <1>2 DEF SendGraves, Syncing, OwnSession
  <2>2. PICK changed, todo, remote : Continue(c, lost, changed, GravesSession(c, todo, remote))
    BY <1>2 DEF SendGraves
  <2>3. GravesSession(c, todo, remote).pc \in {"graves", "changes"}
    BY <1>0, <2>1, SyncingIsSession DEF GravesSession, IsSession
  <2>4. QED
    BY <1>0, <2>1, <2>2, <2>3, ContinuedSession
<1>3. CASE ApplyChanges(c, lost)
  <2>1. Syncing(c) /\ OwnSession(c) /\ sync_state'.client = c
    BY <1>3 DEF ApplyChanges, Syncing, OwnSession
  <2>2. PICK changed : Continue(c, lost, changed, [sess[c] EXCEPT !.pc = "receive", !.remote = {}])
    BY <1>3 DEF ApplyChanges
  <2>3. [sess[c] EXCEPT !.pc = "receive", !.remote = {}].pc = "receive"
    BY <1>0, <2>1, SyncingIsSession DEF IsSession
  <2>4. QED
    BY <1>0, <2>1, <2>2, <2>3, ContinuedSession
<1>4. CASE ReceiveChunk(c, lost)
  <2>1. Syncing(c) /\ OwnSession(c) /\ sess[c].pc = "receive"
    BY <1>4 DEF ReceiveChunk, Syncing
  <2>2. sync_state'.client = c
    <3>1. PICK ids : sync_state' = [sync_state EXCEPT !.chunk_ids = ids]
      BY <1>4 DEF ReceiveChunk
    <3>2. sync_state \in SessionState
      BY <2>1, NoClientAssumption DEF TypeInv, ServerTypes, OwnSession, NoSync
    <3>3. QED
      BY <2>1, <3>1, <3>2 DEF SessionState, OwnSession
  <2>3. PICK changed, todo, chunk :
          Continue(c, lost, changed, IF Done(chunk) THEN [sess[c] EXCEPT !.pc = "send", !.todo = todo]
                                     ELSE sess[c])
    BY <1>4 DEF ReceiveChunk
  <2>4. (IF Done(chunk) THEN [sess[c] EXCEPT !.pc = "send", !.todo = todo] ELSE sess[c]).pc
          \in {"receive", "send"}
    BY <1>0, <2>1, SyncingIsSession DEF IsSession
  <2>5. QED
    BY <1>0, <2>1, <2>2, <2>3, <2>4, ContinuedSession
<1>5. CASE SendChunk(c, lost)
  <2>1. Syncing(c) /\ OwnSession(c) /\ sync_state'.client = c
    BY <1>5 DEF SendChunk, Syncing, OwnSession
  <2>2. PICK changed, chunk :
          Continue(c, lost, changed, [sess[c] EXCEPT !.pc = IF Done(chunk) THEN "sanity" ELSE "send",
                                                     !.todo = @ \ chunk])
    BY <1>5 DEF SendChunk
  <2> DEFINE pc == IF Done(chunk) THEN "sanity" ELSE "send"
             next == [sess[c] EXCEPT !.pc = pc, !.todo = @ \ chunk]
  <2>3. pc \in {"sanity", "send"}
    OBVIOUS
  <2>4. Continue(c, lost, changed, next)
    BY <2>2
  <2> HIDE DEF pc
  <2>5. next.pc = pc
    BY <1>0, <2>1, SyncingIsSession DEF IsSession
  <2> HIDE DEF next
  <2>6. QED
    BY <1>0, <2>1, <2>3, <2>4, <2>5, ContinuedSession
<1>6. CASE SanityCheck(c, lost)
  BY <1>6 DEF SanityCheck, Syncing, OwnSession
<1>7. CASE Finish(c, lost)
  <2>1. PICK changed : Continue(c, lost, changed, Idle)
    BY <1>7 DEF Finish
  <2>2. sess'[c] = Idle \/ sess'[c].pc = "failed"
    BY <1>0, <2>1, ContinuedSession
  <2>3. QED
    BY <1>7, <2>2 DEF Finish, Syncing, NoSync, Idle
<1>8. QED
  BY <1>1, <1>2, <1>3, <1>4, <1>5, <1>6, <1>7 DEF Calls

\* A step that ends every session but that of c, and leaves that at another call.
LEMMA GuardsOfOthers ==
  ASSUME NEW c \in Clients, sync_state'.client \in {c, NoClient}, sess'[c].pc # "finish"
  PROVE  SanityGuards'
BY NoClientAssumption DEF SanityGuards, OwnSession

\* A step of a client that is not at finish, and changes nothing but itself.
LEMMA GuardsUntouched ==
  ASSUME SanityGuards, NEW c \in Clients, UNCHANGED <<server_col, sync_state>>,
         \A d \in Clients \ {c} : sess'[d] = sess[d] /\ col'[d] = col[d],
         sess'[c].pc # "finish"
  PROVE  SanityGuards'
BY DEF SanityGuards, OwnSession

LEMMA GuardsCalls ==
  ASSUME TypeInv, NEW c \in Clients, NEW lost \in BOOLEAN, Calls(c, lost)
  PROVE  SanityGuards'
<1>1. CASE sess'[c].pc # "finish"
  BY <1>1, CallSession, GuardsOfOthers
<1>2. CASE sess'[c].pc = "finish"
  <2>1. SanityCheck(c, lost) /\ ClientTypes
    BY <1>2, CallSession DEF TypeInv
  <2>2. ~GiveUp(c, TRUE) /\ ~GiveUp(c, FALSE)
    BY <1>2, <2>1 DEF GiveUp, Failed, ClientTypes
  <2>3. Sane(c) /\ ~lost /\ col' = [col EXCEPT ![c] = col[c]] /\ server_col' = server_col
    BY <2>1, <2>2 DEF SanityCheck, Continue
  <2>4. Counts(col[c]) = Counts(server_col) /\ ~HasPending(col[c]) /\ ~HasPending(server_col)
    BY <2>1, <2>3 DEF SanityCheck, Sane
  <2>5. col'[c] = col[c] /\ sync_state'.client = c
    BY <2>1, <2>3 DEF SanityCheck, ClientTypes, OwnSession
  <2>6. ASSUME NEW d \in Clients, sync_state'.client = d PROVE d = c
    BY <2>5, <2>6
  <2>7. QED
    BY <2>3, <2>4, <2>5, <2>6 DEF SanityGuards, OwnSession, Counts, HasPending, PendingItems, PendingIn
<1>3. QED
  BY <1>1, <1>2

LEMMA GuardsStep ==
  ASSUME TypeInv, SanityGuards, [Next]_vars
  PROVE  SanityGuards'
<1>0. ClientTypes
  BY DEF TypeInv
<1>1. ASSUME NEW c \in Clients, Edits(c) PROVE SanityGuards'
  <2>1. PICK changed : Edit(c, changed)
    BY <1>1 DEF Edits, AddItem, UpdateItem, RemoveItem, ReviewCard, ImportItem, ResetProgress,
                SetConfig, SetSchemaModified
  <2>2. QED
    BY <1>0, <2>1, GuardsUntouched DEF Edit, ClientTypes, Idle
<1>2. ASSUME NEW c \in Clients, Meta(c) PROVE SanityGuards'
  <2>1. sess'[c].pc # "finish"
    BY <1>0, <1>2 DEF Meta, ClientTypes, Idle
  <2>2. QED
    BY <1>2, <2>1, GuardsOfOthers DEF Meta, AbortActive, NoSync
<1>3. ASSUME NEW c \in Clients, Fail(c) PROVE SanityGuards'
  BY <1>0, <1>3, GuardsUntouched DEF Fail, GiveUp, Failed, ClientTypes
<1>4. ASSUME NEW c \in Clients, ClientCrash(c) PROVE SanityGuards'
  BY <1>0, <1>4, GuardsUntouched DEF ClientCrash, Idle, ClientTypes
<1>5. ASSUME NEW c \in Clients, FinishCrash(c) PROVE SanityGuards'
  <2>1. sess'[c].pc # "finish"
    BY <1>0, <1>5 DEF FinishCrash, GiveUp, Failed, ClientTypes
  <2>2. QED
    BY <1>5, <2>1, GuardsOfOthers DEF FinishCrash, NoSync
<1>6. ASSUME NEW c \in Clients, NEW lost \in BOOLEAN, Calls(c, lost) PROVE SanityGuards'
  BY <1>6, GuardsCalls
<1>7. ASSUME NEW c \in Clients, NEW lost \in BOOLEAN, Download(c, lost) PROVE SanityGuards'
  <2>1. sess'[c].pc # "finish"
    BY <1>7 DEF Download, FullSyncRequired, Idle
  <2>2. QED
    BY <1>7, <2>1, GuardsOfOthers DEF Download, NoSync
<1>8. ASSUME NEW c \in Clients, NEW arrives \in BOOLEAN, Abort(c, arrives) PROVE SanityGuards'
  <2>1. sess' = [sess EXCEPT ![c] = Idle] /\ (UNCHANGED col \/ \E d : col' = [col EXCEPT ![c] = d])
    BY <1>8 DEF Abort
  <2>2. sess'[c].pc # "finish" /\ \A d \in Clients \ {c} : sess'[d] = sess[d] /\ col'[d] = col[d]
    BY <1>0, <2>1 DEF ClientTypes, Idle
  <2>3. CASE arrives
    BY <1>8, <2>2, <2>3, GuardsOfOthers DEF Abort, AbortActive, NoSync
  <2>4. CASE ~arrives
    BY <1>8, <2>2, <2>4, GuardsUntouched DEF Abort
  <2>5. QED
    BY <2>3, <2>4
<1>9. ASSUME NEW c \in Clients, NEW arrives \in BOOLEAN, Upload(c, arrives) PROVE SanityGuards'
  <2>1. /\ sess' = sess /\ sess[c] = Idle /\ \E d : col' = [col EXCEPT ![c] = d]
        /\ sync_state' = NoSync \/ UNCHANGED <<server_col, sync_state>>
    BY <1>9 DEF Upload, FullSyncRequired
  <2>2. sess'[c].pc # "finish" /\ \A d \in Clients \ {c} : sess'[d] = sess[d] /\ col'[d] = col[d]
    BY <1>0, <2>1 DEF ClientTypes, Idle
  <2>3. QED
    BY <2>1, <2>2, GuardsUntouched, GuardsOfOthers DEF NoSync
<1>10. ASSUME ServerRestart PROVE SanityGuards'
  BY <1>10, NoClientAssumption DEF ServerRestart, AbortActive, SanityGuards, OwnSession, NoSync
<1>11. CASE UNCHANGED vars
  BY <1>11 DEF vars, SanityGuards, OwnSession, Counts, HasPending, PendingItems, PendingIn
<1>12. QED
  BY <1>1, <1>2, <1>3, <1>4, <1>5, <1>6, <1>7, <1>8, <1>9, <1>10, <1>11 DEF Next

\* No sync of any device is committed with different numbers of objects on the two
\* sides, or with a row or deletion still to be sent: nothing touches either
\* collection between the server's answer to the sanity check and finish, whatever
\* other devices do, calls are lost or the server restarts.
THEOREM GuardsHold == Spec => []SanityGuards
<1>1. Init => SanityGuards
  BY DEF Init, SanityGuards, Idle
<1>2. QED
  BY <1>1, GuardsStep, TypeInvariant, PTL DEF Spec

-------------------------------------------------------------------------------
(* What a sync leaves behind *)

\* A client in the sync the server is in, from its first answer on.
Active(c) == Syncing(c) /\ sess[c].pc # "start" /\ OwnSession(c)

\* Time stamps are handed out in order, and a schema time once only.
ClockInv ==
  /\ disk.mod <= now /\ disk.scm <= now
  /\ server_col.mod = disk.mod /\ server_col.scm = disk.scm /\ server_col.usn = disk.usn
  /\ \A c \in Clients : Durable(c).mod <= now /\ Durable(c).scm <= now
  /\ \A c \in Clients : Syncing(c) => col[c].scm = sess[c].saved.scm
  /\ \A c \in Clients : sess[c].pc = "start" =>
       /\ col[c] = sess[c].saved /\ sess[c].server_mod <= now
       /\ disk.mod = sess[c].server_mod => sess[c].saved.scm = disk.scm
  /\ \A c \in Clients : Active(c) => sess[c].server_usn = disk.usn /\ col[c].scm = disk.scm

\* Deletions the server has and those a device has.
GravesKnown(d) ==
  /\ DOMAIN d.items \cap DOMAIN d.graves = {}
  /\ d.scm = disk.scm =>
       /\ d.usn <= disk.usn
       /\ \A i \in DOMAIN d.items \cap DOMAIN disk.graves : disk.graves[i] >= d.usn
       /\ \A i \in DOMAIN d.graves : d.graves[i] = PENDING \/ i \in DOMAIN disk.graves
GravesExchanged(c) ==
  /\ DOMAIN col[c].items \cap DOMAIN col[c].graves = {}
  /\ sess[c].pc = "graves" =>
       /\ sess[c].todo \subseteq DOMAIN col[c].graves
       /\ sess[c].remote \subseteq DOMAIN server_col.graves
       /\ DOMAIN col[c].graves \subseteq DOMAIN server_col.graves \cup sess[c].todo
       /\ DOMAIN col[c].items \cap DOMAIN server_col.graves \subseteq sess[c].remote
  /\ sess[c].pc # "graves" =>
       /\ DOMAIN col[c].graves \subseteq DOMAIN server_col.graves
       /\ DOMAIN col[c].items \cap DOMAIN server_col.graves = {}
ServerGraves ==
  /\ DOMAIN disk.items \cap DOMAIN disk.graves = {}
  /\ DOMAIN server_col.items \cap DOMAIN server_col.graves = {}
  /\ \A i \in DOMAIN disk.graves :
       i \in DOMAIN server_col.graves /\ server_col.graves[i] = disk.graves[i]
  /\ \A i \in DOMAIN server_col.graves \ DOMAIN disk.graves : server_col.graves[i] = disk.usn
GraveInv ==
  /\ ServerGraves
  /\ \A c \in Clients : GravesKnown(Durable(c))
  /\ \A c \in Clients : Active(c) => GravesExchanged(c)

\* Versions.
RevsPast(d) == \A i \in DOMAIN d.items : d.items[i].rev <= now
UsnsBelow(d, n) ==
  /\ \A i \in DOMAIN d.items : d.items[i].usn \in -1..(n - 1)
  /\ \A i \in DOMAIN d.graves : d.graves[i] \in -1..(n - 1)
  /\ \A t \in DOMAIN d.revlog : d.revlog[t] \in -1..(n - 1)
NonePending(d) ==
  /\ \A i \in DOMAIN d.items : d.items[i].usn # PENDING
  /\ \A i \in DOMAIN d.graves : d.graves[i] # PENDING
  /\ \A t \in DOMAIN d.revlog : d.revlog[t] # PENDING
ServerMerges ==
  /\ \A i \in DOMAIN disk.items :
       \/ i \in DOMAIN server_col.graves
       \/ i \in DOMAIN server_col.items /\ server_col.items[i].rev >= disk.items[i].rev
  /\ \A i \in DOMAIN server_col.items :
       \/ i \in DOMAIN disk.items /\ server_col.items[i] = disk.items[i]
       \/ server_col.items[i].usn = disk.usn
  /\ \A t \in DOMAIN disk.revlog : t \in DOMAIN server_col.revlog
  /\ \A t \in DOMAIN server_col.revlog :
       \/ t \in DOMAIN disk.revlog /\ server_col.revlog[t] = disk.revlog[t]
       \/ server_col.revlog[t] = disk.usn
\* What was seen before usn of the server's s is in d, and what d has and does not
\* mark as pending is in s.
Seen(d, s, usn) ==
  /\ \A i \in DOMAIN s.items : s.items[i].usn < usn =>
       i \in DOMAIN d.graves \/ (i \in DOMAIN d.items /\ s.items[i].rev <= d.items[i].rev)
  /\ \A t \in DOMAIN s.revlog : s.revlog[t] < usn => t \in DOMAIN d.revlog
Stored(d, s) ==
  /\ \A i \in DOMAIN d.items : d.items[i].usn # PENDING =>
       i \in DOMAIN s.graves \/ (i \in DOMAIN s.items /\ d.items[i].rev <= s.items[i].rev)
  /\ \A t \in DOMAIN d.revlog : d.revlog[t] # PENDING => t \in DOMAIN s.revlog

\* Rows the client has not yet received, and pending ones it has not yet sent.
ToReceive(c) == IF sess[c].pc = "receive" THEN GatheredIds ELSE {}
ToSend(c) == IF sess[c].pc = "send" THEN sess[c].todo ELSE {}
DecksMerge(c) ==
  /\ DOMAIN col[c].items \cap Decks = DOMAIN server_col.items \cap Decks
  /\ \A i \in DOMAIN col[c].items \cap Decks :
       col[c].items[i].rev = server_col.items[i].rev /\ col[c].items[i].usn # PENDING
  /\ col[c].conf = server_col.conf
ChunksMerge(c) ==
  /\ \A i \in DOMAIN server_col.items \cap Cards :
       \/ <<"cards", i>> \in ToReceive(c)
       \/ i \in DOMAIN col[c].items /\ server_col.items[i].rev <= col[c].items[i].rev
  /\ \A t \in DOMAIN server_col.revlog : <<"revlog", t>> \in ToReceive(c) \/ t \in DOMAIN col[c].revlog
PendingSent(c) ==
  /\ \A i \in DOMAIN col[c].items \cap Cards :
       col[c].items[i].usn = PENDING => <<"cards", i>> \in ToSend(c)
  /\ \A t \in DOMAIN col[c].revlog : col[c].revlog[t] = PENDING => <<"revlog", t>> \in ToSend(c)
NoneLost(c) ==
  \A i \in DOMAIN sess[c].saved.items :
    \/ i \in DOMAIN col[c].graves
    \/ i \in DOMAIN col[c].items /\ sess[c].saved.items[i].rev <= col[c].items[i].rev
Merging(c) ==
  /\ NoneLost(c) /\ UsnsBelow(col[c], disk.usn + 1)
  /\ \A i \in DOMAIN col[c].graves : col[c].graves[i] # PENDING
  /\ Stored(col[c], server_col)
  /\ sess[c].pc \in {"graves", "changes"} => Seen(col[c], server_col, sync_state.client_usn)
  /\ sess[c].pc \in {"receive", "send", "sanity", "finish"} => DecksMerge(c) /\ ChunksMerge(c)
  /\ sess[c].pc \in {"send", "sanity", "finish"} => PendingSent(c)
MergeInv ==
  /\ RevsPast(disk) /\ RevsPast(server_col)
  /\ UsnsBelow(disk, disk.usn) /\ NonePending(disk)
  /\ ServerMerges
  /\ \A c \in Clients :
       /\ RevsPast(col[c]) /\ RevsPast(Durable(c)) /\ UsnsBelow(Durable(c), Durable(c).usn)
       /\ SameSchema(c) => Seen(Durable(c), disk, Durable(c).usn) /\ Stored(Durable(c), disk)
  /\ \A c \in Clients : Active(c) => Merging(c)

EqualWhenCurrent ==
  \A c \in Clients :
    LET d == Durable(c)
    IN  d.scm = disk.scm /\ d.mod = disk.mod => Content(d) = Content(disk) /\ ~HasPending(d)

-----------------------------------------------------------------------------
(* The shapes of the steps.                                                  *)

LEMMA DurableType ==
  ASSUME TypeInv, NEW c \in Clients
  PROVE  IsCollection(Durable(c)) /\ IsCollection(col[c]) /\ IsCollection(disk)
         /\ IsCollection(server_col)
BY SyncingIsSession DEF TypeInv, ClientTypes, ServerTypes, Durable, IsSession

LEMMA ActiveSession ==
  ASSUME TypeInv, NEW c \in Clients, Active(c)
  PROVE  IsSession(sess[c]) /\ sync_state \in SessionState /\ sync_state.client = c
BY SyncingIsSession, NoClientAssumption
DEF Active, TypeInv, ServerTypes, OwnSession, NoSync

\* A call that does not commit ends every session but the client's own.  When it
\* fails, or its answer is lost, the client is back where it was.
CallLeaves(c) ==
  /\ UNCHANGED <<now, disk>>
  /\ \A d \in Clients \ {c} : col'[d] = col[d] /\ sess'[d] = sess[d] /\ ~Active(d)'
  /\ \A d \in Clients : Durable(d)' = Durable(d)
  /\ Syncing(c)' => sess'[c].saved = sess[c].saved
  /\ sess'[c].pc # "start"
  /\ ~Syncing(c)' => col'[c] = sess[c].saved

LEMMA ContinueLeaves ==
  ASSUME ClientTypes, NEW c \in Clients, Syncing(c), NEW lost \in BOOLEAN, NEW changed, NEW next,
         Continue(c, lost, changed, next), sync_state'.client = c, UNCHANGED <<now, disk>>,
         next.pc \notin {"start", "idle", "failed"}, next.saved = sess[c].saved
  PROVE  CallLeaves(c) /\ (Syncing(c)' => ~lost /\ col'[c] = changed /\ sess'[c] = next)
<1>0. \A d \in Clients \ {c} : ~Active(d)'
  BY DEF Active, OwnSession
<1>1. CASE lost
  <2>1. /\ col' = [col EXCEPT ![c] = sess[c].saved] /\ sess' = [sess EXCEPT ![c] = Failed(FALSE)]
    BY <1>1 DEF Continue, GiveUp
  <2>2. sess'[c].pc = "failed" /\ ~Syncing(c)' /\ col'[c] = sess[c].saved
    BY <2>1 DEF ClientTypes, Failed, Syncing
  <2>3. \A d \in Clients \ {c} : col'[d] = col[d] /\ sess'[d] = sess[d]
    BY <2>1 DEF ClientTypes
  <2>4. QED
    BY <1>0, <2>2, <2>3 DEF CallLeaves, Durable, Syncing
<1>2. CASE ~lost
  <2>1. col'[c] = changed /\ sess'[c] = next
    BY <1>2 DEF Continue, ClientTypes
  <2>2. \A d \in Clients \ {c} : col'[d] = col[d] /\ sess'[d] = sess[d]
    BY <1>2 DEF Continue, ClientTypes
  <2>3. QED
    BY <1>0, <1>2, <2>1, <2>2 DEF CallLeaves, Durable, Syncing
<1>3. QED
  BY <1>1, <1>2

LEMMA StartShape ==
  ASSUME TypeInv, NEW c \in Clients, NEW lost \in BOOLEAN, Start(c, lost)
  PROVE  LET remote == PendingIn(disk.graves, col[c].usn)
             local == PendingIn(col[c].graves, PENDING)
         IN  /\ CallLeaves(c) /\ server_col' = disk
             /\ sync_state'.client = c /\ sync_state'.server_usn = disk.usn
             /\ sync_state'.client_usn = col[c].usn
             /\ Syncing(c)' =>
                  /\ col'[c] = AfterGraves(c, StampedGraves(col[c], sess[c].server_usn), local, remote)
                  /\ sess'[c].pc = IF local = {} THEN "changes" ELSE "graves"
                  /\ sess'[c].todo = local /\ sess'[c].remote = remote
                  /\ sess'[c].server_usn = sess[c].server_usn
<1> DEFINE remote == PendingIn(disk.graves, col[c].usn)
           local == PendingIn(col[c].graves, PENDING)
           changed == AfterGraves(c, StampedGraves(col[c], sess[c].server_usn), local, remote)
           next == GravesSession(c, local, remote)
<1>1. Syncing(c) /\ ClientTypes
  BY DEF Start, Syncing, TypeInv
<1>2. IsSession(sess[c]) /\ IsCollection(col[c]) /\ IsCollection(disk)
  BY <1>1, SyncingIsSession, DurableType
<1>3. Continue(c, lost, changed, next)
  BY DEF Start, StampedGraves
<1>4. remote \subseteq Items /\ local \subseteq Items
  BY <1>2, PendingInDomain
<1>5. /\ server_col' = disk /\ UNCHANGED <<now, disk>>
      /\ sync_state'.client = c /\ sync_state'.server_usn = disk.usn
      /\ sync_state'.client_usn = col[c].usn
  BY DEF Start
<1> HIDE DEF remote, local
<1>6. /\ next.pc = IF local = {} THEN "changes" ELSE "graves"
      /\ next.todo = local /\ next.remote = remote /\ next.saved = sess[c].saved
      /\ next.server_usn = sess[c].server_usn
  BY <1>2, <1>4, GravesSessionType
<1> HIDE DEF changed, next
<1>7. CallLeaves(c) /\ (Syncing(c)' => ~lost /\ col'[c] = changed /\ sess'[c] = next)
  BY <1>1, <1>3, <1>5, <1>6, ContinueLeaves
<1>8. QED
  BY <1>5, <1>6, <1>7 DEF remote, local, changed

LEMMA SendGravesShape ==
  ASSUME TypeInv, NEW c \in Clients, NEW lost \in BOOLEAN, SendGraves(c, lost)
  PROVE  /\ CallLeaves(c) /\ Active(c) /\ sess[c].pc = "graves" /\ UNCHANGED sync_state
         /\ \E chunk \in SUBSET sess[c].todo :
              /\ server_col' = ApplyGraves(server_col, chunk, sync_state.server_usn)
              /\ Syncing(c)' =>
                   /\ col'[c] = AfterGraves(c, col[c], sess[c].todo \ chunk, sess[c].remote)
                   /\ sess'[c].pc = IF sess[c].todo \ chunk = {} THEN "changes" ELSE "graves"
                   /\ sess'[c].todo = sess[c].todo \ chunk /\ sess'[c].remote = sess[c].remote
                   /\ sess'[c].server_usn = sess[c].server_usn
<1>1. Active(c) /\ Syncing(c) /\ ClientTypes /\ sess[c].pc = "graves"
  BY DEF SendGraves, Active, Syncing, TypeInv
<1>2. IsSession(sess[c]) /\ sess[c].todo \subseteq Items /\ sess[c].remote \subseteq Items
  BY <1>1, SyncingIsSession DEF IsSession
<1>3. PICK chunk \in Chunks(sess[c].todo) :
        /\ server_col' = ApplyGraves(server_col, chunk, sync_state.server_usn)
        /\ Continue(c, lost, AfterGraves(c, col[c], sess[c].todo \ chunk, sess[c].remote),
                    GravesSession(c, sess[c].todo \ chunk, sess[c].remote))
  BY DEF SendGraves
<1> DEFINE todo == sess[c].todo \ chunk
           changed == AfterGraves(c, col[c], todo, sess[c].remote)
           next == GravesSession(c, todo, sess[c].remote)
<1>4. todo \subseteq Items /\ chunk \in SUBSET sess[c].todo
  BY <1>2, ChunksSubset
<1>5. Continue(c, lost, changed, next)
  BY <1>3
<1>6. UNCHANGED <<now, disk, sync_state>> /\ sync_state'.client = c
  BY <1>1 DEF SendGraves, Active, OwnSession
<1> HIDE DEF todo
<1>7. /\ next.pc = IF todo = {} THEN "changes" ELSE "graves"
      /\ next.todo = todo /\ next.remote = sess[c].remote /\ next.saved = sess[c].saved
      /\ next.server_usn = sess[c].server_usn
  BY <1>2, <1>4, GravesSessionType
<1> HIDE DEF changed, next
<1>8. CallLeaves(c) /\ (Syncing(c)' => ~lost /\ col'[c] = changed /\ sess'[c] = next)
  BY <1>1, <1>5, <1>6, <1>7, ContinueLeaves
<1>9. QED
  BY <1>1, <1>3, <1>4, <1>6, <1>7, <1>8 DEF todo, changed

LEMMA ApplyChangesShape ==
  ASSUME TypeInv, NEW c \in Clients, NEW lost \in BOOLEAN, ApplyChanges(c, lost)
  PROVE  /\ CallLeaves(c) /\ Active(c) /\ sess[c].pc = "changes" /\ UNCHANGED sync_state
         /\ sync_state.chunk_ids = NotGathered
         /\ server_col' = IF sync_state.client_is_newer
                          THEN [DecksMerged(c) EXCEPT !.conf = col[c].conf] ELSE DecksMerged(c)
         /\ Syncing(c)' =>
              /\ col'[c] = IF sync_state.client_is_newer THEN Received(c)
                           ELSE [Received(c) EXCEPT !.conf = server_col.conf]
              /\ sess'[c].pc = "receive" /\ sess'[c].server_usn = sess[c].server_usn
<1> DEFINE changed == IF sync_state.client_is_newer THEN Received(c)
                      ELSE [Received(c) EXCEPT !.conf = server_col.conf]
           next == [sess[c] EXCEPT !.pc = "receive", !.remote = {}]
<1>1. /\ Active(c) /\ Syncing(c) /\ ClientTypes /\ sess[c].pc = "changes"
      /\ sync_state.chunk_ids = NotGathered
  BY DEF ApplyChanges, Active, Syncing, TypeInv, GatheredOk
<1>2. IsSession(sess[c])
  BY <1>1, SyncingIsSession
<1>3. Continue(c, lost, changed, next)
  BY ApplyChangesSays
<1>4. UNCHANGED <<now, disk, sync_state>> /\ sync_state'.client = c
  BY <1>1 DEF ApplyChanges, Active, OwnSession
<1>5. next.pc = "receive" /\ next.saved = sess[c].saved /\ next.server_usn = sess[c].server_usn
  BY <1>2 DEF IsSession
<1> HIDE DEF changed, next
<1>6. CallLeaves(c) /\ (Syncing(c)' => ~lost /\ col'[c] = changed /\ sess'[c] = next)
  BY <1>1, <1>3, <1>4, <1>5, ContinueLeaves
<1>7. QED
  BY <1>1, <1>4, <1>5, <1>6, ApplyChangesSays DEF changed

LEMMA ReceiveChunkShape ==
  ASSUME TypeInv, NEW c \in Clients, NEW lost \in BOOLEAN, ReceiveChunk(c, lost)
  PROVE  /\ CallLeaves(c) /\ Active(c) /\ sess[c].pc = "receive" /\ UNCHANGED server_col
         /\ sync_state'.client = c /\ sync_state'.server_usn = sync_state.server_usn
         /\ sync_state'.client_usn = sync_state.client_usn
         /\ \E chunk \in SUBSET GatheredIds :
              LET merged == MergeChunk(col[c], server_col, chunk, PENDING)
              IN  /\ Holds(server_col, chunk)
                  /\ sync_state'.chunk_ids = GatheredIds \ chunk
                  /\ Syncing(c)' =>
                       /\ col'[c] = merged
                       /\ sess'[c].server_usn = sess[c].server_usn
                       /\ \/ sess'[c].pc = "receive"
                          \/ /\ sess'[c].pc = "send" /\ sess'[c].todo = ChunkableIds(merged, PENDING)
                             /\ chunk = GatheredIds
<1>1. Active(c) /\ Syncing(c) /\ ClientTypes /\ sess[c].pc = "receive" /\ GatheredOk /\ OwnSession(c)
  BY DEF ReceiveChunk, Active, Syncing, TypeInv
<1>2. IsSession(sess[c])
  BY <1>1, SyncingIsSession
<1>3. PICK chunk \in Chunks(GatheredIds) :
        /\ sync_state' = [sync_state EXCEPT !.chunk_ids = GatheredIds \ chunk]
        /\ Continue(c, lost, MergeChunk(col[c], server_col, chunk, PENDING),
             IF Done(chunk)
             THEN [sess[c] EXCEPT !.pc = "send",
                     !.todo = ChunkableIds(MergeChunk(col[c], server_col, chunk, PENDING), PENDING)]
             ELSE sess[c])
  BY DEF ReceiveChunk, GatheredIds
<1> DEFINE merged == MergeChunk(col[c], server_col, chunk, PENDING)
           todo == ChunkableIds(merged, PENDING)
           next == IF Done(chunk) THEN [sess[c] EXCEPT !.pc = "send", !.todo = todo] ELSE sess[c]
<1>4. Holds(server_col, GatheredIds) /\ chunk \in SUBSET GatheredIds
  BY <1>1, GatheredHeld, ChunksSubset
<1>5. Holds(server_col, chunk)
  BY <1>4 DEF Holds
<1>6. Done(chunk) => chunk = GatheredIds
  BY SizesAssumption DEF Done, Chunks
<1>7. Continue(c, lost, merged, next)
  BY <1>3
<1> HIDE DEF merged, todo
<1>8. /\ next.saved = sess[c].saved /\ next.server_usn = sess[c].server_usn
      /\ next.pc = IF Done(chunk) THEN "send" ELSE "receive"
      /\ Done(chunk) => next.todo = todo
  BY <1>1, <1>2 DEF IsSession
<1>9. sync_state \in SessionState
  BY <1>1, ActiveSession
<1>10. /\ UNCHANGED <<now, disk, server_col>> /\ sync_state'.client = c
       /\ sync_state'.server_usn = sync_state.server_usn
       /\ sync_state'.client_usn = sync_state.client_usn
       /\ sync_state'.chunk_ids = GatheredIds \ chunk
  BY <1>1, <1>3, <1>9 DEF ReceiveChunk, OwnSession, SessionState
<1> HIDE DEF next
<1>11. CallLeaves(c) /\ (Syncing(c)' => ~lost /\ col'[c] = merged /\ sess'[c] = next)
  BY <1>1, <1>7, <1>8, <1>10, ContinueLeaves
<1>12. QED
  BY <1>1, <1>4, <1>5, <1>6, <1>8, <1>10, <1>11 DEF merged, todo

LEMMA SendChunkShape ==
  ASSUME TypeInv, NEW c \in Clients, NEW lost \in BOOLEAN, SendChunk(c, lost)
  PROVE  /\ CallLeaves(c) /\ Active(c) /\ sess[c].pc = "send" /\ UNCHANGED sync_state
         /\ \E chunk \in SUBSET sess[c].todo :
              LET sent == StampChunk(col[c], chunk, sess[c].server_usn)
              IN  /\ Holds(col[c], chunk) /\ Holds(sent, chunk)
                  /\ server_col' = MergeChunk(server_col, sent, chunk, sync_state.client_usn)
                  /\ Syncing(c)' =>
                       /\ col'[c] = sent
                       /\ sess'[c].server_usn = sess[c].server_usn
                       /\ sess'[c].todo = sess[c].todo \ chunk
                       /\ \/ sess'[c].pc = "send"
                          \/ sess'[c].pc = "sanity" /\ chunk = sess[c].todo
<1>1. /\ Active(c) /\ Syncing(c) /\ ClientTypes /\ sess[c].pc = "send" /\ Holds(col[c], sess[c].todo)
  BY DEF SendChunk, Active, Syncing, TypeInv, ClientTypes
<1>2. IsSession(sess[c]) /\ sess[c].server_usn \in Int /\ IsCollection(col[c])
  BY <1>1, SyncingIsSession DEF IsSession
<1>3. PICK chunk \in Chunks(sess[c].todo) :
        /\ server_col' = MergeChunk(server_col, StampChunk(col[c], chunk, sess[c].server_usn),
                                    chunk, sync_state.client_usn)
        /\ Continue(c, lost, StampChunk(col[c], chunk, sess[c].server_usn),
             [sess[c] EXCEPT !.pc = IF Done(chunk) THEN "sanity" ELSE "send",
                             !.todo = sess[c].todo \ chunk])
  BY <1>2 DEF SendChunk, IsSession
<1> DEFINE sent == StampChunk(col[c], chunk, sess[c].server_usn)
           todo == sess[c].todo \ chunk
           pc == IF Done(chunk) THEN "sanity" ELSE "send"
           next == [sess[c] EXCEPT !.pc = pc, !.todo = todo]
<1>4. chunk \in SUBSET sess[c].todo /\ (Done(chunk) => chunk = sess[c].todo)
  BY ChunksSubset, SizesAssumption DEF Done, Chunks
<1>5. Holds(col[c], chunk) /\ Holds(sent, chunk)
  BY <1>1, <1>2, <1>4, StampChunkHolds DEF Holds
<1>6. Continue(c, lost, sent, next) /\ pc \in {"sanity", "send"} /\ (pc = "sanity" => Done(chunk))
  BY <1>3
<1> HIDE DEF sent, todo, pc
<1>7. /\ next.saved = sess[c].saved /\ next.server_usn = sess[c].server_usn
      /\ next.pc = pc /\ next.todo = todo
  BY <1>2 DEF IsSession
<1>8. UNCHANGED <<now, disk, sync_state>> /\ sync_state'.client = c
  BY <1>1 DEF SendChunk, Active, OwnSession
<1> HIDE DEF next
<1>9. CallLeaves(c) /\ (Syncing(c)' => ~lost /\ col'[c] = sent /\ sess'[c] = next)
  BY <1>1, <1>6, <1>7, <1>8, ContinueLeaves
<1>10. /\ server_col' = MergeChunk(server_col, sent, chunk, sync_state.client_usn)
  BY <1>3 DEF sent
<1>11. /\ Holds(col[c], chunk) /\ Holds(sent, chunk)
       /\ server_col' = MergeChunk(server_col, sent, chunk, sync_state.client_usn)
       /\ Syncing(c)' =>
            /\ col'[c] = sent
            /\ sess'[c].server_usn = sess[c].server_usn
            /\ sess'[c].todo = sess[c].todo \ chunk
            /\ \/ sess'[c].pc = "send"
               \/ sess'[c].pc = "sanity" /\ chunk = sess[c].todo
  BY <1>4, <1>5, <1>6, <1>7, <1>9, <1>10 DEF todo
<1>12. QED
  BY <1>1, <1>4, <1>8, <1>9, <1>11 DEF sent

\* The check either ends the client's sync or changes nothing.
LEMMA SanityCheckShape ==
  ASSUME TypeInv, NEW c \in Clients, NEW lost \in BOOLEAN, SanityCheck(c, lost)
  PROVE  /\ CallLeaves(c) /\ Active(c) /\ sess[c].pc = "sanity" /\ UNCHANGED sync_state
         /\ server_col' \in {server_col, disk}
         /\ Syncing(c)' =>
              /\ server_col' = server_col /\ col'[c] = col[c] /\ sess'[c].pc = "finish"
              /\ sess'[c].server_usn = sess[c].server_usn
<1> DEFINE next == [sess[c] EXCEPT !.pc = "finish"]
<1>1. Active(c) /\ Syncing(c) /\ ClientTypes /\ sess[c].pc = "sanity"
  BY DEF SanityCheck, Active, Syncing, TypeInv
<1>2. IsSession(sess[c])
  BY <1>1, SyncingIsSession
<1>3. next.saved = sess[c].saved /\ next.server_usn = sess[c].server_usn /\ next.pc = "finish"
  BY <1>2 DEF IsSession
<1>4. /\ UNCHANGED <<now, disk, sync_state>> /\ sync_state'.client = c
      /\ server_col' = IF Sane(c) THEN server_col ELSE disk
  BY <1>1 DEF SanityCheck, Active, OwnSession
<1>5. CASE Sane(c) \/ lost
  <2>1. Continue(c, lost, col[c], next)
    BY <1>5 DEF SanityCheck
  <2> HIDE DEF next
  <2>2. CallLeaves(c) /\ (Syncing(c)' => ~lost /\ col'[c] = col[c] /\ sess'[c] = next)
    BY <1>1, <1>3, <1>4, <2>1, ContinueLeaves
  <2>3. QED
    BY <1>1, <1>3, <1>4, <1>5, <2>2
<1>6. CASE ~(Sane(c) \/ lost)
  <2>1. col' = [col EXCEPT ![c] = sess[c].saved] /\ sess' = [sess EXCEPT ![c] = Failed(TRUE)]
    BY <1>6 DEF SanityCheck, GiveUp
  <2>2. sess'[c].pc = "failed" /\ ~Syncing(c)' /\ col'[c] = sess[c].saved
    BY <1>1, <2>1 DEF ClientTypes, Failed, Syncing
  <2>3. \A d \in Clients \ {c} : col'[d] = col[d] /\ sess'[d] = sess[d]
    BY <1>1, <2>1 DEF ClientTypes
  <2>4. \A d \in Clients \ {c} : ~Active(d)'
    BY <1>4 DEF Active, OwnSession
  <2>5. CallLeaves(c)
    BY <1>1, <1>4, <2>2, <2>3, <2>4 DEF CallLeaves, Durable, Syncing
  <2>6. QED
    BY <1>1, <1>4, <2>2, <2>5
<1>7. QED
  BY <1>5, <1>6

\* What an edit makes of d, which nobody else has the new rows of.
NewTo(d, i) == i \in DOMAIN d.items \/ (~Known(d, i) /\ ~Known(disk, i))
Edited(d, e) ==
  /\ IsCollection(e) /\ e.usn = d.usn /\ e.mod = now + 1 /\ e.scm \in {d.scm, now + 1}
  /\ \A i \in DOMAIN d.graves : i \in DOMAIN e.graves /\ e.graves[i] = d.graves[i]
  /\ \A i \in DOMAIN e.graves \ DOMAIN d.graves : e.graves[i] = PENDING /\ i \notin DOMAIN e.items
  /\ \A i \in DOMAIN d.items \ DOMAIN e.items : i \in DOMAIN e.graves
  /\ \A i \in DOMAIN e.items :
       \/ i \in DOMAIN d.items /\ e.items[i] = d.items[i]
       \/ e.items[i] = [rev |-> now + 1, usn |-> PENDING] /\ NewTo(d, i)
  /\ "Reset" \notin EditKinds =>
       /\ \A t \in DOMAIN d.revlog : t \in DOMAIN e.revlog /\ e.revlog[t] = d.revlog[t]
       /\ \A t \in DOMAIN e.revlog \ DOMAIN d.revlog : e.revlog[t] = PENDING

\* Rows written anew, and perhaps a review.
LEMMA RowsEdited ==
  ASSUME NEW d, IsCollection(d), NEW S \in SUBSET Items, \A i \in S : NewTo(d, i),
         NEW rows, rows = [i \in S |-> [rev |-> now + 1, usn |-> PENDING]],
         NEW e, IsCollection(e), e.items = Replaced(d.items, rows), e.graves = d.graves,
         e.usn = d.usn, e.mod = now + 1, e.scm = d.scm,
         "Reset" \notin EditKinds =>
           \/ e.revlog = d.revlog
           \/ e.revlog = Inserted(d.revlog, [t \in {now + 1} |-> PENDING])
  PROVE  Edited(d, e)
<1>1. DOMAIN e.items = DOMAIN d.items \cup S
  BY DEF Replaced
<1>2. \A i \in DOMAIN e.items :
        \/ i \in DOMAIN d.items /\ e.items[i] = d.items[i]
        \/ e.items[i] = [rev |-> now + 1, usn |-> PENDING] /\ NewTo(d, i)
  BY DEF Replaced
<1>3. "Reset" \notin EditKinds =>
        /\ \A t \in DOMAIN d.revlog : t \in DOMAIN e.revlog /\ e.revlog[t] = d.revlog[t]
        /\ \A t \in DOMAIN e.revlog \ DOMAIN d.revlog : e.revlog[t] = PENDING
  BY ZenonT(60) DEF Replaced, Inserted
<1>4. QED
  BY <1>1, <1>2, <1>3 DEF Edited

LEMMA EditShape ==
  ASSUME TypeInv, "Import" \notin EditKinds, NEW c \in Clients, Edits(c)
  PROVE  /\ sess[c] = Idle /\ now' = now + 1 /\ UNCHANGED <<sess, disk, server_col, sync_state>>
         /\ \A d \in Clients \ {c} : col'[d] = col[d]
         /\ Edited(col[c], col'[c])
<1> DEFINE d == col[c]
           t == now + 1
<1>0. IsCollection(d) /\ ClientTypes /\ now \in 0..MaxNow
  BY DEF TypeInv, ClientTypes
<1>1. ASSUME NEW changed, Edit(c, changed)
      PROVE  /\ sess[c] = Idle /\ now' = now + 1 /\ UNCHANGED <<sess, disk, server_col, sync_state>>
             /\ \A b \in Clients \ {c} : col'[b] = col[b]
             /\ col'[c] = [changed EXCEPT !.mod = t] /\ now < MaxEdits /\ t \in 0..MaxNow
  BY <1>0, <1>1, BoundsAssumption DEF Edit, ClientTypes
<1> HIDE DEF d
<1>2. ASSUME NEW i \in Items, AddItem(c, i) \/ UpdateItem(c, i) PROVE Edited(d, col'[c])
  <2> DEFINE rows == NewRow(i)
             items == Replaced(d.items, rows)
             e == [d EXCEPT !.items = items]
  <2>1. Edit(c, e)
    BY <1>2 DEF AddItem, UpdateItem, d
  <2>2. PartialFunction(items, Items, Row)
    BY <1>0, <1>1, <2>1, NewRowPartial, CollectionFields, ReplacedPartial
  <2>3. NewTo(d, i)
    BY <1>2 DEF AddItem, UpdateItem, NewTo, d
  <2>4. rows = [j \in {i} |-> [rev |-> now + 1, usn |-> PENDING]] /\ items = Replaced(d.items, rows)
    BY DEF NewRow
  <2> HIDE DEF items, rows
  <2>5. /\ IsCollection(e)
        /\ e = [items |-> items, graves |-> d.graves, revlog |-> d.revlog, conf |-> d.conf,
                usn |-> d.usn, mod |-> d.mod, ls |-> d.ls, scm |-> d.scm]
    BY <1>0, <2>2, WithItems
  <2> HIDE DEF e
  <2>6. col'[c] = [e EXCEPT !.mod = t] /\ t \in 0..MaxNow
    BY <1>1, <2>1
  <2>7. /\ IsCollection(col'[c])
        /\ col'[c] = [items |-> e.items, graves |-> e.graves, revlog |-> e.revlog, conf |-> e.conf,
                      usn |-> e.usn, mod |-> t, ls |-> e.ls, scm |-> e.scm]
    <3> HIDE DEF t
    <3> DEFINE g == [e EXCEPT !.mod = t]
    <3>1. /\ IsCollection(g)
          /\ g = [items |-> e.items, graves |-> e.graves, revlog |-> e.revlog, conf |-> e.conf,
                  usn |-> e.usn, mod |-> t, ls |-> e.ls, scm |-> e.scm]
      BY <2>5, <2>6, WithMod
    <3>2. col'[c] = g
      BY <2>6
    <3> HIDE DEF g
    <3>3. QED
      BY <3>1, <3>2
  <2>8. \A j \in {i} : NewTo(d, j)
    BY <2>3
  <2> DEFINE f == col'[c]
  <2>9. f.items = Replaced(d.items, rows) /\ f.graves = d.graves /\ f.usn = d.usn /\ f.mod = now + 1
        /\ f.scm = d.scm /\ f.revlog = d.revlog /\ IsCollection(f)
    BY <2>4, <2>5, <2>7
  <2> HIDE DEF f
  <2>10. Edited(d, f)
    BY <1>0, <2>4, <2>8, <2>9, RowsEdited
  <2>11. QED
    BY <2>10 DEF f
<1>3. ASSUME NEW i \in Items, RemoveItem(c, i) PROVE Edited(d, col'[c])
  <2> DEFINE e == ApplyGraves(d, {i}, PENDING)
             added == [j \in {i} |-> PENDING]
  <2>1. Edit(c, e) /\ i \in DOMAIN d.items
    BY <1>3 DEF RemoveItem, d
  <2>2. /\ IsCollection(e)
        /\ e = [items |-> Without(d.items, {i}), graves |-> Inserted(d.graves, added),
                revlog |-> d.revlog, conf |-> d.conf, usn |-> d.usn, mod |-> d.mod,
                ls |-> d.ls, scm |-> d.scm]
    <3>1. {i} \in SUBSET Items /\ PENDING \in Int
      BY DEF PENDING
    <3>2. QED
      BY <1>0, <3>1, ApplyGravesType
  <2> HIDE DEF e
  <2>3. col'[c] = [e EXCEPT !.mod = t] /\ t \in 0..MaxNow
    BY <1>1, <2>1
  <2>4. /\ IsCollection(col'[c])
        /\ col'[c] = [items |-> e.items, graves |-> e.graves, revlog |-> e.revlog, conf |-> e.conf,
                      usn |-> e.usn, mod |-> t, ls |-> e.ls, scm |-> e.scm]
    <3> HIDE DEF t
    <3> DEFINE g == [e EXCEPT !.mod = t]
    <3>1. /\ IsCollection(g)
          /\ g = [items |-> e.items, graves |-> e.graves, revlog |-> e.revlog, conf |-> e.conf,
                  usn |-> e.usn, mod |-> t, ls |-> e.ls, scm |-> e.scm]
      BY <2>2, <2>3, WithMod
    <3>2. col'[c] = g
      BY <2>3
    <3> HIDE DEF g
    <3>3. QED
      BY <3>1, <3>2
  <2>5. /\ DOMAIN Without(d.items, {i}) = DOMAIN d.items \ {i}
        /\ \A j \in DOMAIN d.items \ {i} : Without(d.items, {i})[j] = d.items[j]
    BY DEF Without, Restrict
  <2>6. /\ DOMAIN Inserted(d.graves, added) = DOMAIN d.graves \cup {i}
        /\ \A j \in DOMAIN d.graves : Inserted(d.graves, added)[j] = d.graves[j]
        /\ i \notin DOMAIN d.graves => Inserted(d.graves, added)[i] = PENDING
    BY DEF Inserted, Replaced
  <2> DEFINE items == Without(d.items, {i})
             graves == Inserted(d.graves, added)
             f == col'[c]
  <2>7. /\ f.items = items /\ f.graves = graves /\ f.usn = d.usn /\ f.mod = now + 1
        /\ f.scm = d.scm /\ f.revlog = d.revlog /\ IsCollection(f)
    BY <2>2, <2>4
  <2> HIDE DEF items, graves, f
  <2>8. Edited(d, f)
    BY <2>5, <2>6, <2>7 DEF Edited, items, graves
  <2>9. QED
    BY <2>8 DEF f
<1>4. ASSUME NEW i \in Cards, ReviewCard(c, i) PROVE Edited(d, col'[c])
  <2> DEFINE rows == NewRow(i)
             items == Replaced(d.items, rows)
             added == [s \in {now + 1} |-> PENDING]
             revlog == Inserted(d.revlog, added)
             e == [[d EXCEPT !.items = items] EXCEPT !.revlog = revlog]
  <2>1. Edit(c, [d EXCEPT !.items = items, !.revlog = revlog]) /\ i \in DOMAIN d.items
    BY <1>4, <1>0, CollectionFields DEF ReviewCard, Fields, d
  <2>2. [d EXCEPT !.items = items, !.revlog = revlog] = e
    OBVIOUS
  <2>3. PartialFunction(items, Items, Row)
    BY <1>0, <1>1, <2>1, NewRowPartial, CollectionFields, ReplacedPartial DEF Items
  <2>4. PartialFunction(revlog, 1..MaxNow, Int)
    <3>1. PartialFunction(added, 1..MaxNow, Int)
      BY <1>0, <1>1, <2>1, NewRowsPartial
    <3> HIDE DEF added
    <3>2. QED
      BY <1>0, <3>1, CollectionFields, ReplacedPartial DEF added
  <2>5. rows = [j \in {i} |-> [rev |-> now + 1, usn |-> PENDING]] /\ items = Replaced(d.items, rows)
        /\ revlog = Inserted(d.revlog, [s \in {now + 1} |-> PENDING])
    BY DEF NewRow
  <2> HIDE DEF items, rows, revlog, added
  <2> DEFINE e1 == [d EXCEPT !.items = items]
  <2>6. /\ IsCollection(e1)
        /\ e1 = [items |-> items, graves |-> d.graves, revlog |-> d.revlog, conf |-> d.conf,
                usn |-> d.usn, mod |-> d.mod, ls |-> d.ls, scm |-> d.scm]
    BY <1>0, <2>3, WithItems
  <2>7. e = [e1 EXCEPT !.revlog = revlog]
    OBVIOUS
  <2> HIDE DEF e1
  <2>8. /\ IsCollection(e)
        /\ e = [items |-> items, graves |-> d.graves, revlog |-> revlog, conf |-> d.conf,
                usn |-> d.usn, mod |-> d.mod, ls |-> d.ls, scm |-> d.scm]
    BY <2>4, <2>6, <2>7, WithRevlog
  <2> HIDE DEF e
  <2>9. col'[c] = [e EXCEPT !.mod = t] /\ t \in 0..MaxNow
    BY <1>1, <2>1, <2>2
  <2>10. /\ IsCollection(col'[c])
         /\ col'[c] = [items |-> e.items, graves |-> e.graves, revlog |-> e.revlog, conf |-> e.conf,
                      usn |-> e.usn, mod |-> t, ls |-> e.ls, scm |-> e.scm]
    <3> HIDE DEF t
    <3> DEFINE g == [e EXCEPT !.mod = t]
    <3>1. /\ IsCollection(g)
          /\ g = [items |-> e.items, graves |-> e.graves, revlog |-> e.revlog, conf |-> e.conf,
                  usn |-> e.usn, mod |-> t, ls |-> e.ls, scm |-> e.scm]
      BY <2>8, <2>9, WithMod
    <3>2. col'[c] = g
      BY <2>9
    <3> HIDE DEF g
    <3>3. QED
      BY <3>1, <3>2
  <2>11. \A j \in {i} : NewTo(d, j)
    BY <2>1 DEF NewTo
  <2> DEFINE f == col'[c]
  <2>12. f.items = Replaced(d.items, rows) /\ f.graves = d.graves /\ f.usn = d.usn /\ f.mod = now + 1
         /\ f.scm = d.scm /\ IsCollection(f)
         /\ f.revlog = Inserted(d.revlog, [s \in {now + 1} |-> PENDING])
    BY <2>5, <2>8, <2>10
  <2>13. i \in Items
    BY DEF Items
  <2> HIDE DEF f
  <2>14. Edited(d, f)
    BY <1>0, <2>5, <2>11, <2>12, <2>13, RowsEdited
  <2>15. QED
    BY <2>14 DEF f
<1>5. ASSUME NEW i \in Cards, ImportItem(c, i) PROVE FALSE
  BY <1>5 DEF ImportItem
<1>6. ASSUME ResetProgress(c) PROVE Edited(d, col'[c])
  <2> DEFINE S == DOMAIN d.items \cap Cards
             rows == [i \in S |-> [rev |-> now + 1, usn |-> PENDING]]
             items == Replaced(d.items, rows)
             none == <<>>
             e == [[d EXCEPT !.items = items] EXCEPT !.revlog = none]
  <2>1. Edit(c, [d EXCEPT !.items = items, !.revlog = none]) /\ "Reset" \in EditKinds
    BY <1>6, <1>0, CollectionFields DEF ResetProgress, Fields, d
  <2>2. [d EXCEPT !.items = items, !.revlog = none] = e
    OBVIOUS
  <2>3. PartialFunction(rows, Items, Row) /\ S \in SUBSET Items
    BY <1>0, <1>1, <2>1, NewRowsPartial DEF Items
  <2>4. PartialFunction(none, 1..MaxNow, Int)
    BY EmptyPartial
  <2>5. \A i \in S : NewTo(d, i)
    BY DEF NewTo
  <2>6. rows = [i \in S |-> [rev |-> now + 1, usn |-> PENDING]] /\ items = Replaced(d.items, rows)
    OBVIOUS
  <2> HIDE DEF S, rows, none
  <2>7. PartialFunction(items, Items, Row)
    BY <1>0, <2>3, CollectionFields, ReplacedPartial
  <2> HIDE DEF items
  <2> DEFINE e1 == [d EXCEPT !.items = items]
  <2>8. /\ IsCollection(e1)
        /\ e1 = [items |-> items, graves |-> d.graves, revlog |-> d.revlog, conf |-> d.conf,
                usn |-> d.usn, mod |-> d.mod, ls |-> d.ls, scm |-> d.scm]
    BY <1>0, <2>7, WithItems
  <2>9. e = [e1 EXCEPT !.revlog = none]
    OBVIOUS
  <2> HIDE DEF e1
  <2>10. /\ IsCollection(e)
         /\ e = [items |-> items, graves |-> d.graves, revlog |-> none, conf |-> d.conf,
                 usn |-> d.usn, mod |-> d.mod, ls |-> d.ls, scm |-> d.scm]
    BY <2>4, <2>8, <2>9, WithRevlog
  <2> HIDE DEF e
  <2>11. col'[c] = [e EXCEPT !.mod = t] /\ t \in 0..MaxNow
    BY <1>1, <2>1, <2>2
  <2>12. /\ IsCollection(col'[c])
         /\ col'[c] = [items |-> e.items, graves |-> e.graves, revlog |-> e.revlog, conf |-> e.conf,
                      usn |-> e.usn, mod |-> t, ls |-> e.ls, scm |-> e.scm]
    <3> HIDE DEF t
    <3> DEFINE g == [e EXCEPT !.mod = t]
    <3>1. /\ IsCollection(g)
          /\ g = [items |-> e.items, graves |-> e.graves, revlog |-> e.revlog, conf |-> e.conf,
                  usn |-> e.usn, mod |-> t, ls |-> e.ls, scm |-> e.scm]
      BY <2>10, <2>11, WithMod
    <3>2. col'[c] = g
      BY <2>11
    <3> HIDE DEF g
    <3>3. QED
      BY <3>1, <3>2
  <2> DEFINE f == col'[c]
  <2>13. f.items = Replaced(d.items, rows) /\ f.graves = d.graves /\ f.usn = d.usn /\ f.mod = now + 1
         /\ f.scm = d.scm /\ IsCollection(f)
    BY <2>6, <2>10, <2>12
  <2> HIDE DEF f
  <2>14. Edited(d, f)
    BY <1>0, <2>1, <2>3, <2>5, <2>6, <2>13, RowsEdited
  <2>15. QED
    BY <2>14 DEF f
<1>7. ASSUME SetConfig(c) \/ SetSchemaModified(c) PROVE Edited(d, col'[c])
  <2>1. PICK e : /\ Edit(c, e) /\ IsCollection(e)
                 /\ \E conf \in 0..MaxNow, scm \in {d.scm, now + 1} :
                      e = [items |-> d.items, graves |-> d.graves, revlog |-> d.revlog, conf |-> conf,
                           usn |-> d.usn, mod |-> d.mod, ls |-> d.ls, scm |-> scm]
    <3>1. CASE SetConfig(c)
      <4> DEFINE e == [d EXCEPT !.conf = t]
      <4>1. Edit(c, e)
        BY <3>1 DEF SetConfig, d
      <4>2. t \in 0..MaxNow
        BY <1>1, <4>1
      <4> HIDE DEF t
      <4>3. /\ IsCollection(e)
            /\ e = [items |-> d.items, graves |-> d.graves, revlog |-> d.revlog, conf |-> t,
                    usn |-> d.usn, mod |-> d.mod, ls |-> d.ls, scm |-> d.scm]
        BY <1>0, <4>2, WithConf
      <4> HIDE DEF e
      <4>4. QED
        BY <4>1, <4>2, <4>3
    <3>2. CASE SetSchemaModified(c)
      <4> DEFINE e == [d EXCEPT !.scm = t]
      <4>1. Edit(c, e)
        BY <3>2 DEF SetSchemaModified, d
      <4>2. t \in 0..MaxNow /\ t \in {d.scm, now + 1}
        BY <1>1, <4>1
      <4> HIDE DEF t
      <4>3. /\ IsCollection(e)
            /\ e = [items |-> d.items, graves |-> d.graves, revlog |-> d.revlog, conf |-> d.conf,
                    usn |-> d.usn, mod |-> d.mod, ls |-> d.ls, scm |-> t]
        BY <1>0, <4>2, WithScm
      <4>4. d.conf \in 0..MaxNow
        BY <1>0, CollectionFields
      <4> HIDE DEF e
      <4>5. QED
        BY <4>1, <4>2, <4>3, <4>4
    <3>3. QED
      BY <1>7, <3>1, <3>2
  <2>2. col'[c] = [e EXCEPT !.mod = t] /\ t \in 0..MaxNow
    BY <1>1, <2>1
  <2> DEFINE f == col'[c]
  <2>3. /\ IsCollection(f)
        /\ f = [items |-> e.items, graves |-> e.graves, revlog |-> e.revlog, conf |-> e.conf,
                usn |-> e.usn, mod |-> t, ls |-> e.ls, scm |-> e.scm]
    <3> HIDE DEF t
    <3> DEFINE g == [e EXCEPT !.mod = t]
    <3>1. /\ IsCollection(g)
          /\ g = [items |-> e.items, graves |-> e.graves, revlog |-> e.revlog, conf |-> e.conf,
                  usn |-> e.usn, mod |-> t, ls |-> e.ls, scm |-> e.scm]
      BY <2>1, <2>2, WithMod
    <3>2. col'[c] = g
      BY <2>2
    <3> HIDE DEF g
    <3>3. QED
      BY <3>1, <3>2
  <2>4. /\ f.items = d.items /\ f.graves = d.graves /\ f.revlog = d.revlog /\ f.usn = d.usn
        /\ f.mod = now + 1 /\ f.scm \in {d.scm, now + 1}
    BY <2>1, <2>3
  <2> HIDE DEF f
  <2>5. Edited(d, f)
    BY <2>3, <2>4 DEF Edited
  <2>6. QED
    BY <2>5 DEF f
<1>8. \E changed : Edit(c, changed)
  BY DEF Edits, AddItem, UpdateItem, RemoveItem, ReviewCard, ImportItem, ResetProgress, SetConfig,
         SetSchemaModified
<1>9. Edited(d, col'[c])
  BY <1>2, <1>3, <1>4, <1>5, <1>6, <1>7 DEF Edits
<1>10. QED
  BY <1>1, <1>8, <1>9 DEF d

\* A step that leaves everyone what they would be left with anyway, and goes on
\* with no sync, but that of a client may begin.
QuietStep ==
  /\ UNCHANGED <<now, disk>> /\ server_col' \in {server_col, disk}
  /\ \A c \in Clients :
       /\ Durable(c)' = Durable(c) /\ col'[c] \in {col[c], Durable(c)}
       /\ Active(c)' => Active(c) /\ col'[c] = col[c] /\ sess'[c] = sess[c]
                        /\ UNCHANGED <<server_col, sync_state>>
       /\ Syncing(c)' =>
            \/ col'[c] = col[c] /\ sess'[c] = sess[c]
            \/ /\ col'[c] = col[c] /\ sess'[c].pc = "start" /\ sess'[c].saved = col[c]
               /\ sess'[c].server_mod = disk.mod /\ disk.scm = col[c].scm

\* The server commits the sync of c, and c may have the answer.
Commits(c) ==
  /\ Active(c) /\ sess[c].pc = "finish" /\ ~Syncing(c)'
  /\ now' = now + 1 /\ sync_state' = NoSync /\ server_col' = disk'
  /\ \A d \in Clients \ {c} : col'[d] = col[d] /\ sess'[d] = sess[d]
  /\ disk'.items = server_col.items /\ disk'.graves = server_col.graves
  /\ disk'.revlog = server_col.revlog /\ disk'.conf = server_col.conf
  /\ disk'.scm = server_col.scm /\ disk'.usn = server_col.usn + 1
  /\ disk'.mod \in {server_col.mod, now + 1}
  /\ "FinishCrash" \notin Faults => disk'.mod = now + 1
  /\ \/ col'[c] = sess[c].saved
     \/ /\ col'[c].items = col[c].items /\ col'[c].graves = col[c].graves
        /\ col'[c].revlog = col[c].revlog /\ col'[c].conf = col[c].conf
        /\ col'[c].scm = col[c].scm /\ col'[c].usn = sess[c].server_usn + 1
        /\ col'[c].mod = now + 1 /\ disk'.mod = now + 1

\* The client c, which is not syncing, changes and nobody else does.
Alone(c) ==
  /\ ~Syncing(c) /\ ~Syncing(c)' /\ now' = now + 1
  /\ \A d \in Clients \ {c} : col'[d] = col[d] /\ sess'[d] = sess[d]
ServerKept == UNCHANGED <<disk, server_col, sync_state>>
SessionsEnd == server_col' = disk' /\ sync_state' = NoSync

Uploads(c) ==
  /\ Alone(c) /\ (ServerKept \/ (disk' = col'[c] /\ SessionsEnd))
  /\ col'[c].items = BeforeUploadItems(col[c]) /\ DOMAIN col'[c].graves = {}
  /\ col'[c].revlog = Stamp(col[c].revlog, PendingIn(col[c].revlog, PENDING), 0)
  /\ col'[c].conf = col[c].conf /\ col'[c].usn = col[c].usn + 1
  /\ col'[c].mod = now + 1 /\ col'[c].scm = now + 1
Downloads(c) ==
  /\ Alone(c) /\ SessionsEnd /\ col[c].scm # disk.scm
  /\ disk'.items = disk.items /\ disk'.graves = disk.graves /\ disk'.revlog = disk.revlog
  /\ disk'.conf = disk.conf /\ disk'.usn = disk.usn + 1 /\ disk'.mod = now + 1
  /\ disk'.scm = disk.scm
  /\ \/ col'[c] = col[c]
     \/ /\ col'[c].items = disk.items /\ col'[c].graves = disk.graves
        /\ col'[c].revlog = disk.revlog /\ col'[c].conf = disk.conf
        /\ col'[c].usn = disk.usn + 1 /\ col'[c].mod = now + 1 /\ col'[c].scm = disk.scm
ForcesFullSync(c) ==
  /\ Alone(c) /\ UNCHANGED disk /\ (ServerKept \/ SessionsEnd)
  /\ col'[c].items = col[c].items /\ col'[c].graves = col[c].graves
  /\ col'[c].revlog = col[c].revlog /\ col'[c].conf = col[c].conf
  /\ col'[c].usn = col[c].usn /\ col'[c].mod = col[c].mod /\ col'[c].scm = now + 1

LEMMA NotActive ==
  ASSUME NEW c \in Clients, ~Syncing(c) \/ sess[c].pc = "start" \/ sync_state = NoSync
  PROVE  ~Active(c)
BY NoClientAssumption DEF Active, OwnSession, NoSync

LEMMA QuietShape ==
  ASSUME TypeInv,
         \/ \E c \in Clients : Meta(c) \/ Fail(c) \/ ClientCrash(c)
         \/ \E c \in Clients, arrives \in BOOLEAN : Abort(c, arrives) /\ ~sess[c].sanity
         \/ ServerRestart \/ UNCHANGED vars
  PROVE  QuietStep
<1>0. ClientTypes
  BY DEF TypeInv
<1>1. ASSUME NEW c \in Clients, Meta(c) PROVE QuietStep
  <2>1. /\ UNCHANGED <<now, disk, col>> /\ server_col' = disk /\ sync_state' = NoSync
        /\ sess[c] = Idle
    BY <1>1 DEF Meta, AbortActive
  <2>2. \A d \in Clients : ~Active(d)'
    BY <2>1, NoClientAssumption DEF Active, OwnSession, NoSync
  <2>3. CASE UNCHANGED sess
    BY <2>1, <2>2, <2>3 DEF QuietStep, Durable, Syncing
  <2>4. CASE ~(UNCHANGED sess)
    <3> DEFINE next == [pc |-> "start", saved |-> col[c], newer |-> col[c].mod > disk.mod,
                        server_usn |-> disk.usn, server_mod |-> disk.mod, todo |-> {}, remote |-> {}]
    <3>1. disk.scm = col[c].scm /\ sess' = [sess EXCEPT ![c] = next]
      BY <1>1, <2>4 DEF Meta
    <3>2. next.pc = "start" /\ next.saved = col[c] /\ next.server_mod = disk.mod
      OBVIOUS
    <3> HIDE DEF next
    <3>3. sess'[c] = next /\ \A d \in Clients \ {c} : sess'[d] = sess[d]
      BY <1>0, <3>1 DEF ClientTypes
    <3>4. Durable(c)' = Durable(c) /\ sess'[c].saved = col[c] /\ sess'[c].pc = "start"
      BY <2>1, <3>2, <3>3 DEF Durable, Syncing, Idle
    <3>5. \A d \in Clients \ {c} : Durable(d)' = Durable(d)
      BY <2>1, <3>3 DEF Durable, Syncing
    <3>6. QED
      BY <2>1, <2>2, <3>1, <3>2, <3>3, <3>4, <3>5 DEF QuietStep
  <2>5. QED
    BY <2>3, <2>4
<1>2. ASSUME NEW c \in Clients, Fail(c) \/ ClientCrash(c) PROVE QuietStep
  <2>1. /\ Syncing(c) /\ UNCHANGED <<now, disk, server_col, sync_state>>
        /\ col' = [col EXCEPT ![c] = sess[c].saved]
        /\ sess' = [sess EXCEPT ![c] = Idle] \/ sess' = [sess EXCEPT ![c] = Failed(FALSE)]
    BY <1>2 DEF Fail, ClientCrash, GiveUp
  <2>2. /\ col'[c] = sess[c].saved /\ sess'[c] \in {Idle, Failed(FALSE)}
        /\ \A d \in Clients \ {c} : col'[d] = col[d] /\ sess'[d] = sess[d]
    BY <1>0, <2>1 DEF ClientTypes
  <2>3. ~Syncing(c)' /\ Durable(c) = sess[c].saved
    BY <2>1, <2>2 DEF Syncing, Durable, Idle, Failed
  <2>4. Durable(c)' = Durable(c) /\ ~Active(c)'
    BY <2>2, <2>3 DEF Durable, Active
  <2>5. \A d \in Clients \ {c} : Durable(d)' = Durable(d) /\ (Active(d)' => Active(d))
    BY <2>1, <2>2 DEF Durable, Syncing, Active, OwnSession
  <2>6. QED
    BY <2>1, <2>2, <2>3, <2>4, <2>5 DEF QuietStep
<1>3. ASSUME NEW c \in Clients, NEW arrives \in BOOLEAN, Abort(c, arrives), ~sess[c].sanity
      PROVE  QuietStep
  <2>1. /\ sess[c].pc = "failed" /\ UNCHANGED <<now, disk, col>>
        /\ sess' = [sess EXCEPT ![c] = Idle]
        /\ \/ server_col' = disk /\ sync_state' = NoSync
           \/ UNCHANGED <<server_col, sync_state>>
    BY <1>3 DEF Abort, AbortActive
  <2>2. sess'[c] = Idle /\ \A d \in Clients \ {c} : sess'[d] = sess[d]
    BY <1>0, <2>1 DEF ClientTypes
  <2>3. ~Syncing(c)' /\ ~Syncing(c) /\ ~Active(c)'
    BY <2>1, <2>2 DEF Syncing, Idle, Active
  <2>4. \A d \in Clients : Durable(d)' = Durable(d)
    BY <2>1, <2>2, <2>3 DEF Durable, Syncing
  <2>5. \A d \in Clients \ {c} : Active(d)' => Active(d) /\ UNCHANGED <<server_col, sync_state>>
    BY <2>1, <2>2, NoClientAssumption DEF Syncing, Active, OwnSession, NoSync
  <2>6. QED
    BY <2>1, <2>2, <2>3, <2>4, <2>5 DEF QuietStep
<1>4. ASSUME ServerRestart PROVE QuietStep
  <2>1. UNCHANGED <<now, disk, col, sess>> /\ server_col' = disk /\ sync_state' = NoSync
    BY <1>4 DEF ServerRestart, AbortActive
  <2>2. \A d \in Clients : ~Active(d)'
    BY <2>1, NoClientAssumption DEF Active, OwnSession, NoSync
  <2>3. QED
    BY <2>1, <2>2 DEF QuietStep, Durable, Syncing
<1>5. CASE UNCHANGED vars
  BY <1>5 DEF vars, QuietStep, Durable, Syncing, Active, OwnSession
<1>6. QED
  BY <1>1, <1>2, <1>3, <1>4, <1>5

LEMMA CommitShape ==
  ASSUME TypeInv, NEW c \in Clients, FinishCrash(c) \/ \E lost \in BOOLEAN : Finish(c, lost)
  PROVE  Commits(c)
<1> DEFINE t == now + 1
<1>0. /\ ClientTypes /\ IsCollection(server_col) /\ Syncing(c) /\ Active(c) /\ sess[c].pc = "finish"
      /\ t \in 0..MaxNow /\ now' = t /\ sync_state' = NoSync
  <2>1. /\ sess[c].pc = "finish" /\ OwnSession(c) /\ now < MaxNow /\ now' = t /\ sync_state' = NoSync
    BY DEF Finish, FinishCrash
  <2>2. Syncing(c) /\ Active(c)
    BY <2>1 DEF Syncing, Active
  <2>3. t \in 0..MaxNow /\ ClientTypes /\ IsCollection(server_col)
    BY <2>1, BoundsAssumption DEF TypeInv, ServerTypes
  <2>4. QED
    BY <2>1, <2>2, <2>3
<1>1. IsSession(sess[c]) /\ IsCollection(col[c])
  BY <1>0, SyncingIsSession
<1>2. /\ disk' = Finished(t) \/ ("FinishCrash" \in Faults /\ disk' = ServerFinish(t))
      /\ server_col' = disk' /\ UNCHANGED <<>>
      /\ \/ col' = [col EXCEPT ![c] = sess[c].saved] /\ sess' = [sess EXCEPT ![c] = Failed(FALSE)]
         \/ /\ col' = [col EXCEPT ![c] = ClientFinished(c, t)] /\ sess' = [sess EXCEPT ![c] = Idle]
            /\ disk' = Finished(t)
  BY DEF Finish, FinishCrash, Continue, GiveUp, Finished, ClientFinished
<1>3. /\ \A d \in Clients \ {c} : col'[d] = col[d] /\ sess'[d] = sess[d]
      /\ sess'[c] \in {Idle, Failed(FALSE)}
      /\ col'[c] = sess[c].saved \/ (col'[c] = ClientFinished(c, t) /\ disk' = Finished(t))
  BY <1>0, <1>2 DEF ClientTypes
<1> HIDE DEF t
<1>4. /\ Finished(t)
           = [items |-> server_col.items, graves |-> server_col.graves,
              revlog |-> server_col.revlog, conf |-> server_col.conf,
              usn |-> server_col.usn + 1, mod |-> t, ls |-> t, scm |-> server_col.scm]
      /\ ServerFinish(t)
           = [items |-> server_col.items, graves |-> server_col.graves,
              revlog |-> server_col.revlog, conf |-> server_col.conf,
              usn |-> server_col.usn + 1, mod |-> server_col.mod, ls |-> t, scm |-> server_col.scm]
      /\ ClientFinished(c, t)
           = [items |-> col[c].items, graves |-> col[c].graves,
              revlog |-> col[c].revlog, conf |-> col[c].conf,
              usn |-> sess[c].server_usn + 1, mod |-> t, ls |-> t, scm |-> col[c].scm]
  BY <1>0, <1>1, FinishedType, ServerFinishType, ClientFinishedType
<1>5. /\ disk'.items = server_col.items /\ disk'.graves = server_col.graves
      /\ disk'.revlog = server_col.revlog /\ disk'.conf = server_col.conf
      /\ disk'.scm = server_col.scm /\ disk'.usn = server_col.usn + 1
      /\ disk'.mod \in {server_col.mod, t}
      /\ "FinishCrash" \notin Faults => disk'.mod = t
      /\ disk' = Finished(t) => disk'.mod = t
  BY <1>2, <1>4
<1>6. \/ col'[c] = sess[c].saved
      \/ /\ col'[c].items = col[c].items /\ col'[c].graves = col[c].graves
         /\ col'[c].revlog = col[c].revlog /\ col'[c].conf = col[c].conf
         /\ col'[c].scm = col[c].scm /\ col'[c].usn = sess[c].server_usn + 1
         /\ col'[c].mod = t /\ disk'.mod = t
  BY <1>3, <1>4, <1>5
<1>7. ~Syncing(c)'
  BY <1>3 DEF Syncing, Idle, Failed
<1>8. QED
  BY <1>0, <1>2, <1>3, <1>5, <1>6, <1>7 DEF Commits, t

LEMMA UploadShape ==
  ASSUME TypeInv, NEW c \in Clients, NEW arrives \in BOOLEAN, Upload(c, arrives)
  PROVE  Uploads(c)
<1> DEFINE t == now + 1
           file == BeforeUpload(col[c], t)
<1>0. /\ ClientTypes /\ IsCollection(col[c]) /\ sess[c] = Idle
      /\ t \in 0..MaxNow /\ now' = t
  BY BoundsAssumption DEF TypeInv, ClientTypes, Upload, FullSyncRequired
<1>1. /\ col' = [col EXCEPT ![c] = file] /\ UNCHANGED sess
      /\ \/ disk' = file /\ server_col' = file /\ sync_state' = NoSync
         \/ UNCHANGED <<disk, server_col, sync_state>>
  BY DEF Upload
<1> HIDE DEF t
<1>2. file = [items |-> BeforeUploadItems(col[c]), graves |-> <<>>,
              revlog |-> Stamp(col[c].revlog, PendingIn(col[c].revlog, PENDING), 0),
              conf |-> col[c].conf, usn |-> col[c].usn + 1, mod |-> t, ls |-> t, scm |-> t]
  BY <1>0, BeforeUploadType
<1> HIDE DEF file
<1>3. col'[c] = file /\ \A d \in Clients \ {c} : col'[d] = col[d] /\ sess'[d] = sess[d]
  BY <1>0, <1>1 DEF ClientTypes
<1>4. ~Syncing(c) /\ ~Syncing(c)'
  BY <1>0, <1>1 DEF Syncing, Idle
<1>5. DOMAIN file.graves = {}
  <2> DEFINE none == <<>>
  <2>1. DOMAIN none = {}
    OBVIOUS
  <2>2. file.graves = none
    BY <1>2
  <2> HIDE DEF none
  <2>3. QED
    BY <2>1, <2>2
<1>6. /\ col'[c].items = BeforeUploadItems(col[c]) /\ DOMAIN col'[c].graves = {}
      /\ col'[c].revlog = Stamp(col[c].revlog, PendingIn(col[c].revlog, PENDING), 0)
      /\ col'[c].conf = col[c].conf /\ col'[c].usn = col[c].usn + 1
      /\ col'[c].mod = t /\ col'[c].scm = t
  BY <1>2, <1>3, <1>5
<1>7. QED
  BY <1>0, <1>1, <1>3, <1>4, <1>6 DEF Uploads, Alone, ServerKept, SessionsEnd, t

LEMMA DownloadShape ==
  ASSUME TypeInv, NEW c \in Clients, NEW lost \in BOOLEAN, Download(c, lost)
  PROVE  Downloads(c)
<1> DEFINE t == now + 1
<1>0. /\ ClientTypes /\ IsCollection(disk) /\ sess[c] = Idle /\ t \in 0..MaxNow /\ now' = t
      /\ col[c].scm # disk.scm
  BY BoundsAssumption DEF TypeInv, ServerTypes, Download, FullSyncRequired
<1>1. /\ disk' = Downloaded(t) /\ server_col' = disk' /\ sync_state' = NoSync /\ UNCHANGED sess
      /\ UNCHANGED col \/ col' = [col EXCEPT ![c] = Fetched(t)]
  BY DEF Download, Downloaded, Fetched
<1> HIDE DEF t
<1>2. /\ Downloaded(t)
           = [items |-> disk.items, graves |-> disk.graves, revlog |-> disk.revlog,
              conf |-> disk.conf, usn |-> disk.usn + 1, mod |-> t, ls |-> disk.ls,
              scm |-> disk.scm]
      /\ Fetched(t)
           = [items |-> disk.items, graves |-> disk.graves, revlog |-> disk.revlog,
              conf |-> disk.conf, usn |-> disk.usn + 1, mod |-> t, ls |-> t,
              scm |-> disk.scm]
  BY <1>0, DownloadedType
<1>3. /\ disk'.items = disk.items /\ disk'.graves = disk.graves /\ disk'.revlog = disk.revlog
      /\ disk'.conf = disk.conf /\ disk'.usn = disk.usn + 1 /\ disk'.mod = t
      /\ disk'.scm = disk.scm
  BY <1>1, <1>2
<1>4. /\ \A d \in Clients \ {c} : col'[d] = col[d] /\ sess'[d] = sess[d]
      /\ col'[c] \in {col[c], Fetched(t)}
  BY <1>0, <1>1 DEF ClientTypes
<1>5. \/ col'[c] = col[c]
      \/ /\ col'[c].items = disk.items /\ col'[c].graves = disk.graves
         /\ col'[c].revlog = disk.revlog /\ col'[c].conf = disk.conf
         /\ col'[c].usn = disk.usn + 1 /\ col'[c].mod = t /\ col'[c].scm = disk.scm
  BY <1>2, <1>4
<1>6. ~Syncing(c) /\ ~Syncing(c)'
  BY <1>0, <1>1 DEF Syncing, Idle
<1>7. QED
  BY <1>0, <1>1, <1>3, <1>4, <1>5, <1>6 DEF Downloads, Alone, SessionsEnd, t

LEMMA ForceShape ==
  ASSUME TypeInv, NEW c \in Clients, NEW arrives \in BOOLEAN, Abort(c, arrives), sess[c].sanity
  PROVE  ForcesFullSync(c)
<1> DEFINE t == now + 1
           d == [col[c] EXCEPT !.scm = t]
<1>0. /\ ClientTypes /\ IsCollection(col[c]) /\ sess[c].pc = "failed" /\ t \in 0..MaxNow /\ now' = t
      /\ sess' = [sess EXCEPT ![c] = Idle] /\ UNCHANGED disk
      /\ (server_col' = disk /\ sync_state' = NoSync) \/ UNCHANGED <<server_col, sync_state>>
  BY BoundsAssumption DEF TypeInv, ClientTypes, Abort, AbortActive
<1>1. col' = [col EXCEPT ![c] = d]
  BY <1>0 DEF Abort, ClientTypes
<1> HIDE DEF t
<1>2. d = [items |-> col[c].items, graves |-> col[c].graves, revlog |-> col[c].revlog,
           conf |-> col[c].conf, usn |-> col[c].usn, mod |-> col[c].mod, ls |-> col[c].ls, scm |-> t]
  BY <1>0, WithScm
<1> HIDE DEF d
<1>3. /\ col'[c] = d /\ sess'[c] = Idle
      /\ \A b \in Clients \ {c} : col'[b] = col[b] /\ sess'[b] = sess[b]
  BY <1>0, <1>1 DEF ClientTypes
<1>4. /\ col'[c].items = col[c].items /\ col'[c].graves = col[c].graves
      /\ col'[c].revlog = col[c].revlog /\ col'[c].conf = col[c].conf
      /\ col'[c].usn = col[c].usn /\ col'[c].mod = col[c].mod /\ col'[c].scm = t
  BY <1>2, <1>3
<1>5. ~Syncing(c) /\ ~Syncing(c)'
  BY <1>0, <1>3 DEF Syncing, Idle
<1>6. QED
  BY <1>0, <1>3, <1>4, <1>5 DEF ForcesFullSync, Alone, ServerKept, SessionsEnd, t

\* Every step has one of these shapes.
QuietCalls(c, lost) ==
  \/ Start(c, lost) \/ SendGraves(c, lost) \/ ApplyChanges(c, lost) \/ ReceiveChunk(c, lost)
  \/ SendChunk(c, lost) \/ SanityCheck(c, lost)

LEMMA StepShapes ==
  ASSUME TypeInv, [Next]_vars
  PROVE  \/ QuietStep
         \/ \E c \in Clients : Edits(c) \/ Commits(c) \/ Uploads(c) \/ Downloads(c) \/ ForcesFullSync(c)
         \/ \E c \in Clients, lost \in BOOLEAN : QuietCalls(c, lost)
<1>1. ASSUME NEW c \in Clients, NEW lost \in BOOLEAN, Calls(c, lost)
      PROVE  Commits(c) \/ QuietCalls(c, lost)
  BY <1>1, CommitShape DEF Calls, QuietCalls
<1>2. ASSUME NEW c \in Clients, NEW arrives \in BOOLEAN, Abort(c, arrives)
      PROVE  QuietStep \/ ForcesFullSync(c)
  BY <1>2, QuietShape, ForceShape
<1>3. QED
  BY <1>1, <1>2, QuietShape, CommitShape, UploadShape, DownloadShape DEF Next

-----------------------------------------------------------------------------
(* Time stamps.                                                              *)

SameClock(d, e) == e.usn = d.usn /\ e.mod = d.mod /\ e.scm = d.scm

LEMMA AfterGravesFields ==
  ASSUME NEW c \in Clients, IsSession(sess[c]), NEW d, IsCollection(d), NEW todo,
         NEW remote, remote \subseteq Items
  PROVE  LET e == AfterGraves(c, d, todo, remote)
         IN  /\ SameClock(d, e) /\ e.revlog = d.revlog /\ e.conf = d.conf
             /\ todo # {} => e = d
             /\ todo = {} => /\ e.items = Without(d.items, remote)
                             /\ e.graves = Inserted(d.graves, [i \in remote |-> sess[c].server_usn])
<1>1. sess[c].server_usn \in Int /\ remote \in SUBSET Items
  BY DEF IsSession
<1> DEFINE e == ApplyGraves(d, remote, sess[c].server_usn)
<1>2. /\ e.items = Without(d.items, remote) /\ e.graves = Inserted(d.graves, [i \in remote |-> sess[c].server_usn])
      /\ SameClock(d, e) /\ e.revlog = d.revlog /\ e.conf = d.conf
  <2>1. e = [items |-> Without(d.items, remote),
             graves |-> Inserted(d.graves, [i \in remote |-> sess[c].server_usn]),
             revlog |-> d.revlog, conf |-> d.conf, usn |-> d.usn, mod |-> d.mod,
             ls |-> d.ls, scm |-> d.scm]
    BY <1>1, ApplyGravesType
  <2> HIDE DEF e
  <2>2. QED
    BY <2>1 DEF SameClock
<1> HIDE DEF e
<1>3. CASE todo = {}
  <2>1. AfterGraves(c, d, todo, remote) = e
    BY <1>3 DEF AfterGraves, e
  <2>2. QED
    BY <1>2, <1>3, <2>1
<1>4. CASE todo # {}
  BY <1>4 DEF AfterGraves, SameClock
<1>5. QED
  BY <1>3, <1>4

\* A call leaves the server's collection the committed one, or one with the same
\* time stamps as before, and so it does with the client's.
LEMMA CallClock ==
  ASSUME TypeInv, NEW c \in Clients, NEW lost \in BOOLEAN, QuietCalls(c, lost)
  PROVE  /\ CallLeaves(c) /\ Syncing(c)
         /\ SameClock(server_col, server_col') \/ server_col' = disk
         /\ Syncing(c)' => /\ SameClock(col[c], col'[c]) /\ sess'[c].server_usn = sess[c].server_usn
                           /\ Active(c) \/ Start(c, lost)
<1>0. IsCollection(col[c]) /\ IsCollection(server_col) /\ IsCollection(disk)
  BY DurableType
<1>1. CASE Start(c, lost)
  <2>1. Syncing(c) /\ IsSession(sess[c])
    BY <1>1, SyncingIsSession DEF Start, Syncing, TypeInv
  <2> DEFINE remote == PendingIn(disk.graves, col[c].usn)
             local == PendingIn(col[c].graves, PENDING)
             d == StampedGraves(col[c], sess[c].server_usn)
  <2>2. /\ CallLeaves(c) /\ server_col' = disk
        /\ Syncing(c)' => col'[c] = AfterGraves(c, d, local, remote)
                          /\ sess'[c].server_usn = sess[c].server_usn
    BY <1>1, StartShape
  <2>3. remote \subseteq Items
    BY <1>0, PendingInDomain
  <2>4. IsCollection(d) /\ SameClock(col[c], d)
    <3>1. sess[c].server_usn \in Int
      BY <2>1 DEF IsSession
    <3>2. /\ IsCollection(d)
          /\ d = [items |-> col[c].items,
                  graves |-> Stamp(col[c].graves, PendingIn(col[c].graves, PENDING), sess[c].server_usn),
                  revlog |-> col[c].revlog, conf |-> col[c].conf, usn |-> col[c].usn,
                  mod |-> col[c].mod, ls |-> col[c].ls, scm |-> col[c].scm]
      BY <1>0, <3>1, StampedGravesType
    <3> HIDE DEF d
    <3>3. QED
      BY <3>2 DEF SameClock
  <2> HIDE DEF remote, local, d
  <2>5. SameClock(d, AfterGraves(c, d, local, remote))
    BY <2>1, <2>3, <2>4, AfterGravesFields
  <2>6. QED
    BY <1>1, <2>1, <2>2, <2>4, <2>5 DEF SameClock
<1>2. CASE SendGraves(c, lost)
  <2>1. CallLeaves(c) /\ Active(c)
    BY <1>2, SendGravesShape
  <2>2. PICK chunk \in SUBSET sess[c].todo :
          /\ server_col' = ApplyGraves(server_col, chunk, sync_state.server_usn)
          /\ Syncing(c)' => /\ col'[c] = AfterGraves(c, col[c], sess[c].todo \ chunk, sess[c].remote)
                            /\ sess'[c].server_usn = sess[c].server_usn
    BY <1>2, SendGravesShape
  <2>3. /\ IsSession(sess[c]) /\ sess[c].todo \subseteq Items /\ sess[c].remote \subseteq Items
        /\ sync_state.server_usn \in Int /\ Syncing(c) /\ chunk \in SUBSET Items
    BY <1>2, <2>1, ActiveSession DEF Active, IsSession, SessionState, SendGraves
  <2>4. SameClock(server_col, server_col')
    <3> DEFINE e == ApplyGraves(server_col, chunk, sync_state.server_usn)
    <3>1. e = [items |-> Without(server_col.items, chunk),
               graves |-> Inserted(server_col.graves, [i \in chunk |-> sync_state.server_usn]),
               revlog |-> server_col.revlog, conf |-> server_col.conf, usn |-> server_col.usn,
               mod |-> server_col.mod, ls |-> server_col.ls, scm |-> server_col.scm]
      BY <1>0, <2>3, ApplyGravesType
    <3> HIDE DEF e
    <3>2. SameClock(server_col, e)
      BY <3>1 DEF SameClock
    <3>3. QED
      BY <2>2, <3>2 DEF e
  <2> DEFINE todo == sess[c].todo \ chunk
             remote == sess[c].remote
             d == col[c]
  <2>5. Syncing(c)' => col'[c] = AfterGraves(c, d, todo, remote)
    BY <2>2
  <2>6. IsCollection(d) /\ remote \subseteq Items
    BY <1>0, <2>3
  <2> HIDE DEF todo, remote, d
  <2>7. SameClock(d, AfterGraves(c, d, todo, remote))
    BY <2>3, <2>6, AfterGravesFields
  <2>8. QED
    BY <2>1, <2>2, <2>3, <2>4, <2>5, <2>7 DEF d
<1>3. CASE ApplyChanges(c, lost)
  <2>1. CallLeaves(c) /\ Active(c) /\ Syncing(c) /\ IsSession(sess[c])
    BY <1>3, ApplyChangesShape, ActiveSession DEF Active
  <2>2. /\ server_col' = IF sync_state.client_is_newer
                          THEN [DecksMerged(c) EXCEPT !.conf = col[c].conf] ELSE DecksMerged(c)
        /\ Syncing(c)' =>
             /\ col'[c] = IF sync_state.client_is_newer THEN Received(c)
                          ELSE [Received(c) EXCEPT !.conf = server_col.conf]
             /\ sess'[c].server_usn = sess[c].server_usn
    BY <1>3, ApplyChangesShape
  <2>3. SameClock(server_col, DecksMerged(c)) /\ IsCollection(DecksMerged(c))
    <3>1. PartialFunction(DeckRows(c), Items, Row)
      BY <1>0, <2>1, DeckRowsPartial
    <3>2. QED
      BY <1>0, <3>1, MergeDecksType DEF DecksMerged, SameClock
  <2>4. SameClock(col[c], Received(c)) /\ IsCollection(Received(c))
    <3>1. PartialFunction(RemoteRows, Items, Row)
      BY <1>0, CollectionFields, PendingInDomain, RestrictPartial DEF RemoteRows
    <3>2. IsCollection(AfterSending(c)) /\ SameClock(col[c], AfterSending(c))
      BY <1>0, <2>1, DeckRowsPartial DEF SameClock
    <3>3. QED
      BY <3>1, <3>2, MergeDecksType DEF Received, SameClock
  <2>5. /\ SameClock(server_col, [DecksMerged(c) EXCEPT !.conf = col[c].conf])
        /\ SameClock(col[c], [Received(c) EXCEPT !.conf = server_col.conf])
    BY <2>3, <2>4 DEF SameClock, IsCollection
  <2>6. QED
    BY <2>1, <2>2, <2>3, <2>4, <2>5
<1>4. CASE ReceiveChunk(c, lost)
  <2>1. CallLeaves(c) /\ Active(c) /\ server_col' = server_col /\ Syncing(c)
    BY <1>4, ReceiveChunkShape DEF Active
  <2>2. PICK chunk : /\ Holds(server_col, chunk)
                     /\ Syncing(c)' => /\ col'[c] = MergeChunk(col[c], server_col, chunk, PENDING)
                                       /\ sess'[c].server_usn = sess[c].server_usn
    BY <1>4, ReceiveChunkShape
  <2>3. SameClock(col[c], MergeChunk(col[c], server_col, chunk, PENDING))
    BY <1>0, <2>2, MergeChunkType DEF SameClock
  <2>4. QED
    BY <2>1, <2>2, <2>3 DEF SameClock
<1>5. CASE SendChunk(c, lost)
  <2>1. CallLeaves(c) /\ Active(c) /\ Syncing(c) /\ IsSession(sess[c])
    BY <1>5, SendChunkShape, ActiveSession DEF Active
  <2>2. PICK chunk :
          LET sent == StampChunk(col[c], chunk, sess[c].server_usn)
          IN  /\ Holds(sent, chunk)
              /\ server_col' = MergeChunk(server_col, sent, chunk, sync_state.client_usn)
              /\ Syncing(c)' => col'[c] = sent /\ sess'[c].server_usn = sess[c].server_usn
    BY <1>5, SendChunkShape
  <2> DEFINE sent == StampChunk(col[c], chunk, sess[c].server_usn)
  <2>3. IsCollection(sent) /\ SameClock(col[c], sent)
    BY <1>0, <2>1, StampChunkType DEF SameClock, IsSession
  <2>4. /\ Holds(sent, chunk)
        /\ server_col' = MergeChunk(server_col, sent, chunk, sync_state.client_usn)
        /\ Syncing(c)' => col'[c] = sent /\ sess'[c].server_usn = sess[c].server_usn
    BY <2>2
  <2> HIDE DEF sent
  <2>5. SameClock(server_col, MergeChunk(server_col, sent, chunk, sync_state.client_usn))
    BY <1>0, <2>3, <2>4, MergeChunkType DEF SameClock
  <2>6. QED
    BY <2>1, <2>3, <2>4, <2>5
<1>6. CASE SanityCheck(c, lost)
  BY <1>6, SanityCheckShape DEF SameClock, Active
<1>7. QED
  BY <1>1, <1>2, <1>3, <1>4, <1>5, <1>6 DEF QuietCalls

LEMMA ClockInit == Init => ClockInv
BY BoundsAssumption DEF Init, ClockInv, Durable, Syncing, Active, Idle

LEMMA ClockEdits ==
  ASSUME TypeInv, ClockInv, "Import" \notin EditKinds, NEW c \in Clients, Edits(c)
  PROVE  ClockInv'
<1>1. /\ sess[c] = Idle /\ now' = now + 1 /\ UNCHANGED <<sess, disk, server_col, sync_state>>
      /\ \A d \in Clients \ {c} : col'[d] = col[d]
      /\ col'[c].mod = now + 1 /\ col'[c].scm \in {col[c].scm, now + 1}
  BY EditShape DEF Edited
<1>2. ~Syncing(c) /\ ~Syncing(c)' /\ ~Active(c)' /\ Durable(c) = col[c] /\ Durable(c)' = col'[c]
      /\ sess'[c].pc # "start"
  BY <1>1 DEF Syncing, Idle, Active, Durable
<1>3. \A d \in Clients \ {c} : /\ Durable(d)' = Durable(d) /\ (Active(d)' => Active(d))
                               /\ Syncing(d)' = Syncing(d)
  BY <1>1 DEF Durable, Syncing, Active, OwnSession
<1>4. now \in Int /\ disk.mod \in Int /\ disk.scm \in Int
  BY CollectionFields DEF TypeInv, ServerTypes
<1>5. \A d \in Clients : Durable(d).mod \in Int /\ Durable(d).scm \in Int
  BY DurableType, CollectionFields
<1>6. \A d \in Clients : Durable(d)'.mod <= now' /\ Durable(d)'.scm <= now'
  <2>1. CASE TRUE
    BY <1>1, <1>2, <1>3, <1>4, <1>5 DEF ClockInv
  <2>2. QED
    BY <2>1
<1>7. \A d \in Clients : sess[d].pc = "start" => IsSession(sess[d])
  BY SyncingIsSession DEF TypeInv, Syncing
<1>8. \A d \in Clients : sess'[d].pc = "start" =>
        /\ col'[d] = sess'[d].saved /\ sess'[d].server_mod <= now'
        /\ disk'.mod = sess'[d].server_mod => sess'[d].saved.scm = disk'.scm
  BY <1>1, <1>2, <1>4, <1>7 DEF ClockInv, IsSession
<1>9. \A d \in Clients : Syncing(d)' => col'[d].scm = sess'[d].saved.scm
  BY <1>1, <1>2, <1>3 DEF ClockInv
<1>10. \A d \in Clients : Active(d)' => sess'[d].server_usn = disk'.usn /\ col'[d].scm = disk'.scm
  BY <1>1, <1>2, <1>3 DEF ClockInv
<1>11. /\ disk'.mod <= now' /\ disk'.scm <= now'
       /\ server_col'.mod = disk'.mod /\ server_col'.scm = disk'.scm /\ server_col'.usn = disk'.usn
  BY <1>1, <1>4 DEF ClockInv
<1>12. QED
  BY <1>6, <1>8, <1>9, <1>10, <1>11 DEF ClockInv

LEMMA ClockQuiet ==
  ASSUME ClockInv, QuietStep
  PROVE  ClockInv'
<1>1. \A d \in Clients : Durable(d)'.mod <= now' /\ Durable(d)'.scm <= now'
  BY DEF ClockInv, QuietStep
<1>2. \A d \in Clients : sess'[d].pc = "start" => Syncing(d)'
  BY DEF Syncing
<1>3. \A d \in Clients : sess'[d].pc = "start" =>
        /\ col'[d] = sess'[d].saved /\ sess'[d].server_mod <= now'
        /\ disk'.mod = sess'[d].server_mod => sess'[d].saved.scm = disk'.scm
  BY <1>2 DEF ClockInv, QuietStep
<1>4. \A d \in Clients : Syncing(d)' /\ sess'[d] = sess[d] => Syncing(d)
  BY DEF Syncing
<1>5. \A d \in Clients : Syncing(d)' => col'[d].scm = sess'[d].saved.scm
  BY <1>4 DEF ClockInv, QuietStep
<1>6. \A d \in Clients : Active(d)' => sess'[d].server_usn = disk'.usn /\ col'[d].scm = disk'.scm
  BY DEF ClockInv, QuietStep
<1>7. /\ disk'.mod <= now' /\ disk'.scm <= now'
      /\ server_col'.mod = disk'.mod /\ server_col'.scm = disk'.scm /\ server_col'.usn = disk'.usn
  BY DEF ClockInv, QuietStep
<1>8. QED
  BY <1>1, <1>3, <1>5, <1>6, <1>7 DEF ClockInv

LEMMA ClockCalls ==
  ASSUME TypeInv, ClockInv, ~Overlap, NEW c \in Clients, NEW lost \in BOOLEAN, QuietCalls(c, lost)
  PROVE  ClockInv'
<1>1. /\ CallLeaves(c) /\ Syncing(c)
      /\ SameClock(server_col, server_col') \/ server_col' = disk
      /\ Syncing(c)' => /\ SameClock(col[c], col'[c]) /\ sess'[c].server_usn = sess[c].server_usn
                        /\ Active(c) \/ Start(c, lost)
  BY CallClock
<1>2. Start(c, lost) => sess[c].server_usn = disk.usn /\ col[c].scm = disk.scm
  BY DEF Start, ClockInv
<1>3. \A d \in Clients \ {c} : /\ col'[d] = col[d] /\ sess'[d] = sess[d] /\ ~Active(d)'
                               /\ Syncing(d)' = Syncing(d)
  BY <1>1 DEF CallLeaves, Syncing
<1>4. UNCHANGED <<now, disk>> /\ sess'[c].pc # "start" /\ \A d \in Clients : Durable(d)' = Durable(d)
  BY <1>1 DEF CallLeaves
<1>5. \A d \in Clients : Syncing(d)' => col'[d].scm = sess'[d].saved.scm
  BY <1>1, <1>3 DEF ClockInv, CallLeaves, SameClock
<1>6. Active(c)' => sess'[c].server_usn = disk'.usn /\ col'[c].scm = disk'.scm
  BY <1>1, <1>2, <1>4 DEF ClockInv, SameClock, Active
<1>7. server_col'.mod = disk.mod /\ server_col'.scm = disk.scm /\ server_col'.usn = disk.usn
  BY <1>1 DEF ClockInv, SameClock
<1>8. QED
  BY <1>3, <1>4, <1>5, <1>6, <1>7 DEF ClockInv

\* A step that makes a new version of the server's collection, or of one client's
\* that is not syncing.
LEMMA ClockAlone ==
  ASSUME TypeInv, ClockInv, NEW c \in Clients,
         Commits(c) \/ Uploads(c) \/ Downloads(c) \/ ForcesFullSync(c)
  PROVE  ClockInv'
<1>1. /\ ~Syncing(c)' /\ now' = now + 1
      /\ \A d \in Clients \ {c} : col'[d] = col[d] /\ sess'[d] = sess[d]
  BY DEF Commits, Uploads, Downloads, ForcesFullSync, Alone
<1>2. ~Active(c)' /\ Durable(c)' = col'[c] /\ sess'[c].pc # "start"
  BY <1>1 DEF Active, Durable, Syncing
<1>3. \A d \in Clients \ {c} : /\ Durable(d)' = Durable(d) /\ Syncing(d)' = Syncing(d)
  BY <1>1 DEF Durable, Syncing
<1>4. now \in Int /\ disk.mod \in Int /\ disk.scm \in Int /\ disk.usn \in Int
  BY CollectionFields DEF TypeInv, ServerTypes
<1>5. \A d \in Clients : Durable(d).mod \in Int /\ Durable(d).scm \in Int
  BY DurableType, CollectionFields
<1>6. /\ server_col'.mod = disk'.mod /\ server_col'.scm = disk'.scm /\ server_col'.usn = disk'.usn
      /\ disk'.mod \in {disk.mod, now + 1} /\ disk'.scm \in {disk.scm, now + 1}
      /\ disk'.mod = disk.mod => disk'.scm = disk.scm
  BY <1>4 DEF ClockInv, Commits, Uploads, Downloads, ForcesFullSync, ServerKept, SessionsEnd
<1>7. (UNCHANGED <<disk, server_col, sync_state>>) \/ sync_state' = NoSync
  BY DEF Commits, Uploads, Downloads, ForcesFullSync, ServerKept, SessionsEnd
<1>8. \A d \in Clients : Active(d)' => Active(d) /\ d # c /\ UNCHANGED disk
  BY <1>1, <1>2, <1>7, NoClientAssumption DEF Active, OwnSession, NoSync, Syncing
<1>9. Durable(c) = IF Syncing(c) THEN sess[c].saved ELSE col[c]
  BY DEF Durable
<1>10. /\ col'[c].mod \in {Durable(c).mod, now + 1}
       /\ col'[c].scm \in {Durable(c).scm, disk.scm, now + 1}
  <2>1. CASE Commits(c)
    <3>1. Syncing(c) /\ col[c].scm = disk.scm
      BY <2>1 DEF Commits, Active, ClockInv
    <3>2. QED
      BY <1>9, <2>1, <3>1 DEF Commits
  <2>2. CASE Uploads(c) \/ Downloads(c) \/ ForcesFullSync(c)
    BY <1>9, <2>2 DEF Uploads, Downloads, ForcesFullSync, Alone
  <2>3. QED
    BY <2>1, <2>2
<1>11. \A d \in Clients : Durable(d)'.mod <= now' /\ Durable(d)'.scm <= now'
  <2>1. Durable(c)'.mod <= now' /\ Durable(c)'.scm <= now'
    BY <1>1, <1>2, <1>4, <1>5, <1>10 DEF ClockInv
  <2>2. \A d \in Clients \ {c} : Durable(d)'.mod <= now' /\ Durable(d)'.scm <= now'
    BY <1>1, <1>3, <1>4, <1>5 DEF ClockInv
  <2>3. QED
    BY <2>1, <2>2
<1>12. \A d \in Clients : sess[d].pc = "start" => IsSession(sess[d])
  BY SyncingIsSession DEF TypeInv, Syncing
<1>13. ASSUME NEW d \in Clients, sess'[d].pc = "start"
       PROVE  /\ col'[d] = sess'[d].saved /\ sess'[d].server_mod <= now'
              /\ disk'.mod = sess'[d].server_mod => sess'[d].saved.scm = disk'.scm
  <2>1. d # c /\ col'[d] = col[d] /\ sess'[d] = sess[d] /\ IsSession(sess[d])
    BY <1>1, <1>2, <1>12, <1>13
  <2>2. /\ sess[d].server_mod <= now /\ sess[d].server_mod \in Int /\ col[d] = sess[d].saved
        /\ disk.mod = sess[d].server_mod => sess[d].saved.scm = disk.scm
    BY <1>13, <2>1 DEF ClockInv, IsSession
  <2>3. QED
    BY <1>1, <1>4, <1>6, <2>1, <2>2
<1>14. \A d \in Clients : Syncing(d)' => col'[d].scm = sess'[d].saved.scm
  BY <1>1, <1>3 DEF ClockInv
<1>15. \A d \in Clients : Active(d)' => sess'[d].server_usn = disk'.usn /\ col'[d].scm = disk'.scm
  BY <1>1, <1>8 DEF ClockInv
<1>16. disk'.mod <= now' /\ disk'.scm <= now'
  BY <1>1, <1>4, <1>6 DEF ClockInv
<1>17. QED
  BY <1>6, <1>11, <1>13, <1>14, <1>15, <1>16 DEF ClockInv

LEMMA ClockStep ==
  ASSUME TypeInv, ClockInv, "Import" \notin EditKinds, ~Overlap, [Next]_vars
  PROVE  ClockInv'
BY StepShapes, ClockEdits, ClockQuiet, ClockCalls, ClockAlone

-----------------------------------------------------------------------------
(* What the calls do to rows.                                                *)

\* The deletions in ids have been applied to d.
Buried(d, e, ids, usn) ==
  /\ DOMAIN e.items = DOMAIN d.items \ ids
  /\ \A i \in DOMAIN e.items : e.items[i] = d.items[i]
  /\ DOMAIN e.graves = DOMAIN d.graves \cup ids
  /\ \A i \in DOMAIN d.graves : e.graves[i] = d.graves[i]
  /\ \A i \in ids \ DOMAIN d.graves : e.graves[i] = usn
SameRest(d, e) == e.revlog = d.revlog /\ e.conf = d.conf /\ SameClock(d, e)

LEMMA GravesApplied ==
  ASSUME NEW d, NEW ids, NEW usn, NEW e, e.items = Without(d.items, ids),
         e.graves = Inserted(d.graves, [i \in ids |-> usn])
  PROVE  Buried(d, e, ids, usn)
BY DEF Buried, Without, Restrict, Inserted, Replaced

LEMMA ApplyGravesRows ==
  ASSUME NEW d, IsCollection(d), NEW ids, ids \subseteq Items, NEW usn \in Int
  PROVE  Buried(d, ApplyGraves(d, ids, usn), ids, usn) /\ SameRest(d, ApplyGraves(d, ids, usn))
<1> DEFINE e == ApplyGraves(d, ids, usn)
<1>1. e = [items |-> Without(d.items, ids), graves |-> Inserted(d.graves, [i \in ids |-> usn]),
           revlog |-> d.revlog, conf |-> d.conf, usn |-> d.usn, mod |-> d.mod,
           ls |-> d.ls, scm |-> d.scm]
  BY ApplyGravesType
<1> HIDE DEF e
<1>2. e.items = Without(d.items, ids) /\ e.graves = Inserted(d.graves, [i \in ids |-> usn])
  BY <1>1
<1>3. Buried(d, e, ids, usn)
  BY <1>2, GravesApplied
<1>4. SameRest(d, e)
  BY <1>1 DEF SameRest, SameClock
<1>5. QED
  BY <1>3, <1>4 DEF e

LEMMA AfterGravesRows ==
  ASSUME NEW c \in Clients, IsSession(sess[c]), NEW d, IsCollection(d), NEW todo,
         NEW remote, remote \subseteq Items
  PROVE  LET e == AfterGraves(c, d, todo, remote)
         IN  /\ Buried(d, e, IF todo = {} THEN remote ELSE {}, sess[c].server_usn)
             /\ SameRest(d, e)
<1> DEFINE e == AfterGraves(c, d, todo, remote)
<1>1. /\ SameRest(d, e)
      /\ todo # {} => e = d
      /\ todo = {} => /\ e.items = Without(d.items, remote)
                      /\ e.graves = Inserted(d.graves, [i \in remote |-> sess[c].server_usn])
  BY AfterGravesFields DEF SameRest
<1> HIDE DEF e
<1>2. CASE todo = {}
  BY <1>1, <1>2, GravesApplied DEF e
<1>3. CASE todo # {}
  BY <1>1, <1>3 DEF e, Buried
<1>4. QED
  BY <1>2, <1>3

\* The rows in rows have been merged into d where taken says so.
Merged(d, e, rows, taken) ==
  /\ DOMAIN e.items = DOMAIN d.items \cup DOMAIN rows
  /\ \A i \in DOMAIN e.items : e.items[i] = IF i \in taken THEN rows[i] ELSE d.items[i]
  /\ e.graves = d.graves

LEMMA MergeDecksRows ==
  ASSUME NEW d, IsCollection(d), NEW rows, PartialFunction(rows, Items, Row)
  PROVE  /\ Merged(d, MergeDecks(d, rows), rows, TakenDecks(d.items, rows))
         /\ SameRest(d, MergeDecks(d, rows))
<1> DEFINE e == MergeDecks(d, rows)
           taken == TakenDecks(d.items, rows)
<1>1. e = [items |-> Replaced(d.items, Restrict(rows, taken)),
           graves |-> d.graves, revlog |-> d.revlog,
           conf |-> d.conf, usn |-> d.usn, mod |-> d.mod, ls |-> d.ls, scm |-> d.scm]
  BY MergeDecksType
<1>2. taken \subseteq DOMAIN rows /\ DOMAIN rows \ taken \subseteq DOMAIN d.items
  BY DEF TakenDecks
<1> HIDE DEF e, taken
<1> DEFINE new == Replaced(d.items, Restrict(rows, taken))
<1>3. /\ DOMAIN new = DOMAIN d.items \cup DOMAIN rows
      /\ \A i \in DOMAIN new : new[i] = IF i \in taken THEN rows[i] ELSE d.items[i]
  BY <1>2 DEF Replaced, Restrict
<1> HIDE DEF new
<1>4. e.items = new /\ e.graves = d.graves /\ SameRest(d, e)
  BY <1>1 DEF new, SameRest, SameClock
<1>5. QED
  BY <1>3, <1>4 DEF Merged, e, taken

LEMMA MergeChunkRows ==
  ASSUME NEW d, IsCollection(d), NEW from, IsCollection(from), NEW chunk, Holds(from, chunk),
         NEW pending_usn
  PROVE  LET e == MergeChunk(d, from, chunk, pending_usn)
         IN  /\ Merged(d, e, CardRows(from, chunk), TakenCards(d.items, CardRows(from, chunk), pending_usn))
             /\ DOMAIN e.revlog = DOMAIN d.revlog \cup Ids(chunk, "revlog")
             /\ \A t \in DOMAIN d.revlog : e.revlog[t] = d.revlog[t]
             /\ \A t \in DOMAIN e.revlog \ DOMAIN d.revlog : e.revlog[t] = from.revlog[t]
             /\ e.conf = d.conf /\ SameClock(d, e)
<1> DEFINE e == MergeChunk(d, from, chunk, pending_usn)
           rows == CardRows(from, chunk)
           taken == TakenCards(d.items, rows, pending_usn)
           revlog == Inserted(d.revlog, RevlogRows(from, chunk))
<1>1. e = [items |-> Replaced(d.items, Restrict(rows, taken)),
           graves |-> d.graves, revlog |-> revlog,
           conf |-> d.conf, usn |-> d.usn, mod |-> d.mod, ls |-> d.ls, scm |-> d.scm]
  BY MergeChunkType
<1>2. taken \subseteq DOMAIN rows /\ DOMAIN rows \ taken \subseteq DOMAIN d.items
  BY DEF TakenCards
<1>3. /\ DOMAIN revlog = DOMAIN d.revlog \cup Ids(chunk, "revlog")
      /\ \A t \in DOMAIN d.revlog : revlog[t] = d.revlog[t]
      /\ \A t \in DOMAIN revlog \ DOMAIN d.revlog : revlog[t] = from.revlog[t]
  BY DEF Inserted, Replaced, RevlogRows, Restrict
<1> HIDE DEF e, rows, taken, revlog
<1> DEFINE new == Replaced(d.items, Restrict(rows, taken))
<1>4. /\ DOMAIN new = DOMAIN d.items \cup DOMAIN rows
      /\ \A i \in DOMAIN new : new[i] = IF i \in taken THEN rows[i] ELSE d.items[i]
  BY <1>2 DEF Replaced, Restrict
<1> HIDE DEF new
<1>5. e.items = new /\ e.graves = d.graves /\ e.revlog = revlog /\ e.conf = d.conf /\ SameClock(d, e)
  BY <1>1 DEF new, SameClock
<1>6. QED
  BY <1>3, <1>4, <1>5 DEF Merged, e, rows, taken

LEMMA StartRows ==
  ASSUME TypeInv, NEW c \in Clients, NEW lost \in BOOLEAN, Start(c, lost), Syncing(c)'
  PROVE  LET remote == PendingIn(disk.graves, col[c].usn)
             local == PendingIn(col[c].graves, PENDING)
             d == StampedGraves(col[c], sess[c].server_usn)
         IN  /\ IsCollection(d) /\ d.items = col[c].items /\ SameRest(col[c], d)
             /\ DOMAIN d.graves = DOMAIN col[c].graves
             /\ \A i \in DOMAIN d.graves :
                  d.graves[i] = IF i \in local THEN sess[c].server_usn ELSE col[c].graves[i]
             /\ Buried(d, col'[c], IF local = {} THEN remote ELSE {}, sess[c].server_usn)
             /\ SameRest(d, col'[c])
<1> DEFINE remote == PendingIn(disk.graves, col[c].usn)
           local == PendingIn(col[c].graves, PENDING)
           d == StampedGraves(col[c], sess[c].server_usn)
<1>1. Syncing(c) /\ IsSession(sess[c]) /\ IsCollection(col[c]) /\ IsCollection(disk)
      /\ sess[c].server_usn \in Int
  BY DurableType, SyncingIsSession DEF Start, Syncing, TypeInv, IsSession
<1>2. col'[c] = AfterGraves(c, d, local, remote)
  BY StartShape
<1>3. remote \subseteq Items
  BY <1>1, PendingInDomain
<1>4. /\ IsCollection(d)
      /\ d = [items |-> col[c].items,
              graves |-> Stamp(col[c].graves, local, sess[c].server_usn),
              revlog |-> col[c].revlog, conf |-> col[c].conf, usn |-> col[c].usn,
              mod |-> col[c].mod, ls |-> col[c].ls, scm |-> col[c].scm]
  BY <1>1, StampedGravesType
<1> HIDE DEF d, remote, local
<1>5. /\ d.items = col[c].items /\ SameRest(col[c], d)
      /\ DOMAIN d.graves = DOMAIN col[c].graves
      /\ \A i \in DOMAIN d.graves :
           d.graves[i] = IF i \in local THEN sess[c].server_usn ELSE col[c].graves[i]
  BY <1>4 DEF Stamp, SameRest, SameClock
<1>6. /\ Buried(d, AfterGraves(c, d, local, remote), IF local = {} THEN remote ELSE {}, sess[c].server_usn)
      /\ SameRest(d, AfterGraves(c, d, local, remote))
  BY <1>1, <1>3, <1>4, AfterGravesRows
<1>7. QED
  BY <1>2, <1>4, <1>5, <1>6 DEF d, remote, local

LEMMA SendGravesRows ==
  ASSUME TypeInv, NEW c \in Clients, NEW lost \in BOOLEAN, SendGraves(c, lost)
  PROVE  \E chunk \in SUBSET sess[c].todo :
           /\ Buried(server_col, server_col', chunk, sync_state.server_usn)
           /\ SameRest(server_col, server_col')
           /\ Syncing(c)' =>
                LET todo == sess[c].todo \ chunk
                    remote == sess[c].remote
                IN  /\ Buried(col[c], col'[c], IF todo = {} THEN remote ELSE {}, sess[c].server_usn)
                    /\ SameRest(col[c], col'[c])
                    /\ sess'[c].pc = IF todo = {} THEN "changes" ELSE "graves"
                    /\ sess'[c].todo = todo /\ sess'[c].remote = remote
<1>1. PICK chunk \in SUBSET sess[c].todo :
        /\ server_col' = ApplyGraves(server_col, chunk, sync_state.server_usn)
        /\ Syncing(c)' =>
             /\ col'[c] = AfterGraves(c, col[c], sess[c].todo \ chunk, sess[c].remote)
             /\ sess'[c].pc = IF sess[c].todo \ chunk = {} THEN "changes" ELSE "graves"
             /\ sess'[c].todo = sess[c].todo \ chunk /\ sess'[c].remote = sess[c].remote
  BY SendGravesShape
<1>2. Active(c) /\ sess[c].pc = "graves" /\ IsCollection(server_col) /\ IsCollection(col[c])
  BY SendGravesShape, DurableType
<1>3. /\ IsSession(sess[c]) /\ sess[c].todo \subseteq Items /\ sess[c].remote \subseteq Items
      /\ sync_state.server_usn \in Int /\ chunk \subseteq Items
  BY <1>2, ActiveSession DEF IsSession, SessionState
<1>4. Buried(server_col, server_col', chunk, sync_state.server_usn) /\ SameRest(server_col, server_col')
  BY <1>1, <1>2, <1>3, ApplyGravesRows
<1> DEFINE todo == sess[c].todo \ chunk
           remote == sess[c].remote
           d == col[c]
<1>5. IsCollection(d) /\ remote \subseteq Items /\ (Syncing(c)' => col'[c] = AfterGraves(c, d, todo, remote))
  BY <1>1, <1>2, <1>3
<1> HIDE DEF d, todo, remote
<1>6. /\ Buried(d, AfterGraves(c, d, todo, remote), IF todo = {} THEN remote ELSE {}, sess[c].server_usn)
      /\ SameRest(d, AfterGraves(c, d, todo, remote))
  BY <1>3, <1>5, AfterGravesRows
<1>7. QED
  BY <1>1, <1>4, <1>5, <1>6 DEF d, todo, remote

LEMMA ApplyChangesRows ==
  ASSUME TypeInv, NEW c \in Clients, NEW lost \in BOOLEAN, ApplyChanges(c, lost)
  PROVE  /\ AfterSending(c).items = Stamped(col[c].items, SentDecks(c), sess[c].server_usn)
         /\ PartialFunction(AfterSending(c).items, Items, Row)
         /\ DOMAIN DeckRows(c) = SentDecks(c) /\ SentDecks(c) \subseteq DOMAIN col[c].items
         /\ DOMAIN RemoteRows = PendingItems(server_col, Decks, sync_state.client_usn)
         /\ Merged(server_col, server_col', DeckRows(c), TakenDecks(server_col.items, DeckRows(c)))
         /\ server_col'.revlog = server_col.revlog /\ SameClock(server_col, server_col')
         /\ server_col'.conf = IF sync_state.client_is_newer THEN col[c].conf ELSE server_col.conf
         /\ Syncing(c)' =>
              /\ Merged(AfterSending(c), col'[c], RemoteRows,
                        TakenDecks(AfterSending(c).items, RemoteRows))
              /\ col'[c].graves = col[c].graves /\ col'[c].revlog = col[c].revlog
              /\ SameClock(col[c], col'[c])
              /\ col'[c].conf = IF sync_state.client_is_newer THEN col[c].conf ELSE server_col.conf
<1>0. Active(c) /\ IsCollection(col[c]) /\ IsCollection(server_col) /\ IsSession(sess[c])
  BY ApplyChangesShape, DurableType, ActiveSession
<1>1. /\ server_col' = IF sync_state.client_is_newer
                       THEN [DecksMerged(c) EXCEPT !.conf = col[c].conf] ELSE DecksMerged(c)
      /\ Syncing(c)' => col'[c] = IF sync_state.client_is_newer THEN Received(c)
                                  ELSE [Received(c) EXCEPT !.conf = server_col.conf]
  BY ApplyChangesShape
<1>2. /\ IsCollection(AfterSending(c))
      /\ AfterSending(c)
           = [items |-> Stamped(col[c].items, SentDecks(c), sess[c].server_usn),
              graves |-> col[c].graves, revlog |-> col[c].revlog, conf |-> col[c].conf,
              usn |-> col[c].usn, mod |-> col[c].mod, ls |-> col[c].ls, scm |-> col[c].scm]
      /\ PartialFunction(DeckRows(c), Items, Row) /\ DOMAIN DeckRows(c) = SentDecks(c)
      /\ SentDecks(c) \subseteq DOMAIN col[c].items
  BY <1>0, DeckRowsPartial
<1>3. /\ PartialFunction(RemoteRows, Items, Row)
      /\ DOMAIN RemoteRows = PendingItems(server_col, Decks, sync_state.client_usn)
  <2> DEFINE S == PendingItems(server_col, Decks, sync_state.client_usn)
  <2>1. S \subseteq DOMAIN server_col.items /\ PartialFunction(server_col.items, Items, Row)
    BY <1>0, CollectionFields, PendingInDomain
  <2> HIDE DEF S
  <2>2. /\ PartialFunction(Restrict(server_col.items, S), Items, Row)
        /\ DOMAIN Restrict(server_col.items, S) = S
    BY <2>1, RestrictPartial
  <2>3. QED
    BY <2>2 DEF RemoteRows, S
<1> DEFINE a == AfterSending(c)
           m == DecksMerged(c)
           r == Received(c)
<1>4. /\ Merged(server_col, m, DeckRows(c), TakenDecks(server_col.items, DeckRows(c)))
      /\ SameRest(server_col, m) /\ IsCollection(m)
  BY <1>0, <1>2, MergeDecksRows, ReceivedType DEF DecksMerged
<1>5. /\ Merged(a, r, RemoteRows, TakenDecks(a.items, RemoteRows))
      /\ SameRest(a, r) /\ IsCollection(r)
  BY <1>0, <1>2, <1>3, MergeDecksRows, ReceivedType DEF Received
<1>6. /\ a.items = Stamped(col[c].items, SentDecks(c), sess[c].server_usn) /\ SameRest(col[c], a)
      /\ a.graves = col[c].graves
      /\ PartialFunction(a.items, Items, Row)
  BY <1>2, CollectionFields DEF SameRest, SameClock
<1> DEFINE s == server_col'
           e == col'[c]
<1>7. /\ s.items = m.items /\ s.graves = m.graves /\ s.revlog = m.revlog /\ SameClock(m, s)
      /\ s.conf = IF sync_state.client_is_newer THEN col[c].conf ELSE m.conf
  BY <1>1, <1>4 DEF SameClock, IsCollection
<1>8. Syncing(c)' =>
        /\ e.items = r.items /\ e.graves = r.graves /\ e.revlog = r.revlog /\ SameClock(r, e)
        /\ e.conf = IF sync_state.client_is_newer THEN r.conf ELSE server_col.conf
  BY <1>1, <1>5 DEF SameClock, IsCollection
<1> HIDE DEF a, m, r, s, e
<1>9. /\ Merged(server_col, s, DeckRows(c), TakenDecks(server_col.items, DeckRows(c)))
      /\ s.revlog = server_col.revlog /\ SameClock(server_col, s)
      /\ s.conf = IF sync_state.client_is_newer THEN col[c].conf ELSE server_col.conf
  BY <1>4, <1>7 DEF Merged, SameRest, SameClock
<1>10. Syncing(c)' =>
         /\ Merged(a, e, RemoteRows, TakenDecks(a.items, RemoteRows))
         /\ e.graves = col[c].graves /\ e.revlog = col[c].revlog /\ SameClock(col[c], e)
         /\ e.conf = IF sync_state.client_is_newer THEN col[c].conf ELSE server_col.conf
  BY <1>5, <1>6, <1>8 DEF Merged, SameRest, SameClock
<1>11. QED
  BY <1>2, <1>3, <1>6, <1>9, <1>10 DEF a, s, e

\* The rows of a chunk that is received.
LEMMA ReceiveChunkRows ==
  ASSUME TypeInv, NEW c \in Clients, NEW lost \in BOOLEAN, ReceiveChunk(c, lost)
  PROVE  \E chunk \in SUBSET GatheredIds :
           /\ Holds(server_col, chunk) /\ sync_state'.chunk_ids = GatheredIds \ chunk
           /\ DOMAIN CardRows(server_col, chunk) = Ids(chunk, "cards")
           /\ Syncing(c)' =>
                /\ Merged(col[c], col'[c], CardRows(server_col, chunk),
                          TakenCards(col[c].items, CardRows(server_col, chunk), PENDING))
                /\ DOMAIN col'[c].revlog = DOMAIN col[c].revlog \cup Ids(chunk, "revlog")
                /\ \A t \in DOMAIN col[c].revlog : col'[c].revlog[t] = col[c].revlog[t]
                /\ \A t \in DOMAIN col'[c].revlog \ DOMAIN col[c].revlog :
                     col'[c].revlog[t] = server_col.revlog[t]
                /\ col'[c].conf = col[c].conf /\ SameClock(col[c], col'[c])
                /\ \/ sess'[c].pc = "receive"
                   \/ /\ sess'[c].pc = "send" /\ sess'[c].todo = ChunkableIds(col'[c], PENDING)
                      /\ chunk = GatheredIds
<1>1. PICK chunk \in SUBSET GatheredIds :
        /\ Holds(server_col, chunk) /\ sync_state'.chunk_ids = GatheredIds \ chunk
        /\ Syncing(c)' =>
             /\ col'[c] = MergeChunk(col[c], server_col, chunk, PENDING)
             /\ \/ sess'[c].pc = "receive"
                \/ /\ sess'[c].pc = "send"
                   /\ sess'[c].todo = ChunkableIds(MergeChunk(col[c], server_col, chunk, PENDING), PENDING)
                   /\ chunk = GatheredIds
  BY ReceiveChunkShape
<1>2. IsCollection(col[c]) /\ IsCollection(server_col)
  BY DurableType
<1>3. DOMAIN CardRows(server_col, chunk) = Ids(chunk, "cards")
  BY DEF CardRows, Restrict
<1> DEFINE d == col[c]
           e == MergeChunk(d, server_col, chunk, PENDING)
<1>4. /\ Merged(d, e, CardRows(server_col, chunk), TakenCards(d.items, CardRows(server_col, chunk), PENDING))
      /\ DOMAIN e.revlog = DOMAIN d.revlog \cup Ids(chunk, "revlog")
      /\ \A t \in DOMAIN d.revlog : e.revlog[t] = d.revlog[t]
      /\ \A t \in DOMAIN e.revlog \ DOMAIN d.revlog : e.revlog[t] = server_col.revlog[t]
      /\ e.conf = d.conf /\ SameClock(d, e)
  BY <1>1, <1>2, MergeChunkRows
<1>5. Syncing(c)' => col'[c] = e
  BY <1>1
<1> HIDE DEF e
<1>6. Syncing(c)' => \/ sess'[c].pc = "receive"
                     \/ /\ sess'[c].pc = "send" /\ sess'[c].todo = ChunkableIds(e, PENDING)
                        /\ chunk = GatheredIds
  BY <1>1 DEF e
<1>7. QED
  BY <1>1, <1>3, <1>4, <1>5, <1>6

LEMMA SendChunkRows ==
  ASSUME TypeInv, NEW c \in Clients, NEW lost \in BOOLEAN, SendChunk(c, lost)
  PROVE  \E chunk \in SUBSET sess[c].todo :
           LET sent == StampChunk(col[c], chunk, sess[c].server_usn)
           IN  /\ Holds(col[c], chunk) /\ Holds(sent, chunk) /\ IsCollection(sent)
               /\ sent.items = Stamped(col[c].items, Ids(chunk, "cards"), sess[c].server_usn)
               /\ sent.revlog = Stamp(col[c].revlog, Ids(chunk, "revlog"), sess[c].server_usn)
               /\ sent.graves = col[c].graves /\ sent.conf = col[c].conf /\ SameClock(col[c], sent)
               /\ DOMAIN CardRows(sent, chunk) = Ids(chunk, "cards")
               /\ Merged(server_col, server_col', CardRows(sent, chunk),
                         TakenCards(server_col.items, CardRows(sent, chunk), sync_state.client_usn))
               /\ DOMAIN server_col'.revlog = DOMAIN server_col.revlog \cup Ids(chunk, "revlog")
               /\ \A t \in DOMAIN server_col.revlog : server_col'.revlog[t] = server_col.revlog[t]
               /\ \A t \in DOMAIN server_col'.revlog \ DOMAIN server_col.revlog :
                    server_col'.revlog[t] = sent.revlog[t]
               /\ server_col'.conf = server_col.conf /\ SameClock(server_col, server_col')
               /\ Syncing(c)' =>
                    /\ col'[c] = sent /\ sess'[c].todo = sess[c].todo \ chunk
                    /\ \/ sess'[c].pc = "send"
                       \/ sess'[c].pc = "sanity" /\ chunk = sess[c].todo
<1>1. PICK chunk \in SUBSET sess[c].todo :
        LET sent == StampChunk(col[c], chunk, sess[c].server_usn)
        IN  /\ Holds(col[c], chunk) /\ Holds(sent, chunk)
            /\ server_col' = MergeChunk(server_col, sent, chunk, sync_state.client_usn)
            /\ Syncing(c)' =>
                 /\ col'[c] = sent /\ sess'[c].todo = sess[c].todo \ chunk
                 /\ \/ sess'[c].pc = "send"
                    \/ sess'[c].pc = "sanity" /\ chunk = sess[c].todo
  BY SendChunkShape
<1>2. IsCollection(col[c]) /\ IsCollection(server_col) /\ sess[c].server_usn \in Int
  BY SendChunkShape, DurableType, ActiveSession DEF IsSession
<1> DEFINE sent == StampChunk(col[c], chunk, sess[c].server_usn)
           usn == sess[c].server_usn
<1>3. /\ Holds(col[c], chunk) /\ Holds(sent, chunk)
      /\ server_col' = MergeChunk(server_col, sent, chunk, sync_state.client_usn)
      /\ Syncing(c)' =>
           /\ col'[c] = sent /\ sess'[c].todo = sess[c].todo \ chunk
           /\ \/ sess'[c].pc = "send"
              \/ sess'[c].pc = "sanity" /\ chunk = sess[c].todo
  BY <1>1
<1>4. /\ IsCollection(sent)
      /\ sent = [items |-> Stamped(col[c].items, Ids(chunk, "cards"), usn), graves |-> col[c].graves,
                 revlog |-> Stamp(col[c].revlog, Ids(chunk, "revlog"), usn),
                 conf |-> col[c].conf, usn |-> col[c].usn, mod |-> col[c].mod, ls |-> col[c].ls,
                 scm |-> col[c].scm]
  BY <1>2, StampChunkType
<1> HIDE DEF sent
<1>5. /\ sent.items = Stamped(col[c].items, Ids(chunk, "cards"), usn)
      /\ sent.revlog = Stamp(col[c].revlog, Ids(chunk, "revlog"), usn)
      /\ sent.graves = col[c].graves /\ sent.conf = col[c].conf /\ SameClock(col[c], sent)
  BY <1>4 DEF SameClock
<1>6. DOMAIN CardRows(sent, chunk) = Ids(chunk, "cards")
  BY DEF CardRows, Restrict
<1> DEFINE e == MergeChunk(server_col, sent, chunk, sync_state.client_usn)
<1>7. /\ Merged(server_col, e, CardRows(sent, chunk),
                TakenCards(server_col.items, CardRows(sent, chunk), sync_state.client_usn))
      /\ DOMAIN e.revlog = DOMAIN server_col.revlog \cup Ids(chunk, "revlog")
      /\ \A t \in DOMAIN server_col.revlog : e.revlog[t] = server_col.revlog[t]
      /\ \A t \in DOMAIN e.revlog \ DOMAIN server_col.revlog : e.revlog[t] = sent.revlog[t]
      /\ e.conf = server_col.conf /\ SameClock(server_col, e)
  BY SMTT(30), <1>2, <1>3, <1>4, MergeChunkRows
<1>8. server_col' = e
  BY <1>3
<1> HIDE DEF e
<1>9. QED
  BY <1>3, <1>4, <1>5, <1>6, <1>7, <1>8 DEF sent

-----------------------------------------------------------------------------
(* Deletions.                                                                *)

LEMMA GraveInit == Init => GraveInv
<1> SUFFICES ASSUME Init PROVE GraveInv
  OBVIOUS
<1> DEFINE none == <<>>
<1>1. DOMAIN none = {}
  OBVIOUS
<1>2. disk.graves = none /\ server_col = disk /\ disk.usn = 1 /\ disk.scm = 0
  BY DEF Init
<1>3. \A c \in Clients : Durable(c) = disk /\ ~Active(c)
  BY DEF Init, Durable, Active, Syncing, Idle
<1> HIDE DEF none
<1>4. ServerGraves
  BY <1>1, <1>2 DEF ServerGraves
<1>5. GravesKnown(disk)
  BY <1>1, <1>2 DEF GravesKnown
<1>6. QED
  BY <1>3, <1>4, <1>5 DEF GraveInv

LEMMA GraveQuiet ==
  ASSUME GraveInv, QuietStep
  PROVE  GraveInv'
<1>1. ServerGraves'
  BY DEF GraveInv, ServerGraves, QuietStep
<1>2. \A d \in Clients : GravesKnown(Durable(d))'
  BY DEF GraveInv, GravesKnown, QuietStep
<1>3. ASSUME NEW d \in Clients, Active(d)' PROVE GravesExchanged(d)'
  BY <1>3 DEF GraveInv, GravesExchanged, QuietStep
<1>4. QED
  BY <1>1, <1>2, <1>3 DEF GraveInv

LEMMA GraveEdits ==
  ASSUME TypeInv, ClockInv, GraveInv, "Import" \notin EditKinds, NEW c \in Clients, Edits(c)
  PROVE  GraveInv'
<1>1. /\ sess[c] = Idle /\ now' = now + 1 /\ UNCHANGED <<sess, disk, server_col, sync_state>>
      /\ \A d \in Clients \ {c} : col'[d] = col[d]
      /\ Edited(col[c], col'[c])
  BY EditShape
<1>2. ~Syncing(c) /\ ~Active(c)' /\ Durable(c) = col[c] /\ Durable(c)' = col'[c]
  BY <1>1 DEF Syncing, Idle, Active, Durable
<1>3. \A d \in Clients \ {c} : Durable(d)' = Durable(d) /\ (Active(d)' => Active(d))
  BY <1>1 DEF Durable, Syncing, Active, OwnSession
<1>4. disk.scm <= now /\ disk.scm \in Int /\ now \in Int
  BY CollectionFields DEF ClockInv, TypeInv, ServerTypes
<1> DEFINE d == col[c]
           e == col'[c]
<1>5. GravesKnown(d) /\ Edited(d, e)
  BY <1>1, <1>2 DEF GraveInv
<1> HIDE DEF d, e
<1>6. DOMAIN e.items \cap DOMAIN e.graves = {}
  BY <1>5 DEF GravesKnown, Edited, NewTo, Known
<1>7. ASSUME e.scm = disk.scm
      PROVE  /\ e.usn <= disk.usn
             /\ \A i \in DOMAIN e.items \cap DOMAIN disk.graves : disk.graves[i] >= e.usn
             /\ \A i \in DOMAIN e.graves : e.graves[i] = PENDING \/ i \in DOMAIN disk.graves
  <2>1. d.scm = disk.scm /\ e.usn = d.usn
    BY <1>4, <1>5, <1>7 DEF Edited
  <2>2. \A i \in DOMAIN e.items : i \in DOMAIN d.items \/ i \notin DOMAIN disk.graves
    BY <1>5 DEF Edited, NewTo, Known
  <2>3. \A i \in DOMAIN e.graves : e.graves[i] = PENDING \/ (i \in DOMAIN d.graves /\ e.graves[i] = d.graves[i])
    BY <1>5 DEF Edited
  <2>4. QED
    BY <1>5, <2>1, <2>2, <2>3 DEF GravesKnown
<1>8. GravesKnown(Durable(c))'
  BY <1>1, <1>2, <1>6, <1>7 DEF GravesKnown, e
<1>9. \A b \in Clients \ {c} : GravesKnown(Durable(b))'
  BY <1>1, <1>3 DEF GravesKnown, GraveInv
<1>10. ASSUME NEW b \in Clients, Active(b)' PROVE GravesExchanged(b)'
  BY <1>1, <1>2, <1>3, <1>10 DEF GraveInv, GravesExchanged
<1>11. ServerGraves'
  BY <1>1 DEF GraveInv, ServerGraves
<1>12. QED
  BY <1>8, <1>9, <1>10, <1>11 DEF GraveInv

\* What is left to show of a call.
LEMMA GraveCall ==
  ASSUME GraveInv, NEW c \in Clients, CallLeaves(c), ServerGraves', Syncing(c)' => GravesExchanged(c)'
  PROVE  GraveInv'
<1>1. \A d \in Clients : GravesKnown(Durable(d))'
  BY DEF CallLeaves, GraveInv, GravesKnown
<1>2. \A d \in Clients : Active(d)' => d = c /\ Syncing(c)'
  BY DEF CallLeaves, Active
<1>3. QED
  BY <1>1, <1>2 DEF GraveInv

\* Only graves of objects it does not have are added to the server's, with its USN.
LEMMA ServerGravesGrow ==
  ASSUME ServerGraves, UNCHANGED disk, NEW ids,
         DOMAIN server_col'.graves = DOMAIN server_col.graves \cup ids,
         \A i \in DOMAIN server_col.graves : server_col'.graves[i] = server_col.graves[i],
         \A i \in ids \ DOMAIN server_col.graves : server_col'.graves[i] = disk.usn,
         DOMAIN server_col'.items \cap DOMAIN server_col'.graves = {}
  PROVE  ServerGraves'
BY DEF ServerGraves

LEMMA GraveCalls ==
  ASSUME TypeInv, SessionInv, ClockInv, GraveInv, ~Overlap, NEW c \in Clients, NEW lost \in BOOLEAN,
         QuietCalls(c, lost)
  PROVE  GraveInv'
<1>0. ServerGraves /\ CallLeaves(c) /\ UNCHANGED disk
  BY CallClock DEF GraveInv, CallLeaves
<1>1. CASE Start(c, lost)
  <2> DEFINE remote == PendingIn(disk.graves, col[c].usn)
             local == PendingIn(col[c].graves, PENDING)
             d == StampedGraves(col[c], sess[c].server_usn)
  <2>1. server_col' = disk
    BY <1>1, StartShape
  <2>2. ServerGraves'
    BY <1>0, <2>1 DEF ServerGraves
  <2>3. /\ col[c] = sess[c].saved /\ Durable(c) = col[c] /\ col[c].scm = disk.scm
    <3>1. sess[c].pc = "start" /\ Syncing(c) /\ sess[c].server_mod = disk.mod
      BY <1>1 DEF Start, Syncing
    <3>2. QED
      BY <3>1 DEF ClockInv, Durable
  <2>4. GravesKnown(col[c])
    BY <2>3 DEF GraveInv
  <2>5. col[c].usn \in Nat /\ IsCollection(disk)
    BY DurableType, CollectionFields
  <2>6. DOMAIN col[c].items \cap DOMAIN disk.graves \subseteq remote /\ remote \subseteq DOMAIN disk.graves
    BY <2>3, <2>4, <2>5 DEF GravesKnown, PendingIn, IsPending, PENDING
  <2>7. DOMAIN col[c].graves \subseteq DOMAIN disk.graves \cup local /\ local \subseteq DOMAIN col[c].graves
    BY <2>3, <2>4 DEF GravesKnown, PendingIn, IsPending
  <2>8. DOMAIN col[c].items \cap DOMAIN col[c].graves = {}
    BY <2>4 DEF GravesKnown
  <2>9. ASSUME Syncing(c)' PROVE GravesExchanged(c)'
    <3> DEFINE e == col'[c]
    <3>1. /\ DOMAIN d.items = DOMAIN col[c].items /\ DOMAIN d.graves = DOMAIN col[c].graves
          /\ Buried(d, e, IF local = {} THEN remote ELSE {}, sess[c].server_usn)
      BY <1>1, <2>9, StartRows
    <3>2. sess'[c].pc = (IF local = {} THEN "changes" ELSE "graves")
          /\ sess'[c].todo = local /\ sess'[c].remote = remote
      BY <1>1, <2>9, StartShape
    <3> HIDE DEF d, remote, local, e
    <3>3. CASE local = {}
      <4>1. DOMAIN e.items = DOMAIN col[c].items \ remote /\ DOMAIN e.graves = DOMAIN col[c].graves \cup remote
        BY <3>1, <3>3 DEF Buried
      <4>2. QED
        BY <2>1, <2>6, <2>7, <2>8, <3>2, <3>3, <4>1 DEF GravesExchanged, e
    <3>4. CASE local # {}
      <4>1. DOMAIN e.items = DOMAIN col[c].items /\ DOMAIN e.graves = DOMAIN col[c].graves
        BY <3>1, <3>4 DEF Buried
      <4>2. QED
        BY <2>1, <2>6, <2>7, <2>8, <3>2, <3>4, <4>1 DEF GravesExchanged, e
    <3>5. QED
      BY <3>3, <3>4
  <2>10. QED
    BY <1>0, <2>2, <2>9, GraveCall
<1>2. CASE SendGraves(c, lost)
  <2>1. Active(c) /\ sess[c].pc = "graves"
    BY <1>2, SendGravesShape
  <2>2. GravesExchanged(c)
    BY <2>1 DEF GraveInv
  <2>3. sync_state.server_usn = disk.usn
    BY <2>1, ActiveSession, NoClientAssumption
    DEF SessionInv, ServerOk, SessionExclusive, Active, OwnSession, NoSync
  <2>4. PICK chunk \in SUBSET sess[c].todo :
          /\ Buried(server_col, server_col', chunk, disk.usn)
          /\ Syncing(c)' =>
               LET todo == sess[c].todo \ chunk
                   remote == sess[c].remote
               IN  /\ Buried(col[c], col'[c], IF todo = {} THEN remote ELSE {}, sess[c].server_usn)
                   /\ sess'[c].pc = IF todo = {} THEN "changes" ELSE "graves"
                   /\ sess'[c].todo = todo /\ sess'[c].remote = remote
    BY <1>2, <2>3, SendGravesRows
  <2>5. ServerGraves'
    <3>1. DOMAIN server_col'.items \cap DOMAIN server_col'.graves = {}
      BY <1>0, <2>4 DEF Buried, ServerGraves
    <3>2. QED
      BY <1>0, <2>4, <3>1, ServerGravesGrow DEF Buried
  <2>6. ASSUME Syncing(c)' PROVE GravesExchanged(c)'
    <3> DEFINE todo == sess[c].todo \ chunk
               remote == sess[c].remote
               e == col'[c]
               s == server_col'
    <3>1. /\ Buried(col[c], e, IF todo = {} THEN remote ELSE {}, sess[c].server_usn)
          /\ sess'[c].pc = (IF todo = {} THEN "changes" ELSE "graves")
          /\ sess'[c].todo = todo /\ sess'[c].remote = remote
      BY <2>4, <2>6
    <3>2. DOMAIN s.graves = DOMAIN server_col.graves \cup chunk
      BY <2>4 DEF Buried
    <3>3. /\ DOMAIN col[c].items \cap DOMAIN col[c].graves = {}
          /\ todo \subseteq DOMAIN col[c].graves
          /\ remote \subseteq DOMAIN server_col.graves
          /\ DOMAIN col[c].graves \subseteq DOMAIN s.graves \cup todo
          /\ DOMAIN col[c].items \cap DOMAIN s.graves \subseteq remote
      BY <2>1, <2>2, <3>2 DEF GravesExchanged
    <3> HIDE DEF todo, remote, e
    <3>4. CASE todo = {}
      <4>1. DOMAIN e.items = DOMAIN col[c].items \ remote /\ DOMAIN e.graves = DOMAIN col[c].graves \cup remote
        BY <3>1, <3>4 DEF Buried
      <4>2. QED
        BY <3>1, <3>2, <3>3, <3>4, <4>1 DEF GravesExchanged, e
    <3>5. CASE todo # {}
      <4>1. DOMAIN e.items = DOMAIN col[c].items /\ DOMAIN e.graves = DOMAIN col[c].graves
        BY <3>1, <3>5 DEF Buried
      <4>2. QED
        BY <3>1, <3>2, <3>3, <3>5, <4>1 DEF GravesExchanged, e
    <3>6. QED
      BY <3>4, <3>5
  <2>7. QED
    BY <1>0, <2>5, <2>6, GraveCall
<1>3. CASE ApplyChanges(c, lost)
  <2>1. Active(c) /\ sess[c].pc = "changes" /\ GravesExchanged(c)
    BY <1>3, ApplyChangesShape DEF GraveInv
  <2>2. /\ DOMAIN server_col'.items \subseteq DOMAIN server_col.items \cup DOMAIN col[c].items
        /\ server_col'.graves = server_col.graves
        /\ Syncing(c)' => /\ DOMAIN col'[c].items \subseteq DOMAIN server_col.items \cup DOMAIN col[c].items
                          /\ col'[c].graves = col[c].graves
    <3>1. /\ DOMAIN DeckRows(c) \subseteq DOMAIN col[c].items
          /\ DOMAIN RemoteRows \subseteq DOMAIN server_col.items
          /\ DOMAIN AfterSending(c).items = DOMAIN col[c].items
      BY <1>3, ApplyChangesRows DEF PendingItems, Stamped
    <3>2. QED
      BY <1>3, <3>1, ApplyChangesRows DEF Merged
  <2>3. Syncing(c)' => sess'[c].pc = "receive"
    BY <1>3, ApplyChangesShape
  <2>4. ServerGraves' /\ (Syncing(c)' => GravesExchanged(c)')
    BY <1>0, <2>1, <2>2, <2>3 DEF ServerGraves, GravesExchanged
  <2>5. QED
    BY <1>0, <2>4, GraveCall
<1>4. CASE ReceiveChunk(c, lost)
  <2>1. Active(c) /\ sess[c].pc = "receive" /\ GravesExchanged(c) /\ server_col' = server_col
    BY <1>4, ReceiveChunkShape DEF GraveInv
  <2>2. Syncing(c)' => /\ DOMAIN col'[c].items \subseteq DOMAIN server_col.items \cup DOMAIN col[c].items
                       /\ col'[c].graves = col[c].graves /\ sess'[c].pc \in {"receive", "send"}
    BY <1>4, ReceiveChunkRows, HoldsIds DEF Merged
  <2>3. ServerGraves' /\ (Syncing(c)' => GravesExchanged(c)')
    BY <1>0, <2>1, <2>2 DEF ServerGraves, GravesExchanged
  <2>4. QED
    BY <1>0, <2>3, GraveCall
<1>5. CASE SendChunk(c, lost)
  <2>1. Active(c) /\ sess[c].pc = "send" /\ GravesExchanged(c)
    BY <1>5, SendChunkShape DEF GraveInv
  <2>2. PICK chunk \in SUBSET sess[c].todo :
           LET sent == StampChunk(col[c], chunk, sess[c].server_usn)
           IN  /\ Holds(col[c], chunk)
               /\ sent.items = Stamped(col[c].items, Ids(chunk, "cards"), sess[c].server_usn)
               /\ sent.graves = col[c].graves
               /\ DOMAIN CardRows(sent, chunk) = Ids(chunk, "cards")
               /\ Merged(server_col, server_col', CardRows(sent, chunk),
                         TakenCards(server_col.items, CardRows(sent, chunk), sync_state.client_usn))
               /\ Syncing(c)' => col'[c] = sent /\ sess'[c].pc \in {"send", "sanity"}
    BY <1>5, SendChunkRows
  <2> DEFINE sent == StampChunk(col[c], chunk, sess[c].server_usn)
  <2>3. /\ DOMAIN sent.items = DOMAIN col[c].items /\ sent.graves = col[c].graves
        /\ DOMAIN CardRows(sent, chunk) \subseteq DOMAIN col[c].items
    BY <2>2, HoldsIds DEF Stamped
  <2>4. /\ DOMAIN server_col'.items \subseteq DOMAIN server_col.items \cup DOMAIN col[c].items
        /\ server_col'.graves = server_col.graves
        /\ Syncing(c)' => col'[c] = sent /\ sess'[c].pc \in {"send", "sanity"}
    BY <2>2, <2>3 DEF Merged
  <2> HIDE DEF sent
  <2>5. ServerGraves' /\ (Syncing(c)' => GravesExchanged(c)')
    BY <1>0, <2>1, <2>3, <2>4 DEF ServerGraves, GravesExchanged
  <2>6. QED
    BY <1>0, <2>5, GraveCall
<1>6. CASE SanityCheck(c, lost)
  <2>1. Active(c) /\ sess[c].pc = "sanity" /\ GravesExchanged(c) /\ server_col' \in {server_col, disk}
    BY <1>6, SanityCheckShape DEF GraveInv
  <2>2. Syncing(c)' => server_col' = server_col /\ col'[c] = col[c] /\ sess'[c].pc = "finish"
    BY <1>6, SanityCheckShape
  <2>3. ServerGraves' /\ (Syncing(c)' => GravesExchanged(c)')
    BY <1>0, <2>1, <2>2 DEF ServerGraves, GravesExchanged
  <2>4. QED
    BY <1>0, <2>3, GraveCall
<1>7. QED
  BY <1>1, <1>2, <1>3, <1>4, <1>5, <1>6 DEF QuietCalls

\* When the server's collection becomes another, or a client's that is not syncing.
LEMMA GraveAlone ==
  ASSUME GraveInv, NEW c \in Clients, ~Syncing(c)',
         \A d \in Clients \ {c} : col'[d] = col[d] /\ sess'[d] = sess[d],
         ServerKept \/ SessionsEnd, DOMAIN disk'.items \cap DOMAIN disk'.graves = {},
         UNCHANGED disk \/ sync_state' = NoSync,
         \A d \in Clients \ {c} : GravesKnown(Durable(d))',
         GravesKnown(Durable(c))'
  PROVE  GraveInv'
<1>1. \A d \in Clients : Active(d)' => Active(d) /\ d # c /\ ServerKept
  BY NoClientAssumption DEF Active, Syncing, OwnSession, ServerKept, SessionsEnd, NoSync
<1>2. ServerGraves'
  BY DEF GraveInv, ServerGraves, ServerKept, SessionsEnd
<1>3. ASSUME NEW d \in Clients, Active(d)' PROVE GravesExchanged(d)'
  BY <1>1, <1>3 DEF GraveInv, GravesExchanged, ServerKept
<1>4. QED
  BY <1>2, <1>3 DEF GraveInv

LEMMA GraveCommits ==
  ASSUME TypeInv, SessionInv, ClockInv, GraveInv, NEW c \in Clients, Commits(c)
  PROVE  GraveInv'
<1>1. \A d \in Clients \ {c} : Durable(d)' = Durable(d)
  BY DEF Commits, Durable, Syncing
<1>2. Durable(c)' = col'[c] /\ Syncing(c) /\ Durable(c) = sess[c].saved
  BY DEF Commits, Durable, Active
<1>3. /\ disk'.graves = server_col.graves /\ disk'.items = server_col.items
      /\ disk'.scm = disk.scm /\ disk'.usn = disk.usn + 1 /\ disk.usn \in Int
  BY CollectionFields DEF Commits, ClockInv, TypeInv, ServerTypes
<1>4. ServerGraves
  BY DEF GraveInv
<1>5. \A d \in Clients : Durable(d).usn \in Int
  BY DurableType, CollectionFields
<1>6. ASSUME NEW d, GravesKnown(d), d.usn \in Int
      PROVE  /\ DOMAIN d.items \cap DOMAIN d.graves = {}
             /\ d.scm = disk'.scm =>
                  /\ d.usn <= disk'.usn
                  /\ \A i \in DOMAIN d.items \cap DOMAIN disk'.graves : disk'.graves[i] >= d.usn
                  /\ \A i \in DOMAIN d.graves : d.graves[i] = PENDING \/ i \in DOMAIN disk'.graves
  BY <1>3, <1>4, <1>6 DEF GravesKnown, ServerGraves
<1>7. \A d \in Clients : GravesKnown(Durable(d))
  BY DEF GraveInv
<1>8. \A d \in Clients \ {c} : GravesKnown(Durable(d))'
  BY <1>1, <1>5, <1>6, <1>7 DEF GravesKnown
<1>9. GravesKnown(Durable(c))'
  <2>1. CASE col'[c] = sess[c].saved
    <3>1. Durable(c)' = Durable(c)
      BY <1>2, <2>1
    <3>2. QED
      BY <1>5, <1>6, <1>7, <3>1 DEF GravesKnown
  <2>2. CASE col'[c].items = col[c].items /\ col'[c].graves = col[c].graves
             /\ col'[c].usn = sess[c].server_usn + 1
    <3>1. GravesExchanged(c) /\ sess[c].pc = "finish" /\ sess[c].server_usn = disk.usn
      BY DEF GraveInv, Commits, ClockInv
    <3>2. QED
      BY <1>2, <1>3, <2>2, <3>1 DEF GravesKnown, GravesExchanged
  <2>3. QED
    BY <2>1, <2>2 DEF Commits
<1>10. DOMAIN disk'.items \cap DOMAIN disk'.graves = {}
  BY <1>3, <1>4 DEF ServerGraves
<1>11. QED
  BY <1>8, <1>9, <1>10, GraveAlone DEF Commits, SessionsEnd

LEMMA GraveOneWay ==
  ASSUME TypeInv, ClockInv, GraveInv, NEW c \in Clients,
         Uploads(c) \/ Downloads(c) \/ ForcesFullSync(c)
  PROVE  GraveInv'
<1>1. Alone(c)
  BY DEF Uploads, Downloads, ForcesFullSync
<1>2. \A d \in Clients \ {c} : Durable(d)' = Durable(d)
  BY <1>1 DEF Alone, Durable, Syncing
<1>3. Durable(c)' = col'[c] /\ Durable(c) = col[c]
  BY <1>1 DEF Alone, Durable
<1>4. /\ now \in Int /\ disk.scm \in Int /\ disk.scm <= now /\ disk.usn \in Int
      /\ \A d \in Clients : Durable(d).scm \in Int /\ Durable(d).scm <= now /\ Durable(d).usn \in Int
  BY DurableType, CollectionFields DEF ClockInv, TypeInv, ServerTypes
<1>5. \A d \in Clients : GravesKnown(Durable(d))
  BY DEF GraveInv
<1>6. ServerGraves
  BY DEF GraveInv
<1>7. CASE Uploads(c)
  <2>1. DOMAIN col'[c].graves = {} /\ col'[c].scm = now + 1
    BY <1>7 DEF Uploads
  <2>2. (ServerKept /\ disk' = disk) \/ (disk' = col'[c] /\ SessionsEnd)
    BY <1>7 DEF Uploads, ServerKept
  <2>3. DOMAIN disk'.items \cap DOMAIN disk'.graves = {}
    BY <1>6, <2>1, <2>2 DEF ServerGraves
  <2>4. GravesKnown(Durable(c))'
    <3>1. CASE disk' = disk
      BY <1>3, <1>4, <2>1, <3>1 DEF GravesKnown
    <3>2. CASE disk' = col'[c]
      <4>1. col'[c].usn = Durable(c).usn + 1
        BY <1>3, <1>7 DEF Uploads
      <4>2. QED
        BY <1>3, <1>4, <2>1, <3>2, <4>1 DEF GravesKnown
    <3>3. QED
      BY <2>2, <3>1, <3>2
  <2>5. \A d \in Clients \ {c} : GravesKnown(Durable(d))'
    <3>1. CASE disk' = disk
      BY <1>2, <1>5, <3>1 DEF GravesKnown
    <3>2. CASE disk' = col'[c]
      <4>1. \A d \in Clients : Durable(d).scm # disk'.scm
        BY <1>4, <2>1, <3>2
      <4>2. QED
        BY <1>2, <1>5, <4>1 DEF GravesKnown
    <3>3. QED
      BY <2>2, <3>1, <3>2
  <2>6. QED
    BY <1>1, <2>2, <2>3, <2>4, <2>5, GraveAlone DEF Alone, SessionsEnd
<1>8. CASE Downloads(c)
  <2>1. /\ disk'.items = disk.items /\ disk'.graves = disk.graves /\ disk'.usn = disk.usn + 1
        /\ disk'.scm = disk.scm /\ SessionsEnd
    BY <1>8 DEF Downloads
  <2>2. DOMAIN disk'.items \cap DOMAIN disk'.graves = {}
    BY <1>6, <2>1 DEF ServerGraves
  <2>3. ASSUME NEW d, GravesKnown(d), d.usn \in Int
        PROVE  /\ DOMAIN d.items \cap DOMAIN d.graves = {}
               /\ d.scm = disk'.scm =>
                    /\ d.usn <= disk'.usn
                    /\ \A i \in DOMAIN d.items \cap DOMAIN disk'.graves : disk'.graves[i] >= d.usn
                    /\ \A i \in DOMAIN d.graves : d.graves[i] = PENDING \/ i \in DOMAIN disk'.graves
    BY <1>4, <2>1, <2>3 DEF GravesKnown
  <2>4. \A d \in Clients \ {c} : GravesKnown(Durable(d))'
    BY <1>2, <1>4, <1>5, <2>3 DEF GravesKnown
  <2>5. GravesKnown(Durable(c))'
    <3>1. CASE col'[c] = col[c]
      <4>1. Durable(c)' = Durable(c)
        BY <1>3, <3>1
      <4>2. QED
        BY <1>4, <1>5, <2>3, <4>1 DEF GravesKnown
    <3>2. CASE col'[c].items = disk.items /\ col'[c].graves = disk.graves
               /\ col'[c].usn = disk.usn + 1
      BY <1>3, <1>4, <1>6, <2>1, <3>2 DEF GravesKnown, ServerGraves
    <3>3. QED
      BY <1>8, <3>1, <3>2 DEF Downloads
  <2>6. QED
    BY <1>1, <2>1, <2>2, <2>4, <2>5, GraveAlone DEF Alone, SessionsEnd
<1>9. CASE ForcesFullSync(c)
  <2>1. /\ col'[c].items = col[c].items /\ col'[c].graves = col[c].graves /\ col'[c].scm = now + 1
        /\ UNCHANGED disk /\ (ServerKept \/ SessionsEnd)
    BY <1>9 DEF ForcesFullSync
  <2>2. DOMAIN disk'.items \cap DOMAIN disk'.graves = {}
    BY <1>6, <2>1 DEF ServerGraves
  <2>3. GravesKnown(Durable(c))'
    BY <1>3, <1>4, <1>5, <2>1 DEF GravesKnown
  <2>4. \A d \in Clients \ {c} : GravesKnown(Durable(d))'
    BY <1>2, <1>5, <2>1 DEF GravesKnown
  <2>5. QED
    BY <1>1, <2>1, <2>2, <2>3, <2>4, GraveAlone DEF Alone
<1>10. QED
  BY <1>7, <1>8, <1>9

GraveState == TypeInv /\ SessionInv /\ ClockInv /\ GraveInv

LEMMA GraveStateStep ==
  ASSUME GraveState, "Import" \notin EditKinds, ~Overlap, [Next]_vars
  PROVE  GraveState'
<1>1. TypeInv /\ SessionInv /\ ClockInv /\ GraveInv
  BY DEF GraveState
<1>2. TypeInv' /\ SessionInv' /\ ClockInv'
  BY <1>1, TypeInvStep, SessionInvStep, ClockStep
<1>3. GraveInv'
  BY <1>1, StepShapes, GraveQuiet, GraveEdits, GraveCommits, GraveOneWay, GraveCalls
<1>4. QED
  BY <1>2, <1>3 DEF GraveState

\* A deletion made on any device is never undone by an edit of the same object on
\* another, in whatever order devices sync, whatever calls fail and whoever is
\* restarted: as long as deleted objects are not imported again under their old
\* id, and no other sync ends between a client's meta and its start.
THEOREM DeletionsLast ==
  ASSUME "Import" \notin EditKinds, ~Overlap
  PROVE  Spec => []NoResurrection
<1>1. Init => GraveState
  BY TypeInvInit, SessionInvInit, ClockInit, GraveInit DEF GraveState
<1>2. GraveState /\ [Next]_vars => GraveState'
  BY GraveStateStep
<1>3. GraveState => NoResurrection
  BY DEF GraveState, GraveInv, ServerGraves, GravesKnown, NoResurrection
<1>4. QED
  BY <1>1, <1>2, <1>3, PTL DEF Spec

-----------------------------------------------------------------------------
(* Versions, with one time stamp per second.                                 *)

LEMMA RowTypes ==
  ASSUME NEW d, IsCollection(d)
  PROVE  /\ DOMAIN d.items \subseteq Items
         /\ \A i \in DOMAIN d.items : d.items[i].rev \in Int /\ d.items[i].usn \in Int
         /\ \A i \in DOMAIN d.graves : d.graves[i] \in Int
         /\ \A t \in DOMAIN d.revlog : d.revlog[t] \in Int
BY CollectionFields DEF PartialFunction, Row

LEMMA SecIsTime ==
  ASSUME MsPerSec = 1
  PROVE  \A t \in Int : Sec(t) = t
BY DEF Sec

LEMMA InIds ==
  ASSUME NEW d, NEW ids, Holds(d, ids)
  PROVE  /\ \A i : <<"cards", i>> \in ids <=> i \in Ids(ids, "cards")
         /\ \A t : <<"revlog", t>> \in ids <=> t \in Ids(ids, "revlog")
BY DEF Holds, Ids

\* What the server sends, it has got from a client or committed earlier.
LEMMA ServerUsns ==
  ASSUME TypeInv, GraveInv, MergeInv
  PROVE  /\ \A i \in DOMAIN server_col.items : server_col.items[i].usn \in 0..disk.usn
         /\ \A i \in DOMAIN server_col.graves : server_col.graves[i] \in 0..disk.usn
         /\ \A t \in DOMAIN server_col.revlog : server_col.revlog[t] \in 0..disk.usn
<1>1. IsCollection(disk) /\ disk.usn \in Nat
  BY CollectionFields DEF TypeInv, ServerTypes
<1>2. UsnsBelow(disk, disk.usn) /\ NonePending(disk) /\ ServerMerges /\ ServerGraves
  BY DEF MergeInv, GraveInv
<1>3. /\ \A i \in DOMAIN disk.items : disk.items[i].usn \in 0..disk.usn
      /\ \A i \in DOMAIN disk.graves : disk.graves[i] \in 0..disk.usn
      /\ \A t \in DOMAIN disk.revlog : disk.revlog[t] \in 0..disk.usn
  BY <1>1, <1>2, RowTypes DEF UsnsBelow, NonePending, PENDING
<1>4. QED
  BY <1>1, <1>2, <1>3 DEF ServerMerges, ServerGraves

LEMMA ServerMergesItself ==
  ASSUME IsCollection(disk), server_col = disk
  PROVE  ServerMerges
BY RowTypes DEF ServerMerges

LEMMA SeenItself ==
  ASSUME NEW d, IsCollection(d), NEW usn
  PROVE  Seen(d, d, usn) /\ Stored(d, d)
BY RowTypes DEF Seen, Stored

LEMMA MergeInit == Init => MergeInv
<1> SUFFICES ASSUME Init PROVE MergeInv
  OBVIOUS
<1> DEFINE none == <<>>
<1>1. DOMAIN none = {}
  OBVIOUS
<1>2. /\ disk.graves = none /\ disk.revlog = none /\ server_col = disk /\ disk.usn = 1 /\ now = 0
      /\ \A i \in DOMAIN disk.items : disk.items[i] = [rev |-> 0, usn |-> 0]
  BY DEF Init
<1>3. \A c \in Clients : Durable(c) = disk /\ col[c] = disk /\ ~Active(c)
  BY DEF Init, Durable, Active, Syncing, Idle
<1> HIDE DEF none
<1>4. RevsPast(disk) /\ UsnsBelow(disk, disk.usn) /\ NonePending(disk)
  BY <1>1, <1>2 DEF RevsPast, UsnsBelow, NonePending, PENDING
<1>5. IsCollection(disk)
  BY TypeInvInit DEF TypeInv, ServerTypes
<1>6. ServerMerges /\ \A usn : Seen(disk, disk, usn) /\ Stored(disk, disk)
  BY <1>2, <1>5, ServerMergesItself, SeenItself
<1>7. QED
  BY <1>2, <1>3, <1>4, <1>6 DEF MergeInv

LEMMA MergeQuiet ==
  ASSUME TypeInv, MergeInv, QuietStep
  PROVE  MergeInv'
<1>0. IsCollection(disk) /\ UNCHANGED <<now, disk>> /\ server_col' \in {server_col, disk}
  BY DEF TypeInv, ServerTypes, QuietStep
<1>1. ServerMerges'
  <2>1. CASE server_col' = server_col
    BY <1>0, <2>1 DEF MergeInv, ServerMerges
  <2>2. CASE server_col' = disk
    BY <1>0, <2>2, RowTypes DEF ServerMerges
  <2>3. QED
    BY <1>0, <2>1, <2>2
<1>2. /\ RevsPast(disk)' /\ RevsPast(server_col)' /\ UsnsBelow(disk, disk.usn)' /\ NonePending(disk)'
  BY <1>0 DEF MergeInv, RevsPast, UsnsBelow, NonePending
<1>3. ASSUME NEW c \in Clients
      PROVE  /\ RevsPast(col[c])' /\ RevsPast(Durable(c))' /\ UsnsBelow(Durable(c), Durable(c).usn)'
             /\ SameSchema(c)' => Seen(Durable(c), disk, Durable(c).usn)' /\ Stored(Durable(c), disk)'
  <2>1. Durable(c)' = Durable(c) /\ col'[c] \in {col[c], Durable(c)}
    BY DEF QuietStep
  <2>2. RevsPast(col[c])' /\ RevsPast(Durable(c))'
    BY <1>0, <2>1 DEF MergeInv, RevsPast
  <2>3. UsnsBelow(Durable(c), Durable(c).usn)'
    BY <2>1 DEF MergeInv, UsnsBelow
  <2>4. SameSchema(c)' => Seen(Durable(c), disk, Durable(c).usn)' /\ Stored(Durable(c), disk)'
    BY <1>0, <2>1 DEF MergeInv, SameSchema, Seen, Stored
  <2>5. QED
    BY <2>2, <2>3, <2>4
<1>4. ASSUME NEW c \in Clients, Active(c)' PROVE Merging(c)'
  <2>1. Active(c) /\ col'[c] = col[c] /\ sess'[c] = sess[c] /\ UNCHANGED <<server_col, sync_state, disk>>
    BY <1>0, <1>4 DEF QuietStep
  <2>2. Merging(c)
    BY <2>1 DEF MergeInv
  <2>3. QED
    BY <2>1, <2>2 DEF Merging, NoneLost, UsnsBelow, Stored, Seen, DecksMerge, ChunksMerge, PendingSent,
       ToReceive, ToSend, GatheredIds
<1>5. QED
  BY <1>1, <1>2, <1>3, <1>4 DEF MergeInv

LEMMA MergeEdits ==
  ASSUME TypeInv, ClockInv, GraveInv, MergeInv, "Import" \notin EditKinds, "Reset" \notin EditKinds,
         NEW c \in Clients, Edits(c)
  PROVE  MergeInv'
<1>1. /\ sess[c] = Idle /\ now' = now + 1 /\ UNCHANGED <<sess, disk, server_col, sync_state>>
      /\ \A d \in Clients \ {c} : col'[d] = col[d]
      /\ Edited(col[c], col'[c])
  BY EditShape
<1>2. ~Syncing(c) /\ ~Active(c)' /\ Durable(c) = col[c] /\ Durable(c)' = col'[c]
  BY <1>1 DEF Syncing, Idle, Active, Durable
<1>3. \A d \in Clients \ {c} : Durable(d)' = Durable(d) /\ (Active(d)' => Active(d))
  BY <1>1 DEF Durable, Syncing, Active, OwnSession
<1>4. /\ disk.scm <= now /\ disk.scm \in Int /\ now \in Int
      /\ IsCollection(disk) /\ IsCollection(server_col)
  BY CollectionFields DEF ClockInv, TypeInv, ServerTypes
<1>5. /\ RevsPast(disk)' /\ RevsPast(server_col)' /\ UsnsBelow(disk, disk.usn)' /\ NonePending(disk)'
      /\ ServerMerges'
  BY <1>1, <1>4, RowTypes DEF MergeInv, RevsPast, UsnsBelow, NonePending, ServerMerges
<1>6. ASSUME NEW b \in Clients \ {c}
      PROVE  /\ RevsPast(col[b])' /\ RevsPast(Durable(b))' /\ UsnsBelow(Durable(b), Durable(b).usn)'
             /\ SameSchema(b)' => Seen(Durable(b), disk, Durable(b).usn)' /\ Stored(Durable(b), disk)'
  <2>1. Durable(b)' = Durable(b) /\ col'[b] = col[b]
    BY <1>1, <1>3
  <2>2. RevsPast(col[b])' /\ RevsPast(Durable(b))'
    BY <1>1, <1>4, <2>1, DurableType, RowTypes DEF MergeInv, RevsPast
  <2>3. UsnsBelow(Durable(b), Durable(b).usn)'
    BY <2>1 DEF MergeInv, UsnsBelow
  <2>4. SameSchema(b)' => Seen(Durable(b), disk, Durable(b).usn)' /\ Stored(Durable(b), disk)'
    BY <1>1, <2>1 DEF MergeInv, SameSchema, Seen, Stored
  <2>5. QED
    BY <2>2, <2>3, <2>4
<1> DEFINE d == col[c]
           e == col'[c]
<1>7. /\ Edited(d, e) /\ RevsPast(d) /\ UsnsBelow(d, d.usn) /\ IsCollection(d)
      /\ d.scm = disk.scm => Seen(d, disk, d.usn) /\ Stored(d, disk)
  BY <1>1, <1>2, DurableType DEF MergeInv, SameSchema
<1> HIDE DEF d, e
<1>8. \A i \in DOMAIN e.items : e.items[i].rev <= now + 1
  BY <1>4, <1>7, RowTypes DEF RevsPast, Edited
<1>9. UsnsBelow(e, e.usn)
  <2>1. d.usn \in Nat /\ e.usn = d.usn
    BY <1>7, CollectionFields DEF Edited
  <2>2. QED
    BY <1>7, <2>1 DEF UsnsBelow, Edited, PENDING
<1>10. ASSUME e.scm = disk.scm PROVE Seen(e, disk, e.usn) /\ Stored(e, disk)
  <2>1. d.scm = disk.scm /\ e.usn = d.usn
    BY <1>4, <1>7, <1>10 DEF Edited
  <2>2. Seen(d, disk, d.usn) /\ Stored(d, disk) /\ RevsPast(disk)
    BY <1>7, <2>1 DEF MergeInv
  <2>3. \A i \in DOMAIN disk.items : disk.items[i].rev <= now + 1
    BY <1>4, <2>2, RowTypes DEF RevsPast
  <2>4. \A i \in DOMAIN d.items :
          i \in DOMAIN e.graves \/ (i \in DOMAIN e.items /\ (e.items[i] = d.items[i] \/ e.items[i].rev = now + 1))
    BY <1>7 DEF Edited
  <2>5. /\ \A i \in DOMAIN d.graves : i \in DOMAIN e.graves
        /\ \A t \in DOMAIN d.revlog : t \in DOMAIN e.revlog
    BY <1>7 DEF Edited
  <2>6. Seen(e, disk, e.usn)
    BY <2>1, <2>2, <2>3, <2>4, <2>5 DEF Seen
  <2>7. /\ \A i \in DOMAIN e.items : e.items[i].usn = PENDING \/ (i \in DOMAIN d.items /\ e.items[i] = d.items[i])
        /\ \A t \in DOMAIN e.revlog : e.revlog[t] = PENDING \/ (t \in DOMAIN d.revlog /\ e.revlog[t] = d.revlog[t])
    BY <1>7 DEF Edited
  <2>8. Stored(e, disk)
    BY <2>2, <2>7 DEF Stored
  <2>9. QED
    BY <2>6, <2>8
<1>11. /\ RevsPast(col[c])' /\ RevsPast(Durable(c))' /\ UsnsBelow(Durable(c), Durable(c).usn)'
       /\ SameSchema(c)' => Seen(Durable(c), disk, Durable(c).usn)' /\ Stored(Durable(c), disk)'
  BY <1>1, <1>2, <1>8, <1>9, <1>10 DEF RevsPast, UsnsBelow, SameSchema, Seen, Stored, e
<1>12. ASSUME NEW b \in Clients, Active(b)' PROVE Merging(b)'
  <2>1. Active(b) /\ b # c /\ col'[b] = col[b] /\ UNCHANGED <<sess, disk, server_col, sync_state>>
    BY <1>1, <1>2, <1>3, <1>12
  <2>2. Merging(b)
    BY <2>1 DEF MergeInv
  <2>3. QED
    BY <2>1, <2>2 DEF Merging, NoneLost, UsnsBelow, Stored, Seen, DecksMerge, ChunksMerge, PendingSent,
       ToReceive, ToSend, GatheredIds
<1>13. QED
  BY <1>5, <1>6, <1>11, <1>12 DEF MergeInv

\* What is left to show of a call.
LEMMA MergeCall ==
  ASSUME MergeInv, NEW c \in Clients, CallLeaves(c), Syncing(c), RevsPast(server_col)', ServerMerges',
         Syncing(c)' => RevsPast(col[c])' /\ Merging(c)'
  PROVE  MergeInv'
<1>1. UNCHANGED <<now, disk>> /\ \A b \in Clients : Durable(b)' = Durable(b)
  BY DEF CallLeaves
<1>2. RevsPast(disk)' /\ UsnsBelow(disk, disk.usn)' /\ NonePending(disk)'
  BY <1>1 DEF MergeInv, RevsPast, UsnsBelow, NonePending
<1>3. ASSUME NEW b \in Clients
      PROVE  /\ RevsPast(Durable(b))' /\ UsnsBelow(Durable(b), Durable(b).usn)'
             /\ SameSchema(b)' => Seen(Durable(b), disk, Durable(b).usn)' /\ Stored(Durable(b), disk)'
  BY <1>1 DEF MergeInv, RevsPast, UsnsBelow, SameSchema, Seen, Stored
<1>4. \A b \in Clients : RevsPast(col[b])'
  <2>1. \A b \in Clients \ {c} : RevsPast(col[b])'
    BY <1>1 DEF CallLeaves, MergeInv, RevsPast
  <2>2. ~Syncing(c)' => RevsPast(col[c])'
    BY <1>1 DEF CallLeaves, MergeInv, RevsPast, Durable
  <2>3. QED
    BY <2>1, <2>2
<1>5. \A b \in Clients : Active(b)' => b = c /\ Syncing(c)'
  BY DEF CallLeaves, Active
<1>6. QED
  BY <1>2, <1>3, <1>4, <1>5 DEF MergeInv

\* The part of Merging that says what has become of deletions and versions.
LEMMA BuriedKeeps ==
  ASSUME NEW d, NEW e, NEW ids, NEW usn, Buried(d, e, ids, usn), e.revlog = d.revlog,
         IsCollection(d)
  PROVE  /\ \A i \in DOMAIN d.items :
              i \in DOMAIN e.graves \/ (i \in DOMAIN e.items /\ e.items[i] = d.items[i])
         /\ \A i \in DOMAIN e.items : i \in DOMAIN d.items /\ e.items[i] = d.items[i]
         /\ \A i \in DOMAIN d.graves : i \in DOMAIN e.graves
         /\ \A i \in DOMAIN e.graves :
              e.graves[i] = usn \/ (i \in DOMAIN d.graves /\ e.graves[i] = d.graves[i])
BY DEF Buried

LEMMA MergeStart ==
  ASSUME TypeInv, ClockInv, GraveInv, MergeInv, ~Overlap, NEW c \in Clients, NEW lost \in BOOLEAN,
         Start(c, lost)
  PROVE  MergeInv'
<1>0. IsCollection(disk) /\ IsCollection(col[c])
  BY DurableType
<1>1. CallLeaves(c) /\ Syncing(c) /\ server_col' = disk /\ sync_state'.client_usn = col[c].usn
  BY StartShape DEF Start, Syncing
<1>2. UNCHANGED <<now, disk>>
  BY <1>1 DEF CallLeaves
<1>3. /\ col[c] = sess[c].saved /\ Durable(c) = col[c] /\ SameSchema(c) /\ sess[c].server_usn = disk.usn
  BY <1>1 DEF Start, ClockInv, Durable, SameSchema
<1>4. /\ RevsPast(col[c]) /\ UsnsBelow(col[c], col[c].usn) /\ col[c].usn <= disk.usn
      /\ Seen(col[c], disk, col[c].usn) /\ Stored(col[c], disk)
  BY <1>3 DEF MergeInv, GraveInv, GravesKnown, SameSchema
<1>5. ServerMerges' /\ RevsPast(server_col)'
  BY <1>0, <1>1, <1>2, RowTypes DEF ServerMerges, MergeInv, RevsPast
<1>6. ASSUME Syncing(c)' PROVE RevsPast(col[c])' /\ Merging(c)'
  <2> DEFINE local == PendingIn(col[c].graves, PENDING)
             ids == IF local = {} THEN PendingIn(disk.graves, col[c].usn) ELSE {}
             usn == sess[c].server_usn
             d == StampedGraves(col[c], usn)
             e == col'[c]
  <2>1. /\ IsCollection(d) /\ d.items = col[c].items /\ d.revlog = col[c].revlog
        /\ DOMAIN d.graves = DOMAIN col[c].graves
        /\ \A i \in DOMAIN d.graves : d.graves[i] = IF i \in local THEN usn ELSE col[c].graves[i]
        /\ Buried(d, e, ids, usn) /\ e.revlog = d.revlog
    BY <1>6, StartRows DEF SameRest
  <2>2. /\ sess'[c].pc \in {"graves", "changes"} /\ sess'[c].saved = sess[c].saved
    BY <1>1, <1>6, StartShape DEF CallLeaves
  <2>3. usn \in Nat /\ usn = disk.usn /\ col[c].usn \in Nat
    BY <1>0, <1>3, CollectionFields
  <2>4. \A i \in DOMAIN d.graves : d.graves[i] # PENDING
    BY <2>1, <2>3 DEF PendingIn, IsPending, PENDING
  <2>5. \A i \in DOMAIN d.graves : d.graves[i] \in -1..usn
    BY <1>0, <1>4, <2>1, <2>3 DEF UsnsBelow
  <2> HIDE DEF local, ids, usn, d, e
  <2>6. /\ \A i \in DOMAIN d.items :
             i \in DOMAIN e.graves \/ (i \in DOMAIN e.items /\ e.items[i] = d.items[i])
        /\ \A i \in DOMAIN e.items : i \in DOMAIN d.items /\ e.items[i] = d.items[i]
        /\ \A i \in DOMAIN d.graves : i \in DOMAIN e.graves
        /\ \A i \in DOMAIN e.graves :
             e.graves[i] = usn \/ (i \in DOMAIN d.graves /\ e.graves[i] = d.graves[i])
    BY <2>1, BuriedKeeps
  <2>7. RevsPast(col[c])'
    BY <1>2, <1>4, <2>1, <2>6 DEF RevsPast, e
  <2>8. NoneLost(c)'
    BY <1>0, <1>3, <2>1, <2>2, <2>6, RowTypes DEF NoneLost, e
  <2>9. UsnsBelow(col[c], disk.usn + 1)'
    <3>1. /\ \A i \in DOMAIN e.items : e.items[i].usn \in -1..usn
          /\ \A t \in DOMAIN e.revlog : e.revlog[t] \in -1..usn
      BY <1>0, <1>4, <2>1, <2>3, <2>6 DEF UsnsBelow
    <3>2. \A i \in DOMAIN e.graves : e.graves[i] \in -1..usn
      BY <2>3, <2>5, <2>6
    <3>3. UsnsBelow(e, usn + 1)
      BY <2>3, <3>1, <3>2 DEF UsnsBelow
    <3>4. QED
      BY <1>2, <2>3, <3>3 DEF UsnsBelow, e
  <2>10. \A i \in DOMAIN e.graves : e.graves[i] # PENDING
    BY <2>3, <2>4, <2>6 DEF PENDING
  <2>11. Stored(col[c], server_col)'
    BY <1>1, <1>4, <2>1, <2>6 DEF Stored, e
  <2>12. Seen(col[c], server_col, sync_state.client_usn)'
    BY <1>1, <1>4, <2>1, <2>6 DEF Seen, e
  <2>13. QED
    BY <2>2, <2>7, <2>8, <2>9, <2>10, <2>11, <2>12 DEF Merging, e
<1>7. QED
  BY <1>1, <1>5, <1>6, MergeCall

LEMMA MergeSendGraves ==
  ASSUME TypeInv, SessionInv, ClockInv, GraveInv, MergeInv, NEW c \in Clients, NEW lost \in BOOLEAN,
         SendGraves(c, lost)
  PROVE  MergeInv'
<1>0. IsCollection(server_col) /\ IsCollection(col[c]) /\ IsCollection(disk)
  BY DurableType
<1>1. CallLeaves(c) /\ Active(c) /\ Syncing(c) /\ sess[c].pc = "graves" /\ UNCHANGED sync_state
  BY SendGravesShape DEF Active
<1>2. UNCHANGED <<now, disk>>
  BY <1>1 DEF CallLeaves
<1>3. Merging(c) /\ sess[c].server_usn = disk.usn
  BY <1>1 DEF MergeInv, ClockInv
<1>4. PICK chunk \in SUBSET sess[c].todo :
        /\ Buried(server_col, server_col', chunk, sync_state.server_usn)
        /\ SameRest(server_col, server_col')
        /\ Syncing(c)' =>
             LET todo == sess[c].todo \ chunk
                 remote == sess[c].remote
             IN  /\ Buried(col[c], col'[c], IF todo = {} THEN remote ELSE {}, sess[c].server_usn)
                 /\ SameRest(col[c], col'[c])
                 /\ sess'[c].pc = IF todo = {} THEN "changes" ELSE "graves"
  BY SendGravesRows
<1> DEFINE s == server_col'
           e == col'[c]
           ids == IF sess[c].todo \ chunk = {} THEN sess[c].remote ELSE {}
<1>5. /\ \A i \in DOMAIN server_col.items :
           i \in DOMAIN s.graves \/ (i \in DOMAIN s.items /\ s.items[i] = server_col.items[i])
      /\ \A i \in DOMAIN s.items : i \in DOMAIN server_col.items /\ s.items[i] = server_col.items[i]
      /\ \A i \in DOMAIN server_col.graves : i \in DOMAIN s.graves
      /\ s.revlog = server_col.revlog
  <2>1. Buried(server_col, s, chunk, sync_state.server_usn) /\ s.revlog = server_col.revlog
    BY <1>4 DEF SameRest
  <2> HIDE DEF s
  <2>2. QED
    BY <1>0, <2>1, BuriedKeeps
<1>6. ASSUME Syncing(c)'
      PROVE  /\ Buried(col[c], e, ids, sess[c].server_usn)
             /\ e.revlog = col[c].revlog /\ sess'[c].pc \in {"changes", "graves"}
  BY <1>4, <1>6 DEF SameRest
<1> HIDE DEF s, e, ids
<1>7. ServerMerges' /\ RevsPast(server_col)'
  BY <1>2, <1>5 DEF ServerMerges, MergeInv, RevsPast, s
<1>8. ASSUME Syncing(c)' PROVE RevsPast(col[c])' /\ Merging(c)'
  <2> DEFINE d == col[c]
             usn == sess[c].server_usn
  <2>1. Buried(d, e, ids, usn) /\ e.revlog = d.revlog /\ IsCollection(d)
    BY <1>0, <1>6, <1>8
  <2>2. /\ sess'[c].pc \in {"graves", "changes"} /\ sess'[c].saved = sess[c].saved
    BY <1>1, <1>6, <1>8 DEF CallLeaves
  <2>3. usn \in Nat /\ usn = disk.usn
    BY <1>0, <1>3, CollectionFields
  <2>4. /\ NoneLost(c) /\ UsnsBelow(d, usn + 1) /\ \A i \in DOMAIN d.graves : d.graves[i] # PENDING
        /\ Stored(d, server_col) /\ Seen(d, server_col, sync_state.client_usn) /\ RevsPast(d)
    BY <1>1, <1>3, <2>3 DEF Merging, MergeInv
  <2> HIDE DEF d, usn
  <2>5. /\ \A i \in DOMAIN d.items :
             i \in DOMAIN e.graves \/ (i \in DOMAIN e.items /\ e.items[i] = d.items[i])
        /\ \A i \in DOMAIN e.items : i \in DOMAIN d.items /\ e.items[i] = d.items[i]
        /\ \A i \in DOMAIN d.graves : i \in DOMAIN e.graves
        /\ \A i \in DOMAIN e.graves :
             e.graves[i] = usn \/ (i \in DOMAIN d.graves /\ e.graves[i] = d.graves[i])
    BY <2>1, BuriedKeeps
  <2>6. RevsPast(col[c])'
    BY <1>2, <2>4, <2>5 DEF RevsPast, e
  <2>7. NoneLost(c)'
    BY <2>2, <2>4, <2>5 DEF NoneLost, e, d
  <2>8. UsnsBelow(col[c], disk.usn + 1)'
    <3>1. UsnsBelow(e, usn + 1)
      BY <2>1, <2>3, <2>4, <2>5 DEF UsnsBelow
    <3>2. QED
      BY <1>2, <2>3, <3>1 DEF UsnsBelow, e
  <2>9. \A i \in DOMAIN e.graves : e.graves[i] # PENDING
    BY <2>3, <2>4, <2>5 DEF PENDING
  <2>10. Stored(col[c], server_col)'
    <3>1. Stored(e, s)
      BY <1>5, <2>1, <2>4, <2>5 DEF Stored
    <3>2. QED
      BY <3>1 DEF Stored, e, s
  <2>11. Seen(col[c], server_col, sync_state.client_usn)'
    <3>1. Seen(e, s, sync_state.client_usn)
      BY <1>5, <2>1, <2>4, <2>5 DEF Seen
    <3>2. QED
      BY <1>1, <3>1 DEF Seen, e, s
  <2>12. QED
    BY <2>2, <2>6, <2>7, <2>8, <2>9, <2>10, <2>11 DEF Merging, e
<1>9. QED
  BY <1>1, <1>7, <1>8, MergeCall

LEMMA MergeSanityCheck ==
  ASSUME TypeInv, MergeInv, NEW c \in Clients, NEW lost \in BOOLEAN, SanityCheck(c, lost)
  PROVE  MergeInv'
<1>0. IsCollection(disk)
  BY DurableType
<1>1. /\ CallLeaves(c) /\ Active(c) /\ Syncing(c) /\ sess[c].pc = "sanity" /\ UNCHANGED sync_state
      /\ server_col' \in {server_col, disk}
      /\ Syncing(c)' => server_col' = server_col /\ col'[c] = col[c] /\ sess'[c].pc = "finish"
  BY SanityCheckShape DEF Active
<1>2. UNCHANGED <<now, disk>> /\ (Syncing(c)' => sess'[c].saved = sess[c].saved)
  BY <1>1 DEF CallLeaves
<1>3. ServerMerges' /\ RevsPast(server_col)'
  <2>1. CASE server_col' = server_col
    BY <1>2, <2>1 DEF MergeInv, ServerMerges, RevsPast
  <2>2. CASE server_col' = disk
    BY <1>0, <1>2, <2>2, RowTypes DEF MergeInv, ServerMerges, RevsPast
  <2>3. QED
    BY <1>1, <2>1, <2>2
<1>4. ASSUME Syncing(c)' PROVE RevsPast(col[c])' /\ Merging(c)'
  <2>1. RevsPast(col[c]) /\ Merging(c)
    BY <1>1 DEF MergeInv
  <2>2. RevsPast(col[c])'
    BY <1>1, <1>2, <1>4, <2>1 DEF RevsPast
  <2>3. /\ NoneLost(c)' /\ UsnsBelow(col[c], disk.usn + 1)'
        /\ \A i \in DOMAIN col'[c].graves : col'[c].graves[i] # PENDING
        /\ Stored(col[c], server_col)' /\ DecksMerge(c)'
    BY <1>1, <1>2, <1>4, <2>1 DEF Merging, NoneLost, UsnsBelow, Stored, DecksMerge
  <2>4. ToReceive(c)' = {} /\ ToReceive(c) = {} /\ ToSend(c)' = {} /\ ToSend(c) = {}
    BY <1>1, <1>4 DEF ToReceive, ToSend
  <2>5. ChunksMerge(c)' /\ PendingSent(c)'
    BY <1>1, <1>4, <2>1, <2>4 DEF Merging, ChunksMerge, PendingSent
  <2>6. QED
    BY <1>1, <1>4, <2>2, <2>3, <2>5 DEF Merging
<1>5. QED
  BY <1>1, <1>3, <1>4, MergeCall

\* The rows of L go from d to s, where they get usn, and those of R from s to d.
\* The later version wins on both sides: e and s1 are what d and s become.
ServerDecks(d, s, s1, L, usn) ==
  /\ DOMAIN s1.items = DOMAIN s.items \cup L
  /\ \A i \in DOMAIN s1.items :
       \/ /\ i \in L /\ (i \in DOMAIN s.items => s.items[i].rev <= d.items[i].rev)
          /\ s1.items[i].rev = d.items[i].rev /\ s1.items[i].usn = usn
       \/ /\ i \in DOMAIN s.items /\ (i \in L => s.items[i].rev > d.items[i].rev)
          /\ s1.items[i] = s.items[i]
ClientDecks(d, s, e, L, R, usn) ==
  /\ DOMAIN e.items = DOMAIN d.items \cup R
  /\ \A i \in DOMAIN e.items :
       \/ /\ i \in R /\ (i \in DOMAIN d.items => d.items[i].rev <= s.items[i].rev)
          /\ e.items[i] = s.items[i]
       \/ /\ i \in DOMAIN d.items /\ (i \in R => d.items[i].rev > s.items[i].rev)
          /\ e.items[i].rev = d.items[i].rev
          /\ e.items[i].usn = IF i \in L THEN usn ELSE d.items[i].usn

LEMMA PendingRows ==
  ASSUME NEW d, IsCollection(d), NEW ids, NEW usn \in Nat
  PROVE  /\ PendingItems(d, ids, PENDING) = {i \in DOMAIN d.items \cap ids : d.items[i].usn = PENDING}
         /\ PendingItems(d, ids, usn) = {i \in DOMAIN d.items \cap ids : d.items[i].usn >= usn}
         /\ PendingIn(d.revlog, PENDING) = {t \in DOMAIN d.revlog : d.revlog[t] = PENDING}
         /\ PendingIn(d.revlog, usn) = {t \in DOMAIN d.revlog : d.revlog[t] >= usn}
BY DEF PendingItems, PendingIn, IsPending, PENDING

LEMMA ServerDecksMeet ==
  ASSUME NEW s, IsCollection(s), NEW d, IsCollection(d), NEW s1, NEW L, L \subseteq DOMAIN d.items,
         NEW usn \in Int, NEW a, a = Stamped(d.items, L, usn), NEW rows, rows = Restrict(a, L),
         Merged(s, s1, rows, TakenDecks(s.items, rows)), MsPerSec = 1
  PROVE  ServerDecks(d, s, s1, L, usn)
<1>1. DOMAIN a = DOMAIN d.items /\ \A i \in L : a[i].rev = d.items[i].rev /\ a[i].usn = usn
  <2>1. \A i \in DOMAIN d.items : d.items[i] \in Row
    BY CollectionFields DEF PartialFunction
  <2>2. QED
    BY <2>1 DEF Stamped, Row
<1>2. DOMAIN rows = L /\ \A i \in L : rows[i] = a[i]
  BY <1>1 DEF Restrict
<1>3. \A i \in L : rows[i].rev = d.items[i].rev /\ rows[i].usn = usn
  BY <1>1, <1>2
<1>4. /\ \A i \in DOMAIN s.items : s.items[i].rev \in Int
      /\ \A i \in L : rows[i].rev \in Int
  BY <1>3, RowTypes
<1>5. TakenDecks(s.items, rows) = {i \in L : i \in DOMAIN s.items => s.items[i].rev <= rows[i].rev}
  BY <1>2, <1>4, SecIsTime DEF TakenDecks
<1>6. QED
  BY <1>2, <1>3, <1>4, <1>5 DEF Merged, ServerDecks

LEMMA ClientDecksMeet ==
  ASSUME NEW s, IsCollection(s), NEW d, IsCollection(d), NEW e, NEW L, L \subseteq DOMAIN d.items,
         NEW usn \in Int, NEW sent, sent.items = Stamped(d.items, L, usn),
         NEW R, R \subseteq DOMAIN s.items, NEW rows, rows = Restrict(s.items, R),
         Merged(sent, e, rows, TakenDecks(sent.items, rows)), MsPerSec = 1
  PROVE  ClientDecks(d, s, e, L, R, usn)
<1>1. /\ DOMAIN sent.items = DOMAIN d.items
      /\ \A i \in DOMAIN d.items : /\ sent.items[i].rev = d.items[i].rev
                                   /\ sent.items[i].usn = IF i \in L THEN usn ELSE d.items[i].usn
  <2>1. \A i \in DOMAIN d.items : d.items[i] \in Row
    BY CollectionFields DEF PartialFunction
  <2>2. QED
    BY <2>1 DEF Stamped, Row
<1>2. DOMAIN rows = R /\ \A i \in R : rows[i] = s.items[i]
  BY DEF Restrict
<1>3. /\ \A i \in R : s.items[i].rev \in Int /\ rows[i].rev \in Int
      /\ \A i \in DOMAIN d.items : d.items[i].rev \in Int /\ sent.items[i].rev \in Int
  BY <1>1, <1>2, RowTypes
<1>4. TakenDecks(sent.items, rows)
        = {i \in R : i \in DOMAIN d.items => d.items[i].rev <= s.items[i].rev}
  BY <1>1, <1>2, <1>3, SecIsTime DEF TakenDecks
<1>5. QED
  BY <1>1, <1>2, <1>3, <1>4 DEF Merged, ClientDecks

LEMMA ApplyChangesMeet ==
  ASSUME TypeInv, MsPerSec = 1, NEW c \in Clients, NEW lost \in BOOLEAN, ApplyChanges(c, lost)
  PROVE  LET L == PendingItems(col[c], Decks, PENDING)
             R == PendingItems(server_col, Decks, sync_state.client_usn)
             usn == sess[c].server_usn
         IN  /\ ServerDecks(col[c], server_col, server_col', L, usn)
             /\ Syncing(c)' => ClientDecks(col[c], server_col, col'[c], L, R, usn)
<1> DEFINE L == PendingItems(col[c], Decks, PENDING)
           R == PendingItems(server_col, Decks, sync_state.client_usn)
           d == col[c]
           s == server_col
           e == col'[c]
           s1 == server_col'
           usn == sess[c].server_usn
           sent == AfterSending(c)
<1>0. Active(c)
  BY ApplyChangesShape
<1>1. IsCollection(d) /\ IsCollection(s) /\ usn \in Int
  BY <1>0, DurableType, ActiveSession DEF IsSession
<1>2. L \subseteq DOMAIN d.items /\ R \subseteq DOMAIN s.items
  BY DEF PendingItems
<1>3. /\ sent.items = Stamped(d.items, L, usn)
      /\ Merged(s, s1, DeckRows(c), TakenDecks(s.items, DeckRows(c)))
      /\ Syncing(c)' => Merged(sent, e, RemoteRows, TakenDecks(sent.items, RemoteRows))
  BY ApplyChangesRows DEF SentDecks
<1> DEFINE a == sent.items
           local == DeckRows(c)
           remote == RemoteRows
<1>4. local = Restrict(a, L) /\ remote = Restrict(s.items, R)
  BY DEF DeckRows, RemoteRows, SentDecks
<1>5. /\ a = Stamped(d.items, L, usn) /\ sent.items = Stamped(d.items, L, usn)
      /\ Merged(s, s1, local, TakenDecks(s.items, local))
      /\ Syncing(c)' => Merged(sent, e, remote, TakenDecks(sent.items, remote))
  BY <1>3
<1> HIDE DEF a, local, remote, L, R, d, s, e, s1, usn, sent
<1>6. ServerDecks(d, s, s1, L, usn)
  BY <1>1, <1>2, <1>4, <1>5, ServerDecksMeet
<1>7. Syncing(c)' => ClientDecks(d, s, e, L, R, usn)
  BY <1>1, <1>2, <1>4, <1>5, ClientDecksMeet
<1>8. QED
  BY <1>6, <1>7 DEF L, R, d, s, e, s1, usn

\* After it both sides have the same decks, and all other objects they had.
LEMMA DecksAgree ==
  ASSUME NEW d, IsCollection(d), NEW s, IsCollection(s), NEW e, NEW s1, NEW L, NEW R,
         NEW usn \in Nat, NEW cu \in Nat,
         L = {i \in DOMAIN d.items \cap Decks : d.items[i].usn = PENDING},
         R = {i \in DOMAIN s.items \cap Decks : s.items[i].usn >= cu},
         ServerDecks(d, s, s1, L, usn), ClientDecks(d, s, e, L, R, usn),
         Stored(d, s), Seen(d, s, cu), \A i \in DOMAIN s.items : s.items[i].usn \in 0..usn,
         DOMAIN d.graves \subseteq DOMAIN s.graves, DOMAIN d.items \cap DOMAIN s.graves = {},
         DOMAIN s.items \cap DOMAIN s.graves = {}
  PROVE  /\ DOMAIN e.items \cap Decks = DOMAIN s1.items \cap Decks
         /\ \A i \in DOMAIN e.items \cap Decks :
              e.items[i].rev = s1.items[i].rev /\ e.items[i].usn # PENDING
<1>1. /\ \A i \in DOMAIN d.items : d.items[i].rev \in Int /\ d.items[i].usn \in Int
      /\ \A i \in DOMAIN s.items : s.items[i].rev \in Int /\ s.items[i].usn \in Int
  BY RowTypes
<1>2. \A i \in DOMAIN d.items : i \in L \/ i \notin Decks
                                \/ (i \in DOMAIN s.items /\ d.items[i].rev <= s.items[i].rev)
  BY DEF Stored
<1>3. \A i \in DOMAIN s.items : i \in R \/ i \notin Decks
                                \/ (i \in DOMAIN d.items /\ s.items[i].rev <= d.items[i].rev)
  BY <1>1 DEF Seen
<1>4. DOMAIN s1.items = DOMAIN s.items \cup L /\ DOMAIN e.items = DOMAIN d.items \cup R
  BY DEF ServerDecks, ClientDecks
<1>5. L \subseteq DOMAIN d.items \cap Decks /\ R \subseteq DOMAIN s.items \cap Decks
  OBVIOUS
<1>6. DOMAIN e.items \cap Decks = DOMAIN s1.items \cap Decks
  BY <1>2, <1>3, <1>4, <1>5
<1>7. ASSUME NEW i \in DOMAIN e.items, i \in Decks
      PROVE  e.items[i].rev = s1.items[i].rev /\ e.items[i].usn # PENDING
  <2>0. i \in DOMAIN s1.items
    BY <1>6, <1>7
  <2>1. CASE /\ i \in R /\ (i \in DOMAIN d.items => d.items[i].rev <= s.items[i].rev)
             /\ e.items[i] = s.items[i]
    <3>1. e.items[i].usn # PENDING /\ i \in DOMAIN s.items
      BY <1>5, <2>1 DEF PENDING
    <3>2. CASE i \in L /\ s.items[i].rev <= d.items[i].rev /\ s1.items[i].rev = d.items[i].rev
      BY <1>1, <1>5, <2>1, <3>1, <3>2
    <3>3. CASE s1.items[i] = s.items[i]
      BY <2>1, <3>1, <3>3
    <3>4. QED
      BY <2>0, <3>1, <3>2, <3>3 DEF ServerDecks
  <2>2. CASE /\ i \in DOMAIN d.items /\ (i \in R => d.items[i].rev > s.items[i].rev)
             /\ e.items[i].rev = d.items[i].rev
             /\ e.items[i].usn = IF i \in L THEN usn ELSE d.items[i].usn
    <3>1. e.items[i].usn # PENDING
      BY <1>7, <2>2 DEF PENDING
    <3>2. CASE i \in L /\ s1.items[i].rev = d.items[i].rev
      BY <2>2, <3>1, <3>2
    <3>3. CASE /\ i \in DOMAIN s.items /\ (i \in L => s.items[i].rev > d.items[i].rev)
               /\ s1.items[i] = s.items[i]
      BY <1>1, <1>2, <1>3, <1>7, <2>2, <3>1, <3>3
    <3>4. QED
      BY <2>0, <3>2, <3>3 DEF ServerDecks
  <2>3. QED
    BY <2>1, <2>2 DEF ClientDecks
<1>8. QED
  BY <1>6, <1>7

LEMMA ServerDecksOnly ==
  ASSUME NEW d, IsCollection(d), NEW s, IsCollection(s), NEW s1, NEW L, NEW usn, L \subseteq Decks,
         L \subseteq DOMAIN d.items, ServerDecks(d, s, s1, L, usn)
  PROVE  /\ \A i \in DOMAIN s.items : i \in DOMAIN s1.items /\ s.items[i].rev <= s1.items[i].rev
         /\ \A i \in DOMAIN s1.items :
              \/ i \in DOMAIN s.items /\ s1.items[i] = s.items[i]
              \/ i \in L /\ s1.items[i].rev = d.items[i].rev /\ s1.items[i].usn = usn
         /\ \A i \in Cards : i \in DOMAIN s1.items <=> i \in DOMAIN s.items
         /\ \A i \in Cards \cap DOMAIN s.items : s1.items[i] = s.items[i]
<1>1. /\ \A i \in DOMAIN d.items : d.items[i].rev \in Int
      /\ \A i \in DOMAIN s.items : s.items[i].rev \in Int
  BY RowTypes
<1>2. \A i \in Cards : i \notin L
  BY DisjointAssumption
<1>3. /\ \A i \in DOMAIN s.items : i \in DOMAIN s1.items /\ s.items[i].rev <= s1.items[i].rev
      /\ \A i \in DOMAIN s1.items :
           \/ i \in DOMAIN s.items /\ s1.items[i] = s.items[i]
           \/ i \in L /\ s1.items[i].rev = d.items[i].rev /\ s1.items[i].usn = usn
  BY <1>1 DEF ServerDecks
<1>4. /\ \A i \in Cards : i \in DOMAIN s1.items <=> i \in DOMAIN s.items
      /\ \A i \in Cards \cap DOMAIN s.items : s1.items[i] = s.items[i]
  BY <1>2 DEF ServerDecks
<1>5. QED
  BY <1>3, <1>4

LEMMA ClientDecksOnly ==
  ASSUME NEW d, IsCollection(d), NEW s, IsCollection(s), NEW e, NEW L, NEW R, NEW usn,
         R \subseteq Decks, R \subseteq DOMAIN s.items, ClientDecks(d, s, e, L, R, usn),
         L \subseteq Decks
  PROVE  /\ \A i \in DOMAIN d.items : i \in DOMAIN e.items /\ d.items[i].rev <= e.items[i].rev
         /\ \A i \in DOMAIN e.items :
              \/ i \in R /\ e.items[i] = s.items[i]
              \/ i \in DOMAIN d.items /\ e.items[i].rev = d.items[i].rev
                 /\ e.items[i].usn \in {usn, d.items[i].usn}
         /\ \A i \in Cards : i \in DOMAIN e.items <=> i \in DOMAIN d.items
         /\ \A i \in Cards \cap DOMAIN d.items :
              e.items[i].rev = d.items[i].rev /\ e.items[i].usn = d.items[i].usn
<1>1. /\ \A i \in DOMAIN d.items : d.items[i].rev \in Int
      /\ \A i \in DOMAIN s.items : s.items[i].rev \in Int
  BY RowTypes
<1>2. \A i \in Cards : i \notin L /\ i \notin R
  BY DisjointAssumption
<1>3. /\ \A i \in DOMAIN d.items : i \in DOMAIN e.items /\ d.items[i].rev <= e.items[i].rev
      /\ \A i \in DOMAIN e.items :
           \/ i \in R /\ e.items[i] = s.items[i]
           \/ i \in DOMAIN d.items /\ e.items[i].rev = d.items[i].rev
              /\ e.items[i].usn \in {usn, d.items[i].usn}
  BY <1>1 DEF ClientDecks
<1>4. /\ \A i \in Cards : i \in DOMAIN e.items <=> i \in DOMAIN d.items
      /\ \A i \in Cards \cap DOMAIN d.items :
           e.items[i].rev = d.items[i].rev /\ e.items[i].usn = d.items[i].usn
  BY <1>2 DEF ClientDecks
<1>5. QED
  BY <1>3, <1>4

LEMMA MergeApplyChanges ==
  ASSUME TypeInv, SessionInv, ClockInv, GraveInv, MergeInv, MsPerSec = 1, NEW c \in Clients,
         NEW lost \in BOOLEAN, ApplyChanges(c, lost)
  PROVE  MergeInv'
<1> DEFINE L == PendingItems(col[c], Decks, PENDING)
           R == PendingItems(server_col, Decks, sync_state.client_usn)
           d == col[c]
           s == server_col
           e == col'[c]
           s1 == server_col'
           usn == sess[c].server_usn
           cu == sync_state.client_usn
<1>0. /\ CallLeaves(c) /\ Active(c) /\ Syncing(c) /\ sess[c].pc = "changes" /\ UNCHANGED sync_state
      /\ sync_state.chunk_ids = NotGathered
      /\ Syncing(c)' => sess'[c].pc = "receive" /\ sess'[c].saved = sess[c].saved
  BY ApplyChangesShape DEF Active, CallLeaves
<1>1. IsCollection(d) /\ IsCollection(s) /\ IsCollection(disk) /\ disk.usn \in Nat /\ cu \in Nat
  BY <1>0, DurableType, ActiveSession, CollectionFields DEF SessionState
<1>2. UNCHANGED <<now, disk>> /\ usn = disk.usn
  BY <1>0 DEF CallLeaves, ClockInv
<1>3. /\ ServerDecks(d, s, s1, L, usn)
      /\ Syncing(c)' => ClientDecks(d, s, e, L, R, usn)
  BY ApplyChangesMeet
<1>4. /\ s1.graves = s.graves /\ s1.revlog = s.revlog
      /\ Syncing(c)' => e.graves = d.graves /\ e.revlog = d.revlog /\ e.conf = s1.conf
  BY ApplyChangesRows DEF Merged
<1>5. /\ L = {i \in DOMAIN d.items \cap Decks : d.items[i].usn = PENDING}
      /\ R = {i \in DOMAIN s.items \cap Decks : s.items[i].usn >= cu}
      /\ PendingItems(s1, Cards, cu) = {i \in DOMAIN s1.items \cap Cards : s1.items[i].usn >= cu}
      /\ PendingIn(s.revlog, cu) = {t \in DOMAIN s.revlog : s.revlog[t] >= cu}
  <2>1. /\ L = {i \in DOMAIN d.items \cap Decks : d.items[i].usn = PENDING}
        /\ PendingItems(s1, Cards, cu) = {i \in DOMAIN s1.items \cap Cards : s1.items[i].usn >= cu}
    BY <1>1 DEF PendingItems, IsPending, PENDING
  <2>2. R = {i \in DOMAIN s.items \cap Decks : s.items[i].usn >= cu}
    BY <1>1 DEF PendingItems, IsPending, PENDING
  <2>3. PendingIn(s.revlog, cu) = {t \in DOMAIN s.revlog : s.revlog[t] >= cu}
    BY <1>1 DEF PendingIn, IsPending, PENDING
  <2>4. QED
    BY <2>1, <2>2, <2>3
<1>6. /\ Merging(c) /\ RevsPast(d) /\ RevsPast(s) /\ ServerMerges /\ GravesExchanged(c) /\ ServerGraves
      /\ \A i \in DOMAIN s.items : s.items[i].usn \in 0..usn
      /\ \A t \in DOMAIN s.revlog : s.revlog[t] \in 0..usn
  BY <1>0, <1>2, ServerUsns DEF MergeInv, GraveInv
<1>7. /\ NoneLost(c) /\ UsnsBelow(d, usn + 1) /\ (\A i \in DOMAIN d.graves : d.graves[i] # PENDING)
      /\ Stored(d, s) /\ Seen(d, s, cu)
  BY <1>0, <1>2, <1>6 DEF Merging
<1>8. /\ DOMAIN d.graves \subseteq DOMAIN s.graves /\ DOMAIN d.items \cap DOMAIN s.graves = {}
      /\ DOMAIN s.items \cap DOMAIN s.graves = {}
  BY <1>0, <1>6 DEF GravesExchanged, ServerGraves
<1>9. /\ \A i \in DOMAIN s.items : i \in DOMAIN s1.items /\ s.items[i].rev <= s1.items[i].rev
      /\ \A i \in DOMAIN s1.items :
           \/ i \in DOMAIN s.items /\ s1.items[i] = s.items[i]
           \/ i \in L /\ s1.items[i].rev = d.items[i].rev /\ s1.items[i].usn = usn
      /\ \A i \in Cards : i \in DOMAIN s1.items <=> i \in DOMAIN s.items
      /\ \A i \in Cards \cap DOMAIN s.items : s1.items[i] = s.items[i]
      /\ Syncing(c)' =>
           /\ \A i \in DOMAIN d.items : i \in DOMAIN e.items /\ d.items[i].rev <= e.items[i].rev
           /\ \A i \in DOMAIN e.items :
                \/ i \in R /\ e.items[i] = s.items[i]
                \/ i \in DOMAIN d.items /\ e.items[i].rev = d.items[i].rev
                   /\ e.items[i].usn \in {usn, d.items[i].usn}
           /\ \A i \in Cards : i \in DOMAIN e.items <=> i \in DOMAIN d.items
           /\ \A i \in Cards \cap DOMAIN d.items :
                e.items[i].rev = d.items[i].rev /\ e.items[i].usn = d.items[i].usn
  <2>1. /\ L \subseteq Decks /\ R \subseteq Decks /\ R \subseteq DOMAIN s.items
        /\ L \subseteq DOMAIN d.items
    BY <1>5
  <2> HIDE DEF L, R, d, s, e, s1, usn
  <2>2. /\ \A i \in DOMAIN s.items : i \in DOMAIN s1.items /\ s.items[i].rev <= s1.items[i].rev
        /\ \A i \in DOMAIN s1.items :
             \/ i \in DOMAIN s.items /\ s1.items[i] = s.items[i]
             \/ i \in L /\ s1.items[i].rev = d.items[i].rev /\ s1.items[i].usn = usn
        /\ \A i \in Cards : i \in DOMAIN s1.items <=> i \in DOMAIN s.items
        /\ \A i \in Cards \cap DOMAIN s.items : s1.items[i] = s.items[i]
    BY <1>1, <1>3, <2>1, ServerDecksOnly
  <2>3. ASSUME Syncing(c)'
        PROVE  /\ \A i \in DOMAIN d.items : i \in DOMAIN e.items /\ d.items[i].rev <= e.items[i].rev
               /\ \A i \in DOMAIN e.items :
                    \/ i \in R /\ e.items[i] = s.items[i]
                    \/ i \in DOMAIN d.items /\ e.items[i].rev = d.items[i].rev
                       /\ e.items[i].usn \in {usn, d.items[i].usn}
               /\ \A i \in Cards : i \in DOMAIN e.items <=> i \in DOMAIN d.items
               /\ \A i \in Cards \cap DOMAIN d.items :
                    e.items[i].rev = d.items[i].rev /\ e.items[i].usn = d.items[i].usn
    <3>1. ClientDecks(d, s, e, L, R, usn)
      BY <1>3, <2>3
    <3>2. QED
      BY <1>1, <2>1, <3>1, ClientDecksOnly
  <2>4. QED
    BY <2>2, <2>3
<1> HIDE DEF L, R, d, s, e, s1, usn, cu
<1>10. /\ \A i \in DOMAIN d.items : d.items[i].rev \in Int /\ d.items[i].usn \in Int
       /\ \A i \in DOMAIN s.items : s.items[i].rev \in Int
       /\ \A i \in DOMAIN disk.items : disk.items[i].rev \in Int
  BY <1>1, RowTypes
<1>11. L \subseteq DOMAIN d.items /\ L \subseteq Decks /\ R \subseteq DOMAIN s.items
  BY <1>5
<1>12. RevsPast(server_col)'
  <2>1. \A i \in DOMAIN s1.items : s1.items[i].rev <= now
    BY <1>6, <1>9, <1>11 DEF RevsPast
  <2>2. QED
    BY <1>2, <2>1 DEF RevsPast, s1
<1>13. ServerMerges'
  <2>1. \A i \in DOMAIN disk.items :
          \/ i \in DOMAIN s1.graves
          \/ i \in DOMAIN s1.items /\ s1.items[i].rev >= disk.items[i].rev
    <3>1. \A i \in DOMAIN disk.items :
            i \in DOMAIN s.graves \/ (i \in DOMAIN s.items /\ s.items[i].rev >= disk.items[i].rev)
      BY <1>6 DEF ServerMerges, s
    <3>2. \A i \in DOMAIN s.items : i \in DOMAIN s1.items /\ s1.items[i].rev \in Int
      BY <1>9, <1>10, <1>11
    <3>3. QED
      BY <1>4, <1>9, <1>10, <3>1, <3>2
  <2>2. \A i \in DOMAIN s1.items :
          \/ i \in DOMAIN disk.items /\ s1.items[i] = disk.items[i]
          \/ s1.items[i].usn = disk.usn
    BY <1>2, <1>6, <1>9 DEF ServerMerges, s
  <2>3. /\ \A t \in DOMAIN disk.revlog : t \in DOMAIN s1.revlog
        /\ \A t \in DOMAIN s1.revlog :
             \/ t \in DOMAIN disk.revlog /\ s1.revlog[t] = disk.revlog[t]
             \/ s1.revlog[t] = disk.usn
    BY <1>4, <1>6 DEF ServerMerges, s
  <2>4. QED
    BY <1>2, <2>1, <2>2, <2>3 DEF ServerMerges, s1
<1>14. ASSUME Syncing(c)' PROVE RevsPast(col[c])' /\ Merging(c)'
  <2>1. /\ \A i \in DOMAIN d.items : i \in DOMAIN e.items /\ d.items[i].rev <= e.items[i].rev
        /\ \A i \in DOMAIN e.items :
             \/ i \in R /\ e.items[i] = s.items[i]
             \/ i \in DOMAIN d.items /\ e.items[i].rev = d.items[i].rev
                /\ e.items[i].usn \in {usn, d.items[i].usn}
        /\ \A i \in Cards : i \in DOMAIN e.items <=> i \in DOMAIN d.items
        /\ \A i \in Cards \cap DOMAIN d.items :
             e.items[i].rev = d.items[i].rev /\ e.items[i].usn = d.items[i].usn
        /\ e.graves = d.graves /\ e.revlog = d.revlog /\ e.conf = s1.conf
    BY <1>3, <1>4, <1>9, <1>14
  <2>2. /\ DOMAIN e.items \cap Decks = DOMAIN s1.items \cap Decks
        /\ \A i \in DOMAIN e.items \cap Decks :
             e.items[i].rev = s1.items[i].rev /\ e.items[i].usn # PENDING
    <3>1. ClientDecks(d, s, e, L, R, usn) /\ usn \in Nat
      BY <1>1, <1>2, <1>3, <1>14
    <3>2. QED
      BY <1>1, <1>3, <1>5, <1>6, <1>7, <1>8, <3>1, DecksAgree
  <2>3. RevsPast(col[c])'
    <3>1. \A i \in DOMAIN e.items : e.items[i].rev <= now
      BY <1>6, <1>11, <2>1 DEF RevsPast
    <3>2. QED
      BY <1>2, <3>1 DEF RevsPast, e
  <2>4. NoneLost(c)'
    <3>1. \A i \in DOMAIN sess[c].saved.items :
            \/ i \in DOMAIN d.graves
            \/ i \in DOMAIN d.items /\ sess[c].saved.items[i].rev <= d.items[i].rev
      BY <1>7 DEF NoneLost, d
    <3>2. /\ \A i \in DOMAIN sess[c].saved.items : sess[c].saved.items[i].rev \in Int
          /\ \A i \in DOMAIN e.items : e.items[i].rev \in Int
      <4>1. IsCollection(sess[c].saved)
        BY <1>0, ActiveSession DEF IsSession
      <4>2. QED
        BY <1>10, <1>11, <2>1, <4>1, RowTypes
    <3>3. \A i \in DOMAIN sess[c].saved.items :
            \/ i \in DOMAIN e.graves
            \/ i \in DOMAIN e.items /\ sess[c].saved.items[i].rev <= e.items[i].rev
      BY <1>10, <2>1, <3>1, <3>2
    <3>4. QED
      BY <1>0, <1>14, <3>3 DEF NoneLost, e
  <2>5. UsnsBelow(col[c], disk.usn + 1)'
    <3>1. \A i \in DOMAIN e.items : e.items[i].usn \in -1..usn
      BY <1>1, <1>2, <1>6, <1>7, <1>11, <2>1 DEF UsnsBelow
    <3>2. /\ \A i \in DOMAIN e.graves : e.graves[i] \in -1..usn
          /\ \A t \in DOMAIN e.revlog : e.revlog[t] \in -1..usn
      BY <1>1, <1>2, <1>7, <2>1 DEF UsnsBelow
    <3>3. UsnsBelow(e, usn + 1)
      BY <1>1, <1>2, <3>1, <3>2 DEF UsnsBelow
    <3>4. QED
      BY <1>2, <3>3 DEF UsnsBelow, e
  <2>6. Stored(col[c], server_col)'
    <3>1. ASSUME NEW i \in DOMAIN e.items, e.items[i].usn # PENDING
          PROVE  \/ i \in DOMAIN s1.graves
                 \/ i \in DOMAIN s1.items /\ e.items[i].rev <= s1.items[i].rev
      <4>1. CASE i \in Decks
        <5>1. i \in DOMAIN s1.items /\ e.items[i].rev = s1.items[i].rev /\ e.items[i].rev \in Int
          BY <1>10, <1>11, <2>1, <2>2, <3>1, <4>1
        <5>2. QED
          BY <5>1
      <4>2. CASE i \in Cards
        <5>1. i \in DOMAIN d.items /\ e.items[i].rev = d.items[i].rev /\ d.items[i].usn # PENDING
          BY <2>1, <3>1, <4>2
        <5>2. i \in DOMAIN s.graves \/ (i \in DOMAIN s.items /\ d.items[i].rev <= s.items[i].rev)
          BY <1>7, <5>1 DEF Stored
        <5>3. QED
          BY <1>4, <1>9, <4>2, <5>1, <5>2
      <4>3. i \in Items
        BY <1>1, <1>11, <2>1, RowTypes
      <4>4. QED
        BY <4>1, <4>2, <4>3 DEF Items
    <3>2. \A t \in DOMAIN e.revlog : e.revlog[t] # PENDING => t \in DOMAIN s1.revlog
      BY <1>4, <1>7, <2>1 DEF Stored
    <3>3. QED
      BY <3>1, <3>2 DEF Stored, e, s1
  <2>7. DecksMerge(c)'
    BY <2>1, <2>2 DEF DecksMerge, e, s1
  <2>8. ChunksMerge(c)'
    <3>1. ToReceive(c)' = ChunkableIds(s1, cu)
      BY <1>0, <1>14 DEF ToReceive, GatheredIds, s1, cu
    <3>2. \A i \in DOMAIN s1.items \cap Cards :
            \/ s1.items[i].usn >= cu
            \/ i \in DOMAIN e.items /\ s1.items[i].rev <= e.items[i].rev
      <4> SUFFICES ASSUME NEW i \in DOMAIN s1.items \cap Cards, ~(s1.items[i].usn >= cu)
                   PROVE  i \in DOMAIN e.items /\ s1.items[i].rev <= e.items[i].rev
        OBVIOUS
      <4>1. i \in DOMAIN s.items /\ s1.items[i] = s.items[i] /\ s.items[i].usn < cu
        BY <1>1, <1>2, <1>6, <1>9
      <4>2. i \notin DOMAIN d.graves
        BY <1>8, <4>1
      <4>3. i \in DOMAIN d.items /\ s.items[i].rev <= d.items[i].rev
        BY <1>7, <4>1, <4>2 DEF Seen
      <4>4. QED
        BY <2>1, <4>1, <4>3
    <3>3. \A t \in DOMAIN s1.revlog : s1.revlog[t] >= cu \/ t \in DOMAIN e.revlog
      BY <1>1, <1>2, <1>4, <1>6, <1>7, <2>1 DEF Seen
    <3>4. /\ \A i \in DOMAIN s1.items \cap Cards :
               s1.items[i].usn >= cu => <<"cards", i>> \in ChunkableIds(s1, cu)
          /\ \A t \in DOMAIN s1.revlog : s1.revlog[t] >= cu => <<"revlog", t>> \in ChunkableIds(s1, cu)
      BY <1>4, <1>5 DEF ChunkableIds
    <3>5. QED
      BY <3>1, <3>2, <3>3, <3>4 DEF ChunksMerge, e, s1
  <2>9. \A i \in DOMAIN e.graves : e.graves[i] # PENDING
    BY <1>7, <2>1
  <2>10. QED
    BY <1>0, <1>14, <2>3, <2>4, <2>5, <2>6, <2>7, <2>8, <2>9 DEF Merging, e
<1>15. QED
  BY <1>0, <1>12, <1>13, <1>14, MergeCall

\* The rows of K are merged from s into d, where a pending row keeps its version
\* unless the one received is later.
CardsReceived(d, s, e, K) ==
  /\ DOMAIN e.items = DOMAIN d.items \cup K
  /\ \A i \in DOMAIN d.items : d.items[i].rev <= e.items[i].rev
  /\ \A i \in K : s.items[i].rev <= e.items[i].rev
  /\ \A i \in DOMAIN e.items : (i \in K /\ e.items[i] = s.items[i])
                               \/ (i \in DOMAIN d.items /\ e.items[i] = d.items[i])

LEMMA CardsMeet ==
  ASSUME NEW d, IsCollection(d), NEW s, IsCollection(s), NEW e, NEW K, K \subseteq DOMAIN s.items,
         NEW rows, rows = Restrict(s.items, K), Merged(d, e, rows, TakenCards(d.items, rows, PENDING)),
         Stored(d, s), DOMAIN s.items \cap DOMAIN s.graves = {}, MsPerSec = 1
  PROVE  CardsReceived(d, s, e, K)
<1>1. DOMAIN rows = K /\ \A i \in K : rows[i] = s.items[i]
  BY DEF Restrict
<1>2. /\ \A i \in DOMAIN d.items : d.items[i].rev \in Int
      /\ \A i \in K : rows[i].rev \in Int /\ s.items[i].rev \in Int
  BY <1>1, RowTypes
<1>3. TakenCards(d.items, rows, PENDING)
        = {i \in K : i \in DOMAIN d.items => d.items[i].usn # PENDING \/ d.items[i].rev < s.items[i].rev}
  BY <1>1, <1>2, SecIsTime DEF TakenCards, IsPending
<1>4. \A i \in K \cap DOMAIN d.items : d.items[i].usn # PENDING => d.items[i].rev <= s.items[i].rev
  BY DEF Stored
<1>5. /\ DOMAIN e.items = DOMAIN d.items \cup K
      /\ \A i \in DOMAIN e.items :
           IF i \in TakenCards(d.items, rows, PENDING) THEN e.items[i] = s.items[i]
           ELSE e.items[i] = d.items[i]
  BY <1>1, <1>3 DEF Merged
<1>6. QED
  BY <1>2, <1>3, <1>4, <1>5 DEF CardsReceived

LEMMA MergeReceiveChunk ==
  ASSUME TypeInv, SessionInv, ClockInv, GraveInv, MergeInv, MsPerSec = 1, NEW c \in Clients,
         NEW lost \in BOOLEAN, ReceiveChunk(c, lost)
  PROVE  MergeInv'
<1>0. /\ CallLeaves(c) /\ Active(c) /\ Syncing(c) /\ sess[c].pc = "receive" /\ UNCHANGED server_col
  BY ReceiveChunkShape DEF Active
<1>1. UNCHANGED <<now, disk>> /\ (Syncing(c)' => sess'[c].saved = sess[c].saved)
  BY <1>0 DEF CallLeaves
<1>2. RevsPast(server_col)' /\ ServerMerges'
  BY <1>0, <1>1 DEF MergeInv, RevsPast, ServerMerges
<1>3. ASSUME Syncing(c)' PROVE RevsPast(col[c])' /\ Merging(c)'
  <2>0. PICK chunk \in SUBSET GatheredIds :
          /\ Holds(server_col, chunk) /\ sync_state'.chunk_ids = GatheredIds \ chunk
          /\ Merged(col[c], col'[c], CardRows(server_col, chunk),
                    TakenCards(col[c].items, CardRows(server_col, chunk), PENDING))
          /\ DOMAIN col'[c].revlog = DOMAIN col[c].revlog \cup Ids(chunk, "revlog")
          /\ \A t \in DOMAIN col[c].revlog : col'[c].revlog[t] = col[c].revlog[t]
          /\ \A t \in DOMAIN col'[c].revlog \ DOMAIN col[c].revlog :
               col'[c].revlog[t] = server_col.revlog[t]
          /\ col'[c].conf = col[c].conf
          /\ \/ sess'[c].pc = "receive"
             \/ /\ sess'[c].pc = "send" /\ sess'[c].todo = ChunkableIds(col'[c], PENDING)
                /\ chunk = GatheredIds
    BY <1>3, ReceiveChunkRows
  <2> DEFINE d == col[c]
             s == server_col
             e == col'[c]
             usn == sess[c].server_usn
             K == Ids(chunk, "cards")
             T == Ids(chunk, "revlog")
             rows == CardRows(server_col, chunk)
  <2>1. IsCollection(d) /\ IsCollection(s) /\ IsCollection(disk) /\ disk.usn \in Nat /\ usn = disk.usn
    BY <1>0, DurableType, CollectionFields DEF ClockInv
  <2>2. /\ K \subseteq DOMAIN s.items /\ K \subseteq Cards /\ T \subseteq DOMAIN s.revlog
        /\ rows = Restrict(s.items, K) /\ e.graves = d.graves /\ e.conf = d.conf
        /\ (\A i : <<"cards", i>> \in chunk <=> i \in K)
        /\ (\A t : <<"revlog", t>> \in chunk <=> t \in T)
    <3>1. Holds(server_col, chunk)
      BY <2>0
    <3>2. K \subseteq DOMAIN s.items \cap Cards /\ T \subseteq DOMAIN s.revlog
      BY <3>1, HoldsIds
    <3>3. (\A i : <<"cards", i>> \in chunk <=> i \in K) /\ (\A t : <<"revlog", t>> \in chunk <=> t \in T)
      BY <3>1, InIds
    <3>4. rows = Restrict(s.items, K) /\ e.graves = d.graves /\ e.conf = d.conf
      BY <2>0 DEF CardRows, Merged
    <3>5. QED
      BY <3>2, <3>3, <3>4
  <2>3. /\ Merging(c) /\ RevsPast(d) /\ RevsPast(s) /\ ServerGraves
        /\ \A i \in DOMAIN s.items : s.items[i].usn \in 0..usn
        /\ \A t \in DOMAIN s.revlog : s.revlog[t] \in 0..usn
    BY <1>0, <2>1, ServerUsns DEF MergeInv, GraveInv
  <2>4. /\ NoneLost(c) /\ UsnsBelow(d, usn + 1) /\ (\A i \in DOMAIN d.graves : d.graves[i] # PENDING)
        /\ Stored(d, s) /\ DecksMerge(c) /\ ChunksMerge(c)
    BY <1>0, <2>1, <2>3 DEF Merging
  <2>5. Merged(d, e, rows, TakenCards(d.items, rows, PENDING)) /\ DOMAIN s.items \cap DOMAIN s.graves = {}
    BY <2>0, <2>3 DEF ServerGraves
  <2>6. /\ DOMAIN e.revlog = DOMAIN d.revlog \cup T
        /\ \A t \in DOMAIN e.revlog :
             (t \in DOMAIN d.revlog /\ e.revlog[t] = d.revlog[t])
             \/ (t \in T /\ e.revlog[t] = s.revlog[t])
    BY <2>0
  <2>7. /\ ToReceive(c) = GatheredIds
        /\ ToReceive(c)' = GatheredIds \ chunk
        /\ sess'[c].pc = "send" => ToSend(c)' = ChunkableIds(e, PENDING)
    <3>1. ToReceive(c) = GatheredIds
      BY <1>0 DEF ToReceive
    <3>2. sess'[c].pc = "send" => ToReceive(c)' = {} /\ ToSend(c)' = ChunkableIds(e, PENDING)
                                  /\ GatheredIds \ chunk = {}
      BY <2>0 DEF ToReceive, ToSend
    <3>3. GatheredIds \ chunk # NotGathered
      <4>1. Holds(server_col, GatheredIds)
        BY <1>0, GatheredHeld DEF Active, TypeInv
      <4>2. GatheredIds \subseteq ChunkIds
        BY <2>1, <4>1, HoldsType
      <4>3. QED
        BY <4>2, NotGatheredAssumption DEF ChunkIds
    <3>4. sess'[c].pc = "receive" => ToReceive(c)' = GatheredIds \ chunk
      BY <2>0, <3>3 DEF ToReceive, GatheredIds
    <3>5. QED
      BY <2>0, <3>1, <3>2, <3>4
  <2>8. sess'[c].pc \in {"receive", "send"}
    BY <2>0
  <2> HIDE DEF d, s, e, usn, K, T, rows
  <2>9. CardsReceived(d, s, e, K)
    BY <2>1, <2>2, <2>4, <2>5, CardsMeet
  <2>10. /\ \A i \in DOMAIN d.items : d.items[i].rev \in Int
         /\ \A i \in DOMAIN s.items : s.items[i].rev \in Int
    BY <2>1, RowTypes
  <2>11. \A i \in DOMAIN e.items : e.items[i].rev \in Int
    BY <2>2, <2>9, <2>10 DEF CardsReceived
  <2>12. RevsPast(col[c])'
    <3>1. \A i \in DOMAIN e.items : e.items[i].rev <= now
      BY <2>2, <2>3, <2>9 DEF RevsPast, CardsReceived
    <3>2. QED
      BY <1>1, <3>1 DEF RevsPast, e
  <2>13. NoneLost(c)'
    <3>1. \A i \in DOMAIN sess[c].saved.items :
            \/ i \in DOMAIN d.graves
            \/ i \in DOMAIN d.items /\ sess[c].saved.items[i].rev <= d.items[i].rev
      BY <2>4 DEF NoneLost, d
    <3>2. \A i \in DOMAIN sess[c].saved.items : sess[c].saved.items[i].rev \in Int
      BY <1>0, ActiveSession, RowTypes DEF IsSession
    <3>3. \A i \in DOMAIN sess[c].saved.items :
            \/ i \in DOMAIN e.graves
            \/ i \in DOMAIN e.items /\ sess[c].saved.items[i].rev <= e.items[i].rev
      BY <2>2, <2>9, <2>10, <2>11, <3>1, <3>2 DEF CardsReceived
    <3>4. QED
      BY <1>1, <1>3, <3>3 DEF NoneLost, e
  <2>14. UsnsBelow(col[c], disk.usn + 1)'
    <3>1. \A i \in DOMAIN e.items : e.items[i].usn \in -1..usn
      BY <2>1, <2>2, <2>3, <2>4, <2>9 DEF UsnsBelow, CardsReceived
    <3>2. /\ \A i \in DOMAIN e.graves : e.graves[i] \in -1..usn
          /\ \A t \in DOMAIN e.revlog : e.revlog[t] \in -1..usn
      BY <2>1, <2>2, <2>3, <2>4, <2>6 DEF UsnsBelow
    <3>3. UsnsBelow(e, usn + 1)
      BY <2>1, <3>1, <3>2 DEF UsnsBelow
    <3>4. QED
      BY <1>1, <2>1, <3>3 DEF UsnsBelow, e
  <2>15. Stored(col[c], server_col)'
    <3>1. Stored(e, s)
      BY <2>2, <2>4, <2>6, <2>9, <2>10 DEF Stored, CardsReceived
    <3>2. QED
      BY <1>0, <3>1 DEF Stored, e, s
  <2>16. DecksMerge(c)'
    <3>1. /\ DOMAIN d.items \cap Decks = DOMAIN s.items \cap Decks /\ d.conf = s.conf
          /\ \A i \in DOMAIN d.items \cap Decks :
               d.items[i].rev = s.items[i].rev /\ d.items[i].usn # PENDING
      BY <2>4 DEF DecksMerge, d, s
    <3>2. \A i \in Decks : i \notin K
      BY <2>2, DisjointAssumption
    <3>3. /\ DOMAIN e.items \cap Decks = DOMAIN s.items \cap Decks /\ e.conf = s.conf
          /\ \A i \in DOMAIN e.items \cap Decks :
               e.items[i].rev = s.items[i].rev /\ e.items[i].usn # PENDING
      BY <2>2, <2>9, <3>1, <3>2 DEF CardsReceived
    <3>4. QED
      BY <1>0, <3>3 DEF DecksMerge, e, s
  <2>17. ChunksMerge(c)'
    <3>1. /\ \A i \in DOMAIN s.items \cap Cards :
               \/ <<"cards", i>> \in GatheredIds
               \/ i \in DOMAIN d.items /\ s.items[i].rev <= d.items[i].rev
          /\ \A t \in DOMAIN s.revlog : <<"revlog", t>> \in GatheredIds \/ t \in DOMAIN d.revlog
      BY <2>4, <2>7 DEF ChunksMerge, d, s
    <3>2. \A i \in DOMAIN s.items \cap Cards :
            \/ <<"cards", i>> \in GatheredIds \ chunk
            \/ i \in DOMAIN e.items /\ s.items[i].rev <= e.items[i].rev
      BY <2>2, <2>9, <2>10, <2>11, <3>1 DEF CardsReceived
    <3>3. \A t \in DOMAIN s.revlog : <<"revlog", t>> \in GatheredIds \ chunk \/ t \in DOMAIN e.revlog
      BY <2>2, <2>6, <3>1
    <3>4. QED
      BY <1>0, <2>7, <3>2, <3>3 DEF ChunksMerge, e, s
  <2>18. sess'[c].pc = "send" => PendingSent(c)'
    <3>1. /\ \A i \in DOMAIN e.items \cap Cards :
               e.items[i].usn = PENDING => <<"cards", i>> \in ChunkableIds(e, PENDING)
          /\ \A t \in DOMAIN e.revlog :
               e.revlog[t] = PENDING => <<"revlog", t>> \in ChunkableIds(e, PENDING)
      BY DEF ChunkableIds, PendingItems, PendingIn, IsPending
    <3>2. QED
      BY <2>7, <3>1 DEF PendingSent, e
  <2>19. \A i \in DOMAIN e.graves : e.graves[i] # PENDING
    BY <2>2, <2>4
  <2>20. QED
    BY <2>8, <2>12, <2>13, <2>14, <2>15, <2>16, <2>17, <2>18, <2>19 DEF Merging, e
<1>4. QED
  BY <1>0, <1>2, <1>3, MergeCall

\* The rows of K, which d holds, are merged into s, whose rows are not later.
CardsSent(d, s, s1, K, usn) ==
  /\ DOMAIN s1.items = DOMAIN s.items \cup K
  /\ \A i \in DOMAIN s.items : s.items[i].rev <= s1.items[i].rev
  /\ \A i \in K : s1.items[i].rev = d.items[i].rev
  /\ \A i \in DOMAIN s1.items : (i \in K /\ s1.items[i].usn = usn)
                                \/ (i \in DOMAIN s.items /\ s1.items[i] = s.items[i])

LEMMA CardsLand ==
  ASSUME NEW d, IsCollection(d), NEW s, IsCollection(s), NEW s1, NEW K, K \subseteq DOMAIN d.items,
         NEW usn \in Nat, NEW cu \in Nat, NEW sent, sent = Stamped(d.items, K, usn),
         NEW rows, rows = Restrict(sent, K), Merged(s, s1, rows, TakenCards(s.items, rows, cu)),
         \A i \in DOMAIN s.items \cap K : s.items[i].rev <= d.items[i].rev, MsPerSec = 1
  PROVE  CardsSent(d, s, s1, K, usn)
<1>1. DOMAIN sent = DOMAIN d.items /\ \A i \in K : sent[i].rev = d.items[i].rev /\ sent[i].usn = usn
  <2>1. \A i \in DOMAIN d.items : d.items[i] \in Row
    BY CollectionFields DEF PartialFunction
  <2>2. QED
    BY <2>1 DEF Stamped, Row
<1>2. DOMAIN rows = K /\ \A i \in K : rows[i].rev = d.items[i].rev /\ rows[i].usn = usn
  BY <1>1 DEF Restrict
<1>3. /\ \A i \in DOMAIN s.items : s.items[i].rev \in Int /\ s.items[i].usn \in Int
      /\ \A i \in K : rows[i].rev \in Int /\ d.items[i].rev \in Int
  BY <1>2, RowTypes
<1>4. TakenCards(s.items, rows, cu)
        = {i \in K : i \in DOMAIN s.items => ~(s.items[i].usn >= cu) \/ s.items[i].rev < d.items[i].rev}
  <2>1. \A i \in K \cap DOMAIN s.items :
          (Sec(s.items[i].rev) < Sec(rows[i].rev)) <=> s.items[i].rev < d.items[i].rev
    BY <1>2, <1>3, SecIsTime
  <2>2. \A i \in K \cap DOMAIN s.items : IsPending(s.items[i].usn, cu) <=> s.items[i].usn >= cu
    BY DEF IsPending, PENDING
  <2>3. QED
    BY <1>2, <2>1, <2>2 DEF TakenCards
<1>5. /\ DOMAIN s1.items = DOMAIN s.items \cup K
      /\ \A i \in DOMAIN s1.items :
           IF i \in TakenCards(s.items, rows, cu) THEN s1.items[i] = rows[i]
           ELSE s1.items[i] = s.items[i]
  BY <1>2 DEF Merged
<1>6. \A i \in DOMAIN s1.items :
        \/ /\ i \in K /\ s1.items[i].usn = usn /\ s1.items[i].rev = d.items[i].rev
        \/ /\ i \in DOMAIN s.items /\ s1.items[i] = s.items[i]
           /\ i \in K => s.items[i].rev >= d.items[i].rev
  BY <1>2, <1>3, <1>4, <1>5
<1>7. QED
  BY <1>3, <1>5, <1>6 DEF CardsSent

LEMMA MergeSendChunk ==
  ASSUME TypeInv, SessionInv, ClockInv, GraveInv, MergeInv, MsPerSec = 1, NEW c \in Clients,
         NEW lost \in BOOLEAN, SendChunk(c, lost)
  PROVE  MergeInv'
<1>0. /\ CallLeaves(c) /\ Active(c) /\ Syncing(c) /\ sess[c].pc = "send" /\ UNCHANGED sync_state
  BY SendChunkShape DEF Active
<1>1. UNCHANGED <<now, disk>> /\ (Syncing(c)' => sess'[c].saved = sess[c].saved)
  BY <1>0 DEF CallLeaves
<1>2. PICK chunk \in SUBSET sess[c].todo :
        LET sent == StampChunk(col[c], chunk, sess[c].server_usn)
        IN  /\ Holds(col[c], chunk) /\ Holds(sent, chunk) /\ IsCollection(sent)
            /\ sent.items = Stamped(col[c].items, Ids(chunk, "cards"), sess[c].server_usn)
            /\ sent.revlog = Stamp(col[c].revlog, Ids(chunk, "revlog"), sess[c].server_usn)
            /\ sent.graves = col[c].graves /\ sent.conf = col[c].conf /\ SameClock(col[c], sent)
            /\ DOMAIN CardRows(sent, chunk) = Ids(chunk, "cards")
            /\ Merged(server_col, server_col', CardRows(sent, chunk),
                      TakenCards(server_col.items, CardRows(sent, chunk), sync_state.client_usn))
            /\ DOMAIN server_col'.revlog = DOMAIN server_col.revlog \cup Ids(chunk, "revlog")
            /\ \A t \in DOMAIN server_col.revlog : server_col'.revlog[t] = server_col.revlog[t]
            /\ \A t \in DOMAIN server_col'.revlog \ DOMAIN server_col.revlog :
                 server_col'.revlog[t] = sent.revlog[t]
            /\ server_col'.conf = server_col.conf /\ SameClock(server_col, server_col')
            /\ Syncing(c)' =>
                 /\ col'[c] = sent /\ sess'[c].todo = sess[c].todo \ chunk
                 /\ \/ sess'[c].pc = "send"
                    \/ sess'[c].pc = "sanity" /\ chunk = sess[c].todo
  BY SendChunkRows
<1> DEFINE d == col[c]
           s == server_col
           e == col'[c]
           s1 == server_col'
           usn == sess[c].server_usn
           cu == sync_state.client_usn
           sent == StampChunk(col[c], chunk, sess[c].server_usn)
           K == Ids(chunk, "cards")
           T == Ids(chunk, "revlog")
           rows == CardRows(sent, chunk)
<1>3. /\ Holds(d, chunk)
      /\ sent.items = Stamped(d.items, K, usn) /\ sent.revlog = Stamp(d.revlog, T, usn)
      /\ sent.graves = d.graves /\ sent.conf = d.conf
      /\ Merged(s, s1, rows, TakenCards(s.items, rows, cu))
      /\ DOMAIN s1.revlog = DOMAIN s.revlog \cup T
      /\ \A t \in DOMAIN s.revlog : s1.revlog[t] = s.revlog[t]
      /\ \A t \in DOMAIN s1.revlog \ DOMAIN s.revlog : s1.revlog[t] = sent.revlog[t]
      /\ s1.conf = s.conf
      /\ Syncing(c)' =>
           /\ e = sent /\ sess'[c].todo = sess[c].todo \ chunk
           /\ \/ sess'[c].pc = "send"
              \/ sess'[c].pc = "sanity" /\ chunk = sess[c].todo
  BY <1>2
<1>4. /\ IsCollection(d) /\ IsCollection(s) /\ IsCollection(disk) /\ disk.usn \in Nat
      /\ usn = disk.usn /\ cu \in Nat
  BY <1>0, DurableType, ActiveSession, CollectionFields DEF ClockInv, SessionState
<1>5. /\ K \subseteq DOMAIN d.items /\ K \subseteq Cards /\ T \subseteq DOMAIN d.revlog
      /\ (\A i : <<"cards", i>> \in chunk <=> i \in K)
      /\ (\A t : <<"revlog", t>> \in chunk <=> t \in T)
  BY <1>3, HoldsIds, InIds
<1>6. rows = Restrict(sent.items, K) /\ s1.graves = s.graves
  BY <1>3 DEF CardRows, Merged
<1>7. /\ Merging(c) /\ RevsPast(d) /\ RevsPast(s) /\ ServerMerges
  BY <1>0 DEF MergeInv
<1>8. /\ NoneLost(c) /\ UsnsBelow(d, usn + 1) /\ (\A i \in DOMAIN d.graves : d.graves[i] # PENDING)
      /\ Stored(d, s) /\ DecksMerge(c) /\ ChunksMerge(c) /\ PendingSent(c)
  BY <1>0, <1>4, <1>7 DEF Merging
<1>9. /\ \A i \in DOMAIN s.items \cap Cards : i \in DOMAIN d.items /\ s.items[i].rev <= d.items[i].rev
      /\ \A t \in DOMAIN s.revlog : t \in DOMAIN d.revlog
  BY <1>0, <1>8 DEF ChunksMerge, ToReceive
<1> DEFINE items == sent.items
<1>10. items = Stamped(d.items, K, usn) /\ rows = Restrict(items, K)
  BY <1>3, <1>6
<1> HIDE DEF d, s, e, s1, usn, cu, sent, K, T, rows, items
<1>11. CardsSent(d, s, s1, K, usn)
  <2>1. \A i \in DOMAIN s.items \cap K : s.items[i].rev <= d.items[i].rev
    BY <1>5, <1>9
  <2>2. usn \in Nat /\ Merged(s, s1, rows, TakenCards(s.items, rows, cu))
    BY <1>3, <1>4
  <2>3. QED
    BY <1>4, <1>5, <1>10, <2>1, <2>2, CardsLand
<1>12. /\ DOMAIN sent.items = DOMAIN d.items
       /\ \A i \in DOMAIN d.items : /\ sent.items[i].rev = d.items[i].rev
                                    /\ sent.items[i].usn = IF i \in K THEN usn ELSE d.items[i].usn
       /\ DOMAIN sent.revlog = DOMAIN d.revlog
       /\ \A t \in DOMAIN d.revlog : sent.revlog[t] = IF t \in T THEN usn ELSE d.revlog[t]
  <2>1. \A i \in DOMAIN d.items : d.items[i] \in Row
    BY <1>4, CollectionFields DEF PartialFunction
  <2>2. /\ DOMAIN sent.items = DOMAIN d.items
        /\ \A i \in DOMAIN d.items : /\ sent.items[i].rev = d.items[i].rev
                                     /\ sent.items[i].usn = IF i \in K THEN usn ELSE d.items[i].usn
    BY <1>3, <2>1 DEF Stamped, Row
  <2>3. /\ DOMAIN sent.revlog = DOMAIN d.revlog
        /\ \A t \in DOMAIN d.revlog : sent.revlog[t] = IF t \in T THEN usn ELSE d.revlog[t]
    BY <1>3 DEF Stamp
  <2>4. QED
    BY <2>2, <2>3
<1>13. /\ \A i \in DOMAIN d.items : d.items[i].rev \in Int /\ d.items[i].usn \in Int
       /\ \A i \in DOMAIN s.items : s.items[i].rev \in Int
       /\ \A i \in DOMAIN disk.items : disk.items[i].rev \in Int
  BY <1>4, RowTypes
<1>14. \A i \in DOMAIN s1.items : s1.items[i].rev \in Int
  BY <1>5, <1>11, <1>13 DEF CardsSent
<1>15. RevsPast(server_col)'
  <2>1. \A i \in DOMAIN s1.items : s1.items[i].rev <= now
    BY <1>5, <1>7, <1>11 DEF RevsPast, CardsSent
  <2>2. QED
    BY <1>1, <2>1 DEF RevsPast, s1
<1>16. ServerMerges'
  <2>0. /\ \A i \in DOMAIN disk.items :
             i \in DOMAIN s.graves \/ (i \in DOMAIN s.items /\ s.items[i].rev >= disk.items[i].rev)
        /\ \A i \in DOMAIN s.items :
             (i \in DOMAIN disk.items /\ s.items[i] = disk.items[i]) \/ s.items[i].usn = disk.usn
        /\ \A t \in DOMAIN disk.revlog : t \in DOMAIN s.revlog
        /\ \A t \in DOMAIN s.revlog :
             (t \in DOMAIN disk.revlog /\ s.revlog[t] = disk.revlog[t]) \/ s.revlog[t] = disk.usn
    BY <1>7 DEF ServerMerges, s
  <2>1. \A i \in DOMAIN disk.items :
          \/ i \in DOMAIN s1.graves
          \/ i \in DOMAIN s1.items /\ s1.items[i].rev >= disk.items[i].rev
    BY <1>6, <1>11, <1>13, <1>14, <2>0 DEF CardsSent
  <2>2. \A i \in DOMAIN s1.items :
          \/ i \in DOMAIN disk.items /\ s1.items[i] = disk.items[i]
          \/ s1.items[i].usn = disk.usn
    BY <1>4, <1>11, <2>0 DEF CardsSent
  <2>3. \A t \in DOMAIN disk.revlog : t \in DOMAIN s1.revlog
    BY <1>3, <2>0
  <2>4. \A t \in DOMAIN s1.revlog :
          \/ t \in DOMAIN disk.revlog /\ s1.revlog[t] = disk.revlog[t]
          \/ s1.revlog[t] = disk.usn
    <3>1. \A t \in DOMAIN s1.revlog \ DOMAIN s.revlog : s1.revlog[t] = usn
      BY <1>3, <1>5, <1>12
    <3>2. QED
      BY <1>3, <1>4, <2>0, <3>1
  <2>5. QED
    BY <1>1, <2>1, <2>2, <2>3, <2>4 DEF ServerMerges, s1
<1>17. ASSUME Syncing(c)' PROVE RevsPast(col[c])' /\ Merging(c)'
  <2>1. /\ e = sent /\ sess'[c].pc \in {"send", "sanity"} /\ ToSend(c)' = sess[c].todo \ chunk
        /\ ToReceive(c)' = {} /\ ToSend(c) = sess[c].todo
    BY <1>0, <1>3, <1>17 DEF ToSend, ToReceive
  <2>2. RevsPast(col[c])'
    <3>1. \A i \in DOMAIN e.items : e.items[i].rev <= now
      BY <1>7, <1>12, <2>1 DEF RevsPast
    <3>2. QED
      BY <1>1, <3>1 DEF RevsPast, e
  <2>3. NoneLost(c)'
    <3>1. \A i \in DOMAIN sess[c].saved.items :
            \/ i \in DOMAIN d.graves
            \/ i \in DOMAIN d.items /\ sess[c].saved.items[i].rev <= d.items[i].rev
      BY <1>8 DEF NoneLost, d
    <3>2. \A i \in DOMAIN sess[c].saved.items :
            \/ i \in DOMAIN e.graves
            \/ i \in DOMAIN e.items /\ sess[c].saved.items[i].rev <= e.items[i].rev
      BY <1>3, <1>12, <2>1, <3>1
    <3>3. QED
      BY <1>1, <1>17, <3>2 DEF NoneLost, e
  <2>4. UsnsBelow(col[c], disk.usn + 1)'
    <3>1. /\ \A i \in DOMAIN e.items : e.items[i].usn \in -1..usn
          /\ \A i \in DOMAIN e.graves : e.graves[i] \in -1..usn
          /\ \A t \in DOMAIN e.revlog : e.revlog[t] \in -1..usn
      BY <1>3, <1>4, <1>8, <1>12, <2>1 DEF UsnsBelow
    <3>2. UsnsBelow(e, usn + 1)
      BY <1>4, <3>1 DEF UsnsBelow
    <3>3. QED
      BY <1>1, <1>4, <3>2 DEF UsnsBelow, e
  <2>5. Stored(col[c], server_col)'
    <3>1. ASSUME NEW i \in DOMAIN e.items, e.items[i].usn # PENDING
          PROVE  \/ i \in DOMAIN s1.graves
                 \/ i \in DOMAIN s1.items /\ e.items[i].rev <= s1.items[i].rev
      <4>1. CASE i \in K
        <5>1. i \in DOMAIN s1.items /\ e.items[i].rev = s1.items[i].rev /\ s1.items[i].rev \in Int
          BY <1>5, <1>11, <1>12, <1>14, <2>1, <4>1 DEF CardsSent
        <5>2. QED
          BY <5>1
      <4>2. CASE i \notin K
        <5>1. i \in DOMAIN d.items /\ e.items[i].rev = d.items[i].rev /\ d.items[i].usn # PENDING
          BY <1>12, <2>1, <3>1, <4>2
        <5>2. i \in DOMAIN s.graves \/ (i \in DOMAIN s.items /\ d.items[i].rev <= s.items[i].rev)
          BY <1>8, <5>1 DEF Stored
        <5>3. QED
          BY <1>6, <1>11, <1>13, <1>14, <5>1, <5>2 DEF CardsSent
      <4>3. QED
        BY <4>1, <4>2
    <3>2. \A t \in DOMAIN e.revlog : e.revlog[t] # PENDING => t \in DOMAIN s1.revlog
      BY <1>3, <1>8, <1>12, <2>1 DEF Stored
    <3>3. QED
      BY <3>1, <3>2 DEF Stored, e, s1
  <2>6. DecksMerge(c)'
    <3>1. /\ DOMAIN d.items \cap Decks = DOMAIN s.items \cap Decks /\ d.conf = s.conf
          /\ \A i \in DOMAIN d.items \cap Decks :
               d.items[i].rev = s.items[i].rev /\ d.items[i].usn # PENDING
      BY <1>8 DEF DecksMerge, d, s
    <3>2. \A i \in Decks : i \notin K
      BY <1>5, DisjointAssumption
    <3>3. /\ DOMAIN e.items \cap Decks = DOMAIN s1.items \cap Decks /\ e.conf = s1.conf
          /\ \A i \in DOMAIN e.items \cap Decks :
               e.items[i].rev = s1.items[i].rev /\ e.items[i].usn # PENDING
      BY <1>3, <1>11, <1>12, <2>1, <3>1, <3>2 DEF CardsSent
    <3>4. QED
      BY <3>3 DEF DecksMerge, e, s1
  <2>7. ChunksMerge(c)'
    <3>1. \A i \in DOMAIN s1.items \cap Cards :
            i \in DOMAIN e.items /\ s1.items[i].rev <= e.items[i].rev
      <4>1. \A i \in K : i \in DOMAIN e.items /\ s1.items[i].rev = e.items[i].rev
        BY <1>5, <1>11, <1>12, <2>1 DEF CardsSent
      <4>2. \A i \in (DOMAIN s1.items \cap Cards) \ K :
              i \in DOMAIN e.items /\ s1.items[i].rev <= e.items[i].rev
        BY <1>9, <1>11, <1>12, <2>1 DEF CardsSent
      <4>3. QED
        BY <1>14, <4>1, <4>2
    <3>2. \A t \in DOMAIN s1.revlog : t \in DOMAIN e.revlog
      BY <1>3, <1>5, <1>9, <1>12, <2>1
    <3>3. QED
      BY <3>1, <3>2 DEF ChunksMerge, e, s1
  <2>8. PendingSent(c)'
    <3>1. /\ \A i \in DOMAIN d.items \cap Cards : d.items[i].usn = PENDING => <<"cards", i>> \in sess[c].todo
          /\ \A t \in DOMAIN d.revlog : d.revlog[t] = PENDING => <<"revlog", t>> \in sess[c].todo
      BY <1>8, <2>1 DEF PendingSent, d
    <3>2. usn # PENDING
      BY <1>4 DEF PENDING
    <3>3. \A i \in DOMAIN e.items \cap Cards :
            e.items[i].usn = PENDING => <<"cards", i>> \in sess[c].todo \ chunk
      BY <1>5, <1>12, <2>1, <3>1, <3>2
    <3>4. \A t \in DOMAIN e.revlog : e.revlog[t] = PENDING => <<"revlog", t>> \in sess[c].todo \ chunk
      BY <1>5, <1>12, <2>1, <3>1, <3>2
    <3>5. QED
      BY <2>1, <3>3, <3>4 DEF PendingSent, e
  <2>9. \A i \in DOMAIN e.graves : e.graves[i] # PENDING
    BY <1>3, <1>8, <2>1
  <2>10. QED
    BY <2>1, <2>2, <2>3, <2>4, <2>5, <2>6, <2>7, <2>8, <2>9 DEF Merging, e
<1>18. QED
  BY <1>0, <1>15, <1>16, <1>17, MergeCall

LEMMA MergeCalls ==
  ASSUME TypeInv, SessionInv, ClockInv, GraveInv, MergeInv, ~Overlap, MsPerSec = 1,
         NEW c \in Clients, NEW lost \in BOOLEAN, QuietCalls(c, lost)
  PROVE  MergeInv'
BY MergeStart, MergeSendGraves, MergeApplyChanges, MergeReceiveChunk, MergeSendChunk, MergeSanityCheck
DEF QuietCalls

\* What a client has seen of the committed collection, and what it has stored
\* there, it has also seen of, and stored in, the one a sync has changed.
LEMMA ServerAhead ==
  ASSUME TypeInv, GraveInv, MergeInv, NEW d, IsCollection(d), d.usn <= disk.usn,
         Seen(d, disk, d.usn), Stored(d, disk)
  PROVE  Seen(d, server_col, d.usn) /\ Stored(d, server_col)
<1>1. /\ IsCollection(disk) /\ IsCollection(server_col) /\ ServerMerges /\ ServerGraves
      /\ d.usn \in Int /\ disk.usn \in Int
  BY CollectionFields DEF TypeInv, ServerTypes, MergeInv, GraveInv
<1>2. /\ \A i \in DOMAIN d.items : d.items[i].rev \in Int
      /\ \A i \in DOMAIN disk.items : disk.items[i].rev \in Int
      /\ \A i \in DOMAIN server_col.items : server_col.items[i].rev \in Int
  BY <1>1, RowTypes
<1>3. Seen(d, server_col, d.usn)
  BY <1>1 DEF Seen, ServerMerges
<1>4. \A i \in DOMAIN d.items : d.items[i].usn # PENDING =>
        \/ i \in DOMAIN server_col.graves
        \/ i \in DOMAIN server_col.items /\ d.items[i].rev <= server_col.items[i].rev
  <2> SUFFICES ASSUME NEW i \in DOMAIN d.items, d.items[i].usn # PENDING
               PROVE  \/ i \in DOMAIN server_col.graves
                      \/ i \in DOMAIN server_col.items /\ d.items[i].rev <= server_col.items[i].rev
    OBVIOUS
  <2>1. CASE i \in DOMAIN disk.graves
    BY <1>1, <2>1 DEF ServerGraves
  <2>2. CASE i \in DOMAIN disk.items /\ d.items[i].rev <= disk.items[i].rev
    <3>1. \/ i \in DOMAIN server_col.graves
          \/ i \in DOMAIN server_col.items /\ server_col.items[i].rev >= disk.items[i].rev
      BY <1>1, <2>2 DEF ServerMerges
    <3>2. QED
      BY <1>2, <2>2, <3>1
  <2>3. QED
    BY <2>1, <2>2 DEF Stored
<1>5. \A t \in DOMAIN d.revlog : d.revlog[t] # PENDING => t \in DOMAIN server_col.revlog
  BY <1>1 DEF Stored, ServerMerges
<1>6. QED
  BY <1>3, <1>4, <1>5 DEF Stored

\* With its sync over, a client has all the server has.
LEMMA AllSeen ==
  ASSUME TypeInv, MergeInv, NEW c \in Clients, Active(c), sess[c].pc \in {"sanity", "finish"}
  PROVE  /\ \A i \in DOMAIN server_col.items :
              i \in DOMAIN col[c].items /\ server_col.items[i].rev <= col[c].items[i].rev
         /\ \A t \in DOMAIN server_col.revlog : t \in DOMAIN col[c].revlog
<1>1. Merging(c) /\ ToReceive(c) = {}
  BY DEF MergeInv, ToReceive
<1>2. DecksMerge(c) /\ ChunksMerge(c)
  BY <1>1 DEF Merging
<1>3. IsCollection(server_col)
  BY DEF TypeInv, ServerTypes
<1>4. \A i \in DOMAIN server_col.items : i \in Items /\ server_col.items[i].rev \in Int
  BY <1>3, RowTypes
<1>5. QED
  BY <1>1, <1>2, <1>4 DEF DecksMerge, ChunksMerge, Items

\* What is left to show of a step that ends every sync.
LEMMA MergeAlone ==
  ASSUME TypeInv, TypeInv', MergeInv, NEW c \in Clients, ~Syncing(c)', now' = now + 1,
         \A b \in Clients \ {c} : col'[b] = col[b] /\ sess'[b] = sess[b],
         ServerKept \/ SessionsEnd,
         RevsPast(disk)', UsnsBelow(disk, disk.usn)', NonePending(disk)',
         \A b \in Clients \ {c} :
           SameSchema(b)' => Seen(Durable(b), disk', Durable(b).usn) /\ Stored(Durable(b), disk'),
         RevsPast(col[c])', UsnsBelow(col[c], col[c].usn)',
         col'[c].scm = disk'.scm => Seen(col[c], disk, col[c].usn)' /\ Stored(col[c], disk)'
  PROVE  MergeInv'
<1>1. \A b \in Clients : Active(b)' => Active(b) /\ b # c /\ ServerKept
  BY NoClientAssumption DEF Active, Syncing, OwnSession, ServerKept, SessionsEnd, NoSync
<1>2. \A b \in Clients \ {c} : Durable(b)' = Durable(b)
  BY DEF Durable, Syncing
<1>3. Durable(c)' = col'[c]
  BY DEF Durable
<1>4. /\ IsCollection(disk') /\ IsCollection(server_col) /\ now \in Int
      /\ \A i \in DOMAIN disk'.items : disk'.items[i].rev \in Int
      /\ \A i \in DOMAIN server_col.items : server_col.items[i].rev \in Int
  <2>1. IsCollection(disk') /\ IsCollection(server_col) /\ now \in Int
    BY DEF TypeInv, ServerTypes
  <2>2. QED
    BY <2>1, RowTypes
<1>5. RevsPast(server_col)' /\ ServerMerges'
  <2>1. CASE ServerKept
    BY <1>4, <2>1 DEF ServerKept, MergeInv, RevsPast, ServerMerges
  <2>2. CASE SessionsEnd
    BY <1>4, <2>2 DEF SessionsEnd, RevsPast, ServerMerges
  <2>3. QED
    BY <2>1, <2>2
<1>6. ASSUME NEW b \in Clients \ {c}
      PROVE  /\ RevsPast(col[b])' /\ RevsPast(Durable(b))' /\ UsnsBelow(Durable(b), Durable(b).usn)'
             /\ SameSchema(b)' => Seen(Durable(b), disk, Durable(b).usn)' /\ Stored(Durable(b), disk)'
  <2>1. Durable(b)' = Durable(b) /\ col'[b] = col[b]
    BY <1>2
  <2>2. IsCollection(col[b]) /\ IsCollection(Durable(b))
    BY DurableType
  <2>3. RevsPast(col[b])' /\ RevsPast(Durable(b))'
    BY <1>4, <2>1, <2>2, RowTypes DEF MergeInv, RevsPast
  <2>4. UsnsBelow(Durable(b), Durable(b).usn)'
    BY <2>1 DEF MergeInv, UsnsBelow
  <2>5. SameSchema(b)' => Seen(Durable(b), disk, Durable(b).usn)' /\ Stored(Durable(b), disk)'
    BY <2>1 DEF Seen, Stored
  <2>6. QED
    BY <2>3, <2>4, <2>5
<1>7. /\ RevsPast(col[c])' /\ RevsPast(Durable(c))' /\ UsnsBelow(Durable(c), Durable(c).usn)'
      /\ SameSchema(c)' => Seen(Durable(c), disk, Durable(c).usn)' /\ Stored(Durable(c), disk)'
  BY <1>3 DEF RevsPast, UsnsBelow, Seen, Stored, SameSchema
<1>8. ASSUME NEW b \in Clients, Active(b)' PROVE Merging(b)'
  <2>1. /\ Active(b) /\ b # c /\ col'[b] = col[b] /\ sess'[b] = sess[b]
        /\ UNCHANGED <<disk, server_col, sync_state>>
    BY <1>1, <1>8 DEF ServerKept
  <2>2. Merging(b)
    BY <2>1 DEF MergeInv
  <2>3. QED
    BY <2>1, <2>2 DEF Merging, NoneLost, UsnsBelow, Stored, Seen, DecksMerge, ChunksMerge, PendingSent,
       ToReceive, ToSend, GatheredIds
<1>9. QED
  BY <1>5, <1>6, <1>7, <1>8 DEF MergeInv

LEMMA MergeCommits ==
  ASSUME TypeInv, TypeInv', SessionInv, ClockInv, GraveInv, MergeInv, NEW c \in Clients, Commits(c)
  PROVE  MergeInv'
<1>1. /\ disk'.items = server_col.items /\ disk'.graves = server_col.graves
      /\ disk'.revlog = server_col.revlog /\ disk'.scm = disk.scm /\ disk'.usn = disk.usn + 1
      /\ disk.usn \in Nat /\ now' = now + 1 /\ now \in Int
  BY CollectionFields DEF Commits, ClockInv, TypeInv, ServerTypes
<1>2. Durable(c) = sess[c].saved /\ Active(c) /\ sess[c].pc = "finish" /\ sess[c].server_usn = disk.usn
  BY DEF Commits, Active, Durable, ClockInv
<1>3. RevsPast(disk)' /\ UsnsBelow(disk, disk.usn)' /\ NonePending(disk)'
  <2>1. /\ \A i \in DOMAIN server_col.items : server_col.items[i].usn \in 0..disk.usn
        /\ \A i \in DOMAIN server_col.graves : server_col.graves[i] \in 0..disk.usn
        /\ \A t \in DOMAIN server_col.revlog : server_col.revlog[t] \in 0..disk.usn
    BY ServerUsns
  <2>2. /\ RevsPast(server_col) /\ \A i \in DOMAIN server_col.items : server_col.items[i].rev \in Int
    BY RowTypes DEF MergeInv, TypeInv, ServerTypes
  <2>3. QED
    BY <1>1, <2>1, <2>2 DEF RevsPast, UsnsBelow, NonePending, PENDING
<1>4. \A b \in Clients : Durable(b).scm = disk.scm =>
        Seen(Durable(b), disk', Durable(b).usn) /\ Stored(Durable(b), disk')
  <2> SUFFICES ASSUME NEW b \in Clients, Durable(b).scm = disk.scm
               PROVE  Seen(Durable(b), disk', Durable(b).usn) /\ Stored(Durable(b), disk')
    OBVIOUS
  <2>1. /\ IsCollection(Durable(b)) /\ Durable(b).usn <= disk.usn
        /\ Seen(Durable(b), disk, Durable(b).usn) /\ Stored(Durable(b), disk)
    BY DurableType DEF GraveInv, GravesKnown, MergeInv, SameSchema
  <2>2. Seen(Durable(b), server_col, Durable(b).usn) /\ Stored(Durable(b), server_col)
    BY <2>1, ServerAhead
  <2>3. QED
    BY <1>1, <2>2 DEF Seen, Stored
<1>5. \A b \in Clients \ {c} :
        SameSchema(b)' => Seen(Durable(b), disk', Durable(b).usn) /\ Stored(Durable(b), disk')
  <2>1. \A b \in Clients \ {c} : Durable(b)' = Durable(b)
    BY DEF Commits, Durable, Syncing
  <2>2. QED
    BY <1>1, <1>4, <2>1 DEF SameSchema
<1>6. /\ RevsPast(col[c])' /\ UsnsBelow(col[c], col[c].usn)'
      /\ col'[c].scm = disk'.scm => Seen(col[c], disk, col[c].usn)' /\ Stored(col[c], disk)'
  <2>1. CASE col'[c] = sess[c].saved
    <3>1. RevsPast(Durable(c)) /\ UsnsBelow(Durable(c), Durable(c).usn) /\ IsCollection(Durable(c))
      BY DurableType DEF MergeInv
    <3>2. RevsPast(col[c])'
      BY <1>1, <1>2, <2>1, <3>1, RowTypes DEF RevsPast
    <3>3. UsnsBelow(col[c], col[c].usn)'
      BY <1>2, <2>1, <3>1 DEF UsnsBelow
    <3>4. col'[c].scm = disk'.scm => Seen(col[c], disk, col[c].usn)' /\ Stored(col[c], disk)'
      BY <1>1, <1>2, <1>4, <2>1 DEF Seen, Stored
    <3>5. QED
      BY <3>2, <3>3, <3>4
  <2>2. CASE /\ col'[c].items = col[c].items /\ col'[c].graves = col[c].graves
             /\ col'[c].revlog = col[c].revlog /\ col'[c].usn = sess[c].server_usn + 1
    <3>1. RevsPast(col[c]) /\ Merging(c) /\ IsCollection(col[c])
      BY <1>2, DurableType DEF MergeInv
    <3>2. RevsPast(col[c])'
      BY <1>1, <2>2, <3>1, RowTypes DEF RevsPast
    <3>3. UsnsBelow(col[c], col[c].usn)'
      BY <1>2, <2>2, <3>1 DEF UsnsBelow, Merging
    <3>4. Stored(col[c], disk)'
      BY <1>1, <2>2, <3>1 DEF Stored, Merging
    <3>5. Seen(col[c], disk, col[c].usn)'
      BY <1>1, <1>2, <2>2, AllSeen DEF Seen
    <3>6. QED
      BY <3>2, <3>3, <3>4, <3>5
  <2>3. QED
    BY <2>1, <2>2 DEF Commits
<1>7. /\ ~Syncing(c)' /\ SessionsEnd /\ \A b \in Clients \ {c} : col'[b] = col[b] /\ sess'[b] = sess[b]
  BY DEF Commits, SessionsEnd
<1>8. QED
  BY <1>1, <1>3, <1>5, <1>6, <1>7, MergeAlone

LEMMA OneWayFacts ==
  ASSUME TypeInv, ClockInv, MergeInv, NEW c \in Clients, Alone(c)
  PROVE  /\ Durable(c) = col[c] /\ IsCollection(col[c]) /\ IsCollection(disk)
         /\ now \in Int /\ disk.scm \in Int /\ disk.scm <= now /\ disk.usn \in Nat /\ col[c].usn \in Nat
         /\ RevsPast(col[c]) /\ UsnsBelow(col[c], col[c].usn)
         /\ RevsPast(disk) /\ UsnsBelow(disk, disk.usn) /\ NonePending(disk)
         /\ \A i \in DOMAIN col[c].items : col[c].items[i].rev \in Int
         /\ \A i \in DOMAIN disk.items : disk.items[i].rev \in Int
         /\ \A b \in Clients \ {c} : /\ Durable(b)' = Durable(b)
                                     /\ Durable(b).scm \in Int /\ Durable(b).scm <= now
                                     /\ Durable(b).scm = disk.scm =>
                                          /\ Seen(Durable(b), disk, Durable(b).usn)
                                          /\ Stored(Durable(b), disk)
<1>1. Durable(c) = col[c]
  BY DEF Alone, Durable
<1>2. IsCollection(col[c]) /\ IsCollection(disk) /\ \A b \in Clients : IsCollection(Durable(b))
  BY DurableType
<1>3. /\ now \in Int /\ disk.scm \in Int /\ disk.scm <= now /\ disk.usn \in Nat /\ col[c].usn \in Nat
      /\ \A b \in Clients : Durable(b).scm \in Int /\ Durable(b).scm <= now
  BY SMTT(30), <1>2, CollectionFields DEF ClockInv, TypeInv
<1>4. /\ RevsPast(col[c]) /\ UsnsBelow(col[c], col[c].usn)
      /\ RevsPast(disk) /\ UsnsBelow(disk, disk.usn) /\ NonePending(disk)
  BY <1>1 DEF MergeInv
<1>5. \A b \in Clients : Durable(b).scm = disk.scm =>
        Seen(Durable(b), disk, Durable(b).usn) /\ Stored(Durable(b), disk)
  BY DEF MergeInv, SameSchema
<1>6. \A b \in Clients \ {c} : Durable(b)' = Durable(b)
  BY DEF Alone, Durable, Syncing
<1>7. /\ \A i \in DOMAIN col[c].items : col[c].items[i].rev \in Int
      /\ \A i \in DOMAIN disk.items : disk.items[i].rev \in Int
  BY <1>2, RowTypes
<1>8. QED
  BY <1>1, <1>2, <1>3, <1>4, <1>5, <1>6, <1>7

LEMMA UploadedRows ==
  ASSUME NEW d, IsCollection(d), UsnsBelow(d, d.usn)
  PROVE  LET items == BeforeUploadItems(d)
             revlog == Stamp(d.revlog, PendingIn(d.revlog, PENDING), 0)
         IN  /\ DOMAIN items = DOMAIN d.items
             /\ \A i \in DOMAIN items : items[i].rev = d.items[i].rev /\ items[i].usn \in 0..d.usn
             /\ \A t \in DOMAIN revlog : revlog[t] \in 0..d.usn
<1>1. /\ d.usn \in Nat /\ DOMAIN d.items \subseteq Items
      /\ \A i \in DOMAIN d.items : d.items[i] \in Row
      /\ \A i \in DOMAIN d.items : d.items[i].usn \in -1..(d.usn - 1)
      /\ \A t \in DOMAIN d.revlog : d.revlog[t] \in -1..(d.usn - 1)
  BY CollectionFields DEF PartialFunction, UsnsBelow
<1> DEFINE S == Decks \cup PendingItems(d, Cards, PENDING)
           T == PendingIn(d.revlog, PENDING)
           items == BeforeUploadItems(d)
           revlog == Stamp(d.revlog, T, 0)
<1>2. /\ \A i \in DOMAIN d.items \ S : d.items[i].usn # -1
      /\ \A t \in DOMAIN d.revlog \ T : d.revlog[t] # -1
  BY <1>1 DEF PendingItems, PendingIn, IsPending, PENDING, Items
<1>3. items = Stamped(d.items, S, 0)
  BY DEF BeforeUploadItems
<1> HIDE DEF S, items
<1>4. /\ DOMAIN items = DOMAIN d.items
      /\ \A i \in DOMAIN items : /\ items[i].rev = d.items[i].rev
                                 /\ items[i].usn = IF i \in S THEN 0 ELSE d.items[i].usn
  BY <1>1, <1>3 DEF Stamped, Row
<1>5. \A i \in DOMAIN items : items[i].usn \in 0..d.usn
  BY <1>1, <1>2, <1>4
<1>6. \A t \in DOMAIN revlog : revlog[t] \in 0..d.usn
  BY <1>1, <1>2 DEF Stamp
<1>7. QED
  BY <1>4, <1>5, <1>6 DEF items

LEMMA MergeUploads ==
  ASSUME TypeInv, TypeInv', ClockInv, GraveInv, MergeInv, NEW c \in Clients, Uploads(c)
  PROVE  MergeInv'
<1> DEFINE d == col[c]
           e == col'[c]
<1>1. Alone(c) /\ now' = now + 1 /\ ~Syncing(c)'
      /\ \A b \in Clients \ {c} : col'[b] = col[b] /\ sess'[b] = sess[b]
  BY DEF Uploads, Alone
<1>2. /\ IsCollection(d) /\ now \in Int /\ disk.scm \in Int /\ disk.scm <= now /\ d.usn \in Nat
      /\ RevsPast(d) /\ UsnsBelow(d, d.usn)
      /\ RevsPast(disk) /\ UsnsBelow(disk, disk.usn) /\ NonePending(disk)
      /\ \A i \in DOMAIN d.items : d.items[i].rev \in Int
      /\ \A i \in DOMAIN disk.items : disk.items[i].rev \in Int
      /\ \A b \in Clients \ {c} : /\ Durable(b)' = Durable(b)
                                  /\ Durable(b).scm \in Int /\ Durable(b).scm <= now
                                  /\ Durable(b).scm = disk.scm =>
                                       /\ Seen(Durable(b), disk, Durable(b).usn)
                                       /\ Stored(Durable(b), disk)
  BY <1>1, OneWayFacts
<1>3. /\ e.items = BeforeUploadItems(d) /\ DOMAIN e.graves = {}
      /\ e.revlog = Stamp(d.revlog, PendingIn(d.revlog, PENDING), 0)
      /\ e.usn = d.usn + 1 /\ e.scm = now + 1
      /\ (ServerKept /\ disk' = disk) \/ (disk' = e /\ SessionsEnd)
  BY DEF Uploads, ServerKept
<1>4. /\ DOMAIN e.items = DOMAIN d.items
      /\ \A i \in DOMAIN e.items : e.items[i].rev = d.items[i].rev /\ e.items[i].usn \in 0..d.usn
      /\ \A t \in DOMAIN e.revlog : e.revlog[t] \in 0..d.usn
  <2> HIDE DEF d, e
  <2>1. QED
    BY <1>2, <1>3, UploadedRows
<1> HIDE DEF d
<1>5. /\ \A i \in DOMAIN e.items : e.items[i].rev <= now + 1 /\ e.items[i].rev \in Int
      /\ UsnsBelow(e, e.usn) /\ NonePending(e)
  <2> HIDE DEF e
  <2>1. \A i \in DOMAIN e.items : e.items[i].rev <= now + 1 /\ e.items[i].rev \in Int
    BY <1>2, <1>4 DEF RevsPast
  <2>2. UsnsBelow(e, e.usn)
    BY <1>2, <1>3, <1>4 DEF UsnsBelow
  <2>3. NonePending(e)
    BY <1>2, <1>3, <1>4 DEF NonePending, PENDING
  <2>4. QED
    BY <2>1, <2>2, <2>3
<1>6. RevsPast(col[c])' /\ UsnsBelow(col[c], col[c].usn)'
  BY <1>1, <1>5 DEF RevsPast, UsnsBelow
<1>7. CASE ServerKept /\ disk' = disk
  <2>1. RevsPast(disk)' /\ UsnsBelow(disk, disk.usn)' /\ NonePending(disk)'
    BY <1>1, <1>2, <1>7 DEF RevsPast, UsnsBelow, NonePending
  <2>2. col'[c].scm # disk'.scm
    BY <1>2, <1>3, <1>7
  <2>3. \A b \in Clients \ {c} :
          SameSchema(b)' => Seen(Durable(b), disk', Durable(b).usn) /\ Stored(Durable(b), disk')
    BY <1>2, <1>7 DEF SameSchema
  <2>4. QED
    BY <1>1, <1>6, <1>7, <2>1, <2>2, <2>3, MergeAlone
<1>8. CASE disk' = e /\ SessionsEnd
  <2>1. RevsPast(disk)' /\ UsnsBelow(disk, disk.usn)' /\ NonePending(disk)'
    BY <1>1, <1>5, <1>8 DEF RevsPast, UsnsBelow, NonePending
  <2>2. Seen(col[c], disk, col[c].usn)' /\ Stored(col[c], disk)'
    BY <1>5, <1>8 DEF Seen, Stored
  <2>3. \A b \in Clients \ {c} : ~SameSchema(b)'
    BY <1>2, <1>3, <1>8 DEF SameSchema
  <2>4. QED
    BY <1>1, <1>6, <1>8, <2>1, <2>2, <2>3, MergeAlone
<1>9. QED
  BY <1>3, <1>7, <1>8

LEMMA MergeDownloads ==
  ASSUME TypeInv, TypeInv', ClockInv, GraveInv, MergeInv, NEW c \in Clients, Downloads(c)
  PROVE  MergeInv'
<1>1. Alone(c) /\ now' = now + 1 /\ ~Syncing(c)' /\ SessionsEnd
      /\ \A b \in Clients \ {c} : col'[b] = col[b] /\ sess'[b] = sess[b]
  BY DEF Downloads, Alone
<1>2. /\ now \in Int /\ disk.usn \in Nat
      /\ RevsPast(col[c]) /\ UsnsBelow(col[c], col[c].usn)
      /\ RevsPast(disk) /\ UsnsBelow(disk, disk.usn) /\ NonePending(disk)
      /\ \A i \in DOMAIN col[c].items : col[c].items[i].rev \in Int
      /\ \A i \in DOMAIN disk.items : disk.items[i].rev \in Int
      /\ \A b \in Clients \ {c} : /\ Durable(b)' = Durable(b)
                                  /\ Durable(b).scm = disk.scm =>
                                       /\ Seen(Durable(b), disk, Durable(b).usn)
                                       /\ Stored(Durable(b), disk)
  BY <1>1, OneWayFacts
<1>3. /\ disk'.items = disk.items /\ disk'.graves = disk.graves /\ disk'.revlog = disk.revlog
      /\ disk'.usn = disk.usn + 1 /\ disk'.scm = disk.scm
  BY DEF Downloads
<1>4. RevsPast(disk)' /\ UsnsBelow(disk, disk.usn)' /\ NonePending(disk)'
  BY <1>1, <1>2, <1>3 DEF RevsPast, UsnsBelow, NonePending
<1>5. \A b \in Clients \ {c} :
        SameSchema(b)' => Seen(Durable(b), disk', Durable(b).usn) /\ Stored(Durable(b), disk')
  BY <1>2, <1>3 DEF SameSchema, Seen, Stored
<1>6. /\ RevsPast(col[c])' /\ UsnsBelow(col[c], col[c].usn)'
      /\ col'[c].scm = disk'.scm => Seen(col[c], disk, col[c].usn)' /\ Stored(col[c], disk)'
  <2>1. CASE col'[c] = col[c]
    <3>1. col'[c].scm # disk'.scm
      BY <1>3, <2>1 DEF Downloads
    <3>2. RevsPast(col[c])' /\ UsnsBelow(col[c], col[c].usn)'
      BY <1>1, <1>2, <2>1 DEF RevsPast, UsnsBelow
    <3>3. QED
      BY <3>1, <3>2
  <2>2. CASE /\ col'[c].items = disk.items /\ col'[c].graves = disk.graves
             /\ col'[c].revlog = disk.revlog /\ col'[c].usn = disk.usn + 1
    <3>1. RevsPast(col[c])' /\ UsnsBelow(col[c], col[c].usn)'
      BY <1>1, <1>2, <2>2 DEF RevsPast, UsnsBelow
    <3>2. Seen(col[c], disk, col[c].usn)' /\ Stored(col[c], disk)'
      BY <1>2, <1>3, <2>2 DEF Seen, Stored
    <3>3. QED
      BY <3>1, <3>2
  <2>3. QED
    BY <2>1, <2>2 DEF Downloads
<1>7. QED
  BY <1>1, <1>4, <1>5, <1>6, MergeAlone

LEMMA MergeForces ==
  ASSUME TypeInv, TypeInv', ClockInv, GraveInv, MergeInv, NEW c \in Clients, ForcesFullSync(c)
  PROVE  MergeInv'
<1>1. Alone(c) /\ now' = now + 1 /\ ~Syncing(c)' /\ (ServerKept \/ SessionsEnd) /\ UNCHANGED disk
      /\ \A b \in Clients \ {c} : col'[b] = col[b] /\ sess'[b] = sess[b]
  BY DEF ForcesFullSync, Alone
<1>2. /\ now \in Int /\ disk.scm \in Int /\ disk.scm <= now
      /\ RevsPast(col[c]) /\ UsnsBelow(col[c], col[c].usn)
      /\ RevsPast(disk) /\ UsnsBelow(disk, disk.usn) /\ NonePending(disk)
      /\ \A i \in DOMAIN col[c].items : col[c].items[i].rev \in Int
      /\ \A i \in DOMAIN disk.items : disk.items[i].rev \in Int
      /\ \A b \in Clients \ {c} : /\ Durable(b)' = Durable(b)
                                  /\ Durable(b).scm = disk.scm =>
                                       /\ Seen(Durable(b), disk, Durable(b).usn)
                                       /\ Stored(Durable(b), disk)
  BY <1>1, OneWayFacts
<1>3. /\ col'[c].items = col[c].items /\ col'[c].graves = col[c].graves
      /\ col'[c].revlog = col[c].revlog /\ col'[c].usn = col[c].usn /\ col'[c].scm = now + 1
  BY DEF ForcesFullSync
<1>4. RevsPast(disk)' /\ UsnsBelow(disk, disk.usn)' /\ NonePending(disk)'
  BY <1>1, <1>2 DEF RevsPast, UsnsBelow, NonePending
<1>5. \A b \in Clients \ {c} :
        SameSchema(b)' => Seen(Durable(b), disk', Durable(b).usn) /\ Stored(Durable(b), disk')
  BY <1>1, <1>2 DEF SameSchema
<1>6. RevsPast(col[c])' /\ UsnsBelow(col[c], col[c].usn)' /\ col'[c].scm # disk'.scm
  BY <1>1, <1>2, <1>3 DEF RevsPast, UsnsBelow
<1>7. QED
  BY <1>1, <1>4, <1>5, <1>6, MergeAlone

MergeState == GraveState /\ MergeInv

LEMMA MergeStateInit == Init => MergeState
BY TypeInvInit, SessionInvInit, ClockInit, GraveInit, MergeInit DEF MergeState, GraveState

LEMMA MergeStateStep ==
  ASSUME MergeState, "Import" \notin EditKinds, "Reset" \notin EditKinds, ~Overlap, MsPerSec = 1,
         [Next]_vars
  PROVE  MergeState'
<1>1. TypeInv /\ SessionInv /\ ClockInv /\ GraveInv /\ MergeInv
  BY DEF MergeState, GraveState
<1>2. GraveState' /\ TypeInv'
  BY GraveStateStep, TypeInvStep, <1>1 DEF MergeState
<1>3. MergeInv'
  BY <1>1, <1>2, StepShapes, MergeQuiet, MergeEdits, MergeCalls, MergeCommits, MergeUploads,
     MergeDownloads, MergeForces
<1>4. QED
  BY <1>2, <1>3 DEF MergeState

-----------------------------------------------------------------------------
(* What follows.                                                             *)

LEMMA NothingIsLost == MergeState => NothingLost
<1> SUFFICES ASSUME MergeState PROVE NothingLost
  OBVIOUS
<1>0. TypeInv /\ GraveInv /\ MergeInv
  BY DEF MergeState, GraveState
<1>1. IsCollection(disk) /\ disk.usn \in Nat /\ \A c \in Clients : IsCollection(Durable(c))
  BY <1>0, DurableType, CollectionFields DEF TypeInv, ServerTypes
<1>2. UsnOrder
  BY <1>0, <1>1 DEF UsnOrder, MergeInv, UsnsBelow, GraveInv, GravesKnown, SameSchema
<1>3. ASSUME NEW c \in Clients, SameSchema(c)
      PROVE  LET d == Durable(c)
                 changed == PendingItems(d, Items, PENDING) \cup PendingIn(d.graves, PENDING)
             IN  /\ \A i \in DOMAIN disk.items \ changed :
                      \/ disk.items[i].usn >= d.usn
                      \/ i \in DOMAIN d.items /\ d.items[i].rev = disk.items[i].rev
                 /\ \A i \in DOMAIN disk.graves \ changed :
                      i \in DOMAIN d.items => disk.graves[i] >= d.usn
                 /\ \A t \in DOMAIN disk.revlog \ DOMAIN d.revlog : disk.revlog[t] >= d.usn
                 /\ \A i \in DOMAIN d.items :
                      \/ d.items[i].usn = PENDING \/ i \in DOMAIN disk.graves
                      \/ i \in DOMAIN disk.items /\ disk.items[i].rev >= d.items[i].rev
                 /\ \A i \in DOMAIN d.graves : d.graves[i] # PENDING => i \notin DOMAIN disk.items
                 /\ \A t \in DOMAIN d.revlog : d.revlog[t] # PENDING => t \in DOMAIN disk.revlog
  <2> DEFINE d == Durable(c)
             changed == PendingItems(d, Items, PENDING) \cup PendingIn(d.graves, PENDING)
  <2>1. /\ IsCollection(d) /\ d.scm = disk.scm /\ Seen(d, disk, d.usn) /\ Stored(d, disk)
        /\ GravesKnown(d) /\ DOMAIN disk.items \cap DOMAIN disk.graves = {}
    BY <1>0, <1>1, <1>3 DEF SameSchema, MergeInv, GraveInv, ServerGraves
  <2> HIDE DEF d
  <2>2. /\ d.usn \in Int /\ DOMAIN d.items \subseteq Items
        /\ \A i \in DOMAIN d.items : d.items[i].rev \in Int
        /\ \A i \in DOMAIN disk.items : disk.items[i].rev \in Int /\ disk.items[i].usn \in Int
        /\ \A t \in DOMAIN disk.revlog : disk.revlog[t] \in Int
    BY <1>1, <2>1, RowTypes, CollectionFields
  <2>3. /\ \A i \in DOMAIN d.items : i \notin changed => d.items[i].usn # PENDING
        /\ \A i \in DOMAIN d.graves : i \notin changed => d.graves[i] # PENDING
    BY <2>2 DEF PendingItems, PendingIn, IsPending
  <2> HIDE DEF changed
  <2>4. \A i \in DOMAIN d.graves : d.graves[i] # PENDING => i \in DOMAIN disk.graves
    BY <2>1 DEF GravesKnown
  <2>5. \A i \in DOMAIN disk.items \ changed :
          disk.items[i].usn >= d.usn \/ (i \in DOMAIN d.items /\ d.items[i].rev = disk.items[i].rev)
    <3> SUFFICES ASSUME NEW i \in DOMAIN disk.items \ changed, ~(disk.items[i].usn >= d.usn)
                 PROVE  i \in DOMAIN d.items /\ d.items[i].rev = disk.items[i].rev
      OBVIOUS
    <3>1. i \in DOMAIN d.items /\ disk.items[i].rev <= d.items[i].rev
      BY <2>1, <2>2, <2>3, <2>4 DEF Seen
    <3>2. d.items[i].rev <= disk.items[i].rev
      BY <2>1, <2>3, <3>1 DEF Stored
    <3>3. QED
      BY <2>2, <3>1, <3>2
  <2>6. \A i \in DOMAIN disk.graves \ changed : i \in DOMAIN d.items => disk.graves[i] >= d.usn
    BY <2>1 DEF GravesKnown
  <2>7. \A t \in DOMAIN disk.revlog \ DOMAIN d.revlog : disk.revlog[t] >= d.usn
    BY <2>1, <2>2 DEF Seen
  <2>8. /\ \A i \in DOMAIN d.items :
             \/ d.items[i].usn = PENDING \/ i \in DOMAIN disk.graves
             \/ i \in DOMAIN disk.items /\ disk.items[i].rev >= d.items[i].rev
        /\ \A t \in DOMAIN d.revlog : d.revlog[t] # PENDING => t \in DOMAIN disk.revlog
    BY <2>1, <2>2 DEF Stored
  <2>9. \A i \in DOMAIN d.graves : d.graves[i] # PENDING => i \notin DOMAIN disk.items
    BY <2>1, <2>4
  <2>10. QED
    BY <2>5, <2>6, <2>7, <2>8, <2>9 DEF d, changed
<1>4. NothingMissed
  BY <1>3 DEF NothingMissed
<1>5. SyncedIsDurable
  BY <1>3 DEF SyncedIsDurable
<1>6. QED
  BY <1>2, <1>4, <1>5 DEF NothingLost

LEMMA NoneHasPending ==
  ASSUME NEW d, NonePending(d)
  PROVE  ~HasPending(d)
BY DEF NonePending, HasPending, PendingItems, PendingIn, IsPending

LEMMA ServerNonePending ==
  ASSUME TypeInv, GraveInv, MergeInv
  PROVE  ~HasPending(server_col) /\ ~HasPending(disk)
<1>1. NonePending(server_col)
  BY ServerUsns DEF NonePending, PENDING
<1>2. NonePending(disk)
  BY DEF MergeInv
<1>3. QED
  BY <1>1, <1>2, NoneHasPending

LEMMA SyncMeets ==
  ASSUME MergeState, NEW c \in Clients, Active(c), sess[c].pc \in {"sanity", "finish"}
  PROVE  /\ Content(col[c]) = Content(server_col)
         /\ ~HasPending(col[c]) /\ ~HasPending(server_col)
<1> DEFINE d == col[c]
           s == server_col
<1>0. TypeInv /\ GraveInv /\ MergeInv
  BY DEF MergeState, GraveState
<1>1. Merging(c) /\ GravesExchanged(c) /\ IsCollection(d) /\ IsCollection(s)
  BY <1>0, DurableType DEF MergeInv, GraveInv
<1>2. /\ Stored(d, s) /\ DecksMerge(c) /\ PendingSent(c) /\ ToSend(c) = {}
      /\ \A i \in DOMAIN d.graves : d.graves[i] # PENDING
      /\ DOMAIN d.items \cap DOMAIN s.graves = {}
  BY <1>1 DEF Merging, GravesExchanged, ToSend
<1>3. /\ \A i \in DOMAIN s.items : i \in DOMAIN d.items /\ s.items[i].rev <= d.items[i].rev
      /\ \A t \in DOMAIN s.revlog : t \in DOMAIN d.revlog
  BY <1>0, AllSeen
<1>4. /\ \A i \in DOMAIN d.items : i \in Items /\ d.items[i].rev \in Int
      /\ \A i \in DOMAIN s.items : s.items[i].rev \in Int
  BY <1>1, RowTypes
<1>5. /\ \A i \in DOMAIN d.items : d.items[i].usn # PENDING
      /\ \A t \in DOMAIN d.revlog : d.revlog[t] # PENDING
      /\ d.conf = s.conf
  BY <1>2, <1>4 DEF DecksMerge, PendingSent, Items
<1> HIDE DEF d, s
<1>6. /\ \A i \in DOMAIN d.items : i \in DOMAIN s.items /\ d.items[i].rev <= s.items[i].rev
      /\ \A t \in DOMAIN d.revlog : t \in DOMAIN s.revlog
  BY <1>2, <1>5 DEF Stored
<1>7. DOMAIN d.items = DOMAIN s.items /\ DOMAIN d.revlog = DOMAIN s.revlog
  BY <1>3, <1>6
<1>8. \A i \in DOMAIN d.items : d.items[i].rev = s.items[i].rev
  BY <1>3, <1>4, <1>6, <1>7
<1>9. [i \in DOMAIN d.items |-> d.items[i].rev] = [i \in DOMAIN s.items |-> s.items[i].rev]
  BY <1>7, <1>8
<1>10. Content(d) = Content(s)
  BY <1>5, <1>7, <1>9 DEF Content
<1>11. NonePending(d)
  BY <1>2, <1>5 DEF NonePending
<1>12. QED
  BY <1>0, <1>10, <1>11, NoneHasPending, ServerNonePending DEF d, s

LEMMA SyncsConverge == MergeState => SyncConverges
<1> SUFFICES ASSUME MergeState, NEW c \in Clients, sess[c].pc \in {"sanity", "finish"}, OwnSession(c)
             PROVE  /\ Content(col[c]) = Content(server_col)
                    /\ ~HasPending(col[c]) /\ ~HasPending(server_col)
  BY DEF SyncConverges
<1>1. Active(c)
  BY DEF Active, Syncing
<1>2. QED
  BY <1>1, SyncMeets

LEMMA NoneOlderItself ==
  ASSUME NEW d, IsCollection(d), NEW e, e.items = d.items, MsPerSec = 1
  PROVE  NoneOlder(d, e)
BY RowTypes, SecIsTime DEF NoneOlder

LEMMA NewestKeptStep ==
  ASSUME MergeState, "Import" \notin EditKinds, MsPerSec = 1, [Next]_vars
  PROVE  NoneOlder(disk, disk') /\ \A c \in Clients : NoneOlder(Durable(c), Durable(c)')
<1>0. TypeInv /\ SessionInv /\ ClockInv /\ GraveInv /\ MergeInv
  BY DEF MergeState, GraveState
<1>1. /\ IsCollection(disk) /\ IsCollection(server_col)
      /\ \A c \in Clients : IsCollection(Durable(c)) /\ IsCollection(col[c])
  BY <1>0, DurableType DEF TypeInv, ServerTypes
<1>2. CASE UNCHANGED disk /\ \A c \in Clients : Durable(c)' = Durable(c)
  BY <1>1, <1>2, NoneOlderItself
<1>3. ASSUME NEW c \in Clients, Edits(c)
      PROVE  NoneOlder(disk, disk') /\ \A b \in Clients : NoneOlder(Durable(b), Durable(b)')
  <2>1. /\ UNCHANGED <<sess, disk>> /\ sess[c] = Idle /\ Edited(col[c], col'[c])
        /\ \A b \in Clients \ {c} : col'[b] = col[b]
    BY <1>0, <1>3, EditShape
  <2>2. /\ Durable(c) = col[c] /\ Durable(c)' = col'[c]
        /\ \A b \in Clients \ {c} : Durable(b)' = Durable(b)
    BY <2>1 DEF Durable, Syncing, Idle
  <2>3. /\ RevsPast(col[c]) /\ \A i \in DOMAIN col[c].items : col[c].items[i].rev \in Int
        /\ now \in Int
    BY <1>0, <1>1, RowTypes DEF MergeInv, TypeInv
  <2>4. \A i \in DOMAIN col[c].items \cap DOMAIN col'[c].items :
          \/ col'[c].items[i] = col[c].items[i]
          \/ col'[c].items[i].rev = now + 1
    BY <2>1 DEF Edited
  <2>5. NoneOlder(Durable(c), Durable(c)')
    BY <2>2, <2>3, <2>4, SecIsTime DEF NoneOlder, RevsPast
  <2>6. QED
    BY <1>1, <2>1, <2>2, <2>5, NoneOlderItself
<1>4. ASSUME NEW c \in Clients, Commits(c)
      PROVE  NoneOlder(disk, disk') /\ \A b \in Clients : NoneOlder(Durable(b), Durable(b)')
  <2>1. \A b \in Clients \ {c} : Durable(b)' = Durable(b)
    BY <1>4 DEF Commits, Durable, Syncing
  <2>2. Durable(c) = sess[c].saved /\ Durable(c)' = col'[c] /\ Active(c) /\ sess[c].pc = "finish"
    BY <1>4 DEF Commits, Durable, Active
  <2>3. NoneOlder(disk, disk')
    <3>1. disk'.items = server_col.items
      BY <1>4 DEF Commits
    <3>2. ServerMerges /\ DOMAIN server_col.items \cap DOMAIN server_col.graves = {}
      BY <1>0 DEF MergeInv, GraveInv, ServerGraves
    <3>3. \A i \in DOMAIN disk.items \cap DOMAIN server_col.items :
            disk.items[i].rev <= server_col.items[i].rev
            /\ disk.items[i].rev \in Int /\ server_col.items[i].rev \in Int
      BY <1>1, <3>2, RowTypes DEF ServerMerges
    <3>4. QED
      BY <3>1, <3>3, SecIsTime DEF NoneOlder
  <2>4. NoneOlder(Durable(c), Durable(c)')
    <3>1. CASE col'[c] = sess[c].saved
      BY <1>1, <2>2, <3>1, NoneOlderItself
    <3>2. CASE col'[c].items = col[c].items
      <4>1. NoneLost(c) /\ DOMAIN col[c].items \cap DOMAIN col[c].graves = {}
        BY <1>0, <2>2 DEF MergeInv, Merging, GraveInv, GravesExchanged
      <4>2. \A i \in DOMAIN sess[c].saved.items \cap DOMAIN col[c].items :
              sess[c].saved.items[i].rev <= col[c].items[i].rev
        BY <4>1 DEF NoneLost
      <4>3. /\ \A i \in DOMAIN sess[c].saved.items : sess[c].saved.items[i].rev \in Int
            /\ \A i \in DOMAIN col[c].items : col[c].items[i].rev \in Int
        BY <1>1, <2>2, RowTypes
      <4>4. QED
        BY <2>2, <3>2, <4>2, <4>3, SecIsTime DEF NoneOlder
    <3>3. QED
      BY <1>4, <3>1, <3>2 DEF Commits
  <2>5. QED
    BY <1>1, <2>1, <2>3, <2>4, NoneOlderItself
<1>5. ASSUME NEW c \in Clients, Uploads(c) \/ Downloads(c) \/ ForcesFullSync(c)
      PROVE  NoneOlder(disk, disk') /\ \A b \in Clients : NoneOlder(Durable(b), Durable(b)')
  <2>1. /\ Alone(c) /\ Durable(c) = col[c] /\ Durable(c)' = col'[c]
        /\ \A b \in Clients \ {c} : Durable(b)' = Durable(b)
    BY <1>5 DEF Uploads, Downloads, ForcesFullSync, Alone, Durable, Syncing
  <2>2. /\ now \in Int /\ disk.scm \in Int /\ disk.scm <= now /\ col[c].scm \in Int /\ col[c].scm <= now
    BY SMTT(30), <1>0, <1>1, <2>1, CollectionFields DEF ClockInv, TypeInv
  <2>3. NoneOlder(disk, disk')
    <3>1. disk'.items = disk.items \/ disk'.scm = now + 1
      BY <1>5 DEF Uploads, ServerKept, Downloads, ForcesFullSync
    <3>2. disk'.scm = now + 1 => disk'.scm # disk.scm
      BY <2>2
    <3>3. QED
      BY <1>1, <3>1, <3>2, NoneOlderItself DEF NoneOlder
  <2>4. NoneOlder(Durable(c), Durable(c)')
    <3>1. col'[c] = col[c] \/ col'[c].scm # col[c].scm
      BY <1>5, <2>2 DEF Uploads, Downloads, ForcesFullSync
    <3>2. QED
      BY <1>1, <2>1, <3>1, NoneOlderItself DEF NoneOlder
  <2>5. QED
    BY <1>1, <2>1, <2>3, <2>4, NoneOlderItself
<1>6. QuietStep => UNCHANGED disk /\ \A c \in Clients : Durable(c)' = Durable(c)
  BY DEF QuietStep
<1>7. \A c \in Clients, lost \in BOOLEAN : QuietCalls(c, lost) =>
        UNCHANGED disk /\ \A b \in Clients : Durable(b)' = Durable(b)
  BY <1>0, CallClock DEF CallLeaves
<1>8. QED
  BY <1>0, <1>2, <1>3, <1>4, <1>5, <1>6, <1>7, StepShapes

\* A collection that has the time stamps of the server's is equal to it.
LEMMA EqualInit == Init => EqualWhenCurrent
<1> SUFFICES ASSUME Init PROVE EqualWhenCurrent
  OBVIOUS
<1>1. \A c \in Clients : Durable(c) = disk
  BY DEF Init, Durable, Syncing, Idle
<1>2. ~HasPending(disk)
  BY MergeInit, NoneHasPending DEF MergeInv
<1>3. QED
  BY <1>1, <1>2 DEF EqualWhenCurrent

LEMMA EqualStep ==
  ASSUME MergeState, MergeState', EqualWhenCurrent, "Import" \notin EditKinds,
         "FinishCrash" \notin Faults, [Next]_vars
  PROVE  EqualWhenCurrent'
<1> DEFINE Equal(d, e) == d.scm = e.scm /\ d.mod = e.mod => Content(d) = Content(e) /\ ~HasPending(d)
<1> SUFFICES \A b \in Clients : Equal(Durable(b)', disk')
  BY DEF EqualWhenCurrent
<1>0. TypeInv /\ SessionInv /\ ClockInv /\ GraveInv /\ MergeInv
  BY DEF MergeState, GraveState
<1>1. /\ now \in Int /\ disk.mod \in Int /\ disk.scm \in Int /\ disk.mod <= now /\ disk.scm <= now
      /\ \A b \in Clients : /\ Equal(Durable(b), disk)
                            /\ Durable(b).mod \in Int /\ Durable(b).mod <= now
                            /\ Durable(b).scm \in Int /\ Durable(b).scm <= now
  <2>1. \A b \in Clients : Equal(Durable(b), disk)
    BY DEF EqualWhenCurrent
  <2>2. IsCollection(disk) /\ now \in Int /\ \A b \in Clients : IsCollection(Durable(b))
    BY <1>0, DurableType DEF TypeInv, ServerTypes
  <2>3. QED
    BY <1>0, <2>1, <2>2, CollectionFields DEF ClockInv
<1>2. CASE UNCHANGED disk /\ \A b \in Clients : Durable(b)' = Durable(b)
  BY <1>1, <1>2
<1>3. ASSUME NEW c \in Clients, Edits(c) PROVE \A b \in Clients : Equal(Durable(b)', disk')
  <2>1. /\ UNCHANGED <<sess, disk>> /\ sess[c] = Idle /\ Edited(col[c], col'[c])
        /\ \A b \in Clients \ {c} : col'[b] = col[b]
    BY <1>0, <1>3, EditShape
  <2>2. Durable(c)' = col'[c] /\ \A b \in Clients \ {c} : Durable(b)' = Durable(b)
    BY <2>1 DEF Durable, Syncing, Idle
  <2>3. Durable(c)'.mod # disk'.mod
    BY <1>1, <2>1, <2>2 DEF Edited
  <2>4. QED
    BY <1>1, <2>1, <2>2, <2>3
<1>4. ASSUME NEW c \in Clients, Commits(c) PROVE \A b \in Clients : Equal(Durable(b)', disk')
  <2>1. \A b \in Clients \ {c} : Durable(b)' = Durable(b)
    BY <1>4 DEF Commits, Durable, Syncing
  <2>2. Durable(c) = sess[c].saved /\ Durable(c)' = col'[c] /\ Active(c) /\ sess[c].pc = "finish"
    BY <1>4 DEF Commits, Durable, Active
  <2>3. disk'.mod = now + 1
    BY <1>4 DEF Commits
  <2>4. \A b \in Clients : Durable(b).mod # disk'.mod
    BY <1>1, <2>3
  <2>5. Equal(Durable(c)', disk')
    <3>1. CASE col'[c] = sess[c].saved
      BY <2>2, <2>4, <3>1
    <3>2. CASE /\ col'[c].items = col[c].items /\ col'[c].graves = col[c].graves
               /\ col'[c].revlog = col[c].revlog /\ col'[c].conf = col[c].conf
      <4>1. Content(col[c]) = Content(server_col) /\ ~HasPending(col[c])
        BY <2>2, SyncMeets
      <4>2. Content(col'[c]) = Content(col[c])
        BY <3>2 DEF Content
      <4>3. ~HasPending(col'[c])
        BY <3>2, <4>1 DEF HasPending, PendingItems
      <4>4. Content(disk') = Content(server_col)
        BY <1>4 DEF Content, Commits
      <4>5. QED
        BY <2>2, <4>1, <4>2, <4>3, <4>4
    <3>3. QED
      BY <1>4, <3>1, <3>2 DEF Commits
  <2>6. QED
    BY <2>1, <2>4, <2>5
<1>5. ASSUME NEW c \in Clients, Uploads(c) \/ Downloads(c) \/ ForcesFullSync(c)
      PROVE  \A b \in Clients : Equal(Durable(b)', disk')
  <2>1. /\ Alone(c) /\ Durable(c) = col[c] /\ Durable(c)' = col'[c]
        /\ \A b \in Clients \ {c} : Durable(b)' = Durable(b)
    BY <1>5 DEF Uploads, Downloads, ForcesFullSync, Alone, Durable, Syncing
  <2>2. /\ ~HasPending(disk) /\ ~HasPending(disk')
    <3>1. NonePending(disk) /\ NonePending(disk)'
      BY <1>0 DEF MergeState, MergeInv
    <3>2. NonePending(disk')
      BY <3>1 DEF NonePending
    <3>3. QED
      BY <3>1, <3>2, NoneHasPending
  <2>3. CASE Uploads(c)
    <3>1. CASE UNCHANGED disk
      <4>1. Durable(c)'.mod # disk'.mod
        BY <1>1, <2>1, <2>3, <3>1 DEF Uploads
      <4>2. QED
        BY <1>1, <2>1, <3>1, <4>1
    <3>2. CASE disk' = col'[c]
      <4>1. disk'.mod = now + 1
        BY <2>3, <3>2 DEF Uploads
      <4>2. \A b \in Clients : Durable(b).mod # disk'.mod
        BY <1>1, <4>1
      <4>3. Equal(Durable(c)', disk')
        BY <2>1, <2>2, <3>2
      <4>4. QED
        BY <2>1, <4>2, <4>3
    <3>3. QED
      BY <2>3, <3>1, <3>2 DEF Uploads, ServerKept
  <2>4. CASE Downloads(c)
    <3>1. disk'.mod = now + 1
      BY <2>4 DEF Downloads
    <3>2. \A b \in Clients : Durable(b).mod # disk'.mod
      BY <1>1, <3>1
    <3>3. Equal(Durable(c)', disk')
      <4>1. CASE col'[c] = col[c]
        BY <2>1, <3>2, <4>1
      <4>2. CASE /\ col'[c].items = disk.items /\ col'[c].graves = disk.graves
                 /\ col'[c].revlog = disk.revlog /\ col'[c].conf = disk.conf
        <5>1. Content(col'[c]) = Content(disk) /\ Content(disk') = Content(disk)
          BY <2>4, <4>2 DEF Content, Downloads
        <5>2. ~HasPending(col'[c])
          BY <2>2, <4>2 DEF HasPending, PendingItems
        <5>3. QED
          BY <2>1, <5>1, <5>2
      <4>3. QED
        BY <2>4, <4>1, <4>2 DEF Downloads
    <3>4. QED
      BY <2>1, <3>2, <3>3
  <2>5. CASE ForcesFullSync(c)
    <3>1. UNCHANGED disk /\ Durable(c)'.scm # disk'.scm
      BY <1>1, <2>1, <2>5 DEF ForcesFullSync
    <3>2. QED
      BY <1>1, <2>1, <3>1
  <2>6. QED
    BY <1>5, <2>3, <2>4, <2>5
<1>6. QuietStep => UNCHANGED disk /\ \A c \in Clients : Durable(c)' = Durable(c)
  BY DEF QuietStep
<1>7. \A c \in Clients, lost \in BOOLEAN : QuietCalls(c, lost) =>
        UNCHANGED disk /\ \A b \in Clients : Durable(b)' = Durable(b)
  BY <1>0, CallClock DEF CallLeaves
<1> HIDE DEF Equal
<1>8. QED
  BY <1>0, <1>2, <1>3, <1>4, <1>5, <1>6, <1>7, StepShapes

\* No change is lost, on any number of devices, whatever is edited, whichever
\* calls fail or are lost, whoever crashes and whatever one-way syncs there are.
\* The hypotheses exclude what is known to lose changes: an import of a deleted
\* object under its old id, the reset of all progress, a sync that ends between
\* another's meta and its start, and two changes of an object in one second.
THEOREM ChangesLast ==
  ASSUME "Import" \notin EditKinds, "Reset" \notin EditKinds, ~Overlap, MsPerSec = 1
  PROVE  Spec => []NothingLost
<1>1. MergeState /\ [Next]_vars => MergeState'
  BY MergeStateStep
<1>2. QED
  BY <1>1, MergeStateInit, NothingIsLost, PTL DEF Spec

\* Under the same hypotheses, both sides of every sync that reaches the sanity
\* check hold the same objects, versions, reviews and config, with nothing pending.
THEOREM SyncsMeet ==
  ASSUME "Import" \notin EditKinds, "Reset" \notin EditKinds, ~Overlap, MsPerSec = 1
  PROVE  Spec => []SyncConverges
<1>1. MergeState /\ [Next]_vars => MergeState'
  BY MergeStateStep
<1>2. QED
  BY <1>1, MergeStateInit, SyncsConverge, PTL DEF Spec

\* Under the same hypotheses, no step leaves an older version of an object behind
\* than there was, on the server or on any device.
THEOREM LatestKept ==
  ASSUME "Import" \notin EditKinds, "Reset" \notin EditKinds, ~Overlap, MsPerSec = 1
  PROVE  Spec => NewestKept
<1>1. MergeState /\ [Next]_vars => MergeState'
  BY MergeStateStep
<1>2. MergeState /\ [Next]_vars =>
        [NoneOlder(disk, disk') /\ \A c \in Clients : NoneOlder(Durable(c), Durable(c)')]_vars
  BY NewestKeptStep
<1>3. QED
  BY <1>1, <1>2, MergeStateInit, PTL DEF Spec, NewestKept

\* Under the same hypotheses, and if the server does not die in the middle of
\* server_finish(), a device whose modification time is the server's needs no sync.
THEOREM CurrentMeansEqual ==
  ASSUME "Import" \notin EditKinds, "Reset" \notin EditKinds, ~Overlap, MsPerSec = 1,
         "FinishCrash" \notin Faults
  PROVE  Spec => []UpToDate
<1>1. MergeState /\ [Next]_vars => MergeState'
  BY MergeStateStep
<1>2. MergeState /\ MergeState' /\ EqualWhenCurrent /\ [Next]_vars => EqualWhenCurrent'
  BY EqualStep
<1>3. EqualWhenCurrent => UpToDate
  BY DEF EqualWhenCurrent, UpToDate, Durable, Syncing, Idle
<1>4. QED
  BY <1>1, <1>2, <1>3, MergeStateInit, EqualInit, PTL DEF Spec
=============================================================================

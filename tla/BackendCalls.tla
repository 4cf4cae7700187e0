----------------------------- MODULE BackendCalls -----------------------------
(***************************************************************************)
(* The calls of the backend that share its locks and flags                 *)
(* (rslib/src/backend/sync.rs, backend/collection.rs, backend/mod.rs and   *)
(* progress.rs).                                                           *)
(*                                                                         *)
(* The desktop makes one call that needs the collection at a time          *)
(* (caller).  Beside it run the check of the sync status (checker), which  *)
(* the desktop starts without claiming the collection, and the thread of   *)
(* the media sync (media); the user may cancel at any time.  The mutexes   *)
(* state, progress_state, sync_abort and media_sync_task are held for a    *)
(* moment and never over a wait: what happens under one is one step.  The  *)
(* collection's mutex is held over waits by the caller alone.              *)
(***************************************************************************)
EXTENDS Integers

CONSTANTS
  CACHE_SECS,   \* how long an answer of the server is used: 300 in sync.rs
  Faults,       \* what may go wrong on this device
  MaxNow,       \* bound: the clock
  MaxVersion    \* bound: changes on the server

ASSUME CacheAssumption == CACHE_SECS \in Nat \ {0}
ASSUME FaultsAssumption == Faults \subseteq {"MediaOpen", "Reopen"}
ASSUME BoundsAssumption == MaxNow \in Nat /\ MaxVersion \in Nat /\ CACHE_SECS <= MaxNow

VARIABLES
  col,        \* is there a collection in the backend?
  poisoned,   \* a thread panicked while it held the collection's mutex
  profile,    \* does the desktop take the collection for open?
  caller,     \* where the desktop's call has come to
  checker,    \* where the check of the sync status has come to
  media,      \* where the thread of the media sync has come to
  mediaAbort, \* state.sync.media_sync_abort
  syncAbort,  \* sync_abort
  wantAbort,  \* progress_state.want_abort
  asked,      \* who was running when a cancellation was asked for
  status,     \* state.sync.remote_sync_status
  version,    \* version of the collection here and on the server
  now         \* the clock, in seconds

vars == <<col, poisoned, profile, caller, checker, media, mediaAbort,
          syncAbort, wantAbort, asked, status, version, now>>

flags == <<mediaAbort, syncAbort, wantAbort, asked>>
others == <<checker, status, version, now>>

Answers == {"NoChanges", "NormalSync", "FullSync"}
Slots == {"none", "armed", "aborted"}
Idle == [pc |-> "idle"]

(* The steps of the caller: the two waits for the media sync, each with    *)
(* its nap, the steps after them, and the rest of the calls.               *)
Waits == {"closeWait", "fullWait"}
Naps == {"closeNap", "fullNap"}
CallerSteps ==
  {"idle", "closeTake", "fullTake", "full", "syncStart", "sync", "synced", "op"}
    \cup Waits \cup Naps

Working == {"sync", "full", "op"}   \* those that have a progress handler

TypeOK ==
  /\ {col, poisoned, profile, wantAbort} \subseteq BOOLEAN
  /\ caller \in [pc: CallerSteps \ {"synced"}] \cup [pc: {"synced"}, required: Answers]
  /\ checker \in {Idle} \cup [pc: {"begun"}, at: 1..MaxNow]
       \cup [pc: {"asking"}, at: 1..MaxNow, mine: 0..MaxVersion]
  /\ media \in {"off", "spawned", "registered", "running"}
  /\ mediaAbort \in Slots /\ syncAbort \in Slots
  /\ asked \subseteq {"caller", "media"}
  /\ status \in [last_check: 0..MaxNow, last_response: Answers]
  /\ version \in [here: 0..MaxVersion, there: 0..MaxVersion]
  /\ now \in CACHE_SECS..MaxNow

Init ==
  /\ col = FALSE /\ poisoned = FALSE /\ profile = FALSE
  /\ caller = Idle /\ checker = Idle /\ media = "off"
  /\ mediaAbort = "none" /\ syncAbort = "none" /\ wantAbort = FALSE /\ asked = {}
  /\ status = [last_check |-> 0, last_response |-> "NoChanges"]
  /\ version = [here |-> 0, there |-> 0]
  /\ now = CACHE_SECS

(* Does the caller hold the collection's mutex while it waits?             *)
\* Seeded fault: the mutex is taken before the media sync has been waited for.
HoldsColFromStart(step) == step \in Working \cup {"fullWait", "fullNap"}

HoldsCol(step) == step \in Working

ColIsFree == ~HoldsCol(caller.pc) /\ ~poisoned

At(step) == [pc |-> step]

-----------------------------------------------------------------------------
(* Progress and abort flags.                                               *)

(* ThrottlingProgressHandler::new: an earlier cancellation is dropped.     *)
\* Seeded fault: the flag is left as it is.
NewHandlerKeepsFlag(who) ==
  /\ asked' = asked \ {who}
  /\ wantAbort' = wantAbort

NewHandler(who) ==
  /\ asked' = asked \ {who}
  /\ wantAbort' = FALSE

(* update(): takes the flag; the one that takes it is interrupted.         *)
TakesAbort == wantAbort /\ wantAbort' = FALSE

(* The activities that a cancellation is meant for.                        *)
Active == {w \in {"caller", "media"} :
             \/ w = "caller" /\ caller.pc \in Working
             \/ w = "media" /\ media = "running"}

SetWantsAbort ==
  /\ wantAbort' = TRUE
  /\ asked' = asked \cup Active
  /\ UNCHANGED <<col, poisoned, profile, caller, media, mediaAbort, syncAbort, others>>

AbortSync ==
  /\ syncAbort = "armed"
  /\ syncAbort' = "aborted"
  /\ UNCHANGED <<col, poisoned, profile, caller, media, mediaAbort, wantAbort, asked, others>>

AbortMediaSync ==
  /\ mediaAbort = "armed"
  /\ mediaAbort' = "aborted"
  /\ UNCHANGED <<col, poisoned, profile, caller, media, syncAbort, wantAbort, asked, others>>

(* First half of abort_media_sync_and_wait.                                *)
AbortMedia ==
  IF mediaAbort = "none" THEN UNCHANGED <<mediaAbort, wantAbort, asked>>
  ELSE /\ mediaAbort' = "aborted"
       /\ wantAbort' = TRUE
       /\ asked' = asked \cup Active

After(wait) == CASE wait = "closeWait" -> "closeTake" [] wait = "fullWait" -> "fullTake"
Nap(wait) == CASE wait = "closeWait" -> "closeNap" [] wait = "fullWait" -> "fullNap"

(* The loop of abort_media_sync_and_wait: look, sleep, ask again.          *)
Wait ==
  /\ caller.pc \in Waits
  /\ caller' = At(IF mediaAbort = "none" THEN After(caller.pc) ELSE Nap(caller.pc))
  /\ UNCHANGED <<col, poisoned, profile, media, flags, others>>

WakeUp ==
  \E wait \in Waits :
    /\ caller = At(Nap(wait))
    /\ caller' = At(wait)
    /\ wantAbort' = TRUE
    /\ asked' = asked \cup Active
    /\ UNCHANGED <<col, poisoned, profile, media, mediaAbort, syncAbort, others>>

-----------------------------------------------------------------------------
(* The thread of the media sync.                                           *)

(* sync_media_in_background: a running one is left alone.  The desktop     *)
(* queues the call behind those that need the collection.                  *)
Spawned(m) == IF m = "off" THEN "spawned" ELSE m

SyncMedia ==
  /\ caller = Idle /\ profile /\ media = "off"
  /\ media' = Spawned(media)
  /\ UNCHANGED <<col, poisoned, profile, caller, flags, others>>

RegisterMedia ==
  /\ media = "spawned"
  /\ media' = "registered"
  /\ mediaAbort' = "armed"
  /\ UNCHANGED <<col, poisoned, profile, caller, syncAbort, wantAbort, asked, others>>

(* col.media() and the new handler, with the collection locked.            *)
OpenMedia ==
  /\ media = "registered" /\ ColIsFree /\ col
  /\ media' = "running"
  /\ NewHandler("media")
  /\ UNCHANGED <<col, poisoned, profile, caller, mediaAbort, syncAbort, others>>

(* The media folder or database cannot be opened: the `?` leaves before    *)
(* the handle is cleared.                                                  *)
OpenMediaFails ==
  /\ media = "registered" /\ ColIsFree /\ col /\ "MediaOpen" \in Faults
  /\ media' = "off"
  /\ UNCHANGED <<col, poisoned, profile, caller, flags, others>>

(* Without a collection, or with a poisoned mutex, unwrap() panics.        *)
MediaPanics ==
  /\ media = "registered" /\ ~HoldsCol(caller.pc) /\ (~col \/ poisoned)
  /\ media' = "off"
  /\ poisoned' = TRUE
  /\ UNCHANGED <<col, profile, caller, flags, others>>

MediaStops ==
  /\ media' = "off"
  /\ mediaAbort' = "none"
  /\ asked' = asked \ {"media"}

(* The sync ends by itself, well or with an error.                         *)
MediaEnds ==
  /\ media = "running"
  /\ MediaStops
  /\ UNCHANGED <<col, poisoned, profile, caller, syncAbort, wantAbort, others>>

(* The abort handle, seen at the next await.                               *)
MediaAborted ==
  /\ media = "running" /\ mediaAbort = "aborted"
  /\ MediaStops
  /\ UNCHANGED <<col, poisoned, profile, caller, syncAbort, wantAbort, others>>

MediaInterrupted ==
  /\ media = "running" /\ TakesAbort
  /\ MediaStops
  /\ UNCHANGED <<col, poisoned, profile, caller, syncAbort, others>>

-----------------------------------------------------------------------------
(* Opening and closing.                                                    *)

OpenCollection ==
  /\ caller = Idle /\ ColIsFree /\ ~col
  /\ col' = TRUE /\ profile' = TRUE
  /\ UNCHANGED <<poisoned, caller, media, flags, others>>

CloseCollection ==
  /\ caller = Idle /\ profile
  /\ caller' = At("closeWait")
  /\ AbortMedia
  /\ UNCHANGED <<col, poisoned, profile, media, syncAbort, others>>

(* lock_open_collection and close: an error when it was not open.          *)
CloseTake ==
  /\ caller.pc = "closeTake"
  /\ caller' = Idle
  /\ col' = IF poisoned THEN col ELSE FALSE
  /\ profile' = FALSE
  /\ UNCHANGED <<poisoned, media, flags, others>>

(* Another call that holds the collection and reports progress: a check,   *)
(* an import, an export.                                                   *)
StartOp ==
  /\ caller = Idle /\ profile /\ ColIsFree /\ col
  /\ caller' = At("op")
  /\ NewHandler("caller")
  /\ UNCHANGED <<col, poisoned, profile, media, mediaAbort, syncAbort, others>>

EndOp ==
  /\ caller.pc = "op"
  /\ caller' = Idle
  /\ asked' = asked \ {"caller"}
  /\ UNCHANGED <<col, poisoned, profile, media, mediaAbort, syncAbort, wantAbort, others>>

-----------------------------------------------------------------------------
(* Collection syncs.                                                       *)

\* Seeded fault: the time the answer expires is stored for the time it came.
UpdatedExpiry(required) == status' = [last_check |-> now + CACHE_SECS, last_response |-> required]

Updated(required) == status' = [last_check |-> now, last_response |-> required]

(* sync_collection_inner registers its handle, then waits for the lock.    *)
SyncCollection ==
  /\ caller = Idle /\ profile
  /\ caller' = At("syncStart")
  /\ syncAbort' = "armed"
  /\ UNCHANGED <<col, poisoned, profile, media, mediaAbort, wantAbort, asked, others>>

LockForSync ==
  /\ caller.pc = "syncStart" /\ ColIsFree /\ col
  /\ caller' = At("sync")
  /\ NewHandler("caller")
  /\ UNCHANGED <<col, poisoned, profile, media, mediaAbort, syncAbort, others>>

(* No collection, or a poisoned mutex: an error, and the guard is dropped. *)
SyncWithoutCol ==
  /\ caller.pc = "syncStart" /\ (~col \/ poisoned)
  /\ caller' = Idle
  /\ syncAbort' = "none"
  /\ UNCHANGED <<col, poisoned, profile, media, mediaAbort, wantAbort, asked, others>>

(* A network error, a failed check, or the abort handle: rolled back.      *)
SyncFails ==
  /\ caller.pc = "sync"
  /\ caller' = Idle
  /\ syncAbort' = "none"
  /\ asked' = asked \ {"caller"}
  /\ UNCHANGED <<col, poisoned, profile, media, mediaAbort, wantAbort, others>>

(* normal_sync returns: with the collections equal, or with the demand for *)
(* a full sync.  The collection is unlocked.                               *)
SyncReturns ==
  /\ caller.pc = "sync" /\ syncAbort = "armed"
  /\ \/ /\ caller' = [pc |-> "synced", required |-> "NoChanges"]
        /\ version' = [version EXCEPT !.here = version.there]
     \/ /\ version.here # version.there
        /\ caller' = [pc |-> "synced", required |-> "FullSync"]
        /\ UNCHANGED version
  /\ asked' = asked \ {"caller"}
  /\ UNCHANGED <<col, poisoned, profile, media, mediaAbort, syncAbort, wantAbort,
                 checker, status, now>>

(* What follows: the media sync, unless a full sync must come first, and   *)
(* the note of the answer.                                                 *)
NoteSync ==
  /\ caller.pc = "synced"
  /\ caller' = Idle
  /\ syncAbort' = "none"
  /\ IF caller.required = "FullSync" THEN UNCHANGED media
     ELSE media' = Spawned(media) \/ UNCHANGED media
  /\ Updated(caller.required)
  /\ UNCHANGED <<col, poisoned, profile, mediaAbort, wantAbort, asked,
                 checker, version, now>>

FullUploadOrDownload ==
  /\ caller = Idle /\ profile /\ version.here # version.there
  /\ caller' = At("fullWait")
  /\ AbortMedia
  /\ UNCHANGED <<col, poisoned, profile, media, syncAbort, others>>

(* full_sync_inner takes the collection and only then has a handle.        *)
FullTake ==
  /\ caller.pc = "fullTake" /\ ~poisoned /\ col
  /\ caller' = At("full")
  /\ syncAbort' = "armed"
  /\ NewHandler("caller")
  /\ UNCHANGED <<col, poisoned, profile, media, mediaAbort, others>>

FullWithoutCol ==
  /\ caller.pc = "fullTake" /\ (~col \/ poisoned)
  /\ caller' = Idle
  /\ UNCHANGED <<col, poisoned, profile, media, flags, others>>

FullEnds ==
  /\ caller.pc = "full"
  /\ caller' = Idle
  /\ syncAbort' = "none"
  /\ asked' = asked \ {"caller"}

(* The transfer fails or is aborted; the collection is opened again.       *)
FullFails ==
  /\ FullEnds
  /\ UNCHANGED <<col, poisoned, profile, media, mediaAbort, wantAbort, others>>

(* It could not be opened again: the slot stays empty.                     *)
ReopenFails ==
  /\ "Reopen" \in Faults
  /\ FullEnds
  /\ col' = FALSE
  /\ UNCHANGED <<poisoned, profile, media, mediaAbort, wantAbort, others>>

FullDone ==
  /\ syncAbort = "armed"
  /\ FullEnds
  /\ version' = [version EXCEPT !.here = version.there]
  /\ Updated("NoChanges")
  /\ media' = Spawned(media) \/ UNCHANGED media
  /\ UNCHANGED <<col, poisoned, profile, mediaAbort, wantAbort, checker, now>>

(* The progress of a sync or of another call finds the flag.               *)
CallInterrupted ==
  /\ caller.pc \in Working /\ TakesAbort
  /\ caller' = Idle
  /\ syncAbort' = "none"
  /\ asked' = asked \ {"caller"}
  /\ UNCHANGED <<col, poisoned, profile, media, mediaAbort, others>>

-----------------------------------------------------------------------------
(* sync_status: does the server have anything new?                         *)

Recent == now - status.last_check < CACHE_SECS

(* Nothing has changed here, and no answer is at hand.                     *)
CheckStatus ==
  /\ checker = Idle /\ profile /\ ColIsFree /\ col /\ ~Recent
  /\ checker' = [pc |-> "begun", at |-> now]
  /\ UNCHANGED <<col, poisoned, profile, caller, media, flags, status, version, now>>

(* sync_meta(), with the collection locked again.                          *)
ReadMeta ==
  /\ checker.pc = "begun"
  /\ \/ /\ ColIsFree /\ col
        /\ checker' = [pc |-> "asking", at |-> checker.at, mine |-> version.here]
     \/ /\ ~HoldsCol(caller.pc) /\ (~col \/ poisoned)
        /\ checker' = Idle
  /\ UNCHANGED <<col, poisoned, profile, caller, media, flags, status, version, now>>

(* May the answer to a check that began at time `at` be kept?              *)
\* Seeded fault: an answer is kept when it is not older than the check.
MayKeepSameSecond(at) == status.last_check <= at

MayKeep(at) == status.last_check < at

(* The server's answer is kept, unless a sync has been noted since.        *)
KeepAnswer ==
  /\ checker.pc = "asking"
  /\ checker' = Idle
  /\ status' = IF MayKeep(checker.at)
               THEN [last_check |-> checker.at,
                     last_response |-> IF checker.mine = version.there
                                       THEN "NoChanges" ELSE "NormalSync"]
               ELSE status
  /\ UNCHANGED <<col, poisoned, profile, caller, media, flags, version, now>>

CheckFails ==
  /\ checker.pc = "asking"
  /\ checker' = Idle
  /\ UNCHANGED <<col, poisoned, profile, caller, media, flags, status, version, now>>

-----------------------------------------------------------------------------
(* Other devices sync; time goes by.                                       *)

ServerChanges ==
  /\ version.there < MaxVersion
  /\ version' = [version EXCEPT !.there = @ + 1]
  /\ UNCHANGED <<col, poisoned, profile, caller, checker, media, flags, status, now>>

Tick ==
  /\ now < MaxNow
  /\ now' = now + 1
  /\ UNCHANGED <<col, poisoned, profile, caller, checker, media, flags, status, version>>

MediaThread ==
  \/ RegisterMedia \/ OpenMedia \/ OpenMediaFails \/ MediaPanics
  \/ MediaEnds \/ MediaAborted \/ MediaInterrupted

CallerThread ==
  \/ Wait \/ WakeUp \/ CloseTake \/ EndOp \/ LockForSync \/ SyncWithoutCol
  \/ SyncFails \/ SyncReturns \/ NoteSync \/ FullTake \/ FullWithoutCol
  \/ FullFails \/ ReopenFails \/ FullDone \/ CallInterrupted

Calls ==
  \/ OpenCollection \/ CloseCollection \/ StartOp \/ SyncCollection
  \/ FullUploadOrDownload

CheckerThread == ReadMeta \/ KeepAnswer \/ CheckFails

Next ==
  \/ MediaThread \/ CallerThread \/ Calls \/ CheckStatus \/ CheckerThread
  \/ SyncMedia \/ SetWantsAbort \/ AbortSync \/ AbortMediaSync
  \/ ServerChanges \/ Tick

Spec == Init /\ [][Next]_vars

(* Threads run.  Requests end, by an answer or by the timeout of the HTTP  *)
(* client; a media sync, which makes any number of them, need not end by   *)
(* itself, but stops at the next await once its handle is aborted, and at  *)
(* the next update of its progress once the flag is set.  The loop that    *)
(* waits for it looks every 100 ms and the desktop starts media syncs      *)
(* minutes apart, so it does not miss every gap between two of them.       *)
Fairness ==
  /\ WF_vars(CallerThread)
  /\ SF_vars(ReadMeta) /\ WF_vars(KeepAnswer \/ CheckFails)
  /\ WF_vars(RegisterMedia \/ OpenMedia \/ OpenMediaFails \/ MediaPanics)
  /\ WF_vars(MediaAborted \/ MediaInterrupted)

FairSpec == Spec /\ Fairness

-----------------------------------------------------------------------------
(* Properties.                                                             *)

(* The thread of the media sync is over but its handle is still there.     *)
HandleLeft == media = "off" /\ mediaAbort # "none"

(* Every call comes to an end.  abort_media_sync_and_wait "won't return    *)
(* until aborted", so the wait in close_collection and                     *)
(* full_upload_or_download must end once the media sync does.              *)
CallsReturn == []<>(caller = Idle) /\ []<>(checker = Idle)

(* Nobody waits for a thread that waits for him, and a media sync that     *)
(* would go on is stopped by the wait: a call that does not return waits   *)
(* for a thread that is gone.                                              *)
OnlyTheDeadBlock == CallsReturn \/ <>[]HandleLeft

(* Progress and cancellation are shared by everything that runs, yet no    *)
(* work is interrupted by a cancellation asked for before it began: a flag *)
(* left over by abort_media_sync_and_wait or by the cancellation of work   *)
(* that was already over does not hit the next call.                       *)
NoStrayInterrupt ==
  [][/\ CallInterrupted => "caller" \in asked
     /\ MediaInterrupted => "media" \in asked]_vars

(* A collection that is as new as the server's is not said to need a sync: *)
(* the answer to a check that was overtaken by a sync is dropped, so only  *)
(* a sync whose result is about to be noted sees an older one.             *)
StatusIsCurrent ==
  version.here = version.there /\ status.last_response # "NoChanges"
    => caller.pc = "synced"

=============================================================================

-------------------------- MODULE BackendCallsProofs --------------------------
(* TypeOK, NoStrayInterrupt and StatusIsCurrent hold of BackendCalls for     *)
(* every cache time and every bound on the clock and the versions.           *)
EXTENDS BackendCalls, TLAPS

\* No flag is up that was raised before the work that would see it began.
FlagIsMeant == wantAbort => Active \subseteq asked

\* What a check of the status has read is out of date only if a sync has been
\* noted since the check began, or is about to be noted; and a full sync is
\* demanded only of collections that differ.
AnswerIsDated ==
  /\ version.here <= version.there
  /\ checker.pc \in {"begun", "asking"} => checker.at <= now
  /\ checker.pc = "asking" =>
       \/ checker.mine = version.here
       \/ /\ checker.mine < version.here
          /\ checker.at <= status.last_check \/ caller.pc = "synced"
  /\ caller.pc = "synced" => caller.required = "NoChanges" \/ version.here < version.there
  /\ StatusIsCurrent

-----------------------------------------------------------------------------
(* Types.                                                                    *)

LEMMA ActiveType == Active \subseteq {"caller", "media"}
BY DEF Active

LEMMA TypeInit == Init => TypeOK
<1> SUFFICES ASSUME Init
             PROVE  TypeOK
  OBVIOUS
<1>1. {col, poisoned, profile, wantAbort} \subseteq BOOLEAN
  BY DEF Init
<1>2. caller \in [pc : CallerSteps \ {"synced"}] /\ checker \in {Idle}
  BY DEF Init, Idle, CallerSteps
<1>3. status \in [last_check : 0..MaxNow, last_response : Answers]
  BY BoundsAssumption DEF Init, Answers
<1>4. version \in [here : 0..MaxVersion, there : 0..MaxVersion]
  BY BoundsAssumption DEF Init
<1>5. now \in CACHE_SECS..MaxNow
  BY CacheAssumption, BoundsAssumption DEF Init
<1>6. QED
  BY <1>1, <1>2, <1>3, <1>4, <1>5 DEF Init, TypeOK, Slots

LEMMA TypeStep ==
  ASSUME TypeOK, [Next]_vars
  PROVE  TypeOK'
<1> USE CacheAssumption, BoundsAssumption, ActiveType
    DEF TypeOK, Idle, At, flags, others, CallerSteps, Waits, Naps, Answers, Slots
<1>1. CASE RegisterMedia
  BY <1>1 DEF RegisterMedia
<1>2. CASE OpenMedia
  BY ZenonT(60), <1>2 DEF OpenMedia, NewHandler
<1>3. CASE OpenMediaFails
  BY <1>3 DEF OpenMediaFails
<1>4. CASE MediaPanics
  BY <1>4 DEF MediaPanics
<1>5. CASE MediaEnds
  BY <1>5 DEF MediaEnds, MediaStops
<1>6. CASE MediaAborted
  BY <1>6 DEF MediaAborted, MediaStops
<1>7. CASE MediaInterrupted
  BY <1>7 DEF MediaInterrupted, MediaStops, TakesAbort
<1>8. CASE Wait
  BY <1>8 DEF Wait, After, Nap, Waits
<1>9. CASE WakeUp
  BY <1>9 DEF WakeUp, Nap, Waits, At
<1>10. CASE CloseTake
  BY <1>10 DEF CloseTake
<1>11. CASE EndOp
  BY <1>11 DEF EndOp
<1>12. CASE LockForSync
  BY <1>12 DEF LockForSync, NewHandler
<1>13. CASE SyncWithoutCol
  BY <1>13 DEF SyncWithoutCol
<1>14. CASE SyncFails
  BY <1>14 DEF SyncFails
<1>15. CASE SyncReturns
  BY <1>15 DEF SyncReturns
<1>16. CASE NoteSync
  BY <1>16 DEF NoteSync, Updated, Spawned
<1>17. CASE FullTake
  BY <1>17 DEF FullTake, NewHandler
<1>18. CASE FullWithoutCol
  BY <1>18 DEF FullWithoutCol
<1>19. CASE FullFails
  BY <1>19 DEF FullFails, FullEnds
<1>20. CASE ReopenFails
  BY <1>20 DEF ReopenFails, FullEnds
<1>21. CASE FullDone
  BY <1>21 DEF FullDone, FullEnds, Updated, Spawned
<1>22. CASE CallInterrupted
  BY <1>22 DEF CallInterrupted, TakesAbort, Working
<1>23. CASE OpenCollection
  BY <1>23 DEF OpenCollection
<1>24. CASE CloseCollection
  BY <1>24 DEF CloseCollection, AbortMedia
<1>25. CASE StartOp
  BY <1>25 DEF StartOp, NewHandler
<1>26. CASE SyncCollection
  BY <1>26 DEF SyncCollection
<1>27. CASE FullUploadOrDownload
  BY <1>27 DEF FullUploadOrDownload, AbortMedia
<1>28. CASE CheckStatus
  BY <1>28 DEF CheckStatus
<1>29. CASE ReadMeta
  BY <1>29 DEF ReadMeta
<1>30. CASE KeepAnswer
  BY <1>30 DEF KeepAnswer, MayKeep
<1>31. CASE CheckFails
  BY <1>31 DEF CheckFails
<1>32. CASE SyncMedia
  BY <1>32 DEF SyncMedia, Spawned
<1>33. CASE SetWantsAbort
  BY <1>33 DEF SetWantsAbort
<1>34. CASE AbortSync
  BY <1>34 DEF AbortSync
<1>35. CASE AbortMediaSync
  BY <1>35 DEF AbortMediaSync
<1>36. CASE ServerChanges
  BY <1>36 DEF ServerChanges
<1>37. CASE Tick
  BY <1>37 DEF Tick
<1>38. CASE UNCHANGED vars
  BY <1>38 DEF vars
<1>39. QED
  BY <1>1, <1>2, <1>3, <1>4, <1>5, <1>6, <1>7, <1>8, <1>9, <1>10,
     <1>11, <1>12, <1>13, <1>14, <1>15, <1>16, <1>17, <1>18, <1>19, <1>20,
     <1>21, <1>22, <1>23, <1>24, <1>25, <1>26, <1>27, <1>28, <1>29, <1>30,
     <1>31, <1>32, <1>33, <1>34, <1>35, <1>36, <1>37, <1>38
  DEF Next, MediaThread, CallerThread, Calls, CheckerThread

\* Threads, flags, slots and clocks keep to their values, whatever the calls of
\* sync.rs and collection.rs do.
THEOREM TypeInvariant == Spec => []TypeOK
<1>1. Init => TypeOK
  BY TypeInit
<1>2. TypeOK /\ [Next]_vars => TypeOK'
  BY TypeStep
<1>3. QED
  BY <1>1, <1>2, PTL DEF Spec

-----------------------------------------------------------------------------
(* Cancellations.  A new handler lowers the flag, whatever ends takes itself *)
(* off the list, and a cancellation lists all that is running.               *)

LEMMA FlagStep ==
  ASSUME TypeOK, FlagIsMeant, [Next]_vars
  PROVE  FlagIsMeant'
<1> USE DEF TypeOK, FlagIsMeant, Active, Idle, At, flags, others, Waits, Naps, Working
<1>1. CASE RegisterMedia
  BY <1>1 DEF RegisterMedia
<1>2. CASE OpenMedia
  BY <1>2 DEF OpenMedia, NewHandler
<1>3. CASE OpenMediaFails
  BY <1>3 DEF OpenMediaFails
<1>4. CASE MediaPanics
  BY <1>4 DEF MediaPanics
<1>5. CASE MediaEnds
  BY <1>5 DEF MediaEnds, MediaStops
<1>6. CASE MediaAborted
  BY <1>6 DEF MediaAborted, MediaStops
<1>7. CASE MediaInterrupted
  BY <1>7 DEF MediaInterrupted, MediaStops, TakesAbort
<1>8. CASE Wait
  BY <1>8 DEF Wait, After, Nap, Waits
<1>9. CASE WakeUp
  BY <1>9 DEF WakeUp, Nap, Waits, At
<1>10. CASE CloseTake
  BY <1>10 DEF CloseTake
<1>11. CASE EndOp
  BY <1>11 DEF EndOp
<1>12. CASE LockForSync
  BY <1>12 DEF LockForSync, NewHandler
<1>13. CASE SyncWithoutCol
  BY <1>13 DEF SyncWithoutCol
<1>14. CASE SyncFails
  BY <1>14 DEF SyncFails
<1>15. CASE SyncReturns
  BY <1>15 DEF SyncReturns
<1>16. CASE NoteSync
  BY <1>16 DEF NoteSync, Updated, Spawned
<1>17. CASE FullTake
  BY <1>17 DEF FullTake, NewHandler
<1>18. CASE FullWithoutCol
  BY <1>18 DEF FullWithoutCol
<1>19. CASE FullFails
  BY <1>19 DEF FullFails, FullEnds
<1>20. CASE ReopenFails
  BY <1>20 DEF ReopenFails, FullEnds
<1>21. CASE FullDone
  BY <1>21 DEF FullDone, FullEnds, Updated, Spawned
<1>22. CASE CallInterrupted
  BY <1>22 DEF CallInterrupted, TakesAbort, Working
<1>23. CASE OpenCollection
  BY <1>23 DEF OpenCollection
<1>24. CASE CloseCollection
  BY <1>24 DEF CloseCollection, AbortMedia
<1>25. CASE StartOp
  BY <1>25 DEF StartOp, NewHandler
<1>26. CASE SyncCollection
  BY <1>26 DEF SyncCollection
<1>27. CASE FullUploadOrDownload
  BY <1>27 DEF FullUploadOrDownload, AbortMedia
<1>28. CASE CheckStatus
  BY <1>28 DEF CheckStatus
<1>29. CASE ReadMeta
  BY <1>29 DEF ReadMeta
<1>30. CASE KeepAnswer
  BY <1>30 DEF KeepAnswer, MayKeep
<1>31. CASE CheckFails
  BY <1>31 DEF CheckFails
<1>32. CASE SyncMedia
  BY <1>32 DEF SyncMedia, Spawned
<1>33. CASE SetWantsAbort
  BY <1>33 DEF SetWantsAbort
<1>34. CASE AbortSync
  BY <1>34 DEF AbortSync
<1>35. CASE AbortMediaSync
  BY <1>35 DEF AbortMediaSync
<1>36. CASE ServerChanges
  BY <1>36 DEF ServerChanges
<1>37. CASE Tick
  BY <1>37 DEF Tick
<1>38. CASE UNCHANGED vars
  BY <1>38 DEF vars
<1>39. QED
  BY <1>1, <1>2, <1>3, <1>4, <1>5, <1>6, <1>7, <1>8, <1>9, <1>10,
     <1>11, <1>12, <1>13, <1>14, <1>15, <1>16, <1>17, <1>18, <1>19, <1>20,
     <1>21, <1>22, <1>23, <1>24, <1>25, <1>26, <1>27, <1>28, <1>29, <1>30,
     <1>31, <1>32, <1>33, <1>34, <1>35, <1>36, <1>37, <1>38
  DEF Next, MediaThread, CallerThread, Calls, CheckerThread

LEMMA InterruptIsMeant ==
  ASSUME FlagIsMeant
  PROVE  /\ CallInterrupted => "caller" \in asked
         /\ MediaInterrupted => "media" \in asked
<1>1. CASE CallInterrupted
  BY <1>1 DEF CallInterrupted, FlagIsMeant, TakesAbort, Active, MediaInterrupted
<1>2. CASE MediaInterrupted
  BY <1>2 DEF MediaInterrupted, FlagIsMeant, TakesAbort, Active, CallInterrupted
<1>3. QED
  BY <1>1, <1>2

\* No work is interrupted by a cancellation asked for before it began (want_abort
\* in progress.rs).
THEOREM NoStrayInterrupts == Spec => NoStrayInterrupt
<1>1. Init => TypeOK /\ FlagIsMeant
  BY TypeInit DEF Init, FlagIsMeant
<1>2. TypeOK /\ FlagIsMeant /\ [Next]_vars => (TypeOK /\ FlagIsMeant)'
  BY TypeStep, FlagStep
<1>3. FlagIsMeant =>
        [/\ CallInterrupted => "caller" \in asked
         /\ MediaInterrupted => "media" \in asked]_vars
  BY InterruptIsMeant
<1>4. QED
  BY <1>1, <1>2, <1>3, PTL DEF Spec, NoStrayInterrupt

-----------------------------------------------------------------------------
(* The noted sync status.                                                    *)

LEMMA DatedStep ==
  ASSUME TypeOK, AnswerIsDated, [Next]_vars
  PROVE  AnswerIsDated'
<1> USE CacheAssumption, BoundsAssumption
    DEF TypeOK, AnswerIsDated, StatusIsCurrent, Idle, At, flags, others,
        CallerSteps, Waits, Naps, Working, Answers
<1>1. CASE RegisterMedia
  BY <1>1 DEF RegisterMedia
<1>2. CASE OpenMedia
  BY <1>2 DEF OpenMedia, NewHandler
<1>3. CASE OpenMediaFails
  BY <1>3 DEF OpenMediaFails
<1>4. CASE MediaPanics
  BY <1>4 DEF MediaPanics
<1>5. CASE MediaEnds
  BY <1>5 DEF MediaEnds, MediaStops
<1>6. CASE MediaAborted
  BY <1>6 DEF MediaAborted, MediaStops
<1>7. CASE MediaInterrupted
  BY <1>7 DEF MediaInterrupted, MediaStops, TakesAbort
<1>8. CASE Wait
  BY <1>8 DEF Wait, After, Nap, Waits
<1>9. CASE WakeUp
  BY <1>9 DEF WakeUp, Nap, Waits, At
<1>10. CASE CloseTake
  BY <1>10 DEF CloseTake
<1>11. CASE EndOp
  BY <1>11 DEF EndOp
<1>12. CASE LockForSync
  BY <1>12 DEF LockForSync, NewHandler
<1>13. CASE SyncWithoutCol
  BY <1>13 DEF SyncWithoutCol
<1>14. CASE SyncFails
  BY <1>14 DEF SyncFails
<1>15. CASE SyncReturns
  BY <1>15 DEF SyncReturns
<1>16. CASE NoteSync
  BY <1>16 DEF NoteSync, Updated, Spawned
<1>17. CASE FullTake
  BY <1>17 DEF FullTake, NewHandler
<1>18. CASE FullWithoutCol
  BY <1>18 DEF FullWithoutCol
<1>19. CASE FullFails
  BY <1>19 DEF FullFails, FullEnds
<1>20. CASE ReopenFails
  BY <1>20 DEF ReopenFails, FullEnds
<1>21. CASE FullDone
  BY <1>21 DEF FullDone, FullEnds, Updated, Spawned
<1>22. CASE CallInterrupted
  BY <1>22 DEF CallInterrupted, TakesAbort, Working
<1>23. CASE OpenCollection
  BY <1>23 DEF OpenCollection
<1>24. CASE CloseCollection
  BY <1>24 DEF CloseCollection, AbortMedia
<1>25. CASE StartOp
  BY <1>25 DEF StartOp, NewHandler
<1>26. CASE SyncCollection
  BY <1>26 DEF SyncCollection
<1>27. CASE FullUploadOrDownload
  BY <1>27 DEF FullUploadOrDownload, AbortMedia
<1>28. CASE CheckStatus
  BY <1>28 DEF CheckStatus
<1>29. CASE ReadMeta
  BY <1>29 DEF ReadMeta
<1>30. CASE KeepAnswer
  BY <1>30 DEF KeepAnswer, MayKeep
<1>31. CASE CheckFails
  BY <1>31 DEF CheckFails
<1>32. CASE SyncMedia
  BY <1>32 DEF SyncMedia, Spawned
<1>33. CASE SetWantsAbort
  BY <1>33 DEF SetWantsAbort
<1>34. CASE AbortSync
  BY <1>34 DEF AbortSync
<1>35. CASE AbortMediaSync
  BY <1>35 DEF AbortMediaSync
<1>36. CASE ServerChanges
  BY <1>36 DEF ServerChanges
<1>37. CASE Tick
  BY <1>37 DEF Tick
<1>38. CASE UNCHANGED vars
  BY <1>38 DEF vars
<1>39. QED
  BY <1>1, <1>2, <1>3, <1>4, <1>5, <1>6, <1>7, <1>8, <1>9, <1>10,
     <1>11, <1>12, <1>13, <1>14, <1>15, <1>16, <1>17, <1>18, <1>19, <1>20,
     <1>21, <1>22, <1>23, <1>24, <1>25, <1>26, <1>27, <1>28, <1>29, <1>30,
     <1>31, <1>32, <1>33, <1>34, <1>35, <1>36, <1>37, <1>38
  DEF Next, MediaThread, CallerThread, Calls, CheckerThread

\* The status that sync_status answers from its cache does not ask for a sync of
\* a collection that is as new as the server's.
THEOREM StatusCurrent == Spec => []StatusIsCurrent
<1>1. Init => TypeOK /\ AnswerIsDated
  BY TypeInit, CacheAssumption DEF Init, AnswerIsDated, StatusIsCurrent, Idle
<1>2. TypeOK /\ AnswerIsDated /\ [Next]_vars => (TypeOK /\ AnswerIsDated)'
  BY TypeStep, DatedStep
<1>3. AnswerIsDated => StatusIsCurrent
  BY DEF AnswerIsDated
<1>4. QED
  BY <1>1, <1>2, <1>3, PTL DEF Spec
==============================================================================

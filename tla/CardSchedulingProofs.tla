------------------------- MODULE CardSchedulingProofs -------------------------
(* Lent cards have a home, queue and due date agree, and CardScheduling       *)
(* implements CardSchedule, for any cards, decks, times and steps.            *)
EXTENDS CardScheduling, FiniteSetTheorems, TLAPS

\* What the deck table ex, the options rs of the filtered decks and a card k have in
\* common.  A lent card that may come home without its due, or is a new one, has a
\* position in the filtered deck or, in a preview, a time stamp.
Lawful(k, ex, rs) ==
  /\ k \in Card
  /\ ex[k.did]
  /\ k.did \in Filtered <=> IsFiltered(k)
  /\ IsFiltered(k) => k.odid \in Normal /\ ex[k.odid]
  /\ ~IsFiltered(k) => k.odue = 0
  /\ ~IsFiltered(k) => k.queue \in BuriedOrSuspended \/ k.queue = RestoredQueue(k)
  /\ k.queue = "New" => k.ctype = "New"
  /\ IsFiltered(k) /\ (k.odue = 0 \/ k.ctype = "New") =>
       k.due <= 0 \/ (k.due >= Epoch /\ ~rs[k.did])

\* The inductive invariant: all that is proved of the cards follows from it.
CardInv ==
  /\ TypeOK
  /\ now >= Epoch
  /\ \A c \in Live : Lawful(card[c], exists, reschedule)

\* The schedule of a card.
Sched(k) == [ctype |-> k.ctype, due |-> OriginalOrCurrentDue(k), pos |-> k.opos]

\* The schedule after coming home: the same, unless a due of 0 was lost.
Loses(old, new) ==
  /\ old.due = 0 /\ (new.due < 0 \/ new.due >= Epoch)
  /\ new = [old EXCEPT !.due = new.due]
SameOrLost(old, new) == new = old \/ Loses(old, new)

-----------------------------------------------------------------------------
(* Cards in and out of filtered decks.                                        *)

LEMMA RestoredQueueType == ASSUME NEW k \in Card PROVE RestoredQueue(k) \in Queue \ BuriedOrSuspended
BY DEF Card, Type, RestoredQueue, Queue, BuriedOrSuspended

LEMMA ReturnedType ==
  ASSUME NEW k \in Card, NEW did \in Decks
  PROVE  [k EXCEPT !.did = did, !.odid = None, !.odue = 0] \in Card
<1> DEFINE D == Decks \cup {None}
           m == [k EXCEPT !.did = did]
           n == [m EXCEPT !.odid = None]
<1>1. Decks \subseteq D /\ None \in D /\ 0 \in Int
  OBVIOUS
<1>2. Card = [did: Decks, odid: D, ctype: Type, queue: Queue,
              due: Int, odue: Int, opos: Int \cup {None}]
  BY DEF Card
<1> HIDE DEF D
<1>3. m \in Card
  BY <1>2
<1> HIDE DEF m
<1>4. n \in Card
  BY <1>1, <1>2, <1>3
<1> HIDE DEF n
<1>5. [n EXCEPT !.odue = 0] \in Card
  BY <1>1, <1>2, <1>4
<1>6. QED
  BY <1>5 DEF m, n

LEMMA HomeType ==
  ASSUME NEW k \in Card, NEW did \in Decks, NEW due \in Int
  PROVE  [k EXCEPT !.did = did, !.odid = None, !.odue = 0, !.due = due] \in Card
<1> DEFINE home == [k EXCEPT !.did = did, !.odid = None, !.odue = 0]
<1>1. home \in Card
  BY ReturnedType
<1> HIDE DEF home
<1>2. [home EXCEPT !.due = due] \in Card
  BY <1>1 DEF Card
<1>3. QED
  BY <1>2 DEF home

LEMMA RemovedIsLawful ==
  ASSUME NEW ex, NEW rs, NEW k, Lawful(k, ex, rs)
  PROVE  LET home == RemovedRestoringQueue(k)
         IN  /\ Lawful(home, ex, rs) /\ ~IsFiltered(home)
             /\ SameOrLost(Sched(k), Sched(home))
             /\ home.did = IF IsFiltered(k) THEN k.odid ELSE k.did
<1>1. CASE ~IsFiltered(k)
  BY <1>1 DEF RemovedRestoringQueue, Lawful, SameOrLost
<1>2. CASE IsFiltered(k)
  <2> DEFINE due == IF k.odue # 0 THEN k.odue ELSE k.due
             home == [k EXCEPT !.did = k.odid, !.odid = None, !.odue = 0, !.due = due]
             back == RemovedRestoringQueue(k)
  <2>1. home \in Card /\ back \in Card
    <3>1. k \in Card /\ k.odid \in Decks /\ k.odue \in Int
      BY <1>2 DEF Lawful, Card, Decks
    <3>2. home \in Card
      <4>1. due \in Int
        BY <3>1 DEF Card
      <4>2. QED
        BY <3>1, <4>1, HomeType
    <3>3. [home EXCEPT !.queue = RestoredQueue(home)] \in Card
      BY <3>2, RestoredQueueType DEF Card
    <3>4. QED
      BY <1>2, <3>2, <3>3 DEF RemovedRestoringQueue, RestoreQueueFromType
  <2>2. back = home \/ back = [home EXCEPT !.queue = RestoredQueue(home)]
    BY <1>2 DEF RemovedRestoringQueue, RestoreQueueFromType
  <2>3. /\ back.did = k.odid /\ back.odid = None /\ back.odue = 0 /\ back.due = due
        /\ back.ctype = k.ctype /\ back.opos = k.opos
    BY <1>2, <2>2 DEF Lawful, Card
  <2>4. back.queue \in BuriedOrSuspended \/ back.queue = RestoredQueue(back)
    BY <1>2, <2>1 DEF RemovedRestoringQueue, RestoreQueueFromType, RestoredQueue, Card
  <2>5. back.queue = "New" => back.ctype = "New"
    BY <2>1, <2>4 DEF RestoredQueue, BuriedOrSuspended, Card, Type
  <2>6. ~IsFiltered(back) /\ OriginalOrCurrentDue(back) = due /\ OriginalOrCurrentDue(k) = k.odue
    BY <1>2, <2>3 DEF IsFiltered, OriginalOrCurrentDue
  <2>7. k.odid \in Decks /\ k.odid \notin Filtered /\ ex[k.odid]
    BY <1>2, DeckAssumption DEF Lawful, Decks
  <2>8. Lawful(back, ex, rs)
    BY <2>1, <2>3, <2>4, <2>5, <2>6, <2>7 DEF Lawful
  <2>9. Sched(k) = [ctype |-> k.ctype, due |-> k.odue, pos |-> k.opos]
        /\ Sched(back) = [ctype |-> k.ctype, due |-> due, pos |-> k.opos]
    BY <2>3, <2>6 DEF Sched
  <2>10. due = k.odue \/ (k.odue = 0 /\ (due < 0 \/ due >= Epoch))
    <3>1. CASE k.odue = 0
      <4>1. k.due \in Int /\ (k.due <= 0 \/ k.due >= Epoch)
        BY <1>2, <3>1 DEF Lawful, Card
      <4>2. QED
        BY <3>1, <4>1
    <3>2. QED
      BY <3>1
  <2> HIDE DEF due, back
  <2>11. SameOrLost(Sched(k), Sched(back))
    BY <2>9, <2>10 DEF SameOrLost, Loses
  <2>12. QED
    BY <1>2, <2>3, <2>6, <2>8, <2>11 DEF back
<1>3. QED
  BY <1>1, <1>2

LEMMA MovedIsLawful ==
  ASSUME NEW ex, NEW rs, NEW k, Lawful(k, ex, rs), ~IsFiltered(k),
         NEW f \in Filtered, ex[f], NEW position \in Int, position < 0, rs[f] \in BOOLEAN
  PROVE  LET lent == MovedInto(k, f, rs[f], position)
         IN  Lawful(lent, ex, rs) /\ Sched(lent) = Sched(k)
<1> DEFINE lent == MovedInto(k, f, rs[f], position)
<1>1. k.odue = 0 /\ k.did \in Normal /\ k.due \in Int /\ k.did # None
  BY DeckAssumption DEF Lawful, Card, Decks
<1>2. lent = [k EXCEPT !.odid = k.did, !.did = f, !.odue = k.due,
                       !.queue = IF rs[f] THEN k.queue ELSE "Review",
                       !.due = IF k.due > 0 THEN position ELSE k.due]
  BY <1>1 DEF MovedInto
<1>3. lent \in Card
  BY <1>1, <1>2 DEF Lawful, Card, Decks, Queue
<1>4. /\ lent.did = f /\ lent.odid = k.did /\ lent.odue = k.due
      /\ lent.ctype = k.ctype /\ lent.opos = k.opos
      /\ lent.queue = "New" => k.queue = "New"
      /\ lent.due = IF k.due > 0 THEN position ELSE k.due
  BY <1>2 DEF Lawful, Card
<1>5. IsFiltered(lent) /\ OriginalOrCurrentDue(lent) = OriginalOrCurrentDue(k)
  BY <1>1, <1>4 DEF IsFiltered, OriginalOrCurrentDue
<1>6. lent.due <= 0
  BY <1>1, <1>4
<1> HIDE DEF lent
<1>7. Lawful(lent, ex, rs)
  BY <1>1, <1>3, <1>4, <1>5, <1>6 DEF Lawful
<1>8. QED
  BY <1>4, <1>5, <1>7 DEF Sched, lent

LEMMA DueType ==
  ASSUME NEW ex, NEW rs, NEW k, Lawful(k, ex, rs)
  PROVE  OriginalOrCurrentDue(k) \in Int
BY DEF Lawful, Card, OriginalOrCurrentDue

\* Queue changes.
LEMMA SetAsideIsLawful ==
  ASSUME NEW ex, NEW rs, NEW k, Lawful(k, ex, rs), NEW queue \in BuriedOrSuspended
  PROVE  LET aside == [k EXCEPT !.queue = queue]
         IN  Lawful(aside, ex, rs) /\ Sched(aside) = Sched(k)
<1> DEFINE aside == [k EXCEPT !.queue = queue]
<1>1. aside \in Card
  BY DEF Lawful, Card, Queue
<1>2. /\ aside.did = k.did /\ aside.odid = k.odid /\ aside.odue = k.odue /\ aside.due = k.due
      /\ aside.ctype = k.ctype /\ aside.opos = k.opos /\ aside.queue = queue
  BY DEF Lawful, Card
<1>3. QED
  BY <1>1, <1>2 DEF Lawful, Sched, IsFiltered, OriginalOrCurrentDue, BuriedOrSuspended

LEMMA RestoredIsLawful ==
  ASSUME NEW ex, NEW rs, NEW k, Lawful(k, ex, rs)
  PROVE  LET back == RestoreQueueFromType(k)
         IN  Lawful(back, ex, rs) /\ Sched(back) = Sched(k)
<1> DEFINE back == [k EXCEPT !.queue = RestoredQueue(k)]
<1>1. back \in Card
  BY RestoredQueueType DEF Lawful, Card
<1>2. /\ back.did = k.did /\ back.odid = k.odid /\ back.odue = k.odue /\ back.due = k.due
      /\ back.ctype = k.ctype /\ back.opos = k.opos /\ back.queue = RestoredQueue(k)
  BY DEF Lawful, Card
<1>3. RestoredQueue(back) = RestoredQueue(k)
  BY <1>2 DEF RestoredQueue
<1>4. RestoredQueue(k) = "New" => k.ctype = "New"
  BY DEF RestoredQueue, Lawful, Card, Type
<1>5. Lawful(back, ex, rs) /\ Sched(back) = Sched(k)
  BY <1>1, <1>2, <1>3, <1>4 DEF Lawful, Sched, IsFiltered, OriginalOrCurrentDue
<1>6. QED
  BY <1>5 DEF RestoreQueueFromType

-----------------------------------------------------------------------------
(* Answers.                                                                   *)

LEMMA DivisionFacts ==
  ASSUME NEW a \in Nat, NEW b \in Nat \ {0}
  PROVE  a \div b \in Nat /\ a \div b <= a /\ (a \div b + 1) * b > a
<1>1. a \div b \in Nat
  OBVIOUS
<1>2. a \div b <= a
  OBVIOUS
<1>3. (a \div b + 1) * b > a
  OBVIOUS
<1>4. QED
  BY <1>1, <1>2, <1>3

LEMMA DayFacts ==
  ASSUME CardInv
  PROVE  /\ now \in Nat /\ Today \in Nat
         /\ \A n \in {0} \cup Delays \cup Intervals : n \in Nat /\ Today + n < Epoch
<1>1. now \in Nat /\ now - Epoch \in Nat /\ now \in Times
  BY TimeAssumption DEF CardInv, TypeOK
<1>2. (now - Epoch) \div DayLen \in Nat
  BY <1>1, DivisionFacts, TimeAssumption
<1>3. \A n \in {0} \cup Delays \cup Intervals : n \in Nat
  BY TimeAssumption
<1>4. QED
  BY <1>1, <1>2, <1>3, TimeAssumption, DayAssumption DEF Today, CardInv

LEMMA DelayFacts ==
  ASSUME CardInv, NEW s \in Delays
  PROVE  LET at == LearningDue(s)
         IN  /\ at.due \in Nat
             /\ \/ at.queue = "Learn" /\ at.due = now + s
                \/ at.queue = "DayLearn" /\ Today < at.due /\ at.due < Epoch
<1> DEFINE left == NextDayAt - now
           q == (now - Epoch) \div DayLen
<1>1. now \in Nat /\ now >= Epoch /\ Epoch \in Nat /\ Today \in Nat /\ s \in Nat /\ Today + s < Epoch
  BY DayFacts, TimeAssumption DEF CardInv
<1>2. q \in Nat /\ (q + 1) * DayLen > now - Epoch
  BY <1>1, DivisionFacts, TimeAssumption
<1>3. left \in Int /\ left > 0
  BY <1>1, <1>2, TimeAssumption DEF NextDayAt
<1>4. CASE s >= left
  <2>1. s - left \in Nat
    BY <1>1, <1>3, <1>4
  <2>2. (s - left) \div DayLen \in Nat /\ (s - left) \div DayLen <= s - left
    BY <2>1, DivisionFacts, TimeAssumption
  <2> DEFINE days == (s - left) \div DayLen
  <2>3. LearningDue(s) = [queue |-> "DayLearn", due |-> Today + days + 1]
    BY <1>4 DEF LearningDue
  <2> HIDE DEF left, days
  <2>4. QED
    BY <1>1, <1>3, <2>1, <2>2, <2>3 DEF days
<1>5. CASE ~(s >= left)
  BY <1>1, <1>5 DEF LearningDue
<1>6. QED
  BY <1>4, <1>5

LEMMA RememberFacts ==
  ASSUME NEW ex, NEW rs, NEW k, Lawful(k, ex, rs), rs[k.did] \/ k.did \notin Filtered
  PROVE  LET r == RememberPosition(k)
         IN  /\ r \in Card
             /\ r = [k EXCEPT !.opos = Abstract!StudiedAt(Sched(k))]
             /\ Abstract!StudiedAt(Sched(k)) \in Int \cup {None}
<1> DEFINE due == OriginalOrCurrentDue(k)
           at == Abstract!StudiedAt(Sched(k))
<1>1. due \in Int /\ k \in Card
  BY DueType DEF Lawful
<1>2. Sched(k).ctype = k.ctype /\ Sched(k).due = due /\ Sched(k).pos = k.opos
  BY DEF Sched
<1>3. CASE k.ctype = "New"
  <2>1. at = IF due < 0 THEN 0 ELSE due
    BY <1>2, <1>3 DEF Abstract!StudiedAt, Abstract!Position
  <2>2. NewPosition(k) = IF due > 0 THEN due ELSE 0
    <3>1. CASE ~IsFiltered(k)
      BY <3>1 DEF Lawful, NewPosition, CurrentDue, OriginalOrCurrentDue
    <3>2. CASE IsFiltered(k)
      <4>1. due = k.odue /\ k.did \in Filtered /\ k.odue \in Int /\ k.due \in Int /\ k.due <= 0
        BY <1>1, <1>3, <3>2 DEF Lawful, OriginalOrCurrentDue, Card
      <4>2. QED
        BY <4>1 DEF NewPosition, CurrentDue
    <3>3. QED
      BY <3>1, <3>2
  <2>3. at = NewPosition(k) /\ at \in Int
    BY <1>1, <2>1, <2>2
  <2> HIDE DEF at, due
  <2>4. RememberPosition(k) = [k EXCEPT !.opos = at]
    BY <1>3, <2>3 DEF RememberPosition
  <2>5. QED
    BY <1>1, <2>3, <2>4 DEF Card, at
<1>4. CASE k.ctype # "New"
  <2>1. k = [k EXCEPT !.opos = k.opos]
    BY DEF Lawful, Card
  <2>2. at = k.opos
    BY <1>2, <1>4 DEF Abstract!StudiedAt, Abstract!Position
  <2>3. QED
    BY <1>1, <1>4, <2>1, <2>2 DEF Card, RememberPosition
<1>5. QED
  BY <1>3, <1>4

\* What CardSchedule asks of an answer.
AnswersTo(old, new) ==
  /\ new.ctype \in Abstract!NextTypes(old.ctype)
  /\ new.due >= now \/ (new.due < Epoch /\ new.due > Today)
  /\ new.ctype = "Review" => new.due < Epoch
  /\ new.pos = Abstract!StudiedAt(old)

LEMMA PositionFacts ==
  ASSUME NEW k \in Card
  PROVE  Abstract!Position(Sched(k)) = LastPosition(k)
BY DEF Abstract!Position, Sched, LastPosition

LEMMA ScheduledType ==
  ASSUME NEW k \in Card, NEW ctype \in Type, NEW queue \in Queue, NEW due \in Int
  PROVE  [k EXCEPT !.ctype = ctype, !.queue = queue, !.due = due] \in Card
BY DEF Card

LEMMA LearningIsLawful ==
  ASSUME CardInv, NEW k, Lawful(k, exists, reschedule), ~InPreview(k),
         NEW ctype \in {"Learn", "Relearn"}, NEW next \in InQueueOf(k, ctype)
  PROVE  LET new == StayLent(next)
         IN  /\ Lawful(new, exists, reschedule)
             /\ Sched(new).ctype = ctype /\ Sched(new).pos = Abstract!StudiedAt(Sched(k))
             /\ Sched(new).due >= now \/ (Sched(new).due < Epoch /\ Sched(new).due > Today)
<1> DEFINE new == StayLent(next)
           r == RememberPosition(k)
           pos == Abstract!StudiedAt(Sched(k))
<1>1. PICK s \in Delays : next = [r EXCEPT !.ctype = ctype, !.queue = LearningDue(s).queue,
                                           !.due = LearningDue(s).due]
  BY DEF InQueueOf
<1> DEFINE at == LearningDue(s)
<1>2. /\ at.due \in Nat \ {0}
      /\ \/ at.queue = "Learn" /\ at.due >= Epoch /\ at.due >= now
         \/ at.queue = "DayLearn" /\ Today < at.due /\ at.due < Epoch
  BY DelayFacts, DayFacts, TimeAssumption DEF CardInv
<1>3. r \in Card /\ r = [k EXCEPT !.opos = pos] /\ pos \in Int \cup {None}
  BY RememberFacts DEF InPreview
<1> HIDE DEF at, r, pos
<1>4. next \in Card
  <2>1. at.queue \in Queue /\ ctype \in Type /\ at.due \in Int
    BY <1>2 DEF Queue, Type
  <2>2. QED
    BY <1>1, <1>3, <2>1, ScheduledType DEF at
<1>5. /\ next.did = k.did /\ next.odid = k.odid /\ next.odue = k.odue /\ next.opos = pos
      /\ next.ctype = ctype /\ next.queue = at.queue /\ next.due = at.due
  BY <1>1, <1>3 DEF Card, Lawful, at
<1>6. new = IF IsFiltered(k) THEN [next EXCEPT !.odue = next.due] ELSE next
  BY <1>5 DEF StayLent, IsFiltered
<1>7. new \in Card
  BY <1>2, <1>4, <1>5, <1>6 DEF Card
<1>8. /\ new.did = k.did /\ new.odid = k.odid /\ new.opos = pos
      /\ new.ctype = ctype /\ new.queue = at.queue /\ new.due = at.due
      /\ new.odue = IF IsFiltered(k) THEN at.due ELSE k.odue
  BY <1>4, <1>5, <1>6 DEF Card
<1>9. (IsFiltered(new) <=> IsFiltered(k)) /\ OriginalOrCurrentDue(new) = at.due
  BY <1>8 DEF IsFiltered, OriginalOrCurrentDue
<1>10. RestoredQueue(new) = at.queue
  BY <1>2, <1>8, TimeAssumption DEF RestoredQueue
<1>11. Lawful(new, exists, reschedule)
  <2>1. exists[new.did] /\ (new.did \in Filtered <=> IsFiltered(new))
    BY <1>8, <1>9 DEF Lawful
  <2>2. IsFiltered(new) => new.odid \in Normal /\ exists[new.odid]
    BY <1>8, <1>9 DEF Lawful
  <2>3. (~IsFiltered(new) => new.odue = 0) /\ (IsFiltered(new) => new.odue # 0)
    BY <1>2, <1>8, <1>9 DEF Lawful
  <2>4. new.ctype # "New" /\ new.queue # "New"
    BY <1>2, <1>8
  <2>5. QED
    BY <1>7, <1>8, <1>10, <2>1, <2>2, <2>3, <2>4 DEF Lawful
<1>12. QED
  BY <1>2, <1>8, <1>9, <1>11 DEF Sched, pos

LEMMA ReviewIsLawful ==
  ASSUME CardInv, NEW k, Lawful(k, exists, reschedule), ~InPreview(k), NEW next \in IntoReview(k)
  PROVE  LET new == Home(next)
         IN  /\ Lawful(new, exists, reschedule)
             /\ Sched(new).ctype = "Review" /\ Sched(new).pos = Abstract!StudiedAt(Sched(k))
             /\ Sched(new).due < Epoch /\ Sched(new).due > Today
<1> DEFINE new == Home(next)
           r == RememberPosition(k)
           pos == Abstract!StudiedAt(Sched(k))
<1>1. PICK i \in Intervals : next = [r EXCEPT !.ctype = "Review", !.queue = "Review", !.due = Today + i]
  BY DEF IntoReview
<1> DEFINE day == Today + i
<1>2. day \in Nat \ {0} /\ Today < day /\ day < Epoch
  BY DayFacts, TimeAssumption
<1>3. r \in Card /\ r = [k EXCEPT !.opos = pos] /\ pos \in Int \cup {None}
  BY RememberFacts DEF InPreview
<1> HIDE DEF day, r, pos
<1>4. next \in Card
  <2>1. "Review" \in Queue /\ "Review" \in Type /\ day \in Int
    BY <1>2 DEF Queue, Type
  <2>2. QED
    BY <1>1, <1>3, <2>1, ScheduledType DEF day
<1>5. /\ next.did = k.did /\ next.odid = k.odid /\ next.odue = k.odue /\ next.opos = pos
      /\ next.ctype = "Review" /\ next.queue = "Review" /\ next.due = day
  BY <1>1, <1>3 DEF Card, Lawful, day
<1> DEFINE home == IF IsFiltered(k) THEN k.odid ELSE k.did
<1>6. home \in Decks /\ home \notin Filtered /\ exists[home]
  BY DeckAssumption DEF Lawful, Card, Decks
<1>7. new = [next EXCEPT !.did = home, !.odid = None, !.odue = 0]
  BY <1>5 DEF Home, IsFiltered
<1> HIDE DEF home
<1>8. new \in Card
  BY <1>4, <1>6, <1>7, ReturnedType
<1>9. /\ new.did = home /\ new.odid = None /\ new.odue = 0 /\ new.opos = pos
      /\ new.ctype = "Review" /\ new.queue = "Review" /\ new.due = day
  BY <1>4, <1>5, <1>7 DEF Card
<1>10. ~IsFiltered(new) /\ OriginalOrCurrentDue(new) = day /\ RestoredQueue(new) = "Review"
  BY <1>9 DEF IsFiltered, OriginalOrCurrentDue, RestoredQueue
<1>11. Lawful(new, exists, reschedule)
  BY <1>6, <1>8, <1>9, <1>10 DEF Lawful
<1>12. QED
  BY <1>2, <1>9, <1>10, <1>11 DEF Sched, pos

LEMMA NormalAnswerIsLawful ==
  ASSUME CardInv, NEW k, Lawful(k, exists, reschedule), ~InPreview(k), NEW next \in NormalAnswers(k)
  PROVE  Lawful(next, exists, reschedule) /\ AnswersTo(Sched(k), Sched(next))
<1> DEFINE learning == {StayLent(n) : n \in NextLearning(k)}
           review == {Home(n) : n \in IntoReview(k)}
<1>1. PICK new \in learning \cup review : next \in Leeches(k, new)
  BY DEF NormalAnswers
<1>2. k \in Card /\ Sched(k).ctype = k.ctype /\ k.ctype \in Type
  BY DEF Lawful, Card, Sched
<1>3. Lawful(new, exists, reschedule) /\ AnswersTo(Sched(k), Sched(new))
  <2>1. CASE new \in learning
    <3>1. PICK n \in NextLearning(k) : new = StayLent(n)
      BY <2>1
    <3> DEFINE ctype == IF k.ctype \in {"New", "Learn"} THEN "Learn" ELSE "Relearn"
    <3>2. n \in InQueueOf(k, ctype) /\ ctype \in {"Learn", "Relearn"}
      BY <3>1 DEF NextLearning, IntoLearning, IntoRelearning
    <3>3. ctype \in Abstract!NextTypes(k.ctype) /\ ctype # "Review"
      BY <1>2 DEF Abstract!NextTypes, Type
    <3> HIDE DEF ctype
    <3>4. QED
      BY <1>2, <3>1, <3>2, <3>3, LearningIsLawful DEF AnswersTo
  <2>2. CASE new \in review
    <3>1. PICK n \in IntoReview(k) : new = Home(n)
      BY <2>2
    <3>2. "Review" \in Abstract!NextTypes(k.ctype)
      BY <1>2 DEF Abstract!NextTypes, Type
    <3>3. QED
      BY <1>2, <3>1, <3>2, ReviewIsLawful DEF AnswersTo
  <2>3. QED
    BY <2>1, <2>2
<1>4. next = new \/ next = [new EXCEPT !.queue = "Suspended"]
  BY <1>1 DEF Leeches
<1>5. CASE next = [new EXCEPT !.queue = "Suspended"]
  <2>1. Lawful(next, exists, reschedule) /\ Sched(next) = Sched(new)
    BY <1>3, <1>5, SetAsideIsLawful DEF BuriedOrSuspended
  <2>2. QED
    BY <1>3, <2>1
<1>6. QED
  BY <1>3, <1>4, <1>5

\* A preview does not change the schedule, unless the card was lent with a due of 0.
LEMMA PreviewAnswerIsLawful ==
  ASSUME CardInv, NEW k, Lawful(k, exists, reschedule), InPreview(k), NEW next \in PreviewAnswers(k)
  PROVE  Lawful(next, exists, reschedule) /\ SameOrLost(Sched(k), Sched(next))
<1>1. CASE next = RemovedRestoringQueue(k)
  BY <1>1, RemovedIsLawful
<1>2. ASSUME NEW s \in Delays, next = [k EXCEPT !.queue = "PreviewRepeat", !.due = now + s]
      PROVE  Lawful(next, exists, reschedule) /\ SameOrLost(Sched(k), Sched(next))
  <2>1. now + s \in Int /\ now + s >= Epoch
    BY DayFacts, TimeAssumption DEF CardInv
  <2>2. next \in Card
    BY <1>2, <2>1 DEF Lawful, Card, Queue
  <2>3. /\ next.did = k.did /\ next.odid = k.odid /\ next.odue = k.odue /\ next.opos = k.opos
        /\ next.ctype = k.ctype /\ next.queue = "PreviewRepeat" /\ next.due = now + s
    BY <1>2 DEF Lawful, Card
  <2>4. IsFiltered(k) /\ IsFiltered(next) /\ ~reschedule[k.did]
    BY <2>3 DEF Lawful, InPreview, IsFiltered
  <2>5. OriginalOrCurrentDue(next) = OriginalOrCurrentDue(k)
    BY <2>3, <2>4 DEF OriginalOrCurrentDue
  <2>6. Lawful(next, exists, reschedule)
    BY <2>1, <2>2, <2>3, <2>4 DEF Lawful
  <2>7. QED
    BY <2>3, <2>5, <2>6 DEF Sched, SameOrLost
<1>3. QED
  BY <1>1, <1>2 DEF PreviewAnswers

-----------------------------------------------------------------------------
(* Manual rescheduling.                                                       *)

LEMMA BeforeRescheduleFacts ==
  ASSUME NEW ex, NEW rs, NEW k, Lawful(k, ex, rs)
  PROVE  LET b == RemovedBeforeReschedule(k)
         IN  /\ b \in Card /\ b.did \notin Filtered /\ ex[b.did]
             /\ b.odid = None /\ b.odue = 0
<1> DEFINE home == IF IsFiltered(k) THEN k.odid ELSE k.did
<1>1. home \in Decks /\ home \notin Filtered /\ ex[home]
  BY DeckAssumption DEF Lawful, Card, Decks
<1>2. CASE IsFiltered(k)
  <2>1. RemovedBeforeReschedule(k) = [k EXCEPT !.did = k.odid, !.odid = None, !.odue = 0]
    BY <1>2 DEF RemovedBeforeReschedule
  <2>2. k \in Card /\ k.odid \in Decks /\ k.odid \notin Filtered /\ ex[k.odid]
    BY <1>1, <1>2 DEF Lawful
  <2>3. RemovedBeforeReschedule(k) \in Card
    BY <2>1, <2>2, ReturnedType
  <2>4. QED
    BY <2>1, <2>2, <2>3 DEF Card
<1>3. CASE ~IsFiltered(k)
  BY <1>1, <1>3 DEF RemovedBeforeReschedule, Lawful, IsFiltered
<1>4. QED
  BY <1>2, <1>3

\* A card with its schedule replaced by hand.
Rescheduled(k, opos, due, ctype, queue) ==
  [k EXCEPT !.opos = opos, !.due = due, !.ctype = ctype, !.queue = queue]
LEMMA ReviewedType ==
  ASSUME NEW b \in Card, NEW o \in Int \cup {None}, NEW due \in Int,
         b.odid = None, b.odue = 0
  PROVE  LET new == Rescheduled(b, o, due, "Review", "Review")
         IN  /\ new \in Card
             /\ new.did = b.did /\ new.odid = None /\ new.odue = 0
             /\ new.opos = o /\ new.due = due /\ new.ctype = "Review" /\ new.queue = "Review"
BY DEF Card, Rescheduled, Type, Queue

LEMMA SetDueIsLawful ==
  ASSUME NEW ex, NEW rs, NEW k, Lawful(k, ex, rs), NEW due \in Nat
  PROVE  LET new == ScheduledAsReview(k, due)
         IN  /\ Lawful(new, ex, rs)
             /\ Sched(new) = [ctype |-> "Review", due |-> due, pos |-> LastPosition(k)]
<1> DEFINE b == RemovedBeforeReschedule(k)
           o == LastPosition(k)
           new == Rescheduled(b, o, due, "Review", "Review")
<1>1. b \in Card /\ b.did \notin Filtered /\ ex[b.did] /\ b.odid = None /\ b.odue = 0
  BY BeforeRescheduleFacts
<1>2. o \in Int \cup {None}
  BY DueType DEF LastPosition, Lawful, Card
<1>3. new = ScheduledAsReview(k, due)
  BY DEF ScheduledAsReview, Rescheduled
<1> HIDE DEF b, o
<1>4. /\ new \in Card /\ new.did = b.did /\ new.odid = None /\ new.odue = 0
      /\ new.opos = o /\ new.due = due /\ new.ctype = "Review" /\ new.queue = "Review"
  BY <1>1, <1>2, ReviewedType
<1> HIDE DEF new
<1>5. ~IsFiltered(new) /\ OriginalOrCurrentDue(new) = due /\ RestoredQueue(new) = "Review"
  BY <1>4 DEF IsFiltered, OriginalOrCurrentDue, RestoredQueue
<1>7. Lawful(new, ex, rs)
  BY <1>1, <1>4, <1>5 DEF Lawful
<1>8. Sched(new) = [ctype |-> "Review", due |-> due, pos |-> o]
  BY <1>4, <1>5 DEF Sched
<1>9. QED
  BY <1>3, <1>7, <1>8 DEF o

LEMMA ForgottenType ==
  ASSUME NEW b \in Card, NEW due \in Int, b.odid = None, b.odue = 0
  PROVE  LET new == Rescheduled(b, None, due, "New", "New")
         IN  /\ new \in Card
             /\ new.did = b.did /\ new.odid = None /\ new.odue = 0
             /\ new.opos = None /\ new.due = due /\ new.ctype = "New" /\ new.queue = "New"
BY DEF Card, Rescheduled, Type, Queue

LEMMA ForgottenIsLawful ==
  ASSUME CardInv, NEW k, Lawful(k, exists, reschedule), NEW restore \in BOOLEAN
  PROVE  LET new == ScheduledAsNew(k, restore)
         IN  /\ Lawful(new, exists, reschedule)
             /\ Sched(new).ctype = "New" /\ Sched(new).pos = None
             /\ restore /\ LastPosition(k) # None => Sched(new).due = LastPosition(k)
<1> DEFINE b == RemovedBeforeReschedule(k)
           due == IF RestoresPosition(k, restore) THEN LastPosition(k) ELSE next_position
           new == Rescheduled(b, None, due, "New", "New")
<1>1. b \in Card /\ b.did \notin Filtered /\ exists[b.did] /\ b.odid = None /\ b.odue = 0
  BY BeforeRescheduleFacts
<1>2. restore /\ LastPosition(k) # None => due = LastPosition(k)
  BY DEF RestoresPosition
<1>3. due \in Int
  <2>1. LastPosition(k) \in Int \cup {None} /\ next_position \in Int
    BY DueType DEF LastPosition, Lawful, Card, CardInv, TypeOK
  <2>2. QED
    BY <2>1 DEF RestoresPosition
<1> HIDE DEF b, due
<1>4. /\ new \in Card /\ new.did = b.did /\ new.odid = None /\ new.odue = 0
      /\ new.opos = None /\ new.due = due /\ new.ctype = "New" /\ new.queue = "New"
  BY <1>1, <1>3, ForgottenType
<1>5. new = ScheduledAsNew(k, restore)
  BY <1>1 DEF ScheduledAsNew, Rescheduled, b, due, Card
<1> HIDE DEF new
<1>6. ~IsFiltered(new) /\ OriginalOrCurrentDue(new) = due /\ RestoredQueue(new) = "New"
  BY <1>4 DEF IsFiltered, OriginalOrCurrentDue, RestoredQueue
<1>8. Lawful(new, exists, reschedule)
  BY <1>1, <1>4, <1>6 DEF Lawful
<1>9. QED
  BY <1>2, <1>4, <1>5, <1>6, <1>8 DEF Sched

\* New cards get positions, and others keep their schedule.
Repositioned(old, new) ==
  new = old \/ (old.ctype = "New" /\ new = [old EXCEPT !.due = new.due])

LEMMA PositionType ==
  ASSUME NEW k \in Card, NEW p \in Nat
  PROVE  /\ [k EXCEPT !.odue = p] \in Card
         /\ [k EXCEPT !.due = p] \in Card
BY DEF Card

LEMMA PlacedIsLawful ==
  ASSUME NEW ex, NEW rs, NEW k, Lawful(k, ex, rs), NEW p \in Nat
  PROVE  LET new == AtPosition(k, p)
         IN  Lawful(new, ex, rs) /\ Repositioned(Sched(k), Sched(new)) /\ new.ctype = k.ctype
<1> DEFINE new == AtPosition(k, p)
<1>0. k \in Card /\ p \in Nat
  BY DEF Lawful
<1>1. CASE k.ctype = "New" /\ IsFiltered(k)
  <2>1. new = [k EXCEPT !.odue = p]
    BY <1>1 DEF AtPosition
  <2> HIDE DEF new
  <2>2. new \in Card /\ new.did = k.did /\ new.odid = k.odid /\ new.odue = p /\ new.due = k.due
        /\ new.ctype = k.ctype /\ new.queue = k.queue /\ new.opos = k.opos
    BY <1>0, <2>1, PositionType DEF Card
  <2>3. IsFiltered(new) /\ OriginalOrCurrentDue(new) = p
    BY <1>1, <2>2 DEF IsFiltered, OriginalOrCurrentDue
  <2>4. Lawful(new, ex, rs)
    BY <1>1, <2>2, <2>3 DEF Lawful
  <2>5. Sched(new) = [Sched(k) EXCEPT !.due = p]
    BY <2>2, <2>3 DEF Sched
  <2>6. QED
    BY <1>1, <2>2, <2>3, <2>4, <2>5 DEF Repositioned, Sched, new
<1>2. CASE k.ctype = "New" /\ ~IsFiltered(k)
  <2>1. new = [k EXCEPT !.due = p]
    BY <1>2 DEF AtPosition
  <2> HIDE DEF new
  <2>2. new \in Card /\ new.did = k.did /\ new.odid = k.odid /\ new.odue = k.odue /\ new.due = p
        /\ new.ctype = k.ctype /\ new.queue = k.queue /\ new.opos = k.opos
    BY <1>0, <2>1, PositionType DEF Card
  <2>3. ~IsFiltered(new) /\ OriginalOrCurrentDue(new) = p /\ RestoredQueue(new) = RestoredQueue(k)
    BY <1>2, <2>2 DEF IsFiltered, OriginalOrCurrentDue, RestoredQueue
  <2>4. Lawful(new, ex, rs)
    BY <1>2, <2>2, <2>3 DEF Lawful
  <2>5. Sched(new) = [Sched(k) EXCEPT !.due = p]
    BY <2>2, <2>3 DEF Sched
  <2>6. QED
    BY <1>2, <2>2, <2>3, <2>4, <2>5 DEF Repositioned, Sched, new
<1>3. k.queue = "New" => k.ctype = "New"
  BY DEF Lawful
<1>4. CASE k.ctype # "New"
  BY <1>3, <1>4 DEF AtPosition, Repositioned
<1>5. QED
  BY <1>1, <1>2, <1>4

LEMMA ShiftedIsLawful ==
  ASSUME NEW ex, NEW rs, NEW k, Lawful(k, ex, rs), NEW start \in Nat, NEW by \in Nat
  PROVE  LET new == Shifted(k, start, by)
         IN  Lawful(new, ex, rs) /\ Repositioned(Sched(k), Sched(new)) /\ new.ctype = k.ctype
<1>1. CASE k.ctype = "New" /\ k.due >= start
  <2>1. k.due + by \in Nat
    BY <1>1 DEF Lawful, Card
  <2>2. Shifted(k, start, by) = AtPosition(k, k.due + by)
    BY <1>1 DEF Shifted
  <2>3. QED
    BY <2>1, <2>2, PlacedIsLawful
<1>2. CASE ~(k.ctype = "New" /\ k.due >= start)
  BY <1>2 DEF Shifted, Repositioned
<1>3. QED
  BY <1>1, <1>2

LEMMA RepositionedTwice ==
  ASSUME NEW k, NEW m, NEW n, Repositioned(Sched(k), Sched(m)), Repositioned(Sched(m), Sched(n)),
         m.ctype = k.ctype
  PROVE  Repositioned(Sched(k), Sched(n))
BY DEF Repositioned, Sched

-----------------------------------------------------------------------------
(* Steps.                                                                     *)

LEMMA NotNone ==
  ASSUME NEW ex, NEW rs, NEW k, Lawful(k, ex, rs)
  PROVE  k # None /\ Sched(k) # None
<1>1. k \in Card /\ OriginalOrCurrentDue(k) \in Int
  BY DueType DEF Lawful
<1>2. Sched(k) \in [ctype : Type, due : Int, pos : Int \cup {None}]
  BY <1>1 DEF Sched, Card
<1>3. QED
  BY <1>1, <1>2, NoneAssumption

\* More decks, and other options of filtered decks the card is not in, do no harm.
LEMMA LawfulGrows ==
  ASSUME NEW ex, NEW ex2, NEW rs, NEW rs2, NEW k, Lawful(k, ex, rs),
         \A d \in Decks : ex[d] => ex2[d], IsFiltered(k) => rs2[k.did] = rs[k.did]
  PROVE  Lawful(k, ex2, rs2)
<1>1. k.did \in Decks /\ (IsFiltered(k) => k.odid \in Decks)
  BY DEF Lawful, Card, Decks
<1>2. ex2[k.did] /\ (IsFiltered(k) => ex2[k.odid])
  BY <1>1 DEF Lawful
<1>3. QED
  BY <1>2 DEF Lawful

\* The cards after a step are lawful, and none is added.
LawfulCards ==
  /\ card' \in [Cards -> Card \cup {None}]
  /\ \A c \in Cards : card'[c] # None => card[c] # None /\ Lawful(card'[c], exists', reschedule')

LEMMA InvariantStep ==
  ASSUME CardInv, LawfulCards, UNCHANGED now,
         exists' \in [Decks -> BOOLEAN], exists'[DefaultDeck],
         reschedule' \in [Filtered -> BOOLEAN], next_position' \in Nat
  PROVE  CardInv'
<1>1. TypeOK'
  BY DEF CardInv, TypeOK, LawfulCards
<1>2. \A c \in Live' : Lawful(card[c], exists, reschedule)'
  BY DEF LawfulCards, Live, Lawful, IsFiltered, OriginalOrCurrentDue, RestoredQueue
<1>3. QED
  BY <1>1, <1>2 DEF CardInv

AbstractStep == [Abstract!Next]_<<now, Schedule>>

\* What becomes of a card that only changes decks or queues.
Kept(new, c) ==
  IF card[c] = None THEN new = None
  ELSE Lawful(new, exists', reschedule') /\ SameOrLost(Sched(card[c]), Sched(new))

LEMMA ScheduleFacts ==
  /\ Schedule = [c \in Cards |-> IF card[c] = None THEN None ELSE Sched(card[c])]
  /\ Schedule' = [c \in Cards |-> IF card'[c] = None THEN None ELSE Sched(card'[c])]
<1>1. \A c \in Cards : (c \notin Live <=> card[c] = None) /\ (c \notin Live' <=> card'[c] = None)
  BY DEF Live
<1>2. QED
  BY <1>1 DEF Schedule, Sched, OriginalOrCurrentDue, IsFiltered

LEMMA LiveFacts ==
  ASSUME CardInv
  PROVE  /\ \A c \in Cards : c \in Live <=> card[c] # None
         /\ \A c \in Cards : card[c] # None => Lawful(card[c], exists, reschedule)
         /\ Abstract!Live = Live
<1>1. \A c \in Cards : c \in Live <=> card[c] # None
  BY DEF Live
<1>2. \A c \in Cards : card[c] # None => Lawful(card[c], exists, reschedule)
  BY <1>1 DEF CardInv
<1>3. \A c \in Cards : Schedule[c] # None <=> card[c] # None
  BY <1>2, ScheduleFacts, NotNone
<1>4. QED
  BY <1>1, <1>2, <1>3 DEF Abstract!Live, Live

LEMMA KeptCards ==
  ASSUME CardInv, card' = [c \in Cards |-> card'[c]], \A c \in Cards : Kept(card'[c], c)
  PROVE  /\ LawfulCards
         /\ \A c \in Cards : Schedule'[c] # Schedule[c] => Abstract!LosesZeroDue(c)
<1>1. \A c \in Cards : card'[c] # None => card[c] # None /\ Lawful(card'[c], exists', reschedule')
  BY DEF Kept
<1>2. card' \in [Cards -> Card \cup {None}]
  BY <1>1 DEF Lawful
<1>3. ASSUME NEW c \in Cards, Schedule'[c] # Schedule[c]
      PROVE  Abstract!LosesZeroDue(c)
  <2>1. card[c] # None
    BY <1>3, ScheduleFacts DEF Kept
  <2>2. Lawful(card[c], exists, reschedule) /\ Lawful(card'[c], exists', reschedule')
        /\ SameOrLost(Sched(card[c]), Sched(card'[c]))
    BY <2>1, LiveFacts DEF Kept
  <2>3. /\ Schedule[c] = Sched(card[c]) /\ Schedule'[c] = Sched(card'[c])
        /\ Schedule[c] # None /\ Schedule'[c] # None
    BY <2>1, <2>2, NotNone, ScheduleFacts
  <2>4. Loses(Schedule[c], Schedule'[c])
    BY <1>3, <2>2, <2>3 DEF SameOrLost
  <2>5. QED
    BY <2>3, <2>4 DEF Loses, Abstract!LosesZeroDue
<1>4. QED
  BY <1>1, <1>2, <1>3 DEF LawfulCards

\* A step that keeps every schedule, or loses some dues of 0.
LEMMA KeptStep ==
  ASSUME CardInv, UNCHANGED now,
         card' = [c \in Cards |-> card'[c]], \A c \in Cards : Kept(card'[c], c),
         exists' \in [Decks -> BOOLEAN], exists'[DefaultDeck],
         reschedule' \in [Filtered -> BOOLEAN], next_position' \in Nat
  PROVE  CardInv' /\ AbstractStep
<1>1. CardInv'
  BY KeptCards, InvariantStep
<1>2. Abstract!ComeHome
  BY KeptCards DEF Abstract!ComeHome
<1>3. QED
  BY <1>1, <1>2 DEF AbstractStep, Abstract!Next

\* A step on one card.
LEMMA OneCardStep ==
  ASSUME CardInv, UNCHANGED <<now, exists, reschedule>>, next_position' \in Nat,
         NEW c \in Live, NEW new, Lawful(new, exists, reschedule), card' = [card EXCEPT ![c] = new]
  PROVE  CardInv' /\ Schedule' = [Schedule EXCEPT ![c] = Sched(new)] /\ Schedule'[c] = Sched(new)
<1>1. c \in Cards /\ new # None /\ card[c] # None /\ new \in Card
  BY NotNone DEF Live, Lawful
<1>2. card' \in [Cards -> Card \cup {None}]
  BY <1>1 DEF CardInv, TypeOK
<1>3. \A e \in Cards : card'[e] = IF e = c THEN new ELSE card[e]
  BY DEF CardInv, TypeOK
<1>4. LawfulCards
  BY <1>1, <1>2, <1>3, LiveFacts DEF LawfulCards
<1>5. CardInv'
  BY <1>4, InvariantStep DEF CardInv, TypeOK
<1>6. Schedule' = [Schedule EXCEPT ![c] = Sched(new)] /\ Schedule'[c] = Sched(new)
  BY <1>1, <1>3, ScheduleFacts
<1>7. QED
  BY <1>5, <1>6

\* A step on one card that keeps its schedule, or loses a due of 0.
LEMMA OneKeptStep ==
  ASSUME CardInv, UNCHANGED <<now, exists, reschedule, next_position>>,
         NEW c \in Live, NEW new, Lawful(new, exists, reschedule), card' = [card EXCEPT ![c] = new],
         SameOrLost(Sched(card[c]), Sched(new))
  PROVE  CardInv' /\ AbstractStep
<1>1. \A e \in Cards : card'[e] = IF e = c THEN new ELSE card[e]
  BY DEF CardInv, TypeOK
<1>2. ASSUME NEW e \in Cards
      PROVE  Kept(card'[e], e)
  <2>1. CASE e = c
    BY <1>1, <2>1 DEF Kept, Live
  <2>2. CASE e # c
    BY <1>1, <2>2, LiveFacts DEF Kept, SameOrLost
  <2>3. QED
    BY <2>1, <2>2
<1>3. card' = [e \in Cards |-> card'[e]]
  BY DEF CardInv, TypeOK
<1>4. QED
  BY <1>2, <1>3, KeptStep DEF CardInv, TypeOK

-----------------------------------------------------------------------------
(* One lemma per action.                                                      *)

LEMMA InitInv == ASSUME Init PROVE CardInv /\ Abstract!Init
<1>0. /\ now = Epoch /\ next_position = 1
      /\ exists = [d \in Decks |-> d \in Normal]
      /\ reschedule \in [Filtered -> {TRUE}]
  BY DEF Init
<1>01. /\ exists \in [Decks -> BOOLEAN] /\ exists[DefaultDeck]
       /\ reschedule \in [Filtered -> BOOLEAN]
  <2>1. DefaultDeck \in Decks /\ DefaultDeck \in Normal
    BY DeckAssumption DEF Decks
  <2>2. exists[DefaultDeck]
    BY <1>0, <2>1, Zenon
  <2>3. exists \in [Decks -> BOOLEAN]
    <3>1. \A d \in Decks : (d \in Normal) \in BOOLEAN
      OBVIOUS
    <3>2. QED
      BY <1>0, <3>1, ZenonT(20)
  <2>4. reschedule \in [Filtered -> BOOLEAN]
    BY <1>0
  <2>5. QED
    BY <2>2, <2>3, <2>4
<1>1. PICK start \in Starts : card = [c \in Cards |-> InitialCard(start[c])]
  BY DEF Init
<1>2. /\ start \in [Cards -> [ctype : Type, due : Int, opos : Int \cup {None}]]
      /\ \A c \in Cards : start[c].ctype = "Review" => start[c].due < Epoch
  BY StartsAssumption
<1>3. ASSUME NEW c \in Cards
      PROVE  /\ Lawful(card[c], exists, reschedule)
             /\ Sched(card[c]) \in [ctype : Type, due : Int, pos : Int \cup {None}]
             /\ Sched(card[c]).ctype = "Review" => Sched(card[c]).due < Epoch
  <2> DEFINE s == start[c]
             k == [did |-> DefaultDeck, odid |-> None, ctype |-> s.ctype, queue |-> "New",
                   due |-> s.due, odue |-> 0, opos |-> s.opos]
  <2>1. s.ctype \in Type /\ s.due \in Int /\ s.opos \in Int \cup {None}
        /\ (s.ctype = "Review" => s.due < Epoch)
    BY <1>2
  <2> HIDE DEF s
  <2>2. k \in Card
    BY <2>1, DeckAssumption DEF Card, Decks, Queue
  <2> DEFINE q == RestoredQueue(k)
             n == [k EXCEPT !.queue = q]
  <2>3. q \in Queue \ BuriedOrSuspended
    BY <2>2, RestoredQueueType
  <2> HIDE DEF q
  <2>4. n \in Card
    BY <2>2, <2>3 DEF Card
  <2>5. /\ n.did = DefaultDeck /\ n.odid = None /\ n.odue = 0 /\ n.due = s.due
        /\ n.ctype = s.ctype /\ n.opos = s.opos /\ n.queue = q
    OBVIOUS
  <2>6. card[c] = n
    BY <1>1 DEF InitialCard, RestoreQueueFromType, s, q
  <2> HIDE DEF n
  <2>7. RestoredQueue(n) = q
    BY <2>5 DEF RestoredQueue, q
  <2>8. ~IsFiltered(n) /\ OriginalOrCurrentDue(n) = s.due
    BY <2>5 DEF IsFiltered, OriginalOrCurrentDue
  <2>9. exists[n.did] /\ n.did \notin Filtered /\ (n.queue = "New" => n.ctype = "New")
    BY <1>01, <2>1, <2>5, <2>7, DeckAssumption DEF RestoredQueue, Type
  <2>10. Lawful(n, exists, reschedule)
    BY <2>1, <2>4, <2>5, <2>7, <2>8, <2>9 DEF Lawful
  <2>11. /\ Sched(n) \in [ctype : Type, due : Int, pos : Int \cup {None}]
         /\ Sched(n).ctype = "Review" => Sched(n).due < Epoch
    BY <2>1, <2>5, <2>8 DEF Sched
  <2>12. QED
    BY <2>6, <2>10, <2>11
<1>4. card \in [Cards -> Card \cup {None}]
  BY <1>1, <1>3 DEF Lawful
<1>5. TypeOK
  BY <1>0, <1>01, <1>4, TimeAssumption DEF TypeOK
<1>6. CardInv
  BY <1>0, <1>3, <1>5, TimeAssumption DEF CardInv, Live
<1>7. /\ Schedule \in [Cards -> [ctype : Type, due : Int, pos : Int \cup {None}]]
      /\ \A c \in Cards : Schedule[c].ctype = "Review" => Schedule[c].due < Epoch
  BY <1>3, ScheduleFacts, NotNone
<1>8. Abstract!Init
  BY <1>0, <1>7 DEF Abstract!Init, Abstract!Type, Type
<1>9. QED
  BY <1>6, <1>8

\* Everything returned: a card that was lent goes home, the others stay.
LEMMA ReturnedFacts ==
  ASSUME CardInv, NEW f \in Filtered, NEW c \in Live
  PROVE  /\ Lawful(Returned(f)[c], exists, reschedule)
         /\ SameOrLost(Sched(card[c]), Sched(Returned(f)[c]))
         /\ IsFiltered(Returned(f)[c]) => Returned(f)[c].did # f
<1>1. c \in Cards /\ Lawful(card[c], exists, reschedule)
  BY LiveFacts DEF Live
<1>2. CASE InSingleDeck(card[c], f)
  <2>1. Returned(f)[c] = RemovedRestoringQueue(card[c])
    BY <1>1, <1>2 DEF Returned
  <2>2. QED
    BY <1>1, <2>1, RemovedIsLawful
<1>3. CASE ~InSingleDeck(card[c], f)
  <2>1. Returned(f)[c] = card[c] /\ card[c].did # f
    BY <1>1, <1>3 DEF Returned, InSingleDeck
  <2>2. QED
    BY <1>1, <2>1 DEF SameOrLost
<1>4. QED
  BY <1>2, <1>3

LEMMA RebuiltStep ==
  ASSUME CardInv, NEW f \in Filtered, NEW resched \in BOOLEAN, resched = reschedule'[f],
         \A g \in Filtered : g # f => reschedule'[g] = reschedule[g],
         NEW matching \in SUBSET Searchable(Returned(f)), NEW order \in Orders(matching),
         card' = Rebuilt(f, resched, order), UNCHANGED <<now, next_position>>,
         exists' \in [Decks -> BOOLEAN], \A d \in Decks : exists[d] => exists'[d], exists'[f],
         reschedule' \in [Filtered -> BOOLEAN]
  PROVE  CardInv' /\ AbstractStep
<1>1. ASSUME NEW c \in Cards
      PROVE  Kept(card'[c], c)
  <2>1. CASE c \notin Live
    <3>1. c \notin matching /\ DOMAIN order = matching /\ card[c] = None
      BY <2>1, LiveFacts DEF Searchable, Orders
    <3>2. QED
      BY <2>1, <3>1 DEF Rebuilt, Returned, Kept
  <2>2. CASE c \in Live
    <3> DEFINE home == Returned(f)[c]
    <3>0. /\ Lawful(home, exists, reschedule) /\ SameOrLost(Sched(card[c]), Sched(home))
          /\ IsFiltered(home) => home.did # f
          /\ card[c] # None
      BY <2>2, ReturnedFacts, LiveFacts
    <3>1. /\ Lawful(home, exists', reschedule') /\ SameOrLost(Sched(card[c]), Sched(home))
          /\ card[c] # None
      <4> HIDE DEF home
      <4>1. IsFiltered(home) => reschedule'[home.did] = reschedule[home.did]
        BY <3>0 DEF Lawful
      <4>2. QED
        BY <3>0, <4>1, LawfulGrows
    <3>2. CASE c \notin matching
      <4>1. card'[c] = home
        BY <3>2 DEF Rebuilt, Orders
      <4>2. QED
        BY <3>1, <4>1 DEF Kept
    <3>3. CASE c \in matching
      <4>1. ~IsFiltered(home)
        BY <3>1, <3>3 DEF Searchable, Lawful
      <4>2. FilteredStart + order[c] \in Int /\ FilteredStart + order[c] < 0
        <5>1. IsFiniteSet(matching) /\ Cardinality(matching) <= Cardinality(Cards)
          BY CardsAssumption, FS_Subset DEF Searchable, Live
        <5>2. Cardinality(matching) \in Nat /\ Cardinality(Cards) \in Nat
          BY <5>1, CardsAssumption, FS_CardinalityType
        <5>3. order[c] \in 0..(Cardinality(matching) - 1)
          BY <3>3 DEF Orders
        <5>4. QED
          BY <5>1, <5>2, <5>3, PositionAssumption, CardsAssumption
      <4>3. card'[c] = MovedInto(home, f, resched, FilteredStart + order[c])
        BY <3>3 DEF Rebuilt, Orders
      <4> HIDE DEF home
      <4>4. Lawful(card'[c], exists', reschedule') /\ Sched(card'[c]) = Sched(home)
        BY <3>1, <4>1, <4>2, <4>3, MovedIsLawful
      <4>5. QED
        BY <3>1, <4>4 DEF Kept
    <3>4. QED
      BY <3>2, <3>3
  <2>3. QED
    BY <2>1, <2>2
<1>2. card' = [c \in Cards |-> card'[c]]
  BY DEF Rebuilt
<1>3. exists'[DefaultDeck] /\ next_position' \in Nat
  BY DeckAssumption DEF CardInv, TypeOK, Decks
<1>4. QED
  BY <1>1, <1>2, <1>3, KeptStep

LEMMA RebuildStep ==
  ASSUME CardInv, NEW f \in Filtered, RebuildFilteredDeck(f)
  PROVE  CardInv' /\ AbstractStep
<1>0. PICK matching \in SUBSET Searchable(Returned(f)) :
        \E order \in Orders(matching) : card' = Rebuilt(f, reschedule[f], order)
  BY DEF RebuildFilteredDeck
<1>1. PICK order \in Orders(matching) : card' = Rebuilt(f, reschedule[f], order)
  BY <1>0
<1>2. /\ UNCHANGED <<now, exists, reschedule, next_position>> /\ exists[f]
      /\ exists \in [Decks -> BOOLEAN] /\ reschedule \in [Filtered -> BOOLEAN]
  BY DEF RebuildFilteredDeck, Operation, CardInv, TypeOK
<1>3. reschedule[f] = reschedule'[f] /\ reschedule[f] \in BOOLEAN
  BY <1>2
<1>4. QED
  BY <1>1, <1>2, <1>3, RebuiltStep

LEMMA AddOrUpdateStep ==
  ASSUME CardInv, NEW f \in Filtered, NEW resched \in BOOLEAN, AddOrUpdateFilteredDeck(f, resched)
  PROVE  CardInv' /\ AbstractStep
<1>0. PICK matching \in (SUBSET Searchable(Returned(f))) \ {{}} :
        \E order \in Orders(matching) : card' = Rebuilt(f, resched, order)
  BY DEF AddOrUpdateFilteredDeck
<1>1. PICK order \in Orders(matching) : card' = Rebuilt(f, resched, order)
  BY <1>0
<1>2. /\ UNCHANGED <<now, next_position>>
      /\ exists' = [exists EXCEPT ![f] = TRUE] /\ reschedule' = [reschedule EXCEPT ![f] = resched]
      /\ exists \in [Decks -> BOOLEAN] /\ reschedule \in [Filtered -> BOOLEAN]
  BY DEF AddOrUpdateFilteredDeck, Operation, CardInv, TypeOK
<1>3. /\ exists' \in [Decks -> BOOLEAN] /\ reschedule' \in [Filtered -> BOOLEAN]
      /\ exists'[f] /\ \A d \in Decks : exists[d] => exists'[d]
      /\ resched = reschedule'[f] /\ \A g \in Filtered : g # f => reschedule'[g] = reschedule[g]
  BY <1>2 DEF Decks
<1>4. QED
  BY <1>1, <1>2, <1>3, RebuiltStep

LEMMA EmptyStep ==
  ASSUME CardInv, NEW f \in Filtered, EmptyFilteredDeck(f)
  PROVE  CardInv' /\ AbstractStep
<1>1. /\ UNCHANGED <<now, exists, reschedule, next_position>> /\ card' = Returned(f)
      /\ exists \in [Decks -> BOOLEAN] /\ exists[DefaultDeck]
      /\ reschedule \in [Filtered -> BOOLEAN] /\ next_position \in Nat
  BY DEF EmptyFilteredDeck, Operation, CardInv, TypeOK
<1>2. ASSUME NEW c \in Cards
      PROVE  Kept(card'[c], c)
  <2>1. CASE c \in Live
    BY <1>1, <2>1, ReturnedFacts, LiveFacts DEF Kept
  <2>2. CASE c \notin Live
    BY <1>1, <2>2, LiveFacts DEF Kept, Returned
  <2>3. QED
    BY <2>1, <2>2
<1>3. card' = [c \in Cards |-> card'[c]]
  BY <1>1 DEF Returned
<1>4. QED
  BY <1>1, <1>2, <1>3, KeptStep

LEMMA AnswerStep ==
  ASSUME CardInv, NEW c \in Cards, AnswerCard(c)
  PROVE  CardInv' /\ AbstractStep
<1>1. /\ c \in Live /\ UNCHANGED <<now, exists, reschedule, next_position>>
      /\ exists \in [Decks -> BOOLEAN] /\ exists[DefaultDeck]
      /\ reschedule \in [Filtered -> BOOLEAN] /\ next_position \in Nat
  BY DEF AnswerCard, Operation, CardInv, TypeOK
<1> DEFINE k == card[c]
<1>2. Lawful(k, exists, reschedule) /\ k # None
  BY <1>1, LiveFacts DEF Live
<1>3. PICK next \in IF InPreview(k) THEN PreviewAnswers(k) ELSE NormalAnswers(k), mode \in BuryModes :
        card' = [s \in Cards |-> IF s = c THEN next
                                 ELSE IF s \in SiblingsToBury(c, mode)
                                      THEN [card[s] EXCEPT !.queue = "SchedBuried"]
                                      ELSE card[s]]
  BY DEF AnswerCard
<1>4. /\ Lawful(next, exists, reschedule)
      /\ SameOrLost(Sched(k), Sched(next)) \/ AnswersTo(Sched(k), Sched(next))
  BY <1>2, <1>3, PreviewAnswerIsLawful, NormalAnswerIsLawful
<1> HIDE DEF k
<1>5. ASSUME NEW s \in Cards, s # c
      PROVE  /\ card'[s] = None <=> card[s] = None
             /\ card[s] # None => Lawful(card'[s], exists, reschedule) /\ Sched(card'[s]) = Sched(card[s])
  <2>1. CASE s \in SiblingsToBury(c, mode)
    <3>1. Lawful(card[s], exists, reschedule) /\ card[s] # None
      BY <2>1, LiveFacts DEF SiblingsToBury, Live
    <3>2. PICK queue \in BuriedOrSuspended : card'[s] = [card[s] EXCEPT !.queue = queue]
      BY <1>3, <1>5, <2>1 DEF BuriedOrSuspended
    <3>3. Lawful(card'[s], exists, reschedule) /\ Sched(card'[s]) = Sched(card[s])
      BY <3>1, <3>2, SetAsideIsLawful
    <3>4. QED
      BY <3>1, <3>3, NotNone
  <2>2. CASE s \notin SiblingsToBury(c, mode)
    BY <1>3, <1>5, <2>2, LiveFacts
  <2>3. QED
    BY <2>1, <2>2
<1>6. card'[c] = next /\ c \in Cards
  BY <1>3
<1>7. LawfulCards
  <2>1. \A s \in Cards : card'[s] # None => card[s] # None /\ Lawful(card'[s], exists', reschedule')
    BY <1>1, <1>2, <1>4, <1>5, <1>6 DEF k
  <2>2. \A s \in Cards : card'[s] \in Card \cup {None}
    BY <2>1 DEF Lawful
  <2>3. card' = [s \in Cards |-> card'[s]]
    BY <1>3
  <2>4. QED
    BY <2>1, <2>2, <2>3 DEF LawfulCards
<1>8. CardInv'
  BY <1>1, <1>7, InvariantStep
<1>9. Schedule' = [Schedule EXCEPT ![c] = Sched(next)] /\ Schedule[c] = Sched(k) /\ Schedule'[c] = Sched(next)
  <2>1. card'[c] # None
    BY <1>4, <1>6, NotNone
  <2>2. QED
    BY <1>2, <1>5, <1>6, <2>1, ScheduleFacts DEF k
<1>10. CASE SameOrLost(Sched(k), Sched(next))
  <2>1. \A s \in Cards : Kept(card'[s], s)
    BY <1>1, <1>2, <1>4, <1>5, <1>6, <1>10 DEF Kept, SameOrLost, k
  <2>2. card' = [s \in Cards |-> card'[s]]
    BY <1>3
  <2>3. QED
    BY <1>1, <2>1, <2>2, KeptStep
<1>11. CASE AnswersTo(Sched(k), Sched(next))
  <2>1. Abstract!Answer(c)
    BY <1>1, <1>4, <1>9, <1>11, NotNone, LiveFacts DEF Abstract!Answer, AnswersTo, Today, Abstract!Today
  <2>2. QED
    BY <1>1, <1>8, <2>1 DEF AbstractStep, Abstract!Next
<1>12. QED
  BY <1>4, <1>10, <1>11

LEMMA BuryOrSuspendStep ==
  ASSUME CardInv, NEW c \in Cards, NEW queue \in BuriedOrSuspended, BuryOrSuspend(c, queue)
  PROVE  CardInv' /\ AbstractStep
<1> DEFINE new == [card[c] EXCEPT !.queue = queue]
<1>1. /\ c \in Live /\ UNCHANGED <<now, exists, reschedule, next_position>> /\ card' = [card EXCEPT ![c] = new]
      /\ next_position \in Nat
  BY DEF BuryOrSuspend, Operation, CardInv, TypeOK
<1>2. Lawful(card[c], exists, reschedule) /\ card[c] # None
  BY <1>1, LiveFacts DEF Live
<1>3. Lawful(new, exists, reschedule) /\ Sched(new) = Sched(card[c])
  BY <1>2, SetAsideIsLawful
<1> HIDE DEF new
<1>4. QED
  BY <1>1, <1>3, OneKeptStep DEF SameOrLost

LEMMA UnburyOrUnsuspendStep ==
  ASSUME CardInv, NEW c \in Cards, UnburyOrUnsuspend(c)
  PROVE  CardInv' /\ AbstractStep
<1> DEFINE new == RestoreQueueFromType(card[c])
<1>1. /\ c \in Live /\ UNCHANGED <<now, exists, reschedule, next_position>> /\ card' = [card EXCEPT ![c] = new]
      /\ next_position \in Nat
  BY DEF UnburyOrUnsuspend, Operation, CardInv, TypeOK
<1>2. Lawful(card[c], exists, reschedule) /\ card[c] # None
  BY <1>1, LiveFacts DEF Live
<1>3. Lawful(new, exists, reschedule) /\ Sched(new) = Sched(card[c])
  BY <1>2, RestoredIsLawful
<1> HIDE DEF new
<1>4. QED
  BY <1>1, <1>3, OneKeptStep DEF SameOrLost

LEMMA UnburyAllStep == ASSUME CardInv, UnburyAll PROVE CardInv' /\ AbstractStep
<1>1. /\ UNCHANGED <<now, exists, reschedule, next_position>>
      /\ exists \in [Decks -> BOOLEAN] /\ exists[DefaultDeck]
      /\ reschedule \in [Filtered -> BOOLEAN] /\ next_position \in Nat
  BY DEF UnburyAll, Operation, CardInv, TypeOK
<1>2. ASSUME NEW c \in Cards
      PROVE  Kept(card'[c], c)
  <2>1. card'[c] = card[c] \/ (c \in Live /\ card'[c] = RestoreQueueFromType(card[c]))
    BY DEF UnburyAll
  <2>2. QED
    BY <1>1, <2>1, LiveFacts, RestoredIsLawful DEF Kept, Live, SameOrLost
<1>3. card' = [c \in Cards |-> card'[c]]
  BY DEF UnburyAll
<1>4. QED
  BY <1>1, <1>2, <1>3, KeptStep

LEMMA SetDueDateStep ==
  ASSUME CardInv, NEW c \in Cards, NEW days \in {0} \cup Intervals, SetDueDate(c, days)
  PROVE  CardInv' /\ AbstractStep
<1> DEFINE due == Today + days
           new == ScheduledAsReview(card[c], due)
<1>1. /\ c \in Live /\ UNCHANGED <<now, exists, reschedule, next_position>> /\ card' = [card EXCEPT ![c] = new]
      /\ next_position \in Nat
  BY DEF SetDueDate, Operation, CardInv, TypeOK
<1>2. Lawful(card[c], exists, reschedule) /\ card[c] # None /\ card[c] \in Card
  BY <1>1, LiveFacts DEF Live, Lawful
<1>3. due \in Nat /\ due < Epoch /\ due >= Today
  BY DayFacts
<1> HIDE DEF due
<1>4. /\ Lawful(new, exists, reschedule)
      /\ Sched(new) = [ctype |-> "Review", due |-> due, pos |-> LastPosition(card[c])]
  BY <1>2, <1>3, SetDueIsLawful
<1> HIDE DEF new
<1>5. /\ CardInv' /\ Schedule' = [Schedule EXCEPT ![c] = Sched(new)]
      /\ Schedule'[c] = Sched(new)
  BY <1>1, <1>4, OneCardStep
<1>6. Sched(new) # None /\ Schedule[c] = Sched(card[c]) /\ Abstract!Position(Schedule[c]) = LastPosition(card[c])
  BY <1>2, <1>4, NotNone, ScheduleFacts, PositionFacts
<1>7. Abstract!SetDueDate(c)
  <2>1. Schedule'[c] # None /\ Schedule'[c].due = due /\ due >= Abstract!Today /\ due < Epoch
    BY <1>3, <1>4, <1>5, <1>6 DEF Today, Abstract!Today
  <2>2. Schedule' = [Schedule EXCEPT ![c] = [ctype |-> "Review", due |-> Schedule'[c].due,
                                             pos |-> Abstract!Position(Schedule[c])]]
    BY <1>4, <1>5, <1>6, <2>1
  <2>3. QED
    BY <1>1, <2>1, <2>2, LiveFacts DEF Abstract!SetDueDate
<1>8. QED
  BY <1>1, <1>5, <1>7 DEF AbstractStep, Abstract!Next

LEMMA RescheduleCardsAsNewStep ==
  ASSUME CardInv, NEW c \in Cards, NEW restore \in BOOLEAN, RescheduleCardsAsNew(c, restore)
  PROVE  CardInv' /\ AbstractStep
<1> DEFINE new == ScheduledAsNew(card[c], restore)
<1>1. /\ c \in Live /\ UNCHANGED <<now, exists, reschedule>> /\ card' = [card EXCEPT ![c] = new]
      /\ next_position' \in Nat
  BY DEF RescheduleCardsAsNew, Operation, CardInv, TypeOK
<1>2. Lawful(card[c], exists, reschedule) /\ card[c] # None /\ card[c] \in Card
  BY <1>1, LiveFacts DEF Live, Lawful
<1>3. /\ Lawful(new, exists, reschedule)
      /\ Sched(new).ctype = "New" /\ Sched(new).pos = None
      /\ restore /\ LastPosition(card[c]) # None => Sched(new).due = LastPosition(card[c])
  BY <1>2, ForgottenIsLawful
<1> HIDE DEF new
<1>4. /\ CardInv' /\ Schedule' = [Schedule EXCEPT ![c] = Sched(new)]
      /\ Schedule'[c] = Sched(new)
  BY <1>1, <1>3, OneCardStep
<1>5. Sched(new) # None /\ Schedule[c] = Sched(card[c]) /\ Abstract!Position(Schedule[c]) = LastPosition(card[c])
  BY <1>2, <1>3, NotNone, ScheduleFacts, PositionFacts
<1>6. Sched(new) = [ctype |-> "New", due |-> Sched(new).due, pos |-> None]
  BY <1>3 DEF Sched
<1>7. Abstract!Forget(c, restore)
  BY <1>1, <1>3, <1>4, <1>5, <1>6, LiveFacts DEF Abstract!Forget
<1>8. QED
  BY <1>1, <1>4, <1>7 DEF AbstractStep, Abstract!Next

LEMMA SortCardsStep ==
  ASSUME CardInv, NEW chosen \in SUBSET Live, NEW start \in Positions, NEW shift \in BOOLEAN,
         SortCards(chosen, start, shift)
  PROVE  CardInv' /\ AbstractStep
<1> DEFINE by == Cardinality(chosen)
           notes == {Note[c] : c \in chosen}
<1>1. /\ UNCHANGED <<now, exists, reschedule, next_position>>
      /\ exists \in [Decks -> BOOLEAN] /\ exists[DefaultDeck]
      /\ reschedule \in [Filtered -> BOOLEAN] /\ next_position \in Nat
  BY DEF SortCards, Operation, CardInv, TypeOK
<1>2. PICK order \in Orders(notes) : card' = Sorted(chosen, start, shift, order)
  BY DEF SortCards, NoteOrders
<1>3. IsFiniteSet(chosen) /\ by \in Nat
  BY CardsAssumption, FS_Subset, FS_CardinalityType DEF Live
<1>4. Cardinality(notes) \in Nat
  <2>1. [c \in chosen |-> Note[c]] \in Surjection(chosen, notes)
    BY DEF Surjection
  <2>2. QED
    BY <1>3, <2>1, FS_Surjection, FS_CardinalityType
<1>5. start \in Nat
  BY PositionAssumption
<1>6. \A c \in chosen : start + order[Note[c]] \in Nat
  <2>1. \A c \in chosen : order[Note[c]] \in 0..(Cardinality(notes) - 1)
    BY DEF Orders
  <2>2. QED
    BY <1>4, <1>5, <2>1
<1> HIDE DEF by, notes
<1>7. ASSUME NEW c \in Cards, card[c] # None
      PROVE  Lawful(card'[c], exists, reschedule) /\ Repositioned(Sched(card[c]), Sched(card'[c]))
  <2> DEFINE k == IF shift THEN Shifted(card[c], start, by) ELSE card[c]
  <2>1. Lawful(card[c], exists, reschedule) /\ c \in Live
    BY <1>7, LiveFacts
  <2>2. Lawful(k, exists, reschedule) /\ Repositioned(Sched(card[c]), Sched(k)) /\ k.ctype = card[c].ctype
    BY <1>3, <1>5, <2>1, ShiftedIsLawful DEF Repositioned
  <2>3. CASE c \notin chosen
    <3>1. card'[c] = k
      BY <1>2, <2>1, <2>3 DEF Sorted, by
    <3>2. QED
      BY <2>2, <3>1
  <2>4. CASE c \in chosen
    <3> DEFINE p == start + order[Note[c]]
    <3>1. card'[c] = AtPosition(card[c], p)
      BY <1>2, <2>4 DEF Sorted
    <3>2. p \in Nat
      BY <1>6, <2>4
    <3> HIDE DEF p
    <3>3. QED
      BY <2>1, <3>1, <3>2, PlacedIsLawful
  <2>5. QED
    BY <2>3, <2>4
<1>8. ASSUME NEW c \in Cards, card[c] = None
      PROVE  card'[c] = None
  BY <1>2, <1>8, LiveFacts DEF Sorted
<1>9. LawfulCards
  <2>1. \A c \in Cards : card'[c] # None => card[c] # None /\ Lawful(card'[c], exists', reschedule')
    BY <1>1, <1>7, <1>8
  <2>2. \A c \in Cards : card'[c] \in Card \cup {None}
    BY <2>1 DEF Lawful
  <2>3. card' = [c \in Cards |-> card'[c]]
    BY <1>2 DEF Sorted
  <2>4. QED
    BY <2>1, <2>2, <2>3 DEF LawfulCards
<1>10. CardInv'
  BY <1>1, <1>9, InvariantStep
<1>11. Abstract!Reposition
  <2>1. ASSUME NEW c \in Cards, Schedule'[c] # Schedule[c]
        PROVE  /\ Schedule[c] # None /\ Schedule[c].ctype = "New"
               /\ Schedule'[c] # None
               /\ Schedule'[c] = [Schedule[c] EXCEPT !.due = Schedule'[c].due]
    <3>1. card[c] # None
      BY <1>8, <2>1, ScheduleFacts
    <3>2. Lawful(card[c], exists, reschedule) /\ Lawful(card'[c], exists, reschedule) /\ Repositioned(Sched(card[c]), Sched(card'[c]))
      BY <1>7, <3>1, LiveFacts
    <3>3. /\ Schedule[c] = Sched(card[c]) /\ Schedule'[c] = Sched(card'[c])
          /\ Schedule[c] # None /\ Schedule'[c] # None
      BY <3>1, <3>2, NotNone, ScheduleFacts
    <3>4. QED
      BY <2>1, <3>2, <3>3 DEF Repositioned
  <2>2. QED
    BY <1>1, <2>1 DEF Abstract!Reposition
<1>12. QED
  BY <1>1, <1>10, <1>11 DEF AbstractStep, Abstract!Next

LEMMA SetDeckStep ==
  ASSUME CardInv, NEW c \in Cards, NEW d \in Normal, SetDeck(c, d)
  PROVE  CardInv' /\ AbstractStep
<1> DEFINE home == RemovedRestoringQueue(card[c])
           new == [home EXCEPT !.did = d]
<1>1. /\ c \in Live /\ UNCHANGED <<now, exists, reschedule, next_position>> /\ card' = [card EXCEPT ![c] = new]
      /\ next_position \in Nat /\ exists[d]
  BY DEF SetDeck, Operation, CardInv, TypeOK
<1>2. Lawful(card[c], exists, reschedule) /\ card[c] # None
  BY <1>1, LiveFacts DEF Live
<1>3. Lawful(home, exists, reschedule) /\ ~IsFiltered(home) /\ SameOrLost(Sched(card[c]), Sched(home))
  BY <1>2, RemovedIsLawful
<1> HIDE DEF home
<1>4. new \in Card
  BY <1>3 DEF Lawful, Card, Decks
<1>5. /\ new.did = d /\ new.odid = home.odid /\ new.odue = home.odue /\ new.due = home.due
      /\ new.ctype = home.ctype /\ new.opos = home.opos /\ new.queue = home.queue
  BY <1>3 DEF Lawful, Card
<1> HIDE DEF new
<1>6. /\ ~IsFiltered(new) /\ OriginalOrCurrentDue(new) = OriginalOrCurrentDue(home)
      /\ RestoredQueue(new) = RestoredQueue(home)
  BY <1>3, <1>5 DEF IsFiltered, OriginalOrCurrentDue, RestoredQueue
<1>7. Lawful(new, exists, reschedule) /\ Sched(new) = Sched(home)
  BY <1>1, <1>3, <1>4, <1>5, <1>6, DeckAssumption DEF Lawful, Sched
<1>8. QED
  BY <1>1, <1>3, <1>7, OneKeptStep

LEMMA RemoveDecksStep ==
  ASSUME CardInv, NEW d \in Decks, RemoveDecks(d)
  PROVE  CardInv' /\ AbstractStep
<1> DEFINE removed == {d} \cup (IF d \in Normal THEN Children[d] ELSE {})
           Deleted(k) == \E e \in removed \cap Normal : InSingleDeck(k, e)
           Lent(k) == \E e \in removed \cap Filtered : InSingleDeck(k, e)
<1>1. /\ UNCHANGED <<now, reschedule, next_position>>
      /\ card' = [c \in Cards |->
           IF c \notin Live \/ Deleted(card[c]) THEN None
           ELSE IF Lent(card[c]) THEN RemovedRestoringQueue(card[c]) ELSE card[c]]
      /\ exists' = [e \in Decks |-> exists[e] /\ (e \in removed => e = DefaultDeck)]
  BY DEF RemoveDecks, Operation
<1>2. /\ exists \in [Decks -> BOOLEAN] /\ exists[DefaultDeck] /\ DefaultDeck \in Decks
      /\ reschedule \in [Filtered -> BOOLEAN] /\ next_position \in Nat
  BY DeckAssumption DEF CardInv, TypeOK, Decks
<1>3. exists' \in [Decks -> BOOLEAN] /\ exists'[DefaultDeck]
  <2>1. \A e \in Decks : (exists[e] /\ (e \in removed => e = DefaultDeck)) \in BOOLEAN
    OBVIOUS
  <2>2. exists' \in [Decks -> BOOLEAN]
    BY <1>1, <2>1, ZenonT(20)
  <2>3. exists'[DefaultDeck]
    BY <1>1, <1>2, ZenonT(20)
  <2>4. QED
    BY <2>2, <2>3
<1>4. \A e \in Decks : exists[e] /\ e \notin removed => exists'[e]
  BY <1>1, ZenonT(20)
<1> HIDE DEF removed
<1>5. ASSUME NEW c \in Cards
      PROVE  \/ card'[c] = None
             \/ /\ card[c] # None /\ Lawful(card'[c], exists', reschedule')
                /\ SameOrLost(Sched(card[c]), Sched(card'[c]))
  <2> DEFINE k == card[c]
  <2>1. CASE k = None \/ Deleted(k)
    BY <1>1, <2>1 DEF Live
  <2>2. CASE k # None /\ ~Deleted(k)
    <3>1. Lawful(k, exists, reschedule) /\ c \in Live
      BY <2>2, LiveFacts
    <3>2. card'[c] = IF Lent(k) THEN RemovedRestoringQueue(k) ELSE k
      BY <1>1, <2>2, <3>1
    <3> HIDE DEF k
    <3>3. \A e \in Normal : k.did = e \/ k.odid = e => e \notin removed
      BY <2>2 DEF InSingleDeck
    <3>4. k.did \in Decks /\ (IsFiltered(k) => k.odid \in Normal /\ exists[k.odid])
      BY <3>1 DEF Lawful, Card
    <3>5. CASE Lent(k)
      <4> DEFINE home == RemovedRestoringQueue(k)
      <4>1. /\ Lawful(home, exists, reschedule) /\ ~IsFiltered(home) /\ SameOrLost(Sched(k), Sched(home))
            /\ home.did = IF IsFiltered(k) THEN k.odid ELSE k.did
        BY <3>1, RemovedIsLawful
      <4>2. IsFiltered(k)
        BY <3>1, <3>5, DeckAssumption DEF InSingleDeck, Lawful, IsFiltered, Decks
      <4> HIDE DEF home
      <4>3. home.did \in Decks /\ exists'[home.did]
        BY <1>4, <3>3, <3>4, <4>1, <4>2 DEF Decks
      <4>4. Lawful(home, exists', reschedule')
        BY <1>1, <4>1, <4>3 DEF Lawful
      <4>5. QED
        BY <2>2, <3>2, <3>5, <4>1, <4>4 DEF home, k
    <3>6. CASE ~Lent(k)
      <4>1. k.did \notin removed /\ (IsFiltered(k) => exists'[k.odid])
        BY <1>4, <3>3, <3>4, <3>6 DEF InSingleDeck, Decks
      <4>2. exists'[k.did]
        BY <1>4, <3>1, <3>4, <4>1 DEF Lawful
      <4>3. Lawful(k, exists', reschedule')
        BY <1>1, <3>1, <4>1, <4>2 DEF Lawful
      <4>4. QED
        BY <2>2, <3>2, <3>6, <4>3 DEF k, SameOrLost
    <3>7. QED
      BY <3>5, <3>6
  <2>3. QED
    BY <2>1, <2>2
<1>6. LawfulCards
  <2>1. \A c \in Cards : card'[c] \in Card \cup {None}
    BY <1>5 DEF Lawful
  <2>2. card' = [c \in Cards |-> card'[c]]
    BY <1>1
  <2>3. card' \in [Cards -> Card \cup {None}]
    BY <2>1, <2>2
  <2>4. QED
    BY <1>5, <2>3 DEF LawfulCards
<1>7. CardInv'
  BY <1>1, <1>2, <1>3, <1>6, InvariantStep
<1>8. ASSUME NEW c \in Cards
      PROVE  Schedule'[c] \in {Schedule[c], None} \/ Abstract!LosesZeroDue(c)
  <2>1. CASE card'[c] = None
    BY <2>1, ScheduleFacts
  <2>2. CASE card'[c] # None
    <3>1. /\ card[c] # None /\ Lawful(card[c], exists, reschedule) /\ Lawful(card'[c], exists', reschedule')
          /\ SameOrLost(Sched(card[c]), Sched(card'[c]))
      BY <1>5, <2>2, LiveFacts
    <3>2. /\ Schedule[c] = Sched(card[c]) /\ Schedule'[c] = Sched(card'[c])
          /\ Schedule[c] # None /\ Schedule'[c] # None
      BY <2>2, <3>1, NotNone, ScheduleFacts
    <3>3. QED
      BY <3>1, <3>2 DEF SameOrLost, Loses, Abstract!LosesZeroDue
  <2>3. QED
    BY <2>1, <2>2
<1>9. Abstract!Remove
  BY <1>1, <1>8 DEF Abstract!Remove
<1>10. QED
  BY <1>7, <1>9 DEF AbstractStep, Abstract!Next

LEMMA TickStep == ASSUME CardInv, Tick PROVE CardInv' /\ AbstractStep
<1>1. /\ now' \in Times /\ now' > now /\ UNCHANGED <<card, exists, reschedule, next_position>>
      /\ now \in Nat /\ Epoch \in Nat /\ now' \in Nat
  BY DayFacts, TimeAssumption DEF Tick
<1>2. TypeOK'
  BY <1>1 DEF CardInv, TypeOK
<1>3. (\A c \in Live : Lawful(card[c], exists, reschedule))'
  BY <1>1 DEF CardInv, Live, Lawful, IsFiltered, OriginalOrCurrentDue, RestoredQueue
<1>4. CardInv'
  BY <1>1, <1>2, <1>3 DEF CardInv
<1>5. Schedule' = Schedule
  BY <1>1, ScheduleFacts
<1>6. Abstract!Tick
  BY <1>1, <1>5 DEF Abstract!Tick
<1>7. QED
  BY <1>4, <1>6 DEF AbstractStep, Abstract!Next

-----------------------------------------------------------------------------
(* The theorems.                                                              *)

LEMMA NextStep ==
  ASSUME CardInv, [Next]_vars
  PROVE  CardInv' /\ AbstractStep
<1>1. CASE UNCHANGED vars
  <2>1. TypeOK' /\ now' >= Epoch
    BY <1>1 DEF CardInv, TypeOK, vars
  <2>2. (\A c \in Live : Lawful(card[c], exists, reschedule))'
    BY <1>1 DEF vars, CardInv, Live, Lawful, IsFiltered, OriginalOrCurrentDue, RestoredQueue
  <2>3. Schedule' = Schedule
    BY <1>1, ScheduleFacts DEF vars
  <2>4. QED
    BY <1>1, <2>1, <2>2, <2>3 DEF CardInv, AbstractStep, vars
<1>2. CASE Tick
  BY <1>2, TickStep
<1>3. CASE UnburyAll
  BY <1>3, UnburyAllStep
<1>4. CASE \E f \in Filtered :
             \/ RebuildFilteredDeck(f) \/ EmptyFilteredDeck(f)
             \/ \E resched \in BOOLEAN : AddOrUpdateFilteredDeck(f, resched)
  BY <1>4, RebuildStep, EmptyStep, AddOrUpdateStep
<1>5. ASSUME NEW c \in Cards, AnswerCard(c)
      PROVE  CardInv' /\ AbstractStep
  BY <1>5, AnswerStep
<1>6. ASSUME NEW c \in Cards, \E queue \in BuriedOrSuspended : BuryOrSuspend(c, queue)
      PROVE  CardInv' /\ AbstractStep
  BY <1>6, BuryOrSuspendStep
<1>7. ASSUME NEW c \in Cards, UnburyOrUnsuspend(c)
      PROVE  CardInv' /\ AbstractStep
  BY <1>7, UnburyOrUnsuspendStep
<1>8. ASSUME NEW c \in Cards, \E days \in {0} \cup Intervals : SetDueDate(c, days)
      PROVE  CardInv' /\ AbstractStep
  BY <1>8, SetDueDateStep
<1>9. ASSUME NEW c \in Cards, \E restore \in BOOLEAN : RescheduleCardsAsNew(c, restore)
      PROVE  CardInv' /\ AbstractStep
  BY <1>9, RescheduleCardsAsNewStep
<1>10. ASSUME NEW c \in Cards, \E d \in Normal : SetDeck(c, d)
       PROVE  CardInv' /\ AbstractStep
  BY <1>10, SetDeckStep
<1>11. CASE \E chosen \in SUBSET Live, start \in Positions, shift \in BOOLEAN :
              SortCards(chosen, start, shift)
  BY <1>11, SortCardsStep
<1>12. CASE \E d \in Decks : RemoveDecks(d)
  BY <1>12, RemoveDecksStep
<1>13. QED
  BY <1>1, <1>2, <1>3, <1>4, <1>5, <1>6, <1>7, <1>8, <1>9, <1>10, <1>11, <1>12 DEF Next

\* The inductive invariant holds in every reachable state.
LEMMA CardInvariant == Spec => []CardInv
<1>1. Init => CardInv
  BY InitInv
<1>2. CardInv /\ [Next]_vars => CardInv'
  BY NextStep
<1>3. QED
  BY <1>1, <1>2, PTL DEF Spec

\* Every variable keeps its type: cards stay cards, in decks there may be.
THEOREM CardTypes == Spec => []TypeOK
<1>1. CardInv => TypeOK
  BY DEF CardInv
<1>2. QED
  BY <1>1, CardInvariant, PTL

\* No sequence of rebuilds, answers, moves, burials, repositionings and removals of
\* decks loses the way home of a card that is lent to a filtered deck.
THEOREM LentCardsReturn == Spec => []LentCardsHaveAHome
<1>1. CardInv => LentCardsHaveAHome
  BY DEF CardInv, Lawful, LentCardsHaveAHome
<1>2. QED
  BY <1>1, CardInvariant, PTL

\* Outside filtered decks a card is in the queue of its type and due date, whatever
\* was done with it before.
THEOREM QueuesMatchDueDates == Spec => []QueueMatchesDue
<1>1. CardInv => QueueMatchesDue
  BY DEF CardInv, Lawful, QueueMatchesDue, OriginalOrCurrentDue
<1>2. QED
  BY <1>1, CardInvariant, PTL

\* Answers, due dates, forgetting, repositioning and removals change the schedule of
\* a card as CardSchedule allows; burying, suspending, moving cards between decks,
\* filtered decks and previews change nothing of it, except that a card lent with a
\* due of 0 may come home with another due.
THEOREM SchedulingImplementsSchedule == Spec => ImplementsSchedule
<1>1. Init => Abstract!Init
  BY InitInv
<1>2. CardInv /\ [Next]_vars => [Abstract!Next]_<<now, Schedule>>
  BY NextStep DEF AbstractStep
<1>3. QED
  BY <1>1, <1>2, CardInvariant, PTL DEF Spec, ImplementsSchedule, Abstract!Spec
=============================================================================

----------------------------- MODULE MCStudyQueues -----------------------------
(* Instances of StudyQueues: two siblings and one card of another note. *)
EXTENDS StudyQueues

MCNote == <<1, 1, 2>>
Fresh(queue, ctype, reps, preview) ==
  [queue |-> queue, ctype |-> ctype, due |-> 0, mtime |-> 0, reps |-> reps, preview |-> preview]
NewCard == Fresh("New", "New", 0, FALSE)
ReviewCard == Fresh("Review", "Review", 1, FALSE)
DayLearnCard == Fresh("DayLearn", "Learn", 1, FALSE)
LearnCard == [Fresh("Learn", "Learn", 1, FALSE) EXCEPT !.due = Epoch + 1]
\* A new card in a filtered deck that does not reschedule.
PreviewNew == Fresh("Review", "New", 0, TRUE)

Mode(d, r, n) == [daylearn |-> d, review |-> r, new |-> n]
BuryNew == Mode(FALSE, FALSE, TRUE)
BuryAll == Mode(TRUE, TRUE, TRUE)
BuryReviews == Mode(FALSE, TRUE, FALSE)
Start(table, mode) == [cards |-> table, bury |-> mode]

\* Burying modes in which a queue is buried only if those gathered after it are.
MCStarts ==
  {Start(<<DayLearnCard, NewCard, PreviewNew>>, BuryNew),
   Start(<<NewCard, NewCard, LearnCard>>, BuryAll)}
\* Reviews are buried, the new cards gathered after them are not.
MCReviewStarts == {Start(<<ReviewCard, NewCard, NewCard>>, BuryReviews)}
================================================================================

-------------------------- MODULE StudyQueuesProofs --------------------------
(***************************************************************************)
(* The cached study queues stay in step with their counts, with the cards  *)
(* and with what is recorded for the undo of answers, for any cards, notes,*)
(* delays, clock and number of operations.                                 *)
(*                                                                         *)
(* The argument: every edit of the queues keeps Agree (counts that match   *)
(* and one entry for a card), the undo of an answer leads from the queues  *)
(* it left back to those it found (UndoneIs) and its redo forth (RedoneIs).*)
(* Of all recorded steps those of the queues that are there form a chain   *)
(* (Chain) from these queues back to the first answer given on them, and   *)
(* another one forth through what was undone: QueuesInv.                   *)
(*                                                                         *)
(* FreshInv adds that an answer writes no other card that waits, which     *)
(* needs a gathering that left out the siblings it buries (Hierarchical);  *)
(* RowsRegular and CalmInv add that a card whose entry is gone, and its    *)
(* row in a recorded step, does not wait for the learning queue.           *)
(***************************************************************************)
EXTENDS StudyQueues, FiniteSetTheorems, SequenceTheorems, WellFoundedInduction, TLAPS

(***************************************************************************)
(* Sequences and finite sets                                               *)
(***************************************************************************)

Smaller == {p \in Nat \X Nat : p[1] < p[2]}

\* The order of the naturals has no infinite descent.
LEMMA SmallerIsWellFounded == IsWellFoundedOn(Smaller, Nat)
<1>1. Smaller = OpToRel(<, Nat)
  BY DEF Smaller, OpToRel
<1>2. QED
  BY <1>1, NatLessThanWellFounded

\* A set of numbers that is not empty has a least one.
LEMMA MinIs ==
  ASSUME NEW S \in SUBSET Nat, S # {}
  PROVE  Min(S) \in S /\ \A n \in S : Min(S) <= n
<1>1. PICK m \in S : \A n \in S : ~ (<<n, m>> \in Smaller)
  BY SmallerIsWellFounded, WFMin
<1>2. ASSUME NEW n \in S PROVE m <= n
  <2>1. m \in Nat /\ n \in Nat /\ ~ (<<n, m>> \in Smaller)
    BY <1>1
  <2>2. ~ (n < m)
    BY <2>1 DEF Smaller
  <2>3. QED
    BY <2>1, <2>2
<1>3. QED
  BY <1>2 DEF Min

LEMMA MinOfTwo ==
  ASSUME NEW m \in Nat, NEW n \in Nat
  PROVE  Min({m, n}) = IF m <= n THEN m ELSE n
<1>1. Min({m, n}) \in {m, n} /\ \A k \in {m, n} : Min({m, n}) <= k
  BY MinIs
<1>2. QED
  BY <1>1

\* What a sequence is made of.
LEMMA SeqFacts ==
  ASSUME NEW S, NEW s \in Seq(S)
  PROVE  /\ Len(s) \in Nat /\ DOMAIN s = 1..Len(s) /\ s \in [1..Len(s) -> S]
         /\ \A i \in 1..Len(s) : s[i] \in S /\ s[i] \in ToSet(s)
         /\ \A x \in ToSet(s) : \E i \in 1..Len(s) : s[i] = x
         /\ ToSet(s) \subseteq S
         /\ s = <<>> <=> Len(s) = 0
         /\ s # <<>> => Head(s) = s[1] /\ 1 \in 1..Len(s)
  BY LenProperties, EmptySeq DEF ToSet

LEMMA ToSetFinite ==
  ASSUME NEW S, NEW s \in Seq(S)
  PROVE  IsFiniteSet(ToSet(s))
<1>1. s \in Surjection(1..Len(s), ToSet(s))
  BY SeqFacts DEF Surjection
<1>2. IsFiniteSet(1..Len(s))
  BY SeqFacts, FS_Interval
<1>3. QED
  BY <1>1, <1>2, FS_Surjection

\* The elements of a sequence without its head.
LEMMA TailSet ==
  ASSUME NEW S, NEW s \in Seq(S), s # <<>>
  PROVE  /\ Tail(s) \in Seq(S) /\ Head(s) \in S /\ Head(s) \in ToSet(s)
         /\ ToSet(s) = {Head(s)} \cup ToSet(Tail(s))
         /\ Distinct(s) => /\ Distinct(Tail(s))
                           /\ \A e \in ToSet(Tail(s)) : e.id # Head(s).id
<1>1. /\ Tail(s) \in Seq(S) /\ Head(s) \in S /\ Head(s) = s[1] /\ Len(s) \in Nat /\ Len(s) > 0
      /\ Len(Tail(s)) = Len(s) - 1
      /\ \A i \in 1..Len(Tail(s)) : Tail(s)[i] = s[i + 1]
  BY HeadTailProperties, SeqFacts
<1>2. DOMAIN s = 1..Len(s) /\ DOMAIN Tail(s) = 1..(Len(s) - 1)
  BY <1>1, SeqFacts
<1>3. \A i \in 2..Len(s) : s[i] = Tail(s)[i - 1] /\ i - 1 \in DOMAIN Tail(s)
  BY <1>1, <1>2
<1>4. ToSet(s) \subseteq {Head(s)} \cup ToSet(Tail(s))
  <2>1. ASSUME NEW i \in 1..Len(s) PROVE s[i] \in {Head(s)} \cup ToSet(Tail(s))
    <3>1. CASE i = 1
      BY <1>1, <3>1
    <3>2. CASE i # 1
      <4>1. i \in 2..Len(s)
        BY <1>1, <3>2
      <4>2. QED
        BY <1>3, <4>1 DEF ToSet
    <3>3. QED
      BY <3>1, <3>2
  <2>2. QED
    BY <1>2, <2>1 DEF ToSet
<1>5. {Head(s)} \cup ToSet(Tail(s)) \subseteq ToSet(s)
  BY <1>1, <1>2 DEF ToSet
<1>6. ASSUME Distinct(s)
      PROVE  Distinct(Tail(s)) /\ \A e \in ToSet(Tail(s)) : e.id # Head(s).id
  <2>1. Distinct(Tail(s))
    BY <1>1, <1>2, <1>6 DEF Distinct
  <2>2. ASSUME NEW i \in DOMAIN Tail(s) PROVE Tail(s)[i].id # Head(s).id
    <3>1. i + 1 \in DOMAIN s /\ 1 \in DOMAIN s /\ Tail(s)[i] = s[i + 1] /\ i + 1 # 1
      BY <1>1, <1>2
    <3>2. QED
      BY <1>1, <1>6, <3>1 DEF Distinct
  <2>3. QED
    BY <2>1, <2>2 DEF ToSet
<1>7. QED
  BY <1>1, <1>4, <1>5, <1>6

\* The elements of a sequence with a new head.
LEMMA ConsSet ==
  ASSUME NEW S, NEW s \in Seq(S), NEW e \in S
  PROVE  /\ <<e>> \o s \in Seq(S) /\ <<e>> \o s # <<>>
         /\ Len(<<e>> \o s) = Len(s) + 1
         /\ (<<e>> \o s)[1] = e
         /\ \A i \in 1..Len(s) : (<<e>> \o s)[i + 1] = s[i]
         /\ Head(<<e>> \o s) = e /\ Tail(<<e>> \o s) = s
         /\ ToSet(<<e>> \o s) = {e} \cup ToSet(s)
         /\ Distinct(s) /\ (\A f \in ToSet(s) : f.id # e.id) => Distinct(<<e>> \o s)
<1> DEFINE t == <<e>> \o s
<1>1. <<e>> \in Seq(S) /\ Len(<<e>>) = 1 /\ <<e>>[1] = e
  OBVIOUS
<1>2. /\ t \in Seq(S) /\ Len(t) = 1 + Len(s)
      /\ \A i \in 1..(1 + Len(s)) : t[i] = IF i <= 1 THEN <<e>>[i] ELSE s[i - 1]
  BY <1>1, ConcatProperties
<1>3. Len(s) \in Nat /\ DOMAIN s = 1..Len(s) /\ DOMAIN t = 1..(1 + Len(s))
  BY <1>2, SeqFacts
<1> HIDE DEF t
<1>4. t[1] = e /\ \A i \in 1..Len(s) : t[i + 1] = s[i]
  BY <1>1, <1>2, <1>3
<1>5. t # <<>> /\ Head(t) = e
  BY <1>2, <1>3, <1>4, SeqFacts
<1>6. Tail(t) = s
  <2>1. /\ Tail(t) \in Seq(S) /\ Len(Tail(t)) = Len(t) - 1
        /\ \A i \in 1..Len(Tail(t)) : Tail(t)[i] = t[i + 1]
    BY <1>2, <1>5, HeadTailProperties
  <2>2. Len(Tail(t)) = Len(s)
    BY <1>2, <1>3, <2>1
  <2>3. \A i \in 1..Len(Tail(t)) : Tail(t)[i] = s[i]
    BY <1>4, <2>1, <2>2
  <2>4. QED
    BY <2>1, <2>2, <2>3, SeqEqual
<1>7. ToSet(t) = {e} \cup ToSet(s)
  <2>1. ToSet(t) \subseteq {e} \cup ToSet(s)
    <3>1. ASSUME NEW i \in 1..(1 + Len(s)) PROVE t[i] = e \/ t[i] \in ToSet(s)
      <4>1. CASE i = 1
        BY <1>4, <4>1
      <4>2. CASE i # 1
        <5>1. i - 1 \in 1..Len(s) /\ (i - 1) + 1 = i
          BY <1>3, <4>2
        <5>2. t[i] = s[i - 1]
          BY <1>4, <5>1
        <5>3. QED
          BY <1>3, <5>1, <5>2 DEF ToSet
      <4>3. QED
        BY <4>1, <4>2
    <3>2. QED
      BY <1>3, <3>1 DEF ToSet
  <2>2. {e} \cup ToSet(s) \subseteq ToSet(t)
    BY <1>3, <1>4 DEF ToSet
  <2>3. QED
    BY <2>1, <2>2
<1>8. ASSUME Distinct(s), \A f \in ToSet(s) : f.id # e.id
      PROVE  Distinct(t)
  <2>1. ASSUME NEW i \in 1..(1 + Len(s)), NEW j \in 1..(1 + Len(s)), t[i].id = t[j].id
        PROVE  i = j
    <3>1. ASSUME NEW k \in 1..(1 + Len(s))
          PROVE  \/ k = 1 /\ t[k] = e
                 \/ k - 1 \in DOMAIN s /\ t[k] = s[k - 1] /\ t[k] \in ToSet(s)
      <4>1. CASE k = 1
        <5>1. t[k] = e
          BY <1>4, <4>1
        <5>2. QED
          BY <4>1, <5>1
      <4>2. CASE k # 1
        <5>1. k - 1 \in 1..Len(s) /\ (k - 1) + 1 = k
          BY <1>3, <4>2
        <5>2. t[k] = s[k - 1]
          BY <1>4, <5>1
        <5>3. QED
          BY <1>3, <5>1, <5>2 DEF ToSet
      <4>3. QED
        BY <4>1, <4>2
    <3>2. \A f \in ToSet(s) : f.id # e.id
      BY <1>8
    <3>3. \A k, l \in DOMAIN s : s[k].id = s[l].id => k = l
      BY <1>8 DEF Distinct
    <3>4. CASE i = 1
      BY <1>3, <1>4, <2>1, <3>1, <3>2, <3>4
    <3>5. CASE j = 1
      BY <1>3, <1>4, <2>1, <3>1, <3>2, <3>5
    <3>6. CASE i # 1 /\ j # 1
      <4>1. i - 1 \in DOMAIN s /\ t[i] = s[i - 1] /\ j - 1 \in DOMAIN s /\ t[j] = s[j - 1]
        BY <3>1, <3>6
      <4>2. i - 1 = j - 1
        BY <2>1, <3>3, <4>1
      <4>3. QED
        BY <1>3, <4>2
    <3>7. QED
      BY <3>4, <3>5, <3>6
  <2>2. QED
    BY <1>3, <2>1 DEF Distinct
<1>9. QED
  BY <1>2, <1>3, <1>4, <1>5, <1>6, <1>7, <1>8 DEF t

\* The elements of a sequence with one put in at a place.
LEMMA InsertSet ==
  ASSUME NEW S, NEW s \in Seq(S), NEW e \in S, NEW p \in 1..(Len(s) + 1)
  PROVE  /\ InsertAt(s, p, e) \in Seq(S)
         /\ ToSet(InsertAt(s, p, e)) = {e} \cup ToSet(s)
         /\ Distinct(s) /\ (\A f \in ToSet(s) : f.id # e.id) => Distinct(InsertAt(s, p, e))
<1> DEFINE a == SubSeq(s, 1, p - 1)
           b == SubSeq(s, p, Len(s))
           c == a \o <<e>>
           t == c \o b
<1>1. Len(s) \in Nat /\ DOMAIN s = 1..Len(s) /\ p \in Nat /\ \A i \in 1..Len(s) : s[i] \in S
  BY SeqFacts
<1>2. a \in Seq(S) /\ Len(a) = p - 1 /\ \A i \in 1..(p - 1) : a[i] = s[i]
  <2>1. \A i \in 1..(p - 1) : s[i] \in S
    BY <1>1
  <2>2. /\ a \in Seq(S) /\ Len(a) = IF 1 <= p - 1 THEN (p - 1) - 1 + 1 ELSE 0
        /\ \A i \in 1..((p - 1) - 1 + 1) : a[i] = s[1 + i - 1]
    BY <1>1, <2>1, SubSeqProperties
  <2>3. QED
    BY <1>1, <2>2
<1>3. b \in Seq(S) /\ Len(b) = Len(s) - p + 1 /\ \A i \in 1..(Len(s) - p + 1) : b[i] = s[p + i - 1]
  <2>1. \A i \in p..Len(s) : s[i] \in S
    BY <1>1
  <2>2. /\ b \in Seq(S) /\ Len(b) = IF p <= Len(s) THEN Len(s) - p + 1 ELSE 0
        /\ \A i \in 1..(Len(s) - p + 1) : b[i] = s[p + i - 1]
    BY <1>1, <2>1, SubSeqProperties
  <2>3. QED
    BY <1>1, <2>2
<1> HIDE DEF a, b
<1>4. <<e>> \in Seq(S) /\ Len(<<e>>) = 1 /\ <<e>>[1] = e
  OBVIOUS
<1>5. /\ c \in Seq(S) /\ Len(c) = p
      /\ \A i \in 1..p : c[i] = IF i < p THEN s[i] ELSE e
  <2>1. /\ c \in Seq(S) /\ Len(c) = Len(a) + 1
        /\ \A i \in 1..(Len(a) + 1) : c[i] = IF i <= Len(a) THEN a[i] ELSE <<e>>[i - Len(a)]
    BY <1>2, <1>4, ConcatProperties
  <2>2. ASSUME NEW i \in 1..p PROVE c[i] = IF i < p THEN s[i] ELSE e
    <3>1. CASE i < p
      <4>1. i \in 1..(p - 1) /\ i <= Len(a) /\ i \in 1..(Len(a) + 1)
        BY <1>1, <1>2, <3>1
      <4>2. QED
        BY <1>2, <2>1, <3>1, <4>1
    <3>2. CASE i = p
      <4>1. ~ (i <= Len(a)) /\ i \in 1..(Len(a) + 1) /\ i - Len(a) = 1 /\ ~ (i < p)
        BY <1>1, <1>2, <3>2
      <4>2. c[i] = <<e>>[1]
        BY <2>1, <4>1
      <4>3. QED
        BY <1>4, <4>1, <4>2
    <3>3. i < p \/ i = p
      BY <1>1
    <3>4. QED
      BY <3>1, <3>2, <3>3
  <2>3. Len(a) + 1 = p
    BY <1>1, <1>2
  <2>4. QED
    BY <2>1, <2>2, <2>3
<1> HIDE DEF c
<1>6. /\ t \in Seq(S) /\ Len(t) = Len(s) + 1
      /\ \A i \in 1..(Len(s) + 1) : t[i] = IF i < p THEN s[i] ELSE IF i = p THEN e ELSE s[i - 1]
  <2>1. /\ t \in Seq(S) /\ Len(t) = p + Len(b)
        /\ \A i \in 1..(p + Len(b)) : t[i] = IF i <= p THEN c[i] ELSE b[i - p]
    BY <1>3, <1>5, ConcatProperties
  <2>2. p + Len(b) = Len(s) + 1
    BY <1>1, <1>3
  <2>3. ASSUME NEW i \in 1..(Len(s) + 1)
        PROVE  t[i] = IF i < p THEN s[i] ELSE IF i = p THEN e ELSE s[i - 1]
    <3>1. CASE i <= p
      <4>1. i \in 1..p /\ (i < p \/ i = p)
        BY <1>1, <3>1
      <4>2. t[i] = c[i]
        BY <2>1, <2>2, <3>1
      <4>3. QED
        BY <1>5, <4>1, <4>2
    <3>2. CASE ~ (i <= p)
      <4>1. i - p \in 1..(Len(s) - p + 1) /\ p + (i - p) - 1 = i - 1 /\ ~ (i < p) /\ i # p
        BY <1>1, <3>2
      <4>2. t[i] = b[i - p]
        BY <2>1, <2>2, <3>2
      <4>3. b[i - p] = s[p + (i - p) - 1]
        BY <1>3, <4>1
      <4>4. QED
        BY <4>1, <4>2, <4>3
    <3>3. QED
      BY <3>1, <3>2
  <2>4. QED
    BY <2>1, <2>2, <2>3
<1>7. InsertAt(s, p, e) = t
  BY DEF InsertAt, a, b, c
<1> HIDE DEF t
<1>8. DOMAIN t = 1..(Len(s) + 1)
  BY <1>6, SeqFacts
<1>9. \A i \in 1..Len(s) : \E j \in 1..(Len(s) + 1) : t[j] = s[i]
  <2>1. ASSUME NEW i \in 1..Len(s) PROVE \E j \in 1..(Len(s) + 1) : t[j] = s[i]
    <3>1. CASE i < p
      <4>1. i \in 1..(Len(s) + 1) /\ t[i] = s[i]
        BY <1>1, <1>6, <3>1
      <4>2. QED
        BY <4>1
    <3>2. CASE ~ (i < p)
      <4>1. i + 1 \in 1..(Len(s) + 1) /\ ~ (i + 1 < p) /\ i + 1 # p /\ (i + 1) - 1 = i
        BY <1>1, <3>2
      <4>2. t[i + 1] = s[i]
        BY <1>6, <4>1
      <4>3. QED
        BY <4>1, <4>2
    <3>3. QED
      BY <3>1, <3>2
  <2>2. QED
    BY <2>1
<1>10. ASSUME NEW k \in 1..(Len(s) + 1)
       PROVE  \/ k = p /\ t[k] = e
              \/ k < p /\ k \in 1..Len(s) /\ t[k] = s[k]
              \/ k > p /\ k - 1 \in 1..Len(s) /\ t[k] = s[k - 1]
  <2>1. CASE k < p
    BY <1>1, <1>6, <2>1
  <2>2. CASE k = p
    <3>1. ~ (k < p)
      BY <1>1, <2>2
    <3>2. t[k] = e
      BY <1>6, <2>2, <3>1
    <3>3. QED
      BY <2>2, <3>2
  <2>3. CASE k > p
    <3>1. ~ (k < p) /\ k # p /\ k - 1 \in 1..Len(s)
      BY <1>1, <2>3
    <3>2. t[k] = s[k - 1]
      BY <1>6, <3>1
    <3>3. QED
      BY <2>3, <3>1, <3>2
  <2>4. QED
    BY <1>1, <2>1, <2>2, <2>3
<1>11. ToSet(t) = {e} \cup ToSet(s)
  <2>1. ToSet(t) \subseteq {e} \cup ToSet(s)
    <3>1. ASSUME NEW k \in 1..(Len(s) + 1) PROVE t[k] \in {e} \cup ToSet(s)
      BY <1>10, <1>1 DEF ToSet
    <3>2. QED
      BY <1>8, <3>1 DEF ToSet
  <2>2. e \in ToSet(t)
    <3>1. t[p] = e /\ p \in 1..(Len(s) + 1)
      BY <1>10, <1>1
    <3>2. QED
      BY <1>8, <3>1 DEF ToSet
  <2>3. ToSet(s) \subseteq ToSet(t)
    BY <1>1, <1>8, <1>9 DEF ToSet
  <2>4. QED
    BY <2>1, <2>2, <2>3
<1>12. ASSUME Distinct(s), \A f \in ToSet(s) : f.id # e.id
       PROVE  Distinct(t)
  <2>1. ASSUME NEW i \in 1..(Len(s) + 1), NEW j \in 1..(Len(s) + 1), t[i].id = t[j].id
        PROVE  i = j
    <3>1. \A k \in 1..Len(s) : s[k].id # e.id
      BY <1>1, <1>12 DEF ToSet
    <3>2. \A k, l \in 1..Len(s) : s[k].id = s[l].id => k = l
      BY <1>1, <1>12 DEF Distinct
    <3>3. CASE i = p
      <4>1. t[i] = e
        BY <1>10, <3>3, <1>1
      <4>2. CASE j = p
        BY <3>3, <4>2
      <4>3. CASE j < p
        <5>1. j \in 1..Len(s) /\ t[j] = s[j]
          BY <1>10, <4>3, <1>1
        <5>2. QED
          BY <2>1, <3>1, <4>1, <5>1
      <4>4. CASE j > p
        <5>1. j - 1 \in 1..Len(s) /\ t[j] = s[j - 1]
          BY <1>10, <4>4, <1>1
        <5>2. QED
          BY <2>1, <3>1, <4>1, <5>1
      <4>5. QED
        BY <1>1, <4>2, <4>3, <4>4
    <3>4. CASE i < p
      <4>1. i \in 1..Len(s) /\ t[i] = s[i]
        BY <1>10, <3>4, <1>1
      <4>2. CASE j = p
        <5>1. t[j] = e
          BY <1>10, <4>2, <1>1
        <5>2. QED
          BY <2>1, <3>1, <4>1, <5>1
      <4>3. CASE j < p
        <5>1. j \in 1..Len(s) /\ t[j] = s[j]
          BY <1>10, <4>3, <1>1
        <5>2. QED
          BY <2>1, <3>2, <4>1, <5>1
      <4>4. CASE j > p
        <5>1. j - 1 \in 1..Len(s) /\ t[j] = s[j - 1]
          BY <1>10, <4>4, <1>1
        <5>2. i = j - 1
          BY <2>1, <3>2, <4>1, <5>1
        <5>3. QED
          BY <1>1, <3>4, <4>4, <5>2
      <4>5. QED
        BY <1>1, <4>2, <4>3, <4>4
    <3>5. CASE i > p
      <4>1. i - 1 \in 1..Len(s) /\ t[i] = s[i - 1]
        BY <1>10, <3>5, <1>1
      <4>2. CASE j = p
        <5>1. t[j] = e
          BY <1>10, <4>2, <1>1
        <5>2. QED
          BY <2>1, <3>1, <4>1, <5>1
      <4>3. CASE j < p
        <5>1. j \in 1..Len(s) /\ t[j] = s[j]
          BY <1>10, <4>3, <1>1
        <5>2. i - 1 = j
          BY <2>1, <3>2, <4>1, <5>1
        <5>3. QED
          BY <1>1, <3>5, <4>3, <5>2
      <4>4. CASE j > p
        <5>1. j - 1 \in 1..Len(s) /\ t[j] = s[j - 1]
          BY <1>10, <4>4, <1>1
        <5>2. i - 1 = j - 1
          BY <2>1, <3>2, <4>1, <5>1
        <5>3. QED
          BY <1>1, <3>5, <4>4, <5>2
      <4>5. QED
        BY <1>1, <4>2, <4>3, <4>4
    <3>6. QED
      BY <1>1, <3>3, <3>4, <3>5
  <2>2. QED
    BY <1>8, <2>1 DEF Distinct
<1>13. QED
  BY <1>6, <1>7, <1>11, <1>12

\* The elements of a sequence without the one at a place.
LEMMA RemoveSet ==
  ASSUME NEW S, NEW s \in Seq(S), NEW p \in 1..Len(s)
  PROVE  /\ RemoveAt(s, p) \in Seq(S)
         /\ Distinct(s) => /\ ToSet(RemoveAt(s, p)) = ToSet(s) \ {s[p]}
                           /\ Distinct(RemoveAt(s, p))
<1> DEFINE a == SubSeq(s, 1, p - 1)
           b == SubSeq(s, p + 1, Len(s))
           t == a \o b
<1>1. Len(s) \in Nat /\ DOMAIN s = 1..Len(s) /\ p \in Nat /\ \A i \in 1..Len(s) : s[i] \in S
  BY SeqFacts
<1>2. a \in Seq(S) /\ Len(a) = p - 1 /\ \A i \in 1..(p - 1) : a[i] = s[i]
  <2>1. \A i \in 1..(p - 1) : s[i] \in S
    BY <1>1
  <2>2. /\ a \in Seq(S) /\ Len(a) = IF 1 <= p - 1 THEN (p - 1) - 1 + 1 ELSE 0
        /\ \A i \in 1..((p - 1) - 1 + 1) : a[i] = s[1 + i - 1]
    BY <1>1, <2>1, SubSeqProperties
  <2>3. QED
    BY <1>1, <2>2
<1>3. b \in Seq(S) /\ Len(b) = Len(s) - p /\ \A i \in 1..(Len(s) - p) : b[i] = s[p + i]
  <2>1. \A i \in (p + 1)..Len(s) : s[i] \in S
    BY <1>1
  <2>2. /\ b \in Seq(S) /\ Len(b) = IF p + 1 <= Len(s) THEN Len(s) - (p + 1) + 1 ELSE 0
        /\ \A i \in 1..(Len(s) - (p + 1) + 1) : b[i] = s[(p + 1) + i - 1]
    BY <1>1, <2>1, SubSeqProperties
  <2>3. Len(s) - (p + 1) + 1 = Len(s) - p /\ (p + 1 <= Len(s) \/ Len(s) - p = 0)
    <3>1. p <= Len(s)
      BY <1>1
    <3>2. Len(s) \in Nat /\ p \in Nat
      BY <1>1
    <3>3. QED
      BY <3>1, <3>2
  <2>4. ASSUME NEW i \in 1..(Len(s) - p) PROVE b[i] = s[p + i]
    <3>1. (p + 1) + i - 1 = p + i
      BY <1>1
    <3>2. QED
      BY <2>2, <2>3, <3>1
  <2>5. QED
    BY <1>1, <2>2, <2>3, <2>4
<1> HIDE DEF a, b
<1>4. /\ t \in Seq(S) /\ Len(t) = Len(s) - 1
      /\ \A i \in 1..(Len(s) - 1) : t[i] = IF i < p THEN s[i] ELSE s[i + 1]
  <2>1. /\ t \in Seq(S) /\ Len(t) = Len(a) + Len(b)
        /\ \A i \in 1..(Len(a) + Len(b)) : t[i] = IF i <= Len(a) THEN a[i] ELSE b[i - Len(a)]
    BY <1>2, <1>3, ConcatProperties
  <2>2. Len(a) + Len(b) = Len(s) - 1
    BY <1>1, <1>2, <1>3
  <2>3. ASSUME NEW i \in 1..(Len(s) - 1)
        PROVE  t[i] = IF i < p THEN s[i] ELSE s[i + 1]
    <3>1. CASE i < p
      <4>1. i \in 1..(p - 1) /\ i <= Len(a)
        BY <1>1, <1>2, <3>1
      <4>2. t[i] = a[i]
        BY <2>1, <2>2, <4>1
      <4>3. QED
        BY <1>2, <3>1, <4>1, <4>2
    <3>2. CASE ~ (i < p)
      <4>1. i - Len(a) \in 1..(Len(s) - p) /\ p + (i - Len(a)) = i + 1 /\ ~ (i <= Len(a))
        BY <1>1, <1>2, <3>2
      <4>2. t[i] = b[i - Len(a)]
        BY <2>1, <2>2, <4>1
      <4>3. b[i - Len(a)] = s[p + (i - Len(a))]
        BY <1>3, <4>1
      <4>4. QED
        BY <3>2, <4>1, <4>2, <4>3
    <3>3. QED
      BY <3>1, <3>2
  <2>4. QED
    BY <2>1, <2>2, <2>3
<1>5. RemoveAt(s, p) = t
  BY DEF RemoveAt, a, b
<1> HIDE DEF t
<1>6. DOMAIN t = 1..(Len(s) - 1)
  BY <1>1, <1>4, SeqFacts
<1>7. ASSUME NEW k \in 1..(Len(s) - 1)
      PROVE  \/ k < p /\ k \in 1..Len(s) /\ t[k] = s[k]
             \/ k >= p /\ k + 1 \in 1..Len(s) /\ t[k] = s[k + 1]
  <2>1. CASE k < p
    BY <1>1, <1>4, <2>1
  <2>2. CASE ~ (k < p)
    <3>1. k >= p /\ k + 1 \in 1..Len(s)
      BY <1>1, <2>2
    <3>2. t[k] = s[k + 1]
      BY <1>4, <2>2
    <3>3. QED
      BY <3>1, <3>2
  <2>3. QED
    BY <2>1, <2>2
<1>8. ASSUME NEW k \in 1..Len(s), k # p
      PROVE  \E j \in 1..(Len(s) - 1) : t[j] = s[k]
  <2>1. CASE k < p
    <3>1. k \in 1..(Len(s) - 1)
      BY <1>1, <2>1
    <3>2. QED
      BY <1>4, <2>1, <3>1
  <2>2. CASE k > p
    <3>1. k - 1 \in 1..(Len(s) - 1) /\ ~ (k - 1 < p) /\ (k - 1) + 1 = k
      BY <1>1, <2>2
    <3>2. t[k - 1] = s[k]
      BY <1>4, <3>1
    <3>3. QED
      BY <3>1, <3>2
  <2>3. QED
    BY <1>1, <1>8, <2>1, <2>2
<1>9. ASSUME Distinct(s)
      PROVE  ToSet(t) = ToSet(s) \ {s[p]} /\ Distinct(t)
  <2>1. \A k, l \in 1..Len(s) : s[k].id = s[l].id => k = l
    BY <1>1, <1>9 DEF Distinct
  <2>2. ASSUME NEW k \in 1..(Len(s) - 1) PROVE t[k] \in ToSet(s) \ {s[p]}
    <3>1. CASE k < p
      <4>1. k \in 1..Len(s) /\ t[k] = s[k] /\ k # p
        BY <1>1, <1>7, <3>1
      <4>2. s[k] # s[p]
        BY <2>1, <4>1
      <4>3. QED
        BY <1>1, <4>1, <4>2 DEF ToSet
    <3>2. CASE k >= p
      <4>1. k + 1 \in 1..Len(s) /\ t[k] = s[k + 1] /\ k + 1 # p
        BY <1>1, <1>7, <3>2
      <4>2. s[k + 1] # s[p]
        BY <2>1, <4>1
      <4>3. QED
        BY <1>1, <4>1, <4>2 DEF ToSet
    <3>3. QED
      BY <1>1, <3>1, <3>2
  <2>3. ToSet(t) \subseteq ToSet(s) \ {s[p]}
    BY <1>6, <2>2 DEF ToSet
  <2>4. ToSet(s) \ {s[p]} \subseteq ToSet(t)
    <3>1. ASSUME NEW x \in ToSet(s), x # s[p] PROVE x \in ToSet(t)
      <4>1. PICK k \in 1..Len(s) : s[k] = x
        BY SeqFacts
      <4>2. k # p
        BY <3>1, <4>1
      <4>3. PICK j \in 1..(Len(s) - 1) : t[j] = s[k]
        BY <1>8, <4>2
      <4>4. QED
        BY <1>6, <4>1, <4>3 DEF ToSet
    <3>2. QED
      BY <3>1
  <2>5. Distinct(t)
    <3>1. ASSUME NEW i \in 1..(Len(s) - 1), NEW j \in 1..(Len(s) - 1), t[i].id = t[j].id
          PROVE  i = j
      <4>1. CASE i < p /\ j < p
        BY <1>7, <2>1, <3>1, <4>1, <1>1
      <4>2. CASE i < p /\ j >= p
        BY <1>7, <2>1, <3>1, <4>2, <1>1
      <4>3. CASE i >= p /\ j < p
        BY <1>7, <2>1, <3>1, <4>3, <1>1
      <4>4. CASE i >= p /\ j >= p
        BY <1>7, <2>1, <3>1, <4>4, <1>1
      <4>5. QED
        BY <1>1, <4>1, <4>2, <4>3, <4>4
    <3>2. QED
      BY <1>6, <3>1 DEF Distinct
  <2>6. QED
    BY <2>3, <2>4, <2>5
<1>10. QED
  BY <1>4, <1>5, <1>9

\* In a sequence without repeats, places and elements count the same.
LEMMA PlacesCount ==
  ASSUME NEW S, NEW s \in Seq(S), Distinct(s), NEW T \in SUBSET ToSet(s)
  PROVE  Cardinality({i \in DOMAIN s : s[i] \in T}) = Cardinality(T)
<1> DEFINE I == {i \in DOMAIN s : s[i] \in T}
           f == [i \in I |-> s[i]]
<1>1. DOMAIN s = 1..Len(s) /\ Len(s) \in Nat
  BY SeqFacts
<1>2. IsFiniteSet(I)
  <2>1. IsFiniteSet(1..Len(s))
    BY <1>1, FS_Interval
  <2>2. QED
    BY <1>1, <2>1, FS_Subset
<1>3. f \in [I -> T]
  OBVIOUS
<1>4. \A i, j \in I : f[i] = f[j] => i = j
  BY DEF Distinct
<1>5. \A x \in T : \E i \in I : f[i] = x
  BY DEF ToSet
<1> HIDE DEF f
<1>6. f \in Injection(I, T) /\ f \in Surjection(I, T)
  BY <1>3, <1>4, <1>5 DEF Injection, IsInjective, Surjection
<1>7. ExistsBijection(I, T)
  BY <1>6 DEF ExistsBijection, Bijection
<1>8. QED
  BY <1>2, <1>7, FS_Bijection

\* The orderings of a finite set.
LEMMA OrderingIs ==
  ASSUME NEW S, IsFiniteSet(S), NEW f \in SetToSeqs(S)
  PROVE  /\ f \in Seq(S) /\ ToSet(f) = S
         /\ \A i, j \in DOMAIN f : f[i] = f[j] => i = j
<1> DEFINE D == 1..Cardinality(S)
<1>1. Cardinality(S) \in Nat
  BY FS_CardinalityType
<1>2. f \in [D -> S] /\ \A i, j \in D : i # j => f[i] # f[j]
  BY DEF SetToSeqs
<1>3. f \in Seq(S)
  BY <1>1, <1>2, SeqDef
<1>4. IsFiniteSet(D) /\ Cardinality(D) = Cardinality(S)
  BY <1>1, FS_Interval
<1> HIDE DEF D
<1>5. f \in Injection(D, S)
  BY <1>2 DEF Injection, IsInjective
<1>6. f \in Surjection(D, S)
  BY <1>4, <1>5, FS_Injection
<1>7. \A x \in S : \E i \in D : f[i] = x
  BY <1>6 DEF Surjection
<1>8. QED
  BY <1>2, <1>3, <1>7 DEF ToSet

(***************************************************************************)
(* What is invariant                                                       *)
(***************************************************************************)
Rows == UNION {[D -> Card] : D \in SUBSET Cards}
Step == [op: {"AnswerCard", "GradeNow", "Other"}, cards: Rows, update: QueueUpdate \cup {None}]

TypeInv ==
  /\ now \in Times
  /\ card \in [Cards -> Card]
  /\ bury \in BuryMode
  /\ queues \in CardQueues \cup {None}
  /\ undo \in Seq(Step) /\ redo \in Seq(Step)
  /\ last_unburied \in Nat /\ last_unburied <= Today
  /\ shown # None => shown.id \in Cards
  /\ builds \in Nat /\ answers \in Nat /\ others \in Nat
  /\ behind \subseteq Cards
  /\ Len(undo) <= UndoLimit
  /\ panicked \in BOOLEAN

\* The counts and the entries agree; no card has two entries.
Agree(q) == CountsMatch(q) /\ OneEntryPerCard(q)

\* What the answer u leaves in the queues: its card's entry is gone, or waits in
\* the learning queue.
Requeued(u) == IF u.requeue = None THEN {} ELSE {u.requeue}
LeftMain(u) == IF u.entry.kind = "Learning" THEN u.before.main ELSE Tail(u.before.main)
LeftLearning(u) == (ToSet(u.before.learning) \ {u.entry}) \cup Requeued(u)
LeftWindow(u) == {e \in LeftLearning(u) : e.due <= AheadCutoff(u.before)}

\* A queue update recorded by an answer of the top card.
UpdateOK(u) ==
  /\ Agree(u.before) /\ u.before.build = u.build
  /\ IF u.entry.kind = "Learning" THEN u.entry \in Window(u.before)
     ELSE u.before.main # <<>> /\ Head(u.before.main) = u.entry
  /\ u.requeue # None => u.requeue.id = u.entry.id
  /\ u.snapshot.cutoff = u.before.cutoff
  /\ u.snapshot.learning = Cardinality({e \in ToSet(LeftMain(u)) : e.kind = "DayLearn"})
                           + Cardinality(LeftWindow(u))

\* What matters of the queues to an update: not their counts or their cutoff.
View(q) == <<q.main, ToSet(q.learning), q.build, q.day>>
Before(u) == View(u.before)
After(u) == <<LeftMain(u), LeftLearning(u), u.build, u.before.day>>

(***************************************************************************)
(* Entries and queues                                                      *)
(***************************************************************************)
LEMMA EntryFacts ==
  /\ \A e \in MainEntry : e.id \in Cards /\ e.kind \in {"New", "DayLearn", "Review"} /\ e.mtime \in Nat
  /\ \A e \in LearnEntry : e.id \in Cards /\ e.kind = "Learning" /\ e.due \in Nat /\ e.mtime \in Nat
                            /\ e.reps \in {0, 1}
  /\ \A e \in MainEntry : e.kind # "Learning" /\ e \notin LearnEntry
  BY DEF MainEntry, LearnEntry

LEMMA QueueFields ==
  ASSUME NEW q \in CardQueues
  PROVE  /\ q.main \in Seq(MainEntry) /\ q.learning \in Seq(LearnEntry)
         /\ q.cutoff \in Nat /\ q.day \in Nat /\ q.build \in Nat
         /\ q.counts.new \in Nat /\ q.counts.learning \in Nat /\ q.counts.review \in Nat
         /\ q.counts = [new |-> q.counts.new, learning |-> q.counts.learning, review |-> q.counts.review]
         /\ ToSet(q.main) \subseteq MainEntry /\ ToSet(q.learning) \subseteq LearnEntry
         /\ IsFiniteSet(ToSet(q.main)) /\ IsFiniteSet(ToSet(q.learning))
         /\ AheadCutoff(q) \in Nat
<1>1. q.main \in Seq(MainEntry) /\ q.learning \in Seq(LearnEntry)
  BY DEF CardQueues
<1>2. q.cutoff \in Nat /\ q.day \in Nat /\ q.build \in Nat
      /\ q.counts \in [new: Nat, learning: Nat, review: Nat]
  BY DEF CardQueues
<1>3. ToSet(q.main) \subseteq MainEntry /\ ToSet(q.learning) \subseteq LearnEntry
  BY <1>1, SeqFacts
<1>4. IsFiniteSet(ToSet(q.main)) /\ IsFiniteSet(ToSet(q.learning))
  BY <1>1, ToSetFinite
<1>5. AheadCutoff(q) \in Nat
  BY <1>2, TimeAssumption DEF AheadCutoff
<1>6. q.counts = [new |-> q.counts.new, learning |-> q.counts.learning, review |-> q.counts.review]
      /\ q.counts.new \in Nat /\ q.counts.learning \in Nat /\ q.counts.review \in Nat
  BY <1>2
<1>7. QED
  BY <1>1, <1>2, <1>3, <1>4, <1>5, <1>6

LEMMA UpdateFields ==
  ASSUME NEW u \in QueueUpdate
  PROVE  /\ u.entry \in MainEntry \cup LearnEntry /\ u.requeue \in LearnEntry \cup {None}
         /\ u.build \in Nat /\ u.before \in CardQueues
         /\ u.snapshot.learning \in Nat /\ u.snapshot.cutoff \in Nat
         /\ u # None /\ (u.requeue # None => u.requeue \in LearnEntry)
<1>1. u # None
  BY NoneAssumption
<1>2. u.entry \in MainEntry \cup LearnEntry /\ u.requeue \in LearnEntry \cup {None}
      /\ u.build \in Nat /\ u.before \in CardQueues
      /\ u.snapshot \in [learning: Nat, cutoff: Nat]
  BY DEF QueueUpdate
<1>3. QED
  BY <1>1, <1>2

\* The parts of the queues that the counts count are finite.
LEMMA CountedFinite ==
  ASSUME NEW q \in CardQueues
  PROVE  /\ \A kind : IsFiniteSet(OfKind(q, kind)) /\ Cardinality(OfKind(q, kind)) \in Nat
         /\ IsFiniteSet(Window(q)) /\ Cardinality(Window(q)) \in Nat
<1>1. IsFiniteSet(ToSet(q.main)) /\ IsFiniteSet(ToSet(q.learning))
  BY QueueFields
<1>2. \A kind : OfKind(q, kind) \in SUBSET ToSet(q.main)
  BY DEF OfKind
<1>3. Window(q) \in SUBSET ToSet(q.learning)
  BY DEF Window
<1>4. QED
  BY <1>1, <1>2, <1>3, FS_Subset, FS_CardinalityType

LEMMA HasIs ==
  ASSUME NEW q \in CardQueues, NEW c
  PROVE  HasLearning(q, c) <=> \E e \in ToSet(q.learning) : e.id = c
  BY DEF HasLearning, ToSet

\* The entry found in the learning queue.
LEMMA IndexIs ==
  ASSUME NEW q \in CardQueues, NEW c, HasLearning(q, c)
  PROVE  /\ LearningIndex(q, c) \in 1..Len(q.learning)
         /\ q.learning[LearningIndex(q, c)].id = c
         /\ q.learning[LearningIndex(q, c)] \in ToSet(q.learning)
<1> DEFINE I == {i \in DOMAIN q.learning : q.learning[i].id = c}
<1>1. DOMAIN q.learning = 1..Len(q.learning) /\ Len(q.learning) \in Nat
  BY QueueFields, SeqFacts
<1>2. I \in SUBSET Nat /\ I # {}
  BY <1>1 DEF HasLearning
<1>3. Min(I) \in I /\ \A n \in I : Min(I) <= n
  BY <1>2, MinIs
<1>4. \A j \in 1..(Min(I) - 1) : q.learning[j].id # c
  <2>1. ASSUME NEW j \in 1..(Min(I) - 1), q.learning[j].id = c PROVE FALSE
    <3>1. Min(I) \in 1..Len(q.learning)
      BY <1>1, <1>3
    <3>2. j \in I /\ j < Min(I)
      BY <1>1, <2>1, <3>1
    <3>3. Min(I) <= j
      BY <1>3, <3>2
    <3>4. Min(I) \in Nat /\ j \in Nat
      BY <1>1, <3>1
    <3> HIDE DEF I
    <3>5. QED
      BY <3>2, <3>3, <3>4
  <2>2. QED
    BY <2>1
<1>5. \E i \in DOMAIN q.learning :
        q.learning[i].id = c /\ \A j \in 1..(i - 1) : q.learning[j].id # c
  BY <1>3, <1>4
<1>6. LearningIndex(q, c) \in DOMAIN q.learning /\ q.learning[LearningIndex(q, c)].id = c
  BY <1>5 DEF LearningIndex
<1>7. QED
  BY <1>1, <1>6 DEF ToSet

\* Where no card has two entries, an entry is known by its card.
LEMMA OneEntry ==
  ASSUME NEW q \in CardQueues, OneEntryPerCard(q)
  PROVE  /\ \A e, f \in ToSet(q.learning) : e.id = f.id => e = f
         /\ \A e, f \in ToSet(q.main) : e.id = f.id => e = f
         /\ \A e \in ToSet(q.main) : \A f \in ToSet(q.learning) : e.id # f.id
         /\ \A e \in ToSet(q.main) : ~ HasLearning(q, e.id)
<1>1. \A e, f \in ToSet(q.learning) : e.id = f.id => e = f
  BY DEF OneEntryPerCard, Distinct, ToSet
<1>2. \A e, f \in ToSet(q.main) : e.id = f.id => e = f
  BY DEF OneEntryPerCard, Distinct, ToSet
<1>3. \A e \in ToSet(q.main) : \A f \in ToSet(q.learning) : e.id # f.id
  BY DEF OneEntryPerCard
<1>4. QED
  BY <1>1, <1>2, <1>3, HasIs

\* The entry on top is in the learning queue and within the window, or heads the main one.
OnTop(q, e) == IF e.kind = "Learning" THEN e \in Window(q) ELSE q.main # <<>> /\ Head(q.main) = e

LEMMA TopIs ==
  ASSUME NEW q \in CardQueues, TopEntry(q) # None
  PROVE  TopEntry(q) \in MainEntry \cup LearnEntry /\ OnTop(q, TopEntry(q))
<1> DEFINE ready == {i \in DOMAIN q.learning : q.learning[i].due <= q.cutoff}
           soon == {i \in DOMAIN q.learning : q.learning[i].due <= AheadCutoff(q)}
<1>1. DOMAIN q.learning = 1..Len(q.learning) /\ Len(q.learning) \in Nat
      /\ \A i \in DOMAIN q.learning : q.learning[i] \in LearnEntry /\ q.learning[i] \in ToSet(q.learning)
                                       /\ q.learning[i].due \in Nat
  <2>1. q.learning \in Seq(LearnEntry)
    BY QueueFields
  <2>2. DOMAIN q.learning = 1..Len(q.learning) /\ Len(q.learning) \in Nat
        /\ \A i \in DOMAIN q.learning : q.learning[i] \in LearnEntry /\ q.learning[i] \in ToSet(q.learning)
    BY <2>1, SeqFacts
  <2>3. QED
    BY <2>2, EntryFacts
<1>2. ready \subseteq soon
  <2>1. q.cutoff \in Nat /\ LearnAhead \in Nat /\ AheadCutoff(q) = q.cutoff + LearnAhead
    BY QueueFields, TimeAssumption DEF AheadCutoff
  <2>2. QED
    BY <1>1, <2>1
<1>3. ASSUME NEW I \in SUBSET soon, I # {}, TopEntry(q) = q.learning[Min(I)]
      PROVE  TopEntry(q) \in MainEntry \cup LearnEntry /\ OnTop(q, TopEntry(q))
  <2>1. Min(I) \in soon
    <3>1. I \in SUBSET Nat
      BY <1>1
    <3>2. QED
      BY <1>3, <3>1, MinIs
  <2>2. TopEntry(q) \in LearnEntry /\ TopEntry(q) \in Window(q)
    BY <1>1, <1>3, <2>1 DEF Window
  <2>3. QED
    BY <2>2, EntryFacts DEF OnTop
<1>4. CASE ready # {}
  <2>1. TopEntry(q) = q.learning[Min(ready)]
    BY <1>4 DEF TopEntry
  <2>2. QED
    BY <1>2, <1>3, <1>4, <2>1
<1>5. CASE ready = {} /\ q.main # <<>>
  <2>1. TopEntry(q) = Head(q.main)
    BY <1>5 DEF TopEntry
  <2>2. Head(q.main) \in MainEntry
    BY <1>5, QueueFields, HeadTailProperties
  <2>3. QED
    BY <1>5, <2>1, <2>2, EntryFacts DEF OnTop
<1>6. CASE ready = {} /\ q.main = <<>> /\ soon # {}
  <2>1. TopEntry(q) = q.learning[Min(soon)]
    BY <1>6 DEF TopEntry
  <2>2. QED
    BY <1>3, <1>6, <2>1
<1>7. CASE ready = {} /\ q.main = <<>> /\ soon = {}
  BY <1>7 DEF TopEntry
<1>8. QED
  BY <1>4, <1>5, <1>6, <1>7

(***************************************************************************)
(* Counting                                                                *)
(***************************************************************************)
InWindow(L, a) == {e \in L : e.due <= a}
Kinds(M, kind) == {e \in M : e.kind = kind}

LEMMA CountedAs ==
  /\ \A q : Window(q) = InWindow(ToSet(q.learning), AheadCutoff(q))
  /\ \A q, kind : OfKind(q, kind) = Kinds(ToSet(q.main), kind)
  /\ \A u : LeftWindow(u) = InWindow(LeftLearning(u), AheadCutoff(u.before))
  BY DEF Window, OfKind, LeftWindow, InWindow, Kinds

LEMMA WindowCount ==
  ASSUME NEW L, IsFiniteSet(L), NEW a, NEW e
  PROVE  /\ IsFiniteSet(InWindow(L, a)) /\ Cardinality(InWindow(L, a)) \in Nat
         /\ e \in L => Cardinality(InWindow(L \ {e}, a)) =
                         IF e.due <= a THEN Cardinality(InWindow(L, a)) - 1
                         ELSE Cardinality(InWindow(L, a))
         /\ e \notin L => Cardinality(InWindow(L \cup {e}, a)) =
                            IF e.due <= a THEN Cardinality(InWindow(L, a)) + 1
                            ELSE Cardinality(InWindow(L, a))
<1>1. IsFiniteSet(InWindow(L, a)) /\ Cardinality(InWindow(L, a)) \in Nat
  <2>1. InWindow(L, a) \in SUBSET L
    BY DEF InWindow
  <2>2. QED
    BY <2>1, FS_Subset, FS_CardinalityType
<1>2. CASE e.due <= a
  <2>1. InWindow(L \ {e}, a) = InWindow(L, a) \ {e} /\ InWindow(L \cup {e}, a) = InWindow(L, a) \cup {e}
    BY <1>2 DEF InWindow
  <2>2. e \in InWindow(L, a) <=> e \in L
    BY <1>2 DEF InWindow
  <2>3. e \in L => Cardinality(InWindow(L, a) \ {e}) = Cardinality(InWindow(L, a)) - 1
    BY <1>1, <2>2, FS_RemoveElement
  <2>4. e \notin L => Cardinality(InWindow(L, a) \cup {e}) = Cardinality(InWindow(L, a)) + 1
    BY <1>1, <2>2, FS_AddElement
  <2>5. QED
    BY <1>1, <1>2, <2>1, <2>3, <2>4
<1>3. CASE ~ (e.due <= a)
  <2>1. InWindow(L \ {e}, a) = InWindow(L, a) /\ InWindow(L \cup {e}, a) = InWindow(L, a)
    BY <1>3 DEF InWindow
  <2>2. QED
    BY <1>1, <1>3, <2>1
<1>4. QED
  BY <1>2, <1>3

LEMMA KindCount ==
  ASSUME NEW M, IsFiniteSet(M), NEW kind, NEW e
  PROVE  /\ IsFiniteSet(Kinds(M, kind)) /\ Cardinality(Kinds(M, kind)) \in Nat
         /\ e \notin M => Cardinality(Kinds(M \cup {e}, kind)) =
                            IF e.kind = kind THEN Cardinality(Kinds(M, kind)) + 1
                            ELSE Cardinality(Kinds(M, kind))
<1>1. IsFiniteSet(Kinds(M, kind)) /\ Cardinality(Kinds(M, kind)) \in Nat
  <2>1. Kinds(M, kind) \in SUBSET M
    BY DEF Kinds
  <2>2. QED
    BY <2>1, FS_Subset, FS_CardinalityType
<1>2. CASE e.kind = kind
  <2>1. Kinds(M \cup {e}, kind) = Kinds(M, kind) \cup {e}
    BY <1>2 DEF Kinds
  <2>2. e \in Kinds(M, kind) <=> e \in M
    BY <1>2 DEF Kinds
  <2>3. QED
    BY <1>1, <1>2, <2>1, <2>2, FS_AddElement
<1>3. CASE e.kind # kind
  <2>1. Kinds(M \cup {e}, kind) = Kinds(M, kind)
    BY <1>3 DEF Kinds
  <2>2. QED
    BY <1>1, <1>3, <2>1
<1>4. QED
  BY <1>2, <1>3

\* A main queue counts one less without its head.
LEMMA TailCount ==
  ASSUME NEW m \in Seq(MainEntry), m # <<>>, Distinct(m), NEW kind
  PROVE  /\ Cardinality(Kinds(ToSet(m), kind)) =
              IF Head(m).kind = kind THEN Cardinality(Kinds(ToSet(Tail(m)), kind)) + 1
              ELSE Cardinality(Kinds(ToSet(Tail(m)), kind))
         /\ Cardinality(Kinds(ToSet(Tail(m)), kind)) \in Nat
<1>1. /\ Tail(m) \in Seq(MainEntry) /\ ToSet(m) = ToSet(Tail(m)) \cup {Head(m)}
      /\ \A e \in ToSet(Tail(m)) : e.id # Head(m).id
  BY TailSet
<1>2. IsFiniteSet(ToSet(Tail(m)))
  BY <1>1, ToSetFinite
<1>3. Head(m) \notin ToSet(Tail(m))
  BY <1>1
<1>4. QED
  BY <1>1, <1>2, <1>3, KindCount

(***************************************************************************)
(* Edits of the queues                                                     *)
(***************************************************************************)
\* Only the learning queue, its count and the cutoff differ.
SameMain(q, r) ==
  /\ r.main = q.main /\ r.day = q.day /\ r.build = q.build
  /\ r.counts.new = q.counts.new /\ r.counts.review = q.counts.review

\* pop_entry() of a card that waits.
LEMMA PopIs ==
  ASSUME NEW q \in CardQueues, Agree(q), NEW e,
         \/ e \in ToSet(q.learning)
         \/ q.main # <<>> /\ e = Head(q.main)
  PROVE  LET p == PopEntry(q, e.id) IN
         /\ CanPop(q, e.id) /\ EntryOf(q, e.id) = e
         /\ p \in CardQueues /\ OneEntryPerCard(p)
         /\ p.cutoff = q.cutoff /\ p.day = q.day /\ p.build = q.build
         /\ p.main = IF e.kind = "Learning" THEN q.main ELSE Tail(q.main)
         /\ ToSet(p.learning) = ToSet(q.learning) \ {e}
         /\ \A f \in Entries(p) : f \in Entries(q) /\ f.id # e.id
         /\ p.counts.new = Cardinality(OfKind(p, "New"))
         /\ p.counts.review = Cardinality(OfKind(p, "Review"))
         /\ OnTop(q, e) => CountsMatch(p)
<1> DEFINE p == PopEntry(q, e.id)
<1>1. /\ q.main \in Seq(MainEntry) /\ q.learning \in Seq(LearnEntry)
      /\ ToSet(q.main) \subseteq MainEntry /\ ToSet(q.learning) \subseteq LearnEntry
      /\ q.counts.new \in Nat /\ q.counts.learning \in Nat /\ q.counts.review \in Nat
      /\ IsFiniteSet(ToSet(q.learning)) /\ IsFiniteSet(ToSet(q.main))
  BY QueueFields
<1>2. /\ q.counts.new = Cardinality(OfKind(q, "New"))
      /\ q.counts.review = Cardinality(OfKind(q, "Review"))
      /\ q.counts.learning = Cardinality(OfKind(q, "DayLearn")) + Cardinality(Window(q))
      /\ Distinct(q.main) /\ Distinct(q.learning) /\ OneEntryPerCard(q)
  BY DEF Agree, CountsMatch, OneEntryPerCard
<1>3. CASE e \in ToSet(q.learning)
  <2>1. e.kind = "Learning" /\ HasLearning(q, e.id)
    BY <1>1, <1>3, EntryFacts, HasIs
  <2> DEFINE i == LearningIndex(q, e.id)
  <2>2. i \in 1..Len(q.learning) /\ q.learning[i] = e
    <3>1. i \in 1..Len(q.learning) /\ q.learning[i].id = e.id /\ q.learning[i] \in ToSet(q.learning)
      BY <2>1, IndexIs
    <3>2. QED
      BY <1>2, <1>3, <3>1, OneEntry
  <2> HIDE DEF i
  <2>3. p = [q EXCEPT !.learning = RemoveAt(@, i), !.counts.learning = Saturating(@, 1)]
    BY <2>1 DEF PopEntry, i
  <2>4. /\ RemoveAt(q.learning, i) \in Seq(LearnEntry) /\ Distinct(RemoveAt(q.learning, i))
        /\ ToSet(RemoveAt(q.learning, i)) = ToSet(q.learning) \ {e}
    BY <1>1, <1>2, <2>2, RemoveSet
  <2>5. Saturating(q.counts.learning, 1) \in Nat
    BY <1>1 DEF Saturating
  <2>6. p \in CardQueues
    BY <2>3, <2>4, <2>5 DEF CardQueues
  <2>7. /\ p.main = q.main /\ p.learning = RemoveAt(q.learning, i) /\ p.cutoff = q.cutoff
        /\ p.day = q.day /\ p.build = q.build
        /\ p.counts.new = q.counts.new /\ p.counts.review = q.counts.review
        /\ p.counts.learning = Saturating(q.counts.learning, 1)
    BY <2>3 DEF CardQueues
  <2> HIDE DEF p
  <2>8. OneEntryPerCard(p)
    BY <1>2, <2>4, <2>7 DEF OneEntryPerCard
  <2>9. \A f \in Entries(p) : f \in Entries(q) /\ f.id # e.id
    BY <1>2, <1>3, <2>4, <2>7, OneEntry DEF Entries
  <2>10. p.counts.new = Cardinality(OfKind(p, "New")) /\ p.counts.review = Cardinality(OfKind(p, "Review"))
         /\ OfKind(p, "DayLearn") = OfKind(q, "DayLearn")
    BY <1>2, <2>7 DEF OfKind
  <2>11. ASSUME OnTop(q, e) PROVE CountsMatch(p)
    <3>1. e.due <= AheadCutoff(q) /\ AheadCutoff(p) = AheadCutoff(q)
      BY <2>1, <2>7, <2>11 DEF OnTop, Window, AheadCutoff
    <3>2. Cardinality(Window(p)) = Cardinality(Window(q)) - 1
      <4>1. Cardinality(InWindow(ToSet(q.learning) \ {e}, AheadCutoff(q)))
              = Cardinality(InWindow(ToSet(q.learning), AheadCutoff(q))) - 1
        BY <1>1, <1>3, <3>1, WindowCount
      <4>2. QED
        BY <2>4, <2>7, <3>1, <4>1, CountedAs
    <3>3. Cardinality(OfKind(q, "DayLearn")) \in Nat /\ Cardinality(Window(p)) \in Nat
      BY <2>6, CountedFinite
    <3>4. Cardinality(Window(q)) \in Nat
      BY CountedFinite
    <3>5. p.counts.learning = Cardinality(OfKind(p, "DayLearn")) + Cardinality(Window(p))
      BY <1>2, <2>7, <2>10, <3>2, <3>3, <3>4 DEF Saturating
    <3>6. QED
      BY <2>10, <3>5 DEF CountsMatch
  <2>12. CanPop(q, e.id) /\ EntryOf(q, e.id) = e
    BY <2>1, <2>2 DEF CanPop, EntryOf, i
  <2>13. QED
    BY <2>1, <2>4, <2>6, <2>7, <2>8, <2>9, <2>10, <2>11, <2>12 DEF p
<1>4. CASE q.main # <<>> /\ e = Head(q.main)
  <2>1. /\ Tail(q.main) \in Seq(MainEntry) /\ e \in MainEntry /\ e \in ToSet(q.main)
        /\ ToSet(q.main) = {e} \cup ToSet(Tail(q.main))
        /\ Distinct(Tail(q.main)) /\ \A f \in ToSet(Tail(q.main)) : f.id # e.id
    BY <1>1, <1>2, <1>4, TailSet
  <2>2. e.kind \in {"New", "DayLearn", "Review"} /\ e.kind # "Learning" /\ e \notin ToSet(q.learning)
    BY <1>1, <2>1, EntryFacts
  <2>3. ~ HasLearning(q, e.id)
    BY <1>2, <2>1, OneEntry
  <2> DEFINE less == IF e.kind = "DayLearn" THEN Saturating(q.counts[CountOf(e.kind)], 1)
                     ELSE q.counts[CountOf(e.kind)] - 1
  <2>4. p = [q EXCEPT !.main = Tail(@), !.counts[CountOf(e.kind)] = less]
    BY <1>4, <2>3 DEF PopEntry
  <2>5. \A kind : /\ Cardinality(OfKind(q, kind)) =
                        IF e.kind = kind THEN Cardinality(Kinds(ToSet(Tail(q.main)), kind)) + 1
                        ELSE Cardinality(Kinds(ToSet(Tail(q.main)), kind))
                  /\ Cardinality(Kinds(ToSet(Tail(q.main)), kind)) \in Nat
    BY <1>1, <1>2, <1>4, TailCount, CountedAs
  <2>6. Cardinality(Window(q)) \in Nat
    BY CountedFinite
  <2> HIDE DEF less
  <2>7. /\ p.main = Tail(q.main) /\ p.learning = q.learning /\ p.cutoff = q.cutoff
        /\ p.day = q.day /\ p.build = q.build
        /\ p.counts = [q.counts EXCEPT ![CountOf(e.kind)] = less]
    BY <2>4 DEF CardQueues
  <2>8. CountOf("New") = "new" /\ CountOf("Review") = "review" /\ CountOf("DayLearn") = "learning"
    BY DEF CountOf
  <2>9. q.counts \in [new: Nat, learning: Nat, review: Nat]
    BY DEF CardQueues
  <2>10. /\ p.counts \in [new: Nat, learning: Nat, review: Nat]
         /\ p.counts.new = Cardinality(Kinds(ToSet(Tail(q.main)), "New"))
         /\ p.counts.review = Cardinality(Kinds(ToSet(Tail(q.main)), "Review"))
         /\ p.counts.learning = Cardinality(Kinds(ToSet(Tail(q.main)), "DayLearn")) + Cardinality(Window(q))
    <3>1. CASE e.kind = "New"
      <4>1. less = q.counts.new - 1 /\ CountOf(e.kind) = "new"
        BY <2>8, <3>1 DEF less
      <4>2. q.counts.new = Cardinality(Kinds(ToSet(Tail(q.main)), "New")) + 1
            /\ q.counts.review = Cardinality(Kinds(ToSet(Tail(q.main)), "Review"))
            /\ q.counts.learning = Cardinality(Kinds(ToSet(Tail(q.main)), "DayLearn")) + Cardinality(Window(q))
        BY <1>2, <2>5, <3>1
      <4>3. less = Cardinality(Kinds(ToSet(Tail(q.main)), "New"))
        BY <2>5, <4>1, <4>2
      <4>4. p.counts = [q.counts EXCEPT !["new"] = less]
        BY <2>7, <4>1
      <4>5. QED
        BY <2>5, <2>9, <4>2, <4>3, <4>4
    <3>2. CASE e.kind = "Review"
      <4>1. less = q.counts.review - 1 /\ CountOf(e.kind) = "review"
        BY <2>8, <3>2 DEF less
      <4>2. q.counts.review = Cardinality(Kinds(ToSet(Tail(q.main)), "Review")) + 1
            /\ q.counts.new = Cardinality(Kinds(ToSet(Tail(q.main)), "New"))
            /\ q.counts.learning = Cardinality(Kinds(ToSet(Tail(q.main)), "DayLearn")) + Cardinality(Window(q))
        BY <1>2, <2>5, <3>2
      <4>3. less = Cardinality(Kinds(ToSet(Tail(q.main)), "Review"))
        BY <2>5, <4>1, <4>2
      <4>4. p.counts = [q.counts EXCEPT !["review"] = less]
        BY <2>7, <4>1
      <4>5. QED
        BY <2>5, <2>9, <4>2, <4>3, <4>4
    <3>3. CASE e.kind = "DayLearn"
      <4>1. less = Saturating(q.counts.learning, 1) /\ CountOf(e.kind) = "learning"
        BY <2>8, <3>3 DEF less
      <4>2. q.counts.learning = Cardinality(Kinds(ToSet(Tail(q.main)), "DayLearn")) + 1 + Cardinality(Window(q))
            /\ q.counts.new = Cardinality(Kinds(ToSet(Tail(q.main)), "New"))
            /\ q.counts.review = Cardinality(Kinds(ToSet(Tail(q.main)), "Review"))
        BY <1>2, <2>5, <3>3
      <4>3. less = Cardinality(Kinds(ToSet(Tail(q.main)), "DayLearn")) + Cardinality(Window(q)) /\ less \in Nat
        BY <2>5, <2>6, <4>1, <4>2 DEF Saturating
      <4>4. p.counts = [q.counts EXCEPT !["learning"] = less]
        BY <2>7, <4>1
      <4>5. QED
        BY <2>5, <2>9, <4>2, <4>3, <4>4
    <3>4. QED
      BY <2>2, <3>1, <3>2, <3>3
  <2>11. p \in CardQueues
    BY <2>1, <2>4, <2>7, <2>10 DEF CardQueues
  <2> HIDE DEF p
  <2>12. OneEntryPerCard(p)
    BY <1>2, <2>1, <2>7 DEF OneEntryPerCard
  <2>13. Window(p) = Window(q) /\ \A kind : OfKind(p, kind) = Kinds(ToSet(Tail(q.main)), kind)
    BY <2>7, CountedAs DEF AheadCutoff
  <2>14. \A f \in Entries(p) : f \in Entries(q) /\ f.id # e.id
    BY <1>2, <2>1, <2>7, OneEntry DEF Entries
  <2>15. CountsMatch(p)
    BY <2>10, <2>13 DEF CountsMatch
  <2>16. CanPop(q, e.id) /\ EntryOf(q, e.id) = e
    BY <1>4, <2>3 DEF CanPop, EntryOf, TopOfMain
  <2>17. QED
    BY <2>2, <2>7, <2>11, <2>12, <2>14, <2>15, <2>16 DEF CountsMatch, p
<1>5. QED
  BY <1>3, <1>4

\* insert_intraday_learning_card() of a card that does not wait.
LEMMA InsertIs ==
  ASSUME NEW q \in CardQueues, OneEntryPerCard(q), NEW e \in LearnEntry,
         \A f \in Entries(q) : f.id # e.id,
         NEW r \in InsertLearning(q, e)
  PROVE  /\ r \in CardQueues /\ OneEntryPerCard(r) /\ SameMain(q, r) /\ r.cutoff = q.cutoff
         /\ ToSet(r.learning) = ToSet(q.learning) \cup {e}
         /\ CountsMatch(q) => CountsMatch(r)
<1>1. /\ q.main \in Seq(MainEntry) /\ q.learning \in Seq(LearnEntry)
      /\ q.counts.learning \in Nat /\ IsFiniteSet(ToSet(q.learning))
  BY QueueFields
<1>2. PICK i \in 1..(Len(q.learning) + 1) :
        r = [q EXCEPT !.learning = InsertAt(@, i, e),
                      !.counts.learning = IF e.due <= AheadCutoff(q) THEN @ + 1 ELSE @]
  BY DEF InsertLearning, InsertPositions
<1>3. /\ \A f \in ToSet(q.learning) : f.id # e.id
      /\ \A f \in ToSet(q.main) : f.id # e.id
      /\ Distinct(q.main) /\ Distinct(q.learning)
  BY DEF Entries, OneEntryPerCard
<1>4. /\ InsertAt(q.learning, i, e) \in Seq(LearnEntry) /\ Distinct(InsertAt(q.learning, i, e))
      /\ ToSet(InsertAt(q.learning, i, e)) = {e} \cup ToSet(q.learning)
  BY <1>1, <1>3, InsertSet
<1> DEFINE more == IF e.due <= AheadCutoff(q) THEN q.counts.learning + 1 ELSE q.counts.learning
<1>5. more \in Nat
  BY <1>1
<1>6. r = [q EXCEPT !.learning = InsertAt(@, i, e), !.counts.learning = more]
  BY <1>2
<1> HIDE DEF more
<1>7. r \in CardQueues
  BY <1>4, <1>5, <1>6 DEF CardQueues
<1>8. /\ r.main = q.main /\ r.learning = InsertAt(q.learning, i, e) /\ r.cutoff = q.cutoff
      /\ r.day = q.day /\ r.build = q.build
      /\ r.counts.new = q.counts.new /\ r.counts.review = q.counts.review
      /\ r.counts.learning = more
  BY <1>6 DEF CardQueues
<1>9. OneEntryPerCard(r)
  BY <1>3, <1>4, <1>8 DEF OneEntryPerCard
<1>10. ASSUME CountsMatch(q) PROVE CountsMatch(r)
  <2>1. e \notin ToSet(q.learning) /\ AheadCutoff(r) = AheadCutoff(q)
        /\ \A kind : OfKind(r, kind) = OfKind(q, kind)
    BY <1>3, <1>8 DEF AheadCutoff, OfKind
  <2>2. Cardinality(Window(r)) = IF e.due <= AheadCutoff(q) THEN Cardinality(Window(q)) + 1
                                 ELSE Cardinality(Window(q))
    <3>1. Cardinality(InWindow(ToSet(q.learning) \cup {e}, AheadCutoff(q))) =
            IF e.due <= AheadCutoff(q) THEN Cardinality(InWindow(ToSet(q.learning), AheadCutoff(q))) + 1
            ELSE Cardinality(InWindow(ToSet(q.learning), AheadCutoff(q)))
      BY <1>1, <2>1, WindowCount
    <3>2. ToSet(r.learning) = ToSet(q.learning) \cup {e}
      BY <1>4, <1>8
    <3>3. QED
      BY <2>1, <3>1, <3>2, CountedAs
  <2>3. Cardinality(Window(q)) \in Nat /\ Cardinality(OfKind(q, "DayLearn")) \in Nat
    BY CountedFinite
  <2>4. q.counts.learning = Cardinality(OfKind(q, "DayLearn")) + Cardinality(Window(q))
    BY <1>10 DEF CountsMatch
  <2>5. r.counts.learning = Cardinality(OfKind(r, "DayLearn")) + Cardinality(Window(r))
    BY <1>8, <2>1, <2>2, <2>3, <2>4 DEF more
  <2>6. QED
    BY <1>8, <1>10, <2>1, <2>5 DEF CountsMatch
<1>11. QED
  BY <1>4, <1>7, <1>8, <1>9, <1>10 DEF SameMain

\* A change of the cutoff alone, with the count it brings.
Recounted(q, n, t) == [q EXCEPT !.counts.learning = n, !.cutoff = t]

LEMMA RecountIs ==
  ASSUME NEW q \in CardQueues, OneEntryPerCard(q), NEW n \in Nat, NEW t \in Nat
  PROVE  LET r == Recounted(q, n, t) IN
         /\ r \in CardQueues /\ OneEntryPerCard(r) /\ SameMain(q, r)
         /\ r.cutoff = t /\ r.counts.learning = n /\ r.learning = q.learning
<1> DEFINE r == Recounted(q, n, t)
<1>1. r \in CardQueues
  BY DEF CardQueues, Recounted
<1>2. /\ r.main = q.main /\ r.learning = q.learning /\ r.cutoff = t
      /\ r.day = q.day /\ r.build = q.build
      /\ r.counts.new = q.counts.new /\ r.counts.review = q.counts.review
      /\ r.counts.learning = n
  BY DEF CardQueues, Recounted
<1>3. QED
  BY <1>1, <1>2 DEF OneEntryPerCard, SameMain, Recounted

\* update_learning_cutoff_and_count()
LEMMA AdvanceIs ==
  ASSUME NEW q \in CardQueues, Agree(q), now \in Nat, q.cutoff <= now
  PROVE  LET r == AdvanceCutoff(q) IN
         /\ r \in CardQueues /\ Agree(r) /\ SameMain(q, r) /\ r.learning = q.learning
         /\ r.cutoff = now
<1> DEFINE r == AdvanceCutoff(q)
           I == {i \in DOMAIN q.learning : /\ q.learning[i].due > AheadCutoff(q)
                                           /\ q.learning[i].due <= now + LearnAhead}
           T == {e \in ToSet(q.learning) : e.due > AheadCutoff(q) /\ e.due <= now + LearnAhead}
           W == {e \in ToSet(q.learning) : e.due <= now + LearnAhead}
<1>1. /\ q.learning \in Seq(LearnEntry) /\ ToSet(q.learning) \subseteq LearnEntry
      /\ q.counts.learning \in Nat /\ IsFiniteSet(ToSet(q.learning))
      /\ AheadCutoff(q) \in Nat /\ q.cutoff \in Nat
  BY QueueFields
<1>2. Distinct(q.learning) /\ OneEntryPerCard(q)
      /\ q.counts.learning = Cardinality(OfKind(q, "DayLearn")) + Cardinality(Window(q))
      /\ q.counts.new = Cardinality(OfKind(q, "New"))
      /\ q.counts.review = Cardinality(OfKind(q, "Review"))
  BY DEF Agree, OneEntryPerCard, CountsMatch
<1>3. Cardinality(I) = Cardinality(T)
  <2>1. I = {i \in DOMAIN q.learning : q.learning[i] \in T}
    BY DEF ToSet
  <2>2. T \in SUBSET ToSet(q.learning)
    OBVIOUS
  <2> HIDE DEF I, T
  <2>3. QED
    BY <1>1, <1>2, <2>1, <2>2, PlacesCount
<1>4. /\ IsFiniteSet(T) /\ Cardinality(T) \in Nat
  <2>1. T \in SUBSET ToSet(q.learning)
    OBVIOUS
  <2> HIDE DEF T
  <2>2. QED
    BY <1>1, <2>1, FS_Subset, FS_CardinalityType
<1>5. W = Window(q) \cup T /\ Window(q) \cap T = {}
  <2>1. LearnAhead \in Nat /\ AheadCutoff(q) = q.cutoff + LearnAhead
    BY TimeAssumption DEF AheadCutoff
  <2>2. \A e \in ToSet(q.learning) : e.due \in Nat
    BY <1>1, EntryFacts
  <2>3. AheadCutoff(q) <= now + LearnAhead
    BY <1>1, <2>1
  <2>4. ASSUME NEW e \in ToSet(q.learning)
        PROVE  /\ e \in W <=> e \in Window(q) \/ e \in T
               /\ ~ (e \in Window(q) /\ e \in T)
    <3>1. e.due \in Nat /\ AheadCutoff(q) \in Nat /\ now + LearnAhead \in Nat
      BY <1>1, <2>1, <2>2
    <3>2. /\ e \in W <=> e.due <= now + LearnAhead
          /\ e \in T <=> e.due > AheadCutoff(q) /\ e.due <= now + LearnAhead
          /\ e \in Window(q) <=> e.due <= AheadCutoff(q)
      BY DEF Window
    <3>3. QED
      BY <2>3, <3>1, <3>2
  <2>5. W \subseteq ToSet(q.learning) /\ T \subseteq ToSet(q.learning)
        /\ Window(q) \subseteq ToSet(q.learning)
    BY DEF Window
  <2> HIDE DEF W, T
  <2>6. QED
    BY <2>4, <2>5
<1> HIDE DEF I, T, W
<1>6. Cardinality(W) = Cardinality(Window(q)) + Cardinality(T)
  <2>1. Cardinality(Window(q)) \in Nat /\ IsFiniteSet(Window(q))
    BY CountedFinite
  <2>2. Cardinality(W) = Cardinality(Window(q)) + Cardinality(T) - Cardinality(Window(q) \cap T)
    BY <1>4, <1>5, <2>1, FS_Union
  <2>3. Cardinality(Window(q) \cap T) = 0
    BY <1>5, FS_EmptySet
  <2>4. QED
    BY <1>4, <2>1, <2>2, <2>3
<1>7. r = Recounted(q, q.counts.learning + Cardinality(T), now)
  <2>1. r = [q EXCEPT !.cutoff = now, !.counts.learning = @ + Cardinality(I)]
    BY DEF AdvanceCutoff, I
  <2>2. QED
    BY <1>3, <2>1 DEF CardQueues, Recounted
<1>8. q.counts.learning + Cardinality(T) \in Nat
  BY <1>1, <1>4
<1> HIDE DEF r
<1>9. /\ r \in CardQueues /\ OneEntryPerCard(r) /\ SameMain(q, r) /\ r.cutoff = now
      /\ r.learning = q.learning /\ r.counts.learning = q.counts.learning + Cardinality(T)
  <2> DEFINE n == q.counts.learning + Cardinality(T)
  <2>1. n \in Nat /\ r = Recounted(q, n, now) /\ now \in Nat /\ OneEntryPerCard(q)
    BY <1>2, <1>7, <1>8
  <2> HIDE DEF n
  <2>2. /\ r \in CardQueues /\ OneEntryPerCard(r) /\ SameMain(q, r)
        /\ r.cutoff = now /\ r.counts.learning = n /\ r.learning = q.learning
    BY ONLY <2>1, q \in CardQueues, RecountIs
  <2>3. QED
    BY <2>2 DEF n
<1>10. CountsMatch(r)
  <2>1. Window(r) = W /\ \A kind : OfKind(r, kind) = OfKind(q, kind)
    BY <1>9 DEF Window, AheadCutoff, W, OfKind, SameMain
  <2>2. Cardinality(OfKind(q, "DayLearn")) \in Nat /\ Cardinality(Window(q)) \in Nat
    BY CountedFinite
  <2>3. r.counts.learning = Cardinality(OfKind(q, "DayLearn")) + Cardinality(W)
    BY <1>2, <1>4, <1>6, <1>9, <2>2
  <2>4. QED
    BY <1>2, <1>9, <2>1, <2>3 DEF CountsMatch, SameMain
<1>11. QED
  BY <1>9, <1>10 DEF Agree, r

\* Whether queues agree depends on the main queue, the learning cards, the counts
\* and the cutoff.
LEMMA AgreeAs ==
  ASSUME NEW p \in CardQueues, NEW q \in CardQueues, CountsMatch(p), OneEntryPerCard(q),
         q.main = p.main, ToSet(q.learning) = ToSet(p.learning),
         q.cutoff = p.cutoff, q.counts = p.counts
  PROVE  Agree(q)
BY DEF Agree, CountsMatch, OfKind, Window, AheadCutoff

\* The parts of what an answer leaves.
LEMMA LeftFacts ==
  ASSUME NEW u \in QueueUpdate, UpdateOK(u)
  PROVE  /\ \A f \in ToSet(LeftMain(u)) : f \in ToSet(u.before.main) /\ f.id # u.entry.id
         /\ \A f \in ToSet(u.before.learning) \ {u.entry} : f.id # u.entry.id
         /\ LeftMain(u) \in Seq(MainEntry) /\ LeftLearning(u) \subseteq LearnEntry
         /\ IsFiniteSet(LeftLearning(u))
         /\ u.entry.kind = "Learning" => /\ u.entry \in ToSet(u.before.learning) /\ u.entry \in LearnEntry
                                         /\ u.entry.due <= AheadCutoff(u.before)
         /\ u.entry.kind # "Learning" => /\ u.entry \in MainEntry /\ u.before.main # <<>>
                                         /\ Head(u.before.main) = u.entry
                                         /\ u.before.main = <<u.entry>> \o LeftMain(u)
                                         /\ u.entry \notin ToSet(u.before.learning)
                                         /\ ToSet(u.before.main) = {u.entry} \cup ToSet(LeftMain(u))
<1>1. /\ u.before \in CardQueues /\ u.entry \in MainEntry \cup LearnEntry
      /\ u.requeue # None => u.requeue \in LearnEntry
  BY UpdateFields
<1>2. /\ u.before.main \in Seq(MainEntry) /\ u.before.learning \in Seq(LearnEntry)
      /\ ToSet(u.before.main) \subseteq MainEntry /\ ToSet(u.before.learning) \subseteq LearnEntry
      /\ IsFiniteSet(ToSet(u.before.learning))
  BY <1>1, QueueFields
<1>3. OneEntryPerCard(u.before) /\ Distinct(u.before.main)
  BY DEF UpdateOK, Agree, OneEntryPerCard
<1>4. LeftLearning(u) \subseteq LearnEntry /\ IsFiniteSet(LeftLearning(u))
  <2>1. IsFiniteSet(ToSet(u.before.learning) \ {u.entry})
    BY <1>2, FS_RemoveElement
  <2>2. IsFiniteSet((ToSet(u.before.learning) \ {u.entry}) \cup {u.requeue})
    BY <2>1, FS_AddElement
  <2>3. QED
    BY <1>1, <1>2, <2>1, <2>2 DEF LeftLearning, Requeued
<1>5. CASE u.entry.kind = "Learning"
  <2>1. u.entry \in ToSet(u.before.learning) /\ u.entry.due <= AheadCutoff(u.before)
    BY <1>5 DEF UpdateOK, Window
  <2>2. LeftMain(u) = u.before.main
    BY <1>5 DEF LeftMain
  <2>3. QED
    BY <1>1, <1>2, <1>3, <1>4, <1>5, <2>1, <2>2, OneEntry
<1>6. CASE u.entry.kind # "Learning"
  <2>1. u.before.main # <<>> /\ Head(u.before.main) = u.entry
    BY <1>6 DEF UpdateOK
  <2>2. LeftMain(u) = Tail(u.before.main)
    BY <1>6 DEF LeftMain
  <2>3. /\ LeftMain(u) \in Seq(MainEntry) /\ u.entry \in MainEntry
        /\ ToSet(u.before.main) = {u.entry} \cup ToSet(LeftMain(u))
        /\ \A f \in ToSet(LeftMain(u)) : f.id # u.entry.id
    BY <1>2, <1>3, <2>1, <2>2, TailSet
  <2>4. u.before.main = <<u.entry>> \o LeftMain(u)
    <3>1. /\ <<u.entry>> \o LeftMain(u) \in Seq(MainEntry)
          /\ Len(<<u.entry>> \o LeftMain(u)) = Len(LeftMain(u)) + 1
          /\ (<<u.entry>> \o LeftMain(u))[1] = u.entry
          /\ \A i \in 1..Len(LeftMain(u)) : (<<u.entry>> \o LeftMain(u))[i + 1] = LeftMain(u)[i]
      BY <2>3, ConsSet
    <3>2. /\ Len(LeftMain(u)) = Len(u.before.main) - 1
          /\ \A i \in 1..Len(LeftMain(u)) : LeftMain(u)[i] = u.before.main[i + 1]
          /\ Len(u.before.main) \in Nat /\ u.before.main[1] = u.entry
      BY <1>2, <2>1, <2>2, HeadTailProperties, SeqFacts
    <3>3. Len(<<u.entry>> \o LeftMain(u)) = Len(u.before.main)
      BY <3>1, <3>2
    <3>4. ASSUME NEW i \in 1..Len(u.before.main)
          PROVE  u.before.main[i] = (<<u.entry>> \o LeftMain(u))[i]
      <4>1. CASE i = 1
        BY <3>1, <3>2, <4>1
      <4>2. CASE i # 1
        <5>1. i - 1 \in 1..Len(LeftMain(u)) /\ (i - 1) + 1 = i
          BY <3>2, <4>2
        <5>2. QED
          BY <3>1, <3>2, <5>1
      <4>3. QED
        BY <4>1, <4>2
    <3>5. QED
      BY <1>2, <3>1, <3>3, <3>4, SeqEqual
  <2>5. \A f \in ToSet(u.before.learning) : f.id # u.entry.id
    BY <1>1, <1>3, <2>3, OneEntry
  <2>6. QED
    BY <1>4, <1>6, <2>1, <2>3, <2>4, <2>5
<1>7. QED
  BY <1>5, <1>6

\* remove_intraday_learning_card() of a card that waits.
LEMMA RemovedIs ==
  ASSUME NEW q \in CardQueues, OneEntryPerCard(q), NEW e \in ToSet(q.learning)
  PROVE  LET r == RemoveLearning(q, e.id) IN
         /\ r \in CardQueues /\ OneEntryPerCard(r) /\ SameMain(q, r) /\ r.cutoff = q.cutoff
         /\ ToSet(r.learning) = ToSet(q.learning) \ {e}
         /\ r.counts.learning = IF e.due <= AheadCutoff(q) THEN Saturating(q.counts.learning, 1)
                                ELSE q.counts.learning
<1> DEFINE r == RemoveLearning(q, e.id)
           i == LearningIndex(q, e.id)
           less == IF e.due <= AheadCutoff(q) THEN Saturating(q.counts.learning, 1)
                   ELSE q.counts.learning
<1>1. q.learning \in Seq(LearnEntry) /\ q.counts.learning \in Nat
  BY QueueFields
<1>2. HasLearning(q, e.id)
  BY HasIs
<1>3. i \in 1..Len(q.learning) /\ q.learning[i] = e
  <2>1. i \in 1..Len(q.learning) /\ q.learning[i].id = e.id /\ q.learning[i] \in ToSet(q.learning)
    BY <1>2, IndexIs
  <2>2. QED
    BY <2>1, OneEntry
<1>4. Distinct(q.main) /\ Distinct(q.learning) /\ \A f \in ToSet(q.main), g \in ToSet(q.learning) : f.id # g.id
  BY DEF OneEntryPerCard
<1> HIDE DEF i
<1>5. r = [q EXCEPT !.learning = RemoveAt(q.learning, i), !.counts.learning = less]
  BY <1>2, <1>3 DEF RemoveLearning, i
<1>6. less \in Nat
  BY <1>1 DEF Saturating
<1> HIDE DEF less
<1>7. /\ RemoveAt(q.learning, i) \in Seq(LearnEntry) /\ Distinct(RemoveAt(q.learning, i))
      /\ ToSet(RemoveAt(q.learning, i)) = ToSet(q.learning) \ {e}
  BY <1>1, <1>3, <1>4, RemoveSet
<1>8. r \in CardQueues
  BY <1>5, <1>6, <1>7 DEF CardQueues
<1>9. /\ r.main = q.main /\ r.learning = RemoveAt(q.learning, i) /\ r.cutoff = q.cutoff
      /\ r.day = q.day /\ r.build = q.build
      /\ r.counts.new = q.counts.new /\ r.counts.review = q.counts.review
      /\ r.counts.learning = less
  BY <1>5 DEF CardQueues
<1> HIDE DEF r
<1>10. OneEntryPerCard(r)
  BY <1>4, <1>7, <1>9 DEF OneEntryPerCard
<1>11. QED
  BY <1>7, <1>8, <1>9, <1>10 DEF SameMain, r, less

\* push_undo_entry() of a card that does not wait.
LEMMA PushedIs ==
  ASSUME NEW q \in CardQueues, OneEntryPerCard(q), NEW e \in MainEntry \cup LearnEntry,
         \A f \in Entries(q) : f.id # e.id
  PROVE  LET r == PushUndoEntry(q, e) IN
         /\ r \in CardQueues /\ OneEntryPerCard(r)
         /\ r.cutoff = q.cutoff /\ r.day = q.day /\ r.build = q.build
         /\ r.main = IF e.kind = "Learning" THEN q.main ELSE <<e>> \o q.main
         /\ ToSet(r.learning) = IF e.kind = "Learning" THEN ToSet(q.learning) \cup {e} ELSE ToSet(q.learning)
         /\ r.counts.new = IF e.kind = "New" THEN q.counts.new + 1 ELSE q.counts.new
         /\ r.counts.review = IF e.kind = "Review" THEN q.counts.review + 1 ELSE q.counts.review
         /\ r.counts.learning = IF e.kind \in {"Learning", "DayLearn"} THEN q.counts.learning + 1
                                ELSE q.counts.learning
<1> DEFINE r == PushUndoEntry(q, e)
<1>1. /\ q.main \in Seq(MainEntry) /\ q.learning \in Seq(LearnEntry)
      /\ q.counts.learning \in Nat /\ q.counts.new \in Nat /\ q.counts.review \in Nat
      /\ q.counts = [new |-> q.counts.new, learning |-> q.counts.learning, review |-> q.counts.review]
  BY QueueFields
<1>2. /\ Distinct(q.main) /\ Distinct(q.learning)
      /\ \A f \in ToSet(q.main), g \in ToSet(q.learning) : f.id # g.id
      /\ \A f \in ToSet(q.main) : f.id # e.id
      /\ \A f \in ToSet(q.learning) : f.id # e.id
  BY DEF OneEntryPerCard, Entries
<1>3. CASE e.kind = "Learning"
  <2>1. e \in LearnEntry
    BY <1>3, EntryFacts
  <2>2. /\ <<e>> \o q.learning \in Seq(LearnEntry) /\ Distinct(<<e>> \o q.learning)
        /\ ToSet(<<e>> \o q.learning) = {e} \cup ToSet(q.learning)
    BY <1>1, <1>2, <2>1, ConsSet
  <2>3. r = [q EXCEPT !.learning = <<e>> \o q.learning, !.counts.learning = q.counts.learning + 1]
    BY <1>3 DEF PushUndoEntry
  <2>4. q.counts.learning + 1 \in Nat
    BY <1>1
  <2>5. r \in CardQueues
    BY <2>2, <2>3, <2>4 DEF CardQueues
  <2>6. /\ r.main = q.main /\ r.learning = <<e>> \o q.learning /\ r.cutoff = q.cutoff
        /\ r.day = q.day /\ r.build = q.build
        /\ r.counts.new = q.counts.new /\ r.counts.review = q.counts.review
        /\ r.counts.learning = q.counts.learning + 1
    BY <2>3 DEF CardQueues
  <2> HIDE DEF r
  <2>7. OneEntryPerCard(r)
    BY <1>2, <2>2, <2>6 DEF OneEntryPerCard
  <2>8. QED
    BY <1>3, <2>2, <2>5, <2>6, <2>7 DEF r
<1>4. CASE e.kind # "Learning"
  <2>1. e \in MainEntry /\ e.kind \in {"New", "DayLearn", "Review"}
    BY <1>4, EntryFacts
  <2>2. /\ <<e>> \o q.main \in Seq(MainEntry) /\ Distinct(<<e>> \o q.main)
        /\ ToSet(<<e>> \o q.main) = {e} \cup ToSet(q.main)
    BY <1>1, <1>2, <2>1, ConsSet
  <2> DEFINE counts == [q.counts EXCEPT ![CountOf(e.kind)] = @ + 1]
  <2>3. r = [q EXCEPT !.main = <<e>> \o q.main, !.counts = counts]
    BY <1>4 DEF PushUndoEntry, CardQueues
  <2>4. CountOf("New") = "new" /\ CountOf("Review") = "review" /\ CountOf("DayLearn") = "learning"
    BY DEF CountOf
  <2>5. q.counts \in [new: Nat, learning: Nat, review: Nat]
    BY DEF CardQueues
  <2>6. /\ counts \in [new: Nat, learning: Nat, review: Nat]
        /\ counts.new = IF e.kind = "New" THEN q.counts.new + 1 ELSE q.counts.new
        /\ counts.review = IF e.kind = "Review" THEN q.counts.review + 1 ELSE q.counts.review
        /\ counts.learning = IF e.kind \in {"Learning", "DayLearn"} THEN q.counts.learning + 1
                             ELSE q.counts.learning
    <3>1. CASE e.kind = "New"
      <4>1. counts = [q.counts EXCEPT !["new"] = q.counts.new + 1]
        BY <2>4, <2>5, <3>1
      <4>2. QED
        BY <1>1, <2>5, <3>1, <4>1
    <3>2. CASE e.kind = "Review"
      <4>1. counts = [q.counts EXCEPT !["review"] = q.counts.review + 1]
        BY <2>4, <2>5, <3>2
      <4>2. QED
        BY <1>1, <2>5, <3>2, <4>1
    <3>3. CASE e.kind = "DayLearn"
      <4>1. counts = [q.counts EXCEPT !["learning"] = q.counts.learning + 1]
        BY <2>4, <2>5, <3>3
      <4>2. QED
        BY <1>1, <2>5, <3>3, <4>1
    <3>4. QED
      BY <2>1, <3>1, <3>2, <3>3
  <2> HIDE DEF counts
  <2>7. r \in CardQueues
    BY <2>2, <2>3, <2>6 DEF CardQueues
  <2>8. /\ r.main = <<e>> \o q.main /\ r.learning = q.learning /\ r.cutoff = q.cutoff
        /\ r.day = q.day /\ r.build = q.build /\ r.counts = counts
    BY <2>3 DEF CardQueues
  <2> HIDE DEF r
  <2>9. OneEntryPerCard(r)
    BY <1>2, <2>2, <2>8 DEF OneEntryPerCard
  <2>10. QED
    BY <1>4, <2>6, <2>7, <2>8, <2>9 DEF r
<1>5. QED
  BY <1>3, <1>4

\* What queues say in common.
LEMMA SameView ==
  ASSUME NEW p, NEW q
  PROVE  View(p) = View(q) <=> /\ p.main = q.main /\ ToSet(p.learning) = ToSet(q.learning)
                               /\ p.build = q.build /\ p.day = q.day
  BY DEF View

LEMMA LeftView ==
  ASSUME NEW q, NEW u
  PROVE  View(q) = After(u) <=> /\ q.main = LeftMain(u) /\ ToSet(q.learning) = LeftLearning(u)
                                /\ q.build = u.build /\ q.day = u.before.day
  BY DEF View, After

\* The counts of before an answer, from those it left.
LEMMA CountsBefore ==
  ASSUME NEW u \in QueueUpdate, UpdateOK(u)
  PROVE  LET day == Cardinality(Kinds(ToSet(LeftMain(u)), "DayLearn"))
             wait == Cardinality(InWindow(ToSet(u.before.learning) \ {u.entry}, AheadCutoff(u.before)))
         IN
         /\ day \in Nat /\ wait \in Nat
         /\ u.before.counts.new = Cardinality(Kinds(ToSet(LeftMain(u)), "New"))
                                  + (IF u.entry.kind = "New" THEN 1 ELSE 0)
         /\ u.before.counts.review = Cardinality(Kinds(ToSet(LeftMain(u)), "Review"))
                                     + (IF u.entry.kind = "Review" THEN 1 ELSE 0)
         /\ u.before.counts.learning = day + wait
                                       + (IF u.entry.kind \in {"DayLearn", "Learning"} THEN 1 ELSE 0)
         /\ u.snapshot.learning = day + wait
              + (IF u.requeue # None /\ u.requeue.due <= AheadCutoff(u.before) THEN 1 ELSE 0)
<1> DEFINE b == u.before
           day == Cardinality(Kinds(ToSet(LeftMain(u)), "DayLearn"))
           rest == ToSet(b.learning) \ {u.entry}
           wait == Cardinality(InWindow(rest, AheadCutoff(b)))
<1>1. b \in CardQueues /\ (u.requeue # None => u.requeue \in LearnEntry)
  BY UpdateFields
<1>2. b.main \in Seq(MainEntry) /\ IsFiniteSet(ToSet(b.learning))
  BY <1>1, QueueFields
<1>3. Distinct(b.main)
      /\ b.counts.new = Cardinality(Kinds(ToSet(b.main), "New"))
      /\ b.counts.review = Cardinality(Kinds(ToSet(b.main), "Review"))
      /\ b.counts.learning = Cardinality(Kinds(ToSet(b.main), "DayLearn"))
                             + Cardinality(InWindow(ToSet(b.learning), AheadCutoff(b)))
  BY CountedAs DEF UpdateOK, Agree, CountsMatch, OneEntryPerCard
<1>4. IsFiniteSet(rest)
  BY <1>2, FS_RemoveElement
<1>5. day \in Nat /\ wait \in Nat
  <2>1. IsFiniteSet(ToSet(LeftMain(u)))
    BY LeftFacts, ToSetFinite
  <2>2. QED
    BY <1>4, <2>1, KindCount, WindowCount
<1>6. u.snapshot.learning = day
        + Cardinality(InWindow(rest \cup Requeued(u), AheadCutoff(b)))
  BY CountedAs DEF UpdateOK, LeftLearning, Kinds
<1> HIDE DEF day
<1>7. u.snapshot.learning = day + wait
        + (IF u.requeue # None /\ u.requeue.due <= AheadCutoff(b) THEN 1 ELSE 0)
  <2>1. CASE u.requeue = None
    <3>1. rest \cup Requeued(u) = rest
      BY <2>1 DEF Requeued
    <3>2. u.snapshot.learning = day + wait
      BY <1>6, <3>1
    <3> HIDE DEF wait, rest
    <3>3. QED
      BY <1>5, <2>1, <3>2
  <2>2. CASE u.requeue # None
    <3>1. rest \cup Requeued(u) = rest \cup {u.requeue}
      BY <2>2 DEF Requeued
    <3>2. u.requeue.id = u.entry.id
      BY <2>2 DEF UpdateOK
    <3>3. u.requeue \notin rest
      BY <3>2, LeftFacts
    <3>4. Cardinality(InWindow(rest \cup {u.requeue}, AheadCutoff(b)))
            = IF u.requeue.due <= AheadCutoff(b) THEN wait + 1 ELSE wait
      BY <1>4, <3>3, WindowCount
    <3>5. u.snapshot.learning = day + Cardinality(InWindow(rest \cup {u.requeue}, AheadCutoff(b)))
      BY <1>6, <3>1
    <3> HIDE DEF wait, rest
    <3>6. CASE u.requeue.due <= AheadCutoff(b)
      BY <1>5, <2>2, <3>4, <3>5, <3>6
    <3>7. CASE ~ (u.requeue.due <= AheadCutoff(b))
      BY <1>5, <2>2, <3>4, <3>5, <3>7
    <3>8. QED
      BY <3>6, <3>7
  <2>3. QED
    BY <2>1, <2>2
<1>8. CASE u.entry.kind = "Learning"
  <2>1. u.entry \in ToSet(b.learning) /\ u.entry.due <= AheadCutoff(b)
    BY <1>8, LeftFacts
  <2>2. Cardinality(InWindow(ToSet(b.learning), AheadCutoff(b))) = wait + 1
    <3>1. /\ wait = Cardinality(InWindow(ToSet(b.learning), AheadCutoff(b))) - 1
          /\ Cardinality(InWindow(ToSet(b.learning), AheadCutoff(b))) \in Nat
      BY <1>2, <2>1, WindowCount
    <3>2. QED
      BY <3>1
  <2>3. LeftMain(u) = b.main
    BY <1>8 DEF LeftMain
  <2>4. Cardinality(Kinds(ToSet(b.main), "New")) \in Nat
        /\ Cardinality(Kinds(ToSet(b.main), "Review")) \in Nat
    BY <1>1, CountedFinite, CountedAs
  <2> HIDE DEF wait, rest
  <2>5. QED
    BY <1>3, <1>5, <1>7, <1>8, <2>2, <2>3, <2>4 DEF day, wait, rest
<1>9. CASE u.entry.kind # "Learning"
  <2>1. u.entry \notin ToSet(b.learning) /\ b.main # <<>> /\ Head(b.main) = u.entry /\ LeftMain(u) = Tail(b.main)
    BY <1>9, LeftFacts DEF LeftMain
  <2>2. rest = ToSet(b.learning)
    BY <2>1
  <2>3. \A kind : /\ Cardinality(Kinds(ToSet(b.main), kind)) =
                       IF u.entry.kind = kind THEN Cardinality(Kinds(ToSet(LeftMain(u)), kind)) + 1
                       ELSE Cardinality(Kinds(ToSet(LeftMain(u)), kind))
                  /\ Cardinality(Kinds(ToSet(LeftMain(u)), kind)) \in Nat
    BY <1>2, <1>3, <2>1, TailCount
  <2>4. b.counts.learning = Cardinality(Kinds(ToSet(b.main), "DayLearn")) + wait
    BY <1>3, <2>2
  <2> HIDE DEF wait, rest
  <2>5. /\ b.counts.new = Cardinality(Kinds(ToSet(LeftMain(u)), "New"))
                                  + (IF u.entry.kind = "New" THEN 1 ELSE 0)
        /\ b.counts.review = Cardinality(Kinds(ToSet(LeftMain(u)), "Review"))
                                     + (IF u.entry.kind = "Review" THEN 1 ELSE 0)
    BY <1>3, <2>3
  <2>6. b.counts.learning = day + wait + (IF u.entry.kind \in {"DayLearn", "Learning"} THEN 1 ELSE 0)
    BY <1>5, <1>9, <2>3, <2>4 DEF day
  <2>7. QED
    BY <1>5, <1>7, <2>5, <2>6 DEF day, wait, rest
<1>10. QED
  BY <1>8, <1>9

\* The undo of an answer gives back the queues of before it.
LEMMA UndoneIs ==
  ASSUME NEW u \in QueueUpdate, UpdateOK(u), queues \in CardQueues, queues # None,
         Agree(queues), View(queues) = After(u)
  PROVE  LET r == QueuesAfterUndo(u) IN
         /\ r \in CardQueues /\ Agree(r) /\ View(r) = Before(u)
         /\ r.counts = u.before.counts /\ r.cutoff = u.before.cutoff
<1> DEFINE b == u.before
           s == u.snapshot
           x == Recounted(queues, s.learning, s.cutoff)
           y == IF u.requeue = None THEN x ELSE RemoveLearning(x, u.requeue.id)
           r == PushUndoEntry(y, u.entry)
           rest == ToSet(b.learning) \ {u.entry}
           day == Cardinality(Kinds(ToSet(LeftMain(u)), "DayLearn"))
           wait == Cardinality(InWindow(rest, AheadCutoff(b)))
<1>1. /\ b \in CardQueues /\ u.entry \in MainEntry \cup LearnEntry
      /\ s.learning \in Nat /\ s.cutoff \in Nat
      /\ (u.requeue # None => u.requeue \in LearnEntry)
  BY UpdateFields
<1>2. /\ queues.main = LeftMain(u) /\ ToSet(queues.learning) = LeftLearning(u)
      /\ queues.build = u.build /\ queues.day = b.day
  BY LeftView
<1>3. /\ OneEntryPerCard(queues) /\ OneEntryPerCard(b) /\ b.build = u.build /\ CountsMatch(b)
      /\ s.cutoff = b.cutoff
      /\ queues.counts.new = Cardinality(Kinds(ToSet(LeftMain(u)), "New"))
      /\ queues.counts.review = Cardinality(Kinds(ToSet(LeftMain(u)), "Review"))
  BY <1>2, CountedAs DEF UpdateOK, Agree, CountsMatch
<1>4. QueuesAfterUndo(u) = r
  BY <1>2 DEF QueuesAfterUndo, SameBuild, RestoreCutoff, Recounted
<1>5. /\ x \in CardQueues /\ OneEntryPerCard(x) /\ SameMain(queues, x)
      /\ x.cutoff = b.cutoff /\ x.counts.learning = s.learning /\ x.learning = queues.learning
      /\ AheadCutoff(x) = AheadCutoff(b)
  <2>1. /\ x \in CardQueues /\ OneEntryPerCard(x) /\ SameMain(queues, x)
        /\ x.cutoff = s.cutoff /\ x.counts.learning = s.learning /\ x.learning = queues.learning
    BY <1>1, <1>3, RecountIs
  <2>2. QED
    BY <1>3, <2>1 DEF AheadCutoff
<1> HIDE DEF x
<1>6. /\ y \in CardQueues /\ OneEntryPerCard(y) /\ SameMain(queues, y) /\ y.cutoff = b.cutoff
      /\ ToSet(y.learning) = rest
      /\ y.counts.learning = day + wait
  <2>0. /\ day \in Nat /\ wait \in Nat
        /\ s.learning = day + wait
              + (IF u.requeue # None /\ u.requeue.due <= AheadCutoff(b) THEN 1 ELSE 0)
    BY CountsBefore
  <2> HIDE DEF day, wait
  <2>1. CASE u.requeue = None
    <3>1. y = x /\ LeftLearning(u) = rest
      BY <2>1 DEF LeftLearning, Requeued
    <3>2. s.learning = day + wait
      BY <2>0, <2>1
    <3>3. QED
      BY <1>2, <1>5, <3>1, <3>2
  <2>2. CASE u.requeue # None
    <3>1. LeftLearning(u) = rest \cup {u.requeue}
      BY <2>2 DEF LeftLearning, Requeued
    <3>2. u.requeue \notin rest
      BY <2>2, LeftFacts DEF UpdateOK
    <3>3. u.requeue \in ToSet(x.learning) /\ ToSet(x.learning) \ {u.requeue} = rest
      BY <1>2, <1>5, <3>1, <3>2
    <3>4. y = RemoveLearning(x, u.requeue.id)
      BY <2>2
    <3>5. /\ y \in CardQueues /\ OneEntryPerCard(y) /\ SameMain(x, y) /\ y.cutoff = x.cutoff
          /\ ToSet(y.learning) = rest
          /\ y.counts.learning = IF u.requeue.due <= AheadCutoff(x) THEN Saturating(x.counts.learning, 1)
                                 ELSE x.counts.learning
      <4> DEFINE z == RemoveLearning(x, u.requeue.id)
      <4>1. /\ z \in CardQueues /\ OneEntryPerCard(z) /\ SameMain(x, z) /\ z.cutoff = x.cutoff
            /\ ToSet(z.learning) = ToSet(x.learning) \ {u.requeue}
            /\ z.counts.learning = IF u.requeue.due <= AheadCutoff(x) THEN Saturating(x.counts.learning, 1)
                                   ELSE x.counts.learning
        <5> HIDE DEF rest, y
        <5>1. QED
          BY <1>5, <3>3, RemovedIs
      <4> HIDE DEF z, y
      <4>2. y = z
        BY <3>4 DEF z
      <4>3. QED
        BY <3>3, <4>1, <4>2
    <3>6. y.counts.learning = day + wait
      <4>1. CASE u.requeue.due <= AheadCutoff(b)
        <5>1. s.learning = day + wait + 1
          BY <2>0, <2>2, <4>1
        <5>2. y.counts.learning = Saturating(s.learning, 1)
          BY <1>5, <3>5, <4>1
        <5>3. QED
          BY <2>0, <5>1, <5>2 DEF Saturating
      <4>2. CASE ~ (u.requeue.due <= AheadCutoff(b))
        <5>1. s.learning = day + wait
          BY <2>0, <2>2, <4>2
        <5>2. QED
          BY <1>5, <3>5, <4>2, <5>1
      <4>3. QED
        BY <4>1, <4>2
    <3>7. QED
      BY <1>5, <3>5, <3>6 DEF SameMain
  <2>3. QED
    BY <2>1, <2>2
<1> HIDE DEF y
<1>7. \A f \in Entries(y) : f.id # u.entry.id
  <2>1. \A f \in ToSet(LeftMain(u)) : f.id # u.entry.id
    BY LeftFacts
  <2>2. \A f \in rest : f.id # u.entry.id
    BY LeftFacts
  <2>3. Entries(y) = ToSet(LeftMain(u)) \cup rest
    BY <1>2, <1>6 DEF Entries, SameMain
  <2>4. QED
    BY <2>1, <2>2, <2>3
<1>8. /\ r \in CardQueues /\ OneEntryPerCard(r)
      /\ r.cutoff = y.cutoff /\ r.day = y.day /\ r.build = y.build
      /\ r.main = IF u.entry.kind = "Learning" THEN y.main ELSE <<u.entry>> \o y.main
      /\ ToSet(r.learning) = IF u.entry.kind = "Learning" THEN ToSet(y.learning) \cup {u.entry}
                             ELSE ToSet(y.learning)
      /\ r.counts.new = IF u.entry.kind = "New" THEN y.counts.new + 1 ELSE y.counts.new
      /\ r.counts.review = IF u.entry.kind = "Review" THEN y.counts.review + 1 ELSE y.counts.review
      /\ r.counts.learning = IF u.entry.kind \in {"Learning", "DayLearn"} THEN y.counts.learning + 1
                             ELSE y.counts.learning
  BY <1>1, <1>6, <1>7, PushedIs
<1> HIDE DEF r
<1>9. r.main = b.main /\ ToSet(r.learning) = ToSet(b.learning)
  <2>1. CASE u.entry.kind = "Learning"
    <3>1. u.entry \in ToSet(b.learning) /\ LeftMain(u) = b.main
      BY <2>1, LeftFacts DEF LeftMain
    <3>2. QED
      BY <1>2, <1>6, <1>8, <2>1, <3>1 DEF SameMain
  <2>2. CASE u.entry.kind # "Learning"
    <3>1. u.entry \notin ToSet(b.learning) /\ b.main = <<u.entry>> \o LeftMain(u)
      BY <2>2, LeftFacts
    <3>2. QED
      BY <1>2, <1>6, <1>8, <2>2, <3>1 DEF SameMain
  <2>3. QED
    BY <2>1, <2>2
<1>10. r.counts = b.counts
  <2>1. /\ day \in Nat /\ wait \in Nat
        /\ b.counts.new = Cardinality(Kinds(ToSet(LeftMain(u)), "New"))
                                  + (IF u.entry.kind = "New" THEN 1 ELSE 0)
        /\ b.counts.review = Cardinality(Kinds(ToSet(LeftMain(u)), "Review"))
                                     + (IF u.entry.kind = "Review" THEN 1 ELSE 0)
        /\ b.counts.learning = day + wait
                                       + (IF u.entry.kind \in {"DayLearn", "Learning"} THEN 1 ELSE 0)
    BY CountsBefore
  <2> HIDE DEF day, wait
  <2>2. y.counts.new = Cardinality(Kinds(ToSet(LeftMain(u)), "New")) /\ y.counts.new \in Nat
    BY <1>3, <1>6, QueueFields DEF SameMain
  <2>3. y.counts.review = Cardinality(Kinds(ToSet(LeftMain(u)), "Review")) /\ y.counts.review \in Nat
    BY <1>3, <1>6, QueueFields DEF SameMain
  <2>4. r.counts.new = b.counts.new
    BY <1>8, <2>1, <2>2
  <2>5. r.counts.review = b.counts.review
    BY <1>8, <2>1, <2>3
  <2>6. r.counts.learning = b.counts.learning
    BY <1>6, <1>8, <2>1
  <2>7. r.counts \in [new: Nat, learning: Nat, review: Nat] /\ b.counts \in [new: Nat, learning: Nat, review: Nat]
    BY <1>1, <1>8 DEF CardQueues
  <2>8. QED
    BY <2>4, <2>5, <2>6, <2>7
<1>11. View(r) = Before(u)
  BY <1>2, <1>3, <1>6, <1>8, <1>9, SameView DEF Before, SameMain
<1>12. Agree(r)
  BY <1>1, <1>3, <1>6, <1>8, <1>9, <1>10, AgreeAs
<1>13. QED
  BY <1>4, <1>6, <1>8, <1>10, <1>11, <1>12

\* Its redo leaves what the answer left, with the cutoff of the answer.
LEMMA RedoneIs ==
  ASSUME NEW u \in QueueUpdate, UpdateOK(u), queues \in CardQueues, queues # None,
         Agree(queues), View(queues) = Before(u), NEW r \in QueuesAfterRedo(u)
  PROVE  r \in CardQueues /\ Agree(r) /\ View(r) = After(u) /\ r.cutoff = u.before.cutoff
<1> DEFINE b == u.before
           s == u.snapshot
           p == PopEntry(queues, u.entry.id)
           rest == ToSet(b.learning) \ {u.entry}
           day == Cardinality(Kinds(ToSet(LeftMain(u)), "DayLearn"))
<1>1. /\ b \in CardQueues /\ u.entry \in MainEntry \cup LearnEntry
      /\ s.learning \in Nat /\ s.cutoff \in Nat
      /\ (u.requeue # None => u.requeue \in LearnEntry)
  BY UpdateFields
<1>2. /\ queues.main = b.main /\ ToSet(queues.learning) = ToSet(b.learning)
      /\ queues.build = b.build /\ queues.day = b.day
  BY SameView DEF Before
<1>3. OneEntryPerCard(queues) /\ b.build = u.build /\ s.cutoff = b.cutoff
      /\ s.learning = day + Cardinality(LeftWindow(u))
  BY DEF UpdateOK, Agree, Kinds
<1>4. PICK q : /\ q \in IF u.requeue = None THEN {p} ELSE InsertLearning(p, u.requeue)
               /\ r = Recounted(q, s.learning, s.cutoff)
  BY <1>2, <1>3 DEF QueuesAfterRedo, SameBuild, RestoreCutoff, Recounted
<1>5. \/ u.entry \in ToSet(queues.learning)
      \/ queues.main # <<>> /\ u.entry = Head(queues.main)
  BY <1>2, LeftFacts
<1>6. /\ p \in CardQueues /\ OneEntryPerCard(p)
      /\ p.day = queues.day /\ p.build = queues.build
      /\ p.main = IF u.entry.kind = "Learning" THEN queues.main ELSE Tail(queues.main)
      /\ ToSet(p.learning) = ToSet(queues.learning) \ {u.entry}
      /\ \A f \in Entries(p) : f.id # u.entry.id
      /\ p.counts.new = Cardinality(OfKind(p, "New"))
      /\ p.counts.review = Cardinality(OfKind(p, "Review"))
  <2> DEFINE e == u.entry
             z == PopEntry(queues, e.id)
  <2> HIDE DEF e
  <2>1. \/ e \in ToSet(queues.learning)
        \/ queues.main # <<>> /\ e = Head(queues.main)
    BY <1>5 DEF e
  <2>2. /\ z \in CardQueues /\ OneEntryPerCard(z)
        /\ z.day = queues.day /\ z.build = queues.build
        /\ z.main = IF e.kind = "Learning" THEN queues.main ELSE Tail(queues.main)
        /\ ToSet(z.learning) = ToSet(queues.learning) \ {e}
        /\ \A f \in Entries(z) : f \in Entries(queues) /\ f.id # e.id
        /\ z.counts.new = Cardinality(OfKind(z, "New"))
        /\ z.counts.review = Cardinality(OfKind(z, "Review"))
    BY <2>1, PopIs
  <2>3. QED
    BY <2>2 DEF e
<1> HIDE DEF p
<1>7. p.main = LeftMain(u) /\ ToSet(p.learning) = rest
  BY <1>2, <1>6 DEF LeftMain
<1>8. /\ q \in CardQueues /\ OneEntryPerCard(q) /\ SameMain(p, q)
      /\ ToSet(q.learning) = LeftLearning(u)
  <2>1. CASE u.requeue = None
    <3>1. q = p /\ LeftLearning(u) = rest
      BY <1>4, <2>1 DEF LeftLearning, Requeued
    <3>2. QED
      BY <1>6, <1>7, <3>1 DEF SameMain
  <2>2. CASE u.requeue # None
    <3>1. LeftLearning(u) = rest \cup {u.requeue}
      BY <2>2 DEF LeftLearning, Requeued
    <3>2. q \in InsertLearning(p, u.requeue) /\ u.requeue \in LearnEntry /\ u.requeue.id = u.entry.id
      BY <1>1, <1>4, <2>2 DEF UpdateOK
    <3>3. \A f \in Entries(p) : f.id # u.requeue.id
      BY <1>6, <3>2
    <3>4. q \in CardQueues /\ OneEntryPerCard(q) /\ SameMain(p, q)
          /\ ToSet(q.learning) = ToSet(p.learning) \cup {u.requeue}
      BY <1>6, <3>2, <3>3, InsertIs
    <3>5. QED
      BY <1>7, <3>1, <3>4
  <2>3. QED
    BY <2>1, <2>2
<1>9. /\ r \in CardQueues /\ OneEntryPerCard(r) /\ SameMain(q, r)
      /\ r.cutoff = b.cutoff /\ r.counts.learning = s.learning /\ r.learning = q.learning
  <2> DEFINE z == Recounted(q, s.learning, s.cutoff)
  <2>1. /\ z \in CardQueues /\ OneEntryPerCard(z) /\ SameMain(q, z)
        /\ z.cutoff = s.cutoff /\ z.counts.learning = s.learning /\ z.learning = q.learning
    <3>1. q \in CardQueues /\ OneEntryPerCard(q) /\ s.learning \in Nat /\ s.cutoff \in Nat
      BY <1>1, <1>8
    <3>2. PICK n \in Nat : n = s.learning
      BY <3>1
    <3>3. PICK t \in Nat : t = s.cutoff
      BY <3>1
    <3> DEFINE y == Recounted(q, n, t)
    <3>4. /\ y \in CardQueues /\ OneEntryPerCard(y) /\ SameMain(q, y)
          /\ y.cutoff = t /\ y.counts.learning = n /\ y.learning = q.learning
      <4>1. q \in CardQueues /\ OneEntryPerCard(q) /\ n \in Nat /\ t \in Nat
        BY <3>1
      <4>2. QED
        BY ONLY <4>1, RecountIs
    <3>5. y = z
      BY <3>2, <3>3
    <3> HIDE DEF y, z
    <3>6. QED
      BY <3>2, <3>3, <3>4, <3>5
  <2>2. r = z
    BY <1>4
  <2> HIDE DEF z
  <2>3. QED
    BY <1>3, <2>1, <2>2
<1>10. View(r) = After(u)
  BY <1>2, <1>3, <1>6, <1>7, <1>8, <1>9, LeftView DEF SameMain
<1>11. CountsMatch(r)
  <2>1. \A kind : OfKind(r, kind) = OfKind(p, kind) /\ OfKind(r, kind) = Kinds(ToSet(LeftMain(u)), kind)
    BY <1>7, <1>8, <1>9, CountedAs DEF SameMain
  <2>2. AheadCutoff(r) = AheadCutoff(b) /\ Window(r) = LeftWindow(u)
    BY <1>8, <1>9, CountedAs DEF AheadCutoff
  <2>3. r.counts.learning = Cardinality(OfKind(r, "DayLearn")) + Cardinality(Window(r))
    BY <1>3, <1>9, <2>1, <2>2
  <2>4. QED
    BY <1>6, <1>8, <1>9, <2>1, <2>3 DEF CountsMatch, SameMain
<1>12. QED
  BY <1>9, <1>10, <1>11 DEF Agree

LEMMA NowFacts ==
  ASSUME TypeInv
  PROVE  now \in Nat /\ now >= Epoch /\ Today \in Nat /\ Epoch \in Nat \ {0} /\ DayLen \in Nat \ {0}
         /\ NextDayAt \in Nat /\ Today + 1 < Epoch /\ LearnAhead \in Nat
<1>1. /\ now \in Nat /\ now >= Epoch /\ (now - Epoch) \div DayLen + 1 < Epoch
      /\ Epoch \in Nat \ {0} /\ DayLen \in Nat \ {0} /\ LearnAhead \in Nat
  BY TimeAssumption DEF TypeInv
<1>2. Today \in Nat /\ Today + 1 < Epoch
  <2>1. now - Epoch \in Nat
    BY <1>1
  <2>2. QED
    BY <1>1, <2>1 DEF Today
<1>3. NextDayAt \in Nat
  <2>1. \A m, n \in Nat : m * n \in Nat
    OBVIOUS
  <2>2. (Today + 1) * DayLen \in Nat
    BY <1>1, <1>2, <2>1
  <2>3. QED
    BY <1>1, <2>2 DEF NextDayAt
<1>4. QED
  BY <1>1, <1>2, <1>3

LEMMA CardFields ==
  ASSUME NEW k \in Card
  PROVE  /\ k.queue \in CardQueue /\ k.ctype \in {"New", "Learn", "Review"} /\ k.due \in Nat
         /\ k.mtime \in Nat /\ k.reps \in {0, 1} /\ k.preview \in BOOLEAN
  BY DEF Card

LEMMA RequeueDueIs ==
  ASSUME NEW q \in CardQueues, NEW due \in Nat
  PROVE  RequeueDue(q, due) \in Nat
<1>1. q.learning \in Seq(LearnEntry)
  BY QueueFields
<1>2. CASE q.learning # <<>>
  <2>1. Head(q.learning).due \in Nat
    BY <1>1, <1>2, HeadTailProperties, EntryFacts
  <2>2. QED
    BY <2>1 DEF RequeueDue
<1>3. CASE q.learning = <<>>
  BY <1>3 DEF RequeueDue
<1>4. QED
  BY <1>2, <1>3

\* An answer in the reviewer takes the entry on top out of the queues, puts its
\* card back when it is due again today, and records what it did.
LEMMA AnsweredIs ==
  ASSUME TypeInv, queues # None, Agree(queues), queues.cutoff <= now,
         TopEntry(queues) # None, NEW next \in Card,
         NEW x \in QueueUpdates(TopEntry(queues).id, next)
  PROVE  LET top == TopEntry(queues)
             u == x.update
             requeue == StillDueToday(next) /\ ~FinishedPreview(card[top.id], next) IN
         /\ top.id \in Cards
         /\ x.queues \in CardQueues /\ Agree(x.queues) /\ x.queues.cutoff = now
         /\ x.queues.build = queues.build /\ x.queues.day = queues.day
         /\ u \in QueueUpdate /\ UpdateOK(u) /\ u.build = queues.build
         /\ u.before = queues /\ u.entry = top
         /\ View(x.queues) = After(u)
         /\ requeue => u.requeue # None /\ u.requeue.mtime = next.mtime
         /\ ~requeue => u.requeue = None
<1> DEFINE top == TopEntry(queues)
           c == top.id
           u == x.update
           p == PopEntry(queues, c)
           requeue == StillDueToday(next) /\ ~FinishedPreview(card[c], next)
           entry == LearningEntry(c, next, RequeueDue(p, next.due))
           placed == IF requeue THEN InsertLearning(p, entry) ELSE {p}
<1>1. queues \in CardQueues /\ now \in Nat
  BY NowFacts DEF TypeInv
<1>2. top \in MainEntry \cup LearnEntry /\ OnTop(queues, top) /\ c \in Cards
  <2>1. top \in MainEntry \cup LearnEntry /\ OnTop(queues, top)
    BY <1>1, TopIs
  <2>2. QED
    BY <2>1, EntryFacts
<1>3. \/ top \in ToSet(queues.learning)
      \/ queues.main # <<>> /\ top = Head(queues.main)
  BY <1>2 DEF OnTop, Window
<1> HIDE DEF top
<1>4. /\ EntryOf(queues, c) = top /\ CanPop(queues, c)
      /\ p \in CardQueues /\ OneEntryPerCard(p)
      /\ p.cutoff = queues.cutoff /\ p.day = queues.day /\ p.build = queues.build
      /\ p.main = IF top.kind = "Learning" THEN queues.main ELSE Tail(queues.main)
      /\ ToSet(p.learning) = ToSet(queues.learning) \ {top}
      /\ \A f \in Entries(p) : f \in Entries(queues) /\ f.id # top.id
      /\ CountsMatch(p)
  <2>1. /\ CanPop(queues, c) /\ EntryOf(queues, c) = top
        /\ p \in CardQueues /\ OneEntryPerCard(p)
        /\ p.cutoff = queues.cutoff /\ p.day = queues.day /\ p.build = queues.build
        /\ p.main = IF top.kind = "Learning" THEN queues.main ELSE Tail(queues.main)
        /\ ToSet(p.learning) = ToSet(queues.learning) \ {top}
        /\ \A f \in Entries(p) : f \in Entries(queues) /\ f.id # top.id
        /\ p.counts.new = Cardinality(OfKind(p, "New"))
        /\ p.counts.review = Cardinality(OfKind(p, "Review"))
        /\ OnTop(queues, top) => CountsMatch(p)
    BY <1>1, <1>3, PopIs
  <2>2. QED
    BY <1>2, <2>1
<1>5. PICK q \in placed :
        x = [queues |-> AdvanceCutoff(q),
             update |-> [entry |-> EntryOf(queues, c), requeue |-> IF requeue THEN entry ELSE None,
                         build |-> queues.build, snapshot |-> Snapshot(q), before |-> queues]]
  BY DEF QueueUpdates, top
<1> HIDE DEF p
<1>6. entry \in LearnEntry /\ entry.id = c /\ entry.mtime = next.mtime /\ entry # None
  <2>1. RequeueDue(p, next.due) \in Nat
    BY <1>4, CardFields, RequeueDueIs
  <2>2. next.mtime \in Nat /\ next.reps \in {0, 1}
    BY CardFields
  <2>3. entry \in LearnEntry /\ entry.id = c /\ entry.mtime = next.mtime
    BY <1>2, <2>1, <2>2 DEF LearnEntry, LearningEntry
  <2>4. QED
    BY <2>3, NoneAssumption
<1> HIDE DEF entry
<1>7. /\ q \in CardQueues /\ OneEntryPerCard(q) /\ SameMain(p, q) /\ q.cutoff = queues.cutoff
      /\ CountsMatch(q)
      /\ ToSet(q.learning) = ToSet(p.learning) \cup (IF requeue THEN {entry} ELSE {})
  <2>1. CASE requeue
    <3>1. q \in InsertLearning(p, entry)
      BY <2>1
    <3>2. /\ q \in CardQueues /\ OneEntryPerCard(q) /\ SameMain(p, q) /\ q.cutoff = p.cutoff
          /\ ToSet(q.learning) = ToSet(p.learning) \cup {entry}
          /\ CountsMatch(p) => CountsMatch(q)
      BY <1>4, <1>6, <3>1, InsertIs
    <3>3. QED
      BY <1>4, <2>1, <3>2
  <2>2. CASE ~requeue
    <3>1. q = p
      BY <2>2
    <3>2. QED
      BY <1>4, <2>2, <3>1 DEF SameMain
  <2>3. QED
    BY <2>1, <2>2
<1>8. /\ u.entry = top /\ u.requeue = IF requeue THEN entry ELSE None
      /\ u.build = queues.build /\ u.snapshot = Snapshot(q) /\ u.before = queues
      /\ x.queues = AdvanceCutoff(q)
      /\ u = [entry |-> top, requeue |-> IF requeue THEN entry ELSE None,
              build |-> queues.build, snapshot |-> Snapshot(q), before |-> queues]
  BY <1>4, <1>5
<1> HIDE DEF requeue
<1>9. u \in QueueUpdate
  <2>1. queues.build \in Nat /\ q.counts.learning \in Nat /\ q.cutoff \in Nat
    BY <1>1, <1>7, QueueFields
  <2>2. Snapshot(q) \in [learning: Nat, cutoff: Nat]
    BY <2>1 DEF Snapshot
  <2>3. (IF requeue THEN entry ELSE None) \in LearnEntry \cup {None}
    BY <1>6
  <2> HIDE DEF u
  <2>4. QED
    BY <1>1, <1>2, <1>8, <2>1, <2>2, <2>3 DEF QueueUpdate
<1> HIDE DEF u
<1>10. Requeued(u) = IF requeue THEN {entry} ELSE {}
  BY <1>6, <1>8 DEF Requeued
<1>11. LeftMain(u) = q.main /\ LeftLearning(u) = ToSet(q.learning)
  BY <1>4, <1>7, <1>8, <1>10 DEF LeftMain, LeftLearning, SameMain
<1>12. UpdateOK(u)
  <2>1. u.snapshot.cutoff = queues.cutoff
    BY <1>7, <1>8 DEF Snapshot
  <2>2. u.snapshot.learning = Cardinality({e \in ToSet(LeftMain(u)) : e.kind = "DayLearn"})
                              + Cardinality(LeftWindow(u))
    <3>1. u.snapshot.learning = Cardinality(OfKind(q, "DayLearn")) + Cardinality(Window(q))
      BY <1>7, <1>8 DEF Snapshot, CountsMatch
    <3>2. Window(q) = LeftWindow(u)
      BY <1>7, <1>8, <1>11 DEF Window, LeftWindow, AheadCutoff
    <3>3. OfKind(q, "DayLearn") = {e \in ToSet(LeftMain(u)) : e.kind = "DayLearn"}
      BY <1>11 DEF OfKind
    <3>4. QED
      BY <3>1, <3>2, <3>3
  <2>3. u.requeue # None => u.requeue.id = u.entry.id
    BY <1>6, <1>8
  <2>4. IF u.entry.kind = "Learning" THEN u.entry \in Window(u.before)
        ELSE u.before.main # <<>> /\ Head(u.before.main) = u.entry
    BY <1>2, <1>8 DEF OnTop
  <2>5. QED
    BY <1>8, <2>1, <2>2, <2>3, <2>4 DEF UpdateOK
<1>13. /\ x.queues \in CardQueues /\ Agree(x.queues) /\ SameMain(q, x.queues)
       /\ x.queues.learning = q.learning /\ x.queues.cutoff = now
  <2> DEFINE r == AdvanceCutoff(q)
  <2>1. q.cutoff <= now /\ Agree(q)
    BY <1>7 DEF Agree
  <2>2. r \in CardQueues /\ Agree(r) /\ SameMain(q, r) /\ r.learning = q.learning /\ r.cutoff = now
    BY <1>1, <1>7, <2>1, AdvanceIs
  <2> HIDE DEF r
  <2>3. x.queues = r
    BY <1>8 DEF r
  <2>4. QED
    BY <2>2, <2>3
<1>14. x.queues.build = queues.build /\ x.queues.day = queues.day
  BY <1>4, <1>7, <1>13 DEF SameMain
<1>15. View(x.queues) = After(u)
  BY <1>8, <1>11, <1>13, <1>14, LeftView DEF SameMain
<1>16. QED
  BY <1>2, <1>6, <1>8, <1>9, <1>12, <1>13, <1>14, <1>15 DEF u, requeue, top

(***************************************************************************)
(* Building                                                                *)
(***************************************************************************)
Hierarchical(mode) == (mode.daylearn => mode.review) /\ (mode.review => mode.new)
KindBuried(mode, kind) ==
  \/ kind = "New" /\ mode.new
  \/ kind = "Review" /\ mode.review
  \/ kind = "DayLearn" /\ mode.daylearn
\* No card whose kind is buried waits together with a sibling.
NoBuriedSiblings(mode, q) ==
  \A e, f \in Entries(q) : e.id # f.id /\ Note[e.id] = Note[f.id] => ~KindBuried(mode, e.kind)

\* The entry describes its card.
FreshEntry(e, k) == /\ k.mtime = e.mtime
                    /\ IF e.kind = "Learning" THEN k.queue \in IntradayQueues ELSE k.queue = e.kind

LEMMA ImageCount ==
  ASSUME NEW C, IsFiniteSet(C), NEW f, DOMAIN f = C, \A c, d \in C : f[c] = f[d] => c = d
  PROVE  /\ IsFiniteSet({f[c] : c \in C})
         /\ Cardinality({f[c] : c \in C}) = Cardinality(C)
<1> DEFINE T == {f[c] : c \in C}
           g == [c \in C |-> f[c]]
<1>1. g \in [C -> T] /\ \A c \in C : g[c] = f[c]
  OBVIOUS
<1>2. g \in Injection(C, T) /\ g \in Surjection(C, T)
  BY <1>1 DEF Injection, IsInjective, Surjection
<1>3. ExistsBijection(C, T)
  BY <1>2 DEF ExistsBijection, Bijection
<1>4. QED
  BY <1>3, FS_Bijection

LEMMA BuiltIs ==
  ASSUME TypeInv, NEW cards \in [Cards -> Card], NEW q \in BuiltQueues(cards)
  PROVE  /\ q \in CardQueues /\ Agree(q) /\ q.cutoff = now /\ q.day = Today /\ q.build = builds + 1
         /\ \A e \in Entries(q) : FreshEntry(e, cards[e.id])
         /\ \A c \in Cards : cards[c].queue \in IntradayQueues /\ cards[c].due <= NextDayAt
                              => HasLearning(q, c)
         /\ Hierarchical(bury) => NoBuriedSiblings(bury, q)
<1> DEFINE intraday == {c \in Cards : cards[c].queue \in IntradayQueues /\ cards[c].due <= NextDayAt}
           due(queue) == {c \in Cards : cards[c].queue = queue /\ cards[c].due <= Today}
           seen == intraday \cup due("DayLearn")
           daylearn == Gathered(due("DayLearn"), intraday, bury.daylearn)
           reviews == Gathered(due("Review"), seen, bury.review)
           newQueue == {c \in Cards : cards[c].queue = "New"}
           new == Gathered(newQueue, seen \cup due("Review"), bury.new)
           soon == {c \in intraday : cards[c].due <= now + LearnAhead}
           entry(c) == [id |-> c, kind |-> cards[c].queue, mtime |-> cards[c].mtime]
           M == daylearn \cup reviews \cup new
           lentry(c) == LearningEntry(c, cards[c], cards[c].due)
           L == {lentry(c) : c \in intraday}
<1>1. PICK order \in SetToSeqs(M), learning \in LearningSorted(L) :
        q = [main |-> [i \in DOMAIN order |-> entry(order[i])],
             learning |-> learning,
             counts |-> [new |-> Cardinality(new), review |-> Cardinality(reviews),
                         learning |-> Cardinality(soon) + Cardinality(daylearn)],
             cutoff |-> now, day |-> Today, build |-> builds + 1]
  <2> DEFINE built(o, l) ==
               [main |-> [i \in DOMAIN o |-> entry(o[i])],
                learning |-> l,
                counts |-> [new |-> Cardinality(new), review |-> Cardinality(reviews),
                            learning |-> Cardinality(soon) + Cardinality(daylearn)],
                cutoff |-> now, day |-> Today, build |-> builds + 1]
  <2>1. BuiltQueues(cards) = {built(o, l) : o \in SetToSeqs(M), l \in LearningSorted(L)}
    BY DEF BuiltQueues
  <2> HIDE DEF built, M, L
  <2>2. \E o \in SetToSeqs(M), l \in LearningSorted(L) : q = built(o, l)
    BY <2>1
  <2>3. QED
    BY <2>2 DEF built
<1>2. \A c \in Cards : /\ cards[c].queue \in CardQueue /\ cards[c].due \in Nat /\ cards[c].mtime \in Nat
                       /\ cards[c].reps \in {0, 1}
  BY CardFields
<1>3. /\ \A cands, s, b : Gathered(cands, s, b) \subseteq cands
  BY DEF Gathered
<1>4. /\ daylearn \subseteq due("DayLearn") /\ reviews \subseteq due("Review") /\ new \subseteq newQueue
  BY <1>3
<1>5. /\ daylearn = {c \in M : cards[c].queue = "DayLearn"}
      /\ reviews = {c \in M : cards[c].queue = "Review"}
      /\ new = {c \in M : cards[c].queue = "New"}
      /\ \A c \in M : c \in Cards /\ cards[c].queue \in {"New", "DayLearn", "Review"}
  <2>1. /\ \A c \in daylearn : c \in Cards /\ cards[c].queue = "DayLearn"
        /\ \A c \in reviews : c \in Cards /\ cards[c].queue = "Review"
        /\ \A c \in new : c \in Cards /\ cards[c].queue = "New"
    BY <1>4
  <2> HIDE DEF daylearn, reviews, new
  <2>2. QED
    BY <2>1
<1>6. IsFiniteSet(M) /\ IsFiniteSet(intraday) /\ IsFiniteSet(soon)
      /\ IsFiniteSet(daylearn) /\ IsFiniteSet(reviews) /\ IsFiniteSet(new)
  <2>1. M \in SUBSET Cards /\ intraday \in SUBSET Cards /\ soon \in SUBSET Cards
        /\ daylearn \in SUBSET M /\ reviews \in SUBSET M /\ new \in SUBSET M
    BY <1>5
  <2> HIDE DEF daylearn, reviews, new, intraday, soon
  <2>2. QED
    BY <2>1, CardsAssumption, FS_Subset
<1> HIDE DEF daylearn, reviews, new
<1>7. /\ order \in Seq(M) /\ ToSet(order) = M
      /\ \A i, j \in DOMAIN order : order[i] = order[j] => i = j
      /\ DOMAIN order = 1..Len(order) /\ Len(order) \in Nat
      /\ \A i \in DOMAIN order : order[i] \in M
  <2> HIDE DEF M
  <2>1. /\ order \in Seq(M) /\ ToSet(order) = M
        /\ \A i, j \in DOMAIN order : order[i] = order[j] => i = j
    BY <1>6, OrderingIs
  <2>2. QED
    BY <2>1, SeqFacts
<1>8. /\ q.main = [i \in DOMAIN order |-> entry(order[i])] /\ q.learning = learning
      /\ q.counts = [new |-> Cardinality(new), review |-> Cardinality(reviews),
                     learning |-> Cardinality(soon) + Cardinality(daylearn)]
      /\ q.cutoff = now /\ q.day = Today /\ q.build = builds + 1
  BY <1>1
<1>9. \A c \in M : /\ entry(c) \in MainEntry /\ entry(c).id = c /\ entry(c).kind = cards[c].queue
                   /\ entry(c).mtime = cards[c].mtime
  BY <1>2, <1>5 DEF MainEntry
<1>10. /\ q.main \in Seq(MainEntry) /\ Distinct(q.main)
       /\ ToSet(q.main) = {entry(c) : c \in M}
  <2> HIDE DEF M
  <2>1. DOMAIN q.main = 1..Len(order) /\ \A i \in DOMAIN order : q.main[i] = entry(order[i])
    BY <1>7, <1>8
  <2>2. ASSUME NEW i \in DOMAIN order PROVE q.main[i] \in MainEntry /\ q.main[i].id = order[i]
    <3>1. order[i] \in M /\ q.main[i] = entry(order[i])
      BY <1>7, <2>1
    <3> HIDE DEF entry
    <3>2. QED
      BY <1>9, <3>1
  <2>3. q.main \in [1..Len(order) -> MainEntry]
    BY <1>7, <1>8, <1>9
  <2>4. q.main \in Seq(MainEntry)
    BY <1>7, <2>3, SeqDef
  <2>5. Distinct(q.main)
    BY <1>7, <2>1, <2>2 DEF Distinct
  <2>6. ToSet(q.main) = {entry(c) : c \in M}
    <3> HIDE DEF entry
    <3>1. ASSUME NEW e \in ToSet(q.main) PROVE \E c \in M : e = entry(c)
      <4>1. PICK i \in DOMAIN q.main : e = q.main[i]
        BY DEF ToSet
      <4>2. QED
        BY <1>7, <2>1, <4>1
    <3>2. ASSUME NEW c \in M PROVE entry(c) \in ToSet(q.main)
      <4>1. PICK i \in DOMAIN order : c = order[i]
        BY <1>7 DEF ToSet
      <4>2. QED
        BY <1>7, <2>1, <4>1 DEF ToSet
    <3>3. QED
      BY <3>1, <3>2
  <2>7. QED
    BY <2>4, <2>5, <2>6
<1>11. \A c \in intraday : /\ c \in Cards /\ lentry(c) \in LearnEntry /\ lentry(c).id = c
                           /\ lentry(c).due = cards[c].due /\ lentry(c).mtime = cards[c].mtime
                           /\ lentry(c).kind = "Learning"
  BY <1>2 DEF LearnEntry, LearningEntry
<1>12. IsFiniteSet(L)
  <2> DEFINE f == [c \in intraday |-> lentry(c)]
  <2>1. DOMAIN f = intraday /\ \A c \in intraday : f[c] = lentry(c)
    OBVIOUS
  <2>2. \A c, d \in intraday : f[c] = f[d] => c = d
    BY <1>11, <2>1
  <2>3. L = {f[c] : c \in intraday}
    BY <2>1
  <2> HIDE DEF f, L, intraday
  <2>4. QED
    BY <1>6, <2>1, <2>2, <2>3, ImageCount
<1>13. /\ q.learning \in Seq(LearnEntry) /\ ToSet(q.learning) = L /\ Distinct(q.learning)
  <2>1. learning \in SetToSeqs(L)
    BY DEF LearningSorted
  <2>2. L \subseteq LearnEntry /\ \A e, f \in L : e.id = f.id => e = f
    BY <1>11
  <2> HIDE DEF L
  <2>3. /\ learning \in Seq(L) /\ ToSet(learning) = L
        /\ \A i, j \in DOMAIN learning : learning[i] = learning[j] => i = j
    BY <1>12, <2>1, OrderingIs
  <2>4. learning \in Seq(LearnEntry)
    BY <2>2, <2>3, SeqMonotonic
  <2>5. \A i \in DOMAIN learning : learning[i] \in L
    BY <2>3 DEF ToSet
  <2>6. Distinct(learning)
    BY <2>2, <2>3, <2>5 DEF Distinct
  <2>7. QED
    BY <1>8, <2>3, <2>4, <2>6
<1>14. q \in CardQueues
  <2>1. now \in Nat /\ Today \in Nat /\ builds + 1 \in Nat
    BY NowFacts DEF TypeInv
  <2>2. Cardinality(new) \in Nat /\ Cardinality(reviews) \in Nat /\ Cardinality(soon) + Cardinality(daylearn) \in Nat
    <3> HIDE DEF soon
    <3>1. QED
      BY <1>6, FS_CardinalityType
  <2>3. q.counts \in [new: Nat, learning: Nat, review: Nat]
    BY <1>8, <2>2
  <2>4. q = [main |-> q.main, learning |-> q.learning, counts |-> q.counts, cutoff |-> now,
             day |-> Today, build |-> builds + 1]
    BY <1>1
  <2>5. QED
    BY <1>10, <1>13, <2>1, <2>3, <2>4 DEF CardQueues
<1>15. OneEntryPerCard(q)
  <2>1. ASSUME NEW e \in ToSet(q.main), NEW f \in ToSet(q.learning) PROVE e.id # f.id
    <3>1. PICK c \in M : e = entry(c)
      BY <1>10
    <3>2. PICK d \in intraday : f = lentry(d)
      BY <1>13
    <3>3. e.id = c /\ cards[c].queue \in {"New", "DayLearn", "Review"}
      BY <1>5, <1>9, <3>1
    <3>4. f.id = d /\ cards[d].queue \in IntradayQueues
      BY <1>11, <3>2
    <3>5. QED
      BY <3>3, <3>4 DEF IntradayQueues
  <2>2. QED
    BY <1>10, <1>13, <2>1 DEF OneEntryPerCard
<1>16. ASSUME NEW C \in SUBSET M, NEW kind, C = {c \in M : cards[c].queue = kind}
       PROVE  Cardinality(OfKind(q, kind)) = Cardinality(C)
  <2> DEFINE f == [c \in C |-> entry(c)]
  <2>1. DOMAIN f = C /\ \A c \in C : f[c] = entry(c)
    OBVIOUS
  <2>2. \A c, d \in C : f[c] = f[d] => c = d
    BY <1>9, <2>1
  <2>3. OfKind(q, kind) = {f[c] : c \in C}
    <3>1. OfKind(q, kind) \subseteq {f[c] : c \in C}
      <4>1. ASSUME NEW e \in OfKind(q, kind) PROVE \E c \in C : e = f[c]
        <5>1. e \in ToSet(q.main) /\ e.kind = kind
          BY DEF OfKind
        <5>2. PICK c \in M : e = entry(c)
          BY <1>10, <5>1
        <5>3. c \in C
          BY <1>9, <1>16, <5>1, <5>2
        <5>4. QED
          BY <2>1, <5>2, <5>3
      <4> HIDE DEF f
      <4>2. QED
        BY <4>1
    <3>2. ASSUME NEW c \in C PROVE f[c] \in OfKind(q, kind)
      <4>1. c \in M /\ cards[c].queue = kind
        BY <1>16
      <4>2. entry(c) \in ToSet(q.main) /\ entry(c).kind = kind
        BY <1>9, <1>10, <4>1
      <4>3. QED
        BY <2>1, <4>2 DEF OfKind
    <3> HIDE DEF f
    <3>3. QED
      BY <3>1, <3>2
  <2>4. IsFiniteSet(C)
    <3> HIDE DEF M
    <3>1. QED
      BY <1>6, FS_Subset
  <2> HIDE DEF f
  <2>5. QED
    BY <2>1, <2>2, <2>3, <2>4, ImageCount
<1>17. Cardinality(Window(q)) = Cardinality(soon)
  <2> DEFINE f == [c \in soon |-> lentry(c)]
  <2>1. DOMAIN f = soon /\ \A c \in soon : f[c] = lentry(c) /\ c \in intraday
    OBVIOUS
  <2>2. \A c, d \in soon : f[c] = f[d] => c = d
    BY <1>11, <2>1
  <2>3. AheadCutoff(q) = now + LearnAhead
    BY <1>8 DEF AheadCutoff
  <2>4. Window(q) = {f[c] : c \in soon}
    <3>1. ASSUME NEW e \in Window(q) PROVE \E c \in soon : e = f[c]
      <4>1. PICK c \in intraday : e = lentry(c)
        BY <1>13 DEF Window
      <4>2. e.due <= now + LearnAhead
        BY <2>3 DEF Window
      <4>3. c \in soon
        BY <1>11, <4>1, <4>2
      <4>4. QED
        BY <2>1, <4>1, <4>3
    <3>2. ASSUME NEW c \in soon PROVE f[c] \in Window(q)
      <4>1. c \in intraday /\ cards[c].due <= now + LearnAhead
        OBVIOUS
      <4>2. lentry(c) \in L /\ lentry(c).due <= AheadCutoff(q)
        BY <1>11, <2>3, <4>1
      <4>3. QED
        BY <1>13, <2>1, <4>2 DEF Window
    <3> HIDE DEF f, soon
    <3>3. QED
      BY <3>1, <3>2
  <2> HIDE DEF f, soon
  <2>5. QED
    BY <1>6, <2>1, <2>2, <2>4, ImageCount
<1>18. CountsMatch(q)
  <2> HIDE DEF M, soon
  <2>1. /\ Cardinality(OfKind(q, "New")) = Cardinality(new)
        /\ Cardinality(OfKind(q, "Review")) = Cardinality(reviews)
        /\ Cardinality(OfKind(q, "DayLearn")) = Cardinality(daylearn)
    BY <1>5, <1>16
  <2>2. Cardinality(soon) \in Nat /\ Cardinality(daylearn) \in Nat
    BY <1>6, FS_CardinalityType
  <2>3. QED
    BY <1>8, <1>17, <2>1, <2>2 DEF CountsMatch
<1>19. \A e \in Entries(q) : FreshEntry(e, cards[e.id])
  <2>1. ASSUME NEW e \in ToSet(q.main) PROVE FreshEntry(e, cards[e.id])
    <3>1. PICK c \in M : e = entry(c)
      BY <1>10
    <3>2. e.id = c /\ e.kind = cards[c].queue /\ e.mtime = cards[c].mtime /\ e.kind # "Learning"
      BY <1>5, <1>9, <3>1
    <3>3. QED
      BY <3>2 DEF FreshEntry
  <2>2. ASSUME NEW e \in ToSet(q.learning) PROVE FreshEntry(e, cards[e.id])
    <3>1. PICK c \in intraday : e = lentry(c)
      BY <1>13
    <3>2. QED
      BY <1>11, <3>1 DEF FreshEntry
  <2>3. QED
    BY <2>1, <2>2 DEF Entries
<1>20. ASSUME NEW c \in Cards, cards[c].queue \in IntradayQueues, cards[c].due <= NextDayAt
       PROVE  HasLearning(q, c)
  <2>1. c \in intraday /\ lentry(c) \in ToSet(q.learning) /\ lentry(c).id = c
    BY <1>11, <1>13, <1>20
  <2>2. QED
    BY <1>14, <2>1, HasIs
<1>21. ASSUME Hierarchical(bury) PROVE NoBuriedSiblings(bury, q)
  <2>1. SUFFICES ASSUME NEW e \in Entries(q), NEW f \in Entries(q), e.id # f.id, Note[e.id] = Note[f.id],
                        KindBuried(bury, e.kind)
                 PROVE  FALSE
    BY DEF NoBuriedSiblings
  <2>2. bury.daylearn \in BOOLEAN /\ bury.review \in BOOLEAN /\ bury.new \in BOOLEAN
    BY DEF TypeInv, BuryMode
  <2>3. ASSUME NEW g \in Entries(q)
        PROVE  \/ g.kind = "Learning" /\ g.id \in intraday
               \/ g.kind = "DayLearn" /\ g.id \in daylearn
               \/ g.kind = "Review" /\ g.id \in reviews
               \/ g.kind = "New" /\ g.id \in new
    <3>1. CASE g \in ToSet(q.main)
      <4>1. PICK c \in M : g = entry(c)
        BY <1>10, <3>1
      <4>2. g.id = c /\ g.kind = cards[c].queue
        BY <1>9, <4>1
      <4> HIDE DEF M
      <4>3. QED
        BY <1>5, <4>2
    <3>2. CASE g \in ToSet(q.learning)
      <4>1. PICK c \in intraday : g = lentry(c)
        BY <1>13, <3>2
      <4>2. QED
        BY <1>11, <4>1
    <3>3. QED
      BY <3>1, <3>2 DEF Entries
  <2>4. ASSUME NEW cands, NEW s, NEW c \in Gathered(cands, s, TRUE), NEW d \in s, Note[d] = Note[c]
        PROVE  FALSE
    BY <2>4 DEF Gathered
  <2>5. ASSUME NEW cands, cands \subseteq Cards, NEW s, NEW c \in Gathered(cands, s, TRUE),
               NEW d \in Gathered(cands, s, TRUE), Note[d] = Note[c]
        PROVE  c = d
    <3>1. c \in Nat /\ d \in Nat /\ c \in cands /\ d \in cands
      BY <2>5, CardsAssumption DEF Gathered
    <3>2. ~ (d < c) /\ ~ (c < d)
      BY <2>5, <3>1 DEF Gathered
    <3>3. QED
      BY <3>1, <3>2
  <2>6. due("DayLearn") \subseteq Cards /\ due("Review") \subseteq Cards /\ newQueue \subseteq Cards
    OBVIOUS
  <2>7. daylearn \subseteq seen /\ reviews \subseteq due("Review") /\ intraday \subseteq seen
    BY <1>4
  <2> HIDE DEF intraday, due, newQueue, M, L
  <2>8. CASE e.kind = "DayLearn" /\ bury.daylearn
    <3>1. bury.daylearn = TRUE /\ bury.review = TRUE /\ bury.new = TRUE
      BY <1>21, <2>2, <2>8 DEF Hierarchical
    <3>2. e.id \in daylearn
      BY <2>3, <2>8
    <3>3. CASE f.id \in intraday
      <4>1. e.id \in Gathered(due("DayLearn"), intraday, TRUE)
        BY <3>1, <3>2 DEF daylearn
      <4>2. QED
        BY <2>1, <2>4, <3>3, <4>1
    <3>4. CASE f.id \in daylearn
      <4>1. e.id \in Gathered(due("DayLearn"), intraday, TRUE) /\ f.id \in Gathered(due("DayLearn"), intraday, TRUE)
        BY <3>1, <3>2, <3>4 DEF daylearn
      <4>2. QED
        BY <2>1, <2>5, <2>6, <4>1
    <3>5. CASE f.id \in reviews
      <4>1. f.id \in Gathered(due("Review"), seen, TRUE) /\ e.id \in seen
        BY <2>7, <3>1, <3>2, <3>5 DEF reviews
      <4>2. QED
        BY <2>1, <2>4, <4>1
    <3>6. CASE f.id \in new
      <4>1. f.id \in Gathered(newQueue, seen \cup due("Review"), TRUE) /\ e.id \in seen \cup due("Review")
        BY <2>7, <3>1, <3>2, <3>6 DEF new
      <4>2. QED
        BY <2>1, <2>4, <4>1
    <3>7. QED
      BY <2>3, <3>3, <3>4, <3>5, <3>6
  <2>9. CASE e.kind = "Review" /\ bury.review
    <3>1. bury.review = TRUE /\ bury.new = TRUE
      BY <1>21, <2>2, <2>9 DEF Hierarchical
    <3>2. e.id \in reviews /\ e.id \in Gathered(due("Review"), seen, TRUE)
      BY <2>3, <2>9, <3>1 DEF reviews
    <3>3. CASE f.id \in intraday \/ f.id \in daylearn
      <4>1. f.id \in seen
        BY <2>7, <3>3
      <4>2. QED
        BY <2>1, <2>4, <3>2, <4>1
    <3>4. CASE f.id \in reviews
      <4>1. f.id \in Gathered(due("Review"), seen, TRUE)
        BY <3>1, <3>4 DEF reviews
      <4>2. QED
        BY <2>1, <2>5, <2>6, <3>2, <4>1
    <3>5. CASE f.id \in new
      <4>1. f.id \in Gathered(newQueue, seen \cup due("Review"), TRUE) /\ e.id \in seen \cup due("Review")
        BY <2>7, <3>1, <3>2, <3>5 DEF new
      <4>2. QED
        BY <2>1, <2>4, <4>1
    <3>6. QED
      BY <2>3, <3>3, <3>4, <3>5
  <2>10. CASE e.kind = "New" /\ bury.new
    <3>1. bury.new = TRUE
      BY <2>2, <2>10
    <3>2. e.id \in Gathered(newQueue, seen \cup due("Review"), TRUE)
      BY <2>3, <2>10, <3>1 DEF new
    <3>3. CASE f.id \in intraday \/ f.id \in daylearn \/ f.id \in reviews
      <4>1. f.id \in seen \cup due("Review")
        BY <2>7, <3>3
      <4>2. QED
        BY <2>1, <2>4, <3>2, <4>1
    <3>4. CASE f.id \in new
      <4>1. f.id \in Gathered(newQueue, seen \cup due("Review"), TRUE)
        BY <3>1, <3>4 DEF new
      <4>2. QED
        BY <2>1, <2>5, <2>6, <3>2, <4>1
    <3>5. QED
      BY <2>3, <3>3, <3>4
  <2>11. QED
    BY <2>1, <2>8, <2>9, <2>10 DEF KindBuried
<1>22. QED
  BY <1>8, <1>14, <1>15, <1>18, <1>19, <1>20, <1>21 DEF Agree

(***************************************************************************)
(* The undo and redo steps whose answers edited the queues that are there, *)
(* one after the other                                                     *)
(***************************************************************************)
\* The step recorded an answer of the queues of build b.
LiveIn(b, step) == step.update # None /\ step.update.build = b

\* Undo steps lead back in time, redo steps forth.
Near(way, u) == IF way = "undo" THEN After(u) ELSE Before(u)
Far(way, u) == IF way = "undo" THEN Before(u) ELSE After(u)

\* The first live step starts from v, each other one where the one before it leads.
Chain(way, b, v, steps) ==
  /\ \A i \in DOMAIN steps :
       LiveIn(b, steps[i]) /\ (\A j \in 1..(i - 1) : ~LiveIn(b, steps[j]))
         => Near(way, steps[i].update) = v
  /\ \A i, j \in DOMAIN steps :
       /\ j < i /\ LiveIn(b, steps[j]) /\ LiveIn(b, steps[i])
       /\ \A k \in (j + 1)..(i - 1) : ~LiveIn(b, steps[k])
       => Near(way, steps[i].update) = Far(way, steps[j].update)

LEMMA ChainEmpty == ASSUME NEW way, NEW b, NEW v PROVE Chain(way, b, v, <<>>)
  BY DEF Chain

\* A step of other queues changes nothing.
LEMMA ChainPush ==
  ASSUME NEW S, NEW s \in Seq(S), NEW x \in S, NEW way, NEW b, NEW v, Chain(way, b, v, s), ~LiveIn(b, x)
  PROVE  Chain(way, b, v, <<x>> \o s)
<1> DEFINE t == <<x>> \o s
<1>1. /\ t \in Seq(S) /\ Len(t) = Len(s) + 1 /\ t[1] = x
      /\ \A i \in 1..Len(s) : t[i + 1] = s[i]
  BY ConsSet
<1>2. DOMAIN t = 1..(Len(s) + 1) /\ DOMAIN s = 1..Len(s) /\ Len(s) \in Nat
  BY <1>1, SeqFacts
<1> HIDE DEF t
<1>3. \A i \in DOMAIN t : LiveIn(b, t[i]) => i > 1 /\ i - 1 \in DOMAIN s /\ t[i] = s[i - 1]
  <2>1. ASSUME NEW i \in DOMAIN t, LiveIn(b, t[i]) PROVE i > 1 /\ i - 1 \in DOMAIN s /\ t[i] = s[i - 1]
    <3>1. i # 1
      BY <1>1, <2>1
    <3>2. i > 1 /\ i - 1 \in 1..Len(s) /\ (i - 1) + 1 = i
      BY <1>2, <3>1
    <3>3. t[i] = s[i - 1]
      BY <1>1, <3>2
    <3>4. QED
      BY <1>2, <3>2, <3>3
  <2>2. QED
    BY <2>1
<1>4. ASSUME NEW i \in DOMAIN t, LiveIn(b, t[i]), \A j \in 1..(i - 1) : ~LiveIn(b, t[j])
      PROVE  Near(way, t[i].update) = v
  <2>1. i > 1 /\ i - 1 \in DOMAIN s /\ t[i] = s[i - 1]
    BY <1>3, <1>4
  <2>2. ASSUME NEW j \in 1..((i - 1) - 1) PROVE ~LiveIn(b, s[j])
    <3>1. j + 1 \in 1..(i - 1) /\ j \in 1..Len(s)
      BY <1>2, <2>1
    <3>2. t[j + 1] = s[j]
      BY <1>1, <3>1
    <3>3. QED
      BY <1>4, <3>1, <3>2
  <2>3. QED
    BY <1>4, <2>1, <2>2 DEF Chain
<1>5. ASSUME NEW i \in DOMAIN t, NEW j \in DOMAIN t, j < i, LiveIn(b, t[j]), LiveIn(b, t[i]),
             \A k \in (j + 1)..(i - 1) : ~LiveIn(b, t[k])
      PROVE  Near(way, t[i].update) = Far(way, t[j].update)
  <2>1. /\ i > 1 /\ i - 1 \in DOMAIN s /\ t[i] = s[i - 1]
        /\ j > 1 /\ j - 1 \in DOMAIN s /\ t[j] = s[j - 1]
    BY <1>3, <1>5
  <2>2. ASSUME NEW k \in ((j - 1) + 1)..((i - 1) - 1) PROVE ~LiveIn(b, s[k])
    <3>1. k + 1 \in (j + 1)..(i - 1) /\ k \in 1..Len(s)
      BY <1>2, <2>1
    <3>2. t[k + 1] = s[k]
      BY <1>1, <3>1
    <3>3. QED
      BY <1>5, <3>1, <3>2
  <2>3. j - 1 < i - 1
    BY <1>2, <1>5
  <2>4. QED
    BY <1>5, <2>1, <2>2, <2>3 DEF Chain
<1>6. Chain(way, b, v, t)
  BY <1>4, <1>5 DEF Chain
<1>7. QED
  BY <1>6 DEF t

\* A live step that leads to v is put in front of those that start from v.
LEMMA ChainPushLive ==
  ASSUME NEW S, NEW s \in Seq(S), NEW x \in S, NEW way, NEW b, NEW v, Chain(way, b, v, s),
         LiveIn(b, x), Far(way, x.update) = v
  PROVE  Chain(way, b, Near(way, x.update), <<x>> \o s)
<1> DEFINE t == <<x>> \o s
<1>1. /\ t \in Seq(S) /\ Len(t) = Len(s) + 1 /\ t[1] = x
      /\ \A i \in 1..Len(s) : t[i + 1] = s[i]
  BY ConsSet
<1>2. DOMAIN t = 1..(Len(s) + 1) /\ DOMAIN s = 1..Len(s) /\ Len(s) \in Nat
  BY <1>1, SeqFacts
<1> HIDE DEF t
<1>3. \A i \in DOMAIN t : i # 1 => i > 1 /\ i - 1 \in DOMAIN s /\ t[i] = s[i - 1]
  <2>1. ASSUME NEW i \in DOMAIN t, i # 1 PROVE i > 1 /\ i - 1 \in DOMAIN s /\ t[i] = s[i - 1]
    <3>1. i > 1 /\ i - 1 \in 1..Len(s) /\ (i - 1) + 1 = i
      BY <1>2, <2>1
    <3>2. t[i] = s[i - 1]
      BY <1>1, <3>1
    <3>3. QED
      BY <1>2, <3>1, <3>2
  <2>2. QED
    BY <2>1
<1>4. ASSUME NEW i \in DOMAIN t, LiveIn(b, t[i]), \A j \in 1..(i - 1) : ~LiveIn(b, t[j])
      PROVE  Near(way, t[i].update) = Near(way, x.update)
  <2>1. CASE i = 1
    BY <1>1, <2>1
  <2>2. CASE i # 1
    <3>1. 1 \in 1..(i - 1)
      BY <1>2, <2>2
    <3>2. QED
      BY <1>1, <1>4, <3>1
  <2>3. QED
    BY <2>1, <2>2
<1>5. ASSUME NEW i \in DOMAIN t, NEW j \in DOMAIN t, j < i, LiveIn(b, t[j]), LiveIn(b, t[i]),
             \A k \in (j + 1)..(i - 1) : ~LiveIn(b, t[k])
      PROVE  Near(way, t[i].update) = Far(way, t[j].update)
  <2>1. i > 1 /\ i - 1 \in DOMAIN s /\ t[i] = s[i - 1]
    <3>1. i # 1
      BY <1>2, <1>5
    <3>2. QED
      BY <1>3, <3>1
  <2>2. CASE j = 1
    <3>1. ASSUME NEW k \in 1..((i - 1) - 1) PROVE ~LiveIn(b, s[k])
      <4>1. k + 1 \in (j + 1)..(i - 1) /\ k \in 1..Len(s)
        BY <1>2, <2>1, <2>2
      <4>2. t[k + 1] = s[k]
        BY <1>1, <4>1
      <4>3. QED
        BY <1>5, <4>1, <4>2
    <3>2. Near(way, s[i - 1].update) = v
      BY <1>5, <2>1, <3>1 DEF Chain
    <3>3. QED
      BY <1>1, <2>1, <2>2, <3>2
  <2>3. CASE j # 1
    <3>1. j > 1 /\ j - 1 \in DOMAIN s /\ t[j] = s[j - 1]
      BY <1>3, <2>3
    <3>2. ASSUME NEW k \in ((j - 1) + 1)..((i - 1) - 1) PROVE ~LiveIn(b, s[k])
      <4>1. k + 1 \in (j + 1)..(i - 1) /\ k \in 1..Len(s)
        BY <1>2, <2>1, <3>1
      <4>2. t[k + 1] = s[k]
        BY <1>1, <4>1
      <4>3. QED
        BY <1>5, <4>1, <4>2
    <3>3. j - 1 < i - 1
      BY <1>2, <1>5
    <3>4. QED
      BY <1>5, <2>1, <3>1, <3>2, <3>3 DEF Chain
  <2>4. QED
    BY <2>2, <2>3
<1>6. Chain(way, b, Near(way, x.update), t)
  BY <1>4, <1>5 DEF Chain
<1>7. QED
  BY <1>6 DEF t

\* Taking off a step of other queues, or a live one.
LEMMA ChainTail ==
  ASSUME NEW S, NEW s \in Seq(S), s # <<>>, NEW way, NEW b, NEW v, Chain(way, b, v, s)
  PROVE  /\ ~LiveIn(b, Head(s)) => Chain(way, b, v, Tail(s))
         /\ LiveIn(b, Head(s)) => /\ Near(way, Head(s).update) = v
                                  /\ Chain(way, b, Far(way, Head(s).update), Tail(s))
<1> DEFINE t == Tail(s)
<1>1. /\ t \in Seq(S) /\ Len(t) = Len(s) - 1 /\ Len(s) \in Nat /\ Len(s) > 0 /\ Head(s) = s[1]
      /\ \A i \in 1..Len(t) : t[i] = s[i + 1]
  BY HeadTailProperties, SeqFacts
<1>2. DOMAIN t = 1..(Len(s) - 1) /\ DOMAIN s = 1..Len(s) /\ 1 \in DOMAIN s
  BY <1>1, SeqFacts
<1> HIDE DEF t
<1>3. \A i \in DOMAIN t : i + 1 \in DOMAIN s /\ t[i] = s[i + 1]
  BY <1>1, <1>2
<1>4. ASSUME NEW i \in DOMAIN t, NEW j \in DOMAIN t, j < i, LiveIn(b, t[j]), LiveIn(b, t[i]),
             \A k \in (j + 1)..(i - 1) : ~LiveIn(b, t[k])
      PROVE  Near(way, t[i].update) = Far(way, t[j].update)
  <2>1. i + 1 \in DOMAIN s /\ t[i] = s[i + 1] /\ j + 1 \in DOMAIN s /\ t[j] = s[j + 1] /\ j + 1 < i + 1
    BY <1>2, <1>3, <1>4
  <2>2. ASSUME NEW k \in ((j + 1) + 1)..((i + 1) - 1) PROVE ~LiveIn(b, s[k])
    <3>1. k - 1 \in (j + 1)..(i - 1) /\ k - 1 \in DOMAIN t /\ (k - 1) + 1 = k
      BY <1>2
    <3>2. t[k - 1] = s[k]
      BY <1>3, <3>1
    <3>3. QED
      BY <1>4, <3>1, <3>2
  <2>3. QED
    BY <1>4, <2>1, <2>2 DEF Chain
<1>5. ASSUME ~LiveIn(b, Head(s)) PROVE Chain(way, b, v, t)
  <2>1. ASSUME NEW i \in DOMAIN t, LiveIn(b, t[i]), \A j \in 1..(i - 1) : ~LiveIn(b, t[j])
        PROVE  Near(way, t[i].update) = v
    <3>1. i + 1 \in DOMAIN s /\ t[i] = s[i + 1]
      BY <1>3
    <3>2. ASSUME NEW j \in 1..((i + 1) - 1) PROVE ~LiveIn(b, s[j])
      <4>1. CASE j = 1
        BY <1>1, <1>5, <4>1
      <4>2. CASE j # 1
        <5>1. j - 1 \in 1..(i - 1) /\ j - 1 \in DOMAIN t /\ (j - 1) + 1 = j
          BY <1>2, <4>2
        <5>2. t[j - 1] = s[j]
          BY <1>3, <5>1
        <5>3. QED
          BY <2>1, <5>1, <5>2
      <4>3. QED
        BY <4>1, <4>2
    <3>3. QED
      BY <2>1, <3>1, <3>2 DEF Chain
  <2>2. QED
    BY <1>4, <2>1 DEF Chain
<1>6. ASSUME LiveIn(b, Head(s))
      PROVE  Near(way, Head(s).update) = v /\ Chain(way, b, Far(way, Head(s).update), t)
  <2>1. Near(way, Head(s).update) = v
    <3>1. \A j \in 1..(1 - 1) : ~LiveIn(b, s[j])
      OBVIOUS
    <3>2. QED
      BY <1>1, <1>2, <1>6, <3>1 DEF Chain
  <2>2. ASSUME NEW i \in DOMAIN t, LiveIn(b, t[i]), \A j \in 1..(i - 1) : ~LiveIn(b, t[j])
        PROVE  Near(way, t[i].update) = Far(way, Head(s).update)
    <3>1. i + 1 \in DOMAIN s /\ t[i] = s[i + 1] /\ 1 < i + 1
      BY <1>2, <1>3
    <3>2. ASSUME NEW k \in (1 + 1)..((i + 1) - 1) PROVE ~LiveIn(b, s[k])
      <4>1. k - 1 \in 1..(i - 1) /\ k - 1 \in DOMAIN t /\ (k - 1) + 1 = k
        BY <1>2
      <4>2. t[k - 1] = s[k]
        BY <1>3, <4>1
      <4>3. QED
        BY <2>2, <4>1, <4>2
    <3>3. QED
      BY <1>1, <1>2, <1>6, <2>2, <3>1, <3>2 DEF Chain
  <2>3. QED
    BY <1>4, <2>1, <2>2 DEF Chain
<1>7. QED
  BY <1>5, <1>6 DEF t

\* The oldest steps may be dropped.
LEMMA ChainFront ==
  ASSUME NEW S, NEW s \in Seq(S), NEW n \in Nat, n <= Len(s), NEW way, NEW b, NEW v, Chain(way, b, v, s)
  PROVE  Chain(way, b, v, SubSeq(s, 1, n))
<1> DEFINE t == SubSeq(s, 1, n)
<1>1. DOMAIN s = 1..Len(s) /\ Len(s) \in Nat /\ \A i \in 1..n : s[i] \in S
  BY SeqFacts
<1>2. /\ t \in Seq(S) /\ Len(t) = IF 1 <= n THEN n - 1 + 1 ELSE 0
      /\ \A i \in 1..(n - 1 + 1) : t[i] = s[1 + i - 1]
  BY <1>1, SubSeqProperties
<1>3. Len(t) = n
  BY <1>2
<1>4. DOMAIN t = 1..n
  BY <1>2, <1>3, SeqFacts
<1>5. \A i \in 1..n : t[i] = s[i]
  BY <1>2
<1>6. 1..n \subseteq DOMAIN s
  BY <1>1
<1> HIDE DEF t
<1>7. ASSUME NEW i \in DOMAIN t, LiveIn(b, t[i]), \A j \in 1..(i - 1) : ~LiveIn(b, t[j])
      PROVE  Near(way, t[i].update) = v
  <2>1. i \in DOMAIN s /\ t[i] = s[i]
    BY <1>4, <1>5, <1>6
  <2>2. \A j \in 1..(i - 1) : ~LiveIn(b, s[j])
    BY <1>4, <1>5, <1>7
  <2>3. QED
    BY <1>7, <2>1, <2>2 DEF Chain
<1>8. ASSUME NEW i \in DOMAIN t, NEW j \in DOMAIN t, j < i, LiveIn(b, t[j]), LiveIn(b, t[i]),
             \A k \in (j + 1)..(i - 1) : ~LiveIn(b, t[k])
      PROVE  Near(way, t[i].update) = Far(way, t[j].update)
  <2>1. i \in DOMAIN s /\ t[i] = s[i] /\ j \in DOMAIN s /\ t[j] = s[j]
    BY <1>4, <1>5, <1>6
  <2>2. \A k \in (j + 1)..(i - 1) : ~LiveIn(b, s[k])
    BY <1>4, <1>5, <1>8
  <2>3. QED
    BY <1>8, <2>1, <2>2 DEF Chain
<1>9. Chain(way, b, v, t)
  BY <1>7, <1>8 DEF Chain
<1>10. QED
  BY <1>9 DEF t

\* Where no step is live there is nothing to say.
LEMMA ChainVoid ==
  ASSUME NEW s, NEW way, NEW b, NEW v, \A step \in ToSet(s) : ~LiveIn(b, step)
  PROVE  Chain(way, b, v, s)
<1>1. \A i \in DOMAIN s : ~LiveIn(b, s[i])
  BY DEF ToSet
<1>2. QED
  BY <1>1 DEF Chain

\* end_step(): the new step comes first, the oldest beyond the limit go.
LEMMA PushedStep ==
  ASSUME NEW step \in Step, undo \in Seq(Step), PushStep(step)
  PROVE  /\ undo' \in Seq(Step) /\ Len(undo') <= UndoLimit
         /\ ToSet(undo') \subseteq {step} \cup ToSet(undo)
         /\ \A way, b, v : Chain(way, b, v, <<step>> \o undo) => Chain(way, b, v, undo')
<1> DEFINE t == <<step>> \o undo
           n == Min({UndoLimit, Len(undo) + 1})
<1>1. t \in Seq(Step) /\ Len(t) = Len(undo) + 1 /\ ToSet(t) = {step} \cup ToSet(undo)
  BY ConsSet
<1>2. Len(undo) \in Nat /\ UndoLimit \in Nat
  BY SeqFacts, UndoAssumption
<1>3. n \in Nat /\ n <= Len(t) /\ n <= UndoLimit
  BY <1>1, <1>2, MinOfTwo
<1>4. undo' = SubSeq(t, 1, n)
  BY DEF PushStep
<1> HIDE DEF t, n
<1>5. DOMAIN t = 1..Len(t) /\ \A i \in 1..n : t[i] \in Step
  BY <1>1, <1>2, <1>3, SeqFacts
<1>6. /\ undo' \in Seq(Step) /\ Len(undo') = IF 1 <= n THEN n - 1 + 1 ELSE 0
      /\ \A i \in 1..(n - 1 + 1) : undo'[i] = t[1 + i - 1]
  BY <1>3, <1>4, <1>5, SubSeqProperties
<1>7. Len(undo') = n
  BY <1>3, <1>6
<1>8. ToSet(undo') \subseteq ToSet(t)
  <2>1. DOMAIN undo' = 1..n
    BY <1>6, <1>7, SeqFacts
  <2>2. ASSUME NEW i \in 1..n PROVE undo'[i] \in ToSet(t)
    <3>1. undo'[i] = t[i] /\ i \in DOMAIN t
      BY <1>1, <1>2, <1>3, <1>5, <1>6
    <3>2. QED
      BY <3>1 DEF ToSet
  <2>3. QED
    BY <2>1, <2>2 DEF ToSet
<1>9. \A way, b, v : Chain(way, b, v, t) => Chain(way, b, v, undo')
  BY <1>1, <1>3, <1>4, ChainFront
<1>10. QED
  BY <1>1, <1>3, <1>6, <1>7, <1>8, <1>9 DEF t

(***************************************************************************)
(* Types of what the actions compute                                       *)
(***************************************************************************)
LEMMA DivMono ==
  ASSUME NEW a \in Nat, NEW b \in Nat, a <= b, NEW d \in Nat \ {0}
  PROVE  a \div d <= b \div d
<1> DEFINE p == a \div d
           q == b \div d
<1>1. p \in Nat /\ q \in Nat /\ d * p <= a /\ b < d * q + d
  OBVIOUS
<1> HIDE DEF p, q
<1>2. ASSUME q < p PROVE FALSE
  <2>1. q + 1 <= p
    BY <1>1, <1>2
  <2>2. d * (q + 1) <= d * p
    BY <1>1, <2>1
  <2>3. d * (q + 1) = d * q + d
    BY <1>1
  <2>4. d * q \in Nat /\ d * p \in Nat /\ d * (q + 1) \in Nat
    BY <1>1
  <2>5. QED
    BY <1>1, <2>2, <2>3, <2>4
<1>3. p <= q
  BY <1>1, <1>2
<1>4. QED
  BY <1>3 DEF p, q

LEMMA TodayGrows ==
  ASSUME TypeInv, now' \in Times, now <= now'
  PROVE  Today <= Today' /\ now' \in Nat
<1> DEFINE t == now'
<1>1. now \in Nat /\ now >= Epoch /\ Epoch \in Nat \ {0} /\ DayLen \in Nat \ {0}
  BY NowFacts
<1>2. t \in Nat /\ t >= Epoch /\ now <= t
  BY TimeAssumption
<1> HIDE DEF t
<1>3. now - Epoch \in Nat /\ t - Epoch \in Nat /\ now - Epoch <= t - Epoch
  BY <1>1, <1>2
<1>4. (now - Epoch) \div DayLen <= (t - Epoch) \div DayLen
  BY <1>1, <1>3, DivMono
<1>5. Today' = (t - Epoch) \div DayLen
  BY DEF Today, t
<1>6. QED
  BY <1>2, <1>4, <1>5 DEF Today, t

LEMMA RestoredIs ==
  ASSUME NEW k \in Card
  PROVE  RestoredQueue(k) \in {"New", "Review", "Learn", "DayLearn"}
<1>1. k.ctype \in {"New", "Learn", "Review"}
  BY CardFields
<1>2. QED
  BY <1>1 DEF RestoredQueue

LEMMA UnburiedIs ==
  ASSUME NEW cards \in [Cards -> Card]
  PROVE  /\ Unburied(cards) \in [Cards -> Card]
         /\ \A c \in Cards : Unburied(cards)[c] =
              IF cards[c].queue \in {"SchedBuried", "UserBuried"}
              THEN [cards[c] EXCEPT !.queue = RestoredQueue(cards[c])] ELSE cards[c]
<1>1. ASSUME NEW c \in Cards
      PROVE  (IF cards[c].queue \in {"SchedBuried", "UserBuried"}
              THEN [cards[c] EXCEPT !.queue = RestoredQueue(cards[c])] ELSE cards[c]) \in Card
  <2>1. cards[c] \in Card /\ RestoredQueue(cards[c]) \in CardQueue
    BY RestoredIs DEF CardQueue, IntradayQueues
  <2>2. [cards[c] EXCEPT !.queue = RestoredQueue(cards[c])] \in Card
    BY <2>1 DEF Card
  <2>3. QED
    BY <2>1, <2>2
<1>2. QED
  BY <1>1 DEF Unburied

\* What an answer makes of its card.
LEMMA AfterAnswerIs ==
  ASSUME TypeInv, NEW k \in Card, NEW next \in AfterAnswer(k)
  PROVE  /\ next \in Card /\ next.mtime = now
         /\ k.preview => \/ next.queue = "PreviewRepeat" /\ next.preview /\ next.ctype = k.ctype
                         \/ next.queue = RestoredQueue(k) /\ next.due = 0 /\ ~next.preview
                            /\ next.ctype = k.ctype
         /\ ~k.preview =>
              /\ ~next.preview
              /\ \/ next.queue = "Learn" /\ next.due < NextDayAt /\ next.due >= Epoch /\ next.ctype = "Learn"
                 \/ next.queue = "DayLearn" /\ next.due = Today + 1 /\ next.ctype = "Learn"
                 \/ next.queue = "Review" /\ next.due = Today + 1 /\ next.ctype = "Review"
<1>1. /\ k.queue \in CardQueue /\ k.ctype \in {"New", "Learn", "Review"} /\ k.due \in Nat
      /\ k.mtime \in Nat /\ k.reps \in {0, 1} /\ k.preview \in BOOLEAN
  BY CardFields
<1>2. now \in Nat /\ now >= Epoch /\ Today \in Nat /\ NextDayAt \in Nat /\ Epoch \in Nat
  BY NowFacts
<1>3. \A s \in Delays : s \in Nat /\ now + s \in Nat /\ now + s >= Epoch
  BY <1>2, TimeAssumption
<1> DEFINE touched == [k EXCEPT !.mtime = now]
<1>4. CASE k.preview /\ \E s \in Delays : next = [touched EXCEPT !.queue = "PreviewRepeat", !.due = now + s]
  <2>1. PICK s \in Delays : next = [touched EXCEPT !.queue = "PreviewRepeat", !.due = now + s]
    BY <1>4
  <2>2. next \in Card
    BY <1>2, <1>3, <2>1 DEF Card, CardQueue, IntradayQueues
  <2>3. next.mtime = now /\ next.queue = "PreviewRepeat" /\ next.preview = k.preview /\ next.ctype = k.ctype
    BY <2>1 DEF Card
  <2>4. QED
    BY <1>4, <2>2, <2>3
<1>5. CASE k.preview /\ next = [touched EXCEPT !.queue = RestoredQueue(k), !.due = 0, !.preview = FALSE]
  <2>1. RestoredQueue(k) \in CardQueue
    BY RestoredIs DEF CardQueue, IntradayQueues
  <2>2. next \in Card
    BY <1>2, <1>5, <2>1 DEF Card
  <2>3. next.mtime = now /\ next.queue = RestoredQueue(k) /\ next.due = 0 /\ next.preview = FALSE
        /\ next.ctype = k.ctype
    BY <1>5 DEF Card
  <2>4. QED
    BY <1>5, <2>2, <2>3
<1>6. CASE ~k.preview /\ \E s \in Delays :
             next = [touched EXCEPT !.queue = IF now + s >= NextDayAt THEN "DayLearn" ELSE "Learn",
                                    !.due = IF now + s >= NextDayAt THEN Today + 1 ELSE now + s,
                                    !.ctype = "Learn", !.reps = 1]
  <2>1. PICK s \in Delays :
             next = [touched EXCEPT !.queue = IF now + s >= NextDayAt THEN "DayLearn" ELSE "Learn",
                                    !.due = IF now + s >= NextDayAt THEN Today + 1 ELSE now + s,
                                    !.ctype = "Learn", !.reps = 1]
    BY <1>6
  <2>0. PICK queue \in CardQueue, due \in Nat :
          /\ queue = IF now + s >= NextDayAt THEN "DayLearn" ELSE "Learn"
          /\ due = IF now + s >= NextDayAt THEN Today + 1 ELSE now + s
    <3>1. now + s \in Nat /\ Today + 1 \in Nat
      BY <1>2, <1>3
    <3>2. "DayLearn" \in CardQueue /\ "Learn" \in CardQueue
      BY DEF CardQueue, IntradayQueues
    <3>3. CASE now + s >= NextDayAt
      BY <3>1, <3>2, <3>3
    <3>4. CASE ~ (now + s >= NextDayAt)
      BY <3>1, <3>2, <3>4
    <3>5. QED
      BY <3>3, <3>4
  <2>7. next = [queue |-> queue, ctype |-> "Learn", due |-> due, mtime |-> now, reps |-> 1,
                preview |-> k.preview]
    BY <2>0, <2>1 DEF Card
  <2>2. next \in Card
    BY <1>1, <1>2, <2>0, <2>7 DEF Card
  <2>3. next.mtime = now /\ next.preview = k.preview /\ next.ctype = "Learn"
        /\ next.queue = (IF now + s >= NextDayAt THEN "DayLearn" ELSE "Learn")
        /\ next.due = (IF now + s >= NextDayAt THEN Today + 1 ELSE now + s)
    BY <2>0, <2>7
  <2>4. CASE now + s >= NextDayAt
    BY <1>6, <2>2, <2>3, <2>4
  <2>5. CASE ~ (now + s >= NextDayAt)
    BY <1>2, <1>3, <1>6, <2>2, <2>3, <2>5
  <2>6. QED
    BY <2>4, <2>5
<1>7. CASE ~k.preview /\ next = [touched EXCEPT !.queue = "Review", !.due = Today + 1,
                                                !.ctype = "Review", !.reps = 1]
  <2>0. next = [queue |-> "Review", ctype |-> "Review", due |-> Today + 1, mtime |-> now, reps |-> 1,
                preview |-> k.preview]
    BY <1>7 DEF Card
  <2>1. next \in Card
    BY <1>1, <1>2, <2>0 DEF Card, CardQueue
  <2>2. next.mtime = now /\ next.queue = "Review" /\ next.due = Today + 1 /\ next.ctype = "Review"
        /\ next.preview = k.preview
    BY <1>7 DEF Card
  <2>3. QED
    BY <1>7, <2>1, <2>2
<1>8. \/ k.preview /\ \E s \in Delays : next = [touched EXCEPT !.queue = "PreviewRepeat", !.due = now + s]
      \/ k.preview /\ next = [touched EXCEPT !.queue = RestoredQueue(k), !.due = 0, !.preview = FALSE]
      \/ ~k.preview /\ \E s \in Delays :
             next = [touched EXCEPT !.queue = IF now + s >= NextDayAt THEN "DayLearn" ELSE "Learn",
                                    !.due = IF now + s >= NextDayAt THEN Today + 1 ELSE now + s,
                                    !.ctype = "Learn", !.reps = 1]
      \/ ~k.preview /\ next = [touched EXCEPT !.queue = "Review", !.due = Today + 1,
                                                !.ctype = "Review", !.reps = 1]
  <2>1. CASE k.preview
    BY <2>1 DEF AfterAnswer
  <2>2. CASE ~k.preview
    <3> DEFINE Delayed(s) == IF now + s >= NextDayAt
                             THEN [queue |-> "DayLearn", due |-> Today + 1]
                             ELSE [queue |-> "Learn", due |-> now + s]
    <3>1. \/ next \in {[touched EXCEPT !.queue = Delayed(s).queue, !.due = Delayed(s).due,
                                       !.ctype = "Learn", !.reps = 1] : s \in Delays}
          \/ next = [touched EXCEPT !.queue = "Review", !.due = Today + 1, !.ctype = "Review", !.reps = 1]
      BY <2>2 DEF AfterAnswer
    <3>2. \A s : /\ Delayed(s).queue = IF now + s >= NextDayAt THEN "DayLearn" ELSE "Learn"
                 /\ Delayed(s).due = IF now + s >= NextDayAt THEN Today + 1 ELSE now + s
      OBVIOUS
    <3> HIDE DEF Delayed
    <3>3. CASE next \in {[touched EXCEPT !.queue = Delayed(s).queue, !.due = Delayed(s).due,
                                       !.ctype = "Learn", !.reps = 1] : s \in Delays}
      <4>1. PICK s \in Delays : next = [touched EXCEPT !.queue = Delayed(s).queue, !.due = Delayed(s).due,
                                       !.ctype = "Learn", !.reps = 1]
        BY <3>3
      <4>2. next = [touched EXCEPT !.queue = IF now + s >= NextDayAt THEN "DayLearn" ELSE "Learn",
                                    !.due = IF now + s >= NextDayAt THEN Today + 1 ELSE now + s,
                                    !.ctype = "Learn", !.reps = 1]
        BY <3>2, <4>1
      <4>3. QED
        BY <2>2, <4>2
    <3>4. QED
      BY <2>2, <3>1, <3>3
  <2>3. QED
    BY <2>1, <2>2
<1>9. QED
  BY <1>4, <1>5, <1>6, <1>7, <1>8

(***************************************************************************)
(* The invariant of the queues and of what is recorded for their undo      *)
(***************************************************************************)
\* Queues, and a step, that may be there at time t of day d after b builds.
QueueSound(q, t, d, b) == Agree(q) /\ q.cutoff <= t /\ q.day <= d /\ q.build = b
StepSound(step, t, d, b) ==
  step.update # None =>
    /\ UpdateOK(step.update) /\ step.update.build <= b
    /\ step.update.before.cutoff <= t /\ step.update.before.day <= d

\* The card that is shown is still on top.
ShownOnTop ==
  shown # None => queues # None /\ TopEntry(queues) # None /\ TopEntry(queues).id = shown.id
QueuesSound == queues # None => QueueSound(queues, now, Today, builds)
StepsSound == \A step \in ToSet(undo) \cup ToSet(redo) : StepSound(step, now, Today, builds)
\* The steps of the queues that are there lead from them back and forth.
Chained ==
  queues # None => /\ Chain("undo", builds, View(queues), undo)
                   /\ Chain("redo", builds, View(queues), redo)
QueuesInv == TypeInv /\ ShownOnTop /\ QueuesSound /\ StepsSound /\ Chained

(***************************************************************************)
(* Types of steps                                                          *)
(***************************************************************************)
LEMMA AnsweredType ==
  ASSUME TypeInv, NEW c \in Cards, NEW next \in Card
  PROVE  Answered(c, next) \in [Cards -> Card]
<1>1. now \in Nat /\ card \in [Cards -> Card]
  BY NowFacts DEF TypeInv
<1>2. ASSUME NEW s \in Cards PROVE [card[s] EXCEPT !.queue = "SchedBuried", !.mtime = now] \in Card
  BY <1>1 DEF Card, CardQueue, BuriedOrSuspended
<1>3. ASSUME NEW s \in Cards
      PROVE  (IF s = c THEN next
              ELSE IF s \in SiblingsToBury(c)
                   THEN [card[s] EXCEPT !.queue = "SchedBuried", !.mtime = now]
                   ELSE card[s]) \in Card
  <2>1. card[s] \in Card
    BY <1>1
  <2>2. QED
    BY <1>2, <2>1
<1>4. QED
  BY <1>3 DEF Answered

LEMMA StepType ==
  ASSUME TypeInv, NEW op \in {"AnswerCard", "GradeNow", "Other"}, NEW written \in SUBSET Cards,
         NEW update \in QueueUpdate \cup {None}
  PROVE  StepOf(op, written, update) \in Step
<1>1. [c \in written |-> card[c]] \in [written -> Card]
  BY DEF TypeInv
<1>2. [c \in written |-> card[c]] \in Rows
  BY <1>1 DEF Rows
<1>3. QED
  BY <1>2 DEF StepOf, Step

LEMMA StepFields ==
  ASSUME NEW step \in Step
  PROVE  /\ step.op \in {"AnswerCard", "GradeNow", "Other"}
         /\ step.update \in QueueUpdate \cup {None}
         /\ DOMAIN step.cards \subseteq Cards
         /\ \A c \in DOMAIN step.cards : step.cards[c] \in Card
  BY DEF Step, Rows

LEMMA ReversalIs ==
  ASSUME TypeInv, NEW step \in Step
  PROVE  /\ Reverted(step) \in [Cards -> Card]
         /\ Reversal(step) \in Step
         /\ Reversal(step).op = step.op /\ Reversal(step).update = step.update
         /\ Reversal(step).cards = [c \in DOMAIN step.cards |-> card[c]]
<1>1. /\ DOMAIN step.cards \subseteq Cards /\ card \in [Cards -> Card]
      /\ \A c \in DOMAIN step.cards : step.cards[c] \in Card
  BY StepFields DEF TypeInv
<1>2. Reverted(step) \in [Cards -> Card]
  BY <1>1 DEF Reverted
<1>3. [c \in DOMAIN step.cards |-> card[c]] \in [DOMAIN step.cards -> Card]
  BY <1>1
<1>4. [c \in DOMAIN step.cards |-> card[c]] \in Rows
  BY <1>1, <1>3 DEF Rows
<1>5. Reversal(step) = [op |-> step.op, cards |-> [c \in DOMAIN step.cards |-> card[c]], update |-> step.update]
  BY DEF Reversal, Step
<1>6. QED
  BY <1>2, <1>4, <1>5 DEF Step

LEMMA StepsIn ==
  ASSUME TypeInv
  PROVE  /\ \A step \in ToSet(undo) \cup ToSet(redo) : step \in Step
         /\ undo # <<>> => Head(undo) \in ToSet(undo) /\ Tail(undo) \in Seq(Step)
                           /\ ToSet(Tail(undo)) \subseteq ToSet(undo) /\ Len(Tail(undo)) <= UndoLimit
         /\ redo # <<>> => Head(redo) \in ToSet(redo) /\ Tail(redo) \in Seq(Step)
                           /\ ToSet(Tail(redo)) \subseteq ToSet(redo)
<1>1. undo \in Seq(Step) /\ redo \in Seq(Step) /\ Len(undo) <= UndoLimit /\ UndoLimit \in Nat
  BY UndoAssumption DEF TypeInv
<1>2. QED
  BY <1>1, HeadTailProperties, SeqFacts, TailSet

LEMMA EmptySteps ==
  /\ <<>> \in Seq(Step) /\ ToSet(<<>>) = {} /\ Len(<<>>) <= UndoLimit
  BY UndoAssumption DEF ToSet

\* Queues that are looked at show what they showed.
LEMMA CountsCallIs ==
  ASSUME NEW q \in CardQueues, Agree(q), now \in Nat, q.cutoff <= now
  PROVE  /\ CountsCall(q) \in CardQueues /\ Agree(CountsCall(q)) /\ CountsCall(q).cutoff <= now
         /\ View(CountsCall(q)) = View(q) /\ CountsCall(q).day = q.day /\ CountsCall(q).build = q.build
<1>1. /\ AdvanceCutoff(q) \in CardQueues /\ Agree(AdvanceCutoff(q)) /\ SameMain(q, AdvanceCutoff(q))
      /\ AdvanceCutoff(q).learning = q.learning /\ AdvanceCutoff(q).cutoff = now
  BY AdvanceIs
<1>2. CountsCall(q) = q \/ CountsCall(q) = AdvanceCutoff(q)
  BY DEF CountsCall
<1>3. QED
  BY <1>1, <1>2 DEF View, SameMain

(***************************************************************************)
(* Every action keeps it                                                   *)
(***************************************************************************)
LEMMA InitQueuesInv == Init => QueuesInv
<1> SUFFICES ASSUME Init PROVE QueuesInv
  OBVIOUS
<1>1. now \in Times /\ now \in Nat /\ now >= Epoch /\ Epoch \in Nat \ {0} /\ DayLen \in Nat \ {0}
  BY TimeAssumption DEF Init
<1>2. Today \in Nat
  <2>1. now - Epoch \in Nat
    BY <1>1
  <2>2. QED
    BY <1>1, <2>1 DEF Today
<1>3. card \in [Cards -> Card] /\ bury \in BuryMode
  BY StartsAssumption DEF Init
<1>4. TypeInv
  <2>1. panicked \in BOOLEAN /\ behind \subseteq Cards
    BY DEF Init
  <2>2. last_unburied \in Nat /\ last_unburied <= Today /\ builds \in Nat /\ answers \in Nat /\ others \in Nat
    BY <1>2 DEF Init
  <2>3. /\ undo \in Seq(Step) /\ redo \in Seq(Step) /\ Len(undo) <= UndoLimit
        /\ queues \in CardQueues \cup {None} /\ (shown # None => shown.id \in Cards)
    BY EmptySteps DEF Init
  <2>4. QED
    BY <1>1, <1>3, <2>1, <2>2, <2>3 DEF TypeInv
<1>5. QED
  BY <1>4, EmptySteps DEF Init, QueuesInv, ShownOnTop, QueuesSound, StepsSound, Chained

LEMMA SoundLater ==
  ASSUME NEW step \in Step, NEW t \in Nat, NEW d \in Nat, NEW b \in Nat,
         NEW t2 \in Nat, NEW d2 \in Nat, NEW b2 \in Nat, t <= t2, d <= d2, b <= b2,
         StepSound(step, t, d, b)
  PROVE  StepSound(step, t2, d2, b2)
<1>1. CASE step.update # None
  <2>1. step.update \in QueueUpdate
    BY <1>1, StepFields
  <2>2. step.update.build \in Nat /\ step.update.before \in CardQueues
    BY <2>1, UpdateFields
  <2>3. step.update.before.cutoff \in Nat /\ step.update.before.day \in Nat
    BY <2>2, QueueFields
  <2>4. QED
    BY <2>2, <2>3 DEF StepSound
<1>2. QED
  BY <1>1 DEF StepSound

\* Without queues and without a shown card there is nothing else to keep.
LEMMA NoQueues ==
  ASSUME TypeInv', StepsSound', queues' = None, shown' = None
  PROVE  QueuesInv'
  BY DEF QueuesInv, ShownOnTop, QueuesSound, Chained

LEMMA SameQueues ==
  ASSUME QueuesInv, UNCHANGED <<now, queues, shown, undo, redo, builds>>, TypeInv'
  PROVE  QueuesInv'
<1>1. Today' = Today
  BY DEF Today
<1>2. QED
  BY <1>1 DEF QueuesInv, ShownOnTop, QueuesSound, StepsSound, Chained

LEMMA TickQueues == ASSUME QueuesInv, Tick PROVE QueuesInv'
<1>1. TypeInv /\ now' \in Times /\ now < now'
  BY DEF QueuesInv, Tick
<1>2. now \in Nat /\ Today \in Nat /\ now' \in Nat /\ builds \in Nat
  BY <1>1, NowFacts, TimeAssumption DEF TypeInv
<1>3. Today <= Today'
  BY <1>1, <1>2, TodayGrows
<1>4. Today' \in Nat
  <2> DEFINE t == now'
  <2>1. t \in Nat /\ t >= Epoch /\ Epoch \in Nat /\ DayLen \in Nat \ {0}
    BY <1>1, TimeAssumption
  <2> HIDE DEF t
  <2>2. t - Epoch \in Nat
    BY <2>1
  <2>3. (t - Epoch) \div DayLen \in Nat
    BY <2>1, <2>2
  <2>4. QED
    BY <2>3 DEF Today, t
<1>5. UNCHANGED <<card, bury, queues, undo, redo, last_unburied, shown, builds, answers, others, behind, panicked>>
  BY DEF Tick
<1> DEFINE d == Today
           d2 == Today'
           t2 == now'
<1>6. d \in Nat /\ d2 \in Nat /\ d <= d2 /\ t2 \in Nat /\ now <= t2 /\ last_unburied \in Nat /\ last_unburied <= d
  BY <1>1, <1>2, <1>3, <1>4 DEF TypeInv
<1> HIDE DEF d, d2, t2
<1>7. last_unburied <= d2
  BY <1>6
<1>8. TypeInv'
  BY <1>1, <1>5, <1>7 DEF TypeInv, d2
<1>9. QueuesSound'
  <2>1. CASE queues # None
    <3>1. queues \in CardQueues /\ QueueSound(queues, now, d, builds)
      BY <1>1, <2>1 DEF QueuesInv, QueuesSound, TypeInv, d
    <3>2. queues.cutoff \in Nat /\ queues.day \in Nat
      BY <3>1, QueueFields
    <3>3. QueueSound(queues, t2, d2, builds)
      BY <1>2, <1>6, <3>1, <3>2 DEF QueueSound
    <3>4. QED
      BY <1>5, <3>3 DEF QueuesSound, t2, d2
  <2>2. QED
    BY <1>5, <2>1 DEF QueuesSound
<1>10. StepsSound'
  <2>1. ASSUME NEW step \in ToSet(undo) \cup ToSet(redo) PROVE StepSound(step, t2, d2, builds)
    <3>1. step \in Step
      BY <1>1, StepsIn
    <3>2. StepSound(step, now, d, builds)
      BY DEF QueuesInv, StepsSound, d
    <3>3. builds <= builds
      BY <1>2
    <3>4. QED
      BY <1>2, <1>6, <3>1, <3>2, <3>3, SoundLater
  <2>2. QED
    BY <1>5, <2>1 DEF StepsSound, t2, d2
<1>11. QED
  BY <1>5, <1>8, <1>9, <1>10 DEF QueuesInv, ShownOnTop, Chained

LEMMA DeckListQueues == ASSUME QueuesInv, DeckList PROVE QueuesInv'
<1>1. TypeInv
  BY DEF QueuesInv
<1>2. Unburied(card) \in [Cards -> Card]
  BY <1>1, UnburiedIs DEF TypeInv
<1>3. Today \in Nat /\ Today <= Today /\ Today' = Today
  BY <1>1, NowFacts DEF DeckList, Today
<1>4. TypeInv'
  BY <1>1, <1>2, <1>3 DEF TypeInv, DeckList
<1>5. QED
  BY <1>4, SameQueues DEF DeckList

\* No step, or one whose record is in order, is added.
LEMMA StepsKept ==
  ASSUME StepsSound, UNCHANGED <<now, builds>>, NEW x, StepSound(x, now, Today, builds),
         ToSet(undo') \subseteq {x} \cup ToSet(undo) \cup ToSet(redo),
         ToSet(redo') \subseteq {x} \cup ToSet(undo) \cup ToSet(redo)
  PROVE  StepsSound'
<1>1. Today' = Today
  BY DEF Today
<1>2. QED
  BY <1>1 DEF StepsSound

LEMMA StepsDropped == ASSUME undo' = <<>>, redo' = <<>> PROVE StepsSound'
  BY EmptySteps DEF StepsSound

LEMMA RefusedQueues == ASSUME QueuesInv, AnswerRefused PROVE QueuesInv'
<1>1. Today' = Today
  BY DEF AnswerRefused, Today
<1>2. TypeInv'
  BY <1>1, EmptySteps DEF AnswerRefused, FallBehind, TypeInv, QueuesInv
<1>3. QED
  BY <1>2, StepsDropped, NoQueues DEF AnswerRefused

LEMMA GetNextQueues == ASSUME QueuesInv, GetNext PROVE QueuesInv'
<1>1. TypeInv /\ QueuesSound /\ StepsSound /\ Chained
  BY DEF QueuesInv
<1>2. now \in Nat /\ Today \in Nat /\ Today' = Today /\ Today <= Today /\ now <= now
  BY <1>1, NowFacts DEF GetNext, Today
<1>3. UNCHANGED <<now, bury, answers, others, panicked>>
  BY DEF GetNext
<1>4. card' \in [Cards -> Card]
  <2>1. Unburied(card) \in [Cards -> Card]
    BY <1>1, UnburiedIs DEF TypeInv
  <2>2. QED
    BY <1>1, <2>1 DEF GetNext, TypeInv
<1>5. /\ undo' \in Seq(Step) /\ redo' \in Seq(Step) /\ Len(undo') <= UndoLimit
      /\ last_unburied' \in Nat /\ last_unburied' <= Today
  BY <1>1, <1>2, EmptySteps DEF GetNext, TypeInv
<1>6. /\ queues' \in CardQueues /\ QueueSound(queues', now, Today, builds')
      /\ builds' \in Nat /\ builds <= builds' /\ behind' \subseteq Cards /\ Chained'
  <2>1. CASE queues = None \/ DayChanged
    <3>1. builds' = builds + 1 /\ behind' = {} /\ \E q \in BuiltQueues(card') : queues' = CountsCall(q)
      BY <2>1 DEF GetNext
    <3>2. PICK cards \in [Cards -> Card] : cards = card'
      BY <1>4
    <3>3. PICK q \in BuiltQueues(cards) : queues' = CountsCall(q)
      BY <3>1, <3>2
    <3>4. q \in CardQueues /\ Agree(q) /\ q.cutoff = now /\ q.day = Today /\ q.build = builds + 1
      BY <1>1, BuiltIs
    <3>5. /\ queues' \in CardQueues /\ Agree(queues') /\ queues'.cutoff <= now
          /\ queues'.day = Today /\ queues'.build = builds + 1
      BY <1>2, <3>3, <3>4, CountsCallIs
    <3>6. builds \in Nat
      BY <1>1 DEF TypeInv
    <3>7. ASSUME NEW step \in ToSet(undo) \cup ToSet(redo) PROVE ~LiveIn(builds + 1, step)
      <4>1. step \in Step /\ StepSound(step, now, Today, builds)
        BY <1>1, StepsIn DEF StepsSound
      <4>2. CASE step.update # None
        <5>1. step.update \in QueueUpdate
          BY <4>1, <4>2, StepFields
        <5>2. step.update.build \in Nat /\ step.update.build <= builds
          BY <4>1, <4>2, <5>1, UpdateFields DEF StepSound
        <5>3. QED
          BY <3>6, <5>2 DEF LiveIn
      <4>3. QED
        BY <4>2 DEF LiveIn
    <3>8. \A step \in ToSet(undo') \cup ToSet(redo') : ~LiveIn(builds', step)
      BY <3>1, <3>7, EmptySteps DEF GetNext
    <3>9. Chained'
      BY <3>8, ChainVoid DEF Chained
    <3>10. QED
      BY <1>2, <3>1, <3>5, <3>6, <3>9 DEF QueueSound
  <2>2. CASE ~(queues = None \/ DayChanged)
    <3>1. /\ queues' = CountsCall(queues) /\ UNCHANGED <<builds, behind, undo, redo>> /\ queues # None
      BY <2>2 DEF GetNext
    <3>2. queues \in CardQueues /\ QueueSound(queues, now, Today, builds)
      BY <1>1, <3>1 DEF QueuesSound, TypeInv
    <3>3. /\ queues' \in CardQueues /\ Agree(queues') /\ queues'.cutoff <= now
          /\ View(queues') = View(queues) /\ queues'.day = queues.day /\ queues'.build = queues.build
      BY <1>2, <3>1, <3>2, CountsCallIs DEF QueueSound
    <3>4. builds \in Nat /\ behind \subseteq Cards
      BY <1>1 DEF TypeInv
    <3>5. Chained'
      BY <1>1, <3>1, <3>3 DEF Chained
    <3>6. QED
      BY <3>1, <3>2, <3>3, <3>4, <3>5 DEF QueueSound
  <2>3. QED
    BY <2>1, <2>2
<1>7. queues' # None
  BY <1>6, NoneAssumption
<1>8. ShownOnTop' /\ (shown' # None => shown'.id \in Cards)
  <2>1. CASE TopEntry(queues') = None
    BY <2>1 DEF GetNext, ShownOnTop
  <2>2. CASE TopEntry(queues') # None
    <3>1. TopEntry(queues').id \in Cards
      BY <1>6, <2>2, TopIs, EntryFacts
    <3>2. shown' # None => shown'.id = TopEntry(queues').id
      BY <2>2 DEF GetNext
    <3>3. QED
      BY <1>7, <2>2, <3>1, <3>2 DEF ShownOnTop
  <2>3. QED
    BY <2>1, <2>2
<1>9. TypeInv'
  BY <1>1, <1>2, <1>3, <1>4, <1>5, <1>6, <1>8 DEF TypeInv
<1>10. StepsSound'
  <2>1. builds \in Nat /\ builds' \in Nat /\ builds <= builds'
    BY <1>1, <1>6 DEF TypeInv
  <2>2. ASSUME NEW step \in ToSet(undo) \cup ToSet(redo) PROVE StepSound(step, now, Today, builds')
    <3>1. step \in Step
      BY <1>1, StepsIn
    <3>2. StepSound(step, now, Today, builds)
      BY <1>1 DEF StepsSound
    <3>3. QED
      BY <1>2, <2>1, <3>1, <3>2, SoundLater
  <2>3. ToSet(undo') \cup ToSet(redo') \subseteq ToSet(undo) \cup ToSet(redo)
    BY EmptySteps DEF GetNext
  <2>4. QED
    BY <1>2, <1>3, <2>2, <2>3 DEF StepsSound
<1>11. QED
  BY <1>2, <1>3, <1>6, <1>8, <1>9, <1>10 DEF QueuesInv, QueuesSound

LEMMA FallBehindType ==
  ASSUME TypeInv, NEW C \in SUBSET Cards, FallBehind(C)
  PROVE  behind' \subseteq Cards
  BY DEF TypeInv, FallBehind

LEMMA AnswerQueues == ASSUME QueuesInv, Answer PROVE QueuesInv'
<1>1. /\ TypeInv /\ StepsSound /\ Chained /\ queues # None /\ TopEntry(queues) # None
      /\ TopEntry(queues).id = shown.id /\ QueueSound(queues, now, Today, builds)
      /\ shown.id \in Cards
  BY DEF QueuesInv, ShownOnTop, QueuesSound, Answer, TypeInv
<1> DEFINE c == shown.id
           top == TopEntry(queues)
<1>0. PICK next \in AfterAnswer(card[c]) : \E x \in QueueUpdates(c, next) :
        /\ card' = Answered(c, next)
        /\ queues' = x.queues
        /\ PushStep(StepOf("AnswerCard", Written(c), x.update))
  BY DEF Answer
<1>2. PICK x \in QueueUpdates(c, next) :
        /\ card' = Answered(c, next)
        /\ queues' = x.queues
        /\ PushStep(StepOf("AnswerCard", Written(c), x.update))
  BY <1>0
<1>3. UNCHANGED <<now, bury, last_unburied, builds, behind, panicked, others>>
      /\ redo' = <<>> /\ shown' = None /\ answers' = answers + 1
  BY DEF Answer, NextAnswer
<1>4. card[c] \in Card /\ next \in Card
  <2>1. card[c] \in Card
    BY <1>1 DEF TypeInv
  <2>2. QED
    BY <1>0, <1>1, <2>1, AfterAnswerIs
<1>5. queues \in CardQueues /\ Agree(queues) /\ queues.cutoff <= now /\ queues.day <= Today /\ queues.build = builds
  BY <1>1 DEF TypeInv, QueueSound
<1> DEFINE u == x.update
<1>6. /\ x.queues \in CardQueues /\ Agree(x.queues) /\ x.queues.cutoff = now
      /\ x.queues.build = queues.build /\ x.queues.day = queues.day
      /\ u \in QueueUpdate /\ UpdateOK(u) /\ u.build = queues.build
      /\ u.before = queues /\ View(x.queues) = After(u)
  <2>1. x \in QueueUpdates(TopEntry(queues).id, next)
    BY <1>1, <1>2
  <2>2. QED
    BY <1>1, <1>4, <1>5, <2>1, AnsweredIs
<1>7. u # None /\ now \in Nat /\ now <= now /\ Today' = Today /\ builds \in Nat /\ builds <= builds
  BY <1>1, <1>3, <1>6, NoneAssumption, NowFacts DEF Today, TypeInv
<1> DEFINE step == StepOf("AnswerCard", Written(c), u)
<1>8. step \in Step /\ step.update = u
  <2>1. Written(c) \in SUBSET Cards
    BY <1>1 DEF Written, SiblingsToBury
  <2>2. QED
    BY <1>1, <1>6, <2>1, StepType DEF StepOf
<1> HIDE DEF step
<1>9. undo \in Seq(Step) /\ PushStep(step)
  BY <1>1, <1>2 DEF TypeInv, step
<1>10. /\ undo' \in Seq(Step) /\ Len(undo') <= UndoLimit
       /\ ToSet(undo') \subseteq {step} \cup ToSet(undo)
       /\ \A way, b, v : Chain(way, b, v, <<step>> \o undo) => Chain(way, b, v, undo')
  BY <1>8, <1>9, PushedStep
<1>11. Chain("undo", builds, View(queues'), undo')
  <2>1. LiveIn(builds, step) /\ Far("undo", step.update) = View(queues) /\ Near("undo", step.update) = View(queues')
    BY <1>2, <1>5, <1>6, <1>7, <1>8 DEF LiveIn, Far, Near, Before
  <2>2. Chain("undo", builds, View(queues), undo)
    BY <1>1 DEF Chained
  <2>3. Chain("undo", builds, Near("undo", step.update), <<step>> \o undo)
    BY <1>8, <1>9, <2>1, <2>2, ChainPushLive
  <2>4. QED
    BY <1>10, <2>1, <2>3
<1>12. Chained'
  BY <1>3, <1>11, ChainEmpty DEF Chained
<1>13. StepSound(step, now, Today, builds)
  BY <1>5, <1>6, <1>7, <1>8 DEF StepSound
<1>14. StepsSound'
  <2>1. ToSet(undo') \subseteq {step} \cup ToSet(undo) \cup ToSet(redo)
        /\ ToSet(redo') \subseteq {step} \cup ToSet(undo) \cup ToSet(redo)
    BY <1>3, <1>10, EmptySteps
  <2>2. QED
    BY <1>1, <1>3, <1>13, <2>1, StepsKept
<1>15. TypeInv'
  <2>1. card' \in [Cards -> Card]
    BY <1>1, <1>2, <1>4, AnsweredType
  <2>2. queues' \in CardQueues
    BY <1>2, <1>6
  <2>3. QED
    BY <1>1, <1>3, <1>7, <1>10, <2>1, <2>2, EmptySteps DEF TypeInv
<1>16. QueuesSound' /\ ShownOnTop'
  BY <1>2, <1>3, <1>5, <1>6, <1>7 DEF QueuesSound, QueueSound, ShownOnTop
<1>17. QED
  BY <1>12, <1>14, <1>15, <1>16 DEF QueuesInv

\* An operation that keeps the queues without editing them, or drops them.
LEMMA OtherStep ==
  ASSUME QueuesInv, NEW step \in Step, step.update = None, PushStep(step),
         UNCHANGED <<now, bury, last_unburied, builds, panicked, answers>>,
         redo' = <<>>, others' = others + 1, card' \in [Cards -> Card],
         (queues' = None /\ shown' = None) \/ UNCHANGED <<queues, shown>>,
         behind' \subseteq Cards
  PROVE  QueuesInv'
<1>1. TypeInv /\ StepsSound /\ Chained /\ QueuesSound /\ ShownOnTop /\ undo \in Seq(Step)
  BY DEF QueuesInv, TypeInv
<1>2. /\ undo' \in Seq(Step) /\ Len(undo') <= UndoLimit
      /\ ToSet(undo') \subseteq {step} \cup ToSet(undo)
      /\ \A way, b, v : Chain(way, b, v, <<step>> \o undo) => Chain(way, b, v, undo')
  BY <1>1, PushedStep
<1>3. StepSound(step, now, Today, builds) /\ Today' = Today
  BY DEF StepSound, Today
<1>4. StepsSound'
  <2>1. ToSet(undo') \subseteq {step} \cup ToSet(undo) \cup ToSet(redo)
        /\ ToSet(redo') \subseteq {step} \cup ToSet(undo) \cup ToSet(redo)
    BY <1>2, EmptySteps
  <2>2. QED
    BY <1>1, <1>3, <2>1, StepsKept
<1>5. queues' # None => Chain("undo", builds, View(queues'), undo')
  <2>1. CASE queues' # None
    <3>1. queues' = queues /\ Chain("undo", builds, View(queues), undo)
      BY <1>1, <2>1 DEF Chained
    <3>2. ~LiveIn(builds, step)
      BY DEF LiveIn
    <3>3. Chain("undo", builds, View(queues), <<step>> \o undo)
      BY <1>1, <3>1, <3>2, ChainPush
    <3>4. QED
      BY <1>2, <3>1, <3>3
  <2>2. QED
    BY <2>1
<1>6. Chained'
  BY <1>5, ChainEmpty DEF Chained
<1>7. TypeInv'
  BY <1>1, <1>2, <1>3, EmptySteps DEF TypeInv
<1>8. QueuesSound' /\ ShownOnTop'
  BY <1>1, <1>3 DEF QueuesSound, ShownOnTop
<1>9. QED
  BY <1>4, <1>6, <1>7, <1>8 DEF QueuesInv

LEMMA OutsideQueues ==
  ASSUME QueuesInv, NEW op \in OutsideOps, NEW c \in OtherCards, AnswerOutsideQueue(op, c)
  PROVE  QueuesInv'
<1>1. TypeInv /\ c \in Cards /\ op \in {"AnswerCard", "GradeNow", "Other"}
  BY CardsAssumption, OpsAssumption DEF QueuesInv
<1>2. PICK next \in AfterAnswer(card[c]) :
        /\ card' = Answered(c, next)
        /\ PushStep(StepOf(op, Written(c), None))
        /\ IF KeepsQueues(op) THEN UNCHANGED <<queues, shown>>
           ELSE queues' = None /\ ReviewerRefreshes
        /\ FallBehind(Written(c))
  BY DEF AnswerOutsideQueue
<1>3. card[c] \in Card /\ Written(c) \in SUBSET Cards
  BY <1>1 DEF TypeInv, Written, SiblingsToBury
<1>4. next \in Card
  BY <1>1, <1>2, <1>3, AfterAnswerIs
<1>5. card' \in [Cards -> Card]
  BY <1>1, <1>2, <1>4, AnsweredType
<1>6. StepOf(op, Written(c), None) \in Step /\ StepOf(op, Written(c), None).update = None
  BY <1>1, <1>3, StepType DEF StepOf
<1>7. behind' \subseteq Cards
  BY <1>1, <1>2, <1>3, FallBehindType
<1>8. (queues' = None /\ shown' = None) \/ UNCHANGED <<queues, shown>>
  BY <1>2 DEF ReviewerRefreshes
<1>9. UNCHANGED <<now, bury, last_unburied, builds, panicked, answers>>
      /\ redo' = <<>> /\ others' = others + 1
  BY DEF AnswerOutsideQueue, NextOther
<1>10. QED
  BY <1>2, <1>5, <1>6, <1>7, <1>8, <1>9, OtherStep

LEMMA BuryQueues ==
  ASSUME QueuesInv, NEW c \in OtherCards, NEW queue \in {"Suspended", "UserBuried"}, BuryOrSuspend(c, queue)
  PROVE  QueuesInv'
<1>1. TypeInv /\ c \in Cards /\ {c} \in SUBSET Cards
  BY CardsAssumption DEF QueuesInv
<1>2. card \in [Cards -> Card] /\ now \in Nat /\ queue \in CardQueue
  BY <1>1, NowFacts DEF TypeInv, CardQueue, BuriedOrSuspended
<1>3. card' \in [Cards -> Card]
  <2>1. [card[c] EXCEPT !.queue = queue, !.mtime = now] \in Card
    BY <1>1, <1>2 DEF Card
  <2>2. card' = [card EXCEPT ![c] = [card[c] EXCEPT !.queue = queue, !.mtime = now]]
    BY <1>1, <1>2 DEF BuryOrSuspend
  <2>3. QED
    BY <1>1, <1>2, <2>1, <2>2
<1>4. StepOf("Other", {c}, None) \in Step /\ StepOf("Other", {c}, None).update = None
  BY <1>1, StepType DEF StepOf
<1>5. behind' \subseteq Cards
  <2>1. {} \in SUBSET Cards /\ FallBehind({})
    BY DEF BuryOrSuspend
  <2>2. QED
    BY <1>1, <2>1, FallBehindType
<1>6. QED
  BY <1>3, <1>4, <1>5, OtherStep DEF BuryOrSuspend, NextOther, ReviewerRefreshes

LEMMA UnburyQueues ==
  ASSUME QueuesInv, NEW c \in OtherCards, UnburyOrUnsuspend(c)
  PROVE  QueuesInv'
<1>1. TypeInv /\ c \in Cards /\ {c} \in SUBSET Cards
  BY CardsAssumption DEF QueuesInv
<1>2. card \in [Cards -> Card] /\ now \in Nat
  BY <1>1, NowFacts DEF TypeInv
<1>3. card' \in [Cards -> Card]
  <2> DEFINE queue == RestoredQueue(card[c])
  <2>1. queue \in CardQueue
    BY <1>1, <1>2, RestoredIs DEF CardQueue, IntradayQueues
  <2> HIDE DEF queue
  <2>2. [card[c] EXCEPT !.queue = queue, !.mtime = now] \in Card
    BY <1>1, <1>2, <2>1 DEF Card
  <2>3. card' = [card EXCEPT ![c] = [card[c] EXCEPT !.queue = queue, !.mtime = now]]
    BY <1>1, <1>2 DEF UnburyOrUnsuspend, queue
  <2>4. QED
    BY <1>1, <1>2, <2>2, <2>3
<1>4. StepOf("Other", {c}, None) \in Step /\ StepOf("Other", {c}, None).update = None
  BY <1>1, StepType DEF StepOf
<1>5. behind' \subseteq Cards
  <2>1. {} \in SUBSET Cards /\ FallBehind({})
    BY DEF UnburyOrUnsuspend
  <2>2. QED
    BY <1>1, <2>1, FallBehindType
<1>6. QED
  BY <1>3, <1>4, <1>5, OtherStep DEF UnburyOrUnsuspend, NextOther, ReviewerRefreshes

LEMMA RollOverQueues ==
  ASSUME QueuesInv, NEW cards \in [Cards -> Card], RollOverInUndo(cards),
         shown' = None, behind' \subseteq Cards,
         UNCHANGED <<now, bury, builds, answers, others>>
  PROVE  QueuesInv'
<1>1. TypeInv /\ Today' = Today /\ Today \in Nat /\ Today <= Today
  BY NowFacts DEF QueuesInv, Today
<1>2. panicked' \in BOOLEAN /\ card' \in [Cards -> Card] /\ queues' = None /\ undo' = <<>> /\ redo' = <<>>
      /\ last_unburied' = Today
  BY DEF RollOverInUndo
<1>3. TypeInv'
  BY <1>1, <1>2, EmptySteps DEF TypeInv
<1>4. QED
  BY <1>2, <1>3, StepsDropped, NoQueues

\* A step without a change of the queues moves from one side to the other.
LEMMA MovedVoid ==
  ASSUME NEW step \in Step, step.update = None, NEW way, NEW v, NEW b, NEW s \in Seq(Step),
         Chain(way, b, v, s)
  PROVE  /\ Chain(way, b, v, <<step>> \o s)
         /\ s # <<>> /\ Head(s).update = None => Chain(way, b, v, Tail(s))
<1>1. ~LiveIn(b, step)
  BY DEF LiveIn
<1>2. ASSUME s # <<>>, Head(s).update = None PROVE Chain(way, b, v, Tail(s))
  <2>1. ~LiveIn(b, Head(s))
    BY <1>2 DEF LiveIn
  <2>2. QED
    BY <1>2, <2>1, ChainTail
<1>3. QED
  BY <1>1, <1>2, ChainPush

LEMMA UndoQueues == ASSUME QueuesInv, Undo PROVE QueuesInv'
<1> DEFINE step == Head(undo)
           back == Reversal(step)
           u == step.update
<1>1. /\ TypeInv /\ StepsSound /\ Chained /\ QueuesSound
      /\ undo \in Seq(Step) /\ redo \in Seq(Step) /\ undo # <<>>
  BY DEF QueuesInv, TypeInv, Undo
<1>2. /\ step \in Step /\ step \in ToSet(undo) /\ Tail(undo) \in Seq(Step) /\ Len(Tail(undo)) <= UndoLimit
      /\ ToSet(Tail(undo)) \subseteq ToSet(undo)
  BY <1>1, StepsIn
<1>3. UNCHANGED <<now, bury, builds, answers, others>> /\ shown' = None
  BY DEF Undo, ReviewerRefreshes
<1>4. behind' \subseteq Cards
  <2>1. UnqueuedChanges(step) \in SUBSET Cards
    BY <1>2, StepFields DEF UnqueuedChanges
  <2>2. FallBehind(UnqueuedChanges(step))
    BY DEF Undo
  <2>3. QED
    BY <1>1, <2>1, <2>2, FallBehindType
<1>5. ASSUME PanicsInRollover(step),
             RollOverInUndo([c \in Cards |-> IF c \in DOMAIN step.cards THEN step.cards[c]
                                             ELSE Unburied(card)[c]])
      PROVE  QueuesInv'
  <2>1. Unburied(card) \in [Cards -> Card]
    BY <1>1, UnburiedIs DEF TypeInv
  <2>2. [c \in Cards |-> IF c \in DOMAIN step.cards THEN step.cards[c] ELSE Unburied(card)[c]]
          \in [Cards -> Card]
    BY <1>2, <2>1, StepFields
  <2>3. QED
    BY <1>3, <1>4, <1>5, <2>2, RollOverQueues
<1>6. ASSUME card' = Reverted(step),
             queues' = IF step.update # None THEN QueuesAfterUndo(step.update)
                       ELSE IF KeepsQueues(step.op) THEN queues ELSE None,
             undo' = Tail(undo), redo' = <<back>> \o redo,
             UNCHANGED <<last_unburied, panicked>>
      PROVE  QueuesInv'
  <2>1. /\ Reverted(step) \in [Cards -> Card] /\ back \in Step /\ back.update = step.update
    BY <1>1, <1>2, ReversalIs
  <2> HIDE DEF step, back
  <2>2. StepSound(step, now, Today, builds) /\ StepSound(back, now, Today, builds) /\ Today' = Today
    <3>1. StepSound(step, now, Today, builds)
      BY <1>1, <1>2 DEF StepsSound
    <3>2. QED
      BY <1>3, <2>1, <3>1 DEF StepSound, Today
  <2>3. /\ redo' \in Seq(Step) /\ ToSet(redo') = {back} \cup ToSet(redo)
    BY <1>1, <1>6, <2>1, ConsSet
  <2>4. StepsSound'
    <3>1. ToSet(undo') \subseteq {back} \cup ToSet(undo) \cup ToSet(redo)
          /\ ToSet(redo') \subseteq {back} \cup ToSet(undo) \cup ToSet(redo)
      BY <1>2, <1>6, <2>3
    <3>2. QED
      BY <1>1, <1>3, <2>2, <3>1, StepsKept
  <2>5. /\ queues' # None => queues' \in CardQueues /\ QueueSound(queues', now, Today, builds)
        /\ Chained'
    <3>1. CASE u = None
      <4>1. queues' = queues \/ queues' = None
        BY <1>6, <3>1 DEF step
      <4>2. CASE queues' # None
        <5>1. queues' = queues /\ queues \in CardQueues /\ QueueSound(queues, now, Today, builds)
              /\ Chain("undo", builds, View(queues), undo) /\ Chain("redo", builds, View(queues), redo)
          BY <1>1, <4>1, <4>2 DEF TypeInv, QueuesSound, Chained
        <5>2. Chain("undo", builds, View(queues), Tail(undo))
          BY <1>1, <1>2, <3>1, <5>1, MovedVoid DEF step
        <5>3. Chain("redo", builds, View(queues), <<back>> \o redo)
          BY <1>1, <2>1, <3>1, <5>1, MovedVoid DEF step
        <5>4. QED
          BY <1>3, <1>6, <5>1, <5>2, <5>3 DEF Chained
      <4>3. QED
        BY <4>2 DEF Chained
    <3>2. CASE u # None /\ ~SameBuild(u)
      BY <1>6, <3>2 DEF QueuesAfterUndo, Chained, step
    <3>3. CASE u # None /\ SameBuild(u)
      <4>1. /\ queues # None /\ queues \in CardQueues /\ QueueSound(queues, now, Today, builds)
            /\ u \in QueueUpdate /\ UpdateOK(u) /\ u.build = builds
            /\ u.before.cutoff <= now /\ u.before.day <= Today
            /\ LiveIn(builds, step) /\ LiveIn(builds, back)
        <5>1. queues # None /\ queues.build = u.build
          BY <3>3 DEF SameBuild
        <5>2. queues \in CardQueues /\ QueueSound(queues, now, Today, builds)
          BY <1>1, <5>1 DEF TypeInv, QueuesSound
        <5>3. u \in QueueUpdate
          BY <1>2, <3>3, StepFields DEF step
        <5>4. UpdateOK(u) /\ u.before.cutoff <= now /\ u.before.day <= Today
          BY <2>2, <3>3 DEF StepSound, step
        <5>5. QED
          BY <2>1, <3>3, <5>1, <5>2, <5>3, <5>4 DEF LiveIn, QueueSound, step
      <4>2. Chain("undo", builds, View(queues), undo) /\ Chain("redo", builds, View(queues), redo)
        BY <1>1, <4>1 DEF Chained
      <4>3. View(queues) = After(u) /\ Chain("undo", builds, Before(u), Tail(undo))
        BY <1>1, <4>1, <4>2, ChainTail DEF Near, Far, step
      <4>4. Agree(queues)
        BY <4>1 DEF QueueSound
      <4>5. /\ QueuesAfterUndo(u) \in CardQueues /\ Agree(QueuesAfterUndo(u))
            /\ View(QueuesAfterUndo(u)) = Before(u)
            /\ QueuesAfterUndo(u).counts = u.before.counts /\ QueuesAfterUndo(u).cutoff = u.before.cutoff
        BY <4>1, <4>3, <4>4, UndoneIs
      <4>6. queues' = QueuesAfterUndo(u)
        BY <1>6, <3>3 DEF step
      <4>7. queues'.build = builds /\ queues'.day = u.before.day
        <5>1. queues'.build = u.before.build /\ queues'.day = u.before.day
          BY <4>5, <4>6, SameView DEF Before
        <5>2. QED
          BY <4>1, <5>1 DEF UpdateOK
      <4>8. Chain("redo", builds, Before(u), <<back>> \o redo)
        <5>1. Far("redo", back.update) = View(queues) /\ Near("redo", back.update) = Before(u)
          BY <2>1, <4>3 DEF Far, Near, step
        <5>2. QED
          BY <1>1, <2>1, <4>1, <4>2, <5>1, ChainPushLive
      <4>9. Chained'
        BY <1>3, <1>6, <4>3, <4>5, <4>6, <4>8 DEF Chained
      <4>10. QED
        BY <4>1, <4>5, <4>6, <4>7, <4>9 DEF QueueSound
    <3>4. QED
      BY <3>1, <3>2, <3>3
  <2>6. TypeInv'
    <3>1. queues' \in CardQueues \cup {None} /\ shown' = None /\ card' \in [Cards -> Card]
      BY <1>3, <1>6, <2>1, <2>5
    <3>2. undo' \in Seq(Step) /\ Len(undo') <= UndoLimit /\ redo' \in Seq(Step)
      BY <1>2, <1>6, <2>3
    <3>3. QED
      BY <1>1, <1>3, <1>4, <1>6, <2>2, <3>1, <3>2 DEF TypeInv
  <2>7. QED
    BY <1>3, <2>2, <2>4, <2>5, <2>6 DEF QueuesInv, QueuesSound, ShownOnTop
<1>7. QED
  BY <1>5, <1>6 DEF Undo

LEMMA RedoQueues == ASSUME QueuesInv, Redo PROVE QueuesInv'
<1> DEFINE step == Head(redo)
           back == Reversal(step)
           u == step.update
<1>1. /\ TypeInv /\ StepsSound /\ Chained /\ QueuesSound
      /\ undo \in Seq(Step) /\ redo \in Seq(Step) /\ redo # <<>>
  BY DEF QueuesInv, TypeInv, Redo
<1>2. /\ step \in Step /\ step \in ToSet(redo) /\ Tail(redo) \in Seq(Step)
      /\ ToSet(Tail(redo)) \subseteq ToSet(redo)
  BY <1>1, StepsIn
<1>3. UNCHANGED <<now, bury, builds, answers, others>> /\ shown' = None
  BY DEF Redo, ReviewerRefreshes
<1>4. behind' \subseteq Cards
  <2>1. UnqueuedChanges(step) \in SUBSET Cards
    BY <1>2, StepFields DEF UnqueuedChanges
  <2>2. FallBehind(UnqueuedChanges(step))
    BY DEF Redo
  <2>3. QED
    BY <1>1, <2>1, <2>2, FallBehindType
<1>0. Reverted(step) \in [Cards -> Card] /\ back \in Step /\ back.update = step.update
  BY <1>1, <1>2, ReversalIs
<1>5. ASSUME PanicsInRollover(step), RollOverInUndo(Unburied(Reverted(step)))
      PROVE  QueuesInv'
  <2>1. Unburied(Reverted(step)) \in [Cards -> Card]
    BY <1>0, UnburiedIs
  <2>2. QED
    BY <1>3, <1>4, <1>5, <2>1, RollOverQueues
<1>6. ASSUME card' = Reverted(step),
             IF step.update # None THEN queues' \in QueuesAfterRedo(step.update)
             ELSE queues' = IF KeepsQueues(step.op) THEN queues ELSE None,
             PushStep(back), redo' = Tail(redo),
             UNCHANGED <<last_unburied, panicked>>
      PROVE  QueuesInv'
  <2> HIDE DEF step, back
  <2>2. StepSound(step, now, Today, builds) /\ StepSound(back, now, Today, builds) /\ Today' = Today
    <3>1. StepSound(step, now, Today, builds)
      BY <1>1, <1>2 DEF StepsSound
    <3>2. QED
      BY <1>3, <1>0, <3>1 DEF StepSound, Today
  <2>3. /\ undo' \in Seq(Step) /\ Len(undo') <= UndoLimit
        /\ ToSet(undo') \subseteq {back} \cup ToSet(undo)
        /\ \A way, b, v : Chain(way, b, v, <<back>> \o undo) => Chain(way, b, v, undo')
    BY <1>0, <1>1, <1>6, PushedStep
  <2>4. StepsSound'
    <3>1. ToSet(undo') \subseteq {back} \cup ToSet(undo) \cup ToSet(redo)
          /\ ToSet(redo') \subseteq {back} \cup ToSet(undo) \cup ToSet(redo)
      BY <1>2, <1>6, <2>3
    <3>2. QED
      BY <1>1, <1>3, <2>2, <3>1, StepsKept
  <2>5. /\ queues' # None => queues' \in CardQueues /\ QueueSound(queues', now, Today, builds)
        /\ Chained'
    <3>1. CASE u = None
      <4>1. queues' = queues \/ queues' = None
        BY <1>6, <3>1 DEF step
      <4>2. CASE queues' # None
        <5>1. queues' = queues /\ queues \in CardQueues /\ QueueSound(queues, now, Today, builds)
              /\ Chain("undo", builds, View(queues), undo) /\ Chain("redo", builds, View(queues), redo)
          BY <1>1, <4>1, <4>2 DEF TypeInv, QueuesSound, Chained
        <5>2. Chain("redo", builds, View(queues), Tail(redo))
          BY <1>1, <1>2, <3>1, <5>1, MovedVoid DEF step
        <5>3. Chain("undo", builds, View(queues), <<back>> \o undo)
          BY <1>0, <1>1, <3>1, <5>1, MovedVoid DEF step
        <5>4. Chain("undo", builds, View(queues), undo')
          BY <2>3, <5>3
        <5>5. QED
          BY <1>3, <1>6, <5>1, <5>2, <5>4 DEF Chained
      <4>3. QED
        BY <4>2 DEF Chained
    <3>2. CASE u # None /\ ~SameBuild(u)
      BY <1>6, <3>2 DEF QueuesAfterRedo, Chained, step
    <3>3. CASE u # None /\ SameBuild(u)
      <4>1. /\ queues # None /\ queues \in CardQueues /\ QueueSound(queues, now, Today, builds)
            /\ u \in QueueUpdate /\ UpdateOK(u) /\ u.build = builds
            /\ u.before.cutoff <= now /\ u.before.day <= Today
            /\ LiveIn(builds, step) /\ LiveIn(builds, back)
        <5>1. queues # None /\ queues.build = u.build
          BY <3>3 DEF SameBuild
        <5>2. queues \in CardQueues /\ QueueSound(queues, now, Today, builds)
          BY <1>1, <5>1 DEF TypeInv, QueuesSound
        <5>3. u \in QueueUpdate
          BY <1>2, <3>3, StepFields DEF step
        <5>4. UpdateOK(u) /\ u.before.cutoff <= now /\ u.before.day <= Today
          BY <2>2, <3>3 DEF StepSound, step
        <5>5. QED
          BY <1>0, <3>3, <5>1, <5>2, <5>3, <5>4 DEF LiveIn, QueueSound, step
      <4>2. Chain("undo", builds, View(queues), undo) /\ Chain("redo", builds, View(queues), redo)
        BY <1>1, <4>1 DEF Chained
      <4>3. View(queues) = Before(u) /\ Chain("redo", builds, After(u), Tail(redo))
        BY <1>1, <4>1, <4>2, ChainTail DEF Near, Far, step
      <4>4. Agree(queues)
        BY <4>1 DEF QueueSound
      <4>6. queues' \in QueuesAfterRedo(u)
        BY <1>6, <3>3 DEF step
      <4>5. /\ queues' \in CardQueues /\ Agree(queues')
            /\ View(queues') = After(u) /\ queues'.cutoff = u.before.cutoff
        <5>1. PICK r \in QueuesAfterRedo(u) : r = queues'
          BY <4>6
        <5>2. r \in CardQueues /\ Agree(r) /\ View(r) = After(u) /\ r.cutoff = u.before.cutoff
          BY <4>1, <4>3, <4>4, RedoneIs
        <5>3. QED
          BY <5>1, <5>2
      <4>7. queues'.build = builds /\ queues'.day = u.before.day
        BY <4>1, <4>5, LeftView
      <4>8. Chain("undo", builds, After(u), undo')
        <5>1. Far("undo", back.update) = View(queues) /\ Near("undo", back.update) = After(u)
          BY <1>0, <4>3 DEF Far, Near, step
        <5>2. Chain("undo", builds, After(u), <<back>> \o undo)
          BY <1>0, <1>1, <4>1, <4>2, <5>1, ChainPushLive
        <5>3. QED
          BY <2>3, <5>2
      <4>9. Chained'
        BY <1>3, <1>6, <4>3, <4>5, <4>8 DEF Chained
      <4>10. QED
        BY <4>1, <4>5, <4>7, <4>9 DEF QueueSound
    <3>4. QED
      BY <3>1, <3>2, <3>3
  <2>6. TypeInv'
    <3>1. queues' \in CardQueues \cup {None} /\ shown' = None /\ card' \in [Cards -> Card]
      BY <1>0, <1>3, <1>6, <2>5 DEF step
    <3>2. undo' \in Seq(Step) /\ Len(undo') <= UndoLimit /\ redo' \in Seq(Step)
      BY <1>2, <1>6, <2>3
    <3>3. QED
      BY <1>1, <1>3, <1>4, <1>6, <2>2, <3>1, <3>2 DEF TypeInv
  <2>7. QED
    BY <1>3, <2>2, <2>4, <2>5, <2>6 DEF QueuesInv, QueuesSound, ShownOnTop
<1>7. QED
  BY <1>5, <1>6 DEF Redo

LEMMA NextQueues == QueuesInv /\ [Next]_vars => QueuesInv'
<1> SUFFICES ASSUME QueuesInv, [Next]_vars PROVE QueuesInv'
  OBVIOUS
<1>1. CASE Tick
  BY <1>1, TickQueues
<1>2. CASE GetNext
  BY <1>2, GetNextQueues
<1>3. CASE Answer
  BY <1>3, AnswerQueues
<1>4. CASE AnswerRefused
  BY <1>4, RefusedQueues
<1>5. CASE DeckList
  BY <1>5, DeckListQueues
<1>6. CASE Undo
  BY <1>6, UndoQueues
<1>7. CASE Redo
  BY <1>7, RedoQueues
<1>8. ASSUME NEW c \in OtherCards, NEW op \in OutsideOps, AnswerOutsideQueue(op, c) PROVE QueuesInv'
  BY <1>8, OutsideQueues
<1>9. ASSUME NEW c \in OtherCards, NEW queue \in {"Suspended", "UserBuried"}, BuryOrSuspend(c, queue)
      PROVE  QueuesInv'
  BY <1>9, BuryQueues
<1>10. ASSUME NEW c \in OtherCards, UnburyOrUnsuspend(c) PROVE QueuesInv'
  BY <1>10, UnburyQueues
<1>11. CASE UNCHANGED vars
  <2>1. TypeInv /\ Today' = Today
    BY <1>11 DEF QueuesInv, Today, vars
  <2>2. TypeInv'
    BY <1>11, <2>1 DEF TypeInv, vars
  <2>3. QED
    BY <1>11, <2>2, SameQueues DEF vars
<1>12. QED
  BY <1>1, <1>2, <1>3, <1>4, <1>5, <1>6, <1>7, <1>8, <1>9, <1>10, <1>11 DEF Next

\* The invariant of the queues and of the recorded steps.
THEOREM QueuesInvariant == Spec => []QueuesInv
  BY InitQueuesInv, NextQueues, PTL DEF Spec

\* Every variable has its type in every reachable state: no count of the queues goes
\* below zero, the undo queue keeps its limit.
THEOREM TypeCorrect == Spec => []TypeOK
<1>1. QueuesInv => TypeOK
  <2> SUFFICES ASSUME QueuesInv PROVE TypeOK
    OBVIOUS
  <2>1. TypeInv
    BY DEF QueuesInv
  <2>2. queues # None => \A kind \in DOMAIN queues.counts : queues.counts[kind] \in Nat
    <3> SUFFICES ASSUME queues # None PROVE \A kind \in DOMAIN queues.counts : queues.counts[kind] \in Nat
      OBVIOUS
    <3>1. queues.counts \in [new: Nat, learning: Nat, review: Nat]
      BY <2>1 DEF TypeInv, CardQueues
    <3>2. QED
      BY <3>1
  <2>3. QED
    BY <2>1, <2>2 DEF TypeInv, TypeOK
<1>2. QED
  BY <1>1, QueuesInvariant, PTL

\* CardQueues: the counts are those of the entries, and no card waits twice, through all
\* answers, undos and redos that edit the queues by hand.
THEOREM QueuesStayInStep == Spec => []QueuesAgree
<1>1. QueuesInv => QueuesAgree
  BY DEF QueuesInv, QueuesSound, QueueSound, Agree, QueuesAgree
<1>2. QED
  BY <1>1, QueuesInvariant, PTL

\* QueueUpdate undo: on queues not rebuilt since, the undo of an answer gives back the
\* main queue, counts, cutoff and learning cards of before it.
THEOREM UndoGivesBack == Spec => UndoRestoresQueues
<1> DEFINE Restores ==
      Undo /\ queues' # None /\ Head(undo).update # None =>
        LET before == Head(undo).update.before IN
        /\ queues'.main = before.main
        /\ queues'.counts = before.counts
        /\ queues'.cutoff = before.cutoff
        /\ ToSet(queues'.learning) = ToSet(before.learning)
<1>1. ASSUME QueuesInv, Undo, queues' # None, Head(undo).update # None
      PROVE  LET before == Head(undo).update.before IN
             /\ queues'.main = before.main
             /\ queues'.counts = before.counts
             /\ queues'.cutoff = before.cutoff
             /\ ToSet(queues'.learning) = ToSet(before.learning)
  <2> DEFINE step == Head(undo)
             u == step.update
  <2>1. /\ TypeInv /\ StepsSound /\ Chained /\ QueuesSound
        /\ undo \in Seq(Step) /\ undo # <<>>
    BY <1>1 DEF QueuesInv, TypeInv, Undo
  <2>2. step \in Step /\ step \in ToSet(undo)
    BY <2>1, StepsIn
  <2>3. queues' = QueuesAfterUndo(u)
    BY <1>1 DEF Undo, RollOverInUndo
  <2>4. SameBuild(u)
    BY <1>1, <2>3 DEF QueuesAfterUndo
  <2>5. /\ queues # None /\ queues \in CardQueues /\ Agree(queues) /\ queues.build = builds
        /\ u \in QueueUpdate /\ UpdateOK(u) /\ u.build = builds
    <3>1. queues # None /\ queues.build = u.build
      BY <2>4 DEF SameBuild
    <3>2. queues \in CardQueues /\ QueueSound(queues, now, Today, builds)
      BY <2>1, <3>1 DEF TypeInv, QueuesSound
    <3>3. u \in QueueUpdate
      BY <1>1, <2>2, StepFields
    <3>4. UpdateOK(u)
      BY <1>1, <2>1, <2>2 DEF StepSound, StepsSound
    <3>5. QED
      BY <3>1, <3>2, <3>3, <3>4 DEF QueueSound
  <2>6. View(queues) = After(u)
    <3>1. LiveIn(builds, step)
      BY <1>1, <2>5 DEF LiveIn
    <3>2. QED
      BY <2>1, <2>5, <3>1, ChainTail DEF Near, Chained
  <2>7. /\ View(QueuesAfterUndo(u)) = Before(u)
        /\ QueuesAfterUndo(u).counts = u.before.counts /\ QueuesAfterUndo(u).cutoff = u.before.cutoff
    BY <2>5, <2>6, UndoneIs
  <2>8. QED
    BY <2>3, <2>7, SameView DEF Before
<1>2. QueuesInv /\ [Next]_vars => [Restores]_vars
  BY <1>1
<1>3. QED
  BY <1>2, QueuesInvariant, PTL DEF UndoRestoresQueues, Spec

(***************************************************************************)
(* The undo and the redo of an answer of the queues that are there         *)
(***************************************************************************)
LEMMA LiveFacts ==
  ASSUME QueuesInv, NEW step \in ToSet(undo) \cup ToSet(redo), queues # None, LiveIn(builds, step)
  PROVE  /\ step \in Step /\ step.update \in QueueUpdate /\ UpdateOK(step.update)
         /\ step.update.before \in CardQueues
<1>1. step \in Step /\ StepSound(step, now, Today, builds)
  BY StepsIn DEF QueuesInv, StepsSound
<1>2. step.update \in QueueUpdate /\ UpdateOK(step.update)
  BY <1>1, StepFields DEF LiveIn, StepSound
<1>3. QED
  BY <1>1, <1>2, UpdateFields

LEMMA LiveUndoIs ==
  ASSUME QueuesInv, Undo, queues' # None, Head(undo).update # None
  PROVE  LET step == Head(undo)
             u == step.update IN
         /\ undo # <<>> /\ step \in ToSet(undo) /\ step \in Step /\ LiveIn(builds, step)
         /\ queues # None /\ queues \in CardQueues
         /\ u \in QueueUpdate /\ UpdateOK(u) /\ u.before \in CardQueues
         /\ View(queues) = After(u) /\ View(queues') = Before(u)
         /\ card' = Reverted(step) /\ undo' = Tail(undo) /\ redo' = <<Reversal(step)>> \o redo
         /\ behind' = behind
<1> DEFINE step == Head(undo)
           u == step.update
<1>1. /\ TypeInv /\ StepsSound /\ Chained /\ QueuesSound
      /\ undo \in Seq(Step) /\ undo # <<>>
  BY DEF QueuesInv, TypeInv, Undo
<1>2. step \in Step /\ step \in ToSet(undo)
  BY <1>1, StepsIn
<1>3. /\ queues' = QueuesAfterUndo(u) /\ card' = Reverted(step)
      /\ undo' = Tail(undo) /\ redo' = <<Reversal(step)>> \o redo
  BY DEF Undo, RollOverInUndo
<1>4. queues # None /\ queues.build = u.build
  BY <1>3 DEF QueuesAfterUndo, SameBuild
<1>5. queues \in CardQueues /\ Agree(queues) /\ queues.build = builds
  BY <1>1, <1>4 DEF TypeInv, QueuesSound, QueueSound
<1>6. LiveIn(builds, step)
  BY <1>4, <1>5 DEF LiveIn
<1>7. u \in QueueUpdate /\ UpdateOK(u) /\ u.before \in CardQueues
  BY <1>2, <1>4, <1>6, LiveFacts
<1>8. View(queues) = After(u)
  BY <1>1, <1>4, <1>6, ChainTail DEF Near, Chained
<1>9. View(queues') = Before(u)
  BY <1>3, <1>4, <1>5, <1>7, <1>8, UndoneIs
<1>10. behind' = behind
  <2>1. UnqueuedChanges(step) = {}
    BY DEF UnqueuedChanges
  <2>2. QED
    BY <2>1 DEF Undo, FallBehind
<1>11. QED
  BY <1>1, <1>2, <1>3, <1>4, <1>5, <1>6, <1>7, <1>8, <1>9, <1>10

LEMMA LiveRedoIs ==
  ASSUME QueuesInv, Redo, queues' # None, Head(redo).update # None
  PROVE  LET step == Head(redo)
             u == step.update IN
         /\ redo # <<>> /\ step \in ToSet(redo) /\ step \in Step /\ LiveIn(builds, step)
         /\ queues # None /\ queues \in CardQueues
         /\ u \in QueueUpdate /\ UpdateOK(u) /\ u.before \in CardQueues
         /\ View(queues) = Before(u) /\ View(queues') = After(u)
         /\ card' = Reverted(step) /\ redo' = Tail(redo) /\ PushStep(Reversal(step))
         /\ behind' = behind
<1> DEFINE step == Head(redo)
           u == step.update
<1>1. /\ TypeInv /\ StepsSound /\ Chained /\ QueuesSound
      /\ redo \in Seq(Step) /\ redo # <<>>
  BY DEF QueuesInv, TypeInv, Redo
<1>2. step \in Step /\ step \in ToSet(redo)
  BY <1>1, StepsIn
<1>3. /\ queues' \in QueuesAfterRedo(u) /\ card' = Reverted(step)
      /\ redo' = Tail(redo) /\ PushStep(Reversal(step))
  BY DEF Redo, RollOverInUndo
<1>4. queues # None /\ queues.build = u.build
  BY <1>3 DEF QueuesAfterRedo, SameBuild
<1>5. queues \in CardQueues /\ Agree(queues) /\ queues.build = builds
  BY <1>1, <1>4 DEF TypeInv, QueuesSound, QueueSound
<1>6. LiveIn(builds, step)
  BY <1>4, <1>5 DEF LiveIn
<1>7. u \in QueueUpdate /\ UpdateOK(u) /\ u.before \in CardQueues
  BY <1>2, <1>4, <1>6, LiveFacts
<1>8. View(queues) = Before(u)
  BY <1>1, <1>4, <1>6, ChainTail DEF Near, Chained
<1>9. View(queues') = After(u)
  <2>1. PICK r \in QueuesAfterRedo(u) : r = queues'
    BY <1>3
  <2>2. View(r) = After(u)
    BY <1>4, <1>5, <1>7, <1>8, RedoneIs
  <2>3. QED
    BY <2>1, <2>2
<1>10. behind' = behind
  <2>1. UnqueuedChanges(step) = {}
    BY DEF UnqueuedChanges
  <2>2. QED
    BY <2>1 DEF Redo, FallBehind
<1>11. QED
  BY <1>1, <1>2, <1>3, <1>4, <1>5, <1>6, <1>7, <1>8, <1>9, <1>10

\* The undo or redo of an operation that did not edit the queues.
LEMMA VoidUndoIs ==
  ASSUME QueuesInv, Undo, queues' # None, Head(undo).update = None
  PROVE  LET step == Head(undo) IN
         /\ undo # <<>> /\ step \in ToSet(undo) /\ step \in Step
         /\ queues' = queues
         /\ card' = Reverted(step) /\ undo' = Tail(undo) /\ redo' = <<Reversal(step)>> \o redo
         /\ behind' = behind \cup DOMAIN step.cards
<1>1. TypeInv /\ undo # <<>>
  BY DEF QueuesInv, Undo
<1>2. UnqueuedChanges(Head(undo)) = DOMAIN Head(undo).cards
  BY DEF UnqueuedChanges
<1>3. QED
  BY <1>1, <1>2, StepsIn DEF Undo, RollOverInUndo, FallBehind

LEMMA VoidRedoIs ==
  ASSUME QueuesInv, Redo, queues' # None, Head(redo).update = None
  PROVE  LET step == Head(redo) IN
         /\ redo # <<>> /\ step \in ToSet(redo) /\ step \in Step
         /\ queues' = queues
         /\ card' = Reverted(step) /\ redo' = Tail(redo) /\ PushStep(Reversal(step))
         /\ behind' = behind \cup DOMAIN step.cards
<1>1. TypeInv /\ redo # <<>>
  BY DEF QueuesInv, Redo
<1>2. UnqueuedChanges(Head(redo)) = DOMAIN Head(redo).cards
  BY DEF UnqueuedChanges
<1>3. QED
  BY <1>1, <1>2, StepsIn DEF Redo, RollOverInUndo, FallBehind

(***************************************************************************)
(* Entries before and after an answer                                      *)
(***************************************************************************)
Ids(q) == {e.id : e \in Entries(q)}

LEMMA SameEntries ==
  ASSUME NEW p, NEW q, View(p) = View(q)
  PROVE  Entries(p) = Entries(q) /\ Ids(p) = Ids(q)
  BY SameView DEF Entries, Ids

LEMMA LeftEntries ==
  ASSUME NEW u \in QueueUpdate, UpdateOK(u), NEW q, View(q) = After(u)
  PROVE  /\ Entries(q) = (Entries(u.before) \ {u.entry}) \cup Requeued(u)
         /\ u.entry \in Entries(u.before)
         /\ \A e \in Entries(u.before) : e.id = u.entry.id => e = u.entry
         /\ \A e \in Requeued(u) : e.id = u.entry.id /\ e.kind = "Learning"
         /\ u.entry # None /\ u.entry.id \in Cards
<1>1. /\ u.before \in CardQueues /\ u.entry \in MainEntry \cup LearnEntry
      /\ u.requeue # None => u.requeue \in LearnEntry
  BY UpdateFields
<1>2. /\ \A f \in ToSet(LeftMain(u)) : f \in ToSet(u.before.main) /\ f.id # u.entry.id
      /\ \A f \in ToSet(u.before.learning) \ {u.entry} : f.id # u.entry.id
      /\ u.entry.kind = "Learning" => u.entry \in ToSet(u.before.learning) /\ u.entry \in LearnEntry
      /\ u.entry.kind # "Learning" => /\ u.entry \in MainEntry
                                      /\ u.entry \notin ToSet(u.before.learning)
                                      /\ ToSet(u.before.main) = {u.entry} \cup ToSet(LeftMain(u))
  BY LeftFacts
<1>3. q.main = LeftMain(u) /\ ToSet(q.learning) = LeftLearning(u)
  BY LeftView
<1>4. u.entry.kind = "Learning" => LeftMain(u) = u.before.main
  BY DEF LeftMain
<1>5. ToSet(u.before.main) \subseteq MainEntry
  BY <1>1, QueueFields
<1>6. u.entry.kind = "Learning" => u.entry \notin ToSet(u.before.main)
  BY <1>2, <1>5, EntryFacts
<1>7. Entries(q) = (Entries(u.before) \ {u.entry}) \cup Requeued(u)
  <2>1. CASE u.entry.kind = "Learning"
    BY <1>2, <1>3, <1>4, <1>6, <2>1 DEF Entries, LeftLearning
  <2>2. CASE u.entry.kind # "Learning"
    BY <1>2, <1>3, <2>2 DEF Entries, LeftLearning
  <2>3. QED
    BY <2>1, <2>2
<1>8. u.entry \in Entries(u.before)
  BY <1>2 DEF Entries
<1>9. \A e \in Entries(u.before) : e.id = u.entry.id => e = u.entry
  <2>1. CASE u.entry.kind = "Learning"
    BY <1>2, <1>4, <2>1 DEF Entries
  <2>2. CASE u.entry.kind # "Learning"
    BY <1>2, <2>2 DEF Entries
  <2>3. QED
    BY <2>1, <2>2
<1>10. \A e \in Requeued(u) : e.id = u.entry.id /\ e.kind = "Learning"
  BY <1>1, EntryFacts DEF Requeued, UpdateOK
<1>11. u.entry # None /\ u.entry.id \in Cards
  BY <1>1, EntryFacts, NoneAssumption
<1>12. QED
  BY <1>7, <1>8, <1>9, <1>10, <1>11

(***************************************************************************)
(* Entries that describe their cards                                       *)
(***************************************************************************)
\* Each entry, but those of the cards that are gone, describes its card.
EntriesFresh(q, cards, gone) == \A e \in Entries(q) : e.id \in gone \/ FreshEntry(e, cards[e.id])

\* A step of an answer of the queues of build b wrote the card of its entry, and
\* no other card of the queues it found; its rows restore the entry it puts back.
PutBack(way, u) == IF way = "undo" THEN u.entry ELSE u.requeue
StepFresh(way, step, b, mode, gone) ==
  LiveIn(b, step) =>
    /\ NoBuriedSiblings(mode, step.update.before)
    /\ step.update.entry.id \in DOMAIN step.cards
    /\ \A s \in DOMAIN step.cards \ {step.update.entry.id} :
         s \in Ids(step.update.before) => s \in gone
    /\ PutBack(way, step.update) # None =>
         \/ step.update.entry.id \in gone
         \/ FreshEntry(PutBack(way, step.update), step.cards[step.update.entry.id])

QueuesFresh ==
  queues # None => NoBuriedSiblings(bury, queues) /\ EntriesFresh(queues, card, behind)
StepsFresh ==
  queues # None => /\ \A step \in ToSet(undo) : StepFresh("undo", step, builds, bury, behind)
                   /\ \A step \in ToSet(redo) : StepFresh("redo", step, builds, bury, behind)
FreshInv == Hierarchical(bury) /\ QueuesFresh /\ StepsFresh

LEMMA FreshLater ==
  ASSUME NEW way, NEW step, NEW b, NEW mode, NEW gone, NEW gone2, gone \subseteq gone2,
         StepFresh(way, step, b, mode, gone)
  PROVE  StepFresh(way, step, b, mode, gone2)
  BY DEF StepFresh

LEMMA FreshVoid ==
  ASSUME NEW way, NEW step, NEW b, NEW mode, NEW gone, ~LiveIn(b, step)
  PROVE  StepFresh(way, step, b, mode, gone)
  BY DEF StepFresh

LEMMA NoBuriedLeft ==
  ASSUME NEW u \in QueueUpdate, UpdateOK(u), NEW q, View(q) = After(u), NEW mode,
         NoBuriedSiblings(mode, u.before)
  PROVE  NoBuriedSiblings(mode, q)
<1>1. /\ Entries(q) = (Entries(u.before) \ {u.entry}) \cup Requeued(u)
      /\ u.entry \in Entries(u.before)
      /\ \A e \in Requeued(u) : e.id = u.entry.id /\ e.kind = "Learning"
  BY LeftEntries
<1>2. ASSUME NEW e \in Entries(q), NEW f \in Entries(q), e.id # f.id, Note[e.id] = Note[f.id]
      PROVE  ~KindBuried(mode, e.kind)
  <2>1. CASE e \in Requeued(u)
    BY <1>1, <2>1 DEF KindBuried
  <2>2. CASE e \notin Requeued(u)
    <3>1. e \in Entries(u.before)
      BY <1>1, <2>2
    <3>2. PICK g \in Entries(u.before) : g.id = f.id
      BY <1>1
    <3>3. QED
      BY <1>2, <3>1, <3>2 DEF NoBuriedSiblings
  <2>3. QED
    BY <2>1, <2>2
<1>3. QED
  BY <1>2 DEF NoBuriedSiblings

LEMMA SameNoBuried ==
  ASSUME NEW p, NEW q, View(p) = View(q), NEW mode
  PROVE  NoBuriedSiblings(mode, p) <=> NoBuriedSiblings(mode, q)
  BY SameEntries DEF NoBuriedSiblings

\* A sibling that an answer of the top card buries does not wait in the queues.
LEMMA SiblingsGone ==
  ASSUME NEW q, NEW mode, mode = bury, NoBuriedSiblings(mode, q), NEW gone, EntriesFresh(q, card, gone),
         NEW e \in Entries(q), NEW s \in SiblingsToBury(e.id), s \in Ids(q)
  PROVE  s \in gone
<1>1. PICK f \in Entries(q) : f.id = s
  BY DEF Ids
<1>2. s # e.id /\ Note[s] = Note[e.id]
  BY DEF SiblingsToBury
<1>3. ~KindBuried(mode, f.kind)
  BY <1>1, <1>2 DEF NoBuriedSiblings
<1>4. ASSUME FreshEntry(f, card[s]) PROVE FALSE
  <2>1. \/ card[s].queue = "New" /\ bury.new
        \/ card[s].queue = "Review" /\ bury.review
        \/ card[s].queue = "DayLearn" /\ bury.daylearn
    BY DEF SiblingsToBury
  <2>2. card[s].queue = f.kind
    BY <1>4, <2>1 DEF FreshEntry, IntradayQueues
  <2>3. QED
    BY <1>3, <2>1, <2>2 DEF KindBuried
<1>5. QED
  BY <1>1, <1>4 DEF EntriesFresh

LEMMA UnburiedFresh ==
  ASSUME NEW cards \in [Cards -> Card], NEW q \in CardQueues, NEW gone, EntriesFresh(q, cards, gone)
  PROVE  EntriesFresh(q, Unburied(cards), gone)
<1>1. ASSUME NEW e \in Entries(q), e.id \notin gone PROVE FreshEntry(e, Unburied(cards)[e.id])
  <2>1. FreshEntry(e, cards[e.id])
    BY <1>1 DEF EntriesFresh
  <2>2. e \in MainEntry \cup LearnEntry
    BY QueueFields DEF Entries
  <2>3. e.id \in Cards /\ e.kind \in {"New", "DayLearn", "Review", "Learning"}
    BY <2>2, EntryFacts
  <2>4. cards[e.id].queue \notin {"SchedBuried", "UserBuried"}
    BY <2>1, <2>3 DEF FreshEntry, IntradayQueues
  <2>5. Unburied(cards)[e.id] = cards[e.id]
    BY <2>3, <2>4, UnburiedIs
  <2>6. QED
    BY <2>1, <2>5
<1>2. QED
  BY <1>1 DEF EntriesFresh

\* Rows of cards that are gone, or that do not wait, change no entry that is kept.
LEMMA KeptFresh ==
  ASSUME NEW q, NEW cards, NEW cards2, NEW gone, NEW gone2, gone \subseteq gone2,
         EntriesFresh(q, cards, gone),
         \A s \in Ids(q) : s \in gone2 \/ cards2[s] = cards[s]
  PROVE  EntriesFresh(q, cards2, gone2)
  BY DEF EntriesFresh, Ids

\* An answer was undone: the rows of its step are back.
LEMMA UndoneFresh ==
  ASSUME NEW step \in Step, NEW b, LiveIn(b, step), NEW mode, NEW gone,
         StepFresh("undo", step, b, mode, gone), step.update \in QueueUpdate, UpdateOK(step.update),
         NEW p, NEW q, View(p) = After(step.update), View(q) = Before(step.update),
         EntriesFresh(p, card, gone)
  PROVE  EntriesFresh(q, Reverted(step), gone)
<1> DEFINE u == step.update
<1>1. /\ Entries(p) = (Entries(u.before) \ {u.entry}) \cup Requeued(u)
      /\ u.entry \in Entries(u.before)
      /\ \A e \in Entries(u.before) : e.id = u.entry.id => e = u.entry
      /\ u.entry # None /\ u.entry.id \in Cards
  BY LeftEntries
<1>2. Entries(q) = Entries(u.before)
  BY SameEntries DEF Before
<1>3. ASSUME NEW e \in Entries(q), e.id \notin gone PROVE FreshEntry(e, Reverted(step)[e.id])
  <2>1. CASE e = u.entry
    <3>1. e.id \in DOMAIN step.cards /\ FreshEntry(e, step.cards[e.id])
      BY <1>1, <1>3, <2>1 DEF StepFresh, PutBack
    <3>2. QED
      BY <1>1, <2>1, <3>1 DEF Reverted
  <2>2. CASE e # u.entry
    <3>1. e \in Entries(p) /\ e.id # u.entry.id /\ e.id \in Ids(u.before)
      BY <1>1, <1>2, <2>2 DEF Ids
    <3>2. e.id \notin DOMAIN step.cards
      BY <1>3, <3>1 DEF StepFresh
    <3>3. FreshEntry(e, card[e.id])
      BY <1>3, <3>1 DEF EntriesFresh
    <3>4. CASE e.id \in Cards
      BY <3>2, <3>3, <3>4 DEF Reverted
    <3>5. e.id \in Cards
      <4>1. u.before \in CardQueues
        BY UpdateFields
      <4>2. e \in MainEntry \cup LearnEntry
        BY <1>2, <4>1, QueueFields DEF Entries
      <4>3. QED
        BY <4>2, EntryFacts
    <3>6. QED
      BY <3>4, <3>5
  <2>3. QED
    BY <2>1, <2>2
<1>4. QED
  BY <1>3 DEF EntriesFresh

LEMMA RedoneFresh ==
  ASSUME NEW step \in Step, NEW b, LiveIn(b, step), NEW mode, NEW gone,
         StepFresh("redo", step, b, mode, gone), step.update \in QueueUpdate, UpdateOK(step.update),
         NEW p, NEW q, View(p) = Before(step.update), View(q) = After(step.update),
         EntriesFresh(p, card, gone)
  PROVE  EntriesFresh(q, Reverted(step), gone)
<1> DEFINE u == step.update
<1>1. /\ Entries(q) = (Entries(u.before) \ {u.entry}) \cup Requeued(u)
      /\ \A e \in Entries(u.before) : e.id = u.entry.id => e = u.entry
      /\ \A e \in Requeued(u) : e.id = u.entry.id
      /\ u.entry.id \in Cards
  BY LeftEntries
<1>2. Entries(p) = Entries(u.before) /\ u.before \in CardQueues
  BY SameEntries, UpdateFields DEF Before
<1>3. ASSUME NEW e \in Entries(q), e.id \notin gone PROVE FreshEntry(e, Reverted(step)[e.id])
  <2>1. CASE e \in Requeued(u)
    <3>1. e = u.requeue /\ u.requeue # None /\ e.id = u.entry.id
      BY <1>1, <2>1 DEF Requeued
    <3>2. e.id \in DOMAIN step.cards /\ FreshEntry(e, step.cards[e.id])
      BY <1>3, <3>1 DEF StepFresh, PutBack
    <3>3. QED
      BY <1>1, <3>1, <3>2 DEF Reverted
  <2>2. CASE e \notin Requeued(u)
    <3>1. e \in Entries(u.before) /\ e.id # u.entry.id /\ e.id \in Ids(u.before)
      BY <1>1, <2>2 DEF Ids
    <3>2. e.id \notin DOMAIN step.cards
      BY <1>3, <3>1 DEF StepFresh
    <3>3. FreshEntry(e, card[e.id])
      BY <1>2, <1>3, <3>1 DEF EntriesFresh
    <3>4. e.id \in Cards
      <4>1. e \in MainEntry \cup LearnEntry
        BY <1>2, <3>1, QueueFields DEF Entries
      <4>2. QED
        BY <4>1, EntryFacts
    <3>5. QED
      BY <3>2, <3>3, <3>4 DEF Reverted
  <2>3. QED
    BY <2>1, <2>2
<1>4. QED
  BY <1>3 DEF EntriesFresh

\* The step that is put on the other side takes the rows of now.
LEMMA ReversedFresh ==
  ASSUME NEW step \in Step, NEW b, LiveIn(b, step), NEW mode, NEW gone, NEW way, NEW other,
         StepFresh(way, step, b, mode, gone),
         Reversal(step).update = step.update,
         Reversal(step).cards = [c \in DOMAIN step.cards |-> card[c]],
         PutBack(other, step.update) # None =>
           \/ step.update.entry.id \in gone
           \/ FreshEntry(PutBack(other, step.update), card[step.update.entry.id])
  PROVE  StepFresh(other, Reversal(step), b, mode, gone)
<1>1. LiveIn(b, Reversal(step)) /\ DOMAIN Reversal(step).cards = DOMAIN step.cards
  BY DEF LiveIn
<1>2. /\ NoBuriedSiblings(mode, step.update.before)
      /\ step.update.entry.id \in DOMAIN step.cards
      /\ \A s \in DOMAIN step.cards \ {step.update.entry.id} :
           s \in Ids(step.update.before) => s \in gone
  BY DEF StepFresh
<1>3. Reversal(step).cards[step.update.entry.id] = card[step.update.entry.id]
  BY <1>2
<1>4. QED
  BY <1>1, <1>2, <1>3 DEF StepFresh

\* A queue is buried only if those gathered after it are.
HierarchicalStarts == \A start \in Starts : Hierarchical(start.bury)

LEMMA InitFresh == ASSUME HierarchicalStarts, Init PROVE FreshInv
  BY DEF HierarchicalStarts, Init, FreshInv, QueuesFresh, StepsFresh

LEMMA FreshWithout == ASSUME FreshInv, queues' = None, bury' = bury PROVE FreshInv'
  BY DEF FreshInv, QueuesFresh, StepsFresh

LEMMA SameFresh ==
  ASSUME FreshInv, UNCHANGED <<card, bury, queues, undo, redo, builds, behind>> PROVE FreshInv'
  BY DEF FreshInv, QueuesFresh, StepsFresh

LEMMA DeckListFresh == ASSUME QueuesInv, FreshInv, DeckList PROVE FreshInv'
<1>1. UNCHANGED <<bury, queues, undo, redo, builds, behind>> /\ card' = Unburied(card)
  BY DEF DeckList
<1>2. queues # None => EntriesFresh(queues, Unburied(card), behind)
  <2> SUFFICES ASSUME queues # None PROVE EntriesFresh(queues, Unburied(card), behind)
    OBVIOUS
  <2>1. queues \in CardQueues /\ card \in [Cards -> Card]
    BY DEF QueuesInv, TypeInv
  <2>2. QED
    BY <2>1, UnburiedFresh DEF FreshInv, QueuesFresh
<1>3. QED
  BY <1>1, <1>2 DEF FreshInv, QueuesFresh, StepsFresh

LEMMA GetNextFresh == ASSUME QueuesInv, FreshInv, GetNext PROVE FreshInv'
<1>1. TypeInv /\ StepsSound /\ QueuesSound /\ bury' = bury
  BY DEF QueuesInv, GetNext
<1>2. CASE queues = None \/ DayChanged
  <2>1. builds' = builds + 1 /\ behind' = {} /\ \E q \in BuiltQueues(card') : queues' = CountsCall(q)
    BY <1>2 DEF GetNext
  <2>2. card' \in [Cards -> Card]
    <3>1. Unburied(card) \in [Cards -> Card]
      BY <1>1, UnburiedIs DEF TypeInv
    <3>2. QED
      BY <1>1, <3>1 DEF GetNext, TypeInv
  <2>3. PICK cards \in [Cards -> Card] : cards = card'
    BY <2>2
  <2>4. PICK q \in BuiltQueues(cards) : queues' = CountsCall(q)
    BY <2>1, <2>3
  <2>5. /\ q \in CardQueues /\ Agree(q) /\ q.cutoff = now
        /\ \A e \in Entries(q) : FreshEntry(e, cards[e.id])
        /\ Hierarchical(bury) => NoBuriedSiblings(bury, q)
    BY <1>1, BuiltIs
  <2>6. View(queues') = View(q)
    <3>1. now \in Nat /\ q.cutoff <= now
      BY <1>1, <2>5, NowFacts
    <3>2. QED
      BY <2>4, <2>5, <3>1, CountsCallIs
  <2>7. QueuesFresh'
    <3>1. Entries(queues') = Entries(q)
      BY <2>6, SameEntries
    <3>2. NoBuriedSiblings(bury, queues')
      BY <2>5, <2>6, SameNoBuried DEF FreshInv
    <3>3. EntriesFresh(queues', card', behind')
      BY <2>3, <2>5, <3>1 DEF EntriesFresh
    <3>4. QED
      BY <1>1, <3>2, <3>3 DEF QueuesFresh
  <2>8. ASSUME NEW step \in ToSet(undo) \cup ToSet(redo) PROVE ~LiveIn(builds + 1, step)
    <3>1. step \in Step /\ StepSound(step, now, Today, builds)
      BY <1>1, StepsIn DEF StepsSound
    <3>2. CASE step.update # None
      <4>1. step.update \in QueueUpdate
        BY <3>1, <3>2, StepFields
      <4>2. step.update.build \in Nat /\ step.update.build <= builds /\ builds \in Nat
        BY <1>1, <3>1, <3>2, <4>1, UpdateFields DEF StepSound, TypeInv
      <4>3. QED
        BY <4>2 DEF LiveIn
    <3>3. QED
      BY <3>2 DEF LiveIn
  <2>9. \A step \in ToSet(undo') \cup ToSet(redo') : ~LiveIn(builds', step)
    BY <2>1, <2>8, EmptySteps DEF GetNext
  <2>10. StepsFresh'
    BY <2>9, FreshVoid DEF StepsFresh
  <2>11. QED
    BY <1>1, <2>7, <2>10 DEF FreshInv
<1>3. CASE ~(queues = None \/ DayChanged)
  <2>1. /\ queues' = CountsCall(queues) /\ UNCHANGED <<card, builds, behind, undo, redo>> /\ queues # None
    BY <1>3 DEF GetNext
  <2>2. View(queues') = View(queues)
    <3>1. now \in Nat /\ queues \in CardQueues /\ Agree(queues) /\ queues.cutoff <= now
      BY <1>1, <2>1, NowFacts DEF QueuesSound, QueueSound, TypeInv
    <3>2. QED
      BY <2>1, <3>1, CountsCallIs
  <2>3. QueuesFresh'
    <3>1. Entries(queues') = Entries(queues) /\ NoBuriedSiblings(bury, queues) /\ EntriesFresh(queues, card, behind)
      BY <2>1, <2>2, SameEntries DEF FreshInv, QueuesFresh
    <3>2. NoBuriedSiblings(bury, queues')
      BY <2>2, <3>1, SameNoBuried
    <3>3. EntriesFresh(queues', card, behind)
      BY <3>1 DEF EntriesFresh
    <3>4. QED
      BY <1>1, <2>1, <3>2, <3>3 DEF QueuesFresh
  <2>4. StepsFresh'
    BY <1>1, <2>1 DEF FreshInv, StepsFresh
  <2>5. QED
    BY <1>1, <2>3, <2>4 DEF FreshInv
<1>4. QED
  BY <1>2, <1>3

\* An answer given outside the queues, and its undo and redo, leave the queues.
LEMMA LeftAlone ==
  ASSUME FreshInv, UNCHANGED <<bury, queues, builds>>,
         behind \subseteq behind',
         queues # None => \A s \in Ids(queues) : s \in behind' \/ card'[s] = card[s],
         \A step \in ToSet(undo') : step.update = None \/ step \in ToSet(undo),
         \A step \in ToSet(redo') : step.update = None \/ step \in ToSet(redo)
  PROVE  FreshInv'
<1>1. QueuesFresh'
  <2>1. CASE queues # None
    <3>1. NoBuriedSiblings(bury, queues) /\ EntriesFresh(queues, card, behind)
      BY <2>1 DEF FreshInv, QueuesFresh
    <3>2. EntriesFresh(queues, card', behind')
      BY <2>1, <3>1, KeptFresh
    <3>3. QED
      BY <3>1, <3>2 DEF QueuesFresh
  <2>2. QED
    BY <2>1 DEF QueuesFresh
<1>2. ASSUME NEW step \in ToSet(undo'), queues # None PROVE StepFresh("undo", step, builds, bury, behind')
  <2>1. CASE step.update = None
    BY <2>1 DEF StepFresh, LiveIn
  <2>2. CASE step \in ToSet(undo)
    <3>1. StepFresh("undo", step, builds, bury, behind)
      BY <1>2, <2>2 DEF FreshInv, StepsFresh
    <3>2. QED
      BY <3>1, FreshLater
  <2>3. QED
    BY <2>1, <2>2
<1>3. ASSUME NEW step \in ToSet(redo'), queues # None PROVE StepFresh("redo", step, builds, bury, behind')
  <2>1. CASE step.update = None
    BY <2>1 DEF StepFresh, LiveIn
  <2>2. CASE step \in ToSet(redo)
    <3>1. StepFresh("redo", step, builds, bury, behind)
      BY <1>3, <2>2 DEF FreshInv, StepsFresh
    <3>2. QED
      BY <3>1, FreshLater
  <2>3. QED
    BY <2>1, <2>2
<1>4. QED
  BY <1>1, <1>2, <1>3 DEF FreshInv, StepsFresh

LEMMA OutsideFresh ==
  ASSUME QueuesInv, FreshInv, NEW op \in OutsideOps, NEW c \in OtherCards, AnswerOutsideQueue(op, c)
  PROVE  FreshInv'
<1>1. CASE queues' = None
  BY <1>1, FreshWithout DEF AnswerOutsideQueue
<1>2. CASE queues' # None
  <2>1. TypeInv /\ c \in Cards /\ op \in {"AnswerCard", "GradeNow", "Other"}
    BY CardsAssumption, OpsAssumption DEF QueuesInv
  <2>2. PICK next \in AfterAnswer(card[c]) :
          /\ card' = Answered(c, next)
          /\ PushStep(StepOf(op, Written(c), None))
          /\ queues' = queues
          /\ behind' = behind \cup Written(c)
    BY <1>2 DEF AnswerOutsideQueue, FallBehind
  <2>3. Written(c) \in SUBSET Cards
    BY <2>1 DEF Written, SiblingsToBury
  <2>4. StepOf(op, Written(c), None) \in Step /\ StepOf(op, Written(c), None).update = None
    BY <2>1, <2>3, StepType DEF StepOf
  <2>5. undo \in Seq(Step)
    BY <2>1 DEF TypeInv
  <2>6. ToSet(undo') \subseteq {StepOf(op, Written(c), None)} \cup ToSet(undo)
    BY <2>2, <2>4, <2>5, PushedStep
  <2>7. ToSet(redo') = {}
    BY EmptySteps DEF AnswerOutsideQueue
  <2>8. \A s \in Cards : s \in behind' \/ card'[s] = card[s]
    BY <2>2 DEF Answered, Written
  <2>9. queues # None => \A s \in Ids(queues) : s \in behind' \/ card'[s] = card[s]
    <3>1. queues # None => \A e \in Entries(queues) : e.id \in Cards
      BY <2>1, QueueFields, EntryFacts DEF Entries, TypeInv
    <3>2. QED
      BY <2>8, <3>1 DEF Ids
  <2>10. QED
    BY <2>2, <2>4, <2>6, <2>7, <2>9, LeftAlone DEF AnswerOutsideQueue
<1>3. QED
  BY <1>1, <1>2

\* An answer of the card on top, and what it records.
Answers(c, next, u) ==
  /\ u \in QueueUpdate /\ UpdateOK(u) /\ u.build = builds /\ u.before = queues
  /\ u.entry.id = c /\ View(queues') = After(u)
  /\ card' = Answered(c, next)
  /\ PushStep(StepOf("AnswerCard", Written(c), u))
  /\ (StillDueToday(next) /\ ~FinishedPreview(card[c], next)) => u.requeue # None /\ u.requeue.mtime = next.mtime
  /\ ~(StillDueToday(next) /\ ~FinishedPreview(card[c], next)) => u.requeue = None

LEMMA AnswerIs ==
  ASSUME QueuesInv, Answer
  PROVE  /\ shown.id \in Cards /\ card[shown.id] \in Card
         /\ queues # None /\ queues \in CardQueues /\ queues' # None
         /\ UNCHANGED <<bury, builds, behind>> /\ redo' = <<>>
         /\ \E next \in AfterAnswer(card[shown.id]) :
              next \in Card /\ next.mtime = now /\ \E u \in QueueUpdate : Answers(shown.id, next, u)
<1>1. /\ TypeInv /\ queues # None /\ TopEntry(queues) # None
      /\ TopEntry(queues).id = shown.id /\ QueueSound(queues, now, Today, builds)
      /\ shown.id \in Cards
  BY DEF QueuesInv, ShownOnTop, QueuesSound, Answer, TypeInv
<1> DEFINE c == shown.id
<1>0. PICK next \in AfterAnswer(card[c]) : \E x \in QueueUpdates(c, next) :
        /\ card' = Answered(c, next)
        /\ queues' = x.queues
        /\ PushStep(StepOf("AnswerCard", Written(c), x.update))
  BY DEF Answer
<1>2. PICK x \in QueueUpdates(c, next) :
        /\ card' = Answered(c, next)
        /\ queues' = x.queues
        /\ PushStep(StepOf("AnswerCard", Written(c), x.update))
  BY <1>0
<1>3. card[c] \in Card /\ next \in Card /\ next.mtime = now
  <2>1. card[c] \in Card
    BY <1>1 DEF TypeInv
  <2>2. QED
    BY <1>0, <1>1, <2>1, AfterAnswerIs
<1>4. queues \in CardQueues /\ Agree(queues) /\ queues.cutoff <= now /\ queues.build = builds
  BY <1>1 DEF TypeInv, QueueSound
<1> DEFINE u == x.update
           requeue == StillDueToday(next) /\ ~FinishedPreview(card[c], next)
<1>5. /\ x.queues \in CardQueues
      /\ u \in QueueUpdate /\ UpdateOK(u) /\ u.build = queues.build
      /\ u.before = queues /\ u.entry = TopEntry(queues) /\ View(x.queues) = After(u)
      /\ requeue => u.requeue # None /\ u.requeue.mtime = next.mtime
      /\ ~requeue => u.requeue = None
  <2>1. x \in QueueUpdates(TopEntry(queues).id, next)
    BY <1>1, <1>2
  <2>2. c = TopEntry(queues).id
    BY <1>1
  <2>3. QED
    BY <1>1, <1>3, <1>4, <2>1, <2>2, AnsweredIs
<1>6. Answers(c, next, u)
  BY <1>1, <1>2, <1>4, <1>5 DEF Answers
<1>7. queues' # None
  BY <1>2, <1>5, NoneAssumption
<1>8. UNCHANGED <<bury, builds, behind>> /\ redo' = <<>>
  BY DEF Answer
<1>9. QED
  BY <1>0, <1>1, <1>3, <1>4, <1>5, <1>6, <1>7, <1>8

LEMMA AnswerFresh == ASSUME QueuesInv, FreshInv, Answer PROVE FreshInv'
<1> DEFINE c == shown.id
<1>1. /\ c \in Cards /\ card[c] \in Card
      /\ queues # None /\ queues \in CardQueues /\ queues' # None
      /\ UNCHANGED <<bury, builds, behind>> /\ redo' = <<>>
  BY AnswerIs
<1>2. PICK next \in AfterAnswer(card[c]) :
        next \in Card /\ next.mtime = now /\ \E u \in QueueUpdate : Answers(c, next, u)
  BY AnswerIs
<1>3. PICK u \in QueueUpdate : Answers(c, next, u)
  BY <1>2
<1>4. TypeInv /\ undo \in Seq(Step) /\ now \in Nat
  BY NowFacts DEF QueuesInv, TypeInv
<1>5. NoBuriedSiblings(bury, queues) /\ EntriesFresh(queues, card, behind)
  BY <1>1 DEF FreshInv, QueuesFresh
<1>6. /\ UpdateOK(u) /\ u.build = builds /\ u.before = queues /\ u.entry.id = c
      /\ View(queues') = After(u) /\ card' = Answered(c, next)
      /\ u # None
  BY <1>3, NoneAssumption DEF Answers
<1>7. /\ Entries(queues') = (Entries(queues) \ {u.entry}) \cup Requeued(u)
      /\ u.entry \in Entries(queues)
      /\ \A e \in Entries(queues) : e.id = c => e = u.entry
      /\ \A e \in Requeued(u) : e.id = c /\ e.kind = "Learning"
      /\ u.entry # None
  BY <1>6, LeftEntries
<1>8. \A s \in SiblingsToBury(c) : s \in Ids(queues) => s \in behind
  BY <1>5, <1>6, <1>7, SiblingsGone
<1>9. NoBuriedSiblings(bury, queues')
  BY <1>5, <1>6, NoBuriedLeft
<1>10. EntriesFresh(queues', card', behind)
  <2>1. ASSUME NEW e \in Entries(queues'), e.id \notin behind PROVE FreshEntry(e, card'[e.id])
    <3>1. CASE e \in Requeued(u)
      <4>1. e = u.requeue /\ u.requeue # None /\ e.id = c /\ e.kind = "Learning"
        BY <1>7, <3>1 DEF Requeued
      <4>2. StillDueToday(next) /\ u.requeue.mtime = next.mtime
        BY <1>3, <4>1 DEF Answers
      <4>3. card'[c] = next
        BY <1>1, <1>6 DEF Answered
      <4>4. QED
        BY <4>1, <4>2, <4>3 DEF FreshEntry, StillDueToday
    <3>2. CASE e \notin Requeued(u)
      <4>1. e \in Entries(queues) /\ e.id # c /\ e.id \in Ids(queues)
        BY <1>7, <3>2 DEF Ids
      <4>2. e.id \notin SiblingsToBury(c)
        BY <1>8, <2>1, <4>1
      <4>3. e.id \in Cards
        <5>1. e \in MainEntry \cup LearnEntry
          BY <1>1, <4>1, QueueFields DEF Entries
        <5>2. QED
          BY <5>1, EntryFacts
      <4>4. card'[e.id] = card[e.id]
        BY <1>6, <4>1, <4>2, <4>3 DEF Answered
      <4>5. QED
        BY <1>5, <2>1, <4>1, <4>4 DEF EntriesFresh
    <3>3. QED
      BY <3>1, <3>2
  <2>2. QED
    BY <2>1 DEF EntriesFresh
<1> DEFINE step == StepOf("AnswerCard", Written(c), u)
<1>11. step \in Step /\ step.update = u /\ step.cards = [s \in Written(c) |-> card[s]]
  <2>1. Written(c) \in SUBSET Cards
    BY <1>1 DEF Written, SiblingsToBury
  <2>2. QED
    BY <1>4, <2>1, StepType DEF StepOf
<1> HIDE DEF step
<1>12. ToSet(undo') \subseteq {step} \cup ToSet(undo)
  BY <1>3, <1>4, <1>11, PushedStep DEF Answers, step
<1>13. StepFresh("undo", step, builds, bury, behind)
  <2>1. c \in DOMAIN step.cards /\ step.cards[c] = card[c]
    BY <1>11 DEF Written
  <2>2. \A s \in DOMAIN step.cards \ {c} : s \in SiblingsToBury(c)
    BY <1>11 DEF Written
  <2>3. c \in behind \/ FreshEntry(u.entry, card[c])
    BY <1>5, <1>6, <1>7 DEF EntriesFresh
  <2>4. PutBack("undo", u) = u.entry
    BY DEF PutBack
  <2>5. QED
    BY <1>5, <1>6, <1>8, <1>11, <2>1, <2>2, <2>3, <2>4 DEF StepFresh
<1>14. \A s \in ToSet(undo') : StepFresh("undo", s, builds, bury, behind)
  BY <1>1, <1>12, <1>13 DEF FreshInv, StepsFresh
<1>15. QED
  BY <1>1, <1>9, <1>10, <1>14, EmptySteps DEF FreshInv, QueuesFresh, StepsFresh

LEMMA UndoFresh == ASSUME QueuesInv, FreshInv, Undo PROVE FreshInv'
<1> DEFINE step == Head(undo)
           back == Reversal(step)
           u == step.update
<1>0. UNCHANGED <<bury, builds>>
  BY DEF Undo
<1>1. CASE queues' = None
  BY <1>0, <1>1, FreshWithout
<1>2. CASE queues' # None /\ u = None
  <2>1. /\ undo # <<>> /\ step \in ToSet(undo) /\ step \in Step
        /\ queues' = queues
        /\ card' = Reverted(step) /\ undo' = Tail(undo) /\ redo' = <<back>> \o redo
        /\ behind' = behind \cup DOMAIN step.cards
    BY <1>2, VoidUndoIs
  <2>2. TypeInv /\ redo \in Seq(Step)
    BY DEF QueuesInv, TypeInv
  <2>3. back \in Step /\ back.update = None
    BY <1>2, <2>1, <2>2, ReversalIs
  <2>4. ToSet(redo') = {back} \cup ToSet(redo) /\ ToSet(undo') \subseteq ToSet(undo)
    <3>1. ToSet(Tail(undo)) \subseteq ToSet(undo)
      BY <2>1, <2>2, StepsIn
    <3>2. QED
      BY <2>1, <2>2, <2>3, <3>1, ConsSet
  <2>5. queues # None => \A s \in Ids(queues) : s \in behind' \/ card'[s] = card[s]
    <3>1. queues # None => \A e \in Entries(queues) : e.id \in Cards
      BY <2>2, QueueFields, EntryFacts DEF Entries, TypeInv
    <3>2. \A s \in Cards : s \in behind' \/ card'[s] = card[s]
      BY <2>1 DEF Reverted
    <3>3. QED
      BY <3>1, <3>2 DEF Ids
  <2>6. \A s \in ToSet(undo') : s.update = None \/ s \in ToSet(undo)
    BY <2>4
  <2>7. \A s \in ToSet(redo') : s.update = None \/ s \in ToSet(redo)
    BY <2>3, <2>4
  <2>8. behind \subseteq behind'
    BY <2>1
  <2>9. QED
    BY <1>0, <2>1, <2>5, <2>6, <2>7, <2>8, LeftAlone
<1>3. CASE queues' # None /\ u # None
  <2>1. /\ undo # <<>> /\ step \in ToSet(undo) /\ step \in Step /\ LiveIn(builds, step)
        /\ queues # None /\ queues \in CardQueues
        /\ u \in QueueUpdate /\ UpdateOK(u) /\ u.before \in CardQueues
        /\ View(queues) = After(u) /\ View(queues') = Before(u)
        /\ card' = Reverted(step) /\ undo' = Tail(undo) /\ redo' = <<back>> \o redo
        /\ behind' = behind
    BY <1>3, LiveUndoIs
  <2>2. TypeInv /\ redo \in Seq(Step)
    BY DEF QueuesInv, TypeInv
  <2>3. back \in Step /\ back.update = step.update /\ back.cards = [c \in DOMAIN step.cards |-> card[c]]
    BY <2>1, <2>2, ReversalIs
  <2> HIDE DEF step, back
  <2>4. ToSet(redo') = {back} \cup ToSet(redo) /\ ToSet(undo') \subseteq ToSet(undo)
    <3>1. ToSet(Tail(undo)) \subseteq ToSet(undo)
      BY <2>1, <2>2, StepsIn
    <3>2. QED
      BY <2>1, <2>2, <2>3, <3>1, ConsSet
  <2>5. StepFresh("undo", step, builds, bury, behind)
    BY <2>1 DEF FreshInv, StepsFresh
  <2>6. EntriesFresh(queues, card, behind)
    BY <2>1 DEF FreshInv, QueuesFresh
  <2>7. EntriesFresh(queues', Reverted(step), behind)
    BY <2>1, <2>5, <2>6, UndoneFresh
  <2>8. NoBuriedSiblings(bury, queues')
    <3>1. NoBuriedSiblings(bury, u.before)
      BY <2>1, <2>5 DEF StepFresh
    <3>2. QED
      BY <2>1, <3>1, SameNoBuried DEF Before
  <2>9. StepFresh("redo", back, builds, bury, behind)
    <3>1. PutBack("redo", u) = u.requeue
      BY DEF PutBack
    <3>2. u.requeue # None => u.entry.id \in behind \/ FreshEntry(u.requeue, card[u.entry.id])
      <4>1. u.requeue # None => u.requeue \in Requeued(u)
        BY DEF Requeued
      <4>2. u.requeue # None => u.requeue \in Entries(queues) /\ u.requeue.id = u.entry.id
        BY <2>1, <4>1, LeftEntries
      <4>3. QED
        BY <2>6, <4>2 DEF EntriesFresh
    <3>3. QED
      BY <2>1, <2>3, <2>5, <3>1, <3>2, ReversedFresh DEF back
  <2>10. \A s \in ToSet(undo') : StepFresh("undo", s, builds, bury, behind)
    BY <2>1, <2>4 DEF FreshInv, StepsFresh
  <2>11. \A s \in ToSet(redo') : StepFresh("redo", s, builds, bury, behind)
    BY <2>1, <2>4, <2>9 DEF FreshInv, StepsFresh
  <2>12. QED
    BY <1>0, <2>1, <2>7, <2>8, <2>10, <2>11 DEF FreshInv, QueuesFresh, StepsFresh
<1>4. QED
  BY <1>1, <1>2, <1>3

LEMMA RedoFresh == ASSUME QueuesInv, FreshInv, Redo PROVE FreshInv'
<1> DEFINE step == Head(redo)
           back == Reversal(step)
           u == step.update
<1>0. UNCHANGED <<bury, builds>>
  BY DEF Redo
<1>1. CASE queues' = None
  BY <1>0, <1>1, FreshWithout
<1>2. CASE queues' # None /\ u = None
  <2>1. /\ redo # <<>> /\ step \in ToSet(redo) /\ step \in Step
        /\ queues' = queues
        /\ card' = Reverted(step) /\ redo' = Tail(redo) /\ PushStep(back)
        /\ behind' = behind \cup DOMAIN step.cards
    BY <1>2, VoidRedoIs
  <2>2. TypeInv /\ undo \in Seq(Step)
    BY DEF QueuesInv, TypeInv
  <2>3. back \in Step /\ back.update = None
    BY <1>2, <2>1, <2>2, ReversalIs
  <2>4. ToSet(undo') \subseteq {back} \cup ToSet(undo) /\ ToSet(redo') \subseteq ToSet(redo)
    <3>1. ToSet(Tail(redo)) \subseteq ToSet(redo)
      BY <2>1, <2>2, StepsIn
    <3>2. QED
      BY <2>1, <2>2, <2>3, <3>1, PushedStep
  <2>5. queues # None => \A s \in Ids(queues) : s \in behind' \/ card'[s] = card[s]
    <3>1. queues # None => \A e \in Entries(queues) : e.id \in Cards
      BY <2>2, QueueFields, EntryFacts DEF Entries, TypeInv
    <3>2. \A s \in Cards : s \in behind' \/ card'[s] = card[s]
      BY <2>1 DEF Reverted
    <3>3. QED
      BY <3>1, <3>2 DEF Ids
  <2>6. \A s \in ToSet(undo') : s.update = None \/ s \in ToSet(undo)
    BY <2>3, <2>4
  <2>7. \A s \in ToSet(redo') : s.update = None \/ s \in ToSet(redo)
    BY <2>4
  <2>8. behind \subseteq behind'
    BY <2>1
  <2>9. QED
    BY <1>0, <2>1, <2>5, <2>6, <2>7, <2>8, LeftAlone
<1>3. CASE queues' # None /\ u # None
  <2>1. /\ redo # <<>> /\ step \in ToSet(redo) /\ step \in Step /\ LiveIn(builds, step)
        /\ queues # None /\ queues \in CardQueues
        /\ u \in QueueUpdate /\ UpdateOK(u) /\ u.before \in CardQueues
        /\ View(queues) = Before(u) /\ View(queues') = After(u)
        /\ card' = Reverted(step) /\ redo' = Tail(redo) /\ PushStep(back)
        /\ behind' = behind
    BY <1>3, LiveRedoIs
  <2>2. TypeInv /\ undo \in Seq(Step)
    BY DEF QueuesInv, TypeInv
  <2>3. back \in Step /\ back.update = step.update /\ back.cards = [c \in DOMAIN step.cards |-> card[c]]
    BY <2>1, <2>2, ReversalIs
  <2> HIDE DEF step, back
  <2>4. ToSet(undo') \subseteq {back} \cup ToSet(undo) /\ ToSet(redo') \subseteq ToSet(redo)
    <3>1. ToSet(Tail(redo)) \subseteq ToSet(redo)
      BY <2>1, <2>2, StepsIn
    <3>2. QED
      BY <2>1, <2>2, <2>3, <3>1, PushedStep
  <2>5. StepFresh("redo", step, builds, bury, behind)
    BY <2>1 DEF FreshInv, StepsFresh
  <2>6. EntriesFresh(queues, card, behind)
    BY <2>1 DEF FreshInv, QueuesFresh
  <2>7. EntriesFresh(queues', Reverted(step), behind)
    BY <2>1, <2>5, <2>6, RedoneFresh
  <2>8. NoBuriedSiblings(bury, queues')
    <3>1. NoBuriedSiblings(bury, u.before)
      BY <2>1, <2>5 DEF StepFresh
    <3>2. QED
      BY <2>1, <3>1, NoBuriedLeft
  <2>9. StepFresh("undo", back, builds, bury, behind)
    <3>1. PutBack("undo", u) = u.entry
      BY DEF PutBack
    <3>2. u.entry.id \in behind \/ FreshEntry(u.entry, card[u.entry.id])
      <4>1. u.entry \in Entries(u.before)
        BY <2>1, LeftEntries
      <4>2. u.entry \in Entries(queues)
        BY <2>1, <4>1, SameEntries DEF Before
      <4>3. QED
        BY <2>6, <4>2 DEF EntriesFresh
    <3>3. QED
      BY <2>1, <2>3, <2>5, <3>1, <3>2, ReversedFresh DEF back
  <2>10. \A s \in ToSet(undo') : StepFresh("undo", s, builds, bury, behind)
    BY <2>1, <2>4, <2>9 DEF FreshInv, StepsFresh
  <2>11. \A s \in ToSet(redo') : StepFresh("redo", s, builds, bury, behind)
    BY <2>1, <2>4 DEF FreshInv, StepsFresh
  <2>12. QED
    BY <1>0, <2>1, <2>7, <2>8, <2>10, <2>11 DEF FreshInv, QueuesFresh, StepsFresh
<1>4. QED
  BY <1>1, <1>2, <1>3

LEMMA NextFresh == QueuesInv /\ FreshInv /\ [Next]_vars => FreshInv'
<1> SUFFICES ASSUME QueuesInv, FreshInv, [Next]_vars PROVE FreshInv'
  OBVIOUS
<1>1. CASE Tick
  BY <1>1, SameFresh DEF Tick
<1>2. CASE GetNext
  BY <1>2, GetNextFresh
<1>3. CASE Answer
  BY <1>3, AnswerFresh
<1>4. CASE AnswerRefused
  BY <1>4, FreshWithout DEF AnswerRefused
<1>5. CASE DeckList
  BY <1>5, DeckListFresh
<1>6. CASE Undo
  BY <1>6, UndoFresh
<1>7. CASE Redo
  BY <1>7, RedoFresh
<1>8. ASSUME NEW c \in OtherCards, NEW op \in OutsideOps, AnswerOutsideQueue(op, c) PROVE FreshInv'
  BY <1>8, OutsideFresh
<1>9. ASSUME NEW c \in OtherCards, NEW queue \in {"Suspended", "UserBuried"}, BuryOrSuspend(c, queue)
      PROVE  FreshInv'
  BY <1>9, FreshWithout DEF BuryOrSuspend
<1>10. ASSUME NEW c \in OtherCards, UnburyOrUnsuspend(c) PROVE FreshInv'
  BY <1>10, FreshWithout DEF UnburyOrUnsuspend
<1>11. CASE UNCHANGED vars
  BY <1>11, SameFresh DEF vars
<1>12. QED
  BY <1>1, <1>2, <1>3, <1>4, <1>5, <1>6, <1>7, <1>8, <1>9, <1>10, <1>11 DEF Next

\* Where a queue is buried only if those gathered after it are, entries and recorded
\* steps describe the cards.
THEOREM FreshInvariant == ASSUME HierarchicalStarts PROVE Spec => [](QueuesInv /\ FreshInv)
<1>1. Init => QueuesInv /\ FreshInv
  BY InitQueuesInv, InitFresh
<1>2. QueuesInv /\ FreshInv /\ [Next]_vars => QueuesInv' /\ FreshInv'
  BY NextQueues, NextFresh
<1>3. QED
  BY <1>1, <1>2, PTL DEF Spec

\* get_queued_cards() does not meet an entry that differs from its card: no answer
\* buries a card that waits in the queues, none is undone to another state.
THEOREM EntriesStayFresh == ASSUME HierarchicalStarts PROVE Spec => []EntriesAreFresh
<1>1. QueuesInv /\ FreshInv => EntriesAreFresh
  BY DEF FreshInv, QueuesFresh, EntriesFresh, FreshEntry, EntriesAreFresh
<1>2. QED
  BY <1>1, FreshInvariant, PTL

(***************************************************************************)
(* Cards that do not wait for the learning queue of a day                  *)
(***************************************************************************)
DayEnd(day) == Epoch + (day + 1) * DayLen
Calm(k) == k.queue \notin IntradayQueues /\ RestoredQueue(k) # "Learn"
Resting(k, day) == Calm(k) \/ (k.queue \in IntradayQueues /\ k.due >= DayEnd(day))

\* A card outside the learning queue would not be unburied into it, and no
\* learning card is previewed.
Regular(k) == /\ k.queue \in {"New", "DayLearn", "Review"} => RestoredQueue(k) # "Learn"
              /\ k.preview => k.ctype # "Learn"

RowsRegular ==
  /\ \A c \in Cards : Regular(card[c])
  /\ \A step \in ToSet(undo) \cup ToSet(redo) : \A c \in DOMAIN step.cards : Regular(step.cards[c])

\* No learning card starts in a deck of previews.
NoLearningPreviews ==
  \A start \in Starts : \A c \in Cards : start.cards[c].preview => start.cards[c].ctype # "Learn"

LEMMA RestoredAs ==
  ASSUME NEW k, NEW m, m.ctype = k.ctype, m.due = k.due
  PROVE  RestoredQueue(m) = RestoredQueue(k)
  BY DEF RestoredQueue

LEMMA RestoredUnlearned ==
  ASSUME NEW k \in Card, k.ctype # "Learn"
  PROVE  RestoredQueue(k) \in {"New", "Review"}
<1>1. k.ctype \in {"New", "Review"}
  BY CardFields
<1>2. QED
  BY <1>1 DEF RestoredQueue

LEMMA DayEndGrows ==
  ASSUME TypeInv, NEW day \in Nat, day <= Today
  PROVE  DayEnd(day) <= NextDayAt /\ DayEnd(day) \in Nat
<1> DEFINE a == day + 1
           b == Today + 1
<1>1. a \in Nat /\ b \in Nat /\ a <= b /\ DayLen \in Nat /\ Epoch \in Nat
  BY NowFacts
<1> HIDE DEF a, b
<1>2. a * DayLen <= b * DayLen /\ a * DayLen \in Nat /\ b * DayLen \in Nat
  BY <1>1
<1>3. DayEnd(day) = Epoch + a * DayLen /\ NextDayAt = Epoch + b * DayLen
  BY DEF DayEnd, NextDayAt, a, b
<1>4. QED
  BY <1>1, <1>2, <1>3

\* An answer keeps a card regular, and one that is not put back in the queues
\* waits for another day.
LEMMA NextIs ==
  ASSUME TypeInv, NEW k \in Card, Regular(k), NEW next \in AfterAnswer(k),
         NEW day \in Nat, day <= Today
  PROVE  /\ Regular(next)
         /\ ~(StillDueToday(next) /\ ~FinishedPreview(k, next)) => Resting(next, day)
<1>1. /\ next \in Card
      /\ k.preview => \/ next.queue = "PreviewRepeat" /\ next.preview /\ next.ctype = k.ctype
                      \/ next.queue = RestoredQueue(k) /\ next.due = 0 /\ ~next.preview
                         /\ next.ctype = k.ctype
      /\ ~k.preview =>
           /\ ~next.preview
           /\ \/ next.queue = "Learn" /\ next.due < NextDayAt /\ next.due >= Epoch /\ next.ctype = "Learn"
              \/ next.queue = "DayLearn" /\ next.due = Today + 1 /\ next.ctype = "Learn"
              \/ next.queue = "Review" /\ next.due = Today + 1 /\ next.ctype = "Review"
  BY AfterAnswerIs
<1>2. Today + 1 < Epoch /\ Today \in Nat /\ Epoch \in Nat /\ NextDayAt \in Nat
  BY NowFacts
<1>3. DayEnd(day) <= NextDayAt /\ DayEnd(day) \in Nat
  BY DayEndGrows
<1>4. CASE k.preview /\ next.queue = "PreviewRepeat" /\ next.preview /\ next.ctype = k.ctype
  <2>1. Regular(next)
    BY <1>4 DEF Regular
  <2>2. ASSUME ~StillDueToday(next) PROVE Resting(next, day)
    <3>1. next.due \in Nat /\ ~(next.due < NextDayAt)
      BY <1>1, <1>4, <2>2, CardFields DEF StillDueToday, IntradayQueues
    <3>2. next.due >= DayEnd(day)
      BY <1>2, <1>3, <3>1
    <3>3. QED
      BY <1>4, <3>2 DEF Resting, IntradayQueues
  <2>3. ~FinishedPreview(k, next)
    BY <1>4 DEF FinishedPreview
  <2>4. QED
    BY <2>1, <2>2, <2>3
<1>5. CASE k.preview /\ next.queue = RestoredQueue(k) /\ next.due = 0 /\ ~next.preview /\ next.ctype = k.ctype
  <2>1. k.ctype # "Learn"
    BY <1>5 DEF Regular
  <2>2. RestoredQueue(k) \in {"New", "Review"} /\ RestoredQueue(next) \in {"New", "Review"}
    BY <1>1, <1>5, <2>1, RestoredUnlearned
  <2>3. Calm(next)
    BY <1>5, <2>2 DEF Calm, IntradayQueues
  <2>4. QED
    BY <1>5, <2>2, <2>3 DEF Regular, Resting
<1>6. CASE ~k.preview /\ next.queue = "Learn"
  <2>1. Regular(next)
    BY <1>1, <1>6 DEF Regular
  <2>2. StillDueToday(next) /\ ~FinishedPreview(k, next)
    BY <1>1, <1>6 DEF StillDueToday, FinishedPreview, IntradayQueues
  <2>3. QED
    BY <2>1, <2>2
<1>7. CASE ~k.preview /\ next.queue = "DayLearn" /\ next.due = Today + 1 /\ next.ctype = "Learn"
  <2>1. ~(next.due >= Epoch)
    BY <1>2, <1>7
  <2>2. RestoredQueue(next) = "DayLearn"
    BY <1>7, <2>1 DEF RestoredQueue
  <2>3. Calm(next)
    BY <1>7, <2>2 DEF Calm, IntradayQueues
  <2>4. QED
    BY <1>1, <1>7, <2>2, <2>3 DEF Regular, Resting
<1>8. CASE ~k.preview /\ next.queue = "Review" /\ next.ctype = "Review"
  <2>1. RestoredQueue(next) = "Review"
    BY <1>8 DEF RestoredQueue
  <2>2. Calm(next)
    BY <1>8, <2>1 DEF Calm, IntradayQueues
  <2>3. QED
    BY <1>1, <1>8, <2>1, <2>2 DEF Regular, Resting
<1>9. QED
  BY <1>1, <1>4, <1>5, <1>6, <1>7, <1>8

LEMMA UnburiedRegular ==
  ASSUME NEW cards \in [Cards -> Card], NEW c \in Cards
  PROVE  /\ Regular(cards[c]) => Regular(Unburied(cards)[c])
         /\ \A day : Resting(cards[c], day) => Resting(Unburied(cards)[c], day)
<1> DEFINE k == cards[c]
           m == Unburied(cards)[c]
<1>1. m = IF k.queue \in {"SchedBuried", "UserBuried"} THEN [k EXCEPT !.queue = RestoredQueue(k)] ELSE k
  BY UnburiedIs
<1>2. CASE k.queue \in {"SchedBuried", "UserBuried"}
  <2>1. k \in Card
    OBVIOUS
  <2>2. /\ m.queue = RestoredQueue(k) /\ m.ctype = k.ctype /\ m.due = k.due /\ m.preview = k.preview
    BY <1>1, <1>2, <2>1 DEF Card
  <2>3. RestoredQueue(m) = RestoredQueue(k)
    BY <2>2, RestoredAs
  <2> HIDE DEF m, k
  <2>4. RestoredQueue(k) \in {"New", "Review", "Learn", "DayLearn"}
    BY <2>1, RestoredIs
  <2>5. Regular(k) => Regular(m)
    BY <2>2, <2>3, <2>4 DEF Regular
  <2>6. \A day : Resting(k, day) => Resting(m, day)
    BY <1>2, <2>2, <2>3, <2>4 DEF Resting, Calm, IntradayQueues
  <2>7. QED
    BY <2>5, <2>6 DEF m, k
<1>3. QED
  BY <1>1, <1>2

\* A buried or suspended card stays regular.
LEMMA SetAsideRegular ==
  ASSUME NEW k \in Card, Regular(k), NEW queue, NEW t,
         NEW m, m = [k EXCEPT !.queue = queue, !.mtime = t]
  PROVE  /\ queue \in BuriedOrSuspended => Regular(m)
         /\ queue = RestoredQueue(k) => Regular(m)
         /\ queue = "SchedBuried" /\ k.queue \in {"New", "DayLearn", "Review"} => Calm(m) /\ Calm(k)
<1>1. m.queue = queue /\ m.ctype = k.ctype /\ m.due = k.due /\ m.preview = k.preview
  BY DEF Card
<1>2. RestoredQueue(m) = RestoredQueue(k)
  BY <1>1, RestoredAs
<1>3. QED
  BY <1>1, <1>2 DEF Regular, Calm, BuriedOrSuspended, IntradayQueues

LEMMA AnsweredRegular ==
  ASSUME TypeInv, RowsRegular, NEW c \in Cards, NEW next \in AfterAnswer(card[c])
  PROVE  \A s \in Cards : Regular(Answered(c, next)[s])
<1>1. ASSUME NEW s \in Cards PROVE Regular(Answered(c, next)[s])
  <2>1. card[s] \in Card /\ Regular(card[s]) /\ card[c] \in Card /\ Regular(card[c])
    BY DEF TypeInv, RowsRegular
  <2>2. CASE s = c
    <3>1. Today \in Nat /\ Today <= Today
      BY NowFacts
    <3>2. Regular(next)
      BY <2>1, <3>1, NextIs
    <3>3. QED
      BY <2>2, <3>2 DEF Answered
  <2>3. CASE s # c /\ s \in SiblingsToBury(c)
    <3> DEFINE m == [card[s] EXCEPT !.queue = "SchedBuried", !.mtime = now]
    <3>1. Answered(c, next)[s] = m
      BY <2>3 DEF Answered
    <3>2. Regular(m)
      BY <2>1, SetAsideRegular DEF BuriedOrSuspended
    <3>3. QED
      BY <3>1, <3>2
  <2>4. CASE s # c /\ s \notin SiblingsToBury(c)
    BY <2>1, <2>4 DEF Answered
  <2>5. QED
    BY <2>2, <2>3, <2>4
<1>2. QED
  BY <1>1

\* The steps recorded are those there were, and one with rows of now.
LEMMA RegularRows ==
  ASSUME RowsRegular, \A c \in Cards : Regular(card'[c]),
         NEW x, DOMAIN x.cards \subseteq Cards, \A c \in DOMAIN x.cards : x.cards[c] = card[c],
         ToSet(undo') \subseteq {x} \cup ToSet(undo) \cup ToSet(redo),
         ToSet(redo') \subseteq {x} \cup ToSet(undo) \cup ToSet(redo)
  PROVE  RowsRegular'
  BY DEF RowsRegular

LEMMA NoNewRows ==
  ASSUME RowsRegular, \A c \in Cards : Regular(card'[c]),
         ToSet(undo') \subseteq ToSet(undo), ToSet(redo') \subseteq ToSet(redo)
  PROVE  RowsRegular'
  BY DEF RowsRegular

LEMMA RevertedRegular ==
  ASSUME RowsRegular, NEW step \in ToSet(undo) \cup ToSet(redo)
  PROVE  \A c \in Cards : Regular(Reverted(step)[c])
  BY DEF RowsRegular, Reverted

LEMMA StepRegular ==
  ASSUME TypeInv, RowsRegular, \A c \in Cards : Regular(card'[c]), redo' = <<>>,
         NEW op \in {"AnswerCard", "GradeNow", "Other"}, NEW written \in SUBSET Cards,
         NEW update \in QueueUpdate \cup {None}, PushStep(StepOf(op, written, update))
  PROVE  RowsRegular'
<1> DEFINE step == StepOf(op, written, update)
<1>1. step \in Step /\ undo \in Seq(Step)
  BY StepType DEF TypeInv
<1>2. step.cards = [c \in written |-> card[c]]
  BY DEF StepOf
<1> HIDE DEF step
<1>3. ToSet(undo') \subseteq {step} \cup ToSet(undo)
  BY <1>1, PushedStep DEF step
<1>4. ToSet(redo') = {}
  BY EmptySteps
<1>5. DOMAIN step.cards \subseteq Cards /\ \A c \in DOMAIN step.cards : step.cards[c] = card[c]
  BY <1>2
<1>6. ToSet(undo') \subseteq {step} \cup ToSet(undo) \cup ToSet(redo)
      /\ ToSet(redo') \subseteq {step} \cup ToSet(undo) \cup ToSet(redo)
  BY <1>3, <1>4
<1>7. QED
  BY <1>5, <1>6, RegularRows

LEMMA InitRegular == ASSUME NoLearningPreviews, Init PROVE RowsRegular
<1>1. \A c \in Cards : Regular(card[c])
  BY StartsAssumption DEF NoLearningPreviews, Init, Regular
<1>2. QED
  BY <1>1, EmptySteps DEF Init, RowsRegular

LEMMA UndoRegular == ASSUME QueuesInv, RowsRegular, Undo PROVE RowsRegular'
<1> DEFINE step == Head(undo)
           back == Reversal(step)
<1>1. TypeInv /\ undo # <<>> /\ redo \in Seq(Step)
  BY DEF QueuesInv, TypeInv, Undo
<1>2. step \in ToSet(undo) /\ step \in Step /\ ToSet(Tail(undo)) \subseteq ToSet(undo)
  BY <1>1, StepsIn
<1>3. CASE RollOverInUndo([c \in Cards |-> IF c \in DOMAIN step.cards THEN step.cards[c]
                                           ELSE Unburied(card)[c]])
  <2>1. undo' = <<>> /\ redo' = <<>>
        /\ card' = [c \in Cards |-> IF c \in DOMAIN step.cards THEN step.cards[c] ELSE Unburied(card)[c]]
    BY <1>3 DEF RollOverInUndo
  <2>2. card \in [Cards -> Card]
    BY <1>1 DEF TypeInv
  <2>3. \A c \in Cards : Regular(card'[c])
    BY <1>2, <2>1, <2>2, UnburiedRegular DEF RowsRegular
  <2>4. QED
    BY <2>1, <2>3, EmptySteps, NoNewRows
<1>4. CASE card' = Reverted(step) /\ undo' = Tail(undo) /\ redo' = <<back>> \o redo
  <2>1. back \in Step /\ back.cards = [c \in DOMAIN step.cards |-> card[c]] /\ DOMAIN step.cards \subseteq Cards
    BY <1>1, <1>2, ReversalIs, StepFields
  <2> HIDE DEF step, back
  <2>2. ToSet(redo') = {back} \cup ToSet(redo)
    BY <1>1, <1>4, <2>1, ConsSet
  <2>3. \A c \in Cards : Regular(card'[c])
    BY <1>2, <1>4, RevertedRegular
  <2>4. DOMAIN back.cards \subseteq Cards /\ \A c \in DOMAIN back.cards : back.cards[c] = card[c]
    BY <2>1
  <2>5. ToSet(undo') \subseteq {back} \cup ToSet(undo) \cup ToSet(redo)
        /\ ToSet(redo') \subseteq {back} \cup ToSet(undo) \cup ToSet(redo)
    BY <1>2, <1>4, <2>2
  <2>6. QED
    BY <2>3, <2>4, <2>5, RegularRows
<1>5. QED
  BY <1>3, <1>4 DEF Undo

LEMMA RedoRegular == ASSUME QueuesInv, RowsRegular, Redo PROVE RowsRegular'
<1> DEFINE step == Head(redo)
           back == Reversal(step)
<1>1. TypeInv /\ redo # <<>> /\ undo \in Seq(Step)
  BY DEF QueuesInv, TypeInv, Redo
<1>2. step \in ToSet(redo) /\ step \in Step /\ ToSet(Tail(redo)) \subseteq ToSet(redo)
  BY <1>1, StepsIn
<1>0. Reverted(step) \in [Cards -> Card] /\ \A c \in Cards : Regular(Reverted(step)[c])
  BY <1>1, <1>2, ReversalIs, RevertedRegular
<1>3. CASE RollOverInUndo(Unburied(Reverted(step)))
  <2>1. undo' = <<>> /\ redo' = <<>> /\ card' = Unburied(Reverted(step))
    BY <1>3 DEF RollOverInUndo
  <2>2. \A c \in Cards : Regular(card'[c])
    BY <1>0, <2>1, UnburiedRegular
  <2>3. QED
    BY <2>1, <2>2, EmptySteps, NoNewRows
<1>4. CASE card' = Reverted(step) /\ redo' = Tail(redo) /\ PushStep(back)
  <2>1. back \in Step /\ back.cards = [c \in DOMAIN step.cards |-> card[c]] /\ DOMAIN step.cards \subseteq Cards
    BY <1>1, <1>2, ReversalIs, StepFields
  <2> HIDE DEF step, back
  <2>2. ToSet(undo') \subseteq {back} \cup ToSet(undo)
    BY <1>1, <1>4, <2>1, PushedStep
  <2>4. DOMAIN back.cards \subseteq Cards /\ \A c \in DOMAIN back.cards : back.cards[c] = card[c]
    BY <2>1
  <2>5. ToSet(undo') \subseteq {back} \cup ToSet(undo) \cup ToSet(redo)
        /\ ToSet(redo') \subseteq {back} \cup ToSet(undo) \cup ToSet(redo)
    BY <1>2, <1>4, <2>2
  <2>6. QED
    BY <1>0, <1>4, <2>4, <2>5, RegularRows
<1>5. QED
  BY <1>3, <1>4 DEF Redo

LEMMA NextRegular == QueuesInv /\ RowsRegular /\ [Next]_vars => RowsRegular'
<1> SUFFICES ASSUME QueuesInv, RowsRegular, [Next]_vars PROVE RowsRegular'
  OBVIOUS
<1>0. TypeInv /\ card \in [Cards -> Card] /\ \A c \in Cards : Regular(card[c])
  BY DEF QueuesInv, TypeInv, RowsRegular
<1>a. \A c \in Cards : Regular(Unburied(card)[c])
  BY <1>0, UnburiedRegular
<1>1. CASE Tick
  BY <1>1 DEF Tick, RowsRegular
<1>2. CASE GetNext
  <2>1. \A c \in Cards : Regular(card'[c])
    BY <1>0, <1>2, <1>a DEF GetNext
  <2>2. ToSet(undo') \subseteq ToSet(undo) /\ ToSet(redo') \subseteq ToSet(redo)
    BY <1>2, EmptySteps DEF GetNext
  <2>3. QED
    BY <2>1, <2>2, NoNewRows
<1>3. CASE Answer
  <2> DEFINE c == shown.id
  <2>1. c \in Cards /\ redo' = <<>>
    BY <1>3, AnswerIs
  <2>2. PICK next \in AfterAnswer(card[c]) : \E u \in QueueUpdate : Answers(c, next, u)
    BY <1>3, AnswerIs
  <2>3. PICK u \in QueueUpdate : Answers(c, next, u)
    BY <2>2
  <2>4. \A s \in Cards : Regular(card'[s])
    BY <1>0, <2>1, <2>3, AnsweredRegular DEF Answers
  <2>5. Written(c) \in SUBSET Cards
    BY <2>1 DEF Written, SiblingsToBury
  <2>6. QED
    BY <1>0, <2>1, <2>3, <2>4, <2>5, StepRegular DEF Answers
<1>4. CASE AnswerRefused
  BY <1>0, <1>4, EmptySteps, NoNewRows DEF AnswerRefused
<1>5. CASE DeckList
  BY <1>5, <1>a, NoNewRows DEF DeckList
<1>6. CASE Undo
  BY <1>6, UndoRegular
<1>7. CASE Redo
  BY <1>7, RedoRegular
<1>8. ASSUME NEW c \in OtherCards, NEW op \in OutsideOps, AnswerOutsideQueue(op, c) PROVE RowsRegular'
  <2>1. c \in Cards /\ op \in {"AnswerCard", "GradeNow", "Other"} /\ redo' = <<>>
    BY <1>8, CardsAssumption, OpsAssumption DEF AnswerOutsideQueue
  <2>2. PICK next \in AfterAnswer(card[c]) :
          card' = Answered(c, next) /\ PushStep(StepOf(op, Written(c), None))
    BY <1>8 DEF AnswerOutsideQueue
  <2>3. \A s \in Cards : Regular(card'[s])
    BY <1>0, <2>1, <2>2, AnsweredRegular
  <2>4. Written(c) \in SUBSET Cards
    BY <2>1 DEF Written, SiblingsToBury
  <2>5. QED
    BY <1>0, <2>1, <2>2, <2>3, <2>4, StepRegular
<1>9. ASSUME NEW c \in OtherCards, NEW queue \in {"Suspended", "UserBuried"}, BuryOrSuspend(c, queue)
      PROVE  RowsRegular'
  <2>1. c \in Cards /\ redo' = <<>> /\ PushStep(StepOf("Other", {c}, None)) /\ {c} \in SUBSET Cards
    BY <1>9, CardsAssumption DEF BuryOrSuspend
  <2> DEFINE m == [card[c] EXCEPT !.queue = queue, !.mtime = now]
  <2>2. card' = [card EXCEPT ![c] = m]
    BY <1>0, <1>9, <2>1 DEF BuryOrSuspend
  <2>3. Regular(m)
    BY <1>0, <2>1, SetAsideRegular DEF BuriedOrSuspended
  <2> HIDE DEF m
  <2>4. \A s \in Cards : Regular(card'[s])
    BY <1>0, <2>2, <2>3
  <2>5. QED
    BY <1>0, <2>1, <2>4, StepRegular
<1>10. ASSUME NEW c \in OtherCards, UnburyOrUnsuspend(c) PROVE RowsRegular'
  <2>1. c \in Cards /\ redo' = <<>> /\ PushStep(StepOf("Other", {c}, None)) /\ {c} \in SUBSET Cards
    BY <1>10, CardsAssumption DEF UnburyOrUnsuspend
  <2> DEFINE queue == RestoredQueue(card[c])
  <2>0. card' = [card EXCEPT ![c].queue = queue, ![c].mtime = now]
    BY <1>10 DEF UnburyOrUnsuspend
  <2>a. queue = RestoredQueue(card[c])
    OBVIOUS
  <2> HIDE DEF queue
  <2> DEFINE m == [card[c] EXCEPT !.queue = queue, !.mtime = now]
  <2>2. card' = [card EXCEPT ![c] = m]
    BY <1>0, <2>0, <2>1
  <2>3. Regular(m)
    BY <1>0, <2>1, <2>a, SetAsideRegular
  <2> HIDE DEF m
  <2>4. \A s \in Cards : Regular(card'[s])
    BY <1>0, <2>2, <2>3
  <2>5. QED
    BY <1>0, <2>1, <2>4, StepRegular
<1>11. CASE UNCHANGED vars
  BY <1>11 DEF vars, RowsRegular
<1>12. QED
  BY <1>1, <1>2, <1>3, <1>4, <1>5, <1>6, <1>7, <1>8, <1>9, <1>10, <1>11 DEF Next

(***************************************************************************)
(* Learning cards stay in the queues                                       *)
(***************************************************************************)
\* The card waits in the queues, or does not wait for the learning queue of the day.
Settled(s, ids, cards, day, gone) == s \in gone \/ s \in ids \/ Resting(cards[s], day)

\* The rows of a step that go with no entry it puts back are at rest.
StepCalm(way, step, b, day, gone) ==
  LiveIn(b, step) =>
    /\ \A s \in DOMAIN step.cards \ {step.update.entry.id} : s \in gone \/ Resting(step.cards[s], day)
    /\ way = "redo" /\ step.update.requeue = None =>
         step.update.entry.id \in gone \/ Resting(step.cards[step.update.entry.id], day)
StepSettled(step, b, ids, cards, day, gone) ==
  LiveIn(b, step) => \A s \in DOMAIN step.cards : Settled(s, ids, cards, day, gone)

CalmInv ==
  queues # None =>
    /\ \A step \in ToSet(undo) : StepCalm("undo", step, builds, queues.day, behind)
    /\ \A step \in ToSet(redo) : StepCalm("redo", step, builds, queues.day, behind)
    /\ \A step \in ToSet(undo) \cup ToSet(redo) :
         StepSettled(step, builds, Ids(queues), card, queues.day, behind)

\* What a step of the system does to a card that it does not settle.
Untouched(s) == card'[s] = card[s] /\ (s \in Ids(queues) => s \in Ids(queues'))
Moved ==
  /\ queues # None /\ queues' # None /\ queues'.day = queues.day
  /\ behind \subseteq behind'
  /\ \A s \in Cards : \/ Settled(s, Ids(queues'), card', queues'.day, behind')
                      \/ Untouched(s)

LEMMA CalmLater ==
  ASSUME NEW way, NEW step, NEW b, NEW day, NEW gone, NEW gone2, gone \subseteq gone2,
         StepCalm(way, step, b, day, gone)
  PROVE  StepCalm(way, step, b, day, gone2)
  BY DEF StepCalm

LEMMA SettledLater ==
  ASSUME Moved, NEW s \in Cards, Settled(s, Ids(queues), card, queues.day, behind)
  PROVE  Settled(s, Ids(queues'), card', queues'.day, behind')
  BY DEF Moved, Settled, Untouched

\* The invariant after a step that moves no other steps than those it names.
LEMMA CalmKept ==
  ASSUME TypeInv, CalmInv, Moved, UNCHANGED builds,
         \A step \in ToSet(undo') :
           \/ step \in ToSet(undo)
           \/ /\ StepCalm("undo", step, builds, queues'.day, behind')
              /\ StepSettled(step, builds, Ids(queues'), card', queues'.day, behind'),
         \A step \in ToSet(redo') :
           \/ step \in ToSet(redo)
           \/ /\ StepCalm("redo", step, builds, queues'.day, behind')
              /\ StepSettled(step, builds, Ids(queues'), card', queues'.day, behind')
  PROVE  CalmInv'
<1>1. queues # None /\ queues'.day = queues.day /\ behind \subseteq behind'
  BY DEF Moved
<1>2. ASSUME NEW step \in ToSet(undo) \cup ToSet(redo)
      PROVE  StepSettled(step, builds, Ids(queues'), card', queues'.day, behind')
  <2>1. DOMAIN step.cards \subseteq Cards
    BY StepsIn, StepFields
  <2>2. StepSettled(step, builds, Ids(queues), card, queues.day, behind)
    BY <1>1 DEF CalmInv
  <2>3. QED
    BY <2>1, <2>2, SettledLater DEF StepSettled
<1>3. ASSUME NEW step \in ToSet(undo) PROVE StepCalm("undo", step, builds, queues'.day, behind')
  <2>1. StepCalm("undo", step, builds, queues.day, behind)
    BY <1>1 DEF CalmInv
  <2>2. QED
    BY <1>1, <2>1, CalmLater
<1>4. ASSUME NEW step \in ToSet(redo) PROVE StepCalm("redo", step, builds, queues'.day, behind')
  <2>1. StepCalm("redo", step, builds, queues.day, behind)
    BY <1>1 DEF CalmInv
  <2>2. QED
    BY <1>1, <2>1, CalmLater
<1>5. QED
  BY <1>2, <1>3, <1>4 DEF CalmInv

LEMMA VoidCalm ==
  ASSUME NEW step, step.update = None, NEW way, NEW b, NEW day, NEW gone, NEW ids, NEW cards
  PROVE  StepCalm(way, step, b, day, gone) /\ StepSettled(step, b, ids, cards, day, gone)
  BY DEF StepCalm, StepSettled, LiveIn

LEMMA WaitsInLearning ==
  ASSUME NEW q \in CardQueues, NEW cards, NEW gone, EntriesFresh(q, cards, gone),
         NEW s \in Ids(q), s \notin gone, cards[s].queue \in IntradayQueues
  PROVE  HasLearning(q, s)
<1>1. PICK e \in Entries(q) : e.id = s
  BY DEF Ids
<1>2. FreshEntry(e, cards[s])
  BY <1>1 DEF EntriesFresh
<1>3. e \in MainEntry \cup LearnEntry /\ ToSet(q.main) \subseteq MainEntry
  BY <1>1, QueueFields DEF Entries
<1>4. e.kind = "Learning"
  BY <1>2, <1>3, EntryFacts DEF FreshEntry, IntradayQueues
<1>5. e \notin ToSet(q.main)
  BY <1>3, <1>4, EntryFacts
<1>6. e \in ToSet(q.learning)
  BY <1>1, <1>5 DEF Entries
<1>7. QED
  BY <1>1, <1>6 DEF HasLearning, ToSet

LEMMA LearningWaits ==
  ASSUME NEW q, NEW s, HasLearning(q, s)
  PROVE  s \in Ids(q)
  BY DEF HasLearning, Ids, Entries, ToSet

LEMMA NoneLost ==
  ASSUME QueuesInv, QueuesInv', FreshInv', Moved
  PROVE  LostLearning' \ behind' \subseteq LostLearning
<1> SUFFICES ASSUME NEW s \in LostLearning', s \notin behind' PROVE s \in LostLearning
  OBVIOUS
<1>1. queues # None /\ queues' # None /\ queues'.day = queues.day
  BY DEF Moved
<1>2. queues' \in CardQueues
  BY <1>1 DEF QueuesInv, TypeInv
<1>3. /\ s \in Cards /\ card'[s].queue \in IntradayQueues
      /\ card'[s].due < DayEnd(queues.day) /\ ~HasLearning(queues', s)
  BY <1>1 DEF LostLearning, DayEnd
<1>4. s \notin Ids(queues')
  <2>1. EntriesFresh(queues', card', behind')
    BY <1>1 DEF FreshInv, QueuesFresh
  <2>2. QED
    BY <1>2, <1>3, <2>1, WaitsInLearning
<1>5. ~Resting(card'[s], queues.day)
  <2>1. card'[s] \in Card
    BY <1>3 DEF QueuesInv, TypeInv
  <2>2. card'[s].due \in Nat
    BY <2>1, CardFields
  <2>3. queues.day \in Nat /\ DayLen \in Nat /\ Epoch \in Nat
    BY <1>1, QueueFields, TimeAssumption DEF QueuesInv, TypeInv
  <2>4. (queues.day + 1) * DayLen \in Nat
    BY <2>3
  <2>5. DayEnd(queues.day) \in Nat
    BY <2>3, <2>4 DEF DayEnd
  <2>6. QED
    BY <1>3, <2>2, <2>5 DEF Resting, Calm
<1>6. Untouched(s)
  BY <1>1, <1>3, <1>4, <1>5 DEF Moved, Settled
<1>7. card'[s] = card[s] /\ s \notin Ids(queues)
  BY <1>4, <1>6 DEF Untouched
<1>8. ~HasLearning(queues, s)
  BY <1>7, LearningWaits
<1>9. QED
  BY <1>1, <1>3, <1>7, <1>8 DEF LostLearning, DayEnd

LEMMA ViewDay == ASSUME NEW p, NEW q, View(p) = View(q) PROVE p.day = q.day
  BY SameView

LEMMA LeftDay == ASSUME NEW q, NEW u, View(q) = After(u) PROVE q.day = u.before.day
  BY LeftView

LEMMA IdsOf ==
  ASSUME NEW u \in QueueUpdate, UpdateOK(u), NEW q, View(q) = After(u)
  PROVE  /\ \A s : s \in Ids(q) => s \in Ids(u.before)
         /\ \A s : s \in Ids(u.before) /\ s # u.entry.id => s \in Ids(q)
         /\ u.requeue # None => u.entry.id \in Ids(q)
         /\ u.requeue = None => u.entry.id \notin Ids(q)
         /\ u.entry.id \in Ids(u.before) /\ u.entry.id \in Cards
<1>1. /\ Entries(q) = (Entries(u.before) \ {u.entry}) \cup Requeued(u)
      /\ u.entry \in Entries(u.before)
      /\ \A e \in Entries(u.before) : e.id = u.entry.id => e = u.entry
      /\ \A e \in Requeued(u) : e.id = u.entry.id /\ e.kind = "Learning"
      /\ u.entry.id \in Cards
  BY LeftEntries
<1>2. u.requeue # None => u.requeue \in Requeued(u)
  BY DEF Requeued
<1>3. u.requeue = None => Requeued(u) = {}
  BY DEF Requeued
<1>4. \A s : s \in Ids(q) => s \in Ids(u.before)
  BY <1>1 DEF Ids
<1>5. \A s : s \in Ids(u.before) /\ s # u.entry.id => s \in Ids(q)
  BY <1>1 DEF Ids
<1>6. u.requeue # None => u.entry.id \in Ids(q)
  BY <1>1, <1>2 DEF Ids
<1>7. u.requeue = None => u.entry.id \notin Ids(q)
  BY <1>1, <1>3 DEF Ids
<1>8. u.entry.id \in Ids(u.before)
  BY <1>1 DEF Ids
<1>9. QED
  BY <1>1, <1>4, <1>5, <1>6, <1>7, <1>8

LEMMA AnswerMoves == ASSUME QueuesInv, FreshInv, RowsRegular, CalmInv, Answer PROVE Moved /\ CalmInv'
<1> DEFINE c == shown.id
<1>1. /\ c \in Cards /\ card[c] \in Card
      /\ queues # None /\ queues \in CardQueues /\ queues' # None
      /\ UNCHANGED <<bury, builds, behind>> /\ redo' = <<>>
  BY AnswerIs
<1>2. PICK next \in AfterAnswer(card[c]) : \E u \in QueueUpdate : Answers(c, next, u)
  BY AnswerIs
<1>3. PICK u \in QueueUpdate : Answers(c, next, u)
  BY <1>2
<1>4. TypeInv /\ undo \in Seq(Step)
  BY DEF QueuesInv, TypeInv
<1>5. /\ UpdateOK(u) /\ u.before = queues /\ u.entry.id = c
      /\ View(queues') = After(u) /\ card' = Answered(c, next)
  BY <1>3 DEF Answers
<1>6. queues'.day = queues.day
  BY <1>5, LeftDay
<1>7. /\ \A s : s \in Ids(queues) /\ s # c => s \in Ids(queues')
      /\ u.requeue # None => c \in Ids(queues')
  BY <1>5, IdsOf
<1>8. queues.day \in Nat /\ queues.day <= Today
  BY <1>1, QueueFields DEF QueuesInv, QueuesSound, QueueSound
<1>9. c \in Ids(queues') \/ Resting(card'[c], queues.day)
  <2>1. card'[c] = next
    BY <1>1, <1>5 DEF Answered
  <2>2. Regular(card[c])
    BY <1>1 DEF RowsRegular
  <2>3. u.requeue = None => Resting(next, queues.day)
    BY <1>1, <1>3, <1>4, <1>8, <2>2, NextIs DEF Answers
  <2>4. QED
    BY <1>7, <2>1, <2>3
<1>10. ASSUME NEW s \in SiblingsToBury(c)
       PROVE  Calm(card'[s]) /\ Calm(card[s]) /\ s \in Cards /\ s # c
  <2>1. s \in Cards /\ s # c /\ card[s].queue \in {"New", "DayLearn", "Review"}
    BY DEF SiblingsToBury
  <2>2. card[s] \in Card /\ Regular(card[s])
    BY <1>4, <2>1 DEF TypeInv, RowsRegular
  <2> DEFINE m == [card[s] EXCEPT !.queue = "SchedBuried", !.mtime = now]
  <2>3. card'[s] = m
    BY <1>5, <2>1 DEF Answered
  <2>4. Calm(m) /\ Calm(card[s])
    BY <2>1, <2>2, SetAsideRegular
  <2>5. QED
    BY <2>1, <2>3, <2>4
<1>11. \A s \in Written(c) : Settled(s, Ids(queues'), card', queues'.day, behind')
  BY <1>6, <1>9, <1>10 DEF Written, Settled, Resting
<1>12. ASSUME NEW s \in Cards, s \notin Written(c) PROVE Untouched(s)
  BY <1>5, <1>7, <1>12 DEF Written, Untouched, Answered
<1>13. Moved
  BY <1>1, <1>6, <1>11, <1>12 DEF Moved
<1> DEFINE step == StepOf("AnswerCard", Written(c), u)
<1>14. step \in Step /\ step.update = u /\ step.cards = [s \in Written(c) |-> card[s]]
  <2>1. Written(c) \in SUBSET Cards
    BY <1>1 DEF Written, SiblingsToBury
  <2>2. QED
    BY <1>4, <2>1, StepType DEF StepOf
<1> HIDE DEF step
<1>15. ToSet(undo') \subseteq {step} \cup ToSet(undo)
  BY <1>3, <1>4, <1>14, PushedStep DEF Answers, step
<1>16. StepCalm("undo", step, builds, queues'.day, behind')
  <2>1. ASSUME NEW s \in DOMAIN step.cards \ {c} PROVE Resting(step.cards[s], queues'.day)
    <3>1. s \in SiblingsToBury(c) /\ step.cards[s] = card[s]
      BY <1>14 DEF Written
    <3>2. QED
      BY <1>10, <3>1 DEF Resting
  <2>2. QED
    BY <1>5, <1>14, <2>1 DEF StepCalm
<1>17. StepSettled(step, builds, Ids(queues'), card', queues'.day, behind')
  BY <1>11, <1>14 DEF StepSettled
<1>18. ToSet(redo') = {}
  BY <1>1, EmptySteps
<1>19. CalmInv'
  BY <1>1, <1>4, <1>13, <1>15, <1>16, <1>17, <1>18, CalmKept
<1>20. QED
  BY <1>13, <1>19

\* An operation, or its undo or redo, that leaves the queues.
LEMMA VoidMoves ==
  ASSUME TypeInv, CalmInv, UNCHANGED <<queues, builds>>, queues # None,
         behind \subseteq behind', \A s \in Cards : s \in behind' \/ card'[s] = card[s],
         \A step \in ToSet(undo') : step.update = None \/ step \in ToSet(undo),
         \A step \in ToSet(redo') : step.update = None \/ step \in ToSet(redo)
  PROVE  Moved /\ CalmInv'
<1>1. Moved
  BY DEF Moved, Settled, Untouched
<1>2. \A step \in ToSet(undo') :
        \/ step \in ToSet(undo)
        \/ /\ StepCalm("undo", step, builds, queues'.day, behind')
           /\ StepSettled(step, builds, Ids(queues'), card', queues'.day, behind')
  BY VoidCalm
<1>3. \A step \in ToSet(redo') :
        \/ step \in ToSet(redo)
        \/ /\ StepCalm("redo", step, builds, queues'.day, behind')
           /\ StepSettled(step, builds, Ids(queues'), card', queues'.day, behind')
  BY VoidCalm
<1>4. QED
  BY <1>1, <1>2, <1>3, CalmKept

LEMMA UndoMoves ==
  ASSUME QueuesInv, FreshInv, CalmInv, Undo, queues' # None PROVE Moved /\ CalmInv'
<1> DEFINE step == Head(undo)
           back == Reversal(step)
           u == step.update
<1>0. UNCHANGED builds /\ TypeInv /\ redo \in Seq(Step)
  BY DEF Undo, QueuesInv, TypeInv
<1>1. CASE u = None
  <2>1. /\ undo # <<>> /\ step \in ToSet(undo) /\ step \in Step
        /\ queues' = queues
        /\ card' = Reverted(step) /\ undo' = Tail(undo) /\ redo' = <<back>> \o redo
        /\ behind' = behind \cup DOMAIN step.cards
    BY <1>1, VoidUndoIs
  <2>2. back \in Step /\ back.update = None
    BY <1>0, <1>1, <2>1, ReversalIs
  <2>3. ToSet(redo') = {back} \cup ToSet(redo) /\ ToSet(undo') \subseteq ToSet(undo)
    <3>1. ToSet(Tail(undo)) \subseteq ToSet(undo)
      BY <1>0, <2>1, StepsIn
    <3>2. QED
      BY <1>0, <2>1, <2>2, <3>1, ConsSet
  <2>4. \A s \in Cards : s \in behind' \/ card'[s] = card[s]
    BY <2>1 DEF Reverted
  <2>5. \A s \in ToSet(undo') : s.update = None \/ s \in ToSet(undo)
    BY <2>3
  <2>6. \A s \in ToSet(redo') : s.update = None \/ s \in ToSet(redo)
    BY <2>2, <2>3
  <2>7. behind \subseteq behind' /\ queues # None /\ queues' = queues
    BY <2>1
  <2>8. QED
    BY <1>0, <2>4, <2>5, <2>6, <2>7, VoidMoves
<1>2. CASE u # None
  <2>1. /\ undo # <<>> /\ step \in ToSet(undo) /\ step \in Step /\ LiveIn(builds, step)
        /\ queues # None /\ queues \in CardQueues
        /\ u \in QueueUpdate /\ UpdateOK(u) /\ u.before \in CardQueues
        /\ View(queues) = After(u) /\ View(queues') = Before(u)
        /\ card' = Reverted(step) /\ undo' = Tail(undo) /\ redo' = <<back>> \o redo
        /\ behind' = behind
    BY <1>2, LiveUndoIs
  <2>2. /\ back \in Step /\ back.update = step.update /\ back.cards = [c \in DOMAIN step.cards |-> card[c]]
        /\ DOMAIN step.cards \subseteq Cards
    BY <1>0, <2>1, ReversalIs, StepFields
  <2> HIDE DEF step, back
  <2>3. ToSet(redo') = {back} \cup ToSet(redo) /\ ToSet(undo') \subseteq ToSet(undo)
    <3>1. ToSet(Tail(undo)) \subseteq ToSet(undo)
      BY <1>0, <2>1, StepsIn
    <3>2. QED
      BY <1>0, <2>1, <2>2, <3>1, ConsSet
  <2>4. queues'.day = queues.day
    <3>1. queues'.day = u.before.day
      BY <2>1, ViewDay DEF Before
    <3>2. QED
      BY <2>1, <3>1, LeftDay
  <2>5. Ids(queues') = Ids(u.before)
    BY <2>1, SameEntries DEF Before
  <2>6. /\ \A s : s \in Ids(queues) => s \in Ids(u.before)
        /\ u.requeue = None => u.entry.id \notin Ids(queues)
        /\ u.entry.id \in Ids(u.before)
    BY <2>1, IdsOf
  <2>7. /\ StepFresh("undo", step, builds, bury, behind)
        /\ StepCalm("undo", step, builds, queues.day, behind)
        /\ StepSettled(step, builds, Ids(queues), card, queues.day, behind)
    BY <2>1 DEF FreshInv, StepsFresh, CalmInv
  <2>8. \A s \in DOMAIN step.cards : Settled(s, Ids(queues'), card', queues'.day, behind')
    <3>1. ASSUME NEW s \in DOMAIN step.cards PROVE Settled(s, Ids(queues'), card', queues'.day, behind')
      <4>1. CASE s = u.entry.id
        BY <2>5, <2>6, <4>1 DEF Settled
      <4>2. CASE s # u.entry.id
        <5>1. s \in behind \/ Resting(step.cards[s], queues.day)
          BY <2>1, <2>7, <4>2 DEF StepCalm
        <5>2. card'[s] = step.cards[s]
          BY <2>1, <2>2 DEF Reverted
        <5>3. QED
          BY <2>1, <2>4, <5>1, <5>2 DEF Settled
      <4>3. QED
        BY <4>1, <4>2
    <3>2. QED
      BY <3>1
  <2>9. ASSUME NEW s \in Cards, s \notin DOMAIN step.cards PROVE Untouched(s)
    BY <2>1, <2>5, <2>6, <2>9 DEF Untouched, Reverted
  <2>10. Moved
    BY <2>1, <2>4, <2>8, <2>9 DEF Moved
  <2>11. \A s \in DOMAIN step.cards \ {u.entry.id} : s \in Ids(u.before) => s \in behind
    BY <2>1, <2>7 DEF StepFresh
  <2>12. \A s \in DOMAIN step.cards : s \in behind \/ s \in Ids(queues) \/ Resting(card[s], queues.day)
    BY <2>1, <2>7 DEF StepSettled, Settled
  <2>13. u.entry.id \in DOMAIN step.cards
    BY <2>1, <2>7 DEF StepFresh
  <2>14. StepCalm("redo", back, builds, queues'.day, behind')
    <3>1. \A s \in DOMAIN step.cards \ {u.entry.id} : s \in behind \/ Resting(card[s], queues.day)
      BY <2>6, <2>11, <2>12
    <3>2. u.requeue = None => u.entry.id \in behind \/ Resting(card[u.entry.id], queues.day)
      BY <2>6, <2>12, <2>13
    <3>3. DOMAIN back.cards = DOMAIN step.cards /\ \A s \in DOMAIN step.cards : back.cards[s] = card[s]
      BY <2>2
    <3>4. QED
      BY <2>1, <2>2, <2>4, <2>13, <3>1, <3>2, <3>3 DEF StepCalm
  <2>15. StepSettled(back, builds, Ids(queues'), card', queues'.day, behind')
    BY <2>2, <2>8 DEF StepSettled
  <2>16. /\ \A s \in ToSet(undo') : s \in ToSet(undo)
         /\ \A s \in ToSet(redo') : s \in ToSet(redo) \/ s = back
    BY <2>3
  <2>17. CalmInv'
    BY <1>0, <2>10, <2>14, <2>15, <2>16, CalmKept
  <2>18. QED
    BY <2>10, <2>17
<1>3. QED
  BY <1>1, <1>2

LEMMA RedoMoves ==
  ASSUME QueuesInv, FreshInv, CalmInv, Redo, queues' # None PROVE Moved /\ CalmInv'
<1> DEFINE step == Head(redo)
           back == Reversal(step)
           u == step.update
<1>0. UNCHANGED builds /\ TypeInv /\ undo \in Seq(Step)
  BY DEF Redo, QueuesInv, TypeInv
<1>1. CASE u = None
  <2>1. /\ redo # <<>> /\ step \in ToSet(redo) /\ step \in Step
        /\ queues' = queues
        /\ card' = Reverted(step) /\ redo' = Tail(redo) /\ PushStep(back)
        /\ behind' = behind \cup DOMAIN step.cards
    BY <1>1, VoidRedoIs
  <2>2. back \in Step /\ back.update = None
    BY <1>0, <1>1, <2>1, ReversalIs
  <2>3. ToSet(undo') \subseteq {back} \cup ToSet(undo) /\ ToSet(redo') \subseteq ToSet(redo)
    <3>1. ToSet(Tail(redo)) \subseteq ToSet(redo)
      BY <1>0, <2>1, StepsIn
    <3>2. QED
      BY <1>0, <2>1, <2>2, <3>1, PushedStep
  <2>4. \A s \in Cards : s \in behind' \/ card'[s] = card[s]
    BY <2>1 DEF Reverted
  <2>5. \A s \in ToSet(undo') : s.update = None \/ s \in ToSet(undo)
    BY <2>2, <2>3
  <2>6. \A s \in ToSet(redo') : s.update = None \/ s \in ToSet(redo)
    BY <2>3
  <2>7. behind \subseteq behind' /\ queues # None /\ queues' = queues
    BY <2>1
  <2>8. QED
    BY <1>0, <2>4, <2>5, <2>6, <2>7, VoidMoves
<1>2. CASE u # None
  <2>1. /\ redo # <<>> /\ step \in ToSet(redo) /\ step \in Step /\ LiveIn(builds, step)
        /\ queues # None /\ queues \in CardQueues
        /\ u \in QueueUpdate /\ UpdateOK(u) /\ u.before \in CardQueues
        /\ View(queues) = Before(u) /\ View(queues') = After(u)
        /\ card' = Reverted(step) /\ redo' = Tail(redo) /\ PushStep(back)
        /\ behind' = behind
    BY <1>2, LiveRedoIs
  <2>2. /\ back \in Step /\ back.update = step.update /\ back.cards = [c \in DOMAIN step.cards |-> card[c]]
        /\ DOMAIN step.cards \subseteq Cards
    BY <1>0, <2>1, ReversalIs, StepFields
  <2> HIDE DEF step, back
  <2>3. ToSet(undo') \subseteq {back} \cup ToSet(undo) /\ ToSet(redo') \subseteq ToSet(redo)
    <3>1. ToSet(Tail(redo)) \subseteq ToSet(redo)
      BY <1>0, <2>1, StepsIn DEF step
    <3>2. QED
      BY <1>0, <2>1, <2>2, <3>1, PushedStep
  <2>4. queues'.day = queues.day
    <3>1. queues.day = u.before.day
      BY <2>1, ViewDay DEF Before
    <3>2. QED
      BY <2>1, <3>1, LeftDay
  <2>5. Ids(queues) = Ids(u.before)
    BY <2>1, SameEntries DEF Before
  <2>6. /\ \A s : s \in Ids(u.before) /\ s # u.entry.id => s \in Ids(queues')
        /\ u.requeue # None => u.entry.id \in Ids(queues')
    BY <2>1, IdsOf
  <2>7. /\ StepFresh("redo", step, builds, bury, behind)
        /\ StepCalm("redo", step, builds, queues.day, behind)
        /\ StepSettled(step, builds, Ids(queues), card, queues.day, behind)
    BY <2>1 DEF FreshInv, StepsFresh, CalmInv
  <2>13. u.entry.id \in DOMAIN step.cards
    BY <2>1, <2>7 DEF StepFresh
  <2>8. \A s \in DOMAIN step.cards : Settled(s, Ids(queues'), card', queues'.day, behind')
    <3>1. ASSUME NEW s \in DOMAIN step.cards PROVE Settled(s, Ids(queues'), card', queues'.day, behind')
      <4>0. card'[s] = step.cards[s]
        BY <2>1, <2>2 DEF Reverted
      <4>1. CASE s = u.entry.id /\ u.requeue # None
        BY <2>6, <4>1 DEF Settled
      <4>2. CASE s # u.entry.id
        <5>1. s \in behind \/ Resting(step.cards[s], queues.day)
          BY <2>1, <2>7, <4>2 DEF StepCalm
        <5>2. QED
          BY <2>1, <2>4, <4>0, <5>1 DEF Settled
      <4>3. CASE s = u.entry.id /\ u.requeue = None
        <5>1. s \in behind \/ Resting(step.cards[s], queues.day)
          BY <2>1, <2>7, <4>3 DEF StepCalm
        <5>2. QED
          BY <2>1, <2>4, <4>0, <5>1 DEF Settled
      <4>4. QED
        BY <4>1, <4>2, <4>3
    <3>2. QED
      BY <3>1
  <2>9. ASSUME NEW s \in Cards, s \notin DOMAIN step.cards PROVE Untouched(s)
    BY <2>1, <2>5, <2>6, <2>9, <2>13 DEF Untouched, Reverted
  <2>10. Moved
    BY <2>1, <2>4, <2>8, <2>9 DEF Moved
  <2>11. \A s \in DOMAIN step.cards \ {u.entry.id} : s \in Ids(u.before) => s \in behind
    BY <2>1, <2>7 DEF StepFresh
  <2>12. \A s \in DOMAIN step.cards : s \in behind \/ s \in Ids(queues) \/ Resting(card[s], queues.day)
    BY <2>1, <2>7 DEF StepSettled, Settled
  <2>14. StepCalm("undo", back, builds, queues'.day, behind')
    <3>1. \A s \in DOMAIN step.cards \ {u.entry.id} : s \in behind \/ Resting(card[s], queues.day)
      BY <2>5, <2>11, <2>12
    <3>3. DOMAIN back.cards = DOMAIN step.cards /\ \A s \in DOMAIN step.cards : back.cards[s] = card[s]
      BY <2>2
    <3>4. QED
      BY <2>1, <2>2, <2>4, <3>1, <3>3 DEF StepCalm
  <2>15. StepSettled(back, builds, Ids(queues'), card', queues'.day, behind')
    BY <2>2, <2>8 DEF StepSettled
  <2>16. /\ \A s \in ToSet(undo') : s \in ToSet(undo) \/ s = back
         /\ \A s \in ToSet(redo') : s \in ToSet(redo)
    BY <2>3
  <2>17. CalmInv'
    BY <1>0, <2>10, <2>14, <2>15, <2>16, CalmKept
  <2>18. QED
    BY <2>10, <2>17
<1>3. QED
  BY <1>1, <1>2

LEMMA CalmWithout == ASSUME queues' = None PROVE CalmInv'
  BY DEF CalmInv

LEMMA SameCalm ==
  ASSUME CalmInv, UNCHANGED <<card, queues, undo, redo, builds, behind>> PROVE CalmInv'
  BY DEF CalmInv

LEMMA DeckListCalm == ASSUME QueuesInv, CalmInv, DeckList PROVE CalmInv'
<1>1. UNCHANGED <<queues, undo, redo, builds, behind>> /\ card' = Unburied(card)
  BY DEF DeckList
<1>2. TypeInv /\ card \in [Cards -> Card]
  BY DEF QueuesInv, TypeInv
<1>3. ASSUME NEW step \in ToSet(undo) \cup ToSet(redo), queues # None
      PROVE  StepSettled(step, builds, Ids(queues), Unburied(card), queues.day, behind)
  <2>1. DOMAIN step.cards \subseteq Cards
    BY <1>2, StepsIn, StepFields
  <2>2. StepSettled(step, builds, Ids(queues), card, queues.day, behind)
    BY <1>3 DEF CalmInv
  <2>3. ASSUME NEW s \in DOMAIN step.cards, Settled(s, Ids(queues), card, queues.day, behind)
        PROVE  Settled(s, Ids(queues), Unburied(card), queues.day, behind)
    <3>1. Resting(card[s], queues.day) => Resting(Unburied(card)[s], queues.day)
      BY <1>2, <2>1, UnburiedRegular
    <3>2. QED
      BY <2>3, <3>1 DEF Settled
  <2>4. QED
    BY <2>2, <2>3 DEF StepSettled
<1>4. QED
  BY <1>1, <1>3 DEF CalmInv

LEMMA GetNextCalm ==
  ASSUME QueuesInv, QueuesInv', FreshInv', CalmInv, GetNext
  PROVE  CalmInv' /\ LostLearning' \ behind' \subseteq LostLearning
<1>1. TypeInv /\ StepsSound /\ QueuesSound
  BY DEF QueuesInv
<1>2. CASE queues = None \/ DayChanged
  <2>1. builds' = builds + 1 /\ \E q \in BuiltQueues(card') : queues' = CountsCall(q)
    BY <1>2 DEF GetNext
  <2>2. card' \in [Cards -> Card]
    <3>1. Unburied(card) \in [Cards -> Card]
      BY <1>1, UnburiedIs DEF TypeInv
    <3>2. QED
      BY <1>1, <3>1 DEF GetNext, TypeInv
  <2>3. PICK cards \in [Cards -> Card] : cards = card'
    BY <2>2
  <2>4. PICK q \in BuiltQueues(cards) : queues' = CountsCall(q)
    BY <2>1, <2>3
  <2>5. /\ q \in CardQueues /\ Agree(q) /\ q.cutoff = now /\ q.day = Today
        /\ \A c \in Cards : cards[c].queue \in IntradayQueues /\ cards[c].due <= NextDayAt
                              => HasLearning(q, c)
    BY <1>1, BuiltIs
  <2>6. /\ queues' \in CardQueues /\ View(queues') = View(q) /\ queues'.day = Today
    <3>1. now \in Nat /\ q.cutoff <= now
      BY <1>1, <2>5, NowFacts
    <3>2. QED
      BY <2>4, <2>5, <3>1, CountsCallIs
  <2>7. ASSUME NEW step \in ToSet(undo) \cup ToSet(redo) PROVE ~LiveIn(builds + 1, step)
    <3>1. step \in Step /\ StepSound(step, now, Today, builds)
      BY <1>1, StepsIn DEF StepsSound
    <3>2. CASE step.update # None
      <4>1. step.update \in QueueUpdate
        BY <3>1, <3>2, StepFields
      <4>2. step.update.build \in Nat /\ step.update.build <= builds /\ builds \in Nat
        BY <1>1, <3>1, <3>2, <4>1, UpdateFields DEF StepSound, TypeInv
      <4>3. QED
        BY <4>2 DEF LiveIn
    <3>3. QED
      BY <3>2 DEF LiveIn
  <2>8. \A step \in ToSet(undo') \cup ToSet(redo') : ~LiveIn(builds', step)
    BY <2>1, <2>7, EmptySteps DEF GetNext
  <2>9. CalmInv'
    BY <2>8 DEF CalmInv, StepCalm, StepSettled
  <2>10. LostLearning' = {}
    <3> SUFFICES ASSUME NEW c \in LostLearning' PROVE FALSE
      OBVIOUS
    <3>1. queues' # None
      BY <2>6, NoneAssumption
    <3>2. /\ c \in Cards /\ cards[c].queue \in IntradayQueues /\ ~HasLearning(queues', c)
          /\ cards[c].due < NextDayAt
      BY <2>3, <2>6, <3>1 DEF LostLearning, NextDayAt
    <3>3. cards[c].due \in Nat /\ NextDayAt \in Nat
      <4>1. cards[c] \in Card
        BY <3>2
      <4>2. QED
        BY <1>1, <4>1, CardFields, NowFacts
    <3>4. HasLearning(q, c)
      BY <2>5, <3>2, <3>3
    <3>5. ToSet(queues'.learning) = ToSet(q.learning)
      BY <2>6, SameView
    <3>6. HasLearning(queues', c)
      BY <2>5, <2>6, <3>4, <3>5, HasIs
    <3>7. QED
      BY <3>2, <3>6
  <2>11. QED
    BY <2>9, <2>10
<1>3. CASE ~(queues = None \/ DayChanged)
  <2>1. /\ queues' = CountsCall(queues) /\ UNCHANGED <<card, builds, behind, undo, redo>> /\ queues # None
    BY <1>3 DEF GetNext
  <2>2. View(queues') = View(queues) /\ queues' # None
    <3>1. now \in Nat /\ queues \in CardQueues /\ Agree(queues) /\ queues.cutoff <= now
      BY <1>1, <2>1, NowFacts DEF QueuesSound, QueueSound, TypeInv
    <3>2. QED
      BY <2>1, <3>1, CountsCallIs, NoneAssumption
  <2>3. Moved
    BY <2>1, <2>2, SameEntries, ViewDay DEF Moved, Untouched
  <2>4. CalmInv'
    BY <1>1, <2>1, <2>3, CalmKept
  <2>5. QED
    BY <2>3, <2>4, NoneLost
<1>4. QED
  BY <1>2, <1>3

LEMMA OutsideMoves ==
  ASSUME QueuesInv, CalmInv, NEW op \in OutsideOps, NEW c \in OtherCards, AnswerOutsideQueue(op, c),
         queues' # None
  PROVE  Moved /\ CalmInv'
<1>1. TypeInv /\ c \in Cards /\ op \in {"AnswerCard", "GradeNow", "Other"}
  BY CardsAssumption, OpsAssumption DEF QueuesInv
<1>2. PICK next \in AfterAnswer(card[c]) :
        /\ card' = Answered(c, next)
        /\ PushStep(StepOf(op, Written(c), None))
        /\ queues' = queues
        /\ behind' = behind \cup Written(c)
  BY DEF AnswerOutsideQueue, FallBehind
<1>3. Written(c) \in SUBSET Cards
  BY <1>1 DEF Written, SiblingsToBury
<1>4. StepOf(op, Written(c), None) \in Step /\ StepOf(op, Written(c), None).update = None
  BY <1>1, <1>3, StepType DEF StepOf
<1>5. undo \in Seq(Step)
  BY <1>1 DEF TypeInv
<1>6. ToSet(undo') \subseteq {StepOf(op, Written(c), None)} \cup ToSet(undo)
  BY <1>2, <1>4, <1>5, PushedStep
<1>7. ToSet(redo') = {} /\ builds' = builds
  BY EmptySteps DEF AnswerOutsideQueue
<1>8. \A s \in Cards : s \in behind' \/ card'[s] = card[s]
  BY <1>2 DEF Answered, Written
<1>9. behind \subseteq behind' /\ queues # None /\ queues' = queues
  BY <1>2
<1>10. QED
  BY <1>1, <1>4, <1>6, <1>7, <1>8, <1>9, VoidMoves

LEMMA NothingLost ==
  ASSUME QueuesInv, QueuesInv', FreshInv, FreshInv', RowsRegular, CalmInv, [Next]_vars
  PROVE  /\ CalmInv'
         /\ DeckList \/ (LostLearning' \ behind' \subseteq LostLearning) \/ UNCHANGED vars
<1>0. ASSUME queues' = None PROVE CalmInv' /\ LostLearning' \ behind' \subseteq LostLearning
  BY <1>0, CalmWithout DEF LostLearning
<1>1. CASE Tick
  <2>1. LostLearning' = LostLearning
    BY <1>1 DEF Tick, LostLearning
  <2>2. QED
    BY <1>1, <2>1, SameCalm DEF Tick
<1>2. CASE GetNext
  BY <1>2, GetNextCalm
<1>3. CASE Answer
  BY <1>3, AnswerMoves, NoneLost
<1>4. CASE AnswerRefused
  BY <1>0, <1>4 DEF AnswerRefused
<1>5. CASE DeckList
  BY <1>5, DeckListCalm
<1>6. CASE Undo
  BY <1>0, <1>6, UndoMoves, NoneLost
<1>7. CASE Redo
  BY <1>0, <1>7, RedoMoves, NoneLost
<1>8. ASSUME NEW c \in OtherCards, NEW op \in OutsideOps, AnswerOutsideQueue(op, c)
      PROVE  CalmInv' /\ LostLearning' \ behind' \subseteq LostLearning
  BY <1>0, <1>8, OutsideMoves, NoneLost
<1>9. ASSUME NEW c \in OtherCards, NEW queue \in {"Suspended", "UserBuried"}, BuryOrSuspend(c, queue)
      PROVE  CalmInv' /\ LostLearning' \ behind' \subseteq LostLearning
  BY <1>0, <1>9 DEF BuryOrSuspend
<1>10. ASSUME NEW c \in OtherCards, UnburyOrUnsuspend(c)
       PROVE  CalmInv' /\ LostLearning' \ behind' \subseteq LostLearning
  BY <1>0, <1>10 DEF UnburyOrUnsuspend
<1>11. CASE UNCHANGED vars
  BY <1>11, SameCalm DEF vars
<1>12. QED
  BY <1>1, <1>2, <1>3, <1>4, <1>5, <1>6, <1>7, <1>8, <1>9, <1>10, <1>11 DEF Next

\* A learning card due before the end of the day of the queues stays in them, through
\* answers, undos and redos.
THEOREM LearningStaysInQueues ==
  ASSUME HierarchicalStarts, NoLearningPreviews PROVE Spec => LearningNotLost
<1> DEFINE Kept == DeckList \/ LostLearning' \ behind' \subseteq LostLearning
           Inv == QueuesInv /\ FreshInv /\ RowsRegular /\ CalmInv
<1>1. Init => Inv
  <2>1. Init => CalmInv
    BY DEF Init, CalmInv
  <2>2. QED
    BY <2>1, InitQueuesInv, InitFresh, InitRegular
<1>2. Inv /\ [Next]_vars => Inv' /\ [Kept]_vars
  BY NextQueues, NextFresh, NextRegular, NothingLost
<1> HIDE DEF Inv
<1>3. QED
  BY <1>1, <1>2, PTL DEF Spec, LearningNotLost

===============================================================================

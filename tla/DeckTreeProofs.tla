---------------------------- MODULE DeckTreeProofs ----------------------------
(***************************************************************************)
(* The names of the decks stay a tree, and cards go with their deck, for   *)
(* any names, any cards and any number of decks and operations.            *)
(*                                                                         *)
(* The argument: names are told apart by Fold, which Before orders, so     *)
(* that sorted() lists what there is, once each.  In a table whose parents *)
(* all exist (Whole) a new place is made by adding the parents it misses   *)
(* (Grown), and the decks below the moved one are renamed one by one; none *)
(* meets a deck that is there, because nothing else is below the new name  *)
(* (Moved).  A removal takes a deck and those below it, and with them the  *)
(* cards whose home they are (Removal).  Inv, the inductive invariant,     *)
(* says that the decks are a table with unique names and used ids and,     *)
(* until a sync brings in decks, that the tree is whole and every card has *)
(* a deck, a lent one both that it is in and that it will return to.       *)
(***************************************************************************)
EXTENDS DeckTree, FiniteSetTheorems, SequenceTheorems, WellFoundedInduction, TLAPS

(***************************************************************************)
(* Numbers                                                                 *)
(***************************************************************************)

Smaller == {p \in Nat \X Nat : p[1] < p[2]}

\* The order of the naturals has no infinite descent.
LEMMA SmallerIsWellFounded == IsWellFoundedOn(Smaller, Nat)
<1>1. Smaller = OpToRel(<, Nat)
  BY DEF Smaller, OpToRel
<1>2. QED
  BY <1>1, NatLessThanWellFounded

\* A set of numbers that is not empty has a least one.
LEMMA MinIs ==
  ASSUME NEW S \in SUBSET Nat, S # {}
  PROVE  Min(S) \in S /\ \A n \in S : Min(S) <= n
<1>1. PICK m \in S : \A n \in S : ~ (<<n, m>> \in Smaller)
  BY SmallerIsWellFounded, WFMin
<1>2. ASSUME NEW n \in S PROVE m <= n
  <2>1. m \in Nat /\ n \in Nat /\ ~ (<<n, m>> \in Smaller)
    BY <1>1
  <2>2. ~ (n < m)
    BY <2>1 DEF Smaller
  <2>3. QED
    BY <2>1, <2>2
<1>3. QED
  BY <1>2 DEF Min

LEMMA MinOfTwo ==
  ASSUME NEW m \in Nat, NEW n \in Nat
  PROVE  Min({m, n}) = IF m <= n THEN m ELSE n
<1>1. Min({m, n}) \in {m, n} /\ \A k \in {m, n} : Min({m, n}) <= k
  BY MinIs
<1>2. QED
  BY <1>1

\* A set of numbers with a bound that is not empty has a greatest one.
LEMMA MaxIs ==
  ASSUME NEW S \in SUBSET Nat, S # {}, NEW b \in Nat, \A n \in S : n <= b
  PROVE  Max(S) \in S /\ \A n \in S : n <= Max(S)
<1> DEFINE B == {m \in Nat : \A n \in S : n <= m}
<1>1. B \in SUBSET Nat /\ B # {}
  OBVIOUS
<1>2. Min(B) \in B /\ \A m \in B : Min(B) <= m
  BY <1>1, MinIs
<1>3. Min(B) \in S
  <2>1. SUFFICES ASSUME Min(B) \notin S PROVE FALSE
    OBVIOUS
  <2>2. PICK n \in S : TRUE
    OBVIOUS
  <2>3. Min(B) \in Nat /\ n <= Min(B) /\ n # Min(B) /\ n \in Nat
    BY <1>2, <2>1
  <2>4. Min(B) - 1 \in Nat
    BY <2>3
  <2>5. \A k \in S : k <= Min(B) - 1
    <3>1. ASSUME NEW k \in S PROVE k <= Min(B) - 1
      <4>1. k \in Nat /\ k <= Min(B) /\ k # Min(B)
        BY <1>2, <2>1
      <4>2. QED
        BY <4>1, <2>3
    <3>2. QED
      BY <3>1
  <2>6. Min(B) - 1 \in B
    BY <2>4, <2>5
  <2>7. QED
    BY <1>2, <2>3, <2>6
<1>4. \A n \in S : n <= Min(B)
  BY <1>2
<1> HIDE DEF B
<1>5. \E x \in S : \A y \in S : x >= y
  BY <1>3, <1>4
<1>6. Max(S) \in S /\ \A y \in S : Max(S) >= y
  BY <1>5 DEF Max
<1>7. QED
  BY <1>6

\* Induction: a set with 0 and the successor of each of its numbers has them all.
LEMMA SetInduction ==
  ASSUME NEW S, 0 \in S, \A n \in Nat : n \in S => n + 1 \in S
  PROVE  \A n \in Nat : n \in S
<1> DEFINE T == Nat \ S
<1>1. SUFFICES ASSUME T # {} PROVE FALSE
  OBVIOUS
<1>2. PICK n \in T : \A m \in T : ~ (<<m, n>> \in Smaller)
  BY <1>1, SmallerIsWellFounded, WFMin
<1>3. n - 1 \in Nat /\ n - 1 \in S
  <2>1. n \in Nat /\ n # 0
    OBVIOUS
  <2>2. n - 1 \in Nat /\ n - 1 < n
    BY <2>1
  <2>3. n - 1 \notin T
    BY <1>2, <2>1, <2>2 DEF Smaller
  <2>4. QED
    BY <2>2, <2>3
<1>4. QED
  BY <1>2, <1>3

(***************************************************************************)
(* Names                                                                   *)
(***************************************************************************)

Comp == Nat \X Nat \X BOOLEAN
Key(c) == <<c[1], c[2]>>
Agree(m, n, k) == \A i \in 1..k : Key(m[i]) = Key(n[i])

\* What a sequence is made of.
LEMMA SeqFacts ==
  ASSUME NEW S, NEW s \in Seq(S)
  PROVE  /\ Len(s) \in Nat /\ DOMAIN s = 1..Len(s) /\ s \in [1..Len(s) -> S]
         /\ \A i \in 1..Len(s) : s[i] \in S /\ s[i] \in ToSet(s)
         /\ \A x \in ToSet(s) : \E i \in 1..Len(s) : s[i] = x
         /\ ToSet(s) \subseteq S
         /\ s = <<>> <=> Len(s) = 0
  BY LenProperties, EmptySeq DEF ToSet

LEMMA NameIs ==
  ASSUME NEW n
  PROVE  n \in Name <=> n \in Seq(Comp) /\ Len(n) \in Nat /\ Len(n) >= 1
<1>1. ASSUME n \in Seq(Comp) PROVE Len(n) \in Nat /\ (n = <<>> <=> Len(n) = 0)
  BY <1>1, SeqFacts
<1>2. QED
  BY <1>1 DEF Name, Comp

LEMMA CompIs ==
  ASSUME NEW c \in Comp
  PROVE  c[1] \in Nat /\ c[2] \in Nat /\ c[3] \in BOOLEAN /\ c = <<c[1], c[2], c[3]>>
  BY DEF Comp

\* Two names are one when their components are, regardless of case.
LEMMA FoldIs ==
  ASSUME NEW m \in Seq(Comp), NEW n \in Seq(Comp)
  PROVE  Fold(m) = Fold(n) <=> Len(m) = Len(n) /\ Agree(m, n, Len(m))
<1>1. Len(m) \in Nat /\ Len(n) \in Nat /\ DOMAIN m = 1..Len(m) /\ DOMAIN n = 1..Len(n)
  BY SeqFacts
<1>2. ASSUME Fold(m) = Fold(n) PROVE Len(m) = Len(n) /\ Agree(m, n, Len(m))
  <2>1. DOMAIN Fold(m) = 1..Len(m) /\ DOMAIN Fold(n) = 1..Len(n)
    BY <1>1 DEF Fold
  <2>2. 1..Len(m) = 1..Len(n)
    BY <1>2, <2>1
  <2>3. Len(m) = Len(n)
    <3>1. CASE Len(m) < Len(n)
      <4>1. Len(n) \in 1..Len(n) /\ Len(n) \notin 1..Len(m)
        BY <1>1, <3>1
      <4>2. QED
        BY <2>2, <4>1
    <3>2. CASE Len(n) < Len(m)
      <4>1. Len(m) \in 1..Len(m) /\ Len(m) \notin 1..Len(n)
        BY <1>1, <3>2
      <4>2. QED
        BY <2>2, <4>1
    <3>3. Len(m) \in Nat /\ Len(n) \in Nat
      BY <1>1
    <3>4. QED
      BY <3>1, <3>2, <3>3
  <2>4. ASSUME NEW i \in 1..Len(m) PROVE Key(m[i]) = Key(n[i])
    <3>1. Fold(m)[i] = Key(m[i]) /\ Fold(n)[i] = Key(n[i])
      BY <1>1, <2>3 DEF Fold, Key
    <3>2. QED
      BY <3>1, <1>2
  <2>5. QED
    BY <2>3, <2>4 DEF Agree
<1>3. ASSUME Len(m) = Len(n), Agree(m, n, Len(m)) PROVE Fold(m) = Fold(n)
  <2>1. DOMAIN m = DOMAIN n
    BY <1>1, <1>3
  <2>2. \A i \in DOMAIN m : <<m[i][1], m[i][2]>> = <<n[i][1], n[i][2]>>
    BY <1>1, <1>3 DEF Agree, Key
  <2>3. QED
    BY <2>1, <2>2 DEF Fold
<1>4. QED
  BY <1>2, <1>3

LEMMA PrefixIs ==
  ASSUME NEW n \in Seq(Comp), NEW k \in 0..Len(n)
  PROVE  /\ SubSeq(n, 1, k) \in Seq(Comp) /\ Len(SubSeq(n, 1, k)) = k
         /\ \A i \in 1..k : SubSeq(n, 1, k)[i] = n[i]
<1>1. Len(n) \in Nat /\ \A i \in 1..k : n[i] \in Comp
  BY SeqFacts
<1>2. k \in Int
  BY <1>1
<1>3. /\ SubSeq(n, 1, k) \in Seq(Comp) /\ Len(SubSeq(n, 1, k)) = IF 1 <= k THEN k - 1 + 1 ELSE 0
      /\ \A i \in 1..(k - 1 + 1) : SubSeq(n, 1, k)[i] = n[1 + i - 1]
  BY <1>1, <1>2, SubSeqProperties
<1>4. QED
  BY <1>1, <1>3

LEMMA PrefixIsName ==
  ASSUME NEW n \in Name, NEW k \in 1..Len(n)
  PROVE  SubSeq(n, 1, k) \in Name /\ Len(SubSeq(n, 1, k)) = k
<1>1. n \in Seq(Comp) /\ k \in 0..Len(n) /\ Len(n) \in Nat
  BY NameIs
<1> DEFINE q == SubSeq(n, 1, k)
<1>2. q \in Seq(Comp) /\ Len(q) = k
  BY <1>1, PrefixIs
<1>3. k \in Nat /\ k >= 1
  BY <1>1
<1> HIDE DEF q
<1>4. q \in Name
  BY <1>2, <1>3, NameIs
<1>5. QED
  BY <1>2, <1>4 DEF q

LEMMA FrontIs ==
  ASSUME NEW n \in Name
  PROVE  /\ Front(n) = SubSeq(n, 1, Len(n) - 1)
         /\ Front(n) \in Seq(Comp) /\ Len(Front(n)) = Len(n) - 1
         /\ \A i \in 1..(Len(n) - 1) : Front(n)[i] = n[i]
         /\ Len(n) > 1 => Front(n) \in Name
<1>1. n \in Seq(Comp) /\ Len(n) \in Nat /\ Len(n) - 1 \in 0..Len(n)
  BY NameIs
<1>2. Front(n) = SubSeq(n, 1, Len(n) - 1)
  BY DEF Front
<1>3. /\ Front(n) \in Seq(Comp) /\ Len(Front(n)) = Len(n) - 1
      /\ \A i \in 1..(Len(n) - 1) : Front(n)[i] = n[i]
  BY <1>1, <1>2, PrefixIs
<1>4. ASSUME Len(n) > 1 PROVE Front(n) \in Name
  <2>1. Len(Front(n)) \in Nat /\ Len(Front(n)) >= 1
    BY <1>1, <1>3, <1>4
  <2>2. QED
    BY <1>3, <2>1, NameIs
<1>5. QED
  BY <1>2, <1>3, <1>4

LEMMA BelowIs ==
  ASSUME NEW n \in Seq(Comp), NEW p \in Seq(Comp)
  PROVE  IsBelow(n, p) <=> Len(n) > Len(p) /\ Agree(n, p, Len(p))
<1>1. Len(n) \in Nat /\ Len(p) \in Nat
  BY SeqFacts
<1>2. CASE Len(n) > Len(p)
  <2>1. Len(p) \in 0..Len(n)
    BY <1>1, <1>2
  <2> DEFINE q == SubSeq(n, 1, Len(p))
  <2>2. q \in Seq(Comp) /\ Len(q) = Len(p) /\ \A i \in 1..Len(p) : q[i] = n[i]
    BY <2>1, PrefixIs
  <2> HIDE DEF q
  <2>3. Fold(q) = Fold(p) <=> Agree(q, p, Len(p))
    BY <2>2, FoldIs
  <2>4. Agree(q, p, Len(p)) <=> Agree(n, p, Len(p))
    BY <2>2 DEF Agree
  <2>5. QED
    BY <1>2, <2>3, <2>4 DEF IsBelow, q
<1>3. CASE ~(Len(n) > Len(p))
  BY <1>3 DEF IsBelow
<1>4. QED
  BY <1>2, <1>3

LEMMA JoinIs ==
  ASSUME NEW p \in Seq(Comp), NEW n \in Seq(Comp), NEW k \in 0..Len(n)
  PROVE  /\ p \o SubSeq(n, k + 1, Len(n)) \in Seq(Comp)
         /\ Len(p \o SubSeq(n, k + 1, Len(n))) = Len(p) + Len(n) - k
         /\ \A i \in 1..(Len(p) + Len(n) - k) :
              (p \o SubSeq(n, k + 1, Len(n)))[i] = IF i <= Len(p) THEN p[i] ELSE n[i - Len(p) + k]
<1> DEFINE r == SubSeq(n, k + 1, Len(n))
<1>1. Len(n) \in Nat /\ Len(p) \in Nat /\ k \in Nat /\ \A i \in (k + 1)..Len(n) : n[i] \in Comp
  BY SeqFacts
<1>2. k + 1 \in Int /\ Len(n) \in Int
  BY <1>1
<1>3. /\ r \in Seq(Comp) /\ Len(r) = IF k + 1 <= Len(n) THEN Len(n) - (k + 1) + 1 ELSE 0
      /\ \A i \in 1..(Len(n) - (k + 1) + 1) : r[i] = n[(k + 1) + i - 1]
  BY <1>1, <1>2, SubSeqProperties
<1> HIDE DEF r
<1>4. Len(r) = Len(n) - k
  <2>1. k <= Len(n)
    BY <1>1
  <2>2. CASE k + 1 <= Len(n)
    BY <1>1, <1>3, <2>2
  <2>3. CASE ~(k + 1 <= Len(n))
    BY <1>1, <1>3, <2>1, <2>3
  <2>4. QED
    BY <2>2, <2>3
<1>5. /\ p \o r \in Seq(Comp) /\ Len(p \o r) = Len(p) + Len(r)
      /\ \A i \in 1..(Len(p) + Len(r)) : (p \o r)[i] = IF i <= Len(p) THEN p[i] ELSE r[i - Len(p)]
  BY <1>3, ConcatProperties
<1>6. Len(p) + Len(r) = Len(p) + Len(n) - k
  BY <1>1, <1>4
<1>7. ASSUME NEW i \in 1..(Len(p) + Len(n) - k)
      PROVE  (p \o r)[i] = IF i <= Len(p) THEN p[i] ELSE n[i - Len(p) + k]
  <2>1. CASE i <= Len(p)
    BY <1>5, <1>6, <2>1
  <2>2. CASE ~(i <= Len(p))
    <3>1. i - Len(p) \in 1..(Len(n) - (k + 1) + 1) /\ (k + 1) + (i - Len(p)) - 1 = i - Len(p) + k
      BY <1>1, <2>2
    <3>2. r[i - Len(p)] = n[i - Len(p) + k]
      BY <1>3, <3>1
    <3>3. (p \o r)[i] = r[i - Len(p)]
      BY <1>5, <1>6, <2>2
    <3>4. QED
      BY <2>2, <3>2, <3>3
  <2>3. QED
    BY <2>1, <2>2
<1>8. QED
  BY <1>5, <1>6, <1>7 DEF r

\* A "+" more at the end.
LEMMA SuffixIs ==
  ASSUME NEW n \in Name, NEW k \in Nat
  PROVE  /\ add_suffix(n, k) \in Name /\ Len(add_suffix(n, k)) = Len(n)
         /\ \A i \in 1..(Len(n) - 1) : add_suffix(n, k)[i] = n[i]
         /\ add_suffix(n, k)[Len(n)] = <<n[Len(n)][1], n[Len(n)][2] + k, n[Len(n)][3]>>
<1>1. n \in Seq(Comp) /\ Len(n) \in Nat /\ Len(n) >= 1
  BY NameIs
<1> DEFINE e == [n[Len(n)] EXCEPT ![2] = @ + k]
<1>2. n[Len(n)] \in Comp /\ Len(n) \in 1..Len(n) /\ n \in [1..Len(n) -> Comp]
  BY <1>1, SeqFacts
<1>3. e = <<n[Len(n)][1], n[Len(n)][2] + k, n[Len(n)][3]>>
  BY <1>2 DEF Comp
<1>4. e \in Comp
  BY <1>2, <1>3 DEF Comp
<1> HIDE DEF e
<1>5. [n EXCEPT ![Len(n)] = e] \in Seq(Comp) /\ Len([n EXCEPT ![Len(n)] = e]) = Len(n)
      /\ \A j \in 1..Len(n) : [n EXCEPT ![Len(n)] = e][j] = IF j = Len(n) THEN e ELSE n[j]
  BY <1>1, <1>2, <1>4, ExceptSeq
<1>6. add_suffix(n, k) = [n EXCEPT ![Len(n)] = e]
  BY <1>1, <1>2 DEF add_suffix, e
<1>7. \A i \in 1..(Len(n) - 1) : i \in 1..Len(n) /\ i # Len(n)
  BY <1>1
<1>8. QED
  BY <1>1, <1>2, <1>3, <1>5, <1>6, <1>7, NameIs

(***************************************************************************)
(* The order of the names                                                  *)
(***************************************************************************)

LEMMA FoldIsSeq ==
  ASSUME NEW n \in Seq(Comp)
  PROVE  /\ Fold(n) \in Seq(Nat \X Nat) /\ Len(Fold(n)) = Len(n)
         /\ \A i \in 1..Len(n) : Fold(n)[i] = Key(n[i])
<1>1. Len(n) \in Nat /\ DOMAIN n = 1..Len(n) /\ \A i \in 1..Len(n) : n[i] \in Comp
  BY SeqFacts
<1>2. \A i \in 1..Len(n) : Key(n[i]) \in Nat \X Nat
  BY <1>1 DEF Comp, Key
<1>3. Fold(n) = [i \in 1..Len(n) |-> Key(n[i])]
  BY <1>1 DEF Fold, Key
<1>4. Fold(n) \in [1..Len(n) -> Nat \X Nat]
  BY <1>2, <1>3
<1>5. Fold(n) \in Seq(Nat \X Nat)
  BY <1>1, <1>4
<1>6. DOMAIN Fold(n) = 1..Len(n)
  BY <1>3
<1>7. Len(Fold(n)) = Len(n)
  BY <1>1, <1>5, <1>6
<1>8. QED
  BY <1>3, <1>5, <1>7

KeyLess(c, d) == c[1] < d[1] \/ (c[1] = d[1] /\ c[2] < d[2])
Sooner(m, n) ==
    \/ Len(n) > Len(m) /\ Agree(m, n, Len(m))
    \/ \E k \in 1..Len(m) : k <= Len(n) /\ Agree(m, n, k - 1) /\ KeyLess(m[k], n[k])

LEMMA PrefixEqual ==
  ASSUME NEW S, NEW a \in Seq(S), NEW b \in Seq(S), NEW j \in Nat, j <= Len(a), j <= Len(b)
  PROVE  SubSeq(a, 1, j) = SubSeq(b, 1, j) <=> \A i \in 1..j : a[i] = b[i]
<1>1. Len(a) \in Nat /\ Len(b) \in Nat /\ (\A i \in 1..j : a[i] \in S) /\ (\A i \in 1..j : b[i] \in S)
  BY SeqFacts
<1>2. j \in Int /\ 1 \in Int
  OBVIOUS
<1> DEFINE p == SubSeq(a, 1, j)
           q == SubSeq(b, 1, j)
<1>3. /\ p \in Seq(S) /\ Len(p) = IF 1 <= j THEN j - 1 + 1 ELSE 0
      /\ \A i \in 1..(j - 1 + 1) : p[i] = a[1 + i - 1]
  BY ONLY <1>1, <1>2, SubSeqProperties
<1>4. /\ q \in Seq(S) /\ Len(q) = IF 1 <= j THEN j - 1 + 1 ELSE 0
      /\ \A i \in 1..(j - 1 + 1) : q[i] = b[1 + i - 1]
  BY ONLY <1>1, <1>2, SubSeqProperties
<1> HIDE DEF p, q
<1>5. Len(p) = j /\ Len(q) = j /\ \A i \in 1..j : p[i] = a[i] /\ q[i] = b[i]
  BY <1>3, <1>4
<1>6. ASSUME \A i \in 1..j : a[i] = b[i] PROVE p = q
  <2>1. Len(p) = Len(q) /\ \A i \in 1..Len(p) : p[i] = q[i]
    BY <1>5, <1>6
  <2>2. QED
    BY ONLY <1>3, <1>4, <2>1, SeqEqual
<1>7. ASSUME p = q PROVE \A i \in 1..j : a[i] = b[i]
  BY <1>5, <1>7
<1>8. QED
  BY <1>6, <1>7 DEF p, q

LEMMA BeforeIs ==
  ASSUME NEW m \in Seq(Comp), NEW n \in Seq(Comp)
  PROVE  Before(m, n) <=> Sooner(m, n)
<1>1. Len(m) \in Nat /\ Len(n) \in Nat
  BY SeqFacts
<1> DEFINE a == Fold(m)
           b == Fold(n)
           U == 1..Min({Len(a), Len(b)})
<1>2. /\ a \in Seq(Nat \X Nat) /\ Len(a) = Len(m) /\ \A i \in 1..Len(m) : a[i] = Key(m[i])
      /\ b \in Seq(Nat \X Nat) /\ Len(b) = Len(n) /\ \A i \in 1..Len(n) : b[i] = Key(n[i])
  BY FoldIsSeq
<1> HIDE DEF a, b
<1>3. U = {k \in 1..Len(m) : k <= Len(n)}
  <2>1. Min({Len(a), Len(b)}) = IF Len(m) <= Len(n) THEN Len(m) ELSE Len(n)
    BY <1>1, <1>2, MinOfTwo
  <2>2. CASE Len(m) <= Len(n)
    BY <1>1, <2>1, <2>2
  <2>3. CASE ~(Len(m) <= Len(n))
    BY <1>1, <2>1, <2>3
  <2>4. QED
    BY <2>2, <2>3
<1> HIDE DEF U
<1>4. ASSUME NEW k \in 1..Len(m), k <= Len(n)
      PROVE  /\ SubSeq(a, 1, k - 1) = SubSeq(b, 1, k - 1) <=> Agree(m, n, k - 1)
             /\ a[k][1] = m[k][1] /\ a[k][2] = m[k][2] /\ b[k][1] = n[k][1] /\ b[k][2] = n[k][2]
  <2>1. k - 1 \in Nat /\ k - 1 <= Len(a) /\ k - 1 <= Len(b) /\ k \in 1..Len(n)
    BY <1>1, <1>2, <1>4
  <2>2. SubSeq(a, 1, k - 1) = SubSeq(b, 1, k - 1) <=> \A i \in 1..(k - 1) : a[i] = b[i]
    BY ONLY <1>2, <2>1, PrefixEqual
  <2>3. \A i \in 1..(k - 1) : i \in 1..Len(m) /\ i \in 1..Len(n)
    BY <1>1, <1>4
  <2>4. (\A i \in 1..(k - 1) : a[i] = b[i]) <=> Agree(m, n, k - 1)
    BY <1>2, <2>3 DEF Agree
  <2>5. a[k] = Key(m[k]) /\ b[k] = Key(n[k])
    BY <1>2, <1>4, <2>1
  <2>6. QED
    BY <2>2, <2>4, <2>5 DEF Key
<1>5. IsBelow(n, m) <=> Len(n) > Len(m) /\ Agree(m, n, Len(m))
  <2>1. IsBelow(n, m) <=> Len(n) > Len(m) /\ Agree(n, m, Len(m))
    BY BelowIs
  <2>2. QED
    BY <2>1 DEF Agree
<1> DEFINE First(k) == /\ SubSeq(a, 1, k - 1) = SubSeq(b, 1, k - 1)
                       /\ \/ a[k][1] < b[k][1]
                          \/ a[k][1] = b[k][1] /\ a[k][2] < b[k][2]
<1>6. Before(m, n) <=> IsBelow(n, m) \/ \E k \in U : First(k)
  BY DEF Before, U, a, b
<1>7. ASSUME NEW k \in 1..Len(m), k <= Len(n)
      PROVE  First(k) <=> Agree(m, n, k - 1) /\ KeyLess(m[k], n[k])
  BY <1>4, <1>7 DEF KeyLess
<1> HIDE DEF First
<1>8. QED
  BY <1>3, <1>5, <1>6, <1>7 DEF Sooner

LEMMA SoonerNotSelf ==
  ASSUME NEW m \in Seq(Comp)
  PROVE  ~Sooner(m, m)
<1>1. Len(m) \in Nat /\ \A k \in 1..Len(m) : m[k][1] \in Nat /\ m[k][2] \in Nat
  BY SeqFacts, CompIs
<1>2. QED
  BY <1>1 DEF Sooner, KeyLess

LEMMA KeyLessTransitive ==
  ASSUME NEW c, NEW d, NEW e,
         c[1] \in Nat, c[2] \in Nat, d[1] \in Nat, d[2] \in Nat, e[1] \in Nat, e[2] \in Nat,
         KeyLess(c, d), KeyLess(d, e)
  PROVE  KeyLess(c, e)
<1>1. ASSUME NEW c1 \in Nat, NEW c2 \in Nat, NEW d1 \in Nat, NEW d2 \in Nat, NEW e1 \in Nat, NEW e2 \in Nat,
             c1 < d1 \/ (c1 = d1 /\ c2 < d2), d1 < e1 \/ (d1 = e1 /\ d2 < e2)
      PROVE  c1 < e1 \/ (c1 = e1 /\ c2 < e2)
  BY <1>1
<1>2. c[1] < d[1] \/ (c[1] = d[1] /\ c[2] < d[2])
  BY DEF KeyLess
<1>3. d[1] < e[1] \/ (d[1] = e[1] /\ d[2] < e[2])
  BY DEF KeyLess
<1>4. c[1] < e[1] \/ (c[1] = e[1] /\ c[2] < e[2])
  BY <1>1, <1>2, <1>3
<1>5. QED
  BY <1>4 DEF KeyLess

LEMMA SoonerTransitive ==
  ASSUME NEW m \in Seq(Comp), NEW n \in Seq(Comp), NEW o \in Seq(Comp), Sooner(m, n), Sooner(n, o)
  PROVE  Sooner(m, o)
<1>1. /\ Len(m) \in Nat /\ Len(n) \in Nat /\ Len(o) \in Nat
      /\ \A k \in 1..Len(m) : m[k][1] \in Nat /\ m[k][2] \in Nat
      /\ \A k \in 1..Len(n) : n[k][1] \in Nat /\ n[k][2] \in Nat
      /\ \A k \in 1..Len(o) : o[k][1] \in Nat /\ o[k][2] \in Nat
  BY SeqFacts, CompIs
<1>2. ASSUME NEW j \in Int, NEW k \in Int, Agree(m, n, j), Agree(n, o, k)
      PROVE  /\ j <= k => Agree(m, o, j)
             /\ k <= j => Agree(m, o, k)
  <2>1. ASSUME j <= k PROVE Agree(m, o, j)
    <3>1. \A i \in 1..j : i \in 1..k
      BY <2>1
    <3>2. QED
      BY <1>2, <3>1 DEF Agree
  <2>2. ASSUME k <= j PROVE Agree(m, o, k)
    <3>1. \A i \in 1..k : i \in 1..j
      BY <2>2
    <3>2. QED
      BY <1>2, <3>1 DEF Agree
  <2>3. QED
    BY <2>1, <2>2
<1>3. CASE Len(n) > Len(m) /\ Agree(m, n, Len(m))
  <2>1. CASE Len(o) > Len(n) /\ Agree(n, o, Len(n))
    <3>1. Agree(m, o, Len(m)) /\ Len(o) > Len(m)
      BY <1>1, <1>2, <1>3, <2>1
    <3>2. QED
      BY <3>1 DEF Sooner
  <2>2. ASSUME NEW k \in 1..Len(n), k <= Len(o), Agree(n, o, k - 1), KeyLess(n[k], o[k])
        PROVE  Sooner(m, o)
    <3>1. CASE k > Len(m)
      <4>1. Len(m) <= k - 1 /\ k - 1 \in Int /\ Len(m) \in Int
        BY <1>1, <3>1
      <4>2. Agree(m, o, Len(m)) /\ Len(o) > Len(m)
        BY <1>1, <1>2, <1>3, <2>2, <3>1, <4>1
      <4>3. QED
        BY <4>2 DEF Sooner
    <3>2. CASE ~(k > Len(m))
      <4>1. k - 1 <= Len(m) /\ k - 1 \in Int /\ Len(m) \in Int /\ k \in 1..Len(m)
        BY <1>1, <3>2
      <4>2. Agree(m, o, k - 1)
        BY <1>2, <1>3, <2>2, <4>1
      <4>3. m[k][1] = n[k][1] /\ m[k][2] = n[k][2]
        BY <1>3, <4>1 DEF Agree, Key
      <4>4. KeyLess(m[k], o[k])
        BY <2>2, <4>3 DEF KeyLess
      <4>5. QED
        BY <2>2, <4>1, <4>2, <4>4 DEF Sooner
    <3>3. QED
      BY <3>1, <3>2
  <2>3. QED
    BY <2>1, <2>2 DEF Sooner
<1>4. ASSUME NEW j \in 1..Len(m), j <= Len(n), Agree(m, n, j - 1), KeyLess(m[j], n[j])
      PROVE  Sooner(m, o)
  <2>1. CASE Len(o) > Len(n) /\ Agree(n, o, Len(n))
    <3>1. j - 1 <= Len(n) /\ j - 1 \in Int /\ Len(n) \in Int /\ j \in 1..Len(n) /\ j <= Len(o)
      BY <1>1, <1>4, <2>1
    <3>2. Agree(m, o, j - 1)
      BY <1>2, <1>4, <2>1, <3>1
    <3>3. o[j][1] = n[j][1] /\ o[j][2] = n[j][2]
      BY <2>1, <3>1 DEF Agree, Key
    <3>4. KeyLess(m[j], o[j])
      BY <1>4, <3>3 DEF KeyLess
    <3>5. QED
      BY <3>1, <3>2, <3>4 DEF Sooner
  <2>2. ASSUME NEW k \in 1..Len(n), k <= Len(o), Agree(n, o, k - 1), KeyLess(n[k], o[k])
        PROVE  Sooner(m, o)
    <3>1. j - 1 \in Int /\ k - 1 \in Int /\ j \in 1..Len(n) /\ j \in Nat /\ k \in Nat /\ k \in 1..Len(o)
      BY <1>1, <1>4, <2>2
    <3>2. CASE j < k
      <4>1. j - 1 <= k - 1 /\ j \in 1..(k - 1) /\ j <= Len(o)
        BY <1>1, <2>2, <3>1, <3>2
      <4>2. Agree(m, o, j - 1)
        BY <1>2, <1>4, <2>2, <3>1, <4>1
      <4>3. o[j][1] = n[j][1] /\ o[j][2] = n[j][2]
        BY <2>2, <4>1 DEF Agree, Key
      <4>4. KeyLess(m[j], o[j])
        BY <1>4, <4>3 DEF KeyLess
      <4>5. QED
        BY <4>1, <4>2, <4>4 DEF Sooner
    <3>3. CASE k < j
      <4>1. k - 1 <= j - 1 /\ k \in 1..(j - 1) /\ k \in 1..Len(m)
        BY <1>1, <1>4, <3>1, <3>3
      <4>2. Agree(m, o, k - 1)
        BY <1>2, <1>4, <2>2, <3>1, <4>1
      <4>3. m[k][1] = n[k][1] /\ m[k][2] = n[k][2]
        BY <1>4, <4>1 DEF Agree, Key
      <4>4. KeyLess(m[k], o[k])
        BY <2>2, <4>3 DEF KeyLess
      <4>5. QED
        BY <2>2, <4>1, <4>2, <4>4 DEF Sooner
    <3>4. CASE j = k
      <4>1. Agree(m, o, k - 1)
        BY <1>2, <1>4, <2>2, <3>1, <3>4
      <4>2. KeyLess(m[k], o[k])
        <5>1. /\ m[k][1] \in Nat /\ m[k][2] \in Nat /\ n[k][1] \in Nat /\ n[k][2] \in Nat
              /\ o[k][1] \in Nat /\ o[k][2] \in Nat /\ KeyLess(m[k], n[k]) /\ KeyLess(n[k], o[k])
          BY <1>1, <1>4, <2>2, <3>1, <3>4
        <5>2. QED
          BY ONLY <5>1, KeyLessTransitive
      <4>3. k \in 1..Len(m)
        BY <1>4, <3>4
      <4>4. QED
        BY <2>2, <4>1, <4>2, <4>3 DEF Sooner
    <3>5. QED
      BY <3>1, <3>2, <3>3, <3>4
  <2>3. QED
    BY <2>1, <2>2 DEF Sooner
<1>5. QED
  BY <1>3, <1>4 DEF Sooner

LEMMA SoonerTotal ==
  ASSUME NEW m \in Seq(Comp), NEW n \in Seq(Comp), Fold(m) # Fold(n)
  PROVE  Sooner(m, n) \/ Sooner(n, m)
<1>1. /\ Len(m) \in Nat /\ Len(n) \in Nat
      /\ \A k \in 1..Len(m) : m[k][1] \in Nat /\ m[k][2] \in Nat
      /\ \A k \in 1..Len(n) : n[k][1] \in Nat /\ n[k][2] \in Nat
  BY SeqFacts, CompIs
<1>2. ~(Len(m) = Len(n) /\ Agree(m, n, Len(m)))
  BY FoldIs
<1> DEFINE D == {i \in 1..Len(m) : i <= Len(n) /\ Key(m[i]) # Key(n[i])}
<1>3. CASE D = {}
  <2>1. CASE Len(m) <= Len(n)
    <3>1. \A i \in 1..Len(m) : i <= Len(n) /\ i \notin D
      BY <1>1, <1>3, <2>1
    <3>2. Agree(m, n, Len(m))
      BY <3>1 DEF Agree
    <3>3. Len(n) > Len(m)
      BY <1>1, <1>2, <2>1, <3>2
    <3>4. QED
      BY <3>2, <3>3 DEF Sooner
  <2>2. CASE ~(Len(m) <= Len(n))
    <3>1. \A i \in 1..Len(n) : i \in 1..Len(m) /\ i <= Len(n) /\ i \notin D
      BY <1>1, <1>3, <2>2
    <3>2. Agree(n, m, Len(n))
      BY <3>1 DEF Agree
    <3>3. Len(m) > Len(n)
      BY <1>1, <2>2
    <3>4. QED
      BY <3>2, <3>3 DEF Sooner
  <2>3. QED
    BY <2>1, <2>2
<1>4. CASE D # {}
  <2>1. D \in SUBSET Nat
    BY <1>1
  <2> DEFINE k == Min(D)
  <2>2. k \in D /\ \A i \in D : k <= i
    BY <1>4, <2>1, MinIs
  <2> HIDE DEF k
  <2>3. k \in 1..Len(m) /\ k <= Len(n) /\ k \in 1..Len(n) /\ Key(m[k]) # Key(n[k])
    BY <1>1, <2>2
  <2>4. \A i \in 1..(k - 1) : i \in 1..Len(m) /\ i <= Len(n) /\ ~(k <= i)
    BY <1>1, <2>3
  <2>5. \A i \in 1..(k - 1) : Key(m[i]) = Key(n[i])
    BY <2>2, <2>4
  <2>6. Agree(m, n, k - 1) /\ Agree(n, m, k - 1)
    BY <2>5 DEF Agree
  <2>7. KeyLess(m[k], n[k]) \/ KeyLess(n[k], m[k])
    <3>1. m[k][1] \in Nat /\ m[k][2] \in Nat /\ n[k][1] \in Nat /\ n[k][2] \in Nat
      BY <1>1, <2>3
    <3>2. ~(m[k][1] = n[k][1] /\ m[k][2] = n[k][2])
      BY <2>3 DEF Key
    <3>3. QED
      BY <3>1, <3>2 DEF KeyLess
  <2>8. k <= Len(m)
    BY <1>1, <2>3
  <2>9. QED
    BY <2>3, <2>6, <2>7, <2>8 DEF Sooner
<1>5. QED
  BY <1>3, <1>4

(***************************************************************************)
(* Sorting by counting those that come before                              *)
(***************************************************************************)

\* In a strict total order on a finite set, for every i one element has i others before it.
LEMMA RankIs ==
  ASSUME NEW S, IsFiniteSet(S), NEW R,
         \A d \in S : <<d, d>> \notin R,
         \A d, e, g \in S : <<d, e>> \in R /\ <<e, g>> \in R => <<d, g>> \in R,
         \A d, e \in S : d # e => <<d, e>> \in R \/ <<e, d>> \in R
  PROVE  /\ Cardinality(S) \in Nat
         /\ \A i \in 1..Cardinality(S) :
              \E d \in S : Cardinality({e \in S : <<e, d>> \in R}) = i - 1
         /\ \A d \in S : Cardinality({e \in S : <<e, d>> \in R}) + 1 \in 1..Cardinality(S)
         /\ \A d, g \in S : Cardinality({e \in S : <<e, d>> \in R}) =
                            Cardinality({e \in S : <<e, g>> \in R}) => d = g
<1> DEFINE B(d) == {e \in S : <<e, d>> \in R}
           N == Cardinality(S)
           f == [d \in S |-> Cardinality(B(d)) + 1]
<1>1. N \in Nat
  BY FS_CardinalityType
<1>2. ASSUME NEW d \in S PROVE IsFiniteSet(B(d)) /\ Cardinality(B(d)) \in Nat /\ Cardinality(B(d)) < N
  <2>1. B(d) \in SUBSET S
    OBVIOUS
  <2>2. IsFiniteSet(B(d)) /\ Cardinality(B(d)) <= N /\ (Cardinality(S) = Cardinality(B(d)) => S = B(d))
    BY <2>1, FS_Subset
  <2>3. d \notin B(d)
    OBVIOUS
  <2>4. Cardinality(B(d)) \in Nat
    BY <2>2, FS_CardinalityType
  <2> HIDE DEF B
  <2>5. QED
    BY <1>1, <2>2, <2>3, <2>4
<1>3. ASSUME NEW d \in S, NEW g \in S, <<d, g>> \in R PROVE Cardinality(B(d)) < Cardinality(B(g))
  <2>1. B(d) \subseteq B(g) /\ d \in B(g) /\ d \notin B(d)
    BY <1>3
  <2>2. Cardinality(B(d)) <= Cardinality(B(g)) /\ (Cardinality(B(g)) = Cardinality(B(d)) => B(g) = B(d))
    BY <1>2, <2>1, FS_Subset
  <2>3. Cardinality(B(d)) \in Nat /\ Cardinality(B(g)) \in Nat
    BY <1>2
  <2> HIDE DEF B
  <2>4. QED
    BY <2>1, <2>2, <2>3
<1>4. ASSUME NEW d \in S, NEW g \in S, Cardinality(B(d)) = Cardinality(B(g)) PROVE d = g
  <2>1. SUFFICES ASSUME d # g PROVE FALSE
    OBVIOUS
  <2>2. <<d, g>> \in R \/ <<g, d>> \in R
    BY <2>1
  <2>3. Cardinality(B(d)) \in Nat /\ Cardinality(B(g)) \in Nat
    BY <1>2
  <2>4. Cardinality(B(d)) < Cardinality(B(g)) \/ Cardinality(B(g)) < Cardinality(B(d))
    BY <1>3, <2>2
  <2> HIDE DEF B
  <2>5. QED
    BY <1>4, <2>3, <2>4
<1> HIDE DEF B
<1>5. \A d \in S : f[d] \in 1..N
  BY <1>1, <1>2
<1>6. f \in [S -> 1..N]
  BY <1>5
<1>7. \A d, g \in S : f[d] = f[g] => d = g
  <2>1. ASSUME NEW d \in S, NEW g \in S, f[d] = f[g] PROVE d = g
    <3>1. Cardinality(B(d)) \in Nat /\ Cardinality(B(g)) \in Nat
      BY <1>2
    <3>2. Cardinality(B(d)) + 1 = Cardinality(B(g)) + 1
      BY <2>1
    <3>3. Cardinality(B(d)) = Cardinality(B(g))
      BY <3>1, <3>2
    <3>4. QED
      BY <1>4, <3>3
  <2>2. QED
    BY <2>1
<1>8. f \in Injection(S, 1..N)
  <2>1. DOMAIN f = S
    OBVIOUS
  <2> HIDE DEF f
  <2>2. QED
    BY <1>6, <1>7, <2>1 DEF Injection, IsInjective
<1>9. IsFiniteSet(1..N) /\ Cardinality(1..N) = N
  <2>1. IsFiniteSet(1..N) /\ Cardinality(1..N) = IF 1 > N THEN 0 ELSE N - 1 + 1
    BY <1>1, FS_Interval
  <2>2. CASE 1 > N
    BY <1>1, <2>1, <2>2
  <2>3. CASE ~(1 > N)
    BY <1>1, <2>1, <2>3
  <2>4. QED
    BY <2>2, <2>3
<1>10. f \in Surjection(S, 1..N)
  <2> HIDE DEF f
  <2>1. Cardinality(S) = Cardinality(1..N)
    BY <1>9
  <2>2. Cardinality(S) = Cardinality(1..N) <=> f \in Surjection(S, 1..N)
    BY <1>8, <1>9, FS_Injection
  <2>3. QED
    BY <2>1, <2>2
<1>11. ASSUME NEW i \in 1..N PROVE \E d \in S : Cardinality(B(d)) = i - 1
  <2>1. \E d \in S : f[d] = i
    <3> HIDE DEF f
    <3>1. QED
      BY <1>10 DEF Surjection
  <2>2. PICK d \in S : Cardinality(B(d)) + 1 = i
    BY <2>1
  <2>3. Cardinality(B(d)) \in Nat
    BY <1>2
  <2>4. QED
    BY <2>2, <2>3
<1>12. \A d \in S : Cardinality(B(d)) + 1 \in 1..N
  BY <1>5
<1>13. QED
  BY <1>1, <1>4, <1>11, <1>12 DEF B

\* A table: decks with names, and no two of one name.
Table(T) ==
    /\ T = [d \in DOMAIN T |-> T[d]]
    /\ DOMAIN T \subseteq Nat \ {0}
    /\ IsFiniteSet(DOMAIN T)
    /\ \A d \in DOMAIN T : T[d] \in [name : Name, filtered : BOOLEAN]
    /\ \A d, e \in DOMAIN T : Fold(T[d].name) = Fold(T[e].name) => d = e

Lists(s, ids) ==
    /\ s \in Seq(ids)
    /\ \A d \in ids : \E i \in 1..Len(s) : s[i] = d

\* sorted() lists the decks, each of them.
LEMMA SortedLists ==
  ASSUME NEW T, Table(T), NEW ids \in SUBSET DOMAIN T
  PROVE  Lists(sorted(T, ids), ids)
<1> DEFINE R == {p \in ids \X ids : Before(T[p[1]].name, T[p[2]].name)}
           N == Cardinality(ids)
<1>1. \A d \in ids : T[d].name \in Seq(Comp)
  BY NameIs DEF Table
<1>2. IsFiniteSet(ids)
  BY FS_Subset DEF Table
<1>3. \A d, e \in ids : <<d, e>> \in R <=> Sooner(T[d].name, T[e].name)
  BY <1>1, BeforeIs
<1>4. \A e, d \in ids : <<e, d>> \in R <=> Before(T[e].name, T[d].name)
  OBVIOUS
<1> HIDE DEF R
<1>5. \A d \in ids : <<d, d>> \notin R
  BY <1>1, <1>3, SoonerNotSelf
<1>6. \A d, e, g \in ids : <<d, e>> \in R /\ <<e, g>> \in R => <<d, g>> \in R
  BY <1>1, <1>3, SoonerTransitive
<1>7. \A d, e \in ids : d # e => <<d, e>> \in R \/ <<e, d>> \in R
  <2>1. ASSUME NEW d \in ids, NEW e \in ids, d # e PROVE <<d, e>> \in R \/ <<e, d>> \in R
    <3>1. Fold(T[d].name) # Fold(T[e].name)
      BY <2>1 DEF Table
    <3>2. QED
      BY <1>1, <1>3, <3>1, SoonerTotal
  <2>2. QED
    BY <2>1
<1> DEFINE rank(d) == Cardinality({e \in ids : <<e, d>> \in R})
<1>8. /\ N \in Nat
      /\ \A i \in 1..N : \E d \in ids : rank(d) = i - 1
      /\ \A d \in ids : rank(d) + 1 \in 1..N
      /\ \A d, g \in ids : rank(d) = rank(g) => d = g
  BY ONLY <1>2, <1>5, <1>6, <1>7, RankIs
<1>9. \A d \in ids : rank(d) = Cardinality({e \in ids : Before(T[e].name, T[d].name)})
  <2>1. ASSUME NEW d \in ids PROVE {e \in ids : <<e, d>> \in R} = {e \in ids : Before(T[e].name, T[d].name)}
    BY <1>4
  <2>2. QED
    BY <2>1
<1> HIDE DEF rank
<1> DEFINE s == sorted(T, ids)
<1>10. s = [i \in 1..N |-> CHOOSE d \in ids : rank(d) = i - 1]
  BY <1>9 DEF sorted
<1>11. \A i \in 1..N : s[i] \in ids /\ rank(s[i]) = i - 1
  <2>1. ASSUME NEW i \in 1..N PROVE s[i] \in ids /\ rank(s[i]) = i - 1
    <3>1. s[i] = CHOOSE d \in ids : rank(d) = i - 1
      BY <1>10
    <3>2. \E d \in ids : rank(d) = i - 1
      BY <1>8
    <3>3. QED
      BY <3>1, <3>2
  <2>2. QED
    BY <2>1
<1> HIDE DEF s
<1>12. s \in [1..N -> ids]
  BY <1>10, <1>11
<1>13. s \in Seq(ids) /\ Len(s) = N
  BY <1>8, <1>10, <1>12
<1>14. ASSUME NEW d \in ids PROVE \E i \in 1..Len(s) : s[i] = d
  <2>1. rank(d) + 1 \in 1..N
    BY <1>8
  <2>2. s[rank(d) + 1] \in ids /\ rank(s[rank(d) + 1]) = (rank(d) + 1) - 1
    BY <1>11, <2>1
  <2>3. (rank(d) + 1) - 1 = rank(d)
    <3>1. rank(d) \in Nat
      <4>1. {e \in ids : <<e, d>> \in R} \in SUBSET ids
        OBVIOUS
      <4>2. IsFiniteSet({e \in ids : <<e, d>> \in R})
        BY <1>2, <4>1, FS_Subset
      <4>3. QED
        BY <4>2, FS_CardinalityType DEF rank
    <3>2. QED
      BY <3>1
  <2>4. s[rank(d) + 1] = d
    BY <1>8, <2>2, <2>3
  <2>5. QED
    BY <1>13, <2>1, <2>4
<1>15. QED
  BY <1>13, <1>14 DEF s, Lists

(***************************************************************************)
(* A name that is free                                                     *)
(***************************************************************************)

LEMMA NoSuffix ==
  ASSUME NEW n \in Name
  PROVE  add_suffix(n, 0) = n
<1>1. n \in Seq(Comp) /\ Len(n) \in Nat /\ Len(n) >= 1 /\ n[Len(n)] \in Comp
  BY NameIs, SeqFacts
<1> DEFINE a == add_suffix(n, 0)
<1>2. /\ a \in Name /\ Len(a) = Len(n) /\ \A i \in 1..(Len(n) - 1) : a[i] = n[i]
      /\ a[Len(n)] = <<n[Len(n)][1], n[Len(n)][2] + 0, n[Len(n)][3]>>
  BY SuffixIs
<1>3. a[Len(n)] = n[Len(n)]
  BY <1>1, <1>2, CompIs
<1> HIDE DEF a
<1>4. ASSUME NEW i \in 1..Len(a) PROVE a[i] = n[i]
  <2>1. CASE i = Len(n)
    BY <1>3, <2>1
  <2>2. CASE i # Len(n)
    <3>1. i \in 1..(Len(n) - 1)
      BY <1>1, <1>2, <1>4, <2>2
    <3>2. QED
      BY <1>2, <3>1
  <2>3. QED
    BY <2>1, <2>2
<1>5. a \in Seq(Comp)
  BY <1>2, NameIs
<1>6. a = n
  BY ONLY <1>1, <1>2, <1>4, <1>5, SeqEqual
<1>7. QED
  BY <1>6 DEF a

LEMMA SuffixesDiffer ==
  ASSUME NEW n \in Name, NEW j \in Nat, NEW k \in Nat,
         Fold(add_suffix(n, j)) = Fold(add_suffix(n, k))
  PROVE  j = k
<1>1. n \in Seq(Comp) /\ Len(n) \in Nat /\ Len(n) >= 1 /\ n[Len(n)] \in Comp
  BY NameIs, SeqFacts
<1> DEFINE a == add_suffix(n, j)
           b == add_suffix(n, k)
<1>2. a \in Name /\ Len(a) = Len(n) /\ a[Len(n)] = <<n[Len(n)][1], n[Len(n)][2] + j, n[Len(n)][3]>>
  BY SuffixIs
<1>3. b \in Name /\ Len(b) = Len(n) /\ b[Len(n)] = <<n[Len(n)][1], n[Len(n)][2] + k, n[Len(n)][3]>>
  BY SuffixIs
<1> HIDE DEF a, b
<1>4. a \in Seq(Comp) /\ b \in Seq(Comp) /\ Fold(a) = Fold(b)
  BY <1>2, <1>3, NameIs DEF a, b
<1>5. Agree(a, b, Len(n))
  BY <1>2, <1>4, FoldIs
<1>6. Key(a[Len(n)]) = Key(b[Len(n)])
  BY <1>1, <1>5 DEF Agree
<1>7. n[Len(n)][2] + j = n[Len(n)][2] + k
  BY <1>2, <1>3, <1>6 DEF Key
<1>8. n[Len(n)][2] \in Nat
  BY <1>1, CompIs
<1>9. QED
  BY <1>7, <1>8

\* ensure_deck_name_unique(): the name with a number of "+", that no other deck has;
\* the name itself if it is free.
LEMMA UniqueIs ==
  ASSUME NEW T, IsFiniteSet(DOMAIN T), NEW d, NEW n \in Name
  PROVE  /\ \E k \in Nat : ensure_deck_name_unique(T, d, n) = add_suffix(n, k)
         /\ get_deck_id(T, ensure_deck_name_unique(T, d, n)) \subseteq {d}
         /\ get_deck_id(T, n) \subseteq {d} => ensure_deck_name_unique(T, d, n) = n
<1> DEFINE N == Cardinality(DOMAIN T)
           free(k) == get_deck_id(T, add_suffix(n, k)) \subseteq {d}
           S == {k \in 0..N : free(k)}
<1>1. N \in Nat
  BY FS_CardinalityType
<1>2. S # {}
  <2>1. SUFFICES ASSUME S = {} PROVE FALSE
    OBVIOUS
  <2> DEFINE f == [k \in 0..N |-> CHOOSE e \in DOMAIN T : e \in get_deck_id(T, add_suffix(n, k))]
  <2>2. ASSUME NEW k \in 0..N
        PROVE  f[k] \in DOMAIN T /\ Fold(T[f[k]].name) = Fold(add_suffix(n, k))
    <3>1. k \notin S
      BY <2>1
    <3>2. get_deck_id(T, add_suffix(n, k)) # {}
      BY <3>1
    <3>3. \E e \in DOMAIN T : e \in get_deck_id(T, add_suffix(n, k))
      BY <3>2 DEF get_deck_id
    <3>4. f[k] \in DOMAIN T /\ f[k] \in get_deck_id(T, add_suffix(n, k))
      BY <3>3
    <3> HIDE DEF f
    <3>5. QED
      BY <3>4 DEF get_deck_id
  <2>3. f \in [0..N -> DOMAIN T]
    BY <2>2
  <2> HIDE DEF f
  <2>4. IsFiniteSet(0..N) /\ Cardinality(0..N) = N + 1
    <3>1. IsFiniteSet(0..N) /\ Cardinality(0..N) = IF 0 > N THEN 0 ELSE N - 0 + 1
      BY <1>1, FS_Interval
    <3>2. ~(0 > N)
      BY <1>1
    <3>3. QED
      BY <1>1, <3>1, <3>2
  <2>5. Cardinality(DOMAIN T) < Cardinality(0..N)
    BY <1>1, <2>4
  <2>6. \E x, y \in 0..N : x # y /\ f[x] = f[y]
    BY ONLY <2>3, <2>4, <2>5, IsFiniteSet(DOMAIN T), FS_PigeonHole
  <2>7. PICK x \in 0..N, y \in 0..N : x # y /\ f[x] = f[y]
    BY <2>6
  <2>8. Fold(add_suffix(n, x)) = Fold(add_suffix(n, y))
    BY <2>2, <2>7
  <2>9. x \in Nat /\ y \in Nat
    OBVIOUS
  <2>10. QED
    BY <2>7, <2>8, <2>9, SuffixesDiffer
<1>3. S \in SUBSET Nat
  BY <1>1
<1>4. Min(S) \in S /\ \A k \in S : Min(S) <= k
  BY <1>2, <1>3, MinIs
<1>5. ensure_deck_name_unique(T, d, n) = add_suffix(n, Min(S))
  BY DEF ensure_deck_name_unique
<1>6. ASSUME get_deck_id(T, n) \subseteq {d} PROVE ensure_deck_name_unique(T, d, n) = n
  <2>1. free(0)
    BY <1>6, NoSuffix
  <2>2. 0 \in S
    BY <1>1, <2>1
  <2> HIDE DEF S
  <2>3. Min(S) \in Nat /\ Min(S) <= 0
    BY <1>3, <1>4, <2>2
  <2>4. Min(S) = 0
    BY <2>3
  <2>5. QED
    BY <1>5, <2>4, NoSuffix
<1>7. Min(S) \in Nat /\ free(Min(S))
  BY <1>3, <1>4
<1> HIDE DEF S
<1>8. QED
  BY <1>5, <1>6, <1>7

\* What a rename keeps of the name it was given.
LEMMA UniqueName ==
  ASSUME NEW T, IsFiniteSet(DOMAIN T), NEW d, NEW n \in Name
  PROVE  /\ ensure_deck_name_unique(T, d, n) \in Name
         /\ Len(ensure_deck_name_unique(T, d, n)) = Len(n)
         /\ \A i \in 1..(Len(n) - 1) : ensure_deck_name_unique(T, d, n)[i] = n[i]
         /\ ensure_deck_name_unique(T, d, n)[Len(n)][1] = n[Len(n)][1]
         /\ get_deck_id(T, ensure_deck_name_unique(T, d, n)) \subseteq {d}
<1>1. PICK k \in Nat : ensure_deck_name_unique(T, d, n) = add_suffix(n, k)
  BY UniqueIs
<1>2. get_deck_id(T, ensure_deck_name_unique(T, d, n)) \subseteq {d}
  BY UniqueIs
<1>3. /\ add_suffix(n, k) \in Name /\ Len(add_suffix(n, k)) = Len(n)
      /\ \A i \in 1..(Len(n) - 1) : add_suffix(n, k)[i] = n[i]
      /\ add_suffix(n, k)[Len(n)] = <<n[Len(n)][1], n[Len(n)][2] + k, n[Len(n)][3]>>
  BY SuffixIs
<1>4. QED
  BY <1>1, <1>2, <1>3

(***************************************************************************)
(* Ids                                                                     *)
(***************************************************************************)

\* A finite set of numbers has a bound.
LEMMA FiniteIsBounded ==
  ASSUME NEW S \in SUBSET Nat, IsFiniteSet(S)
  PROVE  \E b \in Nat : \A n \in S : n <= b
<1> DEFINE R == {p \in S \X S : p[1] < p[2]}
<1>1. CASE S = {}
  BY <1>1
<1>2. CASE S # {}
  <2>1. \A d \in S : <<d, d>> \notin R
    OBVIOUS
  <2>2. \A d, e, g \in S : <<d, e>> \in R /\ <<e, g>> \in R => <<d, g>> \in R
    OBVIOUS
  <2>3. \A d, e \in S : d # e => <<d, e>> \in R \/ <<e, d>> \in R
    OBVIOUS
  <2>4. \A d, e \in S : <<d, e>> \in R <=> d < e
    OBVIOUS
  <2> HIDE DEF R
  <2> DEFINE rank(d) == Cardinality({e \in S : <<e, d>> \in R})
             N == Cardinality(S)
  <2>101. IsFiniteSet(S)
    OBVIOUS
  <2>5. /\ N \in Nat
        /\ \A i \in 1..N : \E d \in S : rank(d) = i - 1
        /\ \A d \in S : rank(d) + 1 \in 1..N
        /\ \A d, g \in S : rank(d) = rank(g) => d = g
    BY ONLY <2>101, <2>1, <2>2, <2>3, RankIs
  <2>6. N # 0
    BY <1>2, FS_EmptySet
  <2> HIDE DEF rank
  <2>7. N \in 1..N
    BY <2>5, <2>6
  <2>8. PICK d \in S : rank(d) = N - 1
    BY <2>5, <2>7
  <2>9. ASSUME NEW n \in S PROVE n <= d
    <3>1. SUFFICES ASSUME ~(n <= d) PROVE FALSE
      OBVIOUS
    <3>2. n \in Nat /\ d \in Nat
      OBVIOUS
    <3>3. d < n
      BY <3>1, <3>2
    <3> DEFINE B == {e \in S : <<e, d>> \in R}
    <3>4. d \notin B /\ n \notin B /\ B \subseteq S
      BY <2>4, <3>2, <3>3
    <3>5. B \cup {d} \in SUBSET S /\ n \notin B \cup {d}
      BY <3>2, <3>3, <3>4
    <3>6. IsFiniteSet(B)
      BY <3>4, FS_Subset
    <3>7. Cardinality(B \cup {d}) = Cardinality(B) + 1
      BY <3>4, <3>6, FS_AddElement
    <3>8. Cardinality(B) = N - 1
      BY <2>8 DEF rank
    <3> HIDE DEF B
    <3>9. Cardinality(B \cup {d}) = N
      BY <2>5, <3>7, <3>8
    <3>10. S = B \cup {d}
      BY ONLY <3>5, <3>9, IsFiniteSet(S), FS_Subset DEF N
    <3>11. QED
      BY <3>5, <3>10
  <2>10. d \in Nat
    OBVIOUS
  <2>11. QED
    BY <2>9, <2>10
<1>3. QED
  BY <1>1, <1>2

LEMMA FreshIs ==
  ASSUME NEW T, IsFiniteSet(DOMAIN T), DOMAIN T \subseteq Nat, nextId \in Nat
  PROVE  /\ Fresh(T) \in Nat /\ nextId <= Fresh(T)
         /\ \A d \in DOMAIN T : d < Fresh(T)
         /\ Fresh(T) = nextId \/ \E d \in DOMAIN T : Fresh(T) = d + 1
<1> DEFINE S == {nextId} \cup {d + 1 : d \in DOMAIN T}
<1>1. S \in SUBSET Nat /\ S # {}
  OBVIOUS
<1>2. PICK b \in Nat : \A n \in DOMAIN T : n <= b
  BY FiniteIsBounded
<1>3. /\ b + 1 + nextId \in Nat
      /\ \A n \in S : n <= b + 1 + nextId
  BY <1>2
<1>4. Max(S) \in S /\ \A n \in S : n <= Max(S)
  <2> HIDE DEF S
  <2>1. QED
    BY <1>1, <1>3, MaxIs
<1>5. Fresh(T) = Max(S)
  BY DEF Fresh
<1>6. Fresh(T) \in Nat
  BY <1>1, <1>4, <1>5
<1>7. nextId <= Fresh(T)
  BY <1>4, <1>5
<1>8. \A d \in DOMAIN T : d + 1 <= Fresh(T)
  BY <1>4, <1>5
<1>9. \A d \in DOMAIN T : d < Fresh(T)
  BY <1>6, <1>8
<1>10. Fresh(T) = nextId \/ \E d \in DOMAIN T : Fresh(T) = d + 1
  BY <1>4, <1>5
<1>11. QED
  BY <1>6, <1>7, <1>9, <1>10

(***************************************************************************)
(* Parents                                                                 *)
(***************************************************************************)

LEMMA AddCancels ==
  ASSUME NEW a \in Nat, NEW b \in Nat, NEW c \in Nat, a + b = a + c
  PROVE  b = c
  OBVIOUS

LEMMA FoldPrefix ==
  ASSUME NEW m \in Seq(Comp), NEW n \in Seq(Comp), Fold(m) = Fold(n), NEW k \in 0..Len(m)
  PROVE  Len(m) = Len(n) /\ Fold(SubSeq(m, 1, k)) = Fold(SubSeq(n, 1, k))
<1>1. Len(m) \in Nat /\ Len(m) = Len(n) /\ Agree(m, n, Len(m)) /\ k \in 0..Len(n)
  BY FoldIs, SeqFacts
<1> DEFINE p == SubSeq(m, 1, k)
           q == SubSeq(n, 1, k)
<1>2. p \in Seq(Comp) /\ Len(p) = k /\ \A i \in 1..k : p[i] = m[i]
  BY PrefixIs
<1>3. q \in Seq(Comp) /\ Len(q) = k /\ \A i \in 1..k : q[i] = n[i]
  BY <1>1, PrefixIs
<1> HIDE DEF p, q
<1>4. \A i \in 1..k : i \in 1..Len(m)
  BY <1>1
<1>5. Agree(p, q, k)
  BY <1>1, <1>2, <1>3, <1>4 DEF Agree
<1>6. Fold(p) = Fold(q)
  BY <1>2, <1>3, <1>5, FoldIs
<1>7. QED
  BY <1>1, <1>6 DEF p, q

LEMMA SameExistingParents ==
  ASSUME NEW T, NEW m \in Name, NEW n \in Name, Fold(m) = Fold(n)
  PROVE  ExistingParents(T, m) = ExistingParents(T, n) /\ get_deck_id(T, m) = get_deck_id(T, n)
<1>1. m \in Seq(Comp) /\ n \in Seq(Comp) /\ Len(m) \in Nat
  BY NameIs
<1>2. Len(m) = Len(n)
  BY <1>1, FoldIs
<1>3. ASSUME NEW k \in 1..(Len(m) - 1)
      PROVE  get_deck_id(T, SubSeq(m, 1, k)) = get_deck_id(T, SubSeq(n, 1, k))
  <2>1. k \in 0..Len(m)
    BY <1>1
  <2>2. Fold(SubSeq(m, 1, k)) = Fold(SubSeq(n, 1, k))
    BY <1>1, <2>1, FoldPrefix
  <2>3. QED
    BY <2>2 DEF get_deck_id
<1>4. QED
  BY <1>2, <1>3 DEF ExistingParents, get_deck_id

\* U is T with parents of n that it does not have.
Grown(T, U, n) ==
    /\ Table(U)
    /\ DOMAIN T \subseteq DOMAIN U
    /\ \A d \in DOMAIN T : U[d] = T[d]
    /\ \A d \in DOMAIN U \ DOMAIN T :
          \E k \in 1..(Len(n) - 1) : /\ U[d] = Deck(SubSeq(n, 1, k), FALSE)
                                     /\ get_deck_id(T, SubSeq(n, 1, k)) = {}
    /\ Len(n) - 1 \in 1..Len(n) => get_deck_id(U, SubSeq(n, 1, Len(n) - 1)) # {}
    /\ U = T \/ \A k \in 1..(Len(n) - 1) : get_deck_id(U, SubSeq(n, 1, k)) # {}

LEMMA MissingParentsGrow ==
  ASSUME NEW T, Table(T), NEW n \in Name, nextId \in Nat \ {0}
  PROVE  /\ Grown(T, create_missing_parents(T, n), n)
         /\ \A k \in 1..(Len(n) - 1) : get_deck_id(create_missing_parents(T, n), SubSeq(n, 1, k)) # {}
<1> DEFINE M == 1..(Len(n) - 1) \ ExistingParents(T, n)
           id(k) == Fresh(T) + Cardinality({j \in M : j > k})
           parent(d) == SubSeq(n, 1, CHOOSE k \in M : id(k) = d)
           U == create_missing_parents(T, n)
           R == {p \in M \X M : p[1] > p[2]}
<1>1. n \in Seq(Comp) /\ Len(n) \in Nat /\ Len(n) >= 1
  BY NameIs
<1>2. /\ Fresh(T) \in Nat \ {0} /\ \A d \in DOMAIN T : d < Fresh(T)
      /\ DOMAIN T \subseteq Nat
  BY FreshIs DEF Table
<1>3. M \subseteq Nat /\ IsFiniteSet(M)
  <2>1. Len(n) - 1 \in Int
    BY <1>1
  <2>2. IsFiniteSet(1..(Len(n) - 1))
    BY <2>1, FS_Interval
  <2>3. M \in SUBSET (1..(Len(n) - 1))
    OBVIOUS
  <2>4. QED
    BY <2>2, <2>3, FS_Subset
<1>4. U = [d \in DOMAIN T \cup {id(k) : k \in M} |-> IF d \in DOMAIN T THEN T[d] ELSE Deck(parent(d), FALSE)]
  BY DEF create_missing_parents
<1> HIDE DEF U
<1>5. \A d \in M : <<d, d>> \notin R
  BY <1>3
<1>6. \A d, e, g \in M : <<d, e>> \in R /\ <<e, g>> \in R => <<d, g>> \in R
  BY <1>3
<1>7. \A d, e \in M : d # e => <<d, e>> \in R \/ <<e, d>> \in R
  BY <1>3
<1>8. \A k \in M : {j \in M : <<j, k>> \in R} = {j \in M : j > k}
  OBVIOUS
<1> DEFINE rank(k) == Cardinality({j \in M : <<j, k>> \in R})
<1>9. /\ Cardinality(M) \in Nat
      /\ \A i \in 1..Cardinality(M) : \E d \in M : rank(d) = i - 1
      /\ \A d \in M : rank(d) + 1 \in 1..Cardinality(M)
      /\ \A d, g \in M : rank(d) = rank(g) => d = g
  <2>1. IsFiniteSet(M)
    BY <1>3
  <2> HIDE DEF R, M
  <2>2. QED
    BY ONLY <2>1, <1>5, <1>6, <1>7, RankIs
<1>10. \A k \in M : id(k) = Fresh(T) + rank(k) /\ rank(k) \in Nat
  <2>1. ASSUME NEW k \in M PROVE id(k) = Fresh(T) + rank(k) /\ rank(k) \in Nat
    <3>1. {j \in M : <<j, k>> \in R} = {j \in M : j > k}
      BY <1>8
    <3>2. {j \in M : <<j, k>> \in R} \in SUBSET M
      OBVIOUS
    <3>3. rank(k) \in Nat
      <4> HIDE DEF R, M
      <4>1. QED
        BY <3>2, <1>3, FS_Subset, FS_CardinalityType
    <3>4. QED
      BY <3>1, <3>3
  <2>2. QED
    BY <2>1
<1> HIDE DEF id, rank, R
<1>11. \A k \in M : id(k) \in Nat \ {0} /\ id(k) >= Fresh(T) /\ id(k) \notin DOMAIN T
  <2>1. ASSUME NEW k \in M PROVE id(k) \in Nat \ {0} /\ id(k) >= Fresh(T) /\ id(k) \notin DOMAIN T
    <3>1. id(k) = Fresh(T) + rank(k) /\ rank(k) \in Nat /\ Fresh(T) \in Nat \ {0}
      BY <1>2, <1>10
    <3>2. id(k) \in Nat \ {0} /\ id(k) >= Fresh(T)
      BY <3>1
    <3>3. ASSUME id(k) \in DOMAIN T PROVE FALSE
      <4>1. id(k) < Fresh(T)
        BY <1>2, <3>3
      <4>2. QED
        BY <3>1, <3>2, <4>1
    <3>4. QED
      BY <3>2, <3>3
  <2>2. QED
    BY <2>1
<1>12. \A k \in M : (CHOOSE j \in M : id(j) = id(k)) = k
  <2>1. ASSUME NEW k \in M PROVE (CHOOSE j \in M : id(j) = id(k)) = k
    <3>1. \A j \in M : id(j) = id(k) => j = k
      <4>1. ASSUME NEW j \in M, id(j) = id(k) PROVE j = k
        <5>1. id(j) = Fresh(T) + rank(j) /\ rank(j) \in Nat /\ Fresh(T) \in Nat
          BY <1>2, <1>10
        <5>2. id(k) = Fresh(T) + rank(k) /\ rank(k) \in Nat
          BY <1>10
        <5>3. Fresh(T) + rank(j) = Fresh(T) + rank(k)
          BY <4>1, <5>1, <5>2
        <5>4. rank(j) = rank(k)
          BY ONLY <5>1, <5>2, <5>3, AddCancels
        <5>5. QED
          BY <1>9, <5>4
      <4>2. QED
        BY <4>1
    <3>2. QED
      BY <3>1
  <2>2. QED
    BY <2>1
<1>13. \A k \in M : id(k) \in DOMAIN U /\ U[id(k)] = Deck(SubSeq(n, 1, k), FALSE)
  <2>1. ASSUME NEW k \in M PROVE id(k) \in DOMAIN U /\ U[id(k)] = Deck(SubSeq(n, 1, k), FALSE)
    <3>1. parent(id(k)) = SubSeq(n, 1, k)
      BY <1>12
    <3>2. id(k) \notin DOMAIN T
      BY <1>11
    <3> HIDE DEF parent, M
    <3>3. QED
      BY <1>4, <3>1, <3>2
  <2>2. QED
    BY <2>1
<1>14. \A d \in DOMAIN T : d \in DOMAIN U /\ U[d] = T[d]
  BY <1>4
<1>15. \A d \in DOMAIN U : d \in DOMAIN T \/ \E k \in M : d = id(k)
  BY <1>4
<1>16. \A k \in M : k \in 1..(Len(n) - 1) /\ get_deck_id(T, SubSeq(n, 1, k)) = {}
  BY DEF ExistingParents
<1>17. \A k \in 1..(Len(n) - 1) : SubSeq(n, 1, k) \in Name /\ Len(SubSeq(n, 1, k)) = k
  BY <1>1, PrefixIsName
<1>18. \A d \in DOMAIN U \ DOMAIN T : \E k \in M : d = id(k) /\ U[d] = Deck(SubSeq(n, 1, k), FALSE)
  BY <1>13, <1>15
<1>19. Table(U)
  <2>1. U = [d \in DOMAIN U |-> U[d]]
    <3> HIDE DEF parent, M
    <3>1. QED
      BY <1>4
  <2>2. DOMAIN U \subseteq Nat \ {0}
    BY <1>11, <1>15 DEF Table
  <2>3. IsFiniteSet(DOMAIN U)
    <3> DEFINE b == Fresh(T) + Cardinality(M)
    <3>1. b \in Nat
      BY <1>2, <1>9
    <3>2. ASSUME NEW d \in DOMAIN U PROVE d <= b
      <4>1. CASE d \in DOMAIN T
        <5>1. d < Fresh(T) /\ d \in Nat
          BY <1>2, <4>1
        <5>2. QED
          BY <5>1, <1>2, <1>9
      <4>2. ASSUME NEW k \in M, d = id(k) PROVE d <= b
        <5>1. id(k) = Fresh(T) + rank(k) /\ rank(k) \in Nat /\ rank(k) + 1 \in 1..Cardinality(M)
          BY <1>9, <1>10
        <5> HIDE DEF M
        <5>2. QED
          BY <5>1, <1>2, <1>9, <4>2
      <4>3. QED
        BY <1>15, <4>1, <4>2
    <3>3. DOMAIN U \in SUBSET Nat
      BY <2>2
    <3> HIDE DEF b
    <3>4. QED
      BY <3>1, <3>2, <3>3, FS_BoundedSetOfNaturals
  <2>4. ASSUME NEW d \in DOMAIN U PROVE U[d] \in [name : Name, filtered : BOOLEAN]
    <3>1. CASE d \in DOMAIN T
      BY <1>14, <3>1 DEF Table
    <3>2. CASE d \notin DOMAIN T
      <4>1. PICK k \in M : U[d] = Deck(SubSeq(n, 1, k), FALSE)
        BY <1>18, <3>2
      <4>2. SubSeq(n, 1, k) \in Name
        BY <1>16, <1>17
      <4>3. QED
        BY <4>1, <4>2 DEF Deck
    <3>3. QED
      BY <3>1, <3>2
  <2>5. ASSUME NEW d \in DOMAIN U, NEW e \in DOMAIN U, Fold(U[d].name) = Fold(U[e].name)
        PROVE  d = e
    <3>1. ASSUME NEW a \in DOMAIN T, NEW k \in M, Fold(T[a].name) = Fold(SubSeq(n, 1, k)) PROVE FALSE
      <4>1. a \in get_deck_id(T, SubSeq(n, 1, k))
        BY <3>1 DEF get_deck_id
      <4>2. QED
        BY <1>16, <4>1
    <3>2. CASE d \in DOMAIN T /\ e \in DOMAIN T
      BY <1>14, <2>5, <3>2 DEF Table
    <3>3. CASE d \in DOMAIN T /\ e \notin DOMAIN T
      <4>1. PICK k \in M : U[e] = Deck(SubSeq(n, 1, k), FALSE)
        BY <1>18, <3>3
      <4>2. U[e].name = SubSeq(n, 1, k) /\ U[d].name = T[d].name
        BY <1>14, <3>3, <4>1 DEF Deck
      <4>3. QED
        BY <2>5, <3>1, <3>3, <4>2
    <3>4. CASE d \notin DOMAIN T /\ e \in DOMAIN T
      <4>1. PICK k \in M : U[d] = Deck(SubSeq(n, 1, k), FALSE)
        BY <1>18, <3>4
      <4>2. U[d].name = SubSeq(n, 1, k) /\ U[e].name = T[e].name
        BY <1>14, <3>4, <4>1 DEF Deck
      <4>3. QED
        BY <2>5, <3>1, <3>4, <4>2
    <3>5. CASE d \notin DOMAIN T /\ e \notin DOMAIN T
      <4>1. PICK k \in M : d = id(k) /\ U[d] = Deck(SubSeq(n, 1, k), FALSE)
        BY <1>18, <3>5
      <4>2. PICK j \in M : e = id(j) /\ U[e] = Deck(SubSeq(n, 1, j), FALSE)
        BY <1>18, <3>5
      <4>3. U[d].name = SubSeq(n, 1, k) /\ U[e].name = SubSeq(n, 1, j)
        BY <4>1, <4>2 DEF Deck
      <4>4. SubSeq(n, 1, k) \in Name /\ Len(SubSeq(n, 1, k)) = k /\ SubSeq(n, 1, j) \in Name /\ Len(SubSeq(n, 1, j)) = j
        BY <1>16, <1>17
      <4>5. Len(SubSeq(n, 1, k)) = Len(SubSeq(n, 1, j))
        <5>1. SubSeq(n, 1, k) \in Seq(Comp) /\ SubSeq(n, 1, j) \in Seq(Comp)
          BY <4>4, NameIs
        <5>2. QED
          BY <2>5, <4>3, <5>1, FoldIs
      <4>6. QED
        BY <4>1, <4>2, <4>4, <4>5
    <3>6. QED
      BY <3>2, <3>3, <3>4, <3>5
  <2>6. QED
    BY <2>1, <2>2, <2>3, <2>4, <2>5 DEF Table
<1>20. ASSUME NEW k \in 1..(Len(n) - 1) PROVE get_deck_id(U, SubSeq(n, 1, k)) # {}
  <2>1. CASE k \in M
    <3>1. id(k) \in DOMAIN U /\ U[id(k)] = Deck(SubSeq(n, 1, k), FALSE)
      BY <1>13, <2>1
    <3>2. Fold(U[id(k)].name) = Fold(SubSeq(n, 1, k))
      BY <3>1 DEF Deck
    <3>3. QED
      BY <3>1, <3>2 DEF get_deck_id
  <2>2. CASE k \notin M
    <3>1. get_deck_id(T, SubSeq(n, 1, k)) # {}
      BY <2>2 DEF ExistingParents
    <3>2. QED
      BY <1>14, <3>1 DEF get_deck_id
  <2>3. QED
    BY <2>1, <2>2
<1>21. \A d \in DOMAIN U \ DOMAIN T :
          \E k \in 1..(Len(n) - 1) : /\ U[d] = Deck(SubSeq(n, 1, k), FALSE)
                                     /\ get_deck_id(T, SubSeq(n, 1, k)) = {}
  BY <1>16, <1>18
<1>22. Len(n) - 1 \in 1..Len(n) => Len(n) - 1 \in 1..(Len(n) - 1)
  BY <1>1
<1> HIDE DEF M
<1>23. QED
  BY <1>14, <1>19, <1>20, <1>21, <1>22 DEF Grown, U

LEMMA ExistingParentsIs ==
  ASSUME NEW T, NEW n \in Name
  PROVE  /\ ExistingParents(T, n) \in SUBSET Nat
         /\ ExistingParents(T, n) # {} =>
              /\ Max(ExistingParents(T, n)) \in ExistingParents(T, n)
              /\ \A k \in ExistingParents(T, n) : k <= Max(ExistingParents(T, n))
<1>1. Len(n) \in Nat
  BY NameIs
<1>2. /\ ExistingParents(T, n) \in SUBSET Nat
      /\ \A k \in ExistingParents(T, n) : k <= Len(n)
  BY <1>1 DEF ExistingParents
<1>3. QED
  BY ONLY <1>1, <1>2, MaxIs

\* The name of the deepest parent that exists, and what follows it.
MatchesParent(T, n, e) ==
    LET K == Max(ExistingParents(T, n))
    IN  /\ e \in DOMAIN T
        /\ T[e] = first_existing_parent(T, n)
        /\ T[e].name = SubSeq(MatchedName(T, n), 1, K)
        /\ Len(T[e].name) = K
        /\ \A i \in (K + 1)..Len(n) : MatchedName(T, n)[i] = n[i]

LEMMA MatchedIs ==
  ASSUME NEW T, Table(T), NEW n \in Name
  PROVE  /\ MatchedName(T, n) \in Name /\ Fold(MatchedName(T, n)) = Fold(n)
         /\ Len(MatchedName(T, n)) = Len(n)
         /\ ExistingParents(T, n) = {} => MatchedName(T, n) = n
         /\ ExistingParents(T, n) # {} => \E e \in DOMAIN T : MatchesParent(T, n, e)
<1>1. n \in Seq(Comp) /\ Len(n) \in Nat /\ Len(n) >= 1
  BY NameIs
<1>2. CASE ExistingParents(T, n) = {}
  <2>1. MatchedName(T, n) = n
    BY <1>2 DEF MatchedName
  <2>2. QED
    BY <1>2, <2>1
<1>3. CASE ExistingParents(T, n) # {}
  <2> DEFINE K == Max(ExistingParents(T, n))
             e == CHOOSE d \in get_deck_id(T, SubSeq(n, 1, K)) : TRUE
             p == T[e].name
             m == p \o SubSeq(n, Len(p) + 1, Len(n))
  <2>1. K \in ExistingParents(T, n)
    BY <1>3, ExistingParentsIs
  <2>2. K \in 1..(Len(n) - 1) /\ get_deck_id(T, SubSeq(n, 1, K)) # {}
    BY <2>1 DEF ExistingParents
  <2>3. e \in get_deck_id(T, SubSeq(n, 1, K))
    BY <2>2
  <2>4. MatchedName(T, n) = m /\ first_existing_parent(T, n) = T[e]
    BY <1>3 DEF MatchedName, first_existing_parent
  <2> HIDE DEF K, e
  <2>5. e \in DOMAIN T /\ Fold(p) = Fold(SubSeq(n, 1, K))
    BY <2>3 DEF get_deck_id
  <2>6. p \in Name
    BY <2>5 DEF Table
  <2> HIDE DEF p
  <2>7. p \in Seq(Comp) /\ Len(p) \in Nat /\ Len(p) >= 1
    BY <2>6, NameIs
  <2>8. K \in 0..Len(n) /\ K \in Nat
    BY <1>1, <2>2
  <2>9. /\ SubSeq(n, 1, K) \in Seq(Comp) /\ Len(SubSeq(n, 1, K)) = K
        /\ \A i \in 1..K : SubSeq(n, 1, K)[i] = n[i]
    BY <1>1, <2>8, PrefixIs
  <2>10. Len(p) = K /\ Agree(p, SubSeq(n, 1, K), K)
    BY ONLY <2>5, <2>7, <2>9, FoldIs
  <2>11. Agree(p, n, K)
    BY <2>9, <2>10 DEF Agree
  <2>12. Len(p) \in 0..Len(n)
    BY <2>8, <2>10
  <2>13. /\ m \in Seq(Comp) /\ Len(m) = Len(p) + Len(n) - Len(p)
         /\ \A i \in 1..(Len(p) + Len(n) - Len(p)) :
              m[i] = IF i <= Len(p) THEN p[i] ELSE n[i - Len(p) + Len(p)]
    BY ONLY <1>1, <2>7, <2>12, JoinIs
  <2> HIDE DEF m
  <2>14. Len(m) = Len(n) /\ \A i \in 1..Len(n) : m[i] = IF i <= K THEN p[i] ELSE n[i]
    <3>1. Len(p) + Len(n) - Len(p) = Len(n)
      BY <1>1, <2>7
    <3>2. \A i \in 1..Len(n) : i - Len(p) + Len(p) = i
      BY <1>1, <2>7
    <3>3. QED
      BY <2>10, <2>13, <3>1, <3>2
  <2>15. Agree(m, n, Len(m))
    <3>1. ASSUME NEW i \in 1..Len(m) PROVE Key(m[i]) = Key(n[i])
      <4>1. i \in 1..Len(n) /\ i \in Nat
        BY <2>14, <1>1
      <4>2. CASE i <= K
        <5>1. i \in 1..K /\ m[i] = p[i]
          BY <2>8, <2>14, <4>1, <4>2
        <5>2. QED
          BY <2>11, <5>1 DEF Agree
      <4>3. CASE ~(i <= K)
        BY <2>14, <4>1, <4>3
      <4>4. QED
        BY <4>2, <4>3
    <3>2. QED
      BY <3>1 DEF Agree
  <2>16. Fold(m) = Fold(n)
    BY <1>1, <2>13, <2>14, <2>15, FoldIs
  <2>17. m \in Name
    BY <1>1, <2>13, <2>14, NameIs
  <2>18. p = SubSeq(m, 1, K)
    <3>1. K \in 0..Len(m)
      BY <2>8, <2>14
    <3>2. /\ SubSeq(m, 1, K) \in Seq(Comp) /\ Len(SubSeq(m, 1, K)) = K
          /\ \A i \in 1..K : SubSeq(m, 1, K)[i] = m[i]
      BY <2>13, <3>1, PrefixIs
    <3>3. \A i \in 1..K : i \in 1..Len(n) /\ i <= K
      BY <1>1, <2>8
    <3>4. \A i \in 1..Len(p) : p[i] = SubSeq(m, 1, K)[i]
      BY <2>10, <2>14, <3>2, <3>3
    <3>5. QED
      BY ONLY <2>7, <2>10, <3>2, <3>4, SeqEqual
  <2>19. \A i \in (K + 1)..Len(n) : m[i] = n[i]
    <3>1. \A i \in (K + 1)..Len(n) : i \in 1..Len(n) /\ ~(i <= K)
      BY <1>1, <2>8
    <3>2. QED
      BY <2>14, <3>1
  <2>20. MatchesParent(T, n, e)
    BY <2>4, <2>5, <2>10, <2>18, <2>19 DEF MatchesParent, K, p
  <2>21. QED
    BY <1>3, <2>4, <2>5, <2>14, <2>16, <2>17, <2>20
<1>4. QED
  BY <1>2, <1>3

LEMMA MatchedTableGrows ==
  ASSUME NEW T, Table(T), NEW n \in Name, nextId \in Nat \ {0}
  PROVE  /\ Grown(T, MatchedTable(T, n), MatchedName(T, n))
         /\ ~(Len(n) - 1 \in ExistingParents(T, n)) =>
              MatchedTable(T, n) = create_missing_parents(T, MatchedName(T, n))
         /\ Len(n) - 1 \in ExistingParents(T, n) => MatchedTable(T, n) = T
<1> DEFINE m == MatchedName(T, n)
<1>1. m \in Name /\ Fold(m) = Fold(n) /\ Len(m) = Len(n)
  BY MatchedIs
<1> HIDE DEF m
<1>2. CASE Len(n) - 1 \in ExistingParents(T, n)
  <2>1. MatchedTable(T, n) = T
    BY <1>2 DEF MatchedTable
  <2>2. ExistingParents(T, m) = ExistingParents(T, n)
    BY <1>1, SameExistingParents
  <2>3. get_deck_id(T, SubSeq(m, 1, Len(m) - 1)) # {}
    BY <1>1, <1>2, <2>2 DEF ExistingParents
  <2>4. Grown(T, T, m)
    BY <2>3 DEF Grown
  <2>5. QED
    BY <1>2, <2>1, <2>4 DEF m
<1>3. CASE ~(Len(n) - 1 \in ExistingParents(T, n))
  <2>1. MatchedTable(T, n) = create_missing_parents(T, m)
    BY <1>3 DEF MatchedTable, m
  <2>2. Grown(T, create_missing_parents(T, m), m)
    BY <1>1, MissingParentsGrow
  <2>3. QED
    BY <1>3, <2>1, <2>2 DEF m
<1>4. QED
  BY <1>2, <1>3

(***************************************************************************)
(* Renaming                                                                *)
(***************************************************************************)

\* U is T with d put in, or changed.
WithDeck(T, U, d, deck) ==
    /\ Table(U)
    /\ DOMAIN U = DOMAIN T \cup {d}
    /\ U[d] = deck
    /\ \A e \in DOMAIN T : e # d => U[e] = T[e]

LEMMA PutKeepsTable ==
  ASSUME NEW T, Table(T), NEW d \in Nat \ {0}, NEW n \in Name, NEW f \in BOOLEAN,
         get_deck_id(T, n) \subseteq {d}
  PROVE  WithDeck(T, Put(T, d, Deck(n, f)), d, Deck(n, f))
<1> DEFINE U == Put(T, d, Deck(n, f))
<1>1. U = [e \in DOMAIN T \cup {d} |-> IF e = d THEN Deck(n, f) ELSE T[e]]
  BY DEF Put
<1> HIDE DEF U
<1>2. /\ DOMAIN U = DOMAIN T \cup {d} /\ U[d] = Deck(n, f)
      /\ \A e \in DOMAIN T : e # d => U[e] = T[e]
  BY <1>1
<1>3. Deck(n, f) \in [name : Name, filtered : BOOLEAN] /\ Deck(n, f).name = n
  BY DEF Deck
<1>4. U = [e \in DOMAIN U |-> U[e]]
  BY <1>1
<1>5. IsFiniteSet(DOMAIN U) /\ DOMAIN U \subseteq Nat \ {0}
  BY <1>2, FS_AddElement DEF Table
<1>6. \A e \in DOMAIN U : U[e] \in [name : Name, filtered : BOOLEAN]
  BY <1>2, <1>3 DEF Table
<1>7. \A e \in DOMAIN T : e # d => Fold(T[e].name) # Fold(n)
  BY DEF get_deck_id
<1>8. ASSUME NEW a \in DOMAIN U, NEW b \in DOMAIN U, Fold(U[a].name) = Fold(U[b].name) PROVE a = b
  <2>1. CASE a = d /\ b = d
    BY <2>1
  <2>2. CASE a = d /\ b # d
    <3>1. U[a].name = n /\ U[b] = T[b] /\ b \in DOMAIN T
      BY <1>2, <1>3, <2>2
    <3>2. QED
      BY <1>7, <1>8, <2>2, <3>1
  <2>3. CASE a # d /\ b = d
    <3>1. U[b].name = n /\ U[a] = T[a] /\ a \in DOMAIN T
      BY <1>2, <1>3, <2>3
    <3>2. QED
      BY <1>7, <1>8, <2>3, <3>1
  <2>4. CASE a # d /\ b # d
    BY <1>2, <1>8, <2>4 DEF Table
  <2>5. QED
    BY <2>1, <2>2, <2>3, <2>4
<1>9. Table(U)
  BY <1>4, <1>5, <1>6, <1>8 DEF Table
<1>10. QED
  BY <1>2, <1>9 DEF U, WithDeck

LEMMA RenameKeepsTable ==
  ASSUME NEW T, Table(T), NEW d \in DOMAIN T, NEW n \in Name, get_deck_id(T, n) \subseteq {d}
  PROVE  /\ Table([T EXCEPT ![d].name = n])
         /\ DOMAIN [T EXCEPT ![d].name = n] = DOMAIN T
         /\ [T EXCEPT ![d].name = n][d] = Deck(n, T[d].filtered)
         /\ \A e \in DOMAIN T : e # d => [T EXCEPT ![d].name = n][e] = T[e]
<1>1. T[d] \in [name : Name, filtered : BOOLEAN] /\ d \in Nat \ {0} /\ T = [e \in DOMAIN T |-> T[e]]
  BY DEF Table
<1> DEFINE U == [T EXCEPT ![d].name = n]
<1>2. U = [e \in DOMAIN T |-> IF e = d THEN [T[d] EXCEPT !.name = n] ELSE T[e]]
  BY <1>1
<1>3. [T[d] EXCEPT !.name = n] = Deck(n, T[d].filtered)
  BY <1>1 DEF Deck
<1>4. U = Put(T, d, Deck(n, T[d].filtered))
  <2>1. DOMAIN T \cup {d} = DOMAIN T
    OBVIOUS
  <2> HIDE DEF U
  <2>2. QED
    BY <1>2, <1>3, <2>1 DEF Put
<1> HIDE DEF U
<1>5. T[d].filtered \in BOOLEAN
  BY <1>1
<1>6. /\ Table(U) /\ DOMAIN U = DOMAIN T \cup {d} /\ U[d] = Deck(n, T[d].filtered)
      /\ \A e \in DOMAIN T : e # d => U[e] = T[e]
  BY <1>1, <1>4, <1>5, PutKeepsTable DEF WithDeck
<1>7. DOMAIN U = DOMAIN T
  BY <1>6
<1>8. QED
  BY <1>6, <1>7 DEF U

\* A name below old with new in place of it.
LEMMA ReparentIs ==
  ASSUME NEW n \in Name, NEW old \in Seq(Comp), NEW new \in Seq(Comp), IsBelow(n, old)
  PROVE  /\ reparent(n, old, new) \in Name
         /\ Len(reparent(n, old, new)) = Len(new) + Len(n) - Len(old)
         /\ Len(reparent(n, old, new)) > Len(new)
         /\ \A i \in 1..Len(new) : reparent(n, old, new)[i] = new[i]
         /\ \A i \in (Len(new) + 1)..(Len(new) + Len(n) - Len(old)) :
              reparent(n, old, new)[i] = n[i - Len(new) + Len(old)]
<1>1. n \in Seq(Comp) /\ Len(n) \in Nat /\ Len(old) \in Nat /\ Len(new) \in Nat
  BY NameIs, SeqFacts
<1>2. Len(n) > Len(old)
  BY DEF IsBelow
<1>3. Len(old) \in 0..Len(n)
  BY <1>1, <1>2
<1> DEFINE r == reparent(n, old, new)
<1>4. /\ r \in Seq(Comp) /\ Len(r) = Len(new) + Len(n) - Len(old)
      /\ \A i \in 1..(Len(new) + Len(n) - Len(old)) :
           r[i] = IF i <= Len(new) THEN new[i] ELSE n[i - Len(new) + Len(old)]
  BY <1>1, <1>3, JoinIs DEF reparent
<1> HIDE DEF r
<1>5. Len(r) > Len(new) /\ Len(r) \in Nat /\ Len(r) >= 1
  BY <1>1, <1>2, <1>4
<1>6. \A i \in 1..Len(new) : i \in 1..(Len(new) + Len(n) - Len(old)) /\ i <= Len(new)
  BY <1>1, <1>2
<1>7. \A i \in (Len(new) + 1)..(Len(new) + Len(n) - Len(old)) :
         i \in 1..(Len(new) + Len(n) - Len(old)) /\ ~(i <= Len(new))
  BY <1>1
<1>8. r \in Name
  BY <1>4, <1>5, NameIs
<1>9. QED
  BY <1>4, <1>5, <1>6, <1>7, <1>8 DEF r

LEMMA ReparentInjective ==
  ASSUME NEW m \in Name, NEW n \in Name, NEW old \in Seq(Comp), NEW new \in Seq(Comp),
         IsBelow(m, old), IsBelow(n, old),
         Fold(reparent(m, old, new)) = Fold(reparent(n, old, new))
  PROVE  Fold(m) = Fold(n)
<1>1. /\ m \in Seq(Comp) /\ n \in Seq(Comp) /\ Len(m) \in Nat /\ Len(n) \in Nat
      /\ Len(old) \in Nat /\ Len(new) \in Nat
  BY NameIs, SeqFacts
<1> DEFINE a == reparent(m, old, new)
           b == reparent(n, old, new)
<1>2. /\ a \in Name /\ Len(a) = Len(new) + Len(m) - Len(old)
      /\ \A i \in (Len(new) + 1)..(Len(new) + Len(m) - Len(old)) : a[i] = m[i - Len(new) + Len(old)]
  BY ReparentIs
<1>3. /\ b \in Name /\ Len(b) = Len(new) + Len(n) - Len(old)
      /\ \A i \in (Len(new) + 1)..(Len(new) + Len(n) - Len(old)) : b[i] = n[i - Len(new) + Len(old)]
  BY ReparentIs
<1> HIDE DEF a, b
<1>4. a \in Seq(Comp) /\ b \in Seq(Comp) /\ Fold(a) = Fold(b)
  BY <1>2, <1>3, NameIs DEF a, b
<1>5. Len(a) = Len(b) /\ Agree(a, b, Len(a))
  BY <1>4, FoldIs
<1>6. Len(m) = Len(n)
  BY <1>1, <1>2, <1>3, <1>5
<1>7. Len(m) > Len(old) /\ Agree(m, old, Len(old)) /\ Agree(n, old, Len(old))
  BY <1>1, BelowIs
<1>8. ASSUME NEW i \in 1..Len(m) PROVE Key(m[i]) = Key(n[i])
  <2>1. CASE i <= Len(old)
    <3>1. i \in 1..Len(old)
      BY <1>1, <2>1
    <3>2. QED
      BY <1>7, <3>1 DEF Agree
  <2>2. CASE ~(i <= Len(old))
    <3> DEFINE j == i - Len(old) + Len(new)
    <3>1. /\ j \in (Len(new) + 1)..(Len(new) + Len(m) - Len(old)) /\ j - Len(new) + Len(old) = i
          /\ j \in 1..Len(a)
      BY <1>1, <1>2, <2>2
    <3> HIDE DEF j
    <3>2. a[j] = m[i]
      BY <1>2, <3>1
    <3>3. b[j] = n[i]
      BY <1>3, <1>6, <3>1
    <3>4. Key(a[j]) = Key(b[j])
      BY <1>5, <3>1 DEF Agree
    <3>5. QED
      BY <3>2, <3>3, <3>4
  <2>3. QED
    BY <2>1, <2>2
<1>9. QED
  BY <1>1, <1>6, <1>8, FoldIs DEF Agree

(***************************************************************************)
(* Renaming the decks below a deck                                         *)
(***************************************************************************)

Renamed(deck, old, new) == [deck EXCEPT !.name = reparent(deck.name, old, new)]

\* The table after the first i of the decks s.
RenamedTo(T, s, i, old, new) ==
    [d \in DOMAIN T |-> IF \E j \in 1..i : s[j] = d THEN Renamed(T[d], old, new) ELSE T[d]]

\* The table with the decks below old moved to new, and with d moved too.
MovedBelow(T, old, new) ==
    [d \in DOMAIN T |-> IF IsBelow(T[d].name, old) THEN Renamed(T[d], old, new) ELSE T[d]]
Moved(T, d, n) ==
    [e \in DOMAIN T |-> IF e = d THEN Deck(n, T[d].filtered)
                        ELSE IF IsBelow(T[e].name, T[d].name)
                        THEN Renamed(T[e], T[d].name, n) ELSE T[e]]

LEMMA RenamedIs ==
  ASSUME NEW deck \in [name : Name, filtered : BOOLEAN],
         NEW old \in Seq(Comp), NEW new \in Seq(Comp), IsBelow(deck.name, old)
  PROVE  /\ Renamed(deck, old, new) = Deck(reparent(deck.name, old, new), deck.filtered)
         /\ reparent(deck.name, old, new) \in Name
<1>1. reparent(deck.name, old, new) \in Name
  BY ReparentIs
<1>2. QED
  BY <1>1 DEF Renamed, Deck

ChildRenames(T, s, old, new) ==
    \A i \in DOMAIN s :
        update_deck(RenamedTo(T, s, i - 1, old, new), s[i], reparent(T[s[i]].name, old, new)).why = ""

LEMMA RenameChildrenIs ==
  ASSUME NEW T, NEW old, NEW new, NEW s, s = child_decks(T, old)
  PROVE  rename_child_decks(T, old, new) =
           IF ChildRenames(T, s, old, new)
           THEN Ok(RenamedTo(T, s, Len(s), old, new)) ELSE Error("name_clash")
  BY DEF rename_child_decks, ChildRenames, RenamedTo, Renamed

LEMMA UpdateDeckIs ==
  ASSUME NEW T, NEW d, NEW n
  PROVE  /\ update_deck(T, d, n).why = "" <=> get_deck_id(T, n) \subseteq {d}
         /\ update_deck(T, d, n).why \in {"", "name_clash"}
         /\ update_deck(T, d, n).why = "" => update_deck(T, d, n).decks = [T EXCEPT ![d].name = n]
  BY DEF update_deck, Ok, Error

\* The children: listed once, each of them.
LEMMA ChildrenIs ==
  ASSUME NEW T, Table(T), NEW old \in Seq(Comp)
  PROVE  /\ child_decks(T, old) \in Seq(DOMAIN T)
         /\ \A i \in 1..Len(child_decks(T, old)) :
               /\ child_decks(T, old)[i] \in DOMAIN T
               /\ IsBelow(T[child_decks(T, old)[i]].name, old)
         /\ \A d \in DOMAIN T : IsBelow(T[d].name, old) =>
               \E i \in 1..Len(child_decks(T, old)) : child_decks(T, old)[i] = d
<1> DEFINE ids == {d \in DOMAIN T : IsBelow(T[d].name, old)}
           s == child_decks(T, old)
<1>1. s = sorted(T, ids)
  BY DEF child_decks
<1>2. ids \in SUBSET DOMAIN T
  OBVIOUS
<1>3. Lists(s, ids)
  <2> HIDE DEF ids, s
  <2>1. QED
    BY <1>1, <1>2, SortedLists
<1> HIDE DEF s
<1>4. s \in Seq(ids) /\ \A d \in ids : \E i \in 1..Len(s) : s[i] = d
  <2> HIDE DEF ids
  <2>1. QED
    BY <1>3 DEF Lists
<1>5. \A i \in 1..Len(s) : s[i] \in ids
  <2> HIDE DEF ids
  <2>1. QED
    BY <1>4, SeqFacts
<1>6. s \in Seq(DOMAIN T)
  <2> HIDE DEF ids
  <2>1. QED
    BY <1>2, <1>4, SeqMonotonic
<1>7. QED
  BY <1>4, <1>5, <1>6 DEF s

WithName(A, d, m) == [A EXCEPT ![d].name = m]

LEMMA RenamedStep ==
  ASSUME NEW T, Table(T), NEW old \in Seq(Comp), NEW new \in Seq(Comp),
         NEW s \in Seq(DOMAIN T), NEW i \in 1..Len(s),
         \A j \in 1..Len(s) : IsBelow(T[s[j]].name, old)
  PROVE  RenamedTo(T, s, i, old, new) =
           WithName(RenamedTo(T, s, i - 1, old, new), s[i], reparent(T[s[i]].name, old, new))
<1> DEFINE A == RenamedTo(T, s, i - 1, old, new)
           B == RenamedTo(T, s, i, old, new)
           m == reparent(T[s[i]].name, old, new)
<1>1. Len(s) \in Nat /\ s[i] \in DOMAIN T
  BY SeqFacts
<1>2. T[s[i]] \in [name : Name, filtered : BOOLEAN] /\ IsBelow(T[s[i]].name, old)
  BY <1>1 DEF Table
<1>3. m \in Name /\ Renamed(T[s[i]], old, new) = Deck(m, T[s[i]].filtered)
  BY <1>2, RenamedIs
<1>4. /\ A = [d \in DOMAIN T |-> IF \E j \in 1..(i - 1) : s[j] = d THEN Renamed(T[d], old, new) ELSE T[d]]
      /\ B = [d \in DOMAIN T |-> IF \E j \in 1..i : s[j] = d THEN Renamed(T[d], old, new) ELSE T[d]]
  BY DEF RenamedTo
<1> HIDE DEF A, B, m
<1>5. \A d \in DOMAIN T : (\E j \in 1..i : s[j] = d) <=> d = s[i] \/ \E j \in 1..(i - 1) : s[j] = d
  <2>1. \A j \in 1..i : j = i \/ j \in 1..(i - 1)
    BY <1>1
  <2>2. i \in 1..i /\ \A j \in 1..(i - 1) : j \in 1..i
    BY <1>1
  <2>3. QED
    BY <2>1, <2>2
<1>6. [A[s[i]] EXCEPT !.name = m] = Deck(m, T[s[i]].filtered)
  <2>1. CASE \E j \in 1..(i - 1) : s[j] = s[i]
    <3>1. A[s[i]] = Deck(m, T[s[i]].filtered)
      BY <1>1, <1>3, <1>4, <2>1
    <3>2. QED
      BY <3>1 DEF Deck
  <2>2. CASE ~\E j \in 1..(i - 1) : s[j] = s[i]
    <3>1. A[s[i]] = T[s[i]]
      BY <1>1, <1>4, <2>2
    <3>2. QED
      BY <1>2, <3>1 DEF Deck
  <2>3. QED
    BY <2>1, <2>2
<1>7. \A d \in DOMAIN T : B[d] = IF d = s[i] THEN Deck(m, T[s[i]].filtered) ELSE A[d]
  BY <1>3, <1>4, <1>5
<1>8. DOMAIN A = DOMAIN T /\ DOMAIN B = DOMAIN T /\ B = [d \in DOMAIN T |-> B[d]]
  BY <1>4
<1>9. [A EXCEPT ![s[i]].name = m] = [d \in DOMAIN T |-> IF d = s[i] THEN [A[s[i]] EXCEPT !.name = m] ELSE A[d]]
  BY <1>1, <1>8
<1>10. B = [A EXCEPT ![s[i]].name = m]
  BY <1>6, <1>7, <1>8, <1>9
<1>11. QED
  BY <1>10 DEF A, B, m, WithName

LEMMA RenamedToIs ==
  ASSUME NEW T, Table(T), NEW old \in Seq(Comp), NEW new
  PROVE  /\ RenamedTo(T, child_decks(T, old), 0, old, new) = T
         /\ RenamedTo(T, child_decks(T, old), Len(child_decks(T, old)), old, new) = MovedBelow(T, old, new)
<1> DEFINE s == child_decks(T, old)
<1>1. /\ \A i \in 1..Len(s) : s[i] \in DOMAIN T /\ IsBelow(T[s[i]].name, old)
      /\ \A d \in DOMAIN T : IsBelow(T[d].name, old) => \E i \in 1..Len(s) : s[i] = d
  BY ChildrenIs
<1> HIDE DEF s
<1>2. RenamedTo(T, s, 0, old, new) = T
  <2>1. T = [d \in DOMAIN T |-> T[d]] /\ \A d \in DOMAIN T : ~ \E j \in 1..0 : s[j] = d
    BY DEF Table
  <2>2. QED
    BY <2>1 DEF RenamedTo
<1>3. \A d \in DOMAIN T : (\E j \in 1..Len(s) : s[j] = d) <=> IsBelow(T[d].name, old)
  BY <1>1
<1>4. RenamedTo(T, s, Len(s), old, new) = MovedBelow(T, old, new)
  BY <1>3 DEF RenamedTo, MovedBelow
<1>5. QED
  BY <1>2, <1>4 DEF s

\* Renames that the unique index accepts leave a table.
LEMMA ChildRenamesKeepTable ==
  ASSUME NEW T, Table(T), NEW old \in Seq(Comp), NEW new \in Seq(Comp),
         NEW s, s = child_decks(T, old), ChildRenames(T, s, old, new)
  PROVE  Table(MovedBelow(T, old, new))
<1>1. /\ s \in Seq(DOMAIN T)
      /\ \A i \in 1..Len(s) : s[i] \in DOMAIN T /\ IsBelow(T[s[i]].name, old)
  BY ChildrenIs
<1>2. Len(s) \in Nat /\ DOMAIN s = 1..Len(s)
  BY <1>1, SeqFacts
<1> DEFINE S == {i \in Nat : i <= Len(s) => /\ Table(RenamedTo(T, s, i, old, new))
                                            /\ DOMAIN RenamedTo(T, s, i, old, new) = DOMAIN T}
<1>3. 0 \in S
  BY RenamedToIs
<1>4. ASSUME NEW i \in Nat, i \in S PROVE i + 1 \in S
  <2>1. SUFFICES ASSUME i + 1 <= Len(s)
                 PROVE  /\ Table(RenamedTo(T, s, i + 1, old, new))
                        /\ DOMAIN RenamedTo(T, s, i + 1, old, new) = DOMAIN T
    OBVIOUS
  <2> DEFINE A == RenamedTo(T, s, i, old, new)
             m == reparent(T[s[i + 1]].name, old, new)
  <2>2. Table(A) /\ DOMAIN A = DOMAIN T
    BY <1>2, <1>4, <2>1
  <2>3. i + 1 \in 1..Len(s) /\ (i + 1) - 1 = i /\ i + 1 \in DOMAIN s
    BY <1>2, <2>1
  <2>4. s[i + 1] \in DOMAIN T /\ T[s[i + 1]].name \in Name /\ IsBelow(T[s[i + 1]].name, old)
    BY <1>1, <2>3 DEF Table
  <2>5. m \in Name
    BY <2>4, ReparentIs
  <2>6. RenamedTo(T, s, i + 1, old, new) = [A EXCEPT ![s[i + 1]].name = m]
    <3>1. PICK k \in 1..Len(s) : k = i + 1 /\ k - 1 = i
      BY <2>3
    <3>2. \A j \in 1..Len(s) : IsBelow(T[s[j]].name, old)
      BY <1>1
    <3> HIDE DEF A, m
    <3>3. RenamedTo(T, s, k, old, new) =
            WithName(RenamedTo(T, s, k - 1, old, new), s[k], reparent(T[s[k]].name, old, new))
      <4>1. Table(T) /\ s \in Seq(DOMAIN T)
        BY <1>1
      <4>2. QED
        BY ONLY <4>1, <3>1, <3>2, RenamedStep
    <3>4. QED
      BY <3>1, <3>3 DEF A, m, WithName
  <2>7. get_deck_id(A, m) \subseteq {s[i + 1]}
    <3>1. update_deck(RenamedTo(T, s, (i + 1) - 1, old, new), s[i + 1], m).why = ""
      BY <2>3 DEF ChildRenames
    <3>2. update_deck(A, s[i + 1], m).why = ""
      BY <2>3, <3>1
    <3> HIDE DEF A, m
    <3>3. QED
      BY <3>2, UpdateDeckIs
  <2> HIDE DEF A, m
  <2>8. s[i + 1] \in DOMAIN A
    BY <2>2, <2>4
  <2>9. /\ Table([A EXCEPT ![s[i + 1]].name = m])
        /\ DOMAIN [A EXCEPT ![s[i + 1]].name = m] = DOMAIN A
    BY ONLY <2>2, <2>5, <2>7, <2>8, RenameKeepsTable
  <2>10. QED
    BY <2>2, <2>6, <2>9
<1> HIDE DEF S
<1>5. \A i \in Nat : i \in S
  BY <1>3, <1>4, SetInduction
<1>6. Table(RenamedTo(T, s, Len(s), old, new))
  BY <1>2, <1>5 DEF S
<1>7. QED
  BY <1>6, RenamedToIs

\* Where no other deck has one of the new names, the index accepts them.
LEMMA ChildRenamesPass ==
  ASSUME NEW T, Table(T), NEW old \in Seq(Comp), NEW new \in Seq(Comp),
         NEW s, s = child_decks(T, old),
         \A d, e \in DOMAIN T :
            IsBelow(T[d].name, old) /\ Fold(T[e].name) = Fold(reparent(T[d].name, old, new)) => e = d
  PROVE  ChildRenames(T, s, old, new)
<1>1. /\ s \in Seq(DOMAIN T)
      /\ \A i \in 1..Len(s) : s[i] \in DOMAIN T /\ IsBelow(T[s[i]].name, old)
  BY ChildrenIs
<1>2. Len(s) \in Nat /\ DOMAIN s = 1..Len(s)
  BY <1>1, SeqFacts
<1>3. ASSUME NEW i \in 1..Len(s)
      PROVE  get_deck_id(RenamedTo(T, s, i - 1, old, new), reparent(T[s[i]].name, old, new)) \subseteq {s[i]}
  <2> DEFINE A == RenamedTo(T, s, i - 1, old, new)
             d == s[i]
             m == reparent(T[d].name, old, new)
  <2>1. d \in DOMAIN T /\ IsBelow(T[d].name, old)
    BY <1>1
  <2>2. DOMAIN A = DOMAIN T
    BY DEF RenamedTo
  <2>3. ASSUME NEW e \in DOMAIN T, Fold(A[e].name) = Fold(m) PROVE e = d
    <3>1. CASE \E j \in 1..(i - 1) : s[j] = e
      <4>1. PICK j \in 1..(i - 1) : s[j] = e
        BY <3>1
      <4>2. j \in 1..Len(s)
        BY <1>2
      <4>3. IsBelow(T[e].name, old) /\ T[e] \in [name : Name, filtered : BOOLEAN]
        BY <1>1, <4>1, <4>2 DEF Table
      <4>4. A[e] = Renamed(T[e], old, new)
        BY <3>1 DEF RenamedTo
      <4>5. A[e].name = reparent(T[e].name, old, new)
        BY <4>3, <4>4 DEF Renamed
      <4>6. T[d].name \in Name /\ T[e].name \in Name
        BY <2>1 DEF Table
      <4>7. Fold(T[e].name) = Fold(T[d].name)
        BY <2>1, <2>3, <4>3, <4>5, <4>6, ReparentInjective
      <4>8. QED
        BY <2>1, <4>7 DEF Table
    <3>2. CASE ~\E j \in 1..(i - 1) : s[j] = e
      <4>1. A[e] = T[e]
        BY <3>2 DEF RenamedTo
      <4>2. QED
        BY <2>1, <2>3, <4>1
    <3>3. QED
      BY <3>1, <3>2
  <2> HIDE DEF A, m, d
  <2>4. get_deck_id(A, m) \subseteq {d}
    BY <2>2, <2>3 DEF get_deck_id
  <2>5. QED
    BY <2>4 DEF A, m, d
<1>4. ASSUME NEW i \in 1..Len(s)
      PROVE  update_deck(RenamedTo(T, s, i - 1, old, new), s[i], reparent(T[s[i]].name, old, new)).why = ""
  <2> DEFINE A == RenamedTo(T, s, i - 1, old, new)
             m == reparent(T[s[i]].name, old, new)
  <2>1. get_deck_id(A, m) \subseteq {s[i]}
    BY <1>3
  <2> HIDE DEF A, m
  <2>2. update_deck(A, s[i], m).why = ""
    BY <2>1 DEF update_deck, Ok
  <2>3. QED
    BY <2>2 DEF A, m
<1>5. QED
  BY <1>2, <1>4 DEF ChildRenames

LEMMA NotBelowItself ==
  ASSUME NEW n \in Seq(Comp)
  PROVE  ~IsBelow(n, n)
<1>1. Len(n) \in Nat
  BY SeqFacts
<1>2. QED
  BY <1>1 DEF IsBelow

LEMMA MovedIs ==
  ASSUME NEW T, Table(T), NEW d \in DOMAIN T, NEW n \in Name
  PROVE  /\ WithName(MovedBelow(T, T[d].name, n), d, n) = Moved(T, d, n)
         /\ DOMAIN Moved(T, d, n) = DOMAIN T
         /\ Moved(T, d, n)[d] = Deck(n, T[d].filtered)
         /\ \A e \in DOMAIN T : IsBelow(T[e].name, T[d].name) =>
               /\ Moved(T, d, n)[e] = Deck(reparent(T[e].name, T[d].name, n), T[e].filtered)
               /\ reparent(T[e].name, T[d].name, n) \in Name
         /\ \A e \in DOMAIN T : e # d /\ ~IsBelow(T[e].name, T[d].name) =>
               Moved(T, d, n)[e] = T[e]
<1> DEFINE old == T[d].name
           B == MovedBelow(T, old, n)
<1>1. \A e \in DOMAIN T : T[e] \in [name : Name, filtered : BOOLEAN] /\ T[e].name \in Seq(Comp)
  BY NameIs DEF Table
<1>2. n \in Seq(Comp)
  BY NameIs
<1>3. ~IsBelow(old, old)
  BY <1>1, NotBelowItself
<1>4. B = [e \in DOMAIN T |-> IF IsBelow(T[e].name, old) THEN Renamed(T[e], old, n) ELSE T[e]]
  BY DEF MovedBelow
<1> HIDE DEF B
<1>5. B[d] = T[d] /\ DOMAIN B = DOMAIN T
  BY <1>3, <1>4
<1>6. [B[d] EXCEPT !.name = n] = Deck(n, T[d].filtered)
  BY <1>1, <1>5 DEF Deck
<1>7. WithName(B, d, n) = [e \in DOMAIN T |-> IF e = d THEN [B[d] EXCEPT !.name = n] ELSE B[e]]
  BY <1>5 DEF WithName
<1>8. \A e \in DOMAIN T : e # d => B[e] = IF IsBelow(T[e].name, old) THEN Renamed(T[e], old, n) ELSE T[e]
  BY <1>4
<1>9. WithName(B, d, n) = Moved(T, d, n)
  BY <1>6, <1>7, <1>8 DEF Moved
<1>10. \A e \in DOMAIN T : IsBelow(T[e].name, old) =>
          /\ e # d
          /\ Renamed(T[e], old, n) = Deck(reparent(T[e].name, old, n), T[e].filtered)
          /\ reparent(T[e].name, old, n) \in Name
  BY <1>1, <1>2, <1>3, RenamedIs
<1>11. /\ DOMAIN Moved(T, d, n) = DOMAIN T
       /\ Moved(T, d, n)[d] = Deck(n, T[d].filtered)
       /\ \A e \in DOMAIN T : IsBelow(T[e].name, old) =>
             /\ Moved(T, d, n)[e] = Deck(reparent(T[e].name, old, n), T[e].filtered)
             /\ reparent(T[e].name, old, n) \in Name
       /\ \A e \in DOMAIN T : e # d /\ ~IsBelow(T[e].name, old) => Moved(T, d, n)[e] = T[e]
  BY <1>10 DEF Moved
<1>12. QED
  BY <1>9, <1>11 DEF B

\* A deck and those below it get the new names, or there is a name clash.
LEMMA RenameWithChildrenIs ==
  ASSUME NEW T, Table(T), NEW d \in DOMAIN T, NEW n \in Name
  PROVE  /\ rename_with_children(T, d, n).why \in {"", "name_clash"}
         /\ rename_with_children(T, d, n).why = "" =>
               /\ rename_with_children(T, d, n).decks = Moved(T, d, n)
               /\ Table(Moved(T, d, n))
<1> DEFINE old == T[d].name
           B == MovedBelow(T, old, n)
           s == child_decks(T, old)
           r == rename_with_children(T, d, n)
<1>1. old \in Seq(Comp) /\ n \in Seq(Comp)
  BY NameIs DEF Table
<1>2. RenamedTo(T, s, Len(s), old, n) = B
  BY <1>1, RenamedToIs
<1> HIDE DEF B
<1>3. rename_child_decks(T, old, n) = IF ChildRenames(T, s, old, n) THEN Ok(B) ELSE Error("name_clash")
  BY <1>2, RenameChildrenIs
<1>4. CASE ~ChildRenames(T, s, old, n)
  <2>1. rename_child_decks(T, old, n).why = "name_clash"
    BY <1>3, <1>4 DEF Error
  <2>2. r.why = "name_clash"
    BY <2>1 DEF rename_with_children
  <2>3. QED
    BY <2>2
<1>5. CASE ChildRenames(T, s, old, n)
  <2>1. rename_child_decks(T, old, n).why = "" /\ rename_child_decks(T, old, n).decks = B
    <3>1. rename_child_decks(T, old, n) = Ok(B)
      BY <1>3, <1>5
    <3>2. Ok(B).why = "" /\ Ok(B).decks = B
      BY DEF Ok
    <3>3. QED
      BY <3>1, <3>2
  <2>2. r = update_deck(B, d, n)
    BY <2>1 DEF rename_with_children
  <2>3. Table(B)
    BY <1>1, <1>5, ChildRenamesKeepTable DEF B
  <2>4. DOMAIN B = DOMAIN T
    BY DEF B, MovedBelow
  <2> HIDE DEF r
  <2>5. r.why \in {"", "name_clash"}
    BY <2>2, UpdateDeckIs
  <2>6. ASSUME r.why = "" PROVE r.decks = Moved(T, d, n) /\ Table(Moved(T, d, n))
    <3>1. get_deck_id(B, n) \subseteq {d} /\ r.decks = [B EXCEPT ![d].name = n]
      BY <2>2, <2>6 DEF update_deck, Ok, Error
    <3>2. Table([B EXCEPT ![d].name = n])
      BY <2>3, <2>4, <3>1, RenameKeepsTable
    <3>3. WithName(B, d, n) = Moved(T, d, n)
      BY MovedIs DEF B
    <3>4. QED
      BY <3>1, <3>2, <3>3 DEF WithName
  <2>7. QED
    BY <2>5, <2>6 DEF r
<1>6. QED
  BY <1>4, <1>5

\* Where no other deck has one of the new names, all goes well.
LEMMA RenameWithChildrenPasses ==
  ASSUME NEW T, Table(T), NEW d \in DOMAIN T, NEW n \in Name,
         \A e \in DOMAIN T : Fold(T[e].name) = Fold(n) => e = d,
         \A c, e \in DOMAIN T :
            IsBelow(T[c].name, T[d].name) /\ Fold(T[e].name) = Fold(reparent(T[c].name, T[d].name, n)) => e = c
  PROVE  rename_with_children(T, d, n).why = ""
<1> DEFINE old == T[d].name
           B == MovedBelow(T, old, n)
           s == child_decks(T, old)
           r == rename_with_children(T, d, n)
<1>1. old \in Seq(Comp) /\ n \in Seq(Comp)
  BY NameIs DEF Table
<1>2. RenamedTo(T, s, Len(s), old, n) = B
  BY <1>1, RenamedToIs
<1> HIDE DEF B
<1>3. rename_child_decks(T, old, n) = IF ChildRenames(T, s, old, n) THEN Ok(B) ELSE Error("name_clash")
  BY <1>2, RenameChildrenIs
<1>4. ChildRenames(T, s, old, n)
  BY <1>1, ChildRenamesPass
<1>5. rename_child_decks(T, old, n).why = "" /\ rename_child_decks(T, old, n).decks = B
  <2>1. rename_child_decks(T, old, n) = Ok(B)
    BY <1>3, <1>4
  <2>2. Ok(B).why = "" /\ Ok(B).decks = B
    BY DEF Ok
  <2>3. QED
    BY <2>1, <2>2
<1>6. r = update_deck(B, d, n)
  BY <1>5 DEF rename_with_children
<1>7. DOMAIN B = DOMAIN T
  BY DEF B, MovedBelow
<1>8. ASSUME NEW e \in DOMAIN T, Fold(B[e].name) = Fold(n) PROVE e = d
  <2>1. T[e] \in [name : Name, filtered : BOOLEAN]
    BY DEF Table
  <2>2. CASE IsBelow(T[e].name, old)
    <3>1. B[e] = Renamed(T[e], old, n)
      BY <2>2 DEF B, MovedBelow
    <3>2. B[e].name = reparent(T[e].name, old, n)
      BY <2>1, <3>1 DEF Renamed
    <3>3. reparent(T[e].name, old, n) \in Name /\ Len(reparent(T[e].name, old, n)) > Len(n)
      BY <1>1, <2>1, <2>2, ReparentIs
    <3>4. Len(reparent(T[e].name, old, n)) = Len(n)
      <4>1. reparent(T[e].name, old, n) \in Seq(Comp)
        BY <3>3, NameIs
      <4>2. QED
        BY <1>1, <1>8, <3>2, <4>1, FoldIs
    <3>5. Len(n) \in Nat
      BY NameIs
    <3>6. QED
      BY <3>3, <3>4, <3>5
  <2>3. CASE ~IsBelow(T[e].name, old)
    <3>1. B[e] = T[e]
      BY <2>3 DEF B, MovedBelow
    <3>2. QED
      BY <1>8, <3>1
  <2>4. QED
    BY <2>2, <2>3
<1>9. get_deck_id(B, n) \subseteq {d}
  BY <1>7, <1>8 DEF get_deck_id
<1>10. update_deck(B, d, n).why = ""
  BY <1>9 DEF update_deck, Ok
<1>11. QED
  BY <1>6, <1>10

LEMMA OkIs ==
  ASSUME NEW T
  PROVE  Ok(T).why = "" /\ Ok(T).decks = T
  BY DEF Ok

(***************************************************************************)
(* Adding and renaming                                                     *)
(***************************************************************************)

\* The parents of a name do not take it.
LEMMA GrownLeavesFree ==
  ASSUME NEW T, NEW U, NEW n \in Name, NEW d, Grown(T, U, n), get_deck_id(T, n) \subseteq {d}
  PROVE  get_deck_id(U, n) \subseteq {d}
<1>1. n \in Seq(Comp) /\ Len(n) \in Nat
  BY NameIs
<1>2. ASSUME NEW e \in DOMAIN U, Fold(U[e].name) = Fold(n) PROVE e = d
  <2>1. CASE e \in DOMAIN T
    <3>1. U[e] = T[e]
      BY <2>1 DEF Grown
    <3>2. e \in get_deck_id(T, n)
      BY <1>2, <2>1, <3>1 DEF get_deck_id
    <3>3. QED
      BY <3>2
  <2>2. CASE e \notin DOMAIN T
    <3>1. PICK k \in 1..(Len(n) - 1) : U[e] = Deck(SubSeq(n, 1, k), FALSE)
      BY <2>2 DEF Grown
    <3>2. U[e].name = SubSeq(n, 1, k)
      BY <3>1 DEF Deck
    <3>3. k \in 1..Len(n) /\ k # Len(n)
      BY <1>1
    <3>4. SubSeq(n, 1, k) \in Name /\ Len(SubSeq(n, 1, k)) = k
      BY <3>3, PrefixIsName
    <3>5. SubSeq(n, 1, k) \in Seq(Comp)
      BY <3>4, NameIs
    <3>6. QED
      BY <1>1, <1>2, <3>2, <3>3, <3>4, <3>5, FoldIs
  <2>3. QED
    BY <2>1, <2>2
<1>3. QED
  BY <1>2 DEF get_deck_id

\* The parts of an operation that adds or renames.
Unique(T, d, n) == ensure_deck_name_unique(T, d, n)
Spelled(T, d, n) == MatchedName(T, Unique(T, d, n))
WithParents(T, d, n) == MatchedTable(T, Unique(T, d, n))

LEMMA PartsAre ==
  ASSUME NEW T, Table(T), NEW d, NEW n \in Name, nextId \in Nat \ {0}
  PROVE  /\ Unique(T, d, n) \in Name /\ Spelled(T, d, n) \in Name
         /\ get_deck_id(T, Unique(T, d, n)) \subseteq {d}
         /\ Fold(Spelled(T, d, n)) = Fold(Unique(T, d, n))
         /\ get_deck_id(T, Spelled(T, d, n)) \subseteq {d}
         /\ Grown(T, WithParents(T, d, n), Spelled(T, d, n))
         /\ get_deck_id(WithParents(T, d, n), Spelled(T, d, n)) \subseteq {d}
<1>1. Unique(T, d, n) \in Name /\ get_deck_id(T, Unique(T, d, n)) \subseteq {d}
  BY UniqueName DEF Unique, Table
<1>2. Spelled(T, d, n) \in Name /\ Fold(Spelled(T, d, n)) = Fold(Unique(T, d, n))
  BY <1>1, MatchedIs DEF Spelled
<1>3. get_deck_id(T, Spelled(T, d, n)) \subseteq {d}
  BY <1>1, <1>2 DEF get_deck_id
<1>4. Grown(T, WithParents(T, d, n), Spelled(T, d, n))
  BY <1>1, MatchedTableGrows DEF WithParents, Spelled
<1>5. get_deck_id(WithParents(T, d, n), Spelled(T, d, n)) \subseteq {d}
  BY <1>2, <1>3, <1>4, GrownLeavesFree
<1>6. QED
  BY <1>1, <1>2, <1>3, <1>4, <1>5

\* W is U with a new deck of the name m.
Added(U, W, m, f) ==
    /\ W = Put(U, Fresh(U), Deck(m, f))
    /\ Table(W)
    /\ DOMAIN W = DOMAIN U \cup {Fresh(U)}
    /\ Fresh(U) \in Nat \ {0} /\ \A e \in DOMAIN U : e < Fresh(U)
    /\ W[Fresh(U)] = Deck(m, f)
    /\ \A e \in DOMAIN U : W[e] = U[e]

LEMMA AddIs ==
  ASSUME NEW T, Table(T), NEW n \in Name, NEW f \in BOOLEAN, nextId \in Nat \ {0},
         NEW U, U = WithParents(T, 0, n), NEW m, m = Spelled(T, 0, n),
         NEW r, r = add_deck_inner(T, n, f)
  PROVE  /\ r.why \in {"", "filtered_parent"}
         /\ r.why = "" =>
              ~MustBeLeafNode(T, Unique(T, 0, n)) /\ Added(U, r.decks, m, f)
<1>1. r = IF MustBeLeafNode(T, Unique(T, 0, n)) THEN Error("filtered_parent")
          ELSE Ok(Put(U, Fresh(U), Deck(m, f)))
  BY DEF add_deck_inner, Unique, WithParents, Spelled
<1>2. CASE MustBeLeafNode(T, Unique(T, 0, n))
  <2>1. r.why = "filtered_parent"
    BY <1>1, <1>2 DEF Error
  <2>2. QED
    BY <2>1
<1>3. CASE ~MustBeLeafNode(T, Unique(T, 0, n))
  <2>1. r.why = "" /\ r.decks = Put(U, Fresh(U), Deck(m, f))
    <3>1. r = Ok(Put(U, Fresh(U), Deck(m, f)))
      BY <1>1, <1>3
    <3>2. QED
      BY ONLY <3>1, OkIs
  <2>2. Grown(T, U, m) /\ m \in Name /\ get_deck_id(U, m) \subseteq {0}
    BY PartsAre
  <2>3. Table(U)
    BY <2>2 DEF Grown
  <2>4. get_deck_id(U, m) \subseteq {Fresh(U)}
    BY <2>2, <2>3 DEF Table, get_deck_id
  <2>5. DOMAIN U \subseteq Nat /\ IsFiniteSet(DOMAIN U)
    BY <2>3 DEF Table
  <2>6. Fresh(U) \in Nat /\ nextId <= Fresh(U) /\ \A e \in DOMAIN U : e < Fresh(U)
    BY <2>5, FreshIs
  <2>7. Fresh(U) \in Nat \ {0}
    BY <2>6
  <2>8. /\ Table(Put(U, Fresh(U), Deck(m, f)))
        /\ DOMAIN Put(U, Fresh(U), Deck(m, f)) = DOMAIN U \cup {Fresh(U)}
        /\ Put(U, Fresh(U), Deck(m, f))[Fresh(U)] = Deck(m, f)
        /\ \A e \in DOMAIN U : e # Fresh(U) => Put(U, Fresh(U), Deck(m, f))[e] = U[e]
    <3>1. f \in BOOLEAN
      OBVIOUS
    <3>2. WithDeck(U, Put(U, Fresh(U), Deck(m, f)), Fresh(U), Deck(m, f))
      BY ONLY <3>1, <2>2, <2>3, <2>4, <2>7, PutKeepsTable
    <3>3. QED
      BY <3>2 DEF WithDeck
  <2>9. \A e \in DOMAIN U : e # Fresh(U)
    BY <2>5, <2>6
  <2>10. QED
    BY <1>3, <2>1, <2>6, <2>7, <2>8, <2>9 DEF Added
<1>4. QED
  BY <1>2, <1>3

\* What a rename of the deck d to n comes to.
Updates(T, d, n, U, m, r) ==
    /\ r.why \in {"", "filtered_parent", "name_clash"}
    /\ Unique(T, d, n) = T[d].name => r = Ok(T)
    /\ Unique(T, d, n) # T[d].name =>
         /\ MustBeLeafNode(T, Unique(T, d, n)) => r.why = "filtered_parent"
         /\ r.why = "name_clash" => rename_with_children(U, d, m).why # ""
         /\ r.why = "" =>
              /\ ~MustBeLeafNode(T, Unique(T, d, n))
              /\ r.decks = create_missing_parents(Moved(U, d, m), m)
              /\ Table(Moved(U, d, m))

LEMMA UpdateIs ==
  ASSUME NEW T, Table(T), NEW d \in DOMAIN T, NEW n \in Name, nextId \in Nat \ {0},
         NEW U, U = WithParents(T, d, n), NEW m, m = Spelled(T, d, n),
         NEW r, r = update_deck_inner(T, d, n)
  PROVE  Updates(T, d, n, U, m, r)
<1> SUFFICES /\ r.why \in {"", "filtered_parent", "name_clash"}
             /\ Unique(T, d, n) = T[d].name => r = Ok(T)
             /\ Unique(T, d, n) # T[d].name =>
                  /\ MustBeLeafNode(T, Unique(T, d, n)) => r.why = "filtered_parent"
                  /\ r.why = "name_clash" => rename_with_children(U, d, m).why # ""
                  /\ r.why = "" =>
                       /\ ~MustBeLeafNode(T, Unique(T, d, n))
                       /\ r.decks = create_missing_parents(Moved(U, d, m), m)
                       /\ Table(Moved(U, d, m))
  BY DEF Updates
<1> DEFINE R == rename_with_children(U, d, m)
<1>1. r = IF Unique(T, d, n) = T[d].name THEN Ok(T)
          ELSE IF MustBeLeafNode(T, Unique(T, d, n)) THEN Error("filtered_parent")
          ELSE IF R.why # "" THEN R
          ELSE Ok(create_missing_parents(R.decks, m))
  BY DEF update_deck_inner, Unique, WithParents, Spelled
<1>2. Grown(T, U, m) /\ m \in Name
  BY PartsAre
<1>3. Table(U) /\ d \in DOMAIN U
  BY <1>2 DEF Grown
<1>4. /\ R.why \in {"", "name_clash"}
      /\ R.why = "" => R.decks = Moved(U, d, m) /\ Table(Moved(U, d, m))
  BY <1>2, <1>3, RenameWithChildrenIs
<1> HIDE DEF R
<1>5. CASE Unique(T, d, n) = T[d].name
  <2>1. r = Ok(T)
    BY <1>1, <1>5
  <2>2. r.why = ""
    BY ONLY <2>1, OkIs
  <2>3. QED
    BY <1>5, <2>1, <2>2
<1>6. CASE Unique(T, d, n) # T[d].name /\ MustBeLeafNode(T, Unique(T, d, n))
  <2>1. r = Error("filtered_parent")
    BY <1>1, <1>6
  <2>2. r.why = "filtered_parent"
    BY <2>1 DEF Error
  <2>3. QED
    BY <1>6, <2>2
<1>7. CASE Unique(T, d, n) # T[d].name /\ ~MustBeLeafNode(T, Unique(T, d, n)) /\ R.why # ""
  <2>1. r = R
    BY <1>1, <1>7
  <2>2. r.why = "name_clash"
    BY <1>4, <1>7, <2>1
  <2>3. QED
    BY <1>7, <2>2 DEF R
<1>8. CASE Unique(T, d, n) # T[d].name /\ ~MustBeLeafNode(T, Unique(T, d, n)) /\ R.why = ""
  <2>1. r = Ok(create_missing_parents(R.decks, m))
    BY <1>1, <1>8
  <2>2. r.why = "" /\ r.decks = create_missing_parents(R.decks, m)
    BY ONLY <2>1, OkIs
  <2>3. QED
    BY <1>4, <1>8, <2>2
<1>9. QED
  BY <1>5, <1>6, <1>7, <1>8

(***************************************************************************)
(* Whole trees                                                             *)
(***************************************************************************)

\* The deck that is the parent of a name, in its spelling.
ParentOf(T, n) == \E p \in DOMAIN T : T[p].name = Front(n) /\ ~T[p].filtered
Whole(T) == \A d \in DOMAIN T : Len(T[d].name) > 1 => ParentOf(T, T[d].name)
\* All the decks above a name.
AllAbove(T, n) ==
    \A k \in 1..(Len(n) - 1) : \E p \in DOMAIN T : T[p].name = SubSeq(n, 1, k) /\ ~T[p].filtered

LEMMA PrefixOfPrefix ==
  ASSUME NEW n \in Seq(Comp), NEW k \in 0..Len(n), NEW j \in 0..k
  PROVE  SubSeq(SubSeq(n, 1, k), 1, j) = SubSeq(n, 1, j)
<1> DEFINE a == SubSeq(n, 1, k)
           b == SubSeq(a, 1, j)
           c == SubSeq(n, 1, j)
<1>1. Len(n) \in Nat /\ j \in 0..Len(n) /\ k \in Nat
  BY SeqFacts
<1>2. a \in Seq(Comp) /\ Len(a) = k /\ \A i \in 1..k : a[i] = n[i]
  BY PrefixIs
<1>3. c \in Seq(Comp) /\ Len(c) = j /\ \A i \in 1..j : c[i] = n[i]
  BY <1>1, PrefixIs
<1> HIDE DEF a, c
<1>4. b \in Seq(Comp) /\ Len(b) = j /\ \A i \in 1..j : b[i] = a[i]
  BY <1>2, PrefixIs
<1> HIDE DEF b
<1>5. \A i \in 1..j : i \in 1..k
  BY <1>1
<1>6. \A i \in 1..Len(b) : b[i] = c[i]
  BY <1>2, <1>3, <1>4, <1>5
<1>7. b = c
  BY ONLY <1>3, <1>4, <1>6, SeqEqual
<1>8. QED
  BY <1>7 DEF a, b, c

\* In a whole tree every deck has all the decks above it.
LEMMA WholeHasPrefixes ==
  ASSUME NEW T, Table(T), Whole(T), NEW d \in DOMAIN T
  PROVE  AllAbove(T, T[d].name)
<1> DEFINE n == T[d].name
           S == {j \in Nat : j <= Len(n) - 2 =>
                    \E p \in DOMAIN T : T[p].name = SubSeq(n, 1, Len(n) - 1 - j) /\ ~T[p].filtered}
<1>1. n \in Name /\ n \in Seq(Comp) /\ Len(n) \in Nat
  BY NameIs DEF Table
<1>2. 0 \in S
  <2>1. ASSUME 0 <= Len(n) - 2
        PROVE  \E p \in DOMAIN T : T[p].name = SubSeq(n, 1, Len(n) - 1 - 0) /\ ~T[p].filtered
    <3>1. ParentOf(T, n)
      BY <1>1, <2>1 DEF Whole
    <3>2. Front(n) = SubSeq(n, 1, Len(n) - 1) /\ Len(n) - 1 - 0 = Len(n) - 1
      BY <1>1, FrontIs
    <3>3. QED
      BY <3>1, <3>2 DEF ParentOf
  <2>2. QED
    BY <2>1
<1>3. ASSUME NEW j \in Nat, j \in S PROVE j + 1 \in S
  <2>1. SUFFICES ASSUME j + 1 <= Len(n) - 2
                 PROVE  \E p \in DOMAIN T : T[p].name = SubSeq(n, 1, Len(n) - 1 - (j + 1)) /\ ~T[p].filtered
    OBVIOUS
  <2> DEFINE k == Len(n) - 1 - j
  <2>2. PICK p \in DOMAIN T : T[p].name = SubSeq(n, 1, k) /\ ~T[p].filtered
    BY <1>1, <1>3, <2>1
  <2>3. k \in Nat /\ k >= 2 /\ k \in 0..Len(n) /\ Len(n) - 1 - (j + 1) = k - 1 /\ k - 1 \in 0..k
    BY <1>1, <2>1
  <2> HIDE DEF k, n
  <2>4. SubSeq(n, 1, k) \in Seq(Comp) /\ Len(SubSeq(n, 1, k)) = k
    BY <1>1, <2>3, PrefixIs
  <2>5. Len(T[p].name) > 1 /\ T[p].name \in Name
    <3>1. T[p].name \in Name
      BY DEF Table
    <3>2. Len(T[p].name) = k
      BY <2>2, <2>4
    <3>3. QED
      BY <2>3, <3>1, <3>2
  <2>6. ParentOf(T, T[p].name)
    BY <2>5 DEF Whole
  <2>7. Front(T[p].name) = SubSeq(SubSeq(n, 1, k), 1, k - 1)
    BY <2>2, <2>4, <2>5, FrontIs
  <2>8. Front(T[p].name) = SubSeq(n, 1, k - 1)
    BY <1>1, <2>3, <2>7, PrefixOfPrefix
  <2>9. QED
    BY <2>3, <2>6, <2>8 DEF ParentOf
<1> HIDE DEF S
<1>4. \A j \in Nat : j \in S
  BY <1>2, <1>3, SetInduction
<1>5. ASSUME NEW k \in 1..(Len(n) - 1)
      PROVE  \E p \in DOMAIN T : T[p].name = SubSeq(n, 1, k) /\ ~T[p].filtered
  <2>1. Len(n) - 1 - k \in Nat /\ Len(n) - 1 - k <= Len(n) - 2 /\ Len(n) - 1 - (Len(n) - 1 - k) = k
    BY <1>1
  <2>2. Len(n) - 1 - k \in S
    BY <1>4, <2>1
  <2> HIDE DEF n
  <2>3. QED
    BY <2>1, <2>2 DEF S
<1>6. QED
  BY <1>5 DEF AllAbove

\* The deck above a name, at its length.
LEMMA AboveInWhole ==
  ASSUME NEW T, Table(T), Whole(T), NEW e \in DOMAIN T, NEW n \in Name, IsBelow(T[e].name, n)
  PROVE  \E p \in DOMAIN T : /\ T[p].name = SubSeq(T[e].name, 1, Len(n))
                             /\ Fold(T[p].name) = Fold(n) /\ ~T[p].filtered
<1> DEFINE m == T[e].name
<1>1. m \in Seq(Comp) /\ Len(m) \in Nat /\ n \in Seq(Comp) /\ Len(n) \in Nat /\ Len(n) >= 1
  BY NameIs DEF Table
<1>2. Len(m) > Len(n) /\ Fold(SubSeq(m, 1, Len(n))) = Fold(n)
  BY DEF IsBelow
<1>3. AllAbove(T, m)
  BY WholeHasPrefixes
<1>4. Len(n) \in 1..(Len(m) - 1)
  BY <1>1, <1>2
<1> HIDE DEF m
<1>5. PICK p \in DOMAIN T : T[p].name = SubSeq(m, 1, Len(n)) /\ ~T[p].filtered
  BY <1>3, <1>4 DEF AllAbove
<1>6. QED
  BY <1>2, <1>5 DEF m

\* A new prefix that differs in case at most leaves the names the same.
LEMMA ReparentSame ==
  ASSUME NEW n \in Name, NEW old \in Seq(Comp), NEW new \in Seq(Comp),
         IsBelow(n, old), Fold(old) = Fold(new)
  PROVE  Fold(reparent(n, old, new)) = Fold(n)
<1> DEFINE r == reparent(n, old, new)
<1>1. n \in Seq(Comp) /\ Len(n) \in Nat /\ Len(old) \in Nat /\ Len(new) \in Nat
  BY NameIs, SeqFacts
<1>2. Len(old) = Len(new) /\ Agree(old, new, Len(old))
  BY FoldIs
<1>3. Len(n) > Len(old) /\ Agree(n, old, Len(old))
  BY <1>1, BelowIs
<1>4. /\ r \in Name /\ Len(r) = Len(new) + Len(n) - Len(old)
      /\ \A i \in 1..Len(new) : r[i] = new[i]
      /\ \A i \in (Len(new) + 1)..(Len(new) + Len(n) - Len(old)) : r[i] = n[i - Len(new) + Len(old)]
  BY ReparentIs
<1> HIDE DEF r
<1>5. Len(r) = Len(n) /\ r \in Seq(Comp)
  BY <1>1, <1>2, <1>4, NameIs
<1>6. ASSUME NEW i \in 1..Len(r) PROVE Key(r[i]) = Key(n[i])
  <2>1. i \in Nat /\ i >= 1 /\ i <= Len(n)
    BY <1>1, <1>5
  <2>2. CASE i <= Len(old)
    <3>1. i \in 1..Len(old) /\ i \in 1..Len(new)
      BY <1>1, <1>2, <2>1, <2>2
    <3>2. r[i] = new[i] /\ Key(old[i]) = Key(new[i]) /\ Key(n[i]) = Key(old[i])
      BY <1>2, <1>3, <1>4, <3>1 DEF Agree
    <3>3. QED
      BY <3>2
  <2>3. CASE ~(i <= Len(old))
    <3>1. i \in (Len(new) + 1)..(Len(new) + Len(n) - Len(old)) /\ i - Len(new) + Len(old) = i
      BY <1>1, <1>2, <2>1, <2>3
    <3>2. r[i] = n[i]
      BY <1>4, <3>1
    <3>3. QED
      BY <3>2
  <2>4. QED
    BY <2>2, <2>3
<1>7. Agree(r, n, Len(r))
  BY <1>6 DEF Agree
<1>8. Fold(r) = Fold(n)
  BY <1>1, <1>5, <1>7, FoldIs
<1>9. QED
  BY <1>8 DEF r

LEMMA ReparentBelow ==
  ASSUME NEW n \in Name, NEW old \in Seq(Comp), NEW new \in Seq(Comp), IsBelow(n, old)
  PROVE  IsBelow(reparent(n, old, new), new)
<1> DEFINE r == reparent(n, old, new)
<1>1. /\ r \in Name /\ Len(r) > Len(new)
      /\ \A i \in 1..Len(new) : r[i] = new[i]
  BY ReparentIs
<1> HIDE DEF r
<1>2. r \in Seq(Comp) /\ Agree(r, new, Len(new))
  BY <1>1, NameIs DEF Agree
<1>3. QED
  BY <1>1, <1>2, BelowIs DEF r

\* In a whole tree no move to a free name is refused.
LEMMA RenamesPass ==
  ASSUME NEW T, Table(T), Whole(T), NEW d \in DOMAIN T, NEW n \in Name,
         get_deck_id(T, n) \subseteq {d}
  PROVE  rename_with_children(T, d, n).why = ""
<1>1. \A e \in DOMAIN T : T[e].name \in Name /\ T[e].name \in Seq(Comp)
  BY NameIs DEF Table
<1>2. n \in Seq(Comp)
  BY NameIs
<1>3. \A e \in DOMAIN T : Fold(T[e].name) = Fold(n) => e = d
  BY DEF get_deck_id
<1>4. ASSUME NEW c \in DOMAIN T, NEW e \in DOMAIN T, IsBelow(T[c].name, T[d].name),
             Fold(T[e].name) = Fold(reparent(T[c].name, T[d].name, n))
      PROVE  e = c
  <2> DEFINE r == reparent(T[c].name, T[d].name, n)
  <2>1. r \in Name /\ IsBelow(r, n)
    BY <1>1, <1>2, <1>4, ReparentIs, ReparentBelow
  <2>2. r \in Seq(Comp)
    BY <2>1, NameIs
  <2>3. IsBelow(T[e].name, n)
    <3> HIDE DEF r
    <3>1. Len(r) > Len(n) /\ Agree(r, n, Len(n)) /\ Len(r) \in Nat /\ Len(n) \in Nat
      BY <1>2, <2>1, <2>2, BelowIs, NameIs
    <3>2. Len(T[e].name) = Len(r) /\ Agree(T[e].name, r, Len(T[e].name))
      BY <1>1, <1>4, <2>2, FoldIs DEF r
    <3>3. \A i \in 1..Len(n) : i \in 1..Len(T[e].name)
      BY <3>1, <3>2
    <3>4. Agree(T[e].name, n, Len(n))
      BY <3>1, <3>2, <3>3 DEF Agree
    <3>5. QED
      BY <1>1, <1>2, <3>1, <3>2, <3>4, BelowIs
  <2>4. PICK p \in DOMAIN T : Fold(T[p].name) = Fold(n)
    BY <2>3, AboveInWhole
  <2>5. Fold(T[d].name) = Fold(n)
    BY <1>3, <2>4
  <2>6. Fold(r) = Fold(T[c].name)
    BY <1>1, <1>2, <1>4, <2>5, ReparentSame
  <2>7. QED
    BY <1>4, <2>6 DEF Table
<1>5. QED
  BY <1>3, <1>4, RenameWithChildrenPasses

(***************************************************************************)
(* Adding keeps the tree whole                                             *)
(***************************************************************************)

LEMMA FrontOfPrefix ==
  ASSUME NEW n \in Name, NEW k \in 2..Len(n)
  PROVE  /\ SubSeq(n, 1, k) \in Name /\ Len(SubSeq(n, 1, k)) = k
         /\ Front(SubSeq(n, 1, k)) = SubSeq(n, 1, k - 1)
<1>1. n \in Seq(Comp) /\ Len(n) \in Nat
  BY NameIs
<1>2. k \in 1..Len(n) /\ k \in 0..Len(n) /\ k - 1 \in 0..k
  BY <1>1
<1> DEFINE m == SubSeq(n, 1, k)
<1>3. m \in Name /\ Len(m) = k
  BY <1>2, PrefixIsName
<1>4. Front(m) = SubSeq(m, 1, k - 1)
  BY <1>3, FrontIs
<1>5. SubSeq(m, 1, k - 1) = SubSeq(n, 1, k - 1)
  BY <1>1, <1>2, PrefixOfPrefix
<1>6. QED
  BY <1>3, <1>4, <1>5

\* With all decks above a name in T, a table grown from T by parents of it stays whole.
LEMMA GrownIsWhole ==
  ASSUME NEW T, NEW U, Table(T), Whole(T), NEW n \in Name, Grown(T, U, n), AllAbove(U, n)
  PROVE  Whole(U)
<1>1. n \in Seq(Comp) /\ Len(n) \in Nat
  BY NameIs
<1>2. ASSUME NEW e \in DOMAIN U, Len(U[e].name) > 1 PROVE ParentOf(U, U[e].name)
  <2>1. CASE e \in DOMAIN T
    <3>1. U[e] = T[e]
      BY <2>1 DEF Grown
    <3>2. ParentOf(T, T[e].name)
      BY <1>2, <2>1, <3>1 DEF Whole
    <3>3. QED
      BY <3>1, <3>2 DEF ParentOf, Grown
  <2>2. CASE e \notin DOMAIN T
    <3>1. PICK k \in 1..(Len(n) - 1) : U[e] = Deck(SubSeq(n, 1, k), FALSE)
      BY <2>2 DEF Grown
    <3>2. U[e].name = SubSeq(n, 1, k)
      BY <3>1 DEF Deck
    <3>3. Len(SubSeq(n, 1, k)) = k
      <4>1. k \in 1..Len(n)
        BY <1>1
      <4>2. QED
        BY <4>1, PrefixIsName
    <3>4. k \in 2..Len(n) /\ k - 1 \in 1..(Len(n) - 1)
      BY <1>1, <1>2, <3>2, <3>3
    <3>5. Front(U[e].name) = SubSeq(n, 1, k - 1)
      BY <3>2, <3>4, FrontOfPrefix
    <3>6. QED
      BY <3>4, <3>5 DEF AllAbove, ParentOf
  <2>3. QED
    BY <2>1, <2>2
<1>3. QED
  BY <1>2 DEF Whole

LEMMA MatchedTableIsWhole ==
  ASSUME NEW T, Table(T), Whole(T), NEW n \in Name, nextId \in Nat \ {0},
         ~MustBeLeafNode(T, n),
         NEW m, m = MatchedName(T, n), NEW U, U = MatchedTable(T, n)
  PROVE  Whole(U) /\ AllAbove(U, m) /\ Table(U)
<1>1. m \in Name /\ Fold(m) = Fold(n) /\ Len(m) = Len(n) /\ Len(m) \in Nat /\ m \in Seq(Comp)
  BY MatchedIs, NameIs
<1>2. Grown(T, U, m)
  BY MatchedTableGrows
<1>3. Table(U)
  BY <1>2 DEF Grown
<1> DEFINE E == ExistingParents(T, n)
           K == Max(E)
<1>4. \A p \in DOMAIN T : p \in DOMAIN U /\ U[p] = T[p]
  BY <1>2 DEF Grown
<1>5. ASSUME E # {}, NEW k \in 1..K
      PROVE  \E p \in DOMAIN U : U[p].name = SubSeq(m, 1, k) /\ ~U[p].filtered
  <2>1. K \in E /\ K \in 1..(Len(n) - 1)
    BY <1>5, ExistingParentsIs DEF ExistingParents
  <2>2. PICK e \in DOMAIN T : MatchesParent(T, n, e)
    BY <1>5, MatchedIs
  <2>3. T[e].name = SubSeq(m, 1, K) /\ Len(T[e].name) = K /\ T[e] = first_existing_parent(T, n)
    BY <2>2 DEF MatchesParent
  <2>4. ~T[e].filtered
    BY <1>5, <2>3 DEF MustBeLeafNode
  <2> HIDE DEF K, E
  <2>5. CASE k = K
    BY <1>4, <2>3, <2>4, <2>5
  <2>6. CASE k # K
    <3>1. k \in 1..(Len(T[e].name) - 1) /\ K \in 0..Len(m) /\ k \in 0..K
      BY <1>1, <2>1, <2>3, <2>6
    <3>2. AllAbove(T, T[e].name)
      BY WholeHasPrefixes
    <3>3. PICK p \in DOMAIN T : T[p].name = SubSeq(T[e].name, 1, k) /\ ~T[p].filtered
      BY <3>1, <3>2 DEF AllAbove
    <3>4. T[p].name = SubSeq(m, 1, k)
      BY <1>1, <2>3, <3>1, <3>3, PrefixOfPrefix
    <3>5. QED
      BY <1>4, <3>3, <3>4
  <2>7. QED
    BY <2>5, <2>6
<1>6. ASSUME NEW k \in 1..(Len(m) - 1), ~(E # {} /\ k \in 1..K)
      PROVE  \E p \in DOMAIN U : U[p].name = SubSeq(m, 1, k) /\ ~U[p].filtered
  <2>1. ASSUME NEW j \in E PROVE j \in Nat /\ j < k
    <3>1. E # {}
      OBVIOUS
    <3>2. j <= K /\ K \in E /\ E \subseteq Nat
      BY <3>1, ExistingParentsIs
    <3> HIDE DEF K, E
    <3>3. ~(k \in 1..K) /\ K \in Nat /\ j \in Nat
      BY <1>6, <3>1, <3>2
    <3>4. QED
      BY <1>1, <3>2, <3>3
  <2>2. k \notin E /\ Len(n) - 1 \notin E
    BY <1>1, <2>1
  <2>3. U = create_missing_parents(T, m)
    BY <2>2, MatchedTableGrows
  <2>4. get_deck_id(U, SubSeq(m, 1, k)) # {}
    BY <1>1, <2>3, MissingParentsGrow
  <2>5. PICK d \in DOMAIN U : Fold(U[d].name) = Fold(SubSeq(m, 1, k))
    BY <2>4 DEF get_deck_id
  <2>6. k \notin ExistingParents(T, m)
    BY <1>1, <2>2, SameExistingParents
  <2>7. d \notin DOMAIN T
    <3>1. get_deck_id(T, SubSeq(m, 1, k)) = {}
      BY <2>6 DEF ExistingParents
    <3>2. QED
      BY <1>4, <2>5, <3>1 DEF get_deck_id
  <2>8. PICK j \in 1..(Len(m) - 1) : U[d] = Deck(SubSeq(m, 1, j), FALSE)
    BY <1>2, <2>7 DEF Grown
  <2>9. U[d].name = SubSeq(m, 1, j) /\ ~U[d].filtered
    BY <2>8 DEF Deck
  <2>10. k \in 0..Len(m) /\ j \in 0..Len(m)
    BY <1>1
  <2>11. /\ SubSeq(m, 1, k) \in Seq(Comp) /\ Len(SubSeq(m, 1, k)) = k
         /\ SubSeq(m, 1, j) \in Seq(Comp) /\ Len(SubSeq(m, 1, j)) = j
    BY <1>1, <2>10, PrefixIs
  <2>12. j = k
    BY <2>5, <2>9, <2>11, FoldIs
  <2>13. QED
    BY <2>9, <2>12
<1>7. AllAbove(U, m)
  BY <1>5, <1>6 DEF AllAbove
<1>8. Whole(U)
  BY <1>1, <1>2, <1>7, GrownIsWhole
<1>9. QED
  BY <1>3, <1>7, <1>8

\* A deck added where it has its parents.
LEMMA AddKeepsWhole ==
  ASSUME NEW T, Table(T), Whole(T), NEW n \in Name, NEW f \in BOOLEAN, nextId \in Nat \ {0},
         NEW r, r = add_deck_inner(T, n, f), r.why = ""
  PROVE  Whole(r.decks)
<1> DEFINE u == Unique(T, 0, n)
<1>1. PICK U : U = WithParents(T, 0, n)
  OBVIOUS
<1>2. PICK m : m = Spelled(T, 0, n)
  OBVIOUS
<1>101. ~MustBeLeafNode(T, u) /\ Added(U, r.decks, m, f)
  BY <1>1, <1>2, AddIs
<1>3. /\ DOMAIN r.decks = DOMAIN U \cup {Fresh(U)}
      /\ r.decks[Fresh(U)] = Deck(m, f)
      /\ \A e \in DOMAIN U : r.decks[e] = U[e]
  BY <1>101 DEF Added
<1>4. u \in Name /\ m \in Name
  BY <1>2, PartsAre
<1>5. Whole(U) /\ AllAbove(U, m)
  BY <1>1, <1>2, <1>101, <1>4, MatchedTableIsWhole DEF WithParents, Spelled
<1>6. ASSUME NEW e \in DOMAIN r.decks, Len(r.decks[e].name) > 1 PROVE ParentOf(r.decks, r.decks[e].name)
  <2>1. CASE e \in DOMAIN U
    <3>1. ParentOf(U, U[e].name) /\ r.decks[e] = U[e]
      BY <1>3, <1>5, <1>6, <2>1 DEF Whole
    <3>2. QED
      BY <1>3, <3>1 DEF ParentOf
  <2>2. CASE e \notin DOMAIN U
    <3>1. r.decks[e].name = m /\ Len(m) > 1
      <4>1. e = Fresh(U)
        BY <1>3, <2>2
      <4>2. r.decks[e] = Deck(m, f)
        BY <1>3, <4>1
      <4>3. Deck(m, f).name = m
        BY DEF Deck
      <4>4. r.decks[e].name = m
        BY <4>2, <4>3
      <4>5. QED
        BY <1>6, <4>4
    <3>2. Front(m) = SubSeq(m, 1, Len(m) - 1) /\ Len(m) \in Nat
      BY <1>4, FrontIs, NameIs
    <3>3. Len(m) - 1 \in 1..(Len(m) - 1)
      <4>1. Len(m) \in Nat /\ Len(m) > 1
        BY <3>1, <3>2
      <4>2. QED
        BY ONLY <4>1
    <3>4. PICK p \in DOMAIN U : U[p].name = Front(m) /\ ~U[p].filtered
      BY <1>5, <3>2, <3>3 DEF AllAbove
    <3>5. QED
      BY <1>3, <3>1, <3>4 DEF ParentOf
  <2>3. QED
    BY <2>1, <2>2
<1>7. QED
  BY <1>6 DEF Whole

(***************************************************************************)
(* Moving keeps the tree whole                                             *)
(***************************************************************************)

\* Of a name at least as long as the old one, the parent moves along.
LEMMA FrontReparent ==
  ASSUME NEW n \in Name, NEW old \in Name, NEW new \in Name, IsBelow(n, old)
  PROVE  \/ Len(n) = Len(old) + 1 /\ Front(reparent(n, old, new)) = new
         \/ IsBelow(Front(n), old) /\ Front(reparent(n, old, new)) = reparent(Front(n), old, new)
<1> DEFINE r == reparent(n, old, new)
           f == Front(n)
<1>1. /\ n \in Seq(Comp) /\ Len(n) \in Nat /\ old \in Seq(Comp) /\ Len(old) \in Nat /\ Len(old) >= 1
      /\ new \in Seq(Comp) /\ Len(new) \in Nat /\ Len(new) >= 1
  BY NameIs
<1>2. Len(n) > Len(old) /\ Agree(n, old, Len(old))
  BY <1>1, BelowIs
<1>3. /\ r \in Name /\ Len(r) = Len(new) + Len(n) - Len(old)
      /\ \A i \in 1..Len(new) : r[i] = new[i]
      /\ \A i \in (Len(new) + 1)..(Len(new) + Len(n) - Len(old)) : r[i] = n[i - Len(new) + Len(old)]
  BY <1>1, ReparentIs
<1> HIDE DEF r
<1>4. Front(r) \in Seq(Comp) /\ Len(Front(r)) = Len(r) - 1 /\ \A i \in 1..(Len(r) - 1) : Front(r)[i] = r[i]
  BY <1>3, FrontIs
<1>5. /\ f \in Seq(Comp) /\ Len(f) = Len(n) - 1 /\ (\A i \in 1..(Len(n) - 1) : f[i] = n[i])
      /\ Len(n) > 1 => f \in Name
  BY FrontIs
<1> HIDE DEF f
<1>6. CASE Len(n) = Len(old) + 1
  <2>1. Len(Front(r)) = Len(new) /\ Len(r) - 1 = Len(new)
    BY <1>1, <1>3, <1>4, <1>6
  <2>2. \A i \in 1..Len(Front(r)) : Front(r)[i] = new[i]
    BY <1>3, <1>4, <2>1
  <2>3. Front(r) = new
    BY ONLY <1>1, <1>4, <2>1, <2>2, SeqEqual
  <2>4. QED
    BY <1>6, <2>3 DEF r
<1>7. CASE Len(n) # Len(old) + 1
  <2>1. Len(f) > Len(old) /\ f \in Name
    BY <1>1, <1>2, <1>5, <1>7
  <2>2. Agree(f, old, Len(old))
    <3>1. \A i \in 1..Len(old) : i \in 1..(Len(n) - 1)
      BY <1>1, <1>2
    <3>2. QED
      BY <1>2, <1>5, <3>1 DEF Agree
  <2>3. IsBelow(f, old)
    BY <1>1, <1>5, <2>1, <2>2, BelowIs
  <2> DEFINE q == reparent(f, old, new)
  <2>4. /\ q \in Name /\ Len(q) = Len(new) + Len(f) - Len(old)
        /\ \A i \in 1..Len(new) : q[i] = new[i]
        /\ \A i \in (Len(new) + 1)..(Len(new) + Len(f) - Len(old)) : q[i] = f[i - Len(new) + Len(old)]
    BY <1>1, <2>1, <2>3, ReparentIs
  <2> HIDE DEF q
  <2>5. Len(Front(r)) = Len(q) /\ Len(r) - 1 = Len(q) /\ Len(q) = Len(new) + Len(n) - 1 - Len(old)
    BY <1>1, <1>3, <1>4, <1>5, <2>4
  <2>6. ASSUME NEW i \in 1..Len(q) PROVE Front(r)[i] = q[i]
    <3>1. Front(r)[i] = r[i]
      BY <1>4, <2>5
    <3>2. CASE i <= Len(new)
      <4>1. i \in 1..Len(new)
        BY <1>1, <2>5, <3>2
      <4>2. QED
        BY <1>3, <2>4, <3>1, <4>1
    <3>3. CASE ~(i <= Len(new))
      <4>1. /\ i \in (Len(new) + 1)..(Len(new) + Len(n) - Len(old))
            /\ i \in (Len(new) + 1)..(Len(new) + Len(f) - Len(old))
            /\ i - Len(new) + Len(old) \in 1..(Len(n) - 1)
        BY <1>1, <1>2, <1>5, <2>5, <3>3
      <4>2. r[i] = n[i - Len(new) + Len(old)] /\ q[i] = f[i - Len(new) + Len(old)]
        BY <1>3, <2>4, <4>1
      <4>3. f[i - Len(new) + Len(old)] = n[i - Len(new) + Len(old)]
        BY <1>5, <4>1
      <4>4. QED
        BY <3>1, <4>2, <4>3
    <3>4. QED
      BY <3>2, <3>3
  <2>7. q \in Seq(Comp)
    BY <2>4, NameIs
  <2>8. Front(r) = q
    BY ONLY <1>4, <2>5, <2>6, <2>7, SeqEqual
  <2>9. QED
    BY <2>3, <2>8 DEF f, q, r
<1>8. QED
  BY <1>6, <1>7

\* A deck is below another when its parent is that one or below it.
LEMMA BelowByParent ==
  ASSUME NEW n \in Name, Len(n) > 1, NEW old \in Name, NEW p, p = Front(n),
         Fold(p) = Fold(old) \/ IsBelow(p, old)
  PROVE  IsBelow(n, old)
<1>1. n \in Seq(Comp) /\ Len(n) \in Nat /\ old \in Seq(Comp) /\ Len(old) \in Nat
  BY NameIs
<1>2. p \in Seq(Comp) /\ Len(p) = Len(n) - 1 /\ \A i \in 1..(Len(n) - 1) : p[i] = n[i]
  BY FrontIs
<1>3. Len(p) >= Len(old) /\ Agree(p, old, Len(old))
  <2>1. CASE Fold(p) = Fold(old)
    <3>1. Len(p) = Len(old) /\ Agree(p, old, Len(p))
      BY <1>1, <1>2, <2>1, FoldIs
    <3>2. QED
      BY <1>1, <3>1
  <2>2. CASE IsBelow(p, old)
    <3>1. Len(p) > Len(old) /\ Agree(p, old, Len(old))
      BY <1>1, <1>2, <2>2, BelowIs
    <3>2. Len(p) \in Nat
      BY <1>2, SeqFacts
    <3>3. QED
      BY <1>1, <3>1, <3>2
  <2>3. QED
    BY <2>1, <2>2
<1>4. Len(n) > Len(old)
  BY <1>1, <1>2, <1>3
<1>5. \A i \in 1..Len(old) : i \in 1..(Len(n) - 1)
  BY <1>1, <1>4
<1>6. Agree(n, old, Len(old))
  BY <1>2, <1>3, <1>5 DEF Agree
<1>7. QED
  BY <1>1, <1>4, <1>6, BelowIs

\* A move keeps the parents of all decks but the moved one.
LEMMA MovedKeepsParents ==
  ASSUME NEW T, Table(T), Whole(T), NEW d \in DOMAIN T, NEW n \in Name,
         NEW e \in DOMAIN T, e # d, Len(Moved(T, d, n)[e].name) > 1
  PROVE  ParentOf(Moved(T, d, n), Moved(T, d, n)[e].name)
<1> DEFINE old == T[d].name
<1>1. PICK V : V = Moved(T, d, n)
  OBVIOUS
<1>2. /\ DOMAIN V = DOMAIN T
      /\ V[d] = Deck(n, T[d].filtered)
      /\ \A c \in DOMAIN T : IsBelow(T[c].name, old) =>
            /\ V[c] = Deck(reparent(T[c].name, old, n), T[c].filtered)
            /\ reparent(T[c].name, old, n) \in Name
      /\ \A c \in DOMAIN T : c # d /\ ~IsBelow(T[c].name, old) => V[c] = T[c]
  BY <1>1, MovedIs
<1>3. \A c \in DOMAIN T : T[c].name \in Name
  BY DEF Table
<1>4. CASE IsBelow(T[e].name, old)
  <2>1. V[e].name = reparent(T[e].name, old, n)
    BY <1>2, <1>4 DEF Deck
  <2>2. Len(T[e].name) > 1
    <3>1. Len(T[e].name) > Len(old) /\ Len(T[e].name) \in Nat /\ Len(old) \in Nat /\ Len(old) >= 1
      BY <1>3, <1>4, NameIs DEF IsBelow
    <3>2. QED
      BY <3>1
  <2>3. PICK p \in DOMAIN T : T[p].name = Front(T[e].name) /\ ~T[p].filtered
    BY <2>2 DEF Whole, ParentOf
  <2>4. CASE Len(T[e].name) = Len(old) + 1 /\ Front(reparent(T[e].name, old, n)) = n
    <3>1. p = d
      <4>1. Len(old) \in Nat /\ T[e].name \in Seq(Comp) /\ old \in Seq(Comp)
        BY <1>3, NameIs
      <4>2. Front(T[e].name) = SubSeq(T[e].name, 1, Len(old))
        <5>1. Front(T[e].name) = SubSeq(T[e].name, 1, Len(T[e].name) - 1)
          BY <1>3, FrontIs
        <5>2. Len(T[e].name) - 1 = Len(old)
          BY <2>4, <4>1
        <5>3. QED
          BY <5>1, <5>2
      <4>3. Fold(T[p].name) = Fold(old)
        BY <1>4, <2>3, <4>2 DEF IsBelow
      <4>4. QED
        BY <4>3 DEF Table
    <3>2. V[p].name = n /\ ~V[p].filtered
      BY <1>2, <2>3, <3>1 DEF Deck
    <3>3. QED
      BY <1>1, <1>2, <2>1, <2>4, <3>2 DEF ParentOf
  <2>5. CASE /\ IsBelow(Front(T[e].name), old)
             /\ Front(reparent(T[e].name, old, n)) = reparent(Front(T[e].name), old, n)
    <3>1. V[p] = Deck(reparent(T[p].name, old, n), T[p].filtered)
      BY <1>2, <2>3, <2>5
    <3>2. V[p].name = Front(V[e].name) /\ ~V[p].filtered
      BY <2>1, <2>3, <2>5, <3>1 DEF Deck
    <3>3. QED
      BY <1>1, <1>2, <3>2 DEF ParentOf
  <2>6. QED
    BY <1>3, <1>4, <2>4, <2>5, FrontReparent
<1>5. CASE ~IsBelow(T[e].name, old)
  <2>1. V[e] = T[e]
    BY <1>2, <1>5
  <2>2. Len(T[e].name) > 1
    BY <1>1, <2>1
  <2>3. PICK p \in DOMAIN T : T[p].name = Front(T[e].name) /\ ~T[p].filtered
    BY <2>2 DEF Whole, ParentOf
  <2>4. p # d /\ ~IsBelow(T[p].name, old)
    BY <1>3, <1>5, <2>2, <2>3, BelowByParent
  <2>5. V[p] = T[p]
    BY <1>2, <2>4
  <2>6. QED
    BY <1>1, <1>2, <2>1, <2>3, <2>5 DEF ParentOf
<1>6. QED
  BY <1>4, <1>5

\* A rename does not clash in a whole tree.
LEMMA UpdatePasses ==
  ASSUME NEW T, Table(T), Whole(T), NEW d \in DOMAIN T, NEW n \in Name, nextId \in Nat \ {0}
  PROVE  update_deck_inner(T, d, n).why # "name_clash"
<1> DEFINE u == Unique(T, d, n)
<1>1. PICK U : U = WithParents(T, d, n)
  OBVIOUS
<1>2. PICK m : m = Spelled(T, d, n)
  OBVIOUS
<1>3. PICK r : r = update_deck_inner(T, d, n)
  OBVIOUS
<1>41. Updates(T, d, n, U, m, r)
  BY <1>1, <1>2, <1>3, UpdateIs
<1>4. /\ u = T[d].name => r = Ok(T)
      /\ u # T[d].name =>
           /\ MustBeLeafNode(T, u) => r.why = "filtered_parent"
           /\ r.why = "name_clash" => rename_with_children(U, d, m).why # ""
  BY <1>41 DEF Updates
<1>5. u \in Name /\ m \in Name /\ get_deck_id(U, m) \subseteq {d} /\ Grown(T, U, m)
  BY <1>1, <1>2, PartsAre
<1>6. d \in DOMAIN U
  BY <1>5 DEF Grown
<1>7. CASE u = T[d].name
  <2>1. r = Ok(T)
    BY <1>4, <1>7
  <2>2. r.why = ""
    BY ONLY <2>1, OkIs
  <2>3. QED
    BY <1>3, <2>2
<1>8. CASE u # T[d].name /\ MustBeLeafNode(T, u)
  BY <1>3, <1>4, <1>8
<1>9. CASE u # T[d].name /\ ~MustBeLeafNode(T, u)
  <2>1. Whole(U) /\ Table(U)
    BY <1>1, <1>2, <1>5, <1>9, MatchedTableIsWhole DEF WithParents, Spelled
  <2>2. rename_with_children(U, d, m).why = ""
    BY <1>5, <1>6, <2>1, RenamesPass
  <2>3. QED
    BY <1>3, <1>4, <1>9, <2>2
<1>10. QED
  BY <1>7, <1>8, <1>9

\* The decks above the new name are where they were.
LEMMA AboveUnmoved ==
  ASSUME NEW T, Table(T), NEW d \in DOMAIN T, NEW n \in Name, AllAbove(T, n),
         NEW e \in DOMAIN T, NEW k \in 1..(Len(n) - 1),
         Fold(Moved(T, d, n)[e].name) = Fold(SubSeq(n, 1, k))
  PROVE  /\ Moved(T, d, n)[e] = T[e]
         /\ T[e].name = SubSeq(n, 1, k) /\ ~T[e].filtered
<1> DEFINE old == T[d].name
           q == SubSeq(n, 1, k)
<1>1. PICK V : V = Moved(T, d, n)
  OBVIOUS
<1>2. /\ V[d] = Deck(n, T[d].filtered)
      /\ \A c \in DOMAIN T : IsBelow(T[c].name, old) =>
            /\ V[c] = Deck(reparent(T[c].name, old, n), T[c].filtered)
            /\ reparent(T[c].name, old, n) \in Name
      /\ \A c \in DOMAIN T : c # d /\ ~IsBelow(T[c].name, old) => V[c] = T[c]
  BY <1>1, MovedIs
<1>3. n \in Seq(Comp) /\ Len(n) \in Nat /\ old \in Name /\ old \in Seq(Comp) /\ T[e].name \in Name
  BY NameIs DEF Table
<1>4. q \in Seq(Comp) /\ Len(q) = k
  <2>1. k \in 0..Len(n)
    BY <1>3
  <2>2. QED
    BY <1>3, <2>1, PrefixIs
<1>5. PICK p \in DOMAIN T : T[p].name = q /\ ~T[p].filtered
  BY DEF AllAbove
<1> HIDE DEF q
<1>6. e # d
  <2>1. SUFFICES ASSUME e = d PROVE FALSE
    OBVIOUS
  <2>2. V[e].name = n
    BY <1>2, <2>1 DEF Deck
  <2>3. Len(n) = k
    BY <1>1, <1>3, <1>4, <2>2, FoldIs DEF q
  <2>4. QED
    BY <1>3, <2>3
<1>7. ~IsBelow(T[e].name, old)
  <2>1. SUFFICES ASSUME IsBelow(T[e].name, old) PROVE FALSE
    OBVIOUS
  <2> DEFINE r == reparent(T[e].name, old, n)
  <2>2. V[e].name = r
    <3>1. V[e] = Deck(r, T[e].filtered)
      BY <1>2, <2>1
    <3>2. QED
      BY ONLY <3>1 DEF Deck
  <2>3. r \in Name /\ Len(r) > Len(n)
    BY <1>3, <2>1, ReparentIs
  <2> HIDE DEF r
  <2>4. r \in Seq(Comp) /\ Len(r) \in Nat
    BY <2>3, NameIs
  <2>5. Fold(r) = Fold(q)
    BY <1>1, <2>2 DEF q
  <2>6. Len(r) = k
    BY <1>4, <2>4, <2>5, FoldIs
  <2>7. QED
    BY <1>3, <2>3, <2>6
<1>8. V[e] = T[e]
  BY <1>2, <1>6, <1>7
<1>9. e = p
  <2>1. Fold(T[e].name) = Fold(T[p].name)
    BY <1>1, <1>5, <1>8 DEF q
  <2>2. QED
    BY <2>1 DEF Table
<1>10. QED
  BY <1>1, <1>5, <1>8, <1>9 DEF q

\* A rename with its parents, of before and after the move, keeps the tree whole.
LEMMA MovedGrownIsWhole ==
  ASSUME NEW T, Table(T), Whole(T), NEW d \in DOMAIN T, NEW n \in Name, AllAbove(T, n),
         Table(Moved(T, d, n)), nextId \in Nat \ {0}
  PROVE  Whole(create_missing_parents(Moved(T, d, n), n))
<1>1. PICK V : V = Moved(T, d, n)
  OBVIOUS
<1>2. PICK W : W = create_missing_parents(V, n)
  OBVIOUS
<1>3. Grown(V, W, n) /\ \A k \in 1..(Len(n) - 1) : get_deck_id(W, SubSeq(n, 1, k)) # {}
  BY <1>1, <1>2, MissingParentsGrow
<1>4. DOMAIN V = DOMAIN T /\ V[d] = Deck(n, T[d].filtered)
  BY <1>1, MovedIs
<1>5. /\ \A e \in DOMAIN V : e \in DOMAIN W /\ W[e] = V[e]
      /\ \A e \in DOMAIN W \ DOMAIN V : \E j \in 1..(Len(n) - 1) : W[e] = Deck(SubSeq(n, 1, j), FALSE)
  BY <1>3 DEF Grown
<1>6. n \in Seq(Comp) /\ Len(n) \in Nat
  BY NameIs
<1>7. ASSUME NEW k \in 1..(Len(n) - 1)
      PROVE  \E p \in DOMAIN W : W[p].name = SubSeq(n, 1, k) /\ ~W[p].filtered
  <2>1. PICK e \in DOMAIN W : Fold(W[e].name) = Fold(SubSeq(n, 1, k))
    BY <1>3 DEF get_deck_id
  <2>2. CASE e \in DOMAIN V
    <3>1. W[e] = V[e] /\ e \in DOMAIN T
      BY <1>4, <1>5, <2>2
    <3>2. V[e] = T[e] /\ T[e].name = SubSeq(n, 1, k) /\ ~T[e].filtered
      BY <1>1, <2>1, <3>1, AboveUnmoved
    <3>3. QED
      BY <3>1, <3>2
  <2>3. CASE e \notin DOMAIN V
    <3>1. PICK j \in 1..(Len(n) - 1) : W[e] = Deck(SubSeq(n, 1, j), FALSE)
      BY <1>5, <2>3
    <3>2. W[e].name = SubSeq(n, 1, j) /\ ~W[e].filtered
      BY <3>1 DEF Deck
    <3>3. k \in 0..Len(n) /\ j \in 0..Len(n)
      BY <1>6
    <3>4. /\ SubSeq(n, 1, k) \in Seq(Comp) /\ Len(SubSeq(n, 1, k)) = k
          /\ SubSeq(n, 1, j) \in Seq(Comp) /\ Len(SubSeq(n, 1, j)) = j
      BY <1>6, <3>3, PrefixIs
    <3>5. j = k
      BY <2>1, <3>2, <3>4, FoldIs
    <3>6. QED
      BY <3>2, <3>5
  <2>4. QED
    BY <2>2, <2>3
<1>8. ASSUME NEW e \in DOMAIN W, Len(W[e].name) > 1 PROVE ParentOf(W, W[e].name)
  <2>1. CASE e \in DOMAIN V /\ e # d
    <3>1. W[e] = V[e] /\ e \in DOMAIN T
      BY <1>4, <1>5, <2>1
    <3>2. ParentOf(V, V[e].name)
      BY <1>1, <1>8, <2>1, <3>1, MovedKeepsParents
    <3>3. QED
      BY <1>5, <3>1, <3>2 DEF ParentOf
  <2>2. CASE e = d
    <3>1. W[e] = Deck(n, T[d].filtered)
      BY <1>4, <1>5, <2>2
    <3>2. W[e].name = n
      BY <3>1 DEF Deck
    <3>3. Len(n) > 1
      BY <1>8, <3>2
    <3>4. Len(n) - 1 \in 1..(Len(n) - 1) /\ Front(n) = SubSeq(n, 1, Len(n) - 1)
      BY <1>6, <3>3, FrontIs
    <3>5. QED
      BY <1>7, <3>2, <3>4 DEF ParentOf
  <2>3. CASE e \notin DOMAIN V
    <3>1. PICK j \in 1..(Len(n) - 1) : W[e] = Deck(SubSeq(n, 1, j), FALSE)
      BY <1>5, <2>3
    <3>2. W[e].name = SubSeq(n, 1, j)
      BY <3>1 DEF Deck
    <3>3. Len(SubSeq(n, 1, j)) = j
      <4>1. j \in 0..Len(n)
        BY <1>6
      <4>2. QED
        BY <1>6, <4>1, PrefixIs
    <3>4. j \in 2..Len(n) /\ j - 1 \in 1..(Len(n) - 1)
      BY <1>6, <1>8, <3>2, <3>3
    <3>5. Front(W[e].name) = SubSeq(n, 1, j - 1)
      BY <3>2, <3>4, FrontOfPrefix
    <3>6. QED
      BY <1>7, <3>4, <3>5 DEF ParentOf
  <2>4. QED
    BY <2>1, <2>2, <2>3
<1>9. QED
  BY <1>1, <1>2, <1>8 DEF Whole

\* A rename leaves a table, and a whole tree whole.
LEMMA UpdateKeeps ==
  ASSUME NEW T, Table(T), NEW d \in DOMAIN T, NEW n \in Name, nextId \in Nat \ {0},
         NEW r, r = update_deck_inner(T, d, n), r.why = ""
  PROVE  Table(r.decks) /\ (Whole(T) => Whole(r.decks))
<1> DEFINE u == Unique(T, d, n)
<1>1. PICK U : U = WithParents(T, d, n)
  OBVIOUS
<1>2. PICK m : m = Spelled(T, d, n)
  OBVIOUS
<1>31. Updates(T, d, n, U, m, r)
  BY <1>1, <1>2, UpdateIs
<1>3. /\ u = T[d].name => r = Ok(T)
      /\ u # T[d].name =>
           /\ ~MustBeLeafNode(T, u)
           /\ r.decks = create_missing_parents(Moved(U, d, m), m)
           /\ Table(Moved(U, d, m))
  BY <1>31 DEF Updates
<1>4. u \in Name /\ m \in Name /\ Grown(T, U, m)
  BY <1>1, <1>2, PartsAre
<1>5. d \in DOMAIN U /\ Table(U)
  BY <1>4 DEF Grown
<1>6. CASE u = T[d].name
  <2>1. r = Ok(T)
    BY <1>3, <1>6
  <2>2. r.decks = T
    BY ONLY <2>1, OkIs
  <2>3. QED
    BY <2>2
<1>7. CASE u # T[d].name
  <2>1. /\ ~MustBeLeafNode(T, u)
        /\ r.decks = create_missing_parents(Moved(U, d, m), m)
        /\ Table(Moved(U, d, m))
    BY <1>3, <1>7
  <2>2. Table(r.decks)
    <3>1. PICK V : V = Moved(U, d, m)
      OBVIOUS
    <3>2. Table(V) /\ r.decks = create_missing_parents(V, m)
      BY <2>1, <3>1
    <3>3. Grown(V, r.decks, m)
      BY <1>4, <3>2, MissingParentsGrow
    <3>4. QED
      BY <3>3 DEF Grown
  <2>3. ASSUME Whole(T) PROVE Whole(r.decks)
    <3>1. Whole(U) /\ AllAbove(U, m)
      BY <1>1, <1>2, <1>4, <2>1, <2>3, MatchedTableIsWhole DEF WithParents, Spelled
    <3>2. QED
      BY <1>4, <1>5, <2>1, <3>1, MovedGrownIsWhole
  <2>4. QED
    BY <2>2, <2>3
<1>8. QED
  BY <1>6, <1>7

(***************************************************************************)
(* Dragging decks                                                          *)
(***************************************************************************)

\* The deck that others are dragged onto, or the top level.
Target(T, target) ==
    target = <<>> \/ \E t \in DOMAIN T : T[t].name = target /\ ~T[t].filtered

LEMMA ReparentedIs ==
  ASSUME NEW n \in Name, NEW target \in Seq(Comp)
  PROVE  /\ reparented_name(n, target) \in Name
         /\ Len(reparented_name(n, target)) = Len(target) + 1
         /\ \A i \in 1..Len(target) : reparented_name(n, target)[i] = target[i]
<1>1. n \in Seq(Comp) /\ Len(n) \in Nat /\ Len(n) >= 1
  BY NameIs
<1>2. Last(n) \in Comp
  <2>1. Last(n) = n[Len(n)]
    BY DEF Last
  <2>2. Len(n) \in 1..Len(n)
    BY <1>1
  <2>3. QED
    BY <1>1, <2>1, <2>2, ElementOfSeq
<1>3. PICK c : c = Last(n)
  OBVIOUS
<1>4. /\ Append(target, c) \in Seq(Comp)
      /\ Len(Append(target, c)) = Len(target) + 1
      /\ \A i \in 1..Len(target) : Append(target, c)[i] = target[i]
  BY <1>2, <1>3, AppendProperties
<1>5. Len(target) \in Nat
  OBVIOUS
<1>6. Len(Append(target, c)) \in Nat /\ Len(Append(target, c)) >= 1
  BY <1>4, <1>5
<1>7. Append(target, c) \in Name
  BY <1>4, <1>6, NameIs
<1>8. QED
  BY <1>3, <1>4, <1>7 DEF reparented_name

\* A name starts with itself, and with one it is below in the same spelling.
LEMMA StartsWithPrefix ==
  ASSUME NEW n \in Name, NEW p \in Name, Len(p) <= Len(n), p = SubSeq(n, 1, Len(p))
  PROVE  NoReparent(n, p)
<1>1. n \in Seq(Comp) /\ Len(n) \in Nat /\ Len(n) >= 1 /\ p \in Seq(Comp) /\ Len(p) \in Nat /\ Len(p) >= 1
  BY NameIs
<1>2. ASSUME NEW i \in 1..Len(p) PROVE p[i] = n[i]
  <2>1. Len(p) \in 0..Len(n)
    BY <1>1
  <2>2. SubSeq(n, 1, Len(p))[i] = n[i]
    BY <1>1, <2>1, PrefixIs
  <2>3. QED
    BY <2>2
<1>3. SubSeq(n, 1, Len(p) - 1) = SubSeq(p, 1, Len(p) - 1)
  <2>1. Len(p) \in 0..Len(n) /\ Len(p) - 1 \in 0..Len(p)
    BY <1>1
  <2>2. SubSeq(SubSeq(n, 1, Len(p)), 1, Len(p) - 1) = SubSeq(n, 1, Len(p) - 1)
    BY <1>1, <2>1, PrefixOfPrefix
  <2>3. QED
    BY <2>2
<1>4. p[Len(p)] = n[Len(p)] /\ p[1] = n[1]
  BY <1>1, <1>2
<1>5. p[Len(p)][2] \in Nat
  <2>1. Len(p) \in 1..Len(p)
    BY <1>1
  <2>2. p[Len(p)] \in Comp
    BY <1>1, <2>1, ElementOfSeq
  <2>3. QED
    BY <2>2, CompIs
<1>6. n[Len(p)][2] >= p[Len(p)][2]
  BY <1>4, <1>5
<1>7. StartsWith(n, p)
  BY <1>1, <1>3, <1>4, <1>6 DEF StartsWith
<1>8. QED
  BY <1>4, <1>7 DEF NoReparent

\* The name a dragged deck gets.
DraggedName(T, d, target) ==
    ensure_deck_name_unique(T, d, reparented_name(T[d].name, target))
Stays(T, d, target) ==
    \/ target # <<>> /\ NoReparent(target, T[d].name)
    \/ reparented_name(T[d].name, target) = T[d].name

LEMMA DraggedNameIs ==
  ASSUME NEW T, Table(T), NEW d \in DOMAIN T, NEW target \in Seq(Comp)
  PROVE  /\ DraggedName(T, d, target) \in Name
         /\ Len(DraggedName(T, d, target)) = Len(target) + 1
         /\ SubSeq(DraggedName(T, d, target), 1, Len(target)) = target
         /\ get_deck_id(T, DraggedName(T, d, target)) \subseteq {d}
<1>1. PICK n : n = reparented_name(T[d].name, target)
  OBVIOUS
<1>2. T[d].name \in Name /\ IsFiniteSet(DOMAIN T)
  BY DEF Table
<1>3. n \in Name /\ Len(n) = Len(target) + 1 /\ \A i \in 1..Len(target) : n[i] = target[i]
  BY <1>1, <1>2, ReparentedIs
<1>4. PICK m : m = DraggedName(T, d, target)
  OBVIOUS
<1>5. m = ensure_deck_name_unique(T, d, n)
  BY <1>1, <1>4 DEF DraggedName
<1>6. /\ m \in Name
      /\ Len(m) = Len(n)
      /\ \A i \in 1..(Len(n) - 1) : m[i] = n[i]
      /\ get_deck_id(T, m) \subseteq {d}
  BY ONLY <1>2, <1>3, <1>5, UniqueName
<1>7. m \in Seq(Comp) /\ Len(m) \in Nat /\ Len(target) \in Nat
  BY <1>6, NameIs
<1>8. SubSeq(m, 1, Len(target)) = target
  <2>1. Len(target) \in 0..Len(m)
    BY <1>3, <1>6, <1>7
  <2>2. /\ SubSeq(m, 1, Len(target)) \in Seq(Comp)
        /\ Len(SubSeq(m, 1, Len(target))) = Len(target)
        /\ \A i \in 1..Len(target) : SubSeq(m, 1, Len(target))[i] = m[i]
    BY <1>7, <2>1, PrefixIs
  <2>3. \A i \in 1..Len(target) : m[i] = target[i]
    BY <1>3, <1>6, <1>7
  <2>4. QED
    BY <2>2, <2>3, SeqEqual
<1>9. QED
  BY <1>3, <1>4, <1>6, <1>8

\* The decks of T are in U, filtered or not as they were.
SameKinds(T, U) == \A e \in DOMAIN T : e \in DOMAIN U /\ U[e].filtered = T[e].filtered

LEMMA MovedKinds ==
  ASSUME NEW T, Table(T), NEW d \in DOMAIN T, NEW n \in Name
  PROVE  SameKinds(T, Moved(T, d, n))
<1>1. PICK V : V = Moved(T, d, n)
  OBVIOUS
<1>2. /\ DOMAIN V = DOMAIN T
      /\ V[d] = Deck(n, T[d].filtered)
      /\ \A e \in DOMAIN T : IsBelow(T[e].name, T[d].name) =>
            V[e] = Deck(reparent(T[e].name, T[d].name, n), T[e].filtered)
      /\ \A e \in DOMAIN T : e # d /\ ~IsBelow(T[e].name, T[d].name) => V[e] = T[e]
  BY <1>1, MovedIs
<1>3. \A m, f : Deck(m, f).filtered = f
  BY DEF Deck
<1>4. ASSUME NEW e \in DOMAIN T PROVE V[e].filtered = T[e].filtered
  <2>1. CASE e = d
    BY <1>2, <1>3, <2>1
  <2>2. CASE IsBelow(T[e].name, T[d].name)
    BY <1>2, <1>3, <2>2
  <2>3. CASE e # d /\ ~IsBelow(T[e].name, T[d].name)
    BY <1>2, <2>3
  <2>4. QED
    BY <2>1, <2>2, <2>3
<1>5. QED
  BY <1>1, <1>2, <1>4 DEF SameKinds


LEMMA ReparentOneIs ==
  ASSUME NEW T, Table(T), NEW d \in DOMAIN T, NEW target \in Seq(Comp),
         NEW r, r = reparent_one(T, d, target)
  PROVE  /\ r.why \in {"", "name_clash"}
         /\ Stays(T, d, target) => r = Ok(T)
         /\ ~Stays(T, d, target) =>
               /\ r = rename_with_children(T, d, DraggedName(T, d, target))
               /\ r.why = "" => r.decks = Moved(T, d, DraggedName(T, d, target))
         /\ r.why = "" => Table(r.decks) /\ DOMAIN r.decks = DOMAIN T /\ SameKinds(T, r.decks)
<1> DEFINE m == DraggedName(T, d, target)
<1>1. r = IF Stays(T, d, target) THEN Ok(T) ELSE rename_with_children(T, d, m)
  BY DEF reparent_one, Stays, DraggedName
<1>2. m \in Name
  BY DraggedNameIs
<1> HIDE DEF m
<1>3. CASE Stays(T, d, target)
  <2>1. r = Ok(T)
    BY <1>1, <1>3
  <2>2. r.why = "" /\ r.decks = T
    BY ONLY <2>1, OkIs
  <2>3. QED
    BY <1>3, <2>1, <2>2 DEF SameKinds
<1>4. CASE ~Stays(T, d, target)
  <2>1. r = rename_with_children(T, d, m)
    BY <1>1, <1>4
  <2>2. r.why \in {"", "name_clash"} /\ (r.why = "" => r.decks = Moved(T, d, m) /\ Table(Moved(T, d, m)))
    BY <1>2, <2>1, RenameWithChildrenIs
  <2>3. DOMAIN Moved(T, d, m) = DOMAIN T /\ SameKinds(T, Moved(T, d, m))
    BY <1>2, MovedIs, MovedKinds
  <2>4. QED
    BY <1>4, <2>1, <2>2, <2>3 DEF m
<1>5. QED
  BY <1>3, <1>4

\* Moving a deck leaves the target of the move in its place.
LEMMA TargetStays ==
  ASSUME NEW T, Table(T), Whole(T), NEW d \in DOMAIN T, NEW target \in Name,
         NEW t \in DOMAIN T, T[t].name = target, ~T[t].filtered,
         ~Stays(T, d, target), NEW n \in Name
  PROVE  Moved(T, d, n)[t] = T[t]
<1> DEFINE old == T[d].name
<1>1. old \in Name /\ old \in Seq(Comp) /\ Len(old) \in Nat /\ target \in Seq(Comp) /\ Len(target) \in Nat
  BY NameIs DEF Table
<1>2. target # <<>>
  BY DEF Name
<1>3. ~NoReparent(target, old)
  BY <1>2 DEF Stays
<1>4. t # d
  <2>1. SUFFICES ASSUME old = target PROVE FALSE
    OBVIOUS
  <2>2. SubSeq(target, 1, Len(old)) = target
    <3>1. Len(target) \in 0..Len(target)
      BY <1>1
    <3>2. /\ SubSeq(target, 1, Len(target)) \in Seq(Comp)
          /\ Len(SubSeq(target, 1, Len(target))) = Len(target)
          /\ \A i \in 1..Len(target) : SubSeq(target, 1, Len(target))[i] = target[i]
      BY <1>1, <3>1, PrefixIs
    <3>3. SubSeq(target, 1, Len(target)) = target
      BY <1>1, <3>2, SeqEqual
    <3>4. QED
      BY <2>1, <3>3
  <2>3. Len(old) <= Len(target) /\ old = SubSeq(target, 1, Len(old))
    BY <1>1, <2>1, <2>2
  <2>4. QED
    BY <1>1, <1>3, <2>3, StartsWithPrefix
<1>5. ~IsBelow(target, old)
  <2>1. SUFFICES ASSUME IsBelow(target, old) PROVE FALSE
    OBVIOUS
  <2>2. PICK p \in DOMAIN T : /\ T[p].name = SubSeq(target, 1, Len(old))
                              /\ Fold(T[p].name) = Fold(old)
    BY <1>1, <2>1, AboveInWhole
  <2>3. p = d
    BY <2>2 DEF Table
  <2>4. old = SubSeq(target, 1, Len(old))
    BY <2>2, <2>3
  <2>5. Len(old) <= Len(target)
    BY <1>1, <2>1 DEF IsBelow
  <2>6. QED
    BY <1>1, <1>3, <2>4, <2>5, StartsWithPrefix
<1>6. QED
  BY <1>4, <1>5, MovedIs

\* In a whole tree a drag never fails, and leaves it whole.
LEMMA ReparentOneKeeps ==
  ASSUME NEW T, Table(T), Whole(T), NEW d \in DOMAIN T, NEW target \in Seq(Comp),
         Target(T, target), NEW r, r = reparent_one(T, d, target)
  PROVE  r.why = "" /\ Whole(r.decks) /\ Target(r.decks, target)
<1>1. PICK m : m = DraggedName(T, d, target)
  OBVIOUS
<1>2. /\ m \in Name /\ Len(m) = Len(target) + 1
      /\ SubSeq(m, 1, Len(target)) = target
      /\ get_deck_id(T, m) \subseteq {d}
  BY <1>1, DraggedNameIs
<1>3. /\ Stays(T, d, target) => r = Ok(T)
      /\ ~Stays(T, d, target) =>
               /\ r = rename_with_children(T, d, m)
               /\ r.why = "" => r.decks = Moved(T, d, m)
  BY <1>1, ReparentOneIs
<1>4. CASE Stays(T, d, target)
  <2>1. r = Ok(T)
    BY <1>3, <1>4
  <2>2. r.why = "" /\ r.decks = T
    BY ONLY <2>1, OkIs
  <2>3. QED
    BY <2>2
<1>5. CASE ~Stays(T, d, target)
  <2>1. r.why = ""
    BY <1>2, <1>3, <1>5, RenamesPass
  <2>2. PICK V : V = Moved(T, d, m)
    OBVIOUS
  <2>3. r.decks = V
    BY <1>3, <1>5, <2>1, <2>2
  <2>4. DOMAIN V = DOMAIN T /\ V[d] = Deck(m, T[d].filtered)
    BY <1>2, <2>2, MovedIs
  <2>5. CASE target = <<>>
    <3>1. V[d].name = m
      BY ONLY <2>4 DEF Deck
    <3>2. ~(Len(V[d].name) > 1)
      <4>1. Len(target) = 0
        BY <2>5
      <4>2. Len(m) = 1
        BY <1>2, <4>1
      <4>3. QED
        BY <3>1, <4>2
    <3>3. ASSUME NEW e \in DOMAIN V, Len(V[e].name) > 1 PROVE ParentOf(V, V[e].name)
      <4>1. e # d /\ e \in DOMAIN T
        BY <2>4, <3>2, <3>3
      <4>2. QED
        BY <1>2, <2>2, <3>3, <4>1, MovedKeepsParents
    <3>4. QED
      BY <2>1, <2>3, <2>5, <3>3 DEF Whole, Target
  <2>6. CASE target # <<>>
    <3>1. target \in Name
      BY <2>6 DEF Name, Comp
    <3>2. PICK t \in DOMAIN T : T[t].name = target /\ ~T[t].filtered
      BY <2>6 DEF Target
    <3>3. V[t] = T[t]
      BY <1>2, <1>5, <2>2, <3>1, <3>2, TargetStays
    <3>4. Front(m) = target
      <4>1. m \in Seq(Comp) /\ Len(m) \in Nat /\ Len(target) \in Nat
        BY <1>2, NameIs
      <4>2. Front(m) = SubSeq(m, 1, Len(m) - 1)
        BY <1>2, FrontIs
      <4>3. Len(m) - 1 = Len(target)
        BY <1>2, <4>1
      <4>4. QED
        BY <1>2, <4>2, <4>3
    <3>5. ASSUME NEW e \in DOMAIN V, Len(V[e].name) > 1 PROVE ParentOf(V, V[e].name)
      <4>1. CASE e # d
        <5>1. e \in DOMAIN T
          BY <2>4
        <5>2. QED
          BY <1>2, <2>2, <3>5, <4>1, <5>1, MovedKeepsParents
      <4>2. CASE e = d
        <5>1. V[d].name = m
          BY ONLY <2>4 DEF Deck
        <5>2. QED
          BY <2>4, <3>2, <3>3, <3>4, <4>2, <5>1 DEF ParentOf
      <4>3. QED
        BY <4>1, <4>2
    <3>6. Target(V, target)
      BY <2>4, <3>2, <3>3 DEF Target
    <3>7. QED
      BY <2>1, <2>3, <3>5, <3>6 DEF Whole
  <2>7. QED
    BY <2>5, <2>6
<1>6. QED
  BY <1>4, <1>5

(***************************************************************************)
(* The recursive functions satisfy their equations                         *)
(***************************************************************************)

\* One drag of a selection, and one removal of it.
DragOne(r, d, target) ==
    IF r.why = "" /\ d \in DOMAIN r.decks THEN reparent_one(r.decks, d, target) ELSE r
RemoveOne(s, d) == IF d \in DOMAIN s.decks THEN remove_with_children(s, d) ELSE s

Dragging(T, dids, target) ==
  LET f[i \in 0..Len(dids)] == IF i = 0 THEN Ok(T) ELSE DragOne(f[i - 1], dids[i], target)
  IN  f

IsDragging(g, T, dids, target, m) ==
  g = [i \in 0..m |-> IF i = 0 THEN Ok(T) ELSE DragOne(g[i - 1], dids[i], target)]

\* The decks of a selection can be dragged one after the other.
LEMMA IsDraggingExists ==
  ASSUME NEW T, NEW dids, NEW target
  PROVE  \A m \in Nat : \E g : IsDragging(g, T, dids, target, m)
<1> DEFINE S == {m \in Nat : \E g : IsDragging(g, T, dids, target, m)}
<1>1. 0 \in S
  <2>1. IsDragging([i \in 0..0 |-> Ok(T)], T, dids, target, 0)
    BY DEF IsDragging
  <2>2. QED
    BY <2>1
<1>2. ASSUME NEW m \in Nat, m \in S PROVE m + 1 \in S
  <2>1. PICK g : IsDragging(g, T, dids, target, m)
    BY <1>2
  <2> DEFINE h == [i \in 0..(m + 1) |-> IF i = m + 1 THEN DragOne(g[m], dids[m + 1], target) ELSE g[i]]
  <2>2. ASSUME NEW i \in 0..(m + 1)
        PROVE  h[i] = IF i = 0 THEN Ok(T) ELSE DragOne(h[i - 1], dids[i], target)
    <3>1. CASE i = 0
      <4>1. h[0] = g[0]
        OBVIOUS
      <4>2. g[0] = Ok(T)
        BY <2>1 DEF IsDragging
      <4>3. QED
        BY <3>1, <4>1, <4>2
    <3>2. CASE i \in 1..m
      <4>1. h[i] = g[i] /\ h[i - 1] = g[i - 1]
        BY <3>2
      <4>2. g[i] = DragOne(g[i - 1], dids[i], target)
        BY <2>1, <3>2 DEF IsDragging
      <4>3. QED
        BY <3>2, <4>1, <4>2
    <3>3. CASE i = m + 1
      <4>1. h[i] = DragOne(g[m], dids[m + 1], target) /\ h[i - 1] = g[m] /\ i # 0
        BY <3>3
      <4> HIDE DEF h
      <4>2. QED
        BY <3>3, <4>1
    <3>4. QED
      BY <3>1, <3>2, <3>3
  <2>3. h = [i \in 0..(m + 1) |-> h[i]]
    OBVIOUS
  <2> HIDE DEF h
  <2>4. IsDragging(h, T, dids, target, m + 1)
    BY <2>2, <2>3 DEF IsDragging
  <2>5. QED
    BY <2>4
<1> HIDE DEF S
<1>3. \A m \in Nat : m \in S
  BY <1>1, <1>2, SetInduction
<1>4. QED
  BY <1>3 DEF S

LEMMA DraggingDef ==
  ASSUME NEW T, NEW dids, NEW target, Len(dids) \in Nat
  PROVE  /\ Dragging(T, dids, target)[0] = Ok(T)
         /\ \A i \in 1..Len(dids) : Dragging(T, dids, target)[i] = DragOne(Dragging(T, dids, target)[i - 1], dids[i], target)
<1>1. PICK g : IsDragging(g, T, dids, target, Len(dids))
  BY IsDraggingExists
<1>2. IsDragging(Dragging(T, dids, target), T, dids, target, Len(dids))
  BY <1>1 DEF IsDragging, Dragging
<1> DEFINE r == Dragging(T, dids, target)
<1> HIDE DEF r
<1>3. r = [i \in 0..Len(dids) |-> IF i = 0 THEN Ok(T) ELSE DragOne(r[i - 1], dids[i], target)]
  BY <1>2 DEF IsDragging, r
<1>4. r[0] = Ok(T) /\ \A i \in 1..Len(dids) : r[i] = DragOne(r[i - 1], dids[i], target)
  BY <1>3
<1>5. QED
  BY <1>4 DEF r

RemovingEach(s, dids) ==
  LET f[i \in 0..Len(dids)] == IF i = 0 THEN s ELSE remove_single_deck(f[i - 1], dids[i])
  IN  f

IsRemovingEach(g, s, dids, m) ==
  g = [i \in 0..m |-> IF i = 0 THEN s ELSE remove_single_deck(g[i - 1], dids[i])]

\* Decks can be removed one after the other.
LEMMA IsRemovingEachExists ==
  ASSUME NEW s, NEW dids
  PROVE  \A m \in Nat : \E g : IsRemovingEach(g, s, dids, m)
<1> DEFINE S == {m \in Nat : \E g : IsRemovingEach(g, s, dids, m)}
<1>1. 0 \in S
  <2>1. IsRemovingEach([i \in 0..0 |-> s], s, dids, 0)
    BY DEF IsRemovingEach
  <2>2. QED
    BY <2>1
<1>2. ASSUME NEW m \in Nat, m \in S PROVE m + 1 \in S
  <2>1. PICK g : IsRemovingEach(g, s, dids, m)
    BY <1>2
  <2> DEFINE h == [i \in 0..(m + 1) |-> IF i = m + 1 THEN remove_single_deck(g[m], dids[m + 1]) ELSE g[i]]
  <2>2. ASSUME NEW i \in 0..(m + 1)
        PROVE  h[i] = IF i = 0 THEN s ELSE remove_single_deck(h[i - 1], dids[i])
    <3>1. CASE i = 0
      <4>1. h[0] = g[0]
        OBVIOUS
      <4>2. g[0] = s
        BY <2>1 DEF IsRemovingEach
      <4>3. QED
        BY <3>1, <4>1, <4>2
    <3>2. CASE i \in 1..m
      <4>1. h[i] = g[i] /\ h[i - 1] = g[i - 1]
        BY <3>2
      <4>2. g[i] = remove_single_deck(g[i - 1], dids[i])
        BY <2>1, <3>2 DEF IsRemovingEach
      <4>3. QED
        BY <3>2, <4>1, <4>2
    <3>3. CASE i = m + 1
      <4>1. h[i] = remove_single_deck(g[m], dids[m + 1]) /\ h[i - 1] = g[m] /\ i # 0
        BY <3>3
      <4> HIDE DEF h
      <4>2. QED
        BY <3>3, <4>1
    <3>4. QED
      BY <3>1, <3>2, <3>3
  <2>3. h = [i \in 0..(m + 1) |-> h[i]]
    OBVIOUS
  <2> HIDE DEF h
  <2>4. IsRemovingEach(h, s, dids, m + 1)
    BY <2>2, <2>3 DEF IsRemovingEach
  <2>5. QED
    BY <2>4
<1> HIDE DEF S
<1>3. \A m \in Nat : m \in S
  BY <1>1, <1>2, SetInduction
<1>4. QED
  BY <1>3 DEF S

LEMMA RemovingEachDef ==
  ASSUME NEW s, NEW dids, Len(dids) \in Nat
  PROVE  /\ RemovingEach(s, dids)[0] = s
         /\ \A i \in 1..Len(dids) : RemovingEach(s, dids)[i] = remove_single_deck(RemovingEach(s, dids)[i - 1], dids[i])
<1>1. PICK g : IsRemovingEach(g, s, dids, Len(dids))
  BY IsRemovingEachExists
<1>2. IsRemovingEach(RemovingEach(s, dids), s, dids, Len(dids))
  BY <1>1 DEF IsRemovingEach, RemovingEach
<1> DEFINE r == RemovingEach(s, dids)
<1> HIDE DEF r
<1>3. r = [i \in 0..Len(dids) |-> IF i = 0 THEN s ELSE remove_single_deck(r[i - 1], dids[i])]
  BY <1>2 DEF IsRemovingEach, r
<1>4. r[0] = s /\ \A i \in 1..Len(dids) : r[i] = remove_single_deck(r[i - 1], dids[i])
  BY <1>3
<1>5. QED
  BY <1>4 DEF r

RemovingAll(s, dids) ==
  LET f[i \in 0..Len(dids)] == IF i = 0 THEN s ELSE RemoveOne(f[i - 1], dids[i])
  IN  f

IsRemovingAll(g, s, dids, m) ==
  g = [i \in 0..m |-> IF i = 0 THEN s ELSE RemoveOne(g[i - 1], dids[i])]

\* Decks can be removed with the decks below them, one after the other.
LEMMA IsRemovingAllExists ==
  ASSUME NEW s, NEW dids
  PROVE  \A m \in Nat : \E g : IsRemovingAll(g, s, dids, m)
<1> DEFINE S == {m \in Nat : \E g : IsRemovingAll(g, s, dids, m)}
<1>1. 0 \in S
  <2>1. IsRemovingAll([i \in 0..0 |-> s], s, dids, 0)
    BY DEF IsRemovingAll
  <2>2. QED
    BY <2>1
<1>2. ASSUME NEW m \in Nat, m \in S PROVE m + 1 \in S
  <2>1. PICK g : IsRemovingAll(g, s, dids, m)
    BY <1>2
  <2> DEFINE h == [i \in 0..(m + 1) |-> IF i = m + 1 THEN RemoveOne(g[m], dids[m + 1]) ELSE g[i]]
  <2>2. ASSUME NEW i \in 0..(m + 1)
        PROVE  h[i] = IF i = 0 THEN s ELSE RemoveOne(h[i - 1], dids[i])
    <3>1. CASE i = 0
      <4>1. h[0] = g[0]
        OBVIOUS
      <4>2. g[0] = s
        BY <2>1 DEF IsRemovingAll
      <4>3. QED
        BY <3>1, <4>1, <4>2
    <3>2. CASE i \in 1..m
      <4>1. h[i] = g[i] /\ h[i - 1] = g[i - 1]
        BY <3>2
      <4>2. g[i] = RemoveOne(g[i - 1], dids[i])
        BY <2>1, <3>2 DEF IsRemovingAll
      <4>3. QED
        BY <3>2, <4>1, <4>2
    <3>3. CASE i = m + 1
      <4>1. h[i] = RemoveOne(g[m], dids[m + 1]) /\ h[i - 1] = g[m] /\ i # 0
        BY <3>3
      <4> HIDE DEF h
      <4>2. QED
        BY <3>3, <4>1
    <3>4. QED
      BY <3>1, <3>2, <3>3
  <2>3. h = [i \in 0..(m + 1) |-> h[i]]
    OBVIOUS
  <2> HIDE DEF h
  <2>4. IsRemovingAll(h, s, dids, m + 1)
    BY <2>2, <2>3 DEF IsRemovingAll
  <2>5. QED
    BY <2>4
<1> HIDE DEF S
<1>3. \A m \in Nat : m \in S
  BY <1>1, <1>2, SetInduction
<1>4. QED
  BY <1>3 DEF S

LEMMA RemovingAllDef ==
  ASSUME NEW s, NEW dids, Len(dids) \in Nat
  PROVE  /\ RemovingAll(s, dids)[0] = s
         /\ \A i \in 1..Len(dids) : RemovingAll(s, dids)[i] = RemoveOne(RemovingAll(s, dids)[i - 1], dids[i])
<1>1. PICK g : IsRemovingAll(g, s, dids, Len(dids))
  BY IsRemovingAllExists
<1>2. IsRemovingAll(RemovingAll(s, dids), s, dids, Len(dids))
  BY <1>1 DEF IsRemovingAll, RemovingAll
<1> DEFINE r == RemovingAll(s, dids)
<1> HIDE DEF r
<1>3. r = [i \in 0..Len(dids) |-> IF i = 0 THEN s ELSE RemoveOne(r[i - 1], dids[i])]
  BY <1>2 DEF IsRemovingAll, r
<1>4. r[0] = s /\ \A i \in 1..Len(dids) : r[i] = RemoveOne(r[i - 1], dids[i])
  BY <1>3
<1>5. QED
  BY <1>4 DEF r

AddingNames(T, order) ==
  LET f[i \in 0..Len(order)] == IF i = 0 THEN Ok(T) ELSE add_missing_name(f[i - 1], T[order[i]].name)
  IN  f

IsAddingNames(g, T, order, m) ==
  g = [i \in 0..m |-> IF i = 0 THEN Ok(T) ELSE add_missing_name(g[i - 1], T[order[i]].name)]

\* The parents of one deck after the other can be added.
LEMMA IsAddingNamesExists ==
  ASSUME NEW T, NEW order
  PROVE  \A m \in Nat : \E g : IsAddingNames(g, T, order, m)
<1> DEFINE S == {m \in Nat : \E g : IsAddingNames(g, T, order, m)}
<1>1. 0 \in S
  <2>1. IsAddingNames([i \in 0..0 |-> Ok(T)], T, order, 0)
    BY DEF IsAddingNames
  <2>2. QED
    BY <2>1
<1>2. ASSUME NEW m \in Nat, m \in S PROVE m + 1 \in S
  <2>1. PICK g : IsAddingNames(g, T, order, m)
    BY <1>2
  <2> DEFINE h == [i \in 0..(m + 1) |-> IF i = m + 1 THEN add_missing_name(g[m], T[order[m + 1]].name) ELSE g[i]]
  <2>2. ASSUME NEW i \in 0..(m + 1)
        PROVE  h[i] = IF i = 0 THEN Ok(T) ELSE add_missing_name(h[i - 1], T[order[i]].name)
    <3>1. CASE i = 0
      <4>1. h[0] = g[0]
        OBVIOUS
      <4>2. g[0] = Ok(T)
        BY <2>1 DEF IsAddingNames
      <4>3. QED
        BY <3>1, <4>1, <4>2
    <3>2. CASE i \in 1..m
      <4>1. h[i] = g[i] /\ h[i - 1] = g[i - 1]
        BY <3>2
      <4>2. g[i] = add_missing_name(g[i - 1], T[order[i]].name)
        BY <2>1, <3>2 DEF IsAddingNames
      <4>3. QED
        BY <3>2, <4>1, <4>2
    <3>3. CASE i = m + 1
      <4>1. h[i] = add_missing_name(g[m], T[order[m + 1]].name) /\ h[i - 1] = g[m] /\ i # 0
        BY <3>3
      <4> HIDE DEF h
      <4>2. QED
        BY <3>3, <4>1
    <3>4. QED
      BY <3>1, <3>2, <3>3
  <2>3. h = [i \in 0..(m + 1) |-> h[i]]
    OBVIOUS
  <2> HIDE DEF h
  <2>4. IsAddingNames(h, T, order, m + 1)
    BY <2>2, <2>3 DEF IsAddingNames
  <2>5. QED
    BY <2>4
<1> HIDE DEF S
<1>3. \A m \in Nat : m \in S
  BY <1>1, <1>2, SetInduction
<1>4. QED
  BY <1>3 DEF S

LEMMA AddingNamesDef ==
  ASSUME NEW T, NEW order, Len(order) \in Nat
  PROVE  /\ AddingNames(T, order)[0] = Ok(T)
         /\ \A i \in 1..Len(order) : AddingNames(T, order)[i] = add_missing_name(AddingNames(T, order)[i - 1], T[order[i]].name)
<1>1. PICK g : IsAddingNames(g, T, order, Len(order))
  BY IsAddingNamesExists
<1>2. IsAddingNames(AddingNames(T, order), T, order, Len(order))
  BY <1>1 DEF IsAddingNames, AddingNames
<1> DEFINE r == AddingNames(T, order)
<1> HIDE DEF r
<1>3. r = [i \in 0..Len(order) |-> IF i = 0 THEN Ok(T) ELSE add_missing_name(r[i - 1], T[order[i]].name)]
  BY <1>2 DEF IsAddingNames, r
<1>4. r[0] = Ok(T) /\ \A i \in 1..Len(order) : r[i] = add_missing_name(r[i - 1], T[order[i]].name)
  BY <1>3
<1>5. QED
  BY <1>4 DEF r

LEMMA TheyRecur ==
  /\ \A T, dids, target : reparent_decks_inner(T, dids, target) = Dragging(T, dids, target)[Len(dids)]
  /\ \A s, dids : remove_each(s, dids) = RemovingEach(s, dids)[Len(dids)]
  /\ \A dids : remove_decks_and_child_decks(dids) =
                 RemovingAll([decks |-> decks, cards |-> cards], dids)[Len(dids)]
  /\ \A T : add_missing_deck_names(T) =
              AddingNames(T, sorted(T, DOMAIN T))[Len(sorted(T, DOMAIN T))]
<1>1. \A T, dids, target : reparent_decks_inner(T, dids, target) = Dragging(T, dids, target)[Len(dids)]
  BY DEF reparent_decks_inner, Dragging, DragOne
<1>2. \A s, dids : remove_each(s, dids) = RemovingEach(s, dids)[Len(dids)]
  BY DEF remove_each, RemovingEach
<1>3. \A dids : remove_decks_and_child_decks(dids) =
                 RemovingAll([decks |-> decks, cards |-> cards], dids)[Len(dids)]
  BY DEF remove_decks_and_child_decks, RemovingAll, RemoveOne
<1>4. \A T : add_missing_deck_names(T) =
              AddingNames(T, sorted(T, DOMAIN T))[Len(sorted(T, DOMAIN T))]
  BY DEF add_missing_deck_names, AddingNames
<1>5. QED
  BY <1>1, <1>2, <1>3, <1>4

\* What has become of the table T by a drag, or a part of one.
DragKeeps(T, target, r) ==
    /\ r.why \in {"", "name_clash"}
    /\ r.why = "" => Table(r.decks) /\ DOMAIN r.decks = DOMAIN T /\ SameKinds(T, r.decks)
    /\ Whole(T) /\ Target(T, target) =>
          r.why = "" /\ Whole(r.decks) /\ Target(r.decks, target)

LEMMA DragStepKeeps ==
  ASSUME NEW T, Table(T), NEW target \in Seq(Comp), NEW p, DragKeeps(T, target, p), NEW d
  PROVE  DragKeeps(T, target, DragOne(p, d, target))
<1>1. CASE p.why = "" /\ d \in DOMAIN p.decks
  <2>1. PICK U : U = p.decks
    OBVIOUS
  <2>2. PICK r : r = reparent_one(U, d, target)
    OBVIOUS
  <2>3. DragOne(p, d, target) = r
    BY <1>1, <2>1, <2>2 DEF DragOne
  <2>4. Table(U) /\ DOMAIN U = DOMAIN T /\ SameKinds(T, U)
    BY <1>1, <2>1 DEF DragKeeps
  <2>5. d \in DOMAIN U
    BY <1>1, <2>1
  <2>6. /\ r.why \in {"", "name_clash"}
        /\ r.why = "" => Table(r.decks) /\ DOMAIN r.decks = DOMAIN U /\ SameKinds(U, r.decks)
    BY <2>2, <2>4, <2>5, ReparentOneIs
  <2>9. r.why = "" => SameKinds(T, r.decks)
    BY <2>4, <2>6 DEF SameKinds
  <2>7. Whole(T) /\ Target(T, target) => r.why = "" /\ Whole(r.decks) /\ Target(r.decks, target)
    <3>1. SUFFICES ASSUME Whole(T), Target(T, target)
                   PROVE  r.why = "" /\ Whole(r.decks) /\ Target(r.decks, target)
      OBVIOUS
    <3>2. Whole(U) /\ Target(U, target)
      BY <2>1, <3>1 DEF DragKeeps
    <3>3. QED
      BY <2>2, <2>4, <2>5, <3>2, ReparentOneKeeps
  <2>8. QED
    BY <2>3, <2>4, <2>6, <2>7, <2>9 DEF DragKeeps
<1>2. CASE ~(p.why = "" /\ d \in DOMAIN p.decks)
  BY <1>2 DEF DragOne
<1>3. QED
  BY <1>1, <1>2

LEMMA DragsKeep ==
  ASSUME NEW T, Table(T), NEW dids, Len(dids) \in Nat, NEW target \in Seq(Comp)
  PROVE  DragKeeps(T, target, reparent_decks_inner(T, dids, target))
<1> DEFINE g(i) == Dragging(T, dids, target)[i]
           S == {i \in Nat : i <= Len(dids) => DragKeeps(T, target, g(i))}
<1>1. g(0) = Ok(T) /\ \A i \in 1..Len(dids) : g(i) = DragOne(g(i - 1), dids[i], target)
  BY DraggingDef
<1>2. 0 \in S
  <2>1. Ok(T).why = "" /\ Ok(T).decks = T
    BY OkIs
  <2>2. DragKeeps(T, target, Ok(T))
    BY <2>1 DEF DragKeeps, SameKinds
  <2>3. QED
    BY <1>1, <2>2
<1>3. ASSUME NEW i \in Nat, i \in S PROVE i + 1 \in S
  <2>1. CASE i + 1 <= Len(dids)
    <3>1. DragKeeps(T, target, g(i))
      BY <1>3, <2>1
    <3>2. i + 1 \in 1..Len(dids) /\ (i + 1) - 1 = i
      BY <2>1
    <3>3. g(i + 1) = DragOne(g(i), dids[i + 1], target)
      BY <1>1, <3>2
    <3> HIDE DEF g
    <3>4. DragKeeps(T, target, DragOne(g(i), dids[i + 1], target))
      BY <3>1, DragStepKeeps
    <3>5. QED
      BY <3>3, <3>4
  <2>2. CASE ~(i + 1 <= Len(dids))
    BY <2>2
  <2>3. QED
    BY <2>1, <2>2
<1> HIDE DEF S
<1>4. \A i \in Nat : i \in S
  BY <1>2, <1>3, SetInduction
<1>5. DragKeeps(T, target, g(Len(dids)))
  BY <1>4 DEF S
<1>6. QED
  BY <1>5, TheyRecur

(***************************************************************************)
(* Removing decks                                                          *)
(***************************************************************************)

\* U is T without the decks R; the first deck only loses its name.
RemovedFrom(T, U, R) ==
    /\ Table(U)
    /\ DOMAIN U = DOMAIN T \ (R \ {1})
    /\ \A e \in DOMAIN U : U[e].filtered = T[e].filtered
    /\ \A e \in DOMAIN U \ R : U[e] = T[e]
    /\ 1 \in R => Len(U[1].name) = 1

LEMMA NothingRemoved ==
  ASSUME NEW T, Table(T)
  PROVE  RemovedFrom(T, T, {})
BY DEF RemovedFrom

\* A table without some of its decks is a table.
LEMMA PartIsTable ==
  ASSUME NEW T, Table(T), NEW d
  PROVE  /\ Table([e \in DOMAIN T \ {d} |-> T[e]])
         /\ DOMAIN [e \in DOMAIN T \ {d} |-> T[e]] = DOMAIN T \ {d}
         /\ \A e \in DOMAIN T \ {d} : [f \in DOMAIN T \ {d} |-> T[f]][e] = T[e]
<1>1. PICK U : U = [e \in DOMAIN T \ {d} |-> T[e]]
  OBVIOUS
<1>2. DOMAIN U = DOMAIN T \ {d} /\ \A e \in DOMAIN U : U[e] = T[e]
  BY <1>1
<1>3. U = [e \in DOMAIN U |-> U[e]]
  BY <1>1
<1>4. IsFiniteSet(DOMAIN U)
  BY <1>2, FS_Subset DEF Table
<1>5. DOMAIN U \subseteq Nat \ {0}
  BY <1>2 DEF Table
<1>6. \A e \in DOMAIN U : U[e] \in [name : Name, filtered : BOOLEAN]
  BY <1>2 DEF Table
<1>7. \A e, f \in DOMAIN U : Fold(U[e].name) = Fold(U[f].name) => e = f
  BY <1>2 DEF Table
<1>8. Table(U)
  BY <1>3, <1>4, <1>5, <1>6, <1>7 DEF Table
<1>9. QED
  BY <1>1, <1>2, <1>8

LEMMA DefaultIs == Default \in Name /\ Len(Default) = 1
<1>1. <<0, 0, TRUE>> \in Comp
  BY DEF Comp
<1>2. PICK c : c = <<0, 0, TRUE>>
  OBVIOUS
<1>3. <<c>> \in Seq(Comp) /\ Len(<<c>>) = 1
  BY <1>1, <1>2
<1>4. Default = <<c>>
  BY <1>2 DEF Default
<1>5. <<c>> \in Name
  <2>1. PICK n : n = <<c>>
    OBVIOUS
  <2>2. n \in Seq(Comp) /\ Len(n) \in Nat /\ Len(n) >= 1
    BY <1>3, <2>1
  <2>3. n \in Name
    BY ONLY <2>2, NameIs
  <2>4. QED
    BY <2>1, <2>3
<1>6. QED
  BY <1>3, <1>4, <1>5

\* One deck removed.
LEMMA RemoveSingleIs ==
  ASSUME NEW T, NEW R \in SUBSET DOMAIN T, NEW s, RemovedFrom(T, s.decks, R), NEW d \in DOMAIN T
  PROVE  RemovedFrom(T, remove_single_deck(s, d).decks, R \cup {d})
<1>1. PICK U : U = s.decks
  OBVIOUS
<1>2. PICK V : V = remove_single_deck(s, d).decks
  OBVIOUS
<1>3. Table(U) /\ DOMAIN U = DOMAIN T \ (R \ {1})
  BY <1>1 DEF RemovedFrom
<1>4. CASE d = 1
  <2>1. PICK n : n = ensure_deck_name_unique(U, 1, Default)
    OBVIOUS
  <2>2. V = [U EXCEPT ![1].name = n]
    BY <1>1, <1>2, <1>4, <2>1 DEF remove_single_deck
  <2>3. IsFiniteSet(DOMAIN U)
    BY <1>3 DEF Table
  <2>4. n \in Name /\ Len(n) = 1 /\ get_deck_id(U, n) \subseteq {1}
    BY <2>1, <2>3, DefaultIs, UniqueName
  <2>5. 1 \in DOMAIN U
    BY <1>3, <1>4
  <2>6. /\ Table(V) /\ DOMAIN V = DOMAIN U /\ V[1] = Deck(n, U[1].filtered)
        /\ \A e \in DOMAIN U : e # 1 => V[e] = U[e]
    BY <1>3, <2>2, <2>4, <2>5, RenameKeepsTable
  <2>7. V[1].name = n /\ V[1].filtered = U[1].filtered
    BY ONLY <2>6 DEF Deck
  <2>8. DOMAIN V = DOMAIN T \ ((R \cup {d}) \ {1})
    BY <1>3, <1>4, <2>6
  <2>9. \A e \in DOMAIN V : V[e].filtered = T[e].filtered
    BY <1>1, <2>6, <2>7 DEF RemovedFrom
  <2>10. \A e \in DOMAIN V \ (R \cup {d}) : V[e] = T[e]
    BY <1>1, <1>4, <2>6 DEF RemovedFrom
  <2>11. QED
    BY <1>2, <2>4, <2>6, <2>7, <2>8, <2>9, <2>10 DEF RemovedFrom
<1>5. CASE d # 1
  <2>1. V = [e \in DOMAIN U \ {d} |-> U[e]]
    BY <1>1, <1>2, <1>5 DEF remove_single_deck
  <2>2. Table(V) /\ DOMAIN V = DOMAIN U \ {d} /\ \A e \in DOMAIN U \ {d} : V[e] = U[e]
    BY <1>3, <2>1, PartIsTable
  <2>3. DOMAIN V = DOMAIN T \ ((R \cup {d}) \ {1})
    BY <1>3, <1>5, <2>2
  <2>4. \A e \in DOMAIN V : V[e].filtered = T[e].filtered
    BY <1>1, <2>2 DEF RemovedFrom
  <2>5. \A e \in DOMAIN V \ (R \cup {d}) : V[e] = T[e]
    BY <1>1, <2>2 DEF RemovedFrom
  <2>6. ASSUME 1 \in R \cup {d} PROVE Len(V[1].name) = 1
    <3>1. 1 \in R
      BY <1>5, <2>6
    <3>2. 1 \in DOMAIN V
      BY <1>5, <2>3, <3>1
    <3>3. V[1] = U[1]
      BY <2>2, <3>2
    <3>4. QED
      BY <1>1, <3>1, <3>3 DEF RemovedFrom
  <2>7. QED
    BY <1>2, <2>2, <2>3, <2>4, <2>5, <2>6 DEF RemovedFrom
<1>6. QED
  BY <1>4, <1>5

(***************************************************************************)
(* The cards                                                               *)
(***************************************************************************)

\* The deck a card belongs to, if it is lent to a filtered one too.
Home(k) == IF k.odid # 0 THEN k.odid ELSE k.did

\* A card is in a normal deck, or lent by one to a filtered deck, or gone.
CardsAtHome(T, C) ==
    /\ C \in [Cards -> [did : Nat, odid : Nat]]
    /\ \A c \in Cards : C[c] # NoCard =>
          /\ C[c].did \in DOMAIN T
          /\ C[c].odid = 0 => ~T[C[c].did].filtered
          /\ C[c].odid # 0 => /\ T[C[c].did].filtered
                              /\ C[c].odid \in DOMAIN T /\ ~T[C[c].odid].filtered

\* The cards D are the cards C without those that belong to the decks R.
CardsLeft(C, D, R) ==
    \A c \in Cards :
        IF C[c] = NoCard \/ Home(C[c]) \in R THEN D[c] = NoCard
        ELSE D[c] # NoCard /\ Home(D[c]) = Home(C[c])

LEMMA NoCardIs == NoCard \in [did : Nat, odid : Nat] /\ NoCard.did = 0 /\ NoCard.odid = 0
BY DEF NoCard

LEMMA ReturnHomeIs ==
  ASSUME NEW C \in [Cards -> [did : Nat, odid : Nat]], NEW set
  PROVE  /\ ReturnHome(C, set) \in [Cards -> [did : Nat, odid : Nat]]
         /\ \A c \in Cards : c \in set /\ C[c].odid # 0 =>
               ReturnHome(C, set)[c].did = C[c].odid /\ ReturnHome(C, set)[c].odid = 0
         /\ \A c \in Cards : ~(c \in set /\ C[c].odid # 0) => ReturnHome(C, set)[c] = C[c]
<1>1. \A c \in Cards : C[c] \in [did : Nat, odid : Nat] /\ C[c].odid \in Nat
  OBVIOUS
<1>2. \A c \in Cards : [did |-> C[c].odid, odid |-> 0] \in [did : Nat, odid : Nat]
  BY <1>1
<1>3. QED
  BY <1>1, <1>2 DEF ReturnHome

\* Cards are of their types, and a card that is there has a deck.
LEMMA CardIs ==
  ASSUME NEW T, Table(T), NEW C, CardsAtHome(T, C), NEW c \in Cards
  PROVE  /\ C[c].did \in Nat /\ C[c].odid \in Nat
         /\ C[c] = NoCard <=> C[c].did = 0
         /\ C[c] = NoCard => C[c].odid = 0
<1>1. C[c] \in [did : Nat, odid : Nat]
  BY DEF CardsAtHome
<1>2. C[c].did \in Nat /\ C[c].odid \in Nat
  BY <1>1
<1>3. C[c] # NoCard => C[c].did # 0
  BY DEF CardsAtHome, Table
<1>4. C[c] = NoCard => C[c].did = 0 /\ C[c].odid = 0
  BY NoCardIs
<1>5. QED
  BY <1>2, <1>3, <1>4

\* What has become of the cards C when the deck d is gone.
WithoutDeck(V, C, D, d) == CardsAtHome(V, D) /\ CardsLeft(C, D, {d})

LEMMA RemoveSingleCards ==
  ASSUME NEW s, Table(s.decks), NEW U, U = s.decks, NEW C, C = s.cards, CardsAtHome(U, C),
         NEW d, d \in Nat \ {0}, NEW r, r = remove_single_deck(s, d),
         NEW V, V = r.decks, DOMAIN V = DOMAIN U \ ({d} \ {1}),
         \A e \in DOMAIN V : V[e].filtered = U[e].filtered
  PROVE  WithoutDeck(V, C, r.cards, d)
<1> DEFINE there == {c \in Cards : d \in {C[c].did, C[c].odid}}
<1>1. PICK D : D = r.cards
  OBVIOUS
<1>2. D = IF U[d].filtered THEN ReturnHome(C, there)
          ELSE [c \in Cards |-> IF c \in there THEN NoCard ELSE C[c]]
  BY <1>1 DEF remove_single_deck, all_cards_in_single_deck
<1>3. C \in [Cards -> [did : Nat, odid : Nat]]
  BY DEF CardsAtHome
<1>4. D \in [Cards -> [did : Nat, odid : Nat]]
  BY <1>2, <1>3, ReturnHomeIs, NoCardIs
<1>5. ASSUME NEW c \in Cards
      PROVE  /\ D[c] # NoCard =>
                  /\ D[c].did \in DOMAIN V
                  /\ D[c].odid = 0 => ~V[D[c].did].filtered
                  /\ D[c].odid # 0 => /\ V[D[c].did].filtered
                                      /\ D[c].odid \in DOMAIN V /\ ~V[D[c].odid].filtered
             /\ IF C[c] = NoCard \/ Home(C[c]) \in {d} THEN D[c] = NoCard
                ELSE D[c] # NoCard /\ Home(D[c]) = Home(C[c])
  <2>1. /\ C[c].did \in Nat /\ C[c].odid \in Nat
        /\ C[c] = NoCard <=> C[c].did = 0
        /\ C[c] = NoCard => C[c].odid = 0
    BY CardIs
  <2>2. C[c] # NoCard =>
          /\ C[c].did \in DOMAIN U
          /\ C[c].odid = 0 => ~U[C[c].did].filtered
          /\ C[c].odid # 0 => /\ U[C[c].did].filtered
                              /\ C[c].odid \in DOMAIN U /\ ~U[C[c].odid].filtered
    BY DEF CardsAtHome
  <2>3. CASE c \notin there
    <3>1. D[c] = C[c]
      BY <1>2, <1>3, <2>3, ReturnHomeIs
    <3>2. C[c].did # d /\ C[c].odid # d
      BY <2>3
    <3>3. Home(C[c]) # d
      BY <3>2 DEF Home
    <3>4. C[c].did \in DOMAIN U => C[c].did \in DOMAIN V
      BY <3>2
    <3>5. C[c].odid \in DOMAIN U => C[c].odid \in DOMAIN V
      BY <3>2
    <3>6. QED
      BY <2>2, <3>1, <3>3, <3>4, <3>5
  <2>4. CASE c \in there /\ ~U[d].filtered
    <3>1. D[c] = NoCard
      BY <1>2, <2>4
    <3>2. C[c].did = d \/ C[c].odid = d
      BY <2>4
    <3>3. C[c] = NoCard \/ Home(C[c]) = d
      <4>1. CASE C[c].odid = d
        BY <4>1 DEF Home
      <4>2. CASE C[c].did = d
        <5>1. C[c] # NoCard => C[c].odid = 0
          BY <2>2, <2>4, <4>2
        <5>2. QED
          BY <4>2, <5>1 DEF Home
      <4>3. QED
        BY <3>2, <4>1, <4>2
    <3>4. QED
      BY <3>1, <3>3
  <2>5. CASE c \in there /\ U[d].filtered
    <3>1. C[c] # NoCard
      BY <2>1, <2>5
    <3>2. C[c].did = d /\ C[c].odid # 0
      BY <2>2, <2>5, <3>1
    <3>3. D[c].did = C[c].odid /\ D[c].odid = 0
      BY <1>2, <1>3, <2>5, <3>2, ReturnHomeIs
    <3>4. C[c].odid \in DOMAIN U /\ ~U[C[c].odid].filtered /\ C[c].odid # d
      BY <2>2, <2>5, <3>1, <3>2
    <3>5. C[c].odid \in DOMAIN V /\ ~V[C[c].odid].filtered
      BY <3>4
    <3>6. D[c] # NoCard
      BY <3>2, <3>3, NoCardIs
    <3>7. Home(C[c]) = C[c].odid /\ Home(D[c]) = C[c].odid
      BY <3>2, <3>3 DEF Home
    <3>8. QED
      BY <3>1, <3>3, <3>4, <3>5, <3>6, <3>7
  <2>6. QED
    BY <2>3, <2>4, <2>5
<1>6. CardsAtHome(V, D)
  BY <1>4, <1>5 DEF CardsAtHome
<1>7. CardsLeft(C, D, {d})
  BY <1>5 DEF CardsLeft
<1>8. QED
  BY <1>1, <1>6, <1>7 DEF WithoutDeck

LEMMA BelowTransitive ==
  ASSUME NEW a \in Seq(Comp), NEW b \in Seq(Comp), NEW c \in Seq(Comp), IsBelow(a, b), IsBelow(b, c)
  PROVE  IsBelow(a, c)
<1>1. Len(a) \in Nat /\ Len(b) \in Nat /\ Len(c) \in Nat
  OBVIOUS
<1>2. Len(a) > Len(b) /\ Agree(a, b, Len(b)) /\ Len(b) > Len(c) /\ Agree(b, c, Len(c))
  BY BelowIs
<1>3. Len(a) > Len(c)
  BY <1>1, <1>2
<1>4. Agree(a, c, Len(c))
  BY <1>1, <1>2 DEF Agree
<1>5. QED
  BY <1>3, <1>4, BelowIs

\* No card of D names a deck that no card of C names.
KeepsTypes(C, D) ==
    \A S : 0 \in S /\ C \in [Cards -> [did : S, odid : S]] => D \in [Cards -> [did : S, odid : S]]

LEMMA RemoveSingleTypes ==
  ASSUME NEW s, NEW d
  PROVE  KeepsTypes(s.cards, remove_single_deck(s, d).cards)
<1>1. SUFFICES ASSUME NEW S, 0 \in S, s.cards \in [Cards -> [did : S, odid : S]]
               PROVE  remove_single_deck(s, d).cards \in [Cards -> [did : S, odid : S]]
  BY DEF KeepsTypes
<1>2. PICK C : C = s.cards
  OBVIOUS
<1>3. PICK there : there = all_cards_in_single_deck(C, d)
  OBVIOUS
<1>4. remove_single_deck(s, d).cards =
        IF s.decks[d].filtered THEN ReturnHome(C, there)
        ELSE [c \in Cards |-> IF c \in there THEN NoCard ELSE C[c]]
  BY <1>2, <1>3 DEF remove_single_deck
<1>5. NoCard \in [did : S, odid : S]
  BY <1>1 DEF NoCard
<1>6. \A c \in Cards : C[c] \in [did : S, odid : S]
  BY <1>1, <1>2
<1>7. [c \in Cards |-> IF c \in there THEN NoCard ELSE C[c]] \in [Cards -> [did : S, odid : S]]
  BY <1>5, <1>6
<1>8. \A c \in Cards : [did |-> C[c].odid, odid |-> 0] \in [did : S, odid : S]
  BY <1>1, <1>6
<1>9. ReturnHome(C, there) \in [Cards -> [did : S, odid : S]]
  BY <1>6, <1>8 DEF ReturnHome
<1>10. QED
  BY <1>4, <1>7, <1>9

\* A removal under way: of the table T and the cards C, without the decks R.
Removal(T, C, s, R) ==
    /\ RemovedFrom(T, s.decks, R)
    /\ KeepsTypes(C, s.cards)
    /\ CardsAtHome(T, C) => CardsAtHome(s.decks, s.cards) /\ CardsLeft(C, s.cards, R)

LEMMA RemovalStarts ==
  ASSUME NEW s, Table(s.decks)
  PROVE  Removal(s.decks, s.cards, s, {})
<1>1. CardsAtHome(s.decks, s.cards) => CardsLeft(s.cards, s.cards, {})
  BY DEF CardsLeft
<1>2. QED
  BY <1>1, NothingRemoved DEF Removal, KeepsTypes

LEMMA RemovalStep ==
  ASSUME NEW T, Table(T), NEW C, NEW s, NEW R \in SUBSET DOMAIN T, Removal(T, C, s, R),
         NEW d \in DOMAIN T
  PROVE  Removal(T, C, remove_single_deck(s, d), R \cup {d})
<1>1. PICK r : r = remove_single_deck(s, d)
  OBVIOUS
<1>2. RemovedFrom(T, s.decks, R) /\ RemovedFrom(T, r.decks, R \cup {d})
  BY <1>1, RemoveSingleIs DEF Removal
<1>3. ASSUME CardsAtHome(T, C)
      PROVE  CardsAtHome(r.decks, r.cards) /\ CardsLeft(C, r.cards, R \cup {d})
  <2>1. Table(s.decks) /\ CardsAtHome(s.decks, s.cards) /\ CardsLeft(C, s.cards, R)
    BY <1>2, <1>3 DEF Removal, RemovedFrom
  <2>2. d \in Nat \ {0}
    BY DEF Table
  <2>3. DOMAIN r.decks = DOMAIN s.decks \ ({d} \ {1})
    BY <1>2 DEF RemovedFrom
  <2>4. \A e \in DOMAIN r.decks : r.decks[e].filtered = s.decks[e].filtered
    <3>1. \A e \in DOMAIN r.decks : e \in DOMAIN s.decks
      BY <2>3
    <3>2. QED
      BY <1>2, <3>1 DEF RemovedFrom
  <2>5. CardsAtHome(r.decks, r.cards) /\ CardsLeft(s.cards, r.cards, {d})
    <3>1. PICK U : U = s.decks
      OBVIOUS
    <3>2. PICK V : V = r.decks
      OBVIOUS
    <3>3. PICK D : D = s.cards
      OBVIOUS
    <3>4. Table(U) /\ CardsAtHome(U, D) /\ DOMAIN V = DOMAIN U \ ({d} \ {1}) /\ \A e \in DOMAIN V : V[e].filtered = U[e].filtered
      BY <2>1, <2>3, <2>4, <3>1, <3>2, <3>3
    <3>5. WithoutDeck(V, D, r.cards, d)
      BY <1>1, <2>2, <3>1, <3>2, <3>3, <3>4, RemoveSingleCards
    <3>6. QED
      BY <3>2, <3>3, <3>5 DEF WithoutDeck
  <2>6. ASSUME NEW c \in Cards
        PROVE  IF C[c] = NoCard \/ Home(C[c]) \in R \cup {d} THEN r.cards[c] = NoCard
               ELSE r.cards[c] # NoCard /\ Home(r.cards[c]) = Home(C[c])
    <3>1. IF C[c] = NoCard \/ Home(C[c]) \in R THEN s.cards[c] = NoCard
          ELSE s.cards[c] # NoCard /\ Home(s.cards[c]) = Home(C[c])
      BY <2>1 DEF CardsLeft
    <3>2. IF s.cards[c] = NoCard \/ Home(s.cards[c]) \in {d} THEN r.cards[c] = NoCard
          ELSE r.cards[c] # NoCard /\ Home(r.cards[c]) = Home(s.cards[c])
      BY <2>5 DEF CardsLeft
    <3>3. QED
      BY <3>1, <3>2
  <2>7. QED
    BY <2>5, <2>6 DEF CardsLeft
<1>4. KeepsTypes(C, r.cards)
  <2>1. KeepsTypes(C, s.cards) /\ KeepsTypes(s.cards, r.cards)
    BY <1>1, RemoveSingleTypes DEF Removal
  <2>2. QED
    BY <2>1 DEF KeepsTypes
<1>5. QED
  BY <1>1, <1>2, <1>3, <1>4 DEF Removal

\* One deck after the other.
LEMMA RemoveEachIs ==
  ASSUME NEW T, Table(T), NEW C, NEW s, NEW R \in SUBSET DOMAIN T, Removal(T, C, s, R),
         NEW dids \in Seq(DOMAIN T)
  PROVE  Removal(T, C, remove_each(s, dids), R \cup {dids[i] : i \in 1..Len(dids)})
<1> DEFINE g(i) == RemovingEach(s, dids)[i]
           Q(i) == R \cup {dids[j] : j \in 1..i}
           S == {i \in Nat : i <= Len(dids) => Removal(T, C, g(i), Q(i))}
<1>1. Len(dids) \in Nat /\ \A i \in 1..Len(dids) : dids[i] \in DOMAIN T
  BY SeqFacts
<1>2. g(0) = s /\ \A i \in 1..Len(dids) : g(i) = remove_single_deck(g(i - 1), dids[i])
  BY <1>1, RemovingEachDef
<1>3. 0 \in S
  <2>1. Q(0) = R
    OBVIOUS
  <2>2. QED
    BY <1>2, <2>1
<1>4. ASSUME NEW i \in Nat, i \in S PROVE i + 1 \in S
  <2>1. SUFFICES ASSUME i + 1 <= Len(dids) PROVE Removal(T, C, g(i + 1), Q(i + 1))
    OBVIOUS
  <2>2. Removal(T, C, g(i), Q(i))
    BY <1>1, <1>4, <2>1
  <2>3. i + 1 \in 1..Len(dids) /\ (i + 1) - 1 = i
    BY <1>1, <2>1
  <2>4. g(i + 1) = remove_single_deck(g(i), dids[i + 1]) /\ dids[i + 1] \in DOMAIN T
    BY <1>1, <1>2, <2>3
  <2>5. Q(i) \in SUBSET DOMAIN T
    BY <1>1, <2>3
  <2>6. Q(i + 1) = Q(i) \cup {dids[i + 1]}
    <3>1. 1..(i + 1) = (1..i) \cup {i + 1}
      OBVIOUS
    <3>2. QED
      BY <3>1
  <2> HIDE DEF g, Q
  <2>7. Removal(T, C, remove_single_deck(g(i), dids[i + 1]), Q(i) \cup {dids[i + 1]})
    BY <2>2, <2>4, <2>5, RemovalStep
  <2>8. QED
    BY <2>4, <2>6, <2>7
<1> HIDE DEF S
<1>5. \A i \in Nat : i \in S
  BY <1>3, <1>4, SetInduction
<1>6. Removal(T, C, g(Len(dids)), Q(Len(dids)))
  <2>1. Len(dids) \in S
    BY <1>1, <1>5
  <2> HIDE DEF g, Q
  <2>2. QED
    BY <1>1, <2>1 DEF S
<1>7. QED
  BY <1>6, TheyRecur

\* A deck and the decks below it.
LEMMA RemoveWithChildrenIs ==
  ASSUME NEW T, Table(T), NEW C, NEW s, NEW R \in SUBSET DOMAIN T, Removal(T, C, s, R),
         NEW U, U = s.decks, NEW d \in DOMAIN U
  PROVE  Removal(T, C, remove_with_children(s, d),
                 R \cup {d} \cup {e \in DOMAIN U : IsBelow(U[e].name, U[d].name)})
<1>1. Table(U) /\ DOMAIN U \subseteq DOMAIN T
  BY DEF Removal, RemovedFrom
<1>2. U[d].name \in Seq(Comp)
  BY <1>1, NameIs DEF Table
<1>3. PICK k : k = child_decks(U, U[d].name)
  OBVIOUS
<1>4. /\ k \in Seq(DOMAIN U)
      /\ \A i \in 1..Len(k) : k[i] \in DOMAIN U /\ IsBelow(U[k[i]].name, U[d].name)
      /\ \A e \in DOMAIN U : IsBelow(U[e].name, U[d].name) => \E i \in 1..Len(k) : k[i] = e
  BY <1>1, <1>2, <1>3, ChildrenIs
<1>5. PICK dids : dids = <<d>> \o k
  OBVIOUS
<1>6. Len(k) \in Nat /\ d \in DOMAIN T /\ k \in Seq(DOMAIN T)
  BY <1>1, <1>4, SeqFacts
<1>7. /\ dids \in Seq(DOMAIN T) /\ Len(dids) = 1 + Len(k)
      /\ dids[1] = d /\ \A i \in 1..Len(k) : dids[i + 1] = k[i]
  BY <1>5, <1>6
<1>8. {dids[i] : i \in 1..Len(dids)} = {d} \cup {e \in DOMAIN U : IsBelow(U[e].name, U[d].name)}
  <2>1. ASSUME NEW i \in 1..Len(dids)
        PROVE  dids[i] \in {d} \cup {e \in DOMAIN U : IsBelow(U[e].name, U[d].name)}
    <3>1. CASE i = 1
      BY <1>7, <3>1
    <3>2. CASE i # 1
      <4>1. i - 1 \in 1..Len(k) /\ (i - 1) + 1 = i
        BY <1>6, <1>7, <3>2
      <4>2. dids[i] = k[i - 1]
        BY <1>7, <4>1
      <4>3. QED
        BY <1>4, <4>1, <4>2
    <3>3. QED
      BY <3>1, <3>2
  <2>2. d \in {dids[i] : i \in 1..Len(dids)}
    <3>1. 1 \in 1..Len(dids)
      BY <1>6, <1>7
    <3>2. QED
      BY <1>7, <3>1
  <2>3. ASSUME NEW e \in DOMAIN U, IsBelow(U[e].name, U[d].name)
        PROVE  e \in {dids[i] : i \in 1..Len(dids)}
    <3>1. PICK i \in 1..Len(k) : k[i] = e
      BY <1>4, <2>3
    <3>2. i + 1 \in 1..Len(dids) /\ dids[i + 1] = e
      BY <1>6, <1>7, <3>1
    <3>3. QED
      BY <3>2
  <2>4. QED
    BY <2>1, <2>2, <2>3
<1>9. remove_with_children(s, d) = remove_each(s, dids)
  BY <1>3, <1>5 DEF remove_with_children
<1>10. Removal(T, C, remove_each(s, dids), R \cup {dids[i] : i \in 1..Len(dids)})
  BY <1>7, RemoveEachIs
<1>11. QED
  BY <1>8, <1>9, <1>10

\* The decks M and those below them.
Gone(T, M) == {e \in DOMAIN T : \E m \in M : m = e \/ IsBelow(T[e].name, T[m].name)}

\* Removing a deck that may have gone with one before it.
LEMMA RemoveOneIs ==
  ASSUME NEW T, Table(T), Whole(T), NEW C, NEW M \in SUBSET DOMAIN T,
         NEW s, Removal(T, C, s, Gone(T, M)), NEW d \in DOMAIN T
  PROVE  Removal(T, C, RemoveOne(s, d), Gone(T, M \cup {d}))
<1> DEFINE G == Gone(T, M)
           H == Gone(T, M \cup {d})
<1>1. PICK U : U = s.decks
  OBVIOUS
<1>2. /\ Table(U) /\ DOMAIN U = DOMAIN T \ (G \ {1})
      /\ \A e \in DOMAIN U \ G : U[e] = T[e]
      /\ 1 \in G => Len(U[1].name) = 1
  BY <1>1 DEF Removal, RemovedFrom
<1>3. \A e \in DOMAIN T : T[e].name \in Seq(Comp) /\ T[e].name \in Name
  BY NameIs DEF Table
<1>4. G \subseteq DOMAIN T /\ H = G \cup {e \in DOMAIN T : e = d \/ IsBelow(T[e].name, T[d].name)}
  BY DEF Gone
<1>5. ASSUME NEW p \in G, NEW e \in DOMAIN T, IsBelow(T[e].name, T[p].name)
      PROVE  e \in G
  <2>1. PICK m \in M : m = p \/ IsBelow(T[p].name, T[m].name)
    BY DEF Gone
  <2>2. IsBelow(T[e].name, T[m].name)
    <3>1. m \in DOMAIN T /\ p \in DOMAIN T
      BY <1>4
    <3>2. QED
      BY <1>3, <1>5, <2>1, <3>1, BelowTransitive
  <2>3. QED
    BY <2>2 DEF Gone
<1>6. CASE d \notin DOMAIN U
  <2>1. d \in G
    BY <1>2, <1>6
  <2>2. H = G
    BY <1>4, <1>5, <2>1
  <2>3. RemoveOne(s, d) = s
    BY <1>1, <1>6 DEF RemoveOne
  <2>4. QED
    BY <2>2, <2>3
<1>7. CASE d \in DOMAIN U
  <2> DEFINE R == G \cup {d} \cup {e \in DOMAIN U : IsBelow(U[e].name, U[d].name)}
  <2>1. RemoveOne(s, d) = remove_with_children(s, d)
    BY <1>1, <1>7 DEF RemoveOne
  <2>2. Removal(T, C, remove_with_children(s, d), R)
    BY <1>1, <1>4, <1>7, RemoveWithChildrenIs
  <2>3. ASSUME NEW e \in H PROVE e \in R
    <3>1. CASE e \in G \/ e = d
      BY <3>1
    <3>2. CASE e \notin G /\ e # d
      <4>1. e \in DOMAIN T /\ IsBelow(T[e].name, T[d].name)
        BY <1>4, <3>2
      <4>2. d \notin G
        BY <1>5, <3>2, <4>1
      <4>3. e \in DOMAIN U /\ U[e] = T[e] /\ U[d] = T[d]
        BY <1>2, <1>7, <3>2, <4>1, <4>2
      <4>4. QED
        BY <4>1, <4>3
    <3>3. QED
      BY <3>1, <3>2
  <2>4. ASSUME NEW e \in R PROVE e \in H
    <3>1. CASE e \in G \/ e = d
      BY <1>4, <3>1
    <3>2. CASE e \notin G /\ e # d
      <4>1. e \in DOMAIN U /\ IsBelow(U[e].name, U[d].name)
        BY <3>2
      <4>2. e \in DOMAIN T /\ U[e] = T[e]
        BY <1>2, <3>2, <4>1
      <4>3. CASE d \notin G
        <5>1. U[d] = T[d]
          BY <1>2, <1>7, <4>3
        <5>2. QED
          BY <1>4, <4>1, <4>2, <5>1
      <4>4. CASE d \in G
        <5>1. d = 1
          BY <1>2, <1>7, <4>4
        <5>2. U[1].name \in Name
          BY <1>2, <1>7, <5>1 DEF Table
        <5>3. IsBelow(T[e].name, U[1].name)
          BY <4>1, <4>2, <5>1
        <5>4. PICK p \in DOMAIN T : /\ T[p].name = SubSeq(T[e].name, 1, Len(U[1].name))
                                    /\ Fold(T[p].name) = Fold(U[1].name)
          BY <4>2, <5>2, <5>3, AboveInWhole
        <5>5. IsBelow(T[e].name, T[p].name)
          <6>1. T[p].name \in Seq(Comp) /\ T[e].name \in Seq(Comp) /\ U[1].name \in Seq(Comp)
            BY <1>3, <4>2, <5>2, NameIs
          <6>2. Len(T[p].name) = Len(U[1].name)
            BY <5>4, <6>1, FoldIs
          <6>3. QED
            BY <5>3, <5>4, <6>2 DEF IsBelow
        <5>6. p \notin G
          BY <1>5, <3>2, <4>2, <5>5
        <5>7. p \in DOMAIN U /\ U[p] = T[p]
          BY <1>2, <5>6
        <5>8. p = 1
          BY <1>2, <1>7, <5>1, <5>4, <5>7 DEF Table
        <5>9. QED
          BY <4>4, <5>1, <5>6, <5>8
      <4>5. QED
        BY <4>3, <4>4
    <3>3. QED
      BY <3>1, <3>2
  <2>5. R = H
    BY <2>3, <2>4
  <2> HIDE DEF R, H
  <2>6. QED
    BY <2>1, <2>2, <2>5 DEF H
<1>8. QED
  BY <1>6, <1>7

\* What is left of a whole tree is whole.
LEMMA LeftIsWhole ==
  ASSUME NEW T, Table(T), Whole(T), NEW M \in SUBSET DOMAIN T, NEW U, RemovedFrom(T, U, Gone(T, M))
  PROVE  Whole(U)
<1> DEFINE G == Gone(T, M)
<1>1. /\ Table(U) /\ DOMAIN U = DOMAIN T \ (G \ {1})
      /\ \A e \in DOMAIN U : U[e].filtered = T[e].filtered
      /\ \A e \in DOMAIN U \ G : U[e] = T[e]
      /\ 1 \in G => Len(U[1].name) = 1
  BY DEF RemovedFrom
<1>2. \A e \in DOMAIN T : T[e].name \in Seq(Comp) /\ T[e].name \in Name
  BY NameIs DEF Table
<1>3. ASSUME NEW e \in DOMAIN U, Len(U[e].name) > 1
      PROVE  ParentOf(U, U[e].name)
  <2>1. e \notin G
    <3>1. SUFFICES ASSUME e \in G PROVE FALSE
      OBVIOUS
    <3>2. e = 1
      BY <1>1, <3>1
    <3>3. Len(U[e].name) = 1
      BY <1>1, <3>1, <3>2
    <3> HIDE DEF G
    <3>4. QED
      BY ONLY <1>3, <3>3
  <2>2. e \in DOMAIN T /\ U[e] = T[e]
    BY <1>1, <2>1
  <2>3. PICK p \in DOMAIN T : T[p].name = Front(T[e].name) /\ ~T[p].filtered
    BY <1>3, <2>2 DEF Whole, ParentOf
  <2>4. p \notin G
    <3>1. SUFFICES ASSUME p \in G PROVE FALSE
      OBVIOUS
    <3>2. PICK m \in M : m = p \/ IsBelow(T[p].name, T[m].name)
      BY <3>1 DEF Gone
    <3>3. m \in DOMAIN T
      OBVIOUS
    <3>4. Fold(T[p].name) = Fold(T[m].name) \/ IsBelow(T[p].name, T[m].name)
      BY <3>2
    <3>5. IsBelow(T[e].name, T[m].name)
      BY <1>2, <1>3, <2>2, <2>3, <3>3, <3>4, BelowByParent
    <3>6. e \in G
      BY <2>2, <3>5 DEF Gone
    <3>7. QED
      BY <2>1, <3>6
  <2>5. p \in DOMAIN U /\ U[p] = T[p]
    BY <1>1, <2>4
  <2>6. QED
    BY <2>2, <2>3, <2>5 DEF ParentOf
<1>4. QED
  BY <1>3 DEF Whole

\* Removing a selection.
LEMMA RemoveDecksIs ==
  ASSUME Table(decks), Whole(decks), NEW dids \in Seq(DOMAIN decks)
  PROVE  Removal(decks, cards, remove_decks_and_child_decks(dids), Gone(decks, {dids[i] : i \in 1..Len(dids)}))
<1>1. PICK s : s = [decks |-> decks, cards |-> cards]
  OBVIOUS
<1>2. s.decks = decks /\ s.cards = cards
  BY <1>1
<1> DEFINE g(i) == RemovingAll(s, dids)[i]
           M(i) == {dids[j] : j \in 1..i}
           S == {i \in Nat : i <= Len(dids) => Removal(decks, cards, g(i), Gone(decks, M(i)))}
<1>3. Len(dids) \in Nat /\ \A i \in 1..Len(dids) : dids[i] \in DOMAIN decks
  BY SeqFacts
<1>4. g(0) = s /\ \A i \in 1..Len(dids) : g(i) = RemoveOne(g(i - 1), dids[i])
  BY <1>3, RemovingAllDef
<1>5. 0 \in S
  <2>1. Gone(decks, M(0)) = {}
    BY DEF Gone
  <2>2. Removal(decks, cards, s, {})
    BY <1>2, RemovalStarts
  <2>3. QED
    BY <1>4, <2>1, <2>2
<1>6. ASSUME NEW i \in Nat, i \in S PROVE i + 1 \in S
  <2>1. SUFFICES ASSUME i + 1 <= Len(dids) PROVE Removal(decks, cards, g(i + 1), Gone(decks, M(i + 1)))
    OBVIOUS
  <2>2. Removal(decks, cards, g(i), Gone(decks, M(i)))
    BY <1>3, <1>6, <2>1
  <2>3. i + 1 \in 1..Len(dids) /\ (i + 1) - 1 = i
    BY <1>3, <2>1
  <2>4. g(i + 1) = RemoveOne(g(i), dids[i + 1]) /\ dids[i + 1] \in DOMAIN decks
    BY <1>3, <1>4, <2>3
  <2>5. M(i) \in SUBSET DOMAIN decks
    BY <1>3, <2>3
  <2>6. M(i + 1) = M(i) \cup {dids[i + 1]}
    <3>1. 1..(i + 1) = (1..i) \cup {i + 1}
      OBVIOUS
    <3>2. QED
      BY <3>1
  <2> HIDE DEF g, M
  <2>7. Removal(decks, cards, RemoveOne(g(i), dids[i + 1]), Gone(decks, M(i) \cup {dids[i + 1]}))
    BY <2>2, <2>4, <2>5, RemoveOneIs
  <2>8. QED
    BY <2>4, <2>6, <2>7
<1> HIDE DEF S
<1>7. \A i \in Nat : i \in S
  BY <1>5, <1>6, SetInduction
<1>8. Removal(decks, cards, g(Len(dids)), Gone(decks, M(Len(dids))))
  <2>1. Len(dids) \in S
    BY <1>3, <1>7
  <2> HIDE DEF g, M
  <2>2. QED
    BY <1>3, <2>1 DEF S
<1>9. remove_decks_and_child_decks(dids) = g(Len(dids))
  BY <1>1, TheyRecur
<1> HIDE DEF g
<1>10. QED
  BY <1>8, <1>9

\* Removing a selection, whatever the tree.
SomeRemoval(T, C, s) == \E R \in SUBSET DOMAIN T : Removal(T, C, s, R)

LEMMA RemoveOneTypes ==
  ASSUME NEW T, Table(T), NEW C, NEW s, SomeRemoval(T, C, s), NEW d
  PROVE  SomeRemoval(T, C, RemoveOne(s, d))
<1>1. PICK R \in SUBSET DOMAIN T : Removal(T, C, s, R)
  BY DEF SomeRemoval
<1>2. PICK U : U = s.decks
  OBVIOUS
<1>3. CASE d \in DOMAIN U
  <2> DEFINE Q == R \cup {d} \cup {e \in DOMAIN U : IsBelow(U[e].name, U[d].name)}
  <2>1. Removal(T, C, remove_with_children(s, d), Q)
    BY <1>1, <1>2, <1>3, RemoveWithChildrenIs
  <2>2. Q \in SUBSET DOMAIN T
    BY <1>1, <1>2, <1>3 DEF Removal, RemovedFrom
  <2>3. RemoveOne(s, d) = remove_with_children(s, d)
    BY <1>2, <1>3 DEF RemoveOne
  <2> HIDE DEF Q
  <2>4. QED
    BY <2>1, <2>2, <2>3 DEF SomeRemoval
<1>4. CASE d \notin DOMAIN U
  BY <1>2, <1>4 DEF RemoveOne
<1>5. QED
  BY <1>3, <1>4

LEMMA RemoveDecksTypes ==
  ASSUME Table(decks), NEW dids, Len(dids) \in Nat
  PROVE  SomeRemoval(decks, cards, remove_decks_and_child_decks(dids))
<1>1. PICK s : s = [decks |-> decks, cards |-> cards]
  OBVIOUS
<1>2. s.decks = decks /\ s.cards = cards
  BY <1>1
<1> DEFINE g(i) == RemovingAll(s, dids)[i]
           S == {i \in Nat : i <= Len(dids) => SomeRemoval(decks, cards, g(i))}
<1>3. g(0) = s /\ \A i \in 1..Len(dids) : g(i) = RemoveOne(g(i - 1), dids[i])
  BY RemovingAllDef
<1>4. 0 \in S
  <2>1. Removal(decks, cards, s, {})
    BY <1>2, RemovalStarts
  <2>2. {} \in SUBSET DOMAIN decks
    OBVIOUS
  <2>3. QED
    BY <1>3, <2>1, <2>2 DEF SomeRemoval
<1>5. ASSUME NEW i \in Nat, i \in S PROVE i + 1 \in S
  <2>1. SUFFICES ASSUME i + 1 <= Len(dids) PROVE SomeRemoval(decks, cards, g(i + 1))
    OBVIOUS
  <2>2. SomeRemoval(decks, cards, g(i))
    BY <1>5, <2>1
  <2>3. i + 1 \in 1..Len(dids) /\ (i + 1) - 1 = i
    BY <2>1
  <2>4. g(i + 1) = RemoveOne(g(i), dids[i + 1])
    BY <1>3, <2>3
  <2> HIDE DEF g
  <2>5. QED
    BY <2>2, <2>4, RemoveOneTypes
<1> HIDE DEF S
<1>6. \A i \in Nat : i \in S
  BY <1>4, <1>5, SetInduction
<1>7. SomeRemoval(decks, cards, g(Len(dids)))
  <2>1. Len(dids) \in S
    BY <1>6
  <2> HIDE DEF g
  <2>2. QED
    BY <2>1 DEF S
<1>8. remove_decks_and_child_decks(dids) = g(Len(dids))
  BY <1>1, TheyRecur
<1> HIDE DEF g
<1>9. QED
  BY <1>7, <1>8

(***************************************************************************)
(* Adding, and the database check                                          *)
(***************************************************************************)

\* Every deck of T is in U as it was.
Extends(T, U) == \A e \in DOMAIN T : e \in DOMAIN U /\ U[e] = T[e]
HasParent(T, e) == Len(T[e].name) > 1 => get_deck_id(T, Front(T[e].name)) # {}
\* The decks that U has and T has not are under decks of U.
NewHaveParents(T, U) == \A e \in DOMAIN U \ DOMAIN T : HasParent(U, e)

LEMMA ParentsStay ==
  ASSUME NEW T, NEW U, Extends(T, U), NEW e \in DOMAIN T, HasParent(T, e)
  PROVE  HasParent(U, e)
<1>1. U[e] = T[e]
  BY DEF Extends
<1>2. ASSUME Len(T[e].name) > 1 PROVE get_deck_id(U, Front(T[e].name)) # {}
  <2>1. PICK p \in DOMAIN T : Fold(T[p].name) = Fold(Front(T[e].name))
    BY <1>2 DEF HasParent, get_deck_id
  <2>2. p \in DOMAIN U /\ U[p] = T[p]
    BY DEF Extends
  <2>3. QED
    BY <2>1, <2>2 DEF get_deck_id
<1>3. QED
  BY <1>1, <1>2 DEF HasParent

LEMMA ExtendsTransitive ==
  ASSUME NEW T, NEW U, NEW V, Extends(T, U), Extends(U, V)
  PROVE  /\ Extends(T, V)
         /\ NewHaveParents(T, U) /\ NewHaveParents(U, V) => NewHaveParents(T, V)
<1>1. Extends(T, V)
  BY DEF Extends
<1>2. ASSUME NewHaveParents(T, U), NewHaveParents(U, V), NEW e \in DOMAIN V \ DOMAIN T
      PROVE  HasParent(V, e)
  <2>1. CASE e \in DOMAIN U
    BY <1>2, <2>1, ParentsStay DEF NewHaveParents
  <2>2. CASE e \notin DOMAIN U
    BY <1>2, <2>2 DEF NewHaveParents
  <2>3. QED
    BY <2>1, <2>2
<1>3. QED
  BY <1>1, <1>2 DEF NewHaveParents

\* The parents that are created have theirs.
LEMMA GrownExtends ==
  ASSUME NEW T, NEW U, NEW n \in Name, Grown(T, U, n)
  PROVE  /\ Extends(T, U) /\ NewHaveParents(T, U)
         /\ \A e \in DOMAIN U \ DOMAIN T : ~U[e].filtered
<1>1. Extends(T, U)
  BY DEF Grown, Extends
<1>2. n \in Seq(Comp) /\ Len(n) \in Nat
  BY NameIs
<1>3. ASSUME NEW e \in DOMAIN U \ DOMAIN T PROVE HasParent(U, e) /\ ~U[e].filtered
  <2>1. PICK k \in 1..(Len(n) - 1) : U[e] = Deck(SubSeq(n, 1, k), FALSE)
    BY DEF Grown
  <2>2. U[e].name = SubSeq(n, 1, k) /\ ~U[e].filtered
    BY <2>1 DEF Deck
  <2>3. U # T
    OBVIOUS
  <2>4. \A j \in 1..(Len(n) - 1) : get_deck_id(U, SubSeq(n, 1, j)) # {}
    BY <2>3 DEF Grown
  <2>5. ASSUME Len(U[e].name) > 1 PROVE get_deck_id(U, Front(U[e].name)) # {}
    <3>1. Len(SubSeq(n, 1, k)) = k
      <4>1. k \in 0..Len(n)
        BY <1>2
      <4>2. QED
        BY <1>2, <4>1, PrefixIs
    <3>2. k \in 2..Len(n) /\ k - 1 \in 1..(Len(n) - 1)
      BY <1>2, <2>2, <2>5, <3>1
    <3>3. Front(U[e].name) = SubSeq(n, 1, k - 1)
      BY <2>2, <3>2, FrontOfPrefix
    <3>4. QED
      BY <2>4, <3>2, <3>3
  <2>6. QED
    BY <2>2, <2>5 DEF HasParent
<1>4. QED
  BY <1>1, <1>3 DEF NewHaveParents

\* What adding a deck comes to: d is the new one.
NewDeck(T, W, n, f, d) ==
    /\ Table(W) /\ Extends(T, W) /\ NewHaveParents(T, W)
    /\ d \in DOMAIN W \ DOMAIN T /\ W[d].filtered = f
    /\ Fold(W[d].name) = Fold(Unique(T, 0, n))
    /\ \A e \in DOMAIN W : e <= d
    /\ \A e \in DOMAIN W \ DOMAIN T : e # d => ~W[e].filtered

LEMMA AddAdds ==
  ASSUME NEW T, Table(T), NEW n \in Name, NEW f \in BOOLEAN, nextId \in Nat \ {0},
         NEW r, r = add_deck_inner(T, n, f)
  PROVE  /\ r.why \in {"", "filtered_parent"}
         /\ r.why = "" => \E d \in DOMAIN r.decks : NewDeck(T, r.decks, n, f, d)
<1>1. PICK U : U = WithParents(T, 0, n)
  OBVIOUS
<1>2. PICK m : m = Spelled(T, 0, n)
  OBVIOUS
<1>3. /\ r.why \in {"", "filtered_parent"}
      /\ r.why = "" => Added(U, r.decks, m, f)
  BY <1>1, <1>2, AddIs
<1>4. m \in Name /\ Grown(T, U, m) /\ Fold(m) = Fold(Unique(T, 0, n))
  BY <1>1, <1>2, PartsAre
<1>5. ASSUME r.why = "" PROVE NewDeck(T, r.decks, n, f, Fresh(U))
  <2>1. PICK W : W = r.decks
    OBVIOUS
  <2>2. PICK d : d = Fresh(U)
    OBVIOUS
  <2>3. /\ Table(W) /\ DOMAIN W = DOMAIN U \cup {d}
        /\ d \in Nat /\ \A e \in DOMAIN U : e < d
        /\ W[d] = Deck(m, f)
        /\ \A e \in DOMAIN U : W[e] = U[e]
    BY <1>3, <1>5, <2>1, <2>2 DEF Added
  <2>4. W[d].name = m /\ W[d].filtered = f
    BY ONLY <2>3 DEF Deck
  <2>5. /\ Extends(T, U) /\ NewHaveParents(T, U) /\ Table(U)
        /\ \A e \in DOMAIN U \ DOMAIN T : ~U[e].filtered
    BY <1>4, GrownExtends DEF Grown
  <2>6. DOMAIN U \subseteq Nat
    BY <2>5 DEF Table
  <2>7. d \notin DOMAIN U
    BY <2>3, <2>6
  <2>8. Extends(U, W)
    BY <2>3 DEF Extends
  <2>9. m \in Seq(Comp) /\ Len(m) \in Nat
    BY <1>4, NameIs
  <2>10. HasParent(W, d)
    <3>1. ASSUME Len(m) > 1 PROVE get_deck_id(W, Front(m)) # {}
      <4>1. Len(m) - 1 \in 1..Len(m)
        BY <2>9, <3>1
      <4>2. get_deck_id(U, SubSeq(m, 1, Len(m) - 1)) # {}
        BY <1>4, <4>1 DEF Grown
      <4>3. Front(m) = SubSeq(m, 1, Len(m) - 1)
        BY <1>4, FrontIs
      <4>4. PICK p \in DOMAIN U : Fold(U[p].name) = Fold(Front(m))
        BY <4>2, <4>3 DEF get_deck_id
      <4>5. QED
        BY <2>3, <4>4 DEF get_deck_id
    <3>2. QED
      BY <2>4, <3>1 DEF HasParent
  <2>11. NewHaveParents(U, W)
    BY <2>3, <2>10 DEF NewHaveParents
  <2>12. Extends(T, W) /\ NewHaveParents(T, W)
    BY <2>5, <2>8, <2>11, ExtendsTransitive
  <2>13. d \in DOMAIN W \ DOMAIN T
    BY <2>3, <2>5, <2>7 DEF Extends
  <2>14. \A e \in DOMAIN W : e <= d
    BY <2>3, <2>6
  <2>15. \A e \in DOMAIN W \ DOMAIN T : e # d => ~W[e].filtered
    BY <2>3, <2>5
  <2>16. NewDeck(T, W, n, f, d)
    BY <1>4, <2>3, <2>4, <2>12, <2>13, <2>14, <2>15 DEF NewDeck
  <2>17. QED
    BY <2>1, <2>2, <2>16
<1>6. QED
  BY <1>3, <1>5 DEF NewDeck

\* The result of looking for a deck and adding it.
Got(T, r, n) ==
    /\ r.why \in {"", "filtered_parent"}
    /\ r.why = "" =>
         /\ Table(r.decks) /\ Extends(T, r.decks) /\ NewHaveParents(T, r.decks)
         /\ get_deck_id(r.decks, n) # {}
         /\ \A e \in DOMAIN r.decks \ DOMAIN T : ~r.decks[e].filtered
         /\ Whole(T) => Whole(r.decks)

LEMMA GetOrCreateIs ==
  ASSUME NEW T, Table(T), NEW n \in Name, nextId \in Nat \ {0}
  PROVE  Got(T, get_or_create_normal_deck(T, n), n)
<1>1. PICK r : r = get_or_create_normal_deck(T, n)
  OBVIOUS
<1>2. CASE get_deck_id(T, n) # {}
  <2>1. r = Ok(T)
    BY <1>1, <1>2 DEF get_or_create_normal_deck
  <2>2. r.why = "" /\ r.decks = T
    BY ONLY <2>1, OkIs
  <2>3. QED
    BY <1>1, <1>2, <2>2 DEF Got, Extends, NewHaveParents
<1>3. CASE get_deck_id(T, n) = {}
  <2>1. r = add_deck_inner(T, n, FALSE)
    BY <1>1, <1>3 DEF get_or_create_normal_deck
  <2>2. FALSE \in BOOLEAN
    OBVIOUS
  <2>3. /\ r.why \in {"", "filtered_parent"}
        /\ r.why = "" => \E d \in DOMAIN r.decks : NewDeck(T, r.decks, n, FALSE, d)
    BY <2>1, <2>2, AddAdds
  <2>4. r.why = "" => (Whole(T) => Whole(r.decks))
    BY <2>1, <2>2, AddKeepsWhole
  <2>5. Unique(T, 0, n) = n
    <3>1. get_deck_id(T, n) \subseteq {0} /\ IsFiniteSet(DOMAIN T)
      BY <1>3 DEF Table
    <3>2. QED
      BY <3>1, UniqueIs DEF Unique
  <2>6. ASSUME r.why = ""
        PROVE  /\ Table(r.decks) /\ Extends(T, r.decks) /\ NewHaveParents(T, r.decks)
               /\ get_deck_id(r.decks, n) # {}
               /\ \A e \in DOMAIN r.decks \ DOMAIN T : ~r.decks[e].filtered
    <3>1. PICK d \in DOMAIN r.decks : NewDeck(T, r.decks, n, FALSE, d)
      BY <2>3, <2>6
    <3>2. Fold(r.decks[d].name) = Fold(n)
      BY <2>5, <3>1 DEF NewDeck
    <3>3. QED
      BY <3>1, <3>2 DEF NewDeck, get_deck_id
  <2>7. QED
    BY <1>1, <2>3, <2>4, <2>6 DEF Got
<1>4. QED
  BY <1>2, <1>3

\* The decks that cards are in and that are not there.
Missing(T, C) == {C[c].did : c \in Cards} \ ({0} \cup DOMAIN T)

LEMMA RecoveredIs ==
  ASSUME NEW d \in Nat
  PROVE  Recovered(d) \in Name /\ Len(Recovered(d)) = 1 /\ Recovered(d)[1][1] = 100 + d
<1>1. <<100 + d, 0, FALSE>> \in Comp
  <2>1. PICK k \in Nat : k = 100 + d
    OBVIOUS
  <2>2. <<k, 0, FALSE>> \in Comp
    BY DEF Comp
  <2>3. QED
    BY <2>1, <2>2
<1>2. PICK c : c = <<100 + d, 0, FALSE>>
  OBVIOUS
<1>3. c[1] = 100 + d
  BY <1>2
<1>4. c \in Comp
  BY <1>1, <1>2
<1>5. PICK n : n = <<c>>
  OBVIOUS
<1>51. n \in Seq(Comp) /\ Len(n) = 1 /\ n[1] = c
  BY ONLY <1>4, <1>5
<1>6. n \in Seq(Comp) /\ Len(n) \in Nat /\ Len(n) >= 1
  BY <1>51
<1>7. n \in Name
  BY ONLY <1>6, NameIs
<1>8. Recovered(d) = n
  BY <1>2, <1>5 DEF Recovered
<1>9. QED
  BY <1>3, <1>51, <1>7, <1>8

\* The decks that are recovered.
LEMMA RecoverIs ==
  ASSUME NEW T, Table(T), NEW C, Missing(T, C) \subseteq Nat \ {0}, IsFiniteSet(Missing(T, C)),
         NEW U, U = recover_missing_decks(T, C)
  PROVE  /\ Table(U) /\ Extends(T, U) /\ NewHaveParents(T, U)
         /\ DOMAIN U = DOMAIN T \cup Missing(T, C)
         /\ Missing(T, C) = {} => U = T
<1> DEFINE name(d) == ensure_deck_name_unique(T, d, Recovered(d))
<1>1. PICK M : M = Missing(T, C)
  OBVIOUS
<1>2. U = [d \in DOMAIN T \cup M |-> IF d \in DOMAIN T THEN T[d] ELSE Deck(name(d), FALSE)]
  BY <1>1 DEF recover_missing_decks, Missing
<1>3. M \cap DOMAIN T = {} /\ M \subseteq Nat \ {0} /\ IsFiniteSet(M)
  BY <1>1 DEF Missing
<1>4. IsFiniteSet(DOMAIN T) /\ DOMAIN T \subseteq Nat \ {0} /\ T = [d \in DOMAIN T |-> T[d]]
  BY DEF Table
<1>5. ASSUME NEW d \in M
      PROVE  /\ name(d) \in Name /\ Len(name(d)) = 1 /\ name(d)[1][1] = 100 + d
             /\ get_deck_id(T, name(d)) = {}
  <2>1. d \in Nat /\ d \notin DOMAIN T
    BY <1>3
  <2>2. PICK n : n = Recovered(d)
    OBVIOUS
  <2>3. n \in Name /\ Len(n) = 1 /\ n[1][1] = 100 + d
    BY <2>1, <2>2, RecoveredIs
  <2>4. PICK m : m = ensure_deck_name_unique(T, d, n)
    OBVIOUS
  <2>5. m \in Name /\ Len(m) = Len(n) /\ m[Len(n)][1] = n[Len(n)][1] /\ get_deck_id(T, m) \subseteq {d}
    BY ONLY <1>4, <2>3, <2>4, UniqueName
  <2>6. d \notin get_deck_id(T, m)
    BY <2>1 DEF get_deck_id
  <2>7. get_deck_id(T, m) = {}
    BY <2>5, <2>6
  <2>8. m[1][1] = 100 + d
    BY <2>3, <2>5
  <2>9. QED
    BY <2>2, <2>3, <2>4, <2>5, <2>7, <2>8
<1> HIDE DEF name
<1>6. DOMAIN U = DOMAIN T \cup M /\ \A d \in DOMAIN T : U[d] = T[d]
  BY <1>2
<1>7. ASSUME NEW d \in M PROVE U[d].name = name(d) /\ U[d] = Deck(name(d), FALSE)
  <2>1. U[d] = Deck(name(d), FALSE)
    BY <1>2, <1>3
  <2>2. QED
    BY <2>1 DEF Deck
<1>8. U = [d \in DOMAIN U |-> U[d]]
  BY <1>2
<1>9. IsFiniteSet(DOMAIN U) /\ DOMAIN U \subseteq Nat \ {0}
  <2>1. IsFiniteSet(DOMAIN T \cup M)
    BY <1>3, <1>4, FS_Union
  <2>2. QED
    BY <1>3, <1>4, <1>6, <2>1
<1>10. \A d \in DOMAIN U : U[d] \in [name : Name, filtered : BOOLEAN]
  <2>1. \A d \in DOMAIN T : U[d] \in [name : Name, filtered : BOOLEAN]
    BY <1>6 DEF Table
  <2>2. \A d \in M : U[d] \in [name : Name, filtered : BOOLEAN]
    <3>1. ASSUME NEW d \in M PROVE U[d] \in [name : Name, filtered : BOOLEAN]
      <4>1. name(d) \in Name /\ U[d] = Deck(name(d), FALSE)
        BY <1>5, <1>7
      <4>2. PICK m \in Name : m = name(d)
        BY <4>1
      <4>3. Deck(m, FALSE) \in [name : Name, filtered : BOOLEAN]
        BY DEF Deck
      <4>4. QED
        BY <4>1, <4>2, <4>3
    <3>2. QED
      BY <3>1
  <2>3. QED
    BY <1>6, <2>1, <2>2
<1>11. ASSUME NEW d \in M, NEW e \in DOMAIN U, Fold(U[d].name) = Fold(U[e].name) PROVE d = e
  <2>1. CASE e \in DOMAIN T
    <3>1. e \in get_deck_id(T, name(d))
      BY <1>6, <1>7, <1>11, <2>1 DEF get_deck_id
    <3>2. QED
      BY <1>5, <3>1
  <2>2. CASE e \in M
    <3>1. PICK a : a = name(d)
      OBVIOUS
    <3>2. PICK b : b = name(e)
      OBVIOUS
    <3>3. a \in Name /\ Len(a) = 1 /\ a[1][1] = 100 + d /\ b \in Name /\ Len(b) = 1 /\ b[1][1] = 100 + e
      BY <1>5, <2>2, <3>1, <3>2
    <3>4. Fold(a) = Fold(b)
      BY <1>7, <1>11, <2>2, <3>1, <3>2
    <3>5. a \in Seq(Comp) /\ b \in Seq(Comp)
      BY <3>3, NameIs
    <3>6. Agree(a, b, 1)
      BY <3>3, <3>4, <3>5, FoldIs
    <3>7. Key(a[1]) = Key(b[1])
      BY <3>6 DEF Agree
    <3>8. a[1][1] = b[1][1]
      BY <3>7 DEF Key
    <3>9. QED
      BY <1>3, <2>2, <3>3, <3>8
  <2>3. QED
    BY <1>6, <2>1, <2>2
<1>12. \A d, e \in DOMAIN U : Fold(U[d].name) = Fold(U[e].name) => d = e
  <2>1. ASSUME NEW d \in DOMAIN U, NEW e \in DOMAIN U, Fold(U[d].name) = Fold(U[e].name) PROVE d = e
    <3>1. CASE d \in M
      BY <1>11, <2>1, <3>1
    <3>2. CASE e \in M
      <4>1. Fold(U[e].name) = Fold(U[d].name)
        BY <2>1
      <4>2. e = d
        BY <1>11, <3>2, <4>1
      <4>3. QED
        BY <4>2
    <3>3. CASE d \in DOMAIN T /\ e \in DOMAIN T
      BY <1>6, <2>1, <3>3 DEF Table
    <3>4. QED
      BY <1>6, <3>1, <3>2, <3>3
  <2>2. QED
    BY <2>1
<1>13. Table(U)
  BY <1>8, <1>9, <1>10, <1>12 DEF Table
<1>14. NewHaveParents(T, U)
  <2>1. ASSUME NEW e \in DOMAIN U \ DOMAIN T PROVE ~(Len(U[e].name) > 1)
    <3>1. Len(name(e)) = 1 /\ U[e].name = name(e)
      BY <1>5, <1>6, <1>7
    <3>2. QED
      BY <3>1
  <2>2. QED
    BY <2>1 DEF NewHaveParents, HasParent
<1>15. M = {} => U = T
  BY <1>2, <1>4
<1>16. QED
  BY <1>1, <1>6, <1>13, <1>14, <1>15 DEF Extends

\* After the parents of the first i decks of the list are looked at.
Adding(T, order, r, i) ==
    /\ r.why \in {"", "filtered_parent"}
    /\ r.why = "" =>
         /\ Table(r.decks) /\ Extends(T, r.decks) /\ NewHaveParents(T, r.decks)
         /\ \A j \in 1..i : HasParent(r.decks, order[j])
         /\ \A e \in DOMAIN r.decks \ DOMAIN T : ~r.decks[e].filtered
         /\ Whole(T) => Whole(r.decks)

LEMMA AddingStep ==
  ASSUME NEW T, Table(T), NEW order, NEW i \in Nat, NEW r, Adding(T, order, r, i),
         order[i + 1] \in DOMAIN T, nextId \in Nat \ {0}, \A j \in 1..i : order[j] \in DOMAIN T
  PROVE  Adding(T, order, add_missing_name(r, T[order[i + 1]].name), i + 1)
<1>1. PICK n : n = T[order[i + 1]].name
  OBVIOUS
<1>2. n \in Name
  BY <1>1 DEF Table
<1>3. 1..(i + 1) = (1..i) \cup {i + 1}
  OBVIOUS
<1>4. CASE r.why # ""
  BY <1>1, <1>4 DEF Adding, add_missing_name
<1>5. CASE r.why = "" /\ Len(n) = 1
  <2>1. add_missing_name(r, n) = r
    BY <1>5 DEF add_missing_name
  <2>2. r.decks[order[i + 1]].name = n
    BY <1>1, <1>5 DEF Adding, Extends
  <2>3. HasParent(r.decks, order[i + 1])
    <3>1. ~(Len(n) > 1)
      <4>1. Len(n) = 1
        BY <1>5
      <4>2. QED
        BY ONLY <4>1
    <3>2. QED
      BY <2>2, <3>1 DEF HasParent
  <2>4. QED
    BY <1>1, <1>3, <1>5, <2>1, <2>3 DEF Adding
<1>6. CASE r.why = "" /\ Len(n) # 1
  <2>1. PICK U : U = r.decks
    OBVIOUS
  <2>2. PICK q : q = get_or_create_normal_deck(U, Front(n))
    OBVIOUS
  <2>3. add_missing_name(r, n) = q
    BY <1>6, <2>1, <2>2 DEF add_missing_name
  <2>4. /\ Table(U) /\ Extends(T, U) /\ NewHaveParents(T, U)
        /\ \A j \in 1..i : HasParent(U, order[j])
        /\ \A e \in DOMAIN U \ DOMAIN T : ~U[e].filtered
        /\ Whole(T) => Whole(U)
    BY <1>6, <2>1 DEF Adding
  <2>5. Front(n) \in Name
    <3>1. n \in Seq(Comp) /\ Len(n) \in Nat /\ Len(n) >= 1
      BY <1>2, NameIs
    <3>2. Len(n) > 1
      <4>1. Len(n) # 1
        BY <1>6
      <4>2. \A k \in Nat : k >= 1 /\ k # 1 => k > 1
        OBVIOUS
      <4>3. QED
        BY <3>1, <4>1, <4>2
    <3>3. QED
      BY <1>2, <3>2, FrontIs
  <2>6. Got(U, q, Front(n))
    BY <2>2, <2>4, <2>5, GetOrCreateIs
  <2>7. ASSUME q.why = ""
        PROVE  /\ Table(q.decks) /\ Extends(T, q.decks) /\ NewHaveParents(T, q.decks)
               /\ \A j \in 1..(i + 1) : HasParent(q.decks, order[j])
               /\ \A e \in DOMAIN q.decks \ DOMAIN T : ~q.decks[e].filtered
               /\ Whole(T) => Whole(q.decks)
    <3>1. PICK V : V = q.decks
      OBVIOUS
    <3>2. /\ Table(V) /\ Extends(U, V) /\ NewHaveParents(U, V)
          /\ get_deck_id(V, Front(n)) # {}
          /\ \A e \in DOMAIN V \ DOMAIN U : ~V[e].filtered
          /\ Whole(U) => Whole(V)
      BY <2>6, <2>7, <3>1 DEF Got
    <3>3. Extends(T, V) /\ NewHaveParents(T, V)
      BY <2>4, <3>2, ExtendsTransitive
    <3>4. HasParent(V, order[i + 1])
      <4>1. V[order[i + 1]].name = n
        BY <1>1, <3>3 DEF Extends
      <4>2. QED
        BY <3>2, <4>1 DEF HasParent
    <3>5. ASSUME NEW j \in 1..i PROVE HasParent(V, order[j])
      <4>1. order[j] \in DOMAIN U /\ HasParent(U, order[j])
        BY <2>4 DEF Extends
      <4>2. QED
        BY <3>2, <4>1, ParentsStay
    <3>6. \A e \in DOMAIN V \ DOMAIN T : ~V[e].filtered
      BY <2>4, <3>2 DEF Extends
    <3>7. QED
      BY <1>3, <2>4, <3>1, <3>2, <3>3, <3>4, <3>5, <3>6
  <2>8. q.why \in {"", "filtered_parent"}
    BY <2>6 DEF Got
  <2>9. QED
    BY <1>1, <2>3, <2>7, <2>8 DEF Adding
<1>7. QED
  BY <1>4, <1>5, <1>6

\* Looking for the parents of every deck.
LEMMA AddMissingIs ==
  ASSUME NEW T, Table(T), nextId \in Nat \ {0}, NEW r, r = add_missing_deck_names(T)
  PROVE  /\ r.why \in {"", "filtered_parent"}
         /\ r.why = "" =>
              /\ Table(r.decks) /\ Extends(T, r.decks)
              /\ \A e \in DOMAIN r.decks : HasParent(r.decks, e)
              /\ \A e \in DOMAIN r.decks \ DOMAIN T : ~r.decks[e].filtered
              /\ Whole(T) => Whole(r.decks)
<1>1. PICK order : order = sorted(T, DOMAIN T)
  OBVIOUS
<1>2. order \in Seq(DOMAIN T) /\ \A e \in DOMAIN T : \E i \in 1..Len(order) : order[i] = e
  BY <1>1, SortedLists DEF Lists
<1> DEFINE g(i) == AddingNames(T, order)[i]
           S == {i \in Nat : i <= Len(order) => Adding(T, order, g(i), i)}
<1>3. Len(order) \in Nat /\ \A i \in 1..Len(order) : order[i] \in DOMAIN T
  BY <1>2, SeqFacts
<1>4. g(0) = Ok(T) /\ \A i \in 1..Len(order) : g(i) = add_missing_name(g(i - 1), T[order[i]].name)
  BY <1>3, AddingNamesDef
<1>5. 0 \in S
  <2>1. Ok(T).why = "" /\ Ok(T).decks = T
    BY OkIs
  <2>2. Adding(T, order, Ok(T), 0)
    <3>1. PICK q : q = Ok(T)
      OBVIOUS
    <3>2. q.why = "" /\ q.decks = T
      BY <2>1, <3>1
    <3>3. Extends(T, q.decks) /\ NewHaveParents(T, q.decks)
      BY <3>2 DEF Extends, NewHaveParents
    <3>4. \A j \in 1..0 : HasParent(q.decks, order[j])
      OBVIOUS
    <3>5. Adding(T, order, q, 0)
      BY <3>2, <3>3, <3>4 DEF Adding
    <3>6. QED
      BY <3>1, <3>5
  <2>3. QED
    BY <1>4, <2>2
<1>6. ASSUME NEW i \in Nat, i \in S PROVE i + 1 \in S
  <2>1. SUFFICES ASSUME i + 1 <= Len(order) PROVE Adding(T, order, g(i + 1), i + 1)
    OBVIOUS
  <2>2. Adding(T, order, g(i), i)
    BY <1>3, <1>6, <2>1
  <2>3. i + 1 \in 1..Len(order) /\ (i + 1) - 1 = i
    BY <1>3, <2>1
  <2>4. g(i + 1) = add_missing_name(g(i), T[order[i + 1]].name) /\ order[i + 1] \in DOMAIN T
    BY <1>3, <1>4, <2>3
  <2>5. \A j \in 1..i : order[j] \in DOMAIN T
    BY <1>3, <2>3
  <2> HIDE DEF g
  <2>6. Adding(T, order, add_missing_name(g(i), T[order[i + 1]].name), i + 1)
    BY <2>2, <2>4, <2>5, AddingStep
  <2>7. QED
    BY <2>4, <2>6
<1> HIDE DEF S
<1>7. \A i \in Nat : i \in S
  BY <1>5, <1>6, SetInduction
<1>8. Adding(T, order, g(Len(order)), Len(order))
  <2>1. Len(order) \in S
    BY <1>3, <1>7
  <2> HIDE DEF g
  <2>2. QED
    BY <1>3, <2>1 DEF S
<1>9. r = g(Len(order))
  BY <1>1, TheyRecur
<1> HIDE DEF g
<1>10. Adding(T, order, r, Len(order))
  BY <1>8, <1>9
<1>11. ASSUME r.why = "", NEW e \in DOMAIN r.decks PROVE HasParent(r.decks, e)
  <2>1. CASE e \in DOMAIN T
    <3>1. PICK i \in 1..Len(order) : order[i] = e
      BY <1>2, <2>1
    <3>2. QED
      BY <1>10, <1>11, <3>1 DEF Adding
  <2>2. CASE e \notin DOMAIN T
    BY <1>10, <1>11, <2>2 DEF Adding, NewHaveParents
  <2>3. QED
    BY <2>1, <2>2
<1>12. QED
  BY <1>10, <1>11 DEF Adding

\* The missing decks are as many as the cards name.
LEMMA MissingIs ==
  ASSUME NEW T, NEW C, NEW k \in Nat, C \in [Cards -> [did : 0..k, odid : 0..k]]
  PROVE  Missing(T, C) \subseteq Nat \ {0} /\ IsFiniteSet(Missing(T, C))
<1>1. \A c \in Cards : C[c].did \in 0..k
  OBVIOUS
<1>2. Missing(T, C) \subseteq 0..k /\ 0 \notin Missing(T, C)
  BY <1>1 DEF Missing
<1>3. 0..k \subseteq Nat /\ IsFiniteSet(0..k)
  BY FS_Interval
<1>4. QED
  BY <1>2, <1>3, FS_Subset

\* The cards of D that are gone are those of C.
SameCards(C, D) == \A c \in Cards : D[c] = NoCard <=> C[c] = NoCard

LEMMA AtHomeStays ==
  ASSUME NEW T, NEW U, SameKinds(T, U), NEW C, CardsAtHome(T, C)
  PROVE  CardsAtHome(U, C)
BY DEF CardsAtHome, SameKinds

LEMMA ExtendsSameKinds ==
  ASSUME NEW T, NEW U, Extends(T, U)
  PROVE  SameKinds(T, U)
BY DEF Extends, SameKinds

\* The cards after the check.
LEMMA CheckCardsIs ==
  ASSUME NEW T, NEW C, NEW S, 0 \in S, C \in [Cards -> [did : S, odid : S]]
  PROVE  /\ check_filtered_cards(T, C) \in [Cards -> [did : S, odid : S]]
         /\ \A c \in Cards : check_filtered_cards(T, C)[c].did = C[c].did
         /\ CardsAtHome(T, C) => check_filtered_cards(T, C) = C
<1>1. PICK D : D = check_filtered_cards(T, C)
  OBVIOUS
<1>2. D = [c \in Cards |-> IF C[c].odid # 0 /\ ~T[C[c].did].filtered
                           THEN [C[c] EXCEPT !.odid = 0] ELSE C[c]]
  BY <1>1 DEF check_filtered_cards
<1>3. \A c \in Cards : C[c] \in [did : S, odid : S]
  OBVIOUS
<1>4. \A c \in Cards : /\ [C[c] EXCEPT !.odid = 0] \in [did : S, odid : S]
                       /\ [C[c] EXCEPT !.odid = 0].did = C[c].did
  BY <1>3
<1>5. D \in [Cards -> [did : S, odid : S]] /\ \A c \in Cards : D[c].did = C[c].did
  BY <1>2, <1>3, <1>4
<1>6. ASSUME CardsAtHome(T, C) PROVE D = C
  <2>1. ASSUME NEW c \in Cards, C[c].odid # 0 PROVE T[C[c].did].filtered
    <3>1. C[c] # NoCard
      BY <2>1, NoCardIs
    <3>2. QED
      BY <1>6, <2>1, <3>1 DEF CardsAtHome
  <2>2. D = [c \in Cards |-> C[c]]
    BY <1>2, <2>1
  <2>3. QED
    BY <2>2
<1>7. QED
  BY <1>1, <1>5, <1>6

\* Cards taken from their filtered deck are at home.
LEMMA EmptyIs ==
  ASSUME NEW T, Table(T), NEW C, CardsAtHome(T, C), NEW d \in Nat \ {0},
         NEW D, D = ReturnHome(C, all_cards_in_single_deck(C, d))
  PROVE  /\ CardsAtHome(T, D) /\ SameCards(C, D)
         /\ \A c \in Cards : D[c].did # d \/ ~T[d].filtered
<1>1. PICK there : there = all_cards_in_single_deck(C, d)
  OBVIOUS
<1>2. C \in [Cards -> [did : Nat, odid : Nat]]
  BY DEF CardsAtHome
<1>3. /\ D \in [Cards -> [did : Nat, odid : Nat]]
      /\ \A c \in Cards : c \in there /\ C[c].odid # 0 => D[c].did = C[c].odid /\ D[c].odid = 0
      /\ \A c \in Cards : ~(c \in there /\ C[c].odid # 0) => D[c] = C[c]
  BY <1>1, <1>2, ReturnHomeIs
<1>4. ASSUME NEW c \in Cards
      PROVE  /\ D[c] # NoCard =>
                  /\ D[c].did \in DOMAIN T
                  /\ D[c].odid = 0 => ~T[D[c].did].filtered
                  /\ D[c].odid # 0 => /\ T[D[c].did].filtered
                                      /\ D[c].odid \in DOMAIN T /\ ~T[D[c].odid].filtered
             /\ D[c] = NoCard <=> C[c] = NoCard
             /\ D[c].did # d \/ ~T[d].filtered
  <2>1. /\ C[c].did \in Nat /\ C[c].odid \in Nat
        /\ C[c] = NoCard <=> C[c].did = 0
        /\ C[c] = NoCard => C[c].odid = 0
    BY CardIs
  <2>2. C[c] # NoCard =>
          /\ C[c].did \in DOMAIN T
          /\ C[c].odid = 0 => ~T[C[c].did].filtered
          /\ C[c].odid # 0 => /\ T[C[c].did].filtered
                              /\ C[c].odid \in DOMAIN T /\ ~T[C[c].odid].filtered
    BY DEF CardsAtHome
  <2>3. CASE c \in there /\ C[c].odid # 0
    <3>1. D[c].did = C[c].odid /\ D[c].odid = 0
      BY <1>3, <2>3
    <3>2. C[c] # NoCard
      BY <2>1, <2>3
    <3>3. D[c] # NoCard
      BY <2>3, <3>1, NoCardIs
    <3>4. D[c].did \in DOMAIN T /\ ~T[D[c].did].filtered
      BY <2>2, <2>3, <3>1, <3>2
    <3>5. QED
      BY <3>1, <3>2, <3>3, <3>4
  <2>4. CASE ~(c \in there /\ C[c].odid # 0)
    <3>1. D[c] = C[c]
      BY <1>3, <2>4
    <3>2. C[c].did # d \/ ~T[d].filtered
      <4>1. CASE c \in there
        <5>1. C[c].odid = 0
          BY <2>4, <4>1
        <5>2. QED
          BY <2>1, <2>2, <5>1
      <4>2. CASE c \notin there
        <5>1. C[c].did # d
          BY <1>1, <4>2 DEF all_cards_in_single_deck
        <5>2. QED
          BY <5>1
      <4>3. QED
        BY <4>1, <4>2
    <3>3. QED
      BY <2>2, <3>1, <3>2
  <2>5. QED
    BY <2>3, <2>4
<1>5. QED
  BY <1>3, <1>4 DEF CardsAtHome, SameCards

\* Cards lent to a filtered deck.
LEMMA MoveIntoIs ==
  ASSUME NEW T, Table(T), NEW C, CardsAtHome(T, C), NEW d \in DOMAIN T, T[d].filtered,
         NEW found, \A c \in Cards \cap found : C[c].did # 0 /\ C[c].odid = 0,
         NEW D, D = MoveInto(C, found, d)
  PROVE  CardsAtHome(T, D) /\ SameCards(C, D)
<1>1. D = [c \in Cards |-> IF c \in found THEN [did |-> d, odid |-> C[c].did] ELSE C[c]]
  BY DEF MoveInto
<1>2. C \in [Cards -> [did : Nat, odid : Nat]] /\ d \in Nat \ {0}
  BY DEF CardsAtHome, Table
<1>3. \A c \in Cards : C[c] \in [did : Nat, odid : Nat] /\ C[c].did \in Nat
  BY <1>2
<1>4. \A c \in Cards : [did |-> d, odid |-> C[c].did] \in [did : Nat, odid : Nat]
  BY <1>2, <1>3
<1>5. D \in [Cards -> [did : Nat, odid : Nat]]
  BY <1>1, <1>3, <1>4
<1>6. ASSUME NEW c \in Cards
      PROVE  /\ D[c] # NoCard =>
                  /\ D[c].did \in DOMAIN T
                  /\ D[c].odid = 0 => ~T[D[c].did].filtered
                  /\ D[c].odid # 0 => /\ T[D[c].did].filtered
                                      /\ D[c].odid \in DOMAIN T /\ ~T[D[c].odid].filtered
             /\ D[c] = NoCard <=> C[c] = NoCard
  <2>1. C[c] # NoCard =>
          /\ C[c].did \in DOMAIN T
          /\ C[c].odid = 0 => ~T[C[c].did].filtered
          /\ C[c].odid # 0 => /\ T[C[c].did].filtered
                              /\ C[c].odid \in DOMAIN T /\ ~T[C[c].odid].filtered
    BY DEF CardsAtHome
  <2>2. CASE c \in found
    <3>1. D[c].did = d /\ D[c].odid = C[c].did
      BY <1>1, <2>2
    <3>2. C[c].did # 0 /\ C[c].odid = 0
      BY <2>2
    <3>3. C[c] # NoCard
      BY <3>2, NoCardIs
    <3>4. D[c] # NoCard
      BY <3>1, <3>2, NoCardIs
    <3>5. QED
      BY <2>1, <3>1, <3>2, <3>3, <3>4
  <2>3. CASE c \notin found
    BY <1>1, <2>1, <2>3
  <2>4. QED
    BY <2>2, <2>3
<1>7. QED
  BY <1>5, <1>6 DEF CardsAtHome, SameCards

\* A filtered deck built anew.
LEMMA RebuildIs ==
  ASSUME NEW T, Table(T), NEW C, CardsAtHome(T, C), NEW d \in DOMAIN T, T[d].filtered,
         NEW found, found \subseteq Searchable(C, d)
  PROVE  /\ CardsAtHome(T, rebuild_filtered_deck_inner(C, d, found))
         /\ SameCards(C, rebuild_filtered_deck_inner(C, d, found))
<1>1. PICK H : H = ReturnHome(C, all_cards_in_single_deck(C, d))
  OBVIOUS
<1>2. d \in Nat \ {0}
  BY DEF Table
<1>3. CardsAtHome(T, H) /\ SameCards(C, H)
  BY <1>1, <1>2, EmptyIs
<1>4. \A c \in Cards \cap found : H[c].did # 0 /\ H[c].odid = 0
  BY <1>1 DEF Searchable
<1>5. PICK D : D = MoveInto(H, found, d)
  OBVIOUS
<1>6. CardsAtHome(T, D) /\ SameCards(H, D)
  BY <1>3, <1>4, <1>5, MoveIntoIs
<1>7. D = rebuild_filtered_deck_inner(C, d, found)
  BY <1>1, <1>5 DEF rebuild_filtered_deck_inner
<1>8. SameCards(C, D)
  BY <1>3, <1>6 DEF SameCards
<1>9. QED
  BY <1>6, <1>7, <1>8

LEMMA RebuildTypes ==
  ASSUME NEW C, NEW d, NEW found, NEW S, 0 \in S, d \in S, C \in [Cards -> [did : S, odid : S]]
  PROVE  rebuild_filtered_deck_inner(C, d, found) \in [Cards -> [did : S, odid : S]]
<1>1. PICK set : set = all_cards_in_single_deck(C, d)
  OBVIOUS
<1>2. PICK H : H = ReturnHome(C, set)
  OBVIOUS
<1>3. \A c \in Cards : C[c] \in [did : S, odid : S]
  OBVIOUS
<1>4. \A c \in Cards : [did |-> C[c].odid, odid |-> 0] \in [did : S, odid : S]
  BY <1>3
<1>5. H \in [Cards -> [did : S, odid : S]]
  BY <1>2, <1>3, <1>4 DEF ReturnHome
<1>6. \A c \in Cards : H[c] \in [did : S, odid : S]
  BY <1>5
<1>7. \A c \in Cards : [did |-> d, odid |-> H[c].did] \in [did : S, odid : S]
  BY <1>6
<1>8. MoveInto(H, found, d) \in [Cards -> [did : S, odid : S]]
  BY <1>6, <1>7 DEF MoveInto
<1>9. QED
  BY <1>1, <1>2, <1>8 DEF rebuild_filtered_deck_inner

\* What a search finds before there is a deck to put it in.
LEMMA SearchableBefore ==
  ASSUME NEW T, Table(T), NEW C, CardsAtHome(T, C), NEW d
  PROVE  Searchable(C, 0) \subseteq Searchable(C, d)
<1>1. ASSUME NEW c \in Searchable(C, 0) PROVE c \in Searchable(C, d)
  <2>1. PICK A : A = all_cards_in_single_deck(C, 0)
    OBVIOUS
  <2>2. PICK B : B = all_cards_in_single_deck(C, d)
    OBVIOUS
  <2>3. C \in [Cards -> [did : Nat, odid : Nat]]
    BY DEF CardsAtHome
  <2>4. c \in Cards /\ ReturnHome(C, A)[c].did # 0 /\ ReturnHome(C, A)[c].odid = 0
    BY <2>1 DEF Searchable
  <2>5. /\ C[c].did \in Nat /\ C[c].odid \in Nat
        /\ C[c] = NoCard <=> C[c].did = 0
        /\ C[c] = NoCard => C[c].odid = 0
    BY <2>4, CardIs
  <2>6. ~(c \in A /\ C[c].odid # 0)
    <3>1. SUFFICES ASSUME c \in A, C[c].odid # 0 PROVE FALSE
      OBVIOUS
    <3>2. C[c].did = 0
      BY <2>1, <3>1 DEF all_cards_in_single_deck
    <3>3. QED
      BY <2>5, <3>1, <3>2
  <2>7. ReturnHome(C, A)[c] = C[c]
    BY <2>3, <2>4, <2>6, ReturnHomeIs
  <2>8. C[c].did # 0 /\ C[c].odid = 0
    BY <2>4, <2>7
  <2>9. ReturnHome(C, B)[c] = C[c]
    BY <2>3, <2>4, <2>8, ReturnHomeIs
  <2>10. QED
    BY <2>2, <2>4, <2>8, <2>9 DEF Searchable
<1>2. QED
  BY <1>1

LEMMA UpdateKinds ==
  ASSUME NEW T, Table(T), NEW d \in DOMAIN T, NEW n \in Name, nextId \in Nat \ {0},
         NEW r, r = update_deck_inner(T, d, n)
  PROVE  /\ r.why \in {"", "filtered_parent", "name_clash"}
         /\ r.why = "" => SameKinds(T, r.decks)
<1>1. PICK U : U = WithParents(T, d, n)
  OBVIOUS
<1>2. PICK m : m = Spelled(T, d, n)
  OBVIOUS
<1>3. Updates(T, d, n, U, m, r)
  BY <1>1, <1>2, UpdateIs
<1>4. m \in Name /\ Grown(T, U, m)
  BY <1>1, <1>2, PartsAre
<1>5. Table(U) /\ d \in DOMAIN U /\ Extends(T, U)
  BY <1>4, GrownExtends DEF Grown
<1>6. ASSUME r.why = "" PROVE SameKinds(T, r.decks)
  <2>1. CASE Unique(T, d, n) = T[d].name
    <3>1. r = Ok(T)
      BY <1>3, <2>1 DEF Updates
    <3>2. r.decks = T
      BY ONLY <3>1, OkIs
    <3>3. QED
      BY <3>2 DEF SameKinds
  <2>2. CASE Unique(T, d, n) # T[d].name
    <3>1. PICK V : V = Moved(U, d, m)
      OBVIOUS
    <3>2. r.decks = create_missing_parents(V, m) /\ Table(V)
      BY <1>3, <1>6, <2>2, <3>1 DEF Updates
    <3>3. SameKinds(U, V)
      BY <1>4, <1>5, <3>1, MovedKinds
    <3>4. Grown(V, r.decks, m)
      BY <1>4, <3>2, MissingParentsGrow
    <3>5. Extends(V, r.decks)
      BY <1>4, <3>4, GrownExtends
    <3>6. QED
      BY <1>5, <3>3, <3>5 DEF SameKinds, Extends
  <2>3. QED
    BY <2>1, <2>2
<1>7. r.why \in {"", "filtered_parent", "name_clash"}
  BY <1>3 DEF Updates
<1>8. QED
  BY <1>6, <1>7

(***************************************************************************)
(* The inductive invariant                                                 *)
(***************************************************************************)

\* The decks are a table, and no id is given out twice.
DecksOK ==
    /\ Table(decks)
    /\ nextId \in Nat \ {0}
    /\ \A d \in DOMAIN decks : d < nextId
    /\ cards \in [Cards -> [did : 0..nextId, odid : 0..nextId]]
    /\ failed \in {"", "filtered", "filtered_parent", "name_clash"}

HistoryOK ==
    /\ last \in {"", "move", "remove", "check", "merge", "other"} \X SUBSET (1..nextId)
    /\ merged \in BOOLEAN /\ ops \in 0..MaxOps /\ merges \in 0..MaxMerges

\* Until a sync brings in decks the tree is whole, every card has its deck and
\* no name has clashed.
TreeOK ==
    ~merged => Whole(decks) /\ CardsAtHome(decks, cards) /\ failed # "name_clash"

Inv == DecksOK /\ HistoryOK /\ TreeOK

\* The result r of an operation, with the cards C, is one the invariant allows.
Results(r, C) ==
    /\ r.why \in {"", "filtered", "filtered_parent", "name_clash"}
    /\ r.why = "" =>
         /\ Table(r.decks)
         /\ C \in [Cards -> [did : (0..nextId) \cup DOMAIN r.decks,
                             odid : (0..nextId) \cup DOMAIN r.decks]]
Keeps(r, C) ==
    ~merged => /\ r.why # "name_clash"
               /\ r.why = "" => Whole(r.decks) /\ CardsAtHome(r.decks, C)

LEMMA CommitKeeps ==
  ASSUME Inv, NEW r, NEW C, Commit(r, C), Results(r, C), merged' \/ (merged' = merged /\ Keeps(r, C))
  PROVE  /\ DecksOK' /\ TreeOK' /\ nextId <= nextId'
<1>1. /\ failed' = r.why
      /\ decks' = IF r.why = "" THEN r.decks ELSE decks
      /\ cards' = IF r.why = "" THEN C ELSE cards
      /\ nextId' = Fresh(decks')
  BY DEF Commit
<1>2. PICK W : W = decks'
  OBVIOUS
<1>3. PICK k : k = nextId'
  OBVIOUS
<1>4. Table(decks) /\ nextId \in Nat \ {0} /\ \A d \in DOMAIN decks : d < nextId
  BY DEF Inv, DecksOK
<1>5. Table(W)
  BY <1>1, <1>2, <1>4 DEF Results
<1>6. IsFiniteSet(DOMAIN W) /\ DOMAIN W \subseteq Nat
  BY <1>5 DEF Table
<1>7. k = Fresh(W)
  BY <1>1, <1>2, <1>3
<1>8. k \in Nat /\ nextId <= k /\ \A d \in DOMAIN W : d < k
  BY <1>4, <1>6, <1>7, FreshIs
<1>9. k \in Nat \ {0}
  BY <1>4, <1>8
<1>10. cards' \in [Cards -> [did : 0..k, odid : 0..k]]
  <2>1. 0..nextId \subseteq 0..k
    BY <1>4, <1>8
  <2>2. CASE r.why = ""
    <3>1. C \in [Cards -> [did : (0..nextId) \cup DOMAIN W, odid : (0..nextId) \cup DOMAIN W]]
      BY <1>1, <1>2, <2>2 DEF Results
    <3>2. (0..nextId) \cup DOMAIN W \subseteq 0..k
      BY <1>6, <1>8, <2>1
    <3>3. \A c \in Cards : C[c] \in [did : 0..k, odid : 0..k]
      BY <3>1, <3>2
    <3>4. C \in [Cards -> [did : 0..k, odid : 0..k]]
      BY <3>1, <3>3
    <3>5. QED
      BY <1>1, <2>2, <3>4
  <2>3. CASE r.why # ""
    <3>1. cards \in [Cards -> [did : 0..nextId, odid : 0..nextId]]
      BY DEF Inv, DecksOK
    <3>2. \A c \in Cards : cards[c] \in [did : 0..k, odid : 0..k]
      BY <2>1, <3>1
    <3>3. cards \in [Cards -> [did : 0..k, odid : 0..k]]
      BY <3>1, <3>2
    <3>4. QED
      BY <1>1, <2>3, <3>3
  <2>4. QED
    BY <2>2, <2>3
<1>11. failed' \in {"", "filtered", "filtered_parent", "name_clash"}
  BY <1>1 DEF Results
<1>12. DecksOK'
  BY <1>2, <1>3, <1>5, <1>8, <1>9, <1>10, <1>11 DEF DecksOK
<1>13. TreeOK'
  <2>1. SUFFICES ASSUME ~merged'
                 PROVE  Whole(decks)' /\ CardsAtHome(decks, cards)' /\ failed' # "name_clash"
    BY DEF TreeOK
  <2>2. ~merged /\ Keeps(r, C)
    BY <2>1
  <2>3. CASE r.why = ""
    <3>1. Whole(r.decks) /\ CardsAtHome(r.decks, C)
      BY <2>2, <2>3 DEF Keeps
    <3>2. decks' = r.decks /\ cards' = C /\ failed' # "name_clash"
      BY <1>1, <2>3
    <3>3. QED
      BY <3>1, <3>2
  <2>4. CASE r.why # ""
    <3>1. Whole(decks) /\ CardsAtHome(decks, cards)
      BY <2>2 DEF Inv, TreeOK
    <3>2. decks' = decks /\ cards' = cards /\ failed' # "name_clash"
      BY <1>1, <2>2, <2>4 DEF Keeps
    <3>3. QED
      BY <3>1, <3>2
  <2>5. QED
    BY <2>3, <2>4
<1>14. QED
  BY <1>3, <1>8, <1>12, <1>13

\* An operation of this device.
LEMMA LocalKeeps ==
  ASSUME Inv, NEW op \in {"move", "remove", "check", "other"}, NEW dids \in SUBSET DOMAIN decks,
         Local(op, dids), NEW r, NEW C, Commit(r, C), Results(r, C), Keeps(r, C)
  PROVE  Inv'
<1>1. merged' = merged /\ merges' = merges /\ last' = <<op, dids>> /\ ops' = ops + 1 /\ ops < MaxOps
  BY DEF Local
<1>2. DecksOK' /\ TreeOK' /\ nextId <= nextId'
  BY <1>1, CommitKeeps
<1>3. dids \subseteq 1..nextId'
  <2>1. DOMAIN decks \subseteq Nat \ {0} /\ nextId \in Nat /\ \A d \in DOMAIN decks : d < nextId
    BY DEF Inv, DecksOK, Table
  <2>2. nextId' \in Nat
    BY <1>2 DEF DecksOK
  <2>3. QED
    BY <1>2, <2>1, <2>2
<1>4. ops' \in 0..MaxOps
  <2>1. ops \in 0..MaxOps /\ MaxOps \in Nat
    BY DeckTreeAssumption DEF Inv, HistoryOK
  <2>2. QED
    BY <1>1, <2>1
<1>5. HistoryOK'
  BY <1>1, <1>3, <1>4 DEF Inv, HistoryOK
<1>6. QED
  BY <1>2, <1>5 DEF Inv

\* A change a sync brings.
LEMMA MergeKeeps ==
  ASSUME Inv, Merging, NEW r, NEW C, Commit(r, C), Results(r, C)
  PROVE  Inv'
<1>1. /\ merged' = TRUE /\ last' = <<"merge", {}>>
      /\ ops' = ops + 1 /\ ops < MaxOps /\ merges' = merges + 1 /\ merges < MaxMerges
  BY DEF Merging
<1>2. DecksOK' /\ TreeOK' /\ nextId <= nextId'
  BY <1>1, CommitKeeps
<1>3. ops' \in 0..MaxOps /\ merges' \in 0..MaxMerges
  <2>1. ops \in 0..MaxOps /\ MaxOps \in Nat /\ merges \in 0..MaxMerges /\ MaxMerges \in Nat
    BY DeckTreeAssumption DEF Inv, HistoryOK
  <2>2. QED
    BY <1>1, <2>1
<1>4. HistoryOK'
  BY <1>1, <1>3 DEF HistoryOK
<1>5. QED
  BY <1>2, <1>4 DEF Inv

\* What the decks and the cards are before an operation.
LEMMA BeforeIt ==
  ASSUME Inv
  PROVE  /\ Table(decks) /\ nextId \in Nat \ {0}
         /\ cards \in [Cards -> [did : 0..nextId, odid : 0..nextId]]
         /\ ~merged => Whole(decks) /\ CardsAtHome(decks, cards)
         /\ DOMAIN decks \subseteq 0..nextId
<1>1. Table(decks) /\ nextId \in Nat \ {0} /\ \A d \in DOMAIN decks : d < nextId
  BY DEF Inv, DecksOK
<1>2. DOMAIN decks \subseteq 0..nextId
  BY <1>1 DEF Table
<1>3. QED
  BY <1>1, <1>2 DEF Inv, DecksOK, TreeOK

\* The cards keep their types as the table grows.
LEMMA CardsStayTyped ==
  ASSUME Inv, NEW S, 0..nextId \subseteq S
  PROVE  cards \in [Cards -> [did : S, odid : S]]
<1>1. cards \in [Cards -> [did : 0..nextId, odid : 0..nextId]]
  BY BeforeIt
<1>2. \A c \in Cards : cards[c] \in [did : S, odid : S]
  BY <1>1
<1>3. QED
  BY <1>1, <1>2

(***************************************************************************)
(* The operations                                                          *)
(***************************************************************************)

LEMMA GetOrCreateKeeps ==
  ASSUME Inv, NEW n \in InputNames, get_or_create(n)
  PROVE  Inv'
<1>1. n \in Name
  BY DeckTreeAssumption
<1>2. PICK r : r = get_or_create_normal_deck(decks, n)
  OBVIOUS
<1>3. Local("other", {}) /\ Commit(r, cards)
  BY <1>2 DEF get_or_create
<1>4. Got(decks, r, n)
  BY <1>1, <1>2, BeforeIt, GetOrCreateIs
<1>5. Results(r, cards)
  BY <1>4, CardsStayTyped DEF Results, Got
<1>6. Keeps(r, cards)
  <2>1. SUFFICES ASSUME ~merged
                 PROVE  r.why # "name_clash" /\ (r.why = "" => Whole(r.decks) /\ CardsAtHome(r.decks, cards))
    BY DEF Keeps
  <2>2. Whole(decks) /\ CardsAtHome(decks, cards)
    BY <2>1, BeforeIt
  <2>3. r.why = "" => Whole(r.decks) /\ Extends(decks, r.decks)
    BY <1>4, <2>2 DEF Got
  <2>4. r.why = "" => CardsAtHome(r.decks, cards)
    BY <2>2, <2>3, ExtendsSameKinds, AtHomeStays
  <2>5. QED
    BY <1>4, <2>3, <2>4 DEF Got
<1>7. QED
  BY <1>3, <1>5, <1>6, LocalKeeps

\* A rename, of the decks alone or with the cards of a filtered deck.
LEMMA RenameResults ==
  ASSUME Inv, NEW d \in DOMAIN decks, NEW n \in Name, NEW r, r = update_deck_inner(decks, d, n)
  PROVE  /\ r.why \in {"", "filtered_parent", "name_clash"}
         /\ r.why = "" => Table(r.decks) /\ SameKinds(decks, r.decks)
         /\ ~merged => r.why # "name_clash" /\ (r.why = "" => Whole(r.decks))
<1>1. r.why \in {"", "filtered_parent", "name_clash"} /\ (r.why = "" => SameKinds(decks, r.decks))
  BY BeforeIt, UpdateKinds
<1>2. r.why = "" => Table(r.decks) /\ (Whole(decks) => Whole(r.decks))
  BY BeforeIt, UpdateKeeps
<1>3. Whole(decks) => r.why # "name_clash"
  BY BeforeIt, UpdatePasses
<1>4. QED
  BY <1>1, <1>2, <1>3, BeforeIt

LEMMA RenameKeeps ==
  ASSUME Inv, NEW d \in DOMAIN decks, NEW n \in InputNames, rename_deck(d, n)
  PROVE  Inv'
<1>1. n \in Name
  BY DeckTreeAssumption
<1>2. PICK r : r = update_deck_inner(decks, d, n)
  OBVIOUS
<1>3. Local("move", {d}) /\ Commit(r, cards)
  BY <1>2 DEF rename_deck
<1>4. /\ r.why \in {"", "filtered_parent", "name_clash"}
      /\ r.why = "" => Table(r.decks) /\ SameKinds(decks, r.decks)
      /\ ~merged => r.why # "name_clash" /\ (r.why = "" => Whole(r.decks))
  BY <1>1, <1>2, RenameResults
<1>5. Results(r, cards)
  BY <1>4, CardsStayTyped DEF Results
<1>6. Keeps(r, cards)
  BY <1>4, BeforeIt, AtHomeStays DEF Keeps
<1>7. {d} \in SUBSET DOMAIN decks
  OBVIOUS
<1>8. QED
  BY <1>3, <1>5, <1>6, <1>7, LocalKeeps

\* The decks picked in the list.
LEMMA SelectionIs ==
  ASSUME NEW dids \in Selections
  PROVE  /\ dids \in Seq(DOMAIN decks) /\ Len(dids) \in Nat
         /\ ToSet(dids) = {dids[i] : i \in 1..Len(dids)}
         /\ ToSet(dids) \in SUBSET DOMAIN decks
<1>1. dids \in Seq(DOMAIN decks)
  <2>1. CASE dids \in {<<d>> : d \in DOMAIN decks}
    <3>1. PICK d \in DOMAIN decks : dids = <<d>>
      BY <2>1
    <3>2. QED
      BY <3>1
  <2>2. CASE dids \in (DOMAIN decks) \X (DOMAIN decks)
    <3>1. PICK d \in DOMAIN decks, e \in DOMAIN decks : dids = <<d, e>>
      BY <2>2
    <3>2. QED
      BY <3>1
  <2>3. QED
    BY <2>1, <2>2 DEF Selections
<1>2. Len(dids) \in Nat /\ DOMAIN dids = 1..Len(dids) /\ \A i \in 1..Len(dids) : dids[i] \in DOMAIN decks
  BY <1>1, SeqFacts
<1>3. ToSet(dids) = {dids[i] : i \in 1..Len(dids)}
  BY <1>2 DEF ToSet
<1>4. QED
  BY <1>1, <1>2, <1>3

LEMMA ErrorIs ==
  ASSUME NEW why
  PROVE  Error(why).why = why
BY DEF Error

LEMMA ReparentKeeps ==
  ASSUME Inv, NEW dids \in Selections, NEW target, reparent_decks(dids, target)
  PROVE  Inv'
<1> DEFINE top == target \notin DOMAIN decks
           name == IF top THEN <<>> ELSE decks[target].name
           r == IF ~top /\ decks[target].filtered THEN Error("filtered_parent")
                ELSE reparent_decks_inner(decks, dids, name)
<1>1. Local("move", ToSet(dids)) /\ Commit(r, cards)
  BY DEF reparent_decks
<1>2. name \in Seq(Comp)
  <2>1. <<>> \in Seq(Comp)
    OBVIOUS
  <2>2. ~top => decks[target].name \in Seq(Comp)
    BY BeforeIt, NameIs DEF Table
  <2>3. QED
    BY <2>1, <2>2
<1>3. ~(~top /\ decks[target].filtered) => Target(decks, name)
  BY DEF Target
<1> HIDE DEF name
<1>4. DragKeeps(decks, name, reparent_decks_inner(decks, dids, name))
  BY <1>2, SelectionIs, BeforeIt, DragsKeep
<1>5. Results(r, cards) /\ Keeps(r, cards)
  <2>1. CASE ~top /\ decks[target].filtered
    <3>1. r = Error("filtered_parent")
      BY <2>1
    <3>2. r.why = "filtered_parent"
      BY ONLY <3>1, ErrorIs
    <3>3. QED
      BY <3>2 DEF Results, Keeps
  <2>2. CASE ~(~top /\ decks[target].filtered)
    <3>1. r = reparent_decks_inner(decks, dids, name)
      BY <2>2
    <3> HIDE DEF r
    <3>2. DragKeeps(decks, name, r) /\ Target(decks, name)
      BY <1>3, <1>4, <2>2, <3>1
    <3>3. Results(r, cards)
      BY <3>2, CardsStayTyped DEF Results, DragKeeps
    <3>4. Keeps(r, cards)
      <4>1. ASSUME ~merged
            PROVE  r.why = "" /\ Whole(r.decks) /\ CardsAtHome(r.decks, cards)
        <5>1. Whole(decks) /\ CardsAtHome(decks, cards)
          BY <4>1, BeforeIt
        <5>2. r.why = "" /\ Whole(r.decks) /\ SameKinds(decks, r.decks)
          BY <3>2, <5>1 DEF DragKeeps
        <5>3. QED
          BY <5>1, <5>2, AtHomeStays
      <4>2. QED
        BY <4>1 DEF Keeps
    <3>5. QED
      BY <3>3, <3>4 DEF r
  <2>3. QED
    BY <2>1, <2>2
<1> HIDE DEF r
<1>6. QED
  BY <1>1, <1>5, SelectionIs, LocalKeeps

LEMMA RemoveKeeps ==
  ASSUME Inv, NEW dids \in Selections, remove_decks(dids)
  PROVE  Inv'
<1>1. PICK s : s = remove_decks_and_child_decks(dids)
  OBVIOUS
<1>2. PICK r : r = Ok(s.decks)
  OBVIOUS
<1>3. Local("remove", ToSet(dids)) /\ Commit(r, s.cards)
  BY <1>1, <1>2 DEF remove_decks
<1>4. r.why = "" /\ r.decks = s.decks
  BY ONLY <1>2, OkIs
<1>5. PICK R \in SUBSET DOMAIN decks : Removal(decks, cards, s, R)
  BY <1>1, SelectionIs, BeforeIt, RemoveDecksTypes DEF SomeRemoval
<1>6. Table(s.decks) /\ KeepsTypes(cards, s.cards)
  BY <1>5 DEF Removal, RemovedFrom
<1>7. Results(r, s.cards)
  <2>1. PICK S : S = (0..nextId) \cup DOMAIN s.decks
    OBVIOUS
  <2>2. 0 \in S /\ cards \in [Cards -> [did : S, odid : S]]
    BY <2>1, BeforeIt, CardsStayTyped
  <2>3. s.cards \in [Cards -> [did : S, odid : S]]
    BY <1>6, <2>2 DEF KeepsTypes
  <2>4. QED
    BY <1>4, <1>6, <2>1, <2>3 DEF Results
<1>8. Keeps(r, s.cards)
  <2>1. ASSUME ~merged PROVE Whole(s.decks) /\ CardsAtHome(s.decks, s.cards)
    <3>1. Whole(decks) /\ CardsAtHome(decks, cards) /\ Table(decks)
      BY <2>1, BeforeIt
    <3>2. PICK M \in SUBSET DOMAIN decks : M = {dids[i] : i \in 1..Len(dids)}
      BY SelectionIs
    <3>3. Removal(decks, cards, s, Gone(decks, M))
      BY <1>1, <3>1, <3>2, SelectionIs, RemoveDecksIs
    <3>4. QED
      BY <3>1, <3>3, LeftIsWhole DEF Removal
  <2>2. QED
    BY <1>4, <2>1 DEF Keeps
<1>9. QED
  BY <1>3, <1>7, <1>8, SelectionIs, LocalKeeps

LEMMA SetDeckKeeps ==
  ASSUME Inv, NEW c \in Cards, NEW d \in DOMAIN decks, set_deck(c, d)
  PROVE  Inv'
<1> DEFINE k == [did |-> d, odid |-> 0]
           r == IF decks[d].filtered THEN Error("filtered") ELSE Ok(decks)
<1>1. PICK C : C = [cards EXCEPT ![c] = k]
  OBVIOUS
<1>2. Local("other", {}) /\ Commit(r, C)
  BY <1>1 DEF set_deck
<1>3. /\ r.why = IF decks[d].filtered THEN "filtered" ELSE ""
      /\ r.why = "" => r.decks = decks
  <2>1. CASE decks[d].filtered
    <3>1. r = Error("filtered")
      BY <2>1
    <3>2. r.why = "filtered"
      BY ONLY <3>1, ErrorIs
    <3>3. QED
      BY <2>1, <3>2
  <2>2. CASE ~decks[d].filtered
    <3>1. r = Ok(decks)
      BY <2>2
    <3>2. r.why = "" /\ r.decks = decks
      BY ONLY <3>1, OkIs
    <3>3. QED
      BY <2>2, <3>2
  <2>3. QED
    BY <2>1, <2>2
<1> HIDE DEF r
<1>4. Results(r, C)
  <2>1. PICK S : S = (0..nextId) \cup DOMAIN decks
    OBVIOUS
  <2>2. 0 \in S /\ d \in S /\ cards \in [Cards -> [did : S, odid : S]]
    BY <2>1, BeforeIt, CardsStayTyped
  <2>3. k \in [did : S, odid : S]
    BY <2>2
  <2> HIDE DEF k
  <2>4. C \in [Cards -> [did : S, odid : S]]
    BY <1>1, <2>2, <2>3
  <2>5. QED
    BY <1>3, <2>1, <2>4, BeforeIt DEF Results
<1>5. Keeps(r, C)
  <2>1. SUFFICES ASSUME ~merged, ~decks[d].filtered PROVE Whole(decks) /\ CardsAtHome(decks, C)
    BY <1>3 DEF Keeps
  <2>2. Whole(decks) /\ CardsAtHome(decks, cards)
    BY <2>1, BeforeIt
  <2>3. d \in Nat
    BY BeforeIt DEF Table
  <2>4. k \in [did : Nat, odid : Nat] /\ k.did = d /\ k.odid = 0
    BY <2>3
  <2> HIDE DEF k
  <2>5. cards \in [Cards -> [did : Nat, odid : Nat]]
    BY <2>2 DEF CardsAtHome
  <2>6. C \in [Cards -> [did : Nat, odid : Nat]]
    BY <1>1, <2>4, <2>5
  <2>7. C[c] = k /\ \A b \in Cards : b # c => C[b] = cards[b]
    BY <1>1, <2>5
  <2>8. ASSUME NEW b \in Cards, C[b] # NoCard
        PROVE  /\ C[b].did \in DOMAIN decks
               /\ C[b].odid = 0 => ~decks[C[b].did].filtered
               /\ C[b].odid # 0 => /\ decks[C[b].did].filtered
                                   /\ C[b].odid \in DOMAIN decks /\ ~decks[C[b].odid].filtered
    <3>1. CASE b = c
      BY <2>1, <2>4, <2>7, <3>1
    <3>2. CASE b # c
      BY <2>2, <2>7, <2>8, <3>2 DEF CardsAtHome
    <3>3. QED
      BY <3>1, <3>2
  <2>9. QED
    BY <2>2, <2>6, <2>8 DEF CardsAtHome
<1>6. QED
  BY <1>2, <1>4, <1>5, LocalKeeps

\* The greatest of the ids.
LEMMA MaxOf ==
  ASSUME NEW S \in SUBSET Nat, NEW d \in S, \A e \in S : e <= d
  PROVE  Max(S) = d
<1>1. Max(S) \in S /\ \A e \in S : e <= Max(S)
  BY MaxIs
<1>2. PICK m : m = Max(S)
  OBVIOUS
<1>3. m \in Nat /\ d \in Nat /\ m <= d /\ d <= m
  BY <1>1, <1>2
<1>4. m = d
  BY <1>3
<1>5. QED
  BY <1>2, <1>4

LEMMA AddFilteredKeeps ==
  ASSUME Inv, NEW n \in InputNames, NEW found \in SUBSET Cards, add_filtered_deck(n, found)
  PROVE  Inv'
<1>1. n \in Name /\ TRUE \in BOOLEAN
  BY DeckTreeAssumption
<1>2. PICK r : r = add_deck_inner(decks, n, TRUE)
  OBVIOUS
<1>3. PICK C : C = rebuild_filtered_deck_inner(cards, Max(DOMAIN r.decks), found)
  OBVIOUS
<1>4. Local("other", {}) /\ Commit(r, C) /\ found \subseteq Searchable(cards, 0)
  BY <1>2, <1>3 DEF add_filtered_deck
<1>5. /\ r.why \in {"", "filtered_parent"}
      /\ r.why = "" => \E d \in DOMAIN r.decks : NewDeck(decks, r.decks, n, TRUE, d)
  BY <1>1, <1>2, BeforeIt, AddAdds
<1>6. ASSUME r.why = ""
      PROVE  \E d \in DOMAIN r.decks : /\ NewDeck(decks, r.decks, n, TRUE, d)
                                       /\ C = rebuild_filtered_deck_inner(cards, d, found)
  <2>1. PICK d \in DOMAIN r.decks : NewDeck(decks, r.decks, n, TRUE, d)
    BY <1>5, <1>6
  <2>2. DOMAIN r.decks \subseteq Nat /\ \A e \in DOMAIN r.decks : e <= d
    BY <2>1 DEF NewDeck, Table
  <2>3. PICK W : W = DOMAIN r.decks
    OBVIOUS
  <2>4. Max(W) = d
    BY <2>2, <2>3, MaxOf
  <2>5. QED
    BY <1>3, <2>1, <2>3, <2>4
<1>7. Results(r, C)
  <2>1. ASSUME r.why = ""
        PROVE  /\ Table(r.decks)
               /\ C \in [Cards -> [did : (0..nextId) \cup DOMAIN r.decks,
                                   odid : (0..nextId) \cup DOMAIN r.decks]]
    <3>1. PICK d \in DOMAIN r.decks : /\ NewDeck(decks, r.decks, n, TRUE, d)
                                      /\ C = rebuild_filtered_deck_inner(cards, d, found)
      BY <1>6, <2>1
    <3>2. PICK S : S = (0..nextId) \cup DOMAIN r.decks
      OBVIOUS
    <3>3. 0 \in S /\ d \in S /\ cards \in [Cards -> [did : S, odid : S]]
      BY <3>2, BeforeIt, CardsStayTyped
    <3>4. C \in [Cards -> [did : S, odid : S]]
      BY <3>1, <3>3, RebuildTypes
    <3>5. QED
      BY <3>1, <3>2, <3>4 DEF NewDeck
  <2>2. QED
    BY <1>5, <2>1 DEF Results
<1>8. Keeps(r, C)
  <2>1. ASSUME ~merged, r.why = "" PROVE Whole(r.decks) /\ CardsAtHome(r.decks, C)
    <3>1. Whole(decks) /\ CardsAtHome(decks, cards) /\ Table(decks)
      BY <2>1, BeforeIt
    <3>2. Whole(r.decks)
      BY <1>1, <1>2, <2>1, <3>1, BeforeIt, AddKeepsWhole
    <3>3. PICK d \in DOMAIN r.decks : /\ NewDeck(decks, r.decks, n, TRUE, d)
                                      /\ C = rebuild_filtered_deck_inner(cards, d, found)
      BY <1>6, <2>1
    <3>4. Table(r.decks) /\ Extends(decks, r.decks) /\ r.decks[d].filtered
      BY <3>3 DEF NewDeck
    <3>5. CardsAtHome(r.decks, cards)
      BY <3>1, <3>4, ExtendsSameKinds, AtHomeStays
    <3>6. found \subseteq Searchable(cards, d)
      BY <1>4, <3>1, SearchableBefore
    <3>7. CardsAtHome(r.decks, C)
      BY <3>3, <3>4, <3>5, <3>6, RebuildIs
    <3>8. QED
      BY <3>2, <3>7
  <2>2. QED
    BY <1>5, <2>1 DEF Keeps
<1>9. QED
  BY <1>4, <1>7, <1>8, LocalKeeps

LEMMA UpdateFilteredKeeps ==
  ASSUME Inv, NEW d \in DOMAIN decks, NEW n \in InputNames, NEW found \in SUBSET Cards,
         update_filtered_deck(d, n, found)
  PROVE  Inv'
<1>1. n \in Name
  BY DeckTreeAssumption
<1>2. PICK r : r = update_deck_inner(decks, d, n)
  OBVIOUS
<1>3. PICK C : C = rebuild_filtered_deck_inner(cards, d, found)
  OBVIOUS
<1>4. Local("move", {d}) /\ Commit(r, C) /\ decks[d].filtered /\ found \subseteq Searchable(cards, d)
  BY <1>2, <1>3 DEF update_filtered_deck
<1>5. /\ r.why \in {"", "filtered_parent", "name_clash"}
      /\ r.why = "" => Table(r.decks) /\ SameKinds(decks, r.decks)
      /\ ~merged => r.why # "name_clash" /\ (r.why = "" => Whole(r.decks))
  BY <1>1, <1>2, RenameResults
<1>6. Results(r, C)
  <2>1. PICK S : S = (0..nextId) \cup DOMAIN r.decks
    OBVIOUS
  <2>2. 0 \in S /\ d \in S /\ cards \in [Cards -> [did : S, odid : S]]
    BY <2>1, BeforeIt, CardsStayTyped
  <2>3. C \in [Cards -> [did : S, odid : S]]
    BY <1>3, <2>2, RebuildTypes
  <2>4. QED
    BY <1>5, <2>1, <2>3 DEF Results
<1>7. Keeps(r, C)
  <2>1. ASSUME ~merged, r.why = "" PROVE CardsAtHome(r.decks, C)
    <3>1. CardsAtHome(decks, cards) /\ Table(decks)
      BY <2>1, BeforeIt
    <3>2. CardsAtHome(decks, C)
      BY <1>3, <1>4, <3>1, RebuildIs
    <3>3. QED
      BY <1>5, <2>1, <3>2, AtHomeStays
  <2>2. QED
    BY <1>5, <2>1 DEF Keeps
<1>8. {d} \in SUBSET DOMAIN decks
  OBVIOUS
<1>9. QED
  BY <1>4, <1>6, <1>7, <1>8, LocalKeeps

\* Operations on the cards of a filtered deck alone.
LEMMA OnCards ==
  ASSUME Inv, NEW C, NEW r, r = Ok(decks),
         \A S : 0..nextId \subseteq S /\ DOMAIN decks \subseteq S => C \in [Cards -> [did : S, odid : S]],
         ~merged => CardsAtHome(decks, C)
  PROVE  Results(r, C) /\ Keeps(r, C)
<1>1. r.why = "" /\ r.decks = decks
  BY ONLY OkIs, r = Ok(decks)
<1>2. PICK S : S = (0..nextId) \cup DOMAIN decks
  OBVIOUS
<1>3. C \in [Cards -> [did : S, odid : S]]
  BY <1>2
<1>4. QED
  BY <1>1, <1>2, <1>3, BeforeIt DEF Results, Keeps

LEMMA RebuildKeeps ==
  ASSUME Inv, NEW d \in DOMAIN decks, NEW found \in SUBSET Cards, rebuild_filtered_deck(d, found)
  PROVE  Inv'
<1>1. PICK C : C = rebuild_filtered_deck_inner(cards, d, found)
  OBVIOUS
<1>2. PICK r : r = Ok(decks)
  OBVIOUS
<1>3. Local("other", {}) /\ Commit(r, C) /\ decks[d].filtered /\ found \subseteq Searchable(cards, d)
  BY <1>1, <1>2 DEF rebuild_filtered_deck
<1>4. ASSUME NEW S, 0..nextId \subseteq S, DOMAIN decks \subseteq S
      PROVE  C \in [Cards -> [did : S, odid : S]]
  <2>1. 0 \in S /\ d \in S
    BY <1>4, BeforeIt
  <2>2. cards \in [Cards -> [did : S, odid : S]]
    BY <1>4, CardsStayTyped
  <2>3. QED
    BY <1>1, <2>1, <2>2, RebuildTypes
<1>5. ~merged => CardsAtHome(decks, C)
  BY <1>1, <1>3, BeforeIt, RebuildIs
<1>6. Results(r, C) /\ Keeps(r, C)
  BY <1>2, <1>4, <1>5, OnCards
<1>7. QED
  BY <1>3, <1>6, LocalKeeps

LEMMA EmptyKeeps ==
  ASSUME Inv, NEW d \in DOMAIN decks, empty_filtered_deck(d)
  PROVE  Inv'
<1>1. PICK C : C = ReturnHome(cards, all_cards_in_single_deck(cards, d))
  OBVIOUS
<1>2. PICK r : r = Ok(decks)
  OBVIOUS
<1>3. Local("other", {}) /\ Commit(r, C)
  BY <1>1, <1>2 DEF empty_filtered_deck
<1>4. ASSUME NEW S, 0..nextId \subseteq S, DOMAIN decks \subseteq S
      PROVE  C \in [Cards -> [did : S, odid : S]]
  <2>1. 0 \in S /\ \A c \in Cards : cards[c] \in [did : S, odid : S]
    BY <1>4, BeforeIt, CardsStayTyped
  <2>2. \A c \in Cards : [did |-> cards[c].odid, odid |-> 0] \in [did : S, odid : S]
    BY <2>1
  <2>3. PICK set : set = all_cards_in_single_deck(cards, d)
    OBVIOUS
  <2>4. QED
    BY <1>1, <2>1, <2>2, <2>3 DEF ReturnHome
<1>5. d \in Nat \ {0}
  BY BeforeIt DEF Table
<1>6. ~merged => CardsAtHome(decks, C)
  BY <1>1, <1>5, BeforeIt, EmptyIs
<1>7. Results(r, C) /\ Keeps(r, C)
  BY <1>2, <1>4, <1>6, OnCards
<1>8. QED
  BY <1>3, <1>7, LocalKeeps

\* What the check leaves.
CheckLeaves(r, C) ==
    /\ r.why \in {"", "filtered_parent"}
    /\ r.why = "" =>
         /\ Table(r.decks)
         /\ \A e \in DOMAIN r.decks : HasParent(r.decks, e)
         /\ \A c \in Cards : C[c].did \in {0} \cup DOMAIN r.decks
    /\ Results(r, C)
    /\ Keeps(r, C)
    /\ \A c \in Cards : C[c].did = cards[c].did

LEMMA CheckIs ==
  ASSUME Inv, NEW T, T = recover_missing_decks(decks, cards),
         NEW r, r = add_missing_deck_names(T), NEW C, C = check_filtered_cards(T, cards)
  PROVE  CheckLeaves(r, C)
<1>1. Table(decks) /\ nextId \in Nat \ {0} /\ cards \in [Cards -> [did : 0..nextId, odid : 0..nextId]]
  BY BeforeIt
<1>2. Missing(decks, cards) \subseteq Nat \ {0} /\ IsFiniteSet(Missing(decks, cards))
  BY <1>1, MissingIs
<1>3. /\ Table(T) /\ Extends(decks, T)
      /\ DOMAIN T = DOMAIN decks \cup Missing(decks, cards)
      /\ Missing(decks, cards) = {} => T = decks
  BY <1>1, <1>2, RecoverIs
<1>4. /\ r.why \in {"", "filtered_parent"}
      /\ r.why = "" =>
              /\ Table(r.decks) /\ Extends(T, r.decks)
              /\ \A e \in DOMAIN r.decks : HasParent(r.decks, e)
              /\ Whole(T) => Whole(r.decks)
  BY <1>1, <1>3, AddMissingIs
<1>5. ASSUME NEW S, 0..nextId \subseteq S
      PROVE  C \in [Cards -> [did : S, odid : S]] /\ \A c \in Cards : C[c].did = cards[c].did
  <2>1. 0 \in S /\ cards \in [Cards -> [did : S, odid : S]]
    BY <1>1, <1>5, CardsStayTyped
  <2>2. QED
    BY <2>1, CheckCardsIs
<1>6. \A c \in Cards : C[c].did = cards[c].did
  BY <1>5
<1>7. ASSUME r.why = "", NEW c \in Cards PROVE C[c].did \in {0} \cup DOMAIN r.decks
  <2>1. cards[c].did \in {0} \cup DOMAIN T
    BY <1>3 DEF Missing
  <2>2. DOMAIN T \subseteq DOMAIN r.decks
    BY <1>4, <1>7 DEF Extends
  <2>3. QED
    BY <1>6, <2>1, <2>2
<1>8. Results(r, C)
  <2>1. PICK S : S = (0..nextId) \cup DOMAIN r.decks
    OBVIOUS
  <2>2. C \in [Cards -> [did : S, odid : S]]
    BY <1>5, <2>1
  <2>3. QED
    BY <1>4, <2>1, <2>2 DEF Results
<1>9. Keeps(r, C)
  <2>1. ASSUME ~merged, r.why = "" PROVE Whole(r.decks) /\ CardsAtHome(r.decks, C)
    <3>1. Whole(decks) /\ CardsAtHome(decks, cards)
      BY <2>1, BeforeIt
    <3>2. Missing(decks, cards) = {}
      <4>1. SUFFICES ASSUME NEW d \in Missing(decks, cards) PROVE FALSE
        OBVIOUS
      <4>2. PICK c \in Cards : cards[c].did = d
        BY DEF Missing
      <4>3. d # 0 /\ d \notin DOMAIN decks
        BY DEF Missing
      <4>4. cards[c] # NoCard
        BY <4>2, <4>3, NoCardIs
      <4>5. QED
        BY <3>1, <4>2, <4>3, <4>4 DEF CardsAtHome
    <3>3. T = decks
      BY <1>3, <3>2
    <3>4. C = cards
      <4>1. 0 \in 0..nextId
        BY <1>1
      <4>2. QED
        BY <1>1, <3>1, <3>3, <4>1, CheckCardsIs
    <3>5. Whole(r.decks) /\ Extends(decks, r.decks)
      BY <1>4, <2>1, <3>1, <3>3
    <3>6. QED
      BY <3>1, <3>4, <3>5, ExtendsSameKinds, AtHomeStays
  <2>2. QED
    BY <1>4, <2>1 DEF Keeps
<1>10. QED
  BY <1>4, <1>6, <1>7, <1>8, <1>9 DEF CheckLeaves

LEMMA CheckKeeps ==
  ASSUME Inv, check_database
  PROVE  Inv'
<1>1. PICK T : T = recover_missing_decks(decks, cards)
  OBVIOUS
<1>2. PICK r : r = add_missing_deck_names(T)
  OBVIOUS
<1>3. PICK C : C = check_filtered_cards(T, cards)
  OBVIOUS
<1>4. Local("check", {}) /\ Commit(r, C)
  BY <1>1, <1>2, <1>3 DEF check_database
<1>5. CheckLeaves(r, C)
  BY <1>1, <1>2, <1>3, CheckIs
<1>6. QED
  BY <1>4, <1>5, LocalKeeps DEF CheckLeaves

LEMMA MergeDeckKeeps ==
  ASSUME Inv, NEW d \in DOMAIN decks \cup {nextId}, NEW n \in InputNames, NEW f \in BOOLEAN,
         merge_deck(d, n, f)
  PROVE  Inv'
<1>1. n \in Name
  BY DeckTreeAssumption
<1>2. PICK m : m = ensure_deck_name_unique(decks, d, n)
  OBVIOUS
<1>3. PICK W : W = Put(decks, d, Deck(m, f))
  OBVIOUS
<1>4. PICK r : r = Ok(W)
  OBVIOUS
<1>5. Merging /\ Commit(r, cards)
  BY <1>2, <1>3, <1>4 DEF merge_deck
<1>6. r.why = "" /\ r.decks = W
  BY ONLY <1>4, OkIs
<1>7. Table(decks) /\ nextId \in Nat \ {0} /\ IsFiniteSet(DOMAIN decks)
  BY BeforeIt DEF Table
<1>8. m \in Name /\ get_deck_id(decks, m) \subseteq {d}
  BY <1>1, <1>2, <1>7, UniqueName
<1>9. d \in Nat \ {0}
  BY <1>7 DEF Table
<1>10. WithDeck(decks, W, d, Deck(m, f))
  BY <1>3, <1>7, <1>8, <1>9, PutKeepsTable
<1>11. Results(r, cards)
  BY <1>6, <1>10, CardsStayTyped DEF Results, WithDeck
<1>12. QED
  BY <1>5, <1>11, MergeKeeps

LEMMA GraveKeeps ==
  ASSUME Inv, NEW d \in DOMAIN decks, NEW gone \in SUBSET Cards, apply_grave(d, gone)
  PROVE  Inv'
<1>1. PICK W : W = [e \in DOMAIN decks \ {d} |-> decks[e]]
  OBVIOUS
<1>2. PICK C : C = [c \in Cards |-> IF c \in gone THEN NoCard ELSE cards[c]]
  OBVIOUS
<1>3. PICK r : r = Ok(W)
  OBVIOUS
<1>4. Merging /\ Commit(r, C)
  BY <1>1, <1>2, <1>3 DEF apply_grave
<1>5. r.why = "" /\ r.decks = W
  BY ONLY <1>3, OkIs
<1>6. Table(W)
  BY <1>1, BeforeIt, PartIsTable
<1>7. PICK S : S = (0..nextId) \cup DOMAIN W
  OBVIOUS
<1>8. 0 \in S /\ cards \in [Cards -> [did : S, odid : S]]
  BY <1>7, BeforeIt, CardsStayTyped
<1>9. NoCard \in [did : S, odid : S]
  BY <1>8 DEF NoCard
<1>10. C \in [Cards -> [did : S, odid : S]]
  BY <1>2, <1>8, <1>9
<1>11. Results(r, C)
  BY <1>5, <1>6, <1>7, <1>10 DEF Results
<1>12. QED
  BY <1>4, <1>11, MergeKeeps

LEMMA InitHolds ==
  ASSUME Init
  PROVE  Inv
<1>1. PICK L : L = Len(InitNames)
  OBVIOUS
<1>2. /\ InitNames \in Seq(Name) /\ InitNames # <<>>
      /\ MaxOps \in Nat /\ MaxMerges \in Nat
  BY DeckTreeAssumption
<1>3. L \in Nat /\ L >= 1 /\ DOMAIN InitNames = 1..L /\ \A d \in 1..L : InitNames[d] \in Name
  BY <1>1, <1>2, SeqFacts
<1>4. /\ decks = [d \in 1..L |-> Deck(InitNames[d], FALSE)]
      /\ nextId = L + 1
      /\ cards = [c \in Cards |-> [did |-> L, odid |-> 0]]
      /\ failed = "" /\ last = <<"", {}>> /\ merged = FALSE /\ ops = 0 /\ merges = 0
  BY <1>1, <1>3 DEF Init
<1>5. DOMAIN decks = 1..L
  BY <1>4
<1>6. ASSUME NEW d \in 1..L
      PROVE  decks[d].name = InitNames[d] /\ decks[d].filtered = FALSE
             /\ decks[d] \in [name : Name, filtered : BOOLEAN]
  <2>1. PICK m \in Name : m = InitNames[d]
    BY <1>3
  <2>2. decks[d] = Deck(m, FALSE)
    BY <1>4, <2>1
  <2>3. QED
    BY <2>1, <2>2 DEF Deck
<1>7. Table(decks)
  <2>1. decks = [d \in DOMAIN decks |-> decks[d]]
    BY <1>4, <1>5
  <2>2. DOMAIN decks \subseteq Nat \ {0} /\ IsFiniteSet(DOMAIN decks)
    <3>1. IsFiniteSet(1..L)
      BY <1>3, FS_Interval
    <3>2. QED
      BY <1>3, <1>5, <3>1
  <2>3. \A d, e \in DOMAIN decks : Fold(decks[d].name) = Fold(decks[e].name) => d = e
    BY <1>3, <1>5, <1>6, InitNamesAssumption
  <2>4. QED
    BY <1>5, <1>6, <2>1, <2>2, <2>3 DEF Table
<1>8. DecksOK
  <2>1. nextId \in Nat \ {0} /\ \A d \in DOMAIN decks : d < nextId
    <3>1. nextId = L + 1 /\ L \in Nat /\ DOMAIN decks = 1..L
      BY <1>3, <1>4, <1>5
    <3>2. QED
      BY ONLY <3>1
  <2>2. [did |-> L, odid |-> 0] \in [did : 0..nextId, odid : 0..nextId]
    <3>1. L \in 0..nextId /\ 0 \in 0..nextId
      <4>1. nextId = L + 1 /\ L \in Nat
        BY <1>3, <1>4
      <4>2. QED
        BY ONLY <4>1
    <3>2. QED
      BY <3>1
  <2>3. cards \in [Cards -> [did : 0..nextId, odid : 0..nextId]]
    BY <1>4, <2>2
  <2>4. QED
    BY <1>4, <1>7, <2>1, <2>3 DEF DecksOK
<1>9. HistoryOK
  <2>1. ops \in 0..MaxOps /\ merges \in 0..MaxMerges
    <3>1. ops = 0 /\ merges = 0
      BY <1>4
    <3>2. QED
      BY ONLY <1>2, <3>1
  <2>2. last \in {"", "move", "remove", "check", "merge", "other"} \X SUBSET (1..nextId)
    <3>1. last = <<"", {}>>
      BY <1>4
    <3>2. QED
      BY <3>1
  <2>3. QED
    BY <1>4, <2>1, <2>2 DEF HistoryOK
<1>10. Whole(decks)
  <2>1. ASSUME NEW d \in DOMAIN decks, Len(decks[d].name) > 1 PROVE ParentOf(decks, decks[d].name)
    <3>1. decks[d].name = InitNames[d] /\ d \in DOMAIN InitNames
      BY <1>3, <1>5, <1>6
    <3>2. PICK e \in DOMAIN InitNames : InitNames[e] = Front(InitNames[d])
      BY <2>1, <3>1, InitNamesAssumption
    <3>3. e \in DOMAIN decks /\ decks[e].name = Front(decks[d].name) /\ ~decks[e].filtered
      BY <1>3, <1>5, <1>6, <3>1, <3>2
    <3>4. QED
      BY <3>3 DEF ParentOf
  <2>2. QED
    BY <2>1 DEF Whole
<1>11. CardsAtHome(decks, cards)
  <2>1. [did |-> L, odid |-> 0] \in [did : Nat, odid : Nat] /\ L \in 1..L
    BY <1>3
  <2>2. cards \in [Cards -> [did : Nat, odid : Nat]]
    BY <1>4, <2>1
  <2>3. \A c \in Cards : cards[c].did = L /\ cards[c].odid = 0
    BY <1>4
  <2>4. QED
    BY <1>5, <1>6, <2>1, <2>2, <2>3 DEF CardsAtHome
<1>12. QED
  BY <1>4, <1>8, <1>9, <1>10, <1>11 DEF Inv, TreeOK

(***************************************************************************)
(* The theorems                                                            *)
(***************************************************************************)

LEMMA InvStep ==
  ASSUME Inv, [Next]_vars
  PROVE  Inv'
<1>1. CASE UNCHANGED vars
  <2>1. /\ decks' = decks /\ nextId' = nextId /\ cards' = cards /\ failed' = failed
        /\ last' = last /\ merged' = merged /\ ops' = ops /\ merges' = merges
    BY <1>1 DEF vars
  <2>2. DecksOK'
    BY <2>1 DEF Inv, DecksOK, Table
  <2>3. HistoryOK'
    BY <2>1 DEF Inv, HistoryOK
  <2>4. TreeOK'
    BY <2>1 DEF Inv, TreeOK, Whole, ParentOf, CardsAtHome
  <2>5. QED
    BY <2>2, <2>3, <2>4 DEF Inv
<1>2. CASE \E n \in InputNames : get_or_create(n)
  BY <1>2, GetOrCreateKeeps
<1>3. CASE \E n \in InputNames, found \in SUBSET Cards : add_filtered_deck(n, found)
  BY <1>3, AddFilteredKeeps
<1>4. ASSUME NEW d \in DOMAIN decks,
             \/ \E n \in InputNames : rename_deck(d, n)
             \/ \E c \in Cards : set_deck(c, d)
             \/ \E found \in SUBSET Cards :
                   \/ rebuild_filtered_deck(d, found)
                   \/ apply_grave(d, found)
                   \/ \E n \in InputNames : update_filtered_deck(d, n, found)
             \/ empty_filtered_deck(d)
      PROVE  Inv'
  <2>1. CASE \E n \in InputNames : rename_deck(d, n)
    BY <2>1, RenameKeeps
  <2>2. CASE \E c \in Cards : set_deck(c, d)
    BY <2>2, SetDeckKeeps
  <2>3. CASE \E found \in SUBSET Cards : rebuild_filtered_deck(d, found)
    BY <2>3, RebuildKeeps
  <2>4. CASE \E found \in SUBSET Cards : apply_grave(d, found)
    BY <2>4, GraveKeeps
  <2>5. CASE \E found \in SUBSET Cards : \E n \in InputNames : update_filtered_deck(d, n, found)
    BY <2>5, UpdateFilteredKeeps
  <2>6. CASE empty_filtered_deck(d)
    BY <2>6, EmptyKeeps
  <2>7. QED
    BY <1>4, <2>1, <2>2, <2>3, <2>4, <2>5, <2>6
<1>5. ASSUME NEW dids \in Selections,
             \/ \E target \in DOMAIN decks \cup {0} : reparent_decks(dids, target)
             \/ remove_decks(dids)
      PROVE  Inv'
  BY <1>5, ReparentKeeps, RemoveKeeps
<1>6. CASE \E d \in DOMAIN decks \cup {nextId}, n \in InputNames, f \in BOOLEAN : merge_deck(d, n, f)
  BY <1>6, MergeDeckKeeps
<1>7. CASE check_database
  BY <1>7, CheckKeeps
<1>8. QED
  BY <1>1, <1>2, <1>3, <1>4, <1>5, <1>6, <1>7 DEF Next

LEMMA InvHolds == Spec => []Inv
<1>1. Init => Inv
  BY InitHolds
<1>2. Inv /\ [Next]_vars => Inv'
  BY InvStep
<1>3. QED
  BY <1>1, <1>2, PTL DEF Spec

LEMMA InvTypes ==
  ASSUME Inv
  PROVE  TypeOK
<1>1. /\ Table(decks) /\ nextId \in Nat \ {0} /\ \A d \in DOMAIN decks : d < nextId
      /\ cards \in [Cards -> [did : 0..nextId, odid : 0..nextId]]
      /\ failed \in {"", "filtered", "filtered_parent", "name_clash"}
  BY DEF Inv, DecksOK
<1>2. \A d \in DOMAIN decks : decks[d].name \in Seq(Nat \X Nat \X BOOLEAN) \ {<<>>} /\ decks[d].filtered \in BOOLEAN
  BY <1>1 DEF Table, Name
<1>3. DOMAIN decks \subseteq 1..(nextId - 1)
  <2>1. SUFFICES ASSUME NEW d \in DOMAIN decks PROVE d \in 1..(nextId - 1)
    OBVIOUS
  <2>2. d \in Nat /\ d # 0 /\ d < nextId /\ nextId \in Nat
    BY <1>1 DEF Table
  <2>3. QED
    BY ONLY <2>2
<1>4. QED
  BY <1>1, <1>2, <1>3 DEF Inv, HistoryOK, TypeOK

\* Every variable has its type in every reachable state, also after what a sync
\* brings: names are not empty, no deck and no card has an id not yet given out.
THEOREM TypeCorrect == Spec => []TypeOK
<1>1. Inv => TypeOK
  BY InvTypes
<1>2. QED
  BY <1>1, InvHolds, PTL

\* update_deck_inner(), reparent_decks_inner() and the others: until a sync brings
\* in decks every deck has its parent, none is below a filtered deck, and the unique
\* index on the names never refuses a rename.
THEOREM NamesAlwaysHold == Spec => []NamesHold
<1>1. Inv => NamesHold
  BY DEF Inv, TreeOK, NamesHold, TreeIsWhole, RenamesNeverClash, Whole, ParentOf
<1>2. QED
  BY <1>1, InvHolds, PTL

\* The steps by what they write in the history.
Moves(dids) ==
    \/ \E d \in DOMAIN decks, n \in InputNames : dids = {d} /\ rename_deck(d, n)
    \/ \E d \in DOMAIN decks, n \in InputNames, found \in SUBSET Cards :
          dids = {d} /\ update_filtered_deck(d, n, found)
    \/ \E s \in Selections, target \in DOMAIN decks \cup {0} :
          dids = ToSet(s) /\ reparent_decks(s, target)
Others ==
    \/ \E n \in InputNames : get_or_create(n)
    \/ \E n \in InputNames, found \in SUBSET Cards : add_filtered_deck(n, found)
    \/ \E d \in DOMAIN decks, c \in Cards : set_deck(c, d)
    \/ \E d \in DOMAIN decks, found \in SUBSET Cards : rebuild_filtered_deck(d, found)
    \/ \E d \in DOMAIN decks : empty_filtered_deck(d)

LEMMA StepsAre ==
  ASSUME Next
  PROVE  \/ last'[1] = "move" /\ merged' = merged /\ Moves(last'[2])
         \/ last'[1] = "remove" /\ merged' = merged /\
              \E s \in Selections : last'[2] = ToSet(s) /\ remove_decks(s)
         \/ last'[1] = "other" /\ merged' = merged /\ Others
         \/ last'[1] = "check" /\ merged' = merged /\ check_database
         \/ last'[1] = "merge" /\ merged' = TRUE
<1>1. \A op, dids : Local(op, dids) => last'[1] = op /\ last'[2] = dids /\ merged' = merged
  BY DEF Local
<1>2. Merging => last'[1] = "merge" /\ merged' = TRUE
  BY DEF Merging
<1>3. CASE \E n \in InputNames : get_or_create(n)
  BY <1>1, <1>3 DEF get_or_create, Others
<1>4. CASE \E n \in InputNames, found \in SUBSET Cards : add_filtered_deck(n, found)
  BY <1>1, <1>4 DEF add_filtered_deck, Others
<1>5. ASSUME NEW d \in DOMAIN decks, NEW n \in InputNames, rename_deck(d, n)
      PROVE  last'[1] = "move" /\ merged' = merged /\ Moves(last'[2])
  BY <1>1, <1>5 DEF rename_deck, Moves
<1>6. ASSUME NEW d \in DOMAIN decks, NEW c \in Cards, set_deck(c, d)
      PROVE  last'[1] = "other" /\ merged' = merged /\ Others
  BY <1>1, <1>6 DEF set_deck, Others
<1>7. ASSUME NEW d \in DOMAIN decks, NEW found \in SUBSET Cards, rebuild_filtered_deck(d, found)
      PROVE  last'[1] = "other" /\ merged' = merged /\ Others
  BY <1>1, <1>7 DEF rebuild_filtered_deck, Others
<1>8. ASSUME NEW d \in DOMAIN decks, NEW found \in SUBSET Cards, apply_grave(d, found)
      PROVE  last'[1] = "merge" /\ merged' = TRUE
  BY <1>2, <1>8 DEF apply_grave
<1>9. ASSUME NEW d \in DOMAIN decks, NEW n \in InputNames, NEW found \in SUBSET Cards, update_filtered_deck(d, n, found)
      PROVE  last'[1] = "move" /\ merged' = merged /\ Moves(last'[2])
  BY <1>1, <1>9 DEF update_filtered_deck, Moves
<1>10. ASSUME NEW d \in DOMAIN decks, empty_filtered_deck(d)
       PROVE  last'[1] = "other" /\ merged' = merged /\ Others
  BY <1>1, <1>10 DEF empty_filtered_deck, Others
<1>11. ASSUME NEW s \in Selections, NEW target \in DOMAIN decks \cup {0}, reparent_decks(s, target)
       PROVE  last'[1] = "move" /\ merged' = merged /\ Moves(last'[2])
  BY <1>1, <1>11 DEF reparent_decks, Moves
<1>12. ASSUME NEW s \in Selections, remove_decks(s)
       PROVE  last'[1] = "remove" /\ merged' = merged /\ last'[2] = ToSet(s)
  BY <1>1, <1>12 DEF remove_decks
<1>13. CASE \E d \in DOMAIN decks \cup {nextId}, n \in InputNames, f \in BOOLEAN : merge_deck(d, n, f)
  BY <1>2, <1>13 DEF merge_deck
<1>14. CASE check_database
  BY <1>1, <1>14 DEF check_database
<1>15. QED
  BY <1>3, <1>4, <1>5, <1>6, <1>7, <1>8, <1>9, <1>10, <1>11, <1>12, <1>13, <1>14 DEF Next

\* The check of a step.
CheckedWell ==
    last'[1] = "check" /\ failed' = "" =>
        /\ \A d \in DOMAIN decks' :
              Len(decks'[d].name) > 1 =>
                  get_deck_id(decks', Front(decks'[d].name)) # {}
        /\ \A c \in Cards : cards'[c].did \in {0} \cup DOMAIN decks'

LEMMA ChecksRepair ==
  ASSUME Inv, Next
  PROVE  CheckedWell
<1>1. SUFFICES ASSUME last'[1] = "check", failed' = "" PROVE CheckedWell
  BY DEF CheckedWell
<1>2. check_database
  BY <1>1, StepsAre
<1>3. PICK T : T = recover_missing_decks(decks, cards)
  OBVIOUS
<1>4. PICK r : r = add_missing_deck_names(T)
  OBVIOUS
<1>5. PICK C : C = check_filtered_cards(T, cards)
  OBVIOUS
<1>6. Commit(r, C)
  BY <1>2, <1>3, <1>4, <1>5 DEF check_database
<1>7. CheckLeaves(r, C)
  BY <1>3, <1>4, <1>5, CheckIs
<1>8. r.why = "" /\ decks' = r.decks /\ cards' = C
  BY <1>1, <1>6 DEF Commit
<1>9. QED
  BY <1>7, <1>8 DEF CheckLeaves, HasParent, CheckedWell

\* check_database_inner(): after a check that succeeds, every deck has its parent and
\* every card a deck, whatever a sync left.
THEOREM ChecksRepairTheTree == Spec => CheckRepairs
<1>1. Inv /\ [Next]_vars => [CheckedWell]_vars
  BY ChecksRepair
<1>2. QED
  BY <1>1, InvHolds, PTL DEF Spec, CheckRepairs, CheckedWell

\* The cards of a step.
CardsGo ==
    \A c \in Cards : ~merged' /\ cards[c] # NoCard =>
        LET k == cards[c]
            home == IF k.odid # 0 THEN k.odid ELSE k.did
        IN  cards'[c] = NoCard <=> last'[1] = "remove" /\ Follows(last'[2], home)

LEMMA CardsCommit ==
  ASSUME NEW r, NEW C, Commit(r, C), r.why = "" => SameCards(cards, C)
  PROVE  SameCards(cards, cards')
<1>1. CASE r.why = ""
  BY <1>1 DEF Commit
<1>2. CASE r.why # ""
  BY <1>2 DEF Commit, SameCards
<1>3. QED
  BY <1>1, <1>2

LEMMA MovesKeepCards ==
  ASSUME Inv, ~merged, NEW dids, Moves(dids)
  PROVE  SameCards(cards, cards')
<1>1. SameCards(cards, cards)
  BY DEF SameCards
<1>2. ASSUME NEW d \in DOMAIN decks, NEW n \in InputNames, rename_deck(d, n)
      PROVE  SameCards(cards, cards')
  BY <1>1, <1>2, CardsCommit DEF rename_deck
<1>3. ASSUME NEW d \in DOMAIN decks, NEW n \in InputNames, NEW found \in SUBSET Cards, update_filtered_deck(d, n, found)
      PROVE  SameCards(cards, cards')
  <2>1. PICK C : C = rebuild_filtered_deck_inner(cards, d, found)
    OBVIOUS
  <2>2. PICK r : r = update_deck_inner(decks, d, n)
    OBVIOUS
  <2>3. Commit(r, C) /\ decks[d].filtered /\ found \subseteq Searchable(cards, d)
    BY <1>3, <2>1, <2>2 DEF update_filtered_deck
  <2>4. SameCards(cards, C)
    BY <2>1, <2>3, BeforeIt, RebuildIs
  <2>5. QED
    BY <2>3, <2>4, CardsCommit
<1>4. ASSUME NEW s \in Selections, NEW target, reparent_decks(s, target)
      PROVE  SameCards(cards, cards')
  <2>1. PICK r : Commit(r, cards)
    BY <1>4 DEF reparent_decks
  <2>2. QED
    BY <1>1, <2>1, CardsCommit
<1>5. QED
  BY <1>2, <1>3, <1>4 DEF Moves

LEMMA OthersKeepCards ==
  ASSUME Inv, ~merged, Others
  PROVE  SameCards(cards, cards')
<1>1. SameCards(cards, cards) /\ CardsAtHome(decks, cards) /\ Table(decks) /\ nextId \in Nat \ {0}
  BY BeforeIt DEF SameCards
<1>2. ASSUME NEW n \in InputNames, get_or_create(n)
      PROVE  SameCards(cards, cards')
  BY <1>1, <1>2, CardsCommit DEF get_or_create
<1>3. ASSUME NEW n \in InputNames, NEW found \in SUBSET Cards, add_filtered_deck(n, found)
      PROVE  SameCards(cards, cards')
  <2>1. n \in Name /\ TRUE \in BOOLEAN
    BY DeckTreeAssumption
  <2>2. PICK r : r = add_deck_inner(decks, n, TRUE)
    OBVIOUS
  <2>3. PICK e : e = Max(DOMAIN r.decks)
    OBVIOUS
  <2>4. PICK C : C = rebuild_filtered_deck_inner(cards, e, found)
    OBVIOUS
  <2>5. Commit(r, C) /\ found \subseteq Searchable(cards, 0)
    BY <1>3, <2>2, <2>3, <2>4 DEF add_filtered_deck
  <2>6. ASSUME r.why = "" PROVE SameCards(cards, C)
    <3>1. PICK d \in DOMAIN r.decks : NewDeck(decks, r.decks, n, TRUE, d)
      BY <1>1, <2>1, <2>2, <2>6, AddAdds
    <3>2. Table(r.decks) /\ Extends(decks, r.decks) /\ r.decks[d].filtered
      BY <3>1 DEF NewDeck
    <3>3. DOMAIN r.decks \subseteq Nat /\ \A a \in DOMAIN r.decks : a <= d
      BY <3>1 DEF NewDeck, Table
    <3>4. PICK W : W = DOMAIN r.decks
      OBVIOUS
    <3>5. Max(W) = d
      BY <3>3, <3>4, MaxOf
    <3>6. e = d
      BY <2>3, <3>4, <3>5
    <3>7. CardsAtHome(r.decks, cards)
      BY <1>1, <3>2, ExtendsSameKinds, AtHomeStays
    <3>8. found \subseteq Searchable(cards, d)
      BY <1>1, <2>5, SearchableBefore
    <3>9. QED
      BY <2>4, <3>2, <3>6, <3>7, <3>8, RebuildIs
  <2>7. QED
    BY <2>5, <2>6, CardsCommit
<1>4. ASSUME NEW d \in DOMAIN decks, NEW c \in Cards, set_deck(c, d)
      PROVE  SameCards(cards, cards')
  <2>1. PICK C : C = [cards EXCEPT ![c] = [did |-> d, odid |-> 0]]
    OBVIOUS
  <2>2. (\E r : Commit(r, C)) /\ cards[c].did \notin {0, d}
    BY <1>4, <2>1 DEF set_deck
  <2>3. cards \in [Cards -> [did : Nat, odid : Nat]]
    BY <1>1 DEF CardsAtHome
  <2>4. C[c].did = d /\ \A b \in Cards : b # c => C[b] = cards[b]
    BY <2>1, <2>3
  <2>5. d # 0
    BY <1>1 DEF Table
  <2>6. C[c] # NoCard /\ cards[c] # NoCard
    BY <2>2, <2>4, <2>5, NoCardIs
  <2>7. SameCards(cards, C)
    BY <2>4, <2>6 DEF SameCards
  <2>8. QED
    BY <2>2, <2>7, CardsCommit
<1>5. ASSUME NEW d \in DOMAIN decks, NEW found \in SUBSET Cards, rebuild_filtered_deck(d, found)
      PROVE  SameCards(cards, cards')
  <2>1. PICK C : C = rebuild_filtered_deck_inner(cards, d, found)
    OBVIOUS
  <2>2. (\E r : Commit(r, C)) /\ decks[d].filtered /\ found \subseteq Searchable(cards, d)
    BY <1>5, <2>1 DEF rebuild_filtered_deck
  <2>3. SameCards(cards, C)
    BY <1>1, <2>1, <2>2, RebuildIs
  <2>4. QED
    BY <2>2, <2>3, CardsCommit
<1>6. ASSUME NEW d \in DOMAIN decks, empty_filtered_deck(d)
      PROVE  SameCards(cards, cards')
  <2>1. PICK C : C = ReturnHome(cards, all_cards_in_single_deck(cards, d))
    OBVIOUS
  <2>2. \E r : Commit(r, C)
    BY <1>6, <2>1 DEF empty_filtered_deck
  <2>3. d \in Nat \ {0}
    BY <1>1 DEF Table
  <2>4. SameCards(cards, C)
    BY <1>1, <2>1, <2>3, EmptyIs
  <2>5. QED
    BY <2>2, <2>4, CardsCommit
<1>7. QED
  BY <1>2, <1>3, <1>4, <1>5, <1>6 DEF Others

LEMMA CheckKeepsCards ==
  ASSUME Inv, ~merged, check_database
  PROVE  SameCards(cards, cards')
<1>1. PICK T : T = recover_missing_decks(decks, cards)
  OBVIOUS
<1>2. PICK r : r = add_missing_deck_names(T)
  OBVIOUS
<1>3. PICK C : C = check_filtered_cards(T, cards)
  OBVIOUS
<1>4. Commit(r, C)
  BY <1>1, <1>2, <1>3 DEF check_database
<1>5. CheckLeaves(r, C)
  BY <1>1, <1>2, <1>3, CheckIs
<1>6. ASSUME r.why = "" PROVE SameCards(cards, C)
  <2>1. CardsAtHome(r.decks, C) /\ Table(r.decks)
    BY <1>5, <1>6 DEF CheckLeaves, Keeps
  <2>2. CardsAtHome(decks, cards) /\ Table(decks)
    BY BeforeIt
  <2>3. ASSUME NEW c \in Cards PROVE C[c] = NoCard <=> cards[c] = NoCard
    <3>1. C[c] = NoCard <=> C[c].did = 0
      BY <2>1, CardIs
    <3>2. cards[c] = NoCard <=> cards[c].did = 0
      BY <2>2, CardIs
    <3>3. C[c].did = cards[c].did
      BY <1>5 DEF CheckLeaves
    <3>4. QED
      BY <3>1, <3>2, <3>3
  <2>4. QED
    BY <2>3 DEF SameCards
<1>7. QED
  BY <1>4, <1>6, CardsCommit

LEMMA RemovesTakeCards ==
  ASSUME Inv, ~merged, NEW dids \in Selections, remove_decks(dids), NEW c \in Cards, cards[c] # NoCard
  PROVE  cards'[c] = NoCard <=> Follows(ToSet(dids), Home(cards[c]))
<1>1. PICK s : s = remove_decks_and_child_decks(dids)
  OBVIOUS
<1>2. PICK r : r = Ok(s.decks)
  OBVIOUS
<1>3. Commit(r, s.cards)
  BY <1>1, <1>2 DEF remove_decks
<1>4. r.why = ""
  BY ONLY <1>2, OkIs
<1>5. cards' = s.cards
  BY <1>3, <1>4 DEF Commit
<1>6. Whole(decks) /\ CardsAtHome(decks, cards) /\ Table(decks)
  BY BeforeIt
<1>7. PICK M \in SUBSET DOMAIN decks : M = ToSet(dids)
  BY SelectionIs
<1>8. Removal(decks, cards, s, Gone(decks, M))
  BY <1>1, <1>6, <1>7, SelectionIs, RemoveDecksIs
<1>9. CardsLeft(cards, s.cards, Gone(decks, M))
  BY <1>6, <1>8 DEF Removal
<1>10. cards'[c] = NoCard <=> Home(cards[c]) \in Gone(decks, M)
  BY <1>5, <1>9 DEF CardsLeft
<1>11. Home(cards[c]) \in DOMAIN decks
  BY <1>6 DEF Home, CardsAtHome
<1>12. QED
  BY <1>7, <1>10, <1>11 DEF Gone, Follows

LEMMA StepsTakeCards ==
  ASSUME Inv, Next
  PROVE  CardsGo
<1>1. SUFFICES ASSUME ~merged', NEW c \in Cards, cards[c] # NoCard
               PROVE  cards'[c] = NoCard <=> last'[1] = "remove" /\ Follows(last'[2], Home(cards[c]))
  BY DEF CardsGo, Home
<1>2. CASE last'[1] = "remove"
  <2>1. PICK s \in Selections : last'[2] = ToSet(s) /\ remove_decks(s)
    BY <1>2, StepsAre
  <2>2. ~merged
    BY <1>1, <1>2, StepsAre
  <2>3. QED
    BY <1>1, <1>2, <2>1, <2>2, RemovesTakeCards
<1>3. CASE last'[1] # "remove"
  <2>1. ~merged /\ (Moves(last'[2]) \/ Others \/ check_database)
    <3>1. \/ merged' = merged /\ (Moves(last'[2]) \/ Others \/ check_database)
          \/ merged' = TRUE
      BY <1>3, StepsAre
    <3>2. merged' = merged /\ (Moves(last'[2]) \/ Others \/ check_database)
      BY <1>1, <3>1
    <3>3. ~merged
      BY <1>1, <3>2
    <3>4. QED
      BY <3>2, <3>3
  <2>2. SameCards(cards, cards')
    BY <2>1, MovesKeepCards, OthersKeepCards, CheckKeepsCards
  <2>3. QED
    BY <1>1, <1>3, <2>2 DEF SameCards
<1>4. QED
  BY <1>2, <1>3

\* remove_decks_and_child_decks(): a card goes exactly when the deck it belongs to is
\* removed or is below one that is, wherever the card was lent to.
THEOREM CardsFollowTheirDeck == Spec => CardsGoWithTheirDeck
<1>1. Inv /\ [Next]_vars => [CardsGo]_vars
  BY StepsTakeCards
<1>2. QED
  BY <1>1, InvHolds, PTL DEF Spec, CardsGoWithTheirDeck, CardsGo

(***************************************************************************)
(* Names that are moved together                                           *)
(***************************************************************************)

LEMMA BelowFold ==
  ASSUME NEW n \in Seq(Comp), NEW p \in Seq(Comp), NEW q \in Seq(Comp), Fold(p) = Fold(q)
  PROVE  IsBelow(n, p) <=> IsBelow(n, q)
<1>1. Len(p) = Len(q)
  BY FoldIs
<1>2. QED
  BY <1>1 DEF IsBelow

\* Of two names above a third one is above the other.
LEMMA Comparable ==
  ASSUME NEW n \in Seq(Comp), NEW p \in Seq(Comp), NEW q \in Seq(Comp), IsBelow(n, p), IsBelow(n, q)
  PROVE  IsBelow(p, q) \/ IsBelow(q, p) \/ Fold(p) = Fold(q)
<1>1. Len(p) \in Nat /\ Len(q) \in Nat
  OBVIOUS
<1>2. Agree(n, p, Len(p)) /\ Agree(n, q, Len(q))
  BY BelowIs
<1>3. CASE Len(p) < Len(q)
  <2>1. Agree(q, p, Len(p))
    BY <1>1, <1>2, <1>3 DEF Agree
  <2>2. Len(q) > Len(p)
    BY <1>1, <1>3
  <2>3. QED
    BY <2>1, <2>2, BelowIs
<1>4. CASE Len(q) < Len(p)
  <2>1. Agree(p, q, Len(q))
    BY <1>1, <1>2, <1>4 DEF Agree
  <2>2. Len(p) > Len(q)
    BY <1>1, <1>4
  <2>3. QED
    BY <2>1, <2>2, BelowIs
<1>5. CASE Len(p) = Len(q)
  <2>1. Agree(p, q, Len(p))
    BY <1>1, <1>2, <1>5 DEF Agree
  <2>2. QED
    BY <1>5, <2>1, FoldIs
<1>6. QED
  BY <1>1, <1>3, <1>4, <1>5

LEMMA ReparentItself ==
  ASSUME NEW n \in Seq(Comp), NEW m \in Seq(Comp)
  PROVE  reparent(n, n, m) = m
<1>1. Len(n) \in Nat
  OBVIOUS
<1>2. SubSeq(n, Len(n) + 1, Len(n)) = <<>>
  BY <1>1
<1>3. m \o <<>> = m
  OBVIOUS
<1>4. QED
  BY <1>2, <1>3 DEF reparent

\* The name r is n moved from below old to below new, component by component.
MovedName(n, old, new, r) ==
    /\ r \in Name /\ r \in Seq(Comp) /\ n \in Seq(Comp)
    /\ Len(r) \in Nat /\ Len(n) \in Nat /\ Len(old) \in Nat /\ Len(new) \in Nat
    /\ Len(n) > Len(old)
    /\ Len(r) = Len(new) + (Len(n) - Len(old))
    /\ \A i \in 1..Len(new) : r[i] = new[i]
    /\ \A i \in 1..(Len(n) - Len(old)) : r[Len(new) + i] = n[Len(old) + i]

LEMMA ReparentAt ==
  ASSUME NEW n \in Name, NEW old \in Seq(Comp), NEW new \in Seq(Comp), IsBelow(n, old),
         NEW r, r = reparent(n, old, new)
  PROVE  MovedName(n, old, new, r)
<1>1. /\ r \in Name
      /\ Len(r) = Len(new) + Len(n) - Len(old)
      /\ \A i \in 1..Len(new) : r[i] = new[i]
      /\ \A i \in (Len(new) + 1)..(Len(new) + Len(n) - Len(old)) : r[i] = n[i - Len(new) + Len(old)]
  BY ReparentIs
<1>2. /\ r \in Seq(Comp) /\ n \in Seq(Comp)
      /\ Len(r) \in Nat /\ Len(n) \in Nat /\ Len(old) \in Nat /\ Len(new) \in Nat
  BY <1>1, NameIs
<1>3. Len(n) > Len(old)
  BY DEF IsBelow
<1>4. ASSUME NEW i \in 1..(Len(n) - Len(old)) PROVE r[Len(new) + i] = n[Len(old) + i]
  <2>1. Len(new) + i \in (Len(new) + 1)..(Len(new) + Len(n) - Len(old))
    BY <1>2, <1>3
  <2>2. r[Len(new) + i] = n[(Len(new) + i) - Len(new) + Len(old)]
    BY <1>1, <2>1
  <2>3. (Len(new) + i) - Len(new) + Len(old) = Len(old) + i
    BY <1>2
  <2>4. QED
    BY <2>2, <2>3
<1>5. Len(r) = Len(new) + (Len(n) - Len(old))
  BY <1>1, <1>2
<1>6. QED
  BY <1>1, <1>2, <1>3, <1>4, <1>5 DEF MovedName

\* Names that move together keep their places to each other.
LEMMA BelowTogether ==
  ASSUME NEW x \in Name, NEW y \in Name, NEW old \in Name, NEW new \in Name,
         IsBelow(x, old), IsBelow(y, old)
  PROVE  IsBelow(reparent(x, old, new), reparent(y, old, new)) <=> IsBelow(x, y)
<1>1. PICK u : u = reparent(x, old, new)
  OBVIOUS
<1>2. PICK v : v = reparent(y, old, new)
  OBVIOUS
<1>3. old \in Seq(Comp) /\ new \in Seq(Comp)
  BY NameIs
<1>4. /\ u \in Seq(Comp) /\ x \in Seq(Comp)
      /\ Len(u) \in Nat /\ Len(x) \in Nat /\ Len(old) \in Nat /\ Len(new) \in Nat
      /\ Len(x) > Len(old)
      /\ Len(u) = Len(new) + (Len(x) - Len(old))
      /\ \A i \in 1..Len(new) : u[i] = new[i]
      /\ \A i \in 1..(Len(x) - Len(old)) : u[Len(new) + i] = x[Len(old) + i]
  <2>1. MovedName(x, old, new, u)
    BY <1>1, <1>3, ReparentAt
  <2>2. QED
    BY <2>1 DEF MovedName
<1>5. /\ v \in Seq(Comp) /\ y \in Seq(Comp)
      /\ Len(v) \in Nat /\ Len(y) \in Nat
      /\ Len(y) > Len(old)
      /\ Len(v) = Len(new) + (Len(y) - Len(old))
      /\ \A i \in 1..Len(new) : v[i] = new[i]
      /\ \A i \in 1..(Len(y) - Len(old)) : v[Len(new) + i] = y[Len(old) + i]
  <2>1. MovedName(y, old, new, v)
    BY <1>2, <1>3, ReparentAt
  <2>2. QED
    BY <2>1 DEF MovedName
<1>6. Agree(x, old, Len(old)) /\ Agree(y, old, Len(old))
  BY <1>3, <1>4, <1>5, BelowIs
<1>7. Len(u) > Len(v) <=> Len(x) > Len(y)
  BY <1>4, <1>5
<1>8. ASSUME Len(x) > Len(y), Agree(u, v, Len(v)) PROVE Agree(x, y, Len(y))
  <2>1. ASSUME NEW i \in 1..Len(y) PROVE Key(x[i]) = Key(y[i])
    <3>1. CASE i <= Len(old)
      <4>1. i \in 1..Len(old)
        BY <1>4, <3>1
      <4>2. QED
        BY <1>6, <4>1 DEF Agree
    <3>2. CASE i > Len(old)
      <4>1. PICK j \in 1..(Len(y) - Len(old)) : i = Len(old) + j
        <5>1. i - Len(old) \in 1..(Len(y) - Len(old)) /\ i = Len(old) + (i - Len(old))
          BY <1>4, <1>5, <3>2
        <5>2. QED
          BY <5>1
      <4>2. j \in 1..(Len(x) - Len(old)) /\ Len(new) + j \in 1..Len(v)
        BY <1>4, <1>5, <1>8
      <4>3. u[Len(new) + j] = x[i] /\ v[Len(new) + j] = y[i]
        BY <1>4, <1>5, <4>1, <4>2
      <4>4. Key(u[Len(new) + j]) = Key(v[Len(new) + j])
        BY <1>8, <4>2 DEF Agree
      <4>5. QED
        BY <4>3, <4>4
    <3>3. QED
      BY <1>4, <1>5, <3>1, <3>2
  <2>2. QED
    BY <2>1 DEF Agree
<1>9. ASSUME Len(x) > Len(y), Agree(x, y, Len(y)) PROVE Agree(u, v, Len(v))
  <2>1. ASSUME NEW i \in 1..Len(v) PROVE Key(u[i]) = Key(v[i])
    <3>1. CASE i <= Len(new)
      <4>1. i \in 1..Len(new)
        BY <1>4, <3>1
      <4>2. QED
        BY <1>4, <1>5, <4>1
    <3>2. CASE i > Len(new)
      <4>1. PICK j \in 1..(Len(y) - Len(old)) : i = Len(new) + j
        <5>1. i - Len(new) \in 1..(Len(y) - Len(old)) /\ i = Len(new) + (i - Len(new))
          BY <1>4, <1>5, <3>2
        <5>2. QED
          BY <5>1
      <4>2. j \in 1..(Len(x) - Len(old)) /\ Len(old) + j \in 1..Len(y)
        BY <1>4, <1>5, <1>9
      <4>3. u[i] = x[Len(old) + j] /\ v[i] = y[Len(old) + j]
        BY <1>4, <1>5, <4>1, <4>2
      <4>4. Key(x[Len(old) + j]) = Key(y[Len(old) + j])
        BY <1>9, <4>2 DEF Agree
      <4>5. QED
        BY <4>3, <4>4
    <3>3. QED
      BY <1>4, <1>5, <3>1, <3>2
  <2>2. QED
    BY <2>1 DEF Agree
<1>10. IsBelow(u, v) <=> Len(u) > Len(v) /\ Agree(u, v, Len(v))
  BY <1>4, <1>5, BelowIs
<1>11. IsBelow(x, y) <=> Len(x) > Len(y) /\ Agree(x, y, Len(y))
  BY <1>4, <1>5, BelowIs
<1>12. QED
  BY <1>1, <1>2, <1>7, <1>8, <1>9, <1>10, <1>11

\* Moved twice, with the one above it, a name is moved as if once.
LEMMA ReparentTwice ==
  ASSUME NEW x \in Name, NEW y \in Name, NEW old \in Name, NEW new \in Name, NEW m \in Name,
         IsBelow(x, y), IsBelow(y, old)
  PROVE  Fold(reparent(reparent(x, old, new), reparent(y, old, new), m)) = Fold(reparent(x, y, m))
<1>1. PICK v \in Name : v = reparent(y, old, new)
  BY NameIs, ReparentIs
<1>2. old \in Seq(Comp) /\ new \in Seq(Comp) /\ x \in Seq(Comp) /\ y \in Seq(Comp) /\ m \in Seq(Comp) /\ v \in Seq(Comp)
  BY NameIs
<1>3. IsBelow(x, old)
  BY <1>2, BelowTransitive
<1>4. PICK u \in Name : u = reparent(x, old, new)
  BY <1>2, <1>3, ReparentIs
<1>5. IsBelow(u, v)
  BY <1>1, <1>3, <1>4, BelowTogether
<1>6. PICK w : w = reparent(u, v, m)
  OBVIOUS
<1>7. PICK z : z = reparent(x, y, m)
  OBVIOUS
<1>8. /\ Len(v) \in Nat /\ Len(y) \in Nat /\ Len(old) \in Nat /\ Len(new) \in Nat
      /\ Len(y) > Len(old)
      /\ Len(v) = Len(new) + (Len(y) - Len(old))
  <2>1. MovedName(y, old, new, v)
    BY <1>1, <1>2, ReparentAt
  <2>2. QED
    BY <2>1 DEF MovedName
<1>9. /\ Len(u) \in Nat /\ Len(x) \in Nat
      /\ Len(x) > Len(old)
      /\ Len(u) = Len(new) + (Len(x) - Len(old))
      /\ \A i \in 1..(Len(x) - Len(old)) : u[Len(new) + i] = x[Len(old) + i]
  <2>1. MovedName(x, old, new, u)
    BY <1>2, <1>3, <1>4, ReparentAt
  <2>2. QED
    BY <2>1 DEF MovedName
<1>10. /\ w \in Seq(Comp)
       /\ Len(w) \in Nat /\ Len(m) \in Nat
       /\ Len(w) = Len(m) + (Len(u) - Len(v))
       /\ \A i \in 1..Len(m) : w[i] = m[i]
       /\ \A i \in 1..(Len(u) - Len(v)) : w[Len(m) + i] = u[Len(v) + i]
  <2>1. MovedName(u, v, m, w)
    BY <1>2, <1>5, <1>6, ReparentAt
  <2>2. QED
    BY <2>1 DEF MovedName
<1>11. /\ z \in Seq(Comp)
       /\ Len(z) \in Nat
       /\ Len(x) > Len(y)
       /\ Len(z) = Len(m) + (Len(x) - Len(y))
       /\ \A i \in 1..Len(m) : z[i] = m[i]
       /\ \A i \in 1..(Len(x) - Len(y)) : z[Len(m) + i] = x[Len(y) + i]
  <2>1. MovedName(x, y, m, z)
    BY <1>2, <1>7, ReparentAt
  <2>2. QED
    BY <2>1 DEF MovedName
<1>12. Len(u) - Len(v) = Len(x) - Len(y) /\ Len(w) = Len(z)
  BY <1>8, <1>9, <1>10, <1>11
<1>13. ASSUME NEW i \in 1..Len(w) PROVE Key(w[i]) = Key(z[i])
  <2>1. CASE i <= Len(m)
    <3>1. i \in 1..Len(m)
      BY <1>10, <2>1
    <3>2. QED
      BY <1>10, <1>11, <3>1
  <2>2. CASE i > Len(m)
    <3>1. PICK j \in 1..(Len(x) - Len(y)) : i = Len(m) + j
      <4>1. i - Len(m) \in 1..(Len(x) - Len(y)) /\ i = Len(m) + (i - Len(m))
        BY <1>8, <1>9, <1>10, <1>12, <2>2
      <4>2. QED
        BY <4>1
    <3>2. PICK k \in 1..(Len(x) - Len(old)) : k = (Len(y) - Len(old)) + j
      <4>1. (Len(y) - Len(old)) + j \in 1..(Len(x) - Len(old))
        BY <1>8, <1>9, <1>11
      <4>2. QED
        BY <4>1
    <3>3. Len(v) + j = Len(new) + k /\ Len(old) + k = Len(y) + j
      BY <1>8, <1>9, <3>1, <3>2
    <3>4. w[i] = u[Len(v) + j] /\ z[i] = x[Len(y) + j]
      BY <1>10, <1>11, <1>12, <3>1
    <3>5. u[Len(new) + k] = x[Len(old) + k]
      BY <1>9, <3>2
    <3>6. QED
      BY <3>3, <3>4, <3>5
  <2>3. QED
    BY <1>10, <2>1, <2>2
<1>14. Agree(w, z, Len(w))
  BY <1>13 DEF Agree
<1>15. Fold(w) = Fold(z)
  BY <1>10, <1>11, <1>12, <1>14, FoldIs
<1>16. QED
  BY <1>1, <1>4, <1>6, <1>7, <1>15

\* The deck a and those below it in T have moved together to their places in W,
\* and no other deck has.
Shifted(T, W, a) ==
    /\ DOMAIN T \subseteq DOMAIN W
    /\ W[a].name \in Name
    /\ \A e \in DOMAIN T : IsBelow(T[e].name, T[a].name) =>
          Fold(W[e].name) = Fold(reparent(T[e].name, T[a].name, W[a].name))
    /\ \A e \in DOMAIN T : e # a /\ ~IsBelow(T[e].name, T[a].name) => W[e] = T[e]

LEMMA NothingShifted ==
  ASSUME NEW T, Table(T), NEW a \in DOMAIN T
  PROVE  Shifted(T, T, a)
<1>1. PICK n : n = T[a].name
  OBVIOUS
<1>2. n \in Name /\ n \in Seq(Comp)
  BY <1>1, NameIs DEF Table
<1>3. ASSUME NEW e \in DOMAIN T, IsBelow(T[e].name, n)
      PROVE  Fold(T[e].name) = Fold(reparent(T[e].name, n, n))
  <2>1. T[e].name \in Name
    BY DEF Table
  <2>2. QED
    BY <1>2, <1>3, <2>1, ReparentSame
<1>4. QED
  BY <1>1, <1>2, <1>3 DEF Shifted

LEMMA MovedShifted ==
  ASSUME NEW T, Table(T), NEW a \in DOMAIN T, NEW n \in Name,
         NEW W, DOMAIN T \subseteq DOMAIN W, \A e \in DOMAIN T : W[e] = Moved(T, a, n)[e]
  PROVE  Shifted(T, W, a)
<1>1. PICK V : V = Moved(T, a, n)
  OBVIOUS
<1>2. PICK old : old = T[a].name
  OBVIOUS
<1>3. /\ V[a] = Deck(n, T[a].filtered)
      /\ \A e \in DOMAIN T : IsBelow(T[e].name, old) =>
            V[e] = Deck(reparent(T[e].name, old, n), T[e].filtered)
      /\ \A e \in DOMAIN T : e # a /\ ~IsBelow(T[e].name, old) => V[e] = T[e]
  BY <1>1, <1>2, MovedIs
<1>4. \A m, f : Deck(m, f).name = m
  BY DEF Deck
<1>5. \A e \in DOMAIN T : W[e] = V[e]
  BY <1>1
<1>6. W[a].name = n
  BY <1>3, <1>4, <1>5
<1>7. ASSUME NEW e \in DOMAIN T, IsBelow(T[e].name, old)
      PROVE  W[e].name = reparent(T[e].name, old, n)
  BY <1>3, <1>4, <1>5, <1>7
<1>8. \A e \in DOMAIN T : e # a /\ ~IsBelow(T[e].name, old) => W[e] = T[e]
  BY <1>3, <1>5
<1>9. QED
  BY <1>2, <1>6, <1>7, <1>8 DEF Shifted

\* A rename.
LEMMA UpdateShifts ==
  ASSUME NEW T, Table(T), NEW a \in DOMAIN T, NEW n \in Name, nextId \in Nat \ {0},
         NEW r, r = update_deck_inner(T, a, n), r.why = ""
  PROVE  Shifted(T, r.decks, a)
<1>1. PICK U : U = WithParents(T, a, n)
  OBVIOUS
<1>2. PICK m : m = Spelled(T, a, n)
  OBVIOUS
<1>3. Updates(T, a, n, U, m, r)
  BY <1>1, <1>2, UpdateIs
<1>4. m \in Name /\ Grown(T, U, m)
  BY <1>1, <1>2, PartsAre
<1>5. CASE Unique(T, a, n) = T[a].name
  <2>1. r = Ok(T)
    BY <1>3, <1>5 DEF Updates
  <2>2. r.decks = T
    BY ONLY <2>1, OkIs
  <2>3. QED
    BY <2>2, NothingShifted
<1>6. CASE Unique(T, a, n) # T[a].name
  <2>1. PICK V : V = Moved(U, a, m)
    OBVIOUS
  <2>2. r.decks = create_missing_parents(V, m) /\ Table(V)
    BY <1>3, <1>6, <2>1 DEF Updates
  <2>3. PICK W : W = r.decks
    OBVIOUS
  <2>4. Grown(V, W, m)
    BY <1>4, <2>2, <2>3, MissingParentsGrow
  <2>5. Table(U) /\ DOMAIN T \subseteq DOMAIN U /\ \A e \in DOMAIN T : U[e] = T[e]
    BY <1>4 DEF Grown
  <2>6. a \in DOMAIN U
    BY <2>5
  <2>7. DOMAIN V = DOMAIN U
    BY <1>4, <2>1, <2>5, <2>6, MovedIs
  <2>8. DOMAIN V \subseteq DOMAIN W /\ \A e \in DOMAIN V : W[e] = V[e]
    BY <2>4 DEF Grown
  <2>9. DOMAIN U \subseteq DOMAIN W /\ \A e \in DOMAIN U : W[e] = Moved(U, a, m)[e]
    BY <2>1, <2>7, <2>8
  <2>10. Shifted(U, W, a)
    BY <1>4, <2>5, <2>6, <2>9, MovedShifted
  <2>11. QED
    BY <2>3, <2>5, <2>10 DEF Shifted
<1>7. QED
  BY <1>5, <1>6

\* One drag: where the deck a lands, no deck was but a itself.
Landed(T, W, a, target) ==
    \/ W = T
    \/ /\ ~Stays(T, a, target)
       /\ get_deck_id(T, W[a].name) \subseteq {a}
       /\ Len(W[a].name) = Len(target) + 1
       /\ SubSeq(W[a].name, 1, Len(target)) = target
       /\ \A e \in DOMAIN T : IsBelow(T[e].name, T[a].name) =>
             W[e].name = reparent(T[e].name, T[a].name, W[a].name)
Dragged(T, W, a, target) ==
    /\ Table(W) /\ Whole(W) /\ Target(W, target) /\ DOMAIN W = DOMAIN T
    /\ Shifted(T, W, a)
    /\ Landed(T, W, a, target)

LEMMA DragShifts ==
  ASSUME NEW T, Table(T), Whole(T), NEW a \in DOMAIN T, NEW target \in Seq(Comp), Target(T, target),
         NEW r, r = reparent_one(T, a, target)
  PROVE  r.why = "" /\ Dragged(T, r.decks, a, target)
<1>1. PICK W : W = r.decks
  OBVIOUS
<1>2. PICK m : m = DraggedName(T, a, target)
  OBVIOUS
<1>3. /\ m \in Name /\ Len(m) = Len(target) + 1
      /\ SubSeq(m, 1, Len(target)) = target
      /\ get_deck_id(T, m) \subseteq {a}
  BY <1>2, DraggedNameIs
<1>4. r.why = "" /\ Whole(W) /\ Target(W, target)
  BY <1>1, ReparentOneKeeps
<1>5. Table(W) /\ DOMAIN W = DOMAIN T
  BY <1>1, <1>4, ReparentOneIs
<1>6. CASE Stays(T, a, target)
  <2>1. r = Ok(T)
    BY <1>6, ReparentOneIs
  <2>2. r.decks = T
    BY ONLY <2>1, OkIs
  <2>3. W = T
    BY <1>1, <2>2
  <2>4. QED
    BY <1>1, <1>4, <1>5, <2>3, NothingShifted DEF Dragged, Landed
<1>7. CASE ~Stays(T, a, target)
  <2>1. W = Moved(T, a, m)
    BY <1>1, <1>2, <1>4, <1>7, ReparentOneIs
  <2>2. /\ W[a] = Deck(m, T[a].filtered)
        /\ \A e \in DOMAIN T : IsBelow(T[e].name, T[a].name) =>
              W[e] = Deck(reparent(T[e].name, T[a].name, m), T[e].filtered)
    BY <1>3, <2>1, MovedIs
  <2>3. \A n, f : Deck(n, f).name = n
    BY DEF Deck
  <2>4. W[a].name = m
    BY <2>2, <2>3
  <2>5. \A e \in DOMAIN T : IsBelow(T[e].name, T[a].name) =>
           W[e].name = reparent(T[e].name, T[a].name, W[a].name)
    BY <2>2, <2>3, <2>4
  <2>6. Landed(T, W, a, target)
    BY <1>3, <1>7, <2>4, <2>5 DEF Landed
  <2>7. Shifted(T, W, a)
    BY <1>3, <1>5, <2>1, MovedShifted
  <2>8. QED
    BY <1>1, <1>4, <1>5, <2>6, <2>7 DEF Dragged
<1>8. QED
  BY <1>6, <1>7

\* A deck that a drag moves is not the target, nor above it.
LEMMA TargetNotBelow ==
  ASSUME NEW T, Table(T), Whole(T), NEW d \in DOMAIN T, NEW target \in Seq(Comp), Target(T, target),
         ~Stays(T, d, target)
  PROVE  Fold(target) # Fold(T[d].name) /\ ~IsBelow(target, T[d].name)
<1> DEFINE old == T[d].name
<1>1. old \in Name /\ old \in Seq(Comp) /\ Len(old) \in Nat /\ Len(old) >= 1 /\ Len(target) \in Nat
  BY NameIs DEF Table
<1>2. CASE target = <<>>
  <2>1. Len(target) = 0
    BY <1>2
  <2>2. Len(target) # Len(old) /\ ~(Len(target) > Len(old))
    BY <1>1, <2>1
  <2>3. QED
    BY <1>1, <2>2, FoldIs DEF IsBelow
<1>3. CASE target # <<>>
  <2>1. target \in Name
    BY <1>3 DEF Name, Comp
  <2>2. PICK t \in DOMAIN T : T[t].name = target /\ ~T[t].filtered
    BY <1>3 DEF Target
  <2>3. ~NoReparent(target, old)
    BY <1>3 DEF Stays
  <2>4. target # old
    <3>1. SUFFICES ASSUME old = target PROVE FALSE
      OBVIOUS
    <3>2. Len(target) \in 0..Len(target)
      BY <1>1
    <3>3. /\ SubSeq(target, 1, Len(target)) \in Seq(Comp)
          /\ Len(SubSeq(target, 1, Len(target))) = Len(target)
          /\ \A i \in 1..Len(target) : SubSeq(target, 1, Len(target))[i] = target[i]
      BY <3>2, PrefixIs
    <3>4. SubSeq(target, 1, Len(target)) = target
      BY <3>3, SeqEqual
    <3>5. Len(old) <= Len(target) /\ old = SubSeq(target, 1, Len(old))
      BY <1>1, <3>1, <3>4
    <3>6. QED
      BY <1>1, <2>1, <2>3, <3>5, StartsWithPrefix
  <2>5. Fold(target) # Fold(old)
    BY <2>2, <2>4 DEF Table
  <2>6. ~IsBelow(target, old)
    <3>1. SUFFICES ASSUME IsBelow(target, old) PROVE FALSE
      OBVIOUS
    <3>2. PICK p \in DOMAIN T : /\ T[p].name = SubSeq(target, 1, Len(old))
                                /\ Fold(T[p].name) = Fold(old)
      BY <1>1, <2>2, <3>1, AboveInWhole
    <3>3. p = d
      BY <3>2 DEF Table
    <3>4. old = SubSeq(target, 1, Len(old))
      BY <3>2, <3>3
    <3>5. Len(old) <= Len(target)
      BY <1>1, <3>1 DEF IsBelow
    <3>6. QED
      BY <1>1, <2>1, <2>3, <3>4, <3>5, StartsWithPrefix
  <2>7. QED
    BY <2>5, <2>6
<1>4. QED
  BY <1>2, <1>3

\* What is above a name is its parent, or above that one.
LEMMA AboveByParent ==
  ASSUME NEW n \in Name, NEW t \in Seq(Comp), Len(n) = Len(t) + 1, SubSeq(n, 1, Len(t)) = t,
         NEW p \in Seq(Comp), IsBelow(n, p)
  PROVE  Fold(t) = Fold(p) \/ IsBelow(t, p)
<1>1. n \in Seq(Comp) /\ Len(n) \in Nat /\ Len(t) \in Nat /\ Len(p) \in Nat
  BY NameIs
<1>2. Len(n) > Len(p) /\ Agree(n, p, Len(p))
  BY <1>1, BelowIs
<1>3. \A i \in 1..Len(t) : t[i] = n[i]
  <2>1. Len(t) \in 0..Len(n)
    BY <1>1
  <2>2. \A i \in 1..Len(t) : SubSeq(n, 1, Len(t))[i] = n[i]
    BY <1>1, <2>1, PrefixIs
  <2>3. QED
    BY <2>2
<1>4. Len(p) <= Len(t)
  BY <1>1, <1>2
<1>5. Agree(t, p, Len(p))
  <2>1. ASSUME NEW i \in 1..Len(p) PROVE Key(t[i]) = Key(p[i])
    <3>1. i \in 1..Len(t)
      BY <1>1, <1>4
    <3>2. QED
      BY <1>2, <1>3, <3>1 DEF Agree
  <2>2. QED
    BY <2>1 DEF Agree
<1>6. CASE Len(p) = Len(t)
  BY <1>5, <1>6, FoldIs
<1>7. CASE Len(p) < Len(t)
  <2>1. Len(t) > Len(p)
    BY <1>1, <1>7
  <2>2. QED
    BY <1>5, <2>1, BelowIs
<1>8. QED
  BY <1>1, <1>4, <1>6, <1>7

LEMMA BelowNotAbove ==
  ASSUME NEW m \in Seq(Comp), NEW n \in Seq(Comp), IsBelow(m, n)
  PROVE  ~IsBelow(n, m) /\ Fold(m) # Fold(n)
<1>1. Len(m) \in Nat /\ Len(n) \in Nat /\ Len(m) > Len(n)
  BY DEF IsBelow
<1>2. ~(Len(n) > Len(m)) /\ Len(m) # Len(n)
  BY <1>1
<1>3. QED
  BY <1>2, FoldIs DEF IsBelow

\* Nothing is below the free name a deck moves to, but what was below the deck.
LEMMA FreeIsBare ==
  ASSUME NEW T, Table(T), Whole(T), NEW a \in DOMAIN T, NEW m \in Name, get_deck_id(T, m) \subseteq {a},
         NEW e \in DOMAIN T, IsBelow(T[e].name, m)
  PROVE  IsBelow(T[e].name, T[a].name)
<1>1. PICK p \in DOMAIN T : Fold(T[p].name) = Fold(m)
  BY AboveInWhole
<1>2. p = a
  BY <1>1 DEF get_deck_id
<1>3. m \in Seq(Comp) /\ T[e].name \in Seq(Comp) /\ T[a].name \in Seq(Comp)
  BY NameIs DEF Table
<1>4. QED
  BY <1>1, <1>2, <1>3, BelowFold

\* The second drag of a selection: decks that did not follow b do not follow it
\* where the first drag has left them.
LEMMA OthersAreLeft ==
  ASSUME NEW T, Table(T), Whole(T), NEW a \in DOMAIN T, NEW b \in DOMAIN T, a # b,
         NEW target \in Seq(Comp), NEW U, Dragged(T, U, a, target), NEW W, Dragged(U, W, b, target),
         NEW e \in DOMAIN T, e # b, ~IsBelow(T[e].name, T[b].name)
  PROVE  W[e] = U[e]
<1>1. /\ Table(U) /\ Whole(U) /\ Target(U, target) /\ DOMAIN U = DOMAIN T
      /\ Shifted(T, U, a) /\ Landed(T, U, a, target) /\ Shifted(U, W, b) /\ Landed(U, W, b, target)
  BY DEF Dragged
<1>2. SUFFICES ASSUME W # U, IsBelow(U[e].name, U[b].name) PROVE FALSE
  BY <1>1 DEF Shifted
<1>3. ~Stays(U, b, target)
  BY <1>1, <1>2 DEF Landed
<1>4. U # T
  BY <1>2
<1>5. PICK m : m = U[a].name
  OBVIOUS
<1>6. /\ get_deck_id(T, m) \subseteq {a}
      /\ Len(m) = Len(target) + 1 /\ SubSeq(m, 1, Len(target)) = target
      /\ \A c \in DOMAIN T : IsBelow(T[c].name, T[a].name) => U[c].name = reparent(T[c].name, T[a].name, m)
  BY <1>1, <1>4, <1>5 DEF Landed
<1>7. \A c \in DOMAIN T : c # a /\ ~IsBelow(T[c].name, T[a].name) => U[c] = T[c]
  BY <1>1 DEF Shifted
<1>8. /\ \A c \in DOMAIN T : T[c].name \in Name /\ T[c].name \in Seq(Comp)
      /\ \A c \in DOMAIN T : U[c].name \in Name /\ U[c].name \in Seq(Comp)
      /\ m \in Name /\ m \in Seq(Comp)
  BY <1>1, <1>5, NameIs DEF Table
<1>9. \A c \in DOMAIN T : IsBelow(T[c].name, T[a].name) => IsBelow(U[c].name, m)
  BY <1>6, <1>8, ReparentBelow
<1>10. CASE ~IsBelow(T[b].name, T[a].name)
  <2>1. U[b] = T[b]
    BY <1>7, <1>10
  <2>2. e = a \/ IsBelow(T[e].name, T[a].name)
    BY <1>2, <1>7, <2>1
  <2>3. U[e].name = m \/ IsBelow(U[e].name, m)
    BY <1>5, <1>9, <2>2
  <2>4. IsBelow(m, U[b].name) \/ IsBelow(U[b].name, m) \/ Fold(m) = Fold(U[b].name)
    BY <1>2, <1>8, <2>3, Comparable
  <2>5. Fold(m) # Fold(U[b].name)
    BY <1>6, <2>1 DEF get_deck_id
  <2>6. ~IsBelow(U[b].name, m)
    BY <1>6, <1>8, <1>10, <2>1, FreeIsBare
  <2>7. ~IsBelow(m, U[b].name)
    <3>1. Fold(target) # Fold(U[b].name) /\ ~IsBelow(target, U[b].name)
      BY <1>1, <1>3, TargetNotBelow
    <3>2. QED
      BY <1>6, <1>8, <3>1, AboveByParent
  <2>8. QED
    BY <2>4, <2>5, <2>6, <2>7
<1>11. CASE IsBelow(T[b].name, T[a].name)
  <2>1. IsBelow(U[b].name, m)
    BY <1>9, <1>11
  <2>2. CASE e = a
    BY <1>2, <1>5, <1>8, <2>1, <2>2, BelowNotAbove
  <2>3. CASE IsBelow(T[e].name, T[a].name)
    <3>1. U[b].name = reparent(T[b].name, T[a].name, m) /\ U[e].name = reparent(T[e].name, T[a].name, m)
      BY <1>6, <1>11, <2>3
    <3>2. IsBelow(reparent(T[e].name, T[a].name, m), reparent(T[b].name, T[a].name, m))
             <=> IsBelow(T[e].name, T[b].name)
      BY <1>8, <1>11, <2>3, BelowTogether
    <3>3. QED
      BY <1>2, <3>1, <3>2
  <2>4. CASE e # a /\ ~IsBelow(T[e].name, T[a].name)
    <3>1. U[e] = T[e]
      BY <1>7, <2>4
    <3>2. IsBelow(T[e].name, m)
      BY <1>2, <1>8, <2>1, <3>1, BelowTransitive
    <3>3. QED
      BY <1>6, <1>8, <2>4, <3>2, FreeIsBare
  <2>5. QED
    BY <2>2, <2>3, <2>4
<1>12. QED
  BY <1>10, <1>11

\* ... and those that followed it do.
LEMMA FollowersFollow ==
  ASSUME NEW T, Table(T), Whole(T), NEW a \in DOMAIN T, NEW b \in DOMAIN T, a # b,
         ~IsBelow(T[a].name, T[b].name),
         NEW target \in Seq(Comp), NEW U, Dragged(T, U, a, target), NEW W, Dragged(U, W, b, target),
         NEW e \in DOMAIN T, IsBelow(T[e].name, T[b].name)
  PROVE  Fold(W[e].name) = Fold(reparent(T[e].name, T[b].name, W[b].name))
<1>1. /\ Table(U) /\ DOMAIN U = DOMAIN T
      /\ Shifted(T, U, a) /\ Landed(T, U, a, target) /\ Shifted(U, W, b)
  BY DEF Dragged
<1>2. /\ \A c \in DOMAIN T : T[c].name \in Name /\ T[c].name \in Seq(Comp)
      /\ \A c \in DOMAIN T : U[c].name \in Name /\ U[c].name \in Seq(Comp)
      /\ W[b].name \in Name
  BY <1>1, NameIs DEF Table, Shifted
<1>3. IsBelow(U[e].name, U[b].name) =>
        Fold(W[e].name) = Fold(reparent(U[e].name, U[b].name, W[b].name))
  BY <1>1 DEF Shifted
<1>4. CASE U[e] = T[e] /\ U[b] = T[b]
  BY <1>3, <1>4
<1>5. CASE ~IsBelow(T[b].name, T[a].name)
  <2>1. U[b] = T[b]
    BY <1>1, <1>5 DEF Shifted
  <2>2. ~IsBelow(T[e].name, T[a].name)
    <3>1. Fold(T[a].name) # Fold(T[b].name)
      BY DEF Table
    <3>2. QED
      BY <1>2, <1>5, <3>1, Comparable
  <2>3. U[e] = T[e]
    BY <1>1, <2>2 DEF Shifted
  <2>4. QED
    BY <1>4, <2>1, <2>3
<1>6. CASE IsBelow(T[b].name, T[a].name) /\ U # T
  <2>1. PICK m : m = U[a].name
    OBVIOUS
  <2>2. m \in Name
    BY <1>2, <2>1
  <2>3. IsBelow(T[e].name, T[a].name)
    BY <1>2, <1>6, BelowTransitive
  <2>4. U[b].name = reparent(T[b].name, T[a].name, m) /\ U[e].name = reparent(T[e].name, T[a].name, m)
    BY <1>1, <1>6, <2>1, <2>3 DEF Landed
  <2>5. IsBelow(reparent(T[e].name, T[a].name, m), reparent(T[b].name, T[a].name, m))
    BY <1>2, <1>6, <2>2, <2>3, BelowTogether
  <2>6. Fold(W[e].name) = Fold(reparent(U[e].name, U[b].name, W[b].name))
    BY <1>3, <2>4, <2>5
  <2>7. Fold(reparent(reparent(T[e].name, T[a].name, m), reparent(T[b].name, T[a].name, m), W[b].name))
          = Fold(reparent(T[e].name, T[b].name, W[b].name))
    BY <1>2, <1>6, <2>2, ReparentTwice
  <2>8. QED
    BY <2>4, <2>6, <2>7
<1>7. QED
  BY <1>4, <1>5, <1>6

(***************************************************************************)
(* Moves take the decks below along                                        *)
(***************************************************************************)

\* What MovesWhole(M) says of one deck, in the tables before and after.
LeaderIn(T, M, e) ==
    LET above == {m \in M : m = e \/ IsBelow(T[e].name, T[m].name)}
    IN  CHOOSE m \in above : \A o \in above : Len(T[o].name) <= Len(T[m].name)
Goes(T, W, M, e) ==
    IF ~\E m \in M : m = e \/ IsBelow(T[e].name, T[m].name) THEN W[e] = T[e]
    ELSE LET m == LeaderIn(T, M, e)
         IN  Fold(W[e].name) = Fold(reparent(T[e].name, T[m].name, W[m].name))
Carried(T, W, m, e) == Fold(W[e].name) = Fold(reparent(T[e].name, T[m].name, W[m].name))

LEMMA GoesIs ==
  ASSUME NEW M, \A e \in DOMAIN decks : Goes(decks, decks', M, e)
  PROVE  MovesWhole(M)
BY DEF MovesWhole, Goes, LeaderIn, Follows, Leader, reparent

\* The one above e that is below any other.
LEMMA LeaderIs ==
  ASSUME NEW T, Table(T), NEW M \in SUBSET DOMAIN T, NEW e, NEW m \in M, m = e \/ IsBelow(T[e].name, T[m].name),
         \A o \in M : o # m /\ (o = e \/ IsBelow(T[e].name, T[o].name)) => Len(T[o].name) < Len(T[m].name)
  PROVE  LeaderIn(T, M, e) = m
<1> DEFINE above == {o \in M : o = e \/ IsBelow(T[e].name, T[o].name)}
<1>1. \A o \in M : Len(T[o].name) \in Nat
  BY NameIs DEF Table
<1>2. m \in above
  OBVIOUS
<1>3. \A o \in above : Len(T[o].name) <= Len(T[m].name)
  BY <1>1
<1>4. \A p \in above : (\A o \in above : Len(T[o].name) <= Len(T[p].name)) => p = m
  <2>1. SUFFICES ASSUME NEW p \in above, \A o \in above : Len(T[o].name) <= Len(T[p].name), p # m
                 PROVE  FALSE
    OBVIOUS
  <2>2. Len(T[m].name) <= Len(T[p].name) /\ Len(T[p].name) < Len(T[m].name)
    BY <1>2, <2>1
  <2>3. p \in M
    OBVIOUS
  <2>4. QED
    BY <1>1, <2>2, <2>3
<1> HIDE DEF above
<1>5. (CHOOSE p \in above : \A o \in above : Len(T[o].name) <= Len(T[p].name)) = m
  BY <1>2, <1>3, <1>4
<1>6. QED
  BY <1>5 DEF LeaderIn, above

LEMMA LeaderOfOne ==
  ASSUME NEW T, Table(T), NEW a \in DOMAIN T, NEW e, e = a \/ IsBelow(T[e].name, T[a].name)
  PROVE  LeaderIn(T, {a}, e) = a
<1>1. {a} \in SUBSET DOMAIN T /\ a \in {a}
  OBVIOUS
<1>2. QED
  BY <1>1, LeaderIs

\* One deck is moved.
LEMMA OneGoes ==
  ASSUME NEW T, Table(T), NEW a \in DOMAIN T, NEW W, Shifted(T, W, a), NEW e \in DOMAIN T
  PROVE  Goes(T, W, {a}, e)
<1>1. CASE e = a \/ IsBelow(T[e].name, T[a].name)
  <2>1. LeaderIn(T, {a}, e) = a
    BY <1>1, LeaderOfOne
  <2>2. Carried(T, W, a, e)
    <3>1. CASE e = a
      <4>1. T[a].name \in Seq(Comp) /\ W[a].name \in Seq(Comp)
        BY NameIs DEF Table, Shifted
      <4>2. reparent(T[a].name, T[a].name, W[a].name) = W[a].name
        BY <4>1, ReparentItself
      <4>3. QED
        BY <3>1, <4>2 DEF Carried
    <3>2. CASE IsBelow(T[e].name, T[a].name)
      BY <3>2 DEF Shifted, Carried
    <3>3. QED
      BY <1>1, <3>1, <3>2
  <2>3. QED
    BY <1>1, <2>1, <2>2 DEF Goes, Carried
<1>2. CASE ~(e = a \/ IsBelow(T[e].name, T[a].name))
  BY <1>2 DEF Goes, Shifted
<1>3. QED
  BY <1>1, <1>2

\* Two decks are dragged, in the order of their names.
LEMMA TwoGo ==
  ASSUME NEW T, Table(T), Whole(T), NEW a \in DOMAIN T, NEW b \in DOMAIN T, a # b,
         ~IsBelow(T[a].name, T[b].name),
         NEW target \in Seq(Comp), NEW U, Dragged(T, U, a, target), NEW W, Dragged(U, W, b, target),
         NEW e \in DOMAIN T
  PROVE  Goes(T, W, {a, b}, e)
<1>1. Shifted(T, U, a) /\ Shifted(U, W, b) /\ W[b].name \in Name
  BY DEF Dragged, Shifted
<1>2. \A c \in DOMAIN T : T[c].name \in Name /\ T[c].name \in Seq(Comp)
  BY NameIs DEF Table
<1>3. CASE e = b \/ IsBelow(T[e].name, T[b].name)
  <2>1. e # a
    BY <1>3
  <2>2. IsBelow(T[e].name, T[a].name) => Len(T[a].name) < Len(T[b].name)
    <3>1. SUFFICES ASSUME IsBelow(T[e].name, T[a].name) PROVE IsBelow(T[b].name, T[a].name)
      BY <1>2, NameIs DEF IsBelow
    <3>2. Fold(T[a].name) # Fold(T[b].name)
      BY DEF Table
    <3>3. QED
      BY <1>2, <1>3, <3>1, <3>2, Comparable
  <2>3. \A o \in {a, b} : o # b /\ (o = e \/ IsBelow(T[e].name, T[o].name)) => Len(T[o].name) < Len(T[b].name)
    BY <2>1, <2>2
  <2>4. {a, b} \in SUBSET DOMAIN T /\ b \in {a, b}
    OBVIOUS
  <2>5. LeaderIn(T, {a, b}, e) = b
    BY <1>3, <2>3, <2>4, LeaderIs
  <2>6. Carried(T, W, b, e)
    <3>1. CASE e = b
      <4>1. T[b].name \in Seq(Comp) /\ W[b].name \in Seq(Comp)
        BY <1>1, <1>2, NameIs
      <4>2. reparent(T[b].name, T[b].name, W[b].name) = W[b].name
        BY <4>1, ReparentItself
      <4>3. QED
        BY <3>1, <4>2 DEF Carried
    <3>2. CASE IsBelow(T[e].name, T[b].name)
      BY <3>2, FollowersFollow DEF Carried
    <3>3. QED
      BY <1>3, <3>1, <3>2
  <2>7. QED
    BY <1>3, <2>5, <2>6 DEF Goes, Carried
<1>4. CASE ~(e = b \/ IsBelow(T[e].name, T[b].name))
  <2>1. W[e] = U[e] /\ W[a] = U[a]
    BY <1>4, OthersAreLeft
  <2>2. CASE e = a \/ IsBelow(T[e].name, T[a].name)
    <3>1. {a, b} \in SUBSET DOMAIN T /\ a \in {a, b}
      OBVIOUS
    <3>2. \A o \in {a, b} : o # a /\ (o = e \/ IsBelow(T[e].name, T[o].name)) => Len(T[o].name) < Len(T[a].name)
      BY <1>4
    <3>3. LeaderIn(T, {a, b}, e) = a
      BY <2>2, <3>1, <3>2, LeaderIs
    <3>4. Carried(T, U, a, e)
      <4>1. LeaderIn(T, {a}, e) = a
        BY <2>2, LeaderOfOne
      <4>2. Goes(T, U, {a}, e)
        BY <1>1, OneGoes
      <4>3. QED
        BY <2>2, <4>1, <4>2 DEF Goes, Carried
    <3>5. QED
      BY <2>1, <2>2, <3>3, <3>4 DEF Goes, Carried
  <2>3. CASE ~(e = a \/ IsBelow(T[e].name, T[a].name))
    <3>1. U[e] = T[e]
      BY <1>1, <2>3 DEF Shifted
    <3>2. QED
      BY <1>4, <2>1, <2>3, <3>1 DEF Goes
  <2>4. QED
    BY <2>2, <2>3
<1>5. QED
  BY <1>3, <1>4

\* A selection: one deck, or two of which the first is not below the second.
LEMMA SelectionsAre ==
  ASSUME Table(decks), NEW s \in Selections
  PROVE  \/ \E a \in DOMAIN decks : s = <<a>>
         \/ \E a, b \in DOMAIN decks : /\ s = <<a, b>> /\ a # b
                                       /\ ~IsBelow(decks[a].name, decks[b].name)
<1>1. CASE \E a \in DOMAIN decks : s = <<a>>
  BY <1>1
<1>2. CASE s \in (DOMAIN decks) \X (DOMAIN decks) /\ Before(decks[s[1]].name, decks[s[2]].name)
  <2>1. PICK a \in DOMAIN decks, b \in DOMAIN decks : s = <<a, b>>
    BY <1>2
  <2>2. PICK m \in Seq(Comp) : m = decks[a].name
    BY NameIs DEF Table
  <2>3. PICK n \in Seq(Comp) : n = decks[b].name
    BY NameIs DEF Table
  <2>4. Before(m, n)
    BY <1>2, <2>1, <2>2, <2>3
  <2>5. Sooner(m, n)
    BY <2>4, BeforeIs
  <2>6. a # b
    BY <2>2, <2>3, <2>5, SoonerNotSelf
  <2>7. ~IsBelow(m, n)
    <3>1. SUFFICES ASSUME IsBelow(m, n) PROVE FALSE
      OBVIOUS
    <3>2. Before(n, m)
      BY <3>1 DEF Before
    <3>3. Sooner(n, m)
      BY <3>2, BeforeIs
    <3>4. QED
      BY <2>5, <3>3, SoonerTransitive, SoonerNotSelf
  <2>8. QED
    BY <2>1, <2>2, <2>3, <2>6, <2>7
<1>3. QED
  BY <1>1, <1>2 DEF Selections

LEMMA PickedIs ==
  ASSUME NEW a, NEW b
  PROVE  ToSet(<<a>>) = {a} /\ ToSet(<<a, b>>) = {a, b}
<1>1. DOMAIN <<a>> = {1} /\ DOMAIN <<a, b>> = {1, 2}
  <2>1. 1..1 = {1} /\ 1..2 = {1, 2}
    OBVIOUS
  <2>2. QED
    BY <2>1
<1>2. <<a>>[1] = a /\ <<a, b>>[1] = a /\ <<a, b>>[2] = b
  OBVIOUS
<1>3. QED
  BY <1>1, <1>2 DEF ToSet

\* A drag of one deck, and of two.
LEMMA DragOfOne ==
  ASSUME NEW T, Table(T), Whole(T), NEW a \in DOMAIN T, NEW target \in Seq(Comp), Target(T, target),
         NEW r, r = reparent_decks_inner(T, <<a>>, target)
  PROVE  Dragged(T, r.decks, a, target)
<1>1. PICK s : s = <<a>>
  OBVIOUS
<1>2. Len(s) = 1 /\ s[1] = a
  BY <1>1
<1>3. /\ Dragging(T, s, target)[0] = Ok(T)
      /\ Dragging(T, s, target)[1] = DragOne(Dragging(T, s, target)[1 - 1], s[1], target)
  <2>1. Len(s) \in Nat /\ 1 \in 1..Len(s)
    BY <1>2
  <2>2. QED
    BY <2>1, DraggingDef
<1>4. r = DragOne(Ok(T), a, target)
  <2>1. r = Dragging(T, s, target)[1]
    BY <1>1, <1>2, TheyRecur
  <2>2. QED
    BY <1>2, <1>3, <2>1
<1>5. PICK p : p = Ok(T)
  OBVIOUS
<1>6. p.why = "" /\ p.decks = T
  BY ONLY <1>5, OkIs
<1>7. r = reparent_one(T, a, target)
  BY <1>4, <1>5, <1>6 DEF DragOne
<1>8. QED
  BY <1>7, DragShifts

LEMMA DragOfTwo ==
  ASSUME NEW T, Table(T), Whole(T), NEW a \in DOMAIN T, NEW b \in DOMAIN T,
         NEW target \in Seq(Comp), Target(T, target),
         NEW r, r = reparent_decks_inner(T, <<a, b>>, target)
  PROVE  \E U : Dragged(T, U, a, target) /\ Dragged(U, r.decks, b, target)
<1>1. PICK s : s = <<a, b>>
  OBVIOUS
<1>2. Len(s) = 2 /\ s[1] = a /\ s[2] = b
  BY <1>1
<1>3. PICK g : g = Dragging(T, s, target)
  OBVIOUS
<1>4. g[0] = Ok(T) /\ g[1] = DragOne(g[0], a, target) /\ g[2] = DragOne(g[1], b, target)
  <2>1. Len(s) \in Nat /\ 1 \in 1..Len(s) /\ 2 \in 1..Len(s)
    BY <1>2
  <2>2. g[0] = Ok(T) /\ g[1] = DragOne(g[1 - 1], s[1], target) /\ g[2] = DragOne(g[2 - 1], s[2], target)
    BY <1>3, <2>1, DraggingDef
  <2>3. 1 - 1 = 0 /\ 2 - 1 = 1
    OBVIOUS
  <2>4. QED
    BY <1>2, <2>2, <2>3
<1>5. r = g[2]
  <2>1. r = Dragging(T, s, target)[Len(s)]
    BY <1>1, TheyRecur
  <2>2. QED
    BY <1>2, <1>3, <2>1
<1>6. PICK p : p = Ok(T)
  OBVIOUS
<1>7. p.why = "" /\ p.decks = T
  BY ONLY <1>6, OkIs
<1>8. PICK q : q = g[1]
  OBVIOUS
<1>9. q = reparent_one(T, a, target)
  BY <1>4, <1>6, <1>7, <1>8 DEF DragOne
<1>10. q.why = "" /\ Dragged(T, q.decks, a, target)
  BY <1>9, DragShifts
<1>11. PICK U : U = q.decks
  OBVIOUS
<1>12. /\ Dragged(T, U, a, target) /\ b \in DOMAIN U
       /\ Table(U) /\ Whole(U) /\ Target(U, target)
  BY <1>10, <1>11 DEF Dragged
<1>13. r = reparent_one(U, b, target)
  BY <1>4, <1>5, <1>8, <1>10, <1>11, <1>12 DEF DragOne
<1>14. Dragged(U, r.decks, b, target)
  BY <1>12, <1>13, DragShifts
<1>15. QED
  BY <1>12, <1>14

\* A move.
MovedWell == last'[1] = "move" /\ failed' = "" /\ ~merged => MovesWhole(last'[2])

LEMMA RenamesGo ==
  ASSUME Inv, NEW d \in DOMAIN decks, NEW n \in InputNames, NEW C,
         Commit(update_deck_inner(decks, d, n), C), failed' = ""
  PROVE  MovesWhole({d})
<1>1. PICK r : r = update_deck_inner(decks, d, n)
  OBVIOUS
<1>2. r.why = "" /\ decks' = r.decks
  BY <1>1 DEF Commit
<1>3. n \in Name /\ Table(decks) /\ nextId \in Nat \ {0}
  BY DeckTreeAssumption, BeforeIt
<1>4. Shifted(decks, r.decks, d)
  BY <1>1, <1>2, <1>3, UpdateShifts
<1>5. \A e \in DOMAIN decks : Goes(decks, r.decks, {d}, e)
  BY <1>3, <1>4, OneGoes
<1>6. QED
  BY <1>2, <1>5, GoesIs

LEMMA DragsGo ==
  ASSUME Inv, ~merged, NEW s \in Selections, NEW target, reparent_decks(s, target), failed' = ""
  PROVE  MovesWhole(ToSet(s))
<1> DEFINE top == target \notin DOMAIN decks
           name == IF top THEN <<>> ELSE decks[target].name
<1>1. Table(decks) /\ Whole(decks)
  BY BeforeIt
<1>2. PICK r : r = reparent_decks_inner(decks, s, name)
  OBVIOUS
<1>3. PICK q : q = IF ~top /\ decks[target].filtered THEN Error("filtered_parent") ELSE r
  OBVIOUS
<1>4. Commit(q, cards)
  BY <1>2, <1>3 DEF reparent_decks
<1>5. q.why = "" /\ decks' = q.decks
  BY <1>4 DEF Commit
<1>6. ~(~top /\ decks[target].filtered)
  <2>1. SUFFICES ASSUME ~top /\ decks[target].filtered PROVE FALSE
    OBVIOUS
  <2>2. q = Error("filtered_parent")
    BY <1>3, <2>1
  <2>3. q.why = "filtered_parent"
    BY ONLY <2>2, ErrorIs
  <2>4. QED
    BY <1>5, <2>3
<1>7. decks' = r.decks
  BY <1>3, <1>5, <1>6
<1>8. name \in Seq(Comp)
  <2>1. <<>> \in Seq(Comp)
    BY EmptySeq
  <2>2. ~top => decks[target].name \in Seq(Comp)
    BY <1>1, NameIs DEF Table
  <2>3. QED
    BY <2>1, <2>2
<1>9. Target(decks, name)
  BY <1>6 DEF Target
<1> HIDE DEF name
<1>10. \A e \in DOMAIN decks : Goes(decks, r.decks, ToSet(s), e)
  <2>1. CASE \E a \in DOMAIN decks : s = <<a>>
    <3>1. PICK a \in DOMAIN decks : s = <<a>>
      BY <2>1
    <3>2. ToSet(s) = {a}
      BY <3>1, PickedIs
    <3>3. Dragged(decks, r.decks, a, name)
      BY <1>1, <1>2, <1>8, <1>9, <3>1, DragOfOne
    <3>4. Shifted(decks, r.decks, a)
      BY <3>3 DEF Dragged
    <3>5. QED
      BY <1>1, <3>2, <3>4, OneGoes
  <2>2. CASE \E a, b \in DOMAIN decks : s = <<a, b>> /\ a # b /\ ~IsBelow(decks[a].name, decks[b].name)
    <3>1. PICK a \in DOMAIN decks, b \in DOMAIN decks :
            s = <<a, b>> /\ a # b /\ ~IsBelow(decks[a].name, decks[b].name)
      BY <2>2
    <3>2. ToSet(s) = {a, b}
      BY <3>1, PickedIs
    <3>3. PICK U : Dragged(decks, U, a, name) /\ Dragged(U, r.decks, b, name)
      BY <1>1, <1>2, <1>8, <1>9, <3>1, DragOfTwo
    <3>4. ASSUME NEW e \in DOMAIN decks PROVE Goes(decks, r.decks, {a, b}, e)
      BY <1>1, <1>8, <3>1, <3>3, TwoGo
    <3>5. QED
      BY <3>2, <3>4
  <2>3. QED
    BY <1>1, <2>1, <2>2, SelectionsAre
<1>11. QED
  BY <1>7, <1>10, GoesIs

LEMMA StepsMoveWell ==
  ASSUME Inv, Next
  PROVE  MovedWell
<1>1. SUFFICES ASSUME last'[1] = "move", failed' = "", ~merged PROVE MovesWhole(last'[2])
  BY DEF MovedWell
<1>2. Moves(last'[2])
  BY <1>1, StepsAre
<1>3. PICK dids : dids = last'[2]
  OBVIOUS
<1>4. ASSUME NEW d \in DOMAIN decks, NEW n \in InputNames, dids = {d}, rename_deck(d, n)
      PROVE  MovesWhole(dids)
  BY <1>1, <1>4, RenamesGo DEF rename_deck
<1>5. ASSUME NEW d \in DOMAIN decks, NEW n \in InputNames, NEW found \in SUBSET Cards,
             dids = {d}, update_filtered_deck(d, n, found)
      PROVE  MovesWhole(dids)
  BY <1>1, <1>5, RenamesGo DEF update_filtered_deck
<1>6. ASSUME NEW s \in Selections, NEW target \in DOMAIN decks \cup {0},
             dids = ToSet(s), reparent_decks(s, target)
      PROVE  MovesWhole(dids)
  BY <1>1, <1>6, DragsGo
<1>7. QED
  BY <1>2, <1>3, <1>4, <1>5, <1>6 DEF Moves

\* rename_deck(), reparent_decks(): until a sync brings in decks, a move takes the
\* decks below along and leaves every other deck where it is.
THEOREM MovesTakeDecksBelow == Spec => MovesTakeTheSubtree
<1>1. Inv /\ [Next]_vars => [MovedWell]_vars
  BY StepsMoveWell
<1>2. QED
  BY <1>1, InvHolds, PTL DEF Spec, MovesTakeTheSubtree, MovedWell

===============================================================================

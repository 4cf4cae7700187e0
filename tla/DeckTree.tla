------------------------------ MODULE DeckTree ------------------------------
(***************************************************************************)
(* The deck tree (rslib/src/decks), the cards in it, filtered decks, the   *)
(* decks a sync brings in, and the repairs of the database check.          *)
(*                                                                         *)
(* The tree is only in the names: "foo::bar" is below "foo" because its    *)
(* name says so, and every operation that moves a deck has to rewrite the  *)
(* names of the decks below it and to add the parents its new name needs.  *)
(* Names compare without regard to case, and a unique index refuses an     *)
(* update that would give two decks one name: the operation is rolled back *)
(* as a whole.                                                             *)
(*                                                                         *)
(* A name is the sequence of its components; a component is a text, the    *)
(* number of "+" the code has appended to it, and whether it is written    *)
(* with a capital.  Texts are numbers, in their alphabetical order; none   *)
(* is a prefix of another.                                                 *)
(***************************************************************************)
EXTENDS Integers, SequencesExt

CONSTANTS Cards,        \* the cards, all in the last of the decks at first
          InitNames,    \* the names of the decks there are at first
          InputNames,   \* the names a user types and a sync brings
          MaxDecks,     \* bound: deck ids ever given out
          MaxOps,       \* bound: operations, merges included
          MaxMerges     \* bound: decks changed or removed by a sync

Name == Seq(Nat \X Nat \X BOOLEAN) \ {<<>>}

ASSUME DeckTreeAssumption ==
    /\ {MaxDecks, MaxOps, MaxMerges} \subseteq Nat
    /\ InputNames \subseteq Name
    /\ InitNames \in Seq(Name) \ {<<>>}

VARIABLES decks,    \* id -> [name, filtered]
          nextId,   \* ids are time stamps: never given out twice
          cards,    \* card -> [did, odid], both 0 when the card is gone
          failed,   \* why the last operation was rolled back, or ""
          last,     \* the last operation and the decks it named (history)
          merged,   \* a sync has changed decks (history)
          ops, merges

vars == <<decks, nextId, cards, failed, last, merged, ops, merges>>

-----------------------------------------------------------------------------
(* Names *)

Default == <<<<0, 0, TRUE>>>>
Recovered(did) == <<<<100 + did, 0, FALSE>>>>

Fold(n) == [i \in DOMAIN n |-> <<n[i][1], n[i][2]>>]
IsBelow(n, p) == Len(n) > Len(p) /\ Fold(SubSeq(n, 1, Len(p))) = Fold(p)

Before(m, n) ==
    LET a == Fold(m)
        b == Fold(n)
        same(k) == SubSeq(a, 1, k) = SubSeq(b, 1, k)
    IN  \/ IsBelow(n, m)
        \/ \E k \in 1..Min({Len(a), Len(b)}) :
              /\ same(k - 1)
              /\ \/ a[k][1] < b[k][1]
                 \/ a[k][1] = b[k][1] /\ a[k][2] < b[k][2]

get_deck_id(T, n) == {d \in DOMAIN T : Fold(T[d].name) = Fold(n)}
\* In the order of their names: the i-th comes after i - 1 others.
sorted(T, ids) ==
    [i \in 1..Cardinality(ids) |->
        CHOOSE d \in ids :
            Cardinality({e \in ids : Before(T[e].name, T[d].name)}) = i - 1]
child_decks(T, n) == sorted(T, {d \in DOMAIN T : IsBelow(T[d].name, n)})

add_suffix(n, k) == [n EXCEPT ![Len(n)][2] = @ + k]
ensure_deck_name_unique(T, d, n) ==
    LET free(k) == get_deck_id(T, add_suffix(n, k)) \subseteq {d}
    IN  add_suffix(n, Min({k \in 0..Cardinality(DOMAIN T) : free(k)}))

\* The parents of n that exist, by the length of their names.
ExistingParents(T, n) ==
    {k \in 1..(Len(n) - 1) : get_deck_id(T, SubSeq(n, 1, k)) # {}}

Deck(n, filtered) == [name |-> n, filtered |-> filtered]
\* Seeded fault: ids are given out by counting the decks.
FreshCounted(T) == Cardinality(DOMAIN T) + 1
Fresh(T) == Max({nextId} \cup {d + 1 : d \in DOMAIN T})
Put(T, d, deck) == [e \in DOMAIN T \cup {d} |-> IF e = d THEN deck ELSE T[e]]

\* From the deepest parent up: the order in which ids are given out.
create_missing_parents(T, n) ==
    LET missing == 1..(Len(n) - 1) \ ExistingParents(T, n)
        id(k) == Fresh(T) + Cardinality({j \in missing : j > k})
        parent(d) == SubSeq(n, 1, CHOOSE k \in missing : id(k) = d)
    IN  [d \in DOMAIN T \cup {id(k) : k \in missing} |->
            IF d \in DOMAIN T THEN T[d] ELSE Deck(parent(d), FALSE)]

-----------------------------------------------------------------------------
(* The steps of the operations.  A result is the table, or why it failed.  *)

Ok(T) == [why |-> "", decks |-> T]
Error(why) == [why |-> why, decks |-> <<>>]

\* match_or_create_parents(): the name in the spelling of the parents that
\* exist, and the table with the others added.
first_existing_parent(T, n) ==
    LET k == Max(ExistingParents(T, n))
    IN  T[CHOOSE d \in get_deck_id(T, SubSeq(n, 1, k)) : TRUE]
MustBeLeafNode(T, n) ==
    ExistingParents(T, n) # {} /\ first_existing_parent(T, n).filtered
MatchedName(T, n) ==
    IF ExistingParents(T, n) = {} THEN n
    ELSE LET p == first_existing_parent(T, n).name
         IN  p \o SubSeq(n, Len(p) + 1, Len(n))

MatchedTable(T, n) ==
    IF Len(n) - 1 \in ExistingParents(T, n) THEN T
    ELSE create_missing_parents(T, MatchedName(T, n))

\* The unique index on the names refuses a second deck of one name.
update_deck(T, d, n) ==
    IF get_deck_id(T, n) \subseteq {d}
    THEN Ok([T EXCEPT ![d].name = n])
    ELSE Error("name_clash")

\* Seeded fault: as many components are dropped as the new name has.
reparent_by_new(n, old, new) == new \o SubSeq(n, Len(new) + 1, Len(n))
reparent(n, old, new) == new \o SubSeq(n, Len(old) + 1, Len(n))

\* The children are read first and renamed one by one, in their old order.
rename_child_decks(T, old, new) ==
    LET children == child_decks(T, old)
        name(d) == reparent(T[d].name, old, new)
        renamed(i) == [d \in DOMAIN T |->
                          IF \E j \in 1..i : children[j] = d
                          THEN [T[d] EXCEPT !.name = name(d)] ELSE T[d]]
        updated(i) == update_deck(renamed(i - 1), children[i], name(children[i]))
    IN  IF \A i \in DOMAIN children : updated(i).why = ""
        THEN Ok(renamed(Len(children))) ELSE Error("name_clash")

\* The decks below d move along with it.
rename_with_children(T, d, n) ==
    LET children == rename_child_decks(T, T[d].name, n)
    IN  IF children.why = "" THEN update_deck(children.decks, d, n) ELSE children

add_deck_inner(T, n, filtered) ==
    LET unique == ensure_deck_name_unique(T, 0, n)
        U == MatchedTable(T, unique)
    IN  IF MustBeLeafNode(T, unique) THEN Error("filtered_parent")
        ELSE Ok(Put(U, Fresh(U), Deck(MatchedName(T, unique), filtered)))

\* Seeded fault: the parents of the new name are not created again at the end.
UpdateWithoutGrandparents(T, d, n) ==
    LET unique == ensure_deck_name_unique(T, d, n)
    IN  IF unique = T[d].name THEN Ok(T)
        ELSE IF MustBeLeafNode(T, unique) THEN Error("filtered_parent")
        ELSE rename_with_children(MatchedTable(T, unique), d, MatchedName(T, unique))

\* Parents are created before the children move, and again after it: a deck
\* renamed to a place below itself has by then left its old name.
update_deck_inner(T, d, n) ==
    LET unique == ensure_deck_name_unique(T, d, n)
        name == MatchedName(T, unique)
        renamed == rename_with_children(MatchedTable(T, unique), d, name)
    IN  IF unique = T[d].name THEN Ok(T)
        ELSE IF MustBeLeafNode(T, unique) THEN Error("filtered_parent")
        ELSE IF renamed.why # "" THEN renamed
        ELSE Ok(create_missing_parents(renamed.decks, name))

\* The new name of a deck dropped on another, or at the top level.  Names are
\* compared as plain strings: a drop on a deck whose name starts with the
\* dragged deck's, under the same root, is taken for a drop on itself or below.
StartsWith(n, p) ==
    LET k == Len(p)
    IN  /\ Len(n) >= k
        /\ SubSeq(n, 1, k - 1) = SubSeq(p, 1, k - 1)
        /\ n[k][1] = p[k][1] /\ n[k][3] = p[k][3]
        /\ n[k][2] >= p[k][2]
NoReparent(n, target) == StartsWith(n, target) /\ target[1] = n[1]
reparented_name(n, target) == Append(target, Last(n))

reparent_one(T, d, target) ==
    LET old == T[d].name
        new == reparented_name(old, target)
    IN  IF (target # <<>> /\ NoReparent(target, old)) \/ new = old THEN Ok(T)
        ELSE rename_with_children(T, d, ensure_deck_name_unique(T, d, new))

\* The target's name is read once, the dragged decks one after the other.
reparent_decks_inner(T, dids, target) ==
    LET dragged[i \in 0..Len(dids)] ==
            IF i = 0 THEN Ok(T)
            ELSE IF /\ dragged[i - 1].why = ""
                    /\ dids[i] \in DOMAIN dragged[i - 1].decks
            THEN reparent_one(dragged[i - 1].decks, dids[i], target)
            ELSE dragged[i - 1]
    IN  dragged[Len(dids)]

-----------------------------------------------------------------------------
(* Cards *)

NoCard == [did |-> 0, odid |-> 0]
\* Seeded fault: the cards the deck has lent to a filtered deck are forgotten.
CardsInDeckOnly(C, d) == {c \in Cards : C[c].did = d}

all_cards_in_single_deck(C, d) == {c \in Cards : d \in {C[c].did, C[c].odid}}
ReturnHome(C, set) ==
    [c \in Cards |-> IF c \in set /\ C[c].odid # 0
                     THEN [did |-> C[c].odid, odid |-> 0] ELSE C[c]]
\* The cards are in no filtered deck, so that the test for a due date left over
\* from an earlier one does not stop them.
MoveInto(C, set, d) ==
    [c \in Cards |-> IF c \in set THEN [did |-> d, odid |-> C[c].did] ELSE C[c]]

\* A removal works on the table and the cards together.
remove_single_deck(s, d) ==
    LET there == all_cards_in_single_deck(s.cards, d)
    IN  [decks |-> IF d = 1
                   THEN [s.decks EXCEPT ![1].name =
                            ensure_deck_name_unique(s.decks, 1, Default)]
                   ELSE [e \in DOMAIN s.decks \ {d} |-> s.decks[e]],
         cards |-> IF s.decks[d].filtered
                   THEN ReturnHome(s.cards, there)
                   ELSE [c \in Cards |->
                            IF c \in there THEN NoCard ELSE s.cards[c]]]

remove_each(s, dids) ==
    LET removed[i \in 0..Len(dids)] ==
            IF i = 0 THEN s ELSE remove_single_deck(removed[i - 1], dids[i])
    IN  removed[Len(dids)]

\* The children are listed before the deck above them goes.
remove_with_children(s, d) ==
    remove_each(s, <<d>> \o child_decks(s.decks, s.decks[d].name))
remove_decks_and_child_decks(dids) ==
    LET removed[i \in 0..Len(dids)] ==
            IF i = 0 THEN [decks |-> decks, cards |-> cards]
            ELSE IF dids[i] \in DOMAIN removed[i - 1].decks
            THEN remove_with_children(removed[i - 1], dids[i])
            ELSE removed[i - 1]
    IN  removed[Len(dids)]

\* Rebuilding returns the deck's cards first, then takes the cards the search
\* finds, of those in no filtered deck.
Searchable(C, d) ==
    {c \in Cards : LET home == ReturnHome(C, all_cards_in_single_deck(C, d))
                   IN  home[c].did # 0 /\ home[c].odid = 0}
rebuild_filtered_deck_inner(C, d, found) ==
    MoveInto(ReturnHome(C, all_cards_in_single_deck(C, d)), found, d)

-----------------------------------------------------------------------------
(* The database check *)

\* In any order: the names of two recovered decks differ.
recover_missing_decks(T, C) ==
    LET missing == {C[c].did : c \in Cards} \ ({0} \cup DOMAIN T)
    IN  [d \in DOMAIN T \cup missing |->
            IF d \in DOMAIN T THEN T[d]
            ELSE Deck(ensure_deck_name_unique(T, d, Recovered(d)), FALSE)]

check_filtered_cards(T, C) ==
    [c \in Cards |-> IF C[c].odid # 0 /\ ~T[C[c].did].filtered
                     THEN [C[c] EXCEPT !.odid = 0] ELSE C[c]]

\* An immediate parent that is missing is added like any normal deck.
get_or_create_normal_deck(T, n) ==
    IF get_deck_id(T, n) # {} THEN Ok(T) ELSE add_deck_inner(T, n, FALSE)
\* Seeded fault: only parents at the top level are looked for.
TopNameOnly(r, n) ==
    IF r.why # "" \/ Len(n) # 2 THEN r ELSE get_or_create_normal_deck(r.decks, Front(n))
add_missing_name(r, n) ==
    IF r.why # "" \/ Len(n) = 1 THEN r ELSE get_or_create_normal_deck(r.decks, Front(n))

add_missing_deck_names(T) ==
    LET order == sorted(T, DOMAIN T)
        added[i \in 0..Len(order)] ==
            IF i = 0 THEN Ok(T) ELSE add_missing_name(added[i - 1], T[order[i]].name)
    IN  added[Len(order)]

-----------------------------------------------------------------------------
(* Operations.  An error rolls the whole operation back. *)

\* The result of an operation on the names, with the cards it leaves.
Commit(r, C) ==
    /\ r.why = "" => \A d \in DOMAIN r.decks : d <= MaxDecks
    /\ failed' = r.why
    /\ decks' = IF r.why = "" THEN r.decks ELSE decks
    /\ cards' = IF r.why = "" THEN C ELSE cards
    /\ nextId' = Fresh(decks')

Local(op, dids) ==
    /\ ops < MaxOps /\ ops' = ops + 1
    /\ last' = <<op, dids>>
    /\ UNCHANGED <<merged, merges>>

get_or_create(n) ==
    /\ Local("other", {})
    /\ Commit(get_or_create_normal_deck(decks, n), cards)

rename_deck(d, n) ==
    /\ Local("move", {d})
    /\ Commit(update_deck_inner(decks, d, n), cards)

reparent_decks(dids, target) ==
    /\ Local("move", ToSet(dids))
    /\ LET top == target \notin DOMAIN decks
           r == reparent_decks_inner(decks, dids,
                                     IF top THEN <<>> ELSE decks[target].name)
       IN  Commit(IF ~top /\ decks[target].filtered
                  THEN Error("filtered_parent") ELSE r, cards)

remove_decks(dids) ==
    /\ Local("remove", ToSet(dids))
    /\ LET r == remove_decks_and_child_decks(dids)
       IN  Commit(Ok(r.decks), r.cards)

\* set_deck() refuses a filtered deck and takes the card out of one.
set_deck(c, d) ==
    /\ Local("other", {})
    /\ cards[c].did \notin {0, d}
    /\ Commit(IF decks[d].filtered THEN Error("filtered") ELSE Ok(decks),
              [cards EXCEPT ![c] = [did |-> d, odid |-> 0]])

\* A new filtered deck: added and built as one.  A search that finds nothing
\* rolls everything back, and is left out.
add_filtered_deck(n, found) ==
    /\ Local("other", {})
    /\ found # {} /\ found \subseteq Searchable(cards, 0)
    /\ LET r == add_deck_inner(decks, n, TRUE)
           d == Max(DOMAIN r.decks)
       IN  Commit(r, rebuild_filtered_deck_inner(cards, d, found))

update_filtered_deck(d, n, found) ==
    /\ Local("move", {d})
    /\ decks[d].filtered
    /\ found # {} /\ found \subseteq Searchable(cards, d)
    /\ Commit(update_deck_inner(decks, d, n),
              rebuild_filtered_deck_inner(cards, d, found))

rebuild_filtered_deck(d, found) ==
    /\ Local("other", {})
    /\ decks[d].filtered
    /\ found \subseteq Searchable(cards, d)
    /\ Commit(Ok(decks), rebuild_filtered_deck_inner(cards, d, found))

empty_filtered_deck(d) ==
    /\ Local("other", {})
    /\ decks[d].filtered
    /\ Commit(Ok(decks), ReturnHome(cards, all_cards_in_single_deck(cards, d)))

check_database ==
    /\ Local("check", {})
    /\ LET T == recover_missing_decks(decks, cards)
       IN  Commit(add_missing_deck_names(T), check_filtered_cards(T, cards))

Merging ==
    /\ merges < MaxMerges /\ merges' = merges + 1
    /\ ops < MaxOps /\ ops' = ops + 1
    /\ merged' = TRUE
    /\ last' = <<"merge", {}>>

\* What a sync brings: a deck newer than ours, with neither its parents nor
\* its children looked at, ...
merge_deck(d, n, filtered) ==
    /\ Merging
    /\ d \in DOMAIN decks => decks[d].filtered = filtered
    /\ Commit(Ok(Put(decks, d,
                     Deck(ensure_deck_name_unique(decks, d, n), filtered))),
              cards)

\* ... or a deck removed elsewhere, with the cards the other side knew in it.
apply_grave(d, gone) ==
    /\ Merging
    /\ d # 1
    /\ gone \subseteq all_cards_in_single_deck(cards, d)
    /\ Commit(Ok([e \in DOMAIN decks \ {d} |-> decks[e]]),
              [c \in Cards |-> IF c \in gone THEN NoCard ELSE cards[c]])

-----------------------------------------------------------------------------

\* The tree is whole at first, and its names are told apart.
ASSUME InitNamesAssumption ==
    /\ \A d, e \in DOMAIN InitNames : Fold(InitNames[d]) = Fold(InitNames[e]) => d = e
    /\ \A d \in DOMAIN InitNames :
          Len(InitNames[d]) > 1 =>
              \E e \in DOMAIN InitNames : InitNames[e] = Front(InitNames[d])

Init ==
    /\ decks = [d \in DOMAIN InitNames |-> Deck(InitNames[d], FALSE)]
    /\ nextId = Len(InitNames) + 1
    /\ cards = [c \in Cards |-> [did |-> Len(InitNames), odid |-> 0]]
    /\ failed = "" /\ last = <<"", {}>>
    /\ merged = FALSE
    /\ ops = 0 /\ merges = 0

\* The decks picked in the list: one, or two in the order of the list.
Selections == {<<d>> : d \in DOMAIN decks} \cup
              {s \in (DOMAIN decks) \X (DOMAIN decks) :
                  Before(decks[s[1]].name, decks[s[2]].name)}

Next ==
    \/ \E n \in InputNames : get_or_create(n)
    \/ \E n \in InputNames, found \in SUBSET Cards : add_filtered_deck(n, found)
    \/ \E d \in DOMAIN decks :
          \/ \E n \in InputNames : rename_deck(d, n)
          \/ \E c \in Cards : set_deck(c, d)
          \/ \E found \in SUBSET Cards :
                \/ rebuild_filtered_deck(d, found)
                \/ apply_grave(d, found)
                \/ \E n \in InputNames : update_filtered_deck(d, n, found)
          \/ empty_filtered_deck(d)
    \/ \E dids \in Selections :
          \/ \E target \in DOMAIN decks \cup {0} : reparent_decks(dids, target)
          \/ remove_decks(dids)
    \/ \E d \in DOMAIN decks \cup {nextId}, n \in InputNames, f \in BOOLEAN :
          merge_deck(d, n, f)
    \/ check_database

Spec == Init /\ [][Next]_vars

-----------------------------------------------------------------------------
(* Properties *)

\* Types.
TypeOK ==
    /\ \A d \in DOMAIN decks :
          /\ decks[d].name \in Seq(Nat \X Nat \X BOOLEAN) \ {<<>>}
          /\ decks[d].filtered \in BOOLEAN
    /\ DOMAIN decks \subseteq 1..(nextId - 1)
    /\ cards \in [Cards -> [did : 0..nextId, odid : 0..nextId]]
    /\ failed \in {"", "filtered", "filtered_parent", "name_clash"}
    /\ last \in {"", "move", "remove", "check", "merge", "other"} \X
               SUBSET (1..nextId)
    /\ merged \in BOOLEAN /\ ops \in 0..MaxOps /\ merges \in 0..MaxMerges

\* Until a sync brings in decks, the names form a tree however decks are added,
\* renamed, dragged and removed: every deck has its parent, in the same
\* spelling, and a filtered deck has no deck below it.
TreeIsWhole ==
    ~merged => \A d \in DOMAIN decks :
        LET n == decks[d].name
        IN  Len(n) > 1 => \E p \in DOMAIN decks :
                              decks[p].name = Front(n) /\ ~decks[p].filtered

\* In a tree that is whole the unique index never refuses a name: appending
\* "+" to the moved deck is enough for the decks that move along with it.
RenamesNeverClash == ~merged => failed # "name_clash"

\* The names hold together through every operation on them.
NamesHold == TreeIsWhole /\ RenamesNeverClash

\* The decks a rename or a drag names, and the one of them that e moves with.
Leader(M, e) ==
    LET above == {m \in M : m = e \/ IsBelow(decks[e].name, decks[m].name)}
    IN  CHOOSE m \in above : \A o \in above : Len(decks[o].name) <= Len(decks[m].name)
Follows(M, e) == \E m \in M : m = e \/ IsBelow(decks[e].name, decks[m].name)
MovesWhole(M) ==
    \A e \in DOMAIN decks :
        IF ~Follows(M, e) THEN decks'[e] = decks[e]
        ELSE LET m == Leader(M, e)
             IN  Fold(decks'[e].name) =
                 Fold(decks'[m].name \o
                      SubSeq(decks[e].name, Len(decks[m].name) + 1,
                             Len(decks[e].name)))

\* Until a sync brings in decks, a rename or a drag takes the decks below along,
\* with their own places under it, and leaves every other deck where it is.
MovesTakeTheSubtree ==
    [][last'[1] = "move" /\ failed' = "" /\ ~merged => MovesWhole(last'[2])]_vars

\* A card goes only with the deck it belongs to: its own, or, for a card lent to
\* a filtered deck, the one it would return to.
CardsGoWithTheirDeck ==
    [][\A c \in Cards : ~merged' /\ cards[c] # NoCard =>
        LET k == cards[c]
            home == IF k.odid # 0 THEN k.odid ELSE k.did
        IN  cards'[c] = NoCard <=> last'[1] = "remove" /\ Follows(last'[2], home)]_vars

\* After a database check that succeeds, every deck has its parent and every
\* card a deck, whatever a sync left.
CheckRepairs ==
    [][last'[1] = "check" /\ failed' = "" =>
        /\ \A d \in DOMAIN decks' :
              Len(decks'[d].name) > 1 =>
                  get_deck_id(decks', Front(decks'[d].name)) # {}
        /\ \A c \in Cards : cards'[c].did \in {0} \cup DOMAIN decks']_vars

\* What a rename adds are parents of the deck's new name.
\* (decks/addupdate.rs: "May add parents, or rename children as required.")
RenameAddsOnlyParents ==
    [][last'[1] = "move" =>
        \A e \in DOMAIN decks' \ DOMAIN decks : \E d \in last'[2] :
            IsBelow(decks'[d].name, decks'[e].name)]_vars

\* A deck dropped on another that is not below it ends up below that one.
\* (decks/name.rs: "names that are prefixes of the target are handled correctly")
DropsLandOnTheTarget ==
    [][\A d, t \in DOMAIN decks :
        /\ reparent_decks(<<d>>, t) /\ failed' = ""
        /\ t # d /\ ~IsBelow(decks[t].name, decks[d].name)
        => IsBelow(decks'[d].name, decks'[t].name)]_vars
=============================================================================

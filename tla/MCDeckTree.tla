----------------------------- MODULE MCDeckTree -----------------------------
(* The instances TLC checks: names over two texts, one of them also written *)
(* with a capital, and a deck below another to begin with.                  *)
EXTENDS DeckTree

a == <<1, 0, FALSE>>
A == <<1, 0, TRUE>>
b == <<2, 0, FALSE>>

Tree == <<Default, <<a>>, <<a, b>>>>
One == <<Default, <<a>>>>
Deep == {<<a, b, b>>}
Names == {<<b>>, <<A, b>>, <<A, b, b>>}
=============================================================================

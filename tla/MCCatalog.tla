----------------------------- MODULE MCCatalog ------------------------------
(***************************************************************************)
(* Catalog for TLC: two items filed under two categories that overlap, one *)
(* filed by name alone, one listed twice, in an order that differs in each *)
(* variant and each period; categories with names of their own, with one   *)
(* name, and none.                                                         *)
(***************************************************************************)
EXTENDS Catalog, TLC

CONSTANTS r1, r2

MCRequest == {r1, r2}
MCCategory == {1, 2}
MCGenre == {"g1", "g2"}
MCItemId == 1..3
MCSkip == 0..1
Cat(i, n) == [id |-> i, name |-> n]
MCTable == {<<>>, <<Cat(1, "g1"), Cat(2, "g2")>>, <<Cat(1, "g1"), Cat(2, "g1")>>}
MkItem(i, cats, n, added, title) ==
    [id |-> i, cats |-> cats, name |-> n, added |-> added, title |-> title]
MCVersion == {"old", "new", "empty"}
MCFullList == [v \in MCVersion |->
    CASE v = "old" -> <<MkItem(1, {1, 2}, "", 5, "hit"), MkItem(2, {1}, "", 7, "miss")>>
      [] v = "new" -> <<MkItem(1, {1, 2}, "", 5, "hit"), MkItem(3, {}, "g2", 4, "hit"),
                         MkItem(1, {1}, "", 5, "miss")>>
      [] v = "empty" -> <<>>]
MCHash == [e \in 0..1 |-> [i \in 1..3 |-> IF e = 0 THEN i ELSE 4 - i]]

Symmetry == Permutations(MCRequest)
=============================================================================

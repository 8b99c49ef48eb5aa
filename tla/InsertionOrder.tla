--------------------------- MODULE InsertionOrder ---------------------------
(***************************************************************************)
(* The Maps of the code are walked in the order of insertion and are       *)
(* modelled as sequences, oldest insertion first.  These are the ways in   *)
(* which entries leave one.                                                *)
(***************************************************************************)
EXTENDS Integers, Sequences, FiniteSets

Members(s) == {s[i] : i \in DOMAIN s}

(* s from the first of these places on, and nothing if there is none.      *)
From(s, places) ==
    SubSeq(s, IF places = {} THEN Len(s) + 1
              ELSE CHOOSE i \in places : \A j \in places : i <= j, Len(s))

(* The n newest entries of s, or as many as there are.                     *)
Newest(s, n) == SubSeq(s, IF Len(s) > n THEN Len(s) - n + 1 ELSE 1, Len(s))

(* The entries of s at these places, in their order.                       *)
Rank(places, i) == Cardinality({j \in places : j <= i})

Kept(s, places) ==
    [k \in 1..Cardinality(places) |-> s[CHOOSE i \in places : Rank(places, i) = k]]
=============================================================================

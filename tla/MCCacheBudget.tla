--------------------------- MODULE MCCacheBudget ---------------------------
(***************************************************************************)
(* CacheBudget for TLC: a map bounded by entry count alone and one bounded *)
(* by bytes below the shared budget, as catCache and the stream lists are. *)
(* One weight is over the budget; three keys overflow the entry count.     *)
(***************************************************************************)
EXTENDS CacheBudget

CONSTANTS k1, k2, k3

MCCache == {"categories", "streams"}
MCKey == {k1, k2, k3}
MCMaxEntries == [categories |-> 2, streams |-> 3]
MCMaxBytes == [categories |-> NoBound, streams |-> 2]
MCWeight == {1, 3, 5}
=============================================================================

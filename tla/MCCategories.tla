--------------------------- MODULE MCCategories ---------------------------
(***************************************************************************)
(* Categories for TLC.  The code's times are 1, 5, 30 and 1440 minutes;    *)
(* the configurations keep their order, but for a fetch as long as         *)
(* FailureTtl.  Two lists of the three are enough for one to fail and      *)
(* another not to, and the code treats all alike.                          *)
(***************************************************************************)
EXTENDS Categories, TLC

CONSTANTS c1, c2, live, movies

MCCaller == {c1, c2}
MCList == {live, movies}
=============================================================================

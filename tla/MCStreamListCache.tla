------------------------- MODULE MCStreamListCache -------------------------
(***************************************************************************)
(* StreamListCache for TLC.  The code's times are 1, 5, 24, 30 and 1440    *)
(* minutes; the values in the configurations keep their order, with a      *)
(* fetch longer than FailureTtl and shorter than TTL - RefreshAt.          *)
(***************************************************************************)
EXTENDS StreamListCache

CONSTANTS c1, c2

MCCaller == {c1, c2}
=============================================================================

---------------------------- MODULE MCConfigure -----------------------------
(***************************************************************************)
(* Configure for TLC: three clients, one more than the map holds, and two  *)
(* hosts, of which one may be listed and the other not; two posts in a     *)
(* window of two ticks, which are one second.                              *)
(***************************************************************************)
EXTENDS Configure

CONSTANTS c1, c2, c3, f1, h1, h2

MCClient == {c1, c2, c3}
MCForm == {f1}
MCHost == {h1, h2}
MCHostLists == {{}, {h1}}
=============================================================================

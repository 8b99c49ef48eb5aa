---------------------------- MODULE MCPanelReads ----------------------------
(***************************************************************************)
(* PanelReads for TLC: three readers, the three attempts, and deadlines    *)
(* that let a trickle reach the overall one.                               *)
(***************************************************************************)
EXTENDS PanelReads

CONSTANTS c1, c2, c3

MCCaller == {c1, c2, c3}
=============================================================================

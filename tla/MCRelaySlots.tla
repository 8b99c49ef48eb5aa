---------------------------- MODULE MCRelaySlots ----------------------------
(***************************************************************************)
(* RelaySlots inside Shutdown for TLC: each limit off, on alone and tied   *)
(* with others, with requests enough to pass the largest.  No symmetry: a  *)
(* temporal property is checked.                                           *)
(***************************************************************************)
EXTENDS Shutdown

CONSTANTS r1, r2, r3, a1, a2, c1, c2

MCRequest == {r1, r2, r3}
MCAccount == {a1, a2}
MCClient == {c1, c2}
Setting(a, c, t) == [account |-> a, client |-> c, total |-> t]
MCLimits == {Setting(0, 0, 0), Setting(1, 0, 0), Setting(0, 2, 0), Setting(0, 0, 2),
             Setting(1, 2, 2), Setting(2, 0, 2), Setting(2, 1, 0)}
=============================================================================

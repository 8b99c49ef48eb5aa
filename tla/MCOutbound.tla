----------------------------- MODULE MCOutbound -----------------------------
(***************************************************************************)
(* Outbound for TLC: two tasks and two hosts, so that they meet on one     *)
(* host or not; room for one pin, so that one is evicted while it is in    *)
(* use; three origins, of a name, of an address and of what is refused,    *)
(* and room for two of their vettings; lifetimes of one tick, as the code  *)
(* asks of one only whether it is over.                                    *)
(***************************************************************************)
EXTENDS Outbound

CONSTANTS t1, t2, h1, h2, public, private

MCTask == {t1, t2}
MCHost == {h1, h2}
MCOrigin == {h1, "publicIp", "refused"}
MCAddress == {public, private}
MCPrivate == {private}
=============================================================================

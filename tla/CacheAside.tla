----------------------------- MODULE CacheAside -----------------------------
(***************************************************************************)
(* What a cache in front of the panel promises the readers of one key,     *)
(* whatever it takes to ask the panel.                                     *)
(*                                                                         *)
(* An answer is an outcome.  What the panel said last is remembered for    *)
(* the life of that outcome, zero for one that is not to be remembered,    *)
(* and while it is remembered the panel is not asked; everyone who waits   *)
(* when something is learnt, or replayed from memory, is told the same.    *)
(***************************************************************************)
EXTENDS Integers

CONSTANTS
    Caller,     \* the requests that read the key
    Outcome     \* what the panel may say, failures included

VARIABLES
    life,       \* how long each outcome is remembered
    memory,     \* what is remembered: <<>>, or one outcome and what is left
    known,      \* what the waiting callers are about to be told, if anything
    caller      \* "idle", "waiting", or the outcome it was told

vars == <<life, memory, known, caller>>

Live == memory # <<>> /\ memory[1].left > 0
Waiting == {c \in Caller : caller[c] = "waiting"}

Init ==
    /\ life \in [Outcome -> Nat]
    /\ memory = <<>>
    /\ known = "nothing"
    /\ caller = [c \in Caller |-> "idle"]

(* A caller reads what is remembered, or waits.                            *)
Read(c) ==
    /\ caller[c] = "idle"
    /\ caller' \in {[caller EXCEPT ![c] = "waiting"]}
                       \cup IF Live THEN {[caller EXCEPT ![c] = memory[1].outcome]} ELSE {}
    /\ UNCHANGED <<life, memory, known>>

(* The panel says something new, which only happens when nothing is live.  *)
Learn(o) ==
    /\ known = "nothing" /\ Waiting # {} /\ ~Live
    /\ known' = o
    /\ memory' = IF life[o] > 0 THEN <<[outcome |-> o, left |-> life[o]]>> ELSE memory
    /\ UNCHANGED <<life, caller>>

(* Those who wait are to be told what is remembered, exactly as it was.    *)
Replay ==
    /\ known = "nothing" /\ Waiting # {} /\ Live
    /\ known' = memory[1].outcome
    /\ UNCHANGED <<life, memory, caller>>

Tell ==
    /\ known # "nothing"
    /\ caller' = [c \in Caller |-> IF caller[c] = "waiting" THEN known ELSE caller[c]]
    /\ known' = "nothing"
    /\ UNCHANGED <<life, memory>>

(* A first caller who is told at once without having been seen to wait.    *)
ReadReplayed(c) ==
    /\ caller[c] = "idle" /\ Live /\ known = "nothing"
    /\ known' = memory[1].outcome
    /\ caller' = [caller EXCEPT ![c] = "waiting"]
    /\ UNCHANGED <<life, memory>>

Leave(c) ==
    /\ caller[c] \in Outcome
    /\ caller' = [caller EXCEPT ![c] = "idle"]
    /\ UNCHANGED <<life, memory, known>>

(* Memory fades with time and may be lost at any moment.                   *)
Fade ==
    /\ memory # <<>>
    /\ memory' \in {<<>>} \cup {<<[memory[1] EXCEPT !.left = l]>> : l \in 0..memory[1].left}
    /\ UNCHANGED <<life, known, caller>>

Next ==
    \/ \E c \in Caller : Read(c) \/ ReadReplayed(c) \/ Leave(c)
    \/ \E o \in Outcome : Learn(o)
    \/ Replay \/ Tell \/ Fade

(* Whoever waits is told something in the end.                             *)
Settle == (\E o \in Outcome : Learn(o)) \/ Replay \/ Tell

Spec == Init /\ [][Next]_vars /\ WF_vars(Settle)
=============================================================================

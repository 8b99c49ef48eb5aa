----------------------------- MODULE PanelReads -----------------------------
(***************************************************************************)
(* The reads of one key of the small caches: getVodInfo and                *)
(* getCategoryStreams through createKeyedCache, getSeriesInfo with its     *)
(* attempts and its remembered failures, each through a single-flight and  *)
(* xtremioGet (src/xtream/data.js, src/xtream/client.js,                   *)
(* src/cache/layers.js, src/upstream/read-capped.js).                      *)
(*                                                                         *)
(* A payload is "good" (it may be kept for the full ttl), "poor" (an empty *)
(* category, a series without episodes, a movie without a name) or "null"  *)
(* (no payload of the kind at all).  Deadlines and lifetimes are kept as   *)
(* what is left of them, so the clock has no bound.                        *)
(***************************************************************************)
EXTENDS Integers

CONSTANTS
    Caller,         \* requests that read the key
    MaxAttempts,    \* SERIES_INFO_MAX_ATTEMPTS
    CacheTtl, FailureTtl, NegativeTtl,
    HeaderTimeout, SeriesHeaderTimeout, IdleTimeout, BodyTimeout,
    Longest         \* bound of the histories of time: no timeout is longer

ASSUME PanelAssumption ==
    /\ {MaxAttempts, CacheTtl, FailureTtl, NegativeTtl, Longest} \subseteq Nat \ {0}
    /\ {HeaderTimeout, SeriesHeaderTimeout, IdleTimeout, BodyTimeout} \subseteq 1..Longest
    /\ {FailureTtl, NegativeTtl} \subseteq 1..CacheTtl

VARIABLES
    kind,       \* which of the three caches
    entry,      \* <<>>, or <<[data, left]>>; the data "error" is a failure
    caller,     \* "idle", "waiting" on the flight, or what it was answered
    flight,     \* "none", "calling", "backoff", or "settled"
    result,     \* what a settled flight resolves or rejects with
    attempt, lastInfo,          \* local variables of fetchSeriesInfo
    phase,      \* of the call: "none", "headers" or "body"
    open,       \* the response's body still owns a connection
    phaseTimer, overallTimer,   \* what is left of each, Off when cleared
    silent, spent,  \* history: since the panel last moved, since the call began
    expired     \* which deadline the call failed by

read == <<kind, entry, caller, flight, result, attempt, lastInfo>>
call == <<phase, open, phaseTimer, overallTimer, silent, spent, expired>>
vars == <<read, call>>

Kinds == {"vod", "category", "series"}
Answers == {"good", "poor", "error"}
Off == -1
Less(n) == IF n <= 0 THEN n ELSE n - 1
More(n) == IF n = Longest THEN n ELSE n + 1

HeaderTimeoutOf == IF kind = "series" THEN SeriesHeaderTimeout ELSE HeaderTimeout

(* Type invariant.  Between calls no timer is armed and no body is open.   *)
TypeOK ==
    /\ kind \in Kinds
    /\ entry = <<>> \/ entry \in {<<[data |-> d, left |-> l]>> : d \in Answers, l \in 0..CacheTtl}
    /\ caller \in [Caller -> {"idle", "waiting"} \cup Answers]
    /\ flight \in {"none", "calling", "backoff", "settled"}
    /\ result \in Answers \cup {"nothing"}
    /\ attempt \in 0..MaxAttempts
    /\ lastInfo \in {"null", "poor"}
    /\ phase \in {"none", "headers", "body"}
    /\ phaseTimer \in {Off} \cup 0..(HeaderTimeout + SeriesHeaderTimeout + IdleTimeout)
    /\ overallTimer \in {Off} \cup 0..BodyTimeout
    /\ silent \in 0..Longest /\ spent \in 0..Longest
    /\ expired \in {"no", "headers", "chunk", "whole"}
    /\ phase = "none" <=> flight # "calling"
    /\ phase = "none" => ~open /\ phaseTimer = Off /\ overallTimer = Off

Init ==
    /\ kind \in Kinds
    /\ entry = <<>>
    /\ caller = [c \in Caller |-> "idle"]
    /\ flight = "none" /\ result = "nothing"
    /\ attempt = 0 /\ lastInfo = "null"
    /\ phase = "none" /\ open = FALSE
    /\ phaseTimer = Off /\ overallTimer = Off
    /\ silent = 0 /\ spent = 0 /\ expired = "no"

-----------------------------------------------------------------------------
(* Reading: a hit is answered, a flight is joined, or one begins.  The     *)
(* flight looks again, and for a series it is there that a remembered      *)
(* failure is found and replayed.                                          *)

Live == entry # <<>> /\ entry[1].left > 0

(* What load and getSeriesInfo call a hit: a series only a good payload.   *)
Hit == Live /\ (kind = "series" => entry[1].data = "good")

Answer(c) ==
    /\ caller[c] = "idle"
    /\ Hit
    /\ caller' = [caller EXCEPT ![c] = entry[1].data]
    /\ UNCHANGED <<kind, entry, flight, result, attempt, lastInfo, call>>

Join(c) ==
    /\ caller[c] = "idle"
    /\ ~Hit
    /\ flight # "none"
    /\ caller' = [caller EXCEPT ![c] = "waiting"]
    /\ UNCHANGED <<kind, entry, flight, result, attempt, lastInfo, call>>

(* xtremioGet begins: both timers are armed.                               *)
CallBegins ==
    /\ phase' = "headers"
    /\ phaseTimer' = HeaderTimeoutOf
    /\ overallTimer' = BodyTimeout
    /\ silent' = 0 /\ spent' = 0 /\ expired' = "no"
    /\ UNCHANGED open

FaultReplays == FALSE
Replays == Live

Begin(c) ==
    /\ caller[c] = "idle"
    /\ ~Hit
    /\ flight = "none"
    /\ caller' = [caller EXCEPT ![c] = "waiting"]
    /\ IF Replays
       THEN /\ flight' = "settled" /\ result' = entry[1].data
            /\ UNCHANGED <<attempt, call>>
       ELSE /\ flight' = "calling" /\ attempt' = 1
            /\ CallBegins
            /\ UNCHANGED result
    /\ UNCHANGED <<kind, entry, lastInfo>>

-----------------------------------------------------------------------------
(* The flight goes on when its call ends, with a payload or an error.      *)

Settle(r) ==
    /\ flight' = "settled" /\ result' = r
    /\ attempt' = 0 /\ lastInfo' = "null"

Remember(d, ttl) == entry' = <<[data |-> d, left |-> ttl]>>

InfoAfter(p) == IF p = "error" THEN lastInfo ELSE p

(* After the last attempt: the last payload if there was one, else the     *)
(* error, and either is remembered as it was.                              *)
SeriesGivesUp(p) ==
    LET r == IF InfoAfter(p) = "null" THEN "error" ELSE InfoAfter(p)
    IN  Settle(r) /\ Remember(r, NegativeTtl)

FlightGoesOn(p) ==
    \/ p = "good" /\ Settle(p) /\ Remember(p, CacheTtl)
    \/ /\ kind = "category" /\ p = "poor"
       /\ Settle(p) /\ Remember(p, FailureTtl)
    \/ /\ kind \in {"category", "vod"}
       /\ p \in {"null", "error"} \/ (kind = "vod" /\ p = "poor")
       /\ Settle("error") /\ UNCHANGED entry
    \/ /\ kind = "series" /\ p # "good" /\ attempt = MaxAttempts
       /\ SeriesGivesUp(p)
    \/ /\ kind = "series" /\ p # "good" /\ attempt < MaxAttempts
       /\ flight' = "backoff" /\ lastInfo' = InfoAfter(p)
       /\ UNCHANGED <<result, attempt, entry>>

(* The finally of xtremioGet: both timers are cleared.                     *)
CallEnds(p) ==
    /\ phase' = "none"
    /\ phaseTimer' = Off /\ overallTimer' = Off
    /\ FlightGoesOn(p)
    /\ UNCHANGED <<kind, caller, silent, spent>>

FaultDiscarded(o) == o
Discarded(o) == FALSE

(* A status that is an error, or a declared length past the cap: the body  *)
(* is discarded unread.                                                    *)
HeadersRefused ==
    /\ phase = "headers"
    /\ open' = Discarded(TRUE)
    /\ CallEnds("error")
    /\ UNCHANGED expired

FaultRearmed == phaseTimer
Rearmed == IdleTimeout

HeadersArrive ==
    /\ phase = "headers"
    /\ phase' = "body" /\ open' = TRUE
    /\ phaseTimer' = Rearmed
    /\ silent' = 0
    /\ UNCHANGED <<read, overallTimer, spent, expired>>

(* A chunk under both caps resets the idle deadline.                       *)
Chunk ==
    /\ phase = "body"
    /\ phaseTimer' = Rearmed
    /\ silent' = 0
    /\ UNCHANGED <<read, phase, open, overallTimer, spent, expired>>

(* A chunk past the byte cap or the parsed-size cap cancels the reader.    *)
ChunkRefused ==
    /\ phase = "body"
    /\ open' = Discarded(TRUE)
    /\ CallEnds("error")
    /\ UNCHANGED expired

(* The body ends, and parses to a payload or not at all.                   *)
BodyEnds ==
    /\ phase = "body"
    /\ open' = FALSE
    /\ \E p \in {"good", "poor", "null", "error"} : CallEnds(p)
    /\ UNCHANGED expired

(* The fetch is refused or the connection breaks.                          *)
CallFails ==
    /\ phase # "none"
    /\ open' = FALSE
    /\ CallEnds("error")
    /\ UNCHANGED expired

(* A timer aborts the request, which closes its connection.                *)
TimerFires ==
    /\ phase # "none"
    /\ \/ phaseTimer = 0 /\ expired' = IF phase = "headers" THEN "headers" ELSE "chunk"
       \/ overallTimer = 0 /\ expired' = "whole"
    /\ open' = FALSE
    /\ CallEnds("error")

BackoffEnds ==
    /\ flight = "backoff"
    /\ flight' = "calling" /\ attempt' = attempt + 1
    /\ CallBegins
    /\ UNCHANGED <<kind, entry, caller, result, lastInfo>>

(* The finally of the single-flight: the promise is dropped, and everyone  *)
(* who has joined it is answered.                                          *)
Answered(c) == caller[c] = "waiting"

Finish ==
    /\ flight = "settled"
    /\ flight' = "none" /\ result' = "nothing"
    /\ caller' = [c \in Caller |-> IF Answered(c) THEN result ELSE caller[c]]
    /\ silent' = 0 /\ spent' = 0 /\ expired' = "no"
    /\ UNCHANGED <<kind, entry, attempt, lastInfo, phase, open, phaseTimer, overallTimer>>

Done(c) ==
    /\ caller[c] \in Answers
    /\ caller' = [caller EXCEPT ![c] = "idle"]
    /\ UNCHANGED <<kind, entry, flight, result, attempt, lastInfo, call>>

-----------------------------------------------------------------------------
(* Another key, or the shared budget, takes the entry's place.  (A sweep   *)
(* only takes an entry that is no longer live.)                            *)
Evict ==
    /\ entry # <<>>
    /\ entry' = <<>>
    /\ UNCHANGED <<kind, caller, flight, result, attempt, lastInfo, call>>

Tick ==
    /\ entry' = IF entry = <<>> THEN <<>> ELSE <<[entry[1] EXCEPT !.left = Less(@)]>>
    /\ phaseTimer' = Less(phaseTimer) /\ overallTimer' = Less(overallTimer)
    /\ silent' = IF phase = "none" THEN silent ELSE More(silent)
    /\ spent' = IF phase = "none" THEN spent ELSE More(spent)
    /\ UNCHANGED <<kind, caller, flight, result, attempt, lastInfo, phase, open, expired>>

Next ==
    \/ \E c \in Caller : Answer(c) \/ Join(c) \/ Begin(c) \/ Done(c)
    \/ HeadersRefused \/ HeadersArrive \/ Chunk \/ ChunkRefused
    \/ BodyEnds \/ CallFails \/ TimerFires
    \/ BackoffEnds \/ Finish \/ Evict \/ Tick

(* Time passes and timers fire; nothing is assumed of the panel.           *)
Spec ==
    /\ Init /\ [][Next]_vars
    /\ WF_vars(Tick) /\ WF_vars(TimerFires) /\ WF_vars(BackoffEnds) /\ WF_vars(Finish)

-----------------------------------------------------------------------------
(* What is promised of each outcome: a payload is kept for CacheTtl; an    *)
(* empty category is asked again after FailureTtl; a series that failed,   *)
(* with or without a payload, after NegativeTtl; no other failure is kept. *)
Promised ==
    [o \in Answers |->
        CASE o = "good" -> CacheTtl
          [] o = "poor" /\ kind = "category" -> FailureTtl
          [] kind = "series" /\ o # "good" -> NegativeTtl
          [] OTHER -> 0]

Promise == INSTANCE CacheAside WITH
    Outcome <- Answers,
    life <- Promised,
    memory <- IF entry = <<>> THEN <<>>
              ELSE <<[outcome |-> entry[1].data, left |-> entry[1].left]>>,
    known <- result

(* The three caches, with their attempts, flights and deadlines, keep what *)
(* CacheAside promises: callers are told what is remembered or what the    *)
(* flight they joined has learnt, a failure is replayed as it was, the     *)
(* panel is asked for nothing that is still remembered, and everyone is    *)
(* answered, by a panel that answers, fails, stalls or trickles for ever.  *)
KeepsPromise == Promise!Spec

(* A call fails by a deadline only when the panel has been silent, or the  *)
(* call under way, for as long as the error says: a download that moves is *)
(* ended by nothing but the overall deadline (audit R5 in client.js).      *)
TimeoutsAreTrue ==
    /\ expired = "headers" => spent >= HeaderTimeoutOf
    /\ expired = "chunk" => silent >= IdleTimeout
    /\ expired = "whole" => spent >= BodyTimeout
=============================================================================

-------------------------- MODULE PanelReadsProofs --------------------------
(***************************************************************************)
(* Proofs about PanelReads, for every number of readers and attempts and   *)
(* every choice of lifetimes and timeouts.                                 *)
(***************************************************************************)
EXTENDS PanelReads, TLAPS

Entry == [data : Answers, left : 0..CacheTtl]

(* A flight has someone waiting for it, asks for nothing that is still     *)
(* remembered, and has a result when it is settled and only then.          *)
FlightInv ==
    /\ entry = <<>> \/ \E e \in Entry : entry = <<e>>
    /\ kind \in Kinds
    /\ caller \in [Caller -> {"idle", "waiting"} \cup Answers]
    /\ flight \in {"none", "calling", "backoff", "settled"}
    /\ result \in Answers \cup {"nothing"}
    /\ result = "nothing" <=> flight # "settled"
    /\ flight # "none" => \E c \in Caller : caller[c] = "waiting"
    /\ flight \in {"calling", "backoff"} => ~Live
    /\ attempt \in 0..MaxAttempts
    /\ flight = "backoff" => attempt < MaxAttempts
    /\ lastInfo \in {"null", "poor"}

(* A call has its timers, and each has run down by no more than the time   *)
(* the panel has been silent or the call under way.                        *)
CallInv ==
    /\ phase \in {"none", "headers", "body"}
    /\ phase = "none" <=> flight # "calling"
    /\ open \in BOOLEAN
    /\ silent \in 0..Longest /\ spent \in 0..Longest
    /\ expired \in {"no", "headers", "chunk", "whole"}
    /\ phase = "none" => ~open /\ phaseTimer = Off /\ overallTimer = Off
    /\ phase # "none" =>
           /\ expired = "no"
           /\ overallTimer \in 0..BodyTimeout
           /\ overallTimer + spent >= BodyTimeout
    /\ phase = "headers" =>
           /\ phaseTimer \in 0..HeaderTimeoutOf
           /\ phaseTimer + spent >= HeaderTimeoutOf
    /\ phase = "body" =>
           /\ phaseTimer \in 0..IdleTimeout
           /\ phaseTimer + silent >= IdleTimeout

IInv == FlightInv /\ CallInv /\ TimeoutsAreTrue

LEMMA Constants ==
    /\ MaxAttempts \in Nat \ {0} /\ CacheTtl \in Nat \ {0}
    /\ FailureTtl \in 1..CacheTtl /\ NegativeTtl \in 1..CacheTtl
    /\ Longest \in Nat \ {0}
    /\ HeaderTimeout \in 1..Longest /\ SeriesHeaderTimeout \in 1..Longest
    /\ IdleTimeout \in 1..Longest /\ BodyTimeout \in 1..Longest
    /\ HeaderTimeoutOf \in 1..Longest
BY PanelAssumption DEF HeaderTimeoutOf

LEMMA InvariantImpliesTypeOK ==
    IInv => TypeOK
<1> SUFFICES ASSUME IInv PROVE TypeOK
  OBVIOUS
<1>1. entry = <<>> \/ entry \in {<<[data |-> d, left |-> l]>> : d \in Answers, l \in 0..CacheTtl}
  BY DEF IInv, FlightInv, Entry
<1>2. phaseTimer \in {Off} \cup 0..(HeaderTimeout + SeriesHeaderTimeout + IdleTimeout)
  BY Constants DEF IInv, CallInv, HeaderTimeoutOf
<1>3. overallTimer \in {Off} \cup 0..BodyTimeout
  BY DEF IInv, CallInv
<1> QED BY <1>1, <1>2, <1>3 DEF IInv, FlightInv, CallInv, TypeOK

LEMMA InitImpliesInvariant ==
    Init => IInv
<1> SUFFICES ASSUME Init PROVE IInv
  OBVIOUS
<1>1. caller \in [Caller -> {"idle", "waiting"} \cup Answers]
  BY DEF Init
<1>2. FlightInv
  BY <1>1, Constants DEF Init, FlightInv, Live
<1>3. /\ flight = "none" /\ phase = "none" /\ open = FALSE
      /\ phaseTimer = Off /\ overallTimer = Off
      /\ silent = 0 /\ spent = 0 /\ expired = "no"
  BY DEF Init
<1>4. ~open /\ open \in BOOLEAN
  BY <1>3
<1>5. silent \in 0..Longest /\ spent \in 0..Longest
  BY <1>3, Constants
<1>6. CallInv
  BY <1>3, <1>4, <1>5 DEF CallInv
<1>7. TimeoutsAreTrue
  BY <1>3 DEF TimeoutsAreTrue
<1> QED BY <1>2, <1>6, <1>7 DEF IInv

-----------------------------------------------------------------------------
(* A call that begins has both its timers, whole.                          *)
LEMMA CallBeginsWhole ==
    ASSUME FlightInv, CallInv, phase = "none",
           CallBegins, flight' = "calling", kind' = kind
    PROVE  CallInv' /\ TimeoutsAreTrue'
BY Constants DEF CallInv, CallBegins, TimeoutsAreTrue, HeaderTimeoutOf, Off

(* A call that ends leaves no timer, and a flight that has settled or is   *)
(* to try again.                                                           *)
LEMMA FlightGoesOnRightly ==
    ASSUME FlightInv, flight = "calling", UNCHANGED <<kind, caller>>,
           NEW p \in {"good", "poor", "null", "error"}, FlightGoesOn(p)
    PROVE  FlightInv' /\ flight' \in {"settled", "backoff"}
<1> USE Constants DEF FlightInv, Answers, Kinds
<1>1. InfoAfter(p) \in {"null", "poor"} \/ p = "good"
  BY DEF InfoAfter
<1>2. ASSUME NEW r \in Answers, NEW ttl \in 0..CacheTtl, Settle(r), Remember(r, ttl)
      PROVE  FlightInv' /\ flight' = "settled"
  <2>1. [data |-> r, left |-> ttl] \in Entry
    BY DEF Entry
  <2> QED BY <1>2, <2>1 DEF Settle, Remember
<1>3. CASE p = "good" /\ Settle(p) /\ Remember(p, CacheTtl)
  BY <1>2, <1>3
<1>4. CASE kind = "category" /\ p = "poor" /\ Settle(p) /\ Remember(p, FailureTtl)
  BY <1>2, <1>4
<1>5. CASE Settle("error") /\ UNCHANGED entry
  BY <1>5 DEF Settle
<1>6. CASE kind = "series" /\ p # "good" /\ SeriesGivesUp(p)
  <2> DEFINE r == IF InfoAfter(p) = "null" THEN "error" ELSE InfoAfter(p)
  <2>1. r \in Answers /\ Settle(r) /\ Remember(r, NegativeTtl)
    BY <1>1, <1>6 DEF SeriesGivesUp
  <2> HIDE DEF r
  <2> QED BY <2>1, <1>2
<1>7. CASE /\ p # "good" /\ attempt < MaxAttempts
           /\ flight' = "backoff" /\ lastInfo' = InfoAfter(p)
           /\ UNCHANGED <<result, attempt, entry>>
  BY <1>1, <1>7 DEF Live
<1> QED BY <1>3, <1>4, <1>5, <1>6, <1>7 DEF FlightGoesOn

LEMMA CallEndsRightly ==
    ASSUME IInv, phase # "none",
           NEW p \in {"good", "poor", "null", "error"}, CallEnds(p), open' = FALSE,
           \/ expired' = expired
           \/ phaseTimer = 0 /\ expired' = IF phase = "headers" THEN "headers" ELSE "chunk"
           \/ overallTimer = 0 /\ expired' = "whole"
    PROVE  IInv'
<1>1. flight = "calling" /\ UNCHANGED <<kind, caller, silent, spent>> /\ FlightGoesOn(p)
  BY DEF IInv, CallInv, CallEnds
<1>2. FlightInv' /\ flight' \in {"settled", "backoff"}
  BY <1>1, FlightGoesOnRightly DEF IInv
<1>3. CallInv'
  BY <1>1, <1>2 DEF IInv, CallInv, CallEnds, Off
<1>4. TimeoutsAreTrue'
  BY <1>1, Constants DEF IInv, CallInv, TimeoutsAreTrue, HeaderTimeoutOf
<1> QED BY <1>2, <1>3, <1>4 DEF IInv

LEMMA NextKeepsInvariant ==
    IInv /\ [Next]_vars => IInv'
<1> SUFFICES ASSUME IInv, [Next]_vars PROVE IInv'
  OBVIOUS
<1> USE DEF read, call
<1>1. ASSUME NEW c \in Caller, Answer(c) PROVE IInv'
  <2>1. entry[1].data \in Answers
    BY <1>1 DEF IInv, FlightInv, Answer, Hit, Live, Entry
  <2>2. CallInv' /\ TimeoutsAreTrue'
    BY <1>1 DEF IInv, CallInv, TimeoutsAreTrue, HeaderTimeoutOf, Answer
  <2>3. FlightInv'
    BY <1>1, <2>1 DEF IInv, FlightInv, Live, Answer
  <2> QED BY <2>2, <2>3 DEF IInv
<1>2. ASSUME NEW c \in Caller, Join(c) PROVE IInv'
  <2>1. CallInv' /\ TimeoutsAreTrue'
    BY <1>2 DEF IInv, CallInv, TimeoutsAreTrue, HeaderTimeoutOf, Join
  <2>2. FlightInv'
    BY <1>2 DEF IInv, FlightInv, Live, Join
  <2> QED BY <2>1, <2>2 DEF IInv
<1>3. ASSUME NEW c \in Caller, Begin(c) PROVE IInv'
  <2>1. phase = "none" /\ kind' = kind
    BY <1>3 DEF IInv, CallInv, Begin
  <2>2. CASE Live
    <3>1. entry[1].data \in Answers
      BY <2>2 DEF IInv, FlightInv, Live, Entry
    <3>2. FlightInv'
      BY <1>3, <2>2, <3>1 DEF IInv, FlightInv, Live, Begin, Replays, Answers
    <3>3. CallInv' /\ TimeoutsAreTrue'
      BY <1>3, <2>2 DEF IInv, CallInv, TimeoutsAreTrue, HeaderTimeoutOf, Begin, Replays
    <3> QED BY <3>2, <3>3 DEF IInv
  <2>3. CASE ~Live
    <3>1. FlightInv'
      BY <1>3, <2>3, Constants DEF IInv, FlightInv, Live, Begin, Replays, Answers
    <3>2. CallBegins /\ flight' = "calling"
      BY <1>3, <2>3 DEF Begin, Replays
    <3> QED BY <2>1, <3>1, <3>2, CallBeginsWhole DEF IInv
  <2> QED BY <2>2, <2>3
<1>4. ASSUME NEW c \in Caller, Done(c) PROVE IInv'
  <2>1. CallInv' /\ TimeoutsAreTrue'
    BY <1>4 DEF IInv, CallInv, TimeoutsAreTrue, HeaderTimeoutOf, Done
  <2>2. FlightInv'
    BY <1>4 DEF IInv, FlightInv, Live, Done, Answers
  <2> QED BY <2>1, <2>2 DEF IInv
<1>5. CASE HeadersRefused
  BY <1>5, CallEndsRightly DEF HeadersRefused, Discarded
<1>6. CASE HeadersArrive
  <2>1. FlightInv'
    BY <1>6 DEF IInv, FlightInv, Live, HeadersArrive
  <2>2. CallInv' /\ TimeoutsAreTrue'
    BY <1>6, Constants
    DEF IInv, CallInv, TimeoutsAreTrue, HeaderTimeoutOf, HeadersArrive, Rearmed
  <2> QED BY <2>1, <2>2 DEF IInv
<1>7. CASE Chunk
  <2>1. FlightInv'
    BY <1>7 DEF IInv, FlightInv, Live, Chunk
  <2>2. CallInv' /\ TimeoutsAreTrue'
    BY <1>7, Constants
    DEF IInv, CallInv, TimeoutsAreTrue, HeaderTimeoutOf, Chunk, Rearmed
  <2> QED BY <2>1, <2>2 DEF IInv
<1>8. CASE ChunkRefused
  BY <1>8, CallEndsRightly DEF ChunkRefused, Discarded
<1>9. CASE BodyEnds
  BY <1>9, CallEndsRightly DEF BodyEnds
<1>10. CASE CallFails
  BY <1>10, CallEndsRightly DEF CallFails
<1>11. CASE TimerFires
  BY <1>11, CallEndsRightly DEF TimerFires
<1>12. CASE BackoffEnds
  <2>1. phase = "none" /\ kind' = kind /\ CallBegins /\ flight' = "calling"
    BY <1>12 DEF IInv, CallInv, BackoffEnds
  <2>2. FlightInv'
    BY <1>12, Constants DEF IInv, FlightInv, Live, BackoffEnds
  <2> QED BY <2>1, <2>2, CallBeginsWhole DEF IInv
<1>13. CASE Finish
  <2>1. result \in Answers
    BY <1>13 DEF IInv, FlightInv, Finish
  <2>2. FlightInv'
    BY <1>13, <2>1 DEF IInv, FlightInv, Live, Finish, Answered
  <2>3. CallInv' /\ TimeoutsAreTrue'
    BY <1>13, Constants DEF IInv, CallInv, TimeoutsAreTrue, HeaderTimeoutOf, Finish
  <2> QED BY <2>2, <2>3 DEF IInv
<1>14. CASE Evict
  <2>1. FlightInv'
    BY <1>14 DEF IInv, FlightInv, Live, Evict
  <2>2. CallInv' /\ TimeoutsAreTrue'
    BY <1>14 DEF IInv, CallInv, TimeoutsAreTrue, HeaderTimeoutOf, Evict
  <2> QED BY <2>1, <2>2 DEF IInv
<1>15. CASE Tick
  <2>1. ASSUME NEW e \in Entry, entry = <<e>>
        PROVE  \E f \in Entry : entry' = <<f>> /\ f.left = Less(e.left)
    <3>1. [e EXCEPT !.left = Less(@)] \in Entry
      BY Constants DEF Entry, Less
    <3>2. entry' = <<[e EXCEPT !.left = Less(@)]>>
      BY <1>15, <2>1 DEF Tick
    <3>3. [e EXCEPT !.left = Less(@)].left = Less(e.left)
      BY DEF Entry
    <3> QED BY <3>1, <3>2, <3>3
  <2>2. ~Live => ~Live'
    BY <1>15, <2>1 DEF IInv, FlightInv, Live, Less, Tick, Entry
  <2>3. entry' = <<>> \/ \E e \in Entry : entry' = <<e>>
    BY <1>15, <2>1 DEF IInv, FlightInv, Tick
  <2>4. FlightInv'
    BY <1>15, <2>2, <2>3 DEF IInv, FlightInv, Tick
  <2>5. CallInv'
    <3>1. /\ HeaderTimeoutOf' = HeaderTimeoutOf
          /\ UNCHANGED <<phase, flight, open, expired>>
      BY <1>15 DEF Tick, HeaderTimeoutOf
    <3>2. /\ phaseTimer' = Less(phaseTimer) /\ overallTimer' = Less(overallTimer)
          /\ silent' = IF phase = "none" THEN silent ELSE More(silent)
          /\ spent' = IF phase = "none" THEN spent ELSE More(spent)
      BY <1>15 DEF Tick
    <3>3. CallInv
      BY DEF IInv
    <3>4. silent' \in 0..Longest /\ spent' \in 0..Longest
      BY <3>2, <3>3, Constants DEF CallInv, More
    <3>5. phase = "none" => phaseTimer' = Off /\ overallTimer' = Off
      BY <3>2, <3>3 DEF CallInv, Less, Off
    <3>6. phase # "none" =>
              overallTimer' \in 0..BodyTimeout /\ overallTimer' + spent' >= BodyTimeout
      BY <3>2, <3>3, Constants DEF CallInv, Less, More
    <3>7. phase = "headers" =>
              phaseTimer' \in 0..HeaderTimeoutOf /\ phaseTimer' + spent' >= HeaderTimeoutOf
      BY <3>2, <3>3, Constants DEF CallInv, Less, More
    <3>8. phase = "body" =>
              phaseTimer' \in 0..IdleTimeout /\ phaseTimer' + silent' >= IdleTimeout
      BY <3>2, <3>3, Constants DEF CallInv, Less, More
    <3> QED BY <3>1, <3>3, <3>4, <3>5, <3>6, <3>7, <3>8 DEF CallInv
  <2>6. TimeoutsAreTrue'
    BY <1>15, Constants DEF IInv, CallInv, TimeoutsAreTrue, HeaderTimeoutOf, Tick, More
  <2> QED BY <2>4, <2>5, <2>6 DEF IInv
<1>16. CASE UNCHANGED vars
  BY <1>16 DEF IInv, FlightInv, CallInv, TimeoutsAreTrue, HeaderTimeoutOf, Live, vars
<1> QED
  BY <1>1, <1>2, <1>3, <1>4, <1>5, <1>6, <1>7, <1>8, <1>9, <1>10, <1>11, <1>12,
     <1>13, <1>14, <1>15, <1>16 DEF Next

(* Each reader's call, attempt and deadline fit its stage.                 *)
THEOREM Inductive ==
    Spec => []IInv
BY InitImpliesInvariant, NextKeepsInvariant, PTL DEF Spec

(* No call leaves a timer or an unread body behind.                        *)
THEOREM TypeCorrect ==
    Spec => []TypeOK
BY Inductive, InvariantImpliesTypeOK, PTL

(* A call that failed by a deadline was silent, or under way, that long.   *)
THEOREM TimeoutsHold ==
    Spec => []TimeoutsAreTrue
<1>1. IInv => TimeoutsAreTrue
  BY DEF IInv
<1> QED BY <1>1, Inductive, PTL

-----------------------------------------------------------------------------
(* PanelReads keeps what CacheAside promises: every step is one of its     *)
(* steps, or none.                                                         *)
Memory == IF entry = <<>> THEN <<>>
          ELSE <<[outcome |-> entry[1].data, left |-> entry[1].left]>>

LEMMA MemoryIsLive ==
    ASSUME IInv
    PROVE  /\ Promise!Live <=> Live
           /\ entry # <<>> => /\ entry[1] \in Entry /\ Memory # <<>>
                              /\ Memory[1].outcome = entry[1].data
                              /\ Memory[1].left = entry[1].left
BY DEF IInv, FlightInv, Live, Promise!Live, Memory

(* What a flight learns is remembered for as long as its outcome is.       *)
LEMMA LearnsAreAllowed ==
    ASSUME IInv, IInv', UNCHANGED <<kind, caller>>,
           flight = "calling", flight' = "settled",
           NEW o \in Answers, result' = o,
           entry' = IF Promised[o] > 0
                    THEN <<[data |-> o, left |-> Promised[o]]>> ELSE entry
    PROVE  Promise!Next
<1>1. result = "nothing" /\ ~Live /\ \E c \in Caller : caller[c] = "waiting"
  BY DEF IInv, FlightInv
<1>2. Promise!Waiting # {}
  BY <1>1 DEF Promise!Waiting
<1>3. Promised' = Promised
  BY DEF Promised
<1>4. Memory' = IF Promised[o] > 0
                THEN <<[outcome |-> o, left |-> Promised[o]]>> ELSE Memory
  BY DEF Memory
<1>5. Promise!Learn(o)
  BY <1>1, <1>2, <1>3, <1>4, MemoryIsLive DEF Promise!Learn, Memory
<1> QED BY <1>5 DEF Promise!Next

LEMMA CallEndsAreAllowed ==
    ASSUME IInv, IInv', phase # "none",
           NEW p \in {"good", "poor", "null", "error"}, CallEnds(p)
    PROVE  [Promise!Next]_(Promise!vars)
<1>1. flight = "calling" /\ UNCHANGED <<kind, caller>> /\ FlightGoesOn(p)
  BY DEF IInv, CallInv, CallEnds
<1>2. InfoAfter(p) \in {"null", "poor"} \/ p = "good"
  BY DEF InfoAfter, IInv, FlightInv
<1>3. CASE p = "good" /\ Settle(p) /\ Remember(p, CacheTtl)
  <2>1. Promised[p] = CacheTtl /\ CacheTtl > 0 /\ p \in Answers
    BY <1>3, Constants DEF Promised, Answers
  <2> QED BY <1>1, <1>3, <2>1, LearnsAreAllowed DEF Settle, Remember
<1>4. CASE kind = "category" /\ p = "poor" /\ Settle(p) /\ Remember(p, FailureTtl)
  <2>1. Promised[p] = FailureTtl /\ FailureTtl > 0 /\ p \in Answers
    BY <1>4, Constants DEF Promised, Answers
  <2> QED BY <1>1, <1>4, <2>1, LearnsAreAllowed DEF Settle, Remember
<1>5. CASE kind \in {"category", "vod"} /\ Settle("error") /\ UNCHANGED entry
  <2>1. Promised["error"] = 0 /\ "error" \in Answers
    BY <1>5 DEF Promised, Answers
  <2> QED BY <1>1, <1>5, <2>1, LearnsAreAllowed DEF Settle
<1>6. CASE kind = "series" /\ p # "good" /\ SeriesGivesUp(p)
  <2> DEFINE r == IF InfoAfter(p) = "null" THEN "error" ELSE InfoAfter(p)
  <2>1. r \in {"poor", "error"} /\ Settle(r) /\ Remember(r, NegativeTtl)
    BY <1>2, <1>6 DEF SeriesGivesUp
  <2> HIDE DEF r
  <2>2. Promised[r] = NegativeTtl /\ NegativeTtl > 0 /\ r \in Answers
    BY <1>6, <2>1, Constants DEF Promised, Answers
  <2> QED BY <1>1, <2>1, <2>2, LearnsAreAllowed DEF Settle, Remember
<1>7. CASE flight' = "backoff" /\ UNCHANGED <<result, entry>>
  BY <1>1, <1>7 DEF Promise!vars, Promised
<1> QED BY <1>1, <1>3, <1>4, <1>5, <1>6, <1>7 DEF FlightGoesOn

LEMMA NextIsAllowed ==
    IInv /\ IInv' /\ [Next]_vars => [Promise!Next]_(Promise!vars)
<1> SUFFICES ASSUME IInv, IInv', [Next]_vars PROVE [Promise!Next]_(Promise!vars)
  OBVIOUS
<1> USE DEF read, call
<1>0. kind' = kind => Promised' = Promised
  BY DEF Promised
<1>1. ASSUME NEW c \in Caller, Answer(c) PROVE Promise!Next
  <2>1. Live /\ entry # <<>>
    BY <1>1 DEF Answer, Hit, Live
  <2>2. Promise!Read(c)
    BY <1>0, <1>1, <2>1, MemoryIsLive DEF Promise!Read, Answer, Memory
  <2> QED BY <2>2 DEF Promise!Next
<1>2. ASSUME NEW c \in Caller, Join(c) PROVE Promise!Next
  <2>1. Promise!Read(c)
    BY <1>0, <1>2 DEF Promise!Read, Join
  <2> QED BY <2>1 DEF Promise!Next
<1>3. ASSUME NEW c \in Caller, Begin(c) PROVE Promise!Next
  <2>1. result = "nothing"
    BY <1>3 DEF IInv, FlightInv, Begin
  <2>2. CASE Live
    <3>1. Promise!ReadReplayed(c)
      BY <1>0, <1>3, <2>1, <2>2, MemoryIsLive
      DEF Promise!ReadReplayed, Begin, Replays, Memory, Live
    <3> QED BY <3>1 DEF Promise!Next
  <2>3. CASE ~Live
    <3>1. Promise!Read(c)
      BY <1>0, <1>3, <2>3 DEF Promise!Read, Begin, Replays
    <3> QED BY <3>1 DEF Promise!Next
  <2> QED BY <2>2, <2>3
<1>4. ASSUME NEW c \in Caller, Done(c) PROVE Promise!Next
  <2>1. Promise!Leave(c)
    BY <1>0, <1>4 DEF Promise!Leave, Done
  <2> QED BY <2>1 DEF Promise!Next
<1>5. CASE HeadersRefused
  BY <1>5, CallEndsAreAllowed DEF HeadersRefused
<1>6. CASE HeadersArrive
  BY <1>0, <1>6 DEF HeadersArrive, Promise!vars
<1>7. CASE Chunk
  BY <1>0, <1>7 DEF Chunk, Promise!vars
<1>8. CASE ChunkRefused
  BY <1>8, CallEndsAreAllowed DEF ChunkRefused
<1>9. CASE BodyEnds
  BY <1>9, CallEndsAreAllowed DEF BodyEnds
<1>10. CASE CallFails
  BY <1>10, CallEndsAreAllowed DEF CallFails
<1>11. CASE TimerFires
  BY <1>11, CallEndsAreAllowed DEF TimerFires
<1>12. CASE BackoffEnds
  BY <1>0, <1>12 DEF BackoffEnds, Promise!vars
<1>13. CASE Finish
  <2>1. result # "nothing"
    BY <1>13 DEF IInv, FlightInv, Finish
  <2>2. Promise!Tell
    BY <1>0, <1>13, <2>1 DEF Promise!Tell, Finish, Answered
  <2> QED BY <2>2 DEF Promise!Next
<1>14. CASE Evict
  <2>1. Promise!Fade
    BY <1>0, <1>14, MemoryIsLive DEF Promise!Fade, Evict, Memory
  <2> QED BY <2>1 DEF Promise!Next
<1>15. CASE Tick
  <2>1. CASE entry = <<>>
    BY <1>0, <1>15, <2>1 DEF Tick, Promise!vars
  <2>2. CASE entry # <<>>
    <3> DEFINE n == entry[1].left
    <3>1. entry[1] \in Entry /\ n \in Nat /\ Less(n) \in 0..n
      BY <2>2, MemoryIsLive DEF Entry, Less
    <3>2. entry' = <<[entry[1] EXCEPT !.left = Less(@)]>>
      BY <1>15, <2>2 DEF Tick
    <3>3. Memory' = <<[outcome |-> entry[1].data, left |-> Less(n)]>>
      BY <3>1, <3>2 DEF Memory, Entry
    <3>4. Memory = <<[outcome |-> entry[1].data, left |-> n]>>
      BY <2>2 DEF Memory
    <3> HIDE DEF n
    <3>5. Memory' = <<[Memory[1] EXCEPT !.left = Less(n)]>>
      BY <3>3, <3>4
    <3>6. Memory[1].left = n
      BY <3>4
    <3>7. Promise!Fade
      BY <1>0, <1>15, <3>1, <3>4, <3>5, <3>6 DEF Promise!Fade, Tick, Memory
    <3> QED BY <3>7 DEF Promise!Next
  <2> QED BY <2>1, <2>2
<1>16. CASE UNCHANGED vars
  BY <1>0, <1>16 DEF vars, Promise!vars
<1> QED
  BY <1>1, <1>2, <1>3, <1>4, <1>5, <1>6, <1>7, <1>8, <1>9, <1>10, <1>11, <1>12,
     <1>13, <1>14, <1>15, <1>16 DEF Next

LEMMA InitIsAllowed ==
    Init => Promise!Init
<1> SUFFICES ASSUME Init PROVE Promise!Init
  OBVIOUS
<1>1. Promised \in [Answers -> Nat]
  BY Constants DEF Promised
<1> QED BY <1>1 DEF Init, Promise!Init

(* Whatever the panel does, readers are told what is remembered or what    *)
(* the flight they joined learnt, a failure is replayed as it was, and the *)
(* panel is asked for nothing that is still remembered.  (That everyone is *)
(* told something in the end is checked, not proved.)                      *)
THEOREM KeepsPromiseSafely ==
    Spec => Promise!Init /\ [][Promise!Next]_(Promise!vars)
BY InitIsAllowed, NextIsAllowed, Inductive, PTL DEF Spec
=============================================================================

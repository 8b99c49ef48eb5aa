----------------------------- MODULE Categories -----------------------------
(***************************************************************************)
(* getCategories and refreshCategories (src/xtream/data.js), for one       *)
(* account: three lists fetched together and cached as one entry, each of  *)
(* which may fail alone and is then carried over from the entry before.    *)
(*                                                                         *)
(* A list is known by its age since the panel sent it, which the code does *)
(* not keep: ts is that of the entry, stamped anew by every refresh.  Ages *)
(* stop at StaleMax.                                                       *)
(*                                                                         *)
(* An operator whose name starts with Fault is a seeded bug: nothing in    *)
(* the specification uses it.                                              *)
(***************************************************************************)
EXTENDS Integers, FiniteSets

CONSTANTS
    Caller,      \* requests that want the categories
    List,        \* live, movies and series
    TTL,         \* CACHE_TTL
    FailureTtl,  \* CACHE_FAILURE_TTL
    StaleMax,    \* CACHE_STALE_MAX_AGE_MS
    FetchMax,    \* UPSTREAM_BODY_TIMEOUT_MS, which bounds a whole fetch
    MayEvict     \* whether the bounds the caches share may take the entry

ASSUME CategoriesAssumption ==
    /\ {TTL, FailureTtl, StaleMax, FetchMax} \subseteq Nat \ {0}
    /\ FailureTtl < TTL /\ TTL < StaleMax
    /\ MayEvict \in BOOLEAN

VARIABLES
    entry,   \* <<the cached entry>>, or <<>>
    flight,  \* <<the refresh under way>>, or <<>>
    waiting, \* the callers that await it
    answer,  \* the lists the last step answered a caller with, if it did
    sent,    \* how long ago the panel last sent each list
    failed,  \* time since a refresh last ended with a list missing
    had      \* the lists the entry has held, since it was last dropped

vars == <<entry, flight, waiting, answer, sent, failed, had>>

Ages == 0 .. StaleMax

(* A list known by its age, or the empty one that stands in for it.        *)
None == -1
Copies == [List -> Ages \cup {None}]
Nothing == [l \in List |-> None]

IsEntry(e) == e.lists \in Copies /\ e.age \in Ages /\ e.ttl \in {TTL, FailureTtl}

(* call: what has come of the fetch of each list; got: those that came.    *)
IsFlight(f) ==
    /\ f.phase \in {"queued", "fetching", "settled"}
    /\ f.age \in 0 .. FetchMax
    /\ f.cached = <<>> \/ IsEntry(f.cached[1])
    /\ f.call \in [List -> {"pending", "arrived", "failed"}]
    /\ f.got \in Copies /\ f.result \in Copies

(* Every list of the entry and of the flight is one the panel sent or the  *)
(* empty one: none is undefined when there was nothing to fall back on.    *)
TypeOK ==
    /\ entry = <<>> \/ IsEntry(entry[1])
    /\ flight = <<>> \/ IsFlight(flight[1])
    /\ waiting \subseteq Caller
    /\ answer = <<>> \/ answer[1] \in Copies
    /\ sent \in [List -> Ages]
    /\ failed \in 0 .. FailureTtl
    /\ had \subseteq List

Init ==
    /\ entry = <<>>
    /\ flight = <<>>
    /\ waiting = {}
    /\ answer = <<>>
    /\ sent = [l \in List |-> StaleMax]
    /\ failed = FailureTtl
    /\ had = {}

-----------------------------------------------------------------------------
Fresh(e) == e.age < e.ttl
Warm == entry # <<>> /\ Fresh(entry[1])

(* getCategories on a warm entry.                                          *)
LoadWarm(c) ==
    /\ c \notin waiting
    /\ Warm
    /\ answer' = <<entry[1].lists>>
    /\ UNCHANGED <<entry, flight, waiting, sent, failed, had>>

(* On a cold one: join the refresh under way, or start one.                *)
LoadCold(c) ==
    /\ c \notin waiting
    /\ ~Warm
    /\ waiting' = waiting \cup {c}
    /\ flight' = IF flight # <<>> THEN flight
                 ELSE <<[phase |-> "queued", age |-> 0, cached |-> <<>>,
                         call |-> [l \in List |-> "pending"],
                         got |-> Nothing, result |-> Nothing]>>
    /\ answer' = <<>>
    /\ UNCHANGED <<entry, sent, failed, had>>

(* refreshCategories begins: it keeps the entry it finds, so that no       *)
(* eviction can take its stale lists, and makes three calls.               *)
Run ==
    /\ flight # <<>> /\ flight[1].phase = "queued"
    /\ flight' = <<IF Warm
                   THEN [flight[1] EXCEPT !.phase = "settled", !.result = entry[1].lists]
                   ELSE [flight[1] EXCEPT !.phase = "fetching", !.cached = entry]>>
    /\ answer' = <<>>
    /\ UNCHANGED <<entry, waiting, sent, failed, had>>

Pending(l) ==
    flight # <<>> /\ flight[1].phase = "fetching" /\ flight[1].call[l] = "pending"

ListArrives(l) ==
    /\ Pending(l)
    /\ flight' = <<[flight[1] EXCEPT !.call[l] = "arrived", !.got[l] = 0]>>
    /\ sent' = [sent EXCEPT ![l] = 0]
    /\ answer' = <<>>
    /\ UNCHANGED <<entry, waiting, failed, had>>

(* A call fails, or answers something that is no list.                     *)
ListFails(l) ==
    /\ Pending(l)
    /\ flight' = <<[flight[1] EXCEPT !.call[l] = "failed"]>>
    /\ answer' = <<>>
    /\ UNCHANGED <<entry, waiting, sent, failed, had>>

-----------------------------------------------------------------------------
Failed(f) == \E l \in List : f.call[l] = "failed"

FaultPickUndefined(f, l) ==
    IF f.call[l] = "arrived" THEN f.got[l]
    ELSE IF f.cached # <<>> THEN f.cached[1].lists[l]
    ELSE None - 1

FaultPickAllOrNone(f, l) ==
    IF ~Failed(f) THEN f.got[l]
    ELSE IF f.cached # <<>> THEN f.cached[1].lists[l]
    ELSE None

(* pick: a list that failed is the stale one, or empty.                    *)
pick(f, l) ==
    IF f.call[l] = "arrived" THEN f.got[l]
    ELSE IF f.cached # <<>> THEN f.cached[1].lists[l]
    ELSE None

FaultTtlAfter(f) == TTL

TtlAfter(f) == IF Failed(f) THEN FailureTtl ELSE TTL

(* All three are settled: a new entry, unless it is over the whole shared  *)
(* budget, in which case what it would have replaced is dropped too.       *)
Store ==
    /\ flight # <<>> /\ flight[1].phase = "fetching"
    /\ \A l \in List : ~Pending(l)
    /\ LET f == flight[1]
           lists == [l \in List |-> pick(f, l)]
       IN  /\ \/ /\ entry' = <<[lists |-> lists, age |-> 0, ttl |-> TtlAfter(f)]>>
                 /\ had' = had \cup {l \in List : lists[l] # None}
              \/ /\ MayEvict
                 /\ entry' = <<>>
                 /\ had' = {}
           /\ flight' = <<[f EXCEPT !.phase = "settled", !.result = lists]>>
           /\ failed' = IF Failed(f) THEN 0 ELSE failed
    /\ answer' = <<>>
    /\ UNCHANGED <<waiting, sent>>

FaultServed == {CHOOSE c \in waiting : TRUE}

(* Whoever joined the flight gets its result.                              *)
Served == waiting

(* The finally of the flight forgets it.                                   *)
Finish ==
    /\ flight # <<>> /\ flight[1].phase = "settled"
    /\ flight' = <<>>
    /\ waiting' = waiting \ Served
    /\ answer' = <<flight[1].result>>
    /\ UNCHANGED <<entry, sent, failed, had>>

-----------------------------------------------------------------------------
(* catCache is swept on the 24-hour window.                                *)
SweepAge == StaleMax

(* Time passes, and timers fire, while no promise callback is due to run.  *)
Quiet == flight # <<>> => \E l \in List : Pending(l)

(* The sweeper, for an entry whose own age is past the map's.              *)
Sweep ==
    /\ Quiet
    /\ entry # <<>>
    /\ entry[1].age >= SweepAge
    /\ entry' = <<>>
    /\ had' = IF entry[1].age >= StaleMax THEN {} ELSE had
    /\ answer' = <<>>
    /\ UNCHANGED <<flight, waiting, sent, failed>>

(* Another account's write pushes this entry out.                          *)
Evict ==
    /\ MayEvict
    /\ entry # <<>>
    /\ entry' = <<>>
    /\ had' = {}
    /\ answer' = <<>>
    /\ UNCHANGED <<flight, waiting, sent, failed>>

Older(a) == IF a \in 0 .. StaleMax - 1 THEN a + 1 ELSE a
OlderLists(lists) == [l \in List |-> Older(lists[l])]
OlderEntry(e) == [e EXCEPT !.age = Older(@), !.lists = OlderLists(@)]

(* A fetch is over by FetchMax.                                            *)
Tick ==
    /\ Quiet
    /\ flight # <<>> => flight[1].age < FetchMax
    /\ entry' = IF entry = <<>> THEN <<>> ELSE <<OlderEntry(entry[1])>>
    /\ flight' =
           IF flight = <<>> THEN <<>>
           ELSE LET f == flight[1] IN
                <<[f EXCEPT !.age = @ + 1, !.got = OlderLists(@),
                            !.cached = IF @ = <<>> THEN @ ELSE <<OlderEntry(@[1])>>]>>
    /\ sent' = OlderLists(sent)
    /\ failed' = IF failed < FailureTtl THEN failed + 1 ELSE failed
    /\ answer' = <<>>
    /\ UNCHANGED <<waiting, had>>

Proceed ==
    \/ Run \/ Store \/ Finish
    \/ \E l \in List : ListArrives(l) \/ ListFails(l)

Next ==
    \/ \E c \in Caller : LoadWarm(c) \/ LoadCold(c)
    \/ Proceed
    \/ Sweep \/ Evict \/ Tick

(* Promise callbacks run, and the deadlines of xtremioGet settle a fetch.  *)
Spec == Init /\ [][Next]_vars /\ WF_vars(Proceed)

-----------------------------------------------------------------------------
Answering == answer # <<>>
Answered(l) == answer[1][l]

(* One list's failure does not cost another its refresh: what is answered  *)
(* is, list by list, the last the panel sent, give or take what a fetch    *)
(* under way has received and not stored.  And stale categories beat empty *)
(* ones: a list that was held and that nobody evicted is not answered      *)
(* empty, however many refreshes fail, and at whatever moment the sweeper  *)
(* comes.                                                                  *)
EachListIsTheLast ==
    Answering =>
        /\ flight = <<>> => \A l \in List : Answered(l) # None => Answered(l) = sent[l]
        /\ \A l \in had : Answered(l) # None

(* A shelf that is empty or past its TTL for want of a list is asked for   *)
(* again at the pace of FailureTtl: no such answer comes later than that   *)
(* after a failed refresh.                                                 *)
FailureRetriedSoon ==
    Answering /\ (\E l \in List : Answered(l) = None \/ Answered(l) >= TTL + FetchMax)
        => failed < FailureTtl

(* Every request is answered.                                              *)
EveryCallerAnswered == \A c \in Caller : c \in waiting ~> c \notin waiting

(* "CACHE_STALE_MAX_AGE_MS - the same window catCache gives its own stale  *)
(* fallback": no list a day old is answered.  The code does not keep to    *)
(* it.                                                                     *)
StaleIsBounded ==
    Answering => \A l \in List : Answered(l) # None => Answered(l) < StaleMax
=============================================================================

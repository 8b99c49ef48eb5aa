-------------------------- MODULE StreamListCache --------------------------
(***************************************************************************)
(* createStreamListCache (src/cache/layers.js), for one account: the cache *)
(* of a full stream list, with the single-flight that cold requests share, *)
(* the refresh-ahead behind warm ones, the stale copy served through an    *)
(* outage, and the sweeper.  Accounts meet only in the shared bounds, that *)
(* is, in the eviction of one another's entries.                           *)
(*                                                                         *)
(* Promise callbacks run one at a time, in an order the callers do not     *)
(* choose, so a job (a flight or a refresh) is taken apart where the code  *)
(* gives up the thread: queued, fetching, settled, gone.                   *)
(*                                                                         *)
(* Time is kept as ages rather than timestamps: ts becomes the age of the  *)
(* entry, and Tick makes everything older.  An age stops at StaleMax, past *)
(* which the code tells no two ages apart.                                 *)
(*                                                                         *)
(* An operator whose name starts with Fault is a seeded bug: nothing in    *)
(* the specification uses it.                                              *)
(***************************************************************************)
EXTENDS Integers, FiniteSets

CONSTANTS
    Caller,      \* requests that want the list
    Job,         \* promise identities; more of them than can be in use
    NoJob,
    TTL,         \* CACHE_TTL
    FailureTtl,  \* CACHE_FAILURE_TTL
    RefreshAt,   \* CACHE_TTL * CACHE_REFRESH_AHEAD
    StaleMax,    \* CACHE_STALE_MAX_AGE_MS
    FetchMax,    \* UPSTREAM_BODY_TIMEOUT_MS, which bounds a whole fetch
    MayEvict     \* whether the bounds the caches share may take the entry

ASSUME TimesAssumption ==
    /\ {TTL, FailureTtl, RefreshAt, StaleMax, FetchMax} \subseteq Nat \ {0}
    /\ FailureTtl < RefreshAt /\ RefreshAt < TTL /\ TTL < StaleMax
    /\ NoJob \notin Job
    /\ \E i, j \in Job : i # j
    /\ MayEvict \in BOOLEAN

VARIABLES
    entry,      \* <<the cached entry>>, or <<>>
    job,        \* every promise under way
    pending,    \* the flight new cold requests join
    refreshing, \* the background refresh under way
    waits,      \* the flight each caller awaits
    answer,     \* what the last step answered a caller, if it did
    sinceFailed, \* time since a flight's fetch last failed, up to FailureTtl
    sinceRefresh \* history: time since a refresh last began, up to FailureTtl

vars == <<entry, job, pending, refreshing, waits, answer, sinceFailed, sinceRefresh>>

Ages == 0 .. StaleMax
Contents == {"list", "empty"}

Entries == [what : Contents, age : Ages, ttl : 1 .. StaleMax,
            cooled : 0 .. FailureTtl]

Answers == [what : Contents \cup {"error"}, age : Ages]

(* copy is the age of the list that was held when the job began, StaleMax  *)
(* if there was none worth serving.                                        *)
Jobs == [kind : {"flight", "refresh"}, phase : {"queued", "fetching", "settled"},
         age : 0 .. FetchMax, result : Answers, copy : Ages]

Free == [kind |-> "free"]
NoAnswer == [what |-> "none"]
Failed == [what |-> "error", age |-> 0]

Least(a, b) == IF a < b THEN a ELSE b
Greatest(a, b) == IF a < b THEN b ELSE a

(* Ages and lifetimes stay in their ranges: the ttl of a stale copy is     *)
(* never stretched past the day it may be served.                          *)
TypeOK ==
    /\ entry \in {<<>>} \cup {<<e>> : e \in Entries}
    /\ job \in [Job -> Jobs \cup {Free}]
    /\ pending \in Job \cup {NoJob}
    /\ refreshing \in Job \cup {NoJob}
    /\ waits \in [Caller -> Job \cup {NoJob}]
    /\ answer \in Answers \cup {NoAnswer}
    /\ {sinceFailed, sinceRefresh} \subseteq 0 .. FailureTtl

Init ==
    /\ entry = <<>>
    /\ job = [j \in Job |-> Free]
    /\ pending = NoJob
    /\ refreshing = NoJob
    /\ waits = [c \in Caller |-> NoJob]
    /\ answer = NoAnswer
    /\ sinceFailed = FailureTtl
    /\ sinceRefresh = FailureTtl

-----------------------------------------------------------------------------
Held == entry # <<>>
Holding(what) == Held /\ entry[1].what = what

(* get(): an entry serves for its own ttl.                                 *)
Warm == Held /\ entry[1].age < entry[1].ttl

Entered == [what |-> entry[1].what, age |-> entry[1].age]

(* An empty list is held for FailureTtl only.                              *)
TtlOf(what) == IF what = "list" THEN TTL ELSE FailureTtl

(* set(): a new entry, unless it is over the whole shared budget, in which *)
(* case what it would have replaced is dropped too.                        *)
Set(what) ==
    \/ entry' = <<[what |-> what, age |-> 0, ttl |-> TtlOf(what),
                   cooled |-> FailureTtl]>>
    \/ MayEvict /\ entry' = <<>>

(* Only an entry at full strength, far enough through its life, with no    *)
(* attempt in the last FailureTtl (cooled is the time since refreshedAt).  *)
FaultCooledDown == TRUE
CooledDown == entry[1].cooled >= FailureTtl

ShouldRefreshAhead ==
    /\ entry[1].ttl = TTL
    /\ CooledDown
    /\ entry[1].age >= RefreshAt

NewJob(kind) ==
    [kind |-> kind, phase |-> "queued", age |-> 0, result |-> Failed,
     copy |-> IF Holding("list") THEN entry[1].age ELSE StaleMax]

FreeJob == CHOOSE j \in Job : job[j] = Free

MayStartRefresh == ShouldRefreshAhead /\ refreshing = NoJob

(* load() on a warm entry: answered at once, with a refresh behind it if   *)
(* the entry is due for one and none is under way.                         *)
LoadWarm(c) ==
    /\ waits[c] = NoJob
    /\ Warm
    /\ answer' = Entered
    /\ IF MayStartRefresh
       THEN /\ job' = [job EXCEPT ![FreeJob] = NewJob("refresh")]
            /\ refreshing' = FreeJob
            /\ entry' = <<[entry[1] EXCEPT !.cooled = 0]>>
            /\ sinceRefresh' = 0
       ELSE UNCHANGED <<job, refreshing, entry, sinceRefresh>>
    /\ UNCHANGED <<pending, waits, sinceFailed>>

(* load() on a cold one: join the flight there is, or start one.           *)
LoadCold(c) ==
    /\ waits[c] = NoJob
    /\ ~Warm
    /\ answer' = NoAnswer
    /\ IF pending = NoJob
       THEN /\ job' = [job EXCEPT ![FreeJob] = NewJob("flight")]
            /\ pending' = FreeJob
            /\ waits' = [waits EXCEPT ![c] = FreeJob]
       ELSE /\ waits' = [waits EXCEPT ![c] = pending]
            /\ UNCHANGED <<job, pending>>
    /\ UNCHANGED <<entry, refreshing, sinceFailed, sinceRefresh>>

-----------------------------------------------------------------------------
Is(j, kind, phase) == job[j] # Free /\ job[j].kind = kind /\ job[j].phase = phase

Settled(j, r) == [job EXCEPT ![j].phase = "settled", ![j].result = r]

(* The flight's function runs: a list that turned up while it was queued   *)
(* is its result, or else it asks the panel.                               *)
RunFlight(j) ==
    /\ Is(j, "flight", "queued")
    /\ job' = IF Warm THEN Settled(j, Entered)
                      ELSE [job EXCEPT ![j].phase = "fetching"]
    /\ answer' = NoAnswer
    /\ UNCHANGED <<entry, pending, refreshing, waits, sinceFailed, sinceRefresh>>

RunRefresh(j) ==
    /\ Is(j, "refresh", "queued")
    /\ job' = [job EXCEPT ![j].phase = "fetching"]
    /\ answer' = NoAnswer
    /\ UNCHANGED <<entry, pending, refreshing, waits, sinceFailed, sinceRefresh>>

(* The panel sends a list, for a flight or for a refresh.                  *)
FetchOk(j) ==
    /\ Is(j, "flight", "fetching") \/ Is(j, "refresh", "fetching")
    /\ \E what \in Contents :
           /\ Set(what)
           /\ job' = Settled(j, [what |-> what, age |-> 0])
    /\ answer' = NoAnswer
    /\ UNCHANGED <<pending, refreshing, waits, sinceFailed, sinceRefresh>>

FaultRetryTtl(age) == StaleMax

FaultRetryTtlUncapped(age) == age + FailureTtl

(* How long a stale copy serves after a failure, counted from its ts.      *)
RetryTtl(age) == Least(age + FailureTtl, StaleMax)

(* A flight's fetch fails, or sends what is not a list: the stale copy, if *)
(* there is one worth serving, is good for another FailureTtl.             *)
FlightFails(j) ==
    /\ Is(j, "flight", "fetching")
    /\ IF Holding("list") /\ entry[1].age < StaleMax
       THEN /\ entry' = <<[entry[1] EXCEPT !.ttl = RetryTtl(entry[1].age)]>>
            /\ job' = Settled(j, Entered)
       ELSE /\ job' = Settled(j, Failed)
            /\ UNCHANGED entry
    /\ sinceFailed' = 0
    /\ answer' = NoAnswer
    /\ UNCHANGED <<pending, refreshing, waits, sinceRefresh>>

(* A refresh's fetch fails: swallowed, and the entry stands.               *)
RefreshFails(j) ==
    /\ Is(j, "refresh", "fetching")
    /\ job' = Settled(j, Failed)
    /\ answer' = NoAnswer
    /\ UNCHANGED <<entry, pending, refreshing, waits, sinceFailed, sinceRefresh>>

FaultJoinersOf(j) == {CHOOSE c \in Caller : waits[c] = j}

JoinersOf(j) == {c \in Caller : waits[c] = j}

FaultPendingAfter(j) == pending

PendingAfter(j) == NoJob

(* The finally of a flight forgets it; then whoever awaited it goes on.    *)
FinishFlight(j) ==
    /\ Is(j, "flight", "settled")
    /\ pending' = PendingAfter(j)
    /\ answer' = job[j].result
    /\ waits' = [c \in Caller |-> IF c \in JoinersOf(j) THEN NoJob ELSE waits[c]]
    /\ job' = [job EXCEPT ![j] = Free]
    /\ UNCHANGED <<entry, refreshing, sinceFailed, sinceRefresh>>

(* The finally of a refresh forgets it by identity.                        *)
RefreshingAfter(j) == IF refreshing = j THEN NoJob ELSE refreshing

FinishRefresh(j) ==
    /\ Is(j, "refresh", "settled")
    /\ refreshing' = RefreshingAfter(j)
    /\ job' = [job EXCEPT ![j] = Free]
    /\ answer' = NoAnswer
    /\ UNCHANGED <<entry, pending, waits, sinceFailed, sinceRefresh>>

-----------------------------------------------------------------------------
(* sweep(): drops an entry past both the map's maxAgeMs and its own ttl.   *)
Sweep ==
    /\ Held
    /\ entry[1].age >= Greatest(TTL, entry[1].ttl)
    /\ entry' = <<>>
    /\ answer' = NoAnswer
    /\ UNCHANGED <<job, pending, refreshing, waits, sinceFailed, sinceRefresh>>

(* Another account's write pushes this entry out of a bound they share.    *)
Evict ==
    /\ MayEvict
    /\ Held
    /\ entry' = <<>>
    /\ answer' = NoAnswer
    /\ UNCHANGED <<job, pending, refreshing, waits, sinceFailed, sinceRefresh>>

(* Time passes while nothing is due to run; a fetch is over by FetchMax.   *)
Tick ==
    /\ \A j \in Job : job[j] # Free => job[j].phase = "fetching" /\ job[j].age < FetchMax
    /\ entry' = IF Held
                THEN <<[entry[1] EXCEPT !.age = Least(@ + 1, StaleMax),
                                        !.cooled = Least(@ + 1, FailureTtl)]>>
                ELSE entry
    /\ job' = [j \in Job |->
                  IF job[j] = Free THEN Free
                  ELSE [job[j] EXCEPT !.age = @ + 1, !.copy = Least(@ + 1, StaleMax)]]
    /\ sinceFailed' = Least(sinceFailed + 1, FailureTtl)
    /\ sinceRefresh' = Least(sinceRefresh + 1, FailureTtl)
    /\ answer' = NoAnswer
    /\ UNCHANGED <<pending, refreshing, waits>>

Proceed(j) ==
    \/ RunFlight(j) \/ RunRefresh(j)
    \/ FetchOk(j) \/ FlightFails(j) \/ RefreshFails(j)
    \/ FinishFlight(j) \/ FinishRefresh(j)

Next ==
    \/ \E c \in Caller : LoadWarm(c) \/ LoadCold(c)
    \/ \E j \in Job : Proceed(j)
    \/ Sweep \/ Evict \/ Tick

(* Promise callbacks run, and the deadlines of xtremioGet settle a fetch.  *)
Fairness == \A j \in Job : WF_vars(Proceed(j))

Spec == Init /\ [][Next]_vars /\ Fairness

-----------------------------------------------------------------------------
Fetching(kind) == {j \in Job : Is(j, kind, "fetching")}

(* Nobody is answered with a list a day old or older, however long the     *)
(* outage, nor with an empty list the panel sent FailureTtl ago or more;   *)
(* and a list past its TTL is served only on the strength of a failure in  *)
(* the last FailureTtl: the panel is asked again at that pace, and a       *)
(* recovered panel's list is on the shelf within FailureTtl of being asked *)
(* for.                                                                    *)
AnswersAreRecent ==
    /\ answer.what = "list" => answer.age < StaleMax
    /\ answer.what = "empty" => answer.age < FailureTtl
    /\ answer.what = "list" /\ answer.age >= TTL => sinceFailed < FailureTtl

(* One account has at most one cold fetch and one refresh in flight (the   *)
(* comment on refreshing: "only ever two calls, never more"), and whoever  *)
(* waits, waits on the one flight that is pending and under way: never on  *)
(* a refresh, nor on a promise nobody will settle.                         *)
FlightsAreShared ==
    /\ Cardinality(Fetching("flight")) <= 1
    /\ Cardinality(Fetching("refresh")) <= 1
    /\ \A c \in Caller : waits[c] # NoJob =>
           /\ waits[c] = pending
           /\ job[pending] # Free /\ job[pending].kind = "flight"

(* An account's refreshes begin at least FailureTtl apart, although the    *)
(* entry that remembers the last one may have been replaced or evicted     *)
(* meanwhile ("one attempt per CACHE_FAILURE_TTL whatever the outcome, so  *)
(* a panel that has started failing is not asked again by every request    *)
(* that arrives").                                                         *)
RefreshBegins == refreshing = NoJob /\ refreshing' # NoJob

RefreshesAreApart == [][RefreshBegins => sinceRefresh = FailureTtl]_vars

(* Every request is answered, and every refresh comes to an end, whatever  *)
(* the panel does, so that the next one can start.                         *)
EveryFlightEnds ==
    /\ \A c \in Caller : waits[c] # NoJob ~> waits[c] = NoJob
    /\ refreshing # NoJob ~> refreshing = NoJob

-----------------------------------------------------------------------------
(* Two statements of the source's comments that the code does not keep.    *)

(* "A stale list beats an empty shelf, for as long as the copy is worth    *)
(* serving": a flight that began with a list still worth serving when the  *)
(* fetch failed does not answer with the failure.                          *)
StaleBeatsEmpty ==
    \A j \in Job : Is(j, "flight", "settled") /\ job[j].result.what = "error"
                       => job[j].copy = StaleMax

(* "Nothing awaits this, so it can only ever make a later request faster": *)
(* a refresh does not take a list that would have served off the shelf.    *)
RefreshOnlyHelps ==
    [][\A j \in Job :
         Is(j, "refresh", "fetching") /\ Warm /\ Holding("list") /\ job'[j] # job[j]
             /\ job'[j].phase = "settled"
         => entry' # <<>> /\ entry'[1].what = "list"]_vars
=============================================================================

----------------------- MODULE StreamListCacheProofs -----------------------
(***************************************************************************)
(* Proofs about StreamListCache, for every set of callers, every supply of *)
(* promises, every choice of lifetimes, with evictions and without.        *)
(***************************************************************************)
EXTENDS StreamListCache, FiniteSetTheorems, TLAPS

(* What may be answered: AnswersAreRecent of any answer.                   *)
Recent(a) ==
    /\ a.what = "list" => a.age < StaleMax
    /\ a.what = "empty" => a.age < FailureTtl
    /\ a.what = "list" /\ a.age >= TTL => sinceFailed < FailureTtl

(* Each promise under way is the one flight or the one refresh, and who    *)
(* waits, waits on the flight.                                             *)
JobInv(j) ==
    job[j] # Free =>
        /\ job[j].kind = "flight" => pending = j
        /\ job[j].kind = "refresh" => refreshing = j
        /\ job[j].phase = "settled" => Recent(job[j].result)

JobsInv ==
    /\ \A j \in Job : JobInv(j)
    /\ pending # NoJob => job[pending] # Free /\ job[pending].kind = "flight"
    /\ refreshing # NoJob => job[refreshing] # Free /\ job[refreshing].kind = "refresh"
    /\ \A c \in Caller : waits[c] # NoJob => waits[c] = pending

(* An empty list serves for FailureTtl; a list serves past its TTL for no  *)
(* longer than FailureTtl after the last failure; and an entry is younger  *)
(* than the last refresh or remembers it.                                  *)
EntryInv(e) ==
    /\ e.what = "empty" => e.ttl = FailureTtl
    /\ e.what = "list" /\ e.ttl # TTL => e.ttl <= e.age + FailureTtl - sinceFailed
    /\ e.age <= sinceRefresh \/ e.cooled <= sinceRefresh

IInv ==
    /\ TypeOK
    /\ Held => EntryInv(entry[1])
    /\ JobsInv
    /\ Recent(answer)

-----------------------------------------------------------------------------
LEMMA Constants ==
    /\ TTL \in Nat \ {0} /\ FailureTtl \in Nat \ {0} /\ RefreshAt \in Nat \ {0}
    /\ StaleMax \in Nat \ {0} /\ FetchMax \in Nat \ {0}
    /\ FailureTtl < RefreshAt /\ FailureTtl < TTL /\ TTL < StaleMax
    /\ NoJob \notin Job
    /\ Ages = 0 .. StaleMax /\ 0 \in Ages /\ StaleMax \in Ages
BY TimesAssumption DEF Ages

LEMMA EntryMember ==
    ASSUME TypeOK, Held
    PROVE  entry[1] \in Entries /\ entry = <<entry[1]>>
BY DEF TypeOK, Held

LEMMA EntryIntro ==
    ASSUME NEW e \in Entries
    PROVE  <<e>> \in {<<>>} \cup {<<d>> : d \in Entries} /\ <<e>> # <<>> /\ <<e>>[1] = e
OBVIOUS

LEMMA JobMember ==
    ASSUME TypeOK, NEW j \in Job, job[j] # Free
    PROVE  job[j] \in Jobs
BY DEF TypeOK

LEMMA Kinds ==
    ASSUME NEW j \in Jobs
    PROVE  j # Free
BY DEF Jobs, Free

(* A promise is there for a new job while one of the two has none.         *)
LEMMA FreeJobIsFree ==
    ASSUME IInv, pending = NoJob \/ refreshing = NoJob
    PROVE  FreeJob \in Job /\ job[FreeJob] = Free
<1>1. \E j \in Job : job[j] = Free
  <2> SUFFICES ASSUME \A j \in Job : job[j] # Free PROVE FALSE
    OBVIOUS
  <2>1. \A j \in Job : job[j].kind = "flight" \/ job[j].kind = "refresh"
    BY JobMember DEF IInv, Jobs
  <2>2. \A j \in Job : j = pending \/ j = refreshing
    BY <2>1 DEF IInv, JobsInv, JobInv
  <2>3. \A i, j \in Job : i = j
    BY <2>2, Constants
  <2> QED BY <2>3, TimesAssumption
<1> QED BY <1>1 DEF FreeJob

(* What a warm entry holds may be answered.                                *)
LEMMA WarmIsRecent ==
    ASSUME IInv, Warm
    PROVE  Entered \in Answers /\ Recent(Entered)
<1> DEFINE e == entry[1]
<1>1. e \in Entries /\ EntryInv(e) /\ e.age < e.ttl
  BY EntryMember DEF IInv, Warm
<1>2. /\ e.what \in Contents /\ e.age \in 0 .. StaleMax /\ e.ttl \in 1 .. StaleMax
      /\ Entered.what = e.what /\ Entered.age = e.age
  BY <1>1 DEF Entries, Ages, Entered
<1>3. Entered \in Answers
  BY <1>2 DEF Entered, Answers, Ages
<1>4. sinceFailed \in 0 .. FailureTtl
  BY DEF IInv, TypeOK
<1> HIDE DEF e
<1>5. Recent(Entered)
  BY <1>1, <1>2, <1>4, Constants DEF Recent, EntryInv
<1> QED BY <1>3, <1>5

LEMMA InvariantImpliesProperties ==
    IInv => TypeOK /\ AnswersAreRecent /\ FlightsAreShared
<1> SUFFICES ASSUME IInv PROVE AnswersAreRecent /\ FlightsAreShared
  BY DEF IInv
<1>1. AnswersAreRecent
  BY DEF IInv, Recent, AnswersAreRecent
<1>2. Fetching("flight") \subseteq {pending} /\ Fetching("refresh") \subseteq {refreshing}
  BY DEF IInv, JobsInv, JobInv, Fetching, Is
<1>3. ASSUME NEW S, NEW x, S \subseteq {x} PROVE Cardinality(S) <= 1
  <2>1. IsFiniteSet({x}) /\ Cardinality({x}) = 1
    BY FS_Singleton
  <2> QED BY <1>3, <2>1, FS_Subset
<1>4. FlightsAreShared
  BY <1>2, <1>3 DEF FlightsAreShared, IInv, JobsInv
<1> QED BY <1>1, <1>4

LEMMA InitImpliesInvariant ==
    Init => IInv
<1> SUFFICES ASSUME Init PROVE IInv
  OBVIOUS
<1>1. TypeOK
  BY Constants DEF Init, TypeOK
<1>2. Recent(answer)
  BY DEF Init, Recent, NoAnswer
<1>3. ~Held /\ JobsInv
  BY DEF Init, Held, JobsInv, JobInv
<1> QED BY <1>1, <1>2, <1>3 DEF IInv

-----------------------------------------------------------------------------
(* A new job, in the place of a free one.                                  *)
LEMMA NewJobType ==
    ASSUME TypeOK, NEW kind \in {"flight", "refresh"}
    PROVE  /\ NewJob(kind) \in Jobs /\ NewJob(kind) # Free
           /\ NewJob(kind).kind = kind /\ NewJob(kind).phase = "queued"
<1> DEFINE copy == IF Holding("list") THEN entry[1].age ELSE StaleMax
<1>1. copy \in Ages
  BY EntryMember, Constants DEF Holding, Entries
<1>2. NewJob(kind) = [kind |-> kind, phase |-> "queued", age |-> 0, result |-> Failed,
                      copy |-> copy]
  BY DEF NewJob
<1>3. Failed \in Answers /\ 0 \in 0 .. FetchMax
  BY Constants DEF Failed, Answers
<1> HIDE DEF copy
<1>4. NewJob(kind) \in Jobs
  BY <1>1, <1>2, <1>3 DEF Jobs
<1> QED BY <1>2, <1>4, Kinds

LEMMA LoadWarmKeepsInvariant ==
    ASSUME IInv, NEW c \in Caller, LoadWarm(c)
    PROVE  IInv'
<1>1. /\ Warm /\ Held /\ answer' = Entered /\ UNCHANGED <<pending, waits, sinceFailed>>
      /\ Entered \in Answers /\ Recent(Entered)
  BY WarmIsRecent DEF LoadWarm, Warm
<1>2. Recent(answer)'
  BY <1>1 DEF Recent
<1>3. CASE MayStartRefresh
  <2> DEFINE j == FreeJob
             n == NewJob("refresh")
             e == [entry[1] EXCEPT !.cooled = 0]
  <2>1. /\ job' = [job EXCEPT ![j] = n] /\ refreshing' = j /\ entry' = <<e>>
        /\ sinceRefresh' = 0
    BY <1>3 DEF LoadWarm
  <2>2. refreshing = NoJob
    BY <1>3 DEF MayStartRefresh
  <2>3. j \in Job /\ job[j] = Free
    BY <2>2, FreeJobIsFree
  <2>4. n \in Jobs /\ n # Free /\ n.kind = "refresh" /\ n.phase = "queued"
    BY NewJobType DEF IInv
  <2>5. entry[1] \in Entries /\ EntryInv(entry[1])
    BY <1>1, EntryMember DEF IInv
  <2>6. e \in Entries
    <3>1. 0 \in 0 .. FailureTtl
      BY Constants
    <3> QED BY <2>5, <3>1 DEF Entries
  <2>7. /\ e.what = entry[1].what /\ e.age = entry[1].age /\ e.ttl = entry[1].ttl
        /\ e.cooled = 0
    BY <2>5 DEF Entries
  <2> HIDE DEF j, n, e
  <2>8. TypeOK'
    BY <1>1, <2>1, <2>3, <2>4, <2>6, EntryIntro, Constants DEF IInv, TypeOK
  <2>9. Held' /\ EntryInv(entry[1])'
    BY <1>1, <2>1, <2>5, <2>7 DEF EntryInv, Held
  <2>10. JobsInv'
    <3>1. job'[j] = n /\ \A i \in Job : i # j => job'[i] = job[i]
      BY <2>1, <2>3 DEF IInv, TypeOK
    <3>2. \A i \in Job : JobInv(i)'
      <4> SUFFICES ASSUME NEW i \in Job PROVE JobInv(i)'
        OBVIOUS
      <4>1. CASE i = j
        BY <2>1, <2>4, <3>1, <4>1 DEF JobInv
      <4>2. CASE i # j
        <5>1. JobInv(i) /\ i # NoJob
          BY Constants DEF IInv, JobsInv
        <5> QED BY <1>1, <2>2, <3>1, <4>2, <5>1 DEF JobInv, Recent
      <4> QED BY <4>1, <4>2
    <3>3. pending # NoJob => pending \in Job /\ pending # j
      BY <2>3 DEF IInv, JobsInv, TypeOK
    <3> QED BY <1>1, <2>1, <2>4, <3>1, <3>2, <3>3 DEF IInv, JobsInv
  <2> QED BY <1>2, <2>8, <2>9, <2>10 DEF IInv
<1>4. CASE ~MayStartRefresh
  <2>1. UNCHANGED <<job, refreshing, entry, sinceRefresh>>
    BY <1>4 DEF LoadWarm
  <2>2. TypeOK' /\ Held' /\ EntryInv(entry[1])'
    BY <1>1, <2>1 DEF IInv, TypeOK, Held, EntryInv
  <2>3. JobsInv'
    BY <1>1, <2>1 DEF IInv, JobsInv, JobInv, Recent
  <2> QED BY <1>2, <2>2, <2>3 DEF IInv
<1> QED BY <1>3, <1>4

LEMMA LoadColdKeepsInvariant ==
    ASSUME IInv, NEW c \in Caller, LoadCold(c)
    PROVE  IInv'
<1>1. answer' = NoAnswer /\ UNCHANGED <<entry, refreshing, sinceFailed, sinceRefresh>>
  BY DEF LoadCold
<1>2. Recent(answer)' /\ (Held' => EntryInv(entry[1])')
  BY <1>1 DEF IInv, Recent, NoAnswer, Held, EntryInv
<1>3. CASE pending = NoJob
  <2> DEFINE j == FreeJob
             n == NewJob("flight")
  <2>1. job' = [job EXCEPT ![j] = n] /\ pending' = j /\ waits' = [waits EXCEPT ![c] = j]
    BY <1>3 DEF LoadCold
  <2>2. j \in Job /\ job[j] = Free
    BY <1>3, FreeJobIsFree
  <2>3. n \in Jobs /\ n # Free /\ n.kind = "flight" /\ n.phase = "queued"
    BY NewJobType DEF IInv
  <2> HIDE DEF j, n
  <2>4. TypeOK'
    BY <1>1, <2>1, <2>2, <2>3 DEF IInv, TypeOK
  <2>5. JobsInv'
    <3>1. job'[j] = n /\ \A i \in Job : i # j => job'[i] = job[i]
      BY <2>1, <2>2 DEF IInv, TypeOK
    <3>2. \A i \in Job : JobInv(i)'
      <4> SUFFICES ASSUME NEW i \in Job PROVE JobInv(i)'
        OBVIOUS
      <4>1. CASE i = j
        BY <2>1, <2>3, <3>1, <4>1 DEF JobInv
      <4>2. CASE i # j
        <5>1. JobInv(i) /\ i # NoJob
          BY Constants DEF IInv, JobsInv
        <5> QED BY <1>1, <1>3, <3>1, <4>2, <5>1 DEF JobInv, Recent
      <4> QED BY <4>1, <4>2
    <3>3. refreshing # NoJob => refreshing \in Job /\ refreshing # j
      BY <2>2 DEF IInv, JobsInv, TypeOK
    <3>4. \A d \in Caller : waits'[d] # NoJob => waits'[d] = j
      BY <1>3, <2>1 DEF IInv, JobsInv, TypeOK
    <3> QED BY <1>1, <2>1, <2>3, <3>1, <3>2, <3>3, <3>4 DEF IInv, JobsInv
  <2> QED BY <1>2, <2>4, <2>5 DEF IInv
<1>4. CASE pending # NoJob
  <2>1. waits' = [waits EXCEPT ![c] = pending] /\ UNCHANGED <<job, pending>>
    BY <1>4 DEF LoadCold
  <2>2. TypeOK'
    BY <1>1, <2>1 DEF IInv, TypeOK
  <2>3. \A d \in Caller : waits'[d] # NoJob => waits'[d] = pending'
    BY <2>1 DEF IInv, JobsInv, TypeOK
  <2>4. \A i \in Job : JobInv(i)'
    BY <1>1, <2>1 DEF IInv, JobsInv, JobInv, Recent
  <2>5. JobsInv'
    BY <1>1, <2>1, <2>3, <2>4 DEF IInv, JobsInv
  <2> QED BY <1>2, <2>2, <2>5 DEF IInv
<1> QED BY <1>3, <1>4

(* A job goes on: it keeps its kind, and if it settles, it is with a       *)
(* result that may be answered.                                            *)
LEMMA JobGoesOn ==
    ASSUME JobsInv, TypeOK, NEW j \in Job, job[j] # Free,
           NEW n \in Jobs, n.kind = job[j].kind,
           job' = [job EXCEPT ![j] = n], UNCHANGED <<pending, refreshing, waits>>,
           n.phase = "settled" => Recent(n.result)',
           sinceFailed' = sinceFailed \/ sinceFailed' = 0
    PROVE  JobsInv'
<1>1. job'[j] = n /\ n # Free /\ \A i \in Job : i # j => job'[i] = job[i]
  BY Kinds DEF TypeOK
<1>2. \A i \in Job : JobInv(i)'
  <2> SUFFICES ASSUME NEW i \in Job PROVE JobInv(i)'
    OBVIOUS
  <2>1. JobInv(i)
    BY DEF JobsInv
  <2>2. CASE i = j
    BY <1>1, <2>1, <2>2 DEF JobInv
  <2>3. CASE i # j
    BY <1>1, <2>1, <2>3, Constants DEF JobInv, Recent
  <2> QED BY <2>2, <2>3
<1>3. /\ pending # NoJob => job'[pending] # Free /\ job'[pending].kind = "flight"
      /\ refreshing # NoJob => job'[refreshing] # Free /\ job'[refreshing].kind = "refresh"
  BY <1>1 DEF JobsInv, TypeOK
<1> QED BY <1>2, <1>3 DEF JobsInv

(* The two updates that a job under way goes through.                      *)
LEMMA JobFetches ==
    ASSUME TypeOK, NEW j \in Job, job[j] # Free
    PROVE  \E n \in Jobs :
               /\ [job EXCEPT ![j].phase = "fetching"] = [job EXCEPT ![j] = n]
               /\ n.kind = job[j].kind /\ n.phase = "fetching"
<1> DEFINE n == [job[j] EXCEPT !.phase = "fetching"]
<1>1. job[j] \in Jobs
  BY JobMember
<1>2. n \in Jobs /\ n.kind = job[j].kind /\ n.phase = "fetching"
  BY <1>1 DEF Jobs
<1>3. [job EXCEPT ![j].phase = "fetching"] = [job EXCEPT ![j] = n]
  OBVIOUS
<1> HIDE DEF n
<1> QED BY <1>2, <1>3

LEMMA JobSettles ==
    ASSUME TypeOK, NEW j \in Job, job[j] # Free, NEW r \in Answers
    PROVE  \E n \in Jobs :
               /\ Settled(j, r) = [job EXCEPT ![j] = n]
               /\ n.kind = job[j].kind /\ n.result = r
<1> DEFINE n == [job[j] EXCEPT !.phase = "settled", !.result = r]
<1>1. job[j] \in Jobs
  BY JobMember
<1>2. n \in Jobs /\ n.kind = job[j].kind /\ n.result = r
  BY <1>1 DEF Jobs
<1>3. Settled(j, r) = [job EXCEPT ![j] = n]
  BY DEF Settled
<1> HIDE DEF n
<1> QED BY <1>2, <1>3

(* A step that leaves the entry alone and answers nobody.                  *)
LEMMA NobodyIsAnswered ==
    ASSUME answer' = NoAnswer
    PROVE  Recent(answer)' /\ answer' \in Answers \cup {NoAnswer}
BY DEF Recent, NoAnswer

LEMMA RunKeepsInvariant ==
    ASSUME IInv, NEW j \in Job, RunFlight(j) \/ RunRefresh(j)
    PROVE  IInv'
<1>1. /\ job[j] # Free /\ answer' = NoAnswer
      /\ UNCHANGED <<entry, pending, refreshing, waits, sinceFailed, sinceRefresh>>
  BY DEF RunFlight, RunRefresh, Is
<1>2. \/ Warm /\ job' = Settled(j, Entered)
      \/ job' = [job EXCEPT ![j].phase = "fetching"]
  BY DEF RunFlight, RunRefresh
<1>3. Held' => EntryInv(entry[1])'
  BY <1>1 DEF IInv, Held, EntryInv
<1>4. \E n \in Jobs : /\ job' = [job EXCEPT ![j] = n] /\ n.kind = job[j].kind
                      /\ n.phase = "settled" => Recent(n.result)
  <2>1. CASE Warm /\ job' = Settled(j, Entered)
    <3>1. Entered \in Answers /\ Recent(Entered)
      BY <2>1, WarmIsRecent
    <3> QED BY <1>1, <2>1, <3>1, JobSettles DEF IInv
  <2>2. CASE job' = [job EXCEPT ![j].phase = "fetching"]
    BY <1>1, <2>2, JobFetches DEF IInv
  <2> QED BY <1>2, <2>1, <2>2
<1>5. PICK n \in Jobs : /\ job' = [job EXCEPT ![j] = n] /\ n.kind = job[j].kind
                        /\ n.phase = "settled" => Recent(n.result)
  BY <1>4
<1>6. n.phase = "settled" => Recent(n.result)'
  BY <1>1, <1>5 DEF Recent
<1>7. JobsInv'
  BY <1>1, <1>5, <1>6, JobGoesOn DEF IInv
<1>8. TypeOK'
  BY <1>1, <1>5 DEF IInv, TypeOK
<1> QED BY <1>1, <1>3, <1>7, <1>8, NobodyIsAnswered DEF IInv

LEMMA FetchEndsKeepsInvariant ==
    ASSUME IInv, NEW j \in Job, FetchOk(j) \/ RefreshFails(j)
    PROVE  IInv'
<1>1. /\ job[j] # Free /\ answer' = NoAnswer
      /\ UNCHANGED <<pending, refreshing, waits, sinceFailed, sinceRefresh>>
  BY DEF FetchOk, RefreshFails, Is
<1>2. /\ entry' \in {<<>>} \cup {<<e>> : e \in Entries}
      /\ Held' => EntryInv(entry[1])'
  <2>1. CASE RefreshFails(j)
    BY <1>1, <2>1 DEF RefreshFails, IInv, TypeOK, Held, EntryInv
  <2>2. CASE FetchOk(j)
    <3>1. PICK what \in Contents : Set(what)
      BY <2>2 DEF FetchOk
    <3> DEFINE e == [what |-> what, age |-> 0, ttl |-> TtlOf(what), cooled |-> FailureTtl]
    <3>2. entry' = <<e>> \/ entry' = <<>>
      BY <3>1 DEF Set
    <3>3. TtlOf(what) \in 1 .. StaleMax /\ FailureTtl \in 0 .. FailureTtl
      BY Constants DEF TtlOf
    <3>4. e \in Entries
      BY <3>3, Constants DEF Entries
    <3>5. /\ e.what = "empty" => e.ttl = FailureTtl
          /\ e.what = "list" => e.ttl = TTL
          /\ e.age <= sinceRefresh'
      BY <1>1, Constants DEF TtlOf, IInv, TypeOK
    <3> HIDE DEF e
    <3>6. Held' => entry'[1] = e
      BY <3>2 DEF Held
    <3>7. Held' => EntryInv(entry[1])'
      BY <3>5, <3>6 DEF EntryInv
    <3> QED BY <3>2, <3>4, <3>7
  <2> QED BY <2>1, <2>2
<1>3. \E r \in Answers : job' = Settled(j, r) /\ Recent(r)
  <2>1. CASE RefreshFails(j)
    <3>1. Failed \in Answers /\ Recent(Failed)
      BY Constants DEF Failed, Answers, Recent
    <3> QED BY <2>1, <3>1 DEF RefreshFails
  <2>2. CASE FetchOk(j)
    <3>1. PICK what \in Contents : job' = Settled(j, [what |-> what, age |-> 0])
      BY <2>2 DEF FetchOk
    <3>2. [what |-> what, age |-> 0] \in Answers
      BY Constants DEF Answers
    <3>3. Recent([what |-> what, age |-> 0])
      BY Constants DEF Recent
    <3> QED BY <3>1, <3>2, <3>3
  <2> QED BY <2>1, <2>2
<1>4. PICK r \in Answers : job' = Settled(j, r) /\ Recent(r)
  BY <1>3
<1>5. PICK n \in Jobs : /\ job' = [job EXCEPT ![j] = n]
                        /\ n.kind = job[j].kind /\ n.result = r
  BY <1>1, <1>4, JobSettles DEF IInv
<1>6. Recent(n.result)'
  BY <1>1, <1>4, <1>5 DEF Recent
<1>7. JobsInv'
  BY <1>1, <1>5, <1>6, JobGoesOn DEF IInv
<1>8. TypeOK'
  BY <1>1, <1>2, <1>5 DEF IInv, TypeOK
<1> QED BY <1>1, <1>2, <1>7, <1>8, NobodyIsAnswered DEF IInv

LEMMA FlightFailsKeepsInvariant ==
    ASSUME IInv, NEW j \in Job, FlightFails(j)
    PROVE  IInv'
<1>1. /\ job[j] # Free /\ answer' = NoAnswer /\ sinceFailed' = 0
      /\ UNCHANGED <<pending, refreshing, waits, sinceRefresh>>
  BY DEF FlightFails, Is
<1>2. CASE Holding("list") /\ entry[1].age < StaleMax
  <2> DEFINE old == entry[1]
             e == [old EXCEPT !.ttl = RetryTtl(old.age)]
  <2>1. entry' = <<e>> /\ job' = Settled(j, Entered)
    BY <1>2 DEF FlightFails
  <2>2. /\ old \in Entries /\ old.what = "list" /\ old.age \in 0 .. StaleMax
        /\ old.age < StaleMax /\ Entered = [what |-> "list", age |-> old.age]
        /\ old.age <= sinceRefresh \/ old.cooled <= sinceRefresh
    BY <1>2, EntryMember DEF Holding, IInv, EntryInv, Entries, Ages, Entered
  <2> HIDE DEF old
  <2>3. RetryTtl(old.age) \in 1 .. StaleMax /\ RetryTtl(old.age) <= old.age + FailureTtl
    BY <2>2, Constants DEF RetryTtl, Least
  <2>4. e \in Entries
    BY <2>2, <2>3 DEF Entries
  <2>5. /\ e.what = "list" /\ e.age = old.age /\ e.ttl = RetryTtl(old.age)
        /\ e.cooled = old.cooled
    BY <2>2 DEF Entries
  <2> HIDE DEF e
  <2>6. Held' /\ EntryInv(entry[1])'
    <3>1. entry'[1] = e
      BY <2>1
    <3>2. e.ttl <= e.age + FailureTtl - 0
      BY <2>2, <2>3, <2>5, Constants
    <3> QED BY <1>1, <2>1, <2>2, <2>5, <3>1, <3>2 DEF EntryInv, Held
  <2>7. Entered \in Answers /\ Entered.what = "list" /\ Entered.age < StaleMax
    BY <2>2 DEF Answers, Contents, Ages
  <2>8. PICK n \in Jobs : /\ job' = [job EXCEPT ![j] = n]
                          /\ n.kind = job[j].kind /\ n.result = Entered
    BY <1>1, <2>1, <2>7, JobSettles DEF IInv
  <2>9. Recent(n.result)'
    BY <1>1, <2>7, <2>8, Constants DEF Recent
  <2>10. JobsInv'
    BY <1>1, <2>8, <2>9, JobGoesOn DEF IInv
  <2>11. TypeOK'
    <3>1. 0 \in 0 .. FailureTtl
      BY Constants
    <3> QED BY <1>1, <2>1, <2>4, <2>8, <3>1, EntryIntro DEF IInv, TypeOK
  <2> QED BY <1>1, <2>6, <2>10, <2>11, NobodyIsAnswered DEF IInv
<1>3. CASE ~(Holding("list") /\ entry[1].age < StaleMax)
  <2>1. job' = Settled(j, Failed) /\ UNCHANGED entry
    BY <1>3 DEF FlightFails
  <2>2. Failed \in Answers /\ Failed.what = "error"
    BY Constants DEF Failed, Answers
  <2>3. PICK n \in Jobs : /\ job' = [job EXCEPT ![j] = n]
                          /\ n.kind = job[j].kind /\ n.result = Failed
    BY <1>1, <2>1, <2>2, JobSettles DEF IInv
  <2>4. Recent(n.result)'
    BY <2>2, <2>3 DEF Recent
  <2>5. JobsInv'
    BY <1>1, <2>3, <2>4, JobGoesOn DEF IInv
  <2>6. TypeOK'
    <3>1. 0 \in 0 .. FailureTtl
      BY Constants
    <3> QED BY <1>1, <2>1, <2>3, <3>1 DEF IInv, TypeOK
  <2>7. Held' => EntryInv(entry[1])'
    <3>1. Held => entry[1] \in Entries /\ EntryInv(entry[1])
      BY EntryMember DEF IInv
    <3>2. Held => entry[1].ttl \in Nat /\ entry[1].age \in Nat
      BY <3>1, Constants DEF Entries
    <3>3. sinceFailed \in Nat
      BY Constants DEF IInv, TypeOK
    <3> QED BY <1>1, <2>1, <3>1, <3>2, <3>3, Constants DEF Held, EntryInv
  <2> QED BY <1>1, <2>5, <2>6, <2>7, NobodyIsAnswered DEF IInv
<1> QED BY <1>2, <1>3

LEMMA FinishKeepsInvariant ==
    ASSUME IInv, NEW j \in Job, FinishFlight(j) \/ FinishRefresh(j)
    PROVE  IInv'
<1>1. /\ job[j] # Free /\ job[j] \in Jobs /\ job' = [job EXCEPT ![j] = Free]
      /\ job[j].phase = "settled" /\ UNCHANGED <<entry, sinceFailed, sinceRefresh>>
  BY JobMember DEF FinishFlight, FinishRefresh, Is, IInv
<1>2. job'[j] = Free /\ \A i \in Job : i # j => job'[i] = job[i]
  BY <1>1 DEF IInv, TypeOK
<1>3. Held' => EntryInv(entry[1])'
  BY <1>1 DEF IInv, Held, EntryInv
<1>4. \A i \in Job : i # j => JobInv(i)
  BY DEF IInv, JobsInv
<1>5. CASE FinishFlight(j)
  <2>1. /\ job[j].kind = "flight" /\ pending' = NoJob /\ answer' = job[j].result
        /\ UNCHANGED refreshing /\ waits' \in [Caller -> Job \cup {NoJob}]
        /\ \A c \in Caller : waits[c] = j => waits'[c] = NoJob
        /\ \A c \in Caller : waits[c] # j => waits'[c] = waits[c]
    BY <1>5 DEF FinishFlight, PendingAfter, JoinersOf, Is, IInv, TypeOK
  <2>2. pending = j /\ Recent(job[j].result)
    BY <1>1, <2>1 DEF IInv, JobsInv, JobInv
  <2>3. \A c \in Caller : waits'[c] = NoJob
    BY <2>1, <2>2 DEF IInv, JobsInv
  <2>4. refreshing # NoJob => refreshing \in Job /\ refreshing # j
    BY <1>1, <2>1 DEF IInv, JobsInv, TypeOK
  <2>5. \A i \in Job : JobInv(i)'
    <3> SUFFICES ASSUME NEW i \in Job, i # j PROVE JobInv(i)'
      BY <1>2 DEF JobInv
    <3> QED BY <1>1, <1>2, <1>4, <2>1, <2>2 DEF JobInv, Recent
  <2>6. JobsInv'
    BY <1>2, <2>1, <2>3, <2>4, <2>5 DEF IInv, JobsInv
  <2>7. answer' \in Answers
    BY <1>1, <2>1 DEF Jobs
  <2>8. TypeOK'
    BY <1>1, <2>1, <2>7 DEF IInv, TypeOK
  <2>9. Recent(answer)'
    BY <1>1, <2>1, <2>2 DEF Recent
  <2> QED BY <1>3, <2>6, <2>8, <2>9 DEF IInv
<1>6. CASE FinishRefresh(j)
  <2>1. /\ job[j].kind = "refresh" /\ answer' = NoAnswer /\ UNCHANGED <<pending, waits>>
        /\ refreshing' = IF refreshing = j THEN NoJob ELSE refreshing
    BY <1>6 DEF FinishRefresh, RefreshingAfter, Is
  <2>2. refreshing = j /\ refreshing' = NoJob
    BY <1>1, <2>1 DEF IInv, JobsInv, JobInv
  <2>3. pending # NoJob => pending \in Job /\ pending # j
    BY <1>1, <2>1 DEF IInv, JobsInv, TypeOK
  <2>4. \A i \in Job : JobInv(i)'
    <3> SUFFICES ASSUME NEW i \in Job, i # j PROVE JobInv(i)'
      BY <1>2 DEF JobInv
    <3> QED BY <1>1, <1>2, <1>4, <2>1, <2>2 DEF JobInv, Recent
  <2>5. JobsInv'
    BY <1>2, <2>1, <2>2, <2>3, <2>4 DEF IInv, JobsInv
  <2>6. TypeOK'
    BY <1>1, <2>1, <2>2 DEF IInv, TypeOK
  <2> QED BY <1>3, <2>1, <2>5, <2>6, NobodyIsAnswered DEF IInv
<1> QED BY <1>5, <1>6

LEMMA DropKeepsInvariant ==
    ASSUME IInv, Sweep \/ Evict
    PROVE  IInv'
<1>1. /\ entry' = <<>> /\ answer' = NoAnswer
      /\ UNCHANGED <<job, pending, refreshing, waits, sinceFailed, sinceRefresh>>
  BY DEF Sweep, Evict
<1>2. TypeOK' /\ ~Held'
  BY <1>1 DEF IInv, TypeOK, Held
<1>3. JobsInv'
  BY <1>1 DEF IInv, JobsInv, JobInv, Recent
<1> QED BY <1>1, <1>2, <1>3, NobodyIsAnswered DEF IInv

LEMMA TickKeepsInvariant ==
    ASSUME IInv, Tick
    PROVE  IInv'
<1>1. /\ \A j \in Job : job[j] # Free => job[j].phase = "fetching" /\ job[j].age < FetchMax
      /\ answer' = NoAnswer /\ sinceFailed' = Least(sinceFailed + 1, FailureTtl)
      /\ sinceRefresh' = Least(sinceRefresh + 1, FailureTtl)
      /\ UNCHANGED <<pending, refreshing, waits>>
  BY DEF Tick
<1>2. /\ sinceFailed \in 0 .. FailureTtl /\ sinceFailed' \in 0 .. FailureTtl
      /\ sinceFailed' <= sinceFailed + 1
      /\ sinceRefresh \in 0 .. FailureTtl /\ sinceRefresh' \in 0 .. FailureTtl
      /\ sinceRefresh' = sinceRefresh + 1 \/ sinceRefresh' = FailureTtl
  <2>1. sinceFailed \in 0 .. FailureTtl /\ sinceRefresh \in 0 .. FailureTtl
    BY DEF IInv, TypeOK
  <2> QED BY <1>1, <2>1, Constants DEF Least
<1>3. /\ entry' \in {<<>>} \cup {<<e>> : e \in Entries}
      /\ Held' => EntryInv(entry[1])'
  <2>1. CASE ~Held
    <3>1. entry' = <<>>
      BY <2>1 DEF Tick, Held
    <3> QED BY <3>1 DEF Held
  <2>2. CASE Held
    <3> DEFINE old == entry[1]
               age == Least(old.age + 1, StaleMax)
               cooled == Least(old.cooled + 1, FailureTtl)
               e == [old EXCEPT !.age = age, !.cooled = cooled]
    <3>1. entry' = <<e>>
      BY <2>2 DEF Tick
    <3>2. old \in Entries /\ EntryInv(old)
      BY <2>2, EntryMember DEF IInv
    <3> HIDE DEF old
    <3>3. /\ old.age \in 0 .. StaleMax /\ old.cooled \in 0 .. FailureTtl
          /\ old.ttl \in 1 .. StaleMax
      BY <3>2 DEF Entries, Ages
    <3>4. age \in 0 .. StaleMax /\ cooled \in 0 .. FailureTtl
          /\ (age = old.age + 1 \/ age = StaleMax)
          /\ age <= old.age + 1 /\ cooled <= old.cooled + 1
      BY <3>3, Constants DEF Least
    <3> HIDE DEF age, cooled
    <3>5. e \in Entries
      BY <3>2, <3>4 DEF Entries, Ages
    <3>6. e.what = old.what /\ e.ttl = old.ttl /\ e.age = age /\ e.cooled = cooled
      BY <3>2 DEF Entries
    <3> HIDE DEF e
    <3>7. old.ttl <= old.age + FailureTtl - sinceFailed
              => old.ttl <= age + FailureTtl - sinceFailed'
      <4>1. /\ old.age \in Int /\ age \in Int /\ old.ttl \in Int /\ FailureTtl \in Int
            /\ sinceFailed \in 0 .. FailureTtl /\ sinceFailed' \in 0 .. FailureTtl
            /\ sinceFailed' <= sinceFailed + 1
            /\ age = old.age + 1 \/ age = StaleMax
            /\ old.ttl <= StaleMax /\ StaleMax \in Int
        BY <1>2, <3>3, <3>4, Constants
      <4> QED BY ONLY <4>1
    <3>8. entry'[1] = e
      BY <3>1
    <3>10. age <= sinceRefresh' \/ cooled <= sinceRefresh'
      <4>1. CASE sinceRefresh' = sinceRefresh + 1
        BY <4>1, <1>2, <3>2, <3>3, <3>4 DEF EntryInv
      <4>2. CASE sinceRefresh' = FailureTtl
        BY <4>2, <3>4
      <4> QED BY <1>2, <4>1, <4>2
    <3>9. EntryInv(entry[1])'
      BY <3>2, <3>6, <3>7, <3>8, <3>10 DEF EntryInv
    <3> QED BY <3>1, <3>5, <3>9, EntryIntro
  <2> QED BY <2>1, <2>2
<1>4. ASSUME NEW j \in Job
      PROVE  /\ job'[j] \in Jobs \cup {Free}
             /\ job'[j] # Free => /\ job[j] # Free /\ job'[j].kind = job[j].kind
                                  /\ job'[j].phase = "fetching"
             /\ job[j] # Free => job'[j] # Free
  <2>1. CASE job[j] = Free
    BY <2>1 DEF Tick
  <2>2. CASE job[j] # Free
    <3> DEFINE old == job[j]
               copy == Least(old.copy + 1, StaleMax)
               n == [old EXCEPT !.age = old.age + 1, !.copy = copy]
    <3>1. job'[j] = n
      BY <2>2 DEF Tick
    <3>2. old \in Jobs /\ old.phase = "fetching" /\ old.age < FetchMax
      BY <1>1, <2>2, JobMember DEF IInv
    <3> HIDE DEF old
    <3>3. old.age + 1 \in 0 .. FetchMax
      BY <3>2, Constants DEF Jobs
    <3>4. copy \in Ages
      <4>1. old.copy \in 0 .. StaleMax
        BY <3>2 DEF Jobs, Ages
      <4> QED BY <4>1, Constants DEF Least, Ages
    <3> HIDE DEF copy
    <3>5. n \in Jobs
      BY <3>2, <3>3, <3>4 DEF Jobs
    <3>6. n.kind = old.kind /\ n.phase = old.phase
      BY <3>2 DEF Jobs
    <3> HIDE DEF n
    <3> QED BY <2>2, <3>1, <3>2, <3>5, <3>6, Kinds DEF old
  <2> QED BY <2>1, <2>2
<1>5. TypeOK'
  <2>1. job' = [j \in Job |-> job'[j]]
    BY DEF Tick
  <2>2. job' \in [Job -> Jobs \cup {Free}]
    BY <1>4, <2>1
  <2>3. answer' \in Answers \cup {NoAnswer}
    BY <1>1
  <2> QED BY <1>1, <1>2, <1>3, <2>2, <2>3 DEF IInv, TypeOK
<1>6. JobsInv'
  <2>1. \A j \in Job : JobInv(j)'
    BY <1>1, <1>4 DEF IInv, JobsInv, JobInv
  <2>2. /\ pending # NoJob => job'[pending] # Free /\ job'[pending].kind = "flight"
        /\ refreshing # NoJob =>
               job'[refreshing] # Free /\ job'[refreshing].kind = "refresh"
    BY <1>4 DEF IInv, JobsInv, TypeOK
  <2> QED BY <1>1, <2>1, <2>2 DEF IInv, JobsInv
<1> QED BY <1>1, <1>3, <1>5, <1>6, NobodyIsAnswered DEF IInv

(* A refresh begins with an entry that has cooled down, and is too old to  *)
(* have been stored since the last one began.                              *)
LEMMA RefreshesBeginApart ==
    IInv /\ [Next]_vars => [RefreshBegins => sinceRefresh = FailureTtl]_vars
<1> SUFFICES ASSUME IInv, Next, RefreshBegins PROVE sinceRefresh = FailureTtl
  OBVIOUS
<1>1. PICK c \in Caller : LoadWarm(c) /\ MayStartRefresh
  BY DEF Next, RefreshBegins, LoadWarm, LoadCold, Proceed, RunFlight, RunRefresh,
     FetchOk, FlightFails, RefreshFails, FinishFlight, FinishRefresh, RefreshingAfter,
     Sweep, Evict, Tick
<1>2. Held /\ ShouldRefreshAhead
  BY <1>1 DEF LoadWarm, Warm, MayStartRefresh
<1>3. entry[1] \in Entries /\ EntryInv(entry[1])
  BY <1>2, EntryMember DEF IInv
<1>4. /\ entry[1].cooled >= FailureTtl /\ entry[1].age >= RefreshAt
      /\ entry[1].cooled \in 0 .. FailureTtl /\ entry[1].age \in 0 .. StaleMax
  BY <1>2, <1>3 DEF ShouldRefreshAhead, CooledDown, Entries, Ages
<1>5. sinceRefresh \in 0 .. FailureTtl
  BY DEF IInv, TypeOK
<1>6. entry[1].age <= sinceRefresh \/ entry[1].cooled <= sinceRefresh
  BY <1>3 DEF EntryInv
<1> QED BY <1>4, <1>5, <1>6, Constants

-----------------------------------------------------------------------------
LEMMA NextKeepsInvariant ==
    IInv /\ [Next]_vars => IInv'
<1> SUFFICES ASSUME IInv, [Next]_vars PROVE IInv'
  OBVIOUS
<1>1. CASE Next
  <2>1. ASSUME NEW c \in Caller, LoadWarm(c) \/ LoadCold(c) PROVE IInv'
    BY <2>1, LoadWarmKeepsInvariant, LoadColdKeepsInvariant
  <2>2. ASSUME NEW j \in Job, Proceed(j) PROVE IInv'
    BY <2>2, RunKeepsInvariant, FetchEndsKeepsInvariant, FlightFailsKeepsInvariant,
       FinishKeepsInvariant DEF Proceed
  <2>3. CASE Sweep \/ Evict
    BY <2>3, DropKeepsInvariant
  <2>4. CASE Tick
    BY <2>4, TickKeepsInvariant
  <2> QED BY <1>1, <2>1, <2>2, <2>3, <2>4 DEF Next
<1>2. CASE UNCHANGED vars
  BY <1>2 DEF vars, IInv, TypeOK, Held, EntryInv, JobsInv, JobInv, Recent
<1> QED BY <1>1, <1>2

(* The one flight, the one refresh and what may be answered.               *)
THEOREM Inductive ==
    Spec => []IInv
BY InitImpliesInvariant, NextKeepsInvariant, PTL DEF Spec

(* Ages and lifetimes stay in their ranges, through any outage.            *)
THEOREM TypeCorrect ==
    Spec => []TypeOK
BY Inductive, InvariantImpliesProperties, PTL

(* However long the outage, nobody is answered with a list a day old, and  *)
(* one past its TTL is served on the strength of a recent failure only.    *)
THEOREM RecentAnswers ==
    Spec => []AnswersAreRecent
BY Inductive, InvariantImpliesProperties, PTL

(* One cold fetch and one refresh at most, and whoever waits is on the     *)
(* flight, which is under way.                                             *)
THEOREM SharedFlights ==
    Spec => []FlightsAreShared
BY Inductive, InvariantImpliesProperties, PTL

(* An account's refreshes begin at least FailureTtl apart, whatever        *)
(* becomes of the entry meanwhile.                                         *)
THEOREM RefreshesBeginFailureTtlApart ==
    Spec => RefreshesAreApart
BY Inductive, RefreshesBeginApart, PTL DEF Spec, RefreshesAreApart
=============================================================================

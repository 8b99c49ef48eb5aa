---------------------------- MODULE CatalogProofs ---------------------------
(***************************************************************************)
(* Proofs about Categories, the lists of categories that are kept, for     *)
(* every number of callers and lists, every choice of lifetimes and        *)
(* fetches, with evictions and without; and about Catalog, the shelf that  *)
(* is made of them, for every number of requests, categories, lists and    *)
(* periods, whatever the panel's lists hold.                               *)
(***************************************************************************)
EXTENDS Categories, Catalog, SequenceLemmas, TLAPS

Opt(S) == {<<>>} \cup {<<x>> : x \in S}

Entry == [lists : Copies, age : Ages, ttl : {TTL, FailureTtl}]

Refresh == [phase : {"queued", "fetching", "settled"}, age : 0..FetchMax,
            cached : Opt(Entry), call : [List -> {"pending", "arrived", "failed"}],
            got : Copies, result : Copies]

Types ==
    /\ entry \in Opt(Entry)
    /\ flight \in Opt(Refresh)
    /\ waiting \subseteq Caller
    /\ answer \in Opt(Copies)
    /\ sent \in [List -> Ages]
    /\ failed \in 0..FailureTtl
    /\ had \subseteq List

(* Of three lists: each is the last the panel sent, or empty; none that    *)
(* was held is empty; and if one is empty or too old, a refresh has failed *)
(* that recently.                                                          *)
Current(lists) == \A l \in List : lists[l] # None => lists[l] = sent[l]
Whole(lists) == \A l \in had : lists[l] # None
Timely(lists) ==
    (\E l \in List : lists[l] = None \/ lists[l] >= TTL + FetchMax) => failed < FailureTtl

(* An entry that may be served for TTL has lists no older than it and a    *)
(* fetch, and one for FailureTtl is of the last failure.                   *)
EntryInv(e) ==
    /\ e.ttl = TTL => \A l \in List : e.lists[l] \in 0..(e.age + FetchMax)
    /\ e.ttl = FailureTtl => failed <= e.age
    /\ Whole(e.lists)

(* While it fetches, a refresh has the entry it may fall back on, and of   *)
(* each list that has not arrived the last the panel sent.                 *)
FetchInv(f) ==
    /\ entry # <<>> => f.cached = entry
    /\ \A l \in List :
           IF f.call[l] = "arrived" THEN f.got[l] = sent[l] /\ f.got[l] \in 0..f.age
           ELSE f.cached # <<>> /\ f.cached[1].lists[l] # None =>
                    f.cached[1].lists[l] = sent[l]

Fetching == flight # <<>> /\ flight[1].phase = "fetching"

EntriesInv ==
    /\ entry # <<>> => EntryInv(entry[1]) /\ (~Fetching => Current(entry[1].lists))
    /\ entry = <<>> => had = {}

FlightsInv ==
    /\ flight # <<>> /\ flight[1].phase = "queued" =>
           \A l \in List : flight[1].call[l] = "pending"
    /\ Fetching => FetchInv(flight[1])
    /\ flight # <<>> /\ flight[1].phase = "settled" =>
           Current(flight[1].result) /\ Whole(flight[1].result) /\ Timely(flight[1].result)

AnswersInv ==
    answer # <<>> =>
        /\ Whole(answer[1]) /\ Timely(answer[1])
        /\ flight = <<>> => Current(answer[1])

IInv == Types /\ EntriesInv /\ FlightsInv /\ AnswersInv

LEMMA Constants ==
    /\ TTL \in Nat \ {0} /\ FailureTtl \in Nat \ {0}
    /\ StaleMax \in Nat \ {0} /\ FetchMax \in Nat \ {0}
    /\ FailureTtl < TTL /\ TTL < StaleMax
    /\ 0 \in Ages /\ None \notin Ages
BY CategoriesAssumption DEF Ages, None

LEMMA OptMember ==
    ASSUME NEW S, NEW x \in Opt(S), x # <<>>
    PROVE  x[1] \in S /\ x = <<x[1]>>
BY DEF Opt

LEMMA OptIntro ==
    ASSUME NEW S, NEW x \in S
    PROVE  <<x>> \in Opt(S) /\ <<x>> # <<>> /\ <<x>>[1] = x
BY DEF Opt

LEMMA InvariantImpliesTypeOK ==
    IInv => TypeOK
<1> SUFFICES ASSUME IInv PROVE TypeOK
  OBVIOUS
<1>1. \A e \in Entry : IsEntry(e)
  BY DEF Entry, IsEntry
<1>2. \A f \in Refresh : IsFlight(f)
  BY <1>1, OptMember DEF Refresh, IsFlight
<1>3. /\ entry = <<>> \/ entry[1] \in Entry
      /\ flight = <<>> \/ flight[1] \in Refresh
      /\ answer = <<>> \/ answer[1] \in Copies
  BY OptMember DEF IInv, Types
<1> QED BY <1>1, <1>2, <1>3 DEF IInv, Types, TypeOK

LEMMA InvariantImpliesProperties ==
    IInv => EachListIsTheLast /\ FailureRetriedSoon
BY DEF IInv, AnswersInv, Whole, Current, Timely,
       EachListIsTheLast, FailureRetriedSoon, Answering, Answered

LEMMA InitImpliesInvariant ==
    Init => IInv
<1> SUFFICES ASSUME Init PROVE IInv
  OBVIOUS
<1>1. Types
  <2>1. sent \in [List -> Ages]
    BY Constants DEF Init, Ages
  <2>2. failed \in 0..FailureTtl
    BY Constants DEF Init
  <2> QED BY <2>1, <2>2 DEF Init, Types, Opt
<1>2. EntriesInv /\ FlightsInv /\ AnswersInv
  BY DEF Init, EntriesInv, FlightsInv, AnswersInv, Fetching
<1> QED BY <1>1, <1>2 DEF IInv

-----------------------------------------------------------------------------
(* What is served warm is current, whole and, if it is not, has failed     *)
(* lately.                                                                 *)
LEMMA WarmIsTimely ==
    ASSUME IInv, Warm
    PROVE  /\ entry[1] \in Entry
           /\ Whole(entry[1].lists) /\ Timely(entry[1].lists)
           /\ ~Fetching => Current(entry[1].lists)
<1>1. entry # <<>> /\ entry[1] \in Entry /\ entry[1].age < entry[1].ttl
  BY OptMember DEF Warm, Fresh, IInv, Types
<1>2. EntryInv(entry[1]) /\ (~Fetching => Current(entry[1].lists))
  BY <1>1 DEF IInv, EntriesInv
<1>3. Timely(entry[1].lists)
  <2>1. CASE entry[1].ttl = TTL
    <3>1. entry[1].age \in Nat /\ entry[1].age < TTL
      BY <1>1, <2>1, Constants DEF Entry, Ages
    <3>2. \A l \in List : entry[1].lists[l] \in 0..(entry[1].age + FetchMax)
      BY <1>2, <2>1 DEF EntryInv
    <3>3. \A l \in List : ~(entry[1].lists[l] = None \/ entry[1].lists[l] >= TTL + FetchMax)
      BY <3>1, <3>2, Constants DEF None
    <3> QED BY <3>3 DEF Timely
  <2>2. CASE entry[1].ttl = FailureTtl
    <3>1. entry[1].age \in Nat /\ entry[1].age < FailureTtl /\ failed <= entry[1].age
      BY <1>1, <1>2, <2>2 DEF Entry, Ages, EntryInv
    <3>2. failed < FailureTtl
      BY <3>1, Constants DEF IInv, Types
    <3> QED BY <3>2 DEF Timely
  <2> QED BY <1>1, <2>1, <2>2 DEF Entry
<1> QED BY <1>1, <1>2, <1>3 DEF EntryInv

LEMMA LoadWarmKeepsInvariant ==
    ASSUME IInv, NEW c \in Caller, LoadWarm(c)
    PROVE  IInv'
<1>1. /\ answer' = <<entry[1].lists>> /\ entry[1].lists \in Copies
      /\ Whole(entry[1].lists) /\ Timely(entry[1].lists)
      /\ ~Fetching => Current(entry[1].lists)
  BY WarmIsTimely DEF LoadWarm, Entry
<1>2. UNCHANGED <<entry, flight, waiting, sent, failed, had>>
  BY DEF LoadWarm
<1>3. Types'
  BY <1>1, <1>2, OptIntro DEF IInv, Types
<1>4. EntriesInv' /\ FlightsInv'
  BY <1>2 DEF IInv, EntriesInv, FlightsInv, EntryInv, FetchInv, Fetching,
              Current, Whole, Timely
<1>5. AnswersInv'
  BY <1>1, <1>2 DEF AnswersInv, Fetching, Current, Whole, Timely
<1> QED BY <1>3, <1>4, <1>5 DEF IInv

LEMMA LoadColdKeepsInvariant ==
    ASSUME IInv, NEW c \in Caller, LoadCold(c)
    PROVE  IInv'
<1> DEFINE f == [phase |-> "queued", age |-> 0, cached |-> <<>>,
                 call |-> [l \in List |-> "pending"],
                 got |-> Nothing, result |-> Nothing]
<1>1. /\ flight' = IF flight # <<>> THEN flight ELSE <<f>>
      /\ waiting' = waiting \cup {c} /\ answer' = <<>>
      /\ UNCHANGED <<entry, sent, failed, had>>
  BY DEF LoadCold
<1>2. f \in Refresh /\ f.phase = "queued" /\ \A l \in List : f.call[l] = "pending"
  <2>1. Nothing \in Copies
    BY DEF Nothing, Copies
  <2>2. <<>> \in Opt(Entry)
    BY DEF Opt
  <2> QED BY <2>1, <2>2, Constants DEF Refresh
<1> HIDE DEF f
<1>3. Types'
  <2>1. <<>> \in Opt(Copies)
    BY DEF Opt
  <2> QED BY <1>1, <1>2, <2>1, OptIntro DEF IInv, Types
<1>4. Fetching' <=> Fetching
  BY <1>1, <1>2 DEF Fetching
<1>5. EntriesInv'
  BY <1>1, <1>4 DEF IInv, EntriesInv, EntryInv, Current, Whole
<1>6. FlightsInv'
  <2>1. CASE flight # <<>>
    BY <1>1, <2>1 DEF IInv, FlightsInv, FetchInv, Fetching, Current, Whole, Timely
  <2>2. CASE flight = <<>>
    BY <1>1, <1>2, <2>2 DEF FlightsInv, Fetching
  <2> QED BY <2>1, <2>2
<1>7. AnswersInv'
  BY <1>1 DEF AnswersInv
<1> QED BY <1>3, <1>5, <1>6, <1>7 DEF IInv

LEMMA RunKeepsInvariant ==
    ASSUME IInv, Run
    PROVE  IInv'
<1> DEFINE f == flight[1]
           warm == [f EXCEPT !.phase = "settled", !.result = entry[1].lists]
           cold == [f EXCEPT !.phase = "fetching", !.cached = entry]
<1>1. /\ flight' = <<IF Warm THEN warm ELSE cold>> /\ answer' = <<>>
      /\ UNCHANGED <<entry, waiting, sent, failed, had>>
  BY DEF Run
<1>2. f \in Refresh /\ f.phase = "queued" /\ ~Fetching
      /\ \A l \in List : f.call[l] = "pending"
  BY OptMember DEF Run, Fetching, IInv, Types, FlightsInv
<1>3. entry # <<>> => Current(entry[1].lists) /\ EntryInv(entry[1])
  BY <1>2 DEF IInv, EntriesInv
<1>4. Warm => /\ warm \in Refresh /\ warm.phase = "settled"
              /\ warm.result = entry[1].lists
  BY <1>2, WarmIsTimely DEF Refresh, Entry
<1>5. /\ cold \in Refresh /\ cold.phase = "fetching"
      /\ cold.cached = entry /\ cold.call = f.call
  BY <1>2 DEF Refresh, IInv, Types
<1> HIDE DEF f, warm, cold
<1>6. Types'
  <2>1. <<>> \in Opt(Copies)
    BY DEF Opt
  <2> QED BY <1>1, <1>4, <1>5, <2>1, OptIntro DEF IInv, Types
<1>7. EntriesInv'
  BY <1>1, <1>3 DEF IInv, EntriesInv, EntryInv, Current, Whole
<1>8. FlightsInv'
  <2>1. CASE Warm
    <3>1. flight' = <<warm>> /\ ~Fetching'
      BY <1>1, <1>4, <2>1 DEF Fetching
    <3>2. Current(entry[1].lists) /\ Whole(entry[1].lists) /\ Timely(entry[1].lists)
      BY <1>2, <2>1, WarmIsTimely
    <3> QED BY <1>1, <1>4, <2>1, <3>1, <3>2 DEF FlightsInv, Current, Whole, Timely
  <2>2. CASE ~Warm
    <3>1. flight' = <<cold>>
      BY <1>1, <2>2
    <3>2. \A l \in List : cold.call[l] # "arrived"
      BY <1>2, <1>5
    <3>3. FetchInv(flight[1])'
      BY <1>1, <1>3, <1>5, <3>1, <3>2 DEF FetchInv, Current
    <3>4. flight'[1].phase = "fetching"
      BY <1>5, <3>1
    <3> QED BY <3>3, <3>4 DEF FlightsInv, Fetching
  <2> QED BY <2>1, <2>2
<1>9. AnswersInv'
  BY <1>1 DEF AnswersInv
<1> QED BY <1>6, <1>7, <1>8, <1>9 DEF IInv

(* A call of the refresh ends, with a list or without.                     *)
LEMMA ListEndsKeepsInvariant ==
    ASSUME IInv, NEW k \in List, ListArrives(k) \/ ListFails(k)
    PROVE  IInv'
<1> DEFINE f == flight[1]
           g == flight'[1]
<1>1. /\ Fetching /\ f \in Refresh /\ f.phase = "fetching" /\ f.call[k] = "pending"
      /\ flight # <<>> /\ FetchInv(f)
  BY OptMember DEF ListArrives, ListFails, Pending, Fetching, IInv, Types, FlightsInv
<1>2. /\ answer' = <<>> /\ UNCHANGED <<entry, waiting, failed, had>>
  BY DEF ListArrives, ListFails
<1>3. /\ g \in Refresh /\ flight' = <<g>> /\ g.phase = "fetching"
      /\ g.cached = f.cached /\ g.age = f.age
      /\ \A l \in List : l # k => g.call[l] = f.call[l] /\ g.got[l] = f.got[l]
      /\ g.call[k] = "arrived" => g.got[k] = 0 /\ sent' = [sent EXCEPT ![k] = 0]
      /\ sent' = [sent EXCEPT ![k] = IF g.call[k] = "arrived" THEN 0 ELSE @]
  <2>1. CASE ListArrives(k)
    <3> DEFINE call == [f.call EXCEPT ![k] = "arrived"]
               got == [f.got EXCEPT ![k] = 0]
    <3>1. /\ call \in [List -> {"pending", "arrived", "failed"}] /\ got \in Copies
          /\ call[k] = "arrived" /\ got[k] = 0
          /\ \A l \in List : l # k => call[l] = f.call[l] /\ got[l] = f.got[l]
      BY <1>1, Constants DEF Refresh, Copies
    <3>2. flight' = <<[f EXCEPT !.call = call, !.got = got]>>
      BY <2>1 DEF ListArrives
    <3>3. sent' = [sent EXCEPT ![k] = 0]
      BY <2>1 DEF ListArrives
    <3> HIDE DEF call, got, f
    <3>4. g = [f EXCEPT !.call = call, !.got = got]
      BY <3>2
    <3>5. /\ g \in Refresh /\ g.phase = f.phase /\ g.cached = f.cached /\ g.age = f.age
          /\ g.call = call /\ g.got = got
      BY <1>1, <3>1, <3>4 DEF Refresh
    <3>6. flight' = <<g>>
      BY <3>2, <3>4
    <3> HIDE DEF g
    <3> QED BY <1>1, <3>1, <3>3, <3>5, <3>6
  <2>2. CASE ListFails(k)
    <3> DEFINE call == [f.call EXCEPT ![k] = "failed"]
    <3>1. /\ call \in [List -> {"pending", "arrived", "failed"}]
          /\ call[k] = "failed"
          /\ \A l \in List : l # k => call[l] = f.call[l]
      BY <1>1 DEF Refresh
    <3>2. flight' = <<[f EXCEPT !.call = call]>>
      BY <2>2 DEF ListFails
    <3>3. sent' = [sent EXCEPT ![k] = @]
      BY <2>2 DEF ListFails, IInv, Types
    <3> HIDE DEF call, f
    <3>4. g = [f EXCEPT !.call = call]
      BY <3>2
    <3>5. /\ g \in Refresh /\ g.phase = f.phase /\ g.cached = f.cached /\ g.age = f.age
          /\ g.call = call /\ g.got = f.got
      BY <1>1, <3>1, <3>4 DEF Refresh
    <3>6. flight' = <<g>>
      BY <3>2, <3>4
    <3> HIDE DEF g
    <3> QED BY <1>1, <3>1, <3>3, <3>5, <3>6
  <2> QED BY <2>1, <2>2
<1> HIDE DEF f, g
<1>4. Fetching' /\ flight'[1] = g
  BY <1>3 DEF Fetching
<1>5. sent' \in [List -> Ages] /\ \A l \in List : l # k => sent'[l] = sent[l]
  BY <1>3, Constants DEF IInv, Types
<1>6. Types'
  <2>1. <<>> \in Opt(Copies) /\ flight' \in Opt(Refresh)
    BY <1>3, OptIntro DEF Opt
  <2> QED BY <1>2, <1>5, <2>1 DEF IInv, Types
<1>7. EntriesInv'
  BY <1>2, <1>4 DEF IInv, EntriesInv, EntryInv, Whole
<1>8. FetchInv(flight[1])'
  <2> SUFFICES ASSUME NEW l \in List
               PROVE  IF g.call[l] = "arrived"
                      THEN g.got[l] = sent'[l] /\ g.got[l] \in 0..g.age
                      ELSE g.cached # <<>> /\ g.cached[1].lists[l] # None =>
                               g.cached[1].lists[l] = sent'[l]
    BY <1>1, <1>2, <1>3, <1>4 DEF FetchInv
  <2>1. CASE l # k
    BY <2>1, <1>1, <1>3, <1>5 DEF FetchInv
  <2>2. CASE l = k /\ g.call[k] = "arrived"
    <3>1. sent'[k] = 0 /\ g.got[k] = 0 /\ 0 \in 0..g.age
      BY <2>2, <1>1, <1>3 DEF IInv, Types, Refresh
    <3> QED BY <2>2, <3>1
  <2>3. CASE l = k /\ g.call[k] # "arrived"
    <3>1. sent'[k] = sent[k]
      BY <2>3, <1>3 DEF IInv, Types
    <3> QED BY <2>3, <3>1, <1>1, <1>3 DEF FetchInv
  <2> QED BY <2>1, <2>2, <2>3
<1>9. FlightsInv'
  BY <1>3, <1>4, <1>8 DEF FlightsInv
<1>10. AnswersInv'
  BY <1>2 DEF AnswersInv
<1> QED BY <1>6, <1>7, <1>9, <1>10 DEF IInv

(* What a refresh that is done puts together, list by list.                *)
LEMMA PickedIsRight ==
    ASSUME IInv, Fetching, \A l \in List : ~Pending(l)
    PROVE  LET f == flight[1]
               lists == [l \in List |-> pick(f, l)]
           IN  /\ f \in Refresh /\ lists \in Copies
               /\ Current(lists) /\ Whole(lists)
               /\ ~Failed(f) => \A l \in List : lists[l] \in 0..FetchMax
<1> DEFINE f == flight[1]
           lists == [l \in List |-> pick(f, l)]
<1>1. /\ f \in Refresh /\ FetchInv(f) /\ flight # <<>> /\ f.phase = "fetching"
  BY OptMember DEF Fetching, IInv, Types, FlightsInv
<1>2. \A l \in List : f.call[l] \in {"arrived", "failed"}
  BY <1>1 DEF Pending, Refresh
<1>3. f.cached # <<>> => f.cached[1].lists \in Copies
  BY <1>1, OptMember DEF Refresh, Entry
<1> HIDE DEF f
<1>4. \A l \in List :
          lists[l] = IF f.call[l] = "arrived" THEN f.got[l]
                     ELSE IF f.cached # <<>> THEN f.cached[1].lists[l] ELSE None
  BY DEF pick
<1> HIDE DEF lists
<1>5. lists \in Copies
  <2>1. \A l \in List : lists[l] \in Ages \cup {None}
    BY <1>1, <1>3, <1>4 DEF Refresh, Copies
  <2>2. lists = [l \in List |-> lists[l]]
    BY DEF lists
  <2> QED BY <2>1, <2>2 DEF Copies
<1>6. Current(lists)
  BY <1>1, <1>4 DEF Current, FetchInv
<1>7. Whole(lists)
  <2> SUFFICES ASSUME NEW l \in had PROVE lists[l] # None
    BY DEF Whole
  <2>1. l \in List /\ entry # <<>> /\ Whole(entry[1].lists)
    BY DEF IInv, Types, EntriesInv, EntryInv
  <2>2. f.cached = entry /\ entry[1].lists[l] # None
    BY <1>1, <2>1 DEF FetchInv, Whole
  <2>3. f.call[l] = "arrived" => f.got[l] # None
    <3>1. f.call[l] = "arrived" => f.got[l] = sent[l] /\ sent[l] \in Ages
      BY <1>1, <2>1 DEF FetchInv, IInv, Types
    <3> QED BY <3>1, Constants
  <2> QED BY <1>4, <2>1, <2>2, <2>3
<1>8. ASSUME ~Failed(f), NEW l \in List PROVE lists[l] \in 0..FetchMax
  <2>1. f.call[l] = "arrived"
    BY <1>2, <1>8 DEF Failed
  <2>2. lists[l] = f.got[l] /\ f.got[l] \in 0..f.age
    BY <1>1, <1>4, <2>1 DEF FetchInv
  <2>3. f.age \in 0..FetchMax
    BY <1>1 DEF Refresh
  <2> QED BY <2>2, <2>3, Constants
<1> QED BY <1>1, <1>5, <1>6, <1>7, <1>8 DEF f, lists

LEMMA StoreKeepsInvariant ==
    ASSUME IInv, Store
    PROVE  IInv'
<1> DEFINE f == flight[1]
           lists == [l \in List |-> pick(f, l)]
           e == [lists |-> lists, age |-> 0, ttl |-> TtlAfter(f)]
           g == [f EXCEPT !.phase = "settled", !.result = lists]
<1>1. /\ Fetching
      /\ \/ /\ entry' = <<e>> /\ had' = had \cup {l \in List : lists[l] # None}
         \/ entry' = <<>> /\ had' = {}
      /\ flight' = <<g>>
      /\ failed' = IF Failed(f) THEN 0 ELSE failed
      /\ answer' = <<>>
      /\ UNCHANGED <<waiting, sent>>
  BY DEF Store, Fetching
<1>2. /\ f \in Refresh /\ lists \in Copies
      /\ Current(lists) /\ Whole(lists)
      /\ ~Failed(f) => \A l \in List : lists[l] \in 0..FetchMax
  BY <1>1, PickedIsRight DEF Store
<1> HIDE DEF f, lists
<1>3. /\ e \in Entry /\ e.lists = lists /\ e.age = 0
      /\ e.ttl = IF Failed(f) THEN FailureTtl ELSE TTL
  BY <1>2, Constants DEF Entry, TtlAfter
<1>4. g \in Refresh /\ g.phase = "settled" /\ g.result = lists
  BY <1>2 DEF Refresh
<1> HIDE DEF e, g
<1>5. flight'[1] = g /\ flight' # <<>> /\ ~Fetching'
  BY <1>1, <1>4 DEF Fetching
<1>6. /\ \A l \in had' : lists[l] # None
      /\ \A l \in List : lists[l] # None => lists[l] = sent'[l]
  BY <1>1, <1>2 DEF Whole, Current
<1>7. (\E l \in List : lists[l] = None \/ lists[l] >= TTL + FetchMax)
          => failed' < FailureTtl
  <2>1. CASE Failed(f)
    BY <1>1, <2>1, Constants
  <2>2. CASE ~Failed(f)
    <3>1. \A l \in List : ~(lists[l] = None \/ lists[l] >= TTL + FetchMax)
      BY <1>2, <2>2, Constants DEF None
    <3> QED BY <3>1
  <2> QED BY <2>1, <2>2
<1>8. EntriesInv'
  <2>1. CASE entry' = <<>> /\ had' = {}
    BY <2>1 DEF EntriesInv
  <2>2. CASE entry' = <<e>>
    <3>1. entry'[1] = e /\ entry' # <<>>
      BY <2>2
    <3>2. EntryInv(entry[1])'
      <4>1. e.ttl = TTL => \A l \in List : e.lists[l] \in 0..(e.age + FetchMax)
        BY <1>2, <1>3, Constants
      <4>2. e.ttl = FailureTtl => failed' <= e.age
        BY <1>1, <1>3, Constants
      <4>3. Whole(entry[1].lists)'
        BY <1>3, <1>6, <3>1 DEF Whole
      <4> QED BY <3>1, <4>1, <4>2, <4>3 DEF EntryInv
    <3>3. Current(entry[1].lists)'
      BY <1>3, <1>6, <3>1 DEF Current
    <3> QED BY <3>1, <3>2, <3>3 DEF EntriesInv
  <2> QED BY <1>1, <2>1, <2>2
<1>9. FlightsInv'
  <2>1. flight'[1].result = lists /\ flight'[1].phase = "settled"
    BY <1>4, <1>5
  <2>2. Whole(flight[1].result)'
    BY <1>6, <2>1 DEF Whole
  <2>3. Current(flight[1].result)'
    BY <1>6, <2>1 DEF Current
  <2>4. Timely(flight[1].result)'
    BY <1>7, <2>1 DEF Timely
  <2> QED BY <1>5, <2>1, <2>2, <2>3, <2>4 DEF FlightsInv
<1>10. AnswersInv'
  BY <1>1 DEF AnswersInv
<1>11. Types'
  <2>1. <<>> \in Opt(Copies) /\ <<>> \in Opt(Entry) /\ flight' \in Opt(Refresh)
    BY <1>1, <1>4, OptIntro DEF Opt
  <2>2. entry' \in Opt(Entry)
    BY <1>1, <1>3, <2>1, OptIntro
  <2>3. failed' \in 0..FailureTtl
    BY <1>1, Constants DEF IInv, Types
  <2>4. had' \subseteq List
    BY <1>1 DEF IInv, Types
  <2> QED BY <1>1, <2>1, <2>2, <2>3, <2>4 DEF IInv, Types
<1> QED BY <1>8, <1>9, <1>10, <1>11 DEF IInv

LEMMA FinishKeepsInvariant ==
    ASSUME IInv, Finish
    PROVE  IInv'
<1> DEFINE f == flight[1]
<1>1. /\ flight # <<>> /\ f \in Refresh /\ f.phase = "settled" /\ ~Fetching
      /\ Current(f.result) /\ Whole(f.result) /\ Timely(f.result)
      /\ f.result \in Copies
  BY OptMember DEF Finish, Fetching, IInv, Types, FlightsInv, Refresh
<1>2. /\ flight' = <<>> /\ waiting' = waiting \ Served /\ answer' = <<f.result>>
      /\ UNCHANGED <<entry, sent, failed, had>>
  BY DEF Finish
<1> HIDE DEF f
<1>3. Types'
  <2>1. <<>> \in Opt(Refresh)
    BY DEF Opt
  <2> QED BY <1>1, <1>2, <2>1, OptIntro DEF IInv, Types
<1>4. EntriesInv'
  BY <1>1, <1>2 DEF IInv, EntriesInv, EntryInv, Fetching, Current, Whole
<1>5. FlightsInv'
  BY <1>2 DEF FlightsInv, Fetching
<1>6. AnswersInv'
  BY <1>1, <1>2 DEF AnswersInv, Current, Whole, Timely
<1> QED BY <1>3, <1>4, <1>5, <1>6 DEF IInv

(* The entry goes, to the sweeper or to another account.                   *)
LEMMA DropKeepsInvariant ==
    ASSUME IInv, entry' = <<>>, had' = {}, answer' = <<>>,
           UNCHANGED <<flight, waiting, sent, failed>>
    PROVE  IInv'
<1>1. Types'
  <2>1. <<>> \in Opt(Entry) /\ <<>> \in Opt(Copies)
    BY DEF Opt
  <2> QED BY <2>1 DEF IInv, Types
<1>2. EntriesInv' /\ AnswersInv'
  BY DEF EntriesInv, AnswersInv
<1>3. Fetching' = Fetching
  BY DEF Fetching
<1>4. FlightsInv'
  BY <1>3 DEF IInv, FlightsInv, FetchInv, Current, Whole, Timely
<1> QED BY <1>1, <1>2, <1>4 DEF IInv

-----------------------------------------------------------------------------
(* Time.                                                                   *)
LEMMA OlderIsOlder ==
    ASSUME NEW a \in Ages \cup {None}
    PROVE  /\ Older(a) \in Ages \cup {None}
           /\ Older(a) = None <=> a = None
           /\ a \in Ages => Older(a) \in Ages /\ a <= Older(a)
           /\ \A b \in Ages, k \in Nat : a \in 0..(b + k) => Older(a) \in 0..(Older(b) + k)
           /\ \A b \in Nat : a \in 0..b => Older(a) \in 0..(b + 1)
BY Constants DEF Older, Ages, None

LEMMA OlderListsAreOlder ==
    ASSUME NEW lists \in Copies
    PROVE  /\ OlderLists(lists) \in Copies
           /\ \A l \in List : OlderLists(lists)[l] = Older(lists[l])
BY OlderIsOlder DEF OlderLists, Copies

LEMMA OlderEntryIsOlder ==
    ASSUME NEW e \in Entry
    PROVE  /\ OlderEntry(e) \in Entry
           /\ OlderEntry(e).lists = OlderLists(e.lists)
           /\ OlderEntry(e).age = Older(e.age)
           /\ OlderEntry(e).ttl = e.ttl
<1>1. OlderLists(e.lists) \in Copies /\ Older(e.age) \in Ages
  BY OlderListsAreOlder, OlderIsOlder DEF Entry
<1> QED BY <1>1 DEF OlderEntry, Entry

LEMMA TickKeepsInvariant ==
    ASSUME IInv, Tick
    PROVE  IInv'
<1>1. /\ entry' = IF entry = <<>> THEN <<>> ELSE <<OlderEntry(entry[1])>>
      /\ sent' = OlderLists(sent)
      /\ failed' = IF failed < FailureTtl THEN failed + 1 ELSE failed
      /\ answer' = <<>>
      /\ UNCHANGED <<waiting, had>>
  BY DEF Tick
<1>2. flight # <<>> => Fetching
  BY DEF Tick, Quiet, Pending, Fetching
<1>3. /\ sent \in Copies /\ sent' \in [List -> Ages]
      /\ \A l \in List : sent'[l] = Older(sent[l])
  <2>1. sent \in [List -> Ages]
    BY DEF IInv, Types
  <2>2. sent \in Copies
    BY <2>1 DEF Copies
  <2>3. \A l \in List : Older(sent[l]) \in Ages
    BY <2>1, OlderIsOlder
  <2> QED BY <1>1, <2>2, <2>3, OlderListsAreOlder DEF OlderLists
<1>4. entry # <<>> =>
          /\ entry[1] \in Entry /\ entry'[1] = OlderEntry(entry[1]) /\ entry' # <<>>
          /\ entry'[1] \in Entry
          /\ entry'[1].ttl = entry[1].ttl /\ entry'[1].age = Older(entry[1].age)
          /\ \A l \in List : entry'[1].lists[l] = Older(entry[1].lists[l])
          /\ entry[1].lists \in Copies /\ entry[1].age \in Ages
  <2> SUFFICES ASSUME entry # <<>>
               PROVE  /\ entry[1] \in Entry /\ entry'[1] = OlderEntry(entry[1]) /\ entry' # <<>>
                      /\ entry'[1] \in Entry
                      /\ entry'[1].ttl = entry[1].ttl /\ entry'[1].age = Older(entry[1].age)
                      /\ \A l \in List : entry'[1].lists[l] = Older(entry[1].lists[l])
                      /\ entry[1].lists \in Copies /\ entry[1].age \in Ages
    OBVIOUS
  <2>1. entry[1] \in Entry
    BY OptMember DEF IInv, Types
  <2>2. entry'[1] = OlderEntry(entry[1]) /\ entry' # <<>>
    BY <1>1
  <2>3. entry[1].lists \in Copies /\ entry[1].age \in Ages
    BY <2>1 DEF Entry
  <2> QED BY <2>1, <2>2, <2>3, OlderEntryIsOlder, OlderListsAreOlder
<1>5. ASSUME NEW lists \in Copies, NEW older \in Copies,
             \A l \in List : older[l] = Older(lists[l])
      PROVE  /\ Whole(lists) => Whole(older)'
             /\ \A l \in List : (lists[l] # None => lists[l] = sent[l])
                                    => (older[l] # None => older[l] = sent'[l])
  <2>1. \A l \in List : older[l] = None <=> lists[l] = None
    BY <1>5, OlderIsOlder DEF Copies
  <2>2. had \subseteq List /\ had' = had
    BY <1>1 DEF IInv, Types
  <2>3. Whole(lists) => Whole(older)'
    BY <2>1, <2>2 DEF Whole
  <2>4. \A l \in List : (lists[l] # None => lists[l] = sent[l])
                            => (older[l] # None => older[l] = sent'[l])
    BY <1>3, <1>5, <2>1
  <2> QED BY <2>3, <2>4
<1>6. failed' \in 0..FailureTtl /\ failed \in 0..FailureTtl
  BY <1>1, Constants DEF IInv, Types
<1>7. entry # <<>> => EntryInv(entry[1])'
  <2> SUFFICES ASSUME entry # <<>> PROVE EntryInv(entry[1])'
    OBVIOUS
  <2> DEFINE e == entry[1]
             o == entry'[1]
  <2>1. EntryInv(e)
    BY DEF IInv, EntriesInv
  <2>2. o.ttl = TTL => \A l \in List : o.lists[l] \in 0..(o.age + FetchMax)
    <3> SUFFICES ASSUME e.ttl = TTL, NEW l \in List
                 PROVE  Older(e.lists[l]) \in 0..(Older(e.age) + FetchMax)
      BY <1>4
    <3>1. e.lists[l] \in 0..(e.age + FetchMax) /\ e.lists[l] \in Ages \cup {None}
      BY <1>4, <2>1 DEF EntryInv, Copies
    <3>2. e.age \in Ages /\ FetchMax \in Nat
      BY <1>4, Constants
    <3> HIDE DEF e
    <3> QED BY <3>1, <3>2, OlderIsOlder
  <2>3. o.ttl = FailureTtl => failed' <= o.age
    <3> SUFFICES ASSUME e.ttl = FailureTtl PROVE failed' <= Older(e.age)
      BY <1>4
    <3>1. failed <= e.age /\ e.age \in 0..StaleMax
      BY <1>4, <2>1 DEF EntryInv, Ages
    <3> HIDE DEF e
    <3> QED BY <1>1, <1>6, <3>1, Constants DEF Older
  <2>4. Whole(entry[1].lists)'
    <3>1. entry'[1].lists \in Copies
      BY <1>4 DEF Entry
    <3> QED BY <1>4, <1>5, <2>1, <3>1 DEF EntryInv
  <2> QED BY <2>2, <2>3, <2>4 DEF EntryInv
<1>8. CASE flight = <<>>
  <2>1. flight' = <<>>
    BY <1>8 DEF Tick
  <2>2. entry # <<>> => Current(entry[1].lists)'
    <3> SUFFICES ASSUME entry # <<>> PROVE Current(entry[1].lists)'
      OBVIOUS
    <3>1. Current(entry[1].lists)
      BY <1>8 DEF IInv, EntriesInv, Fetching
    <3>2. entry'[1].lists \in Copies
      BY <1>4 DEF Entry
    <3> QED BY <1>4, <1>5, <3>1, <3>2 DEF Current
  <2>3. EntriesInv'
    BY <1>1, <1>4, <1>7, <2>2 DEF IInv, EntriesInv
  <2>4. FlightsInv' /\ AnswersInv'
    BY <1>1, <2>1 DEF FlightsInv, AnswersInv, Fetching
  <2>5. Types'
    <3>1. <<>> \in Opt(Copies) /\ <<>> \in Opt(Entry) /\ <<>> \in Opt(Refresh)
      BY DEF Opt
    <3>2. entry' \in Opt(Entry)
      BY <1>1, <1>4, <3>1, OptIntro
    <3> QED BY <1>1, <1>3, <1>6, <2>1, <3>1, <3>2 DEF IInv, Types
  <2> QED BY <2>3, <2>4, <2>5 DEF IInv
<1>9. CASE flight # <<>>
  <2> DEFINE f == flight[1]
             cached == IF f.cached = <<>> THEN <<>> ELSE <<OlderEntry(f.cached[1])>>
             g == [f EXCEPT !.age = f.age + 1, !.got = OlderLists(f.got), !.cached = cached]
  <2>1. /\ f \in Refresh /\ FetchInv(f) /\ f.phase = "fetching" /\ f.age < FetchMax
    BY <1>2, <1>9, OptMember DEF IInv, Types, FlightsInv, Fetching, Tick
  <2>2. flight' = <<g>>
    BY <1>9 DEF Tick
  <2>3. OlderLists(f.got) \in Copies /\ f.age + 1 \in 0..FetchMax
    BY <2>1, OlderListsAreOlder, Constants DEF Refresh
  <2>4. f.cached # <<>> => f.cached[1] \in Entry
    BY <2>1, OptMember DEF Refresh
  <2>5. f.cached # <<>> => OlderEntry(f.cached[1]) \in Entry
    BY <2>4, OlderEntryIsOlder
  <2>6. cached \in Opt(Entry)
    BY <2>5 DEF Opt
  <2>7. /\ g \in Refresh /\ g.phase = "fetching" /\ g.call = f.call
        /\ g.age = f.age + 1 /\ g.cached = cached /\ g.got = OlderLists(f.got)
    <3> HIDE DEF f, cached
    <3> QED BY <2>1, <2>3, <2>6 DEF Refresh
  <2>8. flight'[1] = g /\ flight' # <<>> /\ Fetching' /\ flight' \in Opt(Refresh)
    <3> HIDE DEF g
    <3> QED BY <2>2, <2>7, OptIntro DEF Fetching
  <2> HIDE DEF g
  <2>9. entry' # <<>> => g.cached = entry'
    <3> SUFFICES ASSUME entry # <<>> PROVE g.cached = entry'
      BY <1>1
    <3>1. f.cached = entry
      BY <2>1 DEF FetchInv
    <3> QED BY <1>1, <2>7, <3>1
  <2>10. ASSUME NEW l \in List
         PROVE  IF g.call[l] = "arrived" THEN g.got[l] = sent'[l] /\ g.got[l] \in 0..g.age
                ELSE g.cached # <<>> /\ g.cached[1].lists[l] # None =>
                         g.cached[1].lists[l] = sent'[l]
    <3>1. CASE f.call[l] = "arrived"
      <4>1. /\ f.got[l] = sent[l] /\ f.got[l] \in 0..f.age /\ f.age \in Nat
            /\ f.got \in Copies /\ f.got[l] \in Ages \cup {None}
        BY <2>1, <3>1 DEF FetchInv, Refresh, Copies
      <4>2. g.got[l] = Older(f.got[l]) /\ g.call[l] = "arrived" /\ g.age = f.age + 1
        BY <2>7, <3>1, <4>1, OlderListsAreOlder
      <4>3. Older(f.got[l]) \in 0..(f.age + 1)
        BY <4>1, OlderIsOlder
      <4> QED BY <1>3, <4>1, <4>2, <4>3
    <3>2. CASE f.call[l] # "arrived"
      <4> SUFFICES ASSUME g.cached # <<>>
                   PROVE  g.cached[1].lists[l] # None => g.cached[1].lists[l] = sent'[l]
        BY <2>7, <3>2
      <4>1. f.cached # <<>> /\ g.cached[1] = OlderEntry(f.cached[1])
        BY <2>7
      <4>2. f.cached[1] \in Entry /\ f.cached[1].lists \in Copies
        BY <2>4, <4>1 DEF Entry
      <4>3. f.cached[1].lists[l] # None => f.cached[1].lists[l] = sent[l]
        BY <2>1, <3>2, <4>1 DEF FetchInv
      <4>4. /\ g.cached[1].lists = OlderLists(f.cached[1].lists)
            /\ OlderLists(f.cached[1].lists) \in Copies
            /\ \A k \in List : OlderLists(f.cached[1].lists)[k] = Older(f.cached[1].lists[k])
        BY <4>1, <4>2, OlderEntryIsOlder, OlderListsAreOlder
      <4> QED BY <1>5, <4>2, <4>3, <4>4
    <3> QED BY <3>1, <3>2
  <2>11. FetchInv(flight[1])'
    BY <2>8, <2>9, <2>10 DEF FetchInv
  <2>12. FlightsInv' /\ AnswersInv'
    BY <1>1, <2>7, <2>8, <2>11 DEF FlightsInv, AnswersInv
  <2>13. EntriesInv'
    BY <1>1, <1>4, <1>7, <2>8 DEF IInv, EntriesInv
  <2>14. Types'
    <3>1. <<>> \in Opt(Copies) /\ <<>> \in Opt(Entry)
      BY DEF Opt
    <3>2. entry' \in Opt(Entry)
      BY <1>1, <1>4, <3>1, OptIntro
    <3> QED BY <1>1, <1>3, <1>6, <2>8, <3>1, <3>2 DEF IInv, Types
  <2> QED BY <2>12, <2>13, <2>14 DEF IInv
<1> QED BY <1>8, <1>9

LEMMA NextKeepsInvariant ==
    IInv /\ [Next]_vars => IInv'
<1> SUFFICES ASSUME IInv, [Next]_vars PROVE IInv'
  OBVIOUS
<1>1. CASE Next
  <2>1. ASSUME NEW c \in Caller, LoadWarm(c) \/ LoadCold(c) PROVE IInv'
    BY <2>1, LoadWarmKeepsInvariant, LoadColdKeepsInvariant
  <2>2. CASE Run \/ Store \/ Finish
    BY <2>2, RunKeepsInvariant, StoreKeepsInvariant, FinishKeepsInvariant
  <2>3. ASSUME NEW l \in List, ListArrives(l) \/ ListFails(l) PROVE IInv'
    BY <2>3, ListEndsKeepsInvariant
  <2>4. CASE Sweep
    <3>1. had' = {}
      BY <2>4 DEF Sweep, SweepAge
    <3> QED BY <2>4, <3>1, DropKeepsInvariant DEF Sweep
  <2>5. CASE Evict
    BY <2>5, DropKeepsInvariant DEF Evict
  <2>6. CASE Tick
    BY <2>6, TickKeepsInvariant
  <2> QED BY <1>1, <2>1, <2>2, <2>3, <2>4, <2>5, <2>6 DEF Next, Proceed
<1>2. CASE UNCHANGED vars
  <2>1. Types' /\ EntriesInv' /\ AnswersInv'
    BY <1>2 DEF vars, IInv, Types, EntriesInv, AnswersInv, EntryInv, Fetching,
                Current, Whole, Timely
  <2>2. FlightsInv'
    BY <1>2 DEF vars, IInv, FlightsInv, FetchInv, Fetching, Current, Whole, Timely
  <2> QED BY <2>1, <2>2 DEF IInv
<1> QED BY <1>1, <1>2

(* Of the entry, the refresh under way and the last answer: every list is  *)
(* current, whole and timely, which each step keeps.                       *)
THEOREM Inductive ==
    Spec => []IInv
BY InitImpliesInvariant, NextKeepsInvariant, PTL DEF Spec

(* Every list is one the panel sent or the empty one, and none undefined.  *)
THEOREM TypeCorrect ==
    Spec => []TypeOK
BY Inductive, InvariantImpliesTypeOK, PTL

(* A list that fails costs no other its refresh, and none that was held    *)
(* and not evicted is answered empty, however many refreshes fail.         *)
THEOREM ListsAreTheLast ==
    Spec => []EachListIsTheLast
BY Inductive, InvariantImpliesProperties, PTL

(* An empty or overdue list is asked for again at the pace of FailureTtl.  *)
THEOREM FailuresAreRetried ==
    Spec => []FailureRetriedSoon
BY Inductive, InvariantImpliesProperties, PTL

-----------------------------------------------------------------------------
(* The shelf.                                                              *)

Variant == {"new", "featured"}

(* catalogComparator is a strict weak order of the items.                  *)
LEMMA BeforeIsAnOrder ==
    ASSUME NEW variant, NEW e \in 0..MaxEpoch, NEW a \in Item, NEW b \in Item, NEW c \in Item
    PROVE  /\ ~(Before(variant, e, a, b) /\ Before(variant, e, b, a))
           /\ Before(variant, e, a, b) /\ Before(variant, e, b, c) => Before(variant, e, a, c)
           /\ ~Before(variant, e, a, b) /\ ~Before(variant, e, b, c)
                  => ~Before(variant, e, a, c)
<1>1. /\ a.added \in Nat /\ b.added \in Nat /\ c.added \in Nat
      /\ a.id \in Nat /\ b.id \in Nat /\ c.id \in Nat
      /\ a.id \in ItemId /\ b.id \in ItemId /\ c.id \in ItemId
  BY CatalogAssumption DEF Item
<1>2. Hash[e][a.id] \in Nat /\ Hash[e][b.id] \in Nat /\ Hash[e][c.id] \in Nat
  BY <1>1, CatalogAssumption
<1>3. CASE variant = "new"
  BY <1>1, <1>3 DEF Before
<1>4. CASE variant # "new"
  BY <1>1, <1>2, <1>4 DEF Before
<1> QED BY <1>3, <1>4

(* So what precedes what, ties as they were, is a total order.             *)
Order(s, variant, e) ==
    {p \in (1..Len(s)) \X (1..Len(s)) : Precedes(s, variant, e, p[1], p[2])}

LEMMA PrecedesIsTotal ==
    ASSUME NEW s \in Seq(Item), NEW variant, NEW e \in 0..MaxEpoch
    PROVE  LET R == Order(s, variant, e)
               n == Len(s)
           IN  /\ n \in Nat /\ DOMAIN s = 1..n
               /\ \A i, j \in 1..n : <<i, j>> \in R <=> Precedes(s, variant, e, i, j)
               /\ \A i, j \in 1..n : <<i, j>> \in R \/ <<j, i>> \in R
               /\ \A i, j \in 1..n : <<i, j>> \in R /\ <<j, i>> \in R => i = j
               /\ \A i, j, k \in 1..n : <<i, j>> \in R /\ <<j, k>> \in R => <<i, k>> \in R
<1> DEFINE R == Order(s, variant, e)
           n == Len(s)
           P(i, j) == Precedes(s, variant, e, i, j)
           B(i, j) == Before(variant, e, s[i], s[j])
<1>1. n \in Nat /\ DOMAIN s = 1..n /\ \A i \in 1..n : s[i] \in Item
  BY LenProperties, ElementOfSeq
<1>2. \A i, j \in 1..n : <<i, j>> \in R <=> P(i, j)
  BY DEF Order
<1>3. \A i, j, k \in 1..n : /\ ~(B(i, j) /\ B(j, i))
                            /\ B(i, j) /\ B(j, k) => B(i, k)
                            /\ ~B(i, j) /\ ~B(j, k) => ~B(i, k)
  BY <1>1, BeforeIsAnOrder
<1>4. \A i, j \in 1..n : P(i, j) <=> B(i, j) \/ (~B(j, i) /\ i <= j)
  BY DEF Precedes
<1>5. \A i \in 1..n : i \in Int
  OBVIOUS
<1> HIDE DEF B, P, R, n
<1>6. \A i, j \in 1..n : P(i, j) \/ P(j, i)
  BY <1>3, <1>4, <1>5
<1>7. \A i, j \in 1..n : P(i, j) /\ P(j, i) => i = j
  BY <1>3, <1>4, <1>5
<1>8. \A i, j, k \in 1..n : P(i, j) /\ P(j, k) => P(i, k)
  <2> SUFFICES ASSUME NEW i \in 1..n, NEW j \in 1..n, NEW k \in 1..n, P(i, j), P(j, k)
               PROVE  P(i, k)
    OBVIOUS
  <2>1. /\ B(i, j) \/ (~B(j, i) /\ i <= j)
        /\ B(j, k) \/ (~B(k, j) /\ j <= k)
        /\ P(i, k) <=> B(i, k) \/ (~B(k, i) /\ i <= k)
    BY <1>4
  <2>2. i <= j /\ j <= k => i <= k
    BY <1>5
  <2>3. CASE B(i, k)
    BY <2>1, <2>3
  <2>4. CASE ~B(i, k)
    <3>1. ~(B(i, j) /\ B(j, k))
      BY <1>3, <2>4
    <3>2. ~B(i, j) \/ ~B(j, i)
      BY <1>3
    <3>3. ASSUME B(i, j) PROVE FALSE
      <4>1. ~B(j, k) /\ ~B(k, j) /\ ~B(j, i)
        BY <2>1, <3>1, <3>2, <3>3
      <4>2. ~B(i, j)
        BY <1>3, <2>4, <4>1
      <4> QED BY <3>3, <4>2
    <3>4. ASSUME B(j, k) PROVE FALSE
      <4>1. ~B(i, j) /\ ~B(j, i)
        BY <2>1, <3>1, <3>4
      <4>2. ~B(j, k)
        BY <1>3, <2>4, <4>1
      <4> QED BY <3>4, <4>2
    <3>5. ~B(j, i) /\ ~B(k, j) /\ i <= j /\ j <= k
      BY <2>1, <3>3, <3>4
    <3>6. ~B(k, i)
      BY <1>3, <3>5
    <3> QED BY <2>1, <2>2, <3>5, <3>6
  <2> QED BY <2>3, <2>4
<1> QED BY <1>1, <1>2, <1>6, <1>7, <1>8 DEF n, P, R

(* The places of a list are those of a total order, each taken once.       *)
LEMMA PlacesAreTaken ==
    ASSUME NEW s \in Seq(Item), NEW variant, NEW e \in 0..MaxEpoch
    PROVE  /\ Len(s) \in Nat /\ DOMAIN s = 1..Len(s)
           /\ \A i, j \in 1..Len(s) : i # j /\ Precedes(s, variant, e, i, j) =>
                  Place(s, variant, e, i) < Place(s, variant, e, j)
           /\ \A i, j \in 1..Len(s) :
                  Precedes(s, variant, e, i, j) \/ Precedes(s, variant, e, j, i)
           /\ \A i \in 1..Len(s) : Place(s, variant, e, i) \in 1..Len(s)
           /\ \A k \in 1..Len(s) : \E i \in 1..Len(s) : Place(s, variant, e, i) = k
<1> DEFINE R == Order(s, variant, e)
           n == Len(s)
<1>1. /\ n \in Nat /\ DOMAIN s = 1..n
      /\ \A i, j \in 1..n : <<i, j>> \in R <=> Precedes(s, variant, e, i, j)
      /\ \A i, j \in 1..n : <<i, j>> \in R \/ <<j, i>> \in R
      /\ \A i, j \in 1..n : <<i, j>> \in R /\ <<j, i>> \in R => i = j
      /\ \A i, j, k \in 1..n : <<i, j>> \in R /\ <<j, k>> \in R => <<i, k>> \in R
  BY PrecedesIsTotal
<1> HIDE DEF R, n
<1>2. \A i \in 1..n : Place(s, variant, e, i) = Cardinality(UpTo(n, R, i))
  <2> SUFFICES ASSUME NEW i \in 1..n
               PROVE  Place(s, variant, e, i) = Cardinality(UpTo(n, R, i))
    OBVIOUS
  <2>1. {j \in DOMAIN s : Precedes(s, variant, e, j, i)} = UpTo(n, R, i)
    BY <1>1 DEF UpTo
  <2> QED BY <2>1 DEF Place
<1>3. /\ \A i \in 1..n : Cardinality(UpTo(n, R, i)) \in 1..n
      /\ \A i, j \in 1..n : i # j /\ <<i, j>> \in R =>
             Cardinality(UpTo(n, R, i)) < Cardinality(UpTo(n, R, j))
      /\ \A k \in 1..n : \E i \in 1..n : Cardinality(UpTo(n, R, i)) = k
  BY ONLY <1>1, CountsAreThePlaces
<1>4. /\ \A i, j \in 1..n : i # j /\ <<i, j>> \in R =>
             Place(s, variant, e, i) < Place(s, variant, e, j)
      /\ \A i \in 1..n : Place(s, variant, e, i) \in 1..n
      /\ \A k \in 1..n : \E i \in 1..n : Place(s, variant, e, i) = k
  BY ONLY <1>2, <1>3, Zenon
<1>5. \A i, j \in 1..n : i # j /\ Precedes(s, variant, e, i, j) =>
             Place(s, variant, e, i) < Place(s, variant, e, j)
  BY ONLY <1>1, <1>4
<1>6. \A i, j \in 1..n : Precedes(s, variant, e, i, j) \/ Precedes(s, variant, e, j, i)
  BY ONLY <1>1
<1> QED BY <1>1, <1>4, <1>5, <1>6 DEF n

(* Each item is at the place that was counted for it.                      *)
LEMMA InOrderPlaces ==
    ASSUME NEW s \in Seq(Item), NEW variant, NEW e \in 0..MaxEpoch
    PROVE  /\ DOMAIN InOrder(s, variant, e) = 1..Len(s)
           /\ \A i \in 1..Len(s) : InOrder(s, variant, e)[Place(s, variant, e, i)] = s[i]
<1> DEFINE P(i) == Place(s, variant, e, i)
<1>1. /\ Len(s) \in Nat /\ DOMAIN s = 1..Len(s)
      /\ \A i, j \in 1..Len(s) : i # j /\ Precedes(s, variant, e, i, j) => P(i) < P(j)
      /\ \A i, j \in 1..Len(s) : Precedes(s, variant, e, i, j) \/ Precedes(s, variant, e, j, i)
      /\ \A i \in 1..Len(s) : P(i) \in 1..Len(s)
  BY PlacesAreTaken
<1>2. InOrder(s, variant, e) = [k \in 1..Len(s) |-> s[CHOOSE i \in 1..Len(s) : P(i) = k]]
  BY <1>1 DEF InOrder
<1> HIDE DEF P
<1>3. ASSUME NEW i \in 1..Len(s), NEW j \in 1..Len(s), P(i) = P(j)
      PROVE  i = j
  BY <1>1, <1>3
<1>4. ASSUME NEW i \in 1..Len(s)
      PROVE  (CHOOSE j \in 1..Len(s) : P(j) = P(i)) = i
  BY <1>3
<1>5. ASSUME NEW i \in 1..Len(s)
      PROVE  InOrder(s, variant, e)[P(i)] = s[i]
  <2> DEFINE g == [k \in 1..Len(s) |-> s[CHOOSE j \in 1..Len(s) : P(j) = k]]
  <2>1. P(i) \in 1..Len(s)
    BY <1>1
  <2>2. g[P(i)] = s[CHOOSE j \in 1..Len(s) : P(j) = P(i)]
    BY ONLY <2>1
  <2> HIDE DEF g
  <2>3. g[P(i)] = s[i]
    BY ONLY <2>2, <1>4, Zenon
  <2>4. InOrder(s, variant, e) = g
    BY <1>2 DEF g
  <2> QED BY <2>3, <2>4
<1> QED BY <1>2, <1>5 DEF P

(* InOrder sorts: the shelf has the items of its list, each as often, in   *)
(* the comparator's order and otherwise in theirs.                         *)
LEMMA InOrderSorts ==
    ASSUME NEW s \in Seq(Item), NEW variant, NEW e \in 0..MaxEpoch
    PROVE  /\ InOrder(s, variant, e) \in Seq(Item)
           /\ Sorts(InOrder(s, variant, e), s, variant, e)
<1> DEFINE n == Len(s)
           t == InOrder(s, variant, e)
           place == [k \in 1..n |-> CHOOSE i \in 1..n : Place(s, variant, e, i) = k]
<1>1. /\ n \in Nat /\ DOMAIN s = 1..n
      /\ \A i, j \in 1..n : i # j /\ Precedes(s, variant, e, i, j) =>
             Place(s, variant, e, i) < Place(s, variant, e, j)
      /\ \A i, j \in 1..n : Precedes(s, variant, e, i, j) \/ Precedes(s, variant, e, j, i)
      /\ \A k \in 1..n : \E i \in 1..n : Place(s, variant, e, i) = k
  BY PlacesAreTaken
<1>2. \A i \in 1..n : s[i] \in Item
  BY <1>1, ElementOfSeq
<1> HIDE DEF n
<1>3. \A k \in 1..n : place[k] \in 1..n /\ Place(s, variant, e, place[k]) = k
  BY <1>1
<1>4. t = [k \in 1..n |-> s[place[k]]]
  BY <1>1 DEF InOrder
<1>5. place \in [1..n -> 1..n]
  <2>1. DOMAIN place = 1..n /\ place = [k \in 1..n |-> place[k]]
    OBVIOUS
  <2> HIDE DEF place
  <2> QED BY <2>1, <1>3
<1> HIDE DEF place, t
<1>6. t \in [DOMAIN s -> Item]
  BY <1>1, <1>2, <1>3, <1>4
<1>7. t \in Seq(Item) /\ Len(t) = n
  BY <1>6, SameDomain DEF n
<1>8. DOMAIN t = 1..n
  BY <1>4
<1>9. ASSUME NEW a \in 1..n, NEW b \in 1..n, a < b
      PROVE  /\ place[a] # place[b]
             /\ \/ Before(variant, e, t[a], t[b])
                \/ ~Before(variant, e, t[b], t[a]) /\ place[a] < place[b]
  <2>1. a \in Int /\ b \in Int
    OBVIOUS
  <2>2. place[a] \in 1..n /\ place[b] \in 1..n /\ place[a] # place[b]
    BY <1>3, <1>9, <2>1
  <2>3. Precedes(s, variant, e, place[a], place[b])
    <3>1. CASE Precedes(s, variant, e, place[b], place[a])
      <4>1. Place(s, variant, e, place[b]) < Place(s, variant, e, place[a])
        BY <1>1, <2>2, <3>1
      <4>2. b < a
        BY <1>3, <4>1
      <4> QED BY <1>9, <2>1, <4>2
    <3> QED BY <1>1, <2>2, <3>1
  <2>4. t[a] = s[place[a]] /\ t[b] = s[place[b]]
    BY <1>4
  <2>5. \/ Before(variant, e, t[a], t[b])
        \/ ~Before(variant, e, t[b], t[a]) /\ place[a] <= place[b]
    BY <2>3, <2>4 DEF Precedes
  <2>6. place[a] <= place[b] => place[a] < place[b]
    BY <2>2
  <2> QED BY <2>2, <2>5, <2>6
<1>10. Sorts(t, s, variant, e)
  <2>1. place \in [DOMAIN t -> DOMAIN s]
    BY <1>1, <1>5, <1>8
  <2>2. \A k \in DOMAIN t : t[k] = s[place[k]]
    BY <1>4, <1>8
  <2>3. \A a, b \in DOMAIN t : a < b =>
            /\ place[a] # place[b]
            /\ \/ Before(variant, e, t[a], t[b])
               \/ ~Before(variant, e, t[b], t[a]) /\ place[a] < place[b]
    BY <1>8, <1>9
  <2> QED BY <1>7, <2>1, <2>2, <2>3 DEF Sorts, n
<1> QED BY <1>7, <1>10 DEF t

-----------------------------------------------------------------------------
(* Selections.                                                             *)

LEMMA SelectionIsAList ==
    ASSUME NEW k, NEW s \in Seq(Item), NEW want
    PROVE  /\ Selection(k, s, want) \in Seq(Item)
           /\ (\A x \in Members(s) : Selected(k, x, want)) => Selection(k, s, want) = s
<1> DEFINE places == {i \in DOMAIN s : Selected(k, s[i], want)}
<1>1. Kept(s, places) \in Seq(Item)
  BY KeptLeaves
<1>2. ASSUME \A x \in Members(s) : Selected(k, x, want)
      PROVE  places = DOMAIN s
  BY <1>2 DEF Members
<1>3. Kept(s, DOMAIN s) = s
  BY KeptAll
<1> QED BY <1>1, <1>2, <1>3 DEF Selection

LEMMA IdsOfAreIds ==
    ASSUME NEW table \in Table, NEW genre
    PROVE  IdsOf(table, genre) \in Seq(Category)
<1> DEFINE S == [id : Category, name : STRING]
           those == Kept(table, {i \in DOMAIN table : table[i].name = genre})
           named == uniqueById(those)
<1>1. table \in Seq(S)
  BY CatalogAssumption
<1>2. those \in Seq(S)
  BY <1>1, KeptLeaves
<1> HIDE DEF those, S
<1>3. named \in Seq(S)
  <2>1. {i \in DOMAIN those : \A j \in 1..(i - 1) : those[j].id # those[i].id}
            \in SUBSET DOMAIN those
    OBVIOUS
  <2> QED BY <1>2, <2>1, KeptLeaves DEF uniqueById
<1> HIDE DEF named
<1>4. Len(named) \in Nat /\ DOMAIN named = 1..Len(named) /\ \A n \in DOMAIN named : named[n] \in S
  BY <1>3, LenProperties, ElementOfSeq
<1>5. [n \in DOMAIN named |-> named[n].id] \in [DOMAIN named -> Category]
  BY <1>4 DEF S
<1>6. [n \in DOMAIN named |-> named[n].id] \in Seq(Category)
  BY <1>3, <1>5, SameDomain
<1> QED BY <1>6 DEF IdsOf, named, those

LEMMA ReversedCategory ==
    ASSUME NEW s \in Seq(Item), NEW c
    PROVE  LET t == Reverse(Kept(s, {i \in DOMAIN s : c \in s[i].cats}))
           IN  t \in Seq(Item) /\ \A x \in Members(t) : c \in x.cats
<1> DEFINE places == {i \in DOMAIN s : c \in s[i].cats}
           u == Kept(s, places)
           t == Reverse(u)
<1>1. u \in Seq(Item) /\ Members(u) = {s[i] : i \in places}
  BY KeptLeaves
<1>2. \A x \in Members(u) : c \in x.cats
  BY <1>1
<1> HIDE DEF u
<1>3. Len(u) \in Nat /\ DOMAIN u = 1..Len(u) /\ \A i \in 1..Len(u) : u[i] \in Item
  BY <1>1, LenProperties, ElementOfSeq
<1>4. t = [i \in DOMAIN u |-> u[(Len(u) - i) + 1]]
  BY <1>3 DEF Reverse
<1>5. \A i \in DOMAIN u : (Len(u) - i) + 1 \in DOMAIN u
  BY <1>3
<1> HIDE DEF t
<1>6. t \in [DOMAIN u -> Item]
  BY <1>3, <1>4, <1>5
<1>7. t \in Seq(Item)
  BY <1>1, <1>6, SameDomain
<1>8. \A x \in Members(t) : x \in Members(u)
  BY <1>4, <1>5 DEF Members
<1> QED BY <1>2, <1>7, <1>8 DEF t, u

-----------------------------------------------------------------------------
(* The inductive invariant.  Its parts speak of the lists a, the kind k    *)
(* and the period e.                                                       *)
MapsFrom(D, R) == UNION {[d -> R] : d \in SUBSET D}

Text == STRING \cup {"", "all"}
Want == [ids : SUBSET Category, name : Text]

Memo == [epoch : Int, views : MapsFrom(Variant \X Want, Seq(Item)),
         selections : MapsFrom(Want, Seq(Item))]

(* What is remembered under the list s.                                    *)
MemoOK(k, s, m) ==
    /\ m \in Memo
    /\ \A want \in DOMAIN m.selections : /\ m.selections[want] = Selection(k, s, want)
                                         /\ m.selections[want] # <<>>
    /\ \A key \in DOMAIN m.views :
           /\ m.epoch \in 0..MaxEpoch
           /\ m.views[key] = InOrder(Selection(k, s, key[2]), key[1], m.epoch)

(* The list i is one of the category c.                                    *)
OwnOK(a, c, i) == i \in 1..Len(a) /\ \A x \in Members(a[i]) : c \in x.cats

(* What a request that has read its lists makes of them, and from which    *)
(* one list it has that, if it is from one.                                *)
StockOf(a, k, q) ==
    IF q.all # 0 THEN Selection(k, a[q.all], q.want)
    ELSE IF Len(q.order) = 1 THEN a[q.from[q.order[1]]]
    ELSE uniqueById(FlattenSeq([n \in DOMAIN q.order |-> a[q.from[q.order[n]]]]))

SourceOf(q) ==
    IF q.all # 0 THEN q.all ELSE IF Len(q.order) = 1 THEN q.from[q.order[1]] ELSE 0

ShelfOf(a, k, q) ==
    Titled(IF k = "live" THEN StockOf(a, k, q)
           ELSE InOrder(StockOf(a, k, q), catalogVariant(q), q.epoch), q)

Stage == {"idle", "categories", "list", "lists", "selected", "answered"}

IsRequest(q) ==
    q \in [stage : Stage, epoch : Nat, search : BOOLEAN, variant : Variant, genre : Text,
           want : Want, order : Seq(Category), from : MapsFrom(Category, Nat), all : Nat,
           items : {q.items}, source : Nat, skip : Nat, page : {q.page}]

(* Before it has chosen a source a request has none; what it has read of   *)
(* the categories it wants are lists of theirs.                            *)
RequestOK(a, k, e, q) ==
    /\ IsRequest(q)
    /\ q.epoch \in 0..e
    /\ q.search => q.want = All /\ q.stage # "categories"
    /\ q.stage \in {"idle", "categories"} => q.want = All /\ DOMAIN q.from = {}
    /\ q.stage \notin {"selected", "answered"} => q.all = 0
    /\ q.stage = "lists" => q.want # All
    /\ q.want # All => q.want.ids = Members(q.order)
    /\ DOMAIN q.from \subseteq q.want.ids
    /\ \A c \in DOMAIN q.from : OwnOK(a, c, q.from[c])
    /\ q.all <= Len(a)
    /\ q.stage \in {"selected", "answered"} /\ q.all = 0 =>
           q.want # All /\ DOMAIN q.from = q.want.ids
    /\ q.stage = "selected" =>
           /\ q.items = StockOf(a, k, q) /\ q.source = SourceOf(q)
           /\ q.all # 0 /\ q.want # All => q.items # <<>>
    /\ q.stage = "answered" =>
           /\ q.page = Page(ShelfOf(a, k, q), q.skip)
           /\ q.want # All /\ q.skip = 0 /\ q.page = <<>> => q.all = 0

ListsInv ==
    /\ kind \in {"movies", "live"}
    /\ arrays \in Seq(Seq(Item))
    /\ full \in 0..Len(arrays)
    /\ own \in [Category -> 0..Len(arrays)]
    /\ \A c \in Category : own[c] # 0 => OwnOK(arrays, c, own[c])
    /\ epoch \in 0..MaxEpoch

MemosInv ==
    /\ memo \in Seq(Memo) /\ Len(memo) = Len(arrays)
    /\ \A i \in 1..Len(arrays) : MemoOK(kind, arrays[i], memo[i])

RequestsInv ==
    /\ req = [r \in Request |-> req[r]]
    /\ \A r \in Request : RequestOK(arrays, kind, epoch, req[r])

CatalogInv == ListsInv /\ MemosInv /\ RequestsInv

-----------------------------------------------------------------------------
(* Maps and memos.                                                         *)

LEMMA PutMaps ==
    ASSUME NEW D, NEW R, NEW map \in MapsFrom(D, R), NEW x \in D, NEW v \in R
    PROVE  Put(map, x, v) \in MapsFrom(D, R)
<1>1. PICK d \in SUBSET D : map \in [d -> R]
  BY DEF MapsFrom
<1>2. d \cup {x} \in SUBSET D
  OBVIOUS
<1>3. Put(map, x, v) \in [d \cup {x} -> R]
  BY <1>1 DEF Put
<1> QED BY <1>2, <1>3 DEF MapsFrom

LEMMA NoMemoOK ==
    ASSUME NEW k, NEW s, NEW e \in -1..MaxEpoch
    PROVE  MemoOK(k, s, [NoMemo EXCEPT !.epoch = e])
<1> DEFINE m == [NoMemo EXCEPT !.epoch = e]
<1>1. m = [epoch |-> e, views |-> EmptyMap, selections |-> EmptyMap]
  BY DEF NoMemo
<1>2. DOMAIN EmptyMap = {} /\ \A D, R : EmptyMap \in MapsFrom(D, R)
  <2>1. ASSUME NEW D, NEW R PROVE EmptyMap \in MapsFrom(D, R)
    <3>1. EmptyMap \in [{} -> R] /\ {} \in SUBSET D
      BY DEF EmptyMap
    <3> QED BY <3>1 DEF MapsFrom
  <2> QED BY <2>1 DEF EmptyMap
<1>3. e \in Int
  BY CatalogAssumption
<1>4. m \in Memo
  BY <1>1, <1>2, <1>3 DEF Memo
<1> QED BY <1>1, <1>2, <1>4 DEF MemoOK

LEMMA MemoForOK ==
    ASSUME CatalogInv, NEW i \in 1..Len(arrays), NEW e \in 0..MaxEpoch
    PROVE  MemoOK(kind, arrays[i], MemoFor(i, e)) /\ MemoFor(i, e).epoch = e
<1>1. e \in -1..MaxEpoch
  BY CatalogAssumption
<1>2. CASE IsOf(memo[i], e)
  BY <1>2 DEF CatalogInv, MemosInv, MemoFor, IsOf
<1>3. CASE ~IsOf(memo[i], e)
  <2>1. MemoFor(i, e) = [NoMemo EXCEPT !.epoch = e]
    BY <1>3 DEF MemoFor
  <2> QED BY <1>1, <2>1, NoMemoOK DEF NoMemo
<1> QED BY <1>2, <1>3

LEMMA SelectionRemembered ==
    ASSUME NEW k, NEW s \in Seq(Item), NEW m, MemoOK(k, s, m), NEW want \in Want,
           Selection(k, s, want) # <<>>
    PROVE  MemoOK(k, s, [m EXCEPT !.selections = Put(@, want, Selection(k, s, want))])
<1> DEFINE items == Selection(k, s, want)
           map == Put(m.selections, want, items)
           w == [m EXCEPT !.selections = map]
<1>1. m \in Memo
  BY DEF MemoOK
<1>2. items \in Seq(Item)
  BY SelectionIsAList
<1>3. /\ map \in MapsFrom(Want, Seq(Item))
      /\ DOMAIN map = DOMAIN m.selections \cup {want}
      /\ map[want] = items
      /\ \A y \in DOMAIN m.selections : y # want => map[y] = m.selections[y]
  <2> DEFINE Items == Seq(Item)
  <2>1. m.selections \in MapsFrom(Want, Items) /\ items \in Items
    BY <1>1, <1>2 DEF Memo
  <2> HIDE DEF items, Items
  <2>2. /\ map \in MapsFrom(Want, Items)
        /\ DOMAIN map = DOMAIN m.selections \cup {want}
        /\ map[want] = items
        /\ \A y \in DOMAIN m.selections : y # want => map[y] = m.selections[y]
    BY <2>1, PutMaps DEF Put
  <2> QED BY <2>2 DEF Items
<1> HIDE DEF map
<1>4. w = [epoch |-> m.epoch, views |-> m.views, selections |-> map] /\ w \in Memo
  BY <1>1, <1>3 DEF Memo
<1> HIDE DEF w
<1>5. \A y \in DOMAIN w.selections :
          w.selections[y] = Selection(k, s, y) /\ w.selections[y] # <<>>
  BY <1>3, <1>4 DEF MemoOK
<1>6. MemoOK(k, s, w)
  BY <1>4, <1>5 DEF MemoOK
<1> QED BY <1>6 DEF w, map

LEMMA ViewRemembered ==
    ASSUME NEW k, NEW s \in Seq(Item), NEW m, MemoOK(k, s, m), m.epoch \in 0..MaxEpoch,
           NEW variant \in Variant, NEW want \in Want,
           NEW view, view = InOrder(Selection(k, s, want), variant, m.epoch)
    PROVE  MemoOK(k, s, [m EXCEPT !.views = Put(@, <<variant, want>>, view)])
<1> DEFINE key == <<variant, want>>
           map == Put(m.views, key, view)
           w == [m EXCEPT !.views = map]
<1>1. m \in Memo
  BY DEF MemoOK
<1>2. view \in Seq(Item) /\ key \in Variant \X Want /\ key[1] = variant /\ key[2] = want
  BY SelectionIsAList, InOrderSorts
<1> HIDE DEF key
<1>3. /\ map \in MapsFrom(Variant \X Want, Seq(Item))
      /\ DOMAIN map = DOMAIN m.views \cup {key}
      /\ map[key] = view
      /\ \A y \in DOMAIN m.views : y # key => map[y] = m.views[y]
  <2> DEFINE Items == Seq(Item)
             Keys == Variant \X Want
  <2>1. m.views \in MapsFrom(Keys, Items) /\ view \in Items /\ key \in Keys
    BY <1>1, <1>2 DEF Memo
  <2> HIDE DEF Items, Keys
  <2>2. /\ map \in MapsFrom(Keys, Items)
        /\ DOMAIN map = DOMAIN m.views \cup {key}
        /\ map[key] = view
        /\ \A y \in DOMAIN m.views : y # key => map[y] = m.views[y]
    BY <2>1, PutMaps DEF Put
  <2> QED BY <2>2 DEF Items, Keys
<1> HIDE DEF map
<1>4. w = [epoch |-> m.epoch, views |-> map, selections |-> m.selections] /\ w \in Memo
  BY <1>1, <1>3 DEF Memo
<1> HIDE DEF w
<1>5. \A y \in DOMAIN w.views :
          /\ w.epoch \in 0..MaxEpoch
          /\ w.views[y] = InOrder(Selection(k, s, y[2]), y[1], w.epoch)
  <2> SUFFICES ASSUME NEW y \in DOMAIN w.views
               PROVE  w.views[y] = InOrder(Selection(k, s, y[2]), y[1], w.epoch)
    BY <1>4
  <2>1. CASE y = key
    BY <1>2, <1>3, <1>4, <2>1
  <2>2. CASE y # key
    BY <1>3, <1>4, <2>2 DEF MemoOK
  <2> QED BY <2>1, <2>2
<1>6. MemoOK(k, s, w)
  BY <1>4, <1>5 DEF MemoOK
<1> QED BY <1>6 DEF w, map, key

(* One memo is replaced.                                                   *)
LEMMA MemoStep ==
    ASSUME CatalogInv, NEW i \in 1..Len(arrays), NEW m, MemoOK(kind, arrays[i], m),
           memo' = [memo EXCEPT ![i] = m], UNCHANGED <<kind, arrays>>
    PROVE  MemosInv'
<1>1. memo \in Seq(Memo) /\ Len(memo) = Len(arrays) /\ m \in Memo
  BY DEF CatalogInv, MemosInv, MemoOK
<1>2. Len(arrays) \in Nat /\ DOMAIN memo = 1..Len(arrays)
  BY <1>1, LenProperties
<1>3. memo' \in Seq(Memo) /\ Len(memo') = Len(memo)
  <2>1. memo' \in [DOMAIN memo -> Memo]
    <3>1. \A j \in DOMAIN memo : memo[j] \in Memo
      BY <1>1, ElementOfSeq
    <3>2. memo = [j \in DOMAIN memo |-> memo[j]]
      BY <1>1, LenProperties
    <3> QED BY <1>1, <3>1, <3>2
  <2> QED BY <1>1, <2>1, SameDomain
<1>4. \A j \in 1..Len(arrays) : memo'[j] = IF j = i THEN m ELSE memo[j]
  BY <1>2
<1> QED BY <1>1, <1>3, <1>4 DEF CatalogInv, MemosInv

(* One request is replaced.                                                *)
LEMMA RequestStep ==
    ASSUME CatalogInv, NEW r \in Request, NEW q, RequestOK(arrays, kind, epoch, q),
           req' = [req EXCEPT ![r] = q], UNCHANGED <<kind, arrays, epoch>>
    PROVE  RequestsInv'
<1>1. req = [x \in Request |-> req[x]]
  BY DEF CatalogInv, RequestsInv
<1>2. req' = [x \in Request |-> IF x = r THEN q ELSE req[x]]
  BY <1>1
<1> QED BY <1>1, <1>2 DEF CatalogInv, RequestsInv

-----------------------------------------------------------------------------
(* What a request has read stays as it was when lists are added and time   *)
(* goes on.                                                                *)
LEMMA StockLasts ==
    ASSUME NEW a, NEW b, NEW k, NEW e, NEW q, RequestOK(a, k, e, q),
           q.stage \in {"selected", "answered"},
           \A i \in 1..Len(a) : b[i] = a[i],
           Len(a) \in Nat
    PROVE  StockOf(b, k, q) = StockOf(a, k, q)
<1>1. IsRequest(q)
  BY DEF RequestOK
<1>2. q.all \in Nat /\ q.order \in Seq(Category)
  BY <1>1 DEF IsRequest
<1>3. CASE q.all # 0
  <2>1. q.all \in 1..Len(a)
    BY <1>2, <1>3 DEF RequestOK
  <2> QED BY <1>3, <2>1 DEF StockOf
<1>4. CASE q.all = 0
  <2>1. /\ DOMAIN q.from = Members(q.order)
        /\ \A c \in DOMAIN q.from : q.from[c] \in 1..Len(a)
    BY <1>4 DEF RequestOK, OwnOK
  <2>2. \A n \in DOMAIN q.order : b[q.from[q.order[n]]] = a[q.from[q.order[n]]]
    BY <2>1 DEF Members
  <2>3. [n \in DOMAIN q.order |-> b[q.from[q.order[n]]]]
            = [n \in DOMAIN q.order |-> a[q.from[q.order[n]]]]
    BY <2>2
  <2>4. Len(q.order) = 1 => b[q.from[q.order[1]]] = a[q.from[q.order[1]]]
    <3>1. Len(q.order) = 1 => 1 \in DOMAIN q.order
      BY <1>2, LenProperties
    <3> QED BY <2>2, <3>1
  <2> QED BY <1>4, <2>3, <2>4 DEF StockOf
<1> QED BY <1>3, <1>4

LEMMA RequestLasts ==
    ASSUME NEW a, NEW b, NEW k, NEW e \in Nat, NEW f \in Nat, NEW q, RequestOK(a, k, e, q),
           \A i \in 1..Len(a) : b[i] = a[i],
           Len(a) \in Nat, Len(b) \in Nat, Len(a) <= Len(b), e <= f
    PROVE  RequestOK(b, k, f, q)
<1>1. q.stage \in {"selected", "answered"} => StockOf(b, k, q) = StockOf(a, k, q)
  BY StockLasts
<1>2. q.stage \in {"selected", "answered"} => ShelfOf(b, k, q) = ShelfOf(a, k, q)
  BY <1>1 DEF ShelfOf
<1>3. \A c \in DOMAIN q.from : OwnOK(b, c, q.from[c])
  <2>1. \A c \in DOMAIN q.from : OwnOK(a, c, q.from[c])
    BY DEF RequestOK
  <2> QED BY <2>1 DEF OwnOK
<1>4. q.epoch \in 0..f
  BY DEF RequestOK
<1>5. q.all <= Len(b)
  <2>1. q.all \in Nat
    BY DEF RequestOK, IsRequest
  <2> QED BY <2>1 DEF RequestOK
<1> QED BY <1>1, <1>2, <1>3, <1>4, <1>5 DEF RequestOK

(* What a request holds is a selection of the list it names as its source: *)
(* all of a category's own list is of that category.                       *)
LEMMA SourceHoldsItems ==
    ASSUME NEW a \in Seq(Seq(Item)), NEW k, NEW e, NEW q, RequestOK(a, k, e, q),
           q.stage = "selected", q.source # 0
    PROVE  /\ q.source \in 1..Len(a)
           /\ q.items = Selection(k, a[q.source], q.want)
<1>1. q.source = SourceOf(q) /\ q.items = StockOf(a, k, q)
  BY DEF RequestOK
<1>2. q.all \in Nat /\ q.order \in Seq(Category) /\ Len(a) \in Nat
  BY LenProperties DEF RequestOK, IsRequest
<1>3. CASE q.all # 0
  <2>1. q.all \in 1..Len(a)
    BY <1>2, <1>3 DEF RequestOK
  <2> QED BY <1>1, <1>3, <2>1 DEF SourceOf, StockOf
<1>4. CASE q.all = 0
  <2> DEFINE c == q.order[1]
  <2>1. Len(q.order) = 1 /\ q.source = q.from[c] /\ q.items = a[q.from[c]]
    BY <1>1, <1>4 DEF SourceOf, StockOf
  <2>2. c \in Members(q.order)
    BY <1>2, <2>1, LenProperties DEF Members
  <2>3. q.want.ids = Members(q.order) /\ DOMAIN q.from = q.want.ids
    BY <1>4 DEF RequestOK
  <2>4. OwnOK(a, c, q.from[c])
    BY <2>2, <2>3 DEF RequestOK
  <2>5. \A x \in Members(a[q.source]) : Selected(k, x, q.want)
    <3>1. c \in q.want.ids
      BY <2>2, <2>3
    <3>2. \A x \in Members(a[q.source]) : c \in x.cats
      BY <2>1, <2>4 DEF OwnOK
    <3> QED BY <3>1, <3>2 DEF Selected, InCategories
  <2>6. q.source \in 1..Len(a)
    BY <2>1, <2>4 DEF OwnOK
  <2>7. a[q.source] \in Seq(Item)
    BY <2>6, ElementOfSeq
  <2> QED BY <2>1, <2>5, <2>6, <2>7, SelectionIsAList
<1> QED BY <1>3, <1>4

(* A remembered view is the one that would be made.                        *)
LEMMA ViewIsInOrder ==
    ASSUME CatalogInv, NEW r \in Request, req[r].stage = "selected"
    PROVE  View(req[r]) = InOrder(req[r].items, catalogVariant(req[r]), req[r].epoch)
<1> DEFINE q == req[r]
           i == q.source
<1>1. RequestOK(arrays, kind, epoch, q) /\ arrays \in Seq(Seq(Item)) /\ epoch \in 0..MaxEpoch
  BY DEF CatalogInv, RequestsInv, ListsInv
<1>2. q.epoch \in 0..MaxEpoch
  <2>1. q.epoch \in 0..epoch /\ MaxEpoch \in Nat
    BY <1>1, CatalogAssumption DEF RequestOK
  <2> HIDE DEF q
  <2> QED BY <1>1, <2>1
<1>3. CASE i # 0 /\ ViewKey(q) \in DOMAIN MemoFor(i, q.epoch).views
  <2>1. i \in 1..Len(arrays) /\ q.items = Selection(kind, arrays[i], q.want)
    BY <1>1, <1>3, SourceHoldsItems
  <2> HIDE DEF q
  <2>2. MemoOK(kind, arrays[i], MemoFor(i, q.epoch)) /\ MemoFor(i, q.epoch).epoch = q.epoch
    BY <1>2, <2>1, MemoForOK
  <2>3. MemoFor(i, q.epoch).views[ViewKey(q)]
            = InOrder(Selection(kind, arrays[i], ViewKey(q)[2]), ViewKey(q)[1], q.epoch)
    BY <1>3, <2>2 DEF MemoOK
  <2>4. ViewKey(q)[1] = catalogVariant(q) /\ ViewKey(q)[2] = q.want
    BY DEF ViewKey, SelectionOf
  <2>5. View(q) = InOrder(q.items, catalogVariant(q), q.epoch)
    BY <1>3, <2>1, <2>3, <2>4 DEF View
  <2> QED BY <2>5 DEF q
<1>4. CASE ~(i # 0 /\ ViewKey(q) \in DOMAIN MemoFor(i, q.epoch).views)
  BY <1>4 DEF View
<1> QED BY <1>3, <1>4

-----------------------------------------------------------------------------
(* The steps.                                                              *)

LEMMA NoRequestOK ==
    ASSUME NEW a, NEW k, NEW e \in Nat, Len(a) \in Nat
    PROVE  RequestOK(a, k, e, NoRequest)
<1>1. EmptyMap \in MapsFrom(Category, Nat) /\ DOMAIN EmptyMap = {}
  <2>1. EmptyMap \in [{} -> Nat] /\ {} \in SUBSET Category
    BY DEF EmptyMap
  <2> QED BY <2>1 DEF MapsFrom, EmptyMap
<1>2. All \in Want
  BY DEF All, Want, Text
<1>3. IsRequest(NoRequest)
  BY <1>1, <1>2, EmptySeq DEF IsRequest, NoRequest, Stage, Variant, Text
<1>4. /\ NoRequest.stage = "idle" /\ NoRequest.epoch = 0 /\ NoRequest.search = FALSE
      /\ NoRequest.want = All /\ NoRequest.all = 0 /\ DOMAIN NoRequest.from = {}
  BY <1>1 DEF NoRequest
<1> QED BY <1>3, <1>4 DEF RequestOK

LEMMA InitialInv == CatalogInit => CatalogInv
<1> SUFFICES ASSUME CatalogInit PROVE CatalogInv
  OBVIOUS
<1>1. arrays = <<>> /\ memo = <<>> /\ epoch = 0 /\ full = 0
  BY DEF CatalogInit
<1>2. Len(arrays) = 0 /\ arrays \in Seq(Seq(Item)) /\ memo \in Seq(Memo) /\ Len(memo) = 0
  BY <1>1, EmptySeq
<1>3. 0 \in 0..MaxEpoch
  BY CatalogAssumption
<1>4. ListsInv
  BY <1>1, <1>2, <1>3 DEF CatalogInit, ListsInv
<1>5. MemosInv
  BY <1>2 DEF MemosInv
<1>6. RequestOK(arrays, kind, epoch, NoRequest)
  BY <1>1, <1>2, NoRequestOK
<1>7. RequestsInv
  BY <1>6 DEF RequestsInv, CatalogInit
<1> QED BY <1>4, <1>5, <1>7 DEF CatalogInv

LEMMA InvFacts ==
    ASSUME CatalogInv
    PROVE  /\ arrays \in Seq(Seq(Item)) /\ Len(arrays) \in Nat
           /\ epoch \in Nat /\ epoch \in 0..MaxEpoch
           /\ \A i \in 1..Len(arrays) : arrays[i] \in Seq(Item)
           /\ \A r \in Request : RequestOK(arrays, kind, epoch, req[r]) /\ IsRequest(req[r])
<1>1. arrays \in Seq(Seq(Item)) /\ epoch \in 0..MaxEpoch /\ MaxEpoch \in Nat
  BY CatalogAssumption DEF CatalogInv, ListsInv
<1>2. \A r \in Request : RequestOK(arrays, kind, epoch, req[r]) /\ IsRequest(req[r])
  BY DEF CatalogInv, RequestsInv, RequestOK
<1>3. Len(arrays) \in Nat /\ \A i \in 1..Len(arrays) : arrays[i] \in Seq(Item)
  BY <1>1, LenProperties, ElementOfSeq
<1>4. epoch \in Nat
  BY <1>1
<1> QED BY <1>1, <1>2, <1>3, <1>4

LEMMA NewRequestOK ==
    ASSUME NEW a, NEW k, NEW e \in Nat, Len(a) \in Nat,
           NEW q, IsRequest(q), q.stage \in {"list", "categories"}, q.epoch = e,
           q.search => q.stage # "categories",
           q.want = All, q.all = 0, DOMAIN q.from = {}
    PROVE  RequestOK(a, k, e, q)
<1>1. q.epoch \in 0..e /\ q.all <= Len(a)
  OBVIOUS
<1> QED BY <1>1 DEF RequestOK

LEMMA ArriveKeeps ==
    ASSUME CatalogInv, NEW r \in Request, Arrive(r)
    PROVE  CatalogInv'
<1>1. PICK search \in BOOLEAN, variant \in Variant, genre \in Genre \cup {""} :
          req' = [req EXCEPT ![r] =
                  [NoRequest EXCEPT !.stage = IF search THEN "list" ELSE "categories",
                                    !.epoch = epoch, !.search = search,
                                    !.variant = variant, !.genre = genre]]
  BY DEF Arrive, Variant
<1> DEFINE q == [NoRequest EXCEPT !.stage = IF search THEN "list" ELSE "categories",
                                  !.epoch = epoch, !.search = search,
                                  !.variant = variant, !.genre = genre]
<1>2. UNCHANGED <<kind, arrays, full, own, memo, epoch>>
  BY DEF Arrive
<1>3. RequestOK(arrays, kind, epoch, NoRequest) /\ epoch \in Nat
  BY InvFacts, NoRequestOK
<1>4. IsRequest(NoRequest) /\ NoRequest.want = All /\ NoRequest.all = 0 /\ NoRequest.from = EmptyMap
  BY <1>3 DEF RequestOK, NoRequest
<1>5. /\ q.stage = (IF search THEN "list" ELSE "categories") /\ q.epoch = epoch
      /\ q.search = search /\ q.want = All /\ q.all = 0 /\ q.from = EmptyMap
  BY <1>4 DEF IsRequest
<1>6. IsRequest(q)
  <2>1. genre \in Text
    BY CatalogAssumption DEF Text
  <2> QED BY <1>3, <1>4, <2>1 DEF IsRequest, Stage
<1>7. RequestOK(arrays, kind, epoch, q)
  <2> HIDE DEF q
  <2>1. DOMAIN q.from = {} /\ Len(arrays) \in Nat
    BY <1>5, InvFacts DEF EmptyMap
  <2>2. q.stage \in {"list", "categories"} /\ (q.search => q.stage # "categories")
    BY <1>5
  <2> QED BY <1>3, <1>5, <1>6, <2>1, <2>2, NewRequestOK
<1>8. RequestsInv'
  <2> HIDE DEF q
  <2> QED BY <1>1, <1>2, <1>7, RequestStep DEF q
<1> QED BY <1>2, <1>8 DEF CatalogInv, ListsInv, MemosInv

(* Whether the list serves the genre or the categories are asked: q is the *)
(* request that would ask them.                                            *)
LEMMA SelectFromKeeps ==
    ASSUME CatalogInv, NEW r \in Request, NEW i \in 1..Len(arrays), NEW q, IsRequest(q),
           RequestOK(arrays, kind, epoch, [q EXCEPT !.stage = "lists"]),
           SelectFrom(r, q, i), UNCHANGED <<kind, arrays, epoch>>
    PROVE  MemosInv' /\ RequestsInv'
<1> DEFINE remembered == IsOf(memo[i], q.epoch) /\ q.want \in DOMAIN memo[i].selections
           held == IF remembered THEN memo[i].selections[q.want]
                   ELSE Selection(kind, arrays[i], q.want)
           asking == [q EXCEPT !.stage = "lists"]
           m == [MemoFor(i, q.epoch) EXCEPT !.selections = Put(@, q.want, held)]
           p == [[q EXCEPT !.all = i] EXCEPT !.stage = "selected", !.items = held, !.source = i]
<1>1. /\ arrays[i] \in Seq(Item) /\ epoch \in 0..MaxEpoch /\ MaxEpoch \in Nat
      /\ Len(arrays) \in Nat
  BY InvFacts, CatalogAssumption
<1>2. /\ asking.stage = "lists" /\ asking.epoch = q.epoch /\ asking.search = q.search
      /\ asking.want = q.want /\ asking.order = q.order /\ asking.from = q.from
      /\ asking.variant = q.variant
  BY DEF IsRequest
<1>3. /\ q.epoch \in 0..epoch /\ q.search = FALSE /\ q.want # All /\ q.want \in Want
      /\ q.want.ids = Members(q.order) /\ DOMAIN q.from \subseteq q.want.ids
      /\ \A c \in DOMAIN q.from : OwnOK(arrays, c, q.from[c])
  <2>1. q.want \in Want /\ q.search \in BOOLEAN
    BY DEF IsRequest
  <2> HIDE DEF asking
  <2> QED BY <1>2, <2>1 DEF RequestOK
<1>4. q.epoch \in 0..MaxEpoch
  BY <1>1, <1>3
<1>5. remembered => held = Selection(kind, arrays[i], q.want) /\ held # <<>>
  BY DEF CatalogInv, MemosInv, MemoOK
<1>6. held = Selection(kind, arrays[i], q.want)
  BY <1>5
<1>7. CASE remembered \/ HasItems(held)
  <2>1. req' = [req EXCEPT ![r] = p] /\ memo' = [memo EXCEPT ![i] = m]
    BY <1>7 DEF SelectFrom, Select
  <2>2. held # <<>>
    BY <1>5, <1>7 DEF HasItems
  <2> HIDE DEF held, remembered
  <2>3. MemoOK(kind, arrays[i], MemoFor(i, q.epoch))
    BY <1>4, MemoForOK
  <2>4. MemoOK(kind, arrays[i], m)
    BY <1>1, <1>3, <1>6, <2>2, <2>3, SelectionRemembered
  <2>5. MemosInv'
    <3> HIDE DEF m
    <3> QED BY <2>1, <2>4, MemoStep
  <2>6. /\ p.stage = "selected" /\ p.epoch = q.epoch /\ p.search = q.search
        /\ p.want = q.want /\ p.order = q.order /\ p.from = q.from /\ p.all = i
        /\ p.items = held /\ p.source = i
    BY DEF IsRequest
  <2>7. IsRequest(p)
    <3>1. i \in Nat
      BY <1>1
    <3> QED BY <3>1 DEF IsRequest, Stage
  <2>8. RequestOK(arrays, kind, epoch, p)
    <3> HIDE DEF p
    <3>1. i # 0 /\ i <= Len(arrays)
      BY <1>1
    <3>2. StockOf(arrays, kind, p) = held /\ SourceOf(p) = i
      BY <1>6, <2>6, <3>1 DEF StockOf, SourceOf
    <3> QED BY <1>3, <2>2, <2>6, <2>7, <3>1, <3>2 DEF RequestOK
  <2>9. RequestsInv'
    <3> HIDE DEF p
    <3> QED BY <2>1, <2>8, RequestStep
  <2> QED BY <2>5, <2>9
<1>8. CASE ~(remembered \/ HasItems(held))
  <2>1. req' = [req EXCEPT ![r] = asking] /\ UNCHANGED memo
    BY <1>8 DEF SelectFrom
  <2> HIDE DEF asking
  <2>2. RequestOK(arrays, kind, epoch, asking)
    BY DEF asking
  <2>3. RequestsInv'
    BY <2>1, <2>2, RequestStep
  <2> QED BY <2>1, <2>3 DEF CatalogInv, MemosInv
<1> QED BY <1>7, <1>8

LEMMA CategoriesReadKeeps ==
    ASSUME CatalogInv, NEW r \in Request, CategoriesRead(r)
    PROVE  CatalogInv'
<1> DEFINE genreOf(table) == IF req[r].genre # "" THEN req[r].genre ELSE table[1].name
           idsOf(table) == IdsOf(table, genreOf(table))
           wantOf(table) == [ids |-> Members(idsOf(table)),
                             name |-> IF kind = "live" THEN genreOf(table) ELSE ""]
           q(table) == [req[r] EXCEPT !.want = wantOf(table), !.order = idsOf(table),
                                      !.genre = ""]
<1>1. UNCHANGED <<kind, arrays, full, own, epoch>>
  BY DEF CategoriesRead
<1>2. /\ RequestOK(arrays, kind, epoch, req[r]) /\ IsRequest(req[r])
      /\ req[r].stage = "categories" /\ Len(arrays) \in Nat /\ epoch \in Nat
  BY InvFacts DEF CategoriesRead
<1>3. /\ req[r].want = All /\ DOMAIN req[r].from = {} /\ req[r].all = 0
      /\ req[r].epoch \in 0..epoch
  BY <1>2 DEF RequestOK
<1>4. PICK table \in Table :
          \/ /\ table = <<>>
             /\ req' = [req EXCEPT ![r].stage = "list", ![r].genre = ""]
             /\ UNCHANGED memo
          \/ /\ table # <<>> /\ idsOf(table) = <<>>
             /\ req' = [req EXCEPT ![r] = NoRequest]
             /\ UNCHANGED memo
          \/ /\ table # <<>> /\ idsOf(table) # <<>>
             /\ IF kind = "movies" /\ full # 0 THEN SelectFrom(r, q(table), full)
                ELSE /\ req' = [req EXCEPT ![r] =
                            [q(table) EXCEPT !.stage = IF kind = "live" THEN "list" ELSE "lists"]]
                     /\ UNCHANGED memo
  BY DEF CategoriesRead
<1>5. ListsInv'
  BY <1>1 DEF CatalogInv, ListsInv
<1>6. UNCHANGED memo => MemosInv'
  BY <1>1 DEF CatalogInv, MemosInv
<1>7. CASE table = <<>>
  <2> DEFINE p == [req[r] EXCEPT !.stage = "list", !.genre = ""]
  <2>1. req' = [req EXCEPT ![r] = p] /\ UNCHANGED memo
    BY <1>4, <1>7
  <2>2. /\ p.stage = "list" /\ p.epoch = req[r].epoch /\ p.search = req[r].search
        /\ p.want = All /\ p.from = req[r].from /\ p.all = 0
    BY <1>2, <1>3 DEF IsRequest
  <2>3. IsRequest(p)
    BY <1>2 DEF IsRequest, Stage, Text
  <2>4. RequestOK(arrays, kind, epoch, p)
    <3> HIDE DEF p
    <3> QED BY <1>2, <1>3, <2>2, <2>3 DEF RequestOK
  <2>5. RequestsInv'
    <3> HIDE DEF p
    <3> QED BY <1>1, <2>1, <2>4, RequestStep
  <2> QED BY <1>5, <1>6, <2>1, <2>5 DEF CatalogInv
<1>8. CASE table # <<>> /\ idsOf(table) = <<>>
  <2>1. req' = [req EXCEPT ![r] = NoRequest] /\ UNCHANGED memo
    BY <1>4, <1>8
  <2>2. RequestOK(arrays, kind, epoch, NoRequest)
    BY <1>2, NoRequestOK
  <2>3. RequestsInv'
    BY <1>1, <2>1, <2>2, RequestStep
  <2> QED BY <1>5, <1>6, <2>1, <2>3 DEF CatalogInv
<1>9. CASE table # <<>> /\ idsOf(table) # <<>>
  <2> DEFINE ids == idsOf(table)
             want == wantOf(table)
             asking == [q(table) EXCEPT !.stage = "lists"]
             listing == [q(table) EXCEPT !.stage = "list"]
  <2>1. genreOf(table) \in Text
    <3> DEFINE S == [id : Category, name : STRING]
    <3>1. table \in Seq(S)
      BY CatalogAssumption
    <3> HIDE DEF S
    <3>2. table # <<>>
      BY <1>9
    <3>3. table[1] \in S
      BY ONLY <3>1, <3>2, FirstOfSeq
    <3>4. req[r].genre \in Text /\ table[1].name \in Text
      BY <1>2, <3>3 DEF IsRequest, Text, S
    <3> QED BY <3>4
  <2>2. ids \in Seq(Category)
    BY IdsOfAreIds
  <2>3. Members(ids) \subseteq Category /\ Members(ids) # {}
    <3> HIDE DEF idsOf
    <3>1. Len(ids) \in Nat /\ DOMAIN ids = 1..Len(ids) /\ \A n \in DOMAIN ids : ids[n] \in Category
      BY <2>2, LenProperties, ElementOfSeq
    <3>2. 1 \in DOMAIN ids
      BY <1>9, <2>2, <3>1, EmptySeq
    <3> QED BY <3>1, <3>2 DEF Members
  <2>4. want \in Want /\ want # All /\ want.ids = Members(ids)
    <3> HIDE DEF idsOf, genreOf
    <3> QED BY <2>1, <2>3 DEF Want, All, Text
  <2> HIDE DEF idsOf, wantOf, genreOf
  <2>5. IsRequest(q(table)) /\ IsRequest(asking) /\ IsRequest(listing)
    BY <1>2, <2>2, <2>4 DEF IsRequest, Stage, Text
  <2>6. /\ asking.stage = "lists" /\ asking.epoch = req[r].epoch
        /\ asking.want = want /\ asking.order = ids /\ asking.from = req[r].from
        /\ asking.all = 0 /\ asking.search = req[r].search
    BY <1>2, <1>3 DEF IsRequest
  <2>7. /\ listing.stage = "list" /\ listing.epoch = req[r].epoch
        /\ listing.want = want /\ listing.order = ids /\ listing.from = req[r].from
        /\ listing.all = 0 /\ listing.search = req[r].search
    BY <1>2, <1>3 DEF IsRequest
  <2>8. req[r].search = FALSE
    BY <1>2 DEF RequestOK, IsRequest
  <2> HIDE DEF q
  <2>9. RequestOK(arrays, kind, epoch, asking)
    <3> HIDE DEF asking
    <3> QED BY <1>2, <1>3, <2>4, <2>5, <2>6, <2>8 DEF RequestOK
  <2>10. RequestOK(arrays, kind, epoch, listing)
    <3> HIDE DEF listing
    <3> QED BY <1>2, <1>3, <2>4, <2>5, <2>7, <2>8 DEF RequestOK
  <2>11. CASE kind = "movies" /\ full # 0
    <3>1. full \in 1..Len(arrays)
      BY <1>2, <2>11 DEF CatalogInv, ListsInv
    <3>2. SelectFrom(r, q(table), full)
      BY <1>4, <1>9, <2>11
    <3>3. MemosInv' /\ RequestsInv'
      BY <1>1, <2>5, <2>9, <3>1, <3>2, SelectFromKeeps
    <3> QED BY <1>5, <3>3 DEF CatalogInv
  <2>12. CASE ~(kind = "movies" /\ full # 0) /\ kind = "live"
    <3>1. req' = [req EXCEPT ![r] = listing] /\ UNCHANGED memo
      BY <1>4, <1>9, <2>12
    <3> HIDE DEF listing
    <3>2. RequestsInv'
      BY <1>1, <2>10, <3>1, RequestStep
    <3> QED BY <1>5, <1>6, <3>1, <3>2 DEF CatalogInv
  <2>13. CASE ~(kind = "movies" /\ full # 0) /\ kind # "live"
    <3>1. req' = [req EXCEPT ![r] = asking] /\ UNCHANGED memo
      BY <1>4, <1>9, <2>13
    <3> HIDE DEF asking
    <3>2. RequestsInv'
      BY <1>1, <2>9, <3>1, RequestStep
    <3> QED BY <1>5, <1>6, <3>1, <3>2 DEF CatalogInv
  <2> QED BY <2>11, <2>12, <2>13
<1> QED BY <1>4, <1>7, <1>8, <1>9

LEMMA ListLoadedKeeps ==
    ASSUME CatalogInv, NEW r \in Request, ListLoaded(r)
    PROVE  CatalogInv'
<1> DEFINE q == req[r]
           asking == [q EXCEPT !.stage = "lists"]
           p == [[q EXCEPT !.all = full] EXCEPT
                     !.stage = "selected", !.items = arrays[full], !.source = full]
<1>1. UNCHANGED <<kind, arrays, full, own, epoch>>
  BY DEF ListLoaded
<1>2. /\ RequestOK(arrays, kind, epoch, q) /\ IsRequest(q)
      /\ q.stage = "list" /\ q.all = 0 /\ Len(arrays) \in Nat /\ epoch \in Nat
  BY InvFacts DEF ListLoaded, RequestOK
<1>3. full \in 1..Len(arrays) /\ full # 0 /\ full \in Nat /\ full <= Len(arrays)
  BY <1>2 DEF CatalogInv, ListsInv, ListLoaded
<1>4. arrays[full] \in Seq(Item)
  BY <1>3, InvFacts
<1>5. ListsInv'
  BY <1>1 DEF CatalogInv, ListsInv
<1>6. CASE q.want = All
  <2>1. req' = [req EXCEPT ![r] = p] /\ UNCHANGED memo
    BY <1>6 DEF ListLoaded, Select
  <2>2. /\ p.stage = "selected" /\ p.epoch = q.epoch /\ p.search = q.search
        /\ p.want = All /\ p.order = q.order /\ p.from = q.from /\ p.all = full
        /\ p.items = arrays[full] /\ p.source = full
    BY <1>2, <1>6 DEF IsRequest
  <2>3. IsRequest(p)
    BY <1>2, <1>3 DEF IsRequest, Stage
  <2>4. Selection(kind, arrays[full], All) = arrays[full]
    BY <1>4, SelectionIsAList DEF Selected
  <2> HIDE DEF p
  <2>5. StockOf(arrays, kind, p) = arrays[full] /\ SourceOf(p) = full
    BY <1>3, <2>2, <2>4 DEF StockOf, SourceOf
  <2>6. RequestOK(arrays, kind, epoch, p)
    <3>1. /\ q.epoch \in 0..epoch /\ DOMAIN q.from \subseteq q.want.ids
          /\ \A c \in DOMAIN q.from : OwnOK(arrays, c, q.from[c])
      BY <1>2 DEF RequestOK
    <3> HIDE DEF q
    <3> QED BY <1>3, <1>6, <2>2, <2>3, <2>5, <3>1 DEF RequestOK
  <2>7. RequestsInv'
    BY <1>1, <2>1, <2>6, RequestStep
  <2> QED BY <1>1, <1>5, <2>1, <2>7 DEF CatalogInv, MemosInv
<1>7. CASE q.want # All
  <2>1. SelectFrom(r, q, full)
    BY <1>7 DEF ListLoaded
  <2>2. /\ asking.stage = "lists" /\ asking.epoch = q.epoch /\ asking.search = q.search
        /\ asking.want = q.want /\ asking.order = q.order /\ asking.from = q.from
        /\ asking.all = q.all
    BY <1>2 DEF IsRequest
  <2>3. IsRequest(asking)
    BY <1>2 DEF IsRequest, Stage
  <2>4. RequestOK(arrays, kind, epoch, asking)
    <3> HIDE DEF asking, q
    <3> QED BY <1>2, <1>7, <2>2, <2>3 DEF RequestOK
  <2> HIDE DEF q
  <2>5. MemosInv' /\ RequestsInv'
    BY <1>1, <1>2, <1>3, <2>1, <2>4, SelectFromKeeps
  <2> QED BY <1>5, <2>5 DEF CatalogInv
<1> QED BY <1>6, <1>7

LEMMA CategoryListLoadedKeeps ==
    ASSUME CatalogInv, NEW r \in Request, NEW c \in Category, CategoryListLoaded(r, c)
    PROVE  CatalogInv'
<1> DEFINE o == req[r]
           q == [o EXCEPT !.from = Put(@, c, own[c])]
           p == [q EXCEPT !.stage = "selected", !.items = Merged(q).items,
                          !.source = Merged(q).source]
<1>1. UNCHANGED <<kind, arrays, full, own, memo, epoch>>
  BY DEF CategoryListLoaded
<1>2. /\ RequestOK(arrays, kind, epoch, o) /\ IsRequest(o) /\ o.stage = "lists"
      /\ c \in o.want.ids /\ own[c] # 0
      /\ Len(arrays) \in Nat /\ epoch \in Nat
  BY InvFacts DEF CategoryListLoaded
<1>3. OwnOK(arrays, c, own[c]) /\ own[c] \in 1..Len(arrays) /\ own[c] \in Nat
  BY <1>2 DEF CatalogInv, ListsInv, OwnOK
<1>4. ListsInv' /\ MemosInv'
  BY <1>1 DEF CatalogInv, ListsInv, MemosInv
<1>5. /\ q.stage = "lists" /\ q.epoch = o.epoch /\ q.search = o.search
      /\ q.want = o.want /\ q.order = o.order /\ q.all = o.all
      /\ q.from = Put(o.from, c, own[c])
  BY <1>2 DEF IsRequest
<1>6. IsRequest(q)
  <2>1. o.from \in MapsFrom(Category, Nat)
    BY <1>2 DEF IsRequest
  <2>2. Put(o.from, c, own[c]) \in MapsFrom(Category, Nat)
    BY ONLY <1>3, <2>1, c \in Category, PutMaps
  <2> QED BY <1>2, <2>2 DEF IsRequest
<1> HIDE DEF q
<1>7. RequestOK(arrays, kind, epoch, q)
  <2>1. /\ DOMAIN q.from = DOMAIN o.from \cup {c}
        /\ \A x \in DOMAIN q.from : q.from[x] = IF x = c THEN own[c] ELSE o.from[x]
    BY <1>5 DEF Put
  <2>2. \A x \in DOMAIN q.from : OwnOK(arrays, x, q.from[x])
    BY <1>2, <1>3, <2>1 DEF RequestOK
  <2>3. DOMAIN q.from \subseteq q.want.ids
    BY <1>2, <1>5, <2>1 DEF RequestOK
  <2> HIDE DEF o
  <2> QED BY <1>2, <1>5, <1>6, <2>2, <2>3 DEF RequestOK
<1>8. CASE DOMAIN q.from = q.want.ids
  <2>1. req' = [req EXCEPT ![r] = p]
    BY <1>8 DEF CategoryListLoaded, Select, q
  <2>2. /\ p.stage = "selected" /\ p.epoch = q.epoch /\ p.search = q.search
        /\ p.want = q.want /\ p.order = q.order /\ p.all = q.all /\ p.from = q.from
        /\ p.items = Merged(q).items /\ p.source = Merged(q).source
    BY <1>6 DEF IsRequest
  <2>3. /\ Merged(q).items = StockOf(arrays, kind, q) /\ Merged(q).source = SourceOf(q)
        /\ q.all = 0 /\ q.want # All
    <3>1. q.all = 0 /\ q.want # All
      BY <1>5, <1>7 DEF RequestOK
    <3>2. Len(q.order) = 1 => ListsOf(q)[1] = arrays[q.from[q.order[1]]]
      <4>1. q.order \in Seq(Category)
        BY <1>6 DEF IsRequest
      <4>2. Len(q.order) = 1 => 1 \in DOMAIN q.order
        BY <4>1, LenProperties
      <4> QED BY <4>2 DEF ListsOf
    <3> QED BY <3>1, <3>2 DEF Merged, StockOf, SourceOf, ListsOf
  <2>4. IsRequest(p)
    <3>1. q.from \in MapsFrom(Category, Nat) /\ DOMAIN q.from = q.want.ids
      BY <1>6, <1>8 DEF IsRequest
    <3>2. SourceOf(q) \in Nat
      <4>1. CASE Len(q.order) = 1
        <5>1. q.order \in Seq(Category) /\ q.want.ids = Members(q.order)
          BY <1>6, <1>7, <2>3 DEF RequestOK, IsRequest
        <5>2. q.order[1] \in DOMAIN q.from
          BY <1>8, <4>1, <5>1, LenProperties DEF Members
        <5>3. q.from[q.order[1]] \in Nat
          BY <1>7, <5>2, <1>2 DEF RequestOK, OwnOK
        <5> QED BY <2>3, <4>1, <5>3 DEF SourceOf
      <4>2. CASE Len(q.order) # 1
        BY <2>3, <4>2 DEF SourceOf
      <4> QED BY <4>1, <4>2
    <3> HIDE DEF o
    <3> QED BY <1>6, <2>3, <3>2 DEF IsRequest, Stage
  <2> HIDE DEF p
  <2>5. StockOf(arrays, kind, p) = StockOf(arrays, kind, q) /\ SourceOf(p) = SourceOf(q)
    BY <2>2 DEF StockOf, SourceOf
  <2>6. RequestOK(arrays, kind, epoch, p)
    <3> HIDE DEF o
    <3> QED BY <1>2, <1>7, <1>8, <2>2, <2>3, <2>4, <2>5 DEF RequestOK
  <2>7. RequestsInv'
    BY <1>1, <2>1, <2>6, RequestStep
  <2> QED BY <1>4, <2>7 DEF CatalogInv
<1>9. CASE DOMAIN q.from # q.want.ids
  <2>1. req' = [req EXCEPT ![r] = q]
    BY <1>9 DEF CategoryListLoaded, q
  <2>2. RequestsInv'
    BY <1>1, <1>7, <2>1, RequestStep
  <2> QED BY <1>4, <2>2 DEF CatalogInv
<1> QED BY <1>8, <1>9

LEMMA LoadFailsKeeps ==
    ASSUME CatalogInv, NEW r \in Request, LoadFails(r)
    PROVE  CatalogInv'
<1>1. UNCHANGED <<kind, arrays, full, own, memo, epoch>> /\ req' = [req EXCEPT ![r] = NoRequest]
  BY DEF LoadFails
<1>2. RequestOK(arrays, kind, epoch, NoRequest)
  BY InvFacts, NoRequestOK
<1>3. RequestsInv'
  BY <1>1, <1>2, RequestStep
<1> QED BY <1>1, <1>3 DEF CatalogInv, ListsInv, MemosInv

(* The first page of a shelf that has items is not empty.                  *)
LEMMA FirstPage ==
    ASSUME NEW s \in Seq(Item), s # <<>>
    PROVE  Page(s, 0) # <<>>
<1> DEFINE n == IF Len(s) < 0 + PageSize THEN Len(s) ELSE 0 + PageSize
<1>1. Len(s) \in Nat /\ 1 <= Len(s) /\ PageSize \in Nat \ {0}
  BY FirstOfSeq, CatalogAssumption
<1>2. n \in Int /\ n <= Len(s) /\ 1 <= n
  BY <1>1
<1> HIDE DEF n
<1>3. Len(SubSeq(s, 1, n)) = n - 1 + 1
  BY <1>2, SubSeqLeaves
<1>4. Len(SubSeq(s, 1, n)) # 0
  BY <1>2, <1>3
<1>5. SubSeq(s, 1, n) # <<>>
  BY <1>4, EmptySeq
<1> QED BY <1>5 DEF Page, n

LEMMA AnswerPageKeeps ==
    ASSUME CatalogInv, NEW r \in Request, AnswerPage(r)
    PROVE  CatalogInv'
<1> DEFINE q == req[r]
           i == q.source
           shelf == IF kind = "live" THEN q.items ELSE View(q)
<1>1. PICK skip \in Skip :
          req' = [req EXCEPT ![r] =
              [q EXCEPT !.stage = "answered", !.skip = skip, !.items = <<>>, !.source = 0,
                        !.page = Page(Titled(shelf, q), skip)]]
  BY DEF AnswerPage
<1> DEFINE p == [q EXCEPT !.stage = "answered", !.skip = skip, !.items = <<>>, !.source = 0,
                          !.page = Page(Titled(shelf, q), skip)]
<1>2. UNCHANGED <<kind, arrays, full, own, epoch>> /\ memo' = WithView(q)
  BY DEF AnswerPage
<1>3. /\ RequestOK(arrays, kind, epoch, q) /\ IsRequest(q) /\ q.stage = "selected"
      /\ arrays \in Seq(Seq(Item)) /\ epoch \in 0..MaxEpoch
  BY InvFacts DEF AnswerPage
<1>4. ListsInv'
  BY <1>2 DEF CatalogInv, ListsInv
<1>5. View(q) = InOrder(q.items, catalogVariant(q), q.epoch)
  BY <1>3, ViewIsInOrder
<1>6. i # 0 => i \in 1..Len(arrays) /\ q.items = Selection(kind, arrays[i], q.want)
  BY <1>3, SourceHoldsItems
<1>7. q.epoch \in 0..MaxEpoch
  <2>1. q.epoch \in 0..epoch /\ MaxEpoch \in Nat
    BY <1>3, CatalogAssumption DEF RequestOK
  <2> HIDE DEF q
  <2> QED BY <1>3, <2>1
<1>8. MemosInv'
  <2>1. CASE i = 0 \/ kind = "live"
    <3>1. memo' = memo
      BY <1>2, <2>1 DEF WithView
    <3> QED BY <1>2, <3>1 DEF CatalogInv, MemosInv
  <2>2. CASE ~(i = 0 \/ kind = "live")
    <3> DEFINE m == MemoFor(i, q.epoch)
               w == [m EXCEPT !.views = Put(@, <<catalogVariant(q), q.want>>, View(q))]
    <3>1. memo' = [memo EXCEPT ![i] = w]
      BY <1>2, <2>2 DEF WithView, ViewKey, SelectionOf
    <3>2. catalogVariant(q) \in Variant /\ q.want \in Want
      BY <1>3 DEF catalogVariant, IsRequest, Variant
    <3>3. i \in 1..Len(arrays) /\ q.items = Selection(kind, arrays[i], q.want)
      BY <1>6, <2>2
    <3>4. arrays[i] \in Seq(Item)
      BY <3>3, InvFacts
    <3> HIDE DEF q, i
    <3>5. MemoOK(kind, arrays[i], m) /\ m.epoch = q.epoch
      BY <1>7, <3>3, MemoForOK
    <3>6. View(q) = InOrder(Selection(kind, arrays[i], q.want), catalogVariant(q), m.epoch)
      BY <1>5, <3>3, <3>5
    <3> HIDE DEF m
    <3>7. m.epoch \in 0..MaxEpoch
      BY <1>7, <3>5
    <3>8. MemoOK(kind, arrays[i], w)
      BY <3>2, <3>4, <3>5, <3>6, <3>7, ViewRemembered
    <3> HIDE DEF w
    <3> QED BY <1>2, <3>1, <3>3, <3>8, MemoStep
  <2> QED BY <2>1, <2>2
<1>9. /\ p.stage = "answered" /\ p.epoch = q.epoch /\ p.search = q.search
      /\ p.variant = q.variant /\ p.want = q.want /\ p.order = q.order
      /\ p.from = q.from /\ p.all = q.all /\ p.skip = skip
      /\ p.page = Page(Titled(shelf, q), skip)
  BY <1>3 DEF IsRequest
<1>10. IsRequest(p)
  <2>1. skip \in Nat
    BY CatalogAssumption
  <2> HIDE DEF shelf
  <2> QED BY <1>3, <2>1 DEF IsRequest, Stage
<1>11. shelf = (IF kind = "live" THEN q.items
                ELSE InOrder(q.items, catalogVariant(q), q.epoch))
  BY <1>5
<1>12. q.want # All /\ q.all # 0 => Page(Titled(shelf, q), 0) # <<>>
  <2> SUFFICES ASSUME q.want # All, q.all # 0
               PROVE  Page(Titled(shelf, q), 0) # <<>>
    OBVIOUS
  <2>1. q.items # <<>> /\ q.source = q.all /\ ~q.search
    BY <1>3 DEF RequestOK, SourceOf
  <2>2. q.items \in Seq(Item)
    <3>1. i \in 1..Len(arrays) /\ q.items = Selection(kind, arrays[i], q.want)
      BY <1>6, <2>1
    <3>2. arrays[i] \in Seq(Item)
      BY <3>1, InvFacts
    <3> HIDE DEF q, i
    <3> QED BY <3>1, <3>2, SelectionIsAList
  <2> HIDE DEF q, i, shelf
  <2>3. shelf \in Seq(Item) /\ shelf # <<>>
    <3>1. CASE kind = "live"
      BY <1>11, <2>1, <2>2, <3>1
    <3>2. CASE kind # "live"
      <4>1. /\ shelf = InOrder(q.items, catalogVariant(q), q.epoch) /\ shelf \in Seq(Item)
            /\ Sorts(shelf, q.items, catalogVariant(q), q.epoch)
        BY <1>7, <1>11, <2>2, <3>2, InOrderSorts
      <4>2. Len(shelf) = Len(q.items)
        BY <4>1 DEF Sorts
      <4>3. 1 \in 1..Len(q.items)
        BY <2>1, <2>2, FirstOfSeq
      <4> QED BY <4>1, <4>2, <4>3, EmptySeq
    <3> QED BY <3>1, <3>2
  <2>4. Titled(shelf, q) = shelf
    BY <2>1 DEF Titled
  <2> QED BY <2>3, <2>4, FirstPage
<1>13. Titled(shelf, q) = ShelfOf(arrays, kind, q) /\ ShelfOf(arrays, kind, p) = ShelfOf(arrays, kind, q)
  <2>1. q.items = StockOf(arrays, kind, q)
    BY <1>3 DEF RequestOK
  <2> HIDE DEF p, q, shelf
  <2>2. StockOf(arrays, kind, p) = StockOf(arrays, kind, q) /\ catalogVariant(p) = catalogVariant(q)
    BY <1>9 DEF StockOf, catalogVariant
  <2>3. \A s : Titled(s, p) = Titled(s, q)
    BY <1>9 DEF Titled
  <2> QED BY <1>9, <1>11, <2>1, <2>2, <2>3 DEF ShelfOf
<1>14. RequestOK(arrays, kind, epoch, p)
  <2>1. p.page = Page(ShelfOf(arrays, kind, p), p.skip)
    BY <1>9, <1>13
  <2>2. p.want # All /\ p.skip = 0 /\ p.page = <<>> => p.all = 0
    BY <1>9, <1>12
  <2> HIDE DEF p, q, shelf
  <2> QED BY <1>3, <1>9, <1>10, <2>1, <2>2 DEF RequestOK
<1>15. RequestsInv'
  <2>1. req' = [req EXCEPT ![r] = p]
    BY <1>1
  <2> HIDE DEF p
  <2> QED BY <1>2, <1>14, <2>1, RequestStep
<1> QED BY <1>4, <1>8, <1>15 DEF CatalogInv

LEMMA NewArrayKeeps ==
    ASSUME CatalogInv, NEW s \in Seq(Item), NewArray(s)
    PROVE  /\ MemosInv' /\ RequestsInv'
           /\ arrays' \in Seq(Seq(Item)) /\ Len(arrays') = Len(arrays) + 1
           /\ arrays'[Len(arrays')] = s
           /\ \A i \in 1..Len(arrays) : arrays'[i] = arrays[i]
<1> DEFINE n == Len(arrays)
           Lists == Seq(Item)
<1>1. arrays \in Seq(Lists) /\ n \in Nat /\ epoch \in Nat /\ s \in Lists
  BY InvFacts
<1>2. /\ arrays' = Append(arrays, s) /\ memo' = Append(memo, NoMemo)
      /\ UNCHANGED <<kind, epoch, req>>
  BY DEF NewArray
<1>3. memo \in Seq(Memo) /\ Len(memo) = n /\ \A i \in 1..n : MemoOK(kind, arrays[i], memo[i])
  BY DEF CatalogInv, MemosInv
<1>4. MemoOK(kind, s, NoMemo) /\ NoMemo \in Memo
  <2>1. NoMemo = [NoMemo EXCEPT !.epoch = -1] /\ -1 \in -1..MaxEpoch
    BY CatalogAssumption DEF NoMemo
  <2>2. MemoOK(kind, s, NoMemo)
    BY <2>1, NoMemoOK
  <2> QED BY <2>2 DEF MemoOK
<1>5. /\ arrays' \in Seq(Lists) /\ Len(arrays') = n + 1 /\ arrays'[n + 1] = s
      /\ \A i \in 1..n : arrays'[i] = arrays[i]
  <2> HIDE DEF Lists
  <2> QED BY <1>1, <1>2, AppendProperties
<1>6. /\ memo' \in Seq(Memo) /\ Len(memo') = n + 1 /\ memo'[n + 1] = NoMemo
      /\ \A i \in 1..n : memo'[i] = memo[i]
  BY ONLY <1>2, <1>3, <1>4, AppendProperties
<1> HIDE DEF n, Lists
<1>7. MemosInv'
  <2>1. \A i \in 1..(n + 1) : MemoOK(kind, arrays'[i], memo'[i])
    <3> SUFFICES ASSUME NEW i \in 1..(n + 1) PROVE MemoOK(kind, arrays'[i], memo'[i])
      OBVIOUS
    <3>1. i \in 1..n \/ i = n + 1
      BY <1>1
    <3> QED BY <1>3, <1>4, <1>5, <1>6, <3>1
  <2> QED BY <1>2, <1>5, <1>6, <2>1 DEF MemosInv
<1>8. RequestsInv'
  <2>1. \A r \in Request : RequestOK(arrays', kind, epoch, req[r])
    <3> SUFFICES ASSUME NEW r \in Request PROVE RequestOK(arrays', kind, epoch, req[r])
      OBVIOUS
    <3>1. RequestOK(arrays, kind, epoch, req[r])
      BY InvFacts
    <3>2. /\ Len(arrays) \in Nat /\ Len(arrays') \in Nat /\ Len(arrays) <= Len(arrays')
          /\ epoch <= epoch
      BY <1>1, <1>5 DEF n
    <3>3. \A i \in 1..Len(arrays) : arrays'[i] = arrays[i]
      BY <1>5 DEF n
    <3> QED BY ONLY <1>1, <3>1, <3>2, <3>3, RequestLasts
  <2> QED BY <1>2, <2>1 DEF RequestsInv, CatalogInv
<1> QED BY <1>5, <1>7, <1>8 DEF n, Lists

LEMMA OwnLasts ==
    ASSUME NEW a, NEW b, NEW c, NEW i, OwnOK(a, c, i), Len(a) \in Nat, Len(b) = Len(a) + 1,
           \A j \in 1..Len(a) : b[j] = a[j]
    PROVE  OwnOK(b, c, i)
<1>1. i \in 1..Len(a) /\ b[i] = a[i] /\ i \in 1..Len(b)
  BY DEF OwnOK
<1> QED BY <1>1 DEF OwnOK

LEMMA FetchFullKeeps ==
    ASSUME CatalogInv, FetchFull
    PROVE  CatalogInv'
<1>1. PICK v \in Version : NewArray(FullList[v])
  BY DEF FetchFull
<1>2. FullList[v] \in Seq(Item)
  BY CatalogAssumption
<1>3. /\ MemosInv' /\ RequestsInv'
      /\ arrays' \in Seq(Seq(Item)) /\ Len(arrays') = Len(arrays) + 1
      /\ \A i \in 1..Len(arrays) : arrays'[i] = arrays[i]
  BY <1>1, <1>2, NewArrayKeeps
<1>4. full' = Len(arrays') /\ own' = own /\ UNCHANGED <<kind, epoch>>
  BY <1>1 DEF FetchFull, NewArray
<1>5. Len(arrays) \in Nat
  BY InvFacts
<1>6. full' \in 0..Len(arrays') /\ own' \in [Category -> 0..Len(arrays')]
  BY <1>3, <1>4, <1>5 DEF CatalogInv, ListsInv
<1>7. ASSUME NEW c \in Category, own'[c] # 0 PROVE OwnOK(arrays', c, own'[c])
  <2>1. OwnOK(arrays, c, own'[c])
    BY <1>4, <1>7 DEF CatalogInv, ListsInv
  <2> QED BY <1>3, <1>5, <2>1, OwnLasts
<1> QED BY <1>3, <1>4, <1>6, <1>7 DEF CatalogInv, ListsInv

LEMMA FetchListKeeps ==
    ASSUME CatalogInv, NEW c \in Category, FetchList(c)
    PROVE  CatalogInv'
<1> DEFINE made(v) == Reverse(Kept(FullList[v], {i \in DOMAIN FullList[v] : c \in FullList[v][i].cats}))
<1>1. PICK v \in Version : NewArray(made(v))
  BY DEF FetchList
<1>2. made(v) \in Seq(Item) /\ \A x \in Members(made(v)) : c \in x.cats
  <2>1. FullList[v] \in Seq(Item)
    BY CatalogAssumption
  <2> QED BY <2>1, ReversedCategory
<1> HIDE DEF made
<1>3. /\ MemosInv' /\ RequestsInv'
      /\ arrays' \in Seq(Seq(Item)) /\ Len(arrays') = Len(arrays) + 1
      /\ arrays'[Len(arrays')] = made(v)
      /\ \A i \in 1..Len(arrays) : arrays'[i] = arrays[i]
  BY <1>1, <1>2, NewArrayKeeps
<1>4. full' = full /\ own' = [own EXCEPT ![c] = Len(arrays')] /\ UNCHANGED <<kind, epoch>>
  BY <1>1 DEF FetchList, NewArray
<1>5. Len(arrays) \in Nat
  BY InvFacts
<1>6. full' \in 0..Len(arrays') /\ own' \in [Category -> 0..Len(arrays')]
  BY <1>3, <1>4, <1>5 DEF CatalogInv, ListsInv
<1>7. ASSUME NEW x \in Category, own'[x] # 0 PROVE OwnOK(arrays', x, own'[x])
  <2>1. CASE x = c
    <3>1. own'[x] = Len(arrays') /\ Len(arrays') \in 1..Len(arrays')
      BY <1>3, <1>4, <1>5, <2>1 DEF CatalogInv, ListsInv
    <3> QED BY <1>2, <1>3, <2>1, <3>1 DEF OwnOK
  <2>2. CASE x # c
    <3>1. own'[x] = own[x]
      BY <1>4, <2>2 DEF CatalogInv, ListsInv
    <3>2. OwnOK(arrays, x, own'[x])
      BY <1>7, <3>1 DEF CatalogInv, ListsInv
    <3> QED BY <1>3, <1>5, <3>2, OwnLasts
  <2> QED BY <2>1, <2>2
<1> QED BY <1>3, <1>4, <1>6, <1>7 DEF CatalogInv, ListsInv

LEMMA EvictFullKeeps ==
    ASSUME CatalogInv, EvictFull
    PROVE  CatalogInv'
<1>1. Len(arrays) \in Nat
  BY InvFacts
<1> QED BY <1>1 DEF EvictFull, CatalogInv, ListsInv, MemosInv, RequestsInv

LEMMA PeriodEndsKeeps ==
    ASSUME CatalogInv, PeriodEnds
    PROVE  CatalogInv'
<1>1. epoch' = epoch + 1 /\ UNCHANGED <<kind, arrays, full, own, memo, req>> /\ epoch < MaxEpoch
  BY DEF PeriodEnds
<1>2. Len(arrays) \in Nat /\ epoch \in Nat /\ epoch + 1 \in Nat /\ epoch <= epoch + 1
  BY InvFacts
<1>3. epoch' \in 0..MaxEpoch
  BY <1>1, <1>2, CatalogAssumption
<1>4. ListsInv' /\ MemosInv'
  BY <1>1, <1>3 DEF CatalogInv, ListsInv, MemosInv
<1>5. \A r \in Request : RequestOK(arrays, kind, epoch + 1, req[r])
  <2> SUFFICES ASSUME NEW r \in Request PROVE RequestOK(arrays, kind, epoch + 1, req[r])
    OBVIOUS
  <2>1. RequestOK(arrays, kind, epoch, req[r]) /\ Len(arrays) <= Len(arrays)
    BY <1>2, InvFacts
  <2> QED BY ONLY <1>2, <2>1, RequestLasts
<1>6. RequestsInv'
  BY <1>1, <1>5 DEF RequestsInv, CatalogInv
<1> QED BY <1>4, <1>6 DEF CatalogInv

(* What is remembered under every list was made from it, in the period the *)
(* memo is of; what a request holds is what the lists it has read make;    *)
(* and the page it answered was cut from that.                             *)
THEOREM CatalogInductive == CatalogSpec => []CatalogInv
<1>1. CatalogInit => CatalogInv
  BY InitialInv
<1>2. CatalogInv /\ [CatalogNext]_catalogVars => CatalogInv'
  <2> SUFFICES ASSUME CatalogInv, [CatalogNext]_catalogVars PROVE CatalogInv'
    OBVIOUS
  <2>1. ASSUME NEW r \in Request, Arrive(r) PROVE CatalogInv'
    BY <2>1, ArriveKeeps
  <2>2. ASSUME NEW r \in Request, CategoriesRead(r) PROVE CatalogInv'
    BY <2>2, CategoriesReadKeeps
  <2>3. ASSUME NEW r \in Request, ListLoaded(r) PROVE CatalogInv'
    BY <2>3, ListLoadedKeeps
  <2>4. ASSUME NEW r \in Request, NEW c \in Category, CategoryListLoaded(r, c)
        PROVE  CatalogInv'
    BY <2>4, CategoryListLoadedKeeps
  <2>5. ASSUME NEW r \in Request, LoadFails(r) PROVE CatalogInv'
    BY <2>5, LoadFailsKeeps
  <2>6. ASSUME NEW r \in Request, AnswerPage(r) PROVE CatalogInv'
    BY <2>6, AnswerPageKeeps
  <2>7. ASSUME FetchFull PROVE CatalogInv'
    BY <2>7, FetchFullKeeps
  <2>8. ASSUME NEW c \in Category, FetchList(c) PROVE CatalogInv'
    BY <2>8, FetchListKeeps
  <2>9. ASSUME EvictFull PROVE CatalogInv'
    BY <2>9, EvictFullKeeps
  <2>10. ASSUME PeriodEnds PROVE CatalogInv'
    BY <2>10, PeriodEndsKeeps
  <2>11. ASSUME UNCHANGED catalogVars PROVE CatalogInv'
    BY <2>11 DEF catalogVars, CatalogInv, ListsInv, MemosInv, RequestsInv
  <2> QED BY <2>1, <2>2, <2>3, <2>4, <2>5, <2>6, <2>7, <2>8, <2>9, <2>10, <2>11 DEF CatalogNext
<1> QED BY <1>1, <1>2, PTL DEF CatalogSpec

(* CatalogTypeOK: no memo under a list answers for another list, another   *)
(* selection, another order or another period (catalogMemoFor,             *)
(* sortedCatalogViews).                                                    *)
THEOREM MemosAreOfTheirLists == CatalogSpec => []CatalogTypeOK
<1>1. CatalogInv => CatalogTypeOK
  <2> SUFFICES ASSUME CatalogInv PROVE CatalogTypeOK
    OBVIOUS
  <2>1. /\ full \in 0..Len(arrays) /\ own \in [Category -> 0..Len(arrays)]
        /\ memo \in Seq(Memo) /\ Len(memo) = Len(arrays)
    BY DEF CatalogInv, ListsInv, MemosInv
  <2>2. \A r \in Request : req[r].epoch \in 0..epoch
    BY DEF CatalogInv, RequestsInv, RequestOK
  <2>3. DOMAIN memo = 1..Len(arrays)
    BY <2>1, LenProperties
  <2>4. ASSUME NEW i \in DOMAIN memo
        PROVE  /\ \A want \in DOMAIN memo[i].selections :
                      /\ memo[i].selections[want] = Selection(kind, arrays[i], want)
                      /\ memo[i].selections[want] # <<>>
               /\ \A key \in DOMAIN memo[i].views :
                      Sorts(memo[i].views[key], Selection(kind, arrays[i], key[2]),
                            key[1], memo[i].epoch)
    <3>1. MemoOK(kind, arrays[i], memo[i]) /\ arrays[i] \in Seq(Item)
      BY <2>3, InvFacts DEF CatalogInv, MemosInv
    <3>2. ASSUME NEW key \in DOMAIN memo[i].views
          PROVE  Sorts(memo[i].views[key], Selection(kind, arrays[i], key[2]),
                       key[1], memo[i].epoch)
      <4>1. /\ memo[i].epoch \in 0..MaxEpoch
            /\ memo[i].views[key] = InOrder(Selection(kind, arrays[i], key[2]), key[1], memo[i].epoch)
        BY <3>1 DEF MemoOK
      <4>2. Selection(kind, arrays[i], key[2]) \in Seq(Item)
        BY <3>1, SelectionIsAList
      <4> QED BY <4>1, <4>2, InOrderSorts
    <3> QED BY <3>1, <3>2 DEF MemoOK
  <2> QED BY <2>1, <2>2, <2>4 DEF CatalogTypeOK
<1> QED BY <1>1, CatalogInductive, PTL

(* PageIsTheShelf: every page is cut from what its lists make, computed    *)
(* anew, however the memos were filled meanwhile, and a full list never    *)
(* hides a category.                                                       *)
THEOREM PagesAreOfTheirShelves == CatalogSpec => []PageIsTheShelf
<1>1. \A q : ShelfOf(arrays, kind, q) = Shelf(q)
  BY DEF ShelfOf, StockOf, Shelf, Asked, ListsOf
<1>2. CatalogInv => PageIsTheShelf
  BY <1>1 DEF CatalogInv, RequestsInv, RequestOK, PageIsTheShelf, Asked
<1> QED BY <1>2, CatalogInductive, PTL
-----------------------------------------------------------------------------
(* Which source served a page.                                             *)

EachIdOnce(s) == \A i, j \in DOMAIN s : s[i].id = s[j].id => i = j

LEMMA OneToOne ==
    ASSUME NEW S, IsFiniteSet(S), NEW T, NEW f \in [S -> T],
           \A x, y \in S : f[x] = f[y] => x = y,
           \A z \in T : \E x \in S : f[x] = z
    PROVE  Cardinality(T) = Cardinality(S)
<1>1. f \in Injection(S, T) /\ f \in Surjection(S, T)
  BY DEF Injection, Surjection, IsInjective
<1> QED BY <1>1, FS_Surjection

(* Where a list has each id once, an item's place is told by the items     *)
(* alone.                                                                  *)
UpToItem(M, variant, e, x) == {y \in M : y = x \/ Before(variant, e, y, x)}

LEMMA PlaceOfItem ==
    ASSUME NEW s \in Seq(Item), EachIdOnce(s), NEW variant, NEW e \in 0..MaxEpoch,
           NEW i \in 1..Len(s)
    PROVE  Place(s, variant, e, i) = Cardinality(UpToItem(Members(s), variant, e, s[i]))
<1> DEFINE A == {j \in 1..Len(s) : Precedes(s, variant, e, j, i)}
           B == UpToItem(Members(s), variant, e, s[i])
           f == [j \in A |-> s[j]]
<1>1. Len(s) \in Nat /\ DOMAIN s = 1..Len(s) /\ \A j \in 1..Len(s) : s[j] \in Item
  BY LenProperties, ElementOfSeq
<1>2. ASSUME NEW j \in 1..Len(s)
      PROVE  Precedes(s, variant, e, j, i) <=> s[j] = s[i] \/ Before(variant, e, s[j], s[i])
  <2>1. CASE j = i
    <3>1. ~Before(variant, e, s[i], s[i])
      BY <1>1, BeforeIsAnOrder
    <3> QED BY <2>1, <3>1 DEF Precedes
  <2>2. CASE j # i
    <3>1. s[j].id # s[i].id
      BY <1>1, <2>2 DEF EachIdOnce
    <3>2. s[j] # s[i]
      BY <3>1
    <3>3. ~(Before(variant, e, s[j], s[i]) /\ Before(variant, e, s[i], s[j]))
      BY <1>1, BeforeIsAnOrder
    <3>4. Before(variant, e, s[j], s[i]) \/ Before(variant, e, s[i], s[j])
      <4>1. /\ s[i].added \in Nat /\ s[j].added \in Nat
            /\ s[i].id \in Nat /\ s[j].id \in Nat
            /\ s[i].id \in ItemId /\ s[j].id \in ItemId
        BY <1>1, CatalogAssumption DEF Item
      <4>2. Hash[e][s[i].id] \in Nat /\ Hash[e][s[j].id] \in Nat
        BY <4>1, CatalogAssumption
      <4>3. CASE variant = "new"
        BY <3>1, <4>1, <4>3 DEF Before
      <4>4. CASE variant # "new"
        BY <3>1, <4>1, <4>2, <4>4 DEF Before
      <4> QED BY <4>3, <4>4
    <3> QED BY <3>2, <3>3, <3>4 DEF Precedes
  <2> QED BY <2>1, <2>2
<1>3. Place(s, variant, e, i) = Cardinality(A)
  BY <1>1 DEF Place
<1>4. IsFiniteSet(A)
  <2>1. IsFiniteSet(1..Len(s)) /\ A \subseteq 1..Len(s)
    BY <1>1, FS_Interval
  <2> QED BY <2>1, FS_Subset
<1>5. f \in [A -> B]
  BY <1>1, <1>2 DEF UpToItem, Members
<1>6. \A x, y \in A : f[x] = f[y] => x = y
  BY <1>1 DEF EachIdOnce
<1>7. \A z \in B : \E x \in A : f[x] = z
  BY <1>1, <1>2 DEF UpToItem, Members
<1> HIDE DEF A, B, f
<1>8. Cardinality(B) = Cardinality(A)
  BY ONLY <1>4, <1>5, <1>6, <1>7, OneToOne
<1> QED BY <1>3, <1>8 DEF B

LEMMA LengthIsOfTheItems ==
    ASSUME NEW s \in Seq(Item), EachIdOnce(s)
    PROVE  Len(s) = Cardinality(Members(s))
<1>1. Len(s) \in Nat /\ DOMAIN s = 1..Len(s) /\ \A j \in 1..Len(s) : s[j] \in Item
  BY LenProperties, ElementOfSeq
<1>2. IsFiniteSet(1..Len(s)) /\ Cardinality(1..Len(s)) = Len(s)
  <2> DEFINE n == Len(s)
  <2>1. n \in Nat
    BY <1>1
  <2> HIDE DEF n
  <2>2. IsFiniteSet(1..n) /\ Cardinality(1..n) = n
    BY ONLY <2>1, FS_Interval
  <2> QED BY <2>2 DEF n
<1>3. /\ s \in [1..Len(s) -> Members(s)]
      /\ \A x, y \in 1..Len(s) : s[x] = s[y] => x = y
      /\ \A z \in Members(s) : \E x \in 1..Len(s) : s[x] = z
  <2>1. s = [k \in 1..Len(s) |-> s[k]]
    BY <1>1, SeqDef
  <2>2. \A k \in 1..Len(s) : s[k] \in Members(s)
    BY <1>1 DEF Members
  <2> QED BY <1>1, <2>1, <2>2 DEF EachIdOnce, Members
<1>4. Cardinality(Members(s)) = Cardinality(1..Len(s))
  BY ONLY <1>2, <1>3, OneToOne
<1> QED BY <1>2, <1>4

(* The order of a shelf is that of its items, whichever list served them   *)
(* and in whatever order ("a page does not depend on which source served   *)
(* the list").                                                             *)
THEOREM OrderIsOfTheItems ==
    ASSUME NEW s \in Seq(Item), NEW t \in Seq(Item), EachIdOnce(s), EachIdOnce(t),
           Members(s) = Members(t), NEW variant, NEW e \in 0..MaxEpoch
    PROVE  InOrder(s, variant, e) = InOrder(t, variant, e)
<1> DEFINE n == Len(s)
           u == InOrder(s, variant, e)
           v == InOrder(t, variant, e)
<1>1. Len(t) = n
  BY LengthIsOfTheItems
<1>2. /\ DOMAIN s = 1..n /\ DOMAIN t = 1..n
      /\ \A k \in 1..n : \E i \in 1..n : Place(s, variant, e, i) = k
  BY <1>1, PlacesAreTaken
<1>3. DOMAIN u = 1..n /\ \A i \in 1..n : u[Place(s, variant, e, i)] = s[i]
  BY InOrderPlaces
<1>4. DOMAIN v = 1..n /\ \A i \in 1..n : v[Place(t, variant, e, i)] = t[i]
  BY <1>1, InOrderPlaces
<1>5. u = [k \in 1..n |-> u[k]] /\ v = [k \in 1..n |-> v[k]]
  BY <1>2 DEF InOrder
<1>6. /\ \A i \in 1..n : Place(s, variant, e, i)
                             = Cardinality(UpToItem(Members(s), variant, e, s[i]))
      /\ \A i \in 1..n : Place(t, variant, e, i)
                             = Cardinality(UpToItem(Members(t), variant, e, t[i]))
  BY <1>1, PlaceOfItem
<1> HIDE DEF u, v, n
<1>7. ASSUME NEW k \in 1..n PROVE u[k] = v[k]
  <2>1. PICK i \in 1..n : Place(s, variant, e, i) = k
    BY <1>2
  <2>2. PICK j \in 1..n : t[j] = s[i]
    BY <1>2 DEF Members
  <2>3. Place(t, variant, e, j) = k
    BY <1>6, <2>1, <2>2
  <2>4. u[k] = s[i] /\ v[k] = t[j]
    BY <1>3, <1>4, <2>1, <2>3
  <2> QED BY <2>2, <2>4
<1>8. u = v
  BY ONLY <1>5, <1>7, Zenon
<1> QED BY <1>8 DEF u, v

(* uniqueById leaves each id once, and none out.                           *)
LEMMA EachIdIsLeftOnce ==
    ASSUME NEW s \in Seq(Item)
    PROVE  /\ uniqueById(s) \in Seq(Item) /\ EachIdOnce(uniqueById(s))
           /\ LeftOf(uniqueById(s), s)
           /\ \A x \in Members(s) : \E y \in Members(uniqueById(s)) : y.id = x.id
<1> DEFINE places == {i \in DOMAIN s : \A j \in 1..(i - 1) : s[j].id # s[i].id}
           t == Kept(s, places)
<1>1. Len(s) \in Nat /\ DOMAIN s = 1..Len(s) /\ places \in SUBSET (1..Len(s))
  BY LenProperties
<1>2. t = uniqueById(s)
  BY DEF uniqueById
<1>3. /\ t \in Seq(Item) /\ Len(t) = Cardinality(places) /\ LeftOf(t, s)
      /\ Members(t) = {s[i] : i \in places}
      /\ \A i \in places : t[Rank(places, i)] = s[i]
  <2>1. places \in SUBSET (DOMAIN s)
    OBVIOUS
  <2> HIDE DEF places
  <2> QED BY <2>1, KeptLeaves
<1>4. \A k \in 1..Cardinality(places) : \E i \in places : Rank(places, i) = k
  BY <1>1, EveryRankIsTaken
<1>5. DOMAIN t = 1..Cardinality(places)
  BY <1>3, LenProperties
<1>6. ASSUME NEW i \in places, NEW j \in places, s[i].id = s[j].id
      PROVE  i = j
  BY <1>1, <1>6
<1>7. ASSUME NEW k \in DOMAIN t, NEW l \in DOMAIN t, t[k].id = t[l].id
      PROVE  k = l
  <2>1. PICK i \in places : Rank(places, i) = k
    BY <1>4, <1>5
  <2>2. PICK j \in places : Rank(places, j) = l
    BY <1>4, <1>5
  <2>3. s[i].id = s[j].id
    BY <1>3, <1>7, <2>1, <2>2
  <2> QED BY <1>6, <2>1, <2>2, <2>3
<1>8. ASSUME NEW i \in DOMAIN s PROVE \E y \in Members(t) : y.id = s[i].id
  <2> DEFINE same == {j \in DOMAIN s : s[j].id = s[i].id}
  <2>1. same \subseteq Nat /\ same # {}
    BY <1>1
  <2>2. PICK j \in same : \A m \in same : j <= m
    BY ONLY <2>1, LeastNatural
  <2>3. j \in places
    BY <1>1, <2>2
  <2> QED BY <1>3, <2>2, <2>3
<1>9. \A x \in Members(s) : \E y \in Members(t) : y.id = x.id
  BY <1>8 DEF Members
<1> QED BY <1>2, <1>3, <1>7, <1>9 DEF EachIdOnce

(* What a request was served from lists each id once: several merged do,   *)
(* and so does one list of a panel that lists nothing twice.  (That what   *)
(* several lists are put together to is a list of items is a fact about    *)
(* the recursive FlattenSeq, and so a condition here.)                     *)
ListedOnce(a, k, q) ==
    IF SourceOf(q) = 0
    THEN FlattenSeq([n \in DOMAIN q.order |-> a[q.from[q.order[n]]]]) \in Seq(Item)
    ELSE EachIdOnce(StockOf(a, k, q))

LEMMA StockIsListedOnce ==
    ASSUME NEW a \in Seq(Seq(Item)), NEW k, NEW e, NEW q, RequestOK(a, k, e, q),
           q.stage = "answered", ListedOnce(a, k, q)
    PROVE  StockOf(a, k, q) \in Seq(Item) /\ EachIdOnce(StockOf(a, k, q))
<1>1. q.all \in Nat /\ q.order \in Seq(Category) /\ Len(a) \in Nat
  BY LenProperties DEF RequestOK, IsRequest
<1>2. CASE q.all # 0
  <2>1. q.all \in 1..Len(a)
    BY <1>1, <1>2 DEF RequestOK
  <2>2. a[q.all] \in Seq(Item)
    BY <2>1, ElementOfSeq
  <2>3. SourceOf(q) # 0
    BY <1>2 DEF SourceOf
  <2> QED BY <1>2, <2>2, <2>3, SelectionIsAList DEF StockOf, ListedOnce
<1>3. CASE q.all = 0 /\ Len(q.order) = 1
  <2> DEFINE c == q.order[1]
  <2>1. SourceOf(q) = q.from[c] /\ StockOf(a, k, q) = a[q.from[c]]
    BY <1>3 DEF SourceOf, StockOf
  <2>2. c \in Members(q.order)
    BY <1>1, <1>3, LenProperties DEF Members
  <2>3. OwnOK(a, c, q.from[c])
    BY <1>3, <2>2 DEF RequestOK
  <2>4. q.from[c] \in 1..Len(a) /\ q.from[c] # 0
    BY <2>3, <1>1 DEF OwnOK
  <2>5. a[q.from[c]] \in Seq(Item)
    BY <2>4, ElementOfSeq
  <2> QED BY <2>1, <2>4, <2>5 DEF ListedOnce
<1>4. CASE q.all = 0 /\ Len(q.order) # 1
  <2> DEFINE s == FlattenSeq([n \in DOMAIN q.order |-> a[q.from[q.order[n]]]])
  <2>1. SourceOf(q) = 0 /\ StockOf(a, k, q) = uniqueById(s)
    BY <1>4 DEF SourceOf, StockOf
  <2>2. s \in Seq(Item)
    BY <2>1 DEF ListedOnce
  <2> HIDE DEF s
  <2> QED BY <2>1, <2>2, EachIdIsLeftOnce
<1> QED BY <1>2, <1>3, <1>4

(* Two pages of one order, one period, one search and one skip.            *)
AlikeAsked(p, q) ==
    /\ p.stage = "answered" /\ q.stage = "answered"
    /\ catalogVariant(p) = catalogVariant(q) /\ p.epoch = q.epoch
    /\ p.search = q.search /\ p.skip = q.skip

(* A page does not depend on which source served it: the full list, a      *)
(* category's own or several merged, in whatever order the panel sent      *)
(* them, fetched or remembered, give one page for the same items           *)
(* (catalogComparator makes each sort a total order).                      *)
PagesAgree ==
    \A r1, r2 \in Request :
        LET p == req[r1]
            q == req[r2]
        IN  /\ kind # "live" /\ AlikeAsked(p, q)
            /\ ListedOnce(arrays, kind, p) /\ ListedOnce(arrays, kind, q)
            /\ Members(StockOf(arrays, kind, p)) = Members(StockOf(arrays, kind, q))
            => p.page = q.page

(* PagesAgree: the sort is total, so the source of a list shows in no page *)
(* made of it.                                                             *)
THEOREM SourcesAgree == CatalogSpec => []PagesAgree
<1>1. ASSUME CatalogInv, NEW r1 \in Request, NEW r2 \in Request,
             kind # "live", AlikeAsked(req[r1], req[r2]),
             ListedOnce(arrays, kind, req[r1]), ListedOnce(arrays, kind, req[r2]),
             Members(StockOf(arrays, kind, req[r1])) = Members(StockOf(arrays, kind, req[r2]))
      PROVE  req[r1].page = req[r2].page
  <2> DEFINE p == req[r1]
             q == req[r2]
             x == StockOf(arrays, kind, p)
             y == StockOf(arrays, kind, q)
  <2>1. /\ RequestOK(arrays, kind, epoch, p) /\ RequestOK(arrays, kind, epoch, q)
        /\ arrays \in Seq(Seq(Item)) /\ epoch \in 0..MaxEpoch /\ MaxEpoch \in Nat
    BY <1>1, InvFacts, CatalogAssumption
  <2>2. x \in Seq(Item) /\ EachIdOnce(x) /\ y \in Seq(Item) /\ EachIdOnce(y)
    BY <1>1, <2>1, StockIsListedOnce DEF AlikeAsked
  <2>3. p.epoch \in 0..MaxEpoch
    BY <2>1 DEF RequestOK
  <2>4. Members(x) = Members(y)
    BY <1>1
  <2> HIDE DEF x, y, p, q
  <2>5. InOrder(x, catalogVariant(p), p.epoch) = InOrder(y, catalogVariant(p), p.epoch)
    BY ONLY <2>2, <2>3, <2>4, OrderIsOfTheItems
  <2>6. /\ catalogVariant(p) = catalogVariant(q) /\ p.epoch = q.epoch
        /\ p.search = q.search /\ p.skip = q.skip
        /\ p.stage = "answered" /\ q.stage = "answered"
    BY <1>1 DEF AlikeAsked, p, q
  <2>7. p.page = Page(ShelfOf(arrays, kind, p), p.skip) /\ q.page = Page(ShelfOf(arrays, kind, q), q.skip)
    BY <2>1, <2>6 DEF RequestOK
  <2>8. ShelfOf(arrays, kind, p) = ShelfOf(arrays, kind, q)
    <3>1. ShelfOf(arrays, kind, p) = Titled(InOrder(x, catalogVariant(p), p.epoch), p)
      BY <1>1 DEF ShelfOf, x
    <3>2. ShelfOf(arrays, kind, q) = Titled(InOrder(y, catalogVariant(q), q.epoch), q)
      BY <1>1 DEF ShelfOf, y
    <3> QED BY <2>5, <2>6, <3>1, <3>2 DEF Titled
  <2> QED BY <2>6, <2>7, <2>8 DEF p, q
<1>2. CatalogInv => PagesAgree
  <2> SUFFICES ASSUME CatalogInv, NEW r1 \in Request, NEW r2 \in Request,
                      kind # "live", AlikeAsked(req[r1], req[r2]),
                      ListedOnce(arrays, kind, req[r1]), ListedOnce(arrays, kind, req[r2]),
                      Members(StockOf(arrays, kind, req[r1]))
                          = Members(StockOf(arrays, kind, req[r2]))
               PROVE  req[r1].page = req[r2].page
    BY DEF PagesAgree
  <2> QED BY <1>1
<1> QED BY <1>2, CatalogInductive, PTL
=============================================================================

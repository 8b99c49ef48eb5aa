--------------------------- MODULE OutboundProofs ---------------------------
(***************************************************************************)
(* Proofs about Outbound, for every number of tasks, hosts, origins and    *)
(* addresses, every lifetime and every bound of the two maps.              *)
(***************************************************************************)
EXTENDS Outbound, SequenceLemmas, TLAPS

PinRecord == [host : Host, addresses : SUBSET Address \ {{}}, left : 0..PinTtl]
Vetting == [origin : Origin, ok : Task \cup Verdicts, left : 0..PinTtl]

(* An older pin is of another host and expires no later.                   *)
Ordered == {p \in PinRecord \X PinRecord :
                p[1].host # p[2].host /\ p[1].left <= p[2].left}

InOrder(pins) == \A i, j \in DOMAIN pins : i < j => <<pins[i], pins[j]>> \in Ordered

(* The pins are of vetted addresses, and as fresh as what DNS last said.   *)
Heard(pins, fresh) ==
    \A i \in DOMAIN pins :
        /\ pins[i].addresses \cap Private = {}
        /\ pins[i].left <= fresh[pins[i].host]

PinsInv ==
    /\ dnsPins \in Seq(PinRecord)
    /\ Len(dnsPins) <= PinMax
    /\ InOrder(dnsPins)
    /\ heard \in [Host -> 0..PinTtl]
    /\ Heard(dnsPins, heard)

(* There is one vetting for an origin.                                     *)
Distinct(cache) ==
    \A i, j \in DOMAIN cache : i # j => cache[i].origin # cache[j].origin

VettingsInv ==
    /\ vetCache \in Seq(Vetting)
    /\ Len(vetCache) <= VetMax
    /\ Distinct(vetCache)
    /\ \A i \in DOMAIN vetCache :
           vetCache[i].ok \in Task => vetting[vetCache[i].ok]

(* Only a host name is resolved, nothing that is refused is connected to,  *)
(* a vetting connects to nothing, and only its handlers are still to run.  *)
TasksInv ==
    /\ stage \in [Task -> Stages]
    /\ vetting \in [Task -> BOOLEAN]
    /\ url \in [Task -> Url]
    /\ redirects \in [Task -> 0..MaxRedirects]
    /\ to \in [Task -> Address \cup {"nowhere", "publicIp"}]
    /\ \A t \in Task :
           /\ stage[t] \in {"resolving", "fallback"} => url[t] \in Host
           /\ stage[t] = "connecting" => url[t] # "refused"
           /\ vetting[t] => stage[t] \in {"resolving", "fallback"} \cup Outcomes
           /\ stage[t] \in Outcomes => vetting[t]

IInv == PinsInv /\ VettingsInv /\ TasksInv

LEMMA Constants ==
    /\ Private \subseteq Address
    /\ "refused" \notin Host /\ "publicIp" \notin Host
    /\ "allowed" \notin Task /\ "refused" \notin Task
    /\ Origin \subseteq Url
    /\ MaxRedirects \in Nat
    /\ PinTtl \in Nat \ {0} /\ PinMax \in Nat \ {0} /\ VetMax \in Nat \ {0}
BY OutboundAssumption DEF Url

LEMMA InvariantImpliesTypeOK ==
    IInv => TypeOK
<1> SUFFICES ASSUME IInv PROVE TypeOK
  OBVIOUS
<1>1. Members(dnsPins) \subseteq PinRecord
  BY ElementOfSeq, LenProperties DEF IInv, PinsInv, Members
<1>2. Members(vetCache) \subseteq Vetting
  BY ElementOfSeq, LenProperties DEF IInv, VettingsInv, Members
<1>3. \A i, j \in DOMAIN dnsPins : i < j =>
          /\ dnsPins[i].host # dnsPins[j].host
          /\ dnsPins[i].left <= dnsPins[j].left
  BY DEF IInv, PinsInv, InOrder, Ordered
<1>4. \A e \in Members(vetCache) : e.ok \in Task => vetting[e.ok]
  BY DEF IInv, VettingsInv, Members
<1> QED
  BY <1>1, <1>2, <1>3, <1>4
  DEF IInv, PinsInv, VettingsInv, Distinct, TasksInv, TypeOK, PinRecord, Vetting

LEMMA InitImpliesInvariant ==
    Init => IInv
<1> SUFFICES ASSUME Init PROVE IInv
  OBVIOUS
<1>1. /\ <<>> \in Seq(PinRecord) /\ <<>> \in Seq(Vetting)
      /\ Len(<<>>) = 0 /\ DOMAIN <<>> = {}
  OBVIOUS
<1>2. PinsInv
  <2>1. heard \in [Host -> 0..PinTtl]
    BY Constants DEF Init
  <2> QED BY <1>1, <2>1, Constants DEF Init, PinsInv, InOrder, Heard
<1>3. VettingsInv
  BY <1>1, Constants DEF Init, VettingsInv, Distinct
<1>4. TasksInv
  BY Constants DEF Init, TasksInv, Stages, Outcomes, Url
<1> QED BY <1>2, <1>3, <1>4 DEF IInv

-----------------------------------------------------------------------------
(* The pins that are left are in order, and of vetted addresses.           *)
LEMMA LeavingKeepsPins ==
    ASSUME NEW s \in Seq(PinRecord), NEW t \in Seq(PinRecord), LeftOf(t, s),
           InOrder(s), NEW fresh, Heard(s, fresh)
    PROVE  InOrder(t) /\ Heard(t, fresh)
<1>1. PICK place \in [DOMAIN t -> DOMAIN s] :
          /\ \A i, j \in DOMAIN t : i < j => place[i] < place[j]
          /\ \A i \in DOMAIN t : t[i] = s[place[i]]
  BY DEF LeftOf
<1>2. InOrder(t)
  BY <1>1 DEF InOrder
<1>3. Heard(t, fresh)
  BY <1>1 DEF Heard
<1> QED BY <1>2, <1>3

LEMMA OthersAreLeft ==
    ASSUME PinsInv, NEW h \in Host
    PROVE  /\ OfOthers(h) \in Seq(PinRecord)
           /\ InOrder(OfOthers(h)) /\ Heard(OfOthers(h), heard)
           /\ \A p \in Members(OfOthers(h)) : p.host # h
<1> DEFINE live == {i \in DOMAIN dnsPins : dnsPins[i].left > 0}
           others == {i \in DOMAIN Swept : Swept[i].host # h}
<1>1. live \in SUBSET (DOMAIN dnsPins) /\ Swept = From(dnsPins, live)
  BY DEF Swept
<1>2. others \in SUBSET (DOMAIN Swept) /\ OfOthers(h) = Kept(Swept, others)
  BY DEF OfOthers
<1>3. \A i \in others : Swept[i].host # h
  OBVIOUS
<1> HIDE DEF live, others
<1>4. Swept \in Seq(PinRecord) /\ LeftOf(Swept, dnsPins)
  BY <1>1, FromLeaves DEF PinsInv
<1>5. InOrder(Swept) /\ Heard(Swept, heard)
  BY <1>4, LeavingKeepsPins DEF PinsInv
<1>6. /\ OfOthers(h) \in Seq(PinRecord) /\ LeftOf(OfOthers(h), Swept)
      /\ Members(OfOthers(h)) = {Swept[i] : i \in others}
  BY <1>2, <1>4, KeptLeaves
<1>7. InOrder(OfOthers(h)) /\ Heard(OfOthers(h), heard)
  BY <1>4, <1>5, <1>6, LeavingKeepsPins
<1> QED BY <1>3, <1>6, <1>7

(* pinResolvedAddresses keeps the map in order and within its bound.       *)
LEMMA PinKeepsPins ==
    ASSUME PinsInv, NEW h \in Host,
           NEW addresses \in SUBSET Address \ {{}}, ~Blocked(addresses)
    PROVE  LET pins == Pin(h, addresses)
           IN  /\ pins \in Seq(PinRecord) /\ Len(pins) <= PinMax /\ InOrder(pins)
               /\ Heard(pins, [heard EXCEPT ![h] = PinTtl])
<1> DEFINE n == PinMax - 1
           left == Newest(OfOthers(h), n)
           new == NewPin(h, addresses)
           pins == Append(left, new)
           fresh == [heard EXCEPT ![h] = PinTtl]
<1>1. /\ OfOthers(h) \in Seq(PinRecord)
      /\ InOrder(OfOthers(h)) /\ Heard(OfOthers(h), heard)
      /\ \A p \in Members(OfOthers(h)) : p.host # h
  BY OthersAreLeft
<1>2. n \in Nat /\ Pin(h, addresses) = pins
  BY Constants DEF Pin
<1>3. n = PinMax - 1
  OBVIOUS
<1> HIDE DEF n
<1>4. /\ left \in Seq(PinRecord) /\ LeftOf(left, OfOthers(h))
      /\ Len(left) = IF Len(OfOthers(h)) > n THEN n ELSE Len(OfOthers(h))
  BY <1>1, <1>2, NewestLeaves
<1>5. Len(left) \in Nat /\ DOMAIN left = 1..Len(left) /\ Len(left) <= n
  <2>1. Len(OfOthers(h)) \in Nat
    BY <1>1, LenProperties
  <2> QED BY <1>2, <1>4, <2>1, LenProperties
<1>6. InOrder(left) /\ Heard(left, heard)
  BY <1>1, <1>4, LeavingKeepsPins
<1>7. \A i \in DOMAIN left : left[i].host # h /\ left[i] \in PinRecord
  <2>1. Members(left) \subseteq Members(OfOthers(h))
    BY <1>4, LeftOfMembers
  <2>2. \A i \in DOMAIN left : left[i] \in Members(left) /\ left[i] \in PinRecord
    BY <1>4, <1>5, ElementOfSeq DEF Members
  <2> QED BY <1>1, <2>1, <2>2
<1>8. /\ new \in PinRecord /\ new.host = h /\ new.left = PinTtl
      /\ new.addresses \cap Private = {}
  BY Constants DEF NewPin, PinRecord, Blocked
<1> HIDE DEF left, new
<1>9. /\ pins \in Seq(PinRecord) /\ Len(pins) = Len(left) + 1
      /\ \A i \in 1..Len(left) : pins[i] = left[i]
      /\ pins[Len(left) + 1] = new
  BY <1>4, <1>8, AppendProperties
<1> HIDE DEF pins
<1>10. DOMAIN pins = 1..(Len(left) + 1)
  BY <1>9, LenProperties
<1>11. \A i \in DOMAIN pins : \/ i \in DOMAIN left /\ pins[i] = left[i]
                              \/ i = Len(left) + 1 /\ pins[i] = new
  BY <1>5, <1>9, <1>10
<1>12. \A i \in DOMAIN left : <<left[i], new>> \in Ordered
  BY <1>7, <1>8, Constants DEF Ordered, PinRecord
<1>13. InOrder(pins)
  <2> SUFFICES ASSUME NEW i \in DOMAIN pins, NEW j \in DOMAIN pins, i < j
               PROVE  <<pins[i], pins[j]>> \in Ordered
    BY DEF InOrder
  <2>1. i \in DOMAIN left /\ pins[i] = left[i]
    BY <1>5, <1>10, <1>11
  <2>2. CASE j \in DOMAIN left /\ pins[j] = left[j]
    BY <2>1, <2>2, <1>6 DEF InOrder
  <2>3. CASE j = Len(left) + 1 /\ pins[j] = new
    BY <2>1, <2>3, <1>12
  <2> QED BY <2>2, <2>3, <1>11
<1>14. Heard(pins, fresh)
  <2> SUFFICES ASSUME NEW i \in DOMAIN pins
               PROVE  /\ pins[i].addresses \cap Private = {}
                      /\ pins[i].left <= fresh[pins[i].host]
    BY DEF Heard
  <2>1. heard \in [Host -> 0..PinTtl]
    BY DEF PinsInv
  <2>2. CASE i \in DOMAIN left /\ pins[i] = left[i]
    <3>1. left[i].host \in Host /\ left[i].host # h
      BY <2>2, <1>7 DEF PinRecord
    <3>2. fresh[left[i].host] = heard[left[i].host]
      BY <2>1, <3>1
    <3> QED BY <2>2, <3>2, <1>6 DEF Heard
  <2>3. CASE pins[i] = new
    BY <2>1, <2>3, <1>8, Constants
  <2> QED BY <2>2, <2>3, <1>11
<1>15. Len(pins) <= PinMax
  BY <1>2, <1>3, <1>5, <1>9, Constants
<1> QED BY <1>2, <1>9, <1>13, <1>14, <1>15

(* Time takes as much from a pin as from what DNS last said.               *)
LEMMA TickKeepsPins ==
    ASSUME PinsInv, Tick
    PROVE  PinsInv'
<1> DEFINE older(p) == [p EXCEPT !.left = Less(@)]
<1>1. \A p \in PinRecord : /\ older(p) \in PinRecord
                           /\ older(p).left = Less(p.left)
                           /\ older(p).host = p.host
                           /\ older(p).addresses = p.addresses
  BY Constants DEF PinRecord, Less
<1>2. /\ dnsPins' = [i \in DOMAIN dnsPins |-> older(dnsPins[i])]
      /\ heard' = [h \in Host |-> Less(heard[h])]
  BY DEF Tick
<1> HIDE DEF older
<1>3. \A i \in DOMAIN dnsPins : dnsPins[i] \in PinRecord
  BY ElementOfSeq, LenProperties DEF PinsInv
<1>4. dnsPins' \in Seq(PinRecord) /\ Len(dnsPins') = Len(dnsPins)
  <2>1. dnsPins' \in [DOMAIN dnsPins -> PinRecord]
    BY <1>1, <1>2, <1>3
  <2> QED BY <2>1, SameDomain DEF PinsInv
<1>5. \A i \in DOMAIN dnsPins :
          /\ dnsPins'[i] \in PinRecord
          /\ dnsPins'[i].left = Less(dnsPins[i].left)
          /\ dnsPins'[i].host = dnsPins[i].host
          /\ dnsPins'[i].addresses = dnsPins[i].addresses
          /\ dnsPins[i].left \in Nat /\ dnsPins[i].host \in Host
  BY <1>1, <1>2, <1>3 DEF PinRecord
<1>6. DOMAIN dnsPins' = DOMAIN dnsPins
  BY <1>2
<1>7. heard' \in [Host -> 0..PinTtl]
  BY <1>2, Constants DEF PinsInv, Less
<1>8. InOrder(dnsPins')
  <2> SUFFICES ASSUME NEW i \in DOMAIN dnsPins, NEW j \in DOMAIN dnsPins, i < j
               PROVE  <<dnsPins'[i], dnsPins'[j]>> \in Ordered
    BY <1>6 DEF InOrder
  <2>1. dnsPins[i].host # dnsPins[j].host /\ dnsPins[i].left <= dnsPins[j].left
    BY DEF PinsInv, InOrder, Ordered
  <2>2. Less(dnsPins[i].left) <= Less(dnsPins[j].left)
    BY <1>5, <2>1 DEF Less
  <2> QED BY <1>5, <2>1, <2>2 DEF Ordered
<1>9. Heard(dnsPins', heard')
  <2> SUFFICES ASSUME NEW i \in DOMAIN dnsPins
               PROVE  /\ dnsPins'[i].addresses \cap Private = {}
                      /\ dnsPins'[i].left <= heard'[dnsPins'[i].host]
    BY <1>6 DEF Heard
  <2>1. /\ dnsPins[i].addresses \cap Private = {}
        /\ dnsPins[i].left <= heard[dnsPins[i].host]
        /\ heard[dnsPins[i].host] \in Nat
    BY <1>5 DEF PinsInv, Heard
  <2>2. Less(dnsPins[i].left) <= Less(heard[dnsPins[i].host])
    BY <1>5, <2>1 DEF Less
  <2>3. heard'[dnsPins[i].host] = Less(heard[dnsPins[i].host])
    BY <1>2, <1>5
  <2> QED BY <1>5, <2>1, <2>2, <2>3
<1> QED BY <1>4, <1>7, <1>8, <1>9 DEF PinsInv

-----------------------------------------------------------------------------
(* The vettings that are left of the cache, or are put into it.            *)
LEMMA KeptVettings ==
    ASSUME VettingsInv, NEW places \in SUBSET (DOMAIN vetCache)
    PROVE  /\ Kept(vetCache, places) \in Seq(Vetting)
           /\ Len(Kept(vetCache, places)) = Cardinality(places)
           /\ Len(Kept(vetCache, places)) <= VetMax
           /\ LeftOf(Kept(vetCache, places), vetCache)
           /\ Members(Kept(vetCache, places)) = {vetCache[i] : i \in places}
<1>1. /\ Kept(vetCache, places) \in Seq(Vetting)
      /\ Len(Kept(vetCache, places)) = Cardinality(places)
      /\ Cardinality(places) \in 0..Len(vetCache)
      /\ LeftOf(Kept(vetCache, places), vetCache)
      /\ Members(Kept(vetCache, places)) = {vetCache[i] : i \in places}
  BY KeptLeaves DEF VettingsInv
<1>2. Len(vetCache) \in Nat /\ Len(vetCache) <= VetMax
  BY LenProperties DEF VettingsInv
<1> QED BY <1>1, <1>2, Constants

(* A cache is sound for the tasks that vet when none of its promises is    *)
(* of a task that does not.                                                *)
Sound(cache, busy) ==
    /\ cache \in Seq(Vetting)
    /\ Len(cache) <= VetMax
    /\ Distinct(cache)
    /\ \A e \in Members(cache) : e.ok \in Task => busy[e.ok]

LEMMA SoundVettings ==
    VettingsInv <=> Sound(vetCache, vetting)
BY DEF VettingsInv, Sound, Members

(* What is left of a sound cache is sound.                                 *)
LEMMA LeavingIsSound ==
    ASSUME NEW cache, NEW busy, Sound(cache, busy),
           NEW left \in Seq(Vetting), LeftOf(left, cache), Len(left) <= VetMax
    PROVE  Sound(left, busy)
<1>1. PICK place \in [DOMAIN left -> DOMAIN cache] :
          /\ \A i, j \in DOMAIN left : i < j => place[i] < place[j]
          /\ \A i \in DOMAIN left : left[i] = cache[place[i]]
  BY DEF LeftOf
<1>2. /\ DOMAIN left = 1..Len(left) /\ Len(left) \in Nat
      /\ DOMAIN cache = 1..Len(cache) /\ Len(cache) \in Nat
  BY LenProperties DEF Sound
<1>3. Distinct(left)
  <2> SUFFICES ASSUME NEW i \in DOMAIN left, NEW j \in DOMAIN left, i # j
               PROVE  left[i].origin # left[j].origin
    BY DEF Distinct
  <2>1. i < j \/ j < i
    BY <1>2
  <2>2. place[i] # place[j]
    <3>1. /\ place[i] \in DOMAIN cache /\ place[j] \in DOMAIN cache
          /\ place[i] < place[j] \/ place[j] < place[i]
      BY <1>1, <2>1
    <3>2. place[i] \in Nat /\ place[j] \in Nat
      BY <1>2, <3>1
    <3> QED BY <3>1, <3>2
  <2> QED BY <1>1, <2>2 DEF Sound, Distinct
<1>4. Members(left) \subseteq Members(cache)
  BY LeftOfMembers
<1> QED BY <1>3, <1>4 DEF Sound

LEMMA KeptIsSound ==
    ASSUME VettingsInv, NEW places \in SUBSET (DOMAIN vetCache)
    PROVE  Sound(Kept(vetCache, places), vetting)
BY KeptVettings, SoundVettings, LeavingIsSound

(* The handlers leave no promise to the task whose check has ended.        *)
LEMMA SettleIsSound ==
    ASSUME VettingsInv, NEW t \in Task, Settle(t)
    PROVE  /\ Sound(vetCache', vetting)
           /\ \A e \in Members(vetCache') : e.ok # t
<1>1. CASE ~Remembered(stage[t])
  <2> DEFINE places == {i \in DOMAIN vetCache : vetCache[i].ok # t}
  <2>1. /\ places \in SUBSET (DOMAIN vetCache)
        /\ vetCache' = Kept(vetCache, places)
        /\ \A i \in places : vetCache[i].ok # t
    BY <1>1 DEF Settle
  <2> HIDE DEF places
  <2>2. Members(Kept(vetCache, places)) = {vetCache[i] : i \in places}
    BY <2>1, KeptVettings
  <2> QED BY <2>1, <2>2, KeptIsSound
<1>2. CASE Remembered(stage[t])
  <2> DEFINE how == Verdict(stage[t])
             told(e) == [e EXCEPT !.ok = IF @ = t THEN how ELSE @]
             cache == [i \in DOMAIN vetCache |-> told(vetCache[i])]
  <2>1. how \in Verdicts
    BY DEF Verdict, Verdicts
  <2>2. vetCache' = cache
    BY <1>2 DEF Settle
  <2> HIDE DEF how
  <2>3. \A e \in Vetting : /\ told(e) \in Vetting /\ told(e).origin = e.origin
                           /\ told(e).ok = IF e.ok = t THEN how ELSE e.ok
    BY <2>1 DEF Vetting
  <2> HIDE DEF told
  <2>4. \A i \in DOMAIN vetCache : vetCache[i] \in Vetting
    BY ElementOfSeq, LenProperties DEF VettingsInv
  <2>5. cache \in [DOMAIN vetCache -> Vetting]
    BY <2>3, <2>4
  <2>6. cache \in Seq(Vetting) /\ Len(cache) = Len(vetCache)
    BY <2>5, SameDomain DEF VettingsInv
  <2>7. how \notin Task
    BY <2>1, Constants DEF Verdicts
  <2>8. ASSUME NEW e \in Members(cache)
        PROVE  e.ok # t /\ (e.ok \in Task => vetting[e.ok])
    <3>1. PICK i \in DOMAIN vetCache : e = told(vetCache[i])
      BY DEF Members
    <3>2. e.ok = IF vetCache[i].ok = t THEN how ELSE vetCache[i].ok
      BY <2>3, <2>4, <3>1
    <3> QED BY <2>7, <3>2 DEF VettingsInv
  <2>9. Distinct(cache)
    BY <2>3, <2>4 DEF Distinct, VettingsInv
  <2> QED BY <2>2, <2>6, <2>8, <2>9 DEF Sound, VettingsInv
<1> QED BY <1>1, <1>2

LEMMA VettedIsSound ==
    ASSUME NEW cache, NEW busy, Sound(cache, busy), Len(cache) < VetMax,
           NEW e \in Vetting, e.ok \in Task => busy[e.ok],
           \A f \in Members(cache) : f.origin # e.origin
    PROVE  Sound(Append(cache, e), busy)
<1>1. cache \in Seq(Vetting) /\ Len(cache) \in Nat
  BY LenProperties DEF Sound
<1>2. /\ Append(cache, e) \in Seq(Vetting)
      /\ Len(Append(cache, e)) = Len(cache) + 1
      /\ \A i \in 1..Len(cache) : Append(cache, e)[i] = cache[i]
      /\ Append(cache, e)[Len(cache) + 1] = e
  BY <1>1, AppendProperties
<1>3. /\ DOMAIN Append(cache, e) = 1..(Len(cache) + 1)
      /\ DOMAIN cache = 1..Len(cache)
  BY <1>1, <1>2, LenProperties
<1>4. Members(Append(cache, e)) \subseteq Members(cache) \cup {e}
  BY <1>1, <1>2, <1>3 DEF Members
<1>5. \A i \in DOMAIN cache : cache[i].origin # e.origin
  BY DEF Members
<1>6. \A i \in DOMAIN Append(cache, e) :
          \/ i \in DOMAIN cache /\ Append(cache, e)[i] = cache[i]
          \/ i = Len(cache) + 1 /\ Append(cache, e)[i] = e
  BY <1>1, <1>2, <1>3
<1>7. Distinct(Append(cache, e))
  <2> SUFFICES ASSUME NEW i \in DOMAIN Append(cache, e),
                      NEW j \in DOMAIN Append(cache, e), i # j
               PROVE  Append(cache, e)[i].origin # Append(cache, e)[j].origin
    BY DEF Distinct
  <2> QED BY <1>5, <1>6 DEF Sound, Distinct
<1> QED BY <1>1, <1>2, <1>4, <1>7, Constants DEF Sound

(* A task goes to a stage with what it may have there.                     *)
LEMMA LocalsKeepTasks ==
    ASSUME TasksInv, NEW t \in Task, NEW next \in Stages, NEW u \in Url,
           NEW n \in 0..MaxRedirects, NEW a \in Address \cup {"nowhere", "publicIp"},
           Locals(t, next, u, n, a),
           NEW v \in BOOLEAN, vetting' = [vetting EXCEPT ![t] = v],
           next \in {"resolving", "fallback"} => u \in Host,
           next = "connecting" => u # "refused",
           v => next \in {"resolving", "fallback"} \cup Outcomes,
           next \in Outcomes => v
    PROVE  TasksInv'
<1> DEFINE w == IF next = "idle" THEN "publicIp" ELSE u
           m == IF next = "idle" THEN 0 ELSE n
<1>1. w \in Url /\ m \in 0..MaxRedirects
  BY Constants DEF Url
<1>2. /\ next \in {"resolving", "fallback"} => w \in Host
      /\ next = "connecting" => w # "refused"
  OBVIOUS
<1>3. /\ stage' = [stage EXCEPT ![t] = next]
      /\ url' = [url EXCEPT ![t] = w]
      /\ redirects' = [redirects EXCEPT ![t] = m]
      /\ to' = [to EXCEPT ![t] = a]
  BY DEF Locals
<1> HIDE DEF w, m
<1>4. /\ stage' \in [Task -> Stages]
      /\ vetting' \in [Task -> BOOLEAN]
      /\ url' \in [Task -> Url]
      /\ redirects' \in [Task -> 0..MaxRedirects]
      /\ to' \in [Task -> Address \cup {"nowhere", "publicIp"}]
  BY <1>1, <1>3 DEF TasksInv
<1>5. ASSUME NEW r \in Task
      PROVE  /\ stage'[r] \in {"resolving", "fallback"} => url'[r] \in Host
             /\ stage'[r] = "connecting" => url'[r] # "refused"
             /\ vetting'[r] => stage'[r] \in {"resolving", "fallback"} \cup Outcomes
             /\ stage'[r] \in Outcomes => vetting'[r]
  <2>1. CASE r = t
    BY <2>1, <1>2, <1>3 DEF TasksInv
  <2>2. CASE r # t
    <3>1. stage'[r] = stage[r] /\ url'[r] = url[r] /\ vetting'[r] = vetting[r]
      BY <2>2, <1>3 DEF TasksInv
    <3> QED BY <3>1 DEF TasksInv
  <2> QED BY <2>1, <2>2
<1> QED BY <1>4, <1>5 DEF TasksInv

(* assertSafeOutboundUrl begins.                                           *)
LEMMA AssertKeepsTasks ==
    ASSUME IInv, NEW t \in Task, stage[t] \in {"idle", "waiting"},
           NEW u \in Url, NEW n \in 0..MaxRedirects, NEW vet \in BOOLEAN,
           Assert(t, u, n, vet)
    PROVE  /\ PinsInv' /\ TasksInv' /\ ~vetting[t]
           /\ vetting' = [vetting EXCEPT ![t] = vet]
<1> DEFINE next == IF Passed(u) THEN After(vet, "passed")
                   ELSE IF u = "refused" THEN After(vet, "blocked") ELSE "resolving"
<1>1. /\ Locals(t, next, u, n, "nowhere")
      /\ vetting' = [vetting EXCEPT ![t] = vet]
      /\ UNCHANGED <<dnsPins, heard>>
  BY DEF Assert
<1>2. Passed(u) => u # "refused"
  <2> SUFFICES ASSUME Pinned(u) # {} PROVE u \in Host
    BY Constants DEF Passed
  <2>1. PICK i \in DOMAIN dnsPins : dnsPins[i].host = u
    BY DEF Pinned, Members
  <2>2. dnsPins[i] \in PinRecord
    BY ElementOfSeq, LenProperties DEF IInv, PinsInv
  <2> QED BY <2>1, <2>2 DEF PinRecord
<1>3. /\ next \in Stages /\ next # "fallback"
      /\ next = "resolving" => u \in Host
      /\ next = "connecting" => u # "refused"
      /\ vet => next \in {"resolving"} \cup Outcomes
      /\ next \in Outcomes => vet
  BY <1>2 DEF Passed, Url, After, Stages, Outcomes
<1> HIDE DEF next
<1>4. TasksInv'
  BY <1>1, <1>3, LocalsKeepTasks DEF IInv
<1>5. PinsInv'
  BY <1>1 DEF IInv, PinsInv, InOrder, Heard
<1>6. ~vetting[t]
  BY DEF IInv, TasksInv, Outcomes
<1> QED BY <1>1, <1>4, <1>5, <1>6

(* It begins for a fetch, which the cache knows nothing of.                *)
LEMMA FetchBegins ==
    ASSUME IInv, NEW t \in Task, stage[t] \in {"idle", "waiting"},
           NEW u \in Url, NEW n \in 0..MaxRedirects,
           Assert(t, u, n, FALSE), UNCHANGED vetCache
    PROVE  IInv'
<1>1. PinsInv' /\ TasksInv' /\ ~vetting[t] /\ vetting' = [vetting EXCEPT ![t] = FALSE]
  BY AssertKeepsTasks
<1>2. \A r \in Task : vetting[r] => vetting'[r]
  BY <1>1 DEF IInv, TasksInv
<1>3. VettingsInv'
  BY <1>2 DEF IInv, VettingsInv, Distinct
<1> QED BY <1>1, <1>3 DEF IInv

(* It ends, with an answer or without.                                     *)
LEMMA CheckEndsRightly ==
    ASSUME IInv, NEW t \in Task, stage[t] \in {"resolving", "fallback"},
           NEW how \in Outcomes, CheckEnds(t, how)
    PROVE  VettingsInv' /\ TasksInv'
<1> DEFINE next == After(vetting[t], how)
<1>1. /\ Locals(t, next, url[t], redirects[t], "nowhere")
      /\ UNCHANGED <<vetCache, vetting>>
  BY DEF CheckEnds
<1>2. /\ next \in Stages /\ next \notin {"resolving", "fallback"}
      /\ vetting[t] => next \in Outcomes
      /\ next \in Outcomes => vetting[t]
  BY DEF After, Stages, Outcomes
<1> HIDE DEF next
<1>3. TasksInv'
  <2>1. url[t] \in Host /\ url[t] \in Url /\ redirects[t] \in 0..MaxRedirects
    BY DEF IInv, TasksInv
  <2>2. url[t] # "refused"
    BY <2>1, Constants
  <2>3. vetting[t] \in BOOLEAN /\ vetting' = [vetting EXCEPT ![t] = vetting[t]]
    BY <1>1 DEF IInv, TasksInv
  <2> QED BY <1>1, <1>2, <2>1, <2>2, <2>3, LocalsKeepTasks DEF IInv
<1>4. VettingsInv'
  BY <1>1 DEF IInv, VettingsInv, Distinct
<1> QED BY <1>3, <1>4

LEMMA AnsweredKeepsInvariant ==
    ASSUME IInv, NEW t \in Task, stage[t] \in {"resolving", "fallback"},
           NEW addresses \in SUBSET Address \ {{}}, Answered(t, addresses)
    PROVE  IInv'
<1>1. url[t] \in Host
  BY DEF IInv, TasksInv
<1>2. VettingsInv' /\ TasksInv'
  <2>1. PICK how \in Outcomes : CheckEnds(t, how)
    BY DEF Answered, Outcomes
  <2> QED BY <2>1, CheckEndsRightly
<1>3. PinsInv'
  <2>1. CASE Blocked(addresses)
    <3>1. heard' = heard /\ dnsPins' = dnsPins
      BY <2>1, <1>1 DEF Answered, Blocked, IInv, PinsInv
    <3> QED BY <3>1 DEF IInv, PinsInv, InOrder, Heard
  <2>2. CASE ~Blocked(addresses)
    <3>1. heard' = [heard EXCEPT ![url[t]] = PinTtl] /\ dnsPins' = Pin(url[t], addresses)
      BY <2>2 DEF Answered, Blocked
    <3>2. heard' \in [Host -> 0..PinTtl]
      <4>1. PinTtl \in 0..PinTtl
        BY Constants
      <4>2. heard \in [Host -> 0..PinTtl] /\ heard' = [heard EXCEPT ![url[t]] = PinTtl]
        BY <3>1 DEF IInv, PinsInv
      <4> QED BY ONLY <4>1, <4>2
    <3> QED BY <1>1, <2>2, <3>1, <3>2, PinKeepsPins DEF IInv, PinsInv, InOrder, Heard
  <2> QED BY <2>1, <2>2
<1> QED BY <1>2, <1>3 DEF IInv

LEMMA UnansweredKeepsInvariant ==
    ASSUME IInv, NEW t \in Task, stage[t] \in {"resolving", "fallback"}, Unanswered(t)
    PROVE  IInv'
<1>1. VettingsInv' /\ TasksInv'
  BY CheckEndsRightly DEF Unanswered, Outcomes
<1>2. PinsInv'
  BY DEF Unanswered, IInv, PinsInv, InOrder, Heard
<1> QED BY <1>1, <1>2 DEF IInv

(* A fetch goes to a stage in which it resolves nothing.                   *)
LEMMA FetchGoesOn ==
    ASSUME IInv, NEW t \in Task, stage[t] \in {"connecting", "waiting"},
           NEW next \in {"waiting", "idle"},
           NEW a \in Address \cup {"nowhere", "publicIp"},
           Locals(t, next, url[t], redirects[t], a),
           UNCHANGED <<dnsPins, vetCache, vetting, heard>>
    PROVE  IInv'
<1>1. /\ url[t] \in Url /\ redirects[t] \in 0..MaxRedirects
      /\ next \in Stages /\ next \notin Outcomes
  BY DEF IInv, TasksInv, Stages, Outcomes
<1>2. vetting' = [vetting EXCEPT ![t] = FALSE]
  BY DEF IInv, TasksInv, Outcomes
<1>3. TasksInv'
  BY <1>1, <1>2, LocalsKeepTasks DEF IInv
<1>4. PinsInv' /\ VettingsInv'
  BY DEF IInv, PinsInv, VettingsInv, Distinct, InOrder, Heard
<1> QED BY <1>3, <1>4 DEF IInv

LEMMA ConnectIsVetted ==
    ASSUME IInv, NEW t \in Task, stage[t] = "connecting", NEW a \in Offered(url[t])
    PROVE  \/ url[t] = "publicIp" /\ a = "publicIp"
           \/ url[t] \in Host /\ a \in Address \ Private /\ heard[url[t]] > 0
<1>1. CASE url[t] = "publicIp"
  BY <1>1 DEF Offered
<1>2. CASE url[t] # "publicIp"
  <2>1. PICK i \in DOMAIN dnsPins :
            dnsPins[i].host = url[t] /\ dnsPins[i].left > 0 /\ a \in dnsPins[i].addresses
    BY <1>2 DEF Offered, Pinned, Members
  <2>2. /\ dnsPins[i] \in PinRecord
        /\ dnsPins[i].addresses \cap Private = {}
        /\ dnsPins[i].left <= heard[dnsPins[i].host]
    BY ElementOfSeq, LenProperties DEF IInv, PinsInv, Heard
  <2>3. dnsPins[i].host \in Host /\ heard[dnsPins[i].host] \in Nat /\ dnsPins[i].left \in Nat
    BY <2>2 DEF PinRecord, IInv, PinsInv
  <2> QED BY <2>1, <2>2, <2>3 DEF PinRecord
<1> QED BY <1>1, <1>2

-----------------------------------------------------------------------------
(* The vettings among which a new one is put are of other origins.         *)
LEMMA VetMakesRoom ==
    ASSUME VettingsInv, NEW o \in Origin
    PROVE  LET cache == Newest(Kept(vetCache, DOMAIN vetCache \ VettingsOf(o)), VetMax - 1)
           IN  /\ Sound(cache, vetting) /\ Len(cache) < VetMax
               /\ \A f \in Members(cache) : f.origin # o
<1> DEFINE places == DOMAIN vetCache \ VettingsOf(o)
           kept == Kept(vetCache, places)
           n == VetMax - 1
           cache == Newest(kept, n)
<1>1. /\ places \in SUBSET (DOMAIN vetCache)
      /\ \A i \in places : vetCache[i].origin # o
  BY DEF VettingsOf
<1>2. n \in Nat /\ n < VetMax
  BY Constants
<1> HIDE DEF places, n
<1>3. /\ kept \in Seq(Vetting) /\ Len(kept) \in Nat /\ Sound(kept, vetting)
      /\ Members(kept) = {vetCache[i] : i \in places}
  BY <1>1, KeptVettings, KeptIsSound, LenProperties
<1> HIDE DEF kept
<1>4. /\ cache \in Seq(Vetting) /\ LeftOf(cache, kept)
      /\ Len(cache) = IF Len(kept) > n THEN n ELSE Len(kept)
  BY <1>2, <1>3, NewestLeaves
<1>5. Members(cache) \subseteq Members(kept)
  BY <1>4, LeftOfMembers
<1>6. Len(cache) < VetMax /\ Len(cache) <= VetMax
  BY <1>2, <1>3, <1>4, Constants
<1>7. Sound(cache, vetting)
  BY <1>3, <1>4, <1>6, LeavingIsSound
<1>8. \A f \in Members(cache) : f.origin # o
  BY <1>1, <1>3, <1>5
<1> QED BY <1>6, <1>7, <1>8 DEF cache, kept, places, n

LEMMA VetKeepsInvariant ==
    ASSUME IInv, NEW t \in Task, NEW o \in Origin, Vet(t, o)
    PROVE  IInv'
<1> DEFINE cache == Newest(Kept(vetCache, DOMAIN vetCache \ VettingsOf(o)), VetMax - 1)
           new == [origin |-> o, ok |-> t, left |-> PinTtl]
<1>1. Sound(cache, vetting) /\ Len(cache) < VetMax /\ \A f \in Members(cache) : f.origin # o
  BY VetMakesRoom DEF IInv
<1>2. stage[t] = "idle" /\ Assert(t, o, 0, TRUE) /\ vetCache' = Append(cache, new)
  BY DEF Vet
<1> HIDE DEF cache
<1>3. PinsInv' /\ TasksInv' /\ vetting' = [vetting EXCEPT ![t] = TRUE]
  <2>1. o \in Url /\ 0 \in 0..MaxRedirects
    BY Constants
  <2> QED BY <1>2, <2>1, AssertKeepsTasks
<1>4. vetting'[t] /\ \A r \in Task : vetting[r] => vetting'[r]
  BY <1>3 DEF IInv, TasksInv
<1>5. Sound(cache, vetting')
  BY <1>1, <1>4 DEF Sound
<1>6. new \in Vetting /\ new.ok = t /\ new.origin = o
  BY Constants DEF Vetting
<1> HIDE DEF new
<1>7. Sound(vetCache', vetting')
  BY <1>1, <1>2, <1>4, <1>5, <1>6, VettedIsSound
<1>8. VettingsInv'
  BY <1>7 DEF VettingsInv, Sound, Members, Distinct
<1> QED BY <1>3, <1>8 DEF IInv

(* The handlers of a vetting run.                                          *)
LEMMA SettleKeepsInvariant ==
    ASSUME IInv, NEW t \in Task, Settle(t)
    PROVE  IInv'
<1>1. /\ Locals(t, "idle", url[t], redirects[t], "nowhere")
      /\ vetting' = [vetting EXCEPT ![t] = FALSE]
      /\ UNCHANGED <<dnsPins, heard>>
  BY DEF Settle
<1>2. PinsInv'
  BY <1>1 DEF IInv, PinsInv, InOrder, Heard
<1>3. TasksInv'
  <2>1. /\ url[t] \in Url /\ redirects[t] \in 0..MaxRedirects
        /\ "idle" \in Stages /\ "idle" \notin Outcomes
    BY DEF IInv, TasksInv, Stages, Outcomes
  <2> QED BY <1>1, <2>1, LocalsKeepTasks DEF IInv
<1>4. Sound(vetCache', vetting) /\ \A e \in Members(vetCache') : e.ok # t
  BY SettleIsSound DEF IInv
<1>5. \A r \in Task : r # t => vetting'[r] = vetting[r]
  BY <1>1 DEF IInv, TasksInv
<1>6. VettingsInv'
  BY <1>4, <1>5 DEF VettingsInv, Sound, Members, Distinct
<1> QED BY <1>2, <1>3, <1>6 DEF IInv

LEMMA CacheOnly ==
    ASSUME IInv, Sound(vetCache', vetting),
           UNCHANGED <<dnsPins, stage, vetting, url, redirects, to, heard>>
    PROVE  IInv'
<1>1. PinsInv' /\ TasksInv'
  BY DEF IInv, PinsInv, TasksInv, InOrder, Heard
<1>2. VettingsInv'
  BY DEF VettingsInv, Sound, Members, Distinct
<1> QED BY <1>1, <1>2 DEF IInv

(* A vetting that is read is moved to the end.                             *)
LEMMA MovedIsSound ==
    ASSUME VettingsInv, NEW o \in Origin, vetCache' = Kept(vetCache, DOMAIN vetCache \ VettingsOf(o))
                                                         \o Kept(vetCache, VettingsOf(o))
    PROVE  Sound(vetCache', vetting) /\ Members(vetCache') = Members(vetCache)
<1> DEFINE mine == VettingsOf(o)
           rest == DOMAIN vetCache \ mine
           a == Kept(vetCache, rest)
           b == Kept(vetCache, mine)
<1>1. /\ Len(vetCache) \in Nat /\ DOMAIN vetCache = 1..Len(vetCache)
      /\ Len(vetCache) <= VetMax
  BY LenProperties DEF VettingsInv
<1>2. mine \in SUBSET (DOMAIN vetCache) /\ rest \in SUBSET (DOMAIN vetCache)
  BY DEF VettingsOf
<1>3. vetCache' = a \o b
  OBVIOUS
<1>4. Cardinality(mine) + Cardinality(rest) = Len(vetCache)
  BY <1>1, <1>2, KeptParts
<1>5. mine \cup rest = DOMAIN vetCache
  BY <1>2
<1>16. /\ \A i \in mine : vetCache[i].origin = o
       /\ \A i \in rest : vetCache[i].origin # o
  BY DEF VettingsOf
<1> HIDE DEF mine, rest
<1>6. /\ a \in Seq(Vetting) /\ Len(a) = Cardinality(rest) /\ Distinct(a)
      /\ Members(a) = {vetCache[i] : i \in rest}
  BY <1>2, KeptVettings, KeptIsSound DEF Sound
<1>7. /\ b \in Seq(Vetting) /\ Len(b) = Cardinality(mine) /\ Distinct(b)
      /\ Members(b) = {vetCache[i] : i \in mine}
  BY <1>2, KeptVettings, KeptIsSound DEF Sound
<1> HIDE DEF a, b
<1>8. /\ a \o b \in Seq(Vetting) /\ Len(a \o b) = Len(a) + Len(b)
      /\ \A i \in 1..(Len(a) + Len(b)) :
             (a \o b)[i] = IF i <= Len(a) THEN a[i] ELSE b[i - Len(a)]
  BY <1>6, <1>7, ConcatProperties
<1>9. /\ Len(a) \in Nat /\ Len(b) \in Nat
      /\ DOMAIN a = 1..Len(a) /\ DOMAIN b = 1..Len(b)
      /\ DOMAIN (a \o b) = 1..(Len(a) + Len(b))
  BY <1>6, <1>7, <1>8, LenProperties
<1>10. Members(a \o b) \subseteq Members(a) \cup Members(b)
  <2> SUFFICES ASSUME NEW i \in DOMAIN (a \o b)
               PROVE  (a \o b)[i] \in Members(a) \cup Members(b)
    BY DEF Members
  <2>1. CASE i <= Len(a)
    BY <2>1, <1>8, <1>9 DEF Members
  <2>2. CASE ~(i <= Len(a))
    <3>1. i - Len(a) \in DOMAIN b
      BY <2>2, <1>9
    <3> QED BY <2>2, <3>1, <1>8, <1>9 DEF Members
  <2> QED BY <2>1, <2>2
<1>11. Members(a) \cup Members(b) \subseteq Members(a \o b)
  <2>1. ASSUME NEW i \in DOMAIN a PROVE a[i] \in Members(a \o b)
    <3>1. i \in DOMAIN (a \o b) /\ (a \o b)[i] = a[i]
      BY <1>8, <1>9
    <3> QED BY <3>1 DEF Members
  <2>2. ASSUME NEW i \in DOMAIN b PROVE b[i] \in Members(a \o b)
    <3>1. i + Len(a) \in DOMAIN (a \o b) /\ (a \o b)[i + Len(a)] = b[i]
      BY <1>8, <1>9
    <3> QED BY <3>1 DEF Members
  <2> QED BY <2>1, <2>2 DEF Members
<1>12. Members(a) \cup Members(b) = Members(vetCache)
  BY <1>5, <1>6, <1>7 DEF Members
<1>13. Members(vetCache') = Members(vetCache)
  BY <1>3, <1>10, <1>11, <1>12
<1>14. Len(vetCache') <= VetMax
  <2>1. Len(a \o b) = Len(vetCache)
    BY <1>4, <1>6, <1>7, <1>8, <1>9
  <2> QED BY <2>1, <1>1, <1>3
<1>15. Distinct(a \o b)
  <2>1. \A i \in DOMAIN a : a[i].origin # o
    BY <1>16, <1>6 DEF Members
  <2>2. ASSUME NEW i \in DOMAIN b PROVE b[i].origin = o
    <3>1. b[i] \in Members(b)
      BY DEF Members
    <3>2. PICK k \in mine : b[i] = vetCache[k]
      BY <1>7, <3>1
    <3> QED BY <1>16, <3>2
  <2>3. \A i \in DOMAIN (a \o b) :
            \/ i \in DOMAIN a /\ (a \o b)[i] = a[i]
            \/ i - Len(a) \in DOMAIN b /\ (a \o b)[i] = b[i - Len(a)] /\ ~(i <= Len(a))
    BY <1>8, <1>9
  <2> SUFFICES ASSUME NEW i \in DOMAIN (a \o b), NEW j \in DOMAIN (a \o b), i # j
               PROVE  (a \o b)[i].origin # (a \o b)[j].origin
    BY DEF Distinct
  <2>4. CASE i <= Len(a) <=> j <= Len(a)
    <3>1. CASE i <= Len(a)
      <4>1. i \in DOMAIN a /\ j \in DOMAIN a
        BY <2>4, <3>1, <1>9
      <4>2. (a \o b)[i] = a[i] /\ (a \o b)[j] = a[j]
        BY <2>4, <3>1, <1>8, <1>9
      <4> QED BY <4>1, <4>2, <1>6 DEF Distinct
    <3>2. CASE ~(i <= Len(a))
      <4>1. /\ i - Len(a) \in DOMAIN b /\ j - Len(a) \in DOMAIN b
            /\ i - Len(a) # j - Len(a)
        BY <2>4, <3>2, <1>9
      <4>2. (a \o b)[i] = b[i - Len(a)] /\ (a \o b)[j] = b[j - Len(a)]
        BY <2>4, <3>2, <1>8, <1>9
      <4> QED BY <4>1, <4>2, <1>7 DEF Distinct
    <3> QED BY <3>1, <3>2
  <2>5. CASE ~(i <= Len(a) <=> j <= Len(a))
    BY <2>1, <2>2, <2>3, <2>5, <1>8, <1>9
  <2> QED BY <2>4, <2>5
<1> QED BY <1>3, <1>8, <1>13, <1>14, <1>15, SoundVettings DEF Sound

(* Time leaves every promise in the cache, a tick older.                   *)
LEMMA TickIsSound ==
    ASSUME VettingsInv, Tick
    PROVE  /\ Sound(vetCache', vetting)
           /\ \A e \in Members(vetCache) :
                  \E f \in Members(vetCache') : f.origin = e.origin /\ f.ok = e.ok
<1> DEFINE older(e) == [e EXCEPT !.left = Less(@)]
<1>1. \A e \in Vetting : /\ older(e) \in Vetting
                         /\ older(e).ok = e.ok /\ older(e).origin = e.origin
  BY Constants DEF Vetting, Less
<1>2. vetCache' = [i \in DOMAIN vetCache |-> older(vetCache[i])]
  BY DEF Tick
<1> HIDE DEF older
<1>3. \A i \in DOMAIN vetCache : vetCache[i] \in Vetting
  BY ElementOfSeq, LenProperties DEF VettingsInv
<1>4. vetCache' \in Seq(Vetting) /\ Len(vetCache') = Len(vetCache)
  <2>1. vetCache' \in [DOMAIN vetCache -> Vetting]
    BY <1>1, <1>2, <1>3
  <2> QED BY <2>1, SameDomain DEF VettingsInv
<1>5. \A i \in DOMAIN vetCache : /\ vetCache'[i].ok = vetCache[i].ok
                                 /\ vetCache'[i].origin = vetCache[i].origin
  BY <1>1, <1>2, <1>3
<1>6. DOMAIN vetCache' = DOMAIN vetCache
  BY <1>2
<1>7. Sound(vetCache', vetting)
  BY <1>4, <1>5, <1>6 DEF Sound, VettingsInv, Members, Distinct
<1>8. \A e \in Members(vetCache) :
          \E f \in Members(vetCache') : f.origin = e.origin /\ f.ok = e.ok
  BY <1>5, <1>6 DEF Members
<1> QED BY <1>7, <1>8

LEMMA NextKeepsInvariant ==
    IInv /\ [Next]_vars => IInv'
<1> SUFFICES ASSUME IInv, [Next]_vars PROVE IInv'
  OBVIOUS
<1>1. ASSUME NEW t \in Task, NEW u \in Url, Fetch(t, u) PROVE IInv'
  <2>1. 0 \in 0..MaxRedirects
    BY Constants
  <2> QED BY <1>1, <2>1, FetchBegins DEF Fetch
<1>2. ASSUME NEW t \in Task, NEW o \in Origin, Vet(t, o) PROVE IInv'
  BY <1>2, VetKeepsInvariant
<1>3. ASSUME NEW o \in Origin, VetCached(o) PROVE IInv'
  <2>1. Sound(vetCache', vetting)
    BY <1>3, MovedIsSound DEF VetCached, IInv
  <2> QED BY <1>3, <2>1, CacheOnly DEF VetCached
<1>4. ASSUME NEW t \in Task, Resolved(t) PROVE IInv'
  <2>1. stage[t] = "resolving"
    BY <1>4 DEF Resolved
  <2>2. ASSUME NEW addresses \in SUBSET Address \ {{}}, Answered(t, addresses)
        PROVE  IInv'
    BY <2>1, <2>2, AnsweredKeepsInvariant
  <2>3. CASE Unanswered(t)
    BY <2>1, <2>3, UnansweredKeepsInvariant
  <2>4. CASE /\ stage' = [stage EXCEPT ![t] = "fallback"]
             /\ UNCHANGED <<dnsPins, vetCache, vetting, url, redirects, to, heard>>
    <3>1. PinsInv' /\ VettingsInv'
      BY <2>4 DEF IInv, PinsInv, VettingsInv, Distinct, InOrder, Heard
    <3>2. stage' \in [Task -> Stages]
      BY <2>4 DEF IInv, TasksInv, Stages
    <3>3. TasksInv'
      BY <2>1, <2>4, <3>2 DEF IInv, TasksInv, Outcomes
    <3> QED BY <3>1, <3>3 DEF IInv
  <2> QED BY <1>4, <2>2, <2>3, <2>4 DEF Resolved
<1>5. ASSUME NEW t \in Task, LookedUp(t) PROVE IInv'
  BY <1>5, AnsweredKeepsInvariant, UnansweredKeepsInvariant DEF LookedUp
<1>6. ASSUME NEW t \in Task, DnsTimesOut(t) PROVE IInv'
  BY <1>6, UnansweredKeepsInvariant DEF DnsTimesOut
<1>7. ASSUME NEW t \in Task, Connect(t) PROVE IInv'
  <2>1. PICK a \in Offered(url[t]) : Locals(t, "waiting", url[t], redirects[t], a)
    BY <1>7 DEF Connect
  <2>2. a \in Address \cup {"nowhere", "publicIp"}
    BY <1>7, ConnectIsVetted DEF Connect
  <2> QED BY <1>7, <2>1, <2>2, FetchGoesOn DEF Connect
<1>8. ASSUME NEW t \in Task, FetchEnds(t) PROVE IInv'
  BY <1>8, FetchGoesOn DEF FetchEnds
<1>9. ASSUME NEW t \in Task, NEW u \in Url, Redirect(t, u) PROVE IInv'
  <2>1. Followed(t) \in 0..MaxRedirects
    BY <1>9, Constants DEF Redirect, Followed, IInv, TasksInv
  <2> QED BY <1>9, <2>1, FetchBegins DEF Redirect
<1>10. CASE SweepVettings
  <2> DEFINE places == {i \in DOMAIN vetCache : vetCache[i].left > 0}
  <2>1. places \in SUBSET (DOMAIN vetCache) /\ vetCache' = Kept(vetCache, places)
    BY <1>10 DEF SweepVettings
  <2> HIDE DEF places
  <2>2. Sound(vetCache', vetting)
    BY <2>1, KeptIsSound DEF IInv
  <2> QED BY <1>10, <2>2, CacheOnly DEF SweepVettings
<1>11. CASE Tick
  <2>1. PinsInv' /\ Sound(vetCache', vetting)
    BY <1>11, TickKeepsPins, TickIsSound DEF IInv
  <2>2. TasksInv' /\ vetting' = vetting
    BY <1>11 DEF IInv, TasksInv, Tick
  <2>3. VettingsInv'
    BY <2>1, <2>2 DEF VettingsInv, Sound, Members, Distinct
  <2> QED BY <2>1, <2>2, <2>3 DEF IInv
<1>12. CASE UNCHANGED vars
  BY <1>12 DEF IInv, PinsInv, VettingsInv, Distinct, TasksInv, InOrder, Heard, vars
<1>13. ASSUME NEW t \in Task, Settle(t) PROVE IInv'
  BY <1>13, SettleKeepsInvariant
<1> QED
  BY <1>1, <1>2, <1>3, <1>4, <1>5, <1>6, <1>7, <1>8, <1>9, <1>10, <1>11, <1>12, <1>13
  DEF Next, Proceed

(* One pin for a host and sound vettings, which each step keeps.           *)
THEOREM Inductive ==
    Spec => []IInv
BY InitImpliesInvariant, NextKeepsInvariant, PTL DEF Spec

(* Pins and vettings are in order and within their bounds.                 *)
THEOREM TypeCorrect ==
    Spec => []TypeOK
BY Inductive, InvariantImpliesTypeOK, PTL

-----------------------------------------------------------------------------
(* Only the connector makes a task wait for an answer.                     *)
LEMMA NextConnectsToVetted ==
    IInv /\ [Next]_vars => [ConnectStep]_vars
<1> SUFFICES ASSUME IInv, Next, NEW t \in Task,
                    stage[t] = "connecting", stage'[t] = "waiting"
             PROVE  \/ url[t] = "publicIp"
                    \/ /\ url[t] \in Host
                       /\ to'[t] \in Address \ Private
                       /\ heard[url[t]] > 0
  BY DEF ConnectStep
<1>1. stage \in [Task -> Stages]
  BY DEF IInv, TasksInv
<1>2. ASSUME NEW r \in Task, Connect(r) PROVE r = t /\ Connect(t)
  <2>1. PICK a \in Offered(url[r]) : Locals(r, "waiting", url[r], redirects[r], a)
    BY <1>2 DEF Connect
  <2>2. r = t
    BY <1>1, <2>1 DEF Locals
  <2> QED BY <1>2, <2>2
<1>3. ASSUME NEW r \in Task, NEW u \in Url, NEW n, NEW vet,
             stage[r] # "connecting", Assert(r, u, n, vet)
      PROVE  FALSE
  BY <1>1, <1>3 DEF Assert, Locals
<1>4. ASSUME NEW r \in Task, NEW how, stage[r] # "connecting", CheckEnds(r, how)
      PROVE  FALSE
  BY <1>1, <1>4 DEF CheckEnds, Locals
<1>5. PICK r \in Task : Connect(r)
  <2>1. ASSUME NEW r \in Task, Resolved(r) \/ LookedUp(r) \/ DnsTimesOut(r)
        PROVE  FALSE
    <3>1. stage[r] # "connecting"
      BY <2>1 DEF Resolved, LookedUp, DnsTimesOut
    <3>2. CASE \E how \in Outcomes : CheckEnds(r, how)
      BY <3>1, <3>2, <1>4
    <3>3. CASE stage' = [stage EXCEPT ![r] = "fallback"]
      BY <3>1, <3>3, <1>1
    <3> QED
      BY <2>1, <3>2, <3>3
      DEF Resolved, LookedUp, DnsTimesOut, Answered, Unanswered, Outcomes
  <2>2. ASSUME NEW r \in Task, NEW u \in Url, Fetch(r, u) PROVE FALSE
    BY <2>2, <1>3 DEF Fetch
  <2>3. ASSUME NEW r \in Task, NEW o \in Origin, Vet(r, o) PROVE FALSE
    <3>1. o \in Url
      BY Constants
    <3> QED BY <2>3, <3>1, <1>3 DEF Vet
  <2>4. ASSUME NEW r \in Task, NEW u \in Url, Redirect(r, u) PROVE FALSE
    BY <2>4, <1>3 DEF Redirect
  <2>5. ASSUME NEW r \in Task, FetchEnds(r) PROVE FALSE
    BY <2>5, <1>1 DEF FetchEnds, Locals
  <2>6. ASSUME stage' = stage PROVE FALSE
    BY <2>6
  <2>7. ASSUME NEW r \in Task, Settle(r) PROVE FALSE
    BY <2>7, <1>1 DEF Settle, Locals
  <2> QED
    BY <2>1, <2>2, <2>3, <2>4, <2>5, <2>6, <2>7
    DEF Next, Proceed, VetCached, SweepVettings, Tick
<1>6. PICK a \in Offered(url[t]) : Locals(t, "waiting", url[t], redirects[t], a)
  BY <1>2, <1>5 DEF Connect
<1>7. to'[t] = a
  BY <1>6 DEF Locals, IInv, TasksInv
<1> QED BY <1>6, <1>7, ConnectIsVetted

(* Every connection is to an address that was vetted for its name.         *)
THEOREM ConnectionsAreVetted ==
    Spec => ConnectsToVetted
BY Inductive, NextConnectsToVetted, PTL DEF Spec, ConnectsToVetted

(* What the cache holds of a vetting that stays as it is.                  *)
Stays(e) == Remembers(vetCache', e.origin, e.ok) \/ e.left = 0 \/ RoomIsTaken(e)

LEMMA StayingIsRemembered ==
    ASSUME NEW e \in Members(vetCache), e \in Members(vetCache')
    PROVE  Stays(e)
BY DEF Stays, Remembers

(* What leaves the cache when a vetting begins is of the same origin, and  *)
(* no longer live, or makes room for it.                                   *)
LEMMA VetKeepsOthers ==
    ASSUME IInv, NEW t \in Task, NEW o \in Origin, Vet(t, o),
           NEW e \in Members(vetCache)
    PROVE  Stays(e)
<1> DEFINE places == DOMAIN vetCache \ VettingsOf(o)
           kept == Kept(vetCache, places)
           n == VetMax - 1
           cache == Newest(kept, n)
           new == [origin |-> o, ok |-> t, left |-> PinTtl]
<1>1. /\ Len(vetCache) \in Nat /\ Len(vetCache) <= VetMax
      /\ DOMAIN vetCache = 1..Len(vetCache)
      /\ \A k \in DOMAIN vetCache : vetCache[k] \in Vetting
  BY LenProperties, ElementOfSeq DEF IInv, VettingsInv
<1>2. places \in SUBSET (DOMAIN vetCache) /\ places \in SUBSET (1..Len(vetCache))
  BY <1>1
<1>3. n \in Nat /\ n = VetMax - 1
  BY Constants
<1>4. PICK i \in DOMAIN vetCache : e = vetCache[i]
  BY DEF Members
<1>5. ASSUME i \notin places PROVE e.left = 0
  <2>1. e.origin = o /\ e \in Members(vetCache) /\ e.left \in Nat
    BY <1>1, <1>4, <1>5 DEF VettingsOf, Vetting
  <2> QED BY <2>1 DEF Vet, Cached
<1>6. vetCache' = Append(cache, new) /\ new \in Vetting /\ new.origin = o
  BY Constants DEF Vet, Vetting
<1>13. ASSUME places = DOMAIN vetCache PROVE o \notin Origins(vetCache)
  BY <1>13 DEF VettingsOf, Origins, Members
<1> HIDE DEF new
<1> HIDE DEF places, n
<1>7. /\ kept \in Seq(Vetting) /\ Len(kept) \in Nat /\ Len(kept) = Cardinality(places)
      /\ Len(kept) <= Len(vetCache)
      /\ \A j \in places : /\ Rank(places, j) \in DOMAIN kept
                           /\ kept[Rank(places, j)] = vetCache[j]
  <2>1. vetCache \in Seq(Vetting)
    BY DEF IInv, VettingsInv
  <2> QED BY <1>1, <1>2, <2>1, KeptLeaves, LenProperties
<1>8. DOMAIN kept = 1..Len(kept)
  BY <1>7, LenProperties
<1> HIDE DEF kept
<1>9. /\ cache \in Seq(Vetting)
      /\ Len(cache) = IF Len(kept) > n THEN n ELSE Len(kept)
      /\ \A k \in DOMAIN kept : k > Len(kept) - n => kept[k] \in Members(cache)
  BY <1>3, <1>7, NewestLeaves
<1> HIDE DEF cache
<1>10. Members(cache) \subseteq Members(vetCache') /\ o \in Origins(vetCache')
  <2>1. /\ Len(cache) \in Nat /\ DOMAIN cache = 1..Len(cache)
    BY <1>9, LenProperties
  <2>2. /\ vetCache' \in Seq(Vetting)
        /\ Len(vetCache') = Len(cache) + 1
        /\ \A k \in 1..Len(cache) : vetCache'[k] = cache[k]
        /\ vetCache'[Len(cache) + 1] = new
    BY <1>6, <1>9, AppendProperties
  <2>3. DOMAIN vetCache' = 1..(Len(cache) + 1)
    BY <2>2, LenProperties
  <2>4. /\ \A k \in DOMAIN cache : k \in DOMAIN vetCache'
        /\ Len(cache) + 1 \in DOMAIN vetCache'
    BY <2>1, <2>3
  <2> QED BY <1>6, <2>1, <2>2, <2>4 DEF Members, Origins
<1>11. ASSUME i \in places, Rank(places, i) > Len(kept) - n
       PROVE  Stays(e)
  <2>1. e \in Members(vetCache')
    BY <1>4, <1>7, <1>9, <1>10, <1>11
  <2> QED BY <2>1, StayingIsRemembered
<1>12. ASSUME i \in places, ~(Rank(places, i) > Len(kept) - n)
       PROVE  RoomIsTaken(e)
  <2>1. Rank(places, i) \in 1..Len(kept)
    BY <1>7, <1>8, <1>12
  <2>2. Len(kept) = VetMax /\ Rank(places, i) = 1 /\ Len(vetCache) = VetMax
    <3>1. /\ Len(kept) \in Nat /\ Len(vetCache) \in Nat /\ VetMax \in Nat /\ n = VetMax - 1
          /\ Len(kept) <= Len(vetCache) /\ Len(vetCache) <= VetMax
          /\ Rank(places, i) \in Nat /\ 1 <= Rank(places, i)
      BY <1>1, <1>3, <1>7, <2>1, Constants
    <3> QED BY ONLY <3>1, <1>12
  <2>4. places = 1..Len(vetCache)
    BY <1>1, <1>2, <1>7, <2>2, KeptParts
  <2>3. Origins(vetCache') \ Origins(vetCache) # {}
    BY <1>1, <1>13, <1>10, <2>4
  <2>5. /\ \A j \in places : Rank(places, j) \in 1..Cardinality(places)
        /\ \A j \in places : j < i <=> Rank(places, j) < Rank(places, i)
    BY <1>1, <1>2, <1>12, RanksIncrease
  <2>6. 1 \in places
    BY <1>1, <2>2, <2>4, Constants
  <2>7. Cardinality(places) \in Nat
    BY <1>7
  <2>8. ~(1 < i)
    <3>1. Rank(places, 1) \in 1..Cardinality(places)
      BY <2>5, <2>6
    <3>2. ~(Rank(places, 1) < Rank(places, i))
      BY <2>2, <2>7, <3>1
    <3> QED BY <2>5, <2>6, <3>2
  <2>9. i = 1
    BY <1>1, <1>4, <2>8
  <2>10. vetCache # <<>> /\ Head(vetCache) = vetCache[1]
    <3>1. vetCache \in Seq(Vetting) /\ Len(vetCache) # 0
      BY <2>2, Constants DEF IInv, VettingsInv
    <3> QED BY <3>1, HeadTailProperties, EmptySeq
  <2> QED BY <1>4, <2>2, <2>3, <2>9, <2>10 DEF RoomIsTaken
<1> QED BY <1>5, <1>11, <1>12 DEF Stays

(* Only its handlers take a vetting out of the stage its check ended in.   *)
LEMMA HandlersSettle ==
    ASSUME IInv, Next, NEW t \in Task, stage[t] \in Outcomes, stage'[t] = "idle"
    PROVE  Settle(t)
<1>1. stage \in [Task -> Stages] /\ stage[t] \notin {"idle", "waiting", "connecting"}
  BY DEF IInv, TasksInv, Outcomes
<1>2. ASSUME NEW r \in Task, NEW next, NEW u, NEW n, NEW a, Locals(r, next, u, n, a)
      PROVE  r = t
  BY <1>1, <1>2 DEF Locals, Outcomes
<1>3. ASSUME NEW r \in Task, Resolved(r) \/ LookedUp(r) \/ DnsTimesOut(r)
      PROVE  FALSE
  <2>1. stage[r] \in {"resolving", "fallback"} /\ r # t
    BY <1>3 DEF Resolved, LookedUp, DnsTimesOut, Outcomes
  <2>2. CASE \E how \in Outcomes : CheckEnds(r, how)
    BY <2>1, <2>2, <1>2 DEF CheckEnds
  <2>3. CASE stage' = [stage EXCEPT ![r] = "fallback"]
    BY <2>1, <2>3, <1>1
  <2> QED
    BY <1>3, <2>2, <2>3
    DEF Resolved, LookedUp, DnsTimesOut, Answered, Unanswered, Outcomes
<1>4. ASSUME NEW r \in Task, NEW u, NEW n, NEW vet, Assert(r, u, n, vet)
      PROVE  r = t
  BY <1>2, <1>4 DEF Assert
<1>5. ASSUME NEW r \in Task, NEW u, Fetch(r, u) PROVE FALSE
  BY <1>1, <1>4, <1>5 DEF Fetch
<1>6. ASSUME NEW r \in Task, NEW o, Vet(r, o) PROVE FALSE
  BY <1>1, <1>4, <1>6 DEF Vet
<1>7. ASSUME NEW r \in Task, NEW u, Redirect(r, u) PROVE FALSE
  BY <1>1, <1>4, <1>7 DEF Redirect
<1>8. ASSUME NEW r \in Task, Connect(r) \/ FetchEnds(r) PROVE FALSE
  BY <1>1, <1>2, <1>8 DEF Connect, FetchEnds
<1>9. ASSUME NEW r \in Task, Settle(r) PROVE r = t
  BY <1>2, <1>9 DEF Settle
<1>10. ASSUME stage' = stage PROVE FALSE
  BY <1>1, <1>10
<1> QED
  BY <1>3, <1>5, <1>6, <1>7, <1>8, <1>9, <1>10
  DEF Next, Proceed, VetCached, SweepVettings, Tick

(* They drop their own promise when the look-up failed, and give it its    *)
(* verdict otherwise.                                                      *)
LEMMA HandlersRemember ==
    ASSUME IInv, NEW t \in Task, Settle(t), NEW e \in Members(vetCache)
    PROVE  /\ e.ok = t /\ stage[t] = "failed" => e.origin \notin Origins(vetCache')
           /\ e.ok = t /\ stage[t] # "failed" =>
                  Remembers(vetCache', e.origin, Verdict(stage[t]))
           /\ e.ok # t => Stays(e)
<1>1. PICK i \in DOMAIN vetCache : e = vetCache[i]
  BY DEF Members
<1>2. CASE stage[t] = "failed"
  <2> DEFINE places == {k \in DOMAIN vetCache : vetCache[k].ok # t}
  <2>1. places \in SUBSET (DOMAIN vetCache) /\ vetCache' = Kept(vetCache, places)
    BY <1>2 DEF Settle, Remembered
  <2>2. /\ e.ok = t => i \notin places
        /\ e.ok # t => i \in places
    BY <1>1
  <2> HIDE DEF places
  <2>3. Members(vetCache') = {vetCache[k] : k \in places}
    BY <2>1, KeptVettings DEF IInv
  <2>4. ASSUME e.ok = t PROVE e.origin \notin Origins(vetCache')
    <3>1. \A k \in places : vetCache[k].origin # e.origin
      BY <1>1, <2>1, <2>2, <2>4 DEF IInv, VettingsInv, Distinct
    <3> QED BY <2>3, <3>1 DEF Origins
  <2>5. ASSUME e.ok # t PROVE Stays(e)
    BY <1>1, <2>2, <2>3, <2>5, StayingIsRemembered
  <2> QED BY <1>2, <2>4, <2>5
<1>3. CASE stage[t] # "failed"
  <2> DEFINE told(x) == [x EXCEPT !.ok = IF @ = t THEN Verdict(stage[t]) ELSE @]
  <2>1. \A x \in Vetting : /\ told(x).origin = x.origin
                           /\ told(x).ok = IF x.ok = t THEN Verdict(stage[t]) ELSE x.ok
    BY DEF Vetting
  <2>2. vetCache' = [k \in DOMAIN vetCache |-> told(vetCache[k])]
    BY <1>3 DEF Settle, Remembered
  <2> HIDE DEF told
  <2>3. vetCache[i] \in Vetting
    BY ElementOfSeq, LenProperties DEF IInv, VettingsInv
  <2>4. told(e) \in Members(vetCache')
    BY <1>1, <2>2 DEF Members
  <2> QED BY <1>1, <1>3, <2>1, <2>3, <2>4 DEF Remembers, Stays
<1> QED BY <1>2, <1>3

(* A vetting that does not settle stays.                                   *)
LEMMA OthersStay ==
    ASSUME IInv, Next, NEW e \in Members(vetCache), ~Settles(e)
    PROVE  Stays(e)
<1>1. CASE vetCache' = vetCache
  BY <1>1, StayingIsRemembered
<1>2. ASSUME NEW t \in Task, NEW o \in Origin, Vet(t, o) PROVE Stays(e)
  BY <1>2, VetKeepsOthers
<1>3. ASSUME NEW o \in Origin, VetCached(o) PROVE Stays(e)
  <2>1. Members(vetCache') = Members(vetCache)
    BY <1>3, MovedIsSound DEF VetCached, IInv
  <2> QED BY <2>1, StayingIsRemembered
<1>4. ASSUME NEW t \in Task, Settle(t) PROVE Stays(e)
  <2>1. stage[t] \in Outcomes /\ stage'[t] = "idle"
    BY <1>4 DEF Settle, Locals, IInv, TasksInv
  <2>2. e.ok # t
    BY <2>1 DEF Settles
  <2> QED BY <1>4, <2>2, HandlersRemember
<1>5. CASE SweepVettings
  <2> DEFINE places == {k \in DOMAIN vetCache : vetCache[k].left > 0}
  <2>1. places \in SUBSET (DOMAIN vetCache) /\ vetCache' = Kept(vetCache, places)
    BY <1>5 DEF SweepVettings
  <2>2. PICK i \in DOMAIN vetCache : e = vetCache[i]
    BY DEF Members
  <2>3. e.left \in Nat
    <3>1. e \in Vetting
      BY <2>2, ElementOfSeq, LenProperties DEF IInv, VettingsInv
    <3> QED BY <3>1 DEF Vetting
  <2>4. e.left = 0 \/ i \in places
    BY <2>2, <2>3
  <2> HIDE DEF places
  <2>5. Members(vetCache') = {vetCache[k] : k \in places}
    BY <2>1, KeptVettings DEF IInv
  <2>6. e.left = 0 \/ e \in Members(vetCache')
    BY <2>2, <2>4, <2>5
  <2> QED BY <2>6, StayingIsRemembered DEF Stays
<1>6. CASE Tick
  BY <1>6, TickIsSound DEF Stays, Remembers, IInv
<1>7. ASSUME NEW t \in Task, Proceed(t) PROVE Stays(e)
  <2>1. CASE Resolved(t) \/ LookedUp(t) \/ DnsTimesOut(t)
    BY <2>1, <1>1 DEF Resolved, LookedUp, DnsTimesOut, Answered, Unanswered, CheckEnds
  <2>2. CASE Settle(t)
    BY <2>2, <1>4
  <2>3. CASE Connect(t) \/ FetchEnds(t)
    BY <2>3, <1>1 DEF Connect, FetchEnds
  <2>4. CASE \E u \in Url : Redirect(t, u)
    BY <2>4, <1>1 DEF Redirect
  <2> QED BY <1>7, <2>1, <2>2, <2>3, <2>4 DEF Proceed
<1>8. ASSUME NEW t \in Task, NEW u \in Url, Fetch(t, u) PROVE Stays(e)
  BY <1>8, <1>1 DEF Fetch
<1> QED BY <1>2, <1>3, <1>5, <1>6, <1>7, <1>8 DEF Next

LEMMA NextKeepsVettings ==
    IInv /\ [Next]_vars => [VettingStep]_vars
<1> SUFFICES ASSUME IInv, Next, NEW e \in Members(vetCache)
             PROVE  /\ Fails(e) => e.origin \notin Origins(vetCache')
                    /\ Settles(e) /\ ~Fails(e) =>
                           Remembers(vetCache', e.origin, Verdict(stage[e.ok]))
                    /\ ~Settles(e) => Stays(e)
  BY DEF VettingStep, Stays
<1>1. CASE Settles(e)
  <2>1. e.ok \in Task /\ Settle(e.ok)
    BY <1>1, HandlersSettle DEF Settles
  <2> QED BY <1>1, <2>1, HandlersRemember DEF Fails
<1>2. CASE ~Settles(e)
  BY <1>2, OthersStay DEF Fails
<1> QED BY <1>1, <1>2

(* What a check said is remembered for its life, nothing of a look-up that *)
(* failed, and one under way is left alone, whatever older look-ups of the *)
(* same origin do.                                                         *)
THEOREM VettingsStay ==
    Spec => VettingsAreKept
BY Inductive, NextKeepsVettings, PTL DEF Spec, VettingsAreKept
=============================================================================

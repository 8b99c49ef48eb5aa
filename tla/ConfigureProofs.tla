-------------------------- MODULE ConfigureProofs ---------------------------
(***************************************************************************)
(* Proofs about Configure, for every number of clients, forms and hosts,   *)
(* every limit, window and bound of the map, and every list of hosts.      *)
(***************************************************************************)
EXTENDS Configure, SequenceLemmas, TLAPS

LEMMA Constants ==
    /\ Limit \in Nat \ {0} /\ Window \in Nat \ {0}
    /\ Second \in Nat \ {0} /\ MaxClients \in Nat \ {0}
    /\ None \notin Host /\ None \notin Client
BY ConfigureAssumption

-----------------------------------------------------------------------------
(* The inductive invariant of the limiter.  A client has one bucket, the   *)
(* map its bound; and of a client that was told to wait, the bucket is     *)
(* gone by the time it has waited.                                         *)
Bucket == [client : Client, count : 1..(Limit + 1), left : -Window..(Window + 1)]

OneEach(s) == \A i, j \in DOMAIN s : s[i].client = s[j].client => i = j

EndsWithin(s, wait) ==
    \A i \in DOMAIN s : wait[s[i].client] >= 0 => s[i].left <= wait[s[i].client]

BucketsInv ==
    /\ buckets \in Seq(Bucket)
    /\ Len(buckets) <= MaxClients
    /\ OneEach(buckets)
    /\ told \in [Client -> Nat \cup {-1}]
    /\ EndsWithin(buckets, told)

(* What is left of a map is a map of one bucket a client, and of no        *)
(* bucket that was not there.                                              *)
LEMMA LeftKeepsBuckets ==
    ASSUME NEW s \in Seq(Bucket), NEW t \in Seq(Bucket), LeftOf(t, s),
           OneEach(s), NEW wait, EndsWithin(s, wait)
    PROVE  /\ OneEach(t) /\ EndsWithin(t, wait)
           /\ \A c : (\A i \in DOMAIN s : s[i].client # c)
                         => (\A i \in DOMAIN t : t[i].client # c)
<1>1. PICK place \in [DOMAIN t -> DOMAIN s] :
          /\ \A i, j \in DOMAIN t : i < j => place[i] < place[j]
          /\ \A i \in DOMAIN t : t[i] = s[place[i]]
  BY DEF LeftOf
<1>2. OneEach(t)
  BY <1>1 DEF OneEach
<1>3. EndsWithin(t, wait)
  BY <1>1 DEF EndsWithin
<1> QED BY <1>1, <1>2, <1>3

(* The sweep (rateLimitConfigure) only takes buckets away.                 *)
LEMMA SweptIsLeft ==
    ASSUME buckets \in Seq(Bucket)
    PROVE  Swept \in Seq(Bucket) /\ Len(Swept) <= Len(buckets) /\ LeftOf(Swept, buckets)
<1> DEFINE live == {i \in DOMAIN buckets : buckets[i].left > 0}
<1>1. live \in SUBSET (DOMAIN buckets) /\ Swept = From(buckets, live)
  BY DEF Swept
<1> HIDE DEF live
<1> QED BY <1>1, FromLeaves

(* Room leaves a map with room for one bucket more.                        *)
LEMMA RoomIsLeft ==
    ASSUME NEW s \in Seq(Bucket)
    PROVE  Room(s) \in Seq(Bucket) /\ Len(Room(s)) < MaxClients /\ LeftOf(Room(s), s)
<1> DEFINE n == MaxClients - 1
<1>1. Len(s) \in Nat /\ n \in Nat /\ n < MaxClients /\ Room(s) = Newest(s, n)
  BY LenProperties, Constants DEF Room
<1> HIDE DEF n
<1>2. /\ Newest(s, n) \in Seq(Bucket) /\ LeftOf(Newest(s, n), s)
      /\ Len(Newest(s, n)) = IF Len(s) > n THEN n ELSE Len(s)
  BY <1>1, NewestLeaves
<1> QED BY <1>1, <1>2, Constants

(* A client waits, rounded up to the second, until its bucket has expired. *)
LEMMA RetryAfterCovers ==
    ASSUME NEW left \in Int
    PROVE  /\ RetryAfter(left) * Second >= left
           /\ left > 0 => RetryAfter(left) * Second \in Nat
<1>1. Second \in Nat \ {0}
  BY Constants
<1>2. (left + Second - 1) \div Second \in Int
  BY <1>1
<1>3. ((left + Second - 1) \div Second) * Second >= left
  BY <1>1
<1>4. ((left + Second - 1) \div Second) * Second \in Int
  BY <1>1, <1>2
<1> QED BY <1>3, <1>4 DEF RetryAfter

(* The map, and what the client is told, after one call of the limiter.    *)
LEMMA LimiterKeepsBuckets ==
    ASSUME BucketsInv, NEW c \in Client
    PROVE  LET limited == RateLimit(c)
               wait == [told EXCEPT ![c] = limited.wait]
           IN  /\ limited.buckets \in Seq(Bucket)
               /\ Len(limited.buckets) <= MaxClients
               /\ OneEach(limited.buckets)
               /\ wait \in [Client -> Nat \cup {-1}]
               /\ EndsWithin(limited.buckets, wait)
               /\ limited.refused \in BOOLEAN
               /\ told[c] = 0 => ~limited.refused
<1> DEFINE mine == {i \in DOMAIN Swept : Swept[i].client = c}
           i == CHOOSE i \in mine : TRUE
           kept == Kept(Swept, DOMAIN Swept \ mine)
           count == IF Swept[i].count > Limit THEN Swept[i].count
                    ELSE Swept[i].count + 1
           fresh == [client |-> c, count |-> 1, left |-> Window]
<1>1. /\ buckets \in Seq(Bucket) /\ OneEach(buckets) /\ EndsWithin(buckets, told)
      /\ Len(buckets) <= MaxClients /\ Len(buckets) \in Nat
      /\ told \in [Client -> Nat \cup {-1}]
  BY LenProperties DEF BucketsInv
<1>2. /\ Swept \in Seq(Bucket) /\ Len(Swept) <= MaxClients /\ Len(Swept) \in Nat
      /\ OneEach(Swept) /\ EndsWithin(Swept, told) /\ DOMAIN Swept = 1..Len(Swept)
  <2>1. Swept \in Seq(Bucket) /\ Len(Swept) <= Len(buckets) /\ LeftOf(Swept, buckets)
    BY <1>1, SweptIsLeft
  <2>2. OneEach(Swept) /\ EndsWithin(Swept, told)
    BY <1>1, <2>1, LeftKeepsBuckets
  <2>3. Len(Swept) \in Nat /\ DOMAIN Swept = 1..Len(Swept)
    BY <2>1, LenProperties
  <2> QED BY <1>1, <2>1, <2>2, <2>3, Constants
<1>3. mine # {} => i \in 1..Len(Swept) /\ Swept[i].client = c /\ Swept[i] \in Bucket
  BY <1>2, ElementOfSeq
<1>4. RateLimit(c) =
          IF mine = {} \/ Expired(Swept[i])
          THEN [buckets |-> Append(Room(kept), fresh), refused |-> FALSE, wait |-> -1]
          ELSE [buckets |-> [Swept EXCEPT ![i].count = count],
                refused |-> count > Limit,
                wait |-> IF count > Limit THEN RetryAfter(Swept[i].left) * Second ELSE -1]
  BY DEF RateLimit
<1>5. fresh \in Bucket
  BY Constants DEF Bucket
<1>6. /\ kept \in Seq(Bucket) /\ OneEach(kept) /\ EndsWithin(kept, told)
      /\ \A k \in DOMAIN kept : kept[k].client # c
  <2> DEFINE rest == DOMAIN Swept \ mine
  <2>1. kept = Kept(Swept, rest) /\ rest \in SUBSET (DOMAIN Swept)
    OBVIOUS
  <2>2. \A k \in rest : Swept[k].client # c
    OBVIOUS
  <2> HIDE DEF kept, rest, mine
  <2>3. /\ kept \in Seq(Bucket) /\ LeftOf(kept, Swept)
        /\ Members(kept) = {Swept[k] : k \in rest}
    BY <1>2, <2>1, KeptLeaves
  <2>4. OneEach(kept) /\ EndsWithin(kept, told)
    BY <1>2, <2>3, LeftKeepsBuckets
  <2>5. \A k \in DOMAIN kept : kept[k].client # c
    BY <2>2, <2>3 DEF Members
  <2> QED BY <2>3, <2>4, <2>5
<1> HIDE DEF mine, i, kept, fresh, count
<1>7. CASE mine = {} \/ Expired(Swept[i])
  <2> DEFINE left == Room(kept)
             new == Append(left, fresh)
             wait == [told EXCEPT ![c] = -1]
  <2>1. left \in Seq(Bucket) /\ Len(left) < MaxClients /\ LeftOf(left, kept)
    BY <1>6, RoomIsLeft
  <2>2. /\ OneEach(left) /\ EndsWithin(left, told)
        /\ \A k \in DOMAIN left : left[k].client # c
    BY <1>6, <2>1, LeftKeepsBuckets
  <2> HIDE DEF left
  <2>3. Len(left) \in Nat /\ DOMAIN left = 1..Len(left)
    BY <2>1, LenProperties
  <2>4. /\ new \in Seq(Bucket) /\ Len(new) = Len(left) + 1
        /\ \A k \in 1..Len(left) : new[k] = left[k]
        /\ new[Len(left) + 1] = fresh
    BY <1>5, <2>1, AppendProperties
  <2> HIDE DEF new
  <2>5. DOMAIN new = 1..(Len(left) + 1)
    BY <2>4, LenProperties
  <2>6. fresh.client = c /\ fresh.left = Window
    BY DEF fresh
  <2>7. OneEach(new)
    <3> SUFFICES ASSUME NEW j \in DOMAIN new, NEW k \in DOMAIN new,
                        new[j].client = new[k].client
                 PROVE  j = k
      BY DEF OneEach
    <3>1. /\ (j \in 1..Len(left) /\ new[j] = left[j]) \/ j = Len(left) + 1
          /\ (k \in 1..Len(left) /\ new[k] = left[k]) \/ k = Len(left) + 1
      BY <2>3, <2>4, <2>5
    <3> QED BY <3>1, <2>2, <2>3, <2>4, <2>6 DEF OneEach
  <2>8. EndsWithin(new, wait)
    <3> SUFFICES ASSUME NEW k \in DOMAIN new, wait[new[k].client] >= 0
                 PROVE  new[k].left <= wait[new[k].client]
      BY DEF EndsWithin
    <3>1. CASE k \in 1..Len(left)
      <4>1. /\ new[k] = left[k] /\ left[k].client # c /\ k \in DOMAIN left
            /\ left[k] \in Bucket
        BY <3>1, <2>1, <2>2, <2>3, <2>4, ElementOfSeq
      <4>2. wait[left[k].client] = told[left[k].client]
        BY <4>1, <1>1 DEF Bucket
      <4> QED BY <4>1, <4>2, <2>2 DEF EndsWithin
    <3>2. CASE k = Len(left) + 1
      BY <3>2, <2>4, <2>6, <1>1
    <3> QED BY <3>1, <3>2, <2>3, <2>5
  <2>9. RateLimit(c) = [buckets |-> new, refused |-> FALSE, wait |-> -1]
    BY <1>4, <1>7 DEF new, left
  <2>10. Len(new) <= MaxClients
    BY <2>1, <2>3, <2>4, Constants
  <2>11. wait \in [Client -> Nat \cup {-1}]
    BY <1>1
  <2> QED BY <2>4, <2>7, <2>8, <2>9, <2>10, <2>11
<1>8. CASE ~(mine = {} \/ Expired(Swept[i]))
  <2> DEFINE new == [Swept EXCEPT ![i].count = count]
             n == IF count > Limit THEN RetryAfter(Swept[i].left) * Second ELSE -1
             wait == [told EXCEPT ![c] = n]
  <2>1. /\ i \in 1..Len(Swept) /\ Swept[i].client = c /\ Swept[i] \in Bucket
        /\ Swept[i].left > 0 /\ Swept[i].left \in Int
    BY <1>8, <1>3, Constants DEF Expired, Bucket
  <2>2. count \in 1..(Limit + 1)
    BY <2>1, Constants DEF count, Bucket
  <2>3. [Swept[i] EXCEPT !.count = count] \in Bucket
    BY <2>1, <2>2 DEF Bucket
  <2>4. /\ new \in Seq(Bucket) /\ Len(new) = Len(Swept)
        /\ \A k \in 1..Len(Swept) :
               new[k] = IF k = i THEN [Swept[i] EXCEPT !.count = count] ELSE Swept[k]
    BY <1>2, <2>1, <2>3, ExceptSeq
  <2> HIDE DEF new
  <2>5. DOMAIN new = 1..Len(Swept)
    BY <2>4, LenProperties
  <2>6. \A k \in DOMAIN new : /\ new[k].client = Swept[k].client
                              /\ new[k].left = Swept[k].left
    BY <2>1, <2>4, <2>5 DEF Bucket
  <2>7. OneEach(new)
    BY <1>2, <2>5, <2>6 DEF OneEach
  <2>8. n \in Nat \cup {-1} /\ (n >= 0 => Swept[i].left <= n)
    <3>1. /\ RetryAfter(Swept[i].left) * Second >= Swept[i].left
          /\ RetryAfter(Swept[i].left) * Second \in Nat
      BY <2>1, RetryAfterCovers
    <3>2. CASE count > Limit
      BY <3>1, <3>2
    <3>3. CASE ~(count > Limit)
      BY <3>3
    <3> QED BY <3>2, <3>3
  <2> HIDE DEF n
  <2>9. EndsWithin(new, wait)
    <3> SUFFICES ASSUME NEW k \in DOMAIN new, wait[new[k].client] >= 0
                 PROVE  new[k].left <= wait[new[k].client]
      BY DEF EndsWithin
    <3>1. k \in DOMAIN Swept /\ Swept[k] \in Bucket
      BY <2>5, <1>2, ElementOfSeq
    <3>2. CASE k = i
      <4>1. wait[new[k].client] = n /\ new[k].left = Swept[i].left
        BY <3>2, <2>1, <2>6, <1>1
      <4> QED BY <4>1, <2>8
    <3>3. CASE k # i
      <4>1. Swept[k].client # c
        BY <3>1, <3>3, <1>2, <2>1 DEF OneEach
      <4>2. wait[new[k].client] = told[Swept[k].client]
        BY <4>1, <3>1, <2>6, <1>1 DEF Bucket
      <4> QED BY <4>2, <3>1, <2>6, <1>2 DEF EndsWithin
    <3> QED BY <3>2, <3>3
  <2>10. wait \in [Client -> Nat \cup {-1}]
    BY <1>1, <2>8
  <2>11. RateLimit(c) = [buckets |-> new, refused |-> count > Limit, wait |-> n]
    BY <1>4, <1>8 DEF new, n
  <2>12. told[c] # 0
    <3> SUFFICES ASSUME told[c] = 0 PROVE FALSE
      OBVIOUS
    <3>1. Swept[i].left <= 0
      BY <1>2, <2>1 DEF EndsWithin
    <3> QED BY <3>1, <2>1
  <2> QED BY <2>4, <2>7, <2>9, <2>10, <2>11, <2>12, <1>2
<1> QED BY <1>7, <1>8
-----------------------------------------------------------------------------
(* The inductive invariant of a form.  Its password has gone where it may; *)
(* a form that is being tried is of an allowed host, and has no answer;    *)
(* and one that is being confirmed names a URL that it may adopt.          *)
Stages == {"idle", "fetch", "body", "confirm", "answered"}

Results == {"none", "too many", "incomplete", "unlisted", "no URL", "not a panel",
            "account", "unreachable", "connected"}

FormType ==
    [stage : Stages, by : Client \cup {None}, typed : Typed, host : Host \cup {None},
     i : {0, 1, 2}, named : Url \cup {None}, contacts : SUBSET Url, heard : SUBSET Url,
     worked : SUBSET Url, result : Results, url : Url \cup {None}, downgrade : BOOLEAN]

MaySend(q) ==
    \A url \in q.contacts :
        /\ panelHostAllowed(url.host)
        /\ url.scheme = "http" =>
               /\ q.typed # "https"
               /\ q.typed = "none" => [scheme |-> "https", host |-> q.host] \in q.contacts

Trying(q) ==
    q.stage \in {"fetch", "body", "confirm"} =>
        /\ q.host \in Host /\ panelHostAllowed(q.host)
        /\ q.i \in 1..Len(Attempts(q.typed))
        /\ q.result = "none"
        /\ UrlOf(q) \in q.contacts

Heard(q) ==
    /\ q.heard \subseteq q.contacts /\ q.worked \subseteq q.contacts
    /\ q.stage = "body" => q.heard # {}
    /\ q.stage \in {"fetch", "body"} => q.worked = {}
    /\ q.stage = "confirm" => /\ q.worked = {UrlOf(q)}
                              /\ q.named \in q.contacts
                              /\ Survives(q, q.named)

Confirmed(q) ==
    /\ q.result = "connected" =>
           /\ q.url \in q.worked
           /\ panelHostAllowed(q.url.host)
           /\ q.typed = "https" => q.url.scheme = "https"
           /\ q.downgrade <=> /\ q.url.scheme = "http"
                              /\ \E u \in q.worked : u.scheme = "https"
    /\ q.result = "unreachable" => q.heard = {}
    /\ q.result = "not a panel" => q.heard # {}

FormInv(q) ==
    /\ q \in FormType
    /\ q.stage = "idle" => q = NoForm
    /\ MaySend(q) /\ Trying(q) /\ Heard(q) /\ Confirmed(q)

FormsInv ==
    /\ allowed \in HostLists
    /\ form \in [Form -> FormType]
    /\ \A f \in Form : FormInv(form[f])

IInv == BucketsInv /\ FormsInv

LEMMA NoFormIsRight == FormInv(NoForm)
<1>1. NoForm \in FormType
  BY DEF NoForm, FormType, Stages, Results, Typed
<1> QED BY <1>1 DEF NoForm, FormInv, MaySend, Trying, Heard, Confirmed

(* The schemes that are tried: https first, unless http was typed.         *)
LEMMA AttemptsOf ==
    ASSUME NEW typed \in Typed
    PROVE  /\ Len(Attempts(typed)) \in {1, 2}
           /\ \A i \in 1..Len(Attempts(typed)) : Attempts(typed)[i] \in {"http", "https"}
           /\ typed = "https" => /\ Len(Attempts(typed)) = 1
                                 /\ Attempts(typed)[1] = "https"
           /\ typed = "none" => /\ Attempts(typed)[1] = "https"
                                /\ Attempts(typed)[2] = "http"
BY DEF Attempts, Typed

(* An attempt: the first, or the one after an attempt that failed.         *)
LEMMA AttemptIsRight ==
    ASSUME NEW q \in FormType, q.host \in Host, panelHostAllowed(q.host),
           q.result = "none", q.worked = {}, q.heard \subseteq q.contacts, MaySend(q),
           NEW i \in {1, 2}, i <= Len(Attempts(q.typed)),
           i = 2 => [scheme |-> Attempts(q.typed)[1], host |-> q.host] \in q.contacts
    PROVE  FormInv(Attempt(q, i))
<1> DEFINE url == [scheme |-> Attempts(q.typed)[i], host |-> q.host]
           r == Attempt(q, i)
<1>1. q.typed \in Typed
  BY DEF FormType
<1>2. url \in Url
  BY <1>1, AttemptsOf DEF Url
<1>3. /\ r = [q EXCEPT !.stage = "fetch", !.i = i, !.contacts = @ \cup {url}]
      /\ UrlOf(r) = url
  BY DEF Attempt, UrlOf, FormType
<1> HIDE DEF r, url
<1>4. r \in FormType
  <2>1. q.contacts \cup {url} \in SUBSET Url
    BY <1>2 DEF FormType
  <2> QED BY <2>1, <1>3 DEF FormType, Stages
<1>5. /\ r.contacts = q.contacts \cup {url} /\ r.stage = "fetch" /\ r.i = i
      /\ r.typed = q.typed /\ r.host = q.host /\ r.result = "none"
      /\ r.worked = {} /\ r.heard = q.heard
  BY <1>3 DEF FormType
<1>6. MaySend(r)
  BY <1>1, <1>5, AttemptsOf DEF MaySend, url
<1>7. Trying(r)
  BY <1>1, <1>3, <1>5, AttemptsOf DEF Trying
<1>8. Heard(r) /\ Confirmed(r)
  BY <1>5 DEF Heard, Confirmed
<1> QED BY <1>4, <1>5, <1>6, <1>7, <1>8 DEF FormInv, r

(* An answer that is not a connection.                                     *)
LEMMA AnswerIsRight ==
    ASSUME NEW q \in FormType, MaySend(q),
           q.heard \subseteq q.contacts, q.worked \subseteq q.contacts,
           NEW result \in Results \ {"none", "connected"},
           result = "unreachable" => q.heard = {},
           result = "not a panel" => q.heard # {}
    PROVE  FormInv(Answer(q, result))
<1> DEFINE r == Answer(q, result)
<1>1. r \in FormType
  BY DEF Answer, FormType, Stages
<1>2. /\ r.stage = "answered" /\ r.result = result /\ r.contacts = q.contacts
      /\ r.typed = q.typed /\ r.host = q.host /\ r.worked = q.worked
      /\ r.heard = q.heard
  BY DEF Answer, FormType
<1> HIDE DEF r
<1>3. MaySend(r) /\ Trying(r) /\ Heard(r) /\ Confirmed(r)
  BY <1>2 DEF MaySend, Trying, Heard, Confirmed
<1> QED BY <1>1, <1>2, <1>3 DEF FormInv, r

(* A connection, to the URL that took the credentials: that of the         *)
(* attempt, or the one it named.                                           *)
LEMMA ConnectedIsRight ==
    ASSUME NEW q \in FormType, MaySend(q), q.heard \subseteq q.contacts,
           q.worked \subseteq q.contacts,
           NEW url \in q.worked, UrlOf(q) \in q.worked,
           q.worked \subseteq {UrlOf(q), url}
    PROVE  FormInv(Connected(q, url))
<1> DEFINE r == Connected(q, url)
           down == UrlOf(q).scheme = "https" /\ url.scheme = "http"
<1>1. url \in Url /\ UrlOf(q) \in Url
  BY DEF FormType
<1>2. r = [Answer(q, "connected") EXCEPT !.url = url, !.downgrade = down]
  BY DEF Connected
<1>3. Answer(q, "connected") \in FormType
  BY DEF Answer, FormType, Stages, Results
<1>4. r \in FormType
  BY <1>1, <1>2, <1>3 DEF FormType
<1>5. /\ r.stage = "answered" /\ r.result = "connected" /\ r.contacts = q.contacts
      /\ r.typed = q.typed /\ r.host = q.host /\ r.worked = q.worked
      /\ r.heard = q.heard /\ r.url = url /\ r.downgrade = down
  BY <1>2, <1>3 DEF Answer, FormType
<1> HIDE DEF r
<1>6. MaySend(r) /\ Trying(r) /\ Heard(r)
  BY <1>5 DEF MaySend, Trying, Heard
<1>7. Confirmed(r)
  <2>1. url \in q.contacts /\ panelHostAllowed(url.host)
    BY DEF MaySend
  <2>2. q.typed = "https" => url.scheme = "https"
    BY <2>1, <1>1 DEF MaySend, Url
  <2>3. down <=> url.scheme = "http" /\ \E u \in q.worked : u.scheme = "https"
    BY <1>1
  <2> QED BY <1>5, <2>1, <2>2, <2>3 DEF Confirmed
<1> QED BY <1>4, <1>5, <1>6, <1>7 DEF FormInv, r

(* What is right of a form rests on it and on the list alone.              *)
LEMMA FormInvReadsAllowed ==
    ASSUME NEW g \in Form, FormInv(form'[g]), UNCHANGED allowed
    PROVE  FormInv(form[g])'
BY Zenon DEF FormInv, MaySend, Trying, Heard, Confirmed, panelHostAllowed, Survives

(* One form moves, to a state that is right.                               *)
LEMMA OneFormMoves ==
    ASSUME FormsInv, NEW f \in Form, NEW q, FormInv(q),
           form' = [form EXCEPT ![f] = q], UNCHANGED allowed
    PROVE  FormsInv'
<1>1. q \in FormType
  BY DEF FormInv
<1>2. \A g \in Form : FormInv(form'[g])
  BY DEF FormsInv
<1>3. form' \in [Form -> FormType]
  BY <1>1 DEF FormsInv
<1>4. \A g \in Form : FormInv(form[g])'
  BY <1>2, FormInvReadsAllowed
<1> QED BY <1>3, <1>4 DEF FormsInv

(* What a form that is being tried may be assumed to be.                   *)
LEMMA TriedForm ==
    ASSUME FormsInv, NEW f \in Form
    PROVE  /\ form[f] \in FormType /\ FormInv(form[f])
           /\ MaySend(form[f]) /\ Heard(form[f])
           /\ form[f].stage \in {"fetch", "body", "confirm"} =>
                  /\ form[f].host \in Host /\ panelHostAllowed(form[f].host)
                  /\ form[f].i \in 1..Len(Attempts(form[f].typed))
                  /\ form[f].result = "none"
                  /\ UrlOf(form[f]) \in form[f].contacts
           /\ form[f].heard \subseteq form[f].contacts
           /\ form[f].worked \subseteq form[f].contacts
BY DEF FormsInv, FormInv, Trying, Heard

LEMMA PostKeepsForms ==
    ASSUME FormsInv, NEW f \in Form, NEW c \in Client, Post(f, c),
           RateLimit(c).refused \in BOOLEAN
    PROVE  FormsInv'
<1> DEFINE refused == RateLimit(c).refused
<1>1. PICK typed \in Typed, host \in Host \cup {None}, complete \in BOOLEAN :
          LET q == [NoForm EXCEPT !.typed = typed, !.host = host]
          IN  form' = [form EXCEPT ![f] =
                  CASE refused -> Answer([NoForm EXCEPT !.by = c], "too many")
                    [] ~refused /\ ~complete -> Answer(NoForm, "incomplete")
                    [] ~refused /\ complete /\ ~panelHostAllowed(host) ->
                          Answer(NoForm, "unlisted")
                    [] ~refused /\ complete /\ panelHostAllowed(host) /\ host = None ->
                          Answer(NoForm, "no URL")
                    [] OTHER -> Attempt(q, 1)]
  BY DEF Post
<1> DEFINE q == [NoForm EXCEPT !.typed = typed, !.host = host]
<1>2. /\ NoForm \in FormType /\ MaySend(NoForm)
      /\ NoForm.heard = {} /\ NoForm.worked = {} /\ NoForm.contacts = {}
  BY NoFormIsRight DEF FormInv, NoForm
<1>3. UNCHANGED allowed
  BY DEF Post
<1>4. CASE refused
  <2> DEFINE n == [NoForm EXCEPT !.by = c]
  <2>1. n \in FormType /\ n.heard = {} /\ n.worked = {} /\ n.contacts = {}
    BY <1>2 DEF NoForm, FormType
  <2>2. FormInv(Answer(n, "too many"))
    BY <2>1, AnswerIsRight DEF MaySend, Results
  <2> QED BY <2>2, <1>1, <1>3, <1>4, OneFormMoves
<1>5. \A result \in {"incomplete", "unlisted", "no URL"} : FormInv(Answer(NoForm, result))
  BY <1>2, AnswerIsRight DEF Results
<1>6. CASE ~refused /\ complete /\ panelHostAllowed(host) /\ host # None
  <2>1. /\ q \in FormType /\ q.host = host /\ host \in Host /\ q.typed \in Typed
        /\ q.result = "none" /\ q.worked = {} /\ q.heard = {} /\ q.contacts = {}
    BY <1>2, <1>6 DEF NoForm, FormType
  <2>2. 1 <= Len(Attempts(q.typed))
    BY <2>1, AttemptsOf
  <2> HIDE DEF q
  <2>3. MaySend(q)
    BY <2>1 DEF MaySend
  <2>4. FormInv(Attempt(q, 1))
    <3> DEFINE i == 1
    <3>1. /\ panelHostAllowed(q.host) /\ q.host \in Host /\ q \in FormType
          /\ q.heard \subseteq q.contacts /\ q.worked = {} /\ q.result = "none"
      BY <2>1, <1>6
    <3>2. i \in {1, 2} /\ i # 2 /\ i <= Len(Attempts(q.typed))
      BY <2>2
    <3> HIDE DEF i
    <3>3. FormInv(Attempt(q, i))
      BY ONLY <2>3, <3>1, <3>2, AttemptIsRight
    <3> QED BY <3>3 DEF i
  <2> QED BY <2>4, <1>1, <1>3, <1>6, OneFormMoves DEF q
<1>7. CASE ~refused /\ ~complete
  BY <1>1, <1>3, <1>5, <1>7, OneFormMoves
<1>8. CASE ~refused /\ complete /\ ~panelHostAllowed(host)
  BY <1>1, <1>3, <1>5, <1>8, OneFormMoves
<1>9. CASE ~refused /\ complete /\ panelHostAllowed(host) /\ host = None
  BY <1>1, <1>3, <1>5, <1>9, OneFormMoves
<1> QED BY <1>4, <1>6, <1>7, <1>8, <1>9

LEMMA RespondsKeepsForms ==
    ASSUME FormsInv, NEW f \in Form, Responds(f)
    PROVE  FormsInv'
<1> DEFINE q == form[f]
           r == [q EXCEPT !.stage = "body", !.heard = @ \cup {UrlOf(q)}]
<1>1. q.stage = "fetch" /\ form' = [form EXCEPT ![f] = r] /\ UNCHANGED allowed
  BY DEF Responds, FormsInv
<1>2. /\ q \in FormType /\ MaySend(q) /\ Heard(q) /\ Trying(q) /\ Confirmed(q)
      /\ UrlOf(q) \in q.contacts
  BY <1>1, TriedForm DEF FormInv
<1> HIDE DEF q
<1>3. r \in FormType
  BY <1>2 DEF FormType, Stages
<1>4. /\ r.stage = "body" /\ r.heard = q.heard \cup {UrlOf(q)}
      /\ r.contacts = q.contacts /\ r.typed = q.typed /\ r.host = q.host
      /\ r.i = q.i /\ r.worked = q.worked /\ r.result = q.result /\ UrlOf(r) = UrlOf(q)
  BY <1>2 DEF FormType, UrlOf
<1> HIDE DEF r
<1>5. MaySend(r) /\ Trying(r) /\ Heard(r)
  BY <1>1, <1>2, <1>4 DEF MaySend, Trying, Heard
<1>6. Confirmed(r)
  BY <1>1, <1>2, <1>4 DEF Trying, Confirmed
<1>7. FormInv(r)
  BY <1>3, <1>4, <1>5, <1>6 DEF FormInv
<1> QED BY <1>1, <1>7, OneFormMoves

LEMMA TurnedDownKeepsForms ==
    ASSUME FormsInv, NEW f \in Form, TurnedDown(f)
    PROVE  FormsInv'
<1> DEFINE q == form[f]
<1>1. /\ q.stage = "body" /\ UNCHANGED allowed
      /\ \E result \in {"not a panel", "account"} : form' = [form EXCEPT ![f] = Answer(q, result)]
  BY DEF TurnedDown, FormsInv
<1>2. q \in FormType /\ MaySend(q) /\ Heard(q)
  BY TriedForm
<1> HIDE DEF q
<1>3. \A result \in {"not a panel", "account"} : FormInv(Answer(q, result))
  BY <1>1, <1>2, AnswerIsRight DEF Heard, Results
<1> QED BY <1>1, <1>3, OneFormMoves

LEMMA AcceptedKeepsForms ==
    ASSUME FormsInv, NEW f \in Form, Accepted(f)
    PROVE  FormsInv'
<1> DEFINE p == form[f]
           q == [p EXCEPT !.worked = @ \cup {UrlOf(p)}]
<1>1. /\ p.stage = "body" /\ UNCHANGED allowed
      /\ \E named \in Url \cup {None} :
             form' = [form EXCEPT ![f] =
                 IF Survives(q, named) /\ named # UrlOf(q)
                 THEN [q EXCEPT !.stage = "confirm", !.named = named,
                                !.contacts = @ \cup {named}]
                 ELSE Connected(q, UrlOf(q))]
  BY DEF Accepted
<1>2. /\ p \in FormType /\ MaySend(p) /\ Heard(p) /\ Trying(p) /\ Confirmed(p)
      /\ UrlOf(p) \in p.contacts
  BY <1>1, TriedForm DEF FormInv
<1> HIDE DEF p
<1>3. q \in FormType
  BY <1>2 DEF FormType
<1>4. /\ q.stage = "body" /\ q.heard = p.heard /\ q.contacts = p.contacts
      /\ q.typed = p.typed /\ q.host = p.host /\ q.i = p.i
      /\ q.worked = {UrlOf(p)} /\ q.result = p.result /\ UrlOf(q) = UrlOf(p)
  BY <1>1, <1>2 DEF FormType, UrlOf, Heard
<1> HIDE DEF q
<1>5. PICK named \in Url \cup {None} :
          form' = [form EXCEPT ![f] =
              IF Survives(q, named) /\ named # UrlOf(q)
              THEN [q EXCEPT !.stage = "confirm", !.named = named,
                             !.contacts = @ \cup {named}]
              ELSE Connected(q, UrlOf(q))]
  BY <1>1
<1>6. MaySend(q)
  BY <1>2, <1>4 DEF MaySend
<1>7. CASE Survives(q, named) /\ named # UrlOf(q)
  <2> DEFINE r == [q EXCEPT !.stage = "confirm", !.named = named,
                            !.contacts = @ \cup {named}]
  <2>1. named \in Url
    BY <1>7 DEF Survives
  <2>2. r \in FormType
    BY <2>1, <1>3 DEF FormType, Stages
  <2>3. /\ r.stage = "confirm" /\ r.heard = q.heard /\ r.contacts = q.contacts \cup {named}
        /\ r.typed = q.typed /\ r.host = q.host /\ r.i = q.i /\ r.named = named
        /\ r.worked = q.worked /\ r.result = q.result /\ UrlOf(r) = UrlOf(q)
    BY <1>3 DEF FormType, UrlOf
  <2> HIDE DEF r
  <2>4. /\ panelHostAllowed(named.host)
        /\ named.scheme = "http" => q.typed # "https"
    BY <1>7 DEF Survives
  <2>5. q.typed = "none" => [scheme |-> "https", host |-> q.host] \in q.contacts
    <3> SUFFICES ASSUME q.typed = "none"
                 PROVE  [scheme |-> "https", host |-> q.host] \in q.contacts
      OBVIOUS
    <3>1. /\ q.i \in {1, 2}
          /\ UrlOf(q) = [scheme |-> IF q.i = 1 THEN "https" ELSE "http", host |-> q.host]
          /\ UrlOf(q) \in q.contacts
      BY <1>1, <1>2, <1>4 DEF Trying, UrlOf, Attempts
    <3>2. CASE q.i = 1
      BY <3>1, <3>2
    <3>3. CASE q.i = 2
      <4>1. UrlOf(q).scheme = "http"
        BY <3>1, <3>3
      <4> QED BY <4>1, <3>1, <1>6 DEF MaySend
    <3> QED BY <3>1, <3>2, <3>3
  <2>6. MaySend(r)
    BY <1>6, <2>3, <2>4, <2>5 DEF MaySend
  <2>7. Trying(r)
    BY <1>1, <1>2, <1>4, <2>3 DEF Trying
  <2>8. Survives(r, named)
    BY <1>7, <2>3 DEF Survives
  <2>9. Heard(r)
    BY <1>1, <1>2, <1>4, <2>3, <2>8 DEF Heard
  <2>10. Confirmed(r)
    BY <1>1, <1>2, <1>4, <2>3 DEF Trying, Confirmed
  <2>11. FormInv(r)
    BY <2>2, <2>3, <2>6, <2>7, <2>9, <2>10 DEF FormInv
  <2>12. form' = [form EXCEPT ![f] = r]
    BY <1>5, <1>7 DEF r
  <2> QED BY <1>1, <2>11, <2>12, OneFormMoves
<1>8. CASE ~(Survives(q, named) /\ named # UrlOf(q))
  <2>1. FormInv(Connected(q, UrlOf(q)))
    BY <1>2, <1>3, <1>4, <1>6, ConnectedIsRight DEF Heard
  <2>2. form' = [form EXCEPT ![f] = Connected(q, UrlOf(q))]
    BY <1>5, <1>8
  <2> QED BY <1>1, <2>1, <2>2, OneFormMoves
<1> QED BY <1>7, <1>8

LEMMA FailsKeepsForms ==
    ASSUME FormsInv, NEW f \in Form, Fails(f)
    PROVE  FormsInv'
<1> DEFINE q == form[f]
<1>1. /\ q.stage \in {"fetch", "body"} /\ UNCHANGED allowed
      /\ form' = [form EXCEPT ![f] =
             IF q.i < Len(Attempts(q.typed)) THEN Attempt(q, q.i + 1) ELSE Unreached(q)]
  BY DEF Fails
<1>2. /\ q \in FormType /\ MaySend(q) /\ Heard(q) /\ Trying(q)
      /\ UrlOf(q) \in q.contacts
  BY <1>1, TriedForm DEF FormInv
<1> HIDE DEF q
<1>3. CASE q.i < Len(Attempts(q.typed))
  <2>1. q.typed \in Typed /\ q.i \in 1..Len(Attempts(q.typed))
    BY <1>1, <1>2 DEF FormType, Trying
  <2>2. q.i = 1 /\ q.i + 1 = 2 /\ 2 <= Len(Attempts(q.typed))
    BY <2>1, <1>3, AttemptsOf
  <2>3. [scheme |-> Attempts(q.typed)[1], host |-> q.host] \in q.contacts
    BY <1>2, <2>2 DEF UrlOf
  <2>4. FormInv(Attempt(q, 2))
    BY <1>1, <1>2, <2>2, <2>3, AttemptIsRight DEF Trying, Heard
  <2>5. form' = [form EXCEPT ![f] = Attempt(q, 2)]
    BY <1>1, <1>3, <2>2
  <2> QED BY <1>1, <2>4, <2>5, OneFormMoves
<1>4. CASE ~(q.i < Len(Attempts(q.typed)))
  <2>1. FormInv(Unreached(q))
    BY <1>2, AnswerIsRight DEF Unreached, Heard, Results
  <2> QED BY <1>1, <1>4, <2>1, OneFormMoves
<1> QED BY <1>3, <1>4

LEMMA ConfirmKeepsForms ==
    ASSUME FormsInv, NEW f \in Form, Works(f) \/ WorksNot(f)
    PROVE  FormsInv'
<1> DEFINE q == form[f]
           w == [q EXCEPT !.worked = @ \cup {q.named}]
<1>1. /\ q.stage = "confirm" /\ UNCHANGED allowed
      /\ \/ form' = [form EXCEPT ![f] = Connected(w, w.named)]
         \/ form' = [form EXCEPT ![f] = Connected(q, UrlOf(q))]
  <2>1. CASE Works(f)
    <3>1. /\ q.stage = "confirm" /\ UNCHANGED allowed
          /\ form' = [form EXCEPT ![f] = Adopted(w, TRUE)]
      BY <2>1 DEF Works, FormsInv
    <3> QED BY <3>1 DEF Adopted
  <2>2. CASE WorksNot(f)
    <3>1. /\ q.stage = "confirm" /\ UNCHANGED allowed
          /\ form' = [form EXCEPT ![f] = Adopted(q, FALSE)]
      BY <2>2 DEF WorksNot
    <3> QED BY <3>1 DEF Adopted
  <2> QED BY <2>1, <2>2
<1>2. q \in FormType /\ MaySend(q) /\ Heard(q)
  BY TriedForm
<1> HIDE DEF q
<1>3. /\ w \in FormType /\ w.contacts = q.contacts /\ w.heard = q.heard
      /\ w.typed = q.typed /\ w.host = q.host /\ w.named = q.named
      /\ w.worked = q.worked \cup {q.named} /\ UrlOf(w) = UrlOf(q)
  <2>1. q.named \in Url
    BY <1>1, <1>2 DEF Heard, FormType
  <2> QED BY <2>1, <1>2 DEF FormType, UrlOf
<1>4. q.worked = {UrlOf(q)} /\ q.named \in q.contacts
  BY <1>1, <1>2 DEF Heard
<1> HIDE DEF w
<1>5. FormInv(Connected(w, w.named))
  <2>1. MaySend(w)
    BY <1>2, <1>3 DEF MaySend
  <2>2. w.heard \subseteq w.contacts /\ w.worked \subseteq w.contacts
    BY <1>2, <1>3, <1>4 DEF Heard
  <2> QED BY <1>3, <1>4, <2>1, <2>2, ConnectedIsRight
<1>6. FormInv(Connected(q, UrlOf(q)))
  BY <1>2, <1>4, ConnectedIsRight DEF Heard
<1> QED BY <1>1, <1>5, <1>6, OneFormMoves

LEMMA SentKeepsForms ==
    ASSUME FormsInv, NEW f \in Form, Sent(f)
    PROVE  FormsInv'
BY NoFormIsRight, OneFormMoves DEF Sent

LEMMA FormsUnchanged ==
    ASSUME FormsInv, UNCHANGED <<allowed, form>>
    PROVE  FormsInv'
BY DEF FormsInv, FormInv, MaySend, Trying, Heard, Confirmed, panelHostAllowed, Survives

-----------------------------------------------------------------------------
(* The clock.  Time that passes takes as much of what a client was told to *)
(* wait as of its bucket.                                                  *)
LEMMA ClockKeepsBuckets ==
    ASSUME BucketsInv, Tick \/ ClockSetBack
    PROVE  BucketsInv'
<1>1. /\ buckets \in Seq(Bucket) /\ OneEach(buckets) /\ EndsWithin(buckets, told)
      /\ Len(buckets) <= MaxClients /\ told \in [Client -> Nat \cup {-1}]
  BY DEF BucketsInv
<1>2. /\ Len(buckets) \in Nat /\ DOMAIN buckets = 1..Len(buckets)
      /\ \A i \in DOMAIN buckets : buckets[i] \in Bucket
  BY <1>1, LenProperties, ElementOfSeq
<1>3. /\ DOMAIN buckets' = DOMAIN buckets
      /\ \A i \in DOMAIN buckets :
             buckets'[i] \in Bucket /\ buckets'[i].client = buckets[i].client
      /\ \/ told' = [c \in Client |-> -1]
         \/ /\ told' = [c \in Client |-> IF told[c] > 0 THEN told[c] - 1 ELSE told[c]]
            /\ \A i \in DOMAIN buckets :
                   buckets'[i].left = IF buckets[i].left > -Window
                                      THEN buckets[i].left - 1 ELSE buckets[i].left
  <2> DEFINE lower(x) == IF x > -Window THEN x - 1 ELSE x
  <2>1. \A x \in -Window..(Window + 1) : lower(x) \in -Window..(Window + 1)
    BY Constants
  <2>2. CASE Tick
    <3>1. buckets' = [i \in DOMAIN buckets |->
                         [buckets[i] EXCEPT !.left = lower(buckets[i].left)]]
      BY <2>2 DEF Tick
    <3> HIDE DEF lower
    <3>2. ASSUME NEW i \in DOMAIN buckets
          PROVE  /\ buckets'[i] \in Bucket /\ buckets'[i].client = buckets[i].client
                 /\ buckets'[i].left = lower(buckets[i].left)
      <4>1. buckets[i] \in Bucket /\ buckets'[i] = [buckets[i] EXCEPT !.left = lower(buckets[i].left)]
        BY <3>1, <1>2
      <4>2. lower(buckets[i].left) \in -Window..(Window + 1)
        BY <4>1, <2>1 DEF Bucket
      <4> QED BY <4>1, <4>2 DEF Bucket
    <3>3. told' = [c \in Client |-> IF told[c] > 0 THEN told[c] - 1 ELSE told[c]]
      BY <2>2 DEF Tick
    <3> QED BY <3>1, <3>2, <3>3 DEF lower
  <2>3. CASE ClockSetBack
    <3>1. /\ \A i \in DOMAIN buckets : buckets[i].left <= Window
          /\ buckets' = [i \in DOMAIN buckets |-> [buckets[i] EXCEPT !.left = @ + 1]]
          /\ told' = [c \in Client |-> -1]
      BY <2>3 DEF ClockSetBack
    <3>2. ASSUME NEW i \in DOMAIN buckets
          PROVE  buckets'[i] \in Bucket /\ buckets'[i].client = buckets[i].client
      <4>1. buckets[i] \in Bucket /\ buckets'[i] = [buckets[i] EXCEPT !.left = @ + 1]
        BY <3>1, <1>2
      <4>2. buckets[i].left + 1 \in -Window..(Window + 1)
        BY <4>1, <3>1, Constants DEF Bucket
      <4> QED BY <4>1, <4>2 DEF Bucket
    <3> QED BY <3>1, <3>2
  <2> QED BY <2>2, <2>3
<1>4. buckets' \in Seq(Bucket) /\ Len(buckets') = Len(buckets)
  <2>1. buckets' = [i \in DOMAIN buckets |-> buckets'[i]]
    BY DEF Tick, ClockSetBack
  <2>2. buckets' \in [DOMAIN buckets -> Bucket]
    BY <2>1, <1>3
  <2> QED BY <2>2, <1>1, SameDomain
<1>5. OneEach(buckets')
  BY <1>1, <1>3 DEF OneEach
<1>6. told' \in [Client -> Nat \cup {-1}] /\ EndsWithin(buckets', told')
  <2>1. CASE told' = [c \in Client |-> -1]
    BY <2>1, <1>2, <1>3 DEF EndsWithin, Bucket
  <2>2. CASE /\ told' = [c \in Client |-> IF told[c] > 0 THEN told[c] - 1 ELSE told[c]]
             /\ \A i \in DOMAIN buckets :
                    buckets'[i].left = IF buckets[i].left > -Window
                                       THEN buckets[i].left - 1 ELSE buckets[i].left
    <3>1. told' \in [Client -> Nat \cup {-1}]
      BY <2>2, <1>1
    <3>2. ASSUME NEW i \in DOMAIN buckets, told'[buckets[i].client] >= 0
          PROVE  buckets'[i].left <= told'[buckets[i].client]
      <4>1. buckets[i].client \in Client /\ buckets[i].left \in -Window..(Window + 1)
        BY <1>2 DEF Bucket
      <4>2. told[buckets[i].client] \in Nat /\ buckets[i].left <= told[buckets[i].client]
        BY <4>1, <2>2, <3>2, <1>1 DEF EndsWithin
      <4> QED BY <4>1, <4>2, <2>2, Constants
    <3> QED BY <3>1, <3>2, <1>3 DEF EndsWithin
  <2> QED BY <2>1, <2>2, <1>3
<1> QED BY <1>1, <1>4, <1>5, <1>6 DEF BucketsInv

-----------------------------------------------------------------------------
LEMMA InitIInv == Init => IInv
<1> SUFFICES ASSUME Init PROVE IInv
  OBVIOUS
<1>1. buckets \in Seq(Bucket) /\ Len(buckets) = 0 /\ DOMAIN buckets = {}
  BY EmptySeq, LenProperties DEF Init
<1>2. BucketsInv
  BY <1>1, Constants DEF Init, BucketsInv, OneEach, EndsWithin
<1>3. FormsInv
  BY NoFormIsRight DEF Init, FormsInv, FormInv
<1> QED BY <1>2, <1>3 DEF IInv

LEMMA NextKeepsIInv == IInv /\ [Next]_vars => IInv'
<1> SUFFICES ASSUME BucketsInv, FormsInv, [Next]_vars PROVE BucketsInv' /\ FormsInv'
  BY DEF IInv
<1>1. ASSUME NEW f \in Form, NEW c \in Client, Post(f, c)
      PROVE  BucketsInv' /\ FormsInv'
  <2>1. /\ buckets' = RateLimit(c).buckets
        /\ told' = [told EXCEPT ![c] = RateLimit(c).wait]
    BY <1>1 DEF Post
  <2>2. BucketsInv'
    BY <2>1, LimiterKeepsBuckets DEF BucketsInv
  <2>3. FormsInv'
    BY <1>1, LimiterKeepsBuckets, PostKeepsForms
  <2> QED BY <2>2, <2>3
<1>2. ASSUME NEW f \in Form,
             \/ Responds(f) \/ TurnedDown(f) \/ Accepted(f) \/ Fails(f)
             \/ Works(f) \/ WorksNot(f) \/ Sent(f)
      PROVE  BucketsInv' /\ FormsInv'
  <2>1. FormsInv'
    BY <1>2, RespondsKeepsForms, TurnedDownKeepsForms, AcceptedKeepsForms,
       FailsKeepsForms, ConfirmKeepsForms, SentKeepsForms
  <2>2. UNCHANGED <<buckets, told>>
    BY <1>2 DEF Responds, TurnedDown, Accepted, Fails, Works, WorksNot, Sent
  <2> QED BY <2>1, <2>2 DEF BucketsInv
<1>3. CASE Tick \/ ClockSetBack
  BY <1>3, ClockKeepsBuckets, FormsUnchanged DEF Tick, ClockSetBack
<1>4. CASE UNCHANGED vars
  BY <1>4, FormsUnchanged DEF vars, BucketsInv
<1> QED BY <1>1, <1>2, <1>3, <1>4 DEF Next

(* Each form has the state its stage says, and each client one bucket.     *)
THEOREM Inductive == Spec => []IInv
BY InitIInv, NextKeepsIInv, PTL DEF Spec

(* Every client has one bucket, and the map never more than its bound      *)
(* (CONFIGURE_RATE_MAX_CLIENTS); no response is heard from, and no         *)
(* credentials taken by, a URL that was not contacted.                     *)
THEOREM TypeCorrect == Spec => []TypeOK
<1>1. IInv => TypeOK
  <2> SUFFICES ASSUME BucketsInv, FormsInv PROVE TypeOK
    BY DEF IInv
  <2>1. ASSUME NEW i \in DOMAIN buckets
        PROVE  /\ buckets[i].count \in 1..(Limit + 1)
               /\ buckets[i].left \in -Window..(Window + 1)
               /\ \A j \in DOMAIN buckets \ {i} : buckets[j].client # buckets[i].client
    <3>1. buckets[i] \in Bucket
      BY ElementOfSeq, LenProperties DEF BucketsInv
    <3>2. \A j \in DOMAIN buckets \ {i} : buckets[j].client # buckets[i].client
      BY DEF BucketsInv, OneEach
    <3> QED BY <3>1, <3>2 DEF Bucket
  <2>2. \A f \in Form : /\ {form[f].url, form[f].named} \subseteq Url \cup {None}
                        /\ form[f].worked \subseteq form[f].contacts
                        /\ form[f].heard \subseteq form[f].contacts
    BY TriedForm DEF FormType
  <2> QED BY <2>1, <2>2 DEF TypeOK, BucketsInv, FormsInv
<1> QED BY <1>1, Inductive, PTL

(* The password goes to no unlisted host, never over http for who typed    *)
(* https, and for who typed nothing over http only after https was tried,  *)
(* whether it worked there or not (validateXtremioCredentials,             *)
(* credentialsWorkAt).                                                     *)
THEOREM PasswordGoesRight == Spec => []PasswordGoesWhereItMay
<1>1. IInv => PasswordGoesWhereItMay
  <2> SUFFICES ASSUME FormsInv, NEW f \in Form, NEW url \in form[f].contacts
               PROVE  /\ panelHostAllowed(url.host)
                      /\ url.scheme = "http" =>
                             /\ form[f].typed # "https"
                             /\ form[f].typed = "none" =>
                                    [scheme |-> "https", host |-> form[f].host]
                                        \in form[f].contacts
    BY DEF IInv, PasswordGoesWhereItMay
  <2>1. url \in Url /\ MaySend(form[f])
    BY TriedForm DEF FormType
  <2> QED BY <2>1 DEF MaySend
<1> QED BY <1>1, Inductive, PTL

(* The install link names a URL where the credentials were taken, and what *)
(* the page says of the panel is what was heard from it.                   *)
THEOREM AnswersAreConfirmed == Spec => []AnswerIsConfirmed
<1>1. IInv => AnswerIsConfirmed
  BY DEF IInv, FormsInv, FormInv, Confirmed, AnswerIsConfirmed
<1> QED BY <1>1, Inductive, PTL

-----------------------------------------------------------------------------
(* What one call of the limiter does to the windows.  The live ones are    *)
(* where the sweep stops or behind it: what it leaves holds them all.      *)
LEMMA SweptKeepsWindows ==
    ASSUME BucketsInv
    PROVE  /\ \A b \in Members(buckets) : b.left > 0 => b \in Members(Swept)
           /\ Members(Swept) \subseteq Members(buckets)
           /\ OneEach(Swept)
           /\ Len(Swept) = MaxClients => Swept = buckets /\ Len(buckets) = MaxClients
<1> DEFINE live == {i \in DOMAIN buckets : buckets[i].left > 0}
<1>1. buckets \in Seq(Bucket) /\ Len(buckets) <= MaxClients /\ Len(buckets) \in Nat
  BY LenProperties DEF BucketsInv
<1>2. live \in SUBSET (DOMAIN buckets) /\ Swept = From(buckets, live)
  BY DEF Swept
<1>3. \A b \in Members(buckets) : b.left > 0 => \E i \in live : b = buckets[i]
  BY DEF Members
<1> HIDE DEF live
<1>4. /\ \A i \in live : buckets[i] \in Members(Swept)
      /\ Len(Swept) = Len(buckets) => Swept = buckets
  BY <1>1, <1>2, FromKeeps
<1>5. /\ Swept \in Seq(Bucket) /\ Len(Swept) \in Nat
      /\ Len(Swept) <= Len(buckets) /\ LeftOf(Swept, buckets)
  BY <1>1, SweptIsLeft, LenProperties
<1>6. Members(Swept) \subseteq Members(buckets)
  BY <1>5, LeftOfMembers
<1>7. OneEach(Swept)
  BY <1>1, <1>5, LeftKeepsBuckets DEF BucketsInv
<1>8. Len(Swept) = MaxClients => Len(Swept) = Len(buckets)
  BY <1>1, <1>5, Constants
<1> QED BY <1>3, <1>4, <1>6, <1>7, <1>8

(* The entries of a map of one bucket a client are told by their client.   *)
LEMMA OneBucket ==
    ASSUME NEW s, OneEach(s), NEW a \in Members(s), NEW b \in Members(s),
           a.client = b.client
    PROVE  a = b
BY DEF OneEach, Members

(* Of the live windows of others, the oldest makes room, and that only if  *)
(* the map is full and the client is not in it.                            *)
LEMMA RoomKeepsWindows ==
    ASSUME BucketsInv, NEW rest, rest \in SUBSET (DOMAIN Swept), NEW j \in rest
    PROVE  LET kept == Kept(Swept, rest)
           IN  \/ Swept[j] \in Members(Room(kept))
               \/ /\ Swept[j] = Head(buckets) /\ Len(buckets) = MaxClients
                  /\ rest = DOMAIN buckets /\ Swept = buckets
<1> DEFINE kept == Kept(Swept, rest)
           n == MaxClients - 1
<1>1. /\ Swept \in Seq(Bucket) /\ Len(Swept) \in Nat /\ DOMAIN Swept = 1..Len(Swept)
      /\ Len(Swept) <= MaxClients /\ buckets \in Seq(Bucket)
  <2>1. buckets \in Seq(Bucket) /\ Len(buckets) <= MaxClients /\ Len(buckets) \in Nat
    BY LenProperties DEF BucketsInv
  <2>2. Swept \in Seq(Bucket) /\ Len(Swept) <= Len(buckets)
    BY <2>1, SweptIsLeft
  <2>3. Len(Swept) \in Nat /\ DOMAIN Swept = 1..Len(Swept)
    BY <2>2, LenProperties
  <2> QED BY <2>1, <2>2, <2>3, Constants
<1>2. n \in Nat /\ n = MaxClients - 1 /\ Room(kept) = Newest(kept, n)
  BY Constants DEF Room
<1>3. /\ kept \in Seq(Bucket) /\ Len(kept) = Cardinality(rest)
      /\ Cardinality(rest) \in 0..Len(Swept)
      /\ Rank(rest, j) \in DOMAIN kept /\ kept[Rank(rest, j)] = Swept[j]
  BY <1>1, KeptLeaves
<1>4. rest = DOMAIN Swept => kept = Swept
  BY <1>1, KeptAll
<1> HIDE DEF kept, n
<1>5. Len(kept) \in Nat /\ DOMAIN kept = 1..Len(kept)
  BY <1>3, LenProperties
<1>6. \A k \in DOMAIN kept : k > Len(kept) - n => kept[k] \in Members(Room(kept))
  BY <1>2, <1>3, NewestLeaves
<1>7. CASE Rank(rest, j) > Len(kept) - n
  BY <1>3, <1>6, <1>7 DEF kept
<1>8. CASE ~(Rank(rest, j) > Len(kept) - n)
  <2>1. Rank(rest, j) \in Nat /\ 1 <= Rank(rest, j) /\ Len(kept) <= Len(Swept)
    BY <1>1, <1>3, <1>5
  <2>2. Len(kept) = MaxClients /\ Rank(rest, j) = 1 /\ Len(Swept) = MaxClients
    <3>1. /\ MaxClients \in Nat /\ n = MaxClients - 1
          /\ Len(kept) \in Nat /\ Len(Swept) \in Nat /\ Len(Swept) <= MaxClients
      BY <1>1, <1>2, <1>5, Constants
    <3> QED BY ONLY <3>1, <2>1, <1>8
  <2>3. rest = DOMAIN Swept
    BY <1>1, <1>3, <2>2, KeptParts
  <2>4. kept = Swept /\ Swept = buckets /\ Len(buckets) = MaxClients
    BY <1>4, <2>2, <2>3, SweptKeepsWindows
  <2>5. Swept[j] = buckets[1]
    BY <1>3, <2>2, <2>4
  <2>6. Head(buckets) = buckets[1]
    BY <1>1, <2>2, <2>4, Constants, EmptySeq, HeadTailProperties
  <2> QED BY <2>3, <2>4, <2>5, <2>6
<1> QED BY <1>7, <1>8

(* The limiter's part of LimitStep.  A live window is counted on, or makes *)
(* room; a client let through is the next of its window, or the first of a *)
(* new one; and one that is refused has a window that let Limit through.   *)
OneMore(map, c, a) ==
    /\ a \in Members(map) /\ a.client = c /\ a.left > 0 /\ a.count <= Limit
    /\ WindowsOf(c) = {} => a.count = 1
    /\ \A b \in WindowsOf(c) : a.count = b.count + 1

Stays(map, b) ==
    \/ \E a \in Members(map) : a.client = b.client /\ a.count >= b.count /\ a.left = b.left
    \/ /\ b = Head(buckets) /\ Len(buckets) = MaxClients
       /\ Clients(map) \ Clients(buckets) # {}

LEMMA LimiterCounts ==
    ASSUME BucketsInv, NEW c \in Client
    PROVE  LET limited == RateLimit(c)
           IN  /\ \A b \in Members(buckets) : b.left > 0 => Stays(limited.buckets, b)
               /\ ~limited.refused => \E a : OneMore(limited.buckets, c, a)
               /\ limited.refused => \E b \in WindowsOf(c) : b.count >= Limit
<1> DEFINE mine == {k \in DOMAIN Swept : Swept[k].client = c}
           i == CHOOSE k \in mine : TRUE
           rest == DOMAIN Swept \ mine
           kept == Kept(Swept, rest)
           count == IF Swept[i].count > Limit THEN Swept[i].count
                    ELSE Swept[i].count + 1
           fresh == [client |-> c, count |-> 1, left |-> Window]
<1>1. /\ Swept \in Seq(Bucket) /\ DOMAIN Swept = 1..Len(Swept)
      /\ OneEach(Swept) /\ OneEach(buckets)
  BY SweptIsLeft, SweptKeepsWindows, LenProperties DEF BucketsInv
<1>2. /\ Members(Swept) \subseteq Members(buckets)
      /\ \A b \in Members(buckets) : b.left > 0 => \E k \in DOMAIN Swept : b = Swept[k]
  BY SweptKeepsWindows DEF Members
<1>3. mine # {} => i \in DOMAIN Swept /\ Swept[i].client = c /\ Swept[i] \in Bucket
  BY <1>1, ElementOfSeq
<1>4. \A k \in DOMAIN Swept : Swept[k].client = c => mine # {} /\ k = i
  BY <1>1, <1>3 DEF OneEach
<1>5. RateLimit(c) =
          IF mine = {} \/ Expired(Swept[i])
          THEN [buckets |-> Append(Room(kept), fresh), refused |-> FALSE, wait |-> -1]
          ELSE [buckets |-> [Swept EXCEPT ![i].count = count],
                refused |-> count > Limit,
                wait |-> IF count > Limit THEN RetryAfter(Swept[i].left) * Second ELSE -1]
  BY DEF RateLimit
<1>6. rest \in SUBSET (DOMAIN Swept) /\ \A k \in DOMAIN Swept : Swept[k].client # c => k \in rest
  OBVIOUS
<1>7. fresh \in Bucket /\ fresh.client = c /\ fresh.count = 1 /\ fresh.left = Window
  BY Constants DEF Bucket
<1>8. rest = DOMAIN Swept => mine = {}
  OBVIOUS
<1>9. kept \in Seq(Bucket)
  BY <1>1, KeptLeaves
<1>12. \A k \in DOMAIN Swept : Swept[k].left \in Int /\ Swept[k].count >= Swept[k].count
  <2> SUFFICES ASSUME NEW k \in DOMAIN Swept
               PROVE  Swept[k].left \in Int /\ Swept[k].count >= Swept[k].count
    OBVIOUS
  <2>1. Swept[k] \in Bucket
    BY <1>1, ElementOfSeq
  <2> QED BY <2>1, Constants DEF Bucket
<1> HIDE DEF mine, i, rest, fresh, count
<1>10. CASE mine = {} \/ Expired(Swept[i])
  <2> DEFINE left == Room(kept)
             new == Append(left, fresh)
  <2>1. RateLimit(c) = [buckets |-> new, refused |-> FALSE, wait |-> -1]
    BY <1>5, <1>10
  <2>2. left \in Seq(Bucket)
    BY <1>9, RoomIsLeft
  <2>3. Members(left) \subseteq Members(new) /\ fresh \in Members(new)
    <3> HIDE DEF left
    <3>1. /\ new \in Seq(Bucket) /\ Len(new) = Len(left) + 1
          /\ \A k \in 1..Len(left) : new[k] = left[k]
          /\ new[Len(left) + 1] = fresh
      BY <1>7, <2>2, AppendProperties
    <3> HIDE DEF new
    <3>2. /\ Len(left) \in Nat /\ DOMAIN left = 1..Len(left)
          /\ DOMAIN new = 1..(Len(left) + 1)
      BY <2>2, <3>1, LenProperties
    <3> QED BY <3>1, <3>2 DEF Members
  <2> HIDE DEF new
  <2>4. \A k \in DOMAIN Swept : Swept[k].left > 0 => Swept[k].client # c
    BY <1>4, <1>10, <1>12 DEF Expired
  <2>5. ASSUME NEW b \in Members(buckets), b.left > 0
        PROVE  b.client # c /\ Stays(new, b)
    <3>1. PICK k \in DOMAIN Swept : b = Swept[k]
      BY <1>2, <2>5
    <3>2. k \in rest /\ b.client # c
      BY <3>1, <2>4, <2>5, <1>6
    <3>3. CASE b \in Members(left)
      <4>1. b \in Members(new) /\ b.count >= b.count
        BY <2>3, <3>1, <3>3, <1>12
      <4> QED BY <4>1, <3>2 DEF Stays
    <3>4. CASE /\ b = Head(buckets) /\ Len(buckets) = MaxClients
               /\ rest = DOMAIN buckets /\ Swept = buckets
      <4>1. c \notin Clients(buckets)
        BY <3>4, <1>4, <1>8 DEF Clients, Members
      <4>2. c \in Clients(new)
        BY <1>7, <2>3 DEF Clients
      <4> QED BY <4>1, <4>2, <3>2, <3>4 DEF Stays
    <3>5. \/ Swept[k] \in Members(Room(Kept(Swept, rest)))
          \/ /\ Swept[k] = Head(buckets) /\ Len(buckets) = MaxClients
             /\ rest = DOMAIN buckets /\ Swept = buckets
      BY <3>2, <1>6, RoomKeepsWindows
    <3> QED BY <3>1, <3>3, <3>4, <3>5 DEF kept
  <2>6. WindowsOf(c) = {}
    BY <2>5 DEF WindowsOf
  <2>7. OneMore(new, c, fresh)
    BY <1>7, <2>3, <2>6, Constants DEF OneMore
  <2> QED BY <2>1, <2>5, <2>7
<1>11. CASE ~(mine = {} \/ Expired(Swept[i]))
  <2> DEFINE new == [Swept EXCEPT ![i].count = count]
             one == [Swept[i] EXCEPT !.count = count]
  <2>1. /\ i \in 1..Len(Swept) /\ Swept[i].client = c /\ Swept[i] \in Bucket
        /\ Swept[i].left > 0 /\ Swept[i].count \in 1..(Limit + 1)
    BY <1>11, <1>1, <1>3, Constants DEF Expired, Bucket
  <2>2. /\ count \in 1..(Limit + 1) /\ count >= Swept[i].count
        /\ count <= Limit => count = Swept[i].count + 1
        /\ count > Limit => Swept[i].count >= Limit
    BY <2>1, Constants DEF count
  <2>3. /\ one \in Bucket /\ one.client = c /\ one.count = count
        /\ one.left = Swept[i].left
    BY <2>1, <2>2 DEF Bucket
  <2>4. /\ new \in Seq(Bucket) /\ Len(new) = Len(Swept)
        /\ \A k \in 1..Len(Swept) : new[k] = IF k = i THEN one ELSE Swept[k]
    BY <1>1, <2>1, <2>3, ExceptSeq
  <2>5. RateLimit(c) =
            [buckets |-> new, refused |-> count > Limit,
             wait |-> IF count > Limit THEN RetryAfter(Swept[i].left) * Second ELSE -1]
    BY <1>5, <1>11
  <2> HIDE DEF new, one
  <2>6. DOMAIN new = 1..Len(Swept)
    BY <2>4, LenProperties
  <2>7. \A k \in DOMAIN Swept : (IF k = i THEN one ELSE Swept[k]) \in Members(new)
    BY <1>1, <2>4, <2>6 DEF Members
  <2>8. ASSUME NEW b \in Members(buckets), b.left > 0 PROVE Stays(new, b)
    <3>1. PICK k \in DOMAIN Swept : b = Swept[k]
      BY <1>2, <2>8
    <3>2. CASE k = i
      <4>1. one \in Members(new)
        BY <2>7, <3>2
      <4>2. one.client = b.client /\ one.count >= b.count /\ one.left = b.left
        BY <2>1, <2>2, <2>3, <3>1, <3>2
      <4> QED BY <4>1, <4>2 DEF Stays
    <3>3. CASE k # i
      <4>1. b \in Members(new) /\ b.count >= b.count
        BY <2>7, <3>1, <3>3, <1>12
      <4> QED BY <4>1 DEF Stays
    <3> QED BY <3>2, <3>3
  <2>9. WindowsOf(c) = {Swept[i]}
    <3>1. Swept[i] \in Members(Swept)
      BY <2>1, <1>1 DEF Members
    <3>2. Swept[i] \in WindowsOf(c)
      BY <3>1, <2>1, <1>2 DEF WindowsOf
    <3>3. \A b \in WindowsOf(c) : b = Swept[i]
      BY <3>2, <1>1, OneBucket DEF WindowsOf
    <3> QED BY <3>2, <3>3
  <2>10. ~(count > Limit) => OneMore(new, c, one)
    <3>1. one \in Members(new)
      BY <2>1, <2>7, <1>1
    <3>2. ~(count > Limit) => count <= Limit
      BY <2>2, Constants
    <3> QED BY <2>1, <2>2, <2>3, <2>9, <3>1, <3>2 DEF OneMore
  <2>11. count > Limit => \E b \in WindowsOf(c) : b.count >= Limit
    BY <2>2, <2>9
  <2>12. RateLimit(c).buckets = new /\ RateLimit(c).refused = (count > Limit)
    BY <2>5
  <2> QED BY <2>8, <2>10, <2>11, <2>12
<1> QED BY <1>10, <1>11

(* Time takes the same from every window.                                  *)
LEMMA TimeCountsOn ==
    ASSUME BucketsInv, Tick \/ ClockSetBack, NEW b \in Members(buckets)
    PROVE  CountedOn(b)
<1>1. PICK i \in DOMAIN buckets : b = buckets[i]
  BY DEF Members
<1>2. b.left \in Int /\ b.count \in Int /\ b \in Bucket
  <2>1. b \in Bucket
    BY <1>1, ElementOfSeq, LenProperties DEF BucketsInv
  <2> QED BY <2>1, Constants DEF Bucket
<1>3. \E left \in Int : left >= b.left - 1 /\ buckets'[i] = [b EXCEPT !.left = left]
  <2>1. CASE Tick
    <3>1. buckets'[i] = [b EXCEPT !.left = IF @ > -Window THEN @ - 1 ELSE @]
      BY <1>1, <2>1 DEF Tick
    <3>2. (IF b.left > -Window THEN b.left - 1 ELSE b.left) \in {b.left - 1, b.left}
      OBVIOUS
    <3> QED BY <1>2, <3>1, <3>2
  <2>2. CASE ClockSetBack
    <3>1. buckets'[i] = [b EXCEPT !.left = @ + 1]
      BY <1>1, <2>2 DEF ClockSetBack
    <3> QED BY <1>2, <3>1
  <2> QED BY <2>1, <2>2
<1>4. i \in DOMAIN buckets'
  BY DEF Tick, ClockSetBack
<1>5. buckets'[i] \in Members(buckets')
  BY <1>4 DEF Members
<1>6. buckets'[i].client = b.client /\ buckets'[i].count = b.count
      /\ buckets'[i].left >= b.left - 1
  BY <1>2, <1>3 DEF Bucket
<1> QED BY <1>2, <1>5, <1>6 DEF CountedOn

(* A window is counted on until it is over, or is the one that made room.  *)
LEMMA WindowsAreCounted ==
    ASSUME BucketsInv, Next, NEW b \in Members(buckets), b.left > 0
    PROVE  CountedOn(b) \/ RoomIsTaken(b)
<1>1. b.left \in Int /\ b.count \in Int
  <2>1. b \in Bucket
    BY ElementOfSeq, LenProperties DEF BucketsInv, Members
  <2> QED BY <2>1, Constants DEF Bucket
<1>2. ASSUME buckets' = buckets PROVE CountedOn(b)
  BY <1>1, <1>2 DEF CountedOn
<1>3. ASSUME NEW f \in Form, NEW c \in Client, Post(f, c)
      PROVE  CountedOn(b) \/ RoomIsTaken(b)
  <2>1. Stays(RateLimit(c).buckets, b) /\ buckets' = RateLimit(c).buckets
    BY <1>3, LimiterCounts DEF Post
  <2> HIDE DEF RateLimit
  <2> QED BY <2>1, <1>1 DEF Stays, CountedOn, RoomIsTaken
<1>4. ASSUME NEW f \in Form,
             \/ Responds(f) \/ TurnedDown(f) \/ Accepted(f) \/ Fails(f)
             \/ Works(f) \/ WorksNot(f) \/ Sent(f)
      PROVE  CountedOn(b)
  BY <1>2, <1>4 DEF Responds, TurnedDown, Accepted, Fails, Works, WorksNot, Sent
<1> QED BY <1>3, <1>4, TimeCountsOn DEF Next

(* A form only arrives by Post, and its client is kept where it is refused.*)
LEMMA FormsArrive ==
    ASSUME BucketsInv, FormsInv, Next, NEW f \in Form, form[f].stage = "idle",
           form'[f] # form[f]
    PROVE  \E c \in Client :
               /\ buckets' = RateLimit(c).buckets
               /\ form'[f].by = IF RateLimit(c).refused THEN c ELSE None
               /\ told[c] = 0 => ~RateLimit(c).refused
<1>1. form \in [Form -> FormType]
  BY DEF FormsInv
<1>2. ASSUME NEW g \in Form, NEW d \in Client, Post(g, d), g # f
      PROVE  form'[f] = form[f]
  BY <1>2, <1>1 DEF Post
<1>3. ASSUME NEW g \in Form,
             \/ Responds(g) \/ TurnedDown(g) \/ Accepted(g) \/ Fails(g)
             \/ Works(g) \/ WorksNot(g) \/ Sent(g)
      PROVE  form'[f] = form[f]
  BY <1>3, <1>1 DEF Responds, TurnedDown, Accepted, Fails, Works, WorksNot, Sent
<1>4. ASSUME Tick \/ ClockSetBack PROVE form'[f] = form[f]
  BY <1>4 DEF Tick, ClockSetBack
<1>5. PICK c \in Client : Post(f, c)
  BY <1>2, <1>3, <1>4 DEF Next
<1>6. PICK typed \in Typed, host \in Host \cup {None}, complete \in BOOLEAN :
          LET q == [NoForm EXCEPT !.typed = typed, !.host = host]
          IN  form' = [form EXCEPT ![f] =
                  CASE RateLimit(c).refused -> Answer([NoForm EXCEPT !.by = c], "too many")
                    [] ~RateLimit(c).refused /\ ~complete -> Answer(NoForm, "incomplete")
                    [] ~RateLimit(c).refused /\ complete /\ ~panelHostAllowed(host) ->
                          Answer(NoForm, "unlisted")
                    [] /\ ~RateLimit(c).refused /\ complete
                       /\ panelHostAllowed(host) /\ host = None ->
                          Answer(NoForm, "no URL")
                    [] OTHER -> Attempt(q, 1)]
  BY <1>5 DEF Post
<1>7. \A result : Answer(NoForm, result).by = None
  BY DEF Answer, NoForm
<1>8. Answer([NoForm EXCEPT !.by = c], "too many").by = c
  BY DEF Answer, NoForm
<1>9. Attempt([NoForm EXCEPT !.typed = typed, !.host = host], 1).by = None
  BY DEF Attempt, NoForm
<1>10. RateLimit(c).refused \in BOOLEAN /\ (told[c] = 0 => ~RateLimit(c).refused)
  BY LimiterKeepsBuckets
<1>11. form'[f].by = IF RateLimit(c).refused THEN c ELSE None
  BY <1>1, <1>6, <1>7, <1>8, <1>9, <1>10
<1> QED BY <1>5, <1>10, <1>11 DEF Post

(* The limit holds, to the form and no further: a window lets its first    *)
(* Limit through and is not forgotten while it is live, but by the oldest  *)
(* making room, and a client that has waited as it was told is not refused *)
(* again (rateLimitConfigure, Retry-After).                                *)
THEOREM LimitIsHeld == Spec => LimitHolds
<1>1. IInv /\ [Next]_vars => [LimitStep]_vars
  <2> SUFFICES ASSUME BucketsInv, FormsInv, Next
               PROVE  LimitStep
    BY DEF IInv
  <2>1. ASSUME NEW f \in Form, form[f].stage = "idle"
        PROVE  form[f].by = None /\ None \notin Client
    BY <2>1, Constants DEF FormsInv, FormInv, NoForm
  <2>2. ASSUME NEW f \in Form, LetThrough(f) PROVE Counted
    <3>1. form[f].stage = "idle" /\ form'[f] # form[f] /\ form'[f].by = None
      BY <2>2 DEF LetThrough
    <3>2. PICK c \in Client : /\ buckets' = RateLimit(c).buckets /\ ~RateLimit(c).refused
      BY <3>1, <2>1, FormsArrive
    <3>3. PICK a : OneMore(buckets', c, a)
      BY <3>2, LimiterCounts
    <3> QED BY <3>3 DEF OneMore, Counted
  <2>3. ASSUME NEW f \in Form, NEW c \in Client, Refused(f, c)
        PROVE  told[c] # 0 /\ \E b \in WindowsOf(c) : b.count >= Limit
    <3>1. form[f].stage = "idle" /\ form'[f].by = c /\ form'[f] # form[f] /\ c # None
      BY <2>3, <2>1 DEF Refused
    <3>2. RateLimit(c).refused /\ told[c] # 0
      BY <3>1, FormsArrive
    <3> QED BY <3>2, LimiterCounts
  <2> QED BY <2>2, <2>3, WindowsAreCounted DEF LimitStep
<1> QED BY <1>1, Inductive, PTL DEF Spec, LimitHolds
=============================================================================

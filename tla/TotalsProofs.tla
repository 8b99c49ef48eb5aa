---------------------------- MODULE TotalsProofs ----------------------------
(***************************************************************************)
(* Proofs about the totals that the process keeps by hand, which must be   *)
(* the cardinalities of what they count: relays, for an account, a client  *)
(* and the server (RelaySlots, and Shutdown, which puts it into the life   *)
(* of the process), and the bytes that the caches hold, for a map and the  *)
(* ledger (CacheBudget).  For every set of responses, accounts and         *)
(* clients, finite or not, and every setting of the limits; for any maps,  *)
(* keys, weights and bounds.                                               *)
(***************************************************************************)
EXTENDS Shutdown, CacheBudget, FiniteSetTheorems, SequenceTheorems, TLAPS

-----------------------------------------------------------------------------
(* Part one: the counters of relays.                                       *)

(* What a counter map means, for the set S of relays and the key of each.  *)
KeyHolders(S, key, k) == {r \in S : key[r] = k}

Matches(map, S, key) ==
    /\ DOMAIN map = {key[r] : r \in S}
    /\ \A k \in DOMAIN map : map[k] = Cardinality(KeyHolders(S, key, k))

(* A key with an entry has a relay; a finite set of relays counts finitely.*)
LEMMA HoldersCount ==
    ASSUME NEW S, IsFiniteSet(S), NEW key, NEW k
    PROVE  /\ IsFiniteSet(KeyHolders(S, key, k))
           /\ Cardinality(KeyHolders(S, key, k)) \in Nat
           /\ Cardinality(KeyHolders(S, key, k)) <= Cardinality(S)
           /\ Cardinality(KeyHolders(S, key, k)) = 0
                  <=> k \notin {key[r] : r \in S}
<1>1. KeyHolders(S, key, k) \subseteq S
  BY DEF KeyHolders
<1>2. /\ IsFiniteSet(KeyHolders(S, key, k))
      /\ Cardinality(KeyHolders(S, key, k)) <= Cardinality(S)
  BY <1>1, FS_Subset
<1>3. Cardinality(KeyHolders(S, key, k)) \in Nat
  BY <1>2, FS_CardinalityType
<1>4. KeyHolders(S, key, k) = {} <=> k \notin {key[r] : r \in S}
  BY DEF KeyHolders
<1> QED BY <1>2, <1>3, <1>4, FS_EmptySet

(* In a map that matches, an absent key counts zero relays.                *)
LEMMA CountOfIsCardinality ==
    ASSUME NEW S, IsFiniteSet(S), NEW key, NEW k, NEW map, Matches(map, S, key)
    PROVE  CountOf(map, k) = Cardinality(KeyHolders(S, key, k))
<1>1. CASE k \in DOMAIN map
  BY <1>1 DEF CountOf, Matches
<1>2. CASE k \notin DOMAIN map
  BY <1>2, HoldersCount DEF CountOf, Matches
<1> QED BY <1>1, <1>2

(* Counting one more relay up keeps the map right (acquireProxySlot).      *)
LEMMA RaiseKeepsMatch ==
    ASSUME NEW S, IsFiniteSet(S), NEW r, r \notin S,
           NEW key, NEW newKey, NEW k, NEW map, Matches(map, S, key),
           \A x \in S : newKey[x] = key[x], newKey[r] = k
    PROVE  Matches(WithCount(map, k, CountOf(map, k) + 1), S \cup {r}, newKey)
<1> DEFINE new == WithCount(map, k, CountOf(map, k) + 1)
           T == S \cup {r}
<1>1. DOMAIN new = {newKey[x] : x \in T}
  BY DEF WithCount, Matches
<1>2. KeyHolders(T, newKey, k) = KeyHolders(S, key, k) \cup {r}
  BY DEF KeyHolders
<1>3. r \notin KeyHolders(S, key, k)
  BY DEF KeyHolders
<1>4. Cardinality(KeyHolders(T, newKey, k)) = CountOf(map, k) + 1
  <2>1. IsFiniteSet(KeyHolders(S, key, k))
    BY HoldersCount
  <2>2. Cardinality(KeyHolders(S, key, k) \cup {r})
            = Cardinality(KeyHolders(S, key, k)) + 1
    BY <2>1, <1>3, FS_AddElement
  <2>3. CountOf(map, k) = Cardinality(KeyHolders(S, key, k))
    BY CountOfIsCardinality
  <2> QED BY <2>2, <2>3, <1>2
<1>5. ASSUME NEW j \in DOMAIN new
      PROVE  new[j] = Cardinality(KeyHolders(T, newKey, j))
  <2>1. CASE j = k
    BY <2>1, <1>4, <1>5 DEF WithCount
  <2>2. CASE j # k
    <3>1. KeyHolders(T, newKey, j) = KeyHolders(S, key, j)
      BY <2>2 DEF KeyHolders
    <3>2. j \in DOMAIN map /\ new[j] = map[j]
      BY <2>2, <1>5 DEF WithCount
    <3> QED BY <3>1, <3>2 DEF Matches
  <2> QED BY <2>1, <2>2
<1> QED BY <1>1, <1>5 DEF Matches

(* Giving a relay's slot back keeps the map right (releaseCount): the      *)
(* entry is deleted exactly when that was the key's last relay.            *)
LEMMA ReleaseKeepsMatch ==
    ASSUME NEW S, IsFiniteSet(S), NEW r \in S,
           NEW key, NEW map, Matches(map, S, key)
    PROVE  Matches(releaseCount(map, key[r]), S \ {r}, key)
<1> DEFINE k == key[r]
           T == S \ {r}
           n == CountOf(map, k)
           new == releaseCount(map, k)
<1>1. KeyHolders(T, key, k) = KeyHolders(S, key, k) \ {r}
  BY DEF KeyHolders
<1>2. r \in KeyHolders(S, key, k) /\ k \in DOMAIN map
  BY DEF KeyHolders, Matches
<1>3. n = Cardinality(KeyHolders(S, key, k)) /\ n \in Nat /\ n # 0
  BY <1>2, CountOfIsCardinality, HoldersCount DEF Matches
<1>4. Cardinality(KeyHolders(T, key, k)) = n - 1
  BY <1>1, <1>2, <1>3, HoldersCount, FS_RemoveElement
<1>5. new = IF n - 1 > 0 THEN WithCount(map, k, n - 1) ELSE Without(map, k)
  BY <1>3 DEF releaseCount
<1>6. IsFiniteSet(T)
  BY FS_Subset
<1>7. \A j : j # k => KeyHolders(T, key, j) = KeyHolders(S, key, j)
  BY DEF KeyHolders
<1>8. \A j : j # k => (j \in {key[x] : x \in T} <=> j \in DOMAIN map)
  BY DEF Matches
<1>9. k \in {key[x] : x \in T} <=> n - 1 > 0
  <2>1. n - 1 = 0 <=> k \notin {key[x] : x \in T}
    BY <1>4, <1>6, HoldersCount
  <2> QED BY <2>1, <1>3
<1>10. CASE n - 1 > 0
  <2>1. new = WithCount(map, k, n - 1)
    BY <1>5, <1>10
  <2>2. DOMAIN new = {key[x] : x \in T}
    BY <2>1, <1>2, <1>8, <1>9, <1>10 DEF WithCount
  <2>3. \A j \in DOMAIN new : new[j] = Cardinality(KeyHolders(T, key, j))
    BY <2>1, <1>4, <1>7 DEF WithCount, Matches
  <2> QED BY <2>2, <2>3 DEF Matches
<1>11. CASE ~(n - 1 > 0)
  <2>1. new = Without(map, k)
    BY <1>5, <1>11
  <2>2. DOMAIN new = {key[x] : x \in T}
    BY <2>1, <1>8, <1>9, <1>11 DEF Without
  <2>3. \A j \in DOMAIN new : new[j] = Cardinality(KeyHolders(T, key, j))
    BY <2>1, <1>7 DEF Without, Matches
  <2> QED BY <2>2, <2>3 DEF Matches
<1> QED BY <1>10, <1>11
-----------------------------------------------------------------------------
(* The inductive invariant.  The counters match the relays; there are      *)
(* finitely many relays, without which no count means anything; and a      *)
(* response holds the listener that counts it out exactly when it was      *)
(* counted in.  CapsHold is then inductive as well.                        *)
CountedRight == \A r \in Request :
    counted[r] <=> phase[r] = "relaying" /\ ~AllDisabled

MapsMatch ==
    /\ limit.account # 0 => Matches(proxyInFlight, Relays, account)
    /\ limit.account = 0 => proxyInFlight = [a \in {} |-> 0]
    /\ limit.client # 0 => Matches(proxyInFlightByClient, Relays, client)
    /\ limit.client = 0 => proxyInFlightByClient = [c \in {} |-> 0]
    /\ total = IF limit.total = 0 THEN 0 ELSE Cardinality(Relays)

IInv == /\ TypeOK
        /\ IsFiniteSet(Relays)
        /\ CountedRight
        /\ MapsMatch
        /\ CapsHold

(* What a matching map says is CountsMatchRelays.                          *)
LEMMA MatchIsCount == IInv => CountsMatchRelays
BY DEF IInv, MapsMatch, Matches, KeyHolders, CountsMatchRelays, RelaysOf,
       RelaysFrom

(* CountOf, told from the relays.                                          *)
LEMMA CountsInIInv ==
    ASSUME IInv
    PROVE  /\ limit.account # 0 =>
                  \A a : CountOf(proxyInFlight, a) = Cardinality(RelaysOf(a))
           /\ limit.client # 0 =>
                  \A c : CountOf(proxyInFlightByClient, c) = Cardinality(RelaysFrom(c))
<1>1. \A a : RelaysOf(a) = KeyHolders(Relays, account, a)
  BY DEF RelaysOf, KeyHolders
<1>2. \A c : RelaysFrom(c) = KeyHolders(Relays, client, c)
  BY DEF RelaysFrom, KeyHolders
<1> QED BY <1>1, <1>2, CountOfIsCardinality DEF IInv, MapsMatch

LEMMA InitIInv == Init => IInv
<1> SUFFICES ASSUME Init PROVE IInv
  OBVIOUS
<1>1. TypeOK
  BY DEF Init, TypeOK, Phases
<1>2. Relays = {}
  BY DEF Init, Relays
<1>3. /\ IsFiniteSet(Relays) /\ Cardinality(Relays) = 0
      /\ \A a : RelaysOf(a) = {}
      /\ \A c : RelaysFrom(c) = {}
  BY <1>2, FS_EmptySet DEF RelaysOf, RelaysFrom
<1>4. CountedRight
  BY DEF Init, CountedRight
<1>5. MapsMatch
  BY <1>2, <1>3 DEF Init, MapsMatch, Matches
<1>6. CapsHold
  <2>1. limit.account \in Nat /\ limit.client \in Nat /\ limit.total \in Nat
    BY <1>1, LimitsAssumption DEF TypeOK
  <2> QED BY <2>1, <1>3, FS_EmptySet DEF CapsHold
<1> QED BY <1>1, <1>3, <1>4, <1>5, <1>6 DEF IInv

(* A step after which the relays are among those before it, each still of  *)
(* the same account and client, and the limits the same, keeps the caps.   *)
LEMMA FewerRelaysKeepCaps ==
    ASSUME IInv, limit' = limit, Relays' \subseteq Relays,
           \A r \in Relays' : account'[r] = account[r] /\ client'[r] = client[r]
    PROVE  IsFiniteSet(Relays') /\ CapsHold'
<1>1. /\ IsFiniteSet(Relays')
      /\ Cardinality(Relays') \in Nat /\ Cardinality(Relays) \in Nat
      /\ Cardinality(Relays') <= Cardinality(Relays)
  BY FS_Subset, FS_CardinalityType DEF IInv
<1>2. \A a : /\ RelaysOf(a)' \subseteq RelaysOf(a)
             /\ RelaysOf(a) \subseteq Relays
  BY DEF RelaysOf
<1>3. \A c : /\ RelaysFrom(c)' \subseteq RelaysFrom(c)
             /\ RelaysFrom(c) \subseteq Relays
  BY DEF RelaysFrom
<1>4. \A A, B : A \subseteq B /\ B \subseteq Relays =>
          /\ Cardinality(A) \in Nat /\ Cardinality(B) \in Nat
          /\ Cardinality(A) <= Cardinality(B)
  BY FS_Subset, FS_CardinalityType DEF IInv
<1>5. limit.account \in Nat /\ limit.client \in Nat /\ limit.total \in Nat
  BY LimitsAssumption DEF IInv, TypeOK
<1>6. ASSUME limit.account # 0, NEW a \in Account
      PROVE  Cardinality(RelaysOf(a)') <= limit.account
  <2>1. Cardinality(RelaysOf(a)) <= limit.account
    BY <1>6 DEF IInv, CapsHold
  <2> QED BY <2>1, <1>2, <1>4, <1>5
<1>7. ASSUME limit.client # 0, NEW c \in Client
      PROVE  Cardinality(RelaysFrom(c)') <= limit.client
  <2>1. Cardinality(RelaysFrom(c)) <= limit.client
    BY <1>7 DEF IInv, CapsHold
  <2> QED BY <2>1, <1>3, <1>4, <1>5
<1>8. limit.total # 0 => Cardinality(Relays') <= limit.total
  BY <1>1, <1>5 DEF IInv, CapsHold
<1> QED BY <1>1, <1>6, <1>7, <1>8 DEF CapsHold

(* A map that matches still matches when the keys change off the relays.   *)
LEMMA MatchReadsOnlyRelays ==
    ASSUME NEW S, NEW key, NEW newKey, NEW map, Matches(map, S, key),
           \A x \in S : newKey[x] = key[x]
    PROVE  Matches(map, S, newKey)
<1>1. \A k : KeyHolders(S, newKey, k) = KeyHolders(S, key, k)
  BY DEF KeyHolders
<1>2. {newKey[x] : x \in S} = {key[x] : x \in S}
  OBVIOUS
<1> QED BY <1>1, <1>2 DEF Matches

(* Answering without relaying: no relay comes or goes.                     *)
LEMMA AnswerKeepsIInv ==
    ASSUME IInv, NEW r \in Request, TypeOK', phase[r] = "idle",
           NEW status \in Phases \ {"relaying"},
           phase' = [phase EXCEPT ![r] = status],
           \A x \in Request \ {r} : account'[x] = account[x] /\ client'[x] = client[x],
           UNCHANGED <<limit, proxyInFlight, proxyInFlightByClient, total, counted>>
    PROVE  IInv'
<1>1. phase \in [Request -> Phases]
  BY DEF IInv, TypeOK
<1>2. Relays' = Relays /\ r \notin Relays
  BY <1>1 DEF Relays
<1>3. \A x \in Relays : account'[x] = account[x] /\ client'[x] = client[x]
  BY <1>2 DEF Relays
<1>4. IsFiniteSet(Relays') /\ CapsHold'
  BY <1>2, <1>3, FewerRelaysKeepCaps
<1>5. CountedRight'
  BY <1>1 DEF IInv, CountedRight, AllDisabled
<1>6. MapsMatch'
  BY <1>2, <1>3, MatchReadsOnlyRelays DEF IInv, MapsMatch
<1> QED BY <1>4, <1>5, <1>6 DEF IInv

(* Type correctness of each map after a step.                              *)
LEMMA MapTypes ==
    ASSUME NEW K, NEW map, DOMAIN map \subseteq K,
           map \in [DOMAIN map -> Nat \ {0}], NEW k \in K, NEW lim
    PROVE  /\ DOMAIN Raised(lim, map, k) \subseteq K
           /\ Raised(lim, map, k) \in [DOMAIN Raised(lim, map, k) -> Nat \ {0}]
           /\ DOMAIN Lowered(lim, map, k) \subseteq K
           /\ Lowered(lim, map, k) \in [DOMAIN Lowered(lim, map, k) -> Nat \ {0}]
<1>1. CountOf(map, k) \in Nat
  BY DEF CountOf
<1>2. \A n \in Nat \ {0} :
          /\ DOMAIN WithCount(map, k, n) \subseteq K
          /\ WithCount(map, k, n) \in [DOMAIN WithCount(map, k, n) -> Nat \ {0}]
  BY DEF WithCount
<1>3. /\ DOMAIN Without(map, k) \subseteq K
      /\ Without(map, k) \in [DOMAIN Without(map, k) -> Nat \ {0}]
  BY DEF Without
<1>4. /\ DOMAIN Raised(lim, map, k) \subseteq K
      /\ Raised(lim, map, k) \in [DOMAIN Raised(lim, map, k) -> Nat \ {0}]
  BY <1>1, <1>2 DEF Raised
<1>5. /\ DOMAIN releaseCount(map, k) \subseteq K
      /\ releaseCount(map, k) \in [DOMAIN releaseCount(map, k) -> Nat \ {0}]
  BY <1>1, <1>2, <1>3 DEF releaseCount
<1> QED BY <1>4, <1>5 DEF Lowered

LEMMA NextKeepsType == TypeOK /\ [Next]_vars => TypeOK'
<1> SUFFICES ASSUME TypeOK, [Next]_vars PROVE TypeOK'
  OBVIOUS
<1>1. ASSUME NEW r \in Request, AnswerBadRequest(r) PROVE TypeOK'
  BY <1>1 DEF AnswerBadRequest, TypeOK, Phases
<1>2. ASSUME NEW r \in Request, NEW a \in Account, NEW c \in Client,
             RefuseRelay(r, a, c)
      PROVE  TypeOK'
  <2>1. Refusal(a, c) \in Phases
    BY <1>2 DEF RefuseRelay, Refusal, Phases
  <2> QED BY <1>2, <2>1 DEF RefuseRelay, TypeOK
<1>3. ASSUME NEW r \in Request, NEW a \in Account, NEW c \in Client,
             StartRelay(r, a, c)
      PROVE  TypeOK'
  <2>1. /\ DOMAIN proxyInFlight' \subseteq Account
        /\ proxyInFlight' \in [DOMAIN proxyInFlight' -> Nat \ {0}]
    BY <1>3, MapTypes DEF StartRelay, TypeOK
  <2>2. /\ DOMAIN proxyInFlightByClient' \subseteq Client
        /\ proxyInFlightByClient' \in [DOMAIN proxyInFlightByClient' -> Nat \ {0}]
    BY <1>3, MapTypes DEF StartRelay, TypeOK
  <2>3. total' \in Nat
    BY <1>3 DEF StartRelay, TypeOK
  <2>4. /\ phase' \in [Request -> Phases]
        /\ account' \in [Request -> Account]
        /\ client' \in [Request -> Client]
        /\ counted' \in [Request -> BOOLEAN]
        /\ limit' \in Limits
    BY <1>3 DEF StartRelay, TypeOK, Phases, AllDisabled
  <2> QED BY <2>1, <2>2, <2>3, <2>4 DEF TypeOK
<1>4. ASSUME NEW r \in Request, CloseResponse(r) PROVE TypeOK'
  <2>1. account[r] \in Account /\ client[r] \in Client
    BY DEF TypeOK
  <2>2. ASSUME counted[r]
        PROVE  /\ DOMAIN proxyInFlight' \subseteq Account
               /\ proxyInFlight' \in [DOMAIN proxyInFlight' -> Nat \ {0}]
               /\ DOMAIN proxyInFlightByClient' \subseteq Client
               /\ proxyInFlightByClient' \in [DOMAIN proxyInFlightByClient' -> Nat \ {0}]
    <3>1. /\ proxyInFlight' = Lowered(limit.account, proxyInFlight, account[r])
          /\ proxyInFlightByClient' =
                 Lowered(limit.client, proxyInFlightByClient, client[r])
      BY <1>4, <2>2 DEF CloseResponse
    <3>2. /\ DOMAIN proxyInFlight' \subseteq Account
          /\ proxyInFlight' \in [DOMAIN proxyInFlight' -> Nat \ {0}]
      <4>1. /\ DOMAIN proxyInFlight \subseteq Account
            /\ proxyInFlight \in [DOMAIN proxyInFlight -> Nat \ {0}]
        BY DEF TypeOK
      <4> QED BY ONLY <2>1, <3>1, <4>1, MapTypes
    <3>3. /\ DOMAIN proxyInFlightByClient' \subseteq Client
          /\ proxyInFlightByClient' \in [DOMAIN proxyInFlightByClient' -> Nat \ {0}]
      <4>1. /\ DOMAIN proxyInFlightByClient \subseteq Client
            /\ proxyInFlightByClient \in [DOMAIN proxyInFlightByClient -> Nat \ {0}]
        BY DEF TypeOK
      <4> QED BY ONLY <2>1, <3>1, <4>1, MapTypes
    <3> QED BY <3>2, <3>3
  <2>3. ASSUME ~counted[r]
        PROVE  /\ DOMAIN proxyInFlight' \subseteq Account
               /\ proxyInFlight' \in [DOMAIN proxyInFlight' -> Nat \ {0}]
               /\ DOMAIN proxyInFlightByClient' \subseteq Client
               /\ proxyInFlightByClient' \in [DOMAIN proxyInFlightByClient' -> Nat \ {0}]
    BY <1>4, <2>3 DEF CloseResponse, TypeOK
  <2>4. total' \in Nat
    BY <1>4 DEF CloseResponse, TypeOK
  <2>5. /\ phase' \in [Request -> Phases]
        /\ account' \in [Request -> Account]
        /\ client' \in [Request -> Client]
        /\ counted' \in [Request -> BOOLEAN]
        /\ limit' \in Limits
    BY <1>4 DEF CloseResponse, TypeOK, Phases
  <2> QED BY <2>2, <2>3, <2>4, <2>5 DEF TypeOK
<1>5. CASE UNCHANGED vars
  BY <1>5 DEF vars, TypeOK
<1> QED BY <1>1, <1>2, <1>3, <1>4, <1>5 DEF Next

(* StartRelay: the new relay is counted in every map under a limit, and it *)
(* was started only because each of those counts was below its limit.      *)
LEMMA StartKeepsIInv ==
    ASSUME IInv, TypeOK', NEW r \in Request, NEW a \in Account, NEW c \in Client,
           StartRelay(r, a, c)
    PROVE  IInv'
<1>1. /\ phase \in [Request -> Phases]
      /\ account \in [Request -> Account]
      /\ client \in [Request -> Client]
      /\ limit.account \in Nat /\ limit.client \in Nat /\ limit.total \in Nat
  BY LimitsAssumption DEF IInv, TypeOK
<1>2. r \notin Relays /\ Relays' = Relays \cup {r}
  BY <1>1 DEF StartRelay, Relays
<1>3. \A x \in Relays : account'[x] = account[x] /\ client'[x] = client[x]
  BY <1>1, <1>2 DEF StartRelay, Relays
<1>4. account'[r] = a /\ client'[r] = c
  BY <1>1 DEF StartRelay
<1>5. /\ IsFiniteSet(Relays')
      /\ Cardinality(Relays') = Cardinality(Relays) + 1
      /\ Cardinality(Relays) \in Nat
  BY <1>2, FS_AddElement, FS_CardinalityType DEF IInv
<1>6. limit' = limit /\ phase[r] = "idle" /\ Refusal(a, c) = "none"
  BY DEF StartRelay
<1>7. CountedRight'
  BY <1>1, <1>6 DEF IInv, TypeOK, CountedRight, StartRelay, AllDisabled
<1>8. MapsMatch'
  <2>1. limit.account # 0 => Matches(proxyInFlight', Relays', account')
    <3> SUFFICES ASSUME limit.account # 0
                 PROVE  Matches(proxyInFlight', Relays', account')
      OBVIOUS
    <3>1. proxyInFlight' = WithCount(proxyInFlight, a, CountOf(proxyInFlight, a) + 1)
      BY DEF StartRelay, Raised
    <3>2. IsFiniteSet(Relays) /\ Matches(proxyInFlight, Relays, account)
      BY DEF IInv, MapsMatch
    <3> QED BY <3>1, <3>2, <1>2, <1>3, <1>4, RaiseKeepsMatch
  <2>2. limit.client # 0 => Matches(proxyInFlightByClient', Relays', client')
    <3> SUFFICES ASSUME limit.client # 0
                 PROVE  Matches(proxyInFlightByClient', Relays', client')
      OBVIOUS
    <3>1. proxyInFlightByClient' =
              WithCount(proxyInFlightByClient, c, CountOf(proxyInFlightByClient, c) + 1)
      BY DEF StartRelay, Raised
    <3>2. IsFiniteSet(Relays) /\ Matches(proxyInFlightByClient, Relays, client)
      BY DEF IInv, MapsMatch
    <3> QED BY <3>1, <3>2, <1>2, <1>3, <1>4, RaiseKeepsMatch
  <2>3. /\ limit.account = 0 => proxyInFlight' = [x \in {} |-> 0]
        /\ limit.client = 0 => proxyInFlightByClient' = [x \in {} |-> 0]
    BY DEF IInv, MapsMatch, StartRelay, Raised
  <2>4. total' = IF limit.total = 0 THEN 0 ELSE Cardinality(Relays')
    BY <1>5 DEF IInv, MapsMatch, StartRelay
  <2> QED BY <2>1, <2>2, <2>3, <2>4, <1>6 DEF MapsMatch
<1>9. CapsHold'
  <2>1. /\ limit.account # 0 => Cardinality(RelaysOf(a)) < limit.account
        /\ limit.client # 0 => Cardinality(RelaysFrom(c)) < limit.client
        /\ limit.total # 0 => Cardinality(Relays) < limit.total
    <3>1. /\ limit.account # 0 => ~(CountOf(proxyInFlight, a) >= limit.account)
          /\ limit.client # 0 => ~(CountOf(proxyInFlightByClient, c) >= limit.client)
          /\ limit.total # 0 => ~(total >= limit.total)
      BY <1>6 DEF Refusal, AllDisabled, AccountFull, ClientFull, TotalFull
    <3>2. limit.total # 0 => total = Cardinality(Relays)
      BY DEF IInv, MapsMatch
    <3>3. RelaysOf(a) \subseteq Relays /\ RelaysFrom(c) \subseteq Relays
      BY DEF RelaysOf, RelaysFrom
    <3>4. Cardinality(RelaysOf(a)) \in Nat /\ Cardinality(RelaysFrom(c)) \in Nat
      BY <3>3, FS_Subset, FS_CardinalityType DEF IInv
    <3> QED BY <3>1, <3>2, <3>4, <1>1, <1>5, CountsInIInv
  <2>2. /\ RelaysOf(a)' = RelaysOf(a) \cup {r}
        /\ \A x : x # a => RelaysOf(x)' = RelaysOf(x)
    BY <1>2, <1>3, <1>4 DEF RelaysOf
  <2>3. /\ RelaysFrom(c)' = RelaysFrom(c) \cup {r}
        /\ \A x : x # c => RelaysFrom(x)' = RelaysFrom(x)
    BY <1>2, <1>3, <1>4 DEF RelaysFrom
  <2>4. /\ Cardinality(RelaysOf(a)') = Cardinality(RelaysOf(a)) + 1
        /\ Cardinality(RelaysOf(a)) \in Nat
    <3>1. IsFiniteSet(RelaysOf(a)) /\ r \notin RelaysOf(a)
      BY <1>2, FS_Subset DEF IInv, RelaysOf
    <3> QED BY <3>1, <2>2, FS_AddElement, FS_CardinalityType
  <2>5. /\ Cardinality(RelaysFrom(c)') = Cardinality(RelaysFrom(c)) + 1
        /\ Cardinality(RelaysFrom(c)) \in Nat
    <3>1. IsFiniteSet(RelaysFrom(c)) /\ r \notin RelaysFrom(c)
      BY <1>2, FS_Subset DEF IInv, RelaysFrom
    <3> QED BY <3>1, <2>3, FS_AddElement, FS_CardinalityType
  <2>6. ASSUME limit.account # 0, NEW x \in Account
        PROVE  Cardinality(RelaysOf(x)') <= limit.account
    <3>1. CASE x = a
      BY <3>1, <2>1, <2>4, <2>6, <1>1
    <3>2. CASE x # a
      BY <3>2, <2>2, <2>6 DEF IInv, CapsHold
    <3> QED BY <3>1, <3>2
  <2>7. ASSUME limit.client # 0, NEW x \in Client
        PROVE  Cardinality(RelaysFrom(x)') <= limit.client
    <3>1. CASE x = c
      BY <3>1, <2>1, <2>5, <2>7, <1>1
    <3>2. CASE x # c
      BY <3>2, <2>3, <2>7 DEF IInv, CapsHold
    <3> QED BY <3>1, <3>2
  <2>8. limit.total # 0 => Cardinality(Relays') <= limit.total
    BY <2>1, <1>5, <1>1
  <2> QED BY <2>6, <2>7, <2>8, <1>6 DEF CapsHold
<1> QED BY <1>5, <1>7, <1>8, <1>9 DEF IInv

(* CloseResponse: a relay's slot is given back in every map it was counted *)
(* in; any other response closes without touching a counter.               *)
LEMMA CloseKeepsIInv ==
    ASSUME IInv, TypeOK', NEW r \in Request, CloseResponse(r)
    PROVE  IInv'
<1>1. phase \in [Request -> Phases] /\ counted \in [Request -> BOOLEAN]
  BY DEF IInv, TypeOK
<1>2. Relays' = Relays \ {r}
  BY <1>1 DEF CloseResponse, Relays
<1>3. UNCHANGED <<limit, account, client>>
  BY DEF CloseResponse
<1>4. IsFiniteSet(Relays') /\ CapsHold'
  BY <1>2, <1>3, FewerRelaysKeepCaps
<1>5. CountedRight'
  BY <1>1 DEF IInv, CountedRight, CloseResponse, AllDisabled
<1>6. MapsMatch'
  <2>1. CASE counted[r]
    <3>1. r \in Relays /\ ~AllDisabled
      BY <2>1 DEF IInv, CountedRight, Relays
    <3>2. /\ proxyInFlight' = Lowered(limit.account, proxyInFlight, account[r])
          /\ proxyInFlightByClient' =
                 Lowered(limit.client, proxyInFlightByClient, client[r])
          /\ total' = IF limit.total # 0 /\ total > 0 THEN total - 1 ELSE total
      BY <2>1 DEF CloseResponse
    <3>3. limit.account # 0 => Matches(proxyInFlight', Relays', account)
      BY <3>1, <3>2, <1>2, ReleaseKeepsMatch DEF IInv, MapsMatch, Lowered
    <3>4. limit.client # 0 => Matches(proxyInFlightByClient', Relays', client)
      BY <3>1, <3>2, <1>2, ReleaseKeepsMatch DEF IInv, MapsMatch, Lowered
    <3>5. /\ limit.account = 0 => proxyInFlight' = [x \in {} |-> 0]
          /\ limit.client = 0 => proxyInFlightByClient' = [x \in {} |-> 0]
      BY <3>2 DEF IInv, MapsMatch, Lowered
    <3>6. total' = IF limit.total = 0 THEN 0 ELSE Cardinality(Relays')
      <4>1. /\ Cardinality(Relays') = Cardinality(Relays) - 1
            /\ Cardinality(Relays) \in Nat /\ Cardinality(Relays) # 0
        BY <3>1, <1>2, FS_RemoveElement, FS_CardinalityType, FS_EmptySet DEF IInv
      <4> QED BY <4>1, <3>2 DEF IInv, MapsMatch
    <3> QED BY <3>3, <3>4, <3>5, <3>6, <1>3 DEF MapsMatch
  <2>2. CASE ~counted[r]
    <3>1. UNCHANGED <<proxyInFlight, proxyInFlightByClient, total>>
      BY <2>2 DEF CloseResponse
    <3>2. CASE AllDisabled
      BY <3>1, <3>2, <1>3 DEF IInv, MapsMatch, AllDisabled
    <3>3. CASE ~AllDisabled
      <4>1. r \notin Relays
        BY <2>2, <3>3 DEF IInv, CountedRight, Relays
      <4>2. Relays' = Relays
        BY <4>1, <1>2
      <4> QED BY <4>2, <3>1, <1>3 DEF IInv, MapsMatch
    <3> QED BY <3>2, <3>3
  <2> QED BY <2>1, <2>2
<1> QED BY <1>4, <1>5, <1>6 DEF IInv

LEMMA NextKeepsIInv == IInv /\ [Next]_vars => IInv'
<1> SUFFICES ASSUME IInv, [Next]_vars PROVE IInv'
  OBVIOUS
<1>1. TypeOK'
  BY NextKeepsType DEF IInv
<1>2. ASSUME NEW r \in Request, AnswerBadRequest(r) PROVE IInv'
  BY <1>1, <1>2, AnswerKeepsIInv DEF AnswerBadRequest, Phases
<1>3. ASSUME NEW r \in Request, NEW a \in Account, NEW c \in Client,
             RefuseRelay(r, a, c)
      PROVE  IInv'
  <2>1. Refusal(a, c) \in Phases \ {"relaying"}
    BY <1>3 DEF RefuseRelay, Refusal, Phases
  <2>2. \A x \in Request \ {r} : account'[x] = account[x] /\ client'[x] = client[x]
    BY <1>3 DEF RefuseRelay, IInv, TypeOK
  <2> QED BY <1>1, <1>3, <2>1, <2>2, AnswerKeepsIInv DEF RefuseRelay
<1>4. ASSUME NEW r \in Request, NEW a \in Account, NEW c \in Client,
             StartRelay(r, a, c)
      PROVE  IInv'
  BY <1>1, <1>4, StartKeepsIInv
<1>5. ASSUME NEW r \in Request, CloseResponse(r) PROVE IInv'
  BY <1>1, <1>5, CloseKeepsIInv
<1>6. CASE UNCHANGED vars
  BY <1>6 DEF vars, IInv, TypeOK, Relays, CountedRight, AllDisabled, MapsMatch,
              Matches, KeyHolders, CapsHold, RelaysOf, RelaysFrom
<1> QED BY <1>2, <1>3, <1>4, <1>5, <1>6 DEF Next

(* A refusal is decided on counters that match the relays, so it is right  *)
(* about the relays.                                                       *)
LEMMA RefusalReadsRelays ==
    ASSUME IInv, NEW a, NEW c, Refusal(a, c) # "none"
    PROVE  LET own == \/ /\ limit.account # 0
                         /\ Cardinality(RelaysOf(a)) >= limit.account
                      \/ /\ limit.client # 0
                         /\ Cardinality(RelaysFrom(c)) >= limit.client
           IN  /\ Refusal(a, c) = "status429" => own
               /\ Refusal(a, c) = "status503" =>
                      /\ limit.total # 0
                      /\ Cardinality(Relays) = limit.total
                      /\ ~own
<1>1. /\ AccountFull(a) <=> /\ limit.account # 0
                           /\ Cardinality(RelaysOf(a)) >= limit.account
      /\ ClientFull(c) <=> /\ limit.client # 0
                          /\ Cardinality(RelaysFrom(c)) >= limit.client
  BY CountsInIInv DEF AccountFull, ClientFull
<1>2. TotalFull => limit.total # 0 /\ Cardinality(Relays) = limit.total
  <2>1. limit.total \in Nat /\ Cardinality(Relays) \in Nat
    BY LimitsAssumption, FS_CardinalityType DEF IInv, TypeOK
  <2> QED BY <2>1 DEF TotalFull, IInv, MapsMatch, CapsHold
<1> QED BY <1>1, <1>2 DEF Refusal

(* The step formula of RefusalIsTruthful, and that a step satisfies it.    *)
RefusalStep ==
    \A r \in Request :
        LET own == \/ /\ limit.account # 0
                      /\ Cardinality(RelaysOf(account'[r])) >= limit.account
                   \/ /\ limit.client # 0
                      /\ Cardinality(RelaysFrom(client'[r])) >= limit.client
        IN  phase[r] = "idle" =>
              /\ phase'[r] = "status429" => own
              /\ phase'[r] = "status503" =>
                     /\ limit.total # 0
                     /\ Cardinality(Relays) = limit.total
                     /\ ~own

LEMMA NextRefusesTruthfully == IInv /\ [Next]_vars => [RefusalStep]_vars
<1> DEFINE own(r) == \/ /\ limit.account # 0
                        /\ Cardinality(RelaysOf(account'[r])) >= limit.account
                     \/ /\ limit.client # 0
                        /\ Cardinality(RelaysFrom(client'[r])) >= limit.client
<1> SUFFICES ASSUME IInv, Next, NEW r \in Request, phase[r] = "idle"
             PROVE  /\ phase'[r] = "status429" => own(r)
                    /\ phase'[r] = "status503" =>
                           /\ limit.total # 0
                           /\ Cardinality(Relays) = limit.total
                           /\ ~own(r)
  BY DEF RefusalStep
<1>1. phase \in [Request -> Phases] /\ account \in [Request -> Account]
      /\ client \in [Request -> Client]
  BY DEF IInv, TypeOK
<1>2. ASSUME NEW x \in Request, NEW a \in Account, NEW c \in Client,
             RefuseRelay(x, a, c), x = r
      PROVE  /\ phase'[r] = Refusal(a, c) /\ Refusal(a, c) # "none"
             /\ account'[r] = a /\ client'[r] = c
  BY <1>1, <1>2 DEF RefuseRelay
<1>3. ASSUME NEW x \in Request, NEW a \in Account, NEW c \in Client,
             RefuseRelay(x, a, c), x # r
      PROVE  phase'[r] = "idle"
  BY <1>1, <1>3 DEF RefuseRelay
<1>4. ASSUME NEW x \in Request,
             \/ AnswerBadRequest(x)
             \/ \E a \in Account, c \in Client : StartRelay(x, a, c)
             \/ CloseResponse(x)
      PROVE  phase'[r] \notin {"status429", "status503"}
  BY <1>1, <1>4 DEF AnswerBadRequest, StartRelay, CloseResponse
<1>5. CASE phase'[r] \notin {"status429", "status503"}
  BY <1>5
<1>6. CASE phase'[r] \in {"status429", "status503"}
  <2>1. PICK a \in Account, c \in Client : RefuseRelay(r, a, c)
    BY <1>3, <1>4, <1>6 DEF Next
  <2>2. /\ phase'[r] = Refusal(a, c) /\ Refusal(a, c) # "none"
        /\ account'[r] = a /\ client'[r] = c
    BY <2>1, <1>2
  <2> QED BY <2>2, RefusalReadsRelays
<1> QED BY <1>5, <1>6

-----------------------------------------------------------------------------
(* Every count in the three maps is of the type the code relies on, an     *)
(* entry at zero being deleted (releaseCount).                             *)
THEOREM TypeCorrect == Spec => []TypeOK
<1>1. Init => TypeOK
  BY InitIInv DEF IInv
<1> QED BY <1>1, NextKeepsType, PTL DEF Spec

(* Each counter's map counts the relays of its key, and the caps hold.     *)
THEOREM Inductive == Spec => []IInv
BY InitIInv, NextKeepsIInv, PTL DEF Spec

(* Whatever the order of arrivals, refusals and closes, no slot is lost    *)
(* and none is returned twice (acquireProxySlot and its close listener).   *)
THEOREM CountsAreRight == Spec => []CountsMatchRelays
BY Inductive, MatchIsCount, PTL

(* No account, client or server ever relays more than its limit.           *)
THEOREM CapsAreHeld == Spec => []CapsHold
<1>1. IInv => CapsHold
  BY DEF IInv
<1> QED BY <1>1, Inductive, PTL

(* A 429 names a caller at its own limit, a 503 a full server and a caller *)
(* within its own (rejectOverCap).                                         *)
THEOREM RefusalsAreTruthful == Spec => RefusalIsTruthful
BY NextRefusesTruthfully, Inductive, PTL DEF Spec, RefusalIsTruthful, RefusalStep

-----------------------------------------------------------------------------
(* The life of the process: what was shown of the counters goes on holding *)
(* when it drains, exits and is started again, and the code of an exit     *)
(* tells the truth about the responses it cut off.                         *)

(* The inductive invariant: that of RelaySlots, and that a process drains  *)
(* only because it was asked to (createShutdownHandler).                   *)
Life == {"up", "draining"} \cup Gone

DrainsWhenAsked == process = "draining" => shuttingDown

SInv == /\ IInv
        /\ process \in Life
        /\ DrainsWhenAsked
        /\ CleanExitDropsNothing

LEMMA ShutdownInitSInv == ShutdownInit => SInv
BY InitIInv DEF ShutdownInit, SInv, Life, DrainsWhenAsked, CleanExitDropsNothing

(* A restart leaves the counters as they are at the first start.           *)
LEMMA RestartKeepsIInv ==
    ASSUME IInv, Restart
    PROVE  IInv'
<1>1. TypeOK'
  BY DEF IInv, Restart, TypeOK, Phases
<1>2. Relays' = {}
  BY DEF Restart, Relays
<1>3. IsFiniteSet(Relays') /\ Cardinality(Relays') = 0 /\ CapsHold'
  BY <1>2, FS_EmptySet, FewerRelaysKeepCaps DEF Restart
<1>4. CountedRight'
  BY DEF Restart, CountedRight
<1>5. MapsMatch'
  BY <1>2, <1>3 DEF Restart, MapsMatch, Matches
<1> QED BY <1>1, <1>3, <1>4, <1>5 DEF IInv

(* Every step of the process is a step of the relays, or starts it again.  *)
LEMMA StepsOfTheRelays ==
    ASSUME [ShutdownNext]_allVars
    PROVE  [Next]_vars \/ Restart
<1>1. ASSUME NEW r \in Request, Arrive(r) PROVE Next
  BY <1>1 DEF Arrive, Next
<1>2. ASSUME NEW r \in Request, Leave(r) PROVE Next
  BY <1>2 DEF Leave, Next
<1>3. ASSUME NEW r \in Request, Unpark(r) PROVE UNCHANGED vars
  BY <1>3 DEF Unpark
<1>4. ASSUME Signal \/ Drained \/ TimedOut \/ Crash PROVE UNCHANGED vars
  BY <1>4 DEF Signal, Drained, TimedOut, Crash
<1>5. CASE UNCHANGED allVars
  BY <1>5 DEF allVars
<1> QED BY <1>1, <1>2, <1>3, <1>4, <1>5 DEF ShutdownNext

LEMMA ShutdownNextKeepsSInv == SInv /\ [ShutdownNext]_allVars => SInv'
<1> SUFFICES ASSUME SInv, [ShutdownNext]_allVars PROVE SInv'
  OBVIOUS
<1>1. IInv'
  BY StepsOfTheRelays, NextKeepsIInv, RestartKeepsIInv DEF SInv
<1> DEFINE Rest == process \in Life /\ DrainsWhenAsked /\ CleanExitDropsNothing
<1> SUFFICES Rest'
  BY <1>1 DEF SInv
<1>2. ASSUME NEW r \in Request, Arrive(r) \/ Leave(r) \/ Unpark(r) PROVE Rest'
  BY <1>2 DEF Arrive, Leave, Unpark, SInv, Gone, DrainsWhenAsked,
              CleanExitDropsNothing
<1>3. CASE Signal
  BY <1>3 DEF Signal, Life, DrainsWhenAsked, CleanExitDropsNothing
<1>4. CASE Drained
  BY <1>4 DEF Drained, SInv, Life, Gone, DrainsWhenAsked, CleanExitDropsNothing,
              Open, vars
<1>5. CASE TimedOut
  BY <1>5 DEF TimedOut, ForcedExit, Life, Gone, DrainsWhenAsked,
              CleanExitDropsNothing
<1>6. CASE Crash
  BY <1>6 DEF Crash, Life, Gone, DrainsWhenAsked, CleanExitDropsNothing
<1>7. CASE Restart
  BY <1>7 DEF Restart, Life, DrainsWhenAsked, CleanExitDropsNothing
<1>8. CASE UNCHANGED allVars
  BY <1>8 DEF allVars, shutdownVars, vars, SInv, Life, DrainsWhenAsked,
              CleanExitDropsNothing, Open
<1> QED BY <1>2, <1>3, <1>4, <1>5, <1>6, <1>7, <1>8 DEF ShutdownNext

-----------------------------------------------------------------------------
(* The same in every life of the process.                                  *)
THEOREM ShutdownInductive == ShutdownSpec => []SInv
BY ShutdownInitSInv, ShutdownNextKeepsSInv, PTL DEF ShutdownSpec

(* The counters keep their types, an entry at zero being deleted, through  *)
(* every exit and restart.                                                 *)
THEOREM TypeCorrectForLife == ShutdownSpec => []TypeOK
<1>1. SInv => TypeOK
  BY DEF SInv, IInv
<1> QED BY <1>1, ShutdownInductive, PTL

(* No slot is lost and none given twice, though the process drains, keeps  *)
(* answering on old connections, is killed with relays open and restarts.  *)
THEOREM CountsAreRightForLife == ShutdownSpec => []CountsMatchRelays
<1>1. SInv => CountsMatchRelays
  BY MatchIsCount DEF SInv
<1> QED BY <1>1, ShutdownInductive, PTL

(* The caps hold for the whole life of the process.                        *)
THEOREM CapsAreHeldForLife == ShutdownSpec => []CapsHold
<1>1. SInv => CapsHold
  BY DEF SInv, IInv
<1> QED BY <1>1, ShutdownInductive, PTL

(* An exit with 0 cuts no response off and answers a request to stop       *)
(* (createShutdownHandler).                                                *)
THEOREM CleanExitsDropNothing == ShutdownSpec => []CleanExitDropsNothing
<1>1. SInv => CleanExitDropsNothing
  BY DEF SInv
<1> QED BY <1>1, ShutdownInductive, PTL

(* A refusal is truthful in a process that drains as in one that does not. *)
THEOREM RefusalsAreTruthfulForLife == ShutdownSpec => RefusalIsTruthful
<1>1. SInv /\ [ShutdownNext]_allVars => [RefusalStep]_vars
  <2> SUFFICES ASSUME SInv, [ShutdownNext]_allVars PROVE [RefusalStep]_vars
    OBVIOUS
  <2>1. CASE [Next]_vars
    BY <2>1, NextRefusesTruthfully DEF SInv
  <2>2. CASE Restart
    BY <2>2 DEF Restart, RefusalStep
  <2> QED BY <2>1, <2>2, StepsOfTheRelays
<1> QED BY <1>1, ShutdownInductive, PTL DEF ShutdownSpec, RefusalIsTruthful, RefusalStep

-----------------------------------------------------------------------------
(* Part two: the maps and their ledger.                                    *)

(* What is left of a sequence without repetitions when one of its members  *)
(* is taken out, and what there is when one is added at the end.           *)
LEMMA RemoveOne ==
    ASSUME NEW E, NEW s \in Seq(E), Distinct(s), NEW e \in Range(s)
    PROVE  LET t == RemoveFirst(s, e)
           IN  /\ t \in Seq(E)
               /\ Len(t) = Len(s) - 1
               /\ Distinct(t)
               /\ Range(t) = Range(s) \ {e}
               /\ \A x, y : Before(t, x, y) => Before(s, x, y)
               /\ \A x, y : Before(s, x, y) /\ x # e /\ y # e => Before(t, x, y)
               /\ s[Len(s)] # e => t[Len(t)] = s[Len(s)]
<1> DEFINE t == RemoveFirst(s, e)
<1>1. Len(s) \in Nat /\ DOMAIN s = 1..Len(s)
  OBVIOUS
<1>2. PICK p \in 1..Len(s) : s[p] = e
  BY <1>1 DEF Range
<1>0. Len(s) \in Nat /\ p \in Nat /\ 1 <= p /\ p <= Len(s)
  BY <1>1
<1>3. \A i \in 1..Len(s) : s[i] = e <=> i = p
  BY <1>1, <1>2 DEF Distinct
<1>4. SelectInSeq(s, LAMBDA v : v = e) = p
  <2> DEFINE I == {i \in 1..Len(s) : s[i] = e}
  <2>1. I = {p}
    BY <1>3
  <2>2. Min(I) = p
    BY <2>1 DEF Min
  <2> QED BY <2>1, <2>2 DEF SelectInSeq
<1>5. t = SubSeq(s, 1, p - 1) \o SubSeq(s, p + 1, Len(s))
  BY <1>2, <1>4 DEF RemoveFirst, RemoveAt
<1>6. /\ t \in Seq(E)
      /\ Len(t) = Len(s) - 1
      /\ \A i \in 1..(Len(s) - 1) : t[i] = IF i < p THEN s[i] ELSE s[i + 1]
  <2> DEFINE a == SubSeq(s, 1, p - 1)
  <2> DEFINE b == SubSeq(s, p + 1, Len(s))
  <2>1. a \in Seq(E) /\ Len(a) = p - 1 /\ \A i \in 1..(p - 1) : a[i] = s[i]
    BY <1>1
  <2>2. b \in Seq(E) /\ Len(b) = Len(s) - p /\ \A i \in 1..(Len(s) - p) : b[i] = s[p + i]
    <3>1. p + 1 \in Int /\ Len(s) \in Int /\ \A i \in (p + 1)..Len(s) : s[i] \in E
      BY <1>1, <1>2
    <3>2. /\ b \in Seq(E)
          /\ Len(b) = IF p + 1 <= Len(s) THEN Len(s) - (p + 1) + 1 ELSE 0
          /\ \A i \in 1..(Len(s) - (p + 1) + 1) : b[i] = s[(p + 1) + i - 1]
      BY <3>1, SubSeqProperties
    <3> HIDE DEF b
    <3>3. Len(b) = Len(s) - p
      BY ONLY <1>0, <3>2
    <3>4. ASSUME NEW i \in 1..(Len(s) - p) PROVE b[i] = s[p + i]
      <4>1. i \in 1..(Len(s) - (p + 1) + 1) /\ (p + 1) + i - 1 = p + i
        BY ONLY <1>0, i \in 1..(Len(s) - p)
      <4> QED BY <4>1, <3>2
    <3> QED BY <3>2, <3>3, <3>4
  <2> HIDE DEF a, b
  <2>3. t = a \o b
    BY <1>5 DEF a, b
  <2>4. t \in Seq(E) /\ Len(t) = Len(s) - 1
    <3>1. t \in Seq(E) /\ Len(t) = Len(a) + Len(b)
      BY <2>1, <2>2, <2>3, ConcatProperties
    <3> QED BY <3>1, <2>1, <2>2, <1>1, <1>2
  <2>5. ASSUME NEW i \in 1..(Len(s) - 1), i < p PROVE t[i] = s[i]
    BY <1>1, <2>1, <2>2, <2>3, <2>5
  <2>6. ASSUME NEW i \in 1..(Len(s) - 1), ~(i < p) PROVE t[i] = s[i + 1]
    <3>1. t[i] = b[i - (p - 1)]
      BY <1>1, <2>1, <2>2, <2>3, <2>6
    <3>2. i - (p - 1) \in 1..(Len(s) - p) /\ p + (i - (p - 1)) = i + 1
      BY <1>1, <2>6
    <3> QED BY <3>1, <3>2, <2>2
  <2> QED BY <2>4, <2>5, <2>6
<1> HIDE DEF t
<1> DEFINE from(i) == IF i < p THEN i ELSE i + 1
<1> DEFINE to(j) == IF j < p THEN j ELSE j - 1
<1>7. DOMAIN t = 1..(Len(s) - 1)
  BY <1>6
<1>8. \A i \in DOMAIN t : from(i) \in DOMAIN s /\ t[i] = s[from(i)] /\ from(i) # p
  BY <1>1, <1>6, <1>7
<1>9. \A j \in DOMAIN s : j # p => to(j) \in DOMAIN t /\ t[to(j)] = s[j]
  <2> SUFFICES ASSUME NEW j \in DOMAIN s, j # p
               PROVE  to(j) \in DOMAIN t /\ t[to(j)] = s[j]
    OBVIOUS
  <2>1. CASE j < p
    BY <2>1, <1>1, <1>6, <1>7
  <2>2. CASE j > p
    <3>1. j - 1 \in 1..(Len(s) - 1) /\ ~(j - 1 < p) /\ (j - 1) + 1 = j
      BY <2>2, <1>1
    <3> QED BY <3>1, <2>2, <1>6, <1>7
  <2> QED BY <2>1, <2>2, <1>1
<1>10. \A i, j \in DOMAIN t : from(i) = from(j) => i = j
  BY <1>7
<1>11. \A i, j \in DOMAIN t : i < j => from(i) < from(j)
  BY <1>7
<1>12. \A i, j \in DOMAIN s : i < j /\ i # p /\ j # p => to(i) < to(j)
  BY <1>1
<1>13. Distinct(t)
  BY <1>8, <1>10 DEF Distinct
<1>14. Range(t) = Range(s) \ {e}
  <2>1. \A i \in DOMAIN t : t[i] \in Range(s) \ {e}
    BY <1>8, <1>3, <1>1 DEF Range
  <2>2. \A x \in Range(s) \ {e} : x \in Range(t)
    BY <1>9, <1>3, <1>1 DEF Range
  <2> QED BY <2>1, <2>2 DEF Range
<1>15. \A x, y : Before(t, x, y) => Before(s, x, y)
  BY <1>8, <1>11 DEF Before
<1>16. \A x, y : Before(s, x, y) /\ x # e /\ y # e => Before(t, x, y)
  <2> SUFFICES ASSUME NEW x, NEW y, x # e, y # e, Before(s, x, y)
               PROVE  Before(t, x, y)
    OBVIOUS
  <2>1. PICK i \in DOMAIN s, j \in DOMAIN s : i < j /\ s[i] = x /\ s[j] = y
    BY DEF Before
  <2>2. i # p /\ j # p
    BY <2>1, <1>2
  <2> QED BY <2>1, <2>2, <1>9, <1>12 DEF Before
<1>17. ASSUME s[Len(s)] # e PROVE t[Len(t)] = s[Len(s)]
  <2>1. Len(s) # p
    BY <1>17, <1>2
  <2>2. Len(s) - 1 \in 1..(Len(s) - 1) /\ ~(Len(s) - 1 < p) /\ (Len(s) - 1) + 1 = Len(s)
    BY ONLY <2>1, <1>0
  <2> QED BY <2>2, <1>6
<1> QED BY <1>6, <1>13, <1>14, <1>15, <1>16, <1>17 DEF t

LEMMA AppendOne ==
    ASSUME NEW E, NEW s \in Seq(E), Distinct(s), NEW e \in E, e \notin Range(s)
    PROVE  LET t == Append(s, e)
           IN  /\ t \in Seq(E)
               /\ Len(t) = Len(s) + 1
               /\ t[Len(t)] = e
               /\ Distinct(t)
               /\ Range(t) = Range(s) \cup {e}
               /\ \A x, y : Before(t, x, y) =>
                      Before(s, x, y) \/ (x \in Range(s) /\ y = e)
               /\ \A x, y : Before(s, x, y) => Before(t, x, y)
               /\ \A x \in Range(s) : Before(t, x, e)
<1> DEFINE t == Append(s, e)
<1>1. /\ Len(s) \in Nat /\ DOMAIN s = 1..Len(s)
      /\ t \in Seq(E) /\ Len(t) = Len(s) + 1 /\ DOMAIN t = 1..(Len(s) + 1)
      /\ \A i \in 1..Len(s) : t[i] = s[i]
      /\ t[Len(s) + 1] = e
  OBVIOUS
<1> HIDE DEF t
<1>2. \A i \in DOMAIN t : i \in DOMAIN s \/ i = Len(s) + 1
  BY <1>1
<1>3. \A i \in DOMAIN s : s[i] # e
  BY DEF Range
<1>4. Distinct(t)
  BY <1>1, <1>2, <1>3 DEF Distinct
<1>5. Range(t) = Range(s) \cup {e}
  BY <1>1, <1>2 DEF Range
<1>6. ASSUME NEW x, NEW y, Before(t, x, y)
      PROVE  Before(s, x, y) \/ (x \in Range(s) /\ y = e)
  <2>1. PICK i \in DOMAIN t, j \in DOMAIN t : i < j /\ t[i] = x /\ t[j] = y
    BY <1>6 DEF Before
  <2>2. i \in DOMAIN s /\ s[i] = x
    BY <2>1, <1>1
  <2>3. CASE j \in DOMAIN s
    BY <2>1, <2>2, <2>3, <1>1 DEF Before
  <2>4. CASE j = Len(s) + 1
    BY <2>1, <2>2, <2>4, <1>1 DEF Range
  <2> QED BY <2>3, <2>4, <1>2
<1>7. \A x, y : Before(s, x, y) => Before(t, x, y)
  BY <1>1 DEF Before
<1>8. ASSUME NEW x \in Range(s) PROVE Before(t, x, e)
  <2>1. PICK i \in DOMAIN s : s[i] = x
    BY DEF Range
  <2>2. i \in DOMAIN t /\ Len(s) + 1 \in DOMAIN t /\ i < Len(s) + 1
    BY <1>1
  <2> QED BY <2>1, <2>2, <1>1 DEF Before
<1> QED BY <1>1, <1>4, <1>5, <1>6, <1>7, <1>8 DEF t

-----------------------------------------------------------------------------
LEMMA OneTo ==
    ASSUME NEW n \in Nat
    PROVE  IsFiniteSet(1..n) /\ Cardinality(1..n) = n
<1>1. 1 \in Int /\ n \in Int
  OBVIOUS
<1>2. IsFiniteSet(1..n) /\ Cardinality(1..n) = (IF 1 > n THEN 0 ELSE n - 1 + 1)
  BY <1>1, FS_Interval
<1> QED BY <1>2

(* What an entry adds to the weight of a set, and takes from it.           *)
LEMMA WeightIn ==
    ASSUME NEW S, IsFiniteSet(Bytes(S)), NEW e, e.bytes \in Nat, e \notin S
    PROVE  /\ IsFiniteSet(Bytes(S \cup {e}))
           /\ WeightOf(S \cup {e}) = WeightOf(S) + e.bytes
<1> DEFINE own == {e} \X (1..e.bytes)
<1>1. Bytes(S \cup {e}) = Bytes(S) \cup own
  BY DEF Bytes
<1>2. Bytes(S) \cap own = {}
  BY DEF Bytes
<1>3. IsFiniteSet(own) /\ Cardinality(own) = e.bytes
  <2>1. IsFiniteSet({e}) /\ Cardinality({e}) = 1
    BY FS_Singleton
  <2>2. IsFiniteSet(1..e.bytes) /\ Cardinality(1..e.bytes) = e.bytes
    BY ONLY e.bytes \in Nat, OneTo
  <2>3. IsFiniteSet(own) /\ Cardinality(own) = Cardinality({e}) * Cardinality(1..e.bytes)
    BY <2>1, <2>2, FS_Product
  <2> HIDE DEF own
  <2> QED BY <2>1, <2>2, <2>3
<1> HIDE DEF own
<1>4. /\ IsFiniteSet(Bytes(S) \cup own)
      /\ Cardinality(Bytes(S) \cup own)
             = Cardinality(Bytes(S)) + Cardinality(own) - Cardinality(Bytes(S) \cap own)
  BY <1>3, FS_Union
<1>5. Cardinality(Bytes(S)) \in Nat /\ Cardinality({}) = 0
  BY FS_CardinalityType, FS_EmptySet
<1>6. Cardinality(Bytes(S) \cup own) = Cardinality(Bytes(S)) + e.bytes
  <2>1. Cardinality(Bytes(S) \cap own) = 0
    BY <1>2, <1>5, Zenon
  <2> QED BY <2>1, <1>3, <1>4, <1>5
<1> QED BY <1>1, <1>4, <1>6 DEF WeightOf

LEMMA WeightOut ==
    ASSUME NEW S, IsFiniteSet(Bytes(S)), NEW e, e.bytes \in Nat, e \in S
    PROVE  /\ IsFiniteSet(Bytes(S \ {e}))
           /\ WeightOf(S) = WeightOf(S \ {e}) + e.bytes
           /\ WeightOf(S \ {e}) \in Nat
<1>1. Bytes(S \ {e}) \subseteq Bytes(S)
  BY DEF Bytes
<1>2. IsFiniteSet(Bytes(S \ {e}))
  BY <1>1, FS_Subset
<1>3. S = (S \ {e}) \cup {e}
  OBVIOUS
<1>4. WeightOf((S \ {e}) \cup {e}) = WeightOf(S \ {e}) + e.bytes
  BY <1>2, WeightIn
<1> QED BY <1>2, <1>3, <1>4, FS_CardinalityType DEF WeightOf

-----------------------------------------------------------------------------
(* What is so of the maps and the ledger at every moment, told of any      *)
(* stores, sums and orders.                                                *)
MapInv(m, s, bytes, ord) ==
    /\ Distinct(s)
    /\ bytes = WeightOf(Range(s))
    /\ \A x \in Range(s) : x.cache = m
    /\ \A x, y \in Range(s) : x.key = y.key => x = y
    /\ \A x, y \in Range(s) : Before(s, x, y) => Before(ord, x, y)

Core(st, mb, ord, lb) ==
    /\ st \in [Cache -> Seq(Entry)] /\ mb \in [Cache -> Nat]
    /\ ord \in Seq(Entry) /\ lb \in Nat
    /\ Distinct(ord)
    /\ IsFiniteSet(Bytes(Range(ord)))
    /\ lb = WeightOf(Range(ord))
    /\ Range(ord) = UNION {Range(st[m]) : m \in Cache}
    /\ \A m \in Cache : MapInv(m, st[m], mb[m], ord)

LEMMA EntryFacts ==
    ASSUME NEW e \in Entry
    PROVE  e.cache \in Cache /\ e.bytes \in Nat
BY BoundsAssumption DEF Entry

(* A charged entry is in its own map, which weighs no more than the ledger.*)
LEMMA ChargedIsStored ==
    ASSUME NEW st, NEW mb, NEW ord, NEW lb, Core(st, mb, ord, lb)
    PROVE  /\ \A e \in Range(ord) : e \in Entry /\ e \in Range(st[e.cache])
           /\ \A m \in Cache : /\ Range(st[m]) \subseteq Range(ord)
                              /\ IsFiniteSet(Bytes(Range(st[m])))
<1>1. \A m \in Cache : Range(st[m]) \subseteq Range(ord)
  BY DEF Core
<1>2. \A m \in Cache : Bytes(Range(st[m])) \subseteq Bytes(Range(ord))
  BY <1>1 DEF Bytes
<1>3. \A m \in Cache : IsFiniteSet(Bytes(Range(st[m])))
  BY <1>2, FS_Subset DEF Core
<1>4. \A e \in Range(ord) : e \in Range(st[e.cache])
  BY DEF Core, MapInv
<1> QED BY <1>1, <1>3, <1>4, RangeOfSeq DEF Core

(* Taking an entry out of its map and the ledger.                          *)
LEMMA OutKeepsCore ==
    ASSUME NEW st, NEW mb, NEW ord, NEW lb, Core(st, mb, ord, lb), NEW e \in Range(ord)
    PROVE  /\ Core([st EXCEPT ![e.cache] = RemoveFirst(@, e)],
                   [mb EXCEPT ![e.cache] = @ - e.bytes],
                   RemoveFirst(ord, e), lb - e.bytes)
           /\ Range(RemoveFirst(ord, e)) = Range(ord) \ {e}
           /\ Range(RemoveFirst(st[e.cache], e)) = Range(st[e.cache]) \ {e}
<1> DEFINE c == e.cache
<1> DEFINE s == st[c]
<1> DEFINE t == RemoveFirst(s, e)
<1> DEFINE o == RemoveFirst(ord, e)
<1> DEFINE st1 == [st EXCEPT ![c] = t]
<1> DEFINE mb1 == [mb EXCEPT ![c] = @ - e.bytes]
<1>1. /\ e \in Entry /\ c \in Cache /\ e.bytes \in Nat /\ e \in Range(s)
      /\ s \in Seq(Entry) /\ Distinct(s) /\ ord \in Seq(Entry) /\ Distinct(ord)
      /\ IsFiniteSet(Bytes(Range(s)))
  <2>1. e \in Entry /\ e \in Range(s)
    BY ChargedIsStored
  <2>2. c \in Cache /\ e.bytes \in Nat
    BY <2>1, EntryFacts
  <2>3. IsFiniteSet(Bytes(Range(s)))
    BY <2>2, ChargedIsStored
  <2>4. s \in Seq(Entry) /\ Distinct(s) /\ ord \in Seq(Entry) /\ Distinct(ord)
    BY <2>2 DEF Core, MapInv
  <2> QED BY <2>1, <2>2, <2>3, <2>4
<1>2. /\ t \in Seq(Entry) /\ Distinct(t) /\ Range(t) = Range(s) \ {e}
      /\ \A x, y : Before(t, x, y) => Before(s, x, y)
  BY <1>1, RemoveOne
<1>3. /\ o \in Seq(Entry) /\ Distinct(o) /\ Range(o) = Range(ord) \ {e}
      /\ \A x, y : Before(ord, x, y) /\ x # e /\ y # e => Before(o, x, y)
  BY <1>1, RemoveOne
<1>4. /\ IsFiniteSet(Bytes(Range(o)))
      /\ lb - e.bytes = WeightOf(Range(o)) /\ lb - e.bytes \in Nat
  <2>1. /\ IsFiniteSet(Bytes(Range(ord) \ {e}))
        /\ WeightOf(Range(ord)) = WeightOf(Range(ord) \ {e}) + e.bytes
        /\ WeightOf(Range(ord) \ {e}) \in Nat
    BY <1>1, WeightOut DEF Core
  <2>2. lb = WeightOf(Range(ord))
    BY DEF Core
  <2> QED BY <1>1, <1>3, <2>1, <2>2
<1>5. mb[c] - e.bytes = WeightOf(Range(t)) /\ mb[c] - e.bytes \in Nat
  <2>1. /\ WeightOf(Range(s)) = WeightOf(Range(s) \ {e}) + e.bytes
        /\ WeightOf(Range(s) \ {e}) \in Nat
    BY <1>1, WeightOut
  <2>2. mb[c] = WeightOf(Range(s))
    BY <1>1 DEF Core, MapInv
  <2> QED BY <1>1, <1>2, <2>1, <2>2
<1> HIDE DEF t, o, c
<1>6. /\ st1 \in [Cache -> Seq(Entry)] /\ mb1 \in [Cache -> Nat]
      /\ st1[c] = t /\ mb1[c] = mb[c] - e.bytes
      /\ \A m \in Cache \ {c} : st1[m] = st[m] /\ mb1[m] = mb[m]
  BY <1>1, <1>2, <1>5 DEF Core
<1>7. \A m \in Cache \ {c} : e \notin Range(st[m])
  BY DEF Core, MapInv, c
<1>8. \A m \in Cache : Range(st1[m]) = Range(st[m]) \ {e}
  BY <1>2, <1>6, <1>7
<1>9. MapInv(c, t, mb[c] - e.bytes, o)
  <2>1. \A x, y \in Range(t) : Before(t, x, y) => Before(o, x, y)
    BY <1>1, <1>2, <1>3 DEF Core, MapInv
  <2>2. /\ \A x \in Range(t) : x.cache = c
        /\ \A x, y \in Range(t) : x.key = y.key => x = y
    BY <1>1, <1>2 DEF Core, MapInv
  <2> QED BY <1>2, <1>5, <2>1, <2>2 DEF MapInv
<1>10. ASSUME NEW m \in Cache \ {c} PROVE MapInv(m, st[m], mb[m], o)
  <2>1. MapInv(m, st[m], mb[m], ord) /\ e \notin Range(st[m])
    BY <1>7 DEF Core
  <2> QED BY <2>1, <1>3 DEF MapInv
<1>11. \A m \in Cache : MapInv(m, st1[m], mb1[m], o)
  BY <1>6, <1>9, <1>10
<1>12. Range(o) = UNION {Range(st1[m]) : m \in Cache}
  BY <1>3, <1>8 DEF Core
<1>13. Core(st1, mb1, o, lb - e.bytes)
  BY <1>3, <1>4, <1>6, <1>11, <1>12 DEF Core
<1> QED BY <1>2, <1>3, <1>13 DEF c, t, o

(* Putting one into its map and the ledger, as the most recent of each.    *)
LEMMA InKeepsCore ==
    ASSUME NEW st, NEW mb, NEW ord, NEW lb, Core(st, mb, ord, lb),
           NEW e \in Entry, e \notin Range(ord),
           \A x \in Range(st[e.cache]) : x.key # e.key
    PROVE  /\ Core([st EXCEPT ![e.cache] = Append(@, e)],
                   [mb EXCEPT ![e.cache] = @ + e.bytes],
                   Append(ord, e), lb + e.bytes)
           /\ Range(Append(ord, e)) = Range(ord) \cup {e}
<1> DEFINE c == e.cache
<1> DEFINE s == st[c]
<1> DEFINE t == Append(s, e)
<1> DEFINE o == Append(ord, e)
<1> DEFINE st1 == [st EXCEPT ![c] = t]
<1> DEFINE mb1 == [mb EXCEPT ![c] = @ + e.bytes]
<1>1. /\ c \in Cache /\ e.bytes \in Nat /\ e \notin Range(s)
      /\ s \in Seq(Entry) /\ Distinct(s) /\ ord \in Seq(Entry) /\ Distinct(ord)
      /\ IsFiniteSet(Bytes(Range(s))) /\ IsFiniteSet(Bytes(Range(ord)))
      /\ Range(s) \subseteq Range(ord)
  <2>1. c \in Cache /\ e.bytes \in Nat
    BY EntryFacts
  <2>2. IsFiniteSet(Bytes(Range(s))) /\ Range(s) \subseteq Range(ord)
    BY <2>1, ChargedIsStored
  <2>3. s \in Seq(Entry) /\ Distinct(s) /\ ord \in Seq(Entry) /\ Distinct(ord)
    BY <2>1 DEF Core, MapInv
  <2> QED BY <2>1, <2>2, <2>3 DEF Core
<1>2. /\ t \in Seq(Entry) /\ Distinct(t) /\ Range(t) = Range(s) \cup {e}
      /\ \A x, y : Before(t, x, y) => Before(s, x, y) \/ (x \in Range(s) /\ y = e)
  BY <1>1, AppendOne
<1>3. /\ o \in Seq(Entry) /\ Distinct(o) /\ Range(o) = Range(ord) \cup {e}
      /\ \A x, y : Before(ord, x, y) => Before(o, x, y)
      /\ \A x \in Range(ord) : Before(o, x, e)
  BY <1>1, AppendOne
<1>4. /\ IsFiniteSet(Bytes(Range(o)))
      /\ lb + e.bytes = WeightOf(Range(o)) /\ lb + e.bytes \in Nat
  <2>1. /\ IsFiniteSet(Bytes(Range(ord) \cup {e}))
        /\ WeightOf(Range(ord) \cup {e}) = WeightOf(Range(ord)) + e.bytes
    BY <1>1, WeightIn
  <2>2. lb = WeightOf(Range(ord)) /\ lb \in Nat
    BY DEF Core
  <2> QED BY <1>1, <1>3, <2>1, <2>2
<1>5. mb[c] + e.bytes = WeightOf(Range(t)) /\ mb[c] + e.bytes \in Nat
  <2>1. WeightOf(Range(s) \cup {e}) = WeightOf(Range(s)) + e.bytes
    BY <1>1, WeightIn
  <2>2. mb[c] = WeightOf(Range(s)) /\ mb[c] \in Nat
    BY <1>1 DEF Core, MapInv
  <2> QED BY <1>1, <1>2, <2>1, <2>2
<1> HIDE DEF t, o, c
<1>6. /\ st1 \in [Cache -> Seq(Entry)] /\ mb1 \in [Cache -> Nat]
      /\ st1[c] = t /\ mb1[c] = mb[c] + e.bytes
      /\ \A m \in Cache \ {c} : st1[m] = st[m] /\ mb1[m] = mb[m]
  BY <1>1, <1>2, <1>5 DEF Core
<1>7. MapInv(c, t, mb[c] + e.bytes, o)
  <2>1. MapInv(c, s, mb[c], ord)
    BY <1>1 DEF Core
  <2>2. \A x, y \in Range(t) : Before(t, x, y) => Before(o, x, y)
    <3> SUFFICES ASSUME NEW x \in Range(t), NEW y \in Range(t), Before(t, x, y)
                 PROVE  Before(o, x, y)
      OBVIOUS
    <3>1. CASE Before(s, x, y)
      <4>1. x \in Range(s) /\ y \in Range(s)
        BY <3>1 DEF Before, Range
      <4> QED BY <3>1, <4>1, <2>1, <1>3 DEF MapInv
    <3>2. CASE x \in Range(s) /\ y = e
      BY <3>2, <1>1, <1>3
    <3> QED BY <3>1, <3>2, <1>2
  <2>3. /\ \A x \in Range(t) : x.cache = c
        /\ \A x, y \in Range(t) : x.key = y.key => x = y
    BY <2>1, <1>2 DEF MapInv, c
  <2> QED BY <1>2, <1>5, <2>2, <2>3 DEF MapInv
<1>8. \A m \in Cache \ {c} : MapInv(m, st[m], mb[m], o)
  BY <1>3 DEF Core, MapInv
<1>9. \A m \in Cache : MapInv(m, st1[m], mb1[m], o)
  BY <1>6, <1>7, <1>8
<1>10. Range(o) = UNION {Range(st1[m]) : m \in Cache}
  <2>1. /\ c \in Cache /\ Range(st1[c]) = Range(st[c]) \cup {e}
        /\ \A m \in Cache \ {c} : Range(st1[m]) = Range(st[m])
    BY <1>1, <1>2, <1>6
  <2> HIDE DEF st1
  <2>2. \A x : x \in Range(ord) <=> \E m \in Cache : x \in Range(st[m])
    BY DEF Core
  <2>3. \A x : x \in Range(o) <=> x \in Range(ord) \/ x = e
    BY <1>3
  <2>4. \A x \in Range(o) : \E m \in Cache : x \in Range(st1[m])
    BY <2>1, <2>2, <2>3
  <2>5. \A m \in Cache : \A x \in Range(st1[m]) : x \in Range(o)
    BY <2>1, <2>2, <2>3
  <2> QED BY <2>4, <2>5
<1>11. Core(st1, mb1, o, lb + e.bytes)
  BY <1>3, <1>4, <1>6, <1>9, <1>10 DEF Core
<1> QED BY <1>3, <1>11 DEF c, t, o

-----------------------------------------------------------------------------
(* The inductive invariant.  A map keeps to its bounds, but for the one    *)
(* that set() is trimming; and until it has made room, the entry that it   *)
(* wrote is the last in the ledger, and would fit it alone.                *)
Fits(m) ==
    /\ Len(store[m]) <= MaxEntries[m]
    /\ OverBudget(m) => Len(store[m]) = 1

Writing == pc \in {"trim", "enforce"}

LoopInv ==
    /\ pc \in {"idle", "trim", "enforce", "sweep"}
    /\ cur \in Seq(Entry) /\ Len(cur) = IF Writing THEN 1 ELSE 0
    /\ expired \subseteq Entry
    /\ ~Writing => ledgerBytes <= Budget
    /\ \A m \in Cache : (pc = "trim" /\ m = cur[1].cache) \/ Fits(m)
    /\ pc = "sweep" => expired \subseteq Live
    /\ Writing => cur[1] \in Live /\ order[Len(order)] = cur[1] /\ cur[1].bytes <= Budget

Charges == Core(store, mapBytes, order, ledgerBytes)

LedgerInv == Charges /\ LoopInv

LEMMA LedgerInvImpliesProperties ==
    LedgerInv => BudgetTypeOK /\ LedgerMirrorsMaps /\ BoundsHold
<1> SUFFICES ASSUME LedgerInv PROVE BudgetTypeOK /\ LedgerMirrorsMaps /\ BoundsHold
  OBVIOUS
<1>1. BudgetTypeOK
  BY DEF LedgerInv, Charges, Core, MapInv, LoopInv, Writing, BudgetTypeOK, Live, Stored
<1>2. LedgerMirrorsMaps
  BY DEF LedgerInv, Charges, Core, MapInv, LedgerMirrorsMaps, Live, Stored, Under
<1>3. BoundsHold
  <2>1. Writing => cur[1] \in Stored(cur[1].cache) /\ Last(order) = cur[1]
    BY ChargedIsStored DEF LedgerInv, Charges, LoopInv, Live, Stored, Last
  <2> QED BY <2>1 DEF LedgerInv, LoopInv, Writing, Fits, BoundsHold
<1> QED BY <1>1, <1>2, <1>3

LEMMA NothingWeighsNothing == Bytes({}) = {} /\ WeightOf({}) = 0
<1>1. Bytes({}) = {}
  BY DEF Bytes
<1> QED BY <1>1, FS_EmptySet DEF WeightOf

LEMMA BudgetInitImpliesInv == BudgetInit => LedgerInv
<1> SUFFICES ASSUME BudgetInit PROVE LedgerInv
  OBVIOUS
<1>1. /\ order = <<>> /\ Range(order) = {} /\ Distinct(order)
      /\ \A m \in Cache : store[m] = <<>> /\ Range(store[m]) = {} /\ Distinct(store[m])
  BY DEF BudgetInit, Range, Distinct
<1>2. \A m \in Cache : MapInv(m, store[m], mapBytes[m], order)
  BY <1>1, NothingWeighsNothing DEF MapInv, BudgetInit
<1>3. Charges
  <2>1. store \in [Cache -> Seq(Entry)] /\ mapBytes \in [Cache -> Nat]
    BY DEF BudgetInit
  <2>2. order \in Seq(Entry) /\ ledgerBytes = 0
    BY DEF BudgetInit
  <2>3. UNION {Range(store[m]) : m \in Cache} = {}
    BY <1>1
  <2>4. IsFiniteSet(Bytes(Range(order))) /\ WeightOf(Range(order)) = 0
    BY <1>1, NothingWeighsNothing, FS_EmptySet
  <2> QED BY <1>1, <1>2, <2>1, <2>2, <2>3, <2>4 DEF Charges, Core
<1>4. \A m \in Cache : Fits(m)
  BY <1>1, BoundsAssumption DEF Fits, OverBudget, BudgetInit
<1>5. LoopInv
  BY <1>4, BoundsAssumption DEF LoopInv, BudgetInit, Writing
<1> QED BY <1>3, <1>5 DEF LedgerInv

-----------------------------------------------------------------------------
(* A release leaves every map within its bounds that was, and whatever was *)
(* the last in the ledger there, unless it is what is released.            *)
LEMMA ReleaseKeepsCharges ==
    ASSUME Charges, NEW e \in Live, Release(e)
    PROVE  /\ Charges'
           /\ Live' = Live \ {e}
           /\ Len(order') = Len(order) - 1
           /\ order[Len(order)] # e => order'[Len(order')] = order[Len(order)]
           /\ ledgerBytes' <= ledgerBytes
           /\ \A m \in Cache : Fits(m) => Fits(m)'
<1> DEFINE c == e.cache
<1>1. /\ e \in Entry /\ c \in Cache /\ e.bytes \in Nat /\ e \in Range(store[c])
  BY ChargedIsStored, EntryFacts DEF Charges, Live
<1>2. /\ store' = [store EXCEPT ![c] = RemoveFirst(@, e)]
      /\ mapBytes' = [mapBytes EXCEPT ![c] = @ - e.bytes]
      /\ order' = RemoveFirst(order, e)
      /\ ledgerBytes' = ledgerBytes - e.bytes
  BY DEF Release
<1>3. /\ Core(store', mapBytes', order', ledgerBytes')
      /\ Range(order') = Range(order) \ {e}
  <2>1. /\ Core([store EXCEPT ![c] = RemoveFirst(@, e)],
                [mapBytes EXCEPT ![c] = @ - e.bytes],
                RemoveFirst(order, e), ledgerBytes - e.bytes)
        /\ Range(RemoveFirst(order, e)) = Range(order) \ {e}
    BY OutKeepsCore DEF Charges, Live
  <2> QED BY <2>1, <1>2
<1>4. /\ store \in [Cache -> Seq(Entry)] /\ mapBytes \in [Cache -> Nat]
      /\ order \in Seq(Entry) /\ ledgerBytes \in Nat
      /\ Distinct(order) /\ Distinct(store[c])
  BY <1>1 DEF Charges, Core, MapInv
<1>5. /\ Len(order') = Len(order) - 1
      /\ order[Len(order)] # e => order'[Len(order')] = order[Len(order)]
  BY <1>2, <1>4, RemoveOne DEF Live
<1>6. Len(store'[c]) = Len(store[c]) - 1 /\ store'[c] \in Seq(Entry)
  BY <1>1, <1>2, <1>4, RemoveOne
<1>7. \A m \in Cache \ {c} : store'[m] = store[m] /\ mapBytes'[m] = mapBytes[m]
  BY <1>1, <1>2, <1>4
<1>8. mapBytes'[c] = mapBytes[c] - e.bytes /\ mapBytes'[c] = WeightOf(Range(store'[c]))
  BY <1>1, <1>2, <1>3, <1>4 DEF Core, MapInv
<1>9. ASSUME NEW m \in Cache \ {c}, Fits(m) PROVE Fits(m)'
  BY <1>7, <1>9 DEF Fits, OverBudget
<1>10. ASSUME Fits(c) PROVE Fits(c)'
  <2>1. Len(store[c]) \in Nat /\ mapBytes[c] \in Nat /\ MaxEntries[c] \in Nat
    BY <1>1, <1>4, BoundsAssumption
  <2>2. Len(store'[c]) <= MaxEntries[c]
    BY <2>1, <1>6, <1>10 DEF Fits
  <2>3. ~OverBudget(c)'
    <3> SUFFICES ASSUME OverBudget(c)' PROVE FALSE
      OBVIOUS
    <3>1. MaxBytes[c] # NoBound /\ mapBytes'[c] > MaxBytes[c]
      BY DEF OverBudget
    <3>2. MaxBytes[c] \in Nat
      BY <3>1, <1>1, BoundsAssumption
    <3>3. mapBytes[c] > MaxBytes[c]
      BY <3>1, <3>2, <2>1, <1>1, <1>8
    <3>4. Len(store[c]) = 1
      BY <3>1, <3>3, <1>10 DEF Fits, OverBudget
    <3>5. store'[c] = <<>>
      BY <3>4, <1>6
    <3>6. Range(store'[c]) = {}
      BY <3>5 DEF Range
    <3>7. mapBytes'[c] = 0
      BY <3>6, <1>8, NothingWeighsNothing
    <3> QED BY <3>1, <3>2, <3>7
  <2> QED BY <2>2, <2>3 DEF Fits
<1> QED BY <1>1, <1>2, <1>3, <1>4, <1>5, <1>9, <1>10 DEF Charges, Live

(* Found by its key, an entry is the one that is released.                 *)
LEMMA OneUnderAKey ==
    ASSUME Charges, NEW e \in Live
    PROVE  Under(e.cache, e.key) = {e}
<1>1. e.cache \in Cache /\ e \in Range(store[e.cache])
  BY ChargedIsStored, EntryFacts DEF Charges, Live
<1>2. \A x \in Range(store[e.cache]) : x.key = e.key => x = e
  BY <1>1 DEF Charges, Core, MapInv
<1> QED BY <1>1, <1>2 DEF Under, Stored

LEMMA EvictReleases ==
    ASSUME Charges, NEW e \in Live, Evict(e.cache, e.key)
    PROVE  Release(e)
BY OneUnderAKey DEF Evict

-----------------------------------------------------------------------------
(* A hit takes the entry out and puts it in again, as the most recent.     *)
LEMMA GetKeepsInv ==
    ASSUME LedgerInv, NEW m \in Cache, NEW k \in Key, Get(m, k)
    PROVE  LedgerInv'
<1>1. PICK e \in Under(m, k) :
          /\ store' = [store EXCEPT ![m] = Append(RemoveFirst(@, e), e)]
          /\ order' = IF e \in Live THEN ToEnd(order, e) ELSE order
  BY DEF Get
<1>2. pc = "idle" /\ UNCHANGED <<mapBytes, ledgerBytes, pc, cur, expired>>
  BY DEF Get
<1>3. Charges
  BY DEF LedgerInv
<1>4. e \in Range(store[m]) /\ e \in Range(order) /\ e \in Entry /\ e.cache = m /\ e.bytes \in Nat
  <2>1. e \in Range(store[m])
    BY DEF Under, Stored
  <2>2. e \in Range(order)
    BY <2>1, <1>3, ChargedIsStored DEF Charges
  <2>3. e.cache = m
    BY <2>1, <1>3 DEF Charges, Core, MapInv
  <2>4. e \in Entry
    BY <2>2, <1>3, ChargedIsStored DEF Charges
  <2> QED BY <2>1, <2>2, <2>3, <2>4, EntryFacts
<1>5. /\ store \in [Cache -> Seq(Entry)] /\ mapBytes \in [Cache -> Nat] /\ ledgerBytes \in Nat
      /\ Distinct(store[m]) /\ \A x, y \in Range(store[m]) : x.key = y.key => x = y
  BY <1>3 DEF Charges, Core, MapInv
<1> DEFINE st == [store EXCEPT ![m] = RemoveFirst(@, e)]
<1> DEFINE mb == [mapBytes EXCEPT ![m] = @ - e.bytes]
<1> DEFINE ord == RemoveFirst(order, e)
<1>6. /\ Core(st, mb, ord, ledgerBytes - e.bytes)
      /\ Range(ord) = Range(order) \ {e}
      /\ Range(RemoveFirst(store[m], e)) = Range(store[m]) \ {e}
  BY <1>3, <1>4, OutKeepsCore DEF Charges
<1>7. /\ st \in [Cache -> Seq(Entry)] /\ mb \in [Cache -> Nat]
      /\ st[m] = RemoveFirst(store[m], e) /\ mb[m] = mapBytes[m] - e.bytes
      /\ \A n \in Cache \ {m} : st[n] = store[n] /\ mb[n] = mapBytes[n]
  BY <1>5, <1>6 DEF Core
<1>8. Len(st[m]) = Len(store[m]) - 1
  BY <1>4, <1>5, <1>7, RemoveOne
<1> HIDE DEF st, mb, ord
<1>9. Core([st EXCEPT ![m] = Append(@, e)], [mb EXCEPT ![m] = @ + e.bytes],
           Append(ord, e), (ledgerBytes - e.bytes) + e.bytes)
  <2>1. \A x \in Range(st[e.cache]) : x.key # e.key
    BY <1>4, <1>5, <1>6, <1>7
  <2>2. e \notin Range(ord)
    BY <1>6
  <2> QED BY <2>1, <2>2, <1>4, <1>6, InKeepsCore
<1>10. store' = [st EXCEPT ![m] = Append(@, e)]
  BY <1>1, <1>5 DEF st
<1>11. mapBytes' = [mb EXCEPT ![m] = @ + e.bytes]
  <2>1. (mapBytes[m] - e.bytes) + e.bytes = mapBytes[m]
    BY <1>4, <1>5
  <2> QED BY <2>1, <1>2, <1>5, <1>7
<1>12. order' = Append(ord, e)
  BY <1>1, <1>4 DEF ord, ToEnd, Live
<1>13. (ledgerBytes - e.bytes) + e.bytes = ledgerBytes'
  BY <1>2, <1>4, <1>5
<1>14. Charges'
  BY <1>9, <1>10, <1>11, <1>12, <1>13 DEF Charges
<1>15. \A n \in Cache : Len(store'[n]) = Len(store[n])
  <2>1. Len(store'[m]) = Len(store[m])
    <3>1. store'[m] = Append(st[m], e) /\ st[m] \in Seq(Entry) /\ Len(store[m]) \in Nat
      BY <1>5, <1>7, <1>10
    <3> QED BY <3>1, <1>8
  <2>2. \A n \in Cache \ {m} : store'[n] = store[n]
    BY <1>1, <1>5
  <2> QED BY <2>1, <2>2
<1>16. \A n \in Cache : Fits(n) => Fits(n)'
  BY <1>2, <1>15 DEF Fits, OverBudget
<1>17. LoopInv'
  BY <1>2, <1>16 DEF LedgerInv, LoopInv, Writing
<1> QED BY <1>14, <1>17 DEF LedgerInv

LEMMA DeleteKeepsInv ==
    ASSUME LedgerInv, NEW m \in Cache, NEW k \in Key, Delete(m, k)
    PROVE  LedgerInv'
<1>1. PICK e \in Under(m, k) : Release(e)
  BY DEF Delete
<1>2. pc = "idle" /\ UNCHANGED <<pc, cur, expired>>
  BY DEF Delete
<1>3. Charges
  BY DEF LedgerInv
<1>4. e \in Live
  BY <1>3, ChargedIsStored DEF Charges, Under, Stored, Live
<1>5. Charges' /\ ledgerBytes' <= ledgerBytes /\ \A n \in Cache : Fits(n) => Fits(n)'
  BY <1>1, <1>3, <1>4, ReleaseKeepsCharges
<1>6. ledgerBytes' <= Budget
  BY <1>2, <1>3, <1>5, BoundsAssumption DEF LedgerInv, LoopInv, Writing, Charges, Core
<1>7. LoopInv'
  BY <1>2, <1>5, <1>6 DEF LedgerInv, LoopInv, Writing
<1> QED BY <1>5, <1>7 DEF LedgerInv

(* A write takes out what it replaces, if anything, and puts the new entry *)
(* in: what is trimmed next is its map.                                    *)
LEMMA SetBeginKeepsInv ==
    ASSUME LedgerInv, NEW e \in Entry, SetBegin(e)
    PROVE  LedgerInv'
<1> DEFINE c == e.cache
<1> DEFINE olds == Under(c, e.key)
<1> DEFINE old == CHOOSE x \in olds : TRUE
<1> DEFINE st == IF olds = {} THEN store ELSE [store EXCEPT ![c] = RemoveFirst(@, old)]
<1> DEFINE mb == IF olds = {} THEN mapBytes ELSE [mapBytes EXCEPT ![c] = @ - old.bytes]
<1> DEFINE ord == IF olds = {} THEN order ELSE RemoveFirst(order, old)
<1> DEFINE lb == IF olds = {} THEN ledgerBytes ELSE ledgerBytes - old.bytes
<1>1. /\ pc = "idle" /\ e \notin Live /\ e.bytes <= Budget
      /\ store' = [store EXCEPT ![c] = Append(Replaced(@, olds), e)]
      /\ mapBytes' = [mapBytes EXCEPT ![c] = @ - Freed(olds) + e.bytes]
      /\ order' = Append(Replaced(order, olds), e)
      /\ ledgerBytes' = ledgerBytes - Freed(olds) + e.bytes
      /\ cur' = <<e>> /\ pc' = "trim" /\ expired' = expired
  BY DEF SetBegin, Storable
<1>2. Charges /\ c \in Cache /\ e.bytes \in Nat
  BY EntryFacts DEF LedgerInv
<1>3. /\ store \in [Cache -> Seq(Entry)] /\ mapBytes \in [Cache -> Nat]
      /\ order \in Seq(Entry) /\ ledgerBytes \in Nat
  BY <1>2 DEF Charges, Core
<1>4. /\ Core(st, mb, ord, lb)
      /\ e \notin Range(ord)
      /\ \A x \in Range(st[c]) : x.key # e.key
  <2>1. CASE olds = {}
    BY <2>1, <1>1, <1>2 DEF Charges, Live, Under, Stored
  <2>2. CASE olds # {}
    <3>1. old \in Range(store[c]) /\ old.key = e.key
      BY <2>2 DEF Under, Stored
    <3>2. old \in Range(order) /\ old.cache = c
      <4>1. old \in Range(order)
        BY <3>1, <1>2, ChargedIsStored DEF Charges
      <4>2. old.cache = c
        BY <3>1, <1>2 DEF Charges, Core, MapInv
      <4> QED BY <4>1, <4>2
    <3> HIDE DEF old, olds, c
    <3>3. /\ Core(st, mb, ord, lb)
          /\ Range(ord) = Range(order) \ {old}
          /\ Range(RemoveFirst(store[c], old)) = Range(store[c]) \ {old}
      BY <2>2, <3>2, <1>2, OutKeepsCore DEF Charges
    <3>4. Range(st[c]) = Range(store[c]) \ {old}
      BY <2>2, <3>3, <1>2, <1>3
    <3>5. \A x, y \in Range(store[c]) : x.key = y.key => x = y
      BY <1>2 DEF Charges, Core, MapInv
    <3> QED BY <3>1, <3>3, <3>4, <3>5, <1>1 DEF Live
  <2> QED BY <2>1, <2>2
<1>5. \A x \in olds : x.bytes \in Nat
  BY <1>2, ChargedIsStored, EntryFacts DEF Charges, Under, Stored
<1>6. olds # {} => old \in olds
  OBVIOUS
<1> HIDE DEF old, olds
<1>7. /\ store' = [st EXCEPT ![c] = Append(@, e)]
      /\ order' = Append(ord, e)
  BY <1>1, <1>2, <1>3 DEF Replaced, old
<1>8. /\ mapBytes' = [mb EXCEPT ![c] = @ + e.bytes]
      /\ ledgerBytes' = lb + e.bytes
  <2>1. CASE olds = {}
    <3>1. Freed(olds) = 0
      BY <2>1 DEF Freed
    <3>2. mapBytes[c] - 0 = mapBytes[c] /\ ledgerBytes - 0 = ledgerBytes
      BY <1>2, <1>3
    <3> QED BY <2>1, <3>1, <3>2, <1>1, <1>2, <1>3
  <2>2. CASE olds # {}
    <3>1. Freed(olds) = old.bytes
      BY <2>2 DEF Freed, old
    <3> QED BY <2>2, <3>1, <1>1, <1>2, <1>3
  <2> QED BY <2>1, <2>2
<1> HIDE DEF st, mb, ord, lb
<1>9. Charges' /\ Range(order') = Range(ord) \cup {e}
  <2>1. /\ Core([st EXCEPT ![c] = Append(@, e)], [mb EXCEPT ![c] = @ + e.bytes],
                Append(ord, e), lb + e.bytes)
        /\ Range(Append(ord, e)) = Range(ord) \cup {e}
    BY <1>4, InKeepsCore
  <2> QED BY <2>1, <1>7, <1>8 DEF Charges
<1>10. order'[Len(order')] = e
  <2>1. ord \in Seq(Entry)
    BY <1>4 DEF Core
  <2> QED BY <2>1, <1>7
<1>11. \A m \in Cache \ {c} : Fits(m)'
  <2>1. \A m \in Cache \ {c} : store'[m] = store[m] /\ mapBytes'[m] = mapBytes[m]
    BY <1>1, <1>3
  <2>2. \A m \in Cache : Fits(m)
    BY <1>1 DEF LedgerInv, LoopInv
  <2> QED BY <2>1, <2>2 DEF Fits, OverBudget
<1>12. LoopInv'
  <2>1. cur' \in Seq(Entry) /\ Len(cur') = 1 /\ cur'[1] = e
    BY <1>1
  <2>2. expired' \subseteq Entry
    BY <1>1 DEF LedgerInv, LoopInv
  <2> QED BY <2>1, <2>2, <1>1, <1>9, <1>10, <1>11 DEF LoopInv, Writing, Live
<1> QED BY <1>9, <1>12 DEF LedgerInv

-----------------------------------------------------------------------------
(* A turn that releases another entry than the one written goes on as the  *)
(* loop was.                                                               *)
LEMMA TurnKeepsInv ==
    ASSUME LedgerInv, Writing, NEW e \in Live, e # cur[1], Evict(e.cache, e.key),
           UNCHANGED <<pc, cur, expired>>
    PROVE  LedgerInv' /\ Len(order') = Len(order) - 1
<1>1. Charges /\ Release(e)
  BY EvictReleases DEF LedgerInv
<1>2. /\ Charges' /\ Live' = Live \ {e} /\ Len(order') = Len(order) - 1
      /\ order[Len(order)] # e => order'[Len(order')] = order[Len(order)]
      /\ \A m \in Cache : Fits(m) => Fits(m)'
  BY <1>1, ReleaseKeepsCharges
<1>3. LoopInv'
  <2>1. \A m \in Cache : (pc = "trim" /\ m = cur[1].cache) \/ Fits(m)'
    BY <1>2 DEF LedgerInv, LoopInv
  <2>2. cur[1] \in Live' /\ order'[Len(order')] = cur[1]
    BY <1>2 DEF LedgerInv, LoopInv
  <2> QED BY <2>1, <2>2 DEF LedgerInv, LoopInv, Writing
<1> QED BY <1>2, <1>3 DEF LedgerInv

LEMMA TrimStepKeepsInv ==
    ASSUME LedgerInv, TrimStep
    PROVE  LedgerInv' /\ Len(order') = Len(order) - 1 /\ pc' = pc
<1> DEFINE m == cur[1].cache
<1> DEFINE v == Head(store[m])
<1>1. /\ pc = "trim" /\ Writing /\ MustTrim(m) /\ Evict(m, v.key)
      /\ UNCHANGED <<pc, cur, expired>>
  BY DEF TrimStep, Writing
<1>2. Charges /\ m \in Cache
  BY <1>1, ChargedIsStored, EntryFacts DEF LedgerInv, LoopInv, Charges, Live
<1>3. v \in Range(store[m])
  <2>1. store[m] \in Seq(Entry) /\ Len(store[m]) > 1
    BY <1>1, <1>2 DEF Charges, Core, MustTrim
  <2> QED BY <2>1 DEF Range
<1>4. v \in Live
  BY <1>2, <1>3, ChargedIsStored DEF Charges, Live
<1>5. v.cache = m
  BY <1>2, <1>3 DEF Charges, Core, MapInv
<1>6. v # cur[1]
  BY <1>1 DEF MustTrim
<1> HIDE DEF v, m
<1> QED BY <1>1, <1>4, <1>5, <1>6, TurnKeepsInv

(* The last in the ledger is the last in its map.                          *)
LEMMA NothingAfterTheLast ==
    ASSUME Charges, order # <<>>, NEW m \in Cache, NEW x \in Range(store[m]),
           order[Len(order)] = x
    PROVE  \A y \in Range(store[m]) : ~Before(store[m], x, y)
<1> SUFFICES ASSUME NEW y \in Range(store[m]), Before(store[m], x, y) PROVE FALSE
  OBVIOUS
<1>1. Before(order, x, y)
  BY DEF Charges, Core, MapInv
<1>2. PICK i \in DOMAIN order, j \in DOMAIN order : i < j /\ order[i] = x
  BY <1>1 DEF Before
<1>3. order \in Seq(Entry) /\ Distinct(order)
  BY DEF Charges, Core
<1>4. Len(order) \in Nat /\ DOMAIN order = 1..Len(order) /\ Len(order) \in DOMAIN order
  BY <1>3
<1>5. i = Len(order)
  BY <1>2, <1>3, <1>4 DEF Distinct
<1> QED BY <1>2, <1>4, <1>5

(* The loop of set() ends with its map in its bounds: the written entry is *)
(* only the oldest of its map when it is there alone.                      *)
LEMMA TrimEndKeepsInv == ASSUME LedgerInv, TrimEnd PROVE LedgerInv'
<1> DEFINE m == cur[1].cache
<1> DEFINE s == store[m]
<1>1. /\ pc = "trim" /\ Writing /\ ~MustTrim(m) /\ pc' = "enforce"
      /\ UNCHANGED <<store, mapBytes, order, ledgerBytes, cur, expired>>
  BY DEF TrimEnd, Writing
<1>2. /\ Charges /\ m \in Cache /\ cur[1] \in Range(s) /\ order[Len(order)] = cur[1]
      /\ cur[1] \in Range(order)
  BY <1>1, ChargedIsStored, EntryFacts DEF LedgerInv, LoopInv, Charges, Live
<1>3. /\ s \in Seq(Entry) /\ Len(s) \in Nat /\ DOMAIN s = 1..Len(s) /\ order # <<>>
      /\ \A x, y \in Range(s) : x.key = y.key => x = y
      /\ MaxEntries[m] \in Nat \ {0}
  <2>1. s \in Seq(Entry) /\ \A x, y \in Range(s) : x.key = y.key => x = y
    BY <1>2 DEF Charges, Core, MapInv
  <2>2. order # <<>>
    BY <1>2 DEF Range
  <2>3. MaxEntries[m] \in Nat \ {0}
    BY <1>2, BoundsAssumption
  <2>4. Len(s) \in Nat /\ DOMAIN s = 1..Len(s)
    BY <2>1
  <2> QED BY <2>1, <2>2, <2>3, <2>4
<1>4. Len(s) >= 1
  BY <1>2, <1>3 DEF Range
<1>5. ASSUME Head(s).key = cur[1].key, Len(s) > 1 PROVE FALSE
  <2>1. s[1] \in Range(s) /\ s[2] \in Range(s) /\ Head(s) = s[1]
    BY <1>3, <1>5 DEF Range
  <2>2. s[1] = cur[1]
    BY <2>1, <1>2, <1>3, <1>5
  <2>3. Before(s, s[1], s[2])
    BY <1>3, <1>5 DEF Before
  <2> QED BY <2>1, <2>2, <2>3, <1>2, <1>3, NothingAfterTheLast
<1>6. Fits(m)
  <2>1. Len(s) \in Nat /\ MaxEntries[m] \in Nat /\ MaxEntries[m] >= 1
    BY <1>3
  <2>2. CASE Len(s) > 1
    <3>1. ~(Len(s) > MaxEntries[m]) /\ ~OverBudget(m)
      BY <2>2, <1>1, <1>5 DEF MustTrim
    <3> QED BY <3>1, <2>1 DEF Fits
  <2>3. CASE Len(s) = 1
    BY <2>1, <2>3 DEF Fits
  <2>4. Len(s) > 1 \/ Len(s) = 1
    <3>1. \A n \in Nat : n >= 1 => n > 1 \/ n = 1
      OBVIOUS
    <3> QED BY <3>1, <2>1, <1>4, Zenon
  <2> QED BY <2>2, <2>3, <2>4
<1>7. \A n \in Cache : Fits(n)'
  BY <1>1, <1>6 DEF LedgerInv, LoopInv, Fits, OverBudget
<1>8. Charges'
  BY <1>1, <1>2 DEF Charges
<1>9. LoopInv'
  BY <1>1, <1>7 DEF LedgerInv, LoopInv, Writing, Live
<1> QED BY <1>8, <1>9 DEF LedgerInv

(* The victim is an entry other than the one written, so that its release  *)
(* is one and the loop goes on.                                            *)
LEMMA EnforceStepKeepsInv ==
    ASSUME LedgerInv, EnforceStep
    PROVE  LedgerInv' /\ Len(order') = Len(order) - 1 /\ pc' = pc
<1>1. /\ pc = "enforce" /\ Writing /\ HasVictim /\ expired' = expired
      /\ Evict(Victim.cache, Victim.key)
      /\ IF Len(order') = Len(order) THEN pc' = "idle" /\ cur' = <<>> ELSE UNCHANGED <<pc, cur>>
  BY DEF EnforceStep, Writing
<1>2. /\ Charges /\ order \in Seq(Entry) /\ Distinct(order) /\ order[Len(order)] = cur[1]
      /\ cur[1] \in Range(order)
  BY <1>1 DEF LedgerInv, LoopInv, Charges, Core, Live
<1>3. Len(order) \in Nat /\ DOMAIN order = 1..Len(order)
  BY <1>2
<1>4. PICK x \in Range(order) : x # cur[1]
  BY <1>1 DEF HasVictim, Live
<1>5. Len(order) > 1
  <2>1. PICK i \in 1..Len(order) : order[i] = x
    BY <1>3 DEF Range
  <2>2. i # Len(order)
    BY <2>1, <1>2, <1>4
  <2>3. i \in 1..Len(order) /\ Len(order) \in Nat
    BY <1>3
  <2> QED BY ONLY <2>2, <2>3
<1>6. order[1] # cur[1]
  BY <1>2, <1>3, <1>5 DEF Distinct
<1>7. Victim = order[1] /\ Victim \in Live /\ Victim # cur[1]
  BY <1>3, <1>5, <1>6 DEF Victim, Live, Range
<1> HIDE DEF Victim
<1>8. Release(Victim)
  BY <1>1, <1>2, <1>7, EvictReleases
<1>9. Len(order') = Len(order) - 1
  BY <1>2, <1>7, <1>8, ReleaseKeepsCharges
<1>10. UNCHANGED <<pc, cur, expired>>
  <2>1. Len(order') # Len(order)
    <3>1. Len(order) \in Nat
      BY <1>3
    <3> QED BY ONLY <3>1, <1>9
  <2> QED BY <2>1, <1>1
<1> QED BY <1>1, <1>7, <1>10, TurnKeepsInv

(* Without a victim the ledger holds the written entry alone.              *)
LEMMA EnforceEndKeepsInv == ASSUME LedgerInv, EnforceEnd PROVE LedgerInv'
<1>1. /\ pc = "enforce" /\ Writing /\ (ledgerBytes <= Budget \/ ~HasVictim)
      /\ pc' = "idle" /\ cur' = <<>>
      /\ UNCHANGED <<store, mapBytes, order, ledgerBytes, expired>>
  BY DEF EnforceEnd, Writing
<1>2. Charges /\ cur[1] \in Live /\ cur[1].bytes <= Budget
  BY <1>1 DEF LedgerInv, LoopInv
<1>3. ledgerBytes <= Budget
  <2>1. CASE ~HasVictim
    <3>1. Range(order) = {cur[1]}
      BY <2>1, <1>2 DEF HasVictim, Live
    <3>2. cur[1].bytes \in Nat
      BY <1>2, ChargedIsStored, EntryFacts DEF Charges, Live
    <3>3. WeightOf({} \cup {cur[1]}) = WeightOf({}) + cur[1].bytes
      BY <3>2, NothingWeighsNothing, FS_EmptySet, WeightIn
    <3>4. {} \cup {cur[1]} = {cur[1]}
      OBVIOUS
    <3>5. ledgerBytes = cur[1].bytes
      BY <3>1, <3>2, <3>3, <3>4, <1>2, NothingWeighsNothing DEF Charges, Core
    <3> QED BY <3>5, <1>2
  <2> QED BY <2>1, <1>1
<1>4. Charges'
  BY <1>1, <1>2 DEF Charges
<1>5. LoopInv'
  BY <1>1, <1>3 DEF LedgerInv, LoopInv, Writing, Fits, OverBudget
<1> QED BY <1>4, <1>5 DEF LedgerInv

LEMMA SweepKeepsInv ==
    ASSUME LedgerInv, (\E m \in Cache : SweepBegin(m)) \/ SweepStep \/ SweepEnd
    PROVE  LedgerInv'
<1>1. ASSUME NEW m \in Cache, SweepBegin(m) PROVE LedgerInv'
  <2>1. /\ pc = "idle" /\ pc' = "sweep" /\ expired' \subseteq Stored(m)
        /\ UNCHANGED <<store, mapBytes, order, ledgerBytes, cur>>
    BY <1>1 DEF SweepBegin
  <2>2. Charges /\ Charges'
    BY <2>1 DEF LedgerInv, Charges
  <2>3. expired' \subseteq Live /\ expired' \subseteq Entry
    <3>1. expired' \subseteq Range(order)
      BY <2>1, <2>2, ChargedIsStored DEF Charges, Stored
    <3>2. Range(order) \subseteq Entry
      BY <2>2, ChargedIsStored DEF Charges
    <3> QED BY <3>1, <3>2 DEF Live
  <2>4. LoopInv'
    BY <2>1, <2>3 DEF LedgerInv, LoopInv, Writing, Live, Fits, OverBudget
  <2> QED BY <2>2, <2>4 DEF LedgerInv
<1>2. ASSUME SweepStep PROVE LedgerInv'
  <2>1. PICK e \in expired : Release(e) /\ expired' = expired \ {e}
    BY <1>2 DEF SweepStep
  <2>2. pc = "sweep" /\ UNCHANGED <<pc, cur>>
    BY <1>2 DEF SweepStep
  <2>3. Charges /\ e \in Live
    BY <2>2 DEF LedgerInv, LoopInv
  <2>4. /\ Charges' /\ Live' = Live \ {e} /\ ledgerBytes' <= ledgerBytes
        /\ \A m \in Cache : Fits(m) => Fits(m)'
    BY <2>1, <2>3, ReleaseKeepsCharges
  <2>5. ledgerBytes' <= Budget
    BY <2>2, <2>3, <2>4, BoundsAssumption DEF LedgerInv, LoopInv, Writing, Charges, Core
  <2>6. LoopInv'
    BY <2>1, <2>2, <2>4, <2>5 DEF LedgerInv, LoopInv, Writing
  <2> QED BY <2>4, <2>6 DEF LedgerInv
<1>3. ASSUME SweepEnd PROVE LedgerInv'
  <2>1. /\ pc = "sweep" /\ pc' = "idle"
        /\ UNCHANGED <<store, mapBytes, order, ledgerBytes, cur, expired>>
    BY <1>3 DEF SweepEnd
  <2> QED BY <2>1 DEF LedgerInv, Charges, LoopInv, Writing, Live, Fits, OverBudget
<1> QED BY <1>1, <1>2, <1>3

LEMMA BudgetNextKeepsInv == LedgerInv /\ [BudgetNext]_budgetVars => LedgerInv'
<1> SUFFICES ASSUME LedgerInv, [BudgetNext]_budgetVars PROVE LedgerInv'
  OBVIOUS
<1>1. ASSUME Operation PROVE LedgerInv'
  BY <1>1, GetKeepsInv, DeleteKeepsInv, SetBeginKeepsInv, SweepKeepsInv DEF Operation
<1>2. ASSUME Loop PROVE LedgerInv'
  BY <1>2, TrimStepKeepsInv, TrimEndKeepsInv, EnforceStepKeepsInv, EnforceEndKeepsInv,
     SweepKeepsInv DEF Loop
<1>3. ASSUME UNCHANGED budgetVars PROVE LedgerInv'
  BY <1>3 DEF budgetVars, LedgerInv, Charges, LoopInv, Writing, Live, Fits, OverBudget
<1> QED BY <1>1, <1>2, <1>3 DEF BudgetNext

-----------------------------------------------------------------------------
(* The invariant that the others rest on: the maps, the ledger, their      *)
(* orders and their sums agree at every turn of every loop.                *)
THEOREM LedgerInductive == BudgetSpec => []LedgerInv
<1>1. BudgetInit => LedgerInv
  BY BudgetInitImpliesInv
<1>2. LedgerInv /\ [BudgetNext]_budgetVars => LedgerInv'
  BY BudgetNextKeepsInv
<1> QED BY <1>1, <1>2, PTL DEF BudgetSpec

(* The totals are what the entries weigh ("so the total cannot drift"),    *)
(* for any maps, keys, weights and bounds.                                 *)
THEOREM TotalsAreWeights == BudgetSpec => []BudgetTypeOK
<1>1. LedgerInv => BudgetTypeOK
  BY LedgerInvImpliesProperties
<1> QED BY <1>1, LedgerInductive, PTL

(* No operation of BoundedMap leaves a charge without its entry or an      *)
(* entry without its charge, and every map evicts in the ledger's order.   *)
THEOREM LedgerIsTheMaps == BudgetSpec => []LedgerMirrorsMaps
<1>1. LedgerInv => LedgerMirrorsMaps
  BY LedgerInvImpliesProperties
<1> QED BY <1>1, LedgerInductive, PTL

(* Once set() has returned, every bound holds; and what it wrote is still  *)
(* there.                                                                  *)
THEOREM BoundsAreHeld == BudgetSpec => []BoundsHold
<1>1. LedgerInv => BoundsHold
  BY LedgerInvImpliesProperties
<1> QED BY <1>1, LedgerInductive, PTL

(* A turn of a loop takes one entry from the ledger, or it is the last;    *)
(* enforce() is never left for a victim that was not released.  So each    *)
(* loop is over after as many turns as there are entries.                  *)
Follows == {<<"trim", "enforce">>, <<"enforce", "idle">>, <<"sweep", "idle">>}

TurnRunsOut ==
    pc # "idle" => \/ pc' = pc /\ Len(order') = Len(order) - 1
                   \/ <<pc, pc'>> \in Follows /\ UNCHANGED order

(* LoopsEnd, but for the fairness: set(), enforce() and sweep() run out    *)
(* of turns.                                                               *)
THEOREM LoopsRunOut == BudgetSpec => [][TurnRunsOut]_budgetVars
<1>1. LedgerInv /\ [BudgetNext]_budgetVars => [TurnRunsOut]_budgetVars
  <2> SUFFICES ASSUME LedgerInv, BudgetNext PROVE TurnRunsOut
    OBVIOUS
  <2>1. CASE Operation
    BY <2>1 DEF Operation, Get, Delete, SetBegin, SweepBegin, TurnRunsOut
  <2>2. CASE TrimStep
    BY <2>2, TrimStepKeepsInv DEF TurnRunsOut
  <2>3. CASE EnforceStep
    BY <2>3, EnforceStepKeepsInv DEF TurnRunsOut
  <2>4. CASE SweepStep
    <3>1. PICK e \in expired : Release(e)
      BY <2>4 DEF SweepStep
    <3>2. pc = "sweep" /\ pc' = pc
      BY <2>4 DEF SweepStep
    <3>3. Charges /\ e \in Live
      BY <3>2 DEF LedgerInv, LoopInv
    <3>4. Len(order') = Len(order) - 1
      BY <3>1, <3>3, ReleaseKeepsCharges
    <3> QED BY <3>2, <3>4 DEF TurnRunsOut
  <2>5. CASE TrimEnd \/ EnforceEnd \/ SweepEnd
    BY <2>5 DEF TrimEnd, EnforceEnd, SweepEnd, TurnRunsOut, Follows
  <2> QED BY <2>1, <2>2, <2>3, <2>4, <2>5 DEF BudgetNext, Loop
<1> QED BY <1>1, LedgerInductive, PTL DEF BudgetSpec
=============================================================================

------------------------------ MODULE Outbound ------------------------------
(***************************************************************************)
(* Requests that leave the server: safeFetch, assertSafeOutboundUrl, the   *)
(* resolver and the address pins of src/net/safe-fetch.js, and the cached  *)
(* vettings of playlist origins in src/proxy/relay.js, which use the same  *)
(* check and the same pins.                                                *)
(*                                                                         *)
(* A URL is what the check tells apart: a host name, a literal address     *)
(* that is public, and what is refused unresolved (another scheme, a       *)
(* localhost name, a private address).  Time is kept as what is left of    *)
(* each lifetime, so the clock has no bound.                               *)
(* ALLOW_PRIVATE_NETWORKS, under which nothing is checked, is off.         *)
(***************************************************************************)
EXTENDS InsertionOrder

CONSTANTS
    Task,           \* calls of safeFetch and vetHlsOrigin under way
    Host,           \* host names
    Origin,         \* the URLs that playlists name
    Address,        \* what DNS may answer
    Private,        \* the addresses isPrivateIp refuses
    MaxRedirects,   \* the option of safeFetch
    PinTtl,         \* DNS_PIN_TTL_MS and HLS_ORIGIN_VET_TTL_MS, in ticks
    PinMax,         \* DNS_PIN_MAX_HOSTS
    VetMax          \* HLS_ORIGIN_VET_MAX

ASSUME OutboundAssumption ==
    /\ Private \subseteq Address
    /\ Host \cap {"refused", "publicIp"} = {} /\ Task \cap {"allowed", "refused"} = {}
    /\ Origin \subseteq Host \cup {"refused", "publicIp"}
    /\ MaxRedirects \in Nat
    /\ {PinTtl, PinMax, VetMax} \subseteq Nat \ {0}

VARIABLES
    dnsPins,    \* sequence, oldest insertion first, of [host, addresses, left]
    vetCache,   \* sequence, least recent first, of [origin, ok, left]; ok is
                \* the task that will settle the promise, or what it settled to
    stage,      \* what each task waits for
    vetting,    \* whether it is a vetting or a fetch
    url,        \* what it asks for, after its redirects
    redirects,  \* how many it has followed
    to,         \* what it is connected to
    heard       \* history: what is left of PinTtl since DNS last gave a host
                \* public addresses only

vars == <<dnsPins, vetCache, stage, vetting, url, redirects, to, heard>>

Url == Host \cup {"refused", "publicIp"}
Verdicts == {"allowed", "refused"}
Outcomes == {"passed", "blocked", "failed"}
Stages == {"idle", "resolving", "fallback", "connecting", "waiting"} \cup Outcomes

Less(n) == IF n = 0 THEN 0 ELSE n - 1

-----------------------------------------------------------------------------
(* The pins.                                                               *)

Pinned(h) == {p \in Members(dnsPins) : p.host = h /\ p.left > 0}

(* Sweep from the front up to the first live pin, then drop the oldest     *)
(* while the map is full.                                                  *)
Swept == From(dnsPins, {i \in DOMAIN dnsPins : dnsPins[i].left > 0})

NewPin(h, addresses) == [host |-> h, addresses |-> addresses, left |-> PinTtl]

OfOthers(h) == Kept(Swept, {i \in DOMAIN Swept : Swept[i].host # h})

FaultPin(h, addresses) == Append(OfOthers(h), NewPin(h, addresses))

Pin(h, addresses) == Append(Newest(OfOthers(h), PinMax - 1), NewPin(h, addresses))

FaultBlocked(addresses) == addresses \subseteq Private
Blocked(addresses) == addresses \cap Private # {}

(* Type invariant.  There is one pin for a host and no more than the cap,  *)
(* and their order of insertion is the order in which they expire, which   *)
(* lets the sweep stop at the first live one; there is one vetting for an  *)
(* origin, whose promise is settled or has the task that will settle it.   *)
TypeOK ==
    /\ stage \in [Task -> Stages]
    /\ vetting \in [Task -> BOOLEAN]
    /\ url \in [Task -> Url]
    /\ redirects \in [Task -> 0..MaxRedirects]
    /\ to \in [Task -> Address \cup {"nowhere", "publicIp"}]
    /\ heard \in [Host -> 0..PinTtl]
    /\ Members(dnsPins) \subseteq
           [host : Host, addresses : SUBSET Address \ {{}}, left : 0..PinTtl]
    /\ Len(dnsPins) <= PinMax /\ Len(vetCache) <= VetMax
    /\ \A i, j \in DOMAIN dnsPins : i < j =>
           /\ dnsPins[i].host # dnsPins[j].host
           /\ dnsPins[i].left <= dnsPins[j].left
    /\ Members(vetCache) \subseteq
           [origin : Origin, ok : Task \cup Verdicts, left : 0..PinTtl]
    /\ \A i, j \in DOMAIN vetCache : i # j => vetCache[i].origin # vetCache[j].origin
    /\ \A e \in Members(vetCache) : e.ok \in Task => vetting[e.ok]

Init ==
    /\ dnsPins = <<>>
    /\ vetCache = <<>>
    /\ stage = [t \in Task |-> "idle"]
    /\ vetting = [t \in Task |-> FALSE]
    /\ url \in [Task -> {"publicIp"}]
    /\ redirects = [t \in Task |-> 0]
    /\ to = [t \in Task |-> "nowhere"]
    /\ heard = [h \in Host |-> 0]

-----------------------------------------------------------------------------
(* The local variables of a task are gone when it ends.                    *)
Locals(t, next, u, n, a) ==
    LET over == next = "idle"
    IN  /\ stage' = [stage EXCEPT ![t] = next]
        /\ url' = [url EXCEPT ![t] = IF over THEN "publicIp" ELSE u]
        /\ redirects' = [redirects EXCEPT ![t] = IF over THEN 0 ELSE n]
        /\ to' = [to EXCEPT ![t] = a]

(* How a check ends: it is fulfilled ("passed"), rejected by the policy    *)
(* (OUTBOUND_BLOCKED), or rejected because the look-up failed.  A fetch    *)
(* goes on to connect or rejects too; of a vetting the handlers of the     *)
(* promise have yet to run.                                                *)
After(vet, how) ==
    IF vet THEN how ELSE IF how = "passed" THEN "connecting" ELSE "idle"

CheckEnds(t, how) ==
    /\ Locals(t, After(vetting[t], how), url[t], redirects[t], "nowhere")
    /\ UNCHANGED <<vetCache, vetting>>

(* assertSafeOutboundUrl up to its await: refused by its scheme or name,   *)
(* passed by a literal address or a live pin, or to be resolved.           *)
Passed(u) == u = "publicIp" \/ Pinned(u) # {}

Assert(t, u, n, vet) ==
    LET next == IF Passed(u) THEN After(vet, "passed")
                ELSE IF u = "refused" THEN After(vet, "blocked") ELSE "resolving"
    IN  /\ Locals(t, next, u, n, "nowhere")
        /\ vetting' = [vetting EXCEPT ![t] = vet]
        /\ UNCHANGED <<dnsPins, heard>>

(* safeFetch is called.                                                    *)
Fetch(t, u) == stage[t] = "idle" /\ Assert(t, u, 0, FALSE) /\ UNCHANGED vetCache

Cached(o) == {e \in Members(vetCache) : e.origin = o /\ e.left > 0}
VettingsOf(o) == {i \in DOMAIN vetCache : vetCache[i].origin = o}

(* vetHlsOrigin is called and finds nothing live: a new promise replaces   *)
(* the old one, and the least recently read goes when there are too many.  *)
Vet(t, o) ==
    /\ stage[t] = "idle"
    /\ Cached(o) = {}
    /\ Assert(t, o, 0, TRUE)
    /\ vetCache' = Append(Newest(Kept(vetCache, DOMAIN vetCache \ VettingsOf(o)), VetMax - 1),
                          [origin |-> o, ok |-> t, left |-> PinTtl])

(* It is called and finds one, pending or settled: read, and so recent.    *)
VetCached(o) ==
    /\ Cached(o) # {}
    /\ vetCache' = Kept(vetCache, DOMAIN vetCache \ VettingsOf(o))
                       \o Kept(vetCache, VettingsOf(o))
    /\ UNCHANGED <<dnsPins, stage, vetting, url, redirects, to, heard>>

(* The handlers run: the promise becomes a verdict, and a look-up that     *)
(* failed drops its own promise, if that is still in the cache.            *)

FaultRemembered(how) == TRUE
Remembered(how) == how # "failed"

Verdict(how) == IF how = "passed" THEN "allowed" ELSE "refused"

Settle(t) ==
    /\ stage[t] \in Outcomes
    /\ vetCache' =
           IF Remembered(stage[t])
           THEN [i \in DOMAIN vetCache |->
                    [vetCache[i] EXCEPT !.ok = IF @ = t THEN Verdict(stage[t]) ELSE @]]
           ELSE Kept(vetCache, {i \in DOMAIN vetCache : vetCache[i].ok # t})
    /\ Locals(t, "idle", url[t], redirects[t], "nowhere")
    /\ vetting' = [vetting EXCEPT ![t] = FALSE]
    /\ UNCHANGED <<dnsPins, heard>>

SweepVettings ==
    /\ vetCache' = Kept(vetCache, {i \in DOMAIN vetCache : vetCache[i].left > 0})
    /\ UNCHANGED <<dnsPins, stage, vetting, url, redirects, to, heard>>

-----------------------------------------------------------------------------
(* The addresses are known: all of them must be public, and are pinned.    *)
Answered(t, addresses) ==
    /\ heard' = [heard EXCEPT ![url[t]] =
                     IF addresses \cap Private = {} THEN PinTtl ELSE @]
    /\ dnsPins' = IF Blocked(addresses) THEN dnsPins ELSE Pin(url[t], addresses)
    /\ CheckEnds(t, IF Blocked(addresses) THEN "blocked" ELSE "passed")

Unanswered(t) == CheckEnds(t, "failed") /\ UNCHANGED <<dnsPins, heard>>

(* Both families have settled.  With no address, the first error that is   *)
(* not ENODATA decides whether the system's resolver is asked.             *)
Resolved(t) ==
    /\ stage[t] = "resolving"
    /\ \/ \E addresses \in SUBSET Address \ {{}} : Answered(t, addresses)
       \/ \E v4, v6 \in {"ENODATA", "unusable", "other"} :
              IF (IF v4 # "ENODATA" THEN v4 ELSE v6) = "unusable"
              THEN /\ stage' = [stage EXCEPT ![t] = "fallback"]
                   /\ UNCHANGED <<dnsPins, vetCache, vetting, url, redirects, to, heard>>
              ELSE Unanswered(t)

LookedUp(t) ==
    /\ stage[t] = "fallback"
    /\ (\E addresses \in SUBSET Address \ {{}} : Answered(t, addresses)) \/ Unanswered(t)

(* DNS_TIMEOUT_MS, which covers both resolvers.                            *)
DnsTimesOut(t) ==
    /\ stage[t] \in {"resolving", "fallback"}
    /\ Unanswered(t)

-----------------------------------------------------------------------------
(* pinnedLookup: the connector gets the addresses of a live pin, or those  *)
(* of them that are of the family it wants, and an error otherwise.        *)
Offered(u) == IF u = "publicIp" THEN {u} ELSE UNION {p.addresses : p \in Pinned(u)}

Connect(t) ==
    /\ stage[t] = "connecting"
    /\ \E a \in Offered(url[t]) : Locals(t, "waiting", url[t], redirects[t], a)
    /\ UNCHANGED <<dnsPins, vetCache, vetting, heard>>

(* The look-up finds no pin, the connection or the request fails, or the   *)
(* caller's timer aborts it; or the answer is here: a status that is no    *)
(* redirect, a redirect without a location, or one redirect too many.      *)
FetchEnds(t) ==
    /\ stage[t] \in {"connecting", "waiting"}
    /\ Locals(t, "idle", url[t], redirects[t], "nowhere")
    /\ UNCHANGED <<dnsPins, vetCache, vetting, heard>>

FaultFollowed(t) == redirects[t]
Followed(t) == redirects[t] + 1

Redirect(t, u) ==
    /\ stage[t] = "waiting"
    /\ redirects[t] < MaxRedirects
    /\ Assert(t, u, Followed(t), FALSE)
    /\ UNCHANGED vetCache

Tick ==
    /\ dnsPins' = [i \in DOMAIN dnsPins |-> [dnsPins[i] EXCEPT !.left = Less(@)]]
    /\ vetCache' = [i \in DOMAIN vetCache |-> [vetCache[i] EXCEPT !.left = Less(@)]]
    /\ heard' = [h \in Host |-> Less(heard[h])]
    /\ UNCHANGED <<stage, vetting, url, redirects, to>>

Proceed(t) ==
    \/ Resolved(t) \/ LookedUp(t) \/ DnsTimesOut(t)
    \/ Settle(t) \/ Connect(t) \/ FetchEnds(t)
    \/ \E u \in Url : Redirect(t, u)

Next ==
    \/ \E t \in Task, u \in Url : Fetch(t, u)
    \/ \E t \in Task, o \in Origin : Vet(t, o)
    \/ \E o \in Origin : VetCached(o)
    \/ \E t \in Task : Proceed(t)
    \/ SweepVettings \/ Tick

(* A look-up is settled by its deadline, a fetch by its caller's.          *)
Spec == Init /\ [][Next]_vars /\ \A t \in Task : WF_vars(Proceed(t))

-----------------------------------------------------------------------------
(* A connection is only made to an address that DNS gave for that host     *)
(* within the last DNS_PIN_TTL_MS and that is not private, however the     *)
(* pin was replaced, evicted or reused between the check and the connector *)
(* ("the dispatcher is what makes the check above binding").               *)
ConnectStep ==
    \A t \in Task :
        stage[t] = "connecting" /\ stage'[t] = "waiting" =>
            \/ url[t] = "publicIp"
            \/ /\ url[t] \in Host
               /\ to'[t] \in Address \ Private
               /\ heard[url[t]] > 0

ConnectsToVetted == [][ConnectStep]_vars

(* A vetting that settles is remembered as what the check said, a policy   *)
(* refusal included, and not at all if the look-up failed; any other stays *)
(* as it is until it is too old or a new origin takes its room, so no look-*)
(* up that failed drops the promise of a newer one ("Only a policy refusal *)
(* is kept; a failed lookup is dropped so a resolver blip does not refuse  *)
(* the channel for the whole window.  Checked by identity so a newer entry *)
(* is left alone").                                                        *)
Settles(e) == e.ok \in Task /\ stage[e.ok] \in Outcomes /\ stage'[e.ok] = "idle"
Fails(e) == Settles(e) /\ stage[e.ok] = "failed"

Remembers(cache, origin, ok) == \E e \in Members(cache) : e.origin = origin /\ e.ok = ok

Origins(cache) == {e.origin : e \in Members(cache)}

RoomIsTaken(e) ==
    /\ e = Head(vetCache) /\ Len(vetCache) = VetMax
    /\ Origins(vetCache') \ Origins(vetCache) # {}

VettingStep ==
    \A e \in Members(vetCache) :
        /\ Fails(e) => e.origin \notin Origins(vetCache')
        /\ Settles(e) /\ ~Fails(e) =>
               Remembers(vetCache', e.origin, Verdict(stage[e.ok]))
        /\ ~Settles(e) =>
               Remembers(vetCache', e.origin, e.ok) \/ e.left = 0 \/ RoomIsTaken(e)

VettingsAreKept == [][VettingStep]_vars

(* Every fetch and every vetting ends, whatever the redirects say.         *)
EveryTaskEnds == \A t \in Task : stage[t] # "idle" ~> stage[t] = "idle"
=============================================================================

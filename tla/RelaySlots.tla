----------------------------- MODULE RelaySlots -----------------------------
(***************************************************************************)
(* The concurrent-relay caps of src/proxy/relay.js: one counter per        *)
(* account, one per client bucket and one total, taken by the proxy routes *)
(* of index.js before relayUpstream starts and given back by the 'close'   *)
(* event of the response.                                                  *)
(*                                                                         *)
(* Node runs a handler up to its first await without interruption, and     *)
(* acquireProxySlot is reached without one, so a request's arrival, the    *)
(* cap check and the counting are one action.  The relay itself lasts      *)
(* until its response closes, and responses close in any order.            *)
(*                                                                         *)
(* An operator whose name starts with Fault is a seeded bug: nothing in    *)
(* the specification uses it.                                              *)
(***************************************************************************)
EXTENDS Integers, FiniteSets

CONSTANTS
    Request,    \* response objects; one is used again after it has closed
    Account,    \* values of accountCacheKey(cfg)
    Client,     \* values of clientKey(req)
    Limits      \* the settings of the three limits to consider; 0 disables one

ASSUME LimitsAssumption ==
    Limits \subseteq [account : Nat, client : Nat, total : Nat]

VARIABLES
    limit,                  \* the PROXY_MAX_CONCURRENT_* read at start-up
    proxyInFlight,          \* Map: account -> relays
    proxyInFlightByClient,  \* Map: client bucket -> relays
    total,                  \* proxyRelays.total
    phase,                  \* what each response is doing
    account, client,        \* whose request each response answers
    counted                 \* has the 'close' listener that returns a slot

vars == <<limit, proxyInFlight, proxyInFlightByClient, total,
          phase, account, client, counted>>

Phases == {"idle", "relaying", "status400", "status429", "status503"}

-----------------------------------------------------------------------------
(* Maps whose absent key counts zero.                                      *)

CountOf(map, key) == IF key \in DOMAIN map THEN map[key] ELSE 0

WithCount(map, key, n) ==
    [k \in DOMAIN map \cup {key} |-> IF k = key THEN n ELSE map[k]]

Without(map, key) == [k \in DOMAIN map \ {key} |-> map[k]]

FaultReleaseKeepsZero(map, key) == WithCount(map, key, CountOf(map, key) - 1)

releaseCount(map, key) ==
    LET left == (IF CountOf(map, key) = 0 THEN 1 ELSE CountOf(map, key)) - 1
    IN  IF left > 0 THEN WithCount(map, key, left) ELSE Without(map, key)

(* A map under a disabled limit is neither counted up nor down.            *)
Raised(lim, map, key) ==
    IF lim # 0 THEN WithCount(map, key, CountOf(map, key) + 1) ELSE map

FaultLoweredWhenShared(lim, map, key) ==
    IF lim # 0 /\ CountOf(map, key) > 1 THEN Without(map, key) ELSE map

Lowered(lim, map, key) == IF lim # 0 THEN releaseCount(map, key) ELSE map

-----------------------------------------------------------------------------
FaultAllDisabled == limit.account = 0 \/ limit.client = 0 \/ limit.total = 0

AllDisabled == limit.account = 0 /\ limit.client = 0 /\ limit.total = 0

AccountFull(a) ==
    limit.account # 0 /\ CountOf(proxyInFlight, a) >= limit.account

ClientFull(c) ==
    limit.client # 0 /\ CountOf(proxyInFlightByClient, c) >= limit.client

TotalFull == limit.total # 0 /\ total >= limit.total

FaultTotalCheckedFirst(a, c) ==
    IF TotalFull THEN "status503"
    ELSE IF AccountFull(a) \/ ClientFull(c) THEN "status429"
    ELSE "none"

(* The checks in the code's order, and the status rejectOverCap gives to   *)
(* the scope of the first that fails.                                      *)
Refusal(a, c) ==
    IF AllDisabled THEN "none"
    ELSE IF AccountFull(a) \/ ClientFull(c) THEN "status429"
    ELSE IF TotalFull THEN "status503"
    ELSE "none"

(* Type invariant.  An entry of either map is positive: a count that falls *)
(* to zero is deleted, not stored.                                         *)
TypeOK ==
    /\ limit \in Limits
    /\ DOMAIN proxyInFlight \subseteq Account
    /\ proxyInFlight \in [DOMAIN proxyInFlight -> Nat \ {0}]
    /\ DOMAIN proxyInFlightByClient \subseteq Client
    /\ proxyInFlightByClient \in [DOMAIN proxyInFlightByClient -> Nat \ {0}]
    /\ total \in Nat
    /\ phase \in [Request -> Phases]
    /\ account \in [Request -> Account]
    /\ client \in [Request -> Client]
    /\ counted \in [Request -> BOOLEAN]

Init ==
    /\ limit \in Limits
    /\ proxyInFlight = [a \in {} |-> 0]
    /\ proxyInFlightByClient = [c \in {} |-> 0]
    /\ total = 0
    /\ phase = [r \in Request |-> "idle"]
    /\ account \in [Request -> Account]
    /\ client \in [Request -> Client]
    /\ counted = [r \in Request |-> FALSE]

-----------------------------------------------------------------------------
(* A request that is not a relay (bad method, token, kind, file name,      *)
(* stream id, target or server URL) is answered before the caps are read.  *)
AnswerBadRequest(r) ==
    /\ phase[r] = "idle"
    /\ phase' = [phase EXCEPT ![r] = "status400"]
    /\ UNCHANGED <<limit, proxyInFlight, proxyInFlightByClient, total,
                   account, client, counted>>

(* A relay over a cap: refused, and nothing is counted.                    *)
RefuseRelay(r, a, c) ==
    /\ phase[r] = "idle"
    /\ Refusal(a, c) # "none"
    /\ phase' = [phase EXCEPT ![r] = Refusal(a, c)]
    /\ account' = [account EXCEPT ![r] = a]
    /\ client' = [client EXCEPT ![r] = c]
    /\ UNCHANGED <<limit, proxyInFlight, proxyInFlightByClient, total, counted>>

(* A relay under every cap: counted in each map whose limit is on, and the *)
(* listener that will count it out registered with it.                     *)
StartRelay(r, a, c) ==
    /\ phase[r] = "idle"
    /\ Refusal(a, c) = "none"
    /\ proxyInFlight' = Raised(limit.account, proxyInFlight, a)
    /\ proxyInFlightByClient' = Raised(limit.client, proxyInFlightByClient, c)
    /\ total' = IF limit.total # 0 THEN total + 1 ELSE total
    /\ counted' = [counted EXCEPT ![r] = ~AllDisabled]
    /\ phase' = [phase EXCEPT ![r] = "relaying"]
    /\ account' = [account EXCEPT ![r] = a]
    /\ client' = [client EXCEPT ![r] = c]
    /\ UNCHANGED limit

(* The response closes, finished or abandoned by the player.  'close' is   *)
(* emitted once per response and the listener is registered with once.     *)
CloseResponse(r) ==
    /\ phase[r] # "idle"
    /\ phase' = [phase EXCEPT ![r] = "idle"]
    /\ counted' = [counted EXCEPT ![r] = FALSE]
    /\ IF counted[r]
       THEN /\ proxyInFlight' = Lowered(limit.account, proxyInFlight, account[r])
            /\ proxyInFlightByClient' =
                   Lowered(limit.client, proxyInFlightByClient, client[r])
            /\ total' = IF limit.total # 0 /\ total > 0 THEN total - 1 ELSE total
       ELSE UNCHANGED <<proxyInFlight, proxyInFlightByClient, total>>
    /\ UNCHANGED <<limit, account, client>>

Next ==
    \E r \in Request :
        \/ AnswerBadRequest(r)
        \/ \E a \in Account, c \in Client : RefuseRelay(r, a, c)
        \/ \E a \in Account, c \in Client : StartRelay(r, a, c)
        \/ CloseResponse(r)

Spec == Init /\ [][Next]_vars

-----------------------------------------------------------------------------
(* What the counters are meant to say, told from the open responses alone. *)

Relays == {r \in Request : phase[r] = "relaying"}
RelaysOf(a) == {r \in Relays : account[r] = a}
RelaysFrom(c) == {r \in Relays : client[r] = c}

(* Every counter under an enabled limit is the number of open relays it    *)
(* counts, with no entry for an account or client that has none, and a     *)
(* counter under a disabled limit stays empty: whatever the order of       *)
(* arrivals, refusals and closes, no slot is lost and none is given twice  *)
(* (acquireProxySlot, releaseCount).                                       *)
CountsMatchRelays ==
    /\ DOMAIN proxyInFlight =
           IF limit.account = 0 THEN {} ELSE {account[r] : r \in Relays}
    /\ \A a \in DOMAIN proxyInFlight :
           proxyInFlight[a] = Cardinality(RelaysOf(a))
    /\ DOMAIN proxyInFlightByClient =
           IF limit.client = 0 THEN {} ELSE {client[r] : r \in Relays}
    /\ \A c \in DOMAIN proxyInFlightByClient :
           proxyInFlightByClient[c] = Cardinality(RelaysFrom(c))
    /\ total = IF limit.total = 0 THEN 0 ELSE Cardinality(Relays)

(* No account, no client and not the server as a whole ever has more open  *)
(* relays than its limit, whichever of the other limits are disabled.      *)
CapsHold ==
    /\ limit.account # 0 =>
           \A a \in Account : Cardinality(RelaysOf(a)) <= limit.account
    /\ limit.client # 0 =>
           \A c \in Client : Cardinality(RelaysFrom(c)) <= limit.client
    /\ limit.total # 0 => Cardinality(Relays) <= limit.total

(* A refusal tells the truth about the open relays: 429 only to an account *)
(* or a client that has used its own allowance, 503 only when the server   *)
(* is full and the caller is within its own (the comment on rejectOverCap).*)
RefusalIsTruthful ==
    [][\A r \in Request :
         LET own == \/ /\ limit.account # 0
                       /\ Cardinality(RelaysOf(account'[r])) >= limit.account
                    \/ /\ limit.client # 0
                       /\ Cardinality(RelaysFrom(client'[r])) >= limit.client
         IN  phase[r] = "idle" =>
               /\ phase'[r] = "status429" => own
               /\ phase'[r] = "status503" =>
                      /\ limit.total # 0
                      /\ Cardinality(Relays) = limit.total
                      /\ ~own]_vars
=============================================================================

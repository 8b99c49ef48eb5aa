----------------------------- MODULE Configure ------------------------------
(***************************************************************************)
(* POST /configure (src/index.js): the rate limiter in front of it, and    *)
(* the check that a panel exists and takes the credentials there           *)
(* (src/configure/validate.js), which decides the scheme and the host that *)
(* the password is sent to and the URL that is sealed in the install link. *)
(*                                                                         *)
(* A form names a host and the scheme typed before it; the panel answers   *)
(* as it likes at every URL.  Redirects are safeFetch's (module Outbound). *)
(***************************************************************************)
EXTENDS InsertionOrder

CONSTANTS
    Client,     \* client keys
    Form,       \* the forms that are being answered
    Host,       \* panel hosts
    None,       \* no host, no URL, or no client
    Limit,      \* CONFIGURE_RATE_LIMIT
    Window,     \* CONFIGURE_RATE_WINDOW_MS, in ticks
    Second,     \* ticks in a second
    MaxClients, \* CONFIGURE_RATE_MAX_CLIENTS
    HostLists   \* the values of ALLOWED_PANEL_HOSTS that are told apart

ASSUME ConfigureAssumption ==
    /\ {Limit, Window, Second, MaxClients} \subseteq Nat \ {0}
    /\ None \notin Host \cup Client
    /\ HostLists \subseteq SUBSET Host

VARIABLES
    allowed,    \* ALLOWED_PANEL_HOSTS; empty means any
    buckets,    \* configureAttempts in insertion order: [client, count, left]
    told,       \* the ticks each client still waits of its Retry-After, -1: none
    form        \* the forms

vars == <<allowed, buckets, told, form>>

Url == [scheme : {"http", "https"}, host : Host]
Typed == {"http", "https", "none"}

(* A form that is not being answered.  by is its client when that is over  *)
(* its limit; contacts, heard and worked are the URLs that the password    *)
(* went to, that sent a response (anyAnswered), and that took it.          *)
NoForm == [stage |-> "idle", by |-> None, typed |-> "none", host |-> None, i |-> 0,
           named |-> None, contacts |-> {}, heard |-> {}, worked |-> {},
           result |-> "none", url |-> None, downgrade |-> FALSE]

Init ==
    /\ allowed \in HostLists
    /\ buckets = <<>>
    /\ told = [c \in Client |-> -1]
    /\ form = [f \in Form |-> NoForm]

-----------------------------------------------------------------------------
(* The limiter.                                                            *)

(* The sweep stops at the first bucket that is live.                       *)
Swept == From(buckets, {i \in DOMAIN buckets : buckets[i].left > 0})

Expired(b) == b.left <= 0

RetryAfter(left) == (left + Second - 1) \div Second

FaultRoom(kept) == Newest(kept, MaxClients)
FaultRoomOfNewest(kept) == Kept(kept, DOMAIN kept \cap 1..(MaxClients - 1))
Room(kept) == Newest(kept, MaxClients - 1)

(* rateLimitConfigure: what is left of the map, whether the client is      *)
(* refused, and the ticks it is told to wait.  A bucket that expired out   *)
(* of order is replaced; a new one makes room by dropping the oldest.  A   *)
(* count is only compared with Limit, so it stops just over it.            *)
RateLimit(c) ==
    LET mine == {i \in DOMAIN Swept : Swept[i].client = c}
        i == CHOOSE i \in mine : TRUE
        kept == Kept(Swept, DOMAIN Swept \ mine)
        count == IF Swept[i].count > Limit THEN Swept[i].count ELSE Swept[i].count + 1
    IN  IF mine = {} \/ Expired(Swept[i])
        THEN [buckets |-> Append(Room(kept), [client |-> c, count |-> 1, left |-> Window]),
              refused |-> FALSE, wait |-> -1]
        ELSE [buckets |-> [Swept EXCEPT ![i].count = count],
              refused |-> count > Limit,
              wait |-> IF count > Limit THEN RetryAfter(Swept[i].left) * Second ELSE -1]

-----------------------------------------------------------------------------
(* The validation.                                                         *)

panelHostAllowed(host) == allowed = {} \/ host \in allowed

Attempts(typed) ==
    CASE typed = "https" -> <<"https">>
      [] typed = "http"  -> <<"http", "https">>
      [] typed = "none"  -> <<"https", "http">>

UrlOf(q) == [scheme |-> Attempts(q.typed)[q.i], host |-> q.host]

Attempt(q, i) ==
    LET p == [q EXCEPT !.stage = "fetch", !.i = i]
    IN  [p EXCEPT !.contacts = @ \cup {UrlOf(p)}]

Answer(q, result) ==
    [q EXCEPT !.stage = "answered", !.i = 0, !.named = None, !.result = result]

Connected(q, url) ==
    [Answer(q, "connected") EXCEPT !.url = url,
        !.downgrade = UrlOf(q).scheme = "https" /\ url.scheme = "http"]

(* A form arrives: it may be incomplete, or name no host.                  *)
Post(f, c) ==
    LET limited == RateLimit(c)
    IN  /\ form[f].stage = "idle"
        /\ buckets' = limited.buckets
        /\ told' = [told EXCEPT ![c] = limited.wait]
        /\ \E typed \in Typed, host \in Host \cup {None}, complete \in BOOLEAN :
            LET q == [NoForm EXCEPT !.typed = typed, !.host = host]
            IN  form' = [form EXCEPT ![f] =
                    CASE limited.refused -> Answer([NoForm EXCEPT !.by = c], "too many")
                      [] ~limited.refused /\ ~complete -> Answer(NoForm, "incomplete")
                      [] ~limited.refused /\ complete /\ ~panelHostAllowed(host) ->
                            Answer(NoForm, "unlisted")
                      [] ~limited.refused /\ complete /\ panelHostAllowed(host) /\ host = None ->
                            Answer(NoForm, "no URL")
                      [] OTHER -> Attempt(q, 1)]
        /\ UNCHANGED allowed

(* The headers of the answer arrive.                                       *)
Responds(f) ==
    /\ form[f].stage = "fetch"
    /\ form' = [form EXCEPT ![f].stage = "body", ![f].heard = @ \cup {UrlOf(form[f])}]
    /\ UNCHANGED <<allowed, buckets, told>>

(* The body is the answer of no panel, or the panel turns the account down.*)
TurnedDown(f) ==
    /\ form[f].stage = "body"
    /\ \E result \in {"not a panel", "account"} :
           form' = [form EXCEPT ![f] = Answer(@, result)]
    /\ UNCHANGED <<allowed, buckets, told>>

FaultSurvives(q, named) == named # None /\ panelHostAllowed(named.host)
Survives(q, named) ==
    /\ named # None
    /\ panelHostAllowed(named.host)
    /\ ~(q.typed = "https" /\ named.scheme = "http")

(* The panel takes the account, and its server_info may name a URL of its  *)
(* own: that is tried too before it is adopted.                            *)
Accepted(f) ==
    LET q == [form[f] EXCEPT !.worked = @ \cup {UrlOf(form[f])}]
    IN  /\ form[f].stage = "body"
        /\ \E named \in Url \cup {None} :
               form' = [form EXCEPT ![f] =
                   IF Survives(q, named) /\ named # UrlOf(q)
                   THEN [q EXCEPT !.stage = "confirm", !.named = named,
                                  !.contacts = @ \cup {named}]
                   ELSE Connected(q, UrlOf(q))]
        /\ UNCHANGED <<allowed, buckets, told>>

(* A timer runs on the whole of an attempt, its body included.             *)
FaultTimed(q) == q.stage \in {"fetch", "confirm"}
Timed(q) == q.stage \in {"fetch", "body", "confirm"}

Unreached(q) == IF q.heard # {} THEN Answer(q, "not a panel") ELSE Answer(q, "unreachable")

(* An attempt fails, or times out: the next one, or the end.               *)
Fails(f) ==
    LET q == form[f]
    IN  /\ q.stage \in {"fetch", "body"} /\ Timed(q)
        /\ form' = [form EXCEPT ![f] =
               IF q.i < Len(Attempts(q.typed)) THEN Attempt(q, q.i + 1) ELSE Unreached(q)]
        /\ UNCHANGED <<allowed, buckets, told>>

(* credentialsWorkAt, which takes every failure for a no.                  *)
FaultAdopted(q, works) == Connected(q, q.named)
Adopted(q, works) == Connected(q, IF works THEN q.named ELSE UrlOf(q))

Works(f) ==
    /\ form[f].stage = "confirm"
    /\ LET q == [form[f] EXCEPT !.worked = @ \cup {form[f].named}]
       IN  form' = [form EXCEPT ![f] = Adopted(q, TRUE)]
    /\ UNCHANGED <<allowed, buckets, told>>

WorksNot(f) ==
    /\ form[f].stage = "confirm" /\ Timed(form[f])
    /\ form' = [form EXCEPT ![f] = Adopted(@, FALSE)]
    /\ UNCHANGED <<allowed, buckets, told>>

(* The page is sent.                                                       *)
Sent(f) ==
    /\ form[f].stage = "answered"
    /\ form' = [form EXCEPT ![f] = NoForm]
    /\ UNCHANGED <<allowed, buckets, told>>

-----------------------------------------------------------------------------
(* Date.now() moves on; or it is set back by a tick, and nothing that was  *)
(* promised before is binding.  A bucket a window past its end stays there.*)
Tick ==
    /\ buckets' = [i \in DOMAIN buckets |->
           [buckets[i] EXCEPT !.left = IF @ > -Window THEN @ - 1 ELSE @]]
    /\ told' = [c \in Client |-> IF told[c] > 0 THEN told[c] - 1 ELSE told[c]]
    /\ UNCHANGED <<allowed, form>>

ClockSetBack ==
    /\ \A i \in DOMAIN buckets : buckets[i].left <= Window
    /\ buckets' = [i \in DOMAIN buckets |-> [buckets[i] EXCEPT !.left = @ + 1]]
    /\ told' = [c \in Client |-> -1]
    /\ UNCHANGED <<allowed, form>>

Next ==
    \/ \E f \in Form : \/ \E c \in Client : Post(f, c)
                       \/ Responds(f) \/ TurnedDown(f) \/ Accepted(f) \/ Fails(f)
                       \/ Works(f) \/ WorksNot(f) \/ Sent(f)
    \/ Tick \/ ClockSetBack

(* The timers fire; nothing is asked of the panel.                         *)
Fairness == \A f \in Form : WF_vars(Fails(f)) /\ WF_vars(WorksNot(f))

Spec == Init /\ [][Next]_vars /\ Fairness

-----------------------------------------------------------------------------
(* Type invariant; a client has one bucket, and the map its bound.         *)
TypeOK ==
    /\ allowed \in HostLists
    /\ Len(buckets) <= MaxClients
    /\ \A i \in DOMAIN buckets : /\ buckets[i].count \in 1..(Limit + 1)
                                 /\ buckets[i].left \in -Window..(Window + 1)
                                 /\ \A j \in DOMAIN buckets \ {i} :
                                        buckets[j].client # buckets[i].client
    /\ \A f \in Form :
           /\ {form[f].url, form[f].named} \subseteq Url \cup {None}
           /\ form[f].worked \subseteq form[f].contacts
           /\ form[f].heard \subseteq form[f].contacts

(* "The password is not sent somewhere it should not go": to no unlisted   *)
(* host, never over http for who typed https, and, for who typed nothing,  *)
(* over http only after the panel's TLS port was tried                     *)
(* (validateXtremioCredentials, credentialsWorkAt).                        *)
PasswordGoesWhereItMay ==
    \A f \in Form : \A url \in form[f].contacts :
        /\ panelHostAllowed(url.host)
        /\ url.scheme = "http" =>
               /\ form[f].typed # "https"
               /\ form[f].typed = "none" =>
                      [scheme |-> "https", host |-> form[f].host] \in form[f].contacts

(* The install link names a URL where this form's credentials were taken,  *)
(* of a host that decodeConfig will not refuse, and a form that had https  *)
(* working and ends on http is told so; "cannot reach" is said when        *)
(* nothing answered at all, and "not a panel" when something did.          *)
AnswerIsConfirmed ==
    \A f \in Form :
        LET q == form[f]
        IN  /\ q.result = "connected" =>
                   /\ q.url \in q.worked
                   /\ panelHostAllowed(q.url.host)
                   /\ q.typed = "https" => q.url.scheme = "https"
                   /\ q.downgrade <=> /\ q.url.scheme = "http"
                                       /\ \E u \in q.worked : u.scheme = "https"
            /\ q.result = "unreachable" => q.heard = {}
            /\ q.result = "not a panel" => q.heard # {}

(* The limiter holds its limit and is fair, with clients dropped for room, *)
(* buckets that expire out of order because the clock was set back, and    *)
(* the sweep that stops at the first live one (rateLimitConfigure).  A     *)
(* window is counted on until it is over, and dropped before that for room *)
(* only: the oldest one, for a client without; a form is let through as    *)
(* one of the first Limit of its window; one is refused only by a window   *)
(* that has let Limit through, and never after its Retry-After.            *)
CountedOn(b) ==
    \E a \in Members(buckets') :
        a.client = b.client /\ a.count >= b.count /\ a.left >= b.left - 1

Clients(map) == {b.client : b \in Members(map)}

RoomIsTaken(b) ==
    /\ b = Head(buckets) /\ Len(buckets) = MaxClients
    /\ Clients(buckets') \ Clients(buckets) # {}

WindowsOf(c) == {b \in Members(buckets) : b.client = c /\ b.left > 0}

(* A form is the next of its client's window, or the first of a new one.   *)
Counted ==
    \E a \in Members(buckets') :
        /\ a.left > 0 /\ a.count <= Limit
        /\ WindowsOf(a.client) = {} => a.count = 1
        /\ \A b \in WindowsOf(a.client) : a.count = b.count + 1

LetThrough(f) ==
    form[f].stage = "idle" /\ form'[f].stage # "idle" /\ form'[f].by = None

Refused(f, c) == form[f].stage = "idle" /\ form'[f].by = c

LimitStep ==
    /\ \A b \in Members(buckets) : b.left > 0 => CountedOn(b) \/ RoomIsTaken(b)
    /\ \A f \in Form : LetThrough(f) => Counted
    /\ \A f \in Form, c \in Client :
           Refused(f, c) => /\ told[c] # 0
                            /\ \E b \in WindowsOf(c) : b.count >= Limit

LimitHolds == [][LimitStep]_vars

(* Every form is answered, whatever the panel does not send.               *)
EveryFormAnswered ==
    \A f \in Form : form[f].stage \in {"fetch", "body", "confirm"} ~> form[f].stage = "answered"
=============================================================================

------------------------------- MODULE Relay -------------------------------
(***************************************************************************)
(* relayUpstream (src/proxy/relay.js): one request of a proxy route, from  *)
(* the fetch of its upstream to the end of its response.                   *)
(*                                                                         *)
(* The handler awaits in five places: a HEAD, a GET, the read of a whole   *)
(* playlist, the look-ups of its rewrite, and the sniff of a body that     *)
(* should be no playlist; then it leaves a pipe behind.  While it awaits,  *)
(* a timer may abort the upstream, and so may the 'close' of the request,  *)
(* which comes when the response is over or the client is gone.            *)
(*                                                                         *)
(* The upstream is seen through fetch: an aborted fetch rejects, and the   *)
(* body of an aborted response fails.                                      *)
(*                                                                         *)
(* An operator whose name starts with Fault is a seeded bug: nothing in    *)
(* the specification uses it.                                              *)
(***************************************************************************)
EXTENDS Playlist

CONSTANTS
    Requests,        \* the requests to consider
    Responses,       \* the upstream responses to consider
    HeaderTimeout,   \* PROXY_HEADER_TIMEOUT_MS
    BodyTimeout,     \* PLAYLIST_BODY_TIMEOUT_MS
    RewriteTimeout   \* PLAYLIST_REWRITE_TIMEOUT_MS

(* type and text say what a body is: by its content type, and by whether   *)
(* it starts with #EXTM3U (within HLS_SNIFF_BYTES).                        *)
AllRequests == [method : {"GET", "HEAD"}, ext : {"m3u8", "ts"},
                range : {"none", "range", "if-range"}]

AllResponses == [status : {200, 206, 304, 404}, type : {"playlist", "other"},
                 text : {"playlist", "other"}, encoded : BOOLEAN, chunks : Nat]

(* fetch gives a response of a null-body status no body at all.            *)
HasBody(r) == r.status # 304

ASSUME RelayAssumption ==
    /\ Requests \subseteq AllRequests
    /\ Responses \subseteq AllResponses
    /\ \A r \in Responses : r.text = "playlist" => HasBody(r) /\ r.chunks > 0
    /\ {HeaderTimeout, BodyTimeout, RewriteTimeout} \subseteq Nat \ {0}

VARIABLES
    req,      \* the request
    pc,       \* where the handler is
    upstream, \* the response being relayed, or <<>>
    body,     \* its body
    left,     \* chunks of it to come
    walk,     \* how far the rewrite of a playlist is (module Playlist)
    timer,    \* the deadline that runs, and
    age,      \* for how long it has
    timedOut, \* headersTimedOut, and then bodyTimedOut
    aborted,  \* controller.signal.aborted
    res,      \* the response of the route
    closed,   \* it has closed
    waited    \* time the handler has awaited what it awaits

vars == <<req, pc, upstream, body, left, walk, timer, age, timedOut,
          aborted, res, closed, waited>>

AgeMax == HeaderTimeout + BodyTimeout + RewriteTimeout
Times == 0 .. AgeMax

Statuses == {200, 206, 304, 404, 502, 504}

(* what: "own" is a text or an empty body of this server's, "rewritten" a  *)
(* playlist, "raw" the upstream's bytes; claims are the headers that speak *)
(* of the upstream's body.                                                 *)
NoAnswer == [status |-> 0, out |-> "open", what |-> "nothing",
             headersSent |-> FALSE, claims |-> {}]

(* Every part of the request, its two ends and its timers is of its kind.  *)
TypeOK ==
    /\ req \in Requests
    /\ pc \in {"head", "get", "reading", "rewriting", "sniffing", "piping", "returned"}
    /\ upstream \in {<<>>} \cup {<<r>> : r \in Responses}
    /\ body \in {"none", "open", "ended", "cancelled", "failed"}
    /\ upstream # <<>> => left \in 0 .. upstream[1].chunks
    /\ walk.text \in Texts \cup {<<>>} /\ walk.seen \subseteq walk.admitted
    /\ walk.out \in [DOMAIN walk.text -> Seq({"verbatim", "playlist", "segment"})]
    /\ timer \in {"none", "header", "body", "rewrite"}
    /\ age \in Times /\ waited \in Times
    /\ {timedOut, aborted, closed} \subseteq BOOLEAN
    /\ res \in [status : {0} \cup Statuses, out : {"open", "ended", "destroyed"},
                what : {"nothing", "own", "rewritten", "raw"},
                headersSent : BOOLEAN, claims : SUBSET {"length", "ranges"}]

Init ==
    /\ req \in Requests
    /\ pc = IF req.method = "HEAD" THEN "head" ELSE "get"
    /\ upstream = <<>>
    /\ body = "none"
    /\ left = 0
    /\ walk = NoWalk
    /\ timer = "header"
    /\ age = 0
    /\ timedOut = FALSE
    /\ aborted = FALSE
    /\ res = NoAnswer
    /\ closed = FALSE
    /\ waited = 0

-----------------------------------------------------------------------------
(* Abort: the body of the response, if one is being read, fails.           *)
AfterAbort(b) == IF b = "open" THEN "failed" ELSE b

FaultAfterDiscard(b) == b

(* discardBody, and the destroy of the stream around a body.               *)
AfterDiscard(b) == IF b = "open" THEN "cancelled" ELSE b

(* res.status(s).end(text), unless the response has begun.                 *)
Answered(s) ==
    IF res.headersSent THEN res
    ELSE [res EXCEPT !.status = s, !.out = "ended", !.what = "own", !.headersSent = TRUE]

Refuse(s) ==
    /\ res' = Answered(s)
    /\ pc' = "returned"
    /\ timer' = "none"
    /\ walk' = NoWalk
    /\ UNCHANGED <<req, upstream, left, age, timedOut, closed, waited>>

Await(where, armed) ==
    /\ pc' = where
    /\ timer' = armed
    /\ age' = 0
    /\ waited' = 0

(* The deadline of the HEAD is not the GET's: the fallback arms it again.  *)
FaultRearmed == age

Rearmed == 0

TimedOut(t, d) == timer = t /\ age >= d

-----------------------------------------------------------------------------
(* What the headers of a response decide.                                  *)

looksLikePlaylist(r) == req.ext = "m3u8" \/ r.type = "playlist"

(* The mapper is there for a whole body, or for the HEAD that previews it. *)
Mapped(r) ==
    /\ r.status = 200
    /\ HasBody(r) \/ req.method = "HEAD"
    /\ looksLikePlaylist(r)

SentRange == req.ext # "m3u8" /\ req.range # "none"
SentIfRange == SentRange /\ req.range = "if-range"

(* Whether normalizeAcceptRanges has a unit to announce.                   *)
AcceptsRanges(r) == r.status = 206 \/ ~SentRange \/ SentIfRange

(* The headers relayed that speak of the body.                             *)
Claims(r) ==
    IF Mapped(r) THEN {}
    ELSE (IF r.encoded THEN {} ELSE {"length"})
             \cup (IF AcceptsRanges(r) THEN {"ranges"} ELSE {})

HeadersOf(r) == [res EXCEPT !.status = r.status, !.claims = Claims(r)]

PartialPlaylist(r) == ~Mapped(r) /\ r.status = 206 /\ looksLikePlaylist(r)

MustSniff(r) == r.status = 200 /\ ~Mapped(r)

(* The finally of the fetch clears the header timer.                       *)
TimerAfter == "none"

FaultBodyTimer == "none"

(* The read of a playlist has a deadline of its own.                       *)
BodyTimer == "body"

(* The handler goes on with response r, all at once: refuse a partial      *)
(* playlist, read a playlist, answer what has no body, sniff, or pipe.     *)
Proceed(r) ==
    /\ upstream' = <<r>>
    /\ left' = r.chunks
    /\ LET b == IF HasBody(r) /\ pc = "get" THEN "open" ELSE "none" IN
       IF PartialPlaylist(r)
       THEN /\ body' = AfterDiscard(b)
            /\ res' = Answered(502)
            /\ Await("returned", TimerAfter)
       ELSE IF Mapped(r) /\ req.method # "HEAD"
       THEN /\ body' = b
            /\ Await("reading", BodyTimer)
            /\ UNCHANGED res
       ELSE IF req.method = "HEAD" \/ ~HasBody(r)
       THEN /\ body' = AfterDiscard(b)
            /\ res' = [HeadersOf(r) EXCEPT !.out = "ended", !.what = "own", !.headersSent = TRUE]
            /\ Await("returned", TimerAfter)
       ELSE IF MustSniff(r)
       THEN /\ body' = b
            /\ Await("sniffing", TimerAfter)
            /\ UNCHANGED res
       ELSE /\ body' = b
            /\ res' = HeadersOf(r)
            /\ Await("piping", TimerAfter)
    /\ UNCHANGED <<req, walk, timedOut, aborted, closed>>

-----------------------------------------------------------------------------
(* The fetches.                                                            *)

(* A HEAD is answered: short of 400 it is the response to relay.           *)
HeadAnswered(r) ==
    /\ pc = "head" /\ ~aborted
    /\ r.status < 400
    /\ Proceed(r)

(* A HEAD is refused, or its connection dropped: the GET gets its chance.  *)
HeadRefused ==
    /\ pc = "head" /\ ~aborted
    /\ pc' = "get"
    /\ timer' = "header"
    /\ age' = Rearmed
    /\ waited' = 0
    /\ UNCHANGED <<req, upstream, body, left, walk, timedOut, aborted, res,
                   closed>>

GetAnswered(r) ==
    /\ pc = "get" /\ ~aborted
    /\ Proceed(r)

(* The fetch rejects: it was aborted, by the timer or by the client, or it *)
(* failed by itself (for a HEAD, that is HeadRefused).                     *)
FetchRejects ==
    /\ pc \in {"head", "get"}
    /\ aborted \/ pc = "get"
    /\ Refuse(IF timedOut THEN 504 ELSE 502)
    /\ UNCHANGED <<body, aborted>>

(* The timer of the headers, or of a playlist's body, fires.               *)
TimerFires ==
    /\ TimedOut("header", HeaderTimeout) \/ TimedOut("body", BodyTimeout)
    /\ ~aborted
    /\ timedOut' = TRUE
    /\ aborted' = TRUE
    /\ body' = AfterAbort(body)
    /\ UNCHANGED <<req, pc, upstream, left, walk, timer, age, res, closed, waited>>

-----------------------------------------------------------------------------
(* A playlist, read whole and rewritten.                                   *)

ReadChunk ==
    /\ pc = "reading" /\ body = "open" /\ left > 0
    /\ left' = left - 1
    /\ UNCHANGED <<req, pc, upstream, body, walk, timer, age, timedOut,
                   aborted, res, closed, waited>>

Rewritten ==
    [res EXCEPT !.status = upstream[1].status, !.out = "ended", !.what = "rewritten",
                !.headersSent = TRUE]

(* The body is in: refused if it is no playlist, or else rewritten, with   *)
(* the origins that the panel, the request and its redirects admit.        *)
ReadEnds ==
    /\ pc = "reading" /\ body = "open" /\ left = 0
    /\ body' = "ended"
    /\ IF upstream[1].text # "playlist"
       THEN Refuse(502)
       ELSE /\ \E text \in Texts, admitted \in Admitted : walk' = Start(text, admitted)
            /\ Await("rewriting", "rewrite")
            /\ UNCHANGED <<req, upstream, left, timedOut, res, closed>>
    /\ UNCHANGED aborted

(* The read of a playlist fails, or passes its cap: the reader holds the   *)
(* body, so the request is aborted.                                        *)
AfterRead(b) == AfterAbort(b)

ReadFails ==
    /\ pc = "reading" /\ body \in {"open", "failed"}
    /\ body' = AfterRead(body)
    /\ aborted' = TRUE
    /\ Refuse(IF timedOut THEN 504 ELSE 502)

(* The walk of the rewrite.  It stays where it is while a target is vetted *)
(* and the deadline is looked at before each URI only.                     *)
Walk(w) ==
    /\ walk' = w
    /\ UNCHANGED <<req, pc, upstream, body, left, timer, age, timedOut, aborted,
                   res, closed, waited>>

LineEnds ==
    /\ pc = "rewriting" /\ AtLineEnd(walk)
    /\ Walk(EndLine(walk))

MapUri ==
    /\ pc = "rewriting" /\ AtUri(walk) /\ ~walk.vetting
    /\ CASE age > RewriteTimeout -> Refuse(504) /\ UNCHANGED <<body, aborted>>
         [] age <= RewriteTimeout /\ Uri(walk) = "opaque" -> Walk(Put(walk, "verbatim"))
         [] age <= RewriteTimeout /\ Uri(walk) # "opaque" /\ Admits(walk) -> Walk(Vetting(walk))
         [] OTHER -> Refuse(502) /\ UNCHANGED <<body, aborted>>

TargetAllowed ==
    /\ pc = "rewriting" /\ walk.vetting
    /\ Walk(Signed(walk))

TargetRefused ==
    /\ pc = "rewriting" /\ walk.vetting
    /\ Refuse(502)
    /\ UNCHANGED <<body, aborted>>

RewriteEnds ==
    /\ pc = "rewriting" /\ Over(walk)
    /\ res' = Rewritten
    /\ Await("returned", "none")
    /\ UNCHANGED <<req, upstream, body, left, walk, timedOut, aborted, closed>>

-----------------------------------------------------------------------------
(* A body that should be no playlist, sniffed and piped.                   *)

(* A chunk that is still only the start of the tag.                        *)
SniffMore ==
    /\ pc = "sniffing" /\ body = "open"
    /\ left > (IF upstream[1].text = "playlist" THEN 1 ELSE 0)
    /\ left' = left - 1
    /\ UNCHANGED <<req, pc, upstream, body, walk, timer, age, timedOut,
                   aborted, res, closed, waited>>

FaultLeftAfter == left - 1

(* A verdict on the end of the body takes no chunk with it.                *)
LeftAfter == IF left = 0 THEN 0 ELSE left - 1

(* The verdict, on a chunk or on the end of the body: a playlist is given  *)
(* up; anything else is written on as far as it was read.                  *)
SniffDecides ==
    /\ pc = "sniffing" /\ body = "open"
    /\ IF upstream[1].text = "playlist"
       THEN /\ body' = AfterDiscard(body)
            /\ aborted' = TRUE
            /\ Refuse(502)
       ELSE /\ left' = LeftAfter
            /\ body' = IF left = 0 THEN "ended" ELSE "open"
            /\ pc' = IF left = 0 THEN "returned" ELSE "piping"
            /\ res' = [HeadersOf(upstream[1]) EXCEPT
                           !.headersSent = TRUE, !.what = "raw",
                           !.out = IF left = 0 THEN "ended" ELSE "open"]
            /\ UNCHANGED <<req, upstream, walk, timer, age, timedOut,
                           aborted, closed, waited>>

(* The stream fails, or says nothing for as long as the client library     *)
(* lets it.                                                                *)
SniffFails ==
    /\ pc = "sniffing" /\ body \in {"open", "failed"}
    /\ body' = "failed"
    /\ aborted' = TRUE
    /\ Refuse(502)

PipeChunk ==
    /\ pc = "piping" /\ body = "open" /\ left > 0
    /\ left' = left - 1
    /\ res' = [res EXCEPT !.headersSent = TRUE, !.what = "raw"]
    /\ UNCHANGED <<req, pc, upstream, body, walk, timer, age, timedOut,
                   aborted, closed, waited>>

PipeEnds ==
    /\ pc = "piping" /\ body = "open" /\ left = 0
    /\ body' = "ended"
    /\ res' = [res EXCEPT !.headersSent = TRUE, !.what = "raw", !.out = "ended"]
    /\ pc' = "returned"
    /\ UNCHANGED <<req, upstream, left, walk, timer, age, timedOut, aborted,
                   closed, waited>>

FaultBroken == [res EXCEPT !.status = 502, !.what = "own", !.out = "ended", !.claims = {}]

FaultBrokenKeepsHeaders ==
    IF res.headersSent THEN [res EXCEPT !.out = "destroyed"] ELSE Answered(502)

(* The 'error' listener: once bytes are out the response is destroyed; a   *)
(* response that has not begun drops the upstream's headers for a bare 502.*)
Broken ==
    IF res.headersSent THEN [res EXCEPT !.out = "destroyed"]
    ELSE [Answered(502) EXCEPT !.claims = {}]

PipeFails ==
    /\ pc = "piping" /\ body \in {"open", "failed"}
    /\ body' = "failed"
    /\ res' = Broken
    /\ pc' = "returned"
    /\ UNCHANGED <<req, upstream, left, walk, timer, age, timedOut, aborted,
                   closed, waited>>

-----------------------------------------------------------------------------
(* The response closes: it is over, or the client is gone.  The request's  *)
(* 'close' aborts; the pipe's own listener destroys its stream.            *)
Close ==
    /\ ~closed
    /\ closed' = TRUE
    /\ aborted' = TRUE
    /\ body' = AfterAbort(body)
    /\ pc' = IF pc = "piping" THEN "returned" ELSE pc
    /\ UNCHANGED <<req, upstream, left, walk, timer, age, timedOut, res,
                   waited>>

(* Time passes for whoever has a deadline; a due timer is not passed over. *)
Tick ==
    /\ timer # "none"
    /\ ~aborted \/ timer = "rewrite"
    /\ timer = "rewrite" => walk.vetting
    /\ ~TimedOut("header", HeaderTimeout) /\ ~TimedOut("body", BodyTimeout)
    /\ timer = "rewrite" => age <= RewriteTimeout
    /\ age' = age + 1
    /\ waited' = waited + 1
    /\ UNCHANGED <<req, pc, upstream, body, left, walk, timer, timedOut,
                   aborted, res, closed>>

Fetch ==
    \/ \E r \in Responses : HeadAnswered(r) \/ GetAnswered(r)
    \/ HeadRefused

Next ==
    \/ Fetch \/ FetchRejects \/ TimerFires
    \/ ReadChunk \/ ReadEnds \/ ReadFails
    \/ LineEnds \/ MapUri \/ TargetAllowed \/ TargetRefused \/ RewriteEnds
    \/ SniffMore \/ SniffDecides \/ SniffFails
    \/ PipeChunk \/ PipeEnds \/ PipeFails
    \/ Close \/ Tick

(* Time passes, a due timer fires, what was aborted rejects, a look-up     *)
(* ends, and a body that says nothing is given up.  Nothing is assumed of  *)
(* the upstream or of the client.                                          *)
Fairness ==
    /\ WF_vars(Tick) /\ WF_vars(TimerFires)
    /\ WF_vars(aborted /\ FetchRejects)
    /\ WF_vars(aborted /\ ReadFails)
    /\ WF_vars(LineEnds) /\ WF_vars(MapUri) /\ WF_vars(RewriteEnds)
    /\ WF_vars(TargetAllowed \/ TargetRefused)
    /\ WF_vars(SniffFails)

Spec == Init /\ [][Next]_vars /\ Fairness

-----------------------------------------------------------------------------
(* A handler that has returned leaves no body open behind it: every exit   *)
(* has read it, cancelled it or aborted its request (discardBody's         *)
(* comment: "dropping one on the floor holds a socket").                   *)
NothingLeftOpen == pc = "returned" => body # "open"

(* No playlist reaches the player as the upstream sent it: neither a whole *)
(* body that starts with the tag, whatever it was labelled, nor a part of  *)
(* one that its extension or its type gives away; and a rewritten one      *)
(* names nothing of the provider's, with every link signed as what the     *)
(* player will take it for, so that a playlist behind it is rewritten in   *)
(* its turn and a segment keeps its ranges.                                *)
NoPlaylistVerbatim ==
    /\ res.what = "raw" =>
           /\ upstream[1].status = 200 => upstream[1].text # "playlist"
           /\ upstream[1].status = 206 => ~looksLikePlaylist(upstream[1])
    /\ res.what = "rewritten" => Hides(walk)

(* A 504 means that what was awaited had its whole deadline: the GET that  *)
(* follows a refused HEAD has no less time than one that comes first.  And *)
(* a body that streams has no deadline: as long as its response is open,   *)
(* nothing here aborts it ("a paused movie is a legitimately idle          *)
(* connection").                                                           *)
WholeDeadline ==
    /\ res.status = 504 =>
           waited >= (CASE upstream = <<>>   -> HeaderTimeout
                        [] body = "failed"   -> BodyTimeout
                        [] OTHER             -> RewriteTimeout)
    /\ pc \in {"sniffing", "piping"} /\ ~closed => ~aborted

AnswerStep ==
    /\ res.headersSent => res'.status = res.status /\ res'.what = res.what
    /\ res.out # "open" => res' = res

(* A response that has begun keeps its status and its kind of body, and    *)
(* one that is over changes no more, however many of the handler's parts   *)
(* still have something to answer.                                         *)
AnsweredOnce == [][AnswerStep]_vars

(* A response that relays bytes is ended only when they are all there: one *)
(* that broke off must not pass for a whole one.  The upstream's length    *)
(* and ranges are announced for the upstream's own bytes only: not with a  *)
(* text of this server's, nor by the HEAD of a playlist that a GET would   *)
(* rewrite.                                                                *)
ClaimsAreOfTheBody ==
    /\ res.what = "raw" /\ res.out = "ended" => body = "ended" /\ left = 0
    /\ res.what = "rewritten" => res.claims = {}
    /\ res.what = "own" /\ res.claims # {} =>
           /\ res.status = upstream[1].status
           /\ ~(res.status = 200 /\ looksLikePlaylist(upstream[1]))

(* Every request comes to an end or to a stream, whatever the upstream.    *)
HandlerSettles == <>(pc \in {"piping", "returned"})
=============================================================================

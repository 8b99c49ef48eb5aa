----------------------------- MODULE RelayProofs -----------------------------
(***************************************************************************)
(* Proofs about Relay and the walk of Playlist, for every request, every   *)
(* upstream response of any number of chunks, every playlist, and every    *)
(* choice of the deadlines and of the bound on origins.                    *)
(***************************************************************************)
EXTENDS Relay, FiniteSetTheorems, TLAPS

-----------------------------------------------------------------------------
(* The walk of a playlist.                                                 *)

Signs == {"verbatim", "playlist", "segment"}

Walks == [text : Seq(Lines), line : Nat \ {0}, flag : BOOLEAN, admitted : SUBSET Origin,
          seen : SUBSET Origin, vetting : BOOLEAN, out : Seq(Seq(Signs))]

(* The flag says of the line at hand whether a URI on it would name a      *)
(* playlist by its position.                                               *)
FollowsStreamInf(text, i) ==
    \E j \in 1 .. (i - 1) :
        text[j].tag = "stream-inf" /\ \A k \in j .. (i - 1) : text[k].tag # "uri"

(* What has been put for the URIs of line i, and that none was put for one *)
(* whose origin was not seen.                                              *)
LineInv(w, i) ==
    /\ i < w.line => Len(w.out[i]) = Len(w.text[i].uris)
    /\ Len(w.out[i]) <= Len(w.text[i].uris)
    /\ \A n \in 1 .. Len(w.out[i]) :
           /\ w.out[i][n] = Reading(w.text, i, n)
           /\ w.text[i].uris[n] # "opaque" => w.text[i].uris[n] \in w.seen

WalkInv(w) ==
    /\ w \in Walks
    /\ w.text \in Texts \cup {<<>>}
    /\ Len(w.out) = Len(w.text)
    /\ w.flag <=> FollowsStreamInf(w.text, w.line)
    /\ w.seen \subseteq w.admitted
    /\ IsFiniteSet(w.seen) /\ Cardinality(w.seen) <= MaxOrigins
    /\ \A i \in 1 .. Len(w.text) : LineInv(w, i)
    /\ w.vetting => AtUri(w) /\ Uri(w) \in w.seen

-----------------------------------------------------------------------------
(* The handler.                                                            *)

Answer == [status : {0} \cup Statuses, out : {"open", "ended", "destroyed"},
           what : {"nothing", "own", "rewritten", "raw"},
           headersSent : BOOLEAN, claims : SUBSET {"length", "ranges"}]

Types ==
    /\ req \in Requests
    /\ pc \in {"head", "get", "reading", "rewriting", "sniffing", "piping", "returned"}
    /\ upstream \in {<<>>} \cup {<<r>> : r \in Responses}
    /\ body \in {"none", "open", "ended", "cancelled", "failed"}
    /\ left \in Nat
    /\ upstream # <<>> => left <= upstream[1].chunks
    /\ age \in Times
    /\ timedOut \in BOOLEAN /\ aborted \in BOOLEAN /\ closed \in BOOLEAN
    /\ res \in Answer

(* Each await has its own timer, no more than due, and it has run for as   *)
(* long as the handler has awaited.                                        *)
TimerOf(p) ==
    IF p \in {"head", "get"} THEN "header"
    ELSE IF p = "reading" THEN "body"
    ELSE IF p = "rewriting" THEN "rewrite"
    ELSE "none"

TimesInv ==
    /\ timer = TimerOf(pc)
    /\ waited = age
    /\ timedOut => aborted
    /\ timer = "header" => age <= HeaderTimeout
    /\ timer = "body" => age <= BodyTimeout
    /\ timer = "rewrite" => age <= RewriteTimeout + 1
    /\ timedOut /\ pc \in {"head", "get"} => age >= HeaderTimeout
    /\ timedOut /\ pc = "reading" => age >= BodyTimeout
    /\ pc \in {"sniffing", "piping"} /\ ~closed => ~aborted

BodyInv ==
    /\ pc \in {"head", "get"} => upstream = <<>> /\ body = "none"
    /\ pc \in {"reading", "rewriting", "sniffing", "piping"} => upstream # <<>>
    /\ aborted \/ pc = "returned" => body # "open"
    /\ pc = "rewriting" => body = "ended"
    /\ pc = "sniffing" => MustSniff(upstream[1])

(* What may be relayed as it is, and the deadline that a 504 speaks of.    *)
Relayable(r) ==
    /\ ~Mapped(r)
    /\ r.status = 200 => r.text # "playlist"
    /\ r.status = 206 => ~looksLikePlaylist(r)

Due(u, b) ==
    CASE u = <<>>     -> HeaderTimeout
      [] b = "failed" -> BodyTimeout
      [] OTHER        -> RewriteTimeout

AnswerInv ==
    /\ pc \notin {"piping", "returned"} => res = NoAnswer
    /\ pc = "piping" =>
           /\ res.out = "open" /\ Relayable(upstream[1])
           /\ res.what = (IF res.headersSent THEN "raw" ELSE "nothing")
           /\ res.status # 504
    /\ res.what = "raw" => upstream # <<>> /\ Relayable(upstream[1])
    /\ res.what = "raw" /\ res.out = "ended" => body = "ended" /\ left = 0
    /\ res.what = "rewritten" => Over(walk) /\ res.claims = {}
    /\ res.what = "own" /\ res.claims # {} =>
           /\ res.status = upstream[1].status
           /\ ~(res.status = 200 /\ looksLikePlaylist(upstream[1]))
    /\ res.status = 504 => waited >= Due(upstream, body)

IInv == Types /\ WalkInv(walk) /\ TimesInv /\ BodyInv /\ AnswerInv

-----------------------------------------------------------------------------
LEMMA NoWalkIsRight ==
    WalkInv(NoWalk)
<1>1. NoWalk \in Walks
  BY DEF NoWalk, Walks
<1>2. ~NoWalk.flag /\ ~FollowsStreamInf(NoWalk.text, NoWalk.line)
  BY DEF NoWalk, FollowsStreamInf
<1>3. IsFiniteSet(NoWalk.seen) /\ Cardinality(NoWalk.seen) <= MaxOrigins
  BY FS_EmptySet, PlaylistAssumption DEF NoWalk
<1>4. /\ NoWalk.text = <<>> /\ Len(NoWalk.out) = Len(NoWalk.text)
      /\ NoWalk.seen \subseteq NoWalk.admitted /\ ~NoWalk.vetting
      /\ 1 .. Len(NoWalk.text) = {}
  BY DEF NoWalk
<1> QED BY <1>1, <1>2, <1>3, <1>4 DEF WalkInv

LEMMA StartIsRight ==
    ASSUME NEW text \in Texts, NEW admitted \in Admitted
    PROVE  WalkInv(Start(text, admitted))
<1> DEFINE w == Start(text, admitted)
           out == [i \in 1 .. Len(text) |-> <<>>]
<1>1. text \in Seq(Lines) /\ admitted \in SUBSET Origin
  BY PlaylistAssumption
<1>2. out \in Seq(Seq(Signs)) /\ Len(out) = Len(text)
      /\ \A i \in 1 .. Len(text) : out[i] = <<>>
  BY <1>1
<1>3. DOMAIN text = 1 .. Len(text)
  BY <1>1
<1> HIDE DEF out
<1>4. /\ w \in Walks /\ w.text = text /\ w.line = 1 /\ ~w.flag /\ w.admitted = admitted
      /\ w.seen = {} /\ ~w.vetting /\ w.out = out
  <2>1. w = [NoWalk EXCEPT !.text = text, !.admitted = admitted, !.out = out]
    BY <1>3 DEF Start, out
  <2>2. w \in Walks
    BY <1>1, <1>2, <2>1, NoWalkIsRight DEF WalkInv, Walks
  <2>3. NoWalk.line = 1 /\ ~NoWalk.flag /\ NoWalk.seen = {} /\ ~NoWalk.vetting
    BY DEF NoWalk
  <2>4. NoWalk \in Walks
    BY NoWalkIsRight DEF WalkInv
  <2> HIDE DEF w
  <2> QED BY <2>1, <2>2, <2>3, <2>4 DEF Walks
<1> HIDE DEF w
<1>5. ~w.flag /\ ~FollowsStreamInf(w.text, w.line)
  BY <1>4 DEF FollowsStreamInf
<1>6. IsFiniteSet(w.seen) /\ Cardinality(w.seen) <= MaxOrigins
  BY <1>4, FS_EmptySet, PlaylistAssumption
<1>7. \A i \in 1 .. Len(w.text) : LineInv(w, i)
  <2>1. \A i \in 1 .. Len(text) : Len(text[i].uris) \in Nat
    BY <1>1 DEF Lines
  <2> QED BY <1>2, <1>4, <2>1 DEF LineInv
<1>8. WalkInv(w)
  BY <1>2, <1>4, <1>5, <1>6, <1>7 DEF WalkInv
<1> QED BY <1>8 DEF w

(* The lines of a walk that is not over, and its URIs.                     *)
LEMMA AtLine ==
    ASSUME NEW w, WalkInv(w), ~Over(w)
    PROVE  /\ w.line \in 1 .. Len(w.text) /\ Len(w.out) = Len(w.text)
           /\ w.text[w.line] \in Lines /\ Uris(w) = w.text[w.line].uris
           /\ Tag(w) = w.text[w.line].tag
           /\ w.out[w.line] \in Seq(Signs) /\ Done(w) = Len(w.out[w.line])
           /\ LineInv(w, w.line)
BY DEF WalkInv, Walks, Over, Uris, Tag, Done

LEMMA EndLineKeepsWalk ==
    ASSUME NEW w, WalkInv(w), AtLineEnd(w), ~w.vetting
    PROVE  WalkInv(EndLine(w))
<1> DEFINE v == EndLine(w)
<1>1. /\ w \in Walks /\ ~Over(w) /\ Len(w.out[w.line]) = Len(w.text[w.line].uris)
      /\ w.line \in 1 .. Len(w.text)
  BY AtLine DEF WalkInv, AtLineEnd
<1>2. v = [w EXCEPT !.flag = FlagAfter(w), !.line = w.line + 1]
  BY DEF EndLine
<1>3. FlagAfter(w) \in BOOLEAN
  BY <1>1 DEF FlagAfter, Walks
<1>4. /\ v \in Walks /\ v.text = w.text /\ v.line = w.line + 1 /\ v.flag = FlagAfter(w)
      /\ v.admitted = w.admitted /\ v.seen = w.seen /\ ~v.vetting /\ v.out = w.out
  <2>1. w.line + 1 \in Nat \ {0} /\ w.vetting \in BOOLEAN
    BY <1>1 DEF Walks
  <2>2. v \in Walks
    BY <1>1, <1>2, <1>3, <2>1 DEF Walks
  <2>3. /\ v.text = w.text /\ v.line = w.line + 1 /\ v.flag = FlagAfter(w)
        /\ v.admitted = w.admitted /\ v.seen = w.seen /\ v.vetting = w.vetting
        /\ v.out = w.out
    BY <1>1, <1>2 DEF Walks
  <2> QED BY <2>2, <2>3
<1> HIDE DEF v
<1>5. FlagAfter(w) <=> FollowsStreamInf(w.text, w.line + 1)
  <2> DEFINE l == w.line
             tag(i) == w.text[i].tag
  <2>1. l \in Nat \ {0} /\ w.flag \in BOOLEAN
    BY <1>1 DEF Walks
  <2>2. FlagAfter(w) <=> tag(l) = "stream-inf" \/ (w.flag /\ tag(l) # "uri")
    BY DEF FlagAfter, Tag
  <2>3. w.flag <=> \E j \in 1 .. (l - 1) :
                       tag(j) = "stream-inf" /\ \A k \in j .. (l - 1) : tag(k) # "uri"
    BY DEF WalkInv, FollowsStreamInf
  <2>4. FollowsStreamInf(w.text, l + 1) <=>
            \E j \in 1 .. l : tag(j) = "stream-inf" /\ \A k \in j .. l : tag(k) # "uri"
    BY <2>1 DEF FollowsStreamInf
  <2> HIDE DEF l, tag
  <2>5. (\E j \in 1 .. l : tag(j) = "stream-inf" /\ \A k \in j .. l : tag(k) # "uri")
            <=> tag(l) = "stream-inf" \/ (w.flag /\ tag(l) # "uri")
    BY <2>1, <2>3
  <2>6. FlagAfter(w) <=> FollowsStreamInf(w.text, l + 1)
    BY <2>2, <2>4, <2>5
  <2> QED BY <2>6 DEF l
<1>6. \A i \in 1 .. Len(v.text) : LineInv(v, i)
  <2> SUFFICES ASSUME NEW i \in 1 .. Len(w.text) PROVE LineInv(v, i)
    BY <1>4
  <2>1. LineInv(w, i) /\ w.line \in Nat
    BY <1>1 DEF WalkInv, Walks
  <2>2. i < w.line + 1 => i < w.line \/ i = w.line
    BY <2>1
  <2> QED BY <1>1, <1>4, <2>1, <2>2 DEF LineInv
<1>7. WalkInv(v)
  BY <1>4, <1>5, <1>6 DEF WalkInv
<1> QED BY <1>7 DEF v

LEMMA VettingKeepsWalk ==
    ASSUME NEW w, WalkInv(w), AtUri(w), Admits(w), Uri(w) # "opaque"
    PROVE  WalkInv(Vetting(w))
<1> DEFINE v == Vetting(w)
           seen == w.seen \cup {Uri(w)}
<1>1. w \in Walks /\ Uri(w) \in w.admitted
  BY DEF WalkInv, Admits
<1>2. seen \subseteq w.admitted /\ seen \in SUBSET Origin /\ w.seen \subseteq seen
  BY <1>1 DEF WalkInv, Walks
<1>3. /\ v \in Walks /\ v.text = w.text /\ v.line = w.line /\ v.flag = w.flag
      /\ v.admitted = w.admitted /\ v.seen = seen /\ v.vetting /\ v.out = w.out
  BY <1>1, <1>2 DEF Walks, Vetting
<1>4. IsFiniteSet(seen) /\ Cardinality(seen) <= MaxOrigins
  <2>1. /\ IsFiniteSet(w.seen) /\ Cardinality(w.seen) <= MaxOrigins
        /\ Uri(w) \in w.seen \/ Cardinality(w.seen) < MaxOrigins
    BY DEF WalkInv, Admits
  <2>2. /\ IsFiniteSet(seen)
        /\ Cardinality(seen) = (IF Uri(w) \in w.seen THEN Cardinality(w.seen)
                                ELSE Cardinality(w.seen) + 1)
    BY <2>1, FS_AddElement
  <2>3. Cardinality(w.seen) \in Nat /\ MaxOrigins \in Nat
    BY <2>1, FS_CardinalityType, PlaylistAssumption
  <2> HIDE DEF seen
  <2> QED BY <2>1, <2>2, <2>3
<1> HIDE DEF v, seen
<1>5. \A i \in 1 .. Len(v.text) : LineInv(v, i)
  BY <1>2, <1>3 DEF WalkInv, LineInv
<1>6. AtUri(v) /\ Uri(v) \in v.seen
  <2>1. AtUri(v) /\ Uri(v) = Uri(w)
    BY <1>3 DEF AtUri, Uri, Over, Uris, Done
  <2> QED BY <1>3, <2>1 DEF seen
<1>7. WalkInv(v)
  BY <1>2, <1>3, <1>4, <1>5, <1>6 DEF WalkInv
<1> QED BY <1>7 DEF v

(* One more sign on the line at hand, if it is the right one.              *)
LEMMA PutKeepsWalk ==
    ASSUME NEW w, WalkInv(w), AtUri(w),
           NEW what \in Signs, what = Reading(w.text, w.line, Done(w) + 1),
           Uri(w) # "opaque" => Uri(w) \in w.seen
    PROVE  WalkInv(Put(w, what))
<1> DEFINE v == Put(w, what)
           l == w.line
           line == Append(w.out[l], what)
           out == [w.out EXCEPT ![l] = line]
<1>1. /\ w \in Walks /\ l \in 1 .. Len(w.text) /\ Len(w.out) = Len(w.text)
      /\ w.out[l] \in Seq(Signs) /\ LineInv(w, l)
      /\ Done(w) = Len(w.out[l]) /\ Done(w) < Len(w.text[l].uris)
      /\ Uri(w) = w.text[l].uris[Done(w) + 1]
      /\ w.text[l].uris \in Seq(Origin \cup {"opaque"})
  BY AtLine DEF WalkInv, AtUri, Uri, Uris, Lines
<1>2. line \in Seq(Signs) /\ Len(line) = Done(w) + 1 /\ line[Done(w) + 1] = what
      /\ \A n \in 1 .. Done(w) : line[n] = w.out[l][n]
  BY <1>1
<1>3. w.out \in Seq(Seq(Signs))
  BY <1>1 DEF Walks
<1> HIDE DEF line
<1>4. out \in Seq(Seq(Signs)) /\ Len(out) = Len(w.out) /\ out[l] = line
      /\ \A i \in 1 .. Len(w.text) : i # l => out[i] = w.out[i]
  BY <1>1, <1>2, <1>3
<1>5. v = [w EXCEPT !.out = out, !.vetting = FALSE]
  BY DEF Put, line
<1> HIDE DEF out
<1>6. /\ v \in Walks /\ v.text = w.text /\ v.line = l /\ v.flag = w.flag
      /\ v.admitted = w.admitted /\ v.seen = w.seen /\ ~v.vetting /\ v.out = out
  BY <1>1, <1>4, <1>5 DEF Walks
<1> HIDE DEF v
<1>7. \A i \in 1 .. Len(v.text) : LineInv(v, i)
  <2> SUFFICES ASSUME NEW i \in 1 .. Len(w.text) PROVE LineInv(v, i)
    BY <1>6
  <2>1. CASE i # l
    BY <1>4, <1>6, <2>1 DEF WalkInv, LineInv
  <2>2. CASE i = l
    <3>1. v.out[i] = line /\ v.text[i] = w.text[l]
      BY <1>4, <1>6, <2>2
    <3>2. Len(line) <= Len(w.text[l].uris) /\ ~(i < v.line)
      BY <1>1, <1>2, <1>6, <2>2 DEF Walks
    <3>3. ASSUME NEW n \in 1 .. Len(line)
          PROVE  /\ line[n] = Reading(w.text, l, n)
                 /\ w.text[l].uris[n] # "opaque" => w.text[l].uris[n] \in w.seen
      <4>1. CASE n = Done(w) + 1
        BY <1>1, <1>2, <4>1
      <4>2. CASE n # Done(w) + 1
        <5>1. n \in 1 .. Done(w)
          BY <1>1, <1>2, <3>3, <4>2
        <5> QED BY <1>1, <1>2, <5>1 DEF LineInv
      <4> QED BY <4>1, <4>2
    <3> QED BY <1>6, <2>2, <3>1, <3>2, <3>3 DEF LineInv
  <2> QED BY <2>1, <2>2
<1>8. WalkInv(v)
  BY <1>4, <1>6, <1>7 DEF WalkInv
<1> QED BY <1>8 DEF v

(* A walk that is over leaves nothing of the provider's in the playlist.   *)
LEMMA OverHides ==
    ASSUME NEW w, WalkInv(w), Over(w)
    PROVE  Hides(w)
<1>1. /\ w \in Walks /\ Len(w.out) = Len(w.text) /\ DOMAIN w.text = 1 .. Len(w.text)
      /\ \A i \in 1 .. Len(w.text) : i < w.line /\ LineInv(w, i)
  BY DEF WalkInv, Walks, Over
<1>2. ASSUME NEW i \in DOMAIN w.text
      PROVE  /\ w.text[i].uris \in Seq(Origin \cup {"opaque"})
             /\ w.out[i] \in Seq(Signs) /\ Len(w.out[i]) = Len(w.text[i].uris)
             /\ LineInv(w, i)
  <2>1. w.text[i] \in Lines /\ w.out[i] \in Seq(Signs)
    BY <1>1 DEF Walks
  <2>2. w.text[i].uris \in Seq(Origin \cup {"opaque"})
    BY <2>1 DEF Lines
  <2>3. i < w.line /\ LineInv(w, i)
    BY <1>1
  <2>4. Len(w.out[i]) = Len(w.text[i].uris)
    BY <2>3 DEF LineInv
  <2> QED BY <2>1, <2>2, <2>3, <2>4
<1>3. ASSUME NEW i \in DOMAIN w.text
      PROVE  w.out[i] = [n \in DOMAIN w.text[i].uris |-> Reading(w.text, i, n)]
  <2>1. DOMAIN w.text[i].uris = 1 .. Len(w.out[i])
    BY <1>2
  <2>2. w.out[i] = [n \in 1 .. Len(w.out[i]) |-> w.out[i][n]]
    BY <1>2
  <2>3. \A n \in 1 .. Len(w.out[i]) : w.out[i][n] = Reading(w.text, i, n)
    BY <1>2 DEF LineInv
  <2> QED BY <2>1, <2>2, <2>3
<1>4. Targets(w.text) \subseteq w.seen
  <2> SUFFICES ASSUME NEW i \in DOMAIN w.text, NEW n \in DOMAIN w.text[i].uris,
                      w.text[i].uris[n] \in Origin
               PROVE  w.text[i].uris[n] \in w.seen
    BY DEF Targets
  <2>1. n \in 1 .. Len(w.out[i])
    BY <1>2
  <2> QED BY <1>2, <2>1, PlaylistAssumption DEF LineInv
<1>5. Targets(w.text) \subseteq w.admitted
  BY <1>4 DEF WalkInv
<1>6. Cardinality(Targets(w.text)) <= MaxOrigins
  <2>1. /\ IsFiniteSet(w.seen) /\ Cardinality(w.seen) <= MaxOrigins
    BY DEF WalkInv
  <2>2. /\ IsFiniteSet(Targets(w.text))
        /\ Cardinality(Targets(w.text)) <= Cardinality(w.seen)
    BY <1>4, <2>1, FS_Subset
  <2>3. /\ Cardinality(w.seen) \in Nat /\ Cardinality(Targets(w.text)) \in Nat
        /\ MaxOrigins \in Nat
    BY <2>1, <2>2, FS_CardinalityType, PlaylistAssumption
  <2> QED BY <2>1, <2>2, <2>3
<1> QED BY <1>3, <1>5, <1>6 DEF Hides

-----------------------------------------------------------------------------
LEMMA Constants ==
    /\ HeaderTimeout \in Nat \ {0} /\ BodyTimeout \in Nat \ {0}
    /\ RewriteTimeout \in Nat \ {0}
    /\ AgeMax = HeaderTimeout + BodyTimeout + RewriteTimeout
    /\ Times = 0 .. AgeMax /\ 0 \in Times
BY RelayAssumption DEF AgeMax, Times

LEMMA ResponseFacts ==
    ASSUME NEW r \in Responses
    PROVE  /\ r.status \in {200, 206, 304, 404} /\ r.chunks \in Nat
           /\ <<r>> \in {<<>>} \cup {<<q>> : q \in Responses} /\ <<r>> # <<>>
           /\ r.status = 200 => HasBody(r)
BY RelayAssumption DEF AllResponses, HasBody

LEMMA UpstreamMember ==
    ASSUME Types, upstream # <<>>
    PROVE  upstream[1] \in Responses /\ upstream = <<upstream[1]>>
BY DEF Types

LEMMA InvariantImpliesTypeOK ==
    IInv => TypeOK
<1> SUFFICES ASSUME IInv PROVE TypeOK
  OBVIOUS
<1>1. walk.out \in [DOMAIN walk.text -> Seq({"verbatim", "playlist", "segment"})]
  <2>1. /\ walk.out \in Seq(Seq(Signs)) /\ walk.text \in Seq(Lines)
        /\ Len(walk.out) = Len(walk.text)
    BY DEF IInv, WalkInv, Walks
  <2> QED BY <2>1 DEF Signs
<1>2. walk.text \in Texts \cup {<<>>} /\ walk.seen \subseteq walk.admitted
  BY DEF IInv, WalkInv
<1>3. upstream # <<>> => left \in 0 .. upstream[1].chunks
  <2>1. upstream # <<>> => upstream[1].chunks \in Nat
    BY UpstreamMember, ResponseFacts DEF IInv
  <2> QED BY <2>1 DEF IInv, Types
<1>4. timer \in {"none", "header", "body", "rewrite"} /\ waited \in Times
  BY DEF IInv, Types, TimesInv, TimerOf
<1> QED BY <1>1, <1>2, <1>3, <1>4 DEF IInv, Types, TypeOK, Answer

LEMMA InvariantImpliesProperties ==
    IInv => NothingLeftOpen /\ NoPlaylistVerbatim /\ WholeDeadline /\ ClaimsAreOfTheBody
<1> SUFFICES ASSUME IInv
             PROVE  NothingLeftOpen /\ NoPlaylistVerbatim /\ WholeDeadline /\ ClaimsAreOfTheBody
  OBVIOUS
<1>1. NothingLeftOpen
  BY DEF IInv, BodyInv, NothingLeftOpen
<1>2. NoPlaylistVerbatim
  BY OverHides DEF IInv, AnswerInv, Relayable, NoPlaylistVerbatim
<1>3. WholeDeadline
  BY DEF IInv, AnswerInv, TimesInv, Due, WholeDeadline
<1>4. ClaimsAreOfTheBody
  BY DEF IInv, AnswerInv, ClaimsAreOfTheBody
<1> QED BY <1>1, <1>2, <1>3, <1>4

LEMMA InitImpliesInvariant ==
    Init => IInv
<1> SUFFICES ASSUME Init PROVE IInv
  OBVIOUS
<1>1. pc \in {"head", "get"}
  BY DEF Init
<1>2. Types
  BY <1>1, Constants DEF Init, Types, NoAnswer, Answer
<1>3. WalkInv(walk)
  BY NoWalkIsRight DEF Init
<1>4. TimesInv /\ BodyInv
  BY <1>1, Constants DEF Init, TimesInv, TimerOf, BodyInv
<1>5. AnswerInv
  BY <1>1 DEF Init, AnswerInv, NoAnswer
<1> QED BY <1>2, <1>3, <1>4, <1>5 DEF IInv

-----------------------------------------------------------------------------
LEMMA OwnAnswer ==
    ASSUME NEW s \in {502, 504}, res \in Answer, ~res.headersSent
    PROVE  /\ Answered(s) \in Answer /\ Answered(s).status = s
           /\ Answered(s).what = "own" /\ Answered(s).claims = res.claims
<1> DEFINE a == [res EXCEPT !.status = s, !.out = "ended", !.what = "own",
                            !.headersSent = TRUE]
<1>1. Answered(s) = a
  BY DEF Answered
<1>2. s \in {0} \cup Statuses
  BY DEF Statuses
<1>3. a \in Answer
  BY <1>2 DEF Answer
<1>4. a.status = s /\ a.what = "own" /\ a.claims = res.claims
  BY DEF Answer
<1> HIDE DEF a
<1> QED BY <1>1, <1>3, <1>4

(* Every way to refuse: no answer has begun, and the handler leaves no     *)
(* body open.                                                              *)
LEMMA RefusalKeepsInvariant ==
    ASSUME IInv, pc \notin {"piping", "returned"}, NEW s \in {502, 504}, Refuse(s),
           body' \in {"none", "ended", "cancelled", "failed"}, aborted' \in BOOLEAN,
           aborted => aborted',
           s = 504 => waited >= Due(upstream, body')
    PROVE  IInv'
<1>1. /\ res = NoAnswer /\ res' = Answered(s)
      /\ pc' = "returned" /\ timer' = "none" /\ walk' = NoWalk
      /\ UNCHANGED <<req, upstream, left, age, timedOut, closed, waited>>
  BY DEF IInv, AnswerInv, Refuse
<1>2. /\ res' \in Answer /\ res'.status = s /\ res'.what = "own" /\ res'.claims = {}
  <2>1. ~res.headersSent /\ res.claims = {} /\ res \in Answer
    BY <1>1 DEF NoAnswer, IInv, Types
  <2> QED BY <1>1, <2>1, OwnAnswer
<1>3. Types'
  BY <1>1, <1>2 DEF IInv, Types
<1>4. WalkInv(walk)'
  BY <1>1, NoWalkIsRight
<1>5. TimesInv' /\ BodyInv'
  BY <1>1 DEF IInv, TimesInv, TimerOf, BodyInv
<1>6. AnswerInv'
  BY <1>1, <1>2 DEF AnswerInv, Due
<1> QED BY <1>3, <1>4, <1>5, <1>6 DEF IInv

(* The response is taken up: refused, read, answered, sniffed or piped.    *)
LEMMA ProceedKeepsInvariant ==
    ASSUME IInv, pc \in {"head", "get"}, ~aborted, NEW r \in Responses, Proceed(r)
    PROVE  IInv'
<1> DEFINE b == IF HasBody(r) /\ pc = "get" THEN "open" ELSE "none"
           h == [HeadersOf(r) EXCEPT !.out = "ended", !.what = "own", !.headersSent = TRUE]
<1>1. /\ res = NoAnswer /\ res \in Answer /\ req \in Requests
      /\ upstream' = <<r>> /\ left' = r.chunks /\ age' = 0 /\ waited' = 0
      /\ UNCHANGED <<req, walk, timedOut, aborted, closed>>
  BY DEF IInv, AnswerInv, Types, Proceed, Await
<1>2. \/ PartialPlaylist(r) /\ body' = AfterDiscard(b) /\ res' = Answered(502)
             /\ pc' = "returned" /\ timer' = "none"
      \/ Mapped(r) /\ body' = b /\ res' = res /\ pc' = "reading" /\ timer' = "body"
      \/ (Mapped(r) => req.method = "HEAD") /\ (req.method = "HEAD" \/ ~HasBody(r))
             /\ body' = AfterDiscard(b) /\ res' = h /\ pc' = "returned" /\ timer' = "none"
      \/ MustSniff(r) /\ body' = b /\ res' = res /\ pc' = "sniffing" /\ timer' = "none"
      \/ ~PartialPlaylist(r) /\ ~Mapped(r) /\ ~MustSniff(r) /\ HasBody(r)
             /\ body' = b /\ res' = HeadersOf(r) /\ pc' = "piping" /\ timer' = "none"
  BY DEF Proceed, Await, TimerAfter, BodyTimer
<1>3. b \in {"open", "none"} /\ AfterDiscard(b) \in {"cancelled", "none"}
  BY DEF AfterDiscard
<1>4. /\ ~res.headersSent /\ res.claims = {} /\ res.out = "open" /\ res.what = "nothing"
      /\ res.status = 0
  BY <1>1 DEF NoAnswer
<1>5. /\ Answered(502) \in Answer /\ Answered(502).status = 502
      /\ Answered(502).what = "own" /\ Answered(502).claims = {}
  BY <1>1, <1>4, OwnAnswer
<1>6. r.status \in {0} \cup Statuses /\ r.status # 504 /\ Claims(r) \in SUBSET {"length", "ranges"}
  BY ResponseFacts DEF Statuses, Claims
<1>7. /\ HeadersOf(r) \in Answer /\ HeadersOf(r).status = r.status
      /\ HeadersOf(r).out = "open" /\ HeadersOf(r).what = "nothing"
      /\ ~HeadersOf(r).headersSent /\ HeadersOf(r).claims = Claims(r)
  <2>1. HeadersOf(r) \in Answer
    BY <1>1, <1>6 DEF HeadersOf, Answer
  <2>2. /\ HeadersOf(r).status = r.status /\ HeadersOf(r).out = res.out
        /\ HeadersOf(r).what = res.what /\ HeadersOf(r).headersSent = res.headersSent
        /\ HeadersOf(r).claims = Claims(r)
    BY <1>1 DEF HeadersOf, Answer
  <2> QED BY <1>4, <2>1, <2>2
<1>8. /\ h \in Answer /\ h.status = r.status /\ h.what = "own" /\ h.claims = Claims(r)
  <2>1. h \in Answer
    BY <1>7 DEF Answer
  <2>2. h.status = HeadersOf(r).status /\ h.what = "own" /\ h.claims = HeadersOf(r).claims
    BY <1>7 DEF Answer
  <2> QED BY <1>7, <2>1, <2>2
<1> HIDE DEF b, h
<1>9. /\ pc' \in {"reading", "sniffing", "piping", "returned"}
      /\ body' \in {"none", "open", "cancelled"} /\ res' \in Answer
      /\ timer' = TimerOf(pc')
      /\ pc' = "returned" => body' # "open"
      /\ res'.status # 504
  BY <1>1, <1>2, <1>3, <1>4, <1>5, <1>6, <1>7, <1>8 DEF TimerOf
<1>10. Types'
  <2>1. upstream' \in {<<>>} \cup {<<q>> : q \in Responses} /\ upstream'[1].chunks \in Nat
    BY <1>1, ResponseFacts
  <2> QED BY <1>1, <1>9, <2>1, Constants DEF IInv, Types
<1>11. WalkInv(walk)'
  BY <1>1 DEF IInv
<1>12. TimesInv'
  <2>1. ~timedOut
    BY DEF IInv, TimesInv
  <2> QED BY <1>1, <1>9, <2>1, Constants DEF TimesInv, TimerOf
<1>13. BodyInv'
  <2>1. pc' = "sniffing" => MustSniff(r)
    BY <1>2
  <2>2. pc' = "sniffing" => MustSniff(upstream[1])'
    BY <1>1, <2>1 DEF MustSniff, Mapped, HasBody, looksLikePlaylist
  <2> QED BY <1>1, <1>9, <2>2 DEF BodyInv
<1>14. upstream'[1] = r /\ (Relayable(r)' <=> Relayable(r))
       /\ (looksLikePlaylist(r)' <=> looksLikePlaylist(r))
  BY <1>1 DEF Relayable, Mapped, HasBody, looksLikePlaylist
<1>15. AnswerInv'
  <2>1. CASE pc' \in {"reading", "sniffing"}
    BY <1>1, <1>2, <1>4, <2>1 DEF AnswerInv
  <2>2. CASE res' = Answered(502) /\ pc' = "returned"
    BY <1>5, <2>2 DEF AnswerInv
  <2>3. CASE res' = h /\ pc' = "returned" /\ (Mapped(r) => req.method = "HEAD")
    <3>1. Claims(r) # {} => ~Mapped(r)
      BY DEF Claims
    <3>2. ~Mapped(r) /\ r.status = 200 => ~looksLikePlaylist(r)
      BY ResponseFacts DEF Mapped
    <3>3. h.claims # {} => h.status = upstream'[1].status
                           /\ ~(h.status = 200 /\ looksLikePlaylist(r))
      BY <1>8, <1>14, <3>1, <3>2
    <3> QED BY <1>6, <1>8, <1>14, <2>3, <3>3 DEF AnswerInv, looksLikePlaylist
  <2>4. CASE pc' = "piping"
    <3>1. Relayable(r) /\ res' = HeadersOf(r)
      BY <1>2, <2>4 DEF Relayable, PartialPlaylist, MustSniff
    <3>2. Relayable(upstream[1])'
      BY <1>1, <1>14, <3>1 DEF Relayable, Mapped, looksLikePlaylist, HasBody
    <3> QED BY <1>6, <1>7, <2>4, <3>1, <3>2 DEF AnswerInv
  <2> QED BY <1>2, <2>1, <2>2, <2>3, <2>4
<1> QED BY <1>10, <1>11, <1>12, <1>13, <1>15 DEF IInv

LEMMA HeadRefusedKeepsInvariant ==
    ASSUME IInv, HeadRefused
    PROVE  IInv'
<1>1. /\ pc = "head" /\ ~aborted /\ res = NoAnswer /\ upstream = <<>> /\ body = "none"
      /\ pc' = "get" /\ timer' = "header" /\ age' = 0 /\ waited' = 0
      /\ UNCHANGED <<req, upstream, body, left, walk, timedOut, aborted, res, closed>>
  BY DEF HeadRefused, Rearmed, IInv, AnswerInv, BodyInv
<1>2. Types' /\ WalkInv(walk)'
  BY <1>1, Constants DEF IInv, Types
<1>3. TimesInv'
  <2>1. ~timedOut
    BY <1>1 DEF IInv, TimesInv
  <2> QED BY <1>1, <2>1, Constants DEF TimesInv, TimerOf
<1>4. BodyInv' /\ AnswerInv'
  BY <1>1 DEF BodyInv, AnswerInv, NoAnswer
<1> QED BY <1>2, <1>3, <1>4 DEF IInv

LEMMA FetchRejectsKeepsInvariant ==
    ASSUME IInv, FetchRejects
    PROVE  IInv'
<1> DEFINE s == IF timedOut THEN 504 ELSE 502
<1>1. /\ pc \in {"head", "get"} /\ Refuse(s) /\ body' = body /\ aborted' = aborted
      /\ s \in {502, 504}
  BY DEF FetchRejects
<1>2. body = "none" /\ aborted \in BOOLEAN
  BY <1>1 DEF IInv, BodyInv, Types
<1>3. s = 504 => waited >= Due(upstream, body')
  BY <1>1 DEF IInv, TimesInv, BodyInv, Due
<1> HIDE DEF s
<1> QED BY <1>1, <1>2, <1>3, RefusalKeepsInvariant

LEMMA TimerFiresKeepsInvariant ==
    ASSUME IInv, TimerFires
    PROVE  IInv'
<1>1. /\ (timer = "header" /\ age >= HeaderTimeout) \/ (timer = "body" /\ age >= BodyTimeout)
      /\ timedOut' = TRUE /\ aborted' = TRUE /\ body' = AfterAbort(body)
      /\ UNCHANGED <<req, pc, upstream, left, walk, timer, age, res, closed, waited>>
  BY DEF TimerFires, TimedOut
<1>2. pc \in {"head", "get", "reading"} /\ timer = TimerOf(pc)
  BY <1>1 DEF IInv, TimesInv, TimerOf
<1>3. /\ body' \in {"none", "ended", "cancelled", "failed"}
      /\ body = "none" => body' = "none"
  BY <1>1 DEF AfterAbort, IInv, Types
<1>4. Types' /\ WalkInv(walk)'
  BY <1>1, <1>3 DEF IInv, Types
<1>5. TimesInv'
  BY <1>1, <1>2 DEF IInv, TimesInv, TimerOf
<1>6. BodyInv'
  BY <1>1, <1>2, <1>3 DEF IInv, BodyInv
<1>7. AnswerInv'
  BY <1>1, <1>2 DEF IInv, AnswerInv, NoAnswer
<1> QED BY <1>4, <1>5, <1>6, <1>7 DEF IInv

(* A chunk is read, and nothing is answered yet.                           *)
LEMMA ChunkKeepsInvariant ==
    ASSUME IInv, ReadChunk \/ SniffMore
    PROVE  IInv'
<1>1. /\ pc \in {"reading", "sniffing"} /\ left > 0 /\ left' = left - 1
      /\ UNCHANGED <<req, pc, upstream, body, walk, timer, age, timedOut, aborted, res,
                     closed, waited>>
  BY DEF ReadChunk, SniffMore, IInv, Types
<1>2. Types'
  <2>1. left' \in Nat /\ left' <= left
    BY <1>1 DEF IInv, Types
  <2>2. upstream # <<>> => left' <= upstream[1].chunks
    <3>1. upstream # <<>> => upstream[1].chunks \in Nat /\ left <= upstream[1].chunks
      BY UpstreamMember, ResponseFacts DEF IInv, Types
    <3> QED BY <1>1, <2>1, <3>1 DEF IInv, Types
  <2> QED BY <1>1, <2>1, <2>2 DEF IInv, Types
<1>3. WalkInv(walk)'
  BY <1>1 DEF IInv
<1>4. TimesInv'
  BY <1>1 DEF IInv, TimesInv
<1>5. BodyInv'
  BY <1>1 DEF IInv, BodyInv, MustSniff, Mapped, HasBody, looksLikePlaylist
<1>6. AnswerInv'
  BY <1>1 DEF IInv, AnswerInv, NoAnswer
<1> QED BY <1>2, <1>3, <1>4, <1>5, <1>6 DEF IInv

LEMMA ReadEndsKeepsInvariant ==
    ASSUME IInv, ReadEnds
    PROVE  IInv'
<1>1. pc = "reading" /\ body' = "ended" /\ aborted' = aborted /\ aborted \in BOOLEAN
  BY DEF ReadEnds, IInv, Types
<1>2. CASE upstream[1].text # "playlist"
  <2>1. Refuse(502)
    BY <1>2 DEF ReadEnds
  <2> QED BY <1>1, <2>1, RefusalKeepsInvariant
<1>3. CASE upstream[1].text = "playlist"
  <2>1. PICK text \in Texts, admitted \in Admitted : walk' = Start(text, admitted)
    BY <1>3 DEF ReadEnds
  <2>2. /\ pc' = "rewriting" /\ timer' = "rewrite" /\ age' = 0 /\ waited' = 0
        /\ UNCHANGED <<req, upstream, left, timedOut, res, closed>>
    BY <1>3 DEF ReadEnds, Await
  <2>3. WalkInv(walk)'
    BY <2>1, StartIsRight
  <2>4. Types'
    BY <1>1, <2>2, Constants DEF IInv, Types
  <2>5. TimesInv' /\ BodyInv'
    BY <1>1, <2>2, Constants DEF IInv, TimesInv, TimerOf, BodyInv
  <2>6. AnswerInv'
    BY <1>1, <2>2 DEF IInv, AnswerInv, NoAnswer
  <2> QED BY <2>3, <2>4, <2>5, <2>6 DEF IInv
<1> QED BY <1>2, <1>3

LEMMA ReadFailsKeepsInvariant ==
    ASSUME IInv, ReadFails
    PROVE  IInv'
<1> DEFINE s == IF timedOut THEN 504 ELSE 502
<1>1. /\ pc = "reading" /\ Refuse(s) /\ body' = "failed" /\ aborted' = TRUE
      /\ s \in {502, 504}
  BY DEF ReadFails, AfterRead, AfterAbort
<1>2. s = 504 => waited >= Due(upstream, body')
  BY <1>1 DEF IInv, TimesInv, BodyInv, Due
<1> HIDE DEF s
<1> QED BY <1>1, <1>2, RefusalKeepsInvariant

(* The rewrite goes on from one right walk to another.                     *)
LEMMA WalkKeepsInvariant ==
    ASSUME IInv, pc = "rewriting", NEW w, WalkInv(w), Walk(w)
    PROVE  IInv'
<1>1. /\ walk' = w
      /\ UNCHANGED <<req, pc, upstream, body, left, timer, age, timedOut, aborted, res,
                     closed, waited>>
  BY DEF Walk
<1>2. Types' /\ TimesInv' /\ BodyInv'
  BY <1>1 DEF IInv, Types, TimesInv, BodyInv
<1>3. AnswerInv'
  BY <1>1 DEF IInv, AnswerInv, NoAnswer
<1> QED BY <1>1, <1>2, <1>3 DEF IInv

LEMMA LineEndsKeepsInvariant ==
    ASSUME IInv, LineEnds
    PROVE  IInv'
<1>1. pc = "rewriting" /\ AtLineEnd(walk) /\ Walk(EndLine(walk)) /\ WalkInv(walk)
  BY DEF LineEnds, IInv
<1>2. ~walk.vetting
  <2>1. AtUri(walk) => Done(walk) < Len(Uris(walk))
    BY DEF AtUri
  <2>2. Done(walk) = Len(Uris(walk)) /\ Done(walk) \in Nat
    BY <1>1, AtLine DEF AtLineEnd
  <2> QED BY <1>1, <2>1, <2>2 DEF WalkInv
<1>3. WalkInv(EndLine(walk))
  BY <1>1, <1>2, EndLineKeepsWalk
<1> QED BY <1>1, <1>3, WalkKeepsInvariant

(* The deadline, an origin that is not admitted, or one too many.          *)
LEMMA RewriteRefusedKeepsInvariant ==
    ASSUME IInv, pc = "rewriting", UNCHANGED <<body, aborted>>,
           NEW s \in {502, 504}, Refuse(s), s = 504 => age > RewriteTimeout
    PROVE  IInv'
<1>1. body' = "ended" /\ aborted' \in BOOLEAN /\ aborted' = aborted /\ upstream # <<>>
  BY DEF IInv, BodyInv, Types
<1>2. s = 504 => waited >= Due(upstream, body')
  <2>1. Due(upstream, body') = RewriteTimeout
    BY <1>1 DEF Due
  <2>2. waited = age /\ age \in Nat
    BY Constants DEF IInv, TimesInv, Types
  <2> QED BY <2>1, <2>2, Constants
<1> QED BY <1>1, <1>2, RefusalKeepsInvariant

LEMMA MapUriKeepsInvariant ==
    ASSUME IInv, MapUri
    PROVE  IInv'
<1>1. pc = "rewriting" /\ AtUri(walk) /\ ~walk.vetting /\ WalkInv(walk)
  BY DEF MapUri, IInv
<1>2. \/ Refuse(504) /\ age > RewriteTimeout /\ UNCHANGED <<body, aborted>>
      \/ Uri(walk) = "opaque" /\ Walk(Put(walk, "verbatim"))
      \/ Uri(walk) # "opaque" /\ Admits(walk) /\ Walk(Vetting(walk))
      \/ Refuse(502) /\ UNCHANGED <<body, aborted>>
  BY DEF MapUri
<1>3. CASE Uri(walk) = "opaque" /\ Walk(Put(walk, "verbatim"))
  <2>1. "verbatim" = Reading(walk.text, walk.line, Done(walk) + 1)
    BY <1>3 DEF Reading, Uri, Uris
  <2>2. WalkInv(Put(walk, "verbatim"))
    BY <1>1, <1>3, <2>1, PutKeepsWalk DEF Signs
  <2> QED BY <1>1, <1>3, <2>2, WalkKeepsInvariant
<1>4. CASE Uri(walk) # "opaque" /\ Admits(walk) /\ Walk(Vetting(walk))
  <2>1. WalkInv(Vetting(walk))
    BY <1>1, <1>4, VettingKeepsWalk
  <2> QED BY <1>1, <1>4, <2>1, WalkKeepsInvariant
<1>5. CASE Refuse(504) /\ age > RewriteTimeout /\ UNCHANGED <<body, aborted>>
  BY <1>1, <1>5, RewriteRefusedKeepsInvariant
<1>6. CASE Refuse(502) /\ UNCHANGED <<body, aborted>>
  BY <1>1, <1>6, RewriteRefusedKeepsInvariant
<1> QED BY <1>2, <1>3, <1>4, <1>5, <1>6

LEMMA TargetEndsKeepsInvariant ==
    ASSUME IInv, TargetAllowed \/ TargetRefused
    PROVE  IInv'
<1>1. CASE TargetAllowed
  <2> DEFINE what == IF IsPlaylist(walk) THEN "playlist" ELSE "segment"
  <2>1. /\ pc = "rewriting" /\ walk.vetting /\ WalkInv(walk)
        /\ Walk(Put(walk, what)) /\ what \in Signs
    BY <1>1 DEF TargetAllowed, Signed, IInv, Signs
  <2>2. AtUri(walk) /\ Uri(walk) \in walk.seen /\ walk.seen \subseteq Origin
    BY <2>1 DEF WalkInv, Walks
  <2>3. Uri(walk) # "opaque"
    BY <2>2, PlaylistAssumption
  <2>4. what = Reading(walk.text, walk.line, Done(walk) + 1)
    <3>1. walk.text[walk.line].uris[Done(walk) + 1] # "opaque"
      BY <2>3 DEF Uri, Uris
    <3>2. walk.flag <=> FollowsStreamInf(walk.text, walk.line)
      BY <2>1 DEF WalkInv
    <3>3. IsPlaylist(walk) <=> NamesPlaylist(walk.text, walk.line)
      BY <3>2 DEF IsPlaylist, NamesPlaylist, FollowsStreamInf, Tag
    <3> QED BY <3>1, <3>3 DEF Reading
  <2> HIDE DEF what
  <2>5. WalkInv(Put(walk, what))
    BY <2>1, <2>2, <2>4, PutKeepsWalk
  <2> QED BY <2>1, <2>5, WalkKeepsInvariant
<1>2. CASE TargetRefused
  BY <1>2, RewriteRefusedKeepsInvariant DEF TargetRefused
<1> QED BY <1>1, <1>2

LEMMA RewriteEndsKeepsInvariant ==
    ASSUME IInv, RewriteEnds
    PROVE  IInv'
<1> DEFINE a == [res EXCEPT !.status = upstream[1].status, !.out = "ended",
                            !.what = "rewritten", !.headersSent = TRUE]
<1>1. /\ pc = "rewriting" /\ Over(walk) /\ res' = a /\ body = "ended"
      /\ pc' = "returned" /\ timer' = "none" /\ age' = 0 /\ waited' = 0
      /\ UNCHANGED <<req, upstream, body, left, walk, timedOut, aborted, closed>>
  BY DEF RewriteEnds, Rewritten, Await, IInv, BodyInv
<1>2. res = NoAnswer /\ res \in Answer /\ upstream[1] \in Responses
  BY <1>1, UpstreamMember DEF IInv, AnswerInv, BodyInv, Types
<1>3. upstream[1].status \in {0} \cup Statuses /\ upstream[1].status # 504
  BY <1>2, ResponseFacts DEF Statuses
<1>4. a \in Answer
  BY <1>2, <1>3 DEF Answer
<1>5. a.status = upstream[1].status /\ a.what = "rewritten" /\ a.claims = {}
  BY <1>2 DEF Answer, NoAnswer
<1> HIDE DEF a
<1>6. Types' /\ WalkInv(walk)'
  BY <1>1, <1>4, Constants DEF IInv, Types
<1>7. TimesInv' /\ BodyInv'
  BY <1>1, Constants DEF IInv, TimesInv, TimerOf, BodyInv
<1>8. Over(walk)'
  BY <1>1
<1>9. AnswerInv'
  BY <1>1, <1>3, <1>5, <1>8 DEF AnswerInv
<1> QED BY <1>6, <1>7, <1>9 DEF IInv

(* What the properties say of a response that relays bytes.                *)
LEMMA RelayingKeepsAnswer ==
    ASSUME pc' \in {"piping", "returned"}, upstream' # <<>>, Relayable(upstream[1])',
           res'.what = "raw", res'.headersSent, res'.status # 504,
           pc' = "piping" => res'.out = "open",
           res'.out = "ended" => body' = "ended" /\ left' = 0
    PROVE  AnswerInv'
BY DEF AnswerInv

LEMMA SniffDecidesKeepsInvariant ==
    ASSUME IInv, SniffDecides
    PROVE  IInv'
<1>1. pc = "sniffing" /\ body = "open" /\ upstream # <<>> /\ ~aborted
  BY DEF SniffDecides, IInv, BodyInv
<1>2. CASE upstream[1].text = "playlist"
  <2>1. Refuse(502) /\ body' = "cancelled" /\ aborted' = TRUE
    BY <1>1, <1>2 DEF SniffDecides, AfterDiscard
  <2> QED BY <1>1, <2>1, RefusalKeepsInvariant
<1>3. CASE upstream[1].text # "playlist"
  <2> DEFINE out == IF left = 0 THEN "ended" ELSE "open"
             h == HeadersOf(upstream[1])
             a == [h EXCEPT !.headersSent = TRUE, !.what = "raw", !.out = out]
  <2>1. /\ left' = (IF left = 0 THEN 0 ELSE left - 1)
        /\ body' = (IF left = 0 THEN "ended" ELSE "open")
        /\ pc' = (IF left = 0 THEN "returned" ELSE "piping")
        /\ res' = a
        /\ UNCHANGED <<req, upstream, walk, timer, age, timedOut, aborted, closed, waited>>
    BY <1>3 DEF SniffDecides, LeftAfter
  <2>2. res = NoAnswer /\ res \in Answer /\ upstream[1] \in Responses
    BY <1>1, UpstreamMember DEF IInv, AnswerInv, Types
  <2>3. /\ upstream[1].status \in {0} \cup Statuses /\ upstream[1].status # 504
        /\ Claims(upstream[1]) \in SUBSET {"length", "ranges"}
    BY <2>2, ResponseFacts DEF Statuses, Claims
  <2>4. h \in Answer /\ h.status = upstream[1].status
    BY <2>2, <2>3 DEF HeadersOf, Answer
  <2>5. out \in {"open", "ended"} /\ (left = 0 <=> out = "ended")
    OBVIOUS
  <2> HIDE DEF h, out
  <2>6. /\ a \in Answer /\ a.status = upstream[1].status /\ a.what = "raw"
        /\ a.headersSent /\ a.out = out
    BY <2>4, <2>5 DEF Answer
  <2> HIDE DEF a
  <2>7. left \in Nat /\ left' \in Nat /\ left' <= left
    BY <2>1 DEF IInv, Types
  <2>8. left' <= upstream'[1].chunks
    <3>1. upstream[1].chunks \in Nat /\ left <= upstream[1].chunks
      BY <1>1, <2>2, ResponseFacts DEF IInv, Types
    <3> QED BY <2>1, <2>7, <3>1
  <2>9. Types' /\ WalkInv(walk)'
    BY <2>1, <2>6, <2>7, <2>8 DEF IInv, Types
  <2>10. TimesInv' /\ BodyInv'
    BY <1>1, <2>1 DEF IInv, TimesInv, TimerOf, BodyInv
  <2>11. Relayable(upstream[1])'
    <3>1. ~Mapped(upstream[1]) /\ upstream[1].status = 200
      BY <1>1 DEF IInv, BodyInv, MustSniff
    <3>2. Relayable(upstream[1])
      BY <1>3, <3>1 DEF Relayable
    <3> QED BY <2>1, <3>2 DEF Relayable, Mapped, HasBody, looksLikePlaylist
  <2>12. AnswerInv'
    BY <1>1, <2>1, <2>3, <2>5, <2>6, <2>7, <2>11, RelayingKeepsAnswer
  <2> QED BY <2>9, <2>10, <2>12 DEF IInv
<1> QED BY <1>2, <1>3

LEMMA SniffFailsKeepsInvariant ==
    ASSUME IInv, SniffFails
    PROVE  IInv'
BY RefusalKeepsInvariant DEF SniffFails

LEMMA PipeKeepsInvariant ==
    ASSUME IInv, PipeChunk \/ PipeEnds
    PROVE  IInv'
<1>1. /\ pc = "piping" /\ body = "open" /\ upstream # <<>> /\ ~aborted
      /\ res \in Answer /\ res.out = "open" /\ res.status # 504
      /\ Relayable(upstream[1]) /\ left \in Nat
  BY DEF PipeChunk, PipeEnds, IInv, Types, BodyInv, AnswerInv
<1>2. UNCHANGED <<req, upstream, walk, timer, age, timedOut, aborted, closed, waited>>
  BY DEF PipeChunk, PipeEnds
<1>3. \/ left > 0 /\ left' = left - 1 /\ body' = body /\ pc' = pc
             /\ res' = [res EXCEPT !.headersSent = TRUE, !.what = "raw"]
      \/ left = 0 /\ left' = left /\ body' = "ended" /\ pc' = "returned"
             /\ res' = [res EXCEPT !.headersSent = TRUE, !.what = "raw", !.out = "ended"]
  BY DEF PipeChunk, PipeEnds
<1>4. /\ res' \in Answer /\ res'.status = res.status /\ res'.what = "raw" /\ res'.headersSent
      /\ res'.out = IF left = 0 THEN "ended" ELSE "open"
  <2> DEFINE a == [res EXCEPT !.headersSent = TRUE, !.what = "raw"]
             z == [res EXCEPT !.headersSent = TRUE, !.what = "raw", !.out = "ended"]
  <2>1. a \in Answer /\ z \in Answer
    <3>1. res \in Answer
      BY <1>1
    <3>2. a \in Answer
      BY <3>1 DEF Answer
    <3>3. z \in Answer
      BY <3>1 DEF Answer
    <3> QED BY <3>2, <3>3
  <2>2. a.status = res.status /\ a.what = "raw" /\ a.headersSent /\ a.out = res.out
    BY <1>1 DEF Answer
  <2>3. z.status = res.status /\ z.what = "raw" /\ z.headersSent /\ z.out = "ended"
    BY <1>1 DEF Answer
  <2>4. (left > 0 /\ res' = a) \/ (left = 0 /\ res' = z)
    BY <1>3
  <2> HIDE DEF a, z
  <2>5. CASE left > 0 /\ res' = a
    BY <1>1, <2>1, <2>2, <2>5
  <2>6. CASE left = 0 /\ res' = z
    BY <2>1, <2>3, <2>6
  <2> QED BY <2>4, <2>5, <2>6
<1>5. left' \in Nat /\ left' <= left
  BY <1>1, <1>3
<1>6. left' <= upstream'[1].chunks
  <2>1. upstream[1].chunks \in Nat /\ left <= upstream[1].chunks
    BY <1>1, UpstreamMember, ResponseFacts DEF IInv, Types
  <2> QED BY <1>1, <1>2, <1>5, <2>1
<1>7. Types' /\ WalkInv(walk)'
  BY <1>2, <1>3, <1>4, <1>5, <1>6 DEF IInv, Types
<1>8. TimesInv' /\ BodyInv'
  BY <1>1, <1>2, <1>3 DEF IInv, TimesInv, TimerOf, BodyInv
<1>9. Relayable(upstream[1])'
  BY <1>1, <1>2 DEF Relayable, Mapped, HasBody, looksLikePlaylist
<1>10. AnswerInv'
  BY <1>1, <1>2, <1>3, <1>4, <1>9, RelayingKeepsAnswer
<1> QED BY <1>7, <1>8, <1>10 DEF IInv

LEMMA PipeFailsKeepsInvariant ==
    ASSUME IInv, PipeFails
    PROVE  IInv'
<1>1. /\ pc = "piping" /\ body' = "failed" /\ res' = Broken /\ pc' = "returned"
      /\ UNCHANGED <<req, upstream, left, walk, timer, age, timedOut, aborted, closed, waited>>
  BY DEF PipeFails
<1>2. /\ res \in Answer /\ res.status # 504 /\ upstream # <<>>
      /\ res.what = (IF res.headersSent THEN "raw" ELSE "nothing")
      /\ Relayable(upstream[1])
  BY <1>1 DEF IInv, Types, BodyInv, AnswerInv
<1>3. TimesInv' /\ BodyInv' /\ WalkInv(walk)'
  BY <1>1 DEF IInv, TimesInv, TimerOf, BodyInv
<1>4. Relayable(upstream[1])'
  BY <1>1, <1>2 DEF Relayable, Mapped, HasBody, looksLikePlaylist
<1>5. CASE res.headersSent
  <2>1. res' = [res EXCEPT !.out = "destroyed"]
    BY <1>1, <1>5 DEF Broken
  <2>2. /\ res' \in Answer /\ res'.status = res.status /\ res'.what = "raw"
        /\ res'.out = "destroyed" /\ res'.headersSent
    BY <1>2, <1>5, <2>1 DEF Answer
  <2>3. Types'
    BY <1>1, <2>2 DEF IInv, Types
  <2>4. AnswerInv'
    BY <1>1, <1>2, <1>4, <2>2, RelayingKeepsAnswer
  <2> QED BY <1>3, <2>3, <2>4 DEF IInv
<1>6. CASE ~res.headersSent
  <2> DEFINE a == Answered(502)
  <2>1. a \in Answer /\ a.status = 502 /\ a.what = "own"
    BY <1>2, <1>6, OwnAnswer
  <2>2. res' = [a EXCEPT !.claims = {}]
    BY <1>1, <1>6 DEF Broken
  <2> HIDE DEF a
  <2>3. res' \in Answer /\ res'.status = 502 /\ res'.what = "own" /\ res'.claims = {}
    BY <2>1, <2>2 DEF Answer
  <2>4. Types'
    BY <1>1, <2>3 DEF IInv, Types
  <2>5. AnswerInv'
    BY <1>1, <2>3 DEF AnswerInv
  <2> QED BY <1>3, <2>4, <2>5 DEF IInv
<1> QED BY <1>5, <1>6

LEMMA CloseKeepsInvariant ==
    ASSUME IInv, Close
    PROVE  IInv'
<1>1. /\ closed' = TRUE /\ aborted' = TRUE /\ body' = AfterAbort(body)
      /\ pc' = (IF pc = "piping" THEN "returned" ELSE pc)
      /\ UNCHANGED <<req, upstream, left, walk, timer, age, timedOut, res, waited>>
  BY DEF Close
<1>2. /\ body' \in {"none", "ended", "cancelled", "failed"}
      /\ body # "open" => body' = body
  BY <1>1 DEF AfterAbort, IInv, Types
<1>3. Types' /\ WalkInv(walk)'
  BY <1>1, <1>2 DEF IInv, Types
<1>4. TimesInv'
  BY <1>1 DEF IInv, TimesInv, TimerOf
<1>5. BodyInv'
  <2>1. pc = "sniffing" => MustSniff(upstream[1])'
    BY <1>1 DEF IInv, BodyInv, MustSniff, Mapped, HasBody, looksLikePlaylist
  <2> QED BY <1>1, <1>2, <2>1 DEF IInv, BodyInv
<1>6. AnswerInv'
  <2>1. CASE pc = "piping"
    <3>1. /\ upstream # <<>> /\ Relayable(upstream[1]) /\ res.out = "open"
          /\ res.what \in {"raw", "nothing"} /\ res.status # 504
      BY <2>1 DEF IInv, BodyInv, AnswerInv
    <3>2. Relayable(upstream[1])'
      BY <1>1, <3>1 DEF Relayable, Mapped, HasBody, looksLikePlaylist
    <3> QED BY <1>1, <2>1, <3>1, <3>2 DEF AnswerInv
  <2>2. CASE pc = "returned"
    <3>1. body' = body
      BY <1>2, <2>2 DEF IInv, BodyInv
    <3>2. res.what = "raw" => Relayable(upstream[1])'
      BY <1>1 DEF IInv, AnswerInv, Relayable, Mapped, HasBody, looksLikePlaylist
    <3>3. (looksLikePlaylist(upstream[1]))' <=> looksLikePlaylist(upstream[1])
      BY <1>1 DEF looksLikePlaylist
    <3>4. Over(walk)' <=> Over(walk)
      BY <1>1
    <3> QED BY <1>1, <2>2, <3>1, <3>2, <3>3, <3>4 DEF IInv, AnswerInv, Due
  <2>3. CASE pc \notin {"piping", "returned"}
    BY <1>1, <2>3 DEF IInv, AnswerInv, NoAnswer
  <2> QED BY <2>1, <2>2, <2>3
<1> QED BY <1>3, <1>4, <1>5, <1>6 DEF IInv

LEMMA TickKeepsInvariant ==
    ASSUME IInv, Tick
    PROVE  IInv'
<1>1. /\ timer # "none"
      /\ timer = "header" => age < HeaderTimeout
      /\ timer = "body" => age < BodyTimeout
      /\ timer = "rewrite" => age <= RewriteTimeout
      /\ age' = age + 1 /\ waited' = waited + 1
      /\ UNCHANGED <<req, pc, upstream, body, left, walk, timer, timedOut, aborted, res,
                     closed>>
  <2>1. age \in Nat
    BY Constants DEF IInv, Types
  <2> QED BY <2>1, Constants DEF Tick, TimedOut
<1>2. pc \in {"head", "get", "reading", "rewriting"} /\ timer = TimerOf(pc)
  BY <1>1 DEF IInv, TimesInv, TimerOf, Types
<1>3. age \in Nat /\ waited = age
  BY Constants DEF IInv, Types, TimesInv
<1>4. age' \in Times
  BY <1>1, <1>2, <1>3, Constants DEF TimerOf
<1>5. Types' /\ WalkInv(walk)' /\ BodyInv'
  BY <1>1, <1>2, <1>4 DEF IInv, Types, BodyInv
<1>6. TimesInv'
  BY <1>1, <1>2, <1>3, Constants DEF IInv, TimesInv, TimerOf
<1>7. AnswerInv'
  BY <1>1, <1>2 DEF IInv, AnswerInv, NoAnswer
<1> QED BY <1>5, <1>6, <1>7 DEF IInv

-----------------------------------------------------------------------------
LEMMA NextKeepsInvariant ==
    IInv /\ [Next]_vars => IInv'
<1> SUFFICES ASSUME IInv, [Next]_vars PROVE IInv'
  OBVIOUS
<1>1. CASE Next
  <2>1. ASSUME NEW r \in Responses, HeadAnswered(r) \/ GetAnswered(r) PROVE IInv'
    BY <2>1, ProceedKeepsInvariant DEF HeadAnswered, GetAnswered
  <2>2. CASE HeadRefused \/ FetchRejects \/ TimerFires
    BY <2>2, HeadRefusedKeepsInvariant, FetchRejectsKeepsInvariant, TimerFiresKeepsInvariant
  <2>3. CASE ReadChunk \/ ReadEnds \/ ReadFails
    BY <2>3, ChunkKeepsInvariant, ReadEndsKeepsInvariant, ReadFailsKeepsInvariant
  <2>4. CASE LineEnds \/ MapUri \/ TargetAllowed \/ TargetRefused \/ RewriteEnds
    BY <2>4, LineEndsKeepsInvariant, MapUriKeepsInvariant, TargetEndsKeepsInvariant,
       RewriteEndsKeepsInvariant
  <2>5. CASE SniffMore \/ SniffDecides \/ SniffFails
    BY <2>5, ChunkKeepsInvariant, SniffDecidesKeepsInvariant, SniffFailsKeepsInvariant
  <2>6. CASE PipeChunk \/ PipeEnds \/ PipeFails
    BY <2>6, PipeKeepsInvariant, PipeFailsKeepsInvariant
  <2>7. CASE Close \/ Tick
    BY <2>7, CloseKeepsInvariant, TickKeepsInvariant
  <2> QED BY <1>1, <2>1, <2>2, <2>3, <2>4, <2>5, <2>6, <2>7 DEF Next, Fetch
<1>2. CASE UNCHANGED vars
  <2>1. Types' /\ WalkInv(walk)' /\ TimesInv'
    BY <1>2 DEF vars, IInv, Types, TimesInv
  <2>2. BodyInv'
    BY <1>2 DEF vars, IInv, BodyInv, MustSniff, Mapped, HasBody, looksLikePlaylist
  <2>3. AnswerInv'
    <3>1. Relayable(upstream[1])' <=> Relayable(upstream[1])
      BY <1>2 DEF vars, Relayable, Mapped, HasBody, looksLikePlaylist
    <3>2. (looksLikePlaylist(upstream[1]))' <=> looksLikePlaylist(upstream[1])
      BY <1>2 DEF vars, looksLikePlaylist
    <3>3. Over(walk)' <=> Over(walk)
      BY <1>2 DEF vars
    <3> QED BY <1>2, <3>1, <3>2, <3>3 DEF vars, IInv, AnswerInv, Due
  <2> QED BY <2>1, <2>2, <2>3 DEF IInv
<1> QED BY <1>1, <1>2

(* Who has answered, and once only.                                        *)
LEMMA StepAnswersOnce ==
    IInv /\ [Next]_vars => [AnswerStep]_vars
<1> SUFFICES ASSUME IInv, Next PROVE AnswerStep
  BY DEF vars
<1>1. CASE pc \notin {"piping", "returned"}
  BY <1>1 DEF IInv, AnswerInv, NoAnswer, AnswerStep
<1>2. CASE UNCHANGED res
  BY <1>2 DEF AnswerStep
<1>3. CASE pc \in {"piping", "returned"} /\ ~UNCHANGED res
  <2>1. PipeChunk \/ PipeEnds \/ PipeFails
    <3>1. ~Fetch /\ ~FetchRejects /\ ~TimerFires
      BY <1>3 DEF Fetch, HeadAnswered, GetAnswered, HeadRefused, FetchRejects, TimerFires
    <3>2. ~ReadChunk /\ ~ReadEnds /\ ~ReadFails
      BY <1>3 DEF ReadChunk, ReadEnds, ReadFails
    <3>3. ~LineEnds /\ ~MapUri /\ ~TargetAllowed /\ ~TargetRefused /\ ~RewriteEnds
      BY <1>3 DEF LineEnds, MapUri, TargetAllowed, TargetRefused, RewriteEnds
    <3>4. ~SniffMore /\ ~SniffDecides /\ ~SniffFails /\ ~Close /\ ~Tick
      BY <1>3 DEF SniffMore, SniffDecides, SniffFails, Close, Tick
    <3> QED BY <3>1, <3>2, <3>3, <3>4 DEF Next
  <2>2. /\ res \in Answer /\ res.out = "open"
        /\ res.headersSent => res.what = "raw"
    BY <2>1 DEF PipeChunk, PipeEnds, PipeFails, IInv, Types, AnswerInv
  <2>3. res.headersSent => res'.status = res.status /\ res'.what = "raw"
    <3>1. CASE PipeChunk
      BY <2>2, <3>1 DEF PipeChunk, Answer
    <3>2. CASE PipeEnds
      BY <2>2, <3>2 DEF PipeEnds, Answer
    <3>3. CASE PipeFails
      BY <2>2, <3>3 DEF PipeFails, Broken, Answer
    <3> QED BY <2>1, <3>1, <3>2, <3>3
  <2> QED BY <2>2, <2>3 DEF AnswerStep
<1> QED BY <1>1, <1>2, <1>3

(* Walk, timer, body and response fit where the handler is.                *)
THEOREM Inductive ==
    Spec => []IInv
BY InitImpliesInvariant, NextKeepsInvariant, PTL DEF Spec

(* Request, response, timers and walk are each of their kind.              *)
THEOREM TypeCorrect ==
    Spec => []TypeOK
BY Inductive, InvariantImpliesTypeOK, PTL

(* Every exit of the handler has read, cancelled or aborted the body.      *)
THEOREM NothingStaysOpen ==
    Spec => []NothingLeftOpen
BY Inductive, InvariantImpliesProperties, PTL

(* No playlist reaches the player as the upstream sent it, and a rewritten *)
(* one names nothing of the provider's, whatever its lines.                *)
THEOREM PlaylistsAreHidden ==
    Spec => []NoPlaylistVerbatim
BY Inductive, InvariantImpliesProperties, PTL

(* A 504 is of a whole deadline, and a stream has none.                    *)
THEOREM DeadlinesAreWhole ==
    Spec => []WholeDeadline
BY Inductive, InvariantImpliesProperties, PTL

(* A response that has begun, or is over, is answered no second time.      *)
THEOREM AnswersOnce ==
    Spec => AnsweredOnce
BY Inductive, StepAnswersOnce, PTL DEF Spec, AnsweredOnce

(* What ends is whole, and the upstream's headers go with its own bytes.   *)
THEOREM ClaimsHold ==
    Spec => []ClaimsAreOfTheBody
BY Inductive, InvariantImpliesProperties, PTL
=============================================================================

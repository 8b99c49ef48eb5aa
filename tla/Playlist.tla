------------------------------ MODULE Playlist ------------------------------
(***************************************************************************)
(* The walk of rewriteHlsPlaylist (src/hls/playlist.js) over the lines of  *)
(* a playlist, and what the mapper of makeHlsProxyMapper                   *)
(* (src/proxy/relay.js) admits.  The walk stops at every look-up, so it is *)
(* a record that module Relay takes from step to step.                     *)
(*                                                                         *)
(* A line is what the grammar tells apart: its tag, and the URIs in it.  A *)
(* URI is the origin it resolves to, or "opaque" when it is empty, does    *)
(* not resolve, or is not of http(s).  Blank lines pass unchanged.         *)
(***************************************************************************)
EXTENDS Integers, Sequences, FiniteSets

CONSTANTS
    Origin,     \* the origins that a playlist names
    Admitted,   \* what hlsTargetOrigins and HLS_TARGET_ALLOWED_HOSTS admit of
                \* them, for each panel, request and final URL
    Texts,      \* the playlists to consider
    MaxOrigins  \* MAX_PLAYLIST_ORIGINS

(* "uri" is a line that is a URI, "names" a tag that names a playlist      *)
(* (HLS_PLAYLIST_URI_TAGS), "other" any other tag or comment.              *)
Lines == [tag : {"uri", "stream-inf", "names", "other"}, uris : Seq(Origin \cup {"opaque"})]

ASSUME PlaylistAssumption ==
    /\ Admitted \subseteq SUBSET Origin
    /\ Texts \subseteq Seq(Lines)
    /\ \A t \in Texts : \A i \in DOMAIN t : t[i].tag = "uri" => Len(t[i].uris) = 1
    /\ MaxOrigins \in Nat \ {0}
    /\ "opaque" \notin Origin

(* Where the walk is: at which line, the flag nextUriIsPlaylist, the       *)
(* origins admitted and those seen, and for each line what has been put in *)
(* the place of its URIs.                                                  *)
NoWalk == [text |-> <<>>, line |-> 1, flag |-> FALSE, admitted |-> {}, seen |-> {},
           vetting |-> FALSE, out |-> <<>>]

Start(text, admitted) ==
    [NoWalk EXCEPT !.text = text, !.admitted = admitted,
                   !.out = [i \in DOMAIN text |-> <<>>]]

Over(w) == w.line > Len(w.text)
Tag(w) == w.text[w.line].tag
Uris(w) == w.text[w.line].uris
Done(w) == Len(w.out[w.line])

AtLineEnd(w) == ~Over(w) /\ Done(w) = Len(Uris(w))
AtUri(w) == ~Over(w) /\ Done(w) < Len(Uris(w))
Uri(w) == Uris(w)[Done(w) + 1]

FaultFlagAfter(w) == Tag(w) = "stream-inf"

(* A STREAM-INF sets the flag, and only a URI line clears it.              *)
FlagAfter(w) == Tag(w) = "stream-inf" \/ (w.flag /\ Tag(w) # "uri")

EndLine(w) == [w EXCEPT !.flag = FlagAfter(w), !.line = @ + 1]

(* Whether the URI is signed as a playlist's, and so fetched as one later. *)
IsPlaylist(w) == IF Tag(w) = "uri" THEN w.flag ELSE Tag(w) = "names"

Put(w, what) == [w EXCEPT !.out[w.line] = Append(@, what), !.vetting = FALSE]

Signed(w) == Put(w, IF IsPlaylist(w) THEN "playlist" ELSE "segment")

(* The mapper admits the origin and has room for it; then it is vetted.    *)
Admits(w) ==
    /\ Uri(w) \in w.admitted
    /\ Uri(w) \in w.seen \/ Cardinality(w.seen) < MaxOrigins

Vetting(w) == [w EXCEPT !.seen = @ \cup {Uri(w)}, !.vetting = TRUE]

-----------------------------------------------------------------------------
(* What a player reads of a text: which of its lines name playlists, those *)
(* of the tags that say so and the first URI line after a STREAM-INF; and  *)
(* the origins it is sent to.                                              *)

NamesPlaylist(text, i) ==
    \/ text[i].tag = "names"
    \/ /\ text[i].tag = "uri"
       /\ \E j \in 1 .. (i - 1) :
              text[j].tag = "stream-inf" /\ \A k \in j .. (i - 1) : text[k].tag # "uri"

Reading(text, i, n) ==
    IF text[i].uris[n] = "opaque" THEN "verbatim"
    ELSE IF NamesPlaylist(text, i) THEN "playlist" ELSE "segment"

Targets(text) ==
    {o \in Origin : \E i \in DOMAIN text : \E n \in DOMAIN text[i].uris : text[i].uris[n] = o}

(* Of each URI: an opaque one is as it was, and any other was signed, as   *)
(* what it names, and of an admitted origin; and they are not of too many. *)
Hides(w) ==
    /\ \A i \in DOMAIN w.text : w.out[i] = [n \in DOMAIN w.text[i].uris |-> Reading(w.text, i, n)]
    /\ Targets(w.text) \subseteq w.admitted
    /\ Cardinality(Targets(w.text)) <= MaxOrigins
=============================================================================

------------------------------ MODULE MCRelay ------------------------------
(***************************************************************************)
(* Relay for TLC: every request, responses of up to two chunks, and        *)
(* playlists in which a kind is stated by position, across another tag, by *)
(* the tag itself for two URIs, and not at all; an URI that is left alone, *)
(* an origin that is refused, and one origin too many.                     *)
(***************************************************************************)
EXTENDS Relay

MCResponses ==
    {r \in [status : {200, 206, 304, 404}, type : {"playlist", "other"},
            text : {"playlist", "other"}, encoded : BOOLEAN, chunks : 0 .. 2] :
        /\ ~HasBody(r) => r.chunks = 0
        /\ r.chunks = 0 => r.text = "other"}

MCOrigin == {"panel", "cdn", "far"}
MCAdmitted == {{"panel"}, {"panel", "cdn"}, {"panel", "cdn", "far"}}
Line(tag, uris) == [tag |-> tag, uris |-> uris]
MCTexts ==
    {<<>>,
     <<Line("stream-inf", <<>>), Line("other", <<"panel">>), Line("uri", <<"cdn">>),
       Line("uri", <<"panel">>)>>,
     <<Line("names", <<"panel", "cdn">>), Line("uri", <<"far">>)>>,
     <<Line("stream-inf", <<>>), Line("uri", <<"opaque">>), Line("other", <<"panel">>),
       Line("uri", <<"panel">>)>>}
=============================================================================

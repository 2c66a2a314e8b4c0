------------------------- MODULE MCTestedExtraction -------------------------
(* The instance of TestedExtraction for TLC: single alternatives of every  *)
(* kind, pairs of those that differ in what they accept.                   *)
EXTENDS TestedExtraction

Alt(h, q, b) == [header |-> h, query |-> q, body |-> b]
Bodies == {"raw", "receive_all", "text", "json", "urlencoded", "ws"}
Paired == {Alt("raw", "raw", b) : b \in {"raw", "text", "json", "urlencoded", "ws"}}
          \cup {Alt("parse", "raw", "text"), Alt("matches", "raw", "json")}
MCEndpoints ==
  {<<Alt(h, q, b)>> : h \in {"raw", "parse", "optional", "matches"},
                      q \in {"raw", "required", "optional"}, b \in Bodies}
  \cup {<<l, r>> : l \in Paired, r \in Paired}
MCSliced == {<<Alt("parse", "raw", b)>> : b \in Bodies}

Contents == {"none", "unreadable", "json", "json_utf8", "form", "text_utf8", "text_latin1"}
Arrivals == {<<>>, <<"a">>, <<"bad">>, <<"lead">>, <<"cont", "a">>, <<"lead", "cont">>, <<"a", "lead", "cont">>}
Given(c, h, q, w, b) == [content |-> c, header |-> h, query |-> q, ws |-> w, bytes |-> b]
AlmostWs == {[m \in WsNames |-> IF m = n THEN v ELSE "valid"] : n \in WsNames, v \in {"valid", "invalid", "missing"}}
MCRequests ==
  {Given(c, "none", "none", NoWs, b) : c \in Contents, b \in Arrivals}
  \cup {Given("form", "good", "none", NoWs, b) : b \in Arrivals}
  \cup {Given("json", h, q, NoWs, <<"a">>) : h \in {"none", "good", "bad"}, q \in {"none", "good", "bad"}}
  \cup {Given("none", "none", "none", w, <<>>) : w \in AlmostWs}

MCContentOf == [own |-> "json", default |-> "form", body |-> "text_utf8"]
MCTestBodies == {<<"a">>, <<"lead", "cont">>}
=============================================================================

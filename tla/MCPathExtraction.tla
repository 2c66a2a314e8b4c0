-------------------------- MODULE MCPathExtraction --------------------------
(* All literals of up to MaxLiteral segments; paths of up to MaxPath       *)
(* segments that are empty, plain, a number, escaped, escaped without need *)
(* or undecodable; every chain of up to one endpoint, and two that read on.*)
EXTENDS PathExtraction

CONSTANTS MaxPath, MaxLiteral

MCSegments == {<<>>, <<"a">>, <<"1">>, <<"%20", "a">>, <<"%61">>, <<"%FF">>}
MCPaths ==
  {FlattenSeq([i \in DOMAIN s |-> <<"/">> \o s[i]]) : s \in SeqOf(MCSegments, MaxPath)} \cup {<<"*">>}
MCLiterals == SeqOf(LiteralSegments, MaxLiteral) \ {<<>>}
MCChains ==
  {<<>>} \cup {<<e>> : e \in Endpoints} \cup {<<Segment(<<"a">>), Eos>>, <<SingleParam("i32"), CatchAllParam("String")>>}
=============================================================================

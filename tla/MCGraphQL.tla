----------------------------- MODULE MCGraphQL -----------------------------
(* The instance of GraphQL for TLC.                                        *)
EXTENDS GraphQL

In(g, f, n) == [get |-> g, form |-> f, size |-> n]
MCInputs ==
  {In(TRUE, "query", 1), In(TRUE, "missing", 0), In(TRUE, "malformed", 0),
   In(FALSE, "json", 0), In(FALSE, "json", 2), In(FALSE, "unsupported", 0)}
=============================================================================

-------------------------- MODULE MCRequestContext --------------------------
(* Instances of RequestContext for TLC: two cookies, interchangeable.      *)
EXTENDS RequestContext, TLC

CookieSymmetry == Permutations(Names) \cup Permutations(Contents)
=============================================================================

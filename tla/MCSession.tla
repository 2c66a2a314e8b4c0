----------------------------- MODULE MCSession -----------------------------
(* Instances of Session for TLC: clients and requests are interchangeable. *)
EXTENDS Session, TLC

Symmetry == Permutations(Clients) \cup Permutations(Requests) \cup Permutations(Ids \ Brought)
=============================================================================

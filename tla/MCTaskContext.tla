--------------------------- MODULE MCTaskContext ---------------------------
(***************************************************************************)
(* Two threads and three requests, whose calls nest eight deep.  Threads    *)
(* and requests are interchangeable.                                       *)
(***************************************************************************)
EXTENDS TaskContext, TLC

CONSTANTS t1, t2, c1, c2, c3

MCThread  == {t1, t2}
MCContext == {c1, c2, c3}

Symmetric == Permutations(MCThread) \cup Permutations(MCContext)
=============================================================================

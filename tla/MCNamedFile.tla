---------------------------- MODULE MCNamedFile ----------------------------
(***************************************************************************)
(* Files of up to seven blocks of the smallest size, read one to three of  *)
(* them at a time: as many reads as are needed for a short one between     *)
(* full ones when the file grows.                                          *)
(*                                                                         *)
(* The bound on the growth of the file is an assumption of these runs, not *)
(* of the code: it makes every behaviour they examine a Quiet one.         *)
(***************************************************************************)
EXTENDS NamedFile

CONSTANT MaxSize     \* bound on the size a file has and grows to

MCBlockSizes == 1 .. 3

BoundedInit == size \in 0 .. MaxSize /\ Init

BoundedAppend == size < MaxSize /\ Append

(* Next, the growth of the file apart.                                     *)
BoundedNext ==
  Preflight \/ PollAction \/ PollOpen \/ PollBuf \/ BoundedAppend \/ Finished

BoundedSpec == BoundedInit /\ [][BoundedNext]_vars

BoundedFairSpec == BoundedSpec /\ Fairness
=============================================================================

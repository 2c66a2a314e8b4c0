------------------------------ MODULE VerbSet ------------------------------
(***************************************************************************)
(* A set of HTTP methods as Verbs keeps it, one bit per method, and the    *)
(* iterator over it.  A value of the bitflags type Methods is the set of   *)
(* the positions of its bits.                                              *)
(***************************************************************************)
EXTENDS Integers, SequencesExt

CONSTANT LastVerb   \* the position of the last verb, TRACE

ASSUME LastVerbAssumption == LastVerb \in Nat

VARIABLES
  allowed,     \* VerbsIter.allowed
  cursor,      \* VerbsIter.cursor
  calling,     \* next is running
  returned,    \* what next has returned up to its first None
  ended        \* next has returned None

vars == <<allowed, cursor, calling, returned, ended>>

Bit == 0 .. LastVerb

(* into_iter on what single, any and `|` can make.                         *)
Init ==
  /\ allowed \in (SUBSET Bit) \ {{}}
  /\ cursor = {0}
  /\ calling = FALSE /\ returned = <<>> /\ ended = FALSE

(* Mutant: not truncated.                                                  *)
ShiftedOut == {b + 1 : b \in cursor}

(* Methods::from_bits_truncate(bits << 1)                                  *)
Shifted == {b + 1 : b \in cursor} \cap Bit

(* Mutant: masked after the shift.                                         *)
MaskedShifted == allowed \cap Shifted

Masked == allowed \cap cursor

(* The caller calls next, perhaps again after None.                        *)
CallNext ==
  /\ ~calling
  /\ calling' = TRUE
  /\ UNCHANGED <<allowed, cursor, returned, ended>>

(* Mutant: the iterator starts again after its end.                        *)
ReturnNoneRewound ==
  /\ calling /\ Shifted = {}
  /\ cursor' = {0}
  /\ calling' = FALSE /\ ended' = TRUE
  /\ UNCHANGED <<allowed, returned>>

(* The loop of next: what was masked is not looked at when the cursor has  *)
(* become empty.                                                           *)
ReturnNone ==
  /\ calling /\ Shifted = {}
  /\ cursor' = Shifted
  /\ calling' = FALSE /\ ended' = TRUE
  /\ UNCHANGED <<allowed, returned>>

ReturnVerb ==
  /\ calling /\ Shifted # {}
  /\ \E b \in Masked : returned' = Append(returned, b)
  /\ cursor' = Shifted
  /\ calling' = FALSE
  /\ UNCHANGED <<allowed, ended>>

(* Mutant: the cursor is shifted only when a verb is returned.             *)
GoOnUnshifted ==
  /\ calling /\ Shifted # {} /\ Masked = {}
  /\ UNCHANGED vars

GoOn ==
  /\ calling /\ Shifted # {} /\ Masked = {}
  /\ cursor' = Shifted
  /\ UNCHANGED <<allowed, calling, returned, ended>>

Next == CallNext \/ ReturnNone \/ ReturnVerb \/ GoOn

Spec == Init /\ [][Next]_vars

(* A caller that collects the verbs calls next until it is None.           *)
FairSpec == Spec /\ WF_vars(Next)

-----------------------------------------------------------------------------
TypeOK ==
  /\ allowed \subseteq Bit /\ cursor \subseteq Bit
  /\ calling \in BOOLEAN /\ ended \in BOOLEAN
  /\ returned \in Seq(Bit)

(* While the iterator goes on, it has returned the members below its       *)
(* cursor, each once and in order.                                         *)
NothingSkipped ==
  \A b \in cursor :
    /\ ToSet(returned) = {v \in allowed : v < b}
    /\ \A i, j \in DOMAIN returned : i < j => returned[i] < returned[j]

(* Once None, always None.                                                 *)
Fused == [][ended => UNCHANGED returned]_vars

(* A loop over the set comes to its end.                                   *)
Ends == <>ended

(* When None is returned, every member of the set has been returned.       *)
YieldsWholeSet == ended => ToSet(returned) = allowed
=============================================================================

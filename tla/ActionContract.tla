--------------------------- MODULE ActionContract ---------------------------
(***************************************************************************)
(* What the trait EndpointAction promises to whoever implements it: each   *)
(* action value gets one call at a time, `preflight` first and only once,  *)
(* and `poll_action` only while the last answer was "not yet".             *)
(***************************************************************************)
CONSTANT Node    \* the action values of one request

VARIABLES
  call,    \* the method of n that is running, or "none"
  result   \* what the last call of n returned, "none" before the first return

vars == <<call, result>>

Init ==
  /\ call = [n \in Node |-> "none"]
  /\ result = [n \in Node |-> "none"]

Enter(n, method) ==
  /\ call[n] = "none"
  /\ call' = [call EXCEPT ![n] = method]
  /\ UNCHANGED result

Leave(n, method, results) ==
  /\ call[n] = method
  /\ call' = [call EXCEPT ![n] = "none"]
  /\ \E r \in results : result' = [result EXCEPT ![n] = r]

Preflight(n)  == result[n] = "none" /\ Enter(n, "preflight")
Poll(n)       == result[n] \in {"Incomplete", "NotReady"} /\ Enter(n, "poll")
Preflighted(n) == Leave(n, "preflight", {"Completed", "Incomplete", "Rejected"})
Polled(n)     == Leave(n, "poll", {"Ready", "NotReady", "Failed"})

Next == \E n \in Node : Preflight(n) \/ Preflighted(n) \/ Poll(n) \/ Polled(n)

Spec == Init /\ [][Next]_vars
=============================================================================

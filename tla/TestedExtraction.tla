-------------------------- MODULE TestedExtraction --------------------------
(***************************************************************************)
(* The endpoints of RequestExtraction behind one of their two drivers: a   *)
(* TestRunner, which completes a request and hands its body over as one    *)
(* item that is always ready (ReqBody), or a server, whose requests have   *)
(* any headers and whose bodies arrive as they like.                       *)
(***************************************************************************)
EXTENDS TestRunner, RequestExtraction

CONSTANTS
  ContentOf,   \* what the Content-Type of each origin says
  TestBodies   \* the bodies a test hands over

ASSUME TestBodiesAssumption == \A b \in TestBodies : b \in Seq(Bytes)

VARIABLE tested   \* whether the endpoint is driven by a TestRunner

allVars == <<runnerVars, requestVars, tested>>

(* The items of ReqBody are Cursors over one slice.                        *)
TestedInit ==
  /\ RunnerInit /\ RequestInit
  /\ tested \in BOOLEAN /\ (tested => Contiguous)

ContentSeen(values) == IF values = <<>> THEN "none" ELSE ContentOf[Head(values)]

(* ReqBody yields its bytes at once, then the end of the stream.           *)
TestApply(k, names, b) ==
  /\ Apply(k, names)
  /\ Dispatch([NoRequest EXCEPT !.content = ContentSeen(seen'["content-type"]), !.bytes = b], <<b>>, "end")

Test ==
  /\ tested /\ phase = "idle"
  /\ \/ \E n \in Names : SetDefault(n) /\ UNCHANGED requestVars
     \/ \E k \in Kinds : \E names \in CanHave(k) :
          \E b \in IF k \in {"text", "bytes"} THEN TestBodies ELSE {<<>>} : TestApply(k, names, b)

Serve ==
  /\ ~tested
  /\ \E r \in Requests : Dispatch(r, <<>>, "open")
  /\ UNCHANGED runnerVars

TestedNext ==
  /\ \/ Test
     \/ Serve
     \/ InProgress /\ UNCHANGED runnerVars
  /\ UNCHANGED tested

TestedSpec == TestedInit /\ [][TestedNext]_allVars
=============================================================================

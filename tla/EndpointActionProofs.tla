----------------------- MODULE EndpointActionProofs -----------------------
(***************************************************************************)
(* Proofs about EndpointAction and EndpointRouting for every set of        *)
(* positions, every tree of endpoints and every request: the inductive     *)
(* invariant Inv and what follows from it, then RoutingInv and the same.   *)
(*                                                                         *)
(* A step of a node n touches n, the cells of its children and at most one *)
(* child it calls.  Local(n) says so; the two lemmas after it show that    *)
(* such a step preserves what every other node and AppFuture may assume,   *)
(* which leaves, for each action, only what it does to n itself.           *)
(***************************************************************************)
EXTENDS EndpointRouting, TLAPS

Advances(n) == \/ frame[n] \in Preflighting /\ InPreflight(n)'
               \/ frame[n] \in Polling /\ InPoll(n)'

Calls(n, c) ==
  /\ c \in {Left[n], Right[n]}
  /\ \/ frame[n] \in Preflighting /\ Fresh(c) /\ frame'[c] = "preflight"
     \/ frame[n] \in Polling /\ Pollable(c) /\ frame'[c] = "poll"

Local(n) ==
  /\ UNCHANGED <<rigid, task, notified>>
  /\ waiting \subseteq waiting'
  /\ Advances(n)
  /\ \A c \in Node \ {n} : /\ ret'[c] = ret[c] /\ state'[c] = state[c]
                           /\ frame'[c] = frame[c] \/ Calls(n, c)
  /\ \A c \in Node : c \notin {Left[n], Right[n]} => maybe'[c] = maybe[c]

USE DEF Preflighting, Polling, PreflightResult, PollResult, Pending, Matched,
        Idle, Fresh, Pollable, InPreflight, InPoll, Begins, Waits, Ended, Cell

(* A node m that is neither the actor n nor called by it keeps NodeInv.    *)
LEMMA OthersKeep ==
  ASSUME Inv, NEW n \in Node, Local(n), NEW m \in Node, m # n
  PROVE  NodeInv(m)'
<1> USE TreeAssumption, KindAssumption DEF Inv, Local, rigid, task
<1>1. /\ kind' = kind /\ kind[m] \in Kind
      /\ NodeInv(m) /\ NodeInv(n)
      /\ HasChildren(m, kind[m]) /\ HasChildren(n, kind[n])
      /\ Awake => Awake'
  BY DEF TypeOK, TreeInv, Awake
<1>2. \A c \in {Left[m], Right[m]} \cap Node :
        /\ maybe'[c] = maybe[c]
        /\ c # n => frame'[c] = frame[c] /\ ret'[c] = ret[c]
  BY DEF Calls
<1>3. frame'[m] = frame[m] \/ Calls(n, m)
  OBVIOUS
<1>4. ret'[m] = ret[m] /\ state'[m] = state[m]
  OBVIOUS
<1>. HIDE DEF Local
<1>5. Advances(n)
  BY DEF Local
<1>. USE DEF NodeInv, Advances, Calls, HasChildren
<1>6. CASE kind[m] \notin Binary \cup Unary
  BY <1>1, <1>2, <1>3, <1>4, <1>5, <1>6 DEF LeafInv, Binary, Unary
<1>7. CASE kind[m] = "And"
  BY <1>1, <1>2, <1>3, <1>4, <1>5, <1>7 DEF AndInv, Binary, Unary
<1>8. CASE kind[m] \in {"Or", "OrStrict"}
  BY <1>1, <1>2, <1>3, <1>4, <1>5, <1>8 DEF OrInv, Binary, Unary
<1>9. CASE kind[m] \in Unary
  BY <1>1, <1>2, <1>3, <1>4, <1>5, <1>9 DEF UnaryInv, Unary, Binary
<1>. HIDE DEF NodeInv, Inv
<1>. QED
  BY <1>6, <1>7, <1>8, <1>9 DEF Binary

LEMMA AppKeeps ==
  ASSUME Inv, NEW n \in Node, Local(n)
  PROVE  AppInv' /\ TreeInv'
<1>1. kind' = kind /\ UNCHANGED <<app, polling, response>> /\ (Awake => Awake')
  BY DEF Local, rigid, task, Awake
<1>2. /\ n = Root => Advances(n)
      /\ n # Root => frame'[Root] = frame[Root] /\ ret'[Root] = ret[Root]
  BY TreeAssumption DEF Local, Calls
<1>3. AppInv'
  BY <1>1, <1>2 DEF Inv, AppInv, Advances, Local
<1>. QED
  BY <1>1, <1>3 DEF Inv, TreeInv, HasChildren

(* A step that leaves the body where it is.                                *)
LEMMA BodyKeeps ==
  ASSUME Inv, NEW n \in Node, Local(n), body' = body, TookBody(n)' => TookBody(n)
  PROVE  BodyInv'
<1>1. kind' = kind /\ app' = app
  BY DEF Local, rigid, task
<1>2. \A m \in Node : TookBody(m)' => TookBody(m)
  BY <1>1 DEF Local, TookBody
<1>3. app # "InFlight" => \A m \in Node : frame'[m] \notin Polling
  BY DEF Inv, BodyInv, Local, Advances, Calls
<1>. QED
  BY <1>1, <1>2, <1>3 DEF Inv, BodyInv

(* A step that neither starts a wait nor takes the body.                   *)
LEMMA QuietStep ==
  ASSUME Inv, NEW n \in Node, Local(n), TypeOK', NodeInv(n)',
         UNCHANGED <<body, io, waiting>>,
         HasFuture(n) => HasFuture(n)',
         TookBody(n)' => TookBody(n)
  PROVE  Inv'
<1>1. \A m \in Node : NodeInv(m)'
  BY OthersKeep
<1>2. WakeInv'
  BY DEF Inv, WakeInv, Local, HasFuture, TypeOK, rigid
<1>. QED
  BY <1>1, <1>2, AppKeeps, BodyKeeps DEF Inv

(* Calls, returns and stores keep the types of the variables they write.   *)
CallOK == frame \in [Node -> Frame] /\ ret \in [Node -> Result] /\ out \in [Node -> Seq(Node)]

LEMMA ReturnType ==
  ASSUME CallOK, NEW n \in Node, NEW r \in Result, NEW o \in Seq(Node), Return(n, r, o)
  PROVE  CallOK'
BY DEF CallOK, Return, Frame, Result

LEMMA CallType ==
  ASSUME CallOK, NEW n \in Node, NEW c \in Node, NEW f \in Frame, NEW g \in Frame,
         Call(n, f, c, g)
  PROVE  CallOK'
BY DEF CallOK, Call, Frame

LEMMA EmptyOutput == <<>> \in Seq(Node)
OBVIOUS

LEMMA OneOutput == \A n \in Node : <<n>> \in Seq(Node)
OBVIOUS

LEMMA LOneshotPreflight ==
  ASSUME Inv, NEW n \in Node, OneshotPreflight(n)
  PROVE  Local(n) /\ Inv'
<1>. USE DEF OneshotPreflight, Enters, SetState, rigid, task, wake
<1>1. NodeInv(n) /\ kind[n] \in Kind /\ TypeOK /\ CallOK
  BY DEF Inv, TypeOK, CallOK
<1>2. kind[n] \notin Binary \cup Unary \cup Body
  BY KindAssumption DEF Oneshot, Binary, Unary, Body, Parsing
<1>3. OneshotCursor(n) \in 0 .. Len(path) /\ OneshotOutput(n) \in Seq(Node)
  BY <1>1 DEF TypeOK, OneshotCursor, AtEnd, OneshotOutput
<1>4. PICK r \in {"Completed", "Rejected"}, o \in Seq(Node) : Return(n, r, o)
  BY <1>3, EmptyOutput
<1>5. TypeOK'
  BY <1>1, <1>3, <1>4, ReturnType DEF TypeOK, CallOK, State, Result
<1>6. Local(n)
  BY <1>1, <1>4 DEF TypeOK, Local, Advances, Return
<1>7. NodeInv(n)'
  BY <1>1, <1>2, <1>4 DEF TypeOK, NodeInv, LeafInv, Binary, Unary, Return
<1>. QED
  BY <1>1, <1>2, <1>4, <1>5, <1>6, <1>7, QuietStep DEF TypeOK, HasFuture, TookBody, Body

LEMMA LDefaultPreflight ==
  ASSUME Inv, NEW n \in Node, DefaultPreflight(n)
  PROVE  Local(n) /\ Inv'
<1>. USE DEF DefaultPreflight, Enters, rigid, task, wake, cx
<1>1. NodeInv(n) /\ TypeOK /\ CallOK
  BY DEF Inv, TypeOK, CallOK
<1>2. kind[n] \notin Binary \cup Unary \cup Oneshot
  BY KindAssumption DEF Oneshot, Binary, Unary, Body, Parsing
<1>3. TypeOK'
  BY <1>1, EmptyOutput, ReturnType DEF TypeOK, CallOK, Result
<1>4. Local(n)
  BY <1>1 DEF TypeOK, Local, Advances, Return, Result
<1>5. NodeInv(n)'
  BY <1>1, <1>2 DEF TypeOK, NodeInv, LeafInv, Binary, Unary, Return, Result
<1>. QED
  BY <1>1, <1>3, <1>4, <1>5, QuietStep DEF TypeOK, HasFuture, TookBody, Return

(* The three polls of a future owned by n: a leaf, the receiver of a body  *)
(* and the handler of AndThen or Recover.                                  *)
LEMMA LPollFuture ==
  ASSUME Inv, NEW n \in Node, PollFuture(n), frame[n] = "poll",
         kind[n] \in {"Future", "ReceiveAll"} \cup Unary,
         kind[n] \in Unary => state[n] = "InFlight",
         HasFuture(n),
         UNCHANGED <<rigid, state, maybe, cx, body, task>>
  PROVE  Local(n) /\ Inv'
<1>. USE DEF PollFuture, rigid, task, cx
<1>1. NodeInv(n) /\ TypeOK /\ CallOK
  BY DEF Inv, TypeOK, CallOK
<1>2. kind[n] \notin Binary \cup Oneshot \cup {"Raw"} /\ <<n>> \in Seq(Node)
  BY KindAssumption DEF Oneshot, Binary, Unary, Body, Parsing
<1>3. PICK r \in PollResult, o \in Seq(Node) :
        /\ Return(n, r, o)
        /\ \/ r \in {"Ready", "Failed"} /\ waiting' = waiting
           \/ r = "NotReady" /\ io[n] = "pending" /\ waiting' = waiting \cup {n}
  BY <1>2, EmptyOutput
<1>4. TypeOK'
  BY <1>1, <1>3, ReturnType DEF TypeOK, CallOK, Result
<1>5. Local(n)
  BY <1>1, <1>3 DEF TypeOK, Local, Advances, Return, Awake
<1>6. NodeInv(n)'
  BY <1>1, <1>2, <1>3 DEF TypeOK, NodeInv, LeafInv, UnaryInv, Binary, Unary, Return
<1>7. WakeInv'
  BY <1>1, <1>3 DEF Inv, WakeInv, HasFuture
<1>8. BodyInv'
  BY <1>2, <1>5, BodyKeeps DEF TookBody
<1>. QED
  BY <1>4, <1>5, <1>6, <1>7, <1>8, OthersKeep, AppKeeps DEF Inv

LEMMA LPolls ==
  ASSUME Inv, NEW n \in Node, FuturePoll(n) \/ ReceiveAllPoll(n) \/ InFlightPoll(n)
  PROVE  Local(n) /\ Inv'
<1>1. CASE FuturePoll(n)
  BY <1>1, LPollFuture DEF FuturePoll, Enters, HasFuture, Unary
<1>2. CASE ReceiveAllPoll(n)
  BY <1>2, LPollFuture DEF ReceiveAllPoll, Enters, HasFuture, Unary
<1>3. CASE InFlightPoll(n)
  BY <1>3, LPollFuture DEF InFlightPoll, Enters, HasFuture, Unary
<1>. QED
  BY <1>1, <1>2, <1>3

(* The two steps that take the body.                                       *)
LEMMA LTakeBody ==
  ASSUME Inv, NEW n \in Node, RawPoll(n) \/ ReceiveAllTake(n)
  PROVE  Local(n) /\ Inv'
<1>. USE DEF RawPoll, ReceiveAllTake, Enters, rigid, task, wake, cx, Again, SetState, Return
<1>1. NodeInv(n) /\ TypeOK
  BY DEF Inv
<1>2. kind[n] \notin Binary \cup Unary \cup Oneshot /\ <<n>> \in Seq(Node)
  BY KindAssumption DEF Oneshot, Binary, Unary, Body, Parsing
<1>3. TypeOK'
  BY <1>1, <1>2, EmptyOutput, ZenonT(30) DEF TypeOK, Frame, Result, State
<1>4. Local(n)
  BY <1>1 DEF TypeOK, NodeInv, Local, Advances, Frame, Result, State
<1>5. NodeInv(n)'
  BY <1>1, <1>2 DEF TypeOK, NodeInv, LeafInv, Binary, Unary, Frame, Result, State
<1>6. WakeInv'
  BY <1>1 DEF Inv, WakeInv, HasFuture, TypeOK
<1>7. BodyInv'
  <2>1. app = "InFlight" /\ body' = FALSE
    BY DEF Inv, BodyInv
  <2>2. \A m \in Node \ {n} : TookBody(m)' => TookBody(m)
    BY <1>1 DEF TookBody, TypeOK
  <2>3. TookBody(n)' => body \/ TookBody(n)
    BY <1>1 DEF TookBody, TypeOK
  <2>. QED
    BY <2>1, <2>2, <2>3 DEF Inv, BodyInv
<1>. QED
  BY <1>3, <1>4, <1>5, <1>6, <1>7, OthersKeep, AppKeeps DEF Inv

(* The positions below a combinator are two different nodes.               *)
LEMMA Children ==
  ASSUME Inv, NEW n \in Node
  PROVE  /\ kind[n] \in Binary \cup Unary => Left[n] \in Node /\ Left[n] # Right[n]
         /\ kind[n] \in Binary => Right[n] \in Node
BY TreeAssumption DEF Inv, TreeInv, HasChildren

(* And calls the preflight of one child after the other.                   *)
LEMMA LAndPreflight ==
  ASSUME Inv, NEW n \in Node, AndPreflight(n)
  PROVE  Local(n) /\ Inv'
<1>. USE DEF AndPreflight, Enters, rigid, task, wake, cx
<1>1. NodeInv(n) /\ TypeOK /\ CallOK /\ kind[n] = "And"
  BY DEF Inv, TypeOK, CallOK
<1>2. Left[n] \in Node /\ Right[n] \in Node /\ Left[n] # Right[n]
  BY <1>1, Children DEF Binary
<1>3. Fresh(Left[n]) /\ Fresh(Right[n]) /\ Left[n] # n /\ Right[n] # n
  BY <1>1 DEF NodeInv, AndInv, Binary
<1>4. TypeOK'
  BY <1>1, <1>2, CallType DEF TypeOK, CallOK, Frame, MaybeDone
<1>5. Local(n)
  BY <1>1, <1>2, <1>3 DEF TypeOK, NodeInv, Local, Advances, Calls, Call
<1>6. NodeInv(n)'
  BY <1>1, <1>2, <1>3 DEF TypeOK, NodeInv, AndInv, Binary, Unary, Call
<1>. QED
  BY <1>1, <1>4, <1>5, <1>6, QuietStep DEF HasFuture, TookBody, Call

LEMMA LAndPreflightLeft ==
  ASSUME Inv, NEW n \in Node, AndPreflightLeft(n)
  PROVE  Local(n) /\ Inv'
<1>. USE DEF AndPreflightLeft, Resumes, rigid, task, wake, cx
<1>1. NodeInv(n) /\ TypeOK /\ CallOK /\ kind[n] = "And"
  BY DEF Inv, TypeOK, CallOK
<1>2. Left[n] \in Node /\ Right[n] \in Node /\ Left[n] # Right[n]
  BY <1>1, Children DEF Binary
<1>3. /\ Idle(Left[n]) /\ maybe[Left[n]] = "Taken"
      /\ Fresh(Right[n]) /\ Left[n] # n /\ Right[n] # n
  BY <1>1 DEF NodeInv, AndInv, Binary
<1>4. TypeOK'
  BY <1>1, <1>2, EmptyOutput, CallType, ReturnType
     DEF TypeOK, CallOK, Frame, Result, MaybeDone, Kept
<1>5. Local(n)
  BY <1>1, <1>2, <1>3 DEF TypeOK, NodeInv, Local, Advances, Calls, Call, Return
<1>6. NodeInv(n)'
  BY <1>1, <1>2, <1>3, SMTT(30) DEF TypeOK, NodeInv, AndInv, Kept, Binary, Unary, Call, Return
<1>. QED
  BY <1>1, <1>4, <1>5, <1>6, QuietStep DEF HasFuture, TookBody, Call

LEMMA LAndPreflightRight ==
  ASSUME Inv, NEW n \in Node, AndPreflightRight(n)
  PROVE  Local(n) /\ Inv'
<1>. USE DEF AndPreflightRight, Resumes, rigid, task, wake, cx
<1>1. NodeInv(n) /\ TypeOK /\ CallOK /\ kind[n] = "And"
  BY DEF Inv, TypeOK, CallOK
<1>2. Left[n] \in Node /\ Right[n] \in Node /\ Left[n] # Right[n]
  BY <1>1, Children DEF Binary
<1>3. Cell(Left[n]) /\ Idle(Right[n]) /\ Left[n] # n /\ Right[n] # n
  BY <1>1 DEF NodeInv, AndInv, Binary
<1>4. TypeOK'
  BY <1>1, <1>2, EmptyOutput, ReturnType DEF TypeOK, CallOK, Result, MaybeDone, Kept
<1>5. Local(n)
  BY <1>1, <1>2, <1>3 DEF TypeOK, Local, Advances, Return
<1>6. NodeInv(n)'
  BY <1>1, <1>2, <1>3 DEF TypeOK, NodeInv, AndInv, Kept, Binary, Unary, Return
<1>. QED
  BY <1>1, <1>4, <1>5, <1>6, QuietStep DEF HasFuture, TookBody

(* And polls the child whose output it still waits for.                    *)
LEMMA LAndPoll ==
  ASSUME Inv, NEW n \in Node, AndPollLeft(n) \/ AndPollRight(n)
  PROVE  Local(n) /\ Inv'
<1>. USE DEF AndPollLeft, AndPollRight, Enters, rigid, task, wake, cx
<1>1. NodeInv(n) /\ TypeOK /\ CallOK /\ kind[n] = "And"
  BY DEF Inv, TypeOK, CallOK
<1>2. Left[n] \in Node /\ Right[n] \in Node /\ Left[n] # Right[n]
  BY <1>1, Children DEF Binary
<1>3. Cell(Left[n]) /\ Cell(Right[n]) /\ Left[n] # n /\ Right[n] # n
  BY <1>1 DEF NodeInv, AndInv, Binary
<1>4. TypeOK'
  BY <1>1, <1>2, CallType DEF TypeOK, CallOK, Frame
<1>5. Local(n)
  BY <1>1, <1>2, <1>3 DEF TypeOK, NodeInv, Local, Advances, Calls, Call
<1>6. NodeInv(n)'
  BY <1>1, <1>2, <1>3 DEF TypeOK, NodeInv, AndInv, Binary, Unary, Call
<1>. QED
  BY <1>1, <1>4, <1>5, <1>6, QuietStep DEF HasFuture, TookBody, Call

LEMMA LAndPolled ==
  ASSUME Inv, NEW n \in Node, AndPolledLeft(n) \/ AndPolledRight(n)
  PROVE  Local(n) /\ Inv'
<1>. USE DEF AndPolledLeft, AndPolledRight, AndPolled, Resumes, rigid, task, wake, cx
<1>1. NodeInv(n) /\ TypeOK /\ CallOK /\ kind[n] = "And"
  BY DEF Inv, TypeOK, CallOK
<1>2. Left[n] \in Node /\ Right[n] \in Node /\ Left[n] # Right[n]
  BY <1>1, Children DEF Binary
<1>3. Idle(Left[n]) /\ Idle(Right[n]) /\ Left[n] # n /\ Right[n] # n
  BY <1>1 DEF NodeInv, AndInv, Binary
<1>4. TypeOK'
  BY <1>1, <1>2, EmptyOutput, ReturnType, ZenonT(40) DEF TypeOK, CallOK, Frame, Result, MaybeDone, Again
<1>5. Local(n)
  BY <1>1, <1>2, <1>3
     DEF TypeOK, NodeInv, AndInv, Binary, Local, Advances, Awake, Again, Return
<1>6. NodeInv(n)'
  BY <1>1, <1>2, <1>3, SMTT(30)
     DEF TypeOK, NodeInv, AndInv, Binary, Unary, Awake, Again, Return
<1>. QED
  BY <1>1, <1>4, <1>5, <1>6, QuietStep DEF HasFuture, TookBody

LEMMA LAndTakeItem ==
  ASSUME Inv, NEW n \in Node, AndTakeItem(n)
  PROVE  Local(n) /\ Inv'
<1>. USE DEF AndTakeItem, Enters, rigid, task, wake, cx
<1>1. NodeInv(n) /\ TypeOK /\ CallOK /\ kind[n] = "And"
  BY DEF Inv, TypeOK, CallOK
<1>2. Left[n] \in Node /\ Right[n] \in Node /\ Left[n] # Right[n]
  BY <1>1, Children DEF Binary
<1>3. Idle(Left[n]) /\ Idle(Right[n]) /\ Left[n] # n /\ Right[n] # n
  BY <1>1 DEF NodeInv, AndInv, Binary
<1>4. out[Left[n]] \o out[Right[n]] \in Seq(Node)
  BY <1>1, <1>2 DEF CallOK
<1>5. TypeOK'
  BY <1>1, <1>2, <1>4, ReturnType DEF TypeOK, CallOK, Result, MaybeDone
<1>6. Local(n)
  BY <1>1, <1>2, <1>3 DEF TypeOK, Local, Advances, Return
<1>7. NodeInv(n)'
  BY <1>1, <1>2, <1>3 DEF TypeOK, NodeInv, AndInv, Binary, Unary, Return
<1>. QED
  BY <1>1, <1>5, <1>6, <1>7, QuietStep DEF HasFuture, TookBody

(* Or and OrStrict clone the context and run the preflight of a child.     *)
LEMMA LOrPreflight ==
  ASSUME Inv, NEW n \in Node, OrPreflight(n) \/ OrStrictPreflight(n)
  PROVE  Local(n) /\ Inv'
<1>. USE DEF OrPreflight, OrStrictPreflight, Enters, SetState, rigid, task, wake, cx
<1>1. NodeInv(n) /\ TypeOK /\ CallOK /\ kind[n] \in {"Or", "OrStrict"}
  BY DEF Inv, TypeOK, CallOK
<1>2. Left[n] \in Node /\ Right[n] \in Node /\ Left[n] # Right[n]
  BY <1>1, Children DEF Binary
<1>3. Fresh(Left[n]) /\ Fresh(Right[n]) /\ Left[n] # n /\ Right[n] # n
  BY <1>1 DEF NodeInv, OrInv, Binary, Unary
<1>4. TypeOK'
  <2>1. CallOK'
    BY <1>1, <1>2, CallType DEF Frame
  <2>2. state' \in [Node -> State]
    BY <1>1 DEF TypeOK, State
  <2>3. cursor' \in 0 .. Len(path) /\ saved' \in [Node -> 0 .. Len(path)]
    BY <1>1 DEF TypeOK
  <2>. QED
    BY <1>1, <2>1, <2>2, <2>3 DEF TypeOK, CallOK
<1>5. Local(n)
  BY <1>1, <1>2, <1>3 DEF TypeOK, NodeInv, Local, Advances, Calls, Call
<1>6. NodeInv(n)'
  BY <1>1, <1>2, <1>3 DEF TypeOK, NodeInv, OrInv, Binary, Unary, Call
<1>. QED
  BY <1>1, <1>4, <1>5, <1>6, QuietStep DEF TypeOK, HasFuture, TookBody, Call

(* Or runs its second child on the context as it was before the first.     *)
LEMMA LOrPreflightLeft ==
  ASSUME Inv, NEW n \in Node, OrPreflightLeft(n)
  PROVE  Local(n) /\ Inv'
<1>. USE DEF OrPreflightLeft, Resumes, rigid, task, wake, cx
<1>1. NodeInv(n) /\ TypeOK /\ CallOK /\ kind[n] = "Or"
  BY DEF Inv, TypeOK, CallOK
<1>2. Left[n] \in Node /\ Right[n] \in Node /\ Left[n] # Right[n]
  BY <1>1, Children DEF Binary
<1>3. Idle(Left[n]) /\ Fresh(Right[n]) /\ Left[n] # n /\ Right[n] # n
  BY <1>1 DEF NodeInv, OrInv, Binary, Unary
<1>4. TypeOK'
  BY <1>1, <1>2, CallType DEF TypeOK, CallOK, Frame
<1>5. Local(n)
  BY <1>1, <1>2, <1>3 DEF TypeOK, NodeInv, Local, Advances, Calls, Call
<1>6. NodeInv(n)'
  BY <1>1, <1>2, <1>3 DEF TypeOK, NodeInv, OrInv, Binary, Unary, Call
<1>. QED
  BY <1>1, <1>4, <1>5, <1>6, QuietStep DEF TypeOK, HasFuture, TookBody, Call

(* OrStrict does so only if the first child has rejected the request.      *)
LEMMA LOrStrictPreflightLeft ==
  ASSUME Inv, NEW n \in Node, OrStrictPreflightLeft(n)
  PROVE  Local(n) /\ Inv'
<1>. USE DEF OrStrictPreflightLeft, Resumes, Choose, SetState, rigid, task, wake, cx
<1>1. NodeInv(n) /\ TypeOK /\ CallOK /\ kind[n] = "OrStrict"
  BY DEF Inv, TypeOK, CallOK
<1>2. Left[n] \in Node /\ Right[n] \in Node /\ Left[n] # Right[n]
  BY <1>1, Children DEF Binary
<1>3. Idle(Left[n]) /\ Fresh(Right[n]) /\ Left[n] # n /\ Right[n] # n /\ state[n] = "Done"
  BY <1>1 DEF NodeInv, OrInv, Binary, Unary
<1>4. TypeOK'
  <2>1. CallOK'
    BY <1>1, <1>2, EmptyOutput, CallType, ReturnType DEF CallOK, Frame, Result
  <2>2. state' \in [Node -> State]
    BY <1>1 DEF TypeOK, State
  <2>3. cursor' \in 0 .. Len(path) /\ saved' \in [Node -> 0 .. Len(path)]
    BY <1>1 DEF TypeOK
  <2>. QED
    BY <1>1, <2>1, <2>2, <2>3 DEF TypeOK, CallOK
<1>5. Local(n)
  BY <1>1, <1>2, <1>3 DEF TypeOK, NodeInv, Local, Advances, Calls, Call, Return
<1>6. NodeInv(n)'
  BY <1>1, <1>2, <1>3, SMTT(30) DEF TypeOK, NodeInv, OrInv, Binary, Unary, Call, Return
<1>. QED
  BY <1>1, <1>3, <1>4, <1>5, <1>6, QuietStep DEF TypeOK, HasFuture, TookBody, Call, Return

(* Both keep one branch or reject.                                         *)
LEMMA LOrPreflightRight ==
  ASSUME Inv, NEW n \in Node, OrPreflightRight(n) \/ OrStrictPreflightRight(n)
  PROVE  Local(n) /\ Inv'
<1>. USE DEF OrPreflightRight, OrStrictPreflightRight, LeftIsBetter, Resumes, Choose, SetState, rigid, task, wake, cx
<1>1. NodeInv(n) /\ TypeOK /\ CallOK /\ kind[n] \in {"Or", "OrStrict"}
  BY DEF Inv, TypeOK, CallOK
<1>2. Left[n] \in Node /\ Right[n] \in Node /\ Left[n] # Right[n]
  BY <1>1, Children DEF Binary
<1>3. Idle(Left[n]) /\ Idle(Right[n]) /\ Left[n] # n /\ Right[n] # n /\ state[n] = "Done"
  BY <1>1 DEF NodeInv, OrInv, Binary, Unary
<1>4. TypeOK'
  <2>1. CallOK'
    BY <1>1, <1>2, EmptyOutput, ReturnType DEF CallOK, Result
  <2>2. state' \in [Node -> State]
    BY <1>1 DEF TypeOK, State
  <2>3. cursor' \in 0 .. Len(path) /\ saved' \in [Node -> 0 .. Len(path)]
    BY <1>1 DEF TypeOK
  <2>. QED
    BY <1>1, <2>1, <2>2, <2>3 DEF TypeOK, CallOK
<1>5. Local(n)
  BY <1>1, <1>2, <1>3 DEF TypeOK, NodeInv, Local, Advances, Return
<1>6. NodeInv(n)'
  BY <1>1, <1>2, <1>3 DEF TypeOK, NodeInv, OrInv, Binary, Unary, Return
<1>. QED
  BY <1>1, <1>3, <1>4, <1>5, <1>6, QuietStep DEF TypeOK, HasFuture, TookBody, Return

(* The branch that was kept is polled.                                     *)
LEMMA LOrPoll ==
  ASSUME Inv, NEW n \in Node, OrPollLeft(n) \/ OrPollRight(n)
  PROVE  Local(n) /\ Inv'
<1>. USE DEF OrPollLeft, OrPollRight, OrPoll, Enters, rigid, task, wake, cx
<1>1. NodeInv(n) /\ TypeOK /\ CallOK /\ kind[n] \in {"Or", "OrStrict"}
  BY DEF Inv, TypeOK, CallOK
<1>2. Left[n] \in Node /\ Right[n] \in Node /\ Left[n] # Right[n]
  BY <1>1, Children DEF Binary
<1>3. Idle(Left[n]) /\ Idle(Right[n]) /\ Left[n] # n /\ Right[n] # n
  BY <1>1 DEF NodeInv, OrInv, Binary, Unary
<1>4. TypeOK'
  BY <1>1, <1>2, CallType DEF TypeOK, CallOK, Frame
<1>5. Local(n)
  BY <1>1, <1>2, <1>3 DEF TypeOK, NodeInv, Local, Advances, OrInv, Binary, Calls, Call
<1>6. NodeInv(n)'
  BY <1>1, <1>2, <1>3 DEF TypeOK, NodeInv, OrInv, Binary, Unary, Call
<1>. QED
  BY <1>1, <1>4, <1>5, <1>6, QuietStep DEF TypeOK, HasFuture, TookBody, Call

LEMMA LOrPolled ==
  ASSUME Inv, NEW n \in Node, OrPolledLeft(n) \/ OrPolledRight(n)
  PROVE  Local(n) /\ Inv'
<1>. USE DEF OrPolledLeft, OrPolledRight, OrPolled, Resumes, rigid, task, wake, cx
<1>1. NodeInv(n) /\ TypeOK /\ CallOK /\ kind[n] \in {"Or", "OrStrict"}
  BY DEF Inv, TypeOK, CallOK
<1>2. Left[n] \in Node /\ Right[n] \in Node /\ Left[n] # Right[n]
  BY <1>1, Children DEF Binary
<1>3. Idle(Left[n]) /\ Idle(Right[n]) /\ Left[n] # n /\ Right[n] # n
  BY <1>1 DEF NodeInv, OrInv, Binary, Unary
<1>4. TypeOK'
  BY <1>1, <1>2, ReturnType DEF TypeOK, CallOK, Result
<1>5. Local(n)
  BY <1>1, <1>2, <1>3 DEF TypeOK, NodeInv, Local, Advances, OrInv, Binary, Awake, Return
<1>6. NodeInv(n)'
  BY <1>1, <1>2, <1>3 DEF TypeOK, NodeInv, OrInv, Binary, Unary, Awake, Return
<1>. QED
  BY <1>1, <1>4, <1>5, <1>6, QuietStep DEF TypeOK, HasFuture, TookBody, Return

(* The unary combinators call the same method of their child.              *)
LEMMA LUnaryCall ==
  ASSUME Inv, NEW n \in Node, UnaryPreflight(n) \/ UnaryPoll(n)
  PROVE  Local(n) /\ Inv'
<1>. USE DEF UnaryPreflight, UnaryPoll, Enters, rigid, task, wake, cx
<1>1. NodeInv(n) /\ TypeOK /\ CallOK /\ kind[n] \in Unary
  BY DEF Inv, TypeOK, CallOK
<1>2. Left[n] \in Node /\ Left[n] # Right[n]
  BY <1>1, Children DEF Unary
<1>3. Idle(Left[n]) /\ Left[n] # n
  BY <1>1 DEF NodeInv, UnaryInv, Binary, Unary
<1>4. TypeOK'
  BY <1>1, <1>2, CallType DEF TypeOK, CallOK, Frame
<1>5. Local(n)
  BY <1>1, <1>2, <1>3 DEF TypeOK, NodeInv, Local, Advances, UnaryInv, Binary, Unary, Calls, Call
<1>6. NodeInv(n)'
  BY <1>1, <1>2, <1>3 DEF TypeOK, NodeInv, UnaryInv, Binary, Unary, Call
<1>. QED
  BY <1>1, <1>4, <1>5, <1>6, QuietStep DEF TypeOK, HasFuture, TookBody, Call

(* Map and MapErr return what the child has returned.                      *)
LEMMA LMapReturn ==
  ASSUME Inv, NEW n \in Node, MapReturn(n)
  PROVE  Local(n) /\ Inv'
<1>. USE DEF MapReturn, Resumes, rigid, task, wake, cx
<1>1. NodeInv(n) /\ TypeOK /\ CallOK /\ kind[n] \in {"Map", "MapErr"}
  BY DEF Inv, TypeOK, CallOK
<1>2. Left[n] \in Node /\ Left[n] # Right[n]
  BY <1>1, Children DEF Unary
<1>3. Idle(Left[n]) /\ Left[n] # n
  BY <1>1 DEF NodeInv, UnaryInv, Binary, Unary
<1>4. TypeOK'
  <2>1. CallOK'
    BY <1>1, <1>2, ReturnType, OneOutput DEF CallOK, Mapped
  <2>. QED
    BY <1>1, <1>2, <2>1 DEF TypeOK, CallOK
<1>5. Local(n)
  BY <1>1, <1>2, <1>3 DEF TypeOK, NodeInv, Local, Advances, UnaryInv, Binary, Unary, Awake, Return
<1>6. NodeInv(n)'
  BY <1>1, <1>2, <1>3 DEF TypeOK, NodeInv, UnaryInv, Binary, Unary, Awake, Return
<1>. QED
  BY <1>1, <1>4, <1>5, <1>6, QuietStep DEF TypeOK, HasFuture, TookBody, Return

(* AndThen stores the future of its handler once the child has succeeded.  *)
LEMMA LAndThenPreflightReturn ==
  ASSUME Inv, NEW n \in Node, AndThenPreflightReturn(n)
  PROVE  Local(n) /\ Inv'
<1>. USE DEF AndThenPreflightReturn, Resumes, SetState, rigid, task, wake, cx
<1>1. NodeInv(n) /\ TypeOK /\ CallOK /\ kind[n] = "AndThen"
  BY DEF Inv, TypeOK, CallOK
<1>2. Left[n] \in Node /\ Left[n] # Right[n]
  BY <1>1, Children DEF Unary
<1>3. Idle(Left[n]) /\ Left[n] # n
  BY <1>1 DEF NodeInv, UnaryInv, Binary, Unary
<1>4. TypeOK'
  BY <1>1, <1>2, EmptyOutput, ReturnType DEF TypeOK, CallOK, Frame, Result, State, Again
<1>5. Local(n)
  BY <1>1, <1>2, <1>3 DEF TypeOK, NodeInv, Local, Advances, UnaryInv, Binary, Unary, Awake, Again, Return
<1>6. NodeInv(n)'
  BY <1>1, <1>2, <1>3 DEF TypeOK, NodeInv, UnaryInv, Binary, Unary, Awake, Again, Return
<1>. QED
  BY <1>1, <1>4, <1>5, <1>6, QuietStep DEF TypeOK, HasFuture, TookBody, Again, Return

LEMMA LAndThenPolled ==
  ASSUME Inv, NEW n \in Node, AndThenPolled(n)
  PROVE  Local(n) /\ Inv'
<1>. USE DEF AndThenPolled, Resumes, SetState, rigid, task, wake, cx
<1>1. NodeInv(n) /\ TypeOK /\ CallOK /\ kind[n] = "AndThen"
  BY DEF Inv, TypeOK, CallOK
<1>2. Left[n] \in Node /\ Left[n] # Right[n]
  BY <1>1, Children DEF Unary
<1>3. Idle(Left[n]) /\ Left[n] # n
  BY <1>1 DEF NodeInv, UnaryInv, Binary, Unary
<1>4. TypeOK'
  BY <1>1, <1>2, EmptyOutput, ReturnType DEF TypeOK, CallOK, Frame, Result, State, Again
<1>5. Local(n)
  BY <1>1, <1>2, <1>3 DEF TypeOK, NodeInv, Local, Advances, UnaryInv, Binary, Unary, Awake, Again, Return
<1>6. NodeInv(n)'
  BY <1>1, <1>2, <1>3 DEF TypeOK, NodeInv, UnaryInv, Binary, Unary, Awake, Again, Return
<1>. QED
  BY <1>1, <1>4, <1>5, <1>6, QuietStep DEF TypeOK, HasFuture, TookBody, Again, Return

(* Recover does so once the child has failed.                              *)
LEMMA LRecoverPreflightReturn ==
  ASSUME Inv, NEW n \in Node, RecoverPreflightReturn(n)
  PROVE  Local(n) /\ Inv'
<1>. USE DEF RecoverPreflightReturn, Resumes, SetState, rigid, task, wake, cx
<1>1. NodeInv(n) /\ TypeOK /\ CallOK /\ kind[n] = "Recover"
  BY DEF Inv, TypeOK, CallOK
<1>2. Left[n] \in Node /\ Left[n] # Right[n]
  BY <1>1, Children DEF Unary
<1>3. Idle(Left[n]) /\ Left[n] # n
  BY <1>1 DEF NodeInv, UnaryInv, Binary, Unary
<1>4. TypeOK'
  BY <1>1, <1>2, EmptyOutput, ReturnType DEF TypeOK, CallOK, Frame, Result, State, Again
<1>5. Local(n)
  BY <1>1, <1>2, <1>3 DEF TypeOK, NodeInv, Local, Advances, UnaryInv, Binary, Unary, Awake, Again, Return
<1>6. NodeInv(n)'
  BY <1>1, <1>2, <1>3 DEF TypeOK, NodeInv, UnaryInv, Binary, Unary, Awake, Again, Return
<1>. QED
  BY <1>1, <1>4, <1>5, <1>6, QuietStep DEF TypeOK, HasFuture, TookBody, Again, Return

LEMMA LRecoverPolled ==
  ASSUME Inv, NEW n \in Node, RecoverPolled(n)
  PROVE  Local(n) /\ Inv'
<1>. USE DEF RecoverPolled, Resumes, SetState, rigid, task, wake, cx
<1>1. NodeInv(n) /\ TypeOK /\ CallOK /\ kind[n] = "Recover"
  BY DEF Inv, TypeOK, CallOK
<1>2. Left[n] \in Node /\ Left[n] # Right[n]
  BY <1>1, Children DEF Unary
<1>3. Idle(Left[n]) /\ Left[n] # n
  BY <1>1 DEF NodeInv, UnaryInv, Binary, Unary
<1>4. TypeOK'
  BY <1>1, <1>2, EmptyOutput, ReturnType DEF TypeOK, CallOK, Frame, Result, State, Again
<1>5. Local(n)
  BY <1>1, <1>2, <1>3 DEF TypeOK, NodeInv, Local, Advances, UnaryInv, Binary, Unary, Awake, Again, Return
<1>6. NodeInv(n)'
  BY <1>1, <1>2, <1>3 DEF TypeOK, NodeInv, UnaryInv, Binary, Unary, Awake, Again, Return
<1>. QED
  BY <1>1, <1>4, <1>5, <1>6, QuietStep DEF TypeOK, HasFuture, TookBody, Again, Return

LEMMA LNodeStep ==
  ASSUME Inv, NEW n \in Node, NodeStep(n)
  PROVE  Local(n) /\ Inv'
<1>1. CASE LeafStep(n)
  BY <1>1, LOneshotPreflight, LDefaultPreflight, LPolls, LTakeBody DEF LeafStep
<1>2. CASE AndStep(n)
  BY <1>2, LAndPreflight, LAndPreflightLeft, LAndPreflightRight, LAndPoll, LAndPolled,
     LAndTakeItem DEF AndStep
<1>3. CASE OrStep(n)
  BY <1>3, LOrPreflight, LOrPreflightLeft, LOrStrictPreflightLeft, LOrPreflightRight,
     LOrPoll, LOrPolled DEF OrStep
<1>4. CASE UnaryStep(n)
  BY <1>4, LUnaryCall, LPolls, LMapReturn, LAndThenPreflightReturn, LAndThenPolled,
     LRecoverPreflightReturn, LRecoverPolled DEF UnaryStep
<1>. QED
  BY <1>1, <1>2, <1>3, <1>4 DEF NodeStep

-----------------------------------------------------------------------------
(* When the root has returned, nothing is running: every call below it has *)
(* returned too.                                                           *)
LEMMA AllIdle ==
  ASSUME Inv, Idle(Root)
  PROVE  \A n \in Node : Idle(n)
<1>. DEFINE S == {n \in Node : Idle(n)}
<1>1. ASSUME NEW n \in S
      PROVE  {Left[n], Right[n]} \cap Node \subseteq S
  <2>1. NodeInv(n) /\ kind[n] \in Kind /\ ret[n] \in Result
    BY DEF Inv, TypeOK
  <2>2. Fresh(n) \/ Pollable(n) \/ Ended(n)
    BY <2>1 DEF Result
  <2>3. CASE kind[n] \notin Binary \cup Unary
    BY <2>1, <2>3 DEF NodeInv, LeafInv
  <2>4. CASE kind[n] = "And"
    BY <2>1, <2>2, <2>4 DEF NodeInv, AndInv, Binary
  <2>5. CASE kind[n] \in {"Or", "OrStrict"}
    BY <2>1, <2>2, <2>5 DEF NodeInv, OrInv, Binary
  <2>6. CASE kind[n] \in Unary
    BY <2>1, <2>2, <2>6 DEF NodeInv, UnaryInv, Unary
  <2>. QED
    BY <2>3, <2>4, <2>5, <2>6 DEF Binary
<1>2. Root \in S /\ S \in SUBSET Node
  BY TreeAssumption
<1>3. S = Node
  BY <1>1, <1>2, TreeAssumption
<1>. QED
  BY <1>3

(* AppFuture calls the root when nothing else is running, so the            *)
(* notification it consumes is nobody's assumption.                        *)
LEMMA RootCalled ==
  ASSUME Inv, NEW e \in {"preflight", "poll"},
         e = "preflight" => Fresh(Root), e = "poll" => Pollable(Root),
         frame' = [frame EXCEPT ![Root] = e],
         UNCHANGED <<rigid, ret, state, maybe>>
  PROVE  \A n \in Node : NodeInv(n)'
<1>. SUFFICES ASSUME NEW n \in Node PROVE NodeInv(n)'
  OBVIOUS
<1>1. /\ \A m \in Node : Idle(m)
      /\ NodeInv(n) /\ TypeOK /\ HasChildren(n, kind[n]) /\ kind' = kind
      /\ Left[n] # Root /\ Right[n] # Root /\ Root \in Node
  BY AllIdle, TreeAssumption DEF Inv, TreeInv, rigid
<1>2. /\ n = Root => frame'[n] = e
      /\ n # Root => frame'[n] = "none"
      /\ Left[n] \in Node => frame'[Left[n]] = "none"
      /\ Right[n] \in Node => frame'[Right[n]] = "none"
  BY <1>1 DEF TypeOK
<1>3. CASE kind[n] \notin Binary \cup Unary
  <2>1. kind[Root] \in Oneshot /\ n = Root => e # "poll"
    BY <1>1, <1>3 DEF NodeInv, LeafInv
  <2>. QED
    BY <1>1, <1>2, <1>3, <2>1 DEF NodeInv, LeafInv, Binary, Unary
<1>4. CASE kind[n] = "And"
  BY <1>1, <1>2, <1>4 DEF NodeInv, AndInv, Binary, Unary, HasChildren
<1>5. CASE kind[n] \in {"Or", "OrStrict"}
  BY <1>1, <1>2, <1>5 DEF NodeInv, OrInv, Binary, Unary, HasChildren
<1>6. CASE kind[n] \in Unary
  BY <1>1, <1>2, <1>6 DEF NodeInv, UnaryInv, Binary, Unary, HasChildren
<1>. HIDE DEF NodeInv
<1>. QED
  BY <1>3, <1>4, <1>5, <1>6 DEF Binary

(* The steps of AppFuture::poll_apply.                                     *)
LEMMA LAppCalls ==
  ASSUME Inv, AppPreflight \/ AppPoll
  PROVE  Inv'
<1>. USE DEF AppPreflight, AppPoll, rigid, task, wake, cx
<1>1. TypeOK /\ AppInv /\ Idle(Root)
  BY DEF Inv, AppInv
<1>2. TypeOK'
  <2>1. frame' \in [Node -> Frame]
    BY <1>1 DEF TypeOK, Frame
  <2>2. cursor' \in 0 .. Len(path)
    BY <1>1 DEF TypeOK
  <2>. QED
    BY <1>1, <2>1, <2>2 DEF TypeOK
<1>3. \A n \in Node : NodeInv(n)'
  BY <1>1, RootCalled DEF AppInv
<1>4. AppInv'
  BY <1>1, TreeAssumption DEF AppInv, TypeOK
<1>5. WakeInv' /\ TreeInv'
  BY DEF Inv, WakeInv, TreeInv, HasFuture, HasChildren
<1>6. BodyInv'
  BY <1>1, AllIdle, TreeAssumption DEF Inv, BodyInv, TookBody, TypeOK
<1>. QED
  BY <1>2, <1>3, <1>4, <1>5, <1>6 DEF Inv

LEMMA LAppReturns ==
  ASSUME Inv, AppPreflightReturn \/ AppPollReturn
  PROVE  Inv'
<1>. USE DEF AppPreflightReturn, AppPollReturn, rigid, task, wake, cx
<1>1. TypeOK /\ AppInv /\ Idle(Root)
  BY DEF Inv
<1>2. TypeOK'
  <2>1. frame' \in [Node -> Frame]
    BY <1>1 DEF TypeOK, Frame
  <2>2. app' \in {"Start", "Taken", "InFlight"} /\ polling' \in BOOLEAN
    BY <1>1 DEF TypeOK
  <2>3. response' \in {"none", "Ok", "Err"}
    BY <1>1 DEF TypeOK, AppInv
  <2>. QED
    BY <1>1, <2>1, <2>2, <2>3 DEF TypeOK
<1>3. \A n \in Node : NodeInv(n)'
  <2>1. CASE frame' = frame
    BY <2>1 DEF Inv, NodeInv, LeafInv, AndInv, OrInv, UnaryInv, Awake
  <2>2. CASE frame' = [frame EXCEPT ![Root] = "poll"] /\ ret[Root] = "Incomplete"
    BY <1>1, <2>2, RootCalled
  <2>. QED
    BY <2>1, <2>2
<1>4. AppInv'
  BY <1>1, TreeAssumption DEF AppInv, TypeOK, Awake
<1>5. WakeInv' /\ TreeInv'
  BY DEF Inv, WakeInv, TreeInv, HasFuture, HasChildren
<1>6. BodyInv'
  BY <1>1 DEF Inv, BodyInv, TookBody, TypeOK
<1>. QED
  BY <1>2, <1>3, <1>4, <1>5, <1>6 DEF Inv

(* The completion of a future wakes the task if it was registered.         *)
LEMMA LIoCompletes ==
  ASSUME Inv, NEW n \in Node, IoCompletes(n)
  PROVE  Inv'
<1>. USE DEF IoCompletes, rigid, task, cx
<1>1. TypeOK' /\ (Awake => Awake')
  BY ZenonT(30) DEF Inv, TypeOK, Awake
<1>2. \A m \in Node : NodeInv(m)'
  BY <1>1 DEF Inv, NodeInv, LeafInv, AndInv, OrInv, UnaryInv
<1>3. AppInv' /\ TreeInv'
  BY <1>1 DEF Inv, AppInv, TreeInv, HasChildren
<1>4. WakeInv' /\ BodyInv'
  BY DEF Inv, WakeInv, BodyInv, TookBody, HasFuture, TypeOK
<1>. QED
  BY <1>1, <1>2, <1>3, <1>4 DEF Inv

LEMMA LSpuriousNotify ==
  ASSUME Inv, SpuriousNotify
  PROVE  Inv'
<1>. USE DEF SpuriousNotify, rigid, task, cx
<1>1. TypeOK' /\ Awake'
  BY DEF Inv, TypeOK, Awake
<1>2. \A m \in Node : NodeInv(m)'
  BY <1>1 DEF Inv, NodeInv, LeafInv, AndInv, OrInv, UnaryInv
<1>3. AppInv' /\ TreeInv'
  BY <1>1 DEF Inv, AppInv, TreeInv, HasChildren
<1>4. WakeInv' /\ BodyInv'
  BY DEF Inv, WakeInv, BodyInv, TookBody, HasFuture, TypeOK
<1>. QED
  BY <1>1, <1>2, <1>3, <1>4 DEF Inv

(* The action values as Endpoint::action builds them.                      *)
LEMMA LInit == Init => Inv
<1>. SUFFICES ASSUME Init PROVE Inv
  OBVIOUS
<1>. USE TreeAssumption, KindAssumption, PathAssumption DEF Init
<1>1. kind \in [Node -> Kind]
  OBVIOUS
<1>2. \A n \in Node : state[n] = Created(kind[n])
  OBVIOUS
<1>3. TypeOK
  <2>1. state \in [Node -> State]
    BY DEF State, Created
  <2>2. accept \in [Node -> BOOLEAN]
    OBVIOUS
  <2>3. cursor \in 0 .. Len(path) /\ saved \in [Node -> 0 .. Len(path)]
    OBVIOUS
  <2>. QED
    BY <1>1, <2>1, <2>2, <2>3, EmptyOutput DEF TypeOK, Frame, Result, MaybeDone
<1>4. TreeInv /\ AppInv /\ WakeInv
  BY DEF TreeInv, AppInv, WakeInv
<1>5. BodyInv
  BY <1>1, <1>2 DEF BodyInv, TookBody, Created, Oneshot, Body
<1>6. ASSUME NEW n \in Node
      PROVE  NodeInv(n)
  <2>1. HasChildren(n, kind[n])
    BY <1>4 DEF TreeInv
  <2>2. CASE kind[n] \notin Binary \cup Unary
    <3>1. kind[n] \in Oneshot => state[n] = "Some"
      BY <1>2 DEF Created, Oneshot, Parsing, Binary, Body
    <3>2. LeafInv(n)
      BY <3>1 DEF LeafInv
    <3>. QED
      BY <2>2, <3>2 DEF NodeInv, Binary, Unary
  <2>3. CASE kind[n] \in Binary \cup Unary
    <3>1. kind[n] \notin Oneshot
      BY <2>3 DEF Oneshot, Parsing, Binary, Unary
    <3>2. Left[n] \in Node /\ (kind[n] \in Binary => Right[n] \in Node)
      BY <2>1, <2>3 DEF HasChildren
    <3>3. /\ kind[n] \in {"Or", "OrStrict"} => state[n] = "Init"
          /\ kind[n] \in Unary => state[n] = "None"
      BY <1>2, <3>1 DEF Created, Unary
    <3>. QED
      BY <2>3, <3>2, <3>3 DEF NodeInv, AndInv, OrInv, UnaryInv, Binary, Unary
  <2>. QED
    BY <2>2, <2>3
<1>. QED
  BY <1>3, <1>4, <1>5, <1>6 DEF Inv

LEMMA LNext == Inv /\ [Next]_vars => Inv'
<1>. SUFFICES ASSUME Inv, [Next]_vars PROVE Inv'
  OBVIOUS
<1>1. ASSUME NEW n \in Node, NodeStep(n) PROVE Inv'
  BY <1>1, LNodeStep
<1>2. CASE AppStep
  BY <1>2, LAppCalls, LAppReturns DEF AppStep
<1>3. ASSUME NEW n \in Node, IoCompletes(n) PROVE Inv'
  BY <1>3, LIoCompletes
<1>4. CASE SpuriousNotify
  BY <1>4, LSpuriousNotify
<1>5. CASE Finished \/ UNCHANGED vars
  BY <1>5, SMTT(30) DEF Finished, vars, rigid, wake, task, cx, Inv, TypeOK, TreeInv, AppInv, WakeInv,
     BodyInv, NodeInv, LeafInv, AndInv, OrInv, UnaryInv, Awake, HasChildren, HasFuture, TookBody
<1>. QED
  BY <1>1, <1>2, <1>3, <1>4, <1>5 DEF Next

(* The assumptions that nodes make of their children hold throughout.      *)
THEOREM Invariance == Spec => []Inv
<1>1. Init => Inv
  BY LInit
<1>2. Inv /\ [Next]_vars => Inv'
  BY LNext
<1>. QED
  BY <1>1, <1>2, PTL DEF Spec

-----------------------------------------------------------------------------
(* For every tree of endpoints and every request, each variable keeps its  *)
(* type, and the cursor of the PreflightContext, shared by the branches of *)
(* Or and OrStrict and cloned by them, stays within the path.              *)
THEOREM TypeCorrect == Spec => []TypeOK
<1>1. Inv => TypeOK
  BY DEF Inv
<1>. QED
  BY <1>1, Invariance, PTL

(* No tree of combinators makes one of its actions panic: nothing is       *)
(* preflighted twice, polled before it was kept or polled after its end.   *)
THEOREM Panics == Spec => []NoPanic
<1>1. ASSUME Inv, NEW n \in Node
      PROVE  ~PreflightPanics(n) /\ ~PollPanics(n)
  <2>1. NodeInv(n) /\ kind[n] \in Kind
    BY <1>1 DEF Inv, TypeOK
  <2>2. CASE kind[n] \notin Binary \cup Unary
    BY <2>1, <2>2 DEF NodeInv, LeafInv, PreflightPanics, PollPanics, Resumes, Binary, Unary
  <2>3. CASE kind[n] \in Binary \cup Unary
    <3>1. kind[n] \notin Oneshot
      BY <2>3, KindAssumption DEF Oneshot, Parsing, Binary, Unary
    <3>. QED
      BY <2>1, <2>3, <3>1
         DEF NodeInv, AndInv, OrInv, UnaryInv, PreflightPanics, PollPanics, Resumes,
             Binary, Unary
  <2>. QED
    BY <2>2, <2>3
<1>2. Inv => NoPanic
  BY <1>1 DEF NoPanic
<1>. QED
  BY <1>2, Invariance, PTL

(* The request body leaves AppFuture for at most one endpoint, after       *)
(* routing.                                                                *)
THEOREM BodyOwnership == Spec => []BodyTakenOnce
<1>1. Inv => BodyTakenOnce
  BY DEF Inv, BodyInv, BodyTakenOnce
<1>. QED
  BY <1>1, Invariance, PTL

(* Whenever AppFuture::poll has returned NotReady, somebody will wake the  *)
(* task: a combinator reports NotReady only for a child that did.          *)
THEOREM Wakeup == Spec => []NoLostWakeup
<1>1. Inv => NoLostWakeup
  BY DEF Inv, TypeOK, AppInv, WakeInv, NoLostWakeup, Awake
<1>. QED
  BY <1>1, Invariance, PTL

-----------------------------------------------------------------------------
(* Seen from outside, a step of a node is a return to its caller, a call   *)
(* of one child or a move within the method that is running.               *)
Calling(n, c) == \E at \in Preflighting \cup Polling, entry \in {"preflight", "poll"} :
                   Call(n, at, c, entry)

Shape(n) == \/ \E r, o : Return(n, r, o)
            \/ \E c \in Node : Calling(n, c)
            \/ Again(n)

LEMMA ShapeOf ==
  ASSUME Inv, NEW n \in Node, NodeStep(n)
  PROVE  Shape(n)
<1>. USE DEF Shape, Calling
<1>1. CASE LeafStep(n)
  BY <1>1 DEF LeafStep, OneshotPreflight, DefaultPreflight, FuturePoll, RawPoll,
              ReceiveAllTake, ReceiveAllPoll, PollFuture
<1>2. CASE AndStep(n)
  <2>1. Left[n] \in Node /\ Right[n] \in Node
    BY <1>2, Children DEF Binary, AndStep, AndPreflight, AndPreflightLeft, AndPreflightRight,
       AndPollLeft, AndPollRight, AndPolledLeft, AndPolledRight, AndPolled, AndTakeItem,
       Enters, Resumes
  <2>. QED
    BY <1>2, <2>1 DEF AndStep, AndPreflight, AndPreflightLeft, AndPreflightRight,
       AndPollLeft, AndPollRight, AndPolledLeft, AndPolledRight, AndPolled, AndTakeItem
<1>3. CASE OrStep(n)
  <2>1. Left[n] \in Node /\ Right[n] \in Node
    BY <1>3, Children DEF Binary, OrStep, OrPreflight, OrPreflightLeft, OrPreflightRight,
       OrStrictPreflight, OrStrictPreflightLeft, OrStrictPreflightRight,
       OrPollLeft, OrPollRight, OrPoll, OrPolledLeft, OrPolledRight, OrPolled, Enters, Resumes
  <2>. QED
    BY <1>3, <2>1 DEF OrStep, OrPreflight, OrPreflightLeft, OrPreflightRight,
       OrStrictPreflight, OrStrictPreflightLeft, OrStrictPreflightRight, Choose,
       OrPollLeft, OrPollRight, OrPoll, OrPolledLeft, OrPolledRight, OrPolled
<1>4. CASE UnaryStep(n)
  <2>1. UnaryPreflight(n) \/ UnaryPoll(n) => Left[n] \in Node
    BY Children DEF UnaryPreflight, UnaryPoll, Enters
  <2>. QED
    BY <1>4, <2>1 DEF UnaryStep, UnaryPreflight, UnaryPoll, InFlightPoll, PollFuture,
       MapReturn, AndThenPreflightReturn, AndThenPolled, RecoverPreflightReturn, RecoverPolled
<1>. QED
  BY <1>1, <1>2, <1>3, <1>4 DEF NodeStep

(* Whichever it is, ActionContract allows it.                              *)
LEMMA NodeContract ==
  ASSUME Inv, NEW n \in Node, NodeStep(n)
  PROVE  [Contract!Next]_(Contract!vars)
<1>. USE DEF Contract!Next, Contract!vars, Contract!Preflight, Contract!Poll,
             Contract!Preflighted, Contract!Polled, Contract!Enter, Contract!Leave
<1>1. Local(n) /\ Inv' /\ TypeOK /\ TypeOK' /\ Shape(n)
  BY LNodeStep, ShapeOf DEF Inv
<1>2. CASE \E r, o : Return(n, r, o)
  <2>1. PICK r, o : Return(n, r, o)
    BY <1>2
  <2>2. Contract!Preflighted(n) \/ Contract!Polled(n)
    BY <1>1, <2>1 DEF TypeOK, Local, Advances, Return
  <2>. QED
    BY <2>2
<1>3. CASE \E c \in Node : Calling(n, c)
  <2>1. PICK c \in Node : Calling(n, c)
    BY <1>3
  <2>2. ret' = ret /\ \A m \in Node \ {n, c} : frame'[m] = frame[m]
    BY <1>1, <2>1 DEF TypeOK, Calling, Call
  <2>3. /\ frame[n] \in Preflighting <=> frame'[n] \in Preflighting
        /\ frame[n] \in Polling <=> frame'[n] \in Polling
    BY <1>1, <2>1, <2>2 DEF TypeOK, Inv, NodeInv, Local, Advances, Calling, Call
  <2>4. CASE c # n /\ Calls(n, c)
    <3>1. CASE frame'[c] = "preflight"
      <4>1. Contract!Preflight(c)
        BY <2>2, <2>3, <2>4, <3>1 DEF Calls
      <4>. QED
        BY <4>1
    <3>2. CASE frame'[c] = "poll"
      <4>1. Contract!Poll(c)
        BY <2>2, <2>3, <2>4, <3>2 DEF Calls
      <4>. QED
        BY <4>1
    <3>. QED
      BY <2>4, <3>1, <3>2 DEF Calls
  <2>5. CASE c = n \/ frame'[c] = frame[c]
    BY <2>2, <2>3, <2>5
  <2>. QED
    BY <1>1, <2>4, <2>5 DEF Local
<1>4. CASE Again(n)
  BY <1>1, <1>4 DEF TypeOK, Local, Advances, Again
<1>. QED
  BY <1>1, <1>2, <1>3, <1>4 DEF Shape

LEMMA AppContract ==
  ASSUME Inv, AppStep
  PROVE  [Contract!Next]_(Contract!vars)
<1>. USE DEF Contract!Next, Contract!vars, Contract!Preflight, Contract!Poll, Contract!Enter
<1>1. TypeOK /\ AppInv /\ Root \in Node
  BY TreeAssumption DEF Inv
<1>2. CASE frame' = frame /\ ret' = ret
  BY <1>2
<1>3. CASE AppPreflight
  <2>1. Contract!Preflight(Root)
    BY <1>1, <1>3 DEF TypeOK, AppInv, AppPreflight
  <2>. QED
    BY <1>1, <2>1
<1>4. CASE \/ AppPoll
           \/ AppPreflightReturn /\ frame' = [frame EXCEPT ![Root] = "poll"]
                                 /\ ret[Root] = "Incomplete"
  <2>1. Contract!Poll(Root)
    BY <1>1, <1>4 DEF TypeOK, AppInv, AppPoll, AppPreflightReturn
  <2>. QED
    BY <1>1, <2>1
<1>. QED
  BY <1>2, <1>3, <1>4 DEF AppStep, AppPreflightReturn, AppPollReturn

(* Every action of every tree is called as the trait EndpointAction says:  *)
(* preflight first and once, poll_action only after Incomplete or NotReady *)
(* and never again after the result.                                       *)
THEOREM Refinement == Spec => ContractSpec
<1>1. Init => Contract!Init
  BY DEF Init, Contract!Init
<1>2. Inv /\ [Next]_vars => [Contract!Next]_(Contract!vars)
  <2>. SUFFICES ASSUME Inv, [Next]_vars PROVE [Contract!Next]_(Contract!vars)
    OBVIOUS
  <2>1. CASE frame' = frame /\ ret' = ret
    BY <2>1 DEF Contract!vars
  <2>. QED
    BY <2>1, NodeContract, AppContract DEF Next, IoCompletes, SpuriousNotify, Finished, vars
<1>. QED
  BY <1>1, <1>2, Invariance, PTL DEF Spec, ContractSpec, Contract!Spec

-----------------------------------------------------------------------------
(* Recursive definitions over the tree of endpoints. Match, Route, Value,  *)
(* Below and Alternatives are functions on Node that are defined by        *)
(* recursion over the children; that such functions exist, and that they   *)
(* are the only ones, follows from NestingAssumption.                      *)

(* What f gives for the child c, or v0 if there is none.                   *)
Child(f, c, v0) == IF c \in Node THEN f[c] ELSE v0

Solvable(V, v0, G) ==
  \E f \in [Node -> V] :
    \A n \in Node : f[n] = G[n][<<Child(f, Left[n], v0), Child(f, Right[n], v0)>>]

(* A definition by recursion over the tree, in which the value of a node   *)
(* is computed from those of its children, has a solution: the least       *)
(* relation closed under the computation is a function, because trees are  *)
(* nested finitely.                                                        *)
LEMMA TreeRecursion ==
  ASSUME NEW V, NEW v0 \in V, NEW G \in [Node -> [V \X V -> V]]
  PROVE  Solvable(V, v0, G)
<1> DEFINE
      Gives(C, c, v) == IF c \in Node THEN <<c, v>> \in C ELSE v = v0
      Closed(C) == \A n \in Node, l, r \in V :
                     Gives(C, Left[n], l) /\ Gives(C, Right[n], r) => <<n, G[n][<<l, r>>]>> \in C
      R == {p \in Node \X V : \A C \in SUBSET (Node \X V) : Closed(C) => p \in C}
      S == {n \in Node : \E v \in V : \A w \in V : <<n, w>> \in R <=> w = v}
<1>0. \A n \in Node, l, r \in V : G[n][<<l, r>>] \in V
  OBVIOUS
<1>1. Closed(R)
  <2> SUFFICES ASSUME NEW n \in Node, NEW l \in V, NEW r \in V,
                      Gives(R, Left[n], l), Gives(R, Right[n], r),
                      NEW C \in SUBSET (Node \X V), Closed(C)
               PROVE  <<n, G[n][<<l, r>>]>> \in C
    BY <1>0
  <2>1. Gives(C, Left[n], l) /\ Gives(C, Right[n], r)
    OBVIOUS
  <2> QED BY <2>1
<1>2. ASSUME NEW n \in Node, {Left[n], Right[n]} \cap Node \subseteq S
      PROVE  n \in S
  <2>0. ASSUME NEW c \in {Left[n], Right[n]}
        PROVE  \E x \in V : \A w \in V : Gives(R, c, w) <=> w = x
    <3> HIDE DEF R
    <3>1. CASE c \in Node
      BY <1>2, <3>1
    <3>2. CASE c \notin Node
      BY <3>2
    <3> QED BY <3>1, <3>2
  <2>1. PICK l \in V : \A w \in V : Gives(R, Left[n], w) <=> w = l
    BY <2>0
  <2>2. PICK r \in V : \A w \in V : Gives(R, Right[n], w) <=> w = r
    BY <2>0
  <2> DEFINE v == G[n][<<l, r>>]
  <2>3. v \in V
    BY <1>0
  <2>4. <<n, v>> \in R
    <3> HIDE DEF R
    <3> QED BY <1>1, <2>1, <2>2
  <2>5. ASSUME NEW w \in V, <<n, w>> \in R, w # v
        PROVE  FALSE
    <3> DEFINE C == R \ {<<n, w>>}
    <3>1. C \in SUBSET (Node \X V) /\ <<n, w>> \notin C
      OBVIOUS
    <3>2. Closed(C)
      <4> SUFFICES ASSUME NEW m \in Node, NEW x \in V, NEW y \in V,
                          Gives(C, Left[m], x), Gives(C, Right[m], y)
                   PROVE  <<m, G[m][<<x, y>>]>> \in C
        OBVIOUS
      <4>1. Gives(R, Left[m], x) /\ Gives(R, Right[m], y)
        <5> HIDE DEF R
        <5> QED OBVIOUS
      <4>2. <<m, G[m][<<x, y>>]>> \in R
        <5> HIDE DEF R, Gives
        <5> QED BY <1>1, <4>1
      <4>3. m = n => x = l /\ y = r
        <5> HIDE DEF R, Gives
        <5> QED BY <4>1, <2>1, <2>2
      <4> HIDE DEF R
      <4> QED BY <4>2, <4>3, <2>5
    <3> HIDE DEF C, Closed
    <3> QED BY <2>5, <3>1, <3>2
  <2> HIDE DEF R, v
  <2> QED BY <2>3, <2>4, <2>5
<1>3. S = Node
  <2> HIDE DEF R
  <2>1. S \in SUBSET Node
    OBVIOUS
  <2> HIDE DEF S
  <2> QED BY <1>2, <2>1, NestingAssumption
<1> DEFINE f == [n \in Node |-> CHOOSE v \in V : <<n, v>> \in R]
<1> HIDE DEF R
<1>4. \A n \in Node : f[n] \in V /\ \A w \in V : <<n, w>> \in R <=> w = f[n]
  <2> TAKE n \in Node
  <2>1. PICK v \in V : \A w \in V : <<n, w>> \in R <=> w = v
    BY <1>3
  <2>2. \E w \in V : <<n, w>> \in R
    BY <2>1
  <2>3. f[n] \in V /\ <<n, f[n]>> \in R
    BY <2>2
  <2> QED BY <2>1, <2>3
<1>5. f \in [Node -> V]
  BY <1>4
<1> HIDE DEF f
<1>6. ASSUME NEW n \in Node
      PROVE  f[n] = G[n][<<Child(f, Left[n], v0), Child(f, Right[n], v0)>>]
  <2> DEFINE l == Child(f, Left[n], v0)
             r == Child(f, Right[n], v0)
  <2>1. l \in V /\ r \in V /\ Gives(R, Left[n], l) /\ Gives(R, Right[n], r)
    BY <1>4, <1>5 DEF Child
  <2>2. <<n, G[n][<<l, r>>]>> \in R
    <3> HIDE DEF l, r, Gives
    <3> QED BY <1>1, <2>1
  <2>3. G[n][<<l, r>>] \in V
    BY <1>0, <2>1
  <2> HIDE DEF l, r
  <2>4. f[n] = G[n][<<l, r>>]
    BY <1>4, <2>2, <2>3
  <2> QED BY <2>4 DEF l, r
<1> QED BY <1>5, <1>6 DEF Solvable

-----------------------------------------------------------------------------
(* What holds of a node whenever it holds of the children its kind calls   *)
(* holds of all nodes.                                                     *)
LEMMA BottomUp ==
  ASSUME TreeInv, NEW S \in SUBSET Node,
         \A n \in Node : (\A c \in Node : Uses(n, c) => c \in S) => n \in S
  PROVE  S = Node
<1>1. ASSUME NEW n \in Node, {Left[n], Right[n]} \cap Node \subseteq S
      PROVE  n \in S
  BY <1>1 DEF Uses
<1> QED BY <1>1, NestingAssumption

(* A transformer of functions on the nodes that looks, at a node, only at  *)
(* the children its kind calls has a fixpoint.                             *)
Looks(T, V) ==
  \A F, H \in [Node -> V], n \in Node :
    (\A c \in Node : Uses(n, c) => F[c] = H[c]) => T[F][n] = T[H][n]

HasFixpoint(T, V) == \E f \in [Node -> V] : f = T[f]

(* A transformer that looks at the children only has a fixpoint, so that a *)
(* recursive definition over the tree may be unfolded.                     *)
LEMMA TreeFixpoint ==
  ASSUME TreeInv, NEW STATE V, V # {},
         NEW STATE T, T \in [[Node -> V] -> [Node -> V]], Looks(T, V)
  PROVE  HasFixpoint(T, V)
<1>. PICK v0 \in V : TRUE
  OBVIOUS
<1> DEFINE Pair(n, p) == [m \in Node |-> IF m = Left[n] THEN p[1] ELSE p[2]]
           G == [n \in Node |-> [p \in V \X V |-> T[Pair(n, p)][n]]]
<1>1. \A n \in Node, p \in V \X V : Pair(n, p) \in [Node -> V]
  OBVIOUS
<1>2. G \in [Node -> [V \X V -> V]]
  <2> HIDE DEF Pair
  <2>1. \A n \in Node, p \in V \X V : T[Pair(n, p)][n] \in V
    BY <1>1
  <2> QED BY <2>1
<1>3. PICK f \in [Node -> V] :
        \A n \in Node : f[n] = G[n][<<Child(f, Left[n], v0), Child(f, Right[n], v0)>>]
  <2> HIDE DEF G
  <2>1. Solvable(V, v0, G)
    BY <1>2, TreeRecursion
  <2> QED BY <2>1 DEF Solvable
<1>4. ASSUME NEW n \in Node
      PROVE  f[n] = T[f][n]
  <2> DEFINE p == <<Child(f, Left[n], v0), Child(f, Right[n], v0)>>
  <2>1. p \in V \X V
    BY DEF Child
  <2>2. \A c \in Node : Uses(n, c) => Pair(n, p)[c] = f[c]
    BY TreeAssumption DEF Uses, TreeInv, HasChildren, Child
  <2> HIDE DEF Pair, p
  <2>3. G[n][p] = T[Pair(n, p)][n]
    BY <2>1
  <2>4. f[n] = G[n][p]
    BY <1>3 DEF p
  <2> QED BY <1>1, <2>1, <2>2, <2>3, <2>4 DEF Looks
<1>5. f = T[f]
  BY <1>4
<1> QED BY <1>5 DEF HasFixpoint

(* Two functions that agree on a node whenever they agree on the children  *)
(* it calls are the same.                                                  *)
LEMMA TreeUnique ==
  ASSUME TreeInv, NEW STATE f, NEW STATE g,
         f = [n \in Node |-> f[n]] /\ g = [n \in Node |-> g[n]],
         \A n \in Node : (\A c \in Node : Uses(n, c) => f[c] = g[c]) => f[n] = g[n]
  PROVE  f = g
<1> DEFINE S == {n \in Node : f[n] = g[n]}
<1>1. \A n \in Node : (\A c \in Node : Uses(n, c) => c \in S) => n \in S
  OBVIOUS
<1>2. S \in SUBSET Node
  OBVIOUS
<1>3. S = Node
  <2> HIDE DEF S
  <2> QED BY <1>1, <1>2, BottomUp
<1> QED BY <1>3

Answers == [ret : PreflightResult, pos : Nat]

(* The kinds of nodes.                                                     *)
LEMMA KindCases ==
  ASSUME TypeOK, NEW n \in Node
  PROVE  \/ kind[n] \in Segment \/ kind[n] \in Parsing \/ kind[n] = "Eos"
         \/ kind[n] \in Body \cup {"Future"} \/ kind[n] \in Binary \/ kind[n] \in Unary
BY DEF TypeOK, Kind, Oneshot

(* What a node makes of the answers of its children is an answer.          *)
LEMMA DecideType ==
  ASSUME TypeOK, NEW n \in Node, NEW c \in Nat,
         NEW l \in [Nat -> Answers], NEW r \in [Nat -> Answers]
  PROVE  Decide(n, c, l, r) \in Answers
<1> USE DEF Answers, PreflightResult, Answer, Verdict, IsMatch, Matched
<1>1. Len(path) \in Nat /\ Popped(c) \in Nat
  BY DEF TypeOK, Popped
<1>2. l[c] \in Answers /\ r[c] \in Answers /\ r[l[c].pos] \in Answers
  OBVIOUS
<1>3. kind[n] \in Segment \/ kind[n] \in Parsing \/ kind[n] = "Eos"
      => Decide(n, c, l, r) \in Answers
  BY <1>1 DEF Decide, Parsing
<1>4. kind[n] \in Body \cup {"Future"} => Decide(n, c, l, r) \in Answers
  BY KindAssumption DEF Decide, Body, Parsing
<1>5. kind[n] \in Binary => Decide(n, c, l, r) \in Answers
  BY <1>2, KindAssumption DEF Decide, Binary, Body, Keep
<1>6. kind[n] \in Unary => Decide(n, c, l, r) \in Answers
  BY <1>2, KindAssumption DEF Decide, Unary, Body
<1> QED BY <1>3, <1>4, <1>5, <1>6, KindCases

(* It depends on the children that its kind calls only.                    *)
LEMMA DecideLocal ==
  ASSUME TypeOK, NEW n \in Node, NEW c, NEW l, NEW r, NEW l2, NEW r2,
         kind[n] \in Binary \cup Unary => l = l2,
         kind[n] \in Binary => r = r2
  PROVE  Decide(n, c, l, r) = Decide(n, c, l2, r2)
<1>1. CASE kind[n] \in Binary
  BY <1>1
<1>2. CASE kind[n] \in Unary
  BY <1>2, KindAssumption DEF Decide, Unary, Binary
<1>3. CASE kind[n] \notin Binary \cup Unary
  BY <1>3, KindCases DEF Decide, Parsing
<1> QED BY <1>1, <1>2, <1>3

(* Match is what its recursive definition says.                            *)
LEMMA MatchUnfold ==
  ASSUME TypeOK, TreeInv
  PROVE  /\ Match \in [Node -> [Nat -> Answers]]
         /\ \A n \in Node, c \in Nat :
              Match[n][c] = Decide(n, c, Match[Left[n]], Match[Right[n]])
<1> DEFINE V == [Nat -> Answers]
           v0 == [c \in Nat |-> Answer("Rejected", 0)]
           B(F) == [n \in Node |-> [c \in Nat |-> Decide(n, c, F[Left[n]], F[Right[n]])]]
           T == [F \in [Node -> V] |-> B(F)]
<1>1. v0 \in V
  BY DEF Answers, Answer, PreflightResult
<1>2. ASSUME NEW F, NEW H, NEW n \in Node,
             \A c \in Node : Uses(n, c) => F[c] = H[c]
      PROVE  B(F)[n] = B(H)[n]
  <2>1. /\ kind[n] \in Binary \cup Unary => F[Left[n]] = H[Left[n]]
        /\ kind[n] \in Binary => F[Right[n]] = H[Right[n]]
    BY <1>2 DEF Uses, TreeInv, HasChildren
  <2>2. \A c : Decide(n, c, F[Left[n]], F[Right[n]]) = Decide(n, c, H[Left[n]], H[Right[n]])
    BY <2>1, DecideLocal
  <2> QED BY <2>2
<1>3. ASSUME NEW F \in [Node -> V]
      PROVE  B(F) \in [Node -> V]
  <2> SUFFICES ASSUME NEW n \in Node, NEW c \in Nat
               PROVE  Decide(n, c, F[Left[n]], F[Right[n]]) \in Answers
    OBVIOUS
  <2> DEFINE l == IF Left[n] \in Node THEN F[Left[n]] ELSE v0
             r == IF Right[n] \in Node THEN F[Right[n]] ELSE v0
  <2>1. l \in V /\ r \in V
    BY <1>1
  <2>2. /\ kind[n] \in Binary \cup Unary => l = F[Left[n]]
        /\ kind[n] \in Binary => r = F[Right[n]]
    BY DEF TreeInv, HasChildren
  <2> HIDE DEF l, r
  <2>3. Decide(n, c, l, r) \in Answers
    BY <2>1, DecideType
  <2>4. Decide(n, c, l, r) = Decide(n, c, F[Left[n]], F[Right[n]])
    BY <2>2, DecideLocal
  <2> QED BY <2>3, <2>4
<1>4. PICK f \in [Node -> V] : f = B(f)
  <2> HIDE DEF B, V, v0
  <2>1. T \in [[Node -> V] -> [Node -> V]]
    BY <1>3
  <2>2. ASSUME NEW F \in [Node -> V], NEW H \in [Node -> V], NEW n \in Node,
               \A c \in Node : Uses(n, c) => F[c] = H[c]
        PROVE  T[F][n] = T[H][n]
    <3>1. B(F)[n] = B(H)[n]
      BY <1>2, <2>2
    <3> QED BY <3>1
  <2>3. \E f \in [Node -> V] : f = T[f]
    <3> HIDE DEF T
    <3>1. Looks(T, V)
      BY <2>2 DEF Looks
    <3>2. V # {}
      BY <1>1
    <3> QED BY <2>1, <3>1, <3>2, TreeFixpoint DEF HasFixpoint
  <2> QED BY <2>3
<1>5. Match = B(Match)
  <2>1. f = B(f)
    BY <1>4
  <2> QED BY <2>1 DEF Match
<1>6. Match = f
  <2>1. Match = [n \in Node |-> Match[n]] /\ f = [n \in Node |-> f[n]]
    BY <1>5
  <2>2. ASSUME NEW n \in Node, \A c \in Node : Uses(n, c) => Match[c] = f[c]
        PROVE  Match[n] = f[n]
    <3>1. B(Match)[n] = B(f)[n]
      BY <1>2, <2>2
    <3> HIDE DEF B
    <3> QED BY <1>4, <1>5, <3>1
  <2> QED BY <2>1, <2>2, TreeUnique
<1> QED
  <2>1. \A n \in Node, c \in Nat : B(Match)[n][c] = Decide(n, c, Match[Left[n]], Match[Right[n]])
    OBVIOUS
  <2> HIDE DEF B
  <2> QED BY <1>5, <1>6, <2>1

(* The child positions that a kind calls are nodes.                        *)
LEMMA UsedNodes ==
  ASSUME TypeOK, TreeInv, NEW n \in Node
  PROVE  /\ kind[n] \in Binary \cup Unary => Left[n] \in Node /\ Uses(n, Left[n])
         /\ kind[n] \in Binary => Right[n] \in Node /\ Uses(n, Right[n])
         /\ \A c : Uses(n, c) => c \in Node
         /\ \A c \in Nat : RightEntry(n, c) \in Nat
         /\ \A c \in Nat : Chosen(n, c) \in {Left[n], Right[n]}
<1>1. \A c : Uses(n, c) => c \in Node
  BY DEF Uses, TreeInv, HasChildren
<1>2. ASSUME NEW c \in Nat
      PROVE  RightEntry(n, c) \in Nat
  BY MatchUnfold DEF RightEntry, TreeInv, HasChildren, Binary, Answers
<1> QED BY <1>1, <1>2 DEF Uses, TreeInv, HasChildren, Chosen

RouteAt(n, c) ==
  /\ Match[n][c].ret # "Incomplete" => Route[n][c] = {}
  /\ Match[n][c].ret = "Incomplete" =>
       /\ kind[n] = "And" =>
            Route[n][c] = {n} \cup Route[Left[n]][c] \cup Route[Right[n]][RightEntry(n, c)]
       /\ kind[n] \in {"Or", "OrStrict"} => Route[n][c] = {n} \cup Route[Chosen(n, c)][c]
       /\ kind[n] \in Unary => Route[n][c] = {n} \cup Route[Left[n]][c]
       /\ kind[n] \notin Binary \cup Unary => Route[n][c] = {n}

(* Route is what its recursive definition says.                            *)
LEMMA RouteUnfold ==
  ASSUME TypeOK, TreeInv
  PROVE  Route \in [Node -> [Nat -> SUBSET Node]] /\ \A n \in Node, c \in Nat : RouteAt(n, c)
<1> DEFINE V == [Nat -> SUBSET Node]
           B(F) ==
             [n \in Node |-> [c \in Nat |->
                IF Match[n][c].ret # "Incomplete" THEN {}
                 ELSE {n} \cup
                      CASE kind[n] = "And" -> F[Left[n]][c] \cup F[Right[n]][RightEntry(n, c)]
                        [] kind[n] \in {"Or", "OrStrict"} -> F[Chosen(n, c)][c]
                        [] kind[n] \in Unary -> F[Left[n]][c]
                        [] OTHER -> {}]]
           T == [F \in [Node -> V] |-> B(F)]
<1>1. [c \in Nat |-> {}] \in V
  OBVIOUS
<1>2. ASSUME NEW F, NEW H, NEW n \in Node,
             \A c \in Node : Uses(n, c) => F[c] = H[c]
      PROVE  B(F)[n] = B(H)[n]
  <2>1. /\ kind[n] \in Binary \cup Unary => F[Left[n]] = H[Left[n]]
        /\ kind[n] \in Binary => F[Right[n]] = H[Right[n]]
        /\ \A c \in Nat : Chosen(n, c) \in {Left[n], Right[n]}
    BY <1>2, UsedNodes
  <2> QED BY <2>1 DEF Binary, Unary
<1>3. ASSUME NEW F \in [Node -> V]
      PROVE  B(F) \in [Node -> V]
  <2> SUFFICES ASSUME NEW n \in Node, NEW c \in Nat
               PROVE  B(F)[n][c] \in SUBSET Node
    OBVIOUS
  <2>1. /\ kind[n] \in Binary \cup Unary => F[Left[n]][c] \in SUBSET Node
        /\ kind[n] \in Binary => /\ F[Right[n]][RightEntry(n, c)] \in SUBSET Node
                                 /\ F[Chosen(n, c)][c] \in SUBSET Node
    BY UsedNodes DEF Binary
  <2> QED BY <2>1 DEF Binary, Unary
<1>4. PICK f \in [Node -> V] : f = B(f)
  <2> HIDE DEF B, V
  <2>1. T \in [[Node -> V] -> [Node -> V]]
    BY <1>3
  <2>2. ASSUME NEW F \in [Node -> V], NEW H \in [Node -> V], NEW n \in Node,
               \A c \in Node : Uses(n, c) => F[c] = H[c]
        PROVE  T[F][n] = T[H][n]
    <3>1. B(F)[n] = B(H)[n]
      BY <1>2, <2>2
    <3> QED BY <3>1
  <2>3. \E f \in [Node -> V] : f = T[f]
    <3> HIDE DEF T
    <3>1. Looks(T, V)
      BY <2>2 DEF Looks
    <3>2. V # {}
      BY <1>1
    <3> QED BY <2>1, <3>1, <3>2, TreeFixpoint DEF HasFixpoint
  <2> QED BY <2>3
<1>5. Route = B(Route)
  <2>1. f = B(f)
    BY <1>4
  <2> QED BY <2>1 DEF Route
<1>6. Route = f
  <2>1. Route = [n \in Node |-> Route[n]] /\ f = [n \in Node |-> f[n]]
    BY <1>5
  <2>2. ASSUME NEW n \in Node, \A c \in Node : Uses(n, c) => Route[c] = f[c]
        PROVE  Route[n] = f[n]
    <3> HIDE DEF B, V
    <3>1. B(Route)[n] = B(f)[n]
      BY <1>2, <2>2
    <3> QED BY <1>4, <1>5, <3>1
  <2> HIDE DEF B, V
  <2> QED BY <2>1, <2>2, TreeUnique
<1>7. ASSUME NEW n \in Node, NEW c \in Nat
      PROVE  RouteAt(n, c)
  <2>1. Route[n][c] = B(Route)[n][c]
    <3> HIDE DEF B
    <3> QED BY <1>5
  <2> QED BY <2>1, KindAssumption DEF RouteAt, Binary, Unary, Parsing, Body, Errs
<1> QED BY <1>6, <1>7

ValueAt(n, c) ==
  /\ kind[n] = "And" => Value[n][c] = Value[Left[n]][c] \o Value[Right[n]][RightEntry(n, c)]
  /\ kind[n] \in {"Or", "OrStrict"} => Value[n][c] = Value[Chosen(n, c)][c]
  /\ kind[n] = "MapErr" => Value[n][c] = Value[Left[n]][c]
  /\ kind[n] = "Recover" => /\ Errs(Left[n]) => Value[n][c] = <<n>>
                            /\ ~Errs(Left[n]) => Value[n][c] = Value[Left[n]][c]
  /\ kind[n] \in Segment \cup {"Eos"} => Value[n][c] = <<>>
  /\ kind[n] \in Parsing \cup Body \cup {"Future", "AndThen", "Map"} => Value[n][c] = <<n>>

(* Value is what its recursive definition says.                            *)
LEMMA ValueUnfold ==
  ASSUME TypeOK, TreeInv
  PROVE  Value \in [Node -> [Nat -> Seq(Node)]] /\ \A n \in Node, c \in Nat : ValueAt(n, c)
<1> DEFINE V == [Nat -> Seq(Node)]
           B(F) ==
             [n \in Node |-> [c \in Nat |->
                CASE kind[n] = "And" -> F[Left[n]][c] \o F[Right[n]][RightEntry(n, c)]
                   [] kind[n] \in {"Or", "OrStrict"} -> F[Chosen(n, c)][c]
                   [] kind[n] = "MapErr"  -> F[Left[n]][c]
                   [] kind[n] = "Recover" -> IF ret[Left[n]] \in {"Rejected", "Failed"}
                                             THEN <<n>> ELSE F[Left[n]][c]
                   [] kind[n] \in Segment \cup {"Eos"} -> <<>>
                   [] OTHER -> <<n>>]]
           T == [F \in [Node -> V] |-> B(F)]
<1>1. [c \in Nat |-> <<>>] \in V
  OBVIOUS
<1>2. ASSUME NEW F, NEW H, NEW n \in Node,
             \A c \in Node : Uses(n, c) => F[c] = H[c]
      PROVE  B(F)[n] = B(H)[n]
  <2>1. /\ kind[n] \in Binary \cup Unary => F[Left[n]] = H[Left[n]]
        /\ kind[n] \in Binary => F[Right[n]] = H[Right[n]]
        /\ \A c \in Nat : Chosen(n, c) \in {Left[n], Right[n]}
    BY <1>2, UsedNodes
  <2> QED BY <2>1 DEF Binary, Unary
<1>3. ASSUME NEW F \in [Node -> V]
      PROVE  B(F) \in [Node -> V]
  <2> SUFFICES ASSUME NEW n \in Node, NEW c \in Nat
               PROVE  B(F)[n][c] \in Seq(Node)
    OBVIOUS
  <2>1. /\ kind[n] \in Binary \cup Unary => F[Left[n]][c] \in Seq(Node)
        /\ kind[n] \in Binary => /\ F[Right[n]][RightEntry(n, c)] \in Seq(Node)
                                 /\ F[Chosen(n, c)][c] \in Seq(Node)
    BY UsedNodes DEF Binary
  <2> QED BY <2>1 DEF Binary, Unary
<1>4. PICK f \in [Node -> V] : f = B(f)
  <2> HIDE DEF B, V
  <2>1. T \in [[Node -> V] -> [Node -> V]]
    BY <1>3
  <2>2. ASSUME NEW F \in [Node -> V], NEW H \in [Node -> V], NEW n \in Node,
               \A c \in Node : Uses(n, c) => F[c] = H[c]
        PROVE  T[F][n] = T[H][n]
    <3>1. B(F)[n] = B(H)[n]
      BY <1>2, <2>2
    <3> QED BY <3>1
  <2>3. \E f \in [Node -> V] : f = T[f]
    <3> HIDE DEF T
    <3>1. Looks(T, V)
      BY <2>2 DEF Looks
    <3>2. V # {}
      BY <1>1
    <3> QED BY <2>1, <3>1, <3>2, TreeFixpoint DEF HasFixpoint
  <2> QED BY <2>3
<1>5. Value = B(Value)
  <2>1. f = B(f)
    BY <1>4
  <2> QED BY <2>1, ZenonT(60) DEF Value
<1>6. Value = f
  <2>1. Value = [n \in Node |-> Value[n]] /\ f = [n \in Node |-> f[n]]
    BY <1>5
  <2>2. ASSUME NEW n \in Node, \A c \in Node : Uses(n, c) => Value[c] = f[c]
        PROVE  Value[n] = f[n]
    <3> HIDE DEF B, V
    <3>1. B(Value)[n] = B(f)[n]
      BY <1>2, <2>2
    <3> QED BY <1>4, <1>5, <3>1
  <2> HIDE DEF B, V
  <2> QED BY <2>1, <2>2, TreeUnique
<1>7. ASSUME NEW n \in Node, NEW c \in Nat
      PROVE  ValueAt(n, c)
  <2>1. Value[n][c] = B(Value)[n][c]
    <3> HIDE DEF B
    <3> QED BY <1>5
  <2> QED BY <2>1, KindAssumption DEF ValueAt, Binary, Unary, Parsing, Body, Errs
<1> QED BY <1>6, <1>7

(* Below is what its recursive definition says.                            *)
LEMMA BelowUnfold ==
  ASSUME TypeOK, TreeInv
  PROVE  /\ Below \in [Node -> SUBSET Node]
         /\ \A n \in Node : Below[n] =
              {n} \cup (IF kind[n] \in Binary \cup Unary THEN Below[Left[n]] ELSE {})
                   \cup (IF kind[n] \in Binary THEN Below[Right[n]] ELSE {})
<1> DEFINE V == SUBSET Node
           B(F) ==
             [n \in Node |->
                {n} \cup (IF kind[n] \in Binary \cup Unary THEN F[Left[n]] ELSE {})
                     \cup (IF kind[n] \in Binary THEN F[Right[n]] ELSE {})]
           T == [F \in [Node -> V] |-> B(F)]
<1>1. {} \in V
  OBVIOUS
<1>2. ASSUME NEW F, NEW H, NEW n \in Node,
             \A c \in Node : Uses(n, c) => F[c] = H[c]
      PROVE  B(F)[n] = B(H)[n]
  <2>1. /\ kind[n] \in Binary \cup Unary => F[Left[n]] = H[Left[n]]
        /\ kind[n] \in Binary => F[Right[n]] = H[Right[n]]
        /\ \A c \in Nat : Chosen(n, c) \in {Left[n], Right[n]}
    BY <1>2, UsedNodes
  <2> QED BY <2>1 DEF Binary, Unary
<1>3. ASSUME NEW F \in [Node -> V]
      PROVE  B(F) \in [Node -> V]
  <2> SUFFICES ASSUME NEW n \in Node
               PROVE  B(F)[n] \in SUBSET Node
    OBVIOUS
  <2>1. /\ kind[n] \in Binary \cup Unary => F[Left[n]] \in SUBSET Node
        /\ kind[n] \in Binary => F[Right[n]] \in SUBSET Node
    BY UsedNodes
  <2> QED BY <2>1 DEF Binary, Unary
<1>4. PICK f \in [Node -> V] : f = B(f)
  <2> HIDE DEF B, V
  <2>1. T \in [[Node -> V] -> [Node -> V]]
    BY <1>3
  <2>2. ASSUME NEW F \in [Node -> V], NEW H \in [Node -> V], NEW n \in Node,
               \A c \in Node : Uses(n, c) => F[c] = H[c]
        PROVE  T[F][n] = T[H][n]
    <3>1. B(F)[n] = B(H)[n]
      BY <1>2, <2>2
    <3> QED BY <3>1
  <2>3. \E f \in [Node -> V] : f = T[f]
    <3> HIDE DEF T
    <3>1. Looks(T, V)
      BY <2>2 DEF Looks
    <3>2. V # {}
      BY <1>1
    <3> QED BY <2>1, <3>1, <3>2, TreeFixpoint DEF HasFixpoint
  <2> QED BY <2>3
<1>5. Below = B(Below)
  <2>1. f = B(f)
    BY <1>4
  <2> QED BY <2>1 DEF Below
<1>6. Below = f
  <2>1. Below = [n \in Node |-> Below[n]] /\ f = [n \in Node |-> f[n]]
    BY <1>5
  <2>2. ASSUME NEW n \in Node, \A c \in Node : Uses(n, c) => Below[c] = f[c]
        PROVE  Below[n] = f[n]
    <3> HIDE DEF B, V
    <3>1. B(Below)[n] = B(f)[n]
      BY <1>2, <2>2
    <3> QED BY <1>4, <1>5, <3>1
  <2> HIDE DEF B, V
  <2> QED BY <2>1, <2>2, TreeUnique
<1> QED
  <2>1. \A n \in Node : B(Below)[n] =
        {n} \cup (IF kind[n] \in Binary \cup Unary THEN Below[Left[n]] ELSE {})
             \cup (IF kind[n] \in Binary THEN Below[Right[n]] ELSE {})
    OBVIOUS
  <2> HIDE DEF B
  <2> QED BY <1>5, <1>6, <2>1

(* Alternatives is what its recursive definition says.                     *)
LEMMA AlternativesUnfold ==
  ASSUME TypeOK, TreeInv
  PROVE  /\ Alternatives \in [Node -> Seq(Node)]
         /\ \A n \in Node : Alternatives[n] =
              IF kind[n] = "Or" THEN Alternatives[Left[n]] \o Alternatives[Right[n]] ELSE <<n>>
<1> DEFINE V == Seq(Node)
           B(F) ==
             [n \in Node |->
                IF kind[n] = "Or" THEN F[Left[n]] \o F[Right[n]] ELSE <<n>>]
           T == [F \in [Node -> V] |-> B(F)]
<1>1. <<>> \in V
  OBVIOUS
<1>2. ASSUME NEW F, NEW H, NEW n \in Node,
             \A c \in Node : Uses(n, c) => F[c] = H[c]
      PROVE  B(F)[n] = B(H)[n]
  <2>1. /\ kind[n] \in Binary \cup Unary => F[Left[n]] = H[Left[n]]
        /\ kind[n] \in Binary => F[Right[n]] = H[Right[n]]
        /\ \A c \in Nat : Chosen(n, c) \in {Left[n], Right[n]}
    BY <1>2, UsedNodes
  <2> QED BY <2>1 DEF Binary, Unary
<1>3. ASSUME NEW F \in [Node -> V]
      PROVE  B(F) \in [Node -> V]
  <2> SUFFICES ASSUME NEW n \in Node
               PROVE  B(F)[n] \in Seq(Node)
    OBVIOUS
  <2>1. /\ kind[n] \in Binary \cup Unary => F[Left[n]] \in Seq(Node)
        /\ kind[n] \in Binary => F[Right[n]] \in Seq(Node)
    BY UsedNodes
  <2> QED BY <2>1 DEF Binary, Unary
<1>4. PICK f \in [Node -> V] : f = B(f)
  <2> HIDE DEF B, V
  <2>1. T \in [[Node -> V] -> [Node -> V]]
    BY <1>3
  <2>2. ASSUME NEW F \in [Node -> V], NEW H \in [Node -> V], NEW n \in Node,
               \A c \in Node : Uses(n, c) => F[c] = H[c]
        PROVE  T[F][n] = T[H][n]
    <3>1. B(F)[n] = B(H)[n]
      BY <1>2, <2>2
    <3> QED BY <3>1
  <2>3. \E f \in [Node -> V] : f = T[f]
    <3> HIDE DEF T
    <3>1. Looks(T, V)
      BY <2>2 DEF Looks
    <3>2. V # {}
      BY <1>1
    <3> QED BY <2>1, <3>1, <3>2, TreeFixpoint DEF HasFixpoint
  <2> QED BY <2>3
<1>5. Alternatives = B(Alternatives)
  <2>1. f = B(f)
    BY <1>4
  <2> QED BY <2>1 DEF Alternatives
<1>6. Alternatives = f
  <2>1. Alternatives = [n \in Node |-> Alternatives[n]] /\ f = [n \in Node |-> f[n]]
    BY <1>5
  <2>2. ASSUME NEW n \in Node, \A c \in Node : Uses(n, c) => Alternatives[c] = f[c]
        PROVE  Alternatives[n] = f[n]
    <3> HIDE DEF B, V
    <3>1. B(Alternatives)[n] = B(f)[n]
      BY <1>2, <2>2
    <3> QED BY <1>4, <1>5, <3>1
  <2> HIDE DEF B, V
  <2> QED BY <2>1, <2>2, TreeUnique
<1> QED
  <2>1. \A n \in Node : B(Alternatives)[n] =
        IF kind[n] = "Or" THEN Alternatives[Left[n]] \o Alternatives[Right[n]] ELSE <<n>>
    OBVIOUS
  <2> HIDE DEF B
  <2> QED BY <1>5, <1>6, <2>1

-----------------------------------------------------------------------------
(* Where the preflight of each node begins.                                *)

(* Parent(c) is the one node that c is a child of.                         *)
LEMMA ParentOf ==
  ASSUME NEW n \in Node, NEW c \in Node, c \in {Left[n], Right[n]}
  PROVE  Parent(c) = n /\ c # Root /\ \A m \in Node : c \in {Left[m], Right[m]} => m = n
<1>1. \A m \in Node : c \in {Left[m], Right[m]} => m = n
  BY TreeAssumption
<1> QED BY <1>1, TreeAssumption DEF Parent

(* Where the child c of n begins if n begins at v.                         *)
Down(n, c, v) == IF c = Left[n] THEN v ELSE RightEntry(n, v)

(* Entry descends from the root: the first child of a node begins where    *)
(* the node does, the second where RightEntry says.                        *)
LEMMA EntryUnfold ==
  ASSUME TypeOK, TreeInv
  PROVE  /\ Entry \in [Node -> Nat]
         /\ Entry[Root] = 0
         /\ \A n, c \in Node : c \in {Left[n], Right[n]} => Entry[c] = Down(n, c, Entry[n])
<1> DEFINE
      Closed(C) == /\ <<Root, 0>> \in C
                   /\ \A n, c \in Node, v \in Nat :
                        c \in {Left[n], Right[n]} /\ <<n, v>> \in C => <<c, Down(n, c, v)>> \in C
      R == {p \in Node \X Nat : \A C \in SUBSET (Node \X Nat) : Closed(C) => p \in C}
      S == {n \in Node : \E v \in Nat : \A w \in Nat : <<n, w>> \in R <=> w = v}
      Derived(m, w) == \E n \in Node, v \in Nat :
                         m \in {Left[n], Right[n]} /\ <<n, v>> \in R /\ w = Down(n, m, v)
<1>1. \A n, c \in Node, v \in Nat : Down(n, c, v) \in Nat
  BY UsedNodes DEF Down
<1>2. Closed(R)
  <2>1. <<Root, 0>> \in R
    BY TreeAssumption
  <2>2. ASSUME NEW n \in Node, NEW c \in Node, NEW v \in Nat,
               c \in {Left[n], Right[n]}, <<n, v>> \in R
        PROVE  <<c, Down(n, c, v)>> \in R
    BY <1>1, <2>2
  <2> HIDE DEF R
  <2> QED BY <2>1, <2>2
<1>3. ASSUME NEW m \in Node, NEW w \in Nat, <<m, w>> \in R, ~(m = Root /\ w = 0)
      PROVE  Derived(m, w)
  <2> SUFFICES ASSUME \A n \in Node, v \in Nat :
                        m \in {Left[n], Right[n]} /\ <<n, v>> \in R => w # Down(n, m, v)
               PROVE  FALSE
    OBVIOUS
  <2> DEFINE C == R \ {<<m, w>>}
  <2>1. C \in SUBSET (Node \X Nat) /\ <<m, w>> \notin C
    OBVIOUS
  <2>2. Closed(C)
    <3> HIDE DEF R
    <3> QED BY <1>2, <1>3
  <2> HIDE DEF C, Closed
  <2> QED BY <1>3, <2>1, <2>2
<1>4. S = Node
  <2>1. Root \in S
    <3>1. \A w \in Nat : <<Root, w>> \in R <=> w = 0
      <4>1. \A w : ~Derived(Root, w)
        BY TreeAssumption
      <4> HIDE DEF R, Derived
      <4> QED BY <1>2, <1>3, <4>1, TreeAssumption
    <3> HIDE DEF R
    <3> QED BY <3>1, TreeAssumption
  <2>2. ASSUME NEW n \in S, NEW c \in Node, c \in {Left[n], Right[n]}
        PROVE  c \in S
    <3> HIDE DEF R
    <3>1. PICK v \in Nat : \A w \in Nat : <<n, w>> \in R <=> w = v
      OBVIOUS
    <3>2. <<c, Down(n, c, v)>> \in R
      BY <1>2, <2>2, <3>1
    <3>3. ASSUME NEW w \in Nat, <<c, w>> \in R
          PROVE  w = Down(n, c, v)
      <4>1. PICK m \in Node, x \in Nat :
              c \in {Left[m], Right[m]} /\ <<m, x>> \in R /\ w = Down(m, c, x)
        <5>1. Derived(c, w)
          <6> HIDE DEF R, Derived
          <6> QED BY <1>3, <2>2, <3>3, ParentOf
        <5> QED BY <5>1
      <4>2. m = n
        BY <2>2, <4>1, ParentOf
      <4> QED BY <3>1, <4>1, <4>2
    <3> HIDE DEF Closed
    <3>4. Down(n, c, v) \in Nat /\ \A w \in Nat : <<c, w>> \in R <=> w = Down(n, c, v)
      BY <1>1, <3>2, <3>3
    <3> QED BY <3>4
  <2>3. S \in SUBSET Node
    OBVIOUS
  <2> HIDE DEF S
  <2>4. \A n \in S : {Left[n], Right[n]} \cap Node \subseteq S
    BY <2>2
  <2> QED BY <2>1, <2>3, <2>4, TreeAssumption
<1> DEFINE f == [n \in Node |-> CHOOSE v \in Nat : <<n, v>> \in R]
<1> HIDE DEF R
<1>5. \A n \in Node : f[n] \in Nat /\ \A w \in Nat : <<n, w>> \in R <=> w = f[n]
  <2> TAKE n \in Node
  <2>1. PICK v \in Nat : \A w \in Nat : <<n, w>> \in R <=> w = v
    BY <1>4
  <2>2. \E w \in Nat : <<n, w>> \in R
    BY <2>1
  <2>3. f[n] \in Nat /\ <<n, f[n]>> \in R
    BY <2>2
  <2> QED BY <2>1, <2>3
<1>6. f \in [Node -> Nat]
  BY <1>5
<1>7. f[Root] = 0
  <2> HIDE DEF f
  <2> QED BY <1>2, <1>5, TreeAssumption
<1>8. ASSUME NEW n \in Node, NEW c \in Node, c \in {Left[n], Right[n]}
      PROVE  f[c] = Down(n, c, f[n])
  <2> HIDE DEF f
  <2>1. <<c, Down(n, c, f[n])>> \in R
    BY <1>2, <1>5, <1>8
  <2> QED BY <1>1, <1>5, <2>1
<1> DEFINE D(F) == [n \in Node |->
                      IF n = Root THEN 0
                      ELSE IF n = Left[Parent(n)] THEN F[Parent(n)]
                           ELSE RightEntry(Parent(n), F[Parent(n)])]
           Q == {n \in Node : n = Root \/ \E p \in Node : n \in {Left[p], Right[p]}}
<1>9. Q = Node
  <2>1. Q \in SUBSET Node /\ Root \in Q /\ \A n \in Q : {Left[n], Right[n]} \cap Node \subseteq Q
    BY TreeAssumption
  <2> HIDE DEF Q
  <2> QED BY <2>1, TreeAssumption
<1>10. ASSUME NEW n \in Node, n # Root
       PROVE  Parent(n) \in Node /\ n \in {Left[Parent(n)], Right[Parent(n)]}
  BY <1>9, <1>10 DEF Parent
<1>11. f = D(f)
  <2>1. \A n \in Node : f[n] = D(f)[n]
    <3> HIDE DEF f
    <3> QED BY <1>7, <1>8, <1>10 DEF Down
  <2> HIDE DEF D
  <2>2. f = [n \in Node |-> f[n]]
    <3> HIDE DEF f
    <3> QED BY <1>6
  <2>3. D(f) = [n \in Node |-> D(f)[n]]
    BY DEF D
  <2> HIDE DEF f
  <2> QED BY <2>1, <2>2, <2>3
<1>12. Entry = D(Entry)
  <2> HIDE DEF f
  <2>1. f = D(f)
    BY <1>11
  <2> QED BY <2>1 DEF Entry
<1>13. /\ Entry[Root] = 0
       /\ \A n, c \in Node : c \in {Left[n], Right[n]} => Entry[c] = Down(n, c, Entry[n])
  <2>1. Entry[Root] = D(Entry)[Root] /\ \A n \in Node : Entry[n] = D(Entry)[n]
    <3> HIDE DEF D
    <3> QED BY <1>12
  <2> QED BY <2>1, ParentOf, TreeAssumption DEF Down
<1>14. Entry \in [Node -> Nat]
  <2> DEFINE P == {n \in Node : Entry[n] \in Nat}
  <2>1. /\ P \in SUBSET Node /\ Root \in P
        /\ \A n \in P : {Left[n], Right[n]} \cap Node \subseteq P
    BY <1>1, <1>13, TreeAssumption
  <2>2. P = Node
    <3> HIDE DEF P
    <3> QED BY <2>1, TreeAssumption
  <2>3. \A n \in Node : Entry[n] \in Nat
    BY <2>2
  <2>4. Entry = [n \in Node |-> Entry[n]]
    BY <1>12
  <2> QED BY <2>3, <2>4
<1> QED BY <1>13, <1>14

-----------------------------------------------------------------------------
(* Control. The calls of preflight and poll_action form one stack.         *)

(* A child that runs was called by its parent, which awaits its return.    *)
LEMMA Stack ==
  ASSUME Inv, NEW n \in Node, NEW c \in Node, c \in {Left[n], Right[n]}, ~Idle(c)
  PROVE  Awaits(n, c) /\ Uses(n, c)
<1>1. NodeInv(n) /\ ret[n] \in Result /\ frame[n] \in Frame
  BY DEF Inv, TypeOK
<1>2. Left[n] # Right[n] \/ Left[n] \notin Node
  BY TreeAssumption
<1>3. CASE kind[n] \notin Binary \cup Unary
  BY <1>1, <1>3 DEF NodeInv, LeafInv
<1>4. CASE kind[n] = "And"
  BY <1>1, <1>2, <1>4 DEF NodeInv, AndInv, Awaits, Uses, Binary, Frame, Result
<1>5. CASE kind[n] \in {"Or", "OrStrict"}
  BY <1>1, <1>2, <1>5 DEF NodeInv, OrInv, Awaits, Uses, Binary, Frame, Result
<1>6. CASE kind[n] \in Unary
  BY <1>1, <1>2, <1>6 DEF NodeInv, UnaryInv, Awaits, Uses, Unary, Frame, Result
<1> QED BY <1>3, <1>4, <1>5, <1>6 DEF Binary

(* The same of all nodes.                                                  *)
Stacked == \A n, c \in Node : c \in {Left[n], Right[n]} /\ ~Idle(c) => Awaits(n, c)

LEMMA StackedNow == Inv => Stacked
BY Stack DEF Stacked

(* The same after a step.                                                  *)
LEMMA StackedNext == Inv' => Stacked'
BY StackedNow, PTL

(* Only the node that runs can take a step.                                *)
LEMMA Running ==
  ASSUME Inv, NEW n \in Node, NodeStep(n)
  PROVE  AtControl(n) /\ ~Idle(n)
<1>1. CASE LeafStep(n)
  BY <1>1 DEF LeafStep, OneshotPreflight, DefaultPreflight, FuturePoll, RawPoll,
              ReceiveAllTake, ReceiveAllPoll, Enters, AtControl
<1>2. CASE AndStep(n)
  <2>1. Left[n] \in Node /\ Right[n] \in Node
    BY <1>2, Children DEF Binary, AndStep, AndPreflight, AndPreflightLeft, AndPreflightRight,
       AndPollLeft, AndPollRight, AndPolledLeft, AndPolledRight, AndPolled, AndTakeItem,
       Enters, Resumes
  <2> QED
    BY <1>2, <2>1 DEF AndStep, AndPreflight, AndPreflightLeft, AndPreflightRight,
       AndPollLeft, AndPollRight, AndPolledLeft, AndPolledRight, AndPolled, AndTakeItem,
       Enters, Resumes, AtControl, Awaits
<1>3. CASE OrStep(n)
  <2>1. Left[n] \in Node /\ Right[n] \in Node
    BY <1>3, Children DEF Binary, OrStep, OrPreflight, OrPreflightLeft, OrPreflightRight,
       OrStrictPreflight, OrStrictPreflightLeft, OrStrictPreflightRight,
       OrPollLeft, OrPollRight, OrPoll, OrPolledLeft, OrPolledRight, OrPolled, Enters, Resumes
  <2> QED
    BY <1>3, <2>1 DEF OrStep, OrPreflight, OrPreflightLeft, OrPreflightRight,
       OrStrictPreflight, OrStrictPreflightLeft, OrStrictPreflightRight,
       OrPollLeft, OrPollRight, OrPoll, OrPolledLeft, OrPolledRight, OrPolled,
       Enters, Resumes, AtControl, Awaits
<1>4. CASE UnaryStep(n)
  <2>1. Left[n] \in Node
    BY <1>4, Children DEF UnaryStep, UnaryPreflight, UnaryPoll, InFlightPoll, MapReturn,
       AndThenPreflightReturn, AndThenPolled, RecoverPreflightReturn, RecoverPolled,
       Enters, Resumes, Unary
  <2> QED
    BY <1>4, <2>1 DEF UnaryStep, UnaryPreflight, UnaryPoll, InFlightPoll, MapReturn,
       AndThenPreflightReturn, AndThenPolled, RecoverPreflightReturn, RecoverPolled,
       Enters, Resumes, AtControl, Awaits
<1> QED BY <1>1, <1>2, <1>3, <1>4 DEF NodeStep

(* It passes control to the child it calls or to the node that awaits it.  *)
LEMMA ControlMoves ==
  ASSUME Inv, Single, NEW n \in Node, AtControl(n), Local(n), NEW m \in Node, m # n, AtControl(m)'
  PROVE  \/ Calls(n, m)
         \/ Awaits(m, n) /\ Idle(n)' /\ frame'[m] = frame[m]
<1>1. frame'[m] = frame[m] \/ Calls(n, m)
  BY DEF Local
<1>2. ~AtControl(m)
  BY DEF Single
<1>3. CASE frame'[m] = frame[m]
  <2>1. PICK d \in Node : Awaits(m, d) /\ Idle(d)' /\ ~Idle(d)
    BY <1>2, <1>3 DEF AtControl, Awaits
  <2>2. d = n
    BY <2>1 DEF Local, Calls
  <2> QED BY <1>3, <2>1, <2>2
<1> QED BY <1>1, <1>3

(* One node has control after a step as before it.                         *)
LEMMA SingleStep ==
  ASSUME Inv, Single, NEW n \in Node, NodeStep(n)
  PROVE  Single'
<1>1. Local(n) /\ Inv' /\ Shape(n) /\ AtControl(n) /\ ~Idle(n) /\ TypeOK
  BY LNodeStep, ShapeOf, Running DEF Inv
<1>2. ASSUME NEW m \in Node, AtControl(m)', m # n
      PROVE  \/ Calls(n, m)
             \/ Awaits(m, n) /\ Idle(n)' /\ frame'[m] = frame[m]
  BY <1>1, <1>2, ControlMoves
<1>3. ASSUME NEW m \in Node, m # n, Calls(n, m)
      PROVE  ~AtControl(n)' /\ ~Idle(n)'
  <2>1. (~Idle(m))' /\ m \in {Left[n], Right[n]}
    BY <1>3 DEF Calls
  <2>2. Awaits(n, m)'
    BY <1>1, <2>1, StackedNext DEF Stacked
  <2> QED BY <2>1, <2>2, TreeAssumption DEF Awaits, AtControl
<1>4. ASSUME NEW m \in Node, NEW d \in Node, m # n, d # n, Calls(n, m), Calls(n, d)
      PROVE  m = d
  BY <1>1, <1>4, <1>3 DEF Shape, Return, Calling, Call, Again, Calls, TypeOK
<1>5. ASSUME NEW m \in Node, NEW d \in Node, m # n, d # n, Awaits(m, n), Awaits(d, n)
      PROVE  m = d
  BY <1>5, ParentOf DEF Awaits
<1>6. SUFFICES ASSUME NEW m \in Node, NEW d \in Node, AtControl(m)', AtControl(d)', m # d
               PROVE  FALSE
  BY DEF Single
<1>7. CASE m # n /\ d # n
  BY <1>2, <1>3, <1>4, <1>5, <1>6, <1>7
<1>8. (~AtControl(n))' \/ ~Idle(n)'
  BY TreeAssumption DEF AtControl, Awaits
<1>9. CASE m = n \/ d = n
  BY <1>2, <1>3, <1>6, <1>8, <1>9
<1> QED BY <1>7, <1>9

(* The endpoints and the request stay as they are created, and so does     *)
(* what is computed from them: the answers, the entries and the choices.   *)
LEMMA MatchRigid == ASSUME UNCHANGED <<kind, path, accept>> PROVE Match' = Match
BY DEF Match, Decide, Verdict, Popped, IsMatch, Keep, Answer

LEMMA EntryRigid == ASSUME UNCHANGED <<kind, path, accept>> PROVE Entry' = Entry
BY MatchRigid DEF Entry, RightEntry

LEMMA ChosenRigid ==
  ASSUME UNCHANGED <<kind, path, accept>>
  PROVE  \A n, c : Chosen(n, c)' = Chosen(n, c) /\ RightEntry(n, c)' = RightEntry(n, c)
BY MatchRigid DEF Chosen, RightEntry, IsMatch, Keep

(* The recursive definition of Value in the next state.                    *)
LEMMA ValueNext ==
  (TypeOK /\ TreeInv)'
    => (/\ \A n \in Node, c \in Nat : ValueAt(n, c)
        /\ Value \in [Node -> [Nat -> Seq(Node)]])'
<1>1. TypeOK /\ TreeInv => /\ \A n \in Node, c \in Nat : ValueAt(n, c)
                          /\ Value \in [Node -> [Nat -> Seq(Node)]]
  BY ValueUnfold
<1> QED BY <1>1, PTL

(* The value of a node depends on the results of the nodes below it only.  *)
LEMMA ValueKept ==
  ASSUME UNCHANGED <<kind, path, accept>>, TypeOK, TreeInv, TypeOK', TreeInv', NEW STATE A,
         \A n \in Node, c \in Node : n \in A /\ Uses(n, c) => c \in A /\ ret'[c] = ret[c]
  PROVE  \A n \in Node, c \in Nat : n \in A => Value'[n][c] = Value[n][c]
<1> DEFINE S == {n \in Node : n \in A => \A c \in Nat : Value'[n][c] = Value[n][c]}
<1>1. ASSUME NEW n \in Node, \A c \in Node : Uses(n, c) => c \in S
      PROVE  n \in S
  <2> SUFFICES ASSUME NEW c \in Nat, n \in A PROVE Value'[n][c] = Value[n][c]
    OBVIOUS
  <2>1. kind' = kind /\ Match' = Match /\ Chosen(n, c)' = Chosen(n, c)
        /\ RightEntry(n, c)' = RightEntry(n, c)
    BY MatchRigid, ChosenRigid
  <2>2. /\ kind[n] \in Binary \cup Unary => Value'[Left[n]][c] = Value[Left[n]][c]
                                            /\ ret'[Left[n]] = ret[Left[n]]
        /\ kind[n] \in Binary =>
             /\ Value'[Right[n]][RightEntry(n, c)] = Value[Right[n]][RightEntry(n, c)]
             /\ Value'[Chosen(n, c)][c] = Value[Chosen(n, c)][c]
    BY <1>1, UsedNodes DEF Binary
  <2> HIDE DEF S
  <2>3. ValueAt(n, c) /\ ValueAt(n, c)'
    BY ValueUnfold, ValueNext
  <2> QED BY <2>1, <2>2, <2>3, KindCases DEF ValueAt, Errs, Binary, Unary
<1>2. S \in SUBSET Node
  OBVIOUS
<1>3. S = Node
  <2> HIDE DEF S
  <2> QED BY <1>1, <1>2, BottomUp
<1> QED BY <1>3

(* What the preflight of n owes, from what those of its children owe.      *)
DueAt(n) ==
  LET l == Due(Left[n])  r == Due(Right[n])  c == Entry[n]
  IN /\ Due(n) \in Answers /\ c \in Nat
     /\ kind[n] \in Binary \cup Unary => l \in Answers /\ Entry[Left[n]] = c
     /\ kind[n] \in Binary => r \in Answers
     /\ kind[n] \in Segment => Due(n) = Verdict(c < Len(path) /\ path[c + 1] = kind[n], Popped(c))
     /\ kind[n] = "Eos"     => Due(n) = Verdict(c = Len(path), Popped(c))
     /\ kind[n] = "Param"   => Due(n) = Verdict(c < Len(path) /\ accept[n], Popped(c))
     /\ kind[n] = "Remains" => Due(n) = Verdict(accept[n], Len(path))
     /\ kind[n] = "Guard"   => Due(n) = Verdict(accept[n], c)
     /\ kind[n] \in Body \cup {"Future"} => Due(n) = Answer("Incomplete", c)
     /\ kind[n] = "And" =>
          /\ Entry[Right[n]] = l.pos
          /\ Due(n) = IF ~IsMatch(l) THEN l
                      ELSE IF ~IsMatch(r) THEN r ELSE Answer("Incomplete", r.pos)
     /\ kind[n] = "Or" =>
          /\ Entry[Right[n]] = c
          /\ Keep(l, r) => Due(n) = l /\ Chosen(n, c) = Left[n]
          /\ ~Keep(l, r) => Due(n) = r /\ Chosen(n, c) = Right[n]
     /\ kind[n] = "OrStrict" =>
          /\ Entry[Right[n]] = c
          /\ IsMatch(l) => Due(n) = l /\ Chosen(n, c) = Left[n]
          /\ ~IsMatch(l) => Due(n) = r /\ Chosen(n, c) = Right[n]
     /\ kind[n] = "AndThen" => Due(n) = IF IsMatch(l) THEN Answer("Incomplete", l.pos) ELSE l
     /\ kind[n] = "Recover" => Due(n) = IF IsMatch(l) THEN l ELSE Answer("Incomplete", l.pos)
     /\ kind[n] \in {"Map", "MapErr"} => Due(n) = l

(* Due is computed as the preflight of each kind computes its answer.      *)
LEMMA DueUnfold ==
  ASSUME TypeOK, TreeInv, NEW n \in Node
  PROVE  DueAt(n)
<1> DEFINE c == Entry[n]
<1>1. /\ \A m \in Node : Entry[m] \in Nat /\ Due(m) \in Answers
      /\ Due(n) = Decide(n, c, Match[Left[n]], Match[Right[n]])
  BY MatchUnfold, EntryUnfold DEF Due
<1>2. /\ kind[n] \in Binary \cup Unary => Left[n] \in Node /\ Left[n] # Right[n]
      /\ kind[n] \in Binary => Right[n] \in Node
  BY TreeAssumption DEF TreeInv, HasChildren
<1>3. /\ kind[n] \in Binary \cup Unary => Entry[Left[n]] = c /\ Due(Left[n]) = Match[Left[n]][c]
      /\ kind[n] \in Binary => /\ Entry[Right[n]] = RightEntry(n, c)
                               /\ Due(Right[n]) = Match[Right[n]][RightEntry(n, c)]
  BY <1>2, EntryUnfold DEF Down, Due
<1>4. CASE kind[n] = "And"
  BY <1>1, <1>2, <1>3, <1>4, KindAssumption DEF DueAt, Decide, RightEntry, Binary, Unary, Body
<1>5. CASE kind[n] = "Or"
  BY <1>1, <1>2, <1>3, <1>5, KindAssumption DEF DueAt, Decide, RightEntry, Chosen, Binary, Unary, Body
<1>6. CASE kind[n] = "OrStrict"
  BY <1>1, <1>2, <1>3, <1>6, KindAssumption DEF DueAt, Decide, RightEntry, Chosen, Binary, Unary, Body
<1>7. CASE kind[n] \in Unary
  BY <1>1, <1>2, <1>3, <1>7, KindAssumption DEF DueAt, Decide, Binary, Unary, Body
<1>8. CASE kind[n] \notin Binary \cup Unary
  <2> HIDE DEF c
  <2> QED BY <1>1, <1>8, KindAssumption DEF c, DueAt, Decide, Binary, Unary, Body, Parsing
<1> QED BY <1>4, <1>5, <1>6, <1>7, <1>8 DEF Binary

-----------------------------------------------------------------------------
(* A step of n as its parent sees it: what it owes when it returns from    *)
(* preflight, where the child it calls begins, and its own assumptions.    *)
RouteStep(n) ==
  /\ RouteInv(n)'
  /\ frame[n] \in Preflighting =>
       /\ Idle(n)' => cursor' = Due(n).pos
       /\ \A c \in Node : Calls(n, c) => cursor' = Entry[c]
  /\ \A m \in Node \ {n} : saved'[m] = saved[m]

(* What the preflights owe does not change in a step.                      *)
LEMMA DueRigid ==
  ASSUME UNCHANGED rigid
  PROVE  /\ kind' = kind /\ path' = path /\ accept' = accept /\ Match' = Match /\ Entry' = Entry
         /\ \A m : Due(m)' = Due(m) /\ \A c : Chosen(m, c)' = Chosen(m, c)
BY MatchRigid, EntryRigid, ChosenRigid DEF rigid, Due

(* The nodes other than the one that steps keep their RouteInv.            *)
LEMMA OthersRouted ==
  ASSUME Inv, Single, NEW n \in Node, AtControl(n), Local(n), RouteStep(n),
         NEW m \in Node, m # n, RouteInv(m)
  PROVE  RouteInv(m)'
<1>1. /\ kind' = kind /\ Entry' = Entry
      /\ \A d : Due(d)' = Due(d) /\ \A c : Chosen(d, c)' = Chosen(d, c)
  BY DueRigid DEF Local
<1>2. ret'[m] = ret[m] /\ state'[m] = state[m] /\ saved'[m] = saved[m]
  BY DEF Local, RouteStep
<1>3. NodeInv(m) /\ HasChildren(m, kind[m]) /\ ~Idle(n)
  BY DEF Inv, TreeInv, AtControl, Awaits
<1>4. frame'[m] = frame[m] \/ frame'[m] \in {"preflight", "poll"}
  BY DEF Local, Calls
<1>5. frame'[m] = "preflight" => cursor' = Entry[m]
  <2>1. frame'[m] = "preflight" => Calls(n, m)
    BY ControlMoves DEF AtControl, Awaits
  <2> QED BY <2>1 DEF Calls, RouteStep
<1>6. ASSUME NEW c \in Node, frame'[m] \in Preflighting, Awaits(m, c)', Idle(c)'
      PROVE  cursor' = Due(c).pos
  <2>1. Awaits(m, n) /\ Idle(n)' /\ frame'[m] = frame[m]
    BY <1>6, ControlMoves DEF AtControl, Awaits, Calls
  <2>2. c = n
    BY <1>6, <2>1, TreeAssumption DEF Awaits
  <2>3. frame[n] \in Preflighting
    <3>1. CASE kind[m] = "And"
      BY <1>3, <1>6, <2>1, <3>1 DEF NodeInv, AndInv, Awaits, Binary
    <3>2. CASE kind[m] \in {"Or", "OrStrict"}
      BY <1>3, <1>6, <2>1, <3>2 DEF NodeInv, OrInv, Awaits, Binary
    <3>3. CASE kind[m] \in Unary
      BY <1>3, <1>6, <2>1, <3>3 DEF NodeInv, UnaryInv, Awaits, Unary
    <3>4. CASE kind[m] \notin Binary \cup Unary
      BY <1>3, <1>6, <2>1, <3>4 DEF NodeInv, LeafInv, Awaits
    <3> QED BY <3>1, <3>2, <3>3, <3>4 DEF Binary
  <2> QED BY <2>1, <2>2, <2>3 DEF RouteStep
<1>7. kind[m] \in {"And", "OrStrict"} /\ frame'[m] = "preflightRight" => ret'[Left[m]] = ret[Left[m]]
  BY <1>3, <1>4 DEF NodeInv, AndInv, OrInv, HasChildren, Binary, Local
<1> HIDE DEF Local, RouteStep
<1> QED BY <1>1, <1>2, <1>4, <1>5, <1>6, <1>7 DEF RouteInv

(* No node is its own child: nothing above it would reach it.              *)
LEMMA NotOwnChild == \A n \in Node : Left[n] # n /\ Right[n] # n
<1>1. SUFFICES ASSUME NEW n \in Node, n \in {Left[n], Right[n]}
               PROVE  FALSE
  OBVIOUS
<1> DEFINE S == Node \ {n}
<1>2. Root \in S /\ S \in SUBSET Node /\ n \notin S
  BY <1>1, TreeAssumption
<1>3. \A m \in S : {Left[m], Right[m]} \cap Node \subseteq S
  BY <1>1, ParentOf
<1> HIDE DEF S
<1>4. S = Node
  BY <1>2, <1>3, TreeAssumption
<1> QED BY <1>2, <1>4

-----------------------------------------------------------------------------
(* What each preflight does for the node above it.                         *)

(* A return from preflight with the answer due.                            *)
LEMMA Returned ==
  ASSUME TypeOK, NEW n \in Node, frame[n] \in Preflighting, UNCHANGED rigid,
         NEW r \in PreflightResult, NEW o, Return(n, r, o), Due(n) = Answer(r, cursor'),
         kind[n] \in {"Or", "OrStrict"} => /\ state'[n] = "Left" => Chosen(n, Entry[n]) = Left[n]
                                           /\ state'[n] = "Right" => Chosen(n, Entry[n]) = Right[n],
         \A m \in Node \ {n} : saved'[m] = saved[m]
  PROVE  RouteStep(n)
<1>1. /\ kind' = kind /\ Entry' = Entry
      /\ \A d : Due(d)' = Due(d) /\ \A c : Chosen(d, c)' = Chosen(d, c)
  BY DueRigid
<1>2. frame' = [frame EXCEPT ![n] = "none"] /\ frame'[n] = "none" /\ ret'[n] = r
  BY DEF TypeOK, Return
<1>3. Due(n).ret = r /\ Due(n).pos = cursor'
  BY DEF Answer
<1>4. RouteInv(n)'
  BY <1>1, <1>2, <1>3 DEF RouteInv
<1>5. \A c \in Node : ~Calls(n, c)
  BY <1>2 DEF Calls, TypeOK
<1> QED BY <1>2, <1>3, <1>4, <1>5 DEF RouteStep

(* A call of the preflight of c, for which the cursor is where c begins.   *)
LEMMA Called ==
  ASSUME TypeOK, NEW n \in Node, frame[n] \in Preflighting, ret[n] = "none", UNCHANGED rigid,
         NEW c \in Node, c # n, Left[n] # Right[n], NEW at, Call(n, at, c, "preflight"),
         \/ at = "preflightLeft" /\ c = Left[n]
         \/ at = "preflightRight" /\ c = Right[n],
         cursor' = Entry[c],
         kind[n] = "And" /\ at = "preflightRight" => ret[Left[n]] \in Matched,
         kind[n] = "Or" => saved'[n] = IF at = "preflightLeft" THEN Entry[n] ELSE Due(Left[n]).pos,
         kind[n] = "OrStrict" => IF at = "preflightLeft" THEN saved'[n] = Entry[n]
                                                         ELSE ret[Left[n]] = "Rejected",
         kind[n] \in {"Or", "OrStrict"} => state'[n] = "Done",
         \A m \in Node \ {n} : saved'[m] = saved[m]
  PROVE  RouteStep(n)
<1>1. /\ kind' = kind /\ Entry' = Entry
      /\ \A d : Due(d)' = Due(d) /\ \A p : Chosen(d, p)' = Chosen(d, p)
  BY DueRigid
<1>2. /\ frame'[n] = at /\ frame'[c] = "preflight" /\ ret' = ret
      /\ \A d \in Node \ {n, c} : frame'[d] = frame[d]
  BY DEF TypeOK, Call
<1>3. RouteInv(n)'
  BY <1>1, <1>2 DEF RouteInv, Awaits
<1>4. \A d \in Node : Calls(n, d) => d = c
  BY <1>2 DEF Calls
<1> QED BY <1>2, <1>3, <1>4 DEF RouteStep

(* The preflight of an OneshotAction.                                      *)
LEMMA ROneshotPreflight ==
  ASSUME Inv, NEW n \in Node, RouteInv(n), OneshotPreflight(n)
  PROVE  RouteStep(n)
<1> USE DEF OneshotPreflight, Enters, rigid
<1>1. TypeOK /\ DueAt(n) /\ frame[n] = "preflight" /\ cursor = Entry[n] /\ UNCHANGED rigid
  BY DueUnfold DEF Inv, RouteInv
<1>2. kind[n] \in Segment \/ kind[n] \in Parsing \/ kind[n] = "Eos"
  BY DEF Oneshot
<1>3. kind[n] \notin {"Or", "OrStrict"}
  BY KindAssumption DEF Oneshot, Binary, Parsing
<1> DEFINE r == IF OneshotAccepts(n) THEN "Completed" ELSE "Rejected"
<1>4. Due(n) = Answer(r, cursor')
  <2>1. CASE kind[n] \in Segment
    BY <1>1, <2>1, KindAssumption DEF DueAt, Verdict, OneshotAccepts, OneshotCursor, AtEnd, Popped, TypeOK, Parsing
  <2>2. CASE kind[n] \in Parsing
    BY <1>1, <2>2, KindAssumption DEF DueAt, Verdict, OneshotAccepts, OneshotCursor, AtEnd, Popped, TypeOK, Parsing
  <2>3. CASE kind[n] = "Eos"
    BY <1>1, <2>3, KindAssumption DEF DueAt, Verdict, OneshotAccepts, OneshotCursor, AtEnd, Popped, TypeOK, Parsing
  <2> QED BY <1>2, <2>1, <2>2, <2>3
<1>5. \E o : Return(n, r, o)
  OBVIOUS
<1>6. r \in PreflightResult
  OBVIOUS
<1> HIDE DEF r
<1> QED BY <1>1, <1>3, <1>4, <1>5, <1>6, Returned

(* The provided preflight of EndpointAction, which leaves the cursor.      *)
LEMMA RDefaultPreflight ==
  ASSUME Inv, NEW n \in Node, RouteInv(n), DefaultPreflight(n)
  PROVE  RouteStep(n)
<1> USE DEF DefaultPreflight, Enters, rigid, cx
<1>1. TypeOK /\ DueAt(n) /\ frame[n] = "preflight" /\ cursor = Entry[n] /\ UNCHANGED rigid
  BY DueUnfold DEF Inv, RouteInv
<1> QED BY <1>1, Returned DEF DueAt, Body

Routed == \A m \in Node : RouteInv(m)

(* A child that has just returned from preflight gave the answer it owed.  *)
LEMMA Answered ==
  ASSUME Inv, Routed, NEW n \in Node, NEW c \in Node, c \in {Left[n], Right[n]},
         frame[n] \in Preflighting, Awaits(n, c), Idle(c), kind[n] \in Binary \cup Unary
  PROVE  /\ ret[c] \in PreflightResult
         /\ Due(c) = Answer(ret[c], cursor)
<1>1. NodeInv(n) /\ RouteInv(n) /\ RouteInv(c) /\ TypeOK /\ TreeInv
  BY DEF Inv, Routed
<1>2. Left[n] # Right[n]
  BY Children DEF Binary, Unary
<1>3. ret[c] \in PreflightResult
  <2>1. CASE kind[n] = "And"
    BY <1>1, <1>2, <2>1 DEF NodeInv, AndInv, Awaits, Binary
  <2>2. CASE kind[n] \in {"Or", "OrStrict"}
    BY <1>1, <1>2, <2>2 DEF NodeInv, OrInv, Awaits, Binary
  <2>3. CASE kind[n] \in Unary
    BY <1>1, <1>2, <2>3 DEF NodeInv, UnaryInv, Awaits, Unary
  <2> QED BY <2>1, <2>2, <2>3 DEF Binary
<1>4. Due(c).ret = ret[c] /\ cursor = Due(c).pos
  BY <1>1, <1>3 DEF RouteInv
<1>5. Due(c) \in Answers
  BY <1>1, DueUnfold DEF DueAt
<1> QED BY <1>3, <1>4, <1>5 DEF Answer, Answers

(* And.                                                                    *)
LEMMA RAnd ==
  ASSUME Inv, Routed, NEW n \in Node,
         AndPreflight(n) \/ AndPreflightLeft(n) \/ AndPreflightRight(n)
  PROVE  RouteStep(n)
<1> USE DEF Enters, Resumes, rigid, cx
<1>1. /\ TypeOK /\ DueAt(n) /\ NodeInv(n) /\ RouteInv(n) /\ kind[n] = "And" /\ UNCHANGED rigid
      /\ frame[n] \in Preflighting /\ ret[n] = "none" /\ saved' = saved /\ cursor' = cursor
  BY DueUnfold DEF Inv, Routed, NodeInv, AndPreflight, AndPreflightLeft, AndPreflightRight
<1>2. Left[n] \in Node /\ Right[n] \in Node /\ Left[n] # Right[n] /\ Left[n] # n /\ Right[n] # n
  BY <1>1, Children, NotOwnChild DEF Binary, NodeInv, AndInv
<1>3. CASE AndPreflight(n)
  BY <1>1, <1>2, <1>3, Called DEF DueAt, RouteInv, Binary, AndPreflight
<1>4. CASE AndPreflightLeft(n)
  <2>1. Due(Left[n]) = Answer(ret[Left[n]], cursor)
    BY <1>1, <1>2, <1>4, Answered DEF AndPreflightLeft, Awaits, Binary
  <2>2. CASE ret[Left[n]] \in Matched /\ Call(n, "preflightRight", Right[n], "preflight")
    <3>1. cursor' = Entry[Right[n]]
      BY <1>1, <2>1 DEF DueAt, Answer
    <3> QED BY <1>1, <1>2, <2>2, <3>1, Called
  <2>3. CASE ret[Left[n]] = "Rejected" /\ Return(n, "Rejected", <<>>)
    <3>1. Due(n) = Answer("Rejected", cursor')
      BY <1>1, <2>1, <2>3 DEF DueAt, Answer, IsMatch
    <3> QED BY <1>1, <2>3, <3>1, Returned
  <2> QED BY <1>4, <2>2, <2>3 DEF AndPreflightLeft
<1>5. CASE AndPreflightRight(n)
  <2>1. Due(Right[n]) = Answer(ret[Right[n]], cursor)
    BY <1>1, <1>2, <1>5, Answered DEF AndPreflightRight, Awaits, Binary
  <2>2. Due(Left[n]).ret \in Matched
    BY <1>1, <1>2, <1>5 DEF RouteInv, Routed, AndPreflightRight
  <2>3. PICK r \in PreflightResult : /\ Return(n, r, <<>>)
                                     /\ r = IF ret[Right[n]] \in Matched THEN "Incomplete" ELSE "Rejected"
                                     /\ ret[Right[n]] \in PreflightResult
    BY <1>5 DEF AndPreflightRight
  <2>4. Due(n) = Answer(r, cursor')
    BY <1>1, <2>1, <2>2, <2>3 DEF DueAt, Answer, IsMatch
  <2> QED BY <1>1, <2>3, <2>4, Returned
<1> QED BY <1>3, <1>4, <1>5

(* What Or and OrStrict find better is what the pure function chooses.      *)
LEMMA OrChoice ==
  ASSUME Inv, Routed, NEW n \in Node, OrPreflightRight(n)
  PROVE  /\ Due(Left[n]) = Answer(ret[Left[n]], saved[n]) /\ ret[Left[n]] \in PreflightResult
         /\ Due(Right[n]) = Answer(ret[Right[n]], cursor) /\ ret[Right[n]] \in PreflightResult
         /\ LeftIsBetter(n) => Chosen(n, Entry[n]) = Left[n] /\ Due(n) = Due(Left[n])
         /\ ~LeftIsBetter(n) => Chosen(n, Entry[n]) = Right[n] /\ Due(n) = Due(Right[n])
<1> USE DEF Resumes
<1>1. /\ DueAt(n) /\ NodeInv(n) /\ RouteInv(n) /\ kind[n] = "Or" /\ frame[n] = "preflightRight"
      /\ Left[n] \in Node /\ Right[n] \in Node
  BY DueUnfold, Children DEF Inv, Routed, OrPreflightRight, Binary
<1>2. Due(Right[n]) = Answer(ret[Right[n]], cursor) /\ ret[Right[n]] \in PreflightResult
  BY <1>1, Answered DEF OrPreflightRight, Awaits, Binary
<1>3. ret[Left[n]] \in PreflightResult
  BY <1>1 DEF NodeInv, OrInv, Binary
<1>4. Due(Left[n]) = Answer(ret[Left[n]], saved[n])
  BY <1>1, <1>3 DEF RouteInv, Routed, DueAt, Answer, Answers, Binary
<1>5. LeftIsBetter(n) <=> Keep(Due(Left[n]), Due(Right[n]))
  BY <1>2, <1>4 DEF LeftIsBetter, Keep, IsMatch, Answer
<1> QED BY <1>1, <1>2, <1>3, <1>4, <1>5 DEF DueAt

(* The branch that OrStrict keeps is the one that Chosen says.             *)
LEMMA StrictChoice ==
  ASSUME Inv, Routed, NEW n \in Node
  PROVE  /\ OrStrictPreflightLeft(n) =>
              /\ Due(Left[n]) = Answer(ret[Left[n]], cursor) /\ ret[Left[n]] \in PreflightResult
              /\ ret[Left[n]] \in Matched => Chosen(n, Entry[n]) = Left[n] /\ Due(n) = Due(Left[n])
         /\ OrStrictPreflightRight(n) =>
              /\ Due(Right[n]) = Answer(ret[Right[n]], cursor) /\ ret[Right[n]] \in PreflightResult
              /\ Chosen(n, Entry[n]) = Right[n] /\ Due(n) = Due(Right[n])
<1> USE DEF Resumes
<1>1. DueAt(n) /\ RouteInv(n)
  BY DueUnfold DEF Inv, Routed
<1>2. ASSUME OrStrictPreflightLeft(n)
      PROVE  /\ Due(Left[n]) = Answer(ret[Left[n]], cursor) /\ ret[Left[n]] \in PreflightResult
             /\ kind[n] = "OrStrict"
  BY <1>2, Children, Answered DEF OrStrictPreflightLeft, Awaits, Binary
<1>3. ASSUME OrStrictPreflightRight(n)
      PROVE  /\ Due(Right[n]) = Answer(ret[Right[n]], cursor) /\ ret[Right[n]] \in PreflightResult
             /\ kind[n] = "OrStrict" /\ ret[Left[n]] = "Rejected" /\ Left[n] \in Node
  BY <1>1, <1>3, Children, Answered DEF OrStrictPreflightRight, RouteInv, Awaits, Binary
<1>4. ASSUME OrStrictPreflightRight(n)
      PROVE  ~IsMatch(Due(Left[n]))
  BY <1>3, <1>4 DEF IsMatch, RouteInv, Routed
<1> QED BY <1>1, <1>2, <1>3, <1>4 DEF DueAt, IsMatch, Answer

(* Or.                                                                     *)
LEMMA ROr ==
  ASSUME Inv, Routed, NEW n \in Node, OrPreflight(n) \/ OrPreflightLeft(n) \/ OrPreflightRight(n)
  PROVE  RouteStep(n)
<1> USE DEF Enters, Resumes, rigid, cx
<1>1. /\ TypeOK /\ DueAt(n) /\ NodeInv(n) /\ RouteInv(n) /\ kind[n] = "Or" /\ UNCHANGED rigid
      /\ frame[n] \in Preflighting /\ ret[n] = "none"
      /\ \A m \in Node \ {n} : saved'[m] = saved[m]
  BY DueUnfold DEF Inv, TypeOK, Routed, NodeInv, OrPreflight, OrPreflightLeft, OrPreflightRight
<1>2. Left[n] \in Node /\ Right[n] \in Node /\ Left[n] # Right[n] /\ Left[n] # n /\ Right[n] # n
  BY <1>1, Children, NotOwnChild DEF Binary, NodeInv, OrInv
<1>3. CASE OrPreflight(n)
  <2>1. saved'[n] = cursor /\ cursor' = cursor /\ state'[n] = "Done"
    BY <1>1, <1>3 DEF OrPreflight, SetState, TypeOK
  <2> QED BY <1>1, <1>2, <1>3, <2>1, Called DEF DueAt, RouteInv, Binary, OrPreflight
<1>4. CASE OrPreflightLeft(n)
  <2>1. Due(Left[n]) = Answer(ret[Left[n]], cursor)
    BY <1>1, <1>2, <1>4, Answered DEF OrPreflightLeft, Awaits, Binary
  <2>2. saved'[n] = Due(Left[n]).pos /\ cursor' = Entry[Right[n]] /\ state'[n] = "Done"
    BY <1>1, <1>4, <2>1 DEF OrPreflightLeft, TypeOK, DueAt, RouteInv, NodeInv, OrInv, Binary, Answer
  <2> QED BY <1>1, <1>2, <1>4, <2>2, Called DEF OrPreflightLeft
<1>5. CASE OrPreflightRight(n)
  <2>1. /\ Due(Left[n]) = Answer(ret[Left[n]], saved[n]) /\ ret[Left[n]] \in PreflightResult
        /\ Due(Right[n]) = Answer(ret[Right[n]], cursor) /\ ret[Right[n]] \in PreflightResult
        /\ LeftIsBetter(n) => Chosen(n, Entry[n]) = Left[n] /\ Due(n) = Due(Left[n])
        /\ ~LeftIsBetter(n) => Chosen(n, Entry[n]) = Right[n] /\ Due(n) = Due(Right[n])
    BY <1>5, OrChoice
  <2>2. state[n] = "Done"
    BY <1>1, <1>5 DEF OrPreflightRight, NodeInv, OrInv, Binary
  <2>3. saved' = saved
    BY <1>5 DEF OrPreflightRight
  <2>6. CASE LeftIsBetter(n) /\ cursor' = saved[n] /\ Choose(n, Left[n], "Left")
    <3>1. \E o : Return(n, ret[Left[n]], o)
      BY <2>6 DEF Choose, LeftIsBetter
    <3>2. state'[n] # "Right" /\ Chosen(n, Entry[n]) = Left[n] /\ Due(n) = Answer(ret[Left[n]], cursor')
      BY <1>1, <2>1, <2>2, <2>6 DEF Choose, SetState, TypeOK
    <3> QED BY <1>1, <2>1, <3>1, <3>2, Returned
  <2>7. CASE /\ ~LeftIsBetter(n) /\ ret[Right[n]] \in Matched
             /\ Choose(n, Right[n], "Right") /\ cursor' = cursor
    <3>1. \E o : Return(n, ret[Right[n]], o)
      BY <2>7 DEF Choose
    <3>2. state'[n] # "Left" /\ Chosen(n, Entry[n]) = Right[n] /\ Due(n) = Answer(ret[Right[n]], cursor')
      BY <1>1, <2>1, <2>2, <2>7 DEF Choose, SetState, TypeOK
    <3> QED BY <1>1, <2>1, <3>1, <3>2, Returned
  <2>8. CASE /\ ret[Left[n]] = "Rejected" /\ ret[Right[n]] = "Rejected"
             /\ Return(n, "Rejected", <<>>) /\ state' = state /\ cursor' = cursor
    <3>1. Due(n) = Answer("Rejected", cursor')
      BY <2>1, <2>8 DEF LeftIsBetter
    <3> QED BY <1>1, <2>1, <2>2, <2>8, <3>1, Returned
  <2> QED BY <1>5, <2>6, <2>7, <2>8 DEF OrPreflightRight
<1> QED BY <1>3, <1>4, <1>5

(* OrStrict.                                                               *)
LEMMA ROrStrict ==
  ASSUME Inv, Routed, NEW n \in Node,
         OrStrictPreflight(n) \/ OrStrictPreflightLeft(n) \/ OrStrictPreflightRight(n)
  PROVE  RouteStep(n)
<1> USE DEF Enters, Resumes, rigid, cx
<1>1. /\ TypeOK /\ DueAt(n) /\ NodeInv(n) /\ RouteInv(n) /\ kind[n] = "OrStrict" /\ UNCHANGED rigid
      /\ frame[n] \in Preflighting /\ ret[n] = "none"
      /\ \A m \in Node \ {n} : saved'[m] = saved[m]
  BY DueUnfold DEF Inv, TypeOK, Routed, NodeInv,
     OrStrictPreflight, OrStrictPreflightLeft, OrStrictPreflightRight
<1>2. Left[n] \in Node /\ Right[n] \in Node /\ Left[n] # Right[n] /\ Left[n] # n /\ Right[n] # n
  BY <1>1, Children, NotOwnChild DEF Binary, NodeInv, OrInv
<1>3. CASE OrStrictPreflight(n)
  <2>1. saved'[n] = cursor /\ cursor' = cursor /\ state'[n] = "Done"
    BY <1>1, <1>3 DEF OrStrictPreflight, SetState, TypeOK
  <2> QED BY <1>1, <1>2, <1>3, <2>1, Called DEF DueAt, RouteInv, Binary, OrStrictPreflight
<1>4. CASE OrStrictPreflightLeft(n)
  <2>1. /\ Due(Left[n]) = Answer(ret[Left[n]], cursor) /\ ret[Left[n]] \in PreflightResult
        /\ ret[Left[n]] \in Matched => Chosen(n, Entry[n]) = Left[n] /\ Due(n) = Due(Left[n])
    BY <1>4, StrictChoice
  <2>2. state[n] = "Done" /\ saved[n] = Entry[n]
    BY <1>1, <1>4 DEF OrStrictPreflightLeft, NodeInv, OrInv, RouteInv, Binary
  <2>3. CASE ret[Left[n]] \in Matched /\ Choose(n, Left[n], "Left") /\ cursor' = cursor
    <3>1. \E o : Return(n, ret[Left[n]], o)
      BY <2>3 DEF Choose
    <3>2. state'[n] # "Right" /\ Chosen(n, Entry[n]) = Left[n] /\ Due(n) = Answer(ret[Left[n]], cursor')
      BY <1>1, <2>1, <2>2, <2>3 DEF Choose, SetState, TypeOK
    <3> QED BY <1>1, <2>1, <3>1, <3>2, Returned
  <2>4. CASE /\ ret[Left[n]] = "Rejected" /\ cursor' = saved[n]
             /\ Call(n, "preflightRight", Right[n], "preflight") /\ state' = state
    <3>1. cursor' = Entry[Right[n]]
      BY <1>1, <2>2, <2>4 DEF DueAt
    <3> QED BY <1>1, <1>2, <2>2, <2>4, <3>1, Called
  <2> QED BY <1>4, <2>3, <2>4 DEF OrStrictPreflightLeft
<1>5. CASE OrStrictPreflightRight(n)
  <2>1. /\ Due(Right[n]) = Answer(ret[Right[n]], cursor) /\ ret[Right[n]] \in PreflightResult
        /\ Chosen(n, Entry[n]) = Right[n] /\ Due(n) = Due(Right[n])
    BY <1>5, StrictChoice
  <2>2. state[n] = "Done" /\ cursor' = cursor
    BY <1>1, <1>5 DEF OrStrictPreflightRight, NodeInv, OrInv, Binary
  <2>4. (\E o : Return(n, ret[Right[n]], o)) /\ state'[n] # "Left"
    BY <1>1, <1>5, <2>2 DEF OrStrictPreflightRight, Choose, SetState, TypeOK
  <2> QED BY <1>1, <2>1, <2>2, <2>4, Returned
<1> QED BY <1>3, <1>4, <1>5

(* The unary combinators.                                                  *)
LEMMA RUnary ==
  ASSUME Inv, Routed, NEW n \in Node, frame[n] \in Preflighting,
         \/ UnaryPreflight(n) \/ MapReturn(n)
         \/ AndThenPreflightReturn(n) \/ RecoverPreflightReturn(n)
  PROVE  RouteStep(n)
<1> USE DEF Enters, Resumes, rigid, cx
<1>1. /\ TypeOK /\ DueAt(n) /\ NodeInv(n) /\ RouteInv(n) /\ kind[n] \in Unary /\ UNCHANGED rigid
      /\ ret[n] = "none" /\ saved' = saved /\ cursor' = cursor
  BY DueUnfold DEF Inv, Routed, NodeInv, Unary, UnaryPreflight, MapReturn,
     AndThenPreflightReturn, RecoverPreflightReturn
<1>2. Left[n] \in Node /\ Left[n] # Right[n] /\ Left[n] # n /\ kind[n] \notin Binary
  BY <1>1, Children, NotOwnChild DEF Binary, Unary, NodeInv, UnaryInv
<1>3. CASE UnaryPreflight(n)
  BY <1>1, <1>2, <1>3, Called DEF DueAt, RouteInv, Binary, UnaryPreflight
<1>4. CASE MapReturn(n) \/ AndThenPreflightReturn(n) \/ RecoverPreflightReturn(n)
  <2>1. Due(Left[n]) = Answer(ret[Left[n]], cursor) /\ ret[Left[n]] \in PreflightResult
    BY <1>1, <1>2, <1>4, Answered
       DEF MapReturn, AndThenPreflightReturn, RecoverPreflightReturn, Awaits
  <2> DEFINE r == CASE kind[n] = "AndThen" /\ ret[Left[n]] \in Matched -> "Incomplete"
                    [] kind[n] = "Recover" /\ ret[Left[n]] = "Rejected" -> "Incomplete"
                    [] OTHER -> ret[Left[n]]
  <2>2. r \in PreflightResult /\ \E o : Return(n, r, o)
    BY <1>4, <2>1 DEF MapReturn, AndThenPreflightReturn, RecoverPreflightReturn
  <2>3. Due(n) = Answer(r, cursor')
    BY <1>1, <2>1 DEF DueAt, Unary, Answer, IsMatch
  <2> HIDE DEF r
  <2> QED BY <1>1, <1>2, <2>2, <2>3, Returned DEF Binary
<1> QED BY <1>3, <1>4

(* The poll_action of a node writes no clone of the context, and that of   *)
(* an Or or OrStrict leaves the choice that its preflight has stored.      *)
LEMMA PollKeeps ==
  ASSUME Inv, NEW n \in Node, NodeStep(n), frame[n] \in Polling
  PROVE  saved' = saved /\ (kind[n] \in {"Or", "OrStrict"} => state' = state)
<1> USE KindAssumption DEF Enters, Resumes, cx, Oneshot, Body, Unary, Binary, Parsing
<1>1. CASE LeafStep(n)
  BY <1>1 DEF LeafStep, OneshotPreflight, DefaultPreflight, FuturePoll, RawPoll,
              ReceiveAllTake, ReceiveAllPoll
<1>2. CASE AndStep(n)
  BY <1>2 DEF AndStep, AndPreflight, AndPreflightLeft, AndPreflightRight,
     AndPollLeft, AndPollRight, AndPolledLeft, AndPolledRight, AndPolled, AndTakeItem
<1>3. CASE OrStep(n)
  BY <1>3 DEF OrStep, OrPreflight, OrPreflightLeft, OrPreflightRight,
     OrStrictPreflight, OrStrictPreflightLeft, OrStrictPreflightRight,
     OrPollLeft, OrPollRight, OrPoll, OrPolledLeft, OrPolledRight, OrPolled
<1>4. CASE UnaryStep(n)
  BY <1>4 DEF UnaryStep, UnaryPreflight, UnaryPoll, InFlightPoll, MapReturn,
     AndThenPreflightReturn, AndThenPolled, RecoverPreflightReturn, RecoverPolled
<1> QED BY <1>1, <1>2, <1>3, <1>4 DEF NodeStep

(* A poll leaves everything that the preflight has decided.                *)
LEMMA RPoll ==
  ASSUME Inv, Routed, NEW n \in Node, NodeStep(n), Local(n), frame[n] \in Polling
  PROVE  RouteStep(n)
<1>1. UNCHANGED rigid /\ NodeInv(n) /\ RouteInv(n)
  BY DEF Inv, Routed, Local
<1>2. /\ kind' = kind /\ Entry' = Entry
      /\ \A d : Due(d)' = Due(d) /\ \A c : Chosen(d, c)' = Chosen(d, c)
  BY <1>1, DueRigid
<1>3. ret[n] \in Pending /\ Due(n).ret = "Incomplete"
  BY <1>1 DEF NodeInv, RouteInv
<1>4. saved' = saved /\ (kind[n] \in {"Or", "OrStrict"} => state' = state)
  BY PollKeeps
<1>5. /\ frame'[n] \notin Preflighting
      /\ ret'[n] \in Pending \cup PollResult
  BY DEF Local, Advances
<1> QED BY <1>1, <1>2, <1>3, <1>4, <1>5 DEF RouteInv, RouteStep

(* Every step of a node does what its parent relies on.                    *)
LEMMA RNodeStep ==
  ASSUME Inv, Routed, NEW n \in Node, NodeStep(n)
  PROVE  RouteStep(n)
<1>1. Local(n) /\ AtControl(n) /\ RouteInv(n) /\ TypeOK
  BY LNodeStep, Running DEF Routed, Inv
<1>2. CASE frame[n] \in Polling
  BY <1>1, <1>2, RPoll
<1>3. CASE frame[n] \in Preflighting
  <2>1. CASE LeafStep(n)
    BY <1>1, <1>3, <2>1, ROneshotPreflight, RDefaultPreflight
       DEF LeafStep, FuturePoll, RawPoll, ReceiveAllTake, ReceiveAllPoll, Enters
  <2>2. CASE AndStep(n)
    BY <1>3, <2>2, RAnd DEF AndStep, AndPollLeft, AndPollRight, AndPolledLeft, AndPolledRight,
       AndPolled, AndTakeItem, Enters, Resumes
  <2>3. CASE OrStep(n)
    BY <1>3, <2>3, ROr, ROrStrict DEF OrStep, OrPollLeft, OrPollRight, OrPoll,
       OrPolledLeft, OrPolledRight, OrPolled, Enters, Resumes
  <2>4. CASE UnaryStep(n)
    BY <1>3, <2>4, RUnary DEF UnaryStep, UnaryPoll, InFlightPoll, AndThenPolled, RecoverPolled,
       Enters, Resumes
  <2> QED BY <2>1, <2>2, <2>3, <2>4 DEF NodeStep
<1>4. frame[n] \in Preflighting \cup Polling
  BY <1>1, Running DEF TypeOK, Frame
<1> QED BY <1>2, <1>3, <1>4

(* A step of a node preserves RouteInv of all nodes.                       *)
LEMMA RoutedStep ==
  ASSUME Inv, Single, Routed, NEW n \in Node, NodeStep(n)
  PROVE  Routed'
<1>1. Local(n) /\ AtControl(n) /\ RouteStep(n)
  BY LNodeStep, Running, RNodeStep
<1>2. ASSUME NEW m \in Node, m # n
      PROVE  RouteInv(m)'
  BY <1>1, <1>2, OthersRouted DEF Routed
<1>3. RouteInv(n)'
  BY <1>1 DEF RouteStep
<1> HIDE DEF RouteInv
<1> QED BY <1>2, <1>3 DEF Routed

-----------------------------------------------------------------------------
(* The steps of AppFuture and of the executor.                             *)
Outside == \/ AppStep \/ SpuriousNotify \/ Finished \/ UNCHANGED vars
           \/ \E n \in Node : IoCompletes(n)

(* They change no node, except that AppFuture calls the root while all are *)
(* idle, for its preflight with a context from which nothing is popped.    *)
LEMMA OutsideKeeps ==
  ASSUME Inv, Outside
  PROVE  /\ UNCHANGED <<rigid, ret, state, maybe, out, saved>>
         /\ frame' # frame => /\ \A n \in Node : Idle(n) /\ (n # Root => Idle(n)')
                              /\ ~Idle(Root)'
                              /\ frame'[Root] = "preflight" => cursor' = 0
                              /\ frame'[Root] # "preflight" => frame'[Root] = "poll" /\ cursor' = cursor
         /\ frame' = frame => cursor' = cursor
<1> USE DEF rigid, task, wake, cx
<1>1. TypeOK /\ AppInv /\ (Idle(Root) => \A n \in Node : Idle(n)) /\ Root \in Node
  BY AllIdle, TreeAssumption DEF Inv
<1>2. CASE AppPreflight \/ AppPoll
  BY <1>1, <1>2 DEF AppInv, AppPreflight, AppPoll, TypeOK
<1>3. CASE AppPreflightReturn \/ AppPollReturn
  BY <1>1, <1>3 DEF AppPreflightReturn, AppPollReturn, TypeOK
<1>4. CASE SpuriousNotify \/ Finished \/ UNCHANGED vars \/ \E n \in Node : IoCompletes(n)
  BY <1>4 DEF SpuriousNotify, Finished, vars, IoCompletes
<1> QED BY <1>2, <1>3, <1>4 DEF Outside, AppStep

(* No such step gives control to a second node.                            *)
LEMMA SingleOutside ==
  ASSUME Inv, Single, Outside
  PROVE  Single'
<1>1. CASE frame' = frame
  BY <1>1 DEF Single, AtControl, Awaits
<1>2. CASE frame' # frame
  <2>1. \A n \in Node : AtControl(n)' => n = Root
    BY <1>2, OutsideKeeps DEF AtControl, Awaits
  <2> QED BY <2>1 DEF Single
<1> QED BY <1>1, <1>2

(* Nor does it disturb RouteInv.                                           *)
LEMMA RoutedOutside ==
  ASSUME Inv, Single, Routed, Outside
  PROVE  Routed'
<1>1. /\ kind' = kind /\ Entry' = Entry
      /\ \A d : Due(d)' = Due(d) /\ \A c : Chosen(d, c)' = Chosen(d, c)
  BY OutsideKeeps, DueRigid DEF rigid
<1>2. Entry[Root] = 0
  BY EntryUnfold DEF Inv
<1>3. ASSUME NEW m \in Node PROVE RouteInv(m)'
  <2>1. ret' = ret /\ state' = state /\ saved' = saved /\ RouteInv(m)
    BY OutsideKeeps DEF Routed
  <2>2. CASE frame' = frame
    <3>1. cursor' = cursor
      BY <2>2, OutsideKeeps
    <3> QED BY <1>1, <2>1, <2>2, <3>1 DEF RouteInv, Awaits
  <2>3. CASE frame' # frame
    <3>1. /\ frame'[m] \in {"none", "preflight", "poll"}
          /\ frame'[m] = "preflight" => m = Root /\ cursor' = 0
      BY <2>3, OutsideKeeps
    <3> QED BY <1>1, <1>2, <2>1, <3>1 DEF RouteInv, Awaits
  <2> QED BY <2>2, <2>3
<1> HIDE DEF RouteInv
<1> QED BY <1>3 DEF Routed

(* The part of the inductive invariant that is about preflight.            *)
RoutedInv == Inv /\ Single /\ Routed /\ AnswerInv

(* It holds when the request arrives.                                      *)
LEMMA RoutedInit ==
  ASSUME Init
  PROVE  RoutedInv
<1>1. Inv
  BY LInit
<1>2. \A n \in Node : frame[n] = "none" /\ ret[n] = "none" /\ state[n] \notin {"Left", "Right"}
  BY KindAssumption DEF Init, Created
<1>3. Single /\ Routed
  BY <1>2 DEF Single, AtControl, Awaits, Routed, RouteInv
<1>4. AnswerInv
  BY DEF Init, AnswerInv
<1> QED BY <1>1, <1>3, <1>4 DEF RoutedInv

(* The answer of the root stays the one AppFuture reads.                   *)
LEMMA AnswerStep ==
  ASSUME RoutedInv, [Next]_vars
  PROVE  AnswerInv'
<1>1. TypeOK /\ AppInv /\ Inv /\ Single /\ Routed /\ AnswerInv /\ Root \in Node
  BY TreeAssumption DEF RoutedInv, Inv
<1>2. ASSUME NEW n \in Node, NodeStep(n) PROVE AnswerInv'
  <2>1. Local(n) /\ AtControl(n) /\ ~Idle(n) /\ RouteStep(n) /\ NodeInv(n) /\ ~Idle(Root)
    BY <1>1, <1>2, LNodeStep, Running, RNodeStep, AllIdle DEF Inv
  <2>2. UNCHANGED <<rigid, task>> /\ app' = app /\ response' = response
    BY <2>1 DEF Local, task
  <2>3. response = "none"
    BY <1>1, <2>1 DEF AppInv, TypeOK
  <2>4. ASSUME app = "Taken", Idle(Root)' PROVE ret'[Root] \in PreflightResult /\ cursor' = Due(Root).pos
    <3>1. n = Root
      BY <1>1, <2>1, <2>4 DEF Local, Calls
    <3>2. frame[Root] \in Preflighting
      BY <1>1, <2>1, <2>4, <3>1 DEF AppInv, TypeOK, Frame, Inv, BodyInv
    <3> QED BY <2>1, <2>4, <3>1, <3>2 DEF RouteStep, Local, Advances
  <2> QED BY <2>2, <2>3, <2>4, DueRigid DEF AnswerInv
<1>3. CASE Outside
  <2>1. UNCHANGED rigid /\ ret' = ret /\ \A d : Due(d)' = Due(d)
    BY <1>1, <1>3, OutsideKeeps, DueRigid
  <2>2. CASE AppPreflight \/ AppPoll
    BY <1>1, <2>1, <2>2 DEF AppPreflight, AppPoll, AppInv, AnswerInv, Succeeds, TypeOK
  <2>3. CASE AppPreflightReturn
    BY <1>1, <2>1, <2>3 DEF AppPreflightReturn, AppInv, AnswerInv, Succeeds, TypeOK, cx
  <2>4. CASE AppPollReturn
    BY <1>1, <2>1, <2>4 DEF AppPollReturn, AppInv, AnswerInv, Succeeds, TypeOK, cx
  <2>5. CASE SpuriousNotify \/ Finished \/ UNCHANGED vars \/ \E n \in Node : IoCompletes(n)
    BY <1>1, <2>1, <2>5 DEF SpuriousNotify, Finished, vars, IoCompletes, AnswerInv, Succeeds, cx, task
  <2> QED BY <1>3, <2>2, <2>3, <2>4, <2>5 DEF Outside, AppStep
<1> QED BY <1>2, <1>3 DEF Next, Outside

(* It is inductive.                                                        *)
LEMMA RoutedNext == RoutedInv /\ [Next]_vars => RoutedInv'
<1> SUFFICES ASSUME RoutedInv, [Next]_vars PROVE RoutedInv'
  OBVIOUS
<1>1. Inv' /\ AnswerInv'
  BY LNext, AnswerStep DEF RoutedInv
<1>2. ASSUME NEW n \in Node, NodeStep(n) PROVE Single' /\ Routed'
  BY <1>2, SingleStep, RoutedStep DEF RoutedInv
<1>3. ASSUME Outside PROVE Single' /\ Routed'
  BY <1>3, SingleOutside, RoutedOutside DEF RoutedInv
<1>4. Single' /\ Routed'
  BY <1>2, <1>3 DEF Next, Outside
<1> QED BY <1>1, <1>4 DEF RoutedInv

(* So it holds in every reachable state.                                   *)
LEMMA RoutedAlways == Spec => []RoutedInv
<1>1. Init => RoutedInv
  BY RoutedInit
<1> QED BY <1>1, RoutedNext, PTL DEF Spec

(* The preflight of the whole tree, with every clone, write back and skip  *)
(* of the context that Or, OrStrict and And make on the way (ext/or.rs,    *)
(* ext/or_strict.rs, ext/and.rs), answers what the endpoints say of the    *)
(* request, for every tree and every path: no branch that was tried and    *)
(* dropped leaves a trace in the cursor that the caller reads.             *)
THEOREM Purity == Spec => []RoutingIsPure
<1>1. RoutedInv => RoutingIsPure
  <2> SUFFICES ASSUME RoutedInv, app = "Taken", Idle(Root)
               PROVE  Answer(ret[Root], cursor) = Match[Root][0]
    BY DEF RoutingIsPure
  <2>1. Root \in Node /\ RouteInv(Root) /\ AppInv /\ TypeOK /\ TreeInv
    BY TreeAssumption DEF RoutedInv, Routed, Inv
  <2>2. Due(Root) = Match[Root][0] /\ Due(Root) \in Answers
    BY <2>1, EntryUnfold, DueUnfold DEF Due, DueAt
  <2>3. ret[Root] \in PreflightResult /\ cursor = Due(Root).pos
    BY DEF RoutedInv, AnswerInv
  <2>4. Due(Root).ret = ret[Root]
    BY <2>1, <2>3 DEF RouteInv
  <2> QED BY <2>2, <2>3, <2>4 DEF Answer, Answers
<1> QED BY <1>1, RoutedAlways, PTL

-----------------------------------------------------------------------------
(* The route.                                                              *)

(* The children whose answers a node that is kept goes on with.            *)
GoesOn(n, c) ==
  \/ kind[n] = "And" /\ c \in {Left[n], Right[n]}
  \/ kind[n] \in {"Or", "OrStrict"} /\ c = Chosen(n, Entry[n])
  \/ kind[n] \in Unary /\ c = Left[n]

(* The nodes that take part in the answer of n, where n begins.            *)
Path(n) == Route[n][Entry[n]]

PathAt(n) ==
  /\ Due(n).ret # "Incomplete" => Path(n) = {}
  /\ Due(n).ret = "Incomplete" =>
       \A m : m \in Path(n) <=> m = n \/ \E c \in Node : GoesOn(n, c) /\ m \in Path(c)

(* The path of a node that is kept goes on with those of its children.     *)
LEMMA PathUnfold ==
  ASSUME TypeOK, TreeInv, NEW n \in Node
  PROVE  PathAt(n)
<1> DEFINE c == Entry[n]
<1>1. c \in Nat /\ RouteAt(n, c) /\ Due(n) = Match[n][c] /\ Chosen(n, c) \in {Left[n], Right[n]}
  BY EntryUnfold, RouteUnfold, UsedNodes DEF Due
<1>2. /\ kind[n] \in Binary \cup Unary => Left[n] \in Node /\ Entry[Left[n]] = c
      /\ kind[n] \in Binary => Right[n] \in Node /\ Entry[Right[n]] = RightEntry(n, c)
      /\ kind[n] \in Binary => Left[n] # Right[n]
  BY EntryUnfold, UsedNodes, TreeAssumption DEF Down
<1>3. kind[n] \in {"Or", "OrStrict"} => RightEntry(n, c) = c
  BY DEF RightEntry
<1> HIDE DEF c
<1>4. Path(n) = Route[n][c]
  BY DEF Path, c
<1>5. CASE kind[n] = "And"
  BY <1>1, <1>2, <1>4, <1>5, KindAssumption DEF RouteAt, PathAt, Path, GoesOn, Binary, Unary, c
<1>6. CASE kind[n] \in {"Or", "OrStrict"}
  BY <1>1, <1>2, <1>3, <1>4, <1>6 DEF RouteAt, PathAt, Path, GoesOn, Binary, Unary, c
<1>7. CASE kind[n] \in Unary
  BY <1>1, <1>2, <1>4, <1>7 DEF RouteAt, PathAt, Path, GoesOn, Binary, Unary, c
<1>8. CASE kind[n] \notin Binary \cup Unary
  BY <1>1, <1>4, <1>8 DEF RouteAt, PathAt, GoesOn, Binary
<1> QED BY <1>5, <1>6, <1>7, <1>8 DEF Binary

(* A node goes on with children that it calls.                             *)
LEMMA GoesOnUses ==
  ASSUME TypeOK, TreeInv, NEW n \in Node, NEW c, GoesOn(n, c)
  PROVE  c \in Node /\ Uses(n, c)
BY EntryUnfold, UsedNodes DEF GoesOn, Uses, Binary

(* The route is closed under going on.                                     *)
Follows(a) == \A n, c \in Node : n \in Path(a) /\ GoesOn(n, c) /\ Due(c).ret = "Incomplete"
                                 => c \in Path(a)

(* The route of every node is closed under going on.                       *)
LEMMA RouteDown ==
  ASSUME TypeOK, TreeInv
  PROVE  \A a \in Node : Follows(a)
<1> DEFINE S == {a \in Node : Follows(a)}
<1>1. ASSUME NEW a \in Node, \A b \in Node : Uses(a, b) => Follows(b)
      PROVE  Follows(a)
  <2> SUFFICES ASSUME NEW n \in Node, NEW c \in Node,
                      n \in Path(a), GoesOn(n, c), Due(c).ret = "Incomplete"
               PROVE  c \in Path(a)
    BY DEF Follows
  <2>1. PathAt(a) /\ PathAt(c)
    BY PathUnfold
  <2>2. CASE n = a
    BY <2>1, <2>2 DEF PathAt
  <2>3. CASE n # a
    <3>1. PICK b \in Node : GoesOn(a, b) /\ n \in Path(b)
      BY <2>1, <2>3 DEF PathAt
    <3>2. c \in Path(b)
      BY <1>1, <3>1, GoesOnUses DEF Follows
    <3> QED BY <2>1, <3>1, <3>2 DEF PathAt
  <2> QED BY <2>2, <2>3
<1>2. S \in SUBSET Node /\ \A a \in Node : (\A b \in Node : Uses(a, b) => b \in S) => a \in S
  BY <1>1
<1>3. S = Node
  <2> HIDE DEF S
  <2> QED BY <1>2, BottomUp
<1> QED BY <1>3

(* A node that is being polled is awaited by one that goes on with it.     *)
LEMMA PolledGoesOn ==
  ASSUME Inv, Routed, NEW n \in Node, NEW c \in Node, c \in {Left[n], Right[n]},
         frame[c] \in Polling
  PROVE  frame[n] \in Polling /\ GoesOn(n, c) /\ Due(c).ret = "Incomplete"
<1>1. /\ Awaits(n, c) /\ Uses(n, c) /\ NodeInv(n) /\ NodeInv(c) /\ RouteInv(n) /\ RouteInv(c)
      /\ Left[n] # Right[n]
  BY Stack, TreeAssumption DEF Inv, Routed
<1>2. Due(c).ret = "Incomplete"
  BY <1>1 DEF NodeInv, RouteInv
<1>3. CASE kind[n] = "And"
  BY <1>1, <1>2, <1>3 DEF NodeInv, AndInv, Awaits, GoesOn, Binary
<1>4. CASE kind[n] \in {"Or", "OrStrict"}
  BY <1>1, <1>2, <1>4 DEF NodeInv, OrInv, RouteInv, Awaits, GoesOn, Binary
<1>5. CASE kind[n] \in Unary
  BY <1>1, <1>2, <1>5 DEF NodeInv, UnaryInv, Awaits, GoesOn
<1> QED BY <1>1, <1>3, <1>4, <1>5 DEF Uses, Binary

(* poll_action reaches the nodes of the route only: a branch that lost its *)
(* preflight, or that completed in it, is never polled, however the polls  *)
(* and the wakeups interleave (State::A/B of ext/or.rs, MaybeDone of       *)
(* ext/and.rs).                                                            *)
THEOREM Confinement == Spec => []OnlyRouteIsPolled
<1>1. RoutedInv => OnlyRouteIsPolled
  <2> SUFFICES ASSUME RoutedInv PROVE OnlyRouteIsPolled
    OBVIOUS
  <2> DEFINE S == {n \in Node : frame[n] \in Polling => n \in Path(Root)}
  <2>1. /\ TypeOK /\ TreeInv /\ Inv /\ Routed /\ Root \in Node
        /\ \A n \in Node : NodeInv(n) /\ RouteInv(n) /\ PathAt(n)
    BY TreeAssumption, PathUnfold DEF RoutedInv, Inv, Routed
  <2>2. Root \in S
    BY <2>1 DEF NodeInv, RouteInv, PathAt
  <2>3. ASSUME NEW n \in S, NEW c \in Node, c \in {Left[n], Right[n]}
        PROVE  c \in S
    BY <2>1, <2>3, PolledGoesOn, RouteDown DEF Follows
  <2>4. S \in SUBSET Node
    OBVIOUS
  <2>5. S = Node
    <3> HIDE DEF S
    <3> QED BY <2>2, <2>3, <2>4, TreeAssumption
  <2>6. Path(Root) = Route[Root][0]
    BY <2>1, EntryUnfold DEF Path
  <2> QED BY <2>5, <2>6 DEF OnlyRouteIsPolled
<1> QED BY <1>1, RoutedAlways, PTL

-----------------------------------------------------------------------------
(* Errors.                                                                 *)

(* A step of n passes the error of the child it was awaiting on, unless    *)
(* n is a Recover or an Or that has another branch.                        *)
ErrorStep(n) ==
  /\ \A c \in Node : Uses(n, c) /\ Awaits(n, c) /\ Errs(c) =>
       \/ Errs(n)'
       \/ kind[n] = "Recover" /\ state'[n] = "InFlight"
       \/ kind[n] \in {"Or", "OrStrict"} /\ ret[c] = "Rejected"
  /\ kind[n] = "Recover" /\ state[n] = "InFlight" => state'[n] = "InFlight"

(* And returns the error of either child.                                  *)
LEMMA EAnd ==
  ASSUME Inv, NEW n \in Node, AndStep(n)
  PROVE  ErrorStep(n)
<1> USE KindAssumption DEF Enters, Resumes
<1>0. kind[n] = "And"
  BY DEF AndStep, AndPreflight, AndPreflightLeft, AndPreflightRight,
     AndPollLeft, AndPollRight, AndPolledLeft, AndPolledRight, AndPolled, AndTakeItem
<1>1. kind[n] = "And" /\ NodeInv(n) /\ TypeOK /\ Left[n] # Right[n]
  BY <1>0, Children DEF Inv, Binary
<1> SUFFICES ASSUME NEW c \in Node, Uses(n, c), Awaits(n, c), Errs(c)
             PROVE  Errs(n)'
  BY <1>1 DEF ErrorStep
<1>2. /\ frame[n] \in {"preflightLeft", "preflightRight"} => ret[c] = "Rejected"
      /\ frame[n] \in {"pollLeft", "pollRight"} => ret[c] = "Failed"
  BY <1>1 DEF NodeInv, AndInv, Awaits, Errs, Binary
<1> QED BY <1>1, <1>2 DEF Awaits, Errs, TypeOK, AndStep, AndPreflight, AndPreflightLeft,
     AndPreflightRight, AndPollLeft, AndPollRight, AndPolledLeft, AndPolledRight, AndPolled,
     AndTakeItem, Return

(* Or and OrStrict return the error of the branch they have kept.          *)
LEMMA EOr ==
  ASSUME Inv, NEW n \in Node, OrStep(n)
  PROVE  ErrorStep(n)
<1> USE DEF Enters, Resumes
<1>0. kind[n] \in {"Or", "OrStrict"}
  BY DEF OrStep, OrPreflight, OrPreflightLeft, OrPreflightRight,
     OrStrictPreflight, OrStrictPreflightLeft, OrStrictPreflightRight,
     OrPollLeft, OrPollRight, OrPoll, OrPolledLeft, OrPolledRight, OrPolled
<1>1. kind[n] \in {"Or", "OrStrict"} /\ NodeInv(n) /\ TypeOK /\ Left[n] # Right[n]
  BY <1>0, Children DEF Inv, Binary
<1> SUFFICES ASSUME NEW c \in Node, Uses(n, c), Awaits(n, c), Errs(c), ret[c] # "Rejected"
             PROVE  Errs(n)'
  BY <1>1 DEF ErrorStep
<1>2. frame[n] \in {"pollLeft", "pollRight"} /\ ret[c] = "Failed"
  BY <1>1 DEF NodeInv, OrInv, Awaits, Errs, Binary
<1> QED BY <1>1, <1>2 DEF Awaits, Errs, TypeOK, OrStep, OrPreflight, OrPreflightLeft,
     OrPreflightRight, OrStrictPreflight, OrStrictPreflightLeft, OrStrictPreflightRight,
     OrPollLeft, OrPollRight, OrPoll, OrPolledLeft, OrPolledRight, OrPolled, Return

(* Map, MapErr and AndThen return the error; Recover keeps it in flight.   *)
LEMMA EUnary ==
  ASSUME Inv, NEW n \in Node, UnaryStep(n)
  PROVE  ErrorStep(n)
<1> USE DEF Enters, Resumes
<1>1. kind[n] \in Unary /\ NodeInv(n) /\ TypeOK /\ Left[n] # Right[n] /\ kind[n] \notin Binary
  BY Children, TreeAssumption DEF Inv, Unary, Binary, UnaryStep, UnaryPreflight, UnaryPoll,
     InFlightPoll, MapReturn, AndThenPreflightReturn, AndThenPolled, RecoverPreflightReturn,
     RecoverPolled
<1>2. kind[n] = "Recover" /\ state[n] = "InFlight" => state'[n] = "InFlight"
  BY <1>1 DEF UnaryStep, UnaryPreflight, UnaryPoll, TypeOK,
     InFlightPoll, MapReturn, AndThenPreflightReturn, AndThenPolled, RecoverPreflightReturn,
     RecoverPolled, SetState
<1> SUFFICES ASSUME NEW c \in Node, Uses(n, c), Awaits(n, c), Errs(c),
                    ~(kind[n] = "Recover" /\ state'[n] = "InFlight")
             PROVE  Errs(n)'
  BY <1>1, <1>2 DEF ErrorStep
<1>3. /\ c = Left[n] /\ frame[n] \in {"preflightLeft", "pollLeft"}
      /\ frame[n] = "preflightLeft" => ret[c] = "Rejected"
      /\ frame[n] = "pollLeft" => ret[c] = "Failed"
  BY <1>1 DEF Uses, NodeInv, UnaryInv, Awaits, Errs, Unary
<1> QED BY <1>1, <1>3 DEF Errs, TypeOK, SetState, Return, UnaryStep, UnaryPreflight, UnaryPoll,
     InFlightPoll, MapReturn, AndThenPreflightReturn, AndThenPolled, RecoverPreflightReturn,
     RecoverPolled

(* So does every step of a node.                                           *)
LEMMA ENodeStep ==
  ASSUME Inv, NEW n \in Node, NodeStep(n)
  PROVE  ErrorStep(n)
<1>1. CASE LeafStep(n)
  BY <1>1, KindAssumption DEF LeafStep, OneshotPreflight, DefaultPreflight, FuturePoll, RawPoll,
     ReceiveAllTake, ReceiveAllPoll, Enters, ErrorStep, Uses, Binary, Unary, Oneshot, Parsing, Body
<1> QED BY <1>1, EAnd, EOr, EUnary DEF NodeStep

(* The errors of all nodes.                                                *)
Errors == \A m \in Node : ErrorInv(m)

(* A step of a node preserves ErrorInv of all nodes.                       *)
LEMMA ErrorNodeStep ==
  ASSUME Inv, Routed, Errors, NEW n \in Node, NodeStep(n)
  PROVE  Errors'
<1>1. Local(n) /\ ~Idle(n) /\ ErrorStep(n) /\ TypeOK /\ kind' = kind
  BY LNodeStep, Running, ENodeStep DEF Inv, Local, rigid
<1>2. SUFFICES ASSUME NEW m \in Node, NEW c \in Node, Uses(m, c)
               PROVE  /\ Errs(c)' => \/ Awaits(m, c)' \/ Errs(m)'
                                     \/ kind[m] = "Recover" /\ state'[m] = "InFlight"
                                     \/ kind[m] \in {"Or", "OrStrict"} /\ ret'[c] = "Rejected"
                      /\ ret'[m] \notin Pending \cup PollResult => ret'[c] \notin PollResult
  BY <1>1 DEF Errors, ErrorInv, Uses
<1>3. /\ NodeInv(m) /\ NodeInv(n) /\ ErrorInv(m) /\ c # m /\ c \in {Left[m], Right[m]}
      /\ ~Idle(c) => Awaits(m, c)
  BY <1>2, Stack, NotOwnChild DEF Inv, Errors, Uses
<1>4. CASE m = n
  <2>1. ret'[c] = ret[c]
    BY <1>1, <1>3, <1>4 DEF Local
  <2>2. ~Errs(n)
    BY <1>1, <1>3, <1>4 DEF NodeInv, Errs, TypeOK, Frame
  <2>3. Errs(c)' => \/ Errs(m)'
                    \/ kind[m] = "Recover" /\ state'[m] = "InFlight"
                    \/ kind[m] \in {"Or", "OrStrict"} /\ ret'[c] = "Rejected"
    BY <1>1, <1>2, <1>3, <1>4, <2>1, <2>2 DEF ErrorInv, ErrorStep, Errs
  <2>4. ret'[n] \notin Pending \cup PollResult => ret[n] = "none"
    BY <1>1, <1>3 DEF Local, Advances, NodeInv
  <2> QED BY <1>2, <1>3, <1>4, <2>1, <2>3, <2>4 DEF ErrorInv
<1>5. CASE c = n
  <2>1. Awaits(m, n) /\ frame'[m] = frame[m] /\ ret'[m] = ret[m]
    BY <1>1, <1>3, <1>5 DEF Local, Calls, Awaits
  <2>2. frame[n] \in Polling => frame[m] \in Polling
    BY <1>3, <1>5, PolledGoesOn
  <2>3. ret'[n] \in PollResult => frame[n] \in Polling
    BY <1>1 DEF Local, Advances
  <2> QED BY <1>3, <1>5, <2>1, <2>2, <2>3 DEF Awaits, NodeInv
<1>6. CASE m # n /\ c # n
  <2>1. ret'[c] = ret[c] /\ ret'[m] = ret[m] /\ state'[m] = state[m]
    BY <1>1, <1>6 DEF Local
  <2>2. Awaits(m, c) => Awaits(m, c)'
    BY <1>1, <1>6 DEF Local, Calls, Awaits
  <2> QED BY <1>2, <1>3, <2>1, <2>2 DEF ErrorInv, Errs
<1> QED BY <1>4, <1>5, <1>6

(* So does a step of AppFuture or of the executor.                         *)
LEMMA ErrorOutside ==
  ASSUME Inv, Errors, Outside
  PROVE  Errors'
<1>1. ret' = ret /\ state' = state /\ kind' = kind
  BY OutsideKeeps DEF rigid
<1>2. \A m, c \in Node : Awaits(m, c) => Awaits(m, c)'
  BY OutsideKeeps DEF Awaits
<1> QED BY <1>1, <1>2 DEF Errors, ErrorInv, Uses, Errs

(* So it holds in every reachable state.                                   *)
LEMMA ErrorsAlways == Spec => []Errors
<1>1. Init => Errors
  BY DEF Init, Errors, ErrorInv, Errs
<1>2. Errors /\ RoutedInv /\ [Next]_vars => Errors'
  BY ErrorNodeStep, ErrorOutside DEF Next, Outside, RoutedInv
<1> QED BY <1>1, <1>2, RoutedAlways, PTL DEF Spec

(* Once nothing runs, an error below a has reached a or is handled.        *)
Surfaces(a) ==
  \A n \in Below[a] : Errs(n) =>
    \/ Errs(a) /\ (ret[a] = "Rejected" => ret[n] = "Rejected")
    \/ \E b \in Below[a] : Handles(b, n)

(* When nothing runs, that is so for every node.                           *)
LEMMA ErrorsUp ==
  ASSUME Inv, Errors, \A n \in Node : Idle(n)
  PROVE  \A a \in Node : Surfaces(a)
<1> DEFINE S == {a \in Node : Surfaces(a)}
<1>1. ASSUME NEW a \in Node, \A c \in Node : Uses(a, c) => Surfaces(c)
      PROVE  Surfaces(a)
  <2> SUFFICES ASSUME NEW n \in Below[a], Errs(n)
               PROVE  \/ Errs(a) /\ (ret[a] = "Rejected" => ret[n] = "Rejected")
                      \/ \E b \in Below[a] : Handles(b, n)
    BY DEF Surfaces
  <2>1. /\ a \in Below[a]
        /\ \A c \in Node : Uses(a, c) => Below[c] \subseteq Below[a]
        /\ n # a => \E c \in Node : Uses(a, c) /\ n \in Below[c]
    BY BelowUnfold, UsedNodes DEF Inv, Uses
  <2>2. CASE n = a
    BY <2>2
  <2>3. CASE n # a
    <3>1. PICK c \in Node : Uses(a, c) /\ n \in Below[c]
      BY <2>1, <2>3
    <3>2. CASE \E b \in Below[c] : Handles(b, n)
      BY <2>1, <3>1, <3>2
    <3>3. CASE Errs(c) /\ (ret[c] = "Rejected" => ret[n] = "Rejected")
      <4>1. /\ \/ Errs(a)
               \/ kind[a] = "Recover" /\ state[a] = "InFlight"
               \/ kind[a] \in {"Or", "OrStrict"} /\ ret[c] = "Rejected"
            /\ ret[a] = "Rejected" => ret[c] = "Rejected"
        BY <3>1, <3>3 DEF Errors, ErrorInv, Awaits, Errs
      <4> QED BY <2>1, <3>3, <4>1 DEF Handles
    <3> QED BY <1>1, <3>1, <3>2, <3>3 DEF Surfaces
  <2> QED BY <2>2, <2>3
<1>2. S \in SUBSET Node /\ \A a \in Node : (\A c \in Node : Uses(a, c) => c \in S) => a \in S
  BY <1>1
<1>3. S = Node
  <2> HIDE DEF S
  <2> QED BY <1>2, BottomUp DEF Inv
<1> QED BY <1>3

(* A request is answered with success only if every error met on the way   *)
(* was handled: taken by a Recover, or a rejection of one branch of an Or. *)
(* No combinator drops an error of a child it has polled (the `?` and      *)
(* try_ready! of ext/*.rs).                                                *)
THEOREM NothingDropped == Spec => []ErrorsSurface
<1>1. RoutedInv /\ Errors => ErrorsSurface
  <2> SUFFICES ASSUME RoutedInv, Errors, response = "Ok"
               PROVE  \A n \in Below[Root] : Errs(n) => \E a \in Below[Root] : Handles(a, n)
    BY DEF ErrorsSurface, Errs
  <2>1. Inv /\ Succeeds(Root) /\ Idle(Root) /\ Root \in Node
    BY TreeAssumption DEF RoutedInv, AnswerInv, Inv, AppInv, TypeOK
  <2> QED BY <2>1, AllIdle, ErrorsUp DEF Surfaces, Succeeds, Errs
<1> QED BY <1>1, RoutedAlways, ErrorsAlways, PTL

-----------------------------------------------------------------------------
(* Outputs.                                                                *)

(* The output o of n from the outputs of its children.                     *)
Produces(n, o) ==
  LET l == Left[n]  r == Right[n]  c == Chosen(n, Entry[n])
  IN /\ kind[n] = "And" => Succeeds(l) /\ Succeeds(r) /\ o = out[l] \o out[r]
     /\ kind[n] \in {"Or", "OrStrict"} => Succeeds(c) /\ o = out[c]
     /\ kind[n] = "MapErr" => Succeeds(l) /\ o = out[l]
     /\ kind[n] = "Recover" => \/ Errs(l) /\ o = <<n>>
                               \/ Succeeds(l) /\ o = out[l]
     /\ kind[n] \in Segment \cup {"Eos"} => o = <<>>
     /\ kind[n] \in Parsing \cup Body \cup {"Future", "AndThen", "Map"} => o = <<n>>

OutputStep(n) ==
  /\ Succeeds(n)' => Produces(n, out'[n])
  /\ StoreInv(n)'

Stored == \A m \in Node : StoreInv(m)

(* A leaf produces its own output.                                         *)
LEMMA OLeaf ==
  ASSUME Inv, NEW n \in Node, LeafStep(n)
  PROVE  OutputStep(n)
<1> USE KindAssumption DEF Enters
<1>1. TypeOK /\ kind' = kind /\ kind[n] \in Oneshot \cup Body \cup {"Future"}
  BY DEF Inv, rigid, LeafStep, OneshotPreflight, DefaultPreflight, FuturePoll, RawPoll,
         ReceiveAllTake, ReceiveAllPoll, Body
<1>2. kind[n] \notin Binary \cup Unary
  BY <1>1 DEF Oneshot, Body, Parsing, Binary, Unary
<1>3. StoreInv(n)'
  BY <1>1, <1>2 DEF StoreInv, Binary, Unary
<1>4. ASSUME Succeeds(n)' PROVE Produces(n, out'[n])
  <2>1. CASE OneshotPreflight(n)
    BY <1>1, <1>2, <1>4, <2>1, ZenonT(40) DEF OneshotPreflight, OneshotOutput, Return, TypeOK, Succeeds,
       Produces, Oneshot, Parsing, Body, Binary, Unary
  <2>2. CASE ~OneshotPreflight(n)
    <3>1. out'[n] = <<n>> /\ kind[n] \in Body \cup {"Future"}
      <4>1. ret[n] \notin {"Completed", "Ready"}
        BY <1>1, <2>2 DEF Inv, NodeInv, LeafStep, DefaultPreflight, FuturePoll, RawPoll,
           ReceiveAllTake, ReceiveAllPoll
      <4> QED BY <1>1, <1>4, <2>2, <4>1 DEF LeafStep, DefaultPreflight, FuturePoll, RawPoll,
       ReceiveAllTake, ReceiveAllPoll, PollFuture, Return, Again, TypeOK, Succeeds, Body
    <3> QED BY <1>2, <3>1 DEF Produces, Parsing, Body, Binary, Unary
  <2> QED BY <2>1, <2>2
<1> QED BY <1>3, <1>4 DEF OutputStep

(* And produces the outputs of both children, in their order, whichever    *)
(* completed first and in whichever poll (MaybeDone::take_item).           *)
LEMMA OAnd ==
  ASSUME Inv, Stored, NEW n \in Node, AndStep(n)
  PROVE  OutputStep(n)
<1> USE DEF Enters, Resumes
<1>0. kind[n] = "And"
  BY DEF AndStep, AndPreflight, AndPreflightLeft, AndPreflightRight,
     AndPollLeft, AndPollRight, AndPolledLeft, AndPolledRight, AndPolled, AndTakeItem
<1>1. /\ NodeInv(n) /\ TypeOK /\ StoreInv(n) /\ kind' = kind
      /\ Left[n] \in Node /\ Right[n] \in Node /\ Left[n] # Right[n] /\ Left[n] # n /\ Right[n] # n
  BY <1>0, LNodeStep, Children, NotOwnChild DEF Inv, Binary, Stored, NodeStep, Local, rigid
<1>2. ret'[Left[n]] = ret[Left[n]] /\ ret'[Right[n]] = ret[Right[n]]
  BY <1>0, <1>1, LNodeStep DEF NodeStep, Local
<1>3. StoreInv(n)'
  BY <1>0, <1>1, <1>2 DEF StoreInv, Succeeds, TypeOK, Kept, AndStep, AndPreflight,
     AndPreflightLeft, AndPreflightRight, AndPollLeft, AndPollRight, AndPolledLeft,
     AndPolledRight, AndPolled, AndTakeItem
<1>4. ASSUME Succeeds(n)' PROVE AndTakeItem(n)
  <2>1. ret[n] \notin {"Completed", "Ready"}
    BY <1>1, Running, <1>0 DEF NodeInv, TypeOK, Frame, NodeStep
  <2> QED BY <1>1, <1>4, <2>1 DEF Succeeds, TypeOK, AndStep, AndPreflight, AndPreflightLeft,
       AndPreflightRight, AndPollLeft, AndPollRight, AndPolledLeft, AndPolledRight, AndPolled,
       Call, Return, Again
<1>5. ASSUME AndTakeItem(n) PROVE Produces(n, out'[n])
  BY <1>0, <1>1, <1>5, KindAssumption
     DEF AndTakeItem, Return, TypeOK, StoreInv, Produces, Parsing, Body, Binary
<1> QED BY <1>3, <1>4, <1>5 DEF OutputStep

(* Or and OrStrict produce the output of the branch they have kept.        *)
LEMMA OOr ==
  ASSUME Inv, Routed, NEW n \in Node, OrStep(n)
  PROVE  OutputStep(n)
<1> USE DEF Enters, Resumes
<1>0. kind[n] \in {"Or", "OrStrict"}
  BY DEF OrStep, OrPreflight, OrPreflightLeft, OrPreflightRight,
     OrStrictPreflight, OrStrictPreflightLeft, OrStrictPreflightRight,
     OrPollLeft, OrPollRight, OrPoll, OrPolledLeft, OrPolledRight, OrPolled
<1>1. /\ NodeInv(n) /\ RouteInv(n) /\ TypeOK /\ kind' = kind /\ ret[n] \notin {"Completed", "Ready"}
      /\ NodeStep(n) /\ ~Idle(n)
  BY <1>0, LNodeStep, Running DEF Inv, Routed, NodeStep, Local, rigid, NodeInv, TypeOK, Frame
<1>2. StoreInv(n)'
  BY <1>0, <1>1 DEF StoreInv
<1>3. ASSUME Succeeds(n)'
      PROVE  LET c == Chosen(n, Entry[n]) IN Succeeds(c) /\ out'[n] = out[c]
  <2> DEFINE Adopts(c) == Succeeds(c) /\ out'[n] = out[c]
  <2>0. ASSUME NEW c, NEW side, Choose(n, c, side) PROVE Adopts(c)
    BY <1>1, <1>3, <2>0 DEF Choose, Return, Succeeds, TypeOK
  <2> HIDE DEF Adopts
  <2>1. ASSUME OrPreflightRight(n) PROVE Adopts(Chosen(n, Entry[n]))
    <3>1. ~Return(n, "Rejected", <<>>)
      BY <1>1, <1>3 DEF Return, Succeeds, TypeOK
    <3>2. \/ LeftIsBetter(n) /\ Choose(n, Left[n], "Left")
          \/ ~LeftIsBetter(n) /\ Choose(n, Right[n], "Right")
      BY <2>1, <3>1 DEF OrPreflightRight
    <3> QED BY <2>0, <2>1, <3>2, OrChoice
  <2>2. ASSUME OrStrictPreflightLeft(n) \/ OrStrictPreflightRight(n)
        PROVE  Adopts(Chosen(n, Entry[n]))
    <3>1. ~Return(n, "Rejected", <<>>) /\ ~Call(n, "preflightRight", Right[n], "preflight")
      BY <1>1, <1>3 DEF Return, Call, Succeeds, TypeOK
    <3>2. \/ OrStrictPreflightLeft(n) /\ ret[Left[n]] \in Matched /\ Choose(n, Left[n], "Left")
          \/ OrStrictPreflightRight(n) /\ Choose(n, Right[n], "Right")
      BY <2>2, <3>1 DEF OrStrictPreflightLeft, OrStrictPreflightRight
    <3> QED BY <2>0, <3>2, StrictChoice
  <2>3. CASE OrPolledLeft(n) \/ OrPolledRight(n)
    <3>1. /\ OrPolledLeft(n) => Chosen(n, Entry[n]) = Left[n]
          /\ OrPolledRight(n) => Chosen(n, Entry[n]) = Right[n]
      BY <1>0, <1>1 DEF OrPolledLeft, OrPolledRight, OrPolled, NodeInv, OrInv, RouteInv, Binary
    <3> QED BY <1>1, <1>3, <2>3, <3>1
            DEF OrPolledLeft, OrPolledRight, OrPolled, Return, Succeeds, TypeOK
  <2>4. CASE OrPreflight(n) \/ OrPreflightLeft(n) \/ OrStrictPreflight(n) \/ OrPollLeft(n) \/ OrPollRight(n)
    BY <1>1, <1>3, <2>4 DEF OrPreflight, OrPreflightLeft, OrStrictPreflight, OrPollLeft,
       OrPollRight, OrPoll, Call, Succeeds
  <2> QED BY <2>1, <2>2, <2>3, <2>4 DEF OrStep, Adopts
<1>4. Succeeds(n)' => Produces(n, out'[n])
  BY <1>0, <1>3, KindAssumption DEF Produces, Parsing, Body, Binary
<1> QED BY <1>2, <1>4 DEF OutputStep

(* Map, AndThen, MapErr and Recover.                                       *)
LEMMA OUnary ==
  ASSUME Inv, Stored, NEW n \in Node, UnaryStep(n)
  PROVE  OutputStep(n)
<1> USE DEF Enters, Resumes
<1>0. kind[n] \in Unary /\ kind[n] \notin Binary
  BY DEF UnaryStep, UnaryPreflight, UnaryPoll, InFlightPoll, MapReturn, AndThenPreflightReturn,
     AndThenPolled, RecoverPreflightReturn, RecoverPolled, Unary, Binary
<1>1. /\ NodeInv(n) /\ StoreInv(n) /\ TypeOK /\ kind' = kind /\ ret[n] \notin {"Completed", "Ready"}
      /\ NodeStep(n) /\ ~Idle(n) /\ Left[n] \in Node /\ Left[n] # n
      /\ ret'[Left[n]] = ret[Left[n]]
  <2>1. NodeStep(n)
    BY DEF NodeStep
  <2>2. Local(n) /\ ~Idle(n) /\ NodeInv(n) /\ StoreInv(n) /\ TypeOK
    BY <2>1, LNodeStep, Running DEF Inv, Stored
  <2>3. Left[n] \in Node /\ Left[n] # n
    BY <1>0, Children, NotOwnChild
  <2>4. ret[n] \notin {"Completed", "Ready"}
    BY <2>2 DEF NodeInv, TypeOK, Frame
  <2> QED BY <2>1, <2>2, <2>3, <2>4 DEF Local, rigid
<1>2. StoreInv(n)'
  BY <1>0, <1>1 DEF StoreInv, Unary, Errs, TypeOK, SetState, UnaryStep, UnaryPreflight, UnaryPoll,
     InFlightPoll, MapReturn, AndThenPreflightReturn, AndThenPolled, RecoverPreflightReturn,
     RecoverPolled
<1>3. ASSUME Succeeds(n)' PROVE Produces(n, out'[n])
  <2>1. CASE MapReturn(n)
    BY <1>1, <1>3, <2>1, KindAssumption DEF MapReturn, Mapped, Return, Produces, Succeeds, TypeOK,
       Parsing, Body, Unary
  <2>2. CASE InFlightPoll(n)
    BY <1>1, <1>3, <2>2, KindAssumption DEF InFlightPoll, PollFuture, Return, Produces, Succeeds,
       TypeOK, StoreInv, Parsing, Body, Unary
  <2>3. CASE RecoverPreflightReturn(n) \/ RecoverPolled(n)
    BY <1>1, <1>3, <2>3, KindAssumption DEF RecoverPreflightReturn, RecoverPolled, Return, Again,
       Produces, Succeeds, TypeOK, Parsing, Body, Unary
  <2>4. CASE UnaryPreflight(n) \/ UnaryPoll(n) \/ AndThenPreflightReturn(n) \/ AndThenPolled(n)
    BY <1>1, <1>3, <2>4 DEF UnaryPreflight, UnaryPoll, AndThenPreflightReturn, AndThenPolled,
       Call, Return, Again, Succeeds, TypeOK
  <2> QED BY <2>1, <2>2, <2>3, <2>4 DEF UnaryStep
<1> QED BY <1>2, <1>3 DEF OutputStep

(* Every step of a node produces what its kind says.                       *)
LEMMA ONodeStep ==
  ASSUME Inv, Routed, Stored, NEW n \in Node, NodeStep(n)
  PROVE  OutputStep(n)
BY OLeaf, OAnd, OOr, OUnary DEF NodeStep

(* Below a node that is not running nothing runs.                          *)
LEMMA IdleBelow ==
  ASSUME Inv, NEW n \in Node, NEW c \in Node, c \in {Left[n], Right[n]}, Idle(n)
  PROVE  Idle(c)
BY Stack DEF Awaits

(* The outputs that are stored stay those of children that succeeded.      *)
LEMMA StoredStep ==
  ASSUME Inv, Routed, Stored, NEW n \in Node, NodeStep(n), NEW m \in Node, m # n
  PROVE  StoreInv(m)'
<1>1. Local(n) /\ ~Idle(n) /\ NodeInv(m) /\ StoreInv(m) /\ kind' = kind /\ HasChildren(m, kind[m])
  BY LNodeStep, Running DEF Inv, Stored, Local, rigid, TreeInv
<1>2. n \in {Left[m], Right[m]} => Awaits(m, n) /\ Uses(m, n)
  BY <1>1, Stack
<1>3. CASE kind[m] = "And"
  <2>1. ASSUME NEW c \in {Left[m], Right[m]}, maybe'[c] = "Ready" PROVE Succeeds(c)'
    <3>1. c \in Node /\ maybe'[c] = maybe[c]
      BY <1>1, <1>3, TreeAssumption DEF HasChildren, Binary, Local
    <3>2. c # n
      BY <1>1, <1>2, <1>3, <2>1, <3>1, Children DEF NodeInv, AndInv, Awaits, Binary
    <3> QED BY <1>1, <1>3, <2>1, <3>1, <3>2 DEF StoreInv, Succeeds, Local
  <2> QED BY <1>1, <1>3, <2>1 DEF StoreInv
<1>4. CASE kind[m] = "Recover"
  <2>1. ASSUME state'[m] = "InFlight" PROVE Errs(Left[m])'
    <3>1. Left[m] \in Node /\ state[m] = "InFlight" /\ Errs(Left[m])
      BY <1>1, <1>4, <2>1 DEF HasChildren, Unary, Local, StoreInv
    <3>2. Left[m] # n
      BY <1>1, <1>2, <1>4, <3>1 DEF NodeInv, UnaryInv, Awaits, Unary
    <3> QED BY <1>1, <3>1, <3>2 DEF Local, Errs
  <2> QED BY <1>1, <1>4, <2>1 DEF StoreInv
<1> QED BY <1>1, <1>3, <1>4 DEF StoreInv

(* The outputs of all nodes.                                               *)
Outputs == \A m \in Node : OutputInv(m)

(* The values of the nodes that are not running stay.                      *)
LEMMA ValueStays ==
  ASSUME Inv, NEW n \in Node, NodeStep(n)
  PROVE  \A m \in Node, c \in Nat : Idle(m) => Value'[m][c] = Value[m][c]
<1> DEFINE A == {m \in Node : Idle(m)}
<1>1. Local(n) /\ ~Idle(n) /\ TypeOK /\ TreeInv /\ TypeOK' /\ TreeInv'
  BY LNodeStep, Running DEF Inv
<1>2. \A m \in Node, c \in Node : m \in A /\ Uses(m, c) => c \in A /\ ret'[c] = ret[c]
  BY <1>1, IdleBelow DEF Uses, Local
<1>3. UNCHANGED <<kind, path, accept>>
  BY <1>1 DEF Local, rigid
<1> HIDE DEF A
<1>4. \A m \in Node, c \in Nat : m \in A => Value'[m][c] = Value[m][c]
  BY <1>1, <1>2, <1>3, ValueKept
<1> QED BY <1>4 DEF A

(* The nodes other than the one that steps keep their output.              *)
LEMMA OthersOutput ==
  ASSUME Inv, Outputs, NEW n \in Node, NodeStep(n), NEW m \in Node, m # n, Succeeds(m)'
  PROVE  out'[m] = Value'[m][Entry[m]]
<1>1. Local(n) /\ Shape(n) /\ TypeOK /\ TreeInv /\ NodeInv(m) /\ OutputInv(m)
  BY LNodeStep, ShapeOf DEF Inv, Outputs
<1>2. out'[m] = out[m] /\ Succeeds(m)
  BY <1>1 DEF Shape, Return, Calling, Call, Again, TypeOK, Local, Succeeds
<1>3. Idle(m) /\ Entry[m] \in Nat
  BY <1>1, <1>2, EntryUnfold DEF NodeInv, TypeOK, Frame, Succeeds
<1>4. Value'[m][Entry[m]] = Value[m][Entry[m]]
  BY <1>3, ValueStays
<1> QED BY <1>1, <1>2, <1>4 DEF OutputInv

(* The output that a node produces is its value.                           *)
LEMMA OwnOutput ==
  ASSUME Inv, Outputs, NEW n \in Node, NodeStep(n), Produces(n, out'[n])
  PROVE  out'[n] = Value'[n][Entry[n]]
<1> DEFINE c == Entry[n]
<1>1. Local(n) /\ TypeOK /\ TreeInv /\ TypeOK' /\ TreeInv' /\ UNCHANGED <<kind, path, accept>>
  BY LNodeStep DEF Inv, Local, rigid
<1>2. ValueAt(n, c)' /\ c' = c /\ c \in Nat
  <2>1. c \in Nat /\ c' = c
    BY <1>1, EntryUnfold, EntryRigid
  <2>2. \A d \in Nat : ValueAt(n, d)'
    BY <1>1, ValueNext
  <2> QED BY <2>1, <2>2 DEF ValueAt
<1>3. ASSUME NEW d \in Node, Uses(n, d), Succeeds(d)
      PROVE  out[d] = Value'[d][Entry[d]]
  <2>1. NodeInv(d) /\ OutputInv(d) /\ Entry[d] \in Nat
    BY <1>1, EntryUnfold DEF Inv, Outputs
  <2>2. Idle(d)
    BY <1>1, <1>3, <2>1 DEF NodeInv, TypeOK, Frame, Succeeds
  <2> QED BY <1>3, <2>1, <2>2, ValueStays DEF OutputInv
<1>4. /\ kind[n] \in Binary \cup Unary => Uses(n, Left[n]) /\ Left[n] \in Node /\ Entry[Left[n]] = c
      /\ kind[n] \in Binary => Uses(n, Right[n]) /\ Right[n] \in Node /\ Entry[Right[n]] = RightEntry(n, c)
                               /\ Left[n] # Right[n]
      /\ Chosen(n, c) \in {Left[n], Right[n]}
  BY <1>1, EntryUnfold, UsedNodes, Children DEF Down
<1>5. kind' = kind /\ Chosen(n, c)' = Chosen(n, c) /\ RightEntry(n, c)' = RightEntry(n, c)
  BY <1>1, <1>2, ChosenRigid
<1> HIDE DEF c
<1>6. CASE kind[n] = "And"
  <2>1. Value'[n][c] = Value'[Left[n]][c] \o Value'[Right[n]][RightEntry(n, c)]
    BY <1>2, <1>5, <1>6 DEF ValueAt
  <2>2. /\ Succeeds(Left[n]) /\ Succeeds(Right[n])
        /\ out'[n] = out[Left[n]] \o out[Right[n]]
    BY <1>6 DEF Produces
  <2>3. /\ out[Left[n]] = Value'[Left[n]][c]
        /\ out[Right[n]] = Value'[Right[n]][RightEntry(n, c)]
    BY <1>3, <1>4, <1>6, <2>2 DEF Binary
  <2> QED BY <2>1, <2>2, <2>3 DEF c
<1>7. CASE kind[n] \in {"Or", "OrStrict"}
  <2>1. RightEntry(n, c) = c
    BY <1>7 DEF RightEntry
  <2> QED BY <1>2, <1>3, <1>4, <1>5, <1>7, <2>1 DEF ValueAt, Produces, Binary, c
<1>8. CASE kind[n] = "MapErr"
  BY <1>2, <1>3, <1>4, <1>5, <1>8 DEF ValueAt, Produces, Unary, c
<1>9. CASE kind[n] = "Recover"
  <2>1. ret'[Left[n]] = ret[Left[n]]
    BY <1>1, <1>4, <1>9, NotOwnChild DEF Local, Unary
  <2> QED BY <1>2, <1>3, <1>4, <1>5, <1>9, <2>1 DEF ValueAt, Produces, Unary, Succeeds, Errs, c
<1>10. CASE kind[n] \notin Binary \cup {"MapErr", "Recover"}
  BY <1>1, <1>2, <1>5, <1>10, KindCases DEF ValueAt, Produces, Unary, c
<1> QED BY <1>6, <1>7, <1>8, <1>9, <1>10 DEF Binary

(* A step of a node preserves the outputs of all nodes.                    *)
LEMMA OutputNodeStep ==
  ASSUME Inv, Routed, Stored, Outputs, NEW n \in Node, NodeStep(n)
  PROVE  Stored' /\ Outputs'
<1>1. OutputStep(n) /\ Entry' = Entry
  BY ONodeStep, LNodeStep, EntryRigid DEF Local, rigid
<1>2. ASSUME NEW m \in Node PROVE StoreInv(m)'
  BY <1>1, StoredStep DEF OutputStep
<1>3. ASSUME NEW m \in Node PROVE OutputInv(m)'
  BY <1>1, OthersOutput, OwnOutput DEF OutputStep, OutputInv
<1> HIDE DEF StoreInv, OutputInv
<1> QED BY <1>2, <1>3 DEF Stored, Outputs

(* So does a step of AppFuture or of the executor.                         *)
LEMMA OutputOutside ==
  ASSUME Inv, Stored, Outputs, Outside
  PROVE  Stored' /\ Outputs'
<1>1. ret' = ret /\ state' = state /\ kind' = kind /\ maybe' = maybe /\ out' = out
      /\ UNCHANGED <<kind, path, accept>>
  BY OutsideKeeps DEF rigid
<1>2. Entry' = Entry /\ Entry \in [Node -> Nat]
  BY <1>1, EntryRigid, EntryUnfold DEF Inv
<1>3. Inv'
  BY LNext DEF Outside, Next
<1>4. \A m \in Node, c \in Nat : m \in Node => Value'[m][c] = Value[m][c]
  BY <1>1, <1>3, UsedNodes, ValueKept DEF Inv
<1> QED BY <1>1, <1>2, <1>4 DEF Stored, StoreInv, Outputs, OutputInv, Succeeds, Errs

(* So they are right in every reachable state.                             *)
LEMMA OutputsAlways == Spec => [](Stored /\ Outputs)
<1>1. Init => Stored /\ Outputs
  <2> SUFFICES ASSUME Init, NEW n \in Node PROVE StoreInv(n) /\ OutputInv(n)
    BY DEF Stored, Outputs
  <2>1. TreeInv /\ state[n] # "InFlight" /\ ret[n] = "none"
    BY LInit DEF Init, Inv, Created
  <2>2. kind[n] = "And" => maybe[Left[n]] = "Init" /\ maybe[Right[n]] = "Init"
    BY <2>1 DEF Init, TreeInv, HasChildren, Binary
  <2> QED BY <2>1, <2>2 DEF StoreInv, OutputInv, Succeeds
<1>2. Stored /\ Outputs /\ RoutedInv /\ [Next]_vars => Stored' /\ Outputs'
  BY OutputNodeStep, OutputOutside DEF Next, Outside, RoutedInv
<1> QED BY <1>1, <1>2, RoutedAlways, PTL DEF Spec

(* The response is the value of the route: every endpoint on it has        *)
(* contributed its output once and in the order of the tree, although And  *)
(* completes its children in any order and over several polls and stores   *)
(* what it has until both are there (ext/and.rs, MaybeDone).               *)
THEOREM Completeness == Spec => []ResponseIsComplete
<1>1. RoutedInv /\ Outputs => ResponseIsComplete
  BY TreeAssumption, EntryUnfold
     DEF RoutedInv, Inv, AnswerInv, Outputs, OutputInv, ResponseIsComplete
<1> QED BY <1>1, RoutedAlways, OutputsAlways, PTL

-----------------------------------------------------------------------------
(* Longest match.                                                          *)

(* The i-th of the alternatives s matches, and beats those that do.        *)
Gets(s, i) == Match[s[i]][0]

(* The i-th matches, popping more segments than any other that matches, or *)
(* as many as later ones.                                                  *)
Wins(s, i) ==
  /\ i \in DOMAIN s /\ IsMatch(Gets(s, i))
  /\ \A j \in DOMAIN s : IsMatch(Gets(s, j)) => \/ Gets(s, j).pos < Gets(s, i).pos
                                                \/ Gets(s, j).pos = Gets(s, i).pos /\ i <= j

(* None of them matches.                                                   *)
None(s) == \A i \in DOMAIN s : ~IsMatch(Gets(s, i))

(* The answer m is that of the winner of s.                                *)
Best(s, m) ==
  /\ IsMatch(m) => \E i \in DOMAIN s : Wins(s, i) /\ m = Gets(s, i)
  /\ ~IsMatch(m) => None(s)

(* The alternatives of an Or are those of its branches, one after the      *)
(* other.                                                                  *)
LEMMA Joined ==
  ASSUME NEW s \in Seq(Node), NEW t \in Seq(Node)
  PROVE  /\ s \o t \in Seq(Node) /\ Len(s) \in Nat /\ Len(t) \in Nat
         /\ DOMAIN s = 1 .. Len(s) /\ DOMAIN t = 1 .. Len(t)
         /\ DOMAIN (s \o t) = 1 .. (Len(s) + Len(t))
         /\ \A i \in DOMAIN s : Gets(s \o t, i) = Gets(s, i)
         /\ \A i \in DOMAIN t : Gets(s \o t, Len(s) + i) = Gets(t, i)
         /\ \A i \in DOMAIN (s \o t) : i \in DOMAIN s \/ i - Len(s) \in DOMAIN t
BY DEF Gets

(* Or keeps the better of the two best.                                    *)
LEMMA BestOfBoth ==
  ASSUME TypeOK, TreeInv, NEW s \in Seq(Node), NEW t \in Seq(Node),
         NEW l \in Answers, NEW r \in Answers, Best(s, l), Best(t, r)
  PROVE  Best(s \o t, IF Keep(l, r) THEN l ELSE r)
<1> DEFINE u == s \o t
<1>1. /\ Len(s) \in Nat /\ Len(t) \in Nat
      /\ DOMAIN s = 1 .. Len(s) /\ DOMAIN t = 1 .. Len(t)
      /\ DOMAIN u = 1 .. (Len(s) + Len(t))
      /\ \A i \in DOMAIN s : Gets(u, i) = Gets(s, i)
      /\ \A i \in DOMAIN t : Gets(u, Len(s) + i) = Gets(t, i)
  BY Joined
<1>2. \A i \in DOMAIN u : \/ i \in DOMAIN s /\ Gets(u, i) = Gets(s, i)
                          \/ i - Len(s) \in DOMAIN t /\ Gets(u, i) = Gets(t, i - Len(s))
  <2> SUFFICES ASSUME NEW i \in DOMAIN u, i \notin DOMAIN s
               PROVE  i - Len(s) \in DOMAIN t /\ Gets(u, i) = Gets(t, i - Len(s))
    BY <1>1
  <2>1. i - Len(s) \in DOMAIN t /\ Len(s) + (i - Len(s)) = i
    BY <1>1
  <2> QED BY <1>1, <2>1
<1>3. /\ \A i \in DOMAIN s : Gets(s, i) \in Answers
      /\ \A i \in DOMAIN t : Gets(t, i) \in Answers
  BY MatchUnfold DEF Gets
<1> HIDE DEF u
<1>4. CASE Keep(l, r)
  <2>1. PICK i \in DOMAIN s : Wins(s, i) /\ l = Gets(s, i)
    BY <1>4 DEF Best, Keep
  <2>2. ASSUME NEW j \in DOMAIN t, IsMatch(Gets(t, j)) PROVE Gets(t, j).pos <= l.pos
    <3>1. IsMatch(r)
      BY <2>2 DEF Best, None
    <3>2. PICK k \in DOMAIN t : Wins(t, k) /\ r = Gets(t, k)
      BY <3>1 DEF Best
    <3>3. Gets(t, j).pos <= r.pos /\ r.pos <= l.pos
      BY <1>3, <1>4, <2>2, <3>1, <3>2 DEF Wins, Keep, Answers
    <3> QED BY <1>3, <3>3 DEF Answers
  <2>3. ASSUME NEW j \in DOMAIN u, IsMatch(Gets(u, j))
        PROVE  Gets(u, j).pos < l.pos \/ (Gets(u, j).pos = l.pos /\ i <= j)
    <3>1. CASE j \in DOMAIN s /\ Gets(u, j) = Gets(s, j)
      BY <2>1, <2>3, <3>1 DEF Wins
    <3>2. CASE j \notin DOMAIN s
      <4>1. j - Len(s) \in DOMAIN t /\ Gets(u, j) = Gets(t, j - Len(s)) /\ i <= j
        BY <1>1, <1>2, <3>2
      <4> QED BY <1>3, <2>2, <2>3, <4>1 DEF Answers
    <3> QED BY <1>1, <3>1, <3>2
  <2>4. i \in DOMAIN u /\ Gets(u, i) = l /\ IsMatch(l)
    BY <1>1, <1>4, <2>1 DEF Keep
  <2>5. Wins(u, i)
    BY <2>3, <2>4 DEF Wins
  <2> QED BY <1>4, <2>4, <2>5 DEF Best, u
<1>5. CASE ~Keep(l, r) /\ IsMatch(r)
  <2>1. PICK k \in DOMAIN t : Wins(t, k) /\ r = Gets(t, k)
    BY <1>5 DEF Best
  <2> DEFINE i == Len(s) + k
  <2>2. ASSUME NEW j \in DOMAIN s, IsMatch(Gets(s, j)) PROVE Gets(s, j).pos < r.pos
    <3>1. IsMatch(l)
      BY <2>2 DEF Best, None
    <3>2. PICK h \in DOMAIN s : Wins(s, h) /\ l = Gets(s, h)
      BY <3>1 DEF Best
    <3>3. Gets(s, j).pos <= l.pos /\ l.pos < r.pos
      BY <1>3, <1>5, <2>2, <3>1, <3>2 DEF Wins, Keep, Answers
    <3> QED BY <1>3, <3>3 DEF Answers
  <2>3. ASSUME NEW j \in DOMAIN u, IsMatch(Gets(u, j))
        PROVE  Gets(u, j).pos < r.pos \/ (Gets(u, j).pos = r.pos /\ i <= j)
    <3>1. CASE j \in DOMAIN s
      BY <1>1, <2>2, <2>3, <3>1
    <3>2. CASE j \notin DOMAIN s
      <4>1. j - Len(s) \in DOMAIN t /\ Gets(u, j) = Gets(t, j - Len(s))
        BY <1>2, <3>2
      <4>2. k <= j - Len(s) => i <= j
        BY <1>1, <2>1
      <4> QED BY <2>1, <2>3, <4>1, <4>2 DEF Wins
    <3> QED BY <3>1, <3>2
  <2>4. i \in DOMAIN u /\ Gets(u, i) = r
    BY <1>1, <2>1
  <2> HIDE DEF i
  <2>5. Wins(u, i)
    BY <1>5, <2>3, <2>4 DEF Wins
  <2> QED BY <1>5, <2>4, <2>5 DEF Best, u
<1>6. CASE ~IsMatch(r) /\ ~IsMatch(l)
  <2>1. None(u)
    BY <1>2, <1>6 DEF Best, None
  <2> QED BY <1>6, <2>1 DEF Best, u
<1> QED BY <1>4, <1>5, <1>6 DEF Keep

(* The answer of every node is that of the best of its alternatives.       *)
LEMMA BestWins ==
  ASSUME TypeOK, TreeInv
  PROVE  \A a \in Node : Best(Alternatives[a], Match[a][0])
<1> DEFINE S == {a \in Node : Best(Alternatives[a], Match[a][0])}
<1>1. ASSUME NEW a \in Node, \A b \in Node : Uses(a, b) => Best(Alternatives[b], Match[b][0])
      PROVE  Best(Alternatives[a], Match[a][0])
  <2>1. CASE kind[a] = "Or"
    <3>1. /\ Left[a] \in Node /\ Right[a] \in Node /\ Uses(a, Left[a]) /\ Uses(a, Right[a])
          /\ Alternatives[a] = Alternatives[Left[a]] \o Alternatives[Right[a]]
          /\ Alternatives[Left[a]] \in Seq(Node) /\ Alternatives[Right[a]] \in Seq(Node)
      BY <2>1, UsedNodes, AlternativesUnfold DEF Binary
    <3>2. /\ Match[a][0] = IF Keep(Match[Left[a]][0], Match[Right[a]][0])
                           THEN Match[Left[a]][0] ELSE Match[Right[a]][0]
          /\ Match[Left[a]][0] \in Answers /\ Match[Right[a]][0] \in Answers
      <4>1. Match[a][0] = Decide(a, 0, Match[Left[a]], Match[Right[a]])
        BY MatchUnfold
      <4>2. Match[Left[a]][0] \in Answers /\ Match[Right[a]][0] \in Answers
        BY <3>1, MatchUnfold
      <4>. QED
        BY <2>1, <4>1, <4>2, KindAssumption DEF Decide, Binary, Body
    <3> QED BY <1>1, <3>1, <3>2, BestOfBoth
  <2>2. CASE kind[a] # "Or"
    <3>1. Alternatives[a] = <<a>> /\ Match[a][0] \in Answers
      BY <2>2, AlternativesUnfold, MatchUnfold
    <3> QED BY <3>1 DEF Best, None, Wins, Gets, Answers
  <2> QED BY <2>1, <2>2
<1>2. S \in SUBSET Node /\ \A a \in Node : (\A b \in Node : Uses(a, b) => b \in S) => a \in S
  BY <1>1
<1>3. S = Node
  <2> HIDE DEF S
  <2> QED BY <1>2, BottomUp
<1> QED BY <1>3

(* Of the alternatives that are joined by Or the one that pops most        *)
(* segments is taken, the first of those that pop as many, however the Ors *)
(* are nested: preferring by length in each Or (ext/or.rs) is preferring   *)
(* by length among all.                                                    *)
THEOREM LongestMatch == Spec => []LongestMatchWins
<1>1. RoutedInv /\ RoutingIsPure => LongestMatchWins
  <2> SUFFICES ASSUME RoutedInv, RoutingIsPure, app = "Taken", Idle(Root)
               PROVE  LET alts == Alternatives[Root]
                      IN /\ ret[Root] = "Rejected" <=> ~\E i \in DOMAIN alts : IsMatch(Gets(alts, i))
                         /\ \A i \in DOMAIN alts : Wins(alts, i) => Answer(ret[Root], cursor) = Gets(alts, i)
    BY DEF LongestMatchWins, Wins, Gets
  <2> DEFINE s == Alternatives[Root]
             m == Answer(ret[Root], cursor)
  <2>1. Root \in Node /\ TypeOK /\ TreeInv
    BY TreeAssumption DEF RoutedInv, Inv
  <2>2. m = Match[Root][0] /\ m \in Answers /\ Best(s, m) /\ s \in Seq(Node)
    BY <2>1, MatchUnfold, BestWins, AlternativesUnfold DEF RoutingIsPure
  <2>3. \A i \in DOMAIN s : Gets(s, i) \in Answers
    BY <2>1, <2>2, MatchUnfold DEF Gets
  <2>4. ret[Root] = "Rejected" <=> ~IsMatch(m)
    BY <2>2 DEF IsMatch, Answer, Answers
  <2> HIDE DEF m, s
  <2>5. \A i, j \in DOMAIN s : Wins(s, i) /\ Wins(s, j) => i = j
    <3> SUFFICES ASSUME NEW i \in DOMAIN s, NEW j \in DOMAIN s, Wins(s, i), Wins(s, j) PROVE i = j
      OBVIOUS
    <3>1. i \in Nat /\ j \in Nat /\ Gets(s, i).pos \in Nat /\ Gets(s, j).pos \in Nat
      BY <2>2, <2>3 DEF Answers
    <3> QED BY <3>1 DEF Wins
  <2>6. IsMatch(m) => \E i \in DOMAIN s : IsMatch(Gets(s, i))
    BY <2>2 DEF Best, Wins
  <2>7. ASSUME NEW i \in DOMAIN s, Wins(s, i) PROVE m = Gets(s, i)
    BY <2>2, <2>5, <2>7 DEF Best, None, Wins
  <2> QED BY <2>2, <2>4, <2>6, <2>7 DEF Best, None, m, s
<1> QED BY <1>1, Purity, RoutedAlways, PTL

=============================================================================

--------------------------- MODULE EndpointAction ---------------------------
(***************************************************************************)
(* The life of one request inside finchers: an `AppFuture` that drives the *)
(* tree of `EndpointAction`s built by the combinators of `EndpointExt`.    *)
(*                                                                         *)
(* An endpoint is a tree; a node is one action value.  `preflight` and     *)
(* `poll_action` of a node call the same method of its children, so the    *)
(* model has one step per piece of code between two such calls, and        *)
(* frame[n] is the stack frame of node n: which method runs and which      *)
(* child it waits for.  Outside a call a node is what the Rust value keeps *)
(* between two calls: its enum state, the MaybeDone cells of `And`, the    *)
(* `in_flight` future of `AndThen` and `Recover`.                          *)
(*                                                                         *)
(* Every tree over the given positions, every request path and every       *)
(* completion order of the external futures is a behaviour.                *)
(***************************************************************************)
EXTENDS Naturals, Sequences

CONSTANTS
  Node,       \* positions of a tree of endpoints
  NoNode,     \* "no child at this position"
  Root,       \* the endpoint given to App::new
  Left,       \* Left[n], Right[n]: the first and the second child position of n
  Right,
  Segment,    \* path segments; as a node's kind, segment(s) matching the literal s
  Endpoints,  \* the trees: functions from Node to Kind
  Paths       \* the request paths: sequences over Segment

Binary  == {"And", "Or", "OrStrict"}
Unary   == {"AndThen", "Recover", "Map", "MapErr"}
Parsing == {"Param", "Remains", "Guard"}    \* may reject a value they read
Body    == {"ReceiveAll", "Raw"}            \* take the request body
Oneshot == Segment \cup Parsing \cup {"Eos"}
Kind    == Binary \cup Unary \cup Oneshot \cup Body \cup {"Future"}

HasChildren(n, k) ==    \* the positions below n suit a node of kind k
  /\ k \in Binary \cup Unary => Left[n] \in Node
  /\ k \in Binary => Right[n] \in Node

ASSUME TreeAssumption ==
  /\ NoNode \notin Node
  /\ Root \in Node
  /\ Left  \in [Node -> Node \cup {NoNode}]
  /\ Right \in [Node -> Node \cup {NoNode}]
  /\ \A m, n \in Node : Left[m]  \in Node /\ Left[m]  = Left[n]  => m = n
  /\ \A m, n \in Node : Right[m] \in Node /\ Right[m] = Right[n] => m = n
  /\ \A m, n \in Node : Left[m] \in Node => Left[m] # Right[n]
  /\ \A n \in Node : Left[n] # Root /\ Right[n] # Root
  /\ \A S \in SUBSET Node :       \* every position is reached from Root
       /\ Root \in S
       /\ \A n \in S : {Left[n], Right[n]} \cap Node \subseteq S
       => S = Node

ASSUME KindAssumption ==
  /\ Segment \cap (Binary \cup Unary \cup Parsing \cup Body \cup {"Eos", "Future"}) = {}
  /\ Endpoints \subseteq [Node -> Kind]
  /\ \A k \in Endpoints, n \in Node : HasChildren(n, k[n])

ASSUME PathAssumption == Paths \subseteq Seq(Segment)

VARIABLES
  kind,      \* the endpoint tree of the application; never changes
  path,      \* the path of the request; never changes
  accept,    \* does the parser or the guard at n accept what it reads; never changes
  frame,     \* the stack frame of the call of n in progress, "none" outside a call
  ret,       \* what the last call of n returned, "none" before the first return
  state,     \* the state of the action value at n
  maybe,     \* the MaybeDone cell in which an And keeps its child n
  out,       \* the output tuple of n: the nodes that produced its elements
  cursor,    \* PreflightContext: the number of segments popped
  saved,     \* the other PreflightContext an Or or OrStrict holds: a clone
  body,      \* is the request body still in AppFuture.body
  io,        \* the external future at n: "pending", "ok" or "err"
  waiting,   \* nodes whose pending future will wake the task
  notified,  \* the executor has to poll the task
  app,       \* AppFutureState: "Start" is Start(Some), "Taken" is Start(None)
  polling,   \* the executor is inside AppFuture::poll
  response   \* the result of AppFuture: "none", "Ok" or "Err"

rigid == <<kind, path, accept>>
wake  == <<io, waiting, notified>>
task  == <<app, polling, response>>
cx    == <<cursor, saved>>
vars  == <<rigid, frame, ret, state, maybe, out, cx, body, wake, task>>

PreflightResult == {"Completed", "Incomplete", "Rejected"}
PollResult      == {"Ready", "NotReady", "Failed"}
Matched         == {"Completed", "Incomplete"}     \* Ok(..) of preflight
Pending         == {"Incomplete", "NotReady"}      \* poll_action comes next
Preflighting    == {"preflight", "preflightLeft", "preflightRight"}
Polling         == {"poll", "pollLeft", "pollRight"}

(* The state Endpoint::action builds for a node of each kind.              *)
Created(k) == CASE k \in Oneshot             -> "Some"
                [] k \in {"Or", "OrStrict"}  -> "Init"
                [] k = "ReceiveAll"          -> "Start"
                [] OTHER                     -> "None"

-----------------------------------------------------------------------------
(* Calls and returns between a node and its children.                      *)

Enters(n, k, entry) == frame[n] = entry /\ kind[n] \in k

(* n stands at the point where the child it called has returned.           *)
Resumes(n, k, at, c) == frame[n] = at /\ kind[n] \in k /\ frame[c] = "none"

Call(n, at, c, entry) ==
  /\ frame' = [frame EXCEPT ![n] = at, ![c] = entry]
  /\ UNCHANGED <<ret, out>>

Return(n, result, output) ==
  /\ frame' = [frame EXCEPT ![n] = "none"]
  /\ ret' = [ret EXCEPT ![n] = result]
  /\ out' = [out EXCEPT ![n] = output]

Again(n) ==    \* the loop of a poll_action goes round
  /\ frame' = [frame EXCEPT ![n] = "poll"]
  /\ UNCHANGED <<ret, out>>

SetState(n, s) == state' = [state EXCEPT ![n] = s]

(* A future owned by n is polled: NotReady leaves the task registered.     *)
PollFuture(n) ==
  /\ \/ io[n] = "ok" /\ Return(n, "Ready", <<n>>) /\ UNCHANGED waiting
     \/ io[n] = "err" /\ Return(n, "Failed", <<>>) /\ UNCHANGED waiting
     \/ io[n] = "pending" /\ Return(n, "NotReady", <<>>) /\ waiting' = waiting \cup {n}
  /\ UNCHANGED <<io, notified>>

-----------------------------------------------------------------------------
(* Leaves.                                                                 *)

AtEnd == cursor = Len(path)

OneshotAccepts(n) ==
  CASE kind[n] \in Segment -> ~AtEnd /\ path[cursor + 1] = kind[n]
    [] kind[n] = "Eos"     -> AtEnd
    [] kind[n] = "Param"   -> ~AtEnd /\ accept[n]
    [] OTHER               -> accept[n]

(* Mutant: the end of the path is not checked before a segment is popped.  *)
OneshotCursorNoEnd(n) ==
  CASE kind[n] = "Guard"   -> cursor
    [] kind[n] = "Remains" -> Len(path)
    [] OTHER               -> cursor + 1

(* Where the leaf leaves the cursor, whether or not it accepts.            *)
OneshotCursor(n) ==
  CASE kind[n] = "Guard"   -> cursor
    [] kind[n] = "Remains" -> Len(path)
    [] OTHER               -> IF AtEnd THEN cursor ELSE cursor + 1

OneshotOutput(n) == IF kind[n] \in Parsing THEN <<n>> ELSE <<>>

OneshotPreflight(n) ==
  /\ Enters(n, Oneshot, "preflight")
  /\ state[n] = "Some"
  /\ SetState(n, "None")
  /\ cursor' = OneshotCursor(n)
  /\ IF OneshotAccepts(n) THEN Return(n, "Completed", OneshotOutput(n))
                          ELSE Return(n, "Rejected", <<>>)
  /\ UNCHANGED <<rigid, maybe, saved, body, wake, task>>

(* The default preflight of EndpointAction.                                *)
DefaultPreflight(n) ==
  /\ Enters(n, Body \cup {"Future"}, "preflight")
  /\ Return(n, "Incomplete", <<>>)
  /\ UNCHANGED <<rigid, state, maybe, cx, body, wake, task>>

FuturePoll(n) ==
  /\ Enters(n, {"Future"}, "poll")
  /\ PollFuture(n)
  /\ UNCHANGED <<rigid, state, maybe, cx, body, task>>

RawPoll(n) ==
  /\ Enters(n, {"Raw"}, "poll")
  /\ IF body THEN Return(n, "Ready", <<n>>) ELSE Return(n, "Failed", <<>>)
  /\ body' = FALSE
  /\ UNCHANGED <<rigid, state, maybe, cx, wake, task>>

(* Mutant: the body is copied, not taken.                                  *)
ReceiveAllCopy(n) ==
  /\ Enters(n, {"ReceiveAll"}, "poll")
  /\ state[n] = "Start"
  /\ IF body THEN SetState(n, "Receiving") /\ Again(n)
             ELSE Return(n, "Failed", <<>>) /\ UNCHANGED state
  /\ UNCHANGED <<rigid, maybe, cx, body, wake, task>>

(* Mutant: NotReady is returned before the body has been polled once.      *)
ReceiveAllYield(n) ==
  /\ Enters(n, {"ReceiveAll"}, "poll")
  /\ state[n] = "Start"
  /\ body' = FALSE
  /\ IF body THEN SetState(n, "Receiving") /\ Return(n, "NotReady", <<>>)
             ELSE Return(n, "Failed", <<>>) /\ UNCHANGED state
  /\ UNCHANGED <<rigid, maybe, cx, wake, task>>

ReceiveAllTake(n) ==
  /\ Enters(n, {"ReceiveAll"}, "poll")
  /\ state[n] = "Start"
  /\ body' = FALSE
  /\ IF body THEN SetState(n, "Receiving") /\ Again(n)
             ELSE Return(n, "Failed", <<>>) /\ UNCHANGED state
  /\ UNCHANGED <<rigid, maybe, cx, wake, task>>

ReceiveAllPoll(n) ==
  /\ Enters(n, {"ReceiveAll"}, "poll")
  /\ state[n] = "Receiving"
  /\ PollFuture(n)
  /\ UNCHANGED <<rigid, state, maybe, cx, body, task>>

-----------------------------------------------------------------------------
(* And: both children run, each kept in a MaybeDone cell.  The cell's own  *)
(* preflight reports Incomplete even when the child has completed, so And  *)
(* is never Completed by preflight.                                        *)

Kept(c) == IF ret[c] = "Completed" THEN "Ready" ELSE "InFlight"

AndPreflight(n) ==
  /\ Enters(n, {"And"}, "preflight")
  /\ maybe[Left[n]] = "Init"
  /\ maybe' = [maybe EXCEPT ![Left[n]] = "Taken"]
  /\ Call(n, "preflightLeft", Left[n], "preflight")
  /\ UNCHANGED <<rigid, state, cx, body, wake, task>>

AndPreflightLeft(n) ==
  /\ Resumes(n, {"And"}, "preflightLeft", Left[n])
  /\ \/ /\ ret[Left[n]] \in Matched
        /\ maybe[Right[n]] = "Init"
        /\ maybe' = [maybe EXCEPT ![Left[n]] = Kept(Left[n]), ![Right[n]] = "Taken"]
        /\ Call(n, "preflightRight", Right[n], "preflight")
     \/ /\ ret[Left[n]] = "Rejected"
        /\ Return(n, "Rejected", <<>>)
        /\ UNCHANGED maybe
  /\ UNCHANGED <<rigid, state, cx, body, wake, task>>

AndPreflightRight(n) ==
  /\ Resumes(n, {"And"}, "preflightRight", Right[n])
  /\ \/ /\ ret[Right[n]] \in Matched
        /\ maybe' = [maybe EXCEPT ![Right[n]] = Kept(Right[n])]
        /\ Return(n, "Incomplete", <<>>)
     \/ /\ ret[Right[n]] = "Rejected"
        /\ Return(n, "Rejected", <<>>)
        /\ UNCHANGED maybe
  /\ UNCHANGED <<rigid, state, cx, body, wake, task>>

(* Mutant: the first child is polled even when its output is stored.       *)
AndPollLeftAgain(n) ==
  /\ Enters(n, {"And"}, "poll")
  /\ maybe[Left[n]] \in {"InFlight", "Ready"}
  /\ Call(n, "pollLeft", Left[n], "poll")
  /\ UNCHANGED <<rigid, state, maybe, cx, body, wake, task>>

AndPollLeft(n) ==
  /\ Enters(n, {"And"}, "poll")
  /\ maybe[Left[n]] = "InFlight"
  /\ Call(n, "pollLeft", Left[n], "poll")
  /\ UNCHANGED <<rigid, state, maybe, cx, body, wake, task>>

AndPollRight(n) ==
  /\ Enters(n, {"And"}, "poll")
  /\ maybe[Left[n]] = "Ready"
  /\ maybe[Right[n]] = "InFlight"
  /\ Call(n, "pollRight", Right[n], "poll")
  /\ UNCHANGED <<rigid, state, maybe, cx, body, wake, task>>

(* try_ready! on the child that has just been polled.                      *)
AndPolled(n, at, c) ==
  /\ Resumes(n, {"And"}, at, c)
  /\ \/ /\ ret[c] = "Ready"
        /\ maybe' = [maybe EXCEPT ![c] = "Ready"]
        /\ Again(n)
     \/ /\ ret[c] \in {"NotReady", "Failed"}
        /\ Return(n, ret[c], <<>>)
        /\ UNCHANGED maybe
  /\ UNCHANGED <<rigid, state, cx, body, wake, task>>

AndPolledLeft(n)  == AndPolled(n, "pollLeft", Left[n])
AndPolledRight(n) == AndPolled(n, "pollRight", Right[n])

(* Mutant: the outputs are combined in the wrong order.                    *)
AndTakeItemSwapped(n) ==
  /\ Enters(n, {"And"}, "poll")
  /\ maybe[Left[n]] = "Ready"
  /\ maybe[Right[n]] = "Ready"
  /\ maybe' = [maybe EXCEPT ![Left[n]] = "Gone", ![Right[n]] = "Gone"]
  /\ Return(n, "Ready", out[Right[n]] \o out[Left[n]])
  /\ UNCHANGED <<rigid, state, cx, body, wake, task>>

AndTakeItem(n) ==
  /\ Enters(n, {"And"}, "poll")
  /\ maybe[Left[n]] = "Ready"
  /\ maybe[Right[n]] = "Ready"
  /\ maybe' = [maybe EXCEPT ![Left[n]] = "Gone", ![Right[n]] = "Gone"]
  /\ Return(n, "Ready", out[Left[n]] \o out[Right[n]])
  /\ UNCHANGED <<rigid, state, cx, body, wake, task>>

-----------------------------------------------------------------------------
(* Or runs the preflight of both children on the same context and keeps    *)
(* the one that popped more segments, the first on a tie.                  *)

OrPreflight(n) ==
  /\ Enters(n, {"Or"}, "preflight")
  /\ state[n] = "Init"
  /\ SetState(n, "Done")
  /\ saved' = [saved EXCEPT ![n] = cursor]
  /\ Call(n, "preflightLeft", Left[n], "preflight")
  /\ UNCHANGED <<rigid, maybe, cursor, body, wake, task>>

(* Mutant: the second child goes on where the first one stopped.           *)
OrPreflightLeftNoReset(n) ==
  /\ Resumes(n, {"Or"}, "preflightLeft", Left[n])
  /\ saved' = [saved EXCEPT ![n] = cursor]
  /\ Call(n, "preflightRight", Right[n], "preflight")
  /\ UNCHANGED <<rigid, state, maybe, cursor, body, wake, task>>

OrPreflightLeft(n) ==
  /\ Resumes(n, {"Or"}, "preflightLeft", Left[n])
  /\ cursor' = saved[n]
  /\ saved' = [saved EXCEPT ![n] = cursor]
  /\ Call(n, "preflightRight", Right[n], "preflight")
  /\ UNCHANGED <<rigid, state, maybe, body, wake, task>>

(* Mutant: the choice is reported but not stored.                          *)
ChooseForgotten(n, c, side) ==
  Return(n, ret[c], out[c]) /\ UNCHANGED state

(* The branch c, standing on side `side`, has been chosen.                 *)
Choose(n, c, side) ==
  IF ret[c] = "Completed"
  THEN Return(n, "Completed", out[c]) /\ UNCHANGED state
  ELSE Return(n, "Incomplete", <<>>) /\ SetState(n, side)

(* Mutant: a tie goes to the second child.                                 *)
LeftIsLonger(n) ==
  /\ ret[Left[n]] \in Matched
  /\ ret[Right[n]] \in Matched => saved[n] > cursor

LeftIsBetter(n) ==
  /\ ret[Left[n]] \in Matched
  /\ ret[Right[n]] \in Matched => saved[n] >= cursor

OrPreflightRight(n) ==
  /\ Resumes(n, {"Or"}, "preflightRight", Right[n])
  /\ \/ /\ LeftIsBetter(n)
        /\ cursor' = saved[n]
        /\ Choose(n, Left[n], "Left")
     \/ /\ ~LeftIsBetter(n)
        /\ ret[Right[n]] \in Matched
        /\ Choose(n, Right[n], "Right")
        /\ UNCHANGED cursor
     \/ /\ ret[Left[n]] = "Rejected"
        /\ ret[Right[n]] = "Rejected"
        /\ Return(n, "Rejected", <<>>)
        /\ UNCHANGED <<state, cursor>>
  /\ UNCHANGED <<rigid, maybe, saved, body, wake, task>>

(* OrStrict runs the second child only if the first one has rejected.      *)

OrStrictPreflight(n) ==
  /\ Enters(n, {"OrStrict"}, "preflight")
  /\ state[n] = "Init"
  /\ SetState(n, "Done")
  /\ saved' = [saved EXCEPT ![n] = cursor]
  /\ Call(n, "preflightLeft", Left[n], "preflight")
  /\ UNCHANGED <<rigid, maybe, cursor, body, wake, task>>

OrStrictPreflightLeft(n) ==
  /\ Resumes(n, {"OrStrict"}, "preflightLeft", Left[n])
  /\ \/ /\ ret[Left[n]] \in Matched
        /\ Choose(n, Left[n], "Left")
        /\ UNCHANGED cursor
     \/ /\ ret[Left[n]] = "Rejected"
        /\ cursor' = saved[n]
        /\ Call(n, "preflightRight", Right[n], "preflight")
        /\ UNCHANGED state
  /\ UNCHANGED <<rigid, maybe, saved, body, wake, task>>

OrStrictPreflightRight(n) ==
  /\ Resumes(n, {"OrStrict"}, "preflightRight", Right[n])
  /\ \/ /\ ret[Right[n]] \in Matched
        /\ Choose(n, Right[n], "Right")
     \/ /\ ret[Right[n]] = "Rejected"
        /\ Return(n, "Rejected", <<>>)
        /\ UNCHANGED state
  /\ UNCHANGED <<rigid, maybe, cx, body, wake, task>>

(* The poll_action of both delegates to the chosen child.                  *)

OrPoll(n, side, at, c) ==
  /\ Enters(n, {"Or", "OrStrict"}, "poll")
  /\ state[n] = side
  /\ Call(n, at, c, "poll")
  /\ UNCHANGED <<rigid, state, maybe, cx, body, wake, task>>

OrPollLeft(n)  == OrPoll(n, "Left", "pollLeft", Left[n])
OrPollRight(n) == OrPoll(n, "Right", "pollRight", Right[n])

OrPolled(n, at, c) ==
  /\ Resumes(n, {"Or", "OrStrict"}, at, c)
  /\ Return(n, ret[c], out[c])
  /\ UNCHANGED <<rigid, state, maybe, cx, body, wake, task>>

OrPolledLeft(n)  == OrPolled(n, "pollLeft", Left[n])
OrPolledRight(n) == OrPolled(n, "pollRight", Right[n])

-----------------------------------------------------------------------------
(* The unary combinators call the same method of their only child first,   *)
(* unless AndThen or Recover already hold the future of their handler.     *)

UnaryPreflight(n) ==
  /\ Enters(n, Unary, "preflight")
  /\ Call(n, "preflightLeft", Left[n], "preflight")
  /\ UNCHANGED <<rigid, state, maybe, cx, body, wake, task>>

UnaryPoll(n) ==
  /\ Enters(n, Unary, "poll")
  /\ state[n] = "None"
  /\ Call(n, "pollLeft", Left[n], "poll")
  /\ UNCHANGED <<rigid, state, maybe, cx, body, wake, task>>

InFlightPoll(n) ==
  /\ Enters(n, {"AndThen", "Recover"}, "poll")
  /\ state[n] = "InFlight"
  /\ PollFuture(n)
  /\ UNCHANGED <<rigid, state, maybe, cx, body, task>>

(* Map applies its function to a finished output and passes the rest on;   *)
(* MapErr replaces an error by another one.                                *)
Mapped(n) == IF kind[n] = "Map" /\ ret[Left[n]] \in {"Completed", "Ready"}
             THEN <<n>> ELSE out[Left[n]]

MapReturn(n) ==
  /\ \/ Resumes(n, {"Map", "MapErr"}, "preflightLeft", Left[n])
     \/ Resumes(n, {"Map", "MapErr"}, "pollLeft", Left[n])
  /\ Return(n, ret[Left[n]], Mapped(n))
  /\ UNCHANGED <<rigid, state, maybe, cx, body, wake, task>>

AndThenPreflightReturn(n) ==
  /\ Resumes(n, {"AndThen"}, "preflightLeft", Left[n])
  /\ \/ /\ ret[Left[n]] = "Completed"
        /\ SetState(n, "InFlight")
        /\ Return(n, "Incomplete", <<>>)
     \/ /\ ret[Left[n]] \in {"Incomplete", "Rejected"}
        /\ Return(n, ret[Left[n]], <<>>)
        /\ UNCHANGED state
  /\ UNCHANGED <<rigid, maybe, cx, body, wake, task>>

(* Mutant: the handler is called whether or not its argument has failed.   *)
AndThenPolledAnyway(n) ==
  /\ Resumes(n, {"AndThen"}, "pollLeft", Left[n])
  /\ \/ /\ ret[Left[n]] \in {"Ready", "Failed"}
        /\ SetState(n, "InFlight")
        /\ Again(n)
     \/ /\ ret[Left[n]] = "NotReady"
        /\ Return(n, "NotReady", <<>>)
        /\ UNCHANGED state
  /\ UNCHANGED <<rigid, maybe, cx, body, wake, task>>

AndThenPolled(n) ==
  /\ Resumes(n, {"AndThen"}, "pollLeft", Left[n])
  /\ \/ /\ ret[Left[n]] = "Ready"
        /\ SetState(n, "InFlight")
        /\ Again(n)
     \/ /\ ret[Left[n]] \in {"NotReady", "Failed"}
        /\ Return(n, ret[Left[n]], <<>>)
        /\ UNCHANGED state
  /\ UNCHANGED <<rigid, maybe, cx, body, wake, task>>

(* Mutant: the handler's future is not stored.                             *)
RecoverPreflightLost(n) ==
  /\ Resumes(n, {"Recover"}, "preflightLeft", Left[n])
  /\ Return(n, IF ret[Left[n]] = "Rejected" THEN "Incomplete" ELSE ret[Left[n]],
            out[Left[n]])
  /\ UNCHANGED <<rigid, state, maybe, cx, body, wake, task>>

RecoverPreflightReturn(n) ==
  /\ Resumes(n, {"Recover"}, "preflightLeft", Left[n])
  /\ \/ /\ ret[Left[n]] = "Rejected"
        /\ SetState(n, "InFlight")
        /\ Return(n, "Incomplete", <<>>)
     \/ /\ ret[Left[n]] \in Matched
        /\ Return(n, ret[Left[n]], out[Left[n]])
        /\ UNCHANGED state
  /\ UNCHANGED <<rigid, maybe, cx, body, wake, task>>

RecoverPolled(n) ==
  /\ Resumes(n, {"Recover"}, "pollLeft", Left[n])
  /\ \/ /\ ret[Left[n]] = "Failed"
        /\ SetState(n, "InFlight")
        /\ Again(n)
     \/ /\ ret[Left[n]] \in {"NotReady", "Ready"}
        /\ Return(n, ret[Left[n]], out[Left[n]])
        /\ UNCHANGED state
  /\ UNCHANGED <<rigid, maybe, cx, body, wake, task>>

-----------------------------------------------------------------------------
(* AppFuture::poll_apply, called by the executor when the task has been    *)
(* notified.  The Incomplete of preflight goes straight on to poll_action. *)

AppPreflight ==
  /\ ~polling /\ notified
  /\ app = "Start"
  /\ app' = "Taken"
  /\ polling' = TRUE
  /\ notified' = FALSE
  /\ cursor' = 0
  /\ frame' = [frame EXCEPT ![Root] = "preflight"]
  /\ UNCHANGED <<rigid, ret, state, maybe, out, saved, body, io, waiting, response>>

(* Mutant: poll returns NotReady after preflight instead of going on.      *)
AppPreflightParks ==
  /\ polling /\ app = "Taken" /\ frame[Root] = "none"
  /\ polling' = FALSE
  /\ \/ /\ ret[Root] = "Incomplete"
        /\ app' = "InFlight"
        /\ UNCHANGED response
     \/ /\ ret[Root] \in {"Completed", "Rejected"}
        /\ response' = IF ret[Root] = "Completed" THEN "Ok" ELSE "Err"
        /\ UNCHANGED app
  /\ UNCHANGED <<rigid, frame, ret, state, maybe, out, cx, body, wake>>

AppPreflightReturn ==
  /\ polling /\ app = "Taken" /\ frame[Root] = "none"
  /\ \/ /\ ret[Root] = "Incomplete"
        /\ app' = "InFlight"
        /\ frame' = [frame EXCEPT ![Root] = "poll"]
        /\ UNCHANGED <<polling, response>>
     \/ /\ ret[Root] \in {"Completed", "Rejected"}
        /\ response' = IF ret[Root] = "Completed" THEN "Ok" ELSE "Err"
        /\ polling' = FALSE
        /\ UNCHANGED <<app, frame>>
  /\ UNCHANGED <<rigid, ret, state, maybe, out, cx, body, wake>>

AppPoll ==
  /\ ~polling /\ notified
  /\ app = "InFlight" /\ response = "none"
  /\ polling' = TRUE
  /\ notified' = FALSE
  /\ frame' = [frame EXCEPT ![Root] = "poll"]
  /\ UNCHANGED <<rigid, ret, state, maybe, out, cx, body, io, waiting, app, response>>

AppPollReturn ==
  /\ polling /\ app = "InFlight" /\ frame[Root] = "none"
  /\ polling' = FALSE
  /\ response' = CASE ret[Root] = "Ready"    -> "Ok"
                   [] ret[Root] = "Failed"   -> "Err"
                   [] ret[Root] = "NotReady" -> "none"
  /\ UNCHANGED <<rigid, frame, ret, state, maybe, out, cx, body, wake, app>>

(* Outside the task: a future that exists completes, at any time, and      *)
(* wakes the task if its last poll found it pending.                       *)
HasFuture(n) == kind[n] = "Future" \/ state[n] \in {"InFlight", "Receiving"}

IoCompletes(n) ==
  /\ HasFuture(n) /\ io[n] = "pending" /\ response = "none"
  /\ \E r \in {"ok", "err"} : io' = [io EXCEPT ![n] = r]
  /\ waiting' = waiting \ {n}
  /\ notified' = (notified \/ n \in waiting)
  /\ UNCHANGED <<rigid, frame, ret, state, maybe, out, cx, body, task>>

(* The task of a connection does more than this request: it may be         *)
(* notified, and AppFuture polled, although none of its futures is ready.  *)
SpuriousNotify ==
  /\ app = "InFlight" /\ response = "none"
  /\ notified' = TRUE
  /\ UNCHANGED <<rigid, frame, ret, state, maybe, out, cx, body, io, waiting, task>>

Finished == response # "none" /\ UNCHANGED vars

-----------------------------------------------------------------------------
Init ==
  /\ kind \in Endpoints
  /\ path \in Paths
  /\ \E refusing \in SUBSET {n \in Node : kind[n] \in Parsing} :
        accept = [n \in Node |-> n \notin refusing]
  /\ frame = [n \in Node |-> "none"]
  /\ ret = [n \in Node |-> "none"]
  /\ state = [n \in Node |-> Created(kind[n])]
  /\ maybe = [n \in Node |-> "Init"]
  /\ out = [n \in Node |-> <<>>]
  /\ cursor = 0
  /\ saved = [n \in Node |-> 0]
  /\ body = TRUE
  /\ io = [n \in Node |-> "pending"]
  /\ waiting = {}
  /\ notified = TRUE
  /\ app = "Start"
  /\ polling = FALSE
  /\ response = "none"

LeafStep(n) ==
  \/ OneshotPreflight(n) \/ DefaultPreflight(n)
  \/ FuturePoll(n) \/ RawPoll(n) \/ ReceiveAllTake(n) \/ ReceiveAllPoll(n)

AndStep(n) ==
  \/ AndPreflight(n) \/ AndPreflightLeft(n) \/ AndPreflightRight(n)
  \/ AndPollLeft(n) \/ AndPollRight(n)
  \/ AndPolledLeft(n) \/ AndPolledRight(n) \/ AndTakeItem(n)

OrStep(n) ==
  \/ OrPreflight(n) \/ OrPreflightLeft(n) \/ OrPreflightRight(n)
  \/ OrStrictPreflight(n) \/ OrStrictPreflightLeft(n) \/ OrStrictPreflightRight(n)
  \/ OrPollLeft(n) \/ OrPollRight(n) \/ OrPolledLeft(n) \/ OrPolledRight(n)

UnaryStep(n) ==
  \/ UnaryPreflight(n) \/ UnaryPoll(n) \/ InFlightPoll(n) \/ MapReturn(n)
  \/ AndThenPreflightReturn(n) \/ AndThenPolled(n)
  \/ RecoverPreflightReturn(n) \/ RecoverPolled(n)

NodeStep(n) == LeafStep(n) \/ AndStep(n) \/ OrStep(n) \/ UnaryStep(n)

AppStep == AppPreflight \/ AppPreflightReturn \/ AppPoll \/ AppPollReturn

Next ==
  \/ \E n \in Node : NodeStep(n)
  \/ AppStep
  \/ \E n \in Node : IoCompletes(n)
  \/ SpuriousNotify
  \/ Finished

Spec == Init /\ [][Next]_vars

(* The code between two calls runs to its end; the executor polls a        *)
(* notified task; a future that the task waits for resolves.  Nothing is   *)
(* assumed of a future that nobody has polled.                             *)
Fairness ==
  /\ WF_vars(\E n \in Node : NodeStep(n))
  /\ WF_vars(AppStep)
  /\ \A n \in Node : WF_vars(n \in waiting /\ IoCompletes(n))

FairSpec == Spec /\ Fairness

-----------------------------------------------------------------------------
Frame  == {"none"} \cup Preflighting \cup Polling
Result == {"none"} \cup PreflightResult \cup PollResult
State  == {"Some", "None", "Init", "Left", "Right", "Done",
           "Start", "Receiving", "InFlight"}
MaybeDone == {"Init", "Taken", "InFlight", "Ready", "Gone"}

(* Every variable stays in its domain; in particular neither cursor nor a  *)
(* clone of it runs past the end of the path.                              *)
TypeOK ==
  /\ kind \in [Node -> Kind] /\ path \in Seq(Segment) /\ accept \in [Node -> BOOLEAN]
  /\ frame \in [Node -> Frame] /\ ret \in [Node -> Result] /\ out \in [Node -> Seq(Node)]
  /\ state \in [Node -> State] /\ maybe \in [Node -> MaybeDone]
  /\ cursor \in 0 .. Len(path) /\ saved \in [Node -> 0 .. Len(path)]
  /\ body \in BOOLEAN
  /\ io \in [Node -> {"pending", "ok", "err"}]
  /\ waiting \subseteq Node /\ notified \in BOOLEAN
  /\ app \in {"Start", "Taken", "InFlight"} /\ polling \in BOOLEAN
  /\ response \in {"none", "Ok", "Err"}

(* A node stands at one of the panic!, unreachable!, unwrap, expect or     *)
(* debug_assert! sites of its action.                                      *)
PreflightPanics(n) ==
  \/ frame[n] = "preflight" /\
       \/ kind[n] \in Oneshot /\ state[n] # "Some"
       \/ kind[n] \in {"Or", "OrStrict"} /\ state[n] # "Init"
       \/ kind[n] \in {"AndThen", "Recover"} /\ state[n] # "None"
       \/ kind[n] = "And" /\ maybe[Left[n]] # "Init"
  \/ /\ Resumes(n, {"And"}, "preflightLeft", Left[n])
     /\ ret[Left[n]] \in Matched
     /\ maybe[Right[n]] # "Init"

PollPanics(n) ==
  /\ frame[n] = "poll"
  /\ \/ kind[n] \in Oneshot
     \/ kind[n] \in {"Or", "OrStrict"} /\ state[n] \notin {"Left", "Right"}
     \/ kind[n] = "And" /\
          \/ maybe[Left[n]] \notin {"InFlight", "Ready"}
          \/ maybe[Left[n]] = "Ready" /\ maybe[Right[n]] \notin {"InFlight", "Ready"}

(* No request drives any tree of combinators to a panic: no action is      *)
(* applied twice, polled before its preflight or polled after its end.     *)
NoPanic == \A n \in Node : ~PreflightPanics(n) /\ ~PollPanics(n)

(* The body leaves AppFuture at most once, only after routing has ended,   *)
(* and for one endpoint: every other one gets an error.                    *)
TookBody(n) == \/ kind[n] = "ReceiveAll" /\ state[n] = "Receiving"
               \/ kind[n] = "Raw" /\ ret[n] = "Ready"

BodyTakenOnce ==
  /\ \A m, n \in Node : TookBody(m) /\ TookBody(n) => m = n
  /\ (\E n \in Node : TookBody(n)) => ~body /\ app = "InFlight"

(* A parked task is always woken: when poll has returned NotReady and no   *)
(* notification is due, some future it polled is still pending and holds   *)
(* the registration of the task.                                           *)
NoLostWakeup ==
  ~polling /\ ~notified /\ response = "none" =>
     \E n \in waiting : HasFuture(n) /\ io[n] = "pending"

(* Every request is answered.                                              *)
Responds == <>(response # "none")

(* Every action of every tree is called as the trait EndpointAction says.  *)
Contract == INSTANCE ActionContract WITH
  call   <- [n \in Node |-> IF frame[n] \in Preflighting THEN "preflight"
                            ELSE IF frame[n] \in Polling THEN "poll" ELSE "none"],
  result <- ret

ContractSpec == Contract!Spec

-----------------------------------------------------------------------------
(* The inductive invariant: what a node may assume of its children at each *)
(* point of its own code, and AppFuture of the root.                       *)
Idle(c)      == frame[c] = "none"
Fresh(c)     == Idle(c) /\ ret[c] = "none"
Pollable(c)  == Idle(c) /\ ret[c] \in Pending
Awake        == waiting # {} \/ notified

(* c has been called by its parent and may have returned already.          *)
InPreflight(c) == \/ frame[c] \in Preflighting /\ ret[c] = "none"
                  \/ Idle(c) /\ ret[c] \in PreflightResult
InPoll(c)      == \/ frame[c] \in Polling /\ ret[c] \in Pending
                  \/ /\ Idle(c) /\ ret[c] \in PollResult
                     /\ ret[c] = "NotReady" => Awake

(* A cell of And between two calls.                                        *)
Cell(c) == \/ maybe[c] = "InFlight" /\ Pollable(c)
           \/ maybe[c] = "Ready" /\ Idle(c)

(* Where n stands: not called yet, between two polls, or for good ended.   *)
Begins(n)  == frame[n] = "preflight" \/ Fresh(n)
Waits(n)   == frame[n] = "poll" \/ Pollable(n)
Ended(n)   == Idle(n) /\ ret[n] \in {"Completed", "Rejected", "Ready", "Failed"}

LeafInv(n) ==
  /\ frame[n] \in {"none", "preflight", "poll"}
  /\ Left[n] \in Node => Idle(Left[n])
  /\ Right[n] \in Node => Idle(Right[n])
  /\ kind[n] \in Oneshot => /\ frame[n] # "poll"
                            /\ ret[n] \notin Pending
                            /\ Begins(n) => state[n] = "Some"

AndInv(n) ==
  LET l == Left[n]  r == Right[n]
  IN /\ Begins(n) => Fresh(l) /\ Fresh(r) /\ maybe[l] = "Init" /\ maybe[r] = "Init"
     /\ frame[n] = "preflightLeft" =>
          InPreflight(l) /\ maybe[l] = "Taken" /\ Fresh(r) /\ maybe[r] = "Init"
     /\ frame[n] = "preflightRight" => Cell(l) /\ InPreflight(r) /\ maybe[r] = "Taken"
     /\ Waits(n) => Cell(l) /\ Cell(r)
     /\ frame[n] = "pollLeft" => maybe[l] = "InFlight" /\ InPoll(l) /\ Cell(r)
     /\ frame[n] = "pollRight" =>
          maybe[l] = "Ready" /\ Idle(l) /\ maybe[r] = "InFlight" /\ InPoll(r)
     /\ Ended(n) => Idle(l) /\ Idle(r)

OrInv(n) ==
  LET l == Left[n]  r == Right[n]
  IN /\ Begins(n) => Fresh(l) /\ Fresh(r) /\ state[n] = "Init"
     /\ frame[n] = "preflightLeft" => InPreflight(l) /\ Fresh(r) /\ state[n] = "Done"
     /\ frame[n] = "preflightRight" =>
          Idle(l) /\ ret[l] \in PreflightResult /\ InPreflight(r) /\ state[n] = "Done"
     /\ Waits(n) => \/ state[n] = "Left" /\ Pollable(l) /\ Idle(r)
                    \/ state[n] = "Right" /\ Pollable(r) /\ Idle(l)
     /\ frame[n] = "pollLeft" => state[n] = "Left" /\ InPoll(l) /\ Idle(r)
     /\ frame[n] = "pollRight" => state[n] = "Right" /\ InPoll(r) /\ Idle(l)
     /\ Ended(n) => Idle(l) /\ Idle(r)

UnaryInv(n) ==
  LET l == Left[n]
  IN /\ frame[n] \notin {"preflightRight", "pollRight"}
     /\ Right[n] \in Node => Idle(Right[n])
     /\ Begins(n) => Fresh(l) /\ state[n] = "None"
     /\ frame[n] = "preflightLeft" => InPreflight(l) /\ state[n] = "None"
     /\ Waits(n) => \/ state[n] = "None" /\ Pollable(l)
                    \/ state[n] = "InFlight" /\ Idle(l)
     /\ frame[n] = "pollLeft" => state[n] = "None" /\ InPoll(l)
     /\ Ended(n) => Idle(l)

NodeInv(n) ==
  /\ frame[n] \in Preflighting => ret[n] = "none"
  /\ frame[n] \in Polling => ret[n] \in Pending
  /\ kind[n] \notin Binary \cup Unary => LeafInv(n)
  /\ kind[n] = "And" => AndInv(n)
  /\ kind[n] \in {"Or", "OrStrict"} => OrInv(n)
  /\ kind[n] \in Unary => UnaryInv(n)

AppInv ==
  /\ app = "Start" => ~polling /\ Fresh(Root) /\ response = "none" /\ notified
  /\ app = "Taken" => IF polling THEN InPreflight(Root) /\ response = "none"
                                 ELSE Idle(Root) /\ response # "none"
  /\ app = "InFlight" =>
       IF polling THEN InPoll(Root) /\ response = "none"
       ELSE Idle(Root) /\ (response = "none" => ret[Root] \in Pending /\ Awake)

BodyInv ==
  /\ \A m, n \in Node : TookBody(m) /\ TookBody(n) => m = n
  /\ \A n \in Node : TookBody(n) => ~body /\ app = "InFlight"
  /\ app # "InFlight" => \A n \in Node : frame[n] \notin Polling

WakeInv == \A n \in waiting : HasFuture(n) /\ io[n] = "pending"

TreeInv == \A n \in Node : HasChildren(n, kind[n])

Inv == TypeOK /\ TreeInv /\ AppInv /\ WakeInv /\ BodyInv /\ \A n \in Node : NodeInv(n)
=============================================================================

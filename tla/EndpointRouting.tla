-------------------------- MODULE EndpointRouting --------------------------
(***************************************************************************)
(* What a tree of endpoints means for a request, stated without the shared *)
(* mutable context: a pure function from a node and the number of popped   *)
(* segments to the answer of its preflight.  The properties compare the    *)
(* step-by-step machine of EndpointAction with it.                         *)
(***************************************************************************)
EXTENDS EndpointAction

(* Actions own their children (`And { e1, e2 }`, `Box<dyn ..>`): a tree is *)
(* nested finitely, and what holds of a node whenever it holds of its      *)
(* children holds of all nodes.                                            *)
ASSUME NestingAssumption ==
  \A S \in SUBSET Node :
    (\A n \in Node : {Left[n], Right[n]} \cap Node \subseteq S => n \in S) => S = Node

Answer(r, p) == [ret |-> r, pos |-> p]

Verdict(ok, p) == Answer(IF ok THEN "Completed" ELSE "Rejected", p)

Popped(c) == IF c < Len(path) THEN c + 1 ELSE c

IsMatch(a) == a.ret \in Matched

Keep(l, r) ==    \* does Or keep the first of its two answers?
  IsMatch(l) /\ (IsMatch(r) => l.pos >= r.pos)

(* What n makes of the answers l and r its children give, each to the      *)
(* number of segments popped before its preflight, if c are popped for n.  *)
Decide(n, c, l, r) ==
  LET k == kind[n]
      first  == l[c]
      second == r[IF k = "And" THEN l[c].pos ELSE c]
  IN CASE k \in Segment -> Verdict(c < Len(path) /\ path[c + 1] = k, Popped(c))
       [] k = "Eos"     -> Verdict(c = Len(path), Popped(c))
       [] k = "Param"   -> Verdict(c < Len(path) /\ accept[n], Popped(c))
       [] k = "Remains" -> Verdict(accept[n], Len(path))
       [] k = "Guard"   -> Verdict(accept[n], c)
       [] k \in Body \cup {"Future"} -> Answer("Incomplete", c)
       [] k = "And"     -> IF ~IsMatch(first) THEN first
                           ELSE IF ~IsMatch(second) THEN second
                           ELSE Answer("Incomplete", second.pos)
       [] k = "Or"      -> IF Keep(first, second) THEN first ELSE second
       [] k = "OrStrict" -> IF IsMatch(first) THEN first ELSE second
       [] k = "AndThen" -> IF IsMatch(first) THEN Answer("Incomplete", first.pos) ELSE first
       [] k = "Recover" -> IF IsMatch(first) THEN first ELSE Answer("Incomplete", first.pos)
       [] k \in {"Map", "MapErr"} -> first

(* The answer of the preflight of n to a context with c segments popped.   *)
Match[n \in Node] == [c \in Nat |-> Decide(n, c, Match[Left[n]], Match[Right[n]])]

(* Where the second child of n begins if n begins at c.                    *)
RightEntry(n, c) == IF kind[n] = "And" THEN Match[Left[n]][c].pos ELSE c

(* The child whose answer an Or or OrStrict adopts.                        *)
Chosen(n, c) ==
  LET l == Match[Left[n]][c]
  IN IF kind[n] = "Or"
     THEN IF Keep(l, Match[Right[n]][c]) THEN Left[n] ELSE Right[n]
     ELSE IF IsMatch(l) THEN Left[n] ELSE Right[n]

(* The nodes at or below n that the request keeps after routing: the ones  *)
(* whose poll_action may run.                                              *)
Route[n \in Node] ==
  [c \in Nat |->
     IF Match[n][c].ret # "Incomplete" THEN {}
     ELSE {n} \cup
          CASE kind[n] = "And" -> Route[Left[n]][c] \cup Route[Right[n]][RightEntry(n, c)]
            [] kind[n] \in {"Or", "OrStrict"} -> Route[Chosen(n, c)][c]
            [] kind[n] \in Unary -> Route[Left[n]][c]
            [] OTHER -> {}]

(* The nodes of the tree at or below n.                                    *)
Below[n \in Node] ==
  {n} \cup (IF kind[n] \in Binary \cup Unary THEN Below[Left[n]] ELSE {})
      \cup (IF kind[n] \in Binary THEN Below[Right[n]] ELSE {})

(* The output of a node that has finished: And joins the outputs of its    *)
(* children, a handler puts its own in place of its argument.              *)
Value[n \in Node] ==
  [c \in Nat |->
     CASE kind[n] = "And" -> Value[Left[n]][c] \o Value[Right[n]][RightEntry(n, c)]
       [] kind[n] \in {"Or", "OrStrict"} -> Value[Chosen(n, c)][c]
       [] kind[n] = "MapErr"  -> Value[Left[n]][c]
       [] kind[n] = "Recover" -> IF ret[Left[n]] \in {"Rejected", "Failed"}
                                 THEN <<n>> ELSE Value[Left[n]][c]
       [] kind[n] \in Segment \cup {"Eos"} -> <<>>
       [] OTHER -> <<n>>]

-----------------------------------------------------------------------------
(* Sharing one context between all actions and cloning it in Or and        *)
(* OrStrict is invisible: when preflight has returned to AppFuture, its    *)
(* result and the segments popped are those of the pure function, so a     *)
(* branch that was not kept leaves no trace.                               *)
RoutingIsPure ==
  app = "Taken" /\ frame[Root] = "none" =>
    Answer(ret[Root], cursor) = Match[Root][0]

(* Longest match: whatever the nesting of Or, the request goes to the      *)
(* alternative that matches and pops the most segments, the first such one *)
(* on a tie, and is rejected only if every alternative rejects it.         *)
Alternatives[n \in Node] ==
  IF kind[n] = "Or" THEN Alternatives[Left[n]] \o Alternatives[Right[n]] ELSE <<n>>

LongestMatchWins ==
  app = "Taken" /\ frame[Root] = "none" =>
    LET alts   == Alternatives[Root]
        at(i)  == Match[alts[i]][0]
        wins(i) == /\ IsMatch(at(i))
                   /\ \A j \in DOMAIN alts :
                        IsMatch(at(j)) => \/ at(j).pos < at(i).pos
                                          \/ at(j).pos = at(i).pos /\ i <= j
    IN /\ ret[Root] = "Rejected" <=> ~\E i \in DOMAIN alts : IsMatch(at(i))
       /\ \A i \in DOMAIN alts : wins(i) => Answer(ret[Root], cursor) = at(i)

(* After routing only the route runs: no future or body endpoint of a      *)
(* branch that Or or OrStrict did not keep, and nothing below an action    *)
(* that has completed or been recovered in preflight, is ever polled.      *)
OnlyRouteIsPolled ==
  \A n \in Node : frame[n] \in Polling => n \in Route[Root][0]

(* An error is never dropped: if the request succeeds, each error of a     *)
(* poll_action was handed to a Recover above it, and each error of a       *)
(* preflight to a Recover or was the rejected branch of an Or or OrStrict. *)
Handles(a, n) ==
  /\ n \in Below[a]
  /\ \/ kind[a] = "Recover" /\ state[a] = "InFlight"
     \/ kind[a] \in {"Or", "OrStrict"} /\ ret[n] = "Rejected"

ErrorsSurface ==
  response = "Ok" =>
    \A n \in Below[Root] :
      ret[n] \in {"Rejected", "Failed"} => \E a \in Below[Root] : Handles(a, n)

(* A successful response carries the outputs of exactly the kept branches, *)
(* in the order of the tree, although And stored them across many polls.   *)
ResponseIsComplete ==
  response = "Ok" => out[Root] = Value[Root][0]

-----------------------------------------------------------------------------
(* The inductive invariant of these properties: where the preflight of     *)
(* each node begins, and what its answer, its output and its errors are    *)
(* for the node above it.                                                  *)
Parent(n) == CHOOSE p \in Node : n \in {Left[p], Right[p]}

Entry[n \in Node] ==    \* the segments popped before the preflight of n
  IF n = Root THEN 0
  ELSE IF n = Left[Parent(n)] THEN Entry[Parent(n)]
       ELSE RightEntry(Parent(n), Entry[Parent(n)])

Due(n) == Match[n][Entry[n]]    \* the answer that the preflight of n owes

Errs(n)     == ret[n] \in {"Rejected", "Failed"}
Succeeds(n) == ret[n] \in {"Completed", "Ready"}

Uses(n, c) ==    \* c is a child of n that the kind of n calls
  \/ kind[n] \in Binary \cup Unary /\ c = Left[n]
  \/ kind[n] \in Binary /\ c = Right[n]

Awaits(n, c) ==
  \/ frame[n] \in {"preflightLeft", "pollLeft"} /\ c = Left[n]
  \/ frame[n] \in {"preflightRight", "pollRight"} /\ c = Right[n]

(* The thread of the task runs one piece of code: that of one node.        *)
AtControl(n) ==
  \/ frame[n] \in {"preflight", "poll"}
  \/ \E c \in Node : Awaits(n, c) /\ Idle(c)

Single == \A m, n \in Node : AtControl(m) /\ AtControl(n) => m = n

RouteInv(n) ==
  /\ frame[n] = "preflight" => cursor = Entry[n]
  /\ ret[n] \in PreflightResult => Due(n).ret = ret[n]
  /\ ret[n] \in PollResult => Due(n).ret = "Incomplete"
  /\ frame[n] \in Preflighting =>
       \A c \in Node : Awaits(n, c) /\ Idle(c) => cursor = Due(c).pos
  /\ kind[n] = "And" /\ frame[n] = "preflightRight" => ret[Left[n]] \in Matched
  /\ kind[n] = "Or" =>
       /\ frame[n] = "preflightLeft" => saved[n] = Entry[n]
       /\ frame[n] = "preflightRight" => saved[n] = Due(Left[n]).pos
  /\ kind[n] = "OrStrict" =>
       /\ frame[n] = "preflightLeft" => saved[n] = Entry[n]
       /\ frame[n] = "preflightRight" => ret[Left[n]] = "Rejected"
  /\ kind[n] \in {"Or", "OrStrict"} =>
       /\ state[n] = "Left" => Chosen(n, Entry[n]) = Left[n]
       /\ state[n] = "Right" => Chosen(n, Entry[n]) = Right[n]

OutputInv(n) == Succeeds(n) => out[n] = Value[n][Entry[n]]

StoreInv(n) ==
  /\ kind[n] = "And" => \A c \in {Left[n], Right[n]} : maybe[c] = "Ready" => Succeeds(c)
  /\ kind[n] = "Recover" /\ state[n] = "InFlight" => Errs(Left[n])

ErrorInv(n) ==
  \A c \in Node : Uses(n, c) =>
    /\ Errs(c) => \/ Awaits(n, c) \/ Errs(n)
                  \/ kind[n] = "Recover" /\ state[n] = "InFlight"
                  \/ kind[n] \in {"Or", "OrStrict"} /\ ret[c] = "Rejected"
    /\ ret[n] \notin Pending \cup PollResult => ret[c] \notin PollResult

AnswerInv ==
  /\ app = "Taken" /\ Idle(Root) => ret[Root] \in PreflightResult /\ cursor = Due(Root).pos
  /\ response = "Ok" => Succeeds(Root)

RoutingInv ==
  /\ Single /\ AnswerInv
  /\ \A n \in Node : RouteInv(n) /\ OutputInv(n) /\ StoreInv(n) /\ ErrorInv(n)
=============================================================================

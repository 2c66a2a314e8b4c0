-------------------------- MODULE MCEndpointAction --------------------------
(***************************************************************************)
(* Instances of EndpointAction for TLC.  The positions form a complete     *)
(* binary tree of three levels, numbered like a heap; each run takes every *)
(* tree over its own kinds of nodes.  Positions a tree does not use hold   *)
(* an Eos that is never reached.                                           *)
(***************************************************************************)
EXTENDS EndpointRouting

CONSTANTS a, b    \* two path segments

MCNode  == 1 .. 7
MCLeft  == [n \in MCNode |-> IF n <= 3 THEN 2 * n ELSE 0]
MCRight == [n \in MCNode |-> IF n <= 3 THEN 2 * n + 1 ELSE 0]

(* Subtrees of two levels over the given kinds, as the kinds of a parent   *)
(* and its two children.                                                   *)
Leaves(leaf) == {<<k, "Eos", "Eos">> : k \in leaf}
Bushes(leaf, unary, binary) ==
  {<<u, k, "Eos">> : u \in unary, k \in leaf}
    \cup {<<u, k, l>> : u \in binary, k \in leaf, l \in leaf}

Join(root, l, r) == <<root, l[1], r[1], l[2], l[3], r[2], r[3]>>

Trees(leaf, unary, binary, lefts, rights) ==
  {Join(u, l, <<"Eos", "Eos", "Eos">>) : u \in unary, l \in lefts}
    \cup {Join(u, l, r) : u \in binary, l \in lefts, r \in rights}

(* Routing: endpoints that read the path, no future but that of Recover.   *)
RoutingLeaf == {a, b, "Param", "Eos", "Remains"}
RoutingBush == Leaves(RoutingLeaf)
                 \cup Bushes(RoutingLeaf \ {"Remains", "Eos"}, {"Recover"}, {"And", "Or", "OrStrict"})
RoutingEndpoints ==
  Trees(RoutingLeaf, {"Recover"}, {"And", "Or", "OrStrict"}, RoutingBush, RoutingBush)
RoutingPaths == {<<>>, <<a>>, <<a, b>>, <<b, a>>}

(* Polling: futures, the request body and handlers under every combinator, *)
(* a large subtree on one side and a small one on the other.               *)
PollingLeaf == {"Guard", "Future", "ReceiveAll"}
PollingSmall == Leaves(PollingLeaf \cup {"Raw"})
PollingMedium == PollingSmall \cup Bushes(PollingLeaf, {"AndThen", "Recover"}, {})
PollingLarge ==
  PollingMedium \cup Bushes(PollingLeaf, {}, {"And", "Or"})
    \cup Bushes({"Guard", "Future"}, Unary, {"OrStrict"})
PollingEndpoints ==
  Trees(PollingLeaf, Unary, {"And", "Or", "OrStrict"}, PollingLarge, PollingMedium)
    \cup Trees({}, {}, {"And", "Or", "OrStrict"}, PollingSmall, PollingLarge)
PollingPaths == {<<>>}
=============================================================================

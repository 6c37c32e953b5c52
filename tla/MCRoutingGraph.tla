--------------------------- MODULE MCRoutingGraph ---------------------------
(* Three interchangeable loopback devices and a physical one, each with an
   input and an output.  As in the daemon, an endpoint id determines its node
   and its direction; each id is also offered with descriptors that must be
   refused. *)
EXTENDS RoutingGraph, TLC

CONSTANTS a, b, c,   \* loopback nodes
          physical

MCNodes == {a, b, c, physical}
MCLoopback == {a, b, c}
MCEndpointIds == MCNodes \X {"Source", "Sink"}

MCOffers ==
  {<<id, [node |-> id[1], direction |-> id[2], channels |-> n, valid |-> v,
          is_loopback |-> id[1] \in MCLoopback]>> :
     id \in MCEndpointIds, n \in {0, 1}, v \in BOOLEAN}
  \cup
  {<<<<physical, "Sink">>,
     [node |-> physical, direction |-> "Sink", channels |-> 2, valid |-> TRUE,
      is_loopback |-> FALSE]>>}

Symmetry == Permutations({a, b, c}) \cup Permutations(RouteIds)
=============================================================================

---------------------------- MODULE MCPathSearch ----------------------------
(* Every graph on three nodes: each node is loopback or not, and any set of
   node pairs is joined by routes, among them self-loops and cycles (which the
   search must survive although add_route keeps them out). *)
EXTENDS PathSearch

MCEndpointIds == Nodes \X {"Source", "Sink"}
MCRouteIds == Nodes \X Nodes

MCGraphs ==
  {[endpoints |-> [e \in MCEndpointIds |->
                     [node |-> e[1], direction |-> e[2], channels |-> 1, valid |-> TRUE,
                      is_loopback |-> e[1] \in L]],
    routes |-> [r \in Q |->
                  [source |-> <<r[1], "Source">>, sink |-> <<r[2], "Sink">>,
                   inputs |-> 1, outputs |-> 1, finite |-> TRUE]]] :
     L \in SUBSET Nodes, Q \in SUBSET MCRouteIds}
=============================================================================

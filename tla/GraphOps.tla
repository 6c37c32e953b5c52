------------------------------ MODULE GraphOps ------------------------------
(***************************************************************************)
(* The operations of RoutingGraph (crates/vcable-core/src/graph.rs) as     *)
(* functions of its two maps: E, the endpoints by id, and R, the routes by *)
(* id.  An endpoint is [node, direction, channels, valid, is_loopback]     *)
(* where valid stands for the sample-rate range and the node-name length;  *)
(* a route is [source, sink, inputs, outputs, finite], its matrix reduced  *)
(* to its two dimensions and its gain to is_finite.                        *)
(***************************************************************************)
EXTENDS Integers

CONSTANT Nodes  \* node names (the device UIDs)

node_is_loopback(E, n) == \E e \in DOMAIN E : E[e].node = n /\ E[e].is_loopback

\* The sinks a signal that reaches node n is passed on to and comes back from:
\* what one iteration of the search pushes.
Successors(E, R, n) ==
  {m \in Nodes : \E r \in DOMAIN R :
     /\ R[r].source \in DOMAIN E /\ E[R[r].source].node = n
     /\ R[r].sink \in DOMAIN E /\ E[R[r].sink].node = m
     /\ node_is_loopback(E, m)}

Closed(E, R, S) == \A n \in S : Successors(E, R, n) \subseteq S

\* The nodes the search visits: the least set that holds from and is closed.
Reach(E, R, from) ==
  {n \in Nodes : \A S \in SUBSET Nodes : from \in S /\ Closed(E, R, S) => n \in S}

\* Fault: a search that does not look beyond the first hop.
path_existsOneHop(E, R, from, target) ==
  node_is_loopback(E, from) /\ target \in {from} \cup Successors(E, R, from)

\* Fault: the signal is taken to come back from every device.
path_existsAnyNode(E, R, from, target) == target \in Reach(E, R, from)

path_exists(E, R, from, target) ==
  node_is_loopback(E, from) /\ target \in Reach(E, R, from)

-----------------------------------------------------------------------------
(* Results of the four operations: "Ok" or the GraphError they return. *)

add_endpoint_result(E, id, d) ==
  CASE d.channels = 0      -> "ZeroChannels"
    [] ~d.valid            -> "InvalidEndpoint"
    [] id \in DOMAIN E     -> "EndpointExists"
    [] OTHER               -> "Ok"

\* Fault: only routes that start at the endpoint keep it.
remove_endpoint_resultSource(E, R, id) ==
  CASE \E r \in DOMAIN R : R[r].source = id -> "EndpointInUse"
    [] id \notin DOMAIN E -> "EndpointNotFound"
    [] OTHER -> "Ok"

remove_endpoint_result(E, R, id) ==
  CASE \E r \in DOMAIN R : R[r].source = id \/ R[r].sink = id -> "EndpointInUse"
    [] id \notin DOMAIN E -> "EndpointNotFound"
    [] OTHER -> "Ok"

add_route_result(E, R, id, route) ==
  CASE id \in DOMAIN R                                -> "RouteExists"
    [] route.source \notin DOMAIN E                   -> "EndpointNotFound"
    [] route.sink \notin DOMAIN E                     -> "EndpointNotFound"
    [] E[route.source].direction # "Source"           -> "SourceDirectionRequired"
    [] E[route.sink].direction # "Sink"               -> "SinkDirectionRequired"
    [] route.inputs # E[route.source].channels        -> "MatrixInputMismatch"
    [] route.outputs # E[route.sink].channels         -> "MatrixOutputMismatch"
    [] ~route.finite                                  -> "GainNotFinite"
    [] path_exists(E, R, E[route.sink].node, E[route.source].node) -> "CycleDetected"
    [] OTHER                                          -> "Ok"

remove_route_result(R, id) == IF id \in DOMAIN R THEN "Ok" ELSE "RouteNotFound"

\* BTreeMap insert and remove.
Insert(M, key, value) == [k \in DOMAIN M \cup {key} |-> IF k = key THEN value ELSE M[k]]
Remove(M, key) == [k \in DOMAIN M \ {key} |-> M[k]]

-----------------------------------------------------------------------------
(* What a graph promises *)

\* Every route joins a present source to a present sink of the right sizes.
RouteFits(E, route) ==
  /\ route.source \in DOMAIN E /\ route.sink \in DOMAIN E
  /\ E[route.source].direction = "Source" /\ E[route.sink].direction = "Sink"
  /\ route.inputs = E[route.source].channels
  /\ route.outputs = E[route.sink].channels

\* No feedback: in every set of loopback nodes some node passes its signal to
\* no node of the set.  For finitely many nodes this says that no closed
\* signal path exists.
Feedback(E, R, S) ==
  /\ S # {}
  /\ \A n \in S : node_is_loopback(E, n) /\ Successors(E, R, n) \cap S # {}

NoFeedbackIn(E, R) == \A S \in SUBSET Nodes : ~Feedback(E, R, S)
=============================================================================

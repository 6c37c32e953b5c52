---------------------------- MODULE RoutingGraph ----------------------------
(***************************************************************************)
(* RoutingGraph as an object: a client adds and removes endpoints and      *)
(* routes in any order.  A call that returns an error changes nothing and  *)
(* is a stuttering step.                                                   *)
(*                                                                         *)
(* A descriptor's is_loopback "inherently feeds its sink back to its       *)
(* source" is a fact about the device, so the endpoints of one node agree  *)
(* on it (the daemon sets both from AudioDevice.is_virtual).  The graph    *)
(* itself does not enforce that.                                           *)
(***************************************************************************)
EXTENDS GraphOps

CONSTANTS EndpointIds, RouteIds,
          ChannelCounts,  \* channel counts of endpoints and matrix dimensions
          Loopback,       \* the nodes that are loopback devices
          Offers          \* the <<id, descriptor>> pairs a client may pass to add_endpoint

Descriptors ==
  {d \in [node : Nodes, direction : {"Source", "Sink"}, channels : ChannelCounts,
          valid : BOOLEAN, is_loopback : BOOLEAN] : d.is_loopback <=> d.node \in Loopback}

Routes ==
  [source : EndpointIds, sink : EndpointIds, inputs : ChannelCounts,
   outputs : ChannelCounts, finite : BOOLEAN]

ASSUME GraphAssumption ==
  /\ ChannelCounts \subseteq Nat
  /\ Loopback \subseteq Nodes
  /\ Offers \subseteq EndpointIds \X Descriptors

VARIABLES endpoints, routes

graphVars == <<endpoints, routes>>

EmptyMap == [k \in {} |-> 0]

Init ==
  /\ endpoints = EmptyMap
  /\ routes = EmptyMap

add_endpoint(id, d) ==
  /\ add_endpoint_result(endpoints, id, d) = "Ok"
  /\ endpoints' = Insert(endpoints, id, d)
  /\ UNCHANGED routes

remove_endpoint(id) ==
  /\ remove_endpoint_result(endpoints, routes, id) = "Ok"
  /\ endpoints' = Remove(endpoints, id)
  /\ UNCHANGED routes

add_route(id, route) ==
  /\ add_route_result(endpoints, routes, id, route) = "Ok"
  /\ routes' = Insert(routes, id, route)
  /\ UNCHANGED endpoints

remove_route(id) ==
  /\ remove_route_result(routes, id) = "Ok"
  /\ routes' = Remove(routes, id)
  /\ UNCHANGED endpoints

Next ==
  \/ \E offer \in Offers : add_endpoint(offer[1], offer[2])
  \/ \E id \in EndpointIds : remove_endpoint(id)
  \/ \E id \in RouteIds, route \in Routes : add_route(id, route)
  \/ \E id \in RouteIds : remove_route(id)

Spec == Init /\ [][Next]_graphVars

-----------------------------------------------------------------------------
(* Properties *)

(* Type correctness: the maps of the RoutingGraph hold only descriptors that
   add_endpoint accepts. *)
TypeOK ==
  /\ DOMAIN endpoints \subseteq EndpointIds
  /\ endpoints \in [DOMAIN endpoints -> {d \in Descriptors : d.channels # 0 /\ d.valid}]
  /\ DOMAIN routes \subseteq RouteIds
  /\ routes \in [DOMAIN routes -> Routes]

(* Whatever the order of calls, every route of the graph joins endpoints that
   are present, with the directions and channel counts its matrix was checked
   against: remove_endpoint must refuse an endpoint in use, and add_endpoint
   must not redescribe one. *)
RoutesFit == \A r \in DOMAIN routes : RouteFits(endpoints, routes[r])

(* The daemon's graph never feeds a signal back to itself through loopback
   devices (README: cyclic routes are refused). *)
NoFeedback == NoFeedbackIn(endpoints, routes)

(* CycleDetected is neither missed nor reported for nothing: a route that
   passes the other checks is refused exactly when the graph with it would
   have feedback. *)
CycleCheckExact ==
  \A s, t \in DOMAIN endpoints :
    endpoints[s].direction = "Source" /\ endpoints[t].direction = "Sink" =>
      \A id \in RouteIds \ DOMAIN routes :
        LET route == [source |-> s, sink |-> t, inputs |-> endpoints[s].channels,
                      outputs |-> endpoints[t].channels, finite |-> TRUE]
        IN  add_route_result(endpoints, routes, id, route) = "CycleDetected"
              <=> ~NoFeedbackIn(endpoints, Insert(routes, id, route))
=============================================================================

------------------------ MODULE RoutingGraph_proofs ------------------------
(***************************************************************************)
(* Proofs about the routing graph for every set of nodes, ids and channel  *)
(* counts, and every sequence of calls; and that the loop of path_exists   *)
(* computes the reachability it is modelled by there, for every graph and  *)
(* every order of the worklist.                                            *)
(***************************************************************************)
EXTENDS RoutingGraph, PathSearch, TLAPS

\* What the argument about cycles needs of a graph.
Sound(E, R) ==
  /\ \A e \in DOMAIN E : E[e].node \in Nodes /\ (E[e].is_loopback <=> E[e].node \in Loopback)
  /\ \A r \in DOMAIN R : R[r].source \in DOMAIN E /\ R[r].sink \in DOMAIN E

\* A route leads from node n to node m.
Edge(E, R, n, m) ==
  \E r \in DOMAIN R : E[R[r].source].node = n /\ E[R[r].sink].node = m

\* Q has at most one edge more than R, from endpoint s to endpoint t.
Extends(E, R, Q, s, t) ==
  \A n, m : Edge(E, Q, n, m) => Edge(E, R, n, m) \/ (n = E[s].node /\ m = E[t].node)

\* Feedback, stated over the nodes that are loopback devices.
LoopbackCycle(E, R, S) ==
  /\ S # {} /\ S \subseteq Loopback
  /\ \A n \in S : \E m \in S : Edge(E, R, n, m)

(* node_is_loopback, asked about a node that has an endpoint, is a fact about
   the device. *)
LEMMA LoopbackIsFact ==
  ASSUME NEW E, NEW R, Sound(E, R), NEW e \in DOMAIN E
  PROVE  node_is_loopback(E, E[e].node) <=> E[e].node \in Loopback
BY DEF Sound, node_is_loopback

(* The successors the search follows are the routes' loopback sinks. *)
LEMMA SuccessorsAreEdges ==
  ASSUME NEW E, NEW R, Sound(E, R), NEW n, NEW m
  PROVE  m \in Successors(E, R, n) <=> m \in Loopback /\ Edge(E, R, n, m)
BY LoopbackIsFact DEF Sound, Successors, Edge

(* So feedback is a cycle of routes through loopback devices. *)
LEMMA FeedbackIsCycle ==
  ASSUME NEW E, NEW R, Sound(E, R), NEW S \in SUBSET Nodes
  PROVE  Feedback(E, R, S) <=> LoopbackCycle(E, R, S)
<1>1. ASSUME Feedback(E, R, S) PROVE LoopbackCycle(E, R, S)
  <2>1. \A n \in S : n \in Loopback
    BY <1>1 DEF Feedback, node_is_loopback, Sound
  <2>2. \A n \in S : \E m \in S : Edge(E, R, n, m)
    BY <1>1, SuccessorsAreEdges DEF Feedback
  <2> QED
    BY <1>1, <2>1, <2>2 DEF Feedback, LoopbackCycle
<1>2. ASSUME LoopbackCycle(E, R, S) PROVE Feedback(E, R, S)
  <2> SUFFICES ASSUME NEW n \in S
               PROVE  node_is_loopback(E, n) /\ Successors(E, R, n) \cap S # {}
    BY <1>2 DEF Feedback, LoopbackCycle
  <2>1. PICK m \in S : Edge(E, R, n, m)
    BY <1>2 DEF LoopbackCycle
  <2>2. m \in Successors(E, R, n)
    BY <1>2, <2>1, SuccessorsAreEdges DEF LoopbackCycle
  <2>3. PICK r \in DOMAIN R : E[R[r].source].node = n
    BY <2>1 DEF Edge
  <2>4. node_is_loopback(E, n)
    BY <1>2, <2>3, LoopbackIsFact DEF Sound, LoopbackCycle
  <2> QED
    BY <2>2, <2>4
<1> QED
  BY <1>1, <1>2

(* Reach is closed under successors, and contains its start. *)
LEMMA ReachClosed ==
  ASSUME NEW E, NEW R, NEW node \in Nodes
  PROVE  /\ node \in Reach(E, R, node)
         /\ \A n \in Reach(E, R, node) : Successors(E, R, n) \subseteq Reach(E, R, node)
BY DEF Reach, Closed, Successors

(* The heart of add_route: if the new route's sink does not already reach its
   source, the route closes no cycle.  A cycle through the new route would,
   cut down to what its sink reaches, already be a cycle without it. *)
LEMMA NewRouteClosesNoCycle ==
  ASSUME NEW E, NEW R, NEW Q, Sound(E, R), NoFeedbackIn(E, R),
         NEW s \in DOMAIN E, NEW t \in DOMAIN E,
         ~path_exists(E, R, E[t].node, E[s].node),
         Sound(E, Q),
         Extends(E, R, Q, s, t)
  PROVE  NoFeedbackIn(E, Q)
<1> SUFFICES ASSUME NEW S \in SUBSET Nodes, Feedback(E, Q, S) PROVE FALSE
  BY DEF NoFeedbackIn
<1> DEFINE x == E[s].node
           y == E[t].node
           T == S \cap Reach(E, R, y)
<1>1. /\ S # {} /\ S \subseteq Loopback
      /\ \A n \in S : \E m \in S : Edge(E, Q, n, m)
  BY FeedbackIsCycle DEF LoopbackCycle
<1>2. \A V \in SUBSET Nodes : ~LoopbackCycle(E, R, V)
  BY FeedbackIsCycle DEF NoFeedbackIn
<1>3. PICK n \in S : \A m \in S : ~Edge(E, R, n, m)
  BY <1>1, <1>2 DEF LoopbackCycle
<1>4. n = x /\ y \in S
  BY <1>1, <1>3 DEF Extends
<1>5. y \in Loopback /\ y \in Nodes
  BY <1>1, <1>4 DEF Sound
<1>6. x \notin Reach(E, R, y)
  BY <1>5, LoopbackIsFact DEF path_exists
<1>7. y \in T /\ T \in SUBSET Nodes /\ T \subseteq Loopback
  BY <1>1, <1>4, <1>5, ReachClosed
<1>8. ASSUME NEW k \in T PROVE \E m \in T : Edge(E, R, k, m)
  <2>1. k # x
    BY <1>6
  <2>2. PICK m \in S : Edge(E, Q, k, m)
    BY <1>1
  <2>3. Edge(E, R, k, m)
    BY <2>1, <2>2 DEF Extends
  <2>4. m \in Successors(E, R, k)
    BY <1>1, <2>3, SuccessorsAreEdges
  <2>5. m \in T
    BY <1>5, <2>4, ReachClosed
  <2> QED
    BY <2>3, <2>5
<1>9. LoopbackCycle(E, R, T)
  BY <1>7, <1>8 DEF LoopbackCycle
<1> QED
  BY <1>2, <1>7, <1>9

(* A node that leads to x and is not x passes its signal on to one that does. *)
LEMMA PathHasNext ==
  ASSUME NEW E, NEW R, NEW n \in Nodes, NEW x \in Reach(E, R, n), n # x
  PROVE  \E m \in Successors(E, R, n) : x \in Reach(E, R, m)
<1> SUFFICES ASSUME \A m \in Successors(E, R, n) : x \notin Reach(E, R, m) PROVE FALSE
  OBVIOUS
<1> DEFINE U == {n} \cup {k \in Nodes : \E m \in Successors(E, R, n) : k \in Reach(E, R, m)}
<1>1. U \in SUBSET Nodes /\ n \in U /\ x \notin U
  OBVIOUS
<1>2. \A m \in Successors(E, R, n) : m \in Nodes
  BY DEF Successors
<1>3. ASSUME NEW k \in U PROVE Successors(E, R, k) \subseteq U
  <2>1. CASE k = n
    BY <1>2, <2>1, ReachClosed
  <2>2. CASE k # n
    <3>1. PICK m \in Successors(E, R, n) : k \in Reach(E, R, m)
      BY <2>2
    <3>2. Successors(E, R, k) \subseteq Reach(E, R, m)
      BY <1>2, <3>1, ReachClosed
    <3>3. Reach(E, R, m) \subseteq U
      BY <3>1 DEF Reach
    <3> QED BY <3>2, <3>3
  <2> QED BY <2>1, <2>2
<1> HIDE DEF U
<1>4. Closed(E, R, U)
  BY <1>3 DEF Closed
<1> QED
  BY <1>1, <1>4 DEF Reach

(* The other half of add_route: a route whose sink already reaches its source
   does close a cycle, of the nodes on the way. *)
LEMMA RefusedRouteClosesCycle ==
  ASSUME NEW E, NEW R, NEW Q, Sound(E, R), Sound(E, Q),
         NEW s \in DOMAIN E, NEW t \in DOMAIN E,
         path_exists(E, R, E[t].node, E[s].node),
         \A n, m : Edge(E, R, n, m) => Edge(E, Q, n, m),
         Edge(E, Q, E[s].node, E[t].node)
  PROVE  ~NoFeedbackIn(E, Q)
<1> DEFINE x == E[s].node
           y == E[t].node
           S == {n \in Reach(E, R, y) : x \in Reach(E, R, n)}
<1>1. x \in Nodes /\ y \in Nodes /\ x \in Reach(E, R, y) /\ y \in Loopback
  BY LoopbackIsFact DEF path_exists, Sound
<1>2. Reach(E, R, y) \subseteq Loopback
  <2> DEFINE L == Nodes \cap Loopback
  <2>1. L \in SUBSET Nodes /\ y \in L
    BY <1>1
  <2>2. Closed(E, R, L)
    BY SuccessorsAreEdges DEF Closed, Successors
  <2> HIDE DEF L
  <2>3. Reach(E, R, y) \subseteq L
    BY <2>1, <2>2 DEF Reach
  <2> QED BY <2>3 DEF L
<1>3. S \in SUBSET Nodes /\ S \subseteq Loopback /\ y \in S
  BY <1>1, <1>2, ReachClosed DEF Reach
<1>4. ASSUME NEW n \in S PROVE \E m \in S : Edge(E, Q, n, m)
  <2>1. CASE n = x
    BY <1>3, <2>1
  <2>2. CASE n # x
    <3>1. PICK m \in Successors(E, R, n) : x \in Reach(E, R, m)
      BY <1>3, <2>2, PathHasNext
    <3>2. m \in Reach(E, R, y)
      BY <1>1, <3>1, ReachClosed
    <3>3. Edge(E, Q, n, m)
      BY <3>1, SuccessorsAreEdges
    <3> QED BY <3>1, <3>2, <3>3
  <2> QED BY <2>1, <2>2
<1> HIDE DEF S
<1>5. LoopbackCycle(E, Q, S)
  BY <1>3, <1>4 DEF LoopbackCycle
<1> QED
  BY <1>3, <1>5, FeedbackIsCycle DEF NoFeedbackIn

-----------------------------------------------------------------------------
(* The invariant is inductive as it stands: the types say that the endpoints
   of a node agree on is_loopback, and RoutesFit that routes name endpoints. *)

GraphInv == TypeOK /\ RoutesFit /\ NoFeedback

(* The invariant makes the graph sound for the argument above. *)
LEMMA InvSound == GraphInv => Sound(endpoints, routes)
<1> SUFFICES ASSUME GraphInv PROVE Sound(endpoints, routes)
  OBVIOUS
<1>1. ASSUME NEW e \in DOMAIN endpoints PROVE endpoints[e] \in Descriptors
  BY DEF GraphInv, TypeOK
<1>2. ASSUME NEW e \in DOMAIN endpoints
      PROVE  endpoints[e].node \in Nodes /\ (endpoints[e].is_loopback <=> endpoints[e].node \in Loopback)
  BY <1>1 DEF Descriptors
<1>3. ASSUME NEW r \in DOMAIN routes
      PROVE  routes[r].source \in DOMAIN endpoints /\ routes[r].sink \in DOMAIN endpoints
  BY DEF GraphInv, RoutesFit, RouteFits
<1> QED
  BY <1>2, <1>3 DEF Sound

(* An edit of the endpoints that leaves those in use alone keeps feedback out. *)
LEMMA EndpointEditKeepsNoFeedback ==
  ASSUME NEW E, NEW F, NEW R, Sound(E, R), Sound(F, R), NoFeedbackIn(E, R),
         \A r \in DOMAIN R : F[R[r].source] = E[R[r].source] /\ F[R[r].sink] = E[R[r].sink]
  PROVE  NoFeedbackIn(F, R)
<1>1. \A n, m : Edge(F, R, n, m) <=> Edge(E, R, n, m)
  BY DEF Edge
<1>2. \A S \in SUBSET Nodes : LoopbackCycle(F, R, S) <=> LoopbackCycle(E, R, S)
  BY <1>1 DEF LoopbackCycle
<1> QED
  BY <1>2, FeedbackIsCycle DEF NoFeedbackIn

(* The empty graph satisfies the invariant. *)
LEMMA InitGraphInv == Init => GraphInv
<1> SUFFICES ASSUME Init PROVE GraphInv
  OBVIOUS
<1>1. DOMAIN endpoints = {} /\ DOMAIN routes = {}
  BY DEF Init, EmptyMap
<1>2. TypeOK
  BY <1>1 DEF Init, TypeOK, EmptyMap
<1>3. RoutesFit
  BY <1>1 DEF RoutesFit
<1>4. NoFeedback
  BY <1>1 DEF NoFeedback, NoFeedbackIn, Feedback, node_is_loopback
<1> QED
  BY <1>2, <1>3, <1>4 DEF GraphInv

(* Every call keeps the invariant. *)
LEMMA NextGraphInv == GraphInv /\ [Next]_graphVars => GraphInv'
<1> SUFFICES ASSUME GraphInv, [Next]_graphVars PROVE GraphInv'
  OBVIOUS
<1>s. Sound(endpoints, routes)
  BY InvSound
<1>t. TypeOK /\ RoutesFit /\ NoFeedback
  BY DEF GraphInv
<1>p. TypeOK' /\ RoutesFit' => Sound(endpoints', routes')
  <2> SUFFICES ASSUME TypeOK', RoutesFit' PROVE Sound(endpoints', routes')
    OBVIOUS
  <2>1. ASSUME NEW e \in DOMAIN endpoints' PROVE endpoints'[e] \in Descriptors
    BY DEF TypeOK
  <2>2. ASSUME NEW e \in DOMAIN endpoints'
        PROVE  endpoints'[e].node \in Nodes /\ (endpoints'[e].is_loopback <=> endpoints'[e].node \in Loopback)
    BY <2>1 DEF Descriptors
  <2>3. ASSUME NEW r \in DOMAIN routes'
        PROVE  routes'[r].source \in DOMAIN endpoints' /\ routes'[r].sink \in DOMAIN endpoints'
    BY DEF RoutesFit, RouteFits
  <2> QED
    BY <2>2, <2>3 DEF Sound
<1>1. ASSUME NEW offer \in Offers, add_endpoint(offer[1], offer[2]) PROVE GraphInv'
  <2> DEFINE id == offer[1]
             d == offer[2]
  <2>1. /\ id \in EndpointIds /\ d \in Descriptors /\ d.channels # 0 /\ d.valid
        /\ id \notin DOMAIN endpoints
        /\ endpoints' = Insert(endpoints, id, d) /\ routes' = routes
    BY <1>1, GraphAssumption DEF add_endpoint, add_endpoint_result
  <2>2. /\ DOMAIN endpoints' = DOMAIN endpoints \cup {id}
        /\ \A e \in DOMAIN endpoints : endpoints'[e] = endpoints[e]
        /\ endpoints'[id] = d
    BY <2>1 DEF Insert
  <2>3. TypeOK'
    BY <1>t, <2>1, <2>2 DEF TypeOK, Insert
  <2>4. RoutesFit'
    BY <1>t, <2>1, <2>2 DEF RoutesFit, RouteFits
  <2>5. NoFeedback'
    BY <1>s, <1>t, <1>p, <2>1, <2>2, <2>3, <2>4, EndpointEditKeepsNoFeedback DEF NoFeedback, Sound
  <2> QED
    BY <2>3, <2>4, <2>5 DEF GraphInv
<1>2. ASSUME NEW id \in EndpointIds, remove_endpoint(id) PROVE GraphInv'
  <2>1. /\ \A r \in DOMAIN routes : routes[r].source # id /\ routes[r].sink # id
        /\ endpoints' = Remove(endpoints, id) /\ routes' = routes
    BY <1>2 DEF remove_endpoint, remove_endpoint_result
  <2>2. /\ DOMAIN endpoints' = DOMAIN endpoints \ {id}
        /\ \A e \in DOMAIN endpoints' : endpoints'[e] = endpoints[e]
    BY <2>1 DEF Remove
  <2>3. TypeOK'
    BY <1>t, <2>1, <2>2 DEF TypeOK, Remove
  <2>4. RoutesFit'
    BY <1>t, <2>1, <2>2 DEF RoutesFit, RouteFits
  <2>5. NoFeedback'
    BY <1>s, <1>t, <1>p, <2>1, <2>2, <2>3, <2>4, EndpointEditKeepsNoFeedback DEF NoFeedback, Sound
  <2> QED
    BY <2>3, <2>4, <2>5 DEF GraphInv
<1>3. ASSUME NEW id \in RouteIds, NEW route \in Routes, add_route(id, route) PROVE GraphInv'
  <2>1. add_route_result(endpoints, routes, id, route) = "Ok"
    BY <1>3 DEF add_route
  <2>2. /\ id \notin DOMAIN routes
        /\ RouteFits(endpoints, route)
        /\ ~path_exists(endpoints, routes, endpoints[route.sink].node, endpoints[route.source].node)
    BY <2>1 DEF add_route_result, RouteFits
  <2>3. /\ routes' = Insert(routes, id, route) /\ endpoints' = endpoints
        /\ DOMAIN routes' = DOMAIN routes \cup {id}
        /\ \A r \in DOMAIN routes : routes'[r] = routes[r]
        /\ routes'[id] = route
    BY <1>3, <2>2 DEF add_route, Insert
  <2>4. TypeOK'
    BY <1>3, <1>t, <2>3 DEF TypeOK, Insert
  <2>5. RoutesFit'
    BY <1>t, <2>2, <2>3 DEF RoutesFit
  <2>6. Extends(endpoints, routes, routes', route.source, route.sink)
    BY <2>3 DEF Extends, Edge
  <2>7. NoFeedbackIn(endpoints, routes')
    <3>1. Sound(endpoints, routes')
      BY <1>p, <2>3, <2>4, <2>5
    <3>2. route.source \in DOMAIN endpoints /\ route.sink \in DOMAIN endpoints
      BY <2>2 DEF RouteFits
    <3>3. NoFeedbackIn(endpoints, routes)
      BY <1>t DEF NoFeedback
    <3>4. ~path_exists(endpoints, routes, endpoints[route.sink].node, endpoints[route.source].node)
      BY <2>2
    <3> QED
      BY <1>s, <2>6, <3>1, <3>2, <3>3, <3>4, NewRouteClosesNoCycle
  <2> QED
    BY <2>3, <2>4, <2>5, <2>7 DEF GraphInv, NoFeedback
<1>4. ASSUME NEW id \in RouteIds, remove_route(id) PROVE GraphInv'
  <2>1. /\ routes' = Remove(routes, id) /\ endpoints' = endpoints
        /\ DOMAIN routes' = DOMAIN routes \ {id}
        /\ \A r \in DOMAIN routes' : routes'[r] = routes[r]
    BY <1>4 DEF remove_route, Remove
  <2>2. TypeOK'
    BY <1>t, <2>1 DEF TypeOK, Remove
  <2>3. RoutesFit'
    BY <1>t, <2>1 DEF RoutesFit
  <2>4. \A n, m : Edge(endpoints, routes', n, m) => Edge(endpoints, routes, n, m)
    BY <2>1 DEF Edge
  <2>5. \A S \in SUBSET Nodes : LoopbackCycle(endpoints, routes', S) => LoopbackCycle(endpoints, routes, S)
    BY <2>4 DEF LoopbackCycle
  <2>6. Sound(endpoints, routes')
    BY <1>p, <2>1, <2>2, <2>3
  <2>7. NoFeedback'
    BY <1>s, <1>t, <2>1, <2>5, <2>6, FeedbackIsCycle DEF NoFeedback, NoFeedbackIn
  <2> QED
    BY <2>2, <2>3, <2>7 DEF GraphInv
<1>5. CASE UNCHANGED graphVars
  BY <1>5 DEF GraphInv, TypeOK, RoutesFit, NoFeedback, graphVars
<1> QED
  BY <1>1, <1>2, <1>3, <1>4, <1>5 DEF Next

(* After any sequence of calls the maps hold what the operations validated. *)
THEOREM GraphTypeCorrect == Spec => []TypeOK
<1>1. GraphInv => TypeOK
  BY DEF GraphInv
<1> QED
  BY <1>1, InitGraphInv, NextGraphInv, PTL DEF Spec

(* After any sequence of calls every route joins present, matching endpoints. *)
THEOREM RoutesAlwaysFit == Spec => []RoutesFit
<1>1. GraphInv => RoutesFit
  BY DEF GraphInv
<1> QED
  BY <1>1, InitGraphInv, NextGraphInv, PTL DEF Spec

(* After any sequence of calls no signal is fed back, for any number of nodes
   and routes: add_route's reachability test is enough. *)
THEOREM NeverFeedback == Spec => []NoFeedback
<1>1. GraphInv => NoFeedback
  BY DEF GraphInv
<1> QED
  BY <1>1, InitGraphInv, NextGraphInv, PTL DEF Spec

(* After any sequence of calls CycleDetected is the answer to a route that passes
   the other checks exactly when the graph with it would feed a signal back. *)
THEOREM CycleCheckIsExact == Spec => []CycleCheckExact
<1>1. GraphInv => CycleCheckExact
  <2> SUFFICES ASSUME GraphInv, NEW s \in DOMAIN endpoints, NEW t \in DOMAIN endpoints,
                      endpoints[s].direction = "Source", endpoints[t].direction = "Sink",
                      NEW id \in RouteIds \ DOMAIN routes, NEW route,
                      route = [source |-> s, sink |-> t, inputs |-> endpoints[s].channels,
                               outputs |-> endpoints[t].channels, finite |-> TRUE]
               PROVE  add_route_result(endpoints, routes, id, route) = "CycleDetected"
                        <=> ~NoFeedbackIn(endpoints, Insert(routes, id, route))
    BY DEF CycleCheckExact
  <2> DEFINE Q == Insert(routes, id, route)
             x == endpoints[s].node
             y == endpoints[t].node
  <2>1. /\ route.source = s /\ route.sink = t /\ route.inputs = endpoints[s].channels
        /\ route.outputs = endpoints[t].channels /\ route.finite = TRUE
    OBVIOUS
  <2>2. add_route_result(endpoints, routes, id, route) = "CycleDetected" <=> path_exists(endpoints, routes, y, x)
    BY <2>1 DEF add_route_result
  <2>3. Sound(endpoints, routes) /\ NoFeedbackIn(endpoints, routes)
    BY InvSound DEF GraphInv, NoFeedback
  <2>4. /\ DOMAIN Q = DOMAIN routes \cup {id} /\ Q[id] = route
        /\ \A r \in DOMAIN routes : Q[r] = routes[r]
    BY DEF Insert
  <2> HIDE DEF Q
  <2>5. Sound(endpoints, Q)
    BY <2>1, <2>3, <2>4 DEF Sound
  <2>6. /\ Extends(endpoints, routes, Q, s, t) /\ Edge(endpoints, Q, x, y)
        /\ \A n, m : Edge(endpoints, routes, n, m) => Edge(endpoints, Q, n, m)
    BY <2>1, <2>4 DEF Extends, Edge
  <2>7. path_exists(endpoints, routes, y, x) => ~NoFeedbackIn(endpoints, Q)
    BY <2>3, <2>5, <2>6, RefusedRouteClosesCycle
  <2>8. ~path_exists(endpoints, routes, y, x) => NoFeedbackIn(endpoints, Q)
    BY <2>3, <2>5, <2>6, NewRouteClosesNoCycle
  <2> QED BY <2>2, <2>7, <2>8 DEF Q
<1> QED
  BY <1>1, InitGraphInv, NextGraphInv, PTL DEF Spec

-----------------------------------------------------------------------------
(* The loop of path_exists *)

\* What the search is to find out.
Reachable == Reach(graph.endpoints, graph.routes, from)

(* The reachable nodes contain the start and the successors of each other. *)
LEMMA ReachableClosed ==
  ASSUME from \in Nodes
  PROVE  /\ from \in Reachable /\ Reachable \subseteq Nodes
         /\ \A n \in Reachable : Succ(n) \subseteq Reachable
BY DEF Reachable, Reach, Closed, Succ, Successors

(* A closed set of nodes that holds the start holds everything reachable. *)
LEMMA ReachableLeast ==
  ASSUME NEW S \in SUBSET Nodes, from \in S, \A n \in S : Succ(n) \subseteq S
  PROVE  Reachable \subseteq S
BY DEF Reachable, Reach, Closed, Succ

(* The call starts with the invariant. *)
LEMMA InitSearchInv == SearchInit => SearchInv
<1> SUFFICES ASSUME SearchInit PROVE SearchInv
  OBVIOUS
<1>1. from \in Nodes /\ pending = {from} /\ visited = {}
  BY DEF SearchInit
<1>2. pending \cup visited \subseteq Reachable
  BY <1>1, ReachableClosed
<1>3. result \in {"none", "false"} /\ (result = "false" <=> ~node_is_loopback(graph.endpoints, from))
  BY DEF SearchInit
<1>4. AnswerCorrect
  BY <1>3 DEF AnswerCorrect, path_exists
<1> QED
  BY <1>1, <1>2, <1>3, <1>4 DEF SearchInv, Reachable

(* Every iteration keeps the invariant. *)
LEMMA NextSearchInv == SearchInv /\ [SearchNext]_searchVars => SearchInv'
<1> SUFFICES ASSUME SearchInv, [SearchNext]_searchVars PROVE SearchInv'
  OBVIOUS
<1>0. /\ from \in Nodes
      /\ pending \cup visited \subseteq Reachable
      /\ from \in pending \cup visited
      /\ \A n \in visited : n # target /\ Succ(n) \subseteq pending \cup visited
      /\ result # "false" => node_is_loopback(graph.endpoints, from)
      /\ AnswerCorrect
  BY DEF SearchInv, Reachable
<1>1. CASE Found
  <2>1. target \in Reachable /\ node_is_loopback(graph.endpoints, from)
    BY <1>0, <1>1 DEF Found
  <2>2. AnswerCorrect'
    BY <1>1, <2>1 DEF Found, AnswerCorrect, path_exists, Reachable
  <2> QED
    BY <1>0, <1>1, <2>1, <2>2 DEF Found, SearchInv, Succ, Reachable
<1>2. ASSUME NEW node \in pending, Skip(node) PROVE SearchInv'
  <2>1. pending' \cup visited' = pending \cup visited
    BY <1>2 DEF Skip
  <2> QED
    BY <1>0, <1>2, <2>1 DEF Skip, SearchInv, Succ, Reachable, AnswerCorrect
<1>3. ASSUME NEW node \in pending, Visit(node) PROVE SearchInv'
  <2>1. pending' \cup visited' = pending \cup visited \cup Succ(node)
    BY <1>3 DEF Visit
  <2>2. Succ(node) \subseteq Reachable
    BY <1>0, ReachableClosed
  <2>3. \A n \in visited' : n # target /\ Succ(n) \subseteq pending' \cup visited'
    BY <1>0, <1>3, <2>1 DEF Visit
  <2> QED
    BY <1>0, <1>3, <2>1, <2>2, <2>3 DEF Visit, SearchInv, Succ, Reachable, AnswerCorrect
<1>4. CASE Exhausted
  <2>1. pending = {}
    BY <1>4 DEF Exhausted
  <2>2. Reachable \subseteq visited
    <3>1. visited \in SUBSET Nodes /\ from \in visited /\ \A n \in visited : Succ(n) \subseteq visited
      BY <1>0, <2>1, ReachableClosed
    <3> QED
      BY <3>1, ReachableLeast
  <2>3. target \notin Reachable
    BY <1>0, <2>2
  <2>4. AnswerCorrect'
    BY <1>4, <2>3 DEF Exhausted, AnswerCorrect, path_exists, Reachable
  <2> QED
    BY <1>0, <1>4, <2>4 DEF Exhausted, SearchInv, Succ, Reachable
<1>5. CASE UNCHANGED searchVars
  BY <1>0, <1>5 DEF searchVars, SearchInv, Succ, Reachable, AnswerCorrect
<1> QED
  BY <1>1, <1>2, <1>3, <1>4, <1>5 DEF SearchNext

(* Whenever path_exists returns, its answer is whether the target is reachable
   from a loopback start; this is the fact RoutingGraph builds on. *)
THEOREM SearchCorrect == SearchSpec => []AnswerCorrect
<1>1. SearchInv => AnswerCorrect
  BY DEF SearchInv
<1> QED
  BY <1>1, InitSearchInv, NextSearchInv, PTL DEF SearchSpec
=============================================================================

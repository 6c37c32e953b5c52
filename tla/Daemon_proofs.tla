---------------------------- MODULE Daemon_proofs ----------------------------
(***************************************************************************)
(* Proofs about vcabled for any devices, routes, failures and kills: what  *)
(* it has answered is in its file, an answer Ok means what it says, a      *)
(* failed request is rolled back, and the router never runs a closed       *)
(* signal path.                                                            *)
(***************************************************************************)
EXTENDS Daemon, TLAPS

\* The maps of the daemon: saved routes, and routes as the graph holds them.
SavedMap(M) == DOMAIN M \subseteq RouteIds /\ M \in [DOMAIN M -> SavedRoutes]
GraphRoutes == [source : EndpointIds, sink : EndpointIds, inputs : Nat, outputs : Nat, finite : BOOLEAN]
RouteMap(G) == DOMAIN G \subseteq RouteIds /\ G \in [DOMAIN G -> GraphRoutes]

\* What no argument below is about: devices, flags and counters.
Outside ==
  /\ devices \subseteq Nodes /\ late \subseteq Virtual /\ socket \in BOOLEAN
  /\ faults \in 0..MaxFaults /\ plugs \in 0..MaxPlugs /\ crashes \in 0..MaxCrashes
Inside == known \subseteq Nodes /\ stale \subseteq known /\ live \subseteq DevicesOf(router) /\ reply \in {"Ok", "Error"}

Maps == SavedMap(routes) /\ SavedMap(disk) /\ SavedMap(before) /\ RouteMap(graph) /\ RouteMap(router)

\* Which call is made on behalf of what.
Places ==
  \/ pc = "down" /\ stage = "boot"
  \/ pc = "refresh" /\ stage \in {"boot", "main", "undo", "device"}
  \/ pc = "restore" /\ stage \in {"boot", "main", "undo", "device", "reject"}
  \/ pc = "restart" /\ stage \in {"boot", "main", "undo"}
  \/ pc = "bind" /\ stage = "boot"
  \/ pc \in {"idle", "respond"} /\ stage = "main"
  \/ pc = "save" /\ stage \in {"main", "undo"}
  \/ pc = "device" /\ stage = "device"

Cursor == cursor \in 1..(MaxRoute + 1) /\ (pc # "restore" => cursor = 1)

\* A route leads from node n to node m, and no closed path leads through loopback devices only.
Edge(G, n, m) == \E r \in DOMAIN G : G[r].source[1] = n /\ G[r].sink[1] = m
Acyclic(G) == \A S \in SUBSET Virtual : S # {} => \E n \in S : \A m \in S : ~Edge(G, n, m)

\* The graph is over the devices last listed; neither it nor the router has a closed path.
Graphs == DevicesOf(graph) \subseteq known /\ Acyclic(graph) /\ Acyclic(router)

\* G holds the routes of M whose ids are in D, between the endpoints they were saved with.
Matches(G, M, D) ==
  DOMAIN G = D /\ \A r \in D : G[r].source = M[r].source /\ G[r].sink = M[r].sink

\* A Connect goes on with the graph it has added to; all else rebuilds the graph from the routes.
Connecting == stage = "main" /\ req.op = "connect"
Restoring ==
  /\ pc = "restore" /\ stage # "reject" => Matches(graph, routes, {r \in DOMAIN routes : r < cursor})
  /\ pc = "restart" /\ ~Connecting => Matches(graph, routes, DOMAIN routes)
  /\ pc = "bind" => Matches(router, routes, DOMAIN routes)

\* Before the socket is there, memory and file agree.
Booting == stage = "boot" /\ pc # "down" => routes = disk

\* A rollback has gone back in memory, and once it has saved in the file.
Undoing == stage = "undo" => routes = before /\ (pc # "save" => disk = before)

\* A Connect or Disconnect under way: what it has changed, and that it is not answered yet.
Pending ==
  stage = "main" /\ pc \in {"save", "refresh", "restore", "restart"} =>
    /\ pc # "save" => disk = routes
    /\ \/ /\ req.op = "connect" /\ pc \in {"save", "restart"}
          /\ req.id \in RouteIds /\ req.saved \in SavedRoutes /\ req.id \notin DOMAIN before
          /\ routes = Insert(before, req.id, req.saved)
          /\ req.id \in DOMAIN graph /\ req.id \notin DOMAIN acked
       \/ /\ req.op = "disconnect"
          /\ req.id \in DOMAIN before /\ previous = before[req.id]
          /\ routes = Remove(before, req.id)
          /\ req.id \notin released /\ req.id \notin DOMAIN acked

Commanding == stage = "device" => req.op \in {"create", "delete"} /\ req.device \in Virtual

\* What was answered holds in memory too while the process runs.
Remembered == pc # "down" => Keeps(routes)

\* A Connect that is refused after an insertion: it was taken back, or has replaced a saved route.
Rejecting ==
  stage = "reject" =>
    req.op = "connect" /\ (routes = before \/ (req.id \in DOMAIN before /\ routes = Requested))
Errors == Rejecting /\ RolledBack

\* The file while it is about to be written: it has what memory had before the request, and in a
\* rollback it differs from that at the request's id only.
Saving ==
  /\ pc = "save" /\ stage = "main" => Same(before, disk, unsaved)
  /\ pc = "save" /\ stage = "undo" => Same(before, disk, {req.id})
Files == Saving /\ FileIsMemory

IndInv ==
  /\ Outside /\ Inside /\ Maps /\ Places /\ Cursor /\ Graphs /\ Restoring /\ Booting /\ Undoing
  /\ Pending /\ Commanding /\ Remembered /\ AckedDurable /\ SuccessIsReal /\ Errors /\ Files

-----------------------------------------------------------------------------
(* Maps *)

\* insert and remove keep a map of saved routes one, and each undoes the other.
LEMMA SavedMapFacts ==
  ASSUME NEW M, SavedMap(M), NEW k \in RouteIds
  PROVE  /\ \A v \in SavedRoutes : SavedMap(Insert(M, k, v))
         /\ SavedMap(Remove(M, k))
         /\ k \notin DOMAIN M => \A v : Remove(Insert(M, k, v), k) = M
         /\ k \in DOMAIN M => Insert(Remove(M, k), k, M[k]) = M
<1>1. \A v \in SavedRoutes : SavedMap(Insert(M, k, v))
  BY DEF SavedMap, Insert
<1>2. SavedMap(Remove(M, k))
  BY DEF SavedMap, Remove
<1>3. ASSUME k \notin DOMAIN M, NEW v PROVE Remove(Insert(M, k, v), k) = M
  BY <1>3 DEF SavedMap, Insert, Remove
<1>4. ASSUME k \in DOMAIN M PROVE Insert(Remove(M, k), k, M[k]) = M
  BY <1>4 DEF SavedMap, Insert, Remove
<1> QED
  BY <1>1, <1>2, <1>3, <1>4

\* The empty map.
LEMMA EmptyFacts ==
  /\ DOMAIN EmptyMap = {} /\ SavedMap(EmptyMap) /\ RouteMap(EmptyMap)
  /\ DevicesOf(EmptyMap) = {} /\ Acyclic(EmptyMap)
<1>1. DOMAIN EmptyMap = {}
  BY DEF EmptyMap
<1>2. SavedMap(EmptyMap) /\ RouteMap(EmptyMap)
  BY DEF EmptyMap, SavedMap, RouteMap
<1> QED
  BY <1>1, <1>2 DEF DevicesOf, Acyclic, Edge

\* Maps that are the same outside a set of ids, and an insertion or removal at one more id.
LEMMA SameFacts ==
  ASSUME NEW M, NEW N, NEW S, NEW k
  PROVE  /\ Same(M, M, S)
         /\ Same(M, N, S) => Same(M, N, S \cup {k})
         /\ Same(M, N, {k}) => Same(M, N, S \cup {k})
         /\ \A v : Same(M, N, S) => Same(Insert(M, k, v), N, S \cup {k})
         /\ \A v : Same(M, Insert(M, k, v), {k})
         /\ Same(M, Remove(M, k), {k})
<1>1. Same(M, M, S) /\ (Same(M, N, S) => Same(M, N, S \cup {k})) /\ (Same(M, N, {k}) => Same(M, N, S \cup {k}))
  BY DEF Same
<1>2. ASSUME NEW v, Same(M, N, S) PROVE Same(Insert(M, k, v), N, S \cup {k})
  BY <1>2 DEF Same, Insert
<1>3. ASSUME NEW v PROVE Same(M, Insert(M, k, v), {k})
  BY DEF Same, Insert
<1>4. Same(M, Remove(M, k), {k})
  BY DEF Same, Remove
<1> QED
  BY <1>1, <1>2, <1>3, <1>4

-----------------------------------------------------------------------------
(* The graph *)

\* The endpoints of the devices D.
LEMMA EndpointFacts ==
  ASSUME NEW D \in SUBSET Nodes, NEW e \in EndpointIds
  PROVE  /\ e[1] \in Nodes /\ (e \in DOMAIN EndpointsOf(D) <=> e[1] \in D)
         /\ e[1] \in D => /\ EndpointsOf(D)[e].node = e[1] /\ EndpointsOf(D)[e].channels = ChannelsOf[e[1]]
                          /\ EndpointsOf(D)[e].is_loopback <=> e[1] \in Virtual
  BY DEF EndpointIds, EndpointsOf, Virtual

\* A listed device that the driver owns is a loopback device.
LEMMA LoopbackFacts ==
  ASSUME NEW D \in SUBSET Nodes, NEW n
  PROVE  node_is_loopback(EndpointsOf(D), n) <=> n \in D /\ n \in Virtual
<1>1. DOMAIN EndpointsOf(D) = D \X {"Source", "Sink"} /\ DOMAIN EndpointsOf(D) \subseteq EndpointIds
  BY DEF EndpointsOf, EndpointIds
<1>2. ASSUME node_is_loopback(EndpointsOf(D), n) PROVE n \in D /\ n \in Virtual
  <2>1. PICK e \in DOMAIN EndpointsOf(D) : EndpointsOf(D)[e].node = n /\ EndpointsOf(D)[e].is_loopback
    BY <1>2 DEF node_is_loopback
  <2> QED BY <1>1, <2>1, EndpointFacts
<1>3. ASSUME n \in D, n \in Virtual PROVE node_is_loopback(EndpointsOf(D), n)
  <2> DEFINE e == <<n, "Source">>
  <2>1. e \in DOMAIN EndpointsOf(D) /\ e \in EndpointIds /\ e[1] = n
    BY <1>1, <1>3
  <2> HIDE DEF e
  <2> QED BY <1>3, <2>1, EndpointFacts DEF node_is_loopback
<1> QED
  BY <1>2, <1>3

\* The endpoints of a route of a graph over the devices D.
LEMMA RouteFacts ==
  ASSUME NEW G, RouteMap(G), NEW D \in SUBSET Nodes, DevicesOf(G) \subseteq D, NEW r \in DOMAIN G
  PROVE  /\ G[r].source \in EndpointIds /\ G[r].sink \in EndpointIds
         /\ G[r].source[1] \in D /\ G[r].sink[1] \in D
  BY DEF RouteMap, GraphRoutes, DevicesOf

\* The successors that the search follows are the routes' loopback sinks.
LEMMA SuccessorFacts ==
  ASSUME NEW G, RouteMap(G), NEW D \in SUBSET Nodes, DevicesOf(G) \subseteq D, NEW n, NEW m
  PROVE  m \in Successors(EndpointsOf(D), G, n) <=> m \in Virtual /\ Edge(G, n, m)
<1> DEFINE E == EndpointsOf(D)
<1>1. \A r \in DOMAIN G : /\ G[r].source \in DOMAIN E /\ E[G[r].source].node = G[r].source[1]
                          /\ G[r].sink \in DOMAIN E /\ E[G[r].sink].node = G[r].sink[1] /\ G[r].sink[1] \in D
  BY RouteFacts, EndpointFacts
<1>2. \A k : node_is_loopback(E, k) <=> k \in D /\ k \in Virtual
  BY LoopbackFacts
<1>3. Virtual \subseteq Nodes
  BY DEF Virtual
<1> HIDE DEF E
<1>4. m \in Successors(E, G, n) <=> m \in Virtual /\ Edge(G, n, m)
  BY <1>1, <1>2, <1>3 DEF Successors, Edge
<1> QED
  BY <1>4 DEF E

\* A graph without closed path has no feedback, over whichever endpoints it is looked at.
LEMMA AcyclicHasNoFeedback ==
  ASSUME NEW G, RouteMap(G), Acyclic(G)
  PROVE  NoFeedbackIn(EndpointsOf(Nodes), G)
<1> SUFFICES ASSUME NEW S \in SUBSET Nodes, Feedback(EndpointsOf(Nodes), G, S) PROVE FALSE
  BY DEF NoFeedbackIn
<1>1. DevicesOf(G) \subseteq Nodes
  BY DEF RouteMap, GraphRoutes, DevicesOf, EndpointIds
<1>2. S \subseteq Virtual /\ S # {}
  BY LoopbackFacts DEF Feedback
<1>3. PICK n \in S : \A m \in S : ~Edge(G, n, m)
  BY <1>2 DEF Acyclic
<1>4. PICK m \in S : m \in Successors(EndpointsOf(Nodes), G, n)
  BY DEF Feedback
<1> QED
  BY <1>1, <1>3, <1>4, SuccessorFacts

\* The search's set contains its start and is closed.
LEMMA ReachFacts ==
  ASSUME NEW E, NEW R, NEW from \in Nodes
  PROVE  /\ from \in Reach(E, R, from)
         /\ \A n \in Reach(E, R, from) : Successors(E, R, n) \subseteq Reach(E, R, from)
  BY DEF Reach, Closed, Successors

\* A route whose sink does not reach its source closes no path: a closed path through it, cut down
\* to what the sink reaches, would be one without it.
LEMMA AddedAcyclic ==
  ASSUME NEW G, NEW Q, RouteMap(G), Acyclic(G), NEW D \in SUBSET Nodes, DevicesOf(G) \subseteq D,
         NEW x \in D, NEW y \in D, ~path_exists(EndpointsOf(D), G, y, x),
         \A n, m : Edge(Q, n, m) => Edge(G, n, m) \/ (n = x /\ m = y)
  PROVE  Acyclic(Q)
<1> SUFFICES ASSUME NEW S \in SUBSET Virtual, S # {}, \A n \in S : \E m \in S : Edge(Q, n, m)
             PROVE  FALSE
  BY DEF Acyclic
<1> DEFINE T == S \cap Reach(EndpointsOf(D), G, y)
<1>1. PICK n \in S : \A m \in S : ~Edge(G, n, m)
  BY DEF Acyclic
<1>2. n = x /\ y \in S
  BY <1>1
<1>3. x \notin Reach(EndpointsOf(D), G, y)
  BY <1>2, LoopbackFacts DEF path_exists
<1>4. y \in T /\ T \in SUBSET Virtual /\ y \in Nodes
  BY <1>2, ReachFacts
<1>5. PICK k \in T : \A m \in T : ~Edge(G, k, m)
  BY <1>4 DEF Acyclic
<1>6. k # x
  BY <1>3
<1>7. PICK m \in S : Edge(Q, k, m)
  OBVIOUS
<1>8. Edge(G, k, m)
  BY <1>6, <1>7
<1>9. m \in Successors(EndpointsOf(D), G, k)
  BY <1>8, SuccessorFacts
<1>10. m \in T
  BY <1>4, <1>9, ReachFacts
<1> QED
  BY <1>5, <1>8, <1>10

\* add_route(build_route(saved)) adds the saved route to the graph and keeps it good.
LEMMA AddFacts ==
  ASSUME NEW G, RouteMap(G), Acyclic(G), NEW D \in SUBSET Nodes, DevicesOf(G) \subseteq D,
         NEW id \in RouteIds, NEW saved \in SavedRoutes, addable(D, G, id, saved)
  PROVE  LET Q == add(D, G, id, saved)
         IN  /\ RouteMap(Q) /\ Acyclic(Q) /\ DevicesOf(Q) \subseteq D
             /\ DOMAIN Q = DOMAIN G \cup {id} /\ id \notin DOMAIN G
             /\ Q[id].source = saved.source /\ Q[id].sink = saved.sink
             /\ \A r \in DOMAIN G : Q[r] = G[r]
<1> DEFINE E == EndpointsOf(D)
           route == build_route(E, saved)
           Q == Insert(G, id, route)
<1>1. build_route_ok(E, saved) /\ add_route_result(E, G, id, route) = "Ok"
  BY DEF addable
<1>2. saved.source \in EndpointIds /\ saved.sink \in EndpointIds /\ saved.finite \in BOOLEAN
  BY DEF SavedRoutes
<1>3. saved.source \in DOMAIN E /\ saved.sink \in DOMAIN E
  BY <1>1 DEF build_route_ok
<1>4. /\ saved.source[1] \in D /\ saved.sink[1] \in D
      /\ E[saved.source].node = saved.source[1] /\ E[saved.sink].node = saved.sink[1]
      /\ E[saved.source].channels \in Nat /\ E[saved.sink].channels \in Nat
  BY <1>2, <1>3, EndpointFacts, DaemonAssumption
<1> HIDE DEF E
<1>5. route \in GraphRoutes /\ route.source = saved.source /\ route.sink = saved.sink
  BY <1>2, <1>4 DEF build_route, GraphRoutes
<1> HIDE DEF route
<1>6. id \notin DOMAIN G /\ ~path_exists(E, G, E[route.sink].node, E[route.source].node)
  BY <1>1 DEF add_route_result
<1>7. DOMAIN Q = DOMAIN G \cup {id} /\ Q[id] = route /\ \A r \in DOMAIN G : Q[r] = G[r]
  BY <1>6 DEF Insert
<1>8. RouteMap(Q)
  BY <1>5 DEF RouteMap, Insert
<1> HIDE DEF Q
<1>9. DevicesOf(Q) \subseteq D
  BY <1>4, <1>5, <1>7 DEF DevicesOf
<1>10. \A n, m : Edge(Q, n, m) => Edge(G, n, m) \/ (n = saved.source[1] /\ m = saved.sink[1])
  BY <1>5, <1>7 DEF Edge
<1>11. ~path_exists(EndpointsOf(D), G, saved.sink[1], saved.source[1])
  BY <1>4, <1>5, <1>6 DEF E
<1>12. Acyclic(Q)
  BY <1>4, <1>10, <1>11, AddedAcyclic
<1> QED
  BY <1>5, <1>6, <1>7, <1>8, <1>9, <1>12 DEF add, Q, route, E

-----------------------------------------------------------------------------
(* Steps by the place they lead to *)

\* The counters of failures, plugs and kills stay within their bounds.
LEMMA CounterFacts ==
  ASSUME Outside, InjectFault \/ CountPlug \/ UNCHANGED bounds
         \/ (crashes < MaxCrashes /\ crashes' = crashes + 1 /\ UNCHANGED <<faults, plugs>>)
  PROVE  faults' \in 0..MaxFaults /\ plugs' \in 0..MaxPlugs /\ crashes' \in 0..MaxCrashes
<1>1. faults < MaxFaults => faults + 1 \in 0..MaxFaults
  BY DaemonAssumption DEF Outside
<1>2. plugs < MaxPlugs => plugs + 1 \in 0..MaxPlugs
  BY DaemonAssumption DEF Outside
<1>3. crashes < MaxCrashes => crashes + 1 \in 0..MaxCrashes
  BY DaemonAssumption DEF Outside
<1> QED
  BY <1>1, <1>2, <1>3 DEF Outside, InjectFault, CountPlug, bounds

\* Devices come and go, or nothing happens.
LEMMA QuietStep ==
  ASSUME IndInv, Outside', Inside', UNCHANGED <<disk, known, graph, routes, router, control, history>>
  PROVE  IndInv'
<1> USE DEF control, history
<1>1. Maps' /\ Places' /\ Cursor' /\ Graphs'
  BY DEF IndInv, Maps, SavedMap, RouteMap, Places, Cursor, Graphs, DevicesOf, Acyclic, Edge
<1>2. Restoring' /\ Booting' /\ Undoing' /\ Pending' /\ Commanding'
  BY DEF IndInv, Restoring, Connecting, Matches, Booting, Undoing, Pending, Commanding
<1>3. Remembered' /\ AckedDurable' /\ SuccessIsReal'
  BY DEF IndInv, Remembered, AckedDurable, Keeps, AsAnswered, SuccessIsReal
<1>4. Errors' /\ Files'
  BY DEF IndInv, Errors, Rejecting, RolledBack, Requested, Files, Saving, FileIsMemory, Same
<1> QED
  BY <1>1, <1>2, <1>3, <1>4 DEF IndInv

\* The process ends: what was answered is in the file.
LEMMA ExitStep ==
  ASSUME IndInv, Exit, Outside', UNCHANGED <<disk, history>>
  PROVE  IndInv'
<1>1. /\ pc' = "down" /\ stage' = "boot" /\ known' = {} /\ stale' = {} /\ graph' = EmptyMap /\ routes' = EmptyMap
      /\ router' = EmptyMap /\ live' = {} /\ cursor' = 1 /\ reply' = "Ok"
      /\ disk' = disk /\ acked' = acked /\ released' = released /\ before' = before /\ replaced' = replaced
  BY DEF Exit, Goto, history
<1>2. Inside' /\ Graphs'
  BY <1>1, EmptyFacts DEF Inside, Graphs, DevicesOf, Acyclic, Edge
<1>3. Maps'
  BY <1>1, EmptyFacts DEF IndInv, Maps, SavedMap, RouteMap
<1>4. Places' /\ Cursor'
  BY <1>1, DaemonAssumption DEF Places, Cursor
<1>5. Restoring' /\ Booting' /\ Undoing' /\ Pending' /\ Commanding'
  BY <1>1 DEF Restoring, Booting, Undoing, Pending, Commanding
<1>6. Remembered' /\ AckedDurable' /\ SuccessIsReal'
  BY <1>1 DEF IndInv, Remembered, AckedDurable, Keeps, AsAnswered, SuccessIsReal
<1>7. Errors' /\ Files'
  BY <1>1 DEF Errors, Rejecting, RolledBack, Files, Saving, FileIsMemory
<1> QED
  BY <1>2, <1>3, <1>4, <1>5, <1>6, <1>7 DEF IndInv

\* A handler is through: the response is all that is left of it.
LEMMA RespondStep ==
  ASSUME NEW r \in {"Ok", "Error"}, Respond(r), Outside', Maps', Graphs', Remembered', AckedDurable', SuccessIsReal',
         RolledBack', FileIsMemory',
         known' \subseteq Nodes, stale' \subseteq known', live' \subseteq DevicesOf(router')
  PROVE  IndInv'
<1>1. pc' = "respond" /\ stage' = "main" /\ reply' = r /\ cursor' = 1
  BY DEF Respond, Goto
<1>2. Inside'
  BY <1>1 DEF Inside, DevicesOf
<1>3. Places' /\ Cursor'
  BY <1>1, DaemonAssumption DEF Places, Cursor
<1>4. Restoring' /\ Booting' /\ Undoing' /\ Pending' /\ Commanding'
  BY <1>1 DEF Restoring, Booting, Undoing, Pending, Commanding
<1>5. Errors' /\ Files'
  BY <1>1 DEF Errors, Rejecting, Files, Saving
<1> QED
  BY <1>2, <1>3, <1>4, <1>5 DEF IndInv

\* It answers with an error, and what it holds is as it was.
LEMMA RefuseStep ==
  ASSUME IndInv, Respond("Error"), Outside', pc \notin {"down", "save"},
         UNCHANGED <<disk, known, graph, routes, router, live, acked, released, replaced, unsaved>>,
         stale' \subseteq known', before' \in {before, routes}, RolledBack'
  PROVE  IndInv'
<1>1. Maps' /\ Graphs'
  BY DEF IndInv, Maps, SavedMap, RouteMap, Graphs, DevicesOf, Acyclic, Edge
<1>2. Remembered' /\ AckedDurable'
  BY DEF IndInv, Remembered, AckedDurable, Keeps, AsAnswered
<1>3. SuccessIsReal'
  BY DEF Respond, SuccessIsReal
<1>4. known' \subseteq Nodes /\ live' \subseteq DevicesOf(router')
  BY DEF IndInv, Inside
<1>5. FileIsMemory'
  BY DEF IndInv, Files, FileIsMemory, Same
<1> QED
  BY <1>1, <1>2, <1>3, <1>4, <1>5, RespondStep

\* A handler that gives up where it rebuilds the graph, or in a rollback, leaves routes that
\* RolledBack allows.
LEMMA ErrorFacts ==
  ASSUME IndInv, stage # "boot", pc \in {"refresh", "restore"} \/ stage = "undo",
         UNCHANGED <<routes, disk, req, before>>
  PROVE  RolledBack'
<1>1. CASE stage = "undo"
  BY <1>1 DEF IndInv, Undoing, RolledBack
<1>2. CASE stage = "main" /\ pc \in {"refresh", "restore"}
  <2>1. req.op = "disconnect" /\ disk = routes /\ routes = Remove(before, req.id)
    BY <1>2 DEF IndInv, Pending
  <2>2. routes = Requested /\ disk = Requested
    BY <2>1 DEF Requested
  <2> QED BY <2>1, <2>2 DEF RolledBack, Requested
<1>3. CASE stage = "device"
  BY <1>3 DEF IndInv, Commanding, RolledBack
<1>4. CASE stage = "reject"
  BY <1>4 DEF IndInv, Errors, Rejecting, RolledBack, Requested
<1> QED
  BY <1>1, <1>2, <1>3, <1>4 DEF IndInv, Places

\* A handler's `?`.
LEMMA FailStep ==
  ASSUME IndInv, Fail, pc \in {"refresh", "restore"}, Outside', UNCHANGED <<disk, history>>
  PROVE  IndInv'
<1>1. CASE stage = "boot"
  BY <1>1, ExitStep DEF Fail
<1>2. CASE stage # "boot"
  <2>1. /\ Respond("Error") /\ UNCHANGED <<disk, known, graph, routes, router, live, acked, released, replaced, unsaved>>
        /\ stale' = stale /\ before' = before /\ req' = req
    BY <1>2 DEF Fail, memory, history
  <2>2. stale' \subseteq known'
    BY <2>1 DEF IndInv, Inside
  <2>3. RolledBack'
    BY <1>2, <2>1, ErrorFacts
  <2> QED BY <2>1, <2>2, <2>3, RefuseStep
<1> QED
  BY <1>1, <1>2

\* The daemon waits for the next request.
LEMMA IdleStep ==
  ASSUME IndInv, pc \notin {"down", "save"}, Goto("idle", "main"), reply' \in {"Ok", "Error"}, cursor' = cursor, cursor = 1, Outside',
         UNCHANGED <<disk, memory, history>>
  PROVE  IndInv'
<1> USE DEF memory, history
<1>1. pc' = "idle" /\ stage' = "main"
  BY DEF Goto
<1>2. Inside' /\ Maps' /\ Graphs'
  BY DEF IndInv, Inside, Maps, SavedMap, RouteMap, Graphs, DevicesOf, Acyclic, Edge
<1>3. Places' /\ Cursor'
  BY <1>1, DaemonAssumption DEF Places, Cursor
<1>4. Restoring' /\ Booting' /\ Undoing' /\ Pending' /\ Commanding'
  BY <1>1 DEF Restoring, Booting, Undoing, Pending, Commanding
<1>5. Remembered' /\ AckedDurable' /\ SuccessIsReal'
  BY <1>1 DEF IndInv, Remembered, AckedDurable, Keeps, AsAnswered, SuccessIsReal
<1>6. Errors' /\ Files'
  BY <1>1 DEF IndInv, Errors, Rejecting, RolledBack, Files, Saving, FileIsMemory, Same
<1> QED
  BY <1>2, <1>3, <1>4, <1>5, <1>6 DEF IndInv

-----------------------------------------------------------------------------
(* Startup, exit, and devices that come and go *)

\* Before the first start.
LEMMA InitIndInv == Init => IndInv
<1> SUFFICES ASSUME Init PROVE IndInv
  OBVIOUS
<1>1. Outside /\ Inside
  <2>1. devices \subseteq Nodes /\ late \subseteq Virtual /\ socket \in BOOLEAN
    BY DEF Init, Virtual
  <2>2. faults \in 0..MaxFaults /\ plugs \in 0..MaxPlugs /\ crashes \in 0..MaxCrashes
    BY DaemonAssumption DEF Init
  <2>3. Inside
    BY DEF Init, Inside
  <2> QED BY <2>1, <2>2, <2>3 DEF Outside
<1>2. Maps /\ Graphs
  BY EmptyFacts DEF Init, Maps, Graphs
<1>3. Places /\ Cursor
  BY DaemonAssumption DEF Init, Places, Cursor
<1>4. Restoring /\ Booting /\ Undoing /\ Pending /\ Commanding
  BY DEF Init, Restoring, Booting, Undoing, Pending, Commanding
<1>5. Remembered /\ AckedDurable /\ SuccessIsReal
  BY EmptyFacts DEF Init, Remembered, AckedDurable, Keeps, AsAnswered, SuccessIsReal
<1>6. Errors /\ Files
  BY DEF Init, Errors, Rejecting, RolledBack, Files, Saving, FileIsMemory
<1> QED
  BY <1>1, <1>2, <1>3, <1>4, <1>5, <1>6 DEF IndInv

\* Devices, deletions and the socket file change; the daemon does nothing.
LEMMA EnvironmentSteps ==
  ASSUME IndInv,
         \/ RemoveSocket \/ UNCHANGED vars
         \/ \E d \in Physical : Plug(d) \/ Unplug(d)
         \/ \E d \in Virtual : LateDelete(d)
  PROVE  IndInv'
<1> USE DEF vars, disks, memory, control, bounds, history
<1> USE DEF IndInv
<1>1. CASE UNCHANGED vars
  BY <1>1, QuietStep DEF Outside, Inside, DevicesOf
<1>2. CASE RemoveSocket
  BY <1>2, QuietStep DEF RemoveSocket, Outside, Inside, DevicesOf
<1>3. ASSUME NEW d \in Physical, Plug(d) PROVE IndInv'
  <2>1. Outside'
    BY <1>3, CounterFacts, DaemonAssumption DEF Plug, Outside
  <2> QED BY <1>3, <2>1, QuietStep DEF Plug, Inside, DevicesOf
<1>4. ASSUME NEW d \in Physical, Unplug(d) PROVE IndInv'
  <2>1. Outside'
    BY <1>4, CounterFacts DEF Unplug, Outside
  <2> QED BY <1>4, <2>1, QuietStep DEF Unplug, Inside, DevicesOf
<1>5. ASSUME NEW d \in Virtual, LateDelete(d) PROVE IndInv'
  BY <1>5, QuietStep DEF LateDelete, Outside, Inside, DevicesOf
<1> QED
  BY <1>1, <1>2, <1>3, <1>4, <1>5

\* load brings back what was answered.
LEMMA StartStep ==
  ASSUME IndInv, Start
  PROVE  IndInv'
<1> USE DEF disks, bounds, history
<1>1. /\ pc = "down" /\ pc' = "refresh" /\ stage' = "boot" /\ routes' = disk
      /\ UNCHANGED <<devices, late, disk, socket, known, stale, graph, router, live, cursor, reply, bounds,
                     acked, released, before, replaced>>
  BY DEF Start, Goto, load
<1>2. Outside' /\ Inside' /\ Graphs'
  BY <1>1 DEF IndInv, Outside, Inside, Graphs, DevicesOf, Acyclic, Edge
<1>3. Maps'
  BY <1>1 DEF IndInv, Maps, SavedMap, RouteMap
<1>4. Places' /\ Cursor'
  BY <1>1 DEF IndInv, Places, Cursor
<1>5. Restoring' /\ Booting' /\ Undoing' /\ Pending' /\ Commanding'
  BY <1>1 DEF Restoring, Booting, Undoing, Pending, Commanding
<1>6. Remembered' /\ AckedDurable' /\ SuccessIsReal'
  BY <1>1 DEF IndInv, Remembered, AckedDurable, Keeps, AsAnswered, SuccessIsReal
<1>7. Errors' /\ Files'
  BY <1>1 DEF Errors, Rejecting, RolledBack, Files, Saving, FileIsMemory, Same
<1> QED
  BY <1>2, <1>3, <1>4, <1>5, <1>6, <1>7 DEF IndInv

\* The socket is there, or the process ends.
LEMMA BindSteps ==
  ASSUME IndInv, Bind \/ BindFail \/ Crash
  PROVE  IndInv'
<1> USE DEF disks, bounds, history
<1>1. CASE Bind
  BY <1>1, IdleStep DEF Bind, IndInv, Outside, Inside, Cursor, memory
<1>2. CASE BindFail
  BY <1>2, ExitStep, CounterFacts DEF BindFail, IndInv, Outside
<1>3. CASE Crash
  BY <1>3, ExitStep, CounterFacts DEF Crash, IndInv, Outside
<1> QED
  BY <1>1, <1>2, <1>3

\* list_devices fails, or a saved route cannot be restored.
LEMMA FailSteps ==
  ASSUME IndInv, RefreshFail \/ RestoreFail
  PROVE  IndInv'
<1> USE DEF disks
<1>1. CASE RefreshFail
  BY <1>1, FailStep, CounterFacts DEF RefreshFail, IndInv, Outside
<1>2. CASE RestoreFail
  BY <1>2, FailStep DEF RestoreFail, IndInv, Outside, bounds
<1> QED
  BY <1>1, <1>2

\* The response is written, or the client has gone.
LEMMA AnswerSteps ==
  ASSUME IndInv, Answer \/ AnswerLost
  PROVE  IndInv'
<1> USE DEF disks
<1>1. CASE Answer /\ req.op = "shutdown"
  BY <1>1, ExitStep DEF Answer, IndInv, Outside, bounds
<1>2. CASE Answer /\ req.op # "shutdown"
  BY <1>2, IdleStep DEF Answer, IndInv, Outside, Cursor, bounds
<1>3. CASE AnswerLost
  BY <1>3, IdleStep, CounterFacts DEF AnswerLost, IndInv, Outside, Cursor
<1> QED
  BY <1>1, <1>2, <1>3

-----------------------------------------------------------------------------
(* Rebuilding the graph *)

\* The devices are listed: an empty graph over them, no route restored yet.
LEMMA RefreshStep ==
  ASSUME IndInv, Refresh
  PROVE  IndInv'
<1> USE DEF disks, bounds, history
<1>1. /\ pc = "refresh" /\ pc' = "restore" /\ stage' = stage /\ known' = devices /\ stale' = {} /\ graph' = EmptyMap
      /\ cursor' = 1
      /\ UNCHANGED <<devices, late, disk, socket, routes, router, live, req, previous, reply, bounds, history>>
  BY DEF Refresh, Goto
<1>2. Outside' /\ Inside'
  BY <1>1 DEF IndInv, Outside, Inside, DevicesOf
<1>3. Maps' /\ Graphs'
  BY <1>1, EmptyFacts DEF IndInv, Maps, SavedMap, RouteMap, Graphs, DevicesOf, Acyclic, Edge
<1>4. Places' /\ Cursor'
  BY <1>1, DaemonAssumption DEF IndInv, Places, Cursor
<1>5. {r \in DOMAIN routes : r < 1} = {}
  BY DEF IndInv, Maps, SavedMap, RouteIds
<1>6. Restoring'
  BY <1>1, <1>5, EmptyFacts DEF Restoring, Matches
<1>7. Booting' /\ Undoing' /\ Commanding' /\ Remembered' /\ AckedDurable' /\ SuccessIsReal'
  BY <1>1 DEF IndInv, Booting, Undoing, Commanding, Remembered, AckedDurable, Keeps, AsAnswered, SuccessIsReal
<1>8. Pending'
  BY <1>1 DEF IndInv, Pending
<1>9. Errors' /\ Files'
  BY <1>1 DEF IndInv, Errors, Rejecting, RolledBack, Requested, Files, Saving, FileIsMemory, Same
<1> QED
  BY <1>2, <1>3, <1>4, <1>6, <1>7, <1>8, <1>9 DEF IndInv

\* restore_routes adds the next route, if the id has one.
LEMMA RestoreStep ==
  ASSUME IndInv, Restore
  PROVE  IndInv'
<1> USE DEF disks, bounds, history
<1>1. /\ pc = "restore" /\ cursor \in RouteIds /\ cursor' = cursor + 1
      /\ UNCHANGED <<devices, late, disk, socket, known, stale, routes, router, live, pc, stage, req, previous, reply,
                     bounds, history>>
  BY DEF Restore
<1>2. PICK Q : Q = graph'
  OBVIOUS
<1>3. /\ RouteMap(graph) /\ Acyclic(graph) /\ known \in SUBSET Nodes /\ DevicesOf(graph) \subseteq known
      /\ SavedMap(routes)
  BY DEF IndInv, Maps, Graphs, Inside
<1>4. /\ RouteMap(Q) /\ Acyclic(Q) /\ DevicesOf(Q) \subseteq known
      /\ cursor \notin DOMAIN routes => Q = graph
      /\ cursor \in DOMAIN routes =>
           /\ DOMAIN Q = DOMAIN graph \cup {cursor}
           /\ Q[cursor].source = routes[cursor].source /\ Q[cursor].sink = routes[cursor].sink
           /\ \A r \in DOMAIN graph : Q[r] = graph[r] /\ r # cursor
  <2>1. CASE cursor \notin DOMAIN routes
    BY <1>2, <1>3, <2>1 DEF Restore
  <2>2. CASE cursor \in DOMAIN routes
    <3>1. Q = add(known, graph, cursor, routes[cursor]) /\ addable(known, graph, cursor, routes[cursor])
      BY <1>2, <2>2 DEF Restore
    <3>2. routes[cursor] \in SavedRoutes
      BY <1>3, <2>2 DEF SavedMap
    <3>3. cursor \in RouteIds
      BY <1>1
    <3> DEFINE A == add(known, graph, cursor, routes[cursor])
    <3>4. /\ RouteMap(A) /\ Acyclic(A) /\ DevicesOf(A) \subseteq known
          /\ DOMAIN A = DOMAIN graph \cup {cursor} /\ cursor \notin DOMAIN graph
          /\ A[cursor].source = routes[cursor].source /\ A[cursor].sink = routes[cursor].sink
          /\ \A r \in DOMAIN graph : A[r] = graph[r]
      BY <1>3, <3>1, <3>2, <3>3, AddFacts
    <3>5. Q = A
      BY <3>1
    <3> HIDE DEF A
    <3> QED BY <2>2, <3>4, <3>5
  <2> QED BY <2>1, <2>2
<1>5. Outside' /\ Inside'
  BY <1>1 DEF IndInv, Outside, Inside, DevicesOf
<1>6. Maps' /\ Graphs'
  <2>1. RouteMap(graph') /\ Acyclic(graph') /\ DevicesOf(graph') \subseteq known'
    BY <1>1, <1>2, <1>4
  <2> QED BY <1>1, <2>1 DEF IndInv, Maps, SavedMap, RouteMap, Graphs, DevicesOf, Acyclic, Edge
<1>7. Places' /\ Cursor'
  <2>1. cursor + 1 \in 1..(MaxRoute + 1)
    BY <1>1, DaemonAssumption DEF RouteIds
  <2> QED BY <1>1, <2>1 DEF IndInv, Places, Cursor
<1>8. Restoring'
  <2> SUFFICES ASSUME stage # "reject" PROVE Matches(Q, routes, {r \in DOMAIN routes : r < cursor + 1})
    BY <1>1, <1>2 DEF Restoring, Matches
  <2>1. Matches(graph, routes, {r \in DOMAIN routes : r < cursor})
    BY <1>1 DEF IndInv, Restoring
  <2>2. DOMAIN routes \subseteq Int /\ cursor \in Int
    BY <1>1, <1>3, DaemonAssumption DEF SavedMap, RouteIds
  <2>3. {r \in DOMAIN routes : r < cursor + 1} = {r \in DOMAIN routes : r < cursor} \cup (DOMAIN routes \cap {cursor})
    BY <2>2
  <2> QED BY <1>4, <2>1, <2>2, <2>3 DEF Matches
<1>9. Booting' /\ Undoing' /\ Commanding' /\ Remembered' /\ AckedDurable' /\ SuccessIsReal'
  BY <1>1 DEF IndInv, Booting, Undoing, Commanding, Remembered, AckedDurable, Keeps, AsAnswered, SuccessIsReal
<1>10. Pending'
  BY <1>1 DEF IndInv, Pending
<1>11. Errors' /\ Files'
  BY <1>1 DEF IndInv, Errors, Rejecting, RolledBack, Requested, Files, Saving, FileIsMemory, Same
<1> QED
  BY <1>5, <1>6, <1>7, <1>8, <1>9, <1>10, <1>11 DEF IndInv

\* Every id has been restored: the request is answered, or the router restarted.
LEMMA RestoreDoneStep ==
  ASSUME IndInv, RestoreDone
  PROVE  IndInv'
<1> USE DEF disks, memory, bounds, history
<1>1. /\ pc = "restore" /\ cursor \notin RouteIds
      /\ UNCHANGED <<devices, late, disk, socket, known, stale, graph, routes, router, live, req, previous, bounds, history>>
  BY DEF RestoreDone
<1>2. Outside' /\ Maps' /\ Graphs'
  BY <1>1 DEF IndInv, Outside, Maps, SavedMap, RouteMap, Graphs, DevicesOf, Acyclic, Edge
<1>3. CASE stage = "device"
  <2>1. Respond("Ok")
    BY <1>3 DEF RestoreDone
  <2>2. pc' = "respond" /\ req'.op \in {"create", "delete"}
    BY <1>1, <1>3, <2>1 DEF IndInv, Commanding, Respond, Goto
  <2>3. Remembered' /\ AckedDurable' /\ SuccessIsReal'
    BY <1>1, <2>2 DEF IndInv, Remembered, AckedDurable, Keeps, AsAnswered, SuccessIsReal
  <2>4. RolledBack' /\ FileIsMemory'
    BY <1>1, <2>2 DEF IndInv, RolledBack, Files, FileIsMemory, Same
  <2> QED BY <1>1, <1>2, <2>1, <2>3, <2>4, RespondStep DEF IndInv, Inside
<1>4. CASE stage = "reject"
  BY <1>1, <1>2, <1>4, ErrorFacts, RefuseStep DEF RestoreDone, IndInv, Inside
<1>5. CASE stage \notin {"device", "reject"}
  <2>1. pc' = "restart" /\ stage' = stage /\ cursor' = 1 /\ reply' = reply
    BY <1>5 DEF RestoreDone, Goto
  <2>2. Places' /\ Cursor' /\ Inside'
    BY <1>1, <1>5, <2>1, DaemonAssumption DEF IndInv, Places, Cursor, Inside, DevicesOf
  <2>3. Restoring'
    <3>1. Matches(graph, routes, {r \in DOMAIN routes : r < cursor})
      BY <1>1, <1>5 DEF IndInv, Restoring
    <3>2. {r \in DOMAIN routes : r < cursor} = DOMAIN routes
      BY <1>1, DaemonAssumption DEF IndInv, Cursor, Maps, SavedMap, RouteIds
    <3> QED BY <1>1, <2>1, <3>1, <3>2 DEF Restoring, Matches
  <2>4. Booting' /\ Undoing' /\ Commanding' /\ Remembered' /\ AckedDurable' /\ SuccessIsReal'
    BY <1>1, <2>1 DEF IndInv, Booting, Undoing, Commanding, Remembered, AckedDurable, Keeps, AsAnswered, SuccessIsReal
  <2>5. Pending'
    BY <1>1, <2>1 DEF IndInv, Pending
  <2>6. Errors' /\ Files'
    BY <1>1, <1>5, <2>1 DEF IndInv, Errors, Rejecting, RolledBack, Files, Saving, FileIsMemory, Same
  <2> QED BY <1>2, <2>2, <2>3, <2>4, <2>5, <2>6 DEF IndInv
<1> QED
  BY <1>3, <1>4, <1>5

-----------------------------------------------------------------------------
(* Saving, restarting the router, and going back *)

\* A Connect or Disconnect that is not answered yet can be undone, and what was answered holds then.
LEMMA UndoneFacts ==
  ASSUME IndInv, stage = "main", pc \in {"save", "restart"}
  PROVE  /\ Undone = before /\ SavedMap(before)
         /\ Keeps(before) /\ Same(before, routes, {req.id})
<1>1. SavedMap(before) /\ Keeps(routes)
  BY DEF IndInv, Maps, Remembered
<1>2. CASE /\ req.op = "connect" /\ req.id \in RouteIds /\ req.id \notin DOMAIN before
           /\ routes = Insert(before, req.id, req.saved) /\ req.id \notin DOMAIN acked
  <2>1. Undone = before
    BY <1>1, <1>2, SavedMapFacts DEF Undone
  <2>2. DOMAIN routes = DOMAIN before \cup {req.id} /\ \A k \in DOMAIN before : routes[k] = before[k]
    BY <1>2 DEF Insert
  <2>3. Keeps(before)
    BY <1>1, <1>2, <2>2 DEF Keeps, AsAnswered
  <2>4. Same(before, routes, {req.id})
    BY <1>2, SameFacts
  <2> QED BY <1>1, <2>1, <2>3, <2>4
<1>3. CASE /\ req.op = "disconnect" /\ req.id \in DOMAIN before /\ previous = before[req.id]
           /\ routes = Remove(before, req.id) /\ req.id \notin released /\ req.id \notin DOMAIN acked
  <2>1. req.id \in RouteIds
    BY <1>1, <1>3 DEF SavedMap
  <2>2. Undone = before
    BY <1>1, <1>3, <2>1, SavedMapFacts DEF Undone
  <2>3. DOMAIN routes = DOMAIN before \ {req.id} /\ \A k \in DOMAIN routes : routes[k] = before[k]
    BY <1>3 DEF Remove
  <2>4. Keeps(before)
    BY <1>1, <1>3, <2>3 DEF Keeps, AsAnswered
  <2>5. Same(before, routes, {req.id})
    BY <1>3, SameFacts
  <2> QED BY <1>1, <2>2, <2>4, <2>5
<1> QED
  BY <1>2, <1>3 DEF IndInv, Pending

\* The router runs the graph; a request is answered Ok.
LEMMA RestartStep ==
  ASSUME IndInv, Restart
  PROVE  IndInv'
<1> USE DEF disks, bounds
<1>1. /\ pc = "restart" /\ router' = graph /\ live' = DevicesOf(graph)
      /\ UNCHANGED <<devices, late, disk, socket, known, stale, graph, routes, req, previous, bounds, before, replaced, unsaved>>
  BY DEF Restart
<1>2. Outside' /\ Maps' /\ Graphs'
  BY <1>1 DEF IndInv, Outside, Maps, SavedMap, RouteMap, Graphs, DevicesOf, Acyclic, Edge
<1>3. known' \subseteq Nodes /\ stale' \subseteq known' /\ live' \subseteq DevicesOf(router')
  BY <1>1 DEF IndInv, Inside
<1>4. Keeps(routes) /\ FileIsMemory'
  BY <1>1 DEF IndInv, Remembered, Restart, Files, FileIsMemory, Same, Respond, Goto
<1>5. CASE stage = "boot"
  <2>1. pc' = "bind" /\ stage' = stage /\ UNCHANGED <<cursor, reply, acked, released>>
    BY <1>5 DEF Restart, Goto
  <2>2. Inside' /\ Places' /\ Cursor'
    BY <1>1, <1>3, <1>5, <2>1 DEF IndInv, Inside, Places, Cursor, DevicesOf
  <2>3. Restoring'
    BY <1>1, <1>5, <2>1 DEF IndInv, Restoring, Connecting, Matches
  <2>4. Booting' /\ Undoing' /\ Pending' /\ Commanding' /\ Remembered' /\ AckedDurable' /\ SuccessIsReal'
    BY <1>1, <1>5, <2>1 DEF IndInv, Booting, Undoing, Pending, Commanding, Remembered, AckedDurable, Keeps, AsAnswered, SuccessIsReal
  <2>5. Errors' /\ Files'
    BY <1>1, <1>4, <1>5, <2>1 DEF Errors, Rejecting, RolledBack, Files, Saving
  <2> QED BY <1>2, <2>2, <2>3, <2>4, <2>5 DEF IndInv
<1>6. CASE stage = "main" /\ req.op = "connect"
  <2>1. Respond("Ok") /\ acked' = Insert(acked, req.id, req.saved) /\ released' = released
    BY <1>6 DEF Restart
  <2>2. req.id \in DOMAIN graph /\ disk = routes /\ routes = Insert(before, req.id, req.saved)
    BY <1>1, <1>6 DEF IndInv, Pending
  <2>3. /\ DOMAIN acked' = DOMAIN acked \cup {req.id} /\ acked'[req.id] = req.saved
        /\ \A k \in DOMAIN acked : k # req.id => acked'[k] = acked[k]
        /\ req.id \in DOMAIN disk /\ disk[req.id] = req.saved
    BY <2>1, <2>2 DEF Insert
  <2>4. Remembered' /\ AckedDurable' /\ SuccessIsReal'
    BY <1>1, <1>4, <1>6, <2>1, <2>2, <2>3 DEF Remembered, AckedDurable, Keeps, AsAnswered, SuccessIsReal
  <2>5. RolledBack'
    BY <2>1 DEF Respond, RolledBack
  <2> QED BY <1>2, <1>3, <1>4, <2>1, <2>4, <2>5, RespondStep
<1>7. CASE stage = "main" /\ req.op # "connect"
  <2>1. Respond("Ok") /\ acked' = acked /\ released' = released \cup {req.id}
    BY <1>7 DEF Restart
  <2>2. disk = routes /\ routes = Remove(before, req.id)
    BY <1>1, <1>7 DEF IndInv, Pending
  <2>3. req.id \notin DOMAIN routes
    BY <2>2 DEF Remove
  <2>4. DOMAIN graph = DOMAIN routes
    BY <1>1, <1>7 DEF IndInv, Restoring, Connecting, Matches
  <2>5. Remembered' /\ AckedDurable' /\ SuccessIsReal'
    BY <1>1, <1>4, <1>7, <2>1, <2>2, <2>3, <2>4 DEF Remembered, AckedDurable, Keeps, AsAnswered, SuccessIsReal
  <2>6. RolledBack'
    BY <2>1 DEF Respond, RolledBack
  <2> QED BY <1>2, <1>3, <1>4, <2>1, <2>5, <2>6, RespondStep
<1>8. CASE stage \notin {"boot", "main"}
  <2>1. Respond("Error") /\ UNCHANGED <<acked, released>>
    BY <1>8 DEF Restart
  <2>2. Remembered' /\ AckedDurable' /\ SuccessIsReal'
    BY <1>1, <1>4, <2>1 DEF IndInv, Remembered, AckedDurable, Keeps, AsAnswered, SuccessIsReal, Respond
  <2>3. RolledBack'
    BY <1>1, <1>8, ErrorFacts DEF IndInv, Places
  <2> QED BY <1>2, <1>3, <1>4, <2>1, <2>2, <2>3, RespondStep
<1> QED
  BY <1>5, <1>6, <1>7, <1>8

\* The router does not start: the process ends, the request is undone, or the undoing has failed too.
LEMMA RestartFailStep ==
  ASSUME IndInv, RestartFail
  PROVE  IndInv'
<1> USE DEF disks, bounds, history
<1>1. pc = "restart" /\ UNCHANGED <<devices, late, disk, socket, acked, released, before, replaced, unsaved>>
  BY DEF RestartFail
<1>2. Outside'
  <2>1. faults' \in 0..MaxFaults /\ plugs' \in 0..MaxPlugs /\ crashes' \in 0..MaxCrashes
    BY CounterFacts DEF RestartFail, IndInv
  <2> QED BY <1>1, <2>1 DEF IndInv, Outside
<1>3. CASE stage = "boot"
  BY <1>1, <1>2, <1>3, ExitStep DEF RestartFail
<1>4. CASE stage # "boot"
  <2>1. router' = EmptyMap /\ live' = {} /\ UNCHANGED <<known, stale, graph, req, previous>>
    BY <1>4 DEF RestartFail
  <2>2. Graphs'
    BY <2>1, EmptyFacts DEF IndInv, Graphs, DevicesOf, Acyclic, Edge
  <2>3. known' \subseteq Nodes /\ stale' \subseteq known' /\ live' \subseteq DevicesOf(router')
    BY <2>1 DEF IndInv, Inside
  <2>4. CASE stage = "main"
    <3>1. pc' = "save" /\ stage' = "undo" /\ routes' = before /\ UNCHANGED <<cursor, reply>>
      BY <1>1, <2>4, UndoneFacts DEF RestartFail, Goto
    <3>2. Maps'
      BY <1>1, <2>1, <3>1, EmptyFacts DEF IndInv, Maps, SavedMap, RouteMap
    <3>3. Inside' /\ Places' /\ Cursor'
      BY <1>1, <2>3, <3>1 DEF IndInv, Inside, Places, Cursor, DevicesOf
    <3>4. Restoring' /\ Booting' /\ Undoing' /\ Pending' /\ Commanding'
      BY <1>1, <3>1 DEF Restoring, Booting, Undoing, Pending, Commanding
    <3>5. Remembered' /\ AckedDurable' /\ SuccessIsReal'
      BY <1>1, <2>4, <3>1, UndoneFacts DEF IndInv, Remembered, AckedDurable, Keeps, AsAnswered, SuccessIsReal
    <3>6. Same(before, disk, {req.id})
      BY <1>1, <2>4, UndoneFacts DEF IndInv, Pending
    <3>7. Errors' /\ Files'
      BY <1>1, <2>1, <3>1, <3>6 DEF Errors, Rejecting, RolledBack, Files, Saving, FileIsMemory, Same
    <3> QED BY <1>2, <2>2, <3>2, <3>3, <3>4, <3>5, <3>7 DEF IndInv
  <2>5. CASE stage # "main"
    <3>1. Respond("Error") /\ routes' = routes
      BY <1>4, <2>5 DEF RestartFail
    <3>2. Maps'
      BY <1>1, <2>1, <3>1, EmptyFacts DEF IndInv, Maps, SavedMap, RouteMap
    <3>3. Remembered' /\ AckedDurable' /\ SuccessIsReal'
      BY <1>1, <3>1 DEF IndInv, Remembered, AckedDurable, Keeps, AsAnswered, SuccessIsReal, Respond
    <3>4. RolledBack'
      BY <1>1, <1>4, <2>1, <2>5, <3>1, ErrorFacts DEF IndInv, Places
    <3>5. FileIsMemory'
      BY <1>1, <3>1 DEF IndInv, Files, FileIsMemory, Same
    <3> QED BY <1>2, <2>2, <2>3, <3>1, <3>2, <3>3, <3>4, <3>5, RespondStep
  <2> QED BY <2>4, <2>5
<1> QED
  BY <1>3, <1>4

\* The file holds what memory holds.
LEMMA SaveStep ==
  ASSUME IndInv, Save
  PROVE  IndInv'
<1> USE DEF disks, memory, bounds, history
<1>1. /\ pc = "save" /\ stage \in {"main", "undo"} /\ disk' = routes /\ stage' = stage
      /\ pc' = IF stage = "main" /\ req.op = "connect" THEN "restart" ELSE "refresh"
      /\ UNCHANGED <<devices, late, socket, memory, req, previous, cursor, reply, bounds,
                     acked, released, before, replaced>>
  BY DEF Save, Goto, IndInv, Places
<1>2. Outside' /\ Inside' /\ Graphs'
  BY <1>1 DEF IndInv, Outside, Inside, Graphs, DevicesOf, Acyclic, Edge
<1>3. Maps'
  BY <1>1 DEF IndInv, Maps, SavedMap, RouteMap
<1>4. Places' /\ Cursor'
  BY <1>1 DEF IndInv, Places, Cursor
<1>5. Restoring' /\ Booting' /\ Undoing' /\ Commanding'
  BY <1>1 DEF IndInv, Restoring, Connecting, Booting, Undoing, Commanding
<1>6. Pending'
  BY <1>1 DEF IndInv, Pending
<1>7. Remembered' /\ AckedDurable' /\ SuccessIsReal'
  BY <1>1 DEF IndInv, Remembered, AckedDurable, Keeps, AsAnswered, SuccessIsReal
<1>8. Errors' /\ Files'
  BY <1>1 DEF Errors, Rejecting, RolledBack, Files, Saving, FileIsMemory, Same
<1> QED
  BY <1>2, <1>3, <1>4, <1>5, <1>6, <1>7, <1>8 DEF IndInv

\* The file is as it was, and memory goes back to it.
LEMMA SaveFailStep ==
  ASSUME IndInv, SaveFail
  PROVE  IndInv'
<1> USE DEF disks, history
<1>1. /\ pc = "save" /\ stage \in {"main", "undo"} /\ InjectFault
      /\ UNCHANGED <<devices, late, disk, socket, known, stale, graph, router, live, req, previous,
                     acked, released, before, replaced>>
  BY DEF SaveFail, IndInv, Places
<1>2. Outside'
  BY <1>1, CounterFacts DEF IndInv, Outside
<1>3. Graphs'
  BY <1>1 DEF IndInv, Graphs, DevicesOf, Acyclic, Edge
<1>4. CASE stage = "undo"
  <2>1. Respond("Error") /\ routes' = routes /\ unsaved' = unsaved \cup {req.id}
    BY <1>4 DEF SaveFail
  <2>2. Maps'
    BY <1>1, <2>1 DEF IndInv, Maps, SavedMap, RouteMap
  <2>3. Remembered' /\ AckedDurable' /\ SuccessIsReal'
    BY <1>1, <2>1 DEF IndInv, Remembered, AckedDurable, Keeps, AsAnswered, SuccessIsReal, Respond
  <2>4. RolledBack'
    BY <1>1, <1>4, <2>1, ErrorFacts
  <2>5. Same(routes, disk, {req.id})
    BY <1>1, <1>4 DEF IndInv, Undoing, Files, Saving
  <2>6. Same(routes, disk, unsaved \cup {req.id})
    BY <2>5, SameFacts
  <2>7. FileIsMemory'
    BY <1>1, <2>1, <2>6 DEF FileIsMemory, Same
  <2>8. known' \subseteq Nodes /\ stale' \subseteq known' /\ live' \subseteq DevicesOf(router')
    BY <1>1 DEF IndInv, Inside
  <2> QED BY <1>2, <1>3, <2>1, <2>2, <2>3, <2>4, <2>7, <2>8, RespondStep
<1>5. CASE stage = "main"
  <2>1. routes' = before /\ unsaved' = unsaved
    BY <1>1, <1>5, UndoneFacts DEF SaveFail
  <2>2. Maps'
    BY <1>1, <2>1 DEF IndInv, Maps, SavedMap, RouteMap
  <2>3. Keeps(routes)' /\ AckedDurable' /\ FileIsMemory'
    <3>1. Keeps(before) /\ Keeps(disk) /\ Same(before, disk, unsaved)
      BY <1>1, <1>5, UndoneFacts DEF IndInv, AckedDurable, Files, Saving
    <3> QED BY <1>1, <2>1, <3>1 DEF Keeps, AsAnswered, AckedDurable, FileIsMemory, Same
  <2>4. CASE req.op = "connect"
    <3>1. pc' = "restore" /\ stage' = "reject" /\ UNCHANGED <<cursor, reply>>
      BY <1>5, <2>4 DEF SaveFail, Goto
    <3>2. Inside' /\ Places' /\ Cursor'
      BY <1>1, <3>1 DEF IndInv, Inside, Places, Cursor, DevicesOf
    <3>3. Restoring' /\ Booting' /\ Undoing' /\ Pending' /\ Commanding'
      BY <1>1, <3>1 DEF Restoring, Booting, Undoing, Pending, Commanding
    <3>4. Remembered' /\ SuccessIsReal'
      BY <2>3, <3>1 DEF Remembered, SuccessIsReal
    <3>5. Errors' /\ Files'
      BY <1>1, <2>1, <2>3, <2>4, <3>1 DEF Errors, Rejecting, RolledBack, Files, Saving
    <3> QED BY <1>2, <1>3, <2>2, <2>3, <3>2, <3>3, <3>4, <3>5 DEF IndInv
  <2>5. CASE req.op # "connect"
    <3>1. Respond("Error")
      BY <1>5, <2>5 DEF SaveFail
    <3>2. Remembered' /\ SuccessIsReal'
      BY <2>3, <3>1 DEF Remembered, SuccessIsReal, Respond
    <3>3. known' \subseteq Nodes /\ stale' \subseteq known' /\ live' \subseteq DevicesOf(router')
      BY <1>1 DEF IndInv, Inside
    <3>4. RolledBack'
      BY <1>1, <2>1 DEF RolledBack
    <3> QED BY <1>2, <1>3, <2>2, <2>3, <3>1, <3>2, <3>3, <3>4, RespondStep
  <2> QED BY <2>4, <2>5
<1> QED
  BY <1>1, <1>4, <1>5

-----------------------------------------------------------------------------
(* Requests *)

\* The driver does what it was told and Core Audio shows it.
LEMMA DeviceCommandStep ==
  ASSUME IndInv, DeviceCommand
  PROVE  IndInv'
<1> USE DEF disks, bounds, history
<1>1. /\ pc = "device" /\ stage = "device" /\ pc' = "refresh" /\ stage' = "device"
      /\ devices' = Commanded(req) /\ stale' = stale \cup ((known \cap devices) \ devices')
      /\ UNCHANGED <<late, disk, socket, known, graph, routes, router, live, req, previous, cursor, reply, bounds, history>>
  BY DEF DeviceCommand, Goto, IndInv, Places
<1>2. Outside' /\ Inside'
  <2>1. Commanded(req) \subseteq Nodes
    BY <1>1 DEF Commanded, IndInv, Commanding, Outside, Virtual
  <2> QED BY <1>1, <2>1 DEF IndInv, Outside, Inside, DevicesOf
<1>3. Maps' /\ Graphs'
  BY <1>1 DEF IndInv, Maps, SavedMap, RouteMap, Graphs, DevicesOf, Acyclic, Edge
<1>4. Places' /\ Cursor'
  BY <1>1 DEF IndInv, Places, Cursor
<1>5. Restoring' /\ Booting' /\ Undoing' /\ Pending' /\ Commanding'
  BY <1>1 DEF IndInv, Restoring, Booting, Undoing, Pending, Commanding
<1>6. Remembered' /\ AckedDurable' /\ SuccessIsReal'
  BY <1>1 DEF IndInv, Remembered, AckedDurable, Keeps, AsAnswered, SuccessIsReal
<1>7. Errors' /\ Files'
  BY <1>1 DEF IndInv, Errors, Rejecting, RolledBack, Files, Saving, FileIsMemory, Same
<1> QED
  BY <1>2, <1>3, <1>4, <1>5, <1>6, <1>7 DEF IndInv

\* It refuses, fails or is late: an error is answered and no route is touched.
LEMMA DeviceCommandFailStep ==
  ASSUME IndInv, DeviceCommandFail
  PROVE  IndInv'
<1> USE DEF disks, history
<1>1. /\ pc = "device" /\ Respond("Error") /\ stale' = stale \cup ((known \cap devices) \ devices')
      /\ UNCHANGED <<disk, socket, known, graph, routes, router, live, req, acked, released, before, replaced, unsaved>>
  BY DEF DeviceCommandFail
<1>2. req.device \in Virtual /\ devices \subseteq Nodes /\ late \subseteq Virtual
  BY <1>1 DEF IndInv, Places, Commanding, Outside
<1>3. devices' \subseteq Nodes /\ late' \subseteq Virtual
  BY <1>2 DEF DeviceCommandFail, Commanded, Virtual
<1>4. faults' \in 0..MaxFaults /\ plugs' \in 0..MaxPlugs /\ crashes' \in 0..MaxCrashes
  BY CounterFacts DEF DeviceCommandFail, IndInv
<1>5. Outside'
  BY <1>1, <1>3, <1>4 DEF IndInv, Outside
<1>6. RolledBack'
  BY <1>1 DEF IndInv, Places, Commanding, RolledBack
<1> QED
  BY <1>1, <1>5, <1>6, RefuseStep DEF IndInv, Inside

\* Requests that touch no route, and create and delete up to the driver command.
LEMMA SimpleRequestSteps ==
  ASSUME IndInv, Query \/ Shutdown \/ \E d \in Virtual : CreateDevice(d) \/ DeleteDevice(d)
  PROVE  IndInv'
<1> USE DEF disks, bounds
<1>1. /\ pc = "idle" /\ before' = routes
      /\ UNCHANGED <<devices, late, disk, socket, known, stale, graph, routes, bounds,
                     acked, released, replaced, unsaved>>
  BY DEF Query, Shutdown, CreateDevice, DeleteDevice, Receive, memory
<1>2. Outside' /\ FileIsMemory' /\ RolledBack'
  <2>1. Outside' /\ FileIsMemory'
    BY <1>1 DEF IndInv, Outside, Files, FileIsMemory, Same
  <2>2. RolledBack'
    BY <1>1 DEF RolledBack
  <2> QED BY <2>1, <2>2
<1>3. CASE Query
  <2>1. PICK r \in {"Ok", "Error"} : Respond(r)
    BY <1>3 DEF Query
  <2>2. req'.op = "query" /\ UNCHANGED <<router, live>>
    BY <1>3 DEF Query, Receive, memory
  <2>3. Maps' /\ Graphs'
    BY <1>1, <2>2 DEF IndInv, Maps, SavedMap, RouteMap, Graphs, DevicesOf, Acyclic, Edge
  <2>4. Remembered' /\ AckedDurable' /\ SuccessIsReal'
    BY <1>1, <2>2 DEF IndInv, Remembered, AckedDurable, Keeps, AsAnswered, SuccessIsReal
  <2> QED BY <1>1, <1>2, <2>1, <2>2, <2>3, <2>4, RespondStep DEF IndInv, Inside
<1>4. CASE Shutdown
  <2>1. Respond("Ok") /\ req'.op = "shutdown" /\ router' = EmptyMap /\ live' = {}
    BY <1>4 DEF Shutdown, Receive
  <2>2. Maps' /\ Graphs'
    BY <1>1, <2>1, EmptyFacts DEF IndInv, Maps, SavedMap, RouteMap, Graphs, DevicesOf, Acyclic, Edge
  <2>3. Remembered' /\ AckedDurable' /\ SuccessIsReal'
    BY <1>1, <2>1 DEF IndInv, Remembered, AckedDurable, Keeps, AsAnswered, SuccessIsReal
  <2> QED BY <1>1, <1>2, <2>1, <2>2, <2>3, RespondStep DEF IndInv, Inside
<1>5. ASSUME NEW d \in Virtual, CreateDevice(d) \/ DeleteDevice(d), Goto("device", "device"),
             UNCHANGED <<cursor, reply>>
      PROVE  IndInv'
  <2>1. /\ pc' = "device" /\ stage' = "device" /\ req'.op \in {"create", "delete"} /\ req'.device \in Virtual
        /\ UNCHANGED <<router, live, cursor, reply>>
    BY <1>5 DEF CreateDevice, DeleteDevice, Receive, Goto, memory
  <2>2. Inside' /\ Maps' /\ Graphs'
    <3>1. Inside' /\ Graphs'
      BY <1>1, <2>1 DEF IndInv, Inside, Graphs, DevicesOf, Acyclic, Edge
    <3>2. Maps'
      BY <1>1, <2>1 DEF IndInv, Maps, SavedMap, RouteMap
    <3> QED BY <3>1, <3>2
  <2>3. Places' /\ Cursor'
    BY <1>1, <2>1 DEF IndInv, Places, Cursor
  <2>4. Restoring' /\ Booting' /\ Undoing' /\ Pending' /\ Commanding'
    BY <2>1 DEF Restoring, Booting, Undoing, Pending, Commanding
  <2>5. Remembered' /\ AckedDurable' /\ SuccessIsReal'
    BY <1>1, <2>1 DEF IndInv, Remembered, AckedDurable, Keeps, AsAnswered, SuccessIsReal
  <2>6. Errors' /\ Files'
    BY <1>2, <2>1 DEF Errors, Rejecting, Files, Saving
  <2> QED BY <1>2, <2>2, <2>3, <2>4, <2>5, <2>6 DEF IndInv
<1>6. ASSUME NEW d \in Virtual, DeleteDevice(d), Respond("Error") PROVE IndInv'
  BY <1>1, <1>2, <1>6, RefuseStep DEF DeleteDevice, memory, IndInv, Inside
<1> QED
  BY <1>3, <1>4, <1>5, <1>6 DEF CreateDevice, DeleteDevice

\* Connect: the graph takes the route and it is inserted, over the one the id had or before the save.
LEMMA ConnectStep ==
  ASSUME IndInv, NEW id \in RouteIds, NEW saved \in Candidates, Connect(id, saved)
  PROVE  IndInv'
<1> USE DEF disks, bounds
<1>1. /\ pc = "idle" /\ before' = routes /\ req' = [op |-> "connect", id |-> id, saved |-> saved]
      /\ UNCHANGED <<devices, late, disk, socket, known, stale, router, live, previous, bounds, acked>>
  BY DEF Connect, Receive
<1>2. Outside'
  BY <1>1 DEF IndInv, Outside
<1>3. CASE ~addable(known, graph, id, saved)
  BY <1>1, <1>2, <1>3, RefuseStep DEF Connect, RolledBack, IndInv, Inside
<1>4. CASE addable(known, graph, id, saved)
  <2>1. /\ graph' = add(known, graph, id, saved) /\ routes' = Insert(routes, id, saved) /\ UNCHANGED <<cursor, reply>>
        /\ IF id \in DOMAIN routes
           THEN /\ pc' = "restore" /\ stage' = "reject" /\ released' = released
                /\ replaced' = replaced \cup {<<id, saved>>} /\ unsaved' = unsaved \cup {id}
           ELSE /\ pc' = "save" /\ stage' = "main" /\ released' = released \ {id}
                /\ UNCHANGED <<replaced, unsaved>>
    BY <1>4 DEF Connect, Goto
  <2>2. /\ saved \in SavedRoutes /\ SavedMap(routes) /\ RouteMap(graph) /\ Acyclic(graph)
        /\ known \in SUBSET Nodes /\ DevicesOf(graph) \subseteq known
    BY DaemonAssumption DEF IndInv, Maps, Graphs, Inside
  <2> DEFINE A == add(known, graph, id, saved)
  <2>3. /\ RouteMap(A) /\ Acyclic(A) /\ DevicesOf(A) \subseteq known
        /\ DOMAIN A = DOMAIN graph \cup {id} /\ id \notin DOMAIN graph
        /\ A[id].source = saved.source /\ A[id].sink = saved.sink
        /\ \A r \in DOMAIN graph : A[r] = graph[r]
    BY <1>4, <2>2, AddFacts
  <2>4. graph' = A
    BY <2>1
  <2> HIDE DEF A
  <2>5. RouteMap(graph') /\ Acyclic(graph') /\ DevicesOf(graph') \subseteq known' /\ id \in DOMAIN graph'
    BY <1>1, <2>3, <2>4
  <2>6. SavedMap(routes') /\ DOMAIN routes' = DOMAIN routes \cup {id}
    <3>1. SavedMap(Insert(routes, id, saved))
      BY <2>2, SavedMapFacts
    <3> QED BY <2>1, <3>1 DEF Insert
  <2>7. Maps' /\ Graphs' /\ Inside'
    <3>1. Maps'
      BY <1>1, <2>5, <2>6 DEF IndInv, Maps, SavedMap, RouteMap
    <3>2. Graphs'
      BY <1>1, <2>5 DEF IndInv, Graphs, DevicesOf, Acyclic, Edge
    <3>3. Inside'
      BY <1>1, <2>1 DEF IndInv, Inside, DevicesOf
    <3> QED BY <3>1, <3>2, <3>3
  <2>8. Places' /\ Cursor'
    BY <1>1, <2>1 DEF IndInv, Places, Cursor
  <2>9. Restoring' /\ Booting' /\ Undoing' /\ Commanding' /\ SuccessIsReal'
    BY <2>1 DEF Restoring, Booting, Undoing, Commanding, SuccessIsReal
  <2>10. Keeps(routes) /\ AckedDurable
    BY <1>1 DEF IndInv, Remembered
  <2>11. Remembered' /\ AckedDurable'
    <3>1. routes'[id] = saved /\ \A k \in DOMAIN routes : k # id => routes'[k] = routes[k]
      BY <2>1 DEF Insert
    <3>2. replaced \subseteq replaced' /\ released' \subseteq released /\ (id \in DOMAIN routes \/ id \notin released')
          /\ (id \in DOMAIN routes => <<id, saved>> \in replaced')
      BY <2>1
    <3>3. AckedDurable'
      BY <1>1, <2>10, <3>2 DEF AckedDurable, Keeps, AsAnswered
    <3>4. Keeps(routes)'
      BY <1>1, <2>6, <2>10, <3>1, <3>2 DEF Keeps, AsAnswered
    <3> QED BY <3>3, <3>4 DEF Remembered
  <2>12. Pending'
    BY <1>1, <2>1, <2>2, <2>5, <2>10 DEF Pending, Keeps, AsAnswered
  <2>13. Errors' /\ Files'
    <3>1. Same(routes, disk, unsaved)
      BY <1>1 DEF IndInv, Files, FileIsMemory
    <3>2. Same(Insert(routes, id, saved), disk, unsaved \cup {id})
      BY <3>1, SameFacts
    <3>3. Files'
      BY <1>1, <2>1, <3>1, <3>2 DEF Files, Saving, FileIsMemory, Same
    <3>4. Errors'
      BY <1>1, <2>1 DEF Errors, Rejecting, RolledBack, Requested
    <3> QED BY <3>3, <3>4
  <2> QED BY <1>2, <2>7, <2>8, <2>9, <2>11, <2>12, <2>13 DEF IndInv
<1> QED
  BY <1>3, <1>4

\* Disconnect: the route is taken out of memory before the save.
LEMMA DisconnectStep ==
  ASSUME IndInv, NEW id \in RouteIds, Disconnect(id)
  PROVE  IndInv'
<1> USE DEF disks, bounds
<1>1. /\ pc = "idle" /\ before' = routes /\ req' = [op |-> "disconnect", id |-> id]
      /\ UNCHANGED <<devices, late, disk, socket, known, stale, graph, router, live, bounds, released, unsaved>>
  BY DEF Disconnect, Receive
<1>2. Outside'
  BY <1>1 DEF IndInv, Outside
<1>3. CASE id \notin DOMAIN routes
  BY <1>1, <1>2, <1>3, RefuseStep DEF Disconnect, RolledBack, IndInv, Inside
<1>4. CASE id \in DOMAIN routes
  <2>1. /\ pc' = "save" /\ stage' = "main" /\ previous' = routes[id] /\ routes' = Remove(routes, id)
        /\ acked' = Remove(acked, id) /\ replaced' = {u \in replaced : u[1] # id} /\ UNCHANGED <<cursor, reply>>
    BY <1>4 DEF Disconnect, Goto
  <2>2. SavedMap(routes') /\ DOMAIN routes' = DOMAIN routes \ {id} /\ DOMAIN acked' = DOMAIN acked \ {id}
    <3>1. SavedMap(Remove(routes, id))
      BY SavedMapFacts DEF IndInv, Maps
    <3> QED BY <2>1, <3>1 DEF Remove
  <2>3. Maps' /\ Graphs' /\ Inside'
    <3>1. Maps'
      BY <1>1, <2>2 DEF IndInv, Maps, SavedMap, RouteMap
    <3>2. Graphs'
      BY <1>1 DEF IndInv, Graphs, DevicesOf, Acyclic, Edge
    <3>3. Inside'
      BY <1>1, <2>1 DEF IndInv, Inside, DevicesOf
    <3> QED BY <3>1, <3>2, <3>3
  <2>4. Places' /\ Cursor'
    BY <1>1, <2>1 DEF IndInv, Places, Cursor
  <2>5. Restoring' /\ Booting' /\ Undoing' /\ Commanding' /\ SuccessIsReal'
    BY <2>1 DEF Restoring, Booting, Undoing, Commanding, SuccessIsReal
  <2>6. Keeps(routes) /\ AckedDurable
    BY <1>1 DEF IndInv, Remembered
  <2>7. Remembered' /\ AckedDurable'
    <3>1. /\ \A k \in DOMAIN acked' : acked'[k] = acked[k] /\ k # id
          /\ \A k \in DOMAIN routes' : routes'[k] = routes[k]
      BY <2>1 DEF Remove
    <3>2. \A k, w : k # id /\ <<k, w>> \in replaced => <<k, w>> \in replaced'
      BY <2>1
    <3>3. AckedDurable'
      BY <1>1, <2>2, <2>6, <3>1, <3>2 DEF AckedDurable, Keeps, AsAnswered
    <3>4. Keeps(routes)'
      BY <1>1, <2>2, <2>6, <3>1, <3>2 DEF Keeps, AsAnswered
    <3> QED BY <3>3, <3>4 DEF Remembered
  <2>8. Pending'
    BY <1>1, <1>4, <2>1, <2>2, <2>6 DEF Pending, Keeps
  <2>9. Errors' /\ Files'
    BY <1>1, <2>1 DEF IndInv, Errors, Rejecting, RolledBack, Files, Saving, FileIsMemory, Same
  <2> QED BY <1>2, <2>3, <2>4, <2>5, <2>7, <2>8, <2>9 DEF IndInv
<1> QED
  BY <1>3, <1>4

-----------------------------------------------------------------------------
(* The theorems *)

\* Every step of daemon, client and environment keeps the inductive invariant.
LEMMA NextIndInv == IndInv /\ [Next]_vars => IndInv'
<1> SUFFICES ASSUME IndInv, [Next]_vars PROVE IndInv'
  OBVIOUS
<1>1. CASE Work
  BY <1>1, BindSteps, RefreshStep, FailSteps, RestoreStep, RestoreDoneStep, RestartStep, RestartFailStep, SaveStep,
     SaveFailStep, DeviceCommandStep, DeviceCommandFailStep, AnswerSteps DEF Work
<1>2. CASE Client
  BY <1>2, SimpleRequestSteps, ConnectStep, DisconnectStep DEF Client
<1>3. CASE Environment
  BY <1>3, StartStep, BindSteps, EnvironmentSteps DEF Environment
<1>4. CASE UNCHANGED vars
  BY <1>4, EnvironmentSteps
<1> QED
  BY <1>1, <1>2, <1>3, <1>4 DEF Next

\* The inductive invariant of the daemon: every part of it holds in every state.
THEOREM Invariance == Spec => []IndInv
  BY InitIndInv, NextIndInv, PTL DEF Spec

\* Type correctness; the graph and the router are over listed devices, the cursor stays within the ids.
THEOREM TypeCorrect == Spec => []TypeOK
<1>1. IndInv => TypeOK
  <2> SUFFICES ASSUME IndInv PROVE TypeOK
    OBVIOUS
  <2>1. /\ \A r \in DOMAIN routes : routes[r] \in SavedRoutes
        /\ \A r \in DOMAIN disk : disk[r] \in SavedRoutes
        /\ DOMAIN routes \subseteq RouteIds /\ DOMAIN disk \subseteq RouteIds
        /\ DOMAIN graph \subseteq RouteIds /\ DOMAIN router \subseteq RouteIds
    BY DEF IndInv, Maps, SavedMap, RouteMap
  <2>2. /\ pc \in {"down", "refresh", "restore", "restart", "bind", "idle", "save", "device", "respond"}
        /\ stage \in {"boot", "main", "undo", "reject", "device"}
    BY DEF IndInv, Places
  <2> QED BY <2>1, <2>2 DEF IndInv, Outside, Inside, Graphs, Cursor, TypeOK
<1> QED
  BY <1>1, Invariance, PTL

\* The router never runs a closed signal path, whatever failed, was unplugged or was killed before.
THEOREM NeverFeedsBack == Spec => []RouterNoFeedback
<1>1. IndInv => RouterNoFeedback
  BY AcyclicHasNoFeedback DEF IndInv, Maps, Graphs, RouterNoFeedback
<1> QED
  BY <1>1, Invariance, PTL

\* A route whose Connect handle has answered Ok stays in the file as it was asked for, through every
\* failure and kill, until its Disconnect is asked for or a Connect that handle refuses with
\* RouteExists has replaced it; a Disconnect answered Ok never comes back.
THEOREM AnswersAreDurable == Spec => []AckedDurable
<1>1. IndInv => AckedDurable
  BY DEF IndInv
<1> QED
  BY <1>1, Invariance, PTL

\* An Ok to Connect or Disconnect is true of the router and of the file when it is written.
THEOREM AnswersAreTrue == Spec => []SuccessIsReal
<1>1. IndInv => SuccessIsReal
  BY DEF IndInv
<1> QED
  BY <1>1, Invariance, PTL

\* A Connect or Disconnect that handle answers with an error has left self.routes as it was,
\* whichever calls failed, but for RouteExists over a replaced route and for a Disconnect that had saved.
THEOREM FailureIsUndone == Spec => []RolledBack
<1>1. IndInv => RolledBack
  BY DEF IndInv, Errors
<1> QED
  BY <1>1, Invariance, PTL

\* At every answer and between requests the file holds what memory holds, but at ids of replaced
\* routes and of rollbacks that save_routes did not write, and until the next save.
THEOREM FileAgreesWithMemory == Spec => []FileIsMemory
<1>1. IndInv => FileIsMemory
  BY DEF IndInv, Files
<1> QED
  BY <1>1, Invariance, PTL

\* The control socket appears only when the router runs exactly the saved routes.
THEOREM StartsAllOrNothing == Spec => []BootRestores
<1>1. IndInv => BootRestores
  BY DEF IndInv, Places, Restoring, Booting, Matches, BootRestores
<1> QED
  BY <1>1, Invariance, PTL
=============================================================================

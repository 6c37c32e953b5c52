------------------------------- MODULE Daemon -------------------------------
(***************************************************************************)
(* The vcabled daemon (crates/vcabled/src/main.rs): its routing graph, the *)
(* routes it saves, the file they are saved in, the running AudioRouter,   *)
(* the control socket, and the requests of vcablectl.                      *)
(*                                                                         *)
(* The daemon serves one request at a time.  Each call a handler makes     *)
(* that can fail or block (save_routes, list_devices, AudioRouter::start,  *)
(* the driver commands, the write of the response) is a step of its own,   *)
(* between which devices come and go and the process may be killed.  The   *)
(* rest of a handler is part of the step before it.                        *)
(***************************************************************************)
EXTENDS GraphOps

CONSTANTS Physical,    \* the devices of Nodes that the driver does not own
          ChannelsOf,  \* channels of each device's input and of its output
          MaxRoute,    \* route ids are 1..MaxRoute, in the order of the BTreeMap
          Candidates,  \* the routes a client may ask for
          MaxFaults,   \* bound: failures of calls into the system
          MaxPlugs,    \* bound: devices that come or go on their own
          MaxCrashes   \* bound: kills of the process

RouteIds == 1..MaxRoute
EndpointIds == Nodes \X {"Source", "Sink"}
Virtual == Nodes \ Physical

\* A SavedRoute: matrix is the number of coefficients given, 0 for none.
SavedRoutes == [source : EndpointIds, sink : EndpointIds, matrix : Nat, finite : BOOLEAN]

ASSUME DaemonAssumption ==
  /\ Physical \subseteq Nodes
  /\ ChannelsOf \in [Nodes -> Nat \ {0}]
  /\ MaxRoute \in Nat /\ MaxFaults \in Nat /\ MaxPlugs \in Nat /\ MaxCrashes \in Nat
  /\ Candidates \subseteq SavedRoutes

VARIABLES devices,    \* the devices Core Audio lists at this moment
          late,       \* those whose deletion the HAL host still has to decide on
          known,      \* those of the last refresh: graph endpoints and endpoint_devices
          stale,      \* those of them whose object id Core Audio has since dropped
          graph,      \* the routes of self.graph
          routes,     \* self.routes
          disk,       \* the routes in the state file
          router,     \* the routes the AudioRouter runs; empty without a router
          live,       \* the devices whose I/O the router's IOProcs keep running
          socket,     \* the socket file exists
          pc,         \* the call the daemon is about to make
          stage,      \* on behalf of what
          req,        \* the request being served
          previous,   \* Disconnect's removed route
          cursor,     \* restore_routes' position
          reply,      \* the response to be written
          faults, plugs, crashes,
          acked,      \* history: routes whose Connect was answered Ok, until a Disconnect
          released,   \* history: ids whose Disconnect was answered Ok, until a Connect
          before,     \* history: self.routes when the request arrived
          replaced,   \* history: <<id, route>> put in place of a saved route by a Connect that was refused
          unsaved     \* history: ids at which a failure has left memory ahead of the file

disks == <<disk, socket>>
memory == <<known, stale, graph, routes, router, live>>
control == <<pc, stage, req, previous, cursor, reply>>
bounds == <<faults, plugs, crashes>>
history == <<acked, released, before, replaced, unsaved>>
vars == <<devices, late, disks, memory, control, bounds, history>>

NoRequest == [op |-> "none"]
EmptyMap == [k \in {} |-> 0]

Init ==
  /\ devices \in {Nodes, Virtual} /\ late = {}
  /\ known = {} /\ stale = {} /\ graph = EmptyMap /\ routes = EmptyMap
  /\ router = EmptyMap /\ live = {}
  /\ disk = EmptyMap
  /\ socket = FALSE
  /\ pc = "down" /\ stage = "boot" /\ req = NoRequest
  /\ previous = EmptyMap /\ cursor = 1 /\ reply = "Ok"
  /\ faults = 0 /\ plugs = 0 /\ crashes = 0
  /\ acked = EmptyMap /\ released = {} /\ before = EmptyMap
  /\ replaced = {} /\ unsaved = {}

-----------------------------------------------------------------------------
(* Helpers *)

\* The endpoints refresh_endpoints adds for the devices D.
EndpointsOf(D) ==
  [e \in D \X {"Source", "Sink"} |->
     [node |-> e[1], direction |-> e[2], channels |-> ChannelsOf[e[1]],
      valid |-> TRUE, is_loopback |-> e[1] \notin Physical]]

\* The devices the routes of G use.
DevicesOf(G) == {G[r].source[1] : r \in DOMAIN G} \cup {G[r].sink[1] : r \in DOMAIN G}

\* build_route finds both endpoints and a matrix of their channel counts.
build_route_ok(E, saved) ==
  /\ saved.source \in DOMAIN E
  /\ saved.sink \in DOMAIN E
  /\ LET inputs == E[saved.source].channels
         outputs == E[saved.sink].channels
     IN  IF saved.matrix = 0 THEN inputs = outputs ELSE saved.matrix = outputs * inputs

build_route(E, saved) ==
  [source |-> saved.source, sink |-> saved.sink, inputs |-> E[saved.source].channels,
   outputs |-> E[saved.sink].channels, finite |-> saved.finite]

\* Fault: the graph is not asked.
addable_unchecked(D, G, id, saved) ==
  build_route_ok(EndpointsOf(D), saved) /\ id \notin DOMAIN G

\* self.graph.add_route(self.build_route(saved)?)? succeeds.
addable(D, G, id, saved) ==
  LET E == EndpointsOf(D)
  IN  /\ build_route_ok(E, saved)
      /\ add_route_result(E, G, id, build_route(E, saved)) = "Ok"

add(D, G, id, saved) == Insert(G, id, build_route(EndpointsOf(D), saved))

Goto(p, s) == pc' = p /\ stage' = s

Respond(r) == Goto("respond", "main") /\ reply' = r /\ cursor' = 1

\* The process ends: its memory, and with it the router, is gone.
Exit ==
  /\ Goto("down", "boot")
  /\ known' = {} /\ stale' = {} /\ graph' = EmptyMap /\ routes' = EmptyMap
  /\ router' = EmptyMap /\ live' = {}
  /\ req' = NoRequest /\ previous' = EmptyMap /\ cursor' = 1 /\ reply' = "Ok"

\* A handler's `?`: during startup the process ends, else an error is answered.
Fail ==
  IF stage = "boot" THEN Exit
  ELSE Respond("Error") /\ UNCHANGED <<memory, req, previous>>

InjectFault == faults < MaxFaults /\ faults' = faults + 1 /\ UNCHANGED <<plugs, crashes>>

-----------------------------------------------------------------------------
(* Startup and exit *)

\* DaemonState::load: a file is what a save_routes wrote in full, one route per id.
load == disk

\* run, up to refresh_endpoints; with a socket file present it ends at once.
Start ==
  /\ pc = "down" /\ ~socket
  /\ routes' = load
  /\ Goto("refresh", "boot")
  /\ unsaved' = {}
  /\ UNCHANGED <<devices, late, disks, known, stale, graph, router, live, req, previous, cursor, reply,
                 bounds, acked, released, before, replaced>>

\* bind and set_permissions succeed; the accept loop starts.
Bind ==
  /\ pc = "bind"
  /\ socket' = TRUE
  /\ Goto("idle", "main")
  /\ UNCHANGED <<devices, late, disk, memory, req, previous, cursor, reply, bounds, history>>

\* One of them fails; the guard that removes the file does not exist yet.
BindFail ==
  /\ pc = "bind"
  /\ InjectFault
  /\ socket' \in BOOLEAN
  /\ Exit
  /\ UNCHANGED <<devices, late, disk, history>>

\* The process is killed: the socket file stays.
Crash ==
  /\ pc # "down"
  /\ crashes < MaxCrashes /\ crashes' = crashes + 1
  /\ Exit
  /\ UNCHANGED <<devices, late, disks, faults, plugs, history>>

\* The user removes the stale socket file, as the error message tells them.
RemoveSocket ==
  /\ pc = "down" /\ socket
  /\ socket' = FALSE
  /\ UNCHANGED <<devices, late, disk, memory, control, bounds, history>>

-----------------------------------------------------------------------------
(* The calls that handlers are made of *)

\* refresh_endpoints
Refresh ==
  /\ pc = "refresh"
  /\ known' = devices /\ stale' = {} /\ graph' = EmptyMap
  /\ Goto("restore", stage) /\ cursor' = 1
  /\ UNCHANGED <<devices, late, disks, routes, router, live, req, previous, reply, bounds, history>>

RefreshFail ==
  /\ pc = "refresh"
  /\ InjectFault
  /\ Fail
  /\ UNCHANGED <<devices, late, disks, history>>

\* Fault: a route that cannot be restored is passed over.
RestoreSkipping ==
  /\ pc = "restore" /\ cursor \in RouteIds
  /\ graph' = IF cursor \in DOMAIN routes /\ addable(known, graph, cursor, routes[cursor])
              THEN add(known, graph, cursor, routes[cursor]) ELSE graph
  /\ cursor' = cursor + 1
  /\ UNCHANGED <<devices, late, disks, known, stale, routes, router, live, pc, stage, req, previous, reply,
                 bounds, history>>

\* restore_routes, one id at a time, in the order of the map.
Restore ==
  /\ pc = "restore" /\ cursor \in RouteIds
  /\ cursor \in DOMAIN routes => addable(known, graph, cursor, routes[cursor])
  /\ graph' = IF cursor \in DOMAIN routes THEN add(known, graph, cursor, routes[cursor]) ELSE graph
  /\ cursor' = cursor + 1
  /\ UNCHANGED <<devices, late, disks, known, stale, routes, router, live, pc, stage, req, previous, reply,
                 bounds, history>>

RestoreFail ==
  /\ pc = "restore" /\ cursor \in DOMAIN routes
  /\ ~addable(known, graph, cursor, routes[cursor])
  /\ Fail
  /\ UNCHANGED <<devices, late, disks, bounds, history>>

RestoreDone ==
  /\ pc = "restore" /\ cursor \notin RouteIds
  /\ CASE stage = "device" -> Respond("Ok")
       [] stage = "reject" -> Respond("Error")
       [] OTHER -> Goto("restart", stage) /\ cursor' = 1 /\ UNCHANGED reply
  /\ UNCHANGED <<devices, late, disks, memory, req, previous, bounds, history>>

\* restart_router: the old router is dropped, then a new one is started.
Restart ==
  /\ pc = "restart"
  /\ DevicesOf(graph) \cap stale = {}
  /\ router' = graph /\ live' = DevicesOf(graph)
  /\ CASE stage = "boot" -> Goto("bind", stage) /\ UNCHANGED <<cursor, reply, acked, released>>
       [] stage = "main" -> /\ Respond("Ok")
                            /\ acked' = IF req.op = "connect" THEN Insert(acked, req.id, req.saved) ELSE acked
                            /\ released' = IF req.op = "connect" THEN released ELSE released \cup {req.id}
       [] OTHER -> Respond("Error") /\ UNCHANGED <<acked, released>>
  /\ UNCHANGED <<devices, late, disks, known, stale, graph, routes, req, previous, bounds, before, replaced, unsaved>>

\* Fault: a failed Connect keeps its route.
UndoneKeeping ==
  IF req.op = "connect" THEN routes ELSE Insert(routes, req.id, previous)

\* The routes a failed Connect or Disconnect goes back to.
Undone ==
  IF req.op = "connect" THEN Remove(routes, req.id) ELSE Insert(routes, req.id, previous)

\* AudioRouter::start fails: a device of the graph has gone, or the system refuses.
RestartFail ==
  /\ pc = "restart"
  /\ graph # EmptyMap
  /\ \/ DevicesOf(graph) \cap stale # {} /\ UNCHANGED bounds
     \/ InjectFault
  /\ CASE stage = "boot" -> Exit
       [] stage = "main" -> /\ Goto("save", "undo")
                            /\ routes' = Undone /\ router' = EmptyMap /\ live' = {}
                            /\ UNCHANGED <<known, stale, graph, req, previous, cursor, reply>>
       [] OTHER -> /\ Respond("Error")
                   /\ router' = EmptyMap /\ live' = {}
                   /\ UNCHANGED <<known, stale, graph, routes, req, previous>>
  /\ UNCHANGED <<devices, late, disks, history>>

\* Fault: a Connect is answered from memory, the file is left for the next save.
SaveLater ==
  /\ pc = "save"
  /\ disk' = IF stage = "main" /\ req.op = "connect" THEN disk ELSE routes
  /\ IF stage = "main" /\ req.op = "connect" THEN Goto("restart", stage) ELSE Goto("refresh", stage)
  /\ unsaved' = {}
  /\ UNCHANGED <<devices, late, socket, memory, req, previous, cursor, reply, bounds,
                 acked, released, before, replaced>>

\* Fault: a Disconnect goes on with the graph that still holds its route.
SaveThenRestart ==
  /\ pc = "save"
  /\ disk' = routes
  /\ IF stage = "main" THEN Goto("restart", stage) ELSE Goto("refresh", stage)
  /\ unsaved' = {}
  /\ UNCHANGED <<devices, late, socket, memory, req, previous, cursor, reply, bounds,
                 acked, released, before, replaced>>

\* Fault: the rollback is not saved.
SaveUnlessUndoing ==
  /\ pc = "save"
  /\ disk' = IF stage = "undo" THEN disk ELSE routes
  /\ IF stage = "main" /\ req.op = "connect" THEN Goto("restart", stage) ELSE Goto("refresh", stage)
  /\ unsaved' = {}
  /\ UNCHANGED <<devices, late, socket, memory, req, previous, cursor, reply, bounds,
                 acked, released, before, replaced>>

\* save_routes: write, sync, rename.
Save ==
  /\ pc = "save"
  /\ disk' = routes
  /\ IF stage = "main" /\ req.op = "connect" THEN Goto("restart", stage) ELSE Goto("refresh", stage)
  /\ unsaved' = {}
  /\ UNCHANGED <<devices, late, socket, memory, req, previous, cursor, reply, bounds,
                 acked, released, before, replaced>>

\* save_routes fails: the request is taken back; in the rollback itself the
\* handler returns, and the file keeps what the request saved.
SaveFail ==
  /\ pc = "save"
  /\ InjectFault
  /\ CASE stage = "undo" -> Respond("Error") /\ UNCHANGED routes /\ unsaved' = unsaved \cup {req.id}
       [] stage = "main" /\ req.op = "connect" ->
            routes' = Undone /\ Goto("restore", "reject") /\ UNCHANGED <<cursor, reply, unsaved>>
       [] OTHER -> routes' = Undone /\ Respond("Error") /\ UNCHANGED unsaved
  /\ UNCHANGED <<devices, late, disks, known, stale, graph, router, live, req, previous,
                 acked, released, before, replaced>>
-----------------------------------------------------------------------------
(* The requests, up to the first call of their handlers that can fail *)

Receive(r) == pc = "idle" /\ req' = r /\ before' = routes

\* Ping, Status, and a device request whose id does not validate.
Query ==
  /\ Receive([op |-> "query"])
  /\ \E r \in {"Ok", "Error"} : Respond(r)
  /\ UNCHANGED <<devices, late, disks, memory, previous, bounds, acked, released, replaced, unsaved>>

Shutdown ==
  /\ Receive([op |-> "shutdown"])
  /\ router' = EmptyMap /\ live' = {}
  /\ Respond("Ok")
  /\ UNCHANGED <<devices, late, disks, known, stale, graph, routes, previous, bounds, acked, released, replaced, unsaved>>

CreateDevice(d) ==
  /\ \E same \in BOOLEAN : Receive([op |-> "create", device |-> d, same |-> same])
  /\ Goto("device", "device")
  /\ UNCHANGED <<devices, late, disks, memory, previous, cursor, reply, bounds,
                 acked, released, replaced, unsaved>>

\* is_referenced looks the routes' endpoints up among the devices last listed.
DeleteDevice(d) ==
  /\ Receive([op |-> "delete", device |-> d])
  /\ IF d \in known /\ d \in DevicesOf(routes)
     THEN Respond("Error")
     ELSE Goto("device", "device") /\ UNCHANGED <<cursor, reply>>
  /\ UNCHANGED <<devices, late, disks, memory, previous, bounds, acked, released, replaced, unsaved>>

\* A route the graph takes is inserted; when the id had a saved route already
\* the insertion stands, restore_routes runs and the client gets an error.
Connect(id, saved) ==
  /\ Receive([op |-> "connect", id |-> id, saved |-> saved])
  /\ IF addable(known, graph, id, saved)
     THEN /\ graph' = add(known, graph, id, saved)
          /\ routes' = Insert(routes, id, saved)
          /\ IF id \in DOMAIN routes
             THEN /\ Goto("restore", "reject") /\ UNCHANGED released
                  /\ replaced' = replaced \cup {<<id, saved>>} /\ unsaved' = unsaved \cup {id}
             ELSE /\ Goto("save", "main") /\ released' = released \ {id}
                  /\ UNCHANGED <<replaced, unsaved>>
          /\ UNCHANGED <<cursor, reply>>
     ELSE Respond("Error") /\ UNCHANGED <<graph, routes, released, replaced, unsaved>>
  /\ UNCHANGED <<devices, late, disks, known, stale, router, live, previous, bounds, acked>>

Disconnect(id) ==
  /\ Receive([op |-> "disconnect", id |-> id])
  /\ IF id \in DOMAIN routes
     THEN /\ previous' = routes[id]
          /\ routes' = Remove(routes, id)
          /\ acked' = Remove(acked, id)
          /\ replaced' = {u \in replaced : u[1] # id}
          /\ Goto("save", "main") /\ UNCHANGED <<cursor, reply>>
     ELSE Respond("Error") /\ UNCHANGED <<previous, routes, acked, replaced>>
  /\ UNCHANGED <<devices, late, disks, known, stale, graph, router, live, bounds, released, unsaved>>

-----------------------------------------------------------------------------
(* The driver command and the response *)

\* The driver's answer: it creates a device, or finds one of the same description;
\* it deletes what is there, has no I/O running and is not being deleted.
accepts(r) ==
  IF r.op = "create" THEN r.device \notin devices \/ r.same
  ELSE r.device \in devices /\ r.device \notin live \cup late

Commanded(r) == IF r.op = "create" THEN devices \cup {r.device} ELSE devices \ {r.device}

\* create_virtual_device, delete_virtual_device: the command, then the wait
\* until Core Audio shows its effect.
DeviceCommand ==
  /\ pc = "device" /\ accepts(req)
  /\ devices' = Commanded(req)
  /\ stale' = stale \cup ((known \cap devices) \ devices')
  /\ Goto("refresh", stage)
  /\ UNCHANGED <<late, disks, known, graph, routes, router, live, req, previous, cursor, reply, bounds, history>>

\* The driver refuses, the command fails, or the wait times out: its effect has
\* come too late for the wait, or is still to come.
DeviceCommandFail ==
  /\ pc = "device"
  /\ \/ ~accepts(req) /\ UNCHANGED <<devices, late, bounds>>
     \/ accepts(req) /\ InjectFault /\ devices' \in {devices, Commanded(req)} /\ UNCHANGED late
     \/ /\ accepts(req) /\ InjectFault /\ req.op = "delete"
        /\ late' = late \cup {req.device} /\ UNCHANGED devices
  /\ stale' = stale \cup ((known \cap devices) \ devices')
  /\ Respond("Error")
  /\ UNCHANGED <<disks, known, graph, routes, router, live, req, previous, history>>

\* The host decides at last: it performs the deletion, which the driver does
\* unless I/O runs on the device, or aborts it.
LateDelete(d) ==
  /\ d \in late /\ late' = late \ {d}
  /\ devices' = devices \/ (d \notin live /\ devices' = devices \ {d})
  /\ stale' = stale \cup ((known \cap devices) \ devices')
  /\ UNCHANGED <<disks, known, graph, routes, router, live, control, bounds, history>>

\* The response is written; after a shutdown the process ends, and its guard
\* removes the socket.
Answer ==
  /\ pc = "respond"
  /\ IF req.op = "shutdown"
     THEN Exit /\ socket' = FALSE
     ELSE /\ Goto("idle", "main") /\ req' = NoRequest /\ previous' = EmptyMap /\ reply' = "Ok"
          /\ UNCHANGED <<memory, cursor, socket>>
  /\ UNCHANGED <<devices, late, disk, bounds, history>>

\* The client has gone: write_message fails, serve_connection returns the error
\* and the accept loop goes on.
AnswerLost ==
  /\ pc = "respond"
  /\ InjectFault
  /\ Goto("idle", "main") /\ req' = NoRequest /\ previous' = EmptyMap /\ reply' = "Ok"
  /\ UNCHANGED <<devices, late, disks, memory, cursor, history>>

-----------------------------------------------------------------------------
(* Devices that the driver does not own come and go on their own *)

CountPlug == plugs < MaxPlugs /\ plugs' = plugs + 1 /\ UNCHANGED <<faults, crashes>>

Plug(d) ==
  /\ CountPlug /\ d \notin devices
  /\ devices' = devices \cup {d}
  /\ UNCHANGED <<late, disks, memory, control, history>>

Unplug(d) ==
  /\ CountPlug /\ d \in devices
  /\ devices' = devices \ {d}
  /\ stale' = stale \cup ({d} \cap known)
  /\ live' = live \ {d}
  /\ UNCHANGED <<late, disks, known, graph, routes, router, control, history>>

-----------------------------------------------------------------------------
\* What the daemon does by itself once it is started.
Work ==
  \/ Bind \/ BindFail
  \/ Refresh \/ RefreshFail
  \/ Restore \/ RestoreFail \/ RestoreDone
  \/ Restart \/ RestartFail
  \/ Save \/ SaveFail
  \/ DeviceCommand \/ DeviceCommandFail
  \/ Answer \/ AnswerLost

Client ==
  \/ Query \/ Shutdown
  \/ \E d \in Virtual : CreateDevice(d) \/ DeleteDevice(d)
  \/ \E id \in RouteIds, saved \in Candidates : Connect(id, saved)
  \/ \E id \in RouteIds : Disconnect(id)

Environment ==
  \/ Start \/ Crash \/ RemoveSocket
  \/ \E d \in Physical : Plug(d) \/ Unplug(d)
  \/ \E d \in Virtual : LateDelete(d)

Next == Work \/ Client \/ Environment

Spec == Init /\ [][Next]_vars
-----------------------------------------------------------------------------
(* Properties *)

\* Type correctness; with it, that the graph and the router hold only routes
\* between devices that were listed when they were built.
TypeOK ==
  /\ devices \subseteq Nodes /\ late \subseteq Virtual /\ known \subseteq Nodes
  /\ stale \subseteq known /\ live \subseteq DevicesOf(router)
  /\ DOMAIN routes \subseteq RouteIds /\ \A r \in DOMAIN routes : routes[r] \in SavedRoutes
  /\ DOMAIN disk \subseteq RouteIds /\ \A r \in DOMAIN disk : disk[r] \in SavedRoutes
  /\ DOMAIN graph \subseteq RouteIds /\ DevicesOf(graph) \subseteq known
  /\ DOMAIN router \subseteq RouteIds
  /\ socket \in BOOLEAN
  /\ pc \in {"down", "refresh", "restore", "restart", "bind", "idle", "save", "device", "respond"}
  /\ stage \in {"boot", "main", "undo", "reject", "device"}
  /\ cursor \in 1..(MaxRoute + 1)
  /\ reply \in {"Ok", "Error"}
  /\ faults \in 0..MaxFaults /\ plugs \in 0..MaxPlugs /\ crashes \in 0..MaxCrashes

\* The router never runs a closed signal path, whatever failures, unplugged
\* devices and partial restorations came before: every way a route enters the
\* running graph (handle's Connect, restore_routes) passes the cycle check.
RouterNoFeedback == NoFeedbackIn(EndpointsOf(Nodes), router)

\* Route id of M is the one that was answered, or one that a refused Connect of
\* the same id has since put in its place.
AsAnswered(M, id) == id \in DOMAIN M /\ (M[id] = acked[id] \/ <<id, M[id]>> \in replaced)
Keeps(M) == (\A id \in DOMAIN acked : AsAnswered(M, id)) /\ released \cap DOMAIN M = {}

\* The route of a Connect answered Ok stays in the file as it was asked for,
\* through every failure and crash until its Disconnect is asked for, and a
\* Disconnect answered Ok never comes back: save_routes precedes the answer and
\* no failure path saves an older set of routes.  The one way the
\* file gets another route under the id is a Connect that handle refuses with
\* RouteExists after inserting it, which the next save writes.
AckedDurable == Keeps(disk)

\* An Ok to Connect means that the route runs and is saved, an Ok to Disconnect
\* that it does neither: handle answers only after save_routes and restart_router.
SuccessIsReal ==
  pc = "respond" /\ reply = "Ok" =>
    /\ req.op = "connect" =>
         req.id \in DOMAIN router /\ req.id \in DOMAIN disk /\ disk[req.id] = req.saved
    /\ req.op = "disconnect" => req.id \notin DOMAIN router \cup DOMAIN disk

\* self.routes as the request asks for it.
Requested ==
  IF req.op = "connect" THEN Insert(before, req.id, req.saved) ELSE Remove(before, req.id)

\* A Connect or Disconnect answered with an error has left self.routes as it was,
\* whichever of its calls failed, those of the rollback included.  Two errors of
\* handle are none to rely on: RouteExists, which comes after the route has been
\* replaced, and that of a Disconnect which has saved and could not list the
\* devices or restore the others, whose removal stands.
RolledBack ==
  pc = "respond" /\ reply = "Error" /\ req.op \in {"connect", "disconnect"} =>
    \/ routes = before
    \/ req.op = "connect" /\ req.id \in DOMAIN before /\ routes = Requested
    \/ req.op = "disconnect" /\ routes = Requested /\ disk = Requested

\* M and N hold the same routes outside S.
Same(M, N, S) ==
  \A id \in RouteIds \ S : /\ id \in DOMAIN M <=> id \in DOMAIN N
                           /\ id \in DOMAIN M => M[id] = N[id]

\* The file holds what memory holds at every answer and between requests,
\* whatever failed and was undone: what is served and what a restart would
\* bring back differ only at the id of a route that a refused Connect replaced,
\* or of a request whose rollback could not be saved, and until the next save.
FileIsMemory == pc \notin {"down", "save"} => Same(routes, disk, unsaved)

\* The control socket appears only when the router runs exactly the saved routes,
\* each between the endpoints it was saved with: run starts all or nothing.
BootRestores ==
  pc = "bind" =>
    /\ DOMAIN router = DOMAIN disk
    /\ \A r \in DOMAIN disk : router[r].source = disk[r].source /\ router[r].sink = disk[r].sink

-----------------------------------------------------------------------------
(* A property the documentation states and the code does not have *)

\* Cyclic routes are refused: the saved routes never form a closed signal path.
SavedRoutesAcyclic ==
  NoFeedbackIn(EndpointsOf(Nodes),
               [r \in DOMAIN disk |-> build_route(EndpointsOf(Nodes), disk[r])])
=============================================================================

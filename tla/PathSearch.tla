----------------------------- MODULE PathSearch -----------------------------
(***************************************************************************)
(* The search of RoutingGraph::path_exists as the loop it is: a worklist   *)
(* of nodes, a set of visited nodes, an early return at the target.  The   *)
(* other graph modules use the set Reach of GraphOps in its place; this    *)
(* module shows that the loop computes it.                                 *)
(*                                                                         *)
(* The worklist is a set from which any node may be taken: every order,    *)
(* the stack order of the code included.  A node pushed twice would be     *)
(* skipped the second time, as it is visited.                              *)
(***************************************************************************)
EXTENDS GraphOps

CONSTANT Graphs  \* the [endpoints, routes] the search may be started on

VARIABLES graph,            \* the borrowed RoutingGraph
          from, target,     \* the arguments
          pending, visited,
          result            \* "none" until the call returns

searchVars == <<graph, from, target, pending, visited, result>>

\* The call, up to the loop: a start that is not loopback returns at once.
SearchInit ==
  /\ graph \in Graphs
  /\ from \in Nodes
  /\ target \in Nodes
  /\ visited = {}
  /\ pending = {from}
  /\ result = IF node_is_loopback(graph.endpoints, from) THEN "none" ELSE "false"

Succ(n) == Successors(graph.endpoints, graph.routes, n)

\* pending.pop() gives the target.
Found ==
  /\ result = "none"
  /\ target \in pending
  /\ result' = "true"
  /\ UNCHANGED <<graph, from, target, pending, visited>>

\* pending.pop() gives a node seen before: continue.
Skip(node) ==
  /\ result = "none"
  /\ node \in pending /\ node # target /\ node \in visited
  /\ pending' = pending \ {node}
  /\ UNCHANGED <<graph, from, target, visited, result>>

\* Fault: the node is not marked.
VisitUnmarked(node) ==
  /\ result = "none"
  /\ node \in pending /\ node # target /\ node \notin visited
  /\ pending' = (pending \ {node}) \cup Succ(node)
  /\ UNCHANGED <<graph, from, target, visited, result>>

\* Fault: the worklist is replaced, not extended.
VisitForgetful(node) ==
  /\ result = "none"
  /\ node \in pending /\ node # target /\ node \notin visited
  /\ visited' = visited \cup {node}
  /\ pending' = Succ(node)
  /\ UNCHANGED <<graph, from, target, result>>

\* A new node: it is marked and its loopback sinks are pushed.
Visit(node) ==
  /\ result = "none"
  /\ node \in pending /\ node # target /\ node \notin visited
  /\ visited' = visited \cup {node}
  /\ pending' = (pending \ {node}) \cup Succ(node)
  /\ UNCHANGED <<graph, from, target, result>>

\* The worklist is empty: false.
Exhausted ==
  /\ result = "none"
  /\ pending = {}
  /\ result' = "false"
  /\ UNCHANGED <<graph, from, target, pending, visited>>

SearchNext ==
  \/ Found
  \/ \E node \in pending : Skip(node)
  \/ \E node \in pending : Visit(node)
  \/ Exhausted

\* The loop runs to its end: nothing in it waits.
SearchSpec == SearchInit /\ [][SearchNext]_searchVars /\ WF_searchVars(SearchNext)

-----------------------------------------------------------------------------
(* Properties *)

(* The answer is the specified one: true exactly when the target is among the
   nodes reachable from a loopback start through routes into loopback sinks. *)
AnswerCorrect ==
  /\ result = "true" => path_exists(graph.endpoints, graph.routes, from, target)
  /\ result = "false" => ~path_exists(graph.endpoints, graph.routes, from, target)

(* Cycles in the graph do not trap the search. *)
Terminates == <>(result # "none")

(* The inductive invariant: everything seen is reachable, and what is visited
   has all its successors visited or waiting, the target among none of it. *)
SearchInv ==
  /\ from \in Nodes
  /\ pending \cup visited \subseteq Reach(graph.endpoints, graph.routes, from)
  /\ from \in pending \cup visited
  /\ \A n \in visited : n # target /\ Succ(n) \subseteq pending \cup visited
  /\ result # "false" => node_is_loopback(graph.endpoints, from)
  /\ AnswerCorrect
=============================================================================

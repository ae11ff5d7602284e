---------------------------- MODULE GraphRebuild ----------------------------
(***************************************************************************)
(* The rebuild of the AGE graph at the granularity of its statements.      *)
(*                                                                         *)
(* mem012_rebuild_memory_graph() clears the graph, reads memory_units,     *)
(* reads memory_relations, and marks the graph clean, each statement with  *)
(* a snapshot of its own; it takes no lock that a writer of the SQL tables *)
(* would wait for.  The writers are those of MemoryReview.                 *)
(***************************************************************************)
EXTENDS MemoryReview

VARIABLES
  graph,     (* what the AGE graph shows to other transactions           *)
  rebuild    (* the running rebuild: its step and what it has read       *)

graphVars == <<vars, graph, rebuild>>

NoGraph == [nodes |-> {}, edges |-> {}]
Idle == [step |-> "idle", read |-> NoGraph]

GraphInit ==
  /\ Init
  /\ graph = NoGraph
  /\ rebuild = Idle

\* DETACH DELETE of all vertices and the loop over the active memories.
ReadNodes ==
  /\ rebuild.step = "idle"
  /\ rebuild' = [step |-> "nodes", read |-> [nodes |-> GraphView.nodes, edges |-> {}]]
  /\ UNCHANGED <<vars, graph>>

\* The loop over the relations between active memories; an edge is created
\* only where MATCH finds both vertices.
ReadEdges ==
  LET found == {n[1] : n \in rebuild.read.nodes} IN
  /\ rebuild.step = "nodes"
  /\ rebuild' = [step |-> "edges",
                 read |-> [rebuild.read EXCEPT !.edges =
                   {r \in GraphView.edges : {r.from, r.to} \subseteq found}]]
  /\ UNCHANGED <<vars, graph>>

\* The update of memory_graph_meta and the commit.
CommitRebuild ==
  /\ rebuild.step = "edges"
  /\ graph' = rebuild.read
  /\ dirty' = FALSE
  /\ rebuild' = Idle
  /\ UNCHANGED <<units, change, relations, index, calls>>

\* The rebuild fails: its transaction leaves nothing behind.
AbortRebuild ==
  /\ rebuild.step # "idle"
  /\ rebuild' = Idle
  /\ UNCHANGED <<vars, graph>>

GraphNext ==
  \/ ReadNodes
  \/ ReadEdges
  \/ CommitRebuild
  \/ AbortRebuild
  \/ (ClientStep \/ ReviewStep \/ TrashStep \/ RelationStep) /\ UNCHANGED <<graph, rebuild>>

GraphSpec == GraphInit /\ [][GraphNext]_graphVars

\* DB_PLAN.md: memory_graph_meta records whether the AGE graph lags behind the
\* SQL tables.  A graph marked clean shows what the tables say.
CleanGraphIsCurrent == ~dirty => graph = GraphView
=============================================================================

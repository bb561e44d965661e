--------------------------- MODULE ProcedureGraph ---------------------------
(***************************************************************************)
(* A procedural graph (graph.py): nodes with an order (ids are sorted) and *)
(* directed edges.  Node types, relations and attributes are left out: an  *)
(* edge is its two ends, and what validate() says of a vocabulary is not   *)
(* modelled.                                                               *)
(***************************************************************************)
EXTENDS Integers, FiniteSets, Sequences

CONSTANTS
    Ids,     \* node ids, as numbers in their sort order
    Start,   \* the two sentinels
    End

ASSUME GraphAssumption ==
    /\ Ids \subseteq Nat
    /\ IsFiniteSet(Ids)
    /\ Start \in Ids
    /\ End \in Ids
    /\ Start # End

Edges == [source : Ids, target : Ids]

Successors(edges, n) == {e \in edges : e.source = n}

\* End counts as a terminal, whatever leads out of it.
Terminals_WithEnd(nodes, edges) == {n \in nodes : n = End \/ Successors(edges, n) = {}}

\* terminals(): not specifically End.
Terminals(nodes, edges) == {n \in nodes : Successors(edges, n) = {}}

\* The first node and the first edge in the order the graph keeps them.
Least(ns) == CHOOSE n \in ns : \A m \in ns : n <= m
LeastEdge(edges) ==
    CHOOSE e \in edges : \A f \in edges :
        e.source < f.source \/ (e.source = f.source /\ e.target <= f.target)

\* The backward search of validate() from all terminals.
CanFinish(nodes, edges) ==
    LET within[k \in Nat] ==
          IF k = 0 THEN Terminals(nodes, edges)
          ELSE within[k - 1] \cup {e.source : e \in {f \in edges : /\ f.target \in within[k - 1]
                                                                   /\ f.source \in nodes}}
    IN  within[Cardinality(Ids)]

\* validate(): the errors; a node that Start does not reach is only a warning.
Invalid(nodes, edges) ==
    (IF {Start, End} \subseteq nodes THEN {} ELSE {"missing_sentinel"})
    \cup (IF \A e \in edges : {e.source, e.target} \subseteq nodes THEN {} ELSE {"missing_endpoint"})
    \cup (IF nodes \subseteq CanFinish(nodes, edges) THEN {} ELSE {"no_path_to_terminal"})

-----------------------------------------------------------------------------
(* Reference definitions.                                                  *)

\* A path, as the nodes on it.
Path(edges, p) ==
    \A i \in 1 .. Len(p) - 1 : [source |-> p[i], target |-> p[i + 1]] \in edges

\* A path from m to n that no node need be on twice.
Leads(nodes, edges, m, n) ==
    \E k \in 1 .. Cardinality(nodes) : \E p \in [1 .. k -> nodes] :
        p[1] = m /\ p[k] = n /\ Path(edges, p)

=============================================================================

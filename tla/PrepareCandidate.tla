-------------------------- MODULE PrepareCandidate --------------------------
(***************************************************************************)
(* prepare_candidate() of edits.py: the edits of the refiner applied to a  *)
(* graph, the cycles repaired, the result validated.                       *)
(*                                                                         *)
(* One action is one edit, or one step of the depth-first search of        *)
(* find_cycles(): the recursion is a stack of nodes with the edges they    *)
(* have still to look at.  The edit set is any, one edit at a time in the  *)
(* order of the four loops; what it asks for is kept in "asked".           *)
(***************************************************************************)
EXTENDS ProcedureGraph

CONSTANTS
    MaxEdges,   \* bound: edges of the graph given
    MaxEdits    \* bound: edits of one edit set

ASSUME BoundsAssumption == MaxEdges \in Nat /\ MaxEdits \in Nat

VARIABLES
    policy,    \* cycle_policy
    old,       \* the graph given
    edits,     \* the number of edits so far
    asked,     \* history: what they named
    nodes,     \* the candidate
    edges,
    found,     \* the codes of the errors found
    phase,     \* the loop or step prepare_candidate() is in
    colour,    \* the depth-first search: 0, 1 on the stack, 2 done
    stack,
    back,
    removed,   \* repair_cycles(): what it cut, and its passes so far
    passes,
    clock,     \* history: how many nodes the search has finished, and each one's number
    finish

vars == <<policy, old, edits, asked, nodes, edges, found, phase, colour, stack, back, removed, passes,
          clock, finish>>
given == <<policy, old, edits, asked>>
candidate == <<nodes, edges, found>>
pass == <<back, removed, passes>>
search == <<colour, stack, pass, clock, finish>>

Phases == <<"delete_edges", "delete_nodes", "add_nodes", "add_edges">>
NoEdits == [p \in {Phases[i] : i \in 1 .. 4} |-> {}]

-----------------------------------------------------------------------------
(* The edits.                                                              *)

\* The i-th loop takes an edit; the loops before it are over.
Edit(i, what) ==
    /\ \E j \in 1 .. i : phase = Phases[j]
    /\ phase' = Phases[i]
    /\ edits < MaxEdits
    /\ edits' = edits + 1
    /\ asked' = [asked EXCEPT ![Phases[i]] = @ \cup {what}]
    /\ UNCHANGED <<policy, old, search>>

\* An edge that is not there is a warning.
DeleteEdge(e) ==
    /\ Edit(1, e)
    /\ edges' = edges \ {e}
    /\ UNCHANGED <<nodes, found>>

DeleteNode_KeepsEdges(n) ==
    /\ Edit(2, n)
    /\ nodes' = IF n \in {Start, End} THEN nodes ELSE nodes \ {n}
    /\ found' = IF n \in {Start, End} THEN found \cup {"reserved_node"} ELSE found
    /\ UNCHANGED edges

\* A sentinel is an error, a node that is not there a warning; the edges at a node go with it.
DeleteNode(n) ==
    /\ Edit(2, n)
    /\ IF n \in {Start, End}
       THEN found' = found \cup {"reserved_node"} /\ UNCHANGED <<nodes, edges>>
       ELSE /\ nodes' = nodes \ {n}
            /\ edges' = IF n \in nodes THEN {e \in edges : n \notin {e.source, e.target}} ELSE edges
            /\ UNCHANGED found

AddNode(n) ==
    /\ Edit(3, n)
    /\ nodes' = nodes \cup {n}
    /\ found' = IF n \in nodes THEN found \cup {"duplicate_node"} ELSE found
    /\ UNCHANGED edges

\* The ends of an edge are looked at by validate() only.
AddEdge(e) ==
    /\ Edit(4, e)
    /\ edges' = edges \cup {e}
    /\ found' = IF e \in edges THEN found \cup {"duplicate_edge"} ELSE found
    /\ UNCHANGED nodes

\* A fresh search, if there is one.
Restart ==
    /\ colour' = [n \in Ids |-> 0]
    /\ stack' = <<>>
    /\ back' = {}
    /\ clock' = 0
    /\ finish' = [n \in Ids |-> 0]

\* The edits are applied: an error among them ends it, a policy of "allow" skips the repair.
Built ==
    /\ \E i \in 1 .. 4 : phase = Phases[i]
    /\ phase' = IF found # {} THEN "done" ELSE IF policy = "allow" THEN "check" ELSE "search"
    /\ passes' = IF phase' = "search" THEN 1 ELSE 0
    /\ Restart
    /\ UNCHANGED <<given, candidate, removed>>

-----------------------------------------------------------------------------
(* find_cycles() and repair_cycles().                                      *)

\* visit(n): its edges in their order.
Frame(n) == [node |-> n, rest |-> Successors(edges, n)]
Top == stack[Len(stack)]
Below == SubSeq(stack, 1, Len(stack) - 1)
White_FromStart == {n \in nodes \cap {Start} : colour[n] = 0}
White == {n \in nodes : colour[n] = 0}

\* The next node no visit has reached.
Visit ==
    /\ phase = "search"
    /\ stack = <<>>
    /\ White # {}
    /\ stack' = <<Frame(Least(White))>>
    /\ colour' = [colour EXCEPT ![Least(White)] = 1]
    /\ UNCHANGED <<given, candidate, phase, pass, clock, finish>>

\* Edge e is the next of the node on top.
Take(e) ==
    /\ phase = "search"
    /\ stack # <<>>
    /\ Top.rest # {}
    /\ e = LeastEdge(Top.rest)

Rest(e) == [Top EXCEPT !.rest = @ \ {e}]

\* The node it leads to is not yet visited.
Descend(e) ==
    /\ Take(e)
    /\ colour[e.target] = 0
    /\ e.target \in nodes
    /\ stack' = Append(Append(Below, Rest(e)), Frame(e.target))
    /\ colour' = [colour EXCEPT ![e.target] = 1]
    /\ UNCHANGED <<given, candidate, phase, pass, clock, finish>>

\* Whatever was visited counts as a cycle.
Look_TwoColours(e) ==
    /\ Take(e)
    /\ colour[e.target] # 0 \/ e.target \notin nodes
    /\ back' = IF colour[e.target] # 0 THEN back \cup {e} ELSE back
    /\ stack' = Append(Below, Rest(e))
    /\ UNCHANGED <<given, candidate, phase, removed, passes, colour, clock, finish>>

\* It is on the stack: the edge closes a cycle.  Or it is done, or no node of the graph.
Look(e) ==
    /\ Take(e)
    /\ colour[e.target] # 0 \/ e.target \notin nodes
    /\ back' = IF colour[e.target] = 1 THEN back \cup {e} ELSE back
    /\ stack' = Append(Below, Rest(e))
    /\ UNCHANGED <<given, candidate, phase, removed, passes, colour, clock, finish>>

\* The node stays marked as on the stack.
Leave_StaysOpen ==
    /\ phase = "search"
    /\ stack # <<>>
    /\ Top.rest = {}
    /\ stack' = Below
    /\ clock' = clock + 1
    /\ finish' = [finish EXCEPT ![Top.node] = clock + 1]
    /\ UNCHANGED <<given, candidate, phase, pass, colour>>

Leave ==
    /\ phase = "search"
    /\ stack # <<>>
    /\ Top.rest = {}
    /\ colour' = [colour EXCEPT ![Top.node] = 2]
    /\ stack' = Below
    /\ clock' = clock + 1
    /\ finish' = [finish EXCEPT ![Top.node] = clock + 1]
    /\ UNCHANGED <<given, candidate, phase, pass>>

PassOver == phase = "search" /\ stack = <<>> /\ White = {}

\* Only the first edge found is cut.
Cut_OneAtATime ==
    /\ PassOver
    /\ back # {}
    /\ passes < Cardinality(edges \cup removed) + 1
    /\ edges' = edges \ {LeastEdge(back)}
    /\ removed' = removed \cup {LeastEdge(back)}
    /\ passes' = passes + 1
    /\ Restart
    /\ UNCHANGED <<given, nodes, found, phase>>

\* What the pass found is cut, and another pass looks again.
Cut ==
    /\ PassOver
    /\ back # {}
    /\ passes < Cardinality(edges \cup removed) + 1
    /\ edges' = edges \ back
    /\ removed' = removed \cup back
    /\ passes' = passes + 1
    /\ Restart
    /\ UNCHANGED <<given, nodes, found, phase>>

\* Nothing was found, or the passes are used up.
Repaired ==
    /\ PassOver
    /\ back = {} \/ passes = Cardinality(edges \cup removed) + 1
    /\ edges' = edges \ back
    /\ removed' = removed \cup back
    /\ phase' = "check"
    /\ UNCHANGED <<given, nodes, found, passes, colour, stack, back, clock, finish>>

Check ==
    /\ phase = "check"
    /\ found' = found \cup Invalid(nodes, edges)
    /\ phase' = "done"
    /\ UNCHANGED <<given, nodes, edges, search>>

-----------------------------------------------------------------------------
\* The graphs a round starts from: valid, and with cycles too.
Given ==
    {g \in [nodes : {ns \in SUBSET Ids : {Start, End} \subseteq ns}, edges : SUBSET Edges] :
        /\ Cardinality(g.edges) <= MaxEdges
        /\ Invalid(g.nodes, g.edges) = {}}

Init ==
    /\ policy \in {"allow", "repair"}
    /\ old \in Given
    /\ edits = 0
    /\ asked = NoEdits
    /\ nodes = old.nodes
    /\ edges = old.edges
    /\ found = {}
    /\ phase = "delete_edges"
    /\ colour = [n \in Ids |-> 0]
    /\ stack = <<>>
    /\ back = {}
    /\ removed = {}
    /\ passes = 0
    /\ clock = 0
    /\ finish = [n \in Ids |-> 0]

Next ==
    \/ \E e \in Edges : DeleteEdge(e) \/ AddEdge(e)
    \/ \E n \in Ids : DeleteNode(n) \/ AddNode(n)
    \/ Built
    \/ Visit
    \/ \E e \in edges : Descend(e) \/ Look(e)
    \/ Leave
    \/ Cut
    \/ Repaired
    \/ Check

Spec == Init /\ [][Next]_vars

-----------------------------------------------------------------------------
(* Properties.                                                             *)

\* Candidate, search and history keep their types; the nodes of colour 1 are those on the
\* stack, once each (graph.py:450-458).
TypeOK ==
    /\ policy \in {"allow", "repair"}
    /\ edits \in 0 .. MaxEdits
    /\ nodes \subseteq Ids
    /\ edges \subseteq Edges
    /\ back \subseteq Edges
    /\ removed \subseteq Edges
    /\ phase \in {"delete_edges", "delete_nodes", "add_nodes", "add_edges", "search", "check", "done"}
    /\ colour \in [Ids -> 0 .. 2]
    /\ stack \in Seq([node : Ids, rest : SUBSET Edges])
    /\ \A i, j \in 1 .. Len(stack) : stack[i].node = stack[j].node => i = j
    /\ \A n \in Ids : colour[n] = 1 <=> \E i \in 1 .. Len(stack) : stack[i].node = n
    /\ passes \in Nat
    /\ clock \in Nat
    /\ finish \in [Ids -> Nat]

Searched == passes > 0 /\ phase \in {"check", "done"}

\* After the repair every edge between nodes of the graph leads to a node the search left
\* earlier: there is no cycle (edits.py:176-188).
RepairedHasOrder ==
    Searched => \A e \in edges : {e.source, e.target} \subseteq nodes => finish[e.target] < finish[e.source]

\* The repair cuts no more than it must: each edge it removed would close a cycle in the
\* graph that is left (graph.py:444-463).
CutClosesCycle ==
    Searched => \A e \in removed : Leads(nodes, edges, e.target, e.source)

\* One pass cuts all, the next finds nothing; the bound of the loop is never met.
TwoPassesAtMost == passes <= 2 /\ (Searched => back = {})

\* The candidate is the graph given, the deletions made before the additions, also when edits
\* name an edge or a node twice; the cuts come on top (edits.py:211-243).
CandidateIsEdited ==
    phase = "done" /\ found = {} =>
        LET gone == asked["delete_nodes"] \cap old.nodes
        IN  /\ nodes = (old.nodes \ gone) \cup asked["add_nodes"]
            /\ edges \cup removed =
                 {e \in old.edges \ asked["delete_edges"] : {e.source, e.target} \cap gone = {}}
                 \cup asked["add_edges"]

\* Every node of a candidate has a path to a node without edges (graph.py:411-423).
EveryNodeFinishes ==
    phase = "done" /\ found = {} =>
        \A n \in nodes : \E m \in nodes : Leads(nodes, edges, n, m) /\ Successors(edges, m) = {}

=============================================================================

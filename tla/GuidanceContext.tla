---------------------------- MODULE GuidanceContext ----------------------------
(***************************************************************************)
(* What a Guide is told of the graph (guidance.py, serialize.py): the step *)
(* is located, and the transitions around it, or of the whole graph, are   *)
(* put into the prompt hop by hop, with the last steps of the trajectory.  *)
(*                                                                         *)
(* A step is its action, a line of the text the edge or step it prints.    *)
(***************************************************************************)
EXTENDS ProcedureGraph, RoundConstants

VARIABLES
    world,      \* the graph: nodes, edges
    settings,   \* GuidanceConfig: mode, hops, window
    steps,      \* the trajectory: the actions so far
    at,         \* the node the agent is at, or None
    near,       \* the search: its hop, frontier, nodes seen and tagged edges
    served      \* the text: None, or what it shows

vars == <<world, settings, steps, at, near, served>>
inputs == <<world, settings, steps>>

Text(whole, edges, recent) == [whole |-> whole, edges |-> edges, recent |-> recent]

-----------------------------------------------------------------------------
(* The last steps.                                                         *)

\* The last steps of a window of none are all of them.
Recent_Sliced ==
    LET omitted == IF settings.window \in {None, 0} \/ settings.window > Len(steps) THEN 0
                   ELSE Len(steps) - settings.window
    IN  [i \in 1 .. Len(steps) - omitted |-> [number |-> omitted + i, action |-> steps[omitted + i]]]

\* render_trajectory(): the last steps with the numbers they have in the episode.
Recent ==
    LET omitted == IF settings.window = None \/ settings.window > Len(steps) THEN 0
                   ELSE Len(steps) - settings.window
    IN  [i \in 1 .. Len(steps) - omitted |-> [number |-> omitted + i, action |-> steps[omitted + i]]]

-----------------------------------------------------------------------------
(* guidance()                                                              *)

\* ExactActionLocalizer.locate(): before the first step the agent is at Start.
Match ==
    LET action == IF steps = <<>> THEN Start ELSE steps[Len(steps)]
    IN  IF action \in world.nodes THEN action ELSE None

Asked == served = None /\ near.hop = 0

\* Mode "none" locates the step and says nothing.
Nothing ==
    /\ Asked
    /\ settings.mode = "none"
    /\ at' = Match
    /\ served' = Text(FALSE, {}, <<>>)
    /\ UNCHANGED <<inputs, near>>

\* _serialize_full(): a *_full mode, or a step that is at no node.
Whole ==
    /\ Asked
    /\ settings.mode # "none"
    /\ settings.mode = "full" \/ Match = None
    /\ at' = Match
    /\ served' = Text(TRUE, {[hop |-> 0, edge |-> e] : e \in world.edges}, Recent)
    /\ UNCHANGED <<inputs, near>>

\* neighborhood(): the search starts at the node.
Around ==
    /\ Asked
    /\ settings.mode = "subgraph"
    /\ Match # None
    /\ at' = Match
    /\ near' = [hop |-> 1, frontier |-> {Match}, seen |-> {Match}, tagged |-> {}]
    /\ UNCHANGED <<inputs, served>>

Searching == served = None /\ near.hop \in 1 .. settings.hops /\ near.frontier # {}

Leaving == {e \in world.edges : e.source \in near.frontier}

\* Nodes seen before are searched from again.
Hop_Again ==
    /\ Searching
    /\ near' = [hop |-> near.hop + 1, frontier |-> {e.target : e \in Leaving},
                seen |-> near.seen \cup {e.target : e \in Leaving},
                tagged |-> near.tagged \cup {[hop |-> near.hop, edge |-> e] : e \in Leaving}]
    /\ UNCHANGED <<inputs, at, served>>

\* Only edges to new nodes are tagged.
Hop_Forward ==
    /\ Searching
    /\ LET forward == {e \in Leaving : e.target \notin near.seen}
       IN  near' = [hop |-> near.hop + 1, frontier |-> {e.target : e \in forward},
                    seen |-> near.seen \cup {e.target : e \in forward},
                    tagged |-> near.tagged \cup {[hop |-> near.hop, edge |-> e] : e \in forward}]
    /\ UNCHANGED <<inputs, at, served>>

\* One hop: the edges out of the frontier are tagged, the nodes they newly reach are next.
Hop ==
    /\ Searching
    /\ LET reached == {e.target : e \in Leaving}
       IN  near' = [hop |-> near.hop + 1, frontier |-> reached \ near.seen, seen |-> near.seen \cup reached,
                    tagged |-> near.tagged \cup {[hop |-> near.hop, edge |-> e] : e \in Leaving}]
    /\ UNCHANGED <<inputs, at, served>>

EdgesAt(hop) == {t \in near.tagged : t.hop = hop}

\* serialize_context(): hop after hop, up to the first beyond the node's own that is empty.
Printed ==
    {t \in near.tagged : \A hop \in 2 .. t.hop : EdgesAt(hop) # {}}

Serialize ==
    /\ served = None
    /\ near.hop > 0
    /\ ~ Searching
    /\ served' = Text(FALSE, Printed, Recent)
    /\ UNCHANGED <<inputs, at, near>>

-----------------------------------------------------------------------------
\* The graphs an episode can run under: valid ones.
Worlds ==
    {w \in {[nodes |-> {Start, End} \cup {e.source : e \in es} \cup {e.target : e \in es}, edges |-> es] :
               es \in {x \in SUBSET Edges : Cardinality(x) <= ContextEdges}} :
        Invalid(w.nodes, w.edges) = {}}

Init ==
    /\ world \in Worlds
    /\ settings \in GuideSettings
    /\ steps \in UNION {[1 .. n -> Ids] : n \in 0 .. Steps}
    /\ at = None
    /\ near = [hop |-> 0, frontier |-> {}, seen |-> {}, tagged |-> {}]
    /\ served = None

Next == Nothing \/ Whole \/ Around \/ Hop \/ Serialize

Spec == Init /\ [][Next]_vars

-----------------------------------------------------------------------------
(* Properties.                                                             *)

\* Search and text keep their types, and the search stays in the graph (graph.py:348-368).
TypeOK ==
    /\ at \in world.nodes \cup {None}
    /\ near.hop \in 0 .. settings.hops + 1
    /\ near.frontier \subseteq near.seen
    /\ near.seen \subseteq world.nodes
    /\ near.tagged \subseteq [hop : 1 .. settings.hops, edge : world.edges]
    /\ served # None => served.whole \in BOOLEAN

\* The nodes walks of k steps lead to, whatever they pass twice.
WalksTo ==
    LET to[k \in Nat] == IF k = 0 THEN {at}
                         ELSE {e.target : e \in {f \in world.edges : f.source \in to[k - 1]}}
    IN  to

Distance(n) == CHOOSE k \in 0 .. Cardinality(Ids) :
                  n \in WalksTo[k] /\ \A j \in 0 .. k - 1 : n \notin WalksTo[j]

\* eq. 2: a located step is shown each edge that starts fewer than h steps away, once, at its
\* distance, edges back to where the agent has been included; the whole graph is shown exactly
\* when it was asked for or the step is at no node (graph.py:348-368, serialize.py:69-81).
ContextIsNeighborhood ==
    served # None /\ settings.mode # "none" =>
        LET around == {n \in world.nodes : \E k \in 0 .. settings.hops - 1 : n \in WalksTo[k]}
        IN  /\ served.whole <=> settings.mode = "full" \/ at = None
            /\ {t.edge : t \in served.edges} =
                 IF served.whole THEN world.edges ELSE {e \in world.edges : e.source \in around}
            /\ ~ served.whole => \A t \in served.edges : t.hop = Distance(t.edge.source) + 1

\* The trajectory in the prompt is the end of the episode: never more than the window, nothing
\* left out between what is shown and now, each step under its own number (serialize.py:97-111).
RecentIsTail ==
    served # None /\ settings.mode # "none" =>
        LET shown == served.recent
            n == Len(shown)
        IN  /\ settings.window # None => n <= settings.window
            /\ n < Len(steps) => n = settings.window
            /\ \A i \in 1 .. n : /\ shown[i].number = Len(steps) - n + i
                                 /\ shown[i].action = steps[shown[i].number]

\* What the Guide reads is the neighbourhood and the recent past of the step, and no more.
GuidanceIsLocal == ContextIsNeighborhood /\ RecentIsTail

=============================================================================

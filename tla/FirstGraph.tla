------------------------------ MODULE FirstGraph ------------------------------
(***************************************************************************)
(* The graph a workspace starts from: nothing, a hand-written document, a  *)
(* Graph, or one that the refiner drafts from a text (harness.py,          *)
(* graph.py, roles/bootstrap.py, and init in cli.py).  It is made here and *)
(* seeded by Workspaces.                                                   *)
(*                                                                         *)
(* A document lists its nodes, and an entry of the list is told apart from *)
(* the others by its place; of what it says only the id is kept.           *)
(*                                                                         *)
(* Of the refiner's reply the model keeps what propose() tells apart       *)
(* (MeteredCalls) and the candidate, which is any valid graph: edits to    *)
(* the skeleton can build every one.                                       *)
(***************************************************************************)
EXTENDS ProcedureGraph, RoundConstants

VARIABLES
    source,   \* where the graph is to come from, with all its inputs
    drafting, \* where the draft is: its step, the attempts, the last reply, the answers counted
    budget,   \* the meter of the calls: calls, ceiling
    outcome   \* None, or the seed, the places of the entries in it, and what was said about it

vars == <<source, drafting, budget, outcome>>

Graph(nodes, edges) == [nodes |-> nodes, edges |-> edges]
Skeleton == Graph({Start, End}, {[source |-> Start, target |-> End]})

\* is_skeleton: whichever way its edge leads.
IsSkeleton(graph) == graph.nodes = {Start, End} /\ Cardinality(graph.edges) = 1

Valid(graph) == Invalid(graph.nodes, graph.edges) = {}

-----------------------------------------------------------------------------
(* How it ends.                                                            *)

Undecided == outcome = None /\ drafting.step = "none"

Refuse(why) == outcome' = [seed |-> None, origin |-> None, entries |-> {}, calls |-> 0, why |-> why]

Seed(graph, origin, entries, calls, notes) ==
    outcome' = [seed |-> graph, origin |-> origin, entries |-> entries, calls |-> calls, why |-> notes]

\* The origin of a graph that is not drafted.
Origin(graph) == IF IsSkeleton(graph) THEN "skeleton" ELSE "onboarded"

-----------------------------------------------------------------------------
(* coerce_initial_graph(), and the options of init.                        *)

\* init with options that exclude each other, or that only a text has a use for.
Conflict ==
    /\ Undecided
    /\ source.kind = "conflict"
    /\ Refuse({"options"})
    /\ UNCHANGED <<source, drafting, budget>>

NoGraph ==
    /\ Undecided
    /\ source.kind = "nothing"
    /\ Seed(Skeleton, "skeleton", {}, 0, {})
    /\ UNCHANGED <<source, drafting, budget>>

Places == DOMAIN source.graph.nodes
Listed == {source.graph.nodes[n] : n \in Places}

\* The first entry with an id is the one that is read.
Read_First == {n \in Places : \A m \in Places : m < n => source.graph.nodes[m] # source.graph.nodes[n]}

\* from_human() reads the list into a dictionary: an entry replaces an earlier one with its id.
Read == {n \in Places : \A m \in Places : m > n => source.graph.nodes[m] # source.graph.nodes[n]}

\* Every document without edges gets the edge of the skeleton.
Completed_NoEdges ==
    LET nodes == Listed \cup {Start, End}
    IN  IF source.graph.edges = {} THEN Graph(nodes, Skeleton.edges)
        ELSE Graph(nodes, source.graph.edges)

\* The sentinels are added, and to nothing else the edge between them.
Completed ==
    LET nodes == Listed \cup {Start, End}
    IN  IF source.graph.edges = {} /\ nodes = {Start, End} THEN Skeleton
        ELSE Graph(nodes, source.graph.edges)

\* What was added, unless there was nothing.
Notes ==
    {what \in {"node", "edge"} :
        /\ Listed # {} \/ source.graph.edges # {}
        /\ IF what = "node" THEN Completed.nodes # Listed
           ELSE Completed.edges # source.graph.edges}

Document ==
    /\ Undecided
    /\ source.kind = "document"
    /\ IF source.broken \/ ~ Valid(Completed) THEN Refuse({"document"})
       ELSE Seed(Completed, Origin(Completed), Read, 0, Notes)
    /\ UNCHANGED <<source, drafting, budget>>

\* A Graph is validated as it is.
Given ==
    /\ Undecided
    /\ source.kind = "graph"
    /\ IF source.broken \/ ~ Valid(source.graph) THEN Refuse({"graph"})
       ELSE Seed(source.graph, Origin(source.graph), {}, 0, {})
    /\ UNCHANGED <<source, drafting, budget>>

-----------------------------------------------------------------------------
(* bootstrap_graph() and the one pass of refine_once().                    *)

\* solutions_as_traces(): blank solutions are dropped.
Kept == {i \in 1 .. Len(source.solutions) : source.solutions[i]}

\* A text without a problem, or with nothing to build actions from; else the meter of the call:
\* the host's, which takes the ceiling of the configuration when it has none, or one of its own.
Bootstrap ==
    /\ Undecided
    /\ source.kind = "text"
    /\ IF ~ source.problem \/ (Kept = {} /\ ~ source.tools)
       THEN Refuse({"text"}) /\ UNCHANGED <<drafting, budget>>
       ELSE /\ drafting' = [drafting EXCEPT !.step = "propose", !.before = budget.calls]
            /\ budget' = IF budget.ceiling = None THEN [budget EXCEPT !.ceiling = source.ceiling] ELSE budget
            /\ UNCHANGED outcome
    /\ UNCHANGED source

Exhausted == budget.ceiling # None /\ budget.calls >= budget.ceiling

\* An attempt: the budget raises through bootstrap_graph().
Attempt ==
    /\ outcome = None
    /\ drafting.step = "propose"
    /\ IF Exhausted THEN Refuse({"budget"}) /\ UNCHANGED drafting
       ELSE drafting' = [drafting EXCEPT !.step = "asked"] /\ UNCHANGED outcome
    /\ UNCHANGED <<source, budget>>

\* The model raises, or the hook does when its answer is counted: the draft is over.
Fail ==
    /\ outcome = None
    /\ drafting.step = "asked"
    /\ drafting' = [drafting EXCEPT !.step = "failed"]
    /\ budget' \in {budget, [budget EXCEPT !.calls = @ + 1]}
    /\ Refuse({"model"})
    /\ UNCHANGED source

\* Meanwhile the host makes a call of its own.
OtherCall ==
    /\ outcome = None
    /\ drafting.step \in {"propose", "asked"}
    /\ source.shared
    /\ drafting.others = 0
    /\ budget' = [budget EXCEPT !.calls = @ + 1]
    /\ drafting' = [drafting EXCEPT !.others = 1]
    /\ UNCHANGED <<source, outcome>>

\* The answer is counted and its reply looked at; edits that fail are asked for again.
Answer(reply, graph) ==
    /\ outcome = None
    /\ drafting.step = "asked"
    /\ graph # None => Valid(graph)
    /\ budget' = [budget EXCEPT !.calls = @ + 1]
    /\ drafting' = [drafting EXCEPT
          !.own = @ + 1, !.reply = reply, !.graph = graph,
          !.step = IF reply \in {"good", "empty"} \/ drafting.own = Retries THEN "made" ELSE "propose"]
    /\ UNCHANGED <<source, outcome>>

\* The skeleton passes for a draft.
Useless_NoEdits == drafting.reply \in {"empty", "unreadable"}

\* No edits, which is what an unreadable reply counts for, or edits that leave the skeleton.
Useless ==
    \/ drafting.reply \in {"empty", "unreadable"}
    \/ drafting.reply = "good" /\ IsSkeleton(drafting.graph)

\* The diagnostics of the last reply.
Diagnosed ==
    (IF Useless THEN {"no_action"} ELSE {})
    \cup (IF drafting.reply \in {"unreadable", "refused"} THEN {drafting.reply} ELSE {})

\* The calls are all the meter ever counted.
Calls_All == budget.calls

Calls == budget.calls - drafting.before

\* BootstrapResult, to init or as the initial_graph of evolve().
Result ==
    /\ outcome = None
    /\ drafting.step = "made"
    /\ IF drafting.reply # "good" \/ Useless THEN Refuse(Diagnosed)
       ELSE Seed(drafting.graph, "bootstrapped", {}, Calls, {})
    /\ UNCHANGED <<source, drafting, budget>>

-----------------------------------------------------------------------------
\* No edge, one or two.
FewEdges == {{}} \cup {{e, f} : e \in Edges, f \in Edges}

Written(kind, graph, broken) ==
    [kind |-> kind, graph |-> graph, broken |-> broken, problem |-> FALSE, tools |-> FALSE,
     solutions |-> <<>>, shared |-> FALSE, ceiling |-> None]

Told(problem, tools, solutions, shared, ceiling) ==
    [kind |-> "text", graph |-> None, broken |-> FALSE, problem |-> problem, tools |-> tools,
     solutions |-> solutions, shared |-> shared, ceiling |-> ceiling]

\* A meter of its own begins with nothing counted and no ceiling but the configuration's.
Init ==
    /\ \/ \E kind \in {"nothing", "conflict"} : source = Written(kind, None, FALSE)
       \/ \E es \in FewEdges, broken \in BOOLEAN :
             \/ \E ns \in UNION {[1 .. n -> Ids] : n \in 0 .. NodeEntries} :
                   source = Written("document", Graph(ns, es), broken)
             \/ \E ns \in SUBSET Ids : source = Written("graph", Graph(ns, es), broken)
       \/ \E problem, tools, shared \in BOOLEAN, ceiling \in {None, MaxCalls} :
             \E solutions \in UNION {[1 .. n -> BOOLEAN] : n \in 0 .. Solutions} :
                source = Told(problem, tools, solutions, shared, ceiling)
    /\ drafting = [step |-> "none", own |-> 0, others |-> 0, before |-> 0, reply |-> None, graph |-> None]
    /\ budget \in IF source.shared THEN [calls : {0, MaxCalls - 1}, ceiling : {None, MaxCalls}]
                  ELSE {[calls |-> 0, ceiling |-> None]}
    /\ outcome = None

Next ==
    \/ Conflict
    \/ NoGraph
    \/ Document
    \/ Given
    \/ Bootstrap
    \/ Attempt
    \/ Fail
    \/ OtherCall
    \/ \E reply \in {"unreadable", "empty", "refused"} : Answer(reply, None)
    \/ drafting.step = "asked" /\ \E graph \in Drafts : Answer("good", graph)
    \/ Result

Spec == Init /\ [][Next]_vars

-----------------------------------------------------------------------------
(* Properties.                                                             *)

\* The draft and its meter keep their types; a draft is complete with its last reply
\* (roles/bootstrap.py:104-139, refiner.py:163-205).
TypeOK ==
    /\ drafting.step \in {"none", "propose", "asked", "made", "failed"}
    /\ drafting.own \in 0 .. Retries + 1
    /\ drafting.graph # None <=> drafting.reply = "good"
    /\ budget.calls \in Nat
    /\ budget.ceiling \in {None, MaxCalls}

Seeded == outcome # None /\ outcome.seed # None

\* Wherever it comes from, the first graph is valid with both sentinels, and counts as the
\* skeleton exactly when its origin says so, which decides the mode of the first round; a draft
\* never is the skeleton (harness.py:82-105, roles/bootstrap.py:127-139).
FirstGraphIsSound ==
    Seeded =>
        /\ Valid(outcome.seed)
        /\ {Start, End} \subseteq outcome.seed.nodes
        /\ outcome.origin = "skeleton" <=> IsSkeleton(outcome.seed)
        /\ outcome.origin = "bootstrapped" <=> source.kind = "text"

\* Human input is taken as it is or refused: a document gets no more than the sentinels, and no
\* edge but to a graph that has nothing else, each noted; it loses no edge, and an entry only to
\* a later one with the same id; a Graph gets and loses nothing, and nothing that could be taken
\* is refused (graph.py:246-291).
HumanInputIsKept ==
    outcome # None /\ source.kind \in {"document", "graph"} =>
        LET given == Graph(IF source.kind = "graph" THEN source.graph.nodes ELSE Listed, source.graph.edges)
            kept == outcome.seed
            written == source.graph.nodes
        IN  IF kept = None
            THEN source.broken \/ ~ Valid(IF source.kind = "graph" THEN given
                                          ELSE Graph(given.nodes \cup {Start, End}, given.edges))
            ELSE /\ ~ source.broken
                 /\ given.nodes \subseteq kept.nodes /\ given.edges \subseteq kept.edges
                 /\ kept.nodes \subseteq given.nodes \cup {Start, End}
                 /\ kept.edges # given.edges => given.edges = {} /\ kept.nodes = {Start, End}
                 /\ kept # given => source.kind = "document"
                 /\ given.nodes # {} =>
                       /\ kept.nodes # given.nodes => "node" \in outcome.why
                       /\ kept.edges # given.edges => "edge" \in outcome.why
                 /\ source.kind = "document" =>
                       \A n \in DOMAIN written \ outcome.entries :
                          \E m \in DOMAIN written : m > n /\ written[m] = written[n]

\* graph.py:253 "Human input is refused with diagnostics, never silently repaired": a document
\* that is taken is taken with every entry it lists (graph.py:266-270).
NeverSilentlyRepaired ==
    Seeded /\ source.kind = "document" => outcome.entries = DOMAIN source.graph.nodes

\* A refused draft always says why (roles/bootstrap.py:57-59, 126-130).
RefusalHasReason == outcome # None /\ outcome.seed = None => outcome.why # {}

SeedIsSound == FirstGraphIsSound /\ HumanInputIsKept /\ RefusalHasReason

\* The calls on the seed are those made while it was drafted, under a meter that others use and
\* that had counted before: all of the draft's own, and of the others' those in between
\* (roles/bootstrap.py:110-116, 137).
CallsAreOfDraft ==
    /\ Seeded /\ outcome.origin = "bootstrapped" =>
          outcome.calls = drafting.own + drafting.others /\ outcome.calls >= 1
    /\ source.ceiling # None /\ ~ source.shared => drafting.own <= source.ceiling

=============================================================================

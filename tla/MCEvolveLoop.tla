---------------------------- MODULE MCEvolveLoop ----------------------------
(***************************************************************************)
(* Instances of EvolveLoop for TLC.  Graphs carry their score: the         *)
(* definitions below give each instance its host, evaluator and scores.    *)
(***************************************************************************)
EXTENDS EvolveRefinement, TLC

CONSTANTS g0, g1, g2, g3

\* Three graphs the host keeps as proposed and one it normalises to g2.
MCMaterialise == [g \in Graphs |-> IF g = g3 THEN g2 ELSE g]

\* An evaluator that repeats itself.
SteadyScores ==
    [g \in Graphs |-> CASE g = g0 -> {0} [] g = g1 -> {1} [] OTHER -> {2}]

\* An evaluator whose score of g1 varies around the skeleton's.
NoisyScores ==
    [g \in Graphs |-> CASE g = g0 -> {1} [] g = g1 -> {0, 2} [] OTHER -> {1}]

\* Every graph scores the same: the gate does not look at scores.
FlatScores == [g \in Graphs |-> {1}]

\* A running process goes on, an operator starts evolve() again when none runs, and from some
\* time on nothing interrupts it.
FairSpec ==
    /\ Spec
    /\ \A r \in Runners : WF_vars(Advance(r)) /\ WF_vars(Start(r))
    /\ <>[][\E r \in Runners : Start(r) \/ Advance(r)]_vars
=============================================================================

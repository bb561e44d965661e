-------------------------- MODULE EvolveRefinement --------------------------
(***************************************************************************)
(* evolve() with one process at a time and a checkpoint store implements   *)
(* Algorithm 1: a round happens when its entry is saved.  Everything       *)
(* before that save, the move of the head included, is preparation that a  *)
(* later call can take up again.                                           *)
(***************************************************************************)
EXTENDS EvolveLoop

\* The head moved for a round that has no entry yet.
Unrecorded == graphs # <<>> /\ graphs[Len(graphs)].iteration > Len(memory)

\* The graph chain as far as rejection memory accounts for it.
RecordedChain == IF Unrecorded THEN SubSeq(graphs, 1, Len(graphs) - 1) ELSE graphs

Alg == INSTANCE Algorithm1 WITH chain <- RecordedChain, rounds <- memory

\* However a call of evolve() is interrupted and resumed, what rejection memory and the
\* graph chain show is a run of Algorithm 1, "accept iff gate.decide(S_{k-1}, S_cand)"
\* (harness.py:15): no round is done twice, skipped or decided against another graph.
ImplementsAlgorithm1 == Alg!Spec

=============================================================================

--------------------------- MODULE MCEvolveBounded ---------------------------
(***************************************************************************)
(* Instances of EvolveLoop with several processes and at most MaxStops     *)
(* interruptions.  Nothing else is bounded that MCEvolveLoop does not      *)
(* bound.  Processes are interchangeable.                                  *)
(***************************************************************************)
EXTENDS MCEvolveLoop

CONSTANT MaxStops
VARIABLE stops

Symmetry == Permutations(Runners)

BoundedInit == Init /\ stops = 0

BoundedNext ==
    \/ /\ \E r \in Runners : Start(r) \/ Advance(r)
       /\ UNCHANGED stops
    \/ /\ stops < MaxStops
       /\ \E r \in Runners : Stop(r)
       /\ stops' = stops + 1

BoundedSpec == BoundedInit /\ [][BoundedNext]_<<vars, stops>>
=============================================================================

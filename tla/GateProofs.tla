------------------------------ MODULE GateProofs ------------------------------
(***************************************************************************)
(* The two gates, for any objectives, evaluations and draws: what they     *)
(* accept, what they reject for good, and that neither goes back on what   *)
(* it accepted.  At the end, the types of all stages of a round.           *)
(***************************************************************************)
EXTENDS PromptProofs

\* The numbers up to one are finitely many.
LEMMA CountsFinite == \A n \in Nat : IsFiniteSet(1 .. n)
  <1> TAKE n \in Nat
  <1>1. 1 \in Int /\ n \in Int
    OBVIOUS
  <1> QED
    BY <1>1, FS_Interval

USE ObjectiveAssumption

-----------------------------------------------------------------------------
(* ObjectiveGate.                                                          *)

Ranked == Gate!Optimized

\* What AcceptedAsRequired asks for, part by part.
Equal(i) == Gate!Pair(i) = "all" /\ Gate!Within(i) /\ ~ Gate!Improves(i) /\ Gate!High(i) >= 0

Better ==
    \E i \in Ranked :
        /\ Gate!Pair(i) = "all" /\ Gate!Improves(i)
        /\ \A j \in Ranked : j < i => Equal(j)

Gains ==
    /\ \A i \in Ranked : Gate!Pair(i) = "all" /\ Gate!Protects(i)
    /\ \E i \in Ranked : Gate!Improves(i)

Constraints == \A i \in Gate!Constrained : Gate!Proven(i)

Required ==
    /\ Gate!Usable
    /\ Constraints
    /\ \/ objective.mode = "lexicographic" /\ Better
       \/ objective.mode = "pareto" /\ Gains

\* The graph that was replaced lost to the one that replaced it: seen from its side.
Lost ==
    /\ Gate!Bound /\ Gate!Paired /\ objective.enough
    /\ \A i \in Gate!Constrained : Gate!Pair(i) = "all"
    /\ \/ /\ objective.mode = "lexicographic"
          /\ \E i \in Ranked :
               /\ Gate!Pair(i) = "all" /\ Gate!High(i) < 0
               /\ \A j \in Ranked : j < i => Gate!Pair(j) = "all" /\ Gate!Low(j) <= 0
       \/ /\ objective.mode = "pareto"
          /\ \A i \in Ranked : Gate!Pair(i) = "all" /\ Gate!High(i) <= objective.metrics[i].regression
          /\ \E i \in Ranked : Gate!High(i) < -objective.metrics[i].improvement

\* A verdict that may be given.
Fair(what, i) ==
    /\ what \in Gate!Dispositions /\ i \in Gate!Metrics \cup {None}
    /\ what = "accepted" <=> Required
    /\ what = "rejected" =>
          i \in Ranked /\ Gate!Pair(i) = "all" /\ (Gate!Constraint(i) = "violated" \/ Gate!High(i) < 0)
    /\ returned =>
          (objective.mode = "lexicographic" \/ Gate!Tolerant = {} =>
             what \in {"rejected", "unresolved", "invalid"})

Sides == {baseline, challenger}

Visited == Ranked \ left

GateInv ==
    /\ Gate!TypeOK
    /\ \A s \in Sides, i \in Gate!Metrics :
          s.of[i].seen \in {"all", "unknown", "unknown_first", "invalid"} /\ s.of[i].mean \in Int
    /\ check \in {"evidence", "constraints"} => improved = {} /\ regressed = {} /\ protected /\ equivalent
    /\ check \in {"constraints", "lexicographic", "pareto"} => Gate!Usable
    /\ check \in {"lexicographic", "pareto"} => check = objective.mode /\ Constraints
    /\ check = "lexicographic" => \A j \in Visited : Equal(j) /\ \A i \in left : j < i
    /\ check = "pareto" =>
          /\ \A j \in Visited : Gate!Pair(j) = "all"
          /\ improved = {j \in Visited : Gate!Improves(j)}
          /\ regressed = {j \in Visited : ~ Gate!Improves(j) /\ Gate!High(j) < -objective.metrics[j].regression}
          /\ protected <=> \A j \in Visited : Gate!Protects(j)
          /\ equivalent <=> \A j \in Visited : Gate!Within(j)
    /\ returned => Lost
    /\ check = "done" => Fair(disposition, decisive)

-----------------------------------------------------------------------------
\* The metrics and what is said of them.
LEMMA MetricFacts ==
    ASSUME GateInv
    PROVE  /\ Gate!Metrics \subseteq Nat /\ Ranked \subseteq Gate!Metrics
           /\ Gate!Constrained \subseteq Ranked
           /\ objective.mode \in {"lexicographic", "pareto"}
           /\ \A i \in Gate!Metrics :
                 /\ Gate!Pair(i) \in {"all", "unknown", "invalid"}
                 /\ objective.metrics[i].improvement \in Nat
                 /\ objective.metrics[i].equivalence \in Nat
                 /\ objective.metrics[i].regression \in Nat
                 /\ Gate!Delta(i) \in Int
  <1>1. objective \in Objectives
    BY DEF GateInv, Gate!TypeOK
  <1>2. Len(objective.metrics) \in Nat /\ objective.mode \in {"lexicographic", "pareto"}
    BY <1>1
  <1>3. Gate!Metrics \subseteq Nat
    BY <1>2 DEF Gate!Metrics
  <1>4. Ranked \subseteq Gate!Metrics /\ Gate!Constrained \subseteq Ranked
    BY DEF Ranked, Gate!Optimized, Gate!Constrained
  <1>5. ASSUME NEW i \in Gate!Metrics
        PROVE  /\ objective.metrics[i].improvement \in Nat
               /\ objective.metrics[i].equivalence \in Nat
               /\ objective.metrics[i].regression \in Nat
    BY <1>1, <1>5 DEF Gate!Metrics
  <1>6. ASSUME NEW i \in Gate!Metrics
        PROVE  Gate!Pair(i) \in {"all", "unknown", "invalid"} /\ Gate!Delta(i) \in Int
    <2>1. /\ baseline.of[i].seen \in {"all", "unknown", "unknown_first", "invalid"}
          /\ challenger.of[i].seen \in {"all", "unknown", "unknown_first", "invalid"}
          /\ baseline.of[i].mean \in Int /\ challenger.of[i].mean \in Int
      BY <1>6 DEF GateInv, Sides
    <2>2. Gate!Pair(i) \in {"all", "unknown", "invalid"}
      BY <2>1 DEF Gate!Pair
    <2>3. Gate!Delta(i) \in Int
      BY <2>1 DEF Gate!Delta
    <2> QED
      BY <2>2, <2>3
  <1> QED
    BY <1>2, <1>3, <1>4, <1>5, <1>6

\* The first of some metrics.
LEMMA FirstIsLeast ==
    ASSUME NEW is \in SUBSET Nat, is # {}
    PROVE  Gate!First(is) \in is /\ \A j \in is : Gate!First(is) <= j
  <1>1. \E x \in is : \A y \in is : ~ (<<y, x>> \in OpToRel(<, Nat))
    BY NatLessThanWellFounded, WFMin
  <1>2. PICK x \in is : \A y \in is : ~ (<<y, x>> \in OpToRel(<, Nat))
    BY <1>1
  <1>3. \A y \in is : ~ (y \in Nat /\ x \in Nat /\ y < x)
    BY <1>2, Zenon DEF OpToRel
  <1>4. \A y \in is : x <= y
    BY <1>3
  <1> QED
    BY <1>4 DEF Gate!First

\* What was given stays what it is, and so does what it says.
LEMMA GivenStays ==
    ASSUME UNCHANGED <<objective, baseline, challenger, returned>>
    PROVE  /\ Ranked' = Ranked /\ Gate!Metrics' = Gate!Metrics
           /\ Constraints' <=> Constraints
           /\ Gate!Usable' <=> Gate!Usable
           /\ Required' <=> Required
           /\ Lost' <=> Lost
           /\ Gate!Tolerant' = Gate!Tolerant
           /\ \A i : /\ Equal(i)' <=> Equal(i)
                     /\ (Gate!Pair(i))' = Gate!Pair(i) /\ (Gate!Improves(i))' = Gate!Improves(i)
                     /\ (Gate!High(i))' = Gate!High(i) /\ (Gate!Protects(i))' = Gate!Protects(i)
                     /\ (Gate!Within(i))' = Gate!Within(i) /\ (Gate!Constraint(i))' = Gate!Constraint(i)
  BY DEF Ranked, Constraints, Required, Lost, Better, Gains, Equal, Gate!Metrics, Gate!Usable, Gate!Tolerant, Gate!Pair,
         Gate!Improves, Gate!High, Gate!Protects, Gate!Within, Gate!Constraint, Gate!Optimized, Gate!Constrained,
         Gate!Proven, Gate!Bound, Gate!Paired, Gate!Low, Gate!Delta, Gate!Metric

\* A fair verdict ends it.
LEMMA FairEnds ==
    ASSUME GateInv, NEW what, NEW i, Gate!Finish(what, i), Fair(what, i)
    PROVE  GateInv'
  <1>1. /\ UNCHANGED <<objective, baseline, challenger, returned>>
        /\ UNCHANGED <<left, improved, regressed, protected, equivalent>>
        /\ disposition' = what /\ decisive' = i /\ check' = "done"
    BY DEF Gate!Finish, Gate!given, Gate!collected
  <1>2. (Fair(disposition, decisive))'
    BY <1>1, GivenStays DEF Fair, Gate!Dispositions
  <1>3. Gate!TypeOK'
    <2>1. what # None /\ what \in Gate!Dispositions
      BY NoneAssumption DEF Fair, Gate!Dispositions
    <2> QED
      BY <1>1, <2>1, GivenStays DEF GateInv, Gate!TypeOK, Fair, Ranked
  <1>4. (\A s \in Sides, j \in Gate!Metrics :
          s.of[j].seen \in {"all", "unknown", "unknown_first", "invalid"} /\ s.of[j].mean \in Int)'
    BY <1>1, GivenStays DEF GateInv, Sides
  <1> QED
    BY <1>1, <1>2, <1>3, <1>4, GivenStays DEF GateInv

\* The two ends of the interval of a difference.
LEMMA Ends ==
    ASSUME GateInv, NEW i \in Gate!Metrics
    PROVE  /\ Gate!Low(i) \in Int /\ Gate!High(i) \in Int
           /\ Gate!Low(i) <= Gate!High(i)
           /\ Gate!Improves(i) <=> Gate!Low(i) > objective.metrics[i].improvement
           /\ Gate!Protects(i) <=> Gate!Low(i) >= -objective.metrics[i].regression
           /\ Gate!Within(i) <=> /\ -objective.metrics[i].equivalence <= Gate!Low(i)
                                 /\ Gate!High(i) <= objective.metrics[i].equivalence
  <1>1. Gate!Delta(i) \in Int /\ Radius \in Nat
    BY MetricFacts
  <1>2. /\ Gate!Low(i) \in Int /\ Gate!High(i) \in Int
        /\ Gate!Low(i) <= Gate!High(i)
    BY <1>1 DEF Gate!Low, Gate!High
  <1> QED
    BY <1>2 DEF Gate!Improves, Gate!Protects, Gate!Within, Gate!Metric

\* Metrics are finitely many.
LEMMA TolerantFinite ==
    ASSUME GateInv
    PROVE  /\ IsFiniteSet(Gate!Tolerant)
           /\ Gate!Cardinality(Gate!Tolerant) = Cardinality(Gate!Tolerant)
           /\ \A i \in Ranked : i \in Gate!Tolerant <=>
                 objective.metrics[i].regression > objective.metrics[i].improvement
  <1>1. Gate!Tolerant \subseteq 1 .. Len(objective.metrics) /\ Len(objective.metrics) \in Nat
    BY DEF Gate!Tolerant, Gate!Optimized, Gate!Metrics, GateInv, Gate!TypeOK
  <1>2. IsFiniteSet(Gate!Tolerant)
    <2>1. \A n \in Nat : IsFiniteSet(1 .. n)
      BY CountsFinite
    <2>2. IsFiniteSet(1 .. Len(objective.metrics))
      BY <1>1, <2>1
    <2> QED
      BY <1>1, <2>2, FS_Subset
  <1>3. Gate!Cardinality(Gate!Tolerant) = Cardinality(Gate!Tolerant)
    BY DEF Gate!Cardinality, Cardinality, Gate!IsFiniteSet, IsFiniteSet
  <1> QED
    BY <1>2, <1>3 DEF Gate!Tolerant, Gate!Metric, Ranked

\* Over its own replacement no graph is accepted, unless two metrics trade places.
LEMMA LostIsRefused ==
    ASSUME GateInv, Lost, Required
    PROVE  /\ objective.mode = "pareto"
           /\ \E i, j \in Gate!Tolerant : i # j
  <1>1. Ranked \subseteq Gate!Metrics /\ Ranked \subseteq Nat
    BY MetricFacts
  <1>2. CASE objective.mode = "lexicographic"
    <2>1. PICK i \in Ranked :
             /\ Gate!High(i) < 0
             /\ \A j \in Ranked : j < i => Gate!Low(j) <= 0
      BY <1>2 DEF Lost
    <2>2. PICK k \in Ranked : /\ Gate!Improves(k)
                              /\ \A j \in Ranked : j < k => Equal(j)
      BY <1>2 DEF Required, Better
    <2>3. Gate!Low(k) > 0 /\ Gate!Low(k) <= Gate!High(k) /\ Gate!High(k) \in Int /\ Gate!Low(k) \in Int
      <3>1. k \in Gate!Metrics /\ objective.metrics[k].improvement \in Nat
        BY <1>1, MetricFacts
      <3>2. /\ Gate!Low(k) \in Int /\ Gate!High(k) \in Int /\ Gate!Low(k) <= Gate!High(k)
            /\ Gate!Low(k) > objective.metrics[k].improvement
        BY <2>2, <3>1, Ends
      <3> QED
        BY <3>1, <3>2
    <2>4. ~ k < i
      BY <2>1, <2>3
    <2>5. k # i
      BY <2>1, <2>3
    <2>6. ~ i < k
      BY <1>1, <2>1, <2>2, Ends DEF Equal
    <2> QED
      BY <1>1, <2>4, <2>5, <2>6
  <1>3. CASE objective.mode = "pareto"
    <2> DEFINE m(i) == objective.metrics[i]
    <2>1. PICK i \in Ranked : Gate!High(i) < -m(i).improvement
      BY <1>3 DEF Lost
    <2>2. PICK j \in Ranked : Gate!Improves(j)
      BY <1>3 DEF Required, Gains
    <2>3. Gate!Protects(i) /\ Gate!High(j) <= m(j).regression
      BY <1>3 DEF Required, Gains, Lost
    <2>4. /\ Gate!Low(i) >= -m(i).regression /\ Gate!Low(i) <= Gate!High(i)
          /\ Gate!Low(i) \in Int /\ Gate!High(i) \in Int
          /\ m(i).regression \in Nat /\ m(i).improvement \in Nat
      BY <1>1, <2>3, Ends, MetricFacts
    <2>5. /\ Gate!Low(j) > m(j).improvement /\ Gate!Low(j) <= Gate!High(j)
          /\ Gate!Low(j) \in Int /\ Gate!High(j) \in Int
          /\ m(j).regression \in Nat /\ m(j).improvement \in Nat
      BY <1>1, <2>2, Ends, MetricFacts
    <2> HIDE DEF m
    <2>6. m(i).regression > m(i).improvement /\ m(j).regression > m(j).improvement
      <3>1. m(i).regression > m(i).improvement
        BY <2>1, <2>4
      <3>2. m(j).regression > m(j).improvement
        BY <2>3, <2>5
      <3> QED
        BY <3>1, <3>2
    <2>7. i # j
      BY <2>1, <2>4, <2>5
    <2> QED
      BY <1>3, <2>6, <2>7, TolerantFinite DEF m
  <1> QED
    BY <1>2, <1>3, MetricFacts

-----------------------------------------------------------------------------
\* Before the first check nothing is left out and nothing is decided.
LEMMA InitGate == Gate!Init => GateInv
  <1> SUFFICES ASSUME Gate!Init PROVE GateInv
    OBVIOUS
  <1>1. objective \in Objectives /\ Len(objective.metrics) \in Nat
    BY DEF Gate!Init
  <1>2. Gate!Blank.seen = "all" /\ Gate!Blank.mean \in Int
    <2>1. PICK m \in Means : \A n \in Means : m <= n
      OBVIOUS
    <2>2. Gate!First(Means) \in Means
      BY <2>1 DEF Gate!First
    <2> QED
      BY <2>2 DEF Gate!Blank
  <1>3. ASSUME NEW s \in Gate!Evaluations(Len(objective.metrics)), NEW i \in Gate!Metrics
        PROVE  s.of[i].seen \in {"all", "unknown", "unknown_first", "invalid"} /\ s.of[i].mean \in Int
    <2>1. i \in 1 .. Len(objective.metrics)
      BY <1>3 DEF Gate!Metrics
    <2>2. CASE s \in [bound : {TRUE}, tasks : {"expected"}, of : [1 .. Len(objective.metrics) -> Gate!Observation]]
      <3> DEFINE o == s.of[i]
      <3>1. o \in Gate!Observation
        BY <2>1, <2>2
      <3> HIDE DEF o
      <3>2. CASE o \in [seen : {"all"}, mean : Means]
        BY <3>2 DEF o
      <3>3. CASE o \in [seen : {"unknown", "unknown_first", "invalid"}, mean : {0}]
        BY <3>3 DEF o
      <3> QED
        BY <3>1, <3>2, <3>3 DEF Gate!Observation
    <2>3. CASE s \in [bound : BOOLEAN, tasks : Gate!Tasks, of : {[k \in 1 .. Len(objective.metrics) |-> Gate!Blank]}]
      <3>1. s.of[i] = Gate!Blank
        BY <2>1, <2>3
      <3> QED
        BY <1>2, <3>1
    <2> QED
      BY <1>3, <2>2, <2>3 DEF Gate!Evaluations
  <1>4. \A s \in Sides, i \in Gate!Metrics :
          s.of[i].seen \in {"all", "unknown", "unknown_first", "invalid"} /\ s.of[i].mean \in Int
    BY <1>3 DEF Gate!Init, Sides
  <1>5. Gate!TypeOK
    BY NoneAssumption DEF Gate!Init, Gate!TypeOK
  <1> QED
    BY <1>4, <1>5 DEF Gate!Init, GateInv

\* A comparison that was not made, or that ended before the constraints, is no acceptance.
LEMMA RefuseFair == ASSUME GateInv, Gate!Refuse PROVE GateInv'
  <1> DEFINE what == IF Gate!Bound /\ Gate!Deferred THEN "unmeasured" ELSE "invalid"
  <1>1. Gate!Finish(what, None)
    BY DEF Gate!Refuse
  <1>2. ~ Gate!Bound \/ ~ Gate!Paired
    BY DEF Gate!Refuse
  <1>3. ~ Required /\ ~ Lost
    BY <1>2 DEF Required, Gate!Usable, Lost
  <1>4. Fair(what, None)
    BY <1>3 DEF Fair, Gate!Dispositions, GateInv
  <1> QED
    BY <1>1, <1>4, FairEnds

\* The first check rejects nothing: it ends with "invalid" or "unresolved", or goes on.
LEMMA ObserveFair == ASSUME GateInv, Gate!Observe PROVE GateInv'
  <1> DEFINE invalid == {i \in Gate!Metrics : Gate!Pair(i) = "invalid"}
  <1>0. invalid \in SUBSET Nat /\ invalid \subseteq Gate!Metrics
    BY MetricFacts
  <1>1. CASE invalid # {} /\ Gate!Finish("invalid", Gate!First(invalid))
    <2>1. Gate!First(invalid) \in invalid
      BY <1>0, <1>1, FirstIsLeast
    <2>2. ~ Required
      BY <1>1 DEF Required, Gate!Usable
    <2>3. Fair("invalid", Gate!First(invalid))
      BY <1>0, <2>1, <2>2 DEF Fair, Gate!Dispositions
    <2> QED
      BY <1>1, <2>3, FairEnds
  <1>2. CASE ~ objective.enough /\ Gate!Finish("unresolved", None)
    <2>1. ~ Required
      BY <1>2 DEF Required, Gate!Usable
    <2>2. Fair("unresolved", None)
      BY <2>1 DEF Fair, Gate!Dispositions
    <2> QED
      BY <1>2, <2>2, FairEnds
  <1>3. CASE /\ invalid = {} /\ objective.enough /\ check' = "constraints"
             /\ UNCHANGED <<Gate!given, left, Gate!collected, disposition, decisive>>
    <2>1. UNCHANGED <<objective, baseline, challenger, returned, left, improved, regressed, protected,
                      equivalent, disposition, decisive>>
      BY <1>3 DEF Gate!given, Gate!collected
    <2>2. Gate!Usable
      BY <1>3 DEF Gate!Observe, Gate!Usable
    <2>3. check = "evidence"
      BY DEF Gate!Observe
    <2>4. Gate!TypeOK'
      BY <1>3, <2>1, <2>3, GivenStays DEF GateInv, Gate!TypeOK, Ranked
    <2>5. (\A s \in Sides, j \in Gate!Metrics :
            s.of[j].seen \in {"all", "unknown", "unknown_first", "invalid"} /\ s.of[j].mean \in Int)'
      BY <2>1, GivenStays DEF GateInv, Sides
    <2>6. improved' = {} /\ regressed' = {} /\ protected' /\ equivalent'
      BY <2>1, <2>3 DEF GateInv
    <2>7. (returned => Lost)'
      BY <2>1, GivenStays DEF GateInv
    <2> QED
      BY <1>3, <2>2, <2>4, <2>5, <2>6, <2>7, <2>1, GivenStays DEF GateInv
  <1> QED
    BY <1>1, <1>2, <1>3 DEF Gate!Observe

\* Values that are known, or no number.
LEMMA KnownOrNot ==
    ASSUME GateInv, Gate!Usable
    PROVE  \A i \in Gate!Metrics : Gate!Pair(i) # "unknown" => Gate!Pair(i) = "all"
  BY MetricFacts DEF Gate!Usable

\* What stays as it is when a check is passed.
LEMMA Passes ==
    ASSUME GateInv, UNCHANGED <<objective, baseline, challenger, returned, disposition, decisive>>
    PROVE  /\ (\A s \in Sides, j \in Gate!Metrics :
                  s.of[j].seen \in {"all", "unknown", "unknown_first", "invalid"} /\ s.of[j].mean \in Int)'
           /\ (returned => Lost)'
  BY GivenStays DEF GateInv, Sides

\* Floors and ceilings: a rejection names a metric that is proven to violate its own.
LEMMA ConstrainFair == ASSUME GateInv, Gate!Constrain PROVE GateInv'
  <1> DEFINE constrained == {i \in Ranked : Gate!Metric(i).floor # None \/ Gate!Metric(i).ceiling # None}
             unmeasured == {i \in constrained : Gate!Pair(i) = "unknown"}
             status(s) == {i \in constrained \ unmeasured : Gate!Constraint(i) = s}
  <1>0. /\ constrained = Gate!Constrained
        /\ constrained \subseteq Ranked /\ Ranked \subseteq Gate!Metrics /\ Gate!Metrics \subseteq Nat
    BY MetricFacts DEF Ranked, Gate!Constrained
  <1>1. check = "constraints" /\ Gate!Usable
    BY DEF Gate!Constrain, GateInv
  <1>2. \A i \in constrained \ unmeasured : Gate!Pair(i) = "all"
    BY <1>0, <1>1, KnownOrNot
  <1>3. CASE status("violated") # {} /\ Gate!Finish("rejected", Gate!First(status("violated")))
    <2> DEFINE i == Gate!First(status("violated"))
    <2>1. status("violated") \in SUBSET Nat
      BY <1>0
    <2>2. i \in status("violated")
      BY <1>3, <2>1, FirstIsLeast
    <2>3. i \in Gate!Constrained /\ i \in Ranked /\ i \in Gate!Metrics /\ Gate!Pair(i) = "all" /\ Gate!Constraint(i) = "violated"
      BY <1>0, <1>2, <2>2
    <2> HIDE DEF i
    <2>4. ~ Required
      BY <2>3 DEF Required, Constraints, Gate!Proven
    <2>5. Fair("rejected", i)
      BY <2>3, <2>4 DEF Fair, Gate!Dispositions
    <2> QED
      BY <1>3, <2>5, FairEnds DEF i
  <1>4. CASE unmeasured # {} /\ Gate!Finish("unmeasured", Gate!First(unmeasured))
    <2> DEFINE i == Gate!First(unmeasured)
    <2>1. unmeasured \in SUBSET Nat
      BY <1>0
    <2>2. i \in unmeasured
      BY <1>4, <2>1, FirstIsLeast
    <2>3. i \in Gate!Constrained /\ i \in Gate!Metrics /\ Gate!Pair(i) = "unknown"
      BY <1>0, <2>2
    <2> HIDE DEF i
    <2>4. ~ Required /\ ~ Lost
      BY <2>3 DEF Required, Constraints, Gate!Proven, Lost
    <2>5. Fair("unmeasured", i)
      BY <2>3, <2>4 DEF Fair, Gate!Dispositions, GateInv
    <2> QED
      BY <1>4, <2>5, FairEnds DEF i
  <1>5. CASE status("unresolved") # {} /\ Gate!Finish("unresolved", Gate!First(status("unresolved")))
    <2> DEFINE i == Gate!First(status("unresolved"))
    <2>1. status("unresolved") \in SUBSET Nat
      BY <1>0
    <2>2. i \in status("unresolved")
      BY <1>5, <2>1, FirstIsLeast
    <2>3. i \in Gate!Constrained /\ i \in Gate!Metrics /\ Gate!Constraint(i) = "unresolved"
      BY <1>0, <2>2
    <2> HIDE DEF i
    <2>4. ~ Required
      BY <2>3 DEF Required, Constraints, Gate!Proven
    <2>5. Fair("unresolved", i)
      BY <2>3, <2>4 DEF Fair, Gate!Dispositions
    <2> QED
      BY <1>5, <2>5, FairEnds DEF i
  <1>6. CASE /\ status("violated") = {} /\ unmeasured = {} /\ status("unresolved") = {}
             /\ check' = objective.mode /\ left' = Gate!Optimized
             /\ UNCHANGED <<Gate!given, Gate!collected, disposition, decisive>>
    <2>1. UNCHANGED <<objective, baseline, challenger, returned, improved, regressed, protected,
                      equivalent, disposition, decisive>>
      BY <1>6 DEF Gate!given, Gate!collected
    <2>2. Constraints
      <3> SUFFICES ASSUME NEW i \in constrained PROVE Gate!Proven(i)
        BY <1>0 DEF Constraints
      <3>1. Gate!Constraint(i) # "violated" /\ Gate!Constraint(i) # "unresolved" /\ i \notin unmeasured
        BY <1>6
      <3>2. Gate!Constraint(i) \in {"violated", "unresolved", "pass"}
        BY DEF Gate!Constraint
      <3> QED
        BY <1>2, <3>1, <3>2 DEF Gate!Proven
    <2>3. objective.mode \in {"lexicographic", "pareto"}
      BY MetricFacts
    <2>4. Visited' = {}
      BY <1>6, <2>1, GivenStays DEF Visited, Ranked
    <2>5. improved = {} /\ regressed = {} /\ protected /\ equivalent
      BY <1>1 DEF GateInv
    <2>6. Gate!TypeOK'
      BY <1>1, <1>6, <2>1, <2>3, GivenStays DEF GateInv, Gate!TypeOK, Ranked
    <2> HIDE DEF status, unmeasured, constrained
    <2> QED
      BY <1>1, <1>6, <2>1, <2>2, <2>3, <2>4, <2>5, <2>6, Passes, GivenStays DEF GateInv
  <1> HIDE DEF status, unmeasured, constrained
  <1> QED
    BY <1>3, <1>4, <1>5, <1>6 DEF Gate!Constrain, status, unmeasured, constrained, Ranked

\* Whether a metric that is known is better or not depends on it and on those before.
LEMMA LexicographicFair == ASSUME GateInv, Gate!Lexicographic PROVE GateInv'
  <1> DEFINE i == Gate!First(left)
  <1>0. /\ check = "lexicographic" /\ objective.mode = "lexicographic"
        /\ Gate!Usable /\ Constraints /\ left \subseteq Ranked
        /\ \A j \in Visited : Equal(j) /\ \A k \in left : j < k
    BY DEF Gate!Lexicographic, GateInv, Gate!TypeOK, Ranked
  <1>a. Ranked \subseteq Gate!Metrics /\ Gate!Metrics \subseteq Nat
    BY MetricFacts
  <1>b. left # {} => i \in left /\ \A j \in left : i <= j /\ (j = i \/ i < j)
    <2> SUFFICES ASSUME left # {} PROVE i \in left /\ \A j \in left : i <= j /\ (j = i \/ i < j)
      OBVIOUS
    <2>1. i \in left /\ \A j \in left : i <= j
      BY <1>0, <1>a, FirstIsLeast
    <2> HIDE DEF i
    <2>2. ASSUME NEW j \in left PROVE j = i \/ i < j
      <3>1. i \in Nat /\ j \in Nat
        BY <1>0, <1>a, <2>1
      <3> QED
        BY <2>1, <3>1
    <2> QED
      BY <2>1, <2>2
  <1> HIDE DEF i
  <1>c. left # {} => /\ i \in Ranked /\ i \in Gate!Metrics
                     /\ \A j \in Ranked : j < i => j \in Visited
    <2> SUFFICES ASSUME left # {} PROVE /\ i \in Ranked /\ i \in Gate!Metrics
                                       /\ \A j \in Ranked : j < i => j \in Visited
      OBVIOUS
    <2>1. i \in Ranked /\ i \in Gate!Metrics
      BY <1>0, <1>a, <1>b
    <2>2. ASSUME NEW j \in Ranked, j < i PROVE j \notin left
      <3>1. i \in Nat /\ j \in Nat
        BY <1>a, <2>1
      <3> QED
        BY <1>b, <2>2, <3>1
    <2> QED
      BY <2>1, <2>2 DEF Visited
  <1>d. returned => \E k \in left : Gate!Pair(k) = "all" /\ Gate!High(k) < 0 /\ i <= k
    <2> SUFFICES ASSUME Lost PROVE \E k \in left : Gate!Pair(k) = "all" /\ Gate!High(k) < 0 /\ i <= k
      BY DEF GateInv
    <2>1. PICK k \in Ranked : Gate!Pair(k) = "all" /\ Gate!High(k) < 0
      BY <1>0 DEF Lost
    <2>2. Gate!High(k) \in Int
      BY <1>a, Ends
    <2>3. k \notin Visited
      BY <1>0, <2>1, <2>2 DEF Equal
    <2> QED
      BY <1>b, <2>1, <2>3 DEF Visited
  \* Where the first metric left is not an improvement and not passed over, none is.
  <1>e. ASSUME left # {}, ~ (Gate!Pair(i) = "all" /\ Gate!Improves(i)), ~ Equal(i) PROVE ~ Required
    <2> SUFFICES ASSUME Better PROVE FALSE
      BY <1>0 DEF Required
    <2>1. PICK k \in Ranked : /\ Gate!Pair(k) = "all" /\ Gate!Improves(k)
                              /\ \A j \in Ranked : j < k => Equal(j)
      BY DEF Better
    <2>2. ~ i < k
      BY <1>c, <1>e, <2>1
    <2>3. k # i
      BY <1>e, <2>1
    <2>4. ~ k < i
      BY <1>0, <1>c, <1>e, <2>1 DEF Equal
    <2>5. k \in Nat /\ i \in Nat
      BY <1>a, <1>c, <1>e
    <2> QED
      BY <2>2, <2>3, <2>4, <2>5
  <1>1. CASE left = {} /\ Gate!Finish("equivalent", None)
    <2>1. ~ Required
      <3> SUFFICES ASSUME Better PROVE FALSE
        BY <1>0 DEF Required
      <3> QED
        BY <1>0, <1>1 DEF Better, Equal, Visited
    <2>2. ~ returned
      BY <1>1, <1>d
    <2>3. Fair("equivalent", None)
      BY <2>1, <2>2 DEF Fair, Gate!Dispositions
    <2> QED
      BY <1>1, <2>3, FairEnds
  <1>2. CASE left # {} /\ Gate!Pair(i) = "unknown" /\ Gate!Finish("unmeasured", i)
    <2>1. ~ Required
      BY <1>2, <1>e DEF Equal
    <2>2. ~ returned
      <3> SUFFICES ASSUME Lost PROVE FALSE
        BY DEF GateInv
      <3>1. PICK k \in Ranked : /\ Gate!Pair(k) = "all" /\ Gate!High(k) < 0
                                /\ \A j \in Ranked : j < k => Gate!Pair(j) = "all"
        BY <1>0 DEF Lost
      <3>2. Gate!High(k) \in Int
        BY <1>a, Ends
      <3>3. k \in left
        BY <1>0, <3>1, <3>2 DEF Equal, Visited
      <3>4. k = i \/ i < k
        BY <1>2, <1>b, <3>3
      <3> QED
        BY <1>2, <1>c, <3>1, <3>4
    <2>3. Fair("unmeasured", i)
      BY <1>2, <1>c, <2>1, <2>2 DEF Fair, Gate!Dispositions
    <2> QED
      BY <1>2, <2>3, FairEnds
  <1>3. CASE left # {} /\ Gate!Pair(i) = "all" /\ Gate!Improves(i) /\ Gate!Finish("accepted", i)
    <2>1. Better
      BY <1>0, <1>3, <1>c DEF Better
    <2>2. Required
      BY <1>0, <2>1 DEF Required
    <2>3. ~ returned
      <3>1. ~ Lost
        BY <1>0, <2>2, LostIsRefused
      <3> QED
        BY <3>1 DEF GateInv
    <2>4. Fair("accepted", i)
      BY <1>3, <1>c, <2>2, <2>3 DEF Fair, Gate!Dispositions
    <2> QED
      BY <1>3, <2>4, FairEnds
  <1>4. CASE left # {} /\ Gate!Pair(i) = "all" /\ ~ Gate!Improves(i) /\ Gate!High(i) < 0 /\ Gate!Finish("rejected", i)
    <2>1. Gate!High(i) \in Int
      BY <1>4, <1>c, Ends
    <2>2. ~ Required
      BY <1>4, <1>e, <2>1 DEF Equal
    <2>3. Fair("rejected", i)
      BY <1>4, <1>c, <2>2 DEF Fair, Gate!Dispositions
    <2> QED
      BY <1>4, <2>3, FairEnds
  <1>5. CASE left # {} /\ ~ Gate!Improves(i) /\ ~ Gate!Within(i) /\ Gate!Finish("unresolved", i)
    <2>1. ~ Required
      BY <1>5, <1>e DEF Equal
    <2>2. Fair("unresolved", i)
      BY <1>5, <1>c, <2>1 DEF Fair, Gate!Dispositions
    <2> QED
      BY <1>5, <2>2, FairEnds
  <1>6. CASE /\ left # {} /\ Gate!Pair(i) = "all" /\ ~ Gate!Improves(i) /\ Gate!High(i) >= 0
             /\ Gate!Within(i) /\ left' = left \ {i}
             /\ UNCHANGED <<Gate!given, check, Gate!collected, disposition, decisive>>
    <2>1. UNCHANGED <<objective, baseline, challenger, returned, check, improved, regressed, protected,
                      equivalent, disposition, decisive>>
      BY <1>6 DEF Gate!given, Gate!collected
    <2>2. Equal(i)
      BY <1>6 DEF Equal
    <2>3. Visited' = Visited \cup {i}
      BY <1>6, <1>c, <2>1, GivenStays DEF Visited
    <2>4. \A j \in Visited \cup {i} : Equal(j) /\ \A k \in left \ {i} : j < k
      <3>1. \A k \in left \ {i} : i < k
        BY <1>6, <1>b
      <3> QED
        BY <1>0, <2>2, <3>1
    <2>5. (\A j \in Visited : Equal(j) /\ \A k \in left : j < k)'
      BY <1>6, <2>1, <2>3, <2>4, GivenStays
    <2>6. Gate!TypeOK'
      BY <1>0, <1>6, <2>1, GivenStays DEF GateInv, Gate!TypeOK, Ranked
    <2> QED
      BY <1>0, <2>1, <2>5, <2>6, Passes, GivenStays DEF GateInv
  <1> QED
    BY <1>1, <1>2, <1>3, <1>4, <1>5, <1>6 DEF Gate!Lexicographic, i

\* One metric looked at in Pareto order.
LEMMA ParetoFair == ASSUME GateInv, Gate!Pareto PROVE GateInv'
  <1> DEFINE i == Gate!First(left)
             m == objective.metrics
  <1>0. /\ check = "pareto" /\ objective.mode = "pareto" /\ left # {}
        /\ Gate!Usable /\ Constraints /\ left \subseteq Ranked
        /\ \A j \in Visited : Gate!Pair(j) = "all"
        /\ improved = {j \in Visited : Gate!Improves(j)}
        /\ regressed = {j \in Visited : ~ Gate!Improves(j) /\ Gate!High(j) < -m[j].regression}
        /\ protected <=> \A j \in Visited : Gate!Protects(j)
        /\ equivalent <=> \A j \in Visited : Gate!Within(j)
    BY DEF Gate!Pareto, GateInv, Gate!TypeOK, Ranked
  <1>a. Ranked \subseteq Gate!Metrics /\ Gate!Metrics \subseteq Nat
    BY MetricFacts
  <1>b. i \in left /\ i \in Ranked
    BY <1>0, <1>a, FirstIsLeast
  <1> HIDE DEF i
  <1>1. CASE Gate!Pair(i) = "unknown" /\ Gate!Finish("unmeasured", i)
    <2>1. ~ Required /\ ~ Lost
      BY <1>0, <1>1, <1>b DEF Required, Gains, Lost
    <2>2. Fair("unmeasured", i)
      BY <1>a, <1>b, <2>1 DEF Fair, Gate!Dispositions, GateInv
    <2> QED
      BY <1>1, <2>2, FairEnds
  <1>2. CASE /\ Gate!Pair(i) = "all"
             /\ left' = left \ {i}
             /\ improved' = IF Gate!Improves(i) THEN improved \cup {i} ELSE improved
             /\ regressed' = IF ~ Gate!Improves(i) /\ Gate!High(i) < -Gate!Metric(i).regression
                             THEN regressed \cup {i} ELSE regressed
             /\ protected' = (protected /\ Gate!Protects(i))
             /\ equivalent' = (equivalent /\ Gate!Within(i))
             /\ UNCHANGED <<Gate!given, check, disposition, decisive>>
    <2>1. UNCHANGED <<objective, baseline, challenger, returned, check, disposition, decisive>>
      BY <1>2 DEF Gate!given
    <2>2. Visited' = Visited \cup {i} /\ i \notin Visited
      BY <1>2, <1>b, <2>1, GivenStays DEF Visited
    <2>3. \A j \in Visited \cup {i} : Gate!Pair(j) = "all"
      BY <1>0, <1>2
    <2>4. improved' = {j \in Visited \cup {i} : Gate!Improves(j)}
      BY <1>0, <1>2
    <2>5. regressed' = {j \in Visited \cup {i} : ~ Gate!Improves(j) /\ Gate!High(j) < -m[j].regression}
      BY <1>0, <1>2 DEF Gate!Metric
    <2>6. protected' <=> \A j \in Visited \cup {i} : Gate!Protects(j)
      BY <1>0, <1>2
    <2>7. equivalent' <=> \A j \in Visited \cup {i} : Gate!Within(j)
      BY <1>0, <1>2
    <2>8. /\ (\A j \in Visited : Gate!Pair(j) = "all")'
          /\ (improved = {j \in Visited : Gate!Improves(j)})'
          /\ (regressed = {j \in Visited : ~ Gate!Improves(j) /\ Gate!High(j) < -m[j].regression})'
          /\ (protected <=> \A j \in Visited : Gate!Protects(j))'
          /\ (equivalent <=> \A j \in Visited : Gate!Within(j))'
      BY <2>1, <2>2, <2>3, <2>4, <2>5, <2>6, <2>7, GivenStays
    <2>9. Gate!TypeOK'
      <3>1. left' \subseteq Ranked /\ improved' \subseteq Ranked /\ regressed' \subseteq Ranked
        BY <1>0, <1>2, <1>b, <2>4, <2>5 DEF Visited
      <3>2. {protected', equivalent'} \subseteq BOOLEAN
        BY <1>2, Zenon
      <3> QED
        BY <2>1, <3>1, <3>2, GivenStays DEF GateInv, Gate!TypeOK, Ranked
    <2> QED
      BY <1>0, <2>1, <2>8, <2>9, Passes, GivenStays DEF GateInv
  <1> QED
    BY <1>1, <1>2 DEF Gate!Pareto, i

\* The verdict of Pareto order, when every metric has been looked at.
LEMMA JudgeFair == ASSUME GateInv, Gate!Judge PROVE GateInv'
  <1> DEFINE m == objective.metrics
  <1>0. /\ objective.mode = "pareto" /\ Visited = Ranked
        /\ Gate!Usable /\ Constraints
        /\ \A j \in Ranked : Gate!Pair(j) = "all"
        /\ improved = {j \in Ranked : Gate!Improves(j)}
        /\ regressed = {j \in Ranked : ~ Gate!Improves(j) /\ Gate!High(j) < -m[j].regression}
        /\ protected <=> \A j \in Ranked : Gate!Protects(j)
        /\ equivalent <=> \A j \in Ranked : Gate!Within(j)
    BY DEF Gate!Judge, GateInv, Visited
  <1>a. Ranked \subseteq Gate!Metrics /\ Gate!Metrics \subseteq Nat /\ regressed \in SUBSET Nat /\ improved \in SUBSET Nat
    BY <1>0, MetricFacts
  <1>b. Required <=> improved # {} /\ protected
    BY <1>0 DEF Required, Gains
  <1>1. CASE improved # {} /\ protected /\ Gate!Finish("accepted", Gate!First(improved))
    <2> DEFINE i == Gate!First(improved)
    <2>1. i \in Gate!Metrics
      BY <1>0, <1>1, <1>a, FirstIsLeast
    <2> HIDE DEF i
    <2>2. returned => Gate!Tolerant # {}
      BY <1>1, <1>b, LostIsRefused DEF GateInv
    <2>3. Fair("accepted", i)
      BY <1>0, <1>1, <1>b, <2>1, <2>2 DEF Fair, Gate!Dispositions
    <2> QED
      BY <1>1, <2>3, FairEnds DEF i
  <1>2. CASE (improved = {} \/ ~ protected) /\ regressed # {} /\ Gate!Finish("rejected", Gate!First(regressed))
    <2> DEFINE i == Gate!First(regressed)
    <2>1. i \in regressed
      BY <1>2, <1>a, FirstIsLeast
    <2> HIDE DEF i
    <2>2. i \in Ranked /\ i \in Gate!Metrics /\ Gate!Pair(i) = "all" /\ Gate!High(i) < -m[i].regression
      BY <1>0, <1>a, <2>1
    <2>3. Gate!High(i) < 0
      BY <2>2, MetricFacts, Ends
    <2>4. Fair("rejected", i)
      BY <1>2, <1>b, <2>2, <2>3 DEF Fair, Gate!Dispositions
    <2> QED
      BY <1>2, <2>4, FairEnds DEF i
  <1>3. CASE /\ improved = {} \/ ~ protected
             /\ regressed = {}
             /\ Gate!Finish(IF equivalent THEN "equivalent" ELSE "unresolved", None)
    <2> DEFINE what == IF equivalent THEN "equivalent" ELSE "unresolved"
    <2>1. returned => Gate!Tolerant # {}
      <3> SUFFICES ASSUME Lost, Gate!Tolerant = {} PROVE FALSE
        BY DEF GateInv
      <3>1. PICK i \in Ranked : Gate!High(i) < -m[i].improvement
        BY <1>0 DEF Lost
      <3>2. /\ Gate!High(i) \in Int /\ Gate!Low(i) \in Int /\ Gate!Low(i) <= Gate!High(i)
            /\ m[i].improvement \in Nat /\ m[i].regression \in Nat
            /\ Gate!Improves(i) <=> Gate!Low(i) > m[i].improvement
        BY <1>a, Ends, MetricFacts
      <3>3. ~ m[i].regression > m[i].improvement
        BY TolerantFinite
      <3> HIDE DEF m
      <3>4. ~ Gate!Improves(i) /\ Gate!High(i) < -m[i].regression
        BY <3>1, <3>2, <3>3
      <3> QED
        BY <1>0, <1>3, <3>4
    <2>2. what \in Gate!Dispositions /\ what \notin {"accepted", "rejected"}
      BY DEF Gate!Dispositions
    <2> HIDE DEF what
    <2>3. Fair(what, None)
      BY <1>0, <1>3, <1>b, <2>1, <2>2 DEF Fair
    <2> QED
      BY <1>3, <2>3, FairEnds DEF what
  <1> QED
    BY <1>1, <1>2, <1>3 DEF Gate!Judge

\* Seen from the other side a gain is a loss.
LEMMA ProposeBackFair == ASSUME GateInv, Gate!ProposeBack PROVE GateInv'
  <1> DEFINE m == objective.metrics
  <1>0. /\ baseline' = challenger /\ challenger' = baseline /\ objective' = objective
        /\ returned' = TRUE /\ check' = "evidence" /\ left' = {} /\ improved' = {} /\ regressed' = {}
        /\ protected' = TRUE /\ equivalent' = TRUE /\ disposition' = None /\ decisive' = None
        /\ check = "done" /\ disposition = "accepted"
    BY DEF Gate!ProposeBack
  <1>1. Required
    BY <1>0 DEF GateInv, Fair
  <1>2. Ranked \subseteq Gate!Metrics /\ Gate!Constrained \subseteq Ranked
    BY MetricFacts
  <1>3. /\ Ranked' = Ranked /\ Gate!Metrics' = Gate!Metrics /\ Gate!Constrained' = Gate!Constrained
        /\ Gate!Bound' <=> Gate!Bound
        /\ Gate!Paired' <=> Gate!Paired
    BY <1>0 DEF Ranked, Gate!Optimized, Gate!Constrained, Gate!Metrics, Gate!Metric, Gate!Bound, Gate!Paired
  <1>4. \A i \in Gate!Metrics : Gate!Pair(i) = "all" => (Gate!Pair(i))' = "all"
    BY <1>0 DEF Gate!Pair
  <1>5. ASSUME NEW i \in Gate!Metrics
        PROVE  (Gate!High(i))' = -Gate!Low(i) /\ (Gate!Low(i))' = -Gate!High(i)
    <2>1. /\ baseline.of[i].mean \in Int /\ challenger.of[i].mean \in Int /\ Radius \in Nat
      BY <1>5 DEF GateInv, Sides
    <2>2. (Gate!Delta(i))' = -Gate!Delta(i) /\ Gate!Delta(i) \in Int
      BY <1>0, <2>1 DEF Gate!Delta, Gate!Metric
    <2> QED
      BY <2>1, <2>2 DEF Gate!High, Gate!Low
  <1>6. Lost'
    <2>1. (Gate!Bound /\ Gate!Paired /\ objective.enough)'
      BY <1>0, <1>1, <1>3 DEF Required, Gate!Usable
    <2>2. (\A i \in Gate!Constrained : Gate!Pair(i) = "all")'
      BY <1>1, <1>2, <1>3, <1>4 DEF Required, Constraints, Gate!Proven
    <2>3. CASE objective.mode = "lexicographic"
      <3>1. PICK i \in Ranked : /\ Gate!Pair(i) = "all" /\ Gate!Improves(i)
                                /\ \A j \in Ranked : j < i => Equal(j)
        BY <1>1, <2>3 DEF Required, Better
      <3>2. (Gate!Pair(i))' = "all" /\ (Gate!High(i))' < 0
        <4>1. i \in Gate!Metrics /\ m[i].improvement \in Nat
          BY <1>2, MetricFacts
        <4>2. Gate!Low(i) > m[i].improvement /\ Gate!Low(i) \in Int
          BY <3>1, <4>1, Ends
        <4> QED
          BY <1>4, <1>5, <3>1, <4>1, <4>2
      <3>3. ASSUME NEW j \in Ranked, j < i PROVE (Gate!Pair(j))' = "all" /\ (Gate!Low(j))' <= 0
        <4>1. Equal(j) /\ j \in Gate!Metrics
          BY <1>2, <3>1, <3>3
        <4>2. Gate!High(j) \in Int /\ Gate!High(j) >= 0 /\ Gate!Pair(j) = "all"
          BY <4>1, Ends DEF Equal
        <4> QED
          BY <1>4, <1>5, <4>1, <4>2
      <3>4. (\E k \in Ranked : /\ Gate!Pair(k) = "all" /\ Gate!High(k) < 0
                               /\ \A j \in Ranked : j < k => Gate!Pair(j) = "all" /\ Gate!Low(j) <= 0)'
        BY <1>3, <3>2, <3>3
      <3> QED
        BY <1>0, <2>1, <2>2, <2>3, <3>4 DEF Lost
    <2>4. CASE objective.mode = "pareto"
      <3>1. Gains
        BY <1>1, <2>4 DEF Required
      <3>2. ASSUME NEW i \in Ranked PROVE (Gate!Pair(i))' = "all" /\ (Gate!High(i))' <= m[i].regression
        <4>1. i \in Gate!Metrics /\ m[i].regression \in Nat
          BY <1>2, MetricFacts
        <4>2. Gate!Low(i) >= -m[i].regression /\ Gate!Low(i) \in Int /\ Gate!Pair(i) = "all"
          BY <3>1, <4>1, Ends DEF Gains
        <4> QED
          BY <1>4, <1>5, <4>1, <4>2
      <3>3. PICK k \in Ranked : Gate!Improves(k)
        BY <3>1 DEF Gains
      <3>4. (Gate!High(k))' < -m[k].improvement
        <4>1. k \in Gate!Metrics /\ m[k].improvement \in Nat
          BY <1>2, MetricFacts
        <4>2. Gate!Low(k) > m[k].improvement /\ Gate!Low(k) \in Int
          BY <3>3, <4>1, Ends
        <4> QED
          BY <1>5, <4>1, <4>2
      <3>5. (/\ \A i \in Ranked : Gate!Pair(i) = "all" /\ Gate!High(i) <= objective.metrics[i].regression
             /\ \E i \in Ranked : Gate!High(i) < -objective.metrics[i].improvement)'
        BY <1>0, <1>3, <3>2, <3>4
      <3> QED
        BY <1>0, <2>1, <2>2, <2>4, <3>5 DEF Lost
    <2> QED
      BY <1>1, <2>3, <2>4 DEF Required
  <1>7. Gate!TypeOK'
    BY <1>0, <1>3, NoneAssumption DEF GateInv, Gate!TypeOK
  <1>8. (\A s \in Sides, j \in Gate!Metrics :
            s.of[j].seen \in {"all", "unknown", "unknown_first", "invalid"} /\ s.of[j].mean \in Int)'
    BY <1>0, <1>3 DEF GateInv, Sides
  <1> QED
    BY <1>0, <1>6, <1>7, <1>8 DEF GateInv

\* Every action of the gate keeps the invariant.
LEMMA GateStep == GateInv /\ [Gate!Next]_Gate!vars => GateInv'
  <1> SUFFICES ASSUME GateInv, [Gate!Next]_Gate!vars PROVE GateInv'
    OBVIOUS
  <1>1. CASE UNCHANGED Gate!vars
    <2>1. UNCHANGED <<objective, baseline, challenger, returned, check, left, improved, regressed, protected,
                      equivalent, disposition, decisive>>
      BY <1>1 DEF Gate!vars
    <2>2. Gate!TypeOK'
      BY <2>1, GivenStays DEF GateInv, Gate!TypeOK, Ranked
    <2>3. (Fair(disposition, decisive))' <=> Fair(disposition, decisive)
      BY <2>1, GivenStays DEF Fair, Gate!Dispositions
    <2>4. Visited' = Visited
      BY <2>1, GivenStays DEF Visited
    <2> QED
      BY <2>1, <2>2, <2>3, <2>4, Passes, GivenStays DEF GateInv
  <1> QED
    BY <1>1, RefuseFair, ObserveFair, ConstrainFair, LexicographicFair, ParetoFair, JudgeFair, ProposeBackFair
    DEF Gate!Next

-----------------------------------------------------------------------------
\* While the part is the gate, a step is one of ObjectiveGate or changes nothing of it.
LEMMA GateMoves ==
    ASSUME part = "gate", [MCNext]_MCVars PROVE part' = part /\ [Gate!Next]_Gate!vars
  <1>1. CASE MCNext
    BY <1>1 DEF MCNext, Gate!vars
  <1>2. CASE UNCHANGED MCVars
    <2>1. UNCHANGED <<part, stageVars>>
      BY <1>2 DEF MCVars
    <2>2. UNCHANGED gateVars
      BY <2>1 DEF stageVars
    <2> QED
      BY <2>1, <2>2 DEF gateVars, Gate!vars
  <1> QED
    BY <1>1, <1>2

GateHolds == part = "gate" => GateInv

\* The invariant of the gate holds at every step of the part.
LEMMA GateAlways == MCSpec => []GateHolds
  <1>1. MCInit => GateHolds
    BY InitGate DEF MCInit, GateHolds
  <1>2. GateHolds /\ [MCNext]_MCVars => GateHolds'
    <2> SUFFICES ASSUME GateHolds, [MCNext]_MCVars, part' = "gate" PROVE GateInv'
      BY DEF GateHolds
    <2>1. part = "gate"
      BY PartStays
    <2>2. [Gate!Next]_Gate!vars
      BY <2>1, GateMoves
    <2> QED
      BY <2>1, <2>2, GateStep DEF GateHolds
  <1> QED
    BY <1>1, <1>2, PTL DEF MCSpec

\* The only disposition that bars a candidate for good rests on proof: a constraint the whole
\* interval violates, or a metric whose whole interval is a loss (gates.py:375-458).
THEOREM RejectionIsProof == MCSpec => []RejectedIsProven
  <1>1. GateHolds => RejectedIsProven
    <2> SUFFICES ASSUME GateInv, disposition = "rejected"
                 PROVE  \E i \in Gate!Optimized :
                          /\ decisive = i
                          /\ Gate!Pair(i) = "all"
                          /\ Gate!Constraint(i) = "violated" \/ Gate!High(i) < 0
      BY DEF GateHolds, RejectedIsProven, Gate!RejectedIsProven
    <2>1. check = "done"
      BY NoneAssumption DEF GateInv, Gate!TypeOK
    <2> QED
      BY <2>1 DEF GateInv, Fair, Ranked
  <1> QED
    BY GateAlways, <1>1, PTL

\* What the invariant says of the two verdicts that count.
LEMMA GateAccepts == GateInv => Gate!AcceptedAsRequired /\ Gate!NoWayBack
  <1> SUFFICES ASSUME GateInv PROVE Gate!AcceptedAsRequired /\ Gate!NoWayBack
    OBVIOUS
  <1>1. Gate!AcceptedAsRequired
    <2> SUFFICES ASSUME check = "done" PROVE Gate!AcceptedAsRequired
      BY DEF Gate!AcceptedAsRequired
    <2>1. disposition = "accepted" <=> Required
      BY DEF GateInv, Fair
    <2> QED
      BY <2>1 DEF Gate!AcceptedAsRequired, Required, Constraints, Better, Gains, Equal, Ranked
  <1>2. Gate!NoWayBack
    <2> SUFFICES ASSUME returned, check = "done"
                 PROVE  /\ objective.mode = "lexicographic" \/ Gate!Cardinality(Gate!Tolerant) <= 1 =>
                              disposition # "accepted"
                        /\ objective.mode = "lexicographic" \/ Gate!Tolerant = {} =>
                              disposition \in {"rejected", "unresolved", "invalid"}
      BY DEF Gate!NoWayBack
    <2>1. Fair(disposition, decisive) /\ Lost
      BY DEF GateInv
    <2>2. ASSUME disposition = "accepted"
          PROVE  objective.mode = "pareto" /\ ~ Gate!Cardinality(Gate!Tolerant) <= 1
      <3>1. Required
        BY <2>1, <2>2 DEF Fair
      <3>2. objective.mode = "pareto"
        BY <2>1, <3>1, LostIsRefused
      <3>3. PICK i, j \in Gate!Tolerant : i # j
        BY <2>1, <3>1, LostIsRefused
      <3> DEFINE two == {i, j}
      <3>4. Cardinality(two) = 2 /\ two \subseteq Gate!Tolerant
        <4> DEFINE one == {i}
        <4>1. IsFiniteSet(one) /\ Cardinality(one) = 1 /\ j \notin one
          BY <3>3, FS_Singleton
        <4>2. two = one \cup {j} /\ two \subseteq Gate!Tolerant
          BY <3>3
        <4> HIDE DEF one, two
        <4> QED
          BY <4>1, <4>2, FS_AddElement
      <3> HIDE DEF two
      <3>5. Cardinality(two) <= Cardinality(Gate!Tolerant) /\ Cardinality(Gate!Tolerant) \in Nat
        BY <3>4, TolerantFinite, FS_Subset, FS_CardinalityType
      <3> QED
        BY <3>2, <3>4, <3>5, TolerantFinite
    <2> QED
      BY <2>1, <2>2 DEF Fair
  <1> QED
    BY <1>1, <1>2

HIDE ObjectiveAssumption

-----------------------------------------------------------------------------
(* Sums over finite sets, in whatever order they are taken.                *)

\* s is the sum of w over each part of S.
Sums(s, w, S) ==
    /\ s \in [SUBSET S -> Int]
    /\ s[{}] = 0
    /\ \A gs \in SUBSET S : \A x \in gs : s[gs] = w[x] + s[gs \ {x}]

\* What holds of nothing and of a set when it holds of the set less any one, holds of all.
LEMMA SetsByStep ==
    ASSUME NEW S, IsFiniteSet(S), NEW P \in SUBSET SUBSET S, {} \in P,
           \A gs \in SUBSET S : gs # {} /\ (\A x \in gs : gs \ {x} \in P) => gs \in P
    PROVE  P = SUBSET S
  <1> DEFINE ns == {n \in Nat : \A gs \in SUBSET S : Cardinality(gs) = n => gs \in P}
  <1>0. \A gs \in SUBSET S : /\ IsFiniteSet(gs) /\ Cardinality(gs) \in Nat
                             /\ Cardinality(gs) = 0 <=> gs = {}
                             /\ \A x \in gs : Cardinality(gs \ {x}) = Cardinality(gs) - 1
    BY FS_Subset, FS_CardinalityType, FS_EmptySet, FS_RemoveElement
  <1>1. 0 \in ns
    BY <1>0
  <1>2. ASSUME NEW n \in ns PROVE n + 1 \in ns
    <2> SUFFICES ASSUME NEW gs \in SUBSET S, Cardinality(gs) = n + 1 PROVE gs \in P
      OBVIOUS
    <2>1. gs # {}
      BY <1>0
    <2>2. ASSUME NEW x \in gs PROVE gs \ {x} \in P
      <3> DEFINE hs == gs \ {x}
      <3>1. hs \in SUBSET S /\ Cardinality(hs) = n
        BY <1>0
      <3> HIDE DEF hs
      <3>2. hs \in P
        BY <3>1
      <3> QED
        BY <3>2 DEF hs
    <2> QED
      BY <2>1, <2>2
  <1> HIDE DEF ns
  <1>3. ns = Nat
    <2>1. ns \in SUBSET Nat
      BY DEF ns
    <2> QED
      BY <1>1, <1>2, <2>1, NatsByStep
  <1> QED
    BY <1>0, <1>3 DEF ns

\* There is a sum.
LEMMA SumsExist ==
    ASSUME NEW S, IsFiniteSet(S), NEW w \in [S -> Int]
    PROVE  \E s : Sums(s, w, S)
  <1> DEFINE P == {T \in SUBSET S : \E s : Sums(s, w, T)}
  <1>1. {} \in P
    <2> DEFINE s == [gs \in SUBSET {} |-> 0]
    <2>1. Sums(s, w, {})
      BY DEF Sums
    <2> QED
      BY <2>1
  <1>2. ASSUME NEW T \in SUBSET S, T # {}, \A x \in T : T \ {x} \in P PROVE T \in P
    <2>1. PICK x \in T : TRUE
      BY <1>2
    <2> DEFINE R == T \ {x}
    <2>2. PICK r : Sums(r, w, R)
      BY <1>2
    <2>3. r \in [SUBSET R -> Int] /\ r[{}] = 0 /\ \A gs \in SUBSET R : \A y \in gs : r[gs] = w[y] + r[gs \ {y}]
      BY <2>2 DEF Sums
    <2> DEFINE s == [gs \in SUBSET T |-> IF x \in gs THEN w[x] + r[gs \ {x}] ELSE r[gs]]
    <2>4. \A gs \in SUBSET T : gs \ {x} \in SUBSET R /\ (x \notin gs => gs \in SUBSET R)
      OBVIOUS
    <2>5. w[x] \in Int
      OBVIOUS
    <2>6. s \in [SUBSET T -> Int]
      <3> SUFFICES ASSUME NEW gs \in SUBSET T PROVE s[gs] \in Int
        OBVIOUS
      <3> QED
        BY <2>3, <2>4, <2>5
    <2>7. s[{}] = 0
      BY <2>3
    <2>8. ASSUME NEW gs \in SUBSET T, NEW y \in gs PROVE s[gs] = w[y] + s[gs \ {y}]
      <3> DEFINE hs == gs \ {y}
      <3>0. hs \in SUBSET T /\ w[y] \in Int
        OBVIOUS
      <3>1. CASE x \notin gs
        <4>1. s[gs] = r[gs] /\ s[hs] = r[hs] /\ r[gs] = w[y] + r[hs]
          BY <2>3, <2>4, <3>0, <3>1
        <4> QED
          BY <4>1
      <3>2. CASE x = y
        <4>1. s[gs] = w[x] + r[gs \ {x}] /\ s[hs] = r[hs]
          BY <3>0, <3>2
        <4> QED
          BY <3>2, <4>1
      <3>3. CASE x \in gs /\ x # y
        <4> DEFINE ks == gs \ {x}
        <4>1. ks \in SUBSET R /\ y \in ks /\ ks \ {y} = hs \ {x} /\ x \in hs
          BY <3>3
        <4>2. s[gs] = w[x] + r[ks] /\ s[hs] = w[x] + r[hs \ {x}]
          BY <3>0, <3>3, <4>1
        <4>3. r[ks] = w[y] + r[ks \ {y}] /\ r[ks \ {y}] \in Int
          BY <2>3, <4>1
        <4>4. r[hs \ {x}] = r[ks \ {y}]
          BY <4>1
        <4> HIDE DEF ks, hs, s
        <4>5. s[gs] = w[y] + s[hs]
          BY <2>5, <3>0, <4>2, <4>3, <4>4
        <4> QED
          BY <4>5 DEF hs
      <3> QED
        BY <3>1, <3>2, <3>3
    <2> HIDE DEF s
    <2>9. Sums(s, w, T)
      BY <2>6, <2>7, <2>8 DEF Sums
    <2> QED
      BY <2>9
  <1> HIDE DEF P
  <1>3. P = SUBSET S
    <2>1. P \in SUBSET SUBSET S
      BY DEF P
    <2> QED
      BY <1>1, <1>2, <2>1, SetsByStep
  <1> QED
    BY <1>3 DEF P

\* An order: the first of each part of T.
Chooses(c, T) == \A gs \in SUBSET T : gs # {} => c[gs] \in gs

\* The sum in this order, as a fold takes it.
Folded(f, w, c, T) ==
    f = [gs \in SUBSET T |-> IF gs = {} THEN 0 ELSE f[gs \ {c[gs]}] + w[c[gs]]]

\* A sum taken in one order.
LEMMA InOrder ==
    ASSUME NEW S, IsFiniteSet(S), NEW w \in [S -> Int], NEW s, Sums(s, w, S),
           NEW T \in SUBSET S, NEW c, Chooses(c, T), NEW f, Folded(f, w, c, T)
    PROVE  f[T] = s[T]
  <1> DEFINE P == {gs \in SUBSET T : f[gs] = s[gs]}
  <1>0. IsFiniteSet(T)
    BY FS_Subset
  <1>s. /\ s \in [SUBSET S -> Int] /\ s[{}] = 0
        /\ \A gs \in SUBSET S : \A x \in gs : s[gs] = w[x] + s[gs \ {x}]
    BY DEF Sums
  <1>f. \A gs \in SUBSET T : f[gs] = IF gs = {} THEN 0 ELSE f[gs \ {c[gs]}] + w[c[gs]]
    BY DEF Folded
  <1>1. {} \in P
    BY <1>s, <1>f
  <1>2. ASSUME NEW gs \in SUBSET T, gs # {}, \A x \in gs : gs \ {x} \in P PROVE gs \in P
    <2> DEFINE x == c[gs]
               hs == gs \ {x}
    <2>1. x \in gs /\ x \in S /\ w[x] \in Int
      BY <1>2 DEF Chooses
    <2>2. hs \in P
      BY <1>2, <2>1
    <2>3. f[hs] = s[hs] /\ hs \in SUBSET S /\ s[hs] \in Int
      BY <1>s, <2>2
    <2>4. f[gs] = f[hs] + w[x] /\ s[gs] = w[x] + s[hs]
      <3>1. gs \in SUBSET S /\ gs \in SUBSET T
        OBVIOUS
      <3>2. f[gs] = f[hs] + w[x]
        BY <1>f, <1>2
      <3>3. s[gs] = w[x] + s[hs]
        BY <1>s, <2>1, <3>1
      <3> QED
        BY <3>2, <3>3
    <2> HIDE DEF x, hs
    <2>5. f[gs] = s[gs]
      BY <2>1, <2>3, <2>4
    <2> QED
      BY <2>5
  <1> HIDE DEF P
  <1>3. P = SUBSET T
    <2>1. P \in SUBSET SUBSET T
      BY DEF P
    <2> QED
      BY <1>0, <1>1, <1>2, <2>1, SetsByStep
  <1> QED
    BY <1>3 DEF P

-----------------------------------------------------------------------------
\* Numbers below a bound have a greatest.
LEMMA GreatestIsOne ==
    ASSUME NEW n \in Nat, NEW is \in SUBSET (1 .. n), is # {}
    PROVE  \E m \in is : \A i \in is : m >= i
  <1> DEFINE ks == {k \in Nat : \E i \in is : k = n - i}
  <1>1. ks \in SUBSET Nat
    OBVIOUS
  <1>0. \A i \in is : i \in Nat /\ i <= n /\ n - i \in Nat
    OBVIOUS
  <1>2. PICK i \in is : TRUE
    OBVIOUS
  <1>3. n - i \in ks
    BY <1>0, <1>2
  <1>4. Gate!First(ks) \in ks /\ \A k \in ks : Gate!First(ks) <= k
    BY <1>1, <1>3, FirstIsLeast
  <1>5. PICK m \in is : Gate!First(ks) = n - m
    BY <1>4
  <1>6. ASSUME NEW j \in is PROVE m >= j
    <2>1. j \in Nat /\ j <= n /\ n - j \in Nat /\ m \in Nat
      BY <1>0
    <2>2. n - j \in ks
      BY <2>1
    <2>3. n - m <= n - j
      BY <1>4, <1>5, <2>2
    <2> QED
      BY <2>1, <2>3
  <1> QED
    BY <1>6

\* The total of a sequence of numbers.
TotalOf(v) == Paired!FoldLeft(+, 0, v)

\* The total is the sum.
LEMMA TotalIsSum ==
    ASSUME NEW n \in Nat, NEW v \in [1 .. n -> Int], NEW s, Sums(s, v, 1 .. n)
    PROVE  TotalOf(v) = s[1 .. n]
  <1> DEFINE I == 1 .. n
             iter[gs \in SUBSET I] == IF gs = {} THEN 0
                                      ELSE LET x == Paired!Max(gs) IN iter[gs \ {x}] + v[x]
             f == [gs \in SUBSET I |-> s[gs]]
             c == [gs \in SUBSET I |-> Paired!Max(gs)]
  <1>1. IsFiniteSet(I)
    <2>1. \A k \in Nat : IsFiniteSet(1 .. k)
      BY CountsFinite
    <2> QED
      BY <2>1
  <1>2. Chooses(c, I)
    <2> SUFFICES ASSUME NEW gs \in SUBSET I, gs # {} PROVE Paired!Max(gs) \in gs
      BY DEF Chooses
    <2>1. \E m \in gs : \A i \in gs : m >= i
      BY GreatestIsOne
    <2> QED
      BY <2>1 DEF Paired!Max
  <1>s. /\ s \in [SUBSET I -> Int] /\ s[{}] = 0
        /\ \A gs \in SUBSET I : \A x \in gs : s[gs] = v[x] + s[gs \ {x}]
    BY DEF Sums
  <1>3. \A gs \in SUBSET I : f[gs] = IF gs = {} THEN 0 ELSE f[gs \ {Paired!Max(gs)}] + v[Paired!Max(gs)]
    <2> SUFFICES ASSUME NEW gs \in SUBSET I, gs # {}
                 PROVE  f[gs] = f[gs \ {Paired!Max(gs)}] + v[Paired!Max(gs)]
      BY <1>s
    <2> DEFINE x == Paired!Max(gs)
    <2>1. x \in gs
      <3>1. c[gs] \in gs
        BY <1>2 DEF Chooses
      <3> QED
        BY <3>1
    <2> HIDE DEF x
    <2>2. s[gs] = v[x] + s[gs \ {x}] /\ gs \ {x} \in SUBSET I /\ v[x] \in Int /\ s[gs \ {x}] \in Int
      BY <1>s, <2>1
    <2>3. f[gs] = f[gs \ {x}] + v[x]
      BY <2>2
    <2> QED
      BY <2>3 DEF x
  <1>4. f = [gs \in SUBSET I |-> IF gs = {} THEN 0 ELSE f[gs \ {Paired!Max(gs)}] + v[Paired!Max(gs)]]
    <2> HIDE DEF I
    <2> QED
      BY <1>3
  <1>5. iter = [gs \in SUBSET I |-> IF gs = {} THEN 0 ELSE iter[gs \ {Paired!Max(gs)}] + v[Paired!Max(gs)]]
    <2> HIDE DEF f
    <2> QED
      BY <1>4
  <1>6. TotalOf(v) = iter[I]
    <2>1. DOMAIN v = I
      OBVIOUS
    <2> QED
      BY <2>1 DEF TotalOf, Paired!FoldLeft, Paired!MapThenFoldSet
  <1> HIDE DEF iter
  <1>7. Folded(iter, v, c, I)
    BY <1>5 DEF Folded
  <1>8. iter[I] = s[I]
    <2>1. I \in SUBSET I
      OBVIOUS
    <2> HIDE DEF c, I
    <2>2. v \in [I -> Int] /\ Sums(s, v, I)
      BY DEF I
    <2> QED
      BY <1>1, <1>2, <1>7, <2>1, <2>2, InOrder
  <1> QED
    BY <1>6, <1>8

\* The scores of an evaluation.
Scores(w, outcomes, S) == w \in [S -> Int] /\ \A t \in S : w[t] = Paired!Score(outcomes, t)

\* What an evaluation scores over some tasks is the sum of its scores.
LEMMA ScoredIsSum ==
    ASSUME NEW S, IsFiniteSet(S), NEW outcomes, NEW w, Scores(w, outcomes, S), NEW s, Sums(s, w, S), NEW T \in SUBSET S
    PROVE  Paired!Sum(outcomes, T) = s[T]
  <1>w. w \in [S -> Int] /\ \A t \in S : w[t] = Paired!Score(outcomes, t)
    BY DEF Scores
  <1> DEFINE iter[gs \in SUBSET T] == IF gs = {} THEN 0
                                      ELSE LET x == CHOOSE y \in gs : TRUE
                                           IN iter[gs \ {x}] + Paired!Score(outcomes, x)
             f == [gs \in SUBSET T |-> s[gs]]
             c == [gs \in SUBSET T |-> CHOOSE y \in gs : TRUE]
  <1>2. Chooses(c, T)
    BY DEF Chooses
  <1>s. /\ s \in [SUBSET S -> Int] /\ s[{}] = 0
        /\ \A gs \in SUBSET S : \A x \in gs : s[gs] = w[x] + s[gs \ {x}]
    BY DEF Sums
  <1>3. \A gs \in SUBSET T : f[gs] = IF gs = {} THEN 0
                                     ELSE LET x == CHOOSE y \in gs : TRUE
                                          IN f[gs \ {x}] + Paired!Score(outcomes, x)
    <2> SUFFICES ASSUME NEW gs \in SUBSET T, gs # {}, NEW x, x = CHOOSE y \in gs : TRUE
                 PROVE  f[gs] = f[gs \ {x}] + Paired!Score(outcomes, x)
      BY <1>s
    <2>1. x \in gs /\ x \in S
      OBVIOUS
    <2>2. /\ s[gs] = w[x] + s[gs \ {x}] /\ gs \ {x} \in SUBSET T /\ w[x] \in Int /\ s[gs \ {x}] \in Int
          /\ w[x] = Paired!Score(outcomes, x)
      BY <1>s, <1>w, <2>1
    <2> QED
      BY <2>2
  <1>4. f = [gs \in SUBSET T |-> IF gs = {} THEN 0
                                 ELSE LET x == CHOOSE y \in gs : TRUE
                                      IN f[gs \ {x}] + Paired!Score(outcomes, x)]
    BY <1>3
  <1>5. iter = [gs \in SUBSET T |-> IF gs = {} THEN 0
                                    ELSE LET x == CHOOSE y \in gs : TRUE
                                         IN iter[gs \ {x}] + Paired!Score(outcomes, x)]
    <2> HIDE DEF f
    <2> QED
      BY <1>4
  <1>6. Paired!Sum(outcomes, T) = iter[T]
    BY DEF Paired!Sum, Paired!FoldSet, Paired!MapThenFoldSet
  <1> HIDE DEF iter
  <1>7. Folded(iter, w, c, T)
    <2> SUFFICES iter = [gs \in SUBSET T |-> IF gs = {} THEN 0 ELSE iter[gs \ {c[gs]}] + w[c[gs]]]
      BY DEF Folded
    <2>1. ASSUME NEW gs \in SUBSET T, gs # {} PROVE c[gs] = (CHOOSE y \in gs : TRUE) /\ w[c[gs]] = Paired!Score(outcomes, c[gs])
      <3>1. c[gs] \in S
        BY <1>2, <2>1 DEF Chooses
      <3> QED
        BY <1>w, <3>1
    <2>2. ASSUME NEW gs \in SUBSET T
          PROVE iter[gs] = IF gs = {} THEN 0 ELSE iter[gs \ {c[gs]}] + w[c[gs]]
      <3> DEFINE x == CHOOSE y \in gs : TRUE
      <3>1. iter[gs] = IF gs = {} THEN 0 ELSE iter[gs \ {x}] + Paired!Score(outcomes, x)
        BY <1>5
      <3>2. CASE gs = {}
        BY <3>1, <3>2
      <3>3. CASE gs # {}
        <4>1. c[gs] = x /\ w[c[gs]] = Paired!Score(outcomes, c[gs])
          BY <2>1, <3>3
        <4> HIDE DEF x, c
        <4> QED
          BY <3>1, <3>3, <4>1
      <3> QED
        BY <3>2, <3>3
    <2> HIDE DEF c
    <2>3. \E g : iter = [gs \in SUBSET T |-> g[gs]]
      <3>1. iter = [gs \in SUBSET T |-> iter[gs]]
        BY <1>5
      <3> QED
        BY <3>1
    <2> QED
      BY <2>2, <2>3
  <1> HIDE DEF c
  <1>8. iter[T] = s[T]
    BY <1>2, <1>7, <1>w, InOrder
  <1> QED
    BY <1>6, <1>8

-----------------------------------------------------------------------------
\* A sum of nothing below zero is not below zero, and one with something above is above.
LEMMA SumSign ==
    ASSUME NEW S, IsFiniteSet(S), NEW w \in [S -> Int], NEW s, Sums(s, w, S),
           NEW T \in SUBSET S, \A t \in T : w[t] >= 0
    PROVE  s[T] >= 0 /\ ((\E t \in T : w[t] > 0) => s[T] > 0)
  <1>s. /\ s \in [SUBSET S -> Int] /\ s[{}] = 0
        /\ \A gs \in SUBSET S : \A x \in gs : s[gs] = w[x] + s[gs \ {x}]
    BY DEF Sums
  <1> DEFINE P == {gs \in SUBSET T : s[gs] >= 0}
  <1>0. IsFiniteSet(T)
    BY FS_Subset
  <1>1. {} \in P
    BY <1>s
  <1>2. ASSUME NEW gs \in SUBSET T, gs # {}, \A x \in gs : gs \ {x} \in P PROVE gs \in P
    <2>1. PICK x \in gs : TRUE
      BY <1>2
    <2> DEFINE hs == gs \ {x}
    <2>2. hs \in P
      BY <1>2
    <2>3. s[hs] >= 0 /\ s[hs] \in Int /\ w[x] \in Int /\ w[x] >= 0 /\ s[gs] = w[x] + s[hs]
      BY <1>s, <2>2
    <2> HIDE DEF hs
    <2>4. s[gs] >= 0
      BY <2>3
    <2> QED
      BY <2>4
  <1> HIDE DEF P
  <1>3. P = SUBSET T
    <2>1. P \in SUBSET SUBSET T
      BY DEF P
    <2> QED
      BY <1>0, <1>1, <1>2, <2>1, SetsByStep
  <1>4. \A gs \in SUBSET T : s[gs] >= 0
    BY <1>3 DEF P
  <1>5. ASSUME NEW t \in T, w[t] > 0 PROVE s[T] > 0
    <2>1. s[T] = w[t] + s[T \ {t}] /\ s[T \ {t}] >= 0 /\ s[T \ {t}] \in Int /\ w[t] \in Int
      BY <1>s, <1>4
    <2> QED
      BY <1>5, <2>1
  <1> QED
    BY <1>4, <1>5

\* One weight is the difference of two others.
Difference(d, v, w, S) == \A t \in S : d[t] = v[t] - w[t]

\* The sum of differences is the difference of the sums.
LEMMA SumDifference ==
    ASSUME NEW S, IsFiniteSet(S), NEW d \in [S -> Int], NEW v \in [S -> Int], NEW w \in [S -> Int],
           Difference(d, v, w, S),
           NEW sd, Sums(sd, d, S), NEW sv, Sums(sv, v, S), NEW sw, Sums(sw, w, S)
    PROVE  Difference(sd, sv, sw, SUBSET S)
  <1> DEFINE P == {gs \in SUBSET S : sd[gs] = sv[gs] - sw[gs]}
  <1>d. /\ sd \in [SUBSET S -> Int] /\ sd[{}] = 0
        /\ \A gs \in SUBSET S : \A x \in gs : sd[gs] = d[x] + sd[gs \ {x}]
    BY DEF Sums
  <1>v. /\ sv \in [SUBSET S -> Int] /\ sv[{}] = 0
        /\ \A gs \in SUBSET S : \A x \in gs : sv[gs] = v[x] + sv[gs \ {x}]
    BY DEF Sums
  <1>w. /\ sw \in [SUBSET S -> Int] /\ sw[{}] = 0
        /\ \A gs \in SUBSET S : \A x \in gs : sw[gs] = w[x] + sw[gs \ {x}]
    BY DEF Sums
  <1>1. {} \in P
    BY <1>d, <1>v, <1>w
  <1>2. ASSUME NEW gs \in SUBSET S, gs # {}, \A x \in gs : gs \ {x} \in P PROVE gs \in P
    <2>1. PICK x \in gs : TRUE
      BY <1>2
    <2> DEFINE hs == gs \ {x}
    <2>2. hs \in P /\ x \in S
      BY <1>2
    <2>3. sd[hs] = sv[hs] - sw[hs] /\ hs \in SUBSET S
      BY <2>2
    <2>4. /\ sd[gs] = d[x] + sd[hs] /\ sv[gs] = v[x] + sv[hs] /\ sw[gs] = w[x] + sw[hs]
      <3>1. sd[gs] = d[x] + sd[hs]
        BY <1>d
      <3>2. sv[gs] = v[x] + sv[hs]
        BY <1>v
      <3>3. sw[gs] = w[x] + sw[hs]
        BY <1>w
      <3> QED
        BY <3>1, <3>2, <3>3
    <2>5. sv[hs] \in Int /\ sw[hs] \in Int /\ v[x] \in Int /\ w[x] \in Int
      BY <1>v, <1>w, <2>2, <2>3
    <2>6. d[x] = v[x] - w[x]
      BY <2>2 DEF Difference
    <2> HIDE DEF hs
    <2>7. sd[gs] = sv[gs] - sw[gs]
      BY <2>3, <2>4, <2>5, <2>6
    <2> QED
      BY <2>7
  <1> HIDE DEF P
  <1>3. P = SUBSET S
    <2>1. P \in SUBSET SUBSET S
      BY DEF P
    <2> QED
      BY <1>1, <1>2, <2>1, SetsByStep
  <1> QED
    BY <1>3 DEF P, Difference

\* What is above zero and what is below make up the whole.
Halves(s, w, S) == s[S] = s[{t \in S : w[t] > 0}] + s[{t \in S : w[t] < 0}]

\* The sum over a set is that of what is above zero and that of what is below.
LEMMA SumSplit ==
    ASSUME NEW S, IsFiniteSet(S), NEW w \in [S -> Int], NEW s, Sums(s, w, S)
    PROVE  Halves(s, w, S)
  <1> DEFINE U(gs) == {t \in gs : w[t] > 0}
             D(gs) == {t \in gs : w[t] < 0}
             P == {gs \in SUBSET S : s[gs] = s[U(gs)] + s[D(gs)]}
  <1>s. /\ s \in [SUBSET S -> Int] /\ s[{}] = 0
        /\ \A gs \in SUBSET S : \A x \in gs : s[gs] = w[x] + s[gs \ {x}]
    BY DEF Sums
  <1>1. {} \in P
    <2>1. U({}) = {} /\ D({}) = {}
      OBVIOUS
    <2> QED
      BY <1>s, <2>1
  <1>2. ASSUME NEW gs \in SUBSET S, gs # {}, \A x \in gs : gs \ {x} \in P PROVE gs \in P
    <2>1. PICK x \in gs : TRUE
      BY <1>2
    <2> DEFINE hs == gs \ {x}
    <2>2. hs \in P /\ w[x] \in Int /\ s[gs] = w[x] + s[hs]
      BY <1>2, <1>s
    <2>3. s[hs] = s[U(hs)] + s[D(hs)]
      BY <2>2
    <2>4. U(gs) \in SUBSET S /\ D(gs) \in SUBSET S /\ U(hs) \in SUBSET S /\ D(hs) \in SUBSET S
      OBVIOUS
    <2>5. s[U(hs)] \in Int /\ s[D(hs)] \in Int
      BY <1>s, <2>4
    <2>6. CASE w[x] > 0
      <3>1. x \in U(gs) /\ U(hs) = U(gs) \ {x} /\ D(hs) = D(gs)
        BY <2>2, <2>6
      <3>2. s[U(gs)] = w[x] + s[U(hs)]
        BY <1>s, <2>4, <3>1
      <3>3. s[D(gs)] = s[D(hs)]
        BY <3>1
      <3> HIDE DEF U, D, hs
      <3>4. s[gs] = s[U(gs)] + s[D(gs)]
        BY <2>2, <2>3, <2>5, <3>2, <3>3
      <3> QED
        BY <3>4
    <2>7. CASE w[x] < 0
      <3>1. x \in D(gs) /\ D(hs) = D(gs) \ {x} /\ U(hs) = U(gs)
        BY <2>2, <2>7
      <3>2. s[D(gs)] = w[x] + s[D(hs)]
        BY <1>s, <2>4, <3>1
      <3>3. s[U(gs)] = s[U(hs)]
        BY <3>1
      <3> HIDE DEF U, D, hs
      <3>4. s[gs] = s[U(gs)] + s[D(gs)]
        BY <2>2, <2>3, <2>5, <3>2, <3>3
      <3> QED
        BY <3>4
    <2>8. CASE w[x] = 0
      <3>1. U(hs) = U(gs) /\ D(hs) = D(gs)
        BY <2>8
      <3>3. s[U(gs)] = s[U(hs)] /\ s[D(gs)] = s[D(hs)]
        BY <3>1
      <3> HIDE DEF U, D, hs
      <3>4. s[gs] = s[U(gs)] + s[D(gs)]
        BY <2>2, <2>3, <2>5, <2>8, <3>3
      <3> QED
        BY <3>4
    <2> QED
      BY <2>2, <2>6, <2>7, <2>8
  <1>3. P = SUBSET S
    <2>1. P \in SUBSET SUBSET S
      OBVIOUS
    <2> HIDE DEF P
    <2> QED
      BY <1>1, <1>2, <2>1, SetsByStep
  <1>4. S \in P
    BY <1>3
  <1> QED
    BY <1>4 DEF Halves

\* A list of S, each of it once, with their weights.
Lists(ts, n, S) ==
    /\ ts \in [1 .. n -> S] /\ S = {ts[i] : i \in 1 .. n}
    /\ \A i, j \in 1 .. n : ts[i] = ts[j] => i = j
Weighs(v, w, ts, n) == v \in [1 .. n -> Int] /\ \A i \in 1 .. n : v[i] = w[ts[i]]

\* The sum along a list of S.
LEMMA SumAlong ==
    ASSUME NEW S, IsFiniteSet(S), NEW w \in [S -> Int], NEW s, Sums(s, w, S),
           NEW n \in Nat, NEW ts, Lists(ts, n, S), NEW v, Weighs(v, w, ts, n),
           NEW r, Sums(r, v, 1 .. n)
    PROVE  r[1 .. n] = s[S]
  <1>l. /\ ts \in [1 .. n -> S] /\ S = {ts[i] : i \in 1 .. n}
        /\ \A i, j \in 1 .. n : ts[i] = ts[j] => i = j
        /\ v \in [1 .. n -> Int] /\ \A i \in 1 .. n : v[i] = w[ts[i]]
    BY DEF Lists, Weighs
  <1> DEFINE I == 1 .. n
             On(is) == {ts[i] : i \in is}
             P == {is \in SUBSET I : r[is] = s[On(is)]}
  <1>s. /\ s \in [SUBSET S -> Int] /\ s[{}] = 0
        /\ \A gs \in SUBSET S : \A x \in gs : s[gs] = w[x] + s[gs \ {x}]
    BY DEF Sums
  <1>r. /\ r \in [SUBSET I -> Int] /\ r[{}] = 0
        /\ \A is \in SUBSET I : \A i \in is : r[is] = v[i] + r[is \ {i}]
    BY DEF Sums
  <1>0. IsFiniteSet(I)
    <2>1. \A k \in Nat : IsFiniteSet(1 .. k)
      BY CountsFinite
    <2> QED
      BY <2>1
  <1>1. {} \in P
    <2>1. On({}) = {}
      OBVIOUS
    <2> QED
      BY <1>s, <1>r, <2>1
  <1>2. ASSUME NEW is \in SUBSET I, is # {}, \A i \in is : is \ {i} \in P PROVE is \in P
    <2>1. PICK i \in is : TRUE
      BY <1>2
    <2> DEFINE js == is \ {i}
    <2>2. js \in P /\ i \in I
      BY <1>2
    <2>3. r[js] = s[On(js)] /\ r[is] = v[i] + r[js]
      BY <2>2, <1>r
    <2>4. On(is) \in SUBSET S /\ ts[i] \in On(is) /\ On(js) = On(is) \ {ts[i]}
      <3>1. \A j \in is : j \in I /\ ts[j] \in S
        BY <1>l
      <3>2. On(is) \in SUBSET S /\ ts[i] \in On(is)
        BY <3>1
      <3>3. \A j \in is : ts[j] = ts[i] => j = i
        BY <1>l, <3>1, <2>2
      <3>4. On(js) = On(is) \ {ts[i]}
        <4>1. \A t : t \in On(js) <=> \E j \in is : j # i /\ t = ts[j]
          OBVIOUS
        <4>2. \A t : t \in On(is) \ {ts[i]} <=> \E j \in is : ts[j] # ts[i] /\ t = ts[j]
          OBVIOUS
        <4> HIDE DEF On, js
        <4> QED
          BY <3>3, <4>1, <4>2
      <3> QED
        BY <3>2, <3>4
    <2>5. s[On(is)] = w[ts[i]] + s[On(js)]
      <3> HIDE DEF On, js
      <3>1. s[On(is)] = w[ts[i]] + s[On(is) \ {ts[i]}]
        BY <1>s, <2>4
      <3> QED
        BY <2>4, <3>1
    <2>6. v[i] = w[ts[i]]
      BY <1>l, <2>2
    <2> HIDE DEF On, js, I
    <2>7. r[is] = s[On(is)]
      BY <2>3, <2>5, <2>6
    <2> QED
      BY <2>7
  <1>3. P = SUBSET I
    <2>1. P \in SUBSET SUBSET I
      OBVIOUS
    <2> HIDE DEF P, I
    <2> QED
      BY <1>0, <1>1, <1>2, <2>1, SetsByStep
  <1>4. r[I] = s[On(I)]
    BY <1>3
  <1> QED
    BY <1>l, <1>4

USE PairedAssumption

-----------------------------------------------------------------------------
(* PairedGate.                                                             *)

\* The tasks both sides have, and what the second side gains on the first along a list of them.
SharedOf(b, c) == Paired!Tasks(b) \cap Paired!Tasks(c)
DeltaOf(b, c, t) == Paired!Score(c, t) - Paired!Score(b, t)
Along(b, c, ts) == TotalOf([i \in 1 .. Len(ts) |-> DeltaOf(b, c, ts[i])])
Mean(b, c) == Along(b, c, Paired!SetToSeq(SharedOf(b, c)))
WorseOf(b, c) == {t \in SharedOf(b, c) : Paired!Score(c, t) < Paired!Score(b, t)}
BetterOf(b, c) == {t \in SharedOf(b, c) : Paired!Score(c, t) > Paired!Score(b, t)}

\* An evaluation is a list of tasks with their scores.
LEMMA OutcomesAreLists ==
    ASSUME NEW o \in Paired!Outcomes
    PROVE  \E n \in Nat : o \in [1 .. n -> [task : PairedTasks, score : TaskScores]] /\ Len(o) = n
  <1>1. PICK n \in 0 .. Paired!Cardinality(PairedTasks) :
           o \in [1 .. n -> [task : PairedTasks, score : TaskScores]]
    BY DEF Paired!Outcomes
  <1>2. n \in Nat
    BY <1>1
  <1>3. Len(o) = n
    BY <1>1, <1>2
  <1> QED
    BY <1>1, <1>2, <1>3

\* The score of a task is a number.
LEMMA ScoreIsNumber ==
    ASSUME NEW o \in Paired!Outcomes, NEW t \in Paired!Tasks(o)
    PROVE  Paired!Score(o, t) \in Int
  <1>1. PICK n \in Nat : o \in [1 .. n -> [task : PairedTasks, score : TaskScores]] /\ Len(o) = n
    BY OutcomesAreLists
  <1> DEFINE is == {i \in 1 .. n : o[i].task = t}
             last(i) == i \in 1 .. Len(o) /\ o[i].task = t /\ \A j \in i + 1 .. Len(o) : o[j].task # t
  <1>2. is \in SUBSET (1 .. n) /\ is # {}
    BY <1>1 DEF Paired!Tasks
  <1>3. PICK m \in is : \A i \in is : m >= i
    BY <1>2, GreatestIsOne
  <1>4. last(m)
    <2>1. m \in 1 .. n /\ o[m].task = t /\ m \in Nat
      BY <1>3
    <2>2. ASSUME NEW j \in m + 1 .. n, o[j].task = t PROVE FALSE
      <3>1. j \in is /\ j > m
        BY <2>1, <2>2
      <3> QED
        BY <1>3, <2>1, <3>1
    <2> QED
      BY <1>1, <2>1, <2>2
  <1>5. PICK k : last(k) /\ Paired!Score(o, t) = o[k].score
    <2>1. Paired!Score(o, t) = o[CHOOSE i \in 1 .. Len(o) : o[i].task = t /\ \A j \in i + 1 .. Len(o) : o[j].task # t].score
      BY DEF Paired!Score
    <2>2. \E i \in 1 .. Len(o) : o[i].task = t /\ \A j \in i + 1 .. Len(o) : o[j].task # t
      BY <1>4
    <2> QED
      BY <2>1, <2>2
  <1>6. o[k] \in [task : PairedTasks, score : TaskScores]
    BY <1>1, <1>5
  <1> QED
    BY <1>5, <1>6

\* The shared tasks are finitely many.
LEMMA SharedIsFinite ==
    ASSUME NEW b \in Paired!Outcomes, NEW c \in Paired!Outcomes
    PROVE  IsFiniteSet(SharedOf(b, c)) /\ Paired!Cardinality(SharedOf(b, c)) = Cardinality(SharedOf(b, c))
  <1>1. PICK n \in Nat : b \in [1 .. n -> [task : PairedTasks, score : TaskScores]] /\ Len(b) = n
    BY OutcomesAreLists
  <1>2. SharedOf(b, c) \subseteq PairedTasks
    BY <1>1 DEF SharedOf, Paired!Tasks
  <1>3. IsFiniteSet(SharedOf(b, c))
    BY <1>2, FS_Subset
  <1>4. Paired!Cardinality(SharedOf(b, c)) = Cardinality(SharedOf(b, c))
    BY DEF Paired!Cardinality, Cardinality, Paired!IsFiniteSet, IsFiniteSet
  <1> QED
    BY <1>3, <1>4

\* The list of a set has each of it once.
LEMMA ListedOnce ==
    ASSUME NEW S, IsFiniteSet(S), Paired!Cardinality(S) = Cardinality(S)
    PROVE  \E n \in Nat : LET ts == Paired!SetToSeq(S)
                          IN  /\ n = Cardinality(S) /\ Lists(ts, n, S) /\ Len(ts) = n
  <1> DEFINE n == Cardinality(S)
             ts == Paired!SetToSeq(S)
  <1>1. n \in Nat /\ ExistsBijection(1 .. n, S)
    BY FS_CardinalityType
  <1>2. PICK f \in [1 .. n -> S] : \A i, j \in 1 .. n : f[i] = f[j] => i = j
    BY <1>1 DEF ExistsBijection, Bijection, Injection, IsInjective
  <1>3. ts \in [1 .. n -> S] /\ Paired!IsInjective(ts)
    <2>1. Paired!IsInjective(f)
      BY <1>2 DEF Paired!IsInjective
    <2> QED
      BY <1>2, <2>1 DEF Paired!SetToSeq
  <1> HIDE DEF ts
  <1>4. \A i, j \in 1 .. n : ts[i] = ts[j] => i = j
    BY <1>3 DEF Paired!IsInjective
  <1>5. Len(ts) = n
    <2> HIDE DEF n
    <2> QED
      BY <1>1, <1>3
  <1>6. IsFiniteSet(1 .. n) /\ Cardinality(1 .. n) = n
    <2>1. \A k \in Nat : IsFiniteSet(1 .. k) /\ Cardinality(1 .. k) = k
      <3> TAKE k \in Nat
      <3>1. IsFiniteSet(1 .. k) /\ Cardinality(1 .. k) = IF 1 > k THEN 0 ELSE k - 1 + 1
        BY FS_Interval
      <3> QED
        BY <3>1
    <2> HIDE DEF n
    <2> QED
      BY <1>1, <2>1
  <1>7. ts \in Surjection(1 .. n, S)
    <2>1. ts \in Injection(1 .. n, S)
      BY <1>3, <1>4 DEF Injection, IsInjective
    <2> QED
      BY <1>6, <2>1, FS_Injection
  <1>8. S = {ts[i] : i \in 1 .. n}
    BY <1>3, <1>7 DEF Surjection
  <1> QED
    BY <1>1, <1>3, <1>4, <1>5, <1>8 DEF ts, Lists

\* What is gained at each place of a list.
Gained(v, b, c, ts, n) == v = [i \in 1 .. n |-> DeltaOf(b, c, ts[i])] /\ v \in [1 .. n -> Int]

\* What is gained along a list is a sum.
LEMMA AlongIsSum ==
    ASSUME NEW b, NEW c, NEW n \in Nat, NEW ts, Len(ts) = n, NEW v, Gained(v, b, c, ts, n), NEW r, Sums(r, v, 1 .. n)
    PROVE  Along(b, c, ts) = r[1 .. n]
  <1>1. Along(b, c, ts) = TotalOf(v) /\ v \in [1 .. n -> Int]
    BY DEF Along, Gained
  <1> QED
    BY <1>1, TotalIsSum

-----------------------------------------------------------------------------
\* The scores of the two sides over the shared tasks, and what the second gains.
Weights(b, c, w, v, d) ==
    LET S == SharedOf(b, c)
    IN  /\ w = [t \in S |-> Paired!Score(c, t)] /\ w \in [S -> Int]
        /\ v = [t \in S |-> Paired!Score(b, t)] /\ v \in [S -> Int]
        /\ d = [t \in S |-> DeltaOf(b, c, t)] /\ d \in [S -> Int]
        /\ Difference(d, w, v, S)

\* The weights are numbers.
LEMMA WeightsAre ==
    ASSUME NEW b \in Paired!Outcomes, NEW c \in Paired!Outcomes
    PROVE  \E w, v, d : Weights(b, c, w, v, d)
  <1> DEFINE S == SharedOf(b, c)
             w == [t \in S |-> Paired!Score(c, t)]
             v == [t \in S |-> Paired!Score(b, t)]
             d == [t \in S |-> DeltaOf(b, c, t)]
  <1>1. \A t \in S : Paired!Score(c, t) \in Int /\ Paired!Score(b, t) \in Int
    BY ScoreIsNumber DEF SharedOf
  <1>2. \A t \in S : DeltaOf(b, c, t) \in Int
    BY <1>1 DEF DeltaOf
  <1>3. w \in [S -> Int] /\ v \in [S -> Int] /\ d \in [S -> Int]
    BY <1>1, <1>2
  <1>4. Difference(d, w, v, S)
    BY DEF Difference, DeltaOf
  <1> HIDE DEF S
  <1>5. Weights(b, c, w, v, d)
    BY <1>3, <1>4 DEF Weights, S
  <1> QED
    BY <1>5

\* The mean is the sum over the shared tasks, in whichever order they are listed.
LEMMA MeanIsSum ==
    ASSUME NEW b \in Paired!Outcomes, NEW c \in Paired!Outcomes,
           NEW w, NEW v, NEW d, Weights(b, c, w, v, d),
           NEW s, Sums(s, d, SharedOf(b, c))
    PROVE  Mean(b, c) = s[SharedOf(b, c)]
  <1> DEFINE S == SharedOf(b, c)
             ts == Paired!SetToSeq(S)
  <1>1. IsFiniteSet(S) /\ Paired!Cardinality(S) = Cardinality(S)
    BY SharedIsFinite
  <1> HIDE DEF S
  <1>2. PICK n \in Nat : /\ Lists(ts, n, S) /\ Len(ts) = n
    BY <1>1, ListedOnce
  <1> HIDE DEF ts
  <1> DEFINE x == [i \in 1 .. n |-> DeltaOf(b, c, ts[i])]
  <1>3. \A i \in 1 .. n : ts[i] \in S
    BY <1>2 DEF Lists
  <1>4. d = [t \in S |-> DeltaOf(b, c, t)] /\ d \in [S -> Int] /\ Sums(s, d, S)
    BY DEF Weights, S
  <1>5. x \in [1 .. n -> Int] /\ Weighs(x, d, ts, n) /\ Gained(x, b, c, ts, n)
    BY <1>3, <1>4 DEF Weighs, Gained
  <1>6. IsFiniteSet(1 .. n)
    <2>1. \A k \in Nat : IsFiniteSet(1 .. k)
      BY CountsFinite
    <2> QED
      BY <2>1
  <1>7. PICK r : Sums(r, x, 1 .. n)
    BY <1>5, <1>6, SumsExist
  <1>8. r[1 .. n] = s[S]
    <2> HIDE DEF x
    <2> QED
      BY <1>1, <1>2, <1>4, <1>5, <1>7, SumAlong
  <1>9. Along(b, c, ts) = r[1 .. n]
    <2> HIDE DEF x
    <2> QED
      BY <1>2, <1>5, <1>7, AlongIsSum
  <1> QED
    BY <1>8, <1>9 DEF Mean, S, ts

\* A gain that makes up for the loss.
Outweighs(b, c) ==
    Paired!Sum(c, BetterOf(b, c)) - Paired!Sum(b, BetterOf(b, c))
        >= Paired!Sum(b, WorseOf(b, c)) - Paired!Sum(c, WorseOf(b, c))

\* The mean is no loss exactly when what is better makes up for what is worse.
LEMMA MeanOutweighs ==
    ASSUME NEW b \in Paired!Outcomes, NEW c \in Paired!Outcomes
    PROVE  /\ Mean(b, c) \in Int
           /\ Mean(b, c) >= 0 => Outweighs(b, c) /\ (WorseOf(b, c) = {} \/ BetterOf(b, c) # {})
           /\ WorseOf(b, c) = {} => Mean(b, c) >= 0
  <1> DEFINE S == SharedOf(b, c)
             B == BetterOf(b, c)
             W == WorseOf(b, c)
  <1>1. IsFiniteSet(S)
    BY SharedIsFinite
  <1>2. PICK w, v, d : Weights(b, c, w, v, d)
    BY WeightsAre
  <1>w. /\ w = [t \in S |-> Paired!Score(c, t)] /\ w \in [S -> Int]
        /\ v = [t \in S |-> Paired!Score(b, t)] /\ v \in [S -> Int]
        /\ d \in [S -> Int] /\ Difference(d, w, v, S)
    BY <1>2 DEF Weights
  <1>b. B = {t \in S : d[t] > 0} /\ W = {t \in S : d[t] < 0}
    <2> SUFFICES ASSUME NEW t \in S
                 PROVE  /\ Paired!Score(c, t) > Paired!Score(b, t) <=> d[t] > 0
                        /\ Paired!Score(c, t) < Paired!Score(b, t) <=> d[t] < 0
      BY DEF BetterOf, WorseOf
    <2>1. w[t] \in Int /\ v[t] \in Int /\ d[t] \in Int
      BY <1>w
    <2>2. w[t] = Paired!Score(c, t) /\ v[t] = Paired!Score(b, t)
      BY <1>w
    <2>3. d[t] = w[t] - v[t]
      BY <1>w DEF Difference
    <2> QED
      BY <2>1, <2>2, <2>3
  <1> HIDE DEF B, W, S
  <1>3. PICK sd : Sums(sd, d, S)
    BY <1>1, <1>w, SumsExist
  <1>4. PICK sw : Sums(sw, w, S)
    BY <1>1, <1>w, SumsExist
  <1>5. PICK sv : Sums(sv, v, S)
    BY <1>1, <1>w, SumsExist
  <1>6. sd \in [SUBSET S -> Int] /\ sw \in [SUBSET S -> Int] /\ sv \in [SUBSET S -> Int] /\ sd[{}] = 0
    BY <1>3, <1>4, <1>5 DEF Sums
  <1>7. B \in SUBSET S /\ W \in SUBSET S /\ S \in SUBSET S
    BY <1>b
  <1>8. Difference(sd, sw, sv, SUBSET S)
    BY <1>1, <1>w, <1>3, <1>4, <1>5, SumDifference
  <1>9. sd[B] = sw[B] - sv[B] /\ sd[W] = sw[W] - sv[W]
    BY <1>7, <1>8 DEF Difference
  <1>10. sd[S] = sd[B] + sd[W]
    <2>1. Halves(sd, d, S)
      BY <1>1, <1>w, <1>3, SumSplit
    <2> QED
      BY <1>b, <2>1 DEF Halves
  <1>11. Mean(b, c) = sd[S]
    BY <1>2, <1>3, MeanIsSum DEF S
  <1>12. Scores(w, c, S) /\ Scores(v, b, S)
    BY <1>w DEF Scores
  <1>13. /\ Paired!Sum(c, B) = sw[B] /\ Paired!Sum(c, W) = sw[W]
    BY <1>1, <1>w, <1>4, <1>7, <1>12, ScoredIsSum
  <1>14. /\ Paired!Sum(b, B) = sv[B] /\ Paired!Sum(b, W) = sv[W]
    BY <1>1, <1>w, <1>5, <1>7, <1>12, ScoredIsSum
  <1>15. sw[B] \in Int /\ sw[W] \in Int /\ sv[B] \in Int /\ sv[W] \in Int /\ sd[S] \in Int /\ sd[B] \in Int /\ sd[W] \in Int
    BY <1>6, <1>7
  <1>16. Mean(b, c) >= 0 => Outweighs(b, c)
    <2>1. Outweighs(b, c) <=> sw[B] - sv[B] >= sv[W] - sw[W]
      BY <1>13, <1>14 DEF Outweighs, B, W
    <2> QED
      BY <1>9, <1>10, <1>11, <1>15, <2>1
  <1>17. sd[B] >= 0
    <2>1. \A t \in B : d[t] >= 0
      BY <1>b, <1>w
    <2> QED
      BY <1>1, <1>w, <1>3, <1>7, <2>1, SumSign
  <1>18. W = {} => Mean(b, c) >= 0
    BY <1>6, <1>10, <1>11, <1>15, <1>17
  <1>19. ASSUME W # {}, B = {}, Mean(b, c) >= 0 PROVE FALSE
    <2> DEFINE n == [t \in S |-> 0 - d[t]]
               z == [t \in S |-> 0]
    <2>1. n \in [S -> Int] /\ z \in [S -> Int]
      BY <1>w
    <2>2. Difference(n, z, d, S)
      BY <1>w DEF Difference
    <2>3. (\A t \in W : n[t] >= 0) /\ (\E t \in W : n[t] > 0)
      <3>1. \A t \in W : d[t] \in Int /\ d[t] < 0 /\ n[t] = 0 - d[t]
        BY <1>b, <1>w
      <3>2. \A t \in W : n[t] > 0 /\ n[t] >= 0
        <4> SUFFICES ASSUME NEW t \in W PROVE n[t] > 0 /\ n[t] >= 0
          OBVIOUS
        <4> DEFINE x == d[t]
        <4>1. x \in Int /\ x < 0 /\ n[t] = 0 - x
          BY <3>1
        <4> HIDE DEF x, n
        <4> QED
          BY <4>1
      <3> QED
        BY <1>19, <3>2
    <2>4. PICK sn : Sums(sn, n, S)
      BY <1>1, <2>1, SumsExist
    <2>5. PICK sz : Sums(sz, z, S)
      BY <1>1, <2>1, SumsExist
    <2>6. sz \in [SUBSET S -> Int] /\ sn \in [SUBSET S -> Int]
      BY <2>4, <2>5 DEF Sums
    <2>7. sz[W] = 0
      <3>1. Difference(z, d, d, S)
        <4>1. \A t \in S : d[t] \in Int /\ z[t] = 0
          BY <1>w
        <4> QED
          BY <4>1 DEF Difference
      <3> HIDE DEF n, z
      <3>2. Difference(sz, sd, sd, SUBSET S)
        BY <1>1, <1>w, <1>3, <2>1, <2>5, <3>1, SumDifference
      <3>3. sz[W] = sd[W] - sd[W]
        BY <1>7, <3>2 DEF Difference
      <3> QED
        BY <1>15, <3>3
    <2>8. sn[W] = sz[W] - sd[W]
      <3> HIDE DEF n, z
      <3>1. Difference(sn, sz, sd, SUBSET S)
        BY <1>1, <1>w, <1>3, <2>1, <2>2, <2>4, <2>5, SumDifference
      <3> QED
        BY <1>7, <3>1 DEF Difference
    <2>9. sn[W] > 0 /\ sn[W] \in Int
      <3> HIDE DEF n, z
      <3> QED
        BY <1>1, <1>7, <2>1, <2>3, <2>4, <2>6, SumSign
    <2>10. sd[B] = 0
      BY <1>6, <1>19
    <2> QED
      BY <1>10, <1>11, <1>15, <1>19, <2>7, <2>8, <2>9, <2>10
  <1> QED
    BY <1>11, <1>15, <1>16, <1>18, <1>19 DEF B, W

-----------------------------------------------------------------------------
\* Where nothing is worse, no resample is at a loss.
LEMMA DrawsGain ==
    ASSUME NEW b \in Paired!Outcomes, NEW c \in Paired!Outcomes, WorseOf(b, c) = {},
           NEW draw \in [1 .. Paired!Cardinality(SharedOf(b, c)) -> SharedOf(b, c)]
    PROVE  Along(b, c, draw) >= 0
  <1> DEFINE S == SharedOf(b, c)
             n == Paired!Cardinality(S)
             v == [i \in 1 .. n |-> DeltaOf(b, c, draw[i])]
  <1>1. n \in Nat
    BY SharedIsFinite, FS_CardinalityType
  <1>2. \A t \in S : DeltaOf(b, c, t) \in Int /\ DeltaOf(b, c, t) >= 0
    <2> SUFFICES ASSUME NEW t \in S PROVE DeltaOf(b, c, t) \in Int /\ DeltaOf(b, c, t) >= 0
      OBVIOUS
    <2>1. Paired!Score(b, t) \in Int /\ Paired!Score(c, t) \in Int
      BY ScoreIsNumber DEF SharedOf
    <2>2. ~ Paired!Score(c, t) < Paired!Score(b, t)
      BY DEF WorseOf
    <2> QED
      BY <2>1, <2>2 DEF DeltaOf
  <1> HIDE DEF n
  <1>3. draw \in [1 .. n -> S] /\ Len(draw) = n
    BY <1>1 DEF n
  <1> HIDE DEF S
  <1>4. v \in [1 .. n -> Int] /\ \A i \in 1 .. n : v[i] >= 0
    BY <1>2, <1>3
  <1>5. IsFiniteSet(1 .. n)
    <2>1. \A k \in Nat : IsFiniteSet(1 .. k)
      BY CountsFinite
    <2> QED
      BY <1>1, <2>1
  <1>6. PICK r : Sums(r, v, 1 .. n)
    BY <1>4, <1>5, SumsExist
  <1>7. Gained(v, b, c, draw, n)
    BY <1>4 DEF Gained
  <1> HIDE DEF v
  <1>8. Along(b, c, draw) = r[1 .. n]
    BY <1>1, <1>3, <1>6, <1>7, AlongIsSum
  <1>9. r[1 .. n] >= 0
    <2> DEFINE I == 1 .. n
    <2>1. v \in [I -> Int] /\ Sums(r, v, I) /\ IsFiniteSet(I) /\ I \in SUBSET I /\ \A i \in I : v[i] >= 0
      BY <1>4, <1>5, <1>6
    <2> HIDE DEF I
    <2>2. r[I] >= 0
      BY <2>1, SumSign
    <2> QED
      BY <2>2 DEF I
  <1> QED
    BY <1>8, <1>9

\* From the other side the mean is the opposite.
LEMMA MeanBack ==
    ASSUME NEW b \in Paired!Outcomes, NEW c \in Paired!Outcomes, Mean(b, c) >= 0
    PROVE  ~ Mean(c, b) > 0
  <1> DEFINE S == SharedOf(b, c)
  <1>1. IsFiniteSet(S) /\ SharedOf(c, b) = S
    BY SharedIsFinite DEF SharedOf
  <1>2. PICK w, v, d : Weights(b, c, w, v, d)
    BY WeightsAre
  <1>3. PICK x, y, e : Weights(c, b, x, y, e)
    BY WeightsAre
  <1>4. d \in [S -> Int] /\ d = [t \in S |-> DeltaOf(b, c, t)]
    BY <1>2 DEF Weights
  <1>5. e \in [S -> Int] /\ e = [t \in S |-> DeltaOf(c, b, t)]
    BY <1>1, <1>3 DEF Weights
  <1> DEFINE z == [t \in S |-> 0]
  <1>6. \A t \in S : Paired!Score(b, t) \in Int /\ Paired!Score(c, t) \in Int
    BY ScoreIsNumber DEF SharedOf
  <1>7. z \in [S -> Int] /\ Difference(z, d, d, S) /\ Difference(e, z, d, S)
    <2>1. Difference(z, d, d, S)
      <3>1. \A t \in S : d[t] \in Int /\ z[t] = 0
        BY <1>4
      <3> QED
        BY <3>1 DEF Difference
    <2>2. Difference(e, z, d, S)
      <3> SUFFICES ASSUME NEW t \in S PROVE e[t] = z[t] - d[t]
        BY DEF Difference
      <3>1. e[t] = DeltaOf(c, b, t) /\ d[t] = DeltaOf(b, c, t) /\ z[t] = 0
        BY <1>4, <1>5
      <3> HIDE DEF z
      <3> QED
        BY <1>6, <3>1 DEF DeltaOf
    <2> QED
      BY <2>1, <2>2
  <1> HIDE DEF z, S
  <1>8. PICK sd : Sums(sd, d, S)
    BY <1>1, <1>4, SumsExist
  <1>9. PICK se : Sums(se, e, S)
    BY <1>1, <1>5, SumsExist
  <1>10. PICK sz : Sums(sz, z, S)
    BY <1>1, <1>7, SumsExist
  <1>11. Difference(sz, sd, sd, SUBSET S) /\ Difference(se, sz, sd, SUBSET S)
    BY <1>1, <1>4, <1>5, <1>7, <1>8, <1>9, <1>10, SumDifference
  <1>12. sz[S] = sd[S] - sd[S] /\ se[S] = sz[S] - sd[S] /\ sd[S] \in Int
    <2>1. S \in SUBSET S
      OBVIOUS
    <2> QED
      BY <1>8, <1>11, <2>1 DEF Difference, Sums
  <1>13. Mean(b, c) = sd[S]
    BY <1>2, <1>8, MeanIsSum DEF S
  <1>14. Mean(c, b) = se[S]
    <2>1. Sums(se, e, SharedOf(c, b))
      BY <1>1, <1>9
    <2>2. Mean(c, b) = se[SharedOf(c, b)]
      BY <1>3, <2>1, MeanIsSum
    <2> QED
      BY <1>1, <2>2
  <1> QED
    BY <1>12, <1>13, <1>14

-----------------------------------------------------------------------------
\* The two sides as they stand, the resamples that no draw can lose, and what a verdict rests on.
PairedInv ==
    LET b == pair.best
        c == pair.candidate
    IN  /\ paired \in PairedGates
        /\ pair \in [best : Paired!Outcomes, candidate : Paired!Outcomes]
        /\ Paired!TypeOK
        /\ verdict = "none" /\ WorseOf(b, c) = {} => wins = drawn
        /\ verdict = "accepted" => Paired!Cardinality(SharedOf(b, c)) >= paired.minTasks /\ Mean(b, c) >= 0
        /\ verdict = "rejected" => WorseOf(b, c) # {}
        /\ reversed => ~ Mean(b, c) > 0

\* What the definitions of the gate are of the two sides.
LEMMA OfSides ==
    /\ Paired!Shared = SharedOf(pair.best, pair.candidate)
    /\ \A ts : Paired!Total(ts) = Along(pair.best, pair.candidate, ts)
    /\ Paired!Total(Paired!SetToSeq(Paired!Shared)) = Mean(pair.best, pair.candidate)
  <1>1. Paired!Shared = SharedOf(pair.best, pair.candidate)
    BY DEF Paired!Shared, SharedOf
  <1>2. ASSUME NEW ts PROVE Paired!Total(ts) = Along(pair.best, pair.candidate, ts)
    <2>1. \A t : Paired!Delta(t) = DeltaOf(pair.best, pair.candidate, t)
      BY DEF Paired!Delta, DeltaOf
    <2>2. [i \in 1 .. Len(ts) |-> Paired!Delta(ts[i])] = [i \in 1 .. Len(ts) |-> DeltaOf(pair.best, pair.candidate, ts[i])]
      BY <2>1
    <2> QED
      BY <2>2 DEF Paired!Total, Along, TotalOf
  <1>3. Paired!Total(Paired!SetToSeq(Paired!Shared)) = Mean(pair.best, pair.candidate)
    BY <1>1, <1>2 DEF Mean
  <1> QED
    BY <1>1, <1>2, <1>3

\* The counts that a gate may have are numbers.
LEMMA GateNumbers ==
    ASSUME PairedInv
    PROVE  /\ paired.resamples \in Nat \ {0} /\ paired.minTasks \in Nat \ {0} /\ paired.enough \in Nat \ {0}
           /\ paired.enough <= paired.resamples
           /\ pair.best \in Paired!Outcomes /\ pair.candidate \in Paired!Outcomes
           /\ drawn \in Nat /\ wins \in Nat /\ wins <= drawn /\ drawn <= paired.resamples
  <1>1. paired \in PairedGates /\ pair \in [best : Paired!Outcomes, candidate : Paired!Outcomes]
    BY DEF PairedInv
  <1>2. /\ paired.resamples \in Nat \ {0} /\ paired.minTasks \in Nat \ {0} /\ paired.enough \in Nat \ {0}
        /\ paired.enough <= paired.resamples
    BY <1>1
  <1> QED
    BY <1>1, <1>2 DEF PairedInv, Paired!TypeOK

\* Two evaluations and no resample yet.
LEMMA InitPaired == Paired!Init => PairedInv
  <1> SUFFICES ASSUME Paired!Init PROVE PairedInv
    OBVIOUS
  <1>1. /\ paired \in PairedGates /\ pair \in [best : Paired!Outcomes, candidate : Paired!Outcomes]
        /\ drawn = 0 /\ wins = 0 /\ verdict = "none" /\ reversed = FALSE
    BY DEF Paired!Init
  <1>2. paired.resamples \in Nat
    BY <1>1
  <1>3. Paired!TypeOK
    <2>1. drawn \in 0 .. paired.resamples /\ wins \in 0 .. drawn
      BY <1>1, <1>2
    <2>2. verdict \in {"none", "no_tasks", "too_few", "accepted", "rejected"} /\ reversed \in BOOLEAN
      BY <1>1
    <2> QED
      BY <2>1, <2>2 DEF Paired!TypeOK
  <1>4. reversed = FALSE /\ verdict # "accepted" /\ verdict # "rejected" /\ wins = drawn
    BY <1>1
  <1> QED
    BY <1>1, <1>3, <1>4 DEF PairedInv

\* A resample that has nothing to lose is a win.
LEMMA ResampleKeeps == ASSUME PairedInv, Paired!Resample PROVE PairedInv'
  <1> DEFINE b == pair.best
             c == pair.candidate
  <1>1. /\ verdict = "none" /\ drawn < paired.resamples /\ drawn' = drawn + 1
        /\ UNCHANGED <<paired, pair, verdict, reversed>>
    BY DEF Paired!Resample, Paired!Comparing, Paired!Deciding
  <1>2. PICK draw \in Paired!Draws : wins' = IF Paired!Total(draw) >= 0 THEN wins + 1 ELSE wins
    BY DEF Paired!Resample
  <1>3. draw \in [1 .. Paired!Cardinality(SharedOf(b, c)) -> SharedOf(b, c)]
    BY <1>2, OfSides DEF Paired!Draws
  <1>4. WorseOf(b, c) = {} => wins' = drawn'
    <2> SUFFICES ASSUME WorseOf(b, c) = {} PROVE wins' = drawn'
      OBVIOUS
    <2>1. Along(b, c, draw) >= 0
      BY <1>3, GateNumbers, DrawsGain
    <2>2. wins' = wins + 1
      BY <1>2, <2>1, OfSides
    <2> QED
      BY <1>1, <2>2 DEF PairedInv
  <1>5. Paired!TypeOK'
    <2>1. wins' \in 0 .. drawn' /\ drawn' \in 0 .. paired.resamples
      <3>1. wins' = wins + 1 \/ wins' = wins
        BY <1>2
      <3> QED
        BY <1>1, <3>1, GateNumbers
    <2> QED
      BY <1>1, <2>1 DEF Paired!TypeOK, PairedInv
  <1>6. b' = b /\ c' = c
    BY <1>1
  <1> QED
    BY <1>1, <1>4, <1>5, <1>6 DEF PairedInv

\* A verdict rests on the mean and on the resamples.
LEMMA DecideKeeps == ASSUME PairedInv, Paired!Decide PROVE PairedInv'
  <1> DEFINE b == pair.best
             c == pair.candidate
  <1>1. /\ verdict = "none" /\ drawn = paired.resamples
        /\ Paired!Cardinality(SharedOf(b, c)) >= paired.minTasks
        /\ verdict' = IF Paired!Accepts THEN "accepted" ELSE "rejected"
        /\ UNCHANGED <<paired, pair, drawn, wins, reversed>>
    BY OfSides DEF Paired!Decide, Paired!Comparing, Paired!Deciding
  <1>2. Paired!Accepts => Mean(b, c) >= 0
    BY OfSides DEF Paired!Accepts
  <1>3. WorseOf(b, c) = {} => Paired!Accepts
    <2> SUFFICES ASSUME WorseOf(b, c) = {} PROVE Paired!Accepts
      OBVIOUS
    <2>1. wins >= paired.enough
      BY <1>1, GateNumbers DEF PairedInv
    <2>2. Mean(b, c) >= 0
      BY GateNumbers, MeanOutweighs
    <2> QED
      BY <2>1, <2>2, OfSides DEF Paired!Accepts
  <1>4. Paired!TypeOK'
    BY <1>1 DEF Paired!TypeOK, PairedInv
  <1>5. b' = b /\ c' = c
    BY <1>1
  <1> QED
    BY <1>1, <1>2, <1>3, <1>4, <1>5 DEF PairedInv

\* The sides change places, and with them the sign of the mean.
LEMMA BackKeeps == ASSUME PairedInv, Paired!ProposeBack PROVE PairedInv'
  <1> DEFINE b == pair.best
             c == pair.candidate
  <1>1. /\ verdict = "accepted" /\ reversed' = TRUE /\ paired' = paired
        /\ pair' = [best |-> c, candidate |-> b]
        /\ drawn' = 0 /\ wins' = 0 /\ verdict' = "none"
    BY DEF Paired!ProposeBack
  <1>2. pair'.best = c /\ pair'.candidate = b
    BY <1>1
  <1>3. ~ Mean(c, b) > 0
    <2>1. Mean(b, c) >= 0
      BY <1>1 DEF PairedInv
    <2> QED
      BY <2>1, GateNumbers, MeanBack
  <1>4. Paired!TypeOK'
    BY <1>1, GateNumbers DEF Paired!TypeOK
  <1>5. pair' \in [best : Paired!Outcomes, candidate : Paired!Outcomes]
    BY <1>1, GateNumbers
  <1> QED
    BY <1>1, <1>2, <1>3, <1>4, <1>5 DEF PairedInv

\* Every action of the gate keeps the invariant.
LEMMA StepPaired == ASSUME PairedInv, [Paired!Next]_Paired!vars PROVE PairedInv'
  <1>1. CASE UNCHANGED Paired!vars
    <2>1. UNCHANGED <<paired, pair, drawn, wins, verdict, reversed>>
      BY <1>1 DEF Paired!vars
    <2> QED
      BY <2>1 DEF PairedInv, Paired!TypeOK
  <1>2. CASE Paired!NoTasks \/ Paired!TooFew
    <2>1. verdict' \in {"no_tasks", "too_few"} /\ UNCHANGED <<paired, pair, drawn, wins, reversed>>
      BY <1>2 DEF Paired!NoTasks, Paired!TooFew
    <2> QED
      BY <2>1 DEF PairedInv, Paired!TypeOK
  <1>3. CASE Paired!Resample
    BY <1>3, ResampleKeeps
  <1>4. CASE Paired!Decide
    BY <1>4, DecideKeeps
  <1>5. CASE Paired!ProposeBack
    BY <1>5, BackKeeps
  <1> QED
    BY <1>1, <1>2, <1>3, <1>4, <1>5 DEF Paired!Next

\* What the invariant says of a verdict.
LEMMA PairedAccepts == PairedInv => Paired!AcceptedAsPaired /\ Paired!NoWayBack
  <1> SUFFICES ASSUME PairedInv PROVE Paired!AcceptedAsPaired /\ Paired!NoWayBack
    OBVIOUS
  <1> DEFINE b == pair.best
             c == pair.candidate
  <1>1. Paired!Shared = SharedOf(b, c) /\ Paired!Total(Paired!SetToSeq(Paired!Shared)) = Mean(b, c)
    BY OfSides
  <1>2. /\ Mean(b, c) \in Int
        /\ Mean(b, c) >= 0 => Outweighs(b, c) /\ (WorseOf(b, c) = {} \/ BetterOf(b, c) # {})
    BY GateNumbers, MeanOutweighs
  <1>3. Paired!AcceptedAsPaired
    <2>1. /\ verdict = "accepted" => Paired!Cardinality(SharedOf(b, c)) >= paired.minTasks /\ Outweighs(b, c)
          /\ verdict = "rejected" => WorseOf(b, c) # {}
          /\ verdict = "accepted" => WorseOf(b, c) = {} \/ BetterOf(b, c) # {}
      BY <1>2 DEF PairedInv
    <2>2. Paired!Shared = SharedOf(b, c)
      BY <1>1
    <2> QED
      BY <2>1, <2>2 DEF Paired!AcceptedAsPaired, Outweighs, WorseOf, BetterOf
  <1>4. Paired!NoWayBack
    <2> SUFFICES ASSUME verdict = "accepted", reversed PROVE Mean(b, c) = 0
      BY <1>1 DEF Paired!NoWayBack
    <2>1. Mean(b, c) >= 0 /\ ~ Mean(b, c) > 0
      BY DEF PairedInv
    <2> QED
      BY <1>2, <2>1
  <1> QED
    BY <1>3, <1>4

\* While the part is this gate, a step is one of PairedGate or changes nothing of it.
LEMMA PairedMoves ==
    ASSUME part = "paired", [MCNext]_MCVars PROVE part' = part /\ [Paired!Next]_Paired!vars
  <1>1. CASE MCNext
    BY <1>1 DEF MCNext, Paired!vars
  <1>2. CASE UNCHANGED MCVars
    <2>1. UNCHANGED <<part, newerVars>>
      BY <1>2 DEF MCVars
    <2>2. UNCHANGED pairedVars
      BY <2>1 DEF newerVars
    <2> QED
      BY <2>1, <2>2 DEF pairedVars, Paired!vars
  <1> QED
    BY <1>1, <1>2

PairedHolds == part = "paired" => PairedInv

\* The invariant of the gate holds at every step of the part.
LEMMA PairedAlways == MCSpec => []PairedHolds
  <1>1. MCInit => PairedHolds
    BY InitPaired DEF MCInit, PairedHolds
  <1>2. PairedHolds /\ [MCNext]_MCVars => PairedHolds'
    <2> SUFFICES ASSUME PairedHolds, [MCNext]_MCVars, part' = "paired" PROVE PairedInv'
      BY DEF PairedHolds
    <2>1. part = "paired"
      BY PartStays
    <2>2. [Paired!Next]_Paired!vars
      BY <2>1, PairedMoves
    <2> QED
      BY <2>1, <2>2, StepPaired DEF PairedHolds
  <1> QED
    BY <1>1, <1>2, PTL DEF MCSpec

\* A gate accepts when its requirements are met and only then: those of the objective, each
\* metric observed and inside its bounds with the gains its mode asks for; and of paired tasks
\* never at a loss, on too few, or without a task that gained (gates.py:164-195, 254-458).
THEOREM AcceptanceAsRequired == MCSpec => []AcceptedAsRequired
  <1>1. GateHolds /\ PairedHolds => AcceptedAsRequired
    BY GateAccepts, PairedAccepts DEF GateHolds, PairedHolds, AcceptedAsRequired
  <1> QED
    BY GateAlways, PairedAlways, <1>1, PTL

\* What a gate accepted it does not undo: the replaced graph is accepted again only in a tie of
\* paired tasks, or where two metrics tolerate a loss that counts as a gain (gates.py:195, 403-458).
THEOREM AcceptanceStands == MCSpec => []NoWayBack
  <1>1. GateHolds /\ PairedHolds => NoWayBack
    BY GateAccepts, PairedAccepts DEF GateHolds, PairedHolds, NoWayBack
  <1> QED
    BY GateAlways, PairedAlways, <1>1, PTL

HIDE PairedAssumption

-----------------------------------------------------------------------------
(* The types of all stages.                                                *)

\* The length of the items of a text, summed from the end.
ItemsSize(items) == Rejections!FoldLeft(LAMBDA n, item : n + Rejections!Size(item), 0, items)

\* A sum of sizes is a size.
LEMMA SizesAdd ==
    ASSUME NEW n \in Nat, NEW items, DOMAIN items = 1 .. n,
           \A i \in 1 .. n : Rejections!Size(items[i]) \in Nat
    PROVE  ItemsSize(items) \in Nat
  <1> DEFINE I == 1 .. n
             v == [i \in I |-> Rejections!Size(items[i])]
             iter[gs \in SUBSET I] == IF gs = {} THEN 0
                                      ELSE LET x == Rejections!Max(gs)
                                           IN  iter[gs \ {x}] + Rejections!Size(items[x])
             c == [gs \in SUBSET I |-> Rejections!Max(gs)]
  <1>1. IsFiniteSet(I)
    <2>1. \A k \in Nat : IsFiniteSet(1 .. k)
      BY CountsFinite
    <2> QED
      BY <2>1
  <1>2. Chooses(c, I)
    <2> SUFFICES ASSUME NEW gs \in SUBSET I, gs # {} PROVE Rejections!Max(gs) \in gs
      BY DEF Chooses
    <2>1. \E m \in gs : \A i \in gs : m >= i
      BY GreatestIsOne
    <2> QED
      BY <2>1 DEF Rejections!Max
  <1>3. v \in [I -> Nat] /\ v \in [I -> Int]
    OBVIOUS
  <1>4. PICK s : Sums(s, v, I)
    <2> HIDE DEF I, v
    <2> QED
      BY <1>1, <1>3, SumsExist
  <1> DEFINE f == [gs \in SUBSET I |-> s[gs]]
  <1>s. /\ s \in [SUBSET I -> Int] /\ s[{}] = 0
        /\ \A gs \in SUBSET I : \A x \in gs : s[gs] = v[x] + s[gs \ {x}]
    BY <1>4 DEF Sums
  <1>5. \A gs \in SUBSET I :
           f[gs] = IF gs = {} THEN 0 ELSE f[gs \ {Rejections!Max(gs)}] + Rejections!Size(items[Rejections!Max(gs)])
    <2> SUFFICES ASSUME NEW gs \in SUBSET I, gs # {}
                 PROVE  f[gs] = f[gs \ {Rejections!Max(gs)}] + Rejections!Size(items[Rejections!Max(gs)])
      BY <1>s
    <2> DEFINE x == Rejections!Max(gs)
    <2>1. x \in gs
      <3>1. c[gs] \in gs
        BY <1>2 DEF Chooses
      <3> QED
        BY <3>1
    <2> HIDE DEF x
    <2>0. v[x] = Rejections!Size(items[x])
      BY <2>1
    <2> HIDE DEF v
    <2>2. s[gs] = v[x] + s[gs \ {x}] /\ gs \ {x} \in SUBSET I /\ v[x] \in Int /\ s[gs \ {x}] \in Int
      BY <1>3, <1>s, <2>1
    <2>3. f[gs] = f[gs \ {x}] + Rejections!Size(items[x])
      BY <2>0, <2>2
    <2> QED
      BY <2>3 DEF x
  <1>6. f = [gs \in SUBSET I |->
               IF gs = {} THEN 0 ELSE f[gs \ {Rejections!Max(gs)}] + Rejections!Size(items[Rejections!Max(gs)])]
    <2> HIDE DEF I
    <2> QED
      BY <1>5
  <1>7. iter = [gs \in SUBSET I |->
                  IF gs = {} THEN 0 ELSE iter[gs \ {Rejections!Max(gs)}] + Rejections!Size(items[Rejections!Max(gs)])]
    <2> HIDE DEF f
    <2> QED
      BY <1>6
  <1>8. ItemsSize(items) = iter[I]
    BY DEF ItemsSize, Rejections!FoldLeft, Rejections!MapThenFoldSet
  <1> HIDE DEF iter
  <1> DEFINE P == {gs \in SUBSET I : iter[gs] \in Nat}
  <1>9. {} \in P
    BY <1>7
  <1>10. ASSUME NEW gs \in SUBSET I, gs # {}, \A x \in gs : gs \ {x} \in P PROVE gs \in P
    <2> DEFINE x == Rejections!Max(gs)
    <2>1. x \in gs
      <3>1. c[gs] \in gs
        BY <1>2, <1>10 DEF Chooses
      <3> QED
        BY <3>1
    <2>2. iter[gs] = iter[gs \ {x}] + Rejections!Size(items[x])
      BY <1>7, <1>10
    <2> HIDE DEF x
    <2>3. iter[gs \ {x}] \in Nat /\ Rejections!Size(items[x]) \in Nat
      BY <1>10, <2>1
    <2> QED
      BY <2>2, <2>3
  <1> HIDE DEF P
  <1>11. P = SUBSET I
    <2>1. P \in SUBSET SUBSET I
      BY DEF P
    <2> HIDE DEF I
    <2> QED
      BY <1>1, <1>9, <1>10, <2>1, SetsByStep
  <1> QED
    BY <1>8, <1>11 DEF P

\* Of memory, a text of any of its entries has a length.
LEMMA TextHasLength ==
    ASSUME TextAssumption, TrimInv PROVE Rejections!TextSize(rendered) \in Nat
<1>1. Len(rendered) \in Nat /\ DOMAIN rendered = 1 .. Len(rendered)
  BY DEF TrimInv
<1>2. ASSUME NEW i \in 1 .. Len(rendered) PROVE Rejections!Size(rendered[i]) \in Nat
  <2>1. rendered[i] \in Item(Len(entries))
    BY DEF TrimInv
  <2>2. rendered[i].entry \in 1 .. Len(entries)
    BY <2>1 DEF Item
  <2>3. entries[rendered[i].entry] \in EntryTexts
    BY <2>2 DEF TrimInv
  <2> QED
    BY <2>3 DEF Rejections!Size, TextAssumption
<1>3. ItemsSize(rendered) \in Nat
  BY <1>1, <1>2, SizesAdd
<1>4. HeadLength \in Nat
  BY DEF TextAssumption
<1>5. Rejections!TextSize(rendered) = HeadLength + ItemsSize(rendered)
  BY DEF Rejections!TextSize, ItemsSize
<1> QED
  BY <1>3, <1>4, <1>5

\* What is returned has a length.
LEMMA LengthStays ==
    ASSUME TextAssumption, TrimInv, length \in Nat, [Rejections!Next]_Rejections!vars
    PROVE  length' \in Nat
<1>1. CASE UNCHANGED length
  BY <1>1
<1>2. CASE Rejections!Return
  <2>1. cap \in Int /\ MarkLength \in Nat
    BY DEF TrimInv, TextAssumption
  <2>2. length' = IF Rejections!TooLong THEN (IF cap > MarkLength THEN cap - MarkLength ELSE 0) + MarkLength
                  ELSE Rejections!TextSize(rendered)
    BY <1>2 DEF Rejections!Return
  <2>3. CASE Rejections!TooLong
    BY <2>1, <2>2, <2>3
  <2>4. CASE ~ Rejections!TooLong
    BY <2>2, <2>4, TextHasLength
  <2> QED
    BY <2>3, <2>4
<1> QED
  BY <1>1, <1>2 DEF Rejections!Next, Rejections!DropLine, Rejections!Demote, Rejections!vars

\* The text is of entries in their order.
LEMMA RejectionsTyped == ASSUME TrimInv, length \in Nat PROVE Rejections!TypeOK
<1>1. /\ trimming \in {"lines", "full", "done"}
      /\ rendered \in Seq(Item(Len(entries)))
      /\ InRow(rendered) /\ Shows(TRUE) \subseteq Rejections!Recent
  BY DEF TrimInv
<1>2. \A i \in 1 .. Len(rendered) : rendered[i].entry \in 1 .. Len(entries)
  <2> SUFFICES ASSUME NEW i \in 1 .. Len(rendered) PROVE rendered[i].entry \in 1 .. Len(entries)
    OBVIOUS
  <2>1. rendered[i] \in Item(Len(entries))
    BY <1>1
  <2> QED
    BY <2>1 DEF Item
<1>3. \A i, j \in 1 .. Len(rendered) : i < j => rendered[i].entry < rendered[j].entry
  BY <1>1 DEF InRow
<1>4. Rejections!Shown(TRUE) = Shows(TRUE)
  BY DEF Rejections!Shown, Rejections!Positions, Shows, EntriesOf
<1> QED
  BY <1>1, <1>2, <1>3, <1>4 DEF Rejections!TypeOK

\* Each trace is in the block once, and the table too.
LEMMA BlockTyped == ASSUME AttemptsAssumption, NoneAssumption, BlockInv PROVE Block!TypeOK
<1>1. CASE chosen = None
  <2>1. whole = None
    BY <1>1 DEF BlockInv
  <2> QED
    BY <1>1, <2>1 DEF Block!TypeOK
<1>2. CASE chosen # None
  <2>1. ListInv
    BY <1>2 DEF BlockInv
  <2>2. Block!Taken \subseteq 1 .. Len(batch)
    BY <2>1 DEF ListInv, SampleOf, Got, Block!Taken, Block!Left
  <2>3. ASSUME NEW n \in 2 .. Len(block), block[n].piece # "usage" PROVE block[n].of \in Block!Taken
    BY <2>1, <2>3 DEF ListInv, TraceAt, TableAt
  <2>4. Len(block) \in Nat
    BY DEF BlockInv
  <2>5. ASSUME NEW m \in 2 .. Len(block), NEW n \in 2 .. Len(block), m < n PROVE block[m] # block[n]
    <3>1. CASE TraceAt(m)
      <4>1. CASE TraceAt(n)
        <5>1. Block!Before(block[m].of, block[n].of)
          BY <2>1, <2>5, <4>1 DEF ListInv
        <5>2. block[m].of \in 1 .. Len(batch) /\ block[n].of \in 1 .. Len(batch)
          BY <2>2, <3>1, <4>1 DEF TraceAt
        <5>3. block[m].of # block[n].of
          BY <5>1, <5>2, BeforeFalls DEF BlockInv
        <5> QED
          BY <5>3
      <4>2. CASE TableAt(n)
        BY <3>1, <4>2 DEF TraceAt, TableAt
      <4> QED
        BY <2>1, <4>1, <4>2 DEF ListInv
    <3>2. CASE TableAt(m)
      <4>1. m = Len(block)
        BY <3>2 DEF TableAt
      <4> QED
        BY <2>4, <2>5, <4>1
    <3> QED
      BY <2>1, <3>1, <3>2 DEF ListInv
  <2>6. \A m, n \in 2 .. Len(block) : block[m] = block[n] => m = n
    <3> SUFFICES ASSUME NEW m \in 2 .. Len(block), NEW n \in 2 .. Len(block), m # n PROVE block[m] # block[n]
      OBVIOUS
    <3>1. m < n \/ n < m
      OBVIOUS
    <3> QED
      BY <2>5, <3>1
  <2>7. whole \in 0 .. Len(block) \cup {None}
    BY DEF BlockInv
  <2> QED
    BY <2>2, <2>3, <2>6, <2>7 DEF Block!TypeOK
<1> QED
  BY <1>1, <1>2

\* The number of the length is one from the first.
LengthHolds == part = "rejections" => length \in Nat

\* It stays one.
LEMMA LengthAlways == MCSpec => []LengthHolds
<1>1. MCInit => LengthHolds
  BY DEF MCInit, LengthHolds, Rejections!Init
<1>2. TextsHold /\ LengthHolds /\ [MCNext]_MCVars => LengthHolds'
  <2> SUFFICES ASSUME TextsHold, LengthHolds, [MCNext]_MCVars, part' = "rejections" PROVE length' \in Nat
    BY DEF LengthHolds
  <2>1. part = "rejections"
    BY PartStays
  <2>2. [Rejections!Next]_Rejections!vars
    BY <2>1, RejectionsMove
  <2> QED
    BY <2>1, <2>2, TextAssumption, LengthStays DEF TextsHold, LengthHolds
<1> QED
  BY <1>1, <1>2, TextsAlways, PTL DEF MCSpec

\* The first graph has a draft and a meter.
LEMMA FirstTyped == ASSUME CallsAssumption, FirstInv PROVE First!TypeOK
<1>1. /\ drafting \in DraftType
      /\ drafting.graph # None <=> drafting.reply = "good"
      /\ drafting.own <= Retries + 1
      /\ budget \in [calls : Nat, ceiling : {None, MaxCalls}]
  BY DEF FirstInv, DraftInv, MeterInv
<1>2. drafting.step \in {"none", "propose", "asked", "made", "failed"} /\ drafting.own \in Nat
  BY <1>1 DEF DraftType
<1>3. drafting.own \in 0 .. Retries + 1
  BY <1>1, <1>2 DEF CallsAssumption
<1> QED
  BY <1>1, <1>2, <1>3 DEF First!TypeOK

\* The parts there are.
Known ==
    part \in {"candidate", "gate", "calls", "sampling", "rejections", "tail",
             "context", "first", "paired", "block"}

\* No step changes the part.
LEMMA PartsAre == MCSpec => []Known
<1>1. MCInit => Known
  BY DEF MCInit, Known
<1>2. Known /\ [MCNext]_MCVars => Known'
  BY PartStays DEF Known
<1> QED
  BY <1>1, <1>2, PTL DEF MCSpec

\* In each stage of a round, whatever the constants: what it keeps is of its type, and so are the
\* relations of the types: the lengths of a text and the order of its entries, each trace listed
\* once, the bounds of a search, the draft and its reply (rejections.py:246-282,
\* traces.py:229-272, guidance.py:142-201, bootstrap.py:116-137, gates.py:164-195, 403-458).
THEOREM PartsKeepTypes == MCSpec => []PartsTypeOK
<1>1. ASSUME Known, TypeOK, GateHolds, CallsHold, SampHolds, TextsHold, LengthHolds, TailHolds,
             ContextHolds, FirstHolds, PairedHolds
      PROVE  PartsTypeOK
  <2>1. part = "gate" => Gate!TypeOK
    BY <1>1 DEF GateHolds, GateInv
  <2>2. part = "calls" => Calls!TypeOK
    BY <1>1 DEF CallsHold, CallsInv
  <2>3. part = "sampling" => Sampling!TypeOK
    BY <1>1 DEF SampHolds, SampInv
  <2>4. part = "rejections" => Rejections!TypeOK
    BY <1>1, RejectionsTyped DEF TextsHold, LengthHolds
  <2>5. part = "tail" => Text!TypeOK
    BY <1>1 DEF TailHolds, TailInv
  <2>6. part = "context" => Context!TypeOK
    BY <1>1 DEF ContextHolds, ContextInv
  <2>7. part = "first" => First!TypeOK
    BY <1>1, CallsAssumption, FirstTyped DEF FirstHolds
  <2>8. part = "paired" => Paired!TypeOK
    BY <1>1 DEF PairedHolds, PairedInv
  <2>9. part = "block" => Block!TypeOK
    BY <1>1, AttemptsAssumption, NoneAssumption, BlockTyped DEF TextsHold
  <2>10. Known /\ TypeOK
    BY <1>1
  <2> QED
    BY <2>1, <2>2, <2>3, <2>4, <2>5, <2>6, <2>7, <2>8, <2>9, <2>10 DEF PartsTypeOK, Known
<1>2. MCSpec => []TypeOK
  BY CandidatePart, TypeCorrect, PTL
<1> QED
  BY <1>1, <1>2, PartsAre, GateAlways, CallsAlways, SamplingAlways, TextsAlways, LengthAlways, TailAlways,
     ContextAlways, FirstAlways, PairedAlways, PTL

=============================================================================

---------------------------- MODULE ObjectiveGate ----------------------------
(***************************************************************************)
(* ObjectiveGate.compare() of gates.py: a candidate against the retained   *)
(* graph over several metrics, and later the replaced graph proposed again *)
(* against the one that replaced it.                                       *)
(*                                                                         *)
(* Of the values a side has for a metric the model keeps their mean or the *)
(* first of them that is no number; all metrics have one width, so all     *)
(* intervals have one radius, and thresholds are in units of the means.    *)
(***************************************************************************)
EXTENDS RoundConstants

\* "unknown_first": a value is unknown, and one the loop would come to later is invalid.
Observation ==
    [seen : {"all"}, mean : Means] \cup [seen : {"unknown", "unknown_first", "invalid"}, mean : {0}]

Tasks == {"expected", "none", "duplicated", "other"}

VARIABLES
    objective,
    baseline,     \* the evaluation of the retained graph
    candidate,
    phase,        \* the check compare() has come to
    left,         \* metrics the mode rule has still to visit
    improved,     \* what the Pareto rule has collected
    regressed,
    protected,
    equivalent,
    disposition,
    decisive,     \* the metric that decided, or None
    back          \* the replaced graph is the candidate now

vars == <<objective, baseline, candidate, phase, left, improved, regressed, protected, equivalent,
          disposition, decisive, back>>
given == <<objective, baseline, candidate, back>>
collected == <<improved, regressed, protected, equivalent>>

Metrics == 1 .. Len(objective.metrics)
Metric(i) == objective.metrics[i]
Optimized == {i \in Metrics : Metric(i).optimized}
First(is) == CHOOSE i \in is : \A j \in is : i <= j

-----------------------------------------------------------------------------
(* What the evaluations say of a metric.                                   *)

\* The candidate's values alone decide whether the pair is known.
Pair_CandidateOnly(i) ==
    IF candidate.of[i].seen = "unknown_first" THEN "unknown" ELSE candidate.of[i].seen

\* _observations(): the baseline's values, then the candidate's, up to the first that is none.
Pair(i) ==
    LET side == IF baseline.of[i].seen # "all" THEN baseline ELSE candidate
    IN  IF side.of[i].seen = "unknown_first" THEN "unknown" ELSE side.of[i].seen

\* oriented(): an improvement is positive.
Delta(i) ==
    IF Metric(i).direction = "maximize"
    THEN candidate.of[i].mean - baseline.of[i].mean
    ELSE baseline.of[i].mean - candidate.of[i].mean

\* Observations in an interval of width w differ by something in one of width 2w.
Low(i) == Delta(i) - 2 * Radius
High(i) == Delta(i) + 2 * Radius

Within(i) == -Metric(i).equivalence <= Low(i) /\ High(i) <= Metric(i).equivalence
Improves(i) == Low(i) > Metric(i).improvement
Protects(i) == Low(i) >= -Metric(i).regression

\* The constraint holds as soon as the mean itself meets it.
Constraint_MeanOnly(i) ==
    LET mean == candidate.of[i].mean
        outside(x) == \/ Metric(i).floor # None /\ x < Metric(i).floor
                      \/ Metric(i).ceiling # None /\ x > Metric(i).ceiling
    IN  IF outside(mean) THEN "violated" ELSE "pass"

\* The interval of the candidate's mean against floor and ceiling.
Constraint(i) ==
    LET mean == candidate.of[i].mean
        f == Metric(i).floor
        c == Metric(i).ceiling
    IN  IF (f # None /\ mean + Radius < f) \/ (c # None /\ mean - Radius > c)
        THEN "violated"
        ELSE IF (f # None /\ mean - Radius < f) \/ (c # None /\ mean + Radius > c)
             THEN "unresolved"
             ELSE "pass"

-----------------------------------------------------------------------------
(* compare(): its checks in their order.                                   *)

Finish(what, metric) ==
    /\ disposition' = what
    /\ decisive' = metric
    /\ phase' = "done"
    /\ UNCHANGED <<given, left, collected>>

Bound == baseline.bound /\ candidate.bound
Deferred == "none" \in {baseline.tasks, candidate.tasks}
Paired == {baseline.tasks, candidate.tasks} = {"expected"}

\* The context of both, then the pairing.
Refuse ==
    /\ phase = "evidence"
    /\ ~ Bound \/ ~ Paired
    /\ Finish(IF Bound /\ Deferred THEN "unmeasured" ELSE "invalid", None)

\* Every metric is looked at, the report-only ones too; then the units are counted.
Observe ==
    LET invalid == {i \in Metrics : Pair(i) = "invalid"}
    IN  /\ phase = "evidence"
        /\ Bound /\ Paired
        /\ \/ invalid # {} /\ Finish("invalid", First(invalid))
           \/ invalid = {} /\ ~ objective.enough /\ Finish("unresolved", None)
           \/ /\ invalid = {}
              /\ objective.enough
              /\ phase' = "constraints"
              /\ UNCHANGED <<given, left, collected, disposition, decisive>>

\* The mode rule visits every metric.
Constrain_AllRanked ==
    /\ phase = "constraints"
    /\ phase' = objective.mode
    /\ left' = Metrics
    /\ UNCHANGED <<given, collected, disposition, decisive>>

\* Absolute constraints: a violation goes before an unknown, that before a doubt.
Constrain ==
    LET constrained == {i \in Optimized : Metric(i).floor # None \/ Metric(i).ceiling # None}
        unmeasured == {i \in constrained : Pair(i) = "unknown"}
        status(s) == {i \in constrained \ unmeasured : Constraint(i) = s}
    IN  /\ phase = "constraints"
        /\ \/ status("violated") # {} /\ Finish("rejected", First(status("violated")))
           \/ /\ status("violated") = {}
              /\ unmeasured # {}
              /\ Finish("unmeasured", First(unmeasured))
           \/ /\ status("violated") = {} /\ unmeasured = {}
              /\ status("unresolved") # {}
              /\ Finish("unresolved", First(status("unresolved")))
           \/ /\ status("violated") = {} /\ unmeasured = {} /\ status("unresolved") = {}
              /\ phase' = objective.mode
              /\ left' = Optimized
              /\ UNCHANGED <<given, collected, disposition, decisive>>

\* A metric that is neither better nor worse is passed over.
Lexicographic_SkipsDoubt ==
    LET i == First(left)
    IN  /\ phase = "lexicographic"
        /\ \/ left = {} /\ Finish("equivalent", None)
           \/ left # {} /\ Pair(i) = "unknown" /\ Finish("unmeasured", i)
           \/ left # {} /\ Pair(i) = "all" /\ Improves(i) /\ Finish("accepted", i)
           \/ left # {} /\ Pair(i) = "all" /\ ~ Improves(i) /\ High(i) < 0 /\ Finish("rejected", i)
           \/ /\ left # {} /\ Pair(i) = "all" /\ ~ Improves(i) /\ High(i) >= 0
              /\ left' = left \ {i}
              /\ UNCHANGED <<given, phase, collected, disposition, decisive>>

\* _lexicographic(): the next metric decides unless it is equivalent.
Lexicographic ==
    LET i == First(left)
    IN  /\ phase = "lexicographic"
        /\ \/ left = {} /\ Finish("equivalent", None)
           \/ left # {} /\ Pair(i) = "unknown" /\ Finish("unmeasured", i)
           \/ left # {} /\ Pair(i) = "all" /\ Improves(i) /\ Finish("accepted", i)
           \/ left # {} /\ Pair(i) = "all" /\ ~ Improves(i) /\ High(i) < 0 /\ Finish("rejected", i)
           \/ /\ left # {} /\ Pair(i) = "all" /\ ~ Improves(i) /\ High(i) >= 0
              /\ ~ Within(i)
              /\ Finish("unresolved", i)
           \/ /\ left # {} /\ Pair(i) = "all" /\ ~ Improves(i) /\ High(i) >= 0
              /\ Within(i)
              /\ left' = left \ {i}
              /\ UNCHANGED <<given, phase, collected, disposition, decisive>>

\* _pareto(): every optimized metric is visited, unless one is unknown.
Pareto ==
    LET i == First(left)
    IN  /\ phase = "pareto"
        /\ left # {}
        /\ \/ Pair(i) = "unknown" /\ Finish("unmeasured", i)
           \/ /\ Pair(i) = "all"
              /\ left' = left \ {i}
              /\ improved' = IF Improves(i) THEN improved \cup {i} ELSE improved
              /\ regressed' = IF ~ Improves(i) /\ High(i) < -Metric(i).regression
                              THEN regressed \cup {i} ELSE regressed
              /\ protected' = (protected /\ Protects(i))
              /\ equivalent' = (equivalent /\ Within(i))
              /\ UNCHANGED <<given, phase, disposition, decisive>>

\* One improved metric is enough.
Judge_AnyImprovement ==
    /\ phase = "pareto"
    /\ left = {}
    /\ \/ improved # {} /\ Finish("accepted", First(improved))
       \/ improved = {} /\ regressed # {} /\ Finish("rejected", First(regressed))
       \/ improved = {} /\ regressed = {} /\ Finish(IF equivalent THEN "equivalent" ELSE "unresolved", None)

\* No demonstrated improvement counts as a rejection.
Judge_RejectsDoubt ==
    /\ phase = "pareto"
    /\ left = {}
    /\ \/ improved # {} /\ protected /\ Finish("accepted", First(improved))
       \/ (improved = {} \/ ~ protected) /\ Finish(IF equivalent THEN "equivalent" ELSE "rejected", None)

Judge ==
    /\ phase = "pareto"
    /\ left = {}
    /\ \/ improved # {} /\ protected /\ Finish("accepted", First(improved))
       \/ /\ improved = {} \/ ~ protected
          /\ regressed # {}
          /\ Finish("rejected", First(regressed))
       \/ /\ improved = {} \/ ~ protected
          /\ regressed = {}
          /\ Finish(IF equivalent THEN "equivalent" ELSE "unresolved", None)

\* The candidate was accepted; the replaced graph is proposed again and evaluates as it did.
ProposeBack ==
    /\ phase = "done"
    /\ disposition = "accepted"
    /\ ~ back
    /\ baseline' = candidate
    /\ candidate' = baseline
    /\ back' = TRUE
    /\ phase' = "evidence"
    /\ left' = {}
    /\ improved' = {} /\ regressed' = {}
    /\ protected' = TRUE /\ equivalent' = TRUE
    /\ disposition' = None /\ decisive' = None
    /\ UNCHANGED objective

-----------------------------------------------------------------------------
Blank == [seen |-> "all", mean |-> First(Means)]

\* Evaluations with their tasks, or with something wrong around them.
Evaluations(n) ==
    [bound : {TRUE}, tasks : {"expected"}, of : [1 .. n -> Observation]]
    \cup [bound : BOOLEAN, tasks : Tasks, of : {[i \in 1 .. n |-> Blank]}]

Init ==
    /\ objective \in Objectives
    /\ baseline \in Evaluations(Len(objective.metrics))
    /\ candidate \in Evaluations(Len(objective.metrics))
    /\ back = FALSE
    /\ phase = "evidence"
    /\ left = {}
    /\ improved = {} /\ regressed = {}
    /\ protected = TRUE /\ equivalent = TRUE
    /\ disposition = None /\ decisive = None

Next ==
    \/ Refuse
    \/ Observe
    \/ Constrain
    \/ Lexicographic
    \/ Pareto
    \/ Judge
    \/ ProposeBack

Spec == Init /\ [][Next]_vars

-----------------------------------------------------------------------------
(* Properties.                                                             *)

Dispositions == {"accepted", "rejected", "equivalent", "unresolved", "unmeasured", "invalid"}

\* A comparison ends with one of six dispositions; only optimized metrics are ranked.
TypeOK ==
    /\ objective \in Objectives
    /\ phase \in {"evidence", "constraints", "lexicographic", "pareto", "done"}
    /\ left \subseteq Optimized
    /\ improved \subseteq Optimized /\ regressed \subseteq Optimized
    /\ {protected, equivalent, back} \subseteq BOOLEAN
    /\ disposition \in Dispositions \cup {None}
    /\ decisive \in Metrics \cup {None}
    /\ phase = "done" <=> disposition # None

Usable == Bound /\ Paired /\ objective.enough /\ \A i \in Metrics : Pair(i) # "invalid"
Proven(i) == Pair(i) = "all" /\ Constraint(i) = "pass"
Constrained == {i \in Optimized : Metric(i).floor # None \/ Metric(i).ceiling # None}

\* REQ-008 to REQ-011: accepted is exactly: usable evidence, every constraint proven, and in
\* lexicographic mode a metric proven better with all before it equivalent, in Pareto mode
\* no optimized metric with a loss beyond its margin and one proven better (gates.py:254-458).
AcceptedAsRequired ==
    phase = "done" =>
        (disposition = "accepted" <=>
            /\ Usable
            /\ \A i \in Constrained : Proven(i)
            /\ \/ /\ objective.mode = "lexicographic"
                  /\ \E i \in Optimized :
                       /\ Pair(i) = "all" /\ Improves(i)
                       /\ \A j \in Optimized : j < i =>
                            Pair(j) = "all" /\ Within(j) /\ ~ Improves(j) /\ High(j) >= 0
               \/ /\ objective.mode = "pareto"
                  /\ \A i \in Optimized : Pair(i) = "all" /\ Protects(i)
                  /\ \E i \in Optimized : Improves(i))

\* Only this disposition bars a candidate for good, so it needs proof: a constraint the whole
\* interval violates, or a metric whose whole interval is a loss (gates.py:375-458,
\* rejections.py:62-66).
RejectedIsProven ==
    disposition = "rejected" =>
        \E i \in Optimized :
            /\ decisive = i
            /\ Pair(i) = "all"
            /\ Constraint(i) = "violated" \/ High(i) < 0

\* Metrics that tolerate a loss greater than what counts as their improvement.
Tolerant == {i \in Optimized : Metric(i).regression > Metric(i).improvement}

\* An acceptance is not undone: when the replaced graph is proposed again it is not accepted,
\* unless Pareto mode has two metrics that can trade places in turn; with none that tolerates
\* more than it gains, it is not even found equivalent or unmeasured (gates.py:403-458).
NoWayBack ==
    back /\ phase = "done" =>
        /\ objective.mode = "lexicographic" \/ Cardinality(Tolerant) <= 1 =>
              disposition # "accepted"
        /\ objective.mode = "lexicographic" \/ Tolerant = {} =>
              disposition \in {"rejected", "unresolved", "invalid"}

\* REQ-011: "out-of-bound known values are invalid evidence"; docs/paper-differences.md:224:
\* the gate refuses any such value before it compares.
InvalidNeverAccepted ==
    disposition = "accepted" =>
        \A i \in Metrics : {baseline.of[i].seen, candidate.of[i].seen} \subseteq {"all", "unknown"}

=============================================================================

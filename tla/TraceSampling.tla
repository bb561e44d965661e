---------------------------- MODULE TraceSampling ----------------------------
(***************************************************************************)
(* The traces the refiner sees, round by round: the batches of             *)
(* StridedTraceSource, stratified_sample() with its rotation (traces.py),  *)
(* and what evolve() keeps of it when it stops and starts again            *)
(* (harness.py).                                                           *)
(***************************************************************************)
EXTENDS RoundConstants, FiniteSetsExt

VARIABLES
    config,     \* the stride and the two budgets
    round,      \* iteration of the round that runs or comes next
    seen,       \* seen_trace_ids of the running process
    pending,    \* trace_ids of the recorded round that is not finished, or None
    recorded,   \* trace_ids of the entries of rejection memory
    shown,      \* history: how often each trace was in a sample
    sampled,    \* history: the last sample, and what was recorded before it
    stops,      \* history: the process has been restarted, and has resumed a round
    resumed

vars == <<config, round, seen, pending, recorded, shown, sampled, stops, resumed>>

N == Cardinality(Traces)
Smaller(a, b) == IF a <= b THEN a ELSE b

\* The strides wrap, but each starts anew at the front.
Batch_NoWrap(k) ==
    LET start == (k - 1) * config.stride
    IN  {(start % N) + i : i \in 1 .. config.stride} \cap Traces

\* collect(): a stride of the list, wrapped around.
Batch(k) ==
    LET start == ((k - 1) * config.stride) % N
    IN  {1 + ((start + i) % N) : i \in 0 .. Smaller(config.stride, N) - 1}

Strata == <<[wanted |-> config.failing, of |-> Failing],
            [wanted |-> config.passing, of |-> Traces \ Failing]>>

Need(wanted, pool) == Smaller(wanted, Cardinality(pool))

\* The reset comes one round early.
Picks_ResetsEarly(pool, wanted, known) ==
    IF wanted = None THEN {[chosen |-> pool, seen |-> known \cup pool]}
    ELSE LET n == Need(wanted, pool)
             over == Cardinality(pool \ known) <= n
             unseen == IF over THEN pool ELSE pool \ known
             rest == IF over THEN known \ pool ELSE known
         IN  {[chosen |-> c, seen |-> rest \cup c] : c \in kSubset(n, unseen)}

\* What one stratum can contribute, and what has been seen then.  A stratum with too few
\* unseen traces is forgotten first.
Picks(pool, wanted, known) ==
    IF wanted = None THEN {[chosen |-> pool, seen |-> known \cup pool]}
    ELSE LET n == Need(wanted, pool)
             over == Cardinality(pool \ known) < n
             unseen == IF over THEN pool ELSE pool \ known
             rest == IF over THEN known \ pool ELSE known
         IN  {[chosen |-> c, seen |-> rest \cup c] : c \in kSubset(n, unseen)}

\* Only the failing traces are recorded.
Sample_FailingOnly ==
    /\ pending = None
    /\ round <= Samples
    /\ \E f \in Picks(Batch(round) \cap Strata[1].of, Strata[1].wanted, seen) :
         \E p \in Picks(Batch(round) \cap Strata[2].of, Strata[2].wanted, f.seen) :
            /\ seen' = p.seen
            /\ pending' = f.chosen
            /\ shown' = shown
            /\ sampled' = [traces |-> f.chosen \cup p.chosen, before |-> recorded]
    /\ UNCHANGED <<config, round, recorded, stops, resumed>>

\* stratified_sample(), and the record of the round.
Sample ==
    /\ pending = None
    /\ round <= Samples
    /\ \E f \in Picks(Batch(round) \cap Strata[1].of, Strata[1].wanted, seen) :
         \E p \in Picks(Batch(round) \cap Strata[2].of, Strata[2].wanted, f.seen) :
            LET sample == f.chosen \cup p.chosen
            IN  /\ seen' = p.seen
                /\ pending' = sample
                /\ shown' = [t \in Traces |-> IF t \in sample THEN shown[t] + 1 ELSE shown[t]]
                /\ sampled' = [traces |-> sample, before |-> recorded]
    /\ UNCHANGED <<config, round, recorded, stops, resumed>>

\* The entry of the round is saved.
Record ==
    /\ pending # None
    /\ recorded' = recorded \cup pending
    /\ pending' = None
    /\ round' = round + 1
    /\ UNCHANGED <<config, seen, shown, sampled, stops, resumed>>

\* A restart knows of the rounds of its own process only.
Restart_Forgets ==
    /\ stops = 0
    /\ stops' = stops + 1
    /\ seen' = {}
    /\ resumed' = (resumed \/ pending # None)
    /\ UNCHANGED <<config, round, pending, recorded, shown, sampled>>

\* The process stops and another starts: what was seen is read from rejection memory; a
\* pending round is finished from its record, which does not add to it.
Restart ==
    /\ stops = 0
    /\ stops' = stops + 1
    /\ seen' = recorded
    /\ resumed' = (resumed \/ pending # None)
    /\ UNCHANGED <<config, round, pending, recorded, shown, sampled>>

-----------------------------------------------------------------------------
Init ==
    /\ config \in Samplings
    /\ round = 1
    /\ seen = {}
    /\ pending = None
    /\ recorded = {}
    /\ shown = [t \in Traces |-> 0]
    /\ sampled = [traces |-> {}, before |-> {}]
    /\ stops = 0
    /\ resumed = FALSE

Next == Sample \/ Record \/ Restart

Spec == Init /\ [][Next]_vars

-----------------------------------------------------------------------------
(* Properties.                                                             *)

\* What is seen, pending and recorded are traces of the source; what a process has seen and
\* has no record of yet is the sample at hand (harness.py:247, traces.py:203-224).
TypeOK ==
    /\ round \in Nat
    /\ seen \subseteq Traces
    /\ pending = None \/ pending \subseteq Traces
    /\ recorded \subseteq Traces
    /\ shown \in [Traces -> Nat]
    /\ seen \subseteq recorded \cup (IF pending = None THEN {} ELSE pending)

\* As many consecutive strides as it takes to count through the list show all of it, from
\* any round on (traces.py:183-188).
StridesCover ==
    UNION {Batch(round + i) : i \in 0 .. ((N + config.stride - 1) \div config.stride) - 1} = Traces

Whole == N <= config.stride
Divides(i) ==
    /\ Strata[i].wanted # None
    /\ Strata[i].wanted > 0
    /\ (Cardinality(Strata[i].of) % Strata[i].wanted) = 0

\* "rotating through unseen traces first": over the whole list, where the budget divides the
\* stratum, no trace is shown a second time before all have been shown once, and so on, in a
\* run without a restart (traces.py:209-223).
FairRotation ==
    \A i \in 1 .. 2 :
        (Whole /\ Divides(i) /\ stops = 0) =>
            \A t, u \in Strata[i].of : shown[t] <= shown[u] + 1

\* After a restart too: while enough traces of a stratum were in no recorded round, no trace
\* of it comes back, if no round was resumed (harness.py:247, 291-293).
FreshFirst ==
    \A i \in 1 .. 2 :
        LET fresh == Strata[i].of \ sampled.before
        IN  (/\ Whole /\ ~ resumed
             /\ Strata[i].wanted # None
             /\ Cardinality(fresh) >= Strata[i].wanted)
            => sampled.traces \cap Strata[i].of \subseteq fresh

\* What was not shown comes first, within a run and over a restart (traces.py:201-223).
UnseenFirst == FairRotation /\ FreshFirst

=============================================================================

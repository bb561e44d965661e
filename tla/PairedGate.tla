------------------------------ MODULE PairedGate ------------------------------
(***************************************************************************)
(* PairedGate of gates.py: two evaluations paired by task, a bootstrap     *)
(* over the differences, and the decision; then, where the candidate was   *)
(* accepted, the same comparison the other way round.                      *)
(*                                                                         *)
(* A resample draws as many differences as there are, any of them any      *)
(* number of times; the generator's seed makes it the same draws for the   *)
(* same two graphs, and says nothing of which.                             *)
(***************************************************************************)
EXTENDS RoundConstants, SequencesExt

VARIABLES
    gate,       \* min_tasks, resamples, and how many of them are enough
    pair,       \* the two evaluations: the score of each task, in the order of the host
    drawn,      \* resamples so far
    wins,       \* of them those with a total of zero or more
    verdict,    \* "none", "no_tasks", "too_few", "accepted", "rejected"
    reversed    \* the evaluations have changed places

vars == <<gate, pair, drawn, wins, verdict, reversed>>

-----------------------------------------------------------------------------
\* The dictionary by task: a task that was evaluated twice counts with its last score.
Tasks(outcomes) == {outcomes[i].task : i \in 1 .. Len(outcomes)}
Score(outcomes, t) == outcomes[CHOOSE i \in 1 .. Len(outcomes) :
                                  /\ outcomes[i].task = t
                                  /\ \A j \in i + 1 .. Len(outcomes) : outcomes[j].task # t].score

\* The tasks evaluated on both sides.
Shared == Tasks(pair.best) \cap Tasks(pair.candidate)

Delta(t) == Score(pair.candidate, t) - Score(pair.best, t)

Total(ts) == FoldLeft(+, 0, [i \in 1 .. Len(ts) |-> Delta(ts[i])])

\* One draw per shared task, with replacement.
Draws == [1 .. Cardinality(Shared) -> Shared]

-----------------------------------------------------------------------------
Deciding == verdict = "none"

\* per_task outcomes are missing on a side: the gate raises.
NoTasks ==
    /\ Deciding
    /\ pair.best = <<>> \/ pair.candidate = <<>>
    /\ verdict' = "no_tasks"
    /\ UNCHANGED <<gate, pair, drawn, wins, reversed>>

\* Too few tasks are shared to decide on.
TooFew ==
    /\ Deciding
    /\ pair.best # <<>> /\ pair.candidate # <<>>
    /\ Cardinality(Shared) < gate.minTasks
    /\ verdict' = "too_few"
    /\ UNCHANGED <<gate, pair, drawn, wins, reversed>>

Comparing == Deciding /\ Shared # {} /\ Cardinality(Shared) >= gate.minTasks

\* A resample that loses nothing and gains nothing is no win.
Resample_StrictWin ==
    /\ Comparing
    /\ drawn < gate.resamples
    /\ drawn' = drawn + 1
    /\ \E draw \in Draws : wins' = IF Total(draw) > 0 THEN wins + 1 ELSE wins
    /\ UNCHANGED <<gate, pair, verdict, reversed>>

\* One resample.
Resample ==
    /\ Comparing
    /\ drawn < gate.resamples
    /\ drawn' = drawn + 1
    /\ \E draw \in Draws : wins' = IF Total(draw) >= 0 THEN wins + 1 ELSE wins
    /\ UNCHANGED <<gate, pair, verdict, reversed>>

\* The mean of the differences is not looked at.
Accepts_ByWins == wins >= gate.enough

\* The mean difference and the fraction of wins.
Accepts == Total(SetToSeq(Shared)) >= 0 /\ wins >= gate.enough

Decide ==
    /\ Comparing
    /\ drawn = gate.resamples
    /\ verdict' = IF Accepts THEN "accepted" ELSE "rejected"
    /\ UNCHANGED <<gate, pair, drawn, wins, reversed>>

\* The candidate is the best now, and what it replaced is proposed again.
ProposeBack ==
    /\ verdict = "accepted"
    /\ ~ reversed
    /\ reversed' = TRUE
    /\ pair' = [best |-> pair.candidate, candidate |-> pair.best]
    /\ drawn' = 0 /\ wins' = 0 /\ verdict' = "none"
    /\ UNCHANGED gate

-----------------------------------------------------------------------------
Outcomes == UNION {[1 .. n -> [task : PairedTasks, score : TaskScores]] : n \in 0 .. Cardinality(PairedTasks)}

Init ==
    /\ gate \in PairedGates
    /\ pair \in [best : Outcomes, candidate : Outcomes]
    /\ drawn = 0
    /\ wins = 0
    /\ verdict = "none"
    /\ reversed = FALSE

Next == NoTasks \/ TooFew \/ Resample \/ Decide \/ ProposeBack

Spec == Init /\ [][Next]_vars

-----------------------------------------------------------------------------
(* Properties.                                                             *)

\* The counts stay in their order (gates.py:187-193).
TypeOK ==
    /\ drawn \in 0 .. gate.resamples
    /\ wins \in 0 .. drawn
    /\ verdict \in {"none", "no_tasks", "too_few", "accepted", "rejected"}
    /\ reversed \in BOOLEAN

\* What an evaluation scores over some of its tasks.
Sum(outcomes, ts) == FoldSet(LAMBDA t, n : n + Score(outcomes, t), 0, ts)

\* The decision on the two ends of the evidence does not depend on the draws: a candidate that
\* loses no shared task is accepted, ties included, and one that wins none and loses one is
\* not; one accepted on less evidence than min_tasks, or at a loss over the shared tasks, never
\* (gates.py:170-195).
AcceptedAsPaired ==
    LET worse == {t \in Shared : Score(pair.candidate, t) < Score(pair.best, t)}
        better == {t \in Shared : Score(pair.candidate, t) > Score(pair.best, t)}
        gain == Sum(pair.candidate, better) - Sum(pair.best, better)
        loss == Sum(pair.best, worse) - Sum(pair.candidate, worse)
    IN  /\ verdict = "accepted" => Cardinality(Shared) >= gate.minTasks /\ gain >= loss
        /\ verdict = "rejected" => worse # {}
        /\ verdict = "accepted" => worse = {} \/ better # {}

\* Two graphs replace each other only when neither gained on the other: the next rounds cannot
\* go back and forth between them at a loss (gates.py:195).
NoWayBack ==
    verdict = "accepted" /\ reversed => Total(SetToSeq(Shared)) = 0

=============================================================================

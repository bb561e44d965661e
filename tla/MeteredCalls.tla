---------------------------- MODULE MeteredCalls ----------------------------
(***************************************************************************)
(* One model behind one meter (HookedModel, BudgetMeter in hooks.py), and  *)
(* its callers: the Guide of each running episode, and the refiner stage   *)
(* of evolve().                                                            *)
(*                                                                         *)
(* A call has three steps with an await between them: the check and the    *)
(* request, the answer and its count, the hook and what the caller makes   *)
(* of it.  An answer is what the caller can tell apart of it.              *)
(***************************************************************************)
EXTENDS RoundConstants

Callers == Guides \cup {Refiner}

Replies == {"unreadable", "empty", "refused", "good"}

VARIABLES
    meter,      \* model_calls, output_tokens, evaluations
    late,       \* max_seconds have passed
    call,       \* where the call of each caller is: "none", "asked", "answered"
    guide,      \* steps, located, calls and the log of each Guide
    stage,      \* where evolve() is
    proposal,   \* the RefinerResult under construction: edits, candidate, the replies so far
    refined,    \* history: replies the refiner has read in all rounds
    lost        \* history: answers that were counted and never reached their caller

vars == <<meter, late, call, guide, stage, proposal, refined, lost>>

\* BudgetMeter.check(): a ceiling is reached.
Exhausted == late \/ meter.calls >= MaxCalls \/ meter.tokens >= MaxTokens

NoProposal == [edits |-> None, candidate |-> FALSE, replies |-> <<>>]

-----------------------------------------------------------------------------
(* A call through HookedModel.                                             *)

\* The ceiling is looked at when the answer has come.
Ask_Unchecked(c) == call' = [call EXCEPT ![c] = "asked"]

\* complete(): the check, and the request goes out.
Ask(c) == ~ Exhausted /\ call' = [call EXCEPT ![c] = "asked"]

\* A failed call is counted as well.
Fail_Counted(c) ==
    /\ call[c] = "asked"
    /\ call' = [call EXCEPT ![c] = "none"]
    /\ meter' = [meter EXCEPT !.calls = @ + 1]
    /\ stage' = IF c = Refiner THEN "stopped" ELSE stage
    /\ UNCHANGED <<late, guide, proposal, refined, lost>>

\* The answer is counted after it has come.
Answer(c) ==
    /\ call[c] = "asked"
    /\ call' = [call EXCEPT ![c] = "answered"]
    /\ \E t \in 0 .. Tokens :
         meter' = [calls |-> meter.calls + 1, tokens |-> meter.tokens + t, evaluations |-> meter.evaluations]
    /\ UNCHANGED <<late, guide, stage, proposal, refined, lost>>

\* The model raises: the call is not counted, and a run of the loop ends with it.
Fail(c) ==
    /\ call[c] = "asked"
    /\ call' = [call EXCEPT ![c] = "none"]
    /\ stage' = IF c = Refiner THEN "stopped" ELSE stage
    /\ UNCHANGED <<meter, late, guide, proposal, refined, lost>>

\* on_model_call() raises, or the caller is cancelled in it: the meter has counted the answer,
\* and the caller never does.
HookFails(c) ==
    /\ call[c] = "answered"
    /\ call' = [call EXCEPT ![c] = "none"]
    /\ lost' = lost + 1
    /\ stage' = IF c = Refiner THEN "stopped" ELSE stage
    /\ UNCHANGED <<meter, late, guide, proposal, refined>>

\* A timer stops the loop wherever it is.
TimePasses_Stops ==
    /\ ~ late
    /\ late' = TRUE
    /\ stage' = "stopped"
    /\ UNCHANGED <<meter, call, guide, proposal, refined, lost>>

TimePasses ==
    /\ ~ late
    /\ late' = TRUE
    /\ UNCHANGED <<meter, call, guide, stage, proposal, refined, lost>>

-----------------------------------------------------------------------------
(* A Guide: one step of its episode after the other.                       *)

\* The step is located or not.
Visit(g, located) ==
    LET next == [guide[g] EXCEPT !.steps = @ + 1]
    IN  IF located THEN [next EXCEPT !.visited = @ + 1] ELSE next

\* Its guidance is logged.
Log(visited, mode) == [visited EXCEPT !.log = Append(@, mode)]

\* The cap is compared with the steps served, whatever served them.
Guidance_CapsSteps(g) ==
    /\ call[g] = "none"
    /\ guide[g].steps < Steps
    /\ \E located \in BOOLEAN :
         \/ /\ Len(guide[g].log) >= GuideCalls
            /\ guide' = [guide EXCEPT ![g] = Log(Visit(g, located), "raw")]
            /\ UNCHANGED call
         \/ /\ Len(guide[g].log) < GuideCalls
            /\ Exhausted
            /\ guide' = [guide EXCEPT ![g] = Log(Visit(g, located), "raw")]
            /\ UNCHANGED call
         \/ /\ Len(guide[g].log) < GuideCalls
            /\ Ask(g)
            /\ guide' = [guide EXCEPT ![g] = Visit(g, located)]
    /\ UNCHANGED <<meter, late, stage, proposal, refined, lost>>

\* guidance(): the step is located, then served raw when the Guide has had its calls; else
\* the model is asked, or the budget raises out of the step and leaves it unserved.
Guidance(g) ==
    /\ call[g] = "none"
    /\ guide[g].steps < Steps
    /\ \E located \in BOOLEAN :
         \/ /\ guide[g].calls >= GuideCalls
            /\ guide' = [guide EXCEPT ![g] = Log(Visit(g, located), "raw")]
            /\ UNCHANGED call
         \/ /\ guide[g].calls < GuideCalls
            /\ Exhausted
            /\ guide' = [guide EXCEPT ![g] = Visit(g, located)]
            /\ UNCHANGED call
         \/ /\ guide[g].calls < GuideCalls
            /\ Ask(g)
            /\ guide' = [guide EXCEPT ![g] = Visit(g, located)]
    /\ UNCHANGED <<meter, late, stage, proposal, refined, lost>>

\* After the hook: the Guide's own count and its log.
Guided(g) ==
    /\ call[g] = "answered"
    /\ call' = [call EXCEPT ![g] = "none"]
    /\ guide' = [guide EXCEPT ![g] = Log([guide[g] EXCEPT !.calls = @ + 1], "generative")]
    /\ UNCHANGED <<meter, late, stage, proposal, refined, lost>>

-----------------------------------------------------------------------------
(* evolve(): the stages that are checked against the meter.                *)

\* The head is evaluated, unless its evaluation was given or recorded.
Baseline ==
    /\ stage = "baseline"
    /\ stage' \in {"iteration", IF Exhausted \/ meter.evaluations >= MaxEvaluations
                               THEN "stopped" ELSE "evaluating"}
    /\ UNCHANGED <<meter, late, call, guide, proposal, refined, lost>>

\* The next round, or the stop.
Round ==
    /\ stage = "iteration"
    /\ refined < Rounds * (Retries + 1)
    /\ stage' = IF Exhausted THEN "stopped" ELSE "propose"
    /\ proposal' = NoProposal
    /\ UNCHANGED <<meter, late, call, guide, refined, lost>>

\* One attempt of propose().
Attempt ==
    /\ stage = "propose"
    /\ call[Refiner] = "none"
    /\ \/ Exhausted /\ stage' = "stopped" /\ UNCHANGED call
       \/ Ask(Refiner) /\ UNCHANGED stage
    /\ UNCHANGED <<meter, late, guide, proposal, refined, lost>>

\* An answer without edits is asked for again.
Reply_RetriesEmpty ==
    /\ call[Refiner] = "answered"
    /\ call' = [call EXCEPT ![Refiner] = "none"]
    /\ refined' = refined + 1
    /\ \E reply \in Replies :
         LET replies == Append(proposal.replies, reply)
         IN  /\ proposal' = [edits |-> CASE reply = "unreadable" -> None
                                         [] reply = "empty" -> "empty"
                                         [] OTHER -> "some",
                             candidate |-> (reply = "good"), replies |-> replies]
             /\ stage' = IF reply = "good" \/ Len(replies) = Retries + 1
                         THEN "proposed" ELSE "propose"
    /\ UNCHANGED <<meter, late, guide, lost>>

\* The reply is parsed and applied; edits that fail are asked for again, up to the retries.
Reply ==
    /\ call[Refiner] = "answered"
    /\ call' = [call EXCEPT ![Refiner] = "none"]
    /\ refined' = refined + 1
    /\ \E reply \in Replies :
         LET replies == Append(proposal.replies, reply)
         IN  /\ proposal' = [edits |-> CASE reply = "unreadable" -> None
                                         [] reply = "empty" -> "empty"
                                         [] OTHER -> "some",
                             candidate |-> (reply = "good"), replies |-> replies]
             /\ stage' = IF reply \in {"empty", "good"} \/ Len(replies) = Retries + 1
                         THEN "proposed" ELSE "propose"
    /\ UNCHANGED <<meter, late, guide, lost>>

\* RefinerResult.outcome
Outcome ==
    IF proposal.edits = "empty" THEN "no_action"
    ELSE IF proposal.candidate THEN "candidate" ELSE "structural_failure"

\* Only a candidate goes on to an evaluation, which is checked before and counted after.
Proposed ==
    /\ stage = "proposed"
    /\ stage' = CASE Outcome # "candidate" -> "iteration"
                  [] Exhausted \/ meter.evaluations >= MaxEvaluations -> "stopped"
                  [] OTHER -> "evaluating"
    /\ UNCHANGED <<meter, late, call, guide, proposal, refined, lost>>

\* The evaluation runs episodes of its own; a budget they exceed ends the run.
Evaluated ==
    /\ stage = "evaluating"
    /\ \/ /\ meter' = [meter EXCEPT !.evaluations = @ + 1]
          /\ stage' = "iteration"
       \/ /\ Exhausted
          /\ stage' = "stopped"
          /\ UNCHANGED meter
    /\ UNCHANGED <<late, call, guide, proposal, refined, lost>>

-----------------------------------------------------------------------------
Init ==
    /\ meter = [calls |-> 0, tokens |-> 0, evaluations |-> 0]
    /\ late = FALSE
    /\ call = [c \in Callers |-> "none"]
    /\ guide = [g \in Guides |-> [steps |-> 0, visited |-> 0, calls |-> 0, log |-> <<>>]]
    /\ stage = "baseline"
    /\ proposal = NoProposal
    /\ refined = 0
    /\ lost = 0

Next ==
    \/ \E c \in Callers : Answer(c) \/ Fail(c) \/ HookFails(c)
    \/ TimePasses
    \/ \E g \in Guides : Guidance(g) \/ Guided(g)
    \/ Baseline
    \/ Round
    \/ Attempt
    \/ Reply
    \/ Proposed
    \/ Evaluated

Spec == Init /\ [][Next]_vars

-----------------------------------------------------------------------------
(* Properties.                                                             *)

\* Meter, calls and the loop keep their types; a call of the refiner belongs to a stage that
\* makes one (hooks.py:88-160, refiner.py:163-205).
TypeOK ==
    /\ meter \in [calls : Nat, tokens : Nat, evaluations : Nat]
    /\ late \in BOOLEAN
    /\ call \in [Callers -> {"none", "asked", "answered"}]
    /\ guide \in [Guides -> [steps : Nat, visited : Nat, calls : Nat,
                             log : Seq({"raw", "generative"})]]
    /\ stage \in {"baseline", "iteration", "propose", "proposed", "evaluating", "stopped"}
    /\ proposal \in [edits : {None, "empty", "some"}, candidate : BOOLEAN, replies : Seq(Replies)]
    /\ refined \in Nat /\ lost \in Nat
    /\ call[Refiner] # "none" => stage = "propose"

\* config.py:20 "Hard ceilings": the check comes before the request and the count after the
\* answer.  So each caller beyond the first can take the calls over their ceiling by one, and the
\* answers on their way, also the one of an only caller, the tokens by all but one of the tokens
\* they report; nothing takes them further, and evaluations never pass theirs
\* (hooks.py:107-118, 151-160).
CeilingsHold ==
    /\ meter.calls <= MaxCalls - 1 + Cardinality(Callers)
    /\ meter.tokens <= MaxTokens - 1 + Tokens * Cardinality(Callers)
    /\ meter.evaluations <= MaxEvaluations

Count(log, what) == Cardinality({i \in 1 .. Len(log) : log[i] = what})

\* What the meter reports is what the callers have had, what is on its way to them, and what was
\* lost on that way, where the hook raised or the caller was cancelled in it: no other answer is
\* counted by one of the two and not by the other, or twice, also when calls fail or overlap
\* (hooks.py:151-160, guidance.py:164-176, refiner.py:180-184).
AnswersAccounted ==
    LET sum[gs \in SUBSET Guides] ==
          IF gs = {} THEN 0
          ELSE LET g == CHOOSE x \in gs : TRUE IN Count(guide[g].log, "generative") + sum[gs \ {g}]
    IN  meter.calls = sum[Guides] + refined + lost + Cardinality({c \in Callers : call[c] = "answered"})

\* C9: a Guide never serves more generated guidance than its cap, falls back only when it has
\* served that much, and does not come back from the fallback; answers lost in the hook count for
\* the meter and not for the cap (guidance.py:143-176).
FallbackIsFinal ==
    \A g \in Guides :
        LET log == guide[g].log
        IN  /\ Count(log, "generative") <= GuideCalls
            /\ \A i \in 1 .. Len(log) : log[i] = "raw" =>
                  Count(SubSeq(log, 1, i - 1), "generative") = GuideCalls

\* E2, E3: the outcome is that of the last reply, every reply before it failed, and a failure
\* is final only when the retries are used up (refiner.py:163-205).
OutcomeIsLastReply ==
    stage = "proposed" =>
        LET replies == proposal.replies
            n == Len(replies)
        IN  /\ n \in 1 .. Retries + 1
            /\ \A i \in 1 .. n - 1 : replies[i] \in {"unreadable", "refused"}
            /\ Outcome = CASE replies[n] = "good" -> "candidate"
                           [] replies[n] = "empty" -> "no_action"
                           [] OTHER -> "structural_failure"
            /\ Outcome = "structural_failure" => n = Retries + 1

=============================================================================

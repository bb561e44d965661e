----------------------------- MODULE Algorithm1 -----------------------------
(***************************************************************************)
(* What evolve() promises: rounds one after the other, each atomic.  A     *)
(* round ends in one of five outcomes and writes one entry; an accepted    *)
(* round also moves the head to the graph that was compared with it.       *)
(*                                                                         *)
(* Nothing here is interrupted, resumed or saved twice.                    *)
(***************************************************************************)
EXTENDS Integers, Sequences

CONSTANTS Graphs, Scores, Gate, Bindings, None

VARIABLES
    chain,   \* the graphs retained so far, with the decision that brought each in
    rounds   \* the entries of rejection memory

Dispositions == {"rejected", "unresolved", None}
Evaluation == [ref : Graphs, score : Scores]

RetainedGraph == chain[Len(chain)].digest

\* Decisions a gate can take when `digest` is proposed to replace the head.
Verdicts(digest, accepted) ==
    {d \in [accepted : {accepted}, stop : BOOLEAN, disposition : Dispositions,
            baseline : [ref : {RetainedGraph}, score : Scores],
            candidate : [ref : {digest}, score : Scores], binding : Bindings] :
        /\ Gate = "tie" => (accepted <=> d.candidate.score >= d.baseline.score)
        /\ Gate = "strict" => (accepted <=> d.candidate.score > d.baseline.score)}

\* A measured loss or a failed check stands against the graph for ever.
Refuted(digest) ==
    \E i \in 1 .. Len(rounds) :
        /\ rounds[i].digest = digest
        /\ \/ rounds[i].kind = "structural_failure"
           \/ /\ rounds[i].kind = "rejected"
              /\ rounds[i].decision.disposition # "unresolved"

\* Only a graph that could change the outcome is worth an evaluation.
Novel(digest) == digest # RetainedGraph /\ ~ Refuted(digest)

Entry(kind, digest, decision) ==
    [iteration |-> Len(rounds) + 1, kind |-> kind, digest |-> digest,
     retained |-> IF decision = None THEN None ELSE decision.baseline.score,
     decision |-> decision]

Finish(kind, digest, decision) == rounds' = Append(rounds, Entry(kind, digest, decision))

-----------------------------------------------------------------------------
Init == chain = <<>> /\ rounds = <<>>

\* Revision 0.
Seed(digest) ==
    /\ chain = <<>>
    /\ chain' = <<[digest |-> digest, iteration |-> 0, decision |-> None]>>
    /\ UNCHANGED rounds

\* The refiner proposed nothing, or nothing that could be applied.
NoCandidate(kind) ==
    /\ chain # <<>>
    /\ Finish(kind, None, None)
    /\ UNCHANGED chain

\* The host refused the candidate's graph.
Refused(digest) ==
    /\ chain # <<>>
    /\ Finish("structural_failure", digest, None)
    /\ UNCHANGED chain

\* The candidate has its answer already.
Repeated(digest) ==
    /\ chain # <<>>
    /\ ~ Novel(digest)
    /\ Finish("duplicate_candidate", digest, None)
    /\ UNCHANGED chain

Reject(digest, decision) ==
    /\ Novel(digest)
    /\ Finish("rejected", digest, decision)
    /\ UNCHANGED chain

Accept(digest, decision) ==
    /\ Novel(digest)
    /\ Finish("accepted", digest, decision)
    /\ chain' = Append(chain, [digest |-> digest, iteration |-> Len(rounds) + 1,
                               decision |-> decision])

Next ==
    \/ \E kind \in {"structural_failure", "no_action"} : NoCandidate(kind)
    \/ \E digest \in Graphs :
        \/ Seed(digest)
        \/ Refused(digest)
        \/ Repeated(digest)
        \/ /\ chain # <<>>
           /\ \/ \E d \in Verdicts(digest, FALSE) : Reject(digest, d)
              \/ \E d \in Verdicts(digest, TRUE) : Accept(digest, d)

Spec == Init /\ [][Next]_<<chain, rounds>>

=============================================================================

---------------------------- MODULE AttemptsBlock ----------------------------
(***************************************************************************)
(* What the refiner is shown of the traces of a round: the policy for      *)
(* stale ones and the images (harness.py), the sample of them, and the     *)
(* attempts block, of which only the end may fit (traces.py).              *)
(*                                                                         *)
(* A trace is its number in the batch.  Which traces of a stratum were     *)
(* seen before (TraceSampling), and what the random generator makes of     *)
(* them, is any choice of as many.  The block is a summary, the traces     *)
(* and the table of node usage, each a piece of the text; what the cut     *)
(* leaves is some of the last pieces whole, and a part of the one before.  *)
(***************************************************************************)
EXTENDS RoundConstants, SequencesExt, FiniteSetsExt

VARIABLES
    batch,      \* the traces collected
    policy,     \* stale_trace_policy
    images,     \* refiner_images
    budgets,    \* failing_sample and passing_sample; None: all
    chosen,     \* None, or the sample, in its order
    block,      \* the pieces of the block so far
    pictures,   \* the images so far, each as the place of its trace in the sample
    whole       \* None, or how many pieces the cut leaves whole

vars == <<batch, policy, images, budgets, chosen, block, pictures, whole>>

Summary == "summary"
Usage == "usage"

Number(i) == [piece |-> "trace", of |-> i]
Piece(what) == [piece |-> what, of |-> 0]

-----------------------------------------------------------------------------
(* The sample.                                                             *)

\* All that the batch marks as stale is taken out, whatever the policy.
Left_NoStale == {i \in 1 .. Len(batch) : ~ batch[i].stale}

\* _apply_stale_policy()
Left == {i \in 1 .. Len(batch) : policy = "drop" => ~ batch[i].stale}

Stratum(passed) == {i \in Left : batch[i].passed = passed}
Budget(passed) == IF passed THEN budgets.passing ELSE budgets.failing

\* As collected.
InTurn(pool) == {f \in SetToSeqs(pool) : \A m, n \in 1 .. Len(f) : m < n => f[m] < f[n]}

\* A stratum with a budget loses its last draw.
Drawn_OneLess(passed) ==
    LET pool == Stratum(passed)
        size == Cardinality(pool)
        wanted == Budget(passed)
    IN  IF wanted = None THEN InTurn(pool)
        ELSE UNION {SetToSeqs(s) : s \in kSubset(IF wanted - 1 < size THEN wanted - 1 ELSE size, pool)}

\* One stratum: all of it, or as many as its budget, in whatever order they are drawn.
Drawn(passed) ==
    LET pool == Stratum(passed)
        size == Cardinality(pool)
        wanted == Budget(passed)
    IN  IF wanted = None THEN InTurn(pool)
        ELSE UNION {SetToSeqs(s) : s \in kSubset(IF wanted < size THEN wanted ELSE size, pool)}

\* stratified_sample(): without budgets every trace, else the failing ones and then those that passed.
Sampled ==
    IF budgets.failing = None /\ budgets.passing = None THEN InTurn(Left)
    ELSE UNION {{f \o p : p \in Drawn(TRUE)} : f \in Drawn(FALSE)}

\* The stale ones are taken out, the rest is sampled, and the block begins.
Apply ==
    /\ chosen = None
    /\ chosen' \in Sampled
    /\ block' = <<Piece(Summary)>>
    /\ UNCHANGED <<batch, policy, images, budgets, pictures, whole>>

Taken == {chosen[n] : n \in 1 .. Len(chosen)}

-----------------------------------------------------------------------------
(* The block.                                                              *)

Listed == {block[n].of : n \in 2 .. Len(block)}

\* Traces that passed come first, whatever their score.
Before_Passed(i, j) ==
    \/ batch[i].passed /\ ~ batch[j].passed
    \/ batch[i].passed = batch[j].passed /\ batch[i].score > batch[j].score
    \/ batch[i].passed = batch[j].passed /\ batch[i].score = batch[j].score /\ i < j

\* The high scores and then the low ones, each falling, which is one falling order.
Before(i, j) == batch[i].score > batch[j].score \/ (batch[i].score = batch[j].score /\ i < j)

\* render_attempts_block(): the next trace.
List(i) ==
    /\ chosen # None
    /\ i \in Taken \ Listed
    /\ \A j \in Taken \ Listed : j = i \/ Before(i, j)
    /\ block' = Append(block, Number(i))
    /\ UNCHANGED <<batch, policy, images, budgets, chosen, pictures, whole>>

\* The table, where any trace has nodes, and the cut of tail().
Cut ==
    /\ chosen # None
    /\ whole = None
    /\ Taken \subseteq Listed
    /\ \E table \in BOOLEAN :
         block' = IF table THEN Append(block, Piece(Usage)) ELSE block
    /\ whole' \in 0 .. Len(block')
    /\ UNCHANGED <<batch, policy, images, budgets, chosen, pictures>>

-----------------------------------------------------------------------------
(* The images.                                                             *)

Passed(n) == batch[chosen[n]].passed

\* The places in the sample of the traces with an image that is not taken.
ImagesLeft ==
    {n \in 1 .. Len(chosen) :
        Cardinality({m \in 1 .. Len(pictures) : pictures[m] = n}) < batch[chosen[n]].images}

\* The sample is read from its beginning.
Sooner_Oldest(m, n) == (~ Passed(m) /\ Passed(n)) \/ (Passed(m) = Passed(n) /\ m < n)

\* Failing before passing traces, and of each the last in the sample first.
Sooner(m, n) == (~ Passed(m) /\ Passed(n)) \/ (Passed(m) = Passed(n) /\ m > n)

\* _refiner_images(): the next image, up to the limit.
Picture(n) ==
    /\ whole # None
    /\ Len(pictures) < images
    /\ n \in ImagesLeft
    /\ \A m \in ImagesLeft : m = n \/ Sooner(n, m)
    /\ pictures' = Append(pictures, n)
    /\ UNCHANGED <<batch, policy, images, budgets, chosen, block, whole>>

-----------------------------------------------------------------------------
Init ==
    /\ batch \in UNION {[1 .. n -> Attempts] : n \in 0 .. MaxAttempts}
    /\ policy \in {"allow", "warn", "drop"}
    /\ images \in Images
    /\ budgets \in Budgets
    /\ chosen = None
    /\ block = <<>>
    /\ pictures = <<>>
    /\ whole = None

Next ==
    \/ Apply
    \/ \E i \in 1 .. Len(batch) : List(i) \/ Picture(i)
    \/ Cut

Spec == Init /\ [][Next]_vars

-----------------------------------------------------------------------------
(* Properties.                                                             *)

\* Block and images are of the traces of the sample, each trace listed once
\* (traces.py:260-272, harness.py:513-531).
TypeOK ==
    /\ chosen # None =>
          /\ Taken \subseteq 1 .. Len(batch)
          /\ \A n \in 2 .. Len(block) : block[n].piece # "usage" => block[n].of \in Taken
          /\ \A m, n \in 2 .. Len(block) : block[m] = block[n] => m = n
    /\ whole \in 0 .. Len(block) \cup {None}

Shown == {block[n].of : n \in {m \in 2 .. Len(block) : m > Len(block) - whole /\ block[m].piece = "trace"}}

\* As many traces of the stratum as its budget are shown.
Filled(passed) ==
    /\ Budget(passed) # None
    /\ Cardinality({i \in Shown : batch[i].passed = passed}) = Budget(passed)

\* D4: what the cut leaves is what the refiner is to contrast: a sampled trace is whole only when
\* every sampled one with a lower score is whole too, and the table of node usage before any of
\* them; and of a block that needs no cut nobody is missing but stale ones, by "drop", and those
\* of a stratum that fills its budget (traces.py:191-272, harness.py:513-518).
FailuresOutlive ==
    whole # None =>
        /\ \A i \in Shown : \A j \in Taken : batch[j].score < batch[i].score => j \in Shown
        /\ Shown # {} =>
              \A n \in 1 .. Len(block) : block[n].piece = Usage => n > Len(block) - whole
        /\ whole = Len(block) =>
              \A i \in 1 .. Len(batch) \ Shown : (policy = "drop" /\ batch[i].stale) \/ Filled(batch[i].passed)

\* No image of a trace that passed takes the place of one of a sampled failure.  Of two traces
\* with one result, the image of the one collected first takes the place of the other's only where
\* the stratum has a budget: a sample is shuffled, and then "most recent failing first" is the last
\* drawn (harness.py:521-531, traces.py:208-223).
ImagesOfFailures ==
    /\ Len(pictures) <= images
    /\ \A m \in 1 .. Len(pictures) : \A n \in ImagesLeft :
          /\ Passed(pictures[m]) => Passed(n)
          /\ (Passed(pictures[m]) = Passed(n) /\ Budget(Passed(n)) = None)
                => chosen[pictures[m]] >= chosen[n]

LowScoresAreKept == FailuresOutlive /\ ImagesOfFailures

=============================================================================

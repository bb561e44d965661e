--------------------------- MODULE RoundConstants ---------------------------
(***************************************************************************)
(* The constants of the stages of a round that keep no store: the gate     *)
(* over several metrics, the metered model calls, the sampling of traces   *)
(* and the texts cut to a cap.                                             *)
(***************************************************************************)
EXTENDS Integers, Sequences, FiniteSets

CONSTANTS
    None,
    \* ObjectiveGate
    Objectives,   \* objectives a gate is configured with
    Means,        \* means of a metric over the expected tasks, times their number
    Radius,       \* radius of the interval around such a mean; around a difference, twice
    \* MeteredCalls
    Guides,       \* episodes that ask for guidance
    Refiner,      \* the refiner of the loop, which has the model in common with them
    MaxCalls,     \* Budget.max_model_calls
    MaxTokens,    \* Budget.max_output_tokens
    MaxEvaluations, \* Budget.max_evaluations
    Tokens,       \* the most output tokens an answer reports
    GuideCalls,   \* GuidanceConfig.max_guidance_calls
    Retries,      \* EvolveConfig.role_retries
    Steps,        \* bound: steps of an episode
    Rounds,       \* bound: rounds of the loop
    \* GuidanceContext
    GuideSettings, \* values of GuidanceConfig: mode, hops, window; None: no window
    ContextEdges, \* bound: edges of a graph that guides
    \* FirstGraph
    NodeEntries,  \* bound: node entries of a document
    Solutions,    \* bound: worked solutions
    Drafts,       \* graphs a refiner can make of the skeleton: nodes, edges
    \* PairedGate
    PairedTasks,  \* tasks of an evaluation
    TaskScores,   \* scores of a task
    PairedGates,  \* configurations: min_tasks, resamples, and the wins among them that are enough
    \* AttemptsBlock
    Attempts,     \* traces of a round: score, passed, stale, images
    Budgets,      \* values of failing_sample and passing_sample; None: all
    MaxAttempts,  \* bound: traces
    Images,       \* values of config.refiner_images
    \* TraceSampling
    Traces,       \* the traces of the source, in its order: numbers from 1
    Failing,      \* those that failed
    Samplings,    \* the stride of the source and the budgets of the sample; None: all
    Samples,      \* bound: rounds sampled
    \* RejectionText
    EntryTexts,   \* entries of rejection memory: accepted or not, length in full and as a line
    MaxEntries,   \* bound: entries
    FullEntries,  \* values of config.rejections_full_entries
    Caps,         \* values of config.rejections_char_cap
    HeadLength,   \* length of the text before the entries
    MarkLength,   \* length of the mark of a cut text
    \* TailCut
    TextLength,   \* characters of a text
    MaxCount      \* the most tokens a counter counts in it

\* None is no number, and none of the words that stand where it can stand.
ASSUME NoneAssumption ==
    /\ None \notin Int
    /\ None \notin {"empty", "some", "unreadable", "refused", "good",
                    "accepted", "rejected", "equivalent", "unresolved", "unmeasured", "invalid",
                    "skeleton", "onboarded", "bootstrapped"}

ASSUME ObjectiveAssumption ==
    /\ Means \subseteq Int /\ \E m \in Means : \A n \in Means : m <= n
    /\ Radius \in Nat
    /\ \A o \in Objectives :
         /\ o.mode \in {"lexicographic", "pareto"}
         /\ o.enough \in BOOLEAN
         /\ Len(o.metrics) \in Nat
         /\ \A i \in 1 .. Len(o.metrics) :
              LET m == o.metrics[i]
              IN  /\ m.direction \in {"maximize", "minimize"}
                  /\ m.optimized \in BOOLEAN
                  /\ {m.improvement, m.equivalence, m.regression} \subseteq Nat
                  /\ {m.floor, m.ceiling} \subseteq Int \cup {None}
                  /\ ~ m.optimized => m.floor = None /\ m.ceiling = None
         /\ \E i \in 1 .. Len(o.metrics) : o.metrics[i].optimized

ASSUME CallsAssumption ==
    /\ IsFiniteSet(Guides)
    /\ Refiner \notin Guides
    /\ MaxCalls \in Nat \ {0} /\ MaxTokens \in Nat \ {0} /\ MaxEvaluations \in Nat
    /\ Tokens \in Nat
    /\ GuideCalls \in Nat /\ Retries \in Nat /\ Steps \in Nat /\ Rounds \in Nat

ASSUME GuidanceAssumption ==
    /\ GuideSettings \subseteq [mode : {"subgraph", "full", "none"}, hops : Nat \ {0},
                              window : Nat \cup {None}]
    /\ ContextEdges \in Nat
    /\ NodeEntries \in Nat /\ Solutions \in Nat

ASSUME PairedAssumption ==
    /\ IsFiniteSet(PairedTasks)
    /\ TaskScores \subseteq Int
    /\ \A g \in PairedGates : /\ {g.minTasks, g.resamples, g.enough} \subseteq Nat \ {0}
                             /\ g.enough <= g.resamples /\ g.resamples <= 2 * g.enough

ASSUME AttemptsAssumption ==
    /\ Attempts \subseteq [score : Nat, passed : BOOLEAN, stale : BOOLEAN, images : Nat]
    /\ Budgets \subseteq [failing : Nat \cup {None}, passing : Nat \cup {None}]
    /\ MaxAttempts \in Nat
    /\ Images \subseteq Nat

ASSUME SamplingAssumption ==
    /\ IsFiniteSet(Traces) /\ Traces = 1 .. Cardinality(Traces)
    /\ Failing \subseteq Traces
    /\ \A ts \in SUBSET Traces : ts # None
    /\ Samplings \subseteq [stride : Nat \ {0}, failing : Nat \cup {None}, passing : Nat \cup {None}]
    /\ Samples \in Nat

ASSUME TextAssumption ==
    /\ \A e \in EntryTexts : e.accepted \in BOOLEAN /\ e.line \in Nat /\ e.full \in Nat /\ e.line < e.full
    /\ FullEntries \subseteq Nat /\ Caps \subseteq Int
    /\ MaxEntries \in Nat /\ HeadLength \in Nat /\ MarkLength \in Nat
    /\ TextLength \in Nat /\ MaxCount \in Nat

=============================================================================

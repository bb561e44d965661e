------------------------------ MODULE MCRound ------------------------------
(***************************************************************************)
(* The stages of a round that keep no store, for TLC: a behaviour is one   *)
(* of PrepareCandidate, ObjectiveGate, PairedGate, MeteredCalls,           *)
(* GuidanceContext, FirstGraph, TraceSampling, AttemptsBlock,              *)
(* RejectionText and TailCut, and the others rest.                         *)
(***************************************************************************)
EXTENDS PrepareCandidate, RoundConstants, TLC

CONSTANTS g1, g2

VARIABLES
    part,
    objective, baseline, challenger, check, left, improved, regressed, protected, equivalent,
    disposition, decisive, returned,
    meter, late, call, guide, stage, proposal, refined, lost,
    config, round, seen, pending, recorded, shown, sampled, stops, resumed,
    entries, wanted, cap, rendered, trimming, length,
    count, limit, lo, hi, start,
    world, settings, steps, at, near, served,
    source, drafting, budget, outcome,
    paired, pair, drawn, wins, verdict, reversed,
    batch, stale, images, budgets, chosen, block, pictures, whole

gateVars == <<objective, baseline, challenger, check, left, improved, regressed, protected,
              equivalent, disposition, decisive, returned>>
callsVars == <<meter, late, call, guide, stage, proposal, refined, lost>>
samplingVars == <<config, round, seen, pending, recorded, shown, sampled, stops, resumed>>
rejectionsVars == <<entries, wanted, cap, rendered, trimming, length>>
textVars == <<count, limit, lo, hi, start>>
contextVars == <<world, settings, steps, at, near, served>>
firstVars == <<source, drafting, budget, outcome>>
pairedVars == <<paired, pair, drawn, wins, verdict, reversed>>
blockVars == <<batch, stale, images, budgets, chosen, block, pictures, whole>>
stageVars == <<vars, gateVars, callsVars, samplingVars, rejectionsVars, textVars>>
newerVars == <<contextVars, firstVars, pairedVars, blockVars>>

Gate == INSTANCE ObjectiveGate WITH candidate <- challenger, phase <- check, back <- returned
Calls == INSTANCE MeteredCalls
Sampling == INSTANCE TraceSampling
Rejections == INSTANCE RejectionText WITH stage <- trimming
Text == INSTANCE TailCut
Context == INSTANCE GuidanceContext
First == INSTANCE FirstGraph
Paired == INSTANCE PairedGate WITH gate <- paired
Block == INSTANCE AttemptsBlock WITH policy <- stale

-----------------------------------------------------------------------------
(* Values of the constants.                                                *)

Metric(direction, improvement, equivalence, regression, floor, ceiling) ==
    [direction |-> direction, optimized |-> TRUE, improvement |-> improvement,
     equivalence |-> equivalence, regression |-> regression, floor |-> floor, ceiling |-> ceiling]

Quality == Metric("maximize", 0, 3, 0, None, None)
Floored == Metric("maximize", 0, 3, 0, 2, None)
Cost == Metric("minimize", 1, 3, 1, None, None)
Capped == Metric("minimize", 1, 3, 5, None, 3)
Loose == Metric("maximize", 0, 3, 5, None, None)
Reported == [Quality EXCEPT !.optimized = FALSE]

MCObjectives ==
    {[mode |-> m, metrics |-> ms, enough |-> TRUE] :
        m \in {"lexicographic", "pareto"},
        ms \in {<<Quality, Cost>>, <<Floored, Capped>>, <<Reported, Quality>>,
                <<Loose, Cost>>, <<Cost, Loose>>, <<Loose, Loose>>}}
    \cup {[mode |-> "pareto", metrics |-> <<Quality, Cost>>, enough |-> FALSE]}

\* Strides over part of the list and over all of it; budgets that divide a stratum and not.
MCSamplings ==
    {[stride |-> s, failing |-> f, passing |-> p] : s \in {4, 5, 6}, f \in {2, 3}, p \in {1, None}}

MCEntryTexts ==
    {[accepted |-> a, line |-> 1, full |-> 3] : a \in BOOLEAN}
    \cup {[accepted |-> a, line |-> 2, full |-> 5] : a \in BOOLEAN}

\* From a cap of nothing to one that leaves every text whole.
MCCaps == {-1, 3, 6, 9, 12, 15, 21}

\* Around a node, the whole graph, or nothing; with windows below, at and above the steps.
MCGuideSettings ==
    {[mode |-> "subgraph", hops |-> 1, window |-> 1], [mode |-> "subgraph", hops |-> 2, window |-> 0],
     [mode |-> "subgraph", hops |-> 3, window |-> 3], [mode |-> "full", hops |-> 2, window |-> None],
     [mode |-> "none", hops |-> 2, window |-> 3]}

\* The skeleton, either way round, and all other drafts of at most two edges.
MCDrafts ==
    {g \in {[nodes |-> {Start, End, e.source, e.target, f.source, f.target}, edges |-> {e, f}] :
               e \in Edges, f \in Edges} :
        Invalid(g.nodes, g.edges) = {}}

MCPairedGates ==
    {[minTasks |-> 1, resamples |-> 3, enough |-> 2], [minTasks |-> 2, resamples |-> 2, enough |-> 2]}

\* A pass below the threshold and a failure above it, one of each stale, one without an image.
MCAttempts ==
    {[score |-> 0, passed |-> FALSE, stale |-> FALSE, images |-> 1],
     [score |-> 0, passed |-> TRUE, stale |-> FALSE, images |-> 1],
     [score |-> 1, passed |-> FALSE, stale |-> TRUE, images |-> 2],
     [score |-> 2, passed |-> TRUE, stale |-> TRUE, images |-> 0],
     [score |-> 2, passed |-> FALSE, stale |-> FALSE, images |-> 1]}

\* All, one stratum in full, and budgets below, at and above the size of a stratum.
MCBudgets ==
    {[failing |-> None, passing |-> None], [failing |-> None, passing |-> 1], [failing |-> 2, passing |-> 1]}

-----------------------------------------------------------------------------
\* A draft is a graph over the ids, and None is no graph.
ASSUME DraftsAssumption ==
    /\ Drafts \subseteq [nodes : SUBSET Ids, edges : SUBSET Edges]
    /\ None \notin [nodes : SUBSET Ids, edges : SUBSET Edges]

CandidateRests == policy = "allow" /\ old = [nodes |-> {Start, End}, edges |-> {}] /\ Init

GateRests ==
    /\ objective = CHOOSE o \in Objectives : TRUE
    /\ baseline = [bound |-> TRUE, tasks |-> "expected", of |-> [i \in Gate!Metrics |-> Gate!Blank]]
    /\ challenger = baseline
    /\ Gate!Init

SamplingRests == config = (CHOOSE c \in Samplings : TRUE) /\ Sampling!Init

RejectionsRest ==
    /\ entries = <<CHOOSE e \in EntryTexts : TRUE>>
    /\ wanted = CHOOSE n \in FullEntries : TRUE
    /\ cap = CHOOSE c \in Caps : TRUE
    /\ Rejections!Init

TailRests == count = [i \in 0 .. TextLength |-> 0] /\ limit = 0 /\ Text!Init

ContextRests ==
    world = None /\ settings = None /\ steps = None /\ at = None /\ near = None /\ served = None
FirstRests == source = None /\ drafting = None /\ budget = None /\ outcome = None
PairedRests ==
    paired = None /\ pair = None /\ drawn = None /\ wins = None /\ verdict = None /\ reversed = None
BlockRests ==
    /\ batch = None /\ stale = None /\ images = None /\ budgets = None /\ chosen = None
    /\ block = None /\ pictures = None /\ whole = None

MCInit ==
    /\ part \in {"candidate", "gate", "calls", "sampling", "rejections", "tail",
                 "context", "first", "paired", "block"}
    /\ Calls!Init
    /\ IF part = "candidate" THEN Init ELSE CandidateRests
    /\ IF part = "gate" THEN Gate!Init ELSE GateRests
    /\ IF part = "sampling" THEN Sampling!Init ELSE SamplingRests
    /\ IF part = "rejections" THEN Rejections!Init ELSE RejectionsRest
    /\ IF part = "tail" THEN Text!Init ELSE TailRests
    /\ IF part = "context" THEN Context!Init ELSE ContextRests
    /\ IF part = "first" THEN First!Init ELSE FirstRests
    /\ IF part = "paired" THEN Paired!Init ELSE PairedRests
    /\ IF part = "block" THEN Block!Init ELSE BlockRests

MCNext ==
    /\ UNCHANGED part
    /\ \/ part = "candidate" /\ Next
          /\ UNCHANGED <<gateVars, callsVars, samplingVars, rejectionsVars, textVars, newerVars>>
       \/ part = "gate" /\ Gate!Next
          /\ UNCHANGED <<vars, callsVars, samplingVars, rejectionsVars, textVars, newerVars>>
       \/ part = "calls" /\ Calls!Next
          /\ UNCHANGED <<vars, gateVars, samplingVars, rejectionsVars, textVars, newerVars>>
       \/ part = "sampling" /\ Sampling!Next
          /\ UNCHANGED <<vars, gateVars, callsVars, rejectionsVars, textVars, newerVars>>
       \/ part = "rejections" /\ Rejections!Next
          /\ UNCHANGED <<vars, gateVars, callsVars, samplingVars, textVars, newerVars>>
       \/ part = "tail" /\ Text!Next
          /\ UNCHANGED <<vars, gateVars, callsVars, samplingVars, rejectionsVars, newerVars>>
       \/ part = "context" /\ Context!Next
          /\ UNCHANGED <<stageVars, firstVars, pairedVars, blockVars>>
       \/ part = "first" /\ First!Next
          /\ UNCHANGED <<stageVars, contextVars, pairedVars, blockVars>>
       \/ part = "paired" /\ Paired!Next
          /\ UNCHANGED <<stageVars, contextVars, firstVars, blockVars>>
       \/ part = "block" /\ Block!Next
          /\ UNCHANGED <<stageVars, contextVars, firstVars, pairedVars>>

\* Guides differ in nothing but their name.
Symmetry == Permutations(Guides)

MCVars == <<part, stageVars, newerVars>>

MCSpec == MCInit /\ [][MCNext]_MCVars

\* The behaviours of the gate alone, and of the first graph.
GateSpec == part = "gate" /\ MCInit /\ [][MCNext]_MCVars
FirstSpec == part = "first" /\ MCInit /\ [][MCNext]_MCVars

-----------------------------------------------------------------------------
(* The properties of PrepareCandidate are checked by their names; those of *)
(* the instances by these.                                                 *)

\* One type invariant for all of them, each module's in its own behaviours.
PartsTypeOK ==
    CASE part = "candidate" -> TypeOK
      [] part = "gate" -> Gate!TypeOK
      [] part = "calls" -> Calls!TypeOK
      [] part = "sampling" -> Sampling!TypeOK
      [] part = "rejections" -> Rejections!TypeOK
      [] part = "tail" -> Text!TypeOK
      [] part = "context" -> Context!TypeOK
      [] part = "first" -> First!TypeOK
      [] part = "paired" -> Paired!TypeOK
      [] part = "block" -> Block!TypeOK

\* PrepareCandidate: a candidate is the edited graph, and every node of it can finish
\* (edits.py:211-263).
CandidateIsSound == CandidateIsEdited /\ EveryNodeFinishes

\* The gates accept exactly what the requirements ask for, and what the pairs support
\* (gates.py:164-195, 254-458).
AcceptedAsRequired ==
    /\ part = "gate" => Gate!AcceptedAsRequired
    /\ part = "paired" => Paired!AcceptedAsPaired

\* ObjectiveGate: a rejection rests on a proof (gates.py:375-458).
RejectedIsProven == part = "gate" => Gate!RejectedIsProven

\* An acceptance is not undone by the gate that made it (gates.py:195, 403-458).
NoWayBack ==
    /\ part = "gate" => Gate!NoWayBack
    /\ part = "paired" => Paired!NoWayBack

\* ObjectiveGate: an invalid value bars acceptance (gates.py:382-401).
InvalidNeverAccepted == part = "gate" => Gate!InvalidNeverAccepted

\* FirstGraph: a document is taken with every entry it lists, or refused (graph.py:246-291).
NeverSilentlyRepaired == part = "first" => First!NeverSilentlyRepaired

\* MeteredCalls: the ceilings, up to what the answers on their way add (hooks.py:107-118).
CeilingsHold == part = "calls" => Calls!CeilingsHold

\* Every answer the meter counts is had by its caller, on its way there or lost in the hook; a
\* seed says what its draft took (hooks.py:151-160, roles/bootstrap.py:116-137).
AnswersAccounted ==
    /\ part = "calls" => Calls!AnswersAccounted
    /\ part = "first" => First!CallsAreOfDraft

\* MeteredCalls: a Guide's fallback is final (guidance.py:143-176).
FallbackIsFinal == part = "calls" => Calls!FallbackIsFinal

\* MeteredCalls: a proposal's outcome is that of its last reply (refiner.py:163-205).
OutcomeIsLastReply == part = "calls" => Calls!OutcomeIsLastReply

\* GuidanceContext: the Guide reads the neighbourhood of its step (guidance.py:142-201).
GuidanceIsLocal == part = "context" => Context!GuidanceIsLocal

\* FirstGraph: a workspace starts from a sound graph (harness.py:89-105).
SeedIsSound == part = "first" => First!SeedIsSound

\* TraceSampling: the strides cover the list, and no trace comes back before its turn
\* (traces.py:183-223).
UnseenFirst == part = "sampling" => Sampling!StridesCover /\ Sampling!UnseenFirst

\* A cap takes the oldest entries first, and leaves the failures of the traces
\* (rejections.py:246-282, traces.py:248-272).
LeastNeededGoesFirst ==
    /\ part = "rejections" => Rejections!LeastNeededGoesFirst
    /\ part = "block" => Block!LowScoresAreKept

\* TailCut: the longest end of a text that fits is kept (traces.py:229-245).
LongestEndKept == part = "tail" => Text!LongestEndKept

=============================================================================

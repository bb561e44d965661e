# Verification of proceduralgraph

proceduralgraph keeps a *procedural graph* that guides an agent, and improves it offline: `evolve()` runs rounds of
Algorithm 1 of the paper, each of which asks a refiner model for edits, scores the edited graph and accepts or rejects
it. This directory holds TLA+ modules of the program, TLC configurations that check them on small instances, and
theorems that TLAPS checks for every instance. Line numbers are those of `src/src/proceduralgraph/` unless a path is
given.

    tlc -workers 2 -config EvolveLoop_crash.cfg MCEvolveLoop      # one run
    tlapm EvolveLoopProofs.tla                                    # the proofs of one module

## 1. The system

| Component | State | Operations | Talks to |
|---|---|---|---|
| evolve loop (`harness.py`) | locals of one call: head, memory, round, retained evaluation, pending record, streak | `evolve()`, `refine_once()` | every other part, through protocols |
| rejection memory (`rejections.py`) | one entry per finished round | `record`, `rejected_digests`, `render_for_refiner` | the loop, the refiner's prompt |
| chain-backed stores (`stores/revision.py`) | three chains per workspace that matter to the loop: graph, rejections, checkpoints (and traces) | `load`, `seed`, `accept`, `save` | a revision store |
| revision stores (`stores/memory.py`, `blob.py`, `file.py`, `postgres.py`) | append-only chains with one head | `append(expected_head)`, `head`, `get`, `list` | object store, file system, database |
| gates (`gates.py`, `objectives.py`) | none | `decide(best, candidate)` | the loop |
| graph and edits (`graph.py`, `edits.py`) | none (values) | `validate`, `neighborhood`, `prepare_candidate`, `repair_cycles` | refiner, host |
| budget (`hooks.py`, `config.py`) | running totals | `check`, `complete` | every paid stage |
| guidance (`guidance.py`) | active node, visited nodes, counters of one episode | `localize`, `guide` | an agent |
| traces (`traces.py`) | none (pure), plus a set of seen ids | `stratified_sample`, `tail`, `collect` | the loop |
| roles (`roles/refiner.py`, `roles/bootstrap.py`) | none kept | `propose`, `bootstrap_graph` | a model, the loop, `init` |
| command line, transfer (`cli.py`, `stores/transfer.py`) | none kept | `init`, `transfer`, `show`, ... | the stores, people |
| model, adapters, serialisation, redaction | none kept | one call each | the roles, people |

How they interact. A call of `evolve()` loads the head of the graph chain, rejection memory and the checkpoint of the
next round; everything it writes afterwards is an append to one of the three chains, conditional on the head it last
saw. No transaction spans two chains. A round therefore goes through up to five separate writes:

1. refiner output (checkpoint), 2. evaluation and its control (checkpoint), 3. decision (checkpoint),
4. `accept()` (graph chain), 5. the round's entry (rejection memory), 6. the completed marker (checkpoint)

and may be interrupted between any two of them. The next call reconciles what it finds. That, and two calls running on
one workspace, is where the hard behaviour of this code is; `PROJECT.json` lists the hazards by line.

What makes each component correct:

- **loop**: one entry per round; an accepted graph was compared with the graph it replaced; a recorded paid stage is
  not paid again; a measured rejection is final; a pending round is finished; stops are honoured.
- **rejection memory**: numbering without gap, append only; rendering keeps the newest full entries longest.
- **revision stores**: a chain never forks and never loses a revision; exactly one of several racing appends succeeds;
  a reader sees committed revisions only, in order; a crash between two writes leaves the chain as before or after.
- **callers of a workspace**: of all that give it its first graph one does; a caller is told of a moved head only when
  somebody else moved it; what `show` prints is of one graph or a later score.
- **gates**: an objective gate accepts exactly when its requirements are met, rejects only on proof, and does not undo
  its own acceptances; nor does the paired one at a loss; a scalar gate never lets the retained score fall.
- **graph and edits**: a candidate is the old graph with the edits and nothing else; cycle repair leaves no cycle, cuts
  only edges that close one, and ends; nodes reach a terminal.
- **first graph**: valid, what a person wrote is refused or kept (but for an entry that a later one with its id
  replaces, disagreement 5), never the skeleton under another name; a draft that came to nothing is refused with a reason.
- **budget**: ceilings bound what is spent, up to the answers on their way; every answer that is counted is one its caller
  had, one on its way to it, or one lost in the hook.
- **guidance**: a Guide never exceeds its calls and falls back only when they are used up; it reads the neighbourhood of
  its step and the last steps, no more and no less. **refiner**: failures are
  retried, answers are not.
- **sampling**: what was not shown comes first, over restarts too; **tail**, **rejection text**: the cut fits the
  cap and takes the oldest first; **attempts block**: the cut takes the lowest scores of the sample last, and no pass has
  its image shown in place of a sampled failure's.

## 2. Modules and plan

| Module | Models | With |
|---|---|---|
| `EvolveLoop` | `evolve()` with memory, checkpoints, stores as atomic appends, resume, several processes | `MCEvolveLoop`, `MCEvolveBounded` |
| `EvolveLoopProofs` | types, the numbering of rounds, and what memory, checkpoints and graph chain tell, for any number of processes | |
| `EvolveRefinementProofs` | what one process resumes with, and that it implements `Algorithm1` | |
| `Algorithm1` | abstract: rounds one after the other, each atomic | refined by `EvolveRefinement` |
| `RevisionChain` | abstract: one chain with a conditional append | refined by the three stores |
| `BlobStore` | `BlobRevisionStore` over S3 or GCS semantics | `MCBlobStore` |
| `BlobStoreProofs` | what is committed stays, what readers see, refinement of `RevisionChain` | |
| `FileStore`, `PostgresStore` | the other two stores (common constants in `StoreConstants`) | `MCStores` |
| `StoreProofs` | both keep one chain and implement `RevisionChain`; what the layer's callers may rely on | |
| `Workspaces` | the layer stores over any store, with `init`, `transfer`, `show`, `evolve()` and saves as its callers | `MCStores` |
| `ProcedureGraph` | nodes, edges, `validate()` as operators | |
| `PrepareCandidate` | `prepare_candidate()`, `find_cycles()`, `repair_cycles()` step by step | `MCRound` |
| `CandidateProofs` | the repair leaves no cycle, cuts no edge in vain and ends after two passes; a candidate is the edited graph, and its nodes finish | |
| `ObjectiveGate` | `compare()` check by check, then the replaced graph proposed again | `MCRound` |
| `MeteredCalls` | `HookedModel`, `BudgetMeter`, `Guide.guidance()`, `Refiner.propose()`, the stages of the loop that spend | `MCRound` |
| `TraceSampling` | `StridedTraceSource`, `stratified_sample()` over rounds and a restart | `MCRound` |
| `RejectionText` | `render_for_refiner()` | `MCRound` |
| `TailCut` | `tail()` with a host's token counter | `MCRound` |
| `AttemptsBlock` | the policy for stale traces, `stratified_sample()`, `render_attempts_block()`, `_refiner_images()` | `MCRound` |
| `PairedGate` | `decide()` draw by draw, then the replaced graph proposed again | `MCRound` |
| `GuidanceContext` | the Guide's side of `guidance()`: localization, `neighborhood()`, `serialize_context()`, `render_trajectory()` | `MCRound` |
| `FirstGraph` | `coerce_initial_graph()`, `from_human()`, `bootstrap_graph()`, the options of `init` | `MCRound` |
| `RoundProofs` | calls, meters and Guides, the end of a text that is kept, the first graph | |
| `PromptProofs` | the two texts under their caps, the sampling of traces, what a Guide reads | |
| `GateProofs` | both gates; the types of all stages of a round | |

`MCRound` and `MCStores` put modules that share no state side by side: a behaviour is one of a single module, the others
rest in an initial state. (`RoundConstants` holds the constants of the round's stages.) `MCRound` extends
`PrepareCandidate` and instantiates the others.

How they compose. `EvolveLoop` stands on an append that is atomic and conditional; `BlobStore`, `FileStore` and
`PostgresStore` show that each store provides one (`ImplementsRevisionChain`). `EvolveLoop` takes any candidate from the
refiner, any decision from a custom gate and a budget that may run out before any stage; `PrepareCandidate`,
`MeteredCalls`, `ObjectiveGate` and `PairedGate` are those parts. `FirstGraph` is what the caller of a seed holds in its
hands, `Workspaces` the race to write it; `AttemptsBlock` takes any sample that keeps to the budgets, whichever traces
`TraceSampling` would choose for it, and any cut, of which `TailCut` says how long it is.

The plan is carried out: every safety invariant and every action property that a passing run checks is also stated by a
theorem, and both refinements are proved. What stays with TLC, and what is not modelled, is said in sections 7 and 8.

## 3. The loop: EvolveLoop and Algorithm1

State. `graphs` is the graph chain, `memory` the entries of the newest rejections revision, `ckpt` the newest
checkpoint payload of each iteration, `run[r]` the local variables of process `r` inside `evolve()` with a program
counter `pc`. A process outside `evolve()` is `NotRunning`.

| Action | harness.py | What |
|---|---|---|
| `LoadHead`, `Seed` | 178-189 | load, refuse an initial graph for a non-empty workspace, write revision 0 |
| `LoadMemory`, `LoadCheckpoint` | 190-227 | resume point, pending round, binding check, baseline from the record |
| `Baseline` | 228-245 | score the head; the perfect probe when nothing is pending |
| `BeginRound` | 252-277 | reset the locals of the round |
| `Refine` | 278-331 | rollout and refiner, first save |
| `NoCandidate`, `HostRefuses`, `AlreadyAccepted`, `Duplicate`, `Novel` | 332-391 | the outcome without a gate, or on to validation |
| `Reuse`, `Validate` | 392-409 | recorded evaluation with its control, or a new one and its save |
| `Decide` | 410-431 | recorded decision, or the gate and the save |
| `Accept` | 420-427 | conditional append to the graph chain |
| `Record`, `Complete` | 440-462 | the entry, the completed marker |
| `EndRound` | 464-496 | streak, stops, next round |
| `Exhaust`, `Crash` | 229-236, 432-438 | a ceiling; a stop at any await |

One action is one access to a shared chain with the local code up to the next access. An evaluation and the save behind
it are one action: a process that stops between them leaves exactly what it leaves by stopping before both.

Abstractions. A graph is a model value and its own digest. `Materialise` is the host's `propose()`, which may map two
candidates to one graph; `HostInvalid` are graphs the host's checks refuse. `ScoresOf[g]` is the set of scores an
evaluation of `g` may return, so a noisy evaluator is a set with two elements. A gate is `tie`, `strict` or `custom`;
the custom one may answer anything, which covers `PairedGate` and `ObjectiveGate`, which have modules of their own, and a
strict gate with a `minimum_delta` (`gates.py:132-137`). An objective with its context is a
value of `Bindings`. Checkpoint revisions are reduced to the newest payload of each iteration, which is what `load()`
returns. Traces, prompts, reports and warnings are left out.

`Algorithm1` is what the loop promises: rounds one after the other, each ending with one entry, an accepted one moving
the head to the graph the gate compared with it. `EvolveRefinement` maps the loop to it. A round happens when its entry
is saved. `accept()` comes earlier, so a revision whose entry is still missing is left out of the abstract chain
(`RecordedChain`); the step that saves the entry then adds both. Everything else of `evolve()`, every stop and every
resume, is a stutter. This holds for one process at a time with a checkpoint store. It does not hold for two processes
(disagreement 2), nor without checkpoints, where an accepted round that was interrupted is forgotten.

Bounds. `MaxIter` stops the model after that many rounds (three or four; two with two processes): a round interacts with
the rounds before it through memory (refused candidates), the head and the streak, and two rounds before the current one
let each of these be old, new or overwritten. Three or four graphs let a candidate be new, the head, an earlier
rejection, an earlier head, or normalised to one of those. `MaxStops` bounds interruptions with two processes (two: one
per process, or two of one round); in the other runs their number is not bounded. `MaxStreak` above `MaxIter` and
`Perfect` above every score stand for "not configured". Deadlock is not checked: when round `MaxIter` is recorded the
model has nothing left to do.

Symmetry. `MCEvolveBounded` permutes the processes, which no definition tells apart; it is used for safety only. Graphs
are not permuted: they have different scores.

Fairness. `FairSpec` of `MCEvolveLoop`, the specification of `evolve_crash`, adds three assumptions for
`PendingFinishes`: a running process goes on (weak fairness of `Advance`: the event loop runs every task), an operator
starts `evolve()` again when it is not running (weak fairness of `Start`), and from some time on nothing interrupts it
(`<>[][Start \/ Advance]`; how often it was interrupted before has no bound). Without the second an interrupted round
waits for ever, and without the third it may be interrupted for ever; neither is a promise of the code. The safety
properties do not depend on them.

## 4. The stores: RevisionChain, BlobStore, FileStore, PostgresStore, Workspaces

`RevisionChain` is the protocol of `stores/base.py`: a caller asks for an append that names the head it expects; the
append lands at one moment between call and answer, only on that head; a caller is refused only when the head is another
or has moved since the call; a call may fail without an answer, before or after it landed. The stores implement it with
`chain`, the history of what HEAD has named, and the calls as their callers see them.

| | One action is | append() | list() |
|---|---|---|---|
| `BlobStore` | one request to the object store | `ReadHead`, `PutRevision`, `MoveHead` or `Lose`, `Confirm` (`stores/blob.py:81-104`) | `ListHead`, `Follow`, `Finish` (106-126) |
| `FileStore` | one system call others can see | `TakeLock`, `ReadHead`, `OpenFile`, `WriteFile`, `Replace`, `Unlock` (`stores/file.py:43-95`) | `ReadName`, `ReadFile` (103-119), without the lock |
| `PostgresStore` | one statement or commit | `ReadHead`, `Insert` or `Collide`, `Commit`, `Return` (`stores/postgres.py:91-113`) | one statement, not an action |

`Crash` ends a call at any of these points in all three.

- `BlobStore`: the tag of HEAD is its content with S3 (an ETag) and a generation with GCS (`ContentTag`). `Repeat` is a
  client library that sends a conditional put again after its answer was lost (`stores/s3.py:51`): the caller is told
  `HeadMoved` although its append landed. `documents.py:57` says of that error "the append was refused"; the abstract
  `Misreport` allows exactly this case and nothing else. A pointer and the object it names are read in one step: the
  object is created first and never changes, and the GCS client pins the generation it reads.
- `FileStore`: a caller that is cancelled leaves its thread running, so it is a call that fails when its thread ends.
  The layout comment at `stores/file.py:6-7` has revision files written atomically; `_append()` writes them in place and
  replaces only HEAD atomically. `StoredIsChain` (what is committed is whole) and `ReaderSeesChain` show that this does
  no harm.
- `PostgresStore`: head and insert are two transactions; the primary key decides the race.

`Workspaces` stands on the other side of the protocol. An operation of a caller is up to four calls of the store, one
step each, with nothing held between them; that is what the store in memory does and what `RevisionChain` promises of the
others, the repeated request of S3 excepted.

| Operation | Calls | Source |
|---|---|---|
| `init` | `InitLoads`, `Seed`, append | `cli.py:94-134`, `stores/revision.py:36-42` |
| `transfer` | `TransferLoads`, `TransferChecks`, `Seed`, append | `stores/transfer.py:16-23` |
| `evolve()` | `EvolveLoads`, `Seed` if there is none, append | `stores/revision.py:29-62` |
| `save()`, `put()` | `SaveLoads`, append | `stores/revision.py:84-89, 118-122` |
| `show` | `ShowLoads`, `ShowHead` | `cli.py:88-91, 166-169` |

The append is `Land` or `HeadMoved`; `Stop` ends the process between two calls. There are two graph chains, so that a
transfer has a source that moves, and one chain for checkpoints and traces, which are saved alike. `show` reads the head
of the graph twice: the score it prints is that of the graph it lists or of one accepted meanwhile, never an earlier one
(`ShownScoreNotOlder`). A chain may hold one document twice, so an append that expects a digest may land on a head that
went away and came back; `EditsFitBase` says what is still true then: the edits were made for the graph they land on.

Bounds: two writers, one reader, two documents, a chain of three revisions (three in all chains together in
`Workspaces`: a source, a target and one of either, or one chain that comes back to its first head) and lists of at most
two. Three revisions are
what a head needs to go from A to B and back to A, the case a tag of the document alone would miss
(`Tag_DigestOnly`); a limit of two is one parent step. Writers, readers and documents are interchangeable and permuted.
Deadlock is not checked: a chain of `MaxLen` takes no more calls.

## 5. The stages of a round

**`PrepareCandidate`** (`edits.py:191-263`, `graph.py:383-463`). An action is one edit, in the order of the four loops, or
one step of the depth-first search, whose recursion is a stack of nodes with the edges they have still to look at. An
edge is its two ends; nodes are numbers so that sentinels can sort before, between or after others, because the order in
which the search visits decides what it cuts. `asked`, `clock` and `finish` are history. Nodes, relation vocabularies and
warnings carry no state. Checked from every valid graph of four nodes and two edges, cyclic ones included, with two
edits: the shortest cycle of two takes both, and the longest pass has one cut and one cross edge. The repair may cut an
edge that was there before, also one out of Start, rather than the one that was added; the code does not promise
otherwise.

**`ObjectiveGate`** (`gates.py:254-458`). Of the values a side has for a metric the model keeps their mean or the first
that is no number. All metrics have one width, so all intervals have one radius, and thresholds are in units of the
means. After an acceptance `ProposeBack` compares the replaced graph with the one that replaced it. Two metrics, five
means and thresholds on both sides of the interval width give every order of an interval's ends and its thresholds.
`NoWayBack` counts the metrics that tolerate a loss greater than what counts as their improvement (`Tolerant`), as the cost
metric of `src/README.md:155` does with a non-regression margin of 3 and a minimum improvement of 1. With two of them in
Pareto mode two graphs can replace each other for ever; with one, or in lexicographic mode, they cannot.

**`MeteredCalls`** (`hooks.py:88-160`, `guidance.py:142-176`, `roles/refiner.py:163-205`, `harness.py:228-438`). A call is
three steps with an await between them: check and request, answer and count, what the caller makes of it. Callers are
Guides in generative mode and the refiner, which may overlap where a host lets them share one model. Two Guides and the
refiner are the smallest number of callers that can pass a ceiling together in two ways; budgets of three calls and four
tokens are reached in the first round or between rounds.

`config.py:20` says "Hard ceilings". The check comes before the request and the count after the answer
(`hooks.py:113, 158`), so with `n` callers the calls may pass theirs by `n - 1`, and the tokens theirs by all but one of
the tokens of `n` answers. With one caller the calls keep their ceiling and the tokens do not: its last answer may pass
it, since nobody knows the length of an answer beforehand. `CeilingsHold` is the bound that does hold.

A call fails before the count, when the model raises (`Fail`), or behind it, when `on_model_call()` raises or the caller is
cancelled there (`HookFails`, `hooks.py:154-159`): such an answer is paid for and counted by the meter and never reaches
its caller. `lost` is the history of these, and `AnswersAccounted` has the meter equal to what the callers had, what is on
its way and what was lost. For the same reason `max_guidance_calls`, which "caps generative calls per episode"
(`src/docs/host-integration.md:29`), caps the generated guidance a Guide has served (`FallbackIsFinal`): a call that was
lost in the hook, or failed, does not count for it.

**`TraceSampling`** (`traces.py:183-224`, `harness.py:246-460`). Batches of a source, samples by stratum with the rotation
through unseen traces, and what a restart knows of it. Five rounds over six traces in strata of four and two let every
stratum be exhausted twice. Three limits of the code are preconditions of `UnseenFirst` and not findings, since nothing
promises more: a budget that does not divide its stratum resets the rotation early (`traces.py:217`), strides over a part
of the list ask for traces in their own order, and a round resumed from a checkpoint does not add its traces to those
seen (`harness.py:335-343`).

**`RejectionText`** (`rejections.py:246-282`). Of an entry the model keeps the length of its line and of its full text,
with the line break. Up to four entries of two sizes, caps from less than nothing to one that leaves every text whole.
A cap shorter than the mark of a cut text cannot be kept.

**`TailCut`** (`traces.py:229-245`). The bisection with any counter that counts nothing in an empty text, monotonic or
not; all counters up to three tokens over six characters. The line "[... discarded ...]" before a cut text is not counted
against the cap by the code and is no part of the model.

**`AttemptsBlock`** (`traces.py:191-287`, `harness.py:285-305, 513-531`). A trace is its number in the batch, with score,
pass, staleness and a number of images. The stale ones are taken out, the rest is sampled: a stratum without a budget is
taken as it was collected, of one with a budget any traces in any order are drawn, which covers every seed and everything
the rotation of `TraceSampling` may prefer. The block is a sequence of pieces, of which the cut leaves some of the last
whole; the images walk the sample from its end. Score and pass are independent, because the code sorts by the one and
labels by the other. Three traces let a pair be in either order with a third before, between or after them; budgets are
below, at and above the size of a stratum. The usage table stands behind the traces and survives the cut before any of
them; how many lines it has is not modelled.

The images are said to be of the "most recent failing first" (`harness.py:524`, likewise `config.py:60`). That is so where
`failing_sample` is not set. Where it is, the sample is in the order of the draws (`traces.py:221`), its end is no more
recent than the rest, and an older failure may take the place of a newer one. `ImagesOfFailures` therefore asks for
failures before passes always, and for the newer before the older only in a stratum without a budget.

**`PairedGate`** (`gates.py:164-211`). The random draws of the bootstrap are a choice over all draws, one step per
resample, which covers every seed. Two tasks with three scores, evaluated on both sides, on one, or twice, and gates
that require one pair and two of three resamples, or two pairs and both of two. `AcceptedAsPaired` says what no draw can
change; between those ends the decision is the seed's. `NoWayBack`: after an acceptance the replaced graph is accepted
only with a mean difference of zero; with such a tie the two can replace each other, as the tie-accepting gate's can.

**`GuidanceContext`** (`guidance.py:142-161, 195-201`, `graph.py:340-368`, `serialize.py:54-111`). A step is its action;
an action that is no node is a step that is not located. The search is one step per hop. `GuidanceIsLocal` compares it
with walks and distances, defined without a search. Valid graphs of four nodes and up to three edges hold the shortest
cycle, a diamond needs four and is left to the definition; horizons of one to three hops and windows of no step, one,
three and all.

**`FirstGraph`** (`harness.py:89-105`, `graph.py:217-291`, `roles/bootstrap.py:54-139`, `cli.py:94-163`). A document is a
list of ids, one for each of its nodes, in which an id may come again; a Graph has a set of them. Every list of up to three
entries (`NodeEntries`: two of one id and another before, between or behind them) and every set, each with up to two edges,
valid or not, and every mixture of what `--from-text` may be given. `entries` of a seed are the places of the list that it
was made from: `from_human()` reads the list into a dictionary, so an entry gives way to a later one with its id
(disagreement 5), and `HumanInputIsKept` says that nothing else is lost or added without a note. The draft ends when the
model raises, or the hook behind an answer that was counted (`Fail`). An unreadable reply is
no edits to the code, so a refusal may say that the refiner proposed none. A graph of the two sentinels with its one edge
from End to Start counts as the skeleton (`graph.py:227-230`). `init --graph` ignores `--solutions`, `--tools`
and `--model`, which it refuses without `--from-text` otherwise. The meter may be one that the host shares: `OtherCall`
is a call it makes meanwhile, and it counts into the calls that the seed records.

Symmetry in `MCRound` is over the Guides, which differ in their name only. Deadlock is not checked in it: every part ends
with its last result or at its bound.

## 6. Runs

| Run | Question | Result |
|---|---|---|
| `evolve_crash` | one process, default gate, noisy evaluator, stopped at any step without limit | the history is a run of Algorithm 1, control and score agree, nothing recorded is paid for twice; once the stops end an interrupted round reaches rejection memory |
| `evolve_custom` | a gate that answers anything, a host that normalises and refuses, two objectives | rejected stays refused, a round keeps its objective, still a run of Algorithm 1 |
| `evolve_unsaved` | `NullCheckpointStore`, the default, strict gate, repeatable evaluator, four rounds | scores along the chain never fall |
| `evolve_workers` | two processes | numbering, marker and append-only hold |
| `evolve_gate_stop` | is a gate's stop honoured after a recovery? | violated, disagreement 1 |
| `evolve_lost_round` | two processes: does every accepted graph get its entry? | violated, disagreement 2 |
| `blob_race` | two writers and a reader on an object store, requests repeated | a conditional append; committed stays, readers see the chain |
| `blob_meta` | is the revision a writer gets the one it wrote? | violated, disagreement 3 |
| `stores` | the same race on files and on a table; above a store, every caller of a workspace | conditional appends; what is committed is whole and one chain; one first graph, no refusal without a rival |
| `round` | the stages of section 5 | their properties hold |
| `human_repaired` | is a hand-written document taken with every entry, or refused? | violated, disagreement 5 |
| `gate_invalid` | does an invalid value bar acceptance? | violated, disagreement 4 |

Properties of `stores` and `round` are conjunctions over the modules they put side by side: `StoredIsChain` is
`CommittedIsWhole` of the files, `RowsAreChain` of the table, `SeedIsFirst` and `EditsFitBase` of `Workspaces`;
`ReaderSeesChain` adds `ShownScoreNotOlder`; `CandidateIsSound` is `CandidateIsEdited` and `EveryNodeFinishes`;
`AcceptedAsRequired` and `NoWayBack` are of both gates; `AnswersAccounted` is also `CallsAreOfDraft`; `UnseenFirst` is also
`StridesCover`; `LeastNeededGoesFirst` is also `LowScoresAreKept`.

`HistoryAppendOnly` is checked with two processes only: with one it follows from `ImplementsAlgorithm1`.

### Disagreements found

1. **A recovered round forgets the gate's stop** (`harness.py:381-385`). When `accept()` landed and the process stopped
   before the entry was saved, the next call restores the decision but not `decision_stop`, which is only assigned at
   line 431. A custom gate's stop, promised by `src/docs/architecture.md:338`, is lost and another paid round runs. A
   scalar gate's stop survives, because the score itself repeats it.
2. **With two processes an accepted graph can lose its entry** (`harness.py:427, 460`). `accept()` comes before the
   memory save; if the other process recorded the round meanwhile the save raises `HeadMoved`, and the accepted revision
   belongs to a round that memory records as something else. No interruption is needed.
   `src/docs/paper-differences.md:77` ("two workers must not fork a chain") shows that two workers are foreseen; no chain
   forks, but the chains stop agreeing with each other. For the same reason a resumed round may apply its recorded
   decision to a head that moved since: the record is not compared with the head (`harness.py:392-427`).
3. **Another writer's revision object is taken for one's own** (`stores/blob.py:93-97`). The key holds number and digest
   only, so a second writer with the same document finds the first writer's object, moves HEAD to it and is given a
   revision whose meta and time are not its own. The comment there says "not another writer".
4. **An invalid value behind an unknown one is not seen** (`gates.py:389-390`). `_observations()` returns at the first
   unknown value of a metric, so an invalid one later in its loop does not bar acceptance when the metric is report-only
   or not reached. `src/docs/paper-differences.md:224-225` has the gate refuse any such value before it compares.
5. **A node listed twice is taken once** (`graph.py:266-270`). `from_human()` reads the list of nodes into a dictionary, so
   of two entries with one id the earlier, with its type and description, is dropped without a note or a diagnostic.
   `graph.py:253` says "Human input is refused with diagnostics, never silently repaired". A duplicate edge is refused;
   a duplicate node never reaches `validate()`.

## 7. Proofs

Every theorem is for all values of the constants under the named assumptions of the modules: types of the constants,
`None` outside the sets it is added to, positive limits. Each of these modules is extended by the module of a passing
run, which evaluates them. Those of a round, beside types and finiteness: the two sentinels are two nodes
(`GraphAssumption`), thresholds are not negative and a report-only metric has no bound
(`ObjectiveAssumption`), more than half of the resamples are enough (`PairedAssumption`), a line of rejection memory is
shorter than its full text (`TextAssumption`), traces are numbered from 1 (`SamplingAssumption`), and a draft is a graph
over the ids (`DraftsAssumption`, in `MCRound`).

**`EvolveLoopProofs`**, for any number of processes, any graphs, gate, host and evaluator, with or without checkpoints,
interrupted anywhere: `TypeCorrect` and `RoundsAreConsecutive`. `TypeOK` is not inductive: that a save writes a
candidate, an evaluation or a decision rather than `None` depends on where the process is. `RoundsConsecutive` is not
inductive either: it holds because a process's next round follows from the memory it loaded, and the conditional append
succeeds only when that is still the stored one. The inductive invariant `IInv` (`Invariance`) adds, for each point of
`evolve()`, the locals that are set there (`LocalsInOrder`), that a payload has the fields its saves imply
(`SavedInOrder`), and that a process in round `k` holds a memory of `k - 1` entries numbered `1 .. k - 1`. One lemma per
action shows it is kept; `LastIterationIsLen` reduces the `CHOOSE` of the resume point to a length.

The second half of the module is about the history, again for any number of processes: `CompletedRoundsAreRecorded`,
`RetainedScoresAreControls`, `RejectedStaysOut`, `RoundsKeepTheirObjective`, `HistoryOnlyGrows`, and `ScoresNeverFall`
without checkpoints. None of these properties is inductive, because a process acts on what it loaded some steps ago. The
inductive invariant `HInv` (`HistoryInvariance`) therefore reads every stored record and the locals of every process
against the memory that process loaded (`Traced`, `LocalsTraced`): what was measured was novel then, a decision is on the
scores measured, a retained score is that of the control. That memory stays a beginning of the stored one (`Begins`), since
memory is only appended to; and an entry is saved only onto the memory its process holds, where the two are the same.
`MarkerAssumption` of the module `EvolveLoop` keeps the completed marker apart from the payloads, as the field `completed`
of a payload does.

**`EvolveRefinementProofs`**, for one process at a time, stopped anywhere any number of times: `StreaksAreReal`; with a
checkpoint store `HistoriesAgree`, `ScoresNeverFallAlone`, `StagesArePaidOnce` and `EvolveImplementsAlgorithm1`. The
hypotheses are those of the theorems:

- `OneProcess`: section 3 says why two break the agreement of the chains (disagreement 2 is the counterexample);
- `Checkpointing`: without a record an accepted round that was interrupted is forgotten. `~ Checkpointing` is the default of
  `evolve()` (`NullCheckpointStore`), and `ScoresNeverFall` is proved for it with any number of processes;
- `Repeatable` (every graph has one score), only where a score of an earlier round is compared with one of a later round:
  with a noisy evaluator a head may score lower the next time it is measured, and the loop promises no more.

`AloneInv` says that the process holds what is stored (`Abreast`) and that its streak counts the last rounds of its memory.
`ResumeInv` adds how the chains stand to each other: only the newest graph may be without an entry, the awaited round then
has a record with the accepted decision that moved the head (`MovedHead`), and an unfinished record was made for the head
(`ChainsAgree`); and where in `evolve()` a process can be in that state (`Resumes`). With it the refinement is one lemma per
action: `Record` is a round of `Algorithm1` under the mapping of section 3, and every other action leaves the entries and
`RecordedChain` as they are.

**`BlobStoreProofs`**, for any writers, readers, documents and lengths, S3 or GCS, repeated requests or not:
`TypeCorrect`, `CommittedStaysStored`, `ReadersSeeCommitted` and `Implements`. `WInv` says that HEAD is the end of the
chain and its generation the number of its writes (`HeadIsLast`), that every object, orphans included, stands on a
committed revision (`ObjectsRooted`), that the chain is linked and stored (`Linked`), and what a writer has seen at each
point of its call (`WriterInOrder`). `MatchesIfCurrent` is the heart: with either tag the precondition holds only if HEAD
is still what the writer saw. `RInv` adds what a reader holds; `Implements` maps every step to one of `RevisionChain` or a
stutter.

**`StoreProofs`**, for any writers, readers, clients and documents: `StoresKeepTypes`, `StoredStaysChain`,
`ReadersSeeChain`, `RefusedHaveRivals` and `StoresImplementRevisionChain`, which name the properties of the run `stores`
and so speak of all three modules. In `FileInv` the writer that holds the lock has compared the head that still stands,
and the file it writes has a name that no committed revision has; a reader holds a contiguous piece that ends where its
next name begins. In `TableInv` at most one transaction has the row behind the chain pending, because the primary key
makes the others collide, so the committed rows are the chain in its order. In `LayerInv` a client's append expects the
head it saw with its base, and if that head was overtaken another client did it (`Rival`). Both stores refine
`RevisionChain` through the same calls: `Replace` and `Commit` are the moment an append lands, an answer is an answer,
the rest are stutters.

**`CandidateProofs`**, for graphs of any size and any edits: `TypeCorrect` and `RepairLeavesNoCycle`, by the order in
which the search finishes nodes. While it runs, edges out of a finished node lead to nodes finished before it
(`ClosedInOrder`) or are to be cut, and those a node on the stack has looked at lead to finished nodes, to the next on
the stack, or are to be cut (`OpenInOrder`). For this the number of passes does not matter: whatever a pass finds is
cut. `TwoPassesSuffice` and `CutsCloseCycles` need more (`PassInv`). Edges the search has been along stay in the graph
unless they are to be cut (`Kept`), and the stack is a path of them, without a node twice; so an edge that leads back to
the stack closes a cycle of edges that stay, of at most as many nodes as the graph has. The first pass leaves its
finishing numbers behind as an order in which every edge and the stack of the second pass lead downwards (`Downwards`),
so that pass finds nothing. The ids of a graph are finitely many (`GraphAssumption`).

`CandidatesAreEdited` (`EditedInv`) follows the four loops of the edits: what the loops so far have done to nodes and edges,
and that nothing later undoes it but the cuts (`LoopsInOrder`, `AsEdited`); an edit set may name a node or an edge twice.
`NodesFinish`: what the backward search of `validate()` finds is the last set of a growing sequence; each of its nodes has a
path to a node without edges, and one without repetition, which is what `EveryNodeFinishes` asks for (`CheckedInv`).

The last three modules are about `MCRound`, so they name the properties of the run `round`. A step of a part is a step of
its module, and the other parts rest; each part therefore has an inductive invariant of its own.

**`RoundProofs`**

- *Calls*, for any finite set of callers and any budget. `CeilingsAreHard`: `Room` gives every call on its way a place below
  the ceilings, because a call is asked for with the meter below them. `FallbackStays`: a Guide counts what it logs as paid for,
  and has room for a call that is on its way (`PaidInv`). `LastReplyDecides`: while the refiner asks, every reply has failed
  and one more may be asked for (`ReplyInv`). `EveryAnswerIsSomewhere`: what the meter
  has counted is the sum of what the Guides have logged, what the refiner was told, what was lost in the hook, and the
  answers on their way (`AccountInv`); a step changes one summand, or moves an answer from one to another.
- *The end that is kept* (`KeptEndIsLongest`), for texts of any length. The upper bound of the search always fits, and with a
  monotonic counter nothing below the lower bound does (`TailInv`).
- *Candidates* (`CandidatesAreSound`): the behaviours of the part are those of `PrepareCandidate`, so the theorems of
  `CandidateProofs` hold in it.
- *The first graph* (`SeedsAreSound`, and the second half of `EveryAnswerIsSomewhere`): a document is taken with all ids it
  lists, its edges, and every entry but those that a later one with the same id replaces; a list of any length has such a
  last entry for each id. A draft is that of its last reply and valid, its attempts are within the retries (`DraftInv`), and
  the meter stands where it began plus the calls of the draft and those of others, and one more where the draft ended in
  the hook (`MeterInv`).

**`PromptProofs`**

- *Texts under a cap* (`CapsTakeTheLeast`). What the text shows is a sequence of entries in their order, and the cut has
  three stages: full entries are all shown while lines are left, and no other line is left once entries are demoted
  (`TrimInv`). Of the attempts, a sample leaves out none but the stale, by policy, and those of a stratum whose budget is filled,
  and keeps the order of a stratum without one (`SampleOf`), whatever is drawn. The block lists the sample in falling order
  of score, and every trace still to be listed comes after those that are (`ListInv`); so any cut of it keeps an end with
  the lowest scores. An image is the last of the failures left, or of the passes when no failure is.
- *Sampling* (`NewTracesComeFirst`). `StridesCover` is arithmetic: a trace is behind the start of a stride by less than the
  list is long, so one of the strides that count through the list has it. `UnseenFirst` counts how often each trace of a
  stratum was shown: those seen in this turn once more than the others. Where the budget divides the stratum their number is
  a multiple of it, so a turn ends exactly when all are seen (`EvenTurns`). `KnownStay`
  and `FreshFirst` say what a restart knows.
- *What a Guide reads* (`GuideReadsNeighborhood`). The search is compared with walks: after `h` hops it has seen what walks
  of at most `h` steps reach, its frontier is what they reach first (`SearchAt`). A level that is empty ends the search, no
  later one is filled (`SearchEnds`), and there are no more levels than ids (`LevelsFill`).

**`GateProofs`**

- *The objective gate* (`AcceptanceAsRequired`, `AcceptanceStands`, `RejectionIsProof`). `GateInv` says for each check of
  `compare()` what the metrics it has visited have shown, so that the verdict, when it comes, is what the requirements ask
  for (`Fair`). For `NoWayBack`, the differences of the way back are those of the way there with the sign changed: an
  interval that counts as a gain on one way is a loss on the other, beyond every threshold but those of a metric that
  tolerates more than it needs to gain.
- *The paired gate*, for any scores, tasks and draws. A sum over a sequence is the sum over its places whatever the order
  (`SumsExist`, `InOrder`), so no draw of a side that loses no task is negative, and the sum over all shared tasks changes
  its sign on the way back.
- *Types* (`PartsKeepTypes`): from the invariants of all parts, and that a text has a length (`SizesAdd`).

Induction over the numbers and over finite sets is used in these proofs without an operator as a parameter: a set of
numbers with 0 and every successor is `Nat` (`NatsByStep`), a family of subsets with `{}` and every set that it has less
any one of its elements is all of them (`SetsByStep`).

Model-checked only: `PendingFinishes`, since liveness under fairness is out of the prover's reach, and the five runs that
show a disagreement.

## 8. Not modelled

- Prompt texts, markdown and mermaid rendering, redaction, the vendor adapters and the parsing of arguments: text or
  pure input and output without state. `guide` of the command line prints what `GuidanceContext` models.
- Localizers that ask a host (a model, a similarity) instead of comparing actions; they read no state.
- Parsing, digests and reports of objectives; metrics of different widths.
- `get()` of a store is a search through what `list()` returns or one statement; of several revisions with one digest the
  memory and PostgreSQL stores return the oldest and the other two the newest, and nothing in the package asks for one.
- The trace chain is written once per round and never read by the loop; `Workspaces` has its append.
- The checkpoint store looks at the newest 200 revisions (`stores/revision.py:106-116`). The round that can be resumed is
  always the newest one, so only 200 saves of it without an entry could hide its record.

What is planned stands in section 2.

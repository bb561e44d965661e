----------------------------- MODULE EvolveLoop -----------------------------
(***************************************************************************)
(* evolve(): the loop of Algorithm 1 with resume.                          *)
(*                                                                         *)
(* Three persistent chains - graph, rejection memory, checkpoints - are    *)
(* shared by processes that each run evolve() on the same workspace.  A    *)
(* process keeps local copies of what it loaded; it may stop at any await, *)
(* by a crash, by an exception or because a budget ceiling was reached,    *)
(* and a later process reconciles the round it left behind.                *)
(*                                                                         *)
(* One action is one access to shared state together with the local code   *)
(* up to the next access: an evaluation and the save that follows it are   *)
(* one action, because a process that stops between the two leaves what it *)
(* would have left by stopping before both.                                *)
(*                                                                         *)
(* Graphs are model values; a graph's digest is the graph.  The store is   *)
(* the package's own (stores/revision.py), whose refs are digests.         *)
(***************************************************************************)
EXTENDS Integers, Sequences

CONSTANTS
    Runners,        \* processes that may run evolve() on the workspace
    Graphs,         \* graphs a host or a refiner can produce
    Skeleton,       \* the graph an empty workspace gets when no other is supplied
    InitialGraphs,  \* values of the parameter initial_graph (None or a graph)
    Materialise,    \* the host's propose(): module candidate -> canonical graph
    HostInvalid,    \* canonical graphs that fail validate()
    Scores,         \* validation scores
    ScoresOf,       \* scores an evaluation of a graph can return
    Gate,           \* "tie", "strict" or "custom"
    Perfect,        \* the gate's perfect score; above every score: not configured
    Bindings,       \* objective/context digests a run can be configured with
    Checkpointing,  \* FALSE: NullCheckpointStore, the default
    MaxRounds,      \* config.max_rounds
    MaxStreak,      \* config.max_rejected_streak; above MaxIter: not configured
    MaxIter,        \* bound: no round after this one is run
    None, Completed \* an absent value; the payload {"completed": True}

ASSUME ConstantsAssumption ==
    /\ Skeleton \in Graphs
    /\ InitialGraphs \subseteq Graphs \cup {None}
    /\ Materialise \in [Graphs -> Graphs]
    /\ HostInvalid \subseteq Graphs
    /\ Scores \subseteq Int
    /\ ScoresOf \in [Graphs -> SUBSET Scores]
    /\ Gate \in {"tie", "strict", "custom"}
    /\ Perfect \in Int
    /\ Checkpointing \in BOOLEAN
    /\ MaxRounds \in Nat \ {0}
    /\ MaxStreak \in Nat \ {0}
    /\ MaxIter \in Nat \ {0}
    /\ None \notin Graphs
    /\ None # Completed

Iterations == 1 .. MaxIter
Outcomes == {"accepted", "rejected", "structural_failure", "no_action",
             "duplicate_candidate"}
Dispositions == {"rejected", "unresolved", None}
EditKinds == {"failed", "empty", "candidate"}

Evaluation == [ref : Graphs, score : Scores]
Decision == [accepted : BOOLEAN, stop : BOOLEAN, disposition : Dispositions,
             baseline : Evaluation, candidate : Evaluation, binding : Bindings]

\* One revision of the graph chain: document and the meta accept() adds.
Revision == [digest : Graphs, iteration : Nat, decision : Decision \cup {None}]

\* One entry of rejection memory.
Entry == [iteration : Nat, kind : Outcomes, digest : Graphs \cup {None},
          retained : Scores \cup {None}, decision : Decision \cup {None}]

\* The refiner's recorded output and what later saves of the round add to it.
Payload == [edits : EditKinds, candidate : Graphs \cup {None},
            graph_ref : Graphs, binding : Bindings,
            host : Graphs \cup {None}, evaluation : Evaluation \cup {None},
            baseline : Evaluation \cup {None}, decision : Decision \cup {None}]

\* An absent value is not a value, and the marker {"completed": True} is not a round's
\* record: it has none of a record's fields.
ASSUME MarkerAssumption ==
    /\ None \notin Evaluation \cup Decision \cup Payload \cup {"rejected", "unresolved"}
    /\ Completed \notin Payload

VARIABLES
    graphs,   \* the graph chain, oldest first
    memory,   \* the newest revision of the rejections chain: its entries
    ckpt,     \* newest checkpoint payload of each iteration
    run       \* the local variables of each process

vars == <<graphs, memory, ckpt, run>>

RunState ==
    [pc : {"idle", "seed", "memory", "checkpoint", "baseline", "begin", "refine",
           "propose", "validate", "decide", "accept", "record", "complete", "end"},
     binding : Bindings \cup {None}, graph_ref : Graphs \cup {None},
     mem : Seq(Entry), k : Nat, last : Nat,
     best : Evaluation \cup {None}, rec : Payload \cup {None},
     digest : Graphs \cup {None}, evaluation : Evaluation \cup {None},
     decision : Decision \cup {None}, decision_stop : BOOLEAN,
     outcome : Outcomes \cup {None}, retained : Scores \cup {None},
     streak : Nat]

NotRunning ==
    [pc |-> "idle", binding |-> None, graph_ref |-> None, mem |-> <<>>, k |-> 0,
     last |-> 0, best |-> None, rec |-> None, digest |-> None,
     evaluation |-> None, decision |-> None, decision_stop |-> FALSE,
     outcome |-> None, retained |-> None, streak |-> 0]

HeadRef == graphs[Len(graphs)].digest

\* Process r leaves evolve(), by return or by exception; its report is not kept.
Leave(r) == run' = [run EXCEPT ![r] = NotRunning]

-----------------------------------------------------------------------------
(* Rejection memory as the loop uses it.                                   *)

\* rejected_digests(): the entries that refuse a later proposal of their candidate.
Blocks(e) ==
    /\ e.digest # None
    /\ \/ e.kind = "structural_failure"
       \/ e.kind = "rejected" /\ e.decision.disposition \in {None, "rejected"}

\* _known_candidate(): the head, or a candidate memory already has an answer for.
Known(digest, current, mem) ==
    \/ digest = current
    \/ \E i \in DOMAIN mem : Blocks(mem[i]) /\ mem[i].digest = digest

\* The resume point one round early: the last recorded round is run again.
LastIteration_OffByOne(mem) == IF mem = <<>> THEN 0 ELSE Len(mem) - 1

\* RejectionMemory.iteration: the greatest iteration of an entry.
LastIteration(mem) ==
    CHOOSE m \in {0} \cup {mem[i].iteration : i \in DOMAIN mem} :
        \A i \in DOMAIN mem : mem[i].iteration <= m

-----------------------------------------------------------------------------
(* The gate.                                                               *)

Accepts(candidate, best) ==
    \/ Gate = "strict" /\ candidate > best
    \/ Gate # "strict" /\ candidate >= best

\* A gate that compares the other way round.
Decisions_Swapped(best, cand, binding) ==
    LET accepted == Accepts(best.score, cand.score)
    IN  {[accepted |-> accepted,
          stop |-> (IF accepted THEN cand.score ELSE best.score) >= Perfect,
          disposition |-> None,
          baseline |-> best, candidate |-> cand, binding |-> binding]}

\* Decisions the gate can return for a candidate against the retained graph.
\* A scalar gate has one; a custom gate (ObjectiveGate, a host's own) may return
\* any, its stop independent of the score.
Decisions(best, cand, binding) ==
    IF Gate = "custom"
    THEN {d \in [accepted : BOOLEAN, stop : BOOLEAN, disposition : Dispositions,
                 baseline : {best}, candidate : {cand}, binding : {binding}] :
            d.accepted => d.disposition = None}
    ELSE LET accepted == Accepts(cand.score, best.score)
         IN  {[accepted |-> accepted,
               stop |-> (IF accepted THEN cand.score ELSE best.score) >= Perfect,
               disposition |-> None,
               baseline |-> best, candidate |-> cand, binding |-> binding]}

\* The identity probe decide(best, best): stop from the score alone.
ProbeStop(best) == best.score >= Perfect

-----------------------------------------------------------------------------
(* Start: the graph, rejection memory, the pending checkpoint, line 1.      *)

\* graph_store.load() and coerce_initial_graph(): an initial graph is for an
\* empty workspace only.
LoadHead(r, initial, binding) ==
    /\ run[r].pc = "idle"
    /\ \/ /\ graphs = <<>>
          /\ run' = [run EXCEPT ![r] =
                [NotRunning EXCEPT !.pc = "seed", !.binding = binding,
                    !.graph_ref = IF initial = None THEN Skeleton ELSE initial]]
       \/ /\ graphs # <<>> /\ initial = None
          /\ run' = [run EXCEPT ![r] =
                [NotRunning EXCEPT !.pc = "memory", !.binding = binding, !.graph_ref = HeadRef]]
       \/ /\ graphs # <<>> /\ initial # None
          /\ Leave(r)
    /\ UNCHANGED <<graphs, memory, ckpt>>

\* graph_store.seed(): revision 0, refused by the store when a graph exists.
Seed(r) ==
    /\ run[r].pc = "seed"
    /\ IF graphs = <<>>
       THEN /\ graphs' = <<[digest |-> run[r].graph_ref, iteration |-> 0, decision |-> None]>>
            /\ run' = [run EXCEPT ![r].pc = "memory"]
       ELSE /\ Leave(r)
            /\ UNCHANGED graphs
    /\ UNCHANGED <<memory, ckpt>>

\* rejection_store.load(): the resume point follows from it.
LoadMemory(r) ==
    /\ run[r].pc = "memory"
    /\ LET start == LastIteration(memory) + 1
       IN  run' = [run EXCEPT ![r].pc = "checkpoint", ![r].mem = memory,
                              ![r].k = start, ![r].last = start + MaxRounds - 1]
    /\ UNCHANGED <<graphs, memory, ckpt>>

\* A resume that only trusts rounds whose validation was recorded.
Pending_Validated(p) == p \notin {None, Completed} /\ p.evaluation # None

\* A recorded round that never finished.
Pending(p) == p \notin {None, Completed}

\* No binding check: any pending record is taken over.
SameBinding_Unchecked(p, binding) == TRUE

\* The record was made under this run's objective and context (or both have none).
SameBinding(p, binding) == p.binding = binding

\* The acceptance of a pending round landed before the interruption: the head is
\* its candidate and is not the graph the round started from.
LandedAs(p, digest, graph_ref) ==
    p.evaluation # None /\ digest = graph_ref /\ p.graph_ref # graph_ref

\* checkpoints.load(start): a pending round is resumed, or refused when it was made
\* under another objective.  When its candidate is the head, its evaluation is the
\* baseline.
LoadCheckpoint(r) ==
    /\ run[r].pc = "checkpoint"
    /\ run[r].k \in Iterations
    /\ LET p == ckpt[run[r].k]
       IN  \/ /\ ~ Pending(p)
              /\ run' = [run EXCEPT ![r].pc = "baseline"]
           \/ /\ Pending(p) /\ ~ SameBinding(p, run[r].binding)
              /\ Leave(r)
           \/ /\ Pending(p) /\ SameBinding(p, run[r].binding)
              /\ run' = IF LandedAs(p, p.host, run[r].graph_ref)
                        THEN [run EXCEPT ![r].pc = "begin", ![r].rec = p,
                                         ![r].best = p.evaluation]
                        ELSE [run EXCEPT ![r].pc = "baseline", ![r].rec = p]
    /\ UNCHANGED <<graphs, memory, ckpt>>

\* The perfect-score probe also runs when a round is pending.
Baseline_ProbesFirst(r) ==
    /\ run[r].pc = "baseline"
    /\ \E score \in ScoresOf[run[r].graph_ref] :
         LET best == [ref |-> run[r].graph_ref, score |-> score]
         IN  IF ProbeStop(best)
             THEN Leave(r)
             ELSE run' = [run EXCEPT ![r].pc = "begin", ![r].best = best]
    /\ UNCHANGED <<graphs, memory, ckpt>>

\* Line 1: the head is scored (or the host passes the score in); the perfect-score
\* probe runs only when nothing is pending.
Baseline(r) ==
    /\ run[r].pc = "baseline"
    /\ \E score \in ScoresOf[run[r].graph_ref] :
         LET best == [ref |-> run[r].graph_ref, score |-> score]
         IN  IF run[r].rec = None /\ ProbeStop(best)
             THEN Leave(r)
             ELSE run' = [run EXCEPT ![r].pc = "begin", ![r].best = best]
    /\ UNCHANGED <<graphs, memory, ckpt>>

-----------------------------------------------------------------------------
(* One round.                                                              *)

\* The loop's head and its budget check; the round's locals are reset.  Only a
\* resumed round, the first of the run, comes here with a record.
BeginRound(r) ==
    /\ run[r].pc = "begin"
    /\ run[r].k \in Iterations
    /\ run' = [run EXCEPT ![r].pc = IF run[r].rec = None THEN "refine" ELSE "propose",
                          ![r].outcome = None, ![r].evaluation = None,
                          ![r].decision = None, ![r].decision_stop = FALSE,
                          ![r].digest = IF run[r].rec = None THEN None
                                        ELSE run[r].rec.candidate,
                          ![r].retained = run[r].best.score]
    /\ UNCHANGED <<graphs, memory, ckpt>>

\* checkpoints.save(k, payload) under NullCheckpointStore keeps nothing.
Saved(k, payload) == IF Checkpointing THEN [ckpt EXCEPT ![k] = payload] ELSE ckpt

\* The record names the candidate as the graph the round started from.
Refined_FromCandidate(edits, candidate, graph_ref, binding) ==
    [edits |-> edits, candidate |-> candidate, graph_ref |-> candidate,
     binding |-> binding, host |-> None, evaluation |-> None, baseline |-> None,
     decision |-> None]

\* What the refiner stage records: its edits and, when they apply, the candidate.
Refined(edits, candidate, graph_ref, binding) ==
    [edits |-> edits, candidate |-> candidate, graph_ref |-> graph_ref,
     binding |-> binding, host |-> None, evaluation |-> None, baseline |-> None,
     decision |-> None]

\* The rollout, the refiner and the first save of the round's record.  The edits
\* may fail (unreadable, or refused by PrepareCandidate), be empty, or give a
\* candidate: any graph, the head included.
Refine(r) ==
    /\ run[r].pc = "refine"
    /\ \E edits \in EditKinds, candidate \in Graphs \cup {None} :
         /\ (edits = "candidate") <=> (candidate # None)
         /\ LET p == Refined(edits, candidate, run[r].graph_ref, run[r].binding)
            IN  /\ ckpt' = Saved(run[r].k, p)
                /\ run' = [run EXCEPT ![r].pc = "propose", ![r].rec = p,
                                      ![r].digest = candidate]
    /\ UNCHANGED <<graphs, memory>>

\* The round's outcome is known without a decision of the gate.
Settle(r, outcome, digest) ==
    /\ run' = [run EXCEPT ![r].pc = "record", ![r].outcome = outcome, ![r].digest = digest]
    /\ UNCHANGED <<graphs, memory, ckpt>>

NoCandidate(r) ==
    /\ run[r].pc = "propose"
    /\ run[r].rec.edits # "candidate"
    /\ Settle(r, IF run[r].rec.edits = "empty" THEN "no_action" ELSE "structural_failure",
              run[r].rec.candidate)

\* The host materialises the candidate; every later comparison is on its digest.
Proposed(r) == /\ run[r].pc = "propose"
               /\ run[r].rec.edits = "candidate"
Hosted(r) == Materialise[run[r].rec.candidate]

HostRefuses(r) ==
    /\ Proposed(r)
    /\ Hosted(r) \in HostInvalid
    /\ Settle(r, "structural_failure", Hosted(r))

\* No recovery branch: the head's own candidate is looked up in memory.
Landed_Never(r) == FALSE

Landed(r) == LandedAs(run[r].rec, Hosted(r), run[r].graph_ref)

\* The acceptance landed but the memory save did not: the outcome is taken from the
\* record and nothing is accepted again.
AlreadyAccepted(r) ==
    /\ Proposed(r)
    /\ Hosted(r) \notin HostInvalid
    /\ Landed(r)
    /\ run' = [run EXCEPT ![r].pc = "record", ![r].outcome = "accepted",
                          ![r].digest = Hosted(r),
                          ![r].evaluation = run[r].rec.evaluation,
                          ![r].best = run[r].rec.evaluation,
                          ![r].decision = run[r].rec.decision,
                          ![r].retained = run[r].rec.baseline.score]
    /\ UNCHANGED <<graphs, memory, ckpt>>

\* Without the lookup of earlier rejections, only the head is refused.
Refused_HeadOnly(r) == Hosted(r) = run[r].graph_ref

Refused(r) == Known(Hosted(r), run[r].graph_ref, run[r].mem)

Duplicate(r) ==
    /\ Proposed(r)
    /\ Hosted(r) \notin HostInvalid
    /\ ~ Landed(r)
    /\ Refused(r)
    /\ Settle(r, "duplicate_candidate", Hosted(r))

\* The candidate goes on to validation.
Novel(r) ==
    /\ Proposed(r)
    /\ Hosted(r) \notin HostInvalid
    /\ ~ Landed(r)
    /\ ~ Refused(r)
    /\ run' = [run EXCEPT ![r].pc = "validate", ![r].digest = Hosted(r)]
    /\ UNCHANGED <<graphs, memory, ckpt>>

\* The recorded evaluation is reused against the baseline of this run.
Reuse_NewBaseline(r) ==
    /\ run[r].pc = "validate"
    /\ run[r].rec.evaluation # None
    /\ run' = [run EXCEPT ![r].pc = "decide", ![r].evaluation = run[r].rec.evaluation]
    /\ UNCHANGED <<graphs, memory, ckpt>>

\* The recorded evaluation is reused, with the control it was made against.
Reuse(r) ==
    /\ run[r].pc = "validate"
    /\ run[r].rec.evaluation # None
    /\ run' = [run EXCEPT ![r].pc = "decide", ![r].evaluation = run[r].rec.evaluation,
                          ![r].best = run[r].rec.baseline,
                          ![r].retained = run[r].rec.baseline.score]
    /\ UNCHANGED <<graphs, memory, ckpt>>

\* Line 15: the candidate is evaluated; its evaluation and its control are saved.
Validate(r) ==
    /\ run[r].pc = "validate"
    /\ run[r].rec.evaluation = None
    /\ \E score \in ScoresOf[run[r].digest] :
         LET e == [ref |-> run[r].digest, score |-> score]
             p == [run[r].rec EXCEPT !.host = run[r].digest, !.evaluation = e,
                                     !.baseline = run[r].best]
         IN  /\ ckpt' = Saved(run[r].k, p)
             /\ run' = [run EXCEPT ![r].pc = "decide", ![r].evaluation = e, ![r].rec = p]
    /\ UNCHANGED <<graphs, memory>>

\* After the decision: accept() or straight to rejection memory.
Decided(r, d, rec) ==
    run' = [run EXCEPT ![r].pc = IF d.accepted THEN "accept" ELSE "record",
                       ![r].decision = d, ![r].decision_stop = d.stop, ![r].rec = rec,
                       ![r].outcome = IF d.accepted THEN "accepted" ELSE "rejected"]

\* A decision kept in memory only, lost when the process stops before accept().
Decide_NotSaved(r) ==
    /\ run[r].pc = "decide"
    /\ \E d \in Decisions(run[r].best, run[r].evaluation, run[r].binding) :
            Decided(r, d, run[r].rec)
    /\ UNCHANGED <<graphs, memory, ckpt>>

\* Lines 16-20: the decision is durable before the head moves.  The local record
\* does not carry it: only a resumed round finds a decision in its record.
Decide(r) ==
    /\ run[r].pc = "decide"
    /\ IF run[r].rec.decision # None
       THEN /\ Decided(r, run[r].rec.decision, run[r].rec)
            /\ UNCHANGED ckpt
       ELSE \E d \in Decisions(run[r].best, run[r].evaluation, run[r].binding) :
              /\ ckpt' = Saved(run[r].k, [run[r].rec EXCEPT !.decision = d])
              /\ Decided(r, d, run[r].rec)
    /\ UNCHANGED <<graphs, memory>>

\* append(expected_head): the head is still the graph the process holds.
HeadIs(graph_ref) == HeadRef = graph_ref

\* The round is marked completed as soon as the head moved.
Accept_CompletesRound(r) ==
    /\ run[r].pc = "accept"
    /\ IF HeadIs(run[r].graph_ref)
       THEN /\ graphs' = Append(graphs, [digest |-> run[r].digest, iteration |-> run[r].k,
                                         decision |-> run[r].decision])
            /\ ckpt' = Saved(run[r].k, Completed)
            /\ run' = [run EXCEPT ![r].pc = "record", ![r].graph_ref = run[r].digest,
                                  ![r].best = run[r].evaluation]
       ELSE /\ Leave(r)
            /\ UNCHANGED <<graphs, ckpt>>
    /\ UNCHANGED memory

\* The head moves but the retained evaluation stays the old graph's.
Accept_KeepsBest(r) ==
    /\ run[r].pc = "accept"
    /\ IF HeadIs(run[r].graph_ref)
       THEN /\ graphs' = Append(graphs, [digest |-> run[r].digest, iteration |-> run[r].k,
                                         decision |-> run[r].decision])
            /\ run' = [run EXCEPT ![r].pc = "record", ![r].graph_ref = run[r].digest]
       ELSE /\ Leave(r)
            /\ UNCHANGED graphs
    /\ UNCHANGED <<memory, ckpt>>

\* graph_store.accept(expected_ref): the head moves, or HeadMoved ends the run.
Accept(r) ==
    /\ run[r].pc = "accept"
    /\ IF HeadIs(run[r].graph_ref)
       THEN /\ graphs' = Append(graphs, [digest |-> run[r].digest, iteration |-> run[r].k,
                                         decision |-> run[r].decision])
            /\ run' = [run EXCEPT ![r].pc = "record", ![r].graph_ref = run[r].digest,
                                  ![r].best = run[r].evaluation]
       ELSE /\ Leave(r)
            /\ UNCHANGED graphs
    /\ UNCHANGED <<memory, ckpt>>

\* The entry of the round.
NewEntry(r) ==
    [iteration |-> run[r].k, kind |-> run[r].outcome, digest |-> run[r].digest,
     retained |-> IF run[r].outcome \in {"accepted", "rejected"}
                  THEN run[r].retained ELSE None,
     decision |-> run[r].decision]

\* The save without its precondition: the last writer wins.
MemoryIs_Unchecked(mem) == TRUE

\* append(expected_head) on the rejections chain: nobody recorded a round meanwhile.
MemoryIs(mem) == memory = mem

\* rejection_store.save(): one entry per round, once the outcome is known.  Locals of
\* the round that nothing reads after it are dropped here.
Record(r) ==
    /\ run[r].pc = "record"
    /\ IF MemoryIs(run[r].mem)
       THEN LET mem == Append(run[r].mem, NewEntry(r))
            IN  /\ memory' = mem
                /\ run' = [run EXCEPT ![r].pc = "complete", ![r].mem = mem,
                                      ![r].rec = None, ![r].digest = None,
                                      ![r].evaluation = None, ![r].retained = None]
       ELSE /\ Leave(r)
            /\ UNCHANGED memory
    /\ UNCHANGED <<graphs, ckpt>>

\* The checkpoint is marked completed.
Complete(r) ==
    /\ run[r].pc = "complete"
    /\ ckpt' = Saved(run[r].k, Completed)
    /\ run' = [run EXCEPT ![r].pc = "end"]
    /\ UNCHANGED <<graphs, memory>>

\* The streak of rounds that left the head alone, never reset.
Streak_NeverReset(r) == run[r].streak + 1

Streak(r) == IF run[r].outcome = "accepted" THEN 0 ELSE run[r].streak + 1

\* The round is reported.  The run stops when the accepted graph is perfect, when
\* the gate's decision said so, after MaxStreak rounds that left the head alone, or
\* after its last round.
Stops(r) ==
    \/ run[r].outcome = "accepted" /\ ProbeStop(run[r].best)
    \/ run[r].decision_stop
    \/ Streak(r) >= MaxStreak
    \/ run[r].k = run[r].last

EndRound(r) ==
    /\ run[r].pc = "end"
    /\ IF Stops(r)
       THEN Leave(r)
       ELSE run' = [run EXCEPT ![r].pc = "begin", ![r].k = run[r].k + 1,
                               ![r].streak = Streak(r)]
    /\ UNCHANGED <<graphs, memory, ckpt>>

-----------------------------------------------------------------------------
(* Stops.                                                                  *)

\* BudgetExceeded before or inside a paid stage: the round is abandoned and its
\* checkpoint stays.
Exhaust(r) ==
    /\ \/ run[r].pc \in {"baseline", "begin", "refine"}
       \/ run[r].pc = "validate" /\ run[r].rec.evaluation = None
    /\ Leave(r)
    /\ UNCHANGED <<graphs, memory, ckpt>>

\* The process dies, or an await raises (HeadMoved of a checkpoint save included).
Crash(r) ==
    /\ run[r].pc # "idle"
    /\ Leave(r)
    /\ UNCHANGED <<graphs, memory, ckpt>>

Init ==
    /\ graphs = <<>>
    /\ memory = <<>>
    /\ ckpt = [k \in Iterations |-> None]
    /\ run = [r \in Runners |-> NotRunning]

Start(r) == \E initial \in InitialGraphs, binding \in Bindings : LoadHead(r, initial, binding)

\* The steps evolve() takes when nothing stops it.
Advance(r) ==
    \/ Seed(r) \/ LoadMemory(r) \/ LoadCheckpoint(r) \/ Baseline(r)
    \/ BeginRound(r) \/ Refine(r)
    \/ NoCandidate(r) \/ HostRefuses(r) \/ AlreadyAccepted(r) \/ Duplicate(r) \/ Novel(r)
    \/ Reuse(r) \/ Validate(r) \/ Decide(r) \/ Accept(r)
    \/ Record(r) \/ Complete(r) \/ EndRound(r)

Stop(r) == Exhaust(r) \/ Crash(r)

Next == \E r \in Runners : Start(r) \/ Advance(r) \/ Stop(r)

Spec == Init /\ [][Next]_vars

-----------------------------------------------------------------------------
(* Properties.                                                             *)

\* The types of the chains and of every process's locals.
TypeOK ==
    /\ graphs \in Seq(Revision)
    /\ memory \in Seq(Entry)
    /\ ckpt \in [Iterations -> Payload \cup {None, Completed}]
    /\ run \in [Runners -> RunState]

\* A round's record is on the chain and not marked completed.
Unfinished(k) == ckpt[k] \notin {None, Completed}

\* Rejection memory holds rounds 1, 2, 3, ... with no gap and no repetition, whatever
\* the processes, crashes and resumes: "exactly one entry per round"
\* (docs/architecture.md:117), because a resume point derived from the greatest
\* iteration and a conditional save leave no room for another numbering.
RoundsConsecutive == \A i \in 1 .. Len(memory) : memory[i].iteration = i

\* A checkpoint is marked completed only once its round is in rejection memory: the
\* marker must never outrun the save it confirms (harness.py:460-462).
CompletedIsRecorded == \A k \in Iterations : ckpt[k] = Completed => k <= Len(memory)

\* With the default gates and an evaluator that repeats itself, a later graph of the
\* chain never scores below an earlier one, however the rounds were interrupted.
NoRegression ==
    \A i, j \in 1 .. Len(graphs) :
        (i < j /\ Gate # "custom") =>
            \E a \in ScoresOf[graphs[i].digest], b \in ScoresOf[graphs[j].digest] : a <= b

\* The entry of rejection memory that reports a revision of the graph chain.
Reports(e, v) == e.kind = "accepted" /\ e.digest = v.digest /\ e.decision = v.decision

\* Rejection memory and the graph chain tell one history: the revisions after the first
\* are in the order of their rounds, each is what the entry of its round reports, every
\* accepted entry has its revision, and at most the newest revision is not yet recorded:
\* it belongs to the round memory is waiting for.
HistoryAgrees ==
    /\ \A i, j \in 1 .. Len(graphs) : i < j => graphs[i].iteration < graphs[j].iteration
    /\ \A i \in 2 .. Len(graphs) :
         \/ /\ graphs[i].iteration \in 1 .. Len(memory)
            /\ Reports(memory[graphs[i].iteration], graphs[i])
         \/ i = Len(graphs) /\ graphs[i].iteration = Len(memory) + 1
    /\ \A k \in 1 .. Len(memory) :
         memory[k].kind = "accepted" => \E i \in 2 .. Len(graphs) : graphs[i].iteration = k

\* The retained score an entry reports is the score of the control its decision was
\* made against, not the score of another baseline taken after a restart.
RetainedIsControl ==
    \A i \in 1 .. Len(memory) :
        memory[i].decision # None => memory[i].retained = memory[i].decision.baseline.score

\* A candidate that was measured as worse, or failed the host's checks, never
\* reaches the gate again; it comes back only as a refused duplicate.
RejectedStaysRefused ==
    \A i, j \in 1 .. Len(memory) :
        (i < j /\ Blocks(memory[i]) /\ memory[j].digest = memory[i].digest)
            => memory[j].kind \notin {"accepted", "rejected"}

\* REQ-017: the record of a round and the decision taken in it were made under one
\* objective, even when another process finishes the round.
OneObjectivePerRound ==
    \A k \in Iterations :
        (Unfinished(k) /\ ckpt[k].decision # None)
            => ckpt[k].decision.binding = ckpt[k].binding

\* The streak a run stops on is real: the last `streak` rounds of rejection memory
\* all left the head alone, whichever process recorded them.
StreakIsReal ==
    \A r \in Runners : run[r].pc \in {"begin", "refine", "propose"} =>
        /\ Len(memory) >= run[r].streak
        /\ \A i \in Len(memory) - run[r].streak + 1 .. Len(memory) :
              memory[i].kind # "accepted"

\* A paid stage whose result is on record is not paid again: no second refiner
\* stage for a recorded round, no second evaluation or decision of its candidate.
RecordedStageNotRepeated ==
    [][\A r \in Runners :
        LET p == ckpt[run[r].k]
            step == <<run[r].pc, run'[r].pc>>
        IN  run[r].k \in Iterations /\ Unfinished(run[r].k) =>
              /\ step # <<"refine", "propose">>
              /\ step = <<"validate", "decide">> /\ p.evaluation # None
                    => run'[r].evaluation = p.evaluation
              /\ step \in {<<"decide", "accept">>, <<"decide", "record">>} /\ p.decision # None
                    => run'[r].decision = p.decision]_vars

\* The chains only grow at their end: no step rewrites or drops a revision or entry.
HistoryAppendOnly ==
    [][/\ Len(graphs') >= Len(graphs) /\ SubSeq(graphs', 1, Len(graphs)) = graphs
       /\ Len(memory') >= Len(memory) /\ SubSeq(memory', 1, Len(memory)) = memory]_vars

\* "gate_stop: a custom gate returned stop=True" (docs/architecture.md:338): a run does
\* not start another round after a round whose decision said stop.
GateStopHonoured ==
    [][\A r \in Runners :
        (run[r].pc = "end" /\ run'[r].pc = "begin" /\ run[r].decision # None)
            => ~ run[r].decision.stop]_vars

\* A recorded round is finished: it reaches rejection memory.
PendingFinishes ==
    \A k \in Iterations : Unfinished(k) ~> Len(memory) >= k

=============================================================================

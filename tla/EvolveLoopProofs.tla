--------------------------- MODULE EvolveLoopProofs ---------------------------
(***************************************************************************)
(* Theorems about EvolveLoop for any number of processes, any graphs, any  *)
(* gate and any interruptions: its types, and what rejection memory, the   *)
(* checkpoints and the graph chain tell about the rounds.                  *)
(***************************************************************************)
EXTENDS EvolveLoop, SequenceTheorems, TLAPS

\* The numbering of rejection memory, of the stored one and of a local copy.
Consecutive(mem) == \A i \in 1 .. Len(mem) : mem[i].iteration = i

\* A payload whose fields arrived in the order the loop saves them: a candidate with
\* the edits, a control with the evaluation.
SavedInOrder(p) ==
    /\ p.edits = "candidate" => p.candidate \in Graphs
    /\ p.evaluation # None => p.baseline \in Evaluation

GoodPayload == {p \in Payload : SavedInOrder(p)}

InRound == {"refine", "propose", "validate", "decide", "accept", "record"}

\* The locals a process relies on at each point of evolve().
LocalsInOrder(s) ==
    /\ Consecutive(s.mem)
    /\ s.rec # None => s.rec \in GoodPayload
    /\ s.pc # "idle" => s.graph_ref \in Graphs /\ s.binding \in Bindings
    /\ s.pc \in {"checkpoint", "baseline", "begin"} \cup InRound => s.k = Len(s.mem) + 1
    /\ s.pc \in {"complete", "end"} => s.k = Len(s.mem)
    /\ s.pc \in {"begin", "complete", "end"} \cup InRound => s.best \in Evaluation
    /\ s.pc \in {"propose", "validate", "decide"} => s.rec \in GoodPayload
    /\ s.pc \in {"validate", "decide", "accept"} => s.digest \in Graphs
    /\ s.pc \in {"decide", "accept"} => s.evaluation \in Evaluation
    /\ s.pc = "accept" => s.decision \in Decision
    /\ s.pc \in InRound => s.retained \in Scores
    /\ s.pc \in {"accept", "record"} => s.outcome \in Outcomes

GoodState == {s \in RunState : LocalsInOrder(s)}

\* The inductive invariant: the types, the numbering, and for every process that the
\* round it is in follows the memory it holds.
IInv ==
    /\ graphs \in Seq(Revision)
    /\ memory \in Seq(Entry)
    /\ Consecutive(memory)
    /\ ckpt \in [Iterations -> GoodPayload \cup {None, Completed}]
    /\ run \in [Runners -> GoodState]

USE ConstantsAssumption

-----------------------------------------------------------------------------
(* Lemmas about the operators.                                             *)

\* RejectionMemory.iteration of a memory without gaps is its length.
LEMMA LastIterationIsLen ==
    ASSUME NEW mem \in Seq(Entry), Consecutive(mem)
    PROVE  LastIteration(mem) = Len(mem)
<1> DEFINE S == {0} \cup {mem[i].iteration : i \in DOMAIN mem}
           IsMax(m) == m \in S /\ \A i \in DOMAIN mem : mem[i].iteration <= m
<1>1. Len(mem) \in Nat /\ DOMAIN mem = 1 .. Len(mem)
  OBVIOUS
<1>2. \A i \in DOMAIN mem : mem[i].iteration = i
  BY <1>1 DEF Consecutive
<1>3. IsMax(Len(mem))
  <2>1. CASE Len(mem) = 0
    BY <2>1, <1>1, <1>2
  <2>2. CASE Len(mem) # 0
    <3>1. Len(mem) \in DOMAIN mem
      BY <2>2, <1>1
    <3>2. mem[Len(mem)].iteration = Len(mem)
      BY <3>1, <1>2
    <3>3. Len(mem) \in S
      BY <3>1, <3>2
    <3> QED
      BY <3>3, <1>1, <1>2
  <2> QED
    BY <2>1, <2>2
<1>4. ASSUME NEW m, IsMax(m)
      PROVE  m = Len(mem)
  <2>1. m = 0 \/ \E i \in DOMAIN mem : m = mem[i].iteration
    BY <1>4
  <2>2. m \in Nat /\ m <= Len(mem)
    BY <2>1, <1>1, <1>2
  <2>3. Len(mem) # 0 => Len(mem) <= m
    BY <1>4, <1>1, <1>2
  <2>4. CASE Len(mem) = 0
    BY <2>2, <2>4
  <2>5. CASE Len(mem) # 0
    <3>1. Len(mem) <= m /\ m <= Len(mem) /\ m \in Nat /\ Len(mem) \in Nat
      BY <2>2, <2>3, <2>5, <1>1
    <3> QED
      BY <3>1
  <2> QED
    BY <2>4, <2>5
<1>5. LastIteration(mem) = CHOOSE m : IsMax(m)
  BY DEF LastIteration
<1>6. IsMax(CHOOSE m : IsMax(m))
  BY <1>3
<1> QED
  BY <1>4, <1>5, <1>6

\* Appending the next round keeps the numbering.
LEMMA AppendConsecutive ==
    ASSUME NEW mem \in Seq(Entry), Consecutive(mem),
           NEW e \in Entry, e.iteration = Len(mem) + 1
    PROVE  /\ Append(mem, e) \in Seq(Entry)
           /\ Len(Append(mem, e)) = Len(mem) + 1
           /\ Consecutive(Append(mem, e))
  BY DEF Consecutive

\* The gate answers with a decision on the two evaluations it was given.
LEMMA DecisionsType ==
    ASSUME NEW best \in Evaluation, NEW cand \in Evaluation, NEW binding \in Bindings,
           NEW d \in Decisions(best, cand, binding)
    PROVE  d \in Decision /\ d.accepted \in BOOLEAN /\ d.stop \in BOOLEAN
<1>1. CASE Gate = "custom"
  BY <1>1 DEF Decisions, Decision
<1>2. CASE Gate # "custom"
  <2> DEFINE accepted == Accepts(cand.score, best.score)
             stop == (IF accepted THEN cand.score ELSE best.score) >= Perfect
  <2>1. accepted \in BOOLEAN /\ stop \in BOOLEAN
    <3>1. best.score \in Int /\ cand.score \in Int
      BY DEF Evaluation
    <3>2. accepted \in BOOLEAN
      BY <3>1 DEF Accepts
    <3>3. stop \in BOOLEAN
      BY <3>1
    <3> QED
      BY <3>2, <3>3
  <2>2. d = [accepted |-> accepted, stop |-> stop, disposition |-> None,
             baseline |-> best, candidate |-> cand, binding |-> binding]
    BY <1>2 DEF Decisions
  <2> HIDE DEF accepted, stop
  <2> QED
    BY <2>1, <2>2 DEF Decision, Dispositions
<1> QED
  BY <1>1, <1>2

-----------------------------------------------------------------------------
(* Every step keeps the invariant: one lemma per action.                   *)

\* What holds of the process that takes a step.
LEMMA StateOf ==
    ASSUME IInv, NEW r \in Runners
    PROVE  run[r] \in RunState /\ LocalsInOrder(run[r])
  BY DEF IInv, GoodState

\* A process that left evolve() holds nothing.
LEMMA NotRunningGood == NotRunning \in GoodState
  BY DEF NotRunning, GoodState, RunState, LocalsInOrder, Consecutive, InRound, Entry

LEMMA LeaveKeeps ==
    ASSUME IInv, NEW r \in Runners, Leave(r)
    PROVE  run' \in [Runners -> GoodState]
  BY NotRunningGood DEF IInv, Leave

\* A step that leaves process r with good locals.
LEMMA Update ==
    ASSUME IInv, NEW r \in Runners, NEW s, s \in RunState, LocalsInOrder(s),
           run' = [run EXCEPT ![r] = s]
    PROVE  run' \in [Runners -> GoodState]
  BY DEF IInv, GoodState

\* The head is loaded, or the run is refused.
LEMMA LoadHeadKeeps ==
    ASSUME IInv, NEW r \in Runners, NEW initial \in InitialGraphs, NEW binding \in Bindings,
           LoadHead(r, initial, binding)
    PROVE  IInv'
<1> DEFINE Loaded(pc, g) == [NotRunning EXCEPT !.pc = pc, !.binding = binding, !.graph_ref = g]
<1>1. ASSUME NEW pc \in {"seed", "memory"}, NEW g \in Graphs
      PROVE  Loaded(pc, g) \in RunState /\ LocalsInOrder(Loaded(pc, g))
  BY NotRunningGood DEF NotRunning, GoodState, RunState, LocalsInOrder, InRound, Consecutive
<1>2. ASSUME graphs = <<>>, NEW g \in Graphs, run' = [run EXCEPT ![r] = Loaded("seed", g)]
      PROVE  run' \in [Runners -> GoodState]
  <2>1. Loaded("seed", g) \in RunState /\ LocalsInOrder(Loaded("seed", g))
    BY <1>1
  <2> HIDE DEF Loaded
  <2> QED
    BY <1>2, <2>1, Update
<1>3. ASSUME graphs # <<>>, run' = [run EXCEPT ![r] = Loaded("memory", HeadRef)]
      PROVE  run' \in [Runners -> GoodState]
  <2>1. graphs[Len(graphs)] \in Revision
    BY <1>3 DEF IInv
  <2>2. HeadRef \in Graphs
    BY <2>1 DEF HeadRef, Revision
  <2>3. Loaded("memory", HeadRef) \in RunState /\ LocalsInOrder(Loaded("memory", HeadRef))
    BY <1>1, <2>2
  <2> HIDE DEF Loaded
  <2> QED
    BY <1>3, <2>3, Update
<1>4. run' \in [Runners -> GoodState]
  <2>1. (IF initial = None THEN Skeleton ELSE initial) \in Graphs
    OBVIOUS
  <2>2. \/ graphs = <<>> /\ run' = [run EXCEPT ![r] =
                Loaded("seed", IF initial = None THEN Skeleton ELSE initial)]
        \/ graphs # <<>> /\ run' = [run EXCEPT ![r] = Loaded("memory", HeadRef)]
        \/ Leave(r)
    BY DEF LoadHead
  <2> HIDE DEF Loaded
  <2> QED
    BY <1>2, <1>3, <2>1, <2>2, LeaveKeeps
<1> QED
  BY <1>4 DEF LoadHead, IInv

\* Revision 0 is written, or the store refuses it.
LEMMA SeedKeeps ==
    ASSUME IInv, NEW r \in Runners, Seed(r)
    PROVE  IInv'
<1> DEFINE s == [run[r] EXCEPT !.pc = "memory"]
<1>1. run[r] \in RunState /\ LocalsInOrder(run[r]) /\ run[r].pc = "seed"
  BY StateOf DEF Seed
<1>2. CASE graphs = <<>>
  <2>1. run' = [run EXCEPT ![r] = s]
    BY <1>2 DEF Seed, IInv
  <2>2. s \in RunState /\ LocalsInOrder(s)
    BY <1>1 DEF RunState, LocalsInOrder, InRound
  <2> HIDE DEF s
  <2>3. run' \in [Runners -> GoodState]
    BY <2>1, <2>2, Update
  <2>4. [digest |-> run[r].graph_ref, iteration |-> 0, decision |-> None] \in Revision
    BY <1>1 DEF LocalsInOrder, Revision
  <2> DEFINE v == [digest |-> run[r].graph_ref, iteration |-> 0, decision |-> None]
  <2>6. graphs' = <<v>>
    BY <1>2 DEF Seed
  <2> HIDE DEF v
  <2>7. v \in Revision
    BY <2>4 DEF v
  <2>5. graphs' \in Seq(Revision)
    BY <2>6, <2>7
  <2> QED
    BY <2>3, <2>5 DEF Seed, IInv
<1>3. CASE graphs # <<>>
  BY <1>3, LeaveKeeps DEF Seed, IInv
<1> QED
  BY <1>2, <1>3

\* The resume point follows the loaded memory.
LEMMA LoadMemoryKeeps ==
    ASSUME IInv, NEW r \in Runners, LoadMemory(r)
    PROVE  IInv'
<1> DEFINE start == LastIteration(memory) + 1
           last == start + MaxRounds - 1
           s == [run[r] EXCEPT !.pc = "checkpoint", !.mem = memory, !.k = start,
                               !.last = last]
<1>1. run[r] \in RunState /\ LocalsInOrder(run[r]) /\ run[r].pc = "memory"
  BY StateOf DEF LoadMemory
<1>2. memory \in Seq(Entry) /\ Consecutive(memory) /\ start = Len(memory) + 1
  BY LastIterationIsLen DEF IInv
<1>3. run' = [run EXCEPT ![r] = s] /\ UNCHANGED <<graphs, memory, ckpt>>
  BY DEF LoadMemory, IInv
<1> HIDE DEF start
<1>4. start \in Nat /\ last \in Nat
  BY <1>2
<1> HIDE DEF last
<1>5. s \in RunState
  <2>1. memory \in Seq(Entry)
    BY <1>2
  <2> DEFINE t == [run[r] EXCEPT !.pc = "checkpoint", !.mem = memory, !.k = start]
  <2>2. t \in RunState
    BY <1>1, <1>4, <2>1 DEF RunState
  <2>3. s = [t EXCEPT !.last = last]
    OBVIOUS
  <2> HIDE DEF t, s
  <2> QED
    BY <1>4, <2>2, <2>3 DEF RunState
<1>6. LocalsInOrder(s)
  BY <1>1, <1>2 DEF LocalsInOrder, InRound, RunState
<1> HIDE DEF s
<1>7. run' \in [Runners -> GoodState]
  BY <1>3, <1>5, <1>6, Update
<1> QED
  BY <1>3, <1>7 DEF IInv

\* A pending round is taken over, with its evaluation when it already is the head.
LEMMA LoadCheckpointKeeps ==
    ASSUME IInv, NEW r \in Runners, LoadCheckpoint(r)
    PROVE  IInv'
<1> DEFINE p == ckpt[run[r].k]
<1>1. run[r] \in RunState /\ LocalsInOrder(run[r]) /\ run[r].pc = "checkpoint"
  BY StateOf DEF LoadCheckpoint
<1>2. Pending(p) => p \in GoodPayload
  BY DEF Pending, LoadCheckpoint, IInv
<1>3. ASSUME run' = [run EXCEPT ![r].pc = "baseline"]
      PROVE  run' \in [Runners -> GoodState]
  <2> DEFINE s == [run[r] EXCEPT !.pc = "baseline"]
  <2>1. run' = [run EXCEPT ![r] = s]
    BY <1>3 DEF IInv
  <2>2. s \in RunState
    BY <1>1 DEF RunState
  <2>3. LocalsInOrder(s)
    BY <1>1 DEF RunState, LocalsInOrder, InRound
  <2> HIDE DEF s
  <2> QED
    BY <2>1, <2>2, <2>3, Update
<1>4. ASSUME Pending(p), p.evaluation # None,
             run' = [run EXCEPT ![r].pc = "begin", ![r].rec = p, ![r].best = p.evaluation]
      PROVE  run' \in [Runners -> GoodState]
  <2> DEFINE s == [run[r] EXCEPT !.pc = "begin", !.rec = p, !.best = p.evaluation]
  <2>1. run' = [run EXCEPT ![r] = s]
    BY <1>4 DEF IInv
  <2>2. p \in GoodPayload /\ p \in Payload /\ p.evaluation \in Evaluation
    BY <1>2, <1>4 DEF GoodPayload, Payload
  <2> HIDE DEF p
  <2>3. s \in RunState
    BY <1>1, <2>2 DEF RunState
  <2>4. LocalsInOrder(s)
    BY <1>1, <2>2 DEF RunState, LocalsInOrder, InRound
  <2> HIDE DEF s
  <2> QED
    BY <2>1, <2>3, <2>4, Update
<1>5. ASSUME Pending(p), run' = [run EXCEPT ![r].pc = "baseline", ![r].rec = p]
      PROVE  run' \in [Runners -> GoodState]
  <2> DEFINE s == [run[r] EXCEPT !.pc = "baseline", !.rec = p]
  <2>1. run' = [run EXCEPT ![r] = s]
    BY <1>5 DEF IInv
  <2>2. p \in GoodPayload /\ p \in Payload
    BY <1>2, <1>5 DEF GoodPayload
  <2> HIDE DEF p
  <2>3. s \in RunState
    BY <1>1, <2>2 DEF RunState
  <2>4. LocalsInOrder(s)
    BY <1>1, <2>2 DEF RunState, LocalsInOrder, InRound
  <2> HIDE DEF s
  <2> QED
    BY <2>1, <2>3, <2>4, Update
<1>6. run' \in [Runners -> GoodState]
  <2>1. \/ run' = [run EXCEPT ![r].pc = "baseline"]
        \/ Leave(r)
        \/ /\ Pending(p) /\ p.evaluation # None
           /\ run' = [run EXCEPT ![r].pc = "begin", ![r].rec = p, ![r].best = p.evaluation]
        \/ Pending(p) /\ run' = [run EXCEPT ![r].pc = "baseline", ![r].rec = p]
    BY DEF LoadCheckpoint, LandedAs
  <2> HIDE DEF p
  <2> QED
    BY <1>3, <1>4, <1>5, <2>1, LeaveKeeps
<1> QED
  BY <1>6 DEF LoadCheckpoint, IInv

\* The head is scored.
LEMMA BaselineKeeps ==
    ASSUME IInv, NEW r \in Runners, Baseline(r)
    PROVE  IInv'
<1>1. run[r] \in RunState /\ LocalsInOrder(run[r]) /\ run[r].pc = "baseline"
  BY StateOf DEF Baseline
<1>2. CASE Leave(r)
  BY <1>2, LeaveKeeps DEF Baseline, IInv
<1>3. CASE ~ Leave(r)
  <2>1. PICK score \in ScoresOf[run[r].graph_ref] :
           run' = [run EXCEPT ![r].pc = "begin",
                              ![r].best = [ref |-> run[r].graph_ref, score |-> score]]
    BY <1>3 DEF Baseline
  <2> DEFINE best == [ref |-> run[r].graph_ref, score |-> score]
             s == [run[r] EXCEPT !.pc = "begin", !.best = best]
  <2>2. best \in Evaluation
    BY <1>1 DEF LocalsInOrder, Evaluation
  <2>3. run' = [run EXCEPT ![r] = s]
    BY <2>1 DEF IInv
  <2> HIDE DEF best
  <2>4. s \in RunState
    BY <1>1, <2>2 DEF RunState
  <2>5. LocalsInOrder(s)
    BY <1>1, <2>2 DEF RunState, LocalsInOrder, InRound
  <2> HIDE DEF s
  <2>6. run' \in [Runners -> GoodState]
    BY <2>3, <2>4, <2>5, Update
  <2> QED
    BY <2>6 DEF Baseline, IInv
<1> QED
  BY <1>2, <1>3

\* The locals of the round are reset.
LEMMA BeginRoundKeeps ==
    ASSUME IInv, NEW r \in Runners, BeginRound(r)
    PROVE  IInv'
<1> DEFINE c == IF run[r].rec = None THEN None ELSE run[r].rec.candidate
           pc == IF run[r].rec = None THEN "refine" ELSE "propose"
           s == [run[r] EXCEPT !.pc = pc, !.outcome = None, !.evaluation = None,
                               !.decision = None, !.decision_stop = FALSE, !.digest = c,
                               !.retained = run[r].best.score]
<1>1. run[r] \in RunState /\ LocalsInOrder(run[r]) /\ run[r].pc = "begin"
  BY StateOf DEF BeginRound
<1>2. run' = [run EXCEPT ![r] = s] /\ UNCHANGED <<graphs, memory, ckpt>>
  BY DEF BeginRound, IInv
<1>6. /\ c \in Graphs \cup {None}
      /\ run[r].best.score \in Scores
      /\ pc = "refine" \/ (pc = "propose" /\ run[r].rec \in GoodPayload)
  BY <1>1 DEF LocalsInOrder, InRound, GoodPayload, Payload, Evaluation
<1> HIDE DEF c, pc
<1>3. s \in RunState
  BY <1>1, <1>6 DEF RunState
<1>4. LocalsInOrder(s)
  BY <1>1, <1>6 DEF LocalsInOrder, InRound, RunState
<1> HIDE DEF s
<1>5. run' \in [Runners -> GoodState]
  BY <1>2, <1>3, <1>4, Update
<1> QED
  BY <1>2, <1>5 DEF IInv

\* The refiner's result is recorded.
LEMMA RefineKeeps ==
    ASSUME IInv, NEW r \in Runners, Refine(r)
    PROVE  IInv'
<1>1. run[r] \in RunState /\ LocalsInOrder(run[r]) /\ run[r].pc = "refine"
  BY StateOf DEF Refine
<1>2. PICK edits \in EditKinds, candidate \in Graphs \cup {None} :
         /\ (edits = "candidate") <=> (candidate # None)
         /\ LET p == Refined(edits, candidate, run[r].graph_ref, run[r].binding)
            IN  /\ ckpt' = Saved(run[r].k, p)
                /\ run' = [run EXCEPT ![r].pc = "propose", ![r].rec = p,
                                      ![r].digest = candidate]
  BY DEF Refine
<1> DEFINE p == Refined(edits, candidate, run[r].graph_ref, run[r].binding)
           s == [run[r] EXCEPT !.pc = "propose", !.rec = p, !.digest = candidate]
<1>3. p \in GoodPayload
  BY <1>1, <1>2 DEF Refined, GoodPayload, Payload, SavedInOrder, LocalsInOrder, EditKinds
<1>4. run' = [run EXCEPT ![r] = s] /\ ckpt' = Saved(run[r].k, p)
  BY <1>2 DEF IInv
<1> HIDE DEF p
<1>5. s \in RunState
  BY <1>1, <1>2, <1>3 DEF RunState, GoodPayload
<1>6. LocalsInOrder(s)
  BY <1>1, <1>2, <1>3 DEF LocalsInOrder, InRound, RunState
<1> HIDE DEF s
<1>7. run' \in [Runners -> GoodState]
  BY <1>4, <1>5, <1>6, Update
<1>8. ckpt' \in [Iterations -> GoodPayload \cup {None, Completed}]
  BY <1>3, <1>4 DEF Saved, IInv
<1> QED
  BY <1>7, <1>8 DEF IInv, Refine

\* The outcome is known without the gate.
LEMMA SettleKeeps ==
    ASSUME IInv, NEW r \in Runners, run[r].pc = "propose",
           NEW outcome \in Outcomes, NEW digest \in Graphs \cup {None},
           Settle(r, outcome, digest)
    PROVE  IInv'
<1> DEFINE s == [run[r] EXCEPT !.pc = "record", !.outcome = outcome, !.digest = digest]
<1>1. run[r] \in RunState /\ LocalsInOrder(run[r])
  BY StateOf
<1>2. run' = [run EXCEPT ![r] = s] /\ UNCHANGED <<graphs, memory, ckpt>>
  BY DEF Settle, IInv
<1>3. s \in RunState
  BY <1>1 DEF RunState
<1>4. LocalsInOrder(s)
  BY <1>1 DEF LocalsInOrder, InRound, RunState
<1> HIDE DEF s
<1>5. run' \in [Runners -> GoodState]
  BY <1>2, <1>3, <1>4, Update
<1> QED
  BY <1>2, <1>5 DEF IInv

\* The record of a round being proposed, and the host's graph for it.
LEMMA ProposedRecord ==
    ASSUME IInv, NEW r \in Runners, run[r].pc = "propose"
    PROVE  /\ run[r].rec \in Payload /\ SavedInOrder(run[r].rec)
           /\ run[r].rec.edits = "candidate" => Hosted(r) \in Graphs
  BY StateOf DEF LocalsInOrder, GoodPayload, SavedInOrder, Hosted

LEMMA NoCandidateKeeps ==
    ASSUME IInv, NEW r \in Runners, NoCandidate(r)
    PROVE  IInv'
<1>1. run[r].pc = "propose" /\ run[r].rec.candidate \in Graphs \cup {None}
  BY ProposedRecord DEF NoCandidate, Payload
<1> DEFINE o == IF run[r].rec.edits = "empty" THEN "no_action" ELSE "structural_failure"
<1>2. o \in Outcomes /\ Settle(r, o, run[r].rec.candidate)
  BY DEF Outcomes, NoCandidate
<1> HIDE DEF o
<1> QED
  BY <1>1, <1>2, SettleKeeps

LEMMA HostRefusesKeeps ==
    ASSUME IInv, NEW r \in Runners, HostRefuses(r)
    PROVE  IInv'
<1>1. run[r].pc = "propose" /\ Hosted(r) \in Graphs
  BY ProposedRecord DEF HostRefuses, Proposed
<1>2. Settle(r, "structural_failure", Hosted(r)) /\ "structural_failure" \in Outcomes
  BY DEF HostRefuses, Outcomes
<1> QED
  BY <1>1, <1>2, SettleKeeps

LEMMA DuplicateKeeps ==
    ASSUME IInv, NEW r \in Runners, Duplicate(r)
    PROVE  IInv'
<1>1. run[r].pc = "propose" /\ Hosted(r) \in Graphs
  BY ProposedRecord DEF Duplicate, Proposed
<1>2. Settle(r, "duplicate_candidate", Hosted(r)) /\ "duplicate_candidate" \in Outcomes
  BY DEF Duplicate, Outcomes
<1> QED
  BY <1>1, <1>2, SettleKeeps

\* The outcome is taken from the record.
LEMMA AlreadyAcceptedKeeps ==
    ASSUME IInv, NEW r \in Runners, AlreadyAccepted(r)
    PROVE  IInv'
<1> DEFINE s == [run[r] EXCEPT !.pc = "record", !.outcome = "accepted", !.digest = Hosted(r),
                               !.evaluation = run[r].rec.evaluation,
                               !.best = run[r].rec.evaluation,
                               !.decision = run[r].rec.decision,
                               !.retained = run[r].rec.baseline.score]
<1>1. run[r] \in RunState /\ LocalsInOrder(run[r]) /\ run[r].pc = "propose"
  BY StateOf DEF AlreadyAccepted, Proposed
<1>2. run' = [run EXCEPT ![r] = s] /\ UNCHANGED <<graphs, memory, ckpt>>
  BY DEF AlreadyAccepted, IInv
<1>6. /\ Hosted(r) \in Graphs
      /\ run[r].rec.evaluation \in Evaluation
      /\ run[r].rec.decision \in Decision \cup {None}
      /\ run[r].rec.baseline.score \in Scores
  BY <1>1, ProposedRecord
     DEF AlreadyAccepted, Proposed, Landed, LandedAs, Payload, SavedInOrder, Evaluation
<1>3. s \in RunState
  BY <1>1, <1>6 DEF RunState, Outcomes
<1>4. LocalsInOrder(s)
  BY <1>1, <1>6 DEF LocalsInOrder, InRound, RunState, Outcomes
<1> HIDE DEF s
<1>5. run' \in [Runners -> GoodState]
  BY <1>2, <1>3, <1>4, Update
<1> QED
  BY <1>2, <1>5 DEF IInv

\* The candidate goes on to validation.
LEMMA NovelKeeps ==
    ASSUME IInv, NEW r \in Runners, Novel(r)
    PROVE  IInv'
<1> DEFINE s == [run[r] EXCEPT !.pc = "validate", !.digest = Hosted(r)]
<1>1. run[r] \in RunState /\ LocalsInOrder(run[r]) /\ run[r].pc = "propose"
  BY StateOf DEF Novel, Proposed
<1>2. run' = [run EXCEPT ![r] = s] /\ UNCHANGED <<graphs, memory, ckpt>>
  BY DEF Novel, IInv
<1>6. Hosted(r) \in Graphs
  BY <1>1, ProposedRecord DEF Novel, Proposed
<1>3. s \in RunState
  BY <1>1, <1>6 DEF RunState
<1>4. LocalsInOrder(s)
  BY <1>1, <1>6 DEF LocalsInOrder, InRound, RunState
<1> HIDE DEF s
<1>5. run' \in [Runners -> GoodState]
  BY <1>2, <1>3, <1>4, Update
<1> QED
  BY <1>2, <1>5 DEF IInv

\* The recorded evaluation is reused.
LEMMA ReuseKeeps ==
    ASSUME IInv, NEW r \in Runners, Reuse(r)
    PROVE  IInv'
<1> DEFINE s == [run[r] EXCEPT !.pc = "decide", !.evaluation = run[r].rec.evaluation,
                               !.best = run[r].rec.baseline,
                               !.retained = run[r].rec.baseline.score]
<1>1. run[r] \in RunState /\ LocalsInOrder(run[r]) /\ run[r].pc = "validate"
  BY StateOf DEF Reuse
<1>2. run' = [run EXCEPT ![r] = s] /\ UNCHANGED <<graphs, memory, ckpt>>
  BY DEF Reuse, IInv
<1>6. /\ run[r].rec.evaluation \in Evaluation
      /\ run[r].rec.baseline \in Evaluation
      /\ run[r].rec.baseline.score \in Scores
  BY <1>1 DEF Reuse, LocalsInOrder, GoodPayload, Payload, SavedInOrder, Evaluation
<1>3. s \in RunState
  BY <1>1, <1>6 DEF RunState
<1>4. LocalsInOrder(s)
  BY <1>1, <1>6 DEF LocalsInOrder, InRound, RunState
<1> HIDE DEF s
<1>5. run' \in [Runners -> GoodState]
  BY <1>2, <1>3, <1>4, Update
<1> QED
  BY <1>2, <1>5 DEF IInv

\* The candidate is evaluated and the evaluation saved.
LEMMA ValidateKeeps ==
    ASSUME IInv, NEW r \in Runners, Validate(r)
    PROVE  IInv'
<1>1. run[r] \in RunState /\ LocalsInOrder(run[r]) /\ run[r].pc = "validate"
  BY StateOf DEF Validate
<1>2. PICK score \in ScoresOf[run[r].digest] :
         LET e == [ref |-> run[r].digest, score |-> score]
             p == [run[r].rec EXCEPT !.host = run[r].digest, !.evaluation = e,
                                     !.baseline = run[r].best]
         IN  /\ ckpt' = Saved(run[r].k, p)
             /\ run' = [run EXCEPT ![r].pc = "decide", ![r].evaluation = e, ![r].rec = p]
  BY DEF Validate
<1> DEFINE e == [ref |-> run[r].digest, score |-> score]
           p == [run[r].rec EXCEPT !.host = run[r].digest, !.evaluation = e,
                                   !.baseline = run[r].best]
           s == [run[r] EXCEPT !.pc = "decide", !.evaluation = e, !.rec = p]
<1>3. e \in Evaluation
  BY <1>1 DEF LocalsInOrder, Evaluation
<1>4. ckpt' = Saved(run[r].k, p) /\ run' = [run EXCEPT ![r] = s]
  BY <1>2 DEF IInv
<1> HIDE DEF e
<1>5. p \in Payload /\ p \in GoodPayload
  BY <1>1, <1>3 DEF LocalsInOrder, InRound, GoodPayload, Payload, SavedInOrder
<1> HIDE DEF p
<1>6. s \in RunState
  BY <1>1, <1>3, <1>5 DEF RunState
<1>7. LocalsInOrder(s)
  BY <1>1, <1>3, <1>5 DEF LocalsInOrder, InRound, RunState
<1> HIDE DEF s
<1>8. run' \in [Runners -> GoodState]
  BY <1>4, <1>6, <1>7, Update
<1>9. ckpt' \in [Iterations -> GoodPayload \cup {None, Completed}]
  BY <1>4, <1>5 DEF Saved, IInv
<1> QED
  BY <1>8, <1>9 DEF IInv, Validate

\* A decision leads to accept() or to the memory save.
LEMMA DecidedKeeps ==
    ASSUME IInv, NEW r \in Runners, run[r].pc = "decide", NEW d \in Decision,
           Decided(r, d, run[r].rec)
    PROVE  run' \in [Runners -> GoodState]
<1> DEFINE pc == IF d.accepted THEN "accept" ELSE "record"
           outcome == IF d.accepted THEN "accepted" ELSE "rejected"
           s == [run[r] EXCEPT !.pc = pc, !.decision = d, !.decision_stop = d.stop,
                               !.outcome = outcome]
<1>1. run[r] \in RunState /\ LocalsInOrder(run[r])
  BY StateOf
<1>2. pc \in {"accept", "record"} /\ outcome \in Outcomes /\ d.stop \in BOOLEAN
  BY DEF Outcomes, Decision
<1>3. run' = [run EXCEPT ![r] = s]
  BY <1>1 DEF Decided, IInv, RunState
<1> HIDE DEF pc, outcome
<1>4. s \in RunState
  BY <1>1, <1>2 DEF RunState
<1>5. LocalsInOrder(s)
  BY <1>1, <1>2 DEF LocalsInOrder, InRound, RunState
<1> HIDE DEF s
<1> QED
  BY <1>3, <1>4, <1>5, Update

\* The gate decides, or the recorded decision is reused.
LEMMA DecideKeeps ==
    ASSUME IInv, NEW r \in Runners, Decide(r)
    PROVE  IInv'
<1>1. /\ run[r] \in RunState /\ LocalsInOrder(run[r]) /\ run[r].pc = "decide"
      /\ run[r].rec \in Payload /\ SavedInOrder(run[r].rec)
  BY StateOf DEF Decide, LocalsInOrder, GoodPayload
<1>2. CASE run[r].rec.decision # None
  <2>1. run[r].rec.decision \in Decision
    BY <1>1, <1>2 DEF Payload
  <2>2. run' \in [Runners -> GoodState]
    BY <1>1, <1>2, <2>1, DecidedKeeps DEF Decide
  <2> QED
    BY <1>2, <2>2 DEF Decide, IInv
<1>3. CASE run[r].rec.decision = None
  <2>1. PICK d \in Decisions(run[r].best, run[r].evaluation, run[r].binding) :
            /\ ckpt' = Saved(run[r].k, [run[r].rec EXCEPT !.decision = d])
            /\ Decided(r, d, run[r].rec)
    BY <1>3 DEF Decide
  <2>2. d \in Decision
    BY <1>1, DecisionsType DEF LocalsInOrder, InRound
  <2>3. [run[r].rec EXCEPT !.decision = d] \in GoodPayload
    BY <1>1, <2>2 DEF GoodPayload, Payload, SavedInOrder
  <2>4. ckpt' \in [Iterations -> GoodPayload \cup {None, Completed}]
    BY <2>1, <2>3 DEF Saved, IInv
  <2>5. run' \in [Runners -> GoodState]
    BY <1>1, <2>1, <2>2, DecidedKeeps
  <2> QED
    BY <2>4, <2>5 DEF Decide, IInv
<1> QED
  BY <1>2, <1>3

\* The head moves, or the store refuses.
LEMMA AcceptKeeps ==
    ASSUME IInv, NEW r \in Runners, Accept(r)
    PROVE  IInv'
<1> DEFINE s == [run[r] EXCEPT !.pc = "record", !.graph_ref = run[r].digest,
                               !.best = run[r].evaluation]
           v == [digest |-> run[r].digest, iteration |-> run[r].k, decision |-> run[r].decision]
<1>1. run[r] \in RunState /\ LocalsInOrder(run[r]) /\ run[r].pc = "accept"
  BY StateOf DEF Accept
<1>2. CASE HeadIs(run[r].graph_ref)
  <2>1. run' = [run EXCEPT ![r] = s] /\ graphs' = Append(graphs, v)
    BY <1>2 DEF Accept, IInv
  <2>2. v \in Revision
    BY <1>1 DEF LocalsInOrder, RunState, Revision
  <2>3. s \in RunState
    BY <1>1 DEF RunState, LocalsInOrder
  <2>4. LocalsInOrder(s)
    BY <1>1 DEF RunState, LocalsInOrder, InRound
  <2> HIDE DEF s, v
  <2>5. run' \in [Runners -> GoodState]
    BY <2>1, <2>3, <2>4, Update
  <2>6. graphs' \in Seq(Revision)
    BY <2>1, <2>2 DEF IInv
  <2> QED
    BY <2>5, <2>6 DEF Accept, IInv
<1>3. CASE ~ HeadIs(run[r].graph_ref)
  BY <1>3, LeaveKeeps DEF Accept, IInv
<1> QED
  BY <1>2, <1>3

\* The entry takes the next number, in the store and in the process's copy.
LEMMA RecordKeeps ==
    ASSUME IInv, NEW r \in Runners, Record(r)
    PROVE  IInv'
<1> DEFINE mem == Append(run[r].mem, NewEntry(r))
           s == [run[r] EXCEPT !.pc = "complete", !.mem = mem, !.rec = None, !.digest = None,
                               !.evaluation = None, !.retained = None]
<1>1. run[r] \in RunState /\ LocalsInOrder(run[r]) /\ run[r].pc = "record"
  BY StateOf DEF Record
<1>2. CASE MemoryIs(run[r].mem)
  <2>1. run' = [run EXCEPT ![r] = s] /\ memory' = mem
    BY <1>2 DEF Record, IInv
  <2>2. NewEntry(r) \in Entry /\ NewEntry(r).iteration = Len(run[r].mem) + 1
    BY <1>1 DEF NewEntry, Entry, RunState, LocalsInOrder, InRound
  <2>3. run[r].mem \in Seq(Entry) /\ Consecutive(run[r].mem)
    BY <1>1 DEF RunState, LocalsInOrder
  <2>4. /\ mem \in Seq(Entry) /\ Consecutive(mem)
        /\ Len(mem) = Len(run[r].mem) + 1
    BY <2>2, <2>3, AppendConsecutive
  <2> HIDE DEF mem
  <2>5. s \in RunState
    BY <1>1, <2>4 DEF RunState
  <2>6. LocalsInOrder(s)
    BY <1>1, <2>4 DEF LocalsInOrder, InRound, RunState
  <2> HIDE DEF s
  <2>7. run' \in [Runners -> GoodState]
    BY <2>1, <2>5, <2>6, Update
  <2> QED
    BY <2>1, <2>4, <2>7 DEF Record, IInv
<1>3. CASE ~ MemoryIs(run[r].mem)
  BY <1>3, LeaveKeeps DEF Record, IInv
<1> QED
  BY <1>2, <1>3

\* The completed marker replaces the payload.
LEMMA CompleteKeeps ==
    ASSUME IInv, NEW r \in Runners, Complete(r)
    PROVE  IInv'
<1> DEFINE s == [run[r] EXCEPT !.pc = "end"]
<1>1. run[r] \in RunState /\ LocalsInOrder(run[r]) /\ run[r].pc = "complete"
  BY StateOf DEF Complete
<1>2. run' = [run EXCEPT ![r] = s]
  BY DEF Complete, IInv
<1>3. s \in RunState /\ LocalsInOrder(s)
  BY <1>1 DEF RunState, LocalsInOrder, InRound
<1> HIDE DEF s
<1>4. run' \in [Runners -> GoodState]
  BY <1>2, <1>3, Update
<1>5. ckpt' \in [Iterations -> GoodPayload \cup {None, Completed}]
  BY DEF Complete, Saved, IInv
<1> QED
  BY <1>4, <1>5 DEF Complete, IInv

\* The next round, or the end of the run.
LEMMA EndRoundKeeps ==
    ASSUME IInv, NEW r \in Runners, EndRound(r)
    PROVE  IInv'
<1> DEFINE s == [run[r] EXCEPT !.pc = "begin", !.k = run[r].k + 1, !.streak = Streak(r)]
<1>1. run[r] \in RunState /\ LocalsInOrder(run[r]) /\ run[r].pc = "end"
  BY StateOf DEF EndRound
<1>2. CASE Stops(r)
  BY <1>2, LeaveKeeps DEF EndRound, IInv
<1>3. CASE ~ Stops(r)
  <2>1. run' = [run EXCEPT ![r] = s]
    BY <1>3 DEF EndRound, IInv
  <2>2. Streak(r) \in Nat /\ run[r].k + 1 \in Nat
    BY <1>1 DEF Streak, RunState
  <2>3. s \in RunState
    BY <1>1, <2>2 DEF RunState
  <2>4. LocalsInOrder(s)
    BY <1>1 DEF LocalsInOrder, InRound, RunState
  <2> HIDE DEF s
  <2>5. run' \in [Runners -> GoodState]
    BY <2>1, <2>3, <2>4, Update
  <2> QED
    BY <2>5 DEF EndRound, IInv
<1> QED
  BY <1>2, <1>3

\* A process that stops leaves the chains alone.
LEMMA StopKeeps ==
    ASSUME IInv, NEW r \in Runners, Stop(r)
    PROVE  IInv'
  BY LeaveKeeps DEF Stop, Exhaust, Crash, IInv

-----------------------------------------------------------------------------
(* The theorems.                                                           *)

LEMMA InitIInv == Init => IInv
<1> SUFFICES ASSUME Init PROVE IInv
  OBVIOUS
<1>1. /\ graphs \in Seq(Revision) /\ memory \in Seq(Entry) /\ Consecutive(memory)
      /\ ckpt \in [Iterations -> GoodPayload \cup {None, Completed}]
  BY DEF Init, Consecutive
<1>2. run \in [Runners -> GoodState]
  BY NotRunningGood DEF Init
<1> QED
  BY <1>1, <1>2 DEF IInv

LEMMA NextIInv == IInv /\ [Next]_vars => IInv'
<1> SUFFICES ASSUME IInv, [Next]_vars PROVE IInv'
  OBVIOUS
<1>1. CASE UNCHANGED vars
  BY <1>1 DEF vars, IInv
<1>2. CASE Next
  <2>1. PICK r \in Runners : Start(r) \/ Advance(r) \/ Stop(r)
    BY <1>2 DEF Next
  <2>2. CASE Start(r)
    BY <2>2, LoadHeadKeeps DEF Start
  <2>3. CASE Seed(r) \/ LoadMemory(r) \/ LoadCheckpoint(r) \/ Baseline(r)
             \/ BeginRound(r) \/ Refine(r)
    BY <2>3, SeedKeeps, LoadMemoryKeeps, LoadCheckpointKeeps, BaselineKeeps,
       BeginRoundKeeps, RefineKeeps
  <2>4. CASE NoCandidate(r) \/ HostRefuses(r) \/ AlreadyAccepted(r) \/ Duplicate(r)
             \/ Novel(r)
    BY <2>4, NoCandidateKeeps, HostRefusesKeeps, AlreadyAcceptedKeeps, DuplicateKeeps,
       NovelKeeps
  <2>5. CASE Reuse(r) \/ Validate(r) \/ Decide(r) \/ Accept(r)
             \/ Record(r) \/ Complete(r) \/ EndRound(r)
    BY <2>5, ReuseKeeps, ValidateKeeps, DecideKeeps, AcceptKeeps, RecordKeeps,
       CompleteKeeps, EndRoundKeeps
  <2>6. CASE Stop(r)
    BY <2>6, StopKeeps
  <2> QED
    BY <2>1, <2>2, <2>3, <2>4, <2>5, <2>6 DEF Advance
<1> QED
  BY <1>1, <1>2

\* The inductive invariant holds throughout.
THEOREM Invariance == Spec => []IInv
  BY InitIInv, NextIInv, PTL DEF Spec

\* Every variable keeps its type: no field an await may have left unset is used as if
\* it were set.
THEOREM TypeCorrect == Spec => []TypeOK
<1>1. IInv => TypeOK
  BY DEF IInv, TypeOK, GoodPayload, GoodState
<1> QED
  BY <1>1, Invariance, PTL

\* Rejection memory numbers rounds 1, 2, 3, ... for any number of processes stopped
\* anywhere: architecture.md:117, "exactly one rejection-memory entry" per round.
THEOREM RoundsAreConsecutive == Spec => []RoundsConsecutive
<1>1. IInv => RoundsConsecutive
  BY DEF IInv, Consecutive, RoundsConsecutive
<1> QED
  BY <1>1, Invariance, PTL

-----------------------------------------------------------------------------
(* The history of the rounds.                                              *)

\* One memory is the beginning of another: what a process loaded stays true.
Begins(mem, longer) ==
    /\ Len(mem) <= Len(longer)
    /\ \A i \in 1 .. Len(mem) : longer[i] = mem[i]

\* No entry of a round before k refuses the graph.
Unrefused(g, mem, k) == \A i \in 1 .. k - 1 : Blocks(mem[i]) => mem[i].digest # g

\* What the gate's answer says about the two scores.
Verdict(d) ==
    /\ Gate = "tie" => (d.accepted <=> d.candidate.score >= d.baseline.score)
    /\ Gate = "strict" => (d.accepted <=> d.candidate.score > d.baseline.score)

\* A score the evaluator can return for the graph.
Measured(e) == e.score \in ScoresOf[e.ref]

\* A decision on the control and the candidate that were measured, under the binding of
\* the round.
DecidedOn(d, baseline, evaluation, binding) ==
    /\ d.baseline = baseline
    /\ d.candidate = evaluation
    /\ d.binding = binding
    /\ Verdict(d)

\* The record of round k against the memory of the rounds before it: only a candidate
\* that the host takes and nothing refuses is measured, and a decision is on what was
\* measured.
Traced(p, k, mem) ==
    /\ k <= Len(mem) + 1
    /\ p.edits # "candidate" => p.candidate = None
    /\ p.evaluation # None =>
         /\ p.edits = "candidate"
         /\ p.host = Materialise[p.candidate]
         /\ p.host \notin HostInvalid
         /\ p.evaluation.ref = p.host
         /\ Unrefused(p.host, mem, k)
         /\ Measured(p.evaluation) /\ Measured(p.baseline)
    /\ p.decision # None =>
         /\ p.evaluation # None
         /\ DecidedOn(p.decision, p.baseline, p.evaluation, p.binding)

Recordless == {"idle", "seed", "memory", "checkpoint", "refine", "complete", "end"}

\* The locals of a process against the memory it holds.
LocalsTraced(s) ==
    /\ s.pc \in Recordless => s.rec = None
    /\ s.rec # None => s.rec.binding = s.binding /\ Traced(s.rec, s.k, s.mem)
    /\ s.pc \in {"refine", "propose", "validate", "decide"} => s.decision = None
    /\ s.pc \in {"refine", "propose", "validate"} => s.retained = s.best.score
    /\ s.pc \in {"validate", "decide"} =>
         /\ s.rec.edits = "candidate"
         /\ s.digest = Materialise[s.rec.candidate]
         /\ s.digest \notin HostInvalid
    /\ s.pc \in {"validate", "decide", "accept"} => Unrefused(s.digest, s.mem, s.k)
    /\ s.pc = "decide" =>
         /\ s.evaluation = s.rec.evaluation
         /\ s.best = s.rec.baseline
         /\ s.retained = s.best.score
    /\ s.pc \in {"begin", "complete", "end"} \cup InRound => Measured(s.best)
    /\ s.pc \in {"decide", "accept"} => s.evaluation.ref = s.digest /\ Measured(s.evaluation)
    /\ s.pc = "accept" =>
         /\ s.outcome = "accepted" /\ s.decision.accepted
         /\ DecidedOn(s.decision, s.best, s.evaluation, s.binding)
    /\ s.pc \in {"accept", "record"} =>
         /\ s.outcome = "rejected" => s.decision # None
         /\ s.decision # None => /\ s.outcome \in {"accepted", "rejected"}
                                 /\ s.retained = s.decision.baseline.score
         /\ s.outcome \in {"accepted", "rejected"} => Unrefused(s.digest, s.mem, s.k)

\* A measured loss comes with its decision.
RejectedIsDecided == \A i \in 1 .. Len(memory) : memory[i].kind = "rejected" => memory[i].decision # None

RecordsTraced ==
    \A k \in Iterations : /\ ckpt[k] = Completed => k <= Len(memory)
                          /\ Unfinished(k) => Traced(ckpt[k], k, memory)

ProcessesTraced ==
    \A r \in Runners : LocalsTraced(run[r]) /\ Begins(run[r].mem, memory)

\* The inductive invariant.
HInv ==
    /\ IInv
    /\ RecordsTraced
    /\ ProcessesTraced
    /\ RetainedIsControl
    /\ RejectedStaysRefused
    /\ RejectedIsDecided

-----------------------------------------------------------------------------
(* Lemmas about memories and records.                                      *)

LEMMA BeginsSelf ==
    ASSUME NEW mem \in Seq(Entry)
    PROVE  Begins(mem, mem)
  BY DEF Begins

\* Appending keeps the beginning.
LEMMA BeginsAppend ==
    ASSUME NEW mem \in Seq(Entry), NEW all \in Seq(Entry), NEW e \in Entry, Begins(mem, all)
    PROVE  Begins(mem, Append(all, e))
  BY DEF Begins

\* What a memory says of the rounds before k, its continuation says too.
LEMMA UnrefusedAgrees ==
    ASSUME NEW mem \in Seq(Entry), NEW all \in Seq(Entry), Begins(mem, all),
           NEW k \in Nat, k <= Len(mem) + 1, NEW g
    PROVE  Unrefused(g, mem, k) <=> Unrefused(g, all, k)
<1>1. \A i \in 1 .. k - 1 : all[i] = mem[i]
  BY DEF Begins
<1> QED
  BY <1>1 DEF Unrefused

\* So a record may be read against either.
LEMMA TracedAgrees ==
    ASSUME NEW mem \in Seq(Entry), NEW all \in Seq(Entry), Begins(mem, all),
           NEW k \in Nat, k <= Len(mem) + 1, NEW p
    PROVE  Traced(p, k, mem) <=> Traced(p, k, all)
<1>1. k <= Len(mem) + 1 /\ k <= Len(all) + 1
  BY DEF Begins
<1>2. Unrefused(p.host, mem, k) <=> Unrefused(p.host, all, k)
  BY UnrefusedAgrees
<1> QED
  BY <1>1, <1>2 DEF Traced

\* A decision of the gate is on the evaluations it was given, and a scalar gate's
\* follows from their scores.
LEMMA DecisionsAreVerdicts ==
    ASSUME NEW best \in Evaluation, NEW cand \in Evaluation, NEW binding \in Bindings,
           NEW d \in Decisions(best, cand, binding)
    PROVE  DecidedOn(d, best, cand, binding)
<1>1. CASE Gate = "custom"
  BY <1>1 DEF Decisions, DecidedOn, Verdict
<1>2. CASE Gate # "custom"
  <2> DEFINE accepted == Accepts(cand.score, best.score)
             stop == (IF accepted THEN cand.score ELSE best.score) >= Perfect
  <2>1. d = [accepted |-> accepted, stop |-> stop, disposition |-> None,
             baseline |-> best, candidate |-> cand, binding |-> binding]
    BY <1>2 DEF Decisions
  <2> HIDE DEF stop
  <2>2. /\ d.accepted = accepted
        /\ d.baseline = best /\ d.candidate = cand /\ d.binding = binding
    BY <2>1
  <2>3. Gate = "tie" => (accepted <=> cand.score >= best.score)
    BY DEF Accepts
  <2>4. Gate = "strict" => (accepted <=> cand.score > best.score)
    BY DEF Accepts
  <2> QED
    BY <2>2, <2>3, <2>4 DEF DecidedOn, Verdict
<1> QED
  BY <1>1, <1>2

-----------------------------------------------------------------------------
(* Steps that leave the chains alone, and steps that save a record.        *)

\* What holds of the process that takes a step.
LEMMA TraceOf ==
    ASSUME HInv, NEW r \in Runners
    PROVE  /\ run[r] \in RunState /\ LocalsInOrder(run[r]) /\ LocalsTraced(run[r])
           /\ Begins(run[r].mem, memory)
           /\ run[r].mem \in Seq(Entry) /\ memory \in Seq(Entry)
<1>1. run[r] \in RunState /\ LocalsInOrder(run[r])
  BY StateOf DEF HInv
<1>2. run[r].mem \in Seq(Entry)
  BY <1>1 DEF RunState
<1> QED
  BY <1>1, <1>2 DEF HInv, ProcessesTraced, IInv

LEMMA NotRunningTraced == LocalsTraced(NotRunning) /\ NotRunning.mem = <<>>
  BY DEF NotRunning, LocalsTraced, Recordless, InRound

\* A step of process r keeps the invariant of the other processes.
LEMMA OthersTraced ==
    ASSUME HInv, NEW r \in Runners, NEW s, run' = [run EXCEPT ![r] = s],
           LocalsTraced(s), memory' = memory, Begins(s.mem, memory)
    PROVE  ProcessesTraced'
<1> SUFFICES ASSUME NEW q \in Runners
             PROVE  LocalsTraced(run'[q]) /\ Begins(run'[q].mem, memory)
  BY DEF ProcessesTraced
<1>1. CASE q = r
  <2>1. run'[q] = s
    BY <1>1 DEF HInv, IInv
  <2> QED
    BY <2>1
<1>2. CASE q # r
  <2>1. run'[q] = run[q]
    BY <1>2 DEF HInv, IInv
  <2> QED
    BY <2>1 DEF HInv, ProcessesTraced
<1> QED
  BY <1>1, <1>2

\* A step that changes the locals of a process and at most the graph chain.
LEMMA LocalStep ==
    ASSUME HInv, IInv', NEW r \in Runners, NEW s, run' = [run EXCEPT ![r] = s],
           UNCHANGED <<memory, ckpt>>, LocalsTraced(s), Begins(s.mem, memory)
    PROVE  HInv'
<1>1. ProcessesTraced'
  BY OthersTraced
<1>2. RecordsTraced'
  BY DEF HInv, RecordsTraced, Unfinished
<1>3. RetainedIsControl' /\ RejectedStaysRefused' /\ RejectedIsDecided'
  BY DEF HInv, RetainedIsControl, RejectedStaysRefused, RejectedIsDecided
<1> QED
  BY <1>1, <1>2, <1>3 DEF HInv

\* A step that ends the run of a process.
LEMMA LeaveTraces ==
    ASSUME HInv, IInv', NEW r \in Runners, Leave(r), UNCHANGED <<memory, ckpt>>
    PROVE  HInv'
<1>1. Begins(NotRunning.mem, memory)
  BY NotRunningTraced DEF Begins, HInv, IInv
<1> QED
  BY <1>1, NotRunningTraced, LocalStep DEF Leave

\* A step that saves a record of the round process r is in.
LEMMA SaveStep ==
    ASSUME HInv, IInv', NEW r \in Runners, NEW s, run' = [run EXCEPT ![r] = s],
           memory' = memory, s.mem = run[r].mem, LocalsTraced(s),
           NEW p \in GoodPayload, run[r].k = Len(run[r].mem) + 1,
           Traced(p, run[r].k, run[r].mem), ckpt' = Saved(run[r].k, p)
    PROVE  HInv'
<1>1. /\ run[r].mem \in Seq(Entry) /\ memory \in Seq(Entry) /\ Begins(run[r].mem, memory)
      /\ run[r].k \in Nat
  BY TraceOf DEF RunState
<1>2. ProcessesTraced'
  BY <1>1, OthersTraced
<1>3. Traced(p, run[r].k, memory)
  BY <1>1, TracedAgrees
<1>4. p # Completed
  BY MarkerAssumption DEF GoodPayload
<1>5. ASSUME NEW k \in Iterations
      PROVE  /\ ckpt'[k] = Completed => k <= Len(memory)
             /\ ckpt'[k] \notin {None, Completed} => Traced(ckpt'[k], k, memory)
  <2>1. ckpt'[k] = ckpt[k] \/ (k = run[r].k /\ ckpt'[k] = p)
    BY DEF Saved, HInv, IInv
  <2> QED
    BY <2>1, <1>3, <1>4 DEF HInv, RecordsTraced, Unfinished
<1>6. RecordsTraced'
  BY <1>5 DEF RecordsTraced, Unfinished
<1>7. RetainedIsControl' /\ RejectedStaysRefused' /\ RejectedIsDecided'
  BY DEF HInv, RetainedIsControl, RejectedStaysRefused, RejectedIsDecided
<1> QED
  BY <1>2, <1>6, <1>7 DEF HInv

-----------------------------------------------------------------------------
(* Every step keeps the invariant: one lemma per action.                   *)

LEMMA LoadHeadTraces ==
    ASSUME HInv, IInv', NEW r \in Runners,
           NEW initial \in InitialGraphs, NEW binding \in Bindings,
           LoadHead(r, initial, binding)
    PROVE  HInv'
<1> DEFINE Loaded(pc, g) == [NotRunning EXCEPT !.pc = pc, !.binding = binding, !.graph_ref = g]
<1>1. ASSUME NEW pc \in {"seed", "memory"}, NEW g, run' = [run EXCEPT ![r] = Loaded(pc, g)]
      PROVE  HInv'
  <2>1. LocalsTraced(Loaded(pc, g)) /\ Loaded(pc, g).mem = <<>>
    BY DEF NotRunning, LocalsTraced, Recordless, InRound
  <2> HIDE DEF Loaded
  <2>2. Begins(Loaded(pc, g).mem, memory)
    BY <2>1 DEF Begins, HInv, IInv
  <2>3. UNCHANGED <<memory, ckpt>>
    BY DEF LoadHead
  <2> QED
    BY <1>1, <2>1, <2>2, <2>3, LocalStep
<1>2. \/ run' = [run EXCEPT ![r] = Loaded("seed", IF initial = None THEN Skeleton ELSE initial)]
      \/ run' = [run EXCEPT ![r] = Loaded("memory", HeadRef)]
      \/ Leave(r)
  BY DEF LoadHead
<1> HIDE DEF Loaded
<1>3. UNCHANGED <<memory, ckpt>>
  BY DEF LoadHead
<1> QED
  BY <1>1, <1>2, <1>3, LeaveTraces

LEMMA SeedTraces ==
    ASSUME HInv, IInv', NEW r \in Runners, Seed(r)
    PROVE  HInv'
<1> DEFINE s == [run[r] EXCEPT !.pc = "memory"]
<1>1. /\ run[r] \in RunState /\ LocalsTraced(run[r]) /\ Begins(run[r].mem, memory)
      /\ run[r].pc = "seed" /\ UNCHANGED <<memory, ckpt>>
  BY TraceOf DEF Seed
<1>2. run' = [run EXCEPT ![r] = s] \/ Leave(r)
  BY DEF Seed, HInv, IInv
<1>3. LocalsTraced(s) /\ s.mem = run[r].mem
  BY <1>1 DEF LocalsTraced, Recordless, InRound, RunState
<1> HIDE DEF s
<1> QED
  BY <1>1, <1>2, <1>3, LocalStep, LeaveTraces

LEMMA LoadMemoryTraces ==
    ASSUME HInv, IInv', NEW r \in Runners, LoadMemory(r)
    PROVE  HInv'
<1> DEFINE start == LastIteration(memory) + 1
           s == [run[r] EXCEPT !.pc = "checkpoint", !.mem = memory, !.k = start,
                               !.last = start + MaxRounds - 1]
<1>1. /\ run[r] \in RunState /\ LocalsTraced(run[r]) /\ memory \in Seq(Entry)
      /\ run[r].pc = "memory" /\ UNCHANGED <<memory, ckpt>>
  BY TraceOf DEF LoadMemory
<1>2. run' = [run EXCEPT ![r] = s]
  BY DEF LoadMemory, HInv, IInv
<1> HIDE DEF start
<1>3. LocalsTraced(s) /\ s.mem = memory
  BY <1>1 DEF LocalsTraced, Recordless, InRound, RunState
<1> HIDE DEF s
<1> QED
  BY <1>1, <1>2, <1>3, LocalStep, BeginsSelf

LEMMA LoadCheckpointTraces ==
    ASSUME HInv, IInv', NEW r \in Runners, LoadCheckpoint(r)
    PROVE  HInv'
<1> DEFINE k == run[r].k
           p == ckpt[k]
<1>1. /\ run[r] \in RunState /\ LocalsTraced(run[r]) /\ Begins(run[r].mem, memory)
      /\ run[r].mem \in Seq(Entry) /\ memory \in Seq(Entry)
      /\ run[r].pc = "checkpoint" /\ UNCHANGED <<memory, ckpt>>
      /\ k \in Iterations /\ k = Len(run[r].mem) + 1
  BY TraceOf DEF LoadCheckpoint, LocalsInOrder
<1>2. Pending(p) => Traced(p, k, run[r].mem)
  <2>1. Pending(p) => Traced(p, k, memory)
    <3>1. Pending(p) <=> Unfinished(k)
      BY DEF Pending, Unfinished
    <3>2. \A j \in Iterations : Unfinished(j) => Traced(ckpt[j], j, memory)
      BY DEF HInv, RecordsTraced
    <3>3. k \in Iterations
      BY <1>1
    <3> QED
      BY <3>1, <3>2, <3>3
  <2>2. k \in Nat /\ k <= Len(run[r].mem) + 1
    BY <1>1 DEF Iterations
  <2> HIDE DEF k, p
  <2> QED
    BY <1>1, <2>1, <2>2, TracedAgrees
<1>3. CASE run' = [run EXCEPT ![r].pc = "baseline"]
  <2> DEFINE s == [run[r] EXCEPT !.pc = "baseline"]
  <2>1. run' = [run EXCEPT ![r] = s]
    BY <1>3 DEF HInv, IInv
  <2>2. LocalsTraced(s) /\ s.mem = run[r].mem
    BY <1>1 DEF LocalsTraced, Recordless, InRound, RunState
  <2> HIDE DEF s, p, k
  <2> QED
    BY <1>1, <2>1, <2>2, LocalStep
<1>4. ASSUME Pending(p), SameBinding(p, run[r].binding),
             NEW pc \in {"baseline", "begin"}, NEW best, pc = "begin" => Measured(best),
             run' = [run EXCEPT ![r].pc = pc, ![r].rec = p, ![r].best = best]
      PROVE  HInv'
  <2> DEFINE s == [run[r] EXCEPT !.pc = pc, !.rec = p, !.best = best]
  <2>1. run' = [run EXCEPT ![r] = s]
    BY <1>4 DEF HInv, IInv
  <2>2. /\ s.pc = pc /\ s.rec = p /\ s.mem = run[r].mem /\ s.k = k
        /\ s.binding = run[r].binding
    BY <1>1 DEF RunState
  <2>3. p.binding = run[r].binding
    BY <1>4 DEF SameBinding
  <2>4. s.best = best
    BY <1>1 DEF RunState
  <2> HIDE DEF s, p, k
  <2>5. LocalsTraced(s)
    BY <1>2, <1>4, <2>2, <2>3, <2>4 DEF LocalsTraced, Recordless, InRound
  <2> QED
    BY <1>1, <2>1, <2>2, <2>5, LocalStep
<1>5. CASE /\ Pending(p) /\ SameBinding(p, run[r].binding)
           /\ run' = [run EXCEPT ![r].pc = "baseline", ![r].rec = p]
  <2>1. run' = [run EXCEPT ![r].pc = "baseline", ![r].rec = p, ![r].best = run[r].best]
    BY <1>1, <1>5 DEF RunState, HInv, IInv
  <2> HIDE DEF p, k
  <2> QED
    BY <1>4, <1>5, <2>1
<1>6. CASE /\ Pending(p) /\ SameBinding(p, run[r].binding)
           /\ p.evaluation # None
           /\ run' = [run EXCEPT ![r].pc = "begin", ![r].rec = p, ![r].best = p.evaluation]
  <2>1. Measured(p.evaluation)
    BY <1>2, <1>6 DEF Traced
  <2> HIDE DEF p, k
  <2> QED
    BY <1>4, <1>6, <2>1
<1>7. CASE Leave(r)
  BY <1>1, <1>7, LeaveTraces
<1> QED
  BY <1>3, <1>5, <1>6, <1>7 DEF LoadCheckpoint, LandedAs

LEMMA BaselineTraces ==
    ASSUME HInv, IInv', NEW r \in Runners, Baseline(r)
    PROVE  HInv'
<1>1. /\ run[r] \in RunState /\ LocalsTraced(run[r]) /\ Begins(run[r].mem, memory)
      /\ run[r].pc = "baseline" /\ UNCHANGED <<memory, ckpt>>
  BY TraceOf DEF Baseline
<1>2. CASE Leave(r)
  BY <1>1, <1>2, LeaveTraces
<1>3. CASE ~ Leave(r)
  <2>1. PICK best : Measured(best) /\ run' = [run EXCEPT ![r].pc = "begin", ![r].best = best]
    BY <1>3 DEF Baseline, Measured
  <2> DEFINE s == [run[r] EXCEPT !.pc = "begin", !.best = best]
  <2>2. run' = [run EXCEPT ![r] = s]
    BY <2>1 DEF HInv, IInv
  <2>3. LocalsTraced(s) /\ s.mem = run[r].mem
    BY <1>1, <2>1 DEF LocalsTraced, Recordless, InRound, RunState
  <2> HIDE DEF s
  <2> QED
    BY <1>1, <2>2, <2>3, LocalStep
<1> QED
  BY <1>2, <1>3

LEMMA BeginRoundTraces ==
    ASSUME HInv, IInv', NEW r \in Runners, BeginRound(r)
    PROVE  HInv'
<1> DEFINE c == IF run[r].rec = None THEN None ELSE run[r].rec.candidate
           pc == IF run[r].rec = None THEN "refine" ELSE "propose"
           s == [run[r] EXCEPT !.pc = pc, !.outcome = None, !.evaluation = None,
                               !.decision = None, !.decision_stop = FALSE, !.digest = c,
                               !.retained = run[r].best.score]
<1>1. /\ run[r] \in RunState /\ LocalsTraced(run[r]) /\ Begins(run[r].mem, memory)
      /\ run[r].pc = "begin" /\ UNCHANGED <<memory, ckpt>>
  BY TraceOf DEF BeginRound
<1>2. run' = [run EXCEPT ![r] = s]
  BY DEF BeginRound, HInv, IInv
<1>3. (pc = "refine" /\ run[r].rec = None) \/ (pc = "propose" /\ run[r].rec # None)
  OBVIOUS
<1> HIDE DEF c, pc
<1>4. LocalsTraced(s) /\ s.mem = run[r].mem
  BY <1>1, <1>3 DEF LocalsTraced, Recordless, InRound, RunState
<1> HIDE DEF s
<1> QED
  BY <1>1, <1>2, <1>4, LocalStep

\* The first record of a round has neither evaluation nor decision.
LEMMA RefineTraces ==
    ASSUME HInv, IInv', NEW r \in Runners, Refine(r)
    PROVE  HInv'
<1>1. /\ run[r] \in RunState /\ LocalsTraced(run[r]) /\ LocalsInOrder(run[r])
      /\ Begins(run[r].mem, memory) /\ run[r].mem \in Seq(Entry)
      /\ run[r].pc = "refine" /\ memory' = memory
      /\ run[r].k = Len(run[r].mem) + 1
  BY TraceOf DEF Refine, LocalsInOrder, InRound
<1>2. PICK edits \in EditKinds, candidate \in Graphs \cup {None} :
         /\ (edits = "candidate") <=> (candidate # None)
         /\ LET p == Refined(edits, candidate, run[r].graph_ref, run[r].binding)
            IN  /\ ckpt' = Saved(run[r].k, p)
                /\ run' = [run EXCEPT ![r].pc = "propose", ![r].rec = p,
                                      ![r].digest = candidate]
  BY DEF Refine
<1> DEFINE p == Refined(edits, candidate, run[r].graph_ref, run[r].binding)
           s == [run[r] EXCEPT !.pc = "propose", !.rec = p, !.digest = candidate]
<1>3. /\ p \in GoodPayload /\ p.binding = run[r].binding
      /\ Traced(p, run[r].k, run[r].mem)
  <2>1. p \in GoodPayload
    BY <1>1, <1>2 DEF Refined, GoodPayload, Payload, SavedInOrder, LocalsInOrder, EditKinds
  <2>2. /\ p.binding = run[r].binding /\ p.evaluation = None /\ p.decision = None
        /\ p.edits = edits /\ p.candidate = candidate
    BY DEF Refined
  <2> HIDE DEF p
  <2>3. run[r].k <= Len(run[r].mem) + 1
    BY <1>1
  <2> QED
    BY <1>2, <2>1, <2>2, <2>3 DEF Traced
<1>4. ckpt' = Saved(run[r].k, p) /\ run' = [run EXCEPT ![r] = s]
  BY <1>2 DEF HInv, IInv
<1> HIDE DEF p
<1>5. LocalsTraced(s) /\ s.mem = run[r].mem
  BY <1>1, <1>3 DEF LocalsTraced, Recordless, InRound, RunState
<1> HIDE DEF s
<1> QED
  BY <1>1, <1>3, <1>4, <1>5, SaveStep

\* A round that ends without a decision.
LEMMA SettleTraces ==
    ASSUME HInv, IInv', NEW r \in Runners, run[r].pc = "propose",
           NEW outcome \in {"no_action", "structural_failure", "duplicate_candidate"},
           NEW digest, Settle(r, outcome, digest)
    PROVE  HInv'
<1> DEFINE s == [run[r] EXCEPT !.pc = "record", !.outcome = outcome, !.digest = digest]
<1>1. /\ run[r] \in RunState /\ LocalsTraced(run[r]) /\ Begins(run[r].mem, memory)
      /\ UNCHANGED <<memory, ckpt>>
  BY TraceOf DEF Settle
<1>2. run' = [run EXCEPT ![r] = s]
  BY DEF Settle, HInv, IInv
<1>3. LocalsTraced(s) /\ s.mem = run[r].mem
  BY <1>1 DEF LocalsTraced, Recordless, InRound, RunState
<1> HIDE DEF s
<1> QED
  BY <1>1, <1>2, <1>3, LocalStep

LEMMA UndecidedTraces ==
    ASSUME HInv, IInv', NEW r \in Runners, NoCandidate(r) \/ HostRefuses(r) \/ Duplicate(r)
    PROVE  HInv'
<1>1. CASE NoCandidate(r)
  BY <1>1, SettleTraces DEF NoCandidate
<1>2. CASE HostRefuses(r)
  BY <1>2, SettleTraces DEF HostRefuses, Proposed
<1>3. CASE Duplicate(r)
  BY <1>3, SettleTraces DEF Duplicate, Proposed
<1> QED
  BY <1>1, <1>2, <1>3

\* A landed candidate takes its outcome from a record whose candidate nothing refused.
LEMMA AlreadyAcceptedTraces ==
    ASSUME HInv, IInv', NEW r \in Runners, AlreadyAccepted(r)
    PROVE  HInv'
<1> DEFINE s == [run[r] EXCEPT !.pc = "record", !.outcome = "accepted", !.digest = Hosted(r),
                               !.evaluation = run[r].rec.evaluation,
                               !.best = run[r].rec.evaluation,
                               !.decision = run[r].rec.decision,
                               !.retained = run[r].rec.baseline.score]
<1>1. /\ run[r] \in RunState /\ LocalsInOrder(run[r]) /\ LocalsTraced(run[r])
      /\ Begins(run[r].mem, memory)
      /\ run[r].pc = "propose" /\ UNCHANGED <<memory, ckpt>>
  BY TraceOf DEF AlreadyAccepted, Proposed
<1>2. run' = [run EXCEPT ![r] = s]
  BY DEF AlreadyAccepted, HInv, IInv
<1>3. run[r].rec # None /\ run[r].rec.evaluation # None
  BY <1>1, MarkerAssumption
     DEF LocalsInOrder, GoodPayload, AlreadyAccepted, Landed, LandedAs
<1>4. Traced(run[r].rec, run[r].k, run[r].mem) /\ run[r].rec.binding = run[r].binding
  BY <1>1, <1>3 DEF LocalsTraced
<1>5. Unrefused(Hosted(r), run[r].mem, run[r].k)
  BY <1>3, <1>4 DEF Traced, Hosted
<1>6. /\ run[r].rec.decision # None => run[r].rec.decision.baseline = run[r].rec.baseline
      /\ Measured(run[r].rec.evaluation)
  BY <1>3, <1>4 DEF Traced, DecidedOn
<1>7. /\ s.pc = "record" /\ s.best = run[r].rec.evaluation /\ s.outcome = "accepted" /\ s.digest = Hosted(r)
      /\ s.decision = run[r].rec.decision /\ s.retained = run[r].rec.baseline.score
      /\ s.rec = run[r].rec /\ s.binding = run[r].binding
      /\ s.k = run[r].k /\ s.mem = run[r].mem
  BY <1>1 DEF RunState
<1> HIDE DEF s
<1>8. LocalsTraced(s)
  BY <1>4, <1>5, <1>6, <1>7 DEF LocalsTraced, Recordless, InRound
<1> QED
  BY <1>1, <1>2, <1>7, <1>8, LocalStep

\* What goes to validation is what nothing refuses.
LEMMA NovelTraces ==
    ASSUME HInv, IInv', NEW r \in Runners, Novel(r)
    PROVE  HInv'
<1> DEFINE s == [run[r] EXCEPT !.pc = "validate", !.digest = Hosted(r)]
<1>1. /\ run[r] \in RunState /\ LocalsInOrder(run[r]) /\ LocalsTraced(run[r])
      /\ Begins(run[r].mem, memory) /\ run[r].mem \in Seq(Entry)
      /\ run[r].pc = "propose" /\ UNCHANGED <<memory, ckpt>>
  BY TraceOf DEF Novel, Proposed
<1>2. run' = [run EXCEPT ![r] = s]
  BY DEF Novel, HInv, IInv
<1>3. Unrefused(Hosted(r), run[r].mem, run[r].k)
  <2>1. run[r].k = Len(run[r].mem) + 1
    BY <1>1 DEF LocalsInOrder, InRound
  <2> QED
    BY <1>1, <2>1 DEF Novel, Refused, Known, Unrefused
<1>4. /\ s.pc = "validate" /\ s.digest = Hosted(r) /\ s.rec = run[r].rec
      /\ s.binding = run[r].binding /\ s.k = run[r].k /\ s.mem = run[r].mem
      /\ s.decision = run[r].decision /\ s.retained = run[r].retained /\ s.best = run[r].best
  BY <1>1 DEF RunState
<1>5. /\ run[r].rec.edits = "candidate"
      /\ Hosted(r) \notin HostInvalid
  BY DEF Novel, Proposed
<1> HIDE DEF s
<1>6. LocalsTraced(s)
  BY <1>1, <1>3, <1>4, <1>5 DEF LocalsTraced, Recordless, InRound, Hosted
<1> QED
  BY <1>1, <1>2, <1>4, <1>6, LocalStep

\* The reused evaluation comes with the control it was made against.
LEMMA ReuseTraces ==
    ASSUME HInv, IInv', NEW r \in Runners, Reuse(r)
    PROVE  HInv'
<1> DEFINE s == [run[r] EXCEPT !.pc = "decide", !.evaluation = run[r].rec.evaluation,
                               !.best = run[r].rec.baseline,
                               !.retained = run[r].rec.baseline.score]
<1>1. /\ run[r] \in RunState /\ LocalsInOrder(run[r]) /\ LocalsTraced(run[r])
      /\ Begins(run[r].mem, memory)
      /\ run[r].pc = "validate" /\ UNCHANGED <<memory, ckpt>>
  BY TraceOf DEF Reuse
<1>2. run' = [run EXCEPT ![r] = s]
  BY DEF Reuse, HInv, IInv
<1>3. run[r].rec # None /\ run[r].rec.evaluation # None
  BY <1>1, MarkerAssumption DEF LocalsInOrder, GoodPayload, Reuse
<1>4. Traced(run[r].rec, run[r].k, run[r].mem)
  BY <1>1, <1>3 DEF LocalsTraced
<1>5. /\ run[r].rec.evaluation.ref = run[r].digest
      /\ Measured(run[r].rec.evaluation) /\ Measured(run[r].rec.baseline)
  BY <1>1, <1>3, <1>4 DEF Traced, LocalsTraced
<1>6. /\ s.pc = "decide" /\ s.evaluation = run[r].rec.evaluation
      /\ s.best = run[r].rec.baseline /\ s.retained = s.best.score
      /\ s.digest = run[r].digest /\ s.rec = run[r].rec
      /\ s.binding = run[r].binding /\ s.k = run[r].k /\ s.mem = run[r].mem
      /\ s.decision = run[r].decision
  BY <1>1 DEF RunState
<1> HIDE DEF s
<1>7. LocalsTraced(s)
  BY <1>1, <1>5, <1>6 DEF LocalsTraced, Recordless, InRound
<1> QED
  BY <1>1, <1>2, <1>6, <1>7, LocalStep

\* The record gets the evaluation of a candidate that nothing refuses.
LEMMA ValidateTraces ==
    ASSUME HInv, IInv', NEW r \in Runners, Validate(r)
    PROVE  HInv'
<1>1. /\ run[r] \in RunState /\ LocalsInOrder(run[r]) /\ LocalsTraced(run[r])
      /\ Begins(run[r].mem, memory) /\ run[r].mem \in Seq(Entry)
      /\ run[r].pc = "validate" /\ memory' = memory
      /\ run[r].k = Len(run[r].mem) + 1
      /\ run[r].rec \in GoodPayload /\ run[r].rec \in Payload
      /\ run[r].rec.evaluation = None
  BY TraceOf DEF Validate, LocalsInOrder, InRound, GoodPayload
<1>2. PICK score \in ScoresOf[run[r].digest] :
         LET e == [ref |-> run[r].digest, score |-> score]
             p == [run[r].rec EXCEPT !.host = run[r].digest, !.evaluation = e,
                                     !.baseline = run[r].best]
         IN  /\ ckpt' = Saved(run[r].k, p)
             /\ run' = [run EXCEPT ![r].pc = "decide", ![r].evaluation = e, ![r].rec = p]
  BY DEF Validate
<1> DEFINE e == [ref |-> run[r].digest, score |-> score]
           p == [run[r].rec EXCEPT !.host = run[r].digest, !.evaluation = e,
                                   !.baseline = run[r].best]
           s == [run[r] EXCEPT !.pc = "decide", !.evaluation = e, !.rec = p]
<1>3. e \in Evaluation /\ e.ref = run[r].digest /\ Measured(e)
  BY <1>1 DEF LocalsInOrder, Evaluation, Measured
<1>4. ckpt' = Saved(run[r].k, p) /\ run' = [run EXCEPT ![r] = s]
  BY <1>2 DEF HInv, IInv
<1>5. run[r].rec # None
  BY <1>1, MarkerAssumption
<1>6. /\ Traced(run[r].rec, run[r].k, run[r].mem)
      /\ run[r].rec.binding = run[r].binding
      /\ run[r].rec.edits = "candidate"
      /\ run[r].digest = Materialise[run[r].rec.candidate]
      /\ run[r].digest \notin HostInvalid
      /\ Unrefused(run[r].digest, run[r].mem, run[r].k)
      /\ run[r].decision = None /\ run[r].retained = run[r].best.score
      /\ Measured(run[r].best)
  BY <1>1, <1>5 DEF LocalsTraced, InRound
<1> HIDE DEF e
<1>7. p \in GoodPayload
  BY <1>1, <1>3 DEF LocalsInOrder, InRound, GoodPayload, Payload, SavedInOrder
<1>8. /\ p.edits = "candidate" /\ p.candidate = run[r].rec.candidate
      /\ p.host = run[r].digest /\ p.evaluation = e /\ p.baseline = run[r].best
      /\ p.binding = run[r].binding /\ p.decision = run[r].rec.decision
  BY <1>1, <1>6 DEF Payload
<1> HIDE DEF p
<1>9. p.decision = None
  BY <1>1, <1>6, <1>8 DEF Traced
<1>10. Traced(p, run[r].k, run[r].mem)
  BY <1>3, <1>6, <1>8, <1>9 DEF Traced
<1>11. /\ s.pc = "decide" /\ s.evaluation = e /\ s.rec = p /\ s.best = run[r].best
       /\ s.retained = run[r].retained /\ s.digest = run[r].digest
       /\ s.binding = run[r].binding /\ s.k = run[r].k /\ s.mem = run[r].mem
       /\ s.decision = run[r].decision
  BY <1>1 DEF RunState
<1> HIDE DEF s
<1>12. LocalsTraced(s)
  BY <1>3, <1>6, <1>8, <1>10, <1>11 DEF LocalsTraced, Recordless, InRound
<1> QED
  BY <1>1, <1>4, <1>7, <1>10, <1>11, <1>12, SaveStep

\* A decision on what was measured leads to accept() or to the memory save.
LEMMA DecidedTraces ==
    ASSUME HInv, NEW r \in Runners, run[r].pc = "decide", NEW d \in Decision,
           DecidedOn(d, run[r].best, run[r].evaluation, run[r].binding),
           Decided(r, d, run[r].rec)
    PROVE  \E s : run' = [run EXCEPT ![r] = s] /\ LocalsTraced(s) /\ s.mem = run[r].mem
<1> DEFINE pc == IF d.accepted THEN "accept" ELSE "record"
           outcome == IF d.accepted THEN "accepted" ELSE "rejected"
           s == [run[r] EXCEPT !.pc = pc, !.decision = d, !.decision_stop = d.stop,
                               !.rec = run[r].rec, !.outcome = outcome]
<1>1. /\ run[r] \in RunState /\ LocalsInOrder(run[r]) /\ LocalsTraced(run[r])
      /\ run[r].rec # None
  BY TraceOf, MarkerAssumption DEF LocalsInOrder, GoodPayload
<1>2. run' = [run EXCEPT ![r] = s]
  <2>1. run \in [Runners -> GoodState]
    BY DEF HInv, IInv
  <2>2. run' = [run EXCEPT ![r].pc = pc, ![r].decision = d, ![r].decision_stop = d.stop,
                           ![r].rec = run[r].rec, ![r].outcome = outcome]
    BY DEF Decided
  <2> HIDE DEF pc, outcome
  <2> QED
    BY <2>1, <2>2
<1>3. /\ (pc = "accept" /\ outcome = "accepted" /\ d.accepted) \/ (pc = "record" /\ outcome = "rejected")
      /\ d # None
  <2>1. d # None
    BY MarkerAssumption
  <2>2. d.accepted \in BOOLEAN
    BY DEF Decision
  <2>3. (pc = "accept" /\ outcome = "accepted" /\ d.accepted) \/ (pc = "record" /\ outcome = "rejected")
    BY <2>2
  <2> QED
    BY <2>1, <2>3
<1> HIDE DEF pc, outcome
<1>4. /\ s.pc = pc /\ s.outcome = outcome /\ s.decision = d /\ s.rec = run[r].rec
      /\ s.retained = run[r].retained /\ s.best = run[r].best
      /\ s.digest = run[r].digest /\ s.evaluation = run[r].evaluation
      /\ s.binding = run[r].binding /\ s.k = run[r].k /\ s.mem = run[r].mem
  BY <1>1 DEF RunState
<1>5. /\ run[r].rec.binding = run[r].binding /\ Traced(run[r].rec, run[r].k, run[r].mem)
      /\ run[r].retained = run[r].best.score
      /\ run[r].evaluation.ref = run[r].digest
      /\ Unrefused(run[r].digest, run[r].mem, run[r].k)
      /\ d.baseline = run[r].best
      /\ Measured(run[r].best) /\ Measured(run[r].evaluation)
  BY <1>1 DEF LocalsTraced, DecidedOn, InRound
<1> HIDE DEF s
<1>6. LocalsTraced(s)
  BY <1>3, <1>4, <1>5 DEF LocalsTraced, Recordless, InRound
<1> QED
  BY <1>2, <1>4, <1>6

LEMMA DecideTraces ==
    ASSUME HInv, IInv', NEW r \in Runners, Decide(r)
    PROVE  HInv'
<1>1. /\ run[r] \in RunState /\ LocalsInOrder(run[r]) /\ LocalsTraced(run[r])
      /\ Begins(run[r].mem, memory) /\ run[r].mem \in Seq(Entry)
      /\ run[r].pc = "decide" /\ memory' = memory
      /\ run[r].k = Len(run[r].mem) + 1
      /\ run[r].rec \in GoodPayload /\ run[r].rec \in Payload /\ SavedInOrder(run[r].rec)
      /\ run[r].evaluation \in Evaluation /\ run[r].best \in Evaluation
      /\ run[r].binding \in Bindings
  BY TraceOf DEF Decide, LocalsInOrder, InRound, GoodPayload
<1>2. run[r].rec # None
  BY <1>1, MarkerAssumption
<1>3. /\ Traced(run[r].rec, run[r].k, run[r].mem)
      /\ run[r].rec.binding = run[r].binding
      /\ run[r].evaluation = run[r].rec.evaluation /\ run[r].best = run[r].rec.baseline
  BY <1>1, <1>2 DEF LocalsTraced
<1>4. CASE run[r].rec.decision # None
  <2> DEFINE d == run[r].rec.decision
  <2>1. d \in Decision /\ DecidedOn(d, run[r].best, run[r].evaluation, run[r].binding)
    BY <1>1, <1>3, <1>4 DEF Traced, Payload
  <2>2. Decided(r, d, run[r].rec) /\ ckpt' = ckpt
    BY <1>4 DEF Decide
  <2> HIDE DEF d
  <2>3. PICK s : run' = [run EXCEPT ![r] = s] /\ LocalsTraced(s) /\ s.mem = run[r].mem
    BY <1>1, <2>1, <2>2, DecidedTraces
  <2> QED
    BY <1>1, <2>2, <2>3, LocalStep
<1>5. CASE run[r].rec.decision = None
  <2>1. PICK d \in Decisions(run[r].best, run[r].evaluation, run[r].binding) :
            /\ ckpt' = Saved(run[r].k, [run[r].rec EXCEPT !.decision = d])
            /\ Decided(r, d, run[r].rec)
    BY <1>5 DEF Decide
  <2>2. d \in Decision /\ DecidedOn(d, run[r].best, run[r].evaluation, run[r].binding)
    BY <1>1, DecisionsType, DecisionsAreVerdicts
  <2> DEFINE p == [run[r].rec EXCEPT !.decision = d]
  <2>3. p \in GoodPayload
    BY <1>1, <2>2 DEF GoodPayload, Payload, SavedInOrder
  <2>4. /\ p.edits = run[r].rec.edits /\ p.candidate = run[r].rec.candidate
        /\ p.host = run[r].rec.host /\ p.evaluation = run[r].rec.evaluation
        /\ p.baseline = run[r].rec.baseline /\ p.binding = run[r].rec.binding
        /\ p.decision = d
    BY <1>1 DEF Payload
  <2> HIDE DEF p
  <2>5. run[r].rec.evaluation # None
    BY <1>1, <1>3, MarkerAssumption
  <2>6. Traced(p, run[r].k, run[r].mem)
    BY <1>3, <2>2, <2>4, <2>5 DEF Traced
  <2>7. PICK s : run' = [run EXCEPT ![r] = s] /\ LocalsTraced(s) /\ s.mem = run[r].mem
    BY <1>1, <2>1, <2>2, DecidedTraces
  <2>8. ckpt' = Saved(run[r].k, p)
    BY <2>1 DEF p
  <2> QED
    BY <1>1, <2>3, <2>6, <2>7, <2>8, SaveStep
<1> QED
  BY <1>4, <1>5

LEMMA AcceptTraces ==
    ASSUME HInv, IInv', NEW r \in Runners, Accept(r)
    PROVE  HInv'
<1> DEFINE s == [run[r] EXCEPT !.pc = "record", !.graph_ref = run[r].digest,
                               !.best = run[r].evaluation]
<1>1. /\ run[r] \in RunState /\ LocalsTraced(run[r]) /\ Begins(run[r].mem, memory)
      /\ run[r].pc = "accept" /\ UNCHANGED <<memory, ckpt>>
  BY TraceOf DEF Accept
<1>2. run' = [run EXCEPT ![r] = s] \/ Leave(r)
  BY DEF Accept, HInv, IInv
<1>3. /\ s.pc = "record" /\ s.best = run[r].evaluation /\ s.outcome = run[r].outcome /\ s.decision = run[r].decision
      /\ s.retained = run[r].retained /\ s.digest = run[r].digest /\ s.rec = run[r].rec
      /\ s.binding = run[r].binding /\ s.k = run[r].k /\ s.mem = run[r].mem
  BY <1>1 DEF RunState
<1> HIDE DEF s
<1>4. LocalsTraced(s)
  BY <1>1, <1>3 DEF LocalsTraced, Recordless, InRound
<1> QED
  BY <1>1, <1>2, <1>3, <1>4, LocalStep, LeaveTraces

\* The entry of a decided round reports the control of its decision, on a candidate that
\* no earlier entry refuses.
LEMMA RecordTraces ==
    ASSUME HInv, IInv', NEW r \in Runners, Record(r)
    PROVE  HInv'
<1> DEFINE e == NewEntry(r)
           mem == Append(run[r].mem, e)
           s == [run[r] EXCEPT !.pc = "complete", !.mem = mem, !.rec = None, !.digest = None,
                               !.evaluation = None, !.retained = None]
<1>1. /\ run[r] \in RunState /\ LocalsInOrder(run[r]) /\ LocalsTraced(run[r])
      /\ Begins(run[r].mem, memory) /\ run[r].mem \in Seq(Entry)
      /\ run[r].pc = "record" /\ ckpt' = ckpt
      /\ run[r].k = Len(run[r].mem) + 1
  BY TraceOf DEF Record, LocalsInOrder, InRound
<1>2. CASE MemoryIs(run[r].mem)
  <2>1. memory = run[r].mem /\ memory' = Append(memory, e) /\ run' = [run EXCEPT ![r] = s]
    BY <1>2 DEF Record, MemoryIs, HInv, IInv
  <2>2. e \in Entry /\ memory \in Seq(Entry) /\ memory' \in Seq(Entry)
    BY <1>1, <2>1 DEF NewEntry, Entry, RunState, LocalsInOrder, InRound, HInv, IInv
  <2>3. /\ e.kind = run[r].outcome /\ e.digest = run[r].digest /\ e.decision = run[r].decision
        /\ e.kind \in {"accepted", "rejected"} => e.retained = run[r].retained
    BY DEF NewEntry
  <2>4. /\ s.pc = "complete" /\ s.mem = memory' /\ s.rec = None
        /\ s.best = run[r].best /\ Measured(s.best)
    BY <1>1, <2>1 DEF RunState, LocalsTraced, InRound
  <2> HIDE DEF e, mem, s
  <2>5. Len(memory') = Len(memory) + 1 /\ memory'[Len(memory) + 1] = e
    BY <2>1, <2>2
  <2>6. Begins(memory, memory')
    BY <2>1, <2>2, BeginsSelf, BeginsAppend
  <2>7. LocalsTraced(s) /\ Begins(s.mem, memory')
    BY <2>2, <2>4, BeginsSelf DEF LocalsTraced, Recordless, InRound
  <2>8. ProcessesTraced'
    <3> SUFFICES ASSUME NEW q \in Runners
                 PROVE  LocalsTraced(run'[q]) /\ Begins(run'[q].mem, memory')
      BY DEF ProcessesTraced
    <3>1. CASE q = r
      <4>1. run'[q] = s
        BY <2>1, <3>1 DEF HInv, IInv
      <4> QED
        BY <2>7, <4>1
    <3>2. CASE q # r
      <4>1. run'[q] = run[q]
        BY <2>1, <3>2 DEF HInv, IInv
      <4>2. run[q].mem \in Seq(Entry) /\ LocalsTraced(run[q]) /\ Begins(run[q].mem, memory)
        BY TraceOf
      <4> QED
        BY <2>1, <2>2, <4>1, <4>2, BeginsAppend
    <3> QED
      BY <3>1, <3>2
  <2>9. RecordsTraced'
    <3> SUFFICES ASSUME NEW k \in Iterations
                 PROVE  /\ ckpt[k] = Completed => k <= Len(memory')
                        /\ Unfinished(k) => Traced(ckpt[k], k, memory')
      BY <1>1 DEF RecordsTraced, Unfinished
    <3>1. /\ ckpt[k] = Completed => k <= Len(memory)
          /\ Unfinished(k) => Traced(ckpt[k], k, memory)
      BY DEF HInv, RecordsTraced
    <3>2. Traced(ckpt[k], k, memory) => Traced(ckpt[k], k, memory')
      <4>1. k \in Nat
        BY DEF Iterations
      <4>2. Traced(ckpt[k], k, memory) => k <= Len(memory) + 1
        BY DEF Traced
      <4> QED
        BY <2>2, <2>6, <4>1, <4>2, TracedAgrees
    <3> QED
      BY <2>2, <2>5, <3>1, <3>2 DEF Iterations
  <2>10. \A i \in 1 .. Len(memory) : memory'[i] = memory[i]
    BY <2>6 DEF Begins
  <2>11. /\ e.decision # None => e.retained = e.decision.baseline.score
         /\ e.kind = "rejected" => e.decision # None
         /\ e.kind \in {"accepted", "rejected"} => Unrefused(e.digest, memory, Len(memory) + 1)
    BY <1>1, <2>1, <2>3 DEF LocalsTraced
  <2>12. RetainedIsControl' /\ RejectedIsDecided'
    <3> SUFFICES ASSUME NEW i \in 1 .. Len(memory) + 1
                 PROVE  /\ memory'[i].decision # None
                              => memory'[i].retained = memory'[i].decision.baseline.score
                        /\ memory'[i].kind = "rejected" => memory'[i].decision # None
      BY <2>5 DEF RetainedIsControl, RejectedIsDecided
    <3>1. CASE i = Len(memory) + 1
      BY <2>5, <2>11, <3>1
    <3>2. CASE i # Len(memory) + 1
      <4>1. i \in 1 .. Len(memory)
        BY <2>2, <3>2
      <4> QED
        BY <2>10, <4>1 DEF HInv, RetainedIsControl, RejectedIsDecided
    <3> QED
      BY <3>1, <3>2
  <2>13. RejectedStaysRefused'
    <3> SUFFICES ASSUME NEW i \in 1 .. Len(memory) + 1, NEW j \in 1 .. Len(memory) + 1,
                        i < j, Blocks(memory'[i]), memory'[j].digest = memory'[i].digest
                 PROVE  memory'[j].kind \notin {"accepted", "rejected"}
      BY <2>5 DEF RejectedStaysRefused
    <3>1. i \in 1 .. Len(memory) /\ memory'[i] = memory[i]
      BY <2>2, <2>10
    <3>2. CASE j = Len(memory) + 1
      BY <2>2, <2>5, <2>11, <3>1, <3>2 DEF Unrefused
    <3>3. CASE j # Len(memory) + 1
      <4>1. j \in 1 .. Len(memory) /\ memory'[j] = memory[j]
        BY <2>2, <2>10, <3>3
      <4> QED
        BY <3>1, <4>1 DEF HInv, RejectedStaysRefused
    <3> QED
      BY <3>2, <3>3
  <2> QED
    BY <2>8, <2>9, <2>12, <2>13 DEF HInv
<1>3. CASE ~ MemoryIs(run[r].mem)
  BY <1>1, <1>3, LeaveTraces DEF Record
<1> QED
  BY <1>2, <1>3

\* The marker is written by a process whose memory holds the round.
LEMMA CompleteTraces ==
    ASSUME HInv, IInv', NEW r \in Runners, Complete(r)
    PROVE  HInv'
<1> DEFINE s == [run[r] EXCEPT !.pc = "end"]
<1>1. /\ run[r] \in RunState /\ LocalsTraced(run[r]) /\ Begins(run[r].mem, memory)
      /\ run[r].pc = "complete" /\ memory' = memory
      /\ run[r].k = Len(run[r].mem)
  BY TraceOf DEF Complete, LocalsInOrder
<1>2. run' = [run EXCEPT ![r] = s]
  BY DEF Complete, HInv, IInv
<1>3. LocalsTraced(s) /\ s.mem = run[r].mem
  BY <1>1 DEF LocalsTraced, Recordless, InRound, RunState
<1> HIDE DEF s
<1>4. ProcessesTraced'
  BY <1>1, <1>2, <1>3, OthersTraced
<1>5. RecordsTraced'
  <2> SUFFICES ASSUME NEW k \in Iterations
               PROVE  /\ ckpt'[k] = Completed => k <= Len(memory)
                      /\ ckpt'[k] \notin {None, Completed} => Traced(ckpt'[k], k, memory)
    BY <1>1 DEF RecordsTraced, Unfinished
  <2>1. ckpt'[k] = ckpt[k] \/ (k = run[r].k /\ ckpt'[k] = Completed)
    BY DEF Complete, Saved, HInv, IInv
  <2> QED
    BY <1>1, <2>1 DEF Begins, HInv, RecordsTraced, Unfinished
<1>6. RetainedIsControl' /\ RejectedStaysRefused' /\ RejectedIsDecided'
  BY <1>1 DEF HInv, RetainedIsControl, RejectedStaysRefused, RejectedIsDecided
<1> QED
  BY <1>4, <1>5, <1>6 DEF HInv

LEMMA EndRoundTraces ==
    ASSUME HInv, IInv', NEW r \in Runners, EndRound(r)
    PROVE  HInv'
<1> DEFINE s == [run[r] EXCEPT !.pc = "begin", !.k = run[r].k + 1, !.streak = Streak(r)]
<1>1. /\ run[r] \in RunState /\ LocalsTraced(run[r]) /\ Begins(run[r].mem, memory)
      /\ run[r].pc = "end" /\ UNCHANGED <<memory, ckpt>>
  BY TraceOf DEF EndRound
<1>2. run' = [run EXCEPT ![r] = s] \/ Leave(r)
  BY DEF EndRound, HInv, IInv
<1>3. LocalsTraced(s) /\ s.mem = run[r].mem
  BY <1>1 DEF LocalsTraced, Recordless, InRound, RunState
<1> HIDE DEF s
<1> QED
  BY <1>1, <1>2, <1>3, LocalStep, LeaveTraces

LEMMA StopTraces ==
    ASSUME HInv, IInv', NEW r \in Runners, Stop(r)
    PROVE  HInv'
  BY LeaveTraces DEF Stop, Exhaust, Crash

-----------------------------------------------------------------------------
(* The theorems.                                                           *)

LEMMA InitHInv == Init => HInv
<1> SUFFICES ASSUME Init PROVE HInv
  OBVIOUS
<1>1. IInv
  BY InitIInv
<1>2. RecordsTraced
  BY DEF Init, RecordsTraced, Unfinished
<1>3. ProcessesTraced
  <2>1. Begins(<<>>, <<>>)
    BY DEF Begins
  <2>2. memory = <<>> /\ \A r \in Runners : run[r] = NotRunning
    BY DEF Init
  <2> QED
    BY <2>1, <2>2, NotRunningTraced DEF ProcessesTraced
<1>4. RetainedIsControl /\ RejectedStaysRefused /\ RejectedIsDecided
  BY DEF Init, RetainedIsControl, RejectedStaysRefused, RejectedIsDecided
<1> QED
  BY <1>1, <1>2, <1>3, <1>4 DEF HInv

LEMMA NextHInv == HInv /\ [Next]_vars => HInv'
<1> SUFFICES ASSUME HInv, [Next]_vars PROVE HInv'
  OBVIOUS
<1>1. IInv'
  BY NextIInv DEF HInv
<1>2. CASE UNCHANGED vars
  <2>1. RecordsTraced' /\ ProcessesTraced'
    BY <1>2 DEF vars, HInv, RecordsTraced, ProcessesTraced, Unfinished
  <2>2. RetainedIsControl' /\ RejectedStaysRefused' /\ RejectedIsDecided'
    BY <1>2 DEF vars, HInv, RetainedIsControl, RejectedStaysRefused, RejectedIsDecided
  <2> QED
    BY <1>1, <2>1, <2>2 DEF HInv
<1>3. CASE Next
  <2>1. PICK r \in Runners : Start(r) \/ Advance(r) \/ Stop(r)
    BY <1>3 DEF Next
  <2>2. CASE Start(r)
    BY <1>1, <2>2, LoadHeadTraces DEF Start
  <2>3. CASE Seed(r) \/ LoadMemory(r) \/ LoadCheckpoint(r) \/ Baseline(r)
             \/ BeginRound(r) \/ Refine(r)
    BY <1>1, <2>3, SeedTraces, LoadMemoryTraces, LoadCheckpointTraces, BaselineTraces,
       BeginRoundTraces, RefineTraces
  <2>4. CASE NoCandidate(r) \/ HostRefuses(r) \/ AlreadyAccepted(r) \/ Duplicate(r)
             \/ Novel(r)
    BY <1>1, <2>4, UndecidedTraces, AlreadyAcceptedTraces, NovelTraces
  <2>5. CASE Reuse(r) \/ Validate(r) \/ Decide(r) \/ Accept(r)
             \/ Record(r) \/ Complete(r) \/ EndRound(r)
    BY <1>1, <2>5, ReuseTraces, ValidateTraces, DecideTraces, AcceptTraces, RecordTraces,
       CompleteTraces, EndRoundTraces
  <2>6. CASE Stop(r)
    BY <1>1, <2>6, StopTraces
  <2> QED
    BY <2>1, <2>2, <2>3, <2>4, <2>5, <2>6 DEF Advance
<1> QED
  BY <1>2, <1>3

\* Whatever a process loaded or measured stays true of the stored chains, whoever else
\* works on them (harness.py:190-227, 440-462).
THEOREM HistoryInvariance == Spec => []HInv
  BY InitHInv, NextHInv, PTL DEF Spec

\* No interleaving lets the completed marker of a round outrun the save of its entry
\* (harness.py:459-462).
THEOREM CompletedRoundsAreRecorded == Spec => []CompletedIsRecorded
<1>1. HInv => CompletedIsRecorded
  BY DEF HInv, RecordsTraced, CompletedIsRecorded
<1> QED
  BY <1>1, HistoryInvariance, PTL

\* The retained score of every entry is that of the control its decision was taken
\* against, whichever process measured it (harness.py:392-399, 440-458).
THEOREM RetainedScoresAreControls == Spec => []RetainedIsControl
<1>1. HInv => RetainedIsControl
  BY DEF HInv
<1> QED
  BY <1>1, HistoryInvariance, PTL

\* What was measured as worse or failed the host's checks is never accepted or measured
\* again, by any process and over any resume (harness.py:553-561).
THEOREM RejectedStaysOut == Spec => []RejectedStaysRefused
<1>1. HInv => RejectedStaysRefused
  BY DEF HInv
<1> QED
  BY <1>1, HistoryInvariance, PTL

\* A round that one process recorded and another decided has one objective
\* (harness.py:198-203).
THEOREM RoundsKeepTheirObjective == Spec => []OneObjectivePerRound
<1>1. HInv => OneObjectivePerRound
  BY DEF HInv, RecordsTraced, OneObjectivePerRound, Traced, DecidedOn
<1> QED
  BY <1>1, HistoryInvariance, PTL

-----------------------------------------------------------------------------
(* What a step does to the chains.                                         *)

\* A chain that is appended to, at most once, keeps what it holds.
LEMMA AppendGrows ==
    ASSUME NEW S, NEW seq \in Seq(S), NEW e \in S,
           NEW longer, longer = seq \/ longer = Append(seq, e)
    PROVE  Len(longer) >= Len(seq) /\ SubSeq(longer, 1, Len(seq)) = seq
<1>1. longer \in Seq(S) /\ Len(longer) >= Len(seq) /\ \A i \in 1 .. Len(seq) : longer[i] = seq[i]
  OBVIOUS
<1> DEFINE head == SubSeq(longer, 1, Len(seq))
<1>2. head \in Seq(S) /\ Len(head) = Len(seq) /\ \A i \in 1 .. Len(seq) : head[i] = longer[i]
  BY <1>1
<1> HIDE DEF head
<1>3. head = seq
  BY <1>1, <1>2, SeqEqual
<1> QED
  BY <1>1, <1>3 DEF head

\* Only seed(), accept() and the memory save write, and each appends one element.
LEMMA StepAppends ==
    ASSUME IInv, [Next]_vars
    PROVE  /\ graphs' = graphs \/ \E v \in Revision : graphs' = Append(graphs, v)
           /\ memory' = memory \/ \E e \in Entry : memory' = Append(memory, e)
<1>1. graphs \in Seq(Revision) /\ memory \in Seq(Entry)
  BY DEF IInv
<1>2. CASE UNCHANGED vars
  BY <1>2 DEF vars
<1>3. CASE Next
  <2>1. PICK r \in Runners : Start(r) \/ Advance(r) \/ Stop(r)
    BY <1>3 DEF Next
  <2>2. CASE UNCHANGED <<graphs, memory>>
    BY <2>2
  <2>3. CASE Seed(r)
    <3>1. memory' = memory /\ (graphs' = graphs \/ \E v : graphs = <<>> /\ graphs' = <<v>>)
      BY <2>3 DEF Seed
    <3>2. graphs' \in Seq(Revision)
      BY <2>3, SeedKeeps DEF IInv
    <3>3. ASSUME NEW v, graphs = <<>>, graphs' = <<v>>
          PROVE  v \in Revision /\ graphs' = Append(graphs, v)
      BY <3>2, <3>3
    <3> QED
      BY <3>1, <3>3
  <2>4. CASE Accept(r)
    <3>1. memory' = memory /\ (graphs' = graphs \/ \E v : graphs' = Append(graphs, v))
      BY <2>4 DEF Accept
    <3>2. graphs' \in Seq(Revision)
      BY <2>4, AcceptKeeps DEF IInv
    <3>3. ASSUME NEW v, graphs' = Append(graphs, v)
          PROVE  v \in Revision
      BY <1>1, <3>2, <3>3
    <3> QED
      BY <3>1, <3>3
  <2>5. CASE Record(r)
    <3>1. graphs' = graphs /\ (memory' = memory \/ \E e : memory' = Append(memory, e))
      BY <2>5 DEF Record, MemoryIs
    <3>2. memory' \in Seq(Entry)
      BY <2>5, RecordKeeps DEF IInv
    <3>3. ASSUME NEW e, memory' = Append(memory, e)
          PROVE  e \in Entry
      BY <1>1, <3>2, <3>3
    <3> QED
      BY <3>1, <3>3
  <2>6. \/ UNCHANGED <<graphs, memory>>
        \/ Seed(r) \/ Accept(r) \/ Record(r)
    BY <2>1 DEF Start, Advance, Stop, LoadHead, LoadMemory, LoadCheckpoint, Baseline,
       BeginRound, Refine, Settle, NoCandidate, HostRefuses, AlreadyAccepted, Duplicate,
       Novel, Reuse, Validate, Decide, Complete, EndRound, Exhaust, Crash
  <2> QED
    BY <2>2, <2>3, <2>4, <2>5, <2>6
<1> QED
  BY <1>2, <1>3

\* No step of any process rewrites or drops what the graph chain and rejection memory
\* hold: every write of the loop is a conditional append (harness.py:427, 459-460).
THEOREM HistoryOnlyGrows == Spec => HistoryAppendOnly
<1>1. IInv /\ [Next]_vars =>
        [/\ Len(graphs') >= Len(graphs) /\ SubSeq(graphs', 1, Len(graphs)) = graphs
         /\ Len(memory') >= Len(memory) /\ SubSeq(memory', 1, Len(memory)) = memory]_vars
  <2> SUFFICES ASSUME IInv, [Next]_vars
               PROVE  /\ Len(graphs') >= Len(graphs) /\ SubSeq(graphs', 1, Len(graphs)) = graphs
                      /\ Len(memory') >= Len(memory) /\ SubSeq(memory', 1, Len(memory)) = memory
    OBVIOUS
  <2>1. graphs \in Seq(Revision) /\ memory \in Seq(Entry)
    BY DEF IInv
  <2>2. /\ graphs' = graphs \/ \E v \in Revision : graphs' = Append(graphs, v)
        /\ memory' = memory \/ \E e \in Entry : memory' = Append(memory, e)
    BY StepAppends
  <2> QED
    BY <2>1, <2>2, AppendGrows
<1> QED
  BY <1>1, Invariance, PTL DEF Spec, HistoryAppendOnly

-----------------------------------------------------------------------------
(* What a step leaves to the process that takes it.                        *)

\* A step of one process leaves the others where they are.
LEMMA OthersStay ==
    ASSUME IInv, NEW r \in Runners, Start(r) \/ Advance(r) \/ Stop(r),
           NEW q \in Runners, q # r
    PROVE  run'[q] = run[q]
<1>1. \E s : run' = [run EXCEPT ![r] = s]
  <2>1. CASE Start(r) \/ Stop(r)
    BY <2>1 DEF Start, Stop, LoadHead, Exhaust, Crash, Leave
  <2>2. CASE \/ Seed(r) \/ LoadMemory(r) \/ LoadCheckpoint(r) \/ Baseline(r)
             \/ BeginRound(r) \/ Refine(r)
    BY <2>2 DEF Seed, LoadMemory, LoadCheckpoint, Baseline, BeginRound, Refine, Leave
  <2>3. CASE \/ NoCandidate(r) \/ HostRefuses(r) \/ AlreadyAccepted(r) \/ Duplicate(r)
             \/ Novel(r)
    BY <2>3 DEF Settle, NoCandidate, HostRefuses, AlreadyAccepted, Duplicate, Novel
  <2>4. CASE \/ Reuse(r) \/ Validate(r) \/ Decide(r) \/ Accept(r)
             \/ Record(r) \/ Complete(r) \/ EndRound(r)
    BY <2>4 DEF Reuse, Validate, Decide, Decided, Accept, Record, Complete, EndRound, Leave
  <2> QED
    BY <2>1, <2>2, <2>3, <2>4 DEF Advance
<1> QED
  BY <1>1 DEF IInv


\* The round, the memory and the head the process holds stay.
SameRound(r) ==
    /\ run'[r].graph_ref = run[r].graph_ref /\ run'[r].mem = run[r].mem
    /\ run'[r].k = run[r].k /\ run'[r].streak = run[r].streak

LEMMA LeaveEffect ==
    ASSUME IInv, NEW r \in Runners, Leave(r)
    PROVE  run'[r] = NotRunning
  BY DEF Leave, IInv

LEMMA LoadHeadEffect ==
    ASSUME IInv, NEW r \in Runners, Start(r)
    PROVE  /\ run[r].pc = "idle" /\ UNCHANGED <<graphs, memory, ckpt>>
           /\ \/ run'[r] = NotRunning
              \/ /\ graphs = <<>> /\ run'[r].pc = "seed"
                 /\ run'[r].rec = None /\ run'[r].streak = 0
              \/ /\ graphs # <<>> /\ run'[r].pc = "memory" /\ run'[r].graph_ref = HeadRef
                 /\ run'[r].rec = None /\ run'[r].streak = 0
<1>1. PICK initial \in InitialGraphs, binding \in Bindings : LoadHead(r, initial, binding)
  BY DEF Start
<1> DEFINE Loaded(pc, g) == [NotRunning EXCEPT !.pc = pc, !.binding = binding, !.graph_ref = g]
<1>2. \A pc, g : LET t == Loaded(pc, g)
                IN  t.pc = pc /\ t.graph_ref = g /\ t.rec = None /\ t.streak = 0
  BY DEF NotRunning
<1>3. \/ run'[r] = NotRunning
      \/ graphs = <<>> /\ run'[r] = Loaded("seed", IF initial = None THEN Skeleton ELSE initial)
      \/ graphs # <<>> /\ run'[r] = Loaded("memory", HeadRef)
  BY <1>1 DEF LoadHead, Leave, IInv
<1> HIDE DEF Loaded
<1> QED
  BY <1>1, <1>2, <1>3 DEF LoadHead

LEMMA SeedEffect ==
    ASSUME IInv, NEW r \in Runners, Seed(r)
    PROVE  /\ run[r].pc = "seed" /\ UNCHANGED <<memory, ckpt>>
           /\ \/ run'[r] = NotRunning /\ graphs # <<>> /\ graphs' = graphs
              \/ /\ graphs = <<>> /\ run'[r].pc = "memory"
                 /\ graphs' = <<[digest |-> run[r].graph_ref, iteration |-> 0, decision |-> None]>>
                 /\ SameRound(r) /\ run'[r].rec = run[r].rec
<1> DEFINE s == [run[r] EXCEPT !.pc = "memory"]
<1>1. run[r] \in RunState
  BY StateOf
<1>2. /\ s.pc = "memory" /\ s.graph_ref = run[r].graph_ref /\ s.mem = run[r].mem
      /\ s.k = run[r].k /\ s.streak = run[r].streak /\ s.rec = run[r].rec
  BY <1>1 DEF RunState
<1>3. graphs = <<>> => run'[r] = s
  BY DEF Seed, IInv
<1> HIDE DEF s
<1> QED
  BY <1>2, <1>3, LeaveEffect DEF Seed, SameRound

LEMMA LoadMemoryEffect ==
    ASSUME IInv, NEW r \in Runners, LoadMemory(r)
    PROVE  /\ run[r].pc = "memory" /\ UNCHANGED <<graphs, memory, ckpt>>
           /\ run'[r].pc = "checkpoint" /\ run'[r].mem = memory
           /\ run'[r].k = Len(memory) + 1 /\ run'[r].graph_ref = run[r].graph_ref
           /\ run'[r].rec = run[r].rec /\ run'[r].streak = run[r].streak
<1> DEFINE start == LastIteration(memory) + 1
           s == [run[r] EXCEPT !.pc = "checkpoint", !.mem = memory, !.k = start,
                               !.last = start + MaxRounds - 1]
<1>1. run[r] \in RunState
  BY StateOf
<1>2. run'[r] = s
  BY DEF LoadMemory, IInv
<1>3. start = Len(memory) + 1
  BY LastIterationIsLen DEF IInv
<1> HIDE DEF start
<1>4. /\ s.pc = "checkpoint" /\ s.mem = memory /\ s.k = start /\ s.rec = run[r].rec
      /\ s.graph_ref = run[r].graph_ref /\ s.streak = run[r].streak
  BY <1>1 DEF RunState
<1> HIDE DEF s
<1> QED
  BY <1>2, <1>3, <1>4 DEF LoadMemory

LEMMA LoadCheckpointEffect ==
    ASSUME IInv, NEW r \in Runners, LoadCheckpoint(r)
    PROVE  LET p == ckpt[run[r].k]
           IN  /\ run[r].pc = "checkpoint" /\ run[r].k \in Iterations
               /\ UNCHANGED <<graphs, memory, ckpt>>
               /\ \/ run'[r] = NotRunning
                  \/ /\ ~ Pending(p) /\ run'[r].pc = "baseline"
                     /\ SameRound(r) /\ run'[r].rec = run[r].rec
                  \/ /\ Pending(p) /\ ~ LandedAs(p, p.host, run[r].graph_ref)
                     /\ run'[r].pc = "baseline" /\ SameRound(r) /\ run'[r].rec = p
                  \/ /\ Pending(p) /\ LandedAs(p, p.host, run[r].graph_ref)
                     /\ run'[r].pc = "begin" /\ SameRound(r) /\ run'[r].rec = p
                     /\ run'[r].best = p.evaluation
<1> DEFINE p == ckpt[run[r].k]
           s == [run[r] EXCEPT !.pc = "baseline"]
           t == [run[r] EXCEPT !.pc = "baseline", !.rec = p]
           u == [run[r] EXCEPT !.pc = "begin", !.rec = p, !.best = p.evaluation]
<1>1. run[r] \in RunState
  BY StateOf
<1>2. /\ s.pc = "baseline" /\ s.graph_ref = run[r].graph_ref /\ s.mem = run[r].mem
      /\ s.k = run[r].k /\ s.streak = run[r].streak /\ s.rec = run[r].rec
  BY <1>1 DEF RunState
<1>3. /\ t.pc = "baseline" /\ t.graph_ref = run[r].graph_ref /\ t.mem = run[r].mem
      /\ t.k = run[r].k /\ t.streak = run[r].streak /\ t.rec = p
  BY <1>1 DEF RunState
<1>4. /\ u.pc = "begin" /\ u.graph_ref = run[r].graph_ref /\ u.mem = run[r].mem
      /\ u.k = run[r].k /\ u.streak = run[r].streak /\ u.rec = p /\ u.best = p.evaluation
  BY <1>1 DEF RunState
<1>5. \/ run'[r] = NotRunning
      \/ ~ Pending(p) /\ run'[r] = s
      \/ Pending(p) /\ ~ LandedAs(p, p.host, run[r].graph_ref) /\ run'[r] = t
      \/ Pending(p) /\ LandedAs(p, p.host, run[r].graph_ref) /\ run'[r] = u
  BY LeaveEffect DEF LoadCheckpoint, IInv
<1> HIDE DEF s, t, u, p
<1>6. run[r].pc = "checkpoint" /\ run[r].k \in Iterations /\ UNCHANGED <<graphs, memory, ckpt>>
  BY DEF LoadCheckpoint
<1>7. \/ run'[r] = NotRunning
      \/ /\ ~ Pending(p) /\ run'[r].pc = "baseline"
         /\ SameRound(r) /\ run'[r].rec = run[r].rec
      \/ /\ Pending(p) /\ ~ LandedAs(p, p.host, run[r].graph_ref)
         /\ run'[r].pc = "baseline" /\ SameRound(r) /\ run'[r].rec = p
      \/ /\ Pending(p) /\ LandedAs(p, p.host, run[r].graph_ref)
         /\ run'[r].pc = "begin" /\ SameRound(r) /\ run'[r].rec = p
         /\ run'[r].best = p.evaluation
  BY <1>2, <1>3, <1>4, <1>5 DEF SameRound
<1> QED
  BY <1>6, <1>7 DEF p

LEMMA BaselineEffect ==
    ASSUME IInv, NEW r \in Runners, Baseline(r)
    PROVE  /\ run[r].pc = "baseline" /\ UNCHANGED <<graphs, memory, ckpt>>
           /\ \/ run'[r] = NotRunning
              \/ /\ run'[r].pc = "begin" /\ run'[r].best.ref = run[r].graph_ref
                 /\ SameRound(r) /\ run'[r].rec = run[r].rec
<1>1. run[r] \in RunState
  BY StateOf
<1>2. CASE Leave(r)
  BY <1>2, LeaveEffect DEF Baseline
<1>3. CASE ~ Leave(r)
  <2>1. PICK score : run' = [run EXCEPT ![r].pc = "begin",
                                        ![r].best = [ref |-> run[r].graph_ref, score |-> score]]
    BY <1>3 DEF Baseline
  <2> DEFINE s == [run[r] EXCEPT !.pc = "begin",
                                 !.best = [ref |-> run[r].graph_ref, score |-> score]]
  <2>2. run'[r] = s
    BY <2>1 DEF IInv
  <2>3. /\ s.pc = "begin" /\ s.graph_ref = run[r].graph_ref /\ s.mem = run[r].mem
        /\ s.k = run[r].k /\ s.streak = run[r].streak /\ s.rec = run[r].rec
        /\ s.best.ref = run[r].graph_ref
    BY <1>1 DEF RunState
  <2> HIDE DEF s
  <2> QED
    BY <2>2, <2>3 DEF Baseline, SameRound
<1> QED
  BY <1>2, <1>3

LEMMA BeginRoundEffect ==
    ASSUME IInv, NEW r \in Runners, BeginRound(r)
    PROVE  /\ run[r].pc = "begin" /\ run[r].k \in Iterations
           /\ UNCHANGED <<graphs, memory, ckpt>>
           /\ \/ run[r].rec = None /\ run'[r].pc = "refine"
              \/ run[r].rec # None /\ run'[r].pc = "propose"
           /\ SameRound(r) /\ run'[r].rec = run[r].rec /\ run'[r].best = run[r].best
<1> DEFINE c == IF run[r].rec = None THEN None ELSE run[r].rec.candidate
           pc == IF run[r].rec = None THEN "refine" ELSE "propose"
           s == [run[r] EXCEPT !.pc = pc, !.outcome = None, !.evaluation = None,
                               !.decision = None, !.decision_stop = FALSE, !.digest = c,
                               !.retained = run[r].best.score]
<1>1. run[r] \in RunState
  BY StateOf
<1>2. run'[r] = s
  BY DEF BeginRound, IInv
<1>3. (run[r].rec = None /\ pc = "refine") \/ (run[r].rec # None /\ pc = "propose")
  OBVIOUS
<1> HIDE DEF c, pc
<1>4. /\ s.pc = pc /\ s.graph_ref = run[r].graph_ref /\ s.mem = run[r].mem
      /\ s.k = run[r].k /\ s.streak = run[r].streak /\ s.rec = run[r].rec
      /\ s.best = run[r].best
  BY <1>1 DEF RunState
<1> HIDE DEF s
<1> QED
  BY <1>2, <1>3, <1>4 DEF BeginRound, SameRound

LEMMA RefineEffect ==
    ASSUME IInv, NEW r \in Runners, Refine(r)
    PROVE  /\ run[r].pc = "refine" /\ UNCHANGED <<graphs, memory>>
           /\ run'[r].pc = "propose" /\ SameRound(r) /\ run'[r].best = run[r].best
           /\ run'[r].rec \in Payload /\ ckpt' = Saved(run[r].k, run'[r].rec)
           /\ run'[r].rec.graph_ref = run[r].graph_ref
           /\ run'[r].rec.evaluation = None
<1>1. run[r] \in RunState /\ run[r].graph_ref \in Graphs /\ run[r].binding \in Bindings
  BY StateOf DEF LocalsInOrder, Refine
<1>2. PICK edits \in EditKinds, candidate \in Graphs \cup {None} :
         LET p == Refined(edits, candidate, run[r].graph_ref, run[r].binding)
         IN  /\ ckpt' = Saved(run[r].k, p)
             /\ run' = [run EXCEPT ![r].pc = "propose", ![r].rec = p, ![r].digest = candidate]
  BY DEF Refine
<1> DEFINE p == Refined(edits, candidate, run[r].graph_ref, run[r].binding)
           s == [run[r] EXCEPT !.pc = "propose", !.rec = p, !.digest = candidate]
<1>3. run'[r] = s /\ ckpt' = Saved(run[r].k, p)
  BY <1>2 DEF IInv
<1>4. p \in Payload /\ p.graph_ref = run[r].graph_ref /\ p.evaluation = None
  BY <1>1 DEF Refined, Payload
<1> HIDE DEF p
<1>5. /\ s.pc = "propose" /\ s.graph_ref = run[r].graph_ref /\ s.mem = run[r].mem
      /\ s.k = run[r].k /\ s.streak = run[r].streak /\ s.rec = p /\ s.best = run[r].best
  BY <1>1 DEF RunState
<1> HIDE DEF s
<1> QED
  BY <1>3, <1>4, <1>5 DEF Refine, SameRound

LEMMA SettleEffect ==
    ASSUME IInv, NEW r \in Runners, NEW outcome, NEW digest, Settle(r, outcome, digest)
    PROVE  /\ UNCHANGED <<graphs, memory, ckpt>>
           /\ run'[r].pc = "record" /\ run'[r].outcome = outcome /\ run'[r].digest = digest
           /\ SameRound(r) /\ run'[r].rec = run[r].rec /\ run'[r].best = run[r].best
           /\ run'[r].decision = run[r].decision
<1> DEFINE s == [run[r] EXCEPT !.pc = "record", !.outcome = outcome, !.digest = digest]
<1>1. run[r] \in RunState
  BY StateOf
<1>2. run'[r] = s
  BY DEF Settle, IInv
<1>3. /\ s.pc = "record" /\ s.outcome = outcome /\ s.digest = digest
      /\ s.graph_ref = run[r].graph_ref /\ s.mem = run[r].mem
      /\ s.k = run[r].k /\ s.streak = run[r].streak /\ s.rec = run[r].rec
      /\ s.best = run[r].best /\ s.decision = run[r].decision
  BY <1>1 DEF RunState
<1> HIDE DEF s
<1> QED
  BY <1>2, <1>3 DEF Settle, SameRound

LEMMA AlreadyAcceptedEffect ==
    ASSUME IInv, NEW r \in Runners, AlreadyAccepted(r)
    PROVE  /\ run[r].pc = "propose" /\ Landed(r)
           /\ UNCHANGED <<graphs, memory, ckpt>>
           /\ run'[r].pc = "record" /\ run'[r].outcome = "accepted"
           /\ run'[r].digest = Hosted(r) /\ run'[r].decision = run[r].rec.decision
           /\ SameRound(r) /\ run'[r].rec = run[r].rec
           /\ run'[r].best = run[r].rec.evaluation
<1> DEFINE s == [run[r] EXCEPT !.pc = "record", !.outcome = "accepted", !.digest = Hosted(r),
                               !.evaluation = run[r].rec.evaluation,
                               !.best = run[r].rec.evaluation,
                               !.decision = run[r].rec.decision,
                               !.retained = run[r].rec.baseline.score]
<1>1. run[r] \in RunState
  BY StateOf
<1>2. run'[r] = s
  BY DEF AlreadyAccepted, IInv
<1>3. /\ s.pc = "record" /\ s.outcome = "accepted" /\ s.digest = Hosted(r)
      /\ s.graph_ref = run[r].graph_ref /\ s.mem = run[r].mem
      /\ s.k = run[r].k /\ s.streak = run[r].streak /\ s.rec = run[r].rec
      /\ s.best = run[r].rec.evaluation /\ s.decision = run[r].rec.decision
  BY <1>1 DEF RunState
<1> HIDE DEF s
<1> QED
  BY <1>2, <1>3 DEF AlreadyAccepted, Proposed, SameRound

LEMMA NovelEffect ==
    ASSUME IInv, NEW r \in Runners, Novel(r)
    PROVE  /\ run[r].pc = "propose" /\ UNCHANGED <<graphs, memory, ckpt>>
           /\ run'[r].pc = "validate" /\ run'[r].digest = Hosted(r)
           /\ SameRound(r) /\ run'[r].rec = run[r].rec /\ run'[r].best = run[r].best
<1> DEFINE s == [run[r] EXCEPT !.pc = "validate", !.digest = Hosted(r)]
<1>1. run[r] \in RunState
  BY StateOf
<1>2. run'[r] = s
  BY DEF Novel, IInv
<1>3. /\ s.pc = "validate" /\ s.digest = Hosted(r)
      /\ s.graph_ref = run[r].graph_ref /\ s.mem = run[r].mem
      /\ s.k = run[r].k /\ s.streak = run[r].streak /\ s.rec = run[r].rec
      /\ s.best = run[r].best
  BY <1>1 DEF RunState
<1> HIDE DEF s
<1> QED
  BY <1>2, <1>3 DEF Novel, Proposed, SameRound

LEMMA ReuseEffect ==
    ASSUME IInv, NEW r \in Runners, Reuse(r)
    PROVE  /\ run[r].pc = "validate" /\ run[r].rec.evaluation # None
           /\ UNCHANGED <<graphs, memory, ckpt>>
           /\ run'[r].pc = "decide" /\ run'[r].evaluation = run[r].rec.evaluation
           /\ run'[r].best = run[r].rec.baseline /\ run'[r].digest = run[r].digest
           /\ SameRound(r) /\ run'[r].rec = run[r].rec
<1> DEFINE s == [run[r] EXCEPT !.pc = "decide", !.evaluation = run[r].rec.evaluation,
                               !.best = run[r].rec.baseline,
                               !.retained = run[r].rec.baseline.score]
<1>1. run[r] \in RunState
  BY StateOf
<1>2. run'[r] = s
  BY DEF Reuse, IInv
<1>3. /\ s.pc = "decide" /\ s.evaluation = run[r].rec.evaluation
      /\ s.best = run[r].rec.baseline /\ s.digest = run[r].digest
      /\ s.graph_ref = run[r].graph_ref /\ s.mem = run[r].mem
      /\ s.k = run[r].k /\ s.streak = run[r].streak /\ s.rec = run[r].rec
  BY <1>1 DEF RunState
<1> HIDE DEF s
<1> QED
  BY <1>2, <1>3 DEF Reuse, SameRound

LEMMA ValidateEffect ==
    ASSUME IInv, NEW r \in Runners, Validate(r)
    PROVE  /\ run[r].pc = "validate" /\ run[r].rec.evaluation = None
           /\ UNCHANGED <<graphs, memory>>
           /\ run'[r].pc = "decide" /\ run'[r].digest = run[r].digest
           /\ run'[r].best = run[r].best /\ SameRound(r)
           /\ run'[r].rec \in Payload /\ ckpt' = Saved(run[r].k, run'[r].rec)
           /\ run'[r].rec.graph_ref = run[r].rec.graph_ref
           /\ run'[r].rec.decision = run[r].rec.decision
           /\ run'[r].rec.host = run[r].digest
           /\ run'[r].rec.baseline = run[r].best
<1>1. /\ run[r] \in RunState /\ LocalsInOrder(run[r])
      /\ run[r].rec \in Payload /\ run[r].best \in Evaluation /\ run[r].digest \in Graphs
  BY StateOf DEF Validate, LocalsInOrder, InRound, GoodPayload
<1>2. PICK score \in ScoresOf[run[r].digest] :
         LET e == [ref |-> run[r].digest, score |-> score]
             p == [run[r].rec EXCEPT !.host = run[r].digest, !.evaluation = e,
                                     !.baseline = run[r].best]
         IN  /\ ckpt' = Saved(run[r].k, p)
             /\ run' = [run EXCEPT ![r].pc = "decide", ![r].evaluation = e, ![r].rec = p]
  BY DEF Validate
<1> DEFINE e == [ref |-> run[r].digest, score |-> score]
           p == [run[r].rec EXCEPT !.host = run[r].digest, !.evaluation = e,
                                   !.baseline = run[r].best]
           s == [run[r] EXCEPT !.pc = "decide", !.evaluation = e, !.rec = p]
<1>3. run'[r] = s /\ ckpt' = Saved(run[r].k, p)
  BY <1>2 DEF IInv
<1>4. e \in Evaluation
  BY <1>1 DEF Evaluation
<1> HIDE DEF e
<1>5. /\ p \in Payload /\ p.graph_ref = run[r].rec.graph_ref
      /\ p.decision = run[r].rec.decision /\ p.host = run[r].digest
      /\ p.baseline = run[r].best
  BY <1>1, <1>4 DEF Payload
<1> HIDE DEF p
<1>6. /\ s.pc = "decide" /\ s.best = run[r].best /\ s.digest = run[r].digest
      /\ s.graph_ref = run[r].graph_ref /\ s.mem = run[r].mem
      /\ s.k = run[r].k /\ s.streak = run[r].streak /\ s.rec = p
  BY <1>1 DEF RunState
<1> HIDE DEF s
<1> QED
  BY <1>3, <1>5, <1>6 DEF Validate, SameRound

LEMMA DecideEffect ==
    ASSUME IInv, NEW r \in Runners, Decide(r)
    PROVE  /\ run[r].pc = "decide" /\ UNCHANGED <<graphs, memory>>
           /\ \/ run'[r].decision.accepted /\ run'[r].pc = "accept"
                 /\ run'[r].outcome = "accepted"
              \/ ~ run'[r].decision.accepted /\ run'[r].pc = "record"
                 /\ run'[r].outcome = "rejected"
           /\ SameRound(r) /\ run'[r].rec = run[r].rec /\ run'[r].best = run[r].best
           /\ run'[r].digest = run[r].digest /\ run'[r].evaluation = run[r].evaluation
           /\ run'[r].decision \in Decision
           /\ \/ /\ run[r].rec.decision # None /\ ckpt' = ckpt
                 /\ run'[r].decision = run[r].rec.decision
              \/ /\ run[r].rec.decision = None
                 /\ run'[r].decision \in
                        Decisions(run[r].best, run[r].evaluation, run[r].binding)
                 /\ ckpt' = Saved(run[r].k, [run[r].rec EXCEPT !.decision = run'[r].decision])
<1>1. /\ run[r] \in RunState /\ LocalsInOrder(run[r]) /\ run[r].pc = "decide"
      /\ run[r].rec \in Payload
  BY StateOf DEF Decide, LocalsInOrder, GoodPayload
<1>2. \E d \in Decision :
         /\ Decided(r, d, run[r].rec)
         /\ \/ run[r].rec.decision # None /\ ckpt' = ckpt /\ d = run[r].rec.decision
            \/ /\ run[r].rec.decision = None
               /\ d \in Decisions(run[r].best, run[r].evaluation, run[r].binding)
               /\ ckpt' = Saved(run[r].k, [run[r].rec EXCEPT !.decision = d])
  <2>1. CASE run[r].rec.decision # None
    <3>1. run[r].rec.decision \in Decision
      BY <1>1, <2>1 DEF Payload
    <3> QED
      BY <2>1, <3>1 DEF Decide
  <2>2. CASE run[r].rec.decision = None
    <3>1. PICK d \in Decisions(run[r].best, run[r].evaluation, run[r].binding) :
              /\ ckpt' = Saved(run[r].k, [run[r].rec EXCEPT !.decision = d])
              /\ Decided(r, d, run[r].rec)
      BY <2>2 DEF Decide
    <3>2. d \in Decision
      BY <1>1, DecisionsType DEF LocalsInOrder, InRound
    <3> QED
      BY <2>2, <3>1, <3>2
  <2> QED
    BY <2>1, <2>2
<1>3. PICK d \in Decision :
         /\ Decided(r, d, run[r].rec)
         /\ \/ run[r].rec.decision # None /\ ckpt' = ckpt /\ d = run[r].rec.decision
            \/ /\ run[r].rec.decision = None
               /\ d \in Decisions(run[r].best, run[r].evaluation, run[r].binding)
               /\ ckpt' = Saved(run[r].k, [run[r].rec EXCEPT !.decision = d])
  BY <1>2
<1> DEFINE pc == IF d.accepted THEN "accept" ELSE "record"
           outcome == IF d.accepted THEN "accepted" ELSE "rejected"
           s == [run[r] EXCEPT !.pc = pc, !.decision = d, !.decision_stop = d.stop,
                               !.outcome = outcome]
<1>4. run'[r] = s
  BY <1>1, <1>3 DEF Decided, IInv, RunState
<1>5. \/ d.accepted /\ pc = "accept" /\ outcome = "accepted"
      \/ ~ d.accepted /\ pc = "record" /\ outcome = "rejected"
  BY DEF Decision
<1> HIDE DEF pc, outcome
<1>6. /\ s.pc = pc /\ s.outcome = outcome /\ s.decision = d /\ s.best = run[r].best
      /\ s.digest = run[r].digest /\ s.evaluation = run[r].evaluation
      /\ s.graph_ref = run[r].graph_ref /\ s.mem = run[r].mem
      /\ s.k = run[r].k /\ s.streak = run[r].streak /\ s.rec = run[r].rec
  BY <1>1 DEF RunState
<1> HIDE DEF s
<1>7. run'[r].decision = d
  BY <1>4, <1>6
<1>8. UNCHANGED <<graphs, memory>>
  BY DEF Decide
<1>9. \/ run'[r].decision.accepted /\ run'[r].pc = "accept" /\ run'[r].outcome = "accepted"
      \/ ~ run'[r].decision.accepted /\ run'[r].pc = "record" /\ run'[r].outcome = "rejected"
  BY <1>4, <1>5, <1>6
<1> QED
  BY <1>1, <1>3, <1>4, <1>6, <1>7, <1>8, <1>9 DEF SameRound

LEMMA AcceptEffect ==
    ASSUME IInv, NEW r \in Runners, Accept(r)
    PROVE  /\ run[r].pc = "accept" /\ UNCHANGED <<memory, ckpt>>
           /\ \/ run'[r] = NotRunning /\ graphs' = graphs /\ ~ HeadIs(run[r].graph_ref)
              \/ /\ HeadIs(run[r].graph_ref)
                 /\ graphs' = Append(graphs, [digest |-> run[r].digest, iteration |-> run[r].k,
                                              decision |-> run[r].decision])
                 /\ run'[r].pc = "record" /\ run'[r].graph_ref = run[r].digest
                 /\ run'[r].best = run[r].evaluation
                 /\ run'[r].mem = run[r].mem /\ run'[r].k = run[r].k
                 /\ run'[r].streak = run[r].streak /\ run'[r].rec = run[r].rec
                 /\ run'[r].outcome = run[r].outcome /\ run'[r].digest = run[r].digest
                 /\ run'[r].decision = run[r].decision
<1> DEFINE s == [run[r] EXCEPT !.pc = "record", !.graph_ref = run[r].digest,
                               !.best = run[r].evaluation]
<1>1. run[r] \in RunState
  BY StateOf
<1>2. HeadIs(run[r].graph_ref) => run'[r] = s
  BY DEF Accept, IInv
<1>3. /\ s.pc = "record" /\ s.graph_ref = run[r].digest /\ s.best = run[r].evaluation
      /\ s.mem = run[r].mem /\ s.k = run[r].k /\ s.streak = run[r].streak
      /\ s.rec = run[r].rec /\ s.outcome = run[r].outcome /\ s.digest = run[r].digest
      /\ s.decision = run[r].decision
  BY <1>1 DEF RunState
<1> HIDE DEF s
<1> QED
  BY <1>2, <1>3, LeaveEffect DEF Accept

LEMMA RecordEffect ==
    ASSUME IInv, NEW r \in Runners, Record(r)
    PROVE  /\ run[r].pc = "record" /\ UNCHANGED <<graphs, ckpt>>
           /\ \/ run'[r] = NotRunning /\ memory' = memory /\ memory # run[r].mem
              \/ /\ memory = run[r].mem /\ memory' = Append(memory, NewEntry(r))
                 /\ run'[r].pc = "complete" /\ run'[r].mem = memory'
                 /\ run'[r].graph_ref = run[r].graph_ref /\ run'[r].best = run[r].best
                 /\ run'[r].k = run[r].k /\ run'[r].streak = run[r].streak
                 /\ run'[r].rec = None /\ run'[r].outcome = run[r].outcome
<1> DEFINE mem == Append(run[r].mem, NewEntry(r))
           s == [run[r] EXCEPT !.pc = "complete", !.mem = mem, !.rec = None, !.digest = None,
                               !.evaluation = None, !.retained = None]
<1>1. run[r] \in RunState
  BY StateOf
<1>2. MemoryIs(run[r].mem) => run'[r] = s /\ memory' = mem
  BY DEF Record, IInv
<1>3. mem = Append(run[r].mem, NewEntry(r))
  OBVIOUS
<1> HIDE DEF mem
<1>4. /\ s.pc = "complete" /\ s.mem = mem /\ s.graph_ref = run[r].graph_ref
      /\ s.best = run[r].best /\ s.k = run[r].k /\ s.streak = run[r].streak
      /\ s.rec = None /\ s.outcome = run[r].outcome
  BY <1>1 DEF RunState
<1> HIDE DEF s
<1> QED
  BY <1>2, <1>3, <1>4, LeaveEffect DEF Record, MemoryIs

LEMMA CompleteEffect ==
    ASSUME IInv, NEW r \in Runners, Complete(r)
    PROVE  /\ run[r].pc = "complete" /\ UNCHANGED <<graphs, memory>>
           /\ ckpt' = Saved(run[r].k, Completed)
           /\ run'[r].pc = "end" /\ SameRound(r) /\ run'[r].rec = run[r].rec
           /\ run'[r].best = run[r].best /\ run'[r].outcome = run[r].outcome
<1> DEFINE s == [run[r] EXCEPT !.pc = "end"]
<1>1. run[r] \in RunState
  BY StateOf
<1>2. run'[r] = s
  BY DEF Complete, IInv
<1>3. /\ s.pc = "end" /\ s.graph_ref = run[r].graph_ref /\ s.mem = run[r].mem
      /\ s.k = run[r].k /\ s.streak = run[r].streak /\ s.rec = run[r].rec
      /\ s.best = run[r].best /\ s.outcome = run[r].outcome
  BY <1>1 DEF RunState
<1> HIDE DEF s
<1> QED
  BY <1>2, <1>3 DEF Complete, SameRound

LEMMA EndRoundEffect ==
    ASSUME IInv, NEW r \in Runners, EndRound(r)
    PROVE  /\ run[r].pc = "end" /\ UNCHANGED <<graphs, memory, ckpt>>
           /\ \/ run'[r] = NotRunning
              \/ /\ run'[r].pc = "begin" /\ run'[r].k = run[r].k + 1
                 /\ run'[r].streak = Streak(r)
                 /\ run'[r].graph_ref = run[r].graph_ref /\ run'[r].mem = run[r].mem
                 /\ run'[r].rec = run[r].rec /\ run'[r].best = run[r].best
<1> DEFINE s == [run[r] EXCEPT !.pc = "begin", !.k = run[r].k + 1, !.streak = Streak(r)]
<1>1. run[r] \in RunState
  BY StateOf
<1>2. ~ Stops(r) => run'[r] = s
  BY DEF EndRound, IInv
<1>3. /\ s.pc = "begin" /\ s.k = run[r].k + 1 /\ s.streak = Streak(r)
      /\ s.graph_ref = run[r].graph_ref /\ s.mem = run[r].mem /\ s.rec = run[r].rec
      /\ s.best = run[r].best
  BY <1>1 DEF RunState
<1> HIDE DEF s
<1> QED
  BY <1>2, <1>3, LeaveEffect DEF EndRound

LEMMA StopEffect ==
    ASSUME IInv, NEW r \in Runners, Stop(r)
    PROVE  run'[r] = NotRunning /\ UNCHANGED <<graphs, memory, ckpt>>
  BY LeaveEffect DEF Stop, Exhaust, Crash

-----------------------------------------------------------------------------
(* Scores along the graph chain.                                           *)

\* An evaluator that repeats itself.
Repeatable == \A g \in Graphs : \E score \in Scores : ScoresOf[g] = {score}

\* The control of an acceptance is the graph it replaces.
ControlIsHead == \A r \in Runners : run[r].pc = "accept" => run[r].best.ref = run[r].graph_ref

\* An accepted graph scores at least as high as the head it was compared with, and so as
\* every graph before it.
LEMMA AcceptRises ==
    ASSUME HInv, Repeatable, NoRegression, ControlIsHead,
           NEW r \in Runners, Accept(r), graphs # <<>>
    PROVE  NoRegression'
<1>1. CASE HeadIs(run[r].graph_ref)
  <2> DEFINE v == [digest |-> run[r].digest, iteration |-> run[r].k, decision |-> run[r].decision]
             n == Len(graphs)
  <2>1. graphs' = Append(graphs, v) /\ run[r].pc = "accept"
    BY <1>1 DEF Accept
  <2>2. /\ run[r] \in RunState /\ LocalsInOrder(run[r]) /\ LocalsTraced(run[r])
        /\ run[r].best \in Evaluation /\ run[r].evaluation \in Evaluation
    BY <2>1, TraceOf DEF LocalsInOrder, InRound
  <2>3. /\ run[r].decision.accepted
        /\ run[r].decision.baseline = run[r].best
        /\ run[r].decision.candidate = run[r].evaluation
        /\ Verdict(run[r].decision)
        /\ run[r].evaluation.ref = run[r].digest
        /\ Measured(run[r].evaluation) /\ Measured(run[r].best)
    BY <2>1, <2>2 DEF LocalsTraced, DecidedOn, InRound
  <2>4. run[r].best.score \in Int /\ run[r].evaluation.score \in Int
    BY <2>2 DEF Evaluation
  <2>5. Gate # "custom" => run[r].evaluation.score >= run[r].best.score
    BY <2>3, <2>4 DEF Verdict
  <2>6. graphs \in Seq(Revision) /\ n \in Nat /\ n >= 1
    BY DEF HInv, IInv
  <2>7. graphs[n].digest = run[r].best.ref /\ graphs[n].digest \in Graphs
    <3>1. graphs[n].digest = run[r].best.ref
      BY <1>1, <2>1 DEF HeadIs, HeadRef, ControlIsHead
    <3>2. graphs[n] \in Revision
      BY <2>6
    <3> QED
      BY <3>1, <3>2 DEF Revision
  <2>8. v.digest = run[r].digest
    OBVIOUS
  <2> HIDE DEF v
  <2>9. /\ Len(graphs') = n + 1 /\ graphs'[n + 1] = v
        /\ \A i \in 1 .. n : graphs'[i] = graphs[i]
    BY <2>1, <2>6
  <2>10. ASSUME NEW i \in 1 .. n, Gate # "custom"
         PROVE  \E a \in ScoresOf[graphs[i].digest] : a <= run[r].best.score
    <3>1. CASE i = n
      <4>1. run[r].best.score \in ScoresOf[graphs[i].digest]
        BY <2>3, <2>7, <3>1 DEF Measured
      <4> QED
        BY <2>4, <4>1
    <3>2. CASE i # n
      <4>1. PICK a \in ScoresOf[graphs[i].digest], b \in ScoresOf[graphs[n].digest] : a <= b
        BY <2>6, <2>10, <3>2 DEF NoRegression
      <4>2. b = run[r].best.score
        BY <2>3, <2>7, <4>1 DEF Measured, Repeatable
      <4> QED
        BY <4>1, <4>2
    <3> QED
      BY <3>1, <3>2
  <2>11. ASSUME NEW i \in 1 .. n + 1, NEW j \in 1 .. n + 1, i < j, Gate # "custom"
         PROVE  \E a \in ScoresOf[graphs'[i].digest], b \in ScoresOf[graphs'[j].digest] : a <= b
    <3>1. i \in 1 .. n /\ graphs'[i] = graphs[i]
      BY <2>6, <2>9, <2>11
    <3>2. CASE j = n + 1
      <4>1. PICK a \in ScoresOf[graphs[i].digest] : a <= run[r].best.score
        BY <2>10, <2>11, <3>1
      <4>2. run[r].evaluation.score \in ScoresOf[graphs'[j].digest]
        BY <2>3, <2>8, <2>9, <3>2 DEF Measured
      <4>3. a \in Int
        <5>1. graphs[i].digest \in Graphs
          <6>1. graphs[i] \in Revision
            BY <2>6, <3>1
          <6> QED
            BY <6>1 DEF Revision
        <5>2. ScoresOf[graphs[i].digest] \subseteq Scores
          BY <5>1
        <5> QED
          BY <4>1, <5>2
      <4>4. a <= run[r].evaluation.score
        BY <2>4, <2>5, <2>11, <4>1, <4>3
      <4> QED
        BY <3>1, <4>1, <4>2, <4>4
    <3>3. CASE j # n + 1
      <4>1. j \in 1 .. n /\ graphs'[j] = graphs[j]
        BY <2>6, <2>9, <3>3
      <4> QED
        BY <2>11, <3>1, <4>1 DEF NoRegression
    <3> QED
      BY <3>2, <3>3
  <2> QED
    BY <2>9, <2>11 DEF NoRegression
<1>2. CASE ~ HeadIs(run[r].graph_ref)
  BY <1>2 DEF Accept, NoRegression
<1> QED
  BY <1>1, <1>2

\* So scores never fall along the chain while acceptances are compared with the head.
LEMMA StepRises ==
    ASSUME HInv, Repeatable, NoRegression, ControlIsHead, [Next]_vars,
           \A r \in Runners : run[r].pc = "accept" => graphs # <<>>
    PROVE  NoRegression'
<1>1. CASE graphs' = graphs
  BY <1>1 DEF NoRegression
<1>2. ASSUME NEW r \in Runners, Accept(r)
      PROVE  NoRegression'
  BY <1>2, AcceptRises DEF Accept
<1>3. ASSUME NEW r \in Runners, Seed(r)
      PROVE  NoRegression'
  <2>1. graphs' = graphs \/ \E v : graphs' = <<v>>
    BY <1>3 DEF Seed
  <2>2. graphs' = graphs \/ Len(graphs') = 1
    BY <2>1
  <2>3. ASSUME Len(graphs') = 1, NEW i \in 1 .. Len(graphs'), NEW j \in 1 .. Len(graphs')
        PROVE  ~ (i < j)
    BY <2>3
  <2> QED
    BY <1>1, <2>2, <2>3 DEF NoRegression
<1>4. CASE Next
  <2>1. PICK r \in Runners : Start(r) \/ Advance(r) \/ Stop(r)
    BY <1>4 DEF Next
  <2>2. graphs' = graphs \/ Seed(r) \/ Accept(r)
    BY <2>1 DEF Start, Advance, Stop, LoadHead, LoadMemory, LoadCheckpoint, Baseline,
       BeginRound, Refine, Settle, NoCandidate, HostRefuses, AlreadyAccepted, Duplicate,
       Novel, Reuse, Validate, Decide, Record, Complete, EndRound, Exhaust, Crash
  <2> QED
    BY <1>1, <1>2, <1>3, <2>2
<1> QED
  BY <1>1, <1>4 DEF vars

\* No process gets past the load of the graph chain while it is empty.
HeadExists == \A r \in Runners : run[r].pc \notin {"idle", "seed"} => graphs # <<>>

\* Without a checkpoint store every process measures its own candidates: nothing is
\* resumed, and the retained evaluation is of the graph the process holds.
OwnMeasures(s) ==
    /\ s.pc \in Recordless \cup {"baseline", "begin"} => s.rec = None
    /\ s.pc \in {"propose", "validate"} => s.rec.evaluation = None
    /\ s.pc \in {"begin", "complete", "end"} \cup InRound => s.best.ref = s.graph_ref

\* The inductive invariant without a checkpoint store.
UnsavedInv ==
    /\ HInv
    /\ \A k \in Iterations : ckpt[k] = None
    /\ \A r \in Runners : OwnMeasures(run[r])
    /\ HeadExists
    /\ NoRegression

LEMMA HeadStays ==
    ASSUME IInv, HeadExists, [Next]_vars
    PROVE  HeadExists'
<1> SUFFICES ASSUME NEW q \in Runners, run'[q].pc \notin {"idle", "seed"}
             PROVE  graphs' # <<>>
  BY DEF HeadExists
<1>1. graphs # <<>> => graphs' # <<>>
  BY StepAppends DEF IInv
<1>2. CASE UNCHANGED vars
  BY <1>2 DEF vars, HeadExists
<1>3. CASE Next
  <2>1. PICK r \in Runners : Start(r) \/ Advance(r) \/ Stop(r)
    BY <1>3 DEF Next
  <2>2. CASE q # r
    BY <1>1, <2>1, <2>2, OthersStay DEF HeadExists
  <2>3. CASE q = r /\ Start(r)
    <3>1. PICK initial \in InitialGraphs, binding \in Bindings : LoadHead(r, initial, binding)
      BY <2>3 DEF Start
    <3> DEFINE g == IF initial = None THEN Skeleton ELSE initial
               s == [NotRunning EXCEPT !.pc = "seed", !.binding = binding, !.graph_ref = g]
    <3>2. graphs # <<>> \/ run' = [run EXCEPT ![r] = s]
      BY <3>1 DEF LoadHead
    <3>3. s.pc = "seed"
      BY DEF NotRunning
    <3> HIDE DEF s
    <3> QED
      BY <1>1, <2>3, <3>2, <3>3 DEF IInv
  <2>4. CASE Seed(r)
    BY <2>3, <2>4 DEF Seed, Leave, NotRunning, IInv
  <2>5. CASE run[r].pc \notin {"idle", "seed"}
    BY <1>1, <2>5 DEF HeadExists
  <2>6. CASE q = r /\ Stop(r)
    BY <2>6 DEF Stop, Exhaust, Crash, Leave, NotRunning, IInv
  <2>7. Advance(r) => Seed(r) \/ run[r].pc \notin {"idle", "seed"}
    <3>1. ASSUME \/ LoadMemory(r) \/ LoadCheckpoint(r) \/ Baseline(r)
                 \/ BeginRound(r) \/ Refine(r)
          PROVE  run[r].pc \notin {"idle", "seed"}
      BY <3>1 DEF LoadMemory, LoadCheckpoint, Baseline, BeginRound, Refine
    <3>2. ASSUME \/ NoCandidate(r) \/ HostRefuses(r) \/ AlreadyAccepted(r) \/ Duplicate(r)
                 \/ Novel(r)
          PROVE  run[r].pc \notin {"idle", "seed"}
      BY <3>2 DEF NoCandidate, HostRefuses, Proposed, AlreadyAccepted, Duplicate, Novel
    <3>3. ASSUME \/ Reuse(r) \/ Validate(r) \/ Decide(r) \/ Accept(r)
                 \/ Record(r) \/ Complete(r) \/ EndRound(r)
          PROVE  run[r].pc \notin {"idle", "seed"}
      BY <3>3 DEF Reuse, Validate, Decide, Accept, Record, Complete, EndRound
    <3> QED
      BY <3>1, <3>2, <3>3 DEF Advance
  <2> QED
    BY <2>1, <2>2, <2>3, <2>4, <2>5, <2>6, <2>7
<1> QED
  BY <1>2, <1>3

\* A process that resumes nothing keeps measuring its own candidates.
LEMMA OwnMeasuresKept ==
    ASSUME UnsavedInv, NEW r \in Runners, Start(r) \/ Advance(r) \/ Stop(r)
    PROVE  OwnMeasures(run'[r])
<1>1. /\ IInv /\ run[r] \in RunState /\ LocalsInOrder(run[r]) /\ LocalsTraced(run[r])
      /\ OwnMeasures(run[r])
  BY TraceOf DEF UnsavedInv, HInv
<1>2. run'[r] = NotRunning => OwnMeasures(run'[r])
  BY DEF OwnMeasures, NotRunning, Recordless, InRound
<1>3. CASE Start(r)
  BY <1>1, <1>2, <1>3, LoadHeadEffect DEF OwnMeasures, Recordless, InRound
<1>4. CASE Stop(r)
  BY <1>1, <1>2, <1>4, StopEffect
<1>5. CASE Seed(r) \/ LoadMemory(r)
  BY <1>1, <1>2, <1>5, SeedEffect, LoadMemoryEffect
     DEF OwnMeasures, SameRound, Recordless, InRound
<1>6. CASE LoadCheckpoint(r)
  <2>1. run[r].k \in Iterations => ~ Pending(ckpt[run[r].k])
    BY DEF UnsavedInv, Pending
  <2> QED
    BY <1>1, <1>2, <1>6, <2>1, LoadCheckpointEffect
       DEF OwnMeasures, SameRound, Recordless, InRound
<1>7. CASE Baseline(r) \/ BeginRound(r) \/ Refine(r)
  BY <1>1, <1>2, <1>7, BaselineEffect, BeginRoundEffect, RefineEffect
     DEF OwnMeasures, SameRound, Recordless, InRound
<1>8. CASE NoCandidate(r) \/ HostRefuses(r) \/ Duplicate(r)
  <2>1. run[r].pc = "propose" /\ \E outcome, digest : Settle(r, outcome, digest)
    BY <1>8 DEF NoCandidate, HostRefuses, Duplicate, Proposed
  <2>2. run'[r].pc = "record" /\ SameRound(r) /\ run'[r].best = run[r].best
    BY <1>1, <2>1, SettleEffect
  <2> QED
    BY <1>1, <2>1, <2>2 DEF OwnMeasures, SameRound, Recordless, InRound
<1>9. ASSUME AlreadyAccepted(r) \/ Reuse(r)
      PROVE  FALSE
  BY <1>1, <1>9, AlreadyAcceptedEffect, ReuseEffect DEF OwnMeasures, Landed, LandedAs
<1>10. CASE Novel(r) \/ Validate(r) \/ Decide(r)
  BY <1>1, <1>10, NovelEffect, ValidateEffect, DecideEffect
     DEF OwnMeasures, SameRound, Recordless, InRound
<1>11. CASE Accept(r)
  BY <1>1, <1>2, <1>11, AcceptEffect DEF LocalsTraced, OwnMeasures, Recordless, InRound
<1>12. CASE Record(r) \/ Complete(r) \/ EndRound(r)
  BY <1>1, <1>2, <1>12, RecordEffect, CompleteEffect, EndRoundEffect
     DEF OwnMeasures, SameRound, Recordless, InRound
<1> QED
  BY <1>3, <1>4, <1>5, <1>6, <1>7, <1>8, <1>9, <1>10, <1>11, <1>12 DEF Advance

LEMMA NextUnsaved ==
    ASSUME ~ Checkpointing, Repeatable, UnsavedInv, [Next]_vars
    PROVE  UnsavedInv'
<1>1. HInv /\ IInv /\ HInv' /\ HeadExists /\ HeadExists'
  BY NextHInv, HeadStays DEF UnsavedInv, HInv
<1>2. ckpt' = ckpt
  <2>1. CASE Next
    <3>1. PICK r \in Runners : Start(r) \/ Advance(r) \/ Stop(r)
      BY <2>1 DEF Next
    <3>2. CASE \/ Start(r) \/ Stop(r) \/ Seed(r) \/ LoadMemory(r) \/ LoadCheckpoint(r)
               \/ Baseline(r) \/ BeginRound(r)
      BY <3>2 DEF Start, Stop, LoadHead, Exhaust, Crash, Seed, LoadMemory, LoadCheckpoint,
                  Baseline, BeginRound
    <3>3. CASE \/ Refine(r) \/ Validate(r) \/ Decide(r) \/ Complete(r)
      BY <3>3 DEF Refine, Validate, Decide, Complete, Saved
    <3>4. CASE \/ NoCandidate(r) \/ HostRefuses(r) \/ AlreadyAccepted(r) \/ Duplicate(r)
               \/ Novel(r)
      BY <3>4 DEF Settle, NoCandidate, HostRefuses, AlreadyAccepted, Duplicate, Novel
    <3>5. CASE Reuse(r) \/ Accept(r) \/ Record(r) \/ EndRound(r)
      BY <3>5 DEF Reuse, Accept, Record, EndRound
    <3> QED
      BY <3>1, <3>2, <3>3, <3>4, <3>5 DEF Advance
  <2> QED
    BY <2>1 DEF vars
<1>3. ASSUME NEW q \in Runners
      PROVE  OwnMeasures(run'[q])
  <2>1. CASE Next
    <3>1. PICK r \in Runners : Start(r) \/ Advance(r) \/ Stop(r)
      BY <2>1 DEF Next
    <3> QED
      BY <1>1, <3>1, OthersStay, OwnMeasuresKept DEF UnsavedInv
  <2> QED
    BY <2>1 DEF vars, UnsavedInv
<1>4. NoRegression'
  <2>1. ControlIsHead
    BY DEF ControlIsHead, UnsavedInv, OwnMeasures, InRound
  <2>2. \A r \in Runners : run[r].pc = "accept" => graphs # <<>>
    BY <1>1 DEF HeadExists
  <2> QED
    BY <1>1, <2>1, <2>2, StepRises DEF UnsavedInv
<1> QED
  BY <1>1, <1>2, <1>3, <1>4 DEF UnsavedInv

\* Scores never fall along the graph chain when the evaluator repeats itself and no
\* checkpoint is kept (the default), for any number of processes: each one compares its
\* candidate with the head it holds, and accept() refuses a candidate whose head moved.
THEOREM ScoresNeverFall ==
    ASSUME ~ Checkpointing, Repeatable
    PROVE  Spec => []NoRegression
<1>1. Init => UnsavedInv
  <2> SUFFICES ASSUME Init
               PROVE  UnsavedInv
    OBVIOUS
  <2>1. HInv
    BY InitHInv
  <2>2. OwnMeasures(NotRunning)
    BY DEF OwnMeasures, NotRunning, Recordless, InRound
  <2>3. HeadExists
    BY DEF HeadExists, Init, NotRunning
  <2>4. NoRegression
    BY DEF NoRegression, Init
  <2> QED
    BY <2>1, <2>2, <2>3, <2>4 DEF UnsavedInv, Init
<1>2. UnsavedInv /\ [Next]_vars => UnsavedInv'
  BY NextUnsaved
<1>3. UnsavedInv => NoRegression
  BY DEF UnsavedInv
<1> QED
  BY <1>1, <1>2, <1>3, PTL DEF Spec

=============================================================================

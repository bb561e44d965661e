------------------------- MODULE EvolveRefinementProofs -------------------------
(***************************************************************************)
(* evolve() with one process at a time: what survives its interruptions,   *)
(* and that with a checkpoint store it implements Algorithm 1.             *)
(***************************************************************************)
EXTENDS EvolveRefinement, EvolveLoopProofs

\* The deployment EvolveRefinement is about: one process at a time.  A process may stop
\* anywhere and run evolve() again.
OneProcess == \E r : Runners = {r}

\* The `count` entries up to the last left the head alone.
Quiet(mem, count, last) ==
    /\ count <= last
    /\ \A i \in last - count + 1 .. last : mem[i].kind # "accepted"

\* The streak a process counts, against the memory it holds.
OwnStreak(s) ==
    /\ s.pc \in {"idle", "seed", "memory"} => s.streak = 0
    /\ s.pc \notin {"complete", "end"} => Quiet(s.mem, s.streak, Len(s.mem))
    /\ s.pc \in {"complete", "end"} => /\ Quiet(s.mem, s.streak, Len(s.mem) - 1)
                                       /\ s.outcome = s.mem[Len(s.mem)].kind

\* Nobody moves the chains under the only process: what it holds is what they are.
Abreast(s) ==
    /\ s.pc = "seed" => graphs = <<>>
    /\ s.pc \notin {"idle", "seed"} => graphs # <<>> /\ s.graph_ref = HeadRef
    /\ s.pc \notin {"idle", "seed", "memory"} => s.mem = memory

\* The inductive invariant of one process, with or without a checkpoint store.
AloneInv ==
    /\ HInv
    /\ \A r \in Runners : Abreast(run[r]) /\ OwnStreak(run[r])

\* A measured record: its candidate is another graph than the one the round started
\* from, which its control measured.
AgainstHead(p) ==
    p.evaluation # None => p.baseline.ref = p.graph_ref /\ p.host # p.graph_ref

\* The record of the round that moved the head.
MovedHead(p) ==
    /\ p.evaluation # None /\ p.decision # None /\ p.decision.accepted
    /\ p.decision = graphs[Len(graphs)].decision
    /\ p.host = HeadRef
    /\ p.graph_ref = graphs[Len(graphs) - 1].digest

\* The round that rejection memory is waiting for.
Awaited == Len(memory) + 1

\* The three chains against each other.
ChainsAgree ==
    /\ graphs = <<>> => memory = <<>> /\ \A k \in Iterations : ~ Unfinished(k)
    /\ graphs # <<>> => graphs[1].iteration = 0
    /\ HistoryAgrees
    /\ \A k \in Iterations : Unfinished(k) => AgainstHead(ckpt[k])
    /\ Unrecorded => /\ Len(graphs) >= 2 /\ Awaited \in Iterations
                     /\ Unfinished(Awaited) /\ MovedHead(ckpt[Awaited])
    /\ ~ Unrecorded /\ Awaited \in Iterations /\ Unfinished(Awaited)
         => ckpt[Awaited].graph_ref = HeadRef

\* What the outcome of a round stands for when its entry is about to be saved.
OutcomeTold(s) ==
    /\ s.outcome = "no_action" => s.digest = None
    /\ s.outcome = "duplicate_candidate" =>
         s.digest \in Graphs /\ Known(s.digest, s.graph_ref, s.mem)
    /\ s.outcome = "rejected" =>
         /\ s.decision \in Decision /\ ~ s.decision.accepted /\ Verdict(s.decision)
         /\ s.decision.baseline.ref = s.graph_ref
         /\ s.decision.candidate.ref = s.digest /\ s.digest # s.graph_ref
    /\ s.outcome = "accepted" =>
         /\ Unrecorded /\ s.digest = HeadRef /\ s.decision = graphs[Len(graphs)].decision

\* The only process against the chains: the record it holds is the stored one, it starts
\* no round that has a record, and a head without an entry is one it has just moved or is
\* about to account for.
Resumes(s) ==
    /\ Unrecorded => \/ s.pc \in {"idle", "memory", "checkpoint"}
                     \/ s.pc \in {"begin", "propose"} /\ s.rec # None
                     \/ s.pc = "record" /\ s.outcome = "accepted"
    /\ s.pc \in InRound => s.k \in Iterations
    /\ s.pc \in {"baseline", "begin", "propose", "validate", "decide"} /\ s.rec # None
         => s.k \in Iterations /\ s.rec = ckpt[s.k]
    /\ s.pc \in {"baseline", "begin", "refine"} /\ s.rec = None /\ s.k \in Iterations
         => ~ Unfinished(s.k)
    /\ s.pc \in {"complete", "end"} /\ s.k + 1 \in Iterations => ~ Unfinished(s.k + 1)
    /\ s.pc \in {"begin", "complete", "end"} \cup InRound => s.best.ref = s.graph_ref
    /\ s.pc = "validate" => s.digest # s.graph_ref
    /\ s.pc = "accept" =>
         /\ Unfinished(s.k) /\ ckpt[s.k].evaluation # None
         /\ ckpt[s.k].decision = s.decision /\ ckpt[s.k].host = s.digest
         /\ ckpt[s.k].graph_ref = s.graph_ref
    /\ s.pc = "record" => OutcomeTold(s)

\* The inductive invariant of one process with a checkpoint store.
ResumeInv ==
    /\ AloneInv
    /\ ChainsAgree
    /\ \A r \in Runners : Resumes(run[r])

USE ConstantsAssumption

-----------------------------------------------------------------------------
(* One process, with or without a checkpoint store.                        *)

\* The head of a chain that grew by one revision is that revision.
LEMMA HeadOfAppend ==
    ASSUME NEW gs \in Seq(Revision), NEW v
    PROVE  /\ Append(gs, v) # <<>> /\ Len(Append(gs, v)) = Len(gs) + 1
           /\ Append(gs, v)[Len(gs) + 1] = v
           /\ \A i \in 1 .. Len(gs) : Append(gs, v)[i] = gs[i]
  OBVIOUS

LEMMA QuietNone ==
    ASSUME NEW mem \in Seq(Entry)
    PROVE  Quiet(mem, 0, Len(mem))
  BY DEF Quiet

\* The process holds what the chains are.
LEMMA AbreastKept ==
    ASSUME AloneInv, NEW r \in Runners, Start(r) \/ Advance(r) \/ Stop(r)
    PROVE  Abreast(run[r])'
<1>1. IInv /\ Abreast(run[r]) /\ graphs \in Seq(Revision)
  BY DEF AloneInv, HInv, IInv
<1>2. run'[r] = NotRunning => Abreast(run[r])'
  BY DEF Abreast, NotRunning
<1>3. CASE Start(r)
  BY <1>1, <1>2, <1>3, LoadHeadEffect DEF Abreast, HeadRef
<1>4. CASE Stop(r)
  BY <1>1, <1>2, <1>4, StopEffect
<1>5. CASE Seed(r)
  <2>1. ASSUME NEW v, graphs' = <<v>>
        PROVE  graphs' # <<>> /\ graphs'[Len(graphs')] = v
    BY <2>1
  <2> QED
    BY <1>1, <1>2, <1>5, <2>1, SeedEffect DEF Abreast, HeadRef, SameRound
<1>6. CASE LoadMemory(r) \/ LoadCheckpoint(r)
  BY <1>1, <1>2, <1>6, LoadMemoryEffect, LoadCheckpointEffect DEF Abreast, HeadRef, SameRound
<1>7. CASE Baseline(r) \/ BeginRound(r) \/ Refine(r)
  BY <1>1, <1>2, <1>7, BaselineEffect, BeginRoundEffect, RefineEffect
     DEF Abreast, HeadRef, SameRound
<1>8. CASE NoCandidate(r) \/ HostRefuses(r) \/ Duplicate(r)
  <2>1. run[r].pc = "propose" /\ \E outcome, digest : Settle(r, outcome, digest)
    BY <1>8 DEF NoCandidate, HostRefuses, Duplicate, Proposed
  <2>2. run'[r].pc = "record" /\ SameRound(r) /\ UNCHANGED <<graphs, memory, ckpt>>
    BY <1>1, <2>1, SettleEffect
  <2> QED
    BY <1>1, <2>1, <2>2 DEF Abreast, HeadRef, SameRound
<1>9. CASE AlreadyAccepted(r) \/ Novel(r) \/ Reuse(r)
  BY <1>1, <1>9, AlreadyAcceptedEffect, NovelEffect, ReuseEffect DEF Abreast, HeadRef, SameRound
<1>10. CASE Validate(r) \/ Decide(r)
  BY <1>1, <1>10, ValidateEffect, DecideEffect DEF Abreast, HeadRef, SameRound
<1>11. CASE Accept(r)
  <2> DEFINE v == [digest |-> run[r].digest, iteration |-> run[r].k, decision |-> run[r].decision]
  <2>1. v.digest = run[r].digest
    OBVIOUS
  <2>2. run'[r] = NotRunning \/ (graphs' = Append(graphs, v) /\ run'[r].graph_ref = run[r].digest
                                 /\ run'[r].pc = "record" /\ run'[r].mem = run[r].mem
                                 /\ memory' = memory /\ run[r].pc = "accept")
    BY <1>1, <1>11, AcceptEffect
  <2> HIDE DEF v
  <2> QED
    BY <1>1, <1>2, <2>1, <2>2, HeadOfAppend DEF Abreast, HeadRef
<1>12. CASE Record(r)
  BY <1>1, <1>2, <1>12, RecordEffect DEF Abreast, HeadRef
<1>13. CASE Complete(r) \/ EndRound(r)
  BY <1>1, <1>2, <1>13, CompleteEffect, EndRoundEffect DEF Abreast, HeadRef, SameRound
<1> QED
  BY <1>3, <1>4, <1>5, <1>6, <1>7, <1>8, <1>9, <1>10, <1>11, <1>12, <1>13 DEF Advance

\* The streak counts the last rounds of the memory the process holds.
LEMMA OwnStreakKept ==
    ASSUME AloneInv, NEW r \in Runners, Start(r) \/ Advance(r) \/ Stop(r)
    PROVE  OwnStreak(run'[r])
<1>1. /\ IInv /\ OwnStreak(run[r]) /\ run[r] \in RunState /\ LocalsInOrder(run[r])
      /\ run[r].mem \in Seq(Entry) /\ run[r].streak \in Nat
  BY StateOf DEF AloneInv, HInv, RunState
<1>2. run'[r].mem \in Seq(Entry)
  <2>1. IInv'
    BY <1>1, NextIInv DEF Next
  <2> QED
    BY <2>1 DEF IInv, GoodState, RunState
<1>3. run'[r] = NotRunning => OwnStreak(run'[r])
  <2>1. NotRunning.pc = "idle" /\ NotRunning.streak = 0
    BY DEF NotRunning
  <2> QED
    BY <1>2, <2>1, QuietNone DEF OwnStreak
<1>4. CASE Start(r)
  BY <1>1, <1>2, <1>3, <1>4, LoadHeadEffect, QuietNone DEF OwnStreak
<1>5. CASE Stop(r)
  BY <1>1, <1>3, <1>5, StopEffect
<1>6. CASE Seed(r) \/ LoadMemory(r)
  BY <1>1, <1>2, <1>3, <1>6, SeedEffect, LoadMemoryEffect, QuietNone DEF OwnStreak, SameRound
<1>7. CASE LoadCheckpoint(r)
  BY <1>1, <1>3, <1>7, LoadCheckpointEffect DEF OwnStreak, SameRound
<1>8. CASE Baseline(r) \/ BeginRound(r) \/ Refine(r)
  BY <1>1, <1>3, <1>8, BaselineEffect, BeginRoundEffect, RefineEffect DEF OwnStreak, SameRound
<1>9. CASE NoCandidate(r) \/ HostRefuses(r) \/ Duplicate(r)
  <2>1. run[r].pc = "propose" /\ \E outcome, digest : Settle(r, outcome, digest)
    BY <1>9 DEF NoCandidate, HostRefuses, Duplicate, Proposed
  <2>2. run'[r].pc = "record" /\ SameRound(r)
    BY <1>1, <2>1, SettleEffect
  <2> QED
    BY <1>1, <2>1, <2>2 DEF OwnStreak, SameRound
<1>10. CASE AlreadyAccepted(r) \/ Novel(r) \/ Reuse(r)
  BY <1>1, <1>10, AlreadyAcceptedEffect, NovelEffect, ReuseEffect DEF OwnStreak, SameRound
<1>11. CASE Validate(r) \/ Decide(r)
  BY <1>1, <1>11, ValidateEffect, DecideEffect DEF OwnStreak, SameRound
<1>12. CASE Accept(r)
  BY <1>1, <1>3, <1>12, AcceptEffect DEF OwnStreak
<1>13. CASE Record(r)
  <2>1. run[r].pc = "record" /\ Quiet(run[r].mem, run[r].streak, Len(run[r].mem))
    BY <1>1, <1>13 DEF Record, OwnStreak
  <2>2. NewEntry(r).kind = run[r].outcome
    BY DEF NewEntry
  <2>3. CASE run'[r] # NotRunning
    <3> DEFINE e == NewEntry(r)
    <3>1. /\ run'[r].mem = Append(run[r].mem, e) /\ run'[r].pc = "complete"
          /\ run'[r].streak = run[r].streak /\ run'[r].outcome = run[r].outcome
      BY <1>1, <1>13, <2>3, RecordEffect
    <3> HIDE DEF e
    <3>2. Quiet(run'[r].mem, run'[r].streak, Len(run'[r].mem) - 1)
      BY <1>1, <2>1, <3>1 DEF Quiet
    <3>3. run'[r].mem[Len(run'[r].mem)] = e
      BY <1>1, <3>1
    <3> QED
      BY <2>2, <3>1, <3>2, <3>3 DEF OwnStreak, e
  <2> QED
    BY <1>3, <2>3
<1>14. CASE Complete(r)
  BY <1>1, <1>14, CompleteEffect DEF OwnStreak, SameRound
<1>15. CASE EndRound(r)
  <2>1. /\ Quiet(run[r].mem, run[r].streak, Len(run[r].mem) - 1)
        /\ run[r].outcome = run[r].mem[Len(run[r].mem)].kind
    BY <1>1, <1>15 DEF EndRound, OwnStreak
  <2>2. Quiet(run[r].mem, Streak(r), Len(run[r].mem))
    <3>1. CASE run[r].outcome = "accepted"
      BY <1>1, <3>1, QuietNone DEF Streak
    <3>2. CASE run[r].outcome # "accepted"
      <4> DEFINE n == Len(run[r].mem)
      <4>1. n \in Nat /\ Streak(r) = run[r].streak + 1
        BY <1>1, <3>2 DEF Streak
      <4>2. /\ run[r].streak <= n - 1 /\ run[r].mem[n].kind # "accepted"
            /\ \A i \in n - 1 - run[r].streak + 1 .. n - 1 : run[r].mem[i].kind # "accepted"
        BY <2>1, <3>2 DEF Quiet
      <4> HIDE DEF n
      <4>3. \A i \in n - (run[r].streak + 1) + 1 .. n : run[r].mem[i].kind # "accepted"
        <5>1. run[r].streak \in Nat
          BY <1>1
        <5> TAKE i \in n - (run[r].streak + 1) + 1 .. n
        <5>2. i = n \/ i \in n - 1 - run[r].streak + 1 .. n - 1
          BY <4>1, <5>1
        <5> QED
          BY <4>2, <5>2
      <4>4. run[r].streak + 1 <= n
        BY <1>1, <4>1, <4>2
      <4> QED
        BY <4>1, <4>3, <4>4 DEF Quiet, n
    <3> QED
      BY <3>1, <3>2
  <2> QED
    BY <1>1, <1>3, <1>15, <2>2, EndRoundEffect DEF OwnStreak
<1> QED
  BY <1>4, <1>5, <1>6, <1>7, <1>8, <1>9, <1>10, <1>11, <1>12, <1>13, <1>14, <1>15 DEF Advance

LEMMA InitAlone == Init => AloneInv
<1> SUFFICES ASSUME Init
             PROVE  AloneInv
  OBVIOUS
<1>1. HInv
  BY InitHInv
<1>2. Abreast(NotRunning) /\ OwnStreak(NotRunning)
  BY DEF Abreast, OwnStreak, NotRunning, Quiet
<1> QED
  BY <1>1, <1>2 DEF AloneInv, Init

LEMMA NextAlone ==
    ASSUME OneProcess, AloneInv, [Next]_vars
    PROVE  AloneInv'
<1>1. HInv /\ HInv'
  BY NextHInv DEF AloneInv
<1>2. ASSUME NEW q \in Runners
      PROVE  Abreast(run[q])' /\ OwnStreak(run'[q])
  <2>1. CASE Next
    <3>1. PICK r \in Runners : Start(r) \/ Advance(r) \/ Stop(r)
      BY <2>1 DEF Next
    <3>2. q = r
      BY DEF OneProcess
    <3> QED
      BY <3>1, <3>2, AbreastKept, OwnStreakKept
  <2>2. CASE UNCHANGED vars
    BY <2>2 DEF vars, AloneInv, Abreast, HeadRef
  <2> QED
    BY <2>1, <2>2
<1> QED
  BY <1>1, <1>2 DEF AloneInv

\* The streak one process stops on is real: it never counts a round that moved the head,
\* whichever run recorded it, with or without a checkpoint store.
THEOREM StreaksAreReal ==
    ASSUME OneProcess
    PROVE  Spec => []StreakIsReal
<1>1. Init => AloneInv
  BY InitAlone
<1>2. AloneInv /\ [Next]_vars => AloneInv'
  BY NextAlone
<1>3. AloneInv => StreakIsReal
  <2> SUFFICES ASSUME AloneInv, NEW r \in Runners, run[r].pc \in {"begin", "refine", "propose"}
               PROVE  /\ Len(memory) >= run[r].streak
                      /\ \A i \in Len(memory) - run[r].streak + 1 .. Len(memory) :
                            memory[i].kind # "accepted"
    BY DEF StreakIsReal
  <2>1. run[r].mem = memory /\ Quiet(memory, run[r].streak, Len(memory))
    BY DEF AloneInv, Abreast, OwnStreak
  <2>2. run[r].streak \in Nat /\ memory \in Seq(Entry)
    BY StateOf DEF AloneInv, HInv, IInv, RunState
  <2> QED
    BY <2>1, <2>2 DEF Quiet
<1> QED
  BY <1>1, <1>2, <1>3, PTL DEF Spec

-----------------------------------------------------------------------------
(* One process with a checkpoint store: the three chains.                  *)

\* What holds of the only process while it works on a round.
LEMMA AtWork ==
    ASSUME ResumeInv, NEW r \in Runners
    PROVE  /\ HInv /\ IInv /\ ChainsAgree /\ Abreast(run[r]) /\ Resumes(run[r])
           /\ run[r] \in RunState /\ LocalsInOrder(run[r]) /\ LocalsTraced(run[r])
           /\ graphs \in Seq(Revision) /\ memory \in Seq(Entry)
           /\ run[r].pc \in {"checkpoint", "baseline", "begin"} \cup InRound =>
                /\ run[r].mem = memory /\ run[r].k = Awaited
                /\ graphs # <<>> /\ run[r].graph_ref = HeadRef
           /\ run[r].pc \in {"complete", "end"} => run[r].k = Len(memory)
<1>1. /\ HInv /\ IInv /\ ChainsAgree /\ Abreast(run[r]) /\ Resumes(run[r])
      /\ run[r] \in RunState /\ LocalsInOrder(run[r]) /\ LocalsTraced(run[r])
  BY TraceOf DEF ResumeInv, AloneInv, HInv
<1>2. run[r].pc \in {"checkpoint", "baseline", "begin"} \cup InRound =>
                /\ run[r].mem = memory /\ run[r].k = Awaited
                /\ graphs # <<>> /\ run[r].graph_ref = HeadRef
  BY <1>1 DEF LocalsInOrder, Abreast, Awaited, InRound
<1>3. run[r].pc \in {"complete", "end"} => run[r].k = Len(memory)
  BY <1>1 DEF LocalsInOrder, Abreast
<1> QED
  BY <1>1, <1>2, <1>3 DEF IInv

\* A record that is kept is a payload, traced against memory.
LEMMA KeptRecord ==
    ASSUME HInv, NEW k \in Iterations, Unfinished(k)
    PROVE  ckpt[k] \in GoodPayload /\ Traced(ckpt[k], k, memory) /\ k <= Awaited
<1>1. ckpt[k] \in GoodPayload \cup {None, Completed}
  BY DEF HInv, IInv
<1>2. Traced(ckpt[k], k, memory)
  BY DEF HInv, RecordsTraced
<1> QED
  BY <1>1, <1>2 DEF Unfinished, Traced, Awaited

LEMMA ChainsStay ==
    ASSUME ChainsAgree, UNCHANGED <<graphs, memory, ckpt>>
    PROVE  ChainsAgree'
  BY DEF ChainsAgree, HistoryAgrees, Unrecorded, Unfinished, Awaited, MovedHead, HeadRef

\* A record of the awaited round, made against the head.
LEMMA SaveKeepsChains ==
    ASSUME HInv, ChainsAgree, ~ Unrecorded, graphs # <<>>, Awaited \in Iterations,
           NEW p, UNCHANGED <<graphs, memory>>, ckpt' = [ckpt EXCEPT ![Awaited] = p],
           AgainstHead(p), p.graph_ref = HeadRef
    PROVE  ChainsAgree'
<1>1. ckpt'[Awaited] = p /\ \A k \in Iterations : k # Awaited => ckpt'[k] = ckpt[k]
  BY DEF HInv, IInv
<1>2. HistoryAgrees'
  BY DEF ChainsAgree, HistoryAgrees
<1>3. \A k \in Iterations : Unfinished(k)' => AgainstHead(ckpt'[k])
  BY <1>1 DEF ChainsAgree, Unfinished
<1>4. Awaited' = Awaited /\ HeadRef' = HeadRef /\ (Unrecorded' <=> Unrecorded)
  BY DEF Awaited, HeadRef, Unrecorded
<1> QED
  BY <1>1, <1>2, <1>3, <1>4 DEF ChainsAgree

\* The marker of the last recorded round.
LEMMA CompleteKeepsChains ==
    ASSUME HInv, ChainsAgree, NEW k \in Iterations, k = Len(memory),
           UNCHANGED <<graphs, memory>>, ckpt' = [ckpt EXCEPT ![k] = Completed]
    PROVE  ChainsAgree'
<1>1. ckpt'[k] = Completed /\ \A j \in Iterations : j # k => ckpt'[j] = ckpt[j]
  BY DEF HInv, IInv
<1>2. HistoryAgrees'
  BY DEF ChainsAgree, HistoryAgrees
<1>3. \A j \in Iterations : Unfinished(j)' => Unfinished(j) /\ ckpt'[j] = ckpt[j]
  BY <1>1 DEF Unfinished
<1>4. Awaited' = Awaited /\ HeadRef' = HeadRef /\ (Unrecorded' <=> Unrecorded)
  BY DEF Awaited, HeadRef, Unrecorded
<1>5. Awaited \in Iterations => ckpt'[Awaited] = ckpt[Awaited]
  BY <1>1 DEF Awaited, Iterations
<1> QED
  BY <1>1, <1>2, <1>3, <1>4, <1>5 DEF ChainsAgree, MovedHead, Unfinished

\* Revision 0.
LEMMA SeedKeepsChains ==
    ASSUME HInv, ChainsAgree, graphs = <<>>, NEW v, v.iteration = 0,
           graphs' = <<v>>, UNCHANGED <<memory, ckpt>>
    PROVE  ChainsAgree' /\ ~ Unrecorded'
<1>1. memory = <<>> /\ \A k \in Iterations : ~ Unfinished(k)
  BY DEF ChainsAgree
<1>2. graphs' # <<>> /\ Len(graphs') = 1 /\ graphs'[1] = v
  OBVIOUS
<1>3. ~ Unrecorded'
  BY <1>1, <1>2 DEF Unrecorded
<1>4. HistoryAgrees'
  BY <1>1, <1>2 DEF HistoryAgrees
<1> QED
  BY <1>1, <1>2, <1>3, <1>4 DEF ChainsAgree, Unfinished

\* A recorded head is no newer than memory, and so is every graph before it.
LEMMA RecordedHead ==
    ASSUME HInv, ChainsAgree, ~ Unrecorded
    PROVE  /\ \A i \in 1 .. Len(graphs) : graphs[i].iteration <= Len(memory)
           /\ \A i \in 2 .. Len(graphs) :
                 /\ graphs[i].iteration \in 1 .. Len(memory)
                 /\ Reports(memory[graphs[i].iteration], graphs[i])
<1> DEFINE n == Len(graphs)
<1>1. n \in Nat /\ Len(memory) \in Nat /\ \A i \in 1 .. n : graphs[i].iteration \in Nat
  <2>1. \A i \in 1 .. n : graphs[i] \in Revision
    BY DEF HInv, IInv
  <2> QED
    BY <2>1 DEF Revision, HInv, IInv
<1>2. \A i \in 1 .. n : i < n => graphs[i].iteration < graphs[n].iteration
  BY <1>1 DEF ChainsAgree, HistoryAgrees
<1>3. n >= 1 => graphs[n].iteration <= Len(memory)
  BY <1>1 DEF Unrecorded, HInv, IInv
<1>4. \A i \in 1 .. n : graphs[i].iteration <= Len(memory)
  BY <1>1, <1>2, <1>3
<1>5. \A i \in 2 .. n : /\ graphs[i].iteration \in 1 .. Len(memory)
                        /\ Reports(memory[graphs[i].iteration], graphs[i])
  BY <1>1, <1>4 DEF ChainsAgree, HistoryAgrees
<1> QED
  BY <1>4, <1>5

\* The head moves for the awaited round, whose record says so.
LEMMA MoveKeepsChains ==
    ASSUME HInv, ChainsAgree, ~ Unrecorded, graphs # <<>>, Awaited \in Iterations,
           NEW v \in Revision, v.iteration = Awaited, graphs' = Append(graphs, v),
           UNCHANGED <<memory, ckpt>>, Unfinished(Awaited),
           ckpt[Awaited].evaluation # None, ckpt[Awaited].decision # None,
           ckpt[Awaited].decision.accepted, ckpt[Awaited].decision = v.decision,
           ckpt[Awaited].host = v.digest, ckpt[Awaited].graph_ref = HeadRef
    PROVE  ChainsAgree' /\ Unrecorded'
<1> DEFINE n == Len(graphs)
<1>1. graphs \in Seq(Revision) /\ memory \in Seq(Entry) /\ n \in Nat /\ n >= 1
  BY DEF HInv, IInv
<1>2. /\ graphs' # <<>> /\ Len(graphs') = n + 1 /\ graphs'[n + 1] = v
      /\ \A i \in 1 .. n : graphs'[i] = graphs[i]
  BY <1>1, HeadOfAppend
<1>3. Awaited' = Awaited /\ Awaited = Len(memory) + 1 /\ Len(memory) \in Nat
  BY <1>1 DEF Awaited
<1>4. Unrecorded'
  BY <1>2, <1>3 DEF Unrecorded
<1>5. MovedHead(ckpt[Awaited])'
  <2>1. HeadRef' = v.digest /\ graphs'[Len(graphs')].decision = v.decision
    BY <1>2 DEF HeadRef
  <2>2. graphs'[Len(graphs') - 1].digest = HeadRef
    BY <1>1, <1>2 DEF HeadRef
  <2> QED
    BY <1>3, <2>1, <2>2 DEF MovedHead
<1>6. HistoryAgrees'
  <2>1. \A i \in 1 .. n : graphs[i].iteration <= Len(memory) /\ graphs[i].iteration \in Nat
    <3>1. \A i \in 1 .. n : graphs[i] \in Revision
      BY <1>1
    <3> QED
      BY <3>1, RecordedHead DEF Revision
  <2>2. \A i, j \in 1 .. n + 1 : i < j => graphs'[i].iteration < graphs'[j].iteration
    <3> SUFFICES ASSUME NEW i \in 1 .. n + 1, NEW j \in 1 .. n + 1, i < j
                 PROVE  graphs'[i].iteration < graphs'[j].iteration
      OBVIOUS
    <3>1. i \in 1 .. n /\ graphs'[i] = graphs[i]
      BY <1>1, <1>2
    <3>2. CASE j = n + 1
      BY <1>2, <1>3, <2>1, <3>1, <3>2
    <3>3. CASE j \in 1 .. n
      BY <1>2, <3>1, <3>3 DEF ChainsAgree, HistoryAgrees
    <3> QED
      BY <1>1, <3>2, <3>3
  <2>3. \A i \in 2 .. n + 1 :
          \/ /\ graphs'[i].iteration \in 1 .. Len(memory)
             /\ Reports(memory[graphs'[i].iteration], graphs'[i])
          \/ i = n + 1 /\ graphs'[i].iteration = Len(memory) + 1
    <3> SUFFICES ASSUME NEW i \in 2 .. n + 1, i # n + 1
                 PROVE  /\ graphs'[i].iteration \in 1 .. Len(memory)
                        /\ Reports(memory[graphs'[i].iteration], graphs'[i])
      BY <1>2, <1>3
    <3>1. i \in 2 .. n /\ graphs'[i] = graphs[i]
      BY <1>1, <1>2
    <3> QED
      BY <3>1, RecordedHead
  <2>4. \A k \in 1 .. Len(memory) :
          memory[k].kind = "accepted" => \E i \in 2 .. n + 1 : graphs'[i].iteration = k
    <3> SUFFICES ASSUME NEW k \in 1 .. Len(memory), memory[k].kind = "accepted"
                 PROVE  \E i \in 2 .. n + 1 : graphs'[i].iteration = k
      OBVIOUS
    <3>1. PICK i \in 2 .. n : graphs[i].iteration = k
      BY DEF ChainsAgree, HistoryAgrees
    <3>2. i \in 2 .. n + 1 /\ graphs'[i].iteration = k
      BY <1>1, <1>2, <3>1
    <3> QED
      BY <3>2
  <2> QED
    BY <1>2, <2>2, <2>3, <2>4 DEF HistoryAgrees
<1>7. graphs'[1].iteration = 0
  BY <1>1, <1>2 DEF ChainsAgree
<1>8. \A k \in Iterations : Unfinished(k)' => AgainstHead(ckpt'[k])
  BY DEF ChainsAgree, Unfinished
<1>9. Len(graphs') >= 2 /\ Unfinished(Awaited)'
  BY <1>1, <1>2, <1>3 DEF Unfinished
<1> QED
  BY <1>2, <1>3, <1>4, <1>5, <1>6, <1>7, <1>8, <1>9 DEF ChainsAgree

\* The entry of the awaited round: it accounts for the head if the round moved it.
LEMMA EntryKeepsChains ==
    ASSUME HInv, ChainsAgree, graphs # <<>>, NEW e, memory' = Append(memory, e),
           UNCHANGED <<graphs, ckpt>>,
           Unrecorded <=> e.kind = "accepted",
           Unrecorded => Reports(e, graphs[Len(graphs)])
    PROVE  ChainsAgree' /\ ~ Unrecorded' /\ (Awaited' \in Iterations => ~ Unfinished(Awaited)')
<1> DEFINE n == Len(graphs)
           m == Len(memory)
<1>1. graphs \in Seq(Revision) /\ memory \in Seq(Entry) /\ n \in Nat /\ n >= 1 /\ m \in Nat
  BY DEF HInv, IInv
<1>2. /\ Len(memory') = m + 1 /\ memory'[m + 1] = e
      /\ \A i \in 1 .. m : memory'[i] = memory[i]
  BY <1>1
<1>3. \A i \in 1 .. n : graphs[i].iteration \in Nat
  <2>1. \A i \in 1 .. n : graphs[i] \in Revision
    BY <1>1
  <2> QED
    BY <2>1 DEF Revision
<1>4. Awaited' = m + 2 /\ Awaited = m + 1
  BY <1>1, <1>2 DEF Awaited
<1>5. Awaited' \in Iterations => ~ Unfinished(Awaited)'
  <2> SUFFICES ASSUME m + 2 \in Iterations, Unfinished(m + 2)
               PROVE  FALSE
    BY <1>4 DEF Unfinished
  <2>1. m + 2 <= m + 1
    BY <1>4, KeptRecord
  <2> QED
    BY <1>1, <2>1
<1>6. Unrecorded => n >= 2 /\ graphs[n].iteration = m + 1
  <2> SUFFICES ASSUME Unrecorded
               PROVE  n >= 2 /\ graphs[n].iteration = m + 1
    OBVIOUS
  <2>1. n >= 2 /\ graphs[n].iteration > m
    BY DEF ChainsAgree, Unrecorded
  <2> QED
    BY <1>1, <1>3, <2>1 DEF ChainsAgree, HistoryAgrees
<1>7. ~ Unrecorded'
  <2>1. graphs[n].iteration <= m + 1
    <3>1. CASE Unrecorded
      BY <1>1, <1>6, <3>1
    <3>2. CASE ~ Unrecorded
      BY <1>1, <1>3, <3>2, RecordedHead
    <3> QED
      BY <3>1, <3>2
  <2> QED
    BY <1>1, <1>2, <1>3, <2>1 DEF Unrecorded
<1>8. HistoryAgrees'
  <2>1. \A i \in 2 .. n : /\ graphs[i].iteration \in 1 .. m + 1
                          /\ Reports(memory'[graphs[i].iteration], graphs[i])
    <3> SUFFICES ASSUME NEW i \in 2 .. n
                 PROVE  /\ graphs[i].iteration \in 1 .. m + 1
                        /\ Reports(memory'[graphs[i].iteration], graphs[i])
      OBVIOUS
    <3>1. CASE graphs[i].iteration \in 1 .. m /\ Reports(memory[graphs[i].iteration], graphs[i])
      BY <1>1, <1>2, <3>1
    <3>2. CASE i = n /\ graphs[i].iteration = m + 1
      <4>1. Unrecorded
        BY <1>1, <3>2 DEF Unrecorded
      <4> QED
        BY <1>1, <1>2, <3>2, <4>1
    <3> QED
      BY <3>1, <3>2 DEF ChainsAgree, HistoryAgrees
  <2>2. \A k \in 1 .. m + 1 :
          memory'[k].kind = "accepted" => \E i \in 2 .. n : graphs[i].iteration = k
    <3> SUFFICES ASSUME NEW k \in 1 .. m + 1, memory'[k].kind = "accepted"
                 PROVE  \E i \in 2 .. n : graphs[i].iteration = k
      OBVIOUS
    <3>1. CASE k \in 1 .. m
      BY <1>2, <3>1 DEF ChainsAgree, HistoryAgrees
    <3>2. CASE k = m + 1
      <4>1. n \in 2 .. n /\ graphs[n].iteration = k
        BY <1>1, <1>2, <1>6, <3>2
      <4> QED
        BY <4>1
    <3> QED
      BY <1>1, <3>1, <3>2
  <2>3. \A i, j \in 1 .. n : i < j => graphs[i].iteration < graphs[j].iteration
    BY DEF ChainsAgree, HistoryAgrees
  <2> QED
    BY <1>2, <2>1, <2>2, <2>3 DEF HistoryAgrees
<1>9. \A k \in Iterations : Unfinished(k)' => AgainstHead(ckpt'[k])
  BY DEF ChainsAgree, Unfinished
<1> QED
  BY <1>5, <1>7, <1>8, <1>9 DEF ChainsAgree

-----------------------------------------------------------------------------
(* One process with a checkpoint store: one lemma per action.              *)

\* What a step has to show.
Kept(r) == ChainsAgree' /\ Resumes(run[r])'

LEMMA LeaveResumes ==
    ASSUME ResumeInv, NEW r \in Runners, run'[r] = NotRunning, UNCHANGED <<graphs, memory, ckpt>>
    PROVE  Kept(r)
<1>1. run'[r].pc = "idle"
  BY DEF NotRunning
<1>2. Resumes(run[r])'
  BY <1>1 DEF Resumes, InRound
<1> QED
  BY <1>2, ChainsStay DEF ResumeInv, Kept

LEMMA LoadHeadResumes ==
    ASSUME ResumeInv, NEW r \in Runners, Start(r)
    PROVE  Kept(r)
<1>1. IInv /\ UNCHANGED <<graphs, memory, ckpt>> /\ run'[r].pc \in {"idle", "seed", "memory"}
  <2>1. IInv
    BY AtWork
  <2>2. NotRunning.pc = "idle"
    BY DEF NotRunning
  <2> QED
    BY <2>1, <2>2, LoadHeadEffect
<1>2. run'[r].pc = "seed" => ~ Unrecorded
  <2>1. run'[r].pc = "seed" => graphs = <<>>
    <3>1. NotRunning.pc = "idle"
      BY DEF NotRunning
    <3> QED
      BY <1>1, <3>1, LoadHeadEffect
  <2> QED
    BY <2>1 DEF Unrecorded
<1>3. Resumes(run[r])'
  BY <1>1, <1>2 DEF Resumes, InRound, Unrecorded
<1> QED
  BY <1>1, <1>3, ChainsStay DEF ResumeInv, Kept

LEMMA SeedResumes ==
    ASSUME ResumeInv, NEW r \in Runners, Seed(r)
    PROVE  Kept(r)
<1>1. HInv /\ IInv /\ ChainsAgree /\ UNCHANGED <<memory, ckpt>>
  BY AtWork, SeedEffect
<1>2. CASE run'[r] = NotRunning /\ graphs' = graphs
  BY <1>1, <1>2, LeaveResumes
<1>3. CASE ~ (run'[r] = NotRunning /\ graphs' = graphs)
  <2> DEFINE v == [digest |-> run[r].graph_ref, iteration |-> 0, decision |-> None]
  <2>1. graphs = <<>> /\ graphs' = <<v>> /\ run'[r].pc = "memory"
    BY <1>1, <1>3, SeedEffect
  <2>2. v.iteration = 0
    OBVIOUS
  <2> HIDE DEF v
  <2>3. ChainsAgree' /\ ~ Unrecorded'
    BY <1>1, <2>1, <2>2, SeedKeepsChains
  <2> QED
    BY <2>1, <2>3 DEF Kept, Resumes, InRound
<1> QED
  BY <1>2, <1>3

LEMMA LoadMemoryResumes ==
    ASSUME ResumeInv, NEW r \in Runners, LoadMemory(r)
    PROVE  Kept(r)
<1>1. UNCHANGED <<graphs, memory, ckpt>> /\ run'[r].pc = "checkpoint"
  BY AtWork, LoadMemoryEffect
<1>2. Resumes(run[r])'
  BY <1>1 DEF Resumes, InRound
<1> QED
  BY <1>1, <1>2, ChainsStay DEF ResumeInv, Kept

\* A pending round whose graph is the head is recognised by its record.
LEMMA LoadCheckpointResumes ==
    ASSUME ResumeInv, NEW r \in Runners, LoadCheckpoint(r)
    PROVE  Kept(r)
<1> DEFINE p == ckpt[run[r].k]
<1>1. /\ HInv /\ IInv /\ ChainsAgree /\ LocalsTraced(run[r])
      /\ run[r].pc = "checkpoint" /\ run[r].k = Awaited /\ run[r].k \in Iterations
      /\ graphs # <<>> /\ run[r].graph_ref = HeadRef
      /\ UNCHANGED <<graphs, memory, ckpt>>
  BY AtWork, LoadCheckpointEffect DEF LoadCheckpoint
<1>2. \/ run'[r] = NotRunning
      \/ /\ ~ Pending(p) /\ run'[r].pc = "baseline"
         /\ SameRound(r) /\ run'[r].rec = run[r].rec
      \/ /\ Pending(p) /\ ~ LandedAs(p, p.host, run[r].graph_ref)
         /\ run'[r].pc = "baseline" /\ SameRound(r) /\ run'[r].rec = p
      \/ /\ Pending(p) /\ LandedAs(p, p.host, run[r].graph_ref)
         /\ run'[r].pc = "begin" /\ SameRound(r) /\ run'[r].rec = p
         /\ run'[r].best = p.evaluation
  BY <1>1, LoadCheckpointEffect
<1>3. run[r].rec = None
  BY <1>1 DEF LocalsTraced, Recordless
<1>4. Pending(p) <=> Unfinished(Awaited)
  BY <1>1 DEF Pending, Unfinished
<1>5. Unrecorded => Pending(p) /\ LandedAs(p, p.host, run[r].graph_ref)
  BY <1>1, <1>4 DEF ChainsAgree, MovedHead, AgainstHead, LandedAs
<1>6. Pending(p) => p # None /\ Traced(p, run[r].k, memory)
  BY <1>1, <1>4, KeptRecord DEF Pending
<1>7. CASE run'[r] = NotRunning
  BY <1>1, <1>7, LeaveResumes
<1>8. CASE /\ ~ Pending(p) /\ run'[r].pc = "baseline"
           /\ SameRound(r) /\ run'[r].rec = run[r].rec
  <2>1. Resumes(run[r])'
    BY <1>1, <1>3, <1>4, <1>5, <1>8 DEF Resumes, InRound, Unrecorded, Unfinished, SameRound, Pending
  <2> QED
    BY <1>1, <2>1, ChainsStay DEF Kept
<1>9. CASE /\ Pending(p) /\ ~ LandedAs(p, p.host, run[r].graph_ref)
           /\ run'[r].pc = "baseline" /\ SameRound(r) /\ run'[r].rec = p
  <2>1. Resumes(run[r])'
    BY <1>1, <1>5, <1>6, <1>9 DEF Resumes, InRound, Unrecorded, SameRound
  <2> QED
    BY <1>1, <2>1, ChainsStay DEF Kept
<1>10. CASE /\ Pending(p) /\ LandedAs(p, p.host, run[r].graph_ref)
            /\ run'[r].pc = "begin" /\ SameRound(r) /\ run'[r].rec = p
            /\ run'[r].best = p.evaluation
  <2>1. p.evaluation.ref = run[r].graph_ref
    BY <1>6, <1>10 DEF LandedAs, Traced
  <2>2. Resumes(run[r])'
    BY <1>1, <1>6, <1>10, <2>1 DEF Resumes, InRound, Unrecorded, SameRound
  <2> QED
    BY <1>1, <2>2, ChainsStay DEF Kept
<1> QED
  BY <1>2, <1>7, <1>8, <1>9, <1>10

LEMMA BaselineResumes ==
    ASSUME ResumeInv, NEW r \in Runners, Baseline(r)
    PROVE  Kept(r)
<1>1. /\ IInv /\ ChainsAgree /\ Resumes(run[r]) /\ run[r].pc = "baseline"
      /\ UNCHANGED <<graphs, memory, ckpt>>
  BY AtWork, BaselineEffect
<1>2. CASE run'[r] = NotRunning
  BY <1>1, <1>2, LeaveResumes
<1>3. CASE run'[r] # NotRunning
  <2>1. /\ run'[r].pc = "begin" /\ run'[r].best.ref = run[r].graph_ref
        /\ SameRound(r) /\ run'[r].rec = run[r].rec
    BY <1>1, <1>3, BaselineEffect
  <2>2. Resumes(run[r])'
    BY <1>1, <2>1 DEF Resumes, InRound, Unrecorded, Unfinished, SameRound
  <2> QED
    BY <1>1, <2>2, ChainsStay DEF Kept
<1> QED
  BY <1>2, <1>3

LEMMA BeginRoundResumes ==
    ASSUME ResumeInv, NEW r \in Runners, BeginRound(r)
    PROVE  Kept(r)
<1>1. /\ IInv /\ ChainsAgree /\ Resumes(run[r]) /\ run[r].pc = "begin"
      /\ UNCHANGED <<graphs, memory, ckpt>> /\ run[r].k \in Iterations
  BY AtWork, BeginRoundEffect
<1>2. /\ \/ run[r].rec = None /\ run'[r].pc = "refine"
         \/ run[r].rec # None /\ run'[r].pc = "propose"
      /\ SameRound(r) /\ run'[r].rec = run[r].rec /\ run'[r].best = run[r].best
  BY <1>1, BeginRoundEffect
<1>3. Resumes(run[r])'
  BY <1>1, <1>2 DEF Resumes, InRound, Unrecorded, Unfinished, SameRound
<1> QED
  BY <1>1, <1>3, ChainsStay DEF Kept

\* A save goes to the slot of the awaited round.
LEMMA SavedRecord ==
    ASSUME Checkpointing, HInv, NEW k \in Iterations, NEW p, ckpt' = Saved(k, p)
    PROVE  ckpt' = [ckpt EXCEPT ![k] = p] /\ ckpt'[k] = p
  BY DEF Saved, HInv, IInv

LEMMA RefineResumes ==
    ASSUME Checkpointing, ResumeInv, NEW r \in Runners, Refine(r)
    PROVE  Kept(r)
<1> DEFINE p == run'[r].rec
<1>1. /\ HInv /\ IInv /\ ChainsAgree /\ Resumes(run[r]) /\ run[r].pc = "refine"
      /\ UNCHANGED <<graphs, memory>> /\ run[r].k = Awaited
      /\ graphs # <<>> /\ run[r].graph_ref = HeadRef
  BY AtWork, RefineEffect DEF InRound
<1>2. /\ run'[r].pc = "propose" /\ SameRound(r) /\ run'[r].best = run[r].best
      /\ p \in Payload /\ ckpt' = Saved(run[r].k, p)
      /\ p.graph_ref = run[r].graph_ref /\ p.evaluation = None
  BY <1>1, RefineEffect
<1>3. run[r].k \in Iterations /\ ~ Unrecorded
  BY <1>1 DEF Resumes, InRound
<1>4. ckpt' = [ckpt EXCEPT ![Awaited] = p] /\ ckpt'[run[r].k] = p
  BY <1>1, <1>2, <1>3, SavedRecord
<1>5. ChainsAgree'
  BY <1>1, <1>2, <1>3, <1>4, SaveKeepsChains DEF AgainstHead
<1>6. Resumes(run[r])'
  BY <1>1, <1>2, <1>3, <1>4, MarkerAssumption DEF Resumes, InRound, Unrecorded, SameRound
<1> QED
  BY <1>5, <1>6 DEF Kept

\* A resumed round that moved the head does not look for another outcome.
LEMMA LandsAgain ==
    ASSUME ResumeInv, NEW r \in Runners, run[r].pc = "propose", Unrecorded
    PROVE  /\ run[r].rec.edits = "candidate" /\ Hosted(r) \notin HostInvalid /\ Landed(r)
           /\ MovedHead(run[r].rec)
<1>1. /\ HInv /\ ChainsAgree /\ Resumes(run[r]) /\ run[r].k = Awaited
      /\ run[r].graph_ref = HeadRef
  BY AtWork DEF InRound
<1>2. Awaited \in Iterations /\ Unfinished(Awaited) /\ MovedHead(ckpt[Awaited])
  BY <1>1 DEF ChainsAgree
<1>3. run[r].rec = ckpt[Awaited] /\ AgainstHead(run[r].rec)
  BY <1>1, <1>2 DEF Resumes, ChainsAgree
<1>4. Traced(run[r].rec, Awaited, memory)
  BY <1>1, <1>2, <1>3, KeptRecord
<1> QED
  BY <1>1, <1>2, <1>3, <1>4 DEF Traced, MovedHead, AgainstHead, Hosted, Landed, LandedAs

\* A round that ends without a measurement.
LEMMA SettleResumes ==
    ASSUME ResumeInv, NEW r \in Runners, run[r].pc = "propose", ~ Unrecorded,
           NEW outcome \in {"no_action", "structural_failure", "duplicate_candidate"},
           NEW digest, Settle(r, outcome, digest),
           outcome = "no_action" => digest = None,
           outcome = "duplicate_candidate" =>
               digest \in Graphs /\ Known(digest, run[r].graph_ref, run[r].mem)
    PROVE  Kept(r)
<1>1. IInv /\ ChainsAgree /\ Resumes(run[r])
  BY AtWork
<1>2. /\ UNCHANGED <<graphs, memory, ckpt>>
      /\ run'[r].pc = "record" /\ run'[r].outcome = outcome /\ run'[r].digest = digest
      /\ SameRound(r) /\ run'[r].best = run[r].best
  BY <1>1, SettleEffect
<1>3. OutcomeTold(run[r])'
  BY <1>2 DEF OutcomeTold, SameRound
<1>4. Resumes(run[r])'
  BY <1>1, <1>2, <1>3 DEF Resumes, InRound, Unrecorded, SameRound
<1> QED
  BY <1>1, <1>2, <1>4, ChainsStay DEF Kept

LEMMA UndecidedResumes ==
    ASSUME ResumeInv, NEW r \in Runners, NoCandidate(r) \/ HostRefuses(r) \/ Duplicate(r)
    PROVE  Kept(r)
<1>1. /\ run[r].pc = "propose" /\ run[r].rec \in GoodPayload /\ LocalsTraced(run[r])
      /\ LocalsInOrder(run[r])
  BY AtWork DEF NoCandidate, HostRefuses, Duplicate, Proposed, LocalsInOrder
<1>2. ~ Unrecorded
  BY <1>1, LandsAgain DEF NoCandidate, HostRefuses, Duplicate, Proposed
<1>3. Traced(run[r].rec, run[r].k, run[r].mem)
  BY <1>1, MarkerAssumption DEF LocalsTraced, GoodPayload
<1>4. CASE NoCandidate(r)
  <2> DEFINE outcome == IF run[r].rec.edits = "empty" THEN "no_action" ELSE "structural_failure"
  <2>1. Settle(r, outcome, run[r].rec.candidate) /\ run[r].rec.candidate = None
    BY <1>3, <1>4 DEF NoCandidate, Traced
  <2>2. outcome \in {"no_action", "structural_failure"}
    OBVIOUS
  <2> HIDE DEF outcome
  <2> QED
    BY <1>1, <1>2, <2>1, <2>2, SettleResumes
<1>5. CASE HostRefuses(r)
  BY <1>1, <1>2, <1>5, SettleResumes DEF HostRefuses
<1>6. CASE Duplicate(r)
  <2>1. Hosted(r) \in Graphs
    BY <1>1, <1>6 DEF Duplicate, Proposed, Hosted, GoodPayload, SavedInOrder
  <2> QED
    BY <1>1, <1>2, <1>6, <2>1, SettleResumes DEF Duplicate, Refused
<1> QED
  BY <1>4, <1>5, <1>6

\* The record of a round that landed before the interruption is the head's.
LEMMA AlreadyAcceptedResumes ==
    ASSUME ResumeInv, NEW r \in Runners, AlreadyAccepted(r)
    PROVE  Kept(r)
<1>1. /\ HInv /\ IInv /\ ChainsAgree /\ Resumes(run[r]) /\ run[r].pc = "propose"
      /\ run[r].k = Awaited /\ run[r].graph_ref = HeadRef
      /\ LocalsTraced(run[r]) /\ LocalsInOrder(run[r])
  BY AtWork DEF AlreadyAccepted, Proposed, InRound
<1>2. /\ Landed(r) /\ UNCHANGED <<graphs, memory, ckpt>>
      /\ run'[r].pc = "record" /\ run'[r].outcome = "accepted"
      /\ run'[r].digest = Hosted(r) /\ run'[r].decision = run[r].rec.decision
      /\ SameRound(r) /\ run'[r].best = run[r].rec.evaluation
  BY <1>1, AlreadyAcceptedEffect
<1>3. run[r].rec \in Payload /\ run[r].rec # None
  BY <1>1, MarkerAssumption DEF LocalsInOrder, GoodPayload
<1>4. run[r].k \in Iterations /\ run[r].rec = ckpt[Awaited] /\ Unfinished(Awaited)
  <2>1. run[r].k \in Iterations /\ run[r].rec = ckpt[Awaited]
    BY <1>1, <1>3 DEF Resumes
  <2> QED
    BY <1>3, <2>1, MarkerAssumption DEF Unfinished
<1>5. Unrecorded
  BY <1>1, <1>2, <1>4 DEF ChainsAgree, Landed, LandedAs
<1>6. MovedHead(run[r].rec) /\ Traced(run[r].rec, run[r].k, run[r].mem)
  BY <1>1, <1>3, <1>5, LandsAgain DEF LocalsTraced
<1>7. Hosted(r) = HeadRef /\ run[r].rec.evaluation.ref = HeadRef
  BY <1>1, <1>2, <1>6 DEF Landed, LandedAs, Traced, MovedHead
<1>8. OutcomeTold(run[r])'
  BY <1>2, <1>5, <1>6, <1>7 DEF OutcomeTold, Unrecorded, HeadRef, MovedHead
<1>9. Resumes(run[r])'
  BY <1>1, <1>2, <1>4, <1>7, <1>8 DEF Resumes, InRound, SameRound
<1> QED
  BY <1>1, <1>2, <1>9, ChainsStay DEF Kept

LEMMA NovelResumes ==
    ASSUME ResumeInv, NEW r \in Runners, Novel(r)
    PROVE  Kept(r)
<1>1. /\ IInv /\ ChainsAgree /\ Resumes(run[r]) /\ run[r].pc = "propose" /\ ~ Landed(r)
      /\ Hosted(r) # run[r].graph_ref
  BY AtWork DEF Novel, Proposed, Refused, Known
<1>2. /\ UNCHANGED <<graphs, memory, ckpt>>
      /\ run'[r].pc = "validate" /\ run'[r].digest = Hosted(r)
      /\ SameRound(r) /\ run'[r].rec = run[r].rec /\ run'[r].best = run[r].best
  BY <1>1, NovelEffect
<1>3. ~ Unrecorded
  BY <1>1, LandsAgain
<1>4. Resumes(run[r])'
  BY <1>1, <1>2, <1>3 DEF Resumes, InRound, Unrecorded, SameRound
<1> QED
  BY <1>1, <1>2, <1>4, ChainsStay DEF Kept

\* The record a process validates or decides is the stored one, made against the head.
LEMMA HeldRecord ==
    ASSUME ResumeInv, NEW r \in Runners, run[r].pc \in {"validate", "decide"}
    PROVE  /\ HInv /\ IInv /\ ChainsAgree /\ Resumes(run[r]) /\ ~ Unrecorded
           /\ LocalsTraced(run[r]) /\ LocalsInOrder(run[r])
           /\ run[r].k = Awaited /\ Awaited \in Iterations
           /\ graphs # <<>> /\ run[r].graph_ref = HeadRef
           /\ run[r].rec \in GoodPayload /\ run[r].rec \in Payload /\ run[r].rec # None
           /\ run[r].rec = ckpt[Awaited] /\ Unfinished(Awaited)
           /\ Traced(run[r].rec, Awaited, run[r].mem)
           /\ run[r].rec.graph_ref = HeadRef /\ AgainstHead(run[r].rec)
           /\ run[r].best.ref = HeadRef
<1>1. /\ HInv /\ IInv /\ ChainsAgree /\ Resumes(run[r])
      /\ LocalsTraced(run[r]) /\ LocalsInOrder(run[r])
      /\ run[r].k = Awaited /\ graphs # <<>> /\ run[r].graph_ref = HeadRef
  BY AtWork DEF InRound
<1>2. ~ Unrecorded /\ Awaited \in Iterations /\ run[r].best.ref = HeadRef
  BY <1>1 DEF Resumes, InRound
<1>3. run[r].rec \in GoodPayload /\ run[r].rec \in Payload /\ run[r].rec # None
  BY <1>1, MarkerAssumption DEF LocalsInOrder, GoodPayload
<1>4. run[r].rec = ckpt[Awaited]
  BY <1>1, <1>3 DEF Resumes
<1>5. Unfinished(Awaited)
  BY <1>3, <1>4, MarkerAssumption DEF Unfinished
<1>6. Traced(run[r].rec, Awaited, run[r].mem)
  BY <1>1, <1>3 DEF LocalsTraced
<1>7. run[r].rec.graph_ref = HeadRef /\ AgainstHead(run[r].rec)
  BY <1>1, <1>2, <1>4, <1>5 DEF ChainsAgree
<1> QED
  BY <1>1, <1>2, <1>3, <1>4, <1>5, <1>6, <1>7

LEMMA ReuseResumes ==
    ASSUME ResumeInv, NEW r \in Runners, Reuse(r)
    PROVE  Kept(r)
<1>1. run[r].pc = "validate" /\ run[r].rec.evaluation # None
  BY DEF Reuse
<1>2. /\ IInv /\ ChainsAgree /\ Resumes(run[r]) /\ ~ Unrecorded
      /\ run[r].graph_ref = HeadRef /\ run[r].rec.graph_ref = HeadRef
      /\ AgainstHead(run[r].rec)
  BY <1>1, HeldRecord
<1>3. /\ UNCHANGED <<graphs, memory, ckpt>> /\ run'[r].pc = "decide"
      /\ run'[r].best = run[r].rec.baseline
      /\ SameRound(r) /\ run'[r].rec = run[r].rec
  BY <1>2, ReuseEffect
<1>4. run'[r].best.ref = run[r].graph_ref
  BY <1>1, <1>2, <1>3 DEF AgainstHead
<1>5. Resumes(run[r])'
  BY <1>1, <1>2, <1>3, <1>4 DEF Resumes, InRound, Unrecorded, SameRound
<1> QED
  BY <1>2, <1>3, <1>5, ChainsStay DEF Kept

LEMMA ValidateResumes ==
    ASSUME Checkpointing, ResumeInv, NEW r \in Runners, Validate(r)
    PROVE  Kept(r)
<1> DEFINE p == run'[r].rec
<1>1. run[r].pc = "validate"
  BY DEF Validate
<1>2. /\ HInv /\ IInv /\ ChainsAgree /\ Resumes(run[r]) /\ ~ Unrecorded
      /\ run[r].k = Awaited /\ Awaited \in Iterations
      /\ graphs # <<>> /\ run[r].graph_ref = HeadRef
      /\ run[r].rec.graph_ref = HeadRef /\ run[r].best.ref = HeadRef
  BY <1>1, HeldRecord
<1>3. /\ UNCHANGED <<graphs, memory>> /\ run'[r].pc = "decide"
      /\ run'[r].best = run[r].best /\ SameRound(r)
      /\ p \in Payload /\ ckpt' = Saved(run[r].k, p)
      /\ p.graph_ref = run[r].rec.graph_ref /\ p.host = run[r].digest
      /\ p.baseline = run[r].best
  BY <1>2, ValidateEffect
<1>4. ckpt' = [ckpt EXCEPT ![Awaited] = p] /\ ckpt'[run[r].k] = p
  BY <1>2, <1>3, SavedRecord
<1>5. AgainstHead(p)
  BY <1>1, <1>2, <1>3 DEF AgainstHead, Resumes
<1>6. ChainsAgree'
  BY <1>2, <1>3, <1>4, <1>5, SaveKeepsChains
<1>7. Resumes(run[r])'
  BY <1>1, <1>2, <1>3, <1>4 DEF Resumes, InRound, Unrecorded, SameRound
<1> QED
  BY <1>6, <1>7 DEF Kept

\* What a decision is on, when it is made and when it is read back from the record.
LEMMA DecideOn ==
    ASSUME ResumeInv, NEW r \in Runners, Decide(r)
    PROVE  /\ run[r].evaluation = run[r].rec.evaluation /\ run[r].rec.evaluation # None
           /\ run[r].evaluation.ref = run[r].digest
           /\ run[r].rec.host = run[r].digest /\ run[r].digest # HeadRef
           /\ run'[r].decision.baseline = run[r].best
           /\ run'[r].decision.candidate = run[r].evaluation
           /\ Verdict(run'[r].decision)
<1>1. run[r].pc = "decide"
  BY DEF Decide
<1>2. /\ IInv /\ LocalsTraced(run[r]) /\ LocalsInOrder(run[r])
      /\ run[r].rec \in GoodPayload /\ Traced(run[r].rec, Awaited, run[r].mem)
      /\ run[r].rec.graph_ref = HeadRef /\ AgainstHead(run[r].rec)
  BY <1>1, HeldRecord
<1>3. /\ run[r].evaluation = run[r].rec.evaluation /\ run[r].best = run[r].rec.baseline
      /\ run[r].evaluation.ref = run[r].digest
      /\ run[r].digest = Materialise[run[r].rec.candidate]
  BY <1>1, <1>2 DEF LocalsTraced
<1>4. /\ run[r].evaluation \in Evaluation /\ run[r].best \in Evaluation
      /\ run[r].binding \in Bindings
  BY <1>1, <1>2 DEF LocalsInOrder, InRound
<1>5. run[r].rec.evaluation # None
  BY <1>3, <1>4, MarkerAssumption
<1>6. run[r].rec.host = run[r].digest /\ run[r].digest # HeadRef
  BY <1>2, <1>3, <1>5 DEF Traced, AgainstHead
<1>7. \E binding : DecidedOn(run'[r].decision, run[r].best, run[r].evaluation, binding)
  <2>1. CASE run[r].rec.decision # None /\ run'[r].decision = run[r].rec.decision
    BY <1>2, <1>3, <2>1 DEF Traced
  <2>2. CASE run'[r].decision \in Decisions(run[r].best, run[r].evaluation, run[r].binding)
    BY <1>4, <2>2, DecisionsAreVerdicts
  <2> QED
    BY <1>2, <2>1, <2>2, DecideEffect
<1> QED
  BY <1>3, <1>5, <1>6, <1>7 DEF DecidedOn

LEMMA DecideResumes ==
    ASSUME Checkpointing, ResumeInv, NEW r \in Runners, Decide(r)
    PROVE  Kept(r)
<1> DEFINE d == run'[r].decision
           p == [run[r].rec EXCEPT !.decision = d]
<1>1. run[r].pc = "decide"
  BY DEF Decide
<1>2. /\ HInv /\ IInv /\ ChainsAgree /\ Resumes(run[r]) /\ ~ Unrecorded
      /\ run[r].k = Awaited /\ Awaited \in Iterations
      /\ graphs # <<>> /\ run[r].graph_ref = HeadRef
      /\ run[r].rec \in Payload /\ run[r].rec = ckpt[Awaited] /\ Unfinished(Awaited)
      /\ run[r].rec.graph_ref = HeadRef /\ AgainstHead(run[r].rec)
      /\ run[r].best.ref = HeadRef
  BY <1>1, HeldRecord
<1>3. /\ UNCHANGED <<graphs, memory>>
      /\ \/ d.accepted /\ run'[r].pc = "accept" /\ run'[r].outcome = "accepted"
         \/ ~ d.accepted /\ run'[r].pc = "record" /\ run'[r].outcome = "rejected"
      /\ SameRound(r) /\ run'[r].rec = run[r].rec /\ run'[r].best = run[r].best
      /\ run'[r].digest = run[r].digest /\ d \in Decision
      /\ \/ run[r].rec.decision # None /\ ckpt' = ckpt /\ d = run[r].rec.decision
         \/ run[r].rec.decision = None /\ ckpt' = Saved(run[r].k, p)
  BY <1>2, DecideEffect
<1>4. /\ run[r].rec.evaluation # None /\ run[r].evaluation.ref = run[r].digest
      /\ run[r].rec.host = run[r].digest /\ run[r].digest # HeadRef
      /\ d.baseline = run[r].best /\ d.candidate = run[r].evaluation /\ Verdict(d)
  BY DecideOn
<1>5. /\ p \in Payload /\ p.graph_ref = run[r].rec.graph_ref /\ p.host = run[r].rec.host
      /\ p.evaluation = run[r].rec.evaluation /\ p.baseline = run[r].rec.baseline
      /\ p.decision = d
  BY <1>2, <1>3 DEF Payload
<1> HIDE DEF p, d
<1>6. /\ ChainsAgree' /\ Unfinished(Awaited)'
      /\ ckpt'[Awaited].evaluation # None /\ ckpt'[Awaited].decision = d
      /\ ckpt'[Awaited].host = run[r].digest /\ ckpt'[Awaited].graph_ref = HeadRef
  <2>0. Awaited' = Awaited
    BY <1>3 DEF Awaited
  <2>1. CASE ckpt' = ckpt /\ d = run[r].rec.decision
    BY <1>2, <1>3, <1>4, <2>0, <2>1, ChainsStay DEF Unfinished
  <2>2. CASE ckpt' = Saved(run[r].k, p)
    <3>1. ckpt' = [ckpt EXCEPT ![Awaited] = p] /\ ckpt'[Awaited] = p
      BY <1>2, <2>2, SavedRecord
    <3>2. ChainsAgree'
      BY <1>2, <1>3, <1>5, <3>1, SaveKeepsChains DEF AgainstHead
    <3>3. Unfinished(Awaited)'
      BY <1>5, <2>0, <3>1, MarkerAssumption DEF Unfinished
    <3> QED
      BY <1>2, <1>4, <1>5, <3>1, <3>2, <3>3
  <2> QED
    BY <1>3, <2>1, <2>2
<1>7. run'[r].pc = "record" => OutcomeTold(run[r])'
  BY <1>2, <1>3, <1>4 DEF OutcomeTold, SameRound, d
<1>8. Resumes(run[r])'
  <2>1. run'[r].k = Awaited /\ Awaited' = Awaited /\ (Unrecorded' <=> Unrecorded)
    BY <1>2, <1>3 DEF SameRound, Awaited, Unrecorded
  <2>2. run'[r].pc \in {"accept", "record"} /\ run'[r].best.ref = run'[r].graph_ref
    BY <1>2, <1>3 DEF SameRound
  <2>3. Unfinished(run[r].k)'
    BY <1>6, <2>1 DEF Unfinished
  <2>4. run'[r].pc = "accept" =>
           /\ ckpt'[run'[r].k].evaluation # None /\ ckpt'[run'[r].k].decision = run'[r].decision
           /\ ckpt'[run'[r].k].host = run'[r].digest
           /\ ckpt'[run'[r].k].graph_ref = run'[r].graph_ref
    BY <1>2, <1>3, <1>6, <2>1 DEF SameRound, d
  <2> QED
    BY <1>2, <1>7, <2>1, <2>2, <2>3, <2>4 DEF Resumes, InRound
<1> QED
  BY <1>6, <1>8 DEF Kept

\* The head moves with its record on the chain.
LEMMA AcceptResumes ==
    ASSUME ResumeInv, NEW r \in Runners, Accept(r)
    PROVE  Kept(r)
<1> DEFINE v == [digest |-> run[r].digest, iteration |-> run[r].k, decision |-> run[r].decision]
<1>1. run[r].pc = "accept"
  BY DEF Accept
<1>2. /\ HInv /\ IInv /\ ChainsAgree /\ Resumes(run[r])
      /\ run[r] \in RunState /\ LocalsInOrder(run[r]) /\ LocalsTraced(run[r])
      /\ graphs \in Seq(Revision) /\ graphs # <<>> /\ run[r].k = Awaited
      /\ run[r].graph_ref = HeadRef
  BY <1>1, AtWork DEF InRound
<1>3. ~ Unrecorded /\ Awaited \in Iterations
  BY <1>1, <1>2 DEF Resumes, InRound
<1>4. HeadIs(run[r].graph_ref)
  BY <1>2 DEF HeadIs
<1>5. /\ UNCHANGED <<memory, ckpt>> /\ graphs' = Append(graphs, v)
      /\ run'[r].pc = "record" /\ run'[r].graph_ref = run[r].digest
      /\ run'[r].best = run[r].evaluation /\ run'[r].k = run[r].k
      /\ run'[r].outcome = run[r].outcome /\ run'[r].digest = run[r].digest
      /\ run'[r].decision = run[r].decision
  BY <1>2, <1>4, AcceptEffect
<1>6. /\ run[r].outcome = "accepted" /\ run[r].decision.accepted
      /\ run[r].evaluation.ref = run[r].digest
      /\ run[r].digest \in Graphs /\ run[r].decision \in Decision /\ run[r].k \in Nat
  BY <1>1, <1>2 DEF LocalsTraced, LocalsInOrder, RunState
<1>7. /\ v \in Revision /\ v.iteration = Awaited /\ v.digest = run[r].digest
      /\ v.decision = run[r].decision
  BY <1>2, <1>6 DEF Revision
<1> HIDE DEF v
<1>8. /\ Unfinished(Awaited) /\ ckpt[Awaited].evaluation # None
      /\ ckpt[Awaited].decision = v.decision /\ ckpt[Awaited].host = v.digest
      /\ ckpt[Awaited].graph_ref = HeadRef /\ ckpt[Awaited].decision # None
      /\ ckpt[Awaited].decision.accepted
  BY <1>1, <1>2, <1>6, <1>7, MarkerAssumption DEF Resumes
<1>9. ChainsAgree' /\ Unrecorded'
  BY <1>2, <1>3, <1>5, <1>7, <1>8, MoveKeepsChains
<1>10. HeadRef' = run[r].digest /\ graphs'[Len(graphs')].decision = run[r].decision
  BY <1>2, <1>5, <1>7, HeadOfAppend DEF HeadRef
<1>11. OutcomeTold(run[r])'
  BY <1>5, <1>6, <1>9, <1>10 DEF OutcomeTold
<1>12. Resumes(run[r])'
  BY <1>2, <1>3, <1>5, <1>6, <1>9, <1>11 DEF Resumes, InRound
<1> QED
  BY <1>9, <1>12 DEF Kept

\* The entry says what the round did to the graph chain.
LEMMA RecordResumes ==
    ASSUME ResumeInv, NEW r \in Runners, Record(r)
    PROVE  Kept(r)
<1> DEFINE e == NewEntry(r)
<1>1. run[r].pc = "record"
  BY DEF Record
<1>2. /\ HInv /\ IInv /\ ChainsAgree /\ Resumes(run[r]) /\ memory \in Seq(Entry)
      /\ run[r].mem = memory /\ graphs # <<>> /\ run[r].k = Awaited
  BY <1>1, AtWork DEF InRound
<1>3. /\ UNCHANGED <<graphs, ckpt>> /\ memory' = Append(memory, e)
      /\ run'[r].pc = "complete" /\ run'[r].graph_ref = run[r].graph_ref
      /\ run'[r].best = run[r].best /\ run'[r].k = run[r].k
  BY <1>2, RecordEffect
<1>4. e.kind = run[r].outcome /\ e.digest = run[r].digest /\ e.decision = run[r].decision
  BY DEF NewEntry
<1> HIDE DEF e
<1>5. Unrecorded <=> e.kind = "accepted"
  BY <1>1, <1>2, <1>4 DEF Resumes, OutcomeTold
<1>6. Unrecorded => Reports(e, graphs[Len(graphs)])
  BY <1>1, <1>2, <1>4, <1>5 DEF Resumes, OutcomeTold, Reports, HeadRef
<1>7. ChainsAgree' /\ ~ Unrecorded' /\ (Awaited' \in Iterations => ~ Unfinished(Awaited)')
  BY <1>2, <1>3, <1>5, <1>6, EntryKeepsChains
<1>8. Awaited' = run'[r].k + 1
  BY <1>2, <1>3 DEF Awaited
<1>9. run'[r].best.ref = run'[r].graph_ref
  BY <1>1, <1>2, <1>3 DEF Resumes, InRound
<1>10. run'[r].k + 1 \in Iterations => ~ Unfinished(run[r].k + 1)'
  BY <1>7, <1>8 DEF Unfinished
<1>11. Resumes(run[r])'
  BY <1>3, <1>7, <1>9, <1>10 DEF Resumes, InRound
<1> QED
  BY <1>7, <1>11 DEF Kept

LEMMA CompleteResumes ==
    ASSUME Checkpointing, ResumeInv, NEW r \in Runners, Complete(r)
    PROVE  Kept(r)
<1>1. run[r].pc = "complete"
  BY DEF Complete
<1>2. /\ HInv /\ IInv /\ ChainsAgree /\ Resumes(run[r]) /\ run[r].k = Len(memory)
      /\ run[r].k \in Nat
  BY <1>1, AtWork DEF RunState
<1>3. /\ UNCHANGED <<graphs, memory>> /\ ckpt' = Saved(run[r].k, Completed)
      /\ run'[r].pc = "end" /\ SameRound(r) /\ run'[r].best = run[r].best
  BY <1>2, CompleteEffect
<1>4. ckpt' = [ckpt EXCEPT ![run[r].k] = Completed]
  BY <1>3 DEF Saved
<1>5. ChainsAgree'
  <2>1. CASE run[r].k \in Iterations
    BY <1>2, <1>3, <1>4, <2>1, CompleteKeepsChains
  <2>2. CASE run[r].k \notin Iterations
    <3>1. ckpt' = ckpt
      BY <1>2, <1>4, <2>2 DEF IInv
    <3> QED
      BY <1>2, <1>3, <3>1, ChainsStay
  <2> QED
    BY <2>1, <2>2
<1>6. run[r].k + 1 \in Iterations => ~ Unfinished(run[r].k + 1)'
  <2> SUFFICES ASSUME run[r].k + 1 \in Iterations
               PROVE  ~ Unfinished(run[r].k + 1)'
    OBVIOUS
  <2>1. ~ Unfinished(run[r].k + 1)
    BY <1>1, <1>2 DEF Resumes
  <2>2. ckpt'[run[r].k + 1] = ckpt[run[r].k + 1]
    <3>1. run[r].k + 1 # run[r].k
      BY <1>2
    <3> QED
      BY <1>2, <1>4, <3>1 DEF IInv
  <2> QED
    BY <1>3, <2>1, <2>2 DEF Unfinished, SameRound
<1>7. ~ Unrecorded' /\ run'[r].best.ref = run'[r].graph_ref
  BY <1>1, <1>2, <1>3 DEF Resumes, InRound, Unrecorded, SameRound
<1>8. run'[r].k + 1 \in Iterations => ~ Unfinished(run[r].k + 1)'
  BY <1>3, <1>6 DEF SameRound
<1>9. Resumes(run[r])'
  BY <1>3, <1>7, <1>8 DEF Resumes, InRound
<1> QED
  BY <1>5, <1>9 DEF Kept

LEMMA EndRoundResumes ==
    ASSUME ResumeInv, NEW r \in Runners, EndRound(r)
    PROVE  Kept(r)
<1>1. run[r].pc = "end"
  BY DEF EndRound
<1>2. IInv /\ ChainsAgree /\ Resumes(run[r]) /\ LocalsTraced(run[r])
  BY AtWork
<1>3. run[r].rec = None /\ UNCHANGED <<graphs, memory, ckpt>>
  BY <1>1, <1>2, EndRoundEffect DEF LocalsTraced, Recordless
<1>4. CASE run'[r] = NotRunning
  BY <1>3, <1>4, LeaveResumes
<1>5. CASE run'[r] # NotRunning
  <2>1. /\ run'[r].pc = "begin" /\ run'[r].k = run[r].k + 1
        /\ run'[r].graph_ref = run[r].graph_ref
        /\ run'[r].rec = run[r].rec /\ run'[r].best = run[r].best
    BY <1>2, <1>5, EndRoundEffect
  <2>2. Resumes(run[r])'
    BY <1>1, <1>2, <1>3, <2>1 DEF Resumes, InRound, Unrecorded, Unfinished
  <2> QED
    BY <1>2, <1>3, <2>2, ChainsStay DEF Kept
<1> QED
  BY <1>4, <1>5

LEMMA InitResume == Init => ResumeInv
<1> SUFFICES ASSUME Init
             PROVE  ResumeInv
  OBVIOUS
<1>1. AloneInv
  BY InitAlone
<1>2. graphs = <<>> /\ memory = <<>> /\ ~ Unrecorded /\ \A k \in Iterations : ~ Unfinished(k)
  BY DEF Init, Unrecorded, Unfinished
<1>3. HistoryAgrees
  BY <1>2 DEF HistoryAgrees
<1>4. ChainsAgree
  BY <1>2, <1>3 DEF ChainsAgree
<1>5. NotRunning.pc = "idle"
  BY DEF NotRunning
<1>6. \A r \in Runners : Resumes(run[r])
  BY <1>5 DEF Init, Resumes, InRound
<1> QED
  BY <1>1, <1>4, <1>6 DEF ResumeInv

LEMMA NextResume ==
    ASSUME Checkpointing, OneProcess, ResumeInv, [Next]_vars
    PROVE  ResumeInv'
<1>1. AloneInv'
  BY NextAlone DEF ResumeInv
<1>2. CASE UNCHANGED vars
  <2>1. ChainsAgree'
    BY <1>2, ChainsStay DEF vars, ResumeInv
  <2>2. ASSUME NEW r \in Runners
        PROVE  Resumes(run[r])'
    <3>1. /\ Resumes(run[r]) /\ (Unrecorded' <=> Unrecorded) /\ HeadRef' = HeadRef
          /\ graphs' = graphs /\ memory' = memory /\ ckpt' = ckpt /\ run' = run
      BY <1>2 DEF vars, ResumeInv, Unrecorded, HeadRef
    <3>2. OutcomeTold(run[r])' <=> OutcomeTold(run[r])
      BY <3>1 DEF OutcomeTold
    <3> QED
      BY <3>1, <3>2 DEF Resumes, Unfinished
  <2> QED
    BY <1>1, <2>1, <2>2 DEF ResumeInv
<1>3. CASE Next
  <2>1. PICK r \in Runners : Start(r) \/ Advance(r) \/ Stop(r)
    BY <1>3 DEF Next
  <2>2. Kept(r)
    <3>1. CASE Start(r)
      BY <3>1, LoadHeadResumes
    <3>2. CASE Stop(r)
      BY <3>2, LeaveResumes, StopEffect, AtWork
    <3>3. CASE \/ Seed(r) \/ LoadMemory(r) \/ LoadCheckpoint(r) \/ Baseline(r)
               \/ BeginRound(r) \/ Refine(r)
      BY <3>3, SeedResumes, LoadMemoryResumes, LoadCheckpointResumes, BaselineResumes,
         BeginRoundResumes, RefineResumes
    <3>4. CASE \/ NoCandidate(r) \/ HostRefuses(r) \/ Duplicate(r) \/ AlreadyAccepted(r)
               \/ Novel(r) \/ Reuse(r)
      BY <3>4, UndecidedResumes, AlreadyAcceptedResumes, NovelResumes, ReuseResumes
    <3>5. CASE \/ Validate(r) \/ Decide(r) \/ Accept(r) \/ Record(r) \/ Complete(r)
               \/ EndRound(r)
      BY <3>5, ValidateResumes, DecideResumes, AcceptResumes, RecordResumes,
         CompleteResumes, EndRoundResumes
    <3> QED
      BY <2>1, <3>1, <3>2, <3>3, <3>4, <3>5 DEF Advance
  <2>3. \A q \in Runners : q = r
    BY DEF OneProcess
  <2> QED
    BY <1>1, <2>2, <2>3 DEF ResumeInv, Kept
<1> QED
  BY <1>2, <1>3

-----------------------------------------------------------------------------
(* The theorems of one process with a checkpoint store.                    *)

\* What one process needs to take up where it or its predecessor stopped holds at every
\* moment of every run (harness.py:190-252).
THEOREM ResumeInvariance ==
    ASSUME Checkpointing, OneProcess
    PROVE  Spec => []ResumeInv
<1>1. Init => ResumeInv
  BY InitResume
<1>2. ResumeInv /\ [Next]_vars => ResumeInv'
  BY NextResume
<1> QED
  BY <1>1, <1>2, PTL DEF Spec

\* Rejection memory and the graph chain tell one history, wherever the process stops: at
\* most the newest graph has no entry yet, and it belongs to the awaited round.
THEOREM HistoriesAgree ==
    ASSUME Checkpointing, OneProcess
    PROVE  Spec => []HistoryAgrees
<1>1. ResumeInv => HistoryAgrees
  BY DEF ResumeInv, ChainsAgree
<1> QED
  BY <1>1, ResumeInvariance, PTL

\* Scores never fall along the graph chain of one process with a checkpoint store when
\* the evaluator repeats itself: a resumed decision is on the control it was made against.
THEOREM ScoresNeverFallAlone ==
    ASSUME Checkpointing, OneProcess, Repeatable
    PROVE  Spec => []NoRegression
<1>1. Init => ResumeInv /\ NoRegression
  BY InitResume DEF Init, NoRegression
<1>2. ResumeInv /\ NoRegression /\ [Next]_vars => (ResumeInv /\ NoRegression)'
  <2> SUFFICES ASSUME ResumeInv, NoRegression, [Next]_vars
               PROVE  NoRegression'
    BY NextResume
  <2>1. ControlIsHead /\ \A r \in Runners : run[r].pc = "accept" => graphs # <<>>
    BY DEF ResumeInv, AloneInv, Resumes, Abreast, ControlIsHead, InRound
  <2> QED
    BY <2>1, StepRises DEF ResumeInv, AloneInv
<1> QED
  BY <1>1, <1>2, PTL DEF Spec

\* The steps a process at one point of evolve() can take.
LEMMA StepsFrom ==
    ASSUME NEW r \in Runners, Start(r) \/ Advance(r) \/ Stop(r),
           run[r].pc \in {"validate", "decide"}
    PROVE  \/ run[r].pc = "validate" /\ (Reuse(r) \/ Validate(r))
           \/ run[r].pc = "decide" /\ Decide(r)
           \/ Stop(r)
<1>1. ~ Start(r)
  BY DEF Start, LoadHead
<1>2. ~ (Seed(r) \/ LoadMemory(r) \/ LoadCheckpoint(r) \/ Baseline(r) \/ BeginRound(r)
         \/ Refine(r))
  BY DEF Seed, LoadMemory, LoadCheckpoint, Baseline, BeginRound, Refine
<1>3. ~ (NoCandidate(r) \/ HostRefuses(r) \/ AlreadyAccepted(r) \/ Duplicate(r) \/ Novel(r))
  BY DEF NoCandidate, HostRefuses, AlreadyAccepted, Duplicate, Novel, Proposed
<1>4. ~ (Accept(r) \/ Record(r) \/ Complete(r) \/ EndRound(r))
  BY DEF Accept, Record, Complete, EndRound
<1>5. Reuse(r) \/ Validate(r) => run[r].pc = "validate"
  BY DEF Reuse, Validate
<1>6. Decide(r) => run[r].pc = "decide"
  BY DEF Decide
<1> QED
  BY <1>1, <1>2, <1>3, <1>4, <1>5, <1>6 DEF Advance

\* A stage whose result is on record is not paid again, whatever interrupted the round.
THEOREM StagesArePaidOnce ==
    ASSUME Checkpointing, OneProcess
    PROVE  Spec => RecordedStageNotRepeated
<1>1. ASSUME ResumeInv, [Next]_vars, NEW r \in Runners,
             run[r].k \in Iterations, Unfinished(run[r].k)
      PROVE  LET p == ckpt[run[r].k]
                 step == <<run[r].pc, run'[r].pc>>
             IN  \/ /\ step # <<"refine", "propose">>
                    /\ step = <<"validate", "decide">> /\ p.evaluation # None
                          => run'[r].evaluation = p.evaluation
                    /\ step \in {<<"decide", "accept">>, <<"decide", "record">>}
                          /\ p.decision # None
                          => run'[r].decision = p.decision
                 \/ UNCHANGED vars
  <2>1. run[r].pc # "refine"
    BY <1>1, AtWork DEF Resumes, LocalsTraced, Recordless
  <2>2. CASE run[r].pc \in {"validate", "decide"} /\ Next
    <3>1. Start(r) \/ Advance(r) \/ Stop(r)
      BY <2>2 DEF Next, OneProcess
    <3>2. IInv /\ run[r].rec = ckpt[run[r].k]
      BY <1>1, <2>2, HeldRecord
    <3>3. CASE Stop(r)
      <4>1. run'[r].pc = "idle"
        BY <3>2, <3>3, StopEffect DEF NotRunning
      <4> QED
        BY <2>1, <4>1
    <3>4. CASE run[r].pc = "validate" /\ (Reuse(r) \/ Validate(r))
      BY <3>2, <3>4, ReuseEffect DEF Validate
    <3>5. CASE run[r].pc = "decide" /\ Decide(r)
      BY <3>2, <3>5, DecideEffect
    <3> QED
      BY <2>2, <3>1, <3>3, <3>4, <3>5, StepsFrom
  <2>3. CASE run[r].pc \notin {"validate", "decide"}
    BY <2>1, <2>3
  <2> QED
    BY <1>1, <2>2, <2>3
<1>2. ResumeInv /\ [Next]_vars =>
        [\A r \in Runners :
            LET p == ckpt[run[r].k]
                step == <<run[r].pc, run'[r].pc>>
            IN  run[r].k \in Iterations /\ Unfinished(run[r].k) =>
                  /\ step # <<"refine", "propose">>
                  /\ step = <<"validate", "decide">> /\ p.evaluation # None
                        => run'[r].evaluation = p.evaluation
                  /\ step \in {<<"decide", "accept">>, <<"decide", "record">>}
                        /\ p.decision # None
                        => run'[r].decision = p.decision]_vars
  BY <1>1
<1> QED
  BY <1>2, ResumeInvariance, PTL DEF Spec, RecordedStageNotRepeated

-----------------------------------------------------------------------------
(* evolve() implements Algorithm 1.                                        *)

\* The two ways of saying that an entry refuses a candidate.
LEMMA BlocksIsRefuted ==
    ASSUME HInv, NEW digest \in Graphs
    PROVE  Alg!Refuted(digest) <=>
               \E i \in 1 .. Len(memory) : Blocks(memory[i]) /\ memory[i].digest = digest
<1>1. ASSUME NEW i \in 1 .. Len(memory), memory[i].digest = digest
      PROVE  Blocks(memory[i]) <=>
                 \/ memory[i].kind = "structural_failure"
                 \/ /\ memory[i].kind = "rejected"
                    /\ memory[i].decision.disposition # "unresolved"
  <2>1. memory[i].kind = "rejected" => memory[i].decision.disposition \in Dispositions
    <3>1. memory[i] \in Entry
      BY DEF HInv, IInv
    <3>2. memory[i].kind = "rejected" => memory[i].decision \in Decision
      BY <3>1 DEF Entry, HInv, RejectedIsDecided
    <3> QED
      BY <3>2 DEF Decision
  <2> QED
    BY <1>1, <2>1, MarkerAssumption DEF Blocks, Dispositions
<1> QED
  BY <1>1 DEF Alg!Refuted

\* What is recorded once the entry of the awaited round is saved.
LEMMA RecordedBefore ==
    ASSUME ResumeInv, graphs # <<>>
    PROVE  /\ RecordedChain # <<>>
           /\ ~ Unrecorded => RecordedChain = graphs /\ Alg!RetainedGraph = HeadRef
           /\ Unrecorded =>
                /\ Awaited \in Iterations /\ Unfinished(Awaited)
                /\ MovedHead(ckpt[Awaited])
                /\ Alg!RetainedGraph = ckpt[Awaited].graph_ref
                /\ graphs = Append(RecordedChain, graphs[Len(graphs)])
                /\ graphs[Len(graphs)].iteration = Awaited
<1> DEFINE n == Len(graphs)
<1>1. /\ graphs \in Seq(Revision) /\ n \in Nat /\ n >= 1 /\ ChainsAgree
      /\ \A i \in 1 .. n : graphs[i] \in Revision
  BY DEF ResumeInv, AloneInv, HInv, IInv
<1>2. CASE ~ Unrecorded
  BY <1>1, <1>2 DEF RecordedChain, Alg!RetainedGraph, HeadRef
<1>3. CASE Unrecorded
  <2>1. /\ n >= 2 /\ Awaited \in Iterations /\ Unfinished(Awaited) /\ MovedHead(ckpt[Awaited])
    BY <1>1, <1>3 DEF ChainsAgree
  <2>2. RecordedChain = SubSeq(graphs, 1, n - 1)
    BY <1>3 DEF RecordedChain
  <2>3. /\ RecordedChain \in Seq(Revision) /\ Len(RecordedChain) = n - 1
        /\ \A i \in 1 .. n - 1 : RecordedChain[i] = graphs[i]
    BY <1>1, <2>1, <2>2
  <2>4. Alg!RetainedGraph = graphs[n - 1].digest
    BY <1>1, <2>1, <2>3 DEF Alg!RetainedGraph
  <2>5. graphs = Append(RecordedChain, graphs[n])
    <3>1. /\ Append(RecordedChain, graphs[n]) \in Seq(Revision)
          /\ Len(Append(RecordedChain, graphs[n])) = n
          /\ \A i \in 1 .. n : Append(RecordedChain, graphs[n])[i] = graphs[i]
      BY <1>1, <2>1, <2>3
    <3> QED
      BY <1>1, <3>1, SeqEqual
  <2>6. graphs[n].iteration = Awaited
    <3>1. graphs[n].iteration > Len(memory) /\ graphs[n].iteration \in Nat
      BY <1>1, <1>3 DEF Unrecorded, Revision
    <3> QED
      BY <1>1, <2>1, <3>1 DEF ChainsAgree, HistoryAgrees, Awaited, HInv, IInv
  <2>7. RecordedChain # <<>>
    BY <1>1, <2>1, <2>3
  <2> QED
    BY <1>3, <2>1, <2>4, <2>5, <2>6, <2>7 DEF MovedHead
<1> QED
  BY <1>2, <1>3

\* The entry a process saves is the entry Algorithm 1 writes.
LEMMA EntryOfRound ==
    ASSUME ResumeInv, NEW r \in Runners, run[r].pc = "record"
    PROVE  /\ NewEntry(r) = Alg!Entry(run[r].outcome, run[r].digest, run[r].decision)
           /\ run[r].decision = None <=> run[r].outcome \notin {"accepted", "rejected"}
<1>1. /\ HInv /\ ChainsAgree /\ Resumes(run[r]) /\ LocalsTraced(run[r]) /\ run[r].k = Awaited
  BY AtWork DEF InRound
<1>2. run[r].outcome = "accepted" => run[r].decision # None
  BY <1>1 DEF Resumes, OutcomeTold, ChainsAgree, MovedHead
<1>3. /\ run[r].outcome = "rejected" => run[r].decision # None
      /\ run[r].decision # None => /\ run[r].outcome \in {"accepted", "rejected"}
                                   /\ run[r].retained = run[r].decision.baseline.score
  BY <1>1 DEF LocalsTraced
<1> QED
  BY <1>1, <1>2, <1>3 DEF NewEntry, Alg!Entry, Awaited

\* The save of an entry is the round.
LEMMA RecordIsRound ==
    ASSUME ResumeInv, ResumeInv', NEW r \in Runners, Record(r)
    PROVE  Alg!Next
<1> DEFINE digest == run[r].digest
           d == run[r].decision
           kind == run[r].outcome
<1>1. run[r].pc = "record"
  BY DEF Record
<1>2. /\ HInv /\ IInv /\ ChainsAgree /\ Resumes(run[r]) /\ LocalsTraced(run[r])
      /\ LocalsInOrder(run[r]) /\ run[r] \in RunState
      /\ memory \in Seq(Entry) /\ run[r].mem = memory /\ run[r].k = Awaited
      /\ graphs # <<>> /\ run[r].graph_ref = HeadRef /\ OutcomeTold(run[r])
  BY <1>1, AtWork DEF InRound, Resumes
<1>3. /\ graphs' = graphs /\ memory' = Append(memory, NewEntry(r))
      /\ run'[r].pc = "complete"
  BY <1>2, RecordEffect
<1>4. ~ Unrecorded' /\ RecordedChain' = graphs
  <2>1. Resumes(run[r])'
    BY DEF ResumeInv
  <2>2. ~ Unrecorded'
    BY <1>3, <2>1 DEF Resumes
  <2> QED
    BY <1>3, <2>2 DEF RecordedChain
<1>5. Alg!Finish(kind, digest, d)
  BY <1>1, <1>3, EntryOfRound DEF Alg!Finish
<1>6. RecordedChain # <<>> /\ digest \in Graphs \cup {None} /\ kind \in Outcomes
  BY <1>1, <1>2, RecordedBefore DEF RunState, LocalsInOrder
<1>7. d = None <=> kind \notin {"accepted", "rejected"}
  BY <1>1, EntryOfRound
<1>8. kind # "accepted" => /\ ~ Unrecorded /\ UNCHANGED RecordedChain
                           /\ Alg!RetainedGraph = HeadRef
  <2>1. kind # "accepted" => ~ Unrecorded
    BY <1>1, <1>2 DEF Resumes
  <2> QED
    BY <1>2, <1>4, <2>1, RecordedBefore
<1>9. ASSUME digest \in Graphs, kind \in {"accepted", "rejected"}
      PROVE  ~ Alg!Refuted(digest)
  <2>1. Unrefused(digest, memory, Awaited)
    BY <1>1, <1>2, <1>9 DEF LocalsTraced
  <2>2. 1 .. Awaited - 1 = 1 .. Len(memory)
    BY <1>2 DEF Awaited
  <2> QED
    BY <1>2, <1>9, <2>1, <2>2, BlocksIsRefuted DEF Unrefused
<1>10. CASE kind = "no_action"
  <2>1. digest = None /\ d = None
    BY <1>2, <1>7, <1>10 DEF OutcomeTold
  <2>2. Alg!NoCandidate("no_action")
    BY <1>5, <1>6, <1>8, <1>10, <2>1 DEF Alg!NoCandidate
  <2> QED
    BY <2>2 DEF Alg!Next
<1>11. CASE kind = "structural_failure"
  <2>1. d = None
    BY <1>7, <1>11
  <2>2. CASE digest = None
    <3>1. Alg!NoCandidate("structural_failure")
      BY <1>5, <1>6, <1>8, <1>11, <2>1, <2>2 DEF Alg!NoCandidate
    <3> QED
      BY <3>1 DEF Alg!Next
  <2>3. CASE digest \in Graphs
    <3>1. Alg!Refused(digest)
      BY <1>5, <1>6, <1>8, <1>11, <2>1 DEF Alg!Refused
    <3> QED
      BY <2>3, <3>1 DEF Alg!Next
  <2> QED
    BY <1>6, <2>2, <2>3
<1>12. CASE kind = "duplicate_candidate"
  <2>1. d = None /\ digest \in Graphs /\ Known(digest, HeadRef, memory)
    BY <1>2, <1>7, <1>12 DEF OutcomeTold
  <2>2. ~ Alg!Novel(digest)
    <3>1. CASE digest = HeadRef
      BY <1>8, <1>12, <3>1 DEF Alg!Novel
    <3>2. CASE digest # HeadRef
      <4>1. PICK i \in DOMAIN memory : Blocks(memory[i]) /\ memory[i].digest = digest
        BY <2>1, <3>2 DEF Known
      <4>2. i \in 1 .. Len(memory)
        BY <1>2, <4>1
      <4> QED
        BY <1>2, <2>1, <4>1, <4>2, BlocksIsRefuted DEF Alg!Novel
    <3> QED
      BY <3>1, <3>2
  <2>3. Alg!Repeated(digest)
    BY <1>5, <1>6, <1>8, <1>12, <2>1, <2>2 DEF Alg!Repeated
  <2> QED
    BY <2>1, <2>3 DEF Alg!Next
<1>13. CASE kind = "rejected"
  <2>1. /\ d \in Decision /\ d.accepted = FALSE /\ Verdict(d)
        /\ d.baseline.ref = HeadRef /\ d.candidate.ref = digest /\ digest # HeadRef
    <3>1. /\ d \in Decision /\ ~ d.accepted /\ Verdict(d)
          /\ d.baseline.ref = HeadRef /\ d.candidate.ref = digest /\ digest # HeadRef
      BY <1>2, <1>13 DEF OutcomeTold
    <3> QED
      BY <3>1 DEF Decision
  <2>2. digest \in Graphs /\ d.baseline \in Evaluation /\ d.candidate \in Evaluation
    BY <2>1 DEF Decision, Evaluation
  <2>3. d \in Alg!Verdicts(digest, FALSE)
    BY <1>8, <1>13, <2>1, <2>2
       DEF Alg!Verdicts, Verdict, Decision, Evaluation, Dispositions, Alg!Dispositions
  <2>4. Alg!Reject(digest, d)
    BY <1>5, <1>8, <1>9, <1>13, <2>1, <2>2 DEF Alg!Reject, Alg!Novel
  <2> QED
    BY <1>6, <2>2, <2>3, <2>4 DEF Alg!Next
<1>14. CASE kind = "accepted"
  <2> DEFINE p == ckpt[Awaited]
             head == graphs[Len(graphs)]
  <2>1. Unrecorded /\ digest = HeadRef /\ d = head.decision
    BY <1>2, <1>14 DEF OutcomeTold
  <2>2. /\ Awaited \in Iterations /\ Unfinished(Awaited) /\ MovedHead(p)
        /\ Alg!RetainedGraph = p.graph_ref
        /\ graphs = Append(RecordedChain, head) /\ head.iteration = Awaited
    BY <1>2, <2>1, RecordedBefore
  <2>3. p \in Payload /\ Traced(p, Awaited, memory) /\ AgainstHead(p)
    BY <1>2, <2>2, KeptRecord DEF GoodPayload, ChainsAgree
  <2>4. /\ p.host = digest /\ digest # p.graph_ref /\ p.decision = d /\ d # None
        /\ d.accepted /\ DecidedOn(d, p.baseline, p.evaluation, p.binding)
        /\ p.baseline.ref = p.graph_ref /\ p.evaluation.ref = digest
    BY <2>1, <2>2, <2>3 DEF MovedHead, Traced, AgainstHead
  <2> HIDE DEF p
  <2>5. d \in Decision /\ digest \in Graphs /\ head \in Revision
    <3>1. head \in Revision
      BY <1>2 DEF IInv
    <3>2. head.digest \in Graphs
      BY <3>1 DEF Revision
    <3>3. d \in Decision
      BY <2>3, <2>4 DEF Payload
    <3> QED
      BY <2>1, <3>1, <3>2, <3>3 DEF HeadRef
  <2>6. /\ d.accepted = TRUE /\ Verdict(d)
        /\ d.baseline.ref = p.graph_ref /\ d.candidate.ref = digest
        /\ d.baseline \in Evaluation /\ d.candidate \in Evaluation
    BY <2>4, <2>5 DEF Decision, DecidedOn
  <2>7. d \in Alg!Verdicts(digest, TRUE)
    BY <2>2, <2>5, <2>6
       DEF Alg!Verdicts, Verdict, Decision, Evaluation, Dispositions, Alg!Dispositions
  <2>8. head = [digest |-> digest, iteration |-> Len(memory) + 1, decision |-> d]
    BY <2>1, <2>2, <2>5 DEF Revision, HeadRef, Awaited
  <2>9. RecordedChain' = Append(RecordedChain, head)
    BY <1>4, <2>2
  <2> HIDE DEF head
  <2>10. Alg!Accept(digest, d)
    BY <1>5, <1>9, <1>14, <2>2, <2>4, <2>5, <2>8, <2>9 DEF Alg!Accept, Alg!Novel
  <2> QED
    BY <1>6, <2>5, <2>7, <2>10 DEF Alg!Next
<1> QED
  BY <1>6, <1>10, <1>11, <1>12, <1>13, <1>14 DEF Outcomes

\* A step is a round, the seed, or preparation that Algorithm 1 does not see.
LEMMA StepIsRound ==
    ASSUME Checkpointing, OneProcess, ResumeInv, ResumeInv', [Next]_vars
    PROVE  [Alg!Next]_<<RecordedChain, memory>>
<1>1. CASE UNCHANGED <<graphs, memory>>
  BY <1>1 DEF RecordedChain, Unrecorded
<1>2. ASSUME NEW r \in Runners, Seed(r)
      PROVE  [Alg!Next]_<<RecordedChain, memory>>
  <2>1. /\ HInv /\ IInv /\ ChainsAgree /\ LocalsInOrder(run[r]) /\ memory' = memory
    BY <1>2, AtWork, SeedEffect
  <2>2. CASE graphs' = graphs
    BY <1>1, <2>1, <2>2
  <2>3. CASE graphs' # graphs
    <3> DEFINE v == [digest |-> run[r].graph_ref, iteration |-> 0, decision |-> None]
    <3>1. graphs = <<>> /\ graphs' = <<v>> /\ run[r].pc = "seed"
      BY <1>2, <2>1, <2>3, SeedEffect
    <3>2. memory = <<>>
      BY <2>1, <3>1 DEF ChainsAgree
    <3>3. ~ Unrecorded'
      <4>1. Len(graphs') = 1 /\ graphs'[1].iteration = 0
        BY <3>1
      <4> QED
        BY <2>1, <3>2, <4>1 DEF Unrecorded
    <3>4. RecordedChain = <<>> /\ RecordedChain' = <<v>>
      BY <3>1, <3>3 DEF RecordedChain, Unrecorded
    <3>5. run[r].graph_ref \in Graphs
      BY <2>1, <3>1 DEF LocalsInOrder
    <3>6. Alg!Seed(run[r].graph_ref)
      BY <2>1, <3>4 DEF Alg!Seed
    <3> QED
      BY <3>5, <3>6 DEF Alg!Next
  <2> QED
    BY <2>2, <2>3
<1>3. ASSUME NEW r \in Runners, Accept(r)
      PROVE  [Alg!Next]_<<RecordedChain, memory>>
  <2>1. /\ IInv /\ Resumes(run[r]) /\ run[r].pc = "accept" /\ graphs \in Seq(Revision)
        /\ memory' = memory /\ run[r].k = Awaited /\ memory \in Seq(Entry)
    BY <1>3, AtWork, AcceptEffect DEF InRound, Accept
  <2>2. CASE graphs' = graphs
    BY <1>1, <2>1, <2>2
  <2>3. CASE graphs' # graphs
    <3> DEFINE v == [digest |-> run[r].digest, iteration |-> run[r].k,
                     decision |-> run[r].decision]
    <3>1. graphs' = Append(graphs, v) /\ v.iteration = Len(memory) + 1
      BY <1>3, <2>1, <2>3, AcceptEffect DEF Awaited
    <3> HIDE DEF v
    <3>2. /\ graphs' # <<>> /\ Len(graphs') = Len(graphs) + 1 /\ graphs'[Len(graphs) + 1] = v
          /\ SubSeq(graphs', 1, Len(graphs)) = graphs
      BY <2>1, <3>1, HeadOfAppend, AppendGrows
    <3>3. Unrecorded' /\ ~ Unrecorded
      BY <2>1, <3>1, <3>2 DEF Unrecorded, Resumes
    <3>4. RecordedChain' = graphs /\ RecordedChain = graphs
      BY <2>1, <3>2, <3>3 DEF RecordedChain
    <3> QED
      BY <2>1, <3>4
  <2> QED
    BY <2>2, <2>3
<1>4. ASSUME NEW r \in Runners, Start(r) \/ Advance(r) \/ Stop(r)
      PROVE  Seed(r) \/ Accept(r) \/ Record(r) \/ UNCHANGED <<graphs, memory>>
  <2>1. CASE Start(r) \/ Stop(r)
    BY <2>1 DEF Start, Stop, LoadHead, Exhaust, Crash
  <2>2. CASE LoadMemory(r) \/ LoadCheckpoint(r) \/ Baseline(r) \/ BeginRound(r) \/ Refine(r)
    BY <2>2 DEF LoadMemory, LoadCheckpoint, Baseline, BeginRound, Refine
  <2>3. CASE NoCandidate(r) \/ HostRefuses(r) \/ AlreadyAccepted(r) \/ Duplicate(r) \/ Novel(r)
    BY <2>3 DEF Settle, NoCandidate, HostRefuses, AlreadyAccepted, Duplicate, Novel
  <2>4. CASE Reuse(r) \/ Validate(r) \/ Decide(r) \/ Complete(r) \/ EndRound(r)
    BY <2>4 DEF Reuse, Validate, Decide, Complete, EndRound
  <2> QED
    BY <1>4, <2>1, <2>2, <2>3, <2>4 DEF Advance
<1> QED
  BY <1>1, <1>2, <1>3, <1>4, RecordIsRound DEF Next, vars

\* evolve() with one process at a time and a checkpoint store implements Algorithm 1,
\* however it is interrupted: an entry is saved exactly when a round of Algorithm 1
\* happens, on the graph the round before it retained, and the head moves with it.
THEOREM EvolveImplementsAlgorithm1 ==
    ASSUME Checkpointing, OneProcess
    PROVE  Spec => ImplementsAlgorithm1
<1>1. Init => Alg!Init
  BY DEF Init, Alg!Init, RecordedChain, Unrecorded
<1>2. ResumeInv /\ ResumeInv' /\ [Next]_vars => [Alg!Next]_<<RecordedChain, memory>>
  BY StepIsRound
<1> QED
  BY <1>1, <1>2, ResumeInvariance, PTL DEF Spec, ImplementsAlgorithm1, Alg!Spec

=============================================================================

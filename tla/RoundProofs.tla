------------------------------ MODULE RoundProofs ------------------------------
(***************************************************************************)
(* The stages of a round, for any values of their constants: each keeps    *)
(* its own invariant in the behaviours that are its own.                   *)
(***************************************************************************)
EXTENDS MCRound, CandidateProofs

USE CallsAssumption

Asked == {c \in Calls!Callers : call[c] = "asked"}

\* A call on its way holds a place below the ceilings: the room for what it will be counted as
\* is given up when it is asked for, with the meter below its ceilings.
Room ==
    /\ meter.calls + Cardinality(Asked) <= MaxCalls - 1 + Cardinality(Calls!Callers)
    /\ meter.tokens + Tokens * Cardinality(Asked) <= MaxTokens - 1 + Tokens * Cardinality(Calls!Callers)
    /\ meter.evaluations <= MaxEvaluations
    /\ stage = "evaluating" => meter.evaluations < MaxEvaluations

CallsInv == Calls!TypeOK /\ Room

-----------------------------------------------------------------------------
(* Counting the calls on their way.                                        *)

\* There are finitely many callers, and no more calls on their way.
LEMMA AskedFinite ==
    /\ IsFiniteSet(Calls!Callers) /\ Cardinality(Calls!Callers) \in Nat
    /\ IsFiniteSet(Asked) /\ Cardinality(Asked) \in Nat
    /\ Cardinality(Asked) <= Cardinality(Calls!Callers)
  <1>1. IsFiniteSet(Calls!Callers)
    BY FS_AddElement DEF Calls!Callers
  <1>2. Asked \subseteq Calls!Callers
    BY DEF Asked
  <1>3. IsFiniteSet(Asked) /\ Cardinality(Asked) <= Cardinality(Calls!Callers)
    BY <1>1, <1>2, FS_Subset
  <1> QED
    BY <1>1, <1>3, FS_CardinalityType

\* A product grows with its factor.
LEMMA Product ==
    ASSUME NEW t \in Nat, NEW a \in Nat, NEW b \in Nat, a <= b
    PROVE  t * a \in Nat /\ t * b \in Nat /\ t * a <= t * b /\ t * (a + 1) = t * a + t
  <1>1. t * b = t * a + t * (b - a)
    BY SMTT(30)
  <1>2. t * (b - a) \in Nat /\ t * a \in Nat
    BY SMTT(30)
  <1> QED
    BY <1>1, <1>2, SMTT(30)

\* An answered or failed call is no longer on its way.
LEMMA OneLess ==
    ASSUME NEW c \in Asked, Asked' = Asked \ {c}
    PROVE  Cardinality(Asked) = Cardinality(Asked') + 1 /\ Cardinality(Asked') \in Nat
  <1>1. IsFiniteSet(Asked) /\ Cardinality(Asked) \in Nat
    BY AskedFinite
  <1>2. Cardinality(Asked \ {c}) = Cardinality(Asked) - 1 /\ IsFiniteSet(Asked \ {c})
    BY <1>1, FS_RemoveElement
  <1>3. Cardinality(Asked \ {c}) \in Nat
    BY <1>2, FS_CardinalityType
  <1> QED
    BY <1>1, <1>2, <1>3

-----------------------------------------------------------------------------
\* Nothing is on its way at first.
LEMMA CallsInit == Calls!Init => CallsInv
  <1> SUFFICES ASSUME Calls!Init PROVE CallsInv
    OBVIOUS
  <1>1. Calls!TypeOK
    <2>1. guide \in [Guides -> [steps : Nat, visited : Nat, calls : Nat, log : Seq({"raw", "generative"})]]
      BY DEF Calls!Init
    <2>2. proposal \in [edits : {None, "empty", "some"}, candidate : BOOLEAN, replies : Seq(Calls!Replies)]
      BY DEF Calls!Init, Calls!NoProposal
    <2> QED
      BY <2>1, <2>2 DEF Calls!Init, Calls!TypeOK, Calls!Callers
  <1>2. Asked = {}
    BY DEF Calls!Init, Asked
  <1>3. Cardinality(Asked) = 0
    BY <1>2, FS_EmptySet
  <1>4. Tokens * 0 <= Tokens * Cardinality(Calls!Callers)
    BY AskedFinite, Product
  <1> QED
    BY <1>1, <1>3, <1>4, AskedFinite, SMTT(30) DEF Calls!Init, CallsInv, Room

GuideType == [steps : Nat, visited : Nat, calls : Nat, log : Seq({"raw", "generative"})]

\* What a step does to a Guide.
LEMMA VisitType ==
    ASSUME Calls!TypeOK, NEW g \in Guides, NEW located \in BOOLEAN
    PROVE  Calls!Visit(g, located) \in GuideType
  <1>1. guide[g] \in GuideType
    BY DEF Calls!TypeOK, GuideType
  <1> DEFINE next == [guide[g] EXCEPT !.steps = @ + 1]
  <1>2. next \in GuideType
    BY <1>1 DEF GuideType
  <1> HIDE DEF next
  <1>3. [next EXCEPT !.visited = @ + 1] \in GuideType
    BY <1>2 DEF GuideType
  <1> QED
    BY <1>2, <1>3 DEF Calls!Visit, next

\* What is logged of it.
LEMMA LogType ==
    ASSUME NEW visited \in GuideType, NEW mode \in {"raw", "generative"}
    PROVE  Calls!Log(visited, mode) \in GuideType
  <1>1. Append(visited.log, mode) \in Seq({"raw", "generative"})
    BY DEF GuideType
  <1> QED
    BY <1>1 DEF Calls!Log, GuideType

\* A call that is asked for takes its place while the meter is below its ceilings.
LEMMA AskKeepsRoom ==
    ASSUME CallsInv, NEW c \in Calls!Callers, call[c] = "none", Calls!Ask(c), UNCHANGED meter,
           stage' = stage
    PROVE  Room'
  <1>1. meter.calls <= MaxCalls - 1 /\ meter.tokens <= MaxTokens - 1
    BY DEF Calls!Ask, Calls!Exhausted, CallsInv, Calls!TypeOK
  <1>2. Cardinality(Asked)' <= Cardinality(Calls!Callers) /\ Cardinality(Asked)' \in Nat /\ Cardinality(Calls!Callers) \in Nat
    <2>1. Asked' \subseteq Calls!Callers
      BY DEF Asked
    <2> QED
      BY <2>1, AskedFinite, FS_Subset, FS_CardinalityType
  <1>3. Tokens * Cardinality(Asked)' <= Tokens * Cardinality(Calls!Callers)
        /\ Tokens * Cardinality(Asked)' \in Nat /\ Tokens * Cardinality(Calls!Callers) \in Nat
    BY <1>2, Product
  <1>4. meter.calls \in Nat /\ meter.tokens \in Nat
    BY DEF CallsInv, Calls!TypeOK
  <1> DEFINE a == Cardinality(Asked)'
             n == Cardinality(Calls!Callers)
             ta == Tokens * a
             tn == Tokens * n
  <1> HIDE DEF a, n, ta, tn
  <1>5. meter.calls + a <= MaxCalls - 1 + n
    BY <1>1, <1>2, <1>4 DEF a, n
  <1>6. meter.tokens + ta <= MaxTokens - 1 + tn
    BY <1>1, <1>3, <1>4 DEF a, n, ta, tn
  <1> QED
    BY <1>5, <1>6 DEF Room, CallsInv, a, n, ta, tn

-----------------------------------------------------------------------------
\* One step of the model, with every call it makes (hooks.py:107-160).
LEMMA CallsStep == CallsInv /\ [Calls!Next]_Calls!vars => CallsInv'
  <1> SUFFICES ASSUME CallsInv, [Calls!Next]_Calls!vars PROVE CallsInv'
    OBVIOUS
  <1> USE DEF CallsInv
  <1>1. ASSUME NEW c \in Calls!Callers, Calls!Answer(c) PROVE CallsInv'
    <2>1. PICK t \in 0 .. Tokens : meter' = [calls |-> meter.calls + 1, tokens |-> meter.tokens + t,
                                           evaluations |-> meter.evaluations]
      BY <1>1 DEF Calls!Answer
    <2>2. t \in Nat /\ t <= Tokens
      OBVIOUS
    <2>3. /\ meter'.calls = meter.calls + 1
          /\ meter'.tokens = meter.tokens + t
          /\ meter'.evaluations = meter.evaluations
      BY <2>1 DEF Calls!TypeOK
    <2>4. Calls!TypeOK'
      <3>1. meter' \in [calls : Nat, tokens : Nat, evaluations : Nat]
        BY <2>1, <2>2 DEF Calls!TypeOK
      <3>2. call' \in [Calls!Callers -> {"none", "asked", "answered"}]
        BY <1>1 DEF Calls!Answer, Calls!TypeOK
      <3>3. call'[Refiner] # "none" => call[Refiner] # "none"
        BY <1>1 DEF Calls!Answer, Calls!TypeOK, Calls!Callers
      <3>4. UNCHANGED <<late, guide, stage, proposal, refined, lost>>
        BY <1>1 DEF Calls!Answer
      <3> QED
        BY <3>1, <3>2, <3>3, <3>4 DEF Calls!TypeOK
    <2>5. Room'
      <3>1. c \in Asked /\ Asked' = Asked \ {c}
        BY <1>1 DEF Calls!Answer, Asked, Calls!TypeOK
      <3>2. Cardinality(Asked) = Cardinality(Asked)' + 1 /\ Cardinality(Asked)' \in Nat
        BY <3>1, OneLess
      <3>3. Tokens * Cardinality(Asked) = Tokens * Cardinality(Asked)' + Tokens
        BY <3>2, Product
      <3> DEFINE a == Cardinality(Asked)
                 b == Cardinality(Asked)'
                 n == Cardinality(Calls!Callers)
                 ta == Tokens * a
                 tb == Tokens * b
                 tn == Tokens * n
      <3>4. /\ a \in Nat /\ b \in Nat /\ n \in Nat
            /\ ta \in Nat /\ tb \in Nat /\ tn \in Nat
        BY <3>2, AskedFinite, Product
      <3>5. /\ meter.calls + a <= MaxCalls - 1 + n
            /\ meter.tokens + ta <= MaxTokens - 1 + tn
            /\ a = b + 1 /\ ta = tb + Tokens
        BY <3>2, <3>3 DEF Room
      <3>6. meter.calls \in Nat /\ meter.tokens \in Nat
        BY DEF Calls!TypeOK
      <3> HIDE DEF a, b, n, ta, tb, tn
      <3>7. meter'.calls + b <= MaxCalls - 1 + n
        BY <2>3, <3>4, <3>5, <3>6
      <3>8. meter'.tokens + tb <= MaxTokens - 1 + tn
        BY <2>2, <2>3, <3>4, <3>5, <3>6
      <3>9. stage' = stage
        BY <1>1 DEF Calls!Answer
      <3> QED
        BY <2>3, <3>7, <3>8, <3>9 DEF Room, a, b, n, ta, tb, tn
    <2> QED
      BY <2>4, <2>5
  <1>2. ASSUME NEW c \in Calls!Callers, Calls!Fail(c) PROVE CallsInv'
    <2>1. Calls!TypeOK'
      BY <1>2 DEF Calls!Fail, Calls!TypeOK, Calls!Callers
    <2>2. Room'
      <3>1. c \in Asked /\ Asked' = Asked \ {c}
        BY <1>2 DEF Calls!Fail, Asked, Calls!TypeOK
      <3>2. Cardinality(Asked) = Cardinality(Asked)' + 1 /\ Cardinality(Asked)' \in Nat
        BY <3>1, OneLess
      <3>3. Tokens * Cardinality(Asked) = Tokens * Cardinality(Asked)' + Tokens
        BY <3>2, Product
      <3> DEFINE a == Cardinality(Asked)
                 b == Cardinality(Asked)'
                 n == Cardinality(Calls!Callers)
                 ta == Tokens * a
                 tb == Tokens * b
                 tn == Tokens * n
      <3>4. /\ a \in Nat /\ b \in Nat /\ n \in Nat
            /\ ta \in Nat /\ tb \in Nat /\ tn \in Nat
        BY <3>2, AskedFinite, Product
      <3>5. /\ meter.calls + a <= MaxCalls - 1 + n
            /\ meter.tokens + ta <= MaxTokens - 1 + tn
            /\ a = b + 1 /\ ta = tb + Tokens
        BY <3>2, <3>3 DEF Room
      <3>6. meter.calls \in Nat /\ meter.tokens \in Nat /\ meter' = meter
        BY <1>2 DEF Calls!TypeOK, Calls!Fail
      <3> HIDE DEF a, b, n, ta, tb, tn
      <3>7. meter'.calls + b <= MaxCalls - 1 + n
        BY <3>4, <3>5, <3>6
      <3>8. meter'.tokens + tb <= MaxTokens - 1 + tn
        BY <3>4, <3>5, <3>6
      <3>9. stage' = stage \/ stage' = "stopped"
        BY <1>2 DEF Calls!Fail
      <3> QED
        BY <3>6, <3>7, <3>8, <3>9 DEF Room, a, b, n, ta, tb, tn
    <2> QED
      BY <2>1, <2>2
  <1>3. CASE Calls!TimePasses
    <2>1. UNCHANGED <<meter, call, guide, stage, proposal, refined, lost>> /\ late' = TRUE
      BY <1>3 DEF Calls!TimePasses
    <2> QED
      BY <2>1 DEF Calls!TypeOK, Room, Asked
  <1>4. ASSUME NEW g \in Guides, Calls!Guidance(g) PROVE CallsInv'
    <2>1. UNCHANGED <<meter, late, stage, proposal, refined, lost>> /\ call[g] = "none"
      BY <1>4 DEF Calls!Guidance
    <2>2. g \in Calls!Callers /\ g # Refiner
      BY DEF Calls!Callers
    <2>3. guide' \in [Guides -> GuideType]
      <3>1. PICK located \in BOOLEAN :
              \/ guide' = [guide EXCEPT ![g] = Calls!Log(Calls!Visit(g, located), "raw")]
              \/ guide' = [guide EXCEPT ![g] = Calls!Visit(g, located)]
        BY <1>4 DEF Calls!Guidance
      <3>2. Calls!Visit(g, located) \in GuideType /\ Calls!Log(Calls!Visit(g, located), "raw") \in GuideType
        BY VisitType, LogType
      <3> QED
        BY <3>1, <3>2 DEF Calls!TypeOK, GuideType
    <2>4. call' = call \/ (Calls!Ask(g) /\ call' = [call EXCEPT ![g] = "asked"])
      BY <1>4 DEF Calls!Guidance, Calls!Ask
    <2>5. call' \in [Calls!Callers -> {"none", "asked", "answered"}] /\ call'[Refiner] = call[Refiner]
      BY <2>2, <2>4 DEF Calls!TypeOK, Calls!Callers
    <2>6. Calls!TypeOK'
      BY <2>1, <2>3, <2>5 DEF Calls!TypeOK, GuideType
    <2>7. Room'
      <3>1. CASE call' = call
        BY <2>1, <3>1 DEF Room, Asked
      <3>2. CASE Calls!Ask(g)
        BY <2>1, <2>2, <3>2, AskKeepsRoom
      <3> QED
        BY <2>4, <3>1, <3>2
    <2> QED
      BY <2>6, <2>7
  <1>5. ASSUME NEW g \in Guides, Calls!Guided(g) PROVE CallsInv'
    <2>1. UNCHANGED <<meter, late, stage, proposal, refined, lost>>
      BY <1>5 DEF Calls!Guided
    <2>2. g \in Calls!Callers /\ g # Refiner
      BY DEF Calls!Callers
    <2>3. guide' \in [Guides -> GuideType]
      <3> DEFINE paid == [guide[g] EXCEPT !.calls = @ + 1]
      <3>0. guide[g] \in GuideType
        BY DEF Calls!TypeOK, GuideType
      <3>1. paid \in GuideType
        BY <3>0 DEF GuideType
      <3>2. guide' = [guide EXCEPT ![g] = Calls!Log(paid, "generative")]
        BY <1>5 DEF Calls!Guided
      <3> HIDE DEF paid
      <3>3. Calls!Log(paid, "generative") \in GuideType
        BY <3>1, LogType
      <3> QED
        BY <3>2, <3>3 DEF Calls!TypeOK, GuideType
    <2>4. call' \in [Calls!Callers -> {"none", "asked", "answered"}] /\ call'[Refiner] = call[Refiner]
      BY <1>5, <2>2 DEF Calls!Guided, Calls!TypeOK, Calls!Callers
    <2>5. Asked' = Asked
      BY <1>5 DEF Calls!Guided, Asked, Calls!TypeOK
    <2> QED
      BY <2>1, <2>3, <2>4, <2>5 DEF Calls!TypeOK, Room, GuideType
  <1>6. CASE Calls!Baseline
    <2>1. Calls!TypeOK'
      BY <1>6 DEF Calls!Baseline, Calls!TypeOK
    <2>2. Room'
      BY <1>6 DEF Calls!Baseline, Room, Asked, Calls!TypeOK
    <2> QED
      BY <2>1, <2>2
  <1>7. CASE Calls!Round
    <2>1. Calls!TypeOK'
      BY <1>7 DEF Calls!Round, Calls!TypeOK, Calls!NoProposal
    <2>2. Room'
      BY <1>7 DEF Calls!Round, Room, Asked
    <2> QED
      BY <2>1, <2>2
  <1>8. CASE Calls!Attempt
    <2>1. UNCHANGED <<meter, late, guide, proposal, refined, lost>> /\ call[Refiner] = "none" /\ stage = "propose"
      BY <1>8 DEF Calls!Attempt
    <2>2. \/ stage' = "stopped" /\ call' = call
          \/ Calls!Ask(Refiner) /\ stage' = stage /\ call' = [call EXCEPT ![Refiner] = "asked"]
      BY <1>8 DEF Calls!Attempt, Calls!Ask
    <2>3. Calls!TypeOK'
      BY <2>1, <2>2 DEF Calls!TypeOK, Calls!Callers
    <2>4. Room'
      <3>1. CASE stage' = "stopped" /\ call' = call
        BY <2>1, <3>1 DEF Room, Asked
      <3>2. CASE Calls!Ask(Refiner) /\ stage' = stage
        BY <2>1, <3>2, AskKeepsRoom DEF Calls!Callers
      <3> QED
        BY <2>2, <3>1, <3>2
    <2> QED
      BY <2>3, <2>4
  <1>9. CASE Calls!Reply
    <2>1. /\ call[Refiner] = "answered" /\ stage = "propose"
          /\ call' = [call EXCEPT ![Refiner] = "none"] /\ refined' = refined + 1
          /\ UNCHANGED <<meter, late, guide, lost>>
      BY <1>9 DEF Calls!Reply, Calls!TypeOK
    <2>2. PICK reply \in Calls!Replies :
            LET replies == Append(proposal.replies, reply)
            IN  /\ proposal' = [edits |-> CASE reply = "unreadable" -> None
                                            [] reply = "empty" -> "empty"
                                            [] OTHER -> "some",
                                candidate |-> (reply = "good"), replies |-> replies]
                /\ stage' = IF reply \in {"empty", "good"} \/ Len(replies) = Retries + 1
                            THEN "proposed" ELSE "propose"
      BY <1>9 DEF Calls!Reply
    <2>3. stage' \in {"proposed", "propose"}
      BY <2>2
    <2>4. proposal' \in [edits : {None, "empty", "some"}, candidate : BOOLEAN, replies : Seq(Calls!Replies)]
      <3>1. Append(proposal.replies, reply) \in Seq(Calls!Replies)
        BY DEF Calls!TypeOK
      <3> QED
        BY <2>2, <3>1
    <2>5. call' \in [Calls!Callers -> {"none", "asked", "answered"}] /\ call'[Refiner] = "none"
      BY <2>1 DEF Calls!TypeOK, Calls!Callers
    <2>6. Asked' = Asked
      BY <2>1 DEF Asked, Calls!TypeOK
    <2>7. Calls!TypeOK'
      BY <2>1, <2>3, <2>4, <2>5 DEF Calls!TypeOK
    <2>8. Room'
      BY <2>1, <2>3, <2>6 DEF Room
    <2> QED
      BY <2>7, <2>8
  <1>10. CASE Calls!Proposed
    <2>1. UNCHANGED <<meter, late, call, guide, proposal, refined, lost>> /\ stage = "proposed"
      BY <1>10 DEF Calls!Proposed
    <2>2. /\ stage' \in {"iteration", "stopped", "evaluating"}
          /\ stage' = "evaluating" => meter.evaluations < MaxEvaluations
      BY <1>10 DEF Calls!Proposed, Calls!TypeOK
    <2>3. Calls!TypeOK'
      BY <2>1, <2>2 DEF Calls!TypeOK
    <2>4. Room'
      BY <2>1, <2>2 DEF Room, Asked
    <2> QED
      BY <2>3, <2>4
  <1>11. CASE Calls!Evaluated
    <2>1. UNCHANGED <<late, call, guide, proposal, refined, lost>> /\ stage' \in {"iteration", "stopped"}
      BY <1>11 DEF Calls!Evaluated
    <2>2. /\ meter' \in [calls : Nat, tokens : Nat, evaluations : Nat]
          /\ meter'.calls = meter.calls /\ meter'.tokens = meter.tokens
          /\ meter'.evaluations <= MaxEvaluations
      BY <1>11 DEF Calls!Evaluated, Calls!TypeOK, Room
    <2>3. call[Refiner] = "none"
      BY <1>11 DEF Calls!Evaluated, Calls!TypeOK, Calls!Callers
    <2>4. Calls!TypeOK'
      BY <2>1, <2>2, <2>3 DEF Calls!TypeOK
    <2>5. Room'
      BY <2>1, <2>2 DEF Room, Asked
    <2> QED
      BY <2>4, <2>5
  <1>12. ASSUME NEW c \in Calls!Callers, Calls!HookFails(c) PROVE CallsInv'
    <2>1. UNCHANGED <<meter, late, guide, proposal, refined>> /\ lost' = lost + 1
          /\ call' = [call EXCEPT ![c] = "none"] /\ call[c] = "answered"
          /\ stage' = IF c = Refiner THEN "stopped" ELSE stage
      BY <1>12 DEF Calls!HookFails
    <2>2. Asked' = Asked
      BY <2>1 DEF Asked, Calls!TypeOK
    <2>3. Calls!TypeOK'
      BY <2>1 DEF Calls!TypeOK, Calls!Callers
    <2>4. Room'
      BY <2>1, <2>2 DEF Room
    <2> QED
      BY <2>3, <2>4
  <1>13. CASE UNCHANGED Calls!vars
    BY <1>13 DEF Calls!vars, Calls!TypeOK, Room, Asked
  <1> QED
    BY <1>1, <1>2, <1>3, <1>4, <1>5, <1>6, <1>7, <1>8, <1>9, <1>10, <1>11, <1>12, <1>13 DEF Calls!Next

\* The instance counts as this module does.
LEMMA CallsCount == \A S : Calls!Cardinality(S) = Cardinality(S)
  BY DEF Calls!Cardinality, Cardinality


\* A sum over the Guides, taken one after the other.
Adds(f, c) ==
    f = [gs \in SUBSET Guides |->
            IF gs = {} THEN 0 ELSE LET g == CHOOSE x \in gs : TRUE IN c[g] + f[gs \ {g}]]

\* Any set of Guides is finite, and loses one with each that is taken out.
LEMMA GuideSets ==
    ASSUME NEW gs \in SUBSET Guides
    PROVE  /\ IsFiniteSet(gs) /\ Cardinality(gs) \in Nat
           /\ Cardinality(gs) = 0 <=> gs = {}
           /\ \A g \in gs : Cardinality(gs \ {g}) = Cardinality(gs) - 1
  BY FS_Subset, FS_CardinalityType, FS_EmptySet, FS_RemoveElement

\* There is such a sum.
LEMMA SumExists ==
    ASSUME NEW c \in [Guides -> Nat]
    PROVE  \E f \in [SUBSET Guides -> Nat] : Adds(f, c)
  <1> DEFINE Upto(n) == {gs \in SUBSET Guides : Cardinality(gs) <= n}
             One(gs) == CHOOSE x \in gs : TRUE
             Partial(f, n) == \A gs \in Upto(n) : f[gs] = IF gs = {} THEN 0 ELSE c[One(gs)] + f[gs \ {One(gs)}]
             ns == {n \in Nat : \E f \in [SUBSET Guides -> Nat] : Partial(f, n)}
  <1>0. \A gs \in SUBSET Guides : gs # {} => One(gs) \in gs /\ c[One(gs)] \in Nat
    OBVIOUS
  <1> HIDE DEF One
  <1>1. 0 \in ns
    <2> DEFINE f == [gs \in SUBSET Guides |-> 0]
    <2>1. f \in [SUBSET Guides -> Nat]
      OBVIOUS
    <2>2. \A gs \in Upto(0) : gs = {}
      BY GuideSets
    <2>3. Partial(f, 0)
      BY <2>2
    <2> QED
      BY <2>1, <2>3
  <1>2. ASSUME NEW n \in ns PROVE n + 1 \in ns
    <2>1. n \in Nat
      OBVIOUS
    <2>2. PICK f \in [SUBSET Guides -> Nat] : Partial(f, n)
      OBVIOUS
    <2> DEFINE h == [gs \in SUBSET Guides |->
                       IF gs \in Upto(n) THEN f[gs]
                       ELSE c[One(gs)] + f[gs \ {One(gs)}]]
    <2>3. h \in [SUBSET Guides -> Nat]
      <3>1. ASSUME NEW gs \in SUBSET Guides, gs \notin Upto(n) PROVE c[One(gs)] + f[gs \ {One(gs)}] \in Nat
        <4>1. gs # {}
          BY <2>1, <3>1, GuideSets
        <4>2. gs \ {One(gs)} \in SUBSET Guides
          OBVIOUS
        <4>3. f[gs \ {One(gs)}] \in Nat
          BY <4>2
        <4> QED
          BY <1>0, <4>1, <4>3
      <3> QED
        BY <3>1
    <2>4. ASSUME NEW gs \in Upto(n + 1)
          PROVE  h[gs] = IF gs = {} THEN 0 ELSE c[One(gs)] + h[gs \ {One(gs)}]
      <3>1. CASE gs \in Upto(n)
        <4>1. CASE gs = {}
          BY <2>2, <3>1, <4>1
        <4>2. CASE gs # {}
          <5>1. One(gs) \in gs
            BY <1>0, <4>2
          <5>2. gs \ {One(gs)} \in Upto(n)
            BY <2>1, <3>1, <5>1, GuideSets
          <5>3. h[gs \ {One(gs)}] = f[gs \ {One(gs)}] /\ h[gs] = f[gs]
            BY <3>1, <5>2
          <5> QED
            BY <2>2, <3>1, <4>2, <5>3
        <4> QED
          BY <4>1, <4>2
      <3>2. CASE gs \notin Upto(n)
        <4>1. gs # {}
          BY <2>1, <3>2, GuideSets
        <4>2. One(gs) \in gs
          BY <1>0, <4>1
        <4>3. gs \ {One(gs)} \in Upto(n)
          BY <2>1, <4>2, GuideSets
        <4>4. h[gs \ {One(gs)}] = f[gs \ {One(gs)}] /\ h[gs] = c[One(gs)] + f[gs \ {One(gs)}]
          BY <3>2, <4>3
        <4> QED
          BY <4>1, <4>4
      <3> QED
        BY <3>1, <3>2
    <2> HIDE DEF h
    <2>5. Partial(h, n + 1)
      BY <2>4
    <2> HIDE DEF Partial
    <2> QED
      BY <2>1, <2>3, <2>5
  <1> HIDE DEF ns
  <1>3. ns = Nat
    <2>1. ns \in SUBSET Nat
      BY DEF ns
    <2> QED
      BY <1>1, <1>2, <2>1, NatsByStep
  <1>4. PICK f \in [SUBSET Guides -> Nat] : Partial(f, Cardinality(Guides))
    BY <1>3, GuideSets DEF ns
  <1>5. \A gs \in SUBSET Guides : gs \in Upto(Cardinality(Guides))
    BY FS_Subset, FS_CardinalityType
  <1>6. \A gs \in SUBSET Guides : f[gs] = IF gs = {} THEN 0 ELSE c[One(gs)] + f[gs \ {One(gs)}]
    BY <1>4, <1>5
  <1>7. f = [gs \in SUBSET Guides |-> IF gs = {} THEN 0 ELSE c[One(gs)] + f[gs \ {One(gs)}]]
    BY <1>6
  <1> QED
    BY <1>7 DEF Adds, One

\* One of the counts is higher by one.
Grows(c, d, g) == \A h \in Guides : d[h] = IF h = g THEN c[h] + 1 ELSE c[h]

\* One more in all.
OneMore(f, e) == f[Guides] = e[Guides] + 1

\* One more of one Guide is one more in all.
LEMMA SumGrows ==
    ASSUME NEW c \in [Guides -> Nat], NEW d \in [Guides -> Nat], NEW g \in Guides,
           NEW e \in [SUBSET Guides -> Nat], NEW f \in [SUBSET Guides -> Nat],
           Grows(c, d, g), Adds(e, c), Adds(f, d)
    PROVE  OneMore(f, e)
  <1> DEFINE One(gs) == CHOOSE x \in gs : TRUE
             Grown(gs) == f[gs] = e[gs] + (IF g \in gs THEN 1 ELSE 0)
             ns == {n \in Nat : \A gs \in SUBSET Guides : Cardinality(gs) = n => Grown(gs)}
  <1>0. \A gs \in SUBSET Guides : gs # {} => One(gs) \in gs /\ One(gs) \in Guides
    OBVIOUS
  <1> DEFINE Sums(s, w) == s = [gs \in SUBSET Guides |-> IF gs = {} THEN 0 ELSE w[One(gs)] + s[gs \ {One(gs)}]]
  <1>a. Sums(e, c) /\ Sums(f, d)
    BY DEF Adds
  <1> HIDE DEF One
  <1>1. \A gs \in SUBSET Guides : /\ e[gs] = IF gs = {} THEN 0 ELSE c[One(gs)] + e[gs \ {One(gs)}]
                                  /\ f[gs] = IF gs = {} THEN 0 ELSE d[One(gs)] + f[gs \ {One(gs)}]
    BY <1>a
  <1>2. 0 \in ns
    <2> SUFFICES ASSUME NEW gs \in SUBSET Guides, Cardinality(gs) = 0 PROVE Grown(gs)
      OBVIOUS
    <2>1. gs = {}
      BY GuideSets
    <2>2. f[gs] = 0 /\ e[gs] = 0
      BY <1>1, <2>1
    <2> QED
      BY <2>1, <2>2
  <1>3. ASSUME NEW n \in ns PROVE n + 1 \in ns
    <2> SUFFICES ASSUME NEW gs \in SUBSET Guides, Cardinality(gs) = n + 1 PROVE Grown(gs)
      OBVIOUS
    <2>1. gs # {}
      BY GuideSets
    <2>2. One(gs) \in gs /\ One(gs) \in Guides
      BY <1>0, <2>1
    <2> DEFINE hs == gs \ {One(gs)}
    <2>3. hs \in SUBSET Guides /\ Cardinality(hs) = n
      BY <2>2, GuideSets
    <2>4. Grown(hs) /\ e[hs] \in Nat
      BY <2>3
    <2>5. e[gs] = c[One(gs)] + e[hs] /\ f[gs] = d[One(gs)] + f[hs]
      BY <1>1, <2>1
    <2>6. c[One(gs)] \in Nat /\ d[One(gs)] = IF One(gs) = g THEN c[One(gs)] + 1 ELSE c[One(gs)]
      BY <2>2 DEF Grows
    <2> DEFINE x == One(gs)
    <2>7. CASE x = g
      <3>1. g \in gs /\ g \notin hs
        BY <2>2, <2>7
      <3> QED
        BY <2>4, <2>5, <2>6, <2>7, <3>1
    <2>8. CASE x # g
      <3>1. g \in gs <=> g \in hs
        BY <2>8
      <3> QED
        BY <2>4, <2>5, <2>6, <2>8, <3>1
    <2> QED
      BY <2>7, <2>8
  <1> HIDE DEF ns
  <1>4. ns = Nat
    <2>1. ns \in SUBSET Nat
      BY DEF ns
    <2> QED
      BY <1>2, <1>3, <2>1, NatsByStep
  <1>5. Cardinality(Guides) \in ns
    BY <1>4, GuideSets
  <1>6. f[Guides] = e[Guides] + 1
    BY <1>5 DEF ns
  <1> QED
    BY <1>6 DEF OneMore

\* A sum is a number, and the only one.
LEMMA SumOne ==
    ASSUME NEW c \in [Guides -> Nat], NEW e \in [SUBSET Guides -> Nat], NEW f, Adds(e, c), Adds(f, c)
    PROVE  f = e
  <1> DEFINE One(gs) == CHOOSE x \in gs : TRUE
             Sums(s) == s = [gs \in SUBSET Guides |-> IF gs = {} THEN 0 ELSE c[One(gs)] + s[gs \ {One(gs)}]]
             ns == {n \in Nat : \A gs \in SUBSET Guides : Cardinality(gs) = n => f[gs] = e[gs]}
  <1>0. \A gs \in SUBSET Guides : gs # {} => One(gs) \in gs
    OBVIOUS
  <1>a. Sums(e) /\ Sums(f)
    BY DEF Adds
  <1> HIDE DEF One
  <1>1. \A gs \in SUBSET Guides : /\ e[gs] = IF gs = {} THEN 0 ELSE c[One(gs)] + e[gs \ {One(gs)}]
                                  /\ f[gs] = IF gs = {} THEN 0 ELSE c[One(gs)] + f[gs \ {One(gs)}]
    BY <1>a
  <1>2. 0 \in ns
    <2> SUFFICES ASSUME NEW gs \in SUBSET Guides, Cardinality(gs) = 0 PROVE f[gs] = e[gs]
      OBVIOUS
    <2>1. gs = {}
      BY GuideSets
    <2> QED
      BY <1>1, <2>1
  <1>3. ASSUME NEW n \in ns PROVE n + 1 \in ns
    <2> SUFFICES ASSUME NEW gs \in SUBSET Guides, Cardinality(gs) = n + 1 PROVE f[gs] = e[gs]
      OBVIOUS
    <2>1. gs # {}
      BY GuideSets
    <2>2. One(gs) \in gs
      BY <1>0, <2>1
    <2>3. gs \ {One(gs)} \in SUBSET Guides /\ Cardinality(gs \ {One(gs)}) = n
      BY <2>2, GuideSets
    <2>4. f[gs \ {One(gs)}] = e[gs \ {One(gs)}]
      BY <2>3
    <2> QED
      BY <1>1, <2>1, <2>4
  <1> HIDE DEF ns
  <1>4. ns = Nat
    <2>1. ns \in SUBSET Nat
      BY DEF ns
    <2> QED
      BY <1>2, <1>3, <2>1, NatsByStep
  <1>5. \A gs \in SUBSET Guides : f[gs] = e[gs]
    BY <1>4, GuideSets DEF ns
  <1> QED
    BY <1>5, <1>a

-----------------------------------------------------------------------------
(* What a Guide has paid for.                                              *)

\* One more entry in a log counts where it belongs.
LEMMA CountAppend ==
    ASSUME NEW log \in Seq({"raw", "generative"}), NEW x \in {"raw", "generative"}, NEW w
    PROVE  /\ Calls!Count(log, w) \in Nat
           /\ x = w => Calls!Count(Append(log, x), w) = Calls!Count(log, w) + 1
           /\ x # w => Calls!Count(Append(log, x), w) = Calls!Count(log, w)
  <1> DEFINE is == {i \in 1 .. Len(log) : log[i] = w}
             js == {i \in 1 .. Len(Append(log, x)) : Append(log, x)[i] = w}
             n == Len(log)
  <1>1. n \in Nat /\ Len(Append(log, x)) = n + 1
    OBVIOUS
  <1>2. \A i \in 1 .. n : Append(log, x)[i] = log[i]
    OBVIOUS
  <1>3. Append(log, x)[n + 1] = x
    OBVIOUS
  <1>4. IsFiniteSet(is) /\ Cardinality(is) \in Nat
    <2>1. IsFiniteSet(1 .. n)
      BY <1>1, FS_Interval
    <2>2. is \subseteq 1 .. n
      OBVIOUS
    <2> QED
      BY <2>1, <2>2, FS_Subset, FS_CardinalityType
  <1>5. ASSUME x = w PROVE js = is \cup {n + 1} /\ n + 1 \notin is
    BY <1>1, <1>2, <1>3, <1>5
  <1>6. ASSUME x # w PROVE js = is
    BY <1>1, <1>2, <1>3, <1>6
  <1> HIDE DEF is, js, n
  <1>7. ASSUME x = w PROVE Cardinality(js) = Cardinality(is) + 1
    BY <1>4, <1>5, <1>7, FS_AddElement
  <1>8. Calls!Count(log, w) = Cardinality(is) /\ Calls!Count(Append(log, x), w) = Cardinality(js)
    BY CallsCount DEF Calls!Count, is, js
  <1> QED
    BY <1>4, <1>6, <1>7, <1>8

\* The beginning of a log is as it was.
LEMMA PrefixStays ==
    ASSUME NEW log \in Seq({"raw", "generative"}), NEW x \in {"raw", "generative"}, NEW i \in 1 .. Len(log) + 1
    PROVE  SubSeq(Append(log, x), 1, i - 1) = SubSeq(log, 1, i - 1)
  <1>1. Append(log, x) \in Seq({"raw", "generative"}) /\ Len(Append(log, x)) = Len(log) + 1
    OBVIOUS
  <1>2. i - 1 \in 0 .. Len(log) /\ i - 1 \in 0 .. Len(Append(log, x))
    BY <1>1
  <1>3. \A j \in 1 .. i - 1 : Append(log, x)[j] = log[j]
    BY <1>2
  <1>4. SubSeq(Append(log, x), 1, i - 1) = [j \in 1 .. i - 1 |-> Append(log, x)[j]]
    BY <1>1, <1>2
  <1>5. SubSeq(log, 1, i - 1) = [j \in 1 .. i - 1 |-> log[j]]
    BY <1>2
  <1> QED
    BY <1>3, <1>4, <1>5

\* A Guide counts what it logs as paid for, never more than its cap; while a call of its own
\* is on its way there is room for it, and it falls back with none left.
Paid(one, where) ==
    /\ one.calls = Calls!Count(one.log, "generative")
    /\ one.calls <= GuideCalls
    /\ where # "none" => one.calls < GuideCalls
    /\ \A i \in 1 .. Len(one.log) : one.log[i] = "raw" =>
          Calls!Count(SubSeq(one.log, 1, i - 1), "generative") = GuideCalls

PaidInv == \A g \in Guides : Paid(guide[g], call[g])

\* What is logged of a Guide keeps to it.
LEMMA LogPays ==
    ASSUME NEW one \in GuideType, NEW where, Paid(one, where), NEW mode \in {"raw", "generative"},
           NEW next \in GuideType, next = Calls!Log([one EXCEPT !.calls = next.calls], mode)
                \/ next = [Calls!Log(one, mode) EXCEPT !.calls = next.calls],
           mode = "raw" => one.calls = GuideCalls /\ next.calls = one.calls,
           mode = "generative" => one.calls < GuideCalls /\ next.calls = one.calls + 1
    PROVE  Paid(next, "none")
  <1>1. one.log \in Seq({"raw", "generative"}) /\ one.calls \in Nat
    BY DEF GuideType
  <1>2. next.log = Append(one.log, mode)
    BY DEF GuideType, Calls!Log
  <1>3. next.calls = Calls!Count(next.log, "generative")
    <2>1. /\ mode = "generative" => Calls!Count(next.log, "generative") = Calls!Count(one.log, "generative") + 1
          /\ mode # "generative" => Calls!Count(next.log, "generative") = Calls!Count(one.log, "generative")
      BY <1>1, <1>2, CountAppend
    <2> QED
      BY <2>1 DEF Paid
  <1>4. next.calls <= GuideCalls
    BY <1>1 DEF Paid, GuideType
  <1>5. ASSUME NEW i \in 1 .. Len(next.log), next.log[i] = "raw"
        PROVE  Calls!Count(SubSeq(next.log, 1, i - 1), "generative") = GuideCalls
    <2>1. i \in 1 .. Len(one.log) + 1
      BY <1>1, <1>2
    <2>2. SubSeq(next.log, 1, i - 1) = SubSeq(one.log, 1, i - 1)
      BY <1>1, <1>2, <2>1, PrefixStays
    <2>3. CASE i = Len(one.log) + 1
      <3>1. mode = "raw"
        BY <1>1, <1>2, <1>5, <2>3
      <3>2. SubSeq(one.log, 1, i - 1) = one.log
        BY <1>1, <2>3
      <3> QED
        BY <2>2, <3>1, <3>2 DEF Paid
    <2>4. CASE i \in 1 .. Len(one.log)
      <3>1. one.log[i] = "raw"
        BY <1>1, <1>2, <1>5, <2>4
      <3> QED
        BY <2>2, <2>4, <3>1 DEF Paid
    <2> QED
      BY <1>1, <2>1, <2>3, <2>4
  <1> QED
    BY <1>3, <1>4, <1>5 DEF Paid

\* Nothing is logged at first.
LEMMA InitPaid == Calls!Init => PaidInv
  <1> SUFFICES ASSUME Calls!Init, NEW g \in Guides PROVE Paid(guide[g], call[g])
    BY DEF PaidInv
  <1>1. guide[g].log = <<>> /\ guide[g].calls = 0 /\ call[g] = "none"
    BY DEF Calls!Init, Calls!Callers
  <1>2. {i \in 1 .. Len(<<>>) : <<>>[i] = "generative"} = {}
    OBVIOUS
  <1>3. Calls!Count(<<>>, "generative") = 0
    BY <1>2, FS_EmptySet, CallsCount DEF Calls!Count
  <1> QED
    BY <1>1, <1>3 DEF Paid

\* A call, its answer and its failure, and a step of an episode (guidance.py:143-176).
LEMMA StepPaid ==
    ASSUME Calls!TypeOK, PaidInv, [Calls!Next]_Calls!vars PROVE PaidInv'
  <1>0. \A g \in Guides : g \in Calls!Callers /\ g # Refiner /\ Refiner \in Calls!Callers
    BY DEF Calls!Callers
  <1>a. \A g \in Guides : guide[g] \in GuideType
    BY DEF Calls!TypeOK, GuideType
  <1>b. DOMAIN call = Calls!Callers /\ DOMAIN guide = Guides
    BY DEF Calls!TypeOK
  <1>1. ASSUME NEW g \in Guides, UNCHANGED guide, call'[g] \in {call[g], "none"} PROVE Paid(guide'[g], call'[g])
    BY <1>1 DEF PaidInv, Paid
  <1>2. ASSUME NEW c \in Calls!Callers, Calls!Answer(c) PROVE PaidInv'
    <2> SUFFICES ASSUME NEW g \in Guides PROVE Paid(guide'[g], call'[g])
      BY DEF PaidInv
    <2>1. guide' = guide /\ (call'[g] # "none" <=> call[g] # "none")
      BY <1>0, <1>b, <1>2 DEF Calls!Answer
    <2> QED
      BY <2>1 DEF PaidInv, Paid
  <1>3. ASSUME NEW c \in Calls!Callers, Calls!Fail(c) \/ Calls!HookFails(c) PROVE PaidInv'
    BY <1>0, <1>1, <1>b, <1>3 DEF Calls!Fail, Calls!HookFails, PaidInv
  <1>4. CASE Calls!TimePasses \/ Calls!Baseline \/ Calls!Round \/ Calls!Proposed \/ Calls!Evaluated \/ UNCHANGED Calls!vars
    <2>1. UNCHANGED <<guide, call>>
      BY <1>4 DEF Calls!TimePasses, Calls!Baseline, Calls!Round, Calls!Proposed, Calls!Evaluated, Calls!vars
    <2> QED
      BY <2>1 DEF PaidInv, Paid
  <1>5. ASSUME NEW g \in Guides, Calls!Guidance(g) PROVE PaidInv'
    <2> SUFFICES ASSUME NEW h \in Guides PROVE Paid(guide'[h], call'[h])
      BY DEF PaidInv
    <2>1. CASE h # g
      <3>1. guide'[h] = guide[h] /\ call'[h] = call[h]
        BY <1>0, <1>b, <1>5, <2>1 DEF Calls!Guidance, Calls!Ask
      <3> QED
        BY <3>1 DEF PaidInv
    <2>2. CASE h = g
      <3>1. PICK located \in BOOLEAN :
              \/ /\ guide[g].calls >= GuideCalls
                 /\ guide' = [guide EXCEPT ![g] = Calls!Log(Calls!Visit(g, located), "raw")]
                 /\ call' = call
              \/ /\ guide' = [guide EXCEPT ![g] = Calls!Visit(g, located)]
                 /\ call' = call \/ guide[g].calls < GuideCalls
        BY <1>5 DEF Calls!Guidance, Calls!Ask
      <3> DEFINE next == Calls!Visit(g, located)
      <3>2. next \in GuideType
        BY VisitType
      <3>3. next.calls = guide[g].calls /\ next.log = guide[g].log
        <4> DEFINE before == guide[g]
                   stepped == [before EXCEPT !.steps = @ + 1]
        <4>0. before \in GuideType
          BY <1>a
        <4> HIDE DEF before
        <4>1. stepped \in GuideType /\ stepped.calls = before.calls /\ stepped.log = before.log
          BY <4>0 DEF GuideType
        <4> HIDE DEF stepped
        <4>2. [stepped EXCEPT !.visited = @ + 1].calls = stepped.calls
              /\ [stepped EXCEPT !.visited = @ + 1].log = stepped.log
          BY <4>1 DEF GuideType
        <4> QED
          BY <4>1, <4>2 DEF Calls!Visit, stepped, before
      <3>4. call[g] = "none" /\ Paid(guide[g], call[g]) /\ guide[g].calls \in Nat
        BY <1>5, <1>a DEF Calls!Guidance, PaidInv, GuideType
      <3>5. Paid(next, "none")
        BY <3>3, <3>4 DEF Paid
      <3> HIDE DEF next
      <3>6. CASE guide[g].calls >= GuideCalls /\ guide' = [guide EXCEPT ![g] = Calls!Log(next, "raw")] /\ call' = call
        <4> DEFINE logged == Calls!Log(next, "raw")
        <4>1. logged \in GuideType
          BY <3>2, LogType
        <4>2. logged.calls = next.calls /\ logged = [logged EXCEPT !.calls = logged.calls]
          BY <3>2 DEF GuideType, Calls!Log
        <4>3. next.calls = GuideCalls
          BY <3>3, <3>4, <3>6 DEF Paid
        <4>4. Paid(logged, "none")
          <5>1. logged = [Calls!Log(next, "raw") EXCEPT !.calls = logged.calls]
            BY <4>2
          <5> HIDE DEF logged
          <5> QED
            BY <3>2, <3>5, <4>1, <4>2, <4>3, <5>1, LogPays
        <4>5. guide'[g] = logged /\ call'[g] = "none"
          BY <1>b, <3>4, <3>6
        <4> QED
          BY <2>2, <4>4, <4>5
      <3>7. CASE guide' = [guide EXCEPT ![g] = next] /\ (call' = call \/ guide[g].calls < GuideCalls)
        <4>1. guide'[g] = next
          BY <1>b, <3>7
        <4> QED
          BY <2>2, <3>3, <3>4, <3>5, <3>7, <4>1 DEF Paid
      <3> QED
        BY <3>1, <3>6, <3>7 DEF next
    <2> QED
      BY <2>1, <2>2
  <1>6. ASSUME NEW g \in Guides, Calls!Guided(g) PROVE PaidInv'
    <2> SUFFICES ASSUME NEW h \in Guides PROVE Paid(guide'[h], call'[h])
      BY DEF PaidInv
    <2>1. CASE h # g
      <3>1. guide'[h] = guide[h] /\ call'[h] = call[h]
        BY <1>0, <1>b, <1>6, <2>1 DEF Calls!Guided
      <3> QED
        BY <3>1 DEF PaidInv
    <2>2. CASE h = g
      <3> DEFINE old1 == guide[g]
                 counted == [guide[g] EXCEPT !.calls = @ + 1]
                 next == Calls!Log(counted, "generative")
      <3>1. old1 \in GuideType
        BY <1>a
      <3>2. counted \in GuideType /\ counted.calls = old1.calls + 1
            /\ counted = [old1 EXCEPT !.calls = counted.calls]
        BY <3>1 DEF GuideType
      <3>3. call[g] = "answered" /\ guide' = [guide EXCEPT ![g] = next] /\ call' = [call EXCEPT ![g] = "none"]
        BY <1>6 DEF Calls!Guided
      <3>4. Paid(old1, call[g]) /\ old1.calls < GuideCalls
        BY <3>3 DEF PaidInv, Paid
      <3>5. guide'[g] = next /\ call'[g] = "none"
        BY <1>0, <1>b, <3>3
      <3> HIDE DEF counted, old1
      <3>6. next \in GuideType /\ next.calls = counted.calls
        <4>1. next \in GuideType
          BY <3>2, LogType
        <4>2. next.calls = counted.calls
          BY <3>2 DEF Calls!Log, GuideType
        <4> QED
          BY <4>1, <4>2
      <3>7. Paid(next, "none")
        <4>1. next = Calls!Log([old1 EXCEPT !.calls = next.calls], "generative")
          BY <3>2, <3>6
        <4> HIDE DEF next
        <4> QED
          BY <3>1, <3>2, <3>4, <3>6, <4>1, LogPays
      <3> QED
        BY <2>2, <3>5, <3>7
    <2> QED
      BY <2>1, <2>2
  <1>7. CASE Calls!Attempt \/ Calls!Reply
    <2> SUFFICES ASSUME NEW g \in Guides PROVE Paid(guide'[g], call'[g])
      BY DEF PaidInv
    <2>1. guide' = guide /\ call'[g] = call[g]
      BY <1>0, <1>b, <1>7 DEF Calls!Attempt, Calls!Ask, Calls!Reply
    <2> QED
      BY <2>1 DEF PaidInv
  <1> QED
    BY <1>2, <1>3, <1>4, <1>5, <1>6, <1>7 DEF Calls!Next

\* What a Guide has paid for is within its cap, and its fallback is final.
LEMMA PaidIsFinal == PaidInv => Calls!FallbackIsFinal
  BY DEF PaidInv, Paid, Calls!FallbackIsFinal

-----------------------------------------------------------------------------
(* What the meter has counted.                                             *)

Answered == {c \in Calls!Callers : call[c] = "answered"}

\* What each Guide has logged as paid for.
Logged == [g \in Guides |-> Calls!Count(guide[g].log, "generative")]

AccountInv ==
    \A f \in [SUBSET Guides -> Nat] :
        Adds(f, Logged) => meter.calls = f[Guides] + refined + lost + Cardinality(Answered)

\* What a Guide has logged is a number.
LEMMA LoggedType == ASSUME Calls!TypeOK PROVE Logged \in [Guides -> Nat]
  <1> SUFFICES ASSUME NEW g \in Guides PROVE Calls!Count(guide[g].log, "generative") \in Nat
    BY DEF Logged
  <1>1. guide[g].log \in Seq({"raw", "generative"})
    BY DEF Calls!TypeOK
  <1> DEFINE is == {i \in 1 .. Len(guide[g].log) : guide[g].log[i] = "generative"}
  <1>2. is \subseteq 1 .. Len(guide[g].log) /\ IsFiniteSet(1 .. Len(guide[g].log))
    BY <1>1, FS_Interval
  <1>3. IsFiniteSet(is) /\ Cardinality(is) \in Nat
    BY <1>2, FS_Subset, FS_CardinalityType
  <1> QED
    BY <1>3, CallsCount DEF Calls!Count

\* Only finitely many calls have been answered.
LEMMA AnsweredFinite == IsFiniteSet(Answered) /\ Cardinality(Answered) \in Nat
  <1>1. IsFiniteSet(Calls!Callers) /\ Answered \subseteq Calls!Callers
    BY AskedFinite DEF Answered
  <1> QED
    BY <1>1, FS_Subset, FS_CardinalityType

\* Nothing is counted at first.
LEMMA InitAccounted == Calls!Init => AccountInv
  <1> SUFFICES ASSUME Calls!Init, NEW f \in [SUBSET Guides -> Nat], Adds(f, Logged)
               PROVE  meter.calls = f[Guides] + refined + lost + Cardinality(Answered)
    BY DEF AccountInv
  <1> DEFINE none == [g \in Guides |-> 0]
             e == [gs \in SUBSET Guides |-> 0]
  <1>1. Logged = none
    <2>1. \A g \in Guides : guide[g].log = <<>>
      BY DEF Calls!Init
    <2>2. {i \in 1 .. Len(<<>>) : <<>>[i] = "generative"} = {}
      OBVIOUS
    <2>3. Calls!Count(<<>>, "generative") = 0
      BY <2>2, FS_EmptySet, CallsCount DEF Calls!Count
    <2> QED
      BY <2>1, <2>3 DEF Logged
  <1>2. Adds(e, none)
    <2>1. \A gs \in SUBSET Guides : gs # {} => (CHOOSE x \in gs : TRUE) \in Guides
      OBVIOUS
    <2> QED
      BY <2>1 DEF Adds
  <1>3. f[Guides] = e[Guides]
    <2>1. none \in [Guides -> Nat] /\ e \in [SUBSET Guides -> Nat]
      OBVIOUS
    <2>2. Adds(f, none)
      BY <1>1
    <2> HIDE DEF none, e
    <2> QED
      BY <1>2, <2>1, <2>2, SumOne
  <1>4. Answered = {} /\ meter.calls = 0 /\ refined = 0 /\ lost = 0
    BY DEF Calls!Init, Answered
  <1> QED
    BY <1>3, <1>4, FS_EmptySet

\* A step that logs nothing, with what it does to the counters.
LEMMA CountersMove ==
    ASSUME AccountInv, Calls!TypeOK, Logged' = Logged,
           Calls!TypeOK', meter'.calls - refined' - lost' - Cardinality(Answered')
                             = meter.calls - refined - lost - Cardinality(Answered)
    PROVE  AccountInv'
  <1> SUFFICES ASSUME NEW f \in [SUBSET Guides -> Nat], Adds(f, Logged)
               PROVE  meter'.calls = f[Guides] + refined' + lost' + Cardinality(Answered')
    BY DEF AccountInv
  <1>1. meter.calls = f[Guides] + refined + lost + Cardinality(Answered)
    BY DEF AccountInv
  <1>2. Cardinality(Answered) \in Nat /\ Cardinality(Answered)' \in Nat
    <2>1. Answered' \subseteq Calls!Callers /\ IsFiniteSet(Calls!Callers)
      BY AskedFinite DEF Answered
    <2>2. Cardinality(Answered') \in Nat
      BY <2>1, FS_Subset, FS_CardinalityType
    <2> QED
      BY <2>2, AnsweredFinite
  <1>3. /\ meter.calls \in Nat /\ meter'.calls \in Nat /\ refined \in Nat /\ refined' \in Nat
        /\ lost \in Nat /\ lost' \in Nat /\ f[Guides] \in Nat
    BY DEF Calls!TypeOK
  <1> QED
    BY <1>1, <1>2, <1>3

\* An answer that its caller has had is no longer on the meter alone.
LEMMA OneTaken ==
    ASSUME Calls!TypeOK, NEW c \in Calls!Callers, call[c] = "answered", call' = [call EXCEPT ![c] = "none"]
    PROVE  Cardinality(Answered) = Cardinality(Answered') + 1 /\ Cardinality(Answered') \in Nat
  <1>1. c \in Answered /\ Answered' = Answered \ {c}
    BY DEF Answered, Calls!TypeOK
  <1>2. Cardinality(Answered \ {c}) = Cardinality(Answered) - 1 /\ IsFiniteSet(Answered \ {c})
    BY <1>1, AnsweredFinite, FS_RemoveElement
  <1>3. Cardinality(Answered \ {c}) \in Nat
    BY <1>2, FS_CardinalityType
  <1> QED
    BY <1>1, <1>2, <1>3, AnsweredFinite

\* Each answer is counted, then taken by its caller or lost in the hook (hooks.py:151-160).
LEMMA StepAccounted ==
    ASSUME Calls!TypeOK, Calls!TypeOK', AccountInv, [Calls!Next]_Calls!vars PROVE AccountInv'
  <1>0. DOMAIN call = Calls!Callers /\ DOMAIN guide = Guides /\ meter.calls \in Nat /\ refined \in Nat /\ lost \in Nat
    BY DEF Calls!TypeOK
  <1>n. Cardinality(Answered) \in Nat
    BY AnsweredFinite
  <1>g. \A g \in Guides : guide[g] \in GuideType
    BY DEF Calls!TypeOK, GuideType
  <1>1. ASSUME NEW c \in Calls!Callers, Calls!Answer(c) PROVE AccountInv'
    <2>1. meter'.calls = meter.calls + 1 /\ refined' = refined /\ lost' = lost /\ Logged' = Logged
      BY <1>1 DEF Calls!Answer, Logged
    <2>2. c \notin Answered /\ Answered' = Answered \cup {c}
      BY <1>0, <1>1 DEF Calls!Answer, Answered
    <2>3. Cardinality(Answered') = Cardinality(Answered) + 1
      BY <2>2, AnsweredFinite, FS_AddElement
    <2> QED
      BY <1>0, <1>n, <2>1, <2>3, CountersMove
  <1>2. ASSUME NEW c \in Calls!Callers, Calls!Fail(c) PROVE AccountInv'
    <2>1. UNCHANGED <<meter, refined, lost>> /\ Logged' = Logged /\ Answered' = Answered
      BY <1>0, <1>2 DEF Calls!Fail, Logged, Answered
    <2> QED
      BY <2>1, CountersMove
  <1>3. CASE Calls!TimePasses \/ Calls!Baseline \/ Calls!Round \/ Calls!Proposed \/ UNCHANGED Calls!vars
    <2>1. UNCHANGED <<meter, refined, lost, guide, call>>
      BY <1>3 DEF Calls!TimePasses, Calls!Baseline, Calls!Round, Calls!Proposed, Calls!vars
    <2>2. Logged' = Logged /\ Answered' = Answered
      BY <2>1 DEF Logged, Answered
    <2> QED
      BY <2>1, <2>2, CountersMove
  <1>4. CASE Calls!Evaluated
    <2>1. UNCHANGED <<refined, lost, guide, call>> /\ meter'.calls = meter.calls
      BY <1>4 DEF Calls!Evaluated, Calls!TypeOK
    <2>2. Logged' = Logged /\ Answered' = Answered
      BY <2>1 DEF Logged, Answered
    <2> QED
      BY <2>1, <2>2, CountersMove
  <1>5. CASE Calls!Attempt
    <2>1. UNCHANGED <<refined, lost, guide, meter>>
      BY <1>5 DEF Calls!Attempt
    <2>2. Logged' = Logged /\ Answered' = Answered
      BY <1>0, <1>5, <2>1 DEF Logged, Answered, Calls!Attempt, Calls!Ask
    <2> QED
      BY <2>1, <2>2, CountersMove
  <1>6. CASE Calls!Reply
    <2>1. UNCHANGED <<guide, meter, lost>> /\ refined' = refined + 1
      BY <1>6 DEF Calls!Reply
    <2>2. Logged' = Logged
      BY <2>1 DEF Logged
    <2>3. Cardinality(Answered) = Cardinality(Answered') + 1 /\ Cardinality(Answered') \in Nat
      BY <1>6, OneTaken DEF Calls!Reply, Calls!Callers
    <2> QED
      BY <1>0, <1>n, <2>1, <2>2, <2>3, CountersMove
  <1>7. ASSUME NEW g \in Guides, Calls!Guidance(g) PROVE AccountInv'
    <2>1. UNCHANGED <<meter, refined, lost>>
      BY <1>7 DEF Calls!Guidance
    <2>2. Answered' = Answered
      BY <1>0, <1>7 DEF Answered, Calls!Guidance, Calls!Ask
    <2>3. PICK located \in BOOLEAN :
              \/ guide' = [guide EXCEPT ![g] = Calls!Log(Calls!Visit(g, located), "raw")]
              \/ guide' = [guide EXCEPT ![g] = Calls!Visit(g, located)]
      BY <1>7 DEF Calls!Guidance
    <2> DEFINE before == guide[g]
               stepped == [before EXCEPT !.steps = @ + 1]
               next == Calls!Visit(g, located)
    <2>4. before \in GuideType
      BY <1>g
    <2> HIDE DEF before
    <2>5. stepped \in GuideType /\ stepped.log = before.log
      BY <2>4 DEF GuideType
    <2> HIDE DEF stepped
    <2>6. [stepped EXCEPT !.visited = @ + 1].log = stepped.log
      BY <2>5 DEF GuideType
    <2>7. next.log = before.log /\ next \in GuideType
      BY <2>5, <2>6, VisitType DEF Calls!Visit, stepped, before
    <2> HIDE DEF next
    <2>8. Calls!Log(next, "raw").log = Append(before.log, "raw")
      BY <2>7 DEF Calls!Log, GuideType
    <2>9. Calls!Count(Append(before.log, "raw"), "generative") = Calls!Count(before.log, "generative")
      <3>1. before.log \in Seq({"raw", "generative"})
        BY <2>4 DEF GuideType
      <3> QED
        BY <3>1, CountAppend
    <2>10. Calls!Count(guide'[g].log, "generative") = Calls!Count(before.log, "generative")
      BY <1>0, <2>3, <2>7, <2>8, <2>9 DEF next
    <2>11. Logged' = Logged
      <3>1. \A h \in Guides : h # g => guide'[h] = guide[h]
        BY <1>0, <2>3
      <3> QED
        BY <2>10, <3>1 DEF Logged, before
    <2> QED
      BY <2>1, <2>2, <2>11, CountersMove
  <1>8. ASSUME NEW g \in Guides, Calls!Guided(g) PROVE AccountInv'
    <2>0. g \in Calls!Callers
      BY DEF Calls!Callers
    <2>1. UNCHANGED <<meter, refined, lost>>
      BY <1>8 DEF Calls!Guided
    <2>2. Cardinality(Answered) = Cardinality(Answered') + 1 /\ Cardinality(Answered') \in Nat
      BY <1>8, <2>0, OneTaken DEF Calls!Guided
    <2> DEFINE before == guide[g]
               counted == [before EXCEPT !.calls = @ + 1]
    <2>3. before \in GuideType
      BY <1>g
    <2>4. guide' = [guide EXCEPT ![g] = Calls!Log(counted, "generative")]
      BY <1>8 DEF Calls!Guided
    <2> HIDE DEF before
    <2>5. counted \in GuideType /\ counted.log = before.log
      BY <2>3 DEF GuideType
    <2> HIDE DEF counted
    <2>6. Calls!Log(counted, "generative").log = Append(before.log, "generative")
      BY <2>5 DEF Calls!Log, GuideType
    <2>7. Calls!Count(Append(before.log, "generative"), "generative") = Calls!Count(before.log, "generative") + 1
      <3>1. before.log \in Seq({"raw", "generative"})
        BY <2>3 DEF GuideType
      <3> QED
        BY <3>1, CountAppend
    <2>8. \A h \in Guides : Logged'[h] = IF h = g THEN Logged[h] + 1 ELSE Logged[h]
      <3> SUFFICES ASSUME NEW h \in Guides PROVE Logged'[h] = IF h = g THEN Logged[h] + 1 ELSE Logged[h]
        OBVIOUS
      <3>1. Logged[h] = Calls!Count(guide[h].log, "generative") /\ Logged'[h] = Calls!Count(guide'[h].log, "generative")
        BY DEF Logged
      <3>2. CASE h = g
        <4>1. guide'[g] = Calls!Log(counted, "generative")
          BY <1>0, <2>4
        <4> QED
          BY <2>6, <2>7, <3>1, <3>2, <4>1 DEF before
      <3>3. CASE h # g
        <4>1. guide'[h] = guide[h]
          BY <1>0, <2>4, <3>3
        <4> QED
          BY <3>1, <3>3, <4>1
      <3> QED
        BY <3>2, <3>3
    <2>9. Logged \in [Guides -> Nat] /\ Logged' \in [Guides -> Nat]
      <3>1. Logged \in [Guides -> Nat]
        BY LoggedType
      <3>2. \A h \in Guides : Logged'[h] \in Nat
        BY <2>8, <3>1
      <3> QED
        BY <3>1, <3>2 DEF Logged
    <2> SUFFICES ASSUME NEW f \in [SUBSET Guides -> Nat], Adds(f, Logged')
                 PROVE  meter'.calls = f[Guides] + refined' + lost' + Cardinality(Answered')
      BY DEF AccountInv
    <2>a. Grows(Logged, Logged', g)
      BY <2>8 DEF Grows
    <2>b. PICK c \in [Guides -> Nat] : c = Logged
      BY <2>9
    <2>c. PICK d \in [Guides -> Nat] : d = Logged'
      BY <2>9
    <2>d. Grows(c, d, g) /\ Adds(f, d)
      BY <2>a, <2>b, <2>c
    <2>e. PICK e \in [SUBSET Guides -> Nat] : Adds(e, c)
      BY SumExists
    <2>10. Adds(e, Logged)
      BY <2>b, <2>e
    <2>11. f[Guides] = e[Guides] + 1
      <3> HIDE <2>b, <2>c
      <3> QED
        <4>1. OneMore(f, e)
          BY <2>d, <2>e, SumGrows
        <4> QED
          BY <4>1 DEF OneMore
    <2>12. meter.calls = e[Guides] + refined + lost + Cardinality(Answered) /\ e[Guides] \in Nat
      BY <2>10 DEF AccountInv
    <2> QED
      BY <1>0, <1>n, <2>1, <2>2, <2>11, <2>12
  <1>9. ASSUME NEW c \in Calls!Callers, Calls!HookFails(c) PROVE AccountInv'
    <2>1. UNCHANGED <<meter, refined, guide>> /\ lost' = lost + 1
      BY <1>9 DEF Calls!HookFails
    <2>2. Logged' = Logged
      BY <2>1 DEF Logged
    <2>3. Cardinality(Answered) = Cardinality(Answered') + 1 /\ Cardinality(Answered') \in Nat
      BY <1>9, OneTaken DEF Calls!HookFails
    <2> QED
      BY <1>0, <1>n, <2>1, <2>2, <2>3, CountersMove
  <1> QED
    BY <1>1, <1>2, <1>3, <1>4, <1>5, <1>6, <1>7, <1>8, <1>9 DEF Calls!Next

\* The sum of the property is one of the sums above.
LEMMA AccountHolds == ASSUME Calls!TypeOK, AccountInv PROVE Calls!AnswersAccounted
  <1> DEFINE sum[gs \in SUBSET Guides] ==
               IF gs = {} THEN 0
               ELSE LET g == CHOOSE x \in gs : TRUE
                    IN  Calls!Count(guide[g].log, "generative") + sum[gs \ {g}]
  <1>1. PICK f \in [SUBSET Guides -> Nat] : Adds(f, Logged)
    BY LoggedType, SumExists
  <1>2. f = [gs \in SUBSET Guides |->
               IF gs = {} THEN 0
               ELSE LET g == CHOOSE x \in gs : TRUE
                    IN  Calls!Count(guide[g].log, "generative") + f[gs \ {g}]]
    <2>1. \A gs \in SUBSET Guides : gs # {} =>
             LET g == CHOOSE x \in gs : TRUE IN Logged[g] = Calls!Count(guide[g].log, "generative")
      BY DEF Logged
    <2> QED
      BY <1>1, <2>1 DEF Adds
  <1>3. sum = [gs \in SUBSET Guides |->
               IF gs = {} THEN 0
               ELSE LET g == CHOOSE x \in gs : TRUE
                    IN  Calls!Count(guide[g].log, "generative") + sum[gs \ {g}]]
    BY <1>2
  <1> HIDE DEF sum
  <1>4. Adds(sum, Logged)
    <2>1. \A gs \in SUBSET Guides : gs # {} =>
             LET g == CHOOSE x \in gs : TRUE IN Logged[g] = Calls!Count(guide[g].log, "generative")
      BY DEF Logged
    <2> QED
      BY <1>3, <2>1 DEF Adds
  <1>5. meter.calls = f[Guides] + refined + lost + Cardinality(Answered)
    BY <1>1 DEF AccountInv
  <1>6. sum[Guides] = f[Guides]
    BY <1>1, <1>4, LoggedType, SumOne
  <1>7. meter.calls = sum[Guides] + refined + lost + Calls!Cardinality(Answered)
    BY <1>5, <1>6, CallsCount
  <1> QED
    BY <1>7 DEF Calls!AnswersAccounted, sum, Answered

-----------------------------------------------------------------------------
(* The replies of a proposal.                                              *)

\* A reply that is asked for again, up to the retries.
Failed == {"unreadable", "refused"}

\* While propose() asks, every reply has failed and one more may be asked for.
Asking ==
    stage = "propose" =>
        /\ Len(proposal.replies) \in 0 .. Retries
        /\ \A i \in 1 .. Len(proposal.replies) : proposal.replies[i] \in Failed

ReplyInv == Asking /\ Calls!OutcomeIsLastReply

\* A reply decides, or is one more that failed.
LEMMA ReplyDecides ==
    ASSUME Calls!TypeOK, ReplyInv, Calls!Reply
    PROVE  ReplyInv'
  <1>1. PICK reply \in Calls!Replies :
            LET replies == Append(proposal.replies, reply)
            IN  /\ proposal' = [edits |-> CASE reply = "unreadable" -> None
                                            [] reply = "empty" -> "empty"
                                            [] OTHER -> "some",
                                candidate |-> (reply = "good"), replies |-> replies]
                /\ stage' = IF reply \in {"empty", "good"} \/ Len(replies) = Retries + 1
                            THEN "proposed" ELSE "propose"
    BY DEF Calls!Reply
  <1> DEFINE before == proposal.replies
             replies == Append(before, reply)
             n == Len(before)
  <1>2. stage = "propose"
    BY DEF Calls!Reply, Calls!TypeOK, Calls!Callers
  <1>3. before \in Seq(Calls!Replies)
    BY DEF Calls!TypeOK
  <1>4. n \in 0 .. Retries /\ \A i \in 1 .. n : before[i] \in Failed
    BY <1>2 DEF ReplyInv, Asking
  <1>5. /\ Len(replies) = n + 1 /\ replies[n + 1] = reply
        /\ \A i \in 1 .. n : replies[i] = before[i]
    BY <1>3
  <1>6. /\ proposal'.replies = replies
        /\ proposal'.candidate = (reply = "good")
        /\ proposal'.edits = CASE reply = "unreadable" -> None
                               [] reply = "empty" -> "empty"
                               [] OTHER -> "some"
    BY <1>1
  <1>7. stage' = IF reply \in {"empty", "good"} \/ n + 1 = Retries + 1 THEN "proposed" ELSE "propose"
    BY <1>1, <1>5
  <1>8. reply \in {"unreadable", "empty", "refused", "good"}
    BY DEF Calls!Replies
  <1> HIDE DEF replies, before
  <1>9. Asking'
    <2> SUFFICES ASSUME stage' = "propose"
                 PROVE  /\ Len(replies) \in 0 .. Retries
                        /\ \A i \in 1 .. Len(replies) : replies[i] \in Failed
      BY <1>6 DEF Asking
    <2>1. reply \in Failed /\ n # Retries
      BY <1>7, <1>8 DEF Failed
    <2> QED
      BY <1>4, <1>5, <2>1
  <1>10. Calls!OutcomeIsLastReply'
    <2> SUFFICES ASSUME stage' = "proposed"
                 PROVE  /\ n + 1 \in 1 .. Retries + 1
                        /\ \A i \in 1 .. n : replies[i] \in {"unreadable", "refused"}
                        /\ Calls!Outcome' = CASE replies[n + 1] = "good" -> "candidate"
                                           [] replies[n + 1] = "empty" -> "no_action"
                                           [] OTHER -> "structural_failure"
                        /\ Calls!Outcome' = "structural_failure" => n + 1 = Retries + 1
      <3>1. n \in Nat
        BY <1>4
      <3> QED
        BY <1>5, <1>6, <3>1 DEF Calls!OutcomeIsLastReply
    <2>1. n + 1 \in 1 .. Retries + 1 /\ \A i \in 1 .. n : replies[i] \in {"unreadable", "refused"}
      BY <1>4, <1>5 DEF Failed
    <2>2. Calls!Outcome' = CASE reply = "good" -> "candidate"
                           [] reply = "empty" -> "no_action"
                           [] OTHER -> "structural_failure"
      <3>1. None # "empty"
        BY NoneAssumption
      <3>2. Calls!Outcome' = IF proposal'.edits = "empty" THEN "no_action"
                             ELSE IF proposal'.candidate THEN "candidate" ELSE "structural_failure"
        BY DEF Calls!Outcome
      <3>3. CASE reply = "unreadable"
        BY <1>6, <3>1, <3>2, <3>3
      <3>4. CASE reply = "empty"
        BY <1>6, <3>2, <3>4
      <3>5. CASE reply = "refused"
        BY <1>6, <3>2, <3>5
      <3>6. CASE reply = "good"
        BY <1>6, <3>2, <3>6
      <3> QED
        BY <1>8, <3>3, <3>4, <3>5, <3>6
    <2>3. reply \notin {"empty", "good"} => n + 1 = Retries + 1
      BY <1>7
    <2> QED
      BY <1>5, <1>8, <2>1, <2>2, <2>3
  <1> QED
    BY <1>9, <1>10 DEF ReplyInv

\* No stage has ended at the beginning.
LEMMA InitReplies == Calls!Init => ReplyInv
  BY DEF Calls!Init, ReplyInv, Asking, Calls!OutcomeIsLastReply

\* Every action of the calls keeps what the last reply decided.
LEMMA StepReplies ==
    ASSUME Calls!TypeOK, ReplyInv, [Calls!Next]_Calls!vars
    PROVE  ReplyInv'
  <1>1. CASE Calls!Reply
    BY <1>1, ReplyDecides
  <1>2. CASE Calls!Round
    <2>1. stage' \in {"stopped", "propose"} /\ proposal'.replies = <<>>
      BY <1>2 DEF Calls!Round, Calls!NoProposal
    <2> QED
      BY <2>1 DEF ReplyInv, Asking, Calls!OutcomeIsLastReply
  <1>3. CASE UNCHANGED proposal /\ stage' \in {stage, "stopped", "iteration", "evaluating"}
    <2>1. Calls!Outcome' = Calls!Outcome
      BY <1>3 DEF Calls!Outcome
    <2> QED
      BY <1>3, <2>1 DEF ReplyInv, Asking, Calls!OutcomeIsLastReply
  <1>4. ASSUME NEW c \in Calls!Callers, Calls!Answer(c) \/ Calls!Fail(c) \/ Calls!HookFails(c) PROVE ReplyInv'
    BY <1>3, <1>4 DEF Calls!Answer, Calls!Fail, Calls!HookFails
  <1>5. ASSUME NEW g \in Guides, Calls!Guidance(g) \/ Calls!Guided(g) PROVE ReplyInv'
    BY <1>3, <1>5 DEF Calls!Guidance, Calls!Guided
  <1>6. CASE Calls!TimePasses \/ Calls!Baseline \/ Calls!Attempt \/ Calls!Proposed \/ Calls!Evaluated
    BY <1>3, <1>6 DEF Calls!TimePasses, Calls!Baseline, Calls!Attempt, Calls!Proposed, Calls!Evaluated
  <1>7. CASE UNCHANGED Calls!vars
    BY <1>3, <1>7 DEF Calls!vars
  <1> QED
    BY <1>1, <1>2, <1>4, <1>5, <1>6, <1>7 DEF Calls!Next

HIDE CallsAssumption

USE TextAssumption

\* The upper bound is an end that fits; with a monotonic counter no end before the lower bound is.
Monotonic == \A i, j \in 0 .. TextLength : i <= j => count[j] <= count[i]

TailInv ==
    /\ Text!TypeOK
    /\ count[TextLength] = 0
    /\ count[hi] <= limit
    /\ limit > 0 /\ Monotonic => \A i \in 0 .. lo - 1 : count[i] > limit
    /\ Text!TailFits
    /\ Text!TailIsLongest

\* The search starts with the whole text between its bounds.
LEMMA TailInit == Text!Init => TailInv
  <1> SUFFICES ASSUME Text!Init PROVE TailInv
    OBVIOUS
  <1>1. Text!TypeOK /\ count[TextLength] = 0
    BY DEF Text!Init, Text!TypeOK
  <1>2. count[hi] <= limit
    BY <1>1 DEF Text!Init, Text!TypeOK
  <1> QED
    BY <1>1, <1>2 DEF Text!Init, TailInv, Text!TailFits, Text!TailIsLongest

\* The middle of two different bounds lies below the upper one.
LEMMA Middle ==
    ASSUME lo \in 0 .. TextLength, hi \in 0 .. TextLength, lo < hi
    PROVE  LET mid == (lo + hi) \div 2
           IN  mid \in 0 .. TextLength /\ lo <= mid /\ mid < hi
  BY SMTT(30)

\* Every step of the search keeps the invariant (traces.py:236-245).
LEMMA TailStep == TailInv /\ [Text!Next]_Text!vars => TailInv'
  <1> SUFFICES ASSUME TailInv, [Text!Next]_Text!vars PROVE TailInv'
    OBVIOUS
  <1> USE DEF TailInv
  <1>1. CASE Text!Whole
    <2>1. count' = count /\ limit' = limit /\ lo' = lo /\ hi' = hi
      BY <1>1 DEF Text!Whole
    <2>2. Text!TypeOK'
      BY <1>1 DEF Text!Whole, Text!TypeOK
    <2>3. Text!TailFits'
      BY <1>1, <2>1 DEF Text!Whole, Text!TailFits, Text!TypeOK
    <2>4. Text!TailIsLongest'
      BY <1>1, <2>1 DEF Text!Whole, Text!TailIsLongest, Text!TypeOK
    <2> QED
      BY <2>1, <2>2, <2>3, <2>4 DEF Monotonic
  <1>2. CASE Text!Halve
    <2> DEFINE mid == (lo + hi) \div 2
    <2>1. mid \in 0 .. TextLength /\ lo <= mid /\ mid < hi
      BY <1>2, Middle DEF Text!Halve, Text!TypeOK
    <2> HIDE DEF mid
    <2>2. count' = count /\ limit' = limit /\ start' = start
      BY <1>2 DEF Text!Halve
    <2>3. CASE count[mid] <= limit
      <3>1. hi' = mid /\ lo' = lo
        BY <1>2, <2>3 DEF Text!Halve, mid
      <3> QED
        BY <1>2, <2>1, <2>2, <2>3, <3>1 DEF Text!Halve, Text!TypeOK, Text!TailFits, Text!TailIsLongest, Monotonic
    <2>4. CASE ~ count[mid] <= limit
      <3>1. lo' = mid + 1 /\ hi' = hi
        BY <1>2, <2>4 DEF Text!Halve, mid
      <3>2. Text!TypeOK'
        BY <2>1, <2>2, <3>1 DEF Text!TypeOK
      <3>3. ASSUME Monotonic, NEW i \in 0 .. mid PROVE count[i] > limit
        BY <2>1, <2>4, <3>3 DEF Monotonic, Text!TypeOK
      <3>4. (limit > 0 /\ Monotonic => \A i \in 0 .. lo - 1 : count[i] > limit)'
        BY <2>1, <2>2, <3>1, <3>3 DEF Monotonic
      <3> QED
        BY <1>2, <2>2, <3>1, <3>2, <3>4 DEF Text!Halve, Text!TailFits, Text!TailIsLongest
    <2> QED
      BY <2>3, <2>4
  <1>3. CASE Text!Found
    <2>1. count' = count /\ limit' = limit /\ lo' = lo /\ hi' = hi
      BY <1>3 DEF Text!Found
    <2>2. lo = hi /\ start' = lo
      BY <1>3 DEF Text!Found, Text!TypeOK
    <2>3. Text!TypeOK'
      BY <2>1, <2>2 DEF Text!TypeOK
    <2>4. Text!TailFits'
      BY <2>1, <2>2 DEF Text!TailFits
    <2>5. Text!TailIsLongest'
      BY <1>3, <2>1, <2>2 DEF Text!Found, Text!TailIsLongest, Monotonic
    <2> QED
      BY <2>1, <2>3, <2>4, <2>5 DEF Monotonic
  <1>4. CASE UNCHANGED Text!vars
    BY <1>4 DEF Text!vars, Text!TypeOK, Text!TailFits, Text!TailIsLongest, Monotonic
  <1> QED
    BY <1>1, <1>2, <1>3, <1>4 DEF Text!Next

HIDE TextAssumption

USE CallsAssumption

-----------------------------------------------------------------------------
(* The behaviours of the calls and of the cut.                             *)

\* A behaviour of one part takes its steps and no other's.
LEMMA CallsMove ==
    ASSUME part = "calls", [MCNext]_MCVars PROVE part' = part /\ [Calls!Next]_Calls!vars
  <1>1. CASE MCNext
    BY <1>1 DEF MCNext, Calls!vars
  <1>2. CASE UNCHANGED MCVars
    <2>1. UNCHANGED <<part, stageVars>>
      BY <1>2 DEF MCVars
    <2>2. UNCHANGED callsVars
      BY <2>1 DEF stageVars
    <2> QED
      BY <2>1, <2>2 DEF callsVars, Calls!vars
  <1> QED
    BY <1>1, <1>2

\* While the part is the tail, a step is one of TailCut or changes nothing of it.
LEMMA TailMoves ==
    ASSUME part = "tail", [MCNext]_MCVars PROVE part' = part /\ [Text!Next]_Text!vars
  <1>1. CASE MCNext
    BY <1>1 DEF MCNext, Text!vars
  <1>2. CASE UNCHANGED MCVars
    <2>1. UNCHANGED <<part, stageVars>>
      BY <1>2 DEF MCVars
    <2>2. UNCHANGED textVars
      BY <2>1 DEF stageVars
    <2> QED
      BY <2>1, <2>2 DEF textVars, Text!vars
  <1> QED
    BY <1>1, <1>2

\* A behaviour is one of a single part.
LEMMA PartStays == [MCNext]_MCVars => part' = part
  BY DEF MCNext, MCVars

\* All that holds of the calls at every step.
CallsHold == part = "calls" => CallsInv /\ PaidInv /\ AccountInv /\ ReplyInv

\* The invariants of the calls hold at every step of the part.
LEMMA CallsAlways == MCSpec => []CallsHold
  <1>1. MCInit => CallsHold
    BY CallsInit, InitPaid, InitAccounted, InitReplies DEF MCInit, CallsHold
  <1>2. CallsHold /\ [MCNext]_MCVars => CallsHold'
    <2> SUFFICES ASSUME CallsHold, [MCNext]_MCVars, part' = "calls"
                 PROVE  CallsInv' /\ PaidInv' /\ AccountInv' /\ ReplyInv'
      BY DEF CallsHold
    <2>1. part = "calls"
      BY PartStays
    <2>2. [Calls!Next]_Calls!vars
      BY <2>1, CallsMove
    <2>3. CallsInv /\ PaidInv /\ AccountInv /\ ReplyInv
      BY <2>1 DEF CallsHold
    <2>4. CallsInv'
      BY <2>2, <2>3, CallsStep
    <2>5. Calls!TypeOK /\ Calls!TypeOK'
      BY <2>3, <2>4 DEF CallsInv
    <2> QED
      BY <2>2, <2>3, <2>4, <2>5, StepPaid, StepAccounted, StepReplies
  <1> QED
    BY <1>1, <1>2, PTL DEF MCSpec

\* However many callers share the model, the calls pass their ceiling by one less than their
\* number at most, the tokens, one caller or many, by as many answers less one token, the evaluations never
\* (hooks.py:107-118, 151-160).
THEOREM CeilingsAreHard == MCSpec => []CeilingsHold
  <1>1. CallsHold => CeilingsHold
    <2> SUFFICES ASSUME CallsInv PROVE Calls!CeilingsHold
      BY DEF CallsHold, CeilingsHold
    <2>1. Cardinality(Asked) \in Nat /\ Cardinality(Calls!Callers) \in Nat
      BY AskedFinite
    <2>2. Tokens * Cardinality(Asked) \in Nat /\ Tokens * Cardinality(Calls!Callers) \in Nat
      BY <2>1, AskedFinite, Product
    <2> DEFINE ta == Tokens * Cardinality(Asked)
               tn == Tokens * Cardinality(Calls!Callers)
    <2> HIDE DEF ta, tn
    <2>3. meter.tokens + ta <= MaxTokens - 1 + tn
      BY DEF CallsInv, Room, ta, tn
    <2>4. meter.tokens <= MaxTokens - 1 + tn
      BY <2>2, <2>3 DEF CallsInv, Calls!TypeOK, ta, tn
    <2>5. meter.calls <= MaxCalls - 1 + Cardinality(Calls!Callers)
      BY <2>1 DEF CallsInv, Room, Calls!TypeOK
    <2>6. Calls!Cardinality(Calls!Callers) = Cardinality(Calls!Callers)
      BY CallsCount
    <2> QED
      BY <2>4, <2>5, <2>6 DEF Calls!CeilingsHold, CallsInv, Room, tn
  <1> QED
    BY CallsAlways, <1>1, PTL

\* A Guide pays for no more than its cap, and does not come back from the fallback
\* (guidance.py:143-176).
THEOREM FallbackStays == MCSpec => []FallbackIsFinal
  <1>1. CallsHold => FallbackIsFinal
    BY PaidIsFinal DEF CallsHold, FallbackIsFinal
  <1> QED
    BY CallsAlways, <1>1, PTL

\* The outcome of a proposal is that of its last reply, and a failure is final only when the
\* retries are used up (refiner.py:163-205).
THEOREM LastReplyDecides == MCSpec => []OutcomeIsLastReply
  <1>1. CallsHold => OutcomeIsLastReply
    BY DEF CallsHold, ReplyInv, OutcomeIsLastReply
  <1> QED
    BY CallsAlways, <1>1, PTL

TailHolds == part = "tail" => TailInv

\* The invariant of the cut holds at every step of the part.
LEMMA TailAlways == MCSpec => []TailHolds
  <1>1. MCInit => TailHolds
    BY TailInit DEF MCInit, TailHolds
  <1>2. TailHolds /\ [MCNext]_MCVars => TailHolds'
    <2> SUFFICES ASSUME TailHolds, [MCNext]_MCVars, part' = "tail" PROVE TailInv'
      BY DEF TailHolds
    <2>1. part = "tail"
      BY PartStays
    <2>2. [Text!Next]_Text!vars
      BY <2>1, TailMoves
    <2> QED
      BY <2>1, <2>2, TailStep DEF TailHolds
  <1> QED
    BY <1>1, <1>2, PTL DEF MCSpec

\* Whatever the counter of the host counts, the end of the text that is kept is within the cap,
\* and with one that never counts more in a shorter end it is the longest that is
\* (traces.py:229-245).
THEOREM KeptEndIsLongest == MCSpec => []LongestEndKept
  <1>1. TailHolds => LongestEndKept
    BY DEF TailHolds, TailInv, LongestEndKept, Text!LongestEndKept
  <1> QED
    BY <1>1, TailAlways, PTL

HIDE CallsAssumption

-----------------------------------------------------------------------------
(* PrepareCandidate as a part.                                             *)

\* Its behaviours as a part, and at rest, are behaviours of the module.
LEMMA CandidatePart == MCSpec => Spec
  <1>1. MCInit => Init
    BY DEF MCInit, CandidateRests
  <1>2. [MCNext]_MCVars => [Next]_vars
    <2>1. CASE MCNext
      BY <2>1 DEF MCNext, stageVars
    <2>2. CASE UNCHANGED MCVars
      <3>1. UNCHANGED stageVars
        BY <2>2 DEF MCVars
      <3> QED
        BY <3>1 DEF stageVars
    <2> QED
      BY <2>1, <2>2
  <1> QED
    BY <1>1, <1>2, PTL DEF MCSpec, Spec

\* Whatever the graph and the edits, a candidate is the edited graph, and every node of it
\* has a path to a node without edges (edits.py:211-263).
THEOREM CandidatesAreSound == MCSpec => []CandidateIsSound
  <1>1. CandidateIsEdited /\ EveryNodeFinishes => CandidateIsSound
    BY DEF CandidateIsSound
  <1> QED
    BY <1>1, CandidatePart, CandidatesAreEdited, NodesFinish, PTL

USE NoneAssumption, GraphAssumption, DraftsAssumption, CallsAssumption

-----------------------------------------------------------------------------
(* FirstGraph: what holds while a first graph is made.                     *)

Graphs == [nodes : SUBSET Ids, edges : SUBSET Edges]

\* A document lists its nodes.
Documents == [nodes : Seq(Ids), edges : SUBSET Edges]

\* The inputs of the kind the source is of.
SourceInv ==
    /\ source.kind \in {"nothing", "conflict", "document", "graph", "text"}
    /\ source.kind = "document" => source.graph \in Documents
    /\ source.kind = "graph" => source.graph \in Graphs
    /\ source.ceiling \in {None, MaxCalls}
    /\ source.kind # "text" => source.ceiling = None

DraftType ==
    [step : {"none", "propose", "asked", "made", "failed"}, own : Nat, others : {0, 1}, before : Nat,
     reply : {None} \cup Calls!Replies, graph : {None} \cup Drafts]

\* A draft is that of its last reply, and valid; another is asked for up to the retries.
DraftInv ==
    /\ drafting \in DraftType
    /\ drafting.graph # None <=> drafting.reply = "good"
    /\ drafting.graph # None => First!Valid(drafting.graph)
    /\ drafting.own <= Retries + 1
    /\ drafting.step # "made" => drafting.own <= Retries
    /\ drafting.step = "made" => drafting.own >= 1 /\ drafting.reply # None
    /\ drafting.step # "none" => source.kind = "text"

\* The meter is at what it began with, the calls of the draft and those of others, and the answer
\* that was lost when the draft failed; a meter of the draft's own begins with nothing and never
\* passes the ceiling.
MeterInv ==
    /\ budget \in [calls : Nat, ceiling : {None, MaxCalls}]
    /\ drafting.step = "none" =>
          /\ drafting.own = 0 /\ drafting.others = 0
          /\ ~ source.shared => budget.calls = 0 /\ budget.ceiling = None
    /\ drafting.step # "none" =>
          /\ LET sum == drafting.before + drafting.own + drafting.others
             IN  budget.calls = sum \/ (drafting.step = "failed" /\ budget.calls = sum + 1)
          /\ ~ source.shared =>
                /\ drafting.before = 0 /\ drafting.others = 0
                /\ budget.ceiling = source.ceiling
                /\ source.ceiling # None => budget.calls <= MaxCalls
                /\ source.ceiling # None /\ drafting.step = "asked" => budget.calls < MaxCalls

EndInv == First!SeedIsSound /\ First!CallsAreOfDraft

FirstInv == SourceInv /\ DraftInv /\ MeterInv /\ EndInv

-----------------------------------------------------------------------------
(* The skeleton.                                                           *)

\* The instance validates as this module does.
LEMMA FirstValidates == \A g : First!Valid(g) <=> Invalid(g.nodes, g.edges) = {}
<1>1. \A ns, es : First!CanFinish(ns, es) = CanFinish(ns, es)
  <2>1. First!Cardinality(Ids) = Cardinality(Ids)
    BY DEF First!Cardinality, Cardinality
  <2>2. \A ns, es : First!Terminals(ns, es) = Terminals(ns, es)
    BY DEF First!Terminals, Terminals, First!Successors, Successors
  <2> QED
    BY <2>1, <2>2 DEF First!CanFinish, CanFinish
<1> QED
  BY <1>1 DEF First!Valid, First!Invalid, Invalid

\* The skeleton is a graph without errors: its edge leads to the one node that has none.
LEMMA SkeletonIsValid ==
    /\ First!Skeleton \in Graphs
    /\ First!Valid(First!Skeleton)
    /\ First!IsSkeleton(First!Skeleton)
<1> DEFINE ns == {Start, End}
           edge == [source |-> Start, target |-> End]
           es == {edge}
<1>1. First!Skeleton = [nodes |-> ns, edges |-> es]
  BY DEF First!Skeleton, First!Graph
<1>2. edge \in Edges /\ ns \in SUBSET Ids /\ es \in SUBSET Edges
  BY DEF Edges
<1>3. First!Skeleton \in Graphs
  BY <1>1, <1>2 DEF Graphs
<1>4. First!IsSkeleton(First!Skeleton)
  <2>1. Cardinality(es) = 1
    BY FS_Singleton
  <2>2. First!Cardinality(es) = Cardinality(es)
    BY DEF First!Cardinality, Cardinality
  <2> QED
    BY <1>1, <2>1, <2>2 DEF First!IsSkeleton
<1>5. ns \subseteq CanFinish(ns, es)
  <2>1. PICK f \in [Nat -> SUBSET Ids] :
          /\ f[0] = Terminals(ns, es)
          /\ \A i \in Nat : f[i + 1] = f[i] \cup {e.source : e \in {h \in es : h.target \in f[i] /\ h.source \in ns}}
          /\ CanFinish(ns, es) = f[Cardinality(Ids)]
    BY <1>2, FinishIterates
  <2>2. End \in f[0]
    BY <2>1 DEF Terminals, Successors
  <2>3. \A i \in Nat : f[i] \subseteq f[i + 1]
    BY <2>1
  <2> DEFINE ks == {k \in Nat : ns \subseteq f[k + 1]}
  <2>4. 0 \in ks
    <3>1. f[0 + 1] = f[0] \cup {e.source : e \in {h \in es : h.target \in f[0] /\ h.source \in ns}}
      BY <2>1
    <3>2. edge \in {h \in es : h.target \in f[0] /\ h.source \in ns}
      BY <2>2
    <3>3. Start \in {e.source : e \in {h \in es : h.target \in f[0] /\ h.source \in ns}}
      BY <3>2
    <3> QED
      BY <2>2, <3>1, <3>3
  <2>5. ASSUME NEW k \in ks PROVE k + 1 \in ks
    BY <2>3
  <2>6. ks \in SUBSET Nat
    OBVIOUS
  <2> HIDE DEF ks
  <2>7. ks = Nat
    BY <2>4, <2>5, <2>6, NatsByStep
  <2>8. Cardinality(Ids) \in Nat /\ Cardinality(Ids) # 0
    BY FS_CardinalityType, FS_EmptySet
  <2>9. Cardinality(Ids) - 1 \in ks /\ (Cardinality(Ids) - 1) + 1 = Cardinality(Ids)
    BY <2>7, <2>8
  <2> QED
    BY <2>1, <2>9 DEF ks
<1>6. Invalid(ns, es) = {}
  BY <1>2, <1>5 DEF Invalid
<1> QED
  BY <1>1, <1>3, <1>4, <1>6, FirstValidates

\* A valid graph has both sentinels.
LEMMA ValidHasEnds == ASSUME NEW g, First!Valid(g) PROVE {Start, End} \subseteq g.nodes
  BY DEF First!Valid, First!Invalid

-----------------------------------------------------------------------------
(* How it ends.                                                            *)

\* A document is completed to a graph.
LEMMA CompletedIsGraph ==
    ASSUME source.graph \in Documents
    PROVE  /\ First!Completed \in Graphs
           /\ \/ First!Completed = First!Skeleton
              \/ First!Completed = First!Graph(First!Listed \cup {Start, End}, source.graph.edges)
<1>1. First!Listed \in SUBSET Ids /\ source.graph.edges \in SUBSET Edges
  BY DEF First!Listed, First!Places, Documents
<1> HIDE DEF Documents
<1> QED
  BY <1>1, SkeletonIsValid DEF First!Completed, First!Graph, Graphs

\* A refusal with a reason is sound, whatever was refused, unless it is a graph that could be taken.
LEMMA RefusalEnds ==
    ASSUME NEW why, why # {}, First!Refuse(why), UNCHANGED source,
           source.kind \in {"document", "graph"} =>
              \/ source.broken
              \/ ~ First!Valid(IF source.kind = "graph" THEN source.graph
                               ELSE First!Graph(First!Listed \cup {Start, End}, source.graph.edges))
    PROVE  First!SeedIsSound' /\ ~ First!Seeded' /\ outcome'.origin = None
<1>1. outcome' = [seed |-> None, origin |-> None, entries |-> {}, calls |-> 0, why |-> why]
  BY DEF First!Refuse
<1>2. outcome'.seed = None /\ outcome'.origin = None /\ outcome'.why = why
  BY <1>1
<1>3. First!FirstGraphIsSound' /\ ~ First!Seeded'
  BY <1>2 DEF First!FirstGraphIsSound, First!Seeded
<1>4. First!HumanInputIsKept'
  <2> SUFFICES ASSUME source.kind \in {"document", "graph"}, ~ source.broken
               PROVE  ~ First!Valid(IF source.kind = "graph" THEN First!Graph(source.graph.nodes, source.graph.edges)
                                    ELSE First!Graph(First!Listed \cup {Start, End}, source.graph.edges))
    <3>1. First!Listed' = First!Listed
      BY DEF First!Listed, First!Places
    <3>2. First!Graph(First!Listed, source.graph.edges).nodes = First!Listed
          /\ First!Graph(First!Listed, source.graph.edges).edges = source.graph.edges
      BY DEF First!Graph
    <3>3. CASE source.kind = "graph"
      BY <1>2, <3>3 DEF First!HumanInputIsKept, First!Valid, First!Invalid, First!Graph
    <3>4. CASE source.kind = "document"
      <4> DEFINE ids == First!Listed
                 listed == First!Graph(ids, source.graph.edges)
      <4>1. First!HumanInputIsKept' <=>
              (source.broken \/ ~ First!Valid(First!Graph(listed.nodes \cup {Start, End}, listed.edges)))
        BY <1>2, <3>1, <3>4 DEF First!HumanInputIsKept, First!Valid, First!Invalid, First!Graph
      <4> QED
        BY <3>2, <3>4, <4>1
    <3>5. CASE source.kind \notin {"document", "graph"}
      BY <3>5 DEF First!HumanInputIsKept
    <3> QED
      BY <3>3, <3>4, <3>5
  <2> QED
    BY DEF First!Valid, First!Graph
<1>5. First!RefusalHasReason'
  BY <1>2 DEF First!RefusalHasReason
<1> QED
  BY <1>2, <1>3, <1>4, <1>5 DEF First!SeedIsSound

\* A seed that is not human input is sound when it is valid and its origin says what it is.
LEMMA SeedEnds ==
    ASSUME NEW g \in Graphs, NEW origin, NEW read, NEW n, NEW notes, First!Seed(g, origin, read, n, notes),
           UNCHANGED source, First!Valid(g),
           origin = "skeleton" <=> First!IsSkeleton(g),
           origin = "bootstrapped" <=> source.kind = "text"
    PROVE  /\ First!FirstGraphIsSound' /\ First!RefusalHasReason'
           /\ outcome'.seed = g /\ outcome'.origin = origin /\ outcome'.entries = read
           /\ outcome'.calls = n /\ outcome'.why = notes
<1>1. outcome' = [seed |-> g, origin |-> origin, entries |-> read, calls |-> n, why |-> notes]
  BY DEF First!Seed
<1>2. /\ outcome'.seed = g /\ outcome'.origin = origin /\ outcome'.entries = read
      /\ outcome'.calls = n /\ outcome'.why = notes
  BY <1>1
<1>3. g # None
  BY DEF Graphs
<1>4. {Start, End} \subseteq g.nodes
  BY ValidHasEnds
<1>5. First!FirstGraphIsSound'
  BY <1>2, <1>4 DEF First!FirstGraphIsSound, First!Valid, First!Invalid, First!IsSkeleton
<1> QED
  BY <1>2, <1>3, <1>5 DEF First!RefusalHasReason

-----------------------------------------------------------------------------
(* The actions.                                                            *)

\* Options that exclude each other.
LEMMA ConflictKeeps == ASSUME FirstInv, First!Conflict PROVE FirstInv'
<1>1. UNCHANGED <<source, drafting, budget>> /\ First!Refuse({"options"}) /\ source.kind = "conflict"
  BY DEF First!Conflict
<1>2. First!SeedIsSound' /\ ~ First!Seeded'
  BY <1>1, RefusalEnds
<1>3. First!CallsAreOfDraft'
  BY <1>1, <1>2 DEF First!CallsAreOfDraft, FirstInv, EndInv
<1> QED
  BY <1>1, <1>2, <1>3 DEF FirstInv, SourceInv, DraftInv, MeterInv, EndInv, First!Valid, First!Invalid

\* Nothing given: the skeleton.
LEMMA NoGraphKeeps == ASSUME FirstInv, First!NoGraph PROVE FirstInv'
<1>1. /\ UNCHANGED <<source, drafting, budget>>
      /\ First!Seed(First!Skeleton, "skeleton", {}, 0, {}) /\ source.kind = "nothing"
  BY DEF First!NoGraph
<1>2. First!FirstGraphIsSound' /\ First!RefusalHasReason' /\ outcome'.origin = "skeleton"
  BY <1>1, SeedEnds, SkeletonIsValid
<1>3. First!HumanInputIsKept'
  BY <1>1 DEF First!HumanInputIsKept
<1>4. First!CallsAreOfDraft'
  BY <1>1, <1>2 DEF First!CallsAreOfDraft, FirstInv, EndInv
<1> QED
  BY <1>1, <1>2, <1>3, <1>4
  DEF FirstInv, SourceInv, DraftInv, MeterInv, EndInv, First!SeedIsSound, First!Valid, First!Invalid

\* A document, with what is missing.
LEMMA DocumentKeeps == ASSUME FirstInv, First!Document PROVE FirstInv'
<1>1. UNCHANGED <<source, drafting, budget>> /\ source.kind = "document" /\ source.graph \in Documents
  BY DEF First!Document, FirstInv, SourceInv
<1>2. First!SeedIsSound' /\ (First!Seeded' => outcome'.origin # "bootstrapped")
  <2>1. CASE source.broken \/ ~ First!Valid(First!Completed)
    <3>1. First!Refuse({"document"})
      BY <2>1 DEF First!Document
    <3>2. source.broken \/ ~ First!Valid(First!Graph(First!Listed \cup {Start, End}, source.graph.edges))
      BY <1>1, <2>1, CompletedIsGraph, SkeletonIsValid
    <3> QED
      BY <1>1, <3>1, <3>2, RefusalEnds
  <2>2. CASE ~ (source.broken \/ ~ First!Valid(First!Completed))
    <3> DEFINE g == First!Completed
               notes == First!Notes
               ids == First!Listed
               last == First!Read
    <3>1. First!Seed(g, First!Origin(g), last, 0, notes) /\ First!Valid(g) /\ ~ source.broken
      BY <2>2 DEF First!Document
    <3>2. g \in Graphs
      BY <1>1, CompletedIsGraph
    <3>3. First!Origin(g) = "skeleton" <=> First!IsSkeleton(g)
      BY DEF First!Origin
    <3>4. First!Origin(g) # "bootstrapped"
      BY DEF First!Origin
    <3>5. /\ First!FirstGraphIsSound' /\ First!RefusalHasReason'
          /\ outcome'.seed = g /\ outcome'.origin = First!Origin(g)
          /\ outcome'.entries = last /\ outcome'.why = notes
      BY <1>1, <3>1, <3>2, <3>3, <3>4, SeedEnds
    <3>6. g # None
      BY <3>2 DEF Graphs
    <3>7. /\ ids \subseteq g.nodes /\ source.graph.edges \subseteq g.edges
          /\ g.nodes \subseteq ids \cup {Start, End}
          /\ g.edges # source.graph.edges => source.graph.edges = {} /\ g.nodes = {Start, End}
      BY DEF First!Completed, First!Graph, First!Skeleton
    <3>8. ids # {} =>
             /\ g.nodes # ids => "node" \in notes
             /\ g.edges # source.graph.edges => "edge" \in notes
      BY DEF First!Notes
    <3>a. \A n \in DOMAIN source.graph.nodes \ last :
             \E m \in DOMAIN source.graph.nodes : m > n /\ source.graph.nodes[m] = source.graph.nodes[n]
      BY DEF First!Read, First!Places
    <3> HIDE DEF g, notes, ids, last
    <3>9. First!HumanInputIsKept'
      <4>1. First!Listed' = ids
        BY <1>1 DEF First!Listed, First!Places, ids
      <4>2. First!Graph(ids, source.graph.edges).nodes = ids
            /\ First!Graph(ids, source.graph.edges).edges = source.graph.edges
        BY DEF First!Graph
      <4> QED
        BY <1>1, <3>1, <3>5, <3>6, <3>7, <3>8, <3>a, <4>1, <4>2 DEF First!HumanInputIsKept
    <3> QED
      BY <3>4, <3>5, <3>9 DEF First!SeedIsSound
  <2> QED
    BY <2>1, <2>2
<1>3. First!CallsAreOfDraft'
  BY <1>1, <1>2 DEF First!CallsAreOfDraft, FirstInv, EndInv
<1> QED
  BY <1>1, <1>2, <1>3 DEF FirstInv, SourceInv, DraftInv, MeterInv, EndInv, First!Valid, First!Invalid

\* A Graph, as it is.
LEMMA GivenKeeps == ASSUME FirstInv, First!Given PROVE FirstInv'
<1>1. UNCHANGED <<source, drafting, budget>> /\ source.kind = "graph" /\ source.graph \in Graphs
  BY DEF First!Given, FirstInv, SourceInv
<1>2. First!SeedIsSound' /\ (First!Seeded' => outcome'.origin # "bootstrapped")
  <2>1. CASE source.broken \/ ~ First!Valid(source.graph)
    <3>1. First!Refuse({"graph"})
      BY <2>1 DEF First!Given
    <3> QED
      BY <1>1, <2>1, <3>1, RefusalEnds
  <2>2. CASE ~ (source.broken \/ ~ First!Valid(source.graph))
    <3> DEFINE g == source.graph
    <3>1. First!Seed(g, First!Origin(g), {}, 0, {}) /\ First!Valid(g) /\ ~ source.broken
      BY <2>2 DEF First!Given
    <3>3. First!Origin(g) = "skeleton" <=> First!IsSkeleton(g)
      BY DEF First!Origin
    <3>4. First!Origin(g) # "bootstrapped"
      BY DEF First!Origin
    <3>5. /\ First!FirstGraphIsSound' /\ First!RefusalHasReason'
          /\ outcome'.seed = g /\ outcome'.origin = First!Origin(g)
      BY <1>1, <3>1, <3>3, <3>4, SeedEnds
    <3>6. g # None
      BY <1>1 DEF Graphs
    <3>9. First!HumanInputIsKept'
      <4>1. First!Graph(g.nodes, g.edges) = g
        BY <1>1 DEF First!Graph, Graphs
      <4> QED
        BY <1>1, <3>1, <3>5, <3>6, <4>1 DEF First!HumanInputIsKept
    <3> QED
      BY <3>4, <3>5, <3>9 DEF First!SeedIsSound
  <2> QED
    BY <2>1, <2>2
<1>3. First!CallsAreOfDraft'
  BY <1>1, <1>2 DEF First!CallsAreOfDraft, FirstInv, EndInv
<1> QED
  BY <1>1, <1>2, <1>3 DEF FirstInv, SourceInv, DraftInv, MeterInv, EndInv, First!Valid, First!Invalid

\* What is drafted has not ended, or ends with a refusal for a reason.
LEMMA DraftEnds ==
    ASSUME FirstInv, outcome = None, source.kind = "text", UNCHANGED source,
           DraftInv', MeterInv',
           outcome' = None \/ \E why : why # {} /\ First!Refuse(why)
    PROVE  FirstInv'
<1>1. First!SeedIsSound' /\ (First!Seeded' => outcome'.origin # "bootstrapped")
  <2>1. CASE outcome' = None
    BY <2>1 DEF First!SeedIsSound, First!FirstGraphIsSound, First!HumanInputIsKept, First!RefusalHasReason,
                First!Seeded
  <2>2. CASE \E why : why # {} /\ First!Refuse(why)
    BY <2>2, RefusalEnds
  <2> QED
    BY <2>1, <2>2
<1>2. source'.ceiling # None /\ ~ source'.shared => drafting'.own <= source'.ceiling
  <2> SUFFICES ASSUME source'.ceiling # None, ~ source'.shared PROVE drafting'.own <= source'.ceiling
    OBVIOUS
  <2>1. source'.ceiling = MaxCalls /\ drafting'.own \in Nat /\ drafting'.before \in Nat /\ drafting'.others \in {0, 1}
    BY DEF FirstInv, SourceInv, DraftInv, DraftType
  <2>2. drafting'.step = "none" => drafting'.own = 0
    BY DEF MeterInv
  <2>3. drafting'.step # "none" => drafting'.own <= MaxCalls
    <3> SUFFICES ASSUME drafting'.step # "none" PROVE drafting'.own <= MaxCalls
      OBVIOUS
    <3> DEFINE sum == drafting'.before + drafting'.own + drafting'.others
    <3>1. /\ budget'.calls = sum \/ budget'.calls = sum + 1
          /\ drafting'.before = 0 /\ drafting'.others = 0 /\ budget'.calls <= MaxCalls
      BY DEF MeterInv
    <3> QED
      BY <2>1, <3>1
  <2> QED
    BY <2>1, <2>2, <2>3
<1>3. First!CallsAreOfDraft'
  BY <1>1, <1>2 DEF First!CallsAreOfDraft
<1>4. SourceInv'
  BY DEF FirstInv, SourceInv
<1> QED
  BY <1>1, <1>3, <1>4 DEF FirstInv, EndInv

\* The meter is chosen and the draft begins.
LEMMA BootstrapKeeps == ASSUME FirstInv, First!Bootstrap PROVE FirstInv'
<1>1. outcome = None /\ source.kind = "text" /\ UNCHANGED source /\ drafting.step = "none"
  BY DEF First!Bootstrap, First!Undecided
<1>2. CASE First!Refuse({"text"}) /\ UNCHANGED <<drafting, budget>>
  <2>1. DraftInv' /\ MeterInv'
    BY <1>1, <1>2 DEF FirstInv, DraftInv, MeterInv, First!Valid, First!Invalid
  <2> QED
    BY <1>1, <1>2, <2>1, DraftEnds
<1>3. CASE /\ drafting' = [drafting EXCEPT !.step = "propose", !.before = budget.calls]
           /\ budget' = IF budget.ceiling = None THEN [budget EXCEPT !.ceiling = source.ceiling] ELSE budget
           /\ UNCHANGED outcome
  <2>t. drafting \in DraftType /\ budget \in [calls : Nat, ceiling : {None, MaxCalls}] /\ source.ceiling \in {None, MaxCalls}
    BY DEF FirstInv, DraftInv, MeterInv, SourceInv
  <2>1. /\ drafting' \in DraftType
        /\ drafting'.step = "propose" /\ drafting'.before = budget.calls
        /\ drafting'.own = drafting.own /\ drafting'.others = drafting.others
        /\ drafting'.reply = drafting.reply /\ drafting'.graph = drafting.graph
    BY <1>3, <2>t DEF DraftType
  <2>2. /\ budget' \in [calls : Nat, ceiling : {None, MaxCalls}]
        /\ budget'.calls = budget.calls
        /\ budget.ceiling = None => budget'.ceiling = source.ceiling
    BY <1>3, <2>t
  <2>3. DraftInv'
    BY <1>1, <2>1 DEF FirstInv, DraftInv, First!Valid, First!Invalid
  <2>4. MeterInv'
    <3>1. drafting.own = 0 /\ drafting.others = 0 /\ (~ source.shared => budget.calls = 0 /\ budget.ceiling = None)
      BY <1>1 DEF FirstInv, MeterInv
    <3>2. budget'.calls = drafting'.before + drafting'.own + drafting'.others
      BY <2>1, <2>2, <2>t, <3>1
    <3>3. ~ source.shared => /\ drafting'.before = 0 /\ drafting'.others = 0
                             /\ budget'.ceiling = source'.ceiling /\ budget'.calls <= MaxCalls
      BY <1>1, <2>1, <2>2, <3>1
    <3> QED
      BY <1>1, <2>1, <2>2, <3>2, <3>3 DEF MeterInv
  <2> QED
    BY <1>1, <1>3, <2>3, <2>4, DraftEnds
<1> QED
  BY <1>1, <1>2, <1>3 DEF First!Bootstrap

\* An attempt asks below the ceiling, or the draft ends.
LEMMA AttemptKeeps == ASSUME FirstInv, First!Attempt PROVE FirstInv'
<1>1. outcome = None /\ UNCHANGED <<source, budget>> /\ drafting.step = "propose"
  BY DEF First!Attempt
<1>2. source.kind = "text" /\ drafting \in DraftType /\ budget \in [calls : Nat, ceiling : {None, MaxCalls}]
  BY <1>1 DEF FirstInv, DraftInv, MeterInv
<1>3. CASE First!Exhausted
  <2>1. First!Refuse({"budget"}) /\ UNCHANGED drafting
    BY <1>3 DEF First!Attempt
  <2>2. DraftInv' /\ MeterInv'
    BY <1>1, <2>1 DEF FirstInv, DraftInv, MeterInv, First!Valid, First!Invalid
  <2> QED
    BY <1>1, <1>2, <2>1, <2>2, DraftEnds
<1>4. CASE ~ First!Exhausted
  <2>1. drafting' = [drafting EXCEPT !.step = "asked"] /\ UNCHANGED outcome
    BY <1>4 DEF First!Attempt
  <2>2. /\ drafting' \in DraftType
        /\ drafting'.step = "asked" /\ drafting'.before = drafting.before
        /\ drafting'.own = drafting.own /\ drafting'.others = drafting.others
        /\ drafting'.reply = drafting.reply /\ drafting'.graph = drafting.graph
    BY <1>2, <2>1 DEF DraftType
  <2>3. DraftInv'
    BY <1>1, <1>2, <2>2 DEF FirstInv, DraftInv, First!Valid, First!Invalid
  <2>4. MeterInv'
    <3>1. budget.ceiling # None => budget.calls < MaxCalls
      BY <1>2, <1>4 DEF First!Exhausted
    <3> QED
      BY <1>1, <2>2, <3>1 DEF FirstInv, MeterInv
  <2> QED
    BY <1>1, <1>2, <2>1, <2>3, <2>4, DraftEnds
<1> QED
  BY <1>3, <1>4

\* The model raises, or the hook with the answer counted.
LEMMA FailKeeps == ASSUME FirstInv, First!Fail PROVE FirstInv'
<1>1. outcome = None /\ UNCHANGED source /\ drafting.step = "asked" /\ First!Refuse({"model"})
  BY DEF First!Fail
<1>2. source.kind = "text" /\ drafting \in DraftType /\ budget \in [calls : Nat, ceiling : {None, MaxCalls}]
  BY <1>1 DEF FirstInv, DraftInv, MeterInv
<1>3. drafting' = [drafting EXCEPT !.step = "failed"] /\ budget' \in {budget, [budget EXCEPT !.calls = @ + 1]}
  BY DEF First!Fail
<1>4. /\ drafting' \in DraftType
      /\ drafting'.step = "failed" /\ drafting'.before = drafting.before
      /\ drafting'.own = drafting.own /\ drafting'.others = drafting.others
      /\ drafting'.reply = drafting.reply /\ drafting'.graph = drafting.graph
  BY <1>2, <1>3 DEF DraftType
<1>5. /\ budget' \in [calls : Nat, ceiling : {None, MaxCalls}] /\ budget'.ceiling = budget.ceiling
      /\ budget'.calls = budget.calls \/ budget'.calls = budget.calls + 1
  BY <1>2, <1>3
<1>6. DraftInv'
  BY <1>1, <1>2, <1>4 DEF FirstInv, DraftInv, First!Valid, First!Invalid
<1>7. MeterInv'
  <2>1. budget.calls = drafting.before + drafting.own + drafting.others
    BY <1>1 DEF FirstInv, MeterInv
  <2>2. budget.calls \in Nat /\ (budget.calls < MaxCalls => budget'.calls <= MaxCalls)
    BY <1>2, <1>5
  <2> QED
    BY <1>1, <1>4, <1>5, <2>1, <2>2 DEF FirstInv, MeterInv
<1> QED
  BY <1>1, <1>2, <1>6, <1>7, DraftEnds

\* A call of the host is counted by the meter they share.
LEMMA OtherKeeps == ASSUME FirstInv, First!OtherCall PROVE FirstInv'
<1>1. /\ outcome = None /\ UNCHANGED <<source, outcome>> /\ drafting.step # "none" /\ drafting.step # "made"
      /\ source.shared /\ drafting.others = 0
  BY DEF First!OtherCall
<1>2. source.kind = "text" /\ drafting \in DraftType /\ budget \in [calls : Nat, ceiling : {None, MaxCalls}]
  BY <1>1 DEF FirstInv, DraftInv, MeterInv
<1>3. budget' = [budget EXCEPT !.calls = @ + 1] /\ drafting' = [drafting EXCEPT !.others = 1]
  BY DEF First!OtherCall
<1>4. /\ drafting' \in DraftType
      /\ drafting'.step = drafting.step /\ drafting'.before = drafting.before
      /\ drafting'.own = drafting.own /\ drafting'.others = 1
      /\ drafting'.reply = drafting.reply /\ drafting'.graph = drafting.graph
  BY <1>2, <1>3 DEF DraftType
<1>5. budget' \in [calls : Nat, ceiling : {None, MaxCalls}] /\ budget'.calls = budget.calls + 1
  BY <1>2, <1>3
<1>6. DraftInv'
  BY <1>1, <1>2, <1>4 DEF FirstInv, DraftInv, First!Valid, First!Invalid
<1>7. MeterInv'
  <2>1. budget.calls = drafting.before + drafting.own + drafting.others /\ drafting.before \in Nat /\ drafting.own \in Nat
    <3>1. drafting.step # "failed"
      BY DEF First!OtherCall
    <3> QED
      BY <1>1, <1>2, <3>1 DEF FirstInv, MeterInv, DraftType
  <2>2. budget'.calls = drafting'.before + drafting'.own + drafting'.others
    BY <1>1, <1>2, <1>4, <1>5, <2>1
  <2> QED
    BY <1>1, <1>4, <1>5, <2>2 DEF MeterInv
<1> QED
  BY <1>1, <1>2, <1>6, <1>7, DraftEnds

\* An answer is counted with its reply.
LEMMA AnswerKeeps ==
    ASSUME FirstInv, NEW reply \in Calls!Replies, NEW graph \in {None} \cup Drafts,
           graph # None <=> reply = "good", First!Answer(reply, graph)
    PROVE  FirstInv'
<1>1. outcome = None /\ UNCHANGED <<source, outcome>> /\ drafting.step = "asked"
  BY DEF First!Answer
<1>2. source.kind = "text" /\ drafting \in DraftType /\ budget \in [calls : Nat, ceiling : {None, MaxCalls}]
  BY <1>1 DEF FirstInv, DraftInv, MeterInv
<1> DEFINE step == IF reply \in {"good", "empty"} \/ drafting.own = Retries THEN "made" ELSE "propose"
<1>3. budget' = [budget EXCEPT !.calls = @ + 1]
  BY DEF First!Answer
<1>4. drafting' = [drafting EXCEPT !.own = @ + 1, !.reply = reply, !.graph = graph, !.step = step]
  BY DEF First!Answer
<1>s. step \in {"made", "propose"} /\ (step = "propose" => drafting.own # Retries)
  OBVIOUS
<1> HIDE DEF step
<1>5. /\ drafting' \in DraftType
      /\ drafting'.step = step /\ drafting'.before = drafting.before
      /\ drafting'.own = drafting.own + 1 /\ drafting'.others = drafting.others
      /\ drafting'.reply = reply /\ drafting'.graph = graph
  <2>1. drafting' = [step |-> step, own |-> drafting.own + 1, others |-> drafting.others,
                     before |-> drafting.before, reply |-> reply, graph |-> graph]
    BY <1>2, <1>4 DEF DraftType
  <2>2. drafting.own + 1 \in Nat /\ drafting.others \in {0, 1} /\ drafting.before \in Nat
    BY <1>2 DEF DraftType
  <2>3. step \in {"none", "propose", "asked", "made"} /\ reply \in {None} \cup Calls!Replies
    BY <1>s
  <2>4. drafting' \in DraftType
    BY <2>1, <2>2, <2>3 DEF DraftType
  <2> QED
    BY <2>1, <2>4
<1>6. budget' \in [calls : Nat, ceiling : {None, MaxCalls}] /\ budget'.calls = budget.calls + 1
      /\ budget'.ceiling = budget.ceiling
  BY <1>2, <1>3
<1>n. drafting.own \in Nat /\ drafting.before \in Nat /\ drafting.others \in {0, 1} /\ budget.calls \in Nat
  BY <1>2 DEF DraftType
<1>7. DraftInv'
  <2>1. drafting'.graph # None => First!Valid(drafting'.graph)
    BY <1>5 DEF First!Answer
  <2>2. drafting.own <= Retries
    BY <1>1 DEF FirstInv, DraftInv
  <2>3. drafting'.own <= Retries + 1 /\ drafting'.own >= 1 /\ (drafting'.step # "made" => drafting'.own <= Retries)
    BY <1>5, <1>n, <1>s, <2>2
  <2>4. drafting'.reply # None
    BY <1>5 DEF Calls!Replies
  <2> QED
    BY <1>1, <1>2, <1>5, <2>1, <2>3, <2>4 DEF DraftInv, First!Valid, First!Invalid
<1>8. MeterInv'
  <2>1. budget.calls = drafting.before + drafting.own + drafting.others
    BY <1>1 DEF FirstInv, MeterInv
  <2>2. budget'.calls = drafting'.before + drafting'.own + drafting'.others
    BY <1>5, <1>6, <1>n, <2>1
  <2>3. ~ source.shared =>
          /\ drafting.before = 0 /\ drafting.others = 0
          /\ budget.ceiling = source.ceiling
          /\ source.ceiling # None => budget.calls < MaxCalls
    BY <1>1 DEF FirstInv, MeterInv
  <2>4. budget.calls < MaxCalls => budget'.calls <= MaxCalls
    BY <1>6, <1>n
  <2> QED
    BY <1>1, <1>5, <1>6, <1>s, <2>2, <2>3, <2>4 DEF MeterInv
<1> QED
  BY <1>1, <1>2, <1>7, <1>8, DraftEnds

\* What the draft is for: its graph, with the calls made meanwhile, or the reasons.
LEMMA ResultKeeps == ASSUME FirstInv, First!Result PROVE FirstInv'
<1>1. outcome = None /\ UNCHANGED <<source, drafting, budget>> /\ drafting.step = "made"
  BY DEF First!Result
<1>2. source.kind = "text" /\ drafting \in DraftType /\ budget \in [calls : Nat, ceiling : {None, MaxCalls}]
      /\ drafting.reply # None /\ drafting.own >= 1
  BY <1>1 DEF FirstInv, DraftInv, MeterInv
<1>3. DraftInv' /\ MeterInv'
  BY <1>1 DEF FirstInv, DraftInv, MeterInv, First!Valid, First!Invalid
<1>4. CASE drafting.reply # "good" \/ First!Useless
  <2>1. First!Refuse(First!Diagnosed)
    BY <1>4 DEF First!Result
  <2>2. drafting.reply \in Calls!Replies
    BY <1>2 DEF DraftType
  <2>3. First!Diagnosed # {}
    BY <1>4, <2>2 DEF First!Diagnosed, First!Useless, Calls!Replies
  <2> QED
    BY <1>1, <1>2, <1>3, <2>1, <2>3, DraftEnds
<1>5. CASE ~ (drafting.reply # "good" \/ First!Useless)
  <2> DEFINE g == drafting.graph
  <2>1. First!Seed(g, "bootstrapped", {}, First!Calls, {})
    BY <1>5 DEF First!Result
  <2>2. g # None /\ First!Valid(g) /\ drafting.reply = "good"
    BY <1>5 DEF FirstInv, DraftInv
  <2>3. g \in Graphs
    BY <1>2, <2>2 DEF DraftType, Graphs
  <2>4. ~ First!IsSkeleton(g)
    BY <1>5, <2>2 DEF First!Useless
  <2>5. /\ First!FirstGraphIsSound' /\ First!RefusalHasReason'
        /\ outcome'.calls = First!Calls
    BY <1>1, <1>2, <2>1, <2>2, <2>3, <2>4, SeedEnds
  <2>6. First!HumanInputIsKept'
    BY <1>1, <1>2 DEF First!HumanInputIsKept
  <2>7. First!Calls = drafting.own + drafting.others /\ First!Calls >= 1
    <3>1. budget.calls = drafting.before + drafting.own + drafting.others
      BY <1>1 DEF FirstInv, MeterInv
    <3>2. drafting.own \in Nat /\ drafting.before \in Nat /\ drafting.others \in {0, 1} /\ budget.calls \in Nat
      BY <1>2 DEF DraftType
    <3> QED
      BY <1>2, <3>1, <3>2 DEF First!Calls
  <2>8. First!CallsAreOfDraft'
    BY <1>1, <2>5, <2>7 DEF First!CallsAreOfDraft, FirstInv, EndInv
  <2> QED
    BY <1>1, <1>3, <2>5, <2>6, <2>8 DEF FirstInv, SourceInv, EndInv, First!SeedIsSound
<1> QED
  BY <1>4, <1>5

\* It begins with one of the sources, and with a meter as the source has it.
LEMMA FirstInit == First!Init => FirstInv
<1> SUFFICES ASSUME First!Init PROVE FirstInv
  OBVIOUS
<1>1. SourceInv /\ (source.kind # "text" => ~ source.shared)
  <2>1. CASE \E kind \in {"nothing", "conflict"} : source = First!Written(kind, None, FALSE)
    BY <2>1 DEF First!Written, SourceInv
  <2>2. ASSUME NEW ns \in SUBSET Ids, NEW es \in First!FewEdges, NEW broken \in BOOLEAN,
               source = First!Written("graph", First!Graph(ns, es), broken)
        PROVE  SourceInv /\ (source.kind # "text" => ~ source.shared)
    <3>1. es \in SUBSET Edges
      BY DEF First!FewEdges, First!Edges, Edges
    <3> QED
      BY <2>2, <3>1 DEF First!Written, SourceInv, First!Graph, Graphs
  <2>4. ASSUME NEW n \in Nat, NEW ns \in [1 .. n -> Ids], NEW es \in First!FewEdges, NEW broken \in BOOLEAN,
               source = First!Written("document", First!Graph(ns, es), broken)
        PROVE  SourceInv /\ (source.kind # "text" => ~ source.shared)
    <3>1. es \in SUBSET Edges
      BY DEF First!FewEdges, First!Edges, Edges
    <3>2. ns \in Seq(Ids)
      OBVIOUS
    <3> QED
      BY <2>4, <3>1, <3>2 DEF First!Written, SourceInv, First!Graph, Documents
  <2>3. ASSUME NEW problem, NEW tools, NEW shared, NEW ceiling \in {None, MaxCalls}, NEW solutions,
               source = First!Told(problem, tools, solutions, shared, ceiling)
        PROVE  SourceInv /\ (source.kind # "text" => ~ source.shared)
    BY <2>3 DEF First!Told, SourceInv
  <2> QED
    <3>1. \A n \in 0 .. NodeEntries : n \in Nat
      BY GuidanceAssumption
    <3> QED
      BY <2>1, <2>2, <2>3, <2>4, <3>1 DEF First!Init
<1>2. drafting = [step |-> "none", own |-> 0, others |-> 0, before |-> 0, reply |-> None, graph |-> None]
      /\ outcome = None
  BY DEF First!Init
<1>3. budget \in [calls : Nat, ceiling : {None, MaxCalls}] /\ (~ source.shared => budget.calls = 0 /\ budget.ceiling = None)
  BY DEF First!Init
<1>4. DraftInv
  BY <1>2 DEF DraftInv, DraftType
<1>5. MeterInv
  BY <1>2, <1>3 DEF MeterInv
<1>6. First!SeedIsSound
  BY <1>2 DEF First!SeedIsSound, First!FirstGraphIsSound, First!HumanInputIsKept, First!RefusalHasReason, First!Seeded
<1>7. First!CallsAreOfDraft
  BY <1>1, <1>2 DEF First!CallsAreOfDraft, First!Seeded, SourceInv
<1> QED
  BY <1>1, <1>4, <1>5, <1>6, <1>7 DEF FirstInv, EndInv

\* Every step keeps it.
LEMMA FirstStep == ASSUME FirstInv, [First!Next]_First!vars PROVE FirstInv'
<1>1. ASSUME NEW reply \in {"unreadable", "empty", "refused"}, First!Answer(reply, None) PROVE FirstInv'
  BY <1>1, AnswerKeeps DEF Calls!Replies
<1>2. ASSUME NEW graph \in Drafts, First!Answer("good", graph) PROVE FirstInv'
  <2>1. graph # None
    OBVIOUS
  <2> QED
    BY <1>2, <2>1, AnswerKeeps DEF Calls!Replies
<1>3. CASE UNCHANGED First!vars
  <2>1. source' = source /\ drafting' = drafting /\ budget' = budget /\ outcome' = outcome
    BY <1>3 DEF First!vars
  <2> QED
    <3>1. SourceInv' /\ DraftInv' /\ MeterInv'
      BY <2>1 DEF FirstInv, SourceInv, DraftInv, MeterInv, First!Valid, First!Invalid
    <3>2. First!FirstGraphIsSound'
      BY <2>1 DEF FirstInv, EndInv, First!SeedIsSound, First!FirstGraphIsSound, First!Seeded,
                  First!Valid, First!Invalid, First!IsSkeleton
    <3>3. First!HumanInputIsKept'
      <4>1. First!Listed' = First!Listed
        BY <2>1 DEF First!Listed, First!Places
      <4>2. First!HumanInputIsKept
        BY DEF FirstInv, EndInv, First!SeedIsSound
      <4> QED
        BY <2>1, <4>1, <4>2 DEF First!HumanInputIsKept, First!Valid, First!Invalid, First!Graph
    <3>4. First!RefusalHasReason' /\ First!CallsAreOfDraft'
      BY <2>1 DEF FirstInv, EndInv, First!SeedIsSound, First!RefusalHasReason, First!CallsAreOfDraft, First!Seeded
    <3> QED
      BY <3>1, <3>2, <3>3, <3>4 DEF FirstInv, EndInv, First!SeedIsSound
<1> QED
  BY <1>1, <1>2, <1>3, ConflictKeeps, NoGraphKeeps, DocumentKeeps, GivenKeeps, BootstrapKeeps, AttemptKeeps,
     FailKeeps, OtherKeeps, ResultKeeps DEF First!Next

\* While the part is the first graph, a step is one of FirstGraph or changes nothing of it.
LEMMA FirstMoves ==
    ASSUME part = "first", [MCNext]_MCVars PROVE part' = part /\ [First!Next]_First!vars
  <1>1. CASE MCNext
    BY <1>1 DEF MCNext, First!vars
  <1>2. CASE UNCHANGED MCVars
    <2>1. UNCHANGED <<part, newerVars>>
      BY <1>2 DEF MCVars
    <2>2. UNCHANGED firstVars
      BY <2>1 DEF newerVars
    <2> QED
      BY <2>1, <2>2 DEF firstVars, First!vars
  <1> QED
    BY <1>1, <1>2

\* All that holds of the first graph at every step.
FirstHolds == part = "first" => FirstInv

\* The invariant of the first graph holds at every step of the part.
LEMMA FirstAlways == MCSpec => []FirstHolds
  <1>1. MCInit => FirstHolds
    BY FirstInit DEF MCInit, FirstHolds
  <1>2. FirstHolds /\ [MCNext]_MCVars => FirstHolds'
    <2> SUFFICES ASSUME FirstHolds, [MCNext]_MCVars, part' = "first" PROVE FirstInv'
      BY DEF FirstHolds
    <2>1. part = "first"
      BY PartStays
    <2>2. [First!Next]_First!vars /\ FirstInv
      BY <2>1, FirstMoves DEF FirstHolds
    <2> QED
      BY <2>2, FirstStep
  <1> QED
    BY <1>1, <1>2, PTL DEF MCSpec

\* Wherever it comes from, the first graph is valid and of the origin it says; human input that
\* is taken loses no edge, and no entry but to a later one with the same id; and what is refused is
\* refused for a reason (graph.py:246-291, harness.py:82-105, roles/bootstrap.py:57-59, 127-139).
THEOREM SeedsAreSound == MCSpec => []SeedIsSound
  <1>1. FirstHolds => SeedIsSound
    BY DEF FirstHolds, FirstInv, EndInv, SeedIsSound
  <1> QED
    BY <1>1, FirstAlways, PTL

\* However calls overlap and fail, the meter has counted what its callers have had, what is on its
\* way to them and what was lost in the hook, and a seed says the calls made while it was drafted
\* (hooks.py:151-160, guidance.py:164-176, refiner.py:180-184, roles/bootstrap.py:110-137).
THEOREM EveryAnswerIsSomewhere == MCSpec => []AnswersAccounted
  <1>1. CallsHold /\ FirstHolds => AnswersAccounted
    <2> SUFFICES ASSUME CallsHold, FirstHolds PROVE AnswersAccounted
      OBVIOUS
    <2>1. part = "calls" => Calls!AnswersAccounted
      BY AccountHolds DEF CallsHold, CallsInv
    <2>2. part = "first" => First!CallsAreOfDraft
      BY DEF FirstHolds, FirstInv, EndInv
    <2> QED
      BY <2>1, <2>2 DEF AnswersAccounted
  <1> QED
    BY <1>1, CallsAlways, FirstAlways, PTL


=============================================================================

--------------------------- MODULE CandidateProofs ---------------------------
(***************************************************************************)
(* PrepareCandidate for graphs of any size and any edit set: a candidate   *)
(* is the edited graph, and the cycle repair leaves no cycle, cuts no edge *)
(* in vain and ends after two passes.                                      *)
(***************************************************************************)
EXTENDS PrepareCandidate, FiniteSetTheorems, SequenceTheorems, WellFoundedInduction, TLAPS

USE GraphAssumption, BoundsAssumption

FrameType == [node : Ids, rest : SUBSET Edges]

\* Of an edge that was looked at: it closes a cycle, or the search is done with its target.
Seen(e) == e \in back \/ colour[e.target] = 2

\* A node the search is done with: its edges lead to nodes finished before it, those that
\* close a cycle apart.
ClosedInOrder ==
    \A n \in Ids : colour[n] = 2 =>
        /\ finish[n] <= clock
        /\ \A e \in edges :
              e.source = n /\ e.target \in nodes /\ e \notin back =>
                  colour[e.target] = 2 /\ finish[e.target] < finish[n]

\* A node on the stack: each of its edges is still to be looked at, or was, or is the one
\* that led to the node above.
OpenInOrder ==
    \A i \in 1 .. Len(stack) : \A e \in edges :
        e.source = stack[i].node /\ e.target \in nodes /\ e \notin stack[i].rest =>
            Seen(e) \/ (i < Len(stack) /\ stack[i + 1].node = e.target)

\* The inductive invariant.
IInv ==
    /\ TypeOK
    /\ phase = "search" => ClosedInOrder /\ OpenInOrder
    /\ RepairedHasOrder

-----------------------------------------------------------------------------
(* Lemmas.                                                                 *)

\* The first node of a set that is not empty is one of them, and none is before it.
LEMMA LeastBounds ==
    ASSUME NEW ns, ns \subseteq Ids, ns # {}
    PROVE  Least(ns) \in ns /\ \A n \in ns : Least(ns) <= n
<1>1. \E x \in ns : \A y \in ns : ~ (<<y, x>> \in OpToRel(<, Nat))
  BY NatLessThanWellFounded, WFMin
<1>2. PICK x \in ns : \A y \in ns : ~ (<<y, x>> \in OpToRel(<, Nat))
  BY <1>1
<1>3. \A y \in ns : ~ (y \in Nat /\ x \in Nat /\ y < x)
  BY <1>2, Zenon DEF OpToRel
<1>4. \A y \in ns : x <= y
  BY <1>3
<1> QED
  BY <1>4 DEF Least

\* The least id of a set is one of them.
LEMMA LeastIsOne ==
    ASSUME NEW ns, ns \subseteq Ids, ns # {}
    PROVE  Least(ns) \in ns
BY LeastBounds

\* What the stack is when its top frame is dropped.
LEMMA TopDropped ==
    ASSUME NEW s \in Seq(FrameType), s # <<>>, NEW t, t = SubSeq(s, 1, Len(s) - 1)
    PROVE  /\ t \in Seq(FrameType)
           /\ Len(t) = Len(s) - 1
           /\ \A i \in 1 .. Len(s) - 1 : t[i] = s[i]
<1>1. Len(s) \in Nat /\ Len(s) >= 1
  BY EmptySeq
<1>2. \A i \in 1 .. Len(s) - 1 : s[i] \in FrameType
  BY <1>1, ElementOfSeq
<1>3. /\ t \in Seq(FrameType)
      /\ Len(t) = IF 1 <= Len(s) - 1 THEN Len(s) - 1 - 1 + 1 ELSE 0
      /\ \A i \in 1 .. Len(s) - 1 - 1 + 1 : t[i] = s[1 + i - 1]
  BY <1>1, <1>2, SubSeqProperties
<1>4. Len(s) - 1 - 1 + 1 = Len(s) - 1
  BY <1>1
<1>5. \A i \in 1 .. Len(s) - 1 : 1 + i - 1 = i
  BY <1>1
<1>6. ASSUME NEW i \in 1 .. Len(s) - 1 PROVE t[i] = s[i]
  <2>1. i \in 1 .. Len(s) - 1 - 1 + 1
    BY <1>4
  <2>2. t[i] = s[1 + i - 1]
    BY <1>3, <2>1
  <2> QED
    BY <1>5, <2>2
<1>7. Len(t) = Len(s) - 1
  <2>1. Len(t) = IF 1 <= Len(s) - 1 THEN Len(s) - 1 - 1 + 1 ELSE 0
    BY <1>3
  <2> DEFINE k == Len(s)
  <2>2. k \in Nat /\ k >= 1 /\ Len(t) = IF 1 <= k - 1 THEN k - 1 - 1 + 1 ELSE 0
    BY <1>1, <2>1
  <2> HIDE DEF k
  <2>3. Len(t) = k - 1
    BY <2>2
  <2> QED
    BY <2>3 DEF k
<1> QED
  BY <1>3, <1>6, <1>7

\* And when it is replaced.
Replaced(s, f) == Append(SubSeq(s, 1, Len(s) - 1), f)

\* Replacing the top frame leaves the rest of the stack alone.
LEMMA TopReplaced ==
    ASSUME NEW s \in Seq(FrameType), s # <<>>, NEW f \in FrameType
    PROVE  /\ Replaced(s, f) \in Seq(FrameType)
           /\ Len(Replaced(s, f)) = Len(s)
           /\ \A i \in 1 .. Len(s) - 1 : Replaced(s, f)[i] = s[i]
           /\ Replaced(s, f)[Len(s)] = f
<1> DEFINE b == SubSeq(s, 1, Len(s) - 1)
<1>1. Len(s) \in Nat /\ Len(s) >= 1
  BY EmptySeq
<1>2. b \in Seq(FrameType) /\ Len(b) = Len(s) - 1 /\ \A i \in 1 .. Len(s) - 1 : b[i] = s[i]
  BY TopDropped
<1>3. Replaced(s, f) = Append(b, f)
  BY DEF Replaced
<1> HIDE DEF b
<1> QED
  BY <1>1, <1>2, <1>3

-----------------------------------------------------------------------------
\* Nothing has been searched at the beginning.
LEMMA InitHolds == Init => IInv
BY DEF Init, IInv, TypeOK, Given, RepairedHasOrder, Searched, Edges

\* The edits disturb nothing but the candidate.
LEMMA EditHolds ==
    ASSUME IInv, NEW e \in Edges, NEW n \in Ids,
           DeleteEdge(e) \/ AddEdge(e) \/ DeleteNode(n) \/ AddNode(n)
    PROVE  IInv'
<1>0. \E i \in 1 .. 4 : phase' = Phases[i] /\ edits < MaxEdits /\ edits' = edits + 1
  BY DEF DeleteEdge, AddEdge, DeleteNode, AddNode, Edit
<1>1. /\ phase' \in {"delete_edges", "delete_nodes", "add_nodes", "add_edges"}
      /\ edits' \in 0 .. MaxEdits
      /\ nodes' \subseteq Ids
      /\ edges' \subseteq Edges
  <2>1. phase' \in {"delete_edges", "delete_nodes", "add_nodes", "add_edges"}
    BY <1>0 DEF Phases
  <2>2. edits' \in 0 .. MaxEdits
    BY <1>0 DEF IInv, TypeOK
  <2>3. nodes' \subseteq Ids /\ edges' \subseteq Edges
    <3>1. nodes \subseteq Ids /\ edges \subseteq Edges
      BY DEF IInv, TypeOK
    <3>2. CASE DeleteEdge(e) \/ AddEdge(e)
      BY <3>1, <3>2 DEF DeleteEdge, AddEdge
    <3>3. CASE DeleteNode(n) \/ AddNode(n)
      BY <3>1, <3>3 DEF DeleteNode, AddNode
    <3> QED
      BY <3>2, <3>3
  <2> QED
    BY <2>1, <2>2, <2>3
<1>2. UNCHANGED <<policy, colour, stack, back, removed, passes, clock, finish>>
  BY DEF DeleteEdge, AddEdge, DeleteNode, AddNode, Edit, search, pass
<1>3. TypeOK'
  BY <1>1, <1>2 DEF IInv, TypeOK
<1> QED
  BY <1>1, <1>3 DEF IInv, RepairedHasOrder, Searched

\* A pass begins.
LEMMA RestartHolds ==
    ASSUME IInv, Restart, edges' \subseteq Edges, removed' \subseteq Edges, passes' \in Nat,
           UNCHANGED <<policy, edits, nodes>>, phase' \in {"search", "check", "done"},
           phase' # "search" => passes' = 0
    PROVE  IInv'
<1>1. TypeOK'
  BY DEF IInv, TypeOK, Restart
<1>2. ClosedInOrder' /\ OpenInOrder'
  BY DEF Restart, ClosedInOrder, OpenInOrder
<1> QED
  BY <1>1, <1>2 DEF IInv, RepairedHasOrder, Searched

\* The first pass begins with nothing found.
LEMMA BuiltHolds == ASSUME IInv, Built PROVE IInv'
BY RestartHolds DEF Built, given, candidate, IInv, TypeOK

\* The next pass begins with nothing found, on the edges that stay.
LEMMA CutHolds == ASSUME IInv, Cut PROVE IInv'
<1>1. edges' \subseteq Edges /\ removed' \subseteq Edges /\ passes' \in Nat
  BY DEF Cut, IInv, TypeOK
<1> QED
  BY <1>1, RestartHolds DEF Cut, PassOver, given

\* The search starts at a node that no visit has reached.
LEMMA VisitHolds == ASSUME IInv, Visit PROVE IInv'
<1> DEFINE n == Least(White)
           f == Frame(n)
<1>1. n \in nodes /\ n \in Ids /\ colour[n] = 0
  <2>1. White \subseteq Ids /\ White # {}
    BY DEF Visit, White, IInv, TypeOK
  <2>2. n \in White
    BY <2>1, LeastIsOne
  <2> HIDE DEF n
  <2> QED
    BY <2>1, <2>2 DEF White
<1>2. f \in FrameType /\ f.node = n /\ f.rest = {e \in edges : e.source = n}
  BY <1>1 DEF Frame, Successors, FrameType, IInv, TypeOK
<1>3. /\ phase = "search" /\ stack = <<>> /\ stack' = <<f>> /\ colour' = [colour EXCEPT ![n] = 1]
      /\ UNCHANGED <<policy, edits, nodes, edges, phase, back, removed, passes, clock, finish>>
  BY DEF Visit, given, candidate, pass
<1> HIDE DEF n, f
<1>4. TypeOK'
  <2>1. stack' \in Seq(FrameType) /\ Len(stack') = 1 /\ stack'[1] = f
    BY <1>2, <1>3
  <2>2. \A m \in Ids : colour[m] # 1
    <3>1. \A m \in Ids : colour[m] = 1 <=> \E i \in 1 .. Len(stack) : stack[i].node = m
      BY DEF IInv, TypeOK
    <3>2. 1 .. Len(stack) = {}
      BY <1>3
    <3> QED
      BY <3>1, <3>2
  <2>3. colour' \in [Ids -> 0 .. 2] /\ \A m \in Ids : colour'[m] = 1 <=> m = n
    <3>1. colour \in [Ids -> 0 .. 2] /\ n \in Ids
      BY <1>1 DEF IInv, TypeOK
    <3>2. colour' \in [Ids -> 0 .. 2]
      BY <1>3, <3>1
    <3>3. \A m \in Ids : colour'[m] = IF m = n THEN 1 ELSE colour[m]
      BY <1>3, <3>1
    <3> QED
      BY <2>2, <3>2, <3>3
  <2>4. \A m \in Ids : colour'[m] = 1 <=> \E i \in 1 .. Len(stack') : stack'[i].node = m
    BY <1>1, <1>2, <2>1, <2>3
  <2> QED
    BY <1>3, <2>1, <2>3, <2>4 DEF IInv, TypeOK, FrameType
<1>5. ClosedInOrder'
  BY <1>1, <1>3 DEF IInv, TypeOK, ClosedInOrder, Edges
<1>6. OpenInOrder'
  BY <1>2, <1>3 DEF OpenInOrder
<1> QED
  BY <1>3, <1>4, <1>5, <1>6 DEF IInv, RepairedHasOrder, Searched

\* What the frame on top is.
LEMMA TopFrame ==
    ASSUME IInv, stack # <<>>
    PROVE  /\ Len(stack) \in Nat \ {0}
           /\ Top \in FrameType
           /\ colour[Top.node] = 1
           /\ \A i \in 1 .. Len(stack) - 1 : stack[i].node # Top.node
<1>1. stack \in Seq(FrameType)
  BY DEF IInv, TypeOK, FrameType
<1>2. Len(stack) \in Nat \ {0}
  BY <1>1, EmptySeq
<1>3. Top \in FrameType
  BY <1>1, <1>2, ElementOfSeq DEF Top
<1>4. Top.node \in Ids
  BY <1>3 DEF FrameType
<1>5. colour[Top.node] = 1
  <2>1. \A n \in Ids : (\E i \in 1 .. Len(stack) : stack[i].node = n) => colour[n] = 1
    BY DEF IInv, TypeOK
  <2>2. \E i \in 1 .. Len(stack) : stack[i].node = Top.node
    BY <1>2 DEF Top
  <2> QED
    BY <1>4, <2>1, <2>2
<1>6. \A i \in 1 .. Len(stack) - 1 : stack[i].node # Top.node
  BY <1>2 DEF IInv, TypeOK, Top
<1> QED
  BY <1>2, <1>3, <1>5, <1>6

\* An edge of the node on top is looked at: it closes a cycle, or leads to a finished node.
LEMMA LookHolds == ASSUME IInv, NEW e \in edges, Look(e) PROVE IInv'
<1> DEFINE r == Rest(e)
<1>1. /\ phase = "search" /\ stack # <<>> /\ stack' = Replaced(stack, r)
      /\ colour[e.target] # 0 \/ e.target \notin nodes
      /\ back' = IF colour[e.target] = 1 THEN back \cup {e} ELSE back
      /\ UNCHANGED <<policy, edits, nodes, edges, phase, colour, removed, passes, clock, finish>>
  BY DEF Look, Take, Below, Replaced, given, candidate
<1>2. e \in Edges /\ e.target \in Ids
  BY DEF IInv, TypeOK, Edges
<1>3. Top \in FrameType /\ Len(stack) \in Nat \ {0}
  BY <1>1, TopFrame
<1>4. r \in FrameType /\ r.node = Top.node /\ r.rest = Top.rest \ {e}
  BY <1>3 DEF Rest, FrameType
<1> HIDE DEF r
<1>5. stack \in Seq(FrameType)
  BY DEF IInv, TypeOK, FrameType
<1>6. /\ stack' \in Seq(FrameType)
      /\ Len(stack') = Len(stack)
      /\ \A i \in 1 .. Len(stack) - 1 : stack'[i] = stack[i]
      /\ stack'[Len(stack)] = r
  <2>1. stack # <<>> /\ stack' = Replaced(stack, r)
    BY <1>1
  <2>2. r \in FrameType
    BY <1>4
  <2>3. stack' \in Seq(FrameType)
    BY <1>5, <2>1, <2>2, TopReplaced
  <2>4. Len(stack') = Len(stack)
    BY <1>5, <2>1, <2>2, TopReplaced
  <2>5. \A i \in 1 .. Len(stack) - 1 : stack'[i] = stack[i]
    BY <1>5, <2>1, <2>2, TopReplaced
  <2>6. stack'[Len(stack)] = r
    BY <1>5, <2>1, <2>2, TopReplaced
  <2> QED
    BY <2>3, <2>4, <2>5, <2>6
<1>7. \A i \in 1 .. Len(stack) : stack'[i].node = stack[i].node
  BY <1>3, <1>4, <1>6 DEF Top
<1>8. TypeOK'
  <2>1. \A i, j \in 1 .. Len(stack') : stack'[i].node = stack'[j].node => i = j
    BY <1>6, <1>7 DEF IInv, TypeOK
  <2>2. \A n \in Ids : colour'[n] = 1 <=> \E i \in 1 .. Len(stack') : stack'[i].node = n
    BY <1>1, <1>6, <1>7, SMTT(30) DEF IInv, TypeOK
  <2> QED
    BY <1>1, <1>2, <1>6, <2>1, <2>2 DEF IInv, TypeOK, FrameType
<1>9. ClosedInOrder'
  BY <1>1 DEF IInv, ClosedInOrder
<1>10. OpenInOrder'
  <2> SUFFICES ASSUME NEW i \in 1 .. Len(stack), NEW d \in edges,
                      d.source = stack[i].node, d.target \in nodes, d \notin stack'[i].rest
               PROVE  \/ d \in back' \/ colour[d.target] = 2
                      \/ i < Len(stack) /\ stack[i + 1].node = d.target
    BY <1>1, <1>3, <1>6, <1>7 DEF OpenInOrder, Seen
  <2>1. CASE d \notin stack[i].rest
    BY <1>1, <2>1 DEF IInv, OpenInOrder, Seen
  <2>2. CASE d \in stack[i].rest
    <3>1. i = Len(stack)
      BY <1>3, <1>6, <2>2
    <3>2. d = e
      BY <1>4, <1>6, <2>2, <3>1 DEF Top
    <3>3. colour[e.target] # 0 /\ colour[e.target] \in 0 .. 2
      <4>1. colour[e.target] # 0
        BY <1>1, <3>2
      <4> QED
        BY <1>2, <4>1 DEF IInv, TypeOK
    <3> QED
      BY <1>1, <3>2, <3>3
  <2> QED
    BY <2>1, <2>2
<1> QED
  BY <1>1, <1>8, <1>9, <1>10 DEF IInv, RepairedHasOrder, Searched

\* An edge leads to a node not yet visited: the visit of that node comes on top.
LEMMA DescendHolds == ASSUME IInv, NEW e \in edges, Descend(e) PROVE IInv'
<1> DEFINE r == Rest(e)
           f == Frame(e.target)
           b == Replaced(stack, r)
           k == Len(stack)
<1>1. /\ phase = "search" /\ stack # <<>> /\ stack' = Append(b, f)
      /\ colour[e.target] = 0 /\ e.target \in nodes
      /\ colour' = [colour EXCEPT ![e.target] = 1]
      /\ UNCHANGED <<policy, edits, nodes, edges, phase, back, removed, passes, clock, finish>>
  BY DEF Descend, Take, Below, Replaced, given, candidate, pass
<1>2. e \in Edges /\ e.target \in Ids
  BY DEF IInv, TypeOK, Edges
<1>3. Top \in FrameType /\ k \in Nat \ {0}
  BY <1>1, TopFrame
<1>4. r \in FrameType /\ r.node = Top.node /\ r.rest = Top.rest \ {e}
  BY <1>3 DEF Rest, FrameType
<1>5. f \in FrameType /\ f.node = e.target /\ f.rest = {d \in edges : d.source = e.target}
  BY <1>2 DEF Frame, Successors, FrameType, IInv, TypeOK
<1>6. stack \in Seq(FrameType)
  BY DEF IInv, TypeOK, FrameType
<1> HIDE DEF r, f
<1>7. /\ b \in Seq(FrameType)
      /\ Len(b) = k
      /\ \A i \in 1 .. k - 1 : b[i] = stack[i]
      /\ b[k] = r
  <2>1. stack # <<>> /\ b = Replaced(stack, r)
    BY <1>1
  <2> HIDE DEF b
  <2>2. b \in Seq(FrameType)
    BY <1>4, <1>6, <2>1, TopReplaced
  <2>3. Len(b) = Len(stack)
    BY <1>4, <1>6, <2>1, TopReplaced
  <2>4. \A i \in 1 .. Len(stack) - 1 : b[i] = stack[i]
    BY <1>4, <1>6, <2>1, TopReplaced
  <2>5. b[Len(stack)] = r
    BY <1>4, <1>6, <2>1, TopReplaced
  <2> QED
    BY <2>2, <2>3, <2>4, <2>5
<1> HIDE DEF b
<1>8. /\ stack' \in Seq(FrameType)
      /\ Len(stack') = k + 1
      /\ \A i \in 1 .. k : stack'[i] = b[i]
      /\ stack'[k + 1] = f
  BY <1>1, <1>3, <1>5, <1>7, AppendProperties
<1>9. \A i \in 1 .. k : stack'[i].node = stack[i].node
  BY <1>3, <1>4, <1>7, <1>8 DEF Top
<1>10. stack'[k + 1].node = e.target
  BY <1>5, <1>8
<1>11. \A i \in 1 .. k : stack[i].node # e.target
  <2>1. \A n \in Ids : (\E i \in 1 .. Len(stack) : stack[i].node = n) => colour[n] = 1
    BY DEF IInv, TypeOK
  <2>2. ASSUME NEW i \in 1 .. k, stack[i].node = e.target PROVE FALSE
    <3>1. colour[e.target] = 1
      BY <1>2, <2>1, <2>2
    <3> QED
      BY <1>1, <3>1
  <2> QED
    BY <2>2
<1>12. colour' \in [Ids -> 0 .. 2] /\ \A n \in Ids : colour'[n] = IF n = e.target THEN 1 ELSE colour[n]
  BY <1>1, <1>2 DEF IInv, TypeOK
<1>13. TypeOK'
  <2>1. \A i, j \in 1 .. Len(stack') : stack'[i].node = stack'[j].node => i = j
    <3>1. \A i, j \in 1 .. k : stack[i].node = stack[j].node => i = j
      BY DEF IInv, TypeOK
    <3>2. ASSUME NEW i \in 1 .. k + 1, NEW j \in 1 .. k + 1, stack'[i].node = stack'[j].node
          PROVE  i = j
      <4>1. CASE i = k + 1 /\ j # k + 1
        BY <1>3, <1>9, <1>10, <1>11, <3>2, <4>1
      <4>2. CASE i # k + 1 /\ j = k + 1
        BY <1>3, <1>9, <1>10, <1>11, <3>2, <4>2
      <4>3. CASE i # k + 1 /\ j # k + 1
        <5>1. i \in 1 .. k /\ j \in 1 .. k
          BY <1>3, <4>3
        <5> QED
          BY <1>9, <3>1, <3>2, <5>1
      <4> QED
        BY <4>1, <4>2, <4>3
    <3> QED
      BY <1>8, <3>2
  <2>2. ASSUME NEW n \in Ids
        PROVE  colour'[n] = 1 <=> \E i \in 1 .. Len(stack') : stack'[i].node = n
    <3>1. CASE n = e.target
      <4>1. colour'[n] = 1
        BY <1>12, <3>1
      <4>2. k + 1 \in 1 .. Len(stack') /\ stack'[k + 1].node = n
        BY <1>3, <1>8, <1>10, <3>1
      <4> QED
        BY <4>1, <4>2
    <3>2. CASE n # e.target
      <4>1. colour'[n] = 1 <=> \E i \in 1 .. k : stack[i].node = n
        BY <1>12, <3>2 DEF IInv, TypeOK
      <4>2. (\E i \in 1 .. k : stack[i].node = n) <=> \E i \in 1 .. k + 1 : stack'[i].node = n
        BY <1>3, <1>9, <1>10, <3>2
      <4> QED
        BY <1>8, <4>1, <4>2
    <3> QED
      BY <3>1, <3>2
  <2>3. stack' \in Seq([node : Ids, rest : SUBSET Edges])
    BY <1>8 DEF FrameType
  <2> QED
    BY <1>1, <1>12, <2>1, <2>2, <2>3 DEF IInv, TypeOK
<1>14. ClosedInOrder'
  <2> SUFFICES ASSUME NEW n \in Ids, colour'[n] = 2
               PROVE  /\ finish[n] <= clock
                      /\ \A d \in edges :
                            d.source = n /\ d.target \in nodes /\ d \notin back =>
                                colour'[d.target] = 2 /\ finish[d.target] < finish[n]
    BY <1>1 DEF ClosedInOrder
  <2>1. colour[n] = 2
    BY <1>12
  <2>2. \A d \in edges : d.target \in Ids
    BY DEF IInv, TypeOK, Edges
  <2>3. \A d \in edges : colour[d.target] = 2 => colour'[d.target] = 2
    BY <1>1, <1>12, <2>2
  <2> QED
    BY <1>1, <2>1, <2>3 DEF IInv, ClosedInOrder
<1>15. OpenInOrder'
  <2> SUFFICES ASSUME NEW i \in 1 .. k + 1, NEW d \in edges,
                      d.source = stack'[i].node, d.target \in nodes, d \notin stack'[i].rest
               PROVE  \/ d \in back \/ colour'[d.target] = 2
                      \/ i < k + 1 /\ stack'[i + 1].node = d.target
    BY <1>1, <1>8 DEF OpenInOrder, Seen
  <2>1. d.target \in Ids /\ (colour[d.target] = 2 => colour'[d.target] = 2)
    BY <1>1, <1>12 DEF IInv, TypeOK, Edges
  <2>2. CASE i = k + 1
    BY <1>5, <1>8, <2>2
  <2>3. CASE i # k + 1 /\ d \notin stack[i].rest
    <3>1. i \in 1 .. k /\ d.source = stack[i].node
      BY <1>3, <1>9, <2>3
    <3>2. d \in back \/ colour[d.target] = 2 \/ (i < k /\ stack[i + 1].node = d.target)
      BY <1>1, <2>3, <3>1 DEF IInv, OpenInOrder, Seen
    <3>3. i < k => stack'[i + 1].node = stack[i + 1].node
      BY <1>3, <1>9, <3>1
    <3> QED
      BY <1>3, <2>1, <3>1, <3>2, <3>3
  <2>4. CASE i # k + 1 /\ d \in stack[i].rest
    <3>1. i \in 1 .. k
      BY <1>3, <2>4
    <3>2. i = k
      BY <1>3, <1>7, <1>8, <2>4, <3>1
    <3>3. d = e
      BY <1>4, <1>3, <1>7, <1>8, <2>4, <3>2 DEF Top
    <3> QED
      BY <1>3, <1>10, <3>2, <3>3
  <2> QED
    BY <2>2, <2>3, <2>4
<1> QED
  BY <1>1, <1>13, <1>14, <1>15 DEF IInv, RepairedHasOrder, Searched

\* The node on top has no edge left: it is finished after all its targets.
LEMMA LeaveHolds == ASSUME IInv, Leave PROVE IInv'
<1> DEFINE n == Top.node
           k == Len(stack)
<1>1. /\ phase = "search" /\ stack # <<>> /\ Top.rest = {}
      /\ stack' = SubSeq(stack, 1, Len(stack) - 1)
      /\ colour' = [colour EXCEPT ![n] = 2]
      /\ clock' = clock + 1 /\ finish' = [finish EXCEPT ![n] = clock + 1]
      /\ UNCHANGED <<policy, edits, nodes, edges, phase, back, removed, passes>>
  BY DEF Leave, Below, given, candidate, pass
<1>2. /\ k \in Nat \ {0}
      /\ Top \in FrameType
      /\ colour[n] = 1
      /\ \A i \in 1 .. k - 1 : stack[i].node # n
  BY <1>1, TopFrame
<1>3. n \in Ids /\ stack[k].node = n /\ stack[k].rest = {}
  BY <1>1, <1>2 DEF Top, FrameType
<1>4. stack \in Seq(FrameType)
  BY DEF IInv, TypeOK, FrameType
<1> HIDE DEF n
<1>5. /\ stack' \in Seq(FrameType)
      /\ Len(stack') = k - 1
      /\ \A i \in 1 .. k - 1 : stack'[i] = stack[i]
  <2>1. stack' \in Seq(FrameType)
    BY <1>1, <1>4, TopDropped
  <2>2. Len(stack') = Len(stack) - 1
    BY <1>1, <1>4, TopDropped
  <2>3. \A i \in 1 .. Len(stack) - 1 : stack'[i] = stack[i]
    BY <1>1, <1>4, TopDropped
  <2> QED
    BY <2>1, <2>2, <2>3
<1>6. /\ colour' \in [Ids -> 0 .. 2] /\ finish' \in [Ids -> Nat] /\ clock \in Nat
      /\ \A m \in Ids : colour'[m] = IF m = n THEN 2 ELSE colour[m]
      /\ \A m \in Ids : finish'[m] = IF m = n THEN clock + 1 ELSE finish[m]
  BY <1>1, <1>3 DEF IInv, TypeOK
<1>7. TypeOK'
  <2>1. \A i, j \in 1 .. Len(stack') : stack'[i].node = stack'[j].node => i = j
    <3>1. \A i, j \in 1 .. k : stack[i].node = stack[j].node => i = j
      BY DEF IInv, TypeOK
    <3> QED
      BY <1>2, <1>5, <3>1
  <2>2. ASSUME NEW m \in Ids
        PROVE  colour'[m] = 1 <=> \E i \in 1 .. Len(stack') : stack'[i].node = m
    <3>1. (\E i \in 1 .. Len(stack') : stack'[i].node = m) <=> \E i \in 1 .. k - 1 : stack[i].node = m
      BY <1>2, <1>5
    <3>2. colour[m] = 1 <=> \E i \in 1 .. k : stack[i].node = m
      BY DEF IInv, TypeOK
    <3>3. CASE m = n
      BY <1>2, <1>6, <3>1, <3>3
    <3>4. CASE m # n
      <4>1. (\E i \in 1 .. k - 1 : stack[i].node = m) <=> \E i \in 1 .. k : stack[i].node = m
        BY <1>2, <1>3, <3>4
      <4> QED
        BY <1>6, <3>1, <3>2, <3>4, <4>1
    <3> QED
      BY <3>3, <3>4
  <2>3. stack' \in Seq([node : Ids, rest : SUBSET Edges])
    BY <1>5 DEF FrameType
  <2> QED
    BY <1>1, <1>6, <2>1, <2>2, <2>3, SMTT(30) DEF IInv, TypeOK
<1>8. \A d \in edges : d.target \in Ids
  BY DEF IInv, TypeOK, Edges
<1>9. ASSUME NEW m \in Ids, colour[m] = 2
      PROVE  m # n /\ colour'[m] = 2 /\ finish'[m] = finish[m]
  <2>1. m # n
    BY <1>2, <1>9
  <2> QED
    BY <1>6, <1>9, <2>1
<1>10. ClosedInOrder'
  <2> SUFFICES ASSUME NEW m \in Ids, colour'[m] = 2
               PROVE  /\ finish'[m] <= clock + 1
                      /\ \A d \in edges :
                            d.source = m /\ d.target \in nodes /\ d \notin back =>
                                colour'[d.target] = 2 /\ finish'[d.target] < finish'[m]
    BY <1>1 DEF ClosedInOrder
  <2>1. CASE m # n
    <3>1. colour[m] = 2
      BY <1>6, <2>1
    <3>2. /\ finish[m] <= clock
          /\ \A d \in edges :
                d.source = m /\ d.target \in nodes /\ d \notin back =>
                    colour[d.target] = 2 /\ finish[d.target] < finish[m]
      BY <1>1, <3>1 DEF IInv, ClosedInOrder
    <3>3. finish[m] \in Nat /\ finish'[m] = finish[m]
      BY <1>6, <2>1 DEF IInv, TypeOK
    <3>4. ASSUME NEW d \in edges, d.source = m, d.target \in nodes, d \notin back
          PROVE  colour'[d.target] = 2 /\ finish'[d.target] < finish'[m]
      <4>1. colour[d.target] = 2 /\ finish[d.target] < finish[m]
        BY <3>2, <3>4
      <4>2. d.target \in Ids
        BY <1>8
      <4> QED
        BY <1>9, <3>3, <4>1, <4>2
    <3>5. finish'[m] <= clock + 1
      BY <1>6, <3>2, <3>3
    <3> QED
      BY <3>4, <3>5
  <2>2. CASE m = n
    <3>1. finish'[m] = clock + 1
      BY <1>6, <2>2
    <3>2. ASSUME NEW d \in edges, d.source = n, d.target \in nodes, d \notin back
          PROVE  colour'[d.target] = 2 /\ finish'[d.target] < clock + 1
      <4>1. Seen(d) \/ (k < Len(stack) /\ stack[k + 1].node = d.target)
        BY <1>1, <1>2, <1>3, <3>2 DEF IInv, OpenInOrder
      <4>2. colour[d.target] = 2
        BY <1>2, <3>2, <4>1 DEF Seen
      <4>3. finish[d.target] <= clock /\ finish[d.target] \in Nat
        BY <1>1, <1>8, <4>2 DEF IInv, ClosedInOrder, TypeOK
      <4>4. d.target \in Ids
        BY <1>8
      <4>5. colour'[d.target] = 2 /\ finish'[d.target] = finish[d.target]
        BY <1>9, <4>2, <4>4
      <4> QED
        BY <1>6, <4>3, <4>5
    <3> QED
      BY <1>6, <2>2, <3>1, <3>2
  <2> QED
    BY <2>1, <2>2
<1>11. OpenInOrder'
  <2> SUFFICES ASSUME NEW i \in 1 .. k - 1, NEW d \in edges,
                      d.source = stack[i].node, d.target \in nodes, d \notin stack[i].rest
               PROVE  \/ d \in back \/ colour'[d.target] = 2
                      \/ i < k - 1 /\ stack'[i + 1].node = d.target
    BY <1>1, <1>5 DEF OpenInOrder, Seen
  <2>1. i \in 1 .. k
    BY <1>2
  <2>2. d \in back \/ colour[d.target] = 2 \/ (i < k /\ stack[i + 1].node = d.target)
    BY <1>1, <2>1 DEF IInv, OpenInOrder, Seen
  <2>3. CASE i < k - 1
    <3>1. stack'[i + 1] = stack[i + 1]
      BY <1>2, <1>5, <2>3
    <3>2. colour[d.target] = 2 => colour'[d.target] = 2
      BY <1>8, <1>9
    <3> QED
      BY <2>2, <2>3, <3>1, <3>2
  <2>4. CASE i = k - 1
    <3>1. stack[i + 1].node = n
      BY <1>2, <1>3, <2>4
    <3>2. colour[d.target] = 2 => colour'[d.target] = 2
      BY <1>8, <1>9
    <3>3. stack[i + 1].node = d.target => colour'[d.target] = 2
      BY <1>3, <1>6, <3>1
    <3> QED
      BY <2>2, <3>2, <3>3
  <2> QED
    BY <1>2, <2>3, <2>4
<1> QED
  BY <1>1, <1>7, <1>10, <1>11 DEF IInv, RepairedHasOrder, Searched

\* A pass is over: every node is finished, and what it did not find leads to nodes finished
\* earlier.
LEMMA PassOrders ==
    ASSUME IInv, PassOver
    PROVE  \A e \in edges \ back :
              {e.source, e.target} \subseteq nodes => finish[e.target] < finish[e.source]
<1>1. phase = "search" /\ stack = <<>> /\ White = {}
  BY DEF PassOver
<1>2. \A n \in Ids : colour[n] # 1
  <2>1. Len(stack) = 0
    BY <1>1, EmptySeq
  <2>2. \A n \in Ids : colour[n] = 1 => \E i \in 1 .. Len(stack) : stack[i].node = n
    BY DEF IInv, TypeOK
  <2> QED
    BY <2>1, <2>2
<1>3. ASSUME NEW n \in nodes PROVE n \in Ids /\ colour[n] = 2
  <2>1. n \in Ids
    BY DEF IInv, TypeOK
  <2>2. colour[n] # 0 /\ colour[n] # 1 /\ colour[n] \in 0 .. 2
    BY <1>1, <1>2, <2>1 DEF White, IInv, TypeOK
  <2> QED
    BY <2>1, <2>2
<1> QED
  BY <1>1, <1>3 DEF IInv, ClosedInOrder

\* What the pass found is cut.
LEMMA RepairedHolds == ASSUME IInv, Repaired PROVE IInv'
<1>1. /\ phase' = "check" /\ edges' = edges \ back /\ removed' = removed \cup back
      /\ UNCHANGED <<policy, edits, nodes, passes, colour, stack, back, clock, finish>>
  BY DEF Repaired, given
<1>2. TypeOK'
  BY <1>1 DEF IInv, TypeOK
<1>3. \A e \in edges \ back : {e.source, e.target} \subseteq nodes => finish[e.target] < finish[e.source]
  BY PassOrders DEF Repaired
<1> QED
  BY <1>1, <1>2, <1>3 DEF IInv, RepairedHasOrder

\* The last check is made when the repair has ended.
LEMMA CheckHolds == ASSUME IInv, Check PROVE IInv'
BY DEF Check, given, search, pass, IInv, TypeOK, RepairedHasOrder, Searched

\* A step that changes nothing keeps the invariant.
LEMMA StutterHolds == ASSUME IInv, UNCHANGED vars PROVE IInv'
<1>1. TypeOK'
  BY DEF vars, IInv, TypeOK
<1>2. phase' = "search" => ClosedInOrder' /\ OpenInOrder'
  BY DEF vars, IInv, ClosedInOrder, OpenInOrder, Seen
<1>3. RepairedHasOrder'
  BY DEF vars, IInv, RepairedHasOrder, Searched
<1> QED
  BY <1>1, <1>2, <1>3 DEF IInv

\* Every action keeps the invariant.
LEMMA NextHolds == ASSUME IInv, [Next]_vars PROVE IInv'
<1>1. CASE UNCHANGED vars
  BY <1>1, StutterHolds
<1>2. ASSUME NEW e \in Edges, DeleteEdge(e) \/ AddEdge(e) PROVE IInv'
  BY <1>2, EditHolds
<1>3. ASSUME NEW n \in Ids, DeleteNode(n) \/ AddNode(n) PROVE IInv'
  <2>1. [source |-> n, target |-> n] \in Edges
    BY DEF Edges
  <2> QED
    BY <1>3, <2>1, EditHolds
<1>4. ASSUME NEW e \in edges, Descend(e) \/ Look(e) PROVE IInv'
  BY <1>4, DescendHolds, LookHolds
<1> QED
  BY <1>1, <1>2, <1>3, <1>4, BuiltHolds, VisitHolds, LeaveHolds, CutHolds, RepairedHolds,
     CheckHolds DEF Next

\* The invariant of the search holds at every step.
LEMMA Inductive == Spec => []IInv
BY InitHolds, NextHolds, PTL DEF Spec

-----------------------------------------------------------------------------
(* What a pass cuts.                                                       *)

\* An edge the search has been along, and will not look at again in this pass.
Taken(e) ==
    /\ colour[e.source] # 0
    /\ \A i \in 1 .. Len(stack) : stack[i].node = e.source => e \notin stack[i].rest

\* Such edges survive the pass, those that close a cycle apart.
Kept == {e \in edges \ back : Taken(e)}

\* The edge from a node on the stack to the next.
StepUp(i) == [source |-> stack[i].node, target |-> stack[i + 1].node]

\* The stack is a path of such edges, in the nodes of the candidate.
StackIsPath ==
    /\ \A i \in 1 .. Len(stack) :
          stack[i].node \in nodes /\ stack[i].rest \subseteq Successors(edges, stack[i].node)
    /\ \A i \in 1 .. Len(stack) - 1 : StepUp(i) \in Kept

\* What was found closes a cycle of edges that stay.
FoundClose ==
    \A b \in back : b \in edges /\ Taken(b) /\ Leads(nodes, Kept, b.target, b.source)

\* The edges lead downwards by a number of each node, and so does the stack.
Downwards(rank) ==
    /\ rank \in [Ids -> Nat]
    /\ \A e \in edges : {e.source, e.target} \subseteq nodes => rank[e.target] < rank[e.source]
    /\ \A i, j \in 1 .. Len(stack) : i < j => rank[stack[j].node] < rank[stack[i].node]

\* The invariant of the passes: the first finds all, and leaves an order in which the second
\* finds nothing.
PassInv ==
    /\ passes \in 0 .. 2
    /\ passes < 2 => removed = {}
    /\ phase \notin {"search", "check", "done"} => passes = 0
    /\ phase = "search" => passes # 0 /\ StackIsPath /\ FoundClose
    /\ phase = "search" /\ passes = 2 => back = {} /\ \E rank : Downwards(rank)
    /\ Searched => back = {}
    /\ \A e \in removed : Leads(nodes, edges, e.target, e.source)

\* The least edge of a set is one of them.
LEMMA LeastEdgeIsOne ==
    ASSUME NEW es, es \subseteq Edges, es # {}
    PROVE  LeastEdge(es) \in es
<1> DEFINE sources == {n \in Ids : \E e \in es : e.source = n}
           s == Least(sources)
           targets == {n \in Ids : \E e \in es : e.source = s /\ e.target = n}
           t == Least(targets)
<1>1. \A e \in es : e.source \in Ids /\ e.target \in Ids /\ e.source \in Nat /\ e.target \in Nat
  BY DEF Edges
<1>2. s \in sources /\ \A n \in sources : s <= n
  <2>1. sources # {} /\ sources \subseteq Ids
    BY <1>1
  <2> HIDE DEF sources
  <2>2. s \in sources
    BY <2>1, LeastIsOne
  <2> QED
    BY <2>1, <2>2, LeastBounds
<1>3. t \in targets /\ \A n \in targets : t <= n
  <2>1. targets # {} /\ targets \subseteq Ids
    BY <1>1, <1>2
  <2> HIDE DEF targets
  <2>2. t \in targets
    BY <2>1, LeastIsOne
  <2> QED
    BY <2>1, <2>2, LeastBounds
<1>4. PICK e \in es : e.source = s /\ e.target = t
  BY <1>3
<1>5. ASSUME NEW f \in es
      PROVE  e.source < f.source \/ (e.source = f.source /\ e.target <= f.target)
  <2>1. s <= f.source /\ s \in Nat /\ f.source \in Nat
    BY <1>1, <1>2
  <2>2. f.source = s => t <= f.target
    BY <1>1, <1>3
  <2> QED
    BY <1>4, <2>1, <2>2
<1> QED
  BY <1>5 DEF LeastEdge

\* The edge that is taken is one of the node on top.
LEMMA TakenIsOfTop ==
    ASSUME IInv, PassInv, NEW e \in edges, Take(e)
    PROVE  /\ phase = "search" /\ stack # <<>> /\ Len(stack) \in Nat \ {0}
           /\ e \in Top.rest /\ e.source = Top.node /\ ~ Taken(e)
           /\ Top.node \in nodes
<1>1. phase = "search" /\ stack # <<>> /\ Top.rest # {} /\ e = LeastEdge(Top.rest)
  BY DEF Take
<1>2. Len(stack) \in Nat \ {0} /\ Top \in FrameType
  BY <1>1, TopFrame
<1>3. e \in Top.rest
  BY <1>1, <1>2, LeastEdgeIsOne DEF FrameType
<1>4. Len(stack) \in 1 .. Len(stack)
  BY <1>2
<1>5. Top.rest \subseteq Successors(edges, Top.node) /\ Top.node \in nodes
  BY <1>1, <1>4 DEF PassInv, StackIsPath, Top
<1>6. e.source = Top.node
  BY <1>3, <1>5 DEF Successors
<1> QED
  BY <1>1, <1>2, <1>3, <1>4, <1>5, <1>6 DEF Taken, Top

\* A path stays when edges come to it.
LEMMA LeadsStays ==
    ASSUME NEW ns, NEW es, NEW fs, es \subseteq fs, NEW m, NEW n, Leads(ns, es, m, n)
    PROVE  Leads(ns, fs, m, n)
BY DEF Leads, Path

\* What was found still closes its cycles when the search goes on.
LEMMA FoundStays ==
    ASSUME PassInv, phase = "search", nodes' = nodes, edges' = edges, back \subseteq back',
           \A f \in back' \ back : ~ Taken(f),
           \A f \in edges : Taken(f) => Taken(f)'
    PROVE  /\ Kept \subseteq Kept'
           /\ \A b \in back : b \in edges' /\ Taken(b)' /\ Leads(nodes', Kept', b.target, b.source)
<1>1. Kept \subseteq Kept'
  BY DEF Kept
<1>2. ASSUME NEW b \in back
      PROVE  b \in edges' /\ Taken(b)' /\ Leads(nodes', Kept', b.target, b.source)
  <2>1. b \in edges /\ Taken(b) /\ Leads(nodes, Kept, b.target, b.source)
    BY DEF PassInv, FoundClose
  <2>2. Leads(nodes, Kept', b.target, b.source)
    BY <1>1, <2>1, LeadsStays
  <2> QED
    BY <2>1, <2>2
<1> QED
  BY <1>1, <1>2

\* An edge back to the stack closes a cycle: the stack is the rest of it.
LEMMA StackLeads ==
    ASSUME IInv, StackIsPath, stack # <<>>, NEW i \in 1 .. Len(stack)
    PROVE  Leads(nodes, Kept, stack[i].node, Top.node)
<1> DEFINE k == Len(stack) - i + 1
           p == [j \in 1 .. k |-> stack[i + j - 1].node]
<1>1. Len(stack) \in Nat \ {0}
  BY TopFrame
<1>2. k \in Nat /\ 1 <= k /\ \A j \in 1 .. k : i + j - 1 \in 1 .. Len(stack)
  BY <1>1
<1>3. p \in [1 .. k -> nodes]
  BY <1>2 DEF StackIsPath
<1>4. p[1] = stack[i].node /\ p[k] = Top.node
  <2>1. i + 1 - 1 = i /\ i + k - 1 = Len(stack) /\ 1 \in 1 .. k /\ k \in 1 .. k
    BY <1>1, <1>2
  <2> QED
    BY <2>1 DEF Top
<1>5. Path(Kept, p)
  <2>1. Len(p) = k
    <3> HIDE DEF k
    <3> QED
      BY <1>2
  <2>2. ASSUME NEW j \in 1 .. k - 1
        PROVE  [source |-> p[j], target |-> p[j + 1]] \in Kept
    <3>1. /\ i + j - 1 \in 1 .. Len(stack) - 1 /\ j \in 1 .. k /\ j + 1 \in 1 .. k
          /\ i + (j + 1) - 1 = (i + j - 1) + 1
      BY <1>1, <1>2
    <3>2. p[j] = stack[i + j - 1].node /\ p[j + 1] = stack[(i + j - 1) + 1].node
      BY <3>1
    <3>3. StepUp(i + j - 1) \in Kept
      BY <3>1 DEF StackIsPath
    <3> QED
      BY <3>2, <3>3 DEF StepUp
  <2> HIDE DEF p, k
  <2> QED
    BY <2>1, <2>2 DEF Path
<1>6. k \in 1 .. Cardinality(nodes)
  <2>1. IsFiniteSet(nodes)
    BY FS_Subset DEF IInv, TypeOK
  <2>2. \A a, b \in 1 .. k : p[a] = p[b] => a = b
    <3> SUFFICES ASSUME NEW a \in 1 .. k, NEW b \in 1 .. k, p[a] = p[b] PROVE a = b
      OBVIOUS
    <3>1. i + a - 1 \in 1 .. Len(stack) /\ i + b - 1 \in 1 .. Len(stack)
          /\ stack[i + a - 1].node = stack[i + b - 1].node
      BY <1>2
    <3>2. i + a - 1 = i + b - 1
      BY <3>1 DEF IInv, TypeOK
    <3> QED
      BY <3>2
  <2>3. p \in Injection(1 .. k, nodes)
    BY <1>3, <2>2 DEF Injection, IsInjective
  <2> HIDE DEF p
  <2>4. Cardinality(1 .. k) <= Cardinality(nodes)
    BY <2>1, <2>3, FS_Injection
  <2>5. Cardinality(1 .. k) = k
    <3> HIDE DEF k
    <3> QED
      BY <1>2, FS_Interval
  <2>6. Cardinality(nodes) \in Nat
    BY <2>1, FS_CardinalityType
  <2> HIDE DEF k
  <2> QED
    BY <1>2, <2>4, <2>5, <2>6
<1> HIDE DEF p, k
<1> QED
  BY <1>3, <1>4, <1>5, <1>6 DEF Leads

\* No pass has been made at the beginning.
LEMMA InitPasses == Init => PassInv
BY DEF Init, PassInv, Searched

\* The candidate is not searched yet.
LEMMA EditPasses ==
    ASSUME IInv, PassInv, NEW e \in Edges, NEW n \in Ids,
           DeleteEdge(e) \/ AddEdge(e) \/ DeleteNode(n) \/ AddNode(n)
    PROVE  PassInv'
<1>1. \E i \in 1 .. 4 : (\E j \in 1 .. i : phase = Phases[j]) /\ phase' = Phases[i]
  BY DEF DeleteEdge, AddEdge, DeleteNode, AddNode, Edit
<1>2. phase \notin {"search", "check", "done"} /\ phase' \notin {"search", "check", "done"}
  BY <1>1 DEF Phases
<1>3. UNCHANGED <<back, removed, passes>>
  BY DEF DeleteEdge, AddEdge, DeleteNode, AddNode, Edit, search, pass
<1>4. passes = 0 /\ removed = {}
  BY <1>2 DEF PassInv
<1> QED
  BY <1>2, <1>3, <1>4 DEF PassInv, Searched

\* A pass begins, with nothing found.
LEMMA RestartFinds == ASSUME Restart PROVE StackIsPath' /\ FoundClose'
<1>1. stack' = <<>> /\ back' = {} /\ Len(stack') = 0
  BY DEF Restart
<1> QED
  BY <1>1 DEF StackIsPath, FoundClose

\* The first pass begins without an order.
LEMMA BuiltPasses == ASSUME PassInv, Built PROVE PassInv'
<1>1. phase \notin {"search", "check", "done"}
  BY DEF Built, Phases
<1>2. passes = 0 /\ removed = {}
  BY <1>1 DEF PassInv
<1>3. /\ removed' = {} /\ phase' \in {"done", "check", "search"}
      /\ passes' = IF phase' = "search" THEN 1 ELSE 0
      /\ Restart
  BY <1>2 DEF Built
<1>4. StackIsPath' /\ FoundClose'
  BY <1>3, RestartFinds
<1> QED
  BY <1>3, <1>4 DEF PassInv, Searched

\* What a step of the search leaves, and what it must keep.
LEMMA SearchPasses ==
    ASSUME PassInv, phase = "search", UNCHANGED <<nodes, edges, phase, removed, passes>>,
           StackIsPath', FoundClose',
           passes = 2 => back' = {} /\ \E rank : Downwards(rank)'
    PROVE  PassInv'
BY DEF PassInv, Searched

\* The search begins again at a node not seen yet: the stack is that node alone.
LEMMA VisitPasses == ASSUME IInv, PassInv, Visit PROVE PassInv'
<1> DEFINE n == Least(White)
           f == Frame(n)
<1>1. n \in nodes /\ n \in Ids /\ colour[n] = 0
  <2>1. White \subseteq Ids /\ White # {}
    BY DEF Visit, White, IInv, TypeOK
  <2>2. n \in White
    BY <2>1, LeastIsOne
  <2> HIDE DEF n
  <2> QED
    BY <2>1, <2>2 DEF White
<1>2. f.node = n /\ f.rest = Successors(edges, n)
  BY DEF Frame
<1>3. /\ phase = "search" /\ stack = <<>> /\ stack' = <<f>> /\ colour' = [colour EXCEPT ![n] = 1]
      /\ UNCHANGED <<nodes, edges, phase, back, removed, passes>>
  BY DEF Visit, given, candidate, pass
<1> HIDE DEF n, f
<1>4. Len(stack') = 1 /\ stack'[1] = f
  BY <1>3
<1>5. \A m \in Ids : colour'[m] = IF m = n THEN 1 ELSE colour[m]
  BY <1>1, <1>3 DEF IInv, TypeOK
<1>6. StackIsPath'
  BY <1>1, <1>2, <1>3, <1>4 DEF StackIsPath
<1>7. ASSUME NEW e \in edges, Taken(e)
      PROVE  Taken(e)'
  <2>1. e.source \in Ids /\ e.source # n
    BY <1>1, <1>7 DEF Taken, IInv, TypeOK, Edges
  <2>2. colour'[e.source] # 0
    BY <1>5, <1>7, <2>1 DEF Taken
  <2>3. \A i \in 1 .. Len(stack') : stack'[i].node = n
    BY <1>2, <1>4
  <2> QED
    BY <2>1, <2>2, <2>3 DEF Taken
<1>8. FoundClose'
  BY <1>3, <1>7, FoundStays DEF FoundClose
<1>9. ASSUME passes = 2
      PROVE  back' = {} /\ \E rank : Downwards(rank)'
  <2>1. back = {} /\ \E rank : Downwards(rank)
    BY <1>3, <1>9 DEF PassInv
  <2>2. PICK rank : Downwards(rank)
    BY <2>1
  <2>3. Downwards(rank)'
    BY <1>3, <1>4, <2>2 DEF Downwards
  <2> QED
    BY <1>3, <2>1, <2>3
<1> QED
  BY <1>3, <1>6, <1>8, <1>9, SearchPasses

\* The frames of the stack when the top one has looked at an edge.
LEMMA LookMoves ==
    ASSUME IInv, PassInv, NEW e \in edges, Look(e)
    PROVE  /\ Len(stack') = Len(stack)
           /\ \A i \in 1 .. Len(stack) : stack'[i].node = stack[i].node
           /\ \A i \in 1 .. Len(stack) : stack'[i].rest \subseteq stack[i].rest
           /\ stack'[Len(stack)].rest = Top.rest \ {e}
<1> DEFINE r == Rest(e)
<1>1. stack # <<>> /\ stack' = Replaced(stack, r)
  BY DEF Look, Take, Below, Replaced
<1>2. Top \in FrameType /\ Len(stack) \in Nat \ {0}
  BY <1>1, TopFrame
<1>3. r \in FrameType /\ r.node = Top.node /\ r.rest = Top.rest \ {e}
  BY <1>2 DEF Rest, FrameType
<1> HIDE DEF r
<1>4. stack \in Seq(FrameType)
  BY DEF IInv, TypeOK, FrameType
<1>5. /\ Len(stack') = Len(stack)
      /\ \A i \in 1 .. Len(stack) - 1 : stack'[i] = stack[i]
      /\ stack'[Len(stack)] = r
  <2>1. Len(stack') = Len(stack)
    BY <1>1, <1>3, <1>4, TopReplaced
  <2>2. \A i \in 1 .. Len(stack) - 1 : stack'[i] = stack[i]
    BY <1>1, <1>3, <1>4, TopReplaced
  <2>3. stack'[Len(stack)] = r
    BY <1>1, <1>3, <1>4, TopReplaced
  <2> QED
    BY <2>1, <2>2, <2>3
<1>6. ASSUME NEW i \in 1 .. Len(stack)
      PROVE  stack'[i].node = stack[i].node /\ stack'[i].rest \subseteq stack[i].rest
  <2>1. CASE i = Len(stack)
    BY <1>3, <1>5, <2>1 DEF Top
  <2>2. CASE i # Len(stack)
    <3>1. i \in 1 .. Len(stack) - 1
      BY <1>2, <2>2
    <3> QED
      BY <1>5, <3>1
  <2> QED
    BY <2>1, <2>2
<1> QED
  BY <1>3, <1>5, <1>6

\* An edge is looked at: one that leads back to the stack closes a cycle.
LEMMA LookPasses == ASSUME IInv, PassInv, NEW e \in edges, Look(e) PROVE PassInv'
<1>1. /\ Take(e)
      /\ back' = IF colour[e.target] = 1 THEN back \cup {e} ELSE back
      /\ UNCHANGED <<nodes, edges, phase, colour, removed, passes>>
  BY DEF Look, given, candidate
<1>2. /\ phase = "search" /\ stack # <<>> /\ Len(stack) \in Nat \ {0}
      /\ e \in Top.rest /\ e.source = Top.node /\ ~ Taken(e)
      /\ Top.node \in nodes
  BY <1>1, TakenIsOfTop
<1>3. /\ Len(stack') = Len(stack)
      /\ \A i \in 1 .. Len(stack) : stack'[i].node = stack[i].node
      /\ \A i \in 1 .. Len(stack) : stack'[i].rest \subseteq stack[i].rest
      /\ stack'[Len(stack)].rest = Top.rest \ {e}
  BY LookMoves
<1>4. e \in Edges /\ e.target \in Ids /\ e.source \in Ids
  BY DEF IInv, TypeOK, Edges
<1>5. ASSUME NEW f \in edges, Taken(f)
      PROVE  Taken(f)'
  BY <1>1, <1>3, <1>5 DEF Taken
<1>6. /\ Kept \subseteq Kept'
      /\ \A b \in back : b \in edges' /\ Taken(b)' /\ Leads(nodes', Kept', b.target, b.source)
  <2>1. back \subseteq back' /\ \A f \in back' \ back : ~ Taken(f)
    BY <1>1, <1>2
  <2> QED
    BY <1>1, <1>2, <1>5, <2>1, FoundStays
<1>7. StackIsPath'
  <2>1. StackIsPath
    BY <1>2 DEF PassInv
  <2>2. ASSUME NEW i \in 1 .. Len(stack)
        PROVE  stack'[i].node \in nodes /\ stack'[i].rest \subseteq Successors(edges, stack'[i].node)
    BY <1>3, <2>1 DEF StackIsPath
  <2>3. ASSUME NEW i \in 1 .. Len(stack) - 1
        PROVE  StepUp(i)' \in Kept'
    <3>1. StepUp(i) \in Kept
      BY <2>1 DEF StackIsPath
    <3>2. i \in 1 .. Len(stack) /\ i + 1 \in 1 .. Len(stack)
      BY <1>2
    <3>3. StepUp(i)' = StepUp(i)
      BY <1>3, <3>2 DEF StepUp
    <3> QED
      BY <1>6, <3>1, <3>3
  <2> QED
    BY <1>1, <1>3, <2>2, <2>3 DEF StackIsPath
<1>8. colour[e.target] = 1 => \E i \in 1 .. Len(stack) : stack[i].node = e.target
  BY <1>4 DEF IInv, TypeOK
<1>9. Taken(e)'
  <2>1. colour[Top.node] = 1
    BY <1>2, TopFrame
  <2>2. ASSUME NEW i \in 1 .. Len(stack), stack'[i].node = e.source
        PROVE  e \notin stack'[i].rest
    <3>1. stack[i].node = Top.node
      BY <1>2, <1>3, <2>2
    <3>2. i = Len(stack)
      BY <1>2, <3>1 DEF IInv, TypeOK, Top
    <3> QED
      BY <1>3, <3>2
  <2> QED
    BY <1>1, <1>2, <1>3, <2>1, <2>2 DEF Taken
<1>10. FoundClose'
  <2>1. ASSUME colour[e.target] = 1
        PROVE  Leads(nodes', Kept', e.target, e.source)
    <3>1. PICK i \in 1 .. Len(stack) : stack[i].node = e.target
      BY <1>8, <2>1
    <3>2. Leads(nodes, Kept, e.target, e.source)
      BY <1>2, <3>1, StackLeads DEF PassInv
    <3>3. Leads(nodes, Kept', e.target, e.source)
      BY <1>6, <3>2, LeadsStays
    <3> QED
      BY <1>1, <3>3
  <2>2. \A b \in back' : b \in back \/ (b = e /\ colour[e.target] = 1)
    BY <1>1
  <2> QED
    BY <1>1, <1>6, <1>9, <2>1, <2>2 DEF FoundClose
<1>11. ASSUME passes = 2
       PROVE  back' = {} /\ \E rank : Downwards(rank)'
  <2>1. back = {} /\ \E rank : Downwards(rank)
    BY <1>2, <1>11 DEF PassInv
  <2>2. PICK rank : Downwards(rank)
    BY <2>1
  <2>3. Downwards(rank)'
    BY <1>1, <1>3, <2>2 DEF Downwards
  <2>4. colour[e.target] # 1
    <3> SUFFICES ASSUME colour[e.target] = 1 PROVE FALSE
      OBVIOUS
    <3>1. PICK i \in 1 .. Len(stack) : stack[i].node = e.target
      BY <1>8
    <3>2. e.target \in nodes
      BY <1>2, <3>1 DEF PassInv, StackIsPath
    <3>3. rank[e.target] < rank[e.source]
      BY <1>2, <2>2, <3>2 DEF Downwards
    <3>4. Len(stack) \in 1 .. Len(stack) /\ stack[Len(stack)].node = e.source
      BY <1>2 DEF Top
    <3>5. i = Len(stack) \/ i < Len(stack)
      BY <1>2
    <3>6. i < Len(stack) => rank[e.source] < rank[e.target]
      BY <2>2, <3>1, <3>4 DEF Downwards
    <3>7. i = Len(stack) => e.source = e.target
      BY <3>1, <3>4
    <3>8. rank[e.source] \in Nat /\ rank[e.target] \in Nat
      BY <1>4, <2>2 DEF Downwards
    <3> QED
      BY <3>3, <3>5, <3>6, <3>7, <3>8
  <2> QED
    BY <1>1, <2>1, <2>3, <2>4
<1> QED
  BY <1>1, <1>2, <1>7, <1>10, <1>11, SearchPasses

\* The stack grows by one edge that stays.
LEMMA DescendPasses == ASSUME IInv, PassInv, NEW e \in edges, Descend(e) PROVE PassInv'
<1> DEFINE r == Rest(e)
           f == Frame(e.target)
           b == Replaced(stack, r)
           k == Len(stack)
<1>1. /\ Take(e) /\ stack' = Append(b, f)
      /\ colour[e.target] = 0 /\ e.target \in nodes
      /\ colour' = [colour EXCEPT ![e.target] = 1]
      /\ UNCHANGED <<nodes, edges, phase, back, removed, passes>>
  BY DEF Descend, Below, Replaced, given, candidate, pass
<1>2. /\ phase = "search" /\ stack # <<>> /\ k \in Nat \ {0}
      /\ e \in Top.rest /\ e.source = Top.node /\ ~ Taken(e)
      /\ Top.node \in nodes
  BY <1>1, TakenIsOfTop
<1>3. e \in Edges /\ e.target \in Ids /\ e.source \in Ids
      /\ e = [source |-> e.source, target |-> e.target]
  BY DEF IInv, TypeOK, Edges
<1>4. Top \in FrameType /\ colour[Top.node] = 1
  BY <1>2, TopFrame
<1>5. r \in FrameType /\ r.node = Top.node /\ r.rest = Top.rest \ {e}
  BY <1>4 DEF Rest, FrameType
<1>6. f \in FrameType /\ f.node = e.target /\ f.rest = Successors(edges, e.target)
  BY <1>3 DEF Frame, Successors, FrameType, IInv, TypeOK
<1>7. stack \in Seq(FrameType)
  BY DEF IInv, TypeOK, FrameType
<1> HIDE DEF r, f
<1>8. b \in Seq(FrameType) /\ Len(b) = k /\ b[k] = r
      /\ \A i \in 1 .. k - 1 : b[i] = stack[i]
  <2>1. stack # <<>> /\ b = Replaced(stack, r)
    BY <1>2
  <2> HIDE DEF b
  <2>2. b \in Seq(FrameType)
    BY <1>5, <1>7, <2>1, TopReplaced
  <2>3. Len(b) = Len(stack)
    BY <1>5, <1>7, <2>1, TopReplaced
  <2>4. \A i \in 1 .. Len(stack) - 1 : b[i] = stack[i]
    BY <1>5, <1>7, <2>1, TopReplaced
  <2>5. b[Len(stack)] = r
    BY <1>5, <1>7, <2>1, TopReplaced
  <2> QED
    BY <2>2, <2>3, <2>4, <2>5
<1> HIDE DEF b
<1>9. /\ Len(stack') = k + 1
      /\ \A i \in 1 .. k : stack'[i] = b[i]
      /\ stack'[k + 1] = f
  BY <1>1, <1>2, <1>6, <1>8, AppendProperties
<1>10. ASSUME NEW i \in 1 .. k
       PROVE  stack'[i].node = stack[i].node /\ stack'[i].rest \subseteq stack[i].rest
  <2>1. CASE i = k
    BY <1>5, <1>8, <1>9, <2>1 DEF Top
  <2>2. CASE i # k
    <3>1. i \in 1 .. k - 1
      BY <1>2, <2>2
    <3> QED
      BY <1>8, <1>9, <3>1
  <2> QED
    BY <2>1, <2>2
<1>11. \A n \in Ids : colour'[n] = IF n = e.target THEN 1 ELSE colour[n]
  BY <1>1, <1>3 DEF IInv, TypeOK
<1>12. ASSUME NEW d \in edges, colour[d.source] # 0,
              \A i \in 1 .. k : stack'[i].node = d.source => d \notin stack'[i].rest
       PROVE  Taken(d)'
  <2>1. d.source \in Ids /\ d.source # e.target
    BY <1>1, <1>12 DEF IInv, TypeOK, Edges
  <2>2. colour'[d.source] # 0
    BY <1>11, <1>12, <2>1
  <2>3. ASSUME NEW i \in 1 .. k + 1, stack'[i].node = d.source
        PROVE  d \notin stack'[i].rest
    <3>1. i # k + 1
      BY <1>6, <1>9, <2>1, <2>3
    <3>2. i \in 1 .. k
      BY <1>2, <3>1
    <3> QED
      BY <1>12, <2>3, <3>2
  <2> QED
    BY <1>9, <2>2, <2>3 DEF Taken
<1>13. ASSUME NEW d \in edges, Taken(d)
       PROVE  Taken(d)'
  <2>1. colour[d.source] # 0
    BY <1>13 DEF Taken
  <2>2. \A i \in 1 .. k : stack'[i].node = d.source => d \notin stack'[i].rest
    BY <1>10, <1>13 DEF Taken
  <2> QED
    BY <1>12, <2>1, <2>2
<1>14. FoundClose' /\ Kept \subseteq Kept'
  BY <1>1, <1>2, <1>13, FoundStays DEF FoundClose
<1>15. e \in Kept'
  <2>1. e \notin back
    BY <1>2 DEF PassInv, FoundClose
  <2>2. ASSUME NEW i \in 1 .. k, stack'[i].node = e.source
        PROVE  e \notin stack'[i].rest
    <3>1. stack[i].node = Top.node
      BY <1>2, <1>10, <2>2
    <3>2. i = k
      BY <1>2, <3>1 DEF IInv, TypeOK, Top
    <3> QED
      BY <1>5, <1>8, <1>9, <3>2
  <2>3. Taken(e)'
    BY <1>2, <1>4, <1>12, <2>2
  <2> QED
    BY <1>1, <2>1, <2>3 DEF Kept
<1>16. StackIsPath'
  <2>1. StackIsPath
    BY <1>2 DEF PassInv
  <2>2. ASSUME NEW i \in 1 .. k + 1
        PROVE  stack'[i].node \in nodes /\ stack'[i].rest \subseteq Successors(edges, stack'[i].node)
    <3>1. CASE i = k + 1
      BY <1>1, <1>6, <1>9, <3>1
    <3>2. CASE i # k + 1
      <4>1. i \in 1 .. k
        BY <1>2, <3>2
      <4> QED
        BY <1>10, <2>1, <4>1 DEF StackIsPath
    <3> QED
      BY <3>1, <3>2
  <2>3. ASSUME NEW i \in 1 .. k
        PROVE  StepUp(i)' \in Kept'
    <3>1. CASE i = k
      <4>1. stack'[k].node = e.source /\ stack'[k + 1].node = e.target
        BY <1>2, <1>5, <1>6, <1>8, <1>9
      <4>2. StepUp(i)' = e
        BY <1>3, <3>1, <4>1 DEF StepUp
      <4> QED
        BY <1>15, <4>2
    <3>2. CASE i # k
      <4>1. i \in 1 .. k - 1 /\ i + 1 \in 1 .. k
        BY <1>2, <3>2
      <4>2. StepUp(i) \in Kept
        BY <2>1, <4>1 DEF StackIsPath
      <4>3. StepUp(i)' = StepUp(i)
        BY <1>10, <4>1 DEF StepUp
      <4> QED
        BY <1>14, <4>2, <4>3
    <3> QED
      BY <3>1, <3>2
  <2>4. Len(stack') = k + 1 /\ k + 1 - 1 = k
    BY <1>2, <1>9
  <2> QED
    BY <1>1, <2>2, <2>3, <2>4 DEF StackIsPath
<1>17. ASSUME passes = 2
       PROVE  back' = {} /\ \E rank : Downwards(rank)'
  <2>1. back = {} /\ \E rank : Downwards(rank)
    BY <1>2, <1>17 DEF PassInv
  <2>2. PICK rank : Downwards(rank)
    BY <2>1
  <2>3. /\ rank \in [Ids -> Nat] /\ rank[e.target] < rank[e.source]
        /\ rank[e.target] \in Nat /\ rank[e.source] \in Nat
    BY <1>1, <1>2, <1>3, <2>2 DEF Downwards
  <2>4. ASSUME NEW i \in 1 .. k + 1, NEW j \in 1 .. k + 1, i < j
        PROVE  rank[stack'[j].node] < rank[stack'[i].node]
    <3>1. i \in 1 .. k /\ stack'[i].node = stack[i].node /\ stack[i].node \in Ids
      <4>1. i \in 1 .. k
        BY <1>2, <2>4
      <4>2. stack[i].node \in nodes
        BY <1>2, <4>1 DEF PassInv, StackIsPath
      <4> QED
        BY <1>10, <4>1, <4>2 DEF IInv, TypeOK
    <3>2. CASE j # k + 1
      <4>1. j \in 1 .. k
        BY <1>2, <3>2
      <4> QED
        BY <1>10, <2>2, <2>4, <3>1, <4>1 DEF Downwards
    <3>3. CASE j = k + 1
      <4>1. stack'[j].node = e.target
        BY <1>6, <1>9, <3>3
      <4>2. i = k \/ i < k
        BY <1>2, <3>1
      <4>3. i = k => stack[i].node = e.source
        BY <1>2 DEF Top
      <4>4. i < k => rank[e.source] < rank[stack[i].node]
        <5>1. k \in 1 .. k /\ stack[k].node = e.source
          BY <1>2 DEF Top
        <5> QED
          BY <2>2, <3>1, <5>1 DEF Downwards
      <4>5. rank[stack[i].node] \in Nat
        BY <2>3, <3>1
      <4> QED
        BY <2>3, <3>1, <4>1, <4>2, <4>3, <4>4, <4>5
    <3> QED
      BY <3>2, <3>3
  <2>5. Downwards(rank)'
    BY <1>1, <1>9, <2>2, <2>4 DEF Downwards
  <2> QED
    BY <1>1, <2>1, <2>5
<1> QED
  BY <1>1, <1>2, <1>14, <1>16, <1>17, SearchPasses

\* A finished node is behind all that it leads to.
LEMMA LeavePasses == ASSUME IInv, PassInv, Leave PROVE PassInv'
<1> DEFINE k == Len(stack)
<1>1. /\ phase = "search" /\ stack # <<>>
      /\ stack' = SubSeq(stack, 1, Len(stack) - 1)
      /\ colour' = [colour EXCEPT ![Top.node] = 2]
      /\ UNCHANGED <<nodes, edges, phase, back, removed, passes>>
  BY DEF Leave, Below, given, candidate, pass
<1>2. k \in Nat \ {0}
  BY <1>1, TopFrame
<1>3. stack \in Seq(FrameType)
  BY DEF IInv, TypeOK, FrameType
<1>4. Len(stack') = k - 1 /\ \A i \in 1 .. k - 1 : stack'[i] = stack[i]
  <2>1. Len(stack') = Len(stack) - 1
    BY <1>1, <1>3, TopDropped
  <2>2. \A i \in 1 .. Len(stack) - 1 : stack'[i] = stack[i]
    BY <1>1, <1>3, TopDropped
  <2> QED
    BY <2>1, <2>2
<1>5. ASSUME NEW e \in edges, Taken(e)
      PROVE  Taken(e)'
  <2>1. colour'[e.source] # 0
    BY <1>1, <1>5 DEF Taken, IInv, TypeOK, Edges
  <2>2. \A i \in 1 .. k - 1 : i \in 1 .. k
    BY <1>2
  <2> QED
    BY <1>4, <1>5, <2>1, <2>2 DEF Taken
<1>6. FoundClose' /\ Kept \subseteq Kept'
  BY <1>1, <1>5, FoundStays DEF FoundClose
<1>7. StackIsPath'
  <2>1. StackIsPath
    BY <1>1 DEF PassInv
  <2>2. ASSUME NEW i \in 1 .. k - 1
        PROVE  stack'[i].node \in nodes /\ stack'[i].rest \subseteq Successors(edges, stack'[i].node)
    BY <1>2, <1>4, <2>1 DEF StackIsPath
  <2>3. ASSUME NEW i \in 1 .. k - 1 - 1
        PROVE  StepUp(i)' \in Kept'
    <3>1. i \in 1 .. k - 1 /\ i + 1 \in 1 .. k - 1
      BY <1>2
    <3>2. StepUp(i) \in Kept
      BY <2>1, <3>1 DEF StackIsPath
    <3>3. StepUp(i)' = StepUp(i)
      BY <1>4, <3>1 DEF StepUp
    <3> QED
      BY <1>6, <3>2, <3>3
  <2> QED
    BY <1>1, <1>4, <2>2, <2>3 DEF StackIsPath
<1>8. ASSUME passes = 2
      PROVE  back' = {} /\ \E rank : Downwards(rank)'
  <2>1. back = {} /\ \E rank : Downwards(rank)
    BY <1>1, <1>8 DEF PassInv
  <2>2. PICK rank : Downwards(rank)
    BY <2>1
  <2>3. ASSUME NEW i \in 1 .. k - 1, NEW j \in 1 .. k - 1, i < j
        PROVE  rank[stack'[j].node] < rank[stack'[i].node]
    <3>1. i \in 1 .. k /\ j \in 1 .. k
      BY <1>2
    <3> QED
      BY <1>4, <2>2, <2>3, <3>1 DEF Downwards
  <2>4. Downwards(rank)'
    BY <1>1, <1>4, <2>2, <2>3 DEF Downwards
  <2> QED
    BY <1>1, <2>1, <2>4
<1> QED
  BY <1>1, <1>6, <1>7, <1>8, SearchPasses

\* The first pass has found the edges to cut; what is left is in the order of its numbers.
LEMMA CutPasses == ASSUME IInv, PassInv, Cut PROVE PassInv'
<1>1. /\ PassOver /\ phase = "search" /\ stack = <<>> /\ back # {}
      /\ edges' = edges \ back /\ removed' = removed \cup back /\ passes' = passes + 1
      /\ Restart /\ UNCHANGED <<nodes, phase>>
  BY DEF Cut, PassOver
<1>2. passes = 1 /\ removed = {} /\ FoundClose
  BY <1>1 DEF PassInv
<1>3. passes' = 2 /\ removed' = back
  BY <1>1, <1>2
<1>4. ASSUME NEW e \in back
      PROVE  Leads(nodes', edges', e.target, e.source)
  <2>1. Leads(nodes, Kept, e.target, e.source)
    BY <1>2 DEF FoundClose
  <2>2. Kept \subseteq edges'
    BY <1>1 DEF Kept
  <2> QED
    BY <1>1, <2>1, <2>2, LeadsStays
<1>5. StackIsPath' /\ FoundClose'
  BY <1>1, RestartFinds
<1>6. back' = {} /\ Len(stack') = 0
  BY <1>1 DEF Restart
<1>7. \E rank : Downwards(rank)'
  <2>1. PICK rank : rank = finish
    OBVIOUS
  <2>2. rank \in [Ids -> Nat]
    BY <2>1 DEF IInv, TypeOK
  <2>3. ASSUME NEW e \in edges', {e.source, e.target} \subseteq nodes
        PROVE  rank[e.target] < rank[e.source]
    BY <1>1, <2>1, <2>3, PassOrders
  <2>4. \A i, j \in 1 .. Len(stack') : i < j => rank[stack'[j].node] < rank[stack'[i].node]
    BY <1>6
  <2>5. Downwards(rank)'
    BY <1>1, <2>2, <2>3, <2>4 DEF Downwards
  <2> QED
    BY <2>5
<1>8. \A e \in removed' : Leads(nodes', edges', e.target, e.source)
  BY <1>3, <1>4
<1>9. phase' = "search" /\ ~Searched'
  BY <1>1 DEF Searched
<1> QED
  BY <1>3, <1>5, <1>6, <1>7, <1>8, <1>9 DEF PassInv

\* A graph has finitely many edges.
LEMMA EdgesAreFinite == IsFiniteSet(Edges)
<1> DEFINE f == [x \in Ids \X Ids |-> [source |-> x[1], target |-> x[2]]]
<1>1. IsFiniteSet(Ids \X Ids)
  BY FS_Product
<1>2. f \in [Ids \X Ids -> Edges]
  BY DEF Edges
<1>3. ASSUME NEW e \in Edges
      PROVE  \E x \in Ids \X Ids : f[x] = e
  <2>1. <<e.source, e.target>> \in Ids \X Ids /\ f[<<e.source, e.target>>] = e
    BY DEF Edges
  <2> QED
    BY <2>1
<1>4. f \in Surjection(Ids \X Ids, Edges)
  BY <1>2, <1>3 DEF Surjection
<1> HIDE DEF f
<1> QED
  BY <1>1, <1>4, FS_Surjection

\* The bound of the loop is met only by a graph without edges.
LEMMA RepairedPasses == ASSUME IInv, PassInv, Repaired PROVE PassInv'
<1>1. /\ phase = "search" /\ edges' = edges \ back /\ removed' = removed \cup back
      /\ back = {} \/ passes = Cardinality(edges \cup removed) + 1
      /\ phase' = "check" /\ UNCHANGED <<nodes, passes, back>>
  BY DEF Repaired, PassOver, given
<1>2. back = {}
  <2>1. CASE passes = 2
    BY <1>1, <2>1 DEF PassInv
  <2>2. CASE passes # 2 /\ back # {}
    <3>1. passes = 1 /\ removed = {} /\ FoundClose
      BY <1>1, <2>2 DEF PassInv
    <3>2. edges \cup removed = edges /\ IsFiniteSet(edges)
      BY <3>1, EdgesAreFinite, FS_Subset DEF IInv, TypeOK
    <3>3. Cardinality(edges) \in Nat /\ Cardinality(edges) + 1 = 1
      BY <1>1, <2>2, <3>1, <3>2, FS_CardinalityType
    <3>4. edges = {}
      BY <3>2, <3>3, FS_EmptySet
    <3> QED
      BY <3>1, <3>4 DEF FoundClose
  <2> QED
    BY <2>1, <2>2
<1>3. edges' = edges /\ removed' = removed /\ back' = {}
  BY <1>1, <1>2
<1> QED
  BY <1>1, <1>3 DEF PassInv, Searched

\* The last check changes nothing of the passes.
LEMMA CheckPasses == ASSUME PassInv, Check PROVE PassInv'
BY DEF Check, given, search, pass, PassInv, Searched

\* Every action keeps what is known of the passes.
LEMMA NextPasses == ASSUME IInv, PassInv, [Next]_vars PROVE PassInv'
<1>1. CASE UNCHANGED vars
  BY <1>1 DEF vars, PassInv, Searched, StackIsPath, FoundClose, Downwards, Kept, Taken, StepUp
<1>2. ASSUME NEW e \in Edges, DeleteEdge(e) \/ AddEdge(e) PROVE PassInv'
  BY <1>2, EditPasses
<1>3. ASSUME NEW n \in Ids, DeleteNode(n) \/ AddNode(n) PROVE PassInv'
  <2>1. [source |-> n, target |-> n] \in Edges
    BY DEF Edges
  <2> QED
    BY <1>3, <2>1, EditPasses
<1>4. ASSUME NEW e \in edges, Descend(e) \/ Look(e) PROVE PassInv'
  BY <1>4, DescendPasses, LookPasses
<1> QED
  BY <1>1, <1>2, <1>3, <1>4, BuiltPasses, VisitPasses, LeavePasses, CutPasses, RepairedPasses,
     CheckPasses DEF Next

\* What is known of the passes holds at every step.
LEMMA PassesInductive == Spec => [](IInv /\ PassInv)
<1>1. Init => IInv /\ PassInv
  BY InitHolds, InitPasses
<1>2. IInv /\ PassInv /\ [Next]_vars => IInv' /\ PassInv'
  BY NextHolds, NextPasses
<1> QED
  BY <1>1, <1>2, PTL DEF Spec

-----------------------------------------------------------------------------
(* What the candidate consists of.                                         *)

Loops == {"delete_edges", "delete_nodes", "add_nodes", "add_edges"}

\* The nodes that were there and are to go.
Gone == asked["delete_nodes"] \cap old.nodes

\* The graph given as far as it is edited, and nothing asked of the loops to come.
AsEdited ==
    /\ nodes = (old.nodes \ Gone) \cup asked["add_nodes"]
    /\ edges \cup removed =
         {e \in old.edges \ asked["delete_edges"] : {e.source, e.target} \cap Gone = {}}
         \cup asked["add_edges"]

LoopsInOrder ==
    /\ phase = "delete_edges" => asked["delete_nodes"] = {}
    /\ phase \in {"delete_edges", "delete_nodes"} => asked["add_nodes"] = {}
    /\ phase \in {"delete_edges", "delete_nodes", "add_nodes"} => asked["add_edges"] = {}

EditedInv ==
    /\ asked \in [Loops -> SUBSET (Ids \cup Edges)]
    /\ LoopsInOrder
    /\ found = {} => AsEdited

\* What an edit of one loop leaves of the others.
LEMMA EditAsks ==
    ASSUME EditedInv, NEW i \in 1 .. 4, NEW x \in Ids \cup Edges, Edit(i, x)
    PROVE  /\ asked' \in [Loops -> SUBSET (Ids \cup Edges)]
           /\ asked'[Phases[i]] = asked[Phases[i]] \cup {x}
           /\ \A p \in Loops \ {Phases[i]} : asked'[p] = asked[p]
           /\ phase \in Loops /\ phase' = Phases[i]
           /\ UNCHANGED <<policy, old, removed, passes>>
<1>1. Phases[i] \in Loops
  BY DEF Phases, Loops
<1>2. asked \in [Loops -> SUBSET (Ids \cup Edges)]
  BY DEF EditedInv
<1>3. asked' = [asked EXCEPT ![Phases[i]] = @ \cup {x}]
      /\ phase' = Phases[i] /\ UNCHANGED <<policy, old, removed, passes>>
  BY DEF Edit, search, pass
<1>4. phase \in Loops
  <2>1. PICK j \in 1 .. i : phase = Phases[j]
    BY DEF Edit
  <2> QED
    BY <2>1 DEF Phases, Loops
<1> QED
  BY <1>1, <1>2, <1>3, <1>4

\* The four loops over the edits, in their order.
LEMMA PhaseNames ==
    /\ Phases[1] = "delete_edges" /\ Phases[2] = "delete_nodes"
    /\ Phases[3] = "add_nodes" /\ Phases[4] = "add_edges"
    /\ \A p \in Loops : \E i \in 1 .. 4 : p = Phases[i]
  BY DEF Phases, Loops

\* One edge deleted: the candidate is the old graph less the edges deleted so far.
LEMMA DeleteEdgeEdits ==
    ASSUME EditedInv, PassInv, NEW e \in Edges, DeleteEdge(e)
    PROVE  EditedInv'
<1>0. 1 \in 1 .. 4 /\ e \in Ids \cup Edges
  OBVIOUS
<1>1. Edit(1, e) /\ edges' = edges \ {e} /\ UNCHANGED <<nodes, found>>
  BY DEF DeleteEdge
<1>2. /\ asked' \in [Loops -> SUBSET (Ids \cup Edges)]
      /\ asked'["delete_edges"] = asked["delete_edges"] \cup {e}
      /\ asked'["delete_nodes"] = asked["delete_nodes"]
      /\ asked'["add_nodes"] = asked["add_nodes"]
      /\ asked'["add_edges"] = asked["add_edges"]
      /\ phase' = "delete_edges" /\ UNCHANGED <<old, removed>>
  BY <1>0, <1>1, EditAsks, PhaseNames DEF Loops
<1>3. phase = "delete_edges"
  BY <1>1 DEF Edit, Phases
<1>4. asked["delete_nodes"] = {} /\ asked["add_nodes"] = {} /\ asked["add_edges"] = {}
  BY <1>3 DEF EditedInv, LoopsInOrder
<1>5. removed = {}
  BY <1>3 DEF PassInv
<1>6. found' = {} => AsEdited'
  BY <1>1, <1>2, <1>4, <1>5 DEF EditedInv, AsEdited, Gone
<1> QED
  BY <1>2, <1>4, <1>6 DEF EditedInv, LoopsInOrder

\* One node deleted with its edges; a reserved one is an error.
LEMMA DeleteNodeEdits ==
    ASSUME EditedInv, PassInv, NEW n \in Ids, DeleteNode(n)
    PROVE  EditedInv'
<1>0. 2 \in 1 .. 4 /\ n \in Ids \cup Edges
  OBVIOUS
<1>1. Edit(2, n)
  BY DEF DeleteNode
<1>2. /\ asked' \in [Loops -> SUBSET (Ids \cup Edges)]
      /\ asked'["delete_edges"] = asked["delete_edges"]
      /\ asked'["delete_nodes"] = asked["delete_nodes"] \cup {n}
      /\ asked'["add_nodes"] = asked["add_nodes"]
      /\ asked'["add_edges"] = asked["add_edges"]
      /\ phase' = "delete_nodes" /\ UNCHANGED <<old, removed>>
  BY <1>0, <1>1, EditAsks, PhaseNames DEF Loops
<1>3. phase \in {"delete_edges", "delete_nodes"}
  BY <1>1 DEF Edit, Phases
<1>4. asked["add_nodes"] = {} /\ asked["add_edges"] = {}
  BY <1>3 DEF EditedInv, LoopsInOrder
<1>5. removed = {}
  BY <1>3 DEF PassInv
<1>6. ASSUME found' = {}
      PROVE  AsEdited'
  <2>1. found = {} /\ n \notin {Start, End}
    BY <1>6 DEF DeleteNode
  <2>2. /\ nodes' = nodes \ {n}
        /\ edges' = IF n \in nodes THEN {e \in edges : n \notin {e.source, e.target}} ELSE edges
    BY <2>1 DEF DeleteNode
  <2>3. /\ nodes = old.nodes \ Gone
        /\ edges = {e \in old.edges \ asked["delete_edges"] : {e.source, e.target} \cap Gone = {}}
    BY <1>4, <1>5, <2>1 DEF EditedInv, AsEdited
  <2>4. Gone' = IF n \in nodes THEN Gone \cup {n} ELSE Gone
    BY <1>2, <2>3 DEF Gone
  <2>5. nodes' = old.nodes \ Gone'
    BY <2>2, <2>3, <2>4
  <2>6. edges' = {e \in old.edges \ asked["delete_edges"] : {e.source, e.target} \cap Gone' = {}}
    BY <2>2, <2>3, <2>4
  <2> QED
    BY <1>2, <1>4, <1>5, <2>5, <2>6 DEF AsEdited
<1> QED
  BY <1>2, <1>4, <1>6 DEF EditedInv, LoopsInOrder

\* One node added; one that was there is an error.
LEMMA AddNodeEdits ==
    ASSUME EditedInv, NEW n \in Ids, AddNode(n)
    PROVE  EditedInv'
<1>0. 3 \in 1 .. 4 /\ n \in Ids \cup Edges
  OBVIOUS
<1>1. Edit(3, n) /\ nodes' = nodes \cup {n} /\ edges' = edges
  BY DEF AddNode
<1>2. /\ asked' \in [Loops -> SUBSET (Ids \cup Edges)]
      /\ asked'["delete_edges"] = asked["delete_edges"]
      /\ asked'["delete_nodes"] = asked["delete_nodes"]
      /\ asked'["add_nodes"] = asked["add_nodes"] \cup {n}
      /\ asked'["add_edges"] = asked["add_edges"]
      /\ phase' = "add_nodes" /\ UNCHANGED <<old, removed>>
  BY <1>0, <1>1, EditAsks, PhaseNames DEF Loops
<1>3. phase \in {"delete_edges", "delete_nodes", "add_nodes"}
  BY <1>1 DEF Edit, Phases
<1>4. asked["add_edges"] = {}
  BY <1>3 DEF EditedInv, LoopsInOrder
<1>5. ASSUME found' = {}
      PROVE  AsEdited'
  <2>1. found = {}
    BY <1>5 DEF AddNode
  <2>2. Gone' = Gone
    BY <1>2 DEF Gone
  <2> QED
    BY <1>1, <1>2, <2>1, <2>2 DEF EditedInv, AsEdited
<1> QED
  BY <1>2, <1>4, <1>5 DEF EditedInv, LoopsInOrder

\* One edge added; one that was there is an error.
LEMMA AddEdgeEdits ==
    ASSUME EditedInv, NEW e \in Edges, AddEdge(e)
    PROVE  EditedInv'
<1>0. 4 \in 1 .. 4 /\ e \in Ids \cup Edges
  OBVIOUS
<1>1. Edit(4, e) /\ edges' = edges \cup {e} /\ nodes' = nodes
  BY DEF AddEdge
<1>2. /\ asked' \in [Loops -> SUBSET (Ids \cup Edges)]
      /\ asked'["delete_edges"] = asked["delete_edges"]
      /\ asked'["delete_nodes"] = asked["delete_nodes"]
      /\ asked'["add_nodes"] = asked["add_nodes"]
      /\ asked'["add_edges"] = asked["add_edges"] \cup {e}
      /\ phase' = "add_edges" /\ UNCHANGED <<old, removed>>
  BY <1>0, <1>1, EditAsks, PhaseNames DEF Loops
<1>3. ASSUME found' = {}
      PROVE  AsEdited'
  <2>1. found = {}
    BY <1>3 DEF AddEdge
  <2>2. Gone' = Gone
    BY <1>2 DEF Gone
  <2> QED
    BY <1>1, <1>2, <2>1, <2>2 DEF EditedInv, AsEdited
<1> QED
  BY <1>2, <1>3 DEF EditedInv, LoopsInOrder

\* After the edits the repair moves edges from the candidate to those removed.
LEMMA RepairEdits ==
    ASSUME EditedInv, PassInv,
           Built \/ Visit \/ Leave \/ Cut \/ Repaired \/ Check
           \/ \E e \in edges : Descend(e) \/ Look(e)
    PROVE  EditedInv'
<1>1. UNCHANGED <<old, asked, nodes>> /\ phase' \notin Loops
  BY DEF Built, Visit, Leave, Cut, Repaired, Check, Descend, Look, Take, PassOver, given, candidate,
         Loops
<1>2. found' = {} => found = {}
  BY DEF Built, Visit, Leave, Cut, Repaired, Check, Descend, Look, given, candidate
<1>3. edges' \cup removed' = edges \cup removed
  <2>1. CASE Cut \/ Repaired
    <3>1. phase = "search" /\ edges' = edges \ back /\ removed' = removed \cup back
      BY <2>1 DEF Cut, Repaired, PassOver
    <3>2. back \subseteq edges
      BY <3>1 DEF PassInv, FoundClose
    <3> QED
      BY <3>1, <3>2
  <2>2. CASE ~ (Cut \/ Repaired)
    BY <2>2 DEF Built, Visit, Leave, Check, Descend, Look, given, candidate, search, pass
  <2> QED
    BY <2>1, <2>2
<1>4. Gone' = Gone
  BY <1>1 DEF Gone
<1> QED
  BY <1>1, <1>2, <1>3, <1>4 DEF EditedInv, LoopsInOrder, AsEdited, Loops

\* No edit has been made at the beginning.
LEMMA InitEdited == Init => EditedInv
<1> SUFFICES ASSUME Init PROVE EditedInv
  OBVIOUS
<1>1. asked = [p \in Loops |-> {}]
  BY DEF Init, NoEdits, Phases, Loops
<1>2. \A p \in Loops : asked[p] = {}
  BY <1>1
<1>3. asked \in [Loops -> SUBSET (Ids \cup Edges)]
  BY <1>1
<1>4. AsEdited
  BY <1>2 DEF Init, AsEdited, Gone, Loops
<1> QED
  BY <1>2, <1>3, <1>4 DEF EditedInv, LoopsInOrder, Loops

\* Every action keeps the candidate on the edits made so far.
LEMMA NextEdited == ASSUME EditedInv, PassInv, [Next]_vars PROVE EditedInv'
<1>1. CASE UNCHANGED vars
  BY <1>1 DEF vars, EditedInv, LoopsInOrder, AsEdited, Gone
<1>2. ASSUME NEW e \in Edges, DeleteEdge(e) \/ AddEdge(e) PROVE EditedInv'
  BY <1>2, DeleteEdgeEdits, AddEdgeEdits
<1>3. ASSUME NEW n \in Ids, DeleteNode(n) \/ AddNode(n) PROVE EditedInv'
  BY <1>3, DeleteNodeEdits, AddNodeEdits
<1>4. CASE Built \/ Visit \/ Leave \/ Cut \/ Repaired \/ Check
           \/ \E e \in edges : Descend(e) \/ Look(e)
  BY <1>4, RepairEdits
<1> QED
  BY <1>1, <1>2, <1>3, <1>4 DEF Next

-----------------------------------------------------------------------------
(* Paths to a terminal.                                                    *)

\* Induction over the naturals, for a set of them.
LEMMA NatsByStep ==
    ASSUME NEW ns \in SUBSET Nat, 0 \in ns, \A n \in ns : n + 1 \in ns
    PROVE  ns = Nat
<1> SUFFICES ASSUME ns # Nat PROVE FALSE
  OBVIOUS
<1> DEFINE rest == Nat \ ns
<1>1. \E x \in rest : \A y \in rest : ~ (<<y, x>> \in OpToRel(<, Nat))
  BY NatLessThanWellFounded, WFMin
<1>2. PICK x \in rest : \A y \in rest : ~ (<<y, x>> \in OpToRel(<, Nat))
  BY <1>1
<1>3. \A y \in rest : ~ (y \in Nat /\ x \in Nat /\ y < x)
  BY <1>2, Zenon DEF OpToRel
<1>4. x \in Nat /\ x # 0 /\ x - 1 \in Nat
  OBVIOUS
<1>5. x - 1 \in ns
  BY <1>3, <1>4
<1>6. (x - 1) + 1 = x
  BY <1>4
<1> QED
  BY <1>5, <1>6

\* The first k values of a sequence in which each follows from the one before.
Follows(f, k, first, step) == f[0] = first /\ \A i \in Nat : i < k => f[i + 1] = step[f[i]]

Iterates(f, X, first, step) == f \in [Nat -> X] /\ f[0] = first /\ \A i \in Nat : f[i + 1] = step[f[i]]

\* There is such a sequence, without end.
LEMMA IteratesExist ==
    ASSUME NEW X, NEW first \in X, NEW step \in [X -> X]
    PROVE  \E f : Iterates(f, X, first, step)
<1> DEFINE ns == {k \in Nat : \E f \in [Nat -> X] : Follows(f, k, first, step)}
<1>1. ns = Nat
  <2>1. 0 \in ns
    <3> DEFINE f == [i \in Nat |-> first]
    <3>1. f \in [Nat -> X] /\ Follows(f, 0, first, step)
      BY DEF Follows
    <3> QED
      BY <3>1
  <2>2. ASSUME NEW k \in ns PROVE k + 1 \in ns
    <3>1. PICK f \in [Nat -> X] : Follows(f, k, first, step)
      OBVIOUS
    <3> DEFINE g == [i \in Nat |-> IF i = k + 1 THEN step[f[k]] ELSE f[i]]
    <3>2. g \in [Nat -> X]
      OBVIOUS
    <3>3. g[0] = first
      BY <3>1 DEF Follows
    <3>4. ASSUME NEW i \in Nat, i < k + 1 PROVE g[i + 1] = step[g[i]]
      <4>1. g[i] = f[i]
        BY <3>4
      <4>2. CASE i = k
        BY <4>1, <4>2
      <4>3. CASE i < k
        <5>1. f[i + 1] = step[f[i]]
          BY <3>1, <4>3 DEF Follows
        <5>2. g[i + 1] = f[i + 1]
          BY <4>3
        <5> QED
          BY <4>1, <5>1, <5>2
      <4> QED
        BY <3>4, <4>2, <4>3
    <3> HIDE DEF g
    <3>5. Follows(g, k + 1, first, step)
      BY <3>3, <3>4 DEF Follows
    <3> QED
      BY <3>2, <3>5
  <2>3. ns \in SUBSET Nat
    OBVIOUS
  <2> HIDE DEF ns
  <2> QED
    BY <2>1, <2>2, <2>3, NatsByStep
<1> DEFINE g(k) == CHOOSE f \in [Nat -> X] : Follows(f, k, first, step)
<1>2. \A k \in Nat : g(k) \in [Nat -> X] /\ Follows(g(k), k, first, step)
  <2> TAKE k \in Nat
  <2>1. \E f \in [Nat -> X] : Follows(f, k, first, step)
    BY <1>1
  <2> QED
    BY <2>1
<1> HIDE DEF g
<1>3. ASSUME NEW k \in Nat PROVE g(k + 1)[k] = g(k)[k]
  <2> DEFINE is == {i \in Nat : i <= k => g(k + 1)[i] = g(k)[i]}
  <2>1. 0 \in is
    BY <1>2 DEF Follows
  <2>2. ASSUME NEW i \in is PROVE i + 1 \in is
    <3> SUFFICES ASSUME i + 1 <= k PROVE g(k + 1)[i + 1] = g(k)[i + 1]
      OBVIOUS
    <3>1. i < k /\ i < k + 1 /\ g(k + 1)[i] = g(k)[i]
      OBVIOUS
    <3>2. g(k + 1)[i + 1] = step[g(k + 1)[i]]
      BY <1>2, <3>1 DEF Follows
    <3>3. g(k)[i + 1] = step[g(k)[i]]
      BY <1>2, <3>1 DEF Follows
    <3> QED
      BY <3>1, <3>2, <3>3
  <2>3. is \in SUBSET Nat
    OBVIOUS
  <2> HIDE DEF is
  <2>4. is = Nat
    BY <2>1, <2>2, <2>3, NatsByStep
  <2> QED
    BY <2>4 DEF is
<1> DEFINE f == [k \in Nat |-> g(k)[k]]
<1>4. f \in [Nat -> X] /\ f[0] = first
  BY <1>2 DEF Follows
<1>5. ASSUME NEW i \in Nat PROVE f[i + 1] = step[f[i]]
  <2>1. f[i + 1] = g(i + 1)[i + 1] /\ f[i] = g(i)[i]
    OBVIOUS
  <2>2. g(i + 1)[i + 1] = step[g(i + 1)[i]]
    BY <1>2 DEF Follows
  <2> QED
    BY <1>3, <2>1, <2>2
<1> HIDE DEF f
<1>6. Iterates(f, X, first, step)
  BY <1>4, <1>5 DEF Iterates
<1> QED
  BY <1>6

\* The nodes that can finish are the last of a sequence that begins with the terminals.
LEMMA FinishIterates ==
    ASSUME NEW ns \in SUBSET Ids, NEW es \in SUBSET Edges
    PROVE  \E f \in [Nat -> SUBSET Ids] :
             /\ f[0] = Terminals(ns, es)
             /\ \A i \in Nat : f[i + 1] = f[i] \cup {e.source : e \in {h \in es : h.target \in f[i] /\ h.source \in ns}}
             /\ CanFinish(ns, es) = f[Cardinality(Ids)]
<1> DEFINE next(s) == s \cup {e.source : e \in {h \in es : h.target \in s /\ h.source \in ns}}
           step == [s \in SUBSET Ids |-> next(s)]
           first == Terminals(ns, es)
<1>1. first \in SUBSET Ids
  BY DEF Terminals
<1>2. \A s \in SUBSET Ids : next(s) \in SUBSET Ids
  OBVIOUS
<1>3. step \in [SUBSET Ids -> SUBSET Ids]
  BY <1>2
<1>4. PICK f \in [Nat -> SUBSET Ids] : f[0] = first /\ \A i \in Nat : f[i + 1] = step[f[i]]
  <2> DEFINE X == SUBSET Ids
  <2>1. first \in X /\ step \in [X -> X]
    BY <1>1, <1>3
  <2> HIDE DEF step, first, X
  <2>2. PICK f : Iterates(f, X, first, step)
    BY <2>1, IteratesExist
  <2> QED
    BY <2>2 DEF Iterates, X
<1>5. \A i \in Nat : f[i + 1] = next(f[i])
  <2> TAKE i \in Nat
  <2>1. f[i] \in SUBSET Ids /\ f[i + 1] = step[f[i]]
    BY <1>4
  <2> HIDE DEF next
  <2> QED
    BY <2>1
<1> DEFINE within[k \in Nat] ==
             IF k = 0 THEN Terminals(ns, es)
             ELSE within[k - 1] \cup {e.source : e \in {h \in es : /\ h.target \in within[k - 1]
                                                                    /\ h.source \in ns}}
<1>6. f = [k \in Nat |-> IF k = 0 THEN Terminals(ns, es)
                         ELSE f[k - 1] \cup {e.source : e \in {h \in es : /\ h.target \in f[k - 1]
                                                                          /\ h.source \in ns}}]
  <2>1. ASSUME NEW k \in Nat, k # 0 PROVE f[k] = next(f[k - 1])
    <3>1. k - 1 \in Nat /\ (k - 1) + 1 = k
      BY <2>1
    <3> HIDE DEF next
    <3> QED
      BY <1>5, <3>1
  <2>2. f = [k \in Nat |-> f[k]]
    OBVIOUS
  <2> QED
    BY <1>4, <2>1, <2>2
<1>7. within = [k \in Nat |-> IF k = 0 THEN Terminals(ns, es)
                              ELSE within[k - 1] \cup {e.source : e \in {h \in es : /\ h.target \in within[k - 1]
                                                                                    /\ h.source \in ns}}]
  BY <1>6
<1>8. CanFinish(ns, es) = within[Cardinality(Ids)]
  BY DEF CanFinish
<1> HIDE DEF within
<1>9. \A k \in Nat : within[k] = f[k]
  <2> DEFINE ks == {k \in Nat : within[k] = f[k]}
  <2>1. 0 \in ks
    BY <1>4, <1>7
  <2>2. ASSUME NEW k \in ks PROVE k + 1 \in ks
    <3>1. k + 1 \in Nat /\ k + 1 # 0 /\ (k + 1) - 1 = k
      OBVIOUS
    <3>2. within[k + 1] = next(within[k])
      BY <1>7, <3>1
    <3> HIDE DEF next
    <3> QED
      BY <1>5, <3>2
  <2>3. ks \in SUBSET Nat
    OBVIOUS
  <2> HIDE DEF ks
  <2>4. ks = Nat
    BY <2>1, <2>2, <2>3, NatsByStep
  <2> QED
    BY <2>4 DEF ks
<1>10. Cardinality(Ids) \in Nat
  BY FS_CardinalityType
<1> QED
  BY <1>4, <1>5, <1>8, <1>9, <1>10

\* A path without a node twice is no longer than there are nodes.
LEMMA ShortPath ==
    ASSUME NEW ns, IsFiniteSet(ns), NEW k \in Nat \ {0}, NEW p \in [1 .. k -> ns],
           \A i, j \in 1 .. k : p[i] = p[j] => i = j
    PROVE  k \in 1 .. Cardinality(ns)
<1>1. p \in Injection(1 .. k, ns)
  BY DEF Injection, IsInjective
<1>2. Cardinality(1 .. k) <= Cardinality(ns)
  BY <1>1, FS_Injection
<1>3. Cardinality(1 .. k) = k
  BY FS_Interval
<1>4. Cardinality(ns) \in Nat
  BY FS_CardinalityType
<1> QED
  BY <1>2, <1>3, <1>4

\* A path from m to n without a node twice.
Reaches(ns, es, m, n, k, p) ==
    /\ k \in Nat \ {0} /\ p \in [1 .. k -> ns] /\ p[1] = m /\ p[k] = n
    /\ \A i, j \in 1 .. k : p[i] = p[j] => i = j
    /\ \A i \in 1 .. k - 1 : [source |-> p[i], target |-> p[i + 1]] \in es

\* It is one that Leads looks for.
LEMMA ReachesLeads ==
    ASSUME NEW ns, IsFiniteSet(ns), NEW es, NEW m, NEW n, NEW k, NEW p, Reaches(ns, es, m, n, k, p)
    PROVE  Leads(ns, es, m, n)
<1>1. /\ k \in Nat \ {0} /\ p \in [1 .. k -> ns] /\ p[1] = m /\ p[k] = n
      /\ \A i, j \in 1 .. k : p[i] = p[j] => i = j
      /\ \A i \in 1 .. k - 1 : [source |-> p[i], target |-> p[i + 1]] \in es
  BY DEF Reaches
<1>2. k \in 1 .. Cardinality(ns)
  BY <1>1, ShortPath
<1>3. Len(p) = k
  BY <1>1
<1>4. Path(es, p)
  BY <1>1, <1>3 DEF Path
<1> QED
  BY <1>1, <1>2, <1>4 DEF Leads

\* A path goes on at its beginning: with one more node, or from where that node is on it.
LEMMA ReachesFurther ==
    ASSUME NEW ns, NEW es, NEW m, NEW n, NEW k, NEW p, Reaches(ns, es, m, n, k, p),
           NEW h \in ns, [source |-> h, target |-> m] \in es
    PROVE  \E l, q : Reaches(ns, es, h, n, l, q)
<1>1. /\ k \in Nat \ {0} /\ p \in [1 .. k -> ns] /\ p[1] = m /\ p[k] = n
      /\ \A i, j \in 1 .. k : p[i] = p[j] => i = j
      /\ \A i \in 1 .. k - 1 : [source |-> p[i], target |-> p[i + 1]] \in es
  BY DEF Reaches
<1>2. CASE \E i \in 1 .. k : p[i] = h
  <2>1. PICK i \in 1 .. k : p[i] = h
    BY <1>2
  <2> DEFINE l == k - i + 1
             q == [j \in 1 .. l |-> p[i + j - 1]]
  <2>2. l \in Nat \ {0} /\ i \in Nat /\ \A j \in 1 .. l : i + j - 1 \in 1 .. k
    BY <1>1
  <2>3. q \in [1 .. l -> ns]
    BY <1>1, <2>2
  <2>4. q[1] = h /\ q[l] = n
    <3>1. 1 \in 1 .. l /\ l \in 1 .. l /\ i + 1 - 1 = i /\ i + l - 1 = k
      BY <1>1, <2>2
    <3>2. q[1] = p[i + 1 - 1] /\ q[l] = p[i + l - 1]
      BY <3>1
    <3> QED
      BY <1>1, <2>1, <3>1, <3>2
  <2>5. ASSUME NEW a \in 1 .. l, NEW b \in 1 .. l, q[a] = q[b] PROVE a = b
    <3>1. p[i + a - 1] = p[i + b - 1] /\ i + a - 1 \in 1 .. k /\ i + b - 1 \in 1 .. k
      BY <2>2, <2>5
    <3>2. i + a - 1 = i + b - 1
      BY <1>1, <3>1
    <3> QED
      BY <2>2, <3>2
  <2>6. ASSUME NEW a \in 1 .. l - 1 PROVE [source |-> q[a], target |-> q[a + 1]] \in es
    <3>1. a \in 1 .. l /\ a + 1 \in 1 .. l /\ i + a - 1 \in 1 .. k - 1 /\ i + (a + 1) - 1 = (i + a - 1) + 1
      BY <1>1, <2>2
    <3>2. q[a] = p[i + a - 1] /\ q[a + 1] = p[(i + a - 1) + 1]
      BY <3>1
    <3> QED
      BY <1>1, <3>1, <3>2
  <2> HIDE DEF l, q
  <2>7. Reaches(ns, es, h, n, l, q)
    BY <2>2, <2>3, <2>4, <2>5, <2>6 DEF Reaches
  <2> QED
    BY <2>7
<1>3. CASE \A i \in 1 .. k : p[i] # h
  <2> DEFINE l == k + 1
             q == [j \in 1 .. l |-> IF j = 1 THEN h ELSE p[j - 1]]
  <2>1. l \in Nat \ {0} /\ \A j \in 1 .. l : j # 1 => j - 1 \in 1 .. k
    BY <1>1
  <2>2. q \in [1 .. l -> ns]
    <3> SUFFICES ASSUME NEW j \in 1 .. l PROVE q[j] \in ns
      OBVIOUS
    <3> QED
      BY <1>1, <2>1
  <2>3. q[1] = h /\ q[l] = n
    <3>1. 1 \in 1 .. l /\ l \in 1 .. l /\ l # 1 /\ l - 1 = k
      BY <1>1
    <3> QED
      BY <1>1, <3>1
  <2>4. ASSUME NEW a \in 1 .. l, NEW b \in 1 .. l, q[a] = q[b] PROVE a = b
    <3>1. CASE a = 1 /\ b = 1
      BY <3>1
    <3>2. CASE a = 1 /\ b # 1
      BY <1>3, <2>1, <2>4, <3>2
    <3>3. CASE a # 1 /\ b = 1
      BY <1>3, <2>1, <2>4, <3>3
    <3>4. CASE a # 1 /\ b # 1
      <4>1. p[a - 1] = p[b - 1] /\ a - 1 \in 1 .. k /\ b - 1 \in 1 .. k
        BY <2>1, <2>4, <3>4
      <4>2. a - 1 = b - 1
        BY <1>1, <4>1
      <4> QED
        BY <1>1, <4>2
    <3> QED
      BY <3>1, <3>2, <3>3, <3>4
  <2>5. ASSUME NEW a \in 1 .. l - 1 PROVE [source |-> q[a], target |-> q[a + 1]] \in es
    <3>1. a \in 1 .. l /\ a + 1 \in 1 .. l /\ a + 1 # 1 /\ (a + 1) - 1 = a
      BY <1>1
    <3>2. q[a + 1] = p[a]
      BY <3>1
    <3>3. CASE a = 1
      BY <1>1, <3>1, <3>2, <3>3
    <3>4. CASE a # 1
      <4>1. q[a] = p[a - 1] /\ a - 1 \in 1 .. k - 1 /\ (a - 1) + 1 = a
        BY <1>1, <3>1, <3>4
      <4> QED
        BY <1>1, <3>2, <4>1
    <3> QED
      BY <3>3, <3>4
  <2> HIDE DEF l, q
  <2>6. Reaches(ns, es, h, n, l, q)
    BY <2>1, <2>2, <2>3, <2>4, <2>5 DEF Reaches
  <2> QED
    BY <2>6
<1> QED
  BY <1>2, <1>3

\* From n there is a path to a node without edges.
Finishes(ns, es, n) == \E m \in ns : Successors(es, m) = {} /\ \E k, p : Reaches(ns, es, n, m, k, p)

\* What validate() finds to finish has such a path.
LEMMA FinishersFinish ==
    ASSUME NEW ns \in SUBSET Ids, NEW es \in SUBSET Edges, NEW n \in CanFinish(ns, es)
    PROVE  Finishes(ns, es, n)
<1>1. PICK f \in [Nat -> SUBSET Ids] :
         /\ f[0] = Terminals(ns, es)
         /\ \A i \in Nat : f[i + 1] = f[i] \cup {e.source : e \in {h \in es : h.target \in f[i] /\ h.source \in ns}}
         /\ CanFinish(ns, es) = f[Cardinality(Ids)]
  BY FinishIterates
<1> DEFINE is == {i \in Nat : \A x \in f[i] : x \in ns /\ Finishes(ns, es, x)}
<1>2. 0 \in is
  <2> SUFFICES ASSUME NEW x \in Terminals(ns, es) PROVE x \in ns /\ Finishes(ns, es, x)
    BY <1>1
  <2>1. x \in ns /\ Successors(es, x) = {}
    BY DEF Terminals
  <2> DEFINE p == [i \in 1 .. 1 |-> x]
  <2>2. Reaches(ns, es, x, x, 1, p)
    <3>1. \A i \in 1 .. 1 - 1 : FALSE
      OBVIOUS
    <3>2. p \in [1 .. 1 -> ns] /\ p[1] = x /\ \A i, j \in 1 .. 1 : p[i] = p[j] => i = j
      BY <2>1
    <3> QED
      BY <3>1, <3>2 DEF Reaches
  <2> QED
    BY <2>1, <2>2 DEF Finishes
<1>3. ASSUME NEW i \in is PROVE i + 1 \in is
  <2> SUFFICES ASSUME NEW x \in f[i + 1] PROVE x \in ns /\ Finishes(ns, es, x)
    OBVIOUS
  <2>1. CASE x \in f[i]
    BY <2>1
  <2>2. CASE x \notin f[i]
    <3>1. PICK e \in es : e.target \in f[i] /\ e.source \in ns /\ x = e.source
      BY <1>1, <2>2
    <3>2. e \in Edges /\ e = [source |-> x, target |-> e.target]
      BY <3>1 DEF Edges
    <3>3. e.target \in ns /\ Finishes(ns, es, e.target)
      BY <3>1
    <3>4. PICK m \in ns : Successors(es, m) = {} /\ \E k, p : Reaches(ns, es, e.target, m, k, p)
      BY <3>3 DEF Finishes
    <3>5. PICK k, p : Reaches(ns, es, e.target, m, k, p)
      BY <3>4
    <3>6. \E l, q : Reaches(ns, es, x, m, l, q)
      BY <3>1, <3>2, <3>5, ReachesFurther
    <3> QED
      BY <3>1, <3>4, <3>6 DEF Finishes
  <2> QED
    BY <2>1, <2>2
<1>4. is \in SUBSET Nat
  OBVIOUS
<1> HIDE DEF is
<1>5. is = Nat
  BY <1>2, <1>3, <1>4, NatsByStep
<1>6. Cardinality(Ids) \in Nat
  BY FS_CardinalityType
<1> QED
  BY <1>1, <1>5, <1>6 DEF is

\* A candidate without errors was found to be valid.
CheckedInv == phase = "done" /\ found = {} => Invalid(nodes, edges) = {}

\* Every action keeps it: the last is the check itself.
LEMMA NextChecked == ASSUME CheckedInv, [Next]_vars PROVE CheckedInv'
<1>p. Phases[1] # "done" /\ Phases[2] # "done" /\ Phases[3] # "done" /\ Phases[4] # "done"
  BY DEF Phases
<1>e. ASSUME NEW i \in 1 .. 4, NEW x, Edit(i, x) PROVE CheckedInv'
  <2>1. phase' = Phases[i] /\ i \in {1, 2, 3, 4}
    BY <1>e DEF Edit
  <2> QED
    BY <1>p, <2>1 DEF CheckedInv
<1>1. CASE UNCHANGED vars
  BY <1>1 DEF vars, CheckedInv
<1>2. ASSUME NEW e \in Edges, DeleteEdge(e) \/ AddEdge(e) PROVE CheckedInv'
  BY <1>2, <1>e DEF DeleteEdge, AddEdge
<1>3. ASSUME NEW n \in Ids, DeleteNode(n) \/ AddNode(n) PROVE CheckedInv'
  BY <1>3, <1>e DEF DeleteNode, AddNode
<1>4. CASE Built
  BY <1>4 DEF Built, CheckedInv, candidate
<1>5. CASE Visit \/ Leave \/ Cut \/ Repaired \/ \E e \in edges : Descend(e) \/ Look(e)
  <2>1. phase' # "done"
    BY <1>5 DEF Visit, Leave, Cut, Repaired, Descend, Look, Take, PassOver
  <2> QED
    BY <2>1 DEF CheckedInv
<1>6. CASE Check
  BY <1>6 DEF Check, CheckedInv
<1> QED
  BY <1>1, <1>2, <1>3, <1>4, <1>5, <1>6 DEF Next

-----------------------------------------------------------------------------
(* Theorems.                                                               *)

\* Candidate, search and history keep their types, and the nodes of colour 1 are those on the
\* stack, once each, for graphs of any size (graph.py:450-458).
THEOREM TypeCorrect == Spec => []TypeOK
BY Inductive, PTL DEF IInv

\* Whatever the graph and the edits, the repair leaves the edges in an order, so without a
\* cycle (edits.py:176-188).
THEOREM RepairLeavesNoCycle == Spec => []RepairedHasOrder
BY Inductive, PTL DEF IInv

\* The first pass finds every edge to cut: the second finds nothing, and the bound of the loop
\* is never met but by a graph without edges (graph.py:450-463, edits.py:182-188).
THEOREM TwoPassesSuffice == Spec => []TwoPassesAtMost
<1>1. PassInv => TwoPassesAtMost
  BY DEF PassInv, TwoPassesAtMost
<1> QED
  BY <1>1, PassesInductive, PTL

\* Each edge the repair removed would close a cycle in the graph that is left: it cuts no
\* edge in vain (graph.py:444-463).
THEOREM CutsCloseCycles == Spec => []CutClosesCycle
<1>1. PassInv => CutClosesCycle
  BY DEF PassInv, CutClosesCycle
<1> QED
  BY <1>1, PassesInductive, PTL

\* A candidate is the graph given with the edits and nothing else: deletions come before
\* additions, a node takes its edges with it, and what the repair removed was there
\* (edits.py:211-243).
THEOREM CandidatesAreEdited == Spec => []CandidateIsEdited
<1>1. EditedInv => CandidateIsEdited
  BY DEF EditedInv, AsEdited, Gone, CandidateIsEdited
<1>2. Init => IInv /\ PassInv /\ EditedInv
  BY InitHolds, InitPasses, InitEdited
<1>3. IInv /\ PassInv /\ EditedInv /\ [Next]_vars => IInv' /\ PassInv' /\ EditedInv'
  BY NextHolds, NextPasses, NextEdited
<1> QED
  BY <1>1, <1>2, <1>3, PTL DEF Spec

\* From every node of a candidate a path leads to a node without edges (graph.py:411-423).
THEOREM NodesFinish == Spec => []EveryNodeFinishes
<1>1. Init => CheckedInv
  BY DEF Init, CheckedInv
<1>2. CheckedInv /\ [Next]_vars => CheckedInv'
  BY NextChecked
<1>3. TypeOK /\ CheckedInv => EveryNodeFinishes
  <2> SUFFICES ASSUME TypeOK, CheckedInv, phase = "done", found = {}, NEW n \in nodes
               PROVE  \E m \in nodes : Leads(nodes, edges, n, m) /\ Successors(edges, m) = {}
    BY DEF EveryNodeFinishes
  <2>1. nodes \in SUBSET Ids /\ edges \in SUBSET Edges /\ IsFiniteSet(nodes)
    BY FS_Subset DEF TypeOK
  <2>2. nodes \subseteq CanFinish(nodes, edges)
    BY DEF CheckedInv, Invalid
  <2>3. PICK m \in nodes : Successors(edges, m) = {} /\ \E k, p : Reaches(nodes, edges, n, m, k, p)
    BY <2>1, <2>2, FinishersFinish DEF Finishes
  <2>4. PICK k, p : Reaches(nodes, edges, n, m, k, p)
    BY <2>3
  <2> QED
    BY <2>1, <2>3, <2>4, ReachesLeads
<1> QED
  BY <1>1, <1>2, <1>3, TypeCorrect, PTL DEF Spec

=============================================================================

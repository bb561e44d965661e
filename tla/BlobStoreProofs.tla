--------------------------- MODULE BlobStoreProofs ---------------------------
(***************************************************************************)
(* Theorems about BlobStore for any number of writers and readers, any     *)
(* documents and chains of any length.                                     *)
(***************************************************************************)
EXTENDS BlobStore, TLAPS

USE ConstantsAssumption

\* The length of the chain a writer saw.
SeenLength(w) == IF writer[w].seen = None THEN 0 ELSE writer[w].seen.seq + 1

\* HEAD is the end of the chain, and its generation counts its writes.
HeadIsLast ==
    /\ head = None <=> chain = <<>>
    /\ head # None => /\ head.seq + 1 = Len(chain)
                      /\ head.digest = chain[Len(chain)].digest
                      /\ head.generation = Len(chain)

\* Every object, the orphans included, stands on a revision of the chain.
ObjectsRooted ==
    \A o \in objects :
        /\ o.seq <= Len(chain)
        /\ o.parent = IF o.seq = 0 THEN None ELSE chain[o.seq].digest

\* The revisions of the chain are linked and stored.
Linked ==
    \A i \in 1 .. Len(chain) :
        /\ chain[i].parent = IF i = 1 THEN None ELSE chain[i - 1].digest
        /\ \E o \in objects : o.seq = i - 1 /\ o.digest = chain[i].digest

\* A writer between reading HEAD and writing it saw a revision of the chain, the one its
\* caller expects, no older than the call.
SeenInChain(w) ==
    /\ SeenLength(w) <= Len(chain)
    /\ writer[w].base <= SeenLength(w)
    /\ writer[w].seen = None => writer[w].expected = None
    /\ writer[w].seen # None =>
          /\ writer[w].seen \in Pointers
          /\ writer[w].seen.generation = writer[w].seen.seq + 1
          /\ writer[w].seen.digest = chain[writer[w].seen.seq + 1].digest
          /\ writer[w].expected = writer[w].seen.digest

WriterInOrder(w) ==
    /\ writer[w].pc \in {"head", "put", "advance"} <=> writer[w].state = "asked"
    /\ writer[w].pc = "moved" <=> writer[w].state = "landed"
    /\ writer[w].pc # "idle" => writer[w].document \in Documents
    /\ writer[w].base <= Len(chain)
    /\ writer[w].pc \in {"put", "advance"} => SeenInChain(w)
    /\ writer[w].pc = "advance" => \E o \in objects : SameKey(o, Built(w))

\* The inductive invariant of the writers.
WInv ==
    /\ TypeOK
    /\ HeadIsLast
    /\ ObjectsRooted
    /\ Linked
    /\ \A w \in Writers : WriterInOrder(w)

\* It says what ChainStored says.
LEMMA StoredFollows == WInv => ChainStored
<1> SUFFICES ASSUME WInv PROVE ChainStored
  OBVIOUS
<1>1. chain \in Seq([digest : Documents, parent : Documents \cup {None}]) /\ objects \subseteq Objects
  BY DEF WInv, TypeOK
<1>2. head # None => head.seq = Len(chain) - 1 /\ head.digest = chain[Len(chain)].digest
  BY <1>1 DEF WInv, TypeOK, HeadIsLast, Pointers
<1>3. ASSUME NEW i \in 1 .. Len(chain)
      PROVE  /\ chain[i].parent = IF i = 1 THEN None ELSE chain[i - 1].digest
             /\ \E o \in objects : /\ o.seq = i - 1
                                  /\ o.digest = chain[i].digest
                                  /\ o.parent = chain[i].parent
  <2>1. chain[i].parent = IF i = 1 THEN None ELSE chain[i - 1].digest
    BY DEF WInv, Linked
  <2>2. PICK o \in objects : o.seq = i - 1 /\ o.digest = chain[i].digest
    BY DEF WInv, Linked
  <2>3. o.parent = IF o.seq = 0 THEN None ELSE chain[o.seq].digest
    BY DEF WInv, ObjectsRooted
  <2>4. o.parent = chain[i].parent
    BY <2>1, <2>2, <2>3
  <2> QED
    BY <2>1, <2>2, <2>4
<1> QED
  BY <1>2, <1>3 DEF ChainStored

LEMMA InitWInv == Init => WInv
  BY DEF Init, WInv, TypeOK, HeadIsLast, ObjectsRooted, Linked, WriterInOrder, Answered, NotReading,
         Objects, Pointers

-----------------------------------------------------------------------------
(* What a step of one writer leaves alone.                                 *)

WriterRecords ==
    [pc : {"idle", "head", "put", "advance", "moved"},
     state : {"idle", "asked", "landed", "appended", "refused", "failed"},
     expected : Documents \cup {None}, document : Documents \cup {None},
     seen : Pointers \cup {None}, base : Nat]

\* A writer that does not move stays in order while objects are added and the chain grows.
LEMMA OthersStayInOrder ==
    ASSUME WInv, NEW v \in Writers, WriterInOrder(v), writer'[v] = writer[v],
           objects \subseteq objects', chain' \in Seq([digest : Documents, parent : Documents \cup {None}]),
           Len(chain) <= Len(chain'), \A i \in 1 .. Len(chain) : chain'[i] = chain[i]
    PROVE  WriterInOrder(v)'
<1>1. chain \in Seq([digest : Documents, parent : Documents \cup {None}]) /\ writer[v] \in WriterRecords
  BY DEF WInv, TypeOK, WriterRecords
<1>2. SeenInChain(v) => SeenInChain(v)'
  <2>1. SeenLength(v)' = SeenLength(v)
    BY DEF SeenLength
  <2>2. CASE writer[v].seen = None
    <3>1. SeenLength(v) = 0
      BY <2>2 DEF SeenLength
    <3> QED
      BY <1>1, <2>1, <2>2, <3>1 DEF SeenInChain, WriterRecords
  <2>3. CASE writer[v].seen # None
    <3>1. writer[v].seen \in Pointers
      BY <1>1, <2>3 DEF WriterRecords
    <3>2. SeenInChain(v) => writer[v].seen.seq + 1 \in 1 .. Len(chain)
      BY <1>1, <2>3, <3>1 DEF SeenInChain, SeenLength, Pointers
    <3>3. SeenLength(v) \in Nat
      BY <2>3, <3>1 DEF SeenLength, Pointers
    <3>4. SeenLength(v) <= Len(chain) => SeenLength(v) <= Len(chain')
      BY <1>1, <3>3
    <3>5. SeenInChain(v) => chain'[writer[v].seen.seq + 1] = chain[writer[v].seen.seq + 1]
      BY <3>2
    <3> QED
      BY <2>1, <2>3, <3>1, <3>4, <3>5 DEF SeenInChain
  <2> QED
    BY <2>2, <2>3
<1>3. (\E o \in objects : SameKey(o, Built(v))) => (\E o \in objects : SameKey(o, Built(v)))'
  BY DEF SameKey, Built
<1>4. writer[v].base <= Len(chain) => writer[v].base <= Len(chain')
  BY <1>1 DEF WriterRecords
<1> QED
  BY <1>2, <1>3, <1>4 DEF WriterInOrder

\* A step that changes nothing but one writer keeps the invariant if that writer stays in
\* order.
LEMMA OneWriterMoves ==
    ASSUME WInv, NEW w \in Writers, NEW s \in WriterRecords,
           writer' = [writer EXCEPT ![w] = s], UNCHANGED <<objects, head, reader, chain>>,
           WriterInOrder(w)'
    PROVE  WInv'
<1>1. TypeOK'
  BY DEF WInv, TypeOK, WriterRecords
<1>2. HeadIsLast' /\ ObjectsRooted' /\ Linked'
  BY DEF WInv, HeadIsLast, ObjectsRooted, Linked
<1>3. ASSUME NEW v \in Writers, v # w
      PROVE  WriterInOrder(v)'
  <2>1. WriterInOrder(v) /\ writer'[v] = writer[v]
    BY <1>3 DEF WInv, TypeOK
  <2>2. chain' = chain /\ chain \in Seq([digest : Documents, parent : Documents \cup {None}])
    BY DEF WInv, TypeOK
  <2>3. /\ objects \subseteq objects'
        /\ chain' \in Seq([digest : Documents, parent : Documents \cup {None}])
        /\ Len(chain) <= Len(chain')
        /\ \A i \in 1 .. Len(chain) : chain'[i] = chain[i]
    BY <2>2
  <2> QED
    BY <2>1, <2>3, OthersStayInOrder
<1> QED
  BY <1>1, <1>2, <1>3 DEF WInv

\* What a writer on its way has, in one place.
LEMMA WriterType ==
    ASSUME WInv, NEW w \in Writers
    PROVE  /\ writer[w] \in WriterRecords
           /\ writer = [writer EXCEPT ![w] = writer[w]]
           /\ chain \in Seq([digest : Documents, parent : Documents \cup {None}])
           /\ head \in Pointers \cup {None}
           /\ objects \subseteq Objects
           /\ WriterInOrder(w)
  BY DEF WInv, TypeOK, WriterRecords

-----------------------------------------------------------------------------
(* The steps of a writer.                                                  *)

\* An answer leaves a writer in order, whatever it is.
LEMMA AnswerKeeps ==
    ASSUME WInv, NEW w \in Writers, NEW a \in {"appended", "refused", "failed"}, Answer(w, a),
           UNCHANGED <<objects, head, reader, chain>>
    PROVE  WInv'
<1> DEFINE s == Answered(a)
<1>1. chain \in Seq([digest : Documents, parent : Documents \cup {None}])
  BY WriterType
<1>2. s \in WriterRecords
  BY DEF WriterRecords, Answered
<1>3. writer' = [writer EXCEPT ![w] = s]
  BY DEF Answer
<1>4. writer'[w] = s
  BY <1>3 DEF WInv, TypeOK
<1>5. s.pc = "idle" /\ s.base = 0 /\ s.state \notin {"asked", "landed"}
  BY DEF Answered
<1> HIDE DEF s
<1>6. WriterInOrder(w)'
  BY <1>1, <1>3, <1>4, <1>5 DEF WriterInOrder
<1> QED
  BY <1>2, <1>3, <1>6, OneWriterMoves

LEMMA CallKeeps ==
    ASSUME WInv, NEW w \in Writers, NEW expected \in Documents \cup {None}, NEW document \in Documents,
           Call(w, expected, document)
    PROVE  WInv'
<1> DEFINE s == [pc |-> "head", state |-> "asked", expected |-> expected, document |-> document,
                 seen |-> None, base |-> Len(chain)]
<1>1. chain \in Seq([digest : Documents, parent : Documents \cup {None}])
  BY WriterType
<1>2. s \in WriterRecords
  BY <1>1 DEF WriterRecords
<1>3. writer' = [writer EXCEPT ![w] = s] /\ UNCHANGED <<objects, head, reader, chain>>
  BY DEF Call
<1>4. writer'[w] = s
  BY <1>3 DEF WInv, TypeOK
<1>5. s.pc = "head" /\ s.state = "asked" /\ s.document \in Documents /\ s.base = Len(chain)
  OBVIOUS
<1> HIDE DEF s
<1>6. WriterInOrder(w)'
  BY <1>1, <1>3, <1>4, <1>5 DEF WriterInOrder
<1> QED
  BY <1>2, <1>3, <1>6, OneWriterMoves

\* The head a writer goes on with is the one its caller expects.
LEMMA ReadHeadKeeps ==
    ASSUME WInv, NEW w \in Writers, ReadHead(w)
    PROVE  WInv'
<1> USE WriterType
<1>1. UNCHANGED <<objects, head, reader, chain>>
  BY DEF ReadHead
<1>2. CASE writer[w].expected = IF head = None THEN None ELSE head.digest
  <2> DEFINE s == [writer[w] EXCEPT !.pc = "put", !.seen = head]
  <2>1. s \in WriterRecords
    BY DEF WriterRecords
  <2>2. writer' = [writer EXCEPT ![w] = s]
    BY <1>2 DEF ReadHead
  <2>3. writer'[w] = s
    BY <2>2 DEF WInv, TypeOK
  <2>4. /\ s.pc = "put" /\ s.seen = head /\ s.state = writer[w].state
        /\ s.document = writer[w].document /\ s.base = writer[w].base
        /\ s.expected = writer[w].expected
    BY DEF WriterRecords
  <2>5. writer[w].pc = "head" /\ writer[w].state = "asked" /\ writer[w].document \in Documents
    BY DEF ReadHead, WriterInOrder
  <2>6. SeenLength(w)' = Len(chain)
    BY <2>3, <2>4 DEF SeenLength, WInv, HeadIsLast, Pointers
  <2>7. SeenInChain(w)'
    <3>1. CASE head = None
      BY <1>1, <1>2, <2>3, <2>4, <2>6, <3>1 DEF SeenInChain, WriterInOrder, WriterRecords
    <3>2. CASE head # None
      <4>1. head \in Pointers /\ head.seq + 1 = Len(chain)
        BY <3>2 DEF WInv, HeadIsLast
      <4>2. head.generation = head.seq + 1 /\ head.digest = chain[head.seq + 1].digest
        BY <3>2, <4>1 DEF WInv, HeadIsLast
      <4> QED
        BY <1>1, <1>2, <2>3, <2>4, <2>6, <3>2, <4>1, <4>2 DEF SeenInChain, WriterInOrder, WriterRecords
    <3> QED
      BY <3>1, <3>2
  <2>8. WriterInOrder(w)'
    BY <1>1, <2>3, <2>4, <2>5, <2>7 DEF WriterInOrder
  <2> QED
    BY <1>1, <2>1, <2>2, <2>8, OneWriterMoves
<1>3. CASE ~ (writer[w].expected = IF head = None THEN None ELSE head.digest)
  <2>1. Answer(w, "refused")
    BY <1>3 DEF ReadHead
  <2> QED
    BY <1>1, <2>1, AnswerKeeps
<1> QED
  BY <1>2, <1>3

\* The object a writer puts, or finds, stands on a revision of the chain.
LEMMA PutRevisionKeeps ==
    ASSUME WInv, NEW w \in Writers, PutRevision(w)
    PROVE  WInv'
<1> DEFINE s == [writer[w] EXCEPT !.pc = "advance"]
<1> DEFINE b == Built(w)
<1>1. /\ writer[w] \in WriterRecords /\ WriterInOrder(w) /\ objects \subseteq Objects
      /\ chain \in Seq([digest : Documents, parent : Documents \cup {None}])
  BY WriterType
<1>2. /\ UNCHANGED <<head, reader, chain>> /\ objects \subseteq objects'
      /\ objects' \subseteq objects \cup {b}
      /\ \E o \in objects' : SameKey(o, b)
  BY DEF PutRevision, SameKey
<1>3. s \in WriterRecords /\ writer' = [writer EXCEPT ![w] = s]
  BY <1>1 DEF PutRevision, WriterRecords
<1>4. writer'[w] = s
  BY <1>3 DEF WInv, TypeOK
<1>5. /\ s.pc = "advance" /\ s.state = writer[w].state /\ s.document = writer[w].document
      /\ s.base = writer[w].base /\ s.expected = writer[w].expected /\ s.seen = writer[w].seen
  BY <1>1 DEF WriterRecords
<1> HIDE DEF s
<1>6. SeenInChain(w) /\ writer[w].state = "asked" /\ writer[w].document \in Documents
  BY <1>1 DEF PutRevision, WriterInOrder
<1>7. b \in Objects /\ b.seq <= Len(chain)
      /\ b.parent = IF b.seq = 0 THEN None ELSE chain[b.seq].digest
  <2>1. CASE writer[w].seen = None
    BY <1>1, <1>6, <2>1 DEF Built, Objects
  <2>2. CASE writer[w].seen # None
    <3>1. writer[w].seen \in Pointers /\ writer[w].seen.digest = chain[writer[w].seen.seq + 1].digest
      BY <1>6, <2>2 DEF SeenInChain
    <3>2. writer[w].seen.seq + 1 <= Len(chain)
      BY <1>6, <2>2 DEF SeenInChain, SeenLength
    <3> QED
      BY <1>6, <2>2, <3>1, <3>2 DEF Built, Objects, Pointers
  <2> QED
    BY <2>1, <2>2
<1> HIDE DEF b
<1>8. TypeOK'
  <2>1. objects' \subseteq Objects
    BY <1>1, <1>2, <1>7
  <2> QED
    BY <1>2, <1>3, <2>1 DEF WInv, TypeOK, WriterRecords
<1>9. HeadIsLast' /\ Linked'
  BY <1>2 DEF WInv, HeadIsLast, Linked
<1>10. ObjectsRooted'
  BY <1>2, <1>7 DEF WInv, ObjectsRooted
<1>11. ASSUME NEW v \in Writers
       PROVE  WriterInOrder(v)'
  <2>1. CASE v = w
    <3>1. SeenInChain(w)'
      BY <1>2, <1>4, <1>5, <1>6 DEF SeenInChain, SeenLength
    <3>2. Built(w)' = Built(w)
      BY <1>4, <1>5 DEF Built
    <3>3. (\E o \in objects : SameKey(o, Built(w)))'
      BY <1>2, <3>2 DEF b, SameKey
    <3> QED
      BY <1>1, <1>2, <1>4, <1>5, <1>6, <2>1, <3>1, <3>3 DEF WriterInOrder
  <2>2. CASE v # w
    <3>1. WriterInOrder(v) /\ writer'[v] = writer[v]
      BY <1>3, <2>2 DEF WInv, TypeOK
    <3>2. /\ chain' \in Seq([digest : Documents, parent : Documents \cup {None}])
          /\ Len(chain) <= Len(chain')
          /\ \A i \in 1 .. Len(chain) : chain'[i] = chain[i]
      BY <1>1, <1>2
    <3> QED
      BY <1>2, <3>1, <3>2, OthersStayInOrder
  <2> QED
    BY <2>1, <2>2
<1> QED
  BY <1>8, <1>9, <1>10, <1>11 DEF WInv

\* The precondition on HEAD holds exactly if nothing landed since the writer read it.
LEMMA MatchesIfCurrent ==
    ASSUME WInv, NEW w \in Writers, writer[w].pc = "advance"
    PROVE  Matches(w) <=> SeenLength(w) = Len(chain)
<1>1. /\ writer[w] \in WriterRecords /\ WriterInOrder(w) /\ head \in Pointers \cup {None}
      /\ chain \in Seq([digest : Documents, parent : Documents \cup {None}])
  BY WriterType
<1>2. SeenInChain(w)
  BY <1>1 DEF WriterInOrder
<1>3. /\ head = None <=> chain = <<>>
      /\ head # None => /\ head.seq + 1 = Len(chain)
                        /\ head.digest = chain[Len(chain)].digest
                        /\ head.generation = Len(chain)
  BY DEF WInv, HeadIsLast
<1>4. CASE writer[w].seen = None
  <2>1. chain = <<>> <=> 0 = Len(chain)
    BY <1>1
  <2> QED
    BY <1>3, <1>4, <2>1 DEF Matches, SeenLength
<1>5. CASE writer[w].seen # None
  <2> DEFINE p == writer[w].seen
  <2>1. /\ p \in Pointers /\ p.generation = p.seq + 1 /\ p.digest = chain[p.seq + 1].digest
        /\ SeenLength(w) = p.seq + 1
    BY <1>2, <1>5 DEF SeenInChain, SeenLength
  <2>2. Matches(w) <=> head # None /\ Tag(head) = Tag(p)
    BY <1>5 DEF Matches
  <2> HIDE DEF p
  <2>3. CASE head = None
    BY <1>1, <1>3, <2>1, <2>2, <2>3 DEF Pointers
  <2>4. CASE head # None
    <3>1. head \in Pointers
      BY <1>1, <2>4
    <3>2. head.seq = p.seq => head.digest = p.digest /\ head.generation = p.generation
      BY <1>3, <2>1, <2>4, <3>1 DEF Pointers
    <3>3. head.generation = p.generation => head.seq = p.seq
      BY <1>3, <2>1, <2>4, <3>1 DEF Pointers
    <3>4. Tag(head) = Tag(p) <=> head.seq = p.seq
      BY <3>2, <3>3 DEF Tag
    <3>5. head.seq = p.seq <=> p.seq + 1 = Len(chain)
      BY <1>1, <1>3, <2>1, <2>4, <3>1 DEF Pointers
    <3> QED
      BY <2>1, <2>2, <2>4, <3>4, <3>5
  <2> QED
    BY <2>3, <2>4
<1> QED
  BY <1>4, <1>5

\* The write to HEAD appends the writer's revision to the chain.
LEMMA MoveHeadAppends ==
    ASSUME WInv, NEW w \in Writers, MoveHead(w)
    PROVE  /\ chain' = Append(chain, [digest |-> writer[w].document, parent |-> writer[w].expected])
           /\ writer[w].state = "asked"
           /\ writer[w].document \in Documents
           /\ writer[w].expected = IF chain = <<>> THEN None ELSE chain[Len(chain)].digest
           /\ Built(w).seq = Len(chain)
           /\ Built(w).digest = writer[w].document
           /\ \E o \in objects : SameKey(o, Built(w))
<1>1. /\ writer[w] \in WriterRecords /\ WriterInOrder(w)
      /\ chain \in Seq([digest : Documents, parent : Documents \cup {None}])
  BY WriterType
<1>2. SeenLength(w) = Len(chain)
  BY MatchesIfCurrent DEF MoveHead
<1>3. SeenInChain(w) /\ writer[w].state = "asked" /\ writer[w].document \in Documents
      /\ \E o \in objects : SameKey(o, Built(w))
  BY <1>1 DEF MoveHead, WriterInOrder
<1>4. CASE writer[w].seen = None
  <2>1. Len(chain) = 0 /\ chain = <<>>
    BY <1>1, <1>2, <1>4 DEF SeenLength
  <2>2. Built(w).seq = 0 /\ Built(w).parent = None /\ Built(w).digest = writer[w].document
    BY <1>4 DEF Built
  <2>3. writer[w].expected = None
    BY <1>3, <1>4 DEF SeenInChain
  <2> QED
    BY <1>3, <2>1, <2>2, <2>3 DEF MoveHead
<1>5. CASE writer[w].seen # None
  <2>1. /\ writer[w].seen \in Pointers
        /\ writer[w].expected = writer[w].seen.digest
        /\ writer[w].seen.digest = chain[writer[w].seen.seq + 1].digest
    BY <1>3, <1>5 DEF SeenInChain
  <2>2. writer[w].seen.seq + 1 = Len(chain) /\ chain # <<>>
    BY <1>1, <1>2, <1>5, <2>1 DEF SeenLength, Pointers
  <2>3. /\ Built(w).seq = Len(chain) /\ Built(w).parent = writer[w].expected
        /\ Built(w).digest = writer[w].document
    BY <1>5, <2>1, <2>2 DEF Built
  <2> QED
    BY <1>3, <2>1, <2>2, <2>3 DEF MoveHead
<1> QED
  BY <1>4, <1>5

LEMMA MoveHeadKeeps ==
    ASSUME WInv, NEW w \in Writers, MoveHead(w)
    PROVE  WInv'
<1> DEFINE s == [writer[w] EXCEPT !.pc = "moved", !.state = "landed"]
<1> DEFINE n == Len(chain)
<1> DEFINE e == [digest |-> writer[w].document, parent |-> writer[w].expected]
<1> DEFINE Revisions == [digest : Documents, parent : Documents \cup {None}]
<1>1. /\ writer[w] \in WriterRecords /\ WriterInOrder(w) /\ objects \subseteq Objects
      /\ chain \in Seq(Revisions) /\ head \in Pointers \cup {None}
  BY WriterType
<1>2. /\ chain' = Append(chain, e)
      /\ writer[w].document \in Documents
      /\ e.parent = IF n = 0 THEN None ELSE chain[n].digest
      /\ Built(w).seq = n
      /\ Built(w).digest = e.digest
      /\ \E o \in objects : SameKey(o, Built(w))
  BY <1>1, MoveHeadAppends
<1>3. e \in Revisions /\ n \in Nat
  BY <1>1, <1>2 DEF WriterRecords
<1> HIDE DEF e
<1>4. /\ chain' \in Seq(Revisions) /\ Len(chain') = n + 1 /\ chain'[n + 1] = e
      /\ \A i \in 1 .. n : chain'[i] = chain[i]
  BY <1>1, <1>2, <1>3
<1>5. UNCHANGED <<objects, reader>> /\ writer' = [writer EXCEPT ![w] = s] /\ s \in WriterRecords
  BY <1>1 DEF MoveHead, WriterRecords
<1>6. writer'[w] = s
  BY <1>5 DEF WInv, TypeOK
<1>7. /\ s.pc = "moved" /\ s.state = "landed" /\ s.document = writer[w].document
      /\ s.base = writer[w].base
  BY <1>1 DEF WriterRecords
<1> HIDE DEF s
<1>8. head' \in Pointers /\ head'.seq = n /\ head'.digest = e.digest /\ head'.generation = n + 1
  <2>1. head' = [seq |-> n, digest |-> e.digest,
                 generation |-> IF head = None THEN 1 ELSE head.generation + 1]
    BY <1>2 DEF MoveHead
  <2>2. e.digest \in Documents
    BY <1>3
  <2>3. head = None => n = 0
    BY DEF WInv, HeadIsLast
  <2>4. head # None => head.generation = n
    BY DEF WInv, HeadIsLast
  <2>5. (IF head = None THEN 1 ELSE head.generation + 1) = n + 1
    BY <1>3, <2>3, <2>4
  <2> QED
    BY <1>3, <2>1, <2>2, <2>5 DEF Pointers
<1>9. head' # None
  BY <1>8
<1>10. TypeOK'
  BY <1>4, <1>5, <1>8 DEF WInv, TypeOK, WriterRecords
<1>11. HeadIsLast'
  BY <1>3, <1>4, <1>8, <1>9 DEF HeadIsLast
<1>12. ObjectsRooted'
  <2>1. ASSUME NEW o \in objects
        PROVE  o.seq <= n + 1 /\ o.parent = IF o.seq = 0 THEN None ELSE chain'[o.seq].digest
    <3>1. o.seq \in Nat
      BY <1>1 DEF Objects
    <3>2. o.seq <= n /\ o.parent = IF o.seq = 0 THEN None ELSE chain[o.seq].digest
      BY DEF WInv, ObjectsRooted
    <3>3. o.seq # 0 => chain'[o.seq] = chain[o.seq]
      BY <1>3, <1>4, <3>1, <3>2
    <3> QED
      BY <1>3, <3>1, <3>2, <3>3
  <2> QED
    BY <1>4, <1>5, <2>1 DEF ObjectsRooted
<1>13. Linked'
  <2>1. ASSUME NEW i \in 1 .. n
        PROVE  /\ chain'[i].parent = IF i = 1 THEN None ELSE chain'[i - 1].digest
               /\ \E o \in objects : o.seq = i - 1 /\ o.digest = chain'[i].digest
    <3>1. /\ chain[i].parent = IF i = 1 THEN None ELSE chain[i - 1].digest
          /\ \E o \in objects : o.seq = i - 1 /\ o.digest = chain[i].digest
      BY DEF WInv, Linked
    <3>2. i # 1 => chain'[i - 1] = chain[i - 1]
      BY <1>3, <1>4
    <3> QED
      BY <1>4, <3>1, <3>2
  <2>2. chain'[n + 1].parent = IF n + 1 = 1 THEN None ELSE chain'[n].digest
    BY <1>2, <1>3, <1>4
  <2>3. \E o \in objects : o.seq = n /\ o.digest = chain'[n + 1].digest
    BY <1>2, <1>4 DEF SameKey
  <2> QED
    BY <1>3, <1>4, <1>5, <2>1, <2>2, <2>3 DEF Linked
<1>14. ASSUME NEW v \in Writers
       PROVE  WriterInOrder(v)'
  <2>1. CASE v = w
    <3>1. writer[w].base <= n + 1
      BY <1>1, <1>3 DEF WriterInOrder, WriterRecords
    <3> QED
      BY <1>2, <1>4, <1>6, <1>7, <2>1, <3>1 DEF WriterInOrder
  <2>2. CASE v # w
    <3>1. WriterInOrder(v) /\ writer'[v] = writer[v]
      BY <1>5, <2>2 DEF WInv, TypeOK
    <3>2. objects \subseteq objects' /\ Len(chain) <= Len(chain')
      BY <1>3, <1>4, <1>5
    <3> QED
      BY <1>4, <3>1, <3>2, OthersStayInOrder
  <2> QED
    BY <2>1, <2>2
<1> QED
  BY <1>10, <1>11, <1>12, <1>13, <1>14 DEF WInv

-----------------------------------------------------------------------------
(* The steps of a reader.                                                  *)

ReaderRecords == [pc : {"idle", "follow", "done"}, at : Objects \cup {None}, got : Seq(Objects)]

ReaderStep(c) == ListHead(c) \/ Follow(c) \/ Finish(c) \/ Drop(c)

\* A reader's record is a record again.
LEMMA ReaderType ==
    ASSUME WInv, NEW c \in Readers, ReaderStep(c)
    PROVE  \E r \in ReaderRecords :
              reader' = [reader EXCEPT ![c] = r] /\ UNCHANGED <<objects, head, writer, chain>>
<1>1. reader[c] \in ReaderRecords /\ objects \subseteq Objects
  BY DEF WInv, TypeOK, ReaderRecords
<1>2. CASE ListHead(c)
  <2>1. PICK o \in objects :
          reader' = [reader EXCEPT ![c] = [pc |-> "follow", at |-> o, got |-> <<o>>]]
    BY <1>2 DEF ListHead
  <2>2. o \in Objects /\ <<o>> \in Seq(Objects)
    BY <1>1
  <2>3. [pc |-> "follow", at |-> o, got |-> <<o>>] \in ReaderRecords
    BY <2>2 DEF ReaderRecords
  <2> QED
    BY <1>2, <2>1, <2>3 DEF ListHead
<1>3. CASE Follow(c)
  <2>1. PICK o \in objects : reader' = [reader EXCEPT ![c].at = o, ![c].got = Append(@, o)]
    BY <1>3 DEF Follow
  <2> DEFINE r == [reader[c] EXCEPT !.at = o, !.got = Append(@, o)]
  <2>2. r \in ReaderRecords
    <3>1. o \in Objects /\ Append(reader[c].got, o) \in Seq(Objects)
      BY <1>1 DEF ReaderRecords
    <3> QED
      BY <1>1, <3>1 DEF ReaderRecords
  <2>3. reader' = [reader EXCEPT ![c] = r]
    BY <2>1
  <2> QED
    BY <1>3, <2>2, <2>3 DEF Follow
<1>4. CASE Finish(c)
  <2> DEFINE r == [reader[c] EXCEPT !.pc = "done"]
  <2>1. r \in ReaderRecords
    BY <1>1 DEF ReaderRecords
  <2>2. reader' = [reader EXCEPT ![c] = r]
    BY <1>4 DEF Finish
  <2> QED
    BY <1>4, <2>1, <2>2 DEF Finish
<1>5. CASE Drop(c)
  <2>1. NotReading \in ReaderRecords
    BY DEF NotReading, ReaderRecords
  <2> QED
    BY <1>5, <2>1 DEF Drop
<1> QED
  BY <1>2, <1>3, <1>4, <1>5 DEF ReaderStep

LEMMA ReaderKeeps ==
    ASSUME WInv, NEW c \in Readers, ReaderStep(c)
    PROVE  WInv'
<1>1. PICK r \in ReaderRecords :
        reader' = [reader EXCEPT ![c] = r] /\ UNCHANGED <<objects, head, writer, chain>>
  BY ReaderType
<1>2. TypeOK'
  BY <1>1 DEF WInv, TypeOK, ReaderRecords
<1>3. HeadIsLast' /\ ObjectsRooted' /\ Linked'
  BY <1>1 DEF WInv, HeadIsLast, ObjectsRooted, Linked
<1>4. ASSUME NEW v \in Writers
      PROVE  WriterInOrder(v)'
  BY <1>1 DEF WInv, WriterInOrder, SeenInChain, SeenLength, Built
<1> QED
  BY <1>2, <1>3, <1>4 DEF WInv

-----------------------------------------------------------------------------
(* The invariant holds.                                                    *)

\* Every step of a writer, by name.
LEMMA WriterKeeps ==
    ASSUME WInv, NEW w \in Writers, AppendStep(w) \/ Crash(w)
    PROVE  WInv'
<1>1. CASE Confirm(w)
  BY <1>1, AnswerKeeps DEF Confirm
<1>2. CASE Lose(w)
  BY <1>2, AnswerKeeps DEF Lose
<1>3. CASE Repeat(w)
  BY <1>3, AnswerKeeps DEF Repeat
<1>4. CASE Crash(w)
  BY <1>4, AnswerKeeps DEF Crash
<1> QED
  BY <1>1, <1>2, <1>3, <1>4, ReadHeadKeeps, PutRevisionKeeps, MoveHeadKeeps DEF AppendStep

LEMMA NextWInv == WInv /\ [Next]_vars => WInv'
<1> SUFFICES ASSUME WInv, [Next]_vars PROVE WInv'
  OBVIOUS
<1>1. ASSUME NEW w \in Writers, NEW expected \in Documents \cup {None}, NEW document \in Documents,
             Call(w, expected, document)
      PROVE  WInv'
  BY <1>1, CallKeeps
<1>2. ASSUME NEW w \in Writers, AppendStep(w) \/ Crash(w)
      PROVE  WInv'
  BY <1>2, WriterKeeps
<1>3. ASSUME NEW c \in Readers, ReaderStep(c)
      PROVE  WInv'
  BY <1>3, ReaderKeeps
<1>4. CASE UNCHANGED vars
  <2>1. TypeOK'
    BY <1>4 DEF vars, WInv, TypeOK
  <2>2. HeadIsLast' /\ ObjectsRooted' /\ Linked'
    BY <1>4 DEF vars, WInv, HeadIsLast, ObjectsRooted, Linked
  <2>3. ASSUME NEW v \in Writers
        PROVE  WriterInOrder(v)'
    <3>1. WriterInOrder(v) /\ writer' = writer /\ chain' = chain /\ objects' = objects
      BY <1>4 DEF vars, WInv
    <3> QED
      BY <3>1 DEF WriterInOrder, SeenInChain, SeenLength, Built
  <2> QED
    BY <2>1, <2>2, <2>3 DEF WInv
<1> QED
  BY <1>1, <1>2, <1>3, <1>4 DEF Next, ReaderStep

LEMMA Invariance == Spec => []WInv
<1>1. Init => WInv
  BY InitWInv
<1>2. WInv /\ [Next]_vars => WInv'
  BY NextWInv
<1> QED
  BY <1>1, <1>2, PTL DEF Spec

\* Objects, HEAD and calls keep their types.
THEOREM TypeCorrect == Spec => []TypeOK
<1>1. WInv => TypeOK
  BY DEF WInv
<1> QED
  BY <1>1, Invariance, PTL

\* Whatever HEAD has named stays readable, linked to its predecessor, under any number of
\* racing writers that stop anywhere (blob.py:9-11, 92-104).
THEOREM CommittedStaysStored == Spec => []ChainStored
  BY Invariance, StoredFollows, PTL

-----------------------------------------------------------------------------
(* The refinement.                                                         *)

\* What the callers see of a step of one writer.
LEMMA CallsOfStep ==
    ASSUME WInv, NEW w \in Writers, NEW s, writer' = [writer EXCEPT ![w] = s]
    PROVE  Calls' = [Calls EXCEPT ![w] = [state |-> s.state, expected |-> s.expected,
                                          document |-> s.document, base |-> s.base]]
  BY DEF WInv, TypeOK, Calls

CallRecords ==
    [state : {"idle", "asked", "landed", "appended", "refused", "failed"},
     expected : Documents \cup {None}, document : Documents \cup {None}, base : Nat]

\* If its state is all that changes, that is what they see.
LEMMA CallsOfState ==
    ASSUME WInv, NEW w \in Writers, NEW s \in WriterRecords, writer' = [writer EXCEPT ![w] = s],
           s.expected = writer[w].expected, s.document = writer[w].document, s.base = writer[w].base
    PROVE  Calls' = [Calls EXCEPT ![w].state = s.state]
<1> DEFINE t == [Calls[w] EXCEPT !.state = s.state]
<1> DEFINE u == [state |-> s.state, expected |-> s.expected, document |-> s.document, base |-> s.base]
<1>1. writer[w] \in WriterRecords
  BY WriterType
<1>2. /\ Calls[w] \in CallRecords /\ Calls[w].expected = s.expected
      /\ Calls[w].document = s.document /\ Calls[w].base = s.base
  BY <1>1 DEF Calls, CallRecords, WriterRecords
<1>3. u \in CallRecords
  BY DEF CallRecords, WriterRecords
<1>4. t \in CallRecords
  BY <1>2, <1>3 DEF CallRecords
<1>5. t.state = u.state /\ t.expected = u.expected /\ t.document = u.document /\ t.base = u.base
  BY <1>2, <1>3, <1>4 DEF CallRecords
<1>6. Calls' = [Calls EXCEPT ![w] = u]
  BY CallsOfStep
<1> HIDE DEF t, u
<1>7. t = u
  BY <1>3, <1>4, <1>5 DEF CallRecords
<1>8. [Calls EXCEPT ![w].state = s.state] = [Calls EXCEPT ![w] = t]
  BY DEF t
<1> QED
  BY <1>6, <1>7, <1>8

\* An answer ends the call to the caller.
LEMMA CallsOfAnswer ==
    ASSUME WInv, NEW w \in Writers, NEW a, Answer(w, a)
    PROVE  Calls' = [Calls EXCEPT ![w] = Abstract!Answered(a)]
<1>1. writer' = [writer EXCEPT ![w] = Answered(a)]
  BY DEF Answer
<1> DEFINE s == Answered(a)
<1>2. Calls' = [Calls EXCEPT ![w] = [state |-> s.state, expected |-> s.expected,
                                     document |-> s.document, base |-> s.base]]
  BY <1>1, CallsOfStep
<1> QED
  BY <1>2 DEF Answered, Abstract!Answered

\* A step of one call is a step of the conditional append, or changes nothing its callers
\* see.
LEMMA AppendStepRefines ==
    ASSUME WInv, NEW w \in Writers, AppendStep(w)
    PROVE  \/ Abstract!Land(w) \/ Abstract!Return(w) \/ Abstract!Refuse(w) \/ Abstract!Misreport(w)
           \/ UNCHANGED <<chain, Calls>>
<1>1. /\ writer[w] \in WriterRecords /\ WriterInOrder(w)
      /\ chain \in Seq([digest : Documents, parent : Documents \cup {None}])
      /\ head \in Pointers \cup {None}
  BY WriterType
<1>2. /\ Calls[w].state = writer[w].state /\ Calls[w].expected = writer[w].expected
      /\ Calls[w].document = writer[w].document /\ Calls[w].base = writer[w].base
  BY DEF Calls
<1>3. /\ head = None => Abstract!HeadOf(chain) = None
      /\ head # None => Abstract!HeadOf(chain) = head.digest
  BY DEF WInv, HeadIsLast, Abstract!HeadOf
<1>4. CASE ReadHead(w)
  <2>1. CASE writer[w].expected = IF head = None THEN None ELSE head.digest
    <3> DEFINE s == [writer[w] EXCEPT !.pc = "put", !.seen = head]
    <3>1. writer' = [writer EXCEPT ![w] = s]
      BY <1>4, <2>1 DEF ReadHead
    <3>2. /\ s.state = writer[w].state /\ s.expected = writer[w].expected
          /\ s.document = writer[w].document /\ s.base = writer[w].base
      BY <1>1 DEF WriterRecords
    <3> HIDE DEF s
    <3>3. Calls' = Calls
      BY <3>1, <3>2, CallsOfStep DEF Calls
    <3> QED
      BY <1>4, <3>3 DEF ReadHead
  <2>2. CASE ~ (writer[w].expected = IF head = None THEN None ELSE head.digest)
    <3>1. Answer(w, "refused") /\ chain' = chain
      BY <1>4, <2>2 DEF ReadHead
    <3>2. Calls' = [Calls EXCEPT ![w] = Abstract!Answered("refused")]
      BY <3>1, CallsOfAnswer
    <3>3. writer[w].state = "asked"
      BY <1>1, <1>4 DEF ReadHead, WriterInOrder
    <3> QED
      BY <1>2, <1>3, <2>2, <3>1, <3>2, <3>3 DEF Abstract!Refuse
  <2> QED
    BY <2>1, <2>2
<1>5. CASE PutRevision(w)
  <2> DEFINE s == [writer[w] EXCEPT !.pc = "advance"]
  <2>1. writer' = [writer EXCEPT ![w] = s]
    BY <1>5 DEF PutRevision
  <2>2. /\ s.state = writer[w].state /\ s.expected = writer[w].expected
        /\ s.document = writer[w].document /\ s.base = writer[w].base
    BY <1>1 DEF WriterRecords
  <2> HIDE DEF s
  <2>3. Calls' = Calls
    BY <2>1, <2>2, CallsOfStep DEF Calls
  <2> QED
    BY <1>5, <2>3 DEF PutRevision
<1>6. CASE MoveHead(w)
  <2> DEFINE s == [writer[w] EXCEPT !.pc = "moved", !.state = "landed"]
  <2>1. /\ chain' = Append(chain, [digest |-> writer[w].document, parent |-> writer[w].expected])
        /\ writer[w].state = "asked"
        /\ writer[w].expected = Abstract!HeadOf(chain)
    BY <1>6, MoveHeadAppends DEF Abstract!HeadOf
  <2>2. writer' = [writer EXCEPT ![w] = s]
    BY <1>6 DEF MoveHead
  <2>3. /\ s.state = "landed" /\ s.expected = writer[w].expected
        /\ s.document = writer[w].document /\ s.base = writer[w].base /\ s \in WriterRecords
    BY <1>1 DEF WriterRecords
  <2> HIDE DEF s
  <2>4. Calls' = [Calls EXCEPT ![w].state = "landed"]
    BY <2>2, <2>3, CallsOfState
  <2> QED
    BY <1>2, <2>1, <2>4 DEF Abstract!Land
<1>7. CASE Confirm(w)
  <2>1. Calls' = [Calls EXCEPT ![w] = Abstract!Answered("appended")] /\ chain' = chain
    BY <1>7, CallsOfAnswer DEF Confirm
  <2>2. writer[w].state = "landed"
    BY <1>1, <1>7 DEF Confirm, WriterInOrder
  <2> QED
    BY <1>2, <2>1, <2>2 DEF Abstract!Return
<1>8. CASE Lose(w)
  <2>1. Calls' = [Calls EXCEPT ![w] = Abstract!Answered("refused")] /\ chain' = chain
    BY <1>8, CallsOfAnswer DEF Lose
  <2>2. writer[w].state = "asked" /\ SeenInChain(w)
    BY <1>1, <1>8 DEF Lose, WriterInOrder
  <2>3. SeenLength(w) # Len(chain)
    BY <1>8, MatchesIfCurrent DEF Lose
  <2>4. SeenLength(w) \in Nat
    BY <2>2 DEF SeenLength, SeenInChain, Pointers
  <2>5. Len(chain) > writer[w].base
    BY <1>1, <2>2, <2>3, <2>4 DEF SeenInChain, WriterRecords
  <2> QED
    BY <1>2, <2>1, <2>2, <2>5 DEF Abstract!Refuse
<1>9. CASE Repeat(w)
  <2>1. Calls' = [Calls EXCEPT ![w] = Abstract!Answered("refused")] /\ chain' = chain
    BY <1>9, CallsOfAnswer DEF Repeat
  <2>2. writer[w].state = "landed" /\ Repeats
    BY <1>1, <1>9 DEF Repeat, WriterInOrder
  <2> QED
    BY <1>2, <2>1, <2>2 DEF Abstract!Misreport
<1> QED
  BY <1>4, <1>5, <1>6, <1>7, <1>8, <1>9 DEF AppendStep

LEMMA NextRefines ==
    ASSUME WInv, [Next]_vars
    PROVE  [Abstract!Next]_<<chain, Calls>>
<1>1. ASSUME NEW w \in Writers, NEW expected \in Documents \cup {None}, NEW document \in Documents,
             Call(w, expected, document)
      PROVE  Abstract!Ask(w, expected, document)
  <2>1. writer[w] \in WriterRecords /\ WriterInOrder(w)
    BY WriterType
  <2>2. writer[w].state \notin {"asked", "landed"}
    BY <1>1, <2>1 DEF Call, WriterInOrder
  <2>3. writer' = [writer EXCEPT ![w] = [pc |-> "head", state |-> "asked", expected |-> expected,
                        document |-> document, seen |-> None, base |-> Len(chain)]]
    BY <1>1 DEF Call
  <2>4. Calls' = [Calls EXCEPT ![w] = [state |-> "asked", expected |-> expected,
                                       document |-> document, base |-> Len(chain)]]
    BY <2>3, CallsOfStep
  <2>5. Calls[w].state = writer[w].state /\ chain' = chain
    BY <1>1 DEF Call, Calls
  <2> QED
    BY <2>2, <2>4, <2>5 DEF Abstract!Ask
<1>2. ASSUME NEW w \in Writers, Crash(w)
      PROVE  Abstract!Fail(w)
  <2>1. writer[w] \in WriterRecords /\ WriterInOrder(w)
    BY WriterType
  <2>2. writer[w].state \in {"asked", "landed"}
    BY <1>2, <2>1 DEF Crash, WriterInOrder, WriterRecords
  <2>3. Calls' = [Calls EXCEPT ![w] = Abstract!Answered("failed")] /\ chain' = chain
    BY <1>2, CallsOfAnswer DEF Crash
  <2>4. Calls[w].state = writer[w].state
    BY DEF Calls
  <2> QED
    BY <2>2, <2>3, <2>4 DEF Abstract!Fail
<1>3. ASSUME NEW c \in Readers, ReaderStep(c)
      PROVE  UNCHANGED <<chain, Calls>>
  BY <1>3 DEF ReaderStep, ListHead, Follow, Finish, Drop, Calls
<1>4. CASE UNCHANGED vars
  BY <1>4 DEF vars, Calls
<1> QED
  BY <1>1, <1>2, <1>3, <1>4, AppendStepRefines DEF Next, ReaderStep, Abstract!Next

\* append() on an object store is the conditional append of the RevisionStore protocol: the
\* write to HEAD is the moment at which it takes effect (blob.py:81-104).
THEOREM Implements == Spec => ImplementsRevisionChain
<1>1. Init => Abstract!Init
  BY DEF Init, Abstract!Init, Calls, Answered, Abstract!Answered
<1>2. WInv /\ [Next]_vars => [Abstract!Next]_<<chain, Calls>>
  BY NextRefines
<1> QED
  BY <1>1, <1>2, Invariance, PTL DEF Spec, ImplementsRevisionChain, Abstract!Spec

-----------------------------------------------------------------------------
(* What a reader gets.                                                     *)

\* An object that a reader may hold: a revision of the chain.
Committed(o) == o \in objects /\ o.seq < Len(chain) /\ o.digest = chain[o.seq + 1].digest

\* A reader has a contiguous piece of the chain, and stops at its limit or at the end.
ReadSoFar(c) ==
    /\ reader[c].pc = "idle" => reader[c].got = <<>>
    /\ reader[c].pc # "idle" =>
          /\ reader[c].got # <<>>
          /\ Len(reader[c].got) <= Limit
          /\ reader[c].at = reader[c].got[Len(reader[c].got)]
          /\ \A i \in 1 .. Len(reader[c].got) :
                /\ Committed(reader[c].got[i])
                /\ reader[c].got[i].seq = reader[c].got[1].seq - (i - 1)
    /\ reader[c].pc = "done" => Len(reader[c].got) = Limit \/ reader[c].at.seq = 0

RInv == WInv /\ \A c \in Readers : ReadSoFar(c)

\* Objects stay and the chain grows at its end, whoever moves.
LEMMA ChainGrows ==
    ASSUME WInv, [Next]_vars
    PROVE  /\ objects \subseteq objects'
           /\ Len(chain) <= Len(chain')
           /\ \A i \in 1 .. Len(chain) : chain'[i] = chain[i]
<1>1. chain \in Seq([digest : Documents, parent : Documents \cup {None}])
  BY DEF WInv, TypeOK
<1>2. ASSUME NEW w \in Writers, MoveHead(w)
      PROVE  /\ objects \subseteq objects'
             /\ Len(chain) <= Len(chain')
             /\ \A i \in 1 .. Len(chain) : chain'[i] = chain[i]
  <2> DEFINE e == [digest |-> Built(w).digest, parent |-> Built(w).parent]
  <2>1. chain' = Append(chain, e) /\ objects' = objects
    BY <1>2 DEF MoveHead
  <2> HIDE DEF e
  <2> QED
    BY <1>1, <2>1
<1>3. ASSUME NEW w \in Writers, PutRevision(w)
      PROVE  objects \subseteq objects' /\ chain' = chain
  BY <1>3 DEF PutRevision
<1>4. ASSUME NEW w \in Writers, ReadHead(w) \/ Confirm(w) \/ Lose(w) \/ Repeat(w) \/ Crash(w)
      PROVE  objects' = objects /\ chain' = chain
  BY <1>4 DEF ReadHead, Confirm, Lose, Repeat, Crash
<1>5. ASSUME NEW w \in Writers, NEW expected \in Documents \cup {None}, NEW document \in Documents,
             Call(w, expected, document)
      PROVE  objects' = objects /\ chain' = chain
  BY <1>5 DEF Call
<1>6. ASSUME NEW c \in Readers, ReaderStep(c)
      PROVE  objects' = objects /\ chain' = chain
  BY <1>6 DEF ReaderStep, ListHead, Follow, Finish, Drop
<1>7. CASE UNCHANGED vars
  BY <1>1, <1>7 DEF vars
<1>8. CASE Next
  BY <1>1, <1>2, <1>3, <1>4, <1>5, <1>6, <1>8 DEF Next, AppendStep, ReaderStep
<1> QED
  BY <1>7, <1>8

\* A reader that does not move keeps what it has.
LEMMA OthersKeepReading ==
    ASSUME RInv, [Next]_vars, NEW c \in Readers, reader'[c] = reader[c]
    PROVE  ReadSoFar(c)'
<1>1. /\ objects \subseteq Objects /\ reader[c] \in ReaderRecords /\ ReadSoFar(c)
      /\ chain \in Seq([digest : Documents, parent : Documents \cup {None}])
  BY DEF RInv, WInv, TypeOK, ReaderRecords
<1>2. /\ objects \subseteq objects' /\ Len(chain) <= Len(chain')
      /\ \A i \in 1 .. Len(chain) : chain'[i] = chain[i]
  BY ChainGrows DEF RInv
<1>3. WInv'
  BY NextWInv DEF RInv
<1>4. ASSUME NEW o, Committed(o)
      PROVE  Committed(o)'
  <2>1. o \in Objects /\ o.seq + 1 \in 1 .. Len(chain)
    BY <1>1, <1>4 DEF Committed, Objects
  <2>2. chain' \in Seq([digest : Documents, parent : Documents \cup {None}])
    BY <1>3 DEF WInv, TypeOK
  <2>3. o.seq \in Nat /\ Len(chain) \in Nat /\ Len(chain') \in Nat
    BY <1>1, <2>1, <2>2 DEF Objects
  <2>4. o.seq < Len(chain')
    BY <1>2, <1>4, <2>3 DEF Committed
  <2> QED
    BY <1>2, <1>4, <2>1, <2>4 DEF Committed
<1>5. ASSUME reader[c].pc # "idle", NEW i \in 1 .. Len(reader[c].got)
      PROVE  Committed(reader[c].got[i])'
  <2>1. Committed(reader[c].got[i])
    BY <1>1, <1>5 DEF ReadSoFar
  <2> QED
    BY <1>2, <1>4, <2>1
<1>6. reader[c].pc # "idle" => \A i \in 1 .. Len(reader[c].got) : Committed(reader[c].got[i])'
  BY <1>5
<1> QED
  BY <1>1, <1>6 DEF ReadSoFar, Committed

\* The first revision is the one without a parent, and every parent can be read: a reader
\* stops only at its limit or at the end of the chain.
LEMMA ParentsReadable ==
    ASSUME WInv, NEW p, Committed(p)
    PROVE  /\ p \in Objects
           /\ p.parent = None <=> p.seq = 0
           /\ p.parent # None => \E o \in objects : IsParent(o, p)
           /\ \A o \in objects : IsParent(o, p) => Committed(o) /\ o.seq = p.seq - 1
<1>1. /\ objects \subseteq Objects
      /\ chain \in Seq([digest : Documents, parent : Documents \cup {None}])
  BY DEF WInv, TypeOK
<1>2. /\ p \in Objects /\ p.seq \in Nat /\ p.seq < Len(chain)
      /\ p.parent = IF p.seq = 0 THEN None ELSE chain[p.seq].digest
  BY <1>1 DEF WInv, ObjectsRooted, Committed, Objects
<1>3. p.seq # 0 => p.seq \in 1 .. Len(chain)
  BY <1>1, <1>2
<1>4. p.seq # 0 => chain[p.seq].digest \in Documents
  <2>1. ASSUME NEW i \in 1 .. Len(chain)
        PROVE  chain[i].digest \in Documents
    <3> DEFINE Revisions == [digest : Documents, parent : Documents \cup {None}]
    <3>1. chain \in Seq(Revisions)
      BY <1>1
    <3> HIDE DEF Revisions
    <3>2. chain[i] \in Revisions
      BY <3>1
    <3> QED
      BY <3>2 DEF Revisions
  <2> QED
    BY <1>3, <2>1
<1>5. p.seq # 0 => \E o \in objects : o.seq = p.seq - 1 /\ o.digest = chain[p.seq].digest
  BY <1>3 DEF WInv, Linked
<1>6. p.parent = None <=> p.seq = 0
  BY <1>2, <1>4
<1>7. p.parent # None => \E o \in objects : IsParent(o, p)
  BY <1>2, <1>5, <1>6 DEF IsParent
<1>8. ASSUME NEW o \in objects, IsParent(o, p)
      PROVE  Committed(o) /\ o.seq = p.seq - 1
  <2>1. o.seq \in Nat /\ o.seq = p.seq - 1 /\ o.digest = p.parent
    BY <1>1, <1>8 DEF Objects, IsParent
  <2>2. p.seq # 0
    BY <1>2, <2>1
  <2>3. o.digest = chain[o.seq + 1].digest /\ o.seq < Len(chain)
    BY <1>1, <1>2, <2>1, <2>2
  <2> QED
    BY <2>1, <2>3 DEF Committed
<1> QED
  BY <1>2, <1>6, <1>7, <1>8

LEMMA ReaderGoesOn ==
    ASSUME RInv, NEW c \in Readers, ReaderStep(c)
    PROVE  ReadSoFar(c)'
<1> DEFINE got == reader[c].got
<1>1. /\ objects \subseteq Objects /\ reader[c] \in ReaderRecords /\ ReadSoFar(c) /\ WInv
      /\ chain \in Seq([digest : Documents, parent : Documents \cup {None}])
      /\ reader \in [Readers -> ReaderRecords]
  BY DEF RInv, WInv, TypeOK, ReaderRecords
<1>2. CASE ListHead(c)
  <2>1. PICK o \in objects :
          /\ SameKey(o, head)
          /\ reader' = [reader EXCEPT ![c] = [pc |-> "follow", at |-> o, got |-> <<o>>]]
    BY <1>2 DEF ListHead
  <2>2. reader'[c] = [pc |-> "follow", at |-> o, got |-> <<o>>]
    BY <1>1, <2>1
  <2>3. UNCHANGED <<objects, chain>> /\ head # None /\ head \in Pointers
    BY <1>2 DEF ListHead, WInv, RInv, TypeOK
  <2>4. o.seq + 1 = Len(chain) /\ o.digest = chain[o.seq + 1].digest
    BY <1>1, <2>1, <2>3 DEF WInv, HeadIsLast, SameKey
  <2>5. o.seq \in Nat /\ Len(chain) \in Nat
    BY <1>1, <2>1 DEF Objects
  <2>6. Committed(o)
    BY <2>4, <2>5 DEF Committed
  <2> QED
    BY <2>2, <2>3, <2>5, <2>6 DEF ReadSoFar, Committed
<1>3. CASE Follow(c)
  <2>1. PICK o \in objects :
          /\ IsParent(o, reader[c].at)
          /\ reader' = [reader EXCEPT ![c].at = o, ![c].got = Append(@, o)]
    BY <1>3 DEF Follow
  <2>2. /\ reader'[c].pc = "follow" /\ reader'[c].at = o /\ reader'[c].got = Append(got, o)
    BY <1>1, <1>3, <2>1 DEF Follow, ReaderRecords
  <2>3. UNCHANGED <<objects, chain>> /\ Len(got) < Limit /\ reader[c].pc = "follow"
    BY <1>3 DEF Follow
  <2>4. /\ got # <<>> /\ reader[c].at = got[Len(got)] /\ got \in Seq(Objects)
        /\ \A i \in 1 .. Len(got) : Committed(got[i]) /\ got[i].seq = got[1].seq - (i - 1)
    BY <1>1, <2>3 DEF ReadSoFar, ReaderRecords
  <2> DEFINE n == Len(got)
  <2>5. n \in Nat /\ n >= 1 /\ n < Limit
    BY <2>3, <2>4
  <2>6. Committed(o) /\ o.seq = got[n].seq - 1 /\ got[n].seq = got[1].seq - (n - 1)
    <3>1. Committed(got[n]) /\ got[n].seq = got[1].seq - (n - 1)
      BY <2>4, <2>5
    <3> QED
      BY <1>1, <2>1, <2>4, <3>1, ParentsReadable
  <2>7. got[1].seq \in Nat
    <3>1. Committed(got[1])
      BY <2>4, <2>5
    <3> QED
      BY <1>1, <3>1 DEF Committed, Objects
  <2> DEFINE g == Append(got, o)
  <2>8. Len(g) = n + 1 /\ g[n + 1] = o /\ \A i \in 1 .. n : g[i] = got[i]
    BY <1>1, <2>1, <2>4
  <2> HIDE DEF got, g, n
  <2>9. ASSUME NEW i \in 1 .. n + 1
        PROVE  Committed(g[i]) /\ g[i].seq = g[1].seq - (i - 1)
    <3>1. g[1] = got[1]
      BY <2>5, <2>8
    <3>2. CASE i = n + 1
      BY <2>5, <2>6, <2>7, <2>8, <3>1, <3>2
    <3>3. CASE i \in 1 .. n
      BY <2>4, <2>8, <3>1, <3>3 DEF n
    <3> QED
      BY <2>5, <3>2, <3>3
  <2>10. g # <<>> /\ Len(g) <= Limit /\ o = g[Len(g)]
    BY <2>5, <2>8
  <2> QED
    BY <2>2, <2>3, <2>8, <2>9, <2>10 DEF ReadSoFar, Committed, g
<1>4. CASE Finish(c)
  <2>1. /\ reader'[c].pc = "done" /\ reader'[c].at = reader[c].at /\ reader'[c].got = got
        /\ reader[c].pc = "follow" /\ EndOfList(c) /\ UNCHANGED <<objects, chain>>
    BY <1>1, <1>4 DEF Finish, ReaderRecords
  <2>2. got # <<>> /\ got \in Seq(Objects) /\ reader[c].at = got[Len(got)]
    BY <1>1, <2>1 DEF ReadSoFar, ReaderRecords
  <2>3. Len(got) \in 1 .. Len(got)
    BY <2>2
  <2>4. Committed(reader[c].at)
    BY <1>1, <2>1, <2>2, <2>3 DEF ReadSoFar
  <2>5. Len(got) = Limit \/ reader[c].at.seq = 0
    BY <1>1, <2>1, <2>4, ParentsReadable DEF EndOfList
  <2> QED
    BY <1>1, <2>1, <2>5 DEF ReadSoFar, Committed
<1>5. CASE Drop(c)
  <2>1. reader'[c] = NotReading
    BY <1>1, <1>5 DEF Drop
  <2> QED
    BY <2>1 DEF ReadSoFar, NotReading
<1> QED
  BY <1>2, <1>3, <1>4, <1>5 DEF ReaderStep

LEMMA NextRInv == RInv /\ [Next]_vars => RInv'
<1> SUFFICES ASSUME RInv, [Next]_vars PROVE RInv'
  OBVIOUS
<1>1. WInv'
  BY NextWInv DEF RInv
<1>2. ASSUME NEW c \in Readers
      PROVE  ReadSoFar(c)'
  <2>1. CASE reader'[c] = reader[c]
    BY <2>1, OthersKeepReading
  <2>2. CASE ReaderStep(c)
    BY <2>2, ReaderGoesOn
  <2>3. ASSUME NEW b \in Readers, b # c, ReaderStep(b)
        PROVE  reader'[c] = reader[c]
    <3>1. PICK r \in ReaderRecords : reader' = [reader EXCEPT ![b] = r]
      BY <2>3, ReaderType DEF RInv
    <3> QED
      BY <2>3, <3>1 DEF RInv, WInv, TypeOK
  <2>4. ASSUME NEW w \in Writers, AppendStep(w) \/ Crash(w)
        PROVE  reader' = reader
    BY <2>4 DEF AppendStep, ReadHead, PutRevision, MoveHead, Confirm, Lose, Repeat, Crash
  <2>5. ASSUME NEW w \in Writers, NEW expected \in Documents \cup {None}, NEW document \in Documents,
               Call(w, expected, document)
        PROVE  reader' = reader
    BY <2>5 DEF Call
  <2> QED
    BY <2>1, <2>2, <2>3, <2>4, <2>5 DEF Next, ReaderStep, vars
<1> QED
  BY <1>1, <1>2 DEF RInv

\* What a reader has says what ReaderSeesChain says.
LEMMA ReadFollows == RInv => ReaderSeesChain
<1> SUFFICES ASSUME RInv, NEW c \in Readers, reader[c].got # <<>>
             PROVE  /\ \A i \in 1 .. Len(reader[c].got) :
                          /\ reader[c].got[i].seq = reader[c].got[1].seq - (i - 1)
                          /\ reader[c].got[i].seq < Len(chain)
                          /\ reader[c].got[i].digest = chain[reader[c].got[i].seq + 1].digest
                    /\ reader[c].pc = "done" =>
                          Len(reader[c].got) = IF Limit <= reader[c].got[1].seq THEN Limit
                                               ELSE reader[c].got[1].seq + 1
  BY DEF ReaderSeesChain
<1> DEFINE got == reader[c].got
<1>1. /\ reader[c] \in ReaderRecords /\ ReadSoFar(c)
  BY DEF RInv, WInv, TypeOK, ReaderRecords
<1>2. /\ got \in Seq(Objects) /\ got # <<>> /\ Len(got) <= Limit /\ reader[c].at = got[Len(got)]
      /\ \A i \in 1 .. Len(got) : Committed(got[i]) /\ got[i].seq = got[1].seq - (i - 1)
      /\ reader[c].pc = "done" => Len(got) = Limit \/ reader[c].at.seq = 0
  BY <1>1 DEF ReadSoFar, ReaderRecords
<1> HIDE DEF got
<1>3. Len(got) \in Nat /\ Len(got) >= 1 /\ got[1].seq \in Nat /\ got[Len(got)].seq \in Nat
  <2>1. Len(got) \in Nat /\ Len(got) >= 1
    BY <1>2
  <2>2. Committed(got[1]) /\ Committed(got[Len(got)]) /\ objects \subseteq Objects
    BY <1>2, <2>1 DEF RInv, WInv, TypeOK
  <2> QED
    BY <2>1, <2>2 DEF Committed, Objects
<1>4. got[Len(got)].seq = got[1].seq - (Len(got) - 1)
  BY <1>2, <1>3
<1>5. reader[c].pc = "done" => Len(got) = IF Limit <= got[1].seq THEN Limit ELSE got[1].seq + 1
  <2> SUFFICES ASSUME reader[c].pc = "done"
               PROVE  Len(got) = IF Limit <= got[1].seq THEN Limit ELSE got[1].seq + 1
    OBVIOUS
  <2> DEFINE n == Len(got)
  <2> DEFINE first == got[1].seq
  <2> DEFINE last == got[Len(got)].seq
  <2>1. n = Limit \/ last = 0
    BY <1>2
  <2>2. n \in Nat /\ first \in Nat /\ last \in Nat /\ last = first - (n - 1) /\ n <= Limit
    BY <1>2, <1>3, <1>4
  <2> HIDE DEF n, first, last
  <2>3. n = IF Limit <= first THEN Limit ELSE first + 1
    BY <2>1, <2>2
  <2> QED
    BY <2>3 DEF n, first
<1> QED
  BY <1>2, <1>5 DEF Committed, got

\* A reader gets a contiguous piece of the committed chain, complete up to its limit, while
\* any number of writers append (blob.py:116-126).
THEOREM ReadersSeeCommitted == Spec => []ReaderSeesChain
<1>1. Init => RInv
  BY InitWInv DEF Init, RInv, ReadSoFar, NotReading
<1>2. RInv /\ [Next]_vars => RInv'
  BY NextRInv
<1>3. RInv => ReaderSeesChain
  BY ReadFollows
<1> QED
  BY <1>1, <1>2, <1>3, PTL DEF Spec

=============================================================================

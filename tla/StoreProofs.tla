----------------------------- MODULE StoreProofs -----------------------------
(***************************************************************************)
(* The stores on a file system and in Postgres, and the layer above them:  *)
(* that each keeps one chain, what its readers and refused callers may     *)
(* rely on, and that the first two implement RevisionChain.                *)
(***************************************************************************)
EXTENDS MCStores, TLAPS

USE ConstantsAssumption

\* A revision of the chain that FileStore and PostgresStore keep.
Revisions == [digest : Documents, parent : Documents \cup {None}]

-----------------------------------------------------------------------------
(* FileStore.                                                              *)

FileWriters ==
    [pc : {"idle", "lock", "head", "open", "write", "replace", "unlock"},
     state : States, expected : Documents \cup {None}, document : Documents \cup {None},
     seq : Nat, base : Nat]

FileReaders ==
    [pc : {"idle", "file", "done", "broken"},
     at : [seq : Int, digest : Documents \cup {None}] \cup {None}, got : Seq(File!Names)]

\* HEAD names the end of the chain.
HeadIsLast ==
    /\ head = None <=> chain = <<>>
    /\ head # None => /\ head.seq = Len(chain) - 1
                      /\ head.digest = chain[Len(chain)].digest

\* A directory holds a name once.
NamesDiffer == \A f, g \in files : File!SameName(f, g) => f = g

\* A call that has compared the head holds the lock, so the head is still that one.
FileWriterInOrder(w) ==
    /\ writer[w].pc \in {"lock", "head", "open", "write", "replace"} <=> writer[w].state = "asked"
    /\ writer[w].pc = "unlock" <=> writer[w].state = "landed"
    /\ writer[w].pc # "idle" => writer[w].document \in Documents
    /\ writer[w].base <= Len(chain)
    /\ writer[w].pc \in {"open", "write", "replace"} =>
          writer[w].expected = File!HeadDigest /\ writer[w].seq = Len(chain)
    /\ writer[w].pc = "replace" => File!Built(w, TRUE) \in files

\* Revisions of the chain, downwards.
Piece(got) ==
    \A i \in 1 .. Len(got) : /\ got[i].seq = got[1].seq - (i - 1)
                             /\ got[i].seq < Len(chain)
                             /\ got[i].digest = chain[got[i].seq + 1].digest

\* What list() reads next is the revision below those it has.
ReaderInOrder(c) ==
    /\ reader[c].pc # "broken"
    /\ Piece(reader[c].got)
    /\ reader[c].pc = "idle" => reader[c].got = <<>>
    /\ reader[c].pc = "file" =>
          /\ reader[c].at \in File!Names /\ reader[c].at.seq < Len(chain)
          /\ reader[c].at.digest = chain[reader[c].at.seq + 1].digest
          /\ reader[c].got # <<>> =>
                reader[c].got[1].seq = reader[c].at.seq + Len(reader[c].got)
          /\ Len(reader[c].got) < Limit
    /\ reader[c].pc = "done" =>
          /\ reader[c].got # <<>>
          /\ Len(reader[c].got) =
                IF Limit <= reader[c].got[1].seq THEN Limit ELSE reader[c].got[1].seq + 1

\* The inductive invariant of FileStore.
FileInv ==
    /\ File!TypeOK
    /\ reader \in [Readers -> FileReaders]
    /\ chain \in Seq(Revisions)
    /\ HeadIsLast
    /\ File!CommittedIsWhole
    /\ NamesDiffer
    /\ \A w \in Writers : FileWriterInOrder(w)
    /\ \A c \in Readers : ReaderInOrder(c)

LEMMA InitFileInv == File!Init => FileInv
<1> SUFFICES ASSUME File!Init PROVE FileInv
  OBVIOUS
<1>1. files = {} /\ head = None /\ lock = None /\ chain = <<>>
  BY DEF File!Init
<1>2. writer \in [Writers -> FileWriters]
  BY DEF File!Init, File!Answered, FileWriters, States
<1>3. \A w \in Writers : /\ writer[w].pc = "idle" /\ writer[w].state = "idle"
                         /\ writer[w].base = 0 /\ lock # w
  BY DEF File!Init, File!Answered
<1>4. reader \in [Readers -> FileReaders]
  BY DEF File!Init, File!NotReading, FileReaders
<1>5. \A c \in Readers : reader[c].pc = "idle" /\ reader[c].got = <<>>
  BY DEF File!Init, File!NotReading
<1>6. File!TypeOK
  BY <1>1, <1>2, <1>3, <1>4, <1>5 DEF File!TypeOK, FileWriters, FileReaders, File!States, States
<1>7. ASSUME NEW w \in Writers
      PROVE  FileWriterInOrder(w)
  <2>1. writer[w].pc = "idle" /\ writer[w].state = "idle" /\ writer[w].base <= Len(chain)
    BY <1>1, <1>3
  <2> QED
    BY <2>1 DEF FileWriterInOrder
<1>8. \A c \in Readers : ReaderInOrder(c)
  BY <1>5 DEF ReaderInOrder, Piece
<1> QED
  BY <1>1, <1>4, <1>6, <1>7, <1>8
     DEF FileInv, HeadIsLast, File!CommittedIsWhole, NamesDiffer

\* What a writer on its way has, in one place.
LEMMA FileTypes ==
    ASSUME FileInv
    PROVE  /\ writer \in [Writers -> FileWriters]
           /\ files \subseteq File!Files
           /\ head \in File!Names \cup {None}
           /\ lock \in Writers \cup {None}
           /\ chain \in Seq(Revisions)
           /\ \A w \in Writers : lock = w <=> writer[w].pc \notin {"idle", "lock"}
  BY DEF FileInv, File!TypeOK, FileWriters, File!States, States

\* The chain, the head and the files seen from a step that leaves them alone.
LEMMA FileWriterMoves ==
    ASSUME FileInv, NEW w \in Writers, NEW s \in FileWriters,
           writer' = [writer EXCEPT ![w] = s], UNCHANGED <<files, head, reader, chain>>,
           \/ lock' = lock /\ (s.pc \in {"idle", "lock"} <=> writer[w].pc \in {"idle", "lock"})
           \/ lock = None /\ lock' = w /\ s.pc \notin {"idle", "lock"}
           \/ lock' = (IF lock = w THEN None ELSE lock) /\ s.pc \in {"idle", "lock"},
           FileWriterInOrder(w)'
    PROVE  FileInv'
<1>1. writer' \in [Writers -> FileWriters] /\ writer'[w] = s
      /\ \A v \in Writers : v # w => writer'[v] = writer[v]
  BY FileTypes
<1>2. \A v \in Writers : (lock' = v) <=> writer'[v].pc \notin {"idle", "lock"}
  <2> SUFFICES ASSUME NEW v \in Writers
               PROVE  (lock' = v) <=> writer'[v].pc \notin {"idle", "lock"}
    OBVIOUS
  <2>1. (lock = v <=> writer[v].pc \notin {"idle", "lock"})
        /\ (lock = w <=> writer[w].pc \notin {"idle", "lock"})
    BY FileTypes
  <2> QED
    BY <1>1, <2>1
<1>3. lock' \in Writers \cup {None}
  BY FileTypes
<1>4. File!TypeOK'
  BY <1>1, <1>2, <1>3 DEF FileInv, File!TypeOK, FileWriters, File!States, States
<1>5. HeadIsLast' /\ File!CommittedIsWhole' /\ NamesDiffer'
  BY DEF FileInv, HeadIsLast, File!CommittedIsWhole, NamesDiffer
<1>6. \A v \in Writers : FileWriterInOrder(v)'
  BY <1>1 DEF FileInv, FileWriterInOrder, File!HeadDigest, File!Built
<1>7. \A c \in Readers : ReaderInOrder(c)'
  BY DEF FileInv, ReaderInOrder, Piece
<1> QED
  BY <1>4, <1>5, <1>6, <1>7 DEF FileInv

LEMMA FileAnswerKeeps ==
    ASSUME FileInv, NEW w \in Writers, NEW a \in {"appended", "refused", "failed"},
           File!Answer(w, a)
    PROVE  FileInv'
<1> DEFINE s == File!Answered(a)
<1>1. s \in FileWriters /\ s.pc = "idle" /\ s.state = a /\ s.base = 0
  BY DEF File!Answered, FileWriters, States
<1>2. writer' = [writer EXCEPT ![w] = s] /\ UNCHANGED <<files, head, reader, chain>>
      /\ lock' = (IF lock = w THEN None ELSE lock)
  BY DEF File!Answer
<1> HIDE DEF s
<1>3. writer'[w] = s
  BY <1>2, FileTypes
<1>4. 0 <= Len(chain)
  BY FileTypes
<1>5. FileWriterInOrder(w)'
  BY <1>1, <1>2, <1>3, <1>4 DEF FileWriterInOrder
<1> QED
  BY <1>1, <1>2, <1>5, FileWriterMoves

LEMMA FileCallKeeps ==
    ASSUME FileInv, NEW w \in Writers, NEW expected \in Documents \cup {None},
           NEW document \in Documents, File!Call(w, expected, document)
    PROVE  FileInv'
<1> DEFINE s == [pc |-> "lock", state |-> "asked", expected |-> expected,
                 document |-> document, seq |-> 0, base |-> Len(chain)]
<1>1. s \in FileWriters
  BY FileTypes DEF FileWriters, States
<1>2. s.pc = "lock" /\ s.state = "asked" /\ s.document = document /\ s.base = Len(chain)
  OBVIOUS
<1>3. writer' = [writer EXCEPT ![w] = s] /\ UNCHANGED <<files, head, lock, reader, chain>>
      /\ writer[w].pc = "idle"
  BY DEF File!Call
<1> HIDE DEF s
<1>4. writer'[w] = s /\ Len(chain) <= Len(chain')
  BY <1>3, FileTypes
<1>5. FileWriterInOrder(w)'
  BY <1>2, <1>3, <1>4 DEF FileWriterInOrder
<1> QED
  BY <1>1, <1>2, <1>3, <1>5, FileWriterMoves

LEMMA FileTakeLockKeeps ==
    ASSUME FileInv, NEW w \in Writers, File!TakeLock(w)
    PROVE  FileInv'
<1> DEFINE s == [writer[w] EXCEPT !.pc = "head"]
<1>1. writer[w] \in FileWriters /\ FileWriterInOrder(w)
  BY FileTypes DEF FileInv
<1>2. s \in FileWriters /\ s.pc = "head" /\ s.state = writer[w].state
      /\ s.document = writer[w].document /\ s.base = writer[w].base
  BY <1>1 DEF FileWriters
<1>3. writer' = [writer EXCEPT ![w] = s] /\ UNCHANGED <<files, head, reader, chain>>
      /\ lock = None /\ lock' = w /\ writer[w].pc = "lock"
  BY DEF File!TakeLock
<1> HIDE DEF s
<1>4. writer'[w] = s
  BY <1>3, FileTypes
<1>5. FileWriterInOrder(w)'
  BY <1>1, <1>2, <1>3, <1>4 DEF FileWriterInOrder
<1> QED
  BY <1>2, <1>3, <1>5, FileWriterMoves

\* The head a call goes on with is the end of the chain.
LEMMA HeadSeq ==
    ASSUME FileInv
    PROVE  File!NextSeq = Len(chain) /\ (File!HeadDigest = IF chain = <<>> THEN None ELSE chain[Len(chain)].digest)
<1>1. head # None => head \in File!Names
  BY FileTypes
<1>2. Len(chain) \in Nat /\ (chain = <<>> => Len(chain) = 0)
  BY FileTypes
<1> QED
  BY <1>1, <1>2 DEF FileInv, HeadIsLast, File!NextSeq, File!HeadDigest, File!Names

LEMMA FileReadHeadKeeps ==
    ASSUME FileInv, NEW w \in Writers, File!ReadHead(w)
    PROVE  FileInv'
<1>1. CASE writer[w].expected = File!HeadDigest
  <2> DEFINE s == [writer[w] EXCEPT !.pc = "open", !.seq = File!NextSeq]
  <2>1. writer[w] \in FileWriters /\ FileWriterInOrder(w)
    BY FileTypes DEF FileInv
  <2>2. File!NextSeq = Len(chain) /\ Len(chain) \in Nat
    BY HeadSeq, FileTypes
  <2>3. s \in FileWriters /\ s.pc = "open" /\ s.seq = File!NextSeq /\ s.state = writer[w].state
        /\ s.document = writer[w].document /\ s.base = writer[w].base /\ s.expected = writer[w].expected
    BY <2>1, <2>2 DEF FileWriters
  <2>4. writer' = [writer EXCEPT ![w] = s] /\ UNCHANGED <<files, head, lock, reader, chain>>
        /\ writer[w].pc = "head"
    BY <1>1 DEF File!ReadHead
  <2> HIDE DEF s
  <2>5. writer'[w] = s
    BY <2>4, FileTypes
  <2>6. FileWriterInOrder(w)'
    BY <1>1, <2>1, <2>2, <2>3, <2>4, <2>5 DEF FileWriterInOrder, File!HeadDigest
  <2> QED
    BY <2>3, <2>4, <2>6, FileWriterMoves
<1>2. CASE writer[w].expected # File!HeadDigest
  <2>1. File!Answer(w, "refused")
    BY <1>2 DEF File!ReadHead
  <2> QED
    BY <2>1, FileAnswerKeeps
<1> QED
  BY <1>1, <1>2

\* What the holder of the lock writes stands beside the files the chain leads to.
LEMMA FileWrittenKeeps ==
    ASSUME FileInv, NEW w \in Writers, NEW whole \in BOOLEAN, NEW pc \in {"write", "replace"},
           writer[w].pc \in {"open", "write"}, pc = "replace" => whole = TRUE,
           files' = File!Written(w, whole), writer' = [writer EXCEPT ![w].pc = pc],
           UNCHANGED <<head, lock, reader, chain>>
    PROVE  FileInv'
<1> DEFINE b == File!Built(w, whole)
<1> DEFINE s == [writer[w] EXCEPT !.pc = pc]
<1>1. writer[w] \in FileWriters /\ FileWriterInOrder(w)
  BY FileTypes DEF FileInv
<1>2. writer[w].seq = Len(chain) /\ writer[w].expected = File!HeadDigest
      /\ writer[w].document \in Documents /\ writer[w].state = "asked"
  BY <1>1 DEF FileWriterInOrder
<1>3. /\ s \in FileWriters /\ s.pc = pc /\ s.state = writer[w].state /\ s.seq = writer[w].seq
      /\ s.document = writer[w].document /\ s.base = writer[w].base
      /\ s.expected = writer[w].expected
  BY <1>1 DEF FileWriters
<1>4. writer' = [writer EXCEPT ![w] = s]
  BY FileTypes
<1> HIDE DEF s
<1>5. writer' \in [Writers -> FileWriters] /\ writer'[w] = s
      /\ \A v \in Writers : v # w => writer'[v] = writer[v]
  BY <1>3, <1>4, FileTypes
<1>6. b \in File!Files /\ b.seq = Len(chain) /\ b.digest = writer[w].document
      /\ (whole = TRUE => b = File!Built(w, TRUE))
  BY <1>1, <1>2 DEF File!Built, File!Files, FileWriters
<1>7. files' = {f \in files : ~ File!SameName(f, b)} \cup {b}
  BY DEF File!Written
<1>8. File!Built(w, TRUE)' = File!Built(w, TRUE)
  BY <1>3, <1>5 DEF File!Built
<1> HIDE DEF b
<1>9. files' \subseteq File!Files
  BY <1>6, <1>7, FileTypes
<1>10. \A v \in Writers : (lock' = v) <=> writer'[v].pc \notin {"idle", "lock"}
  <2>1. lock = w
    BY FileTypes
  <2> QED
    BY <1>3, <1>5, <2>1, FileTypes
<1>11. File!TypeOK'
  BY <1>5, <1>9, <1>10 DEF FileInv, File!TypeOK, FileWriters, File!States, States
<1>12. HeadIsLast'
  BY DEF FileInv, HeadIsLast
<1>13. NamesDiffer'
  BY <1>7 DEF FileInv, NamesDiffer, File!SameName
<1>14. File!CommittedIsWhole'
  <2> SUFFICES ASSUME NEW i \in 1 .. Len(chain),
                      NEW f \in files, f = [seq |-> i - 1, digest |-> chain[i].digest,
                                            parent |-> chain[i].parent, whole |-> TRUE]
               PROVE  f \in files'
    BY DEF FileInv, File!CommittedIsWhole
  <2>1. f.seq # b.seq
    BY <1>6, FileTypes
  <2> QED
    BY <1>7, <2>1 DEF File!SameName
<1>15. ASSUME NEW v \in Writers
       PROVE  FileWriterInOrder(v)'
  <2>1. CASE v = w
    <3>1. s.pc = "replace" => File!Built(w, TRUE) \in files'
      BY <1>3, <1>6, <1>7
    <3> QED
      BY <1>1, <1>2, <1>3, <1>5, <1>8, <2>1, <3>1 DEF FileWriterInOrder, File!HeadDigest
  <2>2. CASE v # w
    <3>1. writer[v].pc \in {"idle", "lock"}
      BY <2>2, FileTypes
    <3>2. writer'[v] = writer[v] /\ FileWriterInOrder(v)
      BY <1>5, <2>2 DEF FileInv
    <3> QED
      BY <3>1, <3>2 DEF FileWriterInOrder
  <2> QED
    BY <2>1, <2>2
<1>16. \A c \in Readers : ReaderInOrder(c)'
  BY DEF FileInv, ReaderInOrder, Piece
<1> QED
  BY <1>11, <1>12, <1>13, <1>14, <1>15, <1>16 DEF FileInv

\* A chain that grows by one revision keeps the others.
LEMMA ChainGrows ==
    ASSUME NEW c \in Seq(Revisions), NEW v \in Revisions
    PROVE  /\ Append(c, v) \in Seq(Revisions) /\ Append(c, v) # <<>>
           /\ Len(Append(c, v)) = Len(c) + 1 /\ Len(c) \in Nat
           /\ Append(c, v)[Len(c) + 1] = v
           /\ \A i \in 1 .. Len(c) : Append(c, v)[i] = c[i]
  OBVIOUS

\* A reader holds what stays in the chain.
LEMMA ReaderKept ==
    ASSUME FileInv, NEW c \in Readers, reader' = reader, chain' \in Seq(Revisions),
           Len(chain) <= Len(chain'), \A i \in 1 .. Len(chain) : chain'[i] = chain[i]
    PROVE  ReaderInOrder(c)'
<1>1. reader[c] \in FileReaders /\ ReaderInOrder(c) /\ chain \in Seq(Revisions)
  BY DEF FileInv
<1>2. \A i \in 1 .. Len(reader[c].got) : reader[c].got[i] \in File!Names
  BY <1>1 DEF FileReaders
<1>3. Piece(reader[c].got)'
  <2> DEFINE got == reader[c].got
  <2> SUFFICES ASSUME NEW i \in 1 .. Len(got)
               PROVE  /\ got[i].seq = got[1].seq - (i - 1)
                      /\ got[i].seq < Len(chain')
                      /\ got[i].digest = chain'[got[i].seq + 1].digest
    BY DEF Piece
  <2>1. /\ got[i].seq = got[1].seq - (i - 1) /\ got[i].seq < Len(chain)
        /\ got[i].digest = chain[got[i].seq + 1].digest
    BY <1>1 DEF ReaderInOrder, Piece
  <2>2. got[i].seq \in Nat
    BY <1>2 DEF File!Names
  <2>3. got[i].seq + 1 \in 1 .. Len(chain) /\ got[i].seq < Len(chain')
    BY <1>1, <2>1, <2>2
  <2> QED
    BY <2>1, <2>3
<1>4. ASSUME reader[c].pc = "file"
      PROVE  /\ reader[c].at.seq < Len(chain')
             /\ reader[c].at.digest = chain'[reader[c].at.seq + 1].digest
  <2>1. reader[c].at \in File!Names /\ reader[c].at.seq < Len(chain)
        /\ reader[c].at.digest = chain[reader[c].at.seq + 1].digest
    BY <1>1, <1>4 DEF ReaderInOrder
  <2>2. reader[c].at.seq + 1 \in 1 .. Len(chain) /\ Len(chain) \in Nat /\ Len(chain') \in Nat
    BY <1>1, <2>1 DEF File!Names
  <2> QED
    BY <2>1, <2>2 DEF File!Names
<1> QED
  BY <1>1, <1>3, <1>4 DEF ReaderInOrder

\* HEAD is moved onto a file that is whole.
LEMMA FileReplaceKeeps ==
    ASSUME FileInv, NEW w \in Writers, File!Replace(w)
    PROVE  FileInv'
<1> DEFINE s == [writer[w] EXCEPT !.pc = "unlock", !.state = "landed"]
<1> DEFINE v == [digest |-> writer[w].document, parent |-> writer[w].expected]
<1>1. writer[w] \in FileWriters /\ FileWriterInOrder(w) /\ chain \in Seq(Revisions)
      /\ writer[w].pc = "replace"
  BY FileTypes DEF FileInv, File!Replace
<1>2. /\ writer[w].seq = Len(chain) /\ writer[w].expected = File!HeadDigest
      /\ writer[w].document \in Documents /\ writer[w].state = "asked"
      /\ writer[w].base <= Len(chain) /\ File!Built(w, TRUE) \in files
  BY <1>1 DEF FileWriterInOrder
<1>3. /\ s \in FileWriters /\ s.pc = "unlock" /\ s.state = "landed"
      /\ s.document = writer[w].document /\ s.base = writer[w].base
  BY <1>1 DEF FileWriters, States
<1>4. /\ writer' = [writer EXCEPT ![w] = s] /\ UNCHANGED <<files, lock, reader>>
      /\ head' = [seq |-> writer[w].seq, digest |-> writer[w].document]
      /\ chain' = Append(chain, v)
  BY FileTypes DEF File!Replace
<1> HIDE DEF s
<1>5. v \in Revisions /\ v.digest = writer[w].document /\ v.parent = writer[w].expected
  BY <1>1, <1>2 DEF FileWriters, Revisions
<1> HIDE DEF v
<1>6. /\ chain' \in Seq(Revisions) /\ chain' # <<>> /\ Len(chain') = Len(chain) + 1
      /\ Len(chain) \in Nat /\ chain'[Len(chain) + 1] = v
      /\ \A i \in 1 .. Len(chain) : chain'[i] = chain[i]
  BY <1>1, <1>4, <1>5, ChainGrows
<1>7. writer' \in [Writers -> FileWriters] /\ writer'[w] = s
      /\ \A u \in Writers : u # w => writer'[u] = writer[u]
  BY <1>3, <1>4, FileTypes
<1>8. lock = w /\ lock' = w
  BY <1>1, <1>4, FileTypes
<1>9. File!TypeOK'
  <2>1. \A u \in Writers : (lock' = u) <=> writer'[u].pc \notin {"idle", "lock"}
    BY <1>3, <1>7, <1>8, FileTypes
  <2>2. head' \in File!Names
    BY <1>1, <1>2, <1>4 DEF File!Names, FileWriters
  <2> QED
    BY <1>4, <1>7, <2>1, <2>2 DEF FileInv, File!TypeOK, FileWriters, File!States, States
<1>10. HeadIsLast'
  <2>1. head' # None
    <3>1. head'.seq = Len(chain) /\ head'.digest = v.digest
      BY <1>2, <1>4, <1>5
    <3>2. head' \in File!Names
      BY <1>1, <1>2, <1>4 DEF File!Names, FileWriters
    <3> QED
      BY <3>2, MarkerAssumption DEF Names, File!Names
  <2> QED
    BY <1>2, <1>4, <1>5, <1>6, <2>1 DEF HeadIsLast
<1>11. File!CommittedIsWhole'
  <2>1. ASSUME NEW i \in 1 .. Len(chain')
        PROVE  /\ chain'[i].parent = IF i = 1 THEN None ELSE chain'[i - 1].digest
               /\ \E f \in files' : f = [seq |-> i - 1, digest |-> chain'[i].digest,
                                         parent |-> chain'[i].parent, whole |-> TRUE]
    <3>1. CASE i = Len(chain) + 1
      <4>1. v.parent = IF chain = <<>> THEN None ELSE chain[Len(chain)].digest
        BY <1>2, <1>5, HeadSeq
      <4>2. chain = <<>> <=> Len(chain) = 0
        BY <1>1
      <4>3. File!Built(w, TRUE) = [seq |-> Len(chain), digest |-> v.digest, parent |-> v.parent,
                                   whole |-> TRUE]
        BY <1>2, <1>5 DEF File!Built
      <4>4. chain'[i] = v /\ i - 1 = Len(chain)
        BY <1>6, <3>1
      <4>5. i # 1 => chain'[i - 1] = chain[Len(chain)]
        BY <1>6, <3>1
      <4>6. v.parent = IF i = 1 THEN None ELSE chain'[i - 1].digest
        BY <1>6, <3>1, <4>1, <4>2, <4>5
      <4>7. File!Built(w, TRUE) \in files' /\ File!Built(w, TRUE) = [seq |-> i - 1,
                digest |-> chain'[i].digest, parent |-> chain'[i].parent, whole |-> TRUE]
        BY <1>2, <1>4, <4>3, <4>4
      <4> QED
        BY <4>4, <4>6, <4>7
    <3>2. CASE i # Len(chain) + 1
      <4>1. i \in 1 .. Len(chain)
        BY <1>6, <3>2
      <4>2. chain'[i] = chain[i] /\ (i # 1 => chain'[i - 1] = chain[i - 1])
        BY <1>6, <4>1
      <4> QED
        BY <1>4, <4>1, <4>2 DEF FileInv, File!CommittedIsWhole
    <3> QED
      BY <3>1, <3>2
  <2> QED
    BY <2>1 DEF File!CommittedIsWhole
<1>12. NamesDiffer'
  BY <1>4 DEF FileInv, NamesDiffer
<1>13. ASSUME NEW u \in Writers
       PROVE  FileWriterInOrder(u)'
  <2>1. CASE u = w
    <3>1. writer[w].base <= Len(chain')
      BY <1>1, <1>2, <1>6 DEF FileWriters
    <3> QED
      BY <1>2, <1>3, <1>7, <2>1, <3>1 DEF FileWriterInOrder
  <2>2. CASE u # w
    <3>1. writer[u].pc \in {"idle", "lock"}
      BY <1>8, <2>2, FileTypes
    <3>2. writer'[u] = writer[u] /\ FileWriterInOrder(u) /\ writer[u].base \in Nat
      BY <1>7, <2>2, FileTypes DEF FileInv, FileWriters
    <3>3. writer[u].base <= Len(chain) /\ Len(chain) < Len(chain')
      BY <1>6, <3>2 DEF FileWriterInOrder
    <3>4. writer[u].base <= Len(chain')
      BY <1>6, <3>2, <3>3
    <3> QED
      BY <3>1, <3>2, <3>4 DEF FileWriterInOrder
  <2> QED
    BY <2>1, <2>2
<1>14. \A c \in Readers : ReaderInOrder(c)'
  BY <1>4, <1>6, ReaderKept
<1> QED
  BY <1>4, <1>6, <1>9, <1>10, <1>11, <1>12, <1>13, <1>14 DEF FileInv

\* A step of a reader that stays in order.
LEMMA FileReaderMoves ==
    ASSUME FileInv, NEW c \in Readers, NEW s \in FileReaders, reader' = [reader EXCEPT ![c] = s],
           UNCHANGED <<files, head, lock, writer, chain>>, ReaderInOrder(c)'
    PROVE  FileInv'
<1>1. reader' \in [Readers -> FileReaders] /\ \A d \in Readers : d # c => reader'[d] = reader[d]
  BY DEF FileInv
<1>2. File!TypeOK'
  BY <1>1 DEF FileInv, File!TypeOK, FileReaders
<1>3. \A d \in Readers : ReaderInOrder(d)'
  BY <1>1 DEF FileInv, ReaderInOrder, Piece
<1>4. \A w \in Writers : FileWriterInOrder(w)'
  BY DEF FileInv, FileWriterInOrder, File!HeadDigest, File!Built
<1> QED
  BY <1>1, <1>2, <1>3, <1>4 DEF FileInv, HeadIsLast, File!CommittedIsWhole, NamesDiffer

LEMMA FileDropKeeps ==
    ASSUME FileInv, NEW c \in Readers, File!Drop(c)
    PROVE  FileInv'
<1> DEFINE s == File!NotReading
<1>1. s \in FileReaders /\ s.pc = "idle" /\ s.got = <<>>
  BY DEF File!NotReading, FileReaders
<1>2. reader' = [reader EXCEPT ![c] = s] /\ UNCHANGED <<files, head, lock, writer, chain>>
  BY DEF File!Drop
<1> HIDE DEF s
<1>3. reader'[c] = s
  BY <1>2 DEF FileInv
<1>4. ReaderInOrder(c)'
  BY <1>1, <1>3 DEF ReaderInOrder, Piece
<1> QED
  BY <1>1, <1>2, <1>4, FileReaderMoves

LEMMA FileReadNameKeeps ==
    ASSUME FileInv, NEW c \in Readers, File!ReadName(c)
    PROVE  FileInv'
<1> DEFINE s == [pc |-> "file", at |-> head, got |-> <<>>]
<1>1. head \in File!Names /\ Len(chain) \in Nat /\ chain # <<>>
      /\ head.seq = Len(chain) - 1 /\ head.digest = chain[Len(chain)].digest
  BY FileTypes DEF File!ReadName, FileInv, HeadIsLast
<1>2. s \in FileReaders /\ s.pc = "file" /\ s.got = <<>> /\ s.at = head /\ Len(s.got) = 0
  BY <1>1 DEF FileReaders, File!Names
<1>3. reader' = [reader EXCEPT ![c] = s] /\ UNCHANGED <<files, head, lock, writer, chain>>
  BY DEF File!ReadName
<1> HIDE DEF s
<1>4. reader'[c] = s
  BY <1>3 DEF FileInv
<1>5. head.seq + 1 = Len(chain) /\ head.seq < Len(chain) /\ 0 < Limit
  BY <1>1 DEF File!Names
<1>6. ReaderInOrder(c)'
  BY <1>1, <1>2, <1>3, <1>4, <1>5 DEF ReaderInOrder, Piece
<1> QED
  BY <1>2, <1>3, <1>6, FileReaderMoves

\* The file that list() looks for is there, alone and whole.
LEMMA FileFound ==
    ASSUME FileInv, NEW name \in File!Names, name.seq < Len(chain),
           name.digest = chain[name.seq + 1].digest
    PROVE  \E f \in files :
              /\ {g \in files : File!SameName(g, name)} = {f}
              /\ f.whole = TRUE /\ f.seq = name.seq /\ f.digest = name.digest
              /\ f.parent = IF name.seq = 0 THEN None ELSE chain[name.seq].digest
<1>1. name.seq + 1 \in 1 .. Len(chain) /\ name.seq \in Nat
  BY FileTypes DEF File!Names
<1>2. PICK f \in files : f = [seq |-> name.seq + 1 - 1, digest |-> chain[name.seq + 1].digest,
                              parent |-> chain[name.seq + 1].parent, whole |-> TRUE]
  BY <1>1 DEF FileInv, File!CommittedIsWhole
<1>3. f.seq = name.seq /\ f.digest = name.digest /\ f.whole = TRUE
      /\ f.parent = chain[name.seq + 1].parent
  BY <1>1, <1>2
<1>4. f.parent = IF name.seq = 0 THEN None ELSE chain[name.seq].digest
  <2>1. chain[name.seq + 1].parent = IF name.seq + 1 = 1 THEN None ELSE chain[name.seq + 1 - 1].digest
    BY <1>1 DEF FileInv, File!CommittedIsWhole
  <2> QED
    BY <1>1, <1>3, <2>1
<1>5. \A g \in files : File!SameName(g, name) <=> g = f
  BY <1>3 DEF FileInv, NamesDiffer, File!SameName
<1> QED
  BY <1>3, <1>4, <1>5

LEMMA FileReadFileKeeps ==
    ASSUME FileInv, NEW c \in Readers, File!ReadFile(c)
    PROVE  FileInv'
<1> DEFINE at == reader[c].at
<1> DEFINE old == reader[c].got
<1>1. /\ reader[c] \in FileReaders /\ ReaderInOrder(c) /\ reader[c].pc = "file"
      /\ UNCHANGED <<files, head, lock, writer, chain>> /\ chain \in Seq(Revisions)
  BY DEF FileInv, File!ReadFile
<1>2. /\ at \in File!Names /\ at.seq < Len(chain) /\ at.digest = chain[at.seq + 1].digest
      /\ old # <<>> => old[1].seq = at.seq + Len(old)
      /\ Len(old) < Limit /\ Piece(old)
  BY <1>1 DEF ReaderInOrder
<1>3. old \in Seq(File!Names) /\ Len(old) \in Nat /\ at.seq \in Nat /\ Len(chain) \in Nat
      /\ at.digest \in Documents
  BY <1>1, <1>2 DEF FileReaders, File!Names
<1>4. PICK f \in files :
         /\ {g \in files : File!SameName(g, at)} = {f}
         /\ f.whole = TRUE /\ f.seq = at.seq /\ f.digest = at.digest
         /\ f.parent = IF at.seq = 0 THEN None ELSE chain[at.seq].digest
  BY <1>2, FileFound
<1> DEFINE item == [seq |-> at.seq, digest |-> at.digest]
<1> DEFINE got == Append(old, item)
<1> DEFINE s == [pc |-> IF f.parent = None \/ Len(got) = Limit THEN "done" ELSE "file",
                 at |-> [seq |-> f.seq - 1, digest |-> f.parent], got |-> got]
<1>5. reader' = [reader EXCEPT ![c] = s]
  <2>1. (CHOOSE g \in {f} : TRUE) = f
    OBVIOUS
  <2>2. {g \in files : File!SameName(g, at)} # {}
        /\ ~ \E g \in {g \in files : File!SameName(g, at)} : ~ g.whole
    BY <1>4
  <2> QED
    BY <1>4, <2>1, <2>2 DEF File!ReadFile
<1>6. item \in File!Names /\ item.seq = at.seq /\ item.digest = at.digest
  BY <1>3 DEF File!Names
<1>7. f.parent \in Documents \cup {None} /\ (f.parent = None <=> at.seq = 0)
  <2>1. at.seq # 0 => chain[at.seq] \in Revisions
    BY <1>1, <1>2, <1>3
  <2> QED
    BY <1>4, <2>1 DEF Revisions
<1> HIDE DEF item
<1>8. /\ got \in Seq(File!Names) /\ Len(got) = Len(old) + 1 /\ got[Len(old) + 1] = item
      /\ \A i \in 1 .. Len(old) : got[i] = old[i]
  BY <1>3, <1>6
<1>9. s \in FileReaders /\ s.got = got /\ s.at = [seq |-> at.seq - 1, digest |-> f.parent]
      /\ s.pc = IF at.seq = 0 \/ Len(got) = Limit THEN "done" ELSE "file"
  BY <1>3, <1>4, <1>7, <1>8 DEF FileReaders
<1> HIDE DEF got, s, at, old
<1>10. got # <<>> /\ got[1].seq = at.seq + Len(old)
  <2>1. CASE old = <<>>
    <3>1. Len(old) = 0
      BY <2>1
    <3>2. got[1] = item /\ Len(got) = 1
      BY <1>8, <3>1
    <3>3. got # <<>>
      BY <3>2
    <3> QED
      BY <1>3, <1>6, <3>1, <3>2, <3>3
  <2>2. CASE old # <<>>
    <3>1. Len(old) >= 1
      BY <1>3, <2>2
    <3> QED
      BY <1>2, <1>3, <1>8, <2>2, <3>1
  <2> QED
    BY <2>1, <2>2
<1>11. Piece(got)
  <2> SUFFICES ASSUME NEW i \in 1 .. Len(got)
               PROVE  /\ got[i].seq = got[1].seq - (i - 1)
                      /\ got[i].seq < Len(chain)
                      /\ got[i].digest = chain[got[i].seq + 1].digest
    BY DEF Piece
  <2>1. CASE i = Len(old) + 1
    <3>1. got[i].seq = at.seq /\ got[i].digest = at.digest
      BY <1>6, <1>8, <2>1
    <3>2. at.seq = got[1].seq - (i - 1)
      BY <1>3, <1>10, <2>1
    <3> QED
      BY <1>2, <3>1, <3>2
  <2>2. CASE i # Len(old) + 1
    <3>1. i \in 1 .. Len(old) /\ got[i] = old[i] /\ got[1] = old[1]
      BY <1>3, <1>8, <2>2
    <3> QED
      BY <1>2, <3>1 DEF Piece
  <2> QED
    BY <2>1, <2>2
<1>12. reader'[c] = s
  BY <1>1, <1>5 DEF FileInv
<1>13. CASE at.seq = 0 \/ Len(got) = Limit
  <2>1. s.pc = "done"
    BY <1>9, <1>13
  <2>2. Limit \in Nat /\ Limit > 0 /\ got[1].seq \in Nat
    BY <1>3, <1>10, ConstantsAssumption
  <2>3. Len(got) = IF Limit <= got[1].seq THEN Limit ELSE got[1].seq + 1
    BY <1>2, <1>3, <1>8, <1>10, <1>13, <2>2
  <2>4. ReaderInOrder(c)'
    BY <1>1, <1>9, <1>10, <1>11, <1>12, <2>1, <2>3 DEF ReaderInOrder, Piece
  <2> QED
    BY <1>1, <1>5, <1>9, <2>4, FileReaderMoves
<1>14. CASE ~ (at.seq = 0 \/ Len(got) = Limit)
  <2>1. s.pc = "file" /\ s.at.seq = at.seq - 1 /\ s.at.digest = chain[at.seq].digest
    BY <1>4, <1>9, <1>14
  <2>2. s.at \in File!Names
    <3>1. at.seq - 1 \in Nat /\ f.parent \in Documents
      BY <1>3, <1>7, <1>14
    <3> QED
      BY <1>9, <3>1 DEF File!Names
  <2>3. /\ s.at.seq < Len(chain) /\ s.at.digest = chain[s.at.seq + 1].digest
        /\ got[1].seq = s.at.seq + Len(got) /\ Len(got) < Limit
    <3>1. s.at.seq + 1 = at.seq /\ s.at.seq < Len(chain)
      BY <1>2, <1>3, <2>1
    <3>2. s.at.digest = chain[s.at.seq + 1].digest
      BY <2>1, <3>1
    <3>3. got[1].seq = s.at.seq + Len(got)
      <4>1. got[1].seq = at.seq + Len(old) /\ Len(got) = Len(old) + 1 /\ s.at.seq = at.seq - 1
        BY <1>8, <1>10, <2>1
      <4>2. at.seq \in Nat /\ Len(old) \in Nat
        BY <1>3
      <4> QED
        BY <4>1, <4>2
    <3>4. Len(got) < Limit
      BY <1>2, <1>3, <1>8, <1>14, ConstantsAssumption
    <3> QED
      BY <3>1, <3>2, <3>3, <3>4
  <2>4. ReaderInOrder(c)'
    BY <1>1, <1>9, <1>10, <1>11, <1>12, <2>1, <2>2, <2>3 DEF ReaderInOrder, Piece
  <2> QED
    BY <1>1, <1>5, <1>9, <2>4, FileReaderMoves
<1> QED
  BY <1>13, <1>14

LEMMA NextFileInv == FileInv /\ [File!Next]_File!vars => FileInv'
<1> SUFFICES ASSUME FileInv, [File!Next]_File!vars PROVE FileInv'
  OBVIOUS
<1>1. ASSUME NEW w \in Writers, NEW expected \in Documents \cup {None}, NEW document \in Documents,
             File!Call(w, expected, document)
      PROVE  FileInv'
  BY <1>1, FileCallKeeps
<1>2. ASSUME NEW w \in Writers, File!AppendStep(w)
      PROVE  FileInv'
  <2>1. CASE File!TakeLock(w)
    BY <2>1, FileTakeLockKeeps
  <2>2. CASE File!ReadHead(w)
    BY <2>2, FileReadHeadKeeps
  <2>3. CASE File!OpenFile(w)
    <3>1. writer[w].pc = "open" /\ files' = File!Written(w, FALSE)
          /\ writer' = [writer EXCEPT ![w].pc = "write"] /\ UNCHANGED <<head, lock, reader, chain>>
      BY <2>3 DEF File!OpenFile
    <3> QED
      BY <3>1, FileWrittenKeeps
  <2>4. CASE File!WriteFile(w)
    <3>1. writer[w].pc = "write" /\ files' = File!Written(w, TRUE)
          /\ writer' = [writer EXCEPT ![w].pc = "replace"] /\ UNCHANGED <<head, lock, reader, chain>>
      BY <2>4 DEF File!WriteFile
    <3> QED
      BY <3>1, FileWrittenKeeps
  <2>5. CASE File!Replace(w)
    BY <2>5, FileReplaceKeeps
  <2>6. CASE File!Unlock(w)
    BY <2>6, FileAnswerKeeps DEF File!Unlock
  <2> QED
    BY <1>2, <2>1, <2>2, <2>3, <2>4, <2>5, <2>6 DEF File!AppendStep
<1>3. ASSUME NEW w \in Writers, File!Crash(w)
      PROVE  FileInv'
  BY <1>3, FileAnswerKeeps DEF File!Crash
<1>4. ASSUME NEW c \in Readers, File!ReadName(c) \/ File!ReadFile(c) \/ File!Drop(c)
      PROVE  FileInv'
  BY <1>4, FileReadNameKeeps, FileReadFileKeeps, FileDropKeeps
<1>5. CASE UNCHANGED File!vars
  <2>1. UNCHANGED <<files, head, lock, writer, reader, chain>>
    BY <1>5 DEF File!vars
  <2>2. File!TypeOK' /\ HeadIsLast' /\ File!CommittedIsWhole' /\ NamesDiffer'
    BY <2>1 DEF FileInv, File!TypeOK, HeadIsLast, File!CommittedIsWhole, NamesDiffer
  <2>3. \A w \in Writers : FileWriterInOrder(w)'
    BY <2>1 DEF FileInv, FileWriterInOrder, File!HeadDigest, File!Built
  <2>4. \A c \in Readers : ReaderInOrder(c)'
    BY <2>1 DEF FileInv, ReaderInOrder, Piece
  <2> QED
    BY <2>1, <2>2, <2>3, <2>4 DEF FileInv
<1> QED
  BY <1>1, <1>2, <1>3, <1>4, <1>5 DEF File!Next

LEMMA FileReadersSeeChain == FileInv => File!ReaderSeesChain
<1> SUFFICES ASSUME FileInv, NEW c \in Readers
             PROVE  LET got == reader[c].got
                    IN  /\ reader[c].pc # "broken"
                        /\ \A i \in 1 .. Len(got) :
                              /\ got[i].seq = got[1].seq - (i - 1)
                              /\ got[i].digest = chain[got[i].seq + 1].digest
                        /\ reader[c].pc = "done" =>
                              Len(got) = IF Limit <= got[1].seq THEN Limit ELSE got[1].seq + 1
  BY DEF File!ReaderSeesChain
<1>1. ReaderInOrder(c)
  BY DEF FileInv
<1> QED
  BY <1>1 DEF ReaderInOrder, Piece

\* What its caller sees of a call.
Seen(s) == [state |-> s.state, expected |-> s.expected, document |-> s.document, base |-> s.base]

LEMMA FileCallsMove ==
    ASSUME NEW w \in Writers, NEW s, writer' = [writer EXCEPT ![w] = s],
           writer \in [Writers -> FileWriters]
    PROVE  File!Calls' = [File!Calls EXCEPT ![w] = Seen(s)]
<1>1. \A v \in Writers : writer'[v] = IF v = w THEN s ELSE writer[v]
  OBVIOUS
<1> QED
  BY <1>1 DEF File!Calls, Seen

LEMMA FileCallOf ==
    ASSUME NEW w \in Writers
    PROVE  /\ File!Calls[w] = Seen(writer[w])
           /\ File!Calls[w].state = writer[w].state
           /\ File!Calls[w].expected = writer[w].expected
           /\ File!Calls[w].document = writer[w].document
           /\ File!Calls[w].base = writer[w].base
  BY DEF File!Calls, Seen

LEMMA ChainHead == File!Abstract!HeadOf(chain) = IF chain = <<>> THEN None ELSE chain[Len(chain)].digest
  BY DEF File!Abstract!HeadOf

\* An answer ends a call, as the protocol allows.
LEMMA FileAnswerIsStep ==
    ASSUME FileInv, NEW w \in Writers, NEW a \in {"appended", "refused", "failed"},
           File!Answer(w, a),
           a = "appended" => writer[w].state = "landed",
           a = "failed" => writer[w].state \in {"asked", "landed"},
           a = "refused" => /\ writer[w].state = "asked"
                            /\ writer[w].expected # File!HeadDigest
    PROVE  File!Abstract!Next
<1>1. writer \in [Writers -> FileWriters] /\ chain \in Seq(Revisions)
  BY FileTypes
<1>2. File!Calls' = [File!Calls EXCEPT ![w] = Seen(File!Answered(a))]
  BY <1>1, FileCallsMove DEF File!Answer
<1>3. Seen(File!Answered(a)) = File!Abstract!Answered(a)
  BY DEF Seen, File!Answered, File!Abstract!Answered
<1>4. File!Calls[w].state = writer[w].state /\ File!Calls[w].expected = writer[w].expected
  BY FileCallOf
<1>5. chain' = chain
  BY DEF File!Answer
<1>6. CASE a = "appended"
  <2>1. File!Abstract!Return(w)
    BY <1>2, <1>3, <1>4, <1>5, <1>6 DEF File!Abstract!Return
  <2> QED
    BY <2>1 DEF File!Abstract!Next
<1>7. CASE a = "refused"
  <2>1. File!Abstract!HeadOf(chain) = File!HeadDigest
    BY HeadSeq, ChainHead
  <2>2. File!Abstract!Refuse(w)
    BY <1>2, <1>3, <1>4, <1>5, <1>7, <2>1 DEF File!Abstract!Refuse
  <2> QED
    BY <2>2 DEF File!Abstract!Next
<1>8. CASE a = "failed"
  <2>1. File!Abstract!Fail(w)
    BY <1>2, <1>3, <1>4, <1>5, <1>8 DEF File!Abstract!Fail
  <2> QED
    BY <2>1 DEF File!Abstract!Next
<1> QED
  BY <1>6, <1>7, <1>8

\* A step inside a call that its caller does not see.
LEMMA FileInnerStep ==
    ASSUME FileInv, NEW w \in Writers, NEW s, writer' = [writer EXCEPT ![w] = s],
           Seen(s) = Seen(writer[w]), chain' = chain
    PROVE  UNCHANGED <<chain, File!Calls>>
<1>1. writer \in [Writers -> FileWriters]
  BY FileTypes
<1>2. File!Calls' = [File!Calls EXCEPT ![w] = File!Calls[w]]
  <2>1. File!Calls' = [File!Calls EXCEPT ![w] = Seen(s)]
    BY <1>1, FileCallsMove
  <2>2. Seen(s) = File!Calls[w]
    BY FileCallOf
  <2> QED
    BY <2>1, <2>2
<1>3. [File!Calls EXCEPT ![w] = File!Calls[w]] = File!Calls
  BY DEF File!Calls
<1> QED
  BY <1>2, <1>3

LEMMA FileStepIsStep ==
    ASSUME FileInv, [File!Next]_File!vars
    PROVE  [File!Abstract!Next]_<<chain, File!Calls>>
<1> USE FileTypes
<1>1. ASSUME NEW w \in Writers, NEW expected \in Documents \cup {None}, NEW document \in Documents,
             File!Call(w, expected, document)
      PROVE  File!Abstract!Next
  <2> DEFINE s == [pc |-> "lock", state |-> "asked", expected |-> expected,
                   document |-> document, seq |-> 0, base |-> Len(chain)]
  <2>1. writer[w].pc = "idle" /\ writer' = [writer EXCEPT ![w] = s] /\ chain' = chain
    BY <1>1 DEF File!Call
  <2>2. FileWriterInOrder(w)
    BY DEF FileInv
  <2>3. writer[w].state \notin {"asked", "landed"}
    BY <2>1, <2>2 DEF FileWriterInOrder
  <2>4. Seen(s) = [state |-> "asked", expected |-> expected, document |-> document,
                   base |-> Len(chain)]
    BY DEF Seen
  <2> HIDE DEF s
  <2>5. File!Calls' = [File!Calls EXCEPT ![w] = Seen(s)]
    BY <2>1, FileCallsMove
  <2>6. File!Calls[w].state = writer[w].state
    BY FileCallOf
  <2>7. File!Abstract!Ask(w, expected, document)
    BY <2>1, <2>3, <2>4, <2>5, <2>6 DEF File!Abstract!Ask
  <2> QED
    BY <2>7 DEF File!Abstract!Next
<1>2. ASSUME NEW w \in Writers, File!AppendStep(w)
      PROVE  [File!Abstract!Next]_<<chain, File!Calls>>
  <2>1. writer[w] \in FileWriters /\ FileWriterInOrder(w)
    BY DEF FileInv
  <2>2. CASE File!TakeLock(w)
    <3> DEFINE s == [writer[w] EXCEPT !.pc = "head"]
    <3>1. writer' = [writer EXCEPT ![w] = s] /\ chain' = chain /\ Seen(s) = Seen(writer[w])
      BY <2>1, <2>2 DEF File!TakeLock, Seen, FileWriters
    <3> QED
      BY <3>1, FileInnerStep
  <2>3. CASE File!ReadHead(w)
    <3>1. CASE writer[w].expected = File!HeadDigest
      <4> DEFINE s == [writer[w] EXCEPT !.pc = "open", !.seq = File!NextSeq]
      <4>1. writer' = [writer EXCEPT ![w] = s] /\ chain' = chain /\ Seen(s) = Seen(writer[w])
        BY <2>1, <2>3, <3>1 DEF File!ReadHead, Seen, FileWriters
      <4> QED
        BY <4>1, FileInnerStep
    <3>2. CASE writer[w].expected # File!HeadDigest
      <4>1. File!Answer(w, "refused") /\ writer[w].state = "asked"
        BY <2>1, <2>3, <3>2 DEF File!ReadHead, FileWriterInOrder
      <4> QED
        BY <3>2, <4>1, FileAnswerIsStep
    <3> QED
      BY <3>1, <3>2
  <2>4. CASE File!OpenFile(w)
    <3> DEFINE s == [writer[w] EXCEPT !.pc = "write"]
    <3>1. writer' = [writer EXCEPT ![w] = s] /\ chain' = chain /\ Seen(s) = Seen(writer[w])
      BY <2>1, <2>4 DEF File!OpenFile, Seen, FileWriters
    <3> QED
      BY <3>1, FileInnerStep
  <2>5. CASE File!WriteFile(w)
    <3> DEFINE s == [writer[w] EXCEPT !.pc = "replace"]
    <3>1. writer' = [writer EXCEPT ![w] = s] /\ chain' = chain /\ Seen(s) = Seen(writer[w])
      BY <2>1, <2>5 DEF File!WriteFile, Seen, FileWriters
    <3> QED
      BY <3>1, FileInnerStep
  <2>6. CASE File!Replace(w)
    <3> DEFINE s == [writer[w] EXCEPT !.pc = "unlock", !.state = "landed"]
    <3>1. /\ writer' = [writer EXCEPT ![w] = s] /\ writer[w].pc = "replace"
          /\ chain' = Append(chain, [digest |-> writer[w].document, parent |-> writer[w].expected])
      BY <2>6 DEF File!Replace
    <3>2. writer[w].state = "asked" /\ writer[w].expected = File!HeadDigest
      BY <2>1, <3>1 DEF FileWriterInOrder
    <3>3. File!Abstract!HeadOf(chain) = File!HeadDigest
      BY HeadSeq, ChainHead
    <3>4. Seen(s) = [Seen(writer[w]) EXCEPT !.state = "landed"]
      BY <2>1 DEF Seen, FileWriters
    <3> HIDE DEF s
    <3>5. File!Calls' = [File!Calls EXCEPT ![w] = Seen(s)]
      BY <3>1, FileCallsMove
    <3>6. File!Calls[w].state = "asked" /\ File!Calls[w].expected = writer[w].expected
          /\ File!Calls[w].document = writer[w].document
      BY <3>2, FileCallOf
    <3>7. File!Calls' = [File!Calls EXCEPT ![w].state = "landed"]
      <4>1. Seen(s) = [File!Calls[w] EXCEPT !.state = "landed"]
        BY <3>4, FileCallOf
      <4> QED
        BY <3>5, <4>1
    <3>8. File!Abstract!Land(w)
      BY <3>1, <3>2, <3>3, <3>6, <3>7 DEF File!Abstract!Land
    <3> QED
      BY <3>8 DEF File!Abstract!Next
  <2>7. CASE File!Unlock(w)
    <3>1. File!Answer(w, "appended") /\ writer[w].state = "landed"
      BY <2>1, <2>7 DEF File!Unlock, FileWriterInOrder
    <3> QED
      BY <3>1, FileAnswerIsStep
  <2> QED
    BY <1>2, <2>2, <2>3, <2>4, <2>5, <2>6, <2>7 DEF File!AppendStep
<1>3. ASSUME NEW w \in Writers, File!Crash(w)
      PROVE  File!Abstract!Next
  <2>1. File!Answer(w, "failed") /\ writer[w].pc # "idle" /\ FileWriterInOrder(w)
        /\ writer[w] \in FileWriters
    BY <1>3 DEF File!Crash, FileInv
  <2>2. writer[w].state \in {"asked", "landed"}
    BY <2>1 DEF FileWriterInOrder, FileWriters
  <2> QED
    BY <2>1, <2>2, FileAnswerIsStep
<1>4. ASSUME UNCHANGED <<writer, chain>>
      PROVE  UNCHANGED <<chain, File!Calls>>
  BY <1>4 DEF File!Calls
<1>5. ASSUME NEW c \in Readers, File!ReadName(c) \/ File!ReadFile(c) \/ File!Drop(c)
      PROVE  UNCHANGED <<writer, chain>>
  BY <1>5 DEF File!ReadName, File!ReadFile, File!Drop
<1>6. CASE UNCHANGED File!vars
  BY <1>4, <1>6 DEF File!vars
<1> QED
  BY <1>1, <1>2, <1>3, <1>4, <1>5, <1>6 DEF File!Next

LEMMA FileInitIsInit == File!Init => File!Abstract!Init
  BY DEF File!Init, File!Abstract!Init, File!Calls, File!Answered, File!Abstract!Answered

-----------------------------------------------------------------------------
(* PostgresStore.                                                          *)

RowWriters ==
    [pc : {"idle", "head", "insert", "commit", "committed"},
     state : States, expected : Documents \cup {None}, document : Documents \cup {None},
     seen : Rows \cup {None}, base : Nat]

\* A call between its two transactions saw a row of the chain, the one its caller expects,
\* or none, and no older one than at the call.
SawRow(w) ==
    /\ writer[w].seen = None => writer[w].expected = None /\ writer[w].base = 0
    /\ writer[w].seen # None =>
          /\ writer[w].seen.seq < Len(chain)
          /\ writer[w].seen.digest = chain[writer[w].seen.seq + 1].digest
          /\ writer[w].expected = writer[w].seen.digest
          /\ writer[w].base <= writer[w].seen.seq + 1

\* A call that has inserted its row has the number behind the chain, which the key keeps
\* from everybody else until the commit.
RowWriterInOrder(w) ==
    /\ writer[w].pc \in {"head", "insert", "commit"} <=> writer[w].state = "asked"
    /\ writer[w].pc = "committed" <=> writer[w].state = "landed"
    /\ writer[w].pc # "idle" => writer[w].document \in Documents
    /\ writer[w].base <= Len(chain)
    /\ writer[w].pc \in {"insert", "commit"} => SawRow(w)
    /\ writer[w].pc = "commit" => Postgres!Built(w).seq = Len(chain)

OneInserts ==
    \A v, w \in Writers : writer[v].pc = "commit" /\ writer[w].pc = "commit" => v = w

\* The inductive invariant of PostgresStore.
TableInv ==
    /\ Postgres!TypeOK
    /\ pending \in [Writers -> Rows \cup {None}]
    /\ chain \in Seq(Revisions)
    /\ Postgres!RowsAreChain
    /\ \A w \in Writers : RowWriterInOrder(w)
    /\ OneInserts

LEMMA InitTableInv == Postgres!Init => TableInv
<1> SUFFICES ASSUME Postgres!Init PROVE TableInv
  OBVIOUS
<1>1. rows = {} /\ chain = <<>> /\ pending = [w \in Writers |-> None]
  BY DEF Postgres!Init
<1>2. writer \in [Writers -> RowWriters]
  BY DEF Postgres!Init, Postgres!Answered, RowWriters, States
<1>3. \A w \in Writers : /\ writer[w].pc = "idle" /\ writer[w].state = "idle"
                         /\ writer[w].base = 0
  BY DEF Postgres!Init, Postgres!Answered
<1>4. Postgres!TypeOK
  BY <1>1, <1>2, <1>3 DEF Postgres!TypeOK, RowWriters, Postgres!States, States, Postgres!Rows, Rows
<1>5. ASSUME NEW w \in Writers
      PROVE  RowWriterInOrder(w)
  <2>1. writer[w].pc = "idle" /\ writer[w].state = "idle" /\ writer[w].base <= Len(chain)
    BY <1>1, <1>3
  <2> QED
    BY <2>1 DEF RowWriterInOrder
<1>6. OneInserts
  BY <1>3 DEF OneInserts
<1>7. Postgres!RowsAreChain
  BY <1>1 DEF Postgres!RowsAreChain
<1> QED
  BY <1>1, <1>4, <1>5, <1>6, <1>7 DEF TableInv

LEMMA TableTypes ==
    ASSUME TableInv
    PROVE  /\ writer \in [Writers -> RowWriters]
           /\ rows \subseteq Rows
           /\ chain \in Seq(Revisions)
           /\ pending \in [Writers -> Rows \cup {None}]
           /\ \A w \in Writers : pending[w] = IF writer[w].pc = "commit" THEN Postgres!Built(w)
                                                                      ELSE None
  BY DEF TableInv, Postgres!TypeOK, RowWriters, Postgres!States, States, Postgres!Rows, Rows

\* The newest row is the end of the chain.
LEMMA NewestIsLast ==
    ASSUME TableInv
    PROVE  /\ chain = <<>> => Postgres!HeadRow = None
           /\ chain # <<>> => /\ Postgres!HeadRow \in Rows
                              /\ Postgres!HeadRow # None
                              /\ Postgres!HeadRow.seq = Len(chain) - 1
                              /\ Postgres!HeadRow.digest = chain[Len(chain)].digest
<1> DEFINE row(i) == [seq |-> i - 1, digest |-> chain[i].digest, parent |-> chain[i].parent]
<1>1. rows = {row(i) : i \in 1 .. Len(chain)} /\ rows \subseteq Rows /\ chain \in Seq(Revisions)
  BY TableTypes DEF TableInv, Postgres!RowsAreChain
<1>2. CASE chain = <<>>
  <2>1. rows = {}
    BY <1>1, <1>2
  <2> QED
    BY <1>2, <2>1 DEF Postgres!HeadRow
<1>3. CASE chain # <<>>
  <2> DEFINE n == Len(chain)
  <2>1. n \in Nat /\ n \in 1 .. n /\ row(n) \in rows
    BY <1>1, <1>3
  <2>2. \A i \in 1 .. n : row(i).seq = i - 1
    OBVIOUS
  <2>3. \A q \in rows : \E i \in 1 .. n : q = row(i)
    BY <1>1
  <2> HIDE DEF row
  <2>4. \A q \in rows : q.seq <= row(n).seq
    BY <2>1, <2>2, <2>3
  <2>5. Postgres!Newest \in rows /\ \A q \in rows : q.seq <= Postgres!Newest.seq
    BY <2>1, <2>4 DEF Postgres!Newest
  <2>6. PICK i \in 1 .. n : Postgres!Newest = row(i)
    BY <2>3, <2>5
  <2>7. i = n
    BY <2>1, <2>2, <2>5, <2>6
  <2>8. Postgres!Newest = row(n) /\ rows # {}
    BY <2>1, <2>6, <2>7
  <2>9. Postgres!HeadRow = row(n)
    BY <2>8 DEF Postgres!HeadRow
  <2>10. row(n) \in Rows /\ row(n) # None
    BY <1>1, <2>1, MarkerAssumption
  <2>11. row(n).seq = n - 1 /\ row(n).digest = chain[n].digest
    BY DEF row
  <2> QED
    BY <1>3, <2>9, <2>10, <2>11
<1> QED
  BY <1>2, <1>3

\* The row a call builds has the number behind the one it saw.
LEMMA BuiltRow ==
    ASSUME TableInv, NEW w \in Writers, writer[w].pc \in {"insert", "commit"}
    PROVE  /\ Postgres!Built(w) \in Rows
           /\ Postgres!Built(w).digest = writer[w].document
           /\ Postgres!Built(w).parent = writer[w].expected
           /\ Postgres!Built(w).seq <= Len(chain)
           /\ writer[w].base <= Postgres!Built(w).seq
           /\ Postgres!Built(w).seq = Len(chain) =>
                 writer[w].expected = IF chain = <<>> THEN None ELSE chain[Len(chain)].digest
<1>1. writer[w] \in RowWriters /\ RowWriterInOrder(w) /\ chain \in Seq(Revisions)
  BY TableTypes DEF TableInv
<1>2. SawRow(w) /\ writer[w].document \in Documents /\ Len(chain) \in Nat
      /\ (chain = <<>> <=> Len(chain) = 0)
  BY <1>1 DEF RowWriterInOrder
<1>3. CASE writer[w].seen = None
  <2>1. Postgres!Built(w).seq = 0
    BY <1>3 DEF Postgres!Built
  <2> QED
    BY <1>1, <1>2, <1>3, <2>1 DEF Postgres!Built, Rows, SawRow, RowWriters
<1>4. CASE writer[w].seen # None
  <2>1. writer[w].seen \in Rows /\ writer[w].seen.seq \in Nat
    BY <1>1, <1>4 DEF RowWriters, Rows
  <2>2. Postgres!Built(w).seq = writer[w].seen.seq + 1
    BY <1>4 DEF Postgres!Built
  <2>3. Postgres!Built(w) \in Rows
    BY <1>1, <1>2, <1>4, <2>1 DEF Postgres!Built, Rows, RowWriters
  <2>4. /\ writer[w].seen.seq < Len(chain) /\ writer[w].base <= writer[w].seen.seq + 1
        /\ writer[w].expected = chain[writer[w].seen.seq + 1].digest
    BY <1>2, <1>4 DEF SawRow
  <2>5. Postgres!Built(w).seq <= Len(chain) /\ writer[w].base <= Postgres!Built(w).seq
    BY <1>2, <2>1, <2>2, <2>4
  <2>6. Postgres!Built(w).seq = Len(chain) =>
           writer[w].expected = IF chain = <<>> THEN None ELSE chain[Len(chain)].digest
    BY <1>2, <2>1, <2>2, <2>4
  <2> QED
    BY <2>3, <2>5, <2>6 DEF Postgres!Built
<1> QED
  BY <1>3, <1>4

\* A row of the table with the number behind the one a call saw: the chain has grown.
LEMMA TakenKey ==
    ASSUME TableInv, NEW r \in rows
    PROVE  r.seq \in Nat /\ r.seq < Len(chain)
<1>1. PICK i \in 1 .. Len(chain) : r = [seq |-> i - 1, digest |-> chain[i].digest,
                                        parent |-> chain[i].parent]
  BY DEF TableInv, Postgres!RowsAreChain
<1>2. r.seq = i - 1 /\ Len(chain) \in Nat
  BY <1>1, TableTypes
<1> QED
  BY <1>2

\* A number within the chain is the number of a row.
LEMMA KeysTaken ==
    ASSUME TableInv, NEW n \in Nat, n < Len(chain)
    PROVE  \E r \in rows : r.seq = n
<1>1. PICK i \in 1 .. Len(chain) : i = n + 1
  BY TableTypes
<1>2. [seq |-> i - 1, digest |-> chain[i].digest, parent |-> chain[i].parent] \in rows
  BY DEF TableInv, Postgres!RowsAreChain
<1>3. [seq |-> i - 1, digest |-> chain[i].digest, parent |-> chain[i].parent].seq = n
  BY <1>1
<1> QED
  BY <1>2, <1>3

\* A step that changes nothing but one call, which stays in order.
LEMMA RowWriterMoves ==
    ASSUME TableInv, NEW w \in Writers, NEW s \in RowWriters,
           writer' = [writer EXCEPT ![w] = s], UNCHANGED <<rows, chain>>,
           NEW p \in Rows \cup {None}, pending' = [pending EXCEPT ![w] = p],
           RowWriterInOrder(w)',
           p = IF s.pc = "commit" THEN Postgres!Built(w)' ELSE None,
           s.pc = "commit" => \A v \in Writers \ {w} : writer[v].pc # "commit"
    PROVE  TableInv'
<1>1. writer' \in [Writers -> RowWriters] /\ writer'[w] = s
      /\ \A v \in Writers : v # w => writer'[v] = writer[v]
  BY TableTypes
<1>2. pending' \in [Writers -> Rows \cup {None}] /\ pending'[w] = p
      /\ \A v \in Writers : v # w => pending'[v] = pending[v]
  BY TableTypes
<1>3. ASSUME NEW v \in Writers
      PROVE  /\ pending'[v] = IF writer'[v].pc = "commit" THEN Postgres!Built(v)' ELSE None
             /\ RowWriterInOrder(v)'
  <2>1. CASE v = w
    BY <1>1, <1>2, <2>1
  <2>2. CASE v # w
    <3>1. Postgres!Built(v)' = Postgres!Built(v) /\ writer'[v] = writer[v] /\ pending'[v] = pending[v]
      BY <1>1, <1>2, <2>2 DEF Postgres!Built
    <3>2. RowWriterInOrder(v)
      BY DEF TableInv
    <3>3. RowWriterInOrder(v)'
      BY <3>1, <3>2 DEF RowWriterInOrder, SawRow
    <3> QED
      BY <3>1, <3>3, TableTypes
  <2> QED
    BY <2>1, <2>2
<1>4. OneInserts'
  BY <1>1 DEF TableInv, OneInserts
<1>5. Postgres!TypeOK'
  <2>1. rows' \subseteq Rows
    BY TableTypes
  <2> QED
    BY <1>1, <1>3, <2>1 DEF Postgres!TypeOK, RowWriters, Postgres!States, States, Postgres!Rows, Rows
<1>6. Postgres!RowsAreChain'
  BY DEF TableInv, Postgres!RowsAreChain
<1> QED
  BY <1>2, <1>3, <1>4, <1>5, <1>6 DEF TableInv


LEMMA RowAnswerKeeps ==
    ASSUME TableInv, NEW w \in Writers, NEW a \in {"appended", "refused", "failed"},
           Postgres!Answer(w, a), UNCHANGED <<rows, chain>>,
           pending' = [pending EXCEPT ![w] = None]
    PROVE  TableInv'
<1> DEFINE s == Postgres!Answered(a)
<1>1. s \in RowWriters /\ s.pc = "idle" /\ s.state = a /\ s.base = 0
  BY DEF Postgres!Answered, RowWriters, States
<1>2. writer' = [writer EXCEPT ![w] = s]
  BY DEF Postgres!Answer
<1> HIDE DEF s
<1>3. writer'[w] = s /\ 0 <= Len(chain')
  BY <1>2, TableTypes
<1>4. RowWriterInOrder(w)'
  BY <1>1, <1>3 DEF RowWriterInOrder
<1> QED
  BY <1>1, <1>2, <1>4, RowWriterMoves

\* A call without an open transaction has nothing pending.
LEMMA NothingPending ==
    ASSUME TableInv, NEW w \in Writers, writer[w].pc # "commit", UNCHANGED pending
    PROVE  pending' = [pending EXCEPT ![w] = None]
<1>1. pending[w] = None /\ pending \in [Writers -> Rows \cup {None}]
  BY TableTypes
<1> QED
  BY <1>1

LEMMA RowCallKeeps ==
    ASSUME TableInv, NEW w \in Writers, NEW expected \in Documents \cup {None},
           NEW document \in Documents, Postgres!Call(w, expected, document)
    PROVE  TableInv'
<1> DEFINE s == [pc |-> "head", state |-> "asked", expected |-> expected,
                 document |-> document, seen |-> None, base |-> Len(chain)]
<1>1. s \in RowWriters
  BY TableTypes DEF RowWriters, States
<1>2. s.pc = "head" /\ s.state = "asked" /\ s.document = document /\ s.base = Len(chain)
  OBVIOUS
<1>3. writer' = [writer EXCEPT ![w] = s] /\ UNCHANGED <<rows, pending, chain>>
      /\ writer[w].pc = "idle"
  BY DEF Postgres!Call
<1> HIDE DEF s
<1>4. writer'[w] = s /\ Len(chain) <= Len(chain')
  BY <1>3, TableTypes
<1>5. RowWriterInOrder(w)'
  BY <1>2, <1>3, <1>4 DEF RowWriterInOrder
<1>6. pending' = [pending EXCEPT ![w] = None]
  BY <1>3, NothingPending
<1> QED
  BY <1>1, <1>2, <1>3, <1>5, <1>6, RowWriterMoves

LEMMA RowReadHeadKeeps ==
    ASSUME TableInv, NEW w \in Writers, Postgres!ReadHead(w)
    PROVE  TableInv'
<1>1. writer[w].pc = "head" /\ UNCHANGED <<rows, pending, chain>>
  BY DEF Postgres!ReadHead
<1>2. pending' = [pending EXCEPT ![w] = None]
  BY <1>1, NothingPending
<1> DEFINE digest == IF Postgres!HeadRow = None THEN None ELSE Postgres!HeadRow.digest
<1>3. CASE writer[w].expected = digest
  <2> DEFINE s == [writer[w] EXCEPT !.pc = "insert", !.seen = Postgres!HeadRow]
  <2>1. writer[w] \in RowWriters /\ RowWriterInOrder(w) /\ chain \in Seq(Revisions)
    BY TableTypes DEF TableInv
  <2>2. /\ Postgres!HeadRow \in Rows \cup {None}
        /\ Postgres!HeadRow = None <=> chain = <<>>
        /\ Postgres!HeadRow # None => /\ Postgres!HeadRow.seq = Len(chain) - 1
                                      /\ Postgres!HeadRow.digest = chain[Len(chain)].digest
    BY NewestIsLast
  <2>3. /\ s \in RowWriters /\ s.pc = "insert" /\ s.seen = Postgres!HeadRow
        /\ s.state = writer[w].state /\ s.document = writer[w].document
        /\ s.base = writer[w].base /\ s.expected = writer[w].expected
    BY <2>1, <2>2 DEF RowWriters
  <2>4. writer' = [writer EXCEPT ![w] = s]
    BY <1>3 DEF Postgres!ReadHead
  <2> HIDE DEF s
  <2>5. writer'[w] = s /\ chain' = chain
    BY <1>1, <2>4, TableTypes
  <2>6. Len(chain) \in Nat /\ (chain = <<>> <=> Len(chain) = 0) /\ writer[w].base \in Nat
        /\ writer[w].base <= Len(chain)
    BY <2>1 DEF RowWriters, RowWriterInOrder
  <2>7. SawRow(w)'
    <3>1. CASE Postgres!HeadRow = None
      BY <1>3, <2>2, <2>3, <2>5, <2>6, <3>1 DEF SawRow
    <3>2. CASE Postgres!HeadRow # None
      <4>1. Postgres!HeadRow.seq + 1 = Len(chain) /\ Postgres!HeadRow.seq < Len(chain)
        BY <2>2, <2>6, <3>2
      <4> QED
        BY <1>3, <2>2, <2>3, <2>5, <2>6, <3>2, <4>1 DEF SawRow
    <3> QED
      BY <3>1, <3>2
  <2>8. RowWriterInOrder(w)'
    BY <1>1, <2>1, <2>3, <2>5, <2>7 DEF RowWriterInOrder
  <2> QED
    BY <1>1, <1>2, <2>3, <2>4, <2>8, RowWriterMoves
<1>4. CASE writer[w].expected # digest
  <2>1. Postgres!Answer(w, "refused")
    BY <1>4 DEF Postgres!ReadHead
  <2> QED
    BY <1>1, <1>2, <2>1, RowAnswerKeeps
<1> QED
  BY <1>3, <1>4

\* Whoever gets the number behind the chain is alone with it.
LEMMA RowInsertKeeps ==
    ASSUME TableInv, NEW w \in Writers, Postgres!Insert(w)
    PROVE  TableInv'
<1> DEFINE s == [writer[w] EXCEPT !.pc = "commit"]
<1> DEFINE b == Postgres!Built(w)
<1>1. writer[w] \in RowWriters /\ RowWriterInOrder(w) /\ chain \in Seq(Revisions)
      /\ writer[w].pc = "insert" /\ UNCHANGED <<rows, chain>>
  BY TableTypes DEF TableInv, Postgres!Insert
<1>2. /\ s \in RowWriters /\ s.pc = "commit" /\ s.state = writer[w].state
      /\ s.document = writer[w].document /\ s.base = writer[w].base
      /\ s.expected = writer[w].expected /\ s.seen = writer[w].seen
  BY <1>1 DEF RowWriters
<1>3. writer' = [writer EXCEPT ![w] = s] /\ pending' = [pending EXCEPT ![w] = b]
  BY TableTypes DEF Postgres!Insert
<1> HIDE DEF s
<1>4. writer'[w] = s
  BY <1>3, TableTypes
<1>5. Postgres!Built(w)' = b
  BY <1>2, <1>4 DEF Postgres!Built
<1>6. b \in Rows /\ b.seq <= Len(chain) /\ b.seq \in Nat /\ Len(chain) \in Nat
  BY <1>1, BuiltRow DEF Rows
<1>7. b.seq = Len(chain)
  <2>1. \A r \in rows : r.seq # b.seq
    BY DEF Postgres!Insert, Postgres!SameKey
  <2> QED
    BY <1>6, <2>1, KeysTaken
<1>8. \A v \in Writers \ {w} : writer[v].pc # "commit"
  <2> SUFFICES ASSUME NEW v \in Writers, writer[v].pc = "commit"
               PROVE  FALSE
    OBVIOUS
  <2>1. pending[v] = Postgres!Built(v) /\ Postgres!Built(v).seq = Len(chain)
    BY TableTypes DEF TableInv, RowWriterInOrder
  <2>2. pending[v] # None
    BY <2>1, BuiltRow, MarkerAssumption
  <2>3. pending[v].seq # b.seq
    BY <2>2 DEF Postgres!Insert, Postgres!SameKey
  <2> QED
    BY <1>7, <2>1, <2>3
<1> HIDE DEF b
<1>9. SawRow(w)'
  BY <1>1, <1>2, <1>4 DEF RowWriterInOrder, SawRow
<1>10. RowWriterInOrder(w)'
  BY <1>1, <1>2, <1>4, <1>5, <1>7, <1>9 DEF RowWriterInOrder
<1> QED
  BY <1>1, <1>2, <1>3, <1>5, <1>6, <1>8, <1>10, RowWriterMoves

\* A call that is not at its transactions stays in order while the chain grows.
LEMMA RowWriterKept ==
    ASSUME TableInv, NEW v \in Writers, writer'[v] = writer[v], writer[v].pc # "commit",
           chain' \in Seq(Revisions), Len(chain) <= Len(chain'),
           \A i \in 1 .. Len(chain) : chain'[i] = chain[i]
    PROVE  RowWriterInOrder(v)'
<1>1. writer[v] \in RowWriters /\ RowWriterInOrder(v) /\ Len(chain) \in Nat /\ Len(chain') \in Nat
  BY TableTypes DEF TableInv
<1>2. writer[v].base <= Len(chain')
  BY <1>1 DEF RowWriters, RowWriterInOrder
<1>3. SawRow(v) => SawRow(v)'
  <2>1. CASE writer[v].seen = None
    BY <2>1 DEF SawRow
  <2>2. CASE writer[v].seen # None
    <3>1. writer[v].seen.seq \in Nat
      BY <1>1, <2>2 DEF RowWriters, Rows
    <3>2. writer[v].seen.seq < Len(chain) => /\ writer[v].seen.seq + 1 \in 1 .. Len(chain)
                                            /\ writer[v].seen.seq < Len(chain')
      BY <1>1, <3>1
    <3> QED
      BY <2>2, <3>2 DEF SawRow
  <2> QED
    BY <2>1, <2>2
<1> QED
  BY <1>1, <1>2, <1>3 DEF RowWriterInOrder

\* A commit puts the row at the end of the chain.
LEMMA RowCommitKeeps ==
    ASSUME TableInv, NEW w \in Writers, Postgres!Commit(w)
    PROVE  TableInv'
<1> DEFINE s == [writer[w] EXCEPT !.pc = "committed", !.state = "landed"]
<1> DEFINE b == Postgres!Built(w)
<1> DEFINE v == [digest |-> b.digest, parent |-> b.parent]
<1>1. writer[w] \in RowWriters /\ RowWriterInOrder(w) /\ chain \in Seq(Revisions)
      /\ writer[w].pc = "commit" /\ pending[w] = b
  BY TableTypes DEF TableInv, Postgres!Commit
<1>2. /\ s \in RowWriters /\ s.pc = "committed" /\ s.state = "landed"
      /\ s.document = writer[w].document /\ s.base = writer[w].base
  BY <1>1 DEF RowWriters, States
<1>3. /\ writer' = [writer EXCEPT ![w] = s] /\ pending' = [pending EXCEPT ![w] = None]
      /\ chain' = Append(chain, v) /\ rows' = rows \cup {b}
  BY <1>1, TableTypes DEF Postgres!Commit
<1> HIDE DEF s
<1>4. /\ b \in Rows /\ b.seq = Len(chain)
      /\ b.parent = IF chain = <<>> THEN None ELSE chain[Len(chain)].digest
  BY <1>1, BuiltRow DEF RowWriterInOrder
<1>5. v \in Revisions /\ v.digest = b.digest /\ v.parent = b.parent
      /\ b = [seq |-> Len(chain), digest |-> v.digest, parent |-> v.parent]
  BY <1>4 DEF Rows, Revisions
<1> HIDE DEF b, v
<1>6. /\ chain' \in Seq(Revisions) /\ Len(chain') = Len(chain) + 1 /\ Len(chain) \in Nat
      /\ chain'[Len(chain) + 1] = v /\ \A i \in 1 .. Len(chain) : chain'[i] = chain[i]
  BY <1>1, <1>3, <1>5, ChainGrows
<1>7. writer' \in [Writers -> RowWriters] /\ writer'[w] = s
      /\ \A u \in Writers : u # w => writer'[u] = writer[u]
  BY <1>2, <1>3, TableTypes
<1>8. pending' \in [Writers -> Rows \cup {None}] /\ pending'[w] = None
      /\ \A u \in Writers : u # w => pending'[u] = pending[u]
  BY <1>3, TableTypes
<1>9. \A u \in Writers : u # w => writer[u].pc # "commit"
  BY <1>1 DEF TableInv, OneInserts
<1>10. Postgres!TypeOK'
  <2>1. rows' \subseteq Rows
    BY <1>3, <1>4, TableTypes
  <2>2. ASSUME NEW u \in Writers
        PROVE  pending'[u] = IF writer'[u].pc = "commit" THEN Postgres!Built(u)' ELSE None
    <3>1. CASE u = w
      BY <1>2, <1>7, <1>8, <3>1
    <3>2. CASE u # w
      BY <1>7, <1>8, <1>9, <3>2, TableTypes
    <3> QED
      BY <3>1, <3>2
  <2> QED
    BY <1>7, <2>1, <2>2 DEF Postgres!TypeOK, RowWriters, Postgres!States, States, Postgres!Rows, Rows
<1>11. Postgres!RowsAreChain'
  <2> DEFINE row(i) == [seq |-> i - 1, digest |-> chain[i].digest, parent |-> chain[i].parent]
  <2> DEFINE new(i) == [seq |-> i - 1, digest |-> chain'[i].digest, parent |-> chain'[i].parent]
  <2>1. rows = {row(i) : i \in 1 .. Len(chain)}
    BY DEF TableInv, Postgres!RowsAreChain
  <2>2. \A i \in 1 .. Len(chain) : new(i) = row(i)
    BY <1>6
  <2>3. new(Len(chain) + 1) = b
    BY <1>5, <1>6
  <2> HIDE DEF row, new
  <2>4. 1 .. Len(chain') = (1 .. Len(chain)) \cup {Len(chain) + 1}
    BY <1>6
  <2>5. rows' = {new(i) : i \in 1 .. Len(chain')}
    BY <1>3, <2>1, <2>2, <2>3, <2>4
  <2>6. ASSUME NEW i \in 1 .. Len(chain')
        PROVE  chain'[i].parent = IF i = 1 THEN None ELSE chain'[i - 1].digest
    <3>1. CASE i = Len(chain) + 1
      <4>1. chain = <<>> <=> Len(chain) = 0
        BY <1>1
      <4>2. i # 1 => chain'[i - 1] = chain[Len(chain)]
        BY <1>6, <3>1
      <4> QED
        BY <1>4, <1>5, <1>6, <3>1, <4>1, <4>2
    <3>2. CASE i # Len(chain) + 1
      <4>1. i \in 1 .. Len(chain) /\ chain'[i] = chain[i] /\ (i # 1 => chain'[i - 1] = chain[i - 1])
        BY <1>6, <3>2
      <4> QED
        BY <4>1 DEF TableInv, Postgres!RowsAreChain
    <3> QED
      BY <3>1, <3>2
  <2> QED
    BY <2>5, <2>6 DEF Postgres!RowsAreChain, new
<1>12. ASSUME NEW u \in Writers
       PROVE  RowWriterInOrder(u)'
  <2>1. CASE u = w
    <3>1. writer[w].base <= Len(chain') /\ writer[w].document \in Documents
      BY <1>1, <1>6 DEF RowWriters, RowWriterInOrder
    <3> QED
      BY <1>2, <1>7, <2>1, <3>1 DEF RowWriterInOrder
  <2>2. CASE u # w
    <3>1. Len(chain) <= Len(chain')
      BY <1>6
    <3> QED
      BY <1>6, <1>7, <1>9, <2>2, <3>1, RowWriterKept
  <2> QED
    BY <2>1, <2>2
<1>13. OneInserts'
  BY <1>2, <1>7, <1>9 DEF OneInserts
<1> QED
  BY <1>6, <1>8, <1>10, <1>11, <1>12, <1>13 DEF TableInv

LEMMA NextTableInv == TableInv /\ [Postgres!Next]_Postgres!vars => TableInv'
<1> SUFFICES ASSUME TableInv, [Postgres!Next]_Postgres!vars PROVE TableInv'
  OBVIOUS
<1>1. ASSUME NEW w \in Writers, NEW expected \in Documents \cup {None}, NEW document \in Documents,
             Postgres!Call(w, expected, document)
      PROVE  TableInv'
  BY <1>1, RowCallKeeps
<1>2. ASSUME NEW w \in Writers, Postgres!AppendStep(w)
      PROVE  TableInv'
  <2>1. CASE Postgres!Collide(w)
    <3>1. /\ Postgres!Answer(w, "refused") /\ UNCHANGED <<rows, pending, chain>>
          /\ writer[w].pc = "insert"
      BY <2>1 DEF Postgres!Collide
    <3> QED
      BY <3>1, NothingPending, RowAnswerKeeps
  <2>2. CASE Postgres!Return(w)
    <3>1. /\ Postgres!Answer(w, "appended") /\ UNCHANGED <<rows, pending, chain>>
          /\ writer[w].pc = "committed"
      BY <2>2 DEF Postgres!Return
    <3> QED
      BY <3>1, NothingPending, RowAnswerKeeps
  <2> QED
    BY <1>2, <2>1, <2>2, RowReadHeadKeeps, RowInsertKeeps, RowCommitKeeps DEF Postgres!AppendStep
<1>3. ASSUME NEW w \in Writers, Postgres!Crash(w)
      PROVE  TableInv'
  BY <1>3, RowAnswerKeeps DEF Postgres!Crash
<1>4. CASE UNCHANGED Postgres!vars
  <2>1. UNCHANGED <<rows, pending, writer, chain>>
    BY <1>4 DEF Postgres!vars
  <2>2. \A w \in Writers : RowWriterInOrder(w)' /\ Postgres!Built(w)' = Postgres!Built(w)
    BY <2>1 DEF TableInv, RowWriterInOrder, SawRow, Postgres!Built
  <2> QED
    BY <2>1, <2>2 DEF TableInv, Postgres!TypeOK, Postgres!RowsAreChain, OneInserts
<1> QED
  BY <1>1, <1>2, <1>3, <1>4 DEF Postgres!Next

LEMMA RowCallsMove ==
    ASSUME NEW w \in Writers, NEW s, writer' = [writer EXCEPT ![w] = s],
           writer \in [Writers -> RowWriters]
    PROVE  Postgres!Calls' = [Postgres!Calls EXCEPT ![w] = Seen(s)]
<1>1. \A v \in Writers : writer'[v] = IF v = w THEN s ELSE writer[v]
  OBVIOUS
<1> QED
  BY <1>1 DEF Postgres!Calls, Seen

LEMMA RowCallOf ==
    ASSUME NEW w \in Writers
    PROVE  /\ Postgres!Calls[w] = Seen(writer[w])
           /\ Postgres!Calls[w].state = writer[w].state
           /\ Postgres!Calls[w].expected = writer[w].expected
           /\ Postgres!Calls[w].document = writer[w].document
           /\ Postgres!Calls[w].base = writer[w].base
  BY DEF Postgres!Calls, Seen

LEMMA RowChainHead ==
    Postgres!Abstract!HeadOf(chain) = IF chain = <<>> THEN None ELSE chain[Len(chain)].digest
  BY DEF Postgres!Abstract!HeadOf

LEMMA RowAnswerIsStep ==
    ASSUME TableInv, NEW w \in Writers, NEW a \in {"appended", "refused", "failed"},
           Postgres!Answer(w, a), chain' = chain,
           a = "appended" => writer[w].state = "landed",
           a = "failed" => writer[w].state \in {"asked", "landed"},
           a = "refused" => /\ writer[w].state = "asked"
                            /\ \/ writer[w].expected # Postgres!Abstract!HeadOf(chain)
                               \/ Len(chain) > writer[w].base
    PROVE  Postgres!Abstract!Next
<1>1. writer \in [Writers -> RowWriters]
  BY TableTypes
<1>2. Postgres!Calls' = [Postgres!Calls EXCEPT ![w] = Seen(Postgres!Answered(a))]
  BY <1>1, RowCallsMove DEF Postgres!Answer
<1>3. Seen(Postgres!Answered(a)) = Postgres!Abstract!Answered(a)
  BY DEF Seen, Postgres!Answered, Postgres!Abstract!Answered
<1>4. /\ Postgres!Calls[w].state = writer[w].state /\ Postgres!Calls[w].base = writer[w].base
      /\ Postgres!Calls[w].expected = writer[w].expected
  BY RowCallOf
<1>5. CASE a = "appended"
  <2>1. Postgres!Abstract!Return(w)
    BY <1>2, <1>3, <1>4, <1>5 DEF Postgres!Abstract!Return
  <2> QED
    BY <2>1 DEF Postgres!Abstract!Next
<1>6. CASE a = "refused"
  <2>1. Postgres!Abstract!Refuse(w)
    BY <1>2, <1>3, <1>4, <1>6 DEF Postgres!Abstract!Refuse
  <2> QED
    BY <2>1 DEF Postgres!Abstract!Next
<1>7. CASE a = "failed"
  <2>1. Postgres!Abstract!Fail(w)
    BY <1>2, <1>3, <1>4, <1>7 DEF Postgres!Abstract!Fail
  <2> QED
    BY <2>1 DEF Postgres!Abstract!Next
<1> QED
  BY <1>5, <1>6, <1>7

LEMMA RowInnerStep ==
    ASSUME TableInv, NEW w \in Writers, NEW s, writer' = [writer EXCEPT ![w] = s],
           Seen(s) = Seen(writer[w]), chain' = chain
    PROVE  UNCHANGED <<chain, Postgres!Calls>>
<1>1. writer \in [Writers -> RowWriters]
  BY TableTypes
<1>2. Postgres!Calls' = [Postgres!Calls EXCEPT ![w] = Postgres!Calls[w]]
  <2>1. Postgres!Calls' = [Postgres!Calls EXCEPT ![w] = Seen(s)]
    BY <1>1, RowCallsMove
  <2>2. Seen(s) = Postgres!Calls[w]
    BY RowCallOf
  <2> QED
    BY <2>1, <2>2
<1>3. [Postgres!Calls EXCEPT ![w] = Postgres!Calls[w]] = Postgres!Calls
  BY DEF Postgres!Calls
<1> QED
  BY <1>2, <1>3

\* Every step of PostgresStore is one of the protocol, or none that a caller sees.
LEMMA RowStepIsStep ==
    ASSUME TableInv, [Postgres!Next]_Postgres!vars
    PROVE  [Postgres!Abstract!Next]_<<chain, Postgres!Calls>>
<1> USE TableTypes
<1>1. ASSUME NEW w \in Writers, NEW expected \in Documents \cup {None}, NEW document \in Documents,
             Postgres!Call(w, expected, document)
      PROVE  Postgres!Abstract!Next
  <2> DEFINE s == [pc |-> "head", state |-> "asked", expected |-> expected,
                   document |-> document, seen |-> None, base |-> Len(chain)]
  <2>1. writer[w].pc = "idle" /\ writer' = [writer EXCEPT ![w] = s] /\ chain' = chain
    BY <1>1 DEF Postgres!Call
  <2>2. RowWriterInOrder(w)
    BY DEF TableInv
  <2>3. writer[w].state \notin {"asked", "landed"}
    BY <2>1, <2>2 DEF RowWriterInOrder
  <2>4. Seen(s) = [state |-> "asked", expected |-> expected, document |-> document,
                   base |-> Len(chain)]
    BY DEF Seen
  <2> HIDE DEF s
  <2>5. Postgres!Calls' = [Postgres!Calls EXCEPT ![w] = Seen(s)]
    BY <2>1, RowCallsMove
  <2>6. Postgres!Calls[w].state = writer[w].state
    BY RowCallOf
  <2>7. Postgres!Abstract!Ask(w, expected, document)
    BY <2>1, <2>3, <2>4, <2>5, <2>6 DEF Postgres!Abstract!Ask
  <2> QED
    BY <2>7 DEF Postgres!Abstract!Next
<1>2. ASSUME NEW w \in Writers, Postgres!AppendStep(w)
      PROVE  [Postgres!Abstract!Next]_<<chain, Postgres!Calls>>
  <2>1. writer[w] \in RowWriters /\ RowWriterInOrder(w)
    BY DEF TableInv
  <2>2. CASE Postgres!ReadHead(w)
    <3>1. writer[w].pc = "head" /\ chain' = chain
      BY <2>2 DEF Postgres!ReadHead
    <3> DEFINE digest == IF Postgres!HeadRow = None THEN None ELSE Postgres!HeadRow.digest
    <3>2. CASE writer[w].expected = digest
      <4> DEFINE s == [writer[w] EXCEPT !.pc = "insert", !.seen = Postgres!HeadRow]
      <4>1. writer' = [writer EXCEPT ![w] = s] /\ Seen(s) = Seen(writer[w])
        BY <2>1, <2>2, <3>2 DEF Postgres!ReadHead, Seen, RowWriters
      <4> QED
        BY <3>1, <4>1, RowInnerStep
    <3>3. CASE writer[w].expected # digest
      <4>1. Postgres!Answer(w, "refused") /\ writer[w].state = "asked"
        BY <2>1, <2>2, <3>3 DEF Postgres!ReadHead, RowWriterInOrder
      <4>2. digest = Postgres!Abstract!HeadOf(chain)
        BY NewestIsLast, RowChainHead
      <4> QED
        BY <3>1, <3>3, <4>1, <4>2, RowAnswerIsStep
    <3> QED
      BY <3>2, <3>3
  <2>3. CASE Postgres!Insert(w)
    <3> DEFINE s == [writer[w] EXCEPT !.pc = "commit"]
    <3>1. writer' = [writer EXCEPT ![w] = s] /\ chain' = chain /\ Seen(s) = Seen(writer[w])
      BY <2>1, <2>3 DEF Postgres!Insert, Seen, RowWriters
    <3> QED
      BY <3>1, RowInnerStep
  <2>4. CASE Postgres!Collide(w)
    <3>1. /\ Postgres!Answer(w, "refused") /\ chain' = chain /\ writer[w].pc = "insert"
          /\ \E r \in rows : r.seq = Postgres!Built(w).seq
      BY <2>4 DEF Postgres!Collide, Postgres!SameKey
    <3>2. writer[w].state = "asked" /\ writer[w].base \in Nat
          /\ writer[w].base <= Postgres!Built(w).seq
      BY <2>1, <3>1, BuiltRow DEF RowWriterInOrder, RowWriters
    <3>3. PICK r \in rows : r.seq = Postgres!Built(w).seq
      BY <3>1
    <3>4. r.seq \in Nat /\ r.seq < Len(chain) /\ Len(chain) \in Nat
      BY TakenKey
    <3>5. Len(chain) > writer[w].base
      BY <3>2, <3>3, <3>4
    <3> QED
      BY <3>1, <3>2, <3>5, RowAnswerIsStep
  <2>5. CASE Postgres!Commit(w)
    <3> DEFINE s == [writer[w] EXCEPT !.pc = "committed", !.state = "landed"]
    <3>1. /\ writer' = [writer EXCEPT ![w] = s] /\ writer[w].pc = "commit"
          /\ pending[w] = Postgres!Built(w)
          /\ chain' = Append(chain, [digest |-> pending[w].digest, parent |-> pending[w].parent])
      BY <2>5 DEF Postgres!Commit
    <3>2. /\ writer[w].state = "asked" /\ pending[w].digest = writer[w].document
          /\ pending[w].parent = writer[w].expected
          /\ writer[w].expected = Postgres!Abstract!HeadOf(chain)
      BY <2>1, <3>1, BuiltRow, RowChainHead DEF RowWriterInOrder
    <3>3. Seen(s) = [Seen(writer[w]) EXCEPT !.state = "landed"]
      BY <2>1 DEF Seen, RowWriters
    <3> HIDE DEF s
    <3>4. Postgres!Calls' = [Postgres!Calls EXCEPT ![w] = Seen(s)]
      BY <3>1, RowCallsMove
    <3>5. /\ Postgres!Calls[w].state = "asked" /\ Postgres!Calls[w].expected = writer[w].expected
          /\ Postgres!Calls[w].document = writer[w].document
      BY <3>2, RowCallOf
    <3>6. Postgres!Calls' = [Postgres!Calls EXCEPT ![w].state = "landed"]
      <4>1. Seen(s) = [Postgres!Calls[w] EXCEPT !.state = "landed"]
        BY <3>3, RowCallOf
      <4> QED
        BY <3>4, <4>1
    <3>7. Postgres!Abstract!Land(w)
      BY <3>1, <3>2, <3>5, <3>6 DEF Postgres!Abstract!Land
    <3> QED
      BY <3>7 DEF Postgres!Abstract!Next
  <2>6. CASE Postgres!Return(w)
    <3>1. Postgres!Answer(w, "appended") /\ writer[w].state = "landed" /\ chain' = chain
      BY <2>1, <2>6 DEF Postgres!Return, RowWriterInOrder
    <3> QED
      BY <3>1, RowAnswerIsStep
  <2> QED
    BY <1>2, <2>2, <2>3, <2>4, <2>5, <2>6 DEF Postgres!AppendStep
<1>3. ASSUME NEW w \in Writers, Postgres!Crash(w)
      PROVE  Postgres!Abstract!Next
  <2>1. /\ Postgres!Answer(w, "failed") /\ writer[w].pc # "idle" /\ RowWriterInOrder(w)
        /\ writer[w] \in RowWriters /\ chain' = chain
    BY <1>3 DEF Postgres!Crash, TableInv
  <2>2. writer[w].state \in {"asked", "landed"}
    BY <2>1 DEF RowWriterInOrder, RowWriters
  <2> QED
    BY <2>1, <2>2, RowAnswerIsStep
<1>4. CASE UNCHANGED Postgres!vars
  BY <1>4 DEF Postgres!vars, Postgres!Calls
<1> QED
  BY <1>1, <1>2, <1>3, <1>4 DEF Postgres!Next

LEMMA RowInitIsInit == Postgres!Init => Postgres!Abstract!Init
  BY DEF Postgres!Init, Postgres!Abstract!Init, Postgres!Calls, Postgres!Answered,
         Postgres!Abstract!Answered

-----------------------------------------------------------------------------
(* Workspaces.                                                             *)

LayerRevisions ==
    [digest : Documents, parent : Documents \cup {None},
     origin : Layer!Origins \cup {"accepted", "saved"},
     ref : Documents \cup {None}, by : Writers]

Clients ==
    [pc : {"idle", "target", "seed", "append", "landed", "show", "shown"},
     answer : {None, "refused", "head_moved", "done"},
     on : Layer!Chains \cup {None}, expected : Documents \cup {None},
     document : Documents \cup {None}, origin : Layer!Origins \cup {"accepted", "saved", None},
     ref : Documents \cup {None}, base : Nat]

\* The head of a chain when it had n revisions.
HeadAt(revisions, n) == IF n = 0 THEN None ELSE revisions[n].digest

\* An operation that is going to append has appended nothing since its first call.
OwnIsBelow(c) ==
    \A i \in client[c].base + 1 .. Len(chains[client[c].on]) : chains[client[c].on][i].by # c

\* Where a graph comes from says which head the append expects: a first graph none, edits the
\* graph they were made for.
FitsOrigin(c) ==
    \/ client[c].origin = "saved" /\ client[c].on = "saves" /\ client[c].pc = "append"
    \/ /\ client[c].origin = "accepted" /\ client[c].pc = "append"
       /\ client[c].expected # None /\ client[c].ref = client[c].expected
    \/ /\ client[c].origin \in {"init", "skeleton"} /\ client[c].pc \in {"seed", "append"}
       /\ client[c].expected = None
    \/ /\ client[c].origin = "transfer" /\ client[c].on = "target"
       /\ client[c].ref = client[c].document
       /\ \E j \in 1 .. Len(chains["source"]) :
             chains["source"][j].digest = client[c].document
       /\ client[c].pc # "target" => client[c].expected = None

\* What a caller expects was the head when it began.
ClientInOrder(c) ==
    /\ client[c].pc # "idle" =>
          /\ client[c].answer = None
          /\ client[c].on \in Layer!Chains
          /\ client[c].base <= Len(chains[client[c].on])
          /\ client[c].expected = HeadAt(chains[client[c].on], client[c].base)
    /\ client[c].pc \in {"target", "seed", "append"} =>
          client[c].document \in Documents /\ OwnIsBelow(c) /\ FitsOrigin(c)
    /\ client[c].pc = "shown" =>
          \E j \in client[c].base .. Len(chains[client[c].on]) :
              client[c].ref = HeadAt(chains[client[c].on], j)

Rival(c) ==
    client[c].answer = "head_moved" =>
        /\ client[c].on \in Layer!Chains
        /\ \E i \in client[c].base + 1 .. Len(chains[client[c].on]) :
              chains[client[c].on][i].by # c

\* The inductive invariant of Workspaces.
LayerInv ==
    /\ Layer!TypeOK
    /\ chains \in [Layer!Chains -> Seq(LayerRevisions)]
    /\ Layer!SeedIsFirst
    /\ Layer!EditsFitBase
    /\ \A c \in Writers : ClientInOrder(c) /\ Rival(c)

LEMMA LayerTypes ==
    ASSUME LayerInv
    PROVE  /\ client \in [Writers -> Clients]
           /\ chains \in [Layer!Chains -> Seq(LayerRevisions)]
  BY DEF LayerInv, Layer!TypeOK, Clients

LEMMA InitLayerInv == Layer!Init => LayerInv
<1> SUFFICES ASSUME Layer!Init PROVE LayerInv
  OBVIOUS
<1>1. chains = [on \in Layer!Chains |-> <<>>] /\ client = [c \in Writers |-> Layer!Idle]
  BY DEF Layer!Init
<1>2. \A on \in Layer!Chains : chains[on] = <<>>
  BY <1>1
<1>3. Layer!Idle \in Clients
  BY DEF Layer!Idle, Clients
<1>4. Layer!TypeOK
  BY <1>1, <1>2, <1>3 DEF Layer!TypeOK, Clients
<1>5. Layer!SeedIsFirst /\ Layer!EditsFitBase
  BY <1>2 DEF Layer!SeedIsFirst, Layer!EditsFitBase, Layer!Chains
<1>6. ASSUME NEW c \in Writers
      PROVE  ClientInOrder(c) /\ Rival(c)
  <2>1. client[c].pc = "idle" /\ client[c].answer # "head_moved"
    BY <1>1, MarkerAssumption DEF Layer!Idle, Markers
  <2> QED
    BY <2>1 DEF ClientInOrder, Rival
<1>7. chains \in [Layer!Chains -> Seq(LayerRevisions)]
  BY <1>1
<1> QED
  BY <1>4, <1>5, <1>6, <1>7 DEF LayerInv

LEMMA HeadOfIsHeadAt ==
    ASSUME LayerInv, NEW on \in Layer!Chains
    PROVE  /\ Len(chains[on]) \in Nat
           /\ Layer!HeadOf(chains[on]) = HeadAt(chains[on], Len(chains[on]))
           /\ Layer!HeadOf(chains[on]) \in Documents \cup {None}
           /\ \A n \in 1 .. Len(chains[on]) : HeadAt(chains[on], n) \in Documents
           /\ \A n \in 0 .. Len(chains[on]) :
                 Layer!HeadOf(SubSeq(chains[on], 1, n)) = HeadAt(chains[on], n)
<1> DEFINE s == chains[on]
<1>1. s \in Seq(LayerRevisions)
  BY LayerTypes
<1> HIDE DEF s
<1>2. ASSUME NEW n \in 1 .. Len(s)
      PROVE  HeadAt(s, n) \in Documents
  <2>1. s[n] \in LayerRevisions /\ n # 0
    BY <1>1
  <2> QED
    BY <2>1 DEF HeadAt, LayerRevisions
<1>3. Len(s) \in Nat /\ Layer!HeadOf(s) = HeadAt(s, Len(s))
  BY <1>1 DEF Layer!HeadOf, HeadAt
<1>4. Layer!HeadOf(s) \in Documents \cup {None}
  BY <1>2, <1>3 DEF HeadAt
<1>5. ASSUME NEW n \in 0 .. Len(s)
      PROVE  Layer!HeadOf(SubSeq(s, 1, n)) = HeadAt(s, n)
  <2>1. CASE n = 0
    <3>1. SubSeq(s, 1, n) = <<>>
      BY <1>1, <2>1
    <3> QED
      BY <2>1, <3>1 DEF Layer!HeadOf, HeadAt
  <2>2. CASE n # 0
    <3>1. Len(SubSeq(s, 1, n)) = n /\ SubSeq(s, 1, n)[n] = s[n]
      BY <1>1, <1>3, <2>2
    <3>2. SubSeq(s, 1, n) # <<>>
      BY <2>2, <3>1
    <3> QED
      BY <2>2, <3>1, <3>2 DEF Layer!HeadOf, HeadAt
  <2> QED
    BY <2>1, <2>2
<1> QED
  BY <1>2, <1>3, <1>4, <1>5 DEF s

\* A step of c moves c only, and appends at most revisions of c.
LayerMoves(c) ==
    /\ \A v \in Writers \ {c} : client'[v] = client[v]
    /\ \A on \in Layer!Chains :
          /\ Len(chains'[on]) \in Nat /\ Len(chains[on]) <= Len(chains'[on])
          /\ \A i \in 1 .. Len(chains[on]) : chains'[on][i] = chains[on][i]
          /\ \A i \in Len(chains[on]) + 1 .. Len(chains'[on]) : chains'[on][i].by = c

\* The callers that do not move stay in order.
LEMMA OthersStayInOrder ==
    ASSUME LayerInv, NEW c \in Writers, LayerMoves(c), NEW v \in Writers, v # c
    PROVE  ClientInOrder(v)' /\ Rival(v)'
<1>1. client'[v] = client[v] /\ client[v] \in Clients
  BY LayerTypes DEF LayerMoves
<1>2. ClientInOrder(v) /\ Rival(v)
  BY DEF LayerInv
<1>3. client[v].base \in Nat
  BY <1>1 DEF Clients
<1>4. ASSUME NEW on \in Layer!Chains, NEW n \in 0 .. Len(chains[on])
      PROVE  HeadAt(chains'[on], n) = HeadAt(chains[on], n)
  BY HeadOfIsHeadAt DEF LayerMoves, HeadAt
<1>5. ASSUME NEW on \in Layer!Chains
      PROVE  /\ Len(chains[on]) \in Nat /\ Len(chains'[on]) \in Nat
             /\ Len(chains[on]) <= Len(chains'[on])
             /\ \A i \in 1 .. Len(chains[on]) : chains'[on][i] = chains[on][i]
             /\ \A i \in Len(chains[on]) + 1 .. Len(chains'[on]) : chains'[on][i].by # v
  BY HeadOfIsHeadAt DEF LayerMoves
<1>6. ASSUME client[v].pc # "idle"
      PROVE  /\ client[v].on \in Layer!Chains
             /\ client[v].answer = None
             /\ client[v].base <= Len(chains'[client[v].on])
             /\ client[v].expected = HeadAt(chains'[client[v].on], client[v].base)
  <2>1. /\ client[v].on \in Layer!Chains /\ client[v].answer = None
        /\ client[v].base <= Len(chains[client[v].on])
        /\ client[v].expected = HeadAt(chains[client[v].on], client[v].base)
    BY <1>2, <1>6 DEF ClientInOrder
  <2>2. client[v].base \in 0 .. Len(chains[client[v].on])
    BY <1>3, <1>5, <2>1
  <2>3. client[v].base <= Len(chains'[client[v].on])
    BY <1>3, <1>5, <2>1
  <2> QED
    BY <1>4, <2>1, <2>2, <2>3
<1>7. ASSUME client[v].pc \in {"target", "seed", "append"}
      PROVE  OwnIsBelow(v)'
  <2>1. client[v].on \in Layer!Chains /\ OwnIsBelow(v)
    BY <1>2, <1>7 DEF ClientInOrder
  <2>2. ASSUME NEW i \in client[v].base + 1 .. Len(chains'[client[v].on])
        PROVE  chains'[client[v].on][i].by # v
    <3>1. CASE i <= Len(chains[client[v].on])
      <4>1. /\ i \in client[v].base + 1 .. Len(chains[client[v].on])
            /\ i \in 1 .. Len(chains[client[v].on])
        BY <1>3, <1>5, <2>1, <2>2, <3>1
      <4> QED
        BY <1>5, <2>1, <4>1 DEF OwnIsBelow
    <3>2. CASE ~ i <= Len(chains[client[v].on])
      <4>1. i \in Len(chains[client[v].on]) + 1 .. Len(chains'[client[v].on])
        BY <1>3, <1>5, <2>1, <2>2, <3>2
      <4> QED
        BY <1>5, <2>1, <4>1
    <3> QED
      BY <3>1, <3>2
  <2> QED
    BY <1>1, <2>2 DEF OwnIsBelow
<1>8. ASSUME client[v].pc \in {"target", "seed", "append"}
      PROVE  FitsOrigin(v)'
  <2>1. FitsOrigin(v)
    BY <1>2, <1>8 DEF ClientInOrder
  <2>2. "source" \in Layer!Chains
    BY DEF Layer!Chains, Layer!Graphs
  <2>3. (\E j \in 1 .. Len(chains["source"]) : chains["source"][j].digest = client[v].document)
        => \E j \in 1 .. Len(chains'["source"]) : chains'["source"][j].digest = client[v].document
    BY <1>5, <2>2
  <2> QED
    BY <1>1, <2>1, <2>3 DEF FitsOrigin
<1>9. ASSUME client[v].pc = "shown"
      PROVE  \E j \in client[v].base .. Len(chains'[client[v].on]) :
                 client[v].ref = HeadAt(chains'[client[v].on], j)
  <2>1. client[v].on \in Layer!Chains
    BY <1>2, <1>9 DEF ClientInOrder
  <2>2. PICK j \in client[v].base .. Len(chains[client[v].on]) :
                 client[v].ref = HeadAt(chains[client[v].on], j)
    BY <1>2, <1>9 DEF ClientInOrder
  <2>3. /\ j \in 0 .. Len(chains[client[v].on])
        /\ j \in client[v].base .. Len(chains'[client[v].on])
    BY <1>3, <1>5, <2>1, <2>2
  <2> QED
    BY <1>4, <2>1, <2>2, <2>3
<1>10. ClientInOrder(v)'
  <2>1. client[v].pc \in {"target", "seed", "append"} => client[v].document \in Documents
    BY <1>2 DEF ClientInOrder
  <2> QED
    BY <1>1, <1>6, <1>7, <1>8, <1>9, <2>1 DEF ClientInOrder
<1>11. Rival(v)'
  <2> SUFFICES ASSUME client[v].answer = "head_moved"
               PROVE  /\ client[v].on \in Layer!Chains
                      /\ \E i \in client[v].base + 1 .. Len(chains'[client[v].on]) :
                            chains'[client[v].on][i].by # v
    BY <1>1 DEF Rival
  <2>1. client[v].on \in Layer!Chains
    BY <1>2 DEF Rival
  <2>2. PICK i \in client[v].base + 1 .. Len(chains[client[v].on]) :
                 chains[client[v].on][i].by # v
    BY <1>2 DEF Rival
  <2>3. /\ i \in 1 .. Len(chains[client[v].on])
        /\ i \in client[v].base + 1 .. Len(chains'[client[v].on])
    BY <1>3, <1>5, <2>1, <2>2
  <2> QED
    BY <1>5, <2>1, <2>2, <2>3
<1> QED
  BY <1>10, <1>11

\* A step that leaves the chains alone need only keep its own caller in order.
LEMMA ClientSteps ==
    ASSUME LayerInv, NEW c \in Writers, NEW s \in Clients,
           client' = [client EXCEPT ![c] = s], chains' = chains,
           ClientInOrder(c)', Rival(c)'
    PROVE  LayerInv'
<1>1. client \in [Writers -> Clients] /\ chains \in [Layer!Chains -> Seq(LayerRevisions)]
  BY LayerTypes
<1>2. client' \in [Writers -> Clients] /\ \A v \in Writers \ {c} : client'[v] = client[v]
  BY <1>1
<1>3. LayerMoves(c)
  <2>1. \A on \in Layer!Chains : Len(chains[on]) \in Nat
    BY HeadOfIsHeadAt
  <2> QED
    BY <1>2, <2>1 DEF LayerMoves
<1>4. \A v \in Writers : ClientInOrder(v)' /\ Rival(v)'
  BY <1>3, OthersStayInOrder
<1>5. Layer!TypeOK'
  BY <1>2 DEF LayerInv, Layer!TypeOK, Clients
<1>6. Layer!SeedIsFirst' /\ Layer!EditsFitBase'
  BY DEF LayerInv, Layer!SeedIsFirst, Layer!EditsFitBase
<1> QED
  BY <1>1, <1>4, <1>5, <1>6 DEF LayerInv


\* The head of a chain, seen by a caller that begins now.
LEMMA BeginsInOrder ==
    ASSUME LayerInv, NEW c \in Writers, NEW on \in Layer!Chains, NEW s \in Clients,
           client' = [client EXCEPT ![c] = s], chains' = chains,
           s.answer = None, s.on = on, s.expected = Layer!HeadOf(chains[on]),
           s.base = Len(chains[on]), s.pc # "shown",
           s.pc \in {"target", "seed", "append"} => s.document \in Documents /\ FitsOrigin(c)'
    PROVE  LayerInv'
<1>1. client'[c] = s
  BY LayerTypes
<1>2. Len(chains[on]) \in Nat /\ s.expected = HeadAt(chains[on], Len(chains[on]))
  BY HeadOfIsHeadAt
<1>3. OwnIsBelow(c)'
  BY <1>1, <1>2 DEF OwnIsBelow
<1>4. ClientInOrder(c)'
  BY <1>1, <1>2, <1>3 DEF ClientInOrder
<1>5. Rival(c)'
  BY <1>1, MarkerAssumption DEF Rival, Markers
<1> QED
  BY <1>4, <1>5, ClientSteps

\* A call that has its answer.
LEMMA AnswerInOrder ==
    ASSUME LayerInv, NEW c \in Writers, NEW a \in {None, "refused", "done"},
           Layer!Answer(c, a), chains' = chains
    PROVE  LayerInv'
<1> DEFINE s == [Layer!Idle EXCEPT !.answer = a]
<1>1. s \in Clients /\ s.pc = "idle" /\ s.answer = a
  BY DEF Layer!Idle, Clients
<1>2. client' = [client EXCEPT ![c] = s]
  BY DEF Layer!Answer
<1> HIDE DEF s
<1>3. client'[c] = s
  BY <1>2, LayerTypes
<1>4. a # "head_moved"
  BY MarkerAssumption DEF Markers
<1>5. ClientInOrder(c)' /\ Rival(c)'
  BY <1>1, <1>3, <1>4 DEF ClientInOrder, Rival
<1> QED
  BY <1>1, <1>2, <1>5, ClientSteps

\* An append that another overtook.
LEMMA RefusedInOrder ==
    ASSUME LayerInv, NEW c \in Writers, client[c].pc \in {"seed", "append"},
           client[c].base < Len(chains[client[c].on]), Layer!Refused(c), chains' = chains
    PROVE  LayerInv'
<1> DEFINE s == [Layer!Idle EXCEPT !.answer = "head_moved", !.on = client[c].on,
                                   !.base = client[c].base]
<1>1. client[c] \in Clients /\ ClientInOrder(c)
  BY LayerTypes DEF LayerInv
<1>2. /\ client[c].on \in Layer!Chains /\ OwnIsBelow(c) /\ client[c].base \in Nat
      /\ Len(chains[client[c].on]) \in Nat
  BY <1>1, HeadOfIsHeadAt DEF ClientInOrder, Clients
<1>3. /\ s \in Clients /\ s.pc = "idle" /\ s.answer = "head_moved"
      /\ s.on = client[c].on /\ s.base = client[c].base
  BY <1>1 DEF Layer!Idle, Clients
<1>4. client' = [client EXCEPT ![c] = s]
  BY DEF Layer!Refused
<1> HIDE DEF s
<1>5. client'[c] = s
  BY <1>4, LayerTypes
<1>6. client[c].base + 1 \in client[c].base + 1 .. Len(chains[client[c].on])
  BY <1>2
<1>7. chains[client[c].on][client[c].base + 1].by # c
  BY <1>2, <1>6 DEF OwnIsBelow
<1>8. ClientInOrder(c)' /\ Rival(c)'
  BY <1>2, <1>3, <1>5, <1>6, <1>7 DEF ClientInOrder, Rival
<1> QED
  BY <1>3, <1>4, <1>8, ClientSteps

\* The only step that moves a chain.
LEMMA LandInOrder ==
    ASSUME LayerInv, NEW c \in Writers, Layer!Land(c)
    PROVE  LayerInv'
<1> DEFINE on == client[c].on
           r == [digest |-> client[c].document, parent |-> Layer!HeadOf(chains[on]),
                 origin |-> client[c].origin, ref |-> client[c].ref, by |-> c]
           s == [client[c] EXCEPT !.pc = "landed"]
           n == Len(chains[on])
<1>1. /\ client[c] \in Clients /\ ClientInOrder(c) /\ client[c].pc = "append"
      /\ client[c].expected = Layer!HeadOf(chains[on])
  BY LayerTypes DEF LayerInv, Layer!Land, Layer!Matches
<1>2. /\ on \in Layer!Chains /\ client[c].document \in Documents /\ FitsOrigin(c)
      /\ client[c].answer = None /\ client[c].base \in Nat
      /\ client[c].base <= n /\ client[c].expected = HeadAt(chains[on], client[c].base)
  BY <1>1 DEF ClientInOrder, Clients
<1>3. /\ s \in Clients /\ s.pc = "landed" /\ s.answer = None /\ s.on = on
      /\ s.base = client[c].base /\ s.expected = client[c].expected
  BY <1>1, <1>2 DEF Clients
<1>4. r \in LayerRevisions
  <2>1. Layer!HeadOf(chains[on]) \in Documents \cup {None} /\ client[c].ref \in Documents \cup {None}
    BY <1>1, <1>2, HeadOfIsHeadAt DEF Clients
  <2>2. client[c].origin \in Layer!Origins \cup {"accepted", "saved"}
    BY <1>2 DEF FitsOrigin, Layer!Origins
  <2> QED
    BY <1>2, <2>1, <2>2 DEF LayerRevisions
<1>5. client' = [client EXCEPT ![c] = s] /\ chains' = [chains EXCEPT ![on] = Append(chains[on], r)]
  BY <1>2, LayerTypes DEF Layer!Land, Layer!Goes
<1>6. /\ r.digest = client[c].document /\ r.parent = client[c].expected /\ r.by = c
      /\ r.origin = client[c].origin /\ r.ref = client[c].ref
  BY <1>1
<1> HIDE DEF s, r
<1>7. client' \in [Writers -> Clients] /\ client'[c] = s
      /\ \A v \in Writers \ {c} : client'[v] = client[v]
  BY <1>3, <1>5, LayerTypes
<1>8. /\ n \in Nat /\ chains[on] \in Seq(LayerRevisions)
      /\ chains' \in [Layer!Chains -> Seq(LayerRevisions)]
      /\ chains'[on] = Append(chains[on], r)
      /\ \A o \in Layer!Chains \ {on} : chains'[o] = chains[o]
  BY <1>2, <1>4, <1>5, LayerTypes
<1>9. /\ Len(chains'[on]) = n + 1 /\ chains'[on][n + 1] = r
      /\ \A i \in 1 .. n : chains'[on][i] = chains[on][i]
  BY <1>4, <1>8
<1>10. LayerMoves(c)
  <2>1. ASSUME NEW o \in Layer!Chains
        PROVE  /\ Len(chains'[o]) \in Nat /\ Len(chains[o]) <= Len(chains'[o])
               /\ \A i \in 1 .. Len(chains[o]) : chains'[o][i] = chains[o][i]
               /\ \A i \in Len(chains[o]) + 1 .. Len(chains'[o]) : chains'[o][i].by = c
    <3>1. CASE o = on
      BY <1>6, <1>8, <1>9, <3>1
    <3>2. CASE o # on
      <4>1. chains'[o] = chains[o] /\ Len(chains[o]) \in Nat
        BY <1>8, <3>2, HeadOfIsHeadAt
      <4> QED
        BY <4>1
    <3> QED
      BY <3>1, <3>2
  <2> QED
    BY <1>7, <2>1 DEF LayerMoves
<1>11. ASSUME NEW v \in Writers
       PROVE  ClientInOrder(v)' /\ Rival(v)'
  <2>1. CASE v = c
    <3>1. HeadAt(chains'[on], client[c].base) = HeadAt(chains[on], client[c].base)
      BY <1>2, <1>8, <1>9 DEF HeadAt
    <3>2. client[c].base <= Len(chains'[on])
      BY <1>2, <1>8, <1>9
    <3>3. ClientInOrder(c)'
      BY <1>2, <1>3, <1>7, <3>1, <3>2 DEF ClientInOrder
    <3>4. Rival(c)'
      BY <1>3, <1>7, MarkerAssumption DEF Rival, Markers
    <3> QED
      BY <2>1, <3>3, <3>4
  <2>2. CASE v # c
    BY <1>10, <2>2, OthersStayInOrder
  <2> QED
    BY <2>1, <2>2
<1>12. r.parent = IF n + 1 = 1 THEN None ELSE chains[on][n].digest
  <2>1. r.parent = HeadAt(chains[on], n)
    BY <1>1, <1>2, <1>6, HeadOfIsHeadAt
  <2>2. n + 1 = 1 <=> n = 0
    BY <1>8
  <2> QED
    BY <2>1, <2>2 DEF HeadAt
<1>13. Layer!TypeOK'
  <2>1. ASSUME NEW o \in Layer!Chains, NEW i \in 1 .. Len(chains'[o])
        PROVE  /\ chains'[o][i] \in LayerRevisions
               /\ chains'[o][i].parent = IF i = 1 THEN None ELSE chains'[o][i - 1].digest
    <3>1. chains'[o][i] \in LayerRevisions
      BY <1>8
    <3>2. CASE o = on /\ i = n + 1
      <4>1. chains'[o][i] = r
        BY <1>9, <3>2
      <4>2. i = 1 <=> n + 1 = 1
        BY <3>2
      <4>3. i # 1 => i - 1 = n /\ n \in 1 .. n
        BY <1>8, <3>2
      <4>4. i # 1 => chains'[o][i - 1] = chains[on][n]
        BY <1>9, <3>2, <4>3
      <4> QED
        BY <1>12, <3>1, <4>1, <4>2, <4>4
    <3>3. CASE ~ (o = on /\ i = n + 1)
      <4>1. i \in 1 .. Len(chains[o]) /\ Len(chains[o]) \in Nat
        BY <1>8, <1>9, <3>3, HeadOfIsHeadAt
      <4>2. chains[o][i].parent = IF i = 1 THEN None ELSE chains[o][i - 1].digest
        BY <4>1 DEF LayerInv, Layer!TypeOK
      <4>3. /\ chains'[o][i] = chains[o][i]
            /\ i # 1 => chains'[o][i - 1] = chains[o][i - 1]
        BY <1>10, <4>1 DEF LayerMoves
      <4> QED
        BY <3>1, <4>2, <4>3
    <3> QED
      BY <3>2, <3>3
  <2> QED
    BY <1>7, <2>1 DEF Layer!TypeOK, Clients, LayerRevisions
<1>14. ASSUME NEW o \in Layer!Graphs, NEW i \in 1 .. Len(chains'[o]), o = on, i = n + 1
       PROVE  /\ client[c].origin \in Layer!Origins <=> n = 0
              /\ client[c].origin = "transfer" => o = "target"
              /\ client[c].origin = "accepted" => client[c].ref = client[c].expected
  <2>1. client[c].origin \in Layer!Origins <=> client[c].expected = None
    <3>1. on # "saves"
      BY <1>14 DEF Layer!Graphs
    <3> QED
      BY <1>1, <1>2, <3>1 DEF FitsOrigin, Layer!Origins
  <2>2. client[c].expected = None <=> n = 0
    <3>1. client[c].expected = HeadAt(chains[on], n)
      BY <1>1, <1>2, HeadOfIsHeadAt
    <3>2. n # 0 => HeadAt(chains[on], n) \in Documents
      <4>1. n # 0 => n \in 1 .. n
        BY <1>8
      <4> QED
        BY <1>2, <4>1, HeadOfIsHeadAt
    <3>3. n = 0 => HeadAt(chains[on], n) = None
      BY DEF HeadAt
    <3> QED
      BY <3>1, <3>2, <3>3
  <2>3. /\ client[c].origin = "transfer" => on = "target"
        /\ client[c].origin = "accepted" => client[c].ref = client[c].expected
    BY <1>2 DEF FitsOrigin
  <2> QED
    BY <1>14, <2>1, <2>2, <2>3
<1>15. \A d : (\E j \in 1 .. Len(chains["source"]) : chains["source"][j].digest = d)
              => \E j \in 1 .. Len(chains'["source"]) : chains'["source"][j].digest = d
  <2>1. "source" \in Layer!Chains
    BY DEF Layer!Chains, Layer!Graphs
  <2>2. Len(chains["source"]) \in Nat
    BY <2>1, HeadOfIsHeadAt
  <2> QED
    BY <1>10, <2>1, <2>2 DEF LayerMoves
<1>16. ASSUME NEW o \in Layer!Graphs, NEW i \in 1 .. Len(chains'[o])
       PROVE  /\ chains'[o][i].origin \in Layer!Origins <=> i = 1
              /\ chains'[o][i].origin = "transfer" =>
                    /\ o = "target"
                    /\ \E j \in 1 .. Len(chains'["source"]) :
                          chains'["source"][j].digest = chains'[o][i].digest
                    /\ chains'[o][i].ref = chains'[o][i].digest
              /\ chains'[o][i].origin = "accepted" => chains'[o][i].ref = chains'[o][i].parent
  <2>1. CASE o = on /\ i = n + 1
    <3>1. chains'[o][i] = r
      BY <1>9, <2>1
    <3>2. /\ r.origin \in Layer!Origins <=> i = 1
          /\ r.origin = "transfer" => o = "target"
          /\ r.origin = "accepted" => r.ref = r.parent
      BY <1>6, <1>8, <1>14, <2>1
    <3>3. r.origin = "transfer" =>
             /\ r.ref = r.digest
             /\ \E j \in 1 .. Len(chains'["source"]) : chains'["source"][j].digest = r.digest
      BY <1>2, <1>6, <1>15 DEF FitsOrigin
    <3> QED
      BY <3>1, <3>2, <3>3
  <2>2. CASE ~ (o = on /\ i = n + 1)
    <3>1. o \in Layer!Chains
      BY DEF Layer!Chains
    <3>2. i \in 1 .. Len(chains[o])
      BY <1>8, <1>9, <2>2, <3>1, HeadOfIsHeadAt
    <3>3. chains'[o][i] = chains[o][i]
      BY <1>10, <3>1, <3>2 DEF LayerMoves
    <3>4. /\ chains[o][i].origin \in Layer!Origins <=> i = 1
          /\ chains[o][i].origin = "transfer" =>
                /\ o = "target"
                /\ \E j \in 1 .. Len(chains["source"]) :
                      chains["source"][j].digest = chains[o][i].digest
                /\ chains[o][i].ref = chains[o][i].digest
      BY <3>2 DEF LayerInv, Layer!SeedIsFirst
    <3>5. chains[o][i].origin = "accepted" => chains[o][i].ref = chains[o][i].parent
      BY <3>2 DEF LayerInv, Layer!EditsFitBase
    <3> QED
      BY <1>15, <3>3, <3>4, <3>5
  <2> QED
    BY <2>1, <2>2
<1>17. Layer!SeedIsFirst' /\ Layer!EditsFitBase'
  BY <1>16 DEF Layer!SeedIsFirst, Layer!EditsFitBase
<1> QED
  BY <1>8, <1>11, <1>13, <1>17 DEF LayerInv

LEMMA NextLayerInv == LayerInv /\ [Layer!Next]_Layer!vars => LayerInv'
<1> SUFFICES ASSUME LayerInv, [Layer!Next]_Layer!vars PROVE LayerInv'
  OBVIOUS
<1> USE LayerTypes
<1>1. ASSUME NEW c \in Writers, NEW on \in Layer!Graphs, NEW document \in Documents, NEW pc, NEW origin,
             NEW ref \in Documents \cup {None},
             Layer!BeginsAppend(c, pc, on, document, origin, ref), chains' = chains,
             \/ chains[on] = <<>> /\ pc = "seed" /\ origin \in {"init", "skeleton"}
             \/ /\ chains[on] # <<>> /\ pc = "append" /\ origin = "accepted"
                /\ ref = Layer!HeadOf(chains[on])
      PROVE  LayerInv'
  <2> DEFINE s == [pc |-> pc, answer |-> None, on |-> on, expected |-> Layer!HeadOf(chains[on]),
                   document |-> document, origin |-> origin, ref |-> ref, base |-> Len(chains[on])]
  <2>1. on \in Layer!Chains /\ Len(chains[on]) \in Nat
        /\ Layer!HeadOf(chains[on]) \in Documents \cup {None}
    BY HeadOfIsHeadAt DEF Layer!Chains
  <2>2. s \in Clients
    BY <1>1, <2>1 DEF Clients, Layer!Origins
  <2>3. client' = [client EXCEPT ![c] = s]
    BY <1>1 DEF Layer!BeginsAppend
  <2>4. /\ s.pc = pc /\ s.answer = None /\ s.on = on /\ s.expected = Layer!HeadOf(chains[on])
        /\ s.document = document /\ s.origin = origin /\ s.ref = ref /\ s.base = Len(chains[on])
    OBVIOUS
  <2> HIDE DEF s
  <2>5. client'[c] = s
    BY <2>3
  <2>6. chains[on] = <<>> => Layer!HeadOf(chains[on]) = None
    BY DEF Layer!HeadOf
  <2>7. chains[on] # <<>> => Layer!HeadOf(chains[on]) # None
    <3>1. chains[on] \in Seq(LayerRevisions)
      BY <2>1
    <3>2. chains[on] # <<>> => Len(chains[on]) \in 1 .. Len(chains[on])
      BY <3>1
    <3>3. chains[on] # <<>> => HeadAt(chains[on], Len(chains[on])) \in Documents
      BY <2>1, <3>2, HeadOfIsHeadAt
    <3> QED
      BY <2>1, <3>3, HeadOfIsHeadAt
  <2>8. FitsOrigin(c)'
    BY <1>1, <2>4, <2>5, <2>6, <2>7 DEF FitsOrigin
  <2> QED
    BY <1>1, <2>1, <2>2, <2>3, <2>4, <2>8, BeginsInOrder
<1>2. ASSUME NEW c \in Writers, NEW on \in Layer!Graphs, NEW document \in Documents,
             Layer!InitLoads(c, on, document)
      PROVE  LayerInv'
  <2>1. CASE chains[on] # <<>> /\ Layer!Refuses(c)
    BY <1>2, <2>1, AnswerInOrder DEF Layer!InitLoads, Layer!Refuses
  <2>2. CASE chains[on] = <<>> /\ Layer!BeginsAppend(c, "seed", on, document, "init", None)
    BY <1>1, <1>2, <2>2 DEF Layer!InitLoads
  <2> QED
    BY <1>2, <2>1, <2>2 DEF Layer!InitLoads
<1>3. ASSUME NEW c \in Writers, NEW on \in Layer!Graphs, NEW document \in Documents,
             Layer!EvolveLoads(c, on, document)
      PROVE  LayerInv'
  <2>1. CASE chains[on] = <<>> /\ Layer!BeginsAppend(c, "seed", on, document, "skeleton", None)
    BY <1>1, <1>3, <2>1 DEF Layer!EvolveLoads
  <2>2. CASE /\ chains[on] # <<>>
             /\ Layer!BeginsAppend(c, "append", on, document, "accepted", Layer!HeadOf(chains[on]))
    <3>1. Layer!HeadOf(chains[on]) \in Documents \cup {None}
      BY HeadOfIsHeadAt DEF Layer!Chains
    <3> QED
      BY <1>1, <1>3, <2>2, <3>1 DEF Layer!EvolveLoads
  <2> QED
    BY <1>3, <2>1, <2>2 DEF Layer!EvolveLoads
<1>4. ASSUME NEW c \in Writers, NEW document \in Documents, Layer!SaveLoads(c, document)
      PROVE  LayerInv'
  <2> DEFINE s == [pc |-> "append", answer |-> None, on |-> "saves",
                   expected |-> Layer!HeadOf(chains["saves"]), document |-> document,
                   origin |-> "saved", ref |-> None, base |-> Len(chains["saves"])]
  <2>1. "saves" \in Layer!Chains /\ Len(chains["saves"]) \in Nat
        /\ Layer!HeadOf(chains["saves"]) \in Documents \cup {None}
    BY HeadOfIsHeadAt DEF Layer!Chains
  <2>2. s \in Clients
    BY <2>1 DEF Clients
  <2>3. client' = [client EXCEPT ![c] = s] /\ chains' = chains
    BY <1>4 DEF Layer!SaveLoads, Layer!BeginsAppend
  <2>4. /\ s.pc = "append" /\ s.answer = None /\ s.on = "saves" /\ s.origin = "saved"
        /\ s.expected = Layer!HeadOf(chains["saves"]) /\ s.document = document
        /\ s.base = Len(chains["saves"])
    OBVIOUS
  <2> HIDE DEF s
  <2>5. FitsOrigin(c)'
    BY <2>3, <2>4 DEF FitsOrigin
  <2> QED
    BY <2>1, <2>2, <2>3, <2>4, <2>5, BeginsInOrder
<1>5. ASSUME NEW c \in Writers, NEW on \in Layer!Graphs, Layer!ShowLoads(c, on)
      PROVE  LayerInv'
  <2> DEFINE s == [Layer!Idle EXCEPT !.pc = "show", !.on = on,
                   !.expected = Layer!HeadOf(chains[on]), !.base = Len(chains[on])]
  <2>1. on \in Layer!Chains /\ Len(chains[on]) \in Nat
        /\ Layer!HeadOf(chains[on]) \in Documents \cup {None}
    BY HeadOfIsHeadAt DEF Layer!Chains
  <2>2. /\ s \in Clients /\ s.pc = "show" /\ s.answer = None /\ s.on = on
        /\ s.expected = Layer!HeadOf(chains[on]) /\ s.base = Len(chains[on])
    BY <2>1 DEF Clients, Layer!Idle
  <2>3. client' = [client EXCEPT ![c] = s] /\ chains' = chains
    BY <1>5 DEF Layer!ShowLoads, Layer!Begins
  <2> HIDE DEF s
  <2> QED
    BY <2>1, <2>2, <2>3, BeginsInOrder
<1>6. ASSUME NEW c \in Writers, Layer!TransferLoads(c)
      PROVE  LayerInv'
  <2> DEFINE d == Layer!HeadOf(chains["source"])
             s == [pc |-> "target", answer |-> None, on |-> "target",
                   expected |-> Layer!HeadOf(chains["target"]), document |-> d,
                   origin |-> "transfer", ref |-> d, base |-> Len(chains["target"])]
  <2>1. CASE d = None
    BY <1>6, <2>1, AnswerInOrder DEF Layer!TransferLoads, Layer!Refuses
  <2>2. CASE d # None
    <3>1. /\ "target" \in Layer!Chains /\ "source" \in Layer!Chains
          /\ Len(chains["target"]) \in Nat /\ Len(chains["source"]) \in Nat
          /\ Layer!HeadOf(chains["target"]) \in Documents \cup {None}
          /\ d \in Documents \cup {None} /\ d = HeadAt(chains["source"], Len(chains["source"]))
      BY HeadOfIsHeadAt DEF Layer!Chains, Layer!Graphs
    <3>2. d \in Documents
      BY <2>2, <3>1
    <3>3. \E j \in 1 .. Len(chains["source"]) : chains["source"][j].digest = d
      <4>1. Len(chains["source"]) # 0 /\ chains["source"][Len(chains["source"])].digest = d
        BY <2>2, <3>1 DEF HeadAt
      <4>2. Len(chains["source"]) \in 1 .. Len(chains["source"])
        BY <3>1, <4>1
      <4> QED
        BY <4>1, <4>2
    <3>4. client' = [client EXCEPT ![c] = s] /\ chains' = chains
      BY <1>6, <2>2 DEF Layer!TransferLoads, Layer!BeginsAppend
    <3> HIDE DEF d
    <3>5. s \in Clients
      BY <3>1 DEF Clients, Layer!Origins
    <3>6. /\ s.pc = "target" /\ s.answer = None /\ s.on = "target" /\ s.origin = "transfer"
          /\ s.expected = Layer!HeadOf(chains["target"]) /\ s.document = d /\ s.ref = d
          /\ s.base = Len(chains["target"])
      OBVIOUS
    <3> HIDE DEF s
    <3>7. client'[c] = s
      BY <3>4
    <3>8. FitsOrigin(c)'
      BY <3>3, <3>4, <3>6, <3>7 DEF FitsOrigin
    <3> QED
      BY <3>1, <3>2, <3>4, <3>5, <3>6, <3>8, BeginsInOrder
  <2> QED
    BY <2>1, <2>2
<1>7. ASSUME NEW c \in Writers, Layer!TransferChecks(c)
      PROVE  LayerInv'
  <2>1. client[c].pc = "target" /\ chains' = chains /\ client[c] \in Clients /\ ClientInOrder(c)
    BY <1>7 DEF Layer!TransferChecks, LayerInv
  <2>2. CASE chains["target"] = <<>>
    <3> DEFINE s == [client[c] EXCEPT !.pc = "seed"]
    <3>1. client' = [client EXCEPT ![c] = s]
      BY <1>7, <2>2 DEF Layer!TransferChecks, Layer!Goes
    <3>2. /\ s \in Clients /\ s.pc = "seed" /\ s.answer = client[c].answer /\ s.on = client[c].on
          /\ s.expected = client[c].expected /\ s.document = client[c].document
          /\ s.origin = client[c].origin /\ s.ref = client[c].ref /\ s.base = client[c].base
      BY <2>1 DEF Clients
    <3> HIDE DEF s
    <3>3. client'[c] = s
      BY <3>1
    <3>4. /\ client[c].origin = "transfer" /\ client[c].on = "target"
          /\ client[c].document \in Documents
          /\ OwnIsBelow(c) /\ FitsOrigin(c) /\ client[c].answer = None
      BY <2>1 DEF ClientInOrder, FitsOrigin
    <3>5. s.expected = None
      <4>1. client[c].base <= Len(chains["target"])
            /\ client[c].expected = HeadAt(chains["target"], client[c].base)
        BY <2>1, <3>4 DEF ClientInOrder
      <4>2. client[c].base = 0
        BY <2>1, <2>2, <4>1 DEF Clients
      <4> QED
        BY <3>2, <4>1, <4>2 DEF HeadAt
    <3>6. FitsOrigin(c)'
      BY <2>1, <3>2, <3>3, <3>4, <3>5 DEF FitsOrigin
    <3>7. OwnIsBelow(c)'
      BY <2>1, <3>2, <3>3, <3>4 DEF OwnIsBelow
    <3>8. ClientInOrder(c)'
      BY <2>1, <3>2, <3>3, <3>4, <3>6, <3>7 DEF ClientInOrder
    <3>9. Rival(c)'
      BY <3>2, <3>3, <3>4, MarkerAssumption DEF Rival, Markers
    <3> QED
      BY <2>1, <3>1, <3>2, <3>8, <3>9, ClientSteps
  <2>3. CASE chains["target"] # <<>>
    BY <1>7, <2>1, <2>3, AnswerInOrder DEF Layer!TransferChecks
  <2> QED
    BY <2>2, <2>3
<1>8. ASSUME NEW c \in Writers, Layer!Seed(c)
      PROVE  LayerInv'
  <2>1. client[c].pc = "seed" /\ chains' = chains /\ client[c] \in Clients /\ ClientInOrder(c)
    BY <1>8 DEF Layer!Seed, LayerInv
  <2>2. /\ client[c].on \in Layer!Chains /\ client[c].document \in Documents
        /\ OwnIsBelow(c) /\ FitsOrigin(c) /\ client[c].answer = None
        /\ client[c].base <= Len(chains[client[c].on]) /\ client[c].base \in Nat
        /\ client[c].expected = HeadAt(chains[client[c].on], client[c].base)
    BY <2>1 DEF ClientInOrder, Clients
  <2>3. client[c].expected = None /\ client[c].origin \in Layer!Origins
    BY <2>1, <2>2 DEF FitsOrigin, Layer!Origins
  <2>4. CASE chains[client[c].on] = <<>>
    <3> DEFINE s == [client[c] EXCEPT !.pc = "append"]
    <3>1. client' = [client EXCEPT ![c] = s]
      BY <1>8, <2>4 DEF Layer!Seed, Layer!Goes
    <3>2. /\ s \in Clients /\ s.pc = "append" /\ s.answer = client[c].answer /\ s.on = client[c].on
          /\ s.expected = client[c].expected /\ s.document = client[c].document
          /\ s.origin = client[c].origin /\ s.ref = client[c].ref /\ s.base = client[c].base
      BY <2>1 DEF Clients
    <3> HIDE DEF s
    <3>3. client'[c] = s
      BY <3>1
    <3>4. FitsOrigin(c)'
      BY <2>1, <2>2, <2>3, <3>2, <3>3 DEF FitsOrigin, Layer!Origins
    <3>5. OwnIsBelow(c)'
      BY <2>1, <2>2, <3>2, <3>3 DEF OwnIsBelow
    <3>6. ClientInOrder(c)'
      BY <2>1, <2>2, <3>2, <3>3, <3>4, <3>5 DEF ClientInOrder
    <3>7. Rival(c)'
      BY <2>2, <3>2, <3>3, MarkerAssumption DEF Rival, Markers
    <3> QED
      BY <2>1, <3>1, <3>2, <3>6, <3>7, ClientSteps
  <2>5. CASE chains[client[c].on] # <<>>
    <3>1. Layer!Refused(c)
      BY <1>8, <2>5 DEF Layer!Seed
    <3>2. Len(chains[client[c].on]) \in Nat /\ Len(chains[client[c].on]) # 0
      <4>1. chains[client[c].on] \in Seq(LayerRevisions)
        BY <2>2
      <4> QED
        BY <2>5, <4>1
    <3>3. client[c].base = 0
      <4>1. client[c].base # 0 => client[c].base \in 1 .. Len(chains[client[c].on])
        BY <2>2, <3>2
      <4>2. client[c].base # 0 => HeadAt(chains[client[c].on], client[c].base) \in Documents
        BY <2>2, <4>1, HeadOfIsHeadAt
      <4> QED
        BY <2>2, <2>3, <4>2
    <3>4. client[c].base < Len(chains[client[c].on])
      BY <3>2, <3>3
    <3> QED
      BY <2>1, <3>1, <3>4, RefusedInOrder
  <2> QED
    BY <2>4, <2>5
<1>9. ASSUME NEW c \in Writers, Layer!ShowHead(c)
      PROVE  LayerInv'
  <2> DEFINE d == Layer!HeadOf(chains[client[c].on])
             s == [client[c] EXCEPT !.pc = "shown", !.ref = d]
  <2>1. client[c].pc = "show" /\ chains' = chains /\ client[c] \in Clients /\ ClientInOrder(c)
    BY <1>9 DEF Layer!ShowHead, LayerInv
  <2>2. /\ client[c].on \in Layer!Chains /\ client[c].answer = None
        /\ client[c].base <= Len(chains[client[c].on]) /\ client[c].base \in Nat
        /\ client[c].expected = HeadAt(chains[client[c].on], client[c].base)
    BY <2>1 DEF ClientInOrder, Clients
  <2>3. /\ d \in Documents \cup {None} /\ Len(chains[client[c].on]) \in Nat
        /\ d = HeadAt(chains[client[c].on], Len(chains[client[c].on]))
    BY <2>2, HeadOfIsHeadAt
  <2>4. client' = [client EXCEPT ![c] = s]
    BY <1>9 DEF Layer!ShowHead
  <2> HIDE DEF d
  <2>5. /\ s \in Clients /\ s.pc = "shown" /\ s.answer = client[c].answer /\ s.on = client[c].on
        /\ s.expected = client[c].expected /\ s.ref = d /\ s.base = client[c].base
    BY <2>1, <2>3 DEF Clients
  <2> HIDE DEF s
  <2>6. client'[c] = s
    BY <2>4
  <2>7. Len(chains[client[c].on]) \in client[c].base .. Len(chains[client[c].on])
    BY <2>2, <2>3
  <2>8. ClientInOrder(c)'
    BY <2>1, <2>2, <2>3, <2>5, <2>6, <2>7 DEF ClientInOrder
  <2>9. Rival(c)'
    BY <2>2, <2>5, <2>6, MarkerAssumption DEF Rival, Markers
  <2> QED
    BY <2>1, <2>4, <2>5, <2>8, <2>9, ClientSteps
<1>10. ASSUME NEW c \in Writers, Layer!HeadMoved(c)
       PROVE  LayerInv'
  <2>1. /\ client[c].pc = "append" /\ chains' = chains /\ ClientInOrder(c) /\ Layer!Refused(c)
        /\ client[c].expected # Layer!HeadOf(chains[client[c].on]) /\ client[c] \in Clients
    BY <1>10 DEF Layer!HeadMoved, Layer!Matches, LayerInv
  <2>2. /\ client[c].on \in Layer!Chains /\ client[c].base \in Nat
        /\ client[c].base <= Len(chains[client[c].on])
        /\ client[c].expected = HeadAt(chains[client[c].on], client[c].base)
    BY <2>1 DEF ClientInOrder, Clients
  <2>3. /\ Len(chains[client[c].on]) \in Nat
        /\ client[c].base # Len(chains[client[c].on])
    BY <2>1, <2>2, HeadOfIsHeadAt
  <2>4. client[c].base < Len(chains[client[c].on])
    BY <2>2, <2>3
  <2> QED
    BY <2>1, <2>4, RefusedInOrder
<1>11. ASSUME NEW c \in Writers, Layer!Return(c) \/ Layer!Stop(c)
       PROVE  LayerInv'
  BY <1>11, AnswerInOrder DEF Layer!Return, Layer!Stop
<1>12. CASE UNCHANGED Layer!vars
  BY <1>12 DEF Layer!vars, LayerInv, Layer!TypeOK, Layer!SeedIsFirst, Layer!EditsFitBase,
               ClientInOrder, OwnIsBelow, FitsOrigin, Rival
<1>13. CASE Layer!Next
  <2>1. PICK c \in Writers :
          \/ \E on \in Layer!Graphs :
                \/ \E document \in Documents :
                      Layer!InitLoads(c, on, document) \/ Layer!EvolveLoads(c, on, document)
                \/ Layer!ShowLoads(c, on)
          \/ \E document \in Documents : Layer!SaveLoads(c, document)
          \/ Layer!TransferLoads(c) \/ Layer!TransferChecks(c) \/ Layer!Seed(c)
          \/ Layer!ShowHead(c)
          \/ Layer!Land(c) \/ Layer!HeadMoved(c) \/ Layer!Return(c) \/ Layer!Stop(c)
    BY <1>13 DEF Layer!Next
  <2>2. CASE \E on \in Layer!Graphs :
                \/ \E document \in Documents :
                      Layer!InitLoads(c, on, document) \/ Layer!EvolveLoads(c, on, document)
                \/ Layer!ShowLoads(c, on)
    BY <1>2, <1>3, <1>5, <2>2
  <2>3. CASE \/ \E document \in Documents : Layer!SaveLoads(c, document)
             \/ Layer!TransferLoads(c) \/ Layer!TransferChecks(c) \/ Layer!Seed(c)
             \/ Layer!ShowHead(c)
    BY <1>4, <1>6, <1>7, <1>8, <1>9, <2>3
  <2>4. CASE Layer!Land(c) \/ Layer!HeadMoved(c) \/ Layer!Return(c) \/ Layer!Stop(c)
    BY <1>10, <1>11, <2>4, LandInOrder
  <2> QED
    BY <2>1, <2>2, <2>3, <2>4
<1> QED
  BY <1>12, <1>13

LEMMA LayerKeepsPromises == LayerInv => Layer!RefusedHasRival /\ Layer!ShownScoreNotOlder
<1> SUFFICES ASSUME LayerInv PROVE Layer!RefusedHasRival /\ Layer!ShownScoreNotOlder
  OBVIOUS
<1>1. Layer!RefusedHasRival
  BY DEF LayerInv, Rival, Layer!RefusedHasRival
<1>2. ASSUME NEW c \in Writers, client[c].pc = "shown"
      PROVE  /\ client[c].expected = Layer!HeadOf(SubSeq(chains[client[c].on], 1, client[c].base))
             /\ \E j \in client[c].base .. Len(chains[client[c].on]) :
                   client[c].ref = Layer!HeadOf(SubSeq(chains[client[c].on], 1, j))
  <2>1. ClientInOrder(c) /\ client[c] \in Clients
    BY LayerTypes DEF LayerInv
  <2>2. /\ client[c].on \in Layer!Chains /\ client[c].base \in Nat
        /\ client[c].base <= Len(chains[client[c].on])
        /\ client[c].expected = HeadAt(chains[client[c].on], client[c].base)
        /\ Len(chains[client[c].on]) \in Nat
    BY <1>2, <2>1, HeadOfIsHeadAt DEF ClientInOrder, Clients
  <2>3. PICK j \in client[c].base .. Len(chains[client[c].on]) :
                client[c].ref = HeadAt(chains[client[c].on], j)
    BY <1>2, <2>1 DEF ClientInOrder
  <2>4. /\ client[c].base \in 0 .. Len(chains[client[c].on])
        /\ j \in 0 .. Len(chains[client[c].on])
    BY <2>2, <2>3
  <2> QED
    BY <2>2, <2>3, <2>4, HeadOfIsHeadAt
<1> QED
  BY <1>1, <1>2 DEF Layer!ShownScoreNotOlder

-----------------------------------------------------------------------------
(* MCStores: whichever of the three a behaviour is of.                     *)

StoresInv ==
    /\ store \in {"file", "postgres", "layer"}
    /\ store = "file" => FileInv
    /\ store = "postgres" => TableInv
    /\ store = "layer" => LayerInv

LEMMA InitStoresInv == Init => StoresInv
  BY InitFileInv, InitTableInv, InitLayerInv DEF Init, StoresInv

LEMMA NextStoresInv ==
    StoresInv /\ [Next]_<<store, File!vars, Postgres!vars, Layer!vars>> => StoresInv'
<1> SUFFICES ASSUME StoresInv, [Next]_<<store, File!vars, Postgres!vars, Layer!vars>>
             PROVE  StoresInv'
  OBVIOUS
<1>1. store' = store
  BY DEF Next
<1>2. store = "file" => [File!Next]_File!vars
  BY DEF Next
<1>3. store = "postgres" => [Postgres!Next]_Postgres!vars
  BY DEF Next
<1>4. store = "layer" => [Layer!Next]_Layer!vars
  BY DEF Next
<1> QED
  BY <1>1, <1>2, <1>3, <1>4, NextFileInv, NextTableInv, NextLayerInv DEF StoresInv

\* What holds at every moment: a writer that has compared HEAD still sees that head, for it
\* holds the lock (file.py:79-95); one that has inserted its row has the number behind the
\* chain to itself, for the key is taken (postgres.py:91-113); an operation of the layer
\* expects the head it began with (revision.py:36-122).
THEOREM StoresInvariance == Spec => []StoresInv
  BY InitStoresInv, NextStoresInv, PTL DEF Spec

\* Files, rows, revisions and calls keep their types; the lock is held by a call that runs, a
\* row is pending in a transaction that is open (file.py:43-54, postgres.py:91-113).
THEOREM StoresKeepTypes == Spec => []StoresTypeOK
<1>1. StoresInv => StoresTypeOK
  BY DEF StoresInv, FileInv, TableInv, LayerInv, StoresTypeOK
<1> QED
  BY <1>1, StoresInvariance, PTL

\* Of any number of writers that stop anywhere: what HEAD has named is there, whole and linked
\* to its predecessor, the committed rows are one chain in its order, and a workspace has one
\* seed with edits on the graphs they were made for (file.py:79-95, postgres.py:20-33,
\* revision.py:36-62).
THEOREM StoredStaysChain == Spec => []StoredIsChain
<1>1. StoresInv => StoredIsChain
  BY DEF StoresInv, FileInv, TableInv, LayerInv, StoredIsChain
<1> QED
  BY <1>1, StoresInvariance, PTL

\* list() without the lock meets no half file and returns a contiguous piece of the chain,
\* and show prints no score that is older than its graph (file.py:97-119, cli.py:166-171).
THEOREM ReadersSeeChain == Spec => []ReaderSeesChain
<1>1. StoresInv => ReaderSeesChain
  BY FileReadersSeeChain, LayerKeepsPromises DEF StoresInv, ReaderSeesChain
<1> QED
  BY <1>1, StoresInvariance, PTL

\* A caller that is told HeadMoved was overtaken by another: nobody loses to a revision of his
\* own (revision.py:84-122).
THEOREM RefusedHaveRivals == Spec => []RefusedHasRival
<1>1. StoresInv => RefusedHasRival
  BY LayerKeepsPromises DEF StoresInv, RefusedHasRival
<1> QED
  BY <1>1, StoresInvariance, PTL

\* Both stores are refined by the same calls, so what one promises the other does.
LEMMA SameChain ==
    /\ File!Calls = Postgres!Calls
    /\ File!Abstract!Init <=> Postgres!Abstract!Init
    /\ File!Abstract!Next <=> Postgres!Abstract!Next
<1>1. File!Abstract!Init <=> Postgres!Abstract!Init
  BY DEF File!Abstract!Init, Postgres!Abstract!Init, File!Calls, Postgres!Calls,
         File!Abstract!Answered, Postgres!Abstract!Answered
<1>2. ASSUME NEW w \in Writers, NEW expected, NEW document
      PROVE  File!Abstract!Ask(w, expected, document) <=> Postgres!Abstract!Ask(w, expected, document)
  BY DEF File!Abstract!Ask, Postgres!Abstract!Ask, File!Calls, Postgres!Calls
<1>3. ASSUME NEW w \in Writers
      PROVE  /\ File!Abstract!Land(w) <=> Postgres!Abstract!Land(w)
             /\ File!Abstract!Return(w) <=> Postgres!Abstract!Return(w)
             /\ File!Abstract!Refuse(w) <=> Postgres!Abstract!Refuse(w)
             /\ File!Abstract!Misreport(w) <=> Postgres!Abstract!Misreport(w)
             /\ File!Abstract!Fail(w) <=> Postgres!Abstract!Fail(w)
  BY DEF File!Abstract!Land, Postgres!Abstract!Land, File!Abstract!Return, Postgres!Abstract!Return,
         File!Abstract!Refuse, Postgres!Abstract!Refuse, File!Abstract!Misreport,
         Postgres!Abstract!Misreport, File!Abstract!Fail, Postgres!Abstract!Fail,
         File!Abstract!Answered, Postgres!Abstract!Answered,
         File!Abstract!HeadOf, Postgres!Abstract!HeadOf, File!Calls, Postgres!Calls
<1>4. File!Abstract!Next <=> Postgres!Abstract!Next
  BY <1>2, <1>3 DEF File!Abstract!Next, Postgres!Abstract!Next
<1>5. File!Calls = Postgres!Calls
  BY DEF File!Calls, Postgres!Calls
<1> QED
  BY <1>1, <1>4, <1>5

\* append() of both stores is the conditional append of the RevisionStore protocol: a call
\* lands on the head it expects at one moment between call and answer, and is refused only
\* if the head is another or has moved (base.py:22-36, file.py:75-95, postgres.py:91-113).
THEOREM StoresImplementRevisionChain == Spec => ImplementsRevisionChain
<1>1. Init => File!Abstract!Init /\ Postgres!Abstract!Init
  BY FileInitIsInit, RowInitIsInit, SameChain DEF Init
<1>2. ASSUME StoresInv, [Next]_<<store, File!vars, Postgres!vars, Layer!vars>>
      PROVE  /\ [File!Abstract!Next]_<<chain, File!Calls>>
             /\ [Postgres!Abstract!Next]_<<chain, Postgres!Calls>>
  <2>1. CASE store = "file"
    <3>1. [File!Next]_File!vars /\ FileInv
      BY <1>2, <2>1 DEF Next, StoresInv
    <3>2. [File!Abstract!Next]_<<chain, File!Calls>>
      BY <3>1, FileStepIsStep
    <3> QED
      BY <3>2, SameChain DEF File!Calls, Postgres!Calls
  <2>2. CASE store = "postgres"
    <3>1. [Postgres!Next]_Postgres!vars /\ TableInv
      BY <1>2, <2>2 DEF Next, StoresInv
    <3>2. [Postgres!Abstract!Next]_<<chain, Postgres!Calls>>
      BY <3>1, RowStepIsStep
    <3> QED
      BY <3>2, SameChain DEF File!Calls, Postgres!Calls
  <2>3. CASE store = "layer"
    <3>1. UNCHANGED <<writer, chain>>
      BY <1>2, <2>3 DEF Next, File!vars
    <3> QED
      BY <3>1 DEF File!Calls, Postgres!Calls
  <2> QED
    BY <1>2, <2>1, <2>2, <2>3 DEF StoresInv
<1> QED
  BY <1>1, <1>2, StoresInvariance, PTL
     DEF Spec, ImplementsRevisionChain, File!ImplementsRevisionChain,
         Postgres!ImplementsRevisionChain, File!Abstract!Spec, Postgres!Abstract!Spec

=============================================================================

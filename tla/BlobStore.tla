------------------------------ MODULE BlobStore ------------------------------
(***************************************************************************)
(* BlobRevisionStore: one chain on an object store (S3, GCS, the memory    *)
(* reference).  A revision is an object created under its sequence number  *)
(* and digest; HEAD is an object that names one of them and is replaced    *)
(* under a precondition.  Writers and readers share nothing else.          *)
(*                                                                         *)
(* One action is one request to the object store.  The object a pointer    *)
(* names is created before the pointer and never changes, so reading it is *)
(* part of reading the pointer.                                            *)
(***************************************************************************)
EXTENDS Integers, Sequences

CONSTANTS
    Writers,     \* callers of append()
    Readers,     \* callers of list()
    Documents,   \* documents, which are their own digests
    ContentTag,  \* HEAD's tag: TRUE an ETag of its content (S3), FALSE a generation (GCS)
    Repeats,     \* the client library repeats a request whose answer was lost
    Limit,       \* list(limit)
    MaxLen,      \* bound: no revision is appended to a chain of this length
    None

\* Who created an object stands for the meta and the timestamp in it.
Objects == [seq : Nat, digest : Documents, parent : Documents \cup {None}, by : Writers]
Pointers == [seq : Nat, digest : Documents, generation : Nat]

ASSUME ConstantsAssumption ==
    /\ None \notin Documents
    /\ None \notin Pointers
    /\ ContentTag \in BOOLEAN
    /\ Repeats \in BOOLEAN
    /\ Limit \in Nat \ {0}
    /\ MaxLen \in Nat

VARIABLES
    objects,  \* the revision objects: their key (seq, digest) and what they hold
    head,     \* the object HEAD, or None
    writer,   \* the calls of append()
    reader,   \* the calls of list()
    chain     \* history: the revisions HEAD has named, oldest first

vars == <<objects, head, writer, reader, chain>>

\* A writer outside append(), with the end of its last call.
Answered(state) == [pc |-> "idle", state |-> state, expected |-> None, document |-> None,
                    seen |-> None, base |-> 0]
NotReading == [pc |-> "idle", at |-> None, got |-> <<>>]

\* A pointer without its sequence number: the tag of equal heads is equal.
Tag_DigestOnly(p) == IF ContentTag THEN p.digest ELSE p.generation

\* The version tag of HEAD as a client compares it.
Tag(p) == IF ContentTag THEN <<p.seq, p.digest>> ELSE p.generation

-----------------------------------------------------------------------------
(* append().                                                               *)

\* Numbers that count down from the head's.
Built_CountsDown(w) ==
    [seq |-> IF writer[w].seen = None THEN 0 ELSE writer[w].seen.seq - 1,
     digest |-> writer[w].document,
     parent |-> IF writer[w].seen = None THEN None ELSE writer[w].seen.digest,
     by |-> w]

\* The revision a writer builds on the head it saw: Revision.build().
Built(w) ==
    [seq |-> IF writer[w].seen = None THEN 0 ELSE writer[w].seen.seq + 1,
     digest |-> writer[w].document,
     parent |-> IF writer[w].seen = None THEN None ELSE writer[w].seen.digest,
     by |-> w]

Answer(w, state) == writer' = [writer EXCEPT ![w] = Answered(state)]

Call(w, expected, document) ==
    /\ writer[w].pc = "idle"
    /\ Len(chain) < MaxLen
    /\ writer' = [writer EXCEPT ![w] = [pc |-> "head", state |-> "asked", expected |-> expected,
                                        document |-> document, seen |-> None, base |-> Len(chain)]]
    /\ UNCHANGED <<objects, head, reader, chain>>

\* _head() and the comparison with expected_head.
ReadHead(w) ==
    /\ writer[w].pc = "head"
    /\ IF writer[w].expected = IF head = None THEN None ELSE head.digest
       THEN writer' = [writer EXCEPT ![w].pc = "put", ![w].seen = head]
       ELSE Answer(w, "refused")
    /\ UNCHANGED <<objects, head, reader, chain>>

SameKey(o, p) == o.seq = p.seq /\ o.digest = p.digest

\* put_if_absent(): the object is created, or one with this key is there already and is
\* taken for this document.
PutRevision(w) ==
    /\ writer[w].pc = "put"
    /\ IF \E o \in objects : SameKey(o, Built(w))
       THEN UNCHANGED objects
       ELSE objects' = objects \cup {Built(w)}
    /\ writer' = [writer EXCEPT ![w].pc = "advance"]
    /\ UNCHANGED <<head, reader, chain>>

\* HEAD is written whatever it is.
Matches_Always(w) == TRUE

\* The precondition of the write to HEAD.
Matches(w) ==
    IF writer[w].seen = None THEN head = None
    ELSE head # None /\ Tag(head) = Tag(writer[w].seen)

\* put_if_absent() or put_if_match() of HEAD took effect.
MoveHead(w) ==
    /\ writer[w].pc = "advance"
    /\ Matches(w)
    /\ head' = [seq |-> Built(w).seq, digest |-> Built(w).digest,
                generation |-> IF head = None THEN 1 ELSE head.generation + 1]
    /\ chain' = Append(chain, [digest |-> Built(w).digest, parent |-> Built(w).parent])
    /\ writer' = [writer EXCEPT ![w].pc = "moved", ![w].state = "landed"]
    /\ UNCHANGED <<objects, reader>>

\* The answer arrives: append() returns the revision.
Confirm(w) ==
    /\ writer[w].pc = "moved"
    /\ Answer(w, "appended")
    /\ UNCHANGED <<objects, head, reader, chain>>

\* The precondition failed: HeadMoved.
Lose(w) ==
    /\ writer[w].pc = "advance"
    /\ ~ Matches(w)
    /\ Answer(w, "refused")
    /\ UNCHANGED <<objects, head, reader, chain>>

\* The answer was lost and the library repeated the request, which now fails its own
\* precondition: HeadMoved.
Repeat(w) ==
    /\ Repeats
    /\ writer[w].pc = "moved"
    /\ ~ Matches(w)
    /\ Answer(w, "refused")
    /\ UNCHANGED <<objects, head, reader, chain>>

\* The caller's process stops, or a request raises; before or after it took effect.
Crash(w) ==
    /\ writer[w].pc # "idle"
    /\ Answer(w, "failed")
    /\ UNCHANGED <<objects, head, reader, chain>>

-----------------------------------------------------------------------------
(* list().                                                                 *)

\* The committed revision is the one HEAD names.
ListHead(c) ==
    /\ reader[c].pc = "idle"
    /\ head # None
    /\ \E o \in objects :
         /\ SameKey(o, head)
         /\ reader' = [reader EXCEPT ![c] = [pc |-> "follow", at |-> o, got |-> <<o>>]]
    /\ UNCHANGED <<objects, head, writer, chain>>

\* The parent is any object one sequence number below.
IsParent_AnyBelow(o, p) == o.seq = p.seq - 1

\* The parent's key: one sequence number below, under parent_digest.
IsParent(o, p) == o.seq = p.seq - 1 /\ o.digest = p.parent

\* _revision() of the parent.
Follow(c) ==
    /\ reader[c].pc = "follow"
    /\ Len(reader[c].got) < Limit
    /\ reader[c].at.parent # None
    /\ \E o \in objects :
         /\ IsParent(o, reader[c].at)
         /\ reader' = [reader EXCEPT ![c].at = o, ![c].got = Append(@, o)]
    /\ UNCHANGED <<objects, head, writer, chain>>

\* The limit, the first revision, or a parent that is not there.
EndOfList(c) ==
    \/ Len(reader[c].got) = Limit
    \/ reader[c].at.parent = None
    \/ ~ \E o \in objects : IsParent(o, reader[c].at)

\* list() returns.
Finish(c) ==
    /\ reader[c].pc = "follow"
    /\ EndOfList(c)
    /\ reader' = [reader EXCEPT ![c].pc = "done"]
    /\ UNCHANGED <<objects, head, writer, chain>>

\* The result is dropped.
Drop(c) ==
    /\ reader[c].pc = "done"
    /\ reader' = [reader EXCEPT ![c] = NotReading]
    /\ UNCHANGED <<objects, head, writer, chain>>

-----------------------------------------------------------------------------
Init ==
    /\ objects = {}
    /\ head = None
    /\ writer = [w \in Writers |-> Answered("idle")]
    /\ reader = [c \in Readers |-> NotReading]
    /\ chain = <<>>

AppendStep(w) ==
    \/ ReadHead(w) \/ PutRevision(w)
    \/ MoveHead(w) \/ Confirm(w) \/ Lose(w) \/ Repeat(w)

Next ==
    \/ \E w \in Writers :
        \/ \E expected \in Documents \cup {None}, document \in Documents :
              Call(w, expected, document)
        \/ AppendStep(w)
        \/ Crash(w)
    \/ \E c \in Readers : ListHead(c) \/ Follow(c) \/ Finish(c) \/ Drop(c)

Spec == Init /\ [][Next]_vars

-----------------------------------------------------------------------------
(* Properties.                                                             *)

\* The types of the objects, of HEAD and of every call.
TypeOK ==
    /\ objects \subseteq Objects
    /\ head \in Pointers \cup {None}
    /\ writer \in [Writers -> [pc : {"idle", "head", "put", "advance", "moved"},
                              state : {"idle", "asked", "landed", "appended", "refused", "failed"},
                              expected : Documents \cup {None}, document : Documents \cup {None},
                              seen : Pointers \cup {None}, base : Nat]]
    /\ reader \in [Readers -> [pc : {"idle", "follow", "done"}, at : Objects \cup {None},
                              got : Seq(Objects)]]
    /\ chain \in Seq([digest : Documents, parent : Documents \cup {None}])

\* Every revision HEAD has ever named is still there, under its own number, and its
\* parent is the revision HEAD named before it: what append() returned stays readable,
\* whatever other writers do and wherever they stop (blob.py:9-11).
ChainStored ==
    /\ head # None => head.seq = Len(chain) - 1 /\ head.digest = chain[Len(chain)].digest
    /\ \A i \in 1 .. Len(chain) :
          /\ chain[i].parent = IF i = 1 THEN None ELSE chain[i - 1].digest
          /\ \E o \in objects : /\ o.seq = i - 1
                               /\ o.digest = chain[i].digest
                               /\ o.parent = chain[i].parent

\* A reader gets a contiguous piece of that history, newest first, complete up to its
\* limit, although HEAD moves while it reads; a loser's orphan object is never in it
\* (blob.py:10-11, 117-118).
ReaderSeesChain ==
    \A c \in Readers :
        LET got == reader[c].got
        IN  got # <<>> =>
              /\ \A i \in 1 .. Len(got) :
                    /\ got[i].seq = got[1].seq - (i - 1)
                    /\ got[i].seq < Len(chain)
                    /\ got[i].digest = chain[got[i].seq + 1].digest
              /\ reader[c].pc = "done" =>
                    Len(got) = IF Limit <= got[1].seq THEN Limit ELSE got[1].seq + 1

\* The revision a writer is about to be given is the one that is stored: nobody else
\* made the object it names ("not another writer", blob.py:93-94).
StoredAsWritten ==
    \A w \in Writers : writer[w].pc = "moved" =>
        \E o \in objects : SameKey(o, Built(w)) /\ o.by = w

\* The appends as their callers see them.
Calls == [w \in Writers |-> [state |-> writer[w].state, expected |-> writer[w].expected,
                            document |-> writer[w].document, base |-> writer[w].base]]

Abstract == INSTANCE RevisionChain WITH call <- Calls

\* append() on an object store is the conditional append of the RevisionStore protocol: one
\* moment at which it takes effect, only on the head the caller named, exactly one
\* winner of a race, and, unless a request is repeated, no refusal of an append that
\* landed or whose head did not move.
ImplementsRevisionChain == Abstract!Spec

=============================================================================

------------------------------ MODULE FileStore ------------------------------
(***************************************************************************)
(* FileRevisionStore on POSIX: one chain in a directory.  HEAD is a file   *)
(* that holds a name and is replaced atomically; a revision is a file      *)
(* written in place under its sequence number and digest.  Writers hold an *)
(* advisory lock on the directory, readers do not.                         *)
(*                                                                         *)
(* One action is one system call that others can see.  The asyncio lock of *)
(* one store object only makes its own calls queue for that lock, and a    *)
(* caller that is cancelled leaves its thread running: it is a call that   *)
(* fails when the thread ends.                                             *)
(***************************************************************************)
EXTENDS StoreConstants

VARIABLES
    files,    \* the revision files: their name (seq, digest), what they hold, if all of it
    head,     \* what HEAD holds: a name, or None
    lock,     \* who holds the lock on the directory, or None
    writer,   \* the calls of append()
    reader,   \* the calls of list()
    chain     \* history: the revisions HEAD has named, oldest first

vars == <<files, head, lock, writer, reader, chain>>

Files == [seq : Nat, digest : Documents, parent : Documents \cup {None}, whole : BOOLEAN]

\* A writer outside append(), with the end of its last call.
Answered(state) == [pc |-> "idle", state |-> state, expected |-> None, document |-> None,
                    seq |-> 0, base |-> 0]
NotReading == [pc |-> "idle", at |-> None, got |-> <<>>]

\* A revision file named by its digest alone.
SameName_DigestOnly(f, g) == f.digest = g.digest

SameName(f, g) == f.seq = g.seq /\ f.digest = g.digest

-----------------------------------------------------------------------------
(* append().                                                               *)

Call(w, expected, document) ==
    /\ writer[w].pc = "idle"
    /\ Len(chain) < MaxLen
    /\ writer' = [writer EXCEPT ![w] = [pc |-> "lock", state |-> "asked", expected |-> expected,
                                        document |-> document, seq |-> 0,
                                        base |-> Len(chain)]]
    /\ UNCHANGED <<files, head, lock, reader, chain>>

\* A platform without fcntl.
TakeLock_NoFcntl(w) ==
    /\ writer[w].pc = "lock"
    /\ lock' = w
    /\ writer' = [writer EXCEPT ![w].pc = "head"]
    /\ UNCHANGED <<files, head, reader, chain>>

\* _chain_lock(): flock() waits for the holder.
TakeLock(w) ==
    /\ writer[w].pc = "lock"
    /\ lock = None
    /\ lock' = w
    /\ writer' = [writer EXCEPT ![w].pc = "head"]
    /\ UNCHANGED <<files, head, reader, chain>>

\* The lock is not released when the block is left.
Answer_KeepsLock(w, state) ==
    /\ writer' = [writer EXCEPT ![w] = Answered(state)]
    /\ UNCHANGED <<files, head, lock, reader, chain>>

\* The call ends and with it the lock it may hold.
Answer(w, state) ==
    /\ writer' = [writer EXCEPT ![w] = Answered(state)]
    /\ lock' = IF lock = w THEN None ELSE lock
    /\ UNCHANGED <<files, head, reader, chain>>

HeadDigest == IF head = None THEN None ELSE head.digest
NextSeq == IF head = None THEN 0 ELSE head.seq + 1

\* _read_head() under the lock and the comparison with expected_head.
ReadHead(w) ==
    /\ writer[w].pc = "head"
    /\ IF writer[w].expected = HeadDigest
       THEN /\ writer' = [writer EXCEPT ![w].pc = "open", ![w].seq = NextSeq]
            /\ UNCHANGED <<files, head, lock, reader, chain>>
       ELSE Answer(w, "refused")

\* Revision.build() on the head that was read.
Built(w, whole) ==
    [seq |-> writer[w].seq, digest |-> writer[w].document, parent |-> writer[w].expected,
     whole |-> whole]

\* The file of this name as write_text() leaves it; what an earlier call left is gone.
Written(w, whole) ==
    {f \in files : ~ SameName(f, Built(w, whole))} \cup {Built(w, whole)}

\* write_text() creates or truncates the file ...
OpenFile(w) ==
    /\ writer[w].pc = "open"
    /\ files' = Written(w, FALSE)
    /\ writer' = [writer EXCEPT ![w].pc = "write"]
    /\ UNCHANGED <<head, lock, reader, chain>>

\* ... and fills it.
WriteFile(w) ==
    /\ writer[w].pc = "write"
    /\ files' = Written(w, TRUE)
    /\ writer' = [writer EXCEPT ![w].pc = "replace"]
    /\ UNCHANGED <<head, lock, reader, chain>>

\* HEAD is replaced before the revision it names is written.
Replace_First(w) ==
    /\ writer[w].pc = "open"
    /\ head' = [seq |-> writer[w].seq, digest |-> writer[w].document]
    /\ chain' = Append(chain, [digest |-> writer[w].document, parent |-> writer[w].expected])
    /\ writer' = [writer EXCEPT ![w].pc = "unlock", ![w].state = "landed"]
    /\ files' = Written(w, FALSE)
    /\ UNCHANGED <<lock, reader>>

\* os.replace() of the temporary file that holds the new name.
Replace(w) ==
    /\ writer[w].pc = "replace"
    /\ head' = [seq |-> writer[w].seq, digest |-> writer[w].document]
    /\ chain' = Append(chain, [digest |-> writer[w].document, parent |-> writer[w].expected])
    /\ writer' = [writer EXCEPT ![w].pc = "unlock", ![w].state = "landed"]
    /\ UNCHANGED <<files, lock, reader>>

\* append() returns the revision.
Unlock(w) ==
    /\ writer[w].pc = "unlock"
    /\ Answer(w, "appended")

\* The process stops, or a system call raises: the lock goes, the files stay as they are.
Crash(w) ==
    /\ writer[w].pc # "idle"
    /\ Answer(w, "failed")

-----------------------------------------------------------------------------
(* list(), without the lock.                                               *)

\* HEAD is read; its file is read by the next step.
ReadName(c) ==
    /\ reader[c].pc = "idle"
    /\ head # None
    /\ reader' = [reader EXCEPT ![c] = [pc |-> "file", at |-> head, got |-> <<>>]]
    /\ UNCHANGED <<files, head, lock, writer, chain>>

\* A revision file is read.  Half a file cannot be parsed, and a HEAD that names no file
\* raises; a parent that is not there ends the list.
ReadFile(c) ==
    LET found == {f \in files : SameName(f, reader[c].at)}
        Broken == \E f \in found : ~ f.whole
    IN  /\ reader[c].pc = "file"
        /\ reader' =
             IF found = {} \/ Broken
             THEN [reader EXCEPT ![c].pc = IF Broken \/ reader[c].got = <<>> THEN "broken" ELSE "done"]
             ELSE LET f == CHOOSE g \in found : TRUE
                      got == Append(reader[c].got, [seq |-> f.seq, digest |-> f.digest])
                  IN  [reader EXCEPT ![c] =
                         [pc |-> IF f.parent = None \/ Len(got) = Limit THEN "done" ELSE "file",
                          at |-> [seq |-> f.seq - 1, digest |-> f.parent],
                          got |-> got]]
        /\ UNCHANGED <<files, head, lock, writer, chain>>

\* The result is dropped.
Drop(c) ==
    /\ reader[c].pc \in {"done", "broken"}
    /\ reader' = [reader EXCEPT ![c] = NotReading]
    /\ UNCHANGED <<files, head, lock, writer, chain>>

-----------------------------------------------------------------------------
Init ==
    /\ files = {}
    /\ head = None
    /\ lock = None
    /\ writer = [w \in Writers |-> Answered("idle")]
    /\ reader = [c \in Readers |-> NotReading]
    /\ chain = <<>>

AppendStep(w) ==
    TakeLock(w) \/ ReadHead(w) \/ OpenFile(w) \/ WriteFile(w) \/ Replace(w) \/ Unlock(w)

Next ==
    \/ \E w \in Writers :
        \/ \E expected \in Documents \cup {None}, document \in Documents :
              Call(w, expected, document)
        \/ AppendStep(w)
        \/ Crash(w)
    \/ \E c \in Readers : ReadName(c) \/ ReadFile(c) \/ Drop(c)

Spec == Init /\ [][Next]_vars

-----------------------------------------------------------------------------
(* Properties.                                                             *)

\* Files, HEAD and the calls keep their types, and only a call that runs holds the lock
\* (file.py:43-54).
TypeOK ==
    /\ files \subseteq Files
    /\ head \in Names \cup {None}
    /\ lock \in Writers \cup {None}
    /\ writer \in [Writers -> [pc : {"idle", "lock", "head", "open", "write", "replace", "unlock"},
                               state : States, expected : Documents \cup {None},
                               document : Documents \cup {None}, seq : Nat, base : Nat]]
    /\ \A c \in Readers :
          /\ reader[c].pc \in {"idle", "file", "done", "broken"}
          /\ reader[c].got \in Seq(Names)
    /\ \A w \in Writers : lock = w <=> writer[w].pc \notin {"idle", "lock"}

\* Whatever HEAD has named is there, whole and linked to its predecessor, although files
\* are written in place and calls stop half way (file.py:91-94).
CommittedIsWhole ==
    \A i \in 1 .. Len(chain) :
        /\ chain[i].parent = IF i = 1 THEN None ELSE chain[i - 1].digest
        /\ \E f \in files : f = [seq |-> i - 1, digest |-> chain[i].digest,
                                 parent |-> chain[i].parent, whole |-> TRUE]

\* A reader, which takes no lock, never meets half a file, and gets a contiguous piece of
\* the chain, complete up to its limit (file.py:104).
ReaderSeesChain ==
    \A c \in Readers :
        LET got == reader[c].got
        IN  /\ reader[c].pc # "broken"
            /\ \A i \in 1 .. Len(got) :
                  /\ got[i].seq = got[1].seq - (i - 1)
                  /\ got[i].digest = chain[got[i].seq + 1].digest
            /\ reader[c].pc = "done" =>
                  Len(got) = IF Limit <= got[1].seq THEN Limit ELSE got[1].seq + 1

\* The appends as their callers see them.
Calls == [w \in Writers |-> [state |-> writer[w].state, expected |-> writer[w].expected,
                            document |-> writer[w].document, base |-> writer[w].base]]

Abstract == INSTANCE RevisionChain WITH call <- Calls, Repeats <- FALSE

\* append() on a file system is the conditional append of the RevisionStore protocol
\* ("two writers cannot both see the same head", file.py:84).
ImplementsRevisionChain == Abstract!Spec

=============================================================================

---------------------------- MODULE PostgresStore ----------------------------
(***************************************************************************)
(* PostgresRevisionStore: one chain as the rows of one (workspace, kind).  *)
(* append() reads the newest row in one transaction and inserts the next   *)
(* one in another; only the primary key (workspace, kind, seq) keeps two   *)
(* writers apart.                                                          *)
(*                                                                         *)
(* One action is one statement at READ COMMITTED.  list() and get() are    *)
(* one statement each and need no model: they see the committed rows of    *)
(* one moment.                                                             *)
(***************************************************************************)
EXTENDS StoreConstants

VARIABLES
    rows,     \* the committed rows
    pending,  \* the row each writer's open transaction has inserted, or None
    writer,   \* the calls of append()
    chain     \* history: the rows in the order of their commits

vars == <<rows, pending, writer, chain>>

\* A writer outside append(), with the end of its last call.
Answered(state) == [pc |-> "idle", state |-> state, expected |-> None, document |-> None,
                    seen |-> None, base |-> 0]

Call(w, expected, document) ==
    /\ writer[w].pc = "idle"
    /\ Len(chain) < MaxLen
    /\ writer' = [writer EXCEPT ![w] = [pc |-> "head", state |-> "asked", expected |-> expected,
                                        document |-> document, seen |-> None, base |-> Len(chain)]]
    /\ UNCHANGED <<rows, pending, chain>>

Answer(w, state) == writer' = [writer EXCEPT ![w] = Answered(state)]

\* SELECT ... ORDER BY seq DESC LIMIT 1.
Newest == CHOOSE r \in rows : \A q \in rows : q.seq <= r.seq
HeadRow == IF rows = {} THEN None ELSE Newest

\* head() and the comparison with expected_head.
ReadHead(w) ==
    /\ writer[w].pc = "head"
    /\ IF writer[w].expected = IF HeadRow = None THEN None ELSE HeadRow.digest
       THEN writer' = [writer EXCEPT ![w].pc = "insert", ![w].seen = HeadRow]
       ELSE Answer(w, "refused")
    /\ UNCHANGED <<rows, pending, chain>>

\* Revision.build() that counts down.
Built_CountsDown(w) ==
    [seq |-> IF writer[w].seen = None THEN 0 ELSE writer[w].seen.seq - 1,
     digest |-> writer[w].document, parent |-> writer[w].expected]

\* Revision.build() on the head that was read.
Built(w) ==
    [seq |-> IF writer[w].seen = None THEN 0 ELSE writer[w].seen.seq + 1,
     digest |-> writer[w].document, parent |-> writer[w].expected]

\* A key that takes in the digest: rows of different documents never collide.
SameKey_WithDigest(r, q) == r.seq = q.seq /\ r.digest = q.digest

\* PRIMARY KEY (workspace, kind, seq).
SameKey(r, q) == r.seq = q.seq

\* INSERT: waits while another transaction holds the key.
Insert(w) ==
    /\ writer[w].pc = "insert"
    /\ \A v \in Writers : pending[v] # None => ~ SameKey(pending[v], Built(w))
    /\ \A r \in rows : ~ SameKey(r, Built(w))
    /\ pending' = [pending EXCEPT ![w] = Built(w)]
    /\ writer' = [writer EXCEPT ![w].pc = "commit"]
    /\ UNCHANGED <<rows, chain>>

\* IntegrityError: the key is taken by a committed row.
Collide(w) ==
    /\ writer[w].pc = "insert"
    /\ \E r \in rows : SameKey(r, Built(w))
    /\ Answer(w, "refused")
    /\ UNCHANGED <<rows, pending, chain>>

\* COMMIT at the end of the transaction's block.
Commit(w) ==
    /\ writer[w].pc = "commit"
    /\ rows' = rows \cup {pending[w]}
    /\ pending' = [pending EXCEPT ![w] = None]
    /\ chain' = Append(chain, [digest |-> pending[w].digest, parent |-> pending[w].parent])
    /\ writer' = [writer EXCEPT ![w].pc = "committed", ![w].state = "landed"]

\* append() returns the revision.
Return(w) ==
    /\ writer[w].pc = "committed"
    /\ Answer(w, "appended")
    /\ UNCHANGED <<rows, pending, chain>>

\* The process stops or the connection is lost, before or after the commit: an open
\* transaction is rolled back.
Crash(w) ==
    /\ writer[w].pc # "idle"
    /\ pending' = [pending EXCEPT ![w] = None]
    /\ Answer(w, "failed")
    /\ UNCHANGED <<rows, chain>>

Init ==
    /\ rows = {}
    /\ pending = [w \in Writers |-> None]
    /\ writer = [w \in Writers |-> Answered("idle")]
    /\ chain = <<>>

AppendStep(w) == ReadHead(w) \/ Insert(w) \/ Collide(w) \/ Commit(w) \/ Return(w)

Next ==
    \E w \in Writers :
        \/ \E expected \in Documents \cup {None}, document \in Documents :
              Call(w, expected, document)
        \/ AppendStep(w)
        \/ Crash(w)

Spec == Init /\ [][Next]_vars

-----------------------------------------------------------------------------
(* Properties.                                                             *)

\* Rows and calls keep their types, and only a transaction that is open has a row pending.
TypeOK ==
    /\ rows \subseteq Rows
    /\ writer \in [Writers -> [pc : {"idle", "head", "insert", "commit", "committed"},
                               state : States, expected : Documents \cup {None},
                               document : Documents \cup {None}, seen : Rows \cup {None},
                               base : Nat]]
    /\ \A w \in Writers : pending[w] = IF writer[w].pc = "commit" THEN Built(w) ELSE None

\* The committed rows are one chain: numbered without gap, each on the row below, in the
\* order of their commits (postgres.py:28-31, 99-112).
RowsAreChain ==
    /\ rows = {[seq |-> i - 1, digest |-> chain[i].digest, parent |-> chain[i].parent] :
                  i \in 1 .. Len(chain)}
    /\ \A i \in 1 .. Len(chain) :
          chain[i].parent = IF i = 1 THEN None ELSE chain[i - 1].digest

\* The appends as their callers see them.
Calls == [w \in Writers |-> [state |-> writer[w].state, expected |-> writer[w].expected,
                            document |-> writer[w].document, base |-> writer[w].base]]

Abstract == INSTANCE RevisionChain WITH call <- Calls, Repeats <- FALSE

\* append() on a table is the conditional append of the RevisionStore protocol, although
\* the head it compares is not locked (postgres.py:91-113).
ImplementsRevisionChain == Abstract!Spec

=============================================================================

------------------------------ MODULE MCStores ------------------------------
(***************************************************************************)
(* FileStore, PostgresStore and Workspaces for TLC: a behaviour is one of  *)
(* the three.  The first two have the calls and the chain in common, which *)
(* the third, a layer above them, leaves alone.                            *)
(***************************************************************************)
EXTENDS StoreConstants, TLC

CONSTANTS w1, w2, d1, d2, c1

VARIABLES store, files, head, lock, reader, rows, pending, writer, chain, chains, client

File == INSTANCE FileStore
Postgres == INSTANCE PostgresStore
Layer == INSTANCE Workspaces

\* What one store does not have keeps one value in the behaviours of the others.
NoFileStore == files = {} /\ head = None /\ lock = None /\ reader = <<>>
NoPostgresStore == rows = {} /\ pending = <<>>
NoLayer == chains = <<>> /\ client = <<>>

Init ==
    \/ store = "file" /\ File!Init /\ NoPostgresStore /\ NoLayer
    \/ store = "postgres" /\ Postgres!Init /\ NoFileStore /\ NoLayer
    \/ store = "layer" /\ Layer!Init /\ NoPostgresStore /\ File!Init

Next ==
    /\ UNCHANGED store
    /\ \/ store = "file" /\ File!Next /\ UNCHANGED <<rows, pending, chains, client>>
       \/ store = "postgres" /\ Postgres!Next
          /\ UNCHANGED <<files, head, lock, reader, chains, client>>
       \/ store = "layer" /\ Layer!Next
          /\ UNCHANGED <<files, head, lock, reader, rows, pending, writer, chain>>

Spec == Init /\ [][Next]_<<store, File!vars, Postgres!vars, Layer!vars>>

\* The type invariants, each in its store's behaviours.
StoresTypeOK ==
    CASE store = "file" -> File!TypeOK
      [] store = "postgres" -> Postgres!TypeOK
      [] store = "layer" -> Layer!TypeOK

\* What is committed stays one chain, and is whole: of FileStore that every file HEAD leads to
\* is there and written out, of PostgresStore that the rows are the chain in its order, of the
\* layer that a graph chain has one seed at its bottom and edits on the graphs they were made
\* for (file.py:79-95, postgres.py:20-33, revision.py:36-62).
StoredIsChain ==
    CASE store = "file" -> File!CommittedIsWhole
      [] store = "postgres" -> Postgres!RowsAreChain
      [] store = "layer" -> Layer!SeedIsFirst /\ Layer!EditsFitBase

\* A reader without a lock sees revisions that were a chain, and show a score that is not
\* older than its graph (file.py:97-119, cli.py:166-171).
ReaderSeesChain ==
    CASE store = "file" -> File!ReaderSeesChain
      [] store = "postgres" -> TRUE
      [] store = "layer" -> Layer!ShownScoreNotOlder

\* Workspaces: nobody is refused an append for what he appended himself (revision.py:84-122).
RefusedHasRival == store = "layer" => Layer!RefusedHasRival

\* FileStore and PostgresStore implement RevisionChain; the calls and the chain are the same
\* variables in both.
ImplementsRevisionChain == File!ImplementsRevisionChain /\ Postgres!ImplementsRevisionChain

Symmetry == Permutations(Writers) \cup Permutations(Readers) \cup Permutations(Documents)
=============================================================================

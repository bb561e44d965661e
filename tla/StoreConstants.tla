--------------------------- MODULE StoreConstants ---------------------------
(***************************************************************************)
(* What the models of the local stores share: who calls them and with      *)
(* what.                                                                   *)
(***************************************************************************)
EXTENDS Integers, Sequences

CONSTANTS
    Writers,     \* callers of append(), in one process or several
    Readers,     \* callers of list()
    Documents,   \* documents, which are their own digests
    Limit,       \* list(limit)
    MaxLen,      \* bound: no revision is appended to a chain of this length
    None

ASSUME ConstantsAssumption ==
    /\ None \notin Documents \cup Writers
    /\ Limit \in Nat \ {0}
    /\ MaxLen \in Nat

\* What HEAD of a directory holds: the name of a revision's file.
Names == [seq : Nat, digest : Documents]

\* A row of the table of revisions.
Rows == [seq : Nat, digest : Documents, parent : Documents \cup {None}]

\* How callers of a workspace end, what they append to, and where its graphs are from.
Markers == {"refused", "head_moved", "done", "source", "target", "saves",
            "init", "skeleton", "transfer", "accepted", "saved"}

ASSUME MarkerAssumption == None \notin Names \cup Rows \cup Markers

\* How far an append has got, as its caller and RevisionChain see it.
States == {"idle", "asked", "landed", "appended", "refused", "failed"}

=============================================================================

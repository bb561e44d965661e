\* Violated: a writer is given a revision another writer made.
SPECIFICATION Spec
CONSTANTS
    w1 = w1
    w2 = w2
    d1 = d1
    d2 = d2
    c1 = c1
    None = None
    Writers = {w1, w2}
    Readers = {}
    Documents = {d1, d2}
    ContentTag = FALSE
    Repeats = FALSE
    Limit = 1
    MaxLen = 3
SYMMETRY Symmetry
INVARIANTS
    StoredAsWritten
CHECK_DEADLOCK FALSE

\* Two writers, stopped anywhere, and for the file store a reader without the lock; above the
\* stores two callers over the graphs of two workspaces and a chain of saves.
SPECIFICATION Spec
CONSTANTS
    w1 = w1
    w2 = w2
    d1 = d1
    d2 = d2
    c1 = c1
    None = None
    Writers = {w1, w2}
    Readers = {c1}
    Documents = {d1, d2}
    Limit = 2
    MaxLen = 3
SYMMETRY Symmetry
INVARIANTS
    StoresTypeOK
    StoredIsChain
    ReaderSeesChain
    RefusedHasRival
PROPERTIES
    ImplementsRevisionChain
CHECK_DEADLOCK FALSE

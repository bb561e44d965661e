\* Two writers and a reader on S3 semantics, with a client library that repeats requests;
\* a call may stop anywhere.
SPECIFICATION Spec
CONSTANTS
    w1 = w1
    w2 = w2
    d1 = d1
    d2 = d2
    c1 = c1
    None = None
    Writers = {w1, w2}
    Readers = {c1}
    Documents = {d1, d2}
    ContentTag = TRUE
    Repeats = TRUE
    Limit = 2
    MaxLen = 3
SYMMETRY Symmetry
INVARIANTS
    TypeOK
    ChainStored
    ReaderSeesChain
PROPERTIES
    ImplementsRevisionChain
CHECK_DEADLOCK FALSE

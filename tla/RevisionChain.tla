---------------------------- MODULE RevisionChain ----------------------------
(***************************************************************************)
(* What RevisionStore promises (stores/base.py): per workspace and kind    *)
(* one chain that grows at its end, by appends that name the head they     *)
(* expect.  An append lands at one moment, between the call and its        *)
(* answer; a call may also fail without an answer, before or after that    *)
(* moment.                                                                 *)
(***************************************************************************)
EXTENDS Integers, Sequences

CONSTANTS
    Writers,     \* callers of append()
    Documents,   \* documents; a digest covers the document only, so it is the document
    Repeats,     \* an append that took effect may be sent again, and be refused
    None         \* no digest: the head of an empty chain

VARIABLES
    chain,   \* the revisions, oldest first: digest, and the digest of the one below
    call     \* per writer: the append it last called, and how far that got

HeadOf(c) == IF c = <<>> THEN None ELSE c[Len(c)].digest

\* A call that has its answer, or none yet.
Answered(state) == [state |-> state, expected |-> None, document |-> None, base |-> 0]

Init ==
    /\ chain = <<>>
    /\ call = [w \in Writers |-> Answered("idle")]

Ask(w, expected, document) ==
    /\ call[w].state \notin {"asked", "landed"}
    /\ call' = [call EXCEPT ![w] = [state |-> "asked", expected |-> expected,
                                    document |-> document, base |-> Len(chain)]]
    /\ UNCHANGED chain

Land(w) ==
    /\ call[w].state = "asked"
    /\ call[w].expected = HeadOf(chain)
    /\ chain' = Append(chain, [digest |-> call[w].document, parent |-> HeadOf(chain)])
    /\ call' = [call EXCEPT ![w].state = "landed"]

Return(w) ==
    /\ call[w].state = "landed"
    /\ call' = [call EXCEPT ![w] = Answered("appended")]
    /\ UNCHANGED chain

\* HeadMoved: the head is another, or has moved since the call.
Refuse(w) ==
    /\ call[w].state = "asked"
    /\ call[w].expected # HeadOf(chain) \/ Len(chain) > call[w].base
    /\ call' = [call EXCEPT ![w] = Answered("refused")]
    /\ UNCHANGED chain

\* HeadMoved, to a call that landed: the head it left behind is not the one it names.
Misreport(w) ==
    /\ Repeats
    /\ call[w].state = "landed"
    /\ call' = [call EXCEPT ![w] = Answered("refused")]
    /\ UNCHANGED chain

Fail(w) ==
    /\ call[w].state \in {"asked", "landed"}
    /\ call' = [call EXCEPT ![w] = Answered("failed")]
    /\ UNCHANGED chain

Next ==
    \E w \in Writers :
        \/ \E expected \in Documents \cup {None}, document \in Documents :
              Ask(w, expected, document)
        \/ Land(w) \/ Return(w) \/ Refuse(w) \/ Misreport(w) \/ Fail(w)

Spec == Init /\ [][Next]_<<chain, call>>

=============================================================================

---------------------------- MODULE RejectionText ----------------------------
(***************************************************************************)
(* render_for_refiner() of rejections.py: rejection memory as text, cut to *)
(* a cap in three stages.  Of an entry the model keeps its two lengths,    *)
(* with the line break that joins it to the others.                        *)
(***************************************************************************)
EXTENDS RoundConstants, SequencesExt

VARIABLES
    entries,    \* rejection memory, oldest first
    wanted,     \* full_entries
    cap,        \* char_cap
    rendered,   \* what the text shows: the entry's number, and whether in full
    stage,      \* "lines", "full", "done"
    length      \* of the text returned

vars == <<entries, wanted, cap, rendered, stage, length>>

NonAccepted == {i \in 1 .. Len(entries) : ~ entries[i].accepted}

\* The most recent full_entries entries that were not accepted.
Recent == {i \in NonAccepted : Cardinality({j \in NonAccepted : j > i}) < wanted}

Size(item) == IF item.full THEN entries[item.entry].full ELSE entries[item.entry].line

\* build()
TextSize(items) == HeadLength + FoldLeft(LAMBDA n, item : n + Size(item), 0, items)

Positions(full) == {i \in 1 .. Len(rendered) : rendered[i].full = full}
Oldest(is) == CHOOSE i \in is : \A j \in is : i <= j
Newest(is) == CHOOSE i \in is : \A j \in is : i >= j

TooLong == TextSize(rendered) > cap

\* The newest line goes.
DropLine_Newest ==
    /\ stage = "lines"
    /\ TooLong
    /\ Positions(FALSE) # {}
    /\ rendered' = RemoveAt(rendered, Newest(Positions(FALSE)))
    /\ UNCHANGED <<entries, wanted, cap, stage, length>>

\* The first loop: the oldest line goes.
DropLine ==
    /\ stage = "lines"
    /\ TooLong
    /\ Positions(FALSE) # {}
    /\ rendered' = RemoveAt(rendered, Oldest(Positions(FALSE)))
    /\ UNCHANGED <<entries, wanted, cap, stage, length>>

\* A demoted entry is a line, and lines go first.
Demote_BackToLines ==
    /\ stage = "lines" /\ Positions(FALSE) = {}
    /\ TooLong
    /\ Positions(TRUE) # {}
    /\ rendered' = [rendered EXCEPT ![Oldest(Positions(TRUE))].full = FALSE]
    /\ UNCHANGED <<entries, wanted, cap, stage, length>>

\* A demoted entry goes to the end of the text.
Demote_MovesLast ==
    /\ stage = "full" \/ (stage = "lines" /\ Positions(FALSE) = {})
    /\ TooLong
    /\ Positions(TRUE) # {}
    /\ LET i == Oldest(Positions(TRUE))
       IN  rendered' = Append(RemoveAt(rendered, i), [rendered[i] EXCEPT !.full = FALSE])
    /\ stage' = "full"
    /\ UNCHANGED <<entries, wanted, cap, length>>

\* The second loop: the oldest entry in full becomes a line.
Demote ==
    /\ stage = "full" \/ (stage = "lines" /\ Positions(FALSE) = {})
    /\ TooLong
    /\ Positions(TRUE) # {}
    /\ rendered' = [rendered EXCEPT ![Oldest(Positions(TRUE))].full = FALSE]
    /\ stage' = "full"
    /\ UNCHANGED <<entries, wanted, cap, length>>

\* The mark is put behind a text of the length of the cap.
Return_MarkOnTop ==
    /\ stage # "done"
    /\ TooLong => Positions(TRUE) = {} /\ (stage = "full" \/ Positions(FALSE) = {})
    /\ length' = IF TooLong THEN (IF cap > 0 THEN cap ELSE 0) + MarkLength ELSE TextSize(rendered)
    /\ stage' = "done"
    /\ UNCHANGED <<entries, wanted, cap, rendered>>

\* The text fits, or it is cut behind the cap less the mark.
Return ==
    /\ stage # "done"
    /\ TooLong => Positions(TRUE) = {} /\ (stage = "full" \/ Positions(FALSE) = {})
    /\ length' = IF TooLong THEN (IF cap > MarkLength THEN cap - MarkLength ELSE 0) + MarkLength ELSE TextSize(rendered)
    /\ stage' = "done"
    /\ UNCHANGED <<entries, wanted, cap, rendered>>

Init ==
    /\ entries \in UNION {[1 .. n -> EntryTexts] : n \in 1 .. MaxEntries}
    /\ wanted \in FullEntries
    /\ cap \in Caps
    /\ rendered = [i \in 1 .. Len(entries) |-> [entry |-> i, full |-> i \in Recent]]
    /\ stage = "lines"
    /\ length = 0

Next == DropLine \/ Demote \/ Return

Spec == Init /\ [][Next]_vars

-----------------------------------------------------------------------------
(* Properties.                                                             *)

Shown(full) == {rendered[i].entry : i \in Positions(full)}

\* The text shows entries of memory in their order, only recent ones in full
\* (rejections.py:246-282).
TypeOK ==
    /\ stage \in {"lines", "full", "done"}
    /\ length \in Nat
    /\ \A i \in 1 .. Len(rendered) : rendered[i].entry \in 1 .. Len(entries)
    /\ \A i, j \in 1 .. Len(rendered) : i < j => rendered[i].entry < rendered[j].entry
    /\ Shown(TRUE) \subseteq Recent

\* What is cut is always older than what of its kind is left: no line goes while an older
\* one stays, no entry loses its text while an older one keeps it, or while a line of another
\* entry is left (rejections.py:264-280).
OldestGoFirst ==
    LET lines == 1 .. Len(entries) \ Recent
        shown == Shown(TRUE) \cup Shown(FALSE)
        demoted == Recent \ Shown(TRUE)
    IN  /\ \A i \in lines \cap shown, j \in lines \ shown : j < i
        /\ \A i \in demoted, j \in Shown(TRUE) : i < j
        /\ demoted # {} => lines \cap shown = {}

\* The refiner always reads of the most recent refusals, if only a line of each, as long as
\* the text itself is not cut (rejections.py:246-282).
RecentStayNamed == Recent \subseteq Shown(TRUE) \cup Shown(FALSE)

\* The text keeps the cap, unless the cap is shorter than the mark of a cut text; it is cut
\* only with nothing but recent lines left (rejections.py:264-282).
CapIsKept ==
    stage = "done" =>
        /\ length <= (IF cap > MarkLength THEN cap ELSE MarkLength) \/ ~ TooLong
        /\ TooLong => Shown(TRUE) = {} /\ Shown(FALSE) = Recent

\* What a cap takes from the text is what the refiner needs least (rejections.py:246-282).
LeastNeededGoesFirst == OldestGoFirst /\ RecentStayNamed /\ CapIsKept

=============================================================================

------------------------------- MODULE TailCut -------------------------------
(***************************************************************************)
(* tail() of traces.py with a token counter: the end of a text that fits a *)
(* cap, found by bisection.  The counter is the host's and any function:   *)
(* of a text only what it counts from each character to the end is kept.   *)
(***************************************************************************)
EXTENDS RoundConstants

VARIABLES
    count,    \* tokens of the text from a character on
    limit,    \* cap
    lo, hi,   \* the bounds of the search
    start     \* where the text returned starts, or None

vars == <<count, limit, lo, hi, start>>

\* A cap of nothing, or a text that fits.
Whole ==
    /\ start = None
    /\ limit <= 0 \/ count[0] <= limit
    /\ start' = IF limit <= 0 THEN TextLength ELSE 0
    /\ UNCHANGED <<count, limit, lo, hi>>

\* An end that fits is not looked at again.
Halve_StepsBelow ==
    /\ start = None
    /\ limit > 0 /\ count[0] > limit
    /\ lo < hi
    /\ LET mid == (lo + hi) \div 2
       IN  IF count[mid] <= limit
           THEN hi' = mid - 1 /\ lo' = lo
           ELSE lo' = mid + 1 /\ hi' = hi
    /\ UNCHANGED <<count, limit, start>>

\* An end of the length of the cap does not fit.
Halve_Strict ==
    /\ start = None
    /\ limit > 0 /\ count[0] > limit
    /\ lo < hi
    /\ LET mid == (lo + hi) \div 2
       IN  IF count[mid] < limit
           THEN hi' = mid /\ lo' = lo
           ELSE lo' = mid + 1 /\ hi' = hi
    /\ UNCHANGED <<count, limit, start>>

\* The bisection: an end that fits is an upper bound.
Halve ==
    /\ start = None
    /\ limit > 0 /\ count[0] > limit
    /\ lo < hi
    /\ LET mid == (lo + hi) \div 2
       IN  IF count[mid] <= limit
           THEN hi' = mid /\ lo' = lo
           ELSE lo' = mid + 1 /\ hi' = hi
    /\ UNCHANGED <<count, limit, start>>

Found ==
    /\ start = None
    /\ limit > 0 /\ count[0] > limit
    /\ lo >= hi
    /\ start' = lo
    /\ UNCHANGED <<count, limit, lo, hi>>

\* Nothing is counted in an empty text.
Init ==
    /\ count \in {c \in [0 .. TextLength -> 0 .. MaxCount] : c[TextLength] = 0}
    /\ limit \in 0 .. MaxCount
    /\ lo = 0
    /\ hi = TextLength
    /\ start = None

Next == Whole \/ Halve \/ Found

Spec == Init /\ [][Next]_vars

-----------------------------------------------------------------------------
(* Properties.                                                             *)

\* The bounds stay in the text.
TypeOK ==
    /\ count \in [0 .. TextLength -> 0 .. MaxCount]
    /\ limit \in 0 .. MaxCount
    /\ lo \in 0 .. TextLength /\ hi \in 0 .. TextLength
    /\ lo <= hi
    /\ start \in 0 .. TextLength \cup {None}

\* Whatever the counter, the end of the text that is kept is within the cap
\* (traces.py:236-245).
TailFits == start # None => count[start] <= limit

\* With a counter that never counts more in a shorter end of the text, no longer end of
\* it would have fitted (traces.py:238-245).
TailIsLongest ==
    start # None /\ (\A i, j \in 0 .. TextLength : i <= j => count[j] <= count[i]) =>
        \A i \in 0 .. start - 1 : limit <= 0 \/ count[i] > limit

\* The end kept is the longest that fits (traces.py:229-245).
LongestEndKept == TailFits /\ TailIsLongest

=============================================================================
